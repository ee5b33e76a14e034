SPECIFICATION OutputFairSpec
CONSTANTS
    ByteBits = 2
    Range8 = 256
    Range16 = 65536
    RangeUnsigned = 1024
    Unknown = Unknown
    Garbled = Garbled
    Frames <- MCFrames
    BytesPerGlyphRow = 1
    RowsPerGlyph = 2
    GlyphRunes = {" ", "A", "B"}
    Glyph <- MCGlyph
    Strings <- MCStrings
    Calls <- MCCalls
    Capacity = 3
INVARIANTS
    TypeOK
    CursorOnScreen
    GlyphsAccepted
    WritesFrameOnly
PROPERTIES
    ShowsScreen
    OutputEnds
    ChunksMakeTheText
