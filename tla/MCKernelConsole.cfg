SPECIFICATION FairSpec
CONSTANTS
    ByteBits = 2
    Range8 = 256
    Range16 = 65536
    RangeUnsigned = 1024
    Unknown = Unknown
    Nybbles = 2
    Frames <- MCFrames
    BytesPerGlyphRow = 1
    RowsPerGlyph = 2
    Vectors <- MCVectors
    MaxInterrupts = 3
    Main = Main
    Runes <- MCRunes
    MainStrings <- MCMainStrings
    Announcement <- MCAnnouncement
    Name <- MCName
INVARIANTS
    TypeOK
    CursorSettles
    DrawsInFrame
    OwnNumberShown
    NestingBounded
    RoutinesPrepared
PROPERTIES
    ComesToRest
