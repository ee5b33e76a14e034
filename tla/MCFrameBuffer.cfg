SPECIFICATION Spec
CONSTANTS
    ByteBits = 2
    Range8 = 16
    Range16 = 32
    RangeUnsigned = 1024
    Unknown = Unknown
    Frames <- MCFrames
    Bitmaps <- MCBitmaps
    Coordinates = {0, 1, 2, 3, 4, 5, 6}
    LineLengths = {0, 1, 5, 7}
    Colors = {"red"}
    MaxCalls = 2
CHECK_DEADLOCK FALSE
PROPERTIES
    GuardedStayInFrame
    BitmapDrawn
    ShiftMovesRows
    RowsFilled
