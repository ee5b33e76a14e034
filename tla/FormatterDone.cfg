SPECIFICATION FairSpec
CONSTANTS
    Runes <- MCRunes
    NUL = "NUL"
    NullFormat = NullFormat
    Junk = "z"
    Words <- MCWords
    Calls <- MCCalls
    HexString <- MCHexString
    DecimalString <- MCDecimalString
    IntegerArgument <- MCIntegerArgument
    Nybbles = 16
    Sizes = {0, 1, 2, 3, 4, 5, 8}
    Pieces = 2
CHECK_DEADLOCK FALSE
INVARIANTS
    DoneMeansAllShown
