SPECIFICATION Spec
CONSTANTS
    NUL = "NUL"
    Cells = 7
    Runes = {"NUL", "-", "0", "1", "5"}
    Memories <- MCMemories
    Lengths = {0, 1, 3, 5}
    Largest = 511
    Overflowed <- MCOverflowed
CHECK_DEADLOCK FALSE
INVARIANTS
    ParsesNumbers
    ReadsAtMostOneBeyond
