SPECIFICATION FairSpec
CONSTANTS
    Nybbles = 16
    Requests <- MCRequests
    NUL = "NUL"
    Blank = "blank"
    Modulus = 64
    Sizes = {0, 16, 17, 20, 21, 22}
    Lengths = {0, 1, 2, 8, 15, 16}
CHECK_DEADLOCK FALSE
INVARIANTS
    SignedFaithful
