SPECIFICATION FairSpec
CONSTANTS
    TagLists <- MCTagLists
    AnyDepth = {0, 32}
    Cpus <- MCCpus
    LoaderPics <- MCLoaderPics
    Devices <- MCDevices
    Capacity = 3
    NoCpuid <- MCNoCpuid
    NoApic <- MCNoApic
    Greeting <- MCGreeting
    Halting <- MCHalting
INVARIANTS
    LinesRemapped
CHECK_DEADLOCK FALSE
