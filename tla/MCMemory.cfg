CONSTANTS
    Entries = 3
    PageSize = 2
    KernelEnd = 3
    RamTop = 51
    AddrTop = 128
    HeapPage = 18
    HeapPages = 1
    UserStackPage = 29
    UserRingPage = 30
    Images <- SmallImages
    MaxProcs = 3
    ProbedAddrs <- Addrs
    ProbedLens <- Lens
SPECIFICATION Spec
INVARIANTS
    MappedIsOwned
    FramesAccounted
    KernelMapped
    SpaceInstalled
    NoStaleTranslation
    UserRangeMapped
CHECK_DEADLOCK FALSE
