CONSTANTS
    NumProcs = 2
    Quota <- ShellThree
    InFlight = 2
    MaxPending = 2
    CqEntries = 3
    StashSlots = 1
    InputCap = 2
    MaxKeys = 3
    WaitTwice = FALSE
    None = None
SPECIFICATION Spec
INVARIANTS
    InputInOrder
    MaskedIffFull
    ParkedMeansNoInput
    BlockedHasWaker
    ResultsTrue
    NothingLost
CHECK_DEADLOCK FALSE
