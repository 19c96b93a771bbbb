CONSTANTS
    NumProcs = 2
    Quota <- ShellOnly
    InFlight = 2
    MaxPending = 1
    CqEntries = 3
    StashSlots = 1
    InputCap = 1
    MaxKeys = 1
    WaitTwice = FALSE
    None = None
SPECIFICATION Spec
PROPERTIES
    ImplementsRequests
    KeyWakesReader
    PostedIsReturned
    ExitWakesParent
CHECK_DEADLOCK FALSE
