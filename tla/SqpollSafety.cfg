CONSTANTS
    NumProcs = 2
    IdleTicks = 1
    CqEntries = 2
    Batch = 2
    Spinning = TRUE
    Exiting = TRUE
SPECIFICATION Spec
INVARIANTS
    UserInOwnSpace
    NoTrapWhilePolling
    InFlightAccounted
    BlockedHasWaker
CHECK_DEADLOCK FALSE
