CONSTANTS
    NumProcs = 1
    IdleTicks = 1
    CqEntries = 2
    Batch = 1
    Spinning = FALSE
    Exiting = TRUE
SPECIFICATION Spec
INVARIANTS
    LiveSpaceNotFreed
CHECK_DEADLOCK FALSE
