CONSTANTS
    NumProcs = 2
    IdleTicks = 1
    CqEntries = 2
    Batch = 1
    Spinning = FALSE
    Exiting = TRUE
SPECIFICATION Spec
INVARIANTS
    DrainInOwnSpace
CHECK_DEADLOCK FALSE
