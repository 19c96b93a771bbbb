CONSTANTS
    NumProcs = 1
    IdleTicks = 1
    CqEntries = 2
    Batch = 2
    Spinning = FALSE
    Exiting = FALSE
SPECIFICATION Spec
PROPERTIES
    WaitReturns
