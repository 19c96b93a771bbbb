CONSTANTS
    NumProcs = 1
    IdleTicks = 1
    CqEntries = 2
    Batch = 1
    Spinning = TRUE
    Exiting = FALSE
SPECIFICATION WarmSpec
PROPERTIES
    PublishedIsConsumed
