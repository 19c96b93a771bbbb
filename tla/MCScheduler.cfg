CONSTANTS
    MaxTasks = 4
    MaxSleep = 1
SPECIFICATION MCSpec
INVARIANTS
    TypeOK
    CurrentRunnable
    ContextsSaved
    IdleUnmasked
    BoundedWait
PROPERTIES
    RunnableRuns
    SleeperWakes
