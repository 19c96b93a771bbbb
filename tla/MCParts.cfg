SPECIFICATION Spec
CONSTANTS
    RingEntries = 2
    IndexRange = 4
    Tags = {1, 2, 3}
    InFlight = 2
    Tasks = {"t1", "t2", "t3"}
    INPUT_BUF_SIZE = 3
    Keys = {1, 2}
    Backlog = 2
    Ticks = 2
    Rounds = 1
    Pause = 2
    MemSize = 4
    HeapStart = 8
    HeapSize = 6
    AddrTop = 16
    Sizes = {1, 2, 3}
    Aligns = {1, 2}
    Owners = {"stack", "tasks"}
    MAX_LINE = 3
    Glyphs = {"s", "x"}
    Width = 8
    DecBuf = 4
    Codes <- I8
    Commands <- TwoCommands
INVARIANTS
    RoomForAll
    EndedBeforeSwitch
    BlocksIntact
    HeapReclaimed
    RunsWhatIsShown
    ReportsExitCode
    OwnContext
    MaskedLocksFree
    RoutinesCorrect
PROPERTIES
    ImplementsQueues
    ImplementsInputQueue
    BootCompletes
CHECK_DEADLOCK FALSE
