SPECIFICATION QueueSpec
VIEW LiveState
SYMMETRY ItemSymmetry
CONSTANTS
    NULL = NULL
    IDLE = IDLE
    MaxTasks = 2
    TaskSets <- MCTaskSets
    PriorityCount = 2
    MaxHeld = 255
    TickMod = 4
    Timeouts = {0, 1, 3}
    WaitLists = {read_list, write_list}
    read_list = read_list
    write_list = write_list
    Items = {a, b}
    a = a
    b = b
    Capacity = 2
INVARIANTS
    QueueTypeOK
    QueueCallHasReason
    TimeoutIsWaited
    NoLostWakeup
    HighestPriorityRuns
PROPERTY
    IsFifo
