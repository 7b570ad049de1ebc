SPECIFICATION SemSpec
VIEW LiveState
CONSTANTS
    NULL = NULL
    IDLE = IDLE
    MaxTasks = 3
    TaskSets <- MCTaskSets
    PriorityCount = 2
    MaxHeld = 255
    TickMod = 4
    TakeTimeouts = {0, 2, 3}
    WaitLists = {s1}
    Semaphores = {s1}
    s1 = s1
    MaxCount = 2
INVARIANTS
    ReleasedTaskPreempts
    TokensConserved
    NobodyWaitsForAvailable
    TakeHasReason
PROPERTY
    EqualWaitersFIFO
