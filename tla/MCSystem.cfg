SPECIFICATION SysSpec
VIEW LiveState
CONSTANTS
    NULL = NULL
    IDLE = IDLE
    MaxTasks = 3
    TaskSets <- MCTaskSets
    PriorityCount = 2
    MaxHeld = 2
    TickMod = 3
    TakeTimeouts = {2}
    LockTimeouts = {1}
    Delays = {1}
    WaitLists = {s, mtx}
    Semaphores = {s}
    Mutexes = {mtx}
    s = s
    mtx = mtx
    MaxCount = 1
INVARIANTS
    BoostReordersWaiters
    GuaranteesCompose
