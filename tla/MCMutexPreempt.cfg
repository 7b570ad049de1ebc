SPECIFICATION MutexSpec
SYMMETRY MutexSymmetry
VIEW LiveState
CONSTANTS
    NULL = NULL
    IDLE = IDLE
    MaxTasks = 3
    TaskSets <- MCTaskSets
    PriorityCount = 2
    MaxHeld = 2
    LockTimeouts = {0, 1, 2}
    Delays = {1}
    TickMod = 3
    WaitLists = {m1, m2}
    Mutexes = {m1, m2}
    m1 = m1
    m2 = m2
INVARIANT HighestPriorityRuns
