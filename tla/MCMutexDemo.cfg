SPECIFICATION DemoSpec
CONSTANTS
    NULL = NULL
    IDLE = IDLE
    MaxTasks = 2
    TaskSets <- MCTaskSets
    PriorityCount = 2
    MaxHeld = 1
    TickMod = 128
    LockTimeouts = {}
    Delays = {}
    WaitLists = {mtx}
    Mutexes = {mtx}
    mtx = mtx
    mutex = mtx
    LowHold = 50
    LowBlink = 1
    ReportAfter = 15
    HighBusy = 30
    HighSleep = 10
    HighBlink = 30
    HighInterval = 5
    Slack = 1
PROPERTY PlaysScript
