SPECIFICATION AppSpec
VIEW LiveState
CONSTANTS
    NULL = NULL
    IDLE = IDLE
    MaxTasks = 3
    TaskSets <- MCTaskSets
    RoleSets <- MCRoleSets
    PriorityCount = 2
    MaxHeld = 1
    TickMod = 4
    TakeTimeouts = {}
    WaitLists = {uart, sr, sw, br, bw}
    Semaphores = {uart}
    uart = uart
    uart_lock = uart
    sr = sr
    sw = sw
    br = br
    bw = bw
    shared_read = sr
    shared_write = sw
    button_read = br
    button_write = bw
    SharedCapacity = 1
    ButtonCapacity = 1
    MaxCount = 1
    RowLength = 2
    LedWaits <- MCLedWaits
    LedPeriod = 2
    HeartbeatInterval = 1
    ConsumerTimeout = 1
    ConsumerDelays = {1}
    Debounce = 1
    MaxPresses = 2
    MaxTicks = 2
    Rounds = 2
    Period = 2
    OnTime = 1
INVARIANTS
    RowsIntact
    EventsAccountedFor
CHECK_DEADLOCK FALSE
