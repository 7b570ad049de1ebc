SPECIFICATION QueueSpec
VIEW LiveState
CONSTANTS
    NULL = NULL
    IDLE = IDLE
    MaxTasks = 2
    TaskSets <- MCTaskSets
    PriorityCount = 2
    MaxHeld = 255
    TickMod = 4
    Timeouts = {2}
    WaitLists = {read_list, write_list}
    read_list = read_list
    write_list = write_list
    Items = {a}
    a = a
    Capacity = 2
INVARIANT
    TimeoutIsWaited
