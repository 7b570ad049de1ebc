SPECIFICATION FairDiagSpec
VIEW LiveState
CONSTANTS
    NULL = NULL
    IDLE = IDLE
    HANDLER = HANDLER
    MaxTasks = 2
    FpuThreads = {NULL, 0, 1}
    Prios <- MCPrios
    PriorityCount = 1
    MaxHeld = 255
    TickMod = 3
    WaitLists = {}
    StackWords = 64
    GuardWords = 4
    Depths = {0, 61}
    Setups <- MCSetups
INVARIANTS
    ContextIntact
    ParkedContexts
    OverflowCaught
    RecordTellsCause
    FaultInfoOfThread
PROPERTY
    StartCompletes
CHECK_DEADLOCK FALSE
