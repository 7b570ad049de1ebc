SPECIFICATION FairSpec
VIEW LiveState
CONSTANTS
    NULL = NULL
    IDLE = IDLE
    MaxTasks = 2
    PriorityCount = 2
    MaxHeld = 255
    TickMod = 4
    WaitLists = {}
INVARIANTS
    TypeOK
    NoAssertFails
    NoTaskLost
    ReadyListsAgree
    DelayOrder
    HighestPriorityRuns
    IdleOnlyWhenNothingReady
PROPERTIES
    WakesOnItsTick
    DelayEnds
    TopPriorityRuns
