SPECIFICATION FairSpec
CHECK_DEADLOCK FALSE
CONSTANTS
    MaxTime = 3
    MaxSkew = 1
    Sub = 2
    Infinite = 15
    Intervals = {0, 1}
    QueueMayFail = FALSE
    DrawMayFail = FALSE
    CanToggle = {"ticks", "render"}
PROPERTIES
    KeepsPromises
    ShutdownReturns
    DroppedTicksMadeUp
