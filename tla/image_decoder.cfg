SPECIFICATION FairSpec
CHECK_DEADLOCK FALSE
CONSTANTS
    Orders = {"small", "large"}
    NoOrder = NoOrder
    FrameCount = 3
    LoopCount = 2
    MaxTimers = 2
    PlatformMayFail = TRUE
    MaxCalls = 5
INVARIANTS
    AssertionsHold
PROPERTIES
    PresentsInOrder
    OwedIsPresented
