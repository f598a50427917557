SPECIFICATION Spec
CONSTANTS
    MaxTime = 4
    MaxSkew = 1
    Sub = 2
    Infinite = 15
    Intervals = {0, 1, 2}
    QueueMayFail = TRUE
    DrawMayFail = TRUE
    CanToggle = {"ticks", "render"}
INVARIANTS
    TypeOK
    OneTickInFlight
    AssertionsHold
    NoUseAfterTeardown
    NoLostWakeup
    RenderStateAgrees
PROPERTIES
    NeverEarly
    NeverPostponed
    ClockMonotone
    ImplementsService
