-------------------------- MODULE UIThreadScheduler --------------------------
(***************************************************************************)
(* The frame scheduler both threads share                                  *)
(* (core/compositor/UIThreadScheduler.cpp).  Every method body that runs   *)
(* under m_NextTickLock is one step here; BeginTick and QueueTick do part  *)
(* of their work outside that lock and are two steps each.                 *)
(***************************************************************************)
EXTENDS RefreshAlignedClock

CONSTANTS
    Infinite,   \* XINFINITE, the largest XUINT32
    Sub         \* clock units in a millisecond

ASSUME SchedulerAssumption == Infinite \in Nat \ {0} /\ Sub \in Nat \ {0}

VARIABLES
    uiState,        \* m_currentState
    nextInterval,   \* m_nextTickIntervalInMilliseconds
    lastTick,       \* m_lastTickTimeInSeconds
    highPriority,   \* m_isHighPriority
    tickMessages,   \* WM_INTERNAL_TICK messages the dispatcher holds
    started,        \* CompositorScheduler::IsStarted()
    eventSet,       \* m_pCompositorWait, an auto-reset event
    earliestDue     \* history: when the earliest request for the next tick wants it

schedulerVars == <<uiState, nextInterval, lastTick, highPriority, earliestDue>>
wakeVars == <<started, eventSet>>

States == {"Waiting", "TickQueued", "Ticking"}
Never == -1

\* The cast of a time to whole milliseconds.
Ms(time) == time \div Sub

\* HasRequestedAdditionalFrame
HasRequestedAdditionalFrame == nextInterval < Infinite

\* The time the pending request asks for, as the code computes it.
RequestTime == lastTick + Sub * nextInterval

SchedulerInit ==
    /\ uiState = "Waiting"
    /\ nextInterval = Infinite
    /\ lastTick = 0
    /\ highPriority = FALSE
    /\ tickMessages = 0
    /\ started = FALSE
    /\ eventSet = FALSE
    /\ earliestDue = Never

\* Mutant of FromLastTick: the time since the last tick is not added.
FromLastTickIgnoringElapsed(interval, clockTime) == interval

\* A positive interval asked for outside a tick counts from the present, and is
\* converted (in 32 bits) to count from the last tick like all the others.
FromLastTick(interval, clockTime) ==
    (interval + Ms(clockTime) - Ms(lastTick)) % (Infinite + 1)

IsOutsideTick(interval) == interval > 0 /\ uiState # "Ticking"

\* When the caller wants the frame; 0 asks for the render thread's next tick.
WantedTime(interval, clockTime) ==
    IF interval = 0 THEN 0
    ELSE Sub * interval + (IF IsOutsideTick(interval) THEN clockTime ELSE lastTick)

\* RequestAdditionalFrame, with WakeCompositionThread called under the lock.
RequestAdditionalFrame(interval, reading) ==
    LET clockTime == NextTickTime(reading)
        relative  == IF IsOutsideTick(interval)
                     THEN FromLastTick(interval, clockTime) ELSE interval
        sooner    == uiState # "TickQueued" /\ relative < nextInterval
        wanted    == WantedTime(interval, clockTime)
    IN  /\ highPriority' = (highPriority \/ IsOutsideTick(interval))
        /\ nextInterval' = IF sooner THEN relative ELSE nextInterval
        /\ eventSet' = (eventSet \/ (sooner /\ uiState = "Waiting" /\ started))
        /\ earliestDue' = IF uiState = "TickQueued" THEN earliestDue
                          ELSE IF earliestDue = Never \/ wanted < earliestDue THEN wanted
                          ELSE earliestDue
        /\ UNCHANGED <<uiState, lastTick, started, tickMessages>>

\* BeginTick before it takes the lock.
BeginTickReadClock ==
    /\ lastTick' = reported
    /\ UNCHANGED <<uiState, nextInterval, highPriority, earliestDue>>

\* BeginTick under the lock.
BeginTick ==
    /\ uiState' = "Ticking"
    /\ nextInterval' = Infinite
    /\ earliestDue' = Never
    /\ UNCHANGED <<lastTick, highPriority>>

\* Mutant of EndTick: the render thread is not woken.
EndTickNoWake ==
    /\ uiState' = "Waiting"
    /\ highPriority' = FALSE
    /\ UNCHANGED <<nextInterval, lastTick, earliestDue, wakeVars>>

\* EndTick: requests made during the tick wake the render thread only now.
EndTick ==
    /\ uiState' = "Waiting"
    /\ highPriority' = FALSE
    /\ eventSet' = (eventSet \/ (HasRequestedAdditionalFrame /\ started))
    /\ UNCHANGED <<nextInterval, lastTick, earliestDue, started>>

\* Mutant of ScheduledInterval: a request is reported whatever the UI thread is doing.
ScheduledIntervalAnyState ==
    IF ~HasRequestedAdditionalFrame THEN Infinite
    ELSE IF reported >= RequestTime THEN 0
    ELSE Ms(RequestTime - reported)

\* GetScheduledIntervalInMilliseconds at the time the clock last reported.
ScheduledInterval ==
    IF uiState # "Waiting" \/ ~HasRequestedAdditionalFrame THEN Infinite
    ELSE IF reported >= RequestTime THEN 0
    ELSE Ms(RequestTime - reported)

\* The caller of QueueTick posts the message only if the lock found this TRUE.
ShouldQueueTick == uiState = "Waiting"

\* Mutant of QueueTick: the tick is posted and the state stays "Waiting".
QueueTickForgotten == UNCHANGED schedulerVars

\* Mutant of QueueTick: the request is consumed when its tick is queued.
QueueTickConsumes ==
    /\ uiState' = IF ShouldQueueTick THEN "TickQueued" ELSE uiState
    /\ nextInterval' = Infinite
    /\ UNCHANGED <<lastTick, highPriority, earliestDue>>

\* QueueTick under the lock: the request stays pending until its tick begins.
QueueTick ==
    /\ uiState' = IF ShouldQueueTick THEN "TickQueued" ELSE uiState
    /\ UNCHANGED <<nextInterval, lastTick, highPriority, earliestDue>>
=============================================================================
