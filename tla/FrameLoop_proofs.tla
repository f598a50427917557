--------------------------- MODULE FrameLoop_proofs ---------------------------
(***************************************************************************)
(* Proofs about FrameLoop, for every value of the constants: the inductive *)
(* invariant, the safety properties that follow from it, and the           *)
(* refinement of FrameService step by step.                                *)
(***************************************************************************)
EXTENDS FrameLoopRefinement, TLAPS

Starting == {"down", "created", "starting"}
TornDown == {"cleanup", "flagged", "join", "closed"}

\* How far each thread can be while the other is where it is.
Lifecycle ==
    /\ registered <=> uiPc \notin {"down"} \union TornDown
    /\ renderPc = "off" <=> uiPc \in {"down", "created"}
    /\ uiPc \in Starting => ~started /\ uiState = "Waiting" /\ nextInterval = Infinite
    /\ uiPc \notin Starting \union TornDown => started

\* A tick that is about to be queued has been asked for; one whose post failed blocks the
\* scheduler for good.
Pending ==
    /\ renderPc \in {"throttle", "queue"} => HasRequestedAdditionalFrame
    /\ PostFailed => uiState = "TickQueued" /\ InFlight = 0

Control == AssertionsHold /\ OneTickInFlight /\ NoUseAfterTeardown /\ Lifecycle /\ Pending

IInv == TypeOK /\ Control /\ NoLostWakeup
-----------------------------------------------------------------------------
(* The operators of the scheduler *)

\* Truncation to whole milliseconds never rounds up.
LEMMA Truncation ==
    ASSUME NEW time \in Int
    PROVE  Ms(time) \in Int /\ Sub * Ms(time) <= time
BY SchedulerAssumption, SMT DEF Ms

\* What the clock moves to is a time, and no earlier than where it was.
LEMMA ClockStep ==
    ASSUME TypeOK, NEW reading \in Readings
    PROVE  reading \in Int /\ NextTickTime(reading) \in 0..MaxTime /\ NextTickTime(reading) >= reported
BY ClockAssumption, SMT DEF TypeOK, Readings, NextTickTime

\* The wait for a request ends before the request is due, and is finite.
LEMMA WaitIsShort ==
    ASSUME TypeOK, lastTick <= reported, ScheduledInterval < Infinite
    PROVE  /\ uiState = "Waiting" /\ HasRequestedAdditionalFrame
           /\ ScheduledInterval \in Nat
           /\ ScheduledInterval > 0 => reported + Sub * ScheduledInterval <= RequestTime
<1>1. RequestTime \in Int /\ reported \in Int /\ RequestTime - reported \in Int
  BY ClockAssumption, SchedulerAssumption, SMT DEF TypeOK, RequestTime
<1>2. /\ Ms(RequestTime - reported) \in Int
      /\ Sub * Ms(RequestTime - reported) <= RequestTime - reported
  BY <1>1, Truncation
<1>3. RequestTime > reported => Ms(RequestTime - reported) \in Nat
  BY <1>1, SchedulerAssumption, SMT DEF Ms
<1>4. uiState = "Waiting" /\ HasRequestedAdditionalFrame
  BY SchedulerAssumption, SMT DEF ScheduledInterval
<1>5. ScheduledInterval = IF reported >= RequestTime THEN 0 ELSE Ms(RequestTime - reported)
  BY <1>4, SMT DEF ScheduledInterval
<1>. QED
  BY <1>1, <1>2, <1>3, <1>4, <1>5, SchedulerAssumption, SMT

\* The interval until the frame that waits is asked for, when there is one, is finite.
LEMMA WaitIsFinite ==
    ASSUME TypeOK, lastTick <= reported, uiState = "Waiting", HasRequestedAdditionalFrame
    PROVE  ScheduledInterval < Infinite
<1>1. RequestTime \in Int /\ RequestTime - reported <= Sub * nextInterval
  BY ClockAssumption, SchedulerAssumption, SMT DEF TypeOK, RequestTime
<1>2. Ms(RequestTime - reported) <= nextInterval
  BY <1>1, ClockAssumption, SchedulerAssumption, SMT DEF TypeOK, Ms
<1>3. ScheduledInterval = IF reported >= RequestTime THEN 0 ELSE Ms(RequestTime - reported)
  BY DEF ScheduledInterval
<1>4. nextInterval < Infinite /\ nextInterval \in Int /\ Ms(RequestTime - reported) \in Int
  BY <1>1, ClockAssumption, SchedulerAssumption, SMT DEF TypeOK, HasRequestedAdditionalFrame, Ms
<1>. QED
  BY <1>2, <1>3, <1>4, SchedulerAssumption, SMT

\* The interval the render thread is told is finite if a frame is wanted, and such a wait
\* ends no later than the frame is due.
LEMMA WaitForRequest ==
    ASSUME TypeOK, lastTick <= reported
    PROVE  /\ ScheduledInterval \in 0..Infinite
           /\ ScheduledInterval < Infinite <=> uiState = "Waiting" /\ HasRequestedAdditionalFrame
           /\ ScheduledInterval \in 1..(Infinite - 1) => reported + Sub * ScheduledInterval <= RequestTime
<1>1. ASSUME ~(uiState = "Waiting" /\ HasRequestedAdditionalFrame)
      PROVE  ScheduledInterval = Infinite
  BY <1>1 DEF ScheduledInterval
<1>2. ASSUME uiState = "Waiting", HasRequestedAdditionalFrame
      PROVE  ScheduledInterval < Infinite
  BY <1>2, WaitIsFinite
<1>. QED
  BY <1>1, <1>2, WaitIsShort, SchedulerAssumption, SMT

\* A request only ever brings the next tick forward, wakes the render thread if it does so
\* while the UI thread waits, and does nothing while a tick is queued.
LEMMA RequestEffect ==
    ASSUME TypeOK, NEW interval \in 0..(Infinite - 1), NEW reading \in Int,
           RequestAdditionalFrame(interval, reading)
    PROVE  /\ nextInterval' \in 0..Infinite /\ nextInterval' <= nextInterval
           /\ nextInterval' # nextInterval => uiState # "TickQueued" /\ nextInterval' < Infinite
           /\ nextInterval' # nextInterval /\ uiState = "Waiting" /\ started => eventSet'
           /\ eventSet => eventSet'
           /\ eventSet' \in BOOLEAN /\ highPriority' \in BOOLEAN
           /\ earliestDue' \in Int
           /\ UNCHANGED <<uiState, lastTick, started, tickMessages>>
<1>1. NextTickTime(reading) \in Int
  BY ClockAssumption, SMT DEF TypeOK, NextTickTime
<1>2. FromLastTick(interval, NextTickTime(reading)) \in 0..Infinite
  BY <1>1, ClockAssumption, SchedulerAssumption, Truncation, SMT DEF TypeOK, FromLastTick
<1>3. WantedTime(interval, NextTickTime(reading)) \in Int
  BY <1>1, ClockAssumption, SchedulerAssumption, SMT DEF TypeOK, WantedTime
<1>4. IsOutsideTick(interval) \in BOOLEAN
  BY DEF IsOutsideTick
<1>5. nextInterval \in 0..Infinite /\ earliestDue \in Int /\ highPriority \in BOOLEAN
      /\ eventSet \in BOOLEAN /\ started \in BOOLEAN
  BY DEF TypeOK
<1>. QED
  BY <1>1, <1>2, <1>3, <1>4, <1>5, SchedulerAssumption, SMT DEF RequestAdditionalFrame
-----------------------------------------------------------------------------
(* The inductive invariant *)

\* The schedulers start in a state the invariant describes.
LEMMA InitialState == Init => IInv
<1>. SUFFICES ASSUME Init PROVE IInv
  OBVIOUS
<1>. USE DEF Init, ClockInit, SchedulerInit, CompositorInit
<1>1. TypeOK
  <2>1. /\ highPriority \in BOOLEAN /\ started \in BOOLEAN /\ eventSet \in BOOLEAN
        /\ registered \in BOOLEAN /\ shutdown \in BOOLEAN /\ renderHR \in BOOLEAN
        /\ renderEnabled \in BOOLEAN /\ ticksEnabled \in BOOLEAN /\ owed \in BOOLEAN
        /\ coreRenderEnabled \in BOOLEAN /\ renderStateChanged \in BOOLEAN
    OBVIOUS
  <2>2. nextInterval \in 0..Infinite /\ timeout \in Nat \ {0} /\ earliestDue \in Int
    BY SchedulerAssumption, SMT DEF Never
  <2>3. now \in 0..MaxTime /\ reported \in 0..MaxTime /\ lastTick \in 0..MaxTime
    BY ClockAssumption, SMT
  <2>. QED
    BY <2>1, <2>2, <2>3 DEF TypeOK, States, RenderPCs, UIPCs, NoCommand
<1>2. Control
  BY SchedulerAssumption, SMT
     DEF Control, AssertionsHold, OneTickInFlight, NoUseAfterTeardown, Lifecycle, Pending, InFlight,
         PostFailed, HoldsRegistration, HasRequestedAdditionalFrame, Starting, TornDown
<1>3. NoLostWakeup
  BY DEF NoLostWakeup
<1>. QED
  BY <1>1, <1>2, <1>3 DEF IInv

\* Every step of the render thread preserves the invariant.
LEMMA RenderPreserves == IInv /\ Render => IInv'
<1>. SUFFICES ASSUME IInv, Render PROVE IInv'
  OBVIOUS
<1>. USE DEF Goto, Kept, KeptScheduler, schedulerVars, wakeVars, uiVars, Control, AssertionsHold,
             OneTickInFlight, NoUseAfterTeardown, Lifecycle, Pending, InFlight, PostFailed,
             HoldsRegistration, HasRequestedAdditionalFrame
<1>a. UNCHANGED uiVars
  BY DEF Render
<1>b. TypeOK /\ Control /\ NoLostWakeup
  BY DEF IInv
<1>1. ASSUME RenderTop PROVE IInv'
  <2>1. TypeOK'
    BY <1>a, <1>b, <1>1, SchedulerAssumption, SMT DEF RenderTop, TypeOK, RenderPCs
  <2>2. Control'
    BY <1>a, <1>b, <1>1, SMT DEF RenderTop, TypeOK
  <2>3. NoLostWakeup'
    BY <1>a, <1>b, <1>1, SMT DEF RenderTop, NoLostWakeup, RequestTime
  <2>. QED
    BY <2>1, <2>2, <2>3 DEF IInv
<1>2. ASSUME RenderTick PROVE IInv'
  <2>. PICK reading \in Readings : Tick(reading)
    BY <1>2 DEF RenderTick
  <2>. USE ClockStep DEF Tick
  <2>1. TypeOK'
    BY <1>a, <1>b, <1>2, SMT DEF RenderTick, TypeOK, RenderPCs
  <2>2. Control'
    BY <1>a, <1>b, <1>2, SMT DEF RenderTick, TypeOK
  <2>3. NoLostWakeup'
    BY <1>a, <1>b, <1>2, SMT DEF RenderTick, NoLostWakeup, RequestTime
  <2>. QED
    BY <2>1, <2>2, <2>3 DEF IInv
<1>3. ASSUME RenderAsk PROVE IInv'
  <2>1. /\ ScheduledInterval \in 0..Infinite
        /\ ScheduledInterval < Infinite <=> uiState = "Waiting" /\ nextInterval < Infinite
        /\ ScheduledInterval \in 1..(Infinite - 1)
           => reported + Sub * ScheduledInterval <= RequestTime
    BY <1>b, WaitForRequest
  <2>2. TypeOK'
    BY <1>a, <1>b, <1>3, <2>1, SchedulerAssumption, SMT DEF RenderAsk, TypeOK, RenderPCs
  <2>3. Control'
    BY <1>a, <1>b, <1>3, <2>1, SchedulerAssumption, SMT DEF RenderAsk, TypeOK
  <2>4. NoLostWakeup'
    <3>1. RequestTime' = RequestTime /\ reported' = reported
      BY <1>3 DEF RenderAsk, RequestTime
    <3>2. registered /\ ScheduledInterval \in 1..(Infinite - 1) => timeout' = ScheduledInterval
      BY <1>3, SchedulerAssumption, SMT DEF RenderAsk
    <3>3. renderPc' = "command" /\ registered /\ uiState = "Waiting" /\ nextInterval < Infinite
          => ScheduledInterval \in 1..(Infinite - 1)
      BY <1>3, <2>1, SchedulerAssumption, SMT DEF RenderAsk
    <3>4. /\ renderPc' \in {"throttle", "command"}
          /\ UNCHANGED <<registered, uiState, nextInterval>>
      BY <1>3 DEF RenderAsk
    <3>. QED
      BY <2>1, <3>1, <3>2, <3>3, <3>4, SchedulerAssumption, SMT DEF NoLostWakeup
  <2>. QED
    BY <2>2, <2>3, <2>4 DEF IInv
<1>4. ASSUME RenderThrottle PROVE IInv'
  <2>1. TypeOK'
    BY <1>a, <1>b, <1>4, SMT DEF RenderThrottle, TypeOK, RenderPCs
  <2>2. Control'
    BY <1>a, <1>b, <1>4, SMT DEF RenderThrottle, TypeOK
  <2>3. NoLostWakeup'
    BY <1>a, <1>b, <1>4, SMT DEF RenderThrottle, NoLostWakeup, RequestTime
  <2>. QED
    BY <2>1, <2>2, <2>3 DEF IInv
<1>5. ASSUME RenderQueue PROVE IInv'
  <2>1. TypeOK'
    BY <1>a, <1>b, <1>5, SMT DEF RenderQueue, QueueTick, ShouldQueueTick, TypeOK, RenderPCs, States
  <2>2. Control'
    BY <1>a, <1>b, <1>5, SMT DEF RenderQueue, QueueTick, ShouldQueueTick, TypeOK
  <2>3. NoLostWakeup'
    BY <1>a, <1>b, <1>5, SMT DEF RenderQueue, QueueTick, ShouldQueueTick, NoLostWakeup, RequestTime
  <2>. QED
    BY <2>1, <2>2, <2>3 DEF IInv
<1>6. ASSUME RenderPost PROVE IInv'
  <2>1. TypeOK'
    BY <1>a, <1>b, <1>6, SMT DEF RenderPost, TypeOK, RenderPCs
  <2>2. Control'
    BY <1>a, <1>b, <1>6, SMT DEF RenderPost, TypeOK
  <2>3. NoLostWakeup'
    BY <1>a, <1>b, <1>6, SMT DEF RenderPost, NoLostWakeup, TypeOK
  <2>. QED
    BY <2>1, <2>2, <2>3 DEF IInv
<1>7. ASSUME RenderPostFails PROVE IInv'
  <2>1. TypeOK'
    BY <1>a, <1>b, <1>7, SMT DEF RenderPostFails, TypeOK, RenderPCs
  <2>2. Control'
    BY <1>a, <1>b, <1>7, SMT DEF RenderPostFails, TypeOK
  <2>3. NoLostWakeup'
    BY <1>a, <1>b, <1>7, SMT DEF RenderPostFails, NoLostWakeup, RequestTime
  <2>. QED
    BY <2>1, <2>2, <2>3 DEF IInv
<1>8. ASSUME RenderCommand PROVE IInv'
  <2>1. TypeOK'
    <3>1. renderEnabled' \in BOOLEAN
      BY <1>b, <1>8 DEF RenderCommand, TypeOK
    <3>. QED
      BY <1>a, <1>b, <1>8, <3>1, SMT DEF RenderCommand, TypeOK, RenderPCs, NoCommand
  <2>2. Control'
    BY <1>a, <1>b, <1>8, SMT DEF RenderCommand, TypeOK
  <2>3. NoLostWakeup'
    BY <1>a, <1>b, <1>8, SMT DEF RenderCommand, NoLostWakeup, RequestTime
  <2>. QED
    BY <2>1, <2>2, <2>3 DEF IInv
<1>9. ASSUME RenderFail PROVE IInv'
  <2>1. UNCHANGED <<nextInterval, uiState, lastTick, started, tickMessages>>
        /\ eventSet' \in BOOLEAN /\ highPriority' \in BOOLEAN /\ earliestDue' \in Int
    <3>1. CASE registered
      <4>. PICK reading \in Readings : RequestAdditionalFrame(0, reading)
        BY <1>9, <3>1 DEF RenderFail
      <4>. QED
        BY <1>b, <1>9, ClockStep, RequestEffect, SchedulerAssumption, SMT DEF RenderFail
    <3>2. CASE ~registered
      BY <1>b, <1>9, <3>2 DEF RenderFail, TypeOK
    <3>. QED
      BY <3>1, <3>2
  <2>2. TypeOK'
    BY <1>a, <1>b, <1>9, <2>1, SMT DEF RenderFail, TypeOK, RenderPCs
  <2>3. Control'
    BY <1>a, <1>b, <1>9, <2>1, SMT DEF RenderFail, TypeOK
  <2>4. NoLostWakeup'
    BY <1>a, <1>b, <1>9, <2>1, SMT DEF RenderFail, NoLostWakeup
  <2>. QED
    BY <2>2, <2>3, <2>4 DEF IInv
<1>10. ASSUME RenderSaveHR PROVE IInv'
  <2>1. TypeOK'
    BY <1>a, <1>b, <1>10, SMT DEF RenderSaveHR, TypeOK, RenderPCs
  <2>2. Control'
    BY <1>a, <1>b, <1>10, SMT DEF RenderSaveHR, TypeOK
  <2>3. NoLostWakeup'
    BY <1>a, <1>b, <1>10, SMT DEF RenderSaveHR, NoLostWakeup, RequestTime
  <2>. QED
    BY <2>1, <2>2, <2>3 DEF IInv
<1>11. ASSUME RenderWait PROVE IInv'
  <2>1. TypeOK'
    BY <1>a, <1>b, <1>11, SMT DEF RenderWait, TypeOK, RenderPCs
  <2>2. Control'
    BY <1>a, <1>b, <1>11, SMT DEF RenderWait, TypeOK
  <2>3. NoLostWakeup'
    BY <1>a, <1>b, <1>11, SMT DEF RenderWait, NoLostWakeup, RequestTime
  <2>. QED
    BY <2>1, <2>2, <2>3 DEF IInv
<1>12. ASSUME RenderWake PROVE IInv'
  <2>1. TypeOK'
    <3>1. eventSet' \in BOOLEAN
      BY <1>12 DEF RenderWake
    <3>. QED
      BY <1>a, <1>b, <1>12, <3>1, SMT DEF RenderWake, TypeOK, RenderPCs
  <2>2. Control'
    BY <1>a, <1>b, <1>12, SMT DEF RenderWake, TypeOK
  <2>3. NoLostWakeup'
    BY <1>a, <1>b, <1>12, SMT DEF RenderWake, NoLostWakeup, RequestTime
  <2>. QED
    BY <2>1, <2>2, <2>3 DEF IInv
<1>13. ASSUME RenderTimeout PROVE IInv'
  <2>1. TypeOK'
    BY <1>a, <1>b, <1>13, SMT DEF RenderTimeout, TypeOK, RenderPCs
  <2>2. Control'
    BY <1>a, <1>b, <1>13, SMT DEF RenderTimeout, TypeOK
  <2>3. NoLostWakeup'
    BY <1>a, <1>b, <1>13, SMT DEF RenderTimeout, NoLostWakeup, RequestTime
  <2>. QED
    BY <2>1, <2>2, <2>3 DEF IInv
<1>14. ASSUME RenderAgain PROVE IInv'
  <2>1. TypeOK'
    BY <1>a, <1>b, <1>14, SMT DEF RenderAgain, TypeOK, RenderPCs
  <2>2. Control'
    BY <1>a, <1>b, <1>14, SMT DEF RenderAgain, TypeOK
  <2>3. NoLostWakeup'
    BY <1>a, <1>b, <1>14, SMT DEF RenderAgain, NoLostWakeup, RequestTime
  <2>. QED
    BY <2>1, <2>2, <2>3 DEF IInv
<1>. QED
  BY <1>1, <1>2, <1>3, <1>4, <1>5, <1>6, <1>7, <1>8, <1>9, <1>10, <1>11, <1>12, <1>13, <1>14 DEF Render, RenderThread

\* A request made while the schedulers run preserves the invariant.
LEMMA RequestPreserves ==
    ASSUME IInv, started, NEW interval \in 0..(Infinite - 1), NEW reading \in Readings,
           RequestAdditionalFrame(interval, reading),
           UNCHANGED <<now, reported, registered, renderPc, timeout, shutdown, renderHR,
                       renderEnabled, uiPc, owed>>,
           command' \in {NoCommand, "enable", "disable"}, ticksEnabled' \in BOOLEAN,
           coreRenderEnabled' \in BOOLEAN, renderStateChanged' \in BOOLEAN
    PROVE  IInv'
<1>1. TypeOK /\ Control /\ NoLostWakeup
  BY DEF IInv
<1>2. /\ nextInterval' \in 0..Infinite /\ nextInterval' <= nextInterval
      /\ nextInterval' # nextInterval => uiState # "TickQueued" /\ nextInterval' < Infinite
      /\ nextInterval' # nextInterval /\ uiState = "Waiting" /\ started => eventSet'
      /\ eventSet => eventSet'
      /\ eventSet' \in BOOLEAN /\ highPriority' \in BOOLEAN
      /\ earliestDue' \in Int
      /\ UNCHANGED <<uiState, lastTick, started, tickMessages>>
  BY <1>1, ClockStep, RequestEffect
<1>3. TypeOK'
  BY <1>1, <1>2, SMT DEF TypeOK
<1>4. Control'
  BY <1>1, <1>2, SMT
     DEF TypeOK, Control, AssertionsHold, OneTickInFlight, NoUseAfterTeardown, Lifecycle, Pending,
         InFlight, PostFailed, HoldsRegistration, HasRequestedAdditionalFrame, Starting, TornDown
<1>5. NoLostWakeup'
  <2>1. CASE nextInterval' = nextInterval
    BY <1>1, <1>2, <2>1 DEF NoLostWakeup, HasRequestedAdditionalFrame, RequestTime
  <2>2. CASE nextInterval' # nextInterval
    BY <1>2, <2>2 DEF NoLostWakeup
  <2>. QED
    BY <2>1, <2>2
<1>. QED
  BY <1>3, <1>4, <1>5 DEF IInv

\* Every step the UI thread takes by itself preserves the invariant.
LEMMA UIProgressPreserves == IInv /\ UIProgress => IInv'
<1>. SUFFICES ASSUME IInv, UIProgress PROVE IInv'
  OBVIOUS
<1>. USE DEF UIGoto, KeptFlags, KeptScheduling, KeptScheduler, clockVars, schedulerVars, wakeVars,
             compositorVars, Control, AssertionsHold, OneTickInFlight, NoUseAfterTeardown, Lifecycle,
             Pending, InFlight, PostFailed, HoldsRegistration, HasRequestedAdditionalFrame, Starting,
             TornDown
<1>a. TypeOK /\ Control /\ NoLostWakeup
  BY DEF IInv
<1>1. ASSUME Create PROVE IInv'
  <2>1. TypeOK'
    BY <1>a, <1>1, SMT DEF Create, TypeOK, UIPCs
  <2>2. Control'
    BY <1>a, <1>1, SMT DEF Create, TypeOK
  <2>3. NoLostWakeup'
    BY <1>a, <1>1, SMT DEF Create, NoLostWakeup, RequestTime
  <2>. QED
    BY <2>1, <2>2, <2>3 DEF IInv
<1>2. ASSUME StartThread PROVE IInv'
  <2>1. TypeOK'
    BY <1>a, <1>2, SMT DEF StartThread, RenderPCs, TypeOK, UIPCs
  <2>2. Control'
    BY <1>a, <1>2, SMT DEF StartThread, TypeOK
  <2>3. NoLostWakeup'
    BY <1>a, <1>2, SMT DEF StartThread, NoLostWakeup, RequestTime
  <2>. QED
    BY <2>1, <2>2, <2>3 DEF IInv
<1>3. ASSUME StoreHandle PROVE IInv'
  <2>1. TypeOK'
    BY <1>a, <1>3, SMT DEF StoreHandle, OnRenderStateChanged, TypeOK, UIPCs
  <2>2. Control'
    BY <1>a, <1>3, SMT DEF StoreHandle, OnRenderStateChanged, TypeOK
  <2>3. NoLostWakeup'
    BY <1>a, <1>3, SMT DEF StoreHandle, OnRenderStateChanged, NoLostWakeup, RequestTime
  <2>. QED
    BY <2>1, <2>2, <2>3 DEF IInv
<1>4. ASSUME DispatchTick PROVE IInv'
  <2>1. TypeOK'
    BY <1>a, <1>4, SMT DEF DispatchTick, BeginTickReadClock, TypeOK, UIPCs
  <2>2. Control'
    BY <1>a, <1>4, SMT DEF DispatchTick, BeginTickReadClock, TypeOK
  <2>3. NoLostWakeup'
    BY <1>a, <1>4, SMT DEF DispatchTick, BeginTickReadClock, NoLostWakeup, RequestTime, TypeOK
  <2>. QED
    BY <2>1, <2>2, <2>3 DEF IInv
<1>5. ASSUME BeginTickLocked PROVE IInv'
  <2>1. TypeOK'
    <3>1. owed' \in BOOLEAN /\ uiPc' \in UIPCs
      BY <1>a, <1>5 DEF BeginTickLocked, UIPCs, TypeOK
    <3>. QED
      BY <1>a, <1>5, <3>1, SchedulerAssumption, SMT
         DEF BeginTickLocked, BeginTick, States, Never, TypeOK
  <2>2. Control'
    BY <1>a, <1>5, SMT DEF BeginTickLocked, BeginTick, TypeOK
  <2>3. NoLostWakeup'
    BY <1>a, <1>5, SMT DEF BeginTickLocked, BeginTick, NoLostWakeup, RequestTime
  <2>. QED
    BY <2>1, <2>2, <2>3 DEF IInv
<1>6. ASSUME DrawStart PROVE IInv'
  <2>1. TypeOK'
    BY <1>a, <1>6, SMT DEF DrawStart, DrawStep, TypeOK, UIPCs
  <2>2. Control'
    BY <1>a, <1>6, SMT DEF DrawStart, DrawStep, TypeOK
  <2>3. NoLostWakeup'
    BY <1>a, <1>6, SMT DEF DrawStart, DrawStep, NoLostWakeup, RequestTime
  <2>. QED
    BY <2>1, <2>2, <2>3 DEF IInv
<1>7. ASSUME DrawSubmit PROVE IInv'
  <2>1. TypeOK'
    BY <1>a, <1>7, SMT DEF DrawSubmit, DrawStep, OnRenderStateChanged, TypeOK, UIPCs
  <2>2. Control'
    BY <1>a, <1>7, SMT DEF DrawSubmit, DrawStep, OnRenderStateChanged, TypeOK
  <2>3. NoLostWakeup'
    BY <1>a, <1>7, SMT DEF DrawSubmit, DrawStep, OnRenderStateChanged, NoLostWakeup, RequestTime
  <2>. QED
    BY <2>1, <2>2, <2>3 DEF IInv
<1>8. ASSUME DrawDone PROVE IInv'
  <2>1. TypeOK'
    <3>1. renderStateChanged' \in BOOLEAN
      BY <1>a, <1>8 DEF DrawDone, DrawStep, TypeOK
    <3>. QED
      BY <1>a, <1>8, <3>1, SMT DEF DrawDone, DrawStep, TypeOK, UIPCs
  <2>2. Control'
    BY <1>a, <1>8, SMT DEF DrawDone, DrawStep, TypeOK
  <2>3. NoLostWakeup'
    BY <1>a, <1>8, SMT DEF DrawDone, DrawStep, NoLostWakeup, RequestTime
  <2>. QED
    BY <2>1, <2>2, <2>3 DEF IInv
<1>9. ASSUME DrawFails PROVE IInv'
  <2>1. TypeOK'
    BY <1>a, <1>9, SMT DEF DrawFails, DrawStep, TypeOK, UIPCs
  <2>2. Control'
    BY <1>a, <1>9, SMT DEF DrawFails, DrawStep, TypeOK
  <2>3. NoLostWakeup'
    BY <1>a, <1>9, SMT DEF DrawFails, DrawStep, NoLostWakeup, RequestTime
  <2>. QED
    BY <2>1, <2>2, <2>3 DEF IInv
<1>10. ASSUME EndTickLocked PROVE IInv'
  <2>1. TypeOK'
    <3>1. eventSet' \in BOOLEAN /\ highPriority' \in BOOLEAN
      BY <1>a, <1>10 DEF EndTickLocked, EndTick, States, TypeOK
    <3>. QED
      BY <1>a, <1>10, <3>1, SMT DEF EndTickLocked, EndTick, States, TypeOK, UIPCs
  <2>2. Control'
    BY <1>a, <1>10, SMT DEF EndTickLocked, EndTick, TypeOK
  <2>3. NoLostWakeup'
    <3>1. nextInterval < Infinite => eventSet'
      BY <1>a, <1>10 DEF EndTickLocked, EndTick
    <3>. QED
      BY <1>10, <3>1 DEF EndTickLocked, EndTick, NoLostWakeup
  <2>. QED
    BY <2>1, <2>2, <2>3 DEF IInv
<1>11. ASSUME ShutdownFlag PROVE IInv'
  <2>1. TypeOK'
    BY <1>a, <1>11, SMT DEF ShutdownFlag, TypeOK, UIPCs
  <2>2. Control'
    BY <1>a, <1>11, SMT DEF ShutdownFlag, TypeOK
  <2>3. NoLostWakeup'
    BY <1>a, <1>11, SMT DEF ShutdownFlag, NoLostWakeup, RequestTime
  <2>. QED
    BY <2>1, <2>2, <2>3 DEF IInv
<1>12. ASSUME ShutdownWake PROVE IInv'
  <2>1. TypeOK'
    BY <1>a, <1>12, SMT DEF ShutdownWake, TypeOK, UIPCs
  <2>2. Control'
    BY <1>a, <1>12, SMT DEF ShutdownWake, TypeOK
  <2>3. NoLostWakeup'
    BY <1>a, <1>12, SMT DEF ShutdownWake, NoLostWakeup, RequestTime
  <2>. QED
    BY <2>1, <2>2, <2>3 DEF IInv
<1>13. ASSUME ShutdownJoin PROVE IInv'
  <2>1. TypeOK'
    <3>1. started' \in BOOLEAN /\ ticksEnabled' \in BOOLEAN
      BY <1>a, <1>13 DEF ShutdownJoin, TypeOK
    <3>. QED
      BY <1>a, <1>13, <3>1, SMT DEF ShutdownJoin, TypeOK, UIPCs
  <2>2. Control'
    BY <1>a, <1>13, SMT DEF ShutdownJoin, TypeOK
  <2>3. NoLostWakeup'
    BY <1>a, <1>13, SMT DEF ShutdownJoin, NoLostWakeup, RequestTime
  <2>. QED
    BY <2>1, <2>2, <2>3 DEF IInv
<1>. QED
  BY <1>1, <1>2, <1>3, <1>4, <1>5, <1>6, <1>7, <1>8, <1>9, <1>10, <1>11, <1>12, <1>13 DEF UIProgress

\* Every other step of the system preserves the invariant, and so does a stuttering step.
LEMMA OthersPreserve ==
    ASSUME IInv,
           \/ TimePasses \/ UIRequest \/ OtherThreadRequest \/ Unregister
           \/ \E enable \in BOOLEAN : EnableRender(enable) \/ SetTicksEnabled(enable)
           \/ UNCHANGED vars
    PROVE  IInv'
<1>a. TypeOK /\ Control /\ NoLostWakeup
  BY DEF IInv
<1>b. 0 \in 0..(Infinite - 1)
  BY SchedulerAssumption, SMT
<1>. USE DEF UIGoto, KeptFlags, KeptScheduling, KeptScheduler, clockVars, schedulerVars, wakeVars,
             compositorVars, uiVars
<1>1. ASSUME UNCHANGED vars PROVE IInv'
  BY <1>1 DEF vars, IInv, TypeOK, Control, AssertionsHold, OneTickInFlight, NoUseAfterTeardown,
     Lifecycle, Pending, InFlight, PostFailed, HoldsRegistration, HasRequestedAdditionalFrame,
     RequestTime, NoLostWakeup
<1>2. ASSUME TimePasses PROVE IInv'
  <2>1. TypeOK'
    BY <1>a, <1>2, ClockAssumption, SMT DEF TimePasses, Advance, TypeOK
  <2>2. Control'
    BY <1>a, <1>2 DEF TimePasses, Advance, Control, AssertionsHold, OneTickInFlight,
       NoUseAfterTeardown, Lifecycle, Pending, InFlight, PostFailed, HoldsRegistration,
       HasRequestedAdditionalFrame
  <2>3. NoLostWakeup'
    BY <1>a, <1>2 DEF TimePasses, Advance, NoLostWakeup, RequestTime, HasRequestedAdditionalFrame
  <2>. QED
    BY <2>1, <2>2, <2>3 DEF IInv
<1>3. ASSUME UIRequest PROVE IInv'
  <2>1. PICK interval \in Intervals, reading \in Readings :
          RequestAdditionalFrame(interval, reading)
    BY <1>3 DEF UIRequest
  <2>2. started
    BY <1>a, <1>3 DEF UIRequest, Control, Lifecycle, Starting, TornDown
  <2>3. interval \in 0..(Infinite - 1)
    BY FrameLoopAssumption
  <2>. QED
    BY <1>a, <1>3, <2>1, <2>2, <2>3, RequestPreserves DEF UIRequest, TypeOK
<1>4. ASSUME OtherThreadRequest PROVE IInv'
  BY <1>a, <1>b, <1>4, RequestPreserves DEF OtherThreadRequest, TypeOK
<1>5. ASSUME Unregister PROVE IInv'
  <2>1. TypeOK'
    <3>1. registered' \in BOOLEAN
      BY <1>5 DEF Unregister
    <3>. QED
      BY <1>a, <1>5, <3>1, SMT DEF Unregister, TypeOK, UIPCs
  <2>2. Control'
    BY <1>a, <1>5, SMT
       DEF Unregister, TypeOK, Control, AssertionsHold, OneTickInFlight, NoUseAfterTeardown,
           Lifecycle, Pending, InFlight, PostFailed, HoldsRegistration,
           HasRequestedAdditionalFrame, Starting, TornDown
  <2>3. NoLostWakeup'
    BY <1>5 DEF Unregister, NoLostWakeup
  <2>. QED
    BY <2>1, <2>2, <2>3 DEF IInv
<1>6. ASSUME NEW enable \in BOOLEAN, SetTicksEnabled(enable) PROVE IInv'
  <2>1. started
    BY <1>a, <1>6 DEF SetTicksEnabled, Control, Lifecycle, Starting, TornDown
  <2>2. CASE enable
    BY <1>a, <1>b, <1>6, <2>1, <2>2, RequestPreserves DEF SetTicksEnabled, TypeOK
  <2>3. CASE ~enable
    <3>1. TypeOK'
      BY <1>a, <1>6, <2>3 DEF SetTicksEnabled, TypeOK
    <3>2. Control'
      BY <1>a, <1>6, <2>3 DEF SetTicksEnabled, Control, AssertionsHold, OneTickInFlight,
         NoUseAfterTeardown, Lifecycle, Pending, InFlight, PostFailed, HoldsRegistration,
         HasRequestedAdditionalFrame
    <3>3. NoLostWakeup'
      BY <1>a, <1>6, <2>3
         DEF SetTicksEnabled, NoLostWakeup, RequestTime, HasRequestedAdditionalFrame
    <3>. QED
      BY <3>1, <3>2, <3>3 DEF IInv
  <2>. QED
    BY <2>2, <2>3
<1>7. ASSUME NEW enable \in BOOLEAN, EnableRender(enable) PROVE IInv'
  <2>1. command' \in {NoCommand, "enable", "disable"}
        /\ coreRenderEnabled' \in BOOLEAN /\ renderStateChanged' \in BOOLEAN
    BY <1>a, <1>7 DEF EnableRender, OnRenderStateChanged, TypeOK
  <2>2. CASE enable /\ uiPc = "loop"
    <3>1. started
      BY <1>a, <2>2 DEF Control, Lifecycle, Starting, TornDown
    <3>. QED
      BY <1>a, <1>b, <1>7, <2>1, <2>2, <3>1, RequestPreserves DEF EnableRender, TypeOK
  <2>3. CASE ~(enable /\ uiPc = "loop")
    <3>1. TypeOK'
      BY <1>a, <1>7, <2>1, <2>3 DEF EnableRender, TypeOK
    <3>2. Control'
      BY <1>a, <1>7, <2>3 DEF EnableRender, Control, AssertionsHold, OneTickInFlight,
         NoUseAfterTeardown, Lifecycle, Pending, InFlight, PostFailed, HoldsRegistration,
         HasRequestedAdditionalFrame
    <3>3. NoLostWakeup'
      BY <1>a, <1>7, <2>3
         DEF EnableRender, NoLostWakeup, RequestTime, HasRequestedAdditionalFrame
    <3>. QED
      BY <3>1, <3>2, <3>3 DEF IInv
  <2>. QED
    BY <2>2, <2>3
<1>. QED
  BY <1>1, <1>2, <1>3, <1>4, <1>5, <1>6, <1>7

\* The invariant holds in every reachable state.
THEOREM Invariance == Spec => []IInv
<1>1. IInv /\ [Next]_vars => IInv'
  <2>. SUFFICES ASSUME IInv, [Next]_vars PROVE IInv'
    OBVIOUS
  <2>. QED
    BY RenderPreserves, UIProgressPreserves, OthersPreserve DEF Next, Closed
<1>. QED
  BY InitialState, <1>1, PTL DEF Spec
-----------------------------------------------------------------------------
(* The safety properties *)

\* Every variable keeps to its type.
THEOREM TypeCorrect == Spec => []TypeOK
<1>1. IInv => TypeOK
  BY DEF IInv
<1>. QED
  BY Invariance, <1>1, PTL

\* There is never a second tick in flight, and none is lost but by a failed post.
THEOREM TicksComeOneAtATime == Spec => []OneTickInFlight
<1>1. IInv => OneTickInFlight
  BY DEF IInv, Control
<1>. QED
  BY Invariance, <1>1, PTL

\* The ASSERTs of UIThreadScheduler.cpp hold.
THEOREM AssertionsAreSafe == Spec => []AssertionsHold
<1>1. IInv => AssertionsHold
  BY DEF IInv, Control
<1>. QED
  BY Invariance, <1>1, PTL

\* Teardown leaves the render thread nothing dangling to call.
THEOREM TeardownIsSafe == Spec => []NoUseAfterTeardown
<1>1. IInv => NoUseAfterTeardown
  BY DEF IInv, Control
<1>. QED
  BY Invariance, <1>1, PTL

\* The render thread never sleeps past a frame the UI thread waits for.
THEOREM NoWakeupIsLost == Spec => []NoLostWakeup
<1>1. IInv => NoLostWakeup
  BY DEF IInv
<1>. QED
  BY Invariance, <1>1, PTL

\* A pending request only ever gives way to a sooner one, until a tick begins.
THEOREM RequestsAreNeverPostponed == Spec => NeverPostponed
<1>. DEFINE Step == nextInterval' > nextInterval => uiPc = "begin" /\ uiState' = "Ticking"
<1>1. IInv /\ [Next]_vars => [Step]_vars
  <2>. SUFFICES ASSUME IInv, [Next]_vars, nextInterval' > nextInterval
                PROVE  uiPc = "begin" /\ uiState' = "Ticking"
    OBVIOUS
  <2>1. nextInterval' # nextInterval
    BY SMT DEF IInv, TypeOK
  <2>2. TypeOK /\ 0 \in 0..(Infinite - 1)
    BY SchedulerAssumption, SMT DEF IInv
  <2>3. ASSUME NEW interval \in 0..(Infinite - 1), NEW reading \in Readings,
               RequestAdditionalFrame(interval, reading)
        PROVE  FALSE
    <3>1. nextInterval' <= nextInterval /\ nextInterval' \in 0..Infinite
      BY <2>2, <2>3, ClockStep, RequestEffect
    <3>. QED
      BY <2>2, <3>1, SMT DEF TypeOK
  <2>. USE DEF UIGoto, KeptFlags, KeptScheduling, KeptScheduler, schedulerVars, DrawStep
  <2>4. CASE Render
    BY <2>1, <2>2, <2>3, <2>4
       DEF Render, RenderThread, RenderTop, RenderTick, RenderAsk, RenderThrottle, RenderQueue,
           RenderPost, RenderPostFails, RenderCommand, RenderFail, RenderSaveHR, RenderWait,
           RenderWake, RenderTimeout, RenderAgain, QueueTick
  <2>5. CASE UIProgress
    BY <2>1, <2>5
       DEF UIProgress, Create, StartThread, StoreHandle, DispatchTick, BeginTickLocked, DrawStart,
           DrawSubmit, DrawDone, DrawFails, EndTickLocked, ShutdownFlag, ShutdownWake, ShutdownJoin,
           BeginTickReadClock, BeginTick, EndTick
  <2>6. CASE UIRequest
    BY <2>3, <2>6, FrameLoopAssumption DEF UIRequest
  <2>7. CASE TimePasses \/ OtherThreadRequest \/ Unregister \/ Closed \/ UNCHANGED vars
    BY <2>1, <2>2, <2>3, <2>7 DEF TimePasses, OtherThreadRequest, Unregister, Closed, vars
  <2>8. CASE \E enable \in BOOLEAN : EnableRender(enable) \/ SetTicksEnabled(enable)
    BY <2>1, <2>2, <2>3, <2>8 DEF EnableRender, SetTicksEnabled
  <2>. QED
    BY <2>4, <2>5, <2>6, <2>7, <2>8 DEF Next
<1>2. Spec => [][Step]_vars
  BY Invariance, <1>1, PTL DEF Spec
<1>. QED
  BY <1>2 DEF NeverPostponed

\* The animation clock never runs backwards.
THEOREM ClockIsMonotone == Spec => ClockMonotone
<1>. DEFINE Step == reported' >= reported /\ lastTick' >= lastTick
<1>1. IInv /\ [Next]_vars => [Step]_vars
  <2>. SUFFICES ASSUME IInv, [Next]_vars PROVE Step
    OBVIOUS
  <2>1. reported \in Int /\ lastTick \in Int /\ lastTick <= reported /\ TypeOK
    BY ClockAssumption, SMT DEF IInv, TypeOK, Control, AssertionsHold
  <2>2. ASSUME NEW interval, NEW reading, RequestAdditionalFrame(interval, reading)
        PROVE  lastTick' = lastTick
    BY <2>2 DEF RequestAdditionalFrame
  <2>. USE DEF UIGoto, KeptFlags, KeptScheduling, KeptScheduler, schedulerVars, clockVars, DrawStep,
               Kept
  <2>3. CASE RenderTick
    <3>1. PICK reading \in Readings : Tick(reading)
      BY <2>3 DEF RenderTick
    <3>2. reported' >= reported
      BY <2>1, <3>1, ClockStep DEF Tick
    <3>. QED
      BY <2>1, <2>3, <3>2, SMT DEF RenderTick
  <2>4. CASE DispatchTick
    BY <2>1, <2>4, SMT DEF DispatchTick, BeginTickReadClock
  <2>5. ASSUME ~RenderTick, ~DispatchTick
        PROVE  reported' = reported /\ lastTick' = lastTick
    <3>1. CASE Render
      BY <2>2, <2>5, <3>1
         DEF Render, RenderThread, RenderTop, RenderAsk, RenderThrottle, RenderQueue, RenderPost,
             RenderPostFails, RenderCommand, RenderFail, RenderSaveHR, RenderWait, RenderWake,
             RenderTimeout, RenderAgain, QueueTick
    <3>2. CASE UIProgress
      BY <2>5, <3>2
         DEF UIProgress, Create, StartThread, StoreHandle, BeginTickLocked, DrawStart, DrawSubmit,
             DrawDone, DrawFails, EndTickLocked, ShutdownFlag, ShutdownWake, ShutdownJoin,
             BeginTick, EndTick
    <3>3. CASE UNCHANGED vars \/ Closed
      BY <3>3 DEF vars, Closed
    <3>4. CASE TimePasses \/ UIRequest \/ OtherThreadRequest \/ Unregister
      BY <2>2, <3>4 DEF TimePasses, Advance, UIRequest, OtherThreadRequest, Unregister
    <3>5. CASE \E enable \in BOOLEAN : EnableRender(enable) \/ SetTicksEnabled(enable)
      BY <2>2, <3>5 DEF EnableRender, SetTicksEnabled
    <3>. QED
      BY <3>1, <3>2, <3>3, <3>4, <3>5 DEF Next
  <2>6. CASE ~RenderTick /\ ~DispatchTick
    BY <2>1, <2>5, <2>6, SMT
  <2>. QED
    BY <2>3, <2>4, <2>6
<1>2. Spec => [][Step]_vars
  BY Invariance, <1>1, PTL DEF Spec
<1>. QED
  BY <1>2 DEF ClockMonotone
-----------------------------------------------------------------------------
(* The render state *)

\* What makes RenderStateAgrees inductive: until the render target is complete nothing has
\* been reported, and a submitted frame has reported whatever there was to report.
RenderStateInv ==
    /\ uiPc \in Starting => command = NoCommand /\ renderEnabled = TRUE
    /\ uiPc \notin Starting /\ (uiPc = "drawn" \/ (renderStateChanged => ~coreRenderEnabled))
       => EffectiveRenderEnabled = coreRenderEnabled

\* Every step preserves it.
LEMMA RenderStatePreserved ==
    ASSUME TypeOK, RenderStateInv, [Next]_vars
    PROVE  RenderStateInv'
<1>1. /\ coreRenderEnabled \in BOOLEAN /\ renderEnabled \in BOOLEAN /\ renderStateChanged \in BOOLEAN
      /\ command \in {NoCommand, "enable", "disable"}
  BY DEF TypeOK
<1>2. ASSUME UNCHANGED <<uiPc, coreRenderEnabled, renderStateChanged>>,
             EffectiveRenderEnabled' = EffectiveRenderEnabled,
             uiPc \in Starting => command' = NoCommand /\ renderEnabled' = TRUE
      PROVE  RenderStateInv'
  BY <1>2 DEF RenderStateInv
<1>3. ASSUME UNCHANGED <<command, renderEnabled>>
      PROVE  EffectiveRenderEnabled' = EffectiveRenderEnabled
  BY <1>3 DEF EffectiveRenderEnabled
<1>. USE DEF UIGoto, KeptFlags, KeptScheduling, KeptScheduler, DrawStep, Goto, Kept, compositorVars,
             uiVars, Starting, OnRenderStateChanged
<1>4. CASE Render
  <2>1. CASE RenderCommand
    <3>1. EffectiveRenderEnabled' = EffectiveRenderEnabled
      BY <2>1 DEF RenderCommand, EffectiveRenderEnabled
    <3>. QED
      BY <1>2, <1>4, <2>1, <3>1 DEF Render, RenderCommand, RenderStateInv
  <2>2. CASE ~RenderCommand
    BY <1>2, <1>3, <1>4, <2>2
       DEF Render, RenderThread, RenderTop, RenderTick, RenderAsk, RenderThrottle, RenderQueue,
           RenderPost, RenderPostFails, RenderFail, RenderSaveHR, RenderWait, RenderWake,
           RenderTimeout, RenderAgain, RenderStateInv
  <2>. QED
    BY <2>1, <2>2
<1>5. CASE UIProgress
  <2>1. CASE StoreHandle
    <3>1. CASE coreRenderEnabled
      BY <1>1, <2>1, <3>1 DEF StoreHandle, RenderStateInv, EffectiveRenderEnabled
    <3>2. CASE ~coreRenderEnabled
      BY <1>1, <2>1, <3>2 DEF StoreHandle, RenderStateInv, EffectiveRenderEnabled, NoCommand
    <3>. QED
      BY <3>1, <3>2
  <2>2. CASE DrawSubmit
    <3>1. CASE renderStateChanged /\ coreRenderEnabled
      BY <1>1, <2>2, <3>1 DEF DrawSubmit, RenderStateInv, EffectiveRenderEnabled, NoCommand
    <3>2. CASE ~(renderStateChanged /\ coreRenderEnabled)
      BY <1>1, <1>3, <2>2, <3>2 DEF DrawSubmit, RenderStateInv
    <3>. QED
      BY <3>1, <3>2
  <2>3. CASE DrawDone
    BY <1>1, <1>3, <2>3 DEF DrawDone, RenderStateInv
  <2>4. CASE DrawFails
    BY <1>1, <1>3, <2>4 DEF DrawFails, RenderStateInv
  <2>5. CASE Create \/ StartThread
    BY <1>3, <2>5 DEF Create, StartThread, RenderStateInv
  <2>6. CASE DispatchTick \/ BeginTickLocked \/ DrawStart \/ EndTickLocked
    BY <1>3, <2>6 DEF DispatchTick, BeginTickLocked, DrawStart, EndTickLocked, RenderStateInv
  <2>7. CASE ShutdownFlag \/ ShutdownWake \/ ShutdownJoin
    BY <1>3, <2>7 DEF ShutdownFlag, ShutdownWake, ShutdownJoin, RenderStateInv
  <2>. QED
    BY <1>5, <2>1, <2>2, <2>3, <2>4, <2>5, <2>6, <2>7 DEF UIProgress
<1>6. CASE \E enable \in BOOLEAN : EnableRender(enable)
  <2>. PICK enable \in BOOLEAN : EnableRender(enable)
    BY <1>6
  <2>1. CASE enable
    BY <1>1, <1>3, <2>1 DEF EnableRender, RenderStateInv
  <2>2. CASE ~enable
    BY <1>1, <1>3, <2>2 DEF EnableRender, RenderStateInv, EffectiveRenderEnabled, NoCommand
  <2>. QED
    BY <2>1, <2>2
<1>7. CASE TimePasses \/ UIRequest \/ OtherThreadRequest \/ Closed \/ UNCHANGED vars
           \/ (\E enable \in BOOLEAN : SetTicksEnabled(enable))
  BY <1>2, <1>3, <1>7
     DEF TimePasses, UIRequest, OtherThreadRequest, Closed, vars, SetTicksEnabled, RenderStateInv
<1>8. CASE Unregister
  BY <1>3, <1>8 DEF Unregister, RenderStateInv
<1>. QED
  BY <1>4, <1>5, <1>6, <1>7, <1>8 DEF Next

\* The core and the render thread agree on the render state.
THEOREM RenderStateIsShared == Spec => []RenderStateAgrees
<1>1. Init => RenderStateInv
  BY DEF Init, CompositorInit, RenderStateInv, Starting
<1>2. TypeOK /\ RenderStateInv /\ [Next]_vars => RenderStateInv'
  BY RenderStatePreserved
<1>3. RenderStateInv => RenderStateAgrees
  BY DEF RenderStateInv, RenderStateAgrees, Starting
<1>. QED
  BY TypeCorrect, <1>1, <1>2, <1>3, PTL DEF Spec
-----------------------------------------------------------------------------
(* Frames that are not early *)

\* The intervals that are asked for, and the time the UI thread can have been idle, fit in
\* 32 bits of milliseconds together: the sum that FromLastTick makes does not wrap.
IntervalsFit == \A interval \in Intervals : interval + Ms(MaxTime) <= Infinite

\* What makes NeverEarly inductive: whatever is pending is due less than a millisecond
\* before the earliest request wants it, and a tick about to be queued less than one from now.
EarlyInv ==
    /\ earliestDue \in Nat \union {Never}
    /\ HasRequestedAdditionalFrame => earliestDue # Never /\ earliestDue < RequestTime + Sub
    /\ renderPc \in {"throttle", "queue"} => RequestTime < reported + Sub

\* A multiple of Sub, and no more than Sub less than the time it is of.
LEMMA TruncationLoss ==
    ASSUME NEW time \in Nat
    PROVE  Ms(time) \in Nat /\ Sub * Ms(time) <= time /\ time < Sub * Ms(time) + Sub
BY SchedulerAssumption, SMT DEF Ms

\* Scaling milliseconds to clock units keeps their order.
LEMMA ScalingMonotone ==
    ASSUME NEW scale \in Nat, NEW small \in Nat, NEW large \in Nat, small <= large
    PROVE  scale * small \in Nat /\ scale * large \in Nat /\ scale * small <= scale * large
<1>1. large - small \in Nat /\ scale * (large - small) \in Nat /\ scale * small \in Nat
  BY SMT
<1>2. scale * large = scale * small + scale * (large - small)
  BY SMT
<1>. QED
  BY <1>1, <1>2, SMT

\* Truncation keeps the order of times.
LEMMA TruncationMonotone ==
    ASSUME NEW early \in Nat, NEW late \in Nat, early <= late
    PROVE  Ms(early) <= Ms(late)
<1>1. /\ Ms(early) \in Nat /\ Ms(late) \in Nat /\ Sub \in Nat \ {0}
      /\ Sub * Ms(early) <= early /\ late < Sub * Ms(late) + Sub
  BY TruncationLoss, SchedulerAssumption
<1>2. Sub * Ms(early) < Sub * Ms(late) + Sub
  BY <1>1, SMT
<1>. HIDE DEF Ms
<1>3. ASSUME Ms(late) + 1 <= Ms(early) PROVE FALSE
  <2>1. Sub * (Ms(late) + 1) <= Sub * Ms(early)
    BY <1>1, <1>3, SMT
  <2>2. Sub * (Ms(late) + 1) = Sub * Ms(late) + Sub
    BY <1>1, SMT
  <2>. QED
    BY <1>1, <1>2, <2>1, <2>2, SMT
<1>. QED
  BY <1>1, <1>3, SMT

\* An interval that is converted to count from the last tick asks for a time less than a
\* millisecond before the one that is wanted.
LEMMA ConversionIsClose ==
    ASSUME TypeOK, IntervalsFit, NEW interval \in Intervals, NEW clockTime \in 0..MaxTime,
           lastTick <= clockTime
    PROVE  /\ FromLastTick(interval, clockTime) \in Nat
           /\ Sub * interval + clockTime < lastTick + Sub * FromLastTick(interval, clockTime) + Sub
<1>1. /\ lastTick \in Nat /\ clockTime \in Nat /\ interval \in Nat /\ Infinite \in Nat
      /\ MaxTime \in Nat /\ Sub \in Nat \ {0} /\ clockTime <= MaxTime
  BY ClockAssumption, SchedulerAssumption, FrameLoopAssumption DEF TypeOK
<1>. DEFINE l == Ms(lastTick)  c == Ms(clockTime)  m == Ms(MaxTime)
<1>2. /\ l \in Nat /\ c \in Nat /\ m \in Nat /\ l <= c /\ c <= m
      /\ Sub * l <= lastTick /\ clockTime < Sub * c + Sub
  BY <1>1, TruncationLoss, TruncationMonotone
<1>3. interval + m <= Infinite
  BY DEF IntervalsFit
<1>4. FromLastTick(interval, clockTime) = (interval + c - l) % (Infinite + 1)
  BY DEF FromLastTick
<1>. HIDE DEF l, c, m
<1>5. interval + c - l \in 0..Infinite
  BY <1>1, <1>2, <1>3, SMT
<1>6. FromLastTick(interval, clockTime) = interval + c - l
  BY <1>1, <1>4, <1>5, SMT
<1>7. Sub * (interval + c - l) = Sub * interval + Sub * c - Sub * l
  BY <1>1, <1>2, SMT
<1>8. /\ Sub * interval \in Nat /\ Sub * c \in Nat /\ Sub * l \in Nat
  BY <1>1, <1>2, SMT
<1>. QED
  BY <1>1, <1>2, <1>5, <1>6, <1>7, <1>8, SMT

\* A request keeps what is pending close to what is wanted.
LEMMA RequestIsNotEarly ==
    ASSUME TypeOK, AssertionsHold, EarlyInv, IntervalsFit, NEW interval \in Intervals \union {0},
           NEW reading \in Readings, RequestAdditionalFrame(interval, reading),
           UNCHANGED <<reported, renderPc>> \/ renderPc' \notin {"throttle", "queue"}
    PROVE  EarlyInv'
<1>. DEFINE clockTime == NextTickTime(reading)
            wanted == WantedTime(interval, clockTime)
            relative == IF IsOutsideTick(interval) THEN FromLastTick(interval, clockTime) ELSE interval
<1>1. /\ clockTime \in 0..MaxTime /\ reported <= clockTime
      /\ lastTick \in Nat /\ reported \in Nat /\ lastTick <= reported /\ interval \in Nat
      /\ Sub \in Nat \ {0} /\ MaxTime \in Nat
      /\ nextInterval \in Nat
  BY ClockStep, ClockAssumption, SchedulerAssumption, FrameLoopAssumption DEF TypeOK, AssertionsHold
<1>2. wanted \in Nat /\ relative \in Nat /\ wanted < lastTick + Sub * relative + Sub
  <2>1. CASE IsOutsideTick(interval)
    <3>1. interval \in Intervals /\ interval # 0
      BY <2>1 DEF IsOutsideTick
    <3>2. wanted = Sub * interval + clockTime
      BY <2>1, <3>1 DEF WantedTime
    <3>3. relative = FromLastTick(interval, clockTime)
      BY <2>1
    <3>4. Sub * interval \in Nat /\ lastTick <= clockTime
      BY <1>1, SMT
    <3>. HIDE DEF wanted, relative, clockTime
    <3>. QED
      BY <1>1, <3>1, <3>2, <3>3, <3>4, ConversionIsClose, SMT
  <2>2. CASE ~IsOutsideTick(interval)
    <3>1. relative = interval /\ (wanted = 0 \/ wanted = Sub * interval + lastTick)
      BY <2>2 DEF WantedTime
    <3>2. Sub * interval \in Nat
      BY <1>1, SMT
    <3>. HIDE DEF wanted, relative, clockTime
    <3>. QED
      BY <1>1, <3>1, <3>2, SMT
  <2>. QED
    BY <2>1, <2>2
<1>. HIDE DEF wanted, relative, clockTime
<1>3. /\ nextInterval' = IF uiState # "TickQueued" /\ relative < nextInterval THEN relative
                         ELSE nextInterval
      /\ earliestDue' = IF uiState = "TickQueued" THEN earliestDue
                        ELSE IF earliestDue = Never \/ wanted < earliestDue THEN wanted
                        ELSE earliestDue
      /\ UNCHANGED <<uiState, lastTick>>
  BY DEF RequestAdditionalFrame, clockTime, wanted, relative
<1>4. earliestDue' \in Nat \union {Never}
  BY <1>2, <1>3 DEF EarlyInv
<1>5. nextInterval' < Infinite =>
        earliestDue' # Never /\ earliestDue' < lastTick + Sub * nextInterval' + Sub
  <2>1. CASE uiState # "TickQueued" /\ relative < nextInterval
    <3>1. nextInterval' = relative /\ earliestDue' # Never /\ earliestDue' <= wanted
      BY <1>2, <1>3, <2>1, SMT DEF EarlyInv, Never
    <3>2. Sub * relative \in Nat
      BY <1>1, <1>2, SMT
    <3>. QED
      BY <1>1, <1>2, <1>4, <3>1, <3>2, SMT DEF Never
  <2>2. CASE ~(uiState # "TickQueued" /\ relative < nextInterval)
    <3>1. nextInterval' = nextInterval
      BY <1>3, <2>2
    <3>2. nextInterval < Infinite =>
            earliestDue # Never /\ earliestDue < lastTick + Sub * nextInterval + Sub
      BY DEF EarlyInv, HasRequestedAdditionalFrame, RequestTime
    <3>3. earliestDue # Never => earliestDue' # Never /\ earliestDue' <= earliestDue
      BY <1>2, <1>3, SMT DEF EarlyInv, Never
    <3>4. Sub * nextInterval \in Nat
      BY <1>1, SMT
    <3>. QED
      BY <1>1, <1>4, <3>1, <3>2, <3>3, <3>4, SMT DEF EarlyInv, Never
  <2>. QED
    BY <2>1, <2>2
<1>6. lastTick + Sub * nextInterval' <= lastTick + Sub * nextInterval
  <2>1. nextInterval' \in Nat /\ nextInterval' <= nextInterval
    BY <1>1, <1>2, <1>3, SMT
  <2>2. /\ Sub * nextInterval' <= Sub * nextInterval
        /\ Sub * nextInterval' \in Nat /\ Sub * nextInterval \in Nat
    BY <1>1, <2>1, ScalingMonotone
  <2>. QED
    BY <1>1, <2>2, SMT
<1>7. lastTick + Sub * nextInterval' \in Nat /\ lastTick + Sub * nextInterval \in Nat
  BY <1>1, <1>2, <1>3, SMT
<1>8. renderPc' \in {"throttle", "queue"} => RequestTime' < reported' + Sub
  BY <1>1, <1>3, <1>6, <1>7, SMT DEF EarlyInv, RequestTime
<1>. QED
  BY <1>3, <1>4, <1>5, <1>8 DEF EarlyInv, HasRequestedAdditionalFrame, RequestTime

\* Every step keeps the invariant.
LEMMA EarlyPreserved ==
    ASSUME IInv, EarlyInv, IntervalsFit, [Next]_vars
    PROVE  EarlyInv'
<1>1. /\ TypeOK /\ Control /\ AssertionsHold
      /\ lastTick \in Nat /\ reported \in Nat /\ lastTick <= reported /\ Sub \in Nat \ {0}
      /\ nextInterval \in Nat /\ Infinite \in Nat
  BY ClockAssumption, SchedulerAssumption DEF IInv, TypeOK, Control, AssertionsHold
<1>2. RequestTime \in Nat /\ Sub * nextInterval \in Nat
  BY <1>1, SMT DEF RequestTime
<1>3. ASSUME UNCHANGED <<nextInterval, lastTick, earliestDue, reported>>,
             renderPc' = renderPc \/ renderPc' \notin {"throttle", "queue"}
                \/ renderPc \in {"throttle", "queue"}
      PROVE  EarlyInv'
  BY <1>3 DEF EarlyInv, HasRequestedAdditionalFrame, RequestTime
<1>4. ASSUME NEW interval \in Intervals \union {0}, NEW reading \in Readings,
             RequestAdditionalFrame(interval, reading),
             UNCHANGED <<reported, renderPc>> \/ renderPc' \notin {"throttle", "queue"}
      PROVE  EarlyInv'
  BY <1>1, <1>4, RequestIsNotEarly
<1>. USE DEF UIGoto, KeptFlags, KeptScheduling, KeptScheduler, DrawStep, Goto, Kept, compositorVars,
             uiVars, clockVars, schedulerVars
<1>5. CASE Render
  <2>1. CASE RenderTick
    <3>1. /\ renderPc' = "ask" /\ UNCHANGED <<nextInterval, lastTick, earliestDue>>
      BY <2>1 DEF RenderTick
    <3>. QED
      BY <3>1 DEF EarlyInv, HasRequestedAdditionalFrame, RequestTime
  <2>2. CASE RenderAsk
    <3>1. UNCHANGED <<nextInterval, lastTick, earliestDue, reported>>
      BY <2>2 DEF RenderAsk
    <3>2. renderPc' = "throttle" => RequestTime < reported + Sub
      <4>1. SUFFICES ASSUME ScheduledInterval = 0 PROVE RequestTime < reported + Sub
        BY <2>2 DEF RenderAsk
      <4>2. reported >= RequestTime \/ (RequestTime - reported \in Nat /\ Ms(RequestTime - reported) = 0)
        BY <1>1, <1>2, <4>1, SchedulerAssumption, SMT DEF ScheduledInterval
      <4>3. ASSUME RequestTime - reported \in Nat, Ms(RequestTime - reported) = 0
            PROVE  RequestTime - reported < Sub
        <5>1. RequestTime - reported < Sub * Ms(RequestTime - reported) + Sub
          BY <4>3, TruncationLoss
        <5>. QED
          BY <1>1, <4>3, <5>1, SMT
      <4>. QED
        BY <1>1, <1>2, <4>2, <4>3, SMT
    <3>3. renderPc' \in {"throttle", "command"}
      BY <2>2 DEF RenderAsk
    <3>. QED
      BY <3>1, <3>2, <3>3 DEF EarlyInv, HasRequestedAdditionalFrame, RequestTime
  <2>3. CASE RenderFail
    <3>1. renderPc' = "saveHR" /\ reported' = reported
      BY <2>3 DEF RenderFail
    <3>. QED
      BY <1>3, <1>4, <2>3, <3>1 DEF RenderFail
  <2>4. CASE RenderQueue \/ RenderThrottle
    BY <1>3, <2>4 DEF RenderQueue, QueueTick, RenderThrottle
  <2>5. CASE ~RenderTick /\ ~RenderAsk /\ ~RenderFail /\ ~RenderQueue /\ ~RenderThrottle
    BY <1>3, <1>5, <2>5
       DEF Render, RenderThread, RenderTop, RenderPost, RenderPostFails, RenderCommand,
           RenderSaveHR, RenderWait, RenderWake, RenderTimeout, RenderAgain
  <2>. QED
    BY <2>1, <2>2, <2>3, <2>4, <2>5
<1>6. CASE UIProgress
  <2>1. CASE DispatchTick
    <3>1. CASE UNCHANGED schedulerVars
      BY <1>3, <2>1, <3>1 DEF DispatchTick
    <3>2. CASE BeginTickReadClock /\ uiPc' = "begin"
      <4>1. lastTick' = reported /\ UNCHANGED <<nextInterval, earliestDue, renderPc, reported>>
        BY <2>1, <3>2 DEF DispatchTick, BeginTickReadClock
      <4>2. renderPc \notin {"throttle", "queue"}
        <5>1. tickMessages > 0 /\ tickMessages \in Nat
          BY <1>1, <2>1 DEF DispatchTick, TypeOK
        <5>2. InFlight # 0
          BY <5>1, SMT DEF InFlight
        <5>. QED
          BY <1>1, <5>2 DEF Control, OneTickInFlight, AssertionsHold
      <4>3. RequestTime' \in Nat /\ RequestTime <= RequestTime'
        BY <1>1, <1>2, <4>1, SMT DEF RequestTime
      <4>4. HasRequestedAdditionalFrame => earliestDue # Never /\ earliestDue < RequestTime' + Sub
        <5>1. HasRequestedAdditionalFrame
              => earliestDue \in Nat /\ earliestDue # Never /\ earliestDue < RequestTime + Sub
          BY DEF EarlyInv
        <5>. DEFINE due == RequestTime
        <5>2. due \in Nat /\ due' \in Nat /\ due <= due'
          BY <1>2, <4>3
        <5>. HIDE DEF due
        <5>3. HasRequestedAdditionalFrame
              => earliestDue \in Nat /\ earliestDue # Never /\ earliestDue < due + Sub
          BY <5>1 DEF due
        <5>4. HasRequestedAdditionalFrame => earliestDue # Never /\ earliestDue < due' + Sub
          BY <1>1, <5>2, <5>3, SMT
        <5>. QED
          BY <5>4 DEF due
      <4>. QED
        <5>1. HasRequestedAdditionalFrame' => HasRequestedAdditionalFrame
          BY <4>1 DEF HasRequestedAdditionalFrame
        <5>2. earliestDue' \in Nat \union {Never}
          BY <4>1 DEF EarlyInv
        <5>. HIDE DEF UIGoto, KeptFlags, KeptScheduling, KeptScheduler, Kept, compositorVars, uiVars,
                      clockVars, schedulerVars
        <5>. QED
          BY <4>1, <4>2, <4>4, <5>1, <5>2 DEF EarlyInv
    <3>. QED
      BY <2>1, <3>1, <3>2 DEF DispatchTick
  <2>2. CASE BeginTickLocked
    <3>1. nextInterval' = Infinite /\ earliestDue' = Never /\ renderPc' = renderPc
      BY <2>2 DEF BeginTickLocked, BeginTick
    <3>2. renderPc \notin {"throttle", "queue"}
      BY <1>1, <2>2 DEF BeginTickLocked, AssertionsHold
    <3>3. ~(Infinite < Infinite)
      BY <1>1, SMT
    <3>. QED
      BY <3>1, <3>2, <3>3 DEF EarlyInv, HasRequestedAdditionalFrame
  <2>3. CASE Create \/ StartThread \/ StoreHandle
    <3>1. /\ UNCHANGED <<nextInterval, lastTick, earliestDue, reported>>
          /\ renderPc' = renderPc \/ renderPc' = "top"
      BY <2>3 DEF Create, StartThread, StoreHandle, OnRenderStateChanged, wakeVars
    <3>. QED
      BY <1>3, <3>1
  <2>4. CASE DrawStart \/ DrawSubmit \/ DrawDone \/ DrawFails
    <3>1. UNCHANGED <<nextInterval, lastTick, earliestDue, reported, renderPc>>
      BY <2>4 DEF DrawStart, DrawSubmit, DrawDone, DrawFails, OnRenderStateChanged, wakeVars
    <3>. QED
      BY <1>3, <3>1
  <2>5. CASE EndTickLocked \/ ShutdownFlag \/ ShutdownWake \/ ShutdownJoin
    <3>1. UNCHANGED <<nextInterval, lastTick, earliestDue, reported, renderPc>>
      BY <2>5 DEF EndTickLocked, EndTick, ShutdownFlag, ShutdownWake, ShutdownJoin
    <3>. QED
      BY <1>3, <3>1
  <2>. QED
    BY <1>6, <2>1, <2>2, <2>3, <2>4, <2>5 DEF UIProgress
<1>7. CASE UIRequest \/ OtherThreadRequest
  BY <1>4, <1>7 DEF UIRequest, OtherThreadRequest
<1>8. CASE \E enable \in BOOLEAN : EnableRender(enable) \/ SetTicksEnabled(enable)
  BY <1>3, <1>4, <1>8 DEF EnableRender, SetTicksEnabled
<1>9. CASE TimePasses \/ Unregister \/ Closed \/ UNCHANGED vars
  BY <1>3, <1>9 DEF TimePasses, Advance, Unregister, Closed, vars
<1>. QED
  BY <1>5, <1>6, <1>7, <1>8, <1>9 DEF Next

\* No tick is queued two milliseconds or more before the earliest time a frame was asked
\* for, as long as the sums of intervals fit in 32 bits.
THEOREM TicksAreNeverEarly ==
    ASSUME IntervalsFit
    PROVE  Spec => NeverEarly
<1>. DEFINE Step == uiState = "Waiting" /\ uiState' = "TickQueued"
                        => earliestDue # Never /\ reported + Sub > earliestDue - Sub
<1>1. Init => EarlyInv
  BY SchedulerAssumption, SMT
     DEF Init, SchedulerInit, CompositorInit, EarlyInv, HasRequestedAdditionalFrame, Never
<1>2. IInv /\ EarlyInv /\ [Next]_vars => EarlyInv'
  BY EarlyPreserved
<1>3. IInv /\ EarlyInv /\ [Next]_vars => [Step]_vars
  <2>. SUFFICES ASSUME IInv, EarlyInv, [Next]_vars, uiState = "Waiting", uiState' = "TickQueued"
                PROVE  earliestDue # Never /\ reported + Sub > earliestDue - Sub
    OBVIOUS
  <2>1. RenderQueue
    <3>. USE DEF UIGoto, KeptFlags, KeptScheduling, KeptScheduler, DrawStep, Goto, Kept, schedulerVars
    <3>1. ASSUME NEW interval, NEW reading, RequestAdditionalFrame(interval, reading)
          PROVE  FALSE
      BY <3>1 DEF RequestAdditionalFrame
    <3>2. ASSUME ~RenderQueue, Render PROVE FALSE
      BY <3>1, <3>2
         DEF Render, RenderThread, RenderTop, RenderTick, RenderAsk, RenderThrottle, RenderPost,
             RenderPostFails, RenderCommand, RenderFail, RenderSaveHR, RenderWait, RenderWake,
             RenderTimeout, RenderAgain
    <3>3. ASSUME UIProgress PROVE FALSE
      BY <3>3
         DEF UIProgress, Create, StartThread, StoreHandle, DispatchTick, BeginTickLocked, DrawStart,
             DrawSubmit, DrawDone, DrawFails, EndTickLocked, ShutdownFlag, ShutdownWake, ShutdownJoin,
             BeginTickReadClock, BeginTick, EndTick
    <3>4. ASSUME TimePasses \/ UIRequest \/ OtherThreadRequest \/ Unregister \/ Closed \/ UNCHANGED vars
          PROVE  FALSE
      BY <3>1, <3>4 DEF TimePasses, UIRequest, OtherThreadRequest, Unregister, Closed, vars
    <3>5. ASSUME \E enable \in BOOLEAN : EnableRender(enable) \/ SetTicksEnabled(enable) PROVE FALSE
      BY <3>1, <3>5 DEF EnableRender, SetTicksEnabled
    <3>. QED
      BY <3>2, <3>3, <3>4, <3>5 DEF Next
  <2>2. HasRequestedAdditionalFrame /\ RequestTime < reported + Sub
    BY <2>1 DEF RenderQueue, Goto, IInv, Control, Pending, EarlyInv
  <2>3. earliestDue # Never /\ earliestDue < RequestTime + Sub /\ earliestDue \in Nat
    BY <2>2 DEF EarlyInv
  <2>4. RequestTime \in Nat /\ reported \in Nat /\ Sub \in Nat
    BY ClockAssumption, SchedulerAssumption, SMT DEF IInv, TypeOK, RequestTime
  <2>. QED
    BY <2>2, <2>3, <2>4, SMT
<1>4. Spec => [][Step]_vars
  BY Invariance, <1>1, <1>2, <1>3, PTL DEF Spec
<1>. QED
  BY <1>4 DEF NeverEarly

-----------------------------------------------------------------------------
(* The refinement *)

\* Every step of the two threads is a step of the frame service or leaves it alone: ticks
\* come one at a time, each because one was asked for, and no request is forgotten.
THEOREM ThreadsImplementService == Spec => ImplementsService
<1>1. Init => Abstract!ServiceInit
  BY SchedulerAssumption, SMT
     DEF Init, SchedulerInit, CompositorInit, Abstract!ServiceInit, HasRequestedAdditionalFrame
<1>2. IInv /\ [Next]_vars => [Abstract!ServiceNext]_(Abstract!serviceVars)
  <2>. SUFFICES ASSUME IInv, [Next]_vars
                PROVE  Abstract!ServiceNext \/ UNCHANGED Abstract!serviceVars
    OBVIOUS
  <2>a. TypeOK /\ Control /\ 0 \in 0..(Infinite - 1)
    BY SchedulerAssumption, SMT DEF IInv
  <2>b. ASSUME UNCHANGED <<uiState, nextInterval, registered>>
        PROVE  UNCHANGED Abstract!serviceVars
    BY <2>b DEF Abstract!serviceVars, HasRequestedAdditionalFrame
  <2>c. ASSUME NEW interval \in 0..(Infinite - 1), NEW reading \in Readings, registered,
               RequestAdditionalFrame(interval, reading), UNCHANGED registered
        PROVE  Abstract!Ask \/ UNCHANGED Abstract!serviceVars
    <3>1. /\ UNCHANGED uiState
          /\ nextInterval' # nextInterval => nextInterval' < Infinite
      BY <2>a, <2>c, ClockStep, RequestEffect
    <3>2. CASE nextInterval' = nextInterval
      BY <2>b, <2>c, <3>1, <3>2
    <3>3. CASE nextInterval' # nextInterval
      BY <2>c, <3>1, <3>3 DEF Abstract!Ask, HasRequestedAdditionalFrame
    <3>. QED
      BY <3>2, <3>3
  <2>. USE DEF UIGoto, KeptFlags, KeptScheduling, KeptScheduler, schedulerVars, DrawStep, Goto, Kept,
               compositorVars, uiVars
  <2>1. CASE Render
    <3>1. CASE RenderQueue
      <4>1. registered /\ uiState = "Waiting" /\ HasRequestedAdditionalFrame
        BY <2>a, <3>1 DEF RenderQueue, Control, AssertionsHold, NoUseAfterTeardown,
           HoldsRegistration, Pending
      <4>2. UNCHANGED <<nextInterval, registered>> /\ uiState' = "TickQueued"
        BY <3>1, <4>1 DEF RenderQueue, QueueTick, ShouldQueueTick
      <4>. QED
        BY <4>1, <4>2 DEF Abstract!ServiceNext, Abstract!QueueIt, HasRequestedAdditionalFrame
    <3>2. CASE RenderFail
      BY <2>a, <2>b, <2>c, <3>2 DEF RenderFail, Abstract!ServiceNext
    <3>3. CASE ~RenderQueue /\ ~RenderFail
      BY <2>1, <2>b, <3>3
         DEF Render, RenderThread, RenderTop, RenderTick, RenderAsk, RenderThrottle, RenderPost,
             RenderPostFails, RenderCommand, RenderSaveHR, RenderWait, RenderWake, RenderTimeout,
             RenderAgain
    <3>. QED
      BY <3>1, <3>2, <3>3
  <2>2. CASE UIProgress
    <3>1. CASE Create
      <4>1. uiState = "Waiting" /\ ~HasRequestedAdditionalFrame /\ ~registered
        <5>1. uiState = "Waiting" /\ nextInterval = Infinite /\ ~registered
          BY <2>a, <3>1 DEF Create, Control, Lifecycle, Starting
        <5>. QED
          BY <5>1, SchedulerAssumption, SMT DEF HasRequestedAdditionalFrame
      <4>. QED
        BY <3>1, <4>1 DEF Create, Abstract!ServiceNext, Abstract!Open, HasRequestedAdditionalFrame
    <3>2. CASE BeginTickLocked
      <4>1. registered /\ uiState = "TickQueued"
        BY <2>a, <3>2 DEF BeginTickLocked, Control, AssertionsHold, Lifecycle, TornDown
      <4>2. ~(Infinite < Infinite)
        BY SchedulerAssumption, SMT
      <4>. QED
        BY <3>2, <4>1, <4>2
           DEF BeginTickLocked, BeginTick, Abstract!ServiceNext, Abstract!BeginIt,
               HasRequestedAdditionalFrame
    <3>3. CASE EndTickLocked
      <4>1. registered /\ uiState = "Ticking"
        BY <2>a, <3>3 DEF EndTickLocked, Control, AssertionsHold, Lifecycle, TornDown
      <4>. QED
        BY <3>3, <4>1
           DEF EndTickLocked, EndTick, Abstract!ServiceNext, Abstract!EndIt,
               HasRequestedAdditionalFrame
    <3>4. CASE ~Create /\ ~BeginTickLocked /\ ~EndTickLocked
      BY <2>2, <2>b, <3>4
         DEF UIProgress, StartThread, StoreHandle, DispatchTick, DrawStart, DrawSubmit, DrawDone,
             DrawFails, ShutdownFlag, ShutdownWake, ShutdownJoin, BeginTickReadClock
    <3>. QED
      BY <3>1, <3>2, <3>3, <3>4
  <2>3. CASE UIRequest
    <3>1. registered
      BY <2>a, <2>3 DEF UIRequest, Control, Lifecycle, TornDown
    <3>. QED
      BY <2>3, <2>c, <3>1, FrameLoopAssumption DEF UIRequest, Abstract!ServiceNext
  <2>4. CASE OtherThreadRequest
    BY <2>4, <2>a, <2>c DEF OtherThreadRequest, Abstract!ServiceNext
  <2>5. CASE \E enable \in BOOLEAN : EnableRender(enable) \/ SetTicksEnabled(enable)
    <3>1. uiPc = "loop" => registered
      BY <2>a DEF Control, Lifecycle, TornDown
    <3>. QED
      BY <2>5, <2>a, <2>b, <2>c, <3>1 DEF EnableRender, SetTicksEnabled, Abstract!ServiceNext
  <2>6. CASE Unregister
    <3>1. registered
      BY <2>a, <2>6 DEF Unregister, Control, Lifecycle, TornDown
    <3>. QED
      BY <2>6, <3>1
         DEF Unregister, Abstract!ServiceNext, Abstract!Close, HasRequestedAdditionalFrame
  <2>7. CASE TimePasses \/ Closed \/ UNCHANGED vars
    BY <2>7, <2>b DEF TimePasses, Closed, vars
  <2>. QED
    BY <2>1, <2>2, <2>3, <2>4, <2>5, <2>6, <2>7 DEF Next
<1>3. Spec => Abstract!Service
  BY Invariance, <1>1, <1>2, PTL DEF Spec, Abstract!Service
<1>. QED
  BY <1>3 DEF ImplementsService
=============================================================================
