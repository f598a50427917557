------------------------------ MODULE FrameLoop ------------------------------
(***************************************************************************)
(* The UI thread around the render thread of CompositorScheduler: the host *)
(* creates the schedulers and tears them down (CommonBrowserHost.hpp), the *)
(* dispatcher runs tick messages (xcpwindow.cpp, WinBrowserHost.cpp), the  *)
(* core requests frames, draws, and reports changes of the render state    *)
(* (xcpcore.cpp).  One life of a render target: a new one is a new model.  *)
(***************************************************************************)
EXTENDS CompositorScheduler

CONSTANTS
    Intervals,      \* the intervals frames are requested for, in milliseconds
    DrawMayFail,    \* whether Draw can fail with an error that is not a lost device
    CanToggle       \* which of {"ticks", "render"} the application switches on and off

ASSUME FrameLoopAssumption ==
    /\ Intervals \subseteq 0..(Infinite - 1)
    /\ DrawMayFail \in BOOLEAN
    /\ CanToggle \subseteq {"ticks", "render"}

VARIABLES
    uiPc,               \* where the UI thread is
    ticksEnabled,       \* CXcpDispatcher::m_fTicksEnabled
    owed,               \* history: a tick was skipped and no tick has drawn since
    coreRenderEnabled,  \* CCoreServices::m_isRenderEnabled
    renderStateChanged  \* CCoreServices::m_renderStateChanged

uiVars == <<uiPc, ticksEnabled, owed, coreRenderEnabled, renderStateChanged>>
vars == <<clockVars, schedulerVars, tickMessages, wakeVars, compositorVars, uiVars>>

UIPCs == {"down", "created", "starting", "loop", "begin", "draw", "drawing", "drawn",
          "end", "cleanup", "flagged", "join", "closed"}

Init ==
    /\ ClockInit /\ SchedulerInit /\ CompositorInit
    /\ uiPc = "down"
    /\ ticksEnabled = TRUE
    /\ owed = FALSE
    /\ coreRenderEnabled = TRUE
    /\ renderStateChanged = FALSE

-----------------------------------------------------------------------------
UIGoto(from, to) == uiPc = from /\ uiPc' = to
KeptFlags == UNCHANGED <<ticksEnabled, owed, coreRenderEnabled, renderStateChanged>>
KeptScheduling == KeptScheduler /\ UNCHANGED clockVars

\* RegisterUIThreadScheduler, before the render thread exists.
Create ==
    /\ UIGoto("down", "created")
    /\ registered' = TRUE
    /\ KeptScheduling /\ KeptFlags
    /\ UNCHANGED <<renderPc, timeout, shutdown, renderHR, command, renderEnabled>>

\* Startup: ThreadCreate lets the render thread run ...
StartThread ==
    /\ UIGoto("created", "starting")
    /\ renderPc' = "top"
    /\ KeptScheduling /\ KeptFlags
    /\ UNCHANGED <<registered, timeout, shutdown, renderHR, command, renderEnabled>>

\* ... before its handle is stored, which is what IsStarted looks at.
StoreHandle ==
    /\ UIGoto("starting", "loop")
    /\ started' = TRUE
    /\ IF coreRenderEnabled THEN UNCHANGED command ELSE OnRenderStateChanged(FALSE)
    /\ KeptFlags /\ UNCHANGED <<clockVars, schedulerVars, tickMessages, eventSet>>
    /\ UNCHANGED <<registered, renderPc, timeout, shutdown, renderHR, renderEnabled>>

-----------------------------------------------------------------------------
\* The core asks for a frame, between ticks or while it draws one.
UIRequest ==
    /\ uiPc \in {"loop", "drawing", "drawn"}
    /\ \E interval \in Intervals, reading \in Readings : RequestAdditionalFrame(interval, reading)
    /\ UNCHANGED <<clockVars, compositorVars, uiVars>>

\* A download or media thread asks for an immediate frame.
OtherThreadRequest ==
    /\ registered /\ started
    /\ \E reading \in Readings : RequestAdditionalFrame(0, reading)
    /\ UNCHANGED <<clockVars, compositorVars, uiVars>>

\* CCoreServices::EnableRender: disabling is reported at once, enabling with the next frame.
EnableRender(enable) ==
    /\ "render" \in CanToggle
    /\ uiPc \in {"down", "loop"}
    /\ enable # coreRenderEnabled
    /\ coreRenderEnabled' = enable
    /\ renderStateChanged' = TRUE
    /\ IF ~enable /\ uiPc = "loop" THEN OnRenderStateChanged(FALSE) ELSE UNCHANGED command
    /\ IF enable /\ uiPc = "loop"
       THEN \E reading \in Readings : RequestAdditionalFrame(0, reading)
       ELSE KeptScheduler
    /\ UNCHANGED <<clockVars, uiPc, ticksEnabled, owed>>
    /\ UNCHANGED <<registered, renderPc, timeout, shutdown, renderHR, renderEnabled>>

\* Mutant of SetTicksEnabled: no tick is asked for.
SetTicksEnabledNoRequest(enable) ==
    /\ "ticks" \in CanToggle
    /\ uiPc = "loop"
    /\ enable # ticksEnabled
    /\ ticksEnabled' = enable
    /\ KeptScheduling
    /\ UNCHANGED <<compositorVars, uiPc, owed, coreRenderEnabled, renderStateChanged>>

\* CXcpDispatcher::SetTicksEnabled: ask for the ticks that were dropped, then let them run.
SetTicksEnabled(enable) ==
    /\ "ticks" \in CanToggle
    /\ uiPc = "loop"
    /\ enable # ticksEnabled
    /\ IF enable THEN \E reading \in Readings : RequestAdditionalFrame(0, reading)
                 ELSE KeptScheduler
    /\ ticksEnabled' = enable
    /\ UNCHANGED <<clockVars, compositorVars, uiPc, owed, coreRenderEnabled, renderStateChanged>>

-----------------------------------------------------------------------------
\* CXcpDispatcher::Tick, up to BeginTick's lock; a host without a scheduler does nothing.
DispatchTick ==
    /\ tickMessages > 0 /\ tickMessages' = tickMessages - 1
    /\ \/ UIGoto("loop", "begin") /\ BeginTickReadClock
       \/ UIGoto("closed", "closed") /\ UNCHANGED schedulerVars
    /\ KeptFlags /\ UNCHANGED <<clockVars, wakeVars, compositorVars>>

\* BeginTick's lock; a tick that is skipped still begins and ends.
BeginTickLocked ==
    /\ UIGoto("begin", IF ticksEnabled THEN "draw" ELSE "end")
    /\ BeginTick
    /\ owed' = ~ticksEnabled
    /\ UNCHANGED <<clockVars, tickMessages, wakeVars, compositorVars>>
    /\ UNCHANGED <<ticksEnabled, coreRenderEnabled, renderStateChanged>>

DrawStep ==
    /\ KeptScheduling /\ UNCHANGED <<registered, renderPc, timeout, shutdown, renderHR, renderEnabled>>
    /\ UNCHANGED <<ticksEnabled, owed, coreRenderEnabled>>

\* Draw finds no error of the render thread.
DrawStart ==
    /\ UIGoto("draw", "drawing")
    /\ ~renderHR
    /\ DrawStep /\ UNCHANGED <<command, renderStateChanged>>

\* The frame is submitted under the draw-lists lock, an enabled render state with it.
DrawSubmit ==
    /\ UIGoto("drawing", "drawn")
    /\ ~HoldsDrawLists
    /\ IF renderStateChanged /\ coreRenderEnabled THEN OnRenderStateChanged(TRUE)
                                                  ELSE UNCHANGED command
    /\ DrawStep /\ UNCHANGED renderStateChanged

\* Draw succeeds; a frame that was submitted reported the render state.
DrawDone ==
    /\ \/ UIGoto("drawing", "end") /\ UNCHANGED renderStateChanged
       \/ UIGoto("drawn", "end") /\ renderStateChanged' = FALSE
    /\ DrawStep /\ UNCHANGED command

\* Draw fails and OnTick leaves without EndTick.  The error is reported to the application,
\* which handles it: if it did not, the process would end here.
DrawFails ==
    /\ \/ UIGoto("draw", "loop") /\ renderHR
       \/ DrawMayFail /\ uiPc \in {"drawing", "drawn"} /\ uiPc' = "loop"
    /\ DrawStep /\ UNCHANGED <<command, renderStateChanged>>

EndTickLocked ==
    /\ UIGoto("end", "loop")
    /\ EndTick
    /\ KeptFlags /\ UNCHANGED <<clockVars, tickMessages, compositorVars>>
-----------------------------------------------------------------------------
\* Mutant of Unregister: the registration lock is not taken.
UnregisterUnlocked ==
    /\ UIGoto("loop", "cleanup")
    /\ registered' = FALSE
    /\ KeptScheduling /\ KeptFlags
    /\ UNCHANGED <<renderPc, timeout, shutdown, renderHR, command, renderEnabled>>

\* CleanupRenderTarget: ~UIThreadScheduler unregisters, once the render thread lets it.
Unregister ==
    /\ UIGoto("loop", "cleanup")
    /\ ~HoldsRegistration
    /\ registered' = FALSE
    /\ KeptScheduling /\ KeptFlags
    /\ UNCHANGED <<renderPc, timeout, shutdown, renderHR, command, renderEnabled>>

\* CompositorScheduler::Shutdown: raise the flag, ...
ShutdownFlag ==
    /\ UIGoto("cleanup", "flagged")
    /\ shutdown' = TRUE
    /\ KeptScheduling /\ KeptFlags
    /\ UNCHANGED <<registered, renderPc, timeout, renderHR, command, renderEnabled>>

\* Mutant of ShutdownWake: the render thread is left asleep.
ShutdownNoWake ==
    /\ UIGoto("flagged", "join")
    /\ KeptScheduling /\ KeptFlags /\ UNCHANGED compositorVars

\* ... set the event, ...
ShutdownWake ==
    /\ UIGoto("flagged", "join")
    /\ eventSet' = TRUE
    /\ KeptFlags /\ UNCHANGED <<clockVars, schedulerVars, tickMessages, started, compositorVars>>

\* ... and wait for the thread.  No message runs before ticks are off for good.
ShutdownJoin ==
    /\ UIGoto("join", "closed")
    /\ renderPc = "exited"
    /\ started' = FALSE
    /\ ticksEnabled' = FALSE
    /\ UNCHANGED <<clockVars, schedulerVars, tickMessages, eventSet, compositorVars>>
    /\ UNCHANGED <<owed, coreRenderEnabled, renderStateChanged>>

Closed == uiPc = "closed" /\ tickMessages = 0 /\ UNCHANGED vars
-----------------------------------------------------------------------------
Render == RenderThread /\ UNCHANGED uiVars

TimePasses ==
    /\ Advance
    /\ KeptScheduler /\ UNCHANGED <<compositorVars, uiVars>>

\* What the UI thread goes on doing by itself.
UIProgress ==
    \/ Create \/ StartThread \/ StoreHandle
    \/ DispatchTick \/ BeginTickLocked \/ DrawStart \/ DrawSubmit \/ DrawDone \/ DrawFails
    \/ EndTickLocked \/ ShutdownFlag \/ ShutdownWake \/ ShutdownJoin

Next ==
    \/ Render \/ TimePasses \/ UIProgress
    \/ UIRequest \/ OtherThreadRequest
    \/ \E enable \in BOOLEAN : EnableRender(enable) \/ SetTicksEnabled(enable)
    \/ Unregister \/ Closed

Spec == Init /\ [][Next]_vars

\* The system schedules both threads, and time passes.
Fairness == WF_vars(Render) /\ WF_vars(UIProgress) /\ WF_vars(TimePasses)
FairSpec == Spec /\ Fairness
-----------------------------------------------------------------------------
(* Properties *)

\* Every variable holds a value of its type; the clock the scheduler remembers is one
\* the render thread reported.
TypeOK ==
    /\ now \in 0..MaxTime /\ reported \in 0..MaxTime /\ lastTick \in 0..MaxTime
    /\ uiState \in States
    /\ nextInterval \in 0..Infinite
    /\ highPriority \in BOOLEAN
    /\ tickMessages \in Nat
    /\ started \in BOOLEAN /\ eventSet \in BOOLEAN
    /\ earliestDue \in Int
    /\ registered \in BOOLEAN /\ shutdown \in BOOLEAN
    /\ renderPc \in RenderPCs
    /\ timeout \in Nat \ {0}
    /\ renderHR \in BOOLEAN /\ renderEnabled \in BOOLEAN
    /\ command \in {NoCommand, "enable", "disable"}
    /\ uiPc \in UIPCs
    /\ ticksEnabled \in BOOLEAN /\ owed \in BOOLEAN
    /\ coreRenderEnabled \in BOOLEAN /\ renderStateChanged \in BOOLEAN

\* A tick is queued once: while the state says so there is exactly one tick, about to be
\* posted, in the dispatcher's queue or just taken out of it, unless the post failed; in
\* any other state there is none (UIThreadScheduler.cpp:284-299).
InFlight ==
    tickMessages + (IF renderPc = "post" THEN 1 ELSE 0) + (IF uiPc = "begin" THEN 1 ELSE 0)
PostFailed == renderHR \/ renderPc \in {"fail", "saveHR"}
OneTickInFlight ==
    /\ InFlight <= 1
    /\ uiState # "TickQueued" => InFlight = 0
    /\ uiState = "TickQueued" /\ registered => InFlight = 1 \/ PostFailed
    /\ uiState = "TickQueued" => HasRequestedAdditionalFrame

\* The scheduler's ASSERTs: the render thread queues a tick only for a UI thread that
\* waits (UIThreadScheduler.cpp:289-298), BeginTick finds a queued tick and EndTick a
\* running one (:186, :211), and the clock does not run behind the last tick (:325).
AssertionsHold ==
    /\ renderPc \in {"throttle", "queue"} => uiState = "Waiting"
    /\ uiPc = "begin" => uiState = "TickQueued"
    /\ uiPc \in {"draw", "drawing", "drawn", "end"} => uiState = "Ticking"
    /\ lastTick <= reported

\* The render thread never calls into a UIThreadScheduler that has unregistered, and
\* the UI thread disposes of no thread that still runs (UIThreadScheduler.cpp:42,
\* compositorscheduler.cpp:164-169).
NoUseAfterTeardown ==
    /\ HoldsRegistration => registered
    /\ uiPc = "closed" => renderPc = "exited"

\* A request is never slept through: once the render thread has decided how long to wait,
\* every frame the waiting UI thread wants is due no earlier than the end of that wait, or
\* the event is set (compositorscheduler.cpp:328-341, UIThreadScheduler.cpp:141-149).
NoLostWakeup ==
    renderPc \in {"command", "wait", "asleep"} /\ registered /\ uiState = "Waiting"
        /\ HasRequestedAdditionalFrame /\ ~eventSet
    => timeout < Infinite /\ reported + Sub * timeout <= RequestTime

\* The core and the render thread agree on the render state, up to the change that the
\* next submitted frame has yet to report (xcpcore.cpp:6986-6991, :9216-9225).
RenderStateAgrees ==
    uiPc \notin {"down", "created", "starting"} /\ (renderStateChanged => ~coreRenderEnabled)
    => EffectiveRenderEnabled = coreRenderEnabled

\* No tick is queued two milliseconds or more before the earliest time a frame was
\* asked for (UIThreadScheduler.cpp:91-107, :331-338).
NeverEarly ==
    [][uiState = "Waiting" /\ uiState' = "TickQueued"
        => earliestDue # Never /\ reported + Sub > earliestDue - Sub]_vars

\* A pending request is replaced only by a sooner one, until a tick begins.
NeverPostponed ==
    [][nextInterval' > nextInterval => uiPc = "begin" /\ uiState' = "Ticking"]_vars

\* The animation clock never runs backwards, whatever the platform clock reads.
ClockMonotone == [][reported' >= reported /\ lastTick' >= lastTick]_vars

\* Shutdown gets the render thread to leave, wherever it is (compositorscheduler.cpp:157-164).
ShutdownReturns == (uiPc = "flagged") ~> (uiPc = "closed")

\* A tick dropped while ticks were off is made up for when they are on again
\* (xcpwindow.cpp:1439-1441).
DroppedTicksMadeUp == (owed /\ ticksEnabled) ~> (~owed \/ ~ticksEnabled \/ ~registered)
-----------------------------------------------------------------------------
(* What a comment of the code says, and a run refutes *)

\* "All requests dispatched while ticking are delayed until the transition to the waiting
\* state" (UIThreadScheduler.cpp:143): that transition comes.
TickingRequestsDelayed ==
    (uiState = "Ticking" /\ HasRequestedAdditionalFrame) ~> (uiState = "Waiting" \/ ~registered)
=============================================================================
