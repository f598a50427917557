------------------------- MODULE CompositorScheduler -------------------------
(***************************************************************************)
(* The render thread (core/compositor/compositorscheduler.cpp): one        *)
(* iteration of RenderThreadFrame per turn, one step per critical section. *)
(* The locks it holds are read off its program counter: the draw-lists     *)
(* lock from "ask" to "command", the registration lock from "throttle" to  *)
(* "post".                                                                 *)
(***************************************************************************)
EXTENDS UIThreadScheduler

CONSTANT
    QueueMayFail    \* whether the dispatcher can fail to queue a message (E_OUTOFMEMORY)

ASSUME CompositorAssumption == QueueMayFail \in BOOLEAN

VARIABLES
    registered,     \* m_pUIThreadSchedulerNoRef # NULL
    renderPc,       \* where the render thread is
    timeout,        \* timeToNextWorkInMilliseconds
    shutdown,       \* m_fShutdownThread
    renderHR,       \* m_renderThreadHR: TRUE when it holds a failure
    command,        \* m_pRenderStateChangedCommand
    renderEnabled   \* m_isRenderEnabled

compositorVars == <<registered, renderPc, timeout, shutdown, renderHR, command,
                    renderEnabled>>

NoCommand == "none"

RenderPCs == {"off", "top", "frame", "ask", "throttle", "queue", "post",
              "command", "fail", "saveHR", "wait", "asleep", "awake", "exited"}

HoldsDrawLists == renderPc \in {"ask", "throttle", "queue", "post", "command"}
HoldsRegistration == renderPc \in {"throttle", "queue", "post"}

CompositorInit ==
    /\ registered = FALSE
    /\ renderPc = "off"
    /\ timeout = Infinite
    /\ shutdown = FALSE
    /\ renderHR = FALSE
    /\ command = NoCommand
    /\ renderEnabled = TRUE

\* Mutant of OnRenderStateChanged: a command not yet run is kept.
OnRenderStateChangedKeepsOld(enable) ==
    command' = IF command # NoCommand THEN command ELSE IF enable THEN "enable" ELSE "disable"

\* OnRenderStateChanged: a new command replaces the one not yet run, and wakes nobody.
OnRenderStateChanged(enable) == command' = IF enable THEN "enable" ELSE "disable"

\* What the render thread will hold once the pending command has run.
EffectiveRenderEnabled == IF command = NoCommand THEN renderEnabled ELSE command = "enable"

Goto(from, to) == renderPc = from /\ renderPc' = to

Kept == UNCHANGED <<now, registered, shutdown>>
KeptScheduler == UNCHANGED <<schedulerVars, tickMessages, wakeVars>>

\* RenderThreadMain's loop test.
RenderTop ==
    /\ Goto("top", IF shutdown THEN "exited" ELSE "frame")
    /\ timeout' = Infinite
    /\ Kept /\ KeptScheduler /\ UNCHANGED <<reported, renderHR, command, renderEnabled>>

\* Take the draw-lists lock and move the clock.
RenderTick ==
    /\ Goto("frame", "ask")
    /\ \E reading \in Readings : Tick(reading)
    /\ UNCHANGED <<registered, shutdown, timeout, renderHR, command, renderEnabled>>
    /\ KeptScheduler

\* Mutant of RenderAsk: the interval becomes the timeout even when it is zero.
RenderAskZeroTimeout ==
    /\ renderPc = "ask"
    /\ renderPc' = IF registered /\ ScheduledInterval = 0 THEN "throttle" ELSE "command"
    /\ timeout' = IF registered THEN ScheduledInterval ELSE timeout
    /\ Kept /\ KeptScheduler /\ UNCHANGED <<reported, renderHR, command, renderEnabled>>

\* Take the registration lock and ask when the UI thread wants its next frame.
RenderAsk ==
    /\ renderPc = "ask"
    /\ renderPc' = IF registered /\ ScheduledInterval = 0 THEN "throttle" ELSE "command"
    /\ timeout' = IF registered /\ ScheduledInterval > 0 THEN ScheduledInterval ELSE timeout
    /\ Kept /\ KeptScheduler /\ UNCHANGED <<reported, renderHR, command, renderEnabled>>

\* OnImmediateUIThreadFrame: wait for a vblank, or not; it never fails.
RenderThrottle ==
    /\ Goto("throttle", "queue")
    /\ Kept /\ KeptScheduler
    /\ UNCHANGED <<reported, timeout, renderHR, command, renderEnabled>>

\* UIThreadScheduler::QueueTick under its lock.
RenderQueue ==
    /\ Goto("queue", IF ShouldQueueTick THEN "post" ELSE "command")
    /\ QueueTick
    /\ Kept
    /\ UNCHANGED <<reported, timeout, renderHR, command, renderEnabled, tickMessages, wakeVars>>

\* UIThreadScheduler::QueueTick after the lock: the dispatcher takes the message ...
RenderPost ==
    /\ Goto("post", "command")
    /\ tickMessages' = tickMessages + 1
    /\ Kept
    /\ UNCHANGED <<reported, timeout, renderHR, command, renderEnabled, schedulerVars, wakeVars>>

\* ... or has no memory for it, and both locks are released on the way to Cleanup.
RenderPostFails ==
    /\ QueueMayFail
    /\ Goto("post", "fail")
    /\ Kept /\ KeptScheduler
    /\ UNCHANGED <<reported, timeout, renderHR, command, renderEnabled>>

\* Run the pending command, which always succeeds, and release the locks.
RenderCommand ==
    /\ Goto("command", "wait")
    /\ renderEnabled' = IF command = NoCommand THEN renderEnabled ELSE command = "enable"
    /\ command' = NoCommand
    /\ Kept /\ KeptScheduler /\ UNCHANGED <<reported, timeout, renderHR>>

\* A failed frame asks the UI thread for a tick ...
RenderFail ==
    /\ Goto("fail", "saveHR")
    /\ IF registered THEN \E reading \in Readings : RequestAdditionalFrame(0, reading)
                     ELSE KeptScheduler
    /\ Kept /\ UNCHANGED <<reported, timeout, renderHR, command, renderEnabled>>

\* ... and only then stores the error that tick should find.
RenderSaveHR ==
    /\ Goto("saveHR", "wait")
    /\ renderHR' = TRUE
    /\ Kept /\ KeptScheduler /\ UNCHANGED <<reported, timeout, command, renderEnabled>>

\* Mutant of RenderWait: the event is reset before the wait and not by it.
RenderWaitResets ==
    /\ Goto("wait", "asleep")
    /\ eventSet' = FALSE
    /\ Kept /\ UNCHANGED <<schedulerVars, tickMessages, started>>
    /\ UNCHANGED <<reported, timeout, renderHR, command, renderEnabled>>

\* Mark the thread idle if it waits without a timeout, and wait.
RenderWait ==
    /\ Goto("wait", "asleep")
    /\ Kept /\ KeptScheduler /\ UNCHANGED <<reported, timeout, renderHR, command, renderEnabled>>

\* The wait returns: the event, which it resets, ...
RenderWake ==
    /\ Goto("asleep", "awake")
    /\ eventSet /\ eventSet' = FALSE
    /\ Kept
    /\ UNCHANGED <<reported, timeout, renderHR, command, renderEnabled, schedulerVars,
                   tickMessages, started>>

\* ... or the timeout, which may come early or late for the clock.
RenderTimeout ==
    /\ timeout < Infinite
    /\ Goto("asleep", "awake")
    /\ Kept /\ KeptScheduler /\ UNCHANGED <<reported, timeout, renderHR, command, renderEnabled>>

\* Clear the idle mark and go round.
RenderAgain ==
    /\ Goto("awake", "top")
    /\ Kept /\ KeptScheduler /\ UNCHANGED <<reported, timeout, renderHR, command, renderEnabled>>

RenderThread ==
    \/ RenderTop \/ RenderTick \/ RenderAsk \/ RenderThrottle \/ RenderQueue
    \/ RenderPost \/ RenderPostFails \/ RenderCommand \/ RenderFail \/ RenderSaveHR
    \/ RenderWait \/ RenderWake \/ RenderTimeout \/ RenderAgain
=============================================================================
