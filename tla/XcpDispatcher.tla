---------------------------- MODULE XcpDispatcher ----------------------------
(***************************************************************************)
(* The UI thread's message dispatcher (win/shared/xcpwindow.cpp): a queue  *)
(* any thread appends to, a one-shot timer that makes the UI thread run    *)
(* one message at a time, a guard against reentrancy, and scopes that      *)
(* pause dispatching.  What the UI thread has in progress is a stack of    *)
(* frames: handlers call user code, user code sends messages, opens        *)
(* scopes, and pumps, which lets the timer's callback in on top of them.   *)
(***************************************************************************)
EXTENDS Integers, Sequences

CONSTANTS
    MaxPosts,       \* bound of the model: messages posted
    MaxCalls,       \* bound of the model: messages sent and scopes opened
    MaxDepth,       \* bound of the model: frames in progress
    NestedPauses,   \* whether a scope is opened while another one is open
    ModalLoops      \* whether asynchronous handlers run modal loops of their own

ASSUME DispatcherAssumption ==
    /\ {MaxPosts, MaxCalls, MaxDepth} \subseteq Nat
    /\ NestedPauses \in BOOLEAN /\ ModalLoops \in BOOLEAN

VARIABLES
    queue,          \* CDeferredInvoke: the messages posted and not yet dispatched
    timerStarting,  \* threads that queued a first item and have yet to start the timer
    timerArmed,     \* m_dispatcherQueueTimer is running
    state,          \* m_state
    guard,          \* m_bMessageReentrancyGuard
    stack,          \* the frames of the UI thread, the innermost last
    started,        \* m_bStarted and the timer's callback registered
    halted,         \* the process has failed fast on reentrancy
    posted, calls   \* messages posted; messages sent and scopes opened

timerVars == <<timerStarting, timerArmed>>
dispatcherVars == <<queue, timerStarting, timerArmed, state, guard, stack, started, halted,
                    posted, calls>>

\* Ticks, work for the UI thread, the same with dispatching paused, and what may be reentered.
PostedKinds == {"tick", "execute", "executeBlocking", "async"}
\* Synchronous callbacks: protected, of an input event, and free to reenter.
SentKinds == {"sync", "syncInput", "syncReentrant"}
ProtectedKinds == {"tick", "execute", "executeBlocking", "sync"}
PausingKinds == {"executeBlocking", "sync", "pause"}
OtherKinds == {"skippedTick", "pause", "exempt", "modal", "close"}
Origins == {"timer", "drain", "called"}

\* prev: the guard on entry; more: hasMoreWork; target: messages posted when it began.
Frame(kind, origin, more) ==
    [kind |-> kind, origin |-> origin, more |-> more, prev |-> guard, target |-> posted]

Top == stack[Len(stack)]
Below == SubSeq(stack, 1, Len(stack) - 1)
OnStack(kinds) == \E i \in DOMAIN stack : stack[i].kind \in kinds

\* Application code, or the thread's own message loop, has control.
UserCode ==
    /\ started /\ ~halted
    /\ stack # <<>> => Top.kind \notin {"skippedTick", "close"}

\* Whether code that pauses dispatching can run.
MayPause == NestedPauses \/ ~OnStack(PausingKinds)

DispatcherInit ==
    /\ queue = <<>>
    /\ timerStarting = 0 /\ timerArmed = FALSE
    /\ state = "Running" /\ guard = FALSE
    /\ stack = <<>>
    /\ started = TRUE /\ halted = FALSE
    /\ posted = 0 /\ calls = 0

-----------------------------------------------------------------------------
\* Enqueue under its lock; the thread that adds the first item owes the timer a start.
\* The frame scheduler posts no tick before the last one has ended.
Post(kind) ==
    /\ ~halted /\ posted < MaxPosts
    /\ kind = "tick" => ~OnStack({"tick"}) /\ \A i \in DOMAIN queue : queue[i] # "tick"
    /\ queue' = Append(queue, kind)
    /\ posted' = posted + 1
    /\ timerStarting' = IF queue = <<>> THEN timerStarting + 1 ELSE timerStarting
    /\ UNCHANGED <<timerArmed, state, guard, stack, started, halted, calls>>

\* m_dispatcherQueueTimer->Start(), after the queue's lock has been released.
StartTimer ==
    /\ timerStarting > 0 /\ ~halted
    /\ timerStarting' = timerStarting - 1
    /\ timerArmed' = TRUE
    /\ UNCHANGED <<queue, state, guard, stack, started, halted, posted, calls>>

-----------------------------------------------------------------------------
\* ProcessMessage: a protected message takes the guard, and fails fast if it is taken; an
\* input callback only looks at it; ticks are skipped unless the state is Running.
ProcessMessage(kind, origin, more) ==
    /\ stack' = Append(stack, Frame(IF kind = "tick" /\ state # "Running"
                                    THEN "skippedTick" ELSE kind, origin, more))
    /\ halted' = (guard /\ kind \in ProtectedKinds \union {"syncInput"})
    /\ guard' = (guard \/ kind \in ProtectedKinds)
    /\ state' = IF kind \in PausingKinds THEN "Suspended" ELSE state

\* Mutant of TimerCallback: what is left in the queue is forgotten.
TimerCallbackForgets ==
    /\ timerArmed' = FALSE
    /\ IF queue = <<>> \/ state = "Suspended"
       THEN UNCHANGED <<queue, stack, halted, guard, state>>
       ELSE /\ queue' = Tail(queue)
            /\ ProcessMessage(Head(queue), "timer", FALSE)
    /\ UNCHANGED <<timerStarting, started, posted, calls>>

\* MessageTimerCallback: nothing while suspended, else one message.
TimerCallback ==
    /\ timerArmed' = FALSE
    /\ IF queue = <<>> \/ state = "Suspended"
       THEN UNCHANGED <<queue, stack, halted, guard, state>>
       ELSE /\ queue' = Tail(queue)
            /\ ProcessMessage(Head(queue), "timer", Len(queue) > 1)
    /\ UNCHANGED <<timerStarting, started, posted, calls>>

TimerFires ==
    /\ UserCode /\ timerArmed
    /\ Len(stack) < MaxDepth
    /\ TimerCallback

\* SendMessage, from whatever code the UI thread runs.
Send(kind) ==
    /\ UserCode
    /\ Len(stack) < MaxDepth /\ calls < MaxCalls
    /\ kind \in PausingKinds => MayPause
    /\ calls' = calls + 1
    /\ ProcessMessage(kind, "called", FALSE)
    /\ UNCHANGED <<queue, timerVars, started, posted>>

\* PauseNewDispatch around a call that may pump.
OpenPause ==
    /\ UserCode
    /\ Len(stack) < MaxDepth /\ calls < MaxCalls
    /\ MayPause
    /\ calls' = calls + 1
    /\ stack' = Append(stack, Frame("pause", "called", FALSE))
    /\ state' = "Suspended"
    /\ UNCHANGED <<queue, timerVars, guard, started, halted, posted>>

\* RaiseLoadedEventForObject exempts a hosted window from the reentrancy guard.
OpenExemption ==
    /\ UserCode
    /\ Len(stack) < MaxDepth /\ calls < MaxCalls
    /\ calls' = calls + 1
    /\ stack' = Append(stack, Frame("exempt", "called", FALSE))
    /\ guard' = FALSE
    /\ UNCHANGED <<queue, timerVars, state, started, halted, posted>>

\* The handler of an asynchronous event shows a modal window, which pumps until it is closed.
OpenModal ==
    /\ ModalLoops
    /\ UserCode /\ stack # <<>> /\ Top.kind = "async"
    /\ Len(stack) < MaxDepth /\ calls < MaxCalls
    /\ calls' = calls + 1
    /\ stack' = Append(stack, Frame("modal", "called", FALSE))
    /\ UNCHANGED <<queue, timerVars, state, guard, started, halted, posted>>

\* Mutant of Return: the guard is cleared and not restored.
ReturnClearsGuard ==
    /\ ~halted /\ stack # <<>> /\ Top.kind # "close"
    /\ stack' = IF Top.origin = "drain" THEN [Below EXCEPT ![Len(Below)].more = Top.more]
                                        ELSE Below
    /\ guard' = FALSE
    /\ state' = IF Top.kind \in PausingKinds THEN "Running" ELSE state
    /\ timerArmed' = (timerArmed \/ (Top.kind \in PausingKinds /\ queue # <<>>)
                                 \/ (Top.origin = "timer" /\ Top.more))
    /\ UNCHANGED <<queue, timerStarting, started, halted, posted, calls>>

\* Mutant of Return: dispatching is not resumed.
ReturnSuspended ==
    /\ ~halted /\ stack # <<>> /\ Top.kind # "close"
    /\ stack' = IF Top.origin = "drain" THEN [Below EXCEPT ![Len(Below)].more = Top.more]
                                        ELSE Below
    /\ guard' = IF Top.kind \in ProtectedKinds \union {"skippedTick", "exempt"} THEN Top.prev
                ELSE guard
    /\ timerArmed' = (timerArmed \/ (Top.origin = "timer" /\ Top.more))
    /\ UNCHANGED <<queue, timerStarting, state, started, halted, posted, calls>>

\* A frame ends: the guard is restored, dispatching resumes (ResumeDispatch), the callback
\* rearms the timer for the work that was left, the drain learns whether to go on.
Return ==
    /\ ~halted /\ stack # <<>> /\ Top.kind # "close"
    /\ stack' = IF Top.origin = "drain" THEN [Below EXCEPT ![Len(Below)].more = Top.more]
                                        ELSE Below
    /\ guard' = IF Top.kind \in ProtectedKinds \union {"skippedTick", "exempt"} THEN Top.prev
                ELSE guard
    /\ state' = IF Top.kind \in PausingKinds THEN "Running" ELSE state
    /\ timerArmed' = (timerArmed \/ (Top.kind \in PausingKinds /\ queue # <<>>)
                                 \/ (Top.origin = "timer" /\ Top.more))
    /\ UNCHANGED <<queue, timerStarting, started, halted, posted, calls>>

-----------------------------------------------------------------------------
\* XamlCore::Close, from the thread's loop: Drain sets the state ...
Drain ==
    /\ UserCode /\ stack = <<>>
    /\ state' = "Draining"
    /\ stack' = <<Frame("close", "called", TRUE)>>
    /\ UNCHANGED <<queue, timerVars, guard, started, halted, posted, calls>>

\* Mutant of DrainStep: one message is dispatched and the rest is left.
DrainOnce ==
    /\ ~halted /\ stack # <<>> /\ Top.kind = "close" /\ Top.more
    /\ IF queue = <<>>
       THEN /\ stack' = [stack EXCEPT ![Len(stack)].more = FALSE]
            /\ UNCHANGED <<queue, halted, guard, state>>
       ELSE /\ queue' = Tail(queue)
            /\ ProcessMessage(Head(queue), "drain", FALSE)
    /\ UNCHANGED <<timerVars, started, posted, calls>>

\* ... and dispatches until a message leaves no other behind, ...
DrainStep ==
    /\ ~halted /\ stack # <<>> /\ Top.kind = "close" /\ Top.more
    /\ IF queue = <<>>
       THEN /\ stack' = [stack EXCEPT ![Len(stack)].more = FALSE]
            /\ UNCHANGED <<queue, halted, guard, state>>
       ELSE /\ queue' = Tail(queue)
            /\ ProcessMessage(Head(queue), "drain", Len(queue) > 1)
    /\ UNCHANGED <<timerVars, started, posted, calls>>

\* ... and the core is deinitialized, which stops the dispatcher.  It may also be
\* stopped without having been drained.
Stop ==
    /\ started /\ ~halted
    /\ stack # <<>> => Top.kind = "close" /\ ~Top.more
    /\ started' = FALSE
    /\ stack' = <<>>
    /\ UNCHANGED <<queue, timerVars, state, guard, halted, posted, calls>>

Ended == (halted \/ ~started) /\ UNCHANGED dispatcherVars

DispatcherNext ==
    \/ \E kind \in PostedKinds : Post(kind)
    \/ \E kind \in SentKinds : Send(kind)
    \/ StartTimer \/ TimerFires \/ OpenPause \/ OpenExemption \/ OpenModal \/ Return
    \/ Drain \/ DrainStep \/ Stop \/ Ended

DispatcherSpec == DispatcherInit /\ [][DispatcherNext]_dispatcherVars

\* Threads run, message loops pump and handlers return; only a modal loop goes on until
\* its window is closed.
MessageLoop == stack # <<>> => Top.kind = "modal"
HandlersEnd ==
    /\ WF_dispatcherVars(StartTimer)
    /\ WF_dispatcherVars(MessageLoop /\ TimerFires)
    /\ WF_dispatcherVars(~MessageLoop /\ Return)
    /\ WF_dispatcherVars(DrainStep)
    /\ WF_dispatcherVars(stack # <<>> /\ Stop)
FairDispatcherSpec == DispatcherSpec /\ HandlersEnd
-----------------------------------------------------------------------------
(* Properties *)

Dispatched == posted - Len(queue)

\* Whatever is posted is dispatched, unless the dispatcher stops.
EveryPostDispatched ==
    \A n \in 1..MaxPosts : (posted >= n) ~> (Dispatched >= n \/ ~started \/ halted)

\* Every variable holds a value of its type.
DispatcherTypeOK ==
    /\ posted \in 0..MaxPosts /\ calls \in 0..MaxCalls
    /\ queue \in Seq(PostedKinds) /\ Len(queue) <= posted
    /\ timerStarting \in 0..posted /\ timerArmed \in BOOLEAN
    /\ state \in {"Running", "Suspended", "Draining"}
    /\ guard \in BOOLEAN /\ started \in BOOLEAN /\ halted \in BOOLEAN
    /\ stack \in Seq([kind : PostedKinds \union SentKinds \union OtherKinds, origin : Origins,
                      more : BOOLEAN, prev : BOOLEAN, target : 0..posted])

\* Work never lies in the queue with nothing to bring it out: the timer runs or is about
\* to be started, or a frame in progress will start it (or drain) when it ends
\* (xcpwindow.cpp:1196-1207, :1250-1260, :1304-1313).
WorkHasATrigger ==
    started /\ ~halted /\ queue # <<>> =>
        \/ timerArmed \/ timerStarting > 0
        \/ \E i \in DOMAIN stack :
            \/ stack[i].kind \in PausingKinds \union {"close"}
            \/ stack[i].origin = "timer" /\ stack[i].more

\* The guard is taken exactly while a protected handler is in progress that no exemption
\* covers (ReentrancyGuard.h:20-37, eventmgr.cpp:701-729).
GuardMatchesStack ==
    ~halted => guard = \E i \in DOMAIN stack :
        /\ stack[i].kind \in ProtectedKinds \union {"skippedTick"}
        /\ \A j \in i..Len(stack) : stack[j].kind # "exempt"

\* Dispatching is suspended only while somebody is there to resume it.
SuspendedOnlyInScope == state = "Suspended" => OnStack(PausingKinds)

\* When the drain is over, all that was queued when it began has been dispatched
\* (WindowsXamlManager_Partial.cpp:479-481).
DrainRunsAllWork ==
    \A i \in DOMAIN stack : stack[i].kind = "close" /\ ~stack[i].more
        => Dispatched >= stack[i].target

\* Whatever is posted is dispatched, or the dispatcher stops, as long as modal loops end:
\* pauses, nested or not, handlers that pump and the drain hold nothing back for good
\* (xcpwindow.cpp:1221-1264, :1295-1314).
DispatchedIfModalLoopsEnd == []<>(~OnStack({"modal"})) => EveryPostDispatched
=============================================================================
