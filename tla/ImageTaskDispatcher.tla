-------------------------- MODULE ImageTaskDispatcher --------------------------
(***************************************************************************)
(* The queue that carries the results of imaging to the UI thread          *)
(* (components/imaging/ImageTaskDispatcher.cpp): threads of the thread     *)
(* pool and the UI thread queue tasks, and one callback posted to the UI   *)
(* thread (XcpDispatcher) runs those that are there.  Each block that      *)
(* holds m_taskLock, and each interlocked operation, is one step.          *)
(***************************************************************************)
EXTENDS Integers, Sequences

CONSTANTS
    Tasks,          \* the tasks there can be, each queued once
    NoTask,
    RequestId,      \* the request a task answers, 0 if none
    Threads,        \* the threads that queue tasks, the UI thread among them
    UIThread,
    PostMayFail     \* whether ExecuteOnUIThread can fail

ASSUME DispatcherAssumption ==
    /\ NoTask \notin Tasks
    /\ RequestId \in [Tasks -> Nat]
    /\ UIThread \in Threads
    /\ PostMayFail \in BOOLEAN

VARIABLES
    tasks,              \* m_tasks
    hasCallbackQueued,  \* m_hasCallbackQueued
    shuttingdown,       \* m_shuttingdown
    callbacks,          \* calls of Execute the UI thread has yet to dispatch
    pc,                 \* where a thread is in QueueTask
    task,               \* the task it queues, NoTask if it queues none
    step,               \* where the UI thread is in Execute, or in the core's shutdown
    size,               \* the tasks this pass of Execute may still run
    closing,            \* the core shuts the dispatcher down
    fate,               \* history: what has become of each task
    failed              \* history: a post has failed

queueVars == <<pc, task>>
passVars == <<step, size, closing>>
vars == <<tasks, hasCallbackQueued, shuttingdown, callbacks, queueVars, passVars, fate, failed>>

TQ == INSTANCE TaskQueue WITH
        queue <- IF shuttingdown THEN <<>> ELSE tasks,
        fate <- [t \in Tasks |-> IF fate[t] = "queuing" THEN "new" ELSE fate[t]],
        open <- ~shuttingdown

Init ==
    /\ tasks = <<>> /\ hasCallbackQueued = FALSE /\ shuttingdown = FALSE /\ callbacks = 0
    /\ pc = [th \in Threads |-> "idle"]
    /\ task = [th \in Threads |-> NoTask]
    /\ step = "none" /\ size = 0 /\ closing = FALSE
    /\ fate = [t \in Tasks |-> "new"]
    /\ failed = FALSE
-----------------------------------------------------------------------------
\* QueueTask.  The UI thread may queue a task from the task it runs.
MayQueue(th) == th = UIThread => step \in {"none", "running"}

\* m_shuttingdown is read without the lock.
QueueTask(th, t) ==
    /\ MayQueue(th) /\ pc[th] = "idle" /\ fate[t] = "new"
    /\ IF shuttingdown
       THEN fate' = [fate EXCEPT ![t] = "dropped"] /\ UNCHANGED queueVars
       ELSE /\ fate' = [fate EXCEPT ![t] = "queuing"]
            /\ task' = [task EXCEPT ![th] = t] /\ pc' = [pc EXCEPT ![th] = "put"]
    /\ UNCHANGED <<tasks, hasCallbackQueued, shuttingdown, callbacks, passVars, failed>>

\* Mutant of QueuePut: the task is put at the end whatever request it answers.
QueuePutLast(th) ==
    /\ pc[th] = "put"
    /\ tasks' = Append(tasks, task[th])
    /\ fate' = [fate EXCEPT ![task[th]] = IF shuttingdown THEN "dropped" ELSE "queued"]
    /\ pc' = [pc EXCEPT ![th] = "flag"] /\ task' = [task EXCEPT ![th] = NoTask]
    /\ UNCHANGED <<hasCallbackQueued, shuttingdown, callbacks, passVars, failed>>

\* Under the lock: the task takes the place of one of the same request, or the last.  One
\* put into a dispatcher that was shut down meanwhile is lost.
QueuePut(th) ==
    /\ pc[th] = "put"
    /\ tasks' = TQ!Put(tasks, task[th])
    /\ fate' = IF shuttingdown THEN [fate EXCEPT ![task[th]] = "dropped"]
               ELSE TQ!Superseding(tasks, task[th], fate)
    /\ pc' = [pc EXCEPT ![th] = "flag"] /\ task' = [task EXCEPT ![th] = NoTask]
    /\ UNCHANGED <<hasCallbackQueued, shuttingdown, callbacks, passVars, failed>>

\* InterlockedCompareExchange
QueueFlag(th) ==
    /\ pc[th] = "flag"
    /\ hasCallbackQueued' = TRUE
    /\ pc' = [pc EXCEPT ![th] = IF hasCallbackQueued THEN "idle" ELSE "post"]
    /\ UNCHANGED <<tasks, shuttingdown, callbacks, task, passVars, fate, failed>>

\* ExecuteOnUIThread
Post ==
    \/ callbacks' = callbacks + 1 /\ UNCHANGED failed
    \/ PostMayFail /\ failed' = TRUE /\ UNCHANGED callbacks

QueuePost(th) ==
    /\ pc[th] = "post"
    /\ Post
    /\ pc' = [pc EXCEPT ![th] = "idle"]
    /\ UNCHANGED <<tasks, hasCallbackQueued, shuttingdown, task, passVars, fate>>
-----------------------------------------------------------------------------
\* Execute, on the UI thread
UIStep(from) == pc[UIThread] = "idle" /\ step = from

\* Mutant of Execute: the flag is not cleared.
ExecuteKeepsFlag ==
    /\ UIStep("none") /\ callbacks > 0
    /\ callbacks' = callbacks - 1
    /\ IF shuttingdown THEN UNCHANGED step ELSE step' = "count"
    /\ UNCHANGED <<tasks, hasCallbackQueued, shuttingdown, queueVars, size, closing, fate, failed>>

\* The callback of a dispatcher that is not shutting down begins a pass.
Execute ==
    /\ UIStep("none") /\ callbacks > 0
    /\ callbacks' = callbacks - 1
    /\ IF shuttingdown THEN UNCHANGED <<hasCallbackQueued, step>>
       ELSE hasCallbackQueued' = FALSE /\ step' = "count"
    /\ UNCHANGED <<tasks, shuttingdown, queueVars, size, closing, fate, failed>>

\* The core shuts down: it runs a pass before it closes the dispatcher.
ShutdownCore ==
    /\ UIStep("none") /\ ~closing
    /\ closing' = TRUE
    /\ hasCallbackQueued' = FALSE /\ step' = "count"
    /\ UNCHANGED <<tasks, shuttingdown, callbacks, queueVars, size, fate, failed>>

\* Under the lock: only the tasks that are there now are run.
ExecuteCount ==
    /\ UIStep("count")
    /\ size' = Len(tasks) /\ step' = "pop"
    /\ UNCHANGED <<tasks, hasCallbackQueued, shuttingdown, callbacks, queueVars, closing, fate, failed>>

\* Under the lock: the first task is taken, ...
ExecutePop ==
    /\ UIStep("pop") /\ size > 0 /\ tasks # <<>>
    /\ tasks' = Tail(tasks)
    /\ fate' = [fate EXCEPT ![Head(tasks)] = "run"]
    /\ size' = size - 1 /\ step' = "running"
    /\ UNCHANGED <<hasCallbackQueued, shuttingdown, callbacks, queueVars, closing, failed>>

\* ... and returns.
TaskReturns ==
    /\ UIStep("running")
    /\ step' = "pop"
    /\ UNCHANGED <<tasks, hasCallbackQueued, shuttingdown, callbacks, queueVars, size, closing,
                   fate, failed>>

\* The end of a pass
PassEnds == step' = IF closing THEN "shutdown" ELSE "none"

\* Under the lock, after the last task: another pass is asked for if there are more, in
\* addition to the one those who put them ask for.
ExecuteCheck ==
    /\ UIStep("pop") /\ (size = 0 \/ tasks = <<>>)
    /\ IF tasks # <<>> THEN step' = "post" ELSE PassEnds
    /\ UNCHANGED <<tasks, hasCallbackQueued, shuttingdown, callbacks, queueVars, size, closing,
                   fate, failed>>

\* ExecuteOnUIThread; m_hasCallbackQueued is left alone.
ExecutePost ==
    /\ UIStep("post")
    /\ Post
    /\ PassEnds
    /\ UNCHANGED <<tasks, hasCallbackQueued, shuttingdown, queueVars, size, closing, fate>>

\* Under the lock
Shutdown ==
    /\ UIStep("shutdown")
    /\ shuttingdown' = TRUE /\ hasCallbackQueued' = FALSE /\ tasks' = <<>>
    /\ fate' = [t \in Tasks |-> IF fate[t] = "queued" THEN "dropped" ELSE fate[t]]
    /\ step' = "none"
    /\ UNCHANGED <<callbacks, queueVars, size, closing, failed>>
-----------------------------------------------------------------------------
Queuing(th) == QueuePut(th) \/ QueueFlag(th) \/ QueuePost(th)

Pass == Execute \/ ExecuteCount \/ ExecutePop \/ TaskReturns \/ ExecuteCheck \/ ExecutePost \/ Shutdown

Next ==
    \/ \E th \in Threads : (\E t \in Tasks : QueueTask(th, t)) \/ Queuing(th)
    \/ Pass
    \/ ShutdownCore

Spec == Init /\ [][Next]_vars

\* Threads go on with what they do, tasks return, and a posted callback is dispatched
\* (XcpDispatcher's DispatchedIfModalLoopsEnd).
FairSpec == Spec /\ WF_vars(Pass) /\ \A th \in Threads : WF_vars(Queuing(th))
-----------------------------------------------------------------------------
(* Properties *)

\* Every variable holds a value of its type.
TypeOK ==
    /\ tasks \in Seq(Tasks)
    /\ hasCallbackQueued \in BOOLEAN /\ shuttingdown \in BOOLEAN
    /\ closing \in BOOLEAN /\ failed \in BOOLEAN
    /\ callbacks \in Nat /\ size \in Nat
    /\ pc \in [Threads -> {"idle", "put", "flag", "post"}]
    /\ task \in [Threads -> Tasks \union {NoTask}]
    /\ step \in {"none", "count", "pop", "running", "post", "shutdown"}
    /\ fate \in [Tasks -> TQ!Fates \union {"queuing"}]

\* Nobody's task waits for a callback nobody has asked for, although the flag is set after
\* the task is put, cleared before the tasks are counted, and left alone by the pass that
\* asks for another (ImageTaskDispatcher.cpp:61-67, :110, :185-191): unless a post failed,
\* a callback is on its way, a pass has yet to look, or the thread that put the task has.
TasksHaveACallback ==
    tasks # <<>> /\ ~shuttingdown /\ ~failed =>
        \/ callbacks > 0
        \/ step # "none"
        \/ \E th \in Threads : pc[th] \in {"flag", "post"}

\* Whatever the threads do between two locks, tasks run as TaskQueue promises: in order, at
\* most once, the latest of a request in the place of the earlier ones, none after Shutdown
\* (ImageTaskDispatcher.cpp:28-58, :150-164, :203-209).
ImplementsTaskQueue == TQ!TaskQueueSpec

\* Every queued task runs, is superseded, or is dropped by Shutdown; unless a post failed.
TasksFinish ==
    \A t \in Tasks : fate[t] \in {"queuing", "queued"} ~> (fate[t] \notin {"queuing", "queued"} \/ failed)
=============================================================================
