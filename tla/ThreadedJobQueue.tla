--------------------------- MODULE ThreadedJobQueue ---------------------------
(***************************************************************************)
(* The queue whose jobs one worker thread runs                             *)
(* (components/threading/ThreadedJobQueue.cpp).  The worker leaves when it *)
(* was idle for long and another is created when a job comes, so several   *)
(* generations of it can exist, one of them active.  Every block that      *)
(* holds m_jobMutex is one step; jobs and pumped messages run without it   *)
(* and may call the queue themselves.                                      *)
(***************************************************************************)
EXTENDS Integers, Sequences, FiniteSets

CONSTANTS
    Jobs,           \* the jobs there can be, each queued once
    MaxWorkers,     \* bound of the model: worker threads created, one a job is enough
    MaxDeferrals,   \* bound of the model: deferrals held at a time
    Terminates      \* the values terminateOnInactivity is tried with

ASSUME JobQueueAssumption ==
    /\ MaxWorkers \in Nat \ {0}
    /\ MaxDeferrals \in Nat
    /\ Terminates \subseteq BOOLEAN

VARIABLES
    queue,      \* m_jobQueue
    keepAlive,  \* m_keepAliveCount
    isActive,   \* m_isThreadActive
    shutdown,   \* m_shutdown
    current,    \* the generation m_jobThread and m_threadInterrupt belong to, 0 before the first
    idle,       \* more than ThreadTimeoutMs have passed since m_lastJobTime
    event,      \* whether the interrupt event of a generation is set
    pc,         \* where the worker of a generation is
    deferred,   \* what that worker last saw of "m_keepAliveCount > 0"
    owner,      \* the object: "alive", "closing" while ~ThreadedJobQueue waits, "destroyed"
    base,       \* history: the keep-alive count the constructor set
    accepted,   \* history: the jobs in the order they were queued
    begun       \* history: the jobs in the order they were run

sharedVars == <<queue, keepAlive, isActive, shutdown, current, idle, owner, base>>
vars == <<sharedVars, event, pc, deferred, accepted, begun>>

Workers == 1..MaxWorkers
WorkerPCs == {"none", "init", "pump", "check", "run", "stamp", "wait", "asleep", "woken",
              "leaving", "gone"}

\* The worker still looks at the queue's members.
InLoop(worker) == pc[worker] \notin {"none", "leaving", "gone"}

Init ==
    /\ \E terminates \in Terminates : base = IF terminates THEN 0 ELSE 1
    /\ keepAlive = base
    /\ queue = <<>> /\ accepted = <<>> /\ begun = <<>>
    /\ isActive = FALSE /\ shutdown = FALSE /\ idle = FALSE
    /\ current = 0
    /\ event = [worker \in Workers |-> FALSE]
    /\ pc = [worker \in Workers |-> "none"]
    /\ deferred = [worker \in Workers |-> FALSE]
    /\ owner = "alive"

-----------------------------------------------------------------------------
\* Who may call: any thread while the object lives, a job or a pumped message always.
MayCall == owner = "alive" \/ (\E worker \in Workers : pc[worker] \in {"pump", "run"})

SetInterrupt == event' = IF current \in Workers THEN [event EXCEPT ![current] = TRUE] ELSE event

\* Mutant of EnsureThreadActive: a worker that is active is not interrupted.
EnsureThreadActiveSilently ==
    IF isActive
    THEN UNCHANGED <<event, current, idle, isActive, pc>>
    ELSE /\ current < MaxWorkers /\ current' = current + 1
         /\ idle' = FALSE /\ isActive' = TRUE
         /\ pc' = [pc EXCEPT ![current'] = "init"]
         /\ event' = [event EXCEPT ![current'] = TRUE]

\* Mutant of EnsureThreadActive: another worker is created although one is active.
EnsureThreadActiveAlways ==
    /\ current < MaxWorkers /\ current' = current + 1
    /\ idle' = FALSE /\ isActive' = TRUE
    /\ pc' = [pc EXCEPT ![current'] = "init"]
    /\ event' = [event EXCEPT ![current'] = TRUE]

\* EnsureThreadActive and the SetEvent after it: a new generation if none is active.
EnsureThreadActive ==
    IF isActive
    THEN SetInterrupt /\ UNCHANGED <<current, idle, isActive, pc>>
    ELSE /\ current < MaxWorkers /\ current' = current + 1
         /\ idle' = FALSE /\ isActive' = TRUE
         /\ pc' = [pc EXCEPT ![current'] = "init"]
         /\ event' = [event EXCEPT ![current'] = TRUE]

\* QueueJob
QueueJob(job) ==
    /\ MayCall
    /\ job \notin {accepted[i] : i \in DOMAIN accepted}
    /\ queue' = Append(queue, job)
    /\ accepted' = Append(accepted, job)
    /\ EnsureThreadActive
    /\ UNCHANGED <<keepAlive, shutdown, deferred, owner, base, begun>>

\* GetDeferral: IncrementDeferredKeepAliveCount
GetDeferral ==
    /\ MayCall
    /\ keepAlive - base < MaxDeferrals
    /\ keepAlive' = keepAlive + 1
    /\ UNCHANGED <<queue, isActive, shutdown, current, idle, owner, base, event, pc, deferred,
                   accepted, begun>>

\* Mutant of ReleaseDeferral: the worker is not told.
ReleaseDeferralSilently ==
    /\ MayCall
    /\ keepAlive > base
    /\ keepAlive' = keepAlive - 1
    /\ UNCHANGED <<queue, isActive, shutdown, current, idle, owner, base, event, pc, deferred,
                   accepted, begun>>

\* The deferral goes: DecrementDeferredKeepAliveCount interrupts the worker at zero.
ReleaseDeferral ==
    /\ MayCall
    /\ keepAlive > base
    /\ keepAlive' = keepAlive - 1
    /\ IF keepAlive' = 0 THEN SetInterrupt ELSE UNCHANGED event
    /\ UNCHANGED <<queue, isActive, shutdown, current, idle, owner, base, pc, deferred,
                   accepted, begun>>

\* Mutant of Destroy: the worker is not interrupted.
DestroyQuietly ==
    /\ owner = "alive" /\ keepAlive = base
    /\ owner' = "closing"
    /\ queue' = <<>>
    /\ shutdown' = (current # 0)
    /\ UNCHANGED <<event, keepAlive, isActive, current, idle, base, pc, deferred, accepted, begun>>

\* ~ThreadedJobQueue up to its wait; the caller has released all its deferrals.
Destroy ==
    /\ owner = "alive" /\ keepAlive = base
    /\ owner' = "closing"
    /\ queue' = <<>>
    /\ shutdown' = (current # 0)
    /\ SetInterrupt
    /\ UNCHANGED <<keepAlive, isActive, current, idle, base, pc, deferred, accepted, begun>>

\* Mutant of DestroyEnd: a worker that runs a job is not waited for.
DestroyEndEarly ==
    /\ owner = "closing" /\ owner' = "destroyed"
    /\ UNCHANGED <<queue, keepAlive, isActive, shutdown, current, idle, base>>
    /\ UNCHANGED <<event, pc, deferred, accepted, begun>>

\* The last worker created has ended, if there ever was one.
DestroyEnd ==
    /\ owner = "closing" /\ owner' = "destroyed"
    /\ current \in Workers => pc[current] = "gone"
    /\ UNCHANGED <<queue, keepAlive, isActive, shutdown, current, idle, base>>
    /\ UNCHANGED <<event, pc, deferred, accepted, begun>>

\* The clock passes m_lastJobTime by more than the timeout.
Elapse ==
    /\ ~idle /\ idle' = TRUE
    /\ UNCHANGED <<queue, keepAlive, isActive, shutdown, current, owner, base>>
    /\ UNCHANGED <<event, pc, deferred, accepted, begun>>
-----------------------------------------------------------------------------
Goto(worker, from, to) == pc[worker] = from /\ pc' = [pc EXCEPT ![worker] = to]
KeptQueue == UNCHANGED <<queue, keepAlive, shutdown, current, owner, base, accepted>>

\* The start of ThreadCallback, and step 1 of the loop, whose messages are MayCall's.
Begin(worker) ==
    /\ Goto(worker, "init", "pump")
    /\ KeptQueue /\ UNCHANGED <<isActive, idle, event, deferred, begun>>

Pump(worker) ==
    /\ Goto(worker, "pump", "check")
    /\ KeptQueue /\ UNCHANGED <<isActive, idle, event, deferred, begun>>

\* Mutant of Leave: the keep-alive count is not looked at.
LeaveDeferred(worker) ==
    /\ Goto(worker, "check", "leaving")
    /\ queue = <<>> /\ idle
    /\ isActive' = FALSE
    /\ KeptQueue /\ UNCHANGED <<idle, event, deferred, begun>>

\* Mutant of Leave: the thread leaves and is still taken for active.
LeaveActive(worker) ==
    /\ Goto(worker, "check", "leaving")
    /\ queue = <<>> /\ keepAlive = 0 /\ idle
    /\ KeptQueue /\ UNCHANGED <<isActive, idle, event, deferred, begun>>

\* Step 2: nothing to do, nobody who wants the thread, and idle for long: leave.
Leave(worker) ==
    /\ Goto(worker, "check", "leaving")
    /\ queue = <<>> /\ keepAlive = 0 /\ idle
    /\ isActive' = FALSE
    /\ KeptQueue /\ UNCHANGED <<idle, event, deferred, begun>>

\* Step 2: nothing to do, stay.
Stay(worker) ==
    /\ Goto(worker, "check", "wait")
    /\ queue = <<>> /\ ~(keepAlive = 0 /\ idle)
    /\ deferred' = [deferred EXCEPT ![worker] = keepAlive > 0]
    /\ KeptQueue /\ UNCHANGED <<isActive, idle, event, begun>>

\* Mutant of Pop: the latest job is taken.
PopLatest(worker) ==
    /\ Goto(worker, "check", "run")
    /\ queue # <<>>
    /\ begun' = Append(begun, queue[Len(queue)])
    /\ queue' = SubSeq(queue, 1, Len(queue) - 1)
    /\ UNCHANGED <<keepAlive, shutdown, current, owner, base, accepted>>
    /\ UNCHANGED <<isActive, idle, event, deferred>>

\* Step 2: take the first job, ...
Pop(worker) ==
    /\ Goto(worker, "check", "run")
    /\ queue # <<>>
    /\ begun' = Append(begun, Head(queue))
    /\ queue' = Tail(queue)
    /\ UNCHANGED <<keepAlive, shutdown, current, owner, base, accepted>>
    /\ UNCHANGED <<isActive, idle, event, deferred>>

\* ... step 3: it ends, ...
JobEnds(worker) ==
    /\ Goto(worker, "run", "stamp")
    /\ KeptQueue /\ UNCHANGED <<isActive, idle, event, deferred, begun>>

\* ... the time is noted, and the loop goes round without a wait.
Stamp(worker) ==
    /\ Goto(worker, "stamp", "pump")
    /\ idle' = FALSE
    /\ KeptQueue /\ UNCHANGED <<isActive, event, deferred, begun>>

\* Step 4: the keep-alive count is read without the lock to choose how long to wait; the
\* compiler may reuse what it read under the lock.
ReadKeepAlive(worker) ==
    /\ Goto(worker, "wait", "asleep")
    /\ \E seen \in {deferred[worker], keepAlive > 0} :
          deferred' = [deferred EXCEPT ![worker] = seen]
    /\ KeptQueue /\ UNCHANGED <<isActive, idle, event, begun>>

\* The wait ends by the event, ...
Interrupted(worker) ==
    /\ Goto(worker, "asleep", "woken")
    /\ event[worker] /\ event' = [event EXCEPT ![worker] = FALSE]
    /\ KeptQueue /\ UNCHANGED <<isActive, idle, deferred, begun>>

\* ... by its timeout if it has one, ...
TimedOut(worker) ==
    /\ Goto(worker, "asleep", "woken")
    /\ ~deferred[worker]
    /\ KeptQueue /\ UNCHANGED <<isActive, idle, event, deferred, begun>>

\* ... or by a message, whenever one is posted.
Message(worker) ==
    /\ Goto(worker, "asleep", "woken")
    /\ KeptQueue /\ UNCHANGED <<isActive, idle, event, deferred, begun>>

\* Mutant of LeaveAtShutdown: the worker leaves whenever its wait has ended.
LeaveAfterWait(worker) ==
    /\ Goto(worker, "woken", "leaving")
    /\ isActive' = FALSE
    /\ KeptQueue /\ UNCHANGED <<idle, event, deferred, begun>>

\* After the wait: leave if the object is going, ...
LeaveAtShutdown(worker) ==
    /\ Goto(worker, "woken", "leaving")
    /\ shutdown
    /\ isActive' = FALSE
    /\ KeptQueue /\ UNCHANGED <<idle, event, deferred, begun>>

\* ... go round otherwise.
GoRound(worker) ==
    /\ Goto(worker, "woken", "pump")
    /\ ~shutdown
    /\ KeptQueue /\ UNCHANGED <<isActive, idle, event, deferred, begun>>

\* The thread destroys its window, leaves COM and ends.
End(worker) ==
    /\ Goto(worker, "leaving", "gone")
    /\ KeptQueue /\ UNCHANGED <<isActive, idle, event, deferred, begun>>

ThreadCallback(worker) ==
    \/ Begin(worker) \/ Pump(worker) \/ Leave(worker) \/ Stay(worker) \/ Pop(worker)
    \/ JobEnds(worker) \/ Stamp(worker) \/ ReadKeepAlive(worker) \/ Interrupted(worker)
    \/ TimedOut(worker) \/ LeaveAtShutdown(worker) \/ GoRound(worker) \/ End(worker)

Ended ==
    /\ owner = "destroyed"
    /\ \A worker \in Workers : pc[worker] \in {"none", "gone"}
    /\ UNCHANGED vars

Next ==
    \/ \E job \in Jobs : QueueJob(job)
    \/ GetDeferral \/ ReleaseDeferral \/ Destroy \/ DestroyEnd \/ Elapse
    \/ \E worker \in Workers : ThreadCallback(worker) \/ Message(worker)
    \/ Ended

Spec == Init /\ [][Next]_vars

\* The system runs every thread, jobs end, timeouts come, and time passes.
Fairness ==
    /\ \A worker \in Workers : WF_vars(ThreadCallback(worker))
    /\ WF_vars(DestroyEnd) /\ WF_vars(Elapse)
FairSpec == Spec /\ Fairness
-----------------------------------------------------------------------------
\* The job that runs, for those who do not see which worker runs it.
Running == IF \E worker \in Workers : pc[worker] = "run" THEN {begun[Len(begun)]} ELSE {}

Service == INSTANCE JobService
    WITH pending <- queue, given <- {accepted[i] : i \in DOMAIN accepted}, running <- Running,
         active <- isActive, deferrals <- 1..(keepAlive - base), Deferrals <- 1..MaxDeferrals,
         stays <- base = 1, object <- owner

-----------------------------------------------------------------------------
(* Properties *)

\* Every variable holds a value of its type.
TypeOK ==
    /\ queue \in Seq(Jobs) /\ accepted \in Seq(Jobs) /\ begun \in Seq(Jobs)
    /\ base \in {0, 1} /\ keepAlive \in base..(base + MaxDeferrals)
    /\ isActive \in BOOLEAN /\ shutdown \in BOOLEAN /\ idle \in BOOLEAN
    /\ current \in 0..MaxWorkers
    /\ event \in [Workers -> BOOLEAN]
    /\ pc \in [Workers -> WorkerPCs]
    /\ deferred \in [Workers -> BOOLEAN]
    /\ owner \in {"alive", "closing", "destroyed"}

\* "There will only be one thread to run the jobs" (ThreadedJobQueue.h:15-16): of all the
\* workers ever created only the last one can be in the loop, and it is exactly then that
\* the queue takes a worker for active.
SingleRunner ==
    /\ \A worker \in Workers : InLoop(worker) => worker = current
    /\ isActive <=> \E worker \in Workers : InLoop(worker)

\* A job that waits has a worker that is going to look for it: one that is awake, or one
\* whose wait is about to be interrupted (ThreadedJobQueue.cpp:123-126, :268-292).
QueuedJobWillBeSeen ==
    queue # <<>> => InLoop(current) /\ (pc[current] = "asleep" => event[current])

\* Jobs begin in the order they were queued, each once; only destruction drops any.
InOrderOnce ==
    /\ owner = "alive" => accepted = begun \o queue
    /\ \A i, j \in DOMAIN begun : begun[i] = begun[j] => i = j

\* While a deferral is held, an active thread stays until the object goes
\* (ThreadedJobQueue.h:49-51), and one that is not to end when inactive always does.
DeferralKeepsThread == [][isActive /\ keepAlive > 0 /\ ~shutdown => isActive']_vars

\* Whoever only queues jobs, holds deferrals and destroys the object sees one thread that runs
\* one job at a time in order, stays for deferrals, goes with nothing left undone, and is gone
\* when the destructor returns; generations of workers do not show (ThreadedJobQueue.h:15-17,
\* :35-36, :49-51, ThreadedJobQueue.cpp:96-126, :268-330).
ImplementsJobService == Service!JobServiceSpec

\* Nobody is in the loop of an object that is destroyed, the workers that its destructor
\* did not wait for included (ThreadedJobQueue.cpp:96-110).
NoUseAfterDestruction == owner = "destroyed" => \A worker \in Workers : ~InLoop(worker)

\* A worker that waits without a timeout has a deferral to wait for, or is about to be
\* told that it has gone (ThreadedJobQueue.cpp:148-152, :324-326).
NoEndlessIdleWait ==
    \A worker \in Workers :
        pc[worker] = "asleep" /\ deferred[worker] => keepAlive > 0 \/ event[worker]

\* Every queued job begins, unless the object is destroyed first.
JobsBegin == \A job \in Jobs :
    (\E i \in DOMAIN queue : queue[i] = job) ~> ~(\E i \in DOMAIN queue : queue[i] = job)

\* The destructor returns.
DestructorReturns == (owner = "closing") ~> (owner = "destroyed")

\* When the last deferral has gone for good, the inactive thread ends
\* (ThreadedJobQueue.h:35-36).
InactiveThreadEnds == <>[](keepAlive = 0) => <>[](~isActive)
=============================================================================
