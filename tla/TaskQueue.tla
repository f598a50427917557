------------------------------- MODULE TaskQueue -------------------------------
(***************************************************************************)
(* What the dispatcher of imaging tasks promises                           *)
(* (components/imaging/ImageTaskDispatcher.cpp): tasks queued by any       *)
(* thread run one at a time, each at most once and in the order they were  *)
(* queued, except that a task takes the place of an earlier one of the     *)
(* same request; once the queue is closed none runs.                       *)
(***************************************************************************)
EXTENDS Integers, Sequences

CONSTANTS
    Tasks,          \* the tasks there can be, each queued once
    RequestId       \* the request a task answers, 0 if none: a function of Tasks

VARIABLES
    queue,          \* the tasks that wait, first the one to run next
    fate,           \* what has become of each task
    open            \* whether the queue takes tasks

queueVars == <<queue, fate, open>>

Fates == {"new", "queued", "run", "superseded", "dropped"}

\* Where the queue holds a task of the same request.
Slots(q, task) ==
    {i \in DOMAIN q : RequestId[task] # 0 /\ RequestId[q[i]] = RequestId[task]}

\* The queue with task in the first of them, or at the end.
Put(q, task) ==
    IF Slots(q, task) = {} THEN Append(q, task)
    ELSE [q EXCEPT ![CHOOSE i \in Slots(q, task) : \A j \in Slots(q, task) : i <= j] = task]

\* What becomes of the tasks when q makes room for task: the one replaced is given up.
Superseding(q, task, f) ==
    [t \in Tasks |->
        IF t = task THEN "queued"
        ELSE IF \E i \in DOMAIN q : q[i] = t /\ Put(q, task)[i] = task THEN "superseded"
        ELSE f[t]]

TaskQueueInit == queue = <<>> /\ fate = [task \in Tasks |-> "new"] /\ open = TRUE

Queue(task) ==
    /\ open /\ fate[task] = "new"
    /\ queue' = Put(queue, task)
    /\ fate' = Superseding(queue, task, fate)
    /\ UNCHANGED open

Refuse(task) ==
    /\ ~open /\ fate[task] = "new"
    /\ fate' = [fate EXCEPT ![task] = "dropped"]
    /\ UNCHANGED <<queue, open>>

Run ==
    /\ queue # <<>>
    /\ queue' = Tail(queue)
    /\ fate' = [fate EXCEPT ![Head(queue)] = "run"]
    /\ UNCHANGED open

Close ==
    /\ open /\ open' = FALSE
    /\ queue' = <<>>
    /\ fate' = [task \in Tasks |-> IF fate[task] = "queued" THEN "dropped" ELSE fate[task]]

TaskQueueNext ==
    \/ \E task \in Tasks : Queue(task) \/ Refuse(task)
    \/ Run
    \/ Close

TaskQueueSpec == TaskQueueInit /\ [][TaskQueueNext]_queueVars
=============================================================================
