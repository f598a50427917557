----------------------------- MODULE JobService ------------------------------
(***************************************************************************)
(* What the job queue promises those who use it                            *)
(* (components/threading/inc/ThreadedJobQueue.h): jobs run on one thread,  *)
(* one at a time and in the order they were queued; the thread comes with  *)
(* a job and goes when there is none, not before all deferrals have gone,  *)
(* and at the latest with the object; an object that goes takes no job     *)
(* with it half done.  Generations of workers, events and waits do not     *)
(* appear.                                                                 *)
(***************************************************************************)
EXTENDS Sequences

CONSTANTS
    Jobs,           \* the jobs there can be, each queued once
    Deferrals       \* the deferrals there can be at a time

VARIABLES
    pending,        \* the jobs that wait, first the one to run next
    given,          \* the jobs that were ever queued
    running,        \* the job that runs, as a set: there may be none
    active,         \* whether there is a thread to run jobs
    deferrals,      \* the deferrals that are held
    stays,          \* whether the thread stays when it has nothing to do
    object          \* "alive", "closing" while it is being destroyed, "destroyed"

serviceVars == <<pending, given, running, active, deferrals, stays, object>>

JobServiceInit ==
    /\ pending = <<>> /\ given = {} /\ running = {}
    /\ active = FALSE /\ deferrals = {}
    /\ stays \in BOOLEAN
    /\ object = "alive"

\* Anybody may use the object while it lives, and what runs on its thread as long as that does.
InUse == object = "alive" \/ active

Queue(job) ==
    /\ InUse /\ job \notin given
    /\ pending' = Append(pending, job)
    /\ given' = given \union {job}
    /\ active' = TRUE
    /\ UNCHANGED <<running, deferrals, stays, object>>

Start ==
    /\ active /\ running = {} /\ pending # <<>>
    /\ running' = {Head(pending)}
    /\ pending' = Tail(pending)
    /\ UNCHANGED <<given, active, deferrals, stays, object>>

Finish ==
    /\ running # {} /\ running' = {}
    /\ UNCHANGED <<pending, given, active, deferrals, stays, object>>

Hold ==
    /\ InUse
    /\ \E deferral \in Deferrals \ deferrals : deferrals' = deferrals \union {deferral}
    /\ UNCHANGED <<pending, given, running, active, stays, object>>

Release ==
    /\ InUse
    /\ \E deferral \in deferrals : deferrals' = deferrals \ {deferral}
    /\ UNCHANGED <<pending, given, running, active, stays, object>>

\* The thread goes: it has nothing to do, and is not wanted or the object is going.
Leave ==
    /\ active /\ running = {} /\ pending = <<>>
    /\ (deferrals = {} /\ ~stays) \/ object # "alive"
    /\ active' = FALSE
    /\ UNCHANGED <<pending, given, running, deferrals, stays, object>>

\* The object is destroyed, once its deferrals have gone: jobs that wait are dropped, ...
Close ==
    /\ object = "alive" /\ deferrals = {}
    /\ object' = "closing" /\ pending' = <<>>
    /\ UNCHANGED <<given, running, active, deferrals, stays>>

\* ... the one that runs is waited for, and the thread, if it has not left before.
End ==
    /\ object = "closing" /\ running = {} /\ pending = <<>>
    /\ object' = "destroyed" /\ active' = FALSE
    /\ UNCHANGED <<pending, given, running, deferrals, stays>>

JobServiceNext ==
    \/ \E job \in Jobs : Queue(job)
    \/ Start \/ Finish \/ Hold \/ Release \/ Leave \/ Close \/ End

JobServiceSpec == JobServiceInit /\ [][JobServiceNext]_serviceVars
=============================================================================
