------------------------ MODULE ThreadedJobQueue_proofs ------------------------
(***************************************************************************)
(* Proofs about ThreadedJobQueue, for every set of jobs and any number of  *)
(* workers and deferrals: its type invariant, the single runner, the job   *)
(* that will be seen, the wait that is not endless, the object that is not *)
(* used once it is destroyed, the order in which jobs begin and the thread *)
(* that a deferral keeps.                                                  *)
(***************************************************************************)
EXTENDS ThreadedJobQueue, SequenceTheorems, TLAPS

\* The shutdown flag is raised by the destructor alone, and once the destructor has begun
\* the worker reaches its wait with nothing left to run.
Ownership ==
    /\ owner = "alive" => ~shutdown
    /\ owner # "alive" /\ queue # <<>> => pc[current] \notin {"wait", "asleep", "woken"}

\* QueuedJobWillBeSeen, from the moment the worker has found the queue empty.
JobSeen ==
    queue # <<>> => current \in Workers /\ InLoop(current)
                    /\ (pc[current] \in {"wait", "asleep"} => event[current])

\* NoEndlessIdleWait, from the same moment.
IdleWait ==
    \A worker \in Workers :
        pc[worker] \in {"wait", "asleep"} /\ deferred[worker] => keepAlive > 0 \/ event[worker]

QInv == TypeOK /\ SingleRunner /\ Ownership /\ JobSeen /\ IdleWait /\ NoUseAfterDestruction
-----------------------------------------------------------------------------
\* The queue starts in a state the invariant describes.
LEMMA QueueInitialState == Init => QInv
<1>. SUFFICES ASSUME Init PROVE QInv
  OBVIOUS
<1>1. base \in {0, 1} /\ keepAlive \in base..(base + MaxDeferrals)
  BY JobQueueAssumption, SMT DEF Init
<1>2. TypeOK
  <2>1. isActive \in BOOLEAN /\ shutdown \in BOOLEAN /\ idle \in BOOLEAN
    BY DEF Init
  <2>. QED
    BY <1>1, <2>1, JobQueueAssumption, SMT DEF Init, TypeOK, WorkerPCs
<1>. QED
  BY <1>2 DEF Init, QInv, SingleRunner, Ownership, JobSeen, IdleWait, NoUseAfterDestruction, InLoop,
     Workers

\* Every step of a worker preserves the invariant.
LEMMA WorkerPreserves ==
    ASSUME QInv, NEW worker \in Workers, ThreadCallback(worker) \/ Message(worker)
    PROVE  QInv'
<1>. USE DEF Goto, KeptQueue, SingleRunner, Ownership, JobSeen, IdleWait, NoUseAfterDestruction, InLoop
<1>a. TypeOK /\ SingleRunner /\ Ownership /\ JobSeen /\ IdleWait /\ NoUseAfterDestruction
  BY DEF QInv
<1>b. /\ pc \in [Workers -> WorkerPCs] /\ event \in [Workers -> BOOLEAN]
      /\ deferred \in [Workers -> BOOLEAN] /\ isActive \in BOOLEAN
      /\ queue \in Seq(Jobs) /\ begun \in Seq(Jobs) /\ keepAlive \in Int
  BY JobQueueAssumption, SMT DEF QInv, TypeOK
<1>1. ASSUME Begin(worker) PROVE QInv'
  <2>1. TypeOK'
    BY <1>a, <1>1, SMT DEF Begin, TypeOK, WorkerPCs
  <2>2. SingleRunner'
    BY <1>a, <1>b, <1>1, SMT DEF Begin
  <2>3. Ownership' /\ NoUseAfterDestruction'
    BY <1>a, <1>b, <1>1, SMT DEF Begin
  <2>4. JobSeen'
    BY <1>a, <1>b, <1>1, SMT DEF Begin
  <2>5. IdleWait'
    BY <1>a, <1>b, <1>1, SMT DEF Begin
  <2>. QED
    BY <2>1, <2>2, <2>3, <2>4, <2>5 DEF QInv
<1>2. ASSUME Pump(worker) PROVE QInv'
  <2>1. TypeOK'
    BY <1>a, <1>2, SMT DEF Pump, TypeOK, WorkerPCs
  <2>2. SingleRunner'
    BY <1>a, <1>b, <1>2, SMT DEF Pump
  <2>3. Ownership' /\ NoUseAfterDestruction'
    BY <1>a, <1>b, <1>2, SMT DEF Pump
  <2>4. JobSeen'
    BY <1>a, <1>b, <1>2, SMT DEF Pump
  <2>5. IdleWait'
    BY <1>a, <1>b, <1>2, SMT DEF Pump
  <2>. QED
    BY <2>1, <2>2, <2>3, <2>4, <2>5 DEF QInv
<1>3. ASSUME Leave(worker) PROVE QInv'
  <2>1. TypeOK'
    <3>1. isActive' \in BOOLEAN
      BY <1>3 DEF Leave
    <3>. QED
      BY <1>a, <1>3, <3>1, SMT DEF Leave, TypeOK, WorkerPCs
  <2>2. SingleRunner'
    BY <1>a, <1>b, <1>3, SMT DEF Leave
  <2>3. Ownership' /\ NoUseAfterDestruction'
    BY <1>a, <1>b, <1>3, SMT DEF Leave
  <2>4. JobSeen'
    BY <1>a, <1>b, <1>3, SMT DEF Leave
  <2>5. IdleWait'
    BY <1>a, <1>b, <1>3, SMT DEF Leave
  <2>. QED
    BY <2>1, <2>2, <2>3, <2>4, <2>5 DEF QInv
<1>4. ASSUME Stay(worker) PROVE QInv'
  <2>1. TypeOK'
    BY <1>a, <1>4, SMT DEF Stay, TypeOK, WorkerPCs
  <2>2. SingleRunner'
    BY <1>a, <1>b, <1>4, SMT DEF Stay
  <2>3. Ownership' /\ NoUseAfterDestruction'
    BY <1>a, <1>b, <1>4, SMT DEF Stay
  <2>4. JobSeen'
    BY <1>a, <1>b, <1>4, SMT DEF Stay
  <2>5. IdleWait'
    BY <1>a, <1>b, <1>4, SMT DEF Stay
  <2>. QED
    BY <2>1, <2>2, <2>3, <2>4, <2>5 DEF QInv
<1>5. ASSUME Pop(worker) PROVE QInv'
  <2>1. TypeOK'
    BY <1>a, <1>5, SMT DEF Pop, TypeOK, WorkerPCs
  <2>2. SingleRunner'
    BY <1>a, <1>b, <1>5, SMT DEF Pop
  <2>3. Ownership' /\ NoUseAfterDestruction'
    BY <1>a, <1>b, <1>5, SMT DEF Pop
  <2>4. JobSeen'
    BY <1>a, <1>b, <1>5, SMT DEF Pop
  <2>5. IdleWait'
    BY <1>a, <1>b, <1>5, SMT DEF Pop
  <2>. QED
    BY <2>1, <2>2, <2>3, <2>4, <2>5 DEF QInv
<1>6. ASSUME JobEnds(worker) PROVE QInv'
  <2>1. TypeOK'
    BY <1>a, <1>6, SMT DEF JobEnds, TypeOK, WorkerPCs
  <2>2. SingleRunner'
    BY <1>a, <1>b, <1>6, SMT DEF JobEnds
  <2>3. Ownership' /\ NoUseAfterDestruction'
    BY <1>a, <1>b, <1>6, SMT DEF JobEnds
  <2>4. JobSeen'
    BY <1>a, <1>b, <1>6, SMT DEF JobEnds
  <2>5. IdleWait'
    BY <1>a, <1>b, <1>6, SMT DEF JobEnds
  <2>. QED
    BY <2>1, <2>2, <2>3, <2>4, <2>5 DEF QInv
<1>7. ASSUME Stamp(worker) PROVE QInv'
  <2>1. TypeOK'
    <3>1. idle' \in BOOLEAN
      BY <1>7 DEF Stamp
    <3>. QED
      BY <1>a, <1>7, <3>1, SMT DEF Stamp, TypeOK, WorkerPCs
  <2>2. SingleRunner'
    BY <1>a, <1>b, <1>7, SMT DEF Stamp
  <2>3. Ownership' /\ NoUseAfterDestruction'
    BY <1>a, <1>b, <1>7, SMT DEF Stamp
  <2>4. JobSeen'
    BY <1>a, <1>b, <1>7, SMT DEF Stamp
  <2>5. IdleWait'
    BY <1>a, <1>b, <1>7, SMT DEF Stamp
  <2>. QED
    BY <2>1, <2>2, <2>3, <2>4, <2>5 DEF QInv
<1>8. ASSUME ReadKeepAlive(worker) PROVE QInv'
  <2>1. TypeOK'
    <3>1. PICK seen \in {deferred[worker], keepAlive > 0} :
                deferred' = [deferred EXCEPT ![worker] = seen]
      BY <1>8 DEF ReadKeepAlive
    <3>2. CASE seen = deferred[worker]
      BY <1>a, <1>8, <1>b, <3>1, <3>2, SMT DEF ReadKeepAlive, TypeOK, WorkerPCs
    <3>3. CASE seen = (keepAlive > 0)
      <4>1. (keepAlive > 0) \in BOOLEAN
        OBVIOUS
      <4>2. seen \in BOOLEAN
        BY <3>3, <4>1
      <4>3. deferred' \in [Workers -> BOOLEAN]
        BY <1>b, <3>1, <4>2
      <4>. QED
        BY <1>a, <1>8, <4>3, SMT DEF ReadKeepAlive, TypeOK, WorkerPCs
    <3>. QED
      BY <3>1, <3>2, <3>3
  <2>2. SingleRunner'
    BY <1>a, <1>b, <1>8, SMT DEF ReadKeepAlive
  <2>3. Ownership' /\ NoUseAfterDestruction'
    BY <1>a, <1>b, <1>8, SMT DEF ReadKeepAlive
  <2>4. JobSeen'
    BY <1>a, <1>b, <1>8, SMT DEF ReadKeepAlive
  <2>5. IdleWait'
    BY <1>a, <1>b, <1>8, SMT DEF ReadKeepAlive
  <2>. QED
    BY <2>1, <2>2, <2>3, <2>4, <2>5 DEF QInv
<1>9. ASSUME Interrupted(worker) PROVE QInv'
  <2>1. TypeOK'
    BY <1>a, <1>9, SMT DEF Interrupted, TypeOK, WorkerPCs
  <2>2. SingleRunner'
    BY <1>a, <1>b, <1>9, SMT DEF Interrupted
  <2>3. Ownership' /\ NoUseAfterDestruction'
    BY <1>a, <1>b, <1>9, SMT DEF Interrupted
  <2>4. JobSeen'
    BY <1>a, <1>b, <1>9, SMT DEF Interrupted
  <2>5. IdleWait'
    BY <1>a, <1>b, <1>9, SMT DEF Interrupted
  <2>. QED
    BY <2>1, <2>2, <2>3, <2>4, <2>5 DEF QInv
<1>10. ASSUME TimedOut(worker) PROVE QInv'
  <2>1. TypeOK'
    BY <1>a, <1>10, SMT DEF TimedOut, TypeOK, WorkerPCs
  <2>2. SingleRunner'
    BY <1>a, <1>b, <1>10, SMT DEF TimedOut
  <2>3. Ownership' /\ NoUseAfterDestruction'
    BY <1>a, <1>b, <1>10, SMT DEF TimedOut
  <2>4. JobSeen'
    BY <1>a, <1>b, <1>10, SMT DEF TimedOut
  <2>5. IdleWait'
    BY <1>a, <1>b, <1>10, SMT DEF TimedOut
  <2>. QED
    BY <2>1, <2>2, <2>3, <2>4, <2>5 DEF QInv
<1>11. ASSUME Message(worker) PROVE QInv'
  <2>1. TypeOK'
    BY <1>a, <1>11, SMT DEF Message, TypeOK, WorkerPCs
  <2>2. SingleRunner'
    BY <1>a, <1>b, <1>11, SMT DEF Message
  <2>3. Ownership' /\ NoUseAfterDestruction'
    BY <1>a, <1>b, <1>11, SMT DEF Message
  <2>4. JobSeen'
    BY <1>a, <1>b, <1>11, SMT DEF Message
  <2>5. IdleWait'
    BY <1>a, <1>b, <1>11, SMT DEF Message
  <2>. QED
    BY <2>1, <2>2, <2>3, <2>4, <2>5 DEF QInv
<1>12. ASSUME LeaveAtShutdown(worker) PROVE QInv'
  <2>1. TypeOK'
    <3>1. isActive' \in BOOLEAN
      BY <1>12 DEF LeaveAtShutdown
    <3>. QED
      BY <1>a, <1>12, <3>1, SMT DEF LeaveAtShutdown, TypeOK, WorkerPCs
  <2>2. SingleRunner'
    BY <1>a, <1>b, <1>12, SMT DEF LeaveAtShutdown
  <2>3. Ownership' /\ NoUseAfterDestruction'
    BY <1>a, <1>b, <1>12, SMT DEF LeaveAtShutdown
  <2>4. JobSeen'
    BY <1>a, <1>b, <1>12, SMT DEF LeaveAtShutdown
  <2>5. IdleWait'
    BY <1>a, <1>b, <1>12, SMT DEF LeaveAtShutdown
  <2>. QED
    BY <2>1, <2>2, <2>3, <2>4, <2>5 DEF QInv
<1>13. ASSUME GoRound(worker) PROVE QInv'
  <2>1. TypeOK'
    BY <1>a, <1>13, SMT DEF GoRound, TypeOK, WorkerPCs
  <2>2. SingleRunner'
    BY <1>a, <1>b, <1>13, SMT DEF GoRound
  <2>3. Ownership' /\ NoUseAfterDestruction'
    BY <1>a, <1>b, <1>13, SMT DEF GoRound
  <2>4. JobSeen'
    BY <1>a, <1>b, <1>13, SMT DEF GoRound
  <2>5. IdleWait'
    BY <1>a, <1>b, <1>13, SMT DEF GoRound
  <2>. QED
    BY <2>1, <2>2, <2>3, <2>4, <2>5 DEF QInv
<1>14. ASSUME End(worker) PROVE QInv'
  <2>1. TypeOK'
    BY <1>a, <1>14, SMT DEF End, TypeOK, WorkerPCs
  <2>2. SingleRunner'
    BY <1>a, <1>b, <1>14, SMT DEF End
  <2>3. Ownership' /\ NoUseAfterDestruction'
    BY <1>a, <1>b, <1>14, SMT DEF End
  <2>4. JobSeen'
    BY <1>a, <1>b, <1>14, SMT DEF End
  <2>5. IdleWait'
    BY <1>a, <1>b, <1>14, SMT DEF End
  <2>. QED
    BY <2>1, <2>2, <2>3, <2>4, <2>5 DEF QInv
<1>. QED
  BY <1>1, <1>2, <1>3, <1>4, <1>5, <1>6, <1>7, <1>8, <1>9, <1>10, <1>11, <1>12, <1>13, <1>14 DEF ThreadCallback

\* Every call of the queue preserves the invariant, and so does the passing of time.
LEMMA CallPreserves ==
    ASSUME QInv,
           \/ \E job \in Jobs : QueueJob(job)
           \/ GetDeferral \/ ReleaseDeferral \/ Destroy \/ DestroyEnd \/ Elapse
           \/ UNCHANGED vars
    PROVE  QInv'
<1>. USE DEF SingleRunner, Ownership, JobSeen, IdleWait, NoUseAfterDestruction, InLoop, SetInterrupt
<1>a. TypeOK /\ SingleRunner /\ Ownership /\ JobSeen /\ IdleWait /\ NoUseAfterDestruction
  BY DEF QInv
<1>b. /\ pc \in [Workers -> WorkerPCs] /\ event \in [Workers -> BOOLEAN]
      /\ deferred \in [Workers -> BOOLEAN] /\ isActive \in BOOLEAN /\ shutdown \in BOOLEAN
      /\ queue \in Seq(Jobs) /\ keepAlive \in Int /\ base \in {0, 1} /\ MaxDeferrals \in Nat
      /\ Workers = 1..MaxWorkers /\ MaxWorkers \in Nat /\ current \in 0..MaxWorkers
  BY JobQueueAssumption, SMT DEF QInv, TypeOK, Workers
<1>1. ASSUME NEW job \in Jobs, QueueJob(job) PROVE QInv'
  <2>1. /\ queue' = Append(queue, job) /\ queue' # <<>> /\ queue' \in Seq(Jobs)
        /\ accepted' \in Seq(Jobs)
        /\ UNCHANGED <<keepAlive, shutdown, deferred, owner, base, begun>>
    BY <1>a, <1>1, SMT DEF QueueJob, TypeOK
  <2>2. MayCall
    BY <1>1 DEF QueueJob
  <2>3. CASE isActive
    <3>1. current \in Workers /\ InLoop(current) /\ event' = [event EXCEPT ![current] = TRUE]
          /\ UNCHANGED <<current, idle, isActive, pc>>
      BY <1>a, <1>1, <2>3 DEF QueueJob, EnsureThreadActive
    <3>2. TypeOK'
      BY <1>a, <2>1, <3>1, SMT DEF TypeOK
    <3>3. Ownership'
      BY <1>a, <2>1, <2>2, <3>1, SMT DEF MayCall
    <3>4. SingleRunner' /\ JobSeen' /\ IdleWait' /\ NoUseAfterDestruction'
      BY <1>a, <1>b, <2>1, <3>1, SMT
    <3>. QED
      BY <3>2, <3>3, <3>4 DEF QInv
  <2>4. CASE ~isActive
    <3>1. /\ current' = current + 1 /\ current' \in Workers
          /\ isActive' = TRUE /\ idle' = FALSE
          /\ pc' = [pc EXCEPT ![current'] = "init"]
          /\ event' = [event EXCEPT ![current'] = TRUE]
      BY <1>b, <1>1, <2>4, SMT DEF QueueJob, EnsureThreadActive
    <3>2. owner = "alive"
      BY <1>a, <2>2, <2>4 DEF MayCall
    <3>3. TypeOK'
      <4>1. isActive' \in BOOLEAN /\ idle' \in BOOLEAN
        BY <3>1
      <4>2. current' \in 0..MaxWorkers
        BY <1>b, <3>1, SMT
      <4>. QED
        BY <1>a, <2>1, <3>1, <4>1, <4>2, SMT DEF TypeOK, WorkerPCs
    <3>4. SingleRunner'
      BY <1>a, <1>b, <2>4, <3>1, SMT
    <3>5. Ownership' /\ JobSeen' /\ NoUseAfterDestruction'
      BY <1>a, <1>b, <2>1, <3>1, <3>2, SMT
    <3>6. IdleWait'
      BY <1>a, <1>b, <2>1, <3>1, SMT
    <3>. QED
      BY <3>3, <3>4, <3>5, <3>6 DEF QInv
  <2>. QED
    BY <2>3, <2>4
<1>2. ASSUME GetDeferral PROVE QInv'
  <2>1. TypeOK'
    BY <1>a, <1>b, <1>2, SMT DEF GetDeferral, TypeOK
  <2>2. SingleRunner' /\ Ownership' /\ JobSeen' /\ NoUseAfterDestruction'
    BY <1>a, <1>b, <1>2, SMT DEF GetDeferral
  <2>3. IdleWait'
    BY <1>a, <1>b, <1>2, SMT DEF GetDeferral, TypeOK
  <2>. QED
    BY <2>1, <2>2, <2>3 DEF QInv
<1>3. ASSUME ReleaseDeferral PROVE QInv'
  <2>1. /\ keepAlive' = keepAlive - 1 /\ keepAlive > base
        /\ keepAlive' = 0 /\ current \in Workers => event' = [event EXCEPT ![current] = TRUE]
        /\ ~(keepAlive' = 0 /\ current \in Workers) => event' = event
        /\ UNCHANGED <<queue, isActive, shutdown, current, idle, owner, base, pc, deferred,
                       accepted, begun>>
    BY <1>3 DEF ReleaseDeferral
  <2>2. event' \in [Workers -> BOOLEAN]
    BY <1>b, <2>1
  <2>3. keepAlive' \in base..(base + MaxDeferrals)
    BY <1>a, <1>b, <2>1, SMT DEF TypeOK
  <2>4. TypeOK'
    BY <1>a, <2>1, <2>2, <2>3 DEF TypeOK
  <2>5. SingleRunner' /\ Ownership' /\ JobSeen' /\ NoUseAfterDestruction'
    BY <1>a, <1>b, <2>1, SMT
  <2>6. ASSUME NEW worker \in Workers, pc'[worker] \in {"wait", "asleep"}, deferred'[worker],
               ~(keepAlive' > 0)
        PROVE  event'[worker]
    <3>1. InLoop(worker) /\ worker = current
      BY <1>a, <2>1, <2>6
    <3>2. keepAlive' = 0
      BY <1>b, <2>1, <2>6, SMT
    <3>. QED
      BY <1>b, <2>1, <3>1, <3>2
  <2>. QED
    BY <2>4, <2>5, <2>6 DEF QInv
<1>4. ASSUME Destroy PROVE QInv'
  <2>1. TypeOK'
    <3>1. shutdown' \in BOOLEAN
      BY <1>4 DEF Destroy
    <3>. QED
      BY <1>a, <1>b, <1>4, <3>1, SMT DEF Destroy, TypeOK
  <2>2. SingleRunner' /\ Ownership' /\ JobSeen' /\ NoUseAfterDestruction'
    BY <1>a, <1>b, <1>4, SMT DEF Destroy
  <2>3. IdleWait'
    BY <1>a, <1>b, <1>4, SMT DEF Destroy
  <2>. QED
    BY <2>1, <2>2, <2>3 DEF QInv
<1>5. ASSUME DestroyEnd PROVE QInv'
  <2>1. TypeOK'
    BY <1>a, <1>b, <1>5, SMT DEF DestroyEnd, TypeOK
  <2>2. SingleRunner' /\ Ownership' /\ JobSeen' /\ IdleWait'
    BY <1>a, <1>b, <1>5, SMT DEF DestroyEnd
  <2>3. NoUseAfterDestruction'
    BY <1>a, <1>b, <1>5 DEF DestroyEnd
  <2>. QED
    BY <2>1, <2>2, <2>3 DEF QInv
<1>6. ASSUME Elapse PROVE QInv'
  <2>1. TypeOK'
    <3>1. idle' \in BOOLEAN
      BY <1>6 DEF Elapse
    <3>. QED
      BY <1>a, <1>6, <3>1, SMT DEF Elapse, TypeOK
  <2>2. SingleRunner' /\ Ownership' /\ JobSeen' /\ IdleWait' /\ NoUseAfterDestruction'
    BY <1>a, <1>6 DEF Elapse
  <2>. QED
    BY <2>1, <2>2 DEF QInv
<1>7. ASSUME UNCHANGED vars PROVE QInv'
  BY <1>a, <1>7 DEF vars, sharedVars, QInv, TypeOK
<1>. QED
  BY <1>1, <1>2, <1>3, <1>4, <1>5, <1>6, <1>7

\* The invariant holds in every reachable state.
THEOREM QueueInvariance == Spec => []QInv
<1>1. QInv /\ [Next]_vars => QInv'
  <2>. SUFFICES ASSUME QInv, [Next]_vars PROVE QInv'
    OBVIOUS
  <2>. QED
    BY WorkerPreserves, CallPreserves DEF Next, Ended
<1>. QED
  BY QueueInitialState, <1>1, PTL DEF Spec
-----------------------------------------------------------------------------
\* Every variable keeps to its type.
THEOREM QueueTypeCorrect == Spec => []TypeOK
<1>1. QInv => TypeOK
  BY DEF QInv
<1>. QED
  BY QueueInvariance, <1>1, PTL

\* There is one thread to run the jobs, and the queue knows whether it is there.
THEOREM OneThreadRunsJobs == Spec => []SingleRunner
<1>1. QInv => SingleRunner
  BY DEF QInv
<1>. QED
  BY QueueInvariance, <1>1, PTL

\* No job is left in the queue of a thread that has gone or sleeps for good.
THEOREM NoJobIsStranded == Spec => []QueuedJobWillBeSeen
<1>1. QInv => QueuedJobWillBeSeen
  BY DEF QInv, JobSeen, QueuedJobWillBeSeen
<1>. QED
  BY QueueInvariance, <1>1, PTL

\* A thread nobody wants any more is told so.
THEOREM NoIdleWaitIsEndless == Spec => []NoEndlessIdleWait
<1>1. QInv => NoEndlessIdleWait
  BY DEF QInv, IdleWait, NoEndlessIdleWait
<1>. QED
  BY QueueInvariance, <1>1, PTL

\* No worker, of whatever generation, uses the object after its destructor.
THEOREM DestructionIsSafe == Spec => []NoUseAfterDestruction
<1>1. QInv => NoUseAfterDestruction
  BY DEF QInv
<1>. QED
  BY QueueInvariance, <1>1, PTL
-----------------------------------------------------------------------------
\* InOrderOnce, for what destruction has dropped too: the queue is the end of the jobs
\* accepted, and what has begun is among those before it.
OrderInv ==
    /\ \A i, j \in DOMAIN accepted : accepted[i] = accepted[j] => i = j
    /\ \A i, j \in DOMAIN begun : begun[i] = begun[j] => i = j
    /\ Len(queue) <= Len(accepted)
    /\ \A i \in DOMAIN queue : queue[i] = accepted[Len(accepted) - Len(queue) + i]
    /\ \A i \in DOMAIN begun : \E k \in 1..(Len(accepted) - Len(queue)) : accepted[k] = begun[i]
    /\ owner = "alive" =>
        /\ Len(accepted) = Len(begun) + Len(queue)
        /\ \A i \in DOMAIN begun : begun[i] = accepted[i]

\* The jobs' histories change when a job is queued, ...
LEMMA QueueJobKeepsOrder ==
    ASSUME TypeOK, OrderInv, NEW job \in Jobs, QueueJob(job)
    PROVE  OrderInv'
<1>. DEFINE q == Len(queue)  a == Len(accepted)  b == Len(begun)
<1>1. /\ q \in Nat /\ a \in Nat /\ b \in Nat
      /\ DOMAIN queue = 1..q /\ DOMAIN accepted = 1..a /\ DOMAIN begun = 1..b
  BY DEF TypeOK
<1>2. /\ Len(queue') = q + 1 /\ DOMAIN queue' = 1..(q + 1) /\ queue'[q + 1] = job
      /\ \A i \in 1..q : queue'[i] = queue[i]
  BY DEF QueueJob, TypeOK
<1>3. /\ Len(accepted') = a + 1 /\ DOMAIN accepted' = 1..(a + 1) /\ accepted'[a + 1] = job
      /\ \A i \in 1..a : accepted'[i] = accepted[i]
  BY DEF QueueJob, TypeOK
<1>4. begun' = begun /\ owner' = owner /\ \A i \in 1..a : accepted[i] # job
  BY <1>1 DEF QueueJob
<1>5. /\ \A i, j \in 1..a : accepted[i] = accepted[j] => i = j
      /\ \A i, j \in 1..b : begun[i] = begun[j] => i = j
      /\ q <= a
      /\ \A i \in 1..q : queue[i] = accepted[a - q + i]
      /\ \A i \in 1..b : \E k \in 1..(a - q) : accepted[k] = begun[i]
      /\ owner = "alive" => a = b + q /\ \A i \in 1..b : begun[i] = accepted[i]
  BY <1>1 DEF OrderInv
<1>. HIDE DEF q, a, b
<1>6. \A i, j \in 1..(a + 1) : accepted'[i] = accepted'[j] => i = j
  BY <1>1, <1>3, <1>4, <1>5, SMT
<1>7. \A i \in 1..(q + 1) : queue'[i] = accepted'[(a + 1) - (q + 1) + i]
  BY <1>1, <1>2, <1>3, <1>5, SMT
<1>8. \A i \in 1..b : \E k \in 1..((a + 1) - (q + 1)) : accepted'[k] = begun[i]
  <2>. SUFFICES ASSUME NEW i \in 1..b
                PROVE  \E k \in 1..((a + 1) - (q + 1)) : accepted'[k] = begun[i]
    OBVIOUS
  <2>1. PICK k \in 1..(a - q) : accepted[k] = begun[i]
    BY <1>5
  <2>2. k \in 1..((a + 1) - (q + 1)) /\ k \in 1..a
    BY <1>1, SMT
  <2>. QED
    BY <1>3, <2>1, <2>2
<1>9. owner = "alive" => a + 1 = b + (q + 1) /\ \A i \in 1..b : begun[i] = accepted'[i]
  BY <1>1, <1>3, <1>5, SMT
<1>10. q + 1 <= a + 1 /\ Len(begun) = b
  BY <1>1, <1>5, SMT DEF b
<1>. QED
  BY <1>1, <1>2, <1>3, <1>4, <1>5, <1>6, <1>7, <1>8, <1>9, <1>10 DEF OrderInv

\* ... when one is taken from the queue, ...
LEMMA PopKeepsOrder ==
    ASSUME TypeOK, OrderInv, NEW worker \in Workers, Pop(worker)
    PROVE  OrderInv'
<1>. DEFINE q == Len(queue)  a == Len(accepted)  b == Len(begun)
<1>1. /\ q \in Nat /\ q > 0 /\ a \in Nat /\ b \in Nat
      /\ DOMAIN queue = 1..q /\ DOMAIN accepted = 1..a /\ DOMAIN begun = 1..b
  BY DEF TypeOK, Pop
<1>2. /\ Len(queue') = q - 1 /\ DOMAIN queue' = 1..(q - 1)
      /\ \A i \in 1..(q - 1) : queue'[i] = queue[i + 1]
  BY DEF Pop, TypeOK
<1>3. /\ Len(begun') = b + 1 /\ DOMAIN begun' = 1..(b + 1) /\ begun'[b + 1] = queue[1]
      /\ \A i \in 1..b : begun'[i] = begun[i]
  BY <1>1 DEF Pop, TypeOK
<1>4. accepted' = accepted /\ owner' = owner /\ Len(accepted) = a
  BY DEF Pop
<1>5. /\ \A i, j \in 1..a : accepted[i] = accepted[j] => i = j
      /\ \A i, j \in 1..b : begun[i] = begun[j] => i = j
      /\ q <= a
      /\ \A i \in 1..q : queue[i] = accepted[a - q + i]
      /\ \A i \in 1..b : \E k \in 1..(a - q) : accepted[k] = begun[i]
      /\ owner = "alive" => a = b + q /\ \A i \in 1..b : begun[i] = accepted[i]
  BY <1>1 DEF OrderInv
<1>. HIDE DEF q, a, b
<1>6. queue[1] = accepted[a - q + 1] /\ a - q + 1 \in 1..a
  BY <1>1, <1>5, SMT
<1>7. \A i \in 1..b : begun[i] # queue[1]
  <2>. SUFFICES ASSUME NEW i \in 1..b, begun[i] = queue[1] PROVE FALSE
    OBVIOUS
  <2>1. PICK k \in 1..(a - q) : accepted[k] = begun[i]
    BY <1>5
  <2>2. k \in 1..a /\ k # a - q + 1
    BY <1>1, SMT
  <2>. QED
    BY <1>5, <1>6, <2>1, <2>2
<1>8. \A i, j \in 1..(b + 1) : begun'[i] = begun'[j] => i = j
  BY <1>1, <1>3, <1>5, <1>7, SMT
<1>9. ASSUME NEW i \in 1..(q - 1) PROVE queue'[i] = accepted[a - (q - 1) + i]
  <2>1. i + 1 \in 1..q /\ a - q + (i + 1) = a - (q - 1) + i
    BY <1>1, SMT
  <2>. QED
    BY <1>2, <1>5, <2>1
<1>10. \A i \in 1..(b + 1) : \E k \in 1..(a - (q - 1)) : accepted[k] = begun'[i]
  <2>. SUFFICES ASSUME NEW i \in 1..(b + 1)
                PROVE  \E k \in 1..(a - (q - 1)) : accepted[k] = begun'[i]
    OBVIOUS
  <2>1. CASE i = b + 1
    <3>1. a - q + 1 \in 1..(a - (q - 1))
      BY <1>1, <1>5, SMT
    <3>. QED
      BY <1>3, <1>6, <2>1, <3>1
  <2>2. CASE i \in 1..b
    <3>1. PICK k \in 1..(a - q) : accepted[k] = begun[i]
      BY <1>5, <2>2
    <3>2. k \in 1..(a - (q - 1))
      BY <1>1, SMT
    <3>. QED
      BY <1>3, <2>2, <3>1, <3>2
  <2>3. i = b + 1 \/ i \in 1..b
    BY <1>1, SMT
  <2>. QED
    BY <2>1, <2>2, <2>3
<1>11. owner = "alive" => a = (b + 1) + (q - 1) /\ \A i \in 1..(b + 1) : begun'[i] = accepted[i]
  BY <1>1, <1>3, <1>5, <1>6, SMT
<1>12. q - 1 <= a
  BY <1>1, <1>5, SMT
<1>. QED
  BY <1>1, <1>2, <1>3, <1>4, <1>5, <1>8, <1>9, <1>10, <1>11, <1>12 DEF OrderInv

\* ... and when the destructor drops those that are left.
LEMMA DestroyKeepsOrder ==
    ASSUME TypeOK, OrderInv, Destroy
    PROVE  OrderInv'
<1>1. /\ Len(queue) \in Nat /\ Len(accepted) \in Nat
      /\ accepted' = accepted /\ begun' = begun /\ owner' = "closing" /\ queue' = <<>>
  BY DEF Destroy, TypeOK
<1>2. Len(queue') = 0 /\ DOMAIN queue' = {}
  BY <1>1
<1>3. \A k \in 1..(Len(accepted) - Len(queue)) : k \in 1..(Len(accepted) - 0)
  BY <1>1, SMT
<1>. QED
  BY <1>1, <1>2, <1>3, SMT DEF OrderInv

\* Jobs begin in the order they were queued, each once, whatever generations of the worker
\* run them (ThreadedJobQueue.cpp:112-126, :268-292).
THEOREM JobsRunInOrder == Spec => []InOrderOnce
<1>1. Init => OrderInv
  BY DEF Init, OrderInv
<1>2. TypeOK /\ OrderInv /\ [Next]_vars => OrderInv'
  <2>. SUFFICES ASSUME TypeOK, OrderInv, [Next]_vars PROVE OrderInv'
    OBVIOUS
  <2>1. ASSUME UNCHANGED <<queue, accepted, begun, owner>> PROVE OrderInv'
    BY <2>1 DEF OrderInv
  <2>2. ASSUME UNCHANGED <<queue, accepted, begun>>, owner = "closing", owner' = "destroyed"
        PROVE OrderInv'
    BY <2>2 DEF OrderInv
  <2>3. ASSUME NEW job \in Jobs, QueueJob(job) PROVE OrderInv'
    BY <2>3, QueueJobKeepsOrder
  <2>4. CASE GetDeferral \/ ReleaseDeferral \/ Elapse
    BY <2>1, <2>4 DEF GetDeferral, ReleaseDeferral, Elapse
  <2>5. CASE Destroy
    BY <2>5, DestroyKeepsOrder
  <2>6. CASE DestroyEnd
    BY <2>2, <2>6 DEF DestroyEnd
  <2>7. ASSUME NEW worker \in Workers, ThreadCallback(worker) \/ Message(worker) PROVE OrderInv'
    <3>1. CASE Pop(worker)
      BY <3>1, PopKeepsOrder
    <3>2. CASE ~Pop(worker)
      <4>1. KeptQueue /\ begun' = begun
        BY <2>7, <3>2 DEF ThreadCallback, Begin, Pump, Leave, Stay, JobEnds, Stamp, ReadKeepAlive,
           Interrupted, TimedOut, Message, LeaveAtShutdown, GoRound, End
      <4>. QED
        BY <2>1, <4>1 DEF KeptQueue
    <3>. QED
      BY <3>1, <3>2
  <2>8. CASE UNCHANGED vars
    BY <2>1, <2>8 DEF vars, sharedVars
  <2>. QED
    BY <2>3, <2>4, <2>5, <2>6, <2>7, <2>8 DEF Next, Ended
<1>3. TypeOK /\ OrderInv => InOrderOnce
  <2>. SUFFICES ASSUME TypeOK, OrderInv PROVE InOrderOnce
    OBVIOUS
  <2>1. /\ queue \in Seq(Jobs) /\ accepted \in Seq(Jobs) /\ begun \in Seq(Jobs)
        /\ \A i, j \in DOMAIN begun : begun[i] = begun[j] => i = j
    BY DEF TypeOK, OrderInv
  <2>2. ASSUME owner = "alive" PROVE accepted = begun \o queue
    <3>1. /\ Len(accepted) = Len(begun) + Len(queue)
          /\ \A i \in 1..Len(begun) : begun[i] = accepted[i]
          /\ \A i \in 1..Len(queue) : queue[i] = accepted[Len(accepted) - Len(queue) + i]
      <4>1. DOMAIN begun = 1..Len(begun) /\ DOMAIN queue = 1..Len(queue)
        BY <2>1
      <4>. QED
        BY <2>2, <4>1 DEF OrderInv
    <3>2. /\ begun \o queue \in Seq(Jobs) /\ Len(begun \o queue) = Len(begun) + Len(queue)
          /\ \A i \in 1..Len(begun \o queue) : (begun \o queue)[i] =
                IF i <= Len(begun) THEN begun[i] ELSE queue[i - Len(begun)]
      BY <2>1, ConcatProperties
    <3>3. ASSUME NEW i \in 1..Len(accepted) PROVE accepted[i] = (begun \o queue)[i]
      <4>1. Len(begun) \in Nat /\ Len(queue) \in Nat
        BY <2>1
      <4>2. CASE i <= Len(begun)
        <5>1. i \in 1..Len(begun)
          BY <4>1, <4>2, SMT
        <5>. QED
          BY <3>1, <3>2, <4>2, <5>1
      <4>3. CASE ~(i <= Len(begun))
        <5>1. /\ i - Len(begun) \in 1..Len(queue)
              /\ Len(accepted) - Len(queue) + (i - Len(begun)) = i
          BY <3>1, <4>1, <4>3, SMT
        <5>. QED
          BY <3>1, <3>2, <4>3, <5>1
      <4>. QED
        BY <4>2, <4>3
    <3>. QED
      BY <2>1, <3>1, <3>2, <3>3, SeqEqual
  <2>. QED
    BY <2>1, <2>2 DEF InOrderOnce
<1>. QED
  BY <1>1, <1>2, <1>3, QueueTypeCorrect, PTL DEF Spec

\* An active thread stays for as long as a deferral is held, until the object goes
\* (ThreadedJobQueue.h:49-51).
THEOREM DeferralsKeepTheThread == Spec => DeferralKeepsThread
<1>1. [Next]_vars => [isActive /\ keepAlive > 0 /\ ~shutdown => isActive']_vars
  <2>. SUFFICES ASSUME [Next]_vars, isActive, keepAlive > 0, ~shutdown PROVE isActive'
    OBVIOUS
  <2>1. ASSUME NEW job \in Jobs, QueueJob(job) PROVE isActive'
    BY <2>1 DEF QueueJob, EnsureThreadActive
  <2>2. CASE GetDeferral \/ ReleaseDeferral \/ Destroy \/ DestroyEnd \/ Elapse
    BY <2>2 DEF GetDeferral, ReleaseDeferral, Destroy, DestroyEnd, Elapse
  <2>3. ASSUME NEW worker \in Workers, ThreadCallback(worker) \/ Message(worker) PROVE isActive'
    <3>1. ~Leave(worker)
      BY SMT DEF Leave
    <3>2. ~LeaveAtShutdown(worker)
      BY DEF LeaveAtShutdown
    <3>. QED
      BY <2>3, <3>1, <3>2 DEF ThreadCallback, Begin, Pump, Stay, Pop, JobEnds, Stamp,
         ReadKeepAlive, Interrupted, TimedOut, Message, GoRound, End
  <2>. QED
    BY <2>1, <2>2, <2>3 DEF Next, Ended, vars, sharedVars
<1>. QED
  BY <1>1, PTL DEF Spec, DeferralKeepsThread
-----------------------------------------------------------------------------
(* The refinement *)

Given == {accepted[i] : i \in DOMAIN accepted}
Held == 1..(keepAlive - base)

\* Only the worker in the loop can run a job.
LEMMA RunningWorker ==
    ASSUME QInv, NEW worker \in Workers, InLoop(worker)
    PROVE  Running = IF pc[worker] = "run" THEN {begun[Len(begun)]} ELSE {}
<1>1. \A other \in Workers : pc[other] = "run" => other = worker
  BY DEF QInv, SingleRunner, InLoop
<1>. QED
  BY <1>1 DEF Running

\* A step of a worker that neither begins a job nor ends one does not show.
LEMMA RunningStays ==
    ASSUME TypeOK, NEW worker \in Workers, NEW to, pc' = [pc EXCEPT ![worker] = to],
           pc[worker] # "run", to # "run", begun' = begun
    PROVE  Running' = Running
<1>1. pc \in [Workers -> WorkerPCs]
  BY DEF TypeOK
<1>2. \A other \in Workers : pc'[other] = "run" <=> pc[other] = "run"
  BY <1>1
<1>. QED
  BY <1>2 DEF Running

\* Nobody in the loop, no job that runs.
LEMMA NobodyRuns ==
    ASSUME QInv, ~isActive
    PROVE  Running = {}
BY DEF QInv, SingleRunner, InLoop, Running

\* Whoever may call the queue may use the service.
LEMMA CallersUseIt ==
    ASSUME QInv, MayCall
    PROVE  Service!InUse
BY DEF MayCall, Service!InUse, QInv, SingleRunner, InLoop

\* Queueing a job is queueing it with the service, whatever worker is created for it.
LEMMA QueueJobIsQueue ==
    ASSUME QInv, NEW job \in Jobs, QueueJob(job)
    PROVE  Service!Queue(job)
<1>1. Service!InUse /\ job \notin Given
  BY CallersUseIt DEF QueueJob, Given
<1>2. Given' = Given \union {job}
  <2>1. /\ accepted \in Seq(Jobs) /\ accepted' = Append(accepted, job)
    BY DEF QInv, TypeOK, QueueJob
  <2>2. /\ Len(accepted) \in Nat /\ DOMAIN accepted = 1..Len(accepted)
        /\ DOMAIN accepted' = 1..(Len(accepted) + 1) /\ accepted'[Len(accepted) + 1] = job
        /\ \A i \in 1..Len(accepted) : accepted'[i] = accepted[i]
    BY <2>1
  <2>3. \A i \in 1..(Len(accepted) + 1) : i \in 1..Len(accepted) \/ i = Len(accepted) + 1
    BY <2>2, SMT
  <2>4. /\ \A i \in 1..Len(accepted) : i \in 1..(Len(accepted) + 1)
        /\ Len(accepted) + 1 \in 1..(Len(accepted) + 1)
    BY <2>2, SMT
  <2>. QED
    BY <2>2, <2>3, <2>4 DEF Given
<1>3. Running' = Running /\ isActive' = TRUE
  <2>1. CASE isActive
    BY <2>1 DEF QueueJob, EnsureThreadActive, SetInterrupt, Running, QInv, TypeOK
  <2>2. CASE ~isActive
    <3>1. /\ current' = current + 1 /\ current < MaxWorkers /\ isActive' = TRUE
          /\ pc' = [pc EXCEPT ![current'] = "init"] /\ begun' = begun
      BY <2>2 DEF QueueJob, EnsureThreadActive
    <3>2. current' \in Workers
      BY <3>1, JobQueueAssumption, SMT DEF QInv, TypeOK, Workers
    <3>3. pc[current'] # "run"
      BY <2>2, <3>2 DEF QInv, SingleRunner, InLoop
    <3>4. TypeOK
      BY DEF QInv
    <3>. HIDE DEF Running
    <3>5. Running' = Running
      <4>1. pc \in [Workers -> WorkerPCs]
        BY <3>4 DEF TypeOK
      <4>2. \A other \in Workers : pc'[other] = "run" <=> pc[other] = "run"
        BY <3>1, <3>2, <3>3, <4>1
      <4>. QED
        BY <3>1, <4>2 DEF Running
    <3>. QED
      BY <3>1, <3>5
  <2>. QED
    BY <2>1, <2>2
<1>4. queue' = Append(queue, job) /\ UNCHANGED <<keepAlive, base, owner>>
  BY DEF QueueJob
<1>. QED
  BY <1>1, <1>2, <1>3, <1>4 DEF Service!Queue, Given

\* A step of a worker is a step of the service or does not show.
LEMMA WorkerStepMaps ==
    ASSUME QInv, NEW worker \in Workers, ThreadCallback(worker) \/ Message(worker)
    PROVE  [Service!JobServiceNext]_Service!serviceVars
<1>. USE DEF Goto, KeptQueue
<1>1. /\ TypeOK /\ SingleRunner /\ JobSeen /\ Ownership
      /\ pc \in [Workers -> WorkerPCs] /\ begun \in Seq(Jobs) /\ queue \in Seq(Jobs)
      /\ keepAlive \in Int /\ base \in {0, 1} /\ keepAlive >= base
  BY JobQueueAssumption, SMT DEF QInv, TypeOK
<1>2. CASE Pop(worker)
  <2>1. /\ InLoop(worker) /\ pc[worker] = "check" /\ pc' = [pc EXCEPT ![worker] = "run"]
        /\ queue # <<>> /\ queue' = Tail(queue) /\ begun' = Append(begun, Head(queue))
        /\ UNCHANGED <<keepAlive, base, owner, accepted, isActive>>
    BY <1>2 DEF Pop, InLoop
  <2>2. Running = {} /\ isActive
    BY <1>1, <2>1, RunningWorker DEF SingleRunner
  <2>3. Running' = {Head(queue)}
    <3>1. pc'[worker] = "run"
      BY <1>1, <2>1
    <3>2. begun'[Len(begun')] = Head(queue)
      BY <1>1, <2>1
    <3>. QED
      BY <3>1, <3>2 DEF Running
  <2>4. Service!Start
    BY <2>1, <2>2, <2>3 DEF Service!Start
  <2>. QED
    BY <2>4 DEF Service!JobServiceNext
<1>3. CASE JobEnds(worker)
  <2>1. /\ InLoop(worker) /\ pc[worker] = "run" /\ pc' = [pc EXCEPT ![worker] = "stamp"]
        /\ UNCHANGED <<queue, keepAlive, base, owner, accepted, isActive, begun>>
    BY <1>3 DEF JobEnds, InLoop
  <2>2. Running # {}
    BY <2>1 DEF Running
  <2>3. Running' = {}
    <3>1. \A other \in Workers : pc'[other] # "run"
      BY <1>1, <2>1 DEF SingleRunner, InLoop
    <3>. QED
      BY <3>1 DEF Running
  <2>4. Service!Finish
    BY <2>1, <2>2, <2>3 DEF Service!Finish
  <2>. QED
    BY <2>4 DEF Service!JobServiceNext
<1>4. CASE Leave(worker) \/ LeaveAtShutdown(worker)
  <2>1. /\ InLoop(worker) /\ pc[worker] # "run" /\ pc' = [pc EXCEPT ![worker] = "leaving"]
        /\ isActive' = FALSE
        /\ UNCHANGED <<queue, keepAlive, base, owner, accepted, begun>>
    BY <1>4 DEF Leave, LeaveAtShutdown, InLoop
  <2>2. Running = {} /\ isActive
    BY <1>1, <2>1, RunningWorker DEF SingleRunner
  <2>3. Running' = Running
    BY <1>1, <2>1, RunningStays
  <2>4. queue = <<>> /\ ((Held = {} /\ base # 1) \/ owner # "alive")
    <3>1. CASE Leave(worker)
      BY <1>1, <3>1, SMT DEF Leave, Held
    <3>2. CASE LeaveAtShutdown(worker)
      <4>1. owner # "alive"
        BY <1>1, <3>2 DEF LeaveAtShutdown, Ownership
      <4>2. pc[worker] = "woken" /\ worker = current
        BY <1>1, <2>1, <3>2 DEF LeaveAtShutdown, SingleRunner
      <4>. QED
        BY <1>1, <4>1, <4>2 DEF Ownership
    <3>. QED
      BY <1>4, <3>1, <3>2
  <2>5. Service!Leave
    BY <2>1, <2>2, <2>3, <2>4 DEF Service!Leave, Held
  <2>. QED
    BY <2>5 DEF Service!JobServiceNext
<1>5. CASE ~Pop(worker) /\ ~JobEnds(worker) /\ ~Leave(worker) /\ ~LeaveAtShutdown(worker)
  <2>1. PICK to \in WorkerPCs \ {"run"} : pc[worker] # "run" /\ pc' = [pc EXCEPT ![worker] = to]
    BY <1>5 DEF ThreadCallback, Begin, Pump, Stay, Stamp, ReadKeepAlive, Interrupted, TimedOut,
       Message, GoRound, End, WorkerPCs
  <2>2. UNCHANGED <<queue, keepAlive, base, owner, accepted, isActive, begun>>
    BY <1>5 DEF ThreadCallback, Begin, Pump, Stay, Stamp, ReadKeepAlive, Interrupted, TimedOut,
       Message, GoRound, End
  <2>3. Running' = Running
    BY <1>1, <2>1, <2>2, RunningStays
  <2>. QED
    BY <2>2, <2>3 DEF Service!serviceVars
<1>. QED
  BY <1>2, <1>3, <1>4, <1>5

\* Every call is a step of the service; the passing of time does not show.
LEMMA CallMaps ==
    ASSUME QInv,
           \/ \E job \in Jobs : QueueJob(job)
           \/ GetDeferral \/ ReleaseDeferral \/ Destroy \/ DestroyEnd \/ Elapse
           \/ UNCHANGED vars
    PROVE  [Service!JobServiceNext]_Service!serviceVars
<1>1. /\ keepAlive \in Int /\ base \in {0, 1} /\ keepAlive >= base
  BY JobQueueAssumption, SMT DEF QInv, TypeOK
<1>2. ASSUME NEW job \in Jobs, QueueJob(job) PROVE Service!JobServiceNext
  BY <1>2, QueueJobIsQueue DEF Service!JobServiceNext
<1>3. CASE GetDeferral
  <2>1. Service!InUse /\ keepAlive' = keepAlive + 1
        /\ UNCHANGED <<queue, base, owner, accepted, isActive, begun, pc>>
    BY <1>3, CallersUseIt DEF GetDeferral
  <2>. DEFINE new == keepAlive - base + 1
  <2>3. new \in 1..MaxDeferrals /\ new \notin Held /\ Held' = Held \union {new}
    BY <1>1, <1>3, <2>1, JobQueueAssumption, SMT DEF GetDeferral, Held
  <2>4. Running' = Running
    BY <2>1 DEF Running
  <2>. HIDE DEF new
  <2>5. Service!Hold
    BY <2>1, <2>3, <2>4 DEF Service!Hold, Held
  <2>. QED
    BY <2>5 DEF Service!JobServiceNext
<1>4. CASE ReleaseDeferral
  <2>1. Service!InUse /\ keepAlive > base /\ keepAlive' = keepAlive - 1
        /\ UNCHANGED <<queue, base, owner, accepted, isActive, begun, pc>>
    BY <1>4, CallersUseIt DEF ReleaseDeferral
  <2>. DEFINE last == keepAlive - base
  <2>3. last \in Held /\ Held' = Held \ {last}
    BY <1>1, <2>1, SMT DEF Held
  <2>4. Running' = Running
    BY <2>1 DEF Running
  <2>. HIDE DEF last
  <2>5. Service!Release
    BY <2>1, <2>3, <2>4 DEF Service!Release, Held
  <2>. QED
    BY <2>5 DEF Service!JobServiceNext
<1>5. CASE Destroy
  <2>1. /\ owner = "alive" /\ keepAlive = base /\ owner' = "closing" /\ queue' = <<>>
        /\ UNCHANGED <<keepAlive, base, accepted, isActive, begun, pc>>
    BY <1>5 DEF Destroy
  <2>2. Held = {} /\ Held' = Held
    BY <1>1, <2>1, SMT DEF Held
  <2>3. Running' = Running
    BY <2>1 DEF Running
  <2>4. Service!Close
    BY <2>1, <2>2, <2>3 DEF Service!Close, Held
  <2>. QED
    BY <2>4 DEF Service!JobServiceNext
<1>6. CASE DestroyEnd
  <2>1. /\ owner = "closing" /\ owner' = "destroyed" /\ (current \in Workers => pc[current] = "gone")
        /\ UNCHANGED <<queue, keepAlive, base, accepted, isActive, begun, pc>>
    BY <1>6 DEF DestroyEnd
  <2>2. ~isActive /\ queue = <<>>
    BY <2>1 DEF QInv, SingleRunner, JobSeen, InLoop
  <2>3. Running = {} /\ Running' = Running
    BY <2>1, <2>2, NobodyRuns DEF Running
  <2>4. Service!End
    BY <2>1, <2>2, <2>3 DEF Service!End
  <2>. QED
    BY <2>4 DEF Service!JobServiceNext
<1>7. CASE Elapse \/ UNCHANGED vars
  <2>1. UNCHANGED <<queue, keepAlive, base, owner, accepted, isActive, begun, pc>>
    BY <1>7 DEF Elapse, vars, sharedVars
  <2>. QED
    BY <2>1 DEF Service!serviceVars, Running
<1>. QED
  BY <1>2, <1>3, <1>4, <1>5, <1>6, <1>7

\* The workers, their events and waits implement the service: one thread, jobs in order, a
\* thread that stays for deferrals, and a destructor that leaves nothing behind
\* (ThreadedJobQueue.h:15-17, :35-36, :49-51, ThreadedJobQueue.cpp:96-126, :268-330).
THEOREM WorkersImplementService == Spec => ImplementsJobService
<1>1. Init => Service!JobServiceInit
  <2>. SUFFICES ASSUME Init PROVE Service!JobServiceInit
    OBVIOUS
  <2>1. queue = <<>> /\ Given = {} /\ isActive = FALSE /\ owner = "alive"
    BY DEF Init, Given
  <2>2. Running = {}
    BY DEF Init, Running
  <2>3. Held = {} /\ (base = 1) \in BOOLEAN
    BY SMT DEF Init, Held
  <2>. QED
    BY <2>1, <2>2, <2>3 DEF Service!JobServiceInit, Given, Held
<1>2. QInv /\ [Next]_vars => [Service!JobServiceNext]_Service!serviceVars
  <2>. SUFFICES ASSUME QInv, [Next]_vars PROVE [Service!JobServiceNext]_Service!serviceVars
    OBVIOUS
  <2>. QED
    BY WorkerStepMaps, CallMaps DEF Next, Ended
<1>. QED
  BY QueueInvariance, <1>1, <1>2, PTL DEF Spec, ImplementsJobService, Service!JobServiceSpec
=============================================================================
