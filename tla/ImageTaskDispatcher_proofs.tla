---------------------- MODULE ImageTaskDispatcher_proofs ----------------------
(***************************************************************************)
(* Proofs about ImageTaskDispatcher, for any tasks, requests and threads:  *)
(* its type invariant, the callback that is on its way to every task, and  *)
(* the refinement of TaskQueue.                                            *)
(***************************************************************************)
EXTENDS ImageTaskDispatcher, SequenceTheorems, TLAPS

\* The dispatcher is shut down by the core's last pass, after which there is none.
ShutdownIsLast ==
    /\ shuttingdown => closing /\ step = "none"
    /\ step = "shutdown" => closing

\* A task that is being put is in one thread's hands, and was never in the queue.
TasksInHand ==
    /\ \A th \in Threads : pc[th] = "put" => task[th] \in Tasks /\ fate[task[th]] = "queuing"
    /\ \A th, other \in Threads :
        pc[th] = "put" /\ pc[other] = "put" /\ task[th] = task[other] => th = other
    /\ \A i \in DOMAIN tasks : fate[tasks[i]] \notin {"new", "queuing"}

\* The flag is set only as long as a callback is on its way or about to be posted.
FlagMeansCallback ==
    hasCallbackQueued /\ ~shuttingdown /\ ~failed =>
        callbacks > 0 \/ \E th \in Threads : pc[th] = "post"

DInv == TypeOK /\ ShutdownIsLast /\ TasksInHand /\ FlagMeansCallback /\ TasksHaveACallback
-----------------------------------------------------------------------------
\* What Put makes of a queue: the new task is in it, with those that were there.
LEMMA PutFacts ==
    ASSUME NEW q \in Seq(Tasks), NEW t \in Tasks
    PROVE  /\ TQ!Put(q, t) \in Seq(Tasks)
           /\ \A i \in DOMAIN TQ!Put(q, t) :
                TQ!Put(q, t)[i] = t \/ \E j \in DOMAIN q : TQ!Put(q, t)[i] = q[j]
<1>1. CASE TQ!Slots(q, t) = {}
  <2>1. TQ!Put(q, t) = Append(q, t)
    BY <1>1 DEF TQ!Put
  <2>. QED
    BY <2>1, SMT
<1>2. CASE TQ!Slots(q, t) # {}
  <2>. DEFINE slot == CHOOSE i \in TQ!Slots(q, t) : \A j \in TQ!Slots(q, t) : i <= j
  <2>1. TQ!Put(q, t) = [q EXCEPT ![slot] = t]
    BY <1>2 DEF TQ!Put
  <2>. HIDE DEF slot
  <2>2. [q EXCEPT ![slot] = t] \in Seq(Tasks)
    <3>1. /\ [q EXCEPT ![slot] = t] = [i \in 1..Len(q) |-> IF i = slot THEN t ELSE q[i]]
          /\ Len(q) \in Nat
      BY SMT
    <3>2. \A i \in 1..Len(q) : q[i] \in Tasks
      BY SMT
    <3>3. [q EXCEPT ![slot] = t] \in [1..Len(q) -> Tasks]
      BY <3>1, <3>2
    <3>. QED
      BY <3>1, <3>3, SeqDef
  <2>3. /\ DOMAIN [q EXCEPT ![slot] = t] = DOMAIN q
        /\ \A i \in DOMAIN q : [q EXCEPT ![slot] = t][i] = IF i = slot THEN t ELSE q[i]
    BY SMT
  <2>. QED
    BY <2>1, <2>2, <2>3
<1>. QED
  BY <1>1, <1>2

\* What becomes of the other tasks when one is put.
LEMMA SupersedingFacts ==
    ASSUME NEW q, NEW t \in Tasks, NEW f \in [Tasks -> TQ!Fates \union {"queuing"}]
    PROVE  /\ TQ!Superseding(q, t, f) \in [Tasks -> TQ!Fates \union {"queuing"}]
           /\ TQ!Superseding(q, t, f)[t] = "queued"
           /\ \A other \in Tasks \ {t} :
                \/ TQ!Superseding(q, t, f)[other] = f[other]
                \/ /\ TQ!Superseding(q, t, f)[other] = "superseded"
                   /\ \E i \in DOMAIN q : q[i] = other
<1>1. /\ TQ!Superseding(q, t, f)[t] = "queued"
      /\ \A other \in Tasks \ {t} :
           \/ TQ!Superseding(q, t, f)[other] = f[other]
           \/ /\ TQ!Superseding(q, t, f)[other] = "superseded"
              /\ \E i \in DOMAIN q : q[i] = other
  BY DEF TQ!Superseding
<1>2. \A other \in Tasks : TQ!Superseding(q, t, f)[other] \in TQ!Fates \union {"queuing"}
  BY <1>1 DEF TQ!Fates
<1>3. TQ!Superseding(q, t, f) = [other \in Tasks |-> TQ!Superseding(q, t, f)[other]]
  BY DEF TQ!Superseding
<1>. QED
  BY <1>1, <1>2, <1>3
-----------------------------------------------------------------------------
\* The invariant holds at first.
LEMMA InitialInvariant == Init => DInv
<1>. SUFFICES ASSUME Init PROVE DInv
  OBVIOUS
<1>1. tasks \in Seq(Tasks) /\ DOMAIN tasks = {}
  BY SMT DEF Init
<1>2. TypeOK
  <2>1. fate \in [Tasks -> TQ!Fates \union {"queuing"}]
    BY DEF Init, TQ!Fates
  <2>2. /\ pc \in [Threads -> {"idle", "put", "flag", "post"}]
        /\ task \in [Threads -> Tasks \union {NoTask}]
    BY DEF Init
  <2>3. callbacks \in Nat /\ size \in Nat
    BY SMT DEF Init
  <2>. QED
    BY <1>1, <2>1, <2>2, <2>3 DEF Init, TypeOK
<1>3. TasksInHand
  BY <1>1 DEF Init, TasksInHand
<1>. QED
  BY <1>2, <1>3 DEF Init, DInv, ShutdownIsLast, FlagMeansCallback, TasksHaveACallback

\* A post leaves a callback behind, or its failure.
LEMMA PostFacts ==
    ASSUME callbacks \in Nat, failed \in BOOLEAN, Post
    PROVE  callbacks' \in Nat /\ failed' \in BOOLEAN /\ (callbacks' > 0 \/ failed')
<1>1. CASE callbacks' = callbacks + 1 /\ UNCHANGED failed
  BY <1>1, SMT
<1>2. CASE failed' = TRUE /\ UNCHANGED callbacks
  BY <1>2
<1>. QED
  BY <1>1, <1>2 DEF Post

\* Threads that queue a task preserve the invariant.
LEMMA QueuingPreserves ==
    ASSUME DInv, NEW th \in Threads,
           (\E t \in Tasks : QueueTask(th, t)) \/ Queuing(th)
    PROVE  DInv'
<1>. USE DEF queueVars, passVars, ShutdownIsLast
<1>a. /\ TypeOK /\ ShutdownIsLast /\ TasksInHand /\ FlagMeansCallback /\ TasksHaveACallback
      /\ UIThread \in Threads /\ NoTask \notin Tasks
  BY DispatcherAssumption DEF DInv
<1>1. ASSUME NEW t \in Tasks, QueueTask(th, t) PROVE DInv'
  <2>1. TypeOK'
    BY <1>a, <1>1, SMT DEF QueueTask, TypeOK, TQ!Fates
  <2>2. TasksInHand'
    <3>1. \A i \in DOMAIN tasks : tasks[i] \in Tasks
      BY <1>a, SMT DEF TypeOK
    <3>2. CASE shuttingdown
      BY <1>a, <1>1, <3>1, <3>2 DEF QueueTask, TypeOK, TasksInHand
    <3>3. CASE ~shuttingdown
      BY <1>a, <1>1, <3>1, <3>3 DEF QueueTask, TypeOK, TasksInHand
    <3>. QED
      BY <3>2, <3>3
  <2>3. FlagMeansCallback' /\ TasksHaveACallback' /\ ShutdownIsLast'
    BY <1>a, <1>1 DEF QueueTask, TypeOK, FlagMeansCallback, TasksHaveACallback
  <2>. QED
    BY <2>1, <2>2, <2>3 DEF DInv
<1>2. ASSUME QueuePut(th) PROVE DInv'
  <2>. DEFINE t == task[th]
  <2>1. t \in Tasks /\ fate[t] = "queuing" /\ tasks \in Seq(Tasks)
    BY <1>a, <1>2 DEF QueuePut, TasksInHand, TypeOK
  <2>2. /\ tasks' \in Seq(Tasks)
        /\ \A i \in DOMAIN tasks' : tasks'[i] = t \/ \E j \in DOMAIN tasks : tasks'[i] = tasks[j]
    BY <1>2, <2>1, PutFacts DEF QueuePut
  <2>3. /\ fate' \in [Tasks -> TQ!Fates \union {"queuing"}]
        /\ fate'[t] \in {"queued", "dropped"}
        /\ \A other \in Tasks \ {t} :
             \/ fate'[other] = fate[other]
             \/ /\ fate'[other] = "superseded"
                /\ \E i \in DOMAIN tasks : tasks[i] = other
    <3>1. CASE shuttingdown
      BY <1>a, <1>2, <2>1, <3>1 DEF QueuePut, TypeOK, TQ!Fates
    <3>2. CASE ~shuttingdown
      <4>1. fate' = TQ!Superseding(tasks, t, fate) /\ fate \in [Tasks -> TQ!Fates \union {"queuing"}]
        BY <1>a, <1>2, <3>2 DEF QueuePut, TypeOK
      <4>. QED
        BY <2>1, <4>1, SupersedingFacts
    <3>. QED
      BY <3>1, <3>2
  <2>4. pc' = [pc EXCEPT ![th] = "flag"] /\ task' = [task EXCEPT ![th] = NoTask]
    BY <1>2 DEF QueuePut
  <2>5. TypeOK'
    BY <1>a, <1>2, <2>2, <2>3, <2>4 DEF QueuePut, TypeOK
  <2>6. \A i \in DOMAIN tasks : tasks[i] \in Tasks /\ fate[tasks[i]] \notin {"new", "queuing"}
    BY <1>a, <2>1, SMT DEF TasksInHand
  <2>7. TasksInHand'
    <3>1. \A other \in Threads : pc'[other] = "put" =>
            other # th /\ pc[other] = "put" /\ task'[other] = task[other]
      BY <1>a, <2>4 DEF TypeOK
    <3>2. \A other \in Threads : pc'[other] = "put" =>
            task[other] \in Tasks \ {t} /\ fate[task[other]] = "queuing"
      BY <1>a, <1>2, <3>1 DEF TasksInHand, QueuePut
    <3>3. \A other \in Threads : pc'[other] = "put" => fate'[task[other]] = "queuing"
      BY <2>3, <2>6, <3>2
    <3>4. \A i \in DOMAIN tasks' : fate'[tasks'[i]] \notin {"new", "queuing"}
      <4>1. \A s \in Tasks : s = t \/ fate[s] \notin {"new", "queuing"}
              => fate'[s] \notin {"new", "queuing"}
        BY <2>3
      <4>2. \A i \in DOMAIN tasks' :
              \/ tasks'[i] = t
              \/ tasks'[i] \in Tasks /\ fate[tasks'[i]] \notin {"new", "queuing"}
        BY <2>2, <2>6
      <4>. QED
        BY <2>1, <4>1, <4>2
    <3>. QED
      BY <1>a, <3>1, <3>2, <3>3, <3>4 DEF TasksInHand
  <2>8. FlagMeansCallback' /\ TasksHaveACallback' /\ ShutdownIsLast'
    BY <1>a, <1>2, <2>4 DEF QueuePut, TypeOK, FlagMeansCallback, TasksHaveACallback
  <2>. QED
    BY <2>5, <2>7, <2>8 DEF DInv
<1>3. ASSUME QueueFlag(th) PROVE DInv'
  <2>1. TypeOK' /\ TasksInHand' /\ ShutdownIsLast'
    BY <1>a, <1>3 DEF QueueFlag, TypeOK, TasksInHand
  <2>2. FlagMeansCallback' /\ TasksHaveACallback'
    <3>1. pc' = [pc EXCEPT ![th] = IF hasCallbackQueued THEN "idle" ELSE "post"] /\ pc[th] = "flag"
      BY <1>3 DEF QueueFlag
    <3>2. CASE hasCallbackQueued
      BY <1>a, <1>3, <3>1, <3>2 DEF QueueFlag, TypeOK, FlagMeansCallback, TasksHaveACallback
    <3>3. CASE ~hasCallbackQueued
      BY <1>a, <1>3, <3>1, <3>3 DEF QueueFlag, TypeOK, FlagMeansCallback, TasksHaveACallback
    <3>. QED
      BY <3>2, <3>3
  <2>. QED
    BY <2>1, <2>2 DEF DInv
<1>4. ASSUME QueuePost(th) PROVE DInv'
  <2>1. TypeOK' /\ ShutdownIsLast'
    <3>1. callbacks' \in Nat /\ failed' \in BOOLEAN
      BY <1>a, <1>4, PostFacts DEF QueuePost, TypeOK
    <3>. QED
      BY <1>a, <1>4, <3>1 DEF QueuePost, TypeOK
  <2>2. TasksInHand'
    BY <1>a, <1>4 DEF QueuePost, TypeOK, TasksInHand
  <2>3. FlagMeansCallback' /\ TasksHaveACallback'
    BY <1>a, <1>4, SMT DEF QueuePost, Post, TypeOK, FlagMeansCallback, TasksHaveACallback
  <2>. QED
    BY <2>1, <2>2, <2>3 DEF DInv
<1>. QED
  BY <1>1, <1>2, <1>3, <1>4 DEF Queuing
\* The UI thread's steps preserve the invariant.
LEMMA PassPreserves ==
    ASSUME DInv, Pass \/ ShutdownCore
    PROVE  DInv'
<1>. USE DEF queueVars, passVars, UIStep
<1>a. /\ TypeOK /\ ShutdownIsLast /\ TasksInHand /\ FlagMeansCallback /\ TasksHaveACallback
      /\ UIThread \in Threads
  BY DispatcherAssumption DEF DInv
<1>b. /\ callbacks \in Nat /\ size \in Nat /\ tasks \in Seq(Tasks)
      /\ fate \in [Tasks -> TQ!Fates \union {"queuing"}]
      /\ \A i \in DOMAIN tasks : tasks[i] \in Tasks
  BY <1>a, SMT DEF TypeOK
<1>1. ASSUME Execute PROVE DInv'
  <2>1. callbacks' \in Nat /\ callbacks' = callbacks - 1
    BY <1>b, <1>1 DEF Execute
  <2>2. CASE shuttingdown
    BY <1>a, <1>1, <2>1, <2>2
       DEF Execute, DInv, TypeOK, TasksInHand, FlagMeansCallback, TasksHaveACallback, ShutdownIsLast
  <2>3. CASE ~shuttingdown
    BY <1>a, <1>1, <2>1, <2>3
       DEF Execute, DInv, TypeOK, TasksInHand, FlagMeansCallback, TasksHaveACallback, ShutdownIsLast
  <2>. QED
    BY <2>2, <2>3
<1>2. ASSUME ShutdownCore PROVE DInv'
  BY <1>a, <1>2
     DEF ShutdownCore, DInv, TypeOK, TasksInHand, FlagMeansCallback, TasksHaveACallback,
         ShutdownIsLast
<1>3. ASSUME ExecuteCount PROVE DInv'
  <2>1. size' \in Nat
    BY <1>b, <1>3, SMT DEF ExecuteCount
  <2>. QED
    BY <1>a, <1>3, <2>1
       DEF ExecuteCount, DInv, TypeOK, TasksInHand, FlagMeansCallback, TasksHaveACallback,
           ShutdownIsLast
<1>4. ASSUME ExecutePop PROVE DInv'
  <2>1. /\ tasks' \in Seq(Tasks) /\ size' \in Nat /\ Head(tasks) \in Tasks
        /\ \A i \in DOMAIN tasks' : \E j \in DOMAIN tasks : tasks'[i] = tasks[j]
    <3>1. tasks # <<>> /\ tasks' = Tail(tasks) /\ size > 0 /\ size' = size - 1
      BY <1>4 DEF ExecutePop
    <3>2. /\ Tail(tasks) \in Seq(Tasks) /\ Head(tasks) \in Tasks
          /\ Len(Tail(tasks)) = Len(tasks) - 1 /\ Len(tasks) \in Nat
          /\ \A i \in 1..Len(Tail(tasks)) : Tail(tasks)[i] = tasks[i + 1]
      BY <1>b, <3>1, SMT
    <3>3. DOMAIN tasks = 1..Len(tasks) /\ DOMAIN Tail(tasks) = 1..Len(Tail(tasks))
      BY <1>b, <3>2, SMT
    <3>4. \A i \in 1..Len(Tail(tasks)) : i + 1 \in 1..Len(tasks)
      BY <3>2, SMT
    <3>. QED
      BY <1>b, <3>1, <3>2, <3>3, <3>4
  <2>2. fate' = [fate EXCEPT ![Head(tasks)] = "run"]
    BY <1>4 DEF ExecutePop
  <2>3. TypeOK'
    BY <1>a, <1>4, <2>1, <2>2 DEF ExecutePop, TypeOK, TQ!Fates
  <2>4. TasksInHand'
    <3>1. tasks # <<>> /\ fate[Head(tasks)] # "queuing"
      <4>1. tasks # <<>>
        BY <1>4 DEF ExecutePop
      <4>2. 1 \in DOMAIN tasks /\ Head(tasks) = tasks[1]
        BY <1>b, <4>1, SMT
      <4>. QED
        BY <1>a, <4>1, <4>2 DEF TasksInHand
    <3>2. \A s \in Tasks : fate'[s] = IF s = Head(tasks) THEN "run" ELSE fate[s]
      BY <1>b, <2>2
    <3>3. \A i \in DOMAIN tasks' : tasks'[i] \in Tasks /\ fate[tasks'[i]] \notin {"new", "queuing"}
      BY <1>a, <1>b, <2>1 DEF TasksInHand
    <3>4. UNCHANGED <<pc, task>>
      BY <1>4 DEF ExecutePop
    <3>5. \A th \in Threads : pc'[th] = "put" =>
            task'[th] \in Tasks /\ fate'[task'[th]] = "queuing"
      BY <1>a, <3>1, <3>2, <3>4 DEF TasksInHand
    <3>6. \A i \in DOMAIN tasks' : fate'[tasks'[i]] \notin {"new", "queuing"}
      BY <3>2, <3>3
    <3>. QED
      BY <1>a, <3>4, <3>5, <3>6 DEF TasksInHand
  <2>5. FlagMeansCallback' /\ TasksHaveACallback' /\ ShutdownIsLast'
    BY <1>a, <1>4 DEF ExecutePop, FlagMeansCallback, TasksHaveACallback, ShutdownIsLast
  <2>. QED
    BY <2>3, <2>4, <2>5 DEF DInv
<1>5. ASSUME TaskReturns PROVE DInv'
  BY <1>a, <1>5
     DEF TaskReturns, DInv, TypeOK, TasksInHand, FlagMeansCallback, TasksHaveACallback, ShutdownIsLast
<1>6. ASSUME ExecuteCheck PROVE DInv'
  BY <1>a, <1>6
     DEF ExecuteCheck, PassEnds, DInv, TypeOK, TasksInHand, FlagMeansCallback, TasksHaveACallback,
         ShutdownIsLast
<1>7. ASSUME ExecutePost PROVE DInv'
  <2>1. /\ callbacks' \in Nat /\ failed' \in BOOLEAN
        /\ callbacks' > 0 \/ failed'
    BY <1>a, <1>b, <1>7, PostFacts DEF ExecutePost, TypeOK
  <2>2. TypeOK' /\ TasksInHand' /\ ShutdownIsLast'
    BY <1>a, <1>7, <2>1 DEF ExecutePost, PassEnds, TypeOK, TasksInHand, ShutdownIsLast
  <2>3. FlagMeansCallback' /\ TasksHaveACallback'
    BY <2>1 DEF FlagMeansCallback, TasksHaveACallback
  <2>. QED
    BY <2>2, <2>3 DEF DInv
<1>8. ASSUME Shutdown PROVE DInv'
  <2>1. tasks' = <<>> /\ tasks' \in Seq(Tasks) /\ DOMAIN tasks' = {}
    BY <1>8, SMT DEF Shutdown
  <2>2. TypeOK'
    BY <1>a, <1>b, <1>8, <2>1 DEF Shutdown, TypeOK, TQ!Fates
  <2>3. TasksInHand'
    <3>1. \A s \in Tasks : fate[s] = "queuing" => fate'[s] = "queuing"
      BY <1>8 DEF Shutdown
    <3>. QED
      BY <1>a, <1>8, <2>1, <3>1 DEF Shutdown, TasksInHand
  <2>4. closing
    BY <1>a, <1>8 DEF Shutdown, ShutdownIsLast
  <2>. QED
    BY <1>a, <1>8, <2>2, <2>3, <2>4
       DEF Shutdown, DInv, FlagMeansCallback, TasksHaveACallback, ShutdownIsLast
<1>. QED
  BY <1>1, <1>2, <1>3, <1>4, <1>5, <1>6, <1>7, <1>8 DEF Pass

\* Every reachable state satisfies the invariant.
THEOREM DispatcherInvariance == Spec => []DInv
<1>1. DInv /\ [Next]_vars => DInv'
  <2>. SUFFICES ASSUME DInv, [Next]_vars PROVE DInv'
    OBVIOUS
  <2>1. CASE UNCHANGED vars
    BY <2>1
       DEF vars, queueVars, passVars, DInv, TypeOK, TasksInHand, FlagMeansCallback,
           TasksHaveACallback, ShutdownIsLast
  <2>. QED
    BY <2>1, QueuingPreserves, PassPreserves DEF Next
<1>. QED
  BY <1>1, InitialInvariant, PTL DEF Spec

\* Every variable of the dispatcher keeps to its type.
THEOREM DispatcherTypeCorrect == Spec => []TypeOK
<1>1. DInv => TypeOK
  BY DEF DInv
<1>. QED
  BY <1>1, DispatcherInvariance, PTL

\* No task is left in the queue without a callback that will run it: TasksHaveACallback.
THEOREM NoTaskIsStranded == Spec => []TasksHaveACallback
<1>1. DInv => TasksHaveACallback
  BY DEF DInv
<1>. QED
  BY <1>1, DispatcherInvariance, PTL
-----------------------------------------------------------------------------
(* The refinement *)

\* Every step of the threads is a step of TaskQueue or leaves it alone: ImplementsTaskQueue.
THEOREM DispatcherImplementsQueue == Spec => ImplementsTaskQueue
<1>. DEFINE told(f) == [t \in Tasks |-> IF f[t] = "queuing" THEN "new" ELSE f[t]]
<1>1. Init => TQ!TaskQueueInit
  BY DEF Init, TQ!TaskQueueInit
<1>2. DInv /\ [Next]_vars => [TQ!TaskQueueNext]_(TQ!queueVars)
  <2>. SUFFICES ASSUME DInv, [Next]_vars
                PROVE  TQ!TaskQueueNext \/ UNCHANGED TQ!queueVars
    OBVIOUS
  <2>. USE DEF queueVars, passVars, UIStep
  <2>a. /\ ShutdownIsLast /\ TasksInHand
        /\ tasks \in Seq(Tasks) /\ fate \in [Tasks -> TQ!Fates \union {"queuing"}]
        /\ shuttingdown \in BOOLEAN
    BY DEF DInv, TypeOK
  <2>b. ASSUME UNCHANGED <<tasks, shuttingdown, fate>>
        PROVE  UNCHANGED TQ!queueVars
    BY <2>b DEF TQ!queueVars
  <2>1. ASSUME NEW th \in Threads, NEW t \in Tasks, QueueTask(th, t)
        PROVE  TQ!Refuse(t) \/ UNCHANGED TQ!queueVars
    <3>1. CASE shuttingdown
      <4>1. /\ fate[t] = "new" /\ fate' = [fate EXCEPT ![t] = "dropped"]
            /\ UNCHANGED <<tasks, shuttingdown>>
        BY <2>1, <3>1 DEF QueueTask
      <4>. QED
        BY <2>a, <3>1, <4>1 DEF TQ!Refuse
    <3>2. CASE ~shuttingdown
      <4>1. /\ fate[t] = "new" /\ fate' = [fate EXCEPT ![t] = "queuing"]
            /\ UNCHANGED <<tasks, shuttingdown>>
        BY <2>1, <3>2 DEF QueueTask
      <4>. QED
        BY <2>a, <3>2, <4>1 DEF TQ!queueVars
    <3>. QED
      BY <3>1, <3>2
  <2>2. ASSUME NEW th \in Threads, NEW t \in Tasks, t = task[th], QueuePut(th)
        PROVE  TQ!Queue(t) \/ TQ!Refuse(t)
    <3>1. fate[t] = "queuing"
      BY <2>2, <2>a DEF QueuePut, TasksInHand
    <3>2. UNCHANGED shuttingdown /\ tasks' = TQ!Put(tasks, t)
      BY <2>2 DEF QueuePut
    <3>3. CASE shuttingdown
      <4>1. fate' = [fate EXCEPT ![t] = "dropped"]
        BY <2>2, <3>3 DEF QueuePut
      <4>. QED
        BY <2>a, <3>1, <3>2, <3>3, <4>1 DEF TQ!Refuse
    <3>4. CASE ~shuttingdown
      <4>1. fate' = TQ!Superseding(tasks, t, fate)
        BY <2>2, <3>4 DEF QueuePut
      <4>2. told(fate') = TQ!Superseding(tasks, t, told(fate))
        BY <3>1, <4>1 DEF TQ!Superseding
      <4>. QED
        BY <3>1, <3>2, <3>4, <4>2 DEF TQ!Queue
    <3>. QED
      BY <3>3, <3>4
  <2>3. ASSUME ExecutePop PROVE TQ!Run
    <3>1. /\ ~shuttingdown /\ UNCHANGED shuttingdown
          /\ tasks # <<>> /\ tasks' = Tail(tasks)
          /\ fate' = [fate EXCEPT ![Head(tasks)] = "run"]
      BY <2>3, <2>a DEF ExecutePop, ShutdownIsLast
    <3>. QED
      BY <2>a, <3>1 DEF TQ!Run
  <2>4. ASSUME Shutdown PROVE TQ!Close
    <3>1. /\ ~shuttingdown /\ shuttingdown'
          /\ fate' = [t \in Tasks |-> IF fate[t] = "queued" THEN "dropped" ELSE fate[t]]
      BY <2>4, <2>a DEF Shutdown, ShutdownIsLast
    <3>. QED
      BY <2>a, <3>1 DEF TQ!Close
  <2>5. ASSUME NEW th \in Threads, QueueFlag(th) \/ QueuePost(th)
        PROVE  UNCHANGED TQ!queueVars
    BY <2>5, <2>b DEF QueueFlag, QueuePost
  <2>6. ASSUME \/ Execute \/ ExecuteCount \/ TaskReturns \/ ExecuteCheck \/ ExecutePost
               \/ ShutdownCore
        PROVE  UNCHANGED TQ!queueVars
    BY <2>6, <2>b DEF Execute, ExecuteCount, TaskReturns, ExecuteCheck, ExecutePost, ShutdownCore
  <2>7. CASE UNCHANGED vars
    BY <2>7, <2>b DEF vars
  <2>8. ASSUME NEW th \in Threads, (\E t \in Tasks : QueueTask(th, t)) \/ Queuing(th)
        PROVE  TQ!TaskQueueNext \/ UNCHANGED TQ!queueVars
    <3>1. CASE \E t \in Tasks : QueueTask(th, t)
      BY <2>1, <3>1 DEF TQ!TaskQueueNext
    <3>2. CASE QueuePut(th)
      <4>1. PICK t \in Tasks : t = task[th]
        BY <2>a, <3>2 DEF QueuePut, TasksInHand
      <4>. QED
        BY <2>2, <3>2, <4>1 DEF TQ!TaskQueueNext
    <3>. QED
      BY <2>5, <2>8, <3>1, <3>2 DEF Queuing
  <2>9. CASE Pass \/ ShutdownCore
    BY <2>3, <2>4, <2>6, <2>9 DEF Pass, TQ!TaskQueueNext
  <2>. QED
    BY <2>7, <2>8, <2>9 DEF Next
<1>. QED
  BY <1>1, <1>2, DispatcherInvariance, PTL DEF Spec, ImplementsTaskQueue, TQ!TaskQueueSpec
=============================================================================
