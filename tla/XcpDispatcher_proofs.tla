------------------------- MODULE XcpDispatcher_proofs -------------------------
(***************************************************************************)
(* Proofs about XcpDispatcher, for any numbers of messages, calls and      *)
(* frames, with nested pauses and modal loops or without: its type         *)
(* invariant, the trigger of queued work, the reentrancy guard, the pause  *)
(* and the drain.                                                          *)
(***************************************************************************)
EXTENDS XcpDispatcher, SequenceTheorems, TLAPS

Kinds == PostedKinds \union SentKinds \union OtherKinds
GuardingKinds == ProtectedKinds \union {"skippedTick"}
FramesUpTo(n) == [kind : Kinds, origin : Origins, more : BOOLEAN, prev : BOOLEAN, target : 0..n]

\* The drain begins on an empty stack, and what it dispatches lies right above it.
Shape ==
    \A i \in DOMAIN stack :
        /\ stack[i].kind = "close" => i = 1
        /\ stack[i].origin = "drain" => i = 2 /\ stack[1].kind = "close"

\* The guard is taken by one of the n outermost frames.
Taken(n) ==
    \E i \in 1..n : /\ stack[i].kind \in GuardingKinds
                    /\ \A j \in i..n : stack[j].kind # "exempt"

\* GuardMatchesStack, for every prefix of the stack: what a frame restores is right for the
\* frames below it.
GuardInv ==
    ~halted =>
        /\ guard <=> Taken(Len(stack))
        /\ \A n \in DOMAIN stack : stack[n].prev <=> Taken(n - 1)

\* DrainRunsAllWork, from the moment the last message is dispatched.
DrainInv ==
    \A i \in DOMAIN stack :
        ~stack[i].more /\ (stack[i].kind = "close" \/ stack[i].origin = "drain")
            => Dispatched >= stack[1].target

DInv ==
    /\ DispatcherTypeOK /\ Shape /\ GuardInv /\ SuspendedOnlyInScope /\ WorkHasATrigger
    /\ DrainInv
-----------------------------------------------------------------------------
\* What it is to push a frame, ...
LEMMA PushProperties ==
    ASSUME NEW T, NEW s \in Seq(T), NEW f \in T
    PROVE  /\ Append(s, f) \in Seq(T)
           /\ Len(s) \in Nat /\ Len(Append(s, f)) = Len(s) + 1
           /\ DOMAIN s = 1..Len(s) /\ DOMAIN Append(s, f) = 1..(Len(s) + 1)
           /\ \A i \in 1..Len(s) : Append(s, f)[i] = s[i]
           /\ Append(s, f)[Len(s) + 1] = f
OBVIOUS

\* ... and to pop one.
LEMMA PopProperties ==
    ASSUME NEW T, NEW s \in Seq(T), s # <<>>
    PROVE  /\ SubSeq(s, 1, Len(s) - 1) \in Seq(T)
           /\ Len(s) \in Nat /\ Len(s) > 0 /\ Len(SubSeq(s, 1, Len(s) - 1)) = Len(s) - 1
           /\ DOMAIN s = 1..Len(s) /\ DOMAIN SubSeq(s, 1, Len(s) - 1) = 1..(Len(s) - 1)
           /\ \A i \in 1..(Len(s) - 1) : SubSeq(s, 1, Len(s) - 1)[i] = s[i]
           /\ s[Len(s)] \in T
<1>1. Len(s) \in Nat /\ Len(s) > 0 /\ DOMAIN s = 1..Len(s) /\ \A i \in 1..Len(s) : s[i] \in T
  OBVIOUS
<1>2. \A i \in 1..(Len(s) - 1) : s[i] \in T
  BY <1>1
<1>3. /\ SubSeq(s, 1, Len(s) - 1) \in Seq(T)
      /\ Len(SubSeq(s, 1, Len(s) - 1)) = Len(s) - 1
      /\ \A i \in 1..(Len(s) - 1) : SubSeq(s, 1, Len(s) - 1)[i] = s[i]
  BY <1>1, <1>2, SubSeqProperties
<1>. QED
  BY <1>1, <1>3

\* A sequence whose frames are of a time is one whose frames are of any later one.
LEMMA LaterFrames ==
    ASSUME NEW m \in Nat, NEW n \in Nat, m <= n, NEW s \in Seq(FramesUpTo(m))
    PROVE  s \in Seq(FramesUpTo(n))
<1>1. FramesUpTo(m) \subseteq FramesUpTo(n)
  BY SMT DEF FramesUpTo
<1>2. \A i \in 1..Len(s) : s[i] \in FramesUpTo(n)
  BY <1>1, SMT
<1>. QED
  BY <1>2, SMT
-----------------------------------------------------------------------------
\* The dispatcher starts in a state the invariant describes.
LEMMA InitialState == DispatcherInit => DInv
<1>. SUFFICES ASSUME DispatcherInit PROVE DInv
  OBVIOUS
<1>1. DispatcherTypeOK
  <2>1. posted = 0 /\ calls = 0 /\ timerStarting = 0 /\ queue = <<>> /\ stack = <<>>
        /\ state = "Running"
    BY DEF DispatcherInit
  <2>2. timerArmed = FALSE /\ guard = FALSE /\ started = TRUE /\ halted = FALSE
    BY DEF DispatcherInit
  <2>3. posted \in 0..MaxPosts /\ calls \in 0..MaxCalls /\ timerStarting \in 0..posted
        /\ Len(queue) <= posted
    BY <2>1, DispatcherAssumption, SMT
  <2>4. timerArmed \in BOOLEAN /\ guard \in BOOLEAN /\ started \in BOOLEAN /\ halted \in BOOLEAN
    BY <2>2
  <2>. QED
    BY <2>1, <2>3, <2>4 DEF DispatcherTypeOK
<1>2. DOMAIN stack = {} /\ Len(stack) = 0 /\ ~guard /\ queue = <<>> /\ state = "Running"
  BY SMT DEF DispatcherInit
<1>3. GuardInv
  BY <1>2, SMT DEF GuardInv, Taken
<1>. QED
  BY <1>1, <1>2, <1>3 DEF DInv, Shape, SuspendedOnlyInScope, WorkHasATrigger, DrainInv

\* The invariant's types in the form the other proofs use them.
LEMMA Types ==
    ASSUME DInv
    PROVE  /\ stack \in Seq(FramesUpTo(posted)) /\ DOMAIN stack = 1..Len(stack)
           /\ Len(stack) \in Nat /\ posted \in Nat /\ Len(queue) \in Nat
           /\ queue \in Seq(PostedKinds) /\ Len(queue) <= posted /\ timerStarting \in Int
           /\ guard \in BOOLEAN /\ MaxPosts \in Nat /\ MaxCalls \in Nat
<1>1. stack \in Seq(FramesUpTo(posted))
  BY Zenon DEF DInv, DispatcherTypeOK, FramesUpTo, Kinds
<1>2. guard \in BOOLEAN
  BY DEF DInv, DispatcherTypeOK
<1>. QED
  BY <1>1, <1>2, DispatcherAssumption, SMT DEF DInv, DispatcherTypeOK

\* A frame that is pushed leaves the parts of the invariant that speak of the stack, if it
\* takes the guard and the state as its kind demands.
LEMMA PushPreserves ==
    ASSUME DInv, NEW f \in FramesUpTo(posted),
           stack' = Append(stack, f), posted' = posted, ~halted,
           f.origin = "drain" => stack # <<>> /\ Top.kind = "close",
           f.kind = "close" => stack = <<>> /\ f.more,
           f.prev <=> guard,
           ~halted' => (guard' <=> f.kind \in GuardingKinds \/ (guard /\ f.kind # "exempt")),
           f.kind \in PausingKinds \/ state' # "Suspended" \/ state' = state,
           Len(queue') \in Nat, Len(queue') <= Len(queue),
           ~f.more /\ f.origin = "drain" => posted - Len(queue') >= stack[1].target,
           started' /\ ~halted' /\ queue' # <<>> =>
                \/ started /\ queue # <<>> /\ timerArmed' = timerArmed /\ timerStarting' = timerStarting
                \/ f.kind \in PausingKinds \union {"close"}
                \/ f.origin = "timer" /\ f.more
    PROVE  /\ stack' \in Seq(FramesUpTo(posted'))
           /\ Shape' /\ GuardInv' /\ SuspendedOnlyInScope' /\ WorkHasATrigger' /\ DrainInv'
<1>0. PICK n \in Nat : n = Len(stack)
  BY Types
<1>1. /\ stack \in Seq(FramesUpTo(posted)) /\ n = Len(stack) /\ n \in Nat /\ posted \in Nat /\ Len(queue) \in Nat
      /\ DOMAIN stack = 1..n
  BY <1>0, Types
<1>2. /\ stack' \in Seq(FramesUpTo(posted)) /\ Len(stack') = n + 1
      /\ DOMAIN stack' = 1..(n + 1) /\ stack'[n + 1] = f
      /\ \A i \in 1..n : stack'[i] = stack[i]
  BY <1>1, PushProperties
<1>3. Shape /\ GuardInv /\ SuspendedOnlyInScope /\ WorkHasATrigger /\ DrainInv
  BY DEF DInv
<1>4. stack # <<>> => n >= 1 /\ Top = stack[n]
  BY <1>1, SMT DEF Top
<1>5. stack = <<>> => n = 0
  BY <1>1
<1>6. f.origin = "drain" => n = 1 /\ stack[1].kind = "close"
  BY <1>1, <1>3, <1>4, SMT DEF Shape
<1>7. Shape'
  <2>. SUFFICES ASSUME NEW i \in 1..(n + 1)
                PROVE  /\ stack'[i].kind = "close" => i = 1
                       /\ stack'[i].origin = "drain" => i = 2 /\ stack'[1].kind = "close"
    BY <1>2 DEF Shape
  <2>1. CASE i = n + 1
    BY <1>1, <1>2, <1>5, <1>6, <2>1, SMT
  <2>2. CASE i \in 1..n
    BY <1>1, <1>2, <1>3, <2>2, SMT DEF Shape
  <2>. QED
    BY <1>1, <2>1, <2>2, SMT
<1>8. GuardInv'
  <2>. SUFFICES ASSUME ~halted'
                PROVE  /\ guard' <=> Taken(n + 1)'
                       /\ \A k \in 1..(n + 1) : stack'[k].prev <=> Taken(k - 1)'
    BY <1>2 DEF GuardInv
  <2>1. guard <=> Taken(n)
    BY <1>1, <1>3 DEF GuardInv
  <2>2. \A k \in 1..(n + 1) : Taken(k - 1)' <=> Taken(k - 1)
    BY <1>1, <1>2, SMT DEF Taken
  <2>3. Taken(n + 1)' <=> f.kind \in GuardingKinds \/ (Taken(n) /\ f.kind # "exempt")
    <3>1. "exempt" \notin GuardingKinds
      BY DEF GuardingKinds, ProtectedKinds
    <3>2. Taken(n + 1)' => f.kind \in GuardingKinds \/ (Taken(n) /\ f.kind # "exempt")
      BY <1>1, <1>2, SMT DEF Taken
    <3>3. f.kind \in GuardingKinds => Taken(n + 1)'
      BY <1>1, <1>2, <3>1, SMT DEF Taken
    <3>4. Taken(n) /\ f.kind # "exempt" => Taken(n + 1)'
      BY <1>1, <1>2, SMT DEF Taken
    <3>. QED
      BY <3>2, <3>3, <3>4
  <2>4. guard' <=> Taken(n + 1)'
    BY <2>1, <2>3
  <2>5. \A k \in 1..n : stack'[k].prev <=> Taken(k - 1)'
    <3>1. \A k \in 1..n : stack[k].prev <=> Taken(k - 1)
      BY <1>1, <1>3 DEF GuardInv
    <3>. QED
      BY <1>1, <1>2, <2>2, <3>1
  <2>6. stack'[n + 1].prev <=> Taken(n)'
    <3>1. Taken(n)' <=> Taken(n)
      BY <1>1, <1>2, SMT DEF Taken
    <3>. QED
      BY <1>2, <2>1, <3>1
  <2>7. ASSUME NEW k \in 1..(n + 1) PROVE stack'[k].prev <=> Taken(k - 1)'
    <3>1. CASE k = n + 1
      <4>1. k - 1 = n
        BY <1>1, <3>1, SMT
      <4>. QED
        BY <2>6, <3>1, <4>1
    <3>2. CASE k # n + 1
      <4>1. k \in 1..n
        BY <1>1, <3>2, SMT
      <4>. QED
        BY <2>5, <4>1
    <3>. QED
      BY <3>1, <3>2
  <2>. QED
    BY <2>4, <2>7
<1>9. SuspendedOnlyInScope'
  BY <1>1, <1>2, <1>3, SMT DEF SuspendedOnlyInScope, OnStack
<1>10. WorkHasATrigger'
  BY <1>1, <1>2, <1>3, SMT DEF WorkHasATrigger
<1>11. DrainInv'
  <2>. SUFFICES ASSUME NEW i \in 1..(n + 1), ~stack'[i].more,
                       stack'[i].kind = "close" \/ stack'[i].origin = "drain"
                PROVE  posted - Len(queue') >= stack'[1].target
    BY <1>2 DEF DrainInv, Dispatched
  <2>1. CASE i = n + 1
    BY <1>1, <1>2, <1>5, <1>6, <2>1, SMT
  <2>2. CASE i \in 1..n
    <3>1. posted - Len(queue) >= stack[1].target
      BY <1>1, <1>2, <1>3, <2>2 DEF DrainInv, Dispatched
    <3>2. stack'[1] = stack[1] /\ stack[1].target \in Nat
      <4>1. 1 \in 1..n
        BY <1>1, <2>2, SMT
      <4>2. stack[1] \in FramesUpTo(posted)
        BY <1>1, <4>1
      <4>. QED
        BY <1>1, <1>2, <4>1, <4>2, SMT DEF FramesUpTo
    <3>. QED
      BY <1>1, <3>1, <3>2, SMT
  <2>. QED
    BY <1>1, <2>1, <2>2, SMT
<1>. QED
  BY <1>2, <1>7, <1>8, <1>9, <1>10, <1>11

\* So does a message that is processed, sent or taken from the queue.
LEMMA MessagePreserves ==
    ASSUME DInv, NEW kind \in PostedKinds \union SentKinds, NEW origin \in Origins,
           NEW more \in BOOLEAN, ProcessMessage(kind, origin, more),
           posted' = posted, ~halted,
           origin = "drain" => stack # <<>> /\ Top.kind = "close",
           Len(queue') \in Nat, Len(queue') <= Len(queue),
           ~more /\ origin = "drain" => posted - Len(queue') >= stack[1].target,
           started' /\ ~halted' /\ queue' # <<>> =>
                \/ started /\ queue # <<>> /\ timerArmed' = timerArmed /\ timerStarting' = timerStarting
                \/ origin = "timer" /\ more
    PROVE  /\ stack' \in Seq(FramesUpTo(posted'))
           /\ Shape' /\ GuardInv' /\ SuspendedOnlyInScope' /\ WorkHasATrigger' /\ DrainInv'
           /\ guard' \in BOOLEAN /\ halted' \in BOOLEAN
           /\ state' \in {"Running", "Suspended", "Draining"}
<1>. DEFINE actual == IF kind = "tick" /\ state # "Running" THEN "skippedTick" ELSE kind
            f == Frame(actual, origin, more)
<1>1. /\ stack' = Append(stack, f)
      /\ halted' = (guard /\ kind \in ProtectedKinds \union {"syncInput"})
      /\ guard' = (guard \/ kind \in ProtectedKinds)
      /\ state' = IF kind \in PausingKinds THEN "Suspended" ELSE state
  BY DEF ProcessMessage
<1>2. /\ actual \in Kinds /\ actual \notin {"close", "exempt"}
      /\ actual \in GuardingKinds <=> kind \in ProtectedKinds
      /\ actual \in PausingKinds <=> kind \in PausingKinds
  BY SMT DEF Kinds, OtherKinds, PostedKinds, SentKinds, GuardingKinds, ProtectedKinds, PausingKinds
<1>3. f \in FramesUpTo(posted) /\ f.kind = actual /\ f.origin = origin /\ f.more = more /\ f.prev = guard
  <2>1. posted \in 0..posted /\ guard \in BOOLEAN
    BY Types, SMT
  <2>2. f = [kind |-> actual, origin |-> origin, more |-> more, prev |-> guard, target |-> posted]
    BY DEF Frame
  <2>. HIDE DEF f, actual
  <2>. QED
    BY <1>2, <2>1, <2>2, Zenon DEF FramesUpTo
<1>4. guard' \in BOOLEAN /\ halted' \in BOOLEAN
  BY <1>1
<1>5. state' \in {"Running", "Suspended", "Draining"}
  BY <1>1 DEF DInv, DispatcherTypeOK
<1>. HIDE DEF f, actual
<1>6. guard' <=> actual \in GuardingKinds \/ guard
  BY <1>1, <1>2, Zenon
<1>7. f.prev <=> guard
  BY <1>3
<1>8. f.kind \in PausingKinds \/ state' # "Suspended" \/ state' = state
  BY <1>1, <1>2, <1>3
<1>9. f.origin = "drain" => stack # <<>> /\ Top.kind = "close"
  BY <1>3
<1>10. f.kind # "close" /\ f.kind # "exempt"
  BY <1>2, <1>3
<1>11. guard' <=> f.kind \in GuardingKinds \/ (guard /\ f.kind # "exempt")
  BY <1>3, <1>6, <1>10
<1>12. /\ ~f.more /\ f.origin = "drain" => posted - Len(queue') >= stack[1].target
       /\ started' /\ ~halted' /\ queue' # <<>> =>
            \/ started /\ queue # <<>> /\ timerArmed' = timerArmed /\ timerStarting' = timerStarting
            \/ f.kind \in PausingKinds \union {"close"}
            \/ f.origin = "timer" /\ f.more
  BY <1>3
<1>. QED
  BY <1>1, <1>3, <1>4, <1>5, <1>7, <1>8, <1>9, <1>10, <1>11, <1>12, PushPreserves

\* And so does a frame that ends.
LEMMA ReturnPreserves ==
    ASSUME DInv, Return
    PROVE  DInv'
<1>0. PICK n \in Nat : n = Len(stack)
  BY Types
<1>1. /\ stack \in Seq(FramesUpTo(posted)) /\ n = Len(stack) /\ posted \in Nat /\ Len(queue) \in Nat
      /\ DOMAIN stack = 1..n /\ n > 0 /\ Top = stack[n] /\ ~halted /\ Top.kind # "close"
      /\ posted' = posted /\ queue' = queue /\ timerStarting' = timerStarting /\ started' = started
      /\ halted' = halted /\ calls' = calls
  BY <1>0, Types, SMT DEF Return, Top
<1>2. Shape /\ GuardInv /\ SuspendedOnlyInScope /\ WorkHasATrigger /\ DrainInv /\ DispatcherTypeOK
  BY DEF DInv
<1>3. /\ Below \in Seq(FramesUpTo(posted)) /\ Len(Below) = n - 1 /\ DOMAIN Below = 1..(n - 1)
      /\ \A i \in 1..(n - 1) : Below[i] = stack[i]
      /\ Top \in FramesUpTo(posted)
  BY <1>1, PopProperties DEF Below
<1>4. Top.origin = "drain" => n = 2 /\ stack[1].kind = "close"
  BY <1>1, <1>2, SMT DEF Shape
<1>5. /\ stack' \in Seq(FramesUpTo(posted)) /\ Len(stack') = n - 1 /\ DOMAIN stack' = 1..(n - 1)
      /\ \A i \in 1..(n - 1) :
            /\ stack'[i].kind = stack[i].kind /\ stack'[i].origin = stack[i].origin
            /\ stack'[i].prev = stack[i].prev /\ stack'[i].target = stack[i].target
            /\ stack'[i].more = IF Top.origin = "drain" THEN Top.more ELSE stack[i].more
  <2>1. CASE Top.origin # "drain"
    <3>1. stack' = Below
      BY <2>1 DEF Return
    <3>. QED
      BY <1>3, <2>1, <3>1
  <2>2. CASE Top.origin = "drain"
    <3>1. stack' = [Below EXCEPT ![1].more = Top.more] /\ n = 2 /\ Len(Below) = 1
      BY <1>3, <1>4, <2>2 DEF Return
    <3>2. Below[1] = stack[1] /\ Below[1] \in FramesUpTo(posted) /\ Top.more \in BOOLEAN
      <4>1. 1 \in 1..(n - 1) /\ 1 \in DOMAIN Below
        BY <1>3, <3>1, SMT
      <4>2. Top.more \in BOOLEAN
        BY <1>3 DEF FramesUpTo
      <4>. QED
        BY <1>3, <4>1, <4>2
    <3>. DEFINE first == [Below[1] EXCEPT !.more = Top.more]
    <3>3. /\ first \in FramesUpTo(posted) /\ first.kind = stack[1].kind
          /\ first.origin = stack[1].origin /\ first.prev = stack[1].prev
          /\ first.target = stack[1].target /\ first.more = Top.more
      BY <3>2 DEF FramesUpTo
    <3>4. stack' = [Below EXCEPT ![1] = first]
      BY <1>3, <3>1
    <3>. HIDE DEF first
    <3>5. /\ stack' \in Seq(FramesUpTo(posted)) /\ Len(stack') = 1 /\ DOMAIN stack' = 1..1
          /\ stack'[1] = first
      <4>1. 1 \in 1..Len(Below)
        BY <3>1, SMT
      <4>2. /\ [Below EXCEPT ![1] = first] \in Seq(FramesUpTo(posted))
            /\ Len([Below EXCEPT ![1] = first]) = Len(Below)
            /\ [Below EXCEPT ![1] = first][1] = first
        BY <1>3, <3>3, <4>1, ExceptSeq
      <4>. QED
        BY <3>1, <3>4, <4>2
    <3>6. \A i \in 1..(n - 1) : i = 1
      BY <3>1, SMT
    <3>7. n - 1 = 1
      BY <3>1, SMT
    <3>. QED
      BY <2>2, <3>3, <3>5, <3>6, <3>7
  <2>. QED
    BY <2>1, <2>2
<1>6. DispatcherTypeOK'
  <2>1. Top.prev \in BOOLEAN
    BY <1>3 DEF FramesUpTo
  <2>2. guard' \in BOOLEAN /\ timerArmed' \in BOOLEAN
    BY <1>2, <2>1 DEF Return, DispatcherTypeOK
  <2>3. state' \in {"Running", "Suspended", "Draining"}
    BY <1>2 DEF Return, DispatcherTypeOK
  <2>. QED
    BY <1>1, <1>2, <1>5, <2>2, <2>3 DEF DispatcherTypeOK, FramesUpTo, Kinds
<1>7. Shape'
  BY <1>1, <1>2, <1>5, SMT DEF Shape
<1>8. GuardInv'
  <2>1. ASSUME NEW k \in 0..(n - 1) PROVE Taken(k)' <=> Taken(k)
    <3>1. \A i \in 1..k : stack'[i].kind = stack[i].kind
      BY <1>1, <1>5, SMT
    <3>. QED
      BY <1>1, <3>1, SMT DEF Taken
  <2>2. /\ guard <=> Taken(n)
        /\ \A k \in 1..n : stack[k].prev <=> Taken(k - 1)
    BY <1>1, <1>2 DEF GuardInv
  <2>3. guard' <=> Taken(n - 1)
    <3>1. CASE Top.kind \in GuardingKinds \union {"exempt"}
      <4>1. guard' = Top.prev
        BY <3>1 DEF Return, GuardingKinds
      <4>2. n \in 1..n
        BY <1>1, SMT
      <4>. QED
        BY <1>1, <2>2, <4>1, <4>2
    <3>2. CASE Top.kind \notin GuardingKinds \union {"exempt"}
      <4>1. guard' = guard
        BY <3>2 DEF Return, GuardingKinds
      <4>2. Taken(n) <=> Taken(n - 1)
        BY <1>1, <3>2, SMT DEF Taken
      <4>. QED
        BY <2>2, <4>1, <4>2
    <3>. QED
      BY <3>1, <3>2
  <2>4. guard' <=> Taken(n - 1)'
    BY <1>1, <2>1, <2>3, SMT
  <2>5. ASSUME NEW k \in 1..(n - 1) PROVE stack'[k].prev <=> Taken(k - 1)'
    <3>1. k \in 1..n /\ k - 1 \in 0..(n - 1)
      BY <1>1, SMT
    <3>2. stack'[k].prev = stack[k].prev
      BY <1>5
    <3>. QED
      BY <2>1, <2>2, <3>1, <3>2
  <2>. QED
    BY <1>5, <2>4, <2>5 DEF GuardInv
<1>9. SuspendedOnlyInScope'
  <2>1. state' = IF Top.kind \in PausingKinds THEN "Running" ELSE state
    BY DEF Return
  <2>. QED
    BY <1>1, <1>2, <1>5, <2>1, SMT DEF SuspendedOnlyInScope, OnStack
<1>10. WorkHasATrigger'
  <2>. SUFFICES ASSUME started, queue # <<>>, ~timerArmed', ~(timerStarting > 0)
                PROVE  \E i \in 1..(n - 1) : \/ stack'[i].kind \in PausingKinds \union {"close"}
                                             \/ stack'[i].origin = "timer" /\ stack'[i].more
    BY <1>1, <1>5 DEF WorkHasATrigger
  <2>1. ~timerArmed /\ Top.kind \notin PausingKinds /\ ~(Top.origin = "timer" /\ Top.more)
    BY DEF Return
  <2>2. PICK i \in 1..n : \/ stack[i].kind \in PausingKinds \union {"close"}
                          \/ stack[i].origin = "timer" /\ stack[i].more
    BY <1>1, <1>2, <2>1 DEF WorkHasATrigger
  <2>3. i \in 1..(n - 1)
    BY <1>1, <2>1, <2>2, SMT
  <2>4. CASE stack[i].kind \in PausingKinds \union {"close"}
    BY <1>5, <2>3, <2>4
  <2>5. CASE stack[i].origin = "timer" /\ stack[i].more
    <3>1. CASE Top.origin = "drain"
      BY <1>4, <1>5, <2>3, <3>1, SMT
    <3>2. CASE Top.origin # "drain"
      BY <1>5, <2>3, <2>5, <3>2
    <3>. QED
      BY <3>1, <3>2
  <2>. QED
    BY <2>2, <2>4, <2>5
<1>11. DrainInv'
  <2>. SUFFICES ASSUME NEW i \in 1..(n - 1), ~stack'[i].more,
                       stack'[i].kind = "close" \/ stack'[i].origin = "drain"
                PROVE  posted - Len(queue) >= stack'[1].target
    BY <1>1, <1>5 DEF DrainInv, Dispatched
  <2>1. stack'[1].target = stack[1].target /\ i \in 1..n /\ n \in 1..n
    BY <1>1, <1>5, SMT
  <2>2. CASE Top.origin = "drain"
    BY <1>1, <1>2, <1>5, <2>1, <2>2 DEF DrainInv, Dispatched
  <2>3. CASE Top.origin # "drain"
    BY <1>1, <1>2, <1>5, <2>1, <2>3 DEF DrainInv, Dispatched
  <2>. QED
    BY <2>2, <2>3
<1>. QED
  BY <1>6, <1>7, <1>8, <1>9, <1>10, <1>11 DEF DInv
-----------------------------------------------------------------------------
\* A call that pushes a frame of its own: a pause, an exemption or a modal loop.
LEMMA CallPreserves ==
    ASSUME DInv, NEW kind \in {"pause", "exempt", "modal"}, ~halted,
           stack' = Append(stack, Frame(kind, "called", FALSE)),
           state' = IF kind = "pause" THEN "Suspended" ELSE state,
           guard' = IF kind = "exempt" THEN FALSE ELSE guard,
           calls < MaxCalls, calls' = calls + 1,
           UNCHANGED <<queue, timerVars, started, halted, posted>>
    PROVE  DInv'
<1>. DEFINE f == Frame(kind, "called", FALSE)
<1>1. f \in FramesUpTo(posted) /\ f.kind = kind /\ f.origin = "called" /\ f.prev = guard
  <2>1. posted \in 0..posted /\ guard \in BOOLEAN /\ kind \in Kinds
    BY Types, SMT DEF Kinds, OtherKinds
  <2>2. f = [kind |-> kind, origin |-> "called", more |-> FALSE, prev |-> guard, target |-> posted]
    BY DEF Frame
  <2>. HIDE DEF f
  <2>. QED
    BY <2>1, <2>2, Zenon DEF FramesUpTo, Origins
<1>2. queue' = queue /\ timerArmed' = timerArmed /\ timerStarting' = timerStarting
      /\ started' = started /\ halted' = halted /\ posted' = posted
  BY DEF timerVars
<1>3. /\ kind \in PausingKinds \/ state' # "Suspended" \/ state' = state
      /\ guard' <=> kind \in GuardingKinds \/ (guard /\ kind # "exempt")
      /\ kind # "close"
  BY DEF PausingKinds, GuardingKinds, ProtectedKinds
<1>4. Len(queue) \in Nat
  BY Types
<1>. HIDE DEF f
<1>5. /\ stack' \in Seq(FramesUpTo(posted'))
      /\ Shape' /\ GuardInv' /\ SuspendedOnlyInScope' /\ WorkHasATrigger' /\ DrainInv'
  <2>1. stack' = Append(stack, f) /\ f.origin # "drain" /\ f.kind # "close"
    BY <1>1, <1>3 DEF f
  <2>2. Len(queue') \in Nat /\ Len(queue') <= Len(queue)
    BY <1>2, <1>4, SMT
  <2>3. /\ f.prev <=> guard
        /\ guard' <=> f.kind \in GuardingKinds \/ (guard /\ f.kind # "exempt")
        /\ f.kind \in PausingKinds \/ state' # "Suspended" \/ state' = state
    BY <1>1, <1>3
  <2>4. started' /\ ~halted' /\ queue' # <<>> =>
            \/ started /\ queue # <<>> /\ timerArmed' = timerArmed /\ timerStarting' = timerStarting
            \/ f.kind \in PausingKinds \union {"close"}
            \/ f.origin = "timer" /\ f.more
    BY <1>2
  <2>. QED
    BY <1>1, <1>2, <2>1, <2>2, <2>3, <2>4, PushPreserves
<1>6. DispatcherTypeOK'
  <2>1. calls' \in 0..MaxCalls
    BY Types, SMT DEF DInv, DispatcherTypeOK
  <2>2. guard' \in BOOLEAN
    BY Types
  <2>3. state' \in {"Running", "Suspended", "Draining"}
    BY DEF DInv, DispatcherTypeOK
  <2>. QED
    BY <1>2, <1>5, <2>1, <2>2, <2>3 DEF DInv, DispatcherTypeOK, FramesUpTo, Kinds
<1>. QED
  BY <1>5, <1>6 DEF DInv

\* A message that is posted, by any thread.
LEMMA PostPreserves ==
    ASSUME DInv, NEW kind \in PostedKinds, Post(kind)
    PROVE  DInv'
<1>1. /\ stack \in Seq(FramesUpTo(posted)) /\ posted \in Nat /\ queue \in Seq(PostedKinds)
      /\ Len(queue) <= posted /\ MaxPosts \in Nat /\ DOMAIN stack = 1..Len(stack)
      /\ timerStarting \in 0..posted /\ Len(stack) \in Nat
  BY Types DEF DInv, DispatcherTypeOK
<1>2. /\ posted < MaxPosts /\ posted' = posted + 1 /\ queue' = Append(queue, kind)
      /\ timerStarting' = IF queue = <<>> THEN timerStarting + 1 ELSE timerStarting
      /\ timerArmed' = timerArmed /\ state' = state /\ guard' = guard /\ stack' = stack
      /\ started' = started /\ halted' = halted /\ calls' = calls
  BY DEF Post
<1>3. Len(queue') = Len(queue) + 1 /\ queue' \in Seq(PostedKinds) /\ Len(queue) \in Nat
  BY <1>1, <1>2, PushProperties
<1>4. stack \in Seq(FramesUpTo(posted + 1))
  BY <1>1, LaterFrames, SMT
<1>5. DispatcherTypeOK'
  <2>1. posted' \in 0..MaxPosts /\ timerStarting' \in 0..posted' /\ Len(queue') <= posted'
    BY <1>1, <1>2, <1>3, SMT
  <2>. QED
    BY <1>2, <1>3, <1>4, <2>1 DEF DInv, DispatcherTypeOK, FramesUpTo, Kinds
<1>6. Shape' /\ SuspendedOnlyInScope'
  BY <1>2 DEF DInv, Shape, SuspendedOnlyInScope, OnStack
<1>7. GuardInv'
  BY <1>2 DEF DInv, GuardInv, Taken
<1>8. WorkHasATrigger'
  BY <1>1, <1>2, SMT DEF DInv, WorkHasATrigger
<1>9. DrainInv'
  BY <1>1, <1>2, <1>3, SMT DEF DInv, DrainInv, Dispatched
<1>. QED
  BY <1>5, <1>6, <1>7, <1>8, <1>9 DEF DInv

\* What Head and Tail of a queue that is not empty are.
LEMMA QueueProperties ==
    ASSUME DInv, queue # <<>>
    PROVE  /\ Head(queue) \in PostedKinds /\ Tail(queue) \in Seq(PostedKinds)
           /\ Len(Tail(queue)) = Len(queue) - 1 /\ Len(queue) \in Nat /\ Len(queue) > 0
           /\ Tail(queue) # <<>> => Len(queue) > 1
<1>1. queue \in Seq(PostedKinds)
  BY Types
<1>2. /\ Head(queue) \in PostedKinds /\ Tail(queue) \in Seq(PostedKinds)
      /\ Len(Tail(queue)) = Len(queue) - 1 /\ Len(queue) \in Nat /\ Len(queue) > 0
  BY <1>1, SMT
<1>3. Tail(queue) # <<>> => Len(Tail(queue)) > 0
  BY <1>2, SMT
<1>. QED
  BY <1>2, <1>3, SMT

\* The timer's callback, in whatever lets it in.
LEMMA TimerPreserves ==
    ASSUME DInv, TimerFires
    PROVE  DInv'
<1>1. /\ ~halted /\ timerArmed' = FALSE /\ timerStarting' = timerStarting /\ started' = started
      /\ posted' = posted /\ calls' = calls
  BY DEF TimerFires, TimerCallback, UserCode
<1>2. CASE queue = <<>> \/ state = "Suspended"
  <2>1. UNCHANGED <<queue, stack, halted, guard, state>>
    BY <1>2 DEF TimerFires, TimerCallback
  <2>2. DispatcherTypeOK' /\ Shape' /\ SuspendedOnlyInScope'
    BY <1>1, <2>1 DEF DInv, DispatcherTypeOK, Shape, SuspendedOnlyInScope, OnStack
  <2>3. GuardInv' /\ DrainInv'
    BY <1>1, <2>1 DEF DInv, GuardInv, Taken, DrainInv, Dispatched
  <2>4. WorkHasATrigger'
    BY <1>1, <1>2, <2>1 DEF DInv, WorkHasATrigger, SuspendedOnlyInScope, OnStack
  <2>. QED
    BY <2>2, <2>3, <2>4 DEF DInv
<1>3. CASE ~(queue = <<>> \/ state = "Suspended")
  <2>1. queue' = Tail(queue) /\ ProcessMessage(Head(queue), "timer", Len(queue) > 1)
    BY <1>3 DEF TimerFires, TimerCallback
  <2>2. /\ Head(queue) \in PostedKinds /\ queue' \in Seq(PostedKinds)
        /\ Len(queue') = Len(queue) - 1 /\ Len(queue) \in Nat /\ Len(queue) > 0
        /\ queue' # <<>> => Len(queue) > 1
    BY <1>3, <2>1, QueueProperties
  <2>. DEFINE more == Len(queue) > 1
  <2>3. more \in BOOLEAN /\ (queue' # <<>> => more) /\ ProcessMessage(Head(queue), "timer", more)
    BY <2>1, <2>2
  <2>. HIDE DEF more
  <2>4. /\ stack' \in Seq(FramesUpTo(posted'))
        /\ Shape' /\ GuardInv' /\ SuspendedOnlyInScope' /\ WorkHasATrigger' /\ DrainInv'
        /\ guard' \in BOOLEAN /\ halted' \in BOOLEAN
        /\ state' \in {"Running", "Suspended", "Draining"}
    <3>1. Len(queue') \in Nat /\ Len(queue') <= Len(queue) /\ "timer" \in Origins
      BY <2>2, SMT DEF Origins
    <3>. QED
      BY <1>1, <2>2, <2>3, <3>1, MessagePreserves
  <2>5. DispatcherTypeOK'
    <3>1. Len(queue') <= posted'
      BY <1>1, <2>2, Types, SMT
    <3>. QED
      BY <1>1, <2>2, <2>4, <3>1 DEF DInv, DispatcherTypeOK, FramesUpTo, Kinds
  <2>. QED
    BY <2>4, <2>5 DEF DInv
<1>. QED
  BY <1>2, <1>3

\* A message sent by the code the UI thread runs.
LEMMA SendPreserves ==
    ASSUME DInv, NEW kind \in SentKinds, Send(kind)
    PROVE  DInv'
<1>1. /\ ~halted /\ timerArmed' = timerArmed /\ timerStarting' = timerStarting /\ started' = started
      /\ posted' = posted /\ calls' = calls + 1 /\ calls < MaxCalls /\ queue' = queue
      /\ ProcessMessage(kind, "called", FALSE)
  BY DEF Send, UserCode, timerVars
<1>2. Len(queue') \in Nat /\ Len(queue') <= Len(queue) /\ "called" \in Origins
  BY <1>1, Types, SMT DEF Origins
<1>3. /\ stack' \in Seq(FramesUpTo(posted'))
      /\ Shape' /\ GuardInv' /\ SuspendedOnlyInScope' /\ WorkHasATrigger' /\ DrainInv'
      /\ guard' \in BOOLEAN /\ halted' \in BOOLEAN
      /\ state' \in {"Running", "Suspended", "Draining"}
  BY <1>1, <1>2, MessagePreserves
<1>4. DispatcherTypeOK'
  <2>1. calls' \in 0..MaxCalls
    BY <1>1, Types, SMT DEF DInv, DispatcherTypeOK
  <2>. QED
    BY <1>1, <1>3, <2>1 DEF DInv, DispatcherTypeOK, FramesUpTo, Kinds
<1>. QED
  BY <1>3, <1>4 DEF DInv

\* The core closes: the drain begins.
LEMMA DrainPreserves ==
    ASSUME DInv, Drain
    PROVE  DInv'
<1>. DEFINE f == Frame("close", "called", TRUE)
<1>1. /\ ~halted /\ stack = <<>> /\ state' = "Draining" /\ stack' = <<f>> /\ queue' = queue
      /\ timerArmed' = timerArmed /\ timerStarting' = timerStarting /\ guard' = guard
      /\ started' = started /\ halted' = halted /\ posted' = posted /\ calls' = calls
  BY DEF Drain, UserCode, timerVars
<1>2. /\ f \in FramesUpTo(posted) /\ f.kind = "close" /\ f.origin = "called" /\ f.more
      /\ f.prev = guard
  <2>1. posted \in 0..posted /\ guard \in BOOLEAN /\ "close" \in Kinds
    BY Types, SMT DEF Kinds, OtherKinds
  <2>2. f = [kind |-> "close", origin |-> "called", more |-> TRUE, prev |-> guard, target |-> posted]
    BY DEF Frame
  <2>. HIDE DEF f
  <2>. QED
    BY <2>1, <2>2, Zenon DEF FramesUpTo, Origins
<1>. HIDE DEF f
<1>3. stack' = Append(stack, f) /\ Len(queue') \in Nat /\ Len(queue') <= Len(queue)
  BY <1>1, Types, SMT
<1>4. f.kind \notin GuardingKinds /\ f.kind # "exempt" /\ f.origin # "drain"
  BY <1>2 DEF GuardingKinds, ProtectedKinds
<1>5. /\ f.prev <=> guard
      /\ guard' <=> f.kind \in GuardingKinds \/ (guard /\ f.kind # "exempt")
      /\ f.kind = "close" => stack = <<>> /\ f.more
      /\ f.kind \in PausingKinds \union {"close"}
  BY <1>1, <1>2, <1>4
<1>6. /\ stack' \in Seq(FramesUpTo(posted'))
      /\ Shape' /\ GuardInv' /\ SuspendedOnlyInScope' /\ WorkHasATrigger' /\ DrainInv'
  BY <1>1, <1>2, <1>3, <1>4, <1>5, PushPreserves
<1>7. DispatcherTypeOK'
  BY <1>1, <1>6 DEF DInv, DispatcherTypeOK, FramesUpTo, Kinds
<1>. QED
  BY <1>6, <1>7 DEF DInv

\* A step of the drain: the next message, or the end of it.
LEMMA DrainStepPreserves ==
    ASSUME DInv, DrainStep
    PROVE  DInv'
<1>1. /\ ~halted /\ stack # <<>> /\ Top.kind = "close" /\ timerArmed' = timerArmed
      /\ timerStarting' = timerStarting /\ started' = started /\ posted' = posted /\ calls' = calls
  BY DEF DrainStep, timerVars
<1>2. /\ stack \in Seq(FramesUpTo(posted)) /\ DOMAIN stack = 1..Len(stack) /\ Len(stack) = 1
      /\ stack[1] \in FramesUpTo(posted) /\ stack[1].kind = "close" /\ stack[1].target \in 0..posted
  <2>1. /\ stack \in Seq(FramesUpTo(posted)) /\ DOMAIN stack = 1..Len(stack)
        /\ Len(stack) \in Nat /\ Len(stack) > 0
    BY <1>1, Types, SMT
  <2>2. Len(stack) \in DOMAIN stack /\ stack[Len(stack)].kind = "close"
    BY <1>1, <2>1, SMT DEF Top
  <2>3. Len(stack) = 1
    BY <2>2 DEF DInv, Shape
  <2>4. stack[1] \in FramesUpTo(posted)
    BY <2>1, <2>3, SMT
  <2>. QED
    BY <2>1, <2>2, <2>3, <2>4, SMT DEF FramesUpTo
<1>3. CASE queue = <<>>
  <2>. DEFINE f == [stack[1] EXCEPT !.more = FALSE]
  <2>1. /\ f \in FramesUpTo(posted) /\ f.kind = "close" /\ f.origin = stack[1].origin
        /\ f.prev = stack[1].prev /\ f.target = stack[1].target
    BY <1>2 DEF FramesUpTo
  <2>2. stack' = [stack EXCEPT ![1] = f]
    BY <1>2, <1>3 DEF DrainStep
  <2>3. queue' = queue /\ halted' = halted /\ guard' = guard /\ state' = state
    BY <1>3 DEF DrainStep
  <2>. HIDE DEF f
  <2>4. /\ stack' \in Seq(FramesUpTo(posted)) /\ Len(stack') = 1 /\ DOMAIN stack' = 1..1
        /\ stack'[1] = f
    <3>1. 1 \in 1..Len(stack) /\ stack \in Seq(FramesUpTo(posted))
      BY <1>2, SMT
    <3>2. /\ [stack EXCEPT ![1] = f] \in Seq(FramesUpTo(posted))
          /\ Len([stack EXCEPT ![1] = f]) = Len(stack)
          /\ [stack EXCEPT ![1] = f][1] = f
      BY <2>1, <3>1, ExceptSeq
    <3>3. Len([stack EXCEPT ![1] = f]) = 1
      BY <1>2, <3>2
    <3>4. DOMAIN [stack EXCEPT ![1] = f] = 1..1
      BY <1>2
    <3>. QED
      BY <2>2, <3>2, <3>3, <3>4
  <2>5. \A i \in 1..1 : i = 1
    BY SMT
  <2>6. DispatcherTypeOK'
    BY <1>1, <2>3, <2>4 DEF DInv, DispatcherTypeOK, FramesUpTo, Kinds
  <2>7. Shape'
    BY <1>2, <2>1, <2>4, <2>5 DEF DInv, Shape
  <2>8. GuardInv'
    <3>1. stack[1].kind = stack'[1].kind /\ stack[1].prev = stack'[1].prev
      BY <1>2, <2>1, <2>4
    <3>2. ASSUME NEW k \in {0, 1} PROVE Taken(k)' <=> Taken(k)
      <4>1. \A i \in 1..k : i = 1 /\ \A j \in i..k : j = 1
        BY <3>2, SMT
      <4>. QED
        BY <3>1, <4>1, SMT DEF Taken
    <3>3. ~halted => (guard <=> Taken(1)) /\ (stack[1].prev <=> Taken(1 - 1))
      BY <1>2, <2>5 DEF DInv, GuardInv
    <3>4. 1 - 1 = 0
      BY SMT
    <3>. QED
      BY <2>3, <2>4, <2>5, <3>1, <3>2, <3>3, <3>4 DEF GuardInv
  <2>9. SuspendedOnlyInScope'
    BY <1>2, <2>1, <2>3, <2>4, <2>5 DEF DInv, SuspendedOnlyInScope, OnStack
  <2>10. WorkHasATrigger'
    BY <1>3, <2>3 DEF WorkHasATrigger
  <2>11. DrainInv'
    <3>1. posted' - Len(queue') >= stack'[1].target
      BY <1>1, <1>2, <1>3, <2>1, <2>3, <2>4, Types, SMT
    <3>. QED
      BY <3>1 DEF DrainInv, Dispatched
  <2>. QED
    BY <2>6, <2>7, <2>8, <2>9, <2>10, <2>11 DEF DInv
<1>4. CASE queue # <<>>
  <2>1. queue' = Tail(queue) /\ ProcessMessage(Head(queue), "drain", Len(queue) > 1)
    BY <1>4 DEF DrainStep
  <2>2. /\ Head(queue) \in PostedKinds /\ queue' \in Seq(PostedKinds)
        /\ Len(queue') = Len(queue) - 1 /\ Len(queue) \in Nat /\ Len(queue) > 0
        /\ queue' # <<>> => Len(queue) > 1
    BY <1>4, <2>1, QueueProperties
  <2>. DEFINE more == Len(queue) > 1
  <2>3. /\ more \in BOOLEAN /\ ProcessMessage(Head(queue), "drain", more)
        /\ ~more => Len(queue') = 0
    BY <2>1, <2>2, SMT
  <2>. HIDE DEF more
  <2>4. /\ stack' \in Seq(FramesUpTo(posted'))
        /\ Shape' /\ GuardInv' /\ SuspendedOnlyInScope' /\ WorkHasATrigger' /\ DrainInv'
        /\ guard' \in BOOLEAN /\ halted' \in BOOLEAN
        /\ state' \in {"Running", "Suspended", "Draining"}
    <3>1. Len(queue') \in Nat /\ Len(queue') <= Len(queue) /\ "drain" \in Origins
      BY <2>2, SMT DEF Origins
    <3>2. ~more => posted - Len(queue') >= stack[1].target
      BY <1>2, <2>3, Types, SMT
    <3>. QED
      BY <1>1, <1>4, <2>2, <2>3, <3>1, <3>2, MessagePreserves
  <2>5. DispatcherTypeOK'
    <3>1. Len(queue') <= posted'
      BY <1>1, <2>2, Types, SMT
    <3>. QED
      BY <1>1, <2>2, <2>4, <3>1 DEF DInv, DispatcherTypeOK, FramesUpTo, Kinds
  <2>. QED
    BY <2>4, <2>5 DEF DInv
<1>. QED
  BY <1>3, <1>4

\* The dispatcher stops, on an empty stack or at the end of a drain.
LEMMA StopPreserves ==
    ASSUME DInv, Stop
    PROVE  DInv'
<1>1. /\ ~halted /\ started' = FALSE /\ stack' = <<>> /\ queue' = queue /\ timerArmed' = timerArmed
      /\ timerStarting' = timerStarting /\ state' = state /\ guard' = guard /\ halted' = halted
      /\ posted' = posted /\ calls' = calls
  BY DEF Stop, timerVars
<1>2. \A i \in DOMAIN stack : i = 1 /\ Len(stack) = 1 /\ stack[i].kind = "close"
  <2>1. DOMAIN stack = 1..Len(stack) /\ Len(stack) \in Nat
    BY Types
  <2>2. CASE stack = <<>>
    BY <2>2, SMT
  <2>3. CASE stack # <<>>
    <3>1. Len(stack) > 0
      BY <2>3, Types, SMT
    <3>2. Len(stack) \in DOMAIN stack /\ stack[Len(stack)].kind = "close"
      BY <2>1, <2>3, <3>1, SMT DEF Stop, Top
    <3>3. Len(stack) = 1
      BY <3>2 DEF DInv, Shape
    <3>. QED
      BY <2>1, <3>2, <3>3, SMT
  <2>. QED
    BY <2>2, <2>3
<1>3. DOMAIN stack' = {} /\ Len(stack') = 0
  BY <1>1, SMT
<1>4. ~guard
  <2>1. guard <=> Taken(Len(stack))
    BY <1>1 DEF DInv, GuardInv
  <2>2. "close" \notin GuardingKinds
    BY DEF GuardingKinds, ProtectedKinds
  <2>. QED
    BY <1>2, <2>1, <2>2, Types DEF Taken
<1>5. state # "Suspended"
  <2>1. "close" \notin PausingKinds
    BY DEF PausingKinds
  <2>. QED
    BY <1>2, <2>1 DEF DInv, SuspendedOnlyInScope, OnStack
<1>6. DispatcherTypeOK'
  <2>1. stack' \in Seq(FramesUpTo(posted))
    BY <1>1
  <2>. QED
    BY <1>1, <2>1 DEF DInv, DispatcherTypeOK, FramesUpTo, Kinds
<1>7. GuardInv'
  BY <1>1, <1>3, <1>4, SMT DEF GuardInv, Taken
<1>. QED
  BY <1>1, <1>3, <1>5, <1>6, <1>7
  DEF DInv, Shape, SuspendedOnlyInScope, WorkHasATrigger, DrainInv
-----------------------------------------------------------------------------
\* Every step preserves the invariant.
LEMMA NextPreserves ==
    ASSUME DInv, [DispatcherNext]_dispatcherVars
    PROVE  DInv'
<1>1. ASSUME NEW kind \in PostedKinds, Post(kind) PROVE DInv'
  BY <1>1, PostPreserves
<1>2. ASSUME NEW kind \in SentKinds, Send(kind) PROVE DInv'
  BY <1>2, SendPreserves
<1>3. CASE StartTimer
  <2>1. /\ timerStarting' = timerStarting - 1 /\ timerArmed' = TRUE /\ timerStarting > 0
        /\ queue' = queue /\ state' = state /\ guard' = guard /\ stack' = stack
        /\ started' = started /\ halted' = halted /\ posted' = posted /\ calls' = calls
    BY <1>3 DEF StartTimer
  <2>2. timerStarting' \in 0..posted
    BY <2>1, Types, SMT DEF DInv, DispatcherTypeOK
  <2>3. DispatcherTypeOK'
    BY <2>1, <2>2 DEF DInv, DispatcherTypeOK
  <2>. QED
    BY <2>1, <2>3 DEF DInv, Shape, GuardInv, Taken, SuspendedOnlyInScope, OnStack,
                      WorkHasATrigger, DrainInv, Dispatched
<1>4. CASE TimerFires
  BY <1>4, TimerPreserves
<1>5. CASE OpenPause
  <2>1. /\ ~halted /\ calls < MaxCalls /\ calls' = calls + 1 /\ state' = "Suspended"
        /\ stack' = Append(stack, Frame("pause", "called", FALSE)) /\ guard' = guard
        /\ UNCHANGED <<queue, timerVars, started, halted, posted>>
    BY <1>5 DEF OpenPause, UserCode
  <2>2. "pause" \in {"pause", "exempt", "modal"} /\ "pause" # "exempt"
    OBVIOUS
  <2>. QED
    BY <2>1, <2>2, CallPreserves
<1>6. CASE OpenExemption
  <2>1. /\ ~halted /\ calls < MaxCalls /\ calls' = calls + 1 /\ state' = state
        /\ stack' = Append(stack, Frame("exempt", "called", FALSE)) /\ guard' = FALSE
        /\ UNCHANGED <<queue, timerVars, started, halted, posted>>
    BY <1>6 DEF OpenExemption, UserCode
  <2>2. "exempt" \in {"pause", "exempt", "modal"} /\ "exempt" # "pause"
    OBVIOUS
  <2>. QED
    BY <2>1, <2>2, CallPreserves
<1>7. CASE OpenModal
  <2>1. /\ ~halted /\ calls < MaxCalls /\ calls' = calls + 1 /\ state' = state
        /\ stack' = Append(stack, Frame("modal", "called", FALSE)) /\ guard' = guard
        /\ UNCHANGED <<queue, timerVars, started, halted, posted>>
    BY <1>7 DEF OpenModal, UserCode
  <2>2. "modal" \in {"pause", "exempt", "modal"} /\ "modal" # "pause" /\ "modal" # "exempt"
    OBVIOUS
  <2>. QED
    BY <2>1, <2>2, CallPreserves
<1>8. CASE Return
  BY <1>8, ReturnPreserves
<1>9. CASE Drain
  BY <1>9, DrainPreserves
<1>10. CASE DrainStep
  BY <1>10, DrainStepPreserves
<1>11. CASE Stop
  BY <1>11, StopPreserves
<1>12. CASE Ended \/ UNCHANGED dispatcherVars
  <2>1. /\ queue' = queue /\ timerArmed' = timerArmed /\ timerStarting' = timerStarting
        /\ state' = state /\ guard' = guard /\ stack' = stack
        /\ started' = started /\ halted' = halted /\ posted' = posted /\ calls' = calls
    BY <1>12 DEF Ended, dispatcherVars
  <2>2. DispatcherTypeOK'
    BY <2>1 DEF DInv, DispatcherTypeOK
  <2>3. GuardInv'
    BY <2>1 DEF DInv, GuardInv, Taken
  <2>. QED
    BY <2>1, <2>2, <2>3 DEF DInv, Shape, SuspendedOnlyInScope, OnStack,
                            WorkHasATrigger, DrainInv, Dispatched
<1>. QED
  BY <1>1, <1>2, <1>3, <1>4, <1>5, <1>6, <1>7, <1>8, <1>9, <1>10, <1>11, <1>12 DEF DispatcherNext

\* The invariant holds of every state the dispatcher can be in.
LEMMA DispatchingInvariance == DispatcherSpec => []DInv
<1>1. DispatcherInit => DInv
  BY InitialState
<1>2. DInv /\ [DispatcherNext]_dispatcherVars => DInv'
  BY NextPreserves
<1>. QED
  BY <1>1, <1>2, PTL DEF DispatcherSpec

\* Every variable of the dispatcher holds a value of its type, and a frame never began after
\* more messages than have been posted.
THEOREM DispatcherTypeCorrect == DispatcherSpec => []DispatcherTypeOK
<1>1. DInv => DispatcherTypeOK
  BY DEF DInv
<1>. QED
  BY <1>1, DispatchingInvariance, PTL

\* Work in the queue always has something to bring it out: an armed or owed timer, or a
\* frame in progress that arms it when it ends (xcpwindow.cpp:1196-1207, :1250-1260,
\* :1304-1313).
THEOREM QueuedWorkHasATrigger == DispatcherSpec => []WorkHasATrigger
<1>1. DInv => WorkHasATrigger
  BY DEF DInv
<1>. QED
  BY <1>1, DispatchingInvariance, PTL

\* The reentrancy guard is taken exactly while a protected handler that no exemption covers
\* is in progress, however handlers, pauses and exemptions nest (ReentrancyGuard.h:20-37).
THEOREM GuardIsOfTheStack == DispatcherSpec => []GuardMatchesStack
<1>1. DInv => GuardMatchesStack
  <2>. SUFFICES ASSUME DInv, ~halted
                PROVE  guard = \E i \in DOMAIN stack :
                            /\ stack[i].kind \in ProtectedKinds \union {"skippedTick"}
                            /\ \A j \in i..Len(stack) : stack[j].kind # "exempt"
    BY DEF GuardMatchesStack
  <2>1. guard \in BOOLEAN /\ DOMAIN stack = 1..Len(stack)
    BY Types
  <2>2. guard <=> Taken(Len(stack))
    BY DEF DInv, GuardInv
  <2>. QED
    BY <2>1, <2>2 DEF Taken, GuardingKinds
<1>. QED
  BY <1>1, DispatchingInvariance, PTL

\* Dispatching is suspended only while the frame that will resume it is in progress
\* (xcpwindow.cpp:1295-1314).
THEOREM SuspensionHasAScope == DispatcherSpec => []SuspendedOnlyInScope
<1>1. DInv => SuspendedOnlyInScope
  BY DEF DInv
<1>. QED
  BY <1>1, DispatchingInvariance, PTL

\* When the drain is over, all that was queued when it began has been dispatched, whatever
\* the messages it ran posted, sent or pumped (WindowsXamlManager_Partial.cpp:479-481).
THEOREM DrainIsComplete == DispatcherSpec => []DrainRunsAllWork
<1>1. DInv => DrainRunsAllWork
  BY DEF DInv, Shape, DrainInv, DrainRunsAllWork
<1>. QED
  BY <1>1, DispatchingInvariance, PTL
=============================================================================
