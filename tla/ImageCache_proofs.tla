--------------------------- MODULE ImageCache_proofs ---------------------------
(***************************************************************************)
(* Proofs about ImageCache, for any requests, parameters, calls and        *)
(* failures: its type invariant, the lists whose bare pointers must stay   *)
(* good while callbacks are called, and that a request which waits is      *)
(* attended to.                                                            *)
(***************************************************************************)
EXTENDS ImageCache, SequenceTheorems, WellFoundedInduction, TLAPS

\* A request is in one of the lists, and in it once.
ListedOnce ==
    /\ IsInjective(waiting)
    /\ IsInjective(decoding)
    /\ Members(waiting) \intersect Members(decoding) = {}

\* What is listed is live, or kept by a loop though its image source has let go of it.
ListedRequests ==
    \A r \in Members(waiting) \union Members(decoding) :
        request[r].status = "live" \/ (request[r].status \in {"dropped", "disconnected"} /\ Held(r))

\* What exists has parameters, and a decoder only once it has been made and taken out of the
\* first list.
RequestsAreSound ==
    /\ \A r \in Requests : request[r].status = "new" => ~HasDecoder(r)
    /\ \A r \in Requests : request[r].status \notin {"new", "gone"} => request[r].params \in Params
    /\ \A r \in Members(waiting) : ~HasDecoder(r)

\* The requests the loops hold exist, the iterator of the walk is in the list, and it is at
\* the request that is called.
StackIsSound ==
    /\ \A r \in Requests : Held(r) => request[r].status \notin {"new", "gone"}
    /\ walk.at # Nobody => Walking /\ walk.at \in Members(decoding)
    /\ Walking /\ Calling => called = walk.at
    /\ walk.ok /\ Walking => walk.made \in Params

\* A decoder that decodes for a request is that request's, and a response has parameters.
DecodersAreOwned ==
    \A d \in Requests :
        /\ decoders[d].job => decoders[d].order \in Orders
        /\ decoders[d].needsPresent /\ decoders[d].job
               => request[decoders[d].order.request].decoder = d

\* A task that is said to be queued is, and what was decoded was for some parameters.
QueueIsSound ==
    /\ hasProcessTask => ProcessTask \in Members(queue)
    /\ \A i \in DOMAIN queue : queue[i].kind = "decoded" => queue[i].made \in Params

\* The inductive invariant.
CInv ==
    /\ TypeOK /\ ListedOnce /\ ListedRequests /\ RequestsAreSound /\ StackIsSound
    /\ DecodersAreOwned /\ QueueIsSound /\ WaitingIsAttended
-----------------------------------------------------------------------------
\* One of a list is removed, the others stay in order.
LEMMA RemoveAtFacts ==
    ASSUME NEW S, NEW s \in Seq(S), NEW k \in 1..Len(s)
    PROVE  /\ RemoveAt(s, k) \in Seq(S)
           /\ Len(RemoveAt(s, k)) = Len(s) - 1
           /\ \A i \in 1..(Len(s) - 1) : RemoveAt(s, k)[i] = s[IF i < k THEN i ELSE i + 1]
<1>. DEFINE left == SubSeq(s, 1, k - 1)  right == SubSeq(s, k + 1, Len(s))
<1>1. Len(s) \in Nat /\ k \in Nat
  OBVIOUS
<1>2. /\ left \in Seq(S) /\ Len(left) = k - 1
      /\ \A i \in 1..(k - 1) : left[i] = s[i]
  BY <1>1, SMT
<1>3. /\ right \in Seq(S) /\ Len(right) = Len(s) - k
      /\ \A i \in 1..(Len(s) - k) : right[i] = s[k + i]
  BY <1>1, SMT
<1>. HIDE DEF left, right
<1>4. /\ left \o right \in Seq(S) /\ Len(left \o right) = Len(s) - 1
      /\ \A i \in 1..(Len(s) - 1) :
            (left \o right)[i] = IF i <= k - 1 THEN left[i] ELSE right[i - (k - 1)]
  <2>1. k - 1 + (Len(s) - k) = Len(s) - 1 /\ k - 1 \in Nat
    BY <1>1
  <2>2. /\ left \o right \in Seq(S) /\ Len(left \o right) = Len(left) + Len(right)
        /\ \A i \in 1..(Len(left) + Len(right)) :
              (left \o right)[i] = IF i <= Len(left) THEN left[i] ELSE right[i - Len(left)]
    BY <1>2, <1>3, ConcatProperties
  <2>. QED
    BY <1>2, <1>3, <2>1, <2>2
<1>5. ASSUME NEW i \in 1..(Len(s) - 1)
      PROVE  (left \o right)[i] = s[IF i < k THEN i ELSE i + 1]
  <2>1. CASE i < k
    BY <1>1, <1>2, <1>4, <2>1, SMT
  <2>2. CASE ~(i < k)
    <3>1. i - (k - 1) \in 1..(Len(s) - k) /\ k + (i - (k - 1)) = i + 1
      BY <1>1, <2>2, SMT
    <3>. QED
      BY <1>1, <1>3, <1>4, <2>2, <3>1, SMT
  <2>. QED
    BY <2>1, <2>2
<1>. QED
  BY <1>4, <1>5 DEF RemoveAt, left, right

\* Removing an element that is listed once leaves the others, each once.
LEMMA RemoveFirstFacts ==
    ASSUME NEW S, NEW s \in Seq(S), NEW e, IsInjective(s)
    PROVE  /\ RemoveFirst(s, e) \in Seq(S)
           /\ IsInjective(RemoveFirst(s, e))
           /\ Members(RemoveFirst(s, e)) = Members(s) \ {e}
<1>1. CASE ~\E i \in 1..Len(s) : s[i] = e
  <2>1. RemoveFirst(s, e) = s
    BY <1>1 DEF RemoveFirst
  <2>. QED
    BY <1>1, <2>1 DEF Members
<1>2. CASE \E i \in 1..Len(s) : s[i] = e
  <2>1. PICK k \in 1..Len(s) : s[k] = e
    BY <1>2
  <2>2. {i \in 1..Len(s) : s[i] = e} = {k}
    BY <2>1 DEF IsInjective
  <2>3. RemoveFirst(s, e) = RemoveAt(s, k)
    <3>1. Min({k}) = k
      BY DEF Min
    <3>. QED
      BY <1>2, <2>2, <3>1 DEF RemoveFirst, SelectInSeq
  <2>. DEFINE t == RemoveAt(s, k)
  <2>4. /\ t \in Seq(S) /\ Len(t) = Len(s) - 1 /\ Len(s) \in Nat
        /\ \A i \in 1..(Len(s) - 1) : t[i] = s[IF i < k THEN i ELSE i + 1]
    BY RemoveAtFacts
  <2>. HIDE DEF t
  <2>5. DOMAIN t = 1..(Len(s) - 1) /\ DOMAIN s = 1..Len(s)
    BY <2>4
  <2>6. IsInjective(t)
    <3>1. ASSUME NEW i \in DOMAIN t, NEW j \in DOMAIN t, t[i] = t[j] PROVE i = j
      <4>. DEFINE a == IF i < k THEN i ELSE i + 1
                  b == IF j < k THEN j ELSE j + 1
      <4>1. a \in DOMAIN s /\ b \in DOMAIN s /\ t[i] = s[a] /\ t[j] = s[b]
        BY <2>4, <2>5
      <4>2. a = b
        BY <3>1, <4>1 DEF IsInjective
      <4>. QED
        BY <2>1, <2>4, <2>5, <4>2
    <3>. QED
      BY <3>1 DEF IsInjective
  <2>7. Members(t) \subseteq Members(s) \ {e}
    BY <2>1, <2>4, <2>5 DEF IsInjective, Members
  <2>8. ASSUME NEW i \in 1..Len(s), s[i] # e PROVE s[i] \in Members(t)
    <3>1. CASE i < k
      BY <2>1, <2>4, <2>5, <3>1 DEF Members
    <3>2. CASE i > k
      <4>1. i - 1 \in 1..(Len(s) - 1) /\ ~(i - 1 < k) /\ (i - 1) + 1 = i
        BY <2>1, <2>4, <3>2
      <4>. QED
        BY <2>4, <2>5, <4>1 DEF Members
    <3>. QED
      BY <2>1, <2>4, <2>8, <3>1, <3>2
  <2>9. Members(s) \ {e} \subseteq Members(t)
    BY <2>5, <2>8 DEF Members
  <2>. QED
    BY <2>3, <2>4, <2>6, <2>7, <2>9 DEF t
<1>. QED
  BY <1>1, <1>2

\* What it is to append, ...
LEMMA AppendFacts ==
    ASSUME NEW S, NEW s \in Seq(S), NEW e \in S
    PROVE  /\ Append(s, e) \in Seq(S)
           /\ Members(Append(s, e)) = Members(s) \union {e}
           /\ IsInjective(s) /\ e \notin Members(s) => IsInjective(Append(s, e))
<1>1. /\ Append(s, e) \in Seq(S) /\ Len(s) \in Nat /\ DOMAIN s = 1..Len(s)
      /\ DOMAIN Append(s, e) = 1..(Len(s) + 1)
      /\ \A i \in 1..Len(s) : Append(s, e)[i] = s[i]
      /\ Append(s, e)[Len(s) + 1] = e
  OBVIOUS
<1>. DEFINE t == Append(s, e)
<1>. HIDE DEF t
<1>2. /\ t \in Seq(S) /\ Len(s) \in Nat /\ DOMAIN s = 1..Len(s)
      /\ DOMAIN t = 1..(Len(s) + 1)
      /\ (\A i \in 1..Len(s) : t[i] = s[i]) /\ t[Len(s) + 1] = e
  BY <1>1 DEF t
<1>3. \A i \in DOMAIN t : i \in 1..Len(s) \/ i = Len(s) + 1
  BY <1>2
<1>4. \A i \in DOMAIN s : i \in DOMAIN t
  BY <1>2
<1>5. Members(t) = Members(s) \union {e}
  BY <1>2, <1>3, <1>4 DEF Members
<1>6. IsInjective(s) /\ e \notin Members(s) => IsInjective(t)
  BY <1>2, <1>3 DEF IsInjective, Members
<1>. QED
  BY <1>2, <1>5, <1>6 DEF t

\* ... to take the first ...
LEMMA TailFacts ==
    ASSUME NEW S, NEW s \in Seq(S), s # <<>>
    PROVE  /\ Head(s) \in S /\ Tail(s) \in Seq(S)
           /\ Members(s) = Members(Tail(s)) \union {Head(s)}
           /\ IsInjective(s) => IsInjective(Tail(s)) /\ Head(s) \notin Members(Tail(s))
<1>. DEFINE t == Tail(s)  h == Head(s)
<1>1. /\ t \in Seq(S) /\ h \in S /\ Len(s) \in Nat \ {0} /\ DOMAIN s = 1..Len(s)
      /\ DOMAIN t = 1..(Len(s) - 1)
      /\ (\A i \in 1..(Len(s) - 1) : t[i] = s[i + 1]) /\ h = s[1]
  OBVIOUS
<1>. HIDE DEF t, h
<1>2. \A i \in DOMAIN s : i = 1 \/ (i - 1 \in DOMAIN t /\ t[i - 1] = s[i])
  BY <1>1
<1>3. \A i \in DOMAIN t : i + 1 \in DOMAIN s /\ i + 1 # 1 /\ t[i] = s[i + 1]
  BY <1>1
<1>4. 1 \in DOMAIN s
  BY <1>1
<1>5. Members(s) = Members(t) \union {h}
  BY <1>1, <1>2, <1>3, <1>4 DEF Members
<1>6. IsInjective(s) => IsInjective(t) /\ h \notin Members(t)
  BY <1>1, <1>3, <1>4 DEF IsInjective, Members
<1>. QED
  BY <1>1, <1>5, <1>6 DEF t, h

\* ... or the last of a list.
LEMMA LastFacts ==
    ASSUME NEW S, NEW s \in Seq(S), s # <<>>
    PROVE  LET t == SubSeq(s, 1, Len(s) - 1)
               l == s[Len(s)]
           IN  /\ l \in S /\ t \in Seq(S)
               /\ Members(s) = Members(t) \union {l}
               /\ IsInjective(s) => IsInjective(t) /\ l \notin Members(t)
<1>. DEFINE t == SubSeq(s, 1, Len(s) - 1)  l == s[Len(s)]
<1>1. /\ Len(s) \in Nat \ {0} /\ DOMAIN s = 1..Len(s) /\ l \in S
      /\ \A i \in 1..(Len(s) - 1) : s[i] \in S
  OBVIOUS
<1>2. /\ t \in Seq(S) /\ DOMAIN t = 1..(Len(s) - 1)
      /\ \A i \in 1..(Len(s) - 1) : t[i] = s[i]
  BY <1>1, SubSeqProperties
<1>. HIDE DEF t
<1>3. \A i \in DOMAIN s : i = Len(s) \/ (i \in DOMAIN t /\ t[i] = s[i])
  BY <1>1, <1>2
<1>4. \A i \in DOMAIN t : i \in DOMAIN s /\ i # Len(s) /\ t[i] = s[i]
  BY <1>1, <1>2
<1>5. Len(s) \in DOMAIN s
  BY <1>1
<1>6. Members(s) = Members(t) \union {l}
  BY <1>3, <1>4, <1>5 DEF Members
<1>7. IsInjective(s) => IsInjective(t) /\ l \notin Members(t)
  BY <1>4, <1>5 DEF IsInjective, Members
<1>. QED
  BY <1>1, <1>2, <1>6, <1>7 DEF t

-----------------------------------------------------------------------------
\* Ids of requests are not Nobody.
LEMMA Ids == Nobody \notin Requests
  BY CacheAssumption DEF Nobody

\* Some number of a set is the least.
LEMMA LeastOfNat ==
    ASSUME NEW S, S \subseteq Nat, S # {}
    PROVE  \E i \in S : \A j \in S : i <= j
<1>1. PICK i \in S : \A j \in S : ~(<<j, i>> \in OpToRel(<, Nat))
  BY WFMin, NatLessThanWellFounded
<1>2. ASSUME NEW j \in S PROVE i <= j
  <2>1. ~(j < i)
    BY <1>1, Zenon DEF OpToRel
  <2>. QED
    BY <2>1
<1>. QED
  BY <1>2

\* A task that is put joins the queue, and takes the place of a task of the same request only.
LEMMA PutFacts ==
    ASSUME NEW q \in Seq(CacheTasks), NEW task \in CacheTasks
    PROVE  /\ TQ!Put(q, task) \in Seq(CacheTasks)
           /\ Members(TQ!Put(q, task)) \subseteq Members(q) \union {task}
           /\ task \in Members(TQ!Put(q, task))
           /\ \A other \in Members(q) :
                other.request = Nobody => other \in Members(TQ!Put(q, task))
<1>1. CASE TQ!Slots(q, task) = {}
  <2>1. TQ!Put(q, task) = Append(q, task)
    BY <1>1 DEF TQ!Put
  <2>. QED
    BY <2>1, AppendFacts
<1>2. CASE TQ!Slots(q, task) # {}
  <2>1. \A i \in TQ!Slots(q, task) : i \in 1..Len(q) /\ q[i] \in CacheTasks /\ q[i].request # Nobody
    BY DEF TQ!Slots, Nobody
  <2>. DEFINE slot == CHOOSE i \in TQ!Slots(q, task) : \A j \in TQ!Slots(q, task) : i <= j
              t == [q EXCEPT ![slot] = task]
  <2>2. TQ!Put(q, task) = t
    BY <1>2 DEF TQ!Put
  <2>3. slot \in TQ!Slots(q, task)
    <3>1. \E i \in TQ!Slots(q, task) : \A j \in TQ!Slots(q, task) : i <= j
      <4>1. TQ!Slots(q, task) \subseteq Nat
        BY <2>1
      <4>. QED
        BY <1>2, <4>1, LeastOfNat
    <3>. QED
      BY <3>1
  <2>. HIDE DEF slot
  <2>4. slot \in 1..Len(q) /\ q[slot].request # Nobody
    BY <2>1, <2>3
  <2>5. /\ t \in Seq(CacheTasks) /\ Len(t) = Len(q)
        /\ \A i \in 1..Len(q) : t[i] = IF i = slot THEN task ELSE q[i]
    BY <2>4, ExceptSeq
  <2>. HIDE DEF t
  <2>6. DOMAIN t = 1..Len(q) /\ DOMAIN q = 1..Len(q)
    BY <2>5
  <2>7. Members(t) \subseteq Members(q) \union {task} /\ task \in Members(t)
    BY <2>4, <2>5, <2>6 DEF Members
  <2>8. \A other \in Members(q) : other.request = Nobody => other \in Members(t)
    BY <2>4, <2>5, <2>6 DEF Members
  <2>. QED
    BY <2>2, <2>5, <2>7, <2>8
<1>. QED
  BY <1>1, <1>2

\* The tasks of the cache.
LEMMA TasksOfTheCache ==
    /\ ProcessTask \in CacheTasks /\ ProcessTask.request = Nobody /\ ProcessTask.kind = "process"
    /\ \A ok \in BOOLEAN : DownloadTask(ok) \in CacheTasks /\ DownloadTask(ok).kind = "download"
    /\ \A r \in Requests, made \in Params, ok \in BOOLEAN :
        /\ Task("decoded", r, made, ok) \in CacheTasks
        /\ Task("decoded", r, made, ok).kind = "decoded" /\ Task("decoded", r, made, ok).made = made
  BY DEF ProcessTask, DownloadTask, Task, CacheTasks

\* A decoder that is given parameters decodes for them; the others decode no more for anybody.
LEMMA DecoderFacts ==
    ASSUME NEW s \in D!Decoder
    PROVE  /\ \A order \in Orders : LET t == D!SetDecodeParams(s, order, Fine)
                                    IN  t \in D!Decoder /\ t.order = order
           /\ LET t == D!DestroyDecoder(s)
              IN  t \in D!Decoder /\ ~t.needsPresent /\ t.job = s.job /\ t.order = s.order
           /\ LET t == D!SuspendAnimation(s)
              IN  t \in D!Decoder /\ ~t.needsPresent /\ t.job = s.job /\ t.order = s.order
           /\ s.job /\ s.order \in Orders => \A ok \in BOOLEAN :
                LET t == D!OnDecodeCurrentFrame(s, [Fine EXCEPT !.decodes = ok])
                IN  t \in D!Decoder /\ ~t.job
<1>1. /\ s = [s EXCEPT !.frame = 0] /\ s.frame = 0 /\ 0 \in D!Frames /\ 0 \in D!Loops
      /\ 0 + 1 = 1
  BY DEF D!Decoder, D!Frames, D!Loops
<1>2. ASSUME NEW order \in Orders
      PROVE  LET t == D!SetDecodeParams(s, order, Fine) IN t \in D!Decoder /\ t.order = order
  <2>. DEFINE ordered == [D!CancelPresent(s) EXCEPT
                              !.order = order, !.needsPresent = TRUE, !.result = D!NoResult,
                              !.frame = IF s.stopped THEN 0 ELSE @,
                              !.loop = IF s.stopped THEN 0 ELSE @]
  <2>1. ordered \in D!Decoder /\ ordered.order = order
    BY <1>1 DEF D!CancelPresent, D!Decoder, D!Results
  <2>. HIDE DEF ordered
  <2>2. D!SetupDecodeCurrentFrame(ordered, Fine) \in D!Decoder
    <3>1. Fine.runs = TRUE
      BY DEF Fine
    <3>2. \A a, f \in BOOLEAN :
            [ordered EXCEPT !.asserts = a, !.inProgress = TRUE, !.job = TRUE, !.failed = f] \in D!Decoder
      BY <2>1 DEF D!Decoder
    <3>3. (ordered.asserts /\ ~ordered.inProgress) \in BOOLEAN /\ (ordered.failed \/ ~TRUE) \in BOOLEAN
      OBVIOUS
    <3>. QED
      BY <3>1, <3>2, <3>3, Zenon DEF D!SetupDecodeCurrentFrame
  <2>3. D!SetupDecodeCurrentFrame(ordered, Fine).order = order
    BY <2>1 DEF D!SetupDecodeCurrentFrame, D!Decoder
  <2>. QED
    BY <2>1, <2>2, <2>3 DEF D!SetDecodeParams, ordered
<1>3. LET t == D!DestroyDecoder(s)
      IN  t \in D!Decoder /\ ~t.needsPresent /\ t.job = s.job /\ t.order = s.order
  BY DEF D!DestroyDecoder, D!CancelPresent, D!Decoder
<1>4. LET t == D!SuspendAnimation(s)
      IN  t \in D!Decoder /\ ~t.needsPresent /\ t.job = s.job /\ t.order = s.order
  BY DEF D!SuspendAnimation, D!CancelPresent, D!Decoder
<1>5. ASSUME s.order \in Orders, NEW ok \in BOOLEAN
      PROVE  LET t == D!OnDecodeCurrentFrame(s, [Fine EXCEPT !.decodes = ok])
             IN  t \in D!Decoder /\ ~t.job
  <2>. DEFINE o == [Fine EXCEPT !.decodes = ok]
              done == [s EXCEPT !.job = FALSE, !.inProgress = FALSE]
  <2>1. o.delivers
    BY DEF Fine
  <2>2. \A q : ~D!NeedMoreFrames(q)
    BY DEF D!NeedMoreFrames
  <2>3. D!PresentAndProceedToNextFrame([done EXCEPT !.needsPresent = FALSE], o)
            = [done EXCEPT !.needsPresent = FALSE]
    BY <2>1, <2>2 DEF D!PresentAndProceedToNextFrame
  <2>4. [done EXCEPT !.needsPresent = FALSE] \in D!Decoder /\ ~[done EXCEPT !.needsPresent = FALSE].job
    BY DEF D!Decoder
  <2>5. /\ [done EXCEPT !.result = D!Decoded(s)] \in D!Decoder
        /\ ~[done EXCEPT !.result = D!Decoded(s)].job
    BY <1>5 DEF D!Decoder, D!Decoded, D!Results
  <2>. QED
    BY <2>3, <2>4, <2>5 DEF D!OnDecodeCurrentFrame
<1>. QED
  BY <1>2, <1>3, <1>4, <1>5

-----------------------------------------------------------------------------
\* The requests, as TypeOK has them.
RequestType == [status : {"new", "live", "dropped", "disconnected", "gone"},
                params : Params \union {NoParams}, decoder : Requests \union {Nobody}]
WalkType == [completed : Requests \union {Nobody}, made : Params \union {NoParams},
             ok : BOOLEAN, at : Requests \union {Nobody}, failed : BOOLEAN]
Upsets == {"params", "forced", "device", "failure"}

\* In the beginning nothing is listed, decoded or queued.
LEMMA InitialState == Init => CInv
<1>. SUFFICES ASSUME Init PROVE CInv
  OBVIOUS
<1>1. D!NewDecoder(TRUE) \in D!Decoder
  BY DEF D!NewDecoder, D!Decoder, D!Frames, D!Loops, D!Results
<1>2. ~D!NewDecoder(TRUE).job
  BY DEF D!NewDecoder
<1>3. TypeOK
  <2>1. /\ request \in [Requests -> RequestType] /\ decoders \in [Requests -> D!Decoder]
    BY <1>1 DEF Init, RequestType
  <2>2. walk \in WalkType
    BY DEF Init, NotWalking, WalkType
  <2>3. calls \in 0..MaxCalls
    BY CacheAssumption DEF Init
  <2>4. /\ waiting \in Seq(Requests) /\ decoding \in Seq(Requests)
        /\ surfaces \in Seq([params : Params, made : Params]) /\ queue \in Seq(CacheTasks)
    BY DEF Init
  <2>5. /\ hasProcessTask \in BOOLEAN /\ processing \in BOOLEAN /\ abandoned \in BOOLEAN
        /\ called \in Requests \union {Nobody}
        /\ cacheState \in {"NotDownloaded", "Downloading", "DownloadFailed", "Downloaded"}
        /\ told \subseteq Requests /\ upsets \subseteq Upsets
    BY DEF Init
  <2>. QED
    BY <2>1, <2>2, <2>3, <2>4, <2>5 DEF TypeOK, RequestType, WalkType, Upsets
<1>4. ListedOnce /\ ListedRequests /\ RequestsAreSound /\ StackIsSound
  <2>1. \A l : l = <<>> => Members(l) = {} /\ IsInjective(l)
    BY DEF Members, IsInjective
  <2>2. /\ waiting = <<>> /\ decoding = <<>> /\ walk.at = Nobody /\ walk.completed = Nobody
        /\ called = Nobody /\ ~Walking
    BY DEF Init, NotWalking, Walking
  <2>3. \A r \in Requests : request[r].status = "new" /\ request[r].decoder = Nobody
    BY DEF Init
  <2>. QED
    BY <2>1, <2>2, <2>3, Ids
       DEF ListedOnce, ListedRequests, RequestsAreSound, StackIsSound, HasDecoder, Held
<1>5. DecodersAreOwned
  <2>1. \A d \in Requests : ~decoders[d].job
    BY <1>2 DEF Init
  <2>. QED
    BY <2>1 DEF DecodersAreOwned
<1>6. QueueIsSound /\ WaitingIsAttended
  BY DEF Init, QueueIsSound, WaitingIsAttended
<1>. QED
  BY <1>3, <1>4, <1>5, <1>6 DEF CInv

\* Every listed request has parameters.
LEMMA ListedHaveParams ==
    ASSUME CInv, NEW r \in Members(waiting) \union Members(decoding)
    PROVE  /\ r \in Requests /\ request[r].params \in Params
           /\ request[r].status \notin {"new", "gone"}
           /\ Order(r) \in Orders /\ Order(r).request = r
<1>1. r \in Requests
  BY DEF CInv, TypeOK, Members
<1>2. request[r].status \notin {"new", "gone"}
  BY DEF CInv, ListedRequests
<1>3. request[r].params \in Params
  BY <1>1, <1>2 DEF CInv, RequestsAreSound
<1>. QED
  BY <1>1, <1>2, <1>3 DEF Order, Orders

\* A decoder is given an order by the request that has it or takes it, for which none decodes yet.
LEMMA OrderKeepsOwners ==
    ASSUME CInv, NEW r \in Requests, NEW d \in Requests, NEW t \in D!Decoder,
           t.order \in Orders, t.order.request = r, request'[r].decoder = d,
           decoders' = [decoders EXCEPT ![d] = t],
           \A e \in Requests : request[r].decoder = e => e = d,
           \A s \in Requests :
               s # r /\ request[s].decoder # d => request'[s].decoder = request[s].decoder
    PROVE  decoders' \in [Requests -> D!Decoder] /\ DecodersAreOwned'
<1>3. /\ decoders' \in [Requests -> D!Decoder] /\ decoders'[d] = t
      /\ \A e \in Requests : e # d => decoders'[e] = decoders[e]
  BY DEF CInv, TypeOK
<1>4. ASSUME NEW e \in Requests
      PROVE  /\ decoders'[e].job => decoders'[e].order \in Orders
             /\ decoders'[e].needsPresent /\ decoders'[e].job
                    => request'[decoders'[e].order.request].decoder = e
  <2>1. CASE e = d
    BY <1>3, <2>1
  <2>2. CASE e # d
    <3>1. decoders[e].job => decoders[e].order \in Orders /\ decoders[e].order.request \in Requests
      BY DEF CInv, DecodersAreOwned, Orders
    <3>2. decoders[e].needsPresent /\ decoders[e].job
            => request[decoders[e].order.request].decoder = e
      BY DEF CInv, DecodersAreOwned
    <3>. QED
      BY <1>3, <2>2, <3>1, <3>2
  <2>. QED
    BY <2>1, <2>2
<1>. QED
  BY <1>3, <1>4 DEF DecodersAreOwned

\* A decoder that decodes for nobody any more has no owner to have.
LEMMA SilenceKeepsOwners ==
    ASSUME CInv, NEW d \in Requests, NEW t \in D!Decoder,
           t.job => ~t.needsPresent /\ decoders[d].job /\ t.order = decoders[d].order,
           decoders' = [decoders EXCEPT ![d] = t],
           \A s \in Requests : request[s].decoder # d => request'[s].decoder = request[s].decoder
    PROVE  decoders' \in [Requests -> D!Decoder] /\ DecodersAreOwned'
<1>1. /\ decoders' \in [Requests -> D!Decoder] /\ decoders'[d] = t
      /\ \A e \in Requests : e # d => decoders'[e] = decoders[e]
  BY DEF CInv, TypeOK
<1>2. ASSUME NEW e \in Requests
      PROVE  /\ decoders'[e].job => decoders'[e].order \in Orders
             /\ decoders'[e].needsPresent /\ decoders'[e].job
                    => request'[decoders'[e].order.request].decoder = e
  <2>1. CASE e = d
    BY <1>1, <2>1 DEF CInv, DecodersAreOwned
  <2>2. CASE e # d
    <3>1. decoders[e].job => decoders[e].order \in Orders /\ decoders[e].order.request \in Requests
      BY DEF CInv, DecodersAreOwned, Orders
    <3>2. decoders[e].needsPresent /\ decoders[e].job
            => request[decoders[e].order.request].decoder = e
      BY DEF CInv, DecodersAreOwned
    <3>. QED
      BY <1>1, <2>2, <3>1, <3>2
  <2>. QED
    BY <2>1, <2>2
<1>. QED
  BY <1>1, <1>2 DEF DecodersAreOwned

\* A request is let go of, and its decoder goes to another or with it.
LEMMA DetachFacts ==
    ASSUME CInv, NEW r \in Requests,
           NEW status \in {"dropped", "disconnected", "gone"}, OnDecoderDetached(r, status)
    PROVE  /\ request' \in [Requests -> RequestType] /\ decoders' \in [Requests -> D!Decoder]
           /\ request'[r].status = status /\ request'[r].params = request[r].params
           /\ \A s \in Requests \ {r} : /\ request'[s].status = request[s].status
                                        /\ request'[s].params = request[s].params
           /\ \A s \in Requests : request'[s].decoder # Nobody =>
                    request[s].decoder # Nobody \/ s \in Members(decoding)
           /\ DecodersAreOwned'
<1>. DEFINE heirs == {i \in DOMAIN decoding : /\ decoding[i] # r /\ ~HasDecoder(decoding[i])
                                              /\ AreDecodeParamsEqual(decoding[i], r)}
            heir == decoding[CHOOSE i \in heirs : \A j \in heirs : i <= j]
            d == request[r].decoder
            without == [request EXCEPT ![r].status = status, ![r].decoder = Nobody]
<1>1. /\ request \in [Requests -> RequestType] /\ decoders \in [Requests -> D!Decoder]
      /\ d \in Requests \union {Nobody} /\ decoding \in Seq(Requests)
  BY DEF CInv, TypeOK, RequestType
<1>2. /\ without \in [Requests -> RequestType]
      /\ without[r].status = status /\ without[r].params = request[r].params
      /\ without[r].decoder = Nobody
      /\ \A s \in Requests \ {r} : without[s] = request[s]
  BY <1>1 DEF RequestType
<1>3. CASE d = Nobody
  <2>1. request' = without /\ decoders' = decoders
    BY <1>3 DEF OnDecoderDetached
  <2>2. \A s \in Requests : request'[s].decoder = request[s].decoder
    BY <1>2, <1>3, <2>1
  <2>3. DecodersAreOwned'
    BY <2>1, <2>2 DEF CInv, DecodersAreOwned, Orders
  <2>. QED
    BY <1>1, <1>2, <2>1, <2>2, <2>3
<1>4. CASE d # Nobody /\ heirs = {}
  <2>1. request' = without /\ decoders' = [decoders EXCEPT ![d] = D!DestroyDecoder(@)]
    BY <1>4 DEF OnDecoderDetached
  <2>2. decoders' \in [Requests -> D!Decoder] /\ DecodersAreOwned'
    <3>. DEFINE t == D!DestroyDecoder(decoders[d])
    <3>1. d \in Requests /\ t \in D!Decoder /\ ~t.needsPresent
          /\ t.job = decoders[d].job /\ t.order = decoders[d].order
      BY <1>1, <1>4, DecoderFacts
    <3>. HIDE DEF t
    <3>2. decoders' = [decoders EXCEPT ![d] = t]
      BY <2>1 DEF t
    <3>3. \A s \in Requests : request[s].decoder # d => request'[s].decoder = request[s].decoder
      BY <1>2, <2>1
    <3>. HIDE DEF d
    <3>. QED
      BY <3>1, <3>2, <3>3, SilenceKeepsOwners
  <2>. QED
    BY <1>1, <1>2, <2>1, <2>2
<1>5. CASE d # Nobody /\ heirs # {}
  <2>1. /\ request' = [without EXCEPT ![heir].decoder = d]
        /\ decoders' = [decoders EXCEPT ![d] = D!SetDecodeParams(@, Order(heir), Fine)]
    BY <1>5 DEF OnDecoderDetached
  <2>2. heir \in Members(decoding) /\ heir # r /\ ~HasDecoder(heir)
    <3>1. heirs \subseteq Nat
      BY <1>1
    <3>2. \E i \in heirs : \A j \in heirs : i <= j
      BY <1>5, <3>1, LeastOfNat
    <3>. QED
      BY <3>2 DEF Members
  <2>. HIDE DEF heir, heirs
  <2>3. heir \in Requests /\ Order(heir) \in Orders /\ Order(heir).request = heir
    BY <2>2, ListedHaveParams
  <2>4. /\ request' \in [Requests -> RequestType] /\ request'[heir].decoder = d
        /\ request'[heir].status = request[heir].status /\ request'[heir].params = request[heir].params
        /\ \A s \in Requests \ {heir} : request'[s] = without[s]
    BY <1>1, <1>2, <1>5, <2>1, <2>2, <2>3 DEF RequestType
  <2>5. decoders' \in [Requests -> D!Decoder] /\ DecodersAreOwned'
    <3>1. d \in Requests
      BY <1>1, <1>5
    <3>2. \A e \in Requests : request[heir].decoder = e => e = d
      BY <2>2, Ids DEF HasDecoder
    <3>3. \A s \in Requests :
            s # heir /\ request[s].decoder # d => request'[s].decoder = request[s].decoder
      BY <1>2, <2>4
    <3>. DEFINE t == D!SetDecodeParams(decoders[d], Order(heir), Fine)
    <3>4. t \in D!Decoder /\ t.order = Order(heir)
      <4>1. decoders[d] \in D!Decoder
        BY <1>1, <3>1
      <4>. QED
        BY <2>3, <4>1, DecoderFacts
    <3>5. decoders' = [decoders EXCEPT ![d] = t]
      BY <2>1
    <3>6. t.order \in Orders /\ t.order.request = heir
      BY <2>3, <3>4
    <3>7. request'[heir].decoder = d
      BY <2>4
    <3>. HIDE DEF d, t
    <3>. QED
      BY <2>3, <3>1, <3>2, <3>3, <3>4, <3>5, <3>6, <3>7, OrderKeepsOwners
  <2>. QED
    BY <1>2, <2>2, <2>3, <2>4, <2>5
<1>. QED
  BY <1>3, <1>4, <1>5

\* The lists when a request is let go of.
LEMMA ReleasingFacts ==
    ASSUME CInv, NEW r \in Requests, OnRequestReleasing(r)
    PROVE  /\ waiting' \in Seq(Requests) /\ decoding' \in Seq(Requests) /\ ListedOnce'
           /\ Members(waiting') = Members(waiting) \ {r}
           /\ Members(decoding') = Members(decoding) \ {r}
           /\ waiting = <<>> => waiting' = <<>>
<1>1. /\ waiting \in Seq(Requests) /\ decoding \in Seq(Requests)
      /\ IsInjective(waiting) /\ IsInjective(decoding)
      /\ Members(waiting) \intersect Members(decoding) = {}
      /\ waiting' = RemoveFirst(waiting, r) /\ decoding' = RemoveFirst(decoding, r)
  BY DEF CInv, TypeOK, ListedOnce, OnRequestReleasing
<1>2. /\ waiting' \in Seq(Requests) /\ decoding' \in Seq(Requests)
      /\ IsInjective(waiting') /\ IsInjective(decoding')
      /\ Members(waiting') = Members(waiting) \ {r} /\ Members(decoding') = Members(decoding) \ {r}
  BY <1>1, RemoveFirstFacts
<1>3. ASSUME waiting = <<>>, waiting' # <<>> PROVE FALSE
  <2>1. waiting'[1] \in Members(waiting')
    BY <1>2, <1>3 DEF Members
  <2>2. Members(waiting) = {}
    BY <1>3 DEF Members
  <2>. QED
    BY <1>2, <2>1, <2>2
<1>. QED
  BY <1>1, <1>2, <1>3 DEF ListedOnce

\* A request that is let go of, or nobody, loses its decoder; what the others are stays.
LEMMA DetachKeepsSound ==
    ASSUME CInv, NEW r \in Requests, request[r].status \notin {"new", "gone"},
           NEW status \in {"dropped", "disconnected", "gone"}, OnDecoderDetached(r, status),
           Members(waiting') \subseteq Members(waiting)
    PROVE  /\ request' \in [Requests -> RequestType] /\ decoders' \in [Requests -> D!Decoder]
           /\ request'[r].status = status
           /\ \A s \in Requests \ {r} : request'[s].status = request[s].status
           /\ RequestsAreSound' /\ DecodersAreOwned'
<1>1. /\ request' \in [Requests -> RequestType] /\ decoders' \in [Requests -> D!Decoder]
      /\ request'[r].status = status /\ request'[r].params = request[r].params
      /\ \A s \in Requests \ {r} : /\ request'[s].status = request[s].status
                                   /\ request'[s].params = request[s].params
      /\ \A s \in Requests : request'[s].decoder # Nobody =>
               request[s].decoder # Nobody \/ s \in Members(decoding)
      /\ DecodersAreOwned'
  BY DetachFacts
<1>2. \A s \in Requests : request'[s].status = "new" => ~HasDecoder(s)'
  BY <1>1, ListedHaveParams DEF CInv, RequestsAreSound, HasDecoder
<1>3. \A s \in Requests : request'[s].status \notin {"new", "gone"} => request'[s].params \in Params
  BY <1>1 DEF CInv, RequestsAreSound
<1>4. \A s \in Members(waiting') : ~HasDecoder(s)'
  <2>1. \A s \in Members(waiting) : s \in Requests /\ s \notin Members(decoding) /\ ~HasDecoder(s)
    BY ListedHaveParams DEF CInv, ListedOnce, RequestsAreSound
  <2>. QED
    BY <1>1, <2>1 DEF HasDecoder
<1>. QED
  BY <1>1, <1>2, <1>3, <1>4 DEF RequestsAreSound

\* A request that is destroyed is in no list; what the others are stays.
LEMMA DestroyKeepsSound ==
    ASSUME CInv, NEW r \in Requests, request[r].status \notin {"new", "gone"}, Destroy(r)
    PROVE  /\ request' \in [Requests -> RequestType] /\ decoders' \in [Requests -> D!Decoder]
           /\ waiting' \in Seq(Requests) /\ decoding' \in Seq(Requests)
           /\ ListedOnce' /\ RequestsAreSound' /\ DecodersAreOwned'
           /\ \A s \in Requests \ {r} : request'[s].status = request[s].status
           /\ \A s \in Members(waiting') \union Members(decoding') :
                s \in Requests \ {r} /\ s \in Members(waiting) \union Members(decoding)
           /\ Members(decoding') = Members(decoding) \ {r}
           /\ waiting = <<>> => waiting' = <<>>
<1>1. /\ waiting' \in Seq(Requests) /\ decoding' \in Seq(Requests) /\ ListedOnce'
      /\ Members(waiting') = Members(waiting) \ {r}
      /\ Members(decoding') = Members(decoding) \ {r}
      /\ waiting = <<>> => waiting' = <<>>
  BY ReleasingFacts DEF Destroy
<1>2. /\ request' \in [Requests -> RequestType] /\ decoders' \in [Requests -> D!Decoder]
      /\ \A s \in Requests \ {r} : request'[s].status = request[s].status
      /\ RequestsAreSound' /\ DecodersAreOwned'
  BY <1>1, DetachKeepsSound DEF Destroy
<1>3. \A s \in Members(waiting) \union Members(decoding) : s \in Requests
  BY ListedHaveParams
<1>. QED
  BY <1>1, <1>2, <1>3

\* Where the iterator goes from a request is another one of the list, or its end.
LEMMA AfterFacts ==
    ASSUME CInv, NEW r \in Requests
    PROVE  /\ After(r) \in Requests \union {Nobody}
           /\ After(r) # Nobody => After(r) \in Members(decoding) \ {r}
<1>. DEFINE next == {i \in DOMAIN decoding : i > 1 /\ decoding[i - 1] = r}
<1>1. /\ decoding \in Seq(Requests) /\ IsInjective(decoding) /\ DOMAIN decoding = 1..Len(decoding)
      /\ Len(decoding) \in Nat
  BY DEF CInv, TypeOK, ListedOnce
<1>2. CASE next = {}
  BY <1>2 DEF After
<1>3. CASE next # {}
  <2>1. PICK i : i \in next /\ After(r) = decoding[i]
    BY <1>3 DEF After
  <2>2. i \in DOMAIN decoding /\ i - 1 \in DOMAIN decoding /\ decoding[i - 1] = r /\ i - 1 # i
    BY <1>1, <2>1
  <2>3. decoding[i] # r
    BY <2>2, <1>1 DEF IsInjective
  <2>. QED
    BY <1>1, <2>1, <2>2, <2>3 DEF Members
<1>. QED
  BY <1>2, <1>3

\* Tasks that are put leave the queue sound, and the task that processes requests in it.
LEMMA PutKeepsSound ==
    ASSUME CInv, NEW q \in Seq(CacheTasks), NEW task \in CacheTasks,
           Members(q) \subseteq Members(queue), task.kind = "decoded" => task.made \in Params
    PROVE  /\ TQ!Put(q, task) \in Seq(CacheTasks) /\ task \in Members(TQ!Put(q, task))
           /\ \A i \in DOMAIN TQ!Put(q, task) :
                TQ!Put(q, task)[i].kind = "decoded" => TQ!Put(q, task)[i].made \in Params
           /\ ProcessTask \in Members(q) => ProcessTask \in Members(TQ!Put(q, task))
<1>1. \A other \in Members(queue) : other.kind = "decoded" => other.made \in Params
  BY DEF CInv, QueueIsSound, Members
<1>2. \A i \in DOMAIN TQ!Put(q, task) : TQ!Put(q, task)[i] \in Members(q) \union {task}
  <2>1. \A i \in DOMAIN TQ!Put(q, task) : TQ!Put(q, task)[i] \in Members(TQ!Put(q, task))
    BY DEF Members
  <2>. QED
    BY <2>1, PutFacts
<1>3. ProcessTask.request = Nobody
  BY TasksOfTheCache
<1>. QED
  BY <1>1, <1>2, <1>3, PutFacts

\* Tasks that are taken leave the queue sound; the one that processes requests, taken or in it.
LEMMA TailKeepsSound ==
    ASSUME CInv, queue # <<>>
    PROVE  /\ Tail(queue) \in Seq(CacheTasks) /\ Members(Tail(queue)) \subseteq Members(queue)
           /\ Head(queue) \in CacheTasks
           /\ Head(queue).kind = "decoded" => Head(queue).made \in Params
           /\ \A i \in DOMAIN Tail(queue) :
                Tail(queue)[i].kind = "decoded" => Tail(queue)[i].made \in Params
           /\ hasProcessTask /\ Head(queue).kind # "process" => ProcessTask \in Members(Tail(queue))
<1>1. queue \in Seq(CacheTasks)
  BY DEF CInv, TypeOK
<1>2. /\ Head(queue) \in CacheTasks /\ Tail(queue) \in Seq(CacheTasks)
      /\ Members(queue) = Members(Tail(queue)) \union {Head(queue)}
  BY <1>1, TailFacts
<1>3. \A other \in Members(queue) : other.kind = "decoded" => other.made \in Params
  BY DEF CInv, QueueIsSound, Members
<1>4. \A i \in DOMAIN Tail(queue) : Tail(queue)[i] \in Members(queue)
  BY <1>2 DEF Members
<1>. QED
  BY <1>2, <1>3, <1>4, TasksOfTheCache DEF CInv, QueueIsSound

\* A request that is made is new: in no list, and nobody's.
LEMMA GetImagePreserves ==
    ASSUME CInv, NEW r \in Requests, NEW params \in Params, GetImage(r, params)
    PROVE  CInv'
<1>. USE DEF CInv
<1>1. /\ request[r].status = "new" /\ ~HasDecoder(r) /\ ~Held(r)
      /\ r \notin Members(waiting) \union Members(decoding)
      /\ UNCHANGED <<cacheState, decoding, surfaces, decoders, stackVars, told, calls, upsets>>
  BY ListedHaveParams DEF GetImage, RequestsAreSound, StackIsSound
<1>2. /\ request' \in [Requests -> RequestType] /\ request'[r].status # "new"
      /\ request'[r].status \notin {"new", "gone"} => request'[r].params \in Params
      /\ \A s \in Requests : request'[s].decoder = request[s].decoder
      /\ \A s \in Requests \ {r} : request'[s] = request[s]
  <2>1. request \in [Requests -> RequestType]
    BY DEF TypeOK, RequestType
  <2>2. CASE IsCached(params)
    <3>1. request' = [request EXCEPT ![r].status = "gone"]
      BY <2>2 DEF GetImage
    <3>. QED
      BY <2>1, <3>1 DEF RequestType
  <2>3. CASE ~IsCached(params)
    <3>1. request' = [request EXCEPT ![r].status = "live", ![r].params = params]
      BY <2>3 DEF GetImage
    <3>. QED
      BY <2>1, <3>1 DEF RequestType
  <2>. QED
    BY <2>2, <2>3
<1>3. StackIsSound' /\ DecodersAreOwned'
  <2>1. \A s \in Requests : Held(s)' => s # r /\ Held(s)
    BY <1>1 DEF Held, stackVars
  <2>. QED
    BY <1>1, <1>2, <2>1 DEF StackIsSound, DecodersAreOwned, Walking, Calling, Orders, stackVars
<1>4. \A s \in Members(waiting) \union Members(decoding) : s \in Requests \ {r}
  BY <1>1, ListedHaveParams
<1>5. CASE IsCached(params)
  <2>1. UNCHANGED <<waiting, hasProcessTask, queue, abandoned>>
    BY <1>5 DEF GetImage
  <2>2. TypeOK'
    BY <1>1, <1>2, <2>1 DEF TypeOK, RequestType, stackVars
  <2>3. ListedOnce' /\ ListedRequests' /\ RequestsAreSound'
    BY <1>1, <1>2, <1>4, <2>1
       DEF ListedOnce, ListedRequests, RequestsAreSound, HasDecoder, Held, stackVars
  <2>4. QueueIsSound' /\ WaitingIsAttended'
    BY <1>1, <2>1 DEF QueueIsSound, WaitingIsAttended, stackVars
  <2>. QED
    BY <1>3, <2>2, <2>3, <2>4
<1>6. CASE ~IsCached(params)
  <2>1. /\ request'[r].status = "live" /\ waiting' = Append(waiting, r)
        /\ TriggerProcess
    BY <1>6 DEF GetImage, TypeOK
  <2>2. /\ waiting' \in Seq(Requests) /\ IsInjective(waiting')
        /\ Members(waiting') = Members(waiting) \union {r}
    BY <1>1, <2>1, AppendFacts DEF TypeOK, ListedOnce
  <2>3. /\ queue' \in Seq(CacheTasks) /\ hasProcessTask' = TRUE /\ QueueIsSound'
        /\ abandoned' = FALSE
    <3>1. queue \in Seq(CacheTasks)
      BY DEF TypeOK
    <3>2. CASE hasProcessTask
      BY <2>1, <3>1, <3>2 DEF TriggerProcess, QueueIsSound
    <3>3. CASE ~hasProcessTask
      BY <2>1, <3>1, <3>3, PutKeepsSound, TasksOfTheCache DEF TriggerProcess, QueueIsSound
    <3>. QED
      BY <3>2, <3>3
  <2>4. TypeOK'
    BY <1>1, <1>2, <2>2, <2>3 DEF TypeOK, RequestType, stackVars
  <2>5. ListedOnce'
    BY <1>1, <1>4, <2>2 DEF ListedOnce
  <2>6. ListedRequests' /\ RequestsAreSound'
    BY <1>1, <1>2, <1>4, <2>1, <2>2 DEF ListedRequests, RequestsAreSound, HasDecoder, Held, stackVars
  <2>7. WaitingIsAttended'
    BY <2>3 DEF WaitingIsAttended, QueueIsSound
  <2>. QED
    BY <1>3, <2>3, <2>4, <2>5, <2>6, <2>7
<1>. QED
  BY <1>5, <1>6

\* What counts is bounded.
LEMMA CountFacts == ASSUME CInv, CountCall PROVE calls' \in 0..MaxCalls
BY CacheAssumption DEF CInv, TypeOK, CountCall

\* New parameters are those of the decoder too, if there is one.
LEMMA NewParamsPreserves ==
    ASSUME CInv, NEW r \in Requests, NEW params \in Params, NewParams(r, params)
    PROVE  CInv'
<1>. USE DEF CInv
<1>1. /\ request[r].status = "live" /\ calls' \in 0..MaxCalls
      /\ request' = [request EXCEPT ![r].params = params]
      /\ UNCHANGED <<listVars, queue, stackVars, abandoned>>
      /\ told' \subseteq Requests /\ upsets' \subseteq Upsets
  BY CountFacts DEF NewParams, TypeOK, Upsets
<1>2. /\ request' \in [Requests -> RequestType] /\ request'[r].params = params
      /\ \A s \in Requests : /\ request'[s].decoder = request[s].decoder
                             /\ request'[s].status = request[s].status
      /\ \A s \in Requests \ {r} : request'[s] = request[s]
  BY <1>1 DEF TypeOK, RequestType
<1>3. decoders' \in [Requests -> D!Decoder] /\ DecodersAreOwned'
  <2>. DEFINE d == request[r].decoder  order == [request |-> r, params |-> params]
              t == D!SetDecodeParams(decoders[d], order, Fine)
  <2>1. d \in Requests \union {Nobody}
    BY DEF TypeOK
  <2>2. CASE d = Nobody
    <3>1. decoders' = decoders
      BY <2>2, Ids DEF NewParams, TypeOK
    <3>. QED
      BY <1>2, <3>1 DEF TypeOK, DecodersAreOwned, Orders
  <2>3. CASE d \in Requests
    <3>1. decoders[d] \in D!Decoder /\ order \in Orders /\ order.request = r
      BY <2>3 DEF TypeOK, Orders
    <3>2. t \in D!Decoder /\ t.order = order
      BY <3>1, DecoderFacts
    <3>3. decoders' = [decoders EXCEPT ![d] = t]
      BY <2>3 DEF NewParams, TypeOK
    <3>4. request'[r].decoder = d
      BY <1>2
    <3>5. \A e \in Requests : request[r].decoder = e => e = d
      OBVIOUS
    <3>6. t.order \in Orders /\ t.order.request = r
      BY <3>1, <3>2
    <3>7. \A s \in Requests : s # r /\ request[s].decoder # d => request'[s].decoder = request[s].decoder
      BY <1>2
    <3>8. t \in D!Decoder
      BY <3>2
    <3>. HIDE DEF CInv, d, t, order
    <3>. QED
      BY <2>3, <3>3, <3>4, <3>5, <3>6, <3>7, <3>8, OrderKeepsOwners
  <2>. QED
    BY <2>1, <2>2, <2>3
<1>4. TypeOK'
  BY <1>1, <1>2, <1>3 DEF TypeOK, RequestType, Upsets, listVars, stackVars
<1>5. ListedOnce' /\ ListedRequests' /\ RequestsAreSound' /\ StackIsSound'
  <2>1. Members(waiting) \union Members(decoding) \subseteq Requests
    BY DEF TypeOK, Members
  <2>. QED
    BY <1>1, <1>2, <2>1 DEF ListedOnce, ListedRequests, RequestsAreSound, StackIsSound, HasDecoder,
       Held, Walking, Calling, listVars, stackVars
<1>6. QueueIsSound' /\ WaitingIsAttended'
  BY <1>1 DEF QueueIsSound, WaitingIsAttended, listVars, stackVars
<1>. QED
  BY <1>3, <1>4, <1>5, <1>6

\* A decoder whose device is lost decodes on for nobody.
LEMMA LoseDevicePreserves ==
    ASSUME CInv, NEW r \in Requests, LoseDevice(r)
    PROVE  CInv'
<1>. USE DEF CInv
<1>. DEFINE d == request[r].decoder  t == D!SuspendAnimation(decoders[d])
<1>1. /\ d \in Requests /\ calls' \in 0..MaxCalls
      /\ decoders' = [decoders EXCEPT ![d] = t]
      /\ upsets' \subseteq Upsets
      /\ UNCHANGED <<listVars, queue, request, stackVars, told, abandoned>>
  BY CountFacts DEF LoseDevice, HasDecoder, TypeOK, Upsets
<1>2. t \in D!Decoder /\ ~t.needsPresent /\ t.job = decoders[d].job /\ t.order = decoders[d].order
  <2>1. decoders[d] \in D!Decoder
    BY <1>1 DEF TypeOK
  <2>. QED
    BY <2>1, DecoderFacts
<1>3. decoders' \in [Requests -> D!Decoder] /\ DecodersAreOwned'
  <2>1. \A s \in Requests : request'[s].decoder = request[s].decoder
    BY <1>1
  <2>. HIDE DEF CInv, d, t
  <2>. QED
    BY <1>1, <1>2, <2>1, SilenceKeepsOwners
<1>4. TypeOK'
  BY <1>1, <1>3 DEF TypeOK, Upsets, listVars, stackVars
<1>5. ListedOnce' /\ ListedRequests' /\ RequestsAreSound' /\ StackIsSound' /\ QueueIsSound'
      /\ WaitingIsAttended'
  BY <1>1 DEF ListedOnce, ListedRequests, RequestsAreSound, StackIsSound, HasDecoder, Held, Walking,
              Calling, QueueIsSound, WaitingIsAttended, listVars, stackVars
<1>. QED
  BY <1>3, <1>4, <1>5

\* A request that is let go of is destroyed, and in no list, unless a loop holds it.
LEMMA ReleasePreserves ==
    ASSUME CInv, NEW r \in Requests, NEW disconnecting \in BOOLEAN, Release(r, disconnecting)
    PROVE  CInv'
<1>1. /\ MayCall /\ request[r].status = "live"
      /\ UNCHANGED <<cacheState, surfaces, hasProcessTask, queue, stackVars, historyVars>>
  BY DEF Release
<1>2. calls' \in 0..MaxCalls
  BY CountFacts DEF Release, CInv, TypeOK
<1>3. \A s \in Requests : Held(s)' <=> Held(s)
  BY <1>1 DEF Held, stackVars
<1>4. CASE Held(r)
  <2>. DEFINE status == IF disconnecting THEN "disconnected" ELSE "dropped"
  <2>1. OnDecoderDetached(r, status) /\ UNCHANGED <<waiting, decoding>>
    BY <1>4 DEF Release
  <2>2. status \in {"dropped", "disconnected"}
    OBVIOUS
  <2>. HIDE DEF status
  <2>3. /\ request' \in [Requests -> RequestType] /\ decoders' \in [Requests -> D!Decoder]
        /\ request'[r].status = status
        /\ \A s \in Requests \ {r} : request'[s].status = request[s].status
        /\ RequestsAreSound' /\ DecodersAreOwned'
    BY <1>1, <2>1, <2>2, DetachKeepsSound
  <2>. USE DEF CInv
  <2>4. TypeOK'
    BY <1>1, <1>2, <2>1, <2>3 DEF TypeOK, RequestType, stackVars, historyVars
  <2>5. ListedOnce'
    BY <2>1 DEF ListedOnce
  <2>6. ListedRequests'
    <3>1. \A s \in Members(waiting) \union Members(decoding) : s \in Requests
      BY DEF TypeOK, Members
    <3>. QED
      BY <1>3, <1>4, <2>1, <2>2, <2>3, <3>1 DEF ListedRequests
  <2>7. StackIsSound'
    BY <1>1, <1>3, <2>1, <2>2, <2>3 DEF StackIsSound, Walking, Calling, stackVars
  <2>8. QueueIsSound' /\ WaitingIsAttended'
    BY <1>1, <2>1 DEF QueueIsSound, WaitingIsAttended, stackVars, historyVars
  <2>. QED
    BY <2>3, <2>4, <2>5, <2>6, <2>7, <2>8
<1>5. CASE ~Held(r)
  <2>1. Destroy(r)
    BY <1>5 DEF Release
  <2>2. /\ request' \in [Requests -> RequestType] /\ decoders' \in [Requests -> D!Decoder]
        /\ waiting' \in Seq(Requests) /\ decoding' \in Seq(Requests)
        /\ ListedOnce' /\ RequestsAreSound' /\ DecodersAreOwned'
        /\ \A s \in Requests \ {r} : request'[s].status = request[s].status
        /\ \A s \in Members(waiting') \union Members(decoding') :
             s \in Requests \ {r} /\ s \in Members(waiting) \union Members(decoding)
        /\ Members(decoding') = Members(decoding) \ {r}
        /\ waiting = <<>> => waiting' = <<>>
    BY <1>1, <2>1, DestroyKeepsSound
  <2>. USE DEF CInv
  <2>3. TypeOK'
    BY <1>1, <1>2, <2>2 DEF TypeOK, RequestType, stackVars, historyVars
  <2>4. ListedRequests'
    BY <1>3, <2>2 DEF ListedRequests
  <2>5. StackIsSound'
    <3>1. walk.at # Nobody => walk.at # r
      <4>1. walk.at # Nobody => Calling /\ called = walk.at
        BY <1>1 DEF StackIsSound, MayCall, Idle
      <4>. QED
        BY <1>5, <4>1 DEF Held
    <3>. QED
      BY <1>1, <1>3, <1>5, <2>2, <3>1 DEF StackIsSound, Walking, Calling, stackVars
  <2>6. QueueIsSound' /\ WaitingIsAttended'
    BY <1>1, <2>2 DEF QueueIsSound, WaitingIsAttended, stackVars, historyVars
  <2>. QED
    BY <2>2, <2>3, <2>4, <2>5, <2>6
<1>. QED
  BY <1>4, <1>5

\* The parts that only the requests, their lists, their decoders and the loops have a say in.
LEMMA OtherPartsKept ==
    ASSUME CInv, UNCHANGED <<waiting, decoding, request, decoders, walk, called>>
    PROVE  /\ ListedOnce' /\ ListedRequests' /\ RequestsAreSound' /\ StackIsSound'
           /\ DecodersAreOwned'
BY DEF CInv, ListedOnce, ListedRequests, RequestsAreSound, StackIsSound, HasDecoder, Held, Walking,
       Calling, DecodersAreOwned, Orders

\* A surface is forgotten.
LEMMA OnCacheInvalidatedPreserves ==
    ASSUME CInv, NEW i \in DOMAIN surfaces, OnCacheInvalidated(i)
    PROVE  CInv'
<1>. USE DEF CInv
<1>1. surfaces' \in Seq([params : Params, made : Params])
  <2>1. surfaces \in Seq([params : Params, made : Params]) /\ i \in 1..Len(surfaces)
    BY DEF TypeOK
  <2>. QED
    BY <2>1, RemoveAtFacts DEF OnCacheInvalidated
<1>2. calls' \in 0..MaxCalls
      /\ UNCHANGED <<cacheState, waiting, decoding, hasProcessTask, queue, request, decoders,
                     stackVars, historyVars>>
  BY CountFacts DEF OnCacheInvalidated
<1>3. TypeOK'
  BY <1>1, <1>2 DEF TypeOK, stackVars, historyVars
<1>4. ListedOnce' /\ ListedRequests' /\ RequestsAreSound' /\ StackIsSound' /\ DecodersAreOwned'
  BY <1>2, OtherPartsKept DEF stackVars
<1>5. QueueIsSound' /\ WaitingIsAttended'
  BY <1>2 DEF QueueIsSound, WaitingIsAttended, stackVars, historyVars
<1>. QED
  BY <1>3, <1>4, <1>5

\* The answer of the network joins the queue.
LEMMA DownloadRespondsPreserves ==
    ASSUME CInv, DownloadResponds
    PROVE  CInv'
<1>. USE DEF CInv
<1>1. PICK ok \in BOOLEAN : queue' = TQ!Put(queue, DownloadTask(ok))
  BY DEF DownloadResponds
<1>2. UNCHANGED <<listVars, request, decoders, stackVars, historyVars, calls>>
  BY DEF DownloadResponds
<1>3. queue' \in Seq(CacheTasks) /\ QueueIsSound'
  <2>1. queue \in Seq(CacheTasks)
    BY DEF TypeOK
  <2>. QED
    BY <1>1, <1>2, <2>1, PutKeepsSound, TasksOfTheCache DEF QueueIsSound, listVars
<1>4. TypeOK'
  BY <1>2, <1>3 DEF TypeOK, listVars, stackVars, historyVars
<1>5. ListedOnce' /\ ListedRequests' /\ RequestsAreSound' /\ StackIsSound' /\ DecodersAreOwned'
  BY <1>2, OtherPartsKept DEF listVars, stackVars
<1>6. WaitingIsAttended'
  BY <1>2, <1>3 DEF WaitingIsAttended, QueueIsSound, listVars, stackVars, historyVars
<1>. QED
  BY <1>3, <1>4, <1>5, <1>6

\* A decoder that has decoded decodes no more, and answers for the parameters it decoded for.
LEMMA WorkItemPreserves ==
    ASSUME CInv, NEW d \in Requests, WorkItem(d)
    PROVE  CInv'
<1>. USE DEF CInv
<1>1. PICK ok \in BOOLEAN :
        LET o == [Fine EXCEPT !.decodes = ok]
            response == D!Response(decoders[d], D!Decoded(decoders[d]), o)
        IN  /\ decoders' = [decoders EXCEPT ![d] = D!OnDecodeCurrentFrame(@, o)]
            /\ queue' = IF D!DecodePresents(decoders[d])
                        THEN TQ!Put(queue, Task("decoded", response.order.request,
                                                response.made.params, ok))
                        ELSE queue
  BY DEF WorkItem
<1>2. decoders[d].job /\ UNCHANGED <<listVars, request, stackVars, historyVars, calls>>
  BY DEF WorkItem
<1>3. decoders[d] \in D!Decoder /\ decoders[d].order \in Orders
  BY <1>2 DEF TypeOK, DecodersAreOwned
<1>4. decoders' \in [Requests -> D!Decoder] /\ DecodersAreOwned'
  <2>. DEFINE t == D!OnDecodeCurrentFrame(decoders[d], [Fine EXCEPT !.decodes = ok])
  <2>1. t \in D!Decoder /\ ~t.job
    BY <1>2, <1>3, DecoderFacts
  <2>2. decoders' = [decoders EXCEPT ![d] = t]
    BY <1>1
  <2>3. \A s \in Requests : request'[s].decoder = request[s].decoder
    BY <1>2
  <2>. HIDE DEF CInv, t
  <2>. QED
    BY <2>1, <2>2, <2>3, SilenceKeepsOwners
<1>5. queue' \in Seq(CacheTasks) /\ QueueIsSound'
  <2>. DEFINE task == Task("decoded", decoders[d].order.request, decoders[d].order.params, ok)
  <2>1. queue' = TQ!Put(queue, task) \/ queue' = queue
    BY <1>1 DEF D!Response, D!Decoded
  <2>2. task \in CacheTasks /\ task.kind = "decoded" /\ task.made \in Params
    <3>1. decoders[d].order.request \in Requests /\ decoders[d].order.params \in Params
      BY <1>3 DEF Orders
    <3>. QED
      BY <3>1, TasksOfTheCache
  <2>3. queue \in Seq(CacheTasks)
    BY DEF TypeOK
  <2>. HIDE DEF task
  <2>4. CASE queue' = TQ!Put(queue, task)
    BY <1>2, <2>2, <2>3, <2>4, PutKeepsSound DEF QueueIsSound, listVars
  <2>. QED
    BY <1>2, <2>1, <2>3, <2>4 DEF QueueIsSound, listVars
<1>6. TypeOK'
  BY <1>2, <1>4, <1>5 DEF TypeOK, listVars, stackVars, historyVars
<1>7. ListedOnce' /\ ListedRequests' /\ RequestsAreSound' /\ StackIsSound'
  BY <1>2 DEF ListedOnce, ListedRequests, RequestsAreSound, StackIsSound, HasDecoder, Held, Walking,
              Calling, listVars, stackVars
<1>8. WaitingIsAttended'
  BY <1>2, <1>5 DEF WaitingIsAttended, QueueIsSound, listVars, stackVars, historyVars
<1>. QED
  BY <1>4, <1>5, <1>6, <1>7, <1>8

\* The task that processes requests has been taken: it loops, or downloads first, or has put
\* itself back.
LEMMA ProcessDecodeRequestsPreserves ==
    ASSUME CInv, ProcessDecodeRequests
    PROVE  CInv'
<1>. USE DEF CInv
<1>1. /\ queue # <<>>
      /\ processing' = (cacheState \in {"Downloaded", "DownloadFailed"})
      /\ UNCHANGED <<waiting, decoding, surfaces, request, decoders, walk, called, historyVars, calls>>
  BY DEF ProcessDecodeRequests, NextTask
<1>2. /\ Tail(queue) \in Seq(CacheTasks) /\ Members(Tail(queue)) \subseteq Members(queue)
      /\ \A i \in DOMAIN Tail(queue) :
            Tail(queue)[i].kind = "decoded" => Tail(queue)[i].made \in Params
  BY <1>1, TailKeepsSound
<1>3. /\ cacheState' \in {"NotDownloaded", "Downloading", "DownloadFailed", "Downloaded"}
      /\ hasProcessTask' \in BOOLEAN /\ queue' \in Seq(CacheTasks) /\ QueueIsSound'
      /\ hasProcessTask' \/ cacheState' = "Downloading" \/ processing'
  <2>1. CASE cacheState = "NotDownloaded" /\ cacheState' = "Downloading"
             /\ hasProcessTask' = FALSE /\ queue' = Tail(queue)
    BY <1>2, <2>1 DEF QueueIsSound
  <2>2. CASE cacheState = "NotDownloaded" /\ cacheState' = "DownloadFailed"
             /\ hasProcessTask' = TRUE /\ queue' = TQ!Put(Tail(queue), ProcessTask)
    BY <1>2, <2>2, PutKeepsSound, TasksOfTheCache DEF QueueIsSound
  <2>3. CASE cacheState # "NotDownloaded" /\ cacheState' = cacheState
             /\ hasProcessTask' = FALSE /\ queue' = Tail(queue)
    BY <1>1, <1>2, <2>3 DEF QueueIsSound, TypeOK
  <2>. QED
    BY <2>1, <2>2, <2>3 DEF ProcessDecodeRequests
<1>4. TypeOK'
  <2>1. processing' \in BOOLEAN
    BY <1>1
  <2>. QED
    BY <1>1, <1>3, <2>1 DEF TypeOK, historyVars
<1>5. ListedOnce' /\ ListedRequests' /\ RequestsAreSound' /\ StackIsSound' /\ DecodersAreOwned'
  BY <1>1, OtherPartsKept
<1>6. WaitingIsAttended'
  BY <1>3 DEF WaitingIsAttended, QueueIsSound
<1>. QED
  BY <1>3, <1>4, <1>5, <1>6

\* The answer of the network has been taken, and the requests will be processed.
LEMMA GotDownloadResponsePreserves ==
    ASSUME CInv, GotDownloadResponse
    PROVE  CInv'
<1>. USE DEF CInv
<1>1. /\ queue # <<>> /\ Head(queue).kind = "download" /\ hasProcessTask' = TRUE
      /\ cacheState' \in {"DownloadFailed", "Downloaded"} /\ abandoned' = FALSE
      /\ queue' = IF hasProcessTask THEN Tail(queue) ELSE TQ!Put(Tail(queue), ProcessTask)
      /\ UNCHANGED <<waiting, decoding, surfaces, request, decoders, stackVars, told, calls, upsets>>
  BY DEF GotDownloadResponse, NextTask
<1>2. /\ Tail(queue) \in Seq(CacheTasks) /\ Members(Tail(queue)) \subseteq Members(queue)
      /\ \A i \in DOMAIN Tail(queue) :
            Tail(queue)[i].kind = "decoded" => Tail(queue)[i].made \in Params
      /\ hasProcessTask => ProcessTask \in Members(Tail(queue))
  BY <1>1, TailKeepsSound
<1>3. queue' \in Seq(CacheTasks) /\ QueueIsSound'
  <2>1. CASE hasProcessTask
    BY <1>1, <1>2, <2>1 DEF QueueIsSound
  <2>2. CASE ~hasProcessTask
    BY <1>1, <1>2, <2>2, PutKeepsSound, TasksOfTheCache DEF QueueIsSound
  <2>. QED
    BY <2>1, <2>2
<1>4. TypeOK'
  BY <1>1, <1>3 DEF TypeOK, stackVars
<1>5. ListedOnce' /\ ListedRequests' /\ RequestsAreSound' /\ StackIsSound' /\ DecodersAreOwned'
  BY <1>1, OtherPartsKept DEF stackVars
<1>6. WaitingIsAttended'
  BY <1>1, <1>3 DEF WaitingIsAttended, QueueIsSound
<1>. QED
  BY <1>3, <1>4, <1>5, <1>6

\* A walk starts at the first of a list that has the request it is for.
LEMMA StartFacts ==
    ASSUME NEW id, NEW made, NEW ok, NEW list \in Seq(Requests), StartWalk(id, made, ok, list),
           id \in Members(list)
    PROVE  /\ walk' = [completed |-> id, made |-> made, ok |-> ok, at |-> Head(list), failed |-> FALSE]
           /\ id \in Requests /\ Head(list) \in Requests /\ Head(list) \in Members(list)
<1>1. list # <<>> /\ id \in Requests
  BY DEF Members
<1>2. Head(list) \in Requests /\ Head(list) \in Members(list)
  BY <1>1, TailFacts
<1>. QED
  BY <1>1, <1>2 DEF StartWalk

\* The loop starts at the head of the list, if the request is in it.
LEMMA HandleDecodeResponsePreserves ==
    ASSUME CInv, HandleDecodeResponse
    PROVE  CInv'
<1>. USE DEF CInv
<1>. DEFINE task == Head(queue)
<1>1. /\ walk.completed = Nobody /\ called = Nobody
      /\ queue # <<>> /\ task.kind = "decoded" /\ queue' = Tail(queue)
      /\ StartWalk(task.request, task.made, task.ok, decoding)
      /\ UNCHANGED <<listVars, request, decoders, processing, called, historyVars, calls>>
  BY DEF HandleDecodeResponse, NextTask, Idle, Walking, Calling
<1>2. /\ queue' \in Seq(CacheTasks) /\ QueueIsSound'
      /\ task \in CacheTasks /\ task.made \in Params
  <2>1. /\ Tail(queue) \in Seq(CacheTasks) /\ task \in CacheTasks /\ task.made \in Params
        /\ \A i \in DOMAIN Tail(queue) :
              Tail(queue)[i].kind = "decoded" => Tail(queue)[i].made \in Params
        /\ hasProcessTask => ProcessTask \in Members(Tail(queue))
    BY <1>1, TailKeepsSound
  <2>. QED
    BY <1>1, <2>1 DEF QueueIsSound, listVars
<1>. HIDE DEF task
<1>3. \A s \in Members(waiting) \union Members(decoding) :
            s \in Requests /\ request[s].status = "live"
  BY <1>1, ListedHaveParams, Ids DEF ListedRequests, Held
<1>4. walk' \in WalkType /\ StackIsSound'
  <2>1. CASE task.request \in Members(decoding)
    <3>1. /\ walk' = [completed |-> task.request, made |-> task.made, ok |-> task.ok,
                      at |-> Head(decoding), failed |-> FALSE]
          /\ task.request \in Requests /\ Head(decoding) \in Requests
          /\ Head(decoding) \in Members(decoding)
      BY <1>1, <2>1, StartFacts DEF TypeOK
    <3>2. walk' \in WalkType
      BY <1>2, <3>1 DEF WalkType, CacheTasks
    <3>. QED
      BY <1>1, <1>2, <1>3, <2>1, <3>1, <3>2, Ids
         DEF StackIsSound, Held, Walking, Calling, listVars
  <2>2. CASE task.request \notin Members(decoding)
    <3>1. walk' = NotWalking
      BY <1>1, <2>2 DEF StartWalk
    <3>. QED
      BY <1>1, <3>1, Ids DEF StackIsSound, Held, Walking, Calling, NotWalking, WalkType
  <2>. QED
    BY <2>1, <2>2
<1>5. TypeOK'
  BY <1>1, <1>2, <1>4 DEF TypeOK, WalkType, listVars, historyVars
<1>6. ListedOnce' /\ ListedRequests' /\ RequestsAreSound'
  BY <1>1, <1>3 DEF ListedOnce, ListedRequests, RequestsAreSound, HasDecoder, listVars
<1>7. DecodersAreOwned'
  BY <1>1 DEF DecodersAreOwned, Orders
<1>8. WaitingIsAttended'
  BY <1>1, <1>2 DEF WaitingIsAttended, QueueIsSound, listVars, historyVars
<1>. QED
  BY <1>2, <1>4, <1>5, <1>6, <1>7, <1>8

\* The loop of ProcessDecodeRequests ends when nothing waits.
LEMMA ProcessEndPreserves ==
    ASSUME CInv, ProcessEnd
    PROVE  CInv'
<1>. USE DEF CInv
<1>1. waiting = <<>> /\ processing' = FALSE
      /\ UNCHANGED <<listVars, queue, request, decoders, walk, called, historyVars, calls>>
  BY DEF ProcessEnd
<1>2. TypeOK'
  BY <1>1 DEF TypeOK, listVars, historyVars
<1>3. ListedOnce' /\ ListedRequests' /\ RequestsAreSound' /\ StackIsSound' /\ DecodersAreOwned'
  BY <1>1, OtherPartsKept DEF listVars
<1>4. QueueIsSound' /\ WaitingIsAttended'
  BY <1>1 DEF QueueIsSound, WaitingIsAttended, listVars
<1>. QED
  BY <1>2, <1>3, <1>4

\* The request that is taken from the back has waited: it is live, in no other list and has
\* no decoder, and no loop holds any.
LEMMA TakeLastFacts ==
    ASSUME CInv, NEW r \in Requests, TakeLast(r)
    PROVE  /\ waiting' \in Seq(Requests) /\ IsInjective(waiting')
           /\ Members(waiting') \subseteq Members(waiting) /\ r \notin Members(waiting')
           /\ r \notin Members(decoding)
           /\ request[r].status = "live" /\ request[r].params \in Params
           /\ request[r].decoder = Nobody
           /\ walk.completed = Nobody /\ walk.at = Nobody /\ called = Nobody /\ processing
           /\ \A s \in Members(waiting') \union Members(decoding) :
                s \in Requests /\ request[s].status = "live"
           /\ UNCHANGED <<cacheState, surfaces, hasProcessTask, queue>>
<1>. USE DEF CInv
<1>1. /\ walk.completed = Nobody /\ called = Nobody /\ processing
      /\ waiting # <<>> /\ r = waiting[Len(waiting)]
      /\ waiting' = SubSeq(waiting, 1, Len(waiting) - 1)
      /\ UNCHANGED <<cacheState, surfaces, hasProcessTask, queue>>
  BY DEF TakeLast, Processing, Walking, Calling
<1>2. /\ waiting' \in Seq(Requests) /\ IsInjective(waiting')
      /\ Members(waiting) = Members(waiting') \union {r} /\ r \notin Members(waiting')
  BY <1>1, LastFacts DEF TypeOK, ListedOnce
<1>3. r \notin Members(decoding)
  BY <1>2 DEF ListedOnce
<1>4. \A s \in Members(waiting) \union Members(decoding) :
            s \in Requests /\ request[s].status = "live"
  BY <1>1, ListedHaveParams, Ids DEF ListedRequests, Held
<1>5. request[r].params \in Params /\ request[r].decoder = Nobody
  BY <1>2, <1>4 DEF RequestsAreSound, HasDecoder
<1>6. walk.at = Nobody
  BY <1>1 DEF StackIsSound, Walking
<1>. QED
  BY <1>1, <1>2, <1>3, <1>4, <1>5, <1>6

\* A request that is answered leaves the list, and is held while its callback is called.
LEMMA AnswerPreserves ==
    ASSUME CInv, NEW r \in Requests, Answer(r)
    PROVE  CInv'
<1>. USE DEF CInv
<1>1. TakeLast(r) /\ told' \subseteq Requests /\ called' = r
      /\ UNCHANGED <<decoding, request, decoders, processing, walk, abandoned, upsets, calls>>
  BY DEF Answer, TypeOK
<1>2. /\ waiting' \in Seq(Requests) /\ IsInjective(waiting')
      /\ Members(waiting') \subseteq Members(waiting)
      /\ request[r].status = "live"
      /\ walk.completed = Nobody /\ walk.at = Nobody /\ processing
      /\ \A s \in Members(waiting') \union Members(decoding) :
            s \in Requests /\ request[s].status = "live"
      /\ UNCHANGED <<cacheState, surfaces, hasProcessTask, queue>>
  BY <1>1, TakeLastFacts
<1>3. TypeOK'
  BY <1>1, <1>2 DEF TypeOK
<1>4. ListedOnce' /\ ListedRequests' /\ RequestsAreSound'
  BY <1>1, <1>2 DEF ListedOnce, ListedRequests, RequestsAreSound, HasDecoder
<1>5. StackIsSound' /\ DecodersAreOwned'
  BY <1>1, <1>2, Ids DEF StackIsSound, Held, Walking, Calling, DecodersAreOwned, Orders
<1>6. QueueIsSound' /\ WaitingIsAttended'
  BY <1>1, <1>2 DEF QueueIsSound, WaitingIsAttended
<1>. QED
  BY <1>3, <1>4, <1>5, <1>6

\* The lists when the request that is taken from one joins the other.
LEMMA MovedFacts ==
    ASSUME CInv, NEW r \in Requests, TakeLast(r), decoding' = Append(decoding, r)
    PROVE  /\ decoding' \in Seq(Requests) /\ ListedOnce'
           /\ Members(decoding') = Members(decoding) \union {r}
<1>. USE DEF CInv
<1>1. /\ IsInjective(waiting') /\ Members(waiting') \subseteq Members(waiting)
      /\ r \notin Members(waiting') /\ r \notin Members(decoding)
  BY TakeLastFacts
<1>2. /\ decoding' \in Seq(Requests) /\ IsInjective(decoding')
      /\ Members(decoding') = Members(decoding) \union {r}
  BY <1>1, AppendFacts DEF TypeOK, ListedOnce
<1>. QED
  BY <1>1, <1>2 DEF ListedOnce

\* A request that waits for the decode of another is listed with it.
LEMMA JoinPreserves ==
    ASSUME CInv, NEW r \in Requests, Join(r)
    PROVE  CInv'
<1>. USE DEF CInv
<1>1. TakeLast(r) /\ decoding' = Append(decoding, r)
      /\ UNCHANGED <<request, decoders, stackVars, historyVars, calls>>
  BY DEF Join
<1>2. /\ waiting' \in Seq(Requests) /\ Members(waiting') \subseteq Members(waiting)
      /\ request[r].status = "live" /\ walk.completed = Nobody /\ walk.at = Nobody
      /\ called = Nobody /\ processing
      /\ \A s \in Members(waiting') \union Members(decoding) :
            s \in Requests /\ request[s].status = "live"
      /\ UNCHANGED <<cacheState, surfaces, hasProcessTask, queue>>
  BY <1>1, TakeLastFacts
<1>3. /\ decoding' \in Seq(Requests) /\ ListedOnce'
      /\ Members(decoding') = Members(decoding) \union {r}
  BY <1>1, MovedFacts
<1>4. TypeOK'
  BY <1>1, <1>2, <1>3 DEF TypeOK, stackVars, historyVars
<1>5. ListedRequests' /\ RequestsAreSound'
  BY <1>1, <1>2, <1>3 DEF ListedRequests, RequestsAreSound, HasDecoder
<1>6. StackIsSound' /\ DecodersAreOwned'
  BY <1>1, <1>2, <1>3, Ids
     DEF StackIsSound, Held, Walking, Calling, DecodersAreOwned, Orders, stackVars
<1>7. QueueIsSound' /\ WaitingIsAttended'
  BY <1>1, <1>2 DEF QueueIsSound, WaitingIsAttended, stackVars
<1>. QED
  BY <1>3, <1>4, <1>5, <1>6, <1>7

\* An error abandons those that wait only if no task is queued that will see to them.
LEMMA StopAttends ==
    ASSUME CInv, StopProcessing, waiting = <<>> => waiting' = <<>>,
           UNCHANGED <<cacheState, hasProcessTask, queue>>
    PROVE  processing' \in BOOLEAN /\ abandoned' \in BOOLEAN /\ QueueIsSound' /\ WaitingIsAttended'
<1>1. processing' = FALSE /\ abandoned' = (abandoned \/ (processing /\ ~hasProcessTask))
  BY DEF StopProcessing
<1>2. abandoned' \in BOOLEAN
  BY <1>1
<1>3. QueueIsSound'
  BY DEF CInv, QueueIsSound
<1>4. ASSUME waiting # <<>>, ~abandoned, ~(processing /\ ~hasProcessTask)
      PROVE  (hasProcessTask /\ ProcessTask \in Members(queue)) \/ cacheState = "Downloading"
  BY <1>4 DEF CInv, WaitingIsAttended, QueueIsSound
<1>. QED
  BY <1>1, <1>2, <1>3, <1>4 DEF WaitingIsAttended

\* A request that is taken gets a decoder, or the failure is handled as its response, or
\* CreateDecoder has failed.
LEMMA BeginDecodePreserves ==
    ASSUME CInv, NEW r \in Requests, BeginDecode(r)
    PROVE  CInv'
<1>. USE DEF CInv
<1>1. TakeLast(r) /\ decoding' = Append(decoding, r) /\ UNCHANGED told
  BY DEF BeginDecode
<1>2. /\ waiting' \in Seq(Requests)
      /\ Members(waiting') \subseteq Members(waiting) /\ r \notin Members(waiting')
      /\ request[r].status = "live" /\ request[r].params \in Params
      /\ request[r].decoder = Nobody
      /\ walk.completed = Nobody /\ walk.at = Nobody /\ called = Nobody /\ processing
      /\ \A s \in Members(waiting') \union Members(decoding) :
            s \in Requests /\ request[s].status = "live"
      /\ UNCHANGED <<cacheState, surfaces, hasProcessTask, queue>>
  BY <1>1, TakeLastFacts
<1>3. /\ decoding' \in Seq(Requests) /\ ListedOnce'
      /\ Members(decoding') = Members(decoding) \union {r}
  BY <1>1, MovedFacts
<1>4. \A s \in Members(waiting') \union Members(decoding') :
            s \in Requests /\ request[s].status = "live"
  BY <1>2, <1>3
<1>5. CASE /\ request' = [request EXCEPT ![r].decoder = r]
           /\ decoders' = [decoders EXCEPT ![r] = D!SetDecodeParams(@, Order(r), Fine)]
           /\ UNCHANGED <<stackVars, abandoned, upsets, calls>>
  <2>1. /\ request' \in [Requests -> RequestType]
        /\ request'[r].decoder = r /\ request'[r].status = request[r].status
        /\ request'[r].params = request[r].params
        /\ \A s \in Requests \ {r} : request'[s] = request[s]
    BY <1>5 DEF TypeOK, RequestType
  <2>2. decoders' \in [Requests -> D!Decoder] /\ DecodersAreOwned'
    <3>. DEFINE t == D!SetDecodeParams(decoders[r], Order(r), Fine)
    <3>1. Order(r) \in Orders /\ Order(r).request = r
      BY <1>2 DEF Order, Orders
    <3>2. t \in D!Decoder /\ t.order = Order(r)
      <4>1. decoders[r] \in D!Decoder
        BY DEF TypeOK
      <4>. QED
        BY <3>1, <4>1, DecoderFacts
    <3>3. t \in D!Decoder /\ t.order \in Orders /\ t.order.request = r
      BY <3>1, <3>2
    <3>4. decoders' = [decoders EXCEPT ![r] = t]
      BY <1>5
    <3>5. request'[r].decoder = r
      BY <2>1
    <3>6. \A e \in Requests : request[r].decoder = e => e = r
      BY <1>2, Ids
    <3>7. \A s \in Requests : s # r /\ request[s].decoder # r => request'[s].decoder = request[s].decoder
      BY <2>1
    <3>. HIDE DEF CInv, t
    <3>. QED
      BY <3>3, <3>4, <3>5, <3>6, <3>7, OrderKeepsOwners
  <2>3. TypeOK'
    BY <1>1, <1>2, <1>3, <1>5, <2>1, <2>2 DEF TypeOK, RequestType, stackVars
  <2>4. ListedRequests' /\ RequestsAreSound'
    BY <1>2, <1>3, <1>4, <2>1 DEF ListedRequests, RequestsAreSound, HasDecoder
  <2>5. StackIsSound'
    BY <1>2, <1>5, Ids DEF StackIsSound, Held, Walking, Calling, stackVars
  <2>6. QueueIsSound' /\ WaitingIsAttended'
    BY <1>2, <1>5 DEF QueueIsSound, WaitingIsAttended, stackVars
  <2>. QED
    BY <1>3, <2>2, <2>3, <2>4, <2>5, <2>6
<1>6. CASE /\ StartWalk(r, NoParams, FALSE, decoding')
           /\ UNCHANGED <<request, decoders, processing, called, abandoned, upsets, calls>>
  <2>1. /\ walk' = [completed |-> r, made |-> NoParams, ok |-> FALSE, at |-> Head(decoding'),
                    failed |-> FALSE]
        /\ Head(decoding') \in Requests /\ Head(decoding') \in Members(decoding')
    <3>. DEFINE list == decoding'
    <3>1. list \in Seq(Requests) /\ r \in Members(list) /\ StartWalk(r, NoParams, FALSE, list)
      BY <1>3, <1>6 DEF Members
    <3>. HIDE DEF list
    <3>2. /\ walk' = [completed |-> r, made |-> NoParams, ok |-> FALSE, at |-> Head(list),
                      failed |-> FALSE]
          /\ Head(list) \in Requests /\ Head(list) \in Members(list)
      BY <3>1, StartFacts
    <3>. QED
      BY <3>2 DEF list, Members
  <2>2. walk' \in WalkType
    BY <2>1 DEF WalkType
  <2>3. TypeOK'
    BY <1>1, <1>2, <1>3, <1>6, <2>2 DEF TypeOK, WalkType
  <2>4. ListedRequests' /\ RequestsAreSound'
    BY <1>2, <1>4, <1>6 DEF ListedRequests, RequestsAreSound, HasDecoder
  <2>5. StackIsSound'
    BY <1>2, <1>6, <2>1, Ids DEF StackIsSound, Held, Walking, Calling, Members
  <2>6. DecodersAreOwned'
    BY <1>6 DEF DecodersAreOwned, Orders
  <2>7. QueueIsSound' /\ WaitingIsAttended'
    BY <1>2, <1>6 DEF QueueIsSound, WaitingIsAttended
  <2>. QED
    BY <1>3, <2>3, <2>4, <2>5, <2>6, <2>7
<1>7. CASE /\ Fails("create") /\ StopProcessing
           /\ UNCHANGED <<request, decoders, walk, called>>
  <2>1. calls' \in 0..MaxCalls /\ upsets' \subseteq Upsets
    BY <1>7, CountFacts DEF Fails, TypeOK, Upsets
  <2>2. processing' \in BOOLEAN /\ abandoned' \in BOOLEAN /\ QueueIsSound' /\ WaitingIsAttended'
    <3>1. waiting # <<>>
      BY <1>1 DEF TakeLast
    <3>. HIDE DEF CInv
    <3>. QED
      BY <1>2, <1>7, <3>1, StopAttends
  <2>3. TypeOK'
    BY <1>1, <1>2, <1>3, <1>7, <2>1, <2>2 DEF TypeOK, Upsets
  <2>4. ListedRequests' /\ RequestsAreSound'
    BY <1>2, <1>4, <1>7 DEF ListedRequests, RequestsAreSound, HasDecoder
  <2>5. StackIsSound' /\ DecodersAreOwned'
    BY <1>2, <1>7, Ids DEF StackIsSound, Held, Walking, Calling, DecodersAreOwned, Orders
  <2>. QED
    BY <1>3, <2>2, <2>3, <2>4, <2>5
<1>. QED
  BY <1>5, <1>6, <1>7 DEF BeginDecode

\* The request the loop is at is called, and held meanwhile.
LEMMA NotifyPreserves ==
    ASSUME CInv, NEW r \in Requests, Notify(r)
    PROVE  CInv'
<1>. USE DEF CInv
<1>1. /\ Walking /\ called = Nobody /\ r = walk.at /\ called' = r /\ told' \subseteq Requests
      /\ request[r].status # "disconnected"
      /\ UNCHANGED <<listVars, queue, request, decoders, processing, walk, abandoned, upsets, calls>>
  BY DEF Notify, AtRequest, Calling, TypeOK
<1>2. r \in Members(decoding) /\ request[r].status \notin {"new", "gone"}
  BY <1>1, ListedHaveParams, Ids DEF StackIsSound
<1>3. TypeOK'
  BY <1>1 DEF TypeOK, listVars
<1>4. ListedOnce' /\ RequestsAreSound' /\ DecodersAreOwned'
  BY <1>1 DEF ListedOnce, RequestsAreSound, HasDecoder, DecodersAreOwned, Orders, listVars
<1>5. ListedRequests'
  <2>1. \A s \in Members(waiting) \union Members(decoding) : s \in Requests
    BY ListedHaveParams
  <2>. QED
    BY <1>1, <2>1, Ids DEF ListedRequests, Held, listVars
<1>6. StackIsSound'
  BY <1>1, <1>2, Ids DEF StackIsSound, Held, Walking, Calling, listVars
<1>7. QueueIsSound' /\ WaitingIsAttended'
  BY <1>1 DEF QueueIsSound, WaitingIsAttended, listVars
<1>. QED
  BY <1>3, <1>4, <1>5, <1>6, <1>7

\* The iterator leaves a request, which may leave the list.
LEMMA AdvanceFacts ==
    ASSUME CInv, NEW r \in Requests, Walking, Advance(r), waiting' = waiting
    PROVE  /\ walk' \in WalkType /\ walk'.completed = walk.completed /\ walk'.ok = walk.ok
           /\ walk'.made = walk.made
           /\ decoding' \in Seq(Requests) /\ ListedOnce'
           /\ Members(decoding') \subseteq Members(decoding)
           /\ walk'.at # Nobody => walk'.at \in Members(decoding')
<1>1. /\ After(r) \in Requests \union {Nobody}
      /\ After(r) # Nobody => After(r) \in Members(decoding) \ {r}
  BY AfterFacts
<1>2. walk \in WalkType
  BY DEF CInv, TypeOK, WalkType
<1>3. /\ walk' = [walk EXCEPT !.at = After(r)]
      /\ decoding' \in {decoding, RemoveFirst(decoding, r)}
  BY DEF Advance
<1>4. /\ walk' \in WalkType /\ walk'.completed = walk.completed /\ walk'.ok = walk.ok
      /\ walk'.made = walk.made /\ walk'.at = After(r)
  BY <1>1, <1>2, <1>3 DEF WalkType
<1>5. /\ decoding' \in Seq(Requests) /\ IsInjective(decoding')
      /\ Members(decoding') \subseteq Members(decoding)
      /\ Members(decoding) \ {r} \subseteq Members(decoding')
  <2>1. decoding \in Seq(Requests) /\ IsInjective(decoding)
    BY DEF CInv, TypeOK, ListedOnce
  <2>2. CASE decoding' = decoding
    BY <2>1, <2>2
  <2>3. CASE decoding' = RemoveFirst(decoding, r)
    BY <2>1, <2>3, RemoveFirstFacts
  <2>. QED
    BY <1>3, <2>2, <2>3
<1>6. ListedOnce'
  BY <1>5 DEF CInv, ListedOnce
<1>. QED
  BY <1>1, <1>4, <1>5, <1>6

\* A request that waits for something else is passed over, or was disconnected.
LEMMA SkipPreserves ==
    ASSUME CInv, NEW r \in Requests, Skip(r)
    PROVE  CInv'
<1>1. /\ Walking /\ called = Nobody /\ Advance(r)
      /\ UNCHANGED <<cacheState, waiting, surfaces, hasProcessTask, queue, request, decoders,
                     processing, called, historyVars, calls>>
  BY DEF Skip, AtRequest, Calling
<1>2. /\ walk' \in WalkType /\ walk'.completed = walk.completed /\ walk'.ok = walk.ok
      /\ walk'.made = walk.made
      /\ decoding' \in Seq(Requests) /\ ListedOnce'
      /\ Members(decoding') \subseteq Members(decoding)
      /\ walk'.at # Nobody => walk'.at \in Members(decoding')
  BY <1>1, AdvanceFacts
<1>. USE DEF CInv
<1>3. TypeOK'
  BY <1>1, <1>2 DEF TypeOK, WalkType, historyVars
<1>4. ListedRequests' /\ RequestsAreSound' /\ DecodersAreOwned'
  BY <1>1, <1>2 DEF ListedRequests, RequestsAreSound, Held, HasDecoder, DecodersAreOwned, Orders
<1>5. StackIsSound'
  BY <1>1, <1>2 DEF StackIsSound, Held, Walking, Calling
<1>6. QueueIsSound' /\ WaitingIsAttended'
  BY <1>1 DEF QueueIsSound, WaitingIsAttended, historyVars
<1>. QED
  BY <1>2, <1>3, <1>4, <1>5, <1>6

\* When a loop lets go of the request that was called, the one that completed is all it holds.
LEMMA LetGoKeepsSound ==
    ASSUME CInv, NEW r \in Requests, called = r, LetGo(r), called' = Nobody,
           walk'.completed = walk.completed
    PROVE  /\ request' \in [Requests -> RequestType] /\ decoders' \in [Requests -> D!Decoder]
           /\ waiting' \in Seq(Requests) /\ decoding' \in Seq(Requests)
           /\ ListedOnce' /\ ListedRequests' /\ RequestsAreSound' /\ DecodersAreOwned'
           /\ \A s \in Requests : Held(s)' => request'[s].status \notin {"new", "gone"}
           /\ Members(decoding) \ {r} \subseteq Members(decoding')
           /\ waiting = <<>> => waiting' = <<>>
<1>1. \A s \in Requests : Held(s)' <=> s = walk.completed
  BY Ids DEF Held
<1>2. \A s \in Requests : s = walk.completed => request[s].status \notin {"new", "gone"}
  BY DEF CInv, StackIsSound, Held
<1>3. CASE request[r].status = "live" \/ r = walk.completed
  <2>1. UNCHANGED <<request, decoders, waiting, decoding>>
    BY <1>3 DEF LetGo
  <2>. USE DEF CInv
  <2>2. ListedRequests'
    <3>1. \A s \in Members(waiting) \union Members(decoding) : s \in Requests
      BY ListedHaveParams
    <3>. QED
      BY <1>1, <1>3, <2>1, <3>1 DEF ListedRequests, Held
  <2>. QED
    BY <1>1, <1>2, <2>1, <2>2
       DEF TypeOK, RequestType, ListedOnce, RequestsAreSound, HasDecoder, DecodersAreOwned, Orders
<1>4. CASE request[r].status # "live" /\ r # walk.completed
  <2>1. Destroy(r)
    BY <1>4 DEF LetGo
  <2>2. request[r].status \notin {"new", "gone"}
    BY DEF CInv, StackIsSound, Held
  <2>3. /\ request' \in [Requests -> RequestType] /\ decoders' \in [Requests -> D!Decoder]
        /\ waiting' \in Seq(Requests) /\ decoding' \in Seq(Requests)
        /\ ListedOnce' /\ RequestsAreSound' /\ DecodersAreOwned'
        /\ \A s \in Requests \ {r} : request'[s].status = request[s].status
        /\ \A s \in Members(waiting') \union Members(decoding') :
             s \in Requests \ {r} /\ s \in Members(waiting) \union Members(decoding)
        /\ Members(decoding') = Members(decoding) \ {r}
        /\ waiting = <<>> => waiting' = <<>>
    BY <2>1, <2>2, DestroyKeepsSound
  <2>4. ListedRequests'
    BY <1>1, <2>3 DEF CInv, ListedRequests, Held
  <2>5. \A s \in Requests : Held(s)' => request'[s].status \notin {"new", "gone"}
    BY <1>1, <1>2, <1>4, <2>3
  <2>. QED
    BY <2>3, <2>4, <2>5
<1>. QED
  BY <1>3, <1>4

\* A callback returns: its request, unless it stays, is destroyed, and the iterator moved on.
LEMMA CallbackSucceedsPreserves ==
    ASSUME CInv, NEW r \in Requests, CallbackSucceeds(r)
    PROVE  CInv'
<1>1. /\ called = r /\ Calling /\ called' = Nobody
      /\ UNCHANGED <<cacheState, surfaces, hasProcessTask, queue, processing, historyVars, calls>>
  BY Ids DEF CallbackSucceeds, Calling
<1>2. CASE Walking /\ r = walk.completed
  <2>1. Advance(r) /\ UNCHANGED <<request, decoders, waiting>>
    BY <1>2 DEF CallbackSucceeds
  <2>2. /\ walk' \in WalkType /\ walk'.completed = walk.completed /\ walk'.ok = walk.ok
        /\ walk'.made = walk.made
        /\ decoding' \in Seq(Requests) /\ ListedOnce'
        /\ Members(decoding') \subseteq Members(decoding)
        /\ walk'.at # Nobody => walk'.at \in Members(decoding')
    BY <1>2, <2>1, AdvanceFacts
  <2>. USE DEF CInv
  <2>3. TypeOK'
    BY <1>1, <2>1, <2>2 DEF TypeOK, WalkType, historyVars
  <2>4. ListedRequests' /\ RequestsAreSound' /\ DecodersAreOwned'
    BY <1>1, <1>2, <2>1, <2>2
       DEF ListedRequests, RequestsAreSound, Held, HasDecoder, DecodersAreOwned, Orders
  <2>5. StackIsSound'
    BY <1>1, <1>2, <2>1, <2>2, Ids DEF StackIsSound, Held, Walking, Calling
  <2>6. QueueIsSound' /\ WaitingIsAttended'
    BY <1>1, <2>1 DEF QueueIsSound, WaitingIsAttended, historyVars
  <2>. QED
    BY <2>2, <2>3, <2>4, <2>5, <2>6
<1>3. CASE ~(Walking /\ r = walk.completed)
  <2>1. LetGo(r) /\ walk' = [walk EXCEPT !.at = IF Walking THEN After(r) ELSE @]
    BY <1>3 DEF CallbackSucceeds
  <2>2. /\ After(r) \in Requests \union {Nobody}
        /\ After(r) # Nobody => After(r) \in Members(decoding) \ {r}
    BY AfterFacts
  <2>3. /\ walk' \in WalkType /\ walk'.completed = walk.completed /\ walk'.ok = walk.ok
        /\ walk'.made = walk.made /\ walk'.at = IF Walking THEN After(r) ELSE walk.at
    BY <2>1, <2>2 DEF CInv, TypeOK, WalkType
  <2>4. /\ request' \in [Requests -> RequestType] /\ decoders' \in [Requests -> D!Decoder]
        /\ waiting' \in Seq(Requests) /\ decoding' \in Seq(Requests)
        /\ ListedOnce' /\ ListedRequests' /\ RequestsAreSound' /\ DecodersAreOwned'
        /\ \A s \in Requests : Held(s)' => request'[s].status \notin {"new", "gone"}
        /\ Members(decoding) \ {r} \subseteq Members(decoding')
        /\ waiting = <<>> => waiting' = <<>>
    BY <1>1, <2>1, <2>3, LetGoKeepsSound
  <2>. USE DEF CInv
  <2>5. TypeOK'
    BY <1>1, <2>3, <2>4 DEF TypeOK, RequestType, WalkType, historyVars
  <2>6. StackIsSound'
    BY <1>1, <2>2, <2>3, <2>4 DEF StackIsSound, Walking, Calling
  <2>7. QueueIsSound' /\ WaitingIsAttended'
    BY <1>1, <2>4 DEF QueueIsSound, WaitingIsAttended, historyVars
  <2>. QED
    BY <2>4, <2>5, <2>6, <2>7
<1>. QED
  BY <1>2, <1>3

\* A callback fails: the walk is at its end, or ProcessDecodeRequests is.
LEMMA CallbackFailsPreserves ==
    ASSUME CInv, NEW r \in Requests, CallbackFails(r)
    PROVE  CInv'
<1>1. /\ called = r /\ Calling /\ called' = Nobody /\ LetGo(r)
      /\ calls' \in 0..MaxCalls /\ upsets' \subseteq Upsets
      /\ UNCHANGED <<cacheState, surfaces, hasProcessTask, queue, told>>
  BY CountFacts, Ids DEF CallbackFails, Fails, Calling, CInv, TypeOK, Upsets
<1>2. /\ walk' \in WalkType /\ walk'.completed = walk.completed /\ walk'.ok = walk.ok
      /\ walk'.made = walk.made /\ walk'.at = Nobody
  <2>1. walk \in WalkType /\ (~Walking => walk.at = Nobody)
    BY DEF CInv, TypeOK, WalkType, StackIsSound
  <2>2. CASE Walking
    <3>1. walk' = [walk EXCEPT !.at = Nobody, !.failed = TRUE]
      BY <2>2 DEF CallbackFails
    <3>. QED
      BY <2>1, <3>1 DEF WalkType
  <2>3. CASE ~Walking
    BY <2>1, <2>3 DEF CallbackFails
  <2>. QED
    BY <2>2, <2>3
<1>3. /\ request' \in [Requests -> RequestType] /\ decoders' \in [Requests -> D!Decoder]
      /\ waiting' \in Seq(Requests) /\ decoding' \in Seq(Requests)
      /\ ListedOnce' /\ ListedRequests' /\ RequestsAreSound' /\ DecodersAreOwned'
      /\ \A s \in Requests : Held(s)' => request'[s].status \notin {"new", "gone"}
      /\ waiting = <<>> => waiting' = <<>>
  BY <1>1, <1>2, LetGoKeepsSound
<1>4. processing' \in BOOLEAN /\ abandoned' \in BOOLEAN /\ QueueIsSound' /\ WaitingIsAttended'
  <2>1. CASE Walking
    <3>1. UNCHANGED <<processing, abandoned>>
      BY <2>1 DEF CallbackFails
    <3>. QED
      BY <1>1, <1>3, <3>1 DEF CInv, TypeOK, QueueIsSound, WaitingIsAttended
  <2>2. CASE ~Walking
    <3>1. StopProcessing
      BY <2>2 DEF CallbackFails
    <3>. QED
      BY <1>1, <1>3, <3>1, StopAttends
  <2>. QED
    BY <2>1, <2>2
<1>5. TypeOK'
  BY <1>1, <1>2, <1>3, <1>4 DEF CInv, TypeOK, RequestType, WalkType, Upsets
<1>6. StackIsSound'
  BY <1>1, <1>2, <1>3 DEF CInv, StackIsSound, Walking, Calling
<1>. QED
  BY <1>3, <1>4, <1>5, <1>6 DEF CInv

\* The loop ends: the request it kept is in the lists only if it stays.
LEMMA EndWalkPreserves ==
    ASSUME CInv, EndWalk
    PROVE  CInv'
<1>. DEFINE r == walk.completed
<1>1. /\ Walking /\ called = Nobody /\ walk' = NotWalking /\ LeaveWalk
      /\ surfaces' = surfaces \/ (walk.ok /\ CacheSurface)
      /\ UNCHANGED <<cacheState, hasProcessTask, queue, called, told, upsets, calls>>
  BY DEF EndWalk, LeaveWalk, Calling
<1>2. /\ r \in Requests /\ request[r].status \notin {"new", "gone"} /\ request[r].params \in Params
  <2>1. r \in Requests
    BY <1>1 DEF CInv, TypeOK, Walking
  <2>2. request[r].status \notin {"new", "gone"}
    BY <2>1 DEF CInv, StackIsSound, Held
  <2>. QED
    BY <2>1, <2>2 DEF CInv, RequestsAreSound
<1>3. surfaces' \in Seq([params : Params, made : Params])
  <2>1. CASE walk.ok /\ CacheSurface
    <3>. DEFINE surface == [params |-> request[r].params, made |-> walk.made]
    <3>1. surface \in [params : Params, made : Params]
      BY <1>1, <1>2, <2>1 DEF CInv, StackIsSound
    <3>. HIDE DEF surface
    <3>2. surfaces' = Append(surfaces, surface)
      BY <2>1 DEF CacheSurface, surface
    <3>. QED
      BY <3>1, <3>2 DEF CInv, TypeOK
  <2>. QED
    BY <1>1, <2>1 DEF CInv, TypeOK
<1>4. \A s \in Members(waiting) \union Members(decoding) : s \in Requests
  BY ListedHaveParams
<1>5. /\ request' \in [Requests -> RequestType] /\ decoders' \in [Requests -> D!Decoder]
      /\ waiting' \in Seq(Requests) /\ decoding' \in Seq(Requests)
      /\ ListedOnce' /\ ListedRequests' /\ RequestsAreSound' /\ DecodersAreOwned'
      /\ waiting = <<>> => waiting' = <<>>
  <2>1. CASE request[r].status = "live"
    <3>1. UNCHANGED <<request, decoders, waiting, decoding>>
      BY <2>1 DEF LeaveWalk, EndWalk
    <3>2. ListedRequests'
      BY <1>1, <1>4, <2>1, <3>1, Ids DEF CInv, ListedRequests, Held
    <3>. QED
      BY <3>1, <3>2 DEF CInv, TypeOK, RequestType, ListedOnce, RequestsAreSound, HasDecoder,
                        DecodersAreOwned, Orders
  <2>2. CASE request[r].status # "live"
    <3>1. Destroy(r)
      BY <1>1, <2>2 DEF LeaveWalk
    <3>. HIDE DEF r
    <3>2. /\ request' \in [Requests -> RequestType] /\ decoders' \in [Requests -> D!Decoder]
          /\ waiting' \in Seq(Requests) /\ decoding' \in Seq(Requests)
          /\ ListedOnce' /\ RequestsAreSound' /\ DecodersAreOwned'
          /\ \A s \in Requests \ {r} : request'[s].status = request[s].status
          /\ \A s \in Members(waiting') \union Members(decoding') :
               s \in Requests \ {r} /\ s \in Members(waiting) \union Members(decoding)
          /\ waiting = <<>> => waiting' = <<>>
      BY <1>2, <3>1, DestroyKeepsSound
    <3>3. ListedRequests'
      BY <1>1, <3>2, Ids DEF CInv, ListedRequests, Held, r
    <3>. QED
      BY <3>2, <3>3
  <2>. QED
    BY <2>1, <2>2
<1>6. processing' \in BOOLEAN /\ abandoned' \in BOOLEAN /\ QueueIsSound' /\ WaitingIsAttended'
  <2>1. CASE walk.failed
    <3>1. StopProcessing
      BY <1>1, <2>1 DEF LeaveWalk
    <3>. QED
      BY <1>1, <1>5, <3>1, StopAttends
  <2>2. CASE ~walk.failed
    <3>1. UNCHANGED <<processing, abandoned>>
      BY <1>1, <2>2 DEF LeaveWalk
    <3>. QED
      BY <1>1, <1>5, <3>1 DEF CInv, TypeOK, QueueIsSound, WaitingIsAttended
  <2>. QED
    BY <2>1, <2>2
<1>7. walk' \in WalkType /\ StackIsSound'
  BY <1>1, Ids DEF NotWalking, WalkType, StackIsSound, Held, Walking, Calling
<1>8. TypeOK'
  BY <1>1, <1>3, <1>5, <1>6, <1>7 DEF CInv, TypeOK, RequestType, WalkType
<1>. QED
  BY <1>5, <1>6, <1>7, <1>8 DEF CInv
-----------------------------------------------------------------------------
\* Every step keeps the inductive invariant: one case per action.
LEMMA NextPreserves == CInv /\ [Next]_vars => CInv'
<1>. SUFFICES ASSUME CInv, [Next]_vars PROVE CInv'
  OBVIOUS
<1>1. ASSUME NEW r \in Requests, NEW params \in Params, GetImage(r, params) \/ NewParams(r, params)
      PROVE  CInv'
  BY <1>1, GetImagePreserves, NewParamsPreserves
<1>2. ASSUME NEW r \in Requests, NEW disconnecting \in BOOLEAN, Release(r, disconnecting)
      PROVE  CInv'
  BY <1>2, ReleasePreserves
<1>3. ASSUME NEW r \in Requests, LoseDevice(r) \/ WorkItem(r)
      PROVE  CInv'
  BY <1>3, LoseDevicePreserves, WorkItemPreserves
<1>4. ASSUME NEW i \in DOMAIN surfaces, OnCacheInvalidated(i)
      PROVE  CInv'
  BY <1>4, OnCacheInvalidatedPreserves
<1>5. CASE DownloadResponds
  BY <1>5, DownloadRespondsPreserves
<1>6. CASE RunTask
  BY <1>6, ProcessDecodeRequestsPreserves, GotDownloadResponsePreserves,
     HandleDecodeResponsePreserves DEF RunTask
<1>7. CASE ProcessEnd \/ EndWalk
  BY <1>7, ProcessEndPreserves, EndWalkPreserves
<1>8. ASSUME NEW r \in Requests, Answer(r) \/ Join(r) \/ BeginDecode(r) \/ Skip(r) \/ Notify(r)
      PROVE  CInv'
  BY <1>8, AnswerPreserves, JoinPreserves, BeginDecodePreserves, SkipPreserves, NotifyPreserves
<1>9. CASE Callbacks
  BY <1>9, CallbackSucceedsPreserves, CallbackFailsPreserves DEF Callbacks
<1>10. CASE UNCHANGED vars
  <2>1. TypeOK'
    BY <1>10 DEF vars, listVars, stackVars, historyVars, CInv, TypeOK
  <2>2. ListedOnce' /\ ListedRequests' /\ RequestsAreSound' /\ StackIsSound' /\ DecodersAreOwned'
    BY <1>10, OtherPartsKept DEF vars, listVars, stackVars
  <2>3. QueueIsSound' /\ WaitingIsAttended'
    BY <1>10 DEF vars, listVars, stackVars, historyVars, CInv, QueueIsSound, WaitingIsAttended
  <2>. QED
    BY <2>1, <2>2, <2>3 DEF CInv
<1>. QED
  BY <1>1, <1>2, <1>3, <1>4, <1>5, <1>6, <1>7, <1>8, <1>9, <1>10 DEF Next, Loops

\* The inductive invariant holds in every state.
THEOREM Invariance == Spec => []CInv
<1>1. Init => CInv
  BY InitialState
<1>2. CInv /\ [Next]_vars => CInv'
  BY NextPreserves
<1>. QED
  BY <1>1, <1>2, PTL DEF Spec

\* Every variable holds a value of its type, whatever happens during callbacks.
THEOREM CacheTypeCorrect == Spec => []TypeOK
<1>1. CInv => TypeOK
  BY DEF CInv
<1>. QED
  BY <1>1, Invariance, PTL

\* Two lists without repetition and without common elements have none together.
LEMMA TogetherOnce ==
    ASSUME NEW S, NEW a \in Seq(S), NEW b \in Seq(S), IsInjective(a), IsInjective(b),
           Members(a) \intersect Members(b) = {}
    PROVE  \A i, j \in DOMAIN (a \o b) : (a \o b)[i] = (a \o b)[j] => i = j
<1>. DEFINE c == a \o b
<1>1. /\ c \in Seq(S) /\ Len(c) = Len(a) + Len(b)
      /\ \A i \in 1..(Len(a) + Len(b)) : c[i] = IF i <= Len(a) THEN a[i] ELSE b[i - Len(a)]
  BY ConcatProperties
<1>2. /\ Len(a) \in Nat /\ Len(b) \in Nat /\ DOMAIN a = 1..Len(a) /\ DOMAIN b = 1..Len(b)
      /\ DOMAIN c = 1..(Len(a) + Len(b))
  BY <1>1
<1>. HIDE DEF c
<1>3. ASSUME NEW i \in DOMAIN c
      PROVE  \/ i \in DOMAIN a /\ c[i] = a[i]
             \/ i - Len(a) \in DOMAIN b /\ c[i] = b[i - Len(a)]
  BY <1>1, <1>2
<1>4. ASSUME NEW i \in DOMAIN c, NEW j \in DOMAIN c, c[i] = c[j] PROVE i = j
  <2>1. CASE i \in DOMAIN a /\ c[i] = a[i] /\ j \in DOMAIN a /\ c[j] = a[j]
    BY <1>4, <2>1 DEF IsInjective
  <2>2. CASE /\ i - Len(a) \in DOMAIN b /\ c[i] = b[i - Len(a)]
             /\ j - Len(a) \in DOMAIN b /\ c[j] = b[j - Len(a)]
    <3>1. i - Len(a) = j - Len(a)
      BY <1>4, <2>2 DEF IsInjective
    <3>. QED
      BY <1>2, <3>1
  <2>3. ASSUME NEW k \in DOMAIN a, NEW l \in DOMAIN b PROVE a[k] # b[l]
    BY DEF Members
  <2>. QED
    BY <1>3, <1>4, <2>1, <2>2, <2>3
<1>. QED
  BY <1>4 DEF c

\* Whatever is released, made or given parameters from within a callback, and whichever
\* callbacks fail: the bare pointers in the lists are to requests that an image source or a
\* loop holds, each in one list once; the iterator of the walk stays in the list; and a
\* decoder that decodes for a request is its own.
THEOREM ListsStaySound == Spec => []ListsAreSound
<1>1. CInv => ListsAreSound
  <2>. SUFFICES ASSUME CInv PROVE ListsAreSound
    OBVIOUS
  <2>1. \A i, j \in DOMAIN (waiting \o decoding) :
            (waiting \o decoding)[i] = (waiting \o decoding)[j] => i = j
    BY TogetherOnce DEF CInv, TypeOK, ListedOnce
  <2>2. walk.at # Nobody => walk.at \in Members(decoding)
    BY DEF CInv, StackIsSound
  <2>. QED
    BY <2>1, <2>2 DEF CInv, ListedRequests, DecodersAreOwned, ListsAreSound
<1>. QED
  BY <1>1, Invariance, PTL

\* A request that waits is attended to by a task that is in the queue, by the loop or by the
\* download; unless a failed callback, in either loop, or a decoder that could not be created
\* has ended the loop, and nothing has triggered it since.
THEOREM WaitersAreAttended == Spec => []WaitingIsAttended
<1>1. CInv => WaitingIsAttended
  BY DEF CInv
<1>. QED
  BY <1>1, Invariance, PTL
=============================================================================
