-------------------------- MODULE Downloads_proofs --------------------------
(***************************************************************************)
(* Safety of the downloads, for every set of requests: types, deferrals    *)
(* that go before their queue, and a single answer.                        *)
(***************************************************************************)
EXTENDS Downloads, TLAPS

\* The life of the host, its downloader and the queue.
Lifetime ==
    /\ passing => ~stop
    /\ ~stop => host
    /\ host <=> Host \in holders
    /\ destroyer # "none" => holders = {} /\ jobQueue # "live"
    /\ jobQueue \in {"closing", "destroyed"} => destroyer # "none"

\* What nobody has started yet is not known to anybody.
Fresh(r) == answers[r] = 0 /\ r \notin cut /\ refs[r] = {} /\ ~request[r].callback

\* A request waits in the queue once, and before it is started.
Waiting ==
    /\ \A i, j \in DOMAIN entries : entries[i] = entries[j] => i = j
    /\ \A i \in DOMAIN entries : Fresh(entries[i]) /\ client[entries[i]] # "none"
    /\ \A r \in Requests : client[r] = "none" => Fresh(r)

\* A job is in the queue or runs, once, and refers to a request urlmon does not know until then;
\* the one that takes the queue along has let go of its request.
Jobs ==
    /\ \A i, j \in DOMAIN jobs : jobs[i] = jobs[j] => i = j
    /\ \A i \in DOMAIN jobs :
          "job" \in refs[jobs[i]] /\ request[jobs[i]].bind = "none" /\ jobs[i] # running
    /\ running # NoRequest /\ destroyer # "worker" => "job" \in refs[running]

\* A request that may still be answered has not been, and was not aborted.
Unanswered == \A r \in Requests : request[r].callback => answers[r] = 0 /\ r \notin cut

\* The bindings urlmon works for.
Live == {"starting", "failed", "bound", "stopping", "responding"}

\* A request urlmon works for is referred to by it, and refers to the downloader until it is dead.
Bound ==
    /\ \A r \in Requests :
          request[r].bind \in Live => "urlmon" \in refs[r]
    /\ \A r \in Requests : refs[r] # {} /\ ~request[r].dead => Held(r) \in holders

\* The inductive invariant.
DLInv ==
    TypeOK /\ Lifetime /\ Waiting /\ Jobs /\ Unanswered /\ Bound /\ DeferralsGoFirst
-----------------------------------------------------------------------------
\* The tags of those who refer to the downloader tell them apart.
LEMMA Tags ==
    ASSUME NEW r \in Requests, NEW s \in Requests
    PROVE  /\ Held(r) # Host /\ Entry(r) # Host /\ Entry(r) # Held(s)
           /\ (Held(r) = Held(s) => r = s)
           /\ {Host, Entry(r), Held(r)} \subseteq Referrers
  BY DEF Held, Entry, Host, Referrers

\* Letting go of the downloader.
LEMMA LetGoFacts ==
    ASSUME TypeOK, Lifetime, NEW whose, NEW thread \in Threads, LetGo(whose, thread)
    PROVE  /\ holders' = holders \ whose
           /\ destroyer' \in Threads \cup {"none"}
           /\ jobQueue' \in {"none", "live", "closing", "destroyed"}
           /\ destroyer' # "none" => holders' = {} /\ jobQueue' # "live"
           /\ jobQueue' \in {"closing", "destroyed"} => destroyer' # "none"
           /\ holders' # {} => UNCHANGED <<destroyer, jobQueue>>
           /\ destroyer # "none" => destroyer' = destroyer
  BY DEF TypeOK, Lifetime, LetGo, Threads

\* What each operation makes of the state of a request.
LEMMA States ==
    ASSUME NEW q \in RequestStates
    PROVE  /\ Started(q) \in RequestStates /\ Aborted(q) \in RequestStates
           /\ AbortedByClient(q) \in RequestStates
           /\ \A b \in Bindings : [q EXCEPT !.bind = b] \in RequestStates
           /\ \A b \in Bindings : [q EXCEPT !.bind = b, !.deferral = FALSE] \in RequestStates
           /\ [q EXCEPT !.bind = "stopped", !.dead = TRUE, !.callback = FALSE] \in RequestStates
<1>1. Started(q) \in RequestStates
  BY DEF RequestStates, Started, Refused, Bindings
<1>2. Aborted(q) \in RequestStates /\ AbortedByClient(q) \in RequestStates
  BY DEF RequestStates, Aborted, AbortedByClient, Bindings
<1>3. /\ \A b \in Bindings : [q EXCEPT !.bind = b] \in RequestStates
      /\ \A b \in Bindings : [q EXCEPT !.bind = b, !.deferral = FALSE] \in RequestStates
      /\ [q EXCEPT !.bind = "stopped", !.dead = TRUE, !.callback = FALSE] \in RequestStates
  BY DEF RequestStates, Bindings
<1>. QED
  BY <1>1, <1>2, <1>3

\* So is the state of a new request, and of one that is destroyed.
LEMMA NewRequests ==
    ASSUME NEW b \in Bindings
    PROVE  /\ NewRequest \in RequestStates
           /\ [NewRequest EXCEPT !.callback = TRUE] \in RequestStates
           /\ [NewRequest EXCEPT !.bind = b, !.dead = TRUE, !.aborting = TRUE] \in RequestStates
  BY DEF NewRequest, RequestStates, Bindings

\* The first of a queue is gone, the others stay in order.
LEMMA HeadAndTail ==
    ASSUME NEW S, NEW s \in Seq(S), s # <<>>
    PROVE  /\ Head(s) \in S /\ 1 \in DOMAIN s /\ Head(s) = s[1] /\ Tail(s) \in Seq(S)
           /\ \A i \in DOMAIN Tail(s) : i + 1 \in DOMAIN s /\ i \in Nat /\ i # 0 /\ Tail(s)[i] = s[i + 1]
  OBVIOUS

\* One of a queue is removed, the others stay in order.
LEMMA Removal ==
    ASSUME NEW S, NEW s \in Seq(S), NEW k \in DOMAIN s
    PROVE  /\ RemoveAt(s, k) \in Seq(S)
           /\ \A i \in DOMAIN RemoveAt(s, k) :
                 LET j == IF i < k THEN i ELSE i + 1
                 IN  i \in Nat /\ j \in DOMAIN s /\ RemoveAt(s, k)[i] = s[j]
<1>. DEFINE left == SubSeq(s, 1, k - 1)  right == SubSeq(s, k + 1, Len(s))
<1>1. k \in 1..Len(s) /\ Len(s) \in Nat
  OBVIOUS
<1>2. /\ left \in Seq(S) /\ Len(left) = k - 1
      /\ \A i \in 1..(k - 1) : left[i] = s[i]
  BY <1>1, SMT
<1>3. /\ right \in Seq(S) /\ Len(right) = Len(s) - k
      /\ \A i \in 1..(Len(s) - k) : right[i] = s[k + i]
  BY <1>1, SMT
<1>. HIDE DEF left, right
<1>4. /\ left \o right \in Seq(S) /\ Len(left \o right) = Len(s) - 1
      /\ \A i \in 1..(Len(s) - 1) :
            (left \o right)[i] = IF i <= k - 1 THEN left[i] ELSE right[i - (k - 1)]
  BY <1>1, <1>2, <1>3, SMT
<1>5. RemoveAt(s, k) = left \o right
  BY DEF RemoveAt, left, right
<1>6. ASSUME NEW i \in 1..(Len(s) - 1)
      PROVE  (left \o right)[i] = s[IF i < k THEN i ELSE i + 1]
  <2>1. CASE i < k
    BY <1>1, <1>2, <1>4, <2>1, SMT
  <2>2. CASE ~(i < k)
    <3>1. i - (k - 1) \in 1..(Len(s) - k) /\ k + (i - (k - 1)) = i + 1
      BY <1>1, <2>2, SMT
    <3>. QED
      BY <1>1, <1>3, <1>4, <2>2, <3>1, SMT
  <2>. QED
    BY <2>1, <2>2
<1>7. DOMAIN (left \o right) = 1..(Len(s) - 1) /\ DOMAIN s = 1..Len(s)
  BY <1>4
<1>8. \A i \in 1..(Len(s) - 1) : i \in Nat /\ (IF i < k THEN i ELSE i + 1) \in 1..Len(s)
  BY <1>1, SMT
<1>. HIDE DEF RemoveAt
<1>. QED
  BY <1>4, <1>5, <1>6, <1>7, <1>8
-----------------------------------------------------------------------------
\* The inductive invariant holds initially.
LEMMA InitialState == Init => DLInv
<1>. SUFFICES ASSUME Init PROVE DLInv
  OBVIOUS
<1>1. TypeOK
  <2>1. /\ request \in [Requests -> RequestStates]
        /\ refs \in [Requests -> SUBSET {"job", "urlmon", "owner", "work"}]
    BY NewRequests DEF Init, Bindings
  <2>2. entries \in Seq(Requests) /\ jobs \in Seq(Requests) /\ messages \in Nat
    BY DEF Init
  <2>3. holders \subseteq Referrers /\ running \in Requests \cup {NoRequest} /\ cut \subseteq Requests
    BY DEF Init, Referrers
  <2>4. /\ client \in [Requests -> {"none", "waiting", "refused", "gone"}]
        /\ answers \in [Requests -> Nat]
    BY DEF Init
  <2>. QED
    BY <2>1, <2>2, <2>3, <2>4 DEF Init, TypeOK
<1>2. Lifetime /\ Waiting /\ Jobs /\ Unanswered /\ Bound /\ DeferralsGoFirst
  BY DEF Init, NewRequest, Lifetime, Waiting, Jobs, Unanswered, Bound, Live, DeferralsGoFirst,
         Fresh, Host, Held
<1>. QED
  BY <1>1, <1>2 DEF DLInv

\* A request is queued.
LEMMA CreatePreserves ==
    ASSUME DLInv, NEW r \in Requests, CreateDownloadRequest(r)
    PROVE  DLInv'
<1>. USE DEF DLInv, uiVars, workerVars, ownedVars
<1>1. TypeOK'
  <2>1. entries' \in Seq(Requests) /\ messages' \in Nat
    BY DEF CreateDownloadRequest, TypeOK
  <2>2. client' \in [Requests -> {"none", "waiting", "refused", "gone"}]
    BY DEF CreateDownloadRequest, TypeOK
  <2>3. holders' \subseteq Referrers
    BY Tags DEF CreateDownloadRequest, TypeOK
  <2>. QED
    BY <2>1, <2>2, <2>3 DEF CreateDownloadRequest, TypeOK
<1>2. Lifetime'
  BY Tags DEF CreateDownloadRequest, TypeOK, Lifetime
<1>3. Waiting'
  BY Tags DEF CreateDownloadRequest, TypeOK, Waiting, Fresh
<1>4. Jobs'
  BY Tags DEF CreateDownloadRequest, TypeOK, Jobs
<1>5. Unanswered'
  BY Tags DEF CreateDownloadRequest, TypeOK, Unanswered, Waiting, Fresh
<1>6. Bound'
  BY Tags DEF CreateDownloadRequest, TypeOK, Bound, Live
<1>7. DeferralsGoFirst'
  BY Tags DEF CreateDownloadRequest, TypeOK, Lifetime, Bound, Live, DeferralsGoFirst
<1>. QED
  BY <1>1, <1>2, <1>3, <1>4, <1>5, <1>6, <1>7

\* A pass begins ...
LEMMA BeginPassPreserves ==
    ASSUME DLInv, BeginPass
    PROVE  DLInv'
<1>. USE DEF DLInv, uiVars, workerVars, ownedVars
<1>1. TypeOK'
  BY Tags DEF BeginPass, TypeOK
<1>2. Lifetime'
  BY Tags DEF BeginPass, TypeOK, Lifetime
<1>3. Waiting'
  BY Tags DEF BeginPass, TypeOK, Waiting, Fresh
<1>4. Jobs'
  BY Tags DEF BeginPass, TypeOK, Jobs
<1>5. Unanswered'
  BY Tags DEF BeginPass, TypeOK, Unanswered, Waiting, Fresh
<1>6. Bound'
  BY Tags DEF BeginPass, TypeOK, Bound, Live
<1>7. DeferralsGoFirst'
  BY Tags DEF BeginPass, TypeOK, Lifetime, Bound, Live, DeferralsGoFirst
<1>. QED
  BY <1>1, <1>2, <1>3, <1>4, <1>5, <1>6, <1>7

\* ... and ends.
LEMMA EndPassPreserves ==
    ASSUME DLInv, EndPass
    PROVE  DLInv'
<1>. USE DEF DLInv, uiVars, workerVars, ownedVars
<1>1. TypeOK'
  BY Tags DEF EndPass, TypeOK
<1>2. Lifetime'
  BY Tags DEF EndPass, TypeOK, Lifetime
<1>3. Waiting'
  BY Tags DEF EndPass, TypeOK, Waiting, Fresh
<1>4. Jobs'
  BY Tags DEF EndPass, TypeOK, Jobs
<1>5. Unanswered'
  BY Tags DEF EndPass, TypeOK, Unanswered, Waiting, Fresh
<1>6. Bound'
  BY Tags DEF EndPass, TypeOK, Bound, Live
<1>7. DeferralsGoFirst'
  BY Tags DEF EndPass, TypeOK, Lifetime, Bound, Live, DeferralsGoFirst
<1>. QED
  BY <1>1, <1>2, <1>3, <1>4, <1>5, <1>6, <1>7

\* A request is started.
LEMMA DownloadPreserves ==
    ASSUME DLInv, Download
    PROVE  DLInv'
<1>. USE DEF DLInv, uiVars, workerVars, ownedVars, Download
<1>. DEFINE r == Head(entries)
<1>1. /\ r \in Requests /\ 1 \in DOMAIN entries /\ r = entries[1] /\ entries' = Tail(entries)
      /\ entries' \in Seq(Requests)
      /\ \A i \in DOMAIN entries' : i + 1 \in DOMAIN entries /\ i \in Nat /\ i # 0
                                   /\ entries'[i] = entries[i + 1]
  BY HeadAndTail DEF TypeOK
<1>2. /\ request' = [request EXCEPT ![r] = [NewRequest EXCEPT !.callback = TRUE]]
      /\ refs' = [refs EXCEPT ![r] = {"job"} \cup IF client[r] = "waiting" THEN {"owner"} ELSE {}]
      /\ holders' = (holders \ {Entry(r)}) \cup {Held(r)}
      /\ jobs' = Append(jobs, r) /\ jobQueue' = "live"
  OBVIOUS
<1>3. LET new == [NewRequest EXCEPT !.callback = TRUE]
      IN  new.callback /\ ~new.dead /\ ~new.deferral /\ new.bind = "none"
  BY DEF NewRequest
<1>4. /\ client[r] # "none" /\ Fresh(r) /\ \A i \in DOMAIN entries' : entries'[i] # r
      /\ \A i \in DOMAIN jobs : jobs[i] # r
      /\ running # r
  <2>1. client[r] # "none" /\ Fresh(r) /\ \A i \in DOMAIN entries' : entries'[i] # r
    BY <1>1 DEF Waiting
  <2>2. (\A i \in DOMAIN jobs : jobs[i] # r) /\ running # r
    BY <1>1, <2>1, RequestsAssumption DEF Jobs, Fresh, Lifetime
  <2>. QED
    BY <2>1, <2>2
<1>5. destroyer = "none"
  BY DEF Lifetime
<1>. HIDE DEF r
<1>6. TypeOK'
  <2>1. request' \in [Requests -> RequestStates] /\ jobs' \in Seq(Requests)
    BY <1>1, <1>2, NewRequests DEF TypeOK, Bindings
  <2>2. /\ refs' \in [Requests -> SUBSET {"job", "urlmon", "owner", "work"}]
        /\ holders' \subseteq Referrers
    BY <1>1, <1>2, Tags DEF TypeOK
  <2>3. entries' \in Seq(Requests)
    BY <1>1
  <2>4. jobQueue' \in {"none", "live", "closing", "destroyed"}
    BY <1>2
  <2>. QED
    BY <2>1, <2>2, <2>3, <2>4 DEF Download, TypeOK
<1>7. Lifetime'
  BY <1>1, <1>2, <1>3, <1>4, <1>5, Tags DEF Download, TypeOK, Lifetime
<1>8. Waiting'
  BY <1>1, <1>2, <1>3, <1>4, <1>5, Tags DEF Download, TypeOK, Waiting, Fresh
<1>9. Jobs'
  BY <1>1, <1>2, <1>3, <1>4, <1>5, Tags DEF Download, TypeOK, Jobs
<1>10. Unanswered'
  BY <1>1, <1>2, <1>3, <1>4, <1>5, Tags DEF Download, TypeOK, Unanswered, Waiting, Fresh
<1>11. Bound'
  BY <1>1, <1>2, <1>3, <1>4, <1>5, Tags DEF Download, TypeOK, Bound, Live
<1>12. DeferralsGoFirst'
  BY <1>1, <1>2, <1>3, <1>4, <1>5, Tags DEF Download, TypeOK, Lifetime, Bound, Live, DeferralsGoFirst
<1>. QED
  BY <1>6, <1>7, <1>8, <1>9, <1>10, <1>11, <1>12

\* A request cannot be started.
LEMMA DownloadFailsPreserves ==
    ASSUME DLInv, DownloadFails
    PROVE  DLInv'
<1>. USE DEF DLInv, uiVars, workerVars, ownedVars, DownloadFails
<1>. DEFINE r == Head(entries)
<1>1. /\ r \in Requests /\ 1 \in DOMAIN entries /\ r = entries[1] /\ entries' = Tail(entries)
      /\ entries' \in Seq(Requests)
      /\ \A i \in DOMAIN entries' : i + 1 \in DOMAIN entries /\ i \in Nat /\ i # 0
                                   /\ entries'[i] = entries[i + 1]
  BY HeadAndTail DEF TypeOK
<1>2. LetGo({Entry(r)}, "ui") /\ answers' = [answers EXCEPT ![r] = @ + 1]
  OBVIOUS
<1>3. /\ holders' = holders \ {Entry(r)}
      /\ destroyer' \in Threads \cup {"none"}
      /\ jobQueue' \in {"none", "live", "closing", "destroyed"}
      /\ destroyer' # "none" => holders' = {} /\ jobQueue' # "live"
      /\ jobQueue' \in {"closing", "destroyed"} => destroyer' # "none"
      /\ holders' # {} => UNCHANGED <<destroyer, jobQueue>>
      /\ destroyer # "none" => destroyer' = destroyer
  BY <1>2, LetGoFacts DEF Threads
<1>4. /\ client[r] # "none" /\ Fresh(r) /\ \A i \in DOMAIN entries' : entries'[i] # r
  BY <1>1 DEF TypeOK, Waiting
<1>5. /\ Host \in holders' /\ destroyer = "none" /\ UNCHANGED <<destroyer, jobQueue>>
  BY <1>1, <1>3, Tags DEF Lifetime
<1>. HIDE DEF r
<1>6. TypeOK'
  <2>1. entries' \in Seq(Requests) /\ answers' \in [Requests -> Nat]
    BY <1>1, <1>2 DEF TypeOK
  <2>2. holders' \subseteq Referrers
    BY <1>3 DEF TypeOK
  <2>3. UNCHANGED <<destroyer, jobQueue>>
    BY <1>5
  <2>. QED
    BY <2>1, <2>2, <2>3 DEF DownloadFails, TypeOK
<1>7. Lifetime'
  BY <1>1, <1>2, <1>3, <1>4, <1>5, Tags DEF DownloadFails, TypeOK, Lifetime
<1>8. Waiting'
  BY <1>1, <1>2, <1>3, <1>4, <1>5, Tags DEF DownloadFails, TypeOK, Waiting, Fresh
<1>9. Jobs'
  BY <1>1, <1>2, <1>3, <1>4, <1>5, Tags DEF DownloadFails, TypeOK, Jobs
<1>10. Unanswered'
  BY <1>1, <1>2, <1>3, <1>4, <1>5, Tags DEF DownloadFails, TypeOK, Unanswered, Waiting, Fresh
<1>11. Bound'
  BY <1>1, <1>2, <1>3, <1>4, <1>5, Tags DEF DownloadFails, TypeOK, Bound, Live
<1>12. DeferralsGoFirst'
  BY <1>1, <1>2, <1>3, <1>4, <1>5, Tags
     DEF DownloadFails, TypeOK, Lifetime, Bound, Live, DeferralsGoFirst
<1>. QED
  BY <1>6, <1>7, <1>8, <1>9, <1>10, <1>11, <1>12

\* A request that waits is removed.
LEMMA AbortEntryPreserves ==
    ASSUME DLInv, NEW r \in Requests, AbortEntry(r)
    PROVE  DLInv'
<1>. USE DEF DLInv, uiVars, workerVars, ownedVars, AbortEntry
<1>. PICK k \in DOMAIN entries : entries[k] = r /\ entries' = RemoveAt(entries, k)
  OBVIOUS
<1>1. /\ entries' \in Seq(Requests)
      /\ \A i \in DOMAIN entries' :
            LET j == IF i < k THEN i ELSE i + 1
            IN  i \in Nat /\ j \in DOMAIN entries /\ entries'[i] = entries[j]
  BY Removal DEF TypeOK
<1>2. LetGo({Entry(r)}, "ui")
  OBVIOUS
<1>3. /\ holders' = holders \ {Entry(r)}
      /\ destroyer' \in Threads \cup {"none"}
      /\ jobQueue' \in {"none", "live", "closing", "destroyed"}
      /\ destroyer' # "none" => holders' = {} /\ jobQueue' # "live"
      /\ jobQueue' \in {"closing", "destroyed"} => destroyer' # "none"
      /\ holders' # {} => UNCHANGED <<destroyer, jobQueue>>
      /\ destroyer # "none" => destroyer' = destroyer
  BY <1>2, LetGoFacts DEF Threads
<1>4. /\ Host \in holders' /\ destroyer = "none" /\ UNCHANGED <<destroyer, jobQueue>>
  BY <1>3, Tags DEF Lifetime
<1>5. /\ \A i, j \in DOMAIN entries' : entries'[i] = entries'[j] => i = j
      /\ \A i \in DOMAIN entries' : \E j \in DOMAIN entries : entries'[i] = entries[j]
  <2>1. k \in Nat
    BY DEF TypeOK
  <2>. QED
    BY <1>1, <2>1 DEF Waiting
<1>6. TypeOK'
  <2>1. entries' \in Seq(Requests)
    BY <1>1
  <2>2. client' \in [Requests -> {"none", "waiting", "refused", "gone"}]
    BY DEF TypeOK
  <2>3. holders' \subseteq Referrers
    BY <1>3 DEF TypeOK
  <2>4. UNCHANGED <<destroyer, jobQueue>>
    BY <1>4
  <2>. QED
    BY <2>1, <2>2, <2>3, <2>4 DEF AbortEntry, TypeOK
<1>7. Lifetime'
  BY <1>3, <1>4, Tags DEF AbortEntry, TypeOK, Lifetime
<1>8. Waiting'
  BY <1>5 DEF TypeOK, Waiting, Fresh
<1>9. Jobs'
  BY <1>3, <1>4, Tags DEF AbortEntry, TypeOK, Jobs
<1>10. Unanswered'
  BY <1>3, <1>4, Tags DEF AbortEntry, TypeOK, Unanswered, Waiting, Fresh
<1>11. Bound'
  BY <1>3, <1>4, Tags DEF AbortEntry, TypeOK, Bound, Live
<1>12. DeferralsGoFirst'
  BY <1>3, <1>4, Tags DEF AbortEntry, TypeOK, Lifetime, Bound, Live, DeferralsGoFirst
<1>. QED
  BY <1>6, <1>7, <1>8, <1>9, <1>10, <1>11, <1>12

\* The abort of a request that was started is given to the pool.
LEMMA AbortAsyncPreserves ==
    ASSUME DLInv, NEW r \in Requests, AbortAsync(r)
    PROVE  DLInv'
<1>. USE DEF DLInv, uiVars, workerVars, ownedVars
<1>1. TypeOK'
  BY Tags DEF AbortAsync, TypeOK
<1>2. Lifetime'
  BY Tags DEF AbortAsync, TypeOK, Lifetime
<1>3. Waiting'
  BY Tags DEF AbortAsync, TypeOK, Waiting, Fresh
<1>4. Jobs'
  BY Tags DEF AbortAsync, TypeOK, Jobs
<1>5. Unanswered'
  BY Tags DEF AbortAsync, TypeOK, Unanswered, Waiting, Fresh
<1>6. Bound'
  BY Tags DEF AbortAsync, TypeOK, Bound, Live
<1>7. DeferralsGoFirst'
  BY Tags DEF AbortAsync, TypeOK, Lifetime, Bound, Live, DeferralsGoFirst
<1>. QED
  BY <1>1, <1>2, <1>3, <1>4, <1>5, <1>6, <1>7

\* Downloads are stopped, ...
LEMMA StopPreserves ==
    ASSUME DLInv, StopDownloads
    PROVE  DLInv'
<1>. USE DEF DLInv, uiVars, workerVars, ownedVars
<1>1. TypeOK'
  BY Tags DEF StopDownloads, TypeOK
<1>2. Lifetime'
  BY Tags DEF StopDownloads, TypeOK, Lifetime
<1>3. Waiting'
  BY Tags DEF StopDownloads, TypeOK, Waiting, Fresh
<1>4. Jobs'
  BY Tags DEF StopDownloads, TypeOK, Jobs
<1>5. Unanswered'
  BY Tags DEF StopDownloads, TypeOK, Unanswered, Waiting, Fresh
<1>6. Bound'
  BY Tags DEF StopDownloads, TypeOK, Bound, Live
<1>7. DeferralsGoFirst'
  BY Tags DEF StopDownloads, TypeOK, Lifetime, Bound, Live, DeferralsGoFirst
<1>. QED
  BY <1>1, <1>2, <1>3, <1>4, <1>5, <1>6, <1>7

\* ... and the host goes.
LEMMA HostGoesPreserves ==
    ASSUME DLInv, HostGoes
    PROVE  DLInv'
<1>. USE DEF DLInv, uiVars, workerVars, ownedVars, HostGoes
<1>. DEFINE whose == {Host} \cup {Entry(r) : r \in Requests}
<1>1. LetGo(whose, "ui")
  OBVIOUS
<1>2. /\ holders' = holders \ whose
      /\ destroyer' \in Threads \cup {"none"}
      /\ jobQueue' \in {"none", "live", "closing", "destroyed"}
      /\ destroyer' # "none" => holders' = {} /\ jobQueue' # "live"
      /\ jobQueue' \in {"closing", "destroyed"} => destroyer' # "none"
      /\ holders' # {} => UNCHANGED <<destroyer, jobQueue>>
      /\ destroyer # "none" => destroyer' = destroyer
  BY <1>1, LetGoFacts DEF Threads
<1>3. Host \notin holders' /\ (\A r \in Requests : Held(r) \in holders => Held(r) \in holders')
  BY <1>2, Tags
<1>. HIDE DEF whose
<1>4. TypeOK'
  <2>1. entries' \in Seq(Requests) /\ messages' \in Nat
    OBVIOUS
  <2>2. host' \in BOOLEAN
    OBVIOUS
  <2>3. /\ holders' \subseteq Referrers /\ destroyer' \in Threads \cup {"none"}
        /\ jobQueue' \in {"none", "live", "closing", "destroyed"}
    BY <1>2 DEF TypeOK
  <2>. QED
    BY <2>1, <2>2, <2>3 DEF HostGoes, TypeOK
<1>5. Lifetime'
  BY <1>2, <1>3 DEF HostGoes, TypeOK, Lifetime
<1>6. Waiting'
  BY <1>2, <1>3 DEF HostGoes, TypeOK, Waiting, Fresh
<1>7. Jobs'
  BY <1>2, <1>3 DEF HostGoes, TypeOK, Jobs
<1>8. Unanswered'
  BY <1>2, <1>3 DEF HostGoes, TypeOK, Unanswered, Waiting, Fresh
<1>9. Bound'
  BY <1>2, <1>3 DEF HostGoes, TypeOK, Bound, Live
<1>10. DeferralsGoFirst'
  <2>1. ASSUME NEW r \in Requests, request[r].deferral PROVE destroyer' = "none" /\ jobQueue' = "live"
    <3>1. Held(r) \in holders
      BY <2>1 DEF TypeOK, Bound, Live, DeferralsGoFirst
    <3>. QED
      BY <1>2, <1>3, <2>1, <3>1 DEF DeferralsGoFirst
  <2>. QED
    BY <2>1 DEF DeferralsGoFirst
<1>. QED
  BY <1>4, <1>5, <1>6, <1>7, <1>8, <1>9, <1>10

\* The queue is destroyed.
LEMMA ClosesPreserves ==
    ASSUME DLInv, QueueCloses
    PROVE  DLInv'
<1>. USE DEF DLInv, uiVars, workerVars, ownedVars
<1>1. TypeOK'
  BY Tags DEF QueueCloses, TypeOK
<1>2. Lifetime'
  BY Tags DEF QueueCloses, TypeOK, Lifetime
<1>3. Waiting'
  BY Tags DEF QueueCloses, TypeOK, Waiting, Fresh
<1>4. Jobs'
  BY Tags DEF QueueCloses, TypeOK, Jobs
<1>5. Unanswered'
  BY Tags DEF QueueCloses, TypeOK, Unanswered, Waiting, Fresh
<1>6. Bound'
  BY Tags DEF QueueCloses, TypeOK, Bound, Live
<1>7. DeferralsGoFirst'
  BY Tags DEF QueueCloses, TypeOK, Lifetime, Bound, Live, DeferralsGoFirst
<1>. QED
  BY <1>1, <1>2, <1>3, <1>4, <1>5, <1>6, <1>7

\* The worker begins a job.
LEMMA RunJobPreserves ==
    ASSUME DLInv, RunJob
    PROVE  DLInv'
<1>. USE DEF DLInv, uiVars, workerVars, ownedVars, RunJob
<1>. DEFINE r == Head(jobs)
<1>1. /\ r \in Requests /\ 1 \in DOMAIN jobs /\ r = jobs[1] /\ jobs' = Tail(jobs)
      /\ jobs' \in Seq(Requests)
      /\ \A i \in DOMAIN jobs' : i + 1 \in DOMAIN jobs /\ i \in Nat /\ i # 0 /\ jobs'[i] = jobs[i + 1]
  BY HeadAndTail DEF TypeOK
<1>2. running' = r /\ running = NoRequest
  OBVIOUS
<1>3. PICK b \in {"refused", "starting"} :
        /\ request' = [request EXCEPT ![r].bind = b]
        /\ \/ refs' = [refs EXCEPT ![r] = @ \cup {"urlmon"}]
           \/ b = "refused" /\ refs' = refs
  <2>1. CASE Refused(request[r])
    BY <2>1
  <2>2. CASE ~Refused(request[r])
    BY <2>2
  <2>. QED
    BY <2>1, <2>2
<1>4. /\ "job" \in refs[r] /\ request[r].bind = "none"
      /\ \A i \in DOMAIN jobs' : jobs'[i] # r
  BY <1>1 DEF Jobs
<1>5. request' \in [Requests -> RequestStates]
  BY <1>1, <1>3, States DEF TypeOK, Bindings
<1>6. /\ \A s \in Requests : s # r => request'[s] = request[s] /\ refs'[s] = refs[s]
      /\ request'[r].bind = b /\ request'[r].dead = request[r].dead
      /\ request'[r].deferral = request[r].deferral /\ request'[r].callback = request[r].callback
      /\ refs'[r] \in {refs[r], refs[r] \cup {"urlmon"}}
      /\ b = "starting" => "urlmon" \in refs'[r]
      /\ refs' \in [Requests -> SUBSET {"job", "urlmon", "owner", "work"}]
  BY <1>1, <1>3 DEF TypeOK, RequestStates
<1>. HIDE DEF r, RunJob
<1>7. /\ UNCHANGED <<entries, messages, passing, client, stop, host>>
      /\ UNCHANGED <<holders, jobQueue, destroyer, answers, cut>>
  BY DEF RunJob
<1>8. TypeOK'
  BY <1>1, <1>2, <1>4, <1>5, <1>6, <1>7, RequestsAssumption DEF TypeOK
<1>9. Lifetime'
  BY <1>1, <1>2, <1>4, <1>5, <1>6, <1>7, RequestsAssumption DEF TypeOK, Lifetime
<1>10. Waiting'
  <2>1. (\A i \in DOMAIN entries : entries[i] # r) /\ client[r] # "none"
    BY <1>1, <1>4 DEF Waiting, Fresh
  <2>2. ASSUME NEW s \in Requests, s # r, Fresh(s) PROVE Fresh(s)'
    BY <1>6, <1>7, <2>2 DEF Fresh
  <2>. QED
    BY <1>7, <2>1, <2>2 DEF TypeOK, Waiting
<1>11. Jobs'
  BY <1>1, <1>2, <1>4, <1>5, <1>6, <1>7, RequestsAssumption DEF TypeOK, Jobs
<1>12. Unanswered'
  BY <1>1, <1>2, <1>4, <1>5, <1>6, <1>7, RequestsAssumption DEF TypeOK, Unanswered, Waiting, Fresh
<1>13. Bound'
  BY <1>1, <1>2, <1>4, <1>5, <1>6, <1>7, RequestsAssumption DEF TypeOK, Bound, Live
<1>14. DeferralsGoFirst'
  BY <1>1, <1>2, <1>4, <1>5, <1>6, <1>7, RequestsAssumption
     DEF TypeOK, Lifetime, Bound, Live, DeferralsGoFirst
<1>. QED
  BY <1>8, <1>9, <1>10, <1>11, <1>12, <1>13, <1>14

\* urlmon begins to bind.
LEMMA OnStartBindingPreserves ==
    ASSUME DLInv, NEW r \in Requests, OnStartBinding(r)
    PROVE  DLInv'
<1>. USE DEF DLInv, uiVars, workerVars, ownedVars, OnStartBinding
<1>. DEFINE q == Started(request[r])
<1>1. q \in RequestStates /\ request' = [request EXCEPT ![r] = q]
  BY States DEF TypeOK
<1>2. /\ q.callback = request[r].callback /\ q.dead = request[r].dead
      /\ \/ q.bind = "failed" /\ q.deferral = request[r].deferral
         \/ q.bind = "bound" /\ ~q.dead
      /\ request[r].bind = "starting" /\ running = r
  BY DEF Started, Refused, TypeOK, RequestStates
<1>3. ~request[r].deferral /\ (~q.dead => Held(r) \in holders)
  BY <1>2 DEF TypeOK, Bound, Live, DeferralsGoFirst
<1>4. ~q.dead => destroyer = "none" /\ jobQueue = "live"
  BY <1>3 DEF Lifetime, WorkerFree
<1>. HIDE DEF q
<1>5. TypeOK'
  BY <1>1, <1>2, <1>3, <1>4 DEF TypeOK
<1>6. Lifetime'
  BY <1>1, <1>2, <1>3, <1>4 DEF TypeOK, Lifetime
<1>7. Waiting'
  BY <1>1, <1>2, <1>3, <1>4 DEF TypeOK, Waiting, Fresh
<1>8. Jobs'
  BY <1>1, <1>2, <1>3, <1>4 DEF TypeOK, Jobs
<1>9. Unanswered'
  BY <1>1, <1>2, <1>3, <1>4 DEF TypeOK, Unanswered, Waiting, Fresh
<1>10. Bound'
  BY <1>1, <1>2, <1>3, <1>4 DEF TypeOK, Bound, Live
<1>11. DeferralsGoFirst'
  BY <1>1, <1>2, <1>3, <1>4 DEF TypeOK, Lifetime, Bound, Live, DeferralsGoFirst
<1>. QED
  BY <1>5, <1>6, <1>7, <1>8, <1>9, <1>10, <1>11

\* A binding is aborted by its own callbacks.
LEMMA GiveUpPreserves ==
    ASSUME DLInv, NEW r \in Requests, GiveUp(r)
    PROVE  DLInv'
<1>. USE DEF DLInv, uiVars, workerVars, ownedVars, GiveUp
<1>. DEFINE q == Aborted(request[r])
<1>1. q \in RequestStates /\ request' = [request EXCEPT ![r] = q]
  BY States DEF TypeOK
<1>2. /\ q.callback = request[r].callback /\ q.dead = request[r].dead
      /\ q.deferral = request[r].deferral /\ q.bind = "stopping" /\ request[r].bind = "bound"
  BY DEF Aborted, TypeOK, RequestStates
<1>. HIDE DEF q
<1>3. TypeOK'
  BY <1>1, <1>2 DEF GiveUp, TypeOK
<1>4. Lifetime'
  BY <1>1, <1>2 DEF GiveUp, TypeOK, Lifetime
<1>5. Waiting'
  BY <1>1, <1>2 DEF GiveUp, TypeOK, Waiting, Fresh
<1>6. Jobs'
  BY <1>1, <1>2 DEF GiveUp, TypeOK, Jobs
<1>7. Unanswered'
  BY <1>1, <1>2 DEF GiveUp, TypeOK, Unanswered, Waiting, Fresh
<1>8. Bound'
  BY <1>1, <1>2 DEF GiveUp, TypeOK, Bound, Live
<1>9. DeferralsGoFirst'
  BY <1>1, <1>2 DEF GiveUp, TypeOK, Lifetime, Bound, Live, DeferralsGoFirst
<1>. QED
  BY <1>3, <1>4, <1>5, <1>6, <1>7, <1>8, <1>9

\* A binding ends.
LEMMA OnStopBindingPreserves ==
    ASSUME DLInv, NEW r \in Requests, OnStopBinding(r)
    PROVE  DLInv'
<1>. USE DEF DLInv, uiVars, workerVars, ownedVars, OnStopBinding
<1>. DEFINE q == IF request[r].dead THEN [request[r] EXCEPT !.bind = "stopped"]
                    ELSE [request[r] EXCEPT !.bind = "responding", !.deferral = FALSE]
<1>1. q \in RequestStates /\ request' = [request EXCEPT ![r] = q]
  BY States DEF TypeOK, Bindings
<1>2. /\ q.callback = request[r].callback /\ q.dead = request[r].dead /\ ~q.deferral
      /\ q.bind \in {"stopped", "responding"} /\ request[r].bind \in {"bound", "stopping", "failed"}
  BY DEF TypeOK, RequestStates, DeferralsGoFirst
<1>. HIDE DEF q
<1>3. TypeOK'
  BY <1>1, <1>2 DEF OnStopBinding, TypeOK
<1>4. Lifetime'
  BY <1>1, <1>2 DEF OnStopBinding, TypeOK, Lifetime
<1>5. Waiting'
  BY <1>1, <1>2 DEF OnStopBinding, TypeOK, Waiting, Fresh
<1>6. Jobs'
  BY <1>1, <1>2 DEF OnStopBinding, TypeOK, Jobs
<1>7. Unanswered'
  BY <1>1, <1>2 DEF OnStopBinding, TypeOK, Unanswered, Waiting, Fresh
<1>8. Bound'
  BY <1>1, <1>2 DEF OnStopBinding, TypeOK, Bound, Live
<1>9. DeferralsGoFirst'
  BY <1>1, <1>2 DEF OnStopBinding, TypeOK, Lifetime, Bound, Live, DeferralsGoFirst
<1>. QED
  BY <1>3, <1>4, <1>5, <1>6, <1>7, <1>8, <1>9

\* A request is answered.
LEMMA FireGotResponsePreserves ==
    ASSUME DLInv, NEW r \in Requests, FireGotResponse(r)
    PROVE  DLInv'
<1>. USE DEF DLInv, uiVars, workerVars, ownedVars, FireGotResponse
<1>. DEFINE q == [request[r] EXCEPT !.bind = "stopped", !.dead = TRUE, !.callback = FALSE]
<1>1. q \in RequestStates /\ request' = [request EXCEPT ![r] = q]
  BY States DEF TypeOK
<1>2. /\ ~q.callback /\ q.dead /\ q.deferral = request[r].deferral
      /\ q.bind = "stopped" /\ request[r].bind = "responding"
  BY DEF TypeOK, RequestStates
<1>3. ~q.deferral /\ "urlmon" \in refs[r]
  BY <1>2 DEF DeferralsGoFirst, Bound, Live
<1>4. /\ answers' \in [Requests -> Nat] /\ (\A s \in Requests : s # r => answers'[s] = answers[s])
      /\ UNCHANGED <<entries, messages, passing, client, stop, host, jobs, running, refs, cut>>
  BY DEF TypeOK
<1>5. /\ holders' \in {holders, holders \ {Held(r)}}
      /\ destroyer' \in Threads \cup {"none"}
      /\ jobQueue' \in {"none", "live", "closing", "destroyed"}
      /\ destroyer' # "none" => holders' = {} /\ jobQueue' # "live"
      /\ jobQueue' \in {"closing", "destroyed"} => destroyer' # "none"
      /\ holders' # {} => UNCHANGED <<destroyer, jobQueue>>
      /\ destroyer # "none" => destroyer' = destroyer
  <2>1. CASE request[r].callback
    <3>1. LetGo({Held(r)}, "worker")
      BY <2>1
    <3>. QED
      BY <3>1, LetGoFacts DEF Threads
  <2>2. CASE ~request[r].callback
    BY <2>2 DEF TypeOK, Lifetime
  <2>. QED
    BY <2>1, <2>2
<1>6. \A s \in Requests : s # r /\ Held(s) \in holders => Held(s) \in holders'
  BY <1>5, Tags
<1>. HIDE DEF q, FireGotResponse
<1>7. TypeOK'
  BY <1>1, <1>2, <1>3, <1>4, <1>5, <1>6, Tags DEF TypeOK
<1>8. Lifetime'
  BY <1>1, <1>2, <1>3, <1>4, <1>5, <1>6, Tags DEF TypeOK, Lifetime
<1>9. Waiting'
  BY <1>1, <1>2, <1>3, <1>4, <1>5, <1>6, Tags DEF TypeOK, Waiting, Fresh
<1>10. Jobs'
  BY <1>1, <1>2, <1>3, <1>4, <1>5, <1>6, Tags DEF TypeOK, Jobs
<1>11. Unanswered'
  BY <1>1, <1>2, <1>3, <1>4, <1>5, <1>6, Tags DEF TypeOK, Unanswered, Waiting, Fresh
<1>12. Bound'
  BY <1>1, <1>2, <1>3, <1>4, <1>5, <1>6, Tags DEF TypeOK, Bound, Live
<1>13. DeferralsGoFirst'
  BY <1>1, <1>2, <1>3, <1>4, <1>5, <1>6, Tags DEF TypeOK, Lifetime, Bound, Live, DeferralsGoFirst
<1>. QED
  BY <1>7, <1>8, <1>9, <1>10, <1>11, <1>12, <1>13

\* What AbortRequest makes of a request: it has no callback, and a binding that was alive is still.
LEMMA AbortFacts ==
    ASSUME TypeOK, NEW r \in Requests, NEW q \in {request[r], AbortedByClient(request[r])}
    PROVE  /\ q \in RequestStates
           /\ (q.bind \in Live <=> request[r].bind \in Live)
           /\ (q.bind = "none" <=> request[r].bind = "none")
           /\ (request[r].bind = "stopped" <=> q.bind = "stopped")
           /\ q.deferral = request[r].deferral
           /\ (request[r].bind \in {"bound", "stopping"} =>
                  q.dead = request[r].dead /\ q.bind \in {"bound", "stopping"})
           /\ (~q.dead => ~request[r].dead)
           /\ (q.callback => request[r].callback)
<1>1. q \in RequestStates
  BY States DEF TypeOK
<1>2. CASE q = request[r]
  BY <1>1, <1>2
<1>3. CASE q = AbortedByClient(request[r])
  BY <1>1, <1>3 DEF AbortedByClient, Aborted, TypeOK, RequestStates, Live, Bindings
<1>. QED
  BY <1>2, <1>3

\* An aborted request has no callback any more.
LEMMA AbortedHasNoCallback ==
    ASSUME NEW q \in RequestStates
    PROVE  ~AbortedByClient(q).callback
  BY DEF AbortedByClient, Aborted, RequestStates

\* A reference to a request goes, and the request with the last one.
LEMMA ReleaseFacts ==
    ASSUME DLInv, NEW r \in Requests, NEW ref \in refs[r], NEW thread \in Threads,
           NEW after \in {request[r], AbortedByClient(request[r])},
           ref = "urlmon" => request[r].bind = "stopped",
           Release(r, ref, thread, after), UNCHANGED <<host, stop, passing>>
    PROVE  /\ request' \in [Requests -> RequestStates]
           /\ refs' = [refs EXCEPT ![r] = @ \ {ref}]
           /\ holders' \subseteq Referrers /\ destroyer' \in Threads \cup {"none"}
           /\ jobQueue' \in {"none", "live", "closing", "destroyed"}
           /\ \A s \in Requests : s # r => request'[s] = request[s]
           /\ (request'[r].callback => after.callback /\ request[r].callback)
           /\ (request[r].bind = "none" => request'[r].bind = "none")
           /\ (destroyer # "none" => destroyer' = destroyer)
           /\ Lifetime' /\ Bound' /\ DeferralsGoFirst'
<1>. USE DEF DLInv
<1>. DEFINE gone == [NewRequest EXCEPT !.bind = after.bind, !.dead = TRUE, !.aborting = TRUE]
            q == IF refs[r] = {ref} THEN gone ELSE after
<1>1. /\ after \in RequestStates
      /\ (after.bind \in Live <=> request[r].bind \in Live)
      /\ (after.bind = "none" <=> request[r].bind = "none")
      /\ (request[r].bind = "stopped" <=> after.bind = "stopped")
      /\ after.deferral = request[r].deferral
      /\ (request[r].bind \in {"bound", "stopping"} =>
             after.dead = request[r].dead /\ after.bind \in {"bound", "stopping"})
      /\ (~after.dead => ~request[r].dead)
      /\ (after.callback => request[r].callback)
  BY AbortFacts
<1>2. after.bind \in Bindings
  BY <1>1 DEF RequestStates
<1>3. gone \in RequestStates
  BY <1>2, NewRequests
<1>4. gone.dead /\ ~gone.deferral /\ ~gone.callback /\ gone.bind = after.bind
  BY DEF NewRequest
<1>. HIDE DEF gone
<1>5. q \in RequestStates
  BY <1>1, <1>3
<1>6. request' = [request EXCEPT ![r] = q] /\ refs' = [refs EXCEPT ![r] = @ \ {ref}]
  BY DEF Release, gone
<1>7. /\ holders' \in {holders, holders \ {Held(r)}}
      /\ (refs[r] # {ref} => holders' = holders)
      /\ destroyer' \in Threads \cup {"none"}
      /\ jobQueue' \in {"none", "live", "closing", "destroyed"}
      /\ destroyer' # "none" => holders' = {} /\ jobQueue' # "live"
      /\ jobQueue' \in {"closing", "destroyed"} => destroyer' # "none"
      /\ holders' # {} => UNCHANGED <<destroyer, jobQueue>>
      /\ destroyer # "none" => destroyer' = destroyer
  <2>1. CASE refs[r] = {ref}
    <3>1. LetGo({Held(r)}, thread)
      BY <2>1 DEF Release
    <3>. QED
      BY <2>1, <3>1, LetGoFacts
  <2>2. CASE refs[r] # {ref}
    BY <2>2 DEF Release, ownedVars, TypeOK, Lifetime
  <2>. QED
    BY <2>1, <2>2
<1>8. /\ \A s \in Requests : s # r /\ Held(s) \in holders => Held(s) \in holders'
      /\ (Host \in holders' <=> Host \in holders)
  BY <1>7, Tags
<1>9. /\ request' \in [Requests -> RequestStates] /\ request'[r] = q
      /\ \A s \in Requests : s # r => request'[s] = request[s] /\ refs'[s] = refs[s]
      /\ refs'[r] = refs[r] \ {ref}
  BY <1>5, <1>6 DEF TypeOK
<1>10. /\ (q.bind \in Live <=> request[r].bind \in Live)
       /\ (q.deferral => request[r].deferral /\ q = after)
       /\ (~q.dead => ~request[r].dead /\ q = after)
       /\ (q.callback => after.callback /\ request[r].callback)
       /\ (request[r].bind = "none" => q.bind = "none")
  BY <1>1, <1>4
<1>11. refs[r] # {ref} \/ q = gone
  OBVIOUS
<1>. HIDE DEF q
<1>12. Lifetime'
  BY <1>7, <1>8 DEF Lifetime
<1>13. Bound'
  <2>1. q.bind \in Live => "urlmon" \in refs[r] /\ ref # "urlmon"
    BY <1>10 DEF Bound, Live
  <2>2. ~q.dead => refs[r] # {ref}
    BY <1>4, <1>11
  <2>3. ~q.dead => Held(r) \in holders'
    BY <1>7, <1>10, <2>2 DEF Bound, Live
  <2>. QED
    BY <1>8, <1>9, <2>1, <2>3 DEF Bound, Live
<1>14. DeferralsGoFirst'
  <2>1. ASSUME NEW s \in Requests, request'[s].deferral
        PROVE  /\ request[s].deferral /\ Held(s) \in holders'
               /\ request'[s].bind \in {"bound", "stopping"} /\ ~request'[s].dead
    <3>1. CASE s # r
      <4>1. request[s].deferral /\ request'[s] = request[s]
        BY <1>9, <2>1, <3>1
      <4>2. Held(s) \in holders
        BY <4>1 DEF DeferralsGoFirst, Bound, Live, TypeOK
      <4>. QED
        BY <1>8, <3>1, <4>1, <4>2 DEF DeferralsGoFirst
    <3>2. CASE s = r
      <4>1. request[r].deferral /\ q = after /\ request'[r] = q
        BY <1>9, <1>10, <2>1, <3>2
      <4>2. request[r].bind \in {"bound", "stopping"} /\ ~request[r].dead
        BY <4>1 DEF DeferralsGoFirst
      <4>3. q.bind \in {"bound", "stopping"} /\ ~q.dead
        BY <1>1, <4>1, <4>2
      <4>4. Held(r) \in holders /\ refs[r] # {ref}
        BY <1>4, <1>11, <4>2, <4>3 DEF Bound, Live, TypeOK
      <4>. QED
        BY <1>7, <3>2, <4>1, <4>3, <4>4
    <3>. QED
      BY <3>1, <3>2
  <2>. QED
    BY <1>7, <2>1 DEF DeferralsGoFirst
<1>. QED
  BY <1>6, <1>7, <1>9, <1>10, <1>12, <1>13, <1>14 DEF TypeOK, Referrers

\* A job ends.
LEMMA EndJobPreserves ==
    ASSUME DLInv, NEW r \in Requests, EndJob(r)
    PROVE  DLInv'
<1>. USE DEF DLInv, uiVars, workerVars, ownedVars, EndJob
<1>1. Release(r, "job", "worker", request[r]) /\ "job" \in refs[r] /\ running = r
  BY RequestsAssumption DEF Jobs, TypeOK, WorkerFree, Lifetime
<1>2. /\ request' \in [Requests -> RequestStates]
      /\ refs' = [refs EXCEPT ![r] = @ \ {"job"}]
      /\ holders' \subseteq Referrers /\ destroyer' \in Threads \cup {"none"}
      /\ jobQueue' \in {"none", "live", "closing", "destroyed"}
      /\ \A s \in Requests : s # r => request'[s] = request[s]
      /\ (request'[r].callback => request[r].callback /\ request[r].callback)
      /\ (request[r].bind = "none" => request'[r].bind = "none")
      /\ (destroyer # "none" => destroyer' = destroyer)
      /\ Lifetime' /\ Bound' /\ DeferralsGoFirst'
  BY <1>1, ReleaseFacts DEF Threads
<1>3. refs[r] # {} /\ refs' \in [Requests -> SUBSET {"job", "urlmon", "owner", "work"}]
  BY <1>1, <1>2 DEF TypeOK, Jobs
<1>4. TypeOK'
  <2>1. client' \in [Requests -> {"none", "waiting", "refused", "gone"}] /\ cut' \subseteq Requests
    BY DEF TypeOK
  <2>. QED
    BY <1>2, <1>3, <2>1 DEF TypeOK
<1>5. Waiting'
  <2>1. ASSUME NEW s \in Requests, Fresh(s) PROVE Fresh(s)'
    BY <1>2, <1>3, <2>1 DEF TypeOK, Fresh
  <2>. QED
    BY <2>1 DEF TypeOK, Waiting
<1>6. Jobs'
  BY <1>1, <1>2, RequestsAssumption DEF TypeOK, Jobs
<1>7. Unanswered'
  BY <1>2 DEF TypeOK, Unanswered
<1>. QED
  BY <1>2, <1>4, <1>5, <1>6, <1>7

\* urlmon lets go of a request.
LEMMA UrlmonLetsGoPreserves ==
    ASSUME DLInv, NEW r \in Requests, UrlmonLetsGo(r)
    PROVE  DLInv'
<1>. USE DEF DLInv, uiVars, workerVars, ownedVars, UrlmonLetsGo
<1>1. Release(r, "urlmon", "worker", request[r])
  OBVIOUS
<1>2. /\ request' \in [Requests -> RequestStates]
      /\ refs' = [refs EXCEPT ![r] = @ \ {"urlmon"}]
      /\ holders' \subseteq Referrers /\ destroyer' \in Threads \cup {"none"}
      /\ jobQueue' \in {"none", "live", "closing", "destroyed"}
      /\ \A s \in Requests : s # r => request'[s] = request[s]
      /\ (request'[r].callback => request[r].callback /\ request[r].callback)
      /\ (request[r].bind = "none" => request'[r].bind = "none")
      /\ (destroyer # "none" => destroyer' = destroyer)
      /\ Lifetime' /\ Bound' /\ DeferralsGoFirst'
  BY <1>1, ReleaseFacts DEF Threads
<1>3. refs[r] # {} /\ refs' \in [Requests -> SUBSET {"job", "urlmon", "owner", "work"}]
  BY <1>1, <1>2 DEF TypeOK
<1>4. TypeOK'
  <2>1. client' \in [Requests -> {"none", "waiting", "refused", "gone"}] /\ cut' \subseteq Requests
    BY DEF TypeOK
  <2>. QED
    BY <1>2, <1>3, <2>1 DEF TypeOK
<1>5. Waiting'
  <2>1. ASSUME NEW s \in Requests, Fresh(s) PROVE Fresh(s)'
    BY <1>2, <1>3, <2>1 DEF TypeOK, Fresh
  <2>. QED
    BY <2>1 DEF TypeOK, Waiting
<1>6. Jobs'
  BY <1>1, <1>2, RequestsAssumption DEF TypeOK, Jobs
<1>7. Unanswered'
  BY <1>2 DEF TypeOK, Unanswered
<1>. QED
  BY <1>2, <1>4, <1>5, <1>6, <1>7

\* The client has its answer.
LEMMA ClientIsDonePreserves ==
    ASSUME DLInv, NEW r \in Requests, ClientIsDone(r)
    PROVE  DLInv'
<1>. USE DEF DLInv, uiVars, workerVars, ownedVars, ClientIsDone
<1>1. CASE "owner" \in refs[r]
  <2>1. Release(r, "owner", "ui", request[r])
    BY <1>1
  <2>2. /\ request' \in [Requests -> RequestStates]
        /\ refs' = [refs EXCEPT ![r] = @ \ {"owner"}]
        /\ holders' \subseteq Referrers /\ destroyer' \in Threads \cup {"none"}
        /\ jobQueue' \in {"none", "live", "closing", "destroyed"}
        /\ \A s \in Requests : s # r => request'[s] = request[s]
        /\ (request'[r].callback => request[r].callback /\ request[r].callback)
        /\ (request[r].bind = "none" => request'[r].bind = "none")
        /\ (destroyer # "none" => destroyer' = destroyer)
        /\ Lifetime' /\ Bound' /\ DeferralsGoFirst'
    BY <1>1, <2>1, ReleaseFacts DEF Threads
  <2>3. refs[r] # {} /\ refs' \in [Requests -> SUBSET {"job", "urlmon", "owner", "work"}]
    BY <1>1, <2>2 DEF TypeOK
  <2>4. TypeOK'
    <3>1. client' \in [Requests -> {"none", "waiting", "refused", "gone"}] /\ cut' \subseteq Requests
      BY DEF TypeOK
    <3>. QED
      BY <2>2, <2>3, <3>1 DEF TypeOK
  <2>5. Waiting'
    <3>1. ASSUME NEW s \in Requests, Fresh(s) PROVE Fresh(s)'
      BY <2>2, <2>3, <3>1 DEF TypeOK, Fresh
    <3>. QED
      BY <3>1 DEF TypeOK, Waiting
  <2>6. Jobs'
    BY <2>1, <2>2, RequestsAssumption DEF TypeOK, Jobs
  <2>7. Unanswered'
    BY <2>2 DEF TypeOK, Unanswered
  <2>. QED
    BY <2>2, <2>4, <2>5, <2>6, <2>7
<1>2. CASE "owner" \notin refs[r]
  <2>1. UNCHANGED <<refs, request, ownedVars>>
    BY <1>2
  <2>2. client' \in [Requests -> {"none", "waiting", "refused", "gone"}]
    BY DEF TypeOK
  <2>. QED
    BY <2>1, <2>2 DEF TypeOK, Lifetime, Waiting, Fresh, Jobs, Unanswered, Bound, Live, DeferralsGoFirst
<1>. QED
  BY <1>1, <1>2

\* A request that was started is aborted on the UI thread.
LEMMA AbortNowPreserves ==
    ASSUME DLInv, NEW r \in Requests, AbortNow(r)
    PROVE  DLInv'
<1>. USE DEF DLInv, uiVars, workerVars, ownedVars, AbortNow
<1>. DEFINE after == IF host THEN AbortedByClient(request[r]) ELSE request[r]
<1>1. Release(r, "owner", "ui", after)
  OBVIOUS
<1>2. /\ request' \in [Requests -> RequestStates]
      /\ refs' = [refs EXCEPT ![r] = @ \ {"owner"}]
      /\ holders' \subseteq Referrers /\ destroyer' \in Threads \cup {"none"}
      /\ jobQueue' \in {"none", "live", "closing", "destroyed"}
      /\ \A s \in Requests : s # r => request'[s] = request[s]
      /\ (request'[r].callback => after.callback /\ request[r].callback)
      /\ (request[r].bind = "none" => request'[r].bind = "none")
      /\ (destroyer # "none" => destroyer' = destroyer)
      /\ Lifetime' /\ Bound' /\ DeferralsGoFirst'
  BY <1>1, ReleaseFacts DEF Threads
<1>3. host => ~after.callback
  BY AbortedHasNoCallback DEF TypeOK
<1>. HIDE DEF after
<1>4. refs[r] # {} /\ refs' \in [Requests -> SUBSET {"job", "urlmon", "owner", "work"}]
  BY <1>1, <1>2 DEF TypeOK
<1>5. TypeOK'
  <2>1. client' \in [Requests -> {"none", "waiting", "refused", "gone"}] /\ cut' \subseteq Requests
    BY DEF TypeOK
  <2>. QED
    BY <1>2, <1>4, <2>1 DEF TypeOK
<1>6. Waiting'
  <2>1. ASSUME NEW s \in Requests, Fresh(s) PROVE Fresh(s)'
    BY <1>2, <1>4, <2>1 DEF TypeOK, Fresh
  <2>. QED
    BY <2>1 DEF TypeOK, Waiting
<1>7. Jobs'
  BY <1>1, <1>2, RequestsAssumption DEF TypeOK, Jobs
<1>8. Unanswered'
  BY <1>2, <1>3 DEF TypeOK, Unanswered
<1>. QED
  BY <1>2, <1>5, <1>6, <1>7, <1>8

\* A request that was started is aborted on a thread of the pool.
LEMMA AbortAsyncCallbackPreserves ==
    ASSUME DLInv, NEW r \in Requests, AbortAsyncCallback(r)
    PROVE  DLInv'
<1>. USE DEF DLInv, uiVars, workerVars, ownedVars, AbortAsyncCallback
<1>. DEFINE after == AbortedByClient(request[r])
<1>1. Release(r, "work", "pool", after)
  OBVIOUS
<1>2. /\ request' \in [Requests -> RequestStates]
      /\ refs' = [refs EXCEPT ![r] = @ \ {"work"}]
      /\ holders' \subseteq Referrers /\ destroyer' \in Threads \cup {"none"}
      /\ jobQueue' \in {"none", "live", "closing", "destroyed"}
      /\ \A s \in Requests : s # r => request'[s] = request[s]
      /\ (request'[r].callback => after.callback /\ request[r].callback)
      /\ (request[r].bind = "none" => request'[r].bind = "none")
      /\ (destroyer # "none" => destroyer' = destroyer)
      /\ Lifetime' /\ Bound' /\ DeferralsGoFirst'
  BY <1>1, ReleaseFacts DEF Threads
<1>3. ~after.callback
  BY AbortedHasNoCallback DEF TypeOK
<1>. HIDE DEF after
<1>4. refs[r] # {} /\ refs' \in [Requests -> SUBSET {"job", "urlmon", "owner", "work"}]
  BY <1>1, <1>2 DEF TypeOK
<1>5. TypeOK'
  <2>1. client' \in [Requests -> {"none", "waiting", "refused", "gone"}] /\ cut' \subseteq Requests
    BY DEF TypeOK
  <2>. QED
    BY <1>2, <1>4, <2>1 DEF TypeOK
<1>6. Waiting'
  <2>1. ASSUME NEW s \in Requests, Fresh(s) PROVE Fresh(s)'
    BY <1>2, <1>4, <2>1 DEF TypeOK, Fresh
  <2>. QED
    BY <2>1 DEF TypeOK, Waiting
<1>7. Jobs'
  BY <1>1, <1>2, RequestsAssumption DEF TypeOK, Jobs
<1>8. Unanswered'
  BY <1>2, <1>3 DEF TypeOK, Unanswered
<1>. QED
  BY <1>2, <1>5, <1>6, <1>7, <1>8

\* So every step preserves the inductive invariant.
LEMMA NextPreserves ==
    ASSUME DLInv, [Next]_vars
    PROVE  DLInv'
<1>1. CASE Pass
  BY <1>1, BeginPassPreserves, DownloadPreserves, DownloadFailsPreserves, EndPassPreserves DEF Pass
<1>2. CASE TearDown
  BY <1>2, StopPreserves, HostGoesPreserves, ClosesPreserves DEF TearDown
<1>3. CASE RunJob
  BY <1>3, RunJobPreserves
<1>4. ASSUME NEW r \in Requests, CreateDownloadRequest(r) \/ ClientAborts(r) \/ ClientIsDone(r)
      PROVE  DLInv'
  BY <1>4, CreatePreserves, AbortEntryPreserves, AbortAsyncPreserves, AbortNowPreserves,
     ClientIsDonePreserves DEF ClientAborts
<1>5. ASSUME NEW r \in Requests, Callback(r) \/ GiveUp(r) \/ AbortAsyncCallback(r)
      PROVE  DLInv'
  BY <1>5, OnStartBindingPreserves, EndJobPreserves, OnStopBindingPreserves, FireGotResponsePreserves,
     UrlmonLetsGoPreserves, GiveUpPreserves, AbortAsyncCallbackPreserves DEF Callback
<1>6. CASE UNCHANGED vars
  <2>. USE <1>6 DEF vars, uiVars, workerVars, ownedVars, DLInv
  <2>1. TypeOK' /\ Lifetime' /\ Jobs' /\ Bound' /\ DeferralsGoFirst'
    BY DEF TypeOK, Lifetime, Jobs, Bound, Live, DeferralsGoFirst
  <2>2. Waiting' /\ Unanswered'
    BY DEF Waiting, Fresh, Unanswered
  <2>. QED
    BY <2>1, <2>2
<1>. QED
  BY <1>1, <1>2, <1>3, <1>4, <1>5, <1>6 DEF Next

\* The inductive invariant holds in every state.
LEMMA Invariance == Spec => []DLInv
<1>1. DLInv /\ [Next]_vars => DLInv'
  BY NextPreserves
<1>. QED
  BY InitialState, <1>1, PTL DEF Spec

\* Every variable of the downloads holds a value of its type, for every set of requests.
THEOREM DownloadsTypeCorrect == Spec => []TypeOK
<1>1. DLInv => TypeOK
  BY DEF DLInv
<1>. QED
  BY Invariance, <1>1, PTL

\* Whoever aborts a request when, its deferral is given back before the queue goes
\* (windwnreq.cpp:478-488, ThreadedJobQueue.h:77-78), for every set of requests.
THEOREM DeferralsGoBeforeTheQueue == Spec => []DeferralsGoFirst
<1>1. DLInv => DeferralsGoFirst
  BY DEF DLInv
<1>. QED
  BY Invariance, <1>1, PTL

\* A client is answered at most once, and never when AbortRequest has returned
\* (windwnreq.cpp:724-775, :1345-1362), for every set of requests.
THEOREM AnsweredAtMostOnce == Spec => AnsweredOnce
<1>1. ASSUME DLInv, [Next]_vars, NEW r \in Requests, answers'[r] # answers[r]
      PROVE  answers[r] = 0 /\ r \notin cut
  <2>. USE DEF DLInv, uiVars, workerVars, ownedVars
  <2>1. CASE DownloadFails
    <3>1. /\ Head(entries) \in Requests /\ 1 \in DOMAIN entries /\ Head(entries) = entries[1]
          /\ answers' = [answers EXCEPT ![Head(entries)] = @ + 1]
      BY <1>1, <2>1, HeadAndTail DEF DownloadFails, TypeOK
    <3>2. r = Head(entries)
      BY <1>1, <3>1 DEF TypeOK
    <3>. QED
      BY <1>1, <3>1, <3>2 DEF Waiting, Fresh
  <2>2. CASE \E s \in Requests : FireGotResponse(s)
    <3>1. PICK s \in Requests : FireGotResponse(s)
      BY <2>2
    <3>2. r = s /\ request[s].callback
      BY <1>1, <3>1 DEF FireGotResponse, TypeOK
    <3>. QED
      BY <1>1, <3>2 DEF Unanswered
  <2>3. CASE answers' = answers
    BY <1>1, <2>3
  <2>4. DownloadFails \/ (\E s \in Requests : FireGotResponse(s)) \/ answers' = answers
    <3>1. CASE Pass \/ TearDown \/ RunJob
      BY <3>1
         DEF Pass, TearDown, BeginPass, Download, EndPass, StopDownloads, HostGoes, QueueCloses, RunJob
    <3>2. ASSUME NEW s \in Requests, CreateDownloadRequest(s) \/ ClientAborts(s) \/ ClientIsDone(s)
          PROVE  answers' = answers
      BY <3>2 DEF CreateDownloadRequest, ClientAborts, AbortEntry, AbortAsync, AbortNow, ClientIsDone
    <3>3. ASSUME NEW s \in Requests, Callback(s) \/ GiveUp(s) \/ AbortAsyncCallback(s)
          PROVE  FireGotResponse(s) \/ answers' = answers
      BY <3>3
         DEF Callback, OnStartBinding, EndJob, OnStopBinding, UrlmonLetsGo, GiveUp, AbortAsyncCallback
    <3>. QED
      BY <1>1, <3>1, <3>2, <3>3 DEF Next, vars
  <2>. QED
    BY <2>1, <2>2, <2>3, <2>4
<1>2. DLInv /\ [Next]_vars =>
        [\A r \in Requests : answers'[r] # answers[r] => answers[r] = 0 /\ r \notin cut]_vars
  BY <1>1
<1>. QED
  BY Invariance, <1>2, PTL DEF Spec, AnsweredOnce
-----------------------------------------------------------------------------
(* The queue is used as JobService allows *)

\* A request in the queue of jobs keeps the downloader; who refers to a request, refers to one
\* that was started, and then it waits for no message.
StartedInv ==
    /\ \A i \in DOMAIN jobs : Held(jobs[i]) \in holders
    /\ \A r \in Requests : refs[r] # {} => WasStarted(r)
    /\ \A r \in Requests : WasStarted(r) =>
          client[r] # "none" /\ \A i \in DOMAIN entries : entries[i] # r

\* The queue stays, or goes on this thread.
QueueStep(thread) ==
    \/ UNCHANGED <<jobQueue, destroyer>>
    \/ /\ destroyer = "none" /\ destroyer' = thread
       /\ jobQueue' = IF jobQueue = "live" THEN "closing" ELSE jobQueue

\* Nothing is started, and nothing that is at work is lost.
KeepsStarted ==
    /\ \A s \in Requests : WasStarted(s)' <=> WasStarted(s)
    /\ \A s \in Requests : refs'[s] # {} => refs[s] # {}
    /\ \A s \in Requests : request[s].bind = "none" /\ "job" \in refs'[s] /\ Held(s) \in holders
                           => Held(s) \in holders'

KeepsDeferrals == \A s \in Requests : request'[s].deferral = request[s].deferral

\* An abort does not undo a start.
LEMMA AbortStaysStarted ==
    ASSUME NEW q \in RequestStates, q.callback \/ q.dead \/ q.aborting
    PROVE  LET a == AbortedByClient(q) IN a.callback \/ a.dead \/ a.aborting
  BY DEF AbortedByClient, Aborted, RequestStates

\* To let go of a reference to a request neither starts one nor gives a deferral back.
LEMMA ReleaseIsQuiet ==
    ASSUME DLInv, StartedInv, NEW r \in Requests, NEW ref \in refs[r], NEW thread \in Threads,
           NEW after \in {request[r], AbortedByClient(request[r])},
           ref = "urlmon" => request[r].bind = "stopped",
           Release(r, ref, thread, after)
    PROVE  KeepsStarted /\ KeepsDeferrals /\ QueueStep(thread)
<1>. DEFINE gone == [NewRequest EXCEPT !.bind = after.bind, !.dead = TRUE, !.aborting = TRUE]
            q == IF refs[r] = {ref} THEN gone ELSE after
<1>1. /\ after \in RequestStates /\ after.deferral = request[r].deferral
      /\ TypeOK /\ DeferralsGoFirst /\ Bound
  BY AbortFacts DEF DLInv
<1>2. gone.dead /\ ~gone.deferral
  BY DEF NewRequest
<1>3. WasStarted(r)
  BY DEF StartedInv
<1>4. after.callback \/ after.dead \/ after.aborting
  <2>1. request[r] \in RequestStates /\ (request[r].callback \/ request[r].dead \/ request[r].aborting)
    BY <1>1, <1>3 DEF TypeOK, WasStarted
  <2>. QED
    BY <2>1, AbortStaysStarted
<1>5. request' = [request EXCEPT ![r] = q] /\ refs' = [refs EXCEPT ![r] = @ \ {ref}]
  BY DEF Release
<1>. HIDE DEF gone
<1>6. refs[r] = {ref} => ~request[r].deferral
  BY <1>1 DEF DeferralsGoFirst, Bound, Live
<1>7. (q.callback \/ q.dead \/ q.aborting) /\ q.deferral = request[r].deferral
  <2>1. CASE refs[r] = {ref}
    <3>1. q = gone /\ ~request[r].deferral /\ request[r] \in RequestStates
      BY <1>1, <1>6, <2>1 DEF TypeOK
    <3>2. request[r].deferral = FALSE
      BY <3>1 DEF RequestStates
    <3>3. gone.deferral = FALSE
      BY DEF gone, NewRequest
    <3>. QED
      BY <1>2, <3>1, <3>2, <3>3
  <2>2. CASE refs[r] # {ref}
    BY <1>1, <1>4, <2>2
  <2>. QED
    BY <2>1, <2>2
<1>. HIDE DEF q
<1>8. /\ request'[r] = q /\ \A s \in Requests : s # r => request'[s] = request[s] /\ refs'[s] = refs[s]
      /\ refs'[r] = refs[r] \ {ref}
  BY <1>1, <1>5 DEF TypeOK
<1>9. \A s \in Requests : WasStarted(s)' <=> WasStarted(s)
  BY <1>3, <1>7, <1>8 DEF WasStarted
<1>10. KeepsDeferrals
  BY <1>7, <1>8 DEF KeepsDeferrals
<1>11. QueueStep(thread) /\ holders' \in {holders, holders \ {Held(r)}}
       /\ (refs[r] # {ref} => holders' = holders)
  <2>1. CASE refs[r] = {ref}
    BY <2>1 DEF Release, LetGo, QueueStep
  <2>2. CASE refs[r] # {ref}
    BY <2>2 DEF Release, ownedVars, QueueStep
  <2>. QED
    BY <2>1, <2>2
<1>12. ASSUME NEW s \in Requests, "job" \in refs'[s], Held(s) \in holders
       PROVE  Held(s) \in holders'
  <2>1. CASE s = r
    BY <1>8, <1>11, <1>12, <2>1
  <2>2. CASE s # r
    BY <1>11, <1>12, <2>2, Tags
  <2>. QED
    BY <2>1, <2>2
<1>13. \A s \in Requests : refs'[s] # {} => refs[s] # {}
  BY <1>8
<1>. QED
  BY <1>9, <1>10, <1>11, <1>12, <1>13 DEF KeepsStarted

\* Who has asked for a request has; what waits for a message waited before or is not started.
EntriesStay ==
    /\ \A s \in Requests : client'[s] = "none" => client[s] = "none"
    /\ \A i \in DOMAIN entries' :
          (\E j \in DOMAIN entries : entries'[i] = entries[j]) \/ ~WasStarted(entries'[i])

\* A step that shows neither jobs nor deferrals.
QuietStep ==
    /\ KeepsStarted /\ KeepsDeferrals /\ EntriesStay
    /\ UNCHANGED <<jobs, running>>
    /\ \E thread \in Threads : QueueStep(thread)

\* Steps that change no request.
LEMMA RequestsUntouched ==
    ASSUME DLInv, UNCHANGED <<request, refs>>,
           \A s \in Requests : Held(s) \in holders => Held(s) \in holders'
    PROVE  KeepsStarted /\ KeepsDeferrals
  BY DEF KeepsStarted, KeepsDeferrals, WasStarted

\* Steps that leave who waits as it is.
LEMMA NobodyWaitsAnew ==
    ASSUME DLInv, UNCHANGED <<client, entries>>
    PROVE  EntriesStay
  BY DEF EntriesStay

\* Letting go is a step of the queue.
LEMMA LetGoIsQueueStep ==
    ASSUME NEW whose, NEW thread, LetGo(whose, thread)
    PROVE  QueueStep(thread) /\ holders' = holders \ whose
  BY DEF LetGo, QueueStep

\* The steps of the UI thread but the one that starts a request.
LEMMA UIStepsAreQuiet ==
    ASSUME DLInv, StartedInv,
           \/ BeginPass \/ DownloadFails \/ EndPass \/ StopDownloads \/ HostGoes
           \/ \E r \in Requests : CreateDownloadRequest(r) \/ AbortEntry(r) \/ AbortAsync(r)
           \/ UNCHANGED vars
    PROVE  QuietStep
<1>. USE DEF uiVars, workerVars, ownedVars
<1>1. TypeOK /\ entries \in Seq(Requests) /\ client \in [Requests -> {"none", "waiting", "refused", "gone"}]
  BY DEF DLInv, TypeOK
<1>2. CASE BeginPass \/ EndPass \/ StopDownloads \/ UNCHANGED vars
  <2>1. UNCHANGED <<request, refs, holders, client, entries, jobs, running, jobQueue, destroyer>>
    BY <1>2 DEF BeginPass, EndPass, StopDownloads, vars
  <2>. QED
    BY <2>1, RequestsUntouched, NobodyWaitsAnew DEF QuietStep, QueueStep, Threads
<1>3. CASE DownloadFails
  <2>1. /\ UNCHANGED <<request, refs, client, jobs, running>> /\ entries' = Tail(entries)
        /\ LetGo({Entry(Head(entries))}, "ui") /\ Head(entries) \in Requests
        /\ \A i \in DOMAIN Tail(entries) : i + 1 \in DOMAIN entries /\ Tail(entries)[i] = entries[i + 1]
    BY <1>1, <1>3, HeadAndTail DEF DownloadFails
  <2>2. QueueStep("ui") /\ (\A s \in Requests : Held(s) \in holders => Held(s) \in holders')
    BY <2>1, LetGoIsQueueStep, Tags
  <2>3. EntriesStay
    BY <2>1 DEF EntriesStay
  <2>. QED
    BY <2>1, <2>2, <2>3, RequestsUntouched DEF QuietStep, Threads
<1>4. CASE HostGoes
  <2>. DEFINE whose == {Host} \cup {Entry(r) : r \in Requests}
  <2>1. /\ UNCHANGED <<request, refs, client, jobs, running>> /\ entries' = <<>>
        /\ LetGo(whose, "ui")
    BY <1>4 DEF HostGoes
  <2>2. QueueStep("ui") /\ (\A s \in Requests : Held(s) \in holders => Held(s) \in holders')
    BY <2>1, LetGoIsQueueStep, Tags
  <2>3. EntriesStay
    BY <2>1 DEF EntriesStay
  <2>. QED
    BY <2>1, <2>2, <2>3, RequestsUntouched DEF QuietStep, Threads
<1>5. ASSUME NEW r \in Requests, CreateDownloadRequest(r) PROVE QuietStep
  <2>1. /\ UNCHANGED <<request, refs, jobs, running, jobQueue, destroyer>>
        /\ client[r] = "none" /\ holders' = holders \cup {Entry(r)} /\ entries' = Append(entries, r)
        /\ \A s \in Requests : client'[s] = "none" => client[s] = "none"
    BY <1>1, <1>5 DEF CreateDownloadRequest
  <2>2. ~WasStarted(r)
    BY <2>1 DEF StartedInv
  <2>3. \A i \in DOMAIN entries' : entries'[i] = r \/ (i \in DOMAIN entries /\ entries'[i] = entries[i])
    BY <1>1, <2>1
  <2>4. EntriesStay
    BY <2>1, <2>2, <2>3 DEF EntriesStay
  <2>. QED
    BY <2>1, <2>4, RequestsUntouched DEF QuietStep, QueueStep, Threads
<1>6. ASSUME NEW r \in Requests, AbortEntry(r) PROVE QuietStep
  <2>1. PICK k \in DOMAIN entries : entries' = RemoveAt(entries, k)
    BY <1>6 DEF AbortEntry
  <2>2. \A i \in DOMAIN entries' :
          LET j == IF i < k THEN i ELSE i + 1
          IN  i \in Nat /\ j \in DOMAIN entries /\ entries'[i] = entries[j]
    BY <1>1, <2>1, Removal
  <2>3. /\ UNCHANGED <<request, refs, jobs, running>> /\ LetGo({Entry(r)}, "ui")
        /\ \A s \in Requests : client'[s] = "none" => client[s] = "none"
    BY <1>1, <1>6 DEF AbortEntry
  <2>4. QueueStep("ui") /\ (\A s \in Requests : Held(s) \in holders => Held(s) \in holders')
    BY <2>3, LetGoIsQueueStep, Tags
  <2>5. EntriesStay
    BY <2>2, <2>3 DEF EntriesStay
  <2>. QED
    BY <2>3, <2>4, <2>5, RequestsUntouched DEF QuietStep, Threads
<1>7. ASSUME NEW r \in Requests, AbortAsync(r) PROVE QuietStep
  <2>1. /\ UNCHANGED <<request, entries, holders, jobs, running, jobQueue, destroyer>>
        /\ "owner" \in refs[r] /\ refs' = [refs EXCEPT ![r] = (@ \ {"owner"}) \cup {"work"}]
        /\ \A s \in Requests : client'[s] = "none" => client[s] = "none"
    BY <1>1, <1>7 DEF AbortAsync
  <2>2. \A s \in Requests : refs'[s] # {} => refs[s] # {}
    BY <1>1, <2>1 DEF TypeOK
  <2>3. KeepsStarted /\ KeepsDeferrals
    BY <2>1, <2>2 DEF KeepsStarted, KeepsDeferrals, WasStarted
  <2>4. EntriesStay
    BY <2>1 DEF EntriesStay
  <2>. QED
    BY <2>1, <2>3, <2>4 DEF QuietStep, QueueStep, Threads
<1>. QED
  BY <1>2, <1>3, <1>4, <1>5, <1>6, <1>7

\* The steps that let go of a request, but for the end of a job.
LEMMA ReleasesAreQuiet ==
    ASSUME DLInv, StartedInv, NEW r \in Requests,
           AbortNow(r) \/ ClientIsDone(r) \/ UrlmonLetsGo(r) \/ AbortAsyncCallback(r)
    PROVE  QuietStep
<1>. USE DEF uiVars, workerVars, ownedVars
<1>1. TypeOK /\ client \in [Requests -> {"none", "waiting", "refused", "gone"}]
  BY DEF DLInv, TypeOK
<1>2. UNCHANGED <<entries, jobs, running>> /\ EntriesStay
  <2>1. UNCHANGED <<entries, jobs, running>> /\ client' \in {client, [client EXCEPT ![r] = "gone"]}
    BY DEF AbortNow, ClientIsDone, UrlmonLetsGo, AbortAsyncCallback
  <2>. QED
    BY <1>1, <2>1 DEF EntriesStay
<1>3. ASSUME NEW ref \in refs[r], NEW thread \in Threads,
             NEW after \in {request[r], AbortedByClient(request[r])},
             ref = "urlmon" => request[r].bind = "stopped",
             Release(r, ref, thread, after)
      PROVE  QuietStep
  BY <1>2, <1>3, ReleaseIsQuiet DEF QuietStep
<1>4. CASE AbortNow(r)
  <2>. DEFINE after == IF host THEN AbortedByClient(request[r]) ELSE request[r]
  <2>1. /\ "owner" \in refs[r] /\ Release(r, "owner", "ui", after)
        /\ after \in {request[r], AbortedByClient(request[r])}
    BY <1>4 DEF AbortNow
  <2>. HIDE DEF after
  <2>. QED
    BY <1>3, <2>1 DEF Threads
<1>5. CASE ClientIsDone(r)
  <2>1. CASE "owner" \in refs[r]
    <3>1. Release(r, "owner", "ui", request[r])
      BY <1>5, <2>1 DEF ClientIsDone
    <3>. QED
      BY <1>3, <2>1, <3>1 DEF Threads
  <2>2. CASE "owner" \notin refs[r]
    <3>1. UNCHANGED <<refs, request, holders, jobQueue, destroyer>>
      BY <1>5, <2>2 DEF ClientIsDone
    <3>. QED
      BY <1>2, <3>1, RequestsUntouched DEF QuietStep, QueueStep, Threads
  <2>. QED
    BY <2>1, <2>2
<1>6. CASE UrlmonLetsGo(r)
  <2>1. "urlmon" \in refs[r] /\ request[r].bind = "stopped" /\ Release(r, "urlmon", "worker", request[r])
    BY <1>6 DEF UrlmonLetsGo
  <2>. QED
    BY <1>3, <2>1 DEF Threads
<1>7. CASE AbortAsyncCallback(r)
  <2>1. "work" \in refs[r] /\ Release(r, "work", "pool", AbortedByClient(request[r]))
    BY <1>7 DEF AbortAsyncCallback
  <2>. QED
    BY <1>3, <2>1 DEF Threads
<1>. QED
  BY <1>4, <1>5, <1>6, <1>7

\* A callback of urlmon leaves all that was started started.
LEMMA CallbackStaysStarted ==
    ASSUME DLInv, StartedInv, NEW r \in Requests,
           request[r].bind \in Live,
           NEW q \in RequestStates, request' = [request EXCEPT ![r] = q],
           q.callback = request[r].callback \/ q.dead \/ q.aborting,
           request[r].dead => q.dead, request[r].aborting => q.aborting,
           refs' = refs, \A s \in Requests : s # r /\ Held(s) \in holders => Held(s) \in holders'
    PROVE  KeepsStarted
<1>1. WasStarted(r) /\ TypeOK /\ request \in [Requests -> RequestStates]
  BY DEF StartedInv, DLInv, Bound, TypeOK
<1>2. request'[r] = q /\ \A s \in Requests : s # r => request'[s] = request[s]
  BY <1>1
<1>3. (q.callback \/ q.dead \/ q.aborting) /\ request[r].bind # "none"
  BY <1>1 DEF WasStarted, Live
<1>. QED
  BY <1>1, <1>2, <1>3 DEF KeepsStarted, WasStarted

\* The callbacks of urlmon that neither take a deferral nor give one back.
LEMMA CallbacksAreQuiet ==
    ASSUME DLInv, StartedInv, NEW r \in Requests, GiveUp(r) \/ FireGotResponse(r)
    PROVE  QuietStep
<1>. USE DEF uiVars, workerVars, ownedVars
<1>1. TypeOK /\ request[r] \in RequestStates
  BY DEF DLInv, TypeOK
<1>2. UNCHANGED <<entries, client, jobs, running, refs>> /\ EntriesStay
  <2>1. UNCHANGED <<entries, client, jobs, running, refs>>
    BY DEF GiveUp, FireGotResponse
  <2>. QED
    BY <2>1, NobodyWaitsAnew
<1>3. CASE GiveUp(r)
  <2>. DEFINE q == Aborted(request[r])
  <2>1. /\ request[r].bind = "bound" /\ request' = [request EXCEPT ![r] = q]
        /\ UNCHANGED <<holders, jobQueue, destroyer>>
    BY <1>3 DEF GiveUp
  <2>2. /\ q \in RequestStates /\ q.aborting /\ q.dead = request[r].dead
        /\ q.deferral = request[r].deferral
    BY <1>1, <2>1 DEF Aborted, RequestStates, Bindings
  <2>. HIDE DEF q
  <2>3. KeepsStarted
    BY <1>2, <2>1, <2>2, CallbackStaysStarted DEF Live
  <2>4. KeepsDeferrals
    BY <1>1, <2>1, <2>2 DEF KeepsDeferrals, TypeOK
  <2>. QED
    BY <1>2, <2>1, <2>3, <2>4 DEF QuietStep, QueueStep, Threads
<1>4. CASE FireGotResponse(r)
  <2>. DEFINE q == [request[r] EXCEPT !.bind = "stopped", !.dead = TRUE, !.callback = FALSE]
  <2>1. request[r].bind = "responding" /\ request' = [request EXCEPT ![r] = q]
    BY <1>1, <1>4 DEF FireGotResponse, TypeOK
  <2>2. /\ q \in RequestStates /\ q.dead /\ q.aborting = request[r].aborting
        /\ q.deferral = request[r].deferral
    BY <1>1, States DEF RequestStates
  <2>. HIDE DEF q
  <2>3. /\ \E thread \in Threads : QueueStep(thread)
        /\ \A s \in Requests : s # r /\ Held(s) \in holders => Held(s) \in holders'
    <3>1. CASE request[r].callback
      <4>1. LetGo({Held(r)}, "worker")
        BY <1>4, <3>1 DEF FireGotResponse
      <4>2. QueueStep("worker") /\ holders' = holders \ {Held(r)}
        BY <4>1, LetGoIsQueueStep
      <4>. QED
        BY <4>2, Tags DEF Threads
    <3>2. CASE ~request[r].callback
      BY <1>4, <3>2 DEF FireGotResponse, QueueStep, Threads
    <3>. QED
      BY <3>1, <3>2
  <2>4. KeepsStarted
    BY <1>2, <2>1, <2>2, <2>3, CallbackStaysStarted DEF Live
  <2>5. KeepsDeferrals
    BY <1>1, <2>1, <2>2 DEF KeepsDeferrals, TypeOK
  <2>. QED
    BY <1>2, <2>3, <2>4, <2>5 DEF QuietStep
<1>. QED
  BY <1>3, <1>4

\* A binding that starts may take a deferral.
LEMMA OnStartBindingHolds ==
    ASSUME DLInv, StartedInv, NEW r \in Requests, OnStartBinding(r)
    PROVE  /\ KeepsStarted /\ UNCHANGED <<entries, client, jobs, running, jobQueue, destroyer>>
           /\ ~request[r].deferral /\ jobQueue \in {"live", "closing"}
           /\ \A s \in Requests : s # r => request'[s].deferral = request[s].deferral
<1>. USE DEF uiVars, workerVars, ownedVars
<1>1. TypeOK /\ request[r] \in RequestStates
  BY DEF DLInv, TypeOK
<1>. DEFINE q == Started(request[r])
<1>2. /\ request[r].bind = "starting" /\ request' = [request EXCEPT ![r] = q] /\ WorkerFree
      /\ UNCHANGED <<refs, holders, entries, client, jobs, running, jobQueue, destroyer>>
  BY DEF OnStartBinding
<1>3. /\ q \in RequestStates /\ q.callback = request[r].callback
      /\ q.dead = request[r].dead /\ q.aborting = request[r].aborting
  BY <1>1, States DEF Started, RequestStates
<1>. HIDE DEF q
<1>4. KeepsStarted
  BY <1>2, <1>3, CallbackStaysStarted DEF Live
<1>5. ~request[r].deferral
  BY <1>2 DEF DLInv, DeferralsGoFirst
<1>6. \A s \in Requests : s # r => request'[s].deferral = request[s].deferral
  BY <1>1, <1>2 DEF TypeOK
<1>. QED
  BY <1>2, <1>4, <1>5, <1>6 DEF WorkerFree

\* A binding that stops may give its deferral back.
LEMMA OnStopBindingReleases ==
    ASSUME DLInv, StartedInv, NEW r \in Requests, OnStopBinding(r)
    PROVE  /\ KeepsStarted /\ UNCHANGED <<entries, client, jobs, running, jobQueue, destroyer>>
           /\ request'[r].deferral \in {request[r].deferral, FALSE}
           /\ jobQueue \in {"live", "closing"}
           /\ \A s \in Requests : s # r => request'[s].deferral = request[s].deferral
<1>. USE DEF uiVars, workerVars, ownedVars
<1>1. TypeOK /\ request[r] \in RequestStates
  BY DEF DLInv, TypeOK
<1>. DEFINE q == IF request[r].dead THEN [request[r] EXCEPT !.bind = "stopped"]
                 ELSE [request[r] EXCEPT !.bind = "responding", !.deferral = FALSE]
<1>2. /\ request[r].bind \in Live /\ request' = [request EXCEPT ![r] = q] /\ WorkerFree
      /\ UNCHANGED <<refs, holders, entries, client, jobs, running, jobQueue, destroyer>>
  BY DEF OnStopBinding, MayCallBack, Live
<1>3. /\ q \in RequestStates /\ q.callback = request[r].callback
      /\ q.dead = request[r].dead /\ q.aborting = request[r].aborting
      /\ q.deferral \in {request[r].deferral, FALSE}
  BY <1>1, States DEF RequestStates, Bindings
<1>. HIDE DEF q
<1>4. KeepsStarted
  BY <1>2, <1>3, CallbackStaysStarted
<1>5. /\ request'[r].deferral \in {request[r].deferral, FALSE}
      /\ \A s \in Requests : s # r => request'[s].deferral = request[s].deferral
  BY <1>1, <1>2, <1>3 DEF TypeOK
<1>. QED
  BY <1>2, <1>4, <1>5 DEF WorkerFree

\* A job that ends lets go of its request, and goes on running when that takes the queue along.
LEMMA EndJobFinishes ==
    ASSUME DLInv, StartedInv, NEW r \in Requests, EndJob(r)
    PROVE  /\ KeepsStarted /\ KeepsDeferrals /\ UNCHANGED <<entries, client, jobs>>
           /\ running = r
           /\ \/ running' = NoRequest /\ UNCHANGED <<jobQueue, destroyer>>
              \/ running' = r /\ QueueStep("worker")
<1>. USE DEF uiVars, workerVars, ownedVars
<1>1. /\ running = r /\ WorkerFree /\ Release(r, "job", "worker", request[r])
      /\ running' = IF destroyer' = "worker" THEN r ELSE NoRequest
      /\ UNCHANGED <<entries, client, jobs>>
  BY DEF EndJob
<1>2. destroyer # "worker" /\ destroyer # "none" => destroyer' # "worker"
  BY <1>1 DEF DLInv, Release, LetGo, ownedVars
<1>3. destroyer # "worker"
  BY <1>1 DEF DLInv, Lifetime, WorkerFree
<1>4. "job" \in refs[r]
  BY <1>1, <1>3, RequestsAssumption DEF DLInv, Jobs
<1>5. KeepsStarted /\ KeepsDeferrals /\ QueueStep("worker")
  BY <1>1, <1>4, ReleaseIsQuiet DEF Threads
<1>6. running' = NoRequest => UNCHANGED <<jobQueue, destroyer>>
  BY <1>1, <1>5, RequestsAssumption DEF QueueStep
<1>. QED
  BY <1>1, <1>5, <1>6

\* A job that begins is the first of those that wait.
LEMMA RunJobStarts ==
    ASSUME DLInv, StartedInv, RunJob
    PROVE  /\ KeepsStarted /\ KeepsDeferrals
           /\ UNCHANGED <<entries, client, jobQueue, destroyer>>
           /\ jobQueue \in {"live", "closing"} /\ running = NoRequest
           /\ jobs # <<>> /\ jobs' = Tail(jobs) /\ running' = Head(jobs) /\ Head(jobs) \in Requests
           /\ \A i \in DOMAIN jobs' : \E j \in DOMAIN jobs : jobs'[i] = jobs[j]
<1>. USE DEF uiVars, workerVars, ownedVars
<1>. DEFINE r == Head(jobs)
<1>1. /\ r \in Requests /\ 1 \in DOMAIN jobs /\ r = jobs[1]
      /\ \A i \in DOMAIN Tail(jobs) : i + 1 \in DOMAIN jobs /\ Tail(jobs)[i] = jobs[i + 1]
  BY HeadAndTail DEF DLInv, TypeOK, RunJob
<1>2. /\ WorkerFree /\ running = NoRequest /\ running' = r /\ jobs # <<>> /\ jobs' = Tail(jobs)
      /\ UNCHANGED <<holders, entries, client, jobQueue, destroyer>>
  BY DEF RunJob
<1>3. PICK b \in {"refused", "starting"} :
        /\ request' = [request EXCEPT ![r].bind = b]
        /\ refs' = refs \/ refs' = [refs EXCEPT ![r] = @ \cup {"urlmon"}]
  BY DEF RunJob
<1>4. "job" \in refs[r] /\ TypeOK
  BY <1>1 DEF DLInv, Jobs
<1>. HIDE DEF r
<1>5. /\ \A s \in Requests : s # r => request'[s] = request[s] /\ refs'[s] = refs[s]
      /\ request'[r].callback = request[r].callback /\ request'[r].dead = request[r].dead
      /\ request'[r].aborting = request[r].aborting
      /\ request'[r].deferral = request[r].deferral
  BY <1>1, <1>3, <1>4 DEF TypeOK, RequestStates
<1>6. KeepsStarted /\ KeepsDeferrals
  BY <1>1, <1>2, <1>4, <1>5 DEF KeepsStarted, KeepsDeferrals, WasStarted
<1>. QED
  BY <1>1, <1>2, <1>6 DEF WorkerFree, r

\* A request that is started was not, and its job is queued last.
LEMMA DownloadQueues ==
    ASSUME DLInv, StartedInv, Download
    PROVE  \E r \in Requests :
              /\ ~WasStarted(r) /\ WasStarted(r)'
              /\ \A s \in Requests : s # r => request'[s] = request[s] /\ refs'[s] = refs[s]
              /\ ~request[r].deferral /\ ~request'[r].deferral
              /\ client[r] # "none" /\ \A i \in DOMAIN entries' : entries'[i] # r
              /\ \A i \in DOMAIN entries' : \E j \in DOMAIN entries : entries'[i] = entries[j]
              /\ jobs' = Append(jobs, r)
              /\ \A s \in Requests : Held(s) \in holders => Held(s) \in holders'
              /\ Held(r) \in holders'
              /\ UNCHANGED <<client, running, destroyer>>
              /\ destroyer = "none" /\ jobQueue \in {"none", "live"} /\ jobQueue' = "live"
<1>. USE DEF uiVars, workerVars, ownedVars
<1>. PICK r \in Requests : r = Head(entries)
  BY HeadAndTail DEF DLInv, TypeOK, Download
<1>1. /\ r = Head(entries) /\ 1 \in DOMAIN entries /\ r = entries[1] /\ entries' = Tail(entries)
      /\ \A i \in DOMAIN entries' : i + 1 \in DOMAIN entries /\ i \in Nat /\ i # 0
                                   /\ entries'[i] = entries[i + 1]
  BY HeadAndTail DEF DLInv, TypeOK, Download
<1>2. /\ request' = [request EXCEPT ![r] = [NewRequest EXCEPT !.callback = TRUE]]
      /\ holders' = (holders \ {Entry(r)}) \cup {Held(r)}
      /\ jobs' = Append(jobs, r) /\ jobQueue' = "live" /\ passing
      /\ UNCHANGED <<client, running, destroyer>>
      /\ \A s \in Requests : s # r => refs'[s] = refs[s]
  BY DEF Download, DLInv, TypeOK
<1>3. LET new == [NewRequest EXCEPT !.callback = TRUE] IN new.callback /\ ~new.deferral
  BY DEF NewRequest
<1>4. TypeOK /\ request \in [Requests -> RequestStates]
  BY DEF DLInv, TypeOK
<1>5. /\ ~WasStarted(r) /\ client[r] # "none" /\ refs[r] = {}
      /\ \A i \in DOMAIN entries' : entries'[i] # r
  BY <1>1 DEF StartedInv, DLInv, Waiting, Fresh
<1>6. ~request[r].deferral
  BY <1>1, <1>5 DEF DLInv, DeferralsGoFirst, Bound, Live
<1>7. destroyer = "none" /\ jobQueue \in {"none", "live"}
  BY <1>2 DEF DLInv, Lifetime, TypeOK
<1>8. /\ WasStarted(r)' /\ ~request'[r].deferral
      /\ \A s \in Requests : s # r => request'[s] = request[s]
  BY <1>1, <1>2, <1>3, <1>4 DEF WasStarted
<1>9. (\A s \in Requests : Held(s) \in holders => Held(s) \in holders') /\ Held(r) \in holders'
  BY <1>1, <1>2, Tags
<1>10. \A i \in DOMAIN entries' : \E j \in DOMAIN entries : entries'[i] = entries[j]
  BY <1>1
<1>. QED
  BY <1>2, <1>5, <1>6, <1>7, <1>8, <1>9, <1>10

\* What keeps the requests that were started keeps the invariant.
LEMMA KeepsInvariant ==
    ASSUME DLInv, DLInv', StartedInv, KeepsStarted, EntriesStay,
           \A i \in DOMAIN jobs' : \E j \in DOMAIN jobs : jobs'[i] = jobs[j]
    PROVE  StartedInv'
<1>1. /\ jobs \in Seq(Requests) /\ jobs' \in Seq(Requests)
      /\ entries \in Seq(Requests) /\ entries' \in Seq(Requests)
  BY DEF DLInv, TypeOK
<1>2. ASSUME NEW i \in DOMAIN jobs' PROVE Held(jobs'[i]) \in holders'
  <2>1. PICK j \in DOMAIN jobs : jobs'[i] = jobs[j]
    OBVIOUS
  <2>2. /\ jobs[j] \in Requests /\ Held(jobs[j]) \in holders /\ request[jobs[j]].bind = "none"
        /\ "job" \in refs'[jobs'[i]]
    BY <1>1, <2>1 DEF DLInv, Jobs, StartedInv
  <2>. QED
    BY <2>1, <2>2 DEF KeepsStarted
<1>3. \A r \in Requests : refs'[r] # {} => WasStarted(r)'
  BY DEF KeepsStarted, StartedInv
<1>4. ASSUME NEW r \in Requests, WasStarted(r)'
      PROVE  client'[r] # "none" /\ \A i \in DOMAIN entries' : entries'[i] # r
  <2>1. WasStarted(r) /\ client[r] # "none" /\ \A i \in DOMAIN entries : entries[i] # r
    BY <1>4 DEF KeepsStarted, StartedInv
  <2>. QED
    BY <2>1 DEF EntriesStay
<1>. QED
  BY <1>2, <1>3, <1>4 DEF StartedInv

\* Every step is quiet, or a step of the queue of jobs.
LEMMA StepKinds ==
    ASSUME DLInv, StartedInv, [Next]_vars
    PROVE  \/ QuietStep \/ Download \/ RunJob \/ QueueCloses
           \/ \E r \in Requests : OnStartBinding(r) \/ OnStopBinding(r) \/ EndJob(r)
<1>1. CASE Pass \/ TearDown \/ RunJob \/ UNCHANGED vars
  BY <1>1, UIStepsAreQuiet DEF Pass, TearDown
<1>2. ASSUME NEW r \in Requests, CreateDownloadRequest(r) \/ ClientAborts(r) \/ ClientIsDone(r)
      PROVE  QuietStep
  BY <1>2, UIStepsAreQuiet, ReleasesAreQuiet DEF ClientAborts
<1>3. ASSUME NEW r \in Requests, Callback(r) \/ GiveUp(r) \/ AbortAsyncCallback(r)
      PROVE  QuietStep \/ OnStartBinding(r) \/ OnStopBinding(r) \/ EndJob(r)
  BY <1>3, CallbacksAreQuiet, ReleasesAreQuiet DEF Callback
<1>. QED
  BY <1>1, <1>2, <1>3 DEF Next

\* So every step preserves the invariant.
LEMMA StartedPreserves ==
    ASSUME DLInv, DLInv', StartedInv, [Next]_vars
    PROVE  StartedInv'
<1>1. CASE QuietStep
  BY <1>1, KeepsInvariant DEF QuietStep
<1>2. CASE Download
  <2>1. PICK r \in Requests :
          /\ WasStarted(r)'
          /\ \A s \in Requests : s # r => request'[s] = request[s] /\ refs'[s] = refs[s]
          /\ client[r] # "none" /\ \A i \in DOMAIN entries' : entries'[i] # r
          /\ \A i \in DOMAIN entries' : \E j \in DOMAIN entries : entries'[i] = entries[j]
          /\ jobs' = Append(jobs, r)
          /\ \A s \in Requests : Held(s) \in holders => Held(s) \in holders'
          /\ Held(r) \in holders'
          /\ UNCHANGED client
    BY <1>2, DownloadQueues
  <2>2. jobs \in Seq(Requests) /\ entries \in Seq(Requests)
    BY DEF DLInv, TypeOK
  <2>3. \A i \in DOMAIN jobs' : jobs'[i] = r \/ (i \in DOMAIN jobs /\ jobs'[i] = jobs[i])
    BY <2>1, <2>2
  <2>4. \A i \in DOMAIN jobs' : Held(jobs'[i]) \in holders'
    <3>1. \A i \in DOMAIN jobs : jobs[i] \in Requests /\ Held(jobs[i]) \in holders
      BY <2>2 DEF StartedInv
    <3>. QED
      BY <2>1, <2>3, <3>1
  <2>5. \A s \in Requests : s # r => (WasStarted(s)' <=> WasStarted(s))
    BY <2>1 DEF WasStarted
  <2>6. \A s \in Requests : refs'[s] # {} => WasStarted(s)'
    BY <2>1, <2>5 DEF StartedInv
  <2>7. \A s \in Requests : WasStarted(s)' =>
           client'[s] # "none" /\ \A i \in DOMAIN entries' : entries'[i] # s
    BY <2>1, <2>5 DEF StartedInv
  <2>. QED
    BY <2>4, <2>6, <2>7 DEF StartedInv
<1>3. CASE RunJob
  BY <1>3, RunJobStarts, NobodyWaitsAnew, KeepsInvariant
<1>4. CASE QueueCloses
  <2>1. UNCHANGED <<request, refs, holders, jobs, client, entries>>
    BY <1>4 DEF QueueCloses, uiVars, workerVars
  <2>. QED
    BY <2>1, RequestsUntouched, NobodyWaitsAnew, KeepsInvariant
<1>5. ASSUME NEW r \in Requests, OnStartBinding(r) \/ OnStopBinding(r) \/ EndJob(r)
      PROVE  StartedInv'
  <2>1. KeepsStarted /\ UNCHANGED <<entries, client, jobs>>
    BY <1>5, OnStartBindingHolds, OnStopBindingReleases, EndJobFinishes
  <2>. QED
    BY <2>1, NobodyWaitsAnew, KeepsInvariant
<1>. QED
  BY <1>1, <1>2, <1>3, <1>4, <1>5, StepKinds

\* Jobs keep their downloader in every state.
LEMMA StartedInvariance == Spec => []StartedInv
<1>1. Init => StartedInv
  <2>. SUFFICES ASSUME Init PROVE StartedInv
    OBVIOUS
  <2>1. \A r \in Requests : refs[r] = {} /\ ~WasStarted(r)
    BY DEF Init, NewRequest, WasStarted
  <2>2. DOMAIN jobs = {}
    BY DEF Init
  <2>. QED
    BY <2>1, <2>2 DEF StartedInv
<1>2. DLInv /\ DLInv' /\ StartedInv /\ [Next]_vars => StartedInv'
  BY StartedPreserves
<1>. QED
  BY Invariance, <1>1, <1>2, PTL DEF Spec

\* What the service sees.
Given == {r \in Requests : WasStarted(r)}
Owed == {r \in Requests : request[r].deferral}
TheJob == {running} \ {NoRequest}
Object == IF jobQueue \in {"none", "live"} THEN "alive" ELSE jobQueue
Active == jobQueue \in {"live", "closing"}

\* What starts nothing shows nothing but the queue that goes, when no job waits and no deferral
\* is held.
LEMMA QuietMaps ==
    ASSUME DLInv, DLInv', StartedInv', KeepsStarted, KeepsDeferrals, NEW thread \in Threads,
           QueueStep(thread), UNCHANGED <<jobs, running>>
    PROVE  [Service!JobServiceNext]_Service!serviceVars
<1>1. Given' = Given /\ Owed' = Owed /\ TheJob' = TheJob
  BY DEF KeepsStarted, KeepsDeferrals, Given, Owed, TheJob
<1>2. CASE jobQueue' = jobQueue
  BY <1>1, <1>2 DEF Service!serviceVars, Given, Owed, TheJob
<1>3. CASE jobQueue' # jobQueue
  <2>1. jobQueue = "live" /\ jobQueue' = "closing" /\ destroyer' # "none"
    BY <1>3 DEF QueueStep, Threads
  <2>2. holders' = {} /\ jobs \in Seq(Requests)
    BY <2>1 DEF DLInv, Lifetime, TypeOK
  <2>3. jobs = <<>>
    <3>1. DOMAIN jobs = {}
      BY <2>2 DEF StartedInv
    <3>. QED
      BY <2>2, <3>1
  <2>4. Owed = {}
    BY <1>1, <2>1 DEF DLInv, DeferralsGoFirst, Owed
  <2>5. Object = "alive" /\ Object' = "closing" /\ Active /\ Active'
    BY <2>1 DEF Object, Active
  <2>6. Service!Close
    BY <1>1, <2>3, <2>4, <2>5 DEF Service!Close, Given, Owed, TheJob, Object, Active
  <2>. QED
    BY <2>6 DEF Service!JobServiceNext
<1>. QED
  BY <1>2, <1>3

\* Every step keeps to the service.
LEMMA StepMaps ==
    ASSUME DLInv, DLInv', StartedInv, StartedInv', [Next]_vars
    PROVE  [Service!JobServiceNext]_Service!serviceVars
<1>1. CASE QuietStep
  BY <1>1, QuietMaps DEF QuietStep
<1>2. CASE Download
  <2>1. PICK r \in Requests :
          /\ ~WasStarted(r) /\ WasStarted(r)'
          /\ \A s \in Requests : s # r => request'[s] = request[s] /\ refs'[s] = refs[s]
          /\ ~request[r].deferral /\ ~request'[r].deferral
          /\ jobs' = Append(jobs, r) /\ UNCHANGED running
          /\ jobQueue \in {"none", "live"} /\ jobQueue' = "live"
    BY <1>2, DownloadQueues
  <2>2. Given' = Given \union {r} /\ r \notin Given
    BY <2>1 DEF Given, WasStarted
  <2>3. Owed' = Owed /\ TheJob' = TheJob
    BY <2>1 DEF Owed, TheJob
  <2>4. Object = "alive" /\ Object' = "alive" /\ Active'
    BY <2>1 DEF Object, Active
  <2>5. Service!Queue(r)
    BY <2>1, <2>2, <2>3, <2>4
       DEF Service!Queue, Service!InUse, Given, Owed, TheJob, Object, Active
  <2>. QED
    BY <2>5 DEF Service!JobServiceNext
<1>3. CASE RunJob
  <2>1. /\ KeepsStarted /\ KeepsDeferrals /\ UNCHANGED <<jobQueue, destroyer>>
        /\ jobQueue \in {"live", "closing"} /\ running = NoRequest
        /\ jobs # <<>> /\ jobs' = Tail(jobs) /\ running' = Head(jobs) /\ Head(jobs) \in Requests
    BY <1>3, RunJobStarts
  <2>2. Given' = Given /\ Owed' = Owed
    BY <2>1 DEF KeepsStarted, KeepsDeferrals, Given, Owed
  <2>3. TheJob = {} /\ TheJob' = {Head(jobs)}
    BY <2>1, RequestsAssumption DEF TheJob
  <2>4. Object' = Object /\ Active /\ Active'
    BY <2>1 DEF Object, Active
  <2>5. Service!Start
    BY <2>1, <2>2, <2>3, <2>4 DEF Service!Start, Given, Owed, TheJob, Object, Active
  <2>. QED
    BY <2>5 DEF Service!JobServiceNext
<1>4. CASE QueueCloses
  <2>1. /\ UNCHANGED <<request, jobs, running>>
        /\ jobQueue = "closing" /\ jobQueue' = "destroyed" /\ running = NoRequest
    BY <1>4 DEF QueueCloses, uiVars, workerVars
  <2>2. jobs = <<>>
    <3>1. holders = {} /\ jobs \in Seq(Requests)
      BY <2>1 DEF DLInv, Lifetime, TypeOK
    <3>2. DOMAIN jobs = {}
      BY <3>1 DEF StartedInv
    <3>. QED
      BY <3>1, <3>2
  <2>3. Given' = Given /\ Owed' = Owed /\ TheJob = {} /\ TheJob' = {}
    BY <2>1 DEF Given, Owed, TheJob, WasStarted
  <2>4. Object = "closing" /\ Object' = "destroyed" /\ ~Active'
    BY <2>1 DEF Object, Active
  <2>5. Service!End
    BY <2>1, <2>2, <2>3, <2>4 DEF Service!End, Given, Owed, TheJob, Object, Active
  <2>. QED
    BY <2>5 DEF Service!JobServiceNext
<1>5. ASSUME NEW r \in Requests, OnStartBinding(r) PROVE [Service!JobServiceNext]_Service!serviceVars
  <2>1. /\ KeepsStarted /\ UNCHANGED <<jobs, running, jobQueue>>
        /\ ~request[r].deferral /\ jobQueue \in {"live", "closing"}
        /\ \A s \in Requests : s # r => request'[s].deferral = request[s].deferral
    BY <1>5, OnStartBindingHolds
  <2>2. Given' = Given /\ TheJob' = TheJob /\ Object' = Object /\ Active /\ Active'
    BY <2>1 DEF KeepsStarted, Given, TheJob, Object, Active
  <2>3. CASE request'[r].deferral
    <3>1. Owed' = Owed \union {r} /\ r \in Requests \ Owed
      BY <2>1, <2>3 DEF Owed
    <3>2. Service!Hold
      BY <2>1, <2>2, <3>1 DEF Service!Hold, Service!InUse, Given, Owed, TheJob, Object, Active
    <3>. QED
      BY <3>2 DEF Service!JobServiceNext
  <2>4. CASE ~request'[r].deferral
    <3>1. Owed' = Owed
      BY <2>1, <2>4 DEF Owed
    <3>. QED
      BY <2>1, <2>2, <3>1 DEF Service!serviceVars, Given, Owed, TheJob
  <2>. QED
    BY <2>3, <2>4
<1>6. ASSUME NEW r \in Requests, OnStopBinding(r) PROVE [Service!JobServiceNext]_Service!serviceVars
  <2>1. /\ KeepsStarted /\ UNCHANGED <<jobs, running, jobQueue>>
        /\ request'[r].deferral \in {request[r].deferral, FALSE}
        /\ jobQueue \in {"live", "closing"}
        /\ \A s \in Requests : s # r => request'[s].deferral = request[s].deferral
    BY <1>6, OnStopBindingReleases
  <2>2. Given' = Given /\ TheJob' = TheJob /\ Object' = Object /\ Active /\ Active'
    BY <2>1 DEF KeepsStarted, Given, TheJob, Object, Active
  <2>3. CASE request[r].deferral /\ ~request'[r].deferral
    <3>1. Owed' = Owed \ {r} /\ r \in Owed
      BY <2>1, <2>3 DEF Owed
    <3>2. Service!Release
      BY <2>1, <2>2, <3>1 DEF Service!Release, Service!InUse, Given, Owed, TheJob, Object, Active
    <3>. QED
      BY <3>2 DEF Service!JobServiceNext
  <2>4. CASE ~(request[r].deferral /\ ~request'[r].deferral)
    <3>1. Owed' = Owed
      BY <2>1, <2>4 DEF Owed
    <3>. QED
      BY <2>1, <2>2, <3>1 DEF Service!serviceVars, Given, Owed, TheJob
  <2>. QED
    BY <2>3, <2>4
<1>7. ASSUME NEW r \in Requests, EndJob(r) PROVE [Service!JobServiceNext]_Service!serviceVars
  <2>1. /\ KeepsStarted /\ KeepsDeferrals /\ UNCHANGED jobs /\ running = r
        /\ \/ running' = NoRequest /\ UNCHANGED <<jobQueue, destroyer>>
           \/ running' = r /\ QueueStep("worker")
    BY <1>7, EndJobFinishes
  <2>2. CASE running' = r /\ QueueStep("worker")
    BY <2>1, <2>2, QuietMaps DEF Threads
  <2>3. CASE running' = NoRequest /\ UNCHANGED <<jobQueue, destroyer>>
    <3>1. Given' = Given /\ Owed' = Owed /\ Object' = Object /\ Active' = Active
      BY <2>1, <2>3 DEF KeepsStarted, KeepsDeferrals, Given, Owed, Object, Active
    <3>2. TheJob # {} /\ TheJob' = {}
      BY <2>1, <2>3, RequestsAssumption DEF TheJob
    <3>3. Service!Finish
      BY <2>1, <3>1, <3>2 DEF Service!Finish, Given, Owed, TheJob, Object, Active
    <3>. QED
      BY <3>3 DEF Service!JobServiceNext
  <2>. QED
    BY <2>1, <2>2, <2>3
<1>. QED
  BY <1>1, <1>2, <1>3, <1>4, <1>5, <1>6, <1>7, StepKinds

\* Whichever thread destroys the downloader when, its queue is used as JobService allows, and no
\* more of it is taken for granted (ThreadedJobQueue.h:41-51, :76-79), for every set of requests.
THEOREM DownloadsUseTheService == Spec => KeepsToJobService
<1>1. Init => Service!JobServiceInit
  <2>. SUFFICES ASSUME Init PROVE Service!JobServiceInit
    OBVIOUS
  <2>1. Given = {} /\ Owed = {}
    BY DEF Init, NewRequest, WasStarted, Given, Owed
  <2>2. TheJob = {} /\ Object = "alive" /\ ~Active /\ jobs = <<>>
    BY DEF Init, TheJob, Object, Active
  <2>. QED
    BY <2>1, <2>2 DEF Service!JobServiceInit, Given, Owed, TheJob, Object, Active
<1>2. DLInv /\ DLInv' /\ StartedInv /\ StartedInv' /\ [Next]_vars
        => [Service!JobServiceNext]_Service!serviceVars
  BY StepMaps
<1>. QED
  BY Invariance, StartedInvariance, <1>1, <1>2, PTL
     DEF Spec, KeepsToJobService, Service!JobServiceSpec
=============================================================================
