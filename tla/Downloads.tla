------------------------------ MODULE Downloads ------------------------------
(***************************************************************************)
(* Downloads, as three threads see them: the UI thread queues requests and *)
(* starts them when its message comes (AsyncDownloadRequestManager.cpp,    *)
(* WinBrowserHost.cpp); the worker of a ThreadedJobQueue runs their jobs   *)
(* and the callbacks of urlmon (windwnreq.cpp); a thread of the pool       *)
(* aborts them.  Whoever lets go of the last reference to a request or to  *)
(* the downloader destroys it, and with the downloader goes the queue.  Of *)
(* the queue only what JobService says is used: jobs run in order on one   *)
(* thread, which stays while a deferral is held, and the destructor waits  *)
(* for that thread.                                                        *)
(***************************************************************************)
EXTENDS Integers, Sequences, SequencesExt

CONSTANTS
    Requests,       \* the downloads there can be
    NoRequest       \* not one of them

ASSUME RequestsAssumption == NoRequest \notin Requests

VARIABLES
    entries,    \* m_pDownloadRequestQueue: requests that wait for the message
    messages,   \* WM_DOWNLOAD_ASYNC_REQUESTS posted and not yet dispatched
    passing,    \* m_bDownloadingRequests
    client,     \* who asked: "none" yet, "waiting", "refused" by QueueRequest, "gone"
    request,    \* the CWindowsDownloadRequest, and what urlmon does for it
    refs,       \* who refers to it; it exists while somebody does
    holders,    \* who refers to the CDownloader: the host, entries, requests
    stop,       \* m_fStopDownloads; the core is being destroyed
    host,       \* the CXcpBrowserHost exists
    jobs,       \* the jobs of the queue
    running,    \* the request whose job the worker runs
    jobQueue,   \* m_threadedJobQueue: "none" yet, "live", "closing", "destroyed"
    destroyer,  \* the thread that destroyed the CDownloader, or "none"
    answers,    \* history: calls of GotResponse
    cut         \* history: requests that AbortRequest has been called for

uiVars == <<entries, messages, passing, client, stop, host>>
workerVars == <<jobs, running>>
ownedVars == <<holders, jobQueue, destroyer>>
vars == <<uiVars, workerVars, ownedVars, request, refs, answers, cut>>

Threads == {"ui", "worker", "pool"}
\* What urlmon does: nothing yet, refuses at once, is about to call OnStartBinding, has been
\* told no by it, is bound, is to stop, is in OnStopBinding (which holds m_asyncMutex), has stopped.
Bindings == {"none", "refused", "starting", "failed", "bound", "stopping", "responding", "stopped"}
Entry(r) == <<"entry", r>>
Held(r) == <<"request", r>>
Host == <<"host", NoRequest>>
Referrers == {Host} \cup {Entry(r) : r \in Requests} \cup {Held(r) : r \in Requests}

\* The flags of a request: it has a callback to answer, m_bDead, m_bAborting, it holds a deferral.
RequestStates == [callback : BOOLEAN, dead : BOOLEAN, aborting : BOOLEAN, deferral : BOOLEAN,
                  bind : Bindings]

\* The constructor, and Initialize.
NewRequest == [callback |-> FALSE, dead |-> FALSE, aborting |-> FALSE, deferral |-> FALSE, bind |-> "none"]

Init ==
    /\ entries = <<>> /\ messages = 0 /\ passing = FALSE
    /\ client = [r \in Requests |-> "none"]
    /\ request = [r \in Requests |-> NewRequest]
    /\ refs = [r \in Requests |-> {}]
    /\ holders = {Host} /\ stop = FALSE /\ host = TRUE
    /\ jobs = <<>> /\ running = NoRequest
    /\ jobQueue = "none" /\ destroyer = "none"
    /\ answers = [r \in Requests |-> 0] /\ cut = {}

-----------------------------------------------------------------------------
\* References to the downloader go; the last one takes it and its queue along, on this thread.
\* No job is left by then: the request of one still refers to the downloader.
LetGo(whose, thread) ==
    /\ holders' = holders \ whose
    /\ IF holders' = {} /\ destroyer = "none"
       THEN /\ destroyer' = thread
            /\ jobQueue' = IF jobQueue = "live" THEN "closing" ELSE jobQueue
       ELSE UNCHANGED <<destroyer, jobQueue>>

\* A reference to a request goes, which is left as "after"; the last one destroys it.
Release(r, ref, thread, after) ==
    /\ refs' = [refs EXCEPT ![r] = @ \ {ref}]
    /\ IF refs[r] = {ref}
       THEN /\ request' = [request EXCEPT ![r] = [NewRequest EXCEPT !.bind = after.bind,
                                                    !.dead = TRUE, !.aborting = TRUE]]
            /\ LetGo({Held(r)}, thread)
       ELSE /\ request' = [request EXCEPT ![r] = after]
            /\ UNCHANGED ownedVars

\* m_asyncMutex is held by a callback of urlmon.
Locked(r) == request[r].bind = "responding"

\* Abort: by the binding if there is one.
Aborted(q) ==
    IF q.bind \in {"bound", "stopping"}
    THEN [q EXCEPT !.aborting = TRUE, !.bind = "stopping"]
    ELSE [q EXCEPT !.aborting = TRUE, !.dead = TRUE]

\* Mutant of AbortedByClient: the callback stays.
AbortedByClientKeepsCallback(q) == IF q.callback THEN Aborted(q) ELSE q

\* AbortRequest
AbortedByClient(q) == IF q.callback THEN Aborted([q EXCEPT !.callback = FALSE]) ELSE q
-----------------------------------------------------------------------------
(* The UI thread *)

\* The UI thread is not waiting for the worker in ~ThreadedJobQueue.
UIFree == ~(destroyer = "ui" /\ jobQueue = "closing")

\* CreateDownloadRequest, QueueRequest: the request waits for a message, and keeps waiting
\* when the post of it fails.
CreateDownloadRequest(r) ==
    /\ ~stop /\ ~passing /\ client[r] = "none"
    /\ entries' = Append(entries, r)
    /\ holders' = holders \cup {Entry(r)}
    /\ \/ messages' = messages + 1 /\ client' = [client EXCEPT ![r] = "waiting"]
       \/ client' = [client EXCEPT ![r] = "refused"] /\ UNCHANGED messages
    /\ UNCHANGED <<passing, stop, host, workerVars, jobQueue, destroyer, request, refs, answers, cut>>

\* The message is dispatched: DownloadRequests begins, ...
BeginPass ==
    /\ ~stop /\ ~passing /\ messages > 0
    /\ messages' = messages - 1 /\ passing' = TRUE
    /\ UNCHANGED <<entries, client, stop, host, workerVars, ownedVars, request, refs, answers, cut>>

\* Mutant of Download: the job does not refer to its request.
DownloadUnreferenced ==
    /\ passing /\ entries # <<>>
    /\ LET r == Head(entries) IN
       /\ entries' = Tail(entries)
       /\ request' = [request EXCEPT ![r] = [NewRequest EXCEPT !.callback = TRUE]]
       /\ refs' = [refs EXCEPT ![r] = IF client[r] = "waiting" THEN {"owner"} ELSE {}]
       /\ holders' = (holders \ {Entry(r)}) \cup {Held(r)}
       /\ jobs' = Append(jobs, r) /\ jobQueue' = "live"
    /\ UNCHANGED <<messages, passing, client, stop, host, running, destroyer, answers, cut>>

\* ... and starts one request after another (CDownloadRequest::Download, InitiateRequest,
\* _Download), ...
Download ==
    /\ passing /\ entries # <<>>
    /\ LET r == Head(entries) IN
       /\ entries' = Tail(entries)
       /\ request' = [request EXCEPT ![r] = [NewRequest EXCEPT !.callback = TRUE]]
       /\ refs' = [refs EXCEPT ![r] = {"job"} \cup IF client[r] = "waiting" THEN {"owner"} ELSE {}]
       /\ holders' = (holders \ {Entry(r)}) \cup {Held(r)}
       /\ jobs' = Append(jobs, r) /\ jobQueue' = "live"
    /\ UNCHANGED <<messages, passing, client, stop, host, running, destroyer, answers, cut>>

\* ... gives up at one that cannot be started, which is answered, ...
DownloadFails ==
    /\ passing /\ entries # <<>>
    /\ LET r == Head(entries) IN
       /\ entries' = Tail(entries)
       /\ answers' = [answers EXCEPT ![r] = @ + 1]
       /\ LetGo({Entry(r)}, "ui")
    /\ passing' = FALSE
    /\ UNCHANGED <<messages, client, stop, host, workerVars, request, refs, cut>>

\* ... or is done.
EndPass ==
    /\ passing /\ entries = <<>>
    /\ passing' = FALSE
    /\ UNCHANGED <<entries, messages, client, stop, host, workerVars, ownedVars, request, refs, answers, cut>>

\* CAbortableAsyncDownload::Abort of a request that waits for the message: RemoveRequest.
AbortEntry(r) ==
    /\ host /\ ~passing /\ client[r] = "waiting"
    /\ client' = [client EXCEPT ![r] = "gone"]
    /\ \E i \in DOMAIN entries : entries[i] = r /\ entries' = RemoveAt(entries, i)
    /\ LetGo({Entry(r)}, "ui")
    /\ UNCHANGED <<messages, passing, stop, host, workerVars, request, refs, answers, cut>>

\* The same of one that has been started: AbortAsync gives it to the pool, ...
AbortAsync(r) ==
    /\ host /\ ~passing /\ ~stop /\ client[r] = "waiting" /\ "owner" \in refs[r]
    /\ client' = [client EXCEPT ![r] = "gone"]
    /\ refs' = [refs EXCEPT ![r] = (@ \ {"owner"}) \cup {"work"}]
    /\ UNCHANGED <<entries, messages, passing, stop, host, workerVars, ownedVars, request, answers, cut>>

\* ... or does it at once when the core is being destroyed; nothing is done without a host.
AbortNow(r) ==
    /\ UIFree /\ ~passing /\ stop /\ client[r] = "waiting" /\ "owner" \in refs[r]
    /\ host => ~Locked(r)
    /\ client' = [client EXCEPT ![r] = "gone"]
    /\ Release(r, "owner", "ui", IF host THEN AbortedByClient(request[r]) ELSE request[r])
    /\ cut' = IF host THEN cut \cup {r} ELSE cut
    /\ UNCHANGED <<entries, messages, passing, stop, host, workerVars, answers>>

\* The answer has reached the client, which lets go of its handle (ImageCache.cpp:260).
ClientIsDone(r) ==
    /\ UIFree /\ ~passing /\ client[r] = "waiting" /\ answers[r] > 0
    /\ client' = [client EXCEPT ![r] = "gone"]
    /\ IF "owner" \in refs[r]
       THEN Release(r, "owner", "ui", request[r])
       ELSE UNCHANGED <<refs, request, ownedVars>>
    /\ UNCHANGED <<entries, messages, passing, stop, host, workerVars, answers, cut>>

\* Deinit begins: CleanupCommon, and the core is destroyed; nothing is dispatched from here on.
StopDownloads ==
    /\ host /\ ~passing /\ ~stop /\ stop' = TRUE
    /\ UNCHANGED <<entries, messages, passing, client, host, workerVars, ownedVars, request, refs, answers, cut>>

\* The rest of ~CXcpBrowserHost: the manager goes with the requests not yet started, and the
\* downloader is let go of.
HostGoes ==
    /\ host /\ ~passing /\ stop /\ host' = FALSE
    /\ entries' = <<>> /\ messages' = 0
    /\ LetGo({Host} \cup {Entry(r) : r \in Requests}, "ui")
    /\ UNCHANGED <<passing, client, stop, workerVars, request, refs, answers, cut>>

\* ~ThreadedJobQueue has waited for the worker, which was not the one that waits.
QueueCloses ==
    /\ jobQueue = "closing" /\ destroyer # "worker" /\ running = NoRequest
    /\ jobQueue' = "destroyed"
    /\ UNCHANGED <<uiVars, workerVars, holders, destroyer, request, refs, answers, cut>>
-----------------------------------------------------------------------------
(* The worker, and the pool *)

WorkerFree == jobQueue = "live" \/ (jobQueue = "closing" /\ destroyer # "worker")

\* The worker is in the job of this request or between two, and may call back for it.
MayCallBack(r) == WorkerFree /\ running \in {r, NoRequest}

Refused(q) == q.dead \/ q.aborting

\* A job begins: BindToStorage, which asks GetBindInfo first.
RunJob ==
    /\ WorkerFree /\ running = NoRequest /\ jobs # <<>>
    /\ LET r == Head(jobs) IN
       /\ running' = r /\ jobs' = Tail(jobs)
       /\ IF Refused(request[r])
          THEN request' = [request EXCEPT ![r].bind = "refused"] /\ UNCHANGED refs
          ELSE /\ request' = [request EXCEPT ![r].bind = "starting"]
               /\ refs' = [refs EXCEPT ![r] = @ \cup {"urlmon"}]
    /\ UNCHANGED <<uiVars, ownedVars, answers, cut>>

\* Mutant of Started: an aborted request is bound.
StartedAnyway(q) == [q EXCEPT !.bind = "bound", !.deferral = TRUE]

\* OnStartBinding takes the binding and a deferral, unless the request was aborted meanwhile.
Started(q) ==
    IF Refused(q) THEN [q EXCEPT !.bind = "failed"] ELSE [q EXCEPT !.bind = "bound", !.deferral = TRUE]

OnStartBinding(r) ==
    /\ WorkerFree /\ running = r /\ request[r].bind = "starting"
    /\ request' = [request EXCEPT ![r] = Started(@)]
    /\ UNCHANGED <<uiVars, workerVars, ownedVars, refs, answers, cut>>

\* The job ends, and with it its reference; the worker gets no further when that takes the
\* queue along.
EndJob(r) ==
    /\ WorkerFree /\ running = r /\ request[r].bind \notin {"starting", "failed", "responding"}
    /\ Release(r, "job", "worker", request[r])
    /\ running' = IF destroyer' = "worker" THEN r ELSE NoRequest
    /\ UNCHANGED <<uiVars, jobs, answers, cut>>

\* OnProgress and OnDataAvailable abort: downloads are stopped, a redirection is not allowed,
\* data cannot be read.  What else they do is about the data.
GiveUp(r) ==
    /\ MayCallBack(r) /\ request[r].bind = "bound" /\ ~Refused(request[r])
    /\ request' = [request EXCEPT ![r] = Aborted(@)]
    /\ UNCHANGED <<uiVars, workerVars, ownedVars, refs, answers, cut>>

\* Mutant of OnStopBinding: a request that is aborting is taken for a dead one.
OnStopBindingGivesUp(r) ==
    /\ MayCallBack(r) /\ request[r].bind \in {"bound", "stopping", "failed"}
    /\ request' = [request EXCEPT ![r] =
           IF Refused(@) THEN [@ EXCEPT !.bind = "stopped", !.deferral = FALSE]
                         ELSE [@ EXCEPT !.bind = "responding", !.deferral = FALSE]]
    /\ UNCHANGED <<uiVars, workerVars, ownedVars, refs, answers, cut>>

\* OnStopBinding: the binding ends, ...
OnStopBinding(r) ==
    /\ MayCallBack(r) /\ request[r].bind \in {"bound", "stopping", "failed"}
    /\ request' = [request EXCEPT ![r] =
           IF @.dead THEN [@ EXCEPT !.bind = "stopped"]
                     ELSE [@ EXCEPT !.bind = "responding", !.deferral = FALSE]]
    /\ UNCHANGED <<uiVars, workerVars, ownedVars, refs, answers, cut>>

\* ... and FireGotResponse answers, unless downloads are stopped, and lets go of the downloader.
FireGotResponse(r) ==
    /\ MayCallBack(r) /\ request[r].bind = "responding"
    /\ request' = [request EXCEPT ![r].bind = "stopped", ![r].dead = TRUE, ![r].callback = FALSE]
    /\ IF request[r].callback
       THEN /\ answers' = IF stop THEN answers ELSE [answers EXCEPT ![r] = @ + 1]
            /\ LetGo({Held(r)}, "worker")
       ELSE UNCHANGED <<answers, ownedVars>>
    /\ UNCHANGED <<uiVars, workerVars, refs, cut>>

\* urlmon lets go of its callback.
UrlmonLetsGo(r) ==
    /\ MayCallBack(r) /\ request[r].bind = "stopped" /\ "urlmon" \in refs[r]
    /\ Release(r, "urlmon", "worker", request[r])
    /\ UNCHANGED <<uiVars, workerVars, answers, cut>>

\* AbortAsyncCallback on a thread of the pool, and the end of its work item.
AbortAsyncCallback(r) ==
    /\ "work" \in refs[r] /\ ~Locked(r)
    /\ Release(r, "work", "pool", AbortedByClient(request[r]))
    /\ cut' = cut \cup {r}
    /\ UNCHANGED <<uiVars, workerVars, answers>>
-----------------------------------------------------------------------------
Pass == BeginPass \/ Download \/ DownloadFails \/ EndPass
ClientAborts(r) == AbortEntry(r) \/ AbortAsync(r) \/ AbortNow(r)
TearDown == StopDownloads \/ HostGoes \/ QueueCloses
Callback(r) ==
    \/ OnStartBinding(r) \/ EndJob(r) \/ OnStopBinding(r) \/ FireGotResponse(r) \/ UrlmonLetsGo(r)

Next ==
    \/ Pass \/ TearDown \/ RunJob
    \/ \E r \in Requests :
          \/ CreateDownloadRequest(r) \/ ClientAborts(r) \/ ClientIsDone(r)
          \/ Callback(r) \/ GiveUp(r) \/ AbortAsyncCallback(r)

Spec == Init /\ [][Next]_vars

\* Messages are dispatched, answers delivered, jobs run, downloads end, work items run.
Fairness ==
    /\ WF_vars(Pass) /\ WF_vars(RunJob) /\ WF_vars(QueueCloses)
    /\ \A r \in Requests :
          WF_vars(Callback(r)) /\ WF_vars(AbortAsyncCallback(r)) /\ WF_vars(ClientIsDone(r))
FairSpec == Spec /\ Fairness
-----------------------------------------------------------------------------
\* A request whose job was queued has its callback, until an answer or an abort takes it.
WasStarted(r) == request[r].callback \/ request[r].dead \/ request[r].aborting

\* The queue as its users may see it; its thread is taken to be there until the queue is not.
Service == INSTANCE JobService
    WITH Jobs <- Requests, pending <- jobs, given <- {r \in Requests : WasStarted(r)},
         running <- {running} \ {NoRequest}, active <- jobQueue \in {"live", "closing"},
         deferrals <- {r \in Requests : request[r].deferral}, Deferrals <- Requests,
         stays <- FALSE, object <- IF jobQueue \in {"none", "live"} THEN "alive" ELSE jobQueue

-----------------------------------------------------------------------------
(* Properties *)

\* Every variable holds a value of its type.
TypeOK ==
    /\ entries \in Seq(Requests) /\ jobs \in Seq(Requests)
    /\ messages \in Nat
    /\ passing \in BOOLEAN /\ stop \in BOOLEAN /\ host \in BOOLEAN
    /\ client \in [Requests -> {"none", "waiting", "refused", "gone"}]
    /\ request \in [Requests -> RequestStates]
    /\ refs \in [Requests -> SUBSET {"job", "urlmon", "owner", "work"}]
    /\ holders \subseteq Referrers
    /\ running \in Requests \cup {NoRequest}
    /\ jobQueue \in {"none", "live", "closing", "destroyed"}
    /\ destroyer \in Threads \cup {"none"}
    /\ answers \in [Requests -> Nat] /\ cut \subseteq Requests

\* Whatever aborts a request when, a deferral is held by a binding that OnStopBinding will find
\* alive, and by none when the downloader and its queue go: "make sure they are released prior
\* to the parent ThreadedJobQueue being destroyed" (ThreadedJobQueue.h:77-78, windwnreq.cpp:478-488).
DeferralsGoFirst ==
    \A r \in Requests : request[r].deferral =>
        /\ destroyer = "none" /\ jobQueue = "live"
        /\ request[r].bind \in {"bound", "stopping"} /\ ~request[r].dead

\* Whichever thread destroys the downloader when, its queue is used as JobService allows, and
\* taken for no more than that: jobs are queued while it lives, deferrals taken and given back
\* while it is in use, and when it goes none is held and no job waits that would be dropped
\* (ThreadedJobQueue.h:41-51, :76-79, ThreadedJobQueue.cpp:83-94).
KeepsToJobService == Service!JobServiceSpec

\* A client is answered once, and not once AbortRequest has returned, although the abort and
\* the answer come from different threads (windwnreq.cpp:724-775, :1345-1362).
AnsweredOnce ==
    [][\A r \in Requests : answers'[r] # answers[r] => answers[r] = 0 /\ r \notin cut]_vars

\* Whoever waits is answered or has aborted, and the request is freed, whichever thread refers
\* to it last: until downloads are stopped, or a post fails.  A request whose post fails stays
\* in the queue, where another's message may fail to start it and stop there
\* (AsyncDownloadRequestManager.cpp:182-187, :265-268).
RequestsEnd ==
    \A r \in Requests : client[r] = "waiting" ~>
        \/ client[r] = "gone" /\ refs[r] = {} /\ r \notin ToSet(entries)
        \/ stop \/ \E s \in Requests : client[s] = "refused"
-----------------------------------------------------------------------------
(* What an assertion of the code says, and a run refutes *)

\* "ASSERT(m_mainThreadId == GetCurrentThreadId())" (download.cpp:106): the downloader is
\* destroyed on the UI thread.
DestroyedOnMainThread == destroyer \in {"none", "ui"}
=============================================================================
