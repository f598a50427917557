------------------------------ MODULE ImageCache ------------------------------
(***************************************************************************)
(* The cache of one image (components/imaging/ImageCache.cpp) with its     *)
(* decode requests (ImageDecodeRequest.cpp): the image is downloaded once, *)
(* decoded for each request by a decoder of its own (AsyncImageDecoder) or *)
(* by that of a request with equal parameters, and the answers come back   *)
(* through the queue of imaging tasks (TaskQueue).  The image is not       *)
(* animated.  Requests are held by image sources (core/core/elements/      *)
(* imagesource.cpp); the lists of the cache hold bare pointers to them.    *)
(* The callback of a request runs code of the application, which may make  *)
(* any call of this module in the middle of the loops, and may fail.       *)
(***************************************************************************)
EXTENDS Integers, Sequences, SequencesExt

CONSTANTS
    Requests,           \* the ids of the requests there can be, each made once
    Params,             \* what AreDecodeParamsEqual tells apart
    FirstParams,        \* those each request may be made with
    MaxCalls,           \* bound of the model: failures, and calls other than those that
                        \* make a request or let go of the one that is called
    MayFail             \* whether CreateDecoder ("create", otherwise than by device loss)
                        \* and the callbacks of requests ("callback") can fail

ASSUME CacheAssumption ==
    /\ Requests \subseteq Nat \ {0}
    /\ FirstParams \in [Requests -> SUBSET Params]
    /\ MaxCalls \in Nat /\ MayFail \subseteq {"create", "callback"}

VARIABLES
    cacheState,         \* m_State
    waiting,            \* m_decodeRequests
    decoding,           \* m_decodingRequests
    surfaces,           \* m_decodedImages: the parameters each is cached under, and made for
    hasProcessTask,     \* m_hasProcessDecodeRequestsTask
    queue,              \* the tasks of the ImageTaskDispatcher
    request,            \* the requests; decoder is the one that was created for that request
    decoders,           \* the states of the decoders, by the request they were created for
    processing,         \* ProcessDecodeRequests is in its loop
    walk,               \* where HandleDecodeResponse is in its loop
    called,             \* the request whose callback is in progress
    told,               \* history: the requests called since they were given parameters
    abandoned,          \* history: ProcessDecodeRequests failed and was not triggered since
    calls,              \* how many of those calls and failures there were
    upsets              \* history: what came between a request and its answer

listVars == <<cacheState, waiting, decoding, surfaces, hasProcessTask>>
stackVars == <<processing, walk, called>>
historyVars == <<told, abandoned, upsets>>
vars == <<listVars, queue, request, decoders, stackVars, historyVars, calls>>

Nobody == 0
NoParams == "none"
Orders == [request : Requests, params : Params]

\* Decoders of an image of one frame, on a platform that works.
D == INSTANCE AsyncImageDecoder WITH
        NoOrder <- [request |-> Nobody, params |-> NoParams],
        FrameCount <- 1, LoopCount <- 1, MaxTimers <- 1, PlatformMayFail <- FALSE

Task(kind, id, made, ok) == [kind |-> kind, request |-> id, made |-> made, ok |-> ok]
ProcessTask == Task("process", Nobody, NoParams, TRUE)
DownloadTask(ok) == Task("download", Nobody, NoParams, ok)
CacheTasks == [kind : {"process", "download", "decoded"}, request : Requests \union {Nobody},
               made : Params \union {NoParams}, ok : BOOLEAN]

\* The dispatcher's promise: a task takes the place of one with the same request.
TQ == INSTANCE TaskQueue WITH
        Tasks <- CacheTasks, RequestId <- [task \in CacheTasks |-> task.request],
        fate <- <<>>, open <- TRUE

Members(list) == {list[i] : i \in DOMAIN list}

NotWalking == [completed |-> Nobody, made |-> NoParams, ok |-> TRUE, at |-> Nobody, failed |-> FALSE]
Walking == walk.completed # Nobody
Calling == called # Nobody
Idle == ~processing /\ ~Walking /\ ~Calling

Init ==
    /\ cacheState = "NotDownloaded" /\ waiting = <<>> /\ decoding = <<>> /\ surfaces = <<>>
    /\ hasProcessTask = FALSE /\ queue = <<>>
    /\ request = [r \in Requests |-> [status |-> "new", params |-> NoParams, decoder |-> Nobody]]
    /\ decoders = [r \in Requests |-> D!NewDecoder(TRUE)]
    /\ processing = FALSE /\ walk = NotWalking /\ called = Nobody
    /\ told = {} /\ abandoned = FALSE /\ calls = 0 /\ upsets = {}
-----------------------------------------------------------------------------
\* What the decoder's operations are given where nothing depends on it.
Fine == [runs |-> TRUE, creates |-> TRUE, delivers |-> TRUE, decodes |-> TRUE, timer |-> 1]

Order(r) == [request |-> r, params |-> request[r].params]
HasDecoder(r) == request[r].decoder # Nobody
IsDecodeInProgress(r) == HasDecoder(r) /\ decoders[request[r].decoder].inProgress
AreDecodeParamsEqual(r, other) == request[r].params = request[other].params
IsCached(params) == \E i \in DOMAIN surfaces : surfaces[i].params = params

\* TriggerProcessDecodeRequests
TriggerProcess ==
    /\ hasProcessTask' = TRUE /\ abandoned' = FALSE
    /\ queue' = IF hasProcessTask THEN queue ELSE TQ!Put(queue, ProcessTask)

\* Mutant of OnDecoderDetached: the decoder goes with its request.
OnDecoderDetachedForGood(r, status) ==
    /\ decoders' = [d \in Requests |->
                       IF d = request[r].decoder THEN D!DestroyDecoder(decoders[d])
                       ELSE decoders[d]]
    /\ request' = [request EXCEPT ![r].status = status, ![r].decoder = Nobody]

\* The decoder of r, whose status becomes another, is handed to the first that waits for
\* the same and has none.
OnDecoderDetached(r, status) ==
    LET heirs == {i \in DOMAIN decoding : /\ decoding[i] # r /\ ~HasDecoder(decoding[i])
                                          /\ AreDecodeParamsEqual(decoding[i], r)}
        heir == decoding[CHOOSE i \in heirs : \A j \in heirs : i <= j]
        d == request[r].decoder
        without == [request EXCEPT ![r].status = status, ![r].decoder = Nobody]
    IN  IF d = Nobody THEN request' = without /\ UNCHANGED decoders
        ELSE IF heirs = {}
        THEN request' = without /\ decoders' = [decoders EXCEPT ![d] = D!DestroyDecoder(@)]
        ELSE /\ request' = [without EXCEPT ![heir].decoder = d]
             /\ decoders' = [decoders EXCEPT ![d] = D!SetDecodeParams(@, Order(heir), Fine)]

OnRequestReleasing(r) ==
    /\ waiting' = RemoveFirst(waiting, r)
    /\ decoding' = RemoveFirst(decoding, r)

\* The destructor of the request.
Destroy(r) == OnDecoderDetached(r, "gone") /\ OnRequestReleasing(r)

\* Mutant of Held: the loop does not keep the request it is at.
HeldByCompletion(r) == r = walk.completed

\* The loops keep the request whose callback they call and the one that completed.
Held(r) == r \in {called, walk.completed}
-----------------------------------------------------------------------------
\* Calls of the image sources, on the UI thread, also from within a callback

MayCall == Idle \/ Calling
CountCall == calls < MaxCalls /\ calls' = calls + 1

\* Something fails that otherwise works.
Fails(what) ==
    /\ what \in MayFail
    /\ CountCall
    /\ upsets' = upsets \union {"failure"}

\* The callback in progress was given a failure.
Failing == Calling /\ IF Walking THEN ~walk.ok ELSE cacheState = "DownloadFailed"

\* A surface in the cache answers at once; otherwise a request is made, with the next id.
GetImage(r, params) ==
    /\ MayCall /\ request[r].status = "new" /\ params \in FirstParams[r]
    /\ \A other \in Requests : request[other].status = "new" => r <= other
    /\ IF IsCached(params)
       THEN /\ request' = [request EXCEPT ![r].status = "gone"]
            /\ UNCHANGED <<waiting, hasProcessTask, queue, abandoned>>
       ELSE /\ request' = [request EXCEPT ![r].status = "live", ![r].params = params]
            /\ waiting' = Append(waiting, r)
            /\ TriggerProcess
    /\ UNCHANGED <<cacheState, decoding, surfaces, decoders, stackVars, told, calls, upsets>>

\* SetDecodeParams of a request.  DecodeStreamWithSize does without one that has no decoder
\* (and releases it), unless the decode is forced.
NewParams(r, params) ==
    /\ MayCall /\ request[r].status = "live" /\ ~(Failing /\ r = called)
    /\ CountCall
    /\ request' = [request EXCEPT ![r].params = params]
    /\ decoders' = [d \in Requests |->
                       IF d = request[r].decoder
                       THEN D!SetDecodeParams(decoders[d], [request |-> r, params |-> params], Fine)
                       ELSE decoders[d]]
    /\ told' = told \ {r}
    /\ upsets' = upsets \union (IF ~HasDecoder(r) THEN {"forced"}
                                ELSE IF params # request[r].params THEN {"params"} ELSE {})
    /\ UNCHANGED <<listVars, queue, stackVars, abandoned>>

\* CleanupDeviceRelatedResources
LoseDevice(r) ==
    /\ MayCall /\ request[r].status = "live" /\ HasDecoder(r)
    /\ CountCall
    /\ decoders' = [decoders EXCEPT ![request[r].decoder] = D!SuspendAnimation(@)]
    /\ upsets' = upsets \union {"device"}
    /\ UNCHANGED <<listVars, queue, request, stackVars, told, abandoned>>

\* The image source lets go of its request, disconnecting it first or, if it has no
\* decoder, dropping it; a request the loops hold is destroyed later.
Release(r, disconnecting) ==
    /\ MayCall /\ request[r].status = "live"
    /\ disconnecting \/ ~HasDecoder(r)
    /\ IF r = called THEN UNCHANGED calls ELSE CountCall
    /\ IF Held(r)
       THEN /\ OnDecoderDetached(r, IF disconnecting THEN "disconnected" ELSE "dropped")
            /\ UNCHANGED <<waiting, decoding>>
       ELSE Destroy(r)
    /\ UNCHANGED <<cacheState, surfaces, hasProcessTask, queue, stackVars, historyVars>>

\* OnCacheInvalidated: nobody uses the bitmap any more.
OnCacheInvalidated(i) ==
    /\ MayCall /\ i \in DOMAIN surfaces
    /\ CountCall
    /\ surfaces' = RemoveAt(surfaces, i)
    /\ UNCHANGED <<cacheState, waiting, decoding, hasProcessTask, queue, request, decoders,
                   stackVars, historyVars>>
-----------------------------------------------------------------------------
\* Other threads

\* The network answers, once; its marshaller queues a task.
DownloadResponds ==
    /\ cacheState = "Downloading"
    /\ \A i \in DOMAIN queue : queue[i].kind # "download"
    /\ \E ok \in BOOLEAN : queue' = TQ!Put(queue, DownloadTask(ok))
    /\ UNCHANGED <<listVars, request, decoders, stackVars, historyVars, calls>>

\* The work item of a decoder; OnDecode queues a task.
WorkItem(d) ==
    /\ decoders[d].job
    /\ \E ok \in BOOLEAN :
        LET o == [Fine EXCEPT !.decodes = ok]
            response == D!Response(decoders[d], D!Decoded(decoders[d]), o)
        IN  /\ decoders' = [decoders EXCEPT ![d] = D!OnDecodeCurrentFrame(@, o)]
            /\ queue' = IF D!DecodePresents(decoders[d])
                        THEN TQ!Put(queue, Task("decoded", response.order.request,
                                                response.made.params, ok))
                        ELSE queue
    /\ UNCHANGED <<listVars, request, stackVars, historyVars, calls>>
-----------------------------------------------------------------------------
\* The tasks, on the UI thread

NextTask(kind) == Idle /\ queue # <<>> /\ Head(queue).kind = kind

\* Mutant of ProcessDecodeRequests: the flag is cleared only when there is nothing to do.
ProcessDecodeRequestsKeepsFlag ==
    /\ NextTask("process")
    /\ queue' = Tail(queue)
    /\ hasProcessTask' = (cacheState = "NotDownloaded")
    /\ cacheState' = IF cacheState = "NotDownloaded" THEN "Downloading" ELSE cacheState
    /\ processing' = (cacheState \in {"Downloaded", "DownloadFailed"})
    /\ UNCHANGED <<waiting, decoding, surfaces, request, decoders, walk, called, historyVars, calls>>

\* The first time the download is started, which can fail at once.
ProcessDecodeRequests ==
    /\ NextTask("process")
    /\ \/ /\ cacheState = "NotDownloaded"
          /\ cacheState' = "Downloading"
          /\ hasProcessTask' = FALSE /\ queue' = Tail(queue)
       \/ /\ cacheState = "NotDownloaded"
          /\ cacheState' = "DownloadFailed"
          /\ hasProcessTask' = TRUE /\ queue' = TQ!Put(Tail(queue), ProcessTask)
       \/ /\ cacheState # "NotDownloaded"
          /\ hasProcessTask' = FALSE /\ queue' = Tail(queue)
          /\ UNCHANGED cacheState
    /\ processing' = (cacheState \in {"Downloaded", "DownloadFailed"})
    /\ UNCHANGED <<waiting, decoding, surfaces, request, decoders, walk, called, historyVars, calls>>

GotDownloadResponse ==
    /\ NextTask("download")
    /\ cacheState' = IF Head(queue).ok THEN "Downloaded" ELSE "DownloadFailed"
    /\ hasProcessTask' = TRUE /\ abandoned' = FALSE
    /\ queue' = IF hasProcessTask THEN Tail(queue) ELSE TQ!Put(Tail(queue), ProcessTask)
    /\ UNCHANGED <<waiting, decoding, surfaces, request, decoders, stackVars, told, calls, upsets>>

\* HandleDecodeResponse: the request may have been discarded during the decode.
StartWalk(id, made, ok, list) ==
    walk' = IF id \in Members(list)
            THEN [completed |-> id, made |-> made, ok |-> ok, at |-> Head(list), failed |-> FALSE]
            ELSE NotWalking

HandleDecodeResponse ==
    /\ NextTask("decoded")
    /\ queue' = Tail(queue)
    /\ StartWalk(Head(queue).request, Head(queue).made, Head(queue).ok, decoding)
    /\ UNCHANGED <<listVars, request, decoders, processing, called, historyVars, calls>>
-----------------------------------------------------------------------------
\* The loop of ProcessDecodeRequests: requests are taken from the back.
Processing == processing /\ ~Walking /\ ~Calling

ProcessEnd ==
    /\ Processing /\ waiting = <<>>
    /\ processing' = FALSE
    /\ UNCHANGED <<listVars, queue, request, decoders, walk, called, historyVars, calls>>

\* An error ends ProcessDecodeRequests, whatever is still waiting.
StopProcessing ==
    /\ processing' = FALSE
    /\ abandoned' = (abandoned \/ (processing /\ ~hasProcessTask))

TakeLast(r) ==
    /\ Processing /\ waiting # <<>> /\ r = waiting[Len(waiting)]
    /\ waiting' = SubSeq(waiting, 1, Len(waiting) - 1)
    /\ UNCHANGED <<cacheState, surfaces, hasProcessTask, queue>>

\* The download failed, or BeginDecode finds a surface: the callback is called.
Answer(r) ==
    /\ TakeLast(r)
    /\ cacheState = "DownloadFailed" \/ IsCached(request[r].params)
    /\ called' = r /\ told' = told \union {r}
    /\ UNCHANGED <<decoding, request, decoders, processing, walk, abandoned, upsets, calls>>

\* A request whose decode is in progress with the same parameters.
MatchingDecode(r) ==
    \E other \in Members(decoding) : IsDecodeInProgress(other) /\ AreDecodeParamsEqual(other, r)

\* BeginDecode: the request waits for the decode of another, ...
Join(r) ==
    /\ TakeLast(r)
    /\ cacheState = "Downloaded" /\ ~IsCached(request[r].params)
    /\ MatchingDecode(r)
    /\ decoding' = Append(decoding, r)
    /\ UNCHANGED <<request, decoders, stackVars, historyVars, calls>>

\* ... or gets a decoder of its own, unless the image cannot be parsed or its decoder not
\* be created: the first, and a lost device, are handled as the response; anything else
\* ends ProcessDecodeRequests.
BeginDecode(r) ==
    /\ TakeLast(r)
    /\ cacheState = "Downloaded" /\ ~IsCached(request[r].params)
    /\ ~MatchingDecode(r)
    /\ decoding' = Append(decoding, r)
    /\ \/ /\ request' = [request EXCEPT ![r].decoder = r]
          /\ decoders' = [decoders EXCEPT ![r] = D!SetDecodeParams(@, Order(r), Fine)]
          /\ UNCHANGED <<stackVars, abandoned, upsets, calls>>
       \/ /\ StartWalk(r, NoParams, FALSE, decoding')
          /\ UNCHANGED <<request, decoders, processing, called, abandoned, upsets, calls>>
       \/ /\ Fails("create") /\ StopProcessing
          /\ UNCHANGED <<request, decoders, walk, called>>
    /\ UNCHANGED told
-----------------------------------------------------------------------------
\* The loop of HandleDecodeResponse, whose iterator is at a request of the list or, when
\* that is Nobody, at its end.
Matches(r) == r = walk.completed \/ AreDecodeParamsEqual(walk.completed, r)

\* The one the iterator is moved to from r.
After(r) ==
    LET next == {i \in DOMAIN decoding : i > 1 /\ decoding[i - 1] = r}
    IN  IF next = {} THEN Nobody ELSE decoding[CHOOSE i \in next : TRUE]

\* The iterator is at r, between two callbacks.
AtRequest(r) == Walking /\ ~Calling /\ r = walk.at

\* The iterator leaves r; a request that was given a failure is erased.
Advance(r) ==
    /\ walk' = [walk EXCEPT !.at = After(r)]
    /\ decoding' = IF Matches(r) /\ ~walk.ok THEN RemoveFirst(decoding, r) ELSE decoding

\* A request that matches is called, unless it was disconnected.
Notify(r) ==
    /\ AtRequest(r) /\ Matches(r) /\ request[r].status # "disconnected"
    /\ called' = r /\ told' = told \union {r}
    /\ UNCHANGED <<listVars, queue, request, decoders, processing, walk, abandoned, upsets, calls>>

Skip(r) ==
    /\ AtRequest(r) /\ ~(Matches(r) /\ request[r].status # "disconnected")
    /\ Advance(r)
    /\ UNCHANGED <<cacheState, waiting, surfaces, hasProcessTask, queue, request, decoders,
                   processing, called, historyVars, calls>>

\* A loop lets go of r: if nobody else holds it, it is destroyed.
LetGo(r) ==
    IF request[r].status = "live" \/ r = walk.completed
    THEN UNCHANGED <<request, decoders, waiting, decoding>>
    ELSE Destroy(r)

\* The callback succeeds; one that was given a failure has let go of its request.
CallbackSucceeds(r) ==
    /\ called = r /\ (Failing => request[r].status # "live")
    /\ called' = Nobody
    /\ IF Walking /\ r = walk.completed
       THEN Advance(r) /\ UNCHANGED <<request, decoders, waiting>>
       ELSE LetGo(r) /\ walk' = [walk EXCEPT !.at = IF Walking THEN After(r) ELSE @]
    /\ UNCHANGED <<cacheState, surfaces, hasProcessTask, queue, processing, historyVars, calls>>

\* The error of a callback ends the loop it was called in.
CallbackFails(r) ==
    /\ called = r /\ Fails("callback")
    /\ called' = Nobody
    /\ LetGo(r)
    /\ IF Walking
       THEN /\ walk' = [walk EXCEPT !.at = Nobody, !.failed = TRUE]
            /\ UNCHANGED <<processing, abandoned>>
       ELSE StopProcessing /\ UNCHANGED walk
    /\ UNCHANGED <<cacheState, surfaces, hasProcessTask, queue, told>>

\* The surface is cached under the parameters the request has by now.
CacheSurface ==
    surfaces' = Append(surfaces, [params |-> request[walk.completed].params, made |-> walk.made])

\* The request that completed is let go of; an error is handed to ProcessDecodeRequests if
\* that has called.
LeaveWalk ==
    /\ walk' = NotWalking
    /\ IF request[walk.completed].status = "live"
       THEN UNCHANGED <<request, decoders, waiting, decoding>>
       ELSE Destroy(walk.completed)
    /\ IF walk.failed THEN StopProcessing ELSE UNCHANGED <<processing, abandoned>>
    /\ UNCHANGED <<cacheState, hasProcessTask, queue, called, told, upsets, calls>>

\* Mutant of EndWalk: what could not be decoded is cached too.
EndWalkCachingFailures ==
    /\ Walking /\ ~Calling /\ walk.at = Nobody
    /\ CacheSurface
    /\ LeaveWalk

EndWalk ==
    /\ Walking /\ ~Calling /\ walk.at = Nobody
    /\ IF walk.ok /\ ~walk.failed THEN CacheSurface ELSE UNCHANGED surfaces
    /\ LeaveWalk
-----------------------------------------------------------------------------
RunTask == ProcessDecodeRequests \/ GotDownloadResponse \/ HandleDecodeResponse
Callbacks == \E r \in Requests : CallbackSucceeds(r) \/ CallbackFails(r)
Loops ==
    \/ ProcessEnd \/ EndWalk
    \/ \E r \in Requests : Answer(r) \/ Join(r) \/ BeginDecode(r) \/ Skip(r) \/ Notify(r)

Next ==
    \/ \E r \in Requests, params \in Params : GetImage(r, params) \/ NewParams(r, params)
    \/ \E r \in Requests, disconnecting \in BOOLEAN : Release(r, disconnecting)
    \/ \E r \in Requests : LoseDevice(r) \/ WorkItem(r)
    \/ \E i \in DOMAIN surfaces : OnCacheInvalidated(i)
    \/ DownloadResponds \/ RunTask \/ Loops \/ Callbacks

Spec == Init /\ [][Next]_vars

\* What a callback does on its way to the end.
CallbackProceeds ==
    Callbacks \/ \E r \in Requests : r = called /\ Failing /\ Release(r, TRUE)

\* Tasks are run (TasksFinish of ImageTaskDispatcher), callbacks return, work items are run
\* and the network answers.
FairSpec ==
    /\ Spec
    /\ WF_vars(RunTask) /\ WF_vars(Loops) /\ WF_vars(CallbackProceeds) /\ WF_vars(DownloadResponds)
    /\ \A d \in Requests : WF_vars(WorkItem(d))
-----------------------------------------------------------------------------
(* Properties *)

\* Every variable holds a value of its type.
TypeOK ==
    /\ cacheState \in {"NotDownloaded", "Downloading", "DownloadFailed", "Downloaded"}
    /\ waiting \in Seq(Requests) /\ decoding \in Seq(Requests)
    /\ surfaces \in Seq([params : Params, made : Params])
    /\ hasProcessTask \in BOOLEAN /\ queue \in Seq(CacheTasks)
    /\ request \in [Requests -> [status : {"new", "live", "dropped", "disconnected", "gone"},
                                 params : Params \union {NoParams}, decoder : Requests \union {Nobody}]]
    /\ decoders \in [Requests -> D!Decoder]
    /\ processing \in BOOLEAN /\ called \in Requests \union {Nobody}
    /\ walk \in [completed : Requests \union {Nobody}, made : Params \union {NoParams},
                 ok : BOOLEAN, at : Requests \union {Nobody}, failed : BOOLEAN]
    /\ told \subseteq Requests /\ abandoned \in BOOLEAN /\ calls \in 0..MaxCalls
    /\ upsets \subseteq {"params", "forced", "device", "failure"}

\* Whatever callbacks release, the bare pointers of the two lists point to requests that an
\* image source or a loop holds, each in one list once, the iterator of the walk stays
\* within the list, and every decoder that decodes for a request is that request's
\* (ImageCache.cpp:88-89, :570-609, :672-712).
ListsAreSound ==
    /\ \A r \in Members(waiting) \union Members(decoding) :
        request[r].status = "live" \/ (request[r].status \in {"dropped", "disconnected"} /\ Held(r))
    /\ \A i, j \in DOMAIN (waiting \o decoding) :
        (waiting \o decoding)[i] = (waiting \o decoding)[j] => i = j
    /\ walk.at # Nobody => walk.at \in Members(decoding)
    /\ \A d \in Requests :
        decoders[d].needsPresent /\ decoders[d].job
            => request[decoders[d].order.request].decoder = d

\* A request that waits for the image has somebody who will see to it: a task that is
\* queued, the loop that takes requests, or the download, whatever callbacks do in the
\* middle of it (ImageCache.cpp:334-355, :357-409); unless that loop was left because a
\* callback or the creation of a decoder failed, and has not been asked for since.
WaitingIsAttended ==
    waiting # <<>> /\ ~abandoned =>
        \/ hasProcessTask /\ ProcessTask \in Members(queue)
        \/ processing
        \/ cacheState = "Downloading"

\* Whatever requests are made or released in a callback or between two decodes, every
\* request that stays is answered (ImageCache.cpp:438-459, :570-609, :693-712); as long as
\* none is given other parameters or loses its device, and no callback or creation of a
\* decoder fails.
AnsweredUnlessUpset ==
    \A r \in Requests :
        (request[r].status = "live" /\ r \notin told)
            ~> (r \in told \/ request[r].status # "live" \/ upsets # {})
-----------------------------------------------------------------------------
(* What comments of the code say, and runs refute *)

\* A request may "wait for an already existing decode to complete if it matches the decode
\* parameters" (ImageCache.cpp:441-442): it is answered when that decode completes, as long
\* as no decode is forced, no device lost and nothing fails.
WaitersAreAnswered ==
    \A r \in Requests :
        (request[r].status = "live" /\ r \notin told)
            ~> \/ r \in told \/ request[r].status # "live"
               \/ upsets \intersect {"forced", "device", "failure"} # {}

\* "one DecodedImageCache for each pixel format/decode width/decode height combination"
\* (ImageCache.h:40-41): what is cached under parameters was made for them.
SurfacesMatchParams == \A i \in DOMAIN surfaces : surfaces[i].made = surfaces[i].params
=============================================================================
