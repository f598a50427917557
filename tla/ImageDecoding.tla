---------------------------- MODULE ImageDecoding ----------------------------
(***************************************************************************)
(* One decoder, the thread pool that runs its work items and timers, and   *)
(* the image source that owns it and calls it from the UI thread           *)
(* (core/core/elements/imagesource.cpp, through ImageDecodeRequest.cpp).   *)
(***************************************************************************)
EXTENDS AsyncImageDecoder

CONSTANT MaxCalls       \* bound of the model: calls of the UI thread

ASSUME CallsAssumption == MaxCalls \in Nat

VARIABLES
    decoder,        \* the state the threads share
    shown,          \* the last response handed to OnDecode; turn changes with each
    owed,           \* history: whether a frame is to be presented; a suspension cancels it
    calls           \* calls of the UI thread

vars == <<decoder, shown, owed, calls>>

NothingShown ==
    [turn |-> FALSE, order |-> NoOrder, frame |-> -1, made |-> NoOrder, ok |-> TRUE]

\* The decoder's constructor, and SetDecodeParams right after it (SetImageDecoder).
Init ==
    /\ \E autoPlay \in BOOLEAN, order \in Orders :
        LET new == NewDecoder(autoPlay) IN
        \E o \in Outcomes(new) : decoder = SetDecodeParams(new, order, o)
    /\ shown = NothingShown
    /\ owed = TRUE
    /\ calls = 0

\* A response is handed over; the next frame follows if there is one.
Show(s, result, o) ==
    LET response == Response(s, result, o) IN
    /\ shown' = [turn |-> ~shown.turn, order |-> response.order, frame |-> response.frame,
                 made |-> response.made, ok |-> response.ok]
    /\ owed' = (NeedMoreFrames(s) /\ o.decodes)
-----------------------------------------------------------------------------
\* The thread pool runs the work item, ...
WorkItem ==
    /\ decoder.job
    /\ \E o \in Outcomes(decoder) :
        /\ decoder' = OnDecodeCurrentFrame(decoder, o)
        /\ IF DecodePresents(decoder) THEN Show(decoder, Decoded(decoder), o)
           ELSE UNCHANGED <<shown, owed>>
    /\ UNCHANGED calls

\* ... and the handler of a timer.
Timer(t) ==
    /\ t \in decoder.elapsing
    /\ \E o \in Outcomes([decoder EXCEPT !.elapsing = @ \ {t}]) :
        /\ decoder' = OnPresentTimer(decoder, t, o)
        /\ IF TimerPresents(decoder, t) THEN Show(decoder, decoder.result, o)
           ELSE UNCHANGED <<shown, owed>>
    /\ UNCHANGED calls
-----------------------------------------------------------------------------
\* The UI thread, while the request has the decoder.
Call == decoder.alive /\ calls < MaxCalls /\ calls' = calls + 1

NewOrder(order) ==
    /\ Call
    /\ \E o \in Outcomes(decoder) : decoder' = SetDecodeParams(decoder, order, o)
    /\ owed' = TRUE
    /\ UNCHANGED shown

Play ==
    /\ Call
    /\ \E o \in Outcomes(decoder) : decoder' = PlayAnimation(decoder, o)
    /\ owed' = (owed \/ (decoder.stopped /\ NeedMoreFrames([decoder EXCEPT !.stopped = FALSE])))
    /\ UNCHANGED shown

Stop ==
    /\ Call
    /\ \E o \in Outcomes(decoder) :
        /\ decoder' = StopAnimation(decoder, o)
        /\ IF StopPresents(decoder)
           THEN Show(BackToFirstFrame(decoder), decoder.result, o)
           ELSE owed' = TRUE /\ UNCHANGED shown

Suspend ==
    /\ Call
    /\ decoder' = SuspendAnimation(decoder)
    /\ owed' = FALSE
    /\ UNCHANGED shown

Resume ==
    /\ Call
    /\ \E o \in Outcomes(decoder) : decoder' = ResumeAnimation(decoder, o)
    /\ owed' = (owed \/ (decoder.suspended /\ NeedMoreFrames([decoder EXCEPT !.suspended = FALSE])))
    /\ UNCHANGED shown

Destroy ==
    /\ Call
    /\ decoder' = DestroyDecoder(decoder)
    /\ UNCHANGED <<shown, owed>>

Next ==
    \/ WorkItem
    \/ \E t \in Timers : Timer(t)
    \/ \E order \in Orders : NewOrder(order)
    \/ Play \/ Stop \/ Suspend \/ Resume \/ Destroy

Spec == Init /\ [][Next]_vars

\* The thread pool runs what it is given.
ThreadPool == WF_vars(WorkItem) /\ \A t \in Timers : WF_vars(Timer(t))
FairSpec == Spec /\ ThreadPool
-----------------------------------------------------------------------------
(* Properties *)

\* Every variable holds a value of its type.
TypeOK ==
    /\ decoder \in Decoder
    /\ shown \in [turn : BOOLEAN, order : Orders \union {NoOrder}, frame : Frames \union {-1},
                  made : Orders \union {NoOrder}, ok : BOOLEAN]
    /\ owed \in BOOLEAN
    /\ calls \in 0..MaxCalls

\* The ASSERTs of AsyncImageDecoder.cpp:103, :160-161, :245, :348 and :353 hold, whatever
\* the order of work items, timers and calls: one decode at a time, one timer at a time,
\* no result beside a decode in progress, no loop too many.
AssertionsHold == decoder.asserts

\* What has been decoded and waits to be presented was decoded for the current frame with
\* the current parameters, whatever was in progress when they changed
\* (AsyncImageDecoder.cpp:286-309, :338-344).
ResultIsCurrent == HasResult(decoder) => decoder.result = Decoded(decoder)

\* Nothing is presented after the decoder's destruction, nothing under an order it was not
\* decoded for, a stopped decoder presents nothing but the first frame, and no frame is
\* skipped: each is the one after the last one presented, the same one again, or the first
\* (AsyncImageDecoder.cpp:21-32, :294-304).
PresentsInOrder ==
    [][shown' # shown =>
        /\ decoder.alive
        /\ shown'.made = shown'.order /\ shown'.order = decoder.order
        /\ (decoder'.stopped => shown'.frame = 0)
        /\ shown'.frame \in {0, shown.frame, shown.frame + 1}]_vars

\* As long as nobody suspends it, what the decoder was asked for is presented, and the
\* next frame after each while it plays, up to the last of the last loop
\* (AsyncImageDecoder.cpp:24-32); unless it is destroyed or the platform fails.
OwedIsPresented ==
    \A turn \in BOOLEAN :
        (owed /\ shown.turn = turn)
            ~> (~owed \/ shown.turn # turn \/ ~decoder.alive \/ decoder.failed)
=============================================================================
