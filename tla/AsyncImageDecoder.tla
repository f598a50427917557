-------------------------- MODULE AsyncImageDecoder --------------------------
(***************************************************************************)
(* The decoder of one image request (components/imaging/                   *)
(* AsyncImageDecoder.cpp): a work item of the thread pool decodes the      *)
(* current frame, a timer of the thread pool says when to present it, and  *)
(* the UI thread gives parameters and plays, stops, suspends and resumes.  *)
(* Everything runs under the mutex of the state the three share, so an     *)
(* operation is a function from one value of that state to the next.       *)
(***************************************************************************)
EXTENDS Integers

CONSTANTS
    Orders,             \* what SetDecodeParams is given: a request and its parameters
    NoOrder,            \* before the first of them
    FrameCount,         \* frames of the image; more than one if it is animated
    LoopCount,          \* how often they are to be played, 0 for ever
    MaxTimers,          \* bound of the model: timers whose handler has yet to run
    PlatformMayFail     \* whether RunAsync, CreateTimer and OnDecode can fail

ASSUME DecoderAssumption ==
    /\ NoOrder \notin Orders
    /\ FrameCount \in Nat \ {0} /\ LoopCount \in Nat /\ MaxTimers \in Nat \ {0}
    /\ PlatformMayFail \in BOOLEAN

NoResult == [frame |-> -1, order |-> NoOrder]

Frames == 0..(FrameCount - 1)
Loops == 0..LoopCount
Timers == 1..MaxTimers
Results == [frame : Frames, order : Orders] \union {NoResult}

\* SharedState.  asserts: no ASSERT has failed; failed: a call of the platform has.
\* elapsing: the timers whose handler has yet to run, cancelled ones among them.
Decoder == [stopped : BOOLEAN, suspended : BOOLEAN, inProgress : BOOLEAN, job : BOOLEAN,
            needsPresent : BOOLEAN, result : Results, frame : Frames, loop : Loops,
            order : Orders \union {NoOrder}, timer : Timers \union {0},
            elapsing : SUBSET Timers, alive : BOOLEAN, asserts : BOOLEAN, failed : BOOLEAN]

NewDecoder(autoPlay) ==
    [stopped |-> ~autoPlay, suspended |-> FALSE, inProgress |-> FALSE, job |-> FALSE,
     needsPresent |-> TRUE, result |-> NoResult, frame |-> 0, loop |-> 0,
     order |-> NoOrder, timer |-> 0, elapsing |-> {}, alive |-> TRUE, asserts |-> TRUE,
     failed |-> FALSE]

\* What the platform makes of an operation: whether RunAsync, CreateTimer and OnDecode
\* succeed, whether the frame can be decoded, and which timer is created.
Works == IF PlatformMayFail THEN BOOLEAN ELSE {TRUE}
Outcomes(s) == [runs : Works, creates : Works, delivers : Works, decodes : BOOLEAN,
                timer : Timers \ s.elapsing]

HasResult(s) == s.result # NoResult
-----------------------------------------------------------------------------
\* Whether the decoder is playing: neither stopped nor suspended, an animated image, and
\* not at the last frame of the last loop.
NeedMoreFrames(s) ==
    LET nextLoop == IF s.frame + 1 = FrameCount THEN s.loop + 1 ELSE s.loop
        atLastLoop == nextLoop = LoopCount /\ LoopCount # 0
    IN  /\ ~s.suspended /\ ~s.stopped
        /\ FrameCount > 1 /\ ~atLastLoop
        /\ s.order # NoOrder

\* Mutant of CancelPresent: the timer is cancelled and not forgotten.
CancelPresentKeepsTimer(s) == [s EXCEPT !.needsPresent = FALSE]

\* The timer is forgotten; its handler may have started and is waiting for the mutex.
CancelPresent(s) == [s EXCEPT !.needsPresent = FALSE, !.timer = 0]

\* The work item is queued after the state says so.
SetupDecodeCurrentFrame(s, o) ==
    [s EXCEPT !.asserts = @ /\ ~s.inProgress,
              !.inProgress = TRUE,
              !.job = o.runs,
              !.failed = @ \/ ~o.runs]

ScheduleNextPresent(s, o) ==
    LET checked == [s EXCEPT !.asserts = @ /\ s.timer = 0 /\ ~s.needsPresent] IN
    IF o.creates
    THEN [checked EXCEPT !.timer = o.timer, !.elapsing = @ \union {o.timer}]
    ELSE [checked EXCEPT !.failed = TRUE]

\* Both, the second only if the first succeeded.
DecodeAndSchedule(s, o) ==
    LET decoding == SetupDecodeCurrentFrame(s, o) IN
    IF o.runs THEN ScheduleNextPresent(decoding, o) ELSE decoding

\* The loop is counted if anybody will look at it.
NextFrame(s) ==
    IF s.frame + 1 < FrameCount THEN [s EXCEPT !.frame = @ + 1]
    ELSE [s EXCEPT !.frame = 0,
                   !.loop = IF LoopCount = 0 THEN @ ELSE @ + 1,
                   !.asserts = @ /\ (LoopCount = 0 \/ s.loop + 1 < LoopCount)]

\* OnDecode has been called, and the next frame is decoded while this one is shown.  The
\* callback is the cache the owner of the decoder holds on to.
PresentAndProceedToNextFrame(s, o) ==
    IF ~o.delivers THEN [s EXCEPT !.failed = TRUE]
    ELSE IF NeedMoreFrames(s) /\ o.decodes THEN DecodeAndSchedule(NextFrame(s), o)
    ELSE s

\* What PresentAndProceedToNextFrame hands to OnDecode.
Response(s, result, o) ==
    [order |-> s.order, frame |-> result.frame, made |-> result.order, ok |-> o.decodes]

\* What the work item leaves in m_nextDecodingResult and m_spNextBitmapSource.
Decoded(s) == [frame |-> s.frame, order |-> s.order]

\* The work item.
OnDecodeCurrentFrame(s, o) ==
    LET done == [s EXCEPT !.job = FALSE, !.inProgress = FALSE] IN
    IF s.needsPresent
    THEN PresentAndProceedToNextFrame([done EXCEPT !.needsPresent = FALSE], o)
    ELSE [done EXCEPT !.result = Decoded(s)]

\* The handler of a timer; a timer that is no longer the current one does nothing.
OnPresentTimer(s, t, o) ==
    LET elapsed == [s EXCEPT !.elapsing = @ \ {t}, !.timer = 0] IN
    IF s.timer # t THEN [s EXCEPT !.elapsing = @ \ {t}]
    ELSE IF HasResult(s) THEN PresentAndProceedToNextFrame([elapsed EXCEPT !.result = NoResult], o)
    ELSE [elapsed EXCEPT !.needsPresent = TRUE]

\* Mutant of RestartPlayback: the frame that was decoded is not waited for.
RestartPlaybackIdle(s, o) ==
    IF ~NeedMoreFrames(s) THEN s
    ELSE IF s.inProgress \/ HasResult(s) THEN [s EXCEPT !.needsPresent = FALSE]
    ELSE DecodeAndSchedule([s EXCEPT !.needsPresent = FALSE], o)

RestartPlayback(s, o) ==
    LET restarted == [s EXCEPT !.needsPresent = FALSE] IN
    IF ~NeedMoreFrames(s) THEN s
    ELSE IF s.inProgress \/ HasResult(s) THEN ScheduleNextPresent(restarted, o)
    ELSE DecodeAndSchedule(restarted, o)
-----------------------------------------------------------------------------
\* Nothing decoded before is presented; a stopped decoder goes back to the first frame.
SetDecodeParams(s, order, o) ==
    LET ordered == [CancelPresent(s) EXCEPT
                        !.order = order, !.needsPresent = TRUE, !.result = NoResult,
                        !.frame = IF s.stopped THEN 0 ELSE @,
                        !.loop = IF s.stopped THEN 0 ELSE @]
    IN  IF s.inProgress THEN ordered ELSE SetupDecodeCurrentFrame(ordered, o)

PlayAnimation(s, o) ==
    IF s.stopped THEN RestartPlayback([s EXCEPT !.stopped = FALSE], o) ELSE s

\* Mutant of BackToFirstFrame: the frame that was decoded last is not discarded.
BackToFirstFrameKeepsResult(s) ==
    [CancelPresent(s) EXCEPT !.stopped = TRUE, !.loop = 0, !.frame = 0]

\* What StopAnimation makes of the state before it looks for something to present.
BackToFirstFrame(s) ==
    [CancelPresent(s) EXCEPT !.stopped = TRUE, !.loop = 0, !.frame = 0,
                             !.result = IF s.frame # 0 THEN NoResult ELSE @]

\* The first frame is presented at once if it is there, otherwise when it is decoded.
StopAnimation(s, o) ==
    LET first == BackToFirstFrame(s) IN
    IF first.inProgress
    THEN [first EXCEPT !.needsPresent = TRUE, !.asserts = @ /\ ~HasResult(first)]
    ELSE IF HasResult(first)
         THEN PresentAndProceedToNextFrame([first EXCEPT !.result = NoResult], o)
         ELSE SetupDecodeCurrentFrame([first EXCEPT !.needsPresent = TRUE], o)

\* SuspendAnimation, and CleanupDeviceRelatedResources, which gives back the surfaces too.
SuspendAnimation(s) == [CancelPresent(s) EXCEPT !.suspended = TRUE]

ResumeAnimation(s, o) ==
    IF s.suspended THEN RestartPlayback([s EXCEPT !.suspended = FALSE], o) ELSE s

\* The destructor; work items and timers hold on to the state they share.
DestroyDecoder(s) == [CancelPresent(s) EXCEPT !.alive = FALSE]

\* When an operation presents what it, or one before it, has decoded.
DecodePresents(s) == s.needsPresent
TimerPresents(s, t) == s.timer = t /\ HasResult(s)
StopPresents(s) == HasResult(BackToFirstFrame(s)) /\ ~s.inProgress
=============================================================================
