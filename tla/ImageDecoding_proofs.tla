------------------------- MODULE ImageDecoding_proofs -------------------------
(***************************************************************************)
(* Proofs about ImageDecoding, for any orders, frames, loops and failures  *)
(* of the platform: its type invariant, the assertions of the code, and    *)
(* the order in which frames are presented.                                *)
(***************************************************************************)
EXTENDS ImageDecoding, TLAPS

\* What the fields of the shared state owe each other whenever the mutex is free.
Sound(s) ==
    /\ s.asserts
    /\ s.job => s.inProgress
    /\ s.inProgress => s.result = NoResult
    /\ s.timer # 0 => ~s.needsPresent /\ ~s.stopped /\ ~s.suspended
    /\ s.timer # 0 \/ s.needsPresent => s.alive
    /\ s.result # NoResult => s.result = Decoded(s)
    /\ s.stopped => s.frame = 0 /\ s.loop = 0
    /\ LoopCount # 0 => s.loop < LoopCount
    /\ s.order \in Orders

Good(s) == s \in Decoder /\ Sound(s)

\* Nothing is decoded or about to be presented: where a decode or a timer may be started.
Quiet(s) == ~s.inProgress /\ ~s.job /\ s.result = NoResult /\ ~s.needsPresent /\ s.timer = 0

\* What no operation of the thread pool changes, and how far it takes the frame.
Follows(s, next) ==
    /\ next.stopped = s.stopped /\ next.suspended = s.suspended
    /\ next.alive = s.alive /\ next.order = s.order
    /\ next.frame \in {s.frame, s.frame + 1, 0}
-----------------------------------------------------------------------------
\* What a frame's number, a loop's and a decode's result can be.
LEMMA Numbers ==
    ASSUME NEW s \in Decoder
    PROVE  /\ s.frame \in Nat /\ s.frame < FrameCount /\ s.loop \in Nat /\ s.loop <= LoopCount
           /\ FrameCount \in Nat /\ LoopCount \in Nat /\ 0 \in Frames /\ 0 \in Loops
           /\ 0 \notin Timers
BY DecoderAssumption, SMT DEF Decoder, Frames, Loops, Timers

\* A presentation can be cancelled at any time.
LEMMA CancelKeepsGood ==
    ASSUME NEW s, Good(s)
    PROVE  /\ Good(CancelPresent(s))
           /\ CancelPresent(s).timer = 0 /\ ~CancelPresent(s).needsPresent
<1>1. CancelPresent(s) \in Decoder
  BY DEF Good, Decoder, CancelPresent
<1>2. Sound(CancelPresent(s)) /\ CancelPresent(s).timer = 0 /\ ~CancelPresent(s).needsPresent
  BY SMT DEF Good, Sound, Decoder, CancelPresent, Decoded
<1>. QED
  BY <1>1, <1>2 DEF Good

\* A decode can be started when there is none, and no result.
LEMMA SetupKeepsGood ==
    ASSUME NEW s, Good(s), NEW o, o.runs \in BOOLEAN, ~s.inProgress, s.result = NoResult
    PROVE  /\ Good(SetupDecodeCurrentFrame(s, o))
           /\ Follows(s, SetupDecodeCurrentFrame(s, o))
           /\ SetupDecodeCurrentFrame(s, o).timer = s.timer
           /\ SetupDecodeCurrentFrame(s, o).needsPresent = s.needsPresent
<1>. DEFINE next == SetupDecodeCurrentFrame(s, o)
<1>1. next \in Decoder
  BY DEF Good, Decoder, SetupDecodeCurrentFrame
<1>2. /\ next.asserts = (s.asserts /\ ~s.inProgress)
      /\ next.inProgress = TRUE /\ next.job = o.runs /\ next.result = s.result
      /\ next.timer = s.timer /\ next.needsPresent = s.needsPresent /\ next.stopped = s.stopped
      /\ next.suspended = s.suspended /\ next.alive = s.alive /\ next.frame = s.frame
      /\ next.loop = s.loop /\ next.order = s.order
  BY DEF Good, Decoder, SetupDecodeCurrentFrame
<1>. HIDE DEF next
<1>3. Sound(next)
  BY <1>1, <1>2, Zenon DEF Good, Sound
<1>. QED
  BY <1>1, <1>2, <1>3 DEF next, Good, Follows

\* A timer can be started when there is none and nothing is to be presented.
LEMMA ScheduleKeepsGood ==
    ASSUME NEW s, Good(s), NEW o, o.timer \in Timers, o.creates \in BOOLEAN,
           s.timer = 0, ~s.needsPresent, ~s.stopped, ~s.suspended, s.alive
    PROVE  /\ Good(ScheduleNextPresent(s, o))
           /\ Follows(s, ScheduleNextPresent(s, o))
<1>. DEFINE next == ScheduleNextPresent(s, o)
<1>1. next \in Decoder
  BY DEF Good, Decoder, ScheduleNextPresent
<1>2. /\ next.asserts = (s.asserts /\ s.timer = 0 /\ ~s.needsPresent)
      /\ next.inProgress = s.inProgress /\ next.job = s.job /\ next.result = s.result
      /\ next.needsPresent = s.needsPresent /\ next.stopped = s.stopped
      /\ next.suspended = s.suspended /\ next.alive = s.alive /\ next.frame = s.frame
      /\ next.loop = s.loop /\ next.order = s.order
  BY DEF Good, Decoder, ScheduleNextPresent
<1>. HIDE DEF next
<1>3. Sound(next)
  BY <1>1, <1>2, Zenon DEF Good, Sound, Decoded
<1>. QED
  BY <1>1, <1>2, <1>3 DEF next, Good, Follows

\* What NeedMoreFrames promises.
LEMMA MoreFrames ==
    ASSUME NEW s \in Decoder, NeedMoreFrames(s)
    PROVE  /\ ~s.stopped /\ ~s.suspended /\ FrameCount > 1
           /\ s.frame + 1 = FrameCount /\ LoopCount # 0 => s.loop + 1 # LoopCount
BY DEF NeedMoreFrames

\* The next frame exists, and is the first again after the last.
LEMMA NextFrameKeepsGood ==
    ASSUME NEW s, Good(s), NeedMoreFrames(s), Quiet(s)
    PROVE  /\ Good(NextFrame(s)) /\ Quiet(NextFrame(s))
           /\ Follows(s, NextFrame(s))
<1>. DEFINE next == NextFrame(s)
<1>1. /\ s.frame \in Nat /\ s.frame < FrameCount /\ s.loop \in Nat /\ s.loop <= LoopCount
      /\ FrameCount \in Nat /\ LoopCount \in Nat /\ 0 \in Frames
      /\ s \in Decoder /\ Sound(s) /\ ~s.stopped
      /\ s.frame + 1 = FrameCount /\ LoopCount # 0 => s.loop + 1 # LoopCount
  BY Numbers, MoreFrames DEF Good
<1>2. CASE s.frame + 1 < FrameCount
  <2>1. next = [s EXCEPT !.frame = s.frame + 1] /\ s.frame + 1 \in Frames
    BY <1>1, <1>2, SMT DEF NextFrame, Frames
  <2>2. next \in Decoder
    BY <1>1, <2>1 DEF Decoder
  <2>3. /\ next.asserts = s.asserts /\ next.inProgress = s.inProgress /\ next.job = s.job
        /\ next.result = s.result /\ next.needsPresent = s.needsPresent
        /\ next.stopped = s.stopped /\ next.suspended = s.suspended /\ next.alive = s.alive
        /\ next.frame = s.frame + 1 /\ next.loop = s.loop /\ next.order = s.order
        /\ next.timer = s.timer
    BY <1>1, <2>1 DEF Decoder
  <2>. HIDE DEF next
  <2>4. Sound(next)
    BY <1>1, <2>2, <2>3, Zenon DEF Sound, Quiet
  <2>. QED
    BY <2>2, <2>3, <2>4 DEF next, Good, Follows, Quiet
<1>3. CASE ~(s.frame + 1 < FrameCount)
  <2>. DEFINE loop == IF LoopCount = 0 THEN s.loop ELSE s.loop + 1
  <2>1. /\ s.frame + 1 = FrameCount
        /\ loop \in Loops /\ (LoopCount # 0 => loop < LoopCount /\ s.loop + 1 < LoopCount)
    BY <1>1, <1>3, SMT DEF Sound, Loops
  <2>2. /\ next = [s EXCEPT !.frame = 0, !.loop = loop,
                            !.asserts = @ /\ (LoopCount = 0 \/ s.loop + 1 < LoopCount)]
    BY <1>1, <1>3 DEF NextFrame, Decoder
  <2>3. next \in Decoder
    BY <1>1, <2>1, <2>2 DEF Decoder
  <2>4. /\ next.asserts = (s.asserts /\ (LoopCount = 0 \/ s.loop + 1 < LoopCount))
        /\ next.inProgress = s.inProgress /\ next.job = s.job
        /\ next.result = s.result /\ next.needsPresent = s.needsPresent
        /\ next.stopped = s.stopped /\ next.suspended = s.suspended /\ next.alive = s.alive
        /\ next.frame = 0 /\ next.loop = loop /\ next.order = s.order
        /\ next.timer = s.timer
    BY <1>1, <2>2 DEF Decoder
  <2>. HIDE DEF next, loop
  <2>5. Sound(next)
    BY <1>1, <2>1, <2>3, <2>4, Zenon DEF Sound, Quiet
  <2>. QED
    BY <2>3, <2>4, <2>5 DEF next, Good, Follows, Quiet
<1>. QED
  BY <1>2, <1>3
-----------------------------------------------------------------------------
\* What the platform makes of an operation.
LEMMA OutcomeTypes ==
    ASSUME NEW s, NEW o \in Outcomes(s)
    PROVE  /\ o.runs \in BOOLEAN /\ o.creates \in BOOLEAN /\ o.delivers \in BOOLEAN
           /\ o.decodes \in BOOLEAN /\ o.timer \in Timers
BY DecoderAssumption DEF Outcomes, Works

\* The next decode is started first, then the timer.
LEMMA DecodeAndScheduleKeepsGood ==
    ASSUME NEW s, Good(s), NEW t, NEW o \in Outcomes(t), Quiet(s), s.alive,
           ~s.stopped, ~s.suspended
    PROVE  Good(DecodeAndSchedule(s, o)) /\ Follows(s, DecodeAndSchedule(s, o))
<1>. DEFINE decoding == SetupDecodeCurrentFrame(s, o)
<1>1. o.runs \in BOOLEAN /\ o.creates \in BOOLEAN /\ o.timer \in Timers
  BY OutcomeTypes
<1>2. /\ Good(decoding) /\ Follows(s, decoding)
      /\ decoding.timer = 0 /\ ~decoding.needsPresent
  BY <1>1, SetupKeepsGood DEF Quiet
<1>. HIDE DEF decoding
<1>3. /\ Good(ScheduleNextPresent(decoding, o))
      /\ Follows(decoding, ScheduleNextPresent(decoding, o))
  BY <1>1, <1>2, ScheduleKeepsGood DEF Follows
<1>4. DecodeAndSchedule(s, o) = IF o.runs THEN ScheduleNextPresent(decoding, o) ELSE decoding
  BY DEF DecodeAndSchedule, decoding
<1>5. decoding.frame = s.frame /\ ScheduleNextPresent(decoding, o).frame = s.frame
  <2>1. decoding.frame = s.frame
    BY DEF decoding, SetupDecodeCurrentFrame, Good, Decoder
  <2>2. decoding \in Decoder
    BY <1>2 DEF Good
  <2>3. ScheduleNextPresent(decoding, o).frame = decoding.frame
    BY <2>2 DEF ScheduleNextPresent, Decoder
  <2>. QED
    BY <2>1, <2>3
<1>. QED
  BY <1>2, <1>3, <1>4, <1>5 DEF Follows

\* Presenting leaves a sound state, in which the frame is the same, the next or the first.
LEMMA PresentKeepsGood ==
    ASSUME NEW s, Good(s), NEW t, NEW o \in Outcomes(t), Quiet(s), s.alive
    PROVE  /\ Good(PresentAndProceedToNextFrame(s, o))
           /\ Follows(s, PresentAndProceedToNextFrame(s, o))
           /\ s.stopped => PresentAndProceedToNextFrame(s, o).frame = s.frame
<1>1. s \in Decoder /\ Sound(s)
  BY DEF Good
<1>2. CASE ~o.delivers
  <2>. DEFINE next == [s EXCEPT !.failed = TRUE]
  <2>1. PresentAndProceedToNextFrame(s, o) = next
    BY <1>2 DEF PresentAndProceedToNextFrame
  <2>2. next \in Decoder
    BY <1>1 DEF Decoder
  <2>3. /\ next.asserts = s.asserts /\ next.inProgress = s.inProgress /\ next.job = s.job
        /\ next.result = s.result /\ next.needsPresent = s.needsPresent
        /\ next.stopped = s.stopped /\ next.suspended = s.suspended /\ next.alive = s.alive
        /\ next.frame = s.frame /\ next.loop = s.loop /\ next.order = s.order
        /\ next.timer = s.timer
    BY <1>1 DEF Decoder
  <2>. HIDE DEF next
  <2>4. Sound(next)
    BY <1>1, <2>3, Zenon DEF Sound, Decoded
  <2>. QED
    BY <2>1, <2>2, <2>3, <2>4 DEF Good, Follows
<1>3. CASE o.delivers /\ NeedMoreFrames(s) /\ o.decodes
  <2>1. PresentAndProceedToNextFrame(s, o) = DecodeAndSchedule(NextFrame(s), o)
    BY <1>3 DEF PresentAndProceedToNextFrame
  <2>2. Good(NextFrame(s)) /\ Quiet(NextFrame(s)) /\ Follows(s, NextFrame(s)) /\ ~s.stopped
        /\ ~s.suspended
    BY <1>1, <1>3, NextFrameKeepsGood, MoreFrames
  <2>3. DecodeAndSchedule(NextFrame(s), o).frame = NextFrame(s).frame
    BY <2>2 DEF DecodeAndSchedule, ScheduleNextPresent, SetupDecodeCurrentFrame, Good, Decoder
  <2>4. /\ Good(DecodeAndSchedule(NextFrame(s), o))
        /\ Follows(NextFrame(s), DecodeAndSchedule(NextFrame(s), o))
    BY <2>2, DecodeAndScheduleKeepsGood DEF Follows
  <2>. QED
    BY <2>1, <2>2, <2>3, <2>4 DEF Follows
<1>4. CASE o.delivers /\ ~(NeedMoreFrames(s) /\ o.decodes)
  <2>1. PresentAndProceedToNextFrame(s, o) = s
    BY <1>4 DEF PresentAndProceedToNextFrame
  <2>. QED
    BY <2>1 DEF Follows
<1>. QED
  BY <1>2, <1>3, <1>4
-----------------------------------------------------------------------------
\* The work item leaves a sound state; it is at the frame it was, unless it presented it.
LEMMA WorkItemKeepsGood ==
    ASSUME NEW s, Good(s), NEW o \in Outcomes(s), s.job
    PROVE  /\ Good(OnDecodeCurrentFrame(s, o))
           /\ Follows(s, OnDecodeCurrentFrame(s, o))
           /\ ~s.needsPresent => OnDecodeCurrentFrame(s, o).frame = s.frame
           /\ s.needsPresent => s.alive
<1>1. s \in Decoder /\ Sound(s) /\ s.inProgress /\ s.result = NoResult
  BY DEF Good, Sound
<1>2. CASE s.needsPresent
  <2>. DEFINE done == [s EXCEPT !.job = FALSE, !.inProgress = FALSE, !.needsPresent = FALSE]
  <2>1. OnDecodeCurrentFrame(s, o) = PresentAndProceedToNextFrame(done, o)
    BY <1>1, <1>2 DEF OnDecodeCurrentFrame, Decoder
  <2>2. done \in Decoder
    BY <1>1 DEF Decoder
  <2>3. /\ done.asserts = s.asserts /\ done.inProgress = FALSE /\ done.job = FALSE
        /\ done.result = s.result /\ done.needsPresent = FALSE
        /\ done.stopped = s.stopped /\ done.suspended = s.suspended /\ done.alive = s.alive
        /\ done.frame = s.frame /\ done.loop = s.loop /\ done.order = s.order
        /\ done.timer = s.timer
    BY <1>1 DEF Decoder
  <2>. HIDE DEF done
  <2>4. Sound(done) /\ Quiet(done) /\ done.alive
    BY <1>1, <1>2, <2>3, Zenon DEF Sound, Quiet
  <2>5. /\ Good(PresentAndProceedToNextFrame(done, o))
        /\ Follows(done, PresentAndProceedToNextFrame(done, o))
    BY <2>2, <2>4, PresentKeepsGood DEF Good
  <2>. QED
    BY <1>2, <2>1, <2>3, <2>4, <2>5 DEF Follows
<1>3. CASE ~s.needsPresent
  <2>. DEFINE done == [s EXCEPT !.job = FALSE, !.inProgress = FALSE, !.result = Decoded(s)]
  <2>1. OnDecodeCurrentFrame(s, o) = done
    BY <1>1, <1>3 DEF OnDecodeCurrentFrame, Decoder
  <2>2. Decoded(s) \in Results
    <3>1. s.frame \in Frames /\ s.order \in Orders
      BY <1>1 DEF Sound, Decoder
    <3>. QED
      BY <3>1 DEF Decoded, Results
  <2>3. done \in Decoder
    BY <1>1, <2>2 DEF Decoder
  <2>4. /\ done.asserts = s.asserts /\ done.inProgress = FALSE /\ done.job = FALSE
        /\ done.result = Decoded(s) /\ done.needsPresent = s.needsPresent
        /\ done.stopped = s.stopped /\ done.suspended = s.suspended /\ done.alive = s.alive
        /\ done.frame = s.frame /\ done.loop = s.loop /\ done.order = s.order
        /\ done.timer = s.timer
    BY <1>1 DEF Decoder
  <2>. HIDE DEF done
  <2>5. Decoded(done) = Decoded(s)
    BY <2>4 DEF Decoded
  <2>6. Sound(done)
    BY <1>1, <2>4, <2>5, Zenon DEF Sound
  <2>. QED
    BY <1>3, <2>1, <2>3, <2>4, <2>6 DEF Good, Follows
<1>. QED
  BY <1>2, <1>3

\* The handler of a timer leaves a sound state; the same holds of its frame.
LEMMA TimerKeepsGood ==
    ASSUME NEW s, Good(s), NEW t \in Timers, NEW u, NEW o \in Outcomes(u)
    PROVE  /\ Good(OnPresentTimer(s, t, o))
           /\ Follows(s, OnPresentTimer(s, t, o))
           /\ ~TimerPresents(s, t) => OnPresentTimer(s, t, o).frame = s.frame
           /\ TimerPresents(s, t) => s.alive /\ ~s.stopped
<1>1. s \in Decoder /\ Sound(s) /\ 0 \notin Timers
  BY Numbers DEF Good
<1>2. CASE s.timer # t
  <2>. DEFINE next == [s EXCEPT !.elapsing = @ \ {t}]
  <2>1. OnPresentTimer(s, t, o) = next
    BY <1>2 DEF OnPresentTimer
  <2>2. next \in Decoder
    BY <1>1 DEF Decoder
  <2>3. /\ next.asserts = s.asserts /\ next.inProgress = s.inProgress /\ next.job = s.job
        /\ next.result = s.result /\ next.needsPresent = s.needsPresent
        /\ next.stopped = s.stopped /\ next.suspended = s.suspended /\ next.alive = s.alive
        /\ next.frame = s.frame /\ next.loop = s.loop /\ next.order = s.order
        /\ next.timer = s.timer
    BY <1>1 DEF Decoder
  <2>. HIDE DEF next
  <2>4. Sound(next)
    BY <1>1, <2>3, Zenon DEF Sound, Decoded
  <2>. QED
    BY <1>2, <2>1, <2>2, <2>3, <2>4 DEF Good, Follows, TimerPresents
<1>3. CASE s.timer = t /\ HasResult(s)
  <2>. DEFINE elapsed == [s EXCEPT !.elapsing = @ \ {t}, !.timer = 0, !.result = NoResult]
  <2>1. OnPresentTimer(s, t, o) = PresentAndProceedToNextFrame(elapsed, o)
    BY <1>1, <1>3 DEF OnPresentTimer, Decoder
  <2>2. elapsed \in Decoder
    BY <1>1 DEF Decoder, Results
  <2>3. /\ elapsed.asserts = s.asserts /\ elapsed.inProgress = s.inProgress /\ elapsed.job = s.job
        /\ elapsed.result = NoResult /\ elapsed.needsPresent = s.needsPresent
        /\ elapsed.stopped = s.stopped /\ elapsed.suspended = s.suspended
        /\ elapsed.alive = s.alive /\ elapsed.frame = s.frame /\ elapsed.loop = s.loop
        /\ elapsed.order = s.order /\ elapsed.timer = 0
    BY <1>1 DEF Decoder
  <2>. HIDE DEF elapsed
  <2>4. Sound(elapsed) /\ Quiet(elapsed) /\ elapsed.alive /\ s.alive /\ ~s.stopped
    BY <1>1, <1>3, <2>3, Zenon DEF Sound, Quiet, HasResult
  <2>5. /\ Good(PresentAndProceedToNextFrame(elapsed, o))
        /\ Follows(elapsed, PresentAndProceedToNextFrame(elapsed, o))
    BY <2>2, <2>4, PresentKeepsGood DEF Good
  <2>. QED
    BY <1>3, <2>1, <2>3, <2>4, <2>5 DEF Follows, TimerPresents
<1>4. CASE s.timer = t /\ ~HasResult(s)
  <2>. DEFINE elapsed == [s EXCEPT !.elapsing = @ \ {t}, !.timer = 0, !.needsPresent = TRUE]
  <2>1. OnPresentTimer(s, t, o) = elapsed
    BY <1>1, <1>4 DEF OnPresentTimer, Decoder
  <2>2. elapsed \in Decoder
    BY <1>1 DEF Decoder
  <2>3. /\ elapsed.asserts = s.asserts /\ elapsed.inProgress = s.inProgress /\ elapsed.job = s.job
        /\ elapsed.result = s.result /\ elapsed.needsPresent = TRUE
        /\ elapsed.stopped = s.stopped /\ elapsed.suspended = s.suspended
        /\ elapsed.alive = s.alive /\ elapsed.frame = s.frame /\ elapsed.loop = s.loop
        /\ elapsed.order = s.order /\ elapsed.timer = 0
    BY <1>1 DEF Decoder
  <2>. HIDE DEF elapsed
  <2>4. Sound(elapsed)
    BY <1>1, <1>4, <2>3, Zenon DEF Sound, HasResult
  <2>. QED
    BY <1>4, <2>1, <2>2, <2>3, <2>4 DEF Good, Follows, TimerPresents
<1>. QED
  BY <1>2, <1>3, <1>4
-----------------------------------------------------------------------------
\* New parameters leave a sound state, whatever was decoded or to be presented before.
LEMMA NewOrderIsGood ==
    ASSUME NEW s \in Decoder, NEW order \in Orders, NEW u, NEW o \in Outcomes(u),
           s.asserts, s.job => s.inProgress, s.alive, LoopCount # 0 => s.loop < LoopCount
    PROVE  /\ Good(SetDecodeParams(s, order, o))
           /\ SetDecodeParams(s, order, o).frame \in {s.frame, 0}
<1>. DEFINE frame == IF s.stopped THEN 0 ELSE s.frame
            loop == IF s.stopped THEN 0 ELSE s.loop
            ordered == [s EXCEPT !.needsPresent = TRUE, !.timer = 0, !.order = order,
                                 !.result = NoResult, !.frame = frame, !.loop = loop]
<1>1. SetDecodeParams(s, order, o) =
        IF s.inProgress THEN ordered ELSE SetupDecodeCurrentFrame(ordered, o)
  BY DEF SetDecodeParams, CancelPresent, Decoder
<1>2. frame \in Frames /\ loop \in Loops /\ NoResult \in Results /\ 0 \notin Timers
  BY Numbers DEF Decoder, Results
<1>3. LoopCount # 0 => loop < LoopCount
  BY Numbers, SMT
<1>4. ordered \in Decoder
  BY <1>2 DEF Decoder
<1>5. /\ ordered.asserts = s.asserts /\ ordered.inProgress = s.inProgress /\ ordered.job = s.job
      /\ ordered.result = NoResult /\ ordered.needsPresent = TRUE
      /\ ordered.stopped = s.stopped /\ ordered.suspended = s.suspended
      /\ ordered.alive = s.alive /\ ordered.frame = frame /\ ordered.loop = loop
      /\ ordered.order = order /\ ordered.timer = 0
  BY DEF Decoder
<1>6. s.stopped => frame = 0 /\ loop = 0
  OBVIOUS
<1>7. frame \in {s.frame, 0}
  OBVIOUS
<1>. HIDE DEF ordered, frame, loop
<1>8. Sound(ordered)
  BY <1>3, <1>5, <1>6, Zenon DEF Sound
<1>9. CASE s.inProgress
  BY <1>1, <1>4, <1>5, <1>7, <1>8, <1>9 DEF Good
<1>10. CASE ~s.inProgress
  <2>1. Good(SetupDecodeCurrentFrame(ordered, o))
    BY <1>4, <1>5, <1>8, <1>10, SetupKeepsGood, OutcomeTypes DEF Good
  <2>2. SetupDecodeCurrentFrame(ordered, o).frame = ordered.frame
    BY <1>4 DEF SetupDecodeCurrentFrame, Decoder
  <2>. QED
    BY <1>1, <1>5, <1>7, <1>10, <2>1, <2>2
<1>. QED
  BY <1>9, <1>10

\* Playback begins again in a sound state, at the same frame.
LEMMA RestartKeepsGood ==
    ASSUME NEW s, Good(s), NEW u, NEW o \in Outcomes(u), s.alive, s.timer = 0
    PROVE  /\ Good(RestartPlayback(s, o))
           /\ RestartPlayback(s, o).frame = s.frame
<1>. DEFINE restarted == [s EXCEPT !.needsPresent = FALSE]
<1>1. s \in Decoder /\ Sound(s)
  BY DEF Good
<1>2. restarted \in Decoder
  BY <1>1 DEF Decoder
<1>3. /\ restarted.asserts = s.asserts /\ restarted.inProgress = s.inProgress
      /\ restarted.job = s.job /\ restarted.result = s.result /\ restarted.needsPresent = FALSE
      /\ restarted.stopped = s.stopped /\ restarted.suspended = s.suspended
      /\ restarted.alive = s.alive /\ restarted.frame = s.frame /\ restarted.loop = s.loop
      /\ restarted.order = s.order /\ restarted.timer = s.timer
  BY <1>1 DEF Decoder
<1>4. RestartPlayback(s, o) =
        IF ~NeedMoreFrames(s) THEN s
        ELSE IF s.inProgress \/ HasResult(s) THEN ScheduleNextPresent(restarted, o)
        ELSE DecodeAndSchedule(restarted, o)
  BY DEF RestartPlayback
<1>. HIDE DEF restarted
<1>5. Sound(restarted)
  BY <1>1, <1>3, Zenon DEF Sound, Decoded
<1>6. Good(restarted)
  BY <1>2, <1>5 DEF Good
<1>7. CASE ~NeedMoreFrames(s)
  BY <1>4, <1>7
<1>8. CASE NeedMoreFrames(s) /\ (s.inProgress \/ HasResult(s))
  <2>1. ~s.stopped /\ ~s.suspended
    BY <1>1, <1>8, MoreFrames
  <2>2. Good(ScheduleNextPresent(restarted, o))
    BY <1>3, <1>6, <2>1, ScheduleKeepsGood, OutcomeTypes
  <2>3. ScheduleNextPresent(restarted, o).frame = restarted.frame
    BY <1>2 DEF ScheduleNextPresent, Decoder
  <2>. QED
    BY <1>3, <1>4, <1>8, <2>2, <2>3
<1>9. CASE NeedMoreFrames(s) /\ ~(s.inProgress \/ HasResult(s))
  <2>1. ~s.stopped /\ ~s.suspended
    BY <1>1, <1>9, MoreFrames
  <2>2. Quiet(restarted)
    BY <1>1, <1>3, <1>9 DEF Quiet, Sound, HasResult
  <2>3. Good(DecodeAndSchedule(restarted, o))
    BY <1>3, <1>6, <2>1, <2>2, DecodeAndScheduleKeepsGood
  <2>4. DecodeAndSchedule(restarted, o).frame = restarted.frame
    BY <1>2 DEF DecodeAndSchedule, ScheduleNextPresent, SetupDecodeCurrentFrame, Decoder
  <2>. QED
    BY <1>3, <1>4, <1>9, <2>3, <2>4
<1>. QED
  BY <1>7, <1>8, <1>9

\* Playing begins where the animation was stopped.
LEMMA PlayKeepsGood ==
    ASSUME NEW s, Good(s), NEW u, NEW o \in Outcomes(u), s.alive
    PROVE  Good(PlayAnimation(s, o)) /\ PlayAnimation(s, o).frame = s.frame
<1>. DEFINE playing == [s EXCEPT !.stopped = FALSE]
<1>1. s \in Decoder /\ Sound(s)
  BY DEF Good
<1>2. CASE s.stopped
  <2>1. playing \in Decoder
    BY <1>1 DEF Decoder
  <2>2. /\ playing.asserts = s.asserts /\ playing.inProgress = s.inProgress
        /\ playing.job = s.job /\ playing.result = s.result
        /\ playing.needsPresent = s.needsPresent /\ playing.stopped = FALSE
        /\ playing.suspended = s.suspended /\ playing.alive = s.alive
        /\ playing.frame = s.frame /\ playing.loop = s.loop /\ playing.order = s.order
        /\ playing.timer = s.timer
    BY <1>1 DEF Decoder
  <2>3. PlayAnimation(s, o) = RestartPlayback(playing, o)
    BY <1>2 DEF PlayAnimation
  <2>. HIDE DEF playing
  <2>4. Sound(playing) /\ playing.timer = 0
    BY <1>1, <1>2, <2>2, Zenon DEF Sound, Decoded
  <2>. QED
    BY <2>1, <2>2, <2>3, <2>4, RestartKeepsGood DEF Good
<1>3. CASE ~s.stopped
  BY <1>3 DEF PlayAnimation
<1>. QED
  BY <1>2, <1>3

\* Suspending stops the timer and leaves the frame.
LEMMA SuspendKeepsGood ==
    ASSUME NEW s, Good(s)
    PROVE  Good(SuspendAnimation(s)) /\ SuspendAnimation(s).frame = s.frame
<1>. DEFINE next == SuspendAnimation(s)
<1>1. s \in Decoder /\ Sound(s)
  BY DEF Good
<1>2. next \in Decoder
  BY <1>1 DEF Decoder, SuspendAnimation, CancelPresent
<1>3. /\ next.asserts = s.asserts /\ next.inProgress = s.inProgress /\ next.job = s.job
      /\ next.result = s.result /\ next.needsPresent = FALSE
      /\ next.stopped = s.stopped /\ next.suspended = TRUE /\ next.alive = s.alive
      /\ next.frame = s.frame /\ next.loop = s.loop /\ next.order = s.order
      /\ next.timer = 0
  BY <1>1 DEF Decoder, SuspendAnimation, CancelPresent
<1>. HIDE DEF next
<1>4. Sound(next)
  BY <1>1, <1>3, Zenon DEF Sound, Decoded
<1>. QED
  BY <1>2, <1>3, <1>4 DEF Good, next

\* Playback begins again after a suspension, unless it is stopped.
LEMMA ResumeKeepsGood ==
    ASSUME NEW s, Good(s), NEW u, NEW o \in Outcomes(u), s.alive
    PROVE  Good(ResumeAnimation(s, o)) /\ ResumeAnimation(s, o).frame = s.frame
<1>. DEFINE resumed == [s EXCEPT !.suspended = FALSE]
<1>1. s \in Decoder /\ Sound(s)
  BY DEF Good
<1>2. CASE s.suspended
  <2>1. resumed \in Decoder
    BY <1>1 DEF Decoder
  <2>2. /\ resumed.asserts = s.asserts /\ resumed.inProgress = s.inProgress
        /\ resumed.job = s.job /\ resumed.result = s.result
        /\ resumed.needsPresent = s.needsPresent /\ resumed.stopped = s.stopped
        /\ resumed.suspended = FALSE /\ resumed.alive = s.alive
        /\ resumed.frame = s.frame /\ resumed.loop = s.loop /\ resumed.order = s.order
        /\ resumed.timer = s.timer
    BY <1>1 DEF Decoder
  <2>3. ResumeAnimation(s, o) = RestartPlayback(resumed, o)
    BY <1>2 DEF ResumeAnimation
  <2>. HIDE DEF resumed
  <2>4. Sound(resumed) /\ resumed.timer = 0
    BY <1>1, <1>2, <2>2, Zenon DEF Sound, Decoded
  <2>. QED
    BY <2>1, <2>2, <2>3, <2>4, RestartKeepsGood DEF Good
<1>3. CASE ~s.suspended
  BY <1>3 DEF ResumeAnimation
<1>. QED
  BY <1>2, <1>3

\* Destruction cancels what was to be presented.
LEMMA DestroyKeepsGood ==
    ASSUME NEW s, Good(s)
    PROVE  Good(DestroyDecoder(s)) /\ DestroyDecoder(s).frame = s.frame
<1>. DEFINE next == DestroyDecoder(s)
<1>1. s \in Decoder /\ Sound(s)
  BY DEF Good
<1>2. next \in Decoder
  BY <1>1 DEF Decoder, DestroyDecoder, CancelPresent
<1>3. /\ next.asserts = s.asserts /\ next.inProgress = s.inProgress /\ next.job = s.job
      /\ next.result = s.result /\ next.needsPresent = FALSE
      /\ next.stopped = s.stopped /\ next.suspended = s.suspended
      /\ next.frame = s.frame /\ next.loop = s.loop /\ next.order = s.order
      /\ next.timer = 0
  BY <1>1 DEF Decoder, DestroyDecoder, CancelPresent
<1>. HIDE DEF next
<1>4. Sound(next)
  BY <1>1, <1>3, Zenon DEF Sound, Decoded
<1>. QED
  BY <1>2, <1>3, <1>4 DEF Good, next

\* Stopping goes back to the first frame: it is presented at once, or decoded if nobody is
\* decoding, and in either case a sound state is left.
LEMMA StopKeepsGood ==
    ASSUME NEW s, Good(s), NEW u, NEW o \in Outcomes(u), s.alive
    PROVE  /\ Good(StopAnimation(s, o))
           /\ StopAnimation(s, o).frame = 0
           /\ StopPresents(s) => s.frame = 0 /\ s.result = Decoded(s)
<1>. DEFINE result == IF s.frame # 0 THEN NoResult ELSE s.result
            first == [s EXCEPT !.needsPresent = FALSE, !.timer = 0, !.stopped = TRUE,
                               !.loop = 0, !.frame = 0, !.result = result]
<1>1. s \in Decoder /\ Sound(s) /\ 0 \in Frames /\ 0 \in Loops
  BY Numbers DEF Good
<1>2. BackToFirstFrame(s) = first
  BY <1>1 DEF BackToFirstFrame, CancelPresent, Decoder
<1>3. first \in Decoder
  BY <1>1 DEF Decoder, Results
<1>4. /\ first.asserts = s.asserts /\ first.inProgress = s.inProgress /\ first.job = s.job
      /\ first.result = result /\ first.needsPresent = FALSE
      /\ first.stopped = TRUE /\ first.suspended = s.suspended /\ first.alive = s.alive
      /\ first.frame = 0 /\ first.loop = 0 /\ first.order = s.order
      /\ first.timer = 0
  BY <1>1 DEF Decoder
<1>5. /\ result # NoResult => s.frame = 0 /\ s.result = Decoded(s) /\ result = Decoded(first)
      /\ s.inProgress => result = NoResult
  BY <1>1, <1>4 DEF Sound, Decoded
<1>6. LoopCount # 0 => 0 < LoopCount
  BY DecoderAssumption, SMT
<1>. HIDE DEF first, result
<1>7. Sound(first)
  BY <1>1, <1>4, <1>5, <1>6, Zenon DEF Sound
<1>8. StopAnimation(s, o) =
        IF first.inProgress
        THEN [first EXCEPT !.needsPresent = TRUE, !.asserts = @ /\ ~HasResult(first)]
        ELSE IF HasResult(first)
             THEN PresentAndProceedToNextFrame([first EXCEPT !.result = NoResult], o)
             ELSE SetupDecodeCurrentFrame([first EXCEPT !.needsPresent = TRUE], o)
  BY <1>2 DEF StopAnimation
<1>9. StopPresents(s) => s.frame = 0 /\ s.result = Decoded(s)
  BY <1>2, <1>4, <1>5 DEF StopPresents, HasResult
<1>10. CASE first.inProgress
  <2>. DEFINE next == [first EXCEPT !.needsPresent = TRUE, !.asserts = @ /\ ~HasResult(first)]
  <2>1. next \in Decoder
    BY <1>3 DEF Decoder
  <2>2. /\ next.asserts = (first.asserts /\ ~HasResult(first))
        /\ next.inProgress = first.inProgress /\ next.job = first.job
        /\ next.result = first.result /\ next.needsPresent = TRUE
        /\ next.stopped = TRUE /\ next.suspended = first.suspended
        /\ next.alive = first.alive /\ next.frame = 0 /\ next.loop = 0
        /\ next.order = first.order /\ next.timer = 0
    BY <1>3, <1>4 DEF Decoder
  <2>. HIDE DEF next
  <2>3. ~HasResult(first)
    BY <1>4, <1>5, <1>10 DEF HasResult
  <2>4. Sound(next)
    BY <1>4, <1>7, <1>10, <2>2, <2>3, Zenon DEF Sound, HasResult
  <2>. QED
    BY <1>8, <1>9, <1>10, <2>1, <2>2, <2>4 DEF next, Good
<1>11. CASE ~first.inProgress /\ HasResult(first)
  <2>. DEFINE taken == [first EXCEPT !.result = NoResult]
  <2>1. taken \in Decoder
    BY <1>3 DEF Decoder, Results
  <2>2. /\ taken.asserts = first.asserts /\ taken.inProgress = first.inProgress
        /\ taken.job = first.job /\ taken.result = NoResult /\ taken.needsPresent = FALSE
        /\ taken.stopped = TRUE /\ taken.suspended = first.suspended
        /\ taken.alive = first.alive /\ taken.frame = 0 /\ taken.loop = 0
        /\ taken.order = first.order /\ taken.timer = 0
    BY <1>3, <1>4 DEF Decoder
  <2>. HIDE DEF taken
  <2>3. Sound(taken)
    BY <1>7, <1>4, <2>2, Zenon DEF Sound
  <2>4. Quiet(taken)
    BY <1>7, <1>11, <2>2, Zenon DEF Sound, Quiet
  <2>5. /\ Good(PresentAndProceedToNextFrame(taken, o))
        /\ PresentAndProceedToNextFrame(taken, o).frame = 0
    BY <1>4, <2>1, <2>2, <2>3, <2>4, PresentKeepsGood DEF Good
  <2>. QED
    BY <1>8, <1>9, <1>11, <2>5 DEF taken
<1>12. CASE ~first.inProgress /\ ~HasResult(first)
  <2>. DEFINE asked == [first EXCEPT !.needsPresent = TRUE]
  <2>1. asked \in Decoder
    BY <1>3 DEF Decoder
  <2>2. /\ asked.asserts = first.asserts /\ asked.inProgress = first.inProgress
        /\ asked.job = first.job /\ asked.result = first.result /\ asked.needsPresent = TRUE
        /\ asked.stopped = TRUE /\ asked.suspended = first.suspended
        /\ asked.alive = first.alive /\ asked.frame = 0 /\ asked.loop = 0
        /\ asked.order = first.order /\ asked.timer = 0
    BY <1>3, <1>4 DEF Decoder
  <2>. HIDE DEF asked
  <2>3. Sound(asked) /\ ~asked.inProgress /\ asked.result = NoResult
    BY <1>4, <1>7, <1>12, <2>2, Zenon DEF Sound, HasResult
  <2>4. Good(SetupDecodeCurrentFrame(asked, o))
    BY <2>1, <2>3, SetupKeepsGood, OutcomeTypes DEF Good
  <2>5. SetupDecodeCurrentFrame(asked, o).frame = asked.frame
    BY <2>1 DEF SetupDecodeCurrentFrame, Decoder
  <2>. QED
    BY <1>8, <1>9, <1>12, <2>2, <2>4, <2>5 DEF asked
<1>. QED
  BY <1>10, <1>11, <1>12
-----------------------------------------------------------------------------
\* The invariant: the shared state is sound, and its frame follows the one shown last.
PInv ==
    /\ TypeOK
    /\ Good(decoder)
    /\ decoder.frame \in {0, shown.frame, shown.frame + 1}

\* What a step that presents something must be.
OrderedStep ==
    shown' # shown =>
        /\ decoder.alive
        /\ shown'.made = shown'.order /\ shown'.order = decoder.order
        /\ (decoder'.stopped => shown'.frame = 0)
        /\ shown'.frame \in {0, shown.frame, shown.frame + 1}

\* The response that is handed over when a frame decoded for the current order is shown.
LEMMA ShowIsCurrent ==
    ASSUME PInv, NEW s, NEW t, NEW o \in Outcomes(t), s.order = decoder.order,
           Show(s, Decoded(decoder), o)
    PROVE  /\ shown' \in [turn : BOOLEAN, order : Orders \union {NoOrder},
                          frame : Frames \union {-1}, made : Orders \union {NoOrder},
                          ok : BOOLEAN]
           /\ owed' \in BOOLEAN
           /\ shown'.frame = decoder.frame /\ shown'.made = shown'.order
           /\ shown'.order = decoder.order
<1>1. decoder.frame \in Frames /\ decoder.order \in Orders /\ o.decodes \in BOOLEAN
  BY OutcomeTypes DEF PInv, Good, Sound, Decoder
<1>2. shown' = [turn |-> ~shown.turn, order |-> decoder.order, frame |-> decoder.frame,
                made |-> decoder.order, ok |-> o.decodes]
  BY DEF Show, Response, Decoded
<1>3. owed' \in BOOLEAN
  BY DEF Show
<1>. QED
  BY <1>1, <1>2, <1>3

\* Every image starts in order.
LEMMA InitIsGood == Init => PInv
<1>. SUFFICES ASSUME Init PROVE PInv
  OBVIOUS
<1>1. PICK autoPlay \in BOOLEAN, order \in Orders :
        \E o \in Outcomes(NewDecoder(autoPlay)) :
            decoder = SetDecodeParams(NewDecoder(autoPlay), order, o)
  BY DEF Init
<1>. DEFINE new == NewDecoder(autoPlay)
<1>2. new \in Decoder
  <2>1. 0 \in Frames /\ 0 \in Loops
    BY DecoderAssumption, SMT DEF Frames, Loops
  <2>. QED
    BY <2>1 DEF NewDecoder, Decoder, Results, NoResult
<1>3. new.asserts /\ ~new.job /\ new.alive /\ new.loop = 0 /\ new.frame = 0
  BY DEF NewDecoder
<1>4. LoopCount # 0 => new.loop < LoopCount
  BY <1>3, DecoderAssumption, SMT
<1>. HIDE DEF new
<1>5. Good(decoder) /\ decoder.frame = 0
  <2>1. PICK o \in Outcomes(new) : decoder = SetDecodeParams(new, order, o)
    BY <1>1 DEF new
  <2>. QED
    BY <1>2, <1>3, <1>4, <2>1, NewOrderIsGood
<1>6. TypeOK
  BY <1>5, CallsAssumption DEF Init, TypeOK, NothingShown, Good
<1>. QED
  BY <1>5, <1>6 DEF PInv

\* Every step keeps the invariant, and what it presents is in order.
LEMMA NextIsGood == PInv /\ [Next]_vars => PInv' /\ OrderedStep
<1>. SUFFICES ASSUME PInv, [Next]_vars PROVE PInv' /\ OrderedStep
  OBVIOUS
<1>1. /\ Good(decoder) /\ decoder \in Decoder /\ Sound(decoder)
      /\ decoder.frame \in {0, shown.frame, shown.frame + 1}
  BY DEF PInv, Good
<1>2. MaxCalls \in Nat
  BY CallsAssumption
<1>3. ASSUME WorkItem PROVE PInv' /\ OrderedStep
  <2>1. PICK o \in Outcomes(decoder) :
            /\ decoder' = OnDecodeCurrentFrame(decoder, o)
            /\ IF DecodePresents(decoder) THEN Show(decoder, Decoded(decoder), o)
               ELSE UNCHANGED <<shown, owed>>
    BY <1>3 DEF WorkItem
  <2>2. /\ Good(decoder') /\ Follows(decoder, decoder')
        /\ ~decoder.needsPresent => decoder'.frame = decoder.frame
        /\ decoder.needsPresent => decoder.alive
    BY <1>1, <1>3, <2>1, WorkItemKeepsGood DEF WorkItem
  <2>3. CASE decoder.needsPresent
    <3>1. Show(decoder, Decoded(decoder), o)
      BY <2>1, <2>3 DEF DecodePresents
    <3>2. /\ shown' \in [turn : BOOLEAN, order : Orders \union {NoOrder},
                          frame : Frames \union {-1}, made : Orders \union {NoOrder},
                          ok : BOOLEAN]
          /\ owed' \in BOOLEAN
          /\ shown'.frame = decoder.frame /\ shown'.made = shown'.order
          /\ shown'.order = decoder.order
      BY <3>1, ShowIsCurrent
    <3>3. decoder'.frame \in {0, shown'.frame, shown'.frame + 1}
      BY <2>2, <3>2 DEF Follows
    <3>4. decoder'.stopped => shown'.frame = 0
      BY <1>1, <2>2, <3>2 DEF Follows, Sound
    <3>. QED
      BY <1>1, <1>3, <2>2, <2>3, <3>2, <3>3, <3>4 DEF PInv, OrderedStep, TypeOK, WorkItem, Good
  <2>4. CASE ~decoder.needsPresent
    BY <1>1, <1>3, <2>1, <2>2, <2>4 DEF PInv, OrderedStep, TypeOK, WorkItem, DecodePresents, Good
  <2>. QED
    BY <2>3, <2>4
<1>4. ASSUME NEW t \in Timers, Timer(t) PROVE PInv' /\ OrderedStep
  <2>1. PICK o \in Outcomes([decoder EXCEPT !.elapsing = @ \ {t}]) :
            /\ decoder' = OnPresentTimer(decoder, t, o)
            /\ IF TimerPresents(decoder, t) THEN Show(decoder, decoder.result, o)
               ELSE UNCHANGED <<shown, owed>>
    BY <1>4 DEF Timer
  <2>2. /\ Good(decoder') /\ Follows(decoder, decoder')
        /\ ~TimerPresents(decoder, t) => decoder'.frame = decoder.frame
        /\ TimerPresents(decoder, t) => decoder.alive /\ ~decoder.stopped
    BY <1>1, <2>1, TimerKeepsGood
  <2>3. CASE TimerPresents(decoder, t)
    <3>1. Show(decoder, Decoded(decoder), o)
      BY <1>1, <2>1, <2>3 DEF TimerPresents, HasResult, Sound
    <3>2. /\ shown' \in [turn : BOOLEAN, order : Orders \union {NoOrder},
                          frame : Frames \union {-1}, made : Orders \union {NoOrder},
                          ok : BOOLEAN]
          /\ owed' \in BOOLEAN
          /\ shown'.frame = decoder.frame /\ shown'.made = shown'.order
          /\ shown'.order = decoder.order
      BY <2>1, <3>1, ShowIsCurrent
    <3>3. decoder'.frame \in {0, shown'.frame, shown'.frame + 1}
      BY <2>2, <3>2 DEF Follows
    <3>. QED
      BY <1>1, <1>4, <2>2, <2>3, <3>2, <3>3 DEF PInv, OrderedStep, TypeOK, Timer, Good, Follows
  <2>4. CASE ~TimerPresents(decoder, t)
    BY <1>1, <1>4, <2>1, <2>2, <2>4 DEF PInv, OrderedStep, TypeOK, Timer, Good
  <2>. QED
    BY <2>3, <2>4
<1>5. ASSUME NEW order \in Orders, NewOrder(order) PROVE PInv' /\ OrderedStep
  <2>1. PICK o \in Outcomes(decoder) : decoder' = SetDecodeParams(decoder, order, o)
    BY <1>5 DEF NewOrder
  <2>2. Good(decoder') /\ decoder'.frame \in {decoder.frame, 0}
    BY <1>1, <1>5, <2>1, NewOrderIsGood DEF NewOrder, Call, Sound
  <2>. QED
    BY <1>1, <1>2, <1>5, <2>2 DEF PInv, OrderedStep, TypeOK, NewOrder, Call, Good
<1>6. ASSUME Play PROVE PInv' /\ OrderedStep
  <2>1. PICK o \in Outcomes(decoder) : decoder' = PlayAnimation(decoder, o)
    BY <1>6 DEF Play
  <2>2. Good(decoder') /\ decoder'.frame = decoder.frame
    BY <1>1, <1>6, <2>1, PlayKeepsGood DEF Play, Call
  <2>3. owed' \in BOOLEAN
    BY <1>6 DEF Play, PInv, TypeOK
  <2>. QED
    BY <1>1, <1>2, <1>6, <2>2, <2>3 DEF PInv, OrderedStep, TypeOK, Play, Call, Good
<1>7. ASSUME Stop PROVE PInv' /\ OrderedStep
  <2>1. PICK o \in Outcomes(decoder) :
            /\ decoder' = StopAnimation(decoder, o)
            /\ IF StopPresents(decoder)
               THEN Show(BackToFirstFrame(decoder), decoder.result, o)
               ELSE owed' = TRUE /\ UNCHANGED shown
    BY <1>7 DEF Stop
  <2>2. /\ Good(decoder') /\ decoder'.frame = 0
        /\ StopPresents(decoder) => decoder.frame = 0 /\ decoder.result = Decoded(decoder)
    BY <1>1, <1>7, <2>1, StopKeepsGood DEF Stop, Call
  <2>3. CASE StopPresents(decoder)
    <3>1. BackToFirstFrame(decoder).order = decoder.order
      BY <1>1 DEF BackToFirstFrame, CancelPresent, Decoder
    <3>2. /\ shown' \in [turn : BOOLEAN, order : Orders \union {NoOrder},
                          frame : Frames \union {-1}, made : Orders \union {NoOrder},
                          ok : BOOLEAN]
          /\ owed' \in BOOLEAN
          /\ shown'.frame = decoder.frame /\ shown'.made = shown'.order
          /\ shown'.order = decoder.order
      BY <2>1, <2>2, <2>3, <3>1, ShowIsCurrent
    <3>. QED
      BY <1>1, <1>2, <1>7, <2>2, <2>3, <3>2 DEF PInv, OrderedStep, TypeOK, Stop, Call, Good
  <2>4. CASE ~StopPresents(decoder)
    BY <1>1, <1>2, <1>7, <2>1, <2>2, <2>4 DEF PInv, OrderedStep, TypeOK, Stop, Call, Good
  <2>. QED
    BY <2>3, <2>4
<1>8. ASSUME Suspend PROVE PInv' /\ OrderedStep
  <2>1. Good(decoder') /\ decoder'.frame = decoder.frame
    BY <1>1, <1>8, SuspendKeepsGood DEF Suspend
  <2>2. owed' = FALSE /\ shown' = shown /\ calls' = calls + 1 /\ calls < MaxCalls
    BY <1>8 DEF Suspend, Call
  <2>3. TypeOK'
    <3>1. calls' \in 0..MaxCalls
      BY <1>2, <2>2, SMT DEF PInv, TypeOK
    <3>. QED
      BY <2>1, <2>2, <3>1, Zenon DEF PInv, TypeOK, Good
  <2>. QED
    BY <1>1, <2>1, <2>2, <2>3 DEF PInv, OrderedStep
<1>9. ASSUME Resume PROVE PInv' /\ OrderedStep
  <2>1. PICK o \in Outcomes(decoder) : decoder' = ResumeAnimation(decoder, o)
    BY <1>9 DEF Resume
  <2>2. Good(decoder') /\ decoder'.frame = decoder.frame
    BY <1>1, <1>9, <2>1, ResumeKeepsGood DEF Resume, Call
  <2>3. owed' \in BOOLEAN
    BY <1>9 DEF Resume, PInv, TypeOK
  <2>. QED
    BY <1>1, <1>2, <1>9, <2>2, <2>3 DEF PInv, OrderedStep, TypeOK, Resume, Call, Good
<1>10. ASSUME Destroy PROVE PInv' /\ OrderedStep
  <2>1. Good(decoder') /\ decoder'.frame = decoder.frame
    BY <1>1, <1>10, DestroyKeepsGood DEF Destroy
  <2>. QED
    BY <1>1, <1>2, <1>10, <2>1 DEF PInv, OrderedStep, TypeOK, Destroy, Call, Good
<1>11. CASE UNCHANGED vars
  BY <1>1, <1>11 DEF PInv, OrderedStep, TypeOK, vars
<1>. QED
  BY <1>3, <1>4, <1>5, <1>6, <1>7, <1>8, <1>9, <1>10, <1>11 DEF Next

\* The invariant holds in every state.
LEMMA DecodingInvariance == Spec => []PInv
<1>1. Init => PInv
  BY InitIsGood
<1>2. PInv /\ [Next]_vars => PInv'
  BY NextIsGood
<1>. QED
  BY <1>1, <1>2, PTL DEF Spec

\* Every variable holds a value of its type, in every run of a decoder.
THEOREM DecodingTypeCorrect == Spec => []TypeOK
<1>1. PInv => TypeOK
  BY DEF PInv
<1>. QED
  BY <1>1, DecodingInvariance, PTL

\* No ASSERT of AsyncImageDecoder.cpp fails: one decode at a time, one timer at a time, no
\* loop too many.
THEOREM DecoderAssertionsHold == Spec => []AssertionsHold
<1>1. PInv => AssertionsHold
  BY DEF PInv, Good, Sound, AssertionsHold
<1>. QED
  BY <1>1, DecodingInvariance, PTL

\* What waits to be presented was decoded for the current frame and parameters.
THEOREM NoStaleResult == Spec => []ResultIsCurrent
<1>1. PInv => ResultIsCurrent
  BY DEF PInv, Good, Sound, ResultIsCurrent, HasResult
<1>. QED
  BY <1>1, DecodingInvariance, PTL

\* Frames are presented in order, and under the parameters they were decoded for.
THEOREM FramesInOrder == Spec => PresentsInOrder
<1>1. PInv /\ [Next]_vars => [OrderedStep]_vars
  BY NextIsGood
<1>2. OrderedStep = (shown' # shown =>
        /\ decoder.alive
        /\ shown'.made = shown'.order /\ shown'.order = decoder.order
        /\ (decoder'.stopped => shown'.frame = 0)
        /\ shown'.frame \in {0, shown.frame, shown.frame + 1})
  BY DEF OrderedStep
<1>. QED
  BY <1>1, <1>2, DecodingInvariance, PTL DEF Spec, PresentsInOrder, OrderedStep
=============================================================================
