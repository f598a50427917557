------------------------- MODULE RefreshAlignedClock -------------------------
(***************************************************************************)
(* The clock the UI thread and the render thread share                     *)
(* (core/compositor/RefreshAlignedClock.cpp).  Only the render thread      *)
(* moves it; both threads read it.  Time is counted in units of which Sub  *)
(* (declared by UIThreadScheduler) make a millisecond, so that the code's  *)
(* truncations to whole milliseconds can be told from the exact value.     *)
(***************************************************************************)
EXTENDS Integers

CONSTANTS
    MaxTime,    \* bound of the model: the platform clock stops there
    MaxSkew     \* how far behind the platform clock one reading can be

ASSUME ClockAssumption == MaxTime \in Nat /\ MaxSkew \in Nat

VARIABLES
    now,        \* the platform clock (IPALClock), which nobody in the code writes
    reported    \* m_lastReportedTime

clockVars == <<now, reported>>

\* What IPALClock::GetAbsoluteTimeInSeconds can return: two reads on different
\* cores need not agree on their order.
Readings == {now - skew : skew \in 0..MaxSkew}

ClockInit == now = 0 /\ reported = 0

\* Mutant of NextTickTime: the reading is taken as it comes.
NextTickTimeUnclamped(reading) == reading

\* GetNextTickTimeInSeconds: a reading, never earlier than the last report.
NextTickTime(reading) == IF reading < reported THEN reported ELSE reading

\* Tick: move the clock to the next tick time.
Tick(reading) == reported' = NextTickTime(reading) /\ UNCHANGED now

\* Time passes.
Advance == now < MaxTime /\ now' = now + 1 /\ UNCHANGED reported
=============================================================================
