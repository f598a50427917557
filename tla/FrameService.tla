---------------------------- MODULE FrameService -----------------------------
(***************************************************************************)
(* What the frame scheduler promises whoever asks it for a frame: ticks    *)
(* come one at a time, each because one was asked for; a request made      *)
(* before a tick begins is served by that tick, one made during a tick is  *)
(* served by another; and no request is forgotten while the scheduler      *)
(* lives.  Threads, clocks, messages and waits do not appear.              *)
(***************************************************************************)
VARIABLES
    phase,      \* what the UI thread is doing about ticks
    wanted,     \* a tick is wanted beyond the one that runs
    alive       \* the scheduler exists

serviceVars == <<phase, wanted, alive>>

ServiceInit == phase = "Waiting" /\ wanted = FALSE /\ alive = FALSE

Open == ~alive /\ phase = "Waiting" /\ ~wanted /\ alive' = TRUE /\ UNCHANGED <<phase, wanted>>

Ask == alive /\ wanted' = TRUE /\ UNCHANGED <<phase, alive>>

QueueIt == alive /\ phase = "Waiting" /\ wanted /\ phase' = "TickQueued" /\ UNCHANGED <<wanted, alive>>

BeginIt == alive /\ phase = "TickQueued" /\ phase' = "Ticking" /\ wanted' = FALSE /\ UNCHANGED alive

EndIt == alive /\ phase = "Ticking" /\ phase' = "Waiting" /\ UNCHANGED <<wanted, alive>>

Close == alive /\ alive' = FALSE /\ UNCHANGED <<phase, wanted>>

ServiceNext == Open \/ Ask \/ QueueIt \/ BeginIt \/ EndIt \/ Close

Service == ServiceInit /\ [][ServiceNext]_serviceVars

\* Once wanted, a tick is queued; once queued, it begins; once begun, it ends.
Promises == WF_serviceVars(QueueIt) /\ WF_serviceVars(BeginIt) /\ WF_serviceVars(EndIt)

FairService == Service /\ Promises
=============================================================================
