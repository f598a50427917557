----------------------------- MODULE MCImageTasks -----------------------------
(***************************************************************************)
(* Four tasks of which two answer the same request.                        *)
(***************************************************************************)
EXTENDS ImageTaskDispatcher

MCTasks == 1..4
MCRequestId == <<0, 1, 1, 0>>
=============================================================================
