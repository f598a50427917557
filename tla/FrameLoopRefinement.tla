------------------------- MODULE FrameLoopRefinement -------------------------
(***************************************************************************)
(* The two threads implement the frame service.                            *)
(***************************************************************************)
EXTENDS FrameLoop

Abstract == INSTANCE FrameService
    WITH phase <- uiState, wanted <- HasRequestedAdditionalFrame, alive <- registered

\* Every step of the threads is a step of the service or none of its business.
ImplementsService == Abstract!Service

\* The clock of the model stops at MaxTime, and its last reading may lag by MaxSkew.
DueAfterTheClockStops ==
    registered /\ HasRequestedAdditionalFrame /\ RequestTime > MaxTime - MaxSkew

\* Under the fairness of the threads, the service keeps its promises: a request is served, if its
\* time comes in the model, a tick that is queued begins, and one that begins ends.
KeepsPromises ==
    /\ Abstract!Service
    /\ []<>~DueAfterTheClockStops => Abstract!Promises
=============================================================================
