----------------------------- MODULE MCImageCache -----------------------------
(***************************************************************************)
(* Requests of which the first two are made with the same parameters.      *)
(***************************************************************************)
EXTENDS ImageCache

MCFirstParams ==
    [r \in Requests |-> IF r = 3 THEN {"large"} ELSE {"small"}]
=============================================================================
