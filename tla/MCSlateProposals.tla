--------------------------- MODULE MCSlateProposals ---------------------------
(* One contest, two fixture lists that both kick off at 1, the worker and an operator. *)
EXTENDS SlateProposals, TLC
CONSTANTS A, B, worker, api
MCRealKickoff == (A :> 1) @@ (B :> 1)
=============================================================================
