---------------------------- MODULE MCFairRefresh ----------------------------
(* The worker alone, three sources, and a budget that may cut every batch. *)
EXTENDS FairRefresh, TLC
CONSTANTS j1, j2, j3, worker
MCInterval == (j1 :> 1) @@ (j2 :> 1) @@ (j3 :> 2)
=============================================================================
