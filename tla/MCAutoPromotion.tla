---------------------------- MODULE MCAutoPromotion ----------------------------
(* The worker alone, and two contests of one week type that compete for it.    *)
EXTENDS SlateProposals, TLC
CONSTANTS A, worker
MCRealKickoff == [f \in Fixtures |-> 2]
=============================================================================
