----------------------------- MODULE MCMsPdfWatch -----------------------------
(* One midweek contest, one guide URL, two fixture lists, the worker alone.    *)
EXTENDS MsPdfWatch, TLC
CONSTANTS A, B, worker
MCRealKickoff == (A :> 2) @@ (B :> 3)
MCDates == {NoDate, 2}
=============================================================================
