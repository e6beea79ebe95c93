---------------------------- MODULE MCModelRuns ----------------------------
(* The worker, one API thread and the command line; one league, one jornada;   *)
(* a candidate that earns its promotion, one that loses more than it gains,    *)
(* and an older one that was evaluated on the newest jornada alone.            *)
EXTENDS ModelRuns, TLC
CONSTANTS worker, api, cli
Held(gain) == [encodes |-> TRUE, gain |-> gain, preserves |-> TRUE]
Good == [kind |-> "loso", extended |-> FALSE, folds |-> <<Held(300), Held(-100), Held(200)>>]
MCEvidence == {Good, [Good EXCEPT !.folds[2].gain = -900]}
MCStored == {[Good EXCEPT !.kind = "holdout", !.folds = <<Held(50), Held(-20)>>]}
MCWorstFold == -1000
=============================================================================
