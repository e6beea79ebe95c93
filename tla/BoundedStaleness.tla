--------------------------- MODULE BoundedStaleness ---------------------------
(***************************************************************************)
(* What a cache with a lifetime promises to whoever asks: each key of an   *)
(* answer shows a value the truth really had, and had no longer ago than   *)
(* MaxAge.  Nothing is said of how, or how often, answers are computed.    *)
(***************************************************************************)
EXTENDS Integers

CONSTANTS
  Keys,
  Values,
  MaxAge,   \* of the oldest truth an answer may show, a natural number
  NoAnswer

VARIABLES
  truth,  \* the value of each key now
  age,    \* how long ago each value was last the truth of each key, or too long
  answer  \* what the last step answered, if it did

vars == <<truth, age, answer>>

TooLong == MaxAge + 1
Older(a) == IF a < TooLong THEN a + 1 ELSE a

Init ==
  /\ truth \in [Keys -> Values]
  /\ age = [k \in Keys |-> [v \in Values |-> IF v = truth[k] THEN 0 ELSE TooLong]]
  /\ answer = NoAnswer

Change ==
  /\ truth' \in [Keys -> Values]
  /\ age' = [k \in Keys |-> [age[k] EXCEPT ![truth'[k]] = 0]]
  /\ answer' = NoAnswer

Tick ==
  /\ age' = [k \in Keys |-> [v \in Values |-> IF v = truth[k] THEN 0 ELSE Older(age[k][v])]]
  /\ answer' = NoAnswer
  /\ UNCHANGED truth

Answer ==
  /\ answer' \in [Keys -> Values]
  /\ \A k \in Keys : age[k][answer'[k]] <= MaxAge
  /\ UNCHANGED <<truth, age>>

Silent ==
  /\ answer' = NoAnswer
  /\ UNCHANGED <<truth, age>>

Next == Change \/ Tick \/ Answer \/ Silent

Spec == Init /\ [][Next]_vars
=============================================================================
