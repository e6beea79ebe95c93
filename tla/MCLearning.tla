----------------------------- MODULE MCLearning -----------------------------
(* Two matches; the acta (40), an operator (60), a backfill (55), the manual file (30), a feed *)
(* of historical results (50).  The second match is predicted for the slate, not at all, or    *)
(* for another one only, beside a first that also has a prediction without a label.            *)
EXTENDS Learning, TLC
CONSTANTS m1, m2, acta, operator, archive, history, manual
MCPriority == [s \in Sources |-> CASE s = acta -> 40 [] s = archive -> 55 [] s = operator -> 60
                                 [] s = history -> 50 [] OTHER -> 30]
MCScores == {<<1, 0>>, <<1, 1>>}
Home == [pick |-> "1", order |-> <<"1", "X", "2">>, raw |-> <<"1", "2", "X">>, margin |-> 2,
         half |-> TRUE, status |-> "LISTO", lowEvidence |-> FALSE]
Draw == [pick |-> "X", order |-> <<"X", "1", "2">>, raw |-> <<"1", "X", "2">>, margin |-> 3,
         half |-> FALSE, status |-> "REVISAR", lowEvidence |-> TRUE]
Away == [pick |-> "2", order |-> <<"2", "1", "X">>, raw |-> <<"2", "1", "X">>, margin |-> 1,
         half |-> FALSE, status |-> "LISTO", lowEvidence |-> FALSE]
Picks == [mode \in Modes |-> CASE mode = "simple" -> {"1"} [] mode = "doubles" -> {"1", "X"} [] OTHER -> Codes]
Of(own, older, other) == [unlabelled |-> NoForecast, composition |-> own, slate |-> older,
                          elsewhere |-> other, ticket |-> Picks]
MCSheets ==
  {(m1 :> Of(Home, NoForecast, NoForecast)) @@ (m2 :> Of(Draw, Home, NoForecast)),
   (m1 :> Of(Home, NoForecast, NoForecast)) @@ (m2 :> Of(NoForecast, NoForecast, NoForecast)),
   (m1 :> [Of(Draw, NoForecast, NoForecast) EXCEPT !.unlabelled = Away])
     @@ (m2 :> Of(NoForecast, NoForecast, Away))}
MCPosition == [m \in {m1, m2} |-> IF m = m1 THEN 1 ELSE 2]
MCDoublesLimit ==
  [s \in {"top1_only", "top2_all", "uncertainty", "guardrail_first"} |->
     CASE s = "top1_only" -> 0 [] s = "top2_all" -> 2 [] OTHER -> 1]
=============================================================================
