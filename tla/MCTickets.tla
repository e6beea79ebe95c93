------------------------------- MODULE MCTickets -------------------------------
(* Slates of one match over many vectors and contexts, and of three matches    *)
(* over a few that meet: a sure favourite, a friendly, an even match, a live   *)
(* draw, a thin one, a blocked one.                                            *)
EXTENDS PlayReports
MCSurprise ==
  [p \in 0..100 |-> <<6, 42, 71, 96, 117, 136, 154, 169, 184, 197, 210, 221, 232, 241,
   251, 259, 267, 274, 281, 287, 293, 298, 303, 308, 312, 315, 319, 322, 324, 327, 329,
   330, 332, 333, 334, 334, 335, 335, 335, 334, 334, 333, 332, 330, 329, 327, 325, 323,
   321, 318, 315, 313, 310, 306, 303, 299, 296, 292, 288, 283, 279, 274, 270, 265, 260,
   255, 250, 244, 239, 233, 227, 221, 215, 209, 203, 196, 190, 183, 176, 170, 162, 155,
   148, 141, 133, 126, 118, 110, 102, 94, 86, 78, 70, 61, 53, 44, 36, 27, 18, 9, 0>>[p +
   1]]
Match == [scored |-> [home |-> 450, draw |-> 300, away |-> 250], homeRecent |-> 5, awayRecent |-> 5,
          headToHead |-> 2, evidence |-> 1, edge |-> 0, goals |-> 25, leagueDraws |-> 0,
          knockout |-> FALSE, placeholder |-> FALSE, competition |-> "liga_mx",
          engine |-> "xgboost"]
Vec(h, d) == [home |-> h, draw |-> d, away |-> 1000 - h - d]
Contexts == {
  Match,
  [Match EXCEPT !.evidence = 0],
  [Match EXCEPT !.evidence = 0, !.competition = "friendly"],
  [Match EXCEPT !.competition = "international_friendlies"],
  [Match EXCEPT !.engine = "heuristic_blend"],
  [Match EXCEPT !.homeRecent = 2, !.awayRecent = 2, !.headToHead = 0, !.evidence = 0],
  [Match EXCEPT !.homeRecent = 0, !.awayRecent = 0, !.headToHead = 0, !.evidence = 0],
  [Match EXCEPT !.homeRecent = 4, !.awayRecent = 0, !.headToHead = 0, !.evidence = 0],
  [Match EXCEPT !.placeholder = TRUE, !.engine = "heuristic_blend_gated"],
  [Match EXCEPT !.competition = "progol_concurso"],
  [Match EXCEPT !.competition = "d1", !.edge = 700],
  [Match EXCEPT !.competition = "e0", !.edge = -1800],
  [Match EXCEPT !.knockout = TRUE, !.leagueDraws = 310, !.goals = 32],
  [Match EXCEPT !.knockout = TRUE, !.homeRecent = 0, !.awayRecent = 0, !.headToHead = 5]}
Grid == {20, 50, 100, 180, 200, 240, 260, 300, 330, 340, 400, 420, 480, 540, 560, 590, 700, 780, 920}
Singles == {<<[m EXCEPT !.scored = Vec(h, d)]>> :
              m \in Contexts, <<h, d>> \in {<<h, d>> \in Grid \X Grid : h + d <= 980}}
Few == {[Match EXCEPT !.scored = Vec(700, 180)],
        [Match EXCEPT !.scored = Vec(600, 250), !.competition = "friendly"],
        [Match EXCEPT !.scored = Vec(400, 300)],
        [Match EXCEPT !.scored = Vec(480, 100), !.evidence = 0],
        [Match EXCEPT !.scored = Vec(300, 340), !.homeRecent = 2, !.awayRecent = 2, !.evidence = 0],
        [Match EXCEPT !.scored = Vec(500, 240), !.competition = "unlisted"]}
\* A single the calibration of the draw brings near the validation's limit; the thinnest data.
Corners == {<<[m EXCEPT !.scored = Vec(h, d)]>> :
              m \in Contexts \cup {[Match EXCEPT !.evidence = 0, !.headToHead = 0],
                                   [Match EXCEPT !.evidence = 0, !.headToHead = 0, !.competition = "d1"],
                                   [Match EXCEPT !.evidence = 0, !.headToHead = 4, !.homeRecent = 0, !.awayRecent = 0]},
              <<h, d>> \in {<<550, 190>>, <<546, 198>>, <<640, 150>>}}
MCSlates == Singles \cup Corners \cup [1..3 -> Few]
MCRules == [weekend |-> [alone |-> 2, doubles |-> 0, triples |-> 1],
            midweek |-> [alone |-> 1, doubles |-> 1, triples |-> 1],
            revancha |-> [alone |-> 1, doubles |-> 1, triples |-> 1],
            fallback |-> [alone |-> 1, doubles |-> 0, triples |-> 1]]
MCLimits == [weekend |-> [doubles |-> 2, triples |-> 1, combinations |-> 5, price |-> 15],
             midweek |-> [doubles |-> 1, triples |-> 1, combinations |-> 6, price |-> 15],
             unknown |-> [doubles |-> 1, triples |-> 1, combinations |-> 6, price |-> -1]]
Sound == [archived |-> FALSE, closed |-> FALSE, contiguous |-> TRUE, named |-> TRUE]
MCSituations == {Sound, [Sound EXCEPT !.closed = TRUE], [Sound EXCEPT !.named = FALSE]}
=============================================================================
