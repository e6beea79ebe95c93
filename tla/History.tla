-------------------------------- MODULE History --------------------------------
(***************************************************************************)
(* What the models read of the fixtures' past: recent form, meetings, the  *)
(* training examples, the walk-forward evaluation and the rolling rows of  *)
(* the expected-goals booster.                                             *)
(*                                                                         *)
(* A fitted artifact is the games it was fitted on, in the order in which  *)
(* they moved it: `Heuristic` and `Examples` say what its numbers are a    *)
(* function of.                                                            *)
(***************************************************************************)
EXTENDS Fixtures

CONSTANTS
  FormLimit, MeetingLimit,         \* results of a team, and of a pair, that count
  WindowFloor, WindowCeiling,      \* clamp of the form window
  WindowDefault,                   \* the window of a competition with no gap
  MinTraining                      \* games before a league's first evaluated one

ASSUME HistoryAssumption ==
  {FormLimit, MeetingLimit, WindowFloor, WindowCeiling, WindowDefault, MinTraining} \subseteq Nat

\* S in a strict total order.
Sorted(S, before(_, _)) ==
  [k \in 1..Cardinality(S) |-> CHOOSE x \in S : Cardinality({y \in S : before(y, x)}) = k - 1]

Take(s, n) == IF Len(s) <= n THEN s ELSE SubSeq(s, 1, n)

Total(s, value(_)) == FoldLeft(LAMBDA sofar, x : sofar + value(x), 0, s)

------------------------------------------------------------------------------
(* ResultRepository.                                                       *)

\* A tie of the day, which the query leaves open, goes by row and source.
Newer(a, b) ==
  \/ a.day > b.day
  \/ a.day = b.day /\ a.match < b.match
  \/ a.day = b.day /\ a.match = b.match /\ a.source < b.source

NewestFirst(S) == Sorted(S, Newer)

\* Mutant of OneGame: two feeds' reports are one game only at the same kickoff.
SameInstant(table, a, b) ==
  SameFixture(table[a.match], table[b.match]) /\ a.goals = b.goals /\ a.day = b.day

OneGame(table, a, b) ==
  /\ SameFixture(table[a.match], table[b.match])
  /\ a.goals = b.goals
  /\ Distance(a.day, b.day) <= Near

\* _dedupe_results
Dedupe(table, rows) ==
  LET keep(kept, r) == IF \E i \in DOMAIN kept : OneGame(table, kept[i], r) THEN kept ELSE Append(kept, r)
  IN FoldLeft(keep, <<>>, rows)

Newest(table, S, limit) == Take(Dedupe(table, Take(NewestFirst(S), 3 * limit)), limit)

RecentResults(d, r, before, limit) ==
  Newest(d.matches, {x \in d.results : x.day < before /\ Plays(d.matches[x.match], r)}, limit)

Meet(m, n) == {m.home, m.away} = {n.home, n.away}

\* Mutant of HeadToHead: meetings of any date.
EveryMeeting(d, i, limit) ==
  Newest(d.matches, {x \in d.results : Meet(d.matches[x.match], d.matches[i])}, limit)

HeadToHead(d, i, limit) ==
  Newest(d.matches, {x \in d.results : x.day < d.matches[i].day /\ Meet(d.matches[x.match], d.matches[i])}, limit)

------------------------------------------------------------------------------
(* FeatureService.build_model_features.                                    *)

\* _max_recent_age_days
FormWindow(d, comp) ==
  LET gap == MedianGap(d.matches, comp)
  IN IF gap = 0 THEN WindowDefault ELSE Clamp(3 * gap, WindowFloor, WindowCeiling)

Scored(table, x, r) == IF table[x.match].home = r THEN x.goals[1] ELSE x.goals[2]

Conceded(table, x, r) == IF table[x.match].home = r THEN x.goals[2] ELSE x.goals[1]

Points(scored, conceded) == IF scored > conceded THEN 3 ELSE IF scored = conceded THEN 1 ELSE 0

\* _summarize_team_results
Form(table, r, rows, cutoff) ==
  [matches |-> Len(rows),
   points |-> Total(rows, LAMBDA x : Points(Scored(table, x, r), Conceded(table, x, r))),
   scored |-> Total(rows, LAMBDA x : Scored(table, x, r)),
   conceded |-> Total(rows, LAMBDA x : Conceded(table, x, r)),
   rest |-> IF rows = <<>> THEN 7 ELSE cutoff - rows[1].day]

\* _filter_recent_results
Young(rows, window, cutoff) == SelectSeq(rows, LAMBDA x : cutoff - x.day <= window)

RecentForm(d, r, window, cutoff) ==
  Form(d.matches, r, Young(RecentResults(d, r, cutoff, FormLimit), window, cutoff), cutoff)

\* The cutoff is the kickoff, wherever a model is trained or evaluated.
Features(d, i) ==
  LET m == d.matches[i]
      window == FormWindow(d, m.comp)
      meetings == HeadToHead(d, i, MeetingLimit)
  IN [home |-> RecentForm(d, m.home, window, m.day),
      away |-> RecentForm(d, m.away, window, m.day),
      met |-> [matches |-> Len(meetings),
               home |-> Form(d.matches, m.home, meetings, m.day),
               away |-> Form(d.matches, m.away, meetings, m.day)]]

------------------------------------------------------------------------------
(* ModelTrainingService: examples, artifacts, walk-forward evaluation.     *)

Completed(d) == {i \in Matches(d) : \E x \in d.results : x.match = i}

Latest(d, i) == NewestFirst({x \in d.results : x.match = i})[1]

\* _match_sort_key_from_result: the rows day is of, the earliest first.
ByDay(day) == Sorted(DOMAIN day, LAMBDA i, j : day[i] < day[j] \/ (day[i] = day[j] /\ i < j))

Chronological(d, S) == ByDay([i \in S |-> Latest(d, i).day])

\* The rows that are of S, in their order.
Among(rows, S) ==
  LET at == Sorted({k \in DOMAIN rows : rows[k] \in S}, LAMBDA j, k : j < k)
  IN [k \in DOMAIN at |-> rows[at[k]]]

\* _build_heuristic_artifact: ratings, offences and profiles move game by game.
Heuristic(d, rows) ==
  LET game(i) == <<d.matches[i].home, d.matches[i].away, Latest(d, i).goals>>
      known == Among(rows, Completed(d))
  IN [k \in DOMAIN known |-> game(known[k])]

\* _build_training_dataset
Examples(d, rows) ==
  LET known == Among(rows, Completed(d))
  IN [k \in DOMAIN known |->
        [features |-> Features(d, known[k]), goals |-> Latest(d, known[k]).goals]]

League(d, comp) == Chronological(d, {i \in Completed(d) : d.matches[i].comp = comp})

\* _collect_walk_forward_metrics: each later game of a league is scored by an artifact
\* of the earlier ones.
WalkForward(d, comp) ==
  LET ordered == League(d, comp)
  IN [k \in 1..(Len(ordered) - MinTraining) |->
        [match |-> ordered[k + MinTraining], prior |-> SubSeq(ordered, 1, k + MinTraining - 1)]]

\* build_training_dataset of the expected goals, game by game: a row shows both sides'
\* history, which takes the game in only afterwards, and the competition's mean goals.
Rolled(d, sofar, i) ==
  LET m == d.matches[i]
      x == Latest(d, i)
      mean == {Latest(d, j) : j \in {k \in Completed(d) : d.matches[k].comp = m.comp}}
      seen(r, goals) == Append(sofar.past[r], <<goals, x.day>>)
  IN [rows |-> Append(sofar.rows, [match |-> i, home |-> sofar.past[m.home], away |-> sofar.past[m.away],
                                   mean |-> mean]),
      past |-> [sofar.past EXCEPT ![m.home] = seen(m.home, x.goals),
                                  ![m.away] = seen(m.away, <<x.goals[2], x.goals[1]>>)]]

RollingRows(d) ==
  LET next(sofar, i) == Rolled(d, sofar, i)
  IN FoldLeft(next, [rows |-> <<>>, past |-> [r \in d.teams |-> <<>>]], Chronological(d, Completed(d))).rows
=============================================================================
