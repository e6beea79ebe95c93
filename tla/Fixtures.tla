------------------------------- MODULE Fixtures -------------------------------
(***************************************************************************)
(* The rows that say who played whom, and what ordinary work does to them: *)
(* the resolution of names, the ingestion of results, the promotion of a   *)
(* slate.                                                                  *)
(*                                                                         *)
(* A team row is named by the spelling it was created under and an alias   *)
(* by the normalized form it answers to.  The tables are one record, `db`, *)
(* so that a transaction is a function from tables to tables.  Names that  *)
(* is_suspicious_team_name refuses do not occur, and competitions are told *)
(* apart by their canonical names.                                         *)
(***************************************************************************)
EXTENDS Integers, Sequences, FiniteSets, SequencesExt

CONSTANTS
  Spellings, Normal,  \* what feeds and programmes write, and its normalized form
  Competitions, Concurso,  \* the second is "Progol Concurso NNN", a placeholder
  Reports,            \* results feeds may publish
  Draws,              \* slate -> its pairs of spellings in order, and its cierre
  Near,               \* the 48 hours of one fixture
  Reach, Floor, Ceiling,  \* how far a result may be from its row: by default, and the clamp
  Before, After, Offset,  \* the resolver's window; fallback kickoffs
  Nobody

ASSUME FixturesAssumption ==
  /\ Concurso \in Competitions /\ Nobody \notin Spellings
  /\ {Near, Reach, Floor, Ceiling, Before, After, Offset} \subseteq Nat
  /\ Reports \subseteq [source : Nat, comp : Competitions, home : Spellings, away : Spellings,
                        day : Nat, goals : Nat \X Nat, game : Nat]
  /\ \A s \in DOMAIN Draws : Draws[s].cierre \in Nat /\ Draws[s].pairs \in Seq(Spellings \X Spellings)

Slots == UNION {{<<s, p>> : p \in 1..Len(Draws[s].pairs)} : s \in DOMAIN Draws}

\* The member of S that comes first by rank, a function on S.
FirstBy(S, rank) == CHOOSE x \in S : \A y \in S : rank[x] <= rank[y]

Distance(a, b) == IF a < b THEN b - a ELSE a - b

------------------------------------------------------------------------------
(* Teams.                                                                  *)

MatchRow == [comp : Competitions, home : Spellings, away : Spellings, day : Nat, marked : BOOLEAN]

ResultRow == [match : Nat, source : Nat, day : Nat, goals : Nat \X Nat, game : Nat]

Empty == [teams |-> {}, marked |-> {}, renamed |-> {},
          alias |-> [n \in {Normal[s] : s \in Spellings} |-> Nobody],
          matches |-> <<>>, results |-> {},
          links |-> [slot \in Slots |-> 0]]

Owner(d, s) == d.alias[Normal[s]]

\* EntityRepository.find_team_by_alias: real rows first, then the alias's owner.
FindTeam(d, s) ==
  LET named == (d.teams \ d.renamed) \cap {s}
      found == named \cup ({Owner(d, s)} \ {Nobody})
      real == found \ d.marked
      best == IF real = {} THEN found ELSE real
  IN IF best = {} THEN Nobody
     ELSE IF Owner(d, s) \in best THEN Owner(d, s) ELSE s

\* EntityResolutionService.resolve_team: the tables after it.
ResolveTeam(d, s, placeholder) ==
  LET found == FindTeam(d, s)
      row == IF found = Nobody THEN s ELSE found
  IN [d EXCEPT
       !.teams = @ \cup {row},
       !.marked = IF ~placeholder THEN @ \ {row}
                  ELSE IF found = Nobody THEN @ \cup {row} ELSE @,
       !.alias[Normal[s]] = IF @ = Nobody THEN row ELSE @]

ResolveBoth(d, home, away, placeholder) ==
  ResolveTeam(ResolveTeam(d, home, placeholder), away, placeholder)

------------------------------------------------------------------------------
(* Fixtures.                                                               *)

Matches(d) == DOMAIN d.matches

SameFixture(m, n) == m.comp = n.comp /\ m.home = n.home /\ m.away = n.away

\* uq_matches_fixture_identity
SameIdentity(m, n) == SameFixture(m, n) /\ m.day = n.day

WithIdentity(d, m) == {i \in Matches(d) : SameIdentity(d.matches[i], m)}

\* Rows of the fixture at most so far apart, the nearest of them, the earliest of those.
Nearest(d, m, within, rows) ==
  LET close == {i \in rows : SameFixture(d.matches[i], m)
                               /\ Distance(d.matches[i].day, m.day) <= within}
      apart == [i \in close |-> Distance(d.matches[i].day, m.day)]
      nearest == {i \in close : \A j \in close : apart[i] <= apart[j]}
  IN IF close = {} THEN 0 ELSE FirstBy(nearest, [i \in nearest |-> d.matches[i].day])

RealRows(d) == {i \in Matches(d) : ~d.matches[i].marked}

FindByIdentity(d, m) == IF WithIdentity(d, m) = {} THEN 0 ELSE CHOOSE i \in WithIdentity(d, m) : TRUE

FindNearIdentity(d, m) == Nearest(d, m, Near, RealRows(d))

FindNearbyForResult(d, m, within) == Nearest(d, m, within, Matches(d))

NewId(d) == CHOOSE i \in 1..(Cardinality(Matches(d)) + 1) : i \notin Matches(d)

Insert(d, m) ==
  [d EXCEPT !.matches = [i \in Matches(d) \cup {NewId(d)} |-> IF i \in Matches(d) THEN @[i] ELSE m]]

------------------------------------------------------------------------------
(* IngestionService._persist_historical_results and ResultRepository.      *)

SaveResult(d, i, report) ==
  LET row == [match |-> i, source |-> report.source, day |-> report.day,
              goals |-> report.goals, game |-> report.game]
  IN [d EXCEPT !.results =
        {r \in @ : r.match # i \/ r.source # report.source \/ r.day # report.day} \cup {row}]

Plays(m, r) == r \in {m.home, m.away}

\* median_gap_days_for_competition: the days between a team's consecutive rows;
\* 0 when there is none, and the mean of the two in the middle of an even number.
MedianGap(table, comp) ==
  LET rows == {i \in DOMAIN table : table[i].comp = comp}
      teams == UNION {{table[i].home, table[i].away} : i \in rows}
      days(r) == {table[i].day : i \in {j \in rows : Plays(table[j], r)}}
      pairs(r) == {<<r, t, u>> : t, u \in days(r)}
      consecutive(x) == x[2] < x[3] /\ \A v \in days(x[1]) : v <= x[2] \/ x[3] <= v
      found == {x \in UNION {pairs(r) : r \in teams} : consecutive(x)}
      gap(x) == x[3] - x[2]
      upTo(g) == Cardinality({x \in found : gap(x) <= g})
      ranked(k) == CHOOSE g \in {gap(x) : x \in found} : upTo(g - 1) < k /\ k <= upTo(g)
      n == Cardinality(found)
  IN IF Cardinality(rows) < 4 \/ n = 0 THEN 0
     ELSE (ranked((n + 1) \div 2) + ranked(n \div 2 + 1)) \div 2

Clamp(x, low, high) == IF x < low THEN low ELSE IF x > high THEN high ELSE x

\* _tolerance_days_for_competition
Tolerance(d, comp) ==
  LET gap == MedianGap(d.matches, comp)
  IN IF gap = 0 THEN Reach ELSE Clamp((3 * gap) \div 2, Floor, Ceiling)

IngestResult(d, report, within) ==
  LET known == ResolveBoth(d, report.home, report.away, FALSE)
      m == [comp |-> report.comp, home |-> FindTeam(known, report.home),
            away |-> FindTeam(known, report.away), day |-> report.day, marked |-> FALSE]
      exact == FindByIdentity(known, m)
      near == FindNearbyForResult(known, m, within)
  IN IF exact # 0 THEN SaveResult(known, exact, report)
     ELSE IF near # 0 THEN SaveResult(known, near, report)
     ELSE SaveResult(Insert(known, m), NewId(known), report)

------------------------------------------------------------------------------
(* The resolver of programmes and the promotion of a slate.                *)

Upcoming(d, home, away, cierre) ==
  LET rows == {i \in RealRows(d) : /\ d.matches[i].home = home /\ d.matches[i].away = away
                                   /\ cierre - Before <= d.matches[i].day
                                   /\ d.matches[i].day <= cierre + After}
  IN IF Nobody \in {home, away} \/ rows = {} THEN 0
     ELSE FirstBy(rows, [i \in rows |-> d.matches[i].day])

\* The competition of most of these rows, if any.
MostPlayed(d, rows) ==
  LET count(c) == Cardinality({i \in rows : d.matches[i].comp = c})
  IN IF rows = {} THEN Concurso
     ELSE CHOOSE c \in Competitions : \A e \in Competitions : count(e) <= count(c)

PlayedBy(d, r) == {i \in RealRows(d) : Plays(d.matches[i], r)}

\* ProgolFixtureResolver.infer_competition_for_pair; no guess gives Concurso.
InferCompetition(d, home, away) ==
  LET shared == {d.matches[i].comp : i \in PlayedBy(d, home)}
                  \cap {d.matches[i].comp : i \in PlayedBy(d, away)}
      met == PlayedBy(d, home) \cap PlayedBy(d, away)
      both == {i \in PlayedBy(d, home) \cup PlayedBy(d, away) : d.matches[i].comp \in shared}
  IN IF Nobody \notin {home, away}
     THEN MostPlayed(d, IF met # {} THEN met ELSE both)
     ELSE MostPlayed(d, IF PlayedBy(d, home) # {} THEN PlayedBy(d, home) ELSE PlayedBy(d, away))

FallbackKickoff(cierre, position) == cierre + Offset + position - 1

\* SlateProposalService._promote: what a position asks for.
Payload(d, pair, cierre, position) ==
  LET home == FindTeam(d, pair[1])
      away == FindTeam(d, pair[2])
      found == Upcoming(d, home, away, cierre)
  IN IF found # 0
     THEN [comp |-> d.matches[found].comp, home |-> home, away |-> away,
           day |-> d.matches[found].day, marked |-> FALSE]
     ELSE [comp |-> InferCompetition(d, home, away), home |-> pair[1], away |-> pair[2],
           day |-> FallbackKickoff(cierre, position), marked |-> TRUE]

\* Mutant of Place: only real rows are looked for, whatever row already has the identity.
PlacedNearOnly(d, slot, item) ==
  LET known == ResolveBoth(d, item.home, item.away, item.marked)
      m == [item EXCEPT !.home = FindTeam(known, item.home), !.away = FindTeam(known, item.away)]
      found == FindNearIdentity(known, m)
  IN IF found = 0
     THEN [Insert(known, m) EXCEPT !.links[slot] = NewId(known)]
     ELSE [known EXCEPT !.links[slot] = found, !.matches[found].marked = @ /\ item.marked]

\* SlateRepository.upsert_slate, for one position of the payload.
Place(d, slot, item) ==
  LET known == ResolveBoth(d, item.home, item.away, item.marked)
      m == [item EXCEPT !.home = FindTeam(known, item.home), !.away = FindTeam(known, item.away)]
      exact == FindByIdentity(known, m)
      found == IF exact # 0 THEN exact ELSE FindNearIdentity(known, m)
  IN IF found = 0
     THEN [Insert(known, m) EXCEPT !.links[slot] = NewId(known)]
     ELSE [known EXCEPT !.links[slot] = found, !.matches[found].marked = @ /\ item.marked]

Promoted(d, s) ==
  LET items == [p \in 1..Len(Draws[s].pairs) |->
                  Payload(d, Draws[s].pairs[p], Draws[s].cierre, p)]
      unlinked == [d EXCEPT !.links = [slot \in Slots |-> IF slot[1] = s THEN 0 ELSE @[slot]]]
      place(sofar, p) == Place(sofar, <<s, p>>, items[p])
  IN FoldLeft(place, unlinked, [p \in 1..Len(items) |-> p])
=============================================================================
