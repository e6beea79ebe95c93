------------------------------ MODULE Migrations ------------------------------
(***************************************************************************)
(* The data steps of the migrations, the repairs an operator makes, and    *)
(* the processes that upgrade the tables, serve them and write to them.    *)
(***************************************************************************)
EXTENDS History

CONSTANTS
  MinLadder,   \* MIN_LADDER_POSITIONS
  Program,     \* the migrations that move data, in order of version
  Legacy,      \* tables that earlier code may have left
  Releases,    \* SCHEMA_VERSION of the builds shipped, in order
  Processes,
  MaxWrites, MaxRepairs  \* bounds on ingestions and promotions, and on repairs

ASSUME MigrationsAssumption ==
  /\ {MinLadder, MaxWrites, MaxRepairs} \subseteq Nat
  /\ Releases \in Seq(Nat \ {0}) /\ Releases # <<>>
  /\ Program \in Seq([version : Nat, kind : {"mark", "consolidate"}]
                     \cup [version : Nat, kind : {"relink"}, comp : Competitions]
                     \cup [version : Nat, kind : {"correct"}, slot : Slots, comp : Competitions]
                     \cup [version : Nat, kind : {"alias", "merge", "fold"}, from : Spellings, into : Spellings]
                     \cup [version : Nat, kind : {"split"}, from : Spellings, comp : Competitions,
                           into : Spellings])

VARIABLES
  db,        \* the tables
  version,   \* schema_migrations, 0 while the table is missing
  applied,   \* how often each data step ran on these tables
  shipped,   \* the release in force
  process,   \* what each process is doing, with which code
  writes,    \* ingestions and promotions so far
  repairs    \* repairs so far

vars == <<db, version, applied, shipped, process, writes, repairs>>

------------------------------------------------------------------------------
(* Rows move from one team or competition to another, unless a row already *)
(* has the identity they would take.                                       *)

Moved(d, S, to(_)) ==
  [d EXCEPT !.matches = [i \in Matches(d) |->
     IF i \in S /\ ~\E j \in Matches(d) \ {i} : SameIdentity(@[j], to(@[i])) THEN to(@[i]) ELSE @[i]]]

\* Mutant of MergeTeam: the rows move and the aliases stay.
MergedRows(d, from, into) ==
  LET home == Moved(d, {i \in Matches(d) : d.matches[i].home = from},
                    LAMBDA m : [m EXCEPT !.home = into])
  IN Moved(home, {i \in Matches(d) : home.matches[i].away = from}, LAMBDA m : [m EXCEPT !.away = into])

\* _merge_team_into, both sides and the aliases.
MergeTeam(d, from, into) ==
  LET home == Moved(d, {i \in Matches(d) : d.matches[i].home = from},
                    LAMBDA m : [m EXCEPT !.home = into])
      away == Moved(home, {i \in Matches(d) : home.matches[i].away = from},
                    LAMBDA m : [m EXCEPT !.away = into])
  IN [away EXCEPT !.alias = [n \in DOMAIN @ |-> IF @[n] = from THEN into ELSE @[n]]]

Present(d, r) == r \in d.teams \ d.renamed

Foldable(d, from, into) == from # into /\ Present(d, from) /\ Present(d, into)

\* _fold_provider_split
FoldTeam(d, from, into) ==
  LET merged == MergeTeam(d, from, into)
  IN [merged EXCEPT !.alias[Normal[from]] = IF @ = Nobody THEN into ELSE @,
                    !.renamed = @ \cup {from}, !.marked = @ \cup {from}]

\* _split_team_matches_by_competition
SplitTeam(d, from, comp, into) ==
  LET moving(side) == {i \in Matches(d) : d.matches[i].comp = comp /\ d.matches[i][side] = from}
      known == [d EXCEPT !.teams = @ \cup {into}]
      home == Moved(known, moving("home"), LAMBDA m : [m EXCEPT !.home = into])
  IN IF moving("home") \cup moving("away") = {} THEN d
     ELSE Moved(home, moving("away"), LAMBDA m : [m EXCEPT !.away = into])

\* _migrate_to_v26: a spelling answers to the row of that name, unless another has it.
AttachAlias(d, s, row) ==
  [d EXCEPT !.alias[Normal[s]] = IF @ = Nobody /\ Present(d, row) THEN row ELSE @]

\* _migrate_to_v15: the rows of a programme get the competition their teams play in.
Relink(d, comp) ==
  Moved(d, {i \in Matches(d) : d.matches[i].comp = Concurso}, LAMBDA m : [m EXCEPT !.comp = comp])

\* _migrate_to_v34: the row of one position gets its competition.
Correct(d, slot, comp) == Moved(d, {d.links[slot]} \ {0}, LAMBDA m : [m EXCEPT !.comp = comp])

Linked(d, s) == {d.links[slot] : slot \in {z \in Slots : z[1] = s}} \ {0}

\* _migrate_to_v32: hourly kickoffs that collapse to one base were fabricated.
IsLadder(d, s) ==
  LET placed == {slot \in Slots : slot[1] = s /\ d.links[slot] # 0}
  IN /\ Cardinality(placed) >= MinLadder
     /\ Cardinality({d.matches[d.links[slot]].day - slot[2] : slot \in placed}) = 1

MarkLadders(d) ==
  LET fabricated == UNION {Linked(d, s) : s \in {t \in DOMAIN Draws : IsLadder(d, t)}}
  IN [d EXCEPT !.matches = [i \in Matches(d) |->
                               [d.matches[i] EXCEPT !.marked = @ \/ i \in fabricated]]]

------------------------------------------------------------------------------
(* _migrate_to_v37: the rows of one fixture become one.                    *)

Twins(d, i, j) ==
  i # j /\ SameFixture(d.matches[i], d.matches[j])
        /\ Distance(d.matches[i].day, d.matches[j].day) <= Near

\* The cluster of a row, everything chained to it by twins: of the rows of its fixture,
\* the least set that has it and the twins of its members.
Cluster(d, i) ==
  LET fixture == {j \in Matches(d) : SameFixture(d.matches[i], d.matches[j])}
      chained(S) == i \in S /\ \A k \in S, l \in fixture : Twins(d, k, l) => l \in S
  IN {j \in fixture : \A S \in SUBSET fixture : chained(S) => j \in S}

Results(d, i) == {r \in d.results : r.match = i}

IsLinked(d, i) == \E slot \in Slots : d.links[slot] = i

\* _duplicate_survivor_rank: whether i goes before j.
RanksBefore(d, i, j) ==
  LET flag(b) == IF b THEN 0 ELSE 1
      rank(k) == <<flag(IsLinked(d, k)), flag(~d.matches[k].marked),
                   -Cardinality(Results(d, k)), d.matches[k].day, k>>
  IN \E n \in 1..5 : rank(i)[n] < rank(j)[n] /\ \A e \in 1..(n - 1) : rank(i)[e] = rank(j)[e]

Survivor(d, i) ==
  LET members == Cluster(d, i)
  IN CHOOSE s \in members : \A j \in members \ {s} : RanksBefore(d, s, j)

\* The result rows that reach the survivor; the others collide with one it has.
MovedResults(d, from, into) ==
  {r \in Results(d, from) :
     ~\E other \in Results(d, into) : other.source = r.source /\ other.day = r.day}

\* Mutant of MovedLinks: the slates keep their links.
NoLinks(d, from, into) == {}

MovedLinks(d, from, into) ==
  {slot \in Slots : d.links[slot] = from /\ into \notin Linked(d, slot[1])}

\* _repoint_match_dependents, for the dependents the model keeps.
Repoint(d, from, into) ==
  LET rows == MovedResults(d, from, into)
      slots == MovedLinks(d, from, into)
  IN [d EXCEPT !.results = (@ \ rows) \cup {[r EXCEPT !.match = into] : r \in rows},
               !.links = [slot \in Slots |-> IF slot \in slots THEN into ELSE @[slot]],
               !.matches[from].marked = TRUE]

\* Losers in order of rank within each cluster.
Consolidate(d) ==
  LET losers == {i \in Matches(d) : Survivor(d, i) # i}
      last(S) == CHOOSE i \in S : \A j \in S \ {i} : RanksBefore(d, j, i)
      fold(i, sofar) == Repoint(sofar, i, Survivor(d, i))
  IN MapThenFoldSet(fold, d, LAMBDA i : i, last, losers)

------------------------------------------------------------------------------
(* run_migrations.                                                         *)

Apply(step, d) ==
  CASE step.kind = "relink" -> Relink(d, step.comp)
    [] step.kind = "correct" -> Correct(d, step.slot, step.comp)
    [] step.kind = "alias" -> AttachAlias(d, step.from, step.into)
    [] step.kind = "split" -> IF Present(d, step.from) THEN SplitTeam(d, step.from, step.comp, step.into) ELSE d
    [] step.kind = "merge" -> IF Foldable(d, step.from, step.into)
                              THEN MergeTeam(d, step.from, step.into) ELSE d
    [] step.kind = "fold" -> IF Foldable(d, step.from, step.into)
                             THEN FoldTeam(d, step.from, step.into) ELSE d
    [] step.kind = "mark" -> MarkLadders(d)
    [] step.kind = "consolidate" -> Consolidate(d)

\* The steps a build runs on tables it read at that version.
Pending(code, seen) ==
  {i \in DOMAIN Program : seen # 0 /\ seen < Program[i].version /\ Program[i].version <= code}

Migrated(d, steps) ==
  FoldLeft(LAMBDA sofar, i : IF i \in steps THEN Apply(Program[i], sofar) ELSE sofar,
           d, [i \in DOMAIN Program |-> i])

Locked == \E p \in Processes : process[p].at = "migrating"

Down == [at |-> "down", code |-> 0, seen |-> 0]

Deploy ==
  /\ shipped < Len(Releases)
  /\ shipped' = shipped + 1
  /\ UNCHANGED <<db, version, applied, process, writes, repairs>>

\* A crash, or the container recreated; what a migration wrote is rolled back.
Stop(p) ==
  /\ process[p].at # "down"
  /\ process' = [process EXCEPT ![p] = Down]
  /\ UNCHANGED <<db, version, applied, shipped, writes, repairs>>

\* Mutant of Start: the version is read before the lock is taken.
StartUnlocked(p) ==
  /\ process[p].at = "down"
  /\ process' = [process EXCEPT ![p] = [at |-> "migrating", code |-> Releases[shipped], seen |-> version]]
  /\ UNCHANGED <<db, version, applied, shipped, writes, repairs>>

\* Under the lock, the version is read first.
Start(p) ==
  /\ process[p].at = "down" /\ ~Locked
  /\ process' = [process EXCEPT ![p] = [at |-> "migrating", code |-> Releases[shipped], seen |-> version]]
  /\ UNCHANGED <<db, version, applied, shipped, writes, repairs>>

\* All pending steps and the version they lead to, in one transaction.
Migrate(p) ==
  /\ process[p].at = "migrating"
  /\ LET code == process[p].code
         seen == process[p].seen
         steps == Pending(code, seen)
     IN /\ db' = Migrated(db, steps)
        /\ version' = IF seen < code THEN code ELSE seen
        /\ applied' = [v \in DOMAIN applied |->
                         IF \E i \in steps : Program[i].version = v THEN applied[v] + 1 ELSE applied[v]]
        /\ process' = [process EXCEPT ![p] = [at |-> "serving", code |-> code, seen |-> 0]]
  /\ UNCHANGED <<shipped, writes, repairs>>

Serving == \E p \in Processes : process[p].at = "serving"

Write == writes < MaxWrites /\ writes' = writes + 1

------------------------------------------------------------------------------
(* What the processes that serve write.                                    *)

\* The tolerance is cached for the life of a process: the one of a cold start or a later one.
\* A run that fails, or that its budget or a crash ends, is rolled back whole.
PersistRun(report) ==
  /\ Serving /\ Write
  /\ \E within \in {Reach, Tolerance(db, report.comp)} : db' = IngestResult(db, report, within)
  /\ UNCHANGED <<version, applied, shipped, process, repairs>>

\* The unique key of a slate's links refuses one fixture in two positions.
PromoteSlate(s) ==
  /\ Serving /\ Write
  /\ \A p, q \in 1..Len(Draws[s].pairs) :
       Promoted(db, s).links[<<s, p>>] = Promoted(db, s).links[<<s, q>>] => p = q
  /\ db' = Promoted(db, s)
  /\ UNCHANGED <<version, applied, shipped, process, repairs>>

Repair(tables) ==
  /\ Serving /\ repairs < MaxRepairs
  /\ repairs' = repairs + 1
  /\ db' = tables
  /\ UNCHANGED <<version, applied, shipped, process, writes>>

PlayedRows(r) == {i \in Matches(db) : Plays(db.matches[i], r)}

ResultsOf(r) == {x \in db.results : x.match \in PlayedRows(r)}

\* No row would take the identity of another.
Collides(from, into) ==
  \E i \in PlayedRows(from), j \in Matches(db) \ PlayedRows(from) :
    LET swap(r) == IF r = from THEN into ELSE r
        m == db.matches[i]
    IN SameIdentity([m EXCEPT !.home = swap(@), !.away = swap(@)], db.matches[j])

\* merge_duplicate_team.py
MergeDuplicate(from, into) ==
  /\ Foldable(db, from, into)
  /\ Owner(db, from) \in {Nobody, from, into}
  /\ Cardinality(ResultsOf(from)) <= Cardinality(ResultsOf(into))
  /\ ~Collides(from, into) /\ PlayedRows(from) \cap PlayedRows(into) = {}
  /\ Repair(FoldTeam(db, from, into))

\* relink_slate_team.py: a placeholder gives its place to a real team.
RelinkSlate(slot, side, into) ==
  LET i == db.links[slot]
      m == [db.matches[i] EXCEPT ![side] = into]
  IN /\ i # 0 /\ db.matches[i][side] \in db.marked
     /\ Present(db, into) /\ into \notin db.marked
     /\ WithIdentity(db, m) = {}
     /\ Repair([db EXCEPT !.matches[i] = m])

\* repoint_inferred_competitions.py, for every fabricated fixture of a slate; a retired row
\* answers to the name it was given.
RepointCompetitions(s) ==
  LET named(r) == IF r \in db.renamed THEN r ELSE FindTeam(db, r)
      guess(i) == InferCompetition(db, named(db.matches[i].home), named(db.matches[i].away))
      rows == {i \in Linked(db, s) : db.matches[i].marked /\ guess(i) # db.matches[i].comp}
      tables == [db EXCEPT !.matches = [i \in Matches(db) |->
                   IF i \in rows THEN [@[i] EXCEPT !.comp = guess(i)] ELSE @[i]]]
  IN /\ rows # {}
     /\ \A i, j \in Matches(db) : SameIdentity(tables.matches[i], tables.matches[j]) => i = j
     /\ Repair(tables)

\* prune_orphan_slate_matches.py: rows no slate uses and no result was reported for.
PruneOrphan(i) ==
  /\ ~IsLinked(db, i) /\ Results(db, i) = {}
  /\ Repair([db EXCEPT !.matches = [j \in Matches(db) \ {i} |-> @[j]]])

------------------------------------------------------------------------------

Init ==
  /\ \/ version = 0 /\ db = Empty
     \/ version = 1 /\ db \in Legacy
  /\ applied = [v \in {Program[i].version : i \in DOMAIN Program} |-> 0]
  /\ shipped = 1
  /\ process = [p \in Processes |-> Down]
  /\ writes = 0 /\ repairs = 0

Upgrade == Deploy \/ \E p \in Processes : Stop(p) \/ Start(p) \/ Migrate(p)

Ingest == \E report \in Reports : PersistRun(report)

Operate ==
  \/ \E from, into \in db.teams : MergeDuplicate(from, into)
  \/ \E slot \in Slots, side \in {"home", "away"}, into \in db.teams : RelinkSlate(slot, side, into)
  \/ \E s \in DOMAIN Draws : RepointCompetitions(s)
  \/ \E i \in Matches(db) : PruneOrphan(i)

Next == Upgrade \/ Ingest \/ Operate \/ \E s \in DOMAIN Draws : PromoteSlate(s)

Spec == Init /\ [][Next]_vars

------------------------------------------------------------------------------
(* Properties.                                                             *)

TeamsOK(d) ==
  /\ d.teams \subseteq Spellings /\ d.marked \cup d.renamed \subseteq d.teams
  /\ d.alias \in [{Normal[s] : s \in Spellings} -> d.teams \cup {Nobody}]

MatchesOK(d) ==
  /\ IsFiniteSet(Matches(d)) /\ Matches(d) \subseteq Nat \ {0}
  /\ d.matches \in [Matches(d) -> MatchRow]
  /\ \A i \in Matches(d) : {d.matches[i].home, d.matches[i].away} \subseteq d.teams
  /\ \A i, j \in Matches(d) : SameIdentity(d.matches[i], d.matches[j]) => i = j

ResultsOK(d) ==
  /\ IsFiniteSet(d.results) /\ d.results \subseteq ResultRow
  /\ {x.match : x \in d.results} \subseteq Matches(d)
  /\ \A x, y \in d.results :
       x.match = y.match /\ x.source = y.source /\ x.day = y.day => x = y

LinksOK(d, slates) ==
  /\ d.links \in [Slots -> Matches(d) \cup {0}]
  /\ \A a, b \in Slots :
       a[1] = b[1] /\ a[1] \in slates /\ d.links[a] = d.links[b] /\ d.links[a] # 0 => a = b

TablesOK(d) ==
  /\ d = [teams |-> d.teams, marked |-> d.marked, renamed |-> d.renamed, alias |-> d.alias,
          matches |-> d.matches, results |-> d.results, links |-> d.links]
  /\ TeamsOK(d) /\ MatchesOK(d) /\ ResultsOK(d) /\ LinksOK(d, DOMAIN Draws)

\* No migration renamed a row before the last two versions.
ASSUME LegacyAssumption == \A d \in Legacy : TablesOK(d) /\ d.renamed = {}

\* The tables hold what their columns and unique keys allow: one row per fixture
\* and kickoff, one result per row, source and time, one position per row of a slate.
FixturesTypeOK == TablesOK(db)

\* However many processes start, crash and start again, no data step runs twice on
\* the same tables (run_migrations, under its lock), and a process serves only
\* tables at least as new as its code.
MigratesOnce ==
  /\ \A v \in DOMAIN applied : applied[v] <= 1
  /\ \A p \in Processes : process[p].at = "serving" => process[p].code <= version

\* Once a spelling was folded into another row, by a migration or by an operator,
\* it resolves to a row in use and never again to the one retired (_fold_provider_split).
RetiredSpellingIsCanonical ==
  \A r \in db.renamed : FindTeam(db, r) \in db.teams \ db.renamed

\* A position of a slate whose fixture has a result still has one after a migration,
\* an ingestion or a repair, whichever of two duplicate rows each slate was linked to.
CoverageSurvives ==
  [][Upgrade \/ Ingest \/ Operate =>
       \A slot \in Slots :
         (\E x \in db.results : x.match = db.links[slot])
           => \E x \in db'.results : x.match = db'.links[slot]]_vars

\* A team's recent form has every game it played in a fixture exactly once, though two
\* feeds may date the game apart and the pair may meet again with the same score.
FormCountsEachGameOnce ==
  \A r \in db.teams, x \in db.results :
    Plays(db.matches[x.match], r) =>
      LET form == RecentResults(db, r, x.day + 1, FormLimit)
          same(y) == y.game = x.game /\ SameFixture(db.matches[y.match], db.matches[x.match])
      IN Len(SelectSeq(form, same)) = 1

\* The tables had every game played after day t ended otherwise.
Altered(d, t) ==
  [d EXCEPT !.results = {IF x.day > t THEN [x EXCEPT !.goals = <<7, 0>>] ELSE x : x \in @}]

\* A row whose kickoff and result are of day t at the latest.
Known(d, i, t) == d.matches[i].day <= t /\ Latest(d, i).day <= t

\* What is scored in the walk-forward evaluation, and each rolling row of the expected
\* goals, would be the same had every game played later ended otherwise.
ScoresIgnoreTheFuture ==
  LET days == {x.day : x \in db.results}
      shown(row) == <<row.match, row.home, row.away>>
  IN \A t \in {u \in days : \E v \in days : u < v} :
       LET other == Altered(db, t)
       IN /\ \A comp \in {db.matches[x.match].comp : x \in db.results} :
               LET rows == Among(League(db, comp), {i \in Completed(db) : Known(db, i, t)})
                   runs == WalkForward(db, comp)
               IN /\ Examples(other, rows) = Examples(db, rows)
                  /\ \A k \in DOMAIN runs : Known(db, runs[k].match, t) =>
                       Heuristic(other, runs[k].prior) = Heuristic(db, runs[k].prior)
          /\ LET now == RollingRows(db)
                 then == RollingRows(other)
             IN \A k \in DOMAIN now : Known(db, now[k].match, t) => shown(then[k]) = shown(now[k])
=============================================================================
