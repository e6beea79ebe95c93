---------------------------- MODULE SlateForecasts ----------------------------
(***************************************************************************)
(* The predictions of one open slate: who computes them, where they are    *)
(* cached, and what the ticket snapshots taken from them are filed under.  *)
(*                                                                         *)
(* Each process (the API and the worker) has its own caches; the slate,    *)
(* its links and its snapshots are rows both of them commit to.  Within a  *)
(* process the requests that touch predictions take turns, so the locks of *)
(* the cache are never contended and a build is interrupted only by what   *)
(* another process commits.                                                *)
(*                                                                         *)
(* A prediction is abstracted to what it is a prediction of: the fixture   *)
(* of each position and whether it was scored as a knock-out.              *)
(***************************************************************************)
EXTENDS Integers

CONSTANTS
  Procs, Api,     \* the processes, and the one that serves requests
  Watchers,       \* the processes that run the worker's duties
  N,              \* positions of the slate
  Fixtures,
  Compositions, First,  \* composition hashes, and that of the new slate
  FixtureAt,      \* the fixture of each composition and position
  NameSays,       \* detect_knockout of each fixture's competition name
  TTL,            \* of the prediction cache
  ReportTTL,      \* of the cache of money-mode reports
  BuildTime,      \* a build takes no longer than this
  MaxEdits,       \* bound on what upserts, rulings and feeds change
  Nothing, Idle

Positions == 1..N
Verdicts == {"yes", "no", "unknown"}   \* detect_knockout: True, False, None

ASSUME ForecastAssumption ==
  /\ Api \in Procs /\ Watchers \subseteq Procs
  /\ First \in Compositions
  /\ {BuildTime, MaxEdits} \subseteq Nat /\ {N, TTL, ReportTTL} \subseteq Nat \ {0}
  /\ FixtureAt \in [Compositions -> [Positions -> Fixtures]]
  /\ NameSays \in [Fixtures -> Verdicts]

VARIABLES
  slate,      \* composition_hash and the links
  stage,      \* matches.stage: what a feed reported of each fixture's phase
  caches,     \* SlatePredictionCache of each process, two buckets
  report,     \* the cached money-mode report of the API
  build,      \* the predictions each process is computing
  snapshots,  \* the valid rows of ticket_recommendation_snapshots
  answer,     \* what the API answers in this step, position by position
  age,        \* how long ago the database last held each state of a position
  ruled,      \* the operator's last ruling on each position
  edits       \* how often the slate was changed

vars == <<slate, stage, caches, report, build, snapshots, answer, age, ruled, edits>>

Buckets == {"persisting", "readonly"}
Link == [flag: BOOLEAN, source: {"auto", "operator"}]
State == [fixture: Fixtures, flag: BOOLEAN]
Forecast == [Positions -> State]

\* What a request does with the predictions once it has them.
Purposes == {"answer", "report", "refresh", "preclose"}
BucketOf(purpose) == IF purpose \in {"refresh", "preclose"} THEN "persisting" ELSE "readonly"

------------------------------------------------------------------------------

Known(verdict) == verdict # "unknown"

\* resolve_knockout, and the "or False" of upsert_slate.
AutoFlag(f) == IF Known(stage[f]) THEN stage[f] = "yes" ELSE NameSays[f] = "yes"

\* Mutant of Rebuilt: a ruling is looked up by the match, not by the position.
RebuiltByMatch(c, links) ==
  [p \in Positions |->
     IF links[p].source = "operator" /\ FixtureAt[c][p] = FixtureAt[slate.comp][p]
     THEN links[p] ELSE [flag |-> AutoFlag(FixtureAt[c][p]), source |-> "auto"]]

\* The links an upsert rebuilds: the operator's rulings stay at their positions.
Rebuilt(c, links) ==
  [p \in Positions |->
     IF links[p].source = "operator" THEN links[p]
     ELSE [flag |-> AutoFlag(FixtureAt[c][p]), source |-> "auto"]]

\* What the database says of a slate, position by position.
TruthOf(s) == [p \in Positions |-> [fixture |-> FixtureAt[s.comp][p], flag |-> s.links[p].flag]]
Truth == TruthOf(slate)

MaxAge == BuildTime + TTL + ReportTTL - 1
Older(a) == IF a <= MaxAge THEN a + 1 ELSE a
Witness(s) == [p \in Positions |-> [age[p] EXCEPT ![TruthOf(s)[p]] = 0]]

\* Mutant of Invalidated: only the bucket of the persisting builds is dropped.
InvalidatedPersisting(p) == [caches EXCEPT ![p]["persisting"] = Nothing]

\* SlatePredictionCache.invalidate, which reaches the caches of its process only.
Invalidated(p) == [caches EXCEPT ![p] = [b \in Buckets |-> Nothing]]

\* The valid snapshots of a composition.
Current(c) == {s \in snapshots : s.comp = c}

------------------------------------------------------------------------------

ForecastInit ==
  /\ stage = [f \in Fixtures |-> "unknown"]
  /\ slate = [comp |-> First,
              links |-> [p \in Positions |->
                           [flag |-> AutoFlag(FixtureAt[First][p]), source |-> "auto"]]]
  /\ caches = [p \in Procs |-> [b \in Buckets |-> Nothing]]
  /\ report = Nothing
  /\ build = [p \in Procs |-> Idle]
  /\ snapshots = {}
  /\ answer = Nothing
  /\ age = [p \in Positions |-> [t \in State |-> IF t = Truth[p] THEN 0 ELSE MaxAge + 1]]
  /\ ruled = [p \in Positions |-> Nothing]
  /\ edits = 0

ReportIsLive == report # Nothing /\ report.comp = slate.comp

\* Who asks, and when: requests reach the API; a pre-close needs that no valid
\* snapshot exists; a report is computed only when none is cached.
Asks(p, purpose) ==
  /\ build[p] = Idle
  /\ IF purpose = "preclose" THEN p \in Watchers /\ Current(slate.comp) = {} ELSE p = Api
  /\ purpose = "report" => ~ReportIsLive

\* What becomes of the predictions: a pre-close has yet to save its snapshot.
Deliver(p, purpose, forecast) ==
  IF purpose = "preclose"
  THEN /\ build' = [build EXCEPT ![p] = [step |-> "save", comp |-> slate.comp, forecast |-> forecast]]
       /\ answer' = Nothing
       /\ UNCHANGED report
  ELSE /\ build' = [build EXCEPT ![p] = Idle]
       /\ answer' = forecast
       /\ report' = IF purpose = "report"
                    THEN [comp |-> slate.comp, forecast |-> forecast, age |-> 0] ELSE report

\* Mutant of AnswerFromCache: a hit stores the value again.
AnswerAndRenew(p, purpose) ==
  LET entry == caches[p][BucketOf(purpose)]
  IN /\ Asks(p, purpose)
     /\ purpose # "refresh"
     /\ entry # Nothing
     /\ Deliver(p, purpose, entry.forecast)
     /\ caches' = [caches EXCEPT ![p][BucketOf(purpose)].age = 0]
     /\ UNCHANGED <<slate, stage, snapshots, age, ruled, edits>>

\* build_slate_predictions, when the bucket has a live entry.
AnswerFromCache(p, purpose) ==
  LET entry == caches[p][BucketOf(purpose)]
  IN /\ Asks(p, purpose)
     /\ purpose # "refresh"
     /\ entry # Nothing
     /\ Deliver(p, purpose, entry.forecast)
     /\ UNCHANGED <<slate, stage, caches, snapshots, age, ruled, edits>>

\* build_slate_predictions, when it has none: the slate and its links are loaded.
BeginBuild(p, purpose) ==
  /\ Asks(p, purpose)
  /\ purpose = "refresh" \/ caches[p][BucketOf(purpose)] = Nothing
  /\ caches' = IF purpose = "refresh" THEN Invalidated(p) ELSE caches
  /\ build' = [build EXCEPT ![p] =
                 [step |-> "score", purpose |-> purpose, intact |-> TRUE, age |-> 0,
                  next |-> IF BucketOf(purpose) = "persisting" THEN 2 ELSE N + 1,
                  forecast |-> Truth]]
  /\ answer' = Nothing
  /\ UNCHANGED <<slate, stage, report, snapshots, age, ruled, edits>>

Scoring(p) == build[p] # Idle /\ build[p].step = "score"

\* Each audit row a persisting build commits expires what it loaded: the next
\* position is read again, and the build dies when its link row is gone.
ScoreNext(p) ==
  /\ Scoring(p)
  /\ build[p].next <= N
  /\ LET next == build[p].next
     IN build' = [build EXCEPT ![p] =
                    IF @.intact
                    THEN [@ EXCEPT !.forecast[next] = Truth[next], !.next = next + 1]
                    ELSE Idle]
  /\ answer' = Nothing
  /\ UNCHANGED <<slate, stage, caches, report, snapshots, age, ruled, edits>>

\* The end of _build_slate_predictions_uncached: the bucket is set.
FinishBuild(p) ==
  /\ Scoring(p)
  /\ build[p].next > N
  /\ caches' = [caches EXCEPT ![p][BucketOf(build[p].purpose)] =
                  [forecast |-> build[p].forecast, age |-> 0]]
  /\ Deliver(p, build[p].purpose, build[p].forecast)
  /\ UNCHANGED <<slate, stage, snapshots, age, ruled, edits>>

\* build_and_persist: the new snapshot supersedes the valid ones of its hash.
SaveSnapshot(p) ==
  /\ build[p] # Idle
  /\ build[p].step = "save"
  /\ snapshots' = (snapshots \ Current(build[p].comp))
                    \cup {[comp |-> build[p].comp, forecast |-> build[p].forecast]}
  /\ build' = [build EXCEPT ![p] = Idle]
  /\ answer' = Nothing
  /\ UNCHANGED <<slate, stage, caches, report, age, ruled, edits>>

\* get_diagnostic_cache: the money-mode report, under the hash it was computed for.
AnswerReport ==
  /\ build[Api] = Idle
  /\ ReportIsLive
  /\ answer' = report.forecast
  /\ UNCHANGED <<slate, stage, caches, report, build, snapshots, age, ruled, edits>>

------------------------------------------------------------------------------

\* Mutant of LinksRebuilt: the rows are updated in place, so builds read on.
LinksUpdated == build

\* The link rows an upsert deletes are those the builds in progress hold on to.
LinksRebuilt == [p \in Procs |-> IF Scoring(p) THEN [build[p] EXCEPT !.intact = FALSE] ELSE build[p]]

\* upsert_slate: a new composition invalidates the snapshots of the old one; no
\* cache of predictions is touched.
UpsertSlate(p, c) ==
  /\ build[p] = Idle
  /\ edits < MaxEdits
  /\ edits' = edits + 1
  /\ slate' = [comp |-> c, links |-> Rebuilt(c, slate.links)]
  /\ build' = LinksRebuilt
  /\ snapshots' = IF c = slate.comp THEN snapshots ELSE snapshots \ Current(slate.comp)
  /\ age' = Witness(slate')
  /\ answer' = Nothing
  /\ UNCHANGED <<stage, caches, report, ruled>>

\* set_slate_match_knockout: an operator rules, for good, on one position.
RuleKnockout(pos, flag) ==
  /\ build[Api] = Idle
  /\ edits < MaxEdits
  /\ edits' = edits + 1
  /\ slate' = [slate EXCEPT !.links[pos] = [flag |-> flag, source |-> "operator"]]
  /\ caches' = Invalidated(Api)
  /\ age' = Witness(slate')
  /\ ruled' = [ruled EXCEPT ![pos] = flag]
  /\ answer' = Nothing
  /\ UNCHANGED <<stage, report, build, snapshots>>

\* _record_stage_from_document: the first stage reported stays, and revises the
\* links nobody ruled on.
ReportStage(p, f, verdict) ==
  LET revised == [pos \in Positions |->
                    IF FixtureAt[slate.comp][pos] = f /\ slate.links[pos].source = "auto"
                    THEN [slate.links[pos] EXCEPT !.flag = (verdict = "yes")]
                    ELSE slate.links[pos]]
  IN /\ build[p] = Idle
     /\ stage[f] = "unknown"
     /\ edits < MaxEdits
     /\ edits' = edits + 1
     /\ stage' = [stage EXCEPT ![f] = verdict]
     /\ slate' = [slate EXCEPT !.links = revised]
     /\ caches' = IF revised # slate.links THEN Invalidated(p) ELSE caches
     /\ age' = Witness(slate')
     /\ answer' = Nothing
     /\ UNCHANGED <<report, build, snapshots, ruled>>

\* Mutant of Aged: an entry is still returned at the end of its lifetime.
AgedOffByOne(entry, last) ==
  IF entry = Nothing \/ entry.age > last THEN Nothing ELSE [entry EXCEPT !.age = @ + 1]

\* An entry that has outlived its lifetime is not returned again.
Aged(entry, last) ==
  IF entry = Nothing \/ entry.age = last THEN Nothing ELSE [entry EXCEPT !.age = @ + 1]

\* Time passes, up to the end of the longest build.
Tick ==
  /\ \A p \in Procs : Scoring(p) => build[p].age < BuildTime
  /\ build' = [p \in Procs |-> IF Scoring(p) THEN [build[p] EXCEPT !.age = @ + 1] ELSE build[p]]
  /\ caches' = [p \in Procs |-> [b \in Buckets |-> Aged(caches[p][b], TTL)]]
  /\ report' = Aged(report, ReportTTL - 1)
  /\ age' = [p \in Positions |-> [t \in State |-> IF t = Truth[p] THEN 0 ELSE Older(age[p][t])]]
  /\ answer' = Nothing
  /\ UNCHANGED <<slate, stage, snapshots, ruled, edits>>

ForecastNext ==
  \/ \E p \in Procs :
       \/ \E purpose \in Purposes : AnswerFromCache(p, purpose) \/ BeginBuild(p, purpose)
       \/ ScoreNext(p)
       \/ FinishBuild(p)
       \/ SaveSnapshot(p)
       \/ \E c \in Compositions : UpsertSlate(p, c)
       \/ \E f \in Fixtures, verdict \in {"yes", "no"} : ReportStage(p, f, verdict)
  \/ AnswerReport
  \/ \E pos \in Positions, flag \in BOOLEAN : RuleKnockout(pos, flag)
  \/ Tick

ForecastSpec == ForecastInit /\ [][ForecastNext]_vars

------------------------------------------------------------------------------

Entry == [forecast: Forecast, age: 0..TTL]
Building == [step: {"score"}, purpose: Purposes, intact: BOOLEAN, age: 0..BuildTime,
             next: 2..(N + 1), forecast: Forecast]
Saving == [step: {"save"}, comp: Compositions, forecast: Forecast]

(***************************************************************************)
(* The slate, the caches and the builds keep their type, and what is       *)
(* cached or being built never outgrows its lifetime.                      *)
(***************************************************************************)
ForecastTypeOK ==
  /\ slate \in [comp: Compositions, links: [Positions -> Link]]
  /\ stage \in [Fixtures -> Verdicts]
  /\ caches \in [Procs -> [Buckets -> Entry \cup {Nothing}]]
  /\ report \in [comp: Compositions, forecast: Forecast, age: 0..(ReportTTL - 1)] \cup {Nothing}
  /\ build \in [Procs -> Building \cup Saving \cup {Idle}]
  /\ \A s \in snapshots : s \in [comp: Compositions, forecast: Forecast]
  /\ answer \in Forecast \cup {Nothing}
  /\ age \in [Positions -> [State -> 0..(MaxAge + 1)]]
  /\ ruled \in [Positions -> BOOLEAN \cup {Nothing}]
  /\ edits \in 0..MaxEdits

(***************************************************************************)
(* "Re-upserting an existing slate deletes and rebuilds its match rows,    *)
(* which used to discard every operator-set is_knockout flag": whatever    *)
(* upserts, stages and refreshes follow, a position the operator ruled on  *)
(* keeps that ruling until he rules again.                                 *)
(***************************************************************************)
RulingSurvives ==
  \A p \in Positions : ruled[p] # Nothing =>
    slate.links[p] = [flag |-> ruled[p], source |-> "operator"]

(***************************************************************************)
(* Once the operator has ruled on a position, no prediction the API still  *)
(* caches was scored the other way.                                        *)
(***************************************************************************)
RulingIsShown ==
  \A b \in Buckets, p \in Positions :
    ruled[p] # Nothing /\ caches[Api][b] # Nothing
      => caches[Api][b].forecast[p].flag = ruled[p]

\* The predictions are of the fixtures of one composition.
IsOf(forecast, c) == \A p \in Positions : forecast[p].fixture = FixtureAt[c][p]

(***************************************************************************)
(* A persisting build reads the slate again after every row it commits,    *)
(* while another process may recompose it: nothing that is cached or about *)
(* to be filed mixes the fixtures of two compositions.                     *)
(***************************************************************************)
OneComposition ==
  /\ \A p \in Procs, b \in Buckets :
       caches[p][b] # Nothing => \E c \in Compositions : IsOf(caches[p][b].forecast, c)
  /\ \A s \in snapshots : \E c \in Compositions : IsOf(s.forecast, c)

Promise == INSTANCE BoundedStaleness WITH
  Keys <- Positions, Values <- State, truth <- Truth, NoAnswer <- Nothing

(***************************************************************************)
(* Module docstring of the diagnostic cache: "a very short TTL keeps the   *)
(* UI responsive without hiding meaningful live changes".  With two layers *)
(* of caches and a second process committing behind them, every position   *)
(* of an answer shows a state the slate had within the lifetimes of both   *)
(* layers and one build.                                                   *)
(***************************************************************************)
AnswersAreRecent == Promise!Spec
=============================================================================
