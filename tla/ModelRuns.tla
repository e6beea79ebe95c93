------------------------------ MODULE ModelRuns ------------------------------
(***************************************************************************)
(* The training runs of the scoring model and of its neural shadow: who    *)
(* trains and when, what becomes visible, and which engine scores.         *)
(*                                                                         *)
(* All runs are rows of model_training_runs, told apart by model_name and  *)
(* ordered by trained_at; the latest row of a name is the one in force.    *)
(* Boosters are files, and so is the verdict of the last backtest, which   *)
(* says where the booster may score.  A runner is a thread of a process:   *)
(* the worker, the API's event loop, its thread pool, the command line.    *)
(***************************************************************************)
EXTENDS Integers, Sequences, FiniteSets, FiniteSetsExt

CONSTANTS
  Runners, Worker,   \* the threads, and the one that retrains on schedule
  Cli,               \* the one that publishes backtests
  Competitions,
  Slates,            \* the scored jornadas
  Samples,           \* sizes the training sample may have
  LogisticMin, SmallMax, XgboostMin,  \* the sizes that choose the kind of model
  Evidence,          \* what a candidate's evaluation may show
  Stored,            \* and what one showed that an earlier release left
  WorstFold,         \* LOSO_WORST_FOLD_FLOOR
  MinSlates,         \* complete jornadas a training or a promotion needs
  ConflictPercent,   \* of the results seen, at most
  Interval,          \* model_retrain_interval_hours
  VerdictTTL,        \* _XGBOOST_VERDICT_TTL_SECONDS
  Scorers,           \* the runners whose predictions are followed
  MaxEvents,         \* bound on rows flushed, backtests begun and results changed
  Nothing, Idle

\* Each slate of the dataset is held out once, the newest first.  Its gain is the Brier
\* score of the stored vector less that of the calibrated one, in ten-thousandths.
Fold == [encodes: BOOLEAN, gain: Int, preserves: BOOLEAN]
Evaluation(kind) == [kind: {kind}, extended: BOOLEAN, folds: Seq(Fold)]

ASSUME RunsAssumption ==
  /\ Worker \in Runners /\ Cli \in Runners
  /\ Scorers \subseteq Runners \ {Cli}
  /\ {MinSlates, Interval, VerdictTTL} \subseteq Nat \ {0}
  /\ {ConflictPercent, MaxEvents} \subseteq Nat
  /\ IsFiniteSet(Slates)
  /\ Samples \cup {LogisticMin, SmallMax, XgboostMin} \subseteq Nat
  /\ WorstFold \in Int
  /\ Idle \notin {"train", "candidate", "promote", "rollback", "backtest"}
  /\ Evidence \subseteq Evaluation("loso") /\ Stored \subseteq Evaluation("holdout")

VARIABLES
  runs,      \* the committed rows
  flushed,   \* the rows of each runner's open transaction
  task,      \* what each runner is doing
  stamp,     \* trained_at of the last row flushed
  files,     \* the boosters in artifact storage, named by a row
  results,   \* what the results of each scored jornada are worth
  verdict,   \* index.json: the competitions the booster won, if readable
  trial,     \* the backtest in progress: competitions scored, competitions won
  loaded,    \* _xgboost_verdict_cache of each runner's process
  route,     \* the engine per competition, if this step scored
  age,       \* how long ago the file last routed a competition each way
  changes    \* backtests begun and results changed

vars == <<runs, flushed, task, stamp, files, results, verdict, trial, loaded,
          route, age, changes>>

\* The threads that serve the routes of the API.
Requests == Runners \ {Worker, Cli}

Names == {"production", "candidate", "active"}
Engines == {"booster", "blend"}
Grades == {"none", "signs", "canonical", "conflict"}

------------------------------------------------------------------------------

Of(name) == {run \in runs : run.name = name}

\* The rows that come first, by trained_at, in TrainingRepository.list_runs.
Newest(S) == CHOOSE run \in S : \A other \in S : other.stamp <= run.stamp
Latest(name) == IF Of(name) = {} THEN Nothing ELSE Newest(Of(name))

Graded(grade) == Cardinality({s \in Slates : results[s] = grade})

ConflictsWithin(seen) == Graded("conflict") * 100 <= ConflictPercent * seen

\* AdaptiveRetrainingService._run_checks: canonical rows only.
RetrainReady ==
  /\ Graded("canonical") >= MinSlates
  /\ ConflictsWithin(Graded("canonical") + Graded("signs") + Graded("conflict"))

\* build_dataset_readiness: conflicts are weighed against comparable matches.
DatasetReady ==
  /\ Graded("canonical") >= MinSlates
  /\ ConflictsWithin(Graded("canonical"))

\* _xgboost_approved_competitions: an expired or unavailable verdict is read again.
Approved(r) == IF loaded[r] # Nothing THEN loaded[r].approved ELSE verdict
Loaded(r) ==
  IF loaded[r] # Nothing \/ verdict = Nothing THEN loaded
  ELSE [loaded EXCEPT ![r] = [approved |-> verdict, age |-> 0]]

\* The gate of _score_match_with_artifact: no verdict, no gate.
RouteBy(approved) ==
  [c \in Competitions |-> IF approved = Nothing \/ c \in approved THEN "booster" ELSE "blend"]

FileRoute == RouteBy(verdict)

Older(a) == IF a < VerdictTTL THEN a + 1 ELSE a
Witnessed(approved) == [c \in Competitions |-> [age[c] EXCEPT ![RouteBy(approved)[c]] = 0]]

------------------------------------------------------------------------------

\* A neural row; a forced promotion is the operator's word instead of the gate's.
Neural(name, at, evidence, forced) ==
  [name |-> name, stamp |-> at, age |-> 0, evidence |-> evidence, forced |-> forced]

NoTrial == [scored |-> {}, won |-> {}]

RunsInit ==
  /\ runs = {Neural("candidate", 0, e, FALSE) : e \in Stored}
  /\ flushed = [r \in Runners |-> {}]
  /\ task = [r \in Runners |-> Idle]
  /\ stamp = 0
  /\ files = {}
  /\ results = [s \in Slates |-> "none"]
  /\ verdict = Nothing
  /\ trial = NoTrial
  /\ loaded = [r \in Runners |-> Nothing]
  /\ route = Nothing
  /\ age = [c \in Competitions |-> [e \in Engines |-> IF e = "booster" THEN 0 ELSE VerdictTTL]]
  /\ changes = 0

Within(events) == stamp + changes + events <= MaxEvents

Starts(r, doing) == task[r] = Idle /\ task' = [task EXCEPT ![r] = doing]

\* Mutant of IntervalElapsed: some run is read instead of the latest.
SomeIntervalElapsed ==
  Of("production") # {} => \E run \in Of("production") : run.age >= Interval

\* The gate of _maybe_retrain_model is the date of the latest run in the database.
IntervalElapsed == Of("production") # {} => Latest("production").age >= Interval

\* _build_training_artifact: small samples are stored, large ones fit a booster.
Kind(sample) ==
  IF sample \in LogisticMin..SmallMax THEN "similarity"
  ELSE IF sample >= XgboostMin THEN "booster" ELSE "heuristic"

\* A training begins: on schedule, on readiness, or because an operator says so.
BeginTrain(r, why) ==
  /\ Starts(r, "train")
  /\ Within(1)
  /\ why = "schedule" <=> r = Worker
  /\ why = "schedule" => IntervalElapsed
  /\ why = "readiness" => RetrainReady
  /\ route' = Nothing
  /\ UNCHANGED <<runs, flushed, stamp, files, results, verdict, trial, loaded, age, changes>>

Production(r, at, first, boosted, file) ==
  [name |-> "production", stamp |-> at, age |-> 0, by |-> r, first |-> first,
   boosted |-> boosted, file |-> file]

\* train: a booster is stored under the id of a first row, which still holds it
\* inline, and a second row describes the file.
SaveRun(r, sample) ==
  /\ task[r] = "train"
  /\ flushed[r] = {}
  /\ Within(IF Kind(sample) = "booster" THEN 2 ELSE 1)
  /\ LET first == stamp + 1
     IN IF Kind(sample) = "booster"
        THEN /\ flushed' = [flushed EXCEPT ![r] =
                              {Production(r, first, first, TRUE, 0),
                               Production(r, first + 1, first, TRUE, first)}]
             /\ files' = files \cup {first}
             /\ stamp' = stamp + 2
        ELSE /\ flushed' = [flushed EXCEPT ![r] = {Production(r, first, first, FALSE, 0)}]
             /\ stamp' = first
             /\ UNCHANGED files
  /\ route' = Nothing
  /\ UNCHANGED <<runs, task, results, verdict, trial, loaded, age, changes>>

\* Flushes one neural row in a transaction of its own.
SaveNeural(r, doing, name, evidence, forced) ==
  /\ Starts(r, doing)
  /\ Within(1)
  /\ stamp' = stamp + 1
  /\ flushed' = [flushed EXCEPT ![r] = {Neural(name, stamp + 1, evidence, forced)}]
  /\ route' = Nothing
  /\ UNCHANGED <<runs, files, results, verdict, trial, loaded, age, changes>>

\* NeuralDatasetBuilder.build refuses a dataset without a usable row; train_candidate
\* keeps what the evaluation showed.
TrainCandidate(r, evidence) ==
  /\ \E i \in DOMAIN evidence.folds : evidence.folds[i].encodes
  /\ SaveNeural(r, "candidate", "candidate", evidence, FALSE)

\* The folds of an evaluation that could be trained without and scored.
HeldOut(e) ==
  {i \in DOMAIN e.folds :
     e.folds[i].encodes /\ \E j \in DOMAIN e.folds \ {i} : e.folds[j].encodes}

Gain(e) == MapThenSumSet(LAMBDA i : e.folds[i].gain, HeldOut(e))

\* walk_forward_loso, and what the gate asks of it; the mean is rounded.
EarnsOverSlates(e) ==
  LET folds == HeldOut(e)
  IN /\ \A i \in folds : e.folds[i].preserves /\ e.folds[i].gain >= WorstFold
     /\ 2 * Gain(e) > Cardinality(folds)
     /\ 2 * Cardinality({i \in folds : e.folds[i].gain > 0}) > Cardinality(folds)

\* walk_forward_eval holds out the newest slate alone.
EarnsOnNewest(e) == 1 \in HeldOut(e) /\ e.folds[1].preserves /\ e.folds[1].gain > 0

\* _promotion_gate: on what is served, out of sample, and never re-ranking picks.
PromotionGate(e) ==
  /\ ~e.extended
  /\ IF e.kind = "loso" /\ HeldOut(e) # {} THEN EarnsOverSlates(e) ELSE EarnsOnNewest(e)

\* promote_candidate, behind the dataset gate of its route, which force keeps.
Promote(r, force) ==
  \E candidate \in Of("candidate") :
    /\ DatasetReady
    /\ PromotionGate(candidate.evidence) \/ force
    /\ SaveNeural(r, "promote", "active", candidate.evidence, force)

\* The active row before the one in force.
Previous == Newest(Of("active") \ {Latest("active")})

\* Mutant of Rollback: the rows are listed without their model name.
RollbackToAny(r) ==
  LET listed == {run \in runs : run.name # "production"} \ {Latest("active")}
  IN /\ Of("active") # {} /\ listed # {}
     /\ SaveNeural(r, "rollback", "active", Newest(listed).evidence, Newest(listed).forced)

\* rollback_active: a copy of the previous row is appended.
Rollback(r) ==
  /\ Cardinality(Of("active")) >= 2
  /\ SaveNeural(r, "rollback", "active", Previous.evidence, Previous.forced)

\* Mutant of Commit: the rows of a training are committed one by one.
CommitFirst(r) ==
  /\ flushed[r] # {}
  /\ LET next == CHOOSE run \in flushed[r] : \A other \in flushed[r] : run.stamp <= other.stamp
     IN /\ runs' = runs \cup {next}
        /\ flushed' = [flushed EXCEPT ![r] = @ \ {next}]
  /\ task' = IF flushed'[r] = {} THEN [task EXCEPT ![r] = Idle] ELSE task
  /\ route' = Nothing
  /\ UNCHANGED <<stamp, files, results, verdict, trial, loaded, age, changes>>

\* managed_transaction, or the commit of the neural routes.
Commit(r) ==
  /\ flushed[r] # {}
  /\ runs' = runs \cup flushed[r]
  /\ flushed' = [flushed EXCEPT ![r] = {}]
  /\ task' = [task EXCEPT ![r] = Idle]
  /\ route' = Nothing
  /\ UNCHANGED <<stamp, files, results, verdict, trial, loaded, age, changes>>

\* A process dies, or a training raises: its transaction is lost, its files stay.
Crash(r) ==
  /\ task[r] # Idle
  /\ task' = [task EXCEPT ![r] = Idle]
  /\ flushed' = [flushed EXCEPT ![r] = {}]
  /\ loaded' = [loaded EXCEPT ![r] = Nothing]
  /\ trial' = IF r = Cli THEN NoTrial ELSE trial
  /\ route' = Nothing
  /\ UNCHANGED <<runs, stamp, files, results, verdict, age, changes>>

------------------------------------------------------------------------------

\* publish_backtest_history, in a process of its own.
BeginBacktest ==
  /\ Starts(Cli, "backtest")
  /\ Within(1)
  /\ changes' = changes + 1
  /\ trial' = NoTrial
  /\ loaded' = [loaded EXCEPT ![Cli] = Nothing]
  /\ route' = Nothing
  /\ UNCHANGED <<runs, flushed, stamp, files, results, verdict, age>>

\* One competition: the booster's score comes through the gate like any other.
Backtest(c, won) ==
  /\ task[Cli] = "backtest"
  /\ c \notin trial.scored
  /\ trial' = [scored |-> trial.scored \cup {c},
               won |-> IF won THEN trial.won \cup {c} ELSE trial.won]
  /\ loaded' = Loaded(Cli)
  /\ route' = Nothing
  /\ UNCHANGED <<runs, flushed, task, stamp, files, results, verdict, age, changes>>

Backtested == task[Cli] = "backtest" /\ trial.scored = Competitions

\* index.json is opened for writing, which empties it,
TruncateVerdict ==
  /\ Backtested
  /\ verdict # Nothing
  /\ verdict' = Nothing
  /\ age' = Witnessed(Nothing)
  /\ route' = Nothing
  /\ UNCHANGED <<runs, flushed, task, stamp, files, results, trial, loaded, changes>>

\* and written.
WriteVerdict ==
  /\ Backtested
  /\ verdict = Nothing
  /\ verdict' = trial.won
  /\ trial' = NoTrial
  /\ task' = [task EXCEPT ![Cli] = Idle]
  /\ age' = Witnessed(verdict')
  /\ route' = Nothing
  /\ UNCHANGED <<runs, flushed, stamp, files, results, loaded, changes>>

\* Mutant of Score: what was read is kept for as long as the process lives.
ScoreOnce(r) ==
  /\ task[r] = Idle
  /\ route' = RouteBy(Approved(r))
  /\ loaded' = [Loaded(r) EXCEPT ![r] = IF @ = Nothing THEN @ ELSE [@ EXCEPT !.age = 0]]
  /\ UNCHANGED <<runs, flushed, task, stamp, files, results, verdict, trial, age, changes>>

\* _score_match_with_artifact, for a match of each competition.
Score(r) ==
  /\ task[r] = Idle
  /\ route' = RouteBy(Approved(r))
  /\ loaded' = Loaded(r)
  /\ UNCHANGED <<runs, flushed, task, stamp, files, results, verdict, trial, age, changes>>

\* reset_xgboost_verdict_cache, when an operator refreshes the predictions.
ResetVerdict(r) ==
  /\ task[r] = Idle
  /\ loaded' = [loaded EXCEPT ![r] = Nothing]
  /\ route' = Nothing
  /\ UNCHANGED <<runs, flushed, task, stamp, files, results, verdict, trial, age, changes>>

\* A jornada is scored, its results become official, or sources disagree on them.
Regrade(s, grade) ==
  /\ results[s] # grade
  /\ Within(1)
  /\ changes' = changes + 1
  /\ results' = [results EXCEPT ![s] = grade]
  /\ route' = Nothing
  /\ UNCHANGED <<runs, flushed, task, stamp, files, verdict, trial, loaded, age>>

AgedRun(run) == [run EXCEPT !.age = IF @ < Interval THEN @ + 1 ELSE @]

Tick ==
  /\ runs' = {AgedRun(run) : run \in runs}
  /\ flushed' = [r \in Runners |-> {AgedRun(run) : run \in flushed[r]}]
  /\ loaded' = [r \in Runners |->
                  IF loaded[r] = Nothing \/ loaded[r].age = VerdictTTL - 1 THEN Nothing
                  ELSE [loaded[r] EXCEPT !.age = @ + 1]]
  /\ age' = [c \in Competitions |-> [e \in Engines |->
               IF e = FileRoute[c] THEN 0 ELSE Older(age[c][e])]]
  /\ route' = Nothing
  /\ UNCHANGED <<task, stamp, files, results, verdict, trial, changes>>

RunsNext ==
  \/ \E why \in {"schedule", "readiness", "request"}, r \in Runners \ {Cli} : BeginTrain(r, why)
  \/ \E r \in Requests :
       \/ \E evidence \in Evidence : TrainCandidate(r, evidence)
       \/ \E force \in BOOLEAN : Promote(r, force)
       \/ Rollback(r)
  \/ \E r \in Runners :
       \/ \E sample \in Samples : SaveRun(r, sample)
       \/ Commit(r)
       \/ Crash(r)
  \/ \E r \in Scorers : Score(r) \/ ResetVerdict(r)
  \/ BeginBacktest
  \/ \E c \in Competitions, won \in BOOLEAN : Backtest(c, won)
  \/ TruncateVerdict
  \/ WriteVerdict
  \/ \E s \in Slates, grade \in Grades : Regrade(s, grade)
  \/ Tick

RunsSpec == RunsInit /\ [][RunsNext]_vars

------------------------------------------------------------------------------

(***************************************************************************)
(* Whoever trains at once and whatever dies in between, the booster that   *)
(* the production run in force describes is on disk, so that a match is    *)
(* never scored by the heuristic for want of a file.                       *)
(***************************************************************************)
ServedBoosterLoads ==
  Latest("production") # Nothing /\ Latest("production").boosted
    => Latest("production").file \in files

(***************************************************************************)
(* _maybe_retrain_model: "restarts never retrigger an expensive train and  *)
(* the cadence holds across deploys".  Two trainings the worker scheduled  *)
(* are an interval apart, whatever others train and whoever restarts.      *)
(***************************************************************************)
ScheduledRunsAreSpaced ==
  \A one, other \in {run \in Of("production") : run.by = Worker /\ run.age < Interval} :
    one.first = other.first

(***************************************************************************)
(* "The latest neural_baseline_active row is the active neural candidate;  *)
(* rollback appends a copy of the previous active row": whatever threads   *)
(* promote and roll back at once, what is served beat the baseline on the  *)
(* jornadas it was not trained on, or on the newest, without changing one  *)
(* of their picks, or an operator forced it.                               *)
(***************************************************************************)
ShadowIsEarned ==
  \A run \in Of("active") :
    LET e == run.evidence
    IN \/ run.forced
       \/ /\ ~e.extended /\ HeldOut(e) # {}
          /\ IF e.kind = "loso" THEN Gain(e) > 0 /\ (\A i \in HeldOut(e) : e.folds[i].preserves)
             ELSE e.folds[1].gain > 0 /\ e.folds[1].preserves

Promise == INSTANCE BoundedStaleness WITH
  Keys <- Competitions, Values <- Engines, MaxAge <- VerdictTTL - 1,
  truth <- FileRoute, answer <- route, NoAnswer <- Nothing

(***************************************************************************)
(* _XGBOOST_VERDICT_TTL_SECONDS: every match is scored by an engine that   *)
(* the file named within the lifetime of the class-level cache, in every   *)
(* process, while the file is emptied and rewritten under the readers.     *)
(***************************************************************************)
GateIsRecent == Promise!Spec
=============================================================================
