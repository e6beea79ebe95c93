# proAI: a verification project

proAI follows the Mexican *Progol* contests: it reads the official guides,
turns them into playable slates, ingests match data on a schedule, predicts
and recommends tickets, and scores each jornada when its results are final.
It is a FastAPI process and a worker process (`scheduler_worker.py`, one cycle
about every 30 seconds) that share a PostgreSQL database, the artifact storage
and the context file, and nothing else.

This directory holds TLA+ models of that program, the TLC configurations that
check them, and proofs checked by TLAPS. Paths below are relative to
`src/backend/app/` unless they start with `src/`.

## 1. Inventory

For each part: the state it keeps, its operations, what is hard about it, and
what makes it correct. Status and sources of each are in `PROJECT.json`
(`components`), and each hazard, at its line, under `hazards`.

**Scheduler** (`services/scheduler_service.py`,
`repositories/scheduler_repository.py`). State: the rows of
`scheduled_ingestion_jobs` (`is_active`, `last_run_at`, `next_run_at`).
A runner loads the due rows, claims each by a compare-and-set on `next_run_at`
which also is its lease, runs it, saves the next date. Runners: the worker with
a SIGALRM budget, two API endpoints without. Hard: two runners, a session whose
rows expire at each commit, interruptions at any point, dead processes,
starvation. Correct: a leased job has one holder, no job is parked or starved.

**Worker** (`workers/scheduler_worker.py`). State: timers and one session per
cycle. Each cycle: archive due slates, observe the guide, midweek watch,
auto-promotion, live results, retraining, maintenance, then the job batch.
Duties share the session; some commit, some only flush. Hard: a duty's rows
live or die with the commits of other duties.

**Slate proposals** (`services/slate_proposal_service.py`). State:
`progol_slate_proposals`, one row per contest and source URL. Operations:
observe, operator capture, promote, which makes two commits: the slate, then
the link. Hard: sources that change, two promoters, a crash between commits,
deadlines. Correct: only confirmed fixtures become a slate by promotion, and
every confirmed proposal becomes one in time.

**Slate lifecycle, discovery and refresh** (`services/slate_service.py`,
`slate_discovery_service.py`, `current_progol_service.py`,
`repositories/slate_repository.py`, `api/routes/slates.py`). State:
`progol_slates` with positions, rulings, composition hash, archive flag and
cierre; `current.json`. Six writers say what a slate is: promotion, an
operator's correction of a cierre, the midweek watcher, a client's `POST
/slates`, the refresh from the context file, discovery after an ingestion.
Readers: the selector, `/slates/active`, the diagnostics. Hard: writers that do
not know of each other, a refresh cut between its four stages, stale files.
Correct: what the client is offered is open, dated and predicted; a closed
contest opens only on news, or because a client had withdrawn it early; the
current contest gets its predictions.

**Midweek PDF watcher** (`services/ms_pdf_watch_service.py`). Sets an invented
close while the guide has none, applies operator overrides. Correct: the
invented close ends, and yields to the operator's.

**Results and scores** (`services/live_result_service.py`,
`results_ingestion_service.py`, `jornada_scoring_service.py`,
`live_results_service.py`, `completed_slate_manual_results.py`, the
repositories, `src/backend/scripts/backfill_results.py`). State:
`match_live_results`, `match_results`, `progol_jornada_scores`. Operations:
record, merge, promote, choose the canonical row, score, manual files,
backfills. Hard: documents out of order, signs without goals, corrections,
sources that disagree, a score flushed and never committed. Correct: no final
score is lost, a complete score counts finished matches only.

**Learning reports** (`services/learning_*`, `tracking_service.py`,
`adaptive_dataset_service.py`, `completed_slate_inventory_service.py` and
more). Read-only: each follows a path of its own through the results,
predictions and scores of a played contest. Hard: a dozen definitions of
"comparable", "hit" and "trainable". Correct: they agree.

**Predictions, caches, snapshots** (`services/prediction_service.py`,
`prediction_cache.py`, `diagnostic_ttl_cache.py`,
`repositories/ticket_repository.py`). State: two buckets of predictions and a
cache of reports per process, audit rows, ticket snapshots by composition.
Hard: builds that commit and re-read while another process recomposes the
slate; caches another process cannot invalidate. Correct: answers are recent,
never mixed, and show the operator's rulings.

**Decisions and tickets** (`services/sanity_service.py`,
`draw_calibration_math.py`, `domain/presentation_guard.py`,
`ticket_recommendation_service.py`, `ticket_optimizer.py`). From a vector to a
pick, its caps and flags, then an exact search for doubles and triples within
a budget, then demotion to a legal composition. Hard: ties, thresholds, steps
that undo each other. Correct: the plan is optimal, demotion spares it, the
pick is the signal shown.

**Money mode, gate, reports** (`services/money_mode_service.py`,
`publication_gate_service.py`, `slate_options_service.py`,
`slate_readiness_report_service.py`, `readiness_expansion_service.py`,
`operational_prediction_audit_service.py`). Decide whether a boleto may be
played; some score live, some read persisted audits. Correct: what is
published is playable and exposes no forbidden position.

**Training** (`services/model_training_service.py`,
`model_training_artifacts.py`, `neural_baseline_service.py`,
`adaptive_retraining_service.py`). State: `model_training_runs`, booster files,
the verdict file of the last backtest, a cached copy of it per process.
Writers: the worker on schedule, the API, the command line. Correct: the run in
force has its booster, scheduled runs are spaced, what shadows the model has
earned it.

**Fixtures, history, schema** (`repositories/entity_repository.py`,
`result_repository.py`, `services/entity_resolution_service.py`,
`progol_fixture_resolver.py`, `ingestion_service.py`, `feature_service.py`,
`expected_goals_service.py`, `db/migrations.py`, the repair scripts). State:
teams, aliases, competitions, matches, results, the positions that link to
them, the schema version. Hard: two spellings of one team, two rows of one
game, steps that move rows others depend on, processes that start at once.
Correct: no result is lost or counted twice, no step runs twice, no evaluation
sees the future.

**Connectors, parsers, authentication, rate limits, metrics, frontend**: I/O,
text and presentation; not modelled.

## 2. Modules

| Module | What it is |
|---|---|
| `ScheduledJobs` | job rows, runners, claim, lease, budget, saves |
| `FairRefresh` | extends it with a history of who was passed over |
| `SlateProposals` | proposals, promotion, slates, archival, auto-promotion |
| `MsPdfWatch` | extends `SlateProposals` with the midweek watcher and its overrides |
| `CurrentSlates` | the six writers of slates, the refresh in stages, the readers |
| `LiveResults` | live rows, canonical results, manual file, jornada score |
| `Learning` | extends `LiveResults` with stored details and every learning report |
| `BoundedStaleness` | abstract: what a cache with a lifetime promises |
| `SlateForecasts` | predictions of a slate, caches, rulings, snapshots; refines it |
| `ModelRuns` | training runs, files, verdict, neural shadow; its gate refines it |
| `MatchDecisions` | from a model's vector to a pick, its caps, flags and guard |
| `Tickets` | extends it: optimizer, composition, money mode, publication gate |
| `PlayReports` | extends `Tickets` with readiness, options, status, dashboard, audit |
| `Fixtures` | teams, aliases, matches, results, slates' links; what ingestion does |
| `History` | extends it: forms, meetings, examples, walk-forward, rolling rows |
| `Migrations` | extends both: data steps, lock, releases, crashes, repairs |
| `ScheduledJobsProofs` | theorems about `ScheduledJobs` and `FairRefresh` |
| `SlateProposalsProofs` | theorems about `SlateProposals` and `MsPdfWatch` |
| `CurrentSlatesProofs` | theorems about `CurrentSlates` |
| `LiveResultsProofs` | theorems about `LiveResults` and `Learning` |
| `SlateForecastsProofs`, `ModelRunsProofs` | theorems about the module of the name, and its refinement of `BoundedStaleness` |
| `PlayReportsProofs` | theorems about `PlayReports` over `Tickets` |
| `MigrationsProofs` | theorems about `Migrations` over `Fixtures` and `History` |
| `MC...` | the instances TLC checks |

A definition marked "Mutant of X" is a plausible bug of X. It is used by no
action: it is put in X's place to see that a property notices.

Five groups share no state in the program's control, and are separate state
machines: jobs; proposals, watcher and current slates; results and reports;
predictions and tickets; fixtures and migrations, beside the training runs.
Where one reads another, the reader takes an input: `Tickets` any forecasts its
engine may give, `Learning` any predictions a closed contest may have,
`ModelRuns` any results a jornada may get.

### ScheduledJobs

`table` is the job table. A runner's `pc`, `now`, `todo`, `view`, `expired`,
`cur` and `expected` are the local state of `run_due_jobs`: `view` holds the
rows as loaded, and `expired` says that a commit of this session has expired
them, after which touching a row reads it again (`SelectJob`). `ClaimJob` is
the conditional UPDATE and its commit, `SkipJob` the lost claim; the job runs
outside any transaction, so `FinishRun` is separate from both. `InterruptRun`
and `SaveInterrupted` are the budget; only `Budgeted` runners have one.
`LoseBatch` is the death of a process, or a budget that fires outside the
guarded call. Deletion of jobs does not exist in the code.

`FairRefresh` adds `passed`, a history, and changes no behaviour.

### SlateProposals

One week type. `proposals[d][u]` is the row of contest `d` and URL `u`;
`Observed` is `_record_observation`. A fixture list is one model value and a
kickoff the earliest of its matches: the code's guards read nothing else.
`BeginPromotion` is what `promote_proposal` decides from what it has read,
`WriteSlate` the commit of `create_slate`, `FinishPromotion` the commit of
the link, `LinkToSlate` the two early returns; between them other processes
act, and `CutPromotion` ends a promotion before or between its commits.
`Upserted` is `upsert_slate`: the version advances when the composition hash
changes, and the hash includes kickoffs. That an observed result still binds to
the rebuilt matches depends on names and dates, so it is a choice
(`kept`). `UpsertSlate`, `OverrideDate`, `ArchiveDueSlates` and
`ArchiveClosedSlates` are the other writers. `streak` and `confirmed` are
histories that the properties need; no guard reads them.

Simplifications. Guides and captures are different URLs (`SourcesAssumption`):
an operator capture cites its own. `Capture` is atomic where the code has two
transactions; the state between them is that of an `Observe` of the same row.
A cierre is a time of the model or absent.

### MsPdfWatch

`MsPdfWatch` composes the watcher with every action of `SlateProposals`.
`payload[d][u]` is the part of `payload_json` the watcher reads: a cierre,
whether it is the invented one, whether the document's cierre block belonged
to another contest, and the row's `first_seen_at`. It is not the column
`registration_closes_at` (`proposals[d][u].closes`): a sighting of the same
fixtures refreshes the column and leaves the payload (`PayloadAfter`).
`overrides[d]` is the cierre of the row `POST /slates/{id}/date-override`
leaves (`OverrideMsDate`). A tick is two transactions: `WatchFetch` is
`observe_ms`, which commits, `WatchActivate` the rest and the worker's commit,
`WatchFail` a tick that is rolled back; `watch` is the tick in between, when
the API may act and the worker's other duties may not (`WorkerIsFree`).
`Chosen` picks the cierre, `Clamped` holds an invented one to the first
kickoff. Left out: the hash and the status, which only word the diagnostics,
and the pre-close prediction. The plain observation of the midweek guide is
skipped by the worker while the watcher is enabled.

### CurrentSlates

A contest is a week type and a number; its fixtures are one programme, told by
its first kickoff, so a slate maps programmes to kickoffs, and a slate of two
programmes is one that discovery mixed. `rows` keeps whether the match row at a
kickoff is fabricated, reported or absent: `Linked` is
`find_match_near_identity`, `UpsertedAs` the whole of `upsert_slate` over slates
and rows, `Upserted` the same for the payloads that leave `is_archived` at its
default. `Promote` and `OverrideDate` write as in `SlateProposals`, here with
the kickoffs they invent and rebase; `WatchActivate` is the write of a tick of
the watcher, of any date it may choose. `PostSlate` is `POST /slates`, whose
client states the whole slate and its archive flag. `withdrawn` is a history
that only the property reads: the flag a client set, until another writer
decides again. The refresh is four actions, `RefreshSlate`, `RefreshDocument`,
`RefreshPredictions`, `RefreshArchive`, because each commits, and `CutRefresh`
ends it between two. `IngestContext` is an ingestion of the file and the
discovery that follows it, `Export` the operator's script that writes the file.
The readers are operators: `ActiveSlate`, `ShownOpen`, `ShownRecent`,
`HeldBack`, `Preselected`, `LatestContest`, with the date gate (`DateStatus`).
Its exemption of a provisional close (`date_sanity.py:88`) is not a branch of
its own here: the stamp of the window takes the place of the document's low
confidence, which is what `WatchActivate` writes, so no guide has both. Feeds
and results are external.

### LiveResults

One slate, one composition. `live[m][s]` is a row of `match_live_results`
(`Unseen`: none), `results` the rows of `match_results`. A promotion inserts,
because `played_at` is then the instant of the observation and is part of the
key. `IngestHistory` is the other writer, a document of historical results: it
states the instant itself, so it replaces in place the row its source left for
that instant, or inserts when it states another; `rewritten` is a history of the
matches this happened to. `Merged` is `record_observation`, `Promotes` its last
condition. `Ingest` is a document of a feed, `Backfill` one of an archive, with
and without force. `EvaluateManual` and `ApplyManual` are apart, as in the
script. `Observe` is the worker's duty that flushes a score, `CommitCycle` a
later duty that commits the session, `EndCycle` the close of the session, which
rolls back. `ComputeScore` is the API. `official` is whether a proposal with an
official address has the slate's draw code; `reported` is a history of what each
source stated as final. Priorities are distinct: in the code two operator
sources share 60, and the database breaks that tie.

### Learning

The actions of `LiveResults`, with the details a score keeps (`flushed`,
`details`): `FlushScore`, `CommitScore`, `CloseCycle` and `RequestScore` compose
with the four above, and `Reported` is any action that moves no score. `sheet`
is the predictions of the closed contest, chosen at the start. Every report is
an operator over these tables, translated from its own service, and the
properties compare them. A match may have a prediction of its slate and
composition, of the slate only, of another slate, and one from before
predictions were labelled, which PostgreSQL sorts before the slate's own in
`_latest_predictions` (`Outranked`). A forecast is reduced to its pick, the
order of its signs, raw and decided, and its status; Brier scores and money are
left out.

### SlateForecasts

One open slate; the API and the worker each have a `SlatePredictionCache`
(`caches`, two buckets) and the API a report cache. A prediction is abstracted
to what it is a prediction of: the fixture and the knock-out flag of each
position. `BeginBuild` loads the slate, `ScoreNext` is one audit row committed,
after which the session reads the next link again, `FinishBuild` stores the
value, `SaveSnapshot` files a ticket under its hash. Meanwhile `UpsertSlate`
deletes and rebuilds the links, `RuleKnockout` is the operator, `ReportStage` a
feed. Within one process requests take turns: its routes are `async def` and
call the service without awaiting. `age` is a history: how long ago the
database last held each state of a position.

### ModelRuns

`runs` are the committed rows of `model_training_runs`, `flushed` those of each
runner's open transaction. `SaveRun` flushes one row, or two when a booster is
fitted: the first holds it inline and names the file, the second describes
it. `TruncateVerdict` and `WriteVerdict` are apart because `index.json` is
opened for writing before it is filled. `loaded` is the class-level cache of the
verdict in each process. A neural candidate carries its evaluation: per slate
held out, whether it could be scored, its gain and whether the picks stayed;
`EarnsOverSlates` and `EarnsOnNewest` are the two evaluations, `PromotionGate`
the choice between them. The folds are independent of the results the dataset
gate counts, as in the code, where rows of any scored jornada are folds.
The run rows are ordered by a counter for `trained_at`.

### MatchDecisions, Tickets, PlayReports

Probabilities are thousandths, rounded where the code keeps more digits, so a
threshold of the code is a threshold of the model. `Adjusted`, the knock-out,
the caps, the draw calibration and the guard are operators in the order
`prediction_service.py` calls them. `Tickets` is a sequential machine, one
build from `ScoreNext` to `Judge`: `PlanTickets` is the dynamic program over
distributions of hits, `Recommend` the draw floor and `_build_match_recommendation`,
`Demote` one step of `_enforce_legal_composition`, `Compose` the moment money
mode is asked, with what the database then holds of each prediction (nothing,
this one, an older one, or an audit from before audits had a final status),
`Judge` its verdict and the gate's.
`PlayReports` adds no state: each report derives its answer by itself.

### Fixtures, History, Migrations

The tables are one record `db`, so a transaction is a function from tables to
tables and `Migrations` composes them. A team row is named by the spelling it
was created under and an alias by the normal form. `IngestResult` is a result
with everything it resolves; its tolerance is computed from the median gap of
the competition and cached, so both values occur. `Promoted` places a slate
through the resolver, with fabricated kickoffs where no row is found. `History`
holds what is read of the past: `RecentResults`, `HeadToHead`, `Examples`,
`WalkForward`, `RollingRows` (one `Rolled` per game); a fitted model is the
sequence of games that moved it. What reads only the rows takes `table`, what
also reads the results takes the whole `d`. `Migrations` has the data steps of
versions 32 to 37 by kind (relink, correct, alias, split, merge, fold, mark,
consolidate). `Start` takes the lock and reads the version, `Migrate` is the
transaction of all pending steps, `Stop` a crash at any point, `Deploy` a new
release, `Repair` and its four users the operator's scripts. A position of a
retired team still finds its row, under the name the merge gave it
(`RepointCompetitions`). The rows of one fixture that v37 joins are chained by
twins at most 48 hours apart (`Cluster`, the least set closed under them); the
one that stays is the first by `RanksBefore`, and the others are folded into it
in that order (`Consolidate`).

## 3. Runs

| Run | Configuration | Question |
|---|---|---|
| `scheduler_safety` | `MCScheduledJobs.cfg` | Do the claim and the lease hold with two runners, one budgeted? |
| `scheduler_fairness` | `MCFairRefresh.cfg` | Is a source passed over for ever? |
| `scheduler_single_winner` | `MCScheduledJobsWinner.cfg` | Is a leased job never claimed? (violated) |
| `proposals_safety` | `MCSlateProposals.cfg` | Do only confirmed fixtures reach a slate? |
| `auto_promotion` | `MCAutoPromotion.cfg` | Does every validated proposal land? |
| `midweek_watch` | `MCMsPdfWatch.cfg` | Does an invented cierre end, and yield to the operator's? |
| `current_slates` | `MCCurrentSlates.cfg` | What is offered, what reopens, does the current contest get predictions? |
| `learning` | `MCLearning.cfg` | Are results lost or counted early, and do the reports agree about them? |
| `forecasts` | `MCSlateForecasts.cfg` | Are predictions recent, unmixed, and true to the operator's rulings? |
| `model_runs` | `MCModelRuns.cfg` | Is the run in force complete, spaced, earned and gated by a recent verdict? |
| `tickets` | `MCTickets.cfg` | Is the plan optimal, and is only what is playable published? |
| `fixtures` | `MCFixtures.cfg` | Do upgrades, ingestion and repairs keep every result, once? |

**What each property is about.** *learning*: `FinalScoreIsCanonical` and
`CompleteScoreWasFinal` are those of the results; `ReportsAgree` compares
the readiness gate, inventory, learning score, calibration, backtest,
validation, tracking and the stored score. Two comparisons leave matches out: the
tracking view and the comparison read the slate's own prediction, so they are
not asked to agree with the learning score where an unlabelled one outranks it;
and a stored score is not asked to follow a result that was rewritten in place
since (section 5); `RowsAgree` the training rows with
the fast count and with the tracking view. *forecasts*: `RulingSurvives` and
`RulingIsShown` follow an operator's ruling through rebuilds and caches,
`OneComposition` a build through a recomposition; `AnswersAreRecent` is the
specification `BoundedStaleness!Spec`, checked as a property under the mapping
positions to keys and (fixture, flag) to values, so it says that
`SlateForecasts` implements it. *model_runs*: `GateIsRecent` is the same
abstract specification for the engine of each league. *tickets*: `PlanIsBest`
compares the dynamic program with every assignment within the budget.
*fixtures*: `CoverageSurvives` is an action property of upgrades, ingestion and
repairs; `FormCountsEachGameOnce` and `ScoresIgnoreTheFuture` read the past from
every reachable table. *current_slates*: `SelectorAgrees` compares the selector with
`/slates/active` and the diagnostics, `ReopensOnlyOnNews` is an action property
of the six writers, `RefreshLands` is liveness.

**Bounds.** *scheduler_safety*: two jobs are the fewest with a second claim in a
batch, where the row is read again; two runners for every pair; a clock of 2
with intervals 2 and 1 lets a lease of either job run out while its runner
works; one lost batch. *scheduler_fairness*: three jobs, so two may pass the
third; one worker, clock 5, budget at will; the counters saturate at 4, above
the bound that is checked. *proposals_safety*: one contest, one guide and one
capture, two fixture lists, two promoters; a drift, a second promoter and a
recomposition all fit in; the version saturates at 2; kickoffs and cierre at 1,
so that a slate can be open, closed and started. *auto_promotion*: two contests
compete for the week type; the cierre is 2 and so is the clock; one promotion
may be cut. Its threshold is 0, the latest the worker may act, so "about to
close" never helps; there is one fixture list and no cierre is missing: drifts
and slates without a date are in `proposals_safety`. *midweek_watch*: one
contest and one guide; two fixture lists, for a drift; a clock of 2 and a window
of 2, so that a tick at time 1 or 2 may move the window if it counted from the
tick; kickoffs at 2 and 3, one inside the window, which clamps, one outside; a
cierre of 2 or none; one failed tick. *current_slates*: two contests of the
midweek, the only week type with a watcher, the fewest that compete and that
discovery may mix; a client may post the older, archived or not, with a later
cierre, so that a withdrawal, a refresh and a tick meet; the older already
promoted, with fabricated kickoffs and no hash, and a context file from before
the flag; a clock of 2, three pieces of news (a guide, a feed, a correction, an
export...), one refresh cut short. *learning*: two matches, so that one may be
finished and the other not; the acta, an operator, an archive, a feed of
historical results and the manual file; two scores, a win and a draw; two
documents, enough for a live partial and a final sign that overtake an evaluated
file; the second match predicted
for the slate, not at all, or for another one only, beside a first one that was also
predicted without a label. *forecasts*: two positions that a
recomposition swaps, one of which the name decides and one it leaves open; a
lifetime of 1 for predictions, 2 for reports, 1 for a build, so a stale value
can pass from one cache to the other; two edits, which is a ruling and a
recomposition. *model_runs*: the worker, one API thread and the command line;
one league and one jornada; a sample of each kind but the heuristic; a candidate
that earns its promotion, one that does not, and a stored one evaluated on the
newest jornada alone; five rows, backtests and changes of results, enough to
regrade, promote twice and roll back, or for two trainings of two rows.
*tickets*: every slate of one match over 14 contexts and a grid of 19 by 19
probabilities that sits on the thresholds of the code; the corners between the
grid's points where a single comes nearest to losing its defence, (.55, .19),
(.546, .198) and (.64, .15), also over the thinnest data; and every slate of
three matches out of six that meet in ties, a friendly, a live draw, thin
evidence; limits scaled to three matches; a prior of .299 for the draw, just
under the least at which a property fails (.317). *fixtures*: five spellings of
three clubs, one game under two spellings a day apart and its rematch, two
draws, tables left by earlier code with duplicate teams or fabricated rows, a
step of each kind, releases 5 and 9 so that an upgrade may be split or whole,
two processes, two writes, one repair.

`fixtures`, `forecasts` and `model_runs` check deadlock. The others turn it
off: the clock, the documents, the crashes or the single build of `tickets`
are bounded, and the real program waits when nothing is due.

**Fairness.** *auto_promotion*: `WF(Tick)`, time passes; `WF(Promote(Worker))`,
the worker's loop runs the duty every cycle and a failed one is tried again
in the next; `CutPromotion` may fail a bounded number of times. *current_slates*:
weak fairness of the four stages of the refresh, because
the scheduled refresh job runs them in order and again after its interval; a
bounded number is cut. Nothing is assumed of operators, feeds or the archival.
The instances have only cierres within the clock's range: one that is never
reached would show a wait that is the bound's, not the code's.
`scheduler_fairness` states the absence of starvation as a counting invariant,
which needs no fairness: while a source waits, any other is claimed at most
twice, plus once for a batch that dies before it saved.

**What the violation says.** `ClaimIsSingleWinner`: the compare-and-set is meant
to refuse a job another runner has claimed. From the second job of a batch on,
the value compared has just been re-read (a commit expires the session's
rows), so the claim compares a lease with itself and wins.
`SnapshotClaimIsExclusive` proves that nothing else does: a claim with the
value loaded at the start is safe.

## 4. Proofs

TLAPS checks the theorems that `PROJECT.json` lists, for every value of the
constants allowed by the assumptions named in the modules. Each inductive
invariant below was also checked by TLC on the run of its component.

*ScheduledJobsProofs*. `LeaseInv` is `TypeOK`, `LeaseIsTheRow`, "loaded rows
exist" and "loaded rows were due": `LeaseIsTheRow` alone is not inductive,
since a first claim with a loaded value is only safe because that value was
not later than the batch's `now`, hence differs from any lease that is still
running. From it: `TypeCorrect`, `LeaseIsTheRowHolds`, and the action property
`SnapshotClaimsAreExclusive`. `ParkedAtMostOneLeaseHolds` follows from the type
and from the clock never going back: each saved date is a batch's `now` plus at
most one lease (`DelaysFitLease`).

`NobodyStarves` needs a measure of how far a waiting job `j` is from being
passed. `FairInv` adds to `LeaseInv` the order of the dates (`DatesInv`: a job
that ran is due only after that run), that the only session's rows are what
the table says (`BatchInv`, so that its claims win), and `PassedInv`: two
claims of `k` are left when `k` will only tie with `j`, one when `k` is ahead
or not later, none when a batch loaded after `j` was due already holds `k`.
Two hypotheses: `OneWorker`, since the bound is about the worker's own batches
(the endpoints run batches on demand, and a second runner is the first finding),
and `Delayed`, that intervals and the back-off are positive
(`schemas/scheduler.py:10` refuses an interval below a minute, the back-off is
a constant). Without the second a job could be due again in its own batch.

*SlateProposalsProofs*. `ProposalsInv` adds to the type that the row's counter
follows the streak (`CountsTheStreak`), that a streak of two or a capture
enters `confirmed` (`StreakConfirms`, `CaptureConfirms`), and that a promotion
in flight carries confirmed fixtures (`FlightIsConfirmed`). The last one is
what makes `PromotedSlateIsConfirmed` inductive: the proposal may drift after
the decision, but the payload that is written is the one that was decided. It
holds for any number of contests, sources and promoters.

In its second half `WatchInv` is `ProposalsInv`, the type of the watcher's
tables, "an override has its slate" and `ProvisionalIsBounded`. The steps of
`SlateProposals` are reused as they are (`NextKeepsInv`, `SlatesStay`); the
watcher's own steps move dates and archival only, which nothing in
`ProposalsInv` reads (`DatesKeepInv`), so `PromotedSlateIsConfirmed` survives the
composition. `ChosenIsBounded` is the lemma on the choice of the cierre: the
window ends `Window` after the first sighting, the stamp is bounded already,
and the clamp only lowers it. `OverridesOutrankWindow` is an action property of the
same steps: a date an operator chose is not provisional, so neither the window
nor the clamp replaces it.

*LiveResultsProofs*. `ResultsInv` is the conjunction of the type and the four
invariants, with the facts about `Merged` stated once (`MergedRow`,
`RecordedRows`): what a merge keeps, and that the row promoted is the row
stored. `CompleteScoreWasFinal` needs that a final row or a canonical one was
reported by its source. `LearningInv` adds `OnRecord`: a code stored in the
details of a score leaves a row or an observation. A row may be replaced by
one with another score, but a match that has rows or observations keeps some, and
rows only change where `rewritten` says so (`NothingIsForgotten`,
`HistoryKeepsInv`). That joins the reports that read details with those that
read rows. From there `ReportsTellOneStory` and `TrainingRowsAgree`
are facts about one state, proved report by report over any set of matches,
sources and strategies. Assumed of the constants: matches are finite and some,
and the strategies of the backtest include the two the code names
(`learning_ticket_strategy_backtest_service.py:94`).

*CurrentSlatesProofs*. `DiscoveryMovesForward`: guides are only added or seen
again (`GuidesStay`, one case per writer), so the highest number of a week type
never falls. `SelectorsAgree` needs no invariant: it holds of any table, since
both readers derive their list from the same rows by different rules.
`NoReopeningWithoutNews` rests on `SettledInv`: the archive flag never stands
alone, unless a client withdrew the contest; a score or the cierre closes the
slate as well, so that the refresh and the watcher, which un-archive without
looking, reopen nothing by that. Its hypothesis `DatedStart` says that the
tables start with stated dates, that clients post them too, and that nothing
starts archived ahead of its cierre unless withdrawn. A slate whose cierre no
one ever stated is closed by its first kickoff, and is outside the theorem.

*SlateForecastsProofs*. `ForecastInv` is the type and three groups.
`RulingInv`: `RulingIsShown` is about caches, and becomes inductive with
`BuildShowsRuling`, the same of a build in flight in the API, whose rulings
exclude it. `CompositionInv`: a build whose link rows are still those it read
shows the composition of the slate, one whose rows were replaced stops growing.
`RecencyInv` bounds by age what each layer shows: the truth by 0, a build by its
own age, a cache by that and its lifetime, the report by one lifetime more. It is
what `CachesKeepThePromise` needs, the refinement of `BoundedStaleness`: the
initial states map, and a step that answers is the abstract `Answer`, whose guard
is the last bound; every other step is a change of the truth, a tick or a stutter.

*ModelRunsProofs*. `RowsInv` is the type, `OrderInv` (of two rows, committed or
flushed, the one with the lower stamp is the older), `BoosterInv` (a row without
its file is not the last of its session) and `SpacingInv` (the rows a runner
has flushed are of one training; the worker trains when its last rows are an
interval old). `ServedBoosterLoads` and `ScheduledRunsAreSpaced` follow.
`EarnedInv` carries `ShadowIsEarned` to rows not yet committed, since a
promotion flushes first and a rollback copies. The gate compares sums over
held-out slates: that such a sum is an integer (`GainIsInt`) is proved from the
definition of the fold by taking a set of least cardinality where it fails,
after showing that the recursive function it is defined by exists (`SumExists`).
`GateInv` gives the age of a remembered verdict, and `GateKeepsThePromise` the
second refinement of `BoundedStaleness`.

*PlayReportsProofs*. `PlayInv` says that once money mode is asked every ticket
is legal, and that a verdict is the one of the tickets, forecasts and audits as
they still are, since nothing moves after it. `PublishedTicketsArePlayable`
then follows report by report (`GateOpens`, `OpenGateIsPlayable`): the forecasts
may be anything. The other theorems also use the types of matches, rules and
limits (`TicketsAssumption`).

`PlansAreTheBest` is the optimality of the dynamic program, match by match.
`TableIsSound`: whatever distribution the table holds at a budget is that of an
assignment of that budget over the matches so far. `TableBeats`: any such
assignment is worth no more than the one in the table where its budget ends,
since the chance of missing nothing grows by a factor that is the next match's
alone. Both are inductions over the prefixes of a fold, whose recursive function
is first shown to exist (`FoldByPrefix`). `PlansInv` carries the result to the
states: a plan that is stored is the program's answer for these forecasts.
`DemotionsSpareThePlan` has `DemotionInv`: of each mode, either demotion has not
gone below the plan yet (but for the confident singles of the doubles), or
nothing above the plan is left to lower (`Sparing`). It needs that the program
answers one, two or three signs for each match, which `PlansInv` gives.

`PicksAreTheSignals` and `GuardsAgree` follow one vector through the layers:
shrunk, blended with the rates of a knock-out, capped, calibrated, guarded. Each
layer has its lemma on rounded shares (`ShrunkLeaves`, `SidesKeep`,
`SmallStaysSmall`): what leaves the sides by two half-up quotients leaves them
in order. The hypothesis of the first is a prior of at most .4 for the draw, of
the second at most .3, for any table of the surprise function that is one
(`EntropyAssumption`, the entropies of three shares do not exceed one by more
than the rounding). Both hypotheses are close to the least priors at which the
properties fail, .445 and .317 (section 5). `GuardsAgree` compares four reports
over one audit: money mode, the readiness report and the expansion audit review
the same matches because each reason of one is a reason of the other
(`ReportReviewsTheSame`).

*MigrationsProofs*. `EachStepOnce` is the argument of the lock. `UpgradeInv`
says that at most one process migrates, that what it read is the version in
force (`LockHeld`: nobody else writes it meanwhile), and that a step that ran is
not later than that version (`AppliedOnce`); so the steps still pending have
never run, and a crash, which rolls back the version with the data, changes
neither. `TablesInv` is about what all the writers do to one set of tables:
`Good` is the type and the keys (`TablesOK`) and `AliasesInUse`, that no alias
leads to a retired row and that every retired row left its own spelling an
owner. `RetiredSpellingIsCanonical` is not inductive without the second half,
since a retired row whose alias is free would be created again by the next feed.
There is one lemma per operation of the code, on tables: `IngestKeeps`,
`MergeTeamKeeps`, `FoldTeamKeeps`, `SplitTeamKeeps`, `RelinkKeeps`,
`RepointKeeps`, `PlaceKeeps`. Those that rewrite rows go through `MovedKeeps`,
where the rows that move keep identities apart from each other and from those
that stay, as the `NOT EXISTS` of each `UPDATE` asks.

Three operations are folds (the losers of `Consolidate`, the steps of
`Migrated`, the positions of `Promoted`). The fold of the library is a recursive
function chosen by its equation, so it is first shown to exist over any finite
set (`FoldExists`, by the subset of least cardinality where it would fail), then
to stay in any set its steps stay in (`FoldStays`). That v37 finds a row to keep
needs a first element of a lexicographic order of five keys (`FirstOfFinite`).
While a slate is promoted its links may repeat: `PromotedKeeps` gives `Good` for
the other slates, and the unique key of the links gives it for this one.

`ScoresLookBack` compares two sets of tables, the ones at hand and the same with
other scores after a day (`Altered`). `LikeUntil` is what they share: the rows,
the results up to the day, and the row and day of every later result. Then the
latest results agree up to the day (`LatestAgrees`), the order of the games
everywhere (`OrderAgrees`), and what a row of the past shows (`FeaturesAgree`).
That needs what a sort returns: `RankIs` shows that in a strict total order each
place is taken by the member with as many before it, and `OrderingIs` that the
sequence of them is in order. The rolling rows are a fold whose value matters,
not only its type: `FoldByPrefix` gives it as a loop, game after game
(`RollingRowsIs`), and `Agree` is the invariant of the two loops side by side:
the rows of games up to the day agree, and so do the histories while such games
last. A game may not move a history before its own row is made, which is where
the order of `Rolled` is used (`GameAgrees`).
Assumed: what the constants are (`MigrationsAssumption`, `FixturesAssumption`)
and that the tables found at the start keep the keys their schema declares, with
no team renamed yet (`LegacyAssumption`). Any number of spellings, feeds,
slates, migrations, releases, processes, writes and repairs.

**Only model-checked.** Liveness (`EveryProposalLands`, `RefreshLands`) and
ENABLED, which this prover does not do. `CoverageSurvives`: it is not a fact of
every table. A slate that links two rows of one fixture keeps the second link when
v37 joins them, since its key refuses the first twice, and the result goes to
the row that stays; the slates of the instance draw no pair twice.
`FormCountsEachGameOnce`: nor is this one. Reports of one game further apart than
the tolerance are two games to the code, and the form stops at its limit before
it reaches a repetition; the feeds of the instance are near.

## 5. Where the code differs from what is said of it

Met while modelling. Only the first is a run (section 3); the models do what the
code does, and the properties are those that hold.

*Scheduler*. The second and later claims of a batch compare a lease with itself.

*Proposals and watcher*. `already_active` compares the proposal with one of the
promoted proposals, not with the slate (`slate_proposal_service.py:498`). A
guide that later states the right cierre with unchanged fixtures does not
reopen its slate: the watcher reads the payload and only the column is
refreshed (`ms_pdf_watch_service.py:144`). When no slate exists the provisional
close is stored without the clamp to the first kickoff (`:242`).

*Results*. The worker's score is only flushed, and rolled back if no later duty
commits (`scheduler_worker.py:233`, whose comment at :209 says it is stored). A
final sign after a live 1-0 promotes 1-0 to the canonical store, though no
source said it was final (`live_result_service.py:152`). "Re-promotion updates
the same row" (`:166`) does not happen: `played_at` is the instant of each
observation, so it inserts. What does update in place is a second document of
historical results (`result_repository.py:36`): the score is corrected without a
conflict, and a jornada already scored keeps the one it counted. "Preferring
this slate + composition_hash" (`learning_slate_scoring_service.py:234`) fails
on PostgreSQL, where a comparison with NULL sorts first in descending order: a
prediction without a slate or a composition outranks the slate's own (`:245`). A
match may cease to be finished. Tracking counts a hit for a conflicting match
whose best live row is final; the comparison calls a final without a prediction
a miss; a match without probabilities uses up a double in the backtest; the
conflict ratio of the readiness gate counts slates it excludes.

*Selector and refresh*. `/visible` is "never empty when official slates exist"
except for an open date-suspect slate, or a closed one without a valid ticket. A
refresh un-archives and selects again a contest past its cierre while its last
games remain, and the next archival closes it. A contest that a client posts as
archived ahead of its cierre (`api/routes/slates.py:550`) is open again after
the next refresh or tick that selects it, with nothing new known of it. The
refresh, discovery and the same POST have no guard like the promotion's
(`slate_proposal_service.py:477`): each may recompose a contest that has
started, and the promotion may when the game starts between its guard and its
write. A refresh from a stale `current.json` silently reverts an operator's
cierre. Discovery mixes the fixtures of two contests of one week type. A mark
discovery does not know is stored as "reported" (`slate_repository.py:345`),
though the comment says silence is not evidence. Date monotonicity compares with
the contest immediately below only. A slate the refresh creates has no lineage,
so `/active` shows it and `/visible` does not.

*Predictions and tickets*. `latest_for_slate` may serve a ticket computed from an
earlier composition filed under the new hash (`ticket_repository.py:60`), and two
snapshots saved at once both stay valid, since each invalidates only those it
sees (`:33`).
`compute_visible_confidence` keeps "alta" for more matches than its docstring
says. With the exact optimizer `_grant_draw_coverage` never grants anything.
`calibrate_draw` caps the lifted draw under the favourite as it was, and takes
the lift from the sides afterwards (`draw_calibration_math.py:180`), so "X is
NEVER turned into the argmax" (`:15`) fails with a prior from about .445 on: L .320,
E .297, V .383 and a prior of .46 give E .353, V .352491; below, it is a theorem
(`PicksAreTheSignals`). The presentation guard decides a single from the sanity
layer alone and `_validation` reads the vector after that calibration, so a match
flagged "No dejar simple / Riesgo alto" can render as a single
(`presentation_guard.py:6`) from a prior of about .317 on: L .55, E .19, V .26 and
.338 give V .2434, above the .24 of the flag; below, it is a theorem
(`GuardsAgree`). A single may rest on data the quality report calls thin: on the
forms alone in a competition without evidence, or on four meetings alone.
`optimize_for_coverage` keeps one best tail per budget, so it does
not maximise P(>= min_correct): for (.4,.3,.3) and twice (.9,.05,.05), one double,
min_correct 3 it finds .342 where .567 is possible. The gate reads persisted
audits while money mode scores live, so the operations status may say "Jugar
boleto" while the gate says DO_NOT_PLAY; JUGAR_SOLO_CONSERVADOR recommends a
ticket whose `playable` is false. Money mode and the readiness report detect
placeholder names differently; the model has one flag.

*Training*. `train()` reads matches newest first (`model_training_service.py:445`)
into ratings that depend on order, while the walk-forward evaluation builds them
oldest first. "Leakage-free" expected goals use league baselines of the whole
corpus. A match's own result may be in its form when its kickoff is after its
`played_at`. The booster's score in a backtest passes through the gate it is
meant to judge (`:632`). The readers of `index.json` find it empty while it is
rewritten. The neural evaluation passes the held-out slate as validation data to
the fit that "never saw" it. The fallback of `_promotion_gate` to one holdout
only serves artifacts stored before the leave-one-slate-out existed. A forced
candidate of the extended feature set is stored as a base one and passes the
check of shadow safety.

*Fixtures and migrations*. The v37 docstring says that no resolver returns the
rows it marks, but `find_match_by_identity` and `_find_nearby_match_for_result`
do not exclude them, and the survivor may itself be fabricated. v36 may leave a
position on a fixture that collided. A fresh install is stamped with the last
version, so the data steps never run on it. A tolerance of up to 30 days may
attach a rematch's result to an earlier row. The caches of gaps and tolerances are
cleared by `refresh_current` only. A crash leaves an ingestion run "running".

## 6. Not modelled

Fitting, ratings, averages and calibration curves: floating-point numerics; the
models take vectors, impacts and gains as inputs. Text: parsing of guides and
feeds, normalisation of spellings, wording of reports. Connectors,
authentication, rate limits, metrics, frontend: I/O and presentation, whose
state no model depends on. The status row of an ingestion run: no decision reads
it. Migrations that only add columns or indexes. Scripts that print audits. The
discovery request that names its own sources. Recomposition of a closed contest
after its score (`live_results_service.py:439`): `Learning` keeps one
composition. The name of the model in `POST /training/models/train`
(`api/routes/training.py:32`): `ModelRuns` has the production name, and runs
under another name are never in force. Two scripts that write match rows:
`split_team_entity.py` moves the matches a list names from one team to another
(:181), `resolve_slate_fixtures_from_espn.py` puts the kickoffs of a feed on a
slate's rows and sets its cierre (:237). The counts that
`run_operational_money_mode` compares, which another writer may disturb between
the two reads.
