---------------------------- MODULE ScheduledJobs ----------------------------
(***************************************************************************)
(* The scheduled ingestion jobs of proAI and the processes that run them.  *)
(* Every job is one row of scheduled_ingestion_jobs.  A runner (the worker *)
(* loop, the API's POST /scheduler/jobs/run-due or POST                    *)
(* /worker/scheduler/run-once) loads the due rows, walks them from the     *)
(* longest-waiting to the latest-run, leases each with a compare-and-set   *)
(* on next_run_at, runs it outside any transaction, and saves the next     *)
(* date.  Time is counted in minutes.                                      *)
(*                                                                         *)
(* What the session of a runner knows matters: the rows are loaded once,   *)
(* and every commit of the session expires all of them, so that from the   *)
(* second job of a batch on, the value handed to the compare-and-set is    *)
(* read again from the database just before it.                            *)
(***************************************************************************)
EXTENDS Integers, FiniteSets

CONSTANTS
  Jobs,          \* the rows that may exist, one per job_name
  RefreshJobs,   \* those the worker or the CLI upserts (ensure_refresh_job)
  Runners,       \* the processes that call run_due_jobs
  Budgeted,      \* the runners that arm the SIGALRM wall-clock budget
  Interval,      \* interval_minutes of each job
  RetryBackoff,  \* the 5 minutes of the failure retry
  StartTimes,    \* next_run_at values an operator may create a job with
  NoJob,         \* a runner that is at no job
  MaxTime,       \* bound of the clock
  MaxLost        \* bound of the batches cut short outside a job's run

ASSUME JobsAssumption ==
  /\ IsFiniteSet(Jobs)
  /\ RefreshJobs \subseteq Jobs
  /\ NoJob \notin Jobs
  /\ Interval \in [Jobs -> Nat]
  /\ RetryBackoff \in Nat
  /\ StartTimes \subseteq Nat
ASSUME RunnersAssumption == Budgeted \subseteq Runners
ASSUME BoundsAssumption == MaxTime \in Nat /\ MaxLost \in Nat

VARIABLES
  clock,       \* the wall clock
  table,       \* the rows of scheduled_ingestion_jobs
  pc,          \* where each runner is in run_due_jobs
  now,         \* the runner's `now`, taken once per batch
  todo,        \* the loaded jobs the batch has not reached
  view,        \* the rows of todo as list_due_jobs loaded them
  expired,     \* has a commit of this batch expired the loaded rows?
  cur,         \* the job in hand
  expected,    \* the next_run_at the claim compares with
  lost,        \* history: batches cut short outside a job's run
  overlapped   \* history: jobs some claim gave to two runners at once

vars == <<clock, table, pc, now, todo, view, expired, cur, expected, lost, overlapped>>
runnerVars == <<pc, now, todo, view, expired, cur, expected>>

Never == -1   \* last_run_at IS NULL, which the query sorts first
Row == [created: BOOLEAN, is_active: BOOLEAN,
        last_run_at: Nat \cup {Never}, next_run_at: Nat]
NoRow == [created |-> FALSE, is_active |-> FALSE, last_run_at |-> Never, next_run_at |-> 0]

Lesser(a, b) == IF a < b THEN a ELSE b
Lease(j) == IF Interval[j] < 1 THEN 1 ELSE Interval[j]
Backoff(j) == Lesser(Interval[j], RetryBackoff)

(***************************************************************************)
(* The rows list_due_jobs selects, and its order: last_run_at first (nulls *)
(* before all), then next_run_at; the database breaks the remaining ties.  *)
(***************************************************************************)
Due(j) == table[j].created /\ table[j].is_active /\ table[j].next_run_at <= clock

Before(a, b) == \/ a.last_run_at < b.last_run_at
                \/ a.last_run_at = b.last_run_at /\ a.next_run_at <= b.next_run_at

Fairest(r) == {j \in todo[r] : \A k \in todo[r] : Before(view[r][j], view[r][k])}

\* A runner holds a job from the commit of its claim to the commit of its save.
Holding == {"running", "completed", "failed", "interrupted"}
Holds(r, j) == pc[r] \in Holding /\ cur[r] = j
HeldByOther(r, j) == \E s \in Runners \ {r} : Holds(s, j)

------------------------------------------------------------------------------

Init ==
  /\ clock = 0
  /\ table = [j \in Jobs |-> NoRow]
  /\ pc = [r \in Runners |-> "idle"]
  /\ now = [r \in Runners |-> 0]
  /\ todo = [r \in Runners |-> {}]
  /\ view = [r \in Runners |-> [j \in Jobs |-> NoRow]]
  /\ expired = [r \in Runners |-> FALSE]
  /\ cur = [r \in Runners |-> NoJob]
  /\ expected = [r \in Runners |-> 0]
  /\ lost = 0
  /\ overlapped = {}

\* POST /scheduler/jobs: job_name is unique, a second row of that name is refused.
CreateJob(j, at, active) ==
  /\ ~table[j].created
  /\ table' = [table EXCEPT ![j] = [created |-> TRUE, is_active |-> active,
                                    last_run_at |-> Never, next_run_at |-> at]]
  /\ UNCHANGED <<clock, runnerVars, lost, overlapped>>

\* Mutant of EnsureRefreshJob: the upsert of every worker cycle also resets the date.
RescheduleRefreshJob(j, at) ==
  /\ table' = [table EXCEPT ![j] =
                 [created |-> TRUE, is_active |-> TRUE,
                  last_run_at |-> table[j].last_run_at, next_run_at |-> at]]
  /\ UNCHANGED <<clock, runnerVars, lost, overlapped>>

\* ensure_refresh_job: a new row is due at once, or at the date a bootstrap script
\* staggers it to; an existing one is activated and keeps its dates.  Every caller leaves is_active at its default, TRUE.
EnsureRefreshJob(j, at) ==
  /\ table' = [table EXCEPT ![j] =
                 IF table[j].created
                 THEN [table[j] EXCEPT !.is_active = TRUE]
                 ELSE [created |-> TRUE, is_active |-> TRUE,
                       last_run_at |-> Never, next_run_at |-> at]]
  /\ UNCHANGED <<clock, runnerVars, lost, overlapped>>

\* The start of run_due_jobs: take `now` and load the due rows.
ListDueJobs(r) ==
  /\ pc[r] = "idle"
  /\ \E j \in Jobs : Due(j)
  /\ pc' = [pc EXCEPT ![r] = "select"]
  /\ now' = [now EXCEPT ![r] = clock]
  /\ todo' = [todo EXCEPT ![r] = {j \in Jobs : Due(j)}]
  /\ view' = [view EXCEPT ![r] = [j \in Jobs |-> IF Due(j) THEN table[j] ELSE NoRow]]
  /\ expired' = [expired EXCEPT ![r] = FALSE]
  /\ UNCHANGED <<clock, table, cur, expected, lost, overlapped>>

\* The head of the loop: touching an expired row reads it again.
SelectJob(r, j) ==
  /\ pc[r] = "select"
  /\ j \in Fairest(r)
  /\ todo' = [todo EXCEPT ![r] = @ \ {j}]
  /\ cur' = [cur EXCEPT ![r] = j]
  /\ expected' = [expected EXCEPT ![r] =
                    IF expired[r] THEN table[j].next_run_at ELSE view[r][j].next_run_at]
  /\ view' = [view EXCEPT ![r][j] = NoRow]
  /\ pc' = [pc EXCEPT ![r] = "claim"]
  /\ UNCHANGED <<clock, table, now, expired, lost, overlapped>>

\* Mutant of ClaimWins: the UPDATE filters on is_active alone.
ClaimIgnoresDate(r) == table[cur[r]].is_active

\* claim_job: UPDATE ... WHERE is_active AND next_run_at = expected, then commit.
ClaimWins(r) == table[cur[r]].is_active /\ table[cur[r]].next_run_at = expected[r]

ClaimJob(r) ==
  /\ pc[r] = "claim"
  /\ ClaimWins(r)
  /\ table' = [table EXCEPT ![cur[r]] = [@ EXCEPT !.next_run_at = now[r] + Lease(cur[r])]]
  /\ pc' = [pc EXCEPT ![r] = "running"]
  /\ expired' = [expired EXCEPT ![r] = TRUE]
  /\ expected' = [expected EXCEPT ![r] = 0]
  /\ overlapped' = IF HeldByOther(r, cur[r]) THEN overlapped \cup {cur[r]} ELSE overlapped
  /\ UNCHANGED <<clock, now, todo, view, cur, lost>>

\* Mutant of SkipJob: the `continue` is missing, the batch runs a job it did not get.
RunUnclaimed(r) ==
  /\ pc[r] = "claim"
  /\ ~ClaimWins(r)
  /\ pc' = [pc EXCEPT ![r] = "running"]
  /\ expired' = [expired EXCEPT ![r] = TRUE]
  /\ cur' = [cur EXCEPT ![r] = NoJob]
  /\ expected' = [expected EXCEPT ![r] = 0]
  /\ UNCHANGED <<clock, table, now, todo, view, lost, overlapped>>

SkipJob(r) ==
  /\ pc[r] = "claim"
  /\ ~ClaimWins(r)
  /\ pc' = [pc EXCEPT ![r] = "select"]
  /\ expired' = [expired EXCEPT ![r] = TRUE]
  /\ cur' = [cur EXCEPT ![r] = NoJob]
  /\ expected' = [expected EXCEPT ![r] = 0]
  /\ UNCHANGED <<clock, table, now, todo, view, lost, overlapped>>

\* _run_job returns a completed run, a failed one, or raises (the same as failed).
FinishRun(r, outcome) ==
  /\ pc[r] = "running"
  /\ pc' = [pc EXCEPT ![r] = outcome]
  /\ UNCHANGED <<clock, table, now, todo, view, expired, cur, expected, lost, overlapped>>

\* The wall-clock budget fires inside _run_job: roll back, keep the job in hand.
InterruptRun(r) ==
  /\ r \in Budgeted
  /\ pc[r] = "running"
  /\ pc' = [pc EXCEPT ![r] = "interrupted"]
  /\ UNCHANGED <<clock, table, now, todo, view, expired, cur, expected, lost, overlapped>>

\* Mutant of Saved: the next date is counted from the date in the row.
SavedFromDueDate(row, r, delay) ==
  [row EXCEPT !.last_run_at = now[r], !.next_run_at = row.next_run_at + delay]

\* The dates save_job writes over whatever the row holds by then.
Saved(row, r, delay) == [row EXCEPT !.last_run_at = now[r], !.next_run_at = now[r] + delay]

SaveJob(r) ==
  /\ pc[r] \in {"completed", "failed"}
  /\ table' = [table EXCEPT ![cur[r]] =
                 Saved(table[cur[r]], r,
                       IF pc[r] = "completed" THEN Interval[cur[r]] ELSE Backoff(cur[r]))]
  /\ pc' = [pc EXCEPT ![r] = "select"]
  /\ cur' = [cur EXCEPT ![r] = NoJob]
  /\ UNCHANGED <<clock, now, todo, view, expired, expected, lost, overlapped>>

\* What ends a batch forgets it: the session is closed.
Leave(r) ==
  /\ pc' = [pc EXCEPT ![r] = "idle"]
  /\ now' = [now EXCEPT ![r] = 0]
  /\ todo' = [todo EXCEPT ![r] = {}]
  /\ view' = [view EXCEPT ![r] = [j \in Jobs |-> NoRow]]
  /\ expired' = [expired EXCEPT ![r] = FALSE]
  /\ cur' = [cur EXCEPT ![r] = NoJob]
  /\ expected' = [expected EXCEPT ![r] = 0]

\* Mutant of SaveInterrupted: the lease stays the last write of an interrupted job.
InterruptUnsaved(r) ==
  /\ pc[r] = "interrupted"
  /\ Leave(r)
  /\ UNCHANGED <<clock, table, lost, overlapped>>

\* The interrupted job gets the failure retry, the rest of the batch is dropped.
SaveInterrupted(r) ==
  /\ pc[r] = "interrupted"
  /\ table' = [table EXCEPT ![cur[r]] = Saved(table[cur[r]], r, Backoff(cur[r]))]
  /\ Leave(r)
  /\ UNCHANGED <<clock, lost, overlapped>>

EndBatch(r) ==
  /\ pc[r] = "select"
  /\ todo[r] = {}
  /\ Leave(r)
  /\ UNCHANGED <<clock, table, lost, overlapped>>

\* The process dies, or the budget fires outside _run_job: nothing more is saved.
LoseBatch(r) ==
  /\ pc[r] # "idle"
  /\ lost < MaxLost
  /\ lost' = lost + 1
  /\ Leave(r)
  /\ UNCHANGED <<clock, table, overlapped>>

Tick ==
  /\ clock < MaxTime
  /\ clock' = clock + 1
  /\ UNCHANGED <<table, runnerVars, lost, overlapped>>

RunnerStep(r) ==
  \/ ListDueJobs(r)
  \/ \E j \in Jobs : SelectJob(r, j)
  \/ ClaimJob(r)
  \/ SkipJob(r)
  \/ \E outcome \in {"completed", "failed"} : FinishRun(r, outcome)
  \/ InterruptRun(r)
  \/ SaveJob(r)
  \/ SaveInterrupted(r)
  \/ EndBatch(r)
  \/ LoseBatch(r)

Next ==
  \/ \E j \in Jobs, at \in StartTimes, active \in BOOLEAN : CreateJob(j, at, active)
  \/ \E j \in RefreshJobs, at \in {clock} \cup StartTimes : EnsureRefreshJob(j, at)
  \/ \E r \in Runners : RunnerStep(r)
  \/ Tick

Spec == Init /\ [][Next]_vars

------------------------------------------------------------------------------

(***************************************************************************)
(* Every variable keeps its type; a runner away from idle that is past the *)
(* selection has a job in hand, and that job exists.                       *)
(***************************************************************************)
TypeOK ==
  /\ clock \in Nat
  /\ table \in [Jobs -> Row]
  /\ pc \in [Runners -> {"idle", "select", "claim"} \cup Holding]
  /\ now \in [Runners -> Nat]
  /\ todo \in [Runners -> SUBSET Jobs]
  /\ view \in [Runners -> [Jobs -> Row]]
  /\ expired \in [Runners -> BOOLEAN]
  /\ cur \in [Runners -> Jobs \cup {NoJob}]
  /\ expected \in [Runners -> Nat]
  /\ lost \in Nat
  /\ overlapped \in SUBSET Jobs
  /\ \A r \in Runners : pc[r] \in {"claim"} \cup Holding => cur[r] \in Jobs

(***************************************************************************)
(* The lease is the row: until some claim has given a job to two runners,  *)
(* a job has at most one holder, and next_run_at is exactly the lease that *)
(* holder committed, so nothing else wrote the date of a job in progress.  *)
(***************************************************************************)
LeaseIsTheRow ==
  \A j \in Jobs \ overlapped : \A r \in Runners :
    Holds(r, j) => /\ ~HeldByOther(r, j)
                   /\ table[j].next_run_at = now[r] + Lease(j)

(***************************************************************************)
(* What the compare-and-set of claim_job is worth: the first time a job    *)
(* gets a second runner, either the lease of the first had run out, or the *)
(* claim compared next_run_at with a value its own session had just read   *)
(* again.  A claim that compares with the value list_due_jobs loaded never *)
(* takes a job from under a live lease.                                    *)
(***************************************************************************)
Claims(r) == pc[r] = "claim" /\ pc'[r] = "running"

SnapshotClaimIsExclusive ==
  [][\A r, s \in Runners :
       /\ Claims(r) /\ ~expired[r]
       /\ s # r /\ Holds(s, cur[r])
       /\ cur[r] \notin overlapped
       => now[s] + Lease(cur[r]) <= clock]_vars

(***************************************************************************)
(* No job is parked: whatever dies, is interrupted or saves late, a row's  *)
(* next_run_at is never further away than one lease from the present, so a *)
(* claimed job whose runner is gone is due again within that time.         *)
(***************************************************************************)
ParkedAtMostOneLease ==
  \A j \in Jobs : table[j].last_run_at # Never => table[j].next_run_at <= clock + Lease(j)

(***************************************************************************)
(* What test_scheduler_claim_job_is_single_winner and                      *)
(* test_scheduler_skips_already_claimed_jobs say of the claim: a job that  *)
(* another runner has claimed, and whose lease still runs, is not claimed. *)
(***************************************************************************)
ClaimIsSingleWinner ==
  [][\A r, s \in Runners :
       Claims(r) /\ s # r /\ Holds(s, cur[r]) => now[s] + Lease(cur[r]) <= clock]_vars
=============================================================================
