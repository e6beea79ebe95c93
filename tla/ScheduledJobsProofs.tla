------------------------- MODULE ScheduledJobsProofs -------------------------
(***************************************************************************)
(* Proofs about ScheduledJobs, for any jobs, runners, intervals and        *)
(* bounds.  The inductive invariant adds to the typing what a runner may   *)
(* rely on: the jobs it loaded exist and were due when it loaded them, its *)
(* `now` is not in the future, and a lease is the row it was written to.   *)
(***************************************************************************)
EXTENDS FairRefresh, TLAPS

InHand(r) == pc[r] \in {"claim"} \cup Holding

\* The rows a runner refers to exist: no insert can happen under its feet.
LoadedExist ==
  \A r \in Runners : /\ \A j \in todo[r] : table[j].created
                     /\ InHand(r) => table[cur[r]].created

\* A date a session loaded at the start of the batch has passed.
LoadedWereDue ==
  \A r \in Runners : /\ now[r] <= clock
                     /\ \A j \in todo[r] : view[r][j].next_run_at <= clock
                     /\ pc[r] = "claim" /\ ~expired[r] => expected[r] <= clock

LeaseInv == TypeOK /\ LoadedExist /\ LoadedWereDue /\ LeaseIsTheRow

------------------------------------------------------------------------------

(* The two delays of run_due_jobs are within the lease it takes. *)
LEMMA DelaysFitLease ==
  ASSUME NEW j \in Jobs
  PROVE  /\ Lease(j) \in Nat /\ Backoff(j) \in Nat
         /\ Interval[j] \in Nat
         /\ Backoff(j) <= Lease(j)
         /\ Interval[j] <= Lease(j)
  BY JobsAssumption DEF Lease, Backoff, Lesser

LEMMA InitLeaseInv == Init => LeaseInv
  <1> SUFFICES ASSUME Init PROVE LeaseInv
    OBVIOUS
  <1>1. TypeOK
    BY DEF Init, TypeOK, Row, NoRow, Never, Holding
  <1>2. LoadedExist /\ LoadedWereDue /\ LeaseIsTheRow
    BY DEF Init, LoadedExist, LoadedWereDue, LeaseIsTheRow, InHand, Holds, Holding
  <1> QED
    BY <1>1, <1>2 DEF LeaseInv

(* A row stays a row when its dates or its flag are written. *)
LEMMA RowUpdates ==
  ASSUME NEW row \in Row, NEW last \in Nat, NEW next \in Nat
  PROVE  /\ [row EXCEPT !.next_run_at = next] \in Row
         /\ [row EXCEPT !.last_run_at = last, !.next_run_at = next] \in Row
         /\ [row EXCEPT !.is_active = TRUE] \in Row
         /\ \A active \in BOOLEAN :
              [created |-> TRUE, is_active |-> active,
               last_run_at |-> Never, next_run_at |-> next] \in Row
  BY DEF Row, Never

LEMMA NoRowIsRow == NoRow \in Row
  BY DEF Row, NoRow, Never

(* A session that closes leaves its runner well typed. *)
LEMMA LeaveTyped ==
  ASSUME TypeOK, NEW r \in Runners, Leave(r)
  PROVE  /\ pc' \in [Runners -> {"idle", "select", "claim"} \cup Holding]
         /\ now' \in [Runners -> Nat]
         /\ todo' \in [Runners -> SUBSET Jobs]
         /\ view' \in [Runners -> [Jobs -> Row]]
         /\ expired' \in [Runners -> BOOLEAN]
         /\ cur' \in [Runners -> Jobs \cup {NoJob}]
         /\ expected' \in [Runners -> Nat]
         /\ \A s \in Runners : pc'[s] \in {"claim"} \cup Holding => cur'[s] \in Jobs
  <1>1. view' \in [Runners -> [Jobs -> Row]]
    <2>1. [j \in Jobs |-> NoRow] \in [Jobs -> Row]
      BY NoRowIsRow
    <2> QED
      BY <2>1 DEF Leave, TypeOK
  <1>2. \A s \in Runners : pc'[s] \in {"claim"} \cup Holding => cur'[s] \in Jobs
    BY DEF Leave, TypeOK, Holding
  <1> QED
    BY <1>1, <1>2 DEF Leave, TypeOK

(* Typing is inductive on its own: one step per action. *)
LEMMA TypeStep == TypeOK /\ [Next]_vars => TypeOK'
  <1> SUFFICES ASSUME TypeOK, [Next]_vars PROVE TypeOK'
    OBVIOUS
  <1>1. ASSUME NEW j \in Jobs, NEW at \in StartTimes, NEW active \in BOOLEAN,
               CreateJob(j, at, active)
        PROVE  TypeOK'
    <2>1. at \in Nat
      BY JobsAssumption
    <2>2. table' \in [Jobs -> Row]
      BY <1>1, <2>1, RowUpdates DEF CreateJob, TypeOK
    <2> QED
      BY <1>1, <2>2 DEF CreateJob, runnerVars, TypeOK
  <1>2. ASSUME NEW j \in RefreshJobs, NEW at \in {clock} \cup StartTimes,
               EnsureRefreshJob(j, at)
        PROVE  TypeOK'
    <2>1. at \in Nat /\ j \in Jobs /\ table[j] \in Row
      BY JobsAssumption DEF TypeOK
    <2>2. table' \in [Jobs -> Row]
      <3> DEFINE new == IF table[j].created
                        THEN [table[j] EXCEPT !.is_active = TRUE]
                        ELSE [created |-> TRUE, is_active |-> TRUE,
                              last_run_at |-> Never, next_run_at |-> at]
      <3>1. new \in Row
        BY <2>1, RowUpdates
      <3>2. table' = [table EXCEPT ![j] = new]
        BY <1>2 DEF EnsureRefreshJob
      <3> HIDE DEF new
      <3> QED
        BY <3>1, <3>2 DEF TypeOK
    <2> QED
      BY <1>2, <2>2 DEF EnsureRefreshJob, runnerVars, TypeOK
  <1>3. ASSUME NEW r \in Runners, ListDueJobs(r) PROVE TypeOK'
    <2>1. [j \in Jobs |-> IF Due(j) THEN table[j] ELSE NoRow] \in [Jobs -> Row]
      BY NoRowIsRow DEF TypeOK
    <2> QED
      BY <1>3, <2>1 DEF ListDueJobs, TypeOK, Holding
  <1>4. ASSUME NEW r \in Runners, NEW j \in Jobs, SelectJob(r, j) PROVE TypeOK'
    <2>1. expected' \in [Runners -> Nat]
      BY <1>4 DEF SelectJob, TypeOK, Row
    <2>2. view' \in [Runners -> [Jobs -> Row]]
      BY <1>4, NoRowIsRow DEF SelectJob, TypeOK
    <2> QED
      BY <1>4, <2>1, <2>2 DEF SelectJob, TypeOK, Holding
  <1>5. ASSUME NEW r \in Runners, ClaimJob(r) PROVE TypeOK'
    <2>1. cur[r] \in Jobs
      BY <1>5 DEF ClaimJob, TypeOK
    <2>2. now[r] + Lease(cur[r]) \in Nat
      BY <2>1, DelaysFitLease DEF TypeOK
    <2>3. table' \in [Jobs -> Row]
      BY <1>5, <2>1, <2>2, RowUpdates DEF ClaimJob, TypeOK
    <2> QED
      BY <1>5, <2>1, <2>3 DEF ClaimJob, TypeOK, Holding
  <1>6. ASSUME NEW r \in Runners, SkipJob(r) PROVE TypeOK'
    BY <1>6 DEF SkipJob, TypeOK, Holding
  <1>7. ASSUME NEW r \in Runners, NEW outcome \in {"completed", "failed"},
               FinishRun(r, outcome)
        PROVE  TypeOK'
    BY <1>7 DEF FinishRun, TypeOK, Holding
  <1>8. ASSUME NEW r \in Runners, InterruptRun(r) PROVE TypeOK'
    BY <1>8 DEF InterruptRun, TypeOK, Holding
  <1>9. ASSUME NEW r \in Runners, SaveJob(r) PROVE TypeOK'
    <2>1. cur[r] \in Jobs /\ now[r] \in Nat
      BY <1>9 DEF SaveJob, TypeOK, Holding
    <2>2. now[r] + Interval[cur[r]] \in Nat /\ now[r] + Backoff(cur[r]) \in Nat
      BY <2>1, DelaysFitLease
    <2>3. \A d \in {Interval[cur[r]], Backoff(cur[r])} : Saved(table[cur[r]], r, d) \in Row
      BY <2>1, <2>2, RowUpdates DEF Saved, TypeOK
    <2>4. table' \in [Jobs -> Row]
      BY <1>9, <2>1, <2>3 DEF SaveJob, TypeOK
    <2> QED
      BY <1>9, <2>4 DEF SaveJob, TypeOK, Holding
  <1>10. ASSUME NEW r \in Runners, SaveInterrupted(r) PROVE TypeOK'
    <2>1. cur[r] \in Jobs /\ now[r] \in Nat
      BY <1>10 DEF SaveInterrupted, TypeOK, Holding
    <2>2. now[r] + Backoff(cur[r]) \in Nat
      BY <2>1, DelaysFitLease
    <2>3. table' \in [Jobs -> Row]
      <3>1. Saved(table[cur[r]], r, Backoff(cur[r])) \in Row
        BY <2>1, <2>2, RowUpdates DEF Saved, TypeOK
      <3> QED
        BY <1>10, <2>1, <3>1 DEF SaveInterrupted, TypeOK
    <2> QED
      BY <1>10, <2>3, LeaveTyped DEF SaveInterrupted, TypeOK
  <1>11. ASSUME NEW r \in Runners, EndBatch(r) PROVE TypeOK'
    BY <1>11, LeaveTyped DEF EndBatch, TypeOK
  <1>12. ASSUME NEW r \in Runners, LoseBatch(r) PROVE TypeOK'
    BY <1>12, LeaveTyped DEF LoseBatch, TypeOK
  <1>13. CASE Tick
    BY <1>13 DEF Tick, runnerVars, TypeOK
  <1>14. CASE UNCHANGED vars
    BY <1>14 DEF vars, TypeOK
  <1> QED
    BY <1>1, <1>2, <1>3, <1>4, <1>5, <1>6, <1>7, <1>8, <1>9, <1>10, <1>11, <1>12, <1>13, <1>14
       DEF Next, RunnerStep

------------------------------------------------------------------------------

(* Rows are never deleted. *)
LEMMA RowsStay ==
  ASSUME TypeOK, [Next]_vars, NEW j \in Jobs, table[j].created
  PROVE  table'[j].created
  <1>1. ASSUME NEW k \in Jobs, NEW at, NEW active, CreateJob(k, at, active)
        PROVE  table'[j].created
    BY <1>1 DEF CreateJob, TypeOK
  <1>2. ASSUME NEW k \in RefreshJobs, NEW at, EnsureRefreshJob(k, at)
        PROVE  table'[j].created
    <2>1. k \in Jobs
      BY JobsAssumption
    <2> QED
      BY <1>2, <2>1 DEF EnsureRefreshJob, TypeOK, Row
  <1>3. ASSUME NEW r \in Runners, ClaimJob(r) PROVE table'[j].created
    BY <1>3 DEF ClaimJob, TypeOK, Row
  <1>4. ASSUME NEW r \in Runners, SaveJob(r) \/ SaveInterrupted(r)
        PROVE  table'[j].created
    <2>1. cur[r] \in Jobs
      BY <1>4 DEF SaveJob, SaveInterrupted, TypeOK, Holding
    <2>2. \A d \in Nat : Saved(table[cur[r]], r, d).created = table[cur[r]].created
      BY <2>1 DEF Saved, TypeOK, Row
    <2>3. Interval[cur[r]] \in Nat /\ Backoff(cur[r]) \in Nat
      BY <2>1, DelaysFitLease
    <2> QED
      BY <1>4, <2>1, <2>2, <2>3 DEF SaveJob, SaveInterrupted, TypeOK
  <1>5. ASSUME UNCHANGED table PROVE table'[j].created
    BY <1>5
  <1> QED
    BY <1>1, <1>2, <1>3, <1>4, <1>5
       DEF Next, RunnerStep, vars, ListDueJobs, SelectJob, SkipJob, FinishRun, InterruptRun,
           EndBatch, LoseBatch, Tick

LEMMA LoadedExistStep ==
  TypeOK /\ LoadedExist /\ [Next]_vars => LoadedExist'
  <1> SUFFICES ASSUME TypeOK, LoadedExist, [Next]_vars, NEW s \in Runners
               PROVE  /\ \A j \in todo'[s] : table'[j].created
                      /\ InHand(s)' => table'[cur'[s]].created
    BY DEF LoadedExist
  <1>0. /\ \A j \in todo[s] : table'[j].created
        /\ InHand(s) => table'[cur[s]].created
    BY RowsStay DEF TypeOK, LoadedExist, InHand
  <1>1. ASSUME NEW r \in Runners, ListDueJobs(r)
        PROVE  /\ \A j \in todo'[s] : table'[j].created
               /\ InHand(s)' => table'[cur'[s]].created
    BY <1>0, <1>1 DEF ListDueJobs, Due, TypeOK, InHand, Holding
  <1>2. ASSUME NEW r \in Runners, NEW j \in Jobs, SelectJob(r, j)
        PROVE  /\ \A k \in todo'[s] : table'[k].created
               /\ InHand(s)' => table'[cur'[s]].created
    BY <1>0, <1>2 DEF SelectJob, Fairest, TypeOK, InHand, Holding, LoadedExist
  <1>3. ASSUME NEW r \in Runners,
               \/ ClaimJob(r) \/ SkipJob(r) \/ InterruptRun(r) \/ SaveJob(r)
               \/ \E outcome \in {"completed", "failed"} : FinishRun(r, outcome)
        PROVE  /\ \A j \in todo'[s] : table'[j].created
               /\ InHand(s)' => table'[cur'[s]].created
    BY <1>0, <1>3 DEF ClaimJob, SkipJob, InterruptRun, SaveJob, FinishRun, TypeOK, InHand, Holding
  <1>4. ASSUME NEW r \in Runners, SaveInterrupted(r) \/ EndBatch(r) \/ LoseBatch(r)
        PROVE  /\ \A j \in todo'[s] : table'[j].created
               /\ InHand(s)' => table'[cur'[s]].created
    BY <1>0, <1>4 DEF SaveInterrupted, EndBatch, LoseBatch, Leave, TypeOK, InHand, Holding
  <1>5. ASSUME UNCHANGED runnerVars
        PROVE  /\ \A j \in todo'[s] : table'[j].created
               /\ InHand(s)' => table'[cur'[s]].created
    BY <1>0, <1>5 DEF runnerVars, InHand
  <1> QED
    BY <1>1, <1>2, <1>3, <1>4, <1>5
       DEF Next, RunnerStep, CreateJob, EnsureRefreshJob, Tick, vars, runnerVars

(* The clock never goes back, so what was due when loaded has passed. *)
LEMMA LoadedWereDueStep ==
  TypeOK /\ LoadedWereDue /\ [Next]_vars => LoadedWereDue'
  <1> SUFFICES ASSUME TypeOK, LoadedWereDue, [Next]_vars
               PROVE  LoadedWereDue'
    OBVIOUS
  <1> USE DEF TypeOK, LoadedWereDue
  <1>1. ASSUME NEW r \in Runners, ListDueJobs(r) PROVE LoadedWereDue'
    <2>1. \A j \in todo'[r] : view'[r][j].next_run_at <= clock'
      BY <1>1 DEF ListDueJobs, Due
    <2> QED
      BY <1>1, <2>1 DEF ListDueJobs
  <1>2. ASSUME NEW r \in Runners, NEW j \in Jobs, SelectJob(r, j) PROVE LoadedWereDue'
    BY <1>2 DEF SelectJob, Fairest
  <1>3. ASSUME NEW r \in Runners,
               \/ ClaimJob(r) \/ SkipJob(r) \/ InterruptRun(r) \/ SaveJob(r)
               \/ \E outcome \in {"completed", "failed"} : FinishRun(r, outcome)
        PROVE  LoadedWereDue'
    BY <1>3 DEF ClaimJob, SkipJob, InterruptRun, SaveJob, FinishRun
  <1>4. ASSUME NEW r \in Runners, SaveInterrupted(r) \/ EndBatch(r) \/ LoseBatch(r)
        PROVE  LoadedWereDue'
    BY <1>4 DEF SaveInterrupted, EndBatch, LoseBatch, Leave
  <1>5. CASE Tick
    BY <1>5 DEF Tick, runnerVars, Row
  <1>6. ASSUME UNCHANGED runnerVars, UNCHANGED clock PROVE LoadedWereDue'
    BY <1>6 DEF runnerVars
  <1> QED
    BY <1>1, <1>2, <1>3, <1>4, <1>5, <1>6
       DEF Next, RunnerStep, CreateJob, EnsureRefreshJob, vars, runnerVars

------------------------------------------------------------------------------

(* Two runners that hold the same job make it a job held by another. *)
LEMMA NotHeldByOther ==
  ASSUME NEW r \in Runners, NEW s \in Runners, NEW j, s # r, ~HeldByOther(r, j)
  PROVE  ~Holds(s, j)
  BY DEF HeldByOther

(* A step that writes no row in anyone's hands and hands out no job keeps  *)
(* every lease.                                                            *)
LEMMA LeaseKept ==
  ASSUME LeaseIsTheRow,
         \A r \in Runners, j \in Jobs : Holds(r, j)' => Holds(r, j) /\ now'[r] = now[r],
         \A j \in Jobs : (\E r \in Runners : Holds(r, j)') =>
            table'[j].next_run_at = table[j].next_run_at,
         overlapped' = overlapped
  PROVE  LeaseIsTheRow'
  BY DEF LeaseIsTheRow, HeldByOther

LEMMA LeaseStep ==
  TypeOK /\ LoadedExist /\ LeaseIsTheRow /\ [Next]_vars => LeaseIsTheRow'
  <1> SUFFICES ASSUME TypeOK, LoadedExist, LeaseIsTheRow, [Next]_vars
               PROVE  LeaseIsTheRow'
    OBVIOUS
  <1>1. ASSUME NEW j \in Jobs, NEW at, NEW active, CreateJob(j, at, active)
        PROVE  LeaseIsTheRow'
    <2>1. \A r \in Runners : ~Holds(r, j)
      BY <1>1 DEF CreateJob, LoadedExist, InHand, Holds
    <2> QED
      BY <1>1, <2>1, LeaseKept DEF CreateJob, runnerVars, Holds, TypeOK
  <1>2. ASSUME NEW j \in RefreshJobs, NEW at, EnsureRefreshJob(j, at)
        PROVE  LeaseIsTheRow'
    <2>1. j \in Jobs
      BY JobsAssumption
    <2>2. \A r \in Runners : Holds(r, j) => table[j].created
      BY DEF LoadedExist, InHand, Holds
    <2>3. table[j].created => table'[j].next_run_at = table[j].next_run_at
      BY <1>2, <2>1 DEF EnsureRefreshJob, TypeOK, Row
    <2>4. \A k \in Jobs : k # j => table'[k] = table[k]
      BY <1>2, <2>1 DEF EnsureRefreshJob, TypeOK
    <2> QED
      BY <1>2, <2>2, <2>3, <2>4, LeaseKept DEF EnsureRefreshJob, runnerVars, Holds
  <1>3. ASSUME NEW r \in Runners,
               \/ ListDueJobs(r) \/ SkipJob(r) \/ InterruptRun(r)
               \/ EndBatch(r) \/ LoseBatch(r)
               \/ \E j \in Jobs : SelectJob(r, j)
               \/ \E outcome \in {"completed", "failed"} : FinishRun(r, outcome)
        PROVE  LeaseIsTheRow'
    <2>1. \A s \in Runners, j \in Jobs : Holds(s, j)' => Holds(s, j) /\ now'[s] = now[s]
      BY <1>3 DEF ListDueJobs, SkipJob, InterruptRun, EndBatch, LoseBatch, Leave, SelectJob,
                  FinishRun, Holds, Holding, TypeOK
    <2>2. table' = table /\ overlapped' = overlapped
      BY <1>3 DEF ListDueJobs, SkipJob, InterruptRun, EndBatch, LoseBatch, SelectJob, FinishRun
    <2> QED
      BY <2>1, <2>2, LeaseKept
  <1>4. ASSUME NEW r \in Runners, SaveJob(r) \/ SaveInterrupted(r)
        PROVE  LeaseIsTheRow'
    <2>0. PICK j \in Jobs : j = cur[r]
      BY <1>4 DEF SaveJob, SaveInterrupted, Holding, TypeOK
    <2>1. Holds(r, j)
      BY <1>4, <2>0 DEF SaveJob, SaveInterrupted, Holds, Holding
    <2>2. \A s \in Runners, k \in Jobs : Holds(s, k)' => s # r /\ Holds(s, k) /\ now'[s] = now[s]
      BY <1>4 DEF SaveJob, SaveInterrupted, Leave, Holds, Holding, TypeOK
    <2>3. \A k \in Jobs : k # j => table'[k] = table[k]
      BY <1>4, <2>0 DEF SaveJob, SaveInterrupted, TypeOK
    <2>4. overlapped' = overlapped
      BY <1>4 DEF SaveJob, SaveInterrupted
    <2>5. j \notin overlapped => \A s \in Runners : ~Holds(s, j)'
      <3>1. SUFFICES ASSUME j \notin overlapped, NEW s \in Runners, Holds(s, j)'
                     PROVE  FALSE
        OBVIOUS
      <3>2. s # r /\ Holds(s, j)
        BY <2>2, <3>1
      <3>3. ~HeldByOther(r, j)
        BY <2>1, <3>1 DEF LeaseIsTheRow
      <3> QED
        BY <3>2, <3>3 DEF HeldByOther
    <2> QED
      BY <2>2, <2>3, <2>4, <2>5 DEF LeaseIsTheRow, HeldByOther
  <1>5. ASSUME NEW r \in Runners, ClaimJob(r) PROVE LeaseIsTheRow'
    <2> DEFINE j == cur[r]
    <2>1. j \in Jobs
      BY <1>5 DEF ClaimJob, TypeOK
    <2>2. \A s \in Runners, k \in Jobs : s # r => (Holds(s, k)' <=> Holds(s, k))
      BY <1>5 DEF ClaimJob, Holds, TypeOK
    <2>3. \A k \in Jobs : Holds(r, k)' => k = j
      BY <1>5 DEF ClaimJob, Holds, TypeOK
    <2>4. table'[j].next_run_at = now[r] + Lease(j) /\ now' = now
      BY <1>5, <2>1 DEF ClaimJob, TypeOK, Row
    <2>5. \A k \in Jobs : k # j => table'[k] = table[k]
      BY <1>5, <2>1 DEF ClaimJob, TypeOK
    <2>6. \A k \in Jobs \ overlapped' : k \notin overlapped /\ (k = j => ~HeldByOther(r, j))
      BY <1>5 DEF ClaimJob
    <2> HIDE DEF j
    <2>7. SUFFICES ASSUME NEW k \in Jobs \ overlapped', NEW s \in Runners, Holds(s, k)'
                   PROVE  /\ ~HeldByOther(s, k)'
                          /\ table'[k].next_run_at = now'[s] + Lease(k)
      BY DEF LeaseIsTheRow
    <2>8. CASE k = j
      <3>1. s = r
        BY <2>2, <2>6, <2>7, <2>8 DEF HeldByOther
      <3> QED
        BY <2>2, <2>4, <2>6, <2>8, <3>1 DEF HeldByOther
    <2>9. CASE k # j
      <3>1. s # r /\ Holds(s, k)
        BY <2>2, <2>3, <2>7, <2>9
      <3>2. ~HeldByOther(s, k) /\ table[k].next_run_at = now[s] + Lease(k)
        BY <2>6, <3>1 DEF LeaseIsTheRow
      <3> QED
        BY <2>2, <2>3, <2>4, <2>5, <2>9, <3>2 DEF HeldByOther
    <2> QED
      BY <2>8, <2>9
  <1>6. ASSUME UNCHANGED <<table, runnerVars, overlapped>> PROVE LeaseIsTheRow'
    BY <1>6, LeaseKept DEF runnerVars, Holds
  <1> QED
    BY <1>1, <1>2, <1>3, <1>4, <1>5, <1>6 DEF Next, RunnerStep, Tick, vars, runnerVars

------------------------------------------------------------------------------

LEMMA LeaseInvariant == Spec => []LeaseInv
  <1>1. LeaseInv /\ [Next]_vars => LeaseInv'
    BY TypeStep, LoadedExistStep, LoadedWereDueStep, LeaseStep DEF LeaseInv
  <1> QED
    BY InitLeaseInv, <1>1, PTL DEF Spec

(* The rows and the runners keep their types, and a runner past the        *)
(* selection always has a job in hand.                                     *)
THEOREM TypeCorrect == Spec => []TypeOK
  BY LeaseInvariant, PTL DEF LeaseInv

(* While a job has had one runner at a time, its next_run_at is the lease  *)
(* claim_job committed for its only holder.                                *)
THEOREM LeaseIsTheRowHolds == Spec => []LeaseIsTheRow
  BY LeaseInvariant, PTL DEF LeaseInv

(* A claim that compares with the date list_due_jobs loaded never takes a  *)
(* job from under a live lease: the lease is the row, the compared date    *)
(* has passed, and the two are equal.                                      *)
THEOREM SnapshotClaimsAreExclusive == Spec => SnapshotClaimIsExclusive
  <1>1. LeaseInv /\ [Next]_vars =>
          [\A r, s \in Runners :
             /\ Claims(r) /\ ~expired[r]
             /\ s # r /\ Holds(s, cur[r])
             /\ cur[r] \notin overlapped
             => now[s] + Lease(cur[r]) <= clock]_vars
    <2> SUFFICES ASSUME LeaseInv, Next,
                        NEW r \in Runners, NEW s \in Runners,
                        Claims(r), ~expired[r], s # r, Holds(s, cur[r]),
                        cur[r] \notin overlapped
                 PROVE  now[s] + Lease(cur[r]) <= clock
      OBVIOUS
    <2>1. cur[r] \in Jobs /\ pc[r] = "claim"
      BY DEF LeaseInv, TypeOK, Claims
    <2>2. table[cur[r]].next_run_at = now[s] + Lease(cur[r])
      BY <2>1 DEF LeaseInv, LeaseIsTheRow
    <2>3. ClaimWins(r)
      BY ZenonT(60) DEF Claims, Next, RunnerStep, CreateJob, EnsureRefreshJob, ListDueJobs, SelectJob,
             ClaimJob, SkipJob, FinishRun, InterruptRun, SaveJob, SaveInterrupted, EndBatch,
             LoseBatch, Leave, Tick, runnerVars, LeaseInv, TypeOK
    <2>4. expected[r] <= clock
      BY <2>1 DEF LeaseInv, LoadedWereDue
    <2> QED
      BY <2>2, <2>3, <2>4 DEF ClaimWins
  <1> QED
    BY LeaseInvariant, <1>1, PTL DEF Spec, SnapshotClaimIsExclusive

------------------------------------------------------------------------------

(* Every date a runner writes is at most one lease after its `now`, which  *)
(* is not in the future.                                                   *)
LEMMA ParkedStep ==
  LeaseInv /\ ParkedAtMostOneLease /\ [Next]_vars => ParkedAtMostOneLease'
  <1> SUFFICES ASSUME LeaseInv, ParkedAtMostOneLease, [Next]_vars, NEW j \in Jobs,
                      table'[j].last_run_at # Never
               PROVE  table'[j].next_run_at <= clock' + Lease(j)
    BY DEF ParkedAtMostOneLease
  <1>1. /\ table \in [Jobs -> Row] /\ clock \in Nat /\ now \in [Runners -> Nat]
        /\ \A r \in Runners : now[r] <= clock
        /\ table[j].last_run_at # Never => table[j].next_run_at <= clock + Lease(j)
    BY DEF LeaseInv, TypeOK, LoadedWereDue, ParkedAtMostOneLease
  <1>2. Lease(j) \in Nat /\ Interval[j] \in Nat /\ Backoff(j) \in Nat
        /\ Interval[j] <= Lease(j) /\ Backoff(j) <= Lease(j)
    BY DelaysFitLease
  <1>3. ASSUME NEW k \in Jobs, NEW at, NEW active, CreateJob(k, at, active)
        PROVE  table'[j].next_run_at <= clock' + Lease(j)
    BY <1>1, <1>3 DEF CreateJob
  <1>4. ASSUME NEW k \in RefreshJobs, NEW at, EnsureRefreshJob(k, at)
        PROVE  table'[j].next_run_at <= clock' + Lease(j)
    <2>1. table'[j] = table[j] \/ table'[j] = [table[j] EXCEPT !.is_active = TRUE]
          \/ table'[j].last_run_at = Never
      BY <1>1, <1>4 DEF EnsureRefreshJob
    <2>2. table'[j].last_run_at = table[j].last_run_at /\ table'[j].next_run_at = table[j].next_run_at
      BY <1>1, <2>1 DEF Row
    <2> QED
      BY <1>1, <1>4, <2>2 DEF EnsureRefreshJob
  <1>5. ASSUME NEW r \in Runners, ClaimJob(r)
        PROVE  table'[j].next_run_at <= clock' + Lease(j)
    <2>1. CASE cur[r] = j
      <3>1. table'[j].next_run_at = now[r] + Lease(j)
        BY <1>1, <1>5, <2>1 DEF ClaimJob, Row
      <3> QED
        BY <1>1, <1>2, <1>5, <3>1 DEF ClaimJob
    <2>2. CASE cur[r] # j
      BY <1>1, <1>5, <2>2 DEF ClaimJob
    <2> QED
      BY <2>1, <2>2
  <1>6. ASSUME NEW r \in Runners, SaveJob(r) \/ SaveInterrupted(r)
        PROVE  table'[j].next_run_at <= clock' + Lease(j)
    <2>1. CASE cur[r] = j
      <3>1. \E d \in {Interval[j], Backoff(j)} : table'[j].next_run_at = now[r] + d
        BY <1>1, <1>6, <2>1, ZenonT(60) DEF SaveJob, SaveInterrupted, Saved, Row
      <3> QED
        BY <1>1, <1>2, <1>6, <3>1 DEF SaveJob, SaveInterrupted
    <2>2. CASE cur[r] # j
      BY <1>1, <1>6, <2>2 DEF SaveJob, SaveInterrupted
    <2> QED
      BY <2>1, <2>2
  <1>7. ASSUME UNCHANGED table, clock' = clock \/ clock' = clock + 1
        PROVE  table'[j].next_run_at <= clock' + Lease(j)
    BY <1>1, <1>2, <1>7 DEF Row
  <1> QED
    BY <1>3, <1>4, <1>5, <1>6, <1>7
       DEF Next, RunnerStep, ListDueJobs, SelectJob, SkipJob, FinishRun, InterruptRun,
           EndBatch, LoseBatch, Tick, vars

(* Whatever a runner does, dies of or is interrupted by, a job that has    *)
(* run is due again at most one lease from now.                            *)
THEOREM ParkedAtMostOneLeaseHolds == Spec => []ParkedAtMostOneLease
  <1>1. Init => ParkedAtMostOneLease
    BY DEF Init, ParkedAtMostOneLease, NoRow
  <1> QED
    BY LeaseInvariant, ParkedStep, <1>1, PTL DEF Spec

------------------------------------------------------------------------------
(***************************************************************************)
(* No source starves, for one worker and delays of a minute or more: the   *)
(* hypotheses of the theorem at the end.                                   *)
(***************************************************************************)

Worker == CHOOSE r \in Runners : TRUE
OneWorker == Runners = {Worker}

\* ScheduledIngestionJobCreateRequest refuses an interval below one minute.
Delayed == (\A j \in Jobs : Interval[j] > 0) /\ RetryBackoff > 0

\* A job that has run is due only after that run, and no date is ahead of its batch.
DatesInv ==
  /\ \A j \in Jobs : /\ table[j].last_run_at < table[j].next_run_at
                     /\ table[j].last_run_at <= clock
                     /\ ~table[j].created => table[j].last_run_at = Never
                     /\ pc[Worker] # "idle" => table[j].last_run_at <= now[Worker]

\* What the only session loaded is what the rows still say, so that its claims win.
BatchInv ==
  /\ pc[Worker] = "idle" => todo[Worker] = {}
  /\ \A j \in todo[Worker] : /\ view[Worker][j].last_run_at = table[j].last_run_at
                             /\ view[Worker][j].next_run_at = table[j].next_run_at
                             /\ table[j].next_run_at <= now[Worker]
                             /\ table[j].is_active
  /\ InHand(Worker) => cur[Worker] \notin todo[Worker]
  /\ pc[Worker] = "claim" => /\ expected[Worker] = table[cur[Worker]].next_run_at
                             /\ table[cur[Worker]].is_active

\* When k last ran, counting the run in hand.
LastRun(k) == IF Holds(Worker, k) THEN now[Worker] ELSE table[k].last_run_at

\* The batch in progress may still claim k before it claims j.
Ahead(j, k) ==
  \/ pc[Worker] = "claim" /\ cur[Worker] = k
  \/ k \in todo[Worker] /\ j \notin todo[Worker] /\ ~(pc[Worker] = "claim" /\ cur[Worker] = j)
  \/ k \in todo[Worker] /\ j \in todo[Worker] /\ Before(view[Worker][k], view[Worker][j])

\* How often k may have passed j, by what k can still do: two claims are left when the
\* batch does not hold j and k will only tie with it, one when k is ahead or is not later
\* than j, none otherwise.  A batch that died may have forgotten one claim.
PassedInv ==
  /\ passed \in [Jobs -> [Jobs -> Nat]]
  /\ \A j, k \in Jobs : j # k =>
       /\ /\ Ahead(j, k) /\ j \notin todo[Worker]
          /\ now[Worker] <= table[j].last_run_at
          => passed[j][k] <= lost
       /\ Ahead(j, k) \/ LastRun(k) <= table[j].last_run_at => passed[j][k] <= 1 + lost
       /\ passed[j][k] <= 2 + lost
  /\ \A j \in Jobs : passed[j][j] = 0

FairInv == LeaseInv /\ DatesInv /\ BatchInv /\ PassedInv

(* The typing facts of the only runner, in the form the steps below use.   *)
LEMMA WorkerTyped ==
  ASSUME OneWorker, TypeOK
  PROVE  /\ Worker \in Runners /\ \A r \in Runners : r = Worker
         /\ table \in [Jobs -> Row] /\ clock \in Nat /\ now[Worker] \in Nat /\ lost \in Nat
         /\ todo[Worker] \subseteq Jobs /\ expected[Worker] \in Nat
         /\ InHand(Worker) => cur[Worker] \in Jobs
         /\ view[Worker] \in [Jobs -> Row]
         /\ \A j \in Jobs : /\ table[j].last_run_at \in Int /\ table[j].next_run_at \in Nat
                            /\ view[Worker][j].last_run_at \in Int
                            /\ view[Worker][j].next_run_at \in Nat
  BY DEF OneWorker, TypeOK, InHand, Row, Never

(* What a step does to the rows, as DatesInv sees it. *)
LEMMA DatesStep ==
  ASSUME OneWorker, Delayed, LeaseInv, DatesInv, BatchInv, [Next]_vars
  PROVE  DatesInv'
  <1>1. /\ Worker \in Runners /\ \A r \in Runners : r = Worker
        /\ table \in [Jobs -> Row] /\ clock \in Nat /\ now[Worker] \in Nat
        /\ todo[Worker] \subseteq Jobs
        /\ InHand(Worker) => cur[Worker] \in Jobs
        /\ \A j \in Jobs : table[j].last_run_at \in Int /\ table[j].next_run_at \in Nat
    BY WorkerTyped DEF LeaseInv
  <1>2. now[Worker] <= clock /\ now \in [Runners -> Nat] /\ pc \in [Runners -> {"idle", "select", "claim"} \cup Holding]
    BY <1>1 DEF LeaseInv, LoadedWereDue, TypeOK
  <1>3. InHand(Worker) => table[cur[Worker]].created
    BY <1>1 DEF LeaseInv, LoadedExist
  <1>4. \A j \in Jobs : /\ Lease(j) \in Nat /\ Lease(j) > 0 /\ Backoff(j) \in Nat /\ Backoff(j) > 0
                        /\ Interval[j] \in Nat /\ Interval[j] > 0
    BY JobsAssumption DEF Delayed, Lease, Backoff, Lesser
  <1> SUFFICES ASSUME NEW j \in Jobs
               PROVE  /\ table'[j].last_run_at < table'[j].next_run_at
                      /\ table'[j].last_run_at <= clock'
                      /\ ~table'[j].created => table'[j].last_run_at = Never
                      /\ pc'[Worker] # "idle" => table'[j].last_run_at <= now'[Worker]
    BY DEF DatesInv
  <1> DEFINE Goal == /\ table'[j].last_run_at < table'[j].next_run_at
                     /\ table'[j].last_run_at <= clock'
                     /\ ~table'[j].created => table'[j].last_run_at = Never
                     /\ pc'[Worker] # "idle" => table'[j].last_run_at <= now'[Worker]
  <1>5. /\ table[j].last_run_at < table[j].next_run_at
        /\ table[j].last_run_at <= clock
        /\ ~table[j].created => table[j].last_run_at = Never
        /\ pc[Worker] # "idle" => table[j].last_run_at <= now[Worker]
    BY DEF DatesInv
  <1>6. ASSUME NEW k \in Jobs, NEW at \in StartTimes, NEW active, CreateJob(k, at, active)
        PROVE  Goal
    <2>1. at \in Nat
      BY JobsAssumption
    <2>2. table'[j] = table[j] \/ table'[j] = [created |-> TRUE, is_active |-> active,
                                               last_run_at |-> Never, next_run_at |-> at]
      BY <1>1, <1>6 DEF CreateJob
    <2>3. pc' = pc /\ now' = now /\ clock' = clock
      BY <1>6 DEF CreateJob, runnerVars
    <2> QED
      BY <1>1, <1>5, <2>1, <2>2, <2>3 DEF Never
  <1>7. ASSUME NEW k \in RefreshJobs, NEW at \in {clock} \cup StartTimes, EnsureRefreshJob(k, at)
        PROVE  Goal
    <2>1. at \in Nat /\ k \in Jobs
      BY <1>1, JobsAssumption
    <2>2. \/ table'[j] = table[j]
          \/ table[j].created /\ table'[j] = [table[j] EXCEPT !.is_active = TRUE]
          \/ table'[j] = [created |-> TRUE, is_active |-> TRUE,
                          last_run_at |-> Never, next_run_at |-> at]
      BY <1>1, <1>7, <2>1 DEF EnsureRefreshJob
    <2>3. pc' = pc /\ now' = now /\ clock' = clock
      BY <1>7 DEF EnsureRefreshJob, runnerVars
    <2>4. table[j] \in Row
      BY <1>1
    <2>5. CASE table[j].created /\ table'[j] = [table[j] EXCEPT !.is_active = TRUE]
      BY <1>5, <2>3, <2>4, <2>5 DEF Row
    <2> QED
      BY <1>1, <1>5, <2>1, <2>2, <2>3, <2>5 DEF Never
  <1>8. ASSUME ListDueJobs(Worker) PROVE Goal
    BY <1>1, <1>2, <1>5, <1>8 DEF ListDueJobs
  <1>9. ASSUME ClaimJob(Worker) PROVE Goal
    <2>1. cur[Worker] \in Jobs /\ table[cur[Worker]].created /\ table[j] \in Row
      BY <1>1, <1>3, <1>9 DEF ClaimJob, InHand
    <2>2. CASE cur[Worker] = j
      <3>1. table'[j] = [table[j] EXCEPT !.next_run_at = now[Worker] + Lease(j)]
        BY <1>1, <1>9, <2>2 DEF ClaimJob
      <3>2. /\ table'[j].last_run_at = table[j].last_run_at /\ table'[j].created = table[j].created
            /\ table'[j].next_run_at = now[Worker] + Lease(j)
        BY <2>1, <3>1 DEF Row
      <3> QED
        BY <1>1, <1>4, <1>5, <1>9, <3>2 DEF ClaimJob
    <2>3. CASE cur[Worker] # j
      BY <1>1, <1>5, <1>9, <2>3 DEF ClaimJob
    <2> QED
      BY <2>2, <2>3
  <1>10. ASSUME SaveJob(Worker) \/ SaveInterrupted(Worker) PROVE Goal
    <2>1. cur[Worker] \in Jobs /\ table[cur[Worker]].created /\ table[j] \in Row
      BY <1>1, <1>3, <1>10 DEF SaveJob, SaveInterrupted, InHand, Holding
    <2>2. CASE cur[Worker] = j
      <3>1. \E d \in {Interval[j], Backoff(j)} :
              table'[j] = [table[j] EXCEPT !.last_run_at = now[Worker], !.next_run_at = now[Worker] + d]
        BY <1>1, <1>10, <2>2 DEF SaveJob, SaveInterrupted, Saved
      <3>2. /\ table'[j].last_run_at = now[Worker] /\ table'[j].created
            /\ \E d \in {Interval[j], Backoff(j)} : table'[j].next_run_at = now[Worker] + d
        BY <2>1, <2>2, <3>1 DEF Row
      <3>3. clock' = clock /\ (pc'[Worker] # "idle" => now'[Worker] = now[Worker])
        BY <1>1, <1>2, <1>10 DEF SaveJob, SaveInterrupted, Leave
      <3> QED
        BY <1>1, <1>2, <1>4, <3>2, <3>3
    <2>3. CASE cur[Worker] # j
      <3>1. table'[j] = table[j]
        BY <1>1, <1>10, <2>3 DEF SaveJob, SaveInterrupted
      <3>2. clock' = clock /\ (pc'[Worker] # "idle" => now'[Worker] = now[Worker] /\ pc[Worker] # "idle")
        BY <1>1, <1>2, <1>10 DEF SaveJob, SaveInterrupted, Leave
      <3> QED
        BY <1>5, <3>1, <3>2
    <2> QED
      BY <2>2, <2>3
  <1>11. ASSUME \/ \E k \in Jobs : SelectJob(Worker, k)
                \/ SkipJob(Worker) \/ InterruptRun(Worker) \/ EndBatch(Worker) \/ LoseBatch(Worker)
                \/ \E outcome \in {"completed", "failed"} : FinishRun(Worker, outcome)
         PROVE  Goal
    <2>1. table' = table /\ clock' = clock
      BY <1>11 DEF SelectJob, SkipJob, InterruptRun, EndBatch, LoseBatch, FinishRun
    <2>2. pc'[Worker] # "idle" => now'[Worker] = now[Worker] /\ pc[Worker] # "idle"
      BY <1>1, <1>2, <1>11
         DEF SelectJob, SkipJob, InterruptRun, EndBatch, LoseBatch, FinishRun, Leave
    <2> QED
      BY <1>5, <2>1, <2>2
  <1>12. CASE Tick
    BY <1>1, <1>5, <1>12 DEF Tick, runnerVars
  <1>13. CASE UNCHANGED vars
    BY <1>5, <1>13 DEF vars
  <1> QED
    BY <1>1, <1>6, <1>7, <1>8, <1>9, <1>10, <1>11, <1>12, <1>13 DEF Next, RunnerStep

(* A step that writes no row of the batch leaves it as it was loaded. *)
LEMMA BatchKept ==
  ASSUME BatchInv,
         UNCHANGED <<pc[Worker], now[Worker], todo[Worker], view[Worker], cur[Worker], expected[Worker]>>,
         \A j \in todo[Worker] : /\ table'[j].last_run_at = table[j].last_run_at
                                 /\ table'[j].next_run_at = table[j].next_run_at
                                 /\ table[j].is_active => table'[j].is_active,
         InHand(Worker) => /\ table'[cur[Worker]].next_run_at = table[cur[Worker]].next_run_at
                           /\ table[cur[Worker]].is_active => table'[cur[Worker]].is_active
  PROVE  BatchInv'
  BY DEF BatchInv, InHand

LEMMA BatchStep ==
  ASSUME OneWorker, LeaseInv, BatchInv, [Next]_vars
  PROVE  BatchInv'
  <1>1. /\ Worker \in Runners /\ \A r \in Runners : r = Worker
        /\ table \in [Jobs -> Row] /\ clock \in Nat /\ now[Worker] \in Nat
        /\ todo[Worker] \subseteq Jobs
        /\ InHand(Worker) => cur[Worker] \in Jobs
    BY WorkerTyped DEF LeaseInv
  <1>2. /\ pc \in [Runners -> {"idle", "select", "claim"} \cup Holding]
        /\ now \in [Runners -> Nat] /\ todo \in [Runners -> SUBSET Jobs]
        /\ view \in [Runners -> [Jobs -> Row]] /\ expected \in [Runners -> Nat]
        /\ cur \in [Runners -> Jobs \cup {NoJob}]
    BY DEF LeaseInv, TypeOK
  <1>3. /\ InHand(Worker) => table[cur[Worker]].created
        /\ \A j \in todo[Worker] : table[j].created
    BY <1>1 DEF LeaseInv, LoadedExist
  <1>4. ASSUME NEW k \in Jobs, NEW at, NEW active, CreateJob(k, at, active)
        PROVE  BatchInv'
    <2>1. \A j \in Jobs : table[j].created => table'[j] = table[j]
      BY <1>1, <1>4 DEF CreateJob
    <2> QED
      BY <1>1, <1>3, <1>4, <2>1, BatchKept DEF CreateJob, runnerVars
  <1>5. ASSUME NEW k \in RefreshJobs, NEW at, EnsureRefreshJob(k, at)
        PROVE  BatchInv'
    <2>1. \A j \in Jobs : table[j].created =>
            table'[j] = table[j] \/ table'[j] = [table[j] EXCEPT !.is_active = TRUE]
      BY <1>1, <1>5, JobsAssumption DEF EnsureRefreshJob
    <2>2. \A j \in Jobs : table[j].created =>
            /\ table'[j].last_run_at = table[j].last_run_at
            /\ table'[j].next_run_at = table[j].next_run_at
            /\ table[j].is_active => table'[j].is_active
      BY <1>1, <2>1 DEF Row
    <2> QED
      BY <1>1, <1>3, <1>5, <2>2, BatchKept DEF EnsureRefreshJob, runnerVars
  <1>6. ASSUME ListDueJobs(Worker) PROVE BatchInv'
    <2>1. /\ todo'[Worker] = {j \in Jobs : Due(j)} /\ now'[Worker] = clock
          /\ pc'[Worker] = "select" /\ table' = table
          /\ \A j \in Jobs : Due(j) => view'[Worker][j] = table[j]
      BY <1>1, <1>2, <1>6 DEF ListDueJobs
    <2> QED
      BY <2>1 DEF BatchInv, Due, InHand, Holding
  <1>7. ASSUME NEW k \in Jobs, SelectJob(Worker, k) PROVE BatchInv'
    <2>1. k \in todo[Worker]
      BY <1>7 DEF SelectJob, Fairest
    <2>2. /\ todo'[Worker] = todo[Worker] \ {k} /\ cur'[Worker] = k /\ now' = now /\ table' = table
          /\ pc'[Worker] = "claim"
          /\ \A j \in todo'[Worker] : view'[Worker][j] = view[Worker][j]
          /\ expected'[Worker] \in {table[k].next_run_at, view[Worker][k].next_run_at}
      BY <1>1, <1>2, <1>7, <2>1 DEF SelectJob
    <2> QED
      BY <2>1, <2>2 DEF BatchInv
  <1>8. ASSUME ClaimJob(Worker) PROVE BatchInv'
    <2>1. /\ todo' = todo /\ view' = view /\ now' = now /\ cur' = cur /\ pc'[Worker] = "running"
          /\ cur[Worker] \notin todo[Worker]
          /\ \A j \in todo[Worker] : table'[j] = table[j]
      BY <1>1, <1>2, <1>8 DEF ClaimJob, BatchInv, InHand
    <2> QED
      BY <2>1 DEF BatchInv
  <1>9. ASSUME SkipJob(Worker) PROVE FALSE
    BY <1>1, <1>9 DEF SkipJob, ClaimWins, BatchInv
  <1>10. ASSUME \/ InterruptRun(Worker)
                \/ \E outcome \in {"completed", "failed"} : FinishRun(Worker, outcome)
         PROVE  BatchInv'
    <2>1. /\ UNCHANGED <<table, todo, view, now, cur>>
          /\ pc'[Worker] \in Holding /\ pc[Worker] \in Holding
      BY <1>1, <1>2, <1>10 DEF InterruptRun, FinishRun, Holding
    <2> QED
      BY <2>1 DEF BatchInv, InHand, Holding
  <1>11. ASSUME SaveJob(Worker) PROVE BatchInv'
    <2>1. /\ todo' = todo /\ view' = view /\ now' = now /\ pc'[Worker] = "select"
          /\ cur[Worker] \notin todo[Worker]
          /\ \A j \in todo[Worker] : table'[j] = table[j]
      BY <1>1, <1>2, <1>11 DEF SaveJob, BatchInv, InHand, Holding
    <2> QED
      BY <2>1 DEF BatchInv, InHand, Holding
  <1>12. ASSUME SaveInterrupted(Worker) \/ EndBatch(Worker) \/ LoseBatch(Worker) PROVE BatchInv'
    <2>1. pc'[Worker] = "idle" /\ todo'[Worker] = {}
      BY <1>1, <1>2, <1>12 DEF SaveInterrupted, EndBatch, LoseBatch, Leave
    <2> QED
      BY <2>1 DEF BatchInv, InHand, Holding
  <1>13. CASE Tick
    BY <1>13, BatchKept DEF Tick, runnerVars
  <1>14. CASE UNCHANGED vars
    BY <1>14, BatchKept DEF vars
  <1> QED
    BY <1>1, <1>4, <1>5, <1>6, <1>7, <1>8, <1>9, <1>10, <1>11, <1>12, <1>13, <1>14
       DEF Next, RunnerStep

(* What a step counts: nothing for a job that does not wait, and at most   *)
(* one claim of another job for one that does.                             *)
LEMMA PassedCounts ==
  ASSUME OneWorker, passed \in [Jobs -> [Jobs -> Nat]], CountPassed, NEW j \in Jobs, NEW k \in Jobs
  PROVE  /\ passed'[j][k] \in Nat
         /\ ~Waiting(j) \/ Claimed(j) => passed'[j][k] = 0
         /\ passed'[j][k] <= passed[j][k] + 1
         /\ ~Claimed(k) => passed'[j][k] <= passed[j][k]
  <1>1. passed[j][k] \in Nat /\ MaxPassed \in Nat
    BY PassedAssumption
  <1>2. passed'[j][k] = IF Claimed(j) \/ ~Waiting(j) THEN 0
                        ELSE IF Claimed(k) THEN Lesser(passed[j][k] + 1, MaxPassed)
                        ELSE passed[j][k]
    BY DEF CountPassed
  <1>3. Lesser(passed[j][k] + 1, MaxPassed) \in Nat
        /\ Lesser(passed[j][k] + 1, MaxPassed) <= passed[j][k] + 1
    BY <1>1 DEF Lesser
  <1> QED
    BY <1>1, <1>2, <1>3

(* What one pair of jobs needs. *)
Bound(j, k) ==
  /\ /\ Ahead(j, k) /\ j \notin todo[Worker]
     /\ now[Worker] <= table[j].last_run_at
     => passed[j][k] <= lost
  /\ Ahead(j, k) \/ LastRun(k) <= table[j].last_run_at => passed[j][k] <= 1 + lost
  /\ passed[j][k] <= 2 + lost

(* A step that brings no claim of k nearer keeps the bound of k.           *)
LEMMA BoundKept ==
  ASSUME NEW j \in Jobs, NEW k \in Jobs, Bound(j, k),
         lost \in Nat, passed[j][k] \in Nat, passed'[j][k] \in Nat,
         lost' = lost, passed'[j][k] <= passed[j][k],
         Ahead(j, k)' => /\ Ahead(j, k) /\ now'[Worker] = now[Worker]
                         /\ j \notin todo'[Worker] => j \notin todo[Worker],
         table'[j].last_run_at = table[j].last_run_at,
         LastRun(k)' <= table[j].last_run_at => LastRun(k) <= table[j].last_run_at
  PROVE  Bound(j, k)'
  BY DEF Bound

LEMMA BoundStep ==
  ASSUME OneWorker, Delayed, LeaseInv, DatesInv, BatchInv, Next, CountPassed,
         passed \in [Jobs -> [Jobs -> Nat]],
         NEW j \in Jobs, NEW k \in Jobs, j # k, Bound(j, k)
  PROVE  Bound(j, k)'
  <1>1. /\ Worker \in Runners /\ \A r \in Runners : r = Worker
        /\ table \in [Jobs -> Row] /\ clock \in Nat /\ now[Worker] \in Nat /\ lost \in Nat
        /\ todo[Worker] \subseteq Jobs
        /\ InHand(Worker) => cur[Worker] \in Jobs
        /\ \A i \in Jobs : table[i].last_run_at \in Int /\ table[i].next_run_at \in Nat
    BY WorkerTyped DEF LeaseInv
  <1>2. /\ pc \in [Runners -> {"idle", "select", "claim"} \cup Holding]
        /\ now \in [Runners -> Nat] /\ todo \in [Runners -> SUBSET Jobs]
        /\ view \in [Runners -> [Jobs -> Row]]
        /\ cur \in [Runners -> Jobs \cup {NoJob}] /\ NoJob \notin Jobs
    BY JobsAssumption DEF LeaseInv, TypeOK
  <1>3. /\ passed[j][k] \in Nat /\ passed'[j][k] \in Nat
        /\ ~Waiting(j) \/ Claimed(j) => passed'[j][k] = 0
        /\ passed'[j][k] <= passed[j][k] + 1
        /\ ~Claimed(k) => passed'[j][k] <= passed[j][k]
    BY PassedCounts
  <1>4. lost' \in Nat /\ lost' >= lost
    <2>1. lost' = lost \/ lost' = lost + 1
      <3>1. ASSUME RunnerStep(Worker) PROVE lost' = lost \/ lost' = lost + 1
        BY <3>1 DEF RunnerStep, ListDueJobs, SelectJob, ClaimJob, SkipJob, FinishRun, InterruptRun,
                    SaveJob, SaveInterrupted, EndBatch, LoseBatch
      <3> QED
        BY <1>1, <3>1 DEF Next, CreateJob, EnsureRefreshJob, Tick
    <2> QED
      BY <1>1, <2>1
  <1>5. CASE ~Waiting(j) \/ Claimed(j)
    BY <1>3, <1>4, <1>5 DEF Bound
  <1>6. CASE Waiting(j) /\ ~Claimed(j)
    <2>1. /\ table[j].created /\ table[j].is_active /\ table[j].next_run_at <= clock
          /\ ~Holds(Worker, j)
      BY <1>1, <1>6 DEF Waiting, Due
    <2>2. ASSUME NEW i \in Jobs, NEW at, NEW active, CreateJob(i, at, active)
          PROVE  Bound(j, k)'
      <3>1. /\ table'[j] = table[j] /\ UNCHANGED <<pc, now, todo, view, cur, lost>>
            /\ \/ table'[k] = table[k]
               \/ ~table[k].created /\ table'[k].last_run_at = Never
        <4>1. ~table[i].created /\ i # j
          BY <2>1, <2>2 DEF CreateJob
        <4>2. UNCHANGED <<pc, now, todo, view, cur, lost>>
          BY <2>2 DEF CreateJob, runnerVars
        <4>3. \A m \in Jobs : m # i => table'[m] = table[m]
          BY <1>1, <2>2 DEF CreateJob
        <4>4. table'[i].last_run_at = Never
          BY <1>1, <2>2 DEF CreateJob
        <4> QED
          BY <4>1, <4>2, <4>3, <4>4
      <3>2. table'[k].last_run_at = table[k].last_run_at
        BY <3>1 DEF DatesInv
      <3> QED
        BY <1>1, <1>3, <3>1, <3>2, BoundKept DEF Ahead, LastRun, Holds, Claimed, Claims
    <2>3. ASSUME NEW i \in RefreshJobs, NEW at, EnsureRefreshJob(i, at)
          PROVE  Bound(j, k)'
      <3>1. /\ UNCHANGED <<pc, now, todo, view, cur, lost>>
            /\ \A m \in Jobs : \/ table'[m] = table[m]
                               \/ table'[m] = [table[m] EXCEPT !.is_active = TRUE]
                               \/ ~table[m].created /\ table'[m].last_run_at = Never
        BY <1>1, <2>3, JobsAssumption DEF EnsureRefreshJob, runnerVars
      <3>2. \A m \in Jobs : table'[m].last_run_at = table[m].last_run_at
        BY <1>1, <3>1 DEF DatesInv, Row
      <3> QED
        BY <1>1, <1>3, <3>1, <3>2, BoundKept DEF Ahead, LastRun, Holds, Claimed, Claims
    <2>4. ASSUME ListDueJobs(Worker) PROVE Bound(j, k)'
      <3>1. /\ todo'[Worker] = {i \in Jobs : Due(i)} /\ UNCHANGED <<table, lost>>
            /\ pc[Worker] = "idle" /\ pc'[Worker] = "select"
            /\ \A i \in Jobs : Due(i) => view'[Worker][i] = table[i]
        BY <1>1, <1>2, <2>4 DEF ListDueJobs
      <3>2. j \in todo'[Worker] /\ passed'[j][k] <= passed[j][k]
        BY <1>1, <1>3, <2>1, <3>1 DEF Due, Claimed, Claims
      <3>3. LastRun(k) = table[k].last_run_at /\ LastRun(k)' = table[k].last_run_at
        BY <3>1 DEF LastRun, Holds, Holding
      <3>4. Ahead(j, k)' => LastRun(k) <= table[j].last_run_at
        BY <1>1, <3>1, <3>2, <3>3 DEF Ahead, Before
      <3>5. Ahead(j, k)' \/ LastRun(k)' <= table'[j].last_run_at => passed[j][k] <= 1 + lost
        BY <3>1, <3>3, <3>4 DEF Bound
      <3> QED
        BY <1>1, <1>3, <3>1, <3>2, <3>5 DEF Bound
    <2>5. ASSUME NEW i \in Jobs, SelectJob(Worker, i) PROVE Bound(j, k)'
      <3>1. /\ i \in todo[Worker] /\ \A m \in todo[Worker] : Before(view[Worker][i], view[Worker][m])
            /\ pc[Worker] = "select"
        BY <2>5 DEF SelectJob, Fairest
      <3>2. /\ todo'[Worker] = todo[Worker] \ {i} /\ cur'[Worker] = i
            /\ pc'[Worker] = "claim" /\ UNCHANGED <<table, now, lost>>
            /\ \A m \in todo'[Worker] : view'[Worker][m] = view[Worker][m]
        BY <1>1, <1>2, <2>5, <3>1 DEF SelectJob
      <3>3. passed'[j][k] <= passed[j][k]
        BY <1>1, <1>3, <3>2 DEF Claimed, Claims
      <3>4. Ahead(j, k)' => Ahead(j, k) /\ (j \notin todo'[Worker] => j \notin todo[Worker])
        <4>1. CASE i = k
          BY <3>1, <3>2, <4>1 DEF Ahead
        <4>2. CASE i = j
          BY <3>1, <3>2, <4>2 DEF Ahead
        <4>3. CASE i # j /\ i # k
          BY <3>1, <3>2, <4>3 DEF Ahead
        <4> QED
          BY <4>1, <4>2, <4>3
      <3>5. LastRun(k)' = table[k].last_run_at /\ LastRun(k) = table[k].last_run_at
        BY <3>1, <3>2 DEF LastRun, Holds, Holding
      <3> QED
        BY <1>1, <1>3, <3>2, <3>3, <3>4, <3>5, BoundKept
    <2>6. ASSUME ClaimJob(Worker) PROVE Bound(j, k)'
      <3>1. /\ pc[Worker] = "claim" /\ pc'[Worker] = "running"
            /\ UNCHANGED <<todo, view, now, cur, lost>>
            /\ cur[Worker] \in Jobs /\ cur[Worker] \notin todo[Worker]
            /\ \A m \in Jobs : m # cur[Worker] => table'[m] = table[m]
        BY <1>1, <1>2, <2>6 DEF ClaimJob, BatchInv, InHand
      <3>2. Claimed(cur[Worker]) /\ \A m : Claimed(m) => m = cur[Worker]
        BY <1>1, <3>1 DEF Claimed, Claims
      <3>3. cur[Worker] # j /\ table'[j] = table[j]
        BY <1>6, <3>1, <3>2
      <3>4. CASE cur[Worker] = k
        <4>1. ~Ahead(j, k)' /\ Ahead(j, k)
          BY <3>1, <3>3, <3>4 DEF Ahead
        <4>2. LastRun(k)' = now[Worker]
          BY <3>1, <3>4 DEF LastRun, Holds, Holding
        <4>3. passed[j][k] <= 1 + lost
          BY <4>1 DEF Bound
        <4>4. now[Worker] <= table[j].last_run_at => passed[j][k] <= lost
          <5>1. SUFFICES ASSUME now[Worker] <= table[j].last_run_at
                         PROVE  passed[j][k] <= lost
            OBVIOUS
          <5>2. j \notin todo[Worker]
            BY <1>1, <5>1 DEF BatchInv, DatesInv
          <5> QED
            BY <4>1, <5>1, <5>2 DEF Bound
        <4> QED
          BY <1>1, <1>3, <3>1, <3>3, <4>1, <4>2, <4>3, <4>4 DEF Bound
      <3>5. CASE cur[Worker] # k
        <4>1. passed'[j][k] <= passed[j][k] /\ table'[k] = table[k]
          BY <1>3, <3>1, <3>2, <3>5
        <4>2. Ahead(j, k)' => Ahead(j, k)
          BY <3>1, <3>3, <3>5 DEF Ahead
        <4>3. LastRun(k)' = LastRun(k)
          BY <3>1, <3>5, <4>1 DEF LastRun, Holds, Holding
        <4> QED
          BY <1>1, <1>3, <3>1, <3>3, <4>1, <4>2, <4>3, BoundKept
      <3> QED
        BY <3>4, <3>5
    <2>7. ASSUME SkipJob(Worker) PROVE FALSE
      BY <1>1, <2>7 DEF SkipJob, ClaimWins, BatchInv
    <2>8. ASSUME \/ InterruptRun(Worker)
                 \/ \E outcome \in {"completed", "failed"} : FinishRun(Worker, outcome)
          PROVE  Bound(j, k)'
      <3>1. /\ UNCHANGED <<table, todo, view, now, cur, lost>>
            /\ pc'[Worker] \in Holding /\ pc[Worker] \in Holding
        BY <1>1, <1>2, <2>8 DEF InterruptRun, FinishRun, Holding
      <3>2. passed'[j][k] <= passed[j][k]
        BY <1>1, <1>3, <3>1 DEF Claimed, Claims, Holding
      <3>3. (Ahead(j, k)' => Ahead(j, k)) /\ LastRun(k)' = LastRun(k)
        BY <3>1 DEF Ahead, LastRun, Holds, Holding
      <3> QED
        BY <1>1, <1>3, <3>1, <3>2, <3>3, BoundKept
    <2>9. ASSUME SaveJob(Worker) \/ SaveInterrupted(Worker) PROVE Bound(j, k)'
      <3>1. /\ cur[Worker] \in Jobs /\ cur[Worker] \notin todo[Worker] /\ pc[Worker] \in Holding
            /\ cur[Worker] # j /\ lost' = lost
            /\ \A m \in Jobs : m # cur[Worker] => table'[m] = table[m]
        BY <1>1, <1>2, <2>1, <2>9 DEF SaveJob, SaveInterrupted, BatchInv, InHand, Holding, Holds
      <3>2. /\ pc'[Worker] \in {"idle", "select"}
            /\ \/ todo' = todo /\ view' = view /\ now' = now
               \/ todo'[Worker] = {}
        BY <1>1, <1>2, <2>9 DEF SaveJob, SaveInterrupted, Leave
      <3>3. passed'[j][k] <= passed[j][k]
        BY <1>1, <1>3, <3>2 DEF Claimed, Claims
      <3>4. Ahead(j, k)' => /\ Ahead(j, k) /\ now'[Worker] = now[Worker]
                            /\ j \notin todo'[Worker] => j \notin todo[Worker]
        BY <3>1, <3>2 DEF Ahead, Holding
      <3>5. LastRun(k)' = LastRun(k)
        <4>1. CASE cur[Worker] = k
          <5>1. \E d \in {Interval[k], Backoff(k)} :
                  table'[k] = [table[k] EXCEPT !.last_run_at = now[Worker],
                                               !.next_run_at = now[Worker] + d]
            BY <1>1, <2>9, <4>1 DEF SaveJob, SaveInterrupted, Saved
          <5>2. table'[k].last_run_at = now[Worker]
            BY <1>1, <5>1 DEF Row
          <5> QED
            BY <3>1, <3>2, <4>1, <5>2 DEF LastRun, Holds, Holding
        <4>2. CASE cur[Worker] # k
          BY <3>1, <3>2, <4>2 DEF LastRun, Holds, Holding
        <4> QED
          BY <4>1, <4>2
      <3> QED
        BY <1>1, <1>3, <3>1, <3>3, <3>4, <3>5, BoundKept
    <2>10. ASSUME EndBatch(Worker) PROVE Bound(j, k)'
      <3>1. /\ pc[Worker] = "select" /\ pc'[Worker] = "idle" /\ todo'[Worker] = {}
            /\ UNCHANGED <<table, lost>>
        BY <1>1, <1>2, <2>10 DEF EndBatch, Leave
      <3>2. passed'[j][k] <= passed[j][k]
        BY <1>1, <1>3, <3>1 DEF Claimed, Claims
      <3>3. ~Ahead(j, k)' /\ LastRun(k)' = LastRun(k)
        BY <3>1 DEF Ahead, LastRun, Holds, Holding
      <3> QED
        BY <1>1, <1>3, <3>1, <3>2, <3>3, BoundKept
    <2>11. ASSUME LoseBatch(Worker) PROVE Bound(j, k)'
      <3>1. /\ pc'[Worker] = "idle" /\ todo'[Worker] = {} /\ lost' = lost + 1
        BY <1>1, <1>2, <2>11 DEF LoseBatch, Leave
      <3>2. passed'[j][k] <= passed[j][k]
        BY <1>1, <1>3, <3>1 DEF Claimed, Claims
      <3>3. ~Ahead(j, k)'
        BY <3>1 DEF Ahead
      <3>4. passed[j][k] <= 2 + lost
        BY DEF Bound
      <3> QED
        BY <1>1, <1>3, <3>1, <3>2, <3>3, <3>4 DEF Bound
    <2>12. CASE Tick
      <3>1. UNCHANGED <<table, pc, now, todo, view, cur, lost>>
        BY <2>12 DEF Tick, runnerVars
      <3> QED
        BY <1>1, <1>3, <3>1, BoundKept DEF Ahead, LastRun, Holds, Claimed, Claims
    <2> QED
      BY <1>1, <2>2, <2>3, <2>4, <2>5, <2>6, <2>7, <2>8, <2>9, <2>10, <2>11, <2>12
         DEF Next, RunnerStep
  <1> QED
    BY <1>5, <1>6

LEMMA FairStep ==
  ASSUME OneWorker, Delayed, FairInv, [FairNext]_fairVars
  PROVE  FairInv'
  <1>1. [Next]_vars
    BY DEF FairNext, fairVars
  <1>2. LeaseInv' /\ DatesInv' /\ BatchInv'
    BY <1>1, DatesStep, BatchStep, TypeStep, LoadedExistStep, LoadedWereDueStep, LeaseStep
       DEF FairInv, LeaseInv
  <1>3. PassedInv'
    <2>1. CASE UNCHANGED fairVars
      BY <2>1 DEF fairVars, vars, FairInv, PassedInv, Ahead, LastRun, Holds
    <2>2. CASE Next /\ CountPassed
      <3>1. passed' \in [Jobs -> [Jobs -> Nat]]
        <4>1. \A j, k \in Jobs : passed'[j][k] \in Nat
          BY <2>2, PassedCounts DEF FairInv, PassedInv
        <4> QED
          BY <2>2, <4>1 DEF CountPassed
      <3>2. \A j, k \in Jobs : j # k => Bound(j, k)'
        BY <2>2, BoundStep DEF FairInv, PassedInv, Bound
      <3>3. \A j \in Jobs : passed'[j][j] = 0
        BY <2>2 DEF FairInv, PassedInv, CountPassed
      <3> QED
        BY <3>1, <3>2, <3>3 DEF PassedInv, Bound
    <2> QED
      BY <2>1, <2>2 DEF FairNext
  <1> QED
    BY <1>2, <1>3 DEF FairInv

LEMMA InitFairInv ==
  ASSUME OneWorker, FairInit
  PROVE  FairInv
  <1>1. LeaseInv
    BY InitLeaseInv DEF FairInit
  <1>2. Worker \in Runners
    BY DEF OneWorker
  <1>3. DatesInv /\ BatchInv
    BY <1>2 DEF FairInit, Init, DatesInv, BatchInv, NoRow, Never, InHand, Holding
  <1>4. PassedInv
    BY DEF FairInit, Init, PassedInv
  <1> QED
    BY <1>1, <1>3, <1>4 DEF FairInv

(* No source starves behind another: with one worker, intervals of at      *)
(* least a minute and a positive backoff, no other job is claimed more     *)
(* than twice while a job waits, one more for each batch that died.        *)
THEOREM NobodyStarves ==
  ASSUME OneWorker, Delayed
  PROVE  FairSpec => []NoStarvation
  <1>1. FairInit => FairInv
    BY InitFairInv
  <1>2. FairInv /\ [FairNext]_fairVars => FairInv'
    BY FairStep
  <1>3. FairInv => NoStarvation
    <2> SUFFICES ASSUME FairInv, NEW j \in Jobs, NEW k \in Jobs
                 PROVE  passed[j][k] <= 2 + lost
      BY DEF NoStarvation
    <2>1. lost \in Nat
      BY DEF FairInv, LeaseInv, TypeOK
    <2> QED
      BY <2>1 DEF FairInv, PassedInv
  <1> QED
    BY <1>1, <1>2, <1>3, PTL DEF FairSpec
=============================================================================
