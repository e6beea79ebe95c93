----------------------------- MODULE FairRefresh -----------------------------
(***************************************************************************)
(* What the order of list_due_jobs is for: no source starves.  The history *)
(* variable passed counts, for each job that is due and in nobody's hands, *)
(* how often each other job was claimed while it waited.                   *)
(***************************************************************************)
EXTENDS ScheduledJobs

CONSTANT MaxPassed   \* bound of the counters of passed

ASSUME PassedAssumption == MaxPassed \in Nat

VARIABLE passed      \* passed[j][k]: claims of k since j waits

fairVars == <<vars, passed>>

Waiting(j) == Due(j) /\ \A r \in Runners : ~Holds(r, j)

Claimed(k) == \E r \in Runners : Claims(r) /\ cur[r] = k

CountPassed ==
  passed' = [j \in Jobs |-> [k \in Jobs |->
               IF Claimed(j) \/ ~Waiting(j) THEN 0
               ELSE IF Claimed(k) THEN Lesser(passed[j][k] + 1, MaxPassed)
               ELSE passed[j][k]]]

FairInit == Init /\ passed = [j \in Jobs |-> [k \in Jobs |-> 0]]
FairNext == Next /\ CountPassed
FairSpec == FairInit /\ [][FairNext]_fairVars

(***************************************************************************)
(* list_due_jobs: "whoever just consumed the budget goes to the back next  *)
(* cycle, so every source makes progress even when the budget only allows  *)
(* one or two per pass".  While a job waits, the single worker claims any  *)
(* other job at most twice: once in the batch in progress when it became   *)
(* due, once because rows of one batch share their last_run_at and the tie *)
(* goes to the earlier next_run_at.  A batch that dies before it saves the *)
(* last_run_at of the job in hand adds one.                                *)
(***************************************************************************)
NoStarvation ==
  \A j, k \in Jobs : passed[j][k] <= 2 + lost
=============================================================================
