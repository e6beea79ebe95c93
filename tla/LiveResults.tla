----------------------------- MODULE LiveResults -----------------------------
(***************************************************************************)
(* The results of one closed contest and its jornada score.  Documents are *)
(* recorded per (match, source) in match_live_results; an observation that *)
(* is final and has its goals is promoted to match_results, from which the *)
(* canonical result of a match is read.  Three others write results too: a *)
(* backfill, the guarded application of a manual official file, and the    *)
(* ingestion of a document with historical results.  The worker saves the  *)
(* jornada score once every match is final.                                *)
(*                                                                         *)
(* save_result keys on (match, source, played_at).  An observation and a   *)
(* manual row take the instant of the call, so that they always insert; a  *)
(* historical result is dated by its document and may rewrite the row it   *)
(* left before.  match_results is the set of rows without their instants.  *)
(***************************************************************************)
EXTENDS Integers, FiniteSets

CONSTANTS
  Matches,    \* the matches of the contest
  Feeds,      \* sources whose documents are ingested (the acta, operators)
  Archives,   \* sources of scripts/backfill_results.py
  Histories,  \* sources whose documents bring historical results
  Manual,     \* the manual official source
  Priority,   \* result_source_priority, lower first
  Scores,     \* the scorelines <<home, away>> that may occur
  NoScore,    \* goals unknown
  NoCode,     \* no outcome
  NoFile,     \* no manual file evaluated and waiting
  MaxPolls    \* bound of the documents

Observers == Feeds \cup Archives
Sources == Observers \cup Histories \cup {Manual}

ASSUME ScoresAssumption ==
  /\ Scores \subseteq Nat \X Nat
  /\ NoScore \notin Scores
  /\ NoCode \notin {"1", "X", "2"}
  /\ NoFile \notin [Matches -> Scores]
\* Two operator sources share priority 60; which of them then leads is the database's choice.
ASSUME PriorityAssumption ==
  /\ Manual \notin Observers \cup Histories
  /\ Histories \cap Observers = {}
  /\ Feeds \cap Archives = {}
  /\ Priority \in [Sources -> Nat]
  /\ \A s, t \in Sources : Priority[s] = Priority[t] => s = t
ASSUME PollsAssumption == MaxPolls \in Nat

VARIABLES
  official,  \* whether a proposal with an official address has the slate's draw code
  polls,     \* documents so far
  live,      \* match_live_results, by match and source
  results,   \* match_results
  file,      \* the manual file that evaluate_manual_apply accepted
  cycle,     \* the worker's session: closed, or open after its observe duty
  staged,    \* the score that session flushed and has not committed
  stored,    \* progol_jornada_scores, the row of this composition
  rewritten, \* history: the matches of which a result was replaced by another
  reported   \* history: what each source stated as final, score or sign

vars == <<official, polls, live, results, file, cycle, staged, stored, rewritten, reported>>

Codes == {"1", "X", "2"}
Outcome(score) == IF score[1] > score[2] THEN "1"
                  ELSE IF score[1] < score[2] THEN "2" ELSE "X"
OutcomeOrElse(score, code) == IF score = NoScore THEN code ELSE Outcome(score)

\* A row of match_live_results; it exists once it has a code.
Observation == [score: Scores \cup {NoScore}, code: Codes \cup {NoCode}, final: BOOLEAN]
Unseen == [score |-> NoScore, code |-> NoCode, final |-> FALSE]
Result == [match: Matches, source: Sources, score: Scores, code: Codes]
Progress == {"none", "partial", "complete"}

\* What parse_progol_resultados_text makes of a line: pending, a score, or a sign.
Lines == {line \in Observation :
            \/ line = Unseen
            \/ line.score # NoScore /\ line.code = Outcome(line.score)
            \/ line.score = NoScore /\ line.code # NoCode /\ line.final}

------------------------------------------------------------------------------

\* record_observation refuses to un-finish a match.
Refused(row, line) == line = Unseen \/ (row.final /\ ~line.final)

\* record_observation: known goals are never blanked, and the code follows the goals.
Merged(row, line) ==
  LET score == IF line.score = NoScore THEN row.score ELSE line.score
  IN IF Refused(row, line) THEN row
     ELSE [score |-> score,
           code |-> OutcomeOrElse(score, IF line.code # NoCode THEN line.code ELSE row.code),
           final |-> line.final \/ row.final]

\* Mutant of Promotes: only the observation that ends the match is promoted.
PromotesOnce(row, line) ==
  LET new == Merged(row, line)
  IN ~Refused(row, line) /\ new.final /\ ~row.final /\ new.score # NoScore

\* _promote_to_canonical runs when the merged row is final and has its goals.
Promotes(row, line) ==
  LET new == Merged(row, line)
  IN ~Refused(row, line) /\ new.final /\ new.score # NoScore

Promoted(m, s, line) ==
  IF Promotes(live[m][s], line)
  THEN LET new == Merged(live[m][s], line)
       IN {[match |-> m, source |-> s, score |-> new.score, code |-> new.code]}
  ELSE {}

\* CanonicalResultRepository: rows that disagree on the code exclude the match.
Rows(m) == {r \in results : r.match = m}
Conflicting(m) == \E r, q \in Rows(m) : r.code # q.code
HasCanonical(m) == Rows(m) # {} /\ ~Conflicting(m)

\* _best_live_by_match
Seen(m) == {s \in Observers : live[m][s].code # NoCode}
BestLive(m) == {s \in Seen(m) : \A t \in Seen(m) : Priority[s] <= Priority[t]}

\* status_for_matches: the canonical final wins, the best live row otherwise.
Finished(m) == HasCanonical(m) \/ \E s \in BestLive(m) : live[m][s].final

\* Mutant of Counted: a sign counts before it is final, and beside a scoreline.
CountedWhenCoded(m) == HasCanonical(m) \/ BestLive(m) # {}

\* compute_for_slate counts canonical results and, for an official slate, final signs without goals.
Counted(m) ==
  \/ HasCanonical(m)
  \/ /\ official
     /\ \E s \in BestLive(m) : live[m][s].final /\ live[m][s].score = NoScore

Computed == IF \A m \in Matches : Counted(m) THEN "complete" ELSE "partial"

------------------------------------------------------------------------------

Init ==
  /\ official \in BOOLEAN
  /\ polls = 0
  /\ live = [m \in Matches |-> [s \in Observers |-> Unseen]]
  /\ results = {}
  /\ file = NoFile
  /\ cycle = "closed"
  /\ staged = "none"
  /\ stored = "none"
  /\ rewritten = {}
  /\ reported = {}

\* One document of a source, recorded match by match in one transaction.
Record(s, doc) ==
  /\ polls < MaxPolls
  /\ polls' = polls + 1
  /\ live' = [m \in Matches |-> [live[m] EXCEPT ![s] = Merged(@, doc[m])]]
  /\ results' = results \cup UNION {Promoted(m, s, doc[m]) : m \in Matches}
  /\ reported' = reported \cup
       {[match |-> m, source |-> s, score |-> doc[m].score] : m \in {n \in Matches : doc[n].final}}
  /\ UNCHANGED <<official, file, cycle, staged, stored, rewritten>>

\* ingest_for_slate, from the operator's endpoint or the worker; pending rows are skipped.
Ingest(s, doc) == s \in Feeds /\ Record(s, doc)

\* run_backfill: a match with any result on record is skipped unless forced.
Backfill(s, scores, force) ==
  /\ s \in Archives
  /\ Record(s, [m \in Matches |->
                  IF scores[m] # NoScore /\ (force \/ Rows(m) = {})
                  THEN [score |-> scores[m], code |-> Outcome(scores[m]), final |-> TRUE]
                  ELSE Unseen])

\* _persist_historical_results of a document: save_result puts a score in the row its source left
\* for that instant, if there is one, and inserts it otherwise.
IngestHistory(s, scores, old) ==
  LET told == {m \in Matches : scores[m] # NoScore}
      new == {[match |-> m, source |-> s, score |-> scores[m], code |-> Outcome(scores[m])] : m \in told}
  IN /\ s \in Histories
     /\ polls < MaxPolls
     /\ \A r \in old : r.source = s /\ r.match \in told /\ \A q \in old : q.match = r.match => q = r
     /\ polls' = polls + 1
     /\ results' = (results \ old) \cup new
     /\ rewritten' = rewritten \cup {r.match : r \in old \ new}
     /\ reported' = reported \cup {[match |-> m, source |-> s, score |-> scores[m]] : m \in told}
     /\ UNCHANGED <<official, live, file, cycle, staged, stored>>

\* Rows of the highest-priority source stand for a match, in conflict or not.
Leading(m) == {r \in Rows(m) : \A q \in Rows(m) : Priority[r.source] <= Priority[q.source]}

\* evaluate_manual_apply: the file is complete and no leading result says otherwise.
EvaluateManual(scores) ==
  /\ file = NoFile
  /\ polls < MaxPolls
  /\ \A m \in Matches :
       Rows(m) # {} => \E r \in Leading(m) : r.code = Outcome(scores[m])
  /\ polls' = polls + 1
  /\ file' = scores
  /\ UNCHANGED <<official, live, results, cycle, staged, stored, rewritten, reported>>

ManualRow(m) == [match |-> m, source |-> Manual, score |-> file[m], code |-> Outcome(file[m])]

\* apply_manual_results: a match that has its manual row is left alone.
ApplyManual ==
  /\ file # NoFile
  /\ results' = results \cup
       {ManualRow(m) : m \in {n \in Matches : \A r \in Rows(n) : r.source # Manual}}
  /\ reported' = reported \cup
       {[match |-> m, source |-> Manual, score |-> file[m]] : m \in Matches}
  /\ file' = NoFile
  /\ UNCHANGED <<official, polls, live, cycle, staged, stored, rewritten>>

\* The worker's observe duty: finalize_complete_closed_slates flushes and does not commit.
Observe ==
  /\ cycle = "closed"
  /\ cycle' = "open"
  /\ staged' = IF official /\ (\A m \in Matches : Finished(m)) /\ stored # "complete"
               THEN Computed ELSE "none"
  /\ UNCHANGED <<official, polls, live, results, file, stored, rewritten, reported>>

\* A later duty of the cycle commits the session: retrain, prune, the claim of a due job.
CommitCycle ==
  /\ staged # "none"
  /\ stored' = staged
  /\ staged' = "none"
  /\ UNCHANGED <<official, polls, live, results, file, cycle, rewritten, reported>>

\* Mutant of EndCycle: the session ends and keeps the score it only flushed.
EndCycleKeepingFlushed ==
  /\ cycle = "open"
  /\ cycle' = "closed"
  /\ UNCHANGED <<official, polls, live, results, file, staged, stored, rewritten, reported>>

\* The end of run_once closes the session: what was only flushed is rolled back.
EndCycle ==
  /\ cycle = "open"
  /\ cycle' = "closed"
  /\ staged' = "none"
  /\ UNCHANGED <<official, polls, live, results, file, stored, rewritten, reported>>

\* POST /scoring/slates/{id}/compute; the row the worker flushed makes it wait.
ComputeScore ==
  /\ staged = "none"
  /\ stored' = Computed
  /\ UNCHANGED <<official, polls, live, results, file, cycle, staged, rewritten, reported>>

\* A proposal whose address is official is observed with the slate's draw code, or promoted to it.
GainLineage ==
  /\ ~official
  /\ official' = TRUE
  /\ UNCHANGED <<polls, live, results, file, cycle, staged, stored, rewritten, reported>>

Next ==
  \/ GainLineage
  \/ \E s \in Feeds, doc \in [Matches -> Lines] : Ingest(s, doc)
  \/ \E s \in Archives, scores \in [Matches -> Scores \cup {NoScore}], force \in BOOLEAN :
       Backfill(s, scores, force)
  \/ \E s \in Histories, scores \in [Matches -> Scores \cup {NoScore}], old \in SUBSET results :
       IngestHistory(s, scores, old)
  \/ \E scores \in [Matches -> Scores] : EvaluateManual(scores)
  \/ ApplyManual
  \/ Observe \/ CommitCycle \/ EndCycle
  \/ ComputeScore

Spec == Init /\ [][Next]_vars

------------------------------------------------------------------------------

(***************************************************************************)
(* Every table keeps its type; a row no source has filled is empty, and a  *)
(* flushed score belongs to an open session.                               *)
(***************************************************************************)
TypeOK ==
  /\ official \in BOOLEAN
  /\ polls \in Nat
  /\ live \in [Matches -> [Observers -> Observation]]
  /\ results \subseteq Result
  /\ file \in [Matches -> Scores] \cup {NoFile}
  /\ cycle \in {"closed", "open"}
  /\ staged \in Progress
  /\ stored \in Progress
  /\ rewritten \subseteq Matches
  /\ reported \subseteq [match: Matches, source: Sources, score: Scores \cup {NoScore}]
  /\ staged # "none" => cycle = "open"

(***************************************************************************)
(* The outcome follows the goals: whatever order scores, signs, backfills  *)
(* and manual files arrive in, a row that knows its goals, live or         *)
(* canonical, carries the outcome of these goals.                          *)
(***************************************************************************)
CodeFollowsGoals ==
  /\ \A m \in Matches, s \in Observers :
       live[m][s].score # NoScore => live[m][s].code = Outcome(live[m][s].score)
  /\ \A r \in results : r.code = Outcome(r.score)

(***************************************************************************)
(* No final score is lost: a final observation with goals has its          *)
(* canonical row, the corrected score of a source included.                *)
(***************************************************************************)
FinalScoreIsCanonical ==
  \A m \in Matches, s \in Observers :
    live[m][s].final /\ live[m][s].score # NoScore =>
      \E r \in results : r.match = m /\ r.source = s /\ r.score = live[m][s].score

(***************************************************************************)
(* An incomplete slate is never marked complete: every match counted by a  *)
(* complete jornada score was stated final by some source.                 *)
(***************************************************************************)
CompleteScoreWasFinal ==
  "complete" \in {staged, stored} =>
    \A m \in Matches : \E r \in reported : r.match = m

(***************************************************************************)
(* The manual official file is applied once: however often it is evaluated *)
(* and applied, corrected or not, a match has one manual result.           *)
(***************************************************************************)
ManualIsWrittenOnce ==
  \A r, q \in results : r.match = q.match /\ r.source = Manual /\ q.source = Manual => r = q
=============================================================================
