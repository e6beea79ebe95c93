-------------------------- MODULE LiveResultsProofs --------------------------
(***************************************************************************)
(* Proofs about LiveResults and the reports of Learning, for any matches,  *)
(* sources, priorities, scores and predictions.  The inductive invariant   *)
(* of the tables is the conjunction of the invariants the runs check with  *)
(* one fact they do not need to state: a match that any table holds as     *)
(* ended was stated final by some source.  The reports agree because what  *)
(* a stored score says of a match stays on record.                         *)
(***************************************************************************)
EXTENDS Learning, FiniteSetTheorems, WellFoundedInduction, TLAPS

Stated(m) == \E r \in reported : r.match = m

EndedIsReported ==
  /\ \A r \in results : Stated(r.match)
  /\ \A m \in Matches, s \in Observers : live[m][s].final => Stated(m)

ResultsInv ==
  /\ TypeOK /\ CodeFollowsGoals /\ FinalScoreIsCanonical
  /\ ManualIsWrittenOnce /\ EndedIsReported /\ CompleteScoreWasFinal

------------------------------------------------------------------------------

LEMMA OutcomeIsCode == \A score : Outcome(score) \in Codes
  BY DEF Outcome, Codes

(* A row whose code follows its goals keeps its type and this fact, and    *)
(* what it is promoted to is a result of the same goals.                   *)
LEMMA MergedRow ==
  ASSUME NEW row \in Observation, NEW line \in Lines,
         row.score # NoScore => row.code = Outcome(row.score)
  PROVE  LET new == Merged(row, line)
         IN /\ new \in Observation
            /\ new.score # NoScore => new.code = Outcome(new.score)
            /\ Refused(row, line) => new = row
            /\ new.final => row.final \/ line.final
            /\ new.final /\ new.score # NoScore => new = row \/ Promotes(row, line)
  <1>1. line \in Observation
    BY DEF Lines
  <1>2. CASE Refused(row, line)
    BY <1>2 DEF Merged
  <1>3. CASE ~Refused(row, line)
    <2> DEFINE score == IF line.score = NoScore THEN row.score ELSE line.score
               code == OutcomeOrElse(score, IF line.code # NoCode THEN line.code ELSE row.code)
    <2>1. Merged(row, line) = [score |-> score, code |-> code, final |-> line.final \/ row.final]
      BY <1>3 DEF Merged
    <2>2. score \in Scores \cup {NoScore}
      BY <1>1 DEF Observation
    <2>3. code \in Codes \cup {NoCode}
      BY <1>1, OutcomeIsCode DEF Observation, OutcomeOrElse
    <2>4. score # NoScore => code = Outcome(score)
      BY DEF OutcomeOrElse
    <2>5. (line.final \/ row.final) \in BOOLEAN
      OBVIOUS
    <2> HIDE DEF score, code
    <2>6. Merged(row, line) \in Observation
      BY <2>1, <2>2, <2>3, <2>5 DEF Observation
    <2>7. /\ Merged(row, line).score = score
          /\ Merged(row, line).code = code
          /\ Merged(row, line).final = (line.final \/ row.final)
      BY <2>1
    <2> QED
      BY <1>3, <2>4, <2>6, <2>7 DEF Promotes
  <1> QED
    BY <1>2, <1>3

LEMMA InitResultsInv == Init => ResultsInv
  <1> SUFFICES ASSUME Init PROVE ResultsInv
    OBVIOUS
  <1>1. TypeOK
    BY DEF Init, TypeOK, Observation, Unseen, Progress
  <1>2. CodeFollowsGoals /\ FinalScoreIsCanonical /\ EndedIsReported
    BY DEF Init, CodeFollowsGoals, FinalScoreIsCanonical, EndedIsReported, Unseen
  <1>3. ManualIsWrittenOnce /\ CompleteScoreWasFinal
    BY DEF Init, ManualIsWrittenOnce, CompleteScoreWasFinal
  <1> QED
    BY <1>1, <1>2, <1>3 DEF ResultsInv

------------------------------------------------------------------------------

(* What one document changes, row by row. *)
LEMMA RecordedRows ==
  ASSUME ResultsInv, NEW s \in Observers, NEW doc \in [Matches -> Lines], Record(s, doc)
  PROVE  /\ \A m \in Matches, t \in Observers :
              live'[m][t] = IF t = s THEN Merged(live[m][t], doc[m]) ELSE live[m][t]
         /\ results \subseteq results'
         /\ \A r \in results' \ results : \E m \in Matches :
              /\ Promotes(live[m][s], doc[m])
              /\ r = [match |-> m, source |-> s, score |-> live'[m][s].score,
                      code |-> live'[m][s].code]
         /\ \A m \in Matches : Promotes(live[m][s], doc[m]) =>
              [match |-> m, source |-> s, score |-> live'[m][s].score,
               code |-> live'[m][s].code] \in results'
         /\ reported \subseteq reported'
         /\ \A m \in Matches : doc[m].final => Stated(m)'
  <1>1. \A m \in Matches, t \in Observers :
          live'[m][t] = IF t = s THEN Merged(live[m][t], doc[m]) ELSE live[m][t]
    BY DEF Record, ResultsInv, TypeOK
  <1>2. \A m \in Matches : Promotes(live[m][s], doc[m]) =>
          Promoted(m, s, doc[m]) = {[match |-> m, source |-> s, score |-> live'[m][s].score,
                                     code |-> live'[m][s].code]}
    BY <1>1 DEF Promoted
  <1>3. \A m \in Matches : ~Promotes(live[m][s], doc[m]) => Promoted(m, s, doc[m]) = {}
    BY DEF Promoted
  <1>4. results' = results \cup UNION {Promoted(m, s, doc[m]) : m \in Matches}
    BY DEF Record
  <1>5. reported' = reported \cup
          {[match |-> m, source |-> s, score |-> doc[m].score] :
             m \in {n \in Matches : doc[n].final}}
    BY DEF Record
  <1>6. \A m \in Matches : doc[m].final => Stated(m)'
    <2> TAKE m \in Matches
    <2> HAVE doc[m].final
    <2>1. [match |-> m, source |-> s, score |-> doc[m].score] \in reported'
      BY <1>5
    <2> QED
      BY <2>1 DEF Stated
  <1> QED
    BY <1>1, <1>2, <1>3, <1>4, <1>5, <1>6

(* Every document, of whichever feed or script, preserves the invariant. *)
LEMMA RecordKeepsInv ==
  ASSUME ResultsInv, NEW s \in Observers, NEW doc \in [Matches -> Lines], Record(s, doc)
  PROVE  ResultsInv'
  <1> USE DEF ResultsInv
  <1>1. \A m \in Matches, t \in Observers :
          /\ live[m][t] \in Observation
          /\ live[m][t].score # NoScore => live[m][t].code = Outcome(live[m][t].score)
    BY DEF TypeOK, CodeFollowsGoals
  <1>2. \A m \in Matches, t \in Observers :
          /\ live'[m][t] \in Observation
          /\ live'[m][t].score # NoScore => live'[m][t].code = Outcome(live'[m][t].score)
          /\ live'[m][t].final => live[m][t].final \/ (t = s /\ doc[m].final)
          /\ live'[m][t].final /\ live'[m][t].score # NoScore =>
               live'[m][t] = live[m][t] \/ (t = s /\ Promotes(live[m][t], doc[m]))
    BY <1>1, RecordedRows, MergedRow
  <1>3. \A m \in Matches : Promotes(live[m][s], doc[m]) =>
          live'[m][s].final /\ live'[m][s].score # NoScore
    BY RecordedRows DEF Promotes
  <1>4. \A r \in results' \ results :
          /\ r \in Result /\ r.source = s /\ r.code = Outcome(r.score)
          /\ \E m \in Matches : r.match = m /\ live'[m][s].final
    <2> TAKE r \in results' \ results
    <2>1. PICK m \in Matches :
            /\ Promotes(live[m][s], doc[m])
            /\ r = [match |-> m, source |-> s, score |-> live'[m][s].score,
                    code |-> live'[m][s].code]
      BY RecordedRows
    <2>2. live'[m][s].score \in Scores /\ live'[m][s].code = Outcome(live'[m][s].score)
      BY <2>1, <1>2, <1>3 DEF Observation
    <2> QED
      BY <2>1, <2>2, <1>3, OutcomeIsCode DEF Result, Sources
  <1>5. TypeOK'
    <2>1. live' \in [Matches -> [Observers -> Observation]]
      BY <1>2 DEF Record, TypeOK
    <2>2. results' \subseteq Result
      BY <1>4 DEF TypeOK
    <2>3. reported' \subseteq [match: Matches, source: Sources, score: Scores \cup {NoScore}]
      <3>1. \A m \in Matches : doc[m].score \in Scores \cup {NoScore}
        BY DEF Lines, Observation
      <3> QED
        BY <3>1 DEF Record, TypeOK, Sources
    <2> QED
      BY <2>1, <2>2, <2>3 DEF Record, TypeOK
  <1>6. CodeFollowsGoals'
    BY <1>2, <1>4 DEF CodeFollowsGoals
  <1>7. FinalScoreIsCanonical'
    <2> SUFFICES ASSUME NEW m \in Matches, NEW t \in Observers,
                        live'[m][t].final, live'[m][t].score # NoScore
                 PROVE  \E r \in results' : r.match = m /\ r.source = t /\ r.score = live'[m][t].score
      BY DEF FinalScoreIsCanonical
    <2>1. CASE live'[m][t] = live[m][t]
      BY <2>1, RecordedRows DEF FinalScoreIsCanonical
    <2>2. CASE t = s /\ Promotes(live[m][t], doc[m])
      BY <2>2, RecordedRows
    <2> QED
      BY <1>2, <2>1, <2>2
  <1>8. ManualIsWrittenOnce'
    BY <1>4, PriorityAssumption DEF ManualIsWrittenOnce
  <1>9. \A m \in Matches : Stated(m) => Stated(m)'
    BY RecordedRows DEF Stated
  <1>10. \A m \in Matches, t \in Observers : live'[m][t].final => Stated(m)'
    BY <1>2, <1>9, RecordedRows DEF EndedIsReported
  <1>11. EndedIsReported'
    <2>1. \A r \in results' : Stated(r.match)'
      BY <1>4, <1>9, <1>10 DEF EndedIsReported, TypeOK, Result
    <2> QED
      BY <2>1, <1>10 DEF EndedIsReported
  <1>12. CompleteScoreWasFinal'
    BY <1>9 DEF CompleteScoreWasFinal, Record, Stated
  <1> QED
    BY <1>5, <1>6, <1>7, <1>8, <1>11, <1>12

(* A backfill is a document of final scores. *)
LEMMA BackfillIsRecord ==
  ASSUME NEW s \in Archives, NEW scores \in [Matches -> Scores \cup {NoScore}],
         NEW force \in BOOLEAN, Backfill(s, scores, force)
  PROVE  \E doc \in [Matches -> Lines] : Record(s, doc)
  <1> DEFINE doc == [m \in Matches |->
                       IF scores[m] # NoScore /\ (force \/ Rows(m) = {})
                       THEN [score |-> scores[m], code |-> Outcome(scores[m]), final |-> TRUE]
                       ELSE Unseen]
  <1>1. \A m \in Matches : doc[m] \in Lines
    BY OutcomeIsCode, ScoresAssumption DEF Lines, Observation, Unseen
  <1>2. Record(s, doc)
    BY DEF Backfill
  <1> QED
    BY <1>1, <1>2

(* The manual file adds one row to each match that has none of its source. *)
LEMMA ApplyManualKeepsInv ==
  ASSUME ResultsInv, ApplyManual
  PROVE  ResultsInv'
  <1> USE DEF ResultsInv
  <1> DEFINE fresh == {n \in Matches : \A r \in Rows(n) : r.source # Manual}
  <1>1. file \in [Matches -> Scores]
    BY DEF ApplyManual, TypeOK
  <1>2. results' = results \cup {ManualRow(m) : m \in fresh}
    BY DEF ApplyManual
  <1>3. \A m \in Matches : ManualRow(m) \in Result /\ ManualRow(m).code = Outcome(ManualRow(m).score)
                           /\ ManualRow(m).match = m /\ ManualRow(m).source = Manual
    BY <1>1, OutcomeIsCode DEF ManualRow, Result, Sources
  <1>4. reported' = reported \cup
          {[match |-> m, source |-> Manual, score |-> file[m]] : m \in Matches}
    BY DEF ApplyManual
  <1>5. \A m \in Matches : Stated(m)'
    <2> TAKE m \in Matches
    <2>1. [match |-> m, source |-> Manual, score |-> file[m]] \in reported'
      BY <1>4
    <2> QED
      BY <2>1 DEF Stated
  <1>6. TypeOK'
    <2>1. results' \subseteq Result
      BY <1>2, <1>3 DEF TypeOK
    <2>2. reported' \subseteq [match: Matches, source: Sources, score: Scores \cup {NoScore}]
      BY <1>1, <1>4 DEF TypeOK, Sources
    <2> QED
      BY <2>1, <2>2 DEF ApplyManual, TypeOK
  <1>7. CodeFollowsGoals'
    BY <1>2, <1>3 DEF CodeFollowsGoals, ApplyManual
  <1>8. FinalScoreIsCanonical'
    BY <1>2 DEF FinalScoreIsCanonical, ApplyManual
  <1>9. ManualIsWrittenOnce'
    <2> SUFFICES ASSUME NEW r \in results', NEW q \in results', r.match = q.match,
                        r.source = Manual, q.source = Manual
                 PROVE  r = q
      BY DEF ManualIsWrittenOnce
    <2>1. \A n \in fresh : \A p \in results : p.match = n => p.source # Manual
      BY DEF Rows
    <2>2. \A p \in results' : p \in results \/ (p.match \in fresh /\ p = ManualRow(p.match))
      BY <1>2, <1>3
    <2> HIDE DEF fresh
    <2> QED
      BY <2>1, <2>2 DEF ManualIsWrittenOnce
  <1>10. EndedIsReported'
    <2>1. \A r \in results' : r.match \in Matches
      BY <1>6 DEF TypeOK, Result
    <2> QED
      BY <2>1, <1>5 DEF EndedIsReported
  <1>11. CompleteScoreWasFinal'
    BY <1>5 DEF CompleteScoreWasFinal, Stated
  <1> QED
    BY <1>6, <1>7, <1>8, <1>9, <1>10, <1>11

(* A historical document puts final scores in rows of its own source, new  *)
(* ones and those it left before, so that no other source loses a row. *)
LEMMA HistoryKeepsInv ==
  ASSUME ResultsInv, NEW s \in Histories, NEW scores \in [Matches -> Scores \cup {NoScore}],
         NEW old \in SUBSET results, IngestHistory(s, scores, old)
  PROVE  ResultsInv'
  <1> USE DEF ResultsInv
  <1> DEFINE told == {m \in Matches : scores[m] # NoScore}
             row(m) == [match |-> m, source |-> s, score |-> scores[m], code |-> Outcome(scores[m])]
             new == {row(m) : m \in told}
  <1>1. /\ results' = (results \ old) \cup new
        /\ \A r \in old : r.source = s
        /\ rewritten' = rewritten \cup {r.match : r \in old \ new}
        /\ reported' = reported \cup {[match |-> m, source |-> s, score |-> scores[m]] : m \in told}
        /\ polls' = polls + 1
        /\ UNCHANGED <<official, live, file, cycle, staged, stored>>
    BY DEF IngestHistory
  <1>2. s \in Sources /\ s # Manual /\ s \notin Observers
    BY PriorityAssumption DEF Sources
  <1>3. \A m \in told : /\ row(m) \in Result /\ row(m).source = s /\ row(m).match = m
                        /\ row(m).code = Outcome(row(m).score)
    BY <1>2, OutcomeIsCode DEF Result
  <1>4. \A r \in new : r \in Result /\ r.source = s /\ r.match \in told /\ r.code = Outcome(r.score)
    BY <1>3
  <1>5. \A m \in Matches : Stated(m) => Stated(m)'
    BY <1>1 DEF Stated
  <1>6. \A m \in told : Stated(m)'
    <2> TAKE m \in told
    <2>1. [match |-> m, source |-> s, score |-> scores[m]] \in reported'
      BY <1>1
    <2> QED
      BY <2>1 DEF Stated
  <1>7. TypeOK'
    <2>1. results' \subseteq Result
      BY <1>1, <1>4 DEF TypeOK
    <2>2. reported' \subseteq [match: Matches, source: Sources, score: Scores \cup {NoScore}]
      BY <1>1, <1>2 DEF TypeOK
    <2>3. rewritten' \subseteq Matches
      BY <1>1 DEF TypeOK, Result
    <2> HIDE DEF told, new
    <2> QED
      BY <1>1, <2>1, <2>2, <2>3 DEF TypeOK
  <1> HIDE DEF told, row, new
  <1>8. CodeFollowsGoals'
    BY <1>1, <1>4 DEF CodeFollowsGoals
  <1>9. FinalScoreIsCanonical'
    BY <1>1, <1>2 DEF FinalScoreIsCanonical
  <1>10. ManualIsWrittenOnce'
    BY <1>1, <1>2, <1>4 DEF ManualIsWrittenOnce
  <1>11. EndedIsReported'
    BY <1>1, <1>4, <1>5, <1>6 DEF EndedIsReported, TypeOK, Result
  <1>12. CompleteScoreWasFinal'
    BY <1>1, <1>5 DEF CompleteScoreWasFinal, Stated
  <1> QED
    BY <1>7, <1>8, <1>9, <1>10, <1>11, <1>12

(* A score computed complete counts matches that some source stated final. *)
LEMMA ComputedWasFinal ==
  ASSUME ResultsInv, Computed = "complete"
  PROVE  \A m \in Matches : \E r \in reported : r.match = m
  <1> TAKE m \in Matches
  <1>1. Counted(m)
    BY DEF Computed
  <1>2. CASE HasCanonical(m)
    <2>1. PICK r \in results : r.match = m
      BY <1>2 DEF HasCanonical, Rows
    <2> QED
      BY <2>1 DEF ResultsInv, EndedIsReported, Stated
  <1>3. CASE \E s \in BestLive(m) : live[m][s].final /\ live[m][s].score = NoScore
    BY <1>3 DEF BestLive, Seen, ResultsInv, EndedIsReported, Stated
  <1> QED
    BY <1>1, <1>2, <1>3 DEF Counted

(* Steps that touch no result: a score is computed, flushed, committed or lost. *)
LEMMA ScoreStepKeepsInv ==
  ASSUME ResultsInv,
         (\E scores \in [Matches -> Scores] : EvaluateManual(scores))
           \/ Observe \/ CommitCycle \/ EndCycle \/ ComputeScore \/ GainLineage \/ UNCHANGED vars
  PROVE  ResultsInv'
  <1> USE DEF ResultsInv
  <1>1. live' = live /\ results' = results /\ reported' = reported
    BY DEF EvaluateManual, Observe, CommitCycle, EndCycle, ComputeScore, GainLineage, vars
  <1>2. CodeFollowsGoals' /\ FinalScoreIsCanonical' /\ ManualIsWrittenOnce' /\ EndedIsReported'
    BY <1>1 DEF CodeFollowsGoals, FinalScoreIsCanonical, ManualIsWrittenOnce, EndedIsReported, Stated
  <1>3. TypeOK'
    <2>1. Computed \in Progress
      BY DEF Computed, Progress
    <2>2. CASE \E scores \in [Matches -> Scores] : EvaluateManual(scores)
      BY <2>2, PollsAssumption DEF TypeOK, EvaluateManual
    <2>3. CASE Observe
      BY <2>1, <2>3 DEF TypeOK, Progress, Observe
    <2>4. CASE CommitCycle \/ EndCycle \/ ComputeScore
      BY <2>1, <2>4 DEF TypeOK, Progress, CommitCycle, EndCycle, ComputeScore
    <2>5. CASE GainLineage \/ UNCHANGED vars
      BY <2>5 DEF TypeOK, GainLineage, vars
    <2> QED
      BY <2>2, <2>3, <2>4, <2>5
  <1>4. CompleteScoreWasFinal'
    <2>1. "complete" \in {staged', stored'} =>
            "complete" \in {staged, stored} \/ Computed = "complete"
      BY DEF EvaluateManual, Observe, CommitCycle, EndCycle, ComputeScore, GainLineage, vars
    <2> QED
      BY <1>1, <2>1, ComputedWasFinal DEF CompleteScoreWasFinal
  <1> QED
    BY <1>2, <1>3, <1>4

(* Every step of the tables. *)
LEMMA ResultsStep == ResultsInv /\ [Next]_vars => ResultsInv'
  <1> SUFFICES ASSUME ResultsInv, [Next]_vars PROVE ResultsInv'
    OBVIOUS
  <1>1. CASE \E s \in Feeds, doc \in [Matches -> Lines] : Ingest(s, doc)
    BY <1>1, RecordKeepsInv DEF Ingest, Observers
  <1>2. CASE \E s \in Archives, scores \in [Matches -> Scores \cup {NoScore}],
                force \in BOOLEAN : Backfill(s, scores, force)
    BY <1>2, BackfillIsRecord, RecordKeepsInv DEF Observers
  <1>3. CASE ApplyManual
    BY <1>3, ApplyManualKeepsInv
  <1>4. CASE \/ \E scores \in [Matches -> Scores] : EvaluateManual(scores)
             \/ Observe \/ CommitCycle \/ EndCycle \/ ComputeScore \/ GainLineage \/ UNCHANGED vars
    BY <1>4, ScoreStepKeepsInv
  <1>5. CASE \E s \in Histories, scores \in [Matches -> Scores \cup {NoScore}],
                old \in SUBSET results : IngestHistory(s, scores, old)
    BY <1>5, HistoryKeepsInv
  <1> QED
    BY <1>1, <1>2, <1>3, <1>4, <1>5 DEF Next

(* The inductive invariant holds in every reachable state. *)
THEOREM ResultsInvariant == Spec => []ResultsInv
  BY InitResultsInv, ResultsStep, PTL DEF Spec

(* Every table keeps its type, and a flushed score an open session. *)
THEOREM ResultsTyped == Spec => []TypeOK
  BY ResultsInvariant, PTL DEF ResultsInv

(* The outcome of a row follows its goals, whoever wrote it. *)
THEOREM CodesFollowGoals == Spec => []CodeFollowsGoals
  BY ResultsInvariant, PTL DEF ResultsInv

(* No final score of any source is lost to the canonical store. *)
THEOREM FinalScoresAreCanonical == Spec => []FinalScoreIsCanonical
  BY ResultsInvariant, PTL DEF ResultsInv

(* The manual official file is written once per match. *)
THEOREM ManualWrittenOnce == Spec => []ManualIsWrittenOnce
  BY ResultsInvariant, PTL DEF ResultsInv

(* A complete jornada score counts matches that were stated final. *)
THEOREM CompleteScoresWereFinal == Spec => []CompleteScoreWasFinal
  BY ResultsInvariant, PTL DEF ResultsInv

------------------------------------------------------------------------------
(* The reports. *)

\* What a score says of a match stays on record: a canonical code leaves a row, of the same
\* code unless a result was rewritten, and any code leaves a row or an observation.
OnRecord(d) ==
  \A m \in Matches :
    /\ d[m].canonical => Rows(m) # {}
    /\ d[m].canonical /\ m \notin rewritten => \E r \in Rows(m) : r.code = d[m].code
    /\ d[m].code # NoCode => Rows(m) # {} \/ Seen(m) # {}

LearningInv == ResultsInv /\ LearningTypeOK /\ OnRecord(flushed) /\ OnRecord(details)

(* A nonempty set of sources has one that goes first. *)
LEMMA FirstSource ==
  ASSUME NEW S \in SUBSET Sources, S # {}
  PROVE  \E s \in S : \A t \in S : Priority[s] <= Priority[t]
  <1> DEFINE Ranks == {Priority[s] : s \in S}
  <1>1. Ranks \subseteq Nat /\ Ranks # {}
    BY PriorityAssumption
  <1>2. PICK n \in Ranks : \A m \in Ranks : ~(<<m, n>> \in OpToRel(<, Nat))
    <2> HIDE DEF Ranks
    <2> QED
      BY <1>1, WFMin, NatLessThanWellFounded, Zenon
  <1>3. \A m \in Ranks : ~(m < n)
    BY <1>1, <1>2 DEF OpToRel
  <1>4. PICK s \in S : n = Priority[s]
    OBVIOUS
  <1>5. \A t \in S : Priority[t] \in Nat /\ ~(Priority[t] < Priority[s])
    BY <1>3, <1>4, PriorityAssumption
  <1>6. Priority[s] \in Nat
    BY PriorityAssumption
  <1> QED
    BY <1>5, <1>6

(* The canonical code of a match is the code of each of its rows. *)
LEMMA CanonicalIsRow ==
  ASSUME results \subseteq Result, NEW m \in Matches, HasCanonical(m)
  PROVE  /\ Canonical(m) \in Codes
         /\ \A r \in Rows(m) : r.code = Canonical(m)
  <1> DEFINE S == {r.source : r \in Rows(m)}
  <1>1. S \in SUBSET Sources /\ S # {}
    BY DEF HasCanonical, Rows, Result
  <1>2. PICK s \in S : \A t \in S : Priority[s] <= Priority[t]
    <2> HIDE DEF S
    <2> QED
      BY <1>1, FirstSource
  <1>3. PICK r \in Rows(m) : r.source = s
    OBVIOUS
  <1>4. r \in Leading(m)
    BY <1>2, <1>3 DEF Leading
  <1>5. (CHOOSE q \in Leading(m) : TRUE) \in Leading(m)
    BY <1>4
  <1>6. (CHOOSE q \in Leading(m) : TRUE) \in Rows(m)
    BY <1>5 DEF Leading
  <1>7. Canonical(m) = (CHOOSE q \in Leading(m) : TRUE).code
    BY DEF Canonical
  <1>8. \A q \in Rows(m) : q.code = Canonical(m)
    BY <1>6, <1>7 DEF HasCanonical, Conflicting
  <1>9. r.code \in Codes
    BY <1>3 DEF Rows, Result
  <1> QED
    BY <1>3, <1>8, <1>9

(* A match that some source has a code for has a best observation. *)
LEMMA SeenHasBest ==
  ASSUME NEW m \in Matches
  PROVE  Seen(m) # {} <=> BestLive(m) # {}
  <1>1. Seen(m) \in SUBSET Sources
    BY DEF Seen, Sources
  <1> QED
    BY <1>1, FirstSource DEF BestLive

(* A match that counts has a code, and a canonical one shows its rows'. *)
LEMMA ShownCodes ==
  ASSUME ResultsInv, NEW m \in Matches
  PROVE  /\ HasCanonical(m) => ShownCode(m) = Canonical(m)
         /\ Counted(m) => ShownCode(m) \in Codes
         /\ ShownCode(m) \in Codes \cup {NoCode}
  <1>0. results \subseteq Result /\ live \in [Matches -> [Observers -> Observation]]
    BY DEF ResultsInv, TypeOK
  <1>1. CASE HasCanonical(m)
    BY <1>0, <1>1, CanonicalIsRow DEF ShownCode
  <1>2. CASE ~HasCanonical(m) /\ BestLive(m) = {}
    BY <1>2 DEF ShownCode, Canonical, Counted
  <1>3. CASE ~HasCanonical(m) /\ BestLive(m) # {}
    <2> DEFINE s == CHOOSE s \in BestLive(m) : TRUE
    <2>1. s \in BestLive(m)
      BY <1>3
    <2>2. ShownCode(m) = live[m][s].code
      BY <1>3 DEF ShownCode
    <2> HIDE DEF s
    <2>3. s \in Observers /\ live[m][s].code # NoCode
      BY <2>1 DEF BestLive, Seen
    <2>4. live[m][s].code \in Codes \cup {NoCode}
      BY <1>0, <2>3 DEF Observation
    <2> QED
      BY <1>3, <2>2, <2>3, <2>4
  <1> QED
    BY <1>1, <1>2, <1>3

(* What is computed of the matches is typed and on record. *)
LEMMA DetailsOnRecord ==
  ASSUME ResultsInv
  PROVE  /\ Details \in [Matches -> Detail]
         /\ OnRecord(Details)
         /\ Computed = "complete" => \A m \in Matches : Details[m].code # NoCode
         /\ Computed \in {"partial", "complete"}
  <1>0. results \subseteq Result
    BY DEF ResultsInv, TypeOK
  <1>1. \A m \in Matches :
          /\ Details[m].code = IF Counted(m) THEN ShownCode(m) ELSE NoCode
          /\ Details[m].canonical = HasCanonical(m)
    BY DEF Details
  <1>2. \A m \in Matches : HasCanonical(m) \in BOOLEAN
    BY DEF HasCanonical
  <1>3. Details \in [Matches -> Detail]
    BY <1>2, ShownCodes DEF Details, Detail
  <1>4. ASSUME NEW m \in Matches, Details[m].canonical
        PROVE  \E r \in Rows(m) : r.code = Details[m].code
    <2>1. HasCanonical(m) /\ Details[m].code = Canonical(m)
      BY <1>1, <1>4, ShownCodes DEF Counted
    <2>2. PICK r \in Rows(m) : TRUE
      BY <2>1 DEF HasCanonical
    <2> QED
      BY <1>0, <2>1, <2>2, CanonicalIsRow
  <1>5. ASSUME NEW m \in Matches, Details[m].code # NoCode
        PROVE  Rows(m) # {} \/ Seen(m) # {}
    <2>1. Counted(m)
      BY <1>1, <1>5
    <2> QED
      BY <2>1 DEF Counted, HasCanonical, BestLive
  <1>6. Computed = "complete" => \A m \in Matches : Details[m].code # NoCode
    BY <1>1, ShownCodes, ScoresAssumption DEF Computed, Codes
  <1>7. Computed \in {"partial", "complete"}
    BY DEF Computed
  <1> QED
    BY <1>3, <1>4, <1>5, <1>6, <1>7 DEF OnRecord

(* A match keeps its rows, unless a result is rewritten, and then it keeps *)
(* one; and a code that was seen is never forgotten. *)
LEMMA NothingIsForgotten ==
  ASSUME ResultsInv, [Next]_vars, NEW m \in Matches
  PROVE  /\ Rows(m) # {} => Rows(m)' # {}
         /\ m \notin rewritten' => Rows(m) \subseteq Rows(m)'
         /\ m \in rewritten => m \in rewritten'
         /\ Seen(m) \subseteq Seen(m)'
  <1>1. ASSUME NEW s \in Observers, NEW doc \in [Matches -> Lines], Record(s, doc)
        PROVE  results \subseteq results' /\ rewritten' = rewritten /\ Seen(m) \subseteq Seen(m)'
    <2>1. results \subseteq results' /\ rewritten' = rewritten
      BY <1>1, RecordedRows DEF Record
    <2> SUFFICES ASSUME NEW t \in Observers, live[m][t].code # NoCode
                 PROVE  live'[m][t].code # NoCode
      BY <2>1 DEF Seen
    <2>2. live'[m][t] = IF t = s THEN Merged(live[m][t], doc[m]) ELSE live[m][t]
      BY <1>1, RecordedRows
    <2>3. \A score : Outcome(score) # NoCode
      BY OutcomeIsCode, ScoresAssumption DEF Codes
    <2>4. Merged(live[m][t], doc[m]).code # NoCode
      BY <2>3 DEF Merged, OutcomeOrElse
    <2> QED
      BY <2>2, <2>4
  <1>2. CASE \E s \in Feeds, doc \in [Matches -> Lines] : Ingest(s, doc)
    BY <1>1, <1>2 DEF Ingest, Observers, Rows
  <1>3. CASE \E s \in Archives, scores \in [Matches -> Scores \cup {NoScore}],
                force \in BOOLEAN : Backfill(s, scores, force)
    BY <1>1, <1>3, BackfillIsRecord DEF Observers, Rows
  <1>4. CASE \/ \E scores \in [Matches -> Scores] : EvaluateManual(scores)
             \/ ApplyManual
             \/ Observe \/ CommitCycle \/ EndCycle \/ ComputeScore \/ GainLineage \/ UNCHANGED vars
    <2>1. live' = live /\ results \subseteq results' /\ rewritten' = rewritten
      BY <1>4 DEF EvaluateManual, ApplyManual, Observe, CommitCycle, EndCycle, ComputeScore,
                  GainLineage, vars
    <2> QED
      BY <2>1 DEF Rows, Seen
  <1>5. ASSUME NEW s \in Histories, NEW scores \in [Matches -> Scores \cup {NoScore}],
               NEW old \in SUBSET results, IngestHistory(s, scores, old)
        PROVE  /\ Rows(m) # {} => Rows(m)' # {}
               /\ m \notin rewritten' => Rows(m) \subseteq Rows(m)'
               /\ rewritten \subseteq rewritten' /\ live' = live
    <2> DEFINE told == {n \in Matches : scores[n] # NoScore}
               row(n) == [match |-> n, source |-> s, score |-> scores[n], code |-> Outcome(scores[n])]
               new == {row(n) : n \in told}
    <2>1. /\ results' = (results \ old) \cup new
          /\ \A r \in old : r.match \in told
          /\ rewritten' = rewritten \cup {r.match : r \in old \ new}
          /\ live' = live
      BY <1>5 DEF IngestHistory
    <2>2. \A n \in told : row(n) \in new /\ row(n).match = n
      OBVIOUS
    <2> HIDE DEF told, row, new
    <2>3. ASSUME NEW r \in Rows(m) PROVE Rows(m)' # {}
      <3>1. CASE r \in old
        BY <2>1, <2>2, <3>1 DEF Rows
      <3>2. CASE r \notin old
        BY <2>1, <3>2 DEF Rows
      <3> QED
        BY <3>1, <3>2
    <2>4. ASSUME m \notin rewritten', NEW r \in Rows(m) PROVE r \in Rows(m)'
      BY <2>1, <2>4 DEF Rows
    <2> QED
      BY <2>1, <2>3, <2>4
  <1>6. CASE \E s \in Histories, scores \in [Matches -> Scores \cup {NoScore}],
                old \in SUBSET results : IngestHistory(s, scores, old)
    BY <1>5, <1>6 DEF Seen
  <1> QED
    BY <1>2, <1>3, <1>4, <1>6 DEF Next

(* So what is on record stays there. *)
LEMMA StaysOnRecord ==
  ASSUME ResultsInv, [Next]_vars, NEW d, OnRecord(d)
  PROVE  \A m \in Matches :
           /\ d[m].canonical => Rows(m)' # {}
           /\ d[m].canonical /\ m \notin rewritten' => \E r \in Rows(m)' : r.code = d[m].code
           /\ d[m].code # NoCode => Rows(m)' # {} \/ Seen(m)' # {}
  BY NothingIsForgotten DEF OnRecord

(* Every step of the reports is one of the tables. *)
LEMMA LearningIsNext == [LearningNext]_learningVars => [Next]_vars
  BY DEF LearningNext, Reported, FlushScore, CommitScore, CloseCycle, RequestScore, Next,
         learningVars

LEMMA NoDetailsOnRecord == NoDetails \in [Matches -> Detail] /\ OnRecord(NoDetails)
  BY DEF NoDetails, Detail, OnRecord

LEMMA LearningInitially == LearningInit => LearningInv
  <1> SUFFICES ASSUME LearningInit PROVE LearningInv
    OBVIOUS
  <1>1. ResultsInv
    BY InitResultsInv DEF LearningInit
  <1>2. LearningTypeOK
    BY <1>1, NoDetailsOnRecord DEF LearningInit, LearningTypeOK, ResultsInv, Init
  <1> QED
    BY <1>1, <1>2, NoDetailsOnRecord DEF LearningInv, LearningInit

(* A stored score keeps what was computed when it was flushed or asked for. *)
LEMMA LearningStep == LearningInv /\ [LearningNext]_learningVars => LearningInv'
  <1> SUFFICES ASSUME LearningInv, [LearningNext]_learningVars PROVE LearningInv'
    OBVIOUS
  <1>0. ResultsInv /\ LearningTypeOK /\ OnRecord(flushed) /\ OnRecord(details)
    BY DEF LearningInv
  <1>1. [Next]_vars
    BY LearningIsNext
  <1>2. ResultsInv' /\ TypeOK'
    BY <1>0, <1>1, ResultsStep DEF ResultsInv
  <1>3. \A d : OnRecord(d) =>
          \A m \in Matches :
            /\ d[m].canonical => Rows(m)' # {}
            /\ d[m].canonical /\ m \notin rewritten' => \E r \in Rows(m)' : r.code = d[m].code
            /\ d[m].code # NoCode => Rows(m)' # {} \/ Seen(m)' # {}
    BY <1>0, <1>1, StaysOnRecord
  <1>4. \A d : OnRecord(d) /\ flushed' = d => OnRecord(flushed)'
    BY <1>3, ZenonT(60) DEF OnRecord
  <1>5. \A d : OnRecord(d) /\ details' = d => OnRecord(details)'
    BY <1>3, ZenonT(60) DEF OnRecord
  <1>6. CASE Reported \/ UNCHANGED learningVars
    <2>1. UNCHANGED <<sheet, flushed, details>>
      BY <1>6 DEF Reported, learningVars
    <2>2. UNCHANGED <<staged, stored>>
      BY <1>6 DEF Reported, learningVars, vars, GainLineage, Ingest, Backfill, Record, IngestHistory,
                  EvaluateManual, ApplyManual
    <2>3. LearningTypeOK'
      BY <1>0, <1>2, <2>1, <2>2 DEF LearningTypeOK
    <2> QED
      BY <1>0, <1>2, <1>4, <1>5, <2>1, <2>3 DEF LearningInv
  <1>7. CASE FlushScore
    <2>1. /\ staged' = "none" \/ staged' = Computed
          /\ flushed' = IF staged' = "none" THEN NoDetails ELSE Details
          /\ UNCHANGED <<sheet, details, stored>>
      BY <1>7 DEF FlushScore, Observe
    <2>2. LearningTypeOK'
      BY <1>0, <1>2, <2>1, NoDetailsOnRecord, DetailsOnRecord DEF LearningTypeOK
    <2>3. OnRecord(flushed)'
      BY <1>0, <1>4, <2>1, NoDetailsOnRecord, DetailsOnRecord
    <2> QED
      BY <1>0, <1>2, <1>5, <2>1, <2>2, <2>3 DEF LearningInv
  <1>8. CASE CommitScore
    <2>1. /\ stored' = staged /\ staged' = "none"
          /\ details' = flushed /\ flushed' = NoDetails /\ sheet' = sheet
      BY <1>8 DEF CommitScore, CommitCycle
    <2>2. LearningTypeOK'
      BY <1>0, <1>2, <2>1, NoDetailsOnRecord DEF LearningTypeOK
    <2> QED
      BY <1>0, <1>2, <1>4, <1>5, <2>1, <2>2, NoDetailsOnRecord DEF LearningInv
  <1>9. CASE CloseCycle
    <2>1. /\ staged' = "none" /\ flushed' = NoDetails /\ UNCHANGED <<stored, sheet, details>>
      BY <1>9 DEF CloseCycle, EndCycle
    <2>2. LearningTypeOK'
      BY <1>0, <1>2, <2>1, NoDetailsOnRecord DEF LearningTypeOK
    <2> QED
      BY <1>0, <1>2, <1>4, <1>5, <2>1, <2>2, NoDetailsOnRecord DEF LearningInv
  <1>10. CASE RequestScore
    <2>1. /\ stored' = Computed /\ details' = Details /\ UNCHANGED <<staged, sheet, flushed>>
      BY <1>10 DEF RequestScore, ComputeScore
    <2>2. LearningTypeOK'
      BY <1>0, <1>2, <2>1, DetailsOnRecord DEF LearningTypeOK
    <2> QED
      BY <1>0, <1>2, <1>4, <1>5, <2>1, <2>2, DetailsOnRecord DEF LearningInv
  <1> QED
    BY <1>6, <1>7, <1>8, <1>9, <1>10 DEF LearningNext

THEOREM LearningInvariant == LearningSpec => []LearningInv
  BY LearningInitially, LearningStep, PTL DEF LearningSpec

(* Details belong to a score: a complete one has a code for every match,   *)
(* whichever session flushed it and whichever request overtook it.         *)
THEOREM LearningTyped == LearningSpec => []LearningTypeOK
  BY LearningInvariant, PTL DEF LearningInv

(* The tables keep their promises while the reports are stored. *)
THEOREM ReportedScoresWereFinal == LearningSpec => [](FinalScoreIsCanonical /\ CompleteScoreWasFinal)
  BY LearningInvariant, PTL DEF LearningInv, ResultsInv

------------------------------------------------------------------------------

(* A detail that was canonical stays backed by a row, so the gate's fast   *)
(* count sees what the training dataset builds. *)
LEMMA RowsDoAgree == LearningInv => RowsAgree
  <1> SUFFICES ASSUME LearningInv, ComparableLineage PROVE
        /\ (\A m \in Matches : ~Conflicting(m)) => ClassificationRows = TrainingRows
        /\ \A m \in TrainingRows : LearningStatus(m) # "excluded"
    BY DEF RowsAgree
  <1>1. \A m \in Matches : details[m].canonical => Rows(m) # {}
    BY DEF LearningInv, OnRecord
  <1>2. \A m \in Matches : details[m].canonical /\ ~Conflicting(m) => HasCanonical(m)
    BY <1>1 DEF HasCanonical
  <1>3. ASSUME \A m \in Matches : ~Conflicting(m) PROVE ClassificationRows = TrainingRows
    BY <1>2, <1>3 DEF ClassificationRows, FastRows, TrainingRows
  <1>4. \A m \in TrainingRows : LearningStatus(m) # "excluded"
    BY DEF TrainingRows, LearningStatus
  <1> QED
    BY <1>3, <1>4

(* The first sign is one of the first two. *)
LEMMA TopSignsGrow ==
  \A m : TopSigns(m, 1) \subseteq TopSigns(m, 2)
  BY DEF TopSigns

(* A prediction the learning score finds is one of the three, and there is *)
(* one when there is any. *)
LEMMA LatestIsPredicted ==
  \A m \in Matches : m \in Predicted <=> Latest(m) # NoForecast
  BY DEF Predicted, Latest, Original, Outranked

(* What the four reports that look for comparable slates ask of one. *)
LEMMA Comparable ==
  ASSUME LearningInv
  PROVE  /\ GateComparable <=> ComparableLineage /\ Full /\ \A m \in Matches : Latest(m) # NoForecast
         /\ GateComparable <=> InventoryState = "closed_comparable"
         /\ GateComparable <=> ScoreComparable
         /\ GateComparable <=> Samples = Matches
  <1>0. Matches # {} /\ Predicted \subseteq Matches
    BY LearningAssumption DEF Predicted
  <1>1. Predicted = Matches <=> \A m \in Matches : Latest(m) # NoForecast
    BY <1>0, LatestIsPredicted
  <1>2. GateComparable <=> ComparableLineage /\ Full /\ \A m \in Matches : Latest(m) # NoForecast
    BY <1>1 DEF GateComparable
  <1>3. Full => \A m \in Matches : HasCanonical(m) /\ ~Conflicting(m)
    BY DEF Full, HasCanonical
  <1>4. GateComparable <=> InventoryState = "closed_comparable"
    BY <1>0, <1>3 DEF GateComparable, InventoryState
  <1>5. GateComparable <=> ScoreComparable
    BY <1>2 DEF ScoreComparable, Scored, Full
  <1>6. GateComparable <=> Samples = Matches
    BY <1>0, <1>2 DEF Samples
  <1> QED
    BY <1>2, <1>4, <1>5, <1>6

(* While the observer waits, nothing has been counted. *)
LEMMA WaitingHasNothing ==
  ASSUME LearningInv, PullState = "waiting_results"
  PROVE  Scored = {} /\ TrackedHits = {} /\ TrainingRows = {}
  <1>1. \A m \in Matches : ~Finished(m)
    BY DEF PullState
  <1>2. \A m \in Matches : ~Live(m)
    BY DEF PullState, TrackingState
  <1>3. \A m \in Matches : ~HasCanonical(m) /\ Seen(m) = {}
    BY <1>1, <1>2, SeenHasBest DEF Finished, Live
  <1>4. \A m \in Matches : details[m].code # NoCode => Conflicting(m)
    BY <1>3 DEF LearningInv, OnRecord, HasCanonical
  <1> QED
    BY <1>1, <1>3, <1>4 DEF Scored, TrackedHits, TrainingRows

(* No strategy covers more than a double everywhere, and the pure one      *)
(* covers the first signs. *)
LEMMA StrategiesAreBounded ==
  /\ Covered("top1_only") = TopHits(1)
  /\ Covered("top2_all") = TopHits(2)
  /\ \A s \in Best : Cardinality(Covered(s)) = Cardinality(TopHits(2))
  <1>0. /\ \A S \in SUBSET Matches : IsFiniteSet(S) /\ Cardinality(S) \in Nat
        /\ {"top1_only", "top2_all"} \subseteq Strategies /\ DoublesLimit["top1_only"] = 0
    BY LearningAssumption, FS_Subset, FS_CardinalityType
  <1>1. \A m \in Scored : m \in Matches /\ Latest(m) # NoForecast
    BY DEF Scored
  <1>2. Covered("top1_only") = TopHits(1)
    <2>1. Doubled("top1_only") = {}
      <3> SUFFICES ASSUME NEW m \in Matches
                   PROVE  ~(Cardinality({n \in Matches : Sooner("top1_only", n, m)}) < 0)
        BY <1>0 DEF Doubled
      <3>1. {n \in Matches : Sooner("top1_only", n, m)} \in SUBSET Matches
        OBVIOUS
      <3>2. Cardinality({n \in Matches : Sooner("top1_only", n, m)}) \in Nat
        BY <1>0, <3>1
      <3> QED
        BY <3>2
    <2> QED
      BY <2>1 DEF Covered, TopHits
  <1>3. Covered("top2_all") = TopHits(2)
    <2>1. \A m \in Scored : m \in Doubled("top2_all")
      BY <1>1 DEF Doubled
    <2> QED
      BY <2>1 DEF Covered, TopHits
  <1>4. \A s : Covered(s) \subseteq TopHits(2)
    BY TopSignsGrow DEF Covered, TopHits
  <1>5. TopHits(2) \in SUBSET Matches
    BY <1>1 DEF TopHits
  <1>6. ASSUME NEW s \in Best PROVE Cardinality(Covered(s)) = Cardinality(TopHits(2))
    <2>1. Covered(s) \in SUBSET TopHits(2) /\ Covered(s) \in SUBSET Matches
      BY <1>4, <1>5
    <2>2. Cardinality(Covered(s)) <= Cardinality(TopHits(2))
      BY <1>0, <1>5, <2>1, FS_Subset
    <2>3. Ranked(s, "top2_all")
      BY <1>0, <1>6 DEF Best
    <2>4. Cardinality(Covered(s)) \in Nat /\ Cardinality(TopHits(2)) \in Nat
      BY <1>0, <1>5, <2>1
    <2>5. Cardinality(Covered(s)) >= Cardinality(TopHits(2))
      BY <1>3, <2>3, <2>4 DEF Ranked
    <2> QED
      BY <2>2, <2>4, <2>5
  <1> QED
    BY <1>2, <1>3, <1>6

(* A slate all reports call comparable has ended in every match. *)
LEMMA ComparableHasEnded ==
  ASSUME LearningInv, GateComparable
  PROVE  /\ Scored = Matches
         /\ \A m \in Matches :
              /\ HasCanonical(m) /\ ~Conflicting(m) /\ Finished(m) /\ Rows(m) # {}
              /\ ShownCode(m) = Canonical(m)
              /\ \A r \in Rows(m) : r.code = Canonical(m)
              /\ Latest(m) # NoForecast
              /\ Original(m) # NoForecast /\ m \notin Outranked => Latest(m) = Original(m)
  <1>1. ComparableLineage /\ Full /\ \A m \in Matches : Latest(m) # NoForecast
    BY Comparable
  <1>2. results \subseteq Result /\ ResultsInv
    BY DEF LearningInv, ResultsInv, TypeOK
  <1>3. \A m \in Matches : HasCanonical(m)
    BY <1>1 DEF Full
  <1>4. \A m \in Matches : ~Conflicting(m) /\ Finished(m) /\ Rows(m) # {}
    BY <1>3 DEF HasCanonical, Finished
  <1>5. \A m \in Matches : ShownCode(m) = Canonical(m) /\ \A r \in Rows(m) : r.code = Canonical(m)
    BY <1>2, <1>3, ShownCodes, CanonicalIsRow
  <1> QED
    BY <1>1, <1>3, <1>4, <1>5 DEF Scored, Latest, Outranked

(* The tracking view, the learning score and the attribution tell one      *)
(* story of a comparable slate. *)
LEMMA OneStory ==
  ASSUME LearningInv, GateComparable
  PROVE  /\ Blockers = {}
         /\ PullState = "complete" /\ ReadyRows = {m \in Scored : Original(m) # NoForecast}
         /\ Diagnosed("acierto") \ Outranked \subseteq Hits
         /\ {m \in Matches \ Outranked : ErrorType(m) = "draw_underestimated"}
              \subseteq Diagnosed("fallo por empate")
         /\ TrackedHits \ Outranked = {m \in Hits \ Outranked : Original(m) # NoForecast}
         /\ {m \in Matches : ErrorType(m) \in {"correct", "guardrail_missed"}} = Hits
         /\ Unguarded \cap ((TrackedHits \ Outranked) \cup Hits) = {}
         /\ \A k \in 1..2 : TopHits(k) = Calibrated(k) /\ TopHits(k) = ShadowCovered(k)
  <1>0. /\ Scored = Matches
        /\ \A m \in Matches :
             /\ HasCanonical(m) /\ ~Conflicting(m) /\ Finished(m) /\ Rows(m) # {}
             /\ ShownCode(m) = Canonical(m)
             /\ Latest(m) # NoForecast
             /\ Original(m) # NoForecast /\ m \notin Outranked => Latest(m) = Original(m)
    BY ComparableHasEnded
  <1>1. ComparableLineage /\ Predicted = Matches /\ Samples = Matches /\ Matches # {}
    BY Comparable, LearningAssumption DEF GateComparable
  <1>2. Blockers = {}
    BY <1>0, <1>1 DEF Blockers
  <1>3. PullState = "complete"
    BY <1>0 DEF PullState, TrackingState
  <1>4. ReadyRows = {m \in Scored : Original(m) # NoForecast}
    BY <1>0, <1>1 DEF ReadyRows, LearningStatus
  <1>5. \A m \in Matches : m \in Hits <=> Latest(m).pick = Canonical(m)
    BY <1>0 DEF Hits
  <1>6. Hits \subseteq Matches
    BY <1>0 DEF Hits
  <1>7. TrackedHits \ Outranked = {m \in Hits \ Outranked : Original(m) # NoForecast}
    BY <1>0, <1>5, <1>6 DEF TrackedHits
  <1>8. ASSUME NEW m \in Matches
        PROVE  ErrorType(m) \in {"correct", "guardrail_missed"} <=> m \in Hits
    BY <1>0 DEF ErrorType
  <1>9. ASSUME NEW m \in Matches \ Outranked, ErrorType(m) = "draw_underestimated"
        PROVE  Diagnosis(m) = "fallo por empate"
    <2>1. m \notin Hits
      BY <1>8, <1>9
    <2>2. Canonical(m) = "X"
      BY <1>0, <1>9, <2>1 DEF ErrorType
    <2>3. ~(Original(m) # NoForecast /\ Original(m).pick = ShownCode(m))
      BY <1>0, <1>5, <2>1
    <2> QED
      BY <1>0, <2>2, <2>3 DEF Diagnosis
  <1>10. ASSUME NEW m \in Matches \ Outranked, Diagnosis(m) = "acierto"
         PROVE  m \in Hits
    <2>1. Original(m) # NoForecast /\ Original(m).pick = ShownCode(m)
      BY <1>0, <1>10 DEF Diagnosis
    <2> QED
      BY <1>0, <1>5, <2>1
  <1>11. Unguarded \cap ((TrackedHits \ Outranked) \cup Hits) = {}
    BY <1>7 DEF Unguarded
  <1>12. ASSUME NEW k \in 1..2
         PROVE  TopHits(k) = Calibrated(k) /\ TopHits(k) = ShadowCovered(k)
    BY <1>0, <1>1 DEF TopHits, Calibrated, ShadowCovered
  <1> QED
    BY <1>2, <1>3, <1>4, <1>6, <1>7, <1>8, <1>9, <1>10, <1>11, <1>12 DEF Diagnosed

(* A score stored since its results were canonical gives the ticket the    *)
(* hits the live one does, unless a result was rewritten. *)
LEMMA StoredTicketAgrees ==
  ASSUME LearningInv, GateComparable, NEW mode \in Modes,
         \A m \in Matches : details[m].canonical /\ m \notin rewritten
  PROVE  {MinHits(mode), MaxHits(mode)} = {Cardinality(StoredTicketHits(mode))}
  <1>1. \A m \in Matches : Finished(m) /\ details[m].code = ShownCode(m)
    BY ComparableHasEnded DEF LearningInv, OnRecord
  <1>2. TicketHits(mode) = StoredTicketHits(mode)
    BY <1>1 DEF TicketHits, StoredTicketHits
  <1>3. StillPossible(mode) = {} /\ Guaranteed(mode) = {}
    BY <1>1 DEF StillPossible, Guaranteed
  <1>4. Cardinality({}) = 0
    BY FS_EmptySet
  <1>5. Cardinality(StoredTicketHits(mode)) \in Nat
    <2>1. StoredTicketHits(mode) \in SUBSET Matches
      BY DEF StoredTicketHits
    <2> QED
      BY <2>1, LearningAssumption, FS_Subset, FS_CardinalityType
  <1>6. MinHits(mode) = Cardinality(StoredTicketHits(mode))
    BY <1>2, <1>3, <1>4, <1>5 DEF MinHits
  <1>7. MaxHits(mode) = Cardinality(StoredTicketHits(mode))
    BY <1>2, <1>3, <1>4, <1>5 DEF MaxHits
  <1> QED
    BY <1>6, <1>7

LEMMA ReportsDoAgree == LearningInv => ReportsAgree
  <1> SUFFICES ASSUME LearningInv PROVE ReportsAgree
    OBVIOUS
  <1>1. /\ GateComparable <=> InventoryState = "closed_comparable"
        /\ GateComparable <=> ScoreComparable
        /\ GateComparable <=> Samples = Matches
    BY Comparable
  <1>2. PullState = "waiting_results" => Scored = {} /\ TrackedHits = {} /\ TrainingRows = {}
    BY WaitingHasNothing
  <1>3. GateComparable =>
          /\ Blockers = {}
          /\ PullState = "complete" /\ ReadyRows = {m \in Scored : Original(m) # NoForecast}
          /\ Diagnosed("acierto") \ Outranked \subseteq Hits
          /\ {m \in Matches \ Outranked : ErrorType(m) = "draw_underestimated"}
               \subseteq Diagnosed("fallo por empate")
          /\ TrackedHits \ Outranked = {m \in Hits \ Outranked : Original(m) # NoForecast}
          /\ {m \in Matches : ErrorType(m) \in {"correct", "guardrail_missed"}} = Hits
          /\ Unguarded \cap ((TrackedHits \ Outranked) \cup Hits) = {}
          /\ \A k \in 1..2 : TopHits(k) = Calibrated(k) /\ TopHits(k) = ShadowCovered(k)
    BY OneStory
  <1>4. Covered("top1_only") = TopHits(1)
    BY StrategiesAreBounded
  <1>5. \A s \in Best : Cardinality(Covered(s)) = Cardinality(TopHits(2))
    BY StrategiesAreBounded
  <1>6. GateComparable /\ (\A m \in Matches : details[m].canonical /\ m \notin rewritten) =>
          \A mode \in Modes :
            {MinHits(mode), MaxHits(mode)} = {Cardinality(StoredTicketHits(mode))}
    BY StoredTicketAgrees
  <1> QED
    BY <1>1, <1>2, <1>3, <1>4, <1>5, <1>6 DEF ReportsAgree

(* Whatever documents, signs, backfills, histories and manual files arrive *)
(* since a score was stored, and whatever predictions the contest has: the *)
(* reports call the same slates comparable, and tell one story of such a   *)
(* slate, where no unlabelled prediction outranks the slate's own and, for *)
(* the stored ticket, no result was rewritten in place. *)
THEOREM ReportsTellOneStory == LearningSpec => []ReportsAgree
  BY LearningInvariant, ReportsDoAgree, PTL

(* The gate's fast count is what the training dataset would build, however *)
(* the results changed since the score was stored. *)
THEOREM TrainingRowsAgree == LearningSpec => []RowsAgree
  BY LearningInvariant, RowsDoAgree, PTL
=============================================================================
