------------------------------ MODULE Learning ------------------------------
(***************************************************************************)
(* What the reports of a played contest say: the tracking view, the stored *)
(* jornada score and its training rows, the gate of the training dataset,  *)
(* the inventory of closed slates, the learning score with its error       *)
(* attribution and backtest, and the calibration audit.  They read the     *)
(* tables of LiveResults and the predictions of the contest, each along a  *)
(* path of its own, and none of them writes.                               *)
(*                                                                         *)
(* The predictions are there when the contest has closed: every report     *)
(* looks one up by match, by slate or by composition.                      *)
(***************************************************************************)
EXTENDS LiveResults

CONSTANTS
  Sheets,        \* the predictions a closed contest may have
  NoForecast,
  Position,      \* of the matches in the slate
  DoublesLimit   \* of the strategies the backtest compares

Statuses == {"FIJO", "LISTO", "REVISAR", "BLOQUEADO"}
Orders == {o \in [1..3 -> Codes] : \A i, j \in 1..3 : o[i] = o[j] => i = j}

\* A prediction row: its pick; its signs from likely to unlikely, as decided and as the raw
\* model had them; the margin of the first over the second, whether the pick reaches one
\* half, and what the audit decided.
Forecast == [pick: Codes, order: Orders, raw: Orders, margin: Nat, half: BOOLEAN,
             status: Statuses, lowEvidence: BOOLEAN]

\* A prediction is stored for the slate's composition, for an earlier one, or for another slate;
\* one of before these columns has no slate, or no composition.
\* The valid ticket snapshot has picks for each of its modes.
Modes == {"simple", "doubles", "full"}
Sheet == [Matches -> [unlabelled: Forecast \cup {NoForecast},
                      composition: Forecast \cup {NoForecast},
                      slate: Forecast \cup {NoForecast},
                      elsewhere: Forecast \cup {NoForecast},
                      ticket: [Modes -> SUBSET Codes]]]

Strategies == DOMAIN DoublesLimit

ASSUME LearningAssumption ==
  /\ Sheets \subseteq Sheet
  /\ NoForecast \notin Forecast
  /\ Position \in [Matches -> Nat]
  /\ \A m, n \in Matches : Position[m] = Position[n] => m = n
  /\ DoublesLimit \in [Strategies -> Nat]
  /\ {"top1_only", "top2_all"} \subseteq Strategies /\ DoublesLimit["top1_only"] = 0
  /\ IsFiniteSet(Matches) /\ Matches # {}

VARIABLES
  sheet,    \* the predictions of this contest
  flushed,  \* details_json of the score the worker's session flushed
  details   \* details_json of the stored score

learningVars == <<vars, sheet, flushed, details>>

Detail == [code: Codes \cup {NoCode}, canonical: BOOLEAN]
NoDetails == [m \in Matches |-> [code |-> NoCode, canonical |-> FALSE]]

------------------------------------------------------------------------------

\* classify_slate
Classification ==
  CASE official /\ (\E m \in Matches : Rows(m) # {} \/ Seen(m) # {}) -> "official_real"
    [] official /\ (\A m \in Matches : Rows(m) = {} /\ Seen(m) = {}) -> "official_but_no_results_yet"
    [] ~official -> "unverified"
ComparableLineage == Classification \in {"official_real", "official_but_no_results_yet"}

\* The canonical code of a match whose rows agree.
Canonical(m) == IF HasCanonical(m) THEN (CHOOSE r \in Leading(m) : TRUE).code ELSE NoCode
Full == \A m \in Matches : HasCanonical(m)

\* The code the live view shows, canonical first.
ShownCode(m) ==
  IF HasCanonical(m) \/ BestLive(m) = {} THEN Canonical(m)
  ELSE live[m][CHOOSE s \in BestLive(m) : TRUE].code

\* The prediction of the slate and its composition, or none.
Original(m) == sheet[m].composition

\* PostgreSQL sorts NULL before TRUE in a descending order: the row without a slate or a
\* composition comes before the slate's own.
Outranked == {m \in Matches : sheet[m].unlabelled # NoForecast}

\* The learning score prefers the slate, then the composition, and takes any other.
Latest(m) ==
  IF sheet[m].unlabelled # NoForecast THEN sheet[m].unlabelled
  ELSE IF Original(m) # NoForecast THEN Original(m)
  ELSE IF sheet[m].slate # NoForecast THEN sheet[m].slate ELSE sheet[m].elsewhere

\* The matches with a prediction, whatever slate it was made for.
Predicted ==
  {m \in Matches :
     \E o \in {"unlabelled", "composition", "slate", "elsewhere"} : sheet[m][o] # NoForecast}

------------------------------------------------------------------------------
(* The stored score and the steps that write it. *)

\* compute_for_slate, match by match; a code that is not canonical has no goals.
Details ==
  [m \in Matches |->
     [code |-> IF Counted(m) THEN ShownCode(m) ELSE NoCode, canonical |-> HasCanonical(m)]]

LearningInit ==
  /\ Init
  /\ sheet \in Sheets
  /\ flushed = NoDetails
  /\ details = NoDetails

Reported ==
  /\ \/ GainLineage
     \/ \E s \in Feeds, doc \in [Matches -> Lines] : Ingest(s, doc)
     \/ \E s \in Archives, scores \in [Matches -> Scores \cup {NoScore}], force \in BOOLEAN :
          Backfill(s, scores, force)
     \/ \E s \in Histories, scores \in [Matches -> Scores \cup {NoScore}], old \in SUBSET results :
          IngestHistory(s, scores, old)
     \/ \E scores \in [Matches -> Scores] : EvaluateManual(scores)
     \/ ApplyManual
  /\ UNCHANGED <<sheet, flushed, details>>

FlushScore ==
  /\ Observe
  /\ flushed' = IF staged' = "none" THEN NoDetails ELSE Details
  /\ UNCHANGED <<sheet, details>>

CommitScore ==
  /\ CommitCycle
  /\ details' = flushed
  /\ flushed' = NoDetails
  /\ UNCHANGED sheet

CloseCycle ==
  /\ EndCycle
  /\ flushed' = NoDetails
  /\ UNCHANGED <<sheet, details>>

RequestScore ==
  /\ ComputeScore
  /\ details' = Details
  /\ UNCHANGED <<sheet, flushed>>

LearningNext == Reported \/ FlushScore \/ CommitScore \/ CloseCycle \/ RequestScore

LearningSpec == LearningInit /\ [][LearningNext]_learningVars

------------------------------------------------------------------------------
(* The live score and the tracking view. *)

\* build_live_score, by mode of the ticket.
TicketHits(mode) == {m \in Matches : Finished(m) /\ ShownCode(m) \in sheet[m].ticket[mode]}
StillPossible(mode) == {m \in Matches : ~Finished(m) /\ sheet[m].ticket[mode] # {}}
Guaranteed(mode) == {m \in Matches : ~Finished(m) /\ Cardinality(sheet[m].ticket[mode]) = 3}
MaxHits(mode) == Cardinality(TicketHits(mode)) + Cardinality(StillPossible(mode))
MinHits(mode) == Cardinality(TicketHits(mode)) + Cardinality(Guaranteed(mode))

\* The hits of the ticket in the details of the stored score.
StoredTicketHits(mode) == {m \in Matches : details[m].code \in sheet[m].ticket[mode]}

TrackedHits ==
  {m \in Matches : Finished(m) /\ Original(m) # NoForecast /\ Original(m).pick = ShownCode(m)}

\* build_tracking decides in this order.
LearningStatus(m) ==
  IF Conflicting(m) THEN "excluded"
  ELSE IF ~Finished(m) THEN "waiting_result"
  ELSE IF ~ComparableLineage \/ Original(m) = NoForecast THEN "excluded"
  ELSE IF HasCanonical(m) THEN "ready" ELSE "classification_ready"

\* The counts of the view, and the state it gives a closed contest.
ReadyRows == {m \in Matches : LearningStatus(m) = "ready"}
Live(m) == ~Finished(m) /\ BestLive(m) # {}
TrackingState ==
  IF \A m \in Matches : Finished(m) THEN "complete"
  ELSE IF \E m \in Matches : Live(m) THEN "live" ELSE "closed"

\* pull_state of the observer's status.
PullState ==
  CASE TrackingState = "complete" -> "complete"
    [] TrackingState = "live" -> "receiving_live"
    [] OTHER -> IF \E m \in Matches : Finished(m) THEN "receiving_results" ELSE "waiting_results"

\* _diagnose reads a final without a prediction as a miss.
Diagnosis(m) ==
  IF ~Finished(m) THEN IF Live(m) THEN "en vivo" ELSE "pendiente"
  ELSE IF Original(m) # NoForecast /\ Original(m).pick = ShownCode(m) THEN "acierto"
  ELSE IF ShownCode(m) = "X" THEN "fallo por empate" ELSE "fallo"

\* build_result_comparison, against the ticket of before the cierre.
Diagnosed(reading) == {m \in Matches : Diagnosis(m) = reading}

------------------------------------------------------------------------------
(* The training rows, and the gate that counts them. *)

SignOnly(detail) == ~detail.canonical /\ detail.code # NoCode

\* Mutant of TrainingRows: the stored detail is trusted, whatever the sources say since.
TrainingRowsAsStored ==
  {m \in Matches :
     /\ stored = "complete" /\ details[m].code # NoCode
     /\ details[m].canonical \/ (ComparableLineage /\ SignOnly(details[m]))
     /\ Original(m) # NoForecast}

\* build_rows_for_slate
TrainingRows ==
  {m \in Matches :
     /\ stored = "complete" /\ details[m].code # NoCode
     /\ ~Conflicting(m)
     /\ HasCanonical(m) \/ (ComparableLineage /\ SignOnly(details[m]))
     /\ Original(m) # NoForecast}

\* _classification_row_count_from_score
FastRows ==
  {m \in Matches :
     /\ stored = "complete" /\ details[m].code # NoCode
     /\ ~Conflicting(m)
     /\ Original(m) # NoForecast
     /\ details[m].canonical \/ HasCanonical(m) \/ SignOnly(details[m])}

\* build_dataset_readiness of this slate; rows are not counted beside a conflict.
ClassificationRows ==
  IF ComparableLineage /\ (\A m \in Matches : ~Conflicting(m)) THEN FastRows ELSE {}

GateComparable == ComparableLineage /\ Full /\ Predicted = Matches

------------------------------------------------------------------------------
(* The inventory of closed slates. *)

\* build_completed_slate_validation without its provider.
Blockers ==
  {b \in {"missing_local_results", "incomplete_coverage", "incomplete_predictions"} :
     \/ b = "missing_local_results" /\ (\A m \in Matches : Rows(m) = {})
     \/ b = "incomplete_coverage" /\ (\E m \in Matches : Rows(m) = {})
     \/ b = "incomplete_predictions" /\ Predicted # Matches}

InventoryState ==
  IF Predicted = {} THEN "archived_no_predictions"
  ELSE IF \E m \in Matches : Conflicting(m) THEN "closed_conflict"
  ELSE IF \A m \in Matches : ~HasCanonical(m) THEN "closed_pending_results"
  ELSE IF Full /\ ComparableLineage /\ Predicted = Matches THEN "closed_comparable"
  ELSE "closed_partial_results"

------------------------------------------------------------------------------
(* The learning score, its error attribution, and the calibration audit. *)

Scored == {m \in Matches : Latest(m) # NoForecast /\ HasCanonical(m)}
Hits == {m \in Scored : Latest(m).pick = Canonical(m)}
TopSigns(m, k) == IF Latest(m) = NoForecast THEN {} ELSE {Latest(m).order[i] : i \in 1..k}
TopHits(k) == {m \in Scored : Canonical(m) \in TopSigns(m, k)}
ScoreComparable == Full /\ Scored = Matches /\ ComparableLineage

Engaged(f) == f.status \in {"BLOQUEADO", "REVISAR"}

\* classify_position: a closed slate has no money-mode verdict.
ErrorType(m) ==
  LET f == Latest(m)
  IN IF Conflicting(m) THEN "result_conflict"
     ELSE IF m \notin Scored THEN "data_quality_issue"
     ELSE IF m \in Hits THEN IF Engaged(f) THEN "guardrail_missed" ELSE "correct"
     ELSE IF Engaged(f) THEN IF f.lowEvidence THEN "low_evidence_correctly_blocked" ELSE "guardrail_saved"
     ELSE IF Canonical(m) = "X" THEN "draw_underestimated"
     ELSE IF f.pick = f.order[1] /\ f.half THEN "favorite_overestimated"
     ELSE IF f.pick = "2" THEN "away_overestimated" ELSE "wrong_favorite"

\* should_have_blocked counts the misses nothing held back.
Unguarded ==
  {m \in Scored \ Hits : ErrorType(m) \notin {"low_evidence_correctly_blocked", "guardrail_saved"}}

Samples == IF ComparableLineage /\ Full THEN {m \in Matches : Latest(m) # NoForecast} ELSE {}

\* Mutant of Calibrated: the audit measures the raw vector as if it had been decided on.
CalibratedRaw(k) == {m \in Samples : \E i \in 1..k : Canonical(m) = Latest(m).raw[i]}

\* _collect_samples of the decision vector, and what _metrics counts of it.
Calibrated(k) == {m \in Samples : Canonical(m) \in TopSigns(m, k)}

------------------------------------------------------------------------------
(* The backtest of ticket strategies and the economic shadow. *)

Margin(m) == IF Latest(m) = NoForecast THEN 0 ELSE Latest(m).margin
Held(m) == Latest(m) # NoForecast /\ Engaged(Latest(m))

\* The order in which a strategy spends its doubles.
Sooner(strategy, m, n) ==
  \/ strategy = "guardrail_first" /\ Held(m) /\ ~Held(n)
  \/ /\ strategy = "guardrail_first" => (Held(m) <=> Held(n))
     /\ Margin(m) < Margin(n) \/ (Margin(m) = Margin(n) /\ Position[m] < Position[n])

\* A match without probabilities may use up a double, and gets none.
Doubled(strategy) ==
  {m \in Matches :
     /\ Latest(m) # NoForecast
     /\ \/ strategy = "top2_all"
        \/ Cardinality({n \in Matches : Sooner(strategy, n, m)}) < DoublesLimit[strategy]}

Covered(strategy) ==
  {m \in Scored : Canonical(m) \in TopSigns(m, IF m \in Doubled(strategy) THEN 2 ELSE 1)}

Combinations(strategy) == 2 ^ Cardinality(Doubled(strategy))

\* _rank_key without a payout: the most covered, then the cheapest.
Ranked(s, t) ==
  LET c == Cardinality(Covered(s)) d == Cardinality(Covered(t))
  IN c > d \/ (c = d /\ Combinations(s) <= Combinations(t))
Best == {s \in Strategies : \A t \in Strategies : Ranked(s, t)}

\* build_economic_shadow: the first sign, the first two, or all three.
ShadowCovered(k) == {m \in Matches : HasCanonical(m) /\ Canonical(m) \in TopSigns(m, k)}

------------------------------------------------------------------------------

(***************************************************************************)
(* The tables keep their type, and details belong to a score: a complete   *)
(* one has a code for every match.                                         *)
(***************************************************************************)
LearningTypeOK ==
  /\ TypeOK
  /\ sheet \in Sheets
  /\ {flushed, details} \subseteq [Matches -> Detail]
  /\ staged = "complete" => \A m \in Matches : flushed[m].code # NoCode
  /\ stored = "complete" => \A m \in Matches : details[m].code # NoCode
  /\ staged = "none" => flushed = NoDetails

(***************************************************************************)
(* The readiness gate, the inventory of an archived slate, the learning    *)
(* score and the calibration audit call the same slates comparable, though *)
(* each counts results and predictions its own way, and the validation     *)
(* finds nothing that blocks such a slate.  About it they tell one story:  *)
(* the attribution explains what the learning score counts, the            *)
(* calibration, the shadow and the backtest cover what the score does, no  *)
(* strategy beats a double everywhere, and unless a result was rewritten   *)
(* in place, a score stored since its results were canonical gives the     *)
(* ticket the hits the live one does.  Where no unlabelled prediction      *)
(* outranks the slate's own, what the tracking view shows as a hit the     *)
(* learning score counts, and the comparison diagnoses what the            *)
(* attribution explains.  The observer never waits for results a report    *)
(* has counted.                                                            *)
(***************************************************************************)
ReportsAgree ==
  /\ GateComparable <=> InventoryState = "closed_comparable"
  /\ GateComparable <=> ScoreComparable
  /\ GateComparable <=> Samples = Matches
  /\ PullState = "waiting_results" => Scored = {} /\ TrackedHits = {} /\ TrainingRows = {}
  /\ GateComparable =>
       /\ Blockers = {}
       /\ PullState = "complete" /\ ReadyRows = {m \in Scored : Original(m) # NoForecast}
       /\ Diagnosed("acierto") \ Outranked \subseteq Hits
       /\ {m \in Matches \ Outranked : ErrorType(m) = "draw_underestimated"}
            \subseteq Diagnosed("fallo por empate")
       /\ TrackedHits \ Outranked = {m \in Hits \ Outranked : Original(m) # NoForecast}
       /\ {m \in Matches : ErrorType(m) \in {"correct", "guardrail_missed"}} = Hits
       /\ Unguarded \cap ((TrackedHits \ Outranked) \cup Hits) = {}
       /\ \A k \in 1..2 : TopHits(k) = Calibrated(k) /\ TopHits(k) = ShadowCovered(k)
       /\ Covered("top1_only") = TopHits(1)
       /\ \A s \in Best : Cardinality(Covered(s)) = Cardinality(TopHits(2))
       /\ (\A m \in Matches : details[m].canonical /\ m \notin rewritten) =>
            \A mode \in Modes :
              {MinHits(mode), MaxHits(mode)} = {Cardinality(StoredTicketHits(mode))}

(***************************************************************************)
(* The gate's fast count is what the training dataset would build, and no  *)
(* training row of an official slate comes from a match the tracking view  *)
(* excludes from training, whatever arrived since the score was stored.    *)
(***************************************************************************)
RowsAgree ==
  ComparableLineage =>
    /\ (\A m \in Matches : ~Conflicting(m)) => ClassificationRows = TrainingRows
    /\ \A m \in TrainingRows : LearningStatus(m) # "excluded"
=============================================================================
