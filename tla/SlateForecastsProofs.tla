------------------------- MODULE SlateForecastsProofs -------------------------
(***************************************************************************)
(* Proofs about the predictions of a slate.  The invariants that are       *)
(* checked speak of what is cached; what makes them inductive is the same  *)
(* of the builds that will be cached.  The last part shows the caches to   *)
(* implement BoundedStaleness.                                             *)
(***************************************************************************)
EXTENDS SlateForecasts, TLAPS

Saves(p) == build[p] # Idle /\ build[p].step = "save"

\* A build of the API was scored under the rulings, too.
BuildShowsRuling ==
  Scoring(Api) => \A k \in Positions : ruled[k] # Nothing => build[Api].forecast[k].flag = ruled[k]

RulingInv == RulingSurvives /\ RulingIsShown /\ BuildShowsRuling

\* A build whose link rows are still there read the composition of the slate.
BuildIsOne ==
  \A p \in Procs :
    /\ Scoring(p) \/ Saves(p) => \E c \in Compositions : IsOf(build[p].forecast, c)
    /\ Scoring(p) /\ build[p].intact => IsOf(build[p].forecast, slate.comp)

CompositionInv == OneComposition /\ BuildIsOne

\* What a forecast shows was true no longer ago than the given age.
ShownWithin(ages, forecast, last) == \A k \in Positions : ages[k][forecast[k]] <= last

RecencyInv ==
  /\ ShownWithin(age, Truth, 0)
  /\ \A p \in Procs : Scoring(p) => ShownWithin(age, build[p].forecast, build[p].age)
  /\ \A p \in Procs, b \in Buckets :
       caches[p][b] # Nothing => ShownWithin(age, caches[p][b].forecast, BuildTime + caches[p][b].age)
  /\ report # Nothing => ShownWithin(age, report.forecast, BuildTime + TTL + report.age)

ForecastInv == ForecastTypeOK /\ RulingInv /\ CompositionInv /\ RecencyInv

------------------------------------------------------------------------------

Slate == [comp: Compositions, links: [Positions -> Link]]

(* What the database says of a slate is a forecast of its composition.     *)
LEMMA TruthIsForecast ==
  \A s \in Slate : /\ TruthOf(s) \in Forecast
                   /\ IsOf(TruthOf(s), s.comp)
                   /\ \A k \in Positions : TruthOf(s)[k].flag = s.links[k].flag
  BY ForecastAssumption DEF Slate, TruthOf, Forecast, State, Link, IsOf

(* The bound on the age of an answer is a number.                          *)
LEMMA MaxAgeIsNat ==
  /\ MaxAge \in Nat
  /\ BuildTime \in Nat /\ TTL \in Nat /\ ReportTTL \in Nat /\ MaxEdits \in Nat /\ N \in Nat
  /\ BuildTime + TTL <= MaxAge
  BY ForecastAssumption DEF MaxAge

(* The rows of a rebuilt slate are links.                                  *)
LEMMA RebuiltTyped ==
  ASSUME stage \in [Fixtures -> Verdicts], NEW c \in Compositions, NEW links \in [Positions -> Link]
  PROVE  Rebuilt(c, links) \in [Positions -> Link]
  <1>1. \A f \in Fixtures : AutoFlag(f) \in BOOLEAN
    BY ForecastAssumption DEF AutoFlag, Known, Verdicts
  <1> QED
    BY <1>1, ForecastAssumption DEF Rebuilt, Link

(* A build in progress is not one that waits to save its snapshot.         *)
LEMMA ScoringIsBuilding ==
  ASSUME ForecastTypeOK, NEW p \in Procs
  PROVE  /\ Scoring(p) => build[p] \in Building
         /\ Saves(p) => build[p] \in Saving
  BY DEF ForecastTypeOK, Scoring, Saves, Building, Saving

(* An entry of a cache is one that was put there, or nothing.              *)
LEMMA EntriesTyped ==
  ASSUME ForecastTypeOK, NEW p \in Procs, NEW b \in Buckets, caches[p][b] # Nothing
  PROVE  caches[p][b] \in Entry
  BY DEF ForecastTypeOK

(* After a change of the slate every age is what it was or nought, and     *)
(* what the slate says now is of this moment.                              *)
LEMMA WitnessLowers ==
  ASSUME ForecastTypeOK, NEW s \in Slate
  PROVE  /\ Witness(s) \in [Positions -> [State -> 0..(MaxAge + 1)]]
         /\ \A k \in Positions : Witness(s)[k][TruthOf(s)[k]] = 0
         /\ \A k \in Positions, v \in State : Witness(s)[k][v] <= age[k][v]
  <1>1. age \in [Positions -> [State -> 0..(MaxAge + 1)]]
    BY DEF ForecastTypeOK
  <1>2. TruthOf(s) \in [Positions -> State]
    BY TruthIsForecast DEF Forecast
  <1> QED
    BY <1>1, <1>2, MaxAgeIsNat DEF Witness

(* When time passes every age grows by one at most.                        *)
LEMMA TickAges ==
  ASSUME ForecastTypeOK, Tick
  PROVE  /\ age' \in [Positions -> [State -> 0..(MaxAge + 1)]]
         /\ \A k \in Positions : age'[k][Truth[k]] = 0
         /\ \A k \in Positions, v \in State : age'[k][v] <= age[k][v] + 1
  <1>1. age \in [Positions -> [State -> 0..(MaxAge + 1)]]
    BY DEF ForecastTypeOK
  <1>2. Truth \in [Positions -> State]
    BY TruthIsForecast DEF Forecast, ForecastTypeOK, Slate, Truth
  <1>3. age' = [k \in Positions |-> [t \in State |-> IF t = Truth[k] THEN 0 ELSE Older(age[k][t])]]
    BY DEF Tick
  <1> QED
    BY <1>1, <1>2, <1>3, MaxAgeIsNat DEF Older

------------------------------------------------------------------------------

LEMMA InitForecastInv == ForecastInit => ForecastInv
  <1> SUFFICES ASSUME ForecastInit PROVE ForecastInv
    OBVIOUS
  <1>1. \A f \in Fixtures : AutoFlag(f) \in BOOLEAN
    BY ForecastAssumption DEF ForecastInit, AutoFlag, Known
  <1>2. slate \in Slate
    BY <1>1, ForecastAssumption DEF ForecastInit, Slate, Link
  <1>3. Truth \in [Positions -> State]
    BY <1>2, TruthIsForecast DEF Truth, Forecast
  <1>4. age \in [Positions -> [State -> 0..(MaxAge + 1)]] /\ ShownWithin(age, Truth, 0)
    BY <1>3, MaxAgeIsNat DEF ForecastInit, ShownWithin
  <1>5. ForecastTypeOK
    BY <1>2, <1>4, MaxAgeIsNat DEF ForecastInit, ForecastTypeOK, Slate, Verdicts
  <1>6. RulingInv
    BY ForecastAssumption DEF ForecastInit, RulingInv, RulingSurvives, RulingIsShown, BuildShowsRuling, Scoring
  <1>7. CompositionInv
    BY DEF ForecastInit, CompositionInv, OneComposition, BuildIsOne, Scoring, Saves
  <1>8. RecencyInv
    BY <1>4 DEF ForecastInit, RecencyInv, Scoring
  <1> QED
    BY <1>5, <1>6, <1>7, <1>8 DEF ForecastInv

------------------------------------------------------------------------------

(* A request that has its predictions answers them, or keeps them to file. *)
LEMMA DeliverTyped ==
  ASSUME ForecastTypeOK, NEW p \in Procs, NEW purpose \in Purposes, NEW forecast \in Forecast,
         Deliver(p, purpose, forecast)
  PROVE  /\ build' \in [Procs -> Building \cup Saving \cup {Idle}]
         /\ report' \in [comp: Compositions, forecast: Forecast, age: 0..(ReportTTL - 1)] \cup {Nothing}
         /\ answer' \in Forecast \cup {Nothing}
  <1>1. slate.comp \in Compositions
    BY DEF ForecastTypeOK
  <1>2. CASE purpose = "preclose"
    <2>1. [step |-> "save", comp |-> slate.comp, forecast |-> forecast] \in Saving
      BY <1>1 DEF Saving
    <2> QED
      BY <1>2, <2>1 DEF Deliver, ForecastTypeOK
  <1>3. CASE purpose # "preclose"
    <2>1. 0 \in 0..(ReportTTL - 1)
      BY ForecastAssumption
    <2> QED
      BY <1>1, <1>3, <2>1 DEF Deliver, ForecastTypeOK
  <1> QED
    BY <1>2, <1>3

(* An entry that is a day older is one of its kind, or gone.               *)
LEMMA AgedTyped ==
  /\ \A e \in Entry \cup {Nothing} : Aged(e, TTL) \in Entry \cup {Nothing}
  /\ \A r \in [comp: Compositions, forecast: Forecast, age: 0..(ReportTTL - 1)] \cup {Nothing} :
       Aged(r, ReportTTL - 1)
         \in [comp: Compositions, forecast: Forecast, age: 0..(ReportTTL - 1)] \cup {Nothing}
  BY ForecastAssumption, SMTT(30) DEF Aged, Entry

LEMMA BuildKeepsType ==
  ASSUME ForecastTypeOK, NEW p \in Procs,
         \/ \E purpose \in Purposes : AnswerFromCache(p, purpose) \/ BeginBuild(p, purpose)
         \/ ScoreNext(p) \/ FinishBuild(p) \/ SaveSnapshot(p) \/ AnswerReport
  PROVE  ForecastTypeOK'
  <1>0. Truth \in Forecast
    BY TruthIsForecast DEF ForecastTypeOK, Slate, Truth
  <1>1. ASSUME NEW purpose \in Purposes, AnswerFromCache(p, purpose) PROVE ForecastTypeOK'
    <2>1. BucketOf(purpose) \in Buckets
      BY DEF BucketOf, Buckets
    <2>2. caches[p][BucketOf(purpose)].forecast \in Forecast
      BY <1>1, <2>1, EntriesTyped DEF AnswerFromCache, Entry
    <2> QED
      BY <1>1, <2>2, DeliverTyped DEF AnswerFromCache, ForecastTypeOK
  <1>2. ASSUME NEW purpose \in Purposes, BeginBuild(p, purpose) PROVE ForecastTypeOK'
    <2>1. [step |-> "score", purpose |-> purpose, intact |-> TRUE, age |-> 0,
           next |-> IF BucketOf(purpose) = "persisting" THEN 2 ELSE N + 1,
           forecast |-> Truth] \in Building
      BY <1>0, ForecastAssumption DEF Building
    <2>2. caches' \in [Procs -> [Buckets -> Entry \cup {Nothing}]]
      BY <1>2 DEF BeginBuild, Invalidated, ForecastTypeOK
    <2> QED
      BY <1>2, <2>1, <2>2 DEF BeginBuild, ForecastTypeOK
  <1>3. CASE ScoreNext(p)
    <2>1. build[p] \in Building
      BY <1>3, ScoringIsBuilding DEF ScoreNext
    <2>2. build[p].next \in Positions /\ build[p].next + 1 \in 2..(N + 1)
      BY <1>3, <2>1, ForecastAssumption DEF ScoreNext, Building, Positions
    <2>3. Truth[build[p].next] \in State
      BY <1>0, <2>2 DEF Forecast
    <2>4. [build[p] EXCEPT !.forecast[build[p].next] = Truth[build[p].next], !.next = build[p].next + 1]
            \in Building
      BY <2>1, <2>2, <2>3 DEF Building, Forecast
    <2> QED
      BY <1>3, <2>4 DEF ScoreNext, ForecastTypeOK
  <1>4. CASE FinishBuild(p)
    <2>1. build[p] \in Building
      BY <1>4, ScoringIsBuilding DEF FinishBuild
    <2>2. /\ build[p].forecast \in Forecast /\ build[p].purpose \in Purposes
          /\ BucketOf(build[p].purpose) \in Buckets
          /\ [forecast |-> build[p].forecast, age |-> 0] \in Entry
      BY <2>1, MaxAgeIsNat DEF Building, BucketOf, Buckets, Entry
    <2>3. caches' \in [Procs -> [Buckets -> Entry \cup {Nothing}]]
      BY <1>4, <2>2 DEF FinishBuild, ForecastTypeOK
    <2> QED
      BY <1>4, <2>2, <2>3, DeliverTyped DEF FinishBuild, ForecastTypeOK
  <1>5. CASE SaveSnapshot(p)
    <2>1. build[p] \in Saving
      BY <1>5, ScoringIsBuilding DEF SaveSnapshot, Saves
    <2> QED
      BY <1>5, <2>1 DEF SaveSnapshot, ForecastTypeOK, Saving, Current
  <1>6. CASE AnswerReport
    BY <1>6 DEF AnswerReport, ReportIsLive, ForecastTypeOK
  <1> QED
    BY <1>1, <1>2, <1>3, <1>4, <1>5, <1>6

(* Whatever changes the slate, it stays one.                               *)
LEMMA ChangedSlate ==
  ASSUME ForecastTypeOK, NEW p \in Procs,
         \/ \E c \in Compositions : UpsertSlate(p, c)
         \/ \E f \in Fixtures, verdict \in {"yes", "no"} : ReportStage(p, f, verdict)
         \/ \E pos \in Positions, flag \in BOOLEAN : RuleKnockout(pos, flag)
  PROVE  /\ slate' \in Slate /\ age' = Witness(slate') /\ answer' = Nothing /\ report' = report
         /\ edits' \in 0..MaxEdits
  <1>0. /\ slate \in Slate /\ stage \in [Fixtures -> Verdicts] /\ edits \in 0..MaxEdits
        /\ slate.comp \in Compositions /\ slate.links \in [Positions -> Link]
    BY DEF ForecastTypeOK, Slate
  <1>1. ASSUME NEW c \in Compositions, UpsertSlate(p, c) PROVE slate' \in Slate
    BY <1>0, <1>1, RebuiltTyped DEF UpsertSlate, Slate
  <1>2. ASSUME NEW f \in Fixtures, NEW verdict \in {"yes", "no"}, ReportStage(p, f, verdict)
        PROVE  slate' \in Slate
    <2> DEFINE revised == [pos \in Positions |->
                    IF FixtureAt[slate.comp][pos] = f /\ slate.links[pos].source = "auto"
                    THEN [slate.links[pos] EXCEPT !.flag = (verdict = "yes")]
                    ELSE slate.links[pos]]
    <2>1. \A l \in Link : [l EXCEPT !.flag = (verdict = "yes")] \in Link
      BY DEF Link
    <2>2. revised \in [Positions -> Link]
      BY <1>0, <2>1
    <2> HIDE DEF revised
    <2>3. slate' = [slate EXCEPT !.links = revised]
      BY <1>2 DEF ReportStage, revised
    <2> QED
      BY <1>0, <2>2, <2>3 DEF Slate
  <1>3. ASSUME NEW pos \in Positions, NEW flag \in BOOLEAN, RuleKnockout(pos, flag)
        PROVE  slate' \in Slate
    <2>1. [flag |-> flag, source |-> "operator"] \in Link
      BY DEF Link
    <2> QED
      BY <1>0, <1>3, <2>1 DEF RuleKnockout, Slate
  <1>4. edits < MaxEdits /\ edits' = edits + 1
    BY DEF UpsertSlate, ReportStage, RuleKnockout
  <1>5. edits' \in 0..MaxEdits
    BY <1>0, <1>4, MaxAgeIsNat
  <1> QED
    BY <1>1, <1>2, <1>3, <1>5 DEF UpsertSlate, ReportStage, RuleKnockout

LEMMA ChangeKeepsType ==
  ASSUME ForecastTypeOK, NEW p \in Procs,
         \/ \E c \in Compositions : UpsertSlate(p, c)
         \/ \E f \in Fixtures, verdict \in {"yes", "no"} : ReportStage(p, f, verdict)
         \/ \E pos \in Positions, flag \in BOOLEAN : RuleKnockout(pos, flag)
  PROVE  ForecastTypeOK'
  <1>1. /\ slate' \in Slate /\ answer' = Nothing /\ report' = report /\ edits' \in 0..MaxEdits
        /\ age' \in [Positions -> [State -> 0..(MaxAge + 1)]]
    BY ChangedSlate, WitnessLowers
  <1>2. ASSUME NEW c \in Compositions, UpsertSlate(p, c) PROVE ForecastTypeOK'
    <2>1. \A q \in Procs : Scoring(q) => [build[q] EXCEPT !.intact = FALSE] \in Building
      BY ScoringIsBuilding DEF Building
    <2>2. build' \in [Procs -> Building \cup Saving \cup {Idle}]
      BY <1>2, <2>1 DEF UpsertSlate, LinksRebuilt, ForecastTypeOK
    <2>3. \A s \in snapshots' : s \in snapshots
      BY <1>2 DEF UpsertSlate
    <2> QED
      BY <1>1, <1>2, <2>2, <2>3 DEF UpsertSlate, ForecastTypeOK, Slate
  <1>3. ASSUME NEW f \in Fixtures, NEW verdict \in {"yes", "no"}, ReportStage(p, f, verdict)
        PROVE  ForecastTypeOK'
    <2>1. caches' \in [Procs -> [Buckets -> Entry \cup {Nothing}]]
      BY <1>3 DEF ReportStage, Invalidated, ForecastTypeOK
    <2>2. stage' \in [Fixtures -> Verdicts]
      BY <1>3 DEF ReportStage, ForecastTypeOK, Verdicts
    <2> QED
      BY <1>1, <1>3, <2>1, <2>2 DEF ReportStage, ForecastTypeOK, Slate
  <1>4. ASSUME NEW pos \in Positions, NEW flag \in BOOLEAN, RuleKnockout(pos, flag)
        PROVE  ForecastTypeOK'
    <2>1. caches' \in [Procs -> [Buckets -> Entry \cup {Nothing}]]
      BY <1>4 DEF RuleKnockout, Invalidated, ForecastTypeOK
    <2>2. ruled' \in [Positions -> BOOLEAN \cup {Nothing}]
      BY <1>4 DEF RuleKnockout, ForecastTypeOK
    <2> QED
      BY <1>1, <1>4, <2>1, <2>2 DEF RuleKnockout, ForecastTypeOK, Slate
  <1> QED
    BY <1>2, <1>3, <1>4

LEMMA TickKeepsType ==
  ASSUME ForecastTypeOK, Tick
  PROVE  ForecastTypeOK'
  <1>1. age' \in [Positions -> [State -> 0..(MaxAge + 1)]]
    BY TickAges
  <1>2. ASSUME NEW p \in Procs, Scoring(p)
        PROVE  [build[p] EXCEPT !.age = build[p].age + 1] \in Building
    <2>1. build[p] \in Building /\ build[p].age < BuildTime
      BY <1>2, ScoringIsBuilding DEF Tick
    <2>2. build[p].age + 1 \in 0..BuildTime
      BY <2>1, MaxAgeIsNat DEF Building
    <2> QED
      BY <2>1, <2>2 DEF Building
  <1>3. build' = [p \in Procs |-> IF Scoring(p) THEN [build[p] EXCEPT !.age = build[p].age + 1] ELSE build[p]]
    BY DEF Tick
  <1>4. build' \in [Procs -> Building \cup Saving \cup {Idle}]
    BY <1>2, <1>3 DEF ForecastTypeOK
  <1>5. caches' \in [Procs -> [Buckets -> Entry \cup {Nothing}]]
    BY AgedTyped DEF Tick, ForecastTypeOK
  <1>6. report' \in [comp: Compositions, forecast: Forecast, age: 0..(ReportTTL - 1)] \cup {Nothing}
    BY AgedTyped DEF Tick, ForecastTypeOK
  <1> QED
    BY <1>1, <1>4, <1>5, <1>6 DEF Tick, ForecastTypeOK

LEMMA TypeStep == ForecastTypeOK /\ [ForecastNext]_vars => ForecastTypeOK'
  <1> SUFFICES ASSUME ForecastTypeOK, [ForecastNext]_vars PROVE ForecastTypeOK'
    OBVIOUS
  <1>1. Api \in Procs
    BY ForecastAssumption
  <1>2. CASE UNCHANGED vars
    BY <1>2 DEF vars, ForecastTypeOK
  <1>3. CASE Tick
    BY <1>3, TickKeepsType
  <1> QED
    BY <1>1, <1>2, <1>3, BuildKeepsType, ChangeKeepsType DEF ForecastNext

------------------------------------------------------------------------------

(* The operator's word stays at its position under every change.           *)
LEMMA RulingsStay ==
  ASSUME ForecastTypeOK, RulingSurvives, [ForecastNext]_vars
  PROVE  RulingSurvives'
  <1>1. slate \in Slate /\ slate.links \in [Positions -> Link] /\ ruled \in [Positions -> BOOLEAN \cup {Nothing}]
    BY DEF ForecastTypeOK, Slate
  <1>2. CASE UNCHANGED <<slate, ruled>>
    BY <1>2 DEF RulingSurvives
  <1>3. ASSUME NEW p \in Procs, NEW c \in Compositions, UpsertSlate(p, c) PROVE RulingSurvives'
    BY <1>1, <1>3 DEF UpsertSlate, Rebuilt, RulingSurvives
  <1>4. ASSUME NEW p \in Procs, NEW f \in Fixtures, NEW verdict \in {"yes", "no"},
               ReportStage(p, f, verdict)
        PROVE  RulingSurvives'
    <2>1. \A k \in Positions : slate.links[k].source = "operator" => slate'.links[k] = slate.links[k]
      BY <1>1, <1>4 DEF ReportStage, Slate
    <2>2. ruled' = ruled
      BY <1>4 DEF ReportStage
    <2> QED
      BY <2>1, <2>2 DEF RulingSurvives
  <1>5. ASSUME NEW pos \in Positions, NEW flag \in BOOLEAN, RuleKnockout(pos, flag)
        PROVE  RulingSurvives'
    <2>1. slate'.links = [slate.links EXCEPT ![pos] = [flag |-> flag, source |-> "operator"]]
      BY <1>1, <1>5 DEF RuleKnockout, Slate
    <2>2. ruled' = [ruled EXCEPT ![pos] = flag]
      BY <1>5 DEF RuleKnockout
    <2> QED
      BY <1>1, <2>1, <2>2 DEF RulingSurvives
  <1>6. CASE Tick \/ AnswerReport \/ UNCHANGED vars
    BY <1>2, <1>6 DEF Tick, AnswerReport, vars
  <1>7. ASSUME NEW p \in Procs,
               \/ \E purpose \in Purposes : AnswerFromCache(p, purpose) \/ BeginBuild(p, purpose)
               \/ ScoreNext(p) \/ FinishBuild(p) \/ SaveSnapshot(p)
        PROVE  RulingSurvives'
    BY <1>2, <1>7 DEF AnswerFromCache, BeginBuild, ScoreNext, FinishBuild, SaveSnapshot
  <1> QED
    BY <1>3, <1>4, <1>5, <1>6, <1>7 DEF ForecastNext

(* What a forecast of the slate as it is shows of the operator's rulings.  *)
LEMMA TruthShowsRulings ==
  ASSUME ForecastTypeOK, RulingSurvives
  PROVE  \A k \in Positions : ruled[k] # Nothing => Truth[k].flag = ruled[k]
  <1>1. \A k \in Positions : Truth[k].flag = slate.links[k].flag
    BY TruthIsForecast DEF ForecastTypeOK, Slate, Truth
  <1> SUFFICES ASSUME NEW k \in Positions, ruled[k] # Nothing PROVE Truth[k].flag = ruled[k]
    OBVIOUS
  <1>2. slate.links[k] = [flag |-> ruled[k], source |-> "operator"]
    BY DEF RulingSurvives
  <1> QED
    BY <1>1, <1>2

(* What the API caches, and what it is building, follows the rulings.      *)
LEMMA RulingStep == ForecastTypeOK /\ RulingInv /\ [ForecastNext]_vars => RulingInv'
  <1> SUFFICES ASSUME ForecastTypeOK, RulingInv, [ForecastNext]_vars PROVE RulingInv'
    OBVIOUS
  <1> USE DEF RulingInv
  <1>0. RulingSurvives' /\ Api \in Procs
    BY RulingsStay, ForecastAssumption
  <1>1. caches \in [Procs -> [Buckets -> Entry \cup {Nothing}]] /\ build \in [Procs -> Building \cup Saving \cup {Idle}]
    BY DEF ForecastTypeOK
  <1>2. ASSUME ruled' = ruled, caches'[Api] = caches[Api], build'[Api] = build[Api]
        PROVE  RulingIsShown' /\ BuildShowsRuling'
    BY <1>2 DEF RulingIsShown, BuildShowsRuling, Scoring
  <1>3. ASSUME NEW p \in Procs, NEW purpose \in Purposes, AnswerFromCache(p, purpose)
        PROVE  RulingIsShown' /\ BuildShowsRuling'
    <2>1. \/ build' = [build EXCEPT ![p] = Idle]
          \/ build'[p].step = "save" /\ \A q \in Procs \ {p} : build'[q] = build[q]
      BY <1>1, <1>3 DEF AnswerFromCache, Deliver
    <2>2. ~Scoring(Api)' \/ build'[Api] = build[Api]
      BY <1>0, <1>1, <2>1 DEF Scoring
    <2>3. ruled' = ruled /\ caches' = caches
      BY <1>3 DEF AnswerFromCache
    <2> QED
      BY <2>2, <2>3 DEF RulingIsShown, BuildShowsRuling, Scoring
  <1>4. ASSUME NEW p \in Procs, NEW purpose \in Purposes, BeginBuild(p, purpose)
        PROVE  RulingIsShown' /\ BuildShowsRuling'
    <2>1. p = Api => build'[Api].forecast = Truth
      BY <1>0, <1>1, <1>4 DEF BeginBuild
    <2>2. p # Api => build'[Api] = build[Api]
      BY <1>0, <1>1, <1>4 DEF BeginBuild
    <2>3. ruled' = ruled /\ \A b \in Buckets : caches'[Api][b] \in {caches[Api][b], Nothing}
      BY <1>0, <1>1, <1>4 DEF BeginBuild, Invalidated
    <2>4. BuildShowsRuling'
      BY <2>1, <2>2, <2>3, TruthShowsRulings DEF BuildShowsRuling, Scoring
    <2> QED
      BY <2>3, <2>4 DEF RulingIsShown
  <1>5. ASSUME NEW p \in Procs, ScoreNext(p) PROVE RulingIsShown' /\ BuildShowsRuling'
    <2>1. ruled' = ruled /\ caches' = caches
      BY <1>5 DEF ScoreNext
    <2>2. p # Api => build'[Api] = build[Api]
      BY <1>0, <1>1, <1>5 DEF ScoreNext
    <2>3. ASSUME p = Api, Scoring(Api)'
          PROVE  /\ Scoring(Api)
                 /\ \A k \in Positions : build'[Api].forecast[k] \in {build[Api].forecast[k], Truth[k]}
      <3>1. build[Api] \in Building
        BY <1>0, <1>5, <2>3, ScoringIsBuilding DEF ScoreNext
      <3>2. build[Api].forecast \in [Positions -> State]
        BY <3>1 DEF Building, Forecast
      <3>3. build[Api].intact
        BY <1>0, <1>1, <1>5, <2>3 DEF ScoreNext, Scoring
      <3>4. build'[Api].forecast = [build[Api].forecast EXCEPT ![build[Api].next] = Truth[build[Api].next]]
        BY <1>0, <1>1, <1>5, <2>3, <3>1, <3>3 DEF ScoreNext, Building
      <3>5. Scoring(Api)
        BY <1>5, <2>3 DEF ScoreNext
      <3> QED
        BY <3>2, <3>4, <3>5
    <2>4. BuildShowsRuling'
      BY <2>1, <2>2, <2>3, TruthShowsRulings DEF BuildShowsRuling, Scoring
    <2> QED
      BY <2>1, <2>4 DEF RulingIsShown
  <1>6. ASSUME NEW p \in Procs, FinishBuild(p) PROVE RulingIsShown' /\ BuildShowsRuling'
    <2>1. p # Api => build'[Api] = build[Api] /\ caches'[Api] = caches[Api]
      BY <1>0, <1>1, <1>6 DEF FinishBuild, Deliver
    <2>2. ruled' = ruled
      BY <1>6 DEF FinishBuild
    <2>3. CASE p = Api
      <3>1. ~Scoring(Api)'
        BY <1>0, <1>1, <1>6, <2>3 DEF FinishBuild, Deliver, Scoring
      <3>2. \A b \in Buckets :
              \/ caches'[Api][b] = caches[Api][b]
              \/ caches'[Api][b].forecast = build[Api].forecast
        BY <1>0, <1>1, <1>6, <2>3 DEF FinishBuild
      <3>3. \A k \in Positions : ruled[k] # Nothing => build[Api].forecast[k].flag = ruled[k]
        BY <1>6, <2>3 DEF FinishBuild, BuildShowsRuling
      <3> QED
        BY <2>2, <3>1, <3>2, <3>3 DEF RulingIsShown, BuildShowsRuling
    <2> QED
      BY <1>2, <2>1, <2>2, <2>3
  <1>7. ASSUME NEW p \in Procs, SaveSnapshot(p) PROVE RulingIsShown' /\ BuildShowsRuling'
    <2>1. ruled' = ruled /\ caches' = caches /\ (~Scoring(Api)' \/ build'[Api] = build[Api])
      BY <1>0, <1>1, <1>7 DEF SaveSnapshot, Scoring
    <2> QED
      BY <2>1 DEF RulingIsShown, BuildShowsRuling, Scoring
  <1>8. ASSUME NEW p \in Procs, NEW c \in Compositions, UpsertSlate(p, c)
        PROVE  RulingIsShown' /\ BuildShowsRuling'
    <2>1. ruled' = ruled /\ caches' = caches
      BY <1>8 DEF UpsertSlate
    <2>2. Scoring(Api)' => Scoring(Api) /\ build'[Api].forecast = build[Api].forecast
      <3>1. build'[Api] = IF Scoring(Api) THEN [build[Api] EXCEPT !.intact = FALSE] ELSE build[Api]
        BY <1>0, <1>8 DEF UpsertSlate, LinksRebuilt
      <3>2. Scoring(Api) => build[Api] \in Building
        BY <1>0, ScoringIsBuilding
      <3> QED
        BY <3>1, <3>2 DEF Building, Scoring
    <2> QED
      BY <2>1, <2>2 DEF RulingIsShown, BuildShowsRuling
  <1>9. ASSUME NEW p \in Procs, NEW f \in Fixtures, NEW verdict \in {"yes", "no"},
               ReportStage(p, f, verdict)
        PROVE  RulingIsShown' /\ BuildShowsRuling'
    <2>1. /\ ruled' = ruled /\ build' = build
          /\ \A b \in Buckets : caches'[Api][b] \in {caches[Api][b], Nothing}
      BY <1>0, <1>1, <1>9 DEF ReportStage, Invalidated
    <2> QED
      BY <2>1 DEF RulingIsShown, BuildShowsRuling, Scoring
  <1>10. ASSUME NEW pos \in Positions, NEW flag \in BOOLEAN, RuleKnockout(pos, flag)
         PROVE  RulingIsShown' /\ BuildShowsRuling'
    <2>1. build' = build /\ build[Api] = Idle /\ \A b \in Buckets : caches'[Api][b] = Nothing
      BY <1>0, <1>1, <1>10 DEF RuleKnockout, Invalidated
    <2> QED
      BY <2>1 DEF RulingIsShown, BuildShowsRuling, Scoring
  <1>11. CASE Tick
    <2>1. ruled' = ruled
      BY <1>11 DEF Tick
    <2>2. ASSUME NEW b \in Buckets, caches'[Api][b] # Nothing
          PROVE  caches[Api][b] # Nothing /\ caches'[Api][b].forecast = caches[Api][b].forecast
      <3>1. caches'[Api][b] = Aged(caches[Api][b], TTL)
        BY <1>0, <1>11 DEF Tick
      <3>2. caches[Api][b] # Nothing
        BY <2>2, <3>1 DEF Aged
      <3>3. caches[Api][b] \in Entry
        BY <1>0, <3>2, EntriesTyped
      <3> QED
        BY <2>2, <3>1, <3>2, <3>3 DEF Aged, Entry
    <2>3. Scoring(Api)' => Scoring(Api) /\ build'[Api].forecast = build[Api].forecast
      <3>1. build'[Api] = IF Scoring(Api) THEN [build[Api] EXCEPT !.age = build[Api].age + 1] ELSE build[Api]
        BY <1>0, <1>11 DEF Tick
      <3>2. Scoring(Api) => build[Api] \in Building
        BY <1>0, ScoringIsBuilding
      <3> QED
        BY <3>1, <3>2 DEF Building, Scoring
    <2> QED
      BY <1>0, <2>1, <2>2, <2>3 DEF RulingIsShown, BuildShowsRuling
  <1>12. CASE AnswerReport \/ UNCHANGED vars
    BY <1>0, <1>2, <1>12 DEF AnswerReport, vars
  <1> QED
    BY <1>0, <1>3, <1>4, <1>5, <1>6, <1>7, <1>8, <1>9, <1>10, <1>11, <1>12 DEF ForecastNext

------------------------------------------------------------------------------

\* A forecast of the fixtures of some composition.
IsPure(forecast) == \E c \in Compositions : IsOf(forecast, c)

(* A forecast of one composition, position by position, stays one when a   *)
(* position is read again from the same composition.                       *)
LEMMA RereadIsOf ==
  ASSUME NEW c \in Compositions, NEW forecast \in Forecast, NEW truth \in Forecast,
         NEW k \in Positions, IsOf(forecast, c), IsOf(truth, c)
  PROVE  IsOf([forecast EXCEPT ![k] = truth[k]], c)
  BY DEF IsOf, Forecast

(* A build that is still intact has read the composition the slate has.    *)
LEMMA CompositionStep == ForecastTypeOK /\ CompositionInv /\ [ForecastNext]_vars => CompositionInv'
  <1> SUFFICES ASSUME ForecastTypeOK, CompositionInv, [ForecastNext]_vars PROVE CompositionInv'
    OBVIOUS
  <1>0. /\ caches \in [Procs -> [Buckets -> Entry \cup {Nothing}]]
        /\ build \in [Procs -> Building \cup Saving \cup {Idle}]
        /\ slate \in Slate /\ slate.comp \in Compositions
        /\ Truth \in Forecast /\ IsOf(Truth, slate.comp)
    BY TruthIsForecast DEF ForecastTypeOK, Slate, Truth
  <1>1. /\ \A p \in Procs, b \in Buckets : caches[p][b] # Nothing => IsPure(caches[p][b].forecast)
        /\ \A s \in snapshots : IsPure(s.forecast)
        /\ \A p \in Procs : Scoring(p) \/ Saves(p) => IsPure(build[p].forecast)
        /\ \A p \in Procs : Scoring(p) /\ build[p].intact => IsOf(build[p].forecast, slate.comp)
    BY DEF CompositionInv, OneComposition, BuildIsOne, IsPure
  <1>2. ASSUME \A p \in Procs, b \in Buckets : caches'[p][b] # Nothing => IsPure(caches'[p][b].forecast),
               \A s \in snapshots' : IsPure(s.forecast),
               \A p \in Procs : (Scoring(p) \/ Saves(p))' => IsPure(build'[p].forecast),
               \A p \in Procs : Scoring(p)' /\ build'[p].intact => IsOf(build'[p].forecast, slate'.comp)
        PROVE  CompositionInv'
    BY <1>2 DEF CompositionInv, OneComposition, BuildIsOne, IsPure
  \* of a request that has its forecast
  <1>3. ASSUME NEW p \in Procs, NEW purpose \in Purposes, NEW forecast \in Forecast, IsPure(forecast),
               Deliver(p, purpose, forecast), slate' = slate
        PROVE  /\ \A q \in Procs : (Scoring(q) \/ Saves(q))' => IsPure(build'[q].forecast)
               /\ \A q \in Procs : Scoring(q)' /\ build'[q].intact => IsOf(build'[q].forecast, slate'.comp)
    <2>1. \A q \in Procs \ {p} : build'[q] = build[q]
      BY <1>0, <1>3 DEF Deliver
    <2>2. \/ build'[p] = Idle
          \/ build'[p] = [step |-> "save", comp |-> slate.comp, forecast |-> forecast]
      BY <1>0, <1>3 DEF Deliver
    <2>3. ~Scoring(p)' /\ (Saves(p)' => build'[p].forecast = forecast)
      BY <2>2 DEF Scoring, Saves
    <2> SUFFICES ASSUME NEW q \in Procs
                 PROVE  /\ (Scoring(q) \/ Saves(q))' => IsPure(build'[q].forecast)
                        /\ Scoring(q)' /\ build'[q].intact => IsOf(build'[q].forecast, slate'.comp)
      OBVIOUS
    <2>4. CASE q = p
      BY <1>3, <2>3, <2>4
    <2>5. CASE q # p
      BY <1>1, <1>3, <2>1, <2>5 DEF Scoring, Saves
    <2> QED
      BY <2>4, <2>5
  <1>4. ASSUME NEW p \in Procs, NEW purpose \in Purposes, AnswerFromCache(p, purpose)
        PROVE  CompositionInv'
    <2>1. BucketOf(purpose) \in Buckets /\ caches[p][BucketOf(purpose)] # Nothing
      BY <1>4 DEF BucketOf, Buckets, AnswerFromCache
    <2>2. caches[p][BucketOf(purpose)].forecast \in Forecast
      BY <2>1, EntriesTyped DEF Entry
    <2>3. IsPure(caches[p][BucketOf(purpose)].forecast)
      BY <1>1, <2>1
    <2>4. Deliver(p, purpose, caches[p][BucketOf(purpose)].forecast)
      BY <1>4 DEF AnswerFromCache
    <2>5. slate' = slate /\ caches' = caches /\ snapshots' = snapshots
      BY <1>4 DEF AnswerFromCache
    <2> QED
      BY <1>1, <1>2, <1>3, <2>2, <2>3, <2>4, <2>5
  <1>5. ASSUME NEW p \in Procs, NEW purpose \in Purposes, BeginBuild(p, purpose) PROVE CompositionInv'
    <2>1. /\ slate' = slate /\ snapshots' = snapshots
          /\ \A q \in Procs \ {p} : build'[q] = build[q]
          /\ build'[p].forecast = Truth
          /\ \A q \in Procs, b \in Buckets : caches'[q][b] \in {caches[q][b], Nothing}
      BY <1>0, <1>5 DEF BeginBuild, Invalidated
    <2>2. IsPure(Truth)
      BY <1>0 DEF IsPure
    <2>3. \A q \in Procs : q # p => (Scoring(q)' = Scoring(q)) /\ (Saves(q)' = Saves(q))
      BY <2>1 DEF Scoring, Saves
    <2>4. \A q \in Procs : (Scoring(q) \/ Saves(q))' => IsPure(build'[q].forecast)
      BY <1>1, <2>1, <2>2, <2>3
    <2>5. \A q \in Procs : Scoring(q)' /\ build'[q].intact => IsOf(build'[q].forecast, slate'.comp)
      BY <1>0, <1>1, <2>1, <2>3
    <2> QED
      BY <1>1, <1>2, <2>1, <2>4, <2>5
  <1>6. ASSUME NEW p \in Procs, ScoreNext(p) PROVE CompositionInv'
    <2>1. slate' = slate /\ caches' = caches /\ snapshots' = snapshots
      BY <1>6 DEF ScoreNext
    <2>2. \A q \in Procs : q # p => build'[q] = build[q]
      BY <1>0, <1>6 DEF ScoreNext
    <2>3. build[p] \in Building /\ Scoring(p)
      BY <1>6, ScoringIsBuilding DEF ScoreNext
    <2>4. (Scoring(p) \/ Saves(p))' =>
             IsPure(build'[p].forecast) /\ IsOf(build'[p].forecast, slate.comp)
      <3> SUFFICES ASSUME (Scoring(p) \/ Saves(p))'
                   PROVE  IsPure(build'[p].forecast) /\ IsOf(build'[p].forecast, slate.comp)
        OBVIOUS
      <3>1. build[p].intact
        BY <1>0, <1>6 DEF ScoreNext, Scoring, Saves
      <3>2. build[p].next \in Positions /\ build[p].forecast \in Forecast
        BY <1>6, <2>3, ForecastAssumption DEF ScoreNext, Building, Positions
      <3>3. build'[p].forecast = [build[p].forecast EXCEPT ![build[p].next] = Truth[build[p].next]]
        BY <1>0, <1>6, <2>3, <3>1 DEF ScoreNext, Building
      <3>4. IsOf(build[p].forecast, slate.comp)
        BY <1>1, <2>3, <3>1
      <3>5. IsOf([build[p].forecast EXCEPT ![build[p].next] = Truth[build[p].next]], slate.comp)
        BY <1>0, <3>2, <3>4, RereadIsOf
      <3> QED
        BY <1>0, <3>3, <3>5 DEF IsPure
    <2>5. \A q \in Procs : q # p => (Scoring(q)' = Scoring(q)) /\ (Saves(q)' = Saves(q))
      BY <2>2 DEF Scoring, Saves
    <2>6. \A q \in Procs : (Scoring(q) \/ Saves(q))' => IsPure(build'[q].forecast)
      BY <1>1, <2>2, <2>4, <2>5
    <2>7. \A q \in Procs : Scoring(q)' /\ build'[q].intact => IsOf(build'[q].forecast, slate'.comp)
      BY <1>1, <2>1, <2>2, <2>4, <2>5
    <2> QED
      BY <1>1, <1>2, <2>1, <2>6, <2>7
  <1>7. ASSUME NEW p \in Procs, FinishBuild(p) PROVE CompositionInv'
    <2>1. build[p] \in Building /\ Scoring(p)
      BY <1>7, ScoringIsBuilding DEF FinishBuild
    <2>2. build[p].forecast \in Forecast /\ build[p].purpose \in Purposes /\ IsPure(build[p].forecast)
      BY <1>1, <2>1 DEF Building
    <2>3. slate' = slate /\ snapshots' = snapshots /\ Deliver(p, build[p].purpose, build[p].forecast)
      BY <1>7 DEF FinishBuild
    <2>4. \A q \in Procs, b \in Buckets :
            caches'[q][b] = caches[q][b] \/ caches'[q][b].forecast = build[p].forecast
      BY <1>0, <1>7 DEF FinishBuild
    <2>5. \A q \in Procs, b \in Buckets : caches'[q][b] # Nothing => IsPure(caches'[q][b].forecast)
      BY <1>1, <2>2, <2>4
    <2> QED
      BY <1>1, <1>2, <1>3, <2>2, <2>3, <2>5
  <1>8. ASSUME NEW p \in Procs, SaveSnapshot(p) PROVE CompositionInv'
    <2>1. slate' = slate /\ caches' = caches /\ build' = [build EXCEPT ![p] = Idle]
      BY <1>8 DEF SaveSnapshot
    <2>2. \A s \in snapshots' : s \in snapshots \/ s.forecast = build[p].forecast
      BY <1>8 DEF SaveSnapshot
    <2>3. IsPure(build[p].forecast)
      BY <1>1, <1>8 DEF SaveSnapshot, Saves
    <2>4. \A q \in Procs : (Scoring(q)' => Scoring(q)) /\ (Saves(q)' => Saves(q))
      BY <1>0, <2>1 DEF Scoring, Saves
    <2>5. \A q \in Procs : (Scoring(q) \/ Saves(q))' => build'[q] = build[q]
      BY <1>0, <2>1 DEF Scoring, Saves
    <2> QED
      BY <1>1, <1>2, <2>1, <2>2, <2>3, <2>4, <2>5
  <1>9. ASSUME NEW p \in Procs, NEW c \in Compositions, UpsertSlate(p, c) PROVE CompositionInv'
    <2>1. caches' = caches /\ \A s \in snapshots' : s \in snapshots
      BY <1>9 DEF UpsertSlate
    <2>2. ASSUME NEW q \in Procs
          PROVE  /\ (Scoring(q) \/ Saves(q))' =>
                        (Scoring(q) \/ Saves(q)) /\ build'[q].forecast = build[q].forecast
                 /\ Scoring(q)' => ~build'[q].intact
      <3>1. build'[q] = IF Scoring(q) THEN [build[q] EXCEPT !.intact = FALSE] ELSE build[q]
        BY <1>9 DEF UpsertSlate, LinksRebuilt
      <3>2. Scoring(q) => build[q] \in Building
        BY ScoringIsBuilding
      <3> QED
        BY <3>1, <3>2 DEF Building, Scoring, Saves
    <2> QED
      BY <1>1, <1>2, <2>1, <2>2
  <1>10. ASSUME slate'.comp = slate.comp, build' = build, snapshots' = snapshots,
                \A q \in Procs, b \in Buckets : caches'[q][b] \in {caches[q][b], Nothing}
         PROVE  CompositionInv'
    <2>1. \A q \in Procs : (Scoring(q)' = Scoring(q)) /\ (Saves(q)' = Saves(q))
      BY <1>10 DEF Scoring, Saves
    <2> QED
      BY <1>1, <1>2, <1>10, <2>1
  <1>11. ASSUME NEW p \in Procs, NEW f \in Fixtures, NEW verdict \in {"yes", "no"},
                ReportStage(p, f, verdict)
         PROVE  CompositionInv'
    <2>1. slate'.comp = slate.comp /\ build' = build /\ snapshots' = snapshots
      BY <1>0, <1>11 DEF ReportStage, Slate
    <2>2. \A q \in Procs, b \in Buckets : caches'[q][b] \in {caches[q][b], Nothing}
      BY <1>0, <1>11 DEF ReportStage, Invalidated
    <2> QED
      BY <1>10, <2>1, <2>2
  <1>12. ASSUME NEW pos \in Positions, NEW flag \in BOOLEAN, RuleKnockout(pos, flag)
         PROVE  CompositionInv'
    <2>1. slate'.comp = slate.comp /\ build' = build /\ snapshots' = snapshots
      BY <1>0, <1>12 DEF RuleKnockout, Slate
    <2>2. \A q \in Procs, b \in Buckets : caches'[q][b] \in {caches[q][b], Nothing}
      BY <1>0, <1>12 DEF RuleKnockout, Invalidated
    <2> QED
      BY <1>10, <2>1, <2>2
  <1>13. CASE Tick
    <2>1. slate' = slate /\ snapshots' = snapshots
      BY <1>13 DEF Tick
    <2>2. ASSUME NEW q \in Procs, NEW b \in Buckets, caches'[q][b] # Nothing
          PROVE  caches[q][b] # Nothing /\ caches'[q][b].forecast = caches[q][b].forecast
      <3>1. caches'[q][b] = Aged(caches[q][b], TTL)
        BY <1>13 DEF Tick
      <3>2. caches[q][b] # Nothing
        BY <2>2, <3>1 DEF Aged
      <3>3. caches[q][b] \in Entry
        BY <3>2, EntriesTyped
      <3> QED
        BY <2>2, <3>1, <3>2, <3>3 DEF Aged, Entry
    <2>3. ASSUME NEW q \in Procs
          PROVE  /\ (Scoring(q) \/ Saves(q))' =>
                        (Scoring(q) \/ Saves(q)) /\ build'[q].forecast = build[q].forecast
                 /\ Scoring(q)' => Scoring(q) /\ build'[q].intact = build[q].intact
      <3>1. build'[q] = IF Scoring(q) THEN [build[q] EXCEPT !.age = build[q].age + 1] ELSE build[q]
        BY <1>13 DEF Tick
      <3>2. Scoring(q) => build[q] \in Building
        BY ScoringIsBuilding
      <3> QED
        BY <3>1, <3>2 DEF Building, Scoring, Saves
    <2> QED
      BY <1>1, <1>2, <2>1, <2>2, <2>3
  <1>14. CASE AnswerReport \/ UNCHANGED vars
    <2>1. slate' = slate /\ build' = build /\ snapshots' = snapshots /\ caches' = caches
      BY <1>14 DEF AnswerReport, vars
    <2> QED
      BY <1>10, <2>1
  <1> QED
    BY <1>4, <1>5, <1>6, <1>7, <1>8, <1>9, <1>11, <1>12, <1>13, <1>14 DEF ForecastNext

------------------------------------------------------------------------------

Ages == [Positions -> [State -> 0..(MaxAge + 1)]]
Reports == [comp: Compositions, forecast: Forecast, age: 0..(ReportTTL - 1)]

(* What was shown within n is shown within n + d when ages grow by d.      *)
LEMMA StillShown ==
  ASSUME NEW old \in Ages, NEW new \in Ages, NEW forecast \in Forecast, NEW n \in Nat, NEW d \in Nat,
         \A k \in Positions, v \in State : new[k][v] <= old[k][v] + d,
         ShownWithin(old, forecast, n)
  PROVE  ShownWithin(new, forecast, n + d)
  <1> SUFFICES ASSUME NEW k \in Positions PROVE new[k][forecast[k]] <= n + d
    BY DEF ShownWithin
  <1>1. forecast[k] \in State
    BY DEF Forecast
  <1>2. old[k][forecast[k]] \in Nat /\ new[k][forecast[k]] \in Nat
    BY <1>1, MaxAgeIsNat DEF Ages
  <1>3. old[k][forecast[k]] <= n
    BY DEF ShownWithin
  <1>4. new[k][forecast[k]] <= old[k][forecast[k]] + d
    BY <1>1
  <1> QED
    BY <1>2, <1>3, <1>4

(* And it is shown within anything longer.                                 *)
LEMMA ShownLonger ==
  ASSUME NEW ages \in Ages, NEW forecast \in Forecast, NEW n \in Nat, NEW m \in Nat, n <= m,
         ShownWithin(ages, forecast, n)
  PROVE  ShownWithin(ages, forecast, m)
  <1> SUFFICES ASSUME NEW k \in Positions PROVE ages[k][forecast[k]] <= m
    BY DEF ShownWithin
  <1>1. ages[k][forecast[k]] \in Nat /\ ages[k][forecast[k]] <= n
    BY MaxAgeIsNat DEF Ages, Forecast, ShownWithin
  <1> QED
    BY <1>1

(* The parts of the typed state the argument about ages is on.             *)
LEMMA RecencyTyped ==
  ASSUME ForecastTypeOK
  PROVE  /\ age \in Ages /\ slate \in Slate /\ Truth \in Forecast
         /\ caches \in [Procs -> [Buckets -> Entry \cup {Nothing}]]
         /\ build \in [Procs -> Building \cup Saving \cup {Idle}]
         /\ report \in Reports \cup {Nothing}
  BY TruthIsForecast DEF ForecastTypeOK, Ages, Slate, Reports, Truth

(* What is delivered is recent enough for a report.                        *)
LEMMA DeliverKeepsRecency ==
  ASSUME ForecastTypeOK, RecencyInv, NEW p \in Procs, NEW purpose \in Purposes, NEW forecast \in Forecast,
         ShownWithin(age, forecast, BuildTime + TTL), Deliver(p, purpose, forecast), age' = age
  PROVE  /\ \A q \in Procs : Scoring(q)' => ShownWithin(age', build'[q].forecast, build'[q].age)
         /\ report' # Nothing => ShownWithin(age', report'.forecast, BuildTime + TTL + report'.age)
  <1>1. ~Scoring(p)'
    BY RecencyTyped DEF Deliver, Scoring
  <1>2. \A q \in Procs : q # p => build'[q] = build[q]
    BY RecencyTyped DEF Deliver
  <1>3. \A q \in Procs : Scoring(q)' => Scoring(q) /\ build'[q] = build[q]
    BY <1>1, <1>2 DEF Scoring
  <1>4. \/ report' = report
        \/ report' = [comp |-> slate.comp, forecast |-> forecast, age |-> 0]
    BY DEF Deliver
  <1>5. BuildTime + TTL + 0 = BuildTime + TTL
    BY MaxAgeIsNat
  <1>6. report' # Nothing => ShownWithin(age', report'.forecast, BuildTime + TTL + report'.age)
    <2>1. CASE report' = report
      BY <2>1 DEF RecencyInv
    <2>2. CASE report' = [comp |-> slate.comp, forecast |-> forecast, age |-> 0]
      <3>1. report'.forecast = forecast /\ report'.age = 0
        BY <2>2
      <3> QED
        BY <1>5, <3>1
    <2> QED
      BY <1>4, <2>1, <2>2
  <1> QED
    BY <1>3, <1>6 DEF RecencyInv

(* Entries, builds and reports were put there by what was true not long    *)
(* before, and they are dropped before that is too long ago.               *)
LEMMA RecencyStep == ForecastTypeOK /\ RecencyInv /\ [ForecastNext]_vars => RecencyInv'
  <1> SUFFICES ASSUME ForecastTypeOK, RecencyInv, [ForecastNext]_vars PROVE RecencyInv'
    OBVIOUS
  <1>0. /\ age \in Ages /\ slate \in Slate /\ Truth \in Forecast
        /\ caches \in [Procs -> [Buckets -> Entry \cup {Nothing}]]
        /\ build \in [Procs -> Building \cup Saving \cup {Idle}]
        /\ report \in Reports \cup {Nothing}
    BY RecencyTyped
  <1>1. /\ ShownWithin(age, Truth, 0)
        /\ \A q \in Procs : Scoring(q) => ShownWithin(age, build[q].forecast, build[q].age)
        /\ \A q \in Procs, b \in Buckets : caches[q][b] # Nothing =>
             ShownWithin(age, caches[q][b].forecast, BuildTime + caches[q][b].age)
        /\ report # Nothing => ShownWithin(age, report.forecast, BuildTime + TTL + report.age)
    BY DEF RecencyInv
  <1>2. ASSUME ShownWithin(age', Truth', 0),
               \A q \in Procs : Scoring(q)' => ShownWithin(age', build'[q].forecast, build'[q].age),
               \A q \in Procs, b \in Buckets : caches'[q][b] # Nothing =>
                 ShownWithin(age', caches'[q][b].forecast, BuildTime + caches'[q][b].age),
               report' # Nothing => ShownWithin(age', report'.forecast, BuildTime + TTL + report'.age)
        PROVE  RecencyInv'
    BY <1>2 DEF RecencyInv
  <1>3. ASSUME NEW p \in Procs, NEW purpose \in Purposes, AnswerFromCache(p, purpose)
        PROVE  RecencyInv'
    <2> DEFINE entry == caches[p][BucketOf(purpose)]
    <2>1. BucketOf(purpose) \in Buckets /\ entry # Nothing
      BY <1>3 DEF BucketOf, Buckets, AnswerFromCache
    <2>2. entry \in Entry
      BY <2>1, EntriesTyped
    <2>3. ShownWithin(age, entry.forecast, BuildTime + entry.age)
      BY <1>1, <2>1
    <2>4. Deliver(p, purpose, entry.forecast) /\ slate' = slate /\ caches' = caches /\ age' = age
      BY <1>3 DEF AnswerFromCache
    <2> HIDE DEF entry
    <2>5. /\ entry.forecast \in Forecast /\ BuildTime + entry.age \in Nat /\ BuildTime + TTL \in Nat
          /\ BuildTime + entry.age <= BuildTime + TTL
      BY <2>2, MaxAgeIsNat DEF Entry
    <2>6. ShownWithin(age, entry.forecast, BuildTime + TTL)
      BY <1>0, <2>3, <2>5, ShownLonger
    <2>7. /\ \A q \in Procs : Scoring(q)' => ShownWithin(age', build'[q].forecast, build'[q].age)
          /\ report' # Nothing => ShownWithin(age', report'.forecast, BuildTime + TTL + report'.age)
      BY <2>4, <2>5, <2>6, DeliverKeepsRecency
    <2> QED
      BY <1>1, <1>2, <2>4, <2>7 DEF Truth
  <1>4. ASSUME NEW p \in Procs, NEW purpose \in Purposes, BeginBuild(p, purpose) PROVE RecencyInv'
    <2>1. /\ slate' = slate /\ age' = age /\ report' = report
          /\ \A q \in Procs : q # p => build'[q] = build[q]
          /\ build'[p].forecast = Truth /\ build'[p].age = 0
          /\ \A q \in Procs, b \in Buckets : caches'[q][b] \in {caches[q][b], Nothing}
      BY <1>0, <1>4 DEF BeginBuild, Invalidated
    <2>2. \A q \in Procs : q # p => Scoring(q)' = Scoring(q)
      BY <2>1 DEF Scoring
    <2>3. \A q \in Procs : Scoring(q)' => ShownWithin(age', build'[q].forecast, build'[q].age)
      BY <1>1, <2>1, <2>2
    <2> QED
      BY <1>1, <1>2, <2>1, <2>3 DEF Truth
  <1>5. ASSUME NEW p \in Procs, ScoreNext(p) PROVE RecencyInv'
    <2>1. slate' = slate /\ age' = age /\ report' = report /\ caches' = caches
      BY <1>5 DEF ScoreNext
    <2>2. \A q \in Procs : q # p => build'[q] = build[q]
      BY <1>0, <1>5 DEF ScoreNext
    <2>3. build[p] \in Building /\ Scoring(p)
      BY <1>5, ScoringIsBuilding DEF ScoreNext
    <2>4. Scoring(p)' => ShownWithin(age, build'[p].forecast, build'[p].age)
      <3> SUFFICES ASSUME Scoring(p)' PROVE ShownWithin(age, build'[p].forecast, build'[p].age)
        OBVIOUS
      <3>1. build[p].intact
        BY <1>0, <1>5 DEF ScoreNext, Scoring
      <3>2. build[p].next \in Positions /\ build[p].forecast \in Forecast /\ build[p].age \in Nat
        BY <1>5, <2>3, ForecastAssumption DEF ScoreNext, Building, Positions
      <3>3. /\ build'[p].forecast = [build[p].forecast EXCEPT ![build[p].next] = Truth[build[p].next]]
            /\ build'[p].age = build[p].age
        BY <1>0, <1>5, <2>3, <3>1 DEF ScoreNext, Building
      <3>4. ShownWithin(age, build[p].forecast, build[p].age)
        BY <1>1, <2>3
      <3> SUFFICES ASSUME NEW k \in Positions PROVE age[k][build'[p].forecast[k]] <= build[p].age
        BY <3>3 DEF ShownWithin
      <3>5. CASE k = build[p].next
        <4>1. build'[p].forecast[k] = Truth[k]
          BY <3>2, <3>3, <3>5 DEF Forecast
        <4>2. age[k][Truth[k]] <= 0 /\ age[k][Truth[k]] \in Nat
          BY <1>0, <1>1, MaxAgeIsNat DEF ShownWithin, Ages, Forecast
        <4> QED
          BY <3>2, <4>1, <4>2
      <3>6. CASE k # build[p].next
        <4>1. build'[p].forecast[k] = build[p].forecast[k]
          BY <3>2, <3>3, <3>6 DEF Forecast
        <4> QED
          BY <3>4, <4>1 DEF ShownWithin
      <3> QED
        BY <3>5, <3>6
    <2>5. \A q \in Procs : q # p => Scoring(q)' = Scoring(q)
      BY <2>2 DEF Scoring
    <2>6. \A q \in Procs : Scoring(q)' => ShownWithin(age', build'[q].forecast, build'[q].age)
      BY <1>1, <2>1, <2>2, <2>4, <2>5
    <2> QED
      BY <1>1, <1>2, <2>1, <2>6 DEF Truth
  <1>6. ASSUME NEW p \in Procs, FinishBuild(p) PROVE RecencyInv'
    <2>1. build[p] \in Building /\ Scoring(p)
      BY <1>6, ScoringIsBuilding DEF FinishBuild
    <2>2. /\ build[p].forecast \in Forecast /\ build[p].purpose \in Purposes
          /\ build[p].age \in Nat /\ build[p].age <= BuildTime /\ build[p].age <= BuildTime + TTL
          /\ BuildTime \in Nat /\ BuildTime + TTL \in Nat /\ BuildTime + 0 = BuildTime
      BY <2>1, MaxAgeIsNat DEF Building
    <2>3. ShownWithin(age, build[p].forecast, build[p].age)
      BY <1>1, <2>1
    <2>4. ShownWithin(age, build[p].forecast, BuildTime) /\ ShownWithin(age, build[p].forecast, BuildTime + TTL)
      BY <1>0, <2>2, <2>3, ShownLonger
    <2>5. slate' = slate /\ age' = age /\ Deliver(p, build[p].purpose, build[p].forecast)
      BY <1>6 DEF FinishBuild
    <2>6. \A q \in Procs, b \in Buckets :
            \/ caches'[q][b] = caches[q][b]
            \/ caches'[q][b].forecast = build[p].forecast /\ caches'[q][b].age = 0
      BY <1>0, <1>6 DEF FinishBuild
    <2>7. /\ \A q \in Procs : Scoring(q)' => ShownWithin(age', build'[q].forecast, build'[q].age)
          /\ report' # Nothing => ShownWithin(age', report'.forecast, BuildTime + TTL + report'.age)
      BY <2>2, <2>4, <2>5, DeliverKeepsRecency
    <2>8. ASSUME NEW q \in Procs, NEW b \in Buckets, caches'[q][b] # Nothing
          PROVE  ShownWithin(age', caches'[q][b].forecast, BuildTime + caches'[q][b].age)
      <3>1. CASE caches'[q][b] = caches[q][b]
        BY <1>1, <2>5, <2>8, <3>1
      <3>2. CASE caches'[q][b].forecast = build[p].forecast /\ caches'[q][b].age = 0
        BY <2>2, <2>4, <2>5, <3>2
      <3> QED
        BY <2>6, <3>1, <3>2
    <2> QED
      BY <1>1, <1>2, <2>5, <2>7, <2>8 DEF Truth
  <1>7. ASSUME NEW p \in Procs, SaveSnapshot(p) PROVE RecencyInv'
    <2>1. slate' = slate /\ age' = age /\ report' = report /\ caches' = caches
      BY <1>7 DEF SaveSnapshot
    <2>2. \A q \in Procs : Scoring(q)' => Scoring(q) /\ build'[q] = build[q]
      BY <1>0, <1>7 DEF SaveSnapshot, Scoring
    <2> QED
      BY <1>1, <1>2, <2>1, <2>2 DEF Truth
  <1>8. ASSUME NEW p \in Procs,
               \/ \E c \in Compositions : UpsertSlate(p, c)
               \/ \E f \in Fixtures, verdict \in {"yes", "no"} : ReportStage(p, f, verdict)
               \/ \E pos \in Positions, flag \in BOOLEAN : RuleKnockout(pos, flag)
        PROVE  RecencyInv'
    <2>1. slate' \in Slate /\ age' = Witness(slate') /\ report' = report
      BY <1>8, ChangedSlate
    <2>2. /\ age' \in Ages
          /\ \A k \in Positions : age'[k][Truth'[k]] = 0
          /\ \A k \in Positions, v \in State : age'[k][v] <= age[k][v]
      BY <2>1, WitnessLowers DEF Ages, Truth
    <2>3. \A k \in Positions, v \in State : age'[k][v] <= age[k][v] + 0
      BY <1>0, <2>2, MaxAgeIsNat DEF Ages
    <2>4. ASSUME NEW f \in Forecast, NEW n \in Nat, ShownWithin(age, f, n) PROVE ShownWithin(age', f, n)
      <3>1. ShownWithin(age', f, n + 0)
        BY <1>0, <2>2, <2>3, <2>4, StillShown
      <3>2. n + 0 = n
        OBVIOUS
      <3> QED
        BY <3>1, <3>2
    <2>5. ShownWithin(age', Truth', 0)
      BY <2>2 DEF ShownWithin
    <2>6. \A q \in Procs, b \in Buckets : caches'[q][b] \in {caches[q][b], Nothing}
      <3>1. CASE caches' = caches
        BY <3>1
      <3>2. ASSUME NEW q \in Procs, caches' = Invalidated(q)
            PROVE  \A r \in Procs, b \in Buckets : caches'[r][b] \in {caches[r][b], Nothing}
        BY <1>0, <3>2 DEF Invalidated
      <3>3. caches' = caches \/ \E q \in Procs : caches' = Invalidated(q)
        BY <1>8, ForecastAssumption DEF UpsertSlate, ReportStage, RuleKnockout
      <3> QED
        BY <3>1, <3>2, <3>3
    <2>7. ASSUME NEW q \in Procs
          PROVE  Scoring(q)' => /\ Scoring(q) /\ build'[q].forecast = build[q].forecast
                                /\ build'[q].age = build[q].age
      <3>1. build' = build \/ build' = LinksRebuilt
        BY <1>8 DEF UpsertSlate, ReportStage, RuleKnockout
      <3>2. build'[q] \in {build[q], IF Scoring(q) THEN [build[q] EXCEPT !.intact = FALSE] ELSE build[q]}
        BY <3>1 DEF LinksRebuilt
      <3>3. Scoring(q) => build[q] \in Building
        BY ScoringIsBuilding
      <3> QED
        BY <3>2, <3>3 DEF Building, Scoring
    <2>8. ASSUME NEW q \in Procs, Scoring(q)' PROVE ShownWithin(age', build'[q].forecast, build'[q].age)
      <3>1. build[q] \in Building /\ Scoring(q)
        BY <2>7, <2>8, ScoringIsBuilding
      <3>2. build[q].forecast \in Forecast /\ build[q].age \in Nat
        BY <3>1, MaxAgeIsNat DEF Building
      <3> QED
        BY <1>1, <2>4, <2>7, <2>8, <3>1, <3>2
    <2>9. ASSUME NEW q \in Procs, NEW b \in Buckets, caches'[q][b] # Nothing
          PROVE  ShownWithin(age', caches'[q][b].forecast, BuildTime + caches'[q][b].age)
      <3>1. caches'[q][b] = caches[q][b] /\ caches[q][b] \in Entry
        BY <1>0, <2>6, <2>9
      <3>2. caches[q][b].forecast \in Forecast /\ BuildTime + caches[q][b].age \in Nat
        BY <3>1, MaxAgeIsNat DEF Entry
      <3> QED
        BY <1>1, <2>4, <2>9, <3>1, <3>2
    <2>10. report # Nothing => ShownWithin(age', report.forecast, BuildTime + TTL + report.age)
      <3>1. report # Nothing => report.forecast \in Forecast /\ BuildTime + TTL + report.age \in Nat
        BY <1>0, MaxAgeIsNat DEF Reports
      <3> QED
        BY <1>1, <2>4, <3>1
    <2> QED
      BY <1>2, <2>1, <2>5, <2>8, <2>9, <2>10
  <1>9. CASE Tick
    <2>1. slate' = slate /\ Truth' = Truth
      BY <1>9 DEF Tick, Truth
    <2>2. /\ age' \in Ages
          /\ \A k \in Positions : age'[k][Truth[k]] = 0
          /\ \A k \in Positions, v \in State : age'[k][v] <= age[k][v] + 1
      BY <1>9, TickAges DEF Ages
    <2>3. ShownWithin(age', Truth', 0)
      BY <2>1, <2>2 DEF ShownWithin
    <2>4. ASSUME NEW q \in Procs, Scoring(q)' PROVE ShownWithin(age', build'[q].forecast, build'[q].age)
      <3>1. build'[q] = IF Scoring(q) THEN [build[q] EXCEPT !.age = build[q].age + 1] ELSE build[q]
        BY <1>9 DEF Tick
      <3>2. Scoring(q) /\ build[q] \in Building
        BY <2>4, <3>1, ScoringIsBuilding DEF Scoring
      <3>3. /\ build[q].forecast \in Forecast /\ build[q].age \in Nat
            /\ build'[q].forecast = build[q].forecast /\ build'[q].age = build[q].age + 1
        BY <3>1, <3>2, MaxAgeIsNat DEF Building
      <3>4. ShownWithin(age', build[q].forecast, build[q].age + 1)
        BY <1>0, <1>1, <2>2, <3>2, <3>3, StillShown
      <3> QED
        BY <3>3, <3>4
    <2>5. ASSUME NEW q \in Procs, NEW b \in Buckets, caches'[q][b] # Nothing
          PROVE  ShownWithin(age', caches'[q][b].forecast, BuildTime + caches'[q][b].age)
      <3>1. caches'[q][b] = Aged(caches[q][b], TTL)
        BY <1>9 DEF Tick
      <3>2. caches[q][b] # Nothing /\ caches[q][b] \in Entry
        BY <1>0, <2>5, <3>1 DEF Aged
      <3>3. /\ caches[q][b].forecast \in Forecast /\ BuildTime + caches[q][b].age \in Nat
            /\ caches'[q][b].forecast = caches[q][b].forecast
            /\ BuildTime + caches'[q][b].age = BuildTime + caches[q][b].age + 1
        BY <2>5, <3>1, <3>2, MaxAgeIsNat DEF Aged, Entry
      <3>4. ShownWithin(age', caches[q][b].forecast, BuildTime + caches[q][b].age + 1)
        BY <1>0, <1>1, <2>2, <3>2, <3>3, StillShown
      <3> QED
        BY <3>3, <3>4
    <2>6. ASSUME report' # Nothing
          PROVE  ShownWithin(age', report'.forecast, BuildTime + TTL + report'.age)
      <3>1. report' = Aged(report, ReportTTL - 1)
        BY <1>9 DEF Tick
      <3>2. report # Nothing /\ report \in Reports
        BY <1>0, <2>6, <3>1 DEF Aged
      <3>3. /\ report.forecast \in Forecast /\ BuildTime + TTL + report.age \in Nat
            /\ report'.forecast = report.forecast
            /\ BuildTime + TTL + report'.age = BuildTime + TTL + report.age + 1
        BY <2>6, <3>1, <3>2, MaxAgeIsNat DEF Aged, Reports
      <3>4. ShownWithin(age', report.forecast, BuildTime + TTL + report.age + 1)
        BY <1>0, <1>1, <2>2, <3>2, <3>3, StillShown
      <3> QED
        BY <3>3, <3>4
    <2> QED
      BY <1>2, <2>3, <2>4, <2>5, <2>6
  <1>10. CASE AnswerReport \/ UNCHANGED vars
    <2>1. slate' = slate /\ age' = age /\ report' = report /\ caches' = caches /\ build' = build
      BY <1>10 DEF AnswerReport, vars
    <2>2. \A q \in Procs : Scoring(q)' = Scoring(q)
      BY <2>1 DEF Scoring
    <2> QED
      BY <1>1, <1>2, <2>1, <2>2 DEF Truth
  <1>11. Api \in Procs
    BY ForecastAssumption
  <1> QED
    BY <1>3, <1>4, <1>5, <1>6, <1>7, <1>8, <1>9, <1>10, <1>11 DEF ForecastNext

------------------------------------------------------------------------------

(* The inductive invariant: type, rulings, compositions and ages.          *)
THEOREM ForecastInvariant == ForecastSpec => []ForecastInv
  <1>1. ForecastInit => ForecastInv
    BY InitForecastInv
  <1>2. ForecastInv /\ [ForecastNext]_vars => ForecastInv'
    BY TypeStep, RulingStep, CompositionStep, RecencyStep DEF ForecastInv
  <1> QED
    BY <1>1, <1>2, PTL DEF ForecastSpec

(* The slate, the caches and the builds of every process keep their type,  *)
(* and nothing cached or being built outgrows its lifetime.                *)
THEOREM ForecastTyped == ForecastSpec => []ForecastTypeOK
  <1>1. ForecastInv => ForecastTypeOK
    BY DEF ForecastInv
  <1> QED
    BY <1>1, ForecastInvariant, PTL

(* An upsert that deletes and rebuilds the link rows keeps what the        *)
(* operator ruled, however many upserts and stage reports follow.          *)
THEOREM RulingsSurvive == ForecastSpec => []RulingSurvives
  <1>1. ForecastInv => RulingSurvives
    BY DEF ForecastInv, RulingInv
  <1> QED
    BY <1>1, ForecastInvariant, PTL

(* The API never caches a prediction scored against a ruling, although     *)
(* a build reads the slate again while it persists.                        *)
THEOREM RulingsAreShown == ForecastSpec => []RulingIsShown
  <1>1. ForecastInv => RulingIsShown
    BY DEF ForecastInv, RulingInv
  <1> QED
    BY <1>1, ForecastInvariant, PTL

(* No cache and no snapshot mixes the fixtures of two compositions, with   *)
(* any number of processes recomposing the slate under a build.            *)
THEOREM ForecastsArePure == ForecastSpec => []OneComposition
  <1>1. ForecastInv => OneComposition
    BY DEF ForecastInv, CompositionInv
  <1> QED
    BY <1>1, ForecastInvariant, PTL

------------------------------------------------------------------------------

(* Initial states are initial states of the promise.                       *)
LEMMA PromiseInit == ForecastInit => Promise!Init
  <1> SUFFICES ASSUME ForecastInit PROVE Promise!Init
    OBVIOUS
  <1>1. Truth \in [Positions -> State]
    BY InitForecastInv, RecencyTyped DEF ForecastInv, Forecast
  <1>2. /\ age = [k \in Positions |-> [v \in State |-> IF v = Truth[k] THEN 0 ELSE MaxAge + 1]]
        /\ answer = Nothing
    BY DEF ForecastInit
  <1> QED
    BY <1>1, <1>2 DEF Promise!Init, Promise!TooLong

(* A delivery to the asker is an answer of the promise, or says nothing.   *)
LEMMA DeliveryIsAnswer ==
  ASSUME NEW p \in Procs, NEW purpose \in Purposes, NEW forecast \in Forecast,
         ShownWithin(age, forecast, MaxAge), Deliver(p, purpose, forecast), UNCHANGED <<slate, age>>
  PROVE  Promise!Next
  <1>1. Truth' = Truth
    BY DEF Truth
  <1>2. CASE answer' = Nothing
    BY <1>1, <1>2 DEF Promise!Next, Promise!Silent
  <1>3. CASE answer' = forecast
    BY <1>1, <1>3 DEF Promise!Next, Promise!Answer, ShownWithin, Forecast
  <1> QED
    BY <1>2, <1>3 DEF Deliver

(* Every step is one of the promise, or leaves what it speaks of alone.    *)
LEMMA PromiseStep == ForecastInv /\ ForecastInv' /\ [ForecastNext]_vars => [Promise!Next]_Promise!vars
  <1> SUFFICES ASSUME ForecastInv, ForecastInv', [ForecastNext]_vars
               PROVE  [Promise!Next]_Promise!vars
    OBVIOUS
  <1>0. ForecastTypeOK /\ ForecastTypeOK' /\ age \in Ages
    BY RecencyTyped DEF ForecastInv
  <1>1. /\ \A q \in Procs : Scoring(q) => ShownWithin(age, build[q].forecast, build[q].age)
        /\ \A q \in Procs, b \in Buckets : caches[q][b] # Nothing =>
             ShownWithin(age, caches[q][b].forecast, BuildTime + caches[q][b].age)
        /\ report # Nothing => ShownWithin(age, report.forecast, BuildTime + TTL + report.age)
    BY DEF ForecastInv, RecencyInv
  <1>2. ASSUME NEW p \in Procs, NEW purpose \in Purposes, AnswerFromCache(p, purpose)
        PROVE  Promise!Next
    <2> DEFINE entry == caches[p][BucketOf(purpose)]
    <2>1. BucketOf(purpose) \in Buckets /\ entry # Nothing
      BY <1>2 DEF BucketOf, Buckets, AnswerFromCache
    <2>2. entry \in Entry
      BY <1>0, <2>1, EntriesTyped
    <2>3. ShownWithin(age, entry.forecast, BuildTime + entry.age)
      BY <1>1, <2>1
    <2>4. Deliver(p, purpose, entry.forecast) /\ UNCHANGED <<slate, age>>
      BY <1>2 DEF AnswerFromCache
    <2> HIDE DEF entry
    <2>5. /\ entry.forecast \in Forecast /\ BuildTime + entry.age \in Nat /\ MaxAge \in Nat
          /\ BuildTime + entry.age <= MaxAge
      BY <2>2, MaxAgeIsNat DEF Entry
    <2>6. ShownWithin(age, entry.forecast, MaxAge)
      BY <1>0, <2>3, <2>5, ShownLonger
    <2> QED
      BY <2>4, <2>5, <2>6, DeliveryIsAnswer
  <1>3. ASSUME NEW p \in Procs, FinishBuild(p) PROVE Promise!Next
    <2>1. build[p] \in Building /\ Scoring(p)
      BY <1>0, <1>3, ScoringIsBuilding DEF FinishBuild
    <2>2. /\ build[p].forecast \in Forecast /\ build[p].purpose \in Purposes
          /\ build[p].age \in Nat /\ MaxAge \in Nat /\ build[p].age <= MaxAge
      BY <2>1, MaxAgeIsNat DEF Building
    <2>3. ShownWithin(age, build[p].forecast, build[p].age)
      BY <1>1, <2>1
    <2>4. ShownWithin(age, build[p].forecast, MaxAge)
      BY <1>0, <2>2, <2>3, ShownLonger
    <2>5. UNCHANGED <<slate, age>> /\ Deliver(p, build[p].purpose, build[p].forecast)
      BY <1>3 DEF FinishBuild
    <2> QED
      BY <2>2, <2>4, <2>5, DeliveryIsAnswer
  <1>4. CASE AnswerReport
    <2>1. report # Nothing /\ answer' = report.forecast /\ UNCHANGED <<slate, age>>
      BY <1>4 DEF AnswerReport, ReportIsLive
    <2>2. report \in Reports
      BY <1>0, <2>1, RecencyTyped
    <2>3. /\ report.forecast \in Forecast /\ BuildTime + TTL + report.age \in Nat /\ MaxAge \in Nat
          /\ BuildTime + TTL + report.age <= MaxAge
      BY <2>2, ForecastAssumption DEF Reports, MaxAge
    <2>4. ShownWithin(age, report.forecast, MaxAge)
      BY <1>0, <1>1, <2>1, <2>3, ShownLonger
    <2>5. Truth' = Truth
      BY <2>1 DEF Truth
    <2> QED
      BY <2>1, <2>3, <2>4, <2>5 DEF Promise!Next, Promise!Answer, ShownWithin, Forecast
  <1>5. ASSUME NEW p \in Procs,
               (\E purpose \in Purposes : BeginBuild(p, purpose)) \/ ScoreNext(p) \/ SaveSnapshot(p)
        PROVE  Promise!Next
    <2>1. answer' = Nothing /\ UNCHANGED <<slate, age>>
      BY <1>5 DEF BeginBuild, ScoreNext, SaveSnapshot
    <2>2. Truth' = Truth
      BY <2>1 DEF Truth
    <2> QED
      BY <2>1, <2>2 DEF Promise!Next, Promise!Silent
  <1>6. ASSUME NEW p \in Procs,
               \/ \E c \in Compositions : UpsertSlate(p, c)
               \/ \E f \in Fixtures, verdict \in {"yes", "no"} : ReportStage(p, f, verdict)
               \/ \E pos \in Positions, flag \in BOOLEAN : RuleKnockout(pos, flag)
        PROVE  Promise!Next
    <2>1. slate' \in Slate /\ age' = Witness(slate') /\ answer' = Nothing
      BY <1>0, <1>6, ChangedSlate
    <2>2. Truth' \in [Positions -> State]
      BY <2>1, TruthIsForecast DEF Truth, Forecast
    <2>3. age' = [k \in Positions |-> [age[k] EXCEPT ![Truth'[k]] = 0]]
      BY <2>1 DEF Witness, Truth
    <2> QED
      BY <2>1, <2>2, <2>3 DEF Promise!Next, Promise!Change
  <1>7. CASE Tick
    <2>1. answer' = Nothing /\ Truth' = Truth
      BY <1>7 DEF Tick, Truth
    <2>2. age' = [k \in Positions |-> [v \in State |-> IF v = Truth[k] THEN 0 ELSE Older(age[k][v])]]
      BY <1>7 DEF Tick
    <2>3. \A k \in Positions, v \in State : Older(age[k][v]) = Promise!Older(age[k][v])
      BY <1>0, MaxAgeIsNat DEF Older, Promise!Older, Promise!TooLong, Ages
    <2>4. age' = [k \in Positions |->
                   [v \in State |-> IF v = Truth[k] THEN 0 ELSE Promise!Older(age[k][v])]]
      BY <2>2, <2>3
    <2> QED
      BY <2>1, <2>4 DEF Promise!Next, Promise!Tick
  <1>8. CASE UNCHANGED vars
    BY <1>8 DEF vars, Promise!vars, Truth
  <1>9. Api \in Procs
    BY ForecastAssumption
  <1> QED
    BY <1>2, <1>3, <1>4, <1>5, <1>6, <1>7, <1>8, <1>9 DEF ForecastNext

(* Two layers of caches, and processes that commit behind them: whatever   *)
(* the lifetimes are, an answer shows of each position a state it had no   *)
(* longer ago than both lifetimes and one build.                           *)
THEOREM CachesKeepThePromise == ForecastSpec => AnswersAreRecent
  <1>1. ForecastInit => Promise!Init
    BY PromiseInit
  <1>2. ForecastInv /\ ForecastInv' /\ [ForecastNext]_vars => [Promise!Next]_Promise!vars
    BY PromiseStep
  <1> QED
    BY <1>1, <1>2, ForecastInvariant, PTL DEF ForecastSpec, AnswersAreRecent, Promise!Spec
=============================================================================
