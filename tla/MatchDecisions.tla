---------------------------- MODULE MatchDecisions ----------------------------
(***************************************************************************)
(* What the program says of one match: the engine's vector, moved by the   *)
(* context and by a knock-out, degraded by the sanity layer, its draw      *)
(* calibrated, and the guard under which it may be shown and played.       *)
(*                                                                         *)
(* A vector gives each outcome its probability in thousandths; the code's  *)
(* floats are rounded to thousandths wherever it keeps more digits.        *)
(***************************************************************************)
EXTENDS Integers, FiniteSets, FiniteSetsExt

CONSTANTS
  Surprise,   \* -p log p / log 3 in thousandths, for p in hundredths
  DrawRate,   \* the share of draws among the results observed, in thousandths,
  DrawSample, \* and how many they are
  LiveReady,  \* live_pick_ready_competitions
  LiveBlocked \* live_pick_blocked_competitions

ASSUME DecisionsAssumption ==
  /\ Surprise \in [0..100 -> 0..1000]
  /\ DrawRate \in 0..1000
  /\ DrawSample \in Nat
  /\ LiveReady \cap LiveBlocked = {}

\* The entropy of three shares of a whole is 1 at most, but for the roundings.
ASSUME EntropyAssumption ==
  \A i, j \in 0..100 : \A k \in {99 - i - j, 100 - i - j, 101 - i - j} \cap 0..100 :
    Surprise[i] + Surprise[j] + Surprise[k] <= 1005

Outcomes == {"home", "draw", "away"}

------------------------------------------------------------------------------
\* Arithmetic: a half is rounded up; the share of each outcome in a total.

Rounded(a, b) == (2 * a + b) \div (2 * b)
Smaller(a, b) == IF a < b THEN a ELSE b
Larger(a, b) == IF a > b THEN a ELSE b
Total(v) == v["home"] + v["draw"] + v["away"]
Normalized(v) == [o \in Outcomes |-> Rounded(1000 * v[o], Total(v))]

\* What the engines score, and what is known of a match: the games counted, the sourced
\* evidence, the edge of the context in thousandths, its goals, the draws of its league.
Weights == {v \in [Outcomes -> Nat] : Total(v) > 0}
MatchData == [scored: Weights, homeRecent: Nat, awayRecent: Nat, headToHead: Nat, evidence: Nat,
              edge: Int, goals: Nat, leagueDraws: Nat, knockout: BOOLEAN, placeholder: BOOLEAN,
              competition: STRING, engine: STRING]

\* The outcomes by probability; a tie keeps the order of the list sorted.
Listed == [home |-> 1, draw |-> 2, away |-> 3]
Precedes(v, o, other) == v[o] > v[other] \/ (v[o] = v[other] /\ Listed[o] < Listed[other])
Ranked(v, place) == CHOOSE o \in Outcomes :
                      Cardinality({other \in Outcomes : Precedes(v, other, o)}) = place - 1
Best(v) == Ranked(v, 1)
Second(v) == Ranked(v, 2)
Third(v) == Ranked(v, 3)
Gap(v) == v[Best(v)] - v[Second(v)]
Entropy(v) == Surprise[Rounded(v["home"], 10)] + Surprise[Rounded(v["draw"], 10)]
                + Surprise[Rounded(v["away"], 10)]

------------------------------------------------------------------------------
\* How much is known of the match m.

HasInsufficientData(m) ==
  \/ m.homeRecent + m.awayRecent + m.headToHead < 4
  \/ ~(m.homeRecent >= 2 /\ m.awayRecent >= 2) /\ m.headToHead < 3

Anchored(m) ==
  \/ m.evidence >= 1
  \/ m.headToHead >= 2
  \/ m.homeRecent >= 3 /\ m.awayRecent >= 3

EvidenceLevel(m) ==
  IF HasInsufficientData(m) \/ ~Anchored(m) THEN "low"
  ELSE IF m.evidence >= 1 /\ (Smaller(m.homeRecent, m.awayRecent) >= 5 \/ m.headToHead >= 5)
  THEN "high" ELSE "medium"

\* Anything but the booster, or the blend the gate prefers, is a fallback.
FallbackUsed(m) == m.engine \notin {"xgboost", "heuristic_blend_gated"}

\* COMPETITION_POLICY_OVERRIDES, a competition of each readiness.
Policies == [international_friendlies |-> "context_only", uefa_champions_league |-> "covered",
             d1 |-> "not_ready", mex |-> "ready"]

\* COMPETITION_ALIASES: another spelling is the same competition.
Aliases == [friendly |-> "international_friendlies", liga_mx |-> "mex"]
CompetitionKey(name) == IF name \in DOMAIN Aliases THEN Aliases[name] ELSE name

\* competition_operating_policy: the settings, the table, a contest's own name.
OperatingPolicy(name) ==
  LET key == CompetitionKey(name)
  IN IF key \in LiveReady THEN "ready"
     ELSE IF key \in LiveBlocked THEN "not_ready"
     ELSE IF key \in DOMAIN Policies THEN Policies[key]
     ELSE IF key = "progol_concurso" THEN "context_only"
     ELSE "unclassified"

IsFriendly(m) == CompetitionKey(m.competition) = "international_friendlies"

\* The competition's readiness; a fixture no feed reported has at most context.
Permissiveness == [unclassified |-> 1, not_ready |-> 2, context_only |-> 3, covered |-> 4, ready |-> 5]
Readiness(m) ==
  LET level == OperatingPolicy(m.competition)
  IN IF m.placeholder /\ Permissiveness[level] > Permissiveness["context_only"]
     THEN "context_only" ELSE level

------------------------------------------------------------------------------
\* The model's vector.

\* _adjust_probabilities: the context swings the sides and trims the draw.
Adjusted(m) ==
  LET side == IF m.edge > 0 THEN "home" ELSE "away"
      other == IF m.edge > 0 THEN "away" ELSE "home"
      strength == IF m.edge > 0 THEN m.edge ELSE -m.edge
      swing == Smaller(Rounded(6 * strength, 100), 100)
      trimmed == Smaller(Larger(m.scored["draw"] - 120, 0), Rounded(35 * swing, 100))
      moved == [m.scored EXCEPT ![side] = @ + swing + trimmed \div 2,
                                ![other] = Larger(@ - swing, 50),
                                !["draw"] = @ - trimmed]
      contextual == (m.evidence > 0 \/ m.headToHead > 0) /\ strength >= 10
      v == IF contextual THEN moved ELSE m.scored
  IN [o \in Outcomes |-> 10 * Rounded(100 * v[o], Total(v))]

\* knockout_shrinkage_bounds and _apply_knockout_adjustment, in hundredths of
\* the draw; m.goals counts tenths, m.leagueDraws is 0 when unknown.
Shrinkage(m) ==
  LET known == m.leagueDraws >= 50
      baseline == IF known THEN Larger(0, 100 - Rounded(22000, m.leagueDraws)) ELSE 0
      least == IF known THEN Larger(10, Rounded(6 * baseline, 10)) ELSE 15
      most == IF known THEN Smaller(90, Larger(2 * baseline, baseline + 20)) ELSE 55
      rhythm == Larger(0, Smaller(30, m.goals - 10))
  IN IF m.homeRecent < 1 /\ m.awayRecent < 1 THEN least
     ELSE least + Rounded((most - least) * rhythm, 30)

KnockoutAdjusted(m, v) ==
  LET freed == Rounded(v["draw"] * Shrinkage(m), 100)
      sides == v["home"] + v["away"]
      gain(o) == IF sides = 0 THEN freed \div 2 ELSE Rounded(freed * v[o], sides)
  IN Normalized([v EXCEPT !["home"] = @ + gain("home"), !["away"] = @ + gain("away"),
                          !["draw"] = @ - freed])

Modelled(m) == IF m.knockout THEN KnockoutAdjusted(m, Adjusted(m)) ELSE Adjusted(m)

ConfidenceBand(m, v) ==
  IF Readiness(m) = "unclassified" \/ HasInsufficientData(m) THEN "blocked"
  ELSE IF v[Best(v)] >= 550 /\ Gap(v) >= 120 /\ Anchored(m) THEN "high"
  ELSE IF v[Best(v)] >= 400 /\ Gap(v) >= 20 /\ Anchored(m) THEN "medium"
  ELSE "low"

\* The signal: the draw loses every tie.
RecommendedOutcome(v) ==
  IF v["draw"] > v["home"] /\ v["draw"] > v["away"] THEN "draw"
  ELSE IF v["away"] > v["home"] THEN "away" ELSE "home"

------------------------------------------------------------------------------
\* The sanity layer, over the model's vector v.

Extreme(v) == v[Best(v)] >= 750
ExtremeWithoutEvidence(m, v) == Extreme(v) /\ EvidenceLevel(m) # "high"

Cap(m, v) ==
  IF EvidenceLevel(m) = "low" THEN 600
  ELSE IF EvidenceLevel(m) # "high" /\ (IsFriendly(m) \/ Extreme(v)) THEN 650 ELSE 900

\* Blended with the uniform prior until the top outcome sits at the cap.
ShrunkTowardPrior(v, cap) ==
  LET keep == 3 * cap - 1000
      of == 3 * v[Best(v)] - 1000
  IN IF v[Best(v)] <= cap THEN v
     ELSE [o \in Outcomes |-> Rounded(3 * keep * v[o] + (of - keep) * 1000, 3 * of)]

Sane(m, v) == Normalized(ShrunkTowardPrior(v, Cap(m, v)))

SanityFlags(m, v) ==
  {flag \in {"LOW_EVIDENCE", "INTERNATIONAL_FRIENDLY", "FALLBACK_USED", "BLOCKED_INSUFFICIENT_DATA",
             "SUSPICIOUS_CLASS_PROBABILITY", "EXTREME_PROBABILITY_WITHOUT_EVIDENCE",
             "EXTREME_PROBABILITY_CAPPED"} :
     \/ flag = "LOW_EVIDENCE" /\ EvidenceLevel(m) = "low"
     \/ flag = "INTERNATIONAL_FRIENDLY" /\ IsFriendly(m)
     \/ flag = "FALLBACK_USED" /\ FallbackUsed(m)
     \/ flag = "BLOCKED_INSUFFICIENT_DATA" /\ ConfidenceBand(m, v) = "blocked"
     \/ flag = "SUSPICIOUS_CLASS_PROBABILITY" /\ Smaller(v["home"], v["away"]) <= 50
     \/ flag = "EXTREME_PROBABILITY_WITHOUT_EVIDENCE" /\ ExtremeWithoutEvidence(m, v)
     \/ flag = "EXTREME_PROBABILITY_CAPPED" /\ v[Best(v)] > Cap(m, v)}

\* The flags that forbid a single, and that hold the confidence down.
BlockingFlags == {"LOW_EVIDENCE", "FALLBACK_USED", "EXTREME_PROBABILITY_WITHOUT_EVIDENCE",
                  "SUSPICIOUS_CLASS_PROBABILITY", "BLOCKED_INSUFFICIENT_DATA"}

StatusFromBand == [blocked |-> "BLOQUEADO", high |-> "FIJO", medium |-> "LISTO", low |-> "REVISAR"]

\* _degrade_status: a status only moves down.
DegradedStatus(m, v) ==
  LET before == StatusFromBand[ConfidenceBand(m, v)]
  IN IF before = "BLOQUEADO" THEN before
     ELSE IF EvidenceLevel(m) = "low" \/ ExtremeWithoutEvidence(m, v) THEN "REVISAR"
     ELSE IF before = "FIJO" /\ (FallbackUsed(m) \/ IsFriendly(m)) THEN "LISTO"
     ELSE before

ReviewStatuses == {"REVISAR", "BLOQUEADO"}

RiskLevel(m, v, status) ==
  IF \/ status \in ReviewStatuses
     \/ EvidenceLevel(m) = "low"
     \/ SanityFlags(m, v) \cap {"EXTREME_PROBABILITY_WITHOUT_EVIDENCE",
                                "SUSPICIOUS_CLASS_PROBABILITY", "BLOCKED_INSUFFICIENT_DATA"} # {}
  THEN "high"
  ELSE IF status = "LISTO" \/ EvidenceLevel(m) = "medium" THEN "medium" ELSE "low"

VisibleConfidence(status, risk, flags) ==
  IF status = "BLOQUEADO" THEN "baja"
  ELSE IF status = "REVISAR" \/ flags \cap BlockingFlags # {} \/ risk = "high" THEN "media-baja"
  ELSE IF status = "LISTO" \/ "INTERNATIONAL_FRIENDLY" \in flags THEN "media"
  ELSE "alta"

TicketStrategy(status, risk, flags) ==
  IF status = "BLOQUEADO" THEN "EVITAR"
  ELSE IF status = "REVISAR" \/ risk = "high" THEN "NO_DEJAR_SIMPLE"
  ELSE IF flags \cap BlockingFlags # {} \/ status = "LISTO" THEN "DOBLE_RECOMENDADO"
  ELSE "SIMPLE"

------------------------------------------------------------------------------
\* The draw of the decision vector v, on uncertain matches.

\* _prior_from_rate: a small sample leans on the documented fallback.
DrawPrior ==
  LET weight == Smaller(DrawSample, 150)
  IN Rounded(weight * DrawRate + (150 - weight) * 270, 150)

Uncertain(v, band, level, status) ==
  \/ band \in {"low", "blocked"}
  \/ level = "low"
  \/ status \in ReviewStatuses
  \/ Gap(v) <= 150
  \/ Entropy(v) >= 900

LiftedDraw(v) ==
  Min({v["draw"] + Rounded(35 * (DrawPrior - v["draw"]), 100), v["draw"] + 80, v[Best(v)] - 30})

Calibrates(v, band, level, status) ==
  /\ Uncertain(v, band, level, status)
  /\ DrawPrior - v["draw"] >= 60
  /\ LiftedDraw(v) > v["draw"]

\* Mutant of DrawCalibrated: the favourite alone gives up the lift.
FavouritePays(v) ==
  Normalized([v EXCEPT !["draw"] = LiftedDraw(v), ![Best(v)] = @ - (LiftedDraw(v) - v["draw"])])

\* The sides give up the lift in proportion.
DrawCalibrated(v) ==
  LET lift == LiftedDraw(v) - v["draw"]
      sides == v["home"] + v["away"]
      kept(o) == Rounded(v[o] * (sides - lift), sides)
  IN Normalized([home |-> kept("home"), draw |-> LiftedDraw(v), away |-> kept("away")])

------------------------------------------------------------------------------
\* What is shown.

\* Mutant of SimpleAllowed: the reasons alone are consulted.
UnopposedSimple(status, risk, strategy, flags) ==
  /\ status \notin ReviewStatuses
  /\ risk # "high"
  /\ "SUSPICIOUS_CLASS_PROBABILITY" \notin flags
  /\ ~({"FALLBACK_USED", "LOW_EVIDENCE"} \subseteq flags)

\* derive_presentation_guard: a single needs its strategy and no reason against.
SimpleAllowed(status, risk, strategy, flags) ==
  /\ strategy = "SIMPLE"
  /\ status \notin ReviewStatuses
  /\ risk # "high"
  /\ "SUSPICIOUS_CLASS_PROBABILITY" \notin flags
  /\ ~({"FALLBACK_USED", "LOW_EVIDENCE"} \subseteq flags)

PresentationBand(band, status, flags, simple, calibrated) ==
  LET extreme == "EXTREME_PROBABILITY_WITHOUT_EVIDENCE" \in flags
      low == "LOW_EVIDENCE" \in flags
      fallback == "FALLBACK_USED" \in flags
  IN IF status = "BLOQUEADO" THEN "blocked"
     ELSE IF fallback /\ extreme /\ low /\ ~simple THEN "unreliable"
     ELSE IF status = "REVISAR" \/ "EXTREME_PROBABILITY_CAPPED" \in flags \/ extreme THEN "review"
     ELSE IF low \/ calibrated \/ (fallback /\ band = "high") THEN "low"
     ELSE IF band = "high" /\ ~simple THEN "review"
     ELSE band

\* The answer for a match: build_slate_predictions, one position.
Forecast(m) ==
  LET v == Modelled(m)
      band == ConfidenceBand(m, v)
      level == EvidenceLevel(m)
      status == DegradedStatus(m, v)
      flags == SanityFlags(m, v)
      risk == RiskLevel(m, v, status)
      strategy == TicketStrategy(status, risk, flags)
      sane == Sane(m, v)
      calibrated == Calibrates(sane, band, level, status)
      simple == SimpleAllowed(status, risk, strategy, flags)
  IN [raw |-> v, decision |-> IF calibrated THEN DrawCalibrated(sane) ELSE sane,
      signal |-> RecommendedOutcome(v), band |-> band, level |-> level, status |-> status,
      flags |-> flags, risk |-> risk, strategy |-> strategy, calibrated |-> calibrated,
      simple |-> simple, readiness |-> Readiness(m),
      visible |-> VisibleConfidence(status, risk, flags),
      shown |-> PresentationBand(band, status, flags, simple, calibrated)]

------------------------------------------------------------------------------
\* What the ticket thinks of a forecast f of the match m.

AllowsConfidentSingle(f) == f.status \notin ReviewStatuses /\ f.flags \cap BlockingFlags = {}

ValidationRisk(m, f) ==
  LET v == f.decision
      anchors == Max({m.evidence, m.headToHead, m.homeRecent + m.awayRecent})
      third == v[Third(v)]
  IN Entropy(v)
     + [high |-> -80, medium |-> 20, low |-> 140, blocked |-> 160][f.band]
     + [ready |-> -60, covered |-> 20, context_only |-> 80, not_ready |-> 120,
        unclassified |-> 120][f.readiness]
     + (IF anchors <= 0 THEN 80 ELSE IF anchors < 2 THEN 30 ELSE -20)
     + (IF Gap(v) <= 80 THEN 140 ELSE IF Gap(v) <= 140 THEN 80 ELSE IF Gap(v) <= 220 THEN 30 ELSE -40)
     + (IF third >= 240 THEN 90 ELSE IF third >= 200 THEN 50 ELSE 0)
     + (IF f.status \in ReviewStatuses THEN 180 ELSE 0)
     + (IF f.flags \cap BlockingFlags # {} THEN 60 ELSE 0)

\* _validation: "No dejar simple", "Cubrir si hay presupuesto", "Defendible".
Validation(m, f) ==
  LET v == f.decision
      anchors == Max({m.evidence, m.headToHead, m.homeRecent + m.awayRecent})
  IN IF \/ ~AllowsConfidentSingle(f)
        \/ Gap(v) <= 80 \/ ValidationRisk(m, f) >= 1160 \/ f.band = "low" \/ v[Third(v)] >= 240
     THEN "high"
     ELSE IF \/ Gap(v) <= 180 \/ ValidationRisk(m, f) >= 1000 \/ f.band = "blocked"
             \/ f.readiness \notin {"ready", "covered"} \/ anchors <= 1
     THEN "medium" ELSE "low"
=============================================================================
