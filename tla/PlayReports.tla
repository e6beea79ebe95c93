------------------------------ MODULE PlayReports ------------------------------
(***************************************************************************)
(* What an operator reads before a boleto is bought: the readiness report  *)
(* and its expansion audit, the options with their price, the operational  *)
(* status, the dashboard.  Each derives its answer from the forecasts, the *)
(* tickets, the persisted audits or the verdict of Tickets, by itself.     *)
(***************************************************************************)
EXTENDS Tickets

------------------------------------------------------------------------------
\* The readiness report reads the database, and the features as they are now.

Persisted(p) ==
  CASE audit[p] = "none" -> [status |-> "NO_PRED", level |-> "unknown", flags |-> {}]
    [] audit[p] = "own" -> [status |-> forecasts[p].status, level |-> forecasts[p].level,
                            flags |-> forecasts[p].flags]
    [] audit[p] = "older" -> [status |-> "LISTO", level |-> "medium", flags |-> {"FALLBACK_USED"}]
    [] audit[p] = "legacy" -> [status |-> "HIGH", level |-> "unknown", flags |-> {}]

NoContext(m) == m.homeRecent + m.awayRecent = 0 /\ m.headToHead = 0

\* _apply_fallback_only_guardrail: a fallback without context is not ready.
ReportStatus(p) ==
  LET seen == Persisted(p)
  IN IF seen.status = "LISTO" /\ "FALLBACK_USED" \in seen.flags /\ NoContext(slate[p])
     THEN "REVISAR" ELSE seen.status

\* _safe_revisar_to_listo_candidate; an unnamed team is a hard flag like the blocking ones.
SafeCandidates ==
  {p \in Positions : /\ ReportStatus(p) = "REVISAR"
                     /\ Persisted(p).level \in {"medium", "high"}
                     /\ Persisted(p).flags \cap BlockingFlags = {}
                     /\ verdict.situation.named}

\* _actionable_blockers
ActionableBlockers(p) ==
  LET flags == Persisted(p).flags
      known == {blocker \in {"team_resolution", "evidence_coverage", "model_fallback"} :
                  \/ blocker = "team_resolution" /\ ~verdict.situation.named
                  \/ blocker = "evidence_coverage"
                       /\ flags \cap {"LOW_EVIDENCE", "BLOCKED_INSUFFICIENT_DATA"} # {}
                  \/ blocker = "model_fallback" /\ "FALLBACK_USED" \in flags}
  IN IF ReportStatus(p) = "REVISAR" /\ known = {} THEN {"pick_review"} ELSE known

\* _publish_gate of the operational audit, on the same report.
AuditBlocked ==
  {p \in Positions :
     \/ ~verdict.situation.named \/ "BLOCKED_INSUFFICIENT_DATA" \in Persisted(p).flags
     \/ ReportStatus(p) = "BLOQUEADO"
     \/ "FALLBACK_USED" \in Persisted(p).flags /\ Persisted(p).level \in {"low", "unknown"}}
AuditWarned == {p \in Positions \ AuditBlocked : ReportStatus(p) = "REVISAR"}

\* GET quality: what a match's data are worth, its availability and venue unknown.
QualityLevel(m) ==
  LET score == (IF m.evidence > 0 THEN 30 ELSE 0)
               + (CASE m.homeRecent + m.awayRecent >= 2 -> 25
                    [] m.homeRecent + m.awayRecent = 1 -> 12
                    [] OTHER -> 0)
               + (IF m.headToHead > 0 THEN 20 ELSE 0)
               + (CASE Readiness(m) \in {"ready", "covered"} -> 15
                    [] Readiness(m) = "context_only" -> 8
                    [] OTHER -> 0)
  IN IF score >= 70 THEN "good" ELSE IF score >= 40 THEN "partial" ELSE "thin"

------------------------------------------------------------------------------
\* The expansion audit explains the guard's reasons.

GuardReasons(f) ==
  {reason \in {"blocked", "review", "risk_high", "no_dejar_simple", "requires_coverage",
               "suspicious_class", "fallback_low_evidence"} :
     \/ reason = "blocked" /\ f.status = "BLOQUEADO"
     \/ reason = "review" /\ f.status = "REVISAR"
     \/ reason = "risk_high" /\ f.risk = "high"
     \/ reason = "no_dejar_simple" /\ f.strategy = "NO_DEJAR_SIMPLE"
     \/ reason = "requires_coverage" /\ f.strategy \notin {"SIMPLE", "NO_DEJAR_SIMPLE"}
     \/ reason = "suspicious_class" /\ "SUSPICIOUS_CLASS_PROBABILITY" \in f.flags
     \/ reason = "fallback_low_evidence" /\ {"FALLBACK_USED", "LOW_EVIDENCE"} \subseteq f.flags}

ReasonCategory == [blocked |-> "stale_metadata", review |-> "suspicious_class",
                   risk_high |-> "low_evidence", no_dejar_simple |-> "low_evidence",
                   requires_coverage |-> "low_evidence", suspicious_class |-> "suspicious_class",
                   fallback_low_evidence |-> "fallback_used"]

\* build_ready_expansion; finished: the positions whose result the provider has for sure.
BlockedBy(p, finished) ==
  {ReasonCategory[reason] : reason \in GuardReasons(forecasts[p])}
    \cup {friendly \in {"friendly_context"} : slate[p].competition \in {"friendly", "international_friendlies"}}
    \cup {unmatched \in {"provider_unmatched"} : p \notin finished}
ReadyNow == {p \in Positions : forecasts[p].simple}
SafePromotions(finished) == {p \in ReadyNow : BlockedBy(p, finished) = {}}

------------------------------------------------------------------------------
\* Money mode's report on the matches: the pick of the conservative plan, what may not stand
\* as a single, what must be reviewed.

MatchPick(p) ==
  IF ticket["full"][p] = 3 THEN "triple"
  ELSE IF ticket["full"][p] = 2 THEN "double"
  ELSE IF forecasts[p].simple THEN "simple" ELSE "no_simple"
DoNotSimple == {p \in Positions : ~forecasts[p].simple}
MustReview == {p \in Positions : GuardReasons(forecasts[p]) \cap {"review", "blocked"} # {}}

\* compute_cost: no verified price, no cost.
NoCost == -1
Cost(mode) == LET price == LimitsFor(product).price
              IN IF price = NoCost THEN NoCost ELSE price * Combinations(ticket[mode])

\* build_slate_options: one option of each ticket, and the manual one that is never recommended.
Option(mode) ==
  LET play == verdict.status # "NO_JUGAR"
  IN [recommended |-> play /\ verdict.mode = mode, playable |-> play /\ Exposed(mode) = {}, cost |-> Cost(mode)]
RecommendedAction == [NO_JUGAR |-> "NO_COMPRAR", JUGAR_BALANCEADO |-> "COMPRAR_BALANCEADA",
                      JUGAR_SOLO_CONSERVADOR |-> "COMPRAR_CONSERVADORA"][verdict.status]

\* _slate_status and _readiness_summary of the operational report.
SlateStatus ==
  [playable |-> verdict.status \in {"JUGAR_BALANCEADO", "JUGAR_SOLO_CONSERVADOR"},
   uncovered |-> Cardinality(Exposed("full")),
   action |-> IF verdict.mode = "none" THEN "No comprar boleto" ELSE verdict.mode,
   ready |-> Cardinality(ReadyNow)]

\* The prediction status of the validation, and the dashboard, which never runs money mode.
PredictionStatus ==
  IF \E p \in Positions : audit[p] # "none" THEN "persisted"
  ELSE IF ~verdict.situation.archived /\ ~verdict.situation.closed THEN "live_available"
  ELSE "pending"
DashboardReady == ~DataBlocked(verdict.situation) /\ PredictionStatus \in {"persisted", "live_available"}

------------------------------------------------------------------------------

(***************************************************************************)
(* presentation_guard: "a match flagged No dejar simple / Riesgo alto can  *)
(* never render as ... a simple suggestion".  A match the guard lets stand *)
(* as a single is never one the ticket's validation labels "No dejar       *)
(* simple"; the guard looks at the sanity layer alone, the validation at   *)
(* the decision, whose draw may have been calibrated in between.           *)
(***************************************************************************)
SinglesAreDefensible ==
  \A p \in DOMAIN forecasts :
    forecasts[p].simple => Validation(slate[p], forecasts[p]) # "high"

(***************************************************************************)
(* "so the ticket recommendation matches the UI guardrail": singles are    *)
(* defensible, and shown no worse than their band unless their draw was    *)
(* moved or their favourite capped.  When the database holds this          *)
(* prediction, money mode and the readiness report review the same         *)
(* matches; and nothing the expansion audit would promote, whatever the    *)
(* provider knows, is held back by either, nor is it one the report would  *)
(* merely relabel.  Data the quality report calls thin carry a single only *)
(* without evidence, on form or on meetings alone.                         *)
(***************************************************************************)
GuardAgreesWithValidation ==
  /\ SinglesAreDefensible
  /\ \A p \in DOMAIN forecasts :
       forecasts[p].simple =>
         \/ forecasts[p].shown = "high"
         \/ forecasts[p].calibrated
         \/ "EXTREME_PROBABILITY_CAPPED" \in forecasts[p].flags
  /\ verdict # NoVerdict =>
       /\ \A p \in Positions :
            audit[p] = "own" =>
              /\ p \in MustReview <=> ReportStatus(p) \in {"REVISAR", "BLOQUEADO"}
              /\ p \in SafePromotions(Positions) => ActionableBlockers(p) \subseteq {"team_resolution"}
              /\ p \in SafeCandidates => p \in DoNotSimple
              /\ p \in AuditBlocked /\ verdict.situation.named => p \in DoNotSimple
              /\ p \in AuditWarned => p \in MustReview
       /\ \A p \in ReadyNow :
            QualityLevel(slate[p]) = "thin" =>
              /\ slate[p].evidence = 0
              /\ slate[p].headToHead = 0 \/ slate[p].homeRecent + slate[p].awayRecent < 2
       /\ SafePromotions(Positions) \cap MustReview = {}
       /\ \A p \in SafePromotions(Positions) : MatchPick(p) # "no_simple"

(***************************************************************************)
(* What the gate lets out can be played: it is legal, no position is one   *)
(* the model refused or never saw when it was persisted, READY_TO_PLAY     *)
(* leaves no guarded position single, and nothing published leaves more    *)
(* than 34 % of the positions so.  Every other report says the same: one   *)
(* option is recommended, the published one; the operational status plays  *)
(* it and counts what it leaves exposed; the dashboard had called the      *)
(* slate ready; and no option costs more than a boleto may.                *)
(***************************************************************************)
PublishedTicketIsPlayable ==
  verdict.gate \in {"READY_TO_PLAY", "PLAY_CONSERVATIVE_ONLY"} =>
    /\ IsLegal(product, ticket[verdict.mode])
    /\ 100 * Cardinality(Exposed(verdict.mode)) <= 34 * Len(slate)
    /\ verdict.gate = "READY_TO_PLAY" => Exposed(verdict.mode) = {} /\ Option(verdict.mode).playable
    /\ \A p \in Positions : ReportStatus(p) \notin {"NO_PRED", "BLOQUEADO"}
    /\ {mode \in ModeSet : Option(mode).recommended} = {verdict.mode}
    /\ RecommendedAction = (IF verdict.gate = "READY_TO_PLAY" THEN "COMPRAR_BALANCEADA" ELSE "COMPRAR_CONSERVADORA")
    /\ SlateStatus.playable /\ SlateStatus.action = verdict.mode
    /\ SlateStatus.uncovered <= Cardinality(Exposed(verdict.mode))
    /\ DashboardReady
    /\ \A mode \in ModeSet : Option(mode).cost <= LimitsFor(product).price * LimitsFor(product).combinations
                             \/ LimitsFor(product).price = NoCost
=============================================================================
