-------------------------------- MODULE Tickets --------------------------------
(***************************************************************************)
(* From the matches of a jornada to the ticket an operator may publish:    *)
(* the forecasts, the plans of the optimizer, the three tickets made of    *)
(* them, their demotion to what a boleto admits, the verdict of money mode *)
(* and the publication gate.                                               *)
(*                                                                         *)
(* A ticket gives each position a rank: 1 fixed, 2 double, 3 triple, over  *)
(* the outcomes by probability.  One build runs from start to end; what    *)
(* the persisted predictions say when the gate opens is up to the history. *)
(***************************************************************************)
EXTENDS MatchDecisions, Sequences, SequencesExt

CONSTANTS
  Slates,        \* the jornadas: sequences of matches
  Products,      \* the week types; one may have no rules of its own
  Rules,         \* MULTIPLE_RULES: doubles alone, doubles and triples combined
  Limits,        \* PROGOL_PRICING: doubles, triples, combinations and price of a boleto
  LongSlate, ShortSlate,    \* match counts that choose the rules of other products
  Situations,    \* what money mode finds: archived, closed, contiguous, named
  Targets        \* probabilities asked of the coverage endpoint, in thousandths

ASSUME TicketsAssumption ==
  /\ \A s \in Slates : s \in Seq(MatchData) /\ Len(s) \in Nat \ {0}
  /\ {"weekend", "revancha", "fallback"} \subseteq DOMAIN Rules
  /\ \A week \in DOMAIN Rules : Rules[week] \in [alone: Nat, doubles: Nat, triples: Nat]
  /\ "unknown" \in DOMAIN Limits
  /\ \A week \in DOMAIN Limits :
       Limits[week] \in [doubles: Nat, triples: Nat, combinations: Nat \ {0}, price: Nat \cup {-1}]
  /\ Situations \subseteq [archived: BOOLEAN, closed: BOOLEAN, contiguous: BOOLEAN, named: BOOLEAN]
  /\ Targets \subseteq 0..1000

VARIABLES
  slate,      \* the matches, by position
  product,    \* the week type
  forecasts,  \* the answers so far
  plan,       \* the ranks the optimizer chose for each mode
  lifted,     \* the positions granted a leftover triple
  ticket,     \* the ranks of each mode
  audit,      \* what predictions the database holds when money mode is asked
  verdict,    \* the decision of money mode, and the gate's
  budget,     \* the answer of the coverage endpoint
  phase

vars == <<slate, product, forecasts, plan, lifted, ticket, audit, verdict, budget, phase>>

Positions == 1..Len(slate)
Modes == <<"simple", "doubles", "full">>
ModeSet == {"simple", "doubles", "full"}
Phases == {"scoring", "planning", "recommending", "composing", "judging", "done"}

------------------------------------------------------------------------------
\* The optimizer.  A state of its table is a distribution of hits and the ranks
\* that gave it; states are compared by their worth.

Hit(v, rank) ==
  IF rank = 3 THEN 1000 ELSE IF rank = 2 THEN Smaller(v[Best(v)] + v[Second(v)], 1000) ELSE v[Best(v)]

Unreached == [hits |-> <<>>, ranks |-> <<>>]

\* _extend_pmf: one more match, hit with probability p.
Extended(hits, p) ==
  Append([k \in DOMAIN hits |-> hits[k] * (1000 - p) + (IF k > 1 THEN hits[k - 1] * p ELSE 0)],
         hits[Len(hits)] * p)

\* The probability that everything so far is hit, and of at least some hits.
Clean(hits) == IF hits = <<>> THEN -1 ELSE hits[Len(hits)]
AtLeast(hits, least) ==
  IF hits = <<>> THEN -1
  ELSE IF least <= 0 THEN 1000 ^ (Len(hits) - 1)
  ELSE MapThenSumSet(LAMBDA k : hits[k], (least + 1)..Len(hits))

\* The first of the most worthy, as a strict comparison keeps it.
FirstBest(states, Worth(_)) ==
  states[CHOOSE i \in DOMAIN states :
           \A j \in DOMAIN states : \/ Worth(states[j].hits) < Worth(states[i].hits)
                                    \/ Worth(states[j].hits) = Worth(states[i].hits) /\ i <= j]

Step(state, v, rank) ==
  IF state = Unreached THEN state
  ELSE [hits |-> Extended(state.hits, Hit(v, rank)), ranks |-> Append(state.ranks, rank)]

\* Beyond an empty budget nothing is reached.
Bordered(table, doubles, triples) ==
  [b \in DOMAIN table \cup ({-1} \X (0..triples)) \cup ((0..doubles) \X {-1}) |->
     IF b \in DOMAIN table THEN table[b] ELSE Unreached]

BestTable(vectors, doubles, triples, Worth(_)) ==
  LET budgets == (0..doubles) \X (0..triples)
      first == [b \in budgets |-> IF b = <<0, 0>> THEN [hits |-> <<1>>, ranks |-> <<>>] ELSE Unreached]
      match(table, v) ==
        Bordered([b \in budgets |-> FirstBest(<<Step(table[<<b[1] - 1, b[2]>>], v, 2),
                                               Step(table[<<b[1], b[2] - 1>>], v, 3),
                                               Step(table[b], v, 1)>>, Worth)], doubles, triples)
  IN FoldLeft(match, Bordered(first, doubles, triples), vectors)

\* The first of the best, over doubles and then triples.
BestState(vectors, doubles, triples, Worth(_)) ==
  LET table == BestTable(vectors, doubles, triples, Worth)
  IN FirstBest([i \in 1..((doubles + 1) * (triples + 1)) |->
                  table[<<(i - 1) \div (triples + 1), (i - 1) % (triples + 1)>>]], Worth)

\* Mutant of OptimizeTicket: the matches are covered as they come.
OptimizeByOrder(vectors, doubles, triples) ==
  [i \in DOMAIN vectors |-> IF i <= triples THEN 3 ELSE IF i <= triples + doubles THEN 2 ELSE 1]

\* optimize_ticket: the ranks that most probably go clean.
OptimizeTicket(vectors, doubles, triples) == BestState(vectors, doubles, triples, Clean).ranks

\* optimize_for_coverage: the same table, its states compared by their tails.
OptimizeForCoverage(vectors, doubles, triples, least) ==
  BestState(vectors, doubles, triples, LAMBDA hits : AtLeast(hits, least))

NoBudget == [doubles |-> 0, triples |-> 0, hits |-> <<>>]

\* min_budget_for_target: fewest triples, then fewest doubles; or the best.
MinBudget(vectors, target, least) ==
  LET n == Len(vectors)
      worth(report) == AtLeast(report.hits, least)
      try(best, i) ==
        LET d == i % (n + 1)
            t == i \div (n + 1)
            report == [doubles |-> d, triples |-> t,
                       hits |-> OptimizeForCoverage(vectors, d, t, least).hits]
        IN IF worth(best) >= target * 1000 ^ (n - 1) THEN best
           ELSE IF worth(report) > worth(best) THEN report ELSE best
  IN FoldLeft(try, NoBudget, [i \in 1..((n + 1) * (n + 1)) |-> i - 1])

------------------------------------------------------------------------------
\* What a boleto admits.

RuleFor(week, n) ==
  IF week \in DOMAIN Rules THEN Rules[week]
  ELSE IF n >= LongSlate THEN Rules["weekend"]
  ELSE IF n <= ShortSlate THEN Rules["revancha"]
  ELSE Rules["fallback"]

LimitsFor(week) == IF week \in DOMAIN Limits THEN Limits[week] ELSE Limits["unknown"]

Doubles(ranks) == {i \in DOMAIN ranks : ranks[i] = 2}
Triples(ranks) == {i \in DOMAIN ranks : ranks[i] = 3}
Combinations(ranks) == 2 ^ Cardinality(Doubles(ranks)) * 3 ^ Cardinality(Triples(ranks))

IsLegal(week, ranks) ==
  /\ Cardinality(Doubles(ranks)) <= LimitsFor(week).doubles
  /\ Cardinality(Triples(ranks)) <= LimitsFor(week).triples
  /\ Combinations(ranks) \in 1..LimitsFor(week).combinations

------------------------------------------------------------------------------

Decisions == [p \in Positions |-> forecasts[p].decision]
Rule == RuleFor(product, Len(slate))

\* _doubles_decision: a confident single stays single, planned or not.
ConfidentSingle(f) ==
  /\ f.decision[Best(f.decision)] >= 580
  /\ Gap(f.decision) >= 120
  /\ f.band # "low"
  /\ AllowsConfidentSingle(f)

DoublesRank(p) == IF plan["doubles"][p] = 2 /\ ~ConfidentSingle(forecasts[p]) THEN 2 ELSE 1

\* _enforce_monotonic_coverage: the full ticket covers what the doubles cover.
FullRank(p) == Larger(plan["full"][p], DoublesRank(p))

CoversDraw(v, rank) ==
  rank = 3 \/ Best(v) = "draw" \/ (rank = 2 /\ Second(v) = "draw")

LiveDraw(v) == v["draw"] >= 250

Leftover == Rule.triples - Cardinality(Triples(plan["full"]))

\* _grant_draw_coverage: leftover triples to the uncovered live draws, strongest first.
Granted ==
  LET asking == {p \in Positions : LiveDraw(Decisions[p]) /\ ~CoversDraw(Decisions[p], FullRank(p))}
      ahead(p) == {q \in asking :
                     \/ Decisions[q]["draw"] > Decisions[p]["draw"]
                     \/ Decisions[q]["draw"] = Decisions[p]["draw"] /\ q < p}
  IN {p \in asking : Cardinality(ahead(p)) < Leftover}

\* What a demotion gives up: whether it was planned, its probability, its factor.
Demotions(mode) ==
  {[position |-> p,
    planned |-> IF plan[mode][p] >= ticket[mode][p] THEN 1 ELSE 0,
    loss |-> LET v == Decisions[p] IN IF ticket[mode][p] = 3 THEN v[Third(v)] ELSE v[Second(v)],
    sixths |-> IF ticket[mode][p] = 3 THEN 4 ELSE 3] :
   p \in {q \in Positions : ticket[mode][q] > 1}}

Sooner(one, other) ==
  \/ one.loss < other.loss
  \/ one.loss = other.loss /\ one.sixths < other.sixths
  \/ one.loss = other.loss /\ one.sixths = other.sixths /\ one.position <= other.position

\* Mutant of Demoted: the cheapest coverage first, planned or not.
DemotedByLoss(mode) ==
  LET all == Demotions(mode)
  IN CHOOSE one \in all : \A other \in all : Sooner(one, other)

\* Coverage nobody planned comes off first, then the cheapest.
Demoted(mode) ==
  LET all == Demotions(mode)
  IN CHOOSE one \in all : \A other \in all :
       one.planned < other.planned \/ (one.planned = other.planned /\ Sooner(one, other))

Illegal == {i \in DOMAIN Modes : ~IsLegal(product, ticket[Modes[i]])}

------------------------------------------------------------------------------
\* Money mode: singles on positions the guard forbids are exposed.

Exposed(mode) == {p \in Positions : ticket[mode][p] = 1 /\ ~forecasts[p].simple}

\* The database holds no prediction, this one, one of richer days, or one of before the audits,
\* whose confidence band stands for its status.
Audits == {"none", "own", "older", "legacy"}
AuditStatus(p) ==
  CASE audit[p] = "none" -> "NO_PRED"
    [] audit[p] = "own" -> forecasts[p].status
    [] audit[p] = "older" -> "LISTO"
    [] audit[p] = "legacy" -> "HIGH"

\* validate_slate_for_money_mode.
DataBlocked(situation) ==
  \/ situation.archived
  \/ ~situation.contiguous
  \/ ~situation.named
  \/ situation.closed /\ \A p \in Positions : audit[p] = "none"

TooExposed(mode) == 100 * Cardinality(Exposed(mode)) > 34 * Len(slate)

\* Mutant of Decision: the balanced ticket is recommended once it is bearable.
EagerDecision(blocked) ==
  IF blocked \/ TooExposed("full") THEN [status |-> "NO_JUGAR", mode |-> "none"]
  ELSE IF ~TooExposed("doubles") THEN [status |-> "JUGAR_BALANCEADO", mode |-> "doubles"]
  ELSE [status |-> "JUGAR_SOLO_CONSERVADOR", mode |-> "full"]

\* _decide: the balanced ticket only when neither leaves a position exposed.
Decision(blocked) ==
  IF blocked \/ TooExposed("full") THEN [status |-> "NO_JUGAR", mode |-> "none"]
  ELSE IF Exposed("full") = {} /\ Exposed("doubles") = {}
  THEN [status |-> "JUGAR_BALANCEADO", mode |-> "doubles"]
  ELSE [status |-> "JUGAR_SOLO_CONSERVADOR", mode |-> "full"]

\* _blocked_positions of the readiness report, which reads the database.
BlockedPositions(situation) ==
  {p \in Positions : AuditStatus(p) \in {"BLOQUEADO", "NO_PRED"} \/ ~situation.named}

GateStatus(decision, situation) ==
  IF decision.status = "NO_JUGAR" \/ BlockedPositions(situation) # {} \/ ~situation.named
  THEN "DO_NOT_PLAY"
  ELSE IF decision.status = "JUGAR_BALANCEADO" THEN "READY_TO_PLAY" ELSE "PLAY_CONSERVATIVE_ONLY"

------------------------------------------------------------------------------

NoTicket == [mode \in ModeSet |-> <<>>]
NoSituation == [archived |-> TRUE, closed |-> TRUE, contiguous |-> FALSE, named |-> FALSE]
NoVerdict == [status |-> "none", mode |-> "none", gate |-> "none", situation |-> NoSituation]

TicketsInit ==
  /\ slate \in Slates
  /\ product \in Products
  /\ forecasts = <<>>
  /\ plan = NoTicket
  /\ lifted = {}
  /\ ticket = NoTicket
  /\ audit = <<>>
  /\ verdict = NoVerdict
  /\ budget = NoBudget
  /\ phase = "scoring"

Go(here, next) == phase = here /\ phase' = next

\* One position of build_slate_predictions.
ScoreNext ==
  /\ Go("scoring", IF Len(forecasts) + 1 = Len(slate) THEN "planning" ELSE "scoring")
  /\ forecasts' = Append(forecasts, Forecast(slate[Len(forecasts) + 1]))
  /\ UNCHANGED <<slate, product, plan, lifted, ticket, audit, verdict, budget>>

\* _choose_doubles and _choose_full_coverage.
PlanTickets ==
  /\ Go("planning", "recommending")
  /\ plan' = [simple |-> [p \in Positions |-> 1],
              doubles |-> OptimizeTicket(Decisions, Rule.alone, 0),
              full |-> OptimizeTicket(Decisions, Rule.doubles, Rule.triples)]
  /\ UNCHANGED <<slate, product, forecasts, lifted, ticket, audit, verdict, budget>>

\* The draw floor and _build_match_recommendation, for every position.
Recommend ==
  /\ Go("recommending", "composing")
  /\ lifted' = Granted
  /\ ticket' = [simple |-> [p \in Positions |-> 1],
                doubles |-> [p \in Positions |-> DoublesRank(p)],
                full |-> [p \in Positions |-> IF p \in lifted' THEN 3 ELSE FullRank(p)]]
  /\ UNCHANGED <<slate, product, forecasts, plan, audit, verdict, budget>>

\* _enforce_legal_composition: one demotion of the first mode that is too big.
Demote ==
  /\ Go("composing", "composing")
  /\ Illegal # {}
  /\ LET mode == Modes[Min(Illegal)]
     IN ticket' = [ticket EXCEPT ![mode][Demoted(mode).position] = @ - 1]
  /\ UNCHANGED <<slate, product, forecasts, plan, lifted, audit, verdict, budget>>

\* Money mode is asked, with the predictions the database then holds.
Compose(audits) ==
  /\ Go("composing", "judging")
  /\ Illegal = {}
  /\ audit' = audits
  /\ UNCHANGED <<slate, product, forecasts, plan, lifted, ticket, verdict, budget>>

\* build_money_mode and the publication gate on its report.
Judge(situation) ==
  /\ Go("judging", "done")
  /\ LET decision == Decision(DataBlocked(situation))
     IN verdict' = [status |-> decision.status, mode |-> decision.mode,
                    gate |-> GateStatus(decision, situation), situation |-> situation]
  /\ UNCHANGED <<slate, product, forecasts, plan, lifted, ticket, audit, budget>>

\* GET ticket/coverage-target: at least nine tenths of the matches by default.
AnswerCoverageTarget(target, least) ==
  /\ Go("planning", "done")
  /\ budget' = MinBudget(Decisions, target, least)
  /\ UNCHANGED <<slate, product, forecasts, plan, lifted, ticket, audit, verdict>>

TicketsNext ==
  \/ ScoreNext
  \/ PlanTickets
  \/ Recommend
  \/ Demote
  \/ \E audits \in [Positions -> Audits] : Compose(audits)
  \/ \E situation \in Situations : Judge(situation)
  \/ \E target \in Targets, least \in Positions : AnswerCoverageTarget(target, least)

TicketsSpec == TicketsInit /\ [][TicketsNext]_vars

------------------------------------------------------------------------------

Assignments == [Positions -> 1..3]
Affordable(doubles, triples) ==
  {ranks \in Assignments : Cardinality(Doubles(ranks)) <= doubles /\ Cardinality(Triples(ranks)) <= triples}
HitsOf(ranks) == FoldLeft(LAMBDA hits, p : Extended(hits, Hit(Decisions[p], ranks[p])), <<1>>,
                          [p \in Positions |-> p])

Planned == phase \in {"recommending", "composing", "judging"} \/ verdict # NoVerdict
Composed == phase = "judging" \/ verdict # NoVerdict

(***************************************************************************)
(* ticket_optimizer: "an exact dynamic program that maximizes the joint    *)
(* probability of getting every match right, subject to the slate's        *)
(* budget": no assignment within the budget does better, in either mode.   *)
(***************************************************************************)
PlanIsBest ==
  Planned =>
    /\ \A ranks \in Affordable(Rule.alone, 0) :
         Clean(HitsOf(ranks)) <= Clean(HitsOf(plan["doubles"]))
    /\ \A ranks \in Affordable(Rule.doubles, Rule.triples) :
         Clean(HitsOf(ranks)) <= Clean(HitsOf(plan["full"]))

(***************************************************************************)
(* "What comes off first is the coverage the mode's own optimizer never    *)
(* asked for": a mode that lost planned coverage to a demotion keeps none  *)
(* beyond its plan.                                                        *)
(***************************************************************************)
DemotionSparesThePlan ==
  Composed =>
    \A mode \in ModeSet :
      (\E p \in Positions : /\ ticket[mode][p] < plan[mode][p]
                            /\ mode = "doubles" => ~ConfidentSingle(forecasts[p]))
        => \A p \in Positions : ticket[mode][p] <= plan[mode][p]

(***************************************************************************)
(* The pick a ticket leaves single is the signal shown: capping, rounding  *)
(* and draw calibration of the vector never change its strict favourite.   *)
(***************************************************************************)
PickIsTheSignal ==
  \A p \in DOMAIN forecasts :
    LET raw == forecasts[p].raw
    IN Gap(raw) > 0 => Best(forecasts[p].decision) = forecasts[p].signal
=============================================================================
