--------------------------- MODULE PlayReportsProofs ---------------------------
(***************************************************************************)
(* Proofs about PlayReports, for every slate, rules and limits: what the   *)
(* publication gate lets out can be played and every report says so; the   *)
(* optimizer finds the best plan, and demotion spares it; the pick is the  *)
(* signal that is shown; the guard and the reports agree on what to review.*)
(***************************************************************************)
EXTENDS PlayReports, FiniteSetTheorems, WellFoundedInduction, TLAPS

\* The tickets that reached money mode are legal, and the database was asked of every match.
Settled ==
  /\ \A mode \in ModeSet : IsLegal(product, ticket[mode])
  /\ audit \in [Positions -> Audits]

\* The verdict is the one of the tickets, the forecasts and the database as they are now.
Judged ==
  LET decision == Decision(DataBlocked(verdict.situation))
  IN verdict = [status |-> decision.status, mode |-> decision.mode,
                gate |-> GateStatus(decision, verdict.situation), situation |-> verdict.situation]

\* Nothing moves after the verdict, so that it stays true of what it judged.
PlayInv ==
  /\ slate \in Slates
  /\ phase \in {"judging"} => Settled /\ verdict = NoVerdict
  /\ phase \notin {"judging", "done"} => verdict = NoVerdict
  /\ verdict # NoVerdict => Settled /\ Judged

LEMMA InitPlayInv == TicketsInit => PlayInv
  BY DEF TicketsInit, PlayInv

\* Money mode, over tickets that are settled.
LEMMA JudgeStep ==
  ASSUME PlayInv, NEW situation \in Situations, Judge(situation)
  PROVE  PlayInv'
  <1> DEFINE decision == Decision(DataBlocked(situation))
  <1>1. /\ phase = "judging" /\ phase' = "done" /\ UNCHANGED <<slate, product, forecasts, ticket, audit>>
        /\ verdict' = [status |-> decision.status, mode |-> decision.mode,
                       gate |-> GateStatus(decision, situation), situation |-> situation]
    BY DEF Judge, Go
  <1>2. Settled' /\ slate' \in Slates
    BY <1>1 DEF PlayInv, Settled, Positions
  <1>3. verdict'.situation = situation
    BY <1>1
  <1>4. /\ Decision(DataBlocked(situation))' = decision
        /\ GateStatus(decision, situation)' = GateStatus(decision, situation)
    BY <1>1 DEF Decision, DataBlocked, GateStatus, TooExposed, Exposed, Positions, BlockedPositions,
                AuditStatus
  <1>5. Judged'
    BY <1>1, <1>3, <1>4 DEF Judged
  <1> QED
    BY <1>1, <1>2, <1>5 DEF PlayInv

LEMMA PlayStep == PlayInv /\ [TicketsNext]_vars => PlayInv'
  <1> SUFFICES ASSUME PlayInv, [TicketsNext]_vars PROVE PlayInv'
    OBVIOUS
  <1>1. CASE ScoreNext \/ PlanTickets \/ Recommend \/ Demote
    BY <1>1 DEF ScoreNext, PlanTickets, Recommend, Demote, Go, PlayInv
  <1>2. ASSUME NEW audits \in [Positions -> Audits], Compose(audits) PROVE PlayInv'
    <2>1. /\ phase = "composing" /\ phase' = "judging" /\ audit' = audits /\ Illegal = {}
          /\ UNCHANGED <<slate, product, ticket, verdict>>
      BY <1>2 DEF Compose, Go
    <2>2. \A i \in 1..3 : IsLegal(product, ticket[Modes[i]])
      BY <2>1 DEF Illegal, Modes
    <2>3. \A mode \in ModeSet : IsLegal(product, ticket[mode])
      <3>1. Modes[1] = "simple" /\ Modes[2] = "doubles" /\ Modes[3] = "full"
        BY DEF Modes
      <3> QED
        BY <2>2, <3>1 DEF ModeSet
    <2>4. Settled'
      BY <2>1, <2>3 DEF Settled, Positions
    <2> QED
      BY <2>1, <2>4 DEF PlayInv
  <1>3. ASSUME NEW situation \in Situations, Judge(situation) PROVE PlayInv'
    BY <1>3, JudgeStep
  <1>4. ASSUME NEW target, NEW least, AnswerCoverageTarget(target, least) PROVE PlayInv'
    BY <1>4 DEF AnswerCoverageTarget, Go, PlayInv
  <1>5. CASE UNCHANGED vars
    <2>1. UNCHANGED <<slate, product, forecasts, ticket, audit, verdict, phase>>
      BY <1>5 DEF vars
    <2>2. Settled' <=> Settled
      BY <2>1 DEF Settled, Positions
    <2>3. Judged' <=> Judged
      BY <2>1 DEF Judged, Decision, DataBlocked, GateStatus, TooExposed, Exposed, Positions,
                  BlockedPositions, AuditStatus
    <2> QED
      BY <2>1, <2>2, <2>3 DEF PlayInv
  <1> QED
    BY <1>1, <1>2, <1>3, <1>4, <1>5 DEF TicketsNext

LEMMA PlayInvariant == TicketsSpec => []PlayInv
  BY InitPlayInv, PlayStep, PTL DEF TicketsSpec

\* A legal ticket costs no more than the boleto of the most combinations.
LEMMA LegalCost ==
  ASSUME NEW mode, IsLegal(product, ticket[mode])
  PROVE  \/ Cost(mode) <= LimitsFor(product).price * LimitsFor(product).combinations
         \/ LimitsFor(product).price = NoCost
  <1> DEFINE price == LimitsFor(product).price
             most == LimitsFor(product).combinations
             count == Combinations(ticket[mode])
  <1>1. most \in Nat /\ price \in Nat \cup {-1}
    BY TicketsAssumption, SMTT(30) DEF LimitsFor
  <1>2. count \in Nat /\ count <= most
    BY <1>1 DEF IsLegal
  <1>3. CASE price \in Nat
    <2>1. Cost(mode) = price * count
      BY <1>3 DEF Cost, NoCost
    <2> HIDE DEF price, most, count
    <2>2. price * count <= price * most
      BY <1>1, <1>2, <1>3
    <2> QED
      BY <2>1, <2>2 DEF price, most
  <1> QED
    BY <1>1, <1>3 DEF NoCost

\* The exposed positions of a mode can be counted.
LEMMA ExposedCount ==
  ASSUME PlayInv, NEW mode
  PROVE  /\ Len(slate) \in Nat \ {0}
         /\ Cardinality(Exposed(mode)) \in Nat
         /\ Exposed(mode) = {} => Cardinality(Exposed(mode)) = 0
  <1>1. Len(slate) \in Nat \ {0}
    BY TicketsAssumption DEF PlayInv
  <1>2. IsFiniteSet(Positions)
    BY <1>1, FS_Interval DEF Positions
  <1>3. IsFiniteSet(Exposed(mode))
    BY <1>2, FS_Subset DEF Exposed
  <1> QED
    BY <1>1, <1>3, FS_CardinalityType, FS_EmptySet

\* What the gate lets out: nothing the database hides, money mode's ticket, named matches.
LEMMA GateOpens ==
  ASSUME PlayInv, verdict.gate \in {"READY_TO_PLAY", "PLAY_CONSERVATIVE_ONLY"}
  PROVE  /\ Settled
         /\ ~DataBlocked(verdict.situation) /\ ~TooExposed("full")
         /\ BlockedPositions(verdict.situation) = {}
         /\ \/ /\ verdict.gate = "READY_TO_PLAY" /\ verdict.status = "JUGAR_BALANCEADO"
               /\ verdict.mode = "doubles" /\ Exposed("full") = {} /\ Exposed("doubles") = {}
            \/ /\ verdict.gate = "PLAY_CONSERVATIVE_ONLY" /\ verdict.status = "JUGAR_SOLO_CONSERVADOR"
               /\ verdict.mode = "full"
  <1> DEFINE blocked == DataBlocked(verdict.situation)
  <1>1. verdict # NoVerdict
    BY DEF NoVerdict
  <1>2. Settled /\ Judged
    BY <1>1 DEF PlayInv
  <1>3. /\ verdict.status = Decision(blocked).status /\ verdict.mode = Decision(blocked).mode
        /\ verdict.gate = GateStatus(Decision(blocked), verdict.situation)
    BY <1>2 DEF Judged
  <1>4. Decision(blocked).status # "NO_JUGAR" /\ BlockedPositions(verdict.situation) = {}
    BY <1>3 DEF GateStatus
  <1>5. ~blocked /\ ~TooExposed("full")
    BY <1>4 DEF Decision
  <1>6. CASE Exposed("full") = {} /\ Exposed("doubles") = {}
    <2>1. Decision(blocked) = [status |-> "JUGAR_BALANCEADO", mode |-> "doubles"]
      BY <1>5, <1>6 DEF Decision
    <2> QED
      BY <1>2, <1>3, <1>4, <1>5, <1>6, <2>1 DEF GateStatus
  <1>7. CASE ~(Exposed("full") = {} /\ Exposed("doubles") = {})
    <2>1. Decision(blocked) = [status |-> "JUGAR_SOLO_CONSERVADOR", mode |-> "full"]
      BY <1>5, <1>7 DEF Decision
    <2> QED
      BY <1>2, <1>3, <1>4, <1>5, <2>1 DEF GateStatus
  <1> QED
    BY <1>6, <1>7

\* The reports, each of its own sources, follow an open gate.
LEMMA OpenGateIsPlayable == PlayInv => PublishedTicketIsPlayable
  <1> SUFFICES ASSUME PlayInv, verdict.gate \in {"READY_TO_PLAY", "PLAY_CONSERVATIVE_ONLY"}
               PROVE  /\ IsLegal(product, ticket[verdict.mode])
                      /\ 100 * Cardinality(Exposed(verdict.mode)) <= 34 * Len(slate)
                      /\ verdict.gate = "READY_TO_PLAY" =>
                           Exposed(verdict.mode) = {} /\ Option(verdict.mode).playable
                      /\ \A p \in Positions : ReportStatus(p) \notin {"NO_PRED", "BLOQUEADO"}
                      /\ {mode \in ModeSet : Option(mode).recommended} = {verdict.mode}
                      /\ RecommendedAction = (IF verdict.gate = "READY_TO_PLAY" THEN "COMPRAR_BALANCEADA"
                                              ELSE "COMPRAR_CONSERVADORA")
                      /\ SlateStatus.playable /\ SlateStatus.action = verdict.mode
                      /\ SlateStatus.uncovered <= Cardinality(Exposed(verdict.mode))
                      /\ DashboardReady
                      /\ \A mode \in ModeSet :
                           \/ Option(mode).cost <= LimitsFor(product).price * LimitsFor(product).combinations
                           \/ LimitsFor(product).price = NoCost
    BY DEF PublishedTicketIsPlayable
  <1>1. /\ Settled
        /\ ~DataBlocked(verdict.situation) /\ ~TooExposed("full")
        /\ BlockedPositions(verdict.situation) = {}
    BY GateOpens
  <1>2. \/ /\ verdict.gate = "READY_TO_PLAY" /\ verdict.status = "JUGAR_BALANCEADO"
           /\ verdict.mode = "doubles" /\ Exposed("full") = {} /\ Exposed("doubles") = {}
        \/ /\ verdict.gate = "PLAY_CONSERVATIVE_ONLY" /\ verdict.status = "JUGAR_SOLO_CONSERVADOR"
           /\ verdict.mode = "full"
    BY GateOpens
  <1>3. /\ Len(slate) \in Nat \ {0}
        /\ Cardinality(Exposed("full")) \in Nat
        /\ Exposed("full") = {} => Cardinality(Exposed("full")) = 0
        /\ Exposed("doubles") = {} => Cardinality(Exposed("doubles")) = 0
    BY ExposedCount
  <1>4. IsLegal(product, ticket[verdict.mode])
    BY <1>1, <1>2 DEF Settled, ModeSet
  <1>5. 100 * Cardinality(Exposed(verdict.mode)) <= 34 * Len(slate)
    <2>1. CASE verdict.mode = "full"
      BY <1>1, <1>3, <2>1 DEF TooExposed
    <2>2. CASE Cardinality(Exposed(verdict.mode)) = 0
      BY <1>3, <2>2
    <2> QED
      BY <1>2, <1>3, <2>1, <2>2
  <1>6. verdict.gate = "READY_TO_PLAY" => Exposed(verdict.mode) = {} /\ Option(verdict.mode).playable
    BY <1>2 DEF Option
  <1>7. ASSUME NEW p \in Positions PROVE ReportStatus(p) \notin {"NO_PRED", "BLOQUEADO"}
    <2>1. AuditStatus(p) \notin {"NO_PRED", "BLOQUEADO"} /\ audit[p] \in Audits
      BY <1>1 DEF BlockedPositions, Settled
    <2>2. Persisted(p).status = AuditStatus(p)
      BY <2>1 DEF Persisted, AuditStatus, Audits
    <2> QED
      BY <2>1, <2>2 DEF ReportStatus
  <1>8. {mode \in ModeSet : Option(mode).recommended} = {verdict.mode}
    <2>1. verdict.mode \in ModeSet /\ verdict.status # "NO_JUGAR"
      BY <1>2 DEF ModeSet
    <2>2. \A mode : Option(mode).recommended <=> verdict.mode = mode
      BY <2>1 DEF Option
    <2> QED
      BY <2>1, <2>2
  <1>9. RecommendedAction = (IF verdict.gate = "READY_TO_PLAY" THEN "COMPRAR_BALANCEADA"
                             ELSE "COMPRAR_CONSERVADORA")
    BY <1>2 DEF RecommendedAction
  <1>10. SlateStatus.playable /\ SlateStatus.action = verdict.mode
    BY <1>2 DEF SlateStatus
  <1>11. SlateStatus.uncovered <= Cardinality(Exposed(verdict.mode))
    <2>1. SlateStatus.uncovered = Cardinality(Exposed("full"))
      BY DEF SlateStatus
    <2> QED
      BY <1>2, <1>3, <2>1
  <1>12. DashboardReady
    <2>1. 1 \in Positions
      BY <1>3 DEF Positions
    <2>2. audit[1] # "none"
      BY <1>1, <2>1 DEF BlockedPositions, AuditStatus
    <2> QED
      BY <1>1, <2>1, <2>2 DEF DashboardReady, PredictionStatus
  <1>13. ASSUME NEW mode \in ModeSet
         PROVE  \/ Option(mode).cost <= LimitsFor(product).price * LimitsFor(product).combinations
                \/ LimitsFor(product).price = NoCost
    <2>1. IsLegal(product, ticket[mode])
      BY <1>1 DEF Settled
    <2>2. Option(mode).cost = Cost(mode)
      BY DEF Option
    <2> QED
      BY <2>1, <2>2, LegalCost
  <1> QED
    BY <1>4, <1>5, <1>6, <1>7, <1>8, <1>9, <1>10, <1>11, <1>12, <1>13

(***************************************************************************)
(* Whatever the slates, the rules of the products, what a boleto admits    *)
(* and costs, the forecasts and the state of the database: a ticket the    *)
(* publication gate lets out is legal, within the 34 % of exposed          *)
(* positions, of matches the model saw and did not refuse, and the         *)
(* options, the operational status, the readiness report and the           *)
(* dashboard say the same of it.                                           *)
(***************************************************************************)
THEOREM PublishedTicketsArePlayable == TicketsSpec => []PublishedTicketIsPlayable
  BY PlayInvariant, OpenGateIsPlayable, PTL

------------------------------------------------------------------------------
(* Arithmetic of the model: rounding to the nearest, and larger and        *)
(* smaller of two.                                                         *)

LEMMA DivBounds ==
  ASSUME NEW x \in Nat, NEW y \in Nat \ {0}
  PROVE  /\ x \div y \in Nat
         /\ y * (x \div y) <= x
         /\ x < y * (x \div y) + y
  OBVIOUS

LEMMA DivAtMost ==
  ASSUME NEW x \in Nat, NEW y \in Nat \ {0}, NEW c \in Nat, x < c * y + y
  PROVE  x \div y <= c
  <1> DEFINE q == x \div y
  <1>1. q \in Nat /\ y * q <= x
    BY DivBounds
  <1> HIDE DEF q
  <1> SUFFICES ASSUME q >= c + 1 PROVE FALSE
    BY <1>1 DEF q
  <1>2. y * q >= y * (c + 1)
    BY <1>1
  <1> QED  BY <1>1, <1>2

\* A larger dividend, by k divisors or more, rounds to k more or more.
LEMMA RoundedShift ==
  ASSUME NEW a \in Nat, NEW d \in Nat, NEW b \in Nat \ {0}, NEW k \in Nat, a >= d + k * b
  PROVE  Rounded(a, b) >= Rounded(d, b) + k
  <1> DEFINE y == 2 * b
             x == 2 * a + b
             z == 2 * d + b
             q == x \div y
             r == z \div y
  <1>1. y \in Nat \ {0} /\ x \in Nat /\ z \in Nat /\ x = 2 * a + b /\ z = 2 * d + b
    OBVIOUS
  <1>2. y * k = 2 * (k * b)
    OBVIOUS
  <1>3. Rounded(a, b) = q /\ Rounded(d, b) = r
    BY DEF Rounded
  <1> HIDE DEF x, y, z
  <1>4. q \in Nat /\ x < y * q + y /\ r \in Nat /\ y * r <= z
    BY <1>1, DivBounds
  <1> HIDE DEF q, r
  <1>5. y * r + y * k < y * q + y
    <2> DEFINE kb == k * b
               yr == y * r
               yq == y * q
               yk == y * k
    <2>1. kb \in Nat /\ yr \in Nat /\ yq \in Nat /\ yk \in Nat
      BY <1>1, <1>4
    <2>2. a >= d + kb /\ x < yq + y /\ yr <= z /\ yk = 2 * kb
      BY <1>2, <1>4
    <2> HIDE DEF kb, yr, yq, yk
    <2>3. yr + yk < yq + y
      BY <2>1, <2>2, <1>1
    <2> QED  BY <2>3 DEF yr, yk, yq
  <1>6. q >= r + k
    <2> SUFFICES ASSUME r + k >= q + 1 PROVE FALSE
      BY <1>4
    <2>1. y * (r + k) >= y * (q + 1)
      BY <1>1, <1>4
    <2> QED  BY <1>1, <1>4, <1>5, <2>1
  <1> QED  BY <1>3, <1>6

LEMMA RoundedIs ==
  ASSUME NEW a \in Nat, NEW b \in Nat \ {0}
  PROVE  /\ Rounded(a, b) \in Nat
         /\ \A c \in Nat : a >= c * b => Rounded(a, b) >= c
         /\ \A c \in Nat : a <= c * b => Rounded(a, b) <= c
  <1>1. Rounded(a, b) \in Nat
    <2> DEFINE x == 2 * a + b
               y == 2 * b
    <2>1. x \in Nat /\ y \in Nat \ {0}
      OBVIOUS
    <2> HIDE DEF x, y
    <2>2. x \div y \in Nat
      BY <2>1, DivBounds
    <2> QED  BY <2>2 DEF Rounded, x, y
  <1>2. ASSUME NEW c \in Nat, a >= c * b PROVE Rounded(a, b) >= c
    <2>1. Rounded(0, b) = 0
      BY DEF Rounded
    <2>2. Rounded(a, b) >= Rounded(0, b) + c
      <3> DEFINE cb == c * b
      <3>1. cb \in Nat /\ a >= 0 + cb
        BY <1>2
      <3> QED  BY <3>1, RoundedShift
    <2> QED  BY <2>1, <2>2
  <1>3. ASSUME NEW c \in Nat, a <= c * b PROVE Rounded(a, b) <= c
    <2> DEFINE x == 2 * a + b
               y == 2 * b
    <2>1. x \in Nat /\ y \in Nat \ {0} /\ x < c * y + y
      <3> DEFINE cb == c * b
      <3>1. cb \in Nat /\ a <= cb /\ c * y = 2 * cb
        BY <1>3
      <3> HIDE DEF cb
      <3> QED  BY <3>1
    <2> HIDE DEF x, y
    <2>2. x \div y <= c
      BY <2>1, DivAtMost
    <2> QED  BY <2>2 DEF Rounded, x, y
  <1> QED  BY <1>1, <1>2, <1>3

LEMMA SmallerLarger ==
  ASSUME NEW a \in Int, NEW b \in Int
  PROVE  /\ Smaller(a, b) \in {a, b} /\ Smaller(a, b) <= a /\ Smaller(a, b) <= b
         /\ Larger(a, b) \in {a, b} /\ Larger(a, b) >= a /\ Larger(a, b) >= b
  BY DEF Smaller, Larger

\* The least of three numbers.
LEMMA MinOfThree ==
  ASSUME NEW a \in Int, NEW b \in Int, NEW c \in Int
  PROVE  /\ Min({a, b, c}) \in {a, b, c}
         /\ Min({a, b, c}) <= a /\ Min({a, b, c}) <= b /\ Min({a, b, c}) <= c
  <1> DEFINE S == {a, b, c}
  <1>1. \E x \in S : \A y \in S : x <= y
    <2>1. CASE a <= b /\ a <= c
      BY <2>1
    <2>2. CASE b <= a /\ b <= c
      BY <2>2
    <2>3. CASE c <= a /\ c <= b
      BY <2>3
    <2> QED  BY <2>1, <2>2, <2>3
  <1>2. Min(S) \in S /\ \A y \in S : Min(S) <= y
    <2> HIDE DEF S
    <2> QED  BY <1>1 DEF Min
  <1> QED  BY <1>2

------------------------------------------------------------------------------
(* The outcomes by probability.                                            *)

\* a, b, c are the outcomes in the order of v.
Order(v, a, b, c) ==
  /\ {a, b, c} = Outcomes /\ a # b /\ b # c /\ a # c
  /\ Precedes(v, a, b) /\ Precedes(v, b, c) /\ Precedes(v, a, c)

LEMMA PrecedesIsOrder ==
  ASSUME NEW v \in [Outcomes -> Int]
  PROVE  /\ \A a \in Outcomes : ~Precedes(v, a, a)
         /\ \A a, b \in Outcomes : a # b => (Precedes(v, a, b) <=> ~Precedes(v, b, a))
         /\ \A a, b, c \in Outcomes : Precedes(v, a, b) /\ Precedes(v, b, c) => Precedes(v, a, c)
  <1>1. \A a \in Outcomes : Listed[a] \in Int
        /\ \A b \in Outcomes : a # b => Listed[a] # Listed[b]
    BY DEF Outcomes, Listed
  <1>2. \A a \in Outcomes : v[a] \in Int
    OBVIOUS
  <1> QED  BY <1>1, <1>2 DEF Precedes

LEMMA OrderExists ==
  ASSUME NEW v \in [Outcomes -> Int]
  PROVE  \E a, b, c \in Outcomes : Order(v, a, b, c)
  <1> DEFINE h == "home"
             d == "draw"
             w == "away"
  <1>1. h # d /\ d # w /\ h # w /\ Outcomes = {h, d, w}
    BY DEF Outcomes
  <1> HIDE DEF h, d, w
  <1>2. h \in Outcomes /\ d \in Outcomes /\ w \in Outcomes
    BY <1>1
  <1>3. /\ Precedes(v, h, d) <=> ~Precedes(v, d, h)
        /\ Precedes(v, d, w) <=> ~Precedes(v, w, d)
        /\ Precedes(v, h, w) <=> ~Precedes(v, w, h)
    BY <1>1, <1>2, PrecedesIsOrder
  <1>4. ASSUME NEW a \in Outcomes, NEW b \in Outcomes, NEW c \in Outcomes,
               {a, b, c} = Outcomes, a # b, b # c, a # c, Precedes(v, a, b), Precedes(v, b, c)
        PROVE  Order(v, a, b, c)
    BY <1>4, PrecedesIsOrder DEF Order
  <1>5. CASE Precedes(v, h, d) /\ Precedes(v, d, w)
    BY <1>1, <1>2, <1>4, <1>5
  <1>6. CASE Precedes(v, h, w) /\ Precedes(v, w, d)
    <2>1. {h, w, d} = Outcomes
      BY <1>1
    <2> QED  BY <2>1, <1>1, <1>2, <1>4, <1>6
  <1>7. CASE Precedes(v, d, h) /\ Precedes(v, h, w)
    <2>1. {d, h, w} = Outcomes
      BY <1>1
    <2> QED  BY <2>1, <1>1, <1>2, <1>4, <1>7
  <1>8. CASE Precedes(v, d, w) /\ Precedes(v, w, h)
    <2>1. {d, w, h} = Outcomes
      BY <1>1
    <2> QED  BY <2>1, <1>1, <1>2, <1>4, <1>8
  <1>9. CASE Precedes(v, w, h) /\ Precedes(v, h, d)
    <2>1. {w, h, d} = Outcomes
      BY <1>1
    <2> QED  BY <2>1, <1>1, <1>2, <1>4, <1>9
  <1>10. CASE Precedes(v, w, d) /\ Precedes(v, d, h)
    <2>1. {w, d, h} = Outcomes
      BY <1>1
    <2> QED  BY <2>1, <1>1, <1>2, <1>4, <1>10
  <1> QED  BY <1>3, <1>5, <1>6, <1>7, <1>8, <1>9, <1>10

\* In any order the ranks are what they say.
LEMMA RankedIs ==
  ASSUME NEW v \in [Outcomes -> Int], NEW a, NEW b, NEW c, Order(v, a, b, c)
  PROVE  Best(v) = a /\ Second(v) = b /\ Third(v) = c
  <1> DEFINE ahead(o) == {other \in Outcomes : Precedes(v, other, o)}
  <1>1. a \in Outcomes /\ b \in Outcomes /\ c \in Outcomes /\ Outcomes = {a, b, c}
        /\ a # b /\ b # c /\ a # c
    BY DEF Order
  <1>2. ahead(a) = {} /\ ahead(b) = {a} /\ ahead(c) = {a, b}
    <2>1. ~Precedes(v, a, a) /\ ~Precedes(v, b, b) /\ ~Precedes(v, c, c)
      BY <1>1, PrecedesIsOrder
    <2>2. ~Precedes(v, b, a) /\ ~Precedes(v, c, b) /\ ~Precedes(v, c, a)
          /\ Precedes(v, a, b) /\ Precedes(v, b, c) /\ Precedes(v, a, c)
      BY <1>1, PrecedesIsOrder DEF Order
    <2> QED  BY <1>1, <2>1, <2>2
  <1>3. Cardinality({}) = 0 /\ Cardinality({a}) = 1 /\ Cardinality({a, b}) = 2
    <2>1. Cardinality({}) = 0 /\ Cardinality({a}) = 1
      BY FS_EmptySet, FS_Singleton
    <2>2. IsFiniteSet({a}) /\ b \notin {a} /\ {a} \cup {b} = {a, b}
      BY FS_Singleton, <1>1
    <2>3. Cardinality({a} \cup {b}) = Cardinality({a}) + 1
      BY <2>2, FS_AddElement
    <2> QED  BY <2>1, <2>2, <2>3
  <1>4. Cardinality(ahead(a)) = 0 /\ Cardinality(ahead(b)) = 1 /\ Cardinality(ahead(c)) = 2
    BY <1>2, <1>3
  <1>5. \A place : Ranked(v, place) = CHOOSE o \in Outcomes : Cardinality(ahead(o)) = place - 1
    BY DEF Ranked
  <1> HIDE DEF ahead
  <1>6. Ranked(v, 1) = a
    BY <1>1, <1>4, <1>5
  <1>7. Ranked(v, 2) = b
    BY <1>1, <1>4, <1>5
  <1>8. Ranked(v, 3) = c
    BY <1>1, <1>4, <1>5
  <1> QED  BY <1>6, <1>7, <1>8 DEF Best, Second, Third

LEMMA RanksAre ==
  ASSUME NEW v \in [Outcomes -> Int]
  PROVE  /\ {Best(v), Second(v), Third(v)} = Outcomes
         /\ Best(v) # Second(v) /\ Second(v) # Third(v) /\ Best(v) # Third(v)
         /\ v[Best(v)] >= v[Second(v)] /\ v[Second(v)] >= v[Third(v)]
         /\ \A o \in Outcomes : v[Best(v)] >= v[o]
         /\ Total(v) = v[Best(v)] + v[Second(v)] + v[Third(v)]
  <1>1. PICK a \in Outcomes, b \in Outcomes, c \in Outcomes : Order(v, a, b, c)
    BY OrderExists
  <1>2. Best(v) = a /\ Second(v) = b /\ Third(v) = c
    BY <1>1, RankedIs
  <1>3. {a, b, c} = Outcomes /\ a # b /\ b # c /\ a # c /\ v[a] >= v[b] /\ v[b] >= v[c]
    BY <1>1 DEF Order, Precedes
  <1>4. \A o \in Outcomes : v[a] >= v[o]
    BY <1>3
  <1>5. Total(v) = v[a] + v[b] + v[c]
    <2> DEFINE h == "home"
               d == "draw"
               w == "away"
    <2>1. h # d /\ d # w /\ h # w /\ Outcomes = {h, d, w} /\ Total(v) = v[h] + v[d] + v[w]
      BY DEF Outcomes, Total
    <2> HIDE DEF h, d, w
    <2>2. v[h] \in Int /\ v[d] \in Int /\ v[w] \in Int
      BY <2>1
    <2>3. \/ (a = h /\ b = d /\ c = w)
          \/ (a = h /\ b = w /\ c = d)
          \/ (a = d /\ b = h /\ c = w)
          \/ (a = d /\ b = w /\ c = h)
          \/ (a = w /\ b = h /\ c = d)
          \/ (a = w /\ b = d /\ c = h)
      <3>1. a \in {h, d, w} /\ b \in {h, d, w} /\ c \in {h, d, w}
        BY <2>1
      <3> QED  BY <1>3, <3>1
    <2> QED  BY <2>1, <2>2, <2>3
  <1> QED  BY <1>2, <1>3, <1>4, <1>5

LEMMA WeightsAre ==
  ASSUME NEW v \in Weights
  PROVE  /\ v \in [Outcomes -> Nat] /\ v \in [Outcomes -> Int]
         /\ Total(v) \in Nat \ {0} /\ 3 * v[Best(v)] >= Total(v) /\ v[Best(v)] \in Nat \ {0}
         /\ v["home"] \in Nat /\ v["draw"] \in Nat /\ v["away"] \in Nat
         /\ \A o \in Outcomes : v[o] \in Nat /\ v[o] <= Total(v)
         /\ Best(v) \in Outcomes /\ Second(v) \in Outcomes /\ Third(v) \in Outcomes
  <1>1. v \in [Outcomes -> Nat] /\ v \in [Outcomes -> Int] /\ Total(v) > 0
    BY DEF Weights
  <1>2. v["home"] \in Nat /\ v["draw"] \in Nat /\ v["away"] \in Nat
    BY <1>1 DEF Outcomes
  <1>3. Best(v) \in Outcomes /\ Second(v) \in Outcomes /\ Third(v) \in Outcomes
    BY <1>1, RanksAre
  <1>4. Total(v) \in Nat /\ \A o \in Outcomes : v[o] <= Total(v)
    BY <1>2 DEF Total, Outcomes
  <1>5. v[Best(v)] \in Nat /\ v[Second(v)] \in Nat /\ v[Third(v)] \in Nat
    BY <1>1, <1>3
  <1> QED  BY <1>1, <1>2, <1>3, <1>4, <1>5, RanksAre

\* A vector whose best outcome rounds to something.
LEMMA IsWeights ==
  ASSUME NEW v \in [Outcomes -> Nat], NEW o \in Outcomes, v[o] > 0
  PROVE  v \in Weights
  <1>1. v["home"] \in Nat /\ v["draw"] \in Nat /\ v["away"] \in Nat
    BY DEF Outcomes
  <1>2. v["home"] > 0 \/ v["draw"] > 0 \/ v["away"] > 0
    BY DEF Outcomes
  <1> QED  BY <1>1, <1>2 DEF Weights, Total

\* Each outcome's share of c in the total: what sums to about c, and keeps the greatest third.
LEMMA SharesAre ==
  ASSUME NEW v \in Weights, NEW c \in Nat \ {0}, c >= 10, NEW o \in Outcomes
  PROVE  /\ Rounded(c * v[o], Total(v)) \in 0..c
         /\ 3 * v[o] >= Total(v) => 3 * Rounded(c * v[o], Total(v)) >= c - 2
  <1> DEFINE T == Total(v)
             a == c * v[o]
  <1>1. T \in Nat \ {0} /\ v[o] \in Nat /\ v[o] <= T
    BY WeightsAre
  <1> HIDE DEF T
  <1>2. a \in Nat /\ a <= c * T
    BY <1>1
  <1>3. Rounded(a, T) \in Nat /\ Rounded(a, T) <= c
    <2> HIDE DEF a
    <2> QED  BY <1>1, <1>2, RoundedIs
  <1>4. ASSUME 3 * v[o] >= T PROVE 3 * Rounded(a, T) >= c - 2
    <2>1. PICK k \in Nat : 3 * k <= c /\ 3 * k >= c - 2
      <3>1. c \div 3 \in Nat /\ 3 * (c \div 3) <= c /\ 3 * (c \div 3) >= c - 2
        OBVIOUS
      <3> QED  BY <3>1
    <2>2. 3 * a = c * (3 * v[o]) /\ c * (3 * v[o]) >= c * T
      BY <1>1, <1>4
    <2>3. c * T >= (3 * k) * T /\ (3 * k) * T = 3 * (k * T)
      BY <1>1, <2>1
    <2>4. a >= k * T
      <3> DEFINE kT == k * T
                 cT == c * T
      <3>1. kT \in Nat /\ cT \in Nat /\ 3 * a >= cT /\ cT >= 3 * kT
        BY <1>1, <2>2, <2>3
      <3> HIDE DEF kT, cT, a
      <3> QED  BY <1>2, <3>1 DEF kT
    <2>5. Rounded(a, T) >= k
      <3> HIDE DEF a
      <3> QED  BY <1>1, <1>2, <2>4, RoundedIs
    <2> QED  BY <1>3, <2>1, <2>5
  <1> QED  BY <1>3, <1>4 DEF T

LEMMA NormalizedTyped ==
  ASSUME NEW v \in Weights
  PROVE  /\ Normalized(v) \in Weights
         /\ \A o \in Outcomes : /\ Normalized(v)[o] = Rounded(1000 * v[o], Total(v))
                                /\ Normalized(v)[o] <= 1000
         /\ Normalized(v)[Best(v)] >= 333
  <1>1. \A o \in Outcomes : Normalized(v)[o] = Rounded(1000 * v[o], Total(v))
    BY DEF Normalized
  <1>2. \A o \in Outcomes : Normalized(v)[o] \in 0..1000
    <2> SUFFICES ASSUME NEW o \in Outcomes PROVE Normalized(v)[o] \in 0..1000
      OBVIOUS
    <2> DEFINE c == 1000
    <2>1. c \in Nat \ {0} /\ c >= 10
      OBVIOUS
    <2> HIDE DEF c
    <2>2. Rounded(c * v[o], Total(v)) \in 0..c
      BY <2>1, SharesAre
    <2> QED  BY <1>1, <2>2 DEF c
  <1>3. Best(v) \in Outcomes /\ Normalized(v)[Best(v)] >= 333
    <2>1. Best(v) \in Outcomes /\ 3 * v[Best(v)] >= Total(v)
      BY WeightsAre
    <2>2. 3 * Rounded(1000 * v[Best(v)], Total(v)) >= 998
      BY <2>1, SharesAre
    <2>3. Normalized(v)[Best(v)] \in 0..1000 /\ 3 * Normalized(v)[Best(v)] >= 998
      BY <1>1, <1>2, <2>1, <2>2
    <2> QED  BY <2>1, <2>3, SMTT(30)
  <1>4. Normalized(v) \in [Outcomes -> Nat]
    BY <1>2 DEF Normalized
  <1>5. Normalized(v) \in Weights
    BY <1>2, <1>3, <1>4, IsWeights
  <1> QED  BY <1>1, <1>2, <1>3, <1>5, SMTT(30)

------------------------------------------------------------------------------
(* The vector of a forecast.                                               *)

\* In hundredths, written in thousandths; some outcome has its third.
LEMMA AdjustedTyped ==
  ASSUME NEW m \in MatchData
  PROVE  /\ Adjusted(m) \in Weights
         /\ \A o \in Outcomes : \E n \in Nat : Adjusted(m)[o] = 10 * n
         /\ \E v \in Weights : Adjusted(m) = [o \in Outcomes |-> 10 * Rounded(100 * v[o], Total(v))]
  <1> DEFINE side == IF m.edge > 0 THEN "home" ELSE "away"
             other == IF m.edge > 0 THEN "away" ELSE "home"
             strength == IF m.edge > 0 THEN m.edge ELSE -m.edge
             pull == Rounded(6 * strength, 100)
             swing == Smaller(pull, 100)
             share == Rounded(35 * swing, 100)
             room == Larger(m.scored["draw"] - 120, 0)
             trimmed == Smaller(room, share)
             moved == [m.scored EXCEPT ![side] = @ + swing + trimmed \div 2,
                                       ![other] = Larger(@ - swing, 50),
                                       !["draw"] = @ - trimmed]
             contextual == (m.evidence > 0 \/ m.headToHead > 0) /\ strength >= 10
             v == IF contextual THEN moved ELSE m.scored
  <1>1. m.scored \in Weights /\ m.edge \in Int
    BY DEF MatchData
  <1>2. m.scored \in [Outcomes -> Nat] /\ m.scored["draw"] \in Nat
    BY <1>1, WeightsAre
  <1>3. strength \in Nat
    BY <1>1
  <1>4. side \in Outcomes /\ other \in Outcomes /\ side # other /\ side # "draw" /\ other # "draw"
    BY DEF Outcomes
  <1> HIDE DEF side, other, strength
  <1>5. pull \in Nat
    <2>1. 6 * strength \in Nat
      BY <1>3
    <2> QED  BY <2>1, RoundedIs
  <1>6. swing \in Nat
    BY <1>5, SmallerLarger
  <1> HIDE DEF pull, swing
  <1>7. share \in Nat
    <2>1. 35 * swing \in Nat
      BY <1>6
    <2> QED  BY <2>1, RoundedIs
  <1>8. room \in Nat /\ room <= m.scored["draw"]
    BY <1>2 DEF Larger
  <1> HIDE DEF share, room
  <1>9. trimmed \in Nat /\ trimmed <= m.scored["draw"]
    BY <1>7, <1>8, <1>2, SmallerLarger
  <1> HIDE DEF trimmed
  <1>10. moved \in Weights
    <2>1. m.scored[side] + swing + trimmed \div 2 \in Nat
      BY <1>2, <1>4, <1>6, <1>9
    <2>2. Larger(m.scored[other] - swing, 50) \in Nat /\ Larger(m.scored[other] - swing, 50) >= 50
      BY <1>2, <1>4, <1>6 DEF Larger
    <2>3. m.scored["draw"] - trimmed \in Nat
      BY <1>2, <1>9
    <2>4. moved \in [Outcomes -> Nat] /\ moved[other] = Larger(m.scored[other] - swing, 50)
      BY <1>2, <1>4, <2>1, <2>2, <2>3
    <2> HIDE DEF moved
    <2> QED  BY <1>4, <2>2, <2>4, IsWeights
  <1> HIDE DEF moved
  <1>11. v \in Weights
    BY <1>1, <1>10
  <1>12. Adjusted(m) = [o \in Outcomes |-> 10 * Rounded(100 * v[o], Total(v))]
    BY DEF Adjusted, v, contextual, moved, trimmed, room, share, swing, pull, strength, side, other
  <1> HIDE DEF v
  <1>13. \A o \in Outcomes : Rounded(100 * v[o], Total(v)) \in Nat
                             /\ Adjusted(m)[o] = 10 * Rounded(100 * v[o], Total(v))
    BY <1>11, <1>12, SharesAre
  <1>14. Adjusted(m) \in [Outcomes -> Nat]
    <2>1. \A o \in Outcomes : 10 * Rounded(100 * v[o], Total(v)) \in Nat
      BY <1>13
    <2> QED  BY <1>12, <2>1
  <1>15. Best(v) \in Outcomes /\ Adjusted(m)[Best(v)] > 0
    <2>1. Best(v) \in Outcomes /\ 3 * v[Best(v)] >= Total(v)
      BY <1>11, WeightsAre
    <2>2. 3 * Rounded(100 * v[Best(v)], Total(v)) >= 98
      BY <1>11, <2>1, SharesAre
    <2> QED  BY <1>13, <2>1, <2>2
  <1> QED  BY <1>11, <1>12, <1>13, <1>14, <1>15, IsWeights

LEMMA ShrinkageIsShare == ASSUME NEW m \in MatchData PROVE Shrinkage(m) \in 0..100
  <1> DEFINE known == m.leagueDraws >= 50
             spread == Rounded(22000, m.leagueDraws)
             baseline == IF known THEN Larger(0, 100 - spread) ELSE 0
             tight == Rounded(6 * baseline, 10)
             least == IF known THEN Larger(10, tight) ELSE 15
             most == IF known THEN Smaller(90, Larger(2 * baseline, baseline + 20)) ELSE 55
             rhythm == Larger(0, Smaller(30, m.goals - 10))
             steep == (most - least) * rhythm
  <1>1. m.leagueDraws \in Nat /\ m.goals \in Nat
    BY DEF MatchData
  <1>2. baseline \in 0..100
    <2>1. CASE known
      <3>1. m.leagueDraws \in Nat \ {0}
        BY <1>1, <2>1
      <3>2. spread \in Nat
        BY <3>1, RoundedIs
      <3> HIDE DEF spread
      <3> QED  BY <2>1, <3>2 DEF Larger
    <2> QED  BY <2>1
  <1> HIDE DEF baseline
  <1>3. tight \in Nat /\ (baseline <= 100 => tight <= 60) /\ tight <= baseline
    <2> DEFINE b == 6 * baseline
    <2>1. b \in Nat /\ b <= 60 * 10 /\ b <= baseline * 10
      BY <1>2
    <2> HIDE DEF b
    <2>2. Rounded(b, 10) \in Nat /\ Rounded(b, 10) <= 60 /\ Rounded(b, 10) <= baseline
      BY <1>2, <2>1, RoundedIs
    <2> QED  BY <2>2 DEF b
  <1> HIDE DEF tight
  <1>4. least \in 0..60 /\ most \in 0..90 /\ least <= most
    BY <1>2, <1>3 DEF Larger, Smaller
  <1>5. rhythm \in 0..30
    BY <1>1 DEF Larger, Smaller
  <1>6. Shrinkage(m) = IF m.homeRecent < 1 /\ m.awayRecent < 1 THEN least ELSE least + Rounded(steep, 30)
    BY DEF Shrinkage, steep, rhythm, most, least, tight, baseline, spread, known
  <1> HIDE DEF least, most, rhythm
  <1>7. Rounded(steep, 30) \in Nat /\ Rounded(steep, 30) <= most - least
    <2>1. steep \in Nat /\ steep <= (most - least) * 30 /\ most - least \in Nat
      BY <1>4, <1>5
    <2> HIDE DEF steep
    <2> QED  BY <2>1, RoundedIs
  <1> HIDE DEF steep
  <1> QED  BY <1>4, <1>6, <1>7

\* The draw a knock-out frees, to the sides in proportion, before it is normalized.
Freed(m, v) == Rounded(v["draw"] * Shrinkage(m), 100)
Gain(m, v, o) == LET sides == v["home"] + v["away"]
                 IN IF sides = 0 THEN Freed(m, v) \div 2 ELSE Rounded(Freed(m, v) * v[o], sides)
Raised(m, v) == [v EXCEPT !["home"] = @ + Gain(m, v, "home"), !["away"] = @ + Gain(m, v, "away"),
                          !["draw"] = @ - Freed(m, v)]

LEMMA RaisedTyped ==
  ASSUME NEW m \in MatchData, NEW v \in Weights, \A o \in Outcomes : \E n \in Nat : v[o] = 10 * n
  PROVE  /\ Raised(m, v) \in Weights
         /\ Freed(m, v) \in Nat /\ Freed(m, v) <= v["draw"]
         /\ Gain(m, v, "home") \in Nat /\ Gain(m, v, "away") \in Nat
         /\ Raised(m, v)["home"] = v["home"] + Gain(m, v, "home")
         /\ Raised(m, v)["away"] = v["away"] + Gain(m, v, "away")
         /\ Raised(m, v)["draw"] = v["draw"] - Freed(m, v)
  <1> DEFINE d == v["draw"]
             f == Freed(m, v)
             sides == v["home"] + v["away"]
  <1>1. d \in Nat /\ v["home"] \in Nat /\ v["away"] \in Nat /\ sides \in Nat
        /\ Total(v) = sides + d /\ Total(v) > 0 /\ v \in [Outcomes -> Nat]
    BY WeightsAre DEF Total, Weights
  <1>2. f \in Nat /\ f <= d
    <2> DEFINE s == Shrinkage(m)
               a == d * s
    <2>1. s \in 0..100
      BY ShrinkageIsShare
    <2> HIDE DEF s, d
    <2>2. a \in Nat /\ a <= d * 100
      BY <1>1, <2>1
    <2> HIDE DEF a
    <2>3. Rounded(a, 100) \in Nat /\ Rounded(a, 100) <= d
      BY <1>1, <2>2, RoundedIs
    <2> QED  BY <2>3 DEF Freed, a, s, d
  <1>3. ASSUME NEW o \in {"home", "away"} PROVE Gain(m, v, o) \in Nat
    <2>1. v[o] \in Nat
      BY <1>1
    <2>2. CASE sides = 0
      <3>1. Gain(m, v, o) = f \div 2
        BY <2>2 DEF Gain
      <3> HIDE DEF f
      <3> QED  BY <1>2, <3>1
    <2>3. CASE sides # 0
      <3> DEFINE a == f * v[o]
      <3>1. Gain(m, v, o) = Rounded(a, sides)
        BY <2>3 DEF Gain
      <3> HIDE DEF f
      <3>2. a \in Nat
        BY <1>2, <2>1
      <3> HIDE DEF a, sides
      <3> QED  BY <1>1, <2>3, <3>1, <3>2, RoundedIs
    <2> QED  BY <2>2, <2>3
  <1>4. Gain(m, v, "home") \in Nat /\ Gain(m, v, "away") \in Nat
    BY <1>3
  <1>5. /\ Raised(m, v)["home"] = v["home"] + Gain(m, v, "home")
        /\ Raised(m, v)["away"] = v["away"] + Gain(m, v, "away")
        /\ Raised(m, v)["draw"] = d - f
        /\ DOMAIN Raised(m, v) = Outcomes
    <2> HIDE DEF f
    <2> QED  BY <1>1 DEF Raised, Outcomes, f
  <1>6. Raised(m, v) \in [Outcomes -> Nat]
    <2>1. Raised(m, v) = [o \in Outcomes |-> Raised(m, v)[o]]
      BY <1>1, <1>5 DEF Raised
    <2>2. \A o \in Outcomes : Raised(m, v)[o] \in Nat
      <3> HIDE DEF f, d
      <3> QED  BY <1>1, <1>2, <1>4, <1>5 DEF Outcomes, d
    <2> HIDE DEF f, d
    <2> QED  BY <2>1, <2>2
  <1>7. \E o \in Outcomes : Raised(m, v)[o] > 0
    <2>1. CASE v["home"] > 0
      BY <1>1, <1>4, <1>5, <2>1 DEF Outcomes
    <2>2. CASE v["away"] > 0
      BY <1>1, <1>4, <1>5, <2>2 DEF Outcomes
    <2>3. CASE v["home"] = 0 /\ v["away"] = 0
      <3>1. sides = 0 /\ d > 0
        BY <1>1, <2>3
      <3>2. d >= 10
        <4>1. PICK n \in Nat : d = 10 * n
          BY DEF Outcomes
        <4> HIDE DEF d
        <4> QED  BY <3>1, <4>1
      <3>3. Gain(m, v, "home") = f \div 2
        BY <3>1 DEF Gain
      <3>4. f \div 2 > 0 \/ d - f > 0
        <4> HIDE DEF f, d
        <4> QED  BY <1>1, <1>2, <3>2
      <3>5. Raised(m, v)["home"] > 0 \/ Raised(m, v)["draw"] > 0
        <4> HIDE DEF f, d
        <4> QED  BY <1>1, <1>2, <1>5, <2>3, <3>3, <3>4
      <3> QED  BY <3>5 DEF Outcomes
    <2> QED  BY <1>1, <2>1, <2>2, <2>3
  <1>8. Raised(m, v) \in Weights
    BY <1>6, <1>7, IsWeights
  <1> QED  BY <1>2, <1>4, <1>5, <1>8

LEMMA KnockoutIsNormalized == \A m, v : KnockoutAdjusted(m, v) = Normalized(Raised(m, v))
  BY DEF KnockoutAdjusted, Raised, Gain, Freed

LEMMA ModelledTyped ==
  ASSUME NEW m \in MatchData
  PROVE  Modelled(m) \in Weights
  <1>1. Adjusted(m) \in Weights /\ \A o \in Outcomes : \E n \in Nat : Adjusted(m)[o] = 10 * n
    BY AdjustedTyped
  <1>2. KnockoutAdjusted(m, Adjusted(m)) \in Weights
    BY <1>1, RaisedTyped, KnockoutIsNormalized, NormalizedTyped
  <1> QED  BY <1>1, <1>2 DEF Modelled

\* Shrunk, the favourite sits at the cap, and the others at no more than they can share.
LEMMA ShrunkTyped ==
  ASSUME NEW v \in Weights, NEW cap \in {600, 650, 900}, v[Best(v)] > cap
  PROVE  /\ ShrunkTowardPrior(v, cap) \in Weights
         /\ ShrunkTowardPrior(v, cap)[Best(v)] = cap
  <1> DEFINE b == Best(v)
             keep == 3 * cap - 1000
             of == 3 * v[b] - 1000
             over == of - keep
             mass(o) == 3 * keep * v[o] + over * 1000
             w == ShrunkTowardPrior(v, cap)
  <1>1. b \in Outcomes /\ v[b] \in Nat /\ \A o \in Outcomes : v[o] \in Nat
    BY WeightsAre
  <1>2. keep \in Nat \ {0} /\ of \in Nat \ {0} /\ over \in Nat /\ 3 * of \in Nat \ {0}
    BY <1>1
  <1>3. w = [o \in Outcomes |-> Rounded(mass(o), 3 * of)]
    BY <1>1 DEF ShrunkTowardPrior
  <1>4. \A o \in Outcomes : mass(o) \in Nat
    <2> SUFFICES ASSUME NEW o \in Outcomes PROVE mass(o) \in Nat
      OBVIOUS
    <2>1. v[o] \in Nat
      BY <1>1
    <2> HIDE DEF keep, over
    <2> QED  BY <1>2, <2>1
  <1>5. mass(b) = cap * (3 * of)
    <2> DEFINE x == v[b]
    <2>1. x \in Nat
      BY <1>1
    <2>2. 3 * (3 * cap - 1000) * x + ((3 * x - 1000) - (3 * cap - 1000)) * 1000 = cap * (3 * (3 * x - 1000))
      <3> HIDE DEF x
      <3>1. CASE cap = 600
        BY <2>1, <3>1
      <3>2. CASE cap = 650
        BY <2>1, <3>2
      <3>3. CASE cap = 900
        BY <2>1, <3>3
      <3> QED  BY <3>1, <3>2, <3>3
    <2> QED  BY <2>2
  <1> HIDE DEF mass, of, keep, over
  <1>6. \A o \in Outcomes : Rounded(mass(o), 3 * of) \in Nat
    <2> DEFINE t == 3 * of
    <2>1. t \in Nat \ {0}
      BY <1>2
    <2> HIDE DEF t
    <2>2. \A o \in Outcomes : Rounded(mass(o), t) \in Nat
      BY <1>4, <2>1, RoundedIs
    <2> QED  BY <2>2 DEF t
  <1>7. Rounded(mass(b), 3 * of) = cap
    <2> DEFINE t == 3 * of
               a == mass(b)
    <2>1. t \in Nat \ {0} /\ a \in Nat /\ a = cap * t /\ cap \in Nat
      BY <1>1, <1>2, <1>4, <1>5
    <2> HIDE DEF t, a
    <2>2. Rounded(a, t) \in Nat /\ Rounded(a, t) >= cap /\ Rounded(a, t) <= cap
      BY <2>1, RoundedIs, SMTT(30)
    <2>3. Rounded(a, t) = cap
      BY <2>1, <2>2
    <2> QED  BY <2>3 DEF t, a
  <1>8. w \in [Outcomes -> Nat] /\ w[b] = cap /\ w[b] > 0
    <2> HIDE DEF w
    <2> QED  BY <1>1, <1>3, <1>6, <1>7
  <1>9. w \in Weights
    <2> HIDE DEF w, b
    <2> QED  BY <1>1, <1>8, IsWeights
  <1> QED  BY <1>8, <1>9

LEMMA CapIs == \A m, v : Cap(m, v) \in {600, 650, 900}
  BY DEF Cap

LEMMA SaneTyped ==
  ASSUME NEW m, NEW v \in Weights
  PROVE  ShrunkTowardPrior(v, Cap(m, v)) \in Weights /\ Sane(m, v) \in Weights
  <1>1. CASE v[Best(v)] <= Cap(m, v)
    <2>1. ShrunkTowardPrior(v, Cap(m, v)) = v
      BY <1>1 DEF ShrunkTowardPrior
    <2> QED  BY <2>1, NormalizedTyped DEF Sane
  <1>2. CASE v[Best(v)] > Cap(m, v)
    BY <1>2, CapIs, ShrunkTyped, NormalizedTyped DEF Sane
  <1> QED
    <2>1. v[Best(v)] \in Int /\ Cap(m, v) \in Int
      BY WeightsAre, CapIs
    <2> QED  BY <1>1, <1>2, <2>1

LEMMA DrawPriorIs == DrawPrior \in 0..1000
  <1> DEFINE w == Smaller(DrawSample, 150)
             a == w * DrawRate + (150 - w) * 270
  <1>1. w \in 0..150 /\ DrawRate \in 0..1000
    <2>1. DrawSample \in Nat /\ DrawRate \in 0..1000
      BY DecisionsAssumption, ZenonT(60)
    <2> QED  BY <2>1 DEF Smaller
  <1> HIDE DEF w
  <1>2. w * DrawRate \in Nat /\ w * DrawRate <= w * 1000
    BY <1>1
  <1>3. a \in Nat /\ a <= 1000 * 150
    <2> DEFINE x == w * DrawRate
    <2>1. x \in Nat /\ x <= w * 1000
      BY <1>2
    <2> HIDE DEF x
    <2>2. x + (150 - w) * 270 \in Nat /\ x + (150 - w) * 270 <= 1000 * 150
      BY <1>1, <2>1
    <2> QED  BY <2>2 DEF x
  <1> HIDE DEF a
  <1>4. Rounded(a, 150) \in Nat /\ Rounded(a, 150) <= 1000
    BY <1>3, RoundedIs
  <1> QED  BY <1>4, SMTT(30) DEF DrawPrior, a, w

\* The draw lifted and the sides cut, before they are normalized.
Kept(v, o) == LET lift == LiftedDraw(v) - v["draw"]
                  sides == v["home"] + v["away"]
              IN Rounded(v[o] * (sides - lift), sides)
Cut(v) == [home |-> Kept(v, "home"), draw |-> LiftedDraw(v), away |-> Kept(v, "away")]

LEMMA CalibratedIsNormalized == \A v : DrawCalibrated(v) = Normalized(Cut(v))
  BY DEF DrawCalibrated, Cut, Kept

\* A lift is for a draw some side is ahead of, and leaves the sides most of what they had.
LEMMA LiftIs ==
  ASSUME NEW v \in Weights, LiftedDraw(v) > v["draw"]
  PROVE  /\ LiftedDraw(v) \in Nat \ {0}
         /\ LiftedDraw(v) - v["draw"] <= 80
         /\ LiftedDraw(v) <= v[Best(v)] - 30
         /\ Best(v) \in {"home", "away"}
         /\ v["home"] + v["away"] \in Nat \ {0}
         /\ LiftedDraw(v) - v["draw"] <= v["home"] + v["away"] - 30
         /\ 100 * (LiftedDraw(v) - v["draw"]) <= 35 * (DrawPrior - v["draw"]) + 50
  <1> DEFINE d == v["draw"]
             gap == DrawPrior - d
             pull == Rounded(35 * gap, 100)
             b == v[Best(v)]
             L == LiftedDraw(v)
  <1>1. d \in Nat /\ b \in Nat /\ v["home"] \in Nat /\ v["away"] \in Nat /\ Best(v) \in Outcomes
    BY WeightsAre
  <1>2. gap \in Int
    BY <1>1, DrawPriorIs
  <1>3. pull \in Int /\ 100 * pull <= 35 * gap + 50
    <2>1. pull = (2 * (35 * gap) + 100) \div 200
      BY DEF Rounded
    <2> HIDE DEF gap, pull
    <2> QED  BY <1>2, <2>1
  <1>4. L = Min({d + pull, d + 80, b - 30})
    BY DEF LiftedDraw
  <1> HIDE DEF pull, gap, L
  <1>5. L \in Int /\ L <= d + pull /\ L <= d + 80 /\ L <= b - 30
    <2> DEFINE x == d + pull
               y == d + 80
               z == b - 30
    <2> HIDE DEF b, d
    <2>1. x \in Int /\ y \in Int /\ z \in Int /\ L = Min({x, y, z})
      BY <1>1, <1>3, <1>4
    <2> HIDE DEF x, y, z
    <2>2. L \in {x, y, z} /\ L <= x /\ L <= y /\ L <= z
      BY <2>1, MinOfThree
    <2>3. L \in Int
      BY <2>1, <2>2
    <2> QED  BY <2>2, <2>3 DEF x, y, z
  <1>6. L > d
    BY DEF L
  <1>7. Best(v) # "draw"
    <2> SUFFICES ASSUME Best(v) = "draw" PROVE FALSE
      OBVIOUS
    <2>1. b = d
      OBVIOUS
    <2> HIDE DEF b, d
    <2> QED  BY <1>1, <1>5, <1>6, <2>1
  <1>8. v["home"] + v["away"] >= b
    BY <1>1, <1>7 DEF Outcomes
  <1>9. 100 * (L - d) <= 35 * gap + 50
    <2> HIDE DEF b, d
    <2> QED  BY <1>1, <1>2, <1>3, <1>5
  <1> HIDE DEF b, d
  <1>10. L \in Nat \ {0} /\ L - d <= 80 /\ L <= b - 30 /\ v["home"] + v["away"] \in Nat \ {0}
         /\ L - d <= v["home"] + v["away"] - 30
    BY <1>1, <1>5, <1>6, <1>8
  <1>11. Best(v) \in {"home", "away"}
    BY <1>1, <1>7 DEF Outcomes
  <1> QED  BY <1>9, <1>10, <1>11 DEF L, d, b, gap

LEMMA CutTyped ==
  ASSUME NEW v \in Weights, LiftedDraw(v) > v["draw"]
  PROVE  Cut(v) \in Weights
  <1> DEFINE d == v["draw"]
             L == LiftedDraw(v)
             sides == v["home"] + v["away"]
             left == sides - (L - d)
  <1>1. d \in Nat /\ v["home"] \in Nat /\ v["away"] \in Nat
    BY WeightsAre
  <1>2. L \in Nat \ {0} /\ sides \in Nat \ {0} /\ L - d <= sides - 30 /\ L > d
    <2>1. /\ LiftedDraw(v) \in Nat \ {0} /\ v["home"] + v["away"] \in Nat \ {0}
          /\ LiftedDraw(v) - v["draw"] <= v["home"] + v["away"] - 30
      BY LiftIs
    <2>2. L > d
      OBVIOUS
    <2> QED  BY <1>1, <2>1, <2>2
  <1> HIDE DEF d, L, sides
  <1>3. left \in Nat
    BY <1>1, <1>2 DEF d
  <1>4. ASSUME NEW o \in {"home", "away"} PROVE Kept(v, o) \in Nat
    <2> DEFINE a == v[o] * left
    <2>1. v[o] \in Nat
      BY <1>1
    <2>2. Kept(v, o) = Rounded(a, sides)
      BY DEF Kept, L, d, sides
    <2> HIDE DEF left
    <2>3. a \in Nat
      BY <1>3, <2>1
    <2> HIDE DEF a
    <2> QED  BY <1>2, <2>2, <2>3, RoundedIs
  <1>5. Cut(v)["home"] \in Nat /\ Cut(v)["away"] \in Nat /\ Cut(v)["draw"] = L
        /\ DOMAIN Cut(v) = Outcomes
    BY <1>4 DEF Cut, L, Outcomes
  <1>6. Cut(v) \in [Outcomes -> Nat]
    <2>1. Cut(v) = [o \in Outcomes |-> Cut(v)[o]]
      BY <1>5 DEF Cut
    <2>2. \A o \in Outcomes : Cut(v)[o] \in Nat
      BY <1>2, <1>5 DEF Outcomes
    <2> QED  BY <2>1, <2>2
  <1>7. "draw" \in Outcomes /\ Cut(v)["draw"] > 0
    BY <1>2, <1>5 DEF Outcomes
  <1> QED  BY <1>6, <1>7, IsWeights

\* What a forecast decides with is a vector, none of its shares more than a thousand.
Decided == {v \in Weights : \A o \in Outcomes : v[o] <= 1000}

LEMMA ForecastDecides ==
  ASSUME NEW m \in MatchData
  PROVE  /\ Forecast(m).decision \in Decided
         /\ Forecast(m).raw = Modelled(m)
         /\ Forecast(m).signal = RecommendedOutcome(Modelled(m))
         /\ Forecast(m).calibrated \in BOOLEAN
         /\ Forecast(m).calibrated => LiftedDraw(Sane(m, Modelled(m))) > Sane(m, Modelled(m))["draw"]
                                      /\ DrawPrior - Sane(m, Modelled(m))["draw"] >= 60
         /\ Forecast(m).decision = (IF Forecast(m).calibrated THEN DrawCalibrated(Sane(m, Modelled(m)))
                                    ELSE Sane(m, Modelled(m)))
  <1> DEFINE v == Modelled(m)
             sane == Sane(m, v)
             f == Forecast(m)
  <1>1. f.raw = v /\ f.signal = RecommendedOutcome(v)
    BY DEF Forecast
  <1>2. /\ f.calibrated = Calibrates(sane, ConfidenceBand(m, v), EvidenceLevel(m), DegradedStatus(m, v))
        /\ f.decision = (IF f.calibrated THEN DrawCalibrated(sane) ELSE sane)
    BY DEF Forecast
  <1>3. f.calibrated \in BOOLEAN
        /\ (f.calibrated => LiftedDraw(sane) > sane["draw"] /\ DrawPrior - sane["draw"] >= 60)
    BY <1>2 DEF Calibrates
  <1>4. v \in Weights
    BY ModelledTyped
  <1> HIDE DEF v, f
  <1>5. ShrunkTowardPrior(v, Cap(m, v)) \in Weights /\ sane = Normalized(ShrunkTowardPrior(v, Cap(m, v)))
    BY <1>4, SaneTyped DEF Sane
  <1>6. sane \in Weights /\ \A o \in Outcomes : sane[o] <= 1000
    <2> HIDE DEF sane
    <2> QED  BY <1>5, NormalizedTyped
  <1> HIDE DEF sane
  <1>7. f.calibrated => DrawCalibrated(sane) \in Weights /\ \A o \in Outcomes : DrawCalibrated(sane)[o] <= 1000
    BY <1>3, <1>6, CutTyped, CalibratedIsNormalized, NormalizedTyped
  <1>8. f.decision \in Decided
    <2>1. CASE f.calibrated
      BY <1>2, <1>7, <2>1 DEF Decided
    <2>2. CASE ~f.calibrated
      BY <1>2, <1>6, <2>2 DEF Decided
    <2> QED  BY <2>1, <2>2
  <1> QED  BY <1>1, <1>2, <1>3, <1>8 DEF f, v, sane

------------------------------------------------------------------------------
(* Least numbers, and left folds as functions of a prefix.                 *)

(* Any numbers have a least one.                                           *)
LEMMA LeastOfNumbers ==
  ASSUME NEW T \in SUBSET Nat, T # {}
  PROVE  \E n \in T : \A m \in T : n <= m
  <1>1. PICK n \in T : \A m \in T : ~(<<m, n>> \in OpToRel(<, Nat))
    BY WFMin, NatLessThanWellFounded, Zenon
  <1>2. \A m \in T : ~(m < n)
    BY <1>1 DEF OpToRel
  <1> QED  BY <1>2

(* Anything that is counted has a member that counts least.                *)
LEMMA LeastByRank ==
  ASSUME NEW S, S # {}, NEW rank, \A x \in S : rank[x] \in Nat
  PROVE  \E x \in S : \A y \in S : rank[x] <= rank[y]
  <1> DEFINE T == {rank[x] : x \in S}
  <1>1. PICK n \in T : \A m \in T : n <= m
    <2>1. T \in SUBSET Nat /\ T # {}
      OBVIOUS
    <2> HIDE DEF T
    <2> QED  BY <2>1, LeastOfNumbers
  <1>2. PICK x \in S : n = rank[x]
    BY <1>1
  <1> QED  BY <1>1, <1>2

\* The recursion of a fold: what pick leaves last is applied last.
Folds(D, F, base, pick, g) ==
  \A s \in SUBSET D :
    g[s] = IF s = {} THEN base ELSE F[pick[s]][g[s \ {pick[s]}]]

(* Some facts about the sizes of subsets of a finite set.                  *)
LEMMA Sizes ==
  ASSUME NEW D, IsFiniteSet(D), NEW s \in SUBSET D
  PROVE  /\ IsFiniteSet(s) /\ Cardinality(s) \in Nat /\ Cardinality(s) <= Cardinality(D)
         /\ Cardinality(s) = 0 <=> s = {}
         /\ \A x \in s : Cardinality(s \ {x}) = Cardinality(s) - 1
  <1>1. IsFiniteSet(s) /\ Cardinality(s) <= Cardinality(D)
    BY FS_Subset
  <1>2. Cardinality(s) \in Nat /\ (Cardinality(s) = 0 <=> s = {})
    BY <1>1, FS_CardinalityType, FS_EmptySet
  <1>3. \A x \in s : Cardinality(s \ {x}) = Cardinality(s) - 1
    BY <1>1, FS_RemoveElement
  <1> QED  BY <1>1, <1>2, <1>3

(* A fold of functions on T has a solution in T, built one size at a time. *)
LEMMA FoldExists ==
  ASSUME NEW T, NEW D, IsFiniteSet(D), NEW base \in T, NEW F \in [D -> [T -> T]],
         NEW pick, \A s \in SUBSET D : s # {} => pick[s] \in s
  PROVE  \E g \in [SUBSET D -> T] : Folds(D, F, base, pick, g)
  <1> DEFINE Small(k) == {s \in SUBSET D : Cardinality(s) <= k}
             step(g, s) == IF s = {} THEN base ELSE F[pick[s]][g[s \ {pick[s]}]]
             Solved(k) == \E g \in [Small(k) -> T] : \A s \in Small(k) : g[s] = step(g, s)
             Unsolved == {k \in Nat : ~Solved(k)}
  <1>1. Solved(0)
    <2>1. \A s \in Small(0) : s = {}
      BY Sizes
    <2>2. [s \in Small(0) |-> base] \in [Small(0) -> T]
      OBVIOUS
    <2> QED  BY <2>1, <2>2
  <1>2. ASSUME NEW k \in Nat, Solved(k) PROVE Solved(k + 1)
    <2>1. PICK g \in [Small(k) -> T] : \A s \in Small(k) : g[s] = step(g, s)
      BY <1>2
    <2> DEFINE h == [s \in Small(k + 1) |-> step(g, s)]
    <2>2. \A s \in Small(k + 1) : s # {} => pick[s] \in D /\ s \ {pick[s]} \in Small(k)
      <3> SUFFICES ASSUME NEW s \in Small(k + 1), s # {}
                   PROVE  pick[s] \in D /\ s \ {pick[s]} \in Small(k)
        OBVIOUS
      <3>1. pick[s] \in s /\ Cardinality(s) <= k + 1 /\ s \in SUBSET D
        OBVIOUS
      <3>2. Cardinality(s \ {pick[s]}) = Cardinality(s) - 1 /\ Cardinality(s) \in Nat
        BY <3>1, Sizes
      <3> QED  BY <3>1, <3>2
    <2>3. \A s \in Small(k) : s \in Small(k + 1)
      BY Sizes
    <2>4. \A s \in Small(k) : h[s] = g[s]
      BY <2>1, <2>3
    <2>5. \A s \in Small(k + 1) : step(g, s) \in T /\ step(h, s) = step(g, s)
      <3> SUFFICES ASSUME NEW s \in Small(k + 1)
                   PROVE  step(g, s) \in T /\ step(h, s) = step(g, s)
        OBVIOUS
      <3>1. CASE s = {}
        BY <3>1
      <3>2. CASE s # {}
        <4> DEFINE rest == s \ {pick[s]}
        <4>1. pick[s] \in D /\ rest \in Small(k)
          BY <2>2, <3>2
        <4>2. g[rest] \in T /\ h[rest] = g[rest]
          <5> HIDE DEF rest, h, Small
          <5> QED  BY <2>4, <4>1, ZenonT(60)
        <4>3. step(g, s) = F[pick[s]][g[rest]] /\ step(h, s) = F[pick[s]][h[rest]]
          BY <3>2, ZenonT(60)
        <4> HIDE DEF rest, h, step
        <4> QED  BY <4>1, <4>2, <4>3
      <3> QED  BY <3>1, <3>2, ZenonT(60)
    <2>6. h \in [Small(k + 1) -> T]
      BY <2>5
    <2>7. \A s \in Small(k + 1) : h[s] = step(h, s)
      BY <2>5
    <2> HIDE DEF h, Small, step
    <2> QED  BY <2>6, <2>7
  <1>3. Unsolved = {}
    <2> HIDE DEF Solved
    <2> SUFFICES ASSUME Unsolved # {} PROVE FALSE
      OBVIOUS
    <2>1. PICK k \in Unsolved : \A m \in Unsolved : k <= m
      BY LeastOfNumbers
    <2>2. k \in Nat /\ ~Solved(k) /\ k # 0
      BY <1>1, <2>1
    <2>3. k - 1 \in Nat /\ k - 1 \notin Unsolved
      BY <2>1, <2>2
    <2>4. Solved(k - 1)
      BY <2>3
    <2>5. Solved((k - 1) + 1)
      BY <1>2, <2>3, <2>4
    <2> QED  BY <2>2, <2>5
  <1>4. Small(Cardinality(D)) = SUBSET D
    BY Sizes
  <1>5. Solved(Cardinality(D))
    <2> HIDE DEF Solved
    <2>1. Cardinality(D) \in Nat
      BY FS_CardinalityType
    <2> QED  BY <1>3, <2>1
  <1>6. PICK g \in [Small(Cardinality(D)) -> T] : \A s \in Small(Cardinality(D)) : g[s] = step(g, s)
    BY <1>5
  <1> HIDE DEF Small
  <1> QED  BY <1>4, <1>6 DEF Folds

(* A nonempty set of positions has a last one.                             *)
LEMMA MaxIsMember ==
  ASSUME NEW n \in Nat, NEW s \in SUBSET (1..n), s # {}
  PROVE  Max(s) \in s
  <1> DEFINE behind == [i \in s |-> n - i]
  <1>1. \A i \in s : behind[i] \in Nat
    OBVIOUS
  <1>2. PICK x \in s : \A y \in s : behind[x] <= behind[y]
    <2> HIDE DEF behind
    <2> QED  BY <1>1, LeastByRank
  <1>3. \A y \in s : x >= y
    BY <1>2
  <1> QED  BY <1>3 DEF Max

\* The prefixes of a sequence of n, as the sets a fold runs over.
LEMMA PrefixIs ==
  ASSUME NEW n \in Nat, NEW k \in 1..n
  PROVE  /\ 1..k \in SUBSET (1..n) /\ 1..k # {} /\ 1..(k - 1) \in SUBSET (1..n)
         /\ Max(1..k) = k /\ (1..k) \ {k} = 1..(k - 1)
  <1>1. k \in 1..k /\ \A j \in 1..k : k >= j
    OBVIOUS
  <1>2. Max(1..k) \in 1..k /\ \A j \in 1..k : Max(1..k) >= j
    <2> DEFINE s == 1..k
    <2> HIDE DEF s
    <2>1. \E x \in s : \A y \in s : x >= y
      BY <1>1 DEF s
    <2>2. Max(s) \in s /\ \A y \in s : Max(s) >= y
      BY <2>1 DEF Max
    <2> QED  BY <2>2 DEF s
  <1>3. Max(1..k) = k
    <2> DEFINE top == Max(1..k)
    <2>1. top \in 1..k /\ top >= k
      BY <1>1, <1>2
    <2> HIDE DEF top
    <2>2. top = k
      BY <2>1
    <2> QED  BY <2>2 DEF top
  <1> QED  BY <1>3

\* g folds F over the sets of 1..n from the last down; iter does wherever it is of the type.
Solution(n, T, base, F, g) ==
  /\ g \in [SUBSET (1..n) -> T]
  /\ \A s \in SUBSET (1..n) :
       /\ s = {} => g[s] = base
       /\ s # {} => Max(s) \in s /\ g[s] = F[Max(s)][g[s \ {Max(s)}]]
Iterates(n, T, base, F, iter) ==
  \A s \in SUBSET (1..n) :
    /\ s = {} => iter[s] = base
    /\ s # {} /\ iter[s \ {Max(s)}] \in T => iter[s] = F[Max(s)][iter[s \ {Max(s)}]]

\* h is the loop that applies F one position after the other.
Loops(n, T, base, F, h) ==
  /\ h \in [0..n -> T]
  /\ h[0] = base
  /\ \A k \in 1..n : h[k] = F[k][h[k - 1]]

(* A left fold has a solution: each set of positions follows from the one  *)
(* without its last.                                                       *)
LEMMA FoldSolves ==
  ASSUME NEW n \in Nat, NEW T, NEW base \in T, NEW F \in [1..n -> [T -> T]]
  PROVE  \E g : Solution(n, T, base, F, g)
  <1> DEFINE D == 1..n
             pick == [s \in SUBSET D |-> Max(s)]
  <1>1. IsFiniteSet(D)
    BY FS_Interval
  <1>2. \A s \in SUBSET D : s # {} => pick[s] \in s /\ pick[s] = Max(s)
    BY MaxIsMember
  <1> HIDE DEF D, pick
  <1>3. PICK g \in [SUBSET D -> T] : Folds(D, F, base, pick, g)
    <2>1. F \in [D -> [T -> T]]
      BY DEF D
    <2> QED  BY <1>1, <1>2, <2>1, FoldExists
  <1>4. \A s \in SUBSET D :
           /\ s = {} => g[s] = base
           /\ s # {} => Max(s) \in s /\ g[s] = F[Max(s)][g[s \ {Max(s)}]]
    BY <1>2, <1>3 DEF Folds
  <1> QED  BY <1>3, <1>4 DEF D, Solution

(* Its values on prefixes are those of a loop.                             *)
LEMMA FoldByPrefix ==
  ASSUME NEW n \in Nat, NEW T, NEW base \in T, NEW F \in [1..n -> [T -> T]], NEW iter,
         Iterates(n, T, base, F, iter)
  PROVE  \E h : Loops(n, T, base, F, h) /\ iter[1..n] = h[n]
  <1> DEFINE h == [k \in 0..n |-> iter[1..k]]
             Bad == {k \in Nat : k <= n /\ iter[1..k] \notin T}
  <1>1. iter[1..0] = base
    <2>1. 1..0 = {}
      OBVIOUS
    <2> QED  BY <2>1 DEF Iterates
  <1>2. \A k \in 1..n : iter[1..(k - 1)] \in T => iter[1..k] = F[k][iter[1..(k - 1)]] /\ iter[1..k] \in T
    <2> SUFFICES ASSUME NEW k \in 1..n, iter[1..(k - 1)] \in T
                 PROVE  iter[1..k] = F[k][iter[1..(k - 1)]] /\ iter[1..k] \in T
      OBVIOUS
    <2>1. 1..k \in SUBSET (1..n) /\ 1..k # {} /\ Max(1..k) = k /\ (1..k) \ {k} = 1..(k - 1)
      BY PrefixIs
    <2>2. iter[1..k] = F[k][iter[1..(k - 1)]]
      <3> DEFINE s == 1..k
                 r == 1..(k - 1)
      <3>1. s \in SUBSET (1..n) /\ s # {} /\ Max(s) = k /\ s \ {k} = r /\ iter[r] \in T
        BY <2>1
      <3> HIDE DEF s, r
      <3>2. iter[s] = F[k][iter[r]]
        BY <3>1 DEF Iterates
      <3> QED  BY <3>2 DEF s, r
    <2> QED  BY <2>2
  <1>3. Bad = {}
    <2> SUFFICES ASSUME Bad # {} PROVE FALSE
      OBVIOUS
    <2>1. PICK k \in Bad : \A m \in Bad : k <= m
      BY LeastOfNumbers
    <2>2. k \in Nat /\ k <= n /\ iter[1..k] \notin T
      OBVIOUS
    <2>3. k # 0
      BY <1>1, <2>2
    <2>4. k \in 1..n /\ k - 1 \in Nat /\ k - 1 <= n /\ k - 1 \notin Bad
      BY <2>1, <2>2, <2>3
    <2>5. iter[1..(k - 1)] \in T
      BY <2>4
    <2> QED  BY <1>2, <2>2, <2>4, <2>5
  <1>4. \A k \in 0..n : iter[1..k] \in T
    BY <1>3
  <1>5. h \in [0..n -> T]
    BY <1>4
  <1>6. h[0] = base /\ iter[1..n] = h[n]
    BY <1>1
  <1>7. \A k \in 1..n : h[k] = F[k][h[k - 1]]
    <2> SUFFICES ASSUME NEW k \in 1..n PROVE h[k] = F[k][h[k - 1]]
      OBVIOUS
    <2>1. k \in 0..n /\ k - 1 \in 0..n
      OBVIOUS
    <2>2. h[k] = iter[1..k] /\ h[k - 1] = iter[1..(k - 1)]
      BY <2>1
    <2> HIDE DEF h
    <2> QED  BY <1>2, <1>4, <2>1, <2>2
  <1> HIDE DEF h
  <1> QED  BY <1>5, <1>6, <1>7 DEF Loops

------------------------------------------------------------------------------
(* The optimizer's table.                                                  *)

\* The distributions a table holds: not empty, and going clean has a weight.
Hits == {h \in Seq(Int) : h # <<>> /\ h[Len(h)] \in Nat}
States == [hits: Hits, ranks: Seq(1..3)] \cup {Unreached}

LEMMA HitIs ==
  ASSUME NEW v \in Decided, NEW rank \in 1..3
  PROVE  Hit(v, rank) \in Nat
  <1>1. v \in Weights
    BY DEF Decided
  <1>2. v[Best(v)] \in Nat /\ v[Second(v)] \in Nat
    BY <1>1, WeightsAre
  <1> QED  BY <1>2 DEF Hit, Smaller

\* One more match: the chance of going clean is multiplied.
LEMMA ExtendedIs ==
  ASSUME NEW h \in Hits, NEW p \in Nat
  PROVE  /\ Extended(h, p) \in Hits
         /\ Clean(h) \in Nat /\ Clean(Extended(h, p)) = Clean(h) * p
  <1> DEFINE n == Len(h)
             shifted == [k \in DOMAIN h |-> h[k] * (1000 - p) + (IF k > 1 THEN h[k - 1] * p ELSE 0)]
             last == h[n] * p
  <1>1. h \in Seq(Int) /\ n \in Nat \ {0} /\ DOMAIN h = 1..n /\ h[n] \in Nat /\ h # <<>>
    BY DEF Hits
  <1>2. last \in Nat
    BY <1>1
  <1>3. shifted \in Seq(Int) /\ Len(shifted) = n
    <2>1. \A k \in 1..n : h[k] \in Int /\ (k > 1 => h[k - 1] \in Int)
      BY <1>1
    <2>2. \A k \in 1..n : h[k] * (1000 - p) + (IF k > 1 THEN h[k - 1] * p ELSE 0) \in Int
      BY <2>1
    <2>3. shifted \in [1..n -> Int]
      BY <1>1, <2>2, SMTT(30)
    <2> HIDE DEF shifted
    <2> QED  BY <1>1, <2>3
  <1>4. Extended(h, p) = Append(shifted, last)
    BY DEF Extended
  <1> HIDE DEF shifted, last
  <1>5. /\ Extended(h, p) \in Seq(Int) /\ Len(Extended(h, p)) = n + 1
        /\ Extended(h, p)[n + 1] = last
    BY <1>1, <1>2, <1>3, <1>4
  <1>6. Extended(h, p) # <<>>
    BY <1>1, <1>5
  <1>7. Clean(h) = h[n] /\ Clean(Extended(h, p)) = last
    BY <1>1, <1>5, <1>6 DEF Clean
  <1> QED  BY <1>1, <1>2, <1>5, <1>6, <1>7 DEF Hits, last

\* The first of the best is one of them, and none is better.
LEMMA FirstBestIs ==
  ASSUME NEW n \in Nat \ {0}, NEW states, DOMAIN states = 1..n,
         \A i \in 1..n : Clean(states[i].hits) \in Int
  PROVE  \E i \in 1..n : /\ FirstBest(states, Clean) = states[i]
                         /\ \A j \in 1..n : Clean(states[j].hits) <= Clean(states[i].hits)
  <1> DEFINE w == [i \in 1..n |-> Clean(states[i].hits)]
             First(i) == \A j \in 1..n : w[j] < w[i] \/ (w[j] = w[i] /\ i <= j)
  <1>1. \A i \in 1..n : w[i] \in Int /\ w[i] = Clean(states[i].hits)
    OBVIOUS
  <1>2. \E i \in 1..n : First(i)
    <2> HIDE DEF w
    <2> DEFINE Top == {i \in 1..n : \A j \in 1..n : w[j] <= w[i]}
    <2>1. Top # {}
      <3> DEFINE Least(k) == \E i \in 1..k : \A j \in 1..k : w[j] <= w[i]
                 Bad == {k \in Nat : k # 0 /\ k <= n /\ ~Least(k)}
      <3>1. Bad = {}
        <4> SUFFICES ASSUME Bad # {} PROVE FALSE
          OBVIOUS
        <4>1. PICK k \in Bad : \A m \in Bad : k <= m
          BY LeastOfNumbers
        <4>2. k \in Nat /\ k # 0 /\ k <= n /\ ~Least(k)
          OBVIOUS
        <4>3. k # 1
          <5>1. Least(1)
            BY <1>1
          <5> QED  BY <4>2, <5>1
        <4>4. Least(k - 1)
          <5> HIDE DEF Least
          <5> QED  BY <4>1, <4>2, <4>3
        <4>5. PICK i \in 1..(k - 1) : \A j \in 1..(k - 1) : w[j] <= w[i]
          BY <4>4
        <4>6. w[i] \in Int /\ w[k] \in Int /\ \A j \in 1..k : w[j] \in Int
          BY <1>1, <4>2
        <4>7. CASE w[k] <= w[i]
          <5>1. \A j \in 1..k : w[j] <= w[i]
            <6> HIDE DEF Least, Bad
            <6> SUFFICES ASSUME NEW j \in 1..k PROVE w[j] <= w[i]
              OBVIOUS
            <6>1. j = k \/ j \in 1..(k - 1)
              BY <4>2
            <6>2. w[j] \in Int
              BY <4>6
            <6> QED  BY <4>5, <4>6, <4>7, <6>1, <6>2
          <5>2. i \in 1..k
            BY <4>2, <4>5
          <5> QED  BY <4>2, <5>1, <5>2
        <4>8. CASE ~(w[k] <= w[i])
          <5>1. \A j \in 1..k : w[j] <= w[k]
            <6> HIDE DEF Least, Bad
            <6> SUFFICES ASSUME NEW j \in 1..k PROVE w[j] <= w[k]
              OBVIOUS
            <6>1. j = k \/ j \in 1..(k - 1)
              BY <4>2
            <6>2. w[j] \in Int
              BY <4>6
            <6> QED  BY <4>5, <4>6, <4>8, <6>1, <6>2
          <5>2. k \in 1..k
            BY <4>2
          <5> QED  BY <4>2, <5>1, <5>2
        <4> QED  BY <4>7, <4>8
      <3>2. Least(n)
        <4> HIDE DEF Least
        <4> QED  BY <3>1
      <3> QED  BY <3>2
    <2>2. Top \in SUBSET Nat
      OBVIOUS
    <2>3. PICK i \in Top : \A m \in Top : i <= m
      <3> HIDE DEF Top
      <3> QED  BY <2>1, <2>2, LeastOfNumbers
    <2>4. \A j \in 1..n : w[j] < w[i] \/ (w[j] = w[i] /\ i <= j)
      <3> SUFFICES ASSUME NEW j \in 1..n, ~(w[j] < w[i]) PROVE w[j] = w[i] /\ i <= j
        OBVIOUS
      <3>1. i \in 1..n /\ w[i] \in Int /\ w[j] \in Int /\ w[j] <= w[i]
        BY <1>1
      <3>2. w[j] = w[i]
        BY <3>1
      <3>3. j \in Top
        BY <3>2
      <3> QED  BY <2>3, <3>2, <3>3
    <2> QED  BY <2>3, <2>4
  <1> DEFINE best == CHOOSE i \in 1..n : First(i)
  <1>3. best \in 1..n /\ First(best)
    <2> HIDE DEF First
    <2> QED  BY <1>2
  <1>4. FirstBest(states, Clean) = states[best]
    <2> DEFINE Ahead(i) == \A j \in DOMAIN states :
                             \/ Clean(states[j].hits) < Clean(states[i].hits)
                             \/ Clean(states[j].hits) = Clean(states[i].hits) /\ i <= j
    <2>1. \A i \in 1..n : First(i) <=> Ahead(i)
      BY <1>1
    <2> HIDE DEF First
    <2>2. best = CHOOSE i \in DOMAIN states : Ahead(i)
      <3> HIDE DEF Ahead
      <3> QED  BY <2>1
    <2> HIDE DEF best
    <2> QED  BY <2>2 DEF FirstBest
  <1> HIDE DEF best
  <1>5. \A j \in 1..n : Clean(states[j].hits) <= Clean(states[best].hits)
    BY <1>1, <1>3
  <1> QED  BY <1>3, <1>4, <1>5

\* A state that is reached and extended.
LEMMA StepIs ==
  ASSUME NEW state \in States, NEW v \in Decided, NEW rank \in 1..3
  PROVE  /\ Clean(state.hits) \in Int
         /\ state = Unreached => Step(state, v, rank) = Unreached /\ Clean(state.hits) = -1
         /\ state # Unreached =>
              /\ state.hits \in Hits /\ state.ranks \in Seq(1..3) /\ Clean(state.hits) \in Nat
              /\ Step(state, v, rank) \in [hits: Hits, ranks: Seq(1..3)]
              /\ Step(state, v, rank).hits = Extended(state.hits, Hit(v, rank))
              /\ Step(state, v, rank).ranks = Append(state.ranks, rank)
              /\ Clean(Step(state, v, rank).hits) = Clean(state.hits) * Hit(v, rank)
         /\ Step(state, v, rank) \in States
  <1>1. CASE state = Unreached
    <2>1. state.hits = <<>>
      BY <1>1 DEF Unreached
    <2> QED  BY <1>1, <2>1 DEF Step, Clean, States
  <1>2. CASE state # Unreached
    <2>1. state \in [hits: Hits, ranks: Seq(1..3)]
      BY <1>2 DEF States
    <2>2. state.hits \in Hits /\ state.ranks \in Seq(1..3)
      BY <2>1
    <2>3. Step(state, v, rank) = [hits |-> Extended(state.hits, Hit(v, rank)),
                                  ranks |-> Append(state.ranks, rank)]
      BY <1>2 DEF Step
    <2>4. /\ Extended(state.hits, Hit(v, rank)) \in Hits /\ Clean(state.hits) \in Nat
          /\ Clean(Extended(state.hits, Hit(v, rank))) = Clean(state.hits) * Hit(v, rank)
      BY <2>2, HitIs, ExtendedIs
    <2>5. Append(state.ranks, rank) \in Seq(1..3)
      BY <2>2
    <2>6. Step(state, v, rank) \in [hits: Hits, ranks: Seq(1..3)]
      BY <2>3, <2>4, <2>5
    <2>7. Step(state, v, rank).hits = Extended(state.hits, Hit(v, rank))
          /\ Step(state, v, rank).ranks = Append(state.ranks, rank)
      BY <2>3
    <2> QED  BY <1>2, <2>2, <2>4, <2>6, <2>7 DEF States
  <1> QED  BY <1>1, <1>2

LEMMA WorthIs ==
  /\ \A h \in Hits : Clean(h) \in Nat
  /\ \A state \in States : Clean(state.hits) \in Int /\ (state.hits = <<>> \/ state.hits \in Hits)
  <1>1. \A h \in Hits : Clean(h) \in Nat
    BY DEF Hits, Clean
  <1>2. ASSUME NEW state \in States
        PROVE  Clean(state.hits) \in Int /\ (state.hits = <<>> \/ state.hits \in Hits)
    <2>1. state.hits = <<>> \/ state.hits \in Hits
      BY DEF States, Unreached
    <2>2. Clean(<<>>) = -1
      BY DEF Clean
    <2> QED  BY <1>1, <2>1, <2>2
  <1> QED  BY <1>1, <1>2

\* What holds at nought and is handed on holds up to n.
LEMMA UpTo ==
  ASSUME NEW n \in Nat, NEW S, 0 \in S, \A k \in 1..n : k - 1 \in S => k \in S
  PROVE  0..n \subseteq S
  <1> DEFINE Bad == {k \in Nat : k <= n /\ k \notin S}
  <1> SUFFICES Bad = {}
    OBVIOUS
  <1> SUFFICES ASSUME Bad # {} PROVE FALSE
    OBVIOUS
  <1>1. PICK k \in Bad : \A m \in Bad : k <= m
    BY LeastOfNumbers
  <1>2. k \in 1..n /\ k - 1 \in Nat /\ k - 1 <= n /\ k - 1 \notin Bad /\ k \notin S
    BY <1>1
  <1> QED  BY <1>2

Budgets(d, t) == (0..d) \X (0..t)
Border(d, t) == ({-1} \X (0..t)) \cup ((0..d) \X {-1})
Tables(d, t) == {tab \in [Budgets(d, t) \cup Border(d, t) -> States] : \A b \in Border(d, t) : tab[b] = Unreached}

\* The budget before a match is given a rank.
Before(b, rank) ==
  IF rank = 2 THEN <<b[1] - 1, b[2]>> ELSE IF rank = 3 THEN <<b[1], b[2] - 1>> ELSE b

\* The table before any match, and after one more.
Start(d, t) ==
  Bordered([b \in Budgets(d, t) |-> IF b = <<0, 0>> THEN [hits |-> <<1>>, ranks |-> <<>>] ELSE Unreached], d, t)
Matched(table, v, d, t) ==
  Bordered([b \in Budgets(d, t) |-> FirstBest(<<Step(table[<<b[1] - 1, b[2]>>], v, 2),
                                                Step(table[<<b[1], b[2] - 1>>], v, 3),
                                                Step(table[b], v, 1)>>, Clean)], d, t)

LEMMA BorderedIs ==
  ASSUME NEW d \in Nat, NEW t \in Nat, NEW f \in [Budgets(d, t) -> States]
  PROVE  /\ Bordered(f, d, t) \in Tables(d, t)
         /\ \A b \in Budgets(d, t) : Bordered(f, d, t)[b] = f[b]
  <1>1. Bordered(f, d, t) = [b \in Budgets(d, t) \cup Border(d, t) |->
                               IF b \in Budgets(d, t) THEN f[b] ELSE Unreached]
    <2>1. DOMAIN f = Budgets(d, t)
      OBVIOUS
    <2>2. DOMAIN f \cup ({-1} \X (0..t)) \cup ((0..d) \X {-1}) = Budgets(d, t) \cup Border(d, t)
      BY <2>1 DEF Border
    <2> QED  BY <2>1, <2>2 DEF Bordered
  <1>2. \A b \in Border(d, t) : b \notin Budgets(d, t)
    BY DEF Border, Budgets
  <1>3. Unreached \in States
    BY DEF States
  <1> QED  BY <1>1, <1>2, <1>3 DEF Tables

LEMMA BeforeIs ==
  ASSUME NEW d \in Nat, NEW t \in Nat, NEW b \in Budgets(d, t), NEW rank \in 1..3
  PROVE  /\ Before(b, rank) \in Budgets(d, t) \cup Border(d, t)
         /\ Before(b, rank) = <<Before(b, rank)[1], Before(b, rank)[2]>>
         /\ b = <<b[1], b[2]>> /\ b[1] \in 0..d /\ b[2] \in 0..t
         /\ Before(b, rank)[1] = (IF rank = 2 THEN b[1] - 1 ELSE b[1])
         /\ Before(b, rank)[2] = (IF rank = 3 THEN b[2] - 1 ELSE b[2])
  <1>1. b = <<b[1], b[2]>> /\ b[1] \in 0..d /\ b[2] \in 0..t
    BY DEF Budgets
  <1>2. CASE rank = 2
    BY <1>1, <1>2 DEF Before, Budgets, Border
  <1>3. CASE rank = 3
    BY <1>1, <1>3 DEF Before, Budgets, Border
  <1>4. CASE rank = 1
    BY <1>1, <1>4 DEF Before, Budgets, Border
  <1> QED  BY <1>2, <1>3, <1>4

\* After one more match each budget holds the best that its three ranks make of what was held.
LEMMA MatchedIs ==
  ASSUME NEW d \in Nat, NEW t \in Nat, NEW table \in Tables(d, t), NEW v \in Decided
  PROVE  /\ Matched(table, v, d, t) \in Tables(d, t)
         /\ \A b \in Budgets(d, t) :
              /\ \E rank \in 1..3 : Matched(table, v, d, t)[b] = Step(table[Before(b, rank)], v, rank)
              /\ \A rank \in 1..3 : Clean(Step(table[Before(b, rank)], v, rank).hits)
                                      <= Clean(Matched(table, v, d, t)[b].hits)
  <1> DEFINE three(b) == <<Step(table[<<b[1] - 1, b[2]>>], v, 2),
                           Step(table[<<b[1], b[2] - 1>>], v, 3),
                           Step(table[b], v, 1)>>
             f == [b \in Budgets(d, t) |-> FirstBest(three(b), Clean)]
  <1>1. ASSUME NEW b \in Budgets(d, t)
        PROVE  /\ \E rank \in 1..3 : FirstBest(three(b), Clean) = Step(table[Before(b, rank)], v, rank)
               /\ \A rank \in 1..3 : Clean(Step(table[Before(b, rank)], v, rank).hits)
                                       <= Clean(FirstBest(three(b), Clean).hits)
               /\ FirstBest(three(b), Clean) \in States
    <2> DEFINE s == three(b)
               option(rank) == Step(table[Before(b, rank)], v, rank)
    <2>1. \A rank \in 1..3 : option(rank) \in States /\ Clean(option(rank).hits) \in Int
      <3> SUFFICES ASSUME NEW rank \in 1..3
                   PROVE  option(rank) \in States /\ Clean(option(rank).hits) \in Int
        OBVIOUS
      <3>1. table[Before(b, rank)] \in States
        BY BeforeIs DEF Tables
      <3>2. option(rank) \in States
        BY <3>1, StepIs
      <3> HIDE DEF option
      <3> QED  BY <3>2, StepIs
    <2>2. Before(b, 2) = <<b[1] - 1, b[2]>> /\ Before(b, 3) = <<b[1], b[2] - 1>> /\ Before(b, 1) = b
      BY DEF Before
    <2>3. s[1] = option(2) /\ s[2] = option(3) /\ s[3] = option(1) /\ DOMAIN s = 1..3
      BY <2>2
    <2> HIDE DEF s, option
    <2>4. \A i \in 1..3 : Clean(s[i].hits) \in Int
      BY <2>1, <2>3
    <2>5. PICK i \in 1..3 : /\ FirstBest(s, Clean) = s[i]
                            /\ \A j \in 1..3 : Clean(s[j].hits) <= Clean(s[i].hits)
      <3> DEFINE n == 3
      <3>1. n \in Nat \ {0} /\ DOMAIN s = 1..n /\ \A i \in 1..n : Clean(s[i].hits) \in Int
        BY <2>3, <2>4
      <3> HIDE DEF n
      <3>2. \E i \in 1..n : /\ FirstBest(s, Clean) = s[i]
                            /\ \A j \in 1..n : Clean(s[j].hits) <= Clean(s[i].hits)
        BY <3>1, FirstBestIs
      <3> QED  BY <3>2 DEF n
    <2>6. \E rank \in 1..3 : s[i] = option(rank)
      BY <2>3
    <2>7. \A rank \in 1..3 : Clean(option(rank).hits) <= Clean(s[i].hits)
      BY <2>3, <2>5
    <2>8. /\ \E rank \in 1..3 : FirstBest(s, Clean) = option(rank)
          /\ \A rank \in 1..3 : Clean(option(rank).hits) <= Clean(FirstBest(s, Clean).hits)
          /\ FirstBest(s, Clean) \in States
      <3> DEFINE best == FirstBest(s, Clean)
      <3>1. best = s[i]
        BY <2>5
      <3> HIDE DEF best
      <3>2. /\ \E rank \in 1..3 : best = option(rank)
            /\ \A rank \in 1..3 : Clean(option(rank).hits) <= Clean(best.hits)
            /\ best \in States
        BY <2>1, <2>6, <2>7, <3>1
      <3> QED  BY <3>2 DEF best
    <2> QED  BY <2>8 DEF s, option
  <1>2. f \in [Budgets(d, t) -> States]
    BY <1>1
  <1>3. \A b \in Budgets(d, t) : f[b] = FirstBest(three(b), Clean)
    OBVIOUS
  <1>4. Matched(table, v, d, t) = Bordered(f, d, t)
    BY DEF Matched
  <1> HIDE DEF f, three
  <1>5. Bordered(f, d, t) \in Tables(d, t) /\ \A b \in Budgets(d, t) : Bordered(f, d, t)[b] = f[b]
    BY <1>2, BorderedIs
  <1>6. \A b \in Budgets(d, t) : Matched(table, v, d, t)[b] = FirstBest(three(b), Clean)
    BY <1>3, <1>4, <1>5
  <1>7. ASSUME NEW b \in Budgets(d, t)
        PROVE  /\ \E rank \in 1..3 : Matched(table, v, d, t)[b] = Step(table[Before(b, rank)], v, rank)
               /\ \A rank \in 1..3 : Clean(Step(table[Before(b, rank)], v, rank).hits)
                                       <= Clean(Matched(table, v, d, t)[b].hits)
    <2> DEFINE best == FirstBest(three(b), Clean)
    <2>1. /\ \E rank \in 1..3 : best = Step(table[Before(b, rank)], v, rank)
          /\ \A rank \in 1..3 : Clean(Step(table[Before(b, rank)], v, rank).hits) <= Clean(best.hits)
      BY <1>1
    <2>2. Matched(table, v, d, t)[b] = best
      BY <1>6
    <2> HIDE DEF best
    <2> QED  BY <2>1, <2>2
  <1> QED  BY <1>4, <1>5, <1>7

LEMMA StartIs ==
  ASSUME NEW d \in Nat, NEW t \in Nat
  PROVE  /\ Start(d, t) \in Tables(d, t)
         /\ <<0, 0>> \in Budgets(d, t) /\ Start(d, t)[<<0, 0>>] = [hits |-> <<1>>, ranks |-> <<>>]
         /\ \A b \in Budgets(d, t) : b # <<0, 0>> => Start(d, t)[b] = Unreached
         /\ <<1>> \in Hits /\ Clean(<<1>>) = 1
  <1> DEFINE f == [b \in Budgets(d, t) |-> IF b = <<0, 0>> THEN [hits |-> <<1>>, ranks |-> <<>>] ELSE Unreached]
  <1>1. <<1>> \in Hits /\ Clean(<<1>>) = 1
    <2>1. <<1>> \in Seq(Int) /\ Len(<<1>>) = 1 /\ <<1>>[1] = 1 /\ <<1>> # <<>>
      OBVIOUS
    <2> QED  BY <2>1 DEF Hits, Clean
  <1>2. <<>> \in Seq(1..3)
    OBVIOUS
  <1>3. f \in [Budgets(d, t) -> States]
    BY <1>1, <1>2 DEF States
  <1>4. <<0, 0>> \in Budgets(d, t)
    BY DEF Budgets
  <1>5. Start(d, t) = Bordered(f, d, t)
    BY DEF Start
  <1>6. f[<<0, 0>>] = [hits |-> <<1>>, ranks |-> <<>>]
        /\ \A b \in Budgets(d, t) : b # <<0, 0>> => f[b] = Unreached
    BY <1>4
  <1> HIDE DEF f
  <1>7. Bordered(f, d, t) \in Tables(d, t) /\ \A b \in Budgets(d, t) : Bordered(f, d, t)[b] = f[b]
    BY <1>3, BorderedIs
  <1> QED  BY <1>1, <1>4, <1>5, <1>6, <1>7

LEMMA TableByMatch ==
  ASSUME NEW d \in Nat, NEW t \in Nat, NEW vectors \in Seq(Decided)
  PROVE  \E tab \in [0..Len(vectors) -> Tables(d, t)] :
           /\ tab[0] = Start(d, t)
           /\ \A k \in 1..Len(vectors) : tab[k] = Matched(tab[k - 1], vectors[k], d, t)
           /\ BestTable(vectors, d, t, Clean) = tab[Len(vectors)]
  <1> DEFINE n == Len(vectors)
             D == DOMAIN vectors
             T == Tables(d, t)
             base == Start(d, t)
             match(table, v) == Matched(table, v, d, t)
             step(g, s) == IF s = {} THEN base ELSE match(g[s \ {Max(s)}], vectors[Max(s)])
             Solves(g) == g = [s \in SUBSET D |-> step(g, s)]
             iter == CHOOSE g : Solves(g)
             F == [k \in 1..n |-> [table \in T |-> match(table, vectors[k])]]
  <1>1. D = 1..n /\ n \in Nat /\ \A k \in 1..n : vectors[k] \in Decided
    OBVIOUS
  <1>2. BestTable(vectors, d, t, Clean) = iter[D]
    BY DEF BestTable, FoldLeft, MapThenFoldSet, Matched, Start, Budgets
  <1> HIDE DEF n, D
  <1>3. base \in T
    BY StartIs
  <1>4. \A k \in 1..n, table \in T : match(table, vectors[k]) \in T
    BY <1>1, MatchedIs
  <1> HIDE DEF T, base, match
  <1>5. F \in [1..n -> [T -> T]]
    BY <1>4
  <1>6. \A k \in 1..n, table \in T : F[k][table] = match(table, vectors[k])
    OBVIOUS
  <1> HIDE DEF F
  <1>7. \E g : Solves(g)
    <2>1. PICK g : Solution(n, T, base, F, g)
      BY <1>1, <1>3, <1>5, FoldSolves
    <2>2. \A s \in SUBSET D : g[s] = step(g, s)
      <3> SUFFICES ASSUME NEW s \in SUBSET D PROVE g[s] = step(g, s)
        OBVIOUS
      <3>1. CASE s = {}
        BY <1>1, <2>1, <3>1 DEF Solution
      <3>2. CASE s # {}
        <4>1. Max(s) \in 1..n /\ g[s] = F[Max(s)][g[s \ {Max(s)}]] /\ g[s \ {Max(s)}] \in T
          BY <1>1, <2>1, <3>2 DEF Solution
        <4> QED  BY <1>6, <3>2, <4>1
      <3> QED  BY <3>1, <3>2
    <2> HIDE DEF step
    <2>3. Solves(g)
      <3>1. g \in [SUBSET D -> T]
        BY <1>1, <2>1 DEF Solution
      <3> QED  BY <2>2, <3>1
    <2> HIDE DEF Solves
    <2> QED  BY <2>3
  <1>8. Solves(iter)
    <2> HIDE DEF Solves
    <2> QED  BY <1>7
  <1>9. \A s \in SUBSET D : iter[s] = step(iter, s)
    <2> HIDE DEF iter, step
    <2> QED  BY <1>8
  <1>10. Iterates(n, T, base, F, iter)
    <2> HIDE DEF iter
    <2> SUFFICES ASSUME NEW s \in SUBSET (1..n)
                 PROVE  /\ s = {} => iter[s] = base
                        /\ s # {} /\ iter[s \ {Max(s)}] \in T => iter[s] = F[Max(s)][iter[s \ {Max(s)}]]
      BY DEF Iterates
    <2>1. iter[s] = step(iter, s)
      BY <1>1, <1>9
    <2>2. s # {} => Max(s) \in 1..n
      BY <1>1, MaxIsMember
    <2> QED  BY <1>6, <2>1, <2>2
  <1> HIDE DEF iter
  <1>11. PICK tab : Loops(n, T, base, F, tab) /\ iter[1..n] = tab[n]
    BY <1>1, <1>3, <1>5, <1>10, FoldByPrefix
  <1>12. \A k \in 1..n : tab[k] = match(tab[k - 1], vectors[k])
    <2> SUFFICES ASSUME NEW k \in 1..n PROVE tab[k] = match(tab[k - 1], vectors[k])
      OBVIOUS
    <2>1. k - 1 \in 0..n
      BY <1>1
    <2> QED  BY <1>6, <1>11, <2>1 DEF Loops
  <1> QED  BY <1>1, <1>2, <1>11, <1>12 DEF T, base, match, n, Loops

------------------------------------------------------------------------------
(* What ranks cost and what they are worth.                                *)

\* h is the distribution after each of the first k matches, under the ranks.
Chained(vectors, ranks, k, h) ==
  /\ h[0] = <<1>>
  /\ \A i \in 1..k : h[i] = Extended(h[i - 1], Hit(vectors[i], ranks[i]))

\* How many of the first k matches have the rank.
Spent(ranks, k, rank) == Cardinality({i \in 1..k : ranks[i] = rank})

LEMMA SpentIs ==
  ASSUME NEW ranks, NEW rank, NEW k \in Nat
  PROVE  /\ Spent(ranks, 0, rank) = 0
         /\ Spent(ranks, k, rank) \in Nat
         /\ Spent(ranks, k + 1, rank) = Spent(ranks, k, rank) + (IF ranks[k + 1] = rank THEN 1 ELSE 0)
  <1> DEFINE S(j) == {i \in 1..j : ranks[i] = rank}
  <1>1. IsFiniteSet(S(k)) /\ Cardinality(S(k)) \in Nat
    <2>1. IsFiniteSet(1..k) /\ S(k) \subseteq 1..k
      BY FS_Interval
    <2> QED  BY <2>1, FS_Subset, FS_CardinalityType
  <1>2. S(0) = {} /\ Cardinality({}) = 0
    BY FS_EmptySet
  <1>2a. Spent(ranks, k, rank) = Cardinality(S(k)) /\ Spent(ranks, 0, rank) = Cardinality(S(0))
    BY DEF Spent
  <1>3. CASE ranks[k + 1] = rank
    <2>1. S(k + 1) = S(k) \cup {k + 1} /\ k + 1 \notin S(k)
      BY <1>3
    <2>2. Cardinality(S(k) \cup {k + 1}) = Cardinality(S(k)) + 1
      <3> DEFINE s == S(k)
                 new == k + 1
      <3>1. IsFiniteSet(s) /\ new \notin s
        BY <1>1, <2>1
      <3> HIDE DEF s, new
      <3>2. Cardinality(s \cup {new}) = Cardinality(s) + 1
        BY <3>1, FS_AddElement
      <3> QED  BY <3>2 DEF s, new
    <2>3. Spent(ranks, k + 1, rank) = Cardinality(S(k)) + 1
      BY <2>1, <2>2 DEF Spent
    <2> QED  BY <1>1, <1>2, <1>3, <1>2a, <2>3
  <1>4. CASE ranks[k + 1] # rank
    <2>1. S(k + 1) = S(k)
      BY <1>4
    <2>2. Spent(ranks, k + 1, rank) = Cardinality(S(k))
      BY <2>1 DEF Spent
    <2> QED  BY <1>1, <1>2, <1>4, <1>2a, <2>2
  <1> QED  BY <1>3, <1>4

LEMMA SpentGrows ==
  ASSUME NEW ranks, NEW rank, NEW n \in Nat, NEW k \in 0..n
  PROVE  Spent(ranks, k, rank) <= Spent(ranks, n, rank)
  <1> DEFINE S(j) == {i \in 1..j : ranks[i] = rank}
  <1>1. IsFiniteSet(S(n))
    <2>1. IsFiniteSet(1..n) /\ S(n) \subseteq 1..n
      BY FS_Interval
    <2> QED  BY <2>1, FS_Subset
  <1>2. S(k) \subseteq S(n)
    OBVIOUS
  <1>3. Cardinality(S(k)) <= Cardinality(S(n))
    <2> HIDE DEF S
    <2> QED  BY <1>1, <1>2, FS_Subset
  <1> QED  BY <1>3 DEF Spent

\* A chain holds distributions, and its ranks determine it.
LEMMA ChainsAre ==
  ASSUME NEW vectors \in Seq(Decided), NEW n \in Nat, n <= Len(vectors),
         NEW ranks, \A i \in 1..n : ranks[i] \in 1..3, NEW h, Chained(vectors, ranks, n, h)
  PROVE  \A k \in 0..n : h[k] \in Hits
  <1>1. \A i \in 1..n : Hit(vectors[i], ranks[i]) \in Nat
    <2>1. \A i \in 1..n : vectors[i] \in Decided
      OBVIOUS
    <2> QED  BY <2>1, HitIs
  <1>2. \A k \in 0..n : h[k] \in Hits
    <2> DEFINE S == {k \in 0..n : h[k] \in Hits}
    <2>1. 0 \in S
      <3>1. h[0] = <<1>>
        BY DEF Chained
      <3>2. <<1>> \in Hits
        <4>1. 0 \in Nat
          OBVIOUS
        <4> QED  BY <4>1, StartIs
      <3> QED  BY <3>1, <3>2
    <2>2. \A k \in 1..n : k - 1 \in S => k \in S
      <3> SUFFICES ASSUME NEW k \in 1..n, h[k - 1] \in Hits PROVE h[k] \in Hits
        OBVIOUS
      <3>1. h[k] = Extended(h[k - 1], Hit(vectors[k], ranks[k]))
        BY DEF Chained
      <3>2. Hit(vectors[k], ranks[k]) \in Nat
        BY <1>1
      <3> DEFINE one == h[k - 1]
                 p == Hit(vectors[k], ranks[k])
      <3> HIDE DEF one, p
      <3>3. one \in Hits /\ p \in Nat
        BY <3>2 DEF one, p
      <3>4. Extended(one, p) \in Hits
        BY <3>3, ExtendedIs
      <3> QED  BY <3>1, <3>4 DEF one, p
    <2>3. 0..n \subseteq S
      <3> HIDE DEF S
      <3> QED  BY <2>1, <2>2, UpTo
    <2> QED  BY <2>3
  <1> QED  BY <1>2

LEMMA ChainIsUnique ==
  ASSUME NEW vectors, NEW n \in Nat, NEW ranks, NEW h, NEW g,
         Chained(vectors, ranks, n, h), Chained(vectors, ranks, n, g)
  PROVE  \A k \in 0..n : g[k] = h[k]
  <1> DEFINE S == {k \in 0..n : g[k] = h[k]}
  <1>1. 0 \in S
    BY DEF Chained
  <1>2. \A k \in 1..n : k - 1 \in S => k \in S
    BY DEF Chained
  <1>3. 0..n \subseteq S
    <2> HIDE DEF S
    <2> QED  BY <1>1, <1>2, UpTo
  <1> QED  BY <1>3

\* The same ranks are spent, and one rank more.
LEMMA SpentAppend ==
  ASSUME NEW ranks \in Seq(1..3), NEW r \in 1..3, NEW rank
  PROVE  Spent(Append(ranks, r), Len(ranks) + 1, rank)
           = Spent(ranks, Len(ranks), rank) + (IF r = rank THEN 1 ELSE 0)
  <1> DEFINE k == Len(ranks)
             more == Append(ranks, r)
  <1>1. k \in Nat /\ more[k + 1] = r /\ \A i \in 1..k : more[i] = ranks[i]
    OBVIOUS
  <1> HIDE DEF k, more
  <1>2. Spent(more, k + 1, rank) = Spent(more, k, rank) + (IF more[k + 1] = rank THEN 1 ELSE 0)
    BY <1>1, SpentIs
  <1>3. Spent(more, k, rank) = Spent(ranks, k, rank)
    <2>1. {i \in 1..k : more[i] = rank} = {i \in 1..k : ranks[i] = rank}
      BY <1>1
    <2> QED  BY <2>1 DEF Spent
  <1> QED  BY <1>1, <1>2, <1>3 DEF k, more

\* A chain goes on with one rank more.
LEMMA ChainAppend ==
  ASSUME NEW vectors, NEW ranks \in Seq(1..3), NEW r \in 1..3, NEW h,
         Chained(vectors, ranks, Len(ranks), h)
  PROVE  \E g : /\ Chained(vectors, Append(ranks, r), Len(ranks) + 1, g)
                /\ g[Len(ranks) + 1] = Extended(h[Len(ranks)], Hit(vectors[Len(ranks) + 1], r))
  <1> DEFINE k == Len(ranks)
             more == Append(ranks, r)
  <1>1. k \in Nat /\ more[k + 1] = r /\ \A i \in 1..k : more[i] = ranks[i]
    OBVIOUS
  <1>2. h[0] = <<1>> /\ \A i \in 1..k : h[i] = Extended(h[i - 1], Hit(vectors[i], ranks[i]))
    BY DEF Chained
  <1> HIDE DEF k, more
  <1> DEFINE last == Extended(h[k], Hit(vectors[k + 1], r))
             g == [i \in 0..(k + 1) |-> IF i = k + 1 THEN last ELSE h[i]]
  <1> HIDE DEF last
  <1>3. g[k + 1] = last /\ \A i \in 0..k : g[i] = h[i]
    BY <1>1
  <1> HIDE DEF g
  <1>4. \A i \in 1..(k + 1) : g[i] = Extended(g[i - 1], Hit(vectors[i], more[i]))
    <2> SUFFICES ASSUME NEW i \in 1..(k + 1)
                 PROVE  g[i] = Extended(g[i - 1], Hit(vectors[i], more[i]))
      OBVIOUS
    <2>1. CASE i = k + 1
      <3>1. i - 1 = k /\ g[k] = h[k]
        BY <1>1, <1>3, <2>1
      <3> QED  BY <1>1, <1>3, <2>1, <3>1 DEF last
    <2>2. CASE i # k + 1
      <3>1. i \in 1..k /\ i \in 0..k /\ i - 1 \in 0..k
        BY <1>1, <2>2
      <3>2. g[i] = h[i] /\ g[i - 1] = h[i - 1] /\ more[i] = ranks[i]
        BY <1>1, <1>3, <3>1
      <3> QED  BY <1>2, <3>1, <3>2
    <2> QED  BY <2>1, <2>2
  <1>5. g[0] = <<1>>
    BY <1>1, <1>2, <1>3
  <1>6. Chained(vectors, more, k + 1, g)
    BY <1>4, <1>5 DEF Chained
  <1> QED  BY <1>3, <1>6 DEF k, more, last

\* tab holds the table before any match and after each of them.
TableRun(vectors, d, t, tab) ==
  /\ tab \in [0..Len(vectors) -> Tables(d, t)]
  /\ tab[0] = Start(d, t)
  /\ \A k \in 1..Len(vectors) : tab[k] = Matched(tab[k - 1], vectors[k], d, t)

\* What a budget holds after k matches spends it exactly, and is worth what its ranks are.
SoundAt(vectors, table, k, b) ==
  LET state == table[b]
  IN state # Unreached =>
       /\ Len(state.ranks) = k
       /\ Spent(state.ranks, k, 2) = b[1]
       /\ Spent(state.ranks, k, 3) = b[2]
       /\ \E h : Chained(vectors, state.ranks, k, h) /\ h[k] = state.hits

\* The step of the invariant below: the state of a budget, one rank later.
LEMMA SoundStep ==
  ASSUME NEW vectors \in Seq(Decided), NEW k \in Nat, k + 1 <= Len(vectors),
         NEW state \in States, state # Unreached, NEW rank \in 1..3, Len(state.ranks) = k,
         NEW before, Spent(state.ranks, k, 2) = before[1], Spent(state.ranks, k, 3) = before[2],
         NEW h, Chained(vectors, state.ranks, k, h), h[k] = state.hits,
         NEW next, next = Step(state, vectors[k + 1], rank)
  PROVE  /\ Len(next.ranks) = k + 1
         /\ Spent(next.ranks, k + 1, 2) = before[1] + (IF rank = 2 THEN 1 ELSE 0)
         /\ Spent(next.ranks, k + 1, 3) = before[2] + (IF rank = 3 THEN 1 ELSE 0)
         /\ \E g : Chained(vectors, next.ranks, k + 1, g) /\ g[k + 1] = next.hits
  <1>1. vectors[k + 1] \in Decided
    OBVIOUS
  <1>2. /\ state.ranks \in Seq(1..3) /\ next.ranks = Append(state.ranks, rank)
        /\ next.hits = Extended(state.hits, Hit(vectors[k + 1], rank))
    BY <1>1, StepIs
  <1> DEFINE ranks == state.ranks
  <1>3. ranks \in Seq(1..3) /\ Len(ranks) = k /\ Chained(vectors, ranks, Len(ranks), h)
    BY <1>2
  <1>4. next.ranks = Append(ranks, rank) /\ Spent(ranks, k, 2) = before[1] /\ Spent(ranks, k, 3) = before[2]
    BY <1>2
  <1> HIDE DEF ranks
  <1>5. Len(Append(ranks, rank)) = k + 1
    BY <1>3
  <1>6. /\ Spent(Append(ranks, rank), k + 1, 2) = before[1] + (IF rank = 2 THEN 1 ELSE 0)
        /\ Spent(Append(ranks, rank), k + 1, 3) = before[2] + (IF rank = 3 THEN 1 ELSE 0)
    BY <1>3, <1>4, SpentAppend
  <1>7. \E g : /\ Chained(vectors, Append(ranks, rank), k + 1, g)
               /\ g[k + 1] = Extended(h[k], Hit(vectors[k + 1], rank))
    BY <1>3, ChainAppend
  <1> QED  BY <1>2, <1>4, <1>5, <1>6, <1>7

LEMMA TableIsSound ==
  ASSUME NEW d \in Nat, NEW t \in Nat, NEW vectors \in Seq(Decided), NEW tab,
         TableRun(vectors, d, t, tab)
  PROVE  \A k \in 0..Len(vectors) : \A b \in Budgets(d, t) : SoundAt(vectors, tab[k], k, b)
  <1> DEFINE n == Len(vectors)
             S == {k \in 0..n : \A b \in Budgets(d, t) : SoundAt(vectors, tab[k], k, b)}
  <1>1. n \in Nat /\ \A k \in 1..n : vectors[k] \in Decided
    OBVIOUS
  <1>2. 0 \in S
    <2> SUFFICES ASSUME NEW b \in Budgets(d, t) PROVE SoundAt(vectors, tab[0], 0, b)
      BY <1>1
    <2>1. tab[0] = Start(d, t)
      BY DEF TableRun
    <2>2. CASE b # <<0, 0>>
      <3>1. tab[0][b] = Unreached
        BY <2>1, <2>2, StartIs
      <3> QED  BY <3>1 DEF SoundAt
    <2>3. CASE b = <<0, 0>>
      <3>1. tab[0][b] = [hits |-> <<1>>, ranks |-> <<>>]
        BY <2>1, <2>3, StartIs
      <3> DEFINE ranks == tab[0][b].ranks
                 h == [i \in {0} |-> <<1>>]
      <3>2. Len(ranks) = 0 /\ tab[0][b].hits = <<1>> /\ b[1] = 0 /\ b[2] = 0
        BY <2>3, <3>1
      <3>3. Chained(vectors, ranks, 0, h) /\ h[0] = <<1>>
        BY DEF Chained
      <3> HIDE DEF h, ranks
      <3>4. Spent(ranks, 0, 2) = 0 /\ Spent(ranks, 0, 3) = 0
        <4>1. 0 \in Nat
          OBVIOUS
        <4> QED  BY <4>1, SpentIs
      <3> QED  BY <3>2, <3>3, <3>4 DEF SoundAt, ranks
    <2> QED  BY <2>2, <2>3
  <1>3. \A k \in 1..n : k - 1 \in S => k \in S
    <2> SUFFICES ASSUME NEW k \in 1..n, k - 1 \in S, NEW b \in Budgets(d, t)
                 PROVE  SoundAt(vectors, tab[k], k, b)
      OBVIOUS
    <2> DEFINE j == k - 1
    <2>1. j \in Nat /\ j \in 0..n /\ k = j + 1 /\ k <= n /\ \A c \in Budgets(d, t) : SoundAt(vectors, tab[j], j, c)
      BY <1>1
    <2>1a. /\ \A m \in 0..Len(vectors) : tab[m] \in Tables(d, t)
           /\ \A m \in 1..Len(vectors) : tab[m] = Matched(tab[m - 1], vectors[m], d, t)
      BY DEF TableRun
    <2>2. tab[k] = Matched(tab[j], vectors[k], d, t) /\ tab[j] \in Tables(d, t) /\ vectors[k] \in Decided
      BY <1>1, <2>1, <2>1a
    <2> HIDE DEF S, j
    <2>3. PICK rank \in 1..3 : tab[k][b] = Step(tab[j][Before(b, rank)], vectors[k], rank)
      <3> DEFINE table == tab[j]
                 v == vectors[k]
      <3>1. table \in Tables(d, t) /\ v \in Decided /\ tab[k] = Matched(table, v, d, t)
        BY <2>2
      <3> HIDE DEF table, v
      <3>2. \E rank \in 1..3 : Matched(table, v, d, t)[b] = Step(table[Before(b, rank)], v, rank)
        BY <3>1, MatchedIs
      <3> QED  BY <3>1, <3>2 DEF table, v
    <2> DEFINE c == Before(b, rank)
               state == tab[j][c]
    <2>4. /\ c \in Budgets(d, t) \cup Border(d, t)
          /\ c[1] = (IF rank = 2 THEN b[1] - 1 ELSE b[1]) /\ c[2] = (IF rank = 3 THEN b[2] - 1 ELSE b[2])
          /\ b[1] \in 0..d /\ b[2] \in 0..t
      BY BeforeIs
    <2>5. state \in States /\ (c \in Border(d, t) => state = Unreached)
      BY <2>2, <2>4 DEF Tables
    <2> HIDE DEF c
    <2>6. tab[k][b] = Step(state, vectors[k], rank)
      BY <2>3 DEF c
    <2>7. CASE state = Unreached
      <3>1. tab[k][b] = Unreached
        BY <2>6, <2>7 DEF Step
      <3> QED  BY <3>1 DEF SoundAt
    <2>8. CASE state # Unreached
      <3>1. c \in Budgets(d, t) /\ SoundAt(vectors, tab[j], j, c)
        BY <2>1, <2>4, <2>5, <2>8
      <3>2. /\ Len(state.ranks) = j /\ Spent(state.ranks, j, 2) = c[1] /\ Spent(state.ranks, j, 3) = c[2]
            /\ \E h : Chained(vectors, state.ranks, j, h) /\ h[j] = state.hits
        BY <2>8, <3>1 DEF SoundAt
      <3> DEFINE next == tab[k][b]
      <3>3. next = Step(state, vectors[j + 1], rank) /\ j + 1 <= Len(vectors)
        BY <2>1, <2>6
      <3> HIDE DEF state, next
      <3>4. /\ Len(next.ranks) = j + 1
            /\ Spent(next.ranks, j + 1, 2) = c[1] + (IF rank = 2 THEN 1 ELSE 0)
            /\ Spent(next.ranks, j + 1, 3) = c[2] + (IF rank = 3 THEN 1 ELSE 0)
            /\ \E g : Chained(vectors, next.ranks, j + 1, g) /\ g[j + 1] = next.hits
        BY <2>1, <2>5, <2>8, <3>2, <3>3, SoundStep, SMTT(30)
      <3>5. c[1] + (IF rank = 2 THEN 1 ELSE 0) = b[1] /\ c[2] + (IF rank = 3 THEN 1 ELSE 0) = b[2]
        BY <2>4
      <3> QED  BY <2>1, <3>4, <3>5 DEF SoundAt, next
    <2> QED  BY <2>7, <2>8
  <1>4. 0..n \subseteq S
    <2> HIDE DEF S
    <2> QED  BY <1>1, <1>2, <1>3, UpTo
  <1> QED  BY <1>4

\* The same of one budget and one rank.
LEMMA MatchedAt ==
  ASSUME NEW d \in Nat, NEW t \in Nat, NEW table \in Tables(d, t), NEW v \in Decided,
         NEW b \in Budgets(d, t), NEW rank \in 1..3
  PROVE  /\ Matched(table, v, d, t)[b] \in States /\ table[b] \in States
         /\ Clean(Step(table[Before(b, rank)], v, rank).hits) <= Clean(Matched(table, v, d, t)[b].hits)
  <1>1. \A other \in Tables(d, t) : other[b] \in States
    BY DEF Tables
  <1>2. Matched(table, v, d, t) \in Tables(d, t)
    BY MatchedIs
  <1>3. Clean(Step(table[Before(b, rank)], v, rank).hits) <= Clean(Matched(table, v, d, t)[b].hits)
    BY MatchedIs
  <1> QED  BY <1>1, <1>2, <1>3

\* A budget keeps a state once it is reached: with no double and no triple from the start.
LEMMA TableIsReached ==
  ASSUME NEW d \in Nat, NEW t \in Nat, NEW vectors \in Seq(Decided), NEW tab,
         TableRun(vectors, d, t, tab)
  PROVE  \A k \in 0..Len(vectors) : Clean(tab[k][<<0, 0>>].hits) >= 0
  <1> DEFINE n == Len(vectors)
             b == <<0, 0>>
             S == {k \in 0..n : Clean(tab[k][b].hits) >= 0}
  <1>1. n \in Nat /\ \A k \in 1..n : vectors[k] \in Decided
    OBVIOUS
  <1>2. b \in Budgets(d, t) /\ Before(b, 1) = b
    BY StartIs DEF Before
  <1>3. 0 \in S
    <2>1. tab[0] = Start(d, t)
      BY DEF TableRun
    <2>2. tab[0][b] = [hits |-> <<1>>, ranks |-> <<>>] /\ Clean(<<1>>) = 1
      BY <2>1, StartIs
    <2>3. tab[0][b].hits = <<1>>
      BY <2>2
    <2>4. Clean(tab[0][b].hits) >= 0
      BY <2>2, <2>3
    <2> QED  BY <1>1, <2>4
  <1> HIDE DEF b
  <1>4. \A k \in 1..n : k - 1 \in S => k \in S
    <2> SUFFICES ASSUME NEW k \in 1..n, k - 1 \in 0..n, Clean(tab[k - 1][b].hits) >= 0
                 PROVE  Clean(tab[k][b].hits) >= 0
      OBVIOUS
    <2> DEFINE table == tab[k - 1]
               v == vectors[k]
    <2>1. table \in Tables(d, t) /\ tab[k] = Matched(table, v, d, t)
      BY <1>1 DEF TableRun
    <2>2. v \in Decided /\ Clean(table[b].hits) >= 0
      BY <1>1
    <2> HIDE DEF table, v
    <2>3. table[b] \in States
      BY <1>2, <2>1 DEF Tables
    <2>4. /\ Clean(Step(table[Before(b, 1)], v, 1).hits) <= Clean(Matched(table, v, d, t)[b].hits)
          /\ Matched(table, v, d, t)[b] \in States
      <3>1. 1 \in 1..3
        OBVIOUS
      <3> QED  BY <1>2, <2>1, <2>2, <3>1, MatchedAt
    <2> DEFINE state == table[b]
    <2>5. state \in States /\ Clean(state.hits) >= 0
      BY <2>2, <2>3
    <2>6. Clean(Step(state, v, 1).hits) <= Clean(tab[k][b].hits)
      BY <1>2, <2>1, <2>4
    <2> HIDE DEF state
    <2>7. state # Unreached
      BY <2>2, <2>5, StepIs
    <2>8. /\ Clean(state.hits) \in Nat
          /\ Clean(Step(state, v, 1).hits) = Clean(state.hits) * Hit(v, 1)
      BY <2>2, <2>5, <2>7, StepIs
    <2>9. Hit(v, 1) \in Nat
      BY <2>2, HitIs
    <2>10. Clean(Step(state, v, 1).hits) \in Nat
      BY <2>8, <2>9
    <2>11. Clean(tab[k][b].hits) \in Int
      <3>1. tab[k][b] \in States /\ 1 \in 1..3
        BY <2>1, <2>4
      <3> QED  BY <2>2, <3>1, StepIs
    <2> QED  BY <2>6, <2>10, <2>11
  <1>5. 0..n \subseteq S
    <2> HIDE DEF S
    <2> QED  BY <1>1, <1>3, <1>4, UpTo
  <1> QED  BY <1>5 DEF b

(* Whatever ranks stay within the budget, the table holds at what they     *)
(* have spent a state that is worth no less.                               *)
LEMMA TableBeats ==
  ASSUME NEW d \in Nat, NEW t \in Nat, NEW vectors \in Seq(Decided), NEW tab,
         TableRun(vectors, d, t, tab),
         NEW ranks, \A i \in 1..Len(vectors) : ranks[i] \in 1..3,
         NEW h, Chained(vectors, ranks, Len(vectors), h),
         Spent(ranks, Len(vectors), 2) <= d, Spent(ranks, Len(vectors), 3) <= t
  PROVE  \A k \in 0..Len(vectors) :
           LET b == <<Spent(ranks, k, 2), Spent(ranks, k, 3)>>
           IN b \in Budgets(d, t) /\ Clean(h[k]) <= Clean(tab[k][b].hits)
  <1> DEFINE n == Len(vectors)
             at(k) == <<Spent(ranks, k, 2), Spent(ranks, k, 3)>>
             S == {k \in 0..n : Clean(h[k]) <= Clean(tab[k][at(k)].hits)}
  <1>1. n \in Nat /\ \A k \in 1..n : vectors[k] \in Decided
    OBVIOUS
  <1>2. ASSUME NEW k \in 0..n PROVE at(k) \in Budgets(d, t)
    <2>1. k \in Nat
      BY <1>1
    <2>1a. Spent(ranks, k, 2) \in Nat /\ Spent(ranks, k, 3) \in Nat
      BY <2>1, SpentIs
    <2>2. /\ Spent(ranks, k, 2) <= Spent(ranks, n, 2) /\ Spent(ranks, k, 3) <= Spent(ranks, n, 3)
          /\ Spent(ranks, n, 2) \in Nat /\ Spent(ranks, n, 3) \in Nat
      BY <1>1, SpentGrows, SpentIs
    <2>3. Spent(ranks, k, 2) \in 0..d /\ Spent(ranks, k, 3) \in 0..t
      BY <2>1a, <2>2
    <2> QED  BY <2>3 DEF Budgets
  <1>3. \A k \in 0..n : h[k] \in Hits
    <2>1. n <= Len(vectors) /\ Chained(vectors, ranks, n, h) /\ \A i \in 1..n : ranks[i] \in 1..3
      BY <1>1
    <2> HIDE DEF n
    <2> QED  BY <1>1, <2>1, ChainsAre
  <1>4. 0 \in S
    <2>1. at(0) = <<0, 0>>
      <3>1. 0 \in Nat
        OBVIOUS
      <3> QED  BY <3>1, SpentIs
    <2>2. tab[0] = Start(d, t) /\ h[0] = <<1>>
      BY DEF TableRun, Chained
    <2>3. tab[0][<<0, 0>>] = [hits |-> <<1>>, ranks |-> <<>>] /\ Clean(<<1>>) = 1
      BY <2>2, StartIs
    <2>4. tab[0][at(0)].hits = <<1>>
      BY <2>1, <2>3, SMTT(30)
    <2>5. Clean(h[0]) <= Clean(tab[0][at(0)].hits)
      BY <2>2, <2>3, <2>4
    <2> QED  BY <1>1, <2>5
  <1>5. \A k \in 1..n : k - 1 \in S => k \in S
    <2> SUFFICES ASSUME NEW k \in 1..n, k - 1 \in 0..n, Clean(h[k - 1]) <= Clean(tab[k - 1][at(k - 1)].hits)
                 PROVE  Clean(h[k]) <= Clean(tab[k][at(k)].hits)
      OBVIOUS
    <2> DEFINE j == k - 1
               table == tab[j]
               v == vectors[k]
               rank == ranks[k]
               b == at(k)
               c == at(j)
               one == h[j]
    <2>1. j \in Nat /\ k = j + 1 /\ j \in 0..n /\ k \in 0..n
      OBVIOUS
    <2>2. table \in Tables(d, t) /\ tab[k] = Matched(table, v, d, t)
      BY <1>1 DEF TableRun
    <2>3. v \in Decided /\ rank \in 1..3 /\ one \in Hits /\ h[k] = Extended(one, Hit(v, rank))
      BY <1>1, <1>3, <2>1 DEF Chained
    <2>4. Clean(one) <= Clean(table[c].hits)
      OBVIOUS
    <2>5. b \in Budgets(d, t) /\ c \in Budgets(d, t)
      BY <1>2, <2>1
    <2>6. Before(b, rank) = c
      <3>1. /\ Spent(ranks, k, 2) = Spent(ranks, j, 2) + (IF rank = 2 THEN 1 ELSE 0)
            /\ Spent(ranks, k, 3) = Spent(ranks, j, 3) + (IF rank = 3 THEN 1 ELSE 0)
            /\ Spent(ranks, j, 2) \in Nat /\ Spent(ranks, j, 3) \in Nat
        <4>1. rank = ranks[j + 1]
          BY <2>1
        <4> HIDE DEF j, rank
        <4>2. \A x \in {2, 3} : /\ Spent(ranks, j, x) \in Nat
                               /\ Spent(ranks, j + 1, x) = Spent(ranks, j, x) + (IF rank = x THEN 1 ELSE 0)
          BY <2>1, <4>1, SpentIs
        <4> QED  BY <2>1, <4>2
      <3>2. b[1] = Spent(ranks, k, 2) /\ b[2] = Spent(ranks, k, 3)
        OBVIOUS
      <3>3. b = <<b[1], b[2]>>
        OBVIOUS
      <3>4. CASE rank = 2
        BY <3>1, <3>2, <3>4 DEF Before
      <3>5. CASE rank = 3
        BY <3>1, <3>2, <3>5 DEF Before
      <3>6. CASE rank = 1
        BY <3>1, <3>2, <3>6 DEF Before
      <3> QED  BY <2>3, <3>4, <3>5, <3>6
    <2> DEFINE state == table[c]
               held == Matched(table, v, d, t)[b]
    <2> HIDE DEF j, table, v, rank, b, c, one
    <2>7. state \in States /\ held \in States
      BY <2>2, <2>3, <2>5, MatchedAt
    <2>8. Clean(Step(state, v, rank).hits) <= Clean(held.hits)
      <3>1. Clean(Step(table[Before(b, rank)], v, rank).hits) <= Clean(Matched(table, v, d, t)[b].hits)
        BY <2>2, <2>3, <2>5, MatchedAt
      <3> QED  BY <2>6, <3>1
    <2>9. Clean(one) <= Clean(state.hits) /\ tab[k][b] = held
      BY <2>2, <2>4
    <2> HIDE DEF state, held
    <2>10. Hit(v, rank) \in Nat
      BY <2>3, HitIs
    <2>11. Clean(one) \in Nat /\ Clean(Extended(one, Hit(v, rank))) = Clean(one) * Hit(v, rank)
      BY <2>3, <2>10, ExtendedIs
    <2>12. Clean(state.hits) \in Int /\ Clean(held.hits) \in Int
      BY <2>3, <2>7, StepIs
    <2>13. state # Unreached
      <3>1. Clean(state.hits) # -1
        BY <2>9, <2>11, <2>12
      <3> QED  BY <2>3, <2>7, <3>1, StepIs
    <2>14. /\ Clean(state.hits) \in Nat
           /\ Clean(Step(state, v, rank).hits) = Clean(state.hits) * Hit(v, rank)
      BY <2>3, <2>7, <2>13, StepIs
    <2> DEFINE x == Clean(one)
               y == Clean(state.hits)
               p == Hit(v, rank)
    <2>15. x \in Nat /\ y \in Nat /\ p \in Nat /\ x <= y
      BY <2>9, <2>10, <2>11, <2>14
    <2> HIDE DEF x, y, p
    <2>16. x * p <= y * p
      BY <2>15
    <2>17. Clean(h[k]) = x * p /\ Clean(Step(state, v, rank).hits) = y * p
      BY <2>3, <2>11, <2>14 DEF x, y, p
    <2>18. x * p \in Int /\ y * p \in Int
      BY <2>15
    <2>19. Clean(h[k]) <= Clean(held.hits)
      BY <2>8, <2>12, <2>16, <2>17, <2>18
    <2> QED  BY <2>9, <2>19 DEF b
  <1>6. 0..n \subseteq S
    <2> HIDE DEF S, at
    <2> QED  BY <1>1, <1>4, <1>5, UpTo
  <1> QED  BY <1>2, <1>6

------------------------------------------------------------------------------
(* The best of the table.                                                  *)

LEMMA RemainderIs ==
  ASSUME NEW x \in Nat, NEW y \in Nat \ {0}
  PROVE  /\ x \div y \in Nat /\ x % y \in 0..(y - 1)
         /\ x % y = x - y * (x \div y)
  <1>1. x \div y \in Nat
    OBVIOUS
  <1>2. x % y \in 0..(y - 1)
    OBVIOUS
  <1>3. x % y = x - y * (x \div y)
    <2>1. x \in Int /\ y \in Int /\ y > 0
      OBVIOUS
    <2> QED  BY <2>1, Z3
  <1> QED  BY <1>1, <1>2, <1>3

LEMMA QuotientIs ==
  ASSUME NEW x \in Nat, NEW y \in Nat \ {0}, NEW a \in Nat, NEW c \in 0..(y - 1), x - c = a * y
  PROVE  x \div y = a /\ x % y = c
  <1> DEFINE q == x \div y
             m == x % y
             ay == a * y
             yq == y * q
  <1>0. ay \in Nat /\ x = ay + c
    OBVIOUS
  <1>1. x \in Nat
    OBVIOUS
  <1>2. q \in Nat /\ m \in 0..(y - 1) /\ m = x - yq
    BY <1>1, RemainderIs
  <1>3. q <= a
    <2>1. x < a * y + y
      BY <1>0
    <2> QED  BY <1>1, <2>1, DivAtMost
  <1> HIDE DEF q, m
  <1>4. yq \in Nat /\ x = yq + m
    <2>1. yq \in Nat
      BY <1>2
    <2> HIDE DEF yq, ay
    <2> QED  BY <1>0, <1>2, <2>1
  <1>5. a <= q
    <2> SUFFICES ASSUME a >= q + 1 PROVE FALSE
      BY <1>2
    <2>1. a * y >= (q + 1) * y
      BY <1>2
    <2>2. (q + 1) * y = yq + y
      BY <1>2
    <2>3. ay >= yq + y
      BY <2>1, <2>2
    <2> HIDE DEF ay, yq
    <2> QED  BY <1>0, <1>2, <1>4, <2>3
  <1>6. q = a
    BY <1>2, <1>3, <1>5
  <1>7. yq = ay
    BY <1>6
  <1> HIDE DEF ay, yq
  <1>8. m = c
    BY <1>0, <1>2, <1>4, <1>7
  <1> QED  BY <1>6, <1>8 DEF q, m

\* The indices the optimizer goes through are the budgets.
Cell(i, t) == <<(i - 1) \div (t + 1), (i - 1) % (t + 1)>>

LEMMA CellsAreBudgets ==
  ASSUME NEW d \in Nat, NEW t \in Nat
  PROVE  /\ (d + 1) * (t + 1) \in Nat \ {0}
         /\ \A i \in 1..((d + 1) * (t + 1)) : Cell(i, t) \in Budgets(d, t)
         /\ \A b \in Budgets(d, t) : \E i \in 1..((d + 1) * (t + 1)) : Cell(i, t) = b
  <1> DEFINE w == t + 1
             m == (d + 1) * w
             dw == d * w
  <1>1. w \in Nat \ {0} /\ dw \in Nat /\ m = dw + w /\ t = w - 1
    OBVIOUS
  <1> HIDE DEF w
  <1>2. m \in Nat \ {0}
    <2> HIDE DEF m, dw
    <2> QED  BY <1>1
  <1>3. ASSUME NEW i \in 1..m PROVE Cell(i, t) \in Budgets(d, t)
    <2> DEFINE x == i - 1
    <2>1. x \in Nat /\ x < dw + w
      <3> HIDE DEF m, dw
      <3> QED  BY <1>1, <1>2
    <2> HIDE DEF x
    <2>2. x \div w \in Nat /\ x % w \in 0..(w - 1)
      BY <1>1, <2>1, RemainderIs
    <2>3. x \div w <= d
      BY <1>1, <2>1, DivAtMost
    <2>4. <<x \div w, x % w>> \in Budgets(d, t)
      BY <1>1, <2>2, <2>3 DEF Budgets
    <2> QED  BY <2>4 DEF Cell, x, w
  <1>4. ASSUME NEW b \in Budgets(d, t) PROVE \E i \in 1..m : Cell(i, t) = b
    <2> DEFINE a == b[1]
               c == b[2]
               aw == a * w
               x == aw + c
    <2>1. a \in 0..d /\ c \in 0..t /\ b = <<a, c>>
      BY DEF Budgets
    <2> HIDE DEF a, c
    <2>2. a \in Nat /\ c \in 0..(w - 1) /\ a <= d
      BY <1>1, <2>1
    <2>3. aw \in Nat /\ aw <= dw
      BY <1>1, <2>2
    <2>4. x \div w = a /\ x % w = c
      <3>1. x - c = a * w /\ x \in Nat
        BY <2>2, <2>3
      <3>2. a \in Nat /\ w \in Nat \ {0} /\ c \in 0..(w - 1)
        BY <1>1, <2>2
      <3> HIDE DEF x, aw, w, a, c
      <3> QED  BY <3>1, <3>2, QuotientIs
    <2>5. x + 1 \in 1..m /\ (x + 1) - 1 = x
      <3> HIDE DEF m, dw, aw
      <3> QED  BY <1>1, <1>2, <2>2, <2>3
    <2> HIDE DEF x, m
    <2>6. Cell(x + 1, t) = b
      BY <2>1, <2>4, <2>5 DEF Cell, w
    <2> QED  BY <2>5, <2>6
  <1> QED  BY <1>2, <1>3, <1>4 DEF w

\* It answers with the state of a budget, and no budget has a better one.
Foremost(vectors, table, d, t, b) ==
  /\ BestState(vectors, d, t, Clean) = table[b]
  /\ \A c \in Budgets(d, t) : Clean(table[c].hits) <= Clean(table[b].hits)

LEMMA BestStateIs ==
  ASSUME NEW d \in Nat, NEW t \in Nat, NEW vectors, NEW table \in Tables(d, t),
         table = BestTable(vectors, d, t, Clean)
  PROVE  \E b \in Budgets(d, t) : Foremost(vectors, table, d, t, b)
  <1> DEFINE m == (d + 1) * (t + 1)
             states == [i \in 1..m |-> table[Cell(i, t)]]
  <1>1. /\ m \in Nat \ {0}
        /\ \A i \in 1..m : Cell(i, t) \in Budgets(d, t)
        /\ \A b \in Budgets(d, t) : \E i \in 1..m : Cell(i, t) = b
    BY CellsAreBudgets
  <1>2. BestState(vectors, d, t, Clean) = FirstBest(states, Clean)
    BY DEF BestState, Cell
  <1> HIDE DEF m
  <1>3. \A b \in Budgets(d, t) : Clean(table[b].hits) \in Int
    <2>1. \A b \in Budgets(d, t) : table[b] \in States
      BY DEF Tables
    <2> QED  BY <2>1, WorthIs
  <1>4. DOMAIN states = 1..m /\ \A i \in 1..m : states[i] = table[Cell(i, t)]
    OBVIOUS
  <1> HIDE DEF states
  <1>5. PICK i \in 1..m : /\ FirstBest(states, Clean) = states[i]
                          /\ \A j \in 1..m : Clean(states[j].hits) <= Clean(states[i].hits)
    <2>1. \A i \in 1..m : Clean(states[i].hits) \in Int
      BY <1>1, <1>3, <1>4
    <2> QED  BY <1>1, <1>4, <2>1, FirstBestIs
  <1> DEFINE b == Cell(i, t)
  <1>6. b \in Budgets(d, t) /\ states[i] = table[b]
    BY <1>1, <1>4
  <1> HIDE DEF b
  <1>7. ASSUME NEW c \in Budgets(d, t) PROVE Clean(table[c].hits) <= Clean(table[b].hits)
    <2>1. PICK j \in 1..m : Cell(j, t) = c
      BY <1>1
    <2>2. states[j] = table[c]
      BY <1>4, <2>1
    <2> QED  BY <1>5, <1>6, <2>2
  <1> QED  BY <1>2, <1>5, <1>6, <1>7 DEF Foremost

(* The ranks of the optimizer are within the budget, and worth no less     *)
(* than any others that are.                                               *)
Optimal(vectors, d, t, ranks) ==
  /\ ranks \in Seq(1..3) /\ Len(ranks) = Len(vectors)
  /\ Spent(ranks, Len(vectors), 2) <= d /\ Spent(ranks, Len(vectors), 3) <= t
  /\ \E h : /\ Chained(vectors, ranks, Len(vectors), h)
            /\ \A other, g :
                 /\ \A i \in 1..Len(vectors) : other[i] \in 1..3
                 /\ Chained(vectors, other, Len(vectors), g)
                 /\ Spent(other, Len(vectors), 2) <= d /\ Spent(other, Len(vectors), 3) <= t
                 => Clean(g[Len(vectors)]) <= Clean(h[Len(vectors)])

LEMMA OptimizeTicketIs ==
  ASSUME NEW d \in Nat, NEW t \in Nat, NEW vectors \in Seq(Decided)
  PROVE  Optimal(vectors, d, t, OptimizeTicket(vectors, d, t))
  <1> DEFINE n == Len(vectors)
  <1>1. n \in Nat
    OBVIOUS
  <1>2. PICK tab : TableRun(vectors, d, t, tab) /\ BestTable(vectors, d, t, Clean) = tab[n]
    BY TableByMatch, ZenonT(60) DEF TableRun
  <1> DEFINE table == tab[n]
  <1>3. table \in Tables(d, t) /\ table = BestTable(vectors, d, t, Clean)
    BY <1>1, <1>2 DEF TableRun
  <1>4. /\ \A b \in Budgets(d, t) : SoundAt(vectors, table, n, b)
        /\ Clean(table[<<0, 0>>].hits) >= 0
    <2>1. n \in 0..n
      BY <1>1
    <2> QED  BY <1>2, <2>1, TableIsSound, TableIsReached
  <1> HIDE DEF n, table
  <1>5. PICK b \in Budgets(d, t) :
          /\ BestState(vectors, d, t, Clean) = table[b]
          /\ \A c \in Budgets(d, t) : Clean(table[c].hits) <= Clean(table[b].hits)
    <2>1. \E b \in Budgets(d, t) : Foremost(vectors, table, d, t, b)
      BY <1>3, BestStateIs
    <2> QED  BY <2>1 DEF Foremost
  <1> DEFINE state == table[b]
             ranks == state.ranks
  <1>6. OptimizeTicket(vectors, d, t) = ranks
    BY <1>5 DEF OptimizeTicket
  <1>7. state \in States /\ b[1] \in 0..d /\ b[2] \in 0..t
    BY <1>3 DEF Tables, Budgets
  <1>8. state # Unreached
    <2>1. <<0, 0>> \in Budgets(d, t)
      BY StartIs
    <2>2. Clean(table[<<0, 0>>].hits) <= Clean(state.hits)
      BY <1>5, <2>1
    <2>3. table[<<0, 0>>] \in States
      BY <1>3, <2>1 DEF Tables
    <2> SUFFICES ASSUME state = Unreached PROVE FALSE
      OBVIOUS
    <2>4. Clean(state.hits) = -1
      BY DEF Unreached, Clean
    <2>5. Clean(table[<<0, 0>>].hits) \in Int
      BY <2>3, WorthIs
    <2> QED  BY <1>4, <2>2, <2>4, <2>5
  <1>9. SoundAt(vectors, table, n, b)
    BY <1>4
  <1>10. /\ Len(ranks) = n /\ Spent(ranks, n, 2) = b[1] /\ Spent(ranks, n, 3) = b[2]
         /\ \E h : Chained(vectors, ranks, n, h) /\ h[n] = state.hits
    BY <1>8, <1>9 DEF SoundAt
  <1>11. ranks \in Seq(1..3)
    BY <1>7, <1>8 DEF States
  <1>12. PICK h : Chained(vectors, ranks, n, h) /\ h[n] = state.hits
    BY <1>10
  <1>13. ASSUME NEW other, NEW g, \A i \in 1..n : other[i] \in 1..3, Chained(vectors, other, n, g),
                Spent(other, n, 2) <= d, Spent(other, n, 3) <= t
         PROVE  Clean(g[n]) <= Clean(h[n])
    <2> DEFINE c == <<Spent(other, n, 2), Spent(other, n, 3)>>
    <2>1. c \in Budgets(d, t) /\ Clean(g[n]) <= Clean(table[c].hits)
      <3>1. n \in 0..n
        BY <1>1
      <3>2. \A k \in 0..Len(vectors) :
              LET e == <<Spent(other, k, 2), Spent(other, k, 3)>>
              IN e \in Budgets(d, t) /\ Clean(g[k]) <= Clean(tab[k][e].hits)
        BY <1>2, <1>13, TableBeats DEF n
      <3> QED  BY <3>1, <3>2 DEF n, table
    <2> HIDE DEF c
    <2>2. Clean(table[c].hits) <= Clean(h[n])
      BY <1>5, <1>12, <2>1
    <2>3. Clean(table[c].hits) \in Int /\ Clean(h[n]) \in Int /\ Clean(g[n]) \in Int
      <3>4. table[c] \in States
        BY <1>3, <2>1 DEF Tables
      <3>5. g[n] \in Hits
        <4>1. n \in 0..n /\ n <= Len(vectors)
          BY <1>1 DEF n
        <4>2. \A k \in 0..n : g[k] \in Hits
          BY <1>1, <1>13, <4>1, ChainsAre
        <4> QED  BY <4>1, <4>2
      <3>6. Clean(state.hits) \in Int /\ Clean(table[c].hits) \in Int
        BY <1>7, <3>4, WorthIs
      <3>7. Clean(g[n]) \in Nat
        BY <3>5, WorthIs
      <3> QED  BY <1>12, <3>6, <3>7
    <2> QED  BY <2>1, <2>2, <2>3
  <1>14. Spent(ranks, n, 2) <= d /\ Spent(ranks, n, 3) <= t
    BY <1>7, <1>10
  <1> HIDE DEF ranks, state
  <1> QED  BY <1>6, <1>10, <1>11, <1>12, <1>13, <1>14 DEF Optimal, n

------------------------------------------------------------------------------
(* The worth of any ranks, as the property states it.                      *)

Folded(vectors, ranks) ==
  FoldLeft(LAMBDA hits, p : Extended(hits, Hit(vectors[p], ranks[p])), <<1>>, [p \in 1..Len(vectors) |-> p])

LEMMA FoldedIsChained ==
  ASSUME NEW vectors \in Seq(Decided), NEW ranks, \A i \in 1..Len(vectors) : ranks[i] \in 1..3
  PROVE  \E h : Chained(vectors, ranks, Len(vectors), h) /\ Folded(vectors, ranks) = h[Len(vectors)]
  <1> DEFINE n == Len(vectors)
             P == [p \in 1..n |-> p]
             D == DOMAIN P
             T == Hits
             base == <<1>>
             more(hits, p) == Extended(hits, Hit(vectors[p], ranks[p]))
             step(g, s) == IF s = {} THEN base ELSE more(g[s \ {Max(s)}], P[Max(s)])
             Solves(g) == g = [s \in SUBSET D |-> step(g, s)]
             iter == CHOOSE g : Solves(g)
             F == [k \in 1..n |-> [hits \in T |-> more(hits, k)]]
  <1>1. D = 1..n /\ n \in Nat /\ \A k \in 1..n : P[k] = k
    OBVIOUS
  <1>2. Folded(vectors, ranks) = iter[D]
    BY DEF Folded, FoldLeft, MapThenFoldSet
  <1>3. base \in T
    <2>1. 0 \in Nat
      OBVIOUS
    <2> QED  BY <2>1, StartIs
  <1>4. \A k \in 1..n, hits \in T : more(hits, k) \in T
    <2> SUFFICES ASSUME NEW k \in 1..n, NEW hits \in Hits PROVE more(hits, k) \in Hits
      OBVIOUS
    <2>1. vectors[k] \in Decided /\ ranks[k] \in 1..3
      OBVIOUS
    <2>2. Hit(vectors[k], ranks[k]) \in Nat
      BY <2>1, HitIs
    <2> QED  BY <2>2, ExtendedIs
  <1> HIDE DEF n, D, P
  <1>5. F \in [1..n -> [T -> T]]
    BY <1>4
  <1> HIDE DEF T, base, more
  <1>6. \A k \in 1..n, hits \in T : F[k][hits] = more(hits, k)
    OBVIOUS
  <1> HIDE DEF F
  <1>7. \E g : Solves(g)
    <2>1. PICK g : Solution(n, T, base, F, g)
      BY <1>1, <1>3, <1>5, FoldSolves
    <2>2. \A s \in SUBSET D : g[s] = step(g, s)
      <3> SUFFICES ASSUME NEW s \in SUBSET D PROVE g[s] = step(g, s)
        OBVIOUS
      <3>1. CASE s = {}
        BY <1>1, <2>1, <3>1 DEF Solution
      <3>2. CASE s # {}
        <4>1. Max(s) \in 1..n /\ g[s] = F[Max(s)][g[s \ {Max(s)}]] /\ g[s \ {Max(s)}] \in T
          BY <1>1, <2>1, <3>2 DEF Solution
        <4>2. P[Max(s)] = Max(s)
          BY <1>1, <4>1
        <4> QED  BY <1>6, <3>2, <4>1, <4>2
      <3> QED  BY <3>1, <3>2
    <2> HIDE DEF step
    <2>3. Solves(g)
      <3>1. g \in [SUBSET D -> T]
        BY <1>1, <2>1 DEF Solution
      <3> QED  BY <2>2, <3>1
    <2> HIDE DEF Solves
    <2> QED  BY <2>3
  <1>8. Solves(iter)
    <2> HIDE DEF Solves
    <2> QED  BY <1>7
  <1>9. \A s \in SUBSET D : iter[s] = step(iter, s)
    <2> HIDE DEF iter, step
    <2> QED  BY <1>8
  <1>10. Iterates(n, T, base, F, iter)
    <2> HIDE DEF iter
    <2> SUFFICES ASSUME NEW s \in SUBSET (1..n)
                 PROVE  /\ s = {} => iter[s] = base
                        /\ s # {} /\ iter[s \ {Max(s)}] \in T => iter[s] = F[Max(s)][iter[s \ {Max(s)}]]
      BY DEF Iterates
    <2>1. iter[s] = step(iter, s)
      BY <1>1, <1>9
    <2>2. s # {} => Max(s) \in 1..n /\ P[Max(s)] = Max(s)
      BY <1>1, MaxIsMember
    <2> QED  BY <1>6, <2>1, <2>2
  <1> HIDE DEF iter
  <1>11. PICK h : Loops(n, T, base, F, h) /\ iter[1..n] = h[n]
    BY <1>1, <1>3, <1>5, <1>10, FoldByPrefix
  <1>12. \A k \in 1..n : h[k] = more(h[k - 1], k)
    <2> SUFFICES ASSUME NEW k \in 1..n PROVE h[k] = more(h[k - 1], k)
      OBVIOUS
    <2>1. k - 1 \in 0..n
      BY <1>1
    <2> QED  BY <1>6, <1>11, <2>1 DEF Loops
  <1>13. Chained(vectors, ranks, n, h)
    BY <1>11, <1>12 DEF Loops, Chained, base, more
  <1> QED  BY <1>1, <1>2, <1>11, <1>13 DEF n

\* So no ranks within the budget are worth more than the optimizer's.
LEMMA OptimalIsBest ==
  ASSUME NEW d \in Nat, NEW t \in Nat, NEW vectors \in Seq(Decided),
         NEW ranks, Optimal(vectors, d, t, ranks),
         NEW other, \A i \in 1..Len(vectors) : other[i] \in 1..3,
         Spent(other, Len(vectors), 2) <= d, Spent(other, Len(vectors), 3) <= t
  PROVE  Clean(Folded(vectors, other)) <= Clean(Folded(vectors, ranks))
  <1> DEFINE n == Len(vectors)
  <1>1. n \in Nat /\ n <= Len(vectors) /\ n \in 0..n
    OBVIOUS
  <1>2. ranks \in Seq(1..3) /\ Len(ranks) = n
    BY DEF Optimal
  <1>3. \A i \in 1..n : ranks[i] \in 1..3
    BY <1>2
  <1>4. PICK h : /\ Chained(vectors, ranks, n, h)
                 /\ \A one, g :
                      /\ \A i \in 1..n : one[i] \in 1..3
                      /\ Chained(vectors, one, n, g)
                      /\ Spent(one, n, 2) <= d /\ Spent(one, n, 3) <= t
                      => Clean(g[n]) <= Clean(h[n])
    BY DEF Optimal
  <1>5. PICK g : Chained(vectors, other, n, g) /\ Folded(vectors, other) = g[n]
    BY FoldedIsChained
  <1>6. PICK f : Chained(vectors, ranks, n, f) /\ Folded(vectors, ranks) = f[n]
    BY <1>3, FoldedIsChained
  <1> HIDE DEF n
  <1>7. f[n] = h[n]
    <2>1. Chained(vectors, ranks, n, h) /\ \A i \in 1..n : ranks[i] \in 1..3
      BY <1>3, <1>4
    <2>2. Chained(vectors, ranks, n, f) /\ \A i \in 1..n : ranks[i] = ranks[i]
      BY <1>6
    <2>3. \A k \in 0..n : f[k] = h[k]
      BY <1>1, <2>1, <2>2, ChainIsUnique
    <2> QED  BY <1>1, <2>3
  <1>8. Clean(g[n]) <= Clean(h[n])
    BY <1>4, <1>5 DEF n
  <1> QED  BY <1>5, <1>6, <1>7, <1>8

------------------------------------------------------------------------------
(* The plans of a build.                                                   *)

\* The matches before the next are forecast, all of them once scoring is over.
Scored ==
  \E n \in 0..Len(slate) : /\ forecasts = [p \in 1..n |-> Forecast(slate[p])]
                           /\ phase = "scoring" <=> n < Len(slate)

\* The plans are the optimizer's for the decisions as they are.
Plans ==
  plan = [simple |-> [p \in Positions |-> 1],
          doubles |-> OptimizeTicket(Decisions, Rule.alone, 0),
          full |-> OptimizeTicket(Decisions, Rule.doubles, Rule.triples)]

PlansInv ==
  /\ slate \in Slates
  /\ phase \in Phases
  /\ phase \in {"scoring", "planning"} => verdict = NoVerdict
  /\ Scored
  /\ Planned => Plans

LEMMA SlateIs ==
  ASSUME slate \in Slates
  PROVE  slate \in Seq(MatchData) /\ Len(slate) \in Nat \ {0} /\ \A p \in Positions : slate[p] \in MatchData
  <1>1. slate \in Seq(MatchData) /\ Len(slate) \in Nat \ {0}
    BY TicketsAssumption
  <1> QED  BY <1>1 DEF Positions

LEMMA RuleIs ==
  ASSUME NEW week, NEW n \in Int
  PROVE  RuleFor(week, n) \in [alone: Nat, doubles: Nat, triples: Nat]
  <1>1. /\ {"weekend", "revancha", "fallback"} \subseteq DOMAIN Rules
        /\ \A w \in DOMAIN Rules : Rules[w] \in [alone: Nat, doubles: Nat, triples: Nat]
    BY TicketsAssumption
  <1>2. RuleFor(week, n) \in {Rules[w] : w \in DOMAIN Rules}
    BY <1>1 DEF RuleFor
  <1> QED  BY <1>1, <1>2

LEMMA InitPlansInv == TicketsInit => PlansInv
  <1> SUFFICES ASSUME TicketsInit PROVE PlansInv
    OBVIOUS
  <1>1. slate \in Slates /\ phase = "scoring" /\ verdict = NoVerdict /\ forecasts = <<>>
    BY DEF TicketsInit
  <1>2. Len(slate) \in Nat \ {0}
    BY <1>1, SlateIs
  <1>3. forecasts = [p \in 1..0 |-> Forecast(slate[p])]
    BY <1>1
  <1>4. Scored
    <2>1. 0 \in 0..Len(slate) /\ 0 < Len(slate)
      BY <1>2
    <2> QED  BY <1>1, <1>3, <2>1 DEF Scored
  <1> QED  BY <1>1, <1>4 DEF PlansInv, Phases, Planned

\* A match more is forecast.
LEMMA ScoreNextScores ==
  ASSUME PlansInv, ScoreNext
  PROVE  Scored'
  <1>1. slate' = slate /\ phase = "scoring" /\ forecasts' = Append(forecasts, Forecast(slate[Len(forecasts) + 1]))
        /\ phase' = IF Len(forecasts) + 1 = Len(slate) THEN "planning" ELSE "scoring"
    BY DEF ScoreNext, Go
  <1>2. PICK n \in 0..Len(slate) : forecasts = [p \in 1..n |-> Forecast(slate[p])] /\ n < Len(slate)
    BY <1>1 DEF PlansInv, Scored
  <1>3. Len(slate) \in Nat
    BY SlateIs DEF PlansInv
  <1> DEFINE All == {Forecast(slate[p]) : p \in 1..Len(slate)}
             f == [p \in 1..n |-> Forecast(slate[p])]
             new == Forecast(slate[n + 1])
             g == [p \in 1..(n + 1) |-> Forecast(slate[p])]
  <1>4. f \in [1..n -> All] /\ new \in All /\ n \in Nat
    BY <1>2, <1>3
  <1>5. /\ \A p \in 1..n : f[p] = Forecast(slate[p])
        /\ \A p \in 1..(n + 1) : g[p] = Forecast(slate[p])
        /\ DOMAIN g = 1..(n + 1) /\ g = [p \in 1..(n + 1) |-> g[p]] /\ g \in [1..(n + 1) -> All]
    BY <1>2, <1>3
  <1>6. new = g[n + 1] /\ \A p \in 1..n : f[p] = g[p]
    BY <1>4, <1>5
  <1> HIDE DEF All, f, new, g
  <1>7. Append(f, new) = g
    <2>1. f \in Seq(All) /\ Len(f) = n /\ g \in Seq(All) /\ Len(g) = n + 1
      BY <1>4, <1>5
    <2>2. Append(f, new) \in Seq(All) /\ Len(Append(f, new)) = n + 1
      BY <1>4, <2>1
    <2>3. \A p \in 1..(n + 1) : Append(f, new)[p] = g[p]
      BY <1>4, <1>6, <2>1
    <2> QED  BY <2>1, <2>2, <2>3
  <1>8. Len(forecasts) = n
    BY <1>2, <1>4 DEF f
  <1>9. forecasts' = [p \in 1..(n + 1) |-> Forecast(slate'[p])]
    BY <1>1, <1>2, <1>7, <1>8 DEF f, g, new
  <1>10. n + 1 \in 0..Len(slate') /\ (phase' = "scoring" <=> n + 1 < Len(slate'))
    BY <1>1, <1>2, <1>3, <1>8
  <1> QED  BY <1>9, <1>10 DEF Scored

LEMMA PlansStep == PlansInv /\ [TicketsNext]_vars => PlansInv'
  <1> SUFFICES ASSUME PlansInv, [TicketsNext]_vars PROVE PlansInv'
    OBVIOUS
  <1> USE DEF PlansInv, Phases, Planned
  <1>1. CASE ScoreNext
    <2>1. phase = "scoring" /\ phase' \in {"scoring", "planning"} /\ verdict' = verdict /\ slate' = slate
      BY <1>1 DEF ScoreNext, Go
    <2>2. Scored'
      BY <1>1, ScoreNextScores
    <2> QED  BY <2>1, <2>2
  <1>2. CASE PlanTickets
    <2>1. Plans'
      BY <1>2 DEF PlanTickets, Plans, Decisions, Rule, Positions
    <2>2. Scored'
      BY <1>2 DEF PlanTickets, Go, Scored
    <2> QED  BY <1>2, <2>1, <2>2 DEF PlanTickets, Go
  <1>3. CASE phase \notin {"scoring", "planning"} /\ phase' \notin {"scoring", "planning"} /\ phase' \in Phases
             /\ slate' = slate /\ product' = product /\ forecasts' = forecasts /\ plan' = plan
             /\ (Planned' => Planned)
    <2>1. Scored'
      BY <1>3 DEF Scored
    <2>2. Planned' => Plans'
      BY <1>3 DEF Plans, Decisions, Rule, Positions
    <2> QED  BY <1>3, <2>1, <2>2
  <1>4. CASE Recommend
    BY <1>3, <1>4 DEF Recommend, Go
  <1>5. CASE Demote
    BY <1>3, <1>5 DEF Demote, Go
  <1>6. CASE \E audits \in [Positions -> Audits] : Compose(audits)
    BY <1>3, <1>6 DEF Compose, Go
  <1>7. CASE \E situation \in Situations : Judge(situation)
    BY <1>3, <1>7 DEF Judge, Go
  <1>8. CASE \E target \in Targets, least \in Positions : AnswerCoverageTarget(target, least)
    <2>1. /\ phase = "planning" /\ phase' = "done" /\ verdict' = verdict
          /\ slate' = slate /\ forecasts' = forecasts
      BY <1>8 DEF AnswerCoverageTarget, Go
    <2>2. Scored'
      BY <2>1 DEF Scored
    <2> QED  BY <2>1, <2>2
  <1>9. CASE UNCHANGED vars
    <2>1. /\ phase' = phase /\ verdict' = verdict /\ slate' = slate /\ product' = product
          /\ forecasts' = forecasts /\ plan' = plan
      BY <1>9 DEF vars
    <2>2. Scored' /\ (Plans' <=> Plans)
      BY <2>1 DEF Scored, Plans, Decisions, Rule, Positions
    <2> QED  BY <2>1, <2>2
  <1> QED
    BY <1>1, <1>2, <1>4, <1>5, <1>6, <1>7, <1>8, <1>9 DEF TicketsNext

LEMMA PlansInvariant == TicketsSpec => []PlansInv
  BY InitPlansInv, PlansStep, PTL DEF TicketsSpec

\* The decisions are vectors the optimizer's lemmas are about.
LEMMA DecisionsAre ==
  ASSUME PlansInv, phase # "scoring"
  PROVE  /\ Len(slate) \in Nat /\ Positions = 1..Len(slate)
         /\ Decisions \in Seq(Decided) /\ Len(Decisions) = Len(slate)
         /\ \A p \in Positions : Decisions[p] \in Decided /\ Decisions[p] = forecasts[p].decision
         /\ forecasts = [p \in Positions |-> Forecast(slate[p])]
  <1>1. Len(slate) \in Nat /\ \A p \in Positions : slate[p] \in MatchData
    BY SlateIs DEF PlansInv
  <1>2. forecasts = [p \in Positions |-> Forecast(slate[p])]
    BY <1>1 DEF PlansInv, Scored, Positions
  <1>3. \A p \in Positions : forecasts[p].decision \in Decided
    BY <1>1, <1>2, ForecastDecides
  <1>4. Decisions \in [1..Len(slate) -> Decided] /\ \A p \in Positions : Decisions[p] = forecasts[p].decision
    BY <1>3 DEF Decisions, Positions
  <1> DEFINE n == Len(slate)
             all == Decisions
  <1>5. n \in Nat /\ all \in [1..n -> Decided]
    BY <1>1, <1>4
  <1> HIDE DEF n, all
  <1>6. all \in Seq(Decided) /\ Len(all) = n
    BY <1>5
  <1> QED  BY <1>1, <1>2, <1>3, <1>4, <1>6 DEF n, all, Positions

LEMMA AffordableIsSpent ==
  ASSUME Len(slate) \in Nat, NEW d \in Nat, NEW t \in Nat, NEW ranks \in Affordable(d, t)
  PROVE  /\ \A i \in 1..Len(slate) : ranks[i] \in 1..3
         /\ Spent(ranks, Len(slate), 2) <= d /\ Spent(ranks, Len(slate), 3) <= t
  <1>1. /\ ranks \in [1..Len(slate) -> 1..3]
        /\ Cardinality(Doubles(ranks)) <= d /\ Cardinality(Triples(ranks)) <= t
    BY DEF Affordable, Assignments, Positions
  <1>2. DOMAIN ranks = 1..Len(slate)
    BY <1>1
  <1>3. Cardinality(Doubles(ranks)) = Spent(ranks, Len(slate), 2)
        /\ Cardinality(Triples(ranks)) = Spent(ranks, Len(slate), 3)
    BY <1>2 DEF Spent, Doubles, Triples
  <1> QED  BY <1>1, <1>3

LEMMA PlansAreBest == PlansInv => PlanIsBest
  <1> SUFFICES ASSUME PlansInv, Planned
               PROVE  /\ \A ranks \in Affordable(Rule.alone, 0) :
                           Clean(HitsOf(ranks)) <= Clean(HitsOf(plan["doubles"]))
                      /\ \A ranks \in Affordable(Rule.doubles, Rule.triples) :
                           Clean(HitsOf(ranks)) <= Clean(HitsOf(plan["full"]))
    BY DEF PlanIsBest
  <1>1. phase # "scoring" /\ Plans
    BY DEF PlansInv, Planned
  <1>2. /\ Len(slate) \in Nat /\ Positions = 1..Len(slate)
        /\ Decisions \in Seq(Decided) /\ Len(Decisions) = Len(slate)
    BY <1>1, DecisionsAre
  <1>3. Rule.alone \in Nat /\ Rule.doubles \in Nat /\ Rule.triples \in Nat
    BY <1>2, RuleIs DEF Rule
  <1>4. \A ranks : HitsOf(ranks) = Folded(Decisions, ranks)
    BY <1>2 DEF HitsOf, Folded
  <1> DEFINE vectors == Decisions
  <1> HIDE DEF vectors
  <1>5. ASSUME NEW d \in Nat, NEW t \in Nat, NEW ranks \in Affordable(d, t)
        PROVE  Clean(HitsOf(ranks)) <= Clean(HitsOf(OptimizeTicket(Decisions, d, t)))
    <2>1. vectors \in Seq(Decided) /\ Len(vectors) = Len(slate)
      BY <1>2 DEF vectors
    <2> DEFINE best == OptimizeTicket(vectors, d, t)
    <2>2. Optimal(vectors, d, t, best)
      BY <2>1, OptimizeTicketIs
    <2> HIDE DEF best
    <2>3. /\ \A i \in 1..Len(vectors) : ranks[i] \in 1..3
          /\ Spent(ranks, Len(vectors), 2) <= d /\ Spent(ranks, Len(vectors), 3) <= t
      BY <1>2, <2>1, AffordableIsSpent
    <2>4. Clean(Folded(vectors, ranks)) <= Clean(Folded(vectors, best))
      BY <2>1, <2>2, <2>3, OptimalIsBest
    <2> QED  BY <1>4, <2>4 DEF vectors, best
  <1>6. /\ plan["doubles"] = OptimizeTicket(Decisions, Rule.alone, 0)
        /\ plan["full"] = OptimizeTicket(Decisions, Rule.doubles, Rule.triples)
    BY <1>1 DEF Plans
  <1>7. 0 \in Nat
    OBVIOUS
  <1> QED  BY <1>3, <1>5, <1>6, <1>7

(***************************************************************************)
(* The optimizer is exact, whatever the matches and the budget: the plans  *)
(* of a build go clean at least as probably as any ranks the rules of the  *)
(* week pay for (optimize_ticket).                                         *)
(***************************************************************************)
THEOREM PlansAreTheBest == TicketsSpec => []PlanIsBest
  BY PlansInvariant, PlansAreBest, PTL

------------------------------------------------------------------------------
(* The demotions of a ticket.                                              *)

(* A mode is above its plan everywhere, but where a confident single was   *)
(* kept, or nowhere.                                                       *)
Sparing(mode) ==
  \/ \A p \in Positions : \/ ticket[mode][p] >= plan[mode][p]
                          \/ mode = "doubles" /\ ConfidentSingle(forecasts[p])
  \/ \A p \in Positions : ticket[mode][p] <= plan[mode][p]

DemotionInv ==
  phase = "composing" \/ Composed =>
    ticket \in [ModeSet -> Assignments] /\ \A mode \in ModeSet : Sparing(mode)

\* Once planned, the plans give every position a rank.
LEMMA PlansTyped ==
  ASSUME PlansInv, Planned
  PROVE  /\ plan \in [ModeSet -> Assignments]
         /\ plan["simple"] = [p \in Positions |-> 1]
  <1>1. phase # "scoring" /\ Plans
    BY DEF PlansInv, Planned
  <1>2. /\ Len(slate) \in Nat /\ Positions = 1..Len(slate)
        /\ Decisions \in Seq(Decided) /\ Len(Decisions) = Len(slate)
    BY <1>1, DecisionsAre
  <1>3. Rule.alone \in Nat /\ Rule.doubles \in Nat /\ Rule.triples \in Nat
    BY <1>2, RuleIs DEF Rule
  <1> DEFINE vectors == Decisions
  <1>4. ASSUME NEW d \in Nat, NEW t \in Nat
        PROVE  OptimizeTicket(Decisions, d, t) \in Assignments
    <2> DEFINE best == OptimizeTicket(vectors, d, t)
    <2>1. vectors \in Seq(Decided) /\ Len(vectors) = Len(slate)
      BY <1>2
    <2> HIDE DEF vectors
    <2>2. best \in Seq(1..3) /\ Len(best) = Len(slate)
      BY <2>1, OptimizeTicketIs DEF Optimal
    <2> HIDE DEF best
    <2>3. best \in [1..Len(slate) -> 1..3]
      BY <1>2, <2>2
    <2> QED  BY <1>2, <2>3 DEF Assignments, best, vectors
  <1>5. OptimizeTicket(Decisions, Rule.alone, 0) \in Assignments
    <2>1. 0 \in Nat
      OBVIOUS
    <2> QED  BY <1>3, <1>4, <2>1
  <1>6. OptimizeTicket(Decisions, Rule.doubles, Rule.triples) \in Assignments
    BY <1>3, <1>4
  <1>7. [p \in Positions |-> 1] \in Assignments
    BY DEF Assignments
  <1> DEFINE one == [p \in Positions |-> 1]
             two == OptimizeTicket(Decisions, Rule.alone, 0)
             full == OptimizeTicket(Decisions, Rule.doubles, Rule.triples)
  <1>8. plan = [simple |-> one, doubles |-> two, full |-> full]
    BY <1>1 DEF Plans
  <1>9. one \in Assignments /\ two \in Assignments /\ full \in Assignments
    BY <1>5, <1>6, <1>7
  <1> HIDE DEF one, two, full
  <1>10. plan \in [ModeSet -> Assignments] /\ plan["simple"] = one
    BY <1>8, <1>9 DEF ModeSet
  <1> QED  BY <1>10 DEF one

\* What the three modes recommend is at or above what they planned.
LEMMA RecommendSpares ==
  ASSUME PlansInv, Recommend
  PROVE  DemotionInv'
  <1>1. /\ phase = "recommending" /\ phase' = "composing" /\ plan' = plan /\ slate' = slate
        /\ forecasts' = forecasts
        /\ ticket' = [simple |-> [p \in Positions |-> 1],
                      doubles |-> [p \in Positions |-> DoublesRank(p)],
                      full |-> [p \in Positions |-> IF p \in lifted' THEN 3 ELSE FullRank(p)]]
    BY DEF Recommend, Go
  <1>2. plan \in [ModeSet -> Assignments] /\ plan["simple"] = [p \in Positions |-> 1]
    BY <1>1, PlansTyped DEF Planned
  <1>3. \A mode \in ModeSet, p \in Positions : plan[mode][p] \in 1..3
    BY <1>2 DEF Assignments
  <1>4. \A p \in Positions : /\ plan["doubles"][p] \in 1..3 /\ plan["full"][p] \in 1..3
                             /\ plan["simple"][p] = 1
    BY <1>2, <1>3 DEF ModeSet
  <1>5. ASSUME NEW p \in Positions
        PROVE  /\ DoublesRank(p) \in 1..3
               /\ DoublesRank(p) <= plan["doubles"][p]
    <2>1. DoublesRank(p) \in {1, 2} /\ (DoublesRank(p) = 2 => plan["doubles"][p] = 2)
      BY DEF DoublesRank
    <2> QED  BY <1>4, <2>1
  <1>6. ASSUME NEW p \in Positions
        PROVE  FullRank(p) \in 1..3 /\ FullRank(p) >= plan["full"][p]
    <2>1. plan["full"][p] \in Int /\ DoublesRank(p) \in Int
      BY <1>4, <1>5
    <2>2. FullRank(p) \in {plan["full"][p], DoublesRank(p)} /\ FullRank(p) >= plan["full"][p]
      BY <2>1, SmallerLarger DEF FullRank
    <2> QED  BY <1>4, <1>5, <2>2
  <1> DEFINE one == [p \in Positions |-> 1]
             two == [p \in Positions |-> DoublesRank(p)]
             full == [p \in Positions |-> IF p \in lifted' THEN 3 ELSE FullRank(p)]
  <1>7. one \in Assignments /\ two \in Assignments /\ full \in Assignments
    BY <1>5, <1>6 DEF Assignments
  <1>8. \A p \in Positions : /\ one[p] <= plan["simple"][p]
                             /\ two[p] <= plan["doubles"][p]
                             /\ full[p] >= plan["full"][p]
    BY <1>4, <1>5, <1>6
  <1>9. ticket' = [simple |-> one, doubles |-> two, full |-> full]
    BY <1>1
  <1> HIDE DEF one, two, full
  <1>10. /\ ticket' \in [ModeSet -> Assignments] /\ ticket'["simple"] = one
         /\ ticket'["doubles"] = two /\ ticket'["full"] = full
    BY <1>7, <1>9 DEF ModeSet
  <1>11. Assignments' = Assignments /\ Positions' = Positions
    BY <1>1 DEF Assignments, Positions
  <1>12. \A mode \in ModeSet : Sparing(mode)'
    <2>1. \A p \in Positions' : ticket'["simple"][p] <= plan'["simple"][p]
      BY <1>1, <1>8, <1>10, <1>11
    <2>2. \A p \in Positions' : ticket'["doubles"][p] <= plan'["doubles"][p]
      BY <1>1, <1>8, <1>10, <1>11
    <2>3. \A p \in Positions' : ticket'["full"][p] >= plan'["full"][p]
      BY <1>1, <1>8, <1>10, <1>11
    <2>4. Sparing("simple")' /\ Sparing("doubles")' /\ Sparing("full")'
      BY <2>1, <2>2, <2>3 DEF Sparing
    <2>5. \A mode \in ModeSet : mode = "simple" \/ mode = "doubles" \/ mode = "full"
      BY DEF ModeSet
    <2> QED  BY <2>4, <2>5
  <1> QED  BY <1>10, <1>11, <1>12 DEF DemotionInv

\* A ticket with nothing to demote is legal.
LEMMA SinglesAreLegal ==
  ASSUME NEW week, NEW ranks, \A i \in DOMAIN ranks : ranks[i] = 1
  PROVE  IsLegal(week, ranks)
  <1>1. Doubles(ranks) = {} /\ Triples(ranks) = {}
    BY DEF Doubles, Triples
  <1>2. Cardinality(Doubles(ranks)) = 0 /\ Cardinality(Triples(ranks)) = 0
    BY <1>1, FS_EmptySet
  <1>3. LimitsFor(week) \in [doubles: Nat, triples: Nat, combinations: Nat \ {0}, price: Nat \cup {-1}]
    BY TicketsAssumption DEF LimitsFor
  <1>4. 2 ^ 0 = 1 /\ 3 ^ 0 = 1
    OBVIOUS
  <1>5. Combinations(ranks) = 1
    BY <1>2, <1>4 DEF Combinations
  <1> QED  BY <1>2, <1>3, <1>5 DEF IsLegal

\* The demotion chosen is one of the mode's, and planned coverage only when no other is left.
LEMMA DemotedIs ==
  ASSUME PlansInv, phase = "composing", DemotionInv, NEW mode \in ModeSet, ~IsLegal(product, ticket[mode])
  PROVE  /\ Demoted(mode) \in Demotions(mode)
         /\ \A other \in Demotions(mode) : Demoted(mode).planned <= other.planned
  <1> DEFINE all == Demotions(mode)
             First(one) == \A other \in all :
                one.planned < other.planned \/ (one.planned = other.planned /\ Sooner(one, other))
  <1>1. ticket \in [ModeSet -> Assignments]
    BY DEF DemotionInv
  <1>2. \A p \in Positions : Decisions[p] \in Decided
    BY DecisionsAre
  <1>3. all # {}
    <2> SUFFICES ASSUME all = {} PROVE FALSE
      OBVIOUS
    <2>1. \A p \in Positions : ticket[mode][p] \in 1..3 /\ ~(ticket[mode][p] > 1)
      BY <1>1, ZenonT(60) DEF Demotions, Assignments
    <2>2. \A p \in DOMAIN ticket[mode] : ticket[mode][p] = 1
      BY <1>1, <2>1 DEF Assignments
    <2> QED  BY <2>2, SinglesAreLegal
  <1>4. \A one \in all : one.planned \in Nat /\ one.loss \in Nat /\ one.sixths \in Nat /\ one.position \in Nat
    <2> SUFFICES ASSUME NEW p \in Positions
                 PROVE  LET v == Decisions[p] IN v[Third(v)] \in Nat /\ v[Second(v)] \in Nat /\ p \in Nat
      BY DEF Demotions
    <2>1. Decisions[p] \in Weights
      BY <1>2 DEF Decided
    <2> DEFINE v == Decisions[p]
    <2> HIDE DEF v
    <2>2. v \in Weights
      BY <2>1 DEF v
    <2>3. v[Third(v)] \in Nat /\ v[Second(v)] \in Nat
      BY <2>2, WeightsAre
    <2> QED  BY <2>3 DEF v, Positions
  <1> HIDE DEF all
  <1>5. \E one \in all : First(one)
    <2> DEFINE planned == [one \in all |-> one.planned]
               loss == [one \in all |-> one.loss]
               sixths == [one \in all |-> one.sixths]
               position == [one \in all |-> one.position]
    <2>1. PICK a \in all : \A other \in all : planned[a] <= planned[other]
      <3>1. \A one \in all : planned[one] \in Nat
        BY <1>4
      <3> HIDE DEF planned
      <3> QED  BY <1>3, <3>1, LeastByRank
    <2> DEFINE A == {one \in all : one.planned = a.planned}
    <2>2. PICK b \in A : \A other \in A : loss[b] <= loss[other]
      <3>1. A # {} /\ \A one \in A : loss[one] \in Nat
        BY <1>4
      <3> HIDE DEF loss, A
      <3> QED  BY <3>1, LeastByRank
    <2> DEFINE B == {one \in A : one.loss = b.loss}
    <2>3. PICK c \in B : \A other \in B : sixths[c] <= sixths[other]
      <3>1. B # {} /\ \A one \in B : sixths[one] \in Nat
        BY <1>4
      <3> HIDE DEF sixths, B
      <3> QED  BY <3>1, LeastByRank
    <2> DEFINE C == {one \in B : one.sixths = c.sixths}
    <2>4. PICK d \in C : \A other \in C : position[d] <= position[other]
      <3>1. C # {} /\ \A one \in C : position[one] \in Nat
        BY <1>4
      <3> HIDE DEF position, C
      <3> QED  BY <3>1, LeastByRank
    <2>5. d \in all /\ d.planned = a.planned /\ d.loss = b.loss /\ d.sixths = c.sixths
      OBVIOUS
    <2>6. ASSUME NEW other \in all
          PROVE  d.planned < other.planned \/ (d.planned = other.planned /\ Sooner(d, other))
      <3>1. /\ other.planned \in Nat /\ other.loss \in Nat /\ other.sixths \in Nat
            /\ d.planned \in Nat /\ d.loss \in Nat /\ d.sixths \in Nat
        BY <1>4, <2>5
      <3>2. d.planned <= other.planned
        BY <2>1, <2>5
      <3>3. other.planned = d.planned => other \in A /\ d.loss <= other.loss
        BY <2>2, <2>5
      <3>4. other.planned = d.planned /\ other.loss = d.loss => other \in B /\ d.sixths <= other.sixths
        BY <2>3, <2>5
      <3>5. other.planned = d.planned /\ other.loss = d.loss /\ other.sixths = d.sixths
              => d.position <= other.position
        BY <2>4, <2>5
      <3> HIDE DEF A, B, C
      <3> QED  BY <3>1, <3>2, <3>3, <3>4, <3>5 DEF Sooner
    <2> QED  BY <2>5, <2>6
  <1> DEFINE chosen == CHOOSE one \in all : First(one)
  <1>6. chosen \in all /\ First(chosen)
    <2> HIDE DEF First
    <2> QED  BY <1>5
  <1>7. Demoted(mode) = chosen
    BY DEF Demoted, all
  <1> HIDE DEF chosen
  <1>8. \A other \in all : chosen.planned <= other.planned
    BY <1>4, <1>6
  <1> QED  BY <1>6, <1>7, <1>8 DEF all

LEMMA DemoteSpares ==
  ASSUME PlansInv, DemotionInv, Demote
  PROVE  DemotionInv'
  <1>1. PICK mode : /\ mode = Modes[Min(Illegal)]
                    /\ ticket' = [ticket EXCEPT ![mode][Demoted(mode).position] = ticket[mode][Demoted(mode).position] - 1]
    BY DEF Demote
  <1>2. /\ phase = "composing" /\ phase' = "composing" /\ Illegal # {} /\ plan' = plan /\ slate' = slate
        /\ forecasts' = forecasts
    BY DEF Demote, Go
  <1>3. mode \in ModeSet /\ ~IsLegal(product, ticket[mode])
    <2>1. Illegal \in SUBSET Nat /\ DOMAIN Modes = 1..3
      BY DEF Illegal, Modes
    <2>2. PICK n \in Illegal : \A m \in Illegal : n <= m
      BY <1>2, <2>1, LeastOfNumbers
    <2> DEFINE Low(x) == \A y \in Illegal : x <= y
    <2>3. \E n_1 \in Illegal : Low(n_1)
      BY <2>2
    <2>4. Min(Illegal) \in Illegal
      <3> DEFINE low == CHOOSE x \in Illegal : Low(x)
      <3>1. low \in Illegal
        <4> HIDE DEF Low
        <4> QED  BY <2>3
      <3>2. Min(Illegal) = low
        BY DEF Min
      <3> HIDE DEF low
      <3> QED  BY <3>1, <3>2
    <2>5. Min(Illegal) \in 1..3 /\ ~IsLegal(product, ticket[Modes[Min(Illegal)]])
      BY <2>1, <2>4 DEF Illegal
    <2>6. \A i \in 1..3 : Modes[i] \in ModeSet
      BY DEF Modes, ModeSet
    <2> QED  BY <1>1, <2>5, <2>6
  <1>4. ticket \in [ModeSet -> Assignments] /\ \A m \in ModeSet : Sparing(m)
    BY <1>2 DEF DemotionInv
  <1>5. plan \in [ModeSet -> Assignments]
    BY <1>2, PlansTyped DEF Planned
  <1> DEFINE one == Demoted(mode)
             p == one.position
  <1>6. one \in Demotions(mode) /\ \A other \in Demotions(mode) : one.planned <= other.planned
    BY <1>2, <1>3, DemotedIs
  <1> HIDE DEF one
  <1>7. p \in Positions /\ ticket[mode][p] > 1 /\ one.planned = (IF plan[mode][p] >= ticket[mode][p] THEN 1 ELSE 0)
    BY <1>6 DEF Demotions
  <1>8. \A q \in Positions : ticket[mode][q] \in 1..3 /\ plan[mode][q] \in 1..3
    BY <1>3, <1>4, <1>5 DEF Assignments
  <1>9. ticket' = [ticket EXCEPT ![mode][p] = ticket[mode][p] - 1]
    BY <1>1 DEF one
  <1> HIDE DEF p
  <1> DEFINE less == [ticket[mode] EXCEPT ![p] = ticket[mode][p] - 1]
  <1>10. less \in Assignments /\ less[p] = ticket[mode][p] - 1
         /\ \A q \in Positions : q # p => less[q] = ticket[mode][q]
    <2>1. ticket[mode] \in [Positions -> 1..3] /\ ticket[mode][p] - 1 \in 1..3
      BY <1>3, <1>4, <1>7, <1>8 DEF Assignments
    <2> QED  BY <1>7, <2>1 DEF Assignments
  <1>11. ticket' = [ticket EXCEPT ![mode] = less]
    BY <1>3, <1>4, <1>9
  <1> HIDE DEF less
  <1>12. /\ ticket' \in [ModeSet -> Assignments] /\ ticket'[mode] = less
         /\ \A m \in ModeSet : m # mode => ticket'[m] = ticket[m]
    BY <1>3, <1>4, <1>10, <1>11
  <1>13. Assignments' = Assignments /\ Positions' = Positions
    BY <1>2 DEF Assignments, Positions
  <1>14. \A m \in ModeSet : m # mode => Sparing(m)'
    <2> SUFFICES ASSUME NEW m \in ModeSet, m # mode PROVE Sparing(m)'
      OBVIOUS
    <2>1. ticket'[m] = ticket[m] /\ plan'[m] = plan[m] /\ Sparing(m)
      BY <1>2, <1>4, <1>12
    <2> QED  BY <1>2, <1>13, <2>1 DEF Sparing
  <1>15. Sparing(mode)'
    <2>1. CASE one.planned = 1
      \* Then everything left above a single was planned.
      <3>1. \A q \in Positions : ticket[mode][q] <= plan[mode][q]
        <4> SUFFICES ASSUME NEW q \in Positions, ticket[mode][q] > 1 PROVE ticket[mode][q] <= plan[mode][q]
          BY <1>8
        <4>1. PICK other \in Demotions(mode) :
                other.planned = (IF plan[mode][q] >= ticket[mode][q] THEN 1 ELSE 0)
          <5> DEFINE v == Decisions[q]
                     given == [position |-> q,
                               planned |-> IF plan[mode][q] >= ticket[mode][q] THEN 1 ELSE 0,
                               loss |-> IF ticket[mode][q] = 3 THEN v[Third(v)] ELSE v[Second(v)],
                               sixths |-> IF ticket[mode][q] = 3 THEN 4 ELSE 3]
          <5>1. given \in Demotions(mode)
            BY DEF Demotions
          <5> QED  BY <5>1
        <4>2. other.planned = 1
          <5>1. other.planned \in {0, 1} /\ one.planned <= other.planned
            BY <1>6, <4>1
          <5> QED  BY <2>1, <5>1
        <4>3. plan[mode][q] >= ticket[mode][q]
          BY <4>1, <4>2
        <4> QED  BY <1>8, <4>3
      <3>2. \A q \in Positions : less[q] <= plan[mode][q]
        <4> SUFFICES ASSUME NEW q \in Positions PROVE less[q] <= plan[mode][q]
          OBVIOUS
        <4>1. CASE q = p
          BY <1>7, <1>8, <1>10, <3>1, <4>1
        <4>2. CASE q # p
          BY <1>10, <3>1, <4>2
        <4> QED  BY <4>1, <4>2
      <3>3. \A q \in Positions' : ticket'[mode][q] <= plan'[mode][q]
        BY <1>2, <1>12, <1>13, <3>2
      <3> QED  BY <3>3 DEF Sparing
    <2>2. CASE one.planned # 1
      \* Then the mode was above its plan somewhere, and still is nowhere below it.
      <3>1. ~(plan[mode][p] >= ticket[mode][p])
        BY <1>7, <2>2
      <3>2. \A q \in Positions : \/ ticket[mode][q] >= plan[mode][q]
                                 \/ mode = "doubles" /\ ConfidentSingle(forecasts[q])
        <4>1. ~(ticket[mode][p] <= plan[mode][p])
          BY <1>7, <1>8, <3>1
        <4>2. Sparing(mode)
          BY <1>3, <1>4
        <4> QED  BY <1>7, <4>1, <4>2 DEF Sparing
      <3>3. \A q \in Positions : \/ less[q] >= plan[mode][q]
                                 \/ mode = "doubles" /\ ConfidentSingle(forecasts[q])
        <4> SUFFICES ASSUME NEW q \in Positions
                     PROVE  \/ less[q] >= plan[mode][q]
                            \/ mode = "doubles" /\ ConfidentSingle(forecasts[q])
          OBVIOUS
        <4>1. CASE q = p
          BY <1>7, <1>8, <1>10, <3>1, <4>1
        <4>2. CASE q # p
          BY <1>10, <3>2, <4>2
        <4> QED  BY <4>1, <4>2
      <3>4. \A q \in Positions : ConfidentSingle(forecasts[q])' <=> ConfidentSingle(forecasts[q])
        BY <1>2 DEF ConfidentSingle
      <3> QED  BY <1>2, <1>12, <1>13, <3>3, <3>4 DEF Sparing
    <2> QED  BY <2>1, <2>2
  <1>16. \A m \in ModeSet : Sparing(m)'
    BY <1>14, <1>15
  <1> QED  BY <1>12, <1>13, <1>16 DEF DemotionInv

LEMMA DemotionStep == PlansInv /\ DemotionInv /\ [TicketsNext]_vars => DemotionInv'
  <1> SUFFICES ASSUME PlansInv, DemotionInv, [TicketsNext]_vars PROVE DemotionInv'
    OBVIOUS
  <1>1. CASE phase' \notin {"composing", "judging"} /\ verdict' = NoVerdict
    BY <1>1 DEF DemotionInv, Composed
  <1>2. CASE /\ phase = "composing" \/ Composed
             /\ ticket' = ticket /\ plan' = plan /\ slate' = slate /\ forecasts' = forecasts
    <2>1. Assignments' = Assignments /\ Positions' = Positions
      BY <1>2 DEF Assignments, Positions
    <2>2. \A mode : Sparing(mode)' <=> Sparing(mode)
      BY <1>2, <2>1 DEF Sparing
    <2> QED  BY <1>2, <2>1, <2>2 DEF DemotionInv
  <1>3. CASE ScoreNext
    BY <1>1, <1>3 DEF ScoreNext, Go, PlansInv
  <1>4. CASE PlanTickets
    BY <1>1, <1>4 DEF PlanTickets, Go, PlansInv
  <1>5. CASE Recommend
    BY <1>5, RecommendSpares
  <1>6. CASE Demote
    BY <1>6, DemoteSpares
  <1>7. CASE \E audits \in [Positions -> Audits] : Compose(audits)
    BY <1>2, <1>7 DEF Compose, Go
  <1>8. CASE \E situation \in Situations : Judge(situation)
    BY <1>2, <1>8 DEF Judge, Go, Composed
  <1>9. CASE \E target \in Targets, least \in Positions : AnswerCoverageTarget(target, least)
    BY <1>1, <1>9 DEF AnswerCoverageTarget, Go, PlansInv
  <1>10. CASE UNCHANGED vars
    <2>1. CASE phase = "composing" \/ Composed
      BY <1>2, <1>10, <2>1 DEF vars
    <2>2. CASE ~(phase = "composing" \/ Composed)
      BY <1>10, <2>2 DEF vars, DemotionInv, Composed
    <2> QED  BY <2>1, <2>2
  <1> QED
    BY <1>3, <1>4, <1>5, <1>6, <1>7, <1>8, <1>9, <1>10 DEF TicketsNext

LEMMA DemotionSpares == PlansInv /\ DemotionInv => DemotionSparesThePlan
  <1> SUFFICES ASSUME PlansInv, DemotionInv, Composed, NEW mode \in ModeSet,
                      NEW p \in Positions, ticket[mode][p] < plan[mode][p],
                      mode = "doubles" => ~ConfidentSingle(forecasts[p])
               PROVE  \A q \in Positions : ticket[mode][q] <= plan[mode][q]
    BY DEF DemotionSparesThePlan
  <1>1. ticket \in [ModeSet -> Assignments] /\ Sparing(mode)
    BY DEF DemotionInv
  <1>2. plan \in [ModeSet -> Assignments]
    <2>1. Planned
      BY DEF Composed, Planned
    <2> QED  BY <2>1, PlansTyped
  <1>3. ticket[mode][p] \in 1..3 /\ plan[mode][p] \in 1..3
    BY <1>1, <1>2 DEF Assignments
  <1>4. ~(ticket[mode][p] >= plan[mode][p])
    BY <1>3
  <1> QED  BY <1>1, <1>4 DEF Sparing

LEMMA InitDemotionInv == TicketsInit => DemotionInv
  BY DEF TicketsInit, DemotionInv, Composed

LEMMA DemotionInvariant == TicketsSpec => []DemotionInv
  BY InitPlansInv, InitDemotionInv, PlansStep, DemotionStep, PTL DEF TicketsSpec

(***************************************************************************)
(* However many demotions a boleto takes, and whatever the limits, planned *)
(* coverage comes off only when no other is left                           *)
(* (_enforce_legal_composition).                                           *)
(***************************************************************************)
THEOREM DemotionsSpareThePlan == TicketsSpec => []DemotionSparesThePlan
  BY PlansInvariant, DemotionInvariant, DemotionSpares, PTL

------------------------------------------------------------------------------
(* The favourite of a forecast, from the model's vector to the decision.   *)

LEMMA RoundedBounds ==
  ASSUME NEW a \in Nat, NEW b \in Nat \ {0}
  PROVE  /\ Rounded(a, b) \in Nat
         /\ 2 * (b * Rounded(a, b)) <= 2 * a + b
         /\ 2 * a < 2 * (b * Rounded(a, b)) + b
  <1> DEFINE x == 2 * a + b
             y == 2 * b
             q == x \div y
  <1>1. x \in Nat /\ y \in Nat \ {0} /\ x = 2 * a + b /\ y = 2 * b
    OBVIOUS
  <1>2. Rounded(a, b) = q
    BY DEF Rounded
  <1> HIDE DEF x, y
  <1>3. q \in Nat /\ y * q <= x /\ x < y * q + y
    BY <1>1, DivBounds
  <1> HIDE DEF q
  <1>4. y * q = 2 * (b * q) /\ b * q \in Nat
    BY <1>1, <1>3
  <1> DEFINE bq == b * q
             yq == y * q
  <1>5. bq \in Nat /\ yq = 2 * bq /\ yq <= x /\ x < yq + y
    BY <1>3, <1>4
  <1> HIDE DEF bq, yq
  <1>6. 2 * bq <= 2 * a + b /\ 2 * a < 2 * bq + b
    BY <1>1, <1>5
  <1> QED  BY <1>2, <1>3, <1>6 DEF bq

LEMMA RoundedAs ==
  ASSUME NEW a \in Nat, NEW b \in Nat \ {0}, NEW r, r = Rounded(a, b)
  PROVE  /\ 2 * (b * r) <= 2 * a + b
         /\ 2 * a < 2 * (b * r) + b
  BY RoundedBounds

\* The three shares of a whole, rounded, miss it by one at most.
LEMMA SharesTotal ==
  ASSUME NEW v \in Weights, NEW c \in Nat \ {0}
  PROVE  Rounded(c * v["home"], Total(v)) + Rounded(c * v["draw"], Total(v)) + Rounded(c * v["away"], Total(v))
           \in (c - 1)..(c + 1)
  <1> DEFINE x == v["home"]
             y == v["draw"]
             z == v["away"]
             T == Total(v)
             cx == c * x
             cy == c * y
             cz == c * z
             p == Rounded(cx, T)
             q == Rounded(cy, T)
             r == Rounded(cz, T)
  <1>1. x \in Nat /\ y \in Nat /\ z \in Nat /\ T \in Nat \ {0} /\ T = x + y + z
    BY WeightsAre DEF Total
  <1> HIDE DEF x, y, z, T
  <1>2. cx \in Nat /\ cy \in Nat /\ cz \in Nat /\ cx + cy + cz = c * T
    BY <1>1
  <1> HIDE DEF cx, cy, cz
  <1>3. /\ p \in Nat /\ 2 * (T * p) <= 2 * cx + T /\ 2 * cx < 2 * (T * p) + T
        /\ q \in Nat /\ 2 * (T * q) <= 2 * cy + T /\ 2 * cy < 2 * (T * q) + T
        /\ r \in Nat /\ 2 * (T * r) <= 2 * cz + T /\ 2 * cz < 2 * (T * r) + T
    BY <1>1, <1>2, RoundedBounds
  <1> HIDE DEF p, q, r
  <1> DEFINE s == p + q + r
             Ts == T * s
             cT == c * T
  <1>4. s \in Nat /\ Ts = T * p + T * q + T * r /\ Ts \in Nat /\ cT \in Nat
    BY <1>1, <1>3
  <1>5. 2 * Ts <= 2 * cT + 3 * T /\ 2 * cT < 2 * Ts + 3 * T
    <2> DEFINE Tp == T * p
               Tq == T * q
               Tr == T * r
    <2>1. Tp \in Nat /\ Tq \in Nat /\ Tr \in Nat
      BY <1>1, <1>3
    <2>2. /\ 2 * Tp <= 2 * cx + T /\ 2 * cx < 2 * Tp + T
          /\ 2 * Tq <= 2 * cy + T /\ 2 * cy < 2 * Tq + T
          /\ 2 * Tr <= 2 * cz + T /\ 2 * cz < 2 * Tr + T
          /\ Ts = Tp + Tq + Tr /\ cx + cy + cz = cT
      BY <1>2, <1>3, <1>4
    <2> HIDE DEF Tp, Tq, Tr, Ts, cT
    <2> QED  BY <1>1, <1>2, <1>4, <2>1, <2>2
  <1>6. s <= c + 1
    <2> SUFFICES ASSUME s >= c + 2 PROVE FALSE
      BY <1>4
    <2>1. Ts >= T * (c + 2)
      <3> HIDE DEF s
      <3> QED  BY <1>1, <1>4
    <2>2. T * (c + 2) = cT + 2 * T
      BY <1>1
    <2> HIDE DEF Ts, cT
    <2> QED  BY <1>1, <1>4, <1>5, <2>1, <2>2
  <1>7. s >= c - 1
    <2> SUFFICES ASSUME s <= c - 2 PROVE FALSE
      BY <1>4
    <2>1. Ts <= T * (c - 2)
      <3> HIDE DEF s
      <3> QED  BY <1>1, <1>4
    <2>2. T * (c - 2) = cT - 2 * T
      BY <1>1
    <2> HIDE DEF Ts, cT
    <2> QED  BY <1>1, <1>4, <1>5, <2>1, <2>2
  <1>8. s \in (c - 1)..(c + 1)
    BY <1>4, <1>6, <1>7
  <1> QED  BY <1>8 DEF s, p, q, r, cx, cy, cz, x, y, z, T

LEMMA NormalizedTotal ==
  ASSUME NEW v \in Weights
  PROVE  Total(Normalized(v)) \in 999..1001
  <1> DEFINE c == 1000
  <1>1. c \in Nat \ {0}
    OBVIOUS
  <1> HIDE DEF c
  <1>2. Rounded(c * v["home"], Total(v)) + Rounded(c * v["draw"], Total(v)) + Rounded(c * v["away"], Total(v))
          \in (c - 1)..(c + 1)
    BY <1>1, SharesTotal
  <1>3. /\ Normalized(v)["home"] = Rounded(c * v["home"], Total(v))
        /\ Normalized(v)["draw"] = Rounded(c * v["draw"], Total(v))
        /\ Normalized(v)["away"] = Rounded(c * v["away"], Total(v))
    BY DEF Normalized, Outcomes, c
  <1>4. Total(Normalized(v)) \in (c - 1)..(c + 1)
    BY <1>2, <1>3 DEF Total
  <1> QED  BY <1>4 DEF c

\* One outcome stays ahead of another when the vector is normalized.
LEMMA NormalizedKeeps ==
  ASSUME NEW v \in Weights, NEW b \in Outcomes, NEW o \in Outcomes, NEW j \in Nat, NEW k \in Nat,
         j * Total(v) <= 1000 * k, v[b] >= v[o] + k
  PROVE  Normalized(v)[b] >= Normalized(v)[o] + j
  <1> DEFINE x == v[b]
             y == v[o]
             T == Total(v)
             p == 1000 * x
             q == 1000 * y
             jT == j * T
  <1>1. x \in Nat /\ y \in Nat /\ T \in Nat \ {0}
    BY WeightsAre
  <1>2. Normalized(v)[b] = Rounded(p, T) /\ Normalized(v)[o] = Rounded(q, T)
    BY NormalizedTyped
  <1>3. jT <= 1000 * k /\ x >= y + k
    OBVIOUS
  <1> HIDE DEF x, y, T
  <1>4. jT \in Nat
    BY <1>1
  <1>5. p \in Nat /\ q \in Nat
    BY <1>1
  <1>6. p >= q + jT
    <2> HIDE DEF jT
    <2> QED  BY <1>1, <1>3, <1>4
  <1> HIDE DEF p, q
  <1>7. Rounded(p, T) >= Rounded(q, T) + j
    BY <1>1, <1>5, <1>6, RoundedShift
  <1> QED  BY <1>2, <1>7

\* A strict favourite is the best, and the signal.
LEMMA FavouriteIsBest ==
  ASSUME NEW v \in [Outcomes -> Int]
  PROVE  /\ \A b \in Outcomes : (\A o \in Outcomes \ {b} : v[o] < v[b]) => Best(v) = b
         /\ Gap(v) > 0 => /\ \A o \in Outcomes \ {Best(v)} : v[o] < v[Best(v)]
                          /\ RecommendedOutcome(v) = Best(v)
  <1>1. /\ {Best(v), Second(v), Third(v)} = Outcomes
        /\ v[Best(v)] >= v[Second(v)] /\ v[Second(v)] >= v[Third(v)]
        /\ \A o \in Outcomes : v[Best(v)] >= v[o]
    BY RanksAre
  <1> DEFINE best == Best(v)
             second == Second(v)
             third == Third(v)
  <1>2. best \in Outcomes /\ second \in Outcomes /\ third \in Outcomes
    BY <1>1
  <1>3. Gap(v) = v[best] - v[second]
    BY DEF Gap
  <1> HIDE DEF best, second, third
  <1>4. \A o \in Outcomes : v[o] \in Int /\ v[best] >= v[o]
    BY <1>1 DEF best
  <1>5. ASSUME NEW b \in Outcomes, \A o \in Outcomes \ {b} : v[o] < v[b]
        PROVE  best = b
    <2>1. best # b => v[best] < v[b]
      BY <1>2, <1>5
    <2>2. v[best] >= v[b] /\ v[best] \in Int /\ v[b] \in Int
      BY <1>2, <1>4
    <2> QED  BY <2>1, <2>2
  <1>6. ASSUME Gap(v) > 0
        PROVE  \A o \in Outcomes \ {best} : v[o] < v[best]
    <2> SUFFICES ASSUME NEW o \in Outcomes \ {best} PROVE v[o] < v[best]
      OBVIOUS
    <2>1. o = second \/ o = third
      BY <1>1 DEF best, second, third
    <2>2. v[second] < v[best] /\ v[third] <= v[second]
      <3>1. v[second] >= v[third]
        BY <1>1 DEF second, third
      <3> QED  BY <1>2, <1>3, <1>4, <1>6, <3>1
    <2> QED  BY <1>2, <1>4, <2>1, <2>2
  <1>7. ASSUME Gap(v) > 0
        PROVE  RecommendedOutcome(v) = best
    <2>1. \A o \in Outcomes \ {best} : v[o] < v[best]
      BY <1>6, <1>7
    <2>2. v["home"] \in Int /\ v["draw"] \in Int /\ v["away"] \in Int
      BY DEF Outcomes
    <2>3. CASE best = "home"
      <3>1. v["draw"] < v["home"] /\ v["away"] < v["home"]
        BY <2>1, <2>3 DEF Outcomes
      <3> QED  BY <2>2, <2>3, <3>1 DEF RecommendedOutcome
    <2>4. CASE best = "draw"
      <3>1. v["home"] < v["draw"] /\ v["away"] < v["draw"]
        BY <2>1, <2>4 DEF Outcomes
      <3> QED  BY <2>2, <2>4, <3>1 DEF RecommendedOutcome
    <2>5. CASE best = "away"
      <3>1. v["home"] < v["away"] /\ v["draw"] < v["away"]
        BY <2>1, <2>5 DEF Outcomes
      <3> QED  BY <2>2, <2>5, <3>1 DEF RecommendedOutcome
    <2> QED  BY <1>2, <2>3, <2>4, <2>5 DEF Outcomes
  <1> QED  BY <1>5, <1>6, <1>7 DEF best

LEMMA AdjustedTotal ==
  ASSUME NEW m \in MatchData
  PROVE  Total(Adjusted(m)) \in 990..1010
  <1>1. PICK v \in Weights : Adjusted(m) = [o \in Outcomes |-> 10 * Rounded(100 * v[o], Total(v))]
    BY AdjustedTyped
  <1> DEFINE c == 100
             h == Rounded(c * v["home"], Total(v))
             d == Rounded(c * v["draw"], Total(v))
             a == Rounded(c * v["away"], Total(v))
  <1>2. Total(Adjusted(m)) = 10 * h + 10 * d + 10 * a
    BY <1>1 DEF Total, Outcomes
  <1>3. c \in Nat \ {0} /\ c >= 10 /\ c = 100
    OBVIOUS
  <1> HIDE DEF c
  <1>4. h + d + a \in (c - 1)..(c + 1)
    BY <1>3, SharesTotal
  <1>5. h \in Nat /\ d \in Nat /\ a \in Nat
    BY <1>3, SharesAre DEF Outcomes
  <1> HIDE DEF h, d, a
  <1> QED  BY <1>2, <1>3, <1>4, <1>5

\* The sides gain what the draw frees, or one more, and the stronger side no less of it.
LEMMA GainsAre ==
  ASSUME NEW m \in MatchData, NEW v \in Weights, \A o \in Outcomes : \E n \in Nat : v[o] = 10 * n
  PROVE  /\ Total(Raised(m, v)) <= Total(v) + 1
         /\ \A b, o \in {"home", "away"} : v[b] >= v[o] => Gain(m, v, b) >= Gain(m, v, o)
  <1> DEFINE h == v["home"]
             a == v["away"]
             f == Freed(m, v)
             s == h + a
             fh == f * h
             fa == f * a
             g == Gain(m, v, "home")
             k == Gain(m, v, "away")
  <1>1. /\ h \in Nat /\ a \in Nat /\ v["draw"] \in Nat /\ f \in Nat /\ g \in Nat /\ k \in Nat
        /\ Total(v) = h + v["draw"] + a
        /\ Total(Raised(m, v)) = h + g + (v["draw"] - f) + (a + k)
    BY WeightsAre, RaisedTyped DEF Total
  <1>2. CASE s = 0
    <2>1. g = f \div 2 /\ k = f \div 2
      BY <1>2 DEF Gain
    <2> HIDE DEF h, a, f, g, k
    <2>2. g + k <= f
      BY <1>1, <2>1
    <2>3. Total(Raised(m, v)) <= Total(v) + 1
      BY <1>1, <2>2
    <2>4. \A b, o \in {"home", "away"} : Gain(m, v, b) >= Gain(m, v, o)
      BY <1>1, <2>1 DEF g, k
    <2> QED  BY <2>3, <2>4
  <1>3. CASE s # 0
    <2>1. g = Rounded(fh, s) /\ k = Rounded(fa, s)
      BY <1>3 DEF Gain
    <2>2. fh \in Nat /\ fa \in Nat /\ s \in Nat \ {0} /\ fh + fa = f * s
      <3> HIDE DEF h, a, f
      <3> QED  BY <1>1, <1>3
    <2>3. h >= a => fh >= fa
      <3> HIDE DEF h, a, f
      <3> QED  BY <1>1
    <2>4. a >= h => fa >= fh
      <3> HIDE DEF h, a, f
      <3> QED  BY <1>1
    <2> HIDE DEF f, s, fh, fa, g, k
    <2>5. /\ 2 * (s * g) <= 2 * fh + s
          /\ 2 * (s * k) <= 2 * fa + s
      BY <2>1, <2>2, RoundedBounds
    <2>6. g + k <= f + 1
      <3> SUFFICES ASSUME g + k >= f + 2 PROVE FALSE
        BY <1>1
      <3>1. s * (g + k) >= s * (f + 2)
        BY <1>1, <2>2
      <3>2. s * (g + k) = s * g + s * k /\ s * (f + 2) = f * s + 2 * s
        BY <1>1, <2>2
      <3> DEFINE sg == s * g
                 sk == s * k
                 fs == f * s
      <3>3. sg \in Nat /\ sk \in Nat /\ fs \in Nat
        BY <1>1, <2>2
      <3>4. 2 * sg <= 2 * fh + s /\ 2 * sk <= 2 * fa + s /\ fh + fa = fs /\ sg + sk >= fs + 2 * s
        BY <2>2, <2>5, <3>1, <3>2
      <3> HIDE DEF sg, sk, fs
      <3> QED  BY <2>2, <3>3, <3>4
    <2>7. Total(Raised(m, v)) <= Total(v) + 1
      <3> HIDE DEF h, a
      <3> QED  BY <1>1, <2>6
    <2>8. (h >= a => g >= k) /\ (a >= h => k >= g)
      <3>1. 0 \in Nat /\ fh = fh + 0 * s /\ fa = fa + 0 * s
        BY <2>2
      <3>2. h >= a => Rounded(fh, s) >= Rounded(fa, s) + 0
        <4>1. h >= a => fh >= fa + 0 * s
          BY <2>2, <2>3
        <4> HIDE DEF h, a
        <4> QED  BY <2>2, <3>1, <4>1, RoundedShift
      <3>3. a >= h => Rounded(fa, s) >= Rounded(fh, s) + 0
        <4>1. a >= h => fa >= fh + 0 * s
          BY <2>2, <2>4
        <4> HIDE DEF h, a
        <4> QED  BY <2>2, <3>1, <4>1, RoundedShift
      <3> HIDE DEF h, a
      <3> QED  BY <1>1, <2>1, <3>2, <3>3
    <2>9. \A b, o \in {"home", "away"} : v[b] >= v[o] => Gain(m, v, b) >= Gain(m, v, o)
      BY <1>1, <2>8 DEF g, k
    <2> QED  BY <2>7, <2>9
  <1> QED  BY <1>2, <1>3

\* Half of a total, a little more of it and nothing of it, in thousandths.
LEMMA HalvesAre ==
  ASSUME NEW t \in Nat \ {0}, NEW x \in Nat, NEW y \in Nat, NEW z \in Nat,
         501 = Rounded(1000 * x, t), 500 = Rounded(1000 * y, t), 0 = Rounded(1000 * z, t)
  PROVE  /\ 1002 * t <= 2 * (1000 * x) + t
         /\ 1000 * t <= 2 * (1000 * y) + t
         /\ 2 * (1000 * z) < t
  <1> DEFINE a == 1000 * x
             b == 1000 * y
             c == 1000 * z
  <1>1. a \in Nat /\ b \in Nat /\ c \in Nat
    OBVIOUS
  <1> DEFINE more == 501
             half == 500
             none == 0
  <1>2. more = Rounded(a, t) /\ half = Rounded(b, t) /\ none = Rounded(c, t)
    OBVIOUS
  <1> HIDE DEF a, b, c, more, half, none
  <1>3. 2 * (t * more) <= 2 * a + t
    BY <1>1, <1>2, RoundedAs
  <1>4. 2 * (t * half) <= 2 * b + t
    BY <1>1, <1>2, RoundedAs
  <1>5. 2 * c < 2 * (t * none) + t
    BY <1>1, <1>2, RoundedAs
  <1>6. /\ 2 * (t * more) = 1002 * t
        /\ 2 * (t * half) = 1000 * t
        /\ 2 * (t * none) = 0
    BY DEF more, half, none
  <1> QED  BY <1>1, <1>3, <1>4, <1>5, <1>6 DEF a, b, c

\* Who is ahead after one rounding is ahead after a second one.
LEMMA RenormalizedKeeps ==
  ASSUME NEW w \in Weights, Total(w) < 2000, NEW b \in Outcomes, NEW o \in Outcomes,
         Normalized(w)[b] > Normalized(w)[o]
  PROVE  Normalized(Normalized(w))[b] > Normalized(Normalized(w))[o]
  <1> DEFINE v == Normalized(w)
             x == v[b]
             y == v[o]
             S == Total(v)
             p == Normalized(v)[b]
             q == Normalized(v)[o]
  <1>1. v \in Weights /\ x \in Nat /\ y \in Nat /\ x > y
    BY NormalizedTyped, WeightsAre
  <1>2. S \in 999..1001
    BY NormalizedTotal
  <1>3. p \in Nat /\ q \in Nat /\ p = Rounded(1000 * x, S) /\ q = Rounded(1000 * y, S)
    <2> HIDE DEF v
    <2> QED  BY <1>1, NormalizedTyped, WeightsAre
  <1>4. \A k \in Nat : 1 * S <= 1000 * k /\ x >= y + k => p >= q + 1
    <2>1. 1 \in Nat
      OBVIOUS
    <2> HIDE DEF v
    <2> QED  BY <1>1, <2>1, NormalizedKeeps
  <1> SUFFICES ASSUME p <= q PROVE FALSE
    BY <1>3
  <1> HIDE DEF v, x, y, S, p, q
  <1>5. S = 1001 /\ x = y + 1
    <2>1. ~(1 * S <= 1000 * 1 /\ x >= y + 1)
      <3>1. 1 \in Nat /\ ~(p >= q + 1)
        BY <1>3
      <3> QED  BY <1>4, <3>1
    <2>2. ~(1 * S <= 1000 * 2 /\ x >= y + 2)
      <3>1. 2 \in Nat /\ ~(p >= q + 1)
        BY <1>3
      <3> QED  BY <1>4, <3>1
    <2> QED  BY <1>1, <1>2, <2>1, <2>2
  <1>6. x <= 1001 /\ y <= 1001 /\ \A c \in Outcomes \ {b, o} : v[c] = 1001 - x - y
    <2>1. v["home"] \in Nat /\ v["draw"] \in Nat /\ v["away"] \in Nat /\ b # o
          /\ S = v["home"] + v["draw"] + v["away"]
      BY <1>1, WeightsAre DEF Total, S, x, y
    <2>2. x <= S /\ y <= S
      BY <1>1, WeightsAre DEF x, y, S
    <2>3. \A c \in Outcomes \ {b, o} : v[c] = S - x - y
      <3> DEFINE h == "home"
                 d == "draw"
                 a == "away"
      <3>1. Outcomes = {h, d, a} /\ h # d /\ d # a /\ h # a
        BY DEF Outcomes
      <3>2. v[h] \in Nat /\ v[d] \in Nat /\ v[a] \in Nat /\ S = v[h] + v[d] + v[a]
        BY <2>1
      <3> HIDE DEF h, d, a
      <3> SUFFICES ASSUME NEW c \in Outcomes \ {b, o} PROVE v[c] = S - v[b] - v[o]
        BY DEF x, y
      <3>3. \/ (c = h /\ b = d /\ o = a) \/ (c = h /\ b = a /\ o = d)
            \/ (c = d /\ b = h /\ o = a) \/ (c = d /\ b = a /\ o = h)
            \/ (c = a /\ b = h /\ o = d) \/ (c = a /\ b = d /\ o = h)
        BY <2>1, <3>1
      <3> QED  BY <3>2, <3>3
    <2> QED  BY <1>5, <2>2, <2>3
  <1>7. x = 501 /\ y = 500
    <2> DEFINE c == 1001
               ax == 1000 * x
               ay == 1000 * y
    <2>1. c \in Nat \ {0} /\ ax \in Nat /\ ay \in Nat
      BY <1>1
    <2>2. p = Rounded(ax, c) /\ q = Rounded(ay, c)
      BY <1>3, <1>5
    <2> HIDE DEF c, ax, ay
    <2>3. /\ 2 * ax < 2 * (c * p) + c
          /\ 2 * (c * q) <= 2 * ay + c
      BY <2>1, <2>2, RoundedBounds
    <2>4. /\ 2000 * x < 2002 * p + 1001
          /\ 2002 * q <= 2000 * y + 1001
      BY <1>1, <1>3, <2>3 DEF c, ax, ay
    <2>5. 2000 * y + 999 < 2002 * q
      BY <1>1, <1>3, <1>5, <2>4
    <2> DEFINE t == y - q
    <2>6. t \in Int /\ 2 * y > 999 + 2002 * t /\ 2 * y <= 1001 + 2002 * t
      BY <1>1, <1>3, <2>4, <2>5
    <2> HIDE DEF t
    <2>7. t = 0
      BY <1>1, <1>6, <2>6
    <2> QED  BY <1>1, <1>5, <2>6, <2>7
  <1> DEFINE T == Total(w)
             wb == w[b]
             wo == w[o]
  <1>8. PICK c \in Outcomes : c # b /\ c # o /\ T = wb + wo + w[c]
    <2>1. b # o
      BY <1>1 DEF x, y
    <2> DEFINE h == "home"
               d == "draw"
               a == "away"
    <2>2. Outcomes = {h, d, a} /\ h # d /\ d # a /\ h # a
      BY DEF Outcomes
    <2>3. w[h] \in Nat /\ w[d] \in Nat /\ w[a] \in Nat /\ T = w[h] + w[d] + w[a]
      BY WeightsAre DEF Total
    <2> HIDE DEF h, d, a, T
    <2>4. \/ (b = d /\ o = a) \/ (b = a /\ o = d)
          \/ (b = h /\ o = a) \/ (b = a /\ o = h)
          \/ (b = h /\ o = d) \/ (b = d /\ o = h)
      BY <2>1, <2>2
    <2> QED  BY <2>2, <2>3, <2>4
  <1> DEFINE wc == w[c]
  <1>9. T \in Nat \ {0} /\ wb \in Nat /\ wo \in Nat /\ wc \in Nat /\ T < 2000
    BY WeightsAre
  <1>10. /\ 501 = Rounded(1000 * wb, T) /\ 500 = Rounded(1000 * wo, T) /\ 0 = Rounded(1000 * wc, T)
    <2>1. v[c] = 0
      BY <1>6, <1>7, <1>8
    <2> QED  BY <1>7, <2>1, NormalizedTyped DEF v, x, y
  <1> HIDE DEF T, wb, wo, wc
  <1>11. /\ 1002 * T <= 2 * (1000 * wb) + T
         /\ 1000 * T <= 2 * (1000 * wo) + T
         /\ 2 * (1000 * wc) < T
    BY <1>9, <1>10, HalvesAre
  <1>12. wc = 0
    BY <1>9, <1>11
  <1>13. 2000 * wb = 1001 * T
    BY <1>8, <1>9, <1>11, <1>12 DEF wc
  <1> QED  BY <1>9, <1>13

\* One side stays ahead of the other, by some thousandths, through the model's roundings.
LEMMA ModelledParts ==
  ASSUME NEW m \in MatchData
  PROVE  /\ Total(Modelled(m)) \in Nat /\ Total(Modelled(m)) <= 1010
         /\ \A b, o \in Outcomes : Modelled(m)[b] > Modelled(m)[o] =>
              /\ Normalized(Modelled(m))[b] > Normalized(Modelled(m))[o]
              /\ {b, o} = {"home", "away"} =>
                   Normalized(Modelled(m))[b] >= Normalized(Modelled(m))[o] + 3
  <1> DEFINE a == Adjusted(m)
             w == Raised(m, a)
  <1>1. a \in Weights /\ \A o \in Outcomes : \E n \in Nat : a[o] = 10 * n
    BY AdjustedTyped
  <1>2. Total(a) \in 990..1010
    BY AdjustedTotal
  <1>3. \A b, o \in Outcomes : a[b] > a[o] => a[b] >= a[o] + 10
    <2> SUFFICES ASSUME NEW b \in Outcomes, NEW o \in Outcomes, a[b] > a[o] PROVE a[b] >= a[o] + 10
      OBVIOUS
    <2>1. PICK i \in Nat : a[b] = 10 * i
      BY <1>1
    <2>2. PICK j \in Nat : a[o] = 10 * j
      BY <1>1
    <2> HIDE DEF a
    <2> QED  BY <2>1, <2>2
  <1>4. CASE ~m.knockout
    <2>1. Modelled(m) = a
      BY <1>4 DEF Modelled
    <2>2. ASSUME NEW b \in Outcomes, NEW o \in Outcomes, a[b] > a[o]
          PROVE  Normalized(a)[b] >= Normalized(a)[o] + 3
      <3>1. a[b] >= a[o] + 10 /\ 3 * Total(a) <= 1000 * 10 /\ 3 \in Nat /\ 10 \in Nat
        BY <1>2, <1>3, <2>2
      <3> HIDE DEF a
      <3> QED  BY <1>1, <3>1, NormalizedKeeps
    <2>3. Normalized(a) \in [Outcomes -> Nat]
      <3> HIDE DEF a
      <3> QED  BY <1>1, NormalizedTyped, WeightsAre
    <2> HIDE DEF a
    <2>4. \A b, o \in Outcomes : Normalized(a)[b] >= Normalized(a)[o] + 3 => Normalized(a)[b] > Normalized(a)[o]
      <3> SUFFICES ASSUME NEW b \in Outcomes, NEW o \in Outcomes,
                          Normalized(a)[b] >= Normalized(a)[o] + 3
                   PROVE  Normalized(a)[b] > Normalized(a)[o]
        OBVIOUS
      <3>1. Normalized(a)[b] \in Nat /\ Normalized(a)[o] \in Nat
        BY <2>3
      <3> QED  BY <3>1
    <2> QED  BY <1>2, <2>1, <2>2, <2>4
  <1>5. CASE m.knockout
    <2>1. Modelled(m) = Normalized(w)
      BY <1>5, KnockoutIsNormalized DEF Modelled
    <2>2. /\ w \in Weights /\ Total(w) <= 1011
          /\ w["home"] = a["home"] + Gain(m, a, "home") /\ w["away"] = a["away"] + Gain(m, a, "away")
          /\ Gain(m, a, "home") \in Nat /\ Gain(m, a, "away") \in Nat
          /\ \A b, o \in {"home", "away"} : a[b] >= a[o] => Gain(m, a, b) >= Gain(m, a, o)
      <3>1. Total(w) <= Total(a) + 1
        BY <1>1, GainsAre
      <3>2. \A b, o \in {"home", "away"} : a[b] >= a[o] => Gain(m, a, b) >= Gain(m, a, o)
        BY <1>1, GainsAre
      <3>3. w \in Weights
        BY <1>1, RaisedTyped
      <3>4. Total(w) \in Nat
        BY <3>3, WeightsAre
      <3>5. Total(w) <= 1011
        <4> HIDE DEF a, w
        <4> QED  BY <1>2, <3>1, <3>4
      <3> QED  BY <1>1, <3>2, <3>3, <3>5, RaisedTyped
    <2>3. Total(w) \in Nat /\ Total(w) < 2000 /\ \A o \in Outcomes : w[o] \in Nat /\ a[o] \in Nat
      <3> HIDE DEF a, w
      <3> QED  BY <1>1, <2>2, WeightsAre
    <2> HIDE DEF a, w
    <2> DEFINE v == Normalized(w)
    <2>4. v \in Weights /\ Total(v) \in 999..1001 /\ \A o \in Outcomes : v[o] \in Nat
      <3>1. v \in Weights /\ Total(v) \in 999..1001
        BY <2>2, NormalizedTyped, NormalizedTotal
      <3> HIDE DEF v
      <3> QED  BY <3>1, WeightsAre
    <2>5. ASSUME NEW b \in Outcomes, NEW o \in Outcomes, v[b] > v[o] PROVE w[b] > w[o]
      <3> SUFFICES ASSUME w[o] >= w[b] PROVE FALSE
        BY <2>3
      <3>1. 0 \in Nat /\ 0 * Total(w) <= 1000 * 0 /\ w[o] >= w[b] + 0
        BY <2>3
      <3>2. v[o] >= v[b] + 0
        BY <2>2, <3>1, NormalizedKeeps
      <3> HIDE DEF v
      <3> QED  BY <2>4, <2>5, <3>2
    <2>6. ASSUME NEW b \in {"home", "away"}, NEW o \in {"home", "away"}, v[b] > v[o]
          PROVE  w[b] >= w[o] + 10
      <3>1. b \in Outcomes /\ o \in Outcomes
        BY DEF Outcomes
      <3>2. w[b] > w[o]
        BY <2>5, <2>6, <3>1
      <3>3. w[b] = a[b] + Gain(m, a, b) /\ w[o] = a[o] + Gain(m, a, o)
            /\ Gain(m, a, b) \in Nat /\ Gain(m, a, o) \in Nat /\ a[b] \in Nat /\ a[o] \in Nat
        BY <2>2, <2>3, <3>1
      <3>4. a[b] > a[o]
        <4> SUFFICES ASSUME a[o] >= a[b] PROVE FALSE
          BY <3>3
        <4>1. Gain(m, a, o) >= Gain(m, a, b)
          BY <2>2
        <4> QED  BY <3>2, <3>3, <4>1
      <3>5. a[b] >= a[o] + 10 /\ Gain(m, a, b) >= Gain(m, a, o)
        <4>1. a[b] >= a[o]
          BY <3>3, <3>4
        <4> QED  BY <1>3, <2>2, <3>1, <3>4, <4>1
      <3> QED  BY <3>3, <3>5
    <2>7. ASSUME NEW b \in {"home", "away"}, NEW o \in {"home", "away"}, v[b] > v[o]
          PROVE  v[b] >= v[o] + 4
      <3>1. b \in Outcomes /\ o \in Outcomes /\ w[b] >= w[o] + 10
        BY <2>6, <2>7 DEF Outcomes
      <3>2. 4 * Total(w) <= 1000 * 10 /\ 4 \in Nat /\ 10 \in Nat
        BY <2>2, <2>3
      <3> QED  BY <2>2, <3>1, <3>2, NormalizedKeeps
    <2>8. ASSUME NEW b \in Outcomes, NEW o \in Outcomes, v[b] > v[o]
          PROVE  /\ Normalized(v)[b] > Normalized(v)[o]
                 /\ {b, o} = {"home", "away"} => Normalized(v)[b] >= Normalized(v)[o] + 3
      <3>1. Normalized(v)[b] > Normalized(v)[o]
        BY <2>2, <2>3, <2>8, RenormalizedKeeps
      <3>2. ASSUME {b, o} = {"home", "away"} PROVE Normalized(v)[b] >= Normalized(v)[o] + 3
        <4>1. b \in {"home", "away"} /\ o \in {"home", "away"}
          BY <3>2
        <4>2. v[b] >= v[o] + 4
          BY <2>7, <2>8, <4>1
        <4>3. 3 * Total(v) <= 1000 * 4 /\ 3 \in Nat /\ 4 \in Nat
          BY <2>4
        <4> HIDE DEF v
        <4> QED  BY <2>4, <4>2, <4>3, NormalizedKeeps
      <3> QED  BY <3>1, <3>2
    <2>9. Total(v) \in Nat /\ Total(v) <= 1010
      BY <2>4
    <2> QED  BY <2>1, <2>8, <2>9
  <1>6. m.knockout \in BOOLEAN
    BY DEF MatchData
  <1> QED  BY <1>4, <1>5, <1>6

\* Shrunk toward the prior, a favourite above the cap stays well ahead.
LEMMA ShrunkKeeps ==
  ASSUME NEW v \in Weights, Total(v) <= 1010, NEW cap \in {600, 650, 900}, v[Best(v)] > cap,
         NEW o \in Outcomes, o # Best(v)
  PROVE  Normalized(ShrunkTowardPrior(v, cap))[Best(v)] >= Normalized(ShrunkTowardPrior(v, cap))[o] + 3
  <1> DEFINE b == Best(v)
             x == v[b]
             keep == 3 * cap - 1000
             of == 3 * x - 1000
             mass(r) == 3 * keep * v[r] + (of - keep) * 1000
             w == ShrunkTowardPrior(v, cap)
             most == cap - 150
  <1>1. /\ b \in Outcomes /\ x \in Nat /\ Total(v) \in Nat
        /\ \A r \in Outcomes : v[r] \in Nat /\ (r # b => v[r] + x <= 1010)
    <2>1. b \in Outcomes /\ x \in Nat /\ Total(v) \in Nat /\ \A r \in Outcomes : v[r] \in Nat
      BY WeightsAre
    <2>2. Total(v) = x + v[Second(v)] + v[Third(v)] /\ Outcomes = {b, Second(v), Third(v)}
      BY WeightsAre, RanksAre
    <2>3. v[Second(v)] \in Nat /\ v[Third(v)] \in Nat
      BY WeightsAre
    <2> HIDE DEF b, x
    <2> QED  BY <2>1, <2>2, <2>3
  <1>2. w \in Weights /\ w[b] = cap
    BY ShrunkTyped
  <1>3. \A r \in Outcomes : w[r] = Rounded(mass(r), 3 * of)
    <2>1. ~(v[Best(v)] <= cap)
      BY <1>1
    <2>2. w = [r \in Outcomes |-> Rounded(mass(r), 3 * of)]
      BY <2>1 DEF ShrunkTowardPrior
    <2> HIDE DEF w, mass, of
    <2> QED  BY <2>2
  <1> HIDE DEF b, x, w
  <1>4. ASSUME NEW r \in Outcomes, r # b PROVE w[r] \in Nat /\ w[r] <= most
    <2> DEFINE y == v[r]
               a == mass(r)
               t == 3 * of
    <2>1. y \in Nat /\ y + x <= 1010 /\ x > cap
      BY <1>1, <1>4 DEF b, x
    <2>2. a \in Nat /\ t \in Nat \ {0} /\ a <= most * t /\ most \in Nat
      <3>1. a = 3 * (3 * cap - 1000) * y + ((3 * x - 1000) - (3 * cap - 1000)) * 1000 /\ t = 3 * (3 * x - 1000)
            /\ most = cap - 150
        OBVIOUS
      <3> HIDE DEF y, a, t, most
      <3>2. CASE cap = 600
        BY <1>1, <2>1, <3>1, <3>2
      <3>3. CASE cap = 650
        BY <1>1, <2>1, <3>1, <3>3
      <3>4. CASE cap = 900
        BY <1>1, <2>1, <3>1, <3>4
      <3> QED  BY <3>2, <3>3, <3>4
    <2>3. w[r] = Rounded(a, t)
      BY <1>3
    <2> HIDE DEF a, t, most
    <2> QED  BY <2>2, <2>3, RoundedIs
  <1>5. Total(w) \in Nat /\ Total(w) <= 2700
    <2>1. \A r \in Outcomes : w[r] \in Nat /\ w[r] <= 900
      <3> SUFFICES ASSUME NEW r \in Outcomes PROVE w[r] \in Nat /\ w[r] <= 900
        OBVIOUS
      <3>1. CASE r = b
        BY <1>2, <3>1
      <3>2. CASE r # b
        BY <1>4, <3>2
      <3> QED  BY <3>1, <3>2
    <2>2. Total(w) = w["home"] + w["draw"] + w["away"]
      BY DEF Total
    <2> QED  BY <2>1, <2>2 DEF Outcomes
  <1>6. w[b] >= w[o] + 150
    <2>1. o # b
      BY DEF b
    <2>2. w[o] \in Nat /\ w[o] <= most
      BY <1>4, <2>1
    <2> QED  BY <1>2, <2>2
  <1>7. 3 * Total(w) <= 1000 * 150 /\ 3 \in Nat /\ 150 \in Nat
    BY <1>5
  <1>8. Normalized(w)[b] >= Normalized(w)[o] + 3
    BY <1>1, <1>2, <1>6, <1>7, NormalizedKeeps
  <1> QED  BY <1>8 DEF w, b

\* The sanity layer keeps a strict favourite, a side ahead of the other by thousandths.
Ahead(v, b) ==
  \A o \in Outcomes \ {b} : v[b] > v[o] /\ ({b, o} = {"home", "away"} => v[b] >= v[o] + 3)

LEMMA SaneKeeps ==
  ASSUME NEW m \in MatchData, Gap(Modelled(m)) > 0
  PROVE  /\ Best(Modelled(m)) \in Outcomes
         /\ Sane(m, Modelled(m)) \in Weights
         /\ Total(Sane(m, Modelled(m))) \in 999..1001
         /\ Ahead(Sane(m, Modelled(m)), Best(Modelled(m)))
  <1> DEFINE v == Modelled(m)
             b == Best(v)
             cap == Cap(m, v)
             w == ShrunkTowardPrior(v, cap)
             n == Normalized(w)
  <1>1. v \in Weights /\ v \in [Outcomes -> Int] /\ Total(v) \in Nat /\ Total(v) <= 1010 /\ b \in Outcomes
        /\ v[b] \in Int
    BY ModelledTyped, WeightsAre, ModelledParts
  <1>2. \A o \in Outcomes \ {b} : v[b] > v[o]
    <2>1. \A o \in Outcomes \ {b} : v[o] < v[b]
      BY <1>1, FavouriteIsBest
    <2> QED  BY <2>1, <1>1
  <1>3. cap \in {600, 650, 900} /\ Sane(m, v) = n /\ w \in Weights
    BY <1>1, CapIs, SaneTyped DEF Sane
  <1>4. n \in Weights /\ Total(n) \in 999..1001
    BY <1>3, NormalizedTyped, NormalizedTotal
  <1>5. CASE v[b] <= cap
    <2>1. w = v
      BY <1>5 DEF ShrunkTowardPrior
    <2>2. \A o \in Outcomes \ {b} : Normalized(v)[b] > Normalized(v)[o]
             /\ ({b, o} = {"home", "away"} => Normalized(v)[b] >= Normalized(v)[o] + 3)
      <3>1. \A p, o \in Outcomes : v[p] > v[o] =>
              /\ Normalized(v)[p] > Normalized(v)[o]
              /\ {p, o} = {"home", "away"} => Normalized(v)[p] >= Normalized(v)[o] + 3
        BY ModelledParts
      <3> HIDE DEF v, b
      <3> QED  BY <1>1, <1>2, <3>1
    <2>3. Ahead(n, b)
      <3>1. n = Normalized(v)
        BY <2>1
      <3> HIDE DEF n, v, b
      <3> QED  BY <2>2, <3>1 DEF Ahead
    <2> QED  BY <1>1, <1>3, <1>4, <2>3
  <1>6. CASE v[b] > cap
    <2>1. ASSUME NEW o \in Outcomes \ {b} PROVE n[b] > n[o] /\ n[b] >= n[o] + 3
      <3>1. n[b] >= n[o] + 3
        <4> HIDE DEF v, cap
        <4> QED  BY <1>1, <1>3, <1>6, ShrunkKeeps
      <3>2. n[b] \in Nat /\ n[o] \in Nat
        <4> HIDE DEF n
        <4> QED  BY <1>1, <1>4, WeightsAre
      <3> HIDE DEF n
      <3> QED  BY <3>1, <3>2
    <2>2. Ahead(n, b)
      <3> HIDE DEF n, b
      <3> QED  BY <2>1 DEF Ahead
    <2> QED  BY <1>1, <1>3, <1>4, <2>2
  <1>7. cap \in Int
    BY <1>3
  <1> HIDE DEF cap
  <1> QED  BY <1>1, <1>5, <1>6, <1>7

\* A favourite x among sides of s together, its share of a lift l of the draw given up, stays
\* above the lifted draw: the lift is at most 35 hundredths of the way from d to the prior.
LEMMA CutClears ==
  ASSUME NEW x \in Nat, NEW s \in Nat, NEW d \in Nat, NEW l \in 1..80, NEW prior \in Nat,
         prior <= 400, x >= 333, x >= d + l + 30, x <= s, s + d >= 999, 100 * l <= 35 * (prior - d) + 50
  PROVE  x * (s - l) >= (d + l + 3) * s
  <1> DEFINE h == d + l
             r == s - l
             xr == x * r
             hs == h * s
  <1>1. h \in Nat /\ r \in Nat /\ 35 * d <= 14050 - 100 * l
    OBVIOUS
  <1>2. xr \in Nat /\ hs \in Nat /\ (d + l + 3) * s = hs + 3 * s
    OBVIOUS
  <1>3. CASE l <= 74
    <2> DEFINE hl == h * l
               q == (74 - l) * (12400 - 65 * (74 + l))
    <2>1. xr >= (h + 30) * r
      <3> HIDE DEF h, r
      <3>1. x >= h + 30
        BY DEF h
      <3> QED  BY <1>1, <3>1
    <2>2. (h + 30) * r = hs + 30 * s - hl - 30 * l
      OBVIOUS
    <2>3. q >= 0 /\ q = 561660 - 12400 * l + 65 * (l * l)
      <3>1. 74 - l \in Nat /\ 12400 - 65 * (74 + l) \in Nat
        BY <1>3
      <3>2. (74 - l) * (12400 - 65 * (74 + l)) \in Nat
        BY <3>1
      <3> QED  BY <3>2
    <2>4. 35 * hl = (35 * d) * l + 35 * (l * l)
      OBVIOUS
    <2>5. (35 * d) * l <= (14050 - 100 * l) * l
      <3> DEFINE e == 35 * d
                 g == 14050 - 100 * l
      <3>1. e \in Nat /\ g \in Int /\ e <= g
        BY <1>1
      <3> HIDE DEF e, g
      <3>2. e * l <= g * l
        BY <3>1
      <3> QED  BY <3>2 DEF e, g
    <2>6. (14050 - 100 * l) * l = 14050 * l - 100 * (l * l)
      OBVIOUS
    <2>7. 35 * hl + 1050 * l <= 561660 + 2700 * l
      <3> DEFINE ll == l * l
                 dl == (35 * d) * l
                 gl == (14050 - 100 * l) * l
      <3>1. ll \in Nat /\ dl \in Nat /\ gl \in Int /\ hl \in Nat
        OBVIOUS
      <3>2. 35 * hl = dl + 35 * ll /\ dl <= gl /\ gl = 14050 * l - 100 * ll
            /\ 0 <= 561660 - 12400 * l + 65 * ll
        BY <2>3, <2>4, <2>5, <2>6
      <3> HIDE DEF ll, dl, gl, hl, q
      <3> QED  BY <3>1, <3>2
    <2>8. 35 * s >= 34965 - 14050 + 100 * l
      BY <1>1
    <2>9. xr >= hs + 3 * s
      <3>1. hl \in Nat
        OBVIOUS
      <3> DEFINE hr == (h + 30) * r
      <3>2. hr \in Int /\ xr >= hr /\ hr = hs + 30 * s - hl - 30 * l
        BY <1>1, <2>1, <2>2
      <3> HIDE DEF h, r, xr, hs, hl, hr, q
      <3>3. 35 * (hl + 30 * l) <= 27 * (35 * s)
        BY <2>7, <2>8, <3>1
      <3> QED  BY <1>2, <3>1, <3>2, <3>3
    <2> QED  BY <1>2, <2>9
  <1>4. CASE l >= 75
    <2>1. h <= 267 /\ s >= 812
      BY <1>1, <1>4
    <2>2. xr >= 333 * r
      <3> HIDE DEF r
      <3> QED  BY <1>1
    <2>3. hs <= 267 * s
      <3> HIDE DEF h
      <3> QED  BY <1>1, <2>1
    <2>4. xr >= hs + 3 * s
      <3>1. r = s - l
        OBVIOUS
      <3> HIDE DEF h, r, xr, hs
      <3> QED  BY <1>1, <1>2, <2>1, <2>2, <2>3, <3>1
    <2> QED  BY <1>2, <2>4
  <1> QED  BY <1>3, <1>4

\* Calibrating the draw leaves the favourite the favourite, if two results in five at most are draws.
LEMMA CalibratedKeeps ==
  ASSUME NEW v \in Weights, Total(v) \in 999..1001, LiftedDraw(v) > v["draw"], DrawPrior <= 400,
         NEW b \in Outcomes, Ahead(v, b)
  PROVE  \A o \in Outcomes \ {b} : DrawCalibrated(v)[o] < DrawCalibrated(v)[b]
  <1> DEFINE e == IF b = "home" THEN "away" ELSE "home"
             x == v[b]
             y == v[e]
             d == v["draw"]
             L == LiftedDraw(v)
             l == L - d
             s == x + y
             r == s - l
             c == Cut(v)
  <1>1. v \in [Outcomes -> Int] /\ \A o \in Outcomes : v[o] \in Nat
    BY WeightsAre
  <1>2. Best(v) = b
    <2>1. \A o \in Outcomes \ {b} : v[o] < v[b]
      <3> SUFFICES ASSUME NEW o \in Outcomes \ {b} PROVE v[o] < v[b]
        OBVIOUS
      <3>1. v[b] > v[o] /\ v[o] \in Nat /\ v[b] \in Nat
        BY <1>1 DEF Ahead
      <3> QED  BY <3>1
    <2> QED  BY <1>1, <2>1, FavouriteIsBest
  <1>3. b \in {"home", "away"} /\ {b, e} = {"home", "away"} /\ e \in Outcomes /\ e # b
        /\ Outcomes = {b, e, "draw"}
    BY <1>2, LiftIs DEF Outcomes
  <1>4. v["home"] + v["away"] = s /\ s + d = Total(v)
    <2>1. v["home"] \in Nat /\ v["away"] \in Nat /\ d \in Nat
      BY <1>1 DEF Outcomes
    <2>2. (b = "home" /\ e = "away") \/ (b = "away" /\ e = "home")
      BY <1>3
    <2> QED  BY <2>1, <2>2 DEF Total
  <1>5. x \in Nat /\ y \in Nat /\ d \in Nat /\ x >= y + 3 /\ 3 * x >= Total(v)
    <2>1. x \in Nat /\ y \in Nat /\ d \in Nat
      BY <1>1, <1>3
    <2>2. x >= y + 3
      BY <1>3 DEF Ahead
    <2>3. 3 * x >= Total(v)
      BY <1>2, WeightsAre
    <2> QED  BY <2>1, <2>2, <2>3
  <1>6. L \in Nat /\ l <= 80 /\ L <= x - 30 /\ 100 * l <= 35 * (DrawPrior - d) + 50 /\ L > d
    BY <1>2, LiftIs
  <1>7. /\ c \in Weights /\ c["draw"] = L
        /\ c[b] = Rounded(x * r, s) /\ c[e] = Rounded(y * r, s)
    <2>1. c \in Weights
      BY CutTyped
    <2>2. c["draw"] = L /\ c["home"] = Kept(v, "home") /\ c["away"] = Kept(v, "away")
      BY DEF Cut
    <2>3. \A o : Kept(v, o) = Rounded(v[o] * ((v["home"] + v["away"]) - (LiftedDraw(v) - v["draw"])),
                                      v["home"] + v["away"])
      BY DEF Kept
    <2>4. Kept(v, b) = Rounded(x * r, s) /\ Kept(v, e) = Rounded(y * r, s)
      BY <1>4, <2>3
    <2> QED  BY <1>3, <2>1, <2>2, <2>4
  <1>8. Total(v) \in 999..1001 /\ DrawPrior \in Nat /\ DrawPrior <= 400
    BY DrawPriorIs
  <1> DEFINE T == Total(v)
             P == DrawPrior
             xr == x * r
             yr == y * r
  <1>9. Total(c) = c[b] + c[e] + c["draw"]
    <2> HIDE DEF c
    <2>1. c["home"] \in Nat /\ c["away"] \in Nat /\ c["draw"] \in Nat
      BY <1>7, WeightsAre
    <2>2. (b = "home" /\ e = "away") \/ (b = "away" /\ e = "home")
      BY <1>3
    <2> QED  BY <2>1, <2>2 DEF Total
  <1> HIDE DEF x, y, d, L, c, e, T, P
  <1>10. T \in 999..1001 /\ P \in Nat /\ P <= 400 /\ s + d = T /\ 3 * x >= T
         /\ 100 * l <= 35 * (P - d) + 50
    BY <1>4, <1>5, <1>6, <1>8 DEF T, P
  <1>11. s \in Nat \ {0} /\ x >= 333 /\ s >= 333 /\ l \in 1..80 /\ r \in Nat /\ x <= s /\ x >= d + l + 30
    BY <1>5, <1>6, <1>10
  <1>12. xr >= (d + l + 3) * s
    <2>1. /\ x \in Nat /\ s \in Nat /\ d \in Nat /\ l \in 1..80 /\ P \in Nat
          /\ P <= 400 /\ x >= 333 /\ x >= d + l + 30 /\ x <= s /\ s + d >= 999
          /\ 100 * l <= 35 * (P - d) + 50
      BY <1>5, <1>10, <1>11
    <2>2. xr = x * (s - l)
      OBVIOUS
    <2> HIDE DEF l, s, xr, r
    <2>3. x * (s - l) >= (d + l + 3) * s
      BY <2>1, CutClears, SMTT(30)
    <2> QED  BY <2>2, <2>3
  <1>13. xr >= yr + 2 * s
    <2>1. 3 * r >= 2 * s
      BY <1>5, <1>6, <1>11
    <2>2. xr >= (y + 3) * r
      <3> HIDE DEF r
      <3> QED  BY <1>5, <1>11
    <2>3. (y + 3) * r = yr + 3 * r
      <3> HIDE DEF r
      <3> QED  BY <1>5, <1>11
    <2>4. xr \in Nat /\ yr \in Nat
      <3> HIDE DEF r
      <3> QED  BY <1>5, <1>11
    <2> HIDE DEF xr, yr, r, s
    <2> QED  BY <1>11, <2>1, <2>2, <2>3, <2>4
  <1>14. xr \in Nat /\ yr \in Nat /\ xr <= x * s /\ yr <= y * s
    <2>1. r <= s
      BY <1>5, <1>6, <1>11
    <2> HIDE DEF r, s
    <2> QED  BY <1>5, <1>11, <2>1
  <1>15. c[b] \in Nat /\ c[e] \in Nat /\ c[b] <= x /\ c[e] <= y /\ c[b] >= L + 3 /\ c[b] >= c[e] + 2
    <2>1. L + 3 \in Nat /\ d + l + 3 = L + 3 /\ 2 \in Nat
      BY <1>5, <1>6
    <2> DEFINE k == L + 3
    <2>2. k \in Nat /\ xr >= k * s
      <3> HIDE DEF xr, s
      <3> QED  BY <1>12, <2>1
    <2> HIDE DEF xr, yr, s, k
    <2>3. Rounded(xr, s) \in Nat /\ Rounded(yr, s) \in Nat /\ Rounded(xr, s) <= x /\ Rounded(yr, s) <= y
          /\ Rounded(xr, s) >= k
      BY <1>5, <1>11, <1>14, <2>2, RoundedIs, ZenonT(60)
    <2>4. Rounded(xr, s) >= Rounded(yr, s) + 2
      BY <1>11, <1>13, <1>14, <2>1, RoundedShift
    <2>5. c[b] = Rounded(xr, s) /\ c[e] = Rounded(yr, s)
      BY <1>7 DEF xr, yr
    <2> QED  BY <2>3, <2>4, <2>5 DEF k
  <1>16. 1 * Total(c) <= 1000 * 2 /\ 1 \in Nat /\ 2 \in Nat
    BY <1>5, <1>6, <1>7, <1>9, <1>10, <1>15
  <1>17. c[b] >= c[e] + 2 /\ c[b] >= c["draw"] + 2
    BY <1>6, <1>7, <1>15
  <1>18. Normalized(c)[b] >= Normalized(c)[e] + 1 /\ Normalized(c)[b] >= Normalized(c)["draw"] + 1
    <2>1. "draw" \in Outcomes
      BY DEF Outcomes
    <2>2. Normalized(c)[b] >= Normalized(c)[e] + 1
      BY <1>3, <1>7, <1>16, <1>17, NormalizedKeeps
    <2>3. Normalized(c)[b] >= Normalized(c)["draw"] + 1
      BY <1>7, <1>16, <1>17, <2>1, NormalizedKeeps
    <2> QED  BY <2>2, <2>3
  <1>19. \A o \in Outcomes : Normalized(c)[o] \in Nat
    <2> DEFINE n == Normalized(c)
    <2>1. n \in Weights
      BY <1>7, NormalizedTyped
    <2> HIDE DEF n
    <2> QED  BY <2>1, WeightsAre DEF n
  <1>20. \A o \in Outcomes \ {b} : Normalized(c)[o] < Normalized(c)[b]
    <2> SUFFICES ASSUME NEW o \in Outcomes \ {b} PROVE Normalized(c)[o] < Normalized(c)[b]
      OBVIOUS
    <2>1. Normalized(c)[o] \in Nat /\ Normalized(c)[b] \in Nat /\ (o = e \/ o = "draw")
      BY <1>3, <1>19
    <2> QED  BY <1>18, <2>1
  <1> QED  BY <1>20, CalibratedIsNormalized DEF c

LEMMA ForecastKeeps ==
  ASSUME NEW m \in MatchData, DrawPrior <= 400, Gap(Forecast(m).raw) > 0
  PROVE  Best(Forecast(m).decision) = Forecast(m).signal
  <1> DEFINE v == Modelled(m)
             b == Best(v)
             n == Sane(m, v)
             f == Forecast(m)
  <1>1. /\ f.decision \in Weights /\ f.raw = v /\ f.signal = RecommendedOutcome(v)
        /\ f.decision = (IF f.calibrated THEN DrawCalibrated(n) ELSE n)
        /\ f.calibrated => LiftedDraw(n) > n["draw"]
    BY ForecastDecides DEF Decided
  <1>2. Gap(v) > 0 /\ v \in [Outcomes -> Int]
    BY <1>1, ModelledTyped, WeightsAre
  <1>3. f.signal = b
    BY <1>1, <1>2, FavouriteIsBest
  <1>4. b \in Outcomes /\ n \in Weights /\ Total(n) \in 999..1001 /\ Ahead(n, b)
    BY <1>2, SaneKeeps
  <1> HIDE DEF v, b, n, f
  <1>5. \A o \in Outcomes \ {b} : f.decision[o] < f.decision[b]
    <2>1. CASE f.calibrated
      <3>1. \A o \in Outcomes \ {b} : DrawCalibrated(n)[o] < DrawCalibrated(n)[b]
        BY <1>1, <1>4, <2>1, CalibratedKeeps
      <3> QED  BY <1>1, <2>1, <3>1
    <2>2. CASE ~f.calibrated
      <3> SUFFICES ASSUME NEW o \in Outcomes \ {b} PROVE n[o] < n[b]
        BY <1>1, <2>2
      <3>1. n[b] > n[o] /\ n[o] \in Nat /\ n[b] \in Nat
        BY <1>4, WeightsAre DEF Ahead
      <3> QED  BY <3>1
    <2> QED  BY <2>1, <2>2
  <1>6. f.decision \in [Outcomes -> Int]
    BY <1>1, WeightsAre
  <1>7. Best(f.decision) = b
    BY <1>4, <1>5, <1>6, FavouriteIsBest
  <1> QED  BY <1>3, <1>7 DEF f

LEMMA PicksAreSignals ==
  ASSUME DrawPrior <= 400, PlansInv
  PROVE  PickIsTheSignal
  <1>1. PICK n \in 0..Len(slate) : forecasts = [p \in 1..n |-> Forecast(slate[p])]
    BY DEF PlansInv, Scored
  <1>2. Len(slate) \in Nat /\ \A p \in 1..Len(slate) : slate[p] \in MatchData
    BY SlateIs DEF PlansInv, Positions
  <1> SUFFICES ASSUME NEW p \in DOMAIN forecasts, Gap(forecasts[p].raw) > 0
               PROVE  Best(forecasts[p].decision) = forecasts[p].signal
    BY DEF PickIsTheSignal
  <1>3. forecasts[p] = Forecast(slate[p]) /\ slate[p] \in MatchData
    BY <1>1, <1>2
  <1> QED  BY <1>3, ForecastKeeps

(***************************************************************************)
(* As long as the prior of a draw is two in five at most, what is shown as *)
(* the signal of a match is what its ticket leaves single, whatever the    *)
(* engine said: two roundings, the cap of the sanity layer and the         *)
(* calibration of the draw keep a strict favourite (calibrate_draw,        *)
(* ProbabilitySanityLayer).                                                *)
(***************************************************************************)
THEOREM PicksAreTheSignals == DrawPrior <= 400 => (TicketsSpec => []PickIsTheSignal)
  <1> SUFFICES ASSUME DrawPrior <= 400 PROVE TicketsSpec => []PickIsTheSignal
    OBVIOUS
  <1>1. PlansInv => PickIsTheSignal
    BY PicksAreSignals, SMTT(30)
  <1> QED  BY <1>1, PlansInvariant, PTL

------------------------------------------------------------------------------
(* A match the guard lets stand as a single, and the validation.           *)

\* What the sanity layer says of a match, part by part.
LEMMA ForecastParts ==
  ASSUME NEW m
  PROVE  LET f == Forecast(m)
             v == Modelled(m)
         IN /\ f.band = ConfidenceBand(m, v) /\ f.level = EvidenceLevel(m)
            /\ f.status = DegradedStatus(m, v) /\ f.flags = SanityFlags(m, v)
            /\ f.risk = RiskLevel(m, v, f.status) /\ f.strategy = TicketStrategy(f.status, f.risk, f.flags)
            /\ f.simple = SimpleAllowed(f.status, f.risk, f.strategy, f.flags)
            /\ f.readiness = Readiness(m)
            /\ f.shown = PresentationBand(f.band, f.status, f.flags, f.simple, f.calibrated)
  BY DEF Forecast

LEMMA StatusIs ==
  ASSUME NEW m, NEW v
  PROVE  /\ ConfidenceBand(m, v) \in {"blocked", "high", "medium", "low"}
         /\ DegradedStatus(m, v) \in {"BLOQUEADO", "FIJO", "LISTO", "REVISAR"}
         /\ DegradedStatus(m, v) # "BLOQUEADO" => ~HasInsufficientData(m) /\ Readiness(m) # "unclassified"
         /\ DegradedStatus(m, v) = "FIJO" =>
              /\ ConfidenceBand(m, v) = "high"
              /\ v[Best(v)] >= 550 /\ Gap(v) >= 120 /\ Anchored(m)
              /\ EvidenceLevel(m) # "low" /\ ~ExtremeWithoutEvidence(m, v)
              /\ ~FallbackUsed(m) /\ ~IsFriendly(m)
  <1> DEFINE band == ConfidenceBand(m, v)
  <1>1. /\ band \in {"blocked", "high", "medium", "low"}
        /\ band # "blocked" => ~HasInsufficientData(m) /\ Readiness(m) # "unclassified"
        /\ band = "high" => v[Best(v)] >= 550 /\ Gap(v) >= 120 /\ Anchored(m)
    BY DEF ConfidenceBand
  <1> HIDE DEF band
  <1>2. /\ StatusFromBand["blocked"] = "BLOQUEADO" /\ StatusFromBand["high"] = "FIJO"
        /\ StatusFromBand["medium"] = "LISTO" /\ StatusFromBand["low"] = "REVISAR"
    BY DEF StatusFromBand
  <1>3. DegradedStatus(m, v) =
          IF StatusFromBand[band] = "BLOQUEADO" THEN StatusFromBand[band]
          ELSE IF EvidenceLevel(m) = "low" \/ ExtremeWithoutEvidence(m, v) THEN "REVISAR"
          ELSE IF StatusFromBand[band] = "FIJO" /\ (FallbackUsed(m) \/ IsFriendly(m)) THEN "LISTO"
          ELSE StatusFromBand[band]
    BY DEF DegradedStatus, band
  <1> QED  BY <1>1, <1>2, <1>3 DEF band

\* A single: fixed by the sanity layer, on anchored data, with no flag against it.
LEMMA SimpleIs ==
  ASSUME NEW m, Forecast(m).simple
  PROVE  LET f == Forecast(m)
             v == Modelled(m)
         IN /\ f.status = "FIJO" /\ f.band = "high" /\ f.risk # "high" /\ f.strategy = "SIMPLE"
            /\ f.flags \cap BlockingFlags = {} /\ f.level # "low"
            /\ f.readiness # "unclassified" /\ ~HasInsufficientData(m) /\ Anchored(m)
            /\ v[Best(v)] >= 550 /\ Gap(v) >= 120 /\ Cap(m, v) = 900
            /\ f.shown = "high" \/ f.calibrated \/ "EXTREME_PROBABILITY_CAPPED" \in f.flags
  <1> DEFINE f == Forecast(m)
             v == Modelled(m)
  <1>1. /\ f.band = ConfidenceBand(m, v) /\ f.level = EvidenceLevel(m)
        /\ f.status = DegradedStatus(m, v)
        /\ f.strategy = TicketStrategy(f.status, f.risk, f.flags)
        /\ f.simple = SimpleAllowed(f.status, f.risk, f.strategy, f.flags)
        /\ f.readiness = Readiness(m)
        /\ f.shown = PresentationBand(f.band, f.status, f.flags, f.simple, f.calibrated)
    BY ForecastParts
  <1>2. f.simple
    OBVIOUS
  <1> HIDE DEF f, v
  <1>3. f.strategy = "SIMPLE" /\ f.risk # "high"
    BY <1>1, <1>2 DEF SimpleAllowed
  <1>4. f.status = "FIJO" /\ f.flags \cap BlockingFlags = {}
    <2>1. f.status \in {"BLOQUEADO", "FIJO", "LISTO", "REVISAR"}
      BY <1>1, StatusIs
    <2>2. /\ f.status # "BLOQUEADO" /\ f.status # "REVISAR" /\ f.status # "LISTO"
          /\ f.flags \cap BlockingFlags = {}
      BY <1>1, <1>3 DEF TicketStrategy
    <2> QED  BY <2>1, <2>2
  <1>5. /\ f.band = "high" /\ ~HasInsufficientData(m) /\ f.readiness # "unclassified"
        /\ v[Best(v)] >= 550 /\ Gap(v) >= 120 /\ Anchored(m)
        /\ f.level # "low" /\ ~ExtremeWithoutEvidence(m, v) /\ ~IsFriendly(m)
    <2>1. DegradedStatus(m, v) = "FIJO"
      BY <1>1, <1>4
    <2>2. DegradedStatus(m, v) # "BLOQUEADO"
      BY <2>1
    <2>3. ~HasInsufficientData(m) /\ Readiness(m) # "unclassified"
      BY <2>2, StatusIs, Zenon
    <2>4. /\ ConfidenceBand(m, v) = "high" /\ EvidenceLevel(m) # "low"
          /\ Anchored(m) /\ ~ExtremeWithoutEvidence(m, v) /\ ~IsFriendly(m)
      BY <2>1, StatusIs, SMTT(30)
    <2>5. v[Best(v)] >= 550 /\ Gap(v) >= 120
      BY <2>1, StatusIs
    <2> QED  BY <1>1, <2>3, <2>4, <2>5
  <1>6. Cap(m, v) = 900
    BY <1>1, <1>5 DEF Cap, ExtremeWithoutEvidence
  <1>7. f.shown = "high" \/ f.calibrated \/ "EXTREME_PROBABILITY_CAPPED" \in f.flags
    <2>1. "EXTREME_PROBABILITY_WITHOUT_EVIDENCE" \notin f.flags /\ "LOW_EVIDENCE" \notin f.flags
          /\ "FALLBACK_USED" \notin f.flags
      BY <1>4 DEF BlockingFlags
    <2> QED  BY <1>1, <1>2, <1>4, <1>5, <2>1 DEF PresentationBand
  <1> QED  BY <1>3, <1>4, <1>5, <1>6, <1>7 DEF f, v

\* One outcome far ahead of both others, one of them small: what the validation looks at.
LEMMA FarAhead ==
  ASSUME NEW w \in Weights, NEW b \in Outcomes, \A o \in Outcomes \ {b} : w[b] >= w[o] + 81,
         \E o \in Outcomes : w[o] <= 239
  PROVE  Gap(w) \in Int /\ Gap(w) >= 81 /\ w[Third(w)] \in Int /\ w[Third(w)] <= 239
  <1> DEFINE second == Second(w)
             third == Third(w)
  <1>1. w \in [Outcomes -> Int] /\ \A o \in Outcomes : w[o] \in Nat
    BY WeightsAre
  <1>2. \A o \in Outcomes \ {b} : w[o] < w[b]
    BY <1>1
  <1>3. Best(w) = b
    BY <1>1, <1>2, FavouriteIsBest
  <1>4. {b, second, third} = Outcomes /\ b # second /\ w[b] >= w[second] /\ w[second] >= w[third]
    BY <1>1, <1>3, RanksAre
  <1>5. Gap(w) = w[b] - w[second]
    BY <1>3 DEF Gap
  <1> HIDE DEF second, third
  <1>6. second \in Outcomes \ {b} /\ third \in Outcomes
    BY <1>4
  <1>7. Gap(w) \in Int /\ Gap(w) >= 81
    BY <1>1, <1>5, <1>6
  <1>8. w[third] \in Int /\ w[third] <= 239
    <2>1. PICK o \in Outcomes : w[o] <= 239
      OBVIOUS
    <2>2. o = b \/ o = second \/ o = third
      BY <1>4, <2>1
    <2>3. w[o] >= w[third]
      BY <1>1, <1>4, <1>6, <2>2
    <2> QED  BY <1>1, <1>6, <2>1, <2>3
  <1> QED  BY <1>7, <1>8 DEF third

\* Capped at nine tenths, a favourite of more leaves at most 110 thousandths to each other.
LEMMA ShrunkLeaves ==
  ASSUME NEW v \in Weights, Total(v) <= 1010, v[Best(v)] > 900, NEW o \in Outcomes, o # Best(v)
  PROVE  /\ ShrunkTowardPrior(v, 900) \in Weights /\ ShrunkTowardPrior(v, 900)[Best(v)] = 900
         /\ ShrunkTowardPrior(v, 900)[o] <= 110
  <1> DEFINE b == Best(v)
             x == v[b]
             y == v[o]
             cap == 900
             a == 3 * (3 * cap - 1000) * y + ((3 * x - 1000) - (3 * cap - 1000)) * 1000
             t == 3 * (3 * x - 1000)
  <1>1. b \in Outcomes /\ x \in Nat /\ y \in Nat /\ x > 900 /\ x + y <= 1010
    <2>1. b \in Outcomes /\ x \in Nat /\ Total(v) \in Nat /\ \A r \in Outcomes : v[r] \in Nat
      BY WeightsAre
    <2>2. Total(v) = x + v[Second(v)] + v[Third(v)] /\ Outcomes = {b, Second(v), Third(v)}
      BY WeightsAre, RanksAre
    <2>3. v[Second(v)] \in Nat /\ v[Third(v)] \in Nat
      BY WeightsAre
    <2>4. y \in Nat /\ (y = v[Second(v)] \/ y = v[Third(v)])
      BY <2>1, <2>2
    <2> HIDE DEF b, x, y
    <2> QED  BY <2>1, <2>2, <2>3, <2>4 DEF x, b
  <1>2. cap \in {600, 650, 900} /\ v[Best(v)] > cap
    OBVIOUS
  <1>3. ShrunkTowardPrior(v, cap) \in Weights /\ ShrunkTowardPrior(v, cap)[Best(v)] = cap
    <2> HIDE DEF cap
    <2> QED  BY <1>2, ShrunkTyped
  <1>4. ShrunkTowardPrior(v, cap)[o] = Rounded(a, t)
    <2>1. ~(v[Best(v)] <= cap)
      BY <1>1
    <2> QED  BY <2>1 DEF ShrunkTowardPrior
  <1>5. a \in Nat /\ t \in Nat \ {0} /\ a <= 110 * t /\ 110 \in Nat
    <2> HIDE DEF x, y
    <2> QED  BY <1>1
  <1> HIDE DEF a, t
  <1>6. Rounded(a, t) <= 110
    BY <1>5, RoundedIs
  <1> QED  BY <1>3, <1>4, <1>6 DEF cap

\* A vector with a favourite of more than half, ahead of both by more than a tenth.
Dominant(n, b) ==
  /\ n \in Weights /\ Total(n) \in 999..1001 /\ b \in Outcomes
  /\ n[b] >= 545
  /\ \A o \in Outcomes \ {b} : n[b] >= n[o] + 118

\* The sanity layer keeps the favourite of a single dominant.
LEMMA SaneDominates ==
  ASSUME NEW v \in Weights, Total(v) <= 1010, v[Best(v)] >= 550, Gap(v) >= 120
  PROVE  Dominant(Normalized(ShrunkTowardPrior(v, 900)), Best(v))
  <1> DEFINE b == Best(v)
             w == ShrunkTowardPrior(v, 900)
             n == Normalized(w)
  <1>1. v \in [Outcomes -> Int] /\ b \in Outcomes /\ Total(v) \in Nat \ {0} /\ \A o \in Outcomes : v[o] \in Nat
    BY WeightsAre
  <1>2. \A o \in Outcomes \ {b} : v[b] >= v[o] + 120
    <2>1. /\ {b, Second(v), Third(v)} = Outcomes /\ v[Second(v)] >= v[Third(v)]
          /\ Gap(v) = v[b] - v[Second(v)] /\ Gap(v) >= 120
      BY <1>1, RanksAre DEF Gap
    <2> HIDE DEF b
    <2>2. v[b] \in Nat /\ v[Second(v)] \in Nat /\ v[Third(v)] \in Nat
      BY <1>1, WeightsAre
    <2>3. v[b] >= v[Second(v)] + 120 /\ v[b] >= v[Third(v)] + 120
      BY <2>1, <2>2
    <2> QED  BY <2>1, <2>3
  <1>3. CASE v[b] <= 900
    <2>1. w = v
      BY <1>3 DEF ShrunkTowardPrior
    <2>2. v[b] >= 550 /\ Total(v) <= 1010
      OBVIOUS
    <2> HIDE DEF b, w
    <2>3. n \in Weights /\ Total(n) \in 999..1001 /\ n[b] = Rounded(1000 * v[b], Total(v))
      BY <1>1, <2>1, NormalizedTyped, NormalizedTotal
    <2>4. n[b] >= 545
      <3> DEFINE T == Total(v)
                 a == 1000 * v[b]
                 q == Rounded(a, T)
                 Tq == T * q
      <3>1. T \in Nat \ {0} /\ T <= 1010 /\ a \in Nat /\ a >= 550 * 1000
        BY <1>1, <2>2
      <3> HIDE DEF T, a
      <3>2. q \in Nat /\ 2 * a < 2 * Tq + T
        BY <3>1, RoundedBounds, ZenonT(60)
      <3> HIDE DEF q
      <3>3. q >= 545
        <4> SUFFICES ASSUME q <= 544 PROVE FALSE
          BY <3>2
        <4>1. Tq <= T * 544 /\ Tq \in Nat
          BY <3>1, <3>2
        <4> HIDE DEF Tq
        <4> QED  BY <3>1, <3>2, <4>1
      <3> QED  BY <2>3, <3>3 DEF q, a, T
    <2>5. \A o \in Outcomes \ {b} : n[b] >= n[o] + 118
      <3> SUFFICES ASSUME NEW o \in Outcomes \ {b} PROVE n[b] >= n[o] + 118
        OBVIOUS
      <3> DEFINE j == 118
                 k == 120
      <3>1. j \in Nat /\ k \in Nat /\ j * Total(v) <= 1000 * k /\ v[b] >= v[o] + k
        BY <1>1, <1>2, <2>2
      <3> HIDE DEF j, k
      <3>2. Normalized(v)[b] >= Normalized(v)[o] + j
        BY <1>1, <3>1, NormalizedKeeps
      <3> QED  BY <2>1, <3>2 DEF j
    <2> HIDE DEF n
    <2>6. Dominant(n, b)
      BY <1>1, <2>3, <2>4, <2>5 DEF Dominant
    <2> QED  BY <2>6 DEF n, w, b
  <1>4. CASE v[b] > 900
    <2>1. \A o \in Outcomes \ {b} : w[o] <= 110
      BY <1>1, <1>4, ShrunkLeaves
    <2>2. w \in Weights /\ w[b] = 900
      <3>1. PICK o \in Outcomes : o # b
        BY DEF Outcomes
      <3> QED  BY <1>1, <1>4, <3>1, ShrunkLeaves
    <2> HIDE DEF b, w
    <2>3. Total(w) \in Nat \ {0} /\ Total(w) <= 1120 /\ \A o \in Outcomes : w[o] \in Nat
      <3>1. Total(w) \in Nat \ {0} /\ \A o \in Outcomes : w[o] \in Nat
        BY <2>2, WeightsAre
      <3>2. Total(w) = w["home"] + w["draw"] + w["away"]
        BY DEF Total
      <3>3. CASE b = "home"
        <4>1. w["draw"] <= 110 /\ w["away"] <= 110 /\ w["draw"] \in Nat /\ w["away"] \in Nat /\ w["home"] = 900
          BY <2>1, <2>2, <3>1, <3>3 DEF Outcomes
        <4> QED  BY <3>1, <3>2, <4>1
      <3>4. CASE b = "draw"
        <4>1. w["home"] <= 110 /\ w["away"] <= 110 /\ w["home"] \in Nat /\ w["away"] \in Nat /\ w["draw"] = 900
          BY <2>1, <2>2, <3>1, <3>4 DEF Outcomes
        <4> QED  BY <3>1, <3>2, <4>1
      <3>5. CASE b = "away"
        <4>1. w["home"] <= 110 /\ w["draw"] <= 110 /\ w["home"] \in Nat /\ w["draw"] \in Nat /\ w["away"] = 900
          BY <2>1, <2>2, <3>1, <3>5 DEF Outcomes
        <4> QED  BY <3>1, <3>2, <4>1
      <3> QED  BY <1>1, <3>3, <3>4, <3>5 DEF Outcomes
    <2>4. n \in Weights /\ Total(n) \in 999..1001 /\ n[b] = Rounded(1000 * w[b], Total(w))
      BY <1>1, <2>2, NormalizedTyped, NormalizedTotal
    <2>5. n[b] >= 545
      <3> DEFINE T == Total(w)
                 a == 1000 * w[b]
      <3>1. T \in Nat \ {0} /\ a \in Nat /\ 545 \in Nat /\ a >= 545 * T
        BY <2>2, <2>3
      <3> HIDE DEF T, a
      <3>2. Rounded(a, T) >= 545
        BY <3>1, RoundedIs
      <3> QED  BY <2>4, <3>2 DEF T, a
    <2>6. \A o \in Outcomes \ {b} : n[b] >= n[o] + 118
      <3> SUFFICES ASSUME NEW o \in Outcomes \ {b} PROVE n[b] >= n[o] + 118
        OBVIOUS
      <3> DEFINE j == 118
                 k == 790
      <3>1. w[o] \in Nat /\ w[o] <= 110
        BY <2>1, <2>3
      <3>2. j \in Nat /\ k \in Nat /\ j * Total(w) <= 1000 * k /\ w[b] >= w[o] + k
        BY <2>2, <2>3, <3>1
      <3> HIDE DEF j, k
      <3>3. Normalized(w)[b] >= Normalized(w)[o] + j
        BY <1>1, <2>2, <3>2, NormalizedKeeps
      <3> QED  BY <3>3 DEF j
    <2> HIDE DEF n
    <2>7. Dominant(n, b)
      BY <1>1, <2>4, <2>5, <2>6 DEF Dominant
    <2> QED  BY <2>7 DEF n, w, b
  <1>5. v[b] \in Nat
    BY <1>1
  <1> QED  BY <1>3, <1>4, <1>5

\* Cut: what the lift leaves of two sides, x ahead of y in a whole of s.
LEMMA SidesKeep ==
  ASSUME NEW x \in Nat, NEW y \in Nat, NEW s \in Nat, s = x + y, NEW l \in 0..80, x >= 545, x >= y + 118
  PROVE  /\ s \in Nat \ {0} /\ s - l \in Nat /\ x * (s - l) \in Nat /\ y * (s - l) \in Nat
         /\ Rounded(x * (s - l), s) \in Nat /\ Rounded(y * (s - l), s) \in Nat
         /\ Rounded(x * (s - l), s) >= Rounded(y * (s - l), s) + 100
         /\ Rounded(x * (s - l), s) >= x - l
         /\ Rounded(x * (s - l), s) <= x /\ Rounded(y * (s - l), s) <= y
         /\ Rounded(x * (s - l), s) + Rounded(y * (s - l), s) >= s - l
         /\ s - l <= 761 /\ s <= 794 => Rounded(y * (s - l), s) <= 239
  <1> DEFINE r == s - l
             xr == x * r
             yr == y * r
             i == Rounded(xr, s)
             j == Rounded(yr, s)
  <1>1. s \in Nat \ {0} /\ s >= 545 /\ r \in Nat /\ r + l = s /\ r <= s /\ x - l \in Nat
    OBVIOUS
  <1> HIDE DEF r
  <1>2. xr \in Nat /\ yr \in Nat
    BY <1>1
  <1>3. xr >= yr + 100 * s
    <2>1. 118 * r >= 100 * s
      BY <1>1
    <2>2. xr >= (y + 118) * r
      BY <1>1
    <2>3. (y + 118) * r = yr + 118 * r
      BY <1>1
    <2> HIDE DEF xr, yr
    <2> QED  BY <1>1, <1>2, <2>1, <2>2, <2>3
  <1>4. xr >= (x - l) * s
    <2>1. xr = x * s - x * l
      <3>1. r = s - l
        BY DEF r
      <3> QED  BY <1>1, <3>1
    <2>2. (x - l) * s = x * s - l * s
      BY <1>1
    <2>3. x * l <= l * s
      <3>1. x <= s
        OBVIOUS
      <3>2. x * l <= s * l /\ s * l = l * s
        BY <3>1
      <3> QED  BY <3>2
    <2> DEFINE xs == x * s
               xl == x * l
               ls == l * s
    <2>4. xs \in Nat /\ xl \in Nat /\ ls \in Nat
      OBVIOUS
    <2> HIDE DEF xs, xl, ls, xr
    <2>5. xr = xs - xl /\ (x - l) * s = xs - ls /\ xl <= ls
      BY <2>1, <2>2, <2>3 DEF xs, xl, ls
    <2>6. xs - xl >= xs - ls
      BY <2>4, <2>5
    <2> QED  BY <2>5, <2>6
  <1>5. xr <= x * s /\ yr <= y * s
    BY <1>1
  <1>6. xr + yr = r * s
    <2>1. xr + yr = (x + y) * r
      BY <1>1
    <2>2. (x + y) * r = r * s
      BY <1>1
    <2> QED  BY <2>1, <2>2
  <1>7. r <= 761 /\ s <= 794 => yr <= 239 * s
    <2> SUFFICES ASSUME r <= 761, s <= 794 PROVE yr <= 239 * s
      OBVIOUS
    <2>1. yr <= y * 761
      BY <1>1
    <2>2. y <= s - 545
      BY <1>1
    <2>3. y * 761 <= 239 * s
      BY <1>1, <2>2
    <2> HIDE DEF yr
    <2> QED  BY <1>2, <2>1, <2>3
  <1> HIDE DEF xr, yr
  <1>8. i \in Nat /\ j \in Nat /\ 2 * xr < 2 * (s * i) + s /\ 2 * yr < 2 * (s * j) + s
    BY <1>1, <1>2, RoundedBounds
  <1>9. i >= j + 100
    <2>1. 100 \in Nat
      OBVIOUS
    <2> DEFINE k == 100
    <2>2. k \in Nat /\ xr >= yr + k * s
      BY <1>3
    <2> HIDE DEF k
    <2>3. i >= j + k
      BY <1>1, <1>2, <2>2, RoundedShift
    <2> QED  BY <2>3 DEF k
  <1>10. i >= x - l /\ i <= x /\ j <= y
    <2> DEFINE k == x - l
    <2>1. k \in Nat /\ xr >= k * s
      BY <1>1, <1>4
    <2> HIDE DEF k
    <2>2. i >= k
      BY <1>1, <1>2, <2>1, RoundedIs
    <2>3. i <= x /\ j <= y
      BY <1>1, <1>2, <1>5, RoundedIs
    <2> QED  BY <2>2, <2>3 DEF k
  <1>11. i + j >= r
    <2> SUFFICES ASSUME i + j + 1 <= r PROVE FALSE
      BY <1>1, <1>8
    <2> HIDE DEF i, j
    <2> DEFINE si == s * i
               sj == s * j
               rs == r * s
    <2>1. si \in Nat /\ sj \in Nat /\ rs \in Nat
      BY <1>1, <1>8
    <2>2. (i + j + 1) * s <= r * s
      BY <1>1, <1>8
    <2>3. (i + j + 1) * s = si + sj + s
      BY <1>1, <1>8
    <2>4. 2 * xr < 2 * si + s /\ 2 * yr < 2 * sj + s /\ xr + yr = rs /\ si + sj + s <= rs
      BY <1>6, <1>8, <2>2, <2>3
    <2> HIDE DEF si, sj, rs
    <2> QED  BY <1>1, <1>2, <2>1, <2>4
  <1>12. r <= 761 /\ s <= 794 => j <= 239
    <2> SUFFICES ASSUME r <= 761, s <= 794 PROVE j <= 239
      OBVIOUS
    <2> DEFINE k == 239
    <2>1. k \in Nat /\ yr <= k * s
      BY <1>7
    <2> HIDE DEF k
    <2>2. j <= k
      BY <1>1, <1>2, <2>1, RoundedIs
    <2> QED  BY <2>2 DEF k
  <1> QED  BY <1>1, <1>2, <1>8, <1>9, <1>10, <1>11, <1>12 DEF i, j, xr, yr, r

\* A share of less than 240 in a whole of 999 or more stays one.
LEMMA SmallStaysSmall ==
  ASSUME NEW v \in Weights, NEW o \in Outcomes, v[o] <= 239, Total(v) >= 999
  PROVE  Normalized(v)[o] <= 239
  <1> DEFINE T == Total(v)
             a == 1000 * v[o]
             q == Rounded(a, T)
             Tq == T * q
  <1>1. T \in Nat \ {0} /\ T >= 999 /\ a \in Nat /\ a <= 239 * 1000
    BY WeightsAre
  <1>2. Normalized(v)[o] = q
    BY NormalizedTyped
  <1> HIDE DEF T, a
  <1>3. q \in Nat /\ 2 * Tq <= 2 * a + T
    BY <1>1, RoundedBounds, ZenonT(60)
  <1> HIDE DEF q
  <1>4. q <= 239
    <2> SUFFICES ASSUME q >= 240 PROVE FALSE
      BY <1>3
    <2>1. Tq >= T * 240 /\ Tq \in Nat
      BY <1>1, <1>3
    <2> HIDE DEF Tq
    <2> QED  BY <1>1, <1>3, <2>1
  <1> QED  BY <1>2, <1>4

\* What the validation calls defensible, but for the risk: b is far ahead, something is small.
Clear(w, b) ==
  /\ w \in Weights /\ Total(w) \in 999..1001 /\ b \in Outcomes
  /\ \A o \in Outcomes \ {b} : w[b] >= w[o] + 81
  /\ \E o \in Outcomes : w[o] <= 239

LEMMA DominantIsClear ==
  ASSUME NEW v, NEW b, Dominant(v, b)
  PROVE  Clear(v, b)
  <1>1. /\ v \in Weights /\ Total(v) \in 999..1001 /\ b \in Outcomes /\ v[b] >= 545
        /\ \A o \in Outcomes \ {b} : v[b] >= v[o] + 118
    BY DEF Dominant
  <1>2. \A o \in Outcomes : v[o] \in Nat
    BY <1>1, WeightsAre
  <1>3. \A o \in Outcomes \ {b} : v[b] >= v[o] + 81
    BY <1>1, <1>2
  <1>4. \E o \in Outcomes : v[o] <= 239
    <2> SUFFICES ASSUME \A o \in Outcomes : v[o] >= 240 PROVE FALSE
      BY <1>2
    <2>1. Total(v) = v["home"] + v["draw"] + v["away"]
      BY DEF Total
    <2>2. v["home"] >= 240 /\ v["draw"] >= 240 /\ v["away"] >= 240
          /\ v["home"] \in Nat /\ v["draw"] \in Nat /\ v["away"] \in Nat
          /\ (v["home"] >= 545 \/ v["draw"] >= 545 \/ v["away"] >= 545)
      BY <1>1, <1>2 DEF Outcomes
    <2> QED  BY <1>1, <2>1, <2>2
  <1> QED  BY <1>1, <1>3, <1>4 DEF Clear

\* With three results in ten draws at most, calibrating the draw leaves a dominant favourite clear.
LEMMA CalibratedIsClear ==
  ASSUME NEW v, NEW b, Dominant(v, b), LiftedDraw(v) > v["draw"], DrawPrior <= 300
  PROVE  Clear(DrawCalibrated(v), b)
  <1> DEFINE e == IF b = "home" THEN "away" ELSE "home"
             x == v[b]
             y == v[e]
             d == v["draw"]
             L == LiftedDraw(v)
             l == L - d
             s == x + y
             c == Cut(v)
             n == Normalized(c)
  <1>1. /\ v \in Weights /\ v \in [Outcomes -> Int] /\ Total(v) \in 999..1001 /\ b \in Outcomes
        /\ v[b] >= 545 /\ \A o \in Outcomes : v[o] \in Nat
        /\ \A o \in Outcomes \ {b} : v[b] >= v[o] + 118
    BY WeightsAre DEF Dominant
  <1>2. Best(v) = b
    <2>1. \A o \in Outcomes \ {b} : v[o] < v[b]
      BY <1>1
    <2> QED  BY <1>1, <2>1, FavouriteIsBest
  <1>3. b \in {"home", "away"} /\ {b, e} = {"home", "away"} /\ e \in Outcomes /\ e # b
        /\ Outcomes = {b, e, "draw"}
    BY <1>1, <1>2, LiftIs DEF Outcomes
  <1>4. v["home"] + v["away"] = s /\ s + d = Total(v)
    <2>1. v["home"] \in Nat /\ v["away"] \in Nat /\ d \in Nat
      BY <1>1 DEF Outcomes
    <2>2. (b = "home" /\ e = "away") \/ (b = "away" /\ e = "home")
      BY <1>3
    <2> QED  BY <2>1, <2>2 DEF Total
  <1>5. x \in Nat /\ y \in Nat /\ d \in Nat /\ x >= y + 118 /\ x >= 545 /\ s + d \in 999..1001
    BY <1>1, <1>3, <1>4
  <1>6. L \in Nat /\ l <= 80 /\ 100 * l <= 35 * (DrawPrior - d) + 50 /\ L > d
    BY <1>1, <1>2, LiftIs
  <1>7. DrawPrior \in Nat /\ DrawPrior <= 300
    BY DrawPriorIs
  <1>8. /\ c \in Weights /\ c["draw"] = L
        /\ c[b] = Rounded(x * (s - l), s) /\ c[e] = Rounded(y * (s - l), s)
    <2>1. c \in Weights
      BY <1>1, CutTyped
    <2>2. c["draw"] = L /\ c["home"] = Kept(v, "home") /\ c["away"] = Kept(v, "away")
      BY DEF Cut
    <2>3. \A o : Kept(v, o) = Rounded(v[o] * ((v["home"] + v["away"]) - (LiftedDraw(v) - v["draw"])),
                                      v["home"] + v["away"])
      BY DEF Kept
    <2>4. Kept(v, b) = Rounded(x * (s - l), s) /\ Kept(v, e) = Rounded(y * (s - l), s)
      BY <1>4, <2>3
    <2> QED  BY <1>3, <2>1, <2>2, <2>4
  <1>9. Total(c) = c[b] + c[e] + c["draw"]
    <2> HIDE DEF c
    <2>1. c["home"] \in Nat /\ c["away"] \in Nat /\ c["draw"] \in Nat
      BY <1>8, WeightsAre
    <2>2. (b = "home" /\ e = "away") \/ (b = "away" /\ e = "home")
      BY <1>3
    <2> QED  BY <2>1, <2>2 DEF Total
  <1> HIDE DEF x, y, d, L, c, e, s
  <1>10. l \in 0..80 /\ s = x + y /\ s \in Nat
    BY <1>5, <1>6 DEF s
  <1>11. L <= 299 /\ (L >= 240 => s - l <= 761 /\ s <= 794) /\ L = d + l
    <2> HIDE DEF l
    <2>1. L = d + l
      BY <1>5, <1>6 DEF l
    <2>2. 100 * l + 35 * d <= 10550 /\ s + d <= 1001 /\ l >= 1
      BY <1>5, <1>6, <1>7, <1>10, <2>1
    <2> QED  BY <1>5, <1>10, <2>1, <2>2
  <1> HIDE DEF l
  <1>12. /\ c[b] \in Nat /\ c[e] \in Nat /\ c[b] >= c[e] + 100 /\ c[b] >= x - l /\ c[b] <= x /\ c[e] <= y
         /\ c[b] + c[e] >= s - l
         /\ s - l <= 761 /\ s <= 794 => c[e] <= 239
    <2>1. x \in Nat /\ y \in Nat /\ s \in Nat /\ s = x + y /\ l \in 0..80 /\ x >= 545 /\ x >= y + 118
      BY <1>5, <1>10
    <2> DEFINE kept == Rounded(x * (s - l), s)
               rest == Rounded(y * (s - l), s)
    <2>2. /\ kept \in Nat /\ rest \in Nat /\ kept >= rest + 100 /\ kept >= x - l /\ kept <= x /\ rest <= y
          /\ kept + rest >= s - l
          /\ s - l <= 761 /\ s <= 794 => rest <= 239
      BY <2>1, SidesKeep, ZenonT(60)
    <2>3. c[b] = kept /\ c[e] = rest
      BY <1>8
    <2> HIDE DEF kept, rest
    <2> QED  BY <2>2, <2>3
  <1>13. Total(c) \in Nat /\ Total(c) >= 999 /\ Total(c) <= 1200 /\ c[b] >= L + 100
    BY <1>5, <1>6, <1>8, <1>9, <1>10, <1>11, <1>12
  <1>14. n \in Weights /\ Total(n) \in 999..1001
    BY <1>8, NormalizedTyped, NormalizedTotal
  <1>15. \A o \in Outcomes \ {b} : n[b] >= n[o] + 81
    <2> SUFFICES ASSUME NEW o \in Outcomes \ {b} PROVE n[b] >= n[o] + 81
      OBVIOUS
    <2> DEFINE j == 81
               k == 100
    <2>1. o = e \/ o = "draw"
      BY <1>3
    <2>2. j \in Nat /\ k \in Nat /\ j * Total(c) <= 1000 * k /\ c[b] >= c[o] + k
      BY <1>8, <1>12, <1>13, <2>1
    <2> HIDE DEF j, k
    <2>3. Normalized(c)[b] >= Normalized(c)[o] + j
      BY <1>1, <1>8, <2>2, NormalizedKeeps
    <2> QED  BY <2>3 DEF j
  <1>16. \E o \in Outcomes : n[o] <= 239
    <2>1. CASE L <= 239
      <3>1. "draw" \in Outcomes /\ c["draw"] <= 239
        BY <1>8, <2>1 DEF Outcomes
      <3> QED  BY <1>8, <1>13, <3>1, SmallStaysSmall
    <2>2. CASE L >= 240
      <3>1. c[e] <= 239
        BY <1>11, <1>12, <2>2
      <3> QED  BY <1>3, <1>8, <1>13, <3>1, SmallStaysSmall
    <2> QED  BY <1>6, <2>1, <2>2
  <1>17. DrawCalibrated(v) = n
    BY CalibratedIsNormalized DEF c
  <1> HIDE DEF n
  <1> QED  BY <1>1, <1>14, <1>15, <1>16, <1>17 DEF Clear

\* The entropy of a vector of thousandths is that of a whole.
LEMMA EntropyIs ==
  ASSUME NEW v \in Weights, Total(v) \in 999..1001
  PROVE  Entropy(v) \in Int /\ Entropy(v) <= 1005
  <1> DEFINE x == v["home"]
             y == v["draw"]
             z == v["away"]
             i == Rounded(x, 10)
             j == Rounded(y, 10)
             k == Rounded(z, 10)
  <1>1. x \in Nat /\ y \in Nat /\ z \in Nat /\ x + y + z \in 999..1001
    BY WeightsAre DEF Total
  <1>2. \A a \in Nat : Rounded(a, 10) \in Nat /\ 10 * Rounded(a, 10) <= a + 5 /\ 10 * Rounded(a, 10) >= a - 4
    BY DEF Rounded
  <1> HIDE DEF x, y, z
  <1>3. /\ i \in Nat /\ 10 * i <= x + 5 /\ 10 * i >= x - 4
        /\ j \in Nat /\ 10 * j <= y + 5 /\ 10 * j >= y - 4
        /\ k \in Nat /\ 10 * k <= z + 5 /\ 10 * k >= z - 4
    BY <1>1, <1>2, ZenonT(60)
  <1>4. Entropy(v) = Surprise[i] + Surprise[j] + Surprise[k]
    BY DEF Entropy, x, y, z
  <1> HIDE DEF i, j, k
  <1>5. i \in 0..100 /\ j \in 0..100 /\ k \in 0..100 /\ i + j + k \in 99..101
    BY <1>1, <1>3
  <1>6. k \in {99 - i - j, 100 - i - j, 101 - i - j} \cap 0..100
    <2>1. k = 99 - i - j \/ k = 100 - i - j \/ k = 101 - i - j
      BY <1>3, <1>5
    <2> QED  BY <1>5, <2>1, ZenonT(60)
  <1>7. Surprise[i] + Surprise[j] + Surprise[k] <= 1005
    BY <1>5, <1>6, EntropyAssumption
  <1>8. Surprise[i] \in Int /\ Surprise[j] \in Int /\ Surprise[k] \in Int
    <2> DEFINE hundredths == 0..100
               thousandths == 0..1000
    <2>1. Surprise \in [hundredths -> thousandths]
      BY DecisionsAssumption, ZenonT(60)
    <2>2. i \in hundredths /\ j \in hundredths /\ k \in hundredths
      BY <1>5
    <2>3. \A n \in thousandths : n \in Int
      OBVIOUS
    <2> HIDE DEF hundredths, thousandths
    <2> QED  BY <2>1, <2>2, <2>3
  <1> QED  BY <1>4, <1>7, <1>8

LEMMA MaxAtLeast ==
  ASSUME NEW a \in Int, NEW b \in Int, NEW c \in Int
  PROVE  Max({a, b, c}) \in Int /\ Max({a, b, c}) >= a /\ Max({a, b, c}) >= b /\ Max({a, b, c}) >= c
  <1> DEFINE S == {a, b, c}
  <1>1. \E x \in S : \A y \in S : x >= y
    <2>1. CASE a >= b /\ a >= c
      BY <2>1
    <2>2. CASE b >= a /\ b >= c
      BY <2>2
    <2>3. CASE c >= a /\ c >= b
      BY <2>3
    <2> QED  BY <2>1, <2>2, <2>3
  <1>2. Max(S) \in S /\ \A y \in S : Max(S) >= y
    <2> HIDE DEF S
    <2> QED  BY <1>1 DEF Max
  <1> QED  BY <1>2

\* What data suffice are anchored in at least two games or sources.
LEMMA AnchorsAre ==
  ASSUME NEW m \in MatchData, ~HasInsufficientData(m)
  PROVE  Max({m.evidence, m.headToHead, m.homeRecent + m.awayRecent}) \in Int
         /\ Max({m.evidence, m.headToHead, m.homeRecent + m.awayRecent}) >= 2
  <1>1. m.evidence \in Nat /\ m.headToHead \in Nat /\ m.homeRecent \in Nat /\ m.awayRecent \in Nat
    BY DEF MatchData
  <1>2. m.headToHead >= 3 \/ m.homeRecent + m.awayRecent >= 4
    BY <1>1 DEF HasInsufficientData
  <1> DEFINE a == m.evidence
             b == m.headToHead
             c == m.homeRecent + m.awayRecent
  <1>3. a \in Int /\ b \in Int /\ c \in Int /\ (b >= 3 \/ c >= 4)
    BY <1>1, <1>2
  <1> HIDE DEF a, b, c
  <1>4. Max({a, b, c}) \in Int /\ Max({a, b, c}) >= 2
    BY <1>3, MaxAtLeast, SMTT(30)
  <1> QED  BY <1>4 DEF a, b, c

LEMMA ReadinessIs ==
  ASSUME NEW m
  PROVE  Readiness(m) \in {"ready", "covered", "context_only", "not_ready", "unclassified"}
  <1>1. \A name : OperatingPolicy(name) \in {"ready", "covered", "context_only", "not_ready", "unclassified"}
    BY DEF OperatingPolicy, Policies
  <1> QED  BY <1>1 DEF Readiness

\* The validation defends a clear decision the sanity layer fixed.
LEMMA ClearIsDefensible ==
  ASSUME NEW m \in MatchData, NEW f, NEW b, Clear(f.decision, b),
         f.band = "high", f.status = "FIJO", f.flags \cap BlockingFlags = {},
         f.readiness \in {"ready", "covered", "context_only", "not_ready", "unclassified"}, ~HasInsufficientData(m)
  PROVE  Validation(m, f) # "high"
  <1> DEFINE v == f.decision
             anchors == Max({m.evidence, m.headToHead, m.homeRecent + m.awayRecent})
             third == v[Third(v)]
             gap == Gap(v)
             entropy == Entropy(v)
             risk == ValidationRisk(m, f)
  <1>1. v \in Weights /\ Total(v) \in 999..1001 /\ b \in Outcomes
        /\ (\A o \in Outcomes \ {b} : v[b] >= v[o] + 81) /\ (\E o \in Outcomes : v[o] <= 239)
    BY DEF Clear
  <1> HIDE DEF v
  <1>2. gap \in Int /\ gap >= 81 /\ third \in Int /\ third <= 239
    BY <1>1, FarAhead
  <1>3. entropy \in Int /\ entropy <= 1005
    BY <1>1, EntropyIs
  <1>4. anchors \in Int /\ anchors >= 2
    BY AnchorsAre
  <1>5. f.status \notin ReviewStatuses
    BY DEF ReviewStatuses
  <1> DEFINE ofBand == [high |-> -80, medium |-> 20, low |-> 140, blocked |-> 160][f.band]
             ofReadiness == [ready |-> -60, covered |-> 20, context_only |-> 80, not_ready |-> 120,
                             unclassified |-> 120][f.readiness]
             ofAnchors == IF anchors <= 0 THEN 80 ELSE IF anchors < 2 THEN 30 ELSE -20
             ofGap == IF gap <= 80 THEN 140 ELSE IF gap <= 140 THEN 80 ELSE IF gap <= 220 THEN 30 ELSE -40
             ofThird == IF third >= 240 THEN 90 ELSE IF third >= 200 THEN 50 ELSE 0
             ofStatus == IF f.status \in ReviewStatuses THEN 180 ELSE 0
             ofFlags == IF f.flags \cap BlockingFlags # {} THEN 60 ELSE 0
  <1>6. risk = entropy + ofBand + ofReadiness + ofAnchors + ofGap + ofThird + ofStatus + ofFlags
    BY DEF ValidationRisk, v
  <1>7. /\ ofBand = -80 /\ ofStatus = 0 /\ ofFlags = 0
        /\ ofReadiness \in Int /\ ofReadiness <= 120
    BY <1>5
  <1>8. ofAnchors = -20
    <2> HIDE DEF anchors
    <2> QED  BY <1>4
  <1>9. ofGap \in Int /\ ofGap <= 80 /\ ofThird \in Int /\ ofThird <= 50
    <2> HIDE DEF gap, third
    <2> QED  BY <1>2
  <1> HIDE DEF ofBand, ofReadiness, ofAnchors, ofGap, ofThird, ofStatus, ofFlags, entropy, risk
  <1>10. risk \in Int /\ risk < 1160
    BY <1>3, <1>6, <1>7, <1>8, <1>9
  <1>11. AllowsConfidentSingle(f)
    BY <1>5 DEF AllowsConfidentSingle
  <1>12. ~(gap <= 80) /\ ~(risk >= 1160) /\ ~(third >= 240) /\ f.band # "low"
    <2> HIDE DEF gap, third
    <2> QED  BY <1>2, <1>10
  <1>13. ~(\/ ~AllowsConfidentSingle(f)
           \/ Gap(v) <= 80 \/ ValidationRisk(m, f) >= 1160 \/ f.band = "low" \/ v[Third(v)] >= 240)
    BY <1>11, <1>12 DEF risk
  <1> QED  BY <1>13 DEF Validation, v

LEMMA SingleIsDefensible ==
  ASSUME NEW m \in MatchData, DrawPrior <= 300, Forecast(m).simple
  PROVE  Validation(m, Forecast(m)) # "high"
  <1> DEFINE f == Forecast(m)
             v == Modelled(m)
             b == Best(v)
             n == Sane(m, v)
  <1>1. /\ f.status = "FIJO" /\ f.band = "high" /\ f.flags \cap BlockingFlags = {}
        /\ ~HasInsufficientData(m) /\ v[b] >= 550 /\ Gap(v) >= 120 /\ Cap(m, v) = 900
    BY SimpleIs
  <1>2. f.readiness \in {"ready", "covered", "context_only", "not_ready", "unclassified"}
    <2>1. f.readiness = Readiness(m)
      BY ForecastParts
    <2> HIDE DEF f
    <2> QED  BY <2>1, ReadinessIs
  <1>3. v \in Weights /\ Total(v) <= 1010
    BY ModelledTyped, ModelledParts
  <1>4. Dominant(n, b)
    <2>1. n = Normalized(ShrunkTowardPrior(v, 900))
      BY <1>1 DEF Sane
    <2> HIDE DEF v, n
    <2> QED  BY <1>1, <1>3, <2>1, SaneDominates
  <1>5. /\ f.decision = (IF f.calibrated THEN DrawCalibrated(n) ELSE n)
        /\ f.calibrated => LiftedDraw(n) > n["draw"]
        /\ f.calibrated \in BOOLEAN
    BY ForecastDecides
  <1> HIDE DEF f, v, b, n
  <1>6. Clear(f.decision, b)
    <2>1. CASE f.calibrated
      BY <1>4, <1>5, <2>1, CalibratedIsClear
    <2>2. CASE ~f.calibrated
      BY <1>4, <1>5, <2>2, DominantIsClear
    <2> QED  BY <2>1, <2>2
  <1>7. Validation(m, f) # "high"
    BY <1>1, <1>2, <1>6, ClearIsDefensible
  <1> QED  BY <1>7 DEF f

\* What the database holds of a match, when it holds this prediction.
LEMMA OwnIs ==
  ASSUME NEW p, audit[p] = "own"
  PROVE  Persisted(p) = [status |-> forecasts[p].status, level |-> forecasts[p].level,
                         flags |-> forecasts[p].flags]
  BY DEF Persisted

\* The statuses the report reviews are those money mode does.
LEMMA ReportReviewsTheSame ==
  ASSUME NEW p \in Positions, NEW m, slate[p] = m, m \in MatchData, forecasts[p] = Forecast(m), audit[p] = "own"
  PROVE  /\ ReportStatus(p) = forecasts[p].status
         /\ forecasts[p].status \in {"BLOQUEADO", "FIJO", "LISTO", "REVISAR"}
  <1> DEFINE f == Forecast(m)
  <1>1. /\ f.status \in {"BLOQUEADO", "FIJO", "LISTO", "REVISAR"}
        /\ f.status # "BLOQUEADO" => ~HasInsufficientData(m)
    <2>1. f.status = DegradedStatus(m, Modelled(m))
      BY ForecastParts
    <2> HIDE DEF f
    <2> QED  BY <2>1, StatusIs
  <1> HIDE DEF f
  <1>2. ~HasInsufficientData(m) => ~NoContext(m)
    <2>1. m.headToHead \in Nat /\ m.homeRecent \in Nat /\ m.awayRecent \in Nat
      BY DEF MatchData
    <2> QED  BY <2>1 DEF HasInsufficientData, NoContext
  <1>3. Persisted(p).status = f.status
    BY OwnIs DEF f
  <1>4. f.status = "LISTO" => ~NoContext(slate[p])
    BY <1>1, <1>2
  <1>5. ReportStatus(p) = f.status
    BY <1>3, <1>4 DEF ReportStatus
  <1> QED  BY <1>1, <1>5 DEF f

LEMMA ReasonsAre ==
  ASSUME NEW f
  PROVE  GuardReasons(f) \cap {"review", "blocked"} # {} <=> f.status \in {"REVISAR", "BLOQUEADO"}
  BY DEF GuardReasons

\* Data the quality report calls thin carry a single on form or on meetings alone.
LEMMA ThinSingles ==
  ASSUME NEW m \in MatchData, ~HasInsufficientData(m), QualityLevel(m) = "thin"
  PROVE  m.evidence = 0 /\ (m.headToHead = 0 \/ m.homeRecent + m.awayRecent < 2)
  <1> DEFINE ofForm == CASE m.homeRecent + m.awayRecent >= 2 -> 25
                         [] m.homeRecent + m.awayRecent = 1 -> 12
                         [] OTHER -> 0
             ofPolicy == CASE Readiness(m) \in {"ready", "covered"} -> 15
                           [] Readiness(m) = "context_only" -> 8
                           [] OTHER -> 0
             ofEvidence == IF m.evidence > 0 THEN 30 ELSE 0
             ofMeetings == IF m.headToHead > 0 THEN 20 ELSE 0
             score == ofEvidence + ofForm + ofMeetings + ofPolicy
  <1>1. m.evidence \in Nat /\ m.headToHead \in Nat /\ m.homeRecent \in Nat /\ m.awayRecent \in Nat
    BY DEF MatchData
  <1>2. m.homeRecent + m.awayRecent >= 4 \/ m.headToHead >= 3
    BY <1>1 DEF HasInsufficientData
  <1>3. QualityLevel(m) = IF score >= 70 THEN "good" ELSE IF score >= 40 THEN "partial" ELSE "thin"
    BY DEF QualityLevel
  <1>4. ofPolicy \in {0, 8, 15} /\ ofForm \in {0, 12, 25}
        /\ (m.homeRecent + m.awayRecent >= 2 => ofForm = 25)
    BY <1>1
  <1>5. /\ ofEvidence \in {0, 30} /\ (m.evidence > 0 => ofEvidence = 30)
        /\ ofMeetings \in {0, 20} /\ (m.headToHead > 0 => ofMeetings = 20)
    BY <1>1
  <1> HIDE DEF ofForm, ofPolicy, ofEvidence, ofMeetings
  <1>6. score \in Nat /\ score < 40
    BY <1>3, <1>4, <1>5
  <1>7. m.evidence = 0
    <2> SUFFICES ASSUME m.evidence > 0 PROVE FALSE
      BY <1>1
    <2>1. ofEvidence = 30 /\ (ofForm = 25 \/ ofMeetings = 20)
      BY <1>1, <1>2, <1>4, <1>5
    <2> QED  BY <1>4, <1>5, <1>6, <2>1
  <1>8. m.headToHead = 0 \/ m.homeRecent + m.awayRecent < 2
    <2> SUFFICES ASSUME m.headToHead > 0, m.homeRecent + m.awayRecent >= 2 PROVE FALSE
      BY <1>1
    <2>1. ofForm = 25 /\ ofMeetings = 20
      BY <1>4, <1>5
    <2> QED  BY <1>4, <1>5, <1>6, <2>1
  <1> QED  BY <1>7, <1>8

\* One position, when the database holds its prediction.
LEMMA PositionAgrees ==
  ASSUME NEW p \in Positions, slate[p] \in MatchData, forecasts[p] = Forecast(slate[p]), audit[p] = "own"
  PROVE  /\ p \in MustReview <=> ReportStatus(p) \in {"REVISAR", "BLOQUEADO"}
         /\ p \in SafePromotions(Positions) => ActionableBlockers(p) \subseteq {"team_resolution"}
         /\ p \in SafeCandidates => p \in DoNotSimple
         /\ p \in AuditBlocked /\ verdict.situation.named => p \in DoNotSimple
         /\ p \in AuditWarned => p \in MustReview
  <1> DEFINE f == forecasts[p]
  <1>1. ReportStatus(p) = f.status /\ f.status \in {"BLOQUEADO", "FIJO", "LISTO", "REVISAR"}
    BY ReportReviewsTheSame
  <1>2. Persisted(p).flags = f.flags /\ Persisted(p).level = f.level
    BY OwnIs
  <1>3. f.simple => f.status = "FIJO" /\ f.flags \cap BlockingFlags = {}
    BY SimpleIs
  <1>4. p \in MustReview <=> ReportStatus(p) \in {"REVISAR", "BLOQUEADO"}
    BY <1>1, ReasonsAre DEF MustReview
  <1> HIDE DEF f
  <1>5. ASSUME f.simple PROVE ActionableBlockers(p) \subseteq {"team_resolution"}
    <2>1. /\ "LOW_EVIDENCE" \notin f.flags /\ "BLOCKED_INSUFFICIENT_DATA" \notin f.flags
          /\ "FALLBACK_USED" \notin f.flags /\ ReportStatus(p) = "FIJO"
      BY <1>1, <1>3, <1>5 DEF BlockingFlags
    <2> QED  BY <1>2, <2>1 DEF ActionableBlockers
  <1>6. p \in SafePromotions(Positions) => f.simple
    BY DEF SafePromotions, ReadyNow, f
  <1>7. p \in SafeCandidates => p \in DoNotSimple
    BY <1>1, <1>3 DEF SafeCandidates, DoNotSimple, f
  <1>8. p \in AuditBlocked /\ verdict.situation.named => p \in DoNotSimple
    <2> SUFFICES ASSUME p \in AuditBlocked, verdict.situation.named, f.simple PROVE FALSE
      BY DEF DoNotSimple, f
    <2>1. /\ "BLOCKED_INSUFFICIENT_DATA" \notin f.flags /\ "FALLBACK_USED" \notin f.flags
          /\ ReportStatus(p) = "FIJO"
      BY <1>1, <1>3 DEF BlockingFlags
    <2> QED  BY <1>2, <2>1 DEF AuditBlocked
  <1>9. p \in AuditWarned => p \in MustReview
    BY <1>4 DEF AuditWarned
  <1> QED  BY <1>4, <1>5, <1>6, <1>7, <1>8, <1>9

LEMMA GuardAgrees ==
  ASSUME DrawPrior <= 300, PlansInv
  PROVE  GuardAgreesWithValidation
  <1>1. PICK n \in 0..Len(slate) : forecasts = [p \in 1..n |-> Forecast(slate[p])]
    BY DEF PlansInv, Scored
  <1>2. Len(slate) \in Nat /\ \A p \in 1..Len(slate) : slate[p] \in MatchData
    BY SlateIs DEF PlansInv, Positions
  <1>3. \A p \in DOMAIN forecasts : forecasts[p] = Forecast(slate[p]) /\ slate[p] \in MatchData
    BY <1>1, <1>2
  <1>4. SinglesAreDefensible
    BY <1>3, SingleIsDefensible DEF SinglesAreDefensible
  <1>5. \A p \in DOMAIN forecasts :
          forecasts[p].simple => \/ forecasts[p].shown = "high"
                                 \/ forecasts[p].calibrated
                                 \/ "EXTREME_PROBABILITY_CAPPED" \in forecasts[p].flags
    BY <1>3, SimpleIs
  <1>6. ASSUME verdict # NoVerdict
        PROVE  \A p \in Positions : forecasts[p] = Forecast(slate[p]) /\ slate[p] \in MatchData
    <2>1. phase # "scoring"
      BY <1>6 DEF PlansInv
    <2>2. forecasts = [p \in Positions |-> Forecast(slate[p])]
      BY <2>1, DecisionsAre
    <2> QED  BY <1>2, <2>2 DEF Positions
  <1>7. ASSUME verdict # NoVerdict, NEW p \in Positions, audit[p] = "own"
        PROVE  /\ p \in MustReview <=> ReportStatus(p) \in {"REVISAR", "BLOQUEADO"}
               /\ p \in SafePromotions(Positions) => ActionableBlockers(p) \subseteq {"team_resolution"}
               /\ p \in SafeCandidates => p \in DoNotSimple
               /\ p \in AuditBlocked /\ verdict.situation.named => p \in DoNotSimple
               /\ p \in AuditWarned => p \in MustReview
    BY <1>6, <1>7, PositionAgrees
  <1>8. ASSUME verdict # NoVerdict, NEW p \in ReadyNow, QualityLevel(slate[p]) = "thin"
        PROVE  /\ slate[p].evidence = 0
               /\ slate[p].headToHead = 0 \/ slate[p].homeRecent + slate[p].awayRecent < 2
    <2>1. p \in Positions /\ forecasts[p].simple
      BY <1>8 DEF ReadyNow
    <2>2. forecasts[p] = Forecast(slate[p]) /\ slate[p] \in MatchData
      BY <1>6, <1>8, <2>1
    <2>3. ~HasInsufficientData(slate[p])
      BY <2>1, <2>2, SimpleIs
    <2> QED  BY <1>8, <2>2, <2>3, ThinSingles
  <1>9. ASSUME verdict # NoVerdict, NEW p \in SafePromotions(Positions)
        PROVE  p \notin MustReview /\ MatchPick(p) # "no_simple"
    <2>1. p \in Positions /\ forecasts[p].simple
      BY <1>9 DEF SafePromotions, ReadyNow
    <2>2. forecasts[p] = Forecast(slate[p])
      BY <1>6, <1>9, <2>1
    <2>3. forecasts[p].status = "FIJO"
      BY <2>1, <2>2, SimpleIs
    <2>4. p \notin MustReview
      BY <2>3, ReasonsAre DEF MustReview
    <2> QED  BY <2>1, <2>4 DEF MatchPick
  <1>10. verdict # NoVerdict =>
           /\ \A p \in Positions :
                audit[p] = "own" =>
                  /\ p \in MustReview <=> ReportStatus(p) \in {"REVISAR", "BLOQUEADO"}
                  /\ p \in SafePromotions(Positions) => ActionableBlockers(p) \subseteq {"team_resolution"}
                  /\ p \in SafeCandidates => p \in DoNotSimple
                  /\ p \in AuditBlocked /\ verdict.situation.named => p \in DoNotSimple
                  /\ p \in AuditWarned => p \in MustReview
           /\ \A p \in ReadyNow :
                QualityLevel(slate[p]) = "thin" =>
                  /\ slate[p].evidence = 0
                  /\ slate[p].headToHead = 0 \/ slate[p].homeRecent + slate[p].awayRecent < 2
           /\ SafePromotions(Positions) \cap MustReview = {}
           /\ \A p \in SafePromotions(Positions) : MatchPick(p) # "no_simple"
    BY <1>7, <1>8, <1>9
  <1> QED  BY <1>4, <1>5, <1>10 DEF GuardAgreesWithValidation

(***************************************************************************)
(* As long as the prior of a draw is three in ten at most, the guard's     *)
(* singles are what the ticket's validation defends, and every reader of   *)
(* the same prediction (presentation_guard, _validation, money mode, the   *)
(* readiness report and its expansion audit) reviews the same matches.     *)
(***************************************************************************)
THEOREM GuardsAgree == DrawPrior <= 300 => (TicketsSpec => []GuardAgreesWithValidation)
  <1> SUFFICES ASSUME DrawPrior <= 300 PROVE TicketsSpec => []GuardAgreesWithValidation
    OBVIOUS
  <1>1. PlansInv => GuardAgreesWithValidation
    BY GuardAgrees
  <1> QED  BY <1>1, PlansInvariant, PTL
================================================================================
