------------------------- MODULE SlateProposalsProofs -------------------------
(***************************************************************************)
(* Proofs about SlateProposals and MsPdfWatch, for any contests, sources,  *)
(* fixture lists and promoters: dual validation, that a promoted slate     *)
(* shows confirmed fixtures, and how long an invented cierre lasts.  The   *)
(* first invariant adds what ties a row to its history: the counter of a   *)
(* row is the length of its streak, a streak of two has confirmed its      *)
(* fixtures, and so has whatever a promotion in flight carries.            *)
(***************************************************************************)
EXTENDS MsPdfWatch, TLAPS

CountsTheStreak ==
  \A d \in Draws, u \in Urls :
    proposals[d][u].status # "absent" => proposals[d][u].observations = streak[d][u]

StreakConfirms ==
  \A d \in Draws, u \in Urls :
    streak[d][u] >= RequiredObservations => proposals[d][u].fixtures \in confirmed[d]

CaptureConfirms ==
  \A d \in Draws, u \in Captures :
    proposals[d][u].status = "validated" => proposals[d][u].fixtures \in confirmed[d]

FlightIsConfirmed ==
  \A a \in Actors : inflight[a] # NoJob =>
    /\ inflight[a].new.fixtures \in confirmed[inflight[a].draw]
    /\ inflight[a].stage = "written" => slates[inflight[a].draw].exists
    /\ proposals[inflight[a].draw][inflight[a].url].status # "absent"

ProposalsInv ==
  /\ TypeOK /\ CountsTheStreak /\ StreakConfirms /\ CaptureConfirms
  /\ FlightIsConfirmed /\ ValidatedIsConfirmed /\ PromotedSlateIsConfirmed

------------------------------------------------------------------------------

LEMMA LesserIsNat == \A a, b \in Nat : Lesser(a, b) \in Nat /\ Lesser(a, b) <= b
  BY DEF Lesser

LEMMA NoProposalNoSlate == NoProposal \in Proposal /\ NoSlate \in Slate
  <1>1. SomeFixtures \in Fixtures
    BY SourcesAssumption DEF SomeFixtures
  <1> QED
    BY <1>1 DEF NoProposal, Proposal, Statuses, AnyDate, RequiredObservations, NoSlate, Slate

LEMMA InitProposalsInv == Init => ProposalsInv
  <1> SUFFICES ASSUME Init PROVE ProposalsInv
    OBVIOUS
  <1>1. TypeOK
    <2>1. proposals \in [Draws -> [Urls -> Proposal]] /\ slates \in [Draws -> Slate]
      BY NoProposalNoSlate DEF Init
    <2>2. \A d \in Draws, u \in Urls : ~proposals[d][u].linked
      BY DEF Init, NoProposal
    <2>3. /\ clock \in Nat /\ crashes \in Nat
          /\ inflight \in [Actors -> Promotion \cup {NoJob}]
          /\ streak \in [Draws -> [Urls -> 0..RequiredObservations]]
          /\ confirmed \in [Draws -> SUBSET Fixtures]
      BY DEF Init, RequiredObservations
    <2> QED
      BY <2>1, <2>2, <2>3 DEF TypeOK
  <1>2. CountsTheStreak /\ StreakConfirms /\ CaptureConfirms
    BY DEF Init, CountsTheStreak, StreakConfirms, CaptureConfirms, NoProposal,
           RequiredObservations, Urls
  <1>3. FlightIsConfirmed /\ ValidatedIsConfirmed /\ PromotedSlateIsConfirmed
    BY DEF Init, FlightIsConfirmed, ValidatedIsConfirmed, PromotedSlateIsConfirmed,
           NoProposal, NoSlate, Urls
  <1> QED
    BY <1>1, <1>2, <1>3 DEF ProposalsInv

------------------------------------------------------------------------------

(* One sighting of a row, with the length of its streak before it. *)
NextStreak(row, run, f) ==
  IF row.status # "absent" /\ row.fixtures = f THEN Lesser(run + 1, RequiredObservations) ELSE 1

(* The row after a sighting counts its streak, and is validated by two     *)
(* sightings in a row.                                                     *)
LEMMA ObservedRow ==
  ASSUME NEW row \in Proposal, NEW run \in 0..RequiredObservations,
         NEW f \in Fixtures, NEW c \in Dates,
         row.status # "absent" => row.observations = run
  PROVE  LET new == Observed(row, f, c)
             seen == NextStreak(row, run, f)
         IN /\ new \in Proposal
            /\ seen \in 0..RequiredObservations
            /\ new.observations = seen
            /\ new.fixtures = f
            /\ new.status # "absent"
            /\ new.linked => row.linked
            /\ new.status = "validated" => row.status = "validated" \/ seen >= RequiredObservations
            /\ row.status = "validated" /\ run >= RequiredObservations /\ new.status = "validated"
                 => seen >= RequiredObservations
  <1> DEFINE new == Observed(row, f, c)
             more == Lesser(row.observations + 1, RequiredObservations)
  <1>1. c \in AnyDate
    BY SourcesAssumption DEF AnyDate
  <1>2. CASE row.status = "absent"
    <2>1. new = [status |-> "observed", observations |-> 1, fixtures |-> f, closes |-> c,
                 linked |-> FALSE]
      BY <1>2 DEF Observed
    <2> QED
      BY <1>1, <1>2, <2>1 DEF Proposal, Statuses, NextStreak, RequiredObservations
  <1>3. CASE row.status # "absent" /\ row.fixtures = f
    <2> DEFINE status == IF row.status = "observed" /\ more >= RequiredObservations
                         THEN "validated" ELSE row.status
               closes == IF c = NoDate THEN row.closes ELSE c
    <2>1. new = [row EXCEPT !.observations = more, !.status = status, !.closes = closes]
      BY <1>3 DEF Observed
    <2>2. more \in 0..RequiredObservations /\ more = NextStreak(row, run, f)
      BY <1>3 DEF Proposal, Lesser, RequiredObservations, NextStreak
    <2>3. status \in Statuses /\ status # "absent" /\ closes \in AnyDate
      BY <1>1, <1>3 DEF Proposal, Statuses
    <2>4. /\ new.status = status /\ new.observations = more /\ new.closes = closes
          /\ new.fixtures = row.fixtures /\ new.linked = row.linked
      BY <2>1 DEF Proposal
    <2>5. new \in Proposal
      <3> HIDE DEF status, closes, more
      <3> QED
        BY <2>1, <2>2, <2>3 DEF Proposal
    <2>6. run >= RequiredObservations => more >= RequiredObservations
      BY <1>3, <2>2 DEF NextStreak, Lesser, RequiredObservations
    <2> HIDE DEF more, new
    <2> QED
      BY <1>3, <2>2, <2>3, <2>4, <2>5, <2>6 DEF new
  <1>4. CASE row.status # "absent" /\ row.fixtures # f
    <2>1. new = [row EXCEPT !.fixtures = f, !.closes = c, !.observations = 1,
                            !.status = "observed"]
      BY <1>4 DEF Observed
    <2>2. /\ new.status = "observed" /\ new.observations = 1 /\ new.closes = c
          /\ new.fixtures = f /\ new.linked = row.linked
      BY <2>1 DEF Proposal
    <2>3. new \in Proposal
      <3>1. 1 \in 0..RequiredObservations /\ "observed" \in Statuses
        BY DEF RequiredObservations, Statuses
      <3> QED
        BY <1>1, <2>1, <3>1 DEF Proposal
    <2>4. NextStreak(row, run, f) = 1
      BY <1>4 DEF NextStreak
    <2> HIDE DEF new
    <2> QED
      BY <2>2, <2>3, <2>4 DEF new, RequiredObservations
  <1> QED
    BY <1>2, <1>3, <1>4

(* What an observation of a guide, or an operator's capture, leaves true.  *)
LEMMA SightingKeepsInv ==
  ASSUME ProposalsInv, NEW d \in Draws, NEW u \in Urls, NEW f \in Fixtures, NEW c \in Dates,
         NEW new \in Proposal,
         proposals' = [proposals EXCEPT ![d][u] = new],
         Sighting(d, u, f, c),
         LET seen == NextStreak(proposals[d][u], streak[d][u], f)
         IN /\ new.observations = seen /\ new.fixtures = f /\ new.status # "absent"
            /\ new.linked => proposals[d][u].linked
            /\ u \in Guides /\ new.status = "validated" => seen >= RequiredObservations
            /\ u \in Captures \/ seen >= RequiredObservations => f \in confirmed'[d],
         confirmed' \in [Draws -> SUBSET Fixtures],
         \A e \in Draws : confirmed[e] \subseteq confirmed'[e],
         UNCHANGED <<clock, slates, inflight, crashes>>
  PROVE  ProposalsInv'
  <1> USE DEF ProposalsInv
  <1> DEFINE seen == NextStreak(proposals[d][u], streak[d][u], f)
  <1>1. streak' = [streak EXCEPT ![d][u] = seen]
    BY DEF Sighting, NextStreak
  <1>2. seen \in 0..RequiredObservations
    BY DEF NextStreak, Lesser, TypeOK, RequiredObservations
  <1> HIDE DEF seen
  <1>3. \A e \in Draws, v \in Urls :
          /\ proposals'[e][v] = IF e = d /\ v = u THEN new ELSE proposals[e][v]
          /\ streak'[e][v] = IF e = d /\ v = u THEN seen ELSE streak[e][v]
    BY <1>1 DEF TypeOK
  <1>4. \A e \in Draws : confirmed[e] \subseteq confirmed'[e]
    OBVIOUS
  <1>5. u \in Captures \/ seen >= RequiredObservations => f \in confirmed'[d]
    BY DEF seen
  <1>6. TypeOK'
    <2>1. proposals' \in [Draws -> [Urls -> Proposal]]
      BY DEF TypeOK
    <2>2. streak' \in [Draws -> [Urls -> 0..RequiredObservations]]
      BY <1>1, <1>2 DEF TypeOK
    <2>3. confirmed' \in [Draws -> SUBSET Fixtures]
      OBVIOUS
    <2>4. \A e \in Draws, v \in Urls : proposals'[e][v].linked => slates'[e].exists
      BY <1>3 DEF TypeOK
    <2> QED
      BY <2>1, <2>2, <2>3, <2>4 DEF TypeOK
  <1>7. CountsTheStreak'
    BY <1>3 DEF CountsTheStreak, seen
  <1>8. StreakConfirms'
    BY <1>3, <1>4, <1>5 DEF StreakConfirms
  <1>9. CaptureConfirms'
    BY <1>3, <1>4, <1>5 DEF CaptureConfirms, Urls
  <1>10. FlightIsConfirmed'
    BY <1>3, <1>4 DEF FlightIsConfirmed, TypeOK, Promotion
  <1>11. ValidatedIsConfirmed'
    BY <1>3 DEF ValidatedIsConfirmed, Urls, seen
  <1>12. PromotedSlateIsConfirmed'
    BY <1>4 DEF PromotedSlateIsConfirmed
  <1> QED
    BY <1>6, <1>7, <1>8, <1>9, <1>10, <1>11, <1>12

LEMMA ObserveKeepsInv ==
  ASSUME ProposalsInv, NEW d \in Draws, NEW u \in Guides, NEW f \in Fixtures, NEW c \in Dates,
         Observe(d, u, f, c)
  PROVE  ProposalsInv'
  <1> DEFINE row == proposals[d][u]
             run == streak[d][u]
             new == Observed(row, f, c)
             seen == NextStreak(row, run, f)
  <1>1. u \in Urls /\ u \notin Captures
    BY SourcesAssumption DEF Urls
  <1>2. row \in Proposal /\ run \in 0..RequiredObservations
    BY <1>1 DEF ProposalsInv, TypeOK
  <1>3. row.status # "absent" => row.observations = run
    BY <1>1 DEF ProposalsInv, CountsTheStreak
  <1>4. row.status = "validated" => run >= RequiredObservations
    BY DEF ProposalsInv, ValidatedIsConfirmed
  <1>5. /\ new \in Proposal /\ seen \in 0..RequiredObservations
        /\ new.observations = seen /\ new.fixtures = f /\ new.status # "absent"
        /\ new.linked => row.linked
        /\ new.status = "validated" => seen >= RequiredObservations
    <2> HIDE DEF row, run
    <2> QED
      BY <1>2, <1>3, <1>4, ObservedRow
  <1>6. streak'[d][u] = seen
    BY <1>1 DEF Observe, Sighting, NextStreak, ProposalsInv, TypeOK
  <1>7. proposals' = [proposals EXCEPT ![d][u] = new]
    BY DEF Observe
  <1>8. /\ confirmed' \in [Draws -> SUBSET Fixtures]
        /\ \A e \in Draws : confirmed[e] \subseteq confirmed'[e]
        /\ seen >= RequiredObservations => f \in confirmed'[d]
    BY <1>6 DEF Observe, ProposalsInv, TypeOK
  <1>9. Sighting(d, u, f, c) /\ UNCHANGED <<clock, slates, inflight, crashes>>
    BY DEF Observe
  <1> HIDE DEF new
  <1> QED
    BY <1>1, <1>5, <1>7, <1>8, <1>9, SightingKeepsInv

LEMMA CaptureKeepsInv ==
  ASSUME ProposalsInv, NEW d \in Draws, NEW u \in Captures, NEW f \in Fixtures, NEW c \in Dates,
         Capture(d, u, f, c)
  PROVE  ProposalsInv'
  <1> DEFINE row == proposals[d][u]
             run == streak[d][u]
             obs == Observed(row, f, c)
             new == [obs EXCEPT !.status = "validated"]
             seen == NextStreak(row, run, f)
  <1>1. u \in Urls /\ u \notin Guides
    BY SourcesAssumption DEF Urls
  <1>2. row \in Proposal /\ run \in 0..RequiredObservations
    BY <1>1 DEF ProposalsInv, TypeOK
  <1>3. row.status # "absent" => row.observations = run
    BY <1>1 DEF ProposalsInv, CountsTheStreak
  <1>5. /\ obs \in Proposal /\ obs.observations = seen /\ obs.fixtures = f
        /\ obs.linked => row.linked
    <2> HIDE DEF row, run
    <2> QED
      BY <1>2, <1>3, ObservedRow
  <1>6. /\ new \in Proposal /\ new.observations = seen /\ new.fixtures = f
        /\ new.status # "absent" /\ new.linked => row.linked
    <2> HIDE DEF obs, seen, row
    <2> QED
      BY <1>5 DEF Proposal, Statuses
  <1>7. proposals' = [proposals EXCEPT ![d][u] = new]
    BY DEF Capture
  <1>8. /\ confirmed' \in [Draws -> SUBSET Fixtures]
        /\ \A e \in Draws : confirmed[e] \subseteq confirmed'[e]
        /\ f \in confirmed'[d]
    BY DEF Capture, ProposalsInv, TypeOK
  <1>9. Sighting(d, u, f, c) /\ UNCHANGED <<clock, slates, inflight, crashes>>
    BY DEF Capture
  <1>10. u \in Guides /\ new.status = "validated" => seen >= RequiredObservations
    BY <1>1
  <1>11. /\ new.observations = seen /\ new.fixtures = f /\ new.status # "absent"
         /\ new.linked => proposals[d][u].linked
         /\ u \in Guides /\ new.status = "validated" => seen >= RequiredObservations
         /\ u \in Captures \/ seen >= RequiredObservations => f \in confirmed'[d]
    BY <1>6, <1>8, <1>10
  <1>12. new \in Proposal /\ u \in Urls
    BY <1>1, <1>6
  <1> HIDE DEF new, obs
  <1> QED
    BY <1>7, <1>8, <1>9, <1>11, <1>12, SightingKeepsInv

------------------------------------------------------------------------------

(* A row a promotion marks is never validated by it, and keeps its fixtures. *)
LEMMA LinkKeepsInv ==
  ASSUME ProposalsInv, NEW d \in Draws, NEW u \in Urls, slates[d].exists,
         proposals[d][u].status # "absent",
         proposals' = [proposals EXCEPT ![d][u] = Linked(@)],
         UNCHANGED <<clock, slates, crashes, streak, confirmed>>,
         NEW a \in Actors, inflight' = inflight \/ inflight' = [inflight EXCEPT ![a] = NoJob]
  PROVE  ProposalsInv'
  <1> USE DEF ProposalsInv
  <1> DEFINE row == proposals[d][u]
             new == Linked(row)
  <1>1. /\ new \in Proposal /\ new.status = "promoted" /\ new.fixtures = row.fixtures
        /\ new.observations = row.observations
    <2>1. row \in Proposal
      BY DEF TypeOK
    <2> HIDE DEF row
    <2> QED
      BY <2>1 DEF Linked, Proposal, Statuses
  <1>2. \A e \in Draws, v \in Urls :
          proposals'[e][v] = IF e = d /\ v = u THEN new ELSE proposals[e][v]
    BY DEF TypeOK
  <1>3. proposals' \in [Draws -> [Urls -> Proposal]]
    BY <1>1 DEF TypeOK
  <1> HIDE DEF new
  <1>4. TypeOK'
    BY <1>2, <1>3 DEF TypeOK
  <1>5. CountsTheStreak' /\ StreakConfirms'
    BY <1>1, <1>2 DEF CountsTheStreak, StreakConfirms
  <1>6. CaptureConfirms' /\ ValidatedIsConfirmed'
    BY <1>1, <1>2 DEF CaptureConfirms, ValidatedIsConfirmed, Urls
  <1>7. FlightIsConfirmed' /\ PromotedSlateIsConfirmed'
    BY <1>1, <1>2 DEF FlightIsConfirmed, PromotedSlateIsConfirmed, TypeOK, Promotion
  <1> QED
    BY <1>4, <1>5, <1>6, <1>7

(* A slate that is written keeps or loses its mark, and carries confirmed   *)
(* fixtures when a promotion wrote it.                                      *)
LEMMA WriteKeepsInv ==
  ASSUME ProposalsInv,
         slates' \in [Draws -> Slate],
         \A d \in Draws : slates[d].exists => slates'[d].exists,
         \A d \in Draws : slates'[d].promoted => slates'[d].fixtures \in confirmed[d],
         UNCHANGED <<clock, proposals, crashes, streak, confirmed>>,
         inflight' = inflight
         \/ \E a \in Actors : /\ inflight[a] # NoJob
                             /\ inflight' = [inflight EXCEPT ![a].stage = "written"]
                             /\ slates'[inflight[a].draw].exists
  PROVE  ProposalsInv'
  <1> USE DEF ProposalsInv
  <1>1. /\ inflight' \in [Actors -> Promotion \cup {NoJob}]
        /\ FlightIsConfirmed'
    <2>1. CASE inflight' = inflight
      BY <2>1 DEF TypeOK, FlightIsConfirmed, Promotion
    <2>2. CASE inflight' # inflight
      <3>1. PICK a \in Actors : /\ inflight[a] # NoJob
                               /\ inflight' = [inflight EXCEPT ![a].stage = "written"]
                               /\ slates'[inflight[a].draw].exists
        BY <2>2
      <3> DEFINE p == inflight[a]
                 q == [p EXCEPT !.stage = "written"]
      <3>2. p \in Promotion
        BY <3>1 DEF TypeOK
      <3>3. q \in Promotion /\ q.draw = p.draw /\ q.new = p.new
        BY <3>2 DEF Promotion
      <3>4. inflight' = [inflight EXCEPT ![a] = q]
        BY <3>1 DEF TypeOK
      <3> HIDE DEF q
      <3>5. \A b \in Actors : inflight'[b] = IF b = a THEN q ELSE inflight[b]
        BY <3>4 DEF TypeOK
      <3>6. inflight' \in [Actors -> Promotion \cup {NoJob}]
        BY <3>3, <3>4 DEF TypeOK
      <3>7. \A b \in Actors : inflight[b] # NoJob => inflight[b].draw \in Draws
        BY DEF TypeOK, Promotion
      <3> QED
        BY <3>1, <3>3, <3>5, <3>6, <3>7 DEF FlightIsConfirmed
    <2> QED
      BY <2>1, <2>2
  <1>2. TypeOK'
    BY <1>1 DEF TypeOK
  <1>3. CountsTheStreak' /\ StreakConfirms' /\ CaptureConfirms' /\ ValidatedIsConfirmed'
    BY DEF CountsTheStreak, StreakConfirms, CaptureConfirms, ValidatedIsConfirmed
  <1>4. PromotedSlateIsConfirmed'
    BY DEF PromotedSlateIsConfirmed
  <1> QED
    BY <1>1, <1>2, <1>3, <1>4

(* A promotion may start only from a validated proposal, which is confirmed. *)
LEMMA ValidatedConfirms ==
  ASSUME ProposalsInv, NEW d \in Draws, NEW u \in Urls, proposals[d][u].status = "validated"
  PROVE  proposals[d][u].fixtures \in confirmed[d]
  <1>1. CASE u \in Guides
    BY <1>1 DEF ProposalsInv, ValidatedIsConfirmed, StreakConfirms
  <1>2. CASE u \in Captures
    BY <1>2 DEF ProposalsInv, CaptureConfirms
  <1> QED
    BY <1>1, <1>2 DEF Urls

(* What a promotion carries: the type of a slate's new contents. *)
Contents == [is_archived: BOOLEAN, closes: AnyDate, fixtures: Fixtures, kickoff: Nat,
             fabricated: BOOLEAN, promoted: BOOLEAN]

(* Writing contents over a slate yields a slate that exists and shows them. *)
LEMMA UpsertedSlate ==
  ASSUME NEW s \in Slate, NEW new \in Contents, NEW kept \in BOOLEAN
  PROVE  LET t == Upserted(s, new, kept)
         IN t \in Slate /\ t.exists /\ t.fixtures = new.fixtures /\ t.promoted = new.promoted
  <1> DEFINE same == s.fixtures = new.fixtures /\ s.hashed = new.kickoff
             version == IF ~s.exists THEN 1 ELSE IF same THEN s.version
                        ELSE Lesser(s.version + 1, MaxVersion)
             observed == kept \/ (s.observed /\ same /\ s.kickoff = new.kickoff)
             t == Upserted(s, new, kept)
  <1>1. version \in Nat
    BY LimitsAssumption DEF Slate, Lesser
  <1>2. observed \in BOOLEAN
    OBVIOUS
  <1>3. t = [exists |-> TRUE, is_archived |-> new.is_archived, closes |-> new.closes,
             fixtures |-> new.fixtures, kickoff |-> new.kickoff, hashed |-> new.kickoff,
             fabricated |-> new.fabricated, version |-> version, observed |-> observed,
             promoted |-> new.promoted]
    BY DEF Upserted
  <1> HIDE DEF version, observed, t
  <1>4. t.exists /\ t.fixtures = new.fixtures /\ t.promoted = new.promoted
    BY <1>3
  <1>5. t \in Slate
    BY <1>1, <1>2, <1>3 DEF Slate, Contents
  <1> QED
    BY <1>4, <1>5 DEF t

(* A promotion that starts or is cut disturbs nothing but itself. *)
LEMMA FlightKeepsInv ==
  ASSUME ProposalsInv, NEW a \in Actors,
         UNCHANGED <<clock, proposals, slates, streak, confirmed>>, crashes' \in Nat,
         NEW p \in Promotion \cup {NoJob}, inflight' = [inflight EXCEPT ![a] = p],
         p # NoJob => /\ p.stage = "decided" /\ p.new.fixtures \in confirmed[p.draw]
                      /\ proposals[p.draw][p.url].status # "absent"
  PROVE  ProposalsInv'
  <1> USE DEF ProposalsInv
  <1>1. TypeOK'
    BY DEF TypeOK
  <1>2. FlightIsConfirmed'
    BY DEF TypeOK, FlightIsConfirmed
  <1>3. CountsTheStreak' /\ StreakConfirms' /\ CaptureConfirms' /\ ValidatedIsConfirmed'
    BY DEF CountsTheStreak, StreakConfirms, CaptureConfirms, ValidatedIsConfirmed
  <1>4. PromotedSlateIsConfirmed'
    BY DEF PromotedSlateIsConfirmed
  <1> QED
    BY <1>1, <1>2, <1>3, <1>4

LEMMA PromoteKeepsInv ==
  ASSUME ProposalsInv, NEW a \in Actors, Promote(a)
  PROVE  ProposalsInv'
  <1>1. ASSUME NEW d \in Draws, NEW u \in Urls, LinkToSlate(a, d, u) PROVE ProposalsInv'
    BY <1>1, LinkKeepsInv DEF LinkToSlate, Promotable
  <1>2. ASSUME NEW d \in Draws, NEW u \in Urls, NEW resolved \in BOOLEAN,
               BeginPromotion(a, d, u, resolved)
        PROVE  ProposalsInv'
    <2> DEFINE row == proposals[d][u]
               cierre == IF row.closes = NoDate THEN clock ELSE row.closes
               kickoff == IF resolved THEN RealKickoff[row.fixtures] ELSE cierre + Offset
               new == [is_archived |-> FALSE, closes |-> row.closes, fixtures |-> row.fixtures,
                       kickoff |-> kickoff, fabricated |-> ~resolved, promoted |-> TRUE]
               p == [draw |-> d, url |-> u, stage |-> "decided", new |-> new]
    <2>1. row \in Proposal /\ clock \in Nat
      BY DEF ProposalsInv, TypeOK
    <2>2. kickoff \in Nat
      <3> HIDE DEF row
      <3> QED
        BY <2>1, SourcesAssumption DEF Proposal, AnyDate
    <2>3. new \in Contents
      <3> HIDE DEF kickoff, row
      <3> QED
        BY <2>1, <2>2 DEF Contents, Proposal
    <2>4. row.fixtures \in confirmed[d]
      BY <1>2, ValidatedConfirms DEF BeginPromotion, Promotable
    <2>5. inflight' = [inflight EXCEPT ![a] = p]
      BY <1>2 DEF BeginPromotion
    <2>6. crashes' \in Nat /\ UNCHANGED <<clock, proposals, slates, streak, confirmed>>
      BY <1>2 DEF BeginPromotion, ProposalsInv, TypeOK
    <2>7. new.fixtures = row.fixtures
      OBVIOUS
    <2> HIDE DEF new
    <2>8. p \in Promotion /\ p.stage = "decided" /\ p.draw = d /\ p.url = u /\ p.new = new
      BY <2>3 DEF Promotion, Contents
    <2>9. row.status # "absent"
      BY <1>2 DEF BeginPromotion, Promotable
    <2> HIDE DEF p
    <2> QED
      BY <2>4, <2>9, <2>5, <2>6, <2>7, <2>8, FlightKeepsInv
  <1>3. CASE WriteSlate(a)
    <2> DEFINE d == inflight[a].draw
               new == inflight[a].new
    <2>1. d \in Draws /\ new \in Contents /\ new.fixtures \in confirmed[d]
      BY <1>3 DEF WriteSlate, ProposalsInv, TypeOK, Promotion, Contents, FlightIsConfirmed
    <2>2. PICK kept \in {slates[d].observed, FALSE} :
            slates' = [slates EXCEPT ![d] = Upserted(@, new, kept)]
      BY <1>3 DEF WriteSlate
    <2>3. slates[d] \in Slate /\ kept \in BOOLEAN
      BY <2>1, <2>2 DEF ProposalsInv, TypeOK, Slate
    <2> DEFINE t == Upserted(slates[d], new, kept)
    <2>4. t \in Slate /\ t.exists /\ t.fixtures = new.fixtures
      BY <2>1, <2>3, UpsertedSlate
    <2>5. slates' = [slates EXCEPT ![d] = t]
      BY <2>2
    <2>6. inflight[a] # NoJob /\ inflight' = [inflight EXCEPT ![a].stage = "written"]
          /\ UNCHANGED <<clock, proposals, crashes, streak, confirmed>>
      BY <1>3 DEF WriteSlate
    <2> HIDE DEF t
    <2>7. /\ slates' \in [Draws -> Slate]
          /\ slates'[d] = t
          /\ \A e \in Draws : e # d => slates'[e] = slates[e]
      BY <2>1, <2>4, <2>5 DEF ProposalsInv, TypeOK
    <2>8. \A e \in Draws : slates'[e].promoted => slates'[e].fixtures \in confirmed[e]
      BY <2>1, <2>4, <2>7 DEF ProposalsInv, PromotedSlateIsConfirmed
    <2>9. \A e \in Draws : slates[e].exists => slates'[e].exists
      BY <2>4, <2>7
    <2> QED
      BY <2>4, <2>6, <2>7, <2>8, <2>9, WriteKeepsInv
  <1>4. CASE FinishPromotion(a)
    <2> DEFINE d == inflight[a].draw
               u == inflight[a].url
    <2>1. /\ d \in Draws /\ u \in Urls /\ slates[d].exists
          /\ proposals[d][u].status # "absent"
      BY <1>4 DEF FinishPromotion, ProposalsInv, TypeOK, Promotion, FlightIsConfirmed
    <2>2. /\ proposals' = [proposals EXCEPT ![d][u] = Linked(@)]
          /\ UNCHANGED <<clock, slates, crashes, streak, confirmed>>
          /\ inflight' = [inflight EXCEPT ![a] = NoJob]
      BY <1>4 DEF FinishPromotion
    <2> HIDE DEF d, u
    <2> QED
      BY <2>1, <2>2, LinkKeepsInv
  <1> QED
    BY <1>1, <1>2, <1>3, <1>4 DEF Promote

(* The writers that no promotion guards: archival, overrides, refreshes, results. *)
LEMMA SlateStepKeepsInv ==
  ASSUME ProposalsInv, UNCHANGED <<clock, proposals, inflight, crashes, streak, confirmed>>,
         \/ ArchiveDueSlates
         \/ \E d \in Draws : ArchiveClosedSlates(d) \/ ObserveResult(d)
         \/ \E d \in Draws, c \in Cierres : OverrideDate(d, c)
  PROVE  ProposalsInv'
  <1>1. \A d \in Draws : slates[d] \in Slate
    BY DEF ProposalsInv, TypeOK
  <1>2. /\ slates' \in [Draws -> Slate]
        /\ \A d \in Draws : /\ slates'[d].exists = slates[d].exists
                            /\ slates'[d].promoted = slates[d].promoted
                            /\ slates'[d].fixtures = slates[d].fixtures
    <2>1. CASE ArchiveDueSlates
      BY <1>1, <2>1 DEF ArchiveDueSlates, Slate
    <2>2. CASE \E d \in Draws : ArchiveClosedSlates(d)
      BY <1>1, <2>2 DEF ArchiveClosedSlates, Slate
    <2>3. CASE \E d \in Draws : ObserveResult(d)
      <3>1. PICK d \in Draws : ObserveResult(d)
        BY <2>3
      <3> DEFINE t == [slates[d] EXCEPT !.observed = TRUE]
      <3>2. slates' = [slates EXCEPT ![d] = t]
        BY <3>1 DEF ObserveResult, ProposalsInv, TypeOK
      <3>3. /\ t \in Slate /\ t.exists = slates[d].exists
            /\ t.promoted = slates[d].promoted /\ t.fixtures = slates[d].fixtures
        BY <1>1 DEF Slate
      <3> HIDE DEF t
      <3> QED
        BY <3>2, <3>3 DEF ProposalsInv, TypeOK
    <2>4. CASE \E d \in Draws, c \in Cierres : OverrideDate(d, c)
      <3>1. PICK d \in Draws, c \in Cierres : OverrideDate(d, c)
        BY <2>4
      <3>2. c \in Nat
        BY SourcesAssumption DEF Cierres, NoDate
      <3> DEFINE s == slates[d]
                 archived == s.is_archived /\ c <= clock
                 kickoff == IF s.fabricated THEN c + Offset ELSE s.kickoff
                 t == [s EXCEPT !.closes = c, !.is_archived = archived, !.kickoff = kickoff]
      <3>3. slates' = [slates EXCEPT ![d] = t]
        BY <3>1 DEF OverrideDate
      <3>4. archived \in BOOLEAN /\ kickoff \in Nat
        <4>1. archived \in BOOLEAN
          OBVIOUS
        <4>2. s.kickoff \in Nat /\ c + Offset \in Nat
          BY <1>1, <3>2, SourcesAssumption DEF Slate
        <4> QED
          BY <4>1, <4>2
      <3>5. t \in Slate /\ t.exists = s.exists /\ t.promoted = s.promoted /\ t.fixtures = s.fixtures
        <4> HIDE DEF archived, kickoff
        <4> QED
          BY <1>1, <3>2, <3>4 DEF Slate, AnyDate
      <3> HIDE DEF t
      <3> QED
        BY <3>3, <3>5 DEF ProposalsInv, TypeOK
    <2> QED
      BY <2>1, <2>2, <2>3, <2>4
  <1> QED
    BY <1>2, WriteKeepsInv DEF ProposalsInv, PromotedSlateIsConfirmed

(* An unguarded upsert shows whatever it was given, and is no promotion. *)
LEMMA UpsertKeepsInv ==
  ASSUME ProposalsInv, NEW d \in Draws, NEW f \in Fixtures, NEW c \in Dates,
         NEW archived \in BOOLEAN, UpsertSlate(d, f, c, archived)
  PROVE  ProposalsInv'
  <1> DEFINE new == [is_archived |-> archived, closes |-> c, fixtures |-> f,
                     kickoff |-> RealKickoff[f], fabricated |-> FALSE, promoted |-> FALSE]
  <1>1. new \in Contents /\ ~new.promoted
    BY SourcesAssumption DEF Contents, AnyDate
  <1>2. PICK kept \in {slates[d].observed, FALSE} :
          slates' = [slates EXCEPT ![d] = Upserted(@, new, kept)]
    BY DEF UpsertSlate
  <1>3. slates[d] \in Slate /\ kept \in BOOLEAN
    BY <1>2 DEF ProposalsInv, TypeOK, Slate
  <1> DEFINE t == Upserted(slates[d], new, kept)
  <1>4. slates' = [slates EXCEPT ![d] = t]
    BY <1>2
  <1> HIDE DEF new
  <1>5. t \in Slate /\ t.exists /\ ~t.promoted
    BY <1>1, <1>3, UpsertedSlate
  <1>6. UNCHANGED <<clock, proposals, inflight, crashes, streak, confirmed>>
    BY DEF UpsertSlate
  <1> HIDE DEF t
  <1>7. /\ slates' \in [Draws -> Slate] /\ slates'[d] = t
        /\ \A e \in Draws : e # d => slates'[e] = slates[e]
    BY <1>4, <1>5 DEF ProposalsInv, TypeOK
  <1>8. \A e \in Draws : slates'[e].promoted => slates'[e].fixtures \in confirmed[e]
    BY <1>5, <1>7 DEF ProposalsInv, PromotedSlateIsConfirmed
  <1> QED
    BY <1>5, <1>6, <1>7, <1>8, WriteKeepsInv

------------------------------------------------------------------------------

(* Every step keeps the inductive invariant. *)
LEMMA NextKeepsInv ==
  ASSUME ProposalsInv, Next
  PROVE  ProposalsInv'
  <1>1. CASE \E d \in Draws, u \in Guides, f \in Fixtures, c \in Dates : Observe(d, u, f, c)
    BY <1>1, ObserveKeepsInv
  <1>2. CASE \E d \in Draws, u \in Captures, f \in Fixtures, c \in Dates : Capture(d, u, f, c)
    BY <1>2, CaptureKeepsInv
  <1>3. CASE \E a \in Actors : Promote(a)
    BY <1>3, PromoteKeepsInv
  <1>4. CASE \E a \in Actors : CutPromotion(a)
    <2>1. PICK a \in Actors : CutPromotion(a)
      BY <1>4
    <2>2. crashes' \in Nat
      BY <2>1 DEF CutPromotion, ProposalsInv, TypeOK
    <2> QED
      BY <2>1, <2>2, FlightKeepsInv DEF CutPromotion
  <1>5. CASE \/ ArchiveDueSlates
             \/ \E d \in Draws : ArchiveClosedSlates(d) \/ ObserveResult(d)
             \/ \E d \in Draws, c \in Cierres : OverrideDate(d, c)
    <2>1. UNCHANGED <<clock, proposals, inflight, crashes, streak, confirmed>>
      BY <1>5 DEF ArchiveDueSlates, ArchiveClosedSlates, ObserveResult, OverrideDate
    <2> QED
      BY <1>5, <2>1, SlateStepKeepsInv
  <1>6. CASE \E d \in Draws, f \in Fixtures, c \in Dates, archived \in BOOLEAN :
               UpsertSlate(d, f, c, archived)
    BY <1>6, UpsertKeepsInv
  <1>7. CASE Tick
    <2>1. clock' \in Nat /\ UNCHANGED <<proposals, slates, inflight, crashes, streak, confirmed>>
      BY <1>7 DEF Tick, ProposalsInv, TypeOK
    <2> QED
      BY <2>1 DEF ProposalsInv, TypeOK, CountsTheStreak, StreakConfirms, CaptureConfirms,
                  FlightIsConfirmed, ValidatedIsConfirmed, PromotedSlateIsConfirmed
  <1> QED
    BY <1>1, <1>2, <1>3, <1>4, <1>5, <1>6, <1>7 DEF Next

(* Slates are never deleted. *)
LEMMA SlatesStay ==
  ASSUME ProposalsInv, Next
  PROVE  \A d \in Draws : slates[d].exists => slates'[d].exists
  <1> SUFFICES ASSUME NEW e \in Draws, slates[e].exists PROVE slates'[e].exists
    OBVIOUS
  <1>1. slates \in [Draws -> Slate] /\ \A d \in Draws : slates[d] \in Slate
    BY DEF ProposalsInv, TypeOK
  <1>2. ASSUME UNCHANGED slates PROVE slates'[e].exists
    BY <1>2
  <1>3. ASSUME NEW d \in Draws, NEW new, NEW kept,
               slates' = [slates EXCEPT ![d] = Upserted(@, new, kept)]
        PROVE  slates'[e].exists
    <2>1. Upserted(slates[d], new, kept).exists
      BY DEF Upserted
    <2> QED
      BY <1>1, <1>3, <2>1
  <1>4. CASE \E d \in Draws, u \in Guides, f \in Fixtures, c \in Dates : Observe(d, u, f, c)
    BY <1>2, <1>4 DEF Observe
  <1>5. CASE \E d \in Draws, u \in Captures, f \in Fixtures, c \in Dates : Capture(d, u, f, c)
    BY <1>2, <1>5 DEF Capture
  <1>6. ASSUME NEW a \in Actors, Promote(a) \/ CutPromotion(a) PROVE slates'[e].exists
    <2>1. CASE WriteSlate(a)
      <3>1. inflight[a].draw \in Draws
        BY <2>1 DEF WriteSlate, ProposalsInv, TypeOK, Promotion
      <3> QED
        BY <1>3, <2>1, <3>1 DEF WriteSlate
    <2>2. CASE ~WriteSlate(a)
      <3>1. UNCHANGED slates
        BY <1>6, <2>2 DEF Promote, LinkToSlate, BeginPromotion, FinishPromotion, CutPromotion
      <3> QED
        BY <1>2, <3>1
    <2> QED
      BY <2>1, <2>2
  <1>7. CASE ArchiveDueSlates \/ \E d \in Draws : ArchiveClosedSlates(d)
    BY <1>1, <1>7 DEF ArchiveDueSlates, ArchiveClosedSlates, Slate
  <1>8. CASE \E d \in Draws, c \in Cierres : OverrideDate(d, c)
    BY <1>1, <1>8 DEF OverrideDate, Slate
  <1>9. CASE \E d \in Draws : ObserveResult(d)
    BY <1>1, <1>9 DEF ObserveResult, Slate
  <1>10. CASE \E d \in Draws, f \in Fixtures, c \in Dates, archived \in BOOLEAN :
                UpsertSlate(d, f, c, archived)
    BY <1>3, <1>10 DEF UpsertSlate
  <1>11. CASE Tick
    BY <1>2, <1>11 DEF Tick
  <1> QED
    BY <1>4, <1>5, <1>6, <1>7, <1>8, <1>9, <1>10, <1>11 DEF Next

(* The inductive invariant holds in every reachable state. *)
THEOREM ProposalsInvariant == Spec => []ProposalsInv
  <1>1. ProposalsInv /\ [Next]_vars => ProposalsInv'
    <2> SUFFICES ASSUME ProposalsInv, [Next]_vars PROVE ProposalsInv'
      OBVIOUS
    <2>1. CASE Next
      BY <2>1, NextKeepsInv
    <2>2. CASE UNCHANGED vars
      BY <2>2 DEF vars, ProposalsInv, TypeOK, CountsTheStreak, StreakConfirms, CaptureConfirms,
                  FlightIsConfirmed, ValidatedIsConfirmed, PromotedSlateIsConfirmed
    <2> QED
      BY <2>1, <2>2
  <1> QED
    BY InitProposalsInv, <1>1, PTL DEF Spec

(* Rows, slates and promotions in flight keep their type. *)
THEOREM ProposalsTyped == Spec => []TypeOK
  BY ProposalsInvariant, PTL DEF ProposalsInv

(* Dual validation of scraped guides. *)
THEOREM ValidatedIsConfirmedHolds == Spec => []ValidatedIsConfirmed
  BY ProposalsInvariant, PTL DEF ProposalsInv

(* A slate written by a promotion shows fixtures some source confirmed. *)
THEOREM PromotedSlateIsConfirmedHolds == Spec => []PromotedSlateIsConfirmed
  BY ProposalsInvariant, PTL DEF ProposalsInv

------------------------------------------------------------------------------
(***************************************************************************)
(* The midweek watcher composed with proposals and slates.  It touches no  *)
(* fixtures, so the invariant of the proposals holds under it as well;     *)
(* with the type of its own tables it bounds every close that the watcher  *)
(* invents.                                                                *)
(***************************************************************************)

WatchTablesOK ==
  /\ payload \in [Draws -> [Guides -> Payload]]
  /\ overrides \in [Draws -> AnyDate]
  /\ watch \in Watching \cup {NoWatch}

OverridesHaveSlates == \A d \in Draws : overrides[d] # NoDate => slates[d].exists

WatchInv == ProposalsInv /\ WatchTablesOK /\ OverridesHaveSlates /\ ProvisionalIsBounded

------------------------------------------------------------------------------

(* A watched contest and guide are ones the tables have. *)
LEMMA GuidesAreUrls == Guides \subseteq Urls
  BY DEF Urls

LEMMA InitWatchInv == WatchInit => WatchInv
  <1> SUFFICES ASSUME WatchInit PROVE WatchInv
    OBVIOUS
  <1>1. ProposalsInv
    BY InitProposalsInv DEF WatchInit
  <1>2. NoPayload \in Payload /\ ~NoPayload.provisional
    BY DEF NoPayload, Payload, AnyDate
  <1>3. WatchTablesOK /\ OverridesHaveSlates /\ ProvisionalIsBounded
    BY <1>2 DEF WatchInit, WatchTablesOK, OverridesHaveSlates, ProvisionalIsBounded, AnyDate
  <1> QED
    BY <1>1, <1>3 DEF WatchInv

(* What a sighting leaves in the payload is typed, and bounded if it was.  *)
LEMMA PayloadAfterBounded ==
  ASSUME WatchInv, NEW d \in Draws, NEW u \in Guides, NEW f \in Fixtures, NEW c \in Dates,
         NEW rejected \in BOOLEAN
  PROVE  LET p == PayloadAfter(d, u, f, c, rejected)
         IN p \in Payload /\ (p.provisional => p.closes <= p.firstSeen + Window)
  <1> DEFINE first == IF proposals[d][u].status = "absent" THEN clock ELSE payload[d][u].firstSeen
             fresh == [closes |-> c, provisional |-> FALSE, rejected |-> rejected,
                       firstSeen |-> first]
  <1>1. payload[d][u] \in Payload /\ clock \in Nat
    BY DEF WatchInv, WatchTablesOK, ProposalsInv, TypeOK
  <1>2. first \in Nat
    BY <1>1 DEF Payload
  <1>3. c \in AnyDate
    BY SourcesAssumption DEF AnyDate
  <1> HIDE DEF first
  <1>4. fresh \in Payload /\ ~fresh.provisional
    BY <1>2, <1>3 DEF Payload
  <1>5. payload[d][u].provisional => payload[d][u].closes <= payload[d][u].firstSeen + Window
    BY DEF WatchInv, ProvisionalIsBounded
  <1> HIDE DEF fresh
  <1>6. PayloadAfter(d, u, f, c, rejected) \in {payload[d][u], fresh}
    BY DEF PayloadAfter, fresh, first
  <1> QED
    BY <1>1, <1>4, <1>5, <1>6

(* The cierre a tick chooses, and the clamped one, are dates, and within   *)
(* the window when they are invented.                                      *)
LEMMA ChosenIsBounded ==
  ASSUME WatchInv, NEW d \in Draws, NEW u \in Guides, NEW now \in Nat,
         Chosen(d, u, now).closes > now
  PROVE  /\ Chosen(d, u, now).provisional \in BOOLEAN
         /\ Clamped(d, Chosen(d, u, now)) \in Nat
         /\ Chosen(d, u, now).provisional =>
              Clamped(d, Chosen(d, u, now)) <= payload[d][u].firstSeen + Window
  <1> DEFINE p == payload[d][u]
             choice == Chosen(d, u, now)
  <1>1. p \in Payload /\ overrides[d] \in AnyDate /\ slates[d].kickoff \in Nat
    BY DEF WatchInv, WatchTablesOK, ProposalsInv, TypeOK, Slate
  <1>2. p.provisional => p.closes <= p.firstSeen + Window
    BY DEF WatchInv, ProvisionalIsBounded
  <1>3. /\ p.closes \in AnyDate /\ p.firstSeen \in Nat /\ p.provisional \in BOOLEAN
        /\ p.firstSeen + Window \in Nat
    BY <1>1, WindowAssumption DEF Payload
  <1> HIDE DEF p
  <1>4. /\ ProvisionalClose(p, now) \in AnyDate
        /\ ProvisionalClose(p, now) <= p.firstSeen + Window
    BY <1>3 DEF ProvisionalClose, AnyDate, NoDate
  <1>5. Override(d, now) \in AnyDate
    BY <1>1 DEF Override, AnyDate
  <1>6. /\ choice.closes \in AnyDate /\ choice.provisional \in BOOLEAN
        /\ choice.provisional => choice.closes <= p.firstSeen + Window
    <2> HIDE DEF choice
    <2>1. \/ choice.closes = p.closes /\ choice.provisional = FALSE
          \/ choice.closes = Override(d, now) /\ choice.provisional = FALSE
          \/ choice.closes = p.closes /\ p.provisional /\ choice.provisional = TRUE
          \/ choice.closes = ProvisionalClose(p, now) /\ choice.provisional = TRUE
      BY <1>3 DEF choice, Chosen, p
    <2> QED
      BY <1>2, <1>3, <1>4, <1>5, <2>1
  <1>7. choice.closes \in Nat
    BY <1>6 DEF AnyDate, NoDate
  <1> HIDE DEF choice
  <1>8. Clamped(d, choice) \in Nat /\ Clamped(d, choice) <= choice.closes
    BY <1>1, <1>7 DEF Clamped, Lesser
  <1>9. choice.provisional => Clamped(d, choice) <= p.firstSeen + Window
    BY <1>3, <1>6, <1>7, <1>8
  <1> QED
    BY <1>6, <1>8, <1>9 DEF choice, p

------------------------------------------------------------------------------

LEMMA FetchKeepsInv ==
  ASSUME WatchInv, NEW d \in Draws, NEW u \in Guides, NEW f \in Fixtures, NEW c \in Dates,
         NEW rejected \in BOOLEAN, WatchFetch(d, u, f, c, rejected)
  PROVE  WatchInv'
  <1> DEFINE p == PayloadAfter(d, u, f, c, rejected)
  <1>1. ProposalsInv'
    BY ObserveKeepsInv DEF WatchFetch, WatchInv
  <1>2. p \in Payload /\ (p.provisional => p.closes <= p.firstSeen + Window)
    BY PayloadAfterBounded
  <1>3. payload' = [payload EXCEPT ![d][u] = p] /\ overrides' = overrides /\ slates' = slates
    BY DEF WatchFetch, Observe
  <1> HIDE DEF p
  <1>4. payload' \in [Draws -> [Guides -> Payload]]
    BY <1>2, <1>3 DEF WatchInv, WatchTablesOK
  <1>5. watch' \in Watching
    BY SourcesAssumption DEF WatchFetch, Watching, AnyDate, WatchInv, ProposalsInv, TypeOK
  <1>6. ProvisionalIsBounded'
    BY <1>2, <1>3 DEF WatchInv, WatchTablesOK, ProvisionalIsBounded
  <1>7. OverridesHaveSlates'
    BY <1>3 DEF WatchInv, OverridesHaveSlates
  <1> QED
    BY <1>1, <1>3, <1>4, <1>5, <1>6, <1>7 DEF WatchInv, WatchTablesOK

(* Dates and archival are no part of what the proposals promise. *)
LEMMA DatesKeepInv ==
  ASSUME ProposalsInv,
         slates' \in [Draws -> Slate],
         \A e \in Draws : /\ slates'[e].exists = slates[e].exists
                          /\ slates'[e].promoted = slates[e].promoted
                          /\ slates'[e].fixtures = slates[e].fixtures,
         proposals' \in [Draws -> [Urls -> Proposal]],
         \A e \in Draws, v \in Urls :
           /\ proposals'[e][v].status = proposals[e][v].status
           /\ proposals'[e][v].linked = proposals[e][v].linked
           /\ proposals'[e][v].fixtures = proposals[e][v].fixtures
           /\ proposals'[e][v].observations = proposals[e][v].observations,
         UNCHANGED <<clock, inflight, crashes, streak, confirmed>>
  PROVE  ProposalsInv'
  <1> USE DEF ProposalsInv
  <1>1. TypeOK'
    BY DEF TypeOK
  <1>2. Guides \subseteq Urls /\ Captures \subseteq Urls
    BY DEF Urls
  <1>3. CountsTheStreak' /\ StreakConfirms'
    BY DEF CountsTheStreak, StreakConfirms
  <1>4. CaptureConfirms' /\ ValidatedIsConfirmed'
    BY <1>2 DEF CaptureConfirms, ValidatedIsConfirmed
  <1>5. \A a \in Actors : inflight[a] # NoJob =>
          inflight[a].draw \in Draws /\ inflight[a].url \in Urls
    BY DEF TypeOK, Promotion
  <1>6. FlightIsConfirmed'
    BY <1>5 DEF FlightIsConfirmed
  <1>7. PromotedSlateIsConfirmed'
    BY DEF PromotedSlateIsConfirmed
  <1> QED
    BY <1>1, <1>3, <1>4, <1>6, <1>7

(* The slate whose cierre is written, and the row of its guide. *)
LEMMA CierreOfSlate ==
  ASSUME slates \in [Draws -> Slate], NEW d \in Draws, NEW at \in Nat,
         slates' \in {slates, [slates EXCEPT ![d].closes = at, ![d].is_archived = FALSE]}
  PROVE  /\ slates' \in [Draws -> Slate]
         /\ \A e \in Draws : /\ slates'[e].exists = slates[e].exists
                             /\ slates'[e].promoted = slates[e].promoted
                             /\ slates'[e].fixtures = slates[e].fixtures
  <1> DEFINE t == [slates[d] EXCEPT !.closes = at, !.is_archived = FALSE]
  <1>1. /\ t \in Slate /\ t.exists = slates[d].exists
        /\ t.promoted = slates[d].promoted /\ t.fixtures = slates[d].fixtures
    <2>1. slates[d] \in Slate
      OBVIOUS
    <2> QED
      BY <2>1 DEF Slate, AnyDate
  <1>2. slates' = slates \/ slates' = [slates EXCEPT ![d] = t]
    OBVIOUS
  <1> HIDE DEF t
  <1> QED
    BY <1>1, <1>2

LEMMA CierreOfRow ==
  ASSUME proposals \in [Draws -> [Urls -> Proposal]],
         NEW d \in Draws, NEW u \in Urls, NEW at \in Nat,
         proposals' \in {proposals, [proposals EXCEPT ![d][u].closes = at]}
  PROVE  /\ proposals' \in [Draws -> [Urls -> Proposal]]
         /\ \A e \in Draws, v \in Urls :
              /\ proposals'[e][v].status = proposals[e][v].status
              /\ proposals'[e][v].linked = proposals[e][v].linked
              /\ proposals'[e][v].fixtures = proposals[e][v].fixtures
              /\ proposals'[e][v].observations = proposals[e][v].observations
  <1> DEFINE r == [proposals[d][u] EXCEPT !.closes = at]
  <1>1. /\ r \in Proposal /\ r.status = proposals[d][u].status
        /\ r.linked = proposals[d][u].linked /\ r.fixtures = proposals[d][u].fixtures
        /\ r.observations = proposals[d][u].observations
    <2>1. proposals[d][u] \in Proposal
      OBVIOUS
    <2> QED
      BY <2>1 DEF Proposal, AnyDate
  <1>2. proposals' = proposals \/ proposals' = [proposals EXCEPT ![d][u] = r]
    OBVIOUS
  <1> HIDE DEF r
  <1>3. CASE proposals' = proposals
    BY <1>3
  <1>4. CASE proposals' = [proposals EXCEPT ![d][u] = r]
    <2>1. proposals' \in [Draws -> [Urls -> Proposal]]
      BY <1>1, <1>4
    <2>2. \A e \in Draws, v \in Urls :
            proposals'[e][v] = IF e = d /\ v = u THEN r ELSE proposals[e][v]
      BY <1>4
    <2> QED
      BY <1>1, <2>1, <2>2
  <1> QED
    BY <1>2, <1>3, <1>4

LEMMA ActivateKeepsInv ==
  ASSUME WatchInv, WatchActivate
  PROVE  WatchInv'
  <1> DEFINE d == watch.draw
             u == watch.url
             now == watch.now
             choice == Chosen(d, u, now)
             at == Clamped(d, choice)
             live == choice.closes > now
             reopen == live /\ slates[d].exists /\ ~StartedBy(slates[d], now)
             mark == choice.provisional /\ (reopen \/ (live /\ ~slates[d].exists))
             q == [payload[d][u] EXCEPT !.closes = at, !.provisional = TRUE]
  <1>1. d \in Draws /\ u \in Guides /\ now \in Nat
    BY DEF WatchActivate, WatchInv, WatchTablesOK, Watching
  <1>2. /\ slates' = IF reopen THEN [slates EXCEPT ![d].closes = at, ![d].is_archived = FALSE]
                     ELSE slates
        /\ proposals' = IF mark THEN [proposals EXCEPT ![d][u].closes = at] ELSE proposals
        /\ payload' = IF mark THEN [payload EXCEPT ![d][u].closes = at,
                                                   ![d][u].provisional = TRUE]
                      ELSE payload
        /\ watch' = NoWatch
        /\ UNCHANGED <<clock, inflight, crashes, streak, confirmed, overrides>>
    BY DEF WatchActivate
  <1>3. live => /\ at \in Nat
                /\ choice.provisional => at <= payload[d][u].firstSeen + Window
    BY <1>1, ChosenIsBounded
  <1> HIDE DEF d, u, now, choice, at
  <1>4. ProposalsInv' /\ \A e \in Draws : slates'[e].exists = slates[e].exists
    <2>1. CASE live
      <3>1. /\ slates' \in {slates, [slates EXCEPT ![d].closes = at, ![d].is_archived = FALSE]}
            /\ proposals' \in {proposals, [proposals EXCEPT ![d][u].closes = at]}
        BY <1>2
      <3>2. at \in Nat /\ u \in Urls
        BY <1>1, <1>3, <2>1, GuidesAreUrls
      <3>3. slates \in [Draws -> Slate] /\ proposals \in [Draws -> [Urls -> Proposal]]
        BY DEF WatchInv, ProposalsInv, TypeOK
      <3>4. /\ slates' \in [Draws -> Slate]
            /\ \A e \in Draws : /\ slates'[e].exists = slates[e].exists
                                /\ slates'[e].promoted = slates[e].promoted
                                /\ slates'[e].fixtures = slates[e].fixtures
        BY <1>1, <3>1, <3>2, <3>3, CierreOfSlate
      <3>5. /\ proposals' \in [Draws -> [Urls -> Proposal]]
            /\ \A e \in Draws, v \in Urls :
                 /\ proposals'[e][v].status = proposals[e][v].status
                 /\ proposals'[e][v].linked = proposals[e][v].linked
                 /\ proposals'[e][v].fixtures = proposals[e][v].fixtures
                 /\ proposals'[e][v].observations = proposals[e][v].observations
        BY <1>1, <3>1, <3>2, <3>3, CierreOfRow
      <3>6. UNCHANGED <<clock, inflight, crashes, streak, confirmed>>
        BY <1>2
      <3>7. ProposalsInv
        BY DEF WatchInv
      <3>8. ProposalsInv'
        BY <3>4, <3>5, <3>6, <3>7, DatesKeepInv
      <3> QED
        BY <3>4, <3>8
    <2>2. CASE ~live
      <3>1. UNCHANGED vars
        BY <1>2, <2>2 DEF vars
      <3> QED
        BY <3>1 DEF vars, WatchInv, ProposalsInv, TypeOK, CountsTheStreak, StreakConfirms,
                    CaptureConfirms, FlightIsConfirmed, ValidatedIsConfirmed,
                    PromotedSlateIsConfirmed
    <2> QED
      BY <2>1, <2>2
  <1>5. /\ payload' \in [Draws -> [Guides -> Payload]]
        /\ ProvisionalIsBounded'
    <2>1. payload[d][u] \in Payload
      BY <1>1 DEF WatchInv, WatchTablesOK
    <2>2. mark => /\ q \in Payload /\ q.closes = at /\ q.firstSeen = payload[d][u].firstSeen
                  /\ q.closes <= q.firstSeen + Window
      BY <1>3, <2>1 DEF Payload, AnyDate
    <2>3. payload' = IF mark THEN [payload EXCEPT ![d][u] = q] ELSE payload
      BY <1>1, <1>2 DEF WatchInv, WatchTablesOK
    <2> HIDE DEF q, mark
    <2> QED
      BY <1>1, <2>2, <2>3 DEF WatchInv, WatchTablesOK, ProvisionalIsBounded
  <1>6. OverridesHaveSlates'
    BY <1>2, <1>4 DEF WatchInv, OverridesHaveSlates
  <1> QED
    BY <1>2, <1>4, <1>5, <1>6 DEF WatchInv, WatchTablesOK

(* What the other processes do leaves the watcher's tables alone, and no   *)
(* slate disappears.                                                       *)
LEMMA ElsewhereKeepsInv ==
  ASSUME WatchInv, Next, UNCHANGED watchVars
  PROVE  WatchInv'
  <1>1. ProposalsInv'
    BY NextKeepsInv DEF WatchInv
  <1>2. \A d \in Draws : slates[d].exists => slates'[d].exists
    BY SlatesStay DEF WatchInv
  <1> QED
    BY <1>1, <1>2 DEF WatchInv, WatchTablesOK, OverridesHaveSlates, ProvisionalIsBounded, watchVars

LEMMA OverrideMsKeepsInv ==
  ASSUME WatchInv, NEW d \in Draws, NEW c \in Cierres, OverrideMsDate(d, c)
  PROVE  WatchInv'
  <1>1. Next
    BY DEF OverrideMsDate, Next
  <1>2. ProposalsInv' /\ \A e \in Draws : slates[e].exists => slates'[e].exists
    BY <1>1, NextKeepsInv, SlatesStay DEF WatchInv
  <1>3. slates[d].exists /\ overrides' = [overrides EXCEPT ![d] = c]
        /\ UNCHANGED <<payload, watch>>
    BY DEF OverrideMsDate, OverrideDate
  <1>4. c \in AnyDate
    BY SourcesAssumption DEF Cierres, AnyDate
  <1> QED
    BY <1>2, <1>3, <1>4 DEF WatchInv, WatchTablesOK, OverridesHaveSlates, ProvisionalIsBounded

------------------------------------------------------------------------------

(* The inductive invariant of the composition holds in every reachable state. *)
THEOREM WatchInvariant == WatchSpec => []WatchInv
  <1>1. WatchInv /\ [WatchNext]_allVars => WatchInv'
    <2> SUFFICES ASSUME WatchInv, [WatchNext]_allVars PROVE WatchInv'
      OBVIOUS
    <2>1. CASE \E d \in Draws, u \in Guides, f \in Fixtures, c \in Dates, rejected \in BOOLEAN :
                 WatchFetch(d, u, f, c, rejected)
      BY <2>1, FetchKeepsInv
    <2>2. CASE WatchActivate
      BY <2>2, ActivateKeepsInv
    <2>3. CASE WatchFail
      <3>1. crashes' \in Nat
        BY <2>3 DEF WatchFail, WatchInv, ProposalsInv, TypeOK
      <3>2. ProposalsInv'
        BY <2>3, <3>1 DEF WatchFail, WatchInv, ProposalsInv, TypeOK, CountsTheStreak,
                          StreakConfirms, CaptureConfirms, FlightIsConfirmed,
                          ValidatedIsConfirmed, PromotedSlateIsConfirmed
      <3> QED
        BY <2>3, <3>2 DEF WatchFail, WatchInv, WatchTablesOK, OverridesHaveSlates,
                          ProvisionalIsBounded
    <2>4. CASE \E d \in Draws, c \in Cierres : OverrideMsDate(d, c)
      BY <2>4, OverrideMsKeepsInv
    <2>5. CASE Elsewhere
      <3>1. Next /\ UNCHANGED watchVars
        BY <2>5 DEF Elsewhere, Next
      <3> QED
        BY <3>1, ElsewhereKeepsInv
    <2>6. CASE UNCHANGED allVars
      BY <2>6 DEF allVars, vars, watchVars, WatchInv, WatchTablesOK, OverridesHaveSlates,
                  ProvisionalIsBounded, ProposalsInv, TypeOK, CountsTheStreak, StreakConfirms,
                  CaptureConfirms, FlightIsConfirmed, ValidatedIsConfirmed,
                  PromotedSlateIsConfirmed
    <2> QED
      BY <2>1, <2>2, <2>3, <2>4, <2>5, <2>6 DEF WatchNext
  <1> QED
    BY InitWatchInv, <1>1, PTL DEF WatchSpec

(* The tables of the watcher, the proposals and the slates keep their type. *)
THEOREM WatchTyped == WatchSpec => []WatchTypeOK
  <1>1. WatchInv => WatchTypeOK
    BY DEF WatchInv, WatchTablesOK, OverridesHaveSlates, ProposalsInv, WatchTypeOK
  <1> QED
    BY <1>1, WatchInvariant, PTL

(* No invented close outlasts the window of the first sighting. *)
THEOREM ProvisionalIsBoundedHolds == WatchSpec => []ProvisionalIsBounded
  BY WatchInvariant, PTL DEF WatchInv

(* Under the watcher, too, only confirmed fixtures reach a slate by promotion. *)
THEOREM WatchedSlateIsConfirmed == WatchSpec => []PromotedSlateIsConfirmed
  BY WatchInvariant, PTL DEF WatchInv, ProposalsInv

------------------------------------------------------------------------------

(* A tick that stamps nothing accepted lets a running override choose, and *)
(* what an override chooses is not provisional, hence neither clamped.     *)
LEMMA OverrideIsChosen ==
  ASSUME WatchInv, NEW d \in Draws, NEW u \in Guides, NEW now \in Nat, overrides[d] > now
  PROVE  Chosen(d, u, now) =
           IF payload[d][u].closes # NoDate /\ ~payload[d][u].provisional
           THEN [closes |-> payload[d][u].closes, provisional |-> FALSE]
           ELSE [closes |-> overrides[d], provisional |-> FALSE]
  <1>1. overrides[d] # NoDate
    BY DEF NoDate
  <1>2. Override(d, now) = overrides[d]
    BY DEF Override
  <1> QED
    BY <1>1, <1>2 DEF Chosen

LEMMA ActivateFollowsOverride ==
  ASSUME WatchInv, WatchActivate, NEW d \in Draws,
         watch.draw = d, payload'[d][watch.url].provisional, overrides[d] > watch.now,
         slates'[d].closes # slates[d].closes
  PROVE  slates'[d].closes = overrides[d]
  <1> DEFINE u == watch.url
             now == watch.now
             p == payload[d][u]
             choice == Chosen(d, u, now)
             at == Clamped(d, choice)
             live == choice.closes > now
             reopen == live /\ slates[d].exists /\ ~StartedBy(slates[d], now)
  <1>1. u \in Guides /\ now \in Nat
    BY DEF WatchActivate, WatchInv, WatchTablesOK, Watching
  <1>2. choice = IF p.closes # NoDate /\ ~p.provisional THEN [closes |-> p.closes, provisional |-> FALSE]
                 ELSE [closes |-> overrides[d], provisional |-> FALSE]
    BY <1>1, OverrideIsChosen
  <1>3. ~choice.provisional /\ at = choice.closes
    BY <1>2 DEF Clamped
  <1>4. payload' = payload
    BY <1>3 DEF WatchActivate
  <1>5. choice.closes = overrides[d]
    BY <1>2, <1>4
  <1>6. slates' = IF reopen THEN [slates EXCEPT ![d].closes = at, ![d].is_archived = FALSE] ELSE slates
    BY DEF WatchActivate
  <1>7. slates[d] \in Slate /\ slates \in [Draws -> Slate]
    BY DEF WatchInv, ProposalsInv, TypeOK
  <1> HIDE DEF choice, at, reopen
  <1>8. slates' = [slates EXCEPT ![d].closes = at, ![d].is_archived = FALSE]
    BY <1>6
  <1>9. slates'[d].closes = at
    BY <1>7, <1>8 DEF Slate
  <1> QED
    BY <1>3, <1>5, <1>9

(* Once the window was stamped, a tick that moves the slate while an       *)
(* operator's override still runs moves it to that override: the stamp     *)
(* never outranks it.                                                      *)
THEOREM OverridesOutrankWindow == WatchSpec => OverrideOutranksWindow
  <1> DEFINE Yields ==
        \A d \in Draws :
          /\ watch # NoWatch /\ watch' = NoWatch
          /\ watch.draw = d /\ payload'[d][watch.url].provisional
          /\ overrides[d] > watch.now
          /\ slates'[d].closes # slates[d].closes
          => slates'[d].closes = overrides[d]
  <1>1. WatchInv /\ [WatchNext]_allVars => [Yields]_allVars
    <2> SUFFICES ASSUME WatchInv, WatchNext, NEW d \in Draws,
                        watch # NoWatch, watch' = NoWatch,
                        watch.draw = d, payload'[d][watch.url].provisional,
                        overrides[d] > watch.now,
                        slates'[d].closes # slates[d].closes
                 PROVE  slates'[d].closes = overrides[d]
      OBVIOUS
    <2>1. WatchActivate
      BY DEF WatchNext, WatchFetch, WatchFail, OverrideMsDate, Elsewhere, watchVars
    <2> QED
      BY <2>1, ActivateFollowsOverride
  <1> QED
    BY <1>1, WatchInvariant, PTL DEF WatchSpec, OverrideOutranksWindow
=============================================================================
