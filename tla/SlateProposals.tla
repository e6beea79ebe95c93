---------------------------- MODULE SlateProposals ----------------------------
(***************************************************************************)
(* From an official Progol guide to a playable slate.  Each sighting of a  *)
(* guide (or an operator's capture) is recorded on a proposal row, one per *)
(* contest and source URL; a confirmed proposal is promoted to the slate   *)
(* of its contest by the worker, near the cierre, or by an operator; the   *)
(* worker archives slates whose cierre passed.                             *)
(*                                                                         *)
(* The contests are of one week_type: auto-promotion treats week types in  *)
(* isolation.  The worker and the API are separate processes on one        *)
(* database, and promote_proposal commits twice: the slate, then the       *)
(* proposal.  A contest's fixture list is one value, and so is the earliest *)
(* kickoff of its matches.                                                 *)
(***************************************************************************)
EXTENDS Integers, FiniteSets

CONSTANTS
  Draws,        \* the contests (draw_code)
  Guides,       \* source URLs the worker scrapes
  Captures,     \* source URLs an operator cites in a capture
  Fixtures,     \* the fixture lists a source may show
  Dates,        \* the registration_closes_at a source may show, NoDate among them
  RealKickoff,  \* earliest kickoff of each fixture list, where a feed has it
  Offset,       \* fabricated kickoffs start this long after the cierre
  Threshold,    \* progol_auto_promote_threshold_hours
  Actors,       \* the processes that promote
  Worker,       \* the one that promotes by itself
  NoJob,        \* an actor that promotes nothing
  MaxTime,      \* bound of the clock
  MaxVersion,   \* slate_version saturates here
  MaxCrashes    \* bound of the promotions cut short

Urls == Guides \cup Captures
NoDate == -1              \* no cierre could be read
Cierres == Dates \ {NoDate}
RequiredObservations == 2

ASSUME SourcesAssumption ==
  /\ Fixtures # {}
  /\ Guides \cap Captures = {}
  /\ RealKickoff \in [Fixtures -> Nat]
  /\ Dates \subseteq Nat \cup {NoDate}
  /\ Offset \in Nat /\ Threshold \in Nat
ASSUME ActorsAssumption == Worker \in Actors
ASSUME LimitsAssumption == MaxTime \in Nat /\ MaxVersion \in Nat /\ MaxCrashes \in Nat

VARIABLES
  clock,      \* the wall clock
  proposals,  \* progol_slate_proposals, by contest and URL
  slates,     \* progol_slates, by draw_code
  inflight,   \* the promotion each actor has decided and not finished
  crashes,    \* promotions cut short so far
  streak,     \* history: identical sightings in a row of the stored payload
  confirmed   \* history: fixture lists that were once confirmed, by contest

vars == <<clock, proposals, slates, inflight, crashes, streak, confirmed>>

AnyDate == Nat \cup {NoDate}
Statuses == {"absent", "observed", "validated", "promoted"}
Proposal == [status: Statuses, observations: 0..RequiredObservations,
             fixtures: Fixtures, closes: AnyDate, linked: BOOLEAN]
SomeFixtures == CHOOSE f \in Fixtures : TRUE
NoProposal == [status |-> "absent", observations |-> 0, fixtures |-> SomeFixtures,
               closes |-> NoDate, linked |-> FALSE]

\* hashed is the kickoff the composition_hash was computed with.
Slate == [exists: BOOLEAN, is_archived: BOOLEAN, closes: AnyDate, fixtures: Fixtures,
          kickoff: Nat, hashed: Nat, fabricated: BOOLEAN, version: Nat,
          observed: BOOLEAN, promoted: BOOLEAN]
NoSlate == [exists |-> FALSE, is_archived |-> FALSE, closes |-> NoDate,
            fixtures |-> SomeFixtures, kickoff |-> 0, hashed |-> 0, fabricated |-> FALSE,
            version |-> 0, observed |-> FALSE, promoted |-> FALSE]

Lesser(a, b) == IF a < b THEN a ELSE b
Passed(date) == date # NoDate /\ date <= clock

------------------------------------------------------------------------------

\* Mutant of Observed: a drift replaces the fixtures and forgets to start over.
ObservedWithoutReset(row, f, c) ==
  IF row.status = "absent"
  THEN [status |-> "observed", observations |-> 1, fixtures |-> f, closes |-> c, linked |-> FALSE]
  ELSE LET seen == Lesser(row.observations + 1, RequiredObservations)
       IN [row EXCEPT !.fixtures = f, !.observations = seen,
                      !.status = IF @ = "observed" /\ seen >= RequiredObservations
                                 THEN "validated" ELSE @]

\* _record_observation: what a sighting of fixtures f and cierre c makes of a row.
Observed(row, f, c) ==
  CASE row.status = "absent" ->
         [status |-> "observed", observations |-> 1, fixtures |-> f, closes |-> c,
          linked |-> FALSE]
    [] row.status # "absent" /\ row.fixtures = f ->
         LET seen == Lesser(row.observations + 1, RequiredObservations)
         IN [row EXCEPT !.observations = seen,
                        !.status = IF @ = "observed" /\ seen >= RequiredObservations
                                   THEN "validated" ELSE @,
                        !.closes = IF c = NoDate THEN @ ELSE c]
    [] OTHER ->
         [row EXCEPT !.fixtures = f, !.closes = c, !.observations = 1, !.status = "observed"]

\* promote_proposal's guard: a kickoff has passed, or a result was observed.
Started(s) == s.observed \/ s.kickoff <= clock

\* SlateService.is_closed
Closed(s) == \/ s.is_archived
             \/ s.observed
             \/ IF s.closes # NoDate THEN s.closes <= clock ELSE s.kickoff <= clock

\* get_active_slate_by_week_type: the open slate whose cierre comes first.
Open == {d \in Draws : slates[d].exists /\ ~Closed(slates[d])}
Precedes(s, t) == \/ s.closes # NoDate /\ (t.closes = NoDate \/ s.closes <= t.closes)
                  \/ s.closes = NoDate /\ t.closes = NoDate /\ s.kickoff <= t.kickoff
Active == {d \in Open : \A e \in Open : Precedes(slates[d], slates[e])}

\* Mutant of PromotionWindow: an empty week type counts as not about to close.
WindowNeedsActive ==
  \E d \in Active : slates[d].closes # NoDate /\ slates[d].closes - clock <= Threshold

\* The worker promotes when no slate is active or the active one is about to close.
PromotionWindow ==
  \/ Open = {}
  \/ \E d \in Active : slates[d].closes # NoDate /\ slates[d].closes - clock <= Threshold

\* The proposals the existing slate may be compared with: a query LIMIT 1, unordered.
Promoters(d) == {u \in Urls : proposals[d][u].status = "promoted" /\ proposals[d][u].linked}

\* upsert_slate: the row after a payload whose results still bind to `kept`.
Upserted(s, new, kept) ==
  LET same == s.fixtures = new.fixtures /\ s.hashed = new.kickoff
  IN [exists |-> TRUE, is_archived |-> new.is_archived, closes |-> new.closes,
      fixtures |-> new.fixtures, kickoff |-> new.kickoff, hashed |-> new.kickoff,
      fabricated |-> new.fabricated,
      version |-> IF ~s.exists THEN 1 ELSE IF same THEN s.version
                  ELSE Lesser(s.version + 1, MaxVersion),
      observed |-> kept \/ (s.observed /\ same /\ s.kickoff = new.kickoff),
      promoted |-> new.promoted]

------------------------------------------------------------------------------

Init ==
  /\ clock = 0
  /\ proposals = [d \in Draws |-> [u \in Urls |-> NoProposal]]
  /\ slates = [d \in Draws |-> NoSlate]
  /\ inflight = [a \in Actors |-> NoJob]
  /\ crashes = 0
  /\ streak = [d \in Draws |-> [u \in Urls |-> 0]]
  /\ confirmed = [d \in Draws |-> {}]

Sighting(d, u, f, c) ==
  LET run == IF proposals[d][u].status # "absent" /\ proposals[d][u].fixtures = f
             THEN Lesser(streak[d][u] + 1, RequiredObservations) ELSE 1
  IN streak' = [streak EXCEPT ![d][u] = run]

\* observe and observe_ms: one fetch of a guide that parsed completely.
Observe(d, u, f, c) ==
  /\ u \in Guides
  /\ proposals' = [proposals EXCEPT ![d][u] = Observed(@, f, c)]
  /\ Sighting(d, u, f, c)
  /\ confirmed' = [confirmed EXCEPT ![d] =
                     IF streak'[d][u] >= RequiredObservations THEN @ \cup {f} ELSE @]
  /\ UNCHANGED <<clock, slates, inflight, crashes>>

\* record_operator_capture: an observation that is validated at once, whatever the row was.
Capture(d, u, f, c) ==
  /\ u \in Captures
  /\ proposals' = [proposals EXCEPT ![d][u] =
                     [Observed(@, f, c) EXCEPT !.status = "validated"]]
  /\ Sighting(d, u, f, c)
  /\ confirmed' = [confirmed EXCEPT ![d] = @ \cup {f}]
  /\ UNCHANGED <<clock, slates, inflight, crashes>>

\* What the worker and the operator may promote.
Promotable(a, d, u) ==
  /\ inflight[a] = NoJob
  /\ proposals[d][u].status = "validated"
  /\ a = Worker => ~proposals[d][u].linked /\ PromotionWindow

Linked(row) == [row EXCEPT !.status = "promoted", !.linked = TRUE]

\* The slate has started, or a promoter of the slate showed the same fixtures.
LinkToSlate(a, d, u) ==
  /\ Promotable(a, d, u)
  /\ slates[d].exists
  /\ \/ Started(slates[d])
     \/ /\ ~slates[d].is_archived
        /\ \E v \in Promoters(d) : proposals[d][v].fixtures = proposals[d][u].fixtures
  /\ proposals' = [proposals EXCEPT ![d][u] = Linked(@)]
  /\ UNCHANGED <<clock, slates, inflight, crashes, streak, confirmed>>

\* Otherwise the slate is to be written; resolved says whether a feed has the fixtures.
BeginPromotion(a, d, u, resolved) ==
  /\ Promotable(a, d, u)
  /\ slates[d].exists =>
       /\ ~Started(slates[d])
       /\ \/ slates[d].is_archived
          \/ Promoters(d) = {}
          \/ \E v \in Promoters(d) : proposals[d][v].fixtures # proposals[d][u].fixtures
  /\ LET row == proposals[d][u]
         cierre == IF row.closes = NoDate THEN clock ELSE row.closes
     IN inflight' = [inflight EXCEPT ![a] =
          [draw |-> d, url |-> u, stage |-> "decided",
           new |-> [is_archived |-> FALSE, closes |-> row.closes, fixtures |-> row.fixtures,
                    kickoff |-> IF resolved THEN RealKickoff[row.fixtures] ELSE cierre + Offset,
                    fabricated |-> ~resolved, promoted |-> TRUE]]]
  /\ UNCHANGED <<clock, proposals, slates, crashes, streak, confirmed>>

\* Mutant of WriteSlate: the payload is read again after the decision.
WriteLatestPayload(a) ==
  /\ inflight[a] # NoJob
  /\ inflight[a].stage = "decided"
  /\ LET d == inflight[a].draw
         latest == [inflight[a].new EXCEPT !.fixtures = proposals[d][inflight[a].url].fixtures]
     IN slates' = [slates EXCEPT ![d] = Upserted(@, latest, FALSE)]
  /\ inflight' = [inflight EXCEPT ![a].stage = "written"]
  /\ UNCHANGED <<clock, proposals, crashes, streak, confirmed>>

\* slate_service.create_slate, a transaction of its own.
WriteSlate(a) ==
  /\ inflight[a] # NoJob
  /\ inflight[a].stage = "decided"
  /\ LET d == inflight[a].draw
     IN \E kept \in {slates[d].observed, FALSE} :
          slates' = [slates EXCEPT ![d] = Upserted(@, inflight[a].new, kept)]
  /\ inflight' = [inflight EXCEPT ![a].stage = "written"]
  /\ UNCHANGED <<clock, proposals, crashes, streak, confirmed>>

\* Mutant of FinishPromotion: the proposal is marked before the slate is written.
MarkProposalFirst(a) ==
  /\ inflight[a] # NoJob
  /\ inflight[a].stage = "decided"
  /\ proposals' = [proposals EXCEPT ![inflight[a].draw][inflight[a].url] = Linked(@)]
  /\ inflight' = [inflight EXCEPT ![a] = NoJob]
  /\ UNCHANGED <<clock, slates, crashes, streak, confirmed>>

\* The proposal is marked by the second commit, whatever it has become meanwhile.
FinishPromotion(a) ==
  /\ inflight[a] # NoJob
  /\ inflight[a].stage = "written"
  /\ proposals' = [proposals EXCEPT ![inflight[a].draw][inflight[a].url] = Linked(@)]
  /\ inflight' = [inflight EXCEPT ![a] = NoJob]
  /\ UNCHANGED <<clock, slates, crashes, streak, confirmed>>

\* The process dies or its transaction fails, before or between the two commits.
CutPromotion(a) ==
  /\ inflight[a] # NoJob
  /\ crashes < MaxCrashes
  /\ crashes' = crashes + 1
  /\ inflight' = [inflight EXCEPT ![a] = NoJob]
  /\ UNCHANGED <<clock, proposals, slates, streak, confirmed>>

\* archive_due_slates
Due == {d \in Draws : slates[d].exists /\ ~slates[d].is_archived /\ Passed(slates[d].closes)}

ArchiveDueSlates ==
  /\ Due # {}
  /\ slates' = [d \in Draws |-> [slates[d] EXCEPT !.is_archived = @ \/ d \in Due]]
  /\ UNCHANGED <<clock, proposals, inflight, crashes, streak, confirmed>>

\* The refresh of contest d, a transaction after its upsert, archives the others that closed.
ArchiveClosedSlates(d) ==
  /\ slates[d].exists
  /\ slates' = [e \in Draws |->
       [slates[e] EXCEPT !.is_archived =
          @ \/ (e # d /\ slates[e].exists /\ Closed(slates[e]))]]
  /\ UNCHANGED <<clock, proposals, inflight, crashes, streak, confirmed>>

\* POST /slates/{id}/date-override: a fabricated kickoff moves with the cierre.
OverrideDate(d, c) ==
  /\ slates[d].exists
  /\ LET s == slates[d]
     IN slates' = [slates EXCEPT ![d] =
          [s EXCEPT !.closes = c,
                    !.is_archived = s.is_archived /\ c <= clock,
                    !.kickoff = IF s.fabricated THEN c + Offset ELSE s.kickoff]]
  /\ UNCHANGED <<clock, proposals, inflight, crashes, streak, confirmed>>

\* POST /slates, /slates/discover and the scheduled refresh of the current contest.
UpsertSlate(d, f, c, archived) ==
  /\ \E kept \in {slates[d].observed, FALSE} :
       slates' = [slates EXCEPT ![d] =
         Upserted(@, [is_archived |-> archived, closes |-> c, fixtures |-> f,
                      kickoff |-> RealKickoff[f], fabricated |-> FALSE,
                      promoted |-> FALSE], kept)]
  /\ UNCHANGED <<clock, proposals, inflight, crashes, streak, confirmed>>

\* A live or final result of one of the slate's matches is recorded.
ObserveResult(d) ==
  /\ slates[d].exists
  /\ slates' = [slates EXCEPT ![d].observed = TRUE]
  /\ UNCHANGED <<clock, proposals, inflight, crashes, streak, confirmed>>

Tick ==
  /\ clock < MaxTime
  /\ clock' = clock + 1
  /\ UNCHANGED <<proposals, slates, inflight, crashes, streak, confirmed>>

Promote(a) ==
  \/ \E d \in Draws, u \in Urls : LinkToSlate(a, d, u)
  \/ \E d \in Draws, u \in Urls, resolved \in BOOLEAN : BeginPromotion(a, d, u, resolved)
  \/ WriteSlate(a)
  \/ FinishPromotion(a)

Next ==
  \/ \E d \in Draws, u \in Guides, f \in Fixtures, c \in Dates : Observe(d, u, f, c)
  \/ \E d \in Draws, u \in Captures, f \in Fixtures, c \in Dates : Capture(d, u, f, c)
  \/ \E a \in Actors : Promote(a) \/ CutPromotion(a)
  \/ ArchiveDueSlates
  \/ \E d \in Draws : ArchiveClosedSlates(d)
  \/ \E d \in Draws, c \in Cierres : OverrideDate(d, c)
  \/ \E d \in Draws, f \in Fixtures, c \in Dates, archived \in BOOLEAN :
       UpsertSlate(d, f, c, archived)
  \/ \E d \in Draws : ObserveResult(d)
  \/ Tick

Spec == Init /\ [][Next]_vars
------------------------------------------------------------------------------

Promotion == [draw: Draws, url: Urls, stage: {"decided", "written"},
              new: [is_archived: BOOLEAN, closes: AnyDate, fixtures: Fixtures, kickoff: Nat,
                    fabricated: BOOLEAN, promoted: BOOLEAN]]

(***************************************************************************)
(* Every row, slate and promotion in flight keeps its type; a promotion    *)
(* that has written its slate finds it in the table, and so does every     *)
(* linked proposal: slates are never deleted.                              *)
(***************************************************************************)
TypeOK ==
  /\ clock \in Nat
  /\ proposals \in [Draws -> [Urls -> Proposal]]
  /\ slates \in [Draws -> Slate]
  /\ inflight \in [Actors -> Promotion \cup {NoJob}]
  /\ crashes \in Nat
  /\ streak \in [Draws -> [Urls -> 0..RequiredObservations]]
  /\ confirmed \in [Draws -> SUBSET Fixtures]
  /\ \A d \in Draws, u \in Urls : proposals[d][u].linked => slates[d].exists

(***************************************************************************)
(* Dual validation: a scraped proposal is promotable only while the        *)
(* fixtures it stores were shown by the last two sightings of its URL,     *)
(* whatever captures, promotions and drifts happened before.               *)
(***************************************************************************)
ValidatedIsConfirmed ==
  \A d \in Draws, u \in Guides :
    proposals[d][u].status = "validated" => streak[d][u] >= RequiredObservations

(***************************************************************************)
(* A parsing flip never reaches a slate: a slate last written by a         *)
(* promotion shows fixtures that some source confirmed for this contest,   *)
(* even if the proposal drifts while its promotion is in flight, or the    *)
(* promotion is cut and repeated.                                          *)
(***************************************************************************)
PromotedSlateIsConfirmed ==
  \A d \in Draws : slates[d].promoted => slates[d].fixtures \in confirmed[d]

(***************************************************************************)
(* Auto-promotion: a validated proposal that was never promoted does not   *)
(* wait for ever; the slate that occupies its week type closes in time and *)
(* the worker promotes it, unless the source changes its fixtures first.   *)
(* The worker loops and time passes; nothing else is assumed.              *)
(***************************************************************************)
Waits(d, u) == proposals[d][u].status = "validated" /\ ~proposals[d][u].linked

FairSpec == Spec /\ WF_vars(Promote(Worker)) /\ WF_vars(Tick)

EveryProposalLands == \A d \in Draws, u \in Urls : Waits(d, u) ~> ~Waits(d, u)
=============================================================================
