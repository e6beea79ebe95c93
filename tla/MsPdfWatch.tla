------------------------------ MODULE MsPdfWatch ------------------------------
(***************************************************************************)
(* The midweek watcher, composed with the proposals and slates it acts on. *)
(* A tick of the worker fetches the midweek guide, which is an observation *)
(* like any other and commits; then it chooses the cierre of the contest   *)
(* from the stored payload, an operator's override or a provisional window *)
(* and, in a second transaction, reopens the existing slate with it.       *)
(*                                                                         *)
(* The payload of a proposal outlives its sightings: a sighting with the   *)
(* same fixtures leaves it alone, a drift replaces it.  Change detection   *)
(* by hash only words the diagnostics and is left out, and so is the       *)
(* prediction that a reopened slate gets.                                  *)
(***************************************************************************)
EXTENDS SlateProposals

CONSTANTS
  Window,   \* ms_pdf_provisional_active_days
  NoWatch   \* no tick of the watcher in progress

ASSUME WindowAssumption == Window \in Nat \ {0}

VARIABLES
  payload,    \* the cierre in payload_json of a guide's proposal, and first_seen_at
  overrides,  \* the cierre of the operator_date_override row of each contest
  watch       \* the tick in progress, between its two transactions

watchVars == <<payload, overrides, watch>>
allVars == <<vars, watchVars>>

\* shown: the cierre of the document fetched; the activation does not read it.
Watching == [draw: Draws, url: Guides, now: Nat, shown: AnyDate]

\* rejected: the document has a cierre block that belongs to another contest.
Payload == [closes: AnyDate, provisional: BOOLEAN, rejected: BOOLEAN, firstSeen: Nat]
NoPayload == [closes |-> NoDate, provisional |-> FALSE, rejected |-> FALSE, firstSeen |-> 0]

------------------------------------------------------------------------------

\* Mutant of ProvisionalClose: the window runs from the tick and so never expires.
RollingClose(p, now) == IF p.rejected THEN now + Window ELSE NoDate

\* _provisional_ms_close: first_seen + N days, while that is in the future.
ProvisionalClose(p, now) ==
  IF p.rejected /\ p.firstSeen + Window > now THEN p.firstSeen + Window ELSE NoDate

\* _operator_close_override: only a close still in the future is honoured.
Override(d, now) == IF overrides[d] > now THEN overrides[d] ELSE NoDate

\* Mutant of Chosen: the override replaces a missing close, not a provisional one.
ChosenWithStampFirst(d, u, now) ==
  LET p == payload[d][u]
  IN IF p.closes # NoDate THEN [closes |-> p.closes, provisional |-> p.provisional]
     ELSE IF Override(d, now) # NoDate
     THEN [closes |-> Override(d, now), provisional |-> FALSE]
     ELSE [closes |-> ProvisionalClose(p, now), provisional |-> TRUE]

\* An accepted close, else an override, else the window, stamped before or now.
Chosen(d, u, now) ==
  LET p == payload[d][u]
  IN IF p.closes # NoDate /\ ~p.provisional THEN [closes |-> p.closes, provisional |-> FALSE]
     ELSE IF Override(d, now) # NoDate
     THEN [closes |-> Override(d, now), provisional |-> FALSE]
     ELSE IF p.closes # NoDate THEN [closes |-> p.closes, provisional |-> TRUE]
     ELSE [closes |-> ProvisionalClose(p, now), provisional |-> TRUE]

StartedBy(s, now) == s.observed \/ s.kickoff <= now

\* An invented close is clamped to the first kickoff of the slate it is for.
Clamped(d, choice) ==
  IF choice.provisional /\ slates[d].exists
  THEN Lesser(choice.closes, slates[d].kickoff) ELSE choice.closes

------------------------------------------------------------------------------

WatchInit ==
  /\ Init
  /\ payload = [d \in Draws |-> [u \in Guides |-> NoPayload]]
  /\ overrides = [d \in Draws |-> NoDate]
  /\ watch = NoWatch

\* What a sighting leaves in payload_json: nothing new unless the fixtures changed.
PayloadAfter(d, u, f, c, rejected) ==
  LET row == proposals[d][u]
      fresh == [closes |-> c, provisional |-> FALSE, rejected |-> rejected,
                firstSeen |-> IF row.status = "absent" THEN clock ELSE payload[d][u].firstSeen]
  IN IF row.status # "absent" /\ row.fixtures = f THEN payload[d][u] ELSE fresh

\* run_ms_pdf_watch up to observe_ms, whose transaction commits.
WatchFetch(d, u, f, c, rejected) ==
  /\ watch = NoWatch
  /\ inflight[Worker] = NoJob
  /\ Observe(d, u, f, c)
  /\ payload' = [payload EXCEPT ![d][u] = PayloadAfter(d, u, f, c, rejected)]
  /\ watch' = [draw |-> d, url |-> u, now |-> clock, shown |-> c]
  /\ UNCHANGED overrides

\* The rest of the tick, and the worker's commit.
WatchActivate ==
  /\ watch # NoWatch
  /\ LET d == watch.draw
         u == watch.url
         choice == Chosen(d, u, watch.now)
         at == Clamped(d, choice)
         live == choice.closes > watch.now
         reopen == live /\ slates[d].exists /\ ~StartedBy(slates[d], watch.now)
         mark == choice.provisional /\ (reopen \/ (live /\ ~slates[d].exists))
     IN /\ slates' = IF reopen
                     THEN [slates EXCEPT ![d].closes = at, ![d].is_archived = FALSE]
                     ELSE slates
        /\ proposals' = IF mark THEN [proposals EXCEPT ![d][u].closes = at] ELSE proposals
        /\ payload' = IF mark
                      THEN [payload EXCEPT ![d][u].closes = at, ![d][u].provisional = TRUE]
                      ELSE payload
  /\ watch' = NoWatch
  /\ UNCHANGED <<clock, inflight, crashes, streak, confirmed, overrides>>

\* The tick fails or dies after the fetch: the worker rolls the session back.
WatchFail ==
  /\ watch # NoWatch
  /\ crashes < MaxCrashes
  /\ crashes' = crashes + 1
  /\ watch' = NoWatch
  /\ UNCHANGED <<clock, proposals, slates, inflight, streak, confirmed, payload, overrides>>

\* Mutant of OverrideMsDate: the row is left for a contest nobody looked up.
OverrideUnknownSlate(d, c) ==
  /\ overrides' = [overrides EXCEPT ![d] = c]
  /\ UNCHANGED <<vars, payload, watch>>

\* The date override also leaves its row, one per contest.
OverrideMsDate(d, c) ==
  /\ OverrideDate(d, c)
  /\ overrides' = [overrides EXCEPT ![d] = c]
  /\ UNCHANGED <<payload, watch>>

\* The worker is one thread: it neither promotes nor archives within a tick.
WorkerIsFree(a) == a = Worker => watch = NoWatch

Elsewhere ==
  /\ \/ \E a \in Actors : WorkerIsFree(a) /\ (Promote(a) \/ CutPromotion(a))
     \/ watch = NoWatch /\ ArchiveDueSlates
     \/ \E d \in Draws, u \in Captures, f \in Fixtures, c \in Dates : Capture(d, u, f, c)
     \/ \E d \in Draws : ArchiveClosedSlates(d)
     \/ \E d \in Draws, f \in Fixtures, c \in Dates, archived \in BOOLEAN :
          UpsertSlate(d, f, c, archived)
     \/ \E d \in Draws : ObserveResult(d)
     \/ Tick
  /\ UNCHANGED watchVars

WatchNext ==
  \/ \E d \in Draws, u \in Guides, f \in Fixtures, c \in Dates, rejected \in BOOLEAN :
       WatchFetch(d, u, f, c, rejected)
  \/ WatchActivate
  \/ WatchFail
  \/ \E d \in Draws, c \in Cierres : OverrideMsDate(d, c)
  \/ Elsewhere

WatchSpec == WatchInit /\ [][WatchNext]_allVars

------------------------------------------------------------------------------

(***************************************************************************)
(* The watcher's tables keep their type, and only a contest that has a     *)
(* slate has an override.                                                  *)
(***************************************************************************)
WatchTypeOK ==
  /\ TypeOK
  /\ payload \in [Draws -> [Guides -> Payload]]
  /\ overrides \in [Draws -> AnyDate]
  /\ watch \in Watching \cup {NoWatch}
  /\ \A d \in Draws : overrides[d] # NoDate => slates[d].exists

(***************************************************************************)
(* "Bounded close for MS guides with current fixtures but stale cierre":   *)
(* however often the guide is fetched again, drifts, or a tick fails, the  *)
(* close the watcher invents ends with the window of the first sighting.   *)
(***************************************************************************)
ProvisionalIsBounded ==
  \A d \in Draws, u \in Guides :
    payload[d][u].provisional => payload[d][u].closes <= payload[d][u].firstSeen + Window

(***************************************************************************)
(* "An operator override outranks anything that is not an accepted PDF     *)
(* close": once the window was stamped into the payload, later ticks still *)
(* move the slate to a running override and never back to the stamp.       *)
(***************************************************************************)
OverrideOutranksWindow ==
  [][\A d \in Draws :
       /\ watch # NoWatch /\ watch' = NoWatch
       /\ watch.draw = d /\ payload'[d][watch.url].provisional
       /\ overrides[d] > watch.now
       /\ slates'[d].closes # slates[d].closes
       => slates'[d].closes = overrides[d]]_allVars
=============================================================================
