-------------------------- MODULE CurrentSlatesProofs --------------------------
(***************************************************************************)
(* Proofs about CurrentSlates, for every value of the constants: what the  *)
(* diagnostics call the latest contest, how the selector and the active    *)
(* slate fit together, and why no closed contest reopens without news.     *)
(***************************************************************************)
EXTENDS CurrentSlates, TLAPS

\* No step forgets a guide: sightings only add proposals or renew them.
LEMMA GuidesStay == [Next]_vars => DOMAIN guides \subseteq (DOMAIN guides)'
<1> SUFFICES ASSUME [Next]_vars PROVE DOMAIN guides \subseteq (DOMAIN guides)'
    OBVIOUS
<1>1. CASE UNCHANGED guides
      BY <1>1
<1>2. ASSUME NEW c \in Contests, ObserveGuide(c) PROVE DOMAIN guides \subseteq (DOMAIN guides)'
  <2>1. PICK v : guides' = Put(guides, c, v)
        BY <1>2 DEF ObserveGuide
  <2> QED BY <2>1 DEF Put
<1>7. ASSUME NEW c \in Contests, WatchActivate(c) PROVE DOMAIN guides \subseteq (DOMAIN guides)'
      BY <1>7 DEF WatchActivate
<1>3. CASE UNCHANGED vars
      BY <1>3, <1>1 DEF vars
<1>4. CASE Tick \/ Export \/ PostSlate \/ IngestContext \/ ArchiveDue \/ Backfill
      BY <1>4, <1>1 DEF Tick, Export, PostSlate, IngestContext, ArchiveDue, Backfill
<1>5. CASE Refresh \/ CutRefresh
      BY <1>5, <1>1 DEF Refresh, RefreshSlate, RefreshDocument, RefreshPredictions, RefreshArchive,
                        CutRefresh
<1>6. ASSUME NEW c \in Contests,
             Feed(c) \/ ObserveResult(c) \/ Promote(c) \/ OverrideDate(c) \/ SaveTicket(c)
      PROVE  DOMAIN guides \subseteq (DOMAIN guides)'
  <2>1. UNCHANGED guides
        BY <1>6 DEF Feed, ObserveResult, Promote, OverrideDate, SaveTicket
  <2> QED BY <2>1, SMTT(30)
<1> QED BY <1>2, <1>3, <1>4, <1>5, <1>6, <1>7 DEF Next

\* The contest number decides, and the numbers seen never shrink: a stale guide seen again
\* cannot make an earlier contest the latest one.
THEOREM DiscoveryMovesForward == Spec => DiscoveryNeverGoesBack
<1> DEFINE Forward == \A w \in Weeks : \A c \in LatestContest(w), d \in LatestContest(w)' :
                        c.number <= d.number
<1>1. [Next]_vars => Forward
  <2> SUFFICES ASSUME [Next]_vars, NEW w \in Weeks,
                      NEW c \in LatestContest(w), NEW d \in LatestContest(w)'
               PROVE  c.number <= d.number
      OBVIOUS
  <2>1. c \in DOMAIN guides /\ c.week = w
        BY DEF LatestContest
  <2>2. c \in (DOMAIN guides)'
        BY <2>1, GuidesStay
  <2>3. \A e \in (DOMAIN guides)' : e.week = w => e.number <= d.number
        BY DEF LatestContest
  <2> QED BY <2>1, <2>2, <2>3
<1>2. [][Next]_vars => [][Forward]_vars
      BY <1>1, PTL
<1> QED BY <1>2, PTL DEF Spec, DiscoveryNeverGoesBack

------------------------------------------------------------------------------

\* Whatever the six writers leave in the table, the selector and /slates/active agree on it:
\* the two orders of open slates are the same order as soon as the cierre is stated, and
\* the date gate hides a slate from one list only by showing it in the other.
THEOREM SelectorsAgree == Spec => []SelectorAgrees
<1>1. SelectorAgrees
  <2>1. ASSUME NEW c \in ActiveSlate, Official(c), c \notin HeldBack PROVE c \in Preselected
    <3>1. c \in OpenSlates /\ c \in DOMAIN slates /\ ~slates[c].is_archived
          BY DEF ActiveSlate, OpenSlates, Closed
    <3>2. DateStatus(c) = "date_valid"
          BY <2>1, <3>1 DEF HeldBack
    <3>3. c \in ShownOpen
          BY <2>1, <3>1, <3>2 DEF ShownOpen
    <3>4. \A d \in ShownOpen : d \in OpenSlates /\ slates[d].closes # NoDate
          BY DEF ShownOpen, DateStatus
    <3>5. ASSUME NEW d \in ShownOpen PROVE ClosesFirst(c, d)
      <4>1. Sooner(c, d) /\ slates[c].closes # NoDate /\ slates[d].closes # NoDate
            BY <3>3, <3>4 DEF ActiveSlate
      <4> QED BY <4>1 DEF ClosesFirst, Sooner
    <3> QED BY <3>3, <3>5 DEF Preselected
  <2>2. ASSUME NEW c \in OpenSlates, Official(c) PROVE c \in ShownOpen <=> c \notin HeldBack
        BY <2>2 DEF ShownOpen, HeldBack, OpenSlates, Closed
  <2>3. ASSUME NEW c \in ShownOpen \cup ShownRecent PROVE PredictionStatus(c) # "pending"
        BY DEF ShownOpen, OpenSlates, ShownRecent, Viewable, PredictionStatus
  <2>4. ASSUME NEW c \in Preselected PROVE c \in OpenSlates <=> ShownOpen # {}
        BY DEF Preselected, ShownOpen, ShownRecent, Viewable, OpenSlates
  <2> QED BY <2>1, <2>2, <2>3, <2>4 DEF SelectorAgrees
<1> QED BY <1>1, PTL

------------------------------------------------------------------------------
(* No closed contest reopens without news, when every cierre is stated.    *)

\* A slate with a cierre, whatever its other columns hold.
Dated(s) ==
  s \in [is_archived: BOOLEAN, withdrawn: BOOLEAN, closes: Nat, fixtures: {s.fixtures}, created: {s.created},
         hash: {s.hash}, promoted: {s.promoted}, predicted: {s.predicted}, ticket: {s.ticket}]

\* The archive flag never stands alone, unless a client withdrew the contest: a score or the
\* cierre closes the slate as well, so that taking the flag away is not enough to reopen it.
HasReason(s) == s.is_archived => Observed(s) \/ s.closes <= clock \/ s.withdrawn

Settled(t) == \A c \in DOMAIN t : Dated(t[c]) /\ HasReason(t[c])

SettledInv ==
  /\ clock \in Nat
  /\ Settled(slates)
  /\ \A c \in DOMAIN guides :
       guides[c] \in [closes: Nat, low: {guides[c].low}, seen: {guides[c].seen}]
  /\ \A c \in DOMAIN file : file[c].closes \in Nat
  /\ \A w \in DOMAIN catalog : \A item \in catalog[w] : item.closes \in Nat
  /\ \A p \in Posts : p.closes \in Nat

\* The table, the guides and current.json start with the cierre of each contest, and so does
\* every slate a client posts; no contest starts archived ahead of its cierre, unless a client
\* withdrew it.
DatedStart ==
  /\ \A c \in DOMAIN Slates0 :
       Dated(Slates0[c]) /\ (Slates0[c].is_archived => Slates0[c].closes <= 0 \/ Slates0[c].withdrawn)
  /\ \A c \in DOMAIN Guides0 :
       Guides0[c] \in [closes: Nat, low: {Guides0[c].low}, seen: {Guides0[c].seen}]
  /\ \A c \in DOMAIN File0 : File0[c].closes \in Nat
  /\ \A p \in Posts : p.closes \in Nat

LEMMA InitSettled == DatedStart /\ Init => SettledInv
BY DEF DatedStart, Init, SettledInv, Settled, HasReason

\* The tables after upsert_slate, of a payload that states the cierre.
LEMMA UpsertAsSettles ==
  ASSUME NEW db, Settled(db.slates), NEW c, NEW p, p.closes \in Nat, NEW archived \in BOOLEAN
  PROVE  LET t == UpsertedAs(db, c, p, archived).slates
         IN Settled(t) /\ DOMAIN t = DOMAIN db.slates \cup {c}
<1> DEFINE links == [d \in DOMAIN p.sheet |-> Linked(db.rows[d], p.sheet[d].kickoff)]
           old == IF c \in DOMAIN db.slates THEN db.slates[c] ELSE NewSlate(clock)
           ticket == IF old.hash \in {NoHash, Hash(p)} THEN old.ticket ELSE NoTicket
           new == [old EXCEPT !.is_archived = archived, !.withdrawn = archived,
                              !.closes = p.closes, !.fixtures = links,
                              !.hash = Hash(p), !.ticket = ticket]
<1>1. UpsertedAs(db, c, p, archived).slates = Put(db.slates, c, new)
      BY DEF UpsertedAs
<1>2. old \in [is_archived: BOOLEAN, withdrawn: BOOLEAN, closes: Int, fixtures: {old.fixtures},
               created: {old.created}, hash: {old.hash}, promoted: {old.promoted}, predicted: {old.predicted},
               ticket: {old.ticket}]
  <2>1. CASE c \in DOMAIN db.slates
        BY <2>1 DEF Settled, Dated
  <2>2. CASE c \notin DOMAIN db.slates
        BY <2>2 DEF NewSlate, NoDate
  <2> QED BY <2>1, <2>2
<1> HIDE DEF links, old, ticket
<1>3. Dated(new) /\ new.is_archived = archived /\ new.withdrawn = archived
      BY <1>2 DEF Dated
<1> HIDE DEF new
<1> QED BY <1>1, <1>3 DEF Put, Settled, HasReason

LEMMA UpsertSettles ==
  ASSUME NEW db, Settled(db.slates), NEW c, NEW p, p.closes \in Nat
  PROVE  LET t == Upserted(db, c, p).slates
         IN Settled(t) /\ DOMAIN t = DOMAIN db.slates \cup {c}
<1> DEFINE t == UpsertedAs(db, c, p, FALSE).slates
<1>1. Upserted(db, c, p).slates = t
      BY DEF Upserted
<1>2. Settled(t) /\ DOMAIN t = DOMAIN db.slates \cup {c}
      BY UpsertAsSettles, Zenon
<1> HIDE DEF t
<1> QED BY <1>1, <1>2

LEMMA DiscoverySettles ==
  ASSUME NEW db, Settled(db.slates), NEW w, NEW docs, NEW item, item.closes \in Nat
  PROVE  LET t == Discovered(db, w, docs, item).slates
         IN Settled(t) /\ DOMAIN db.slates \subseteq DOMAIN t
<1> DEFINE p == [closes |-> item.closes, canonical |-> TRUE, sheet |-> FixtureCandidates(w, docs)]
<1>1. p.closes \in Nat
      OBVIOUS
<1>2. Discovered(db, w, docs, item) = db \/ Discovered(db, w, docs, item) = Upserted(db, item.contest, p)
      BY DEF Discovered
<1> HIDE DEF p
<1> QED BY <1>1, <1>2, UpsertSettles

\* date_override moves a row with its results: a slate that had a score has it still.
LEMMA OverrideCarries ==
  ASSUME Settled(slates), NEW e \in Contests, OverrideDate(e), NEW c \in DOMAIN slates
  PROVE  /\ clock' = clock /\ DOMAIN slates' = DOMAIN slates
         /\ Observed(slates[c]) => Observed(slates[c])'
         /\ Dated(slates'[c])
         /\ c = e => (slates'[c].is_archived => slates'[c].closes <= clock)
         /\ c # e => /\ slates'[c].is_archived = slates[c].is_archived
                     /\ slates'[c].withdrawn = slates[c].withdrawn
                     /\ slates'[c].closes = slates[c].closes
<1> DEFINE s == slates[e]
           t == slates[c]
           carried(date) == [x \in DOMAIN t.fixtures |->
             IF x \in DOMAIN Rebased(s, date) /\ t.fixtures[x] = s.fixtures[x]
             THEN Rebased(s, date)[x] ELSE t.fixtures[x]]
           moved(date, r) == IF r[1] \in DOMAIN Rebased(s, date) /\ r[2] = s.fixtures[r[1]]
                             THEN <<r[1], Rebased(s, date)[r[1]]>> ELSE r
<1>1. PICK date \in Cierres :
        /\ slates'[c] = IF c = e THEN [t EXCEPT !.closes = date, !.fixtures = carried(date),
                                                !.is_archived = @ /\ date <= clock,
                                                !.withdrawn = @ /\ date <= clock]
                        ELSE [t EXCEPT !.fixtures = carried(date)]
        /\ results' = {moved(date, r) : r \in results}
        /\ clock' = clock /\ DOMAIN slates' = DOMAIN slates
      BY DEF OverrideDate
<1>2. Dated(t) /\ date \in Nat
      BY TimesAssumption DEF Settled
<1>3. slates'[c].fixtures = carried(date)
      BY <1>1, <1>2 DEF Dated
<1>4. ASSUME Observed(t) PROVE Observed(slates[c])'
  <2>1. PICK d \in DOMAIN t.fixtures : <<d, t.fixtures[d]>> \in results
        BY <1>4 DEF Observed
  <2>2. moved(date, <<d, t.fixtures[d]>>) = <<d, carried(date)[d]>>
        BY <2>1
  <2>3. moved(date, <<d, t.fixtures[d]>>) \in results'
        BY <1>1, <2>1
  <2> QED BY <1>3, <2>2, <2>3 DEF Observed
<1>5. CASE c = e
  <2>1. t.is_archived \in BOOLEAN /\ t.withdrawn \in BOOLEAN
        BY <1>2 DEF Dated
  <2>2. slates'[c] = [t EXCEPT !.closes = date, !.fixtures = carried(date),
                               !.is_archived = t.is_archived /\ date <= clock,
                               !.withdrawn = t.withdrawn /\ date <= clock]
        BY <1>1, <1>5
  <2>3. (t.is_archived /\ date <= clock) \in BOOLEAN /\ (t.withdrawn /\ date <= clock) \in BOOLEAN
        BY <2>1
  <2> HIDE DEF carried, moved, s
  <2>4. /\ Dated(slates'[c]) /\ slates'[c].closes = date
        /\ slates'[c].is_archived = (t.is_archived /\ date <= clock)
        BY <1>2, <2>2, <2>3, ZenonT(60) DEF Dated
  <2> QED BY <1>1, <1>4, <1>5, <2>4
<1>6. CASE c # e
  <2>1. slates'[c] = [t EXCEPT !.fixtures = carried(date)]
        BY <1>1, <1>6
  <2> HIDE DEF carried, moved, s
  <2>2. /\ Dated(slates'[c]) /\ slates'[c].closes = t.closes
        /\ slates'[c].is_archived = t.is_archived /\ slates'[c].withdrawn = t.withdrawn
        BY <1>2, <2>1 DEF Dated
  <2> QED BY <1>1, <1>4, <1>6, <2>2
<1> QED BY <1>5, <1>6

\* A slate that keeps its fixtures keeps its scores: rows move with their results, and
\* otherwise results are only added.
LEMMA ScoresStay ==
  ASSUME Next, Settled(slates), NEW c \in DOMAIN slates, Observed(slates[c]),
         slates'[c].fixtures = slates[c].fixtures
  PROVE  Observed(slates[c])'
<1>1. PICK d \in DOMAIN slates[c].fixtures : <<d, slates[c].fixtures[d]>> \in results
      BY DEF Observed
<1>2. ASSUME results \subseteq results' PROVE Observed(slates[c])'
      BY <1>1, <1>2 DEF Observed
<1>3. ASSUME NEW e \in Contests, OverrideDate(e) PROVE Observed(slates[c])'
      BY <1>3, OverrideCarries
<1>4. CASE \E e \in Contests : ObserveResult(e)
      BY <1>2, <1>4 DEF ObserveResult
<1>5. CASE Tick \/ Export \/ PostSlate \/ IngestContext \/ ArchiveDue \/ Backfill
      BY <1>2, <1>5 DEF Tick, Export, PostSlate, IngestContext, ArchiveDue, Backfill
<1>6. CASE Refresh \/ CutRefresh
      BY <1>2, <1>6, SMTT(30) DEF Refresh, RefreshSlate, RefreshDocument, RefreshPredictions, RefreshArchive,
                        CutRefresh
<1>7. ASSUME NEW e \in Contests,
             Feed(e) \/ ObserveGuide(e) \/ Promote(e) \/ WatchActivate(e) \/ SaveTicket(e)
      PROVE  Observed(slates[c])'
      BY <1>2, <1>7 DEF Feed, ObserveGuide, Promote, WatchActivate, SaveTicket
<1> QED BY <1>3, <1>4, <1>5, <1>6, <1>7 DEF Next

\* The clock of every step.
LEMMA ClockStep ==
  ASSUME clock \in Nat, Next
  PROVE  clock' \in Nat /\ clock' >= clock
<1>1. CASE Refresh \/ CutRefresh
      BY <1>1 DEF Refresh, RefreshSlate, RefreshDocument, RefreshPredictions, RefreshArchive, CutRefresh
<1>2. CASE Tick \/ Export \/ PostSlate \/ IngestContext \/ ArchiveDue \/ Backfill
      BY <1>2, SMTT(30) DEF Tick, Export, PostSlate, IngestContext, ArchiveDue, Backfill
<1>3. ASSUME NEW e \in Contests, \/ Feed(e) \/ ObserveResult(e) \/ ObserveGuide(e) \/ Promote(e)
                                 \/ OverrideDate(e) \/ WatchActivate(e) \/ SaveTicket(e)
      PROVE  clock' = clock
      BY <1>3 DEF Feed, ObserveResult, ObserveGuide, Promote, OverrideDate, WatchActivate, SaveTicket
<1> QED BY <1>1, <1>2, <1>3 DEF Next

\* The slates after a step that writes them and leaves the clock and the results alone.
LEMMA SettledAgain ==
  ASSUME NEW t, Settled(t), slates' = t, UNCHANGED <<clock, results>>
  PROVE  Settled(slates)'
BY DEF Settled, HasReason, Observed

\* A write that keeps the cierre and the fixtures, and archives only what is closed anyway.
LEMMA TouchSettles ==
  ASSUME NEW t, Settled(t), NEW u, DOMAIN u \subseteq DOMAIN t,
         \A d \in DOMAIN u :
           /\ Dated(u[d]) /\ u[d].fixtures = t[d].fixtures /\ u[d].closes = t[d].closes
           /\ u[d].withdrawn = t[d].withdrawn
           /\ u[d].is_archived => t[d].is_archived \/ Observed(t[d]) \/ t[d].closes <= clock
  PROVE  Settled(u)
BY DEF Settled, HasReason, Observed

\* What closes a dated slate.
LEMMA ClosedWhen ==
  ASSUME NEW s, Dated(s)
  PROVE  /\ Closed(s) <=> s.is_archived \/ Observed(s) \/ s.closes <= clock
         /\ Closed(s) \in BOOLEAN
<1>1. s.closes # NoDate /\ s.is_archived \in BOOLEAN
      BY DEF Dated, NoDate
<1> QED BY <1>1 DEF Closed

\* The catalogue after an ingestion: the cierres are those of the file, or stay.
LEMMA CatalogDated ==
  ASSUME SettledInv
  PROVE  \A w \in DOMAIN Catalogued : \A item \in Catalogued[w] : item.closes \in Nat
<1> SUFFICES ASSUME NEW w \in DOMAIN Catalogued, NEW item \in Catalogued[w] PROVE item.closes \in Nat
    OBVIOUS
<1> DEFINE items(x) == {CatalogItem(c) : c \in {e \in DOMAIN file : e.week = x}}
<1>1. Catalogued = [x \in {c.week : c \in DOMAIN file} \cup DOMAIN catalog |->
                     IF items(x) # {} THEN items(x) ELSE catalog[x]]
      BY DEF Catalogued
<1>2. ASSUME NEW it \in items(w) PROVE it.closes \in Nat
  <2>1. PICK c \in DOMAIN file : it = CatalogItem(c)
        OBVIOUS
  <2> QED BY <2>1 DEF CatalogItem, SettledInv
<1>3. CASE items(w) # {}
      BY <1>1, <1>2, <1>3
<1>4. CASE items(w) = {}
  <2>1. w \in DOMAIN catalog
    <3>1. \A c \in DOMAIN file : c.week # w
          BY <1>4
    <3> HIDE DEF items
    <3> QED BY <1>1, <3>1
  <2> HIDE DEF items
  <2>2. item \in catalog[w]
        BY <1>1, <1>4
  <2> QED BY <2>1, <2>2 DEF SettledInv
<1> QED BY <1>3, <1>4

LEMMA SettledStep ==
  ASSUME SettledInv, [Next]_vars
  PROVE  Settled(slates)'
<1>1. clock \in Nat /\ Settled(slates) /\ \A c \in DOMAIN slates : Dated(slates[c]) /\ HasReason(slates[c])
      BY DEF SettledInv, Settled
<1>2. ASSUME UNCHANGED slates, Next PROVE Settled(slates)'
  <2>1. \A c \in DOMAIN slates : slates[c].closes \in Nat
        BY <1>1 DEF Dated
  <2>2. \A c \in DOMAIN slates : Observed(slates[c]) => Observed(slates[c])'
        BY <1>1, <1>2, ScoresStay
  <2>3. clock' \in Nat /\ clock' >= clock
        BY <1>1, <1>2, ClockStep
  <2>4. \A c \in DOMAIN slates : Dated(slates[c])'
        BY <1>1, <1>2 DEF Dated
  <2> QED BY <1>1, <1>2, <2>1, <2>2, <2>3, <2>4 DEF Settled, HasReason
<1>3. CASE Tick \/ Export \/ RefreshDocument \/ CutRefresh
           \/ \E c \in Contests : Feed(c) \/ ObserveResult(c) \/ ObserveGuide(c)
  <2>1. UNCHANGED slates
        BY <1>3 DEF Tick, Export, RefreshDocument, CutRefresh, Feed, ObserveResult, ObserveGuide
  <2> QED BY <1>2, <1>3, <2>1 DEF Next, Refresh
<1>4. CASE UNCHANGED vars
  <2>1. slates' = slates /\ UNCHANGED <<clock, results>>
        BY <1>4 DEF vars
  <2> QED BY <1>1, <2>1, SettledAgain
<1>5. ASSUME NEW c \in Contests, Promote(c) PROVE Settled(slates)'
  <2> DEFINE real == {k \in Kickoffs : rows[c][k] = "unmarked" /\ k - guides[c].closes \in -Before..After}
             part == IF real = {} THEN [kickoff |-> guides[c].closes + Offset, told |-> "fabricated"]
                     ELSE [kickoff |-> CHOOSE k \in real : \A n \in real : k <= n, told |-> "reported"]
             p == [closes |-> guides[c].closes, sheet |-> [d \in {c} |-> part], canonical |-> FALSE]
             db == IF c \in DOMAIN slates /\ Started(slates[c]) THEN Database ELSE Upserted(Database, c, p)
             t == db.slates
  <2>1. /\ slates' = [t EXCEPT ![c].promoted = TRUE] /\ UNCHANGED <<clock, results>>
        /\ c \in DOMAIN guides
        BY <1>5 DEF Promote
  <2>2. p.closes \in Nat
        BY <2>1 DEF SettledInv
  <2> HIDE DEF p
  <2>3. Settled(t)
        BY <1>1, <2>2, UpsertSettles DEF Database
  <2> HIDE DEF t, db
  <2>4. \A d \in DOMAIN t : Dated(t[d])
        BY <2>3 DEF Settled
  <2> DEFINE u == [t EXCEPT ![c].promoted = TRUE]
  <2>5. DOMAIN u = DOMAIN t /\ \A d \in DOMAIN t : u[d] = t[d] \/ u[d] = [t[d] EXCEPT !.promoted = TRUE]
        OBVIOUS
  <2>6. \A d \in DOMAIN u : /\ Dated(u[d]) /\ u[d].fixtures = t[d].fixtures
                            /\ u[d].withdrawn = t[d].withdrawn
                            /\ u[d].closes = t[d].closes /\ u[d].is_archived = t[d].is_archived
        BY <2>4, <2>5, ZenonT(60) DEF Dated
  <2>7. slates' = u
        BY <2>1
  <2> HIDE DEF u
  <2>8. Settled(u)
        BY <2>3, <2>5, <2>6, TouchSettles
  <2> QED BY <2>1, <2>7, <2>8, SettledAgain
<1>6. ASSUME NEW e \in Contests, OverrideDate(e) PROVE Settled(slates)'
  <2> SUFFICES ASSUME NEW c \in DOMAIN slates' PROVE Dated(slates'[c]) /\ HasReason(slates[c])'
      BY DEF Settled, Dated
  <2>1. c \in DOMAIN slates /\ clock' = clock
        BY <1>1, <1>6, OverrideCarries DEF OverrideDate
  <2> QED BY <1>1, <1>6, <2>1, OverrideCarries DEF HasReason
<1>7. CASE RefreshSlate
  <2>1. PICK c \in Current : slates' = Upserted(Database, c, file[c]).slates
        BY <1>7 DEF RefreshSlate, Store
  <2>2. file[c].closes \in Nat
        BY DEF SettledInv, Current, Candidates
  <2>3. Settled(slates')
        BY <1>1, <2>1, <2>2, UpsertSettles DEF Database
  <2>4. UNCHANGED <<clock, results>>
        BY <1>7 DEF RefreshSlate
  <2> QED BY <2>3, <2>4 DEF Settled, HasReason, Observed, Dated
<1>8. ASSUME NEW u, slates' = u, UNCHANGED <<clock, results>>, DOMAIN u = DOMAIN slates,
             \A d \in DOMAIN slates :
               /\ Dated(u[d]) /\ u[d].fixtures = slates[d].fixtures /\ u[d].closes = slates[d].closes
               /\ u[d].withdrawn = slates[d].withdrawn
               /\ u[d].is_archived =>
                    slates[d].is_archived \/ Observed(slates[d]) \/ slates[d].closes <= clock
      PROVE  Settled(slates)'
  <2>1. Settled(u)
        BY <1>1, <1>8, TouchSettles
  <2> QED BY <1>8, <2>1, SettledAgain
<1>9. ASSUME UNCHANGED <<clock, results>>, DOMAIN slates' = DOMAIN slates,
             \A d \in DOMAIN slates :
               \/ slates'[d] = slates[d]
               \/ \E x : slates'[d] = [slates[d] EXCEPT !.predicted = x]
               \/ \E x : slates'[d] = [slates[d] EXCEPT !.hash = x]
               \/ \E x, y : slates'[d] = [slates[d] EXCEPT !.ticket = x, !.predicted = y]
               \/ \E x \in BOOLEAN :
                    /\ slates'[d] = [slates[d] EXCEPT !.is_archived = x]
                    /\ x => slates[d].is_archived \/ Observed(slates[d]) \/ slates[d].closes <= clock
      PROVE  Settled(slates)'
  <2>1. ASSUME NEW d \in DOMAIN slates
        PROVE  /\ Dated(slates'[d]) /\ slates'[d].fixtures = slates[d].fixtures
               /\ slates'[d].closes = slates[d].closes /\ slates'[d].withdrawn = slates[d].withdrawn
               /\ slates'[d].is_archived =>
                    slates[d].is_archived \/ Observed(slates[d]) \/ slates[d].closes <= clock
        BY <1>1, <1>9, <2>1, ZenonT(60) DEF Dated
  <2> QED BY <1>8, <1>9, <2>1
<1>10. CASE RefreshPredictions \/ \E c \in Contests : SaveTicket(c)
  <2>1. UNCHANGED <<clock, results>>
        BY <1>10 DEF RefreshPredictions, SaveTicket
  <2>2. CASE RefreshPredictions
        BY <1>9, <2>1, <2>2 DEF RefreshPredictions, Predict
  <2>3. ASSUME NEW c \in Contests, SaveTicket(c) PROVE Settled(slates)'
        BY <1>9, <2>1, <2>3 DEF SaveTicket
  <2> QED BY <1>10, <2>2, <2>3
<1>11. CASE Backfill
       BY <1>9, <1>11 DEF Backfill
<1>12. CASE RefreshArchive \/ ArchiveDue
  <2>1. UNCHANGED <<clock, results>> /\ DOMAIN slates' = DOMAIN slates
        BY <1>12 DEF RefreshArchive, ArchiveDue
  <2>2. ASSUME NEW d \in DOMAIN slates
        PROVE  \E x \in BOOLEAN :
                 /\ slates'[d] = [slates[d] EXCEPT !.is_archived = x]
                 /\ x => slates[d].is_archived \/ Observed(slates[d]) \/ slates[d].closes <= clock
    <3> DEFINE x == IF RefreshArchive
                    THEN slates[d].is_archived \/ (d # refresh.contest /\ Closed(slates[d]))
                    ELSE slates[d].is_archived \/ d \in Due
    <3>1. slates'[d] = [slates[d] EXCEPT !.is_archived = x]
          BY <1>12 DEF RefreshArchive, ArchiveDue
    <3>2. slates[d].is_archived \in BOOLEAN
          BY <1>1 DEF Dated
    <3>3. x \in BOOLEAN
          BY <3>2
    <3>4. x => slates[d].is_archived \/ Observed(slates[d]) \/ slates[d].closes <= clock
          BY <1>1, ClosedWhen DEF Due
    <3> QED BY <3>1, <3>3, <3>4
  <2> QED BY <1>9, <2>1, <2>2
<1>13. CASE IngestContext
  <2>1. PICK pick \in [DOMAIN catalog' -> UNION {catalog'[w] : w \in DOMAIN catalog'}] :
          LET Weekly(db, w) == IF w \in DOMAIN pick THEN Discovered(db, w, documents', pick[w]) ELSE db
          IN /\ \A w \in DOMAIN pick : pick[w] \in catalog'[w]
             /\ Store(Weekly(Weekly(Weekly(Database, "weekend"), "midweek"), "revancha"))
        BY <1>13 DEF IngestContext
  <2> DEFINE Weekly(db, w) == IF w \in DOMAIN pick THEN Discovered(db, w, documents', pick[w]) ELSE db
  <2>2. \A w \in DOMAIN pick : pick[w].closes \in Nat
    <3>1. catalog' = Catalogued /\ DOMAIN pick = DOMAIN catalog'
          BY <1>13 DEF IngestContext
    <3> QED BY <2>1, <3>1, CatalogDated
  <2>3. \A db, w : Settled(db.slates) => Settled(Weekly(db, w).slates)
        BY <2>2, DiscoverySettles
  <2>4. slates' = Weekly(Weekly(Weekly(Database, "weekend"), "midweek"), "revancha").slates
        BY <2>1 DEF Store
  <2> HIDE DEF Weekly
  <2>5. Settled(slates')
        BY <1>1, <2>3, <2>4 DEF Database
  <2>6. UNCHANGED <<clock, results>>
        BY <1>13 DEF IngestContext
  <2> QED BY <2>5, <2>6 DEF Settled, HasReason, Observed, Dated
<1>14. CASE PostSlate
  <2>1. PICK p \in Posts, archived \in BOOLEAN :
          /\ slates' = UpsertedAs(Database, p.contest, p, archived).slates
          /\ UNCHANGED <<clock, results>>
        BY <1>14 DEF PostSlate, Store
  <2>2. p.closes \in Nat
        BY DEF SettledInv
  <2>3. Settled(slates')
        BY <1>1, <2>1, <2>2, UpsertAsSettles DEF Database
  <2> QED BY <2>1, <2>3, SettledAgain
<1>15. ASSUME NEW c \in Contests, WatchActivate(c) PROVE Settled(slates)'
  <2>1. PICK close \in Kickoffs :
          /\ slates' = [slates EXCEPT ![c].closes = close, ![c].is_archived = FALSE, ![c].withdrawn = FALSE]
          /\ UNCHANGED <<clock, results>>
        BY <1>15 DEF WatchActivate
  <2>2. close \in Nat
        BY DEF Kickoffs
  <2> DEFINE opened(s) == [s EXCEPT !.closes = close, !.is_archived = FALSE, !.withdrawn = FALSE]
  <2>3. \A s : Dated(s) => Dated(opened(s)) /\ opened(s).is_archived = FALSE
        BY <2>2 DEF Dated
  <2>4. /\ DOMAIN slates' = DOMAIN slates
        /\ \A d \in DOMAIN slates : slates'[d] \in {slates[d], opened(slates[d])}
        BY <2>1
  <2> HIDE DEF opened
  <2>5. Settled(slates')
        BY <1>1, <2>3, <2>4 DEF Settled, HasReason
  <2> QED BY <2>1, <2>5, SettledAgain
<1> QED BY <1>3, <1>4, <1>5, <1>6, <1>7, <1>10, <1>11, <1>12, <1>13, <1>14, <1>15 DEF Next, Refresh

\* The rest of the invariant: guides, current.json and the catalogue keep their cierres.
LEMMA SettledInvStep ==
  ASSUME SettledInv, [Next]_vars
  PROVE  SettledInv'
<1>1. Settled(slates)'
      BY SettledStep
<1>2. CASE UNCHANGED vars
      BY <1>1, <1>2 DEF vars, SettledInv
<1>3. CASE Next
  <2>1. clock' \in Nat
        BY <1>3, ClockStep DEF SettledInv
  <2>2. \A c \in DOMAIN guides' :
          guides'[c] \in [closes: Nat, low: {guides'[c].low}, seen: {guides'[c].seen}]
    <3>1. CASE UNCHANGED guides
          BY <3>1 DEF SettledInv
    <3>2. ASSUME NEW c \in Contests, ObserveGuide(c)
          PROVE  \A d \in DOMAIN guides' :
                   guides'[d] \in [closes: Nat, low: {guides'[d].low}, seen: {guides'[d].seen}]
      <4>1. PICK date \in Cierres, low \in BOOLEAN :
              guides' = Put(guides, c,
                IF c \in DOMAIN guides THEN [guides[c] EXCEPT !.closes = date, !.seen = clock]
                ELSE [closes |-> date, low |-> low, seen |-> clock])
            BY <3>2 DEF ObserveGuide
      <4> DEFINE g == IF c \in DOMAIN guides THEN [guides[c] EXCEPT !.closes = date, !.seen = clock]
                      ELSE [closes |-> date, low |-> low, seen |-> clock]
      <4>2. date \in Nat
            BY TimesAssumption
      <4>3. g \in [closes: Nat, low: {g.low}, seen: {g.seen}]
            BY <4>2 DEF SettledInv
      <4>4. guides' = Put(guides, c, g)
            BY <4>1
      <4> HIDE DEF g
      <4> QED BY <4>3, <4>4 DEF Put, SettledInv
    <3>4. ASSUME NEW c \in Contests, WatchActivate(c)
          PROVE  \A d \in DOMAIN guides' :
                   guides'[d] \in [closes: Nat, low: {guides'[d].low}, seen: {guides'[d].seen}]
      <4>1. PICK close \in Kickoffs :
              guides' = guides \/ guides' = [guides EXCEPT ![c].closes = close, ![c].low = FALSE]
            BY <3>4 DEF WatchActivate
      <4> DEFINE stamped(g) == [g EXCEPT !.closes = close, !.low = FALSE]
      <4>2. close \in Nat
            BY DEF Kickoffs
      <4>3. \A g : g \in [closes: Nat, low: {g.low}, seen: {g.seen}] =>
                   stamped(g) \in [closes: Nat, low: {stamped(g).low}, seen: {stamped(g).seen}]
            BY <4>2
      <4>4. DOMAIN guides' = DOMAIN guides
            /\ \A d \in DOMAIN guides : guides'[d] \in {guides[d], stamped(guides[d])}
            BY <4>1
      <4> HIDE DEF stamped
      <4> QED BY <4>3, <4>4 DEF SettledInv
    <3>3. (\E c \in Contests : ObserveGuide(c) \/ WatchActivate(c)) \/ UNCHANGED guides
      <4>1. CASE Refresh \/ CutRefresh
            BY <4>1 DEF Refresh, RefreshSlate, RefreshDocument, RefreshPredictions, RefreshArchive,
                        CutRefresh
      <4>2. CASE Tick \/ Export \/ PostSlate \/ IngestContext \/ ArchiveDue \/ Backfill
            BY <4>2, ZenonT(60) DEF Tick, Export, PostSlate, IngestContext, ArchiveDue, Backfill
      <4>3. ASSUME NEW c \in Contests,
                   Feed(c) \/ ObserveResult(c) \/ Promote(c) \/ OverrideDate(c) \/ SaveTicket(c)
            PROVE  UNCHANGED guides
            BY <4>3 DEF Feed, ObserveResult, Promote, OverrideDate, SaveTicket
      <4> QED BY <1>3, <4>1, <4>2, <4>3 DEF Next
    <3> QED BY <3>1, <3>2, <3>3, <3>4
  <2>3. \A c \in DOMAIN file' : file'[c].closes \in Nat
    <3>1. CASE Export
      <4>1. \A c \in DOMAIN slates : slates[c].closes \in Nat
            BY DEF SettledInv, Settled, Dated
      <4> QED BY <3>1, <4>1 DEF Export, Item
    <3>2. Export \/ UNCHANGED file
      <4>1. CASE Refresh \/ CutRefresh
            BY <4>1 DEF Refresh, RefreshSlate, RefreshDocument, RefreshPredictions, RefreshArchive,
                        CutRefresh
      <4>2. CASE Tick \/ PostSlate \/ IngestContext \/ ArchiveDue \/ Backfill
            BY <4>2, SMTT(30) DEF Tick, PostSlate, IngestContext, ArchiveDue, Backfill
      <4>3. ASSUME NEW c \in Contests, \/ Feed(c) \/ ObserveResult(c) \/ ObserveGuide(c) \/ Promote(c)
                                       \/ OverrideDate(c) \/ WatchActivate(c) \/ SaveTicket(c)
            PROVE  UNCHANGED file
            BY <4>3 DEF Feed, ObserveResult, ObserveGuide, Promote, OverrideDate, WatchActivate,
                        SaveTicket
      <4> QED BY <1>3, <4>1, <4>2, <4>3 DEF Next
    <3> QED BY <3>1, <3>2 DEF SettledInv
  <2>4. \A w \in DOMAIN catalog' : \A item \in catalog'[w] : item.closes \in Nat
    <3>1. catalog' = Catalogued \/ catalog' = catalog
      <4>1. CASE Refresh \/ CutRefresh
            BY <4>1 DEF Refresh, RefreshSlate, RefreshDocument, RefreshPredictions, RefreshArchive,
                        CutRefresh
      <4>2. CASE Tick \/ Export \/ PostSlate \/ IngestContext \/ ArchiveDue \/ Backfill
            BY <4>2, SMTT(30) DEF Tick, Export, PostSlate, IngestContext, ArchiveDue, Backfill
      <4>3. ASSUME NEW c \in Contests, \/ Feed(c) \/ ObserveResult(c) \/ ObserveGuide(c) \/ Promote(c)
                                       \/ OverrideDate(c) \/ WatchActivate(c) \/ SaveTicket(c)
            PROVE  UNCHANGED catalog
            BY <4>3 DEF Feed, ObserveResult, ObserveGuide, Promote, OverrideDate, WatchActivate,
                        SaveTicket
      <4> QED BY <1>3, <4>1, <4>2, <4>3 DEF Next
    <3> QED BY <3>1, CatalogDated DEF SettledInv
  <2> QED BY <1>1, <2>1, <2>2, <2>3, <2>4 DEF SettledInv
<1> QED BY <1>2, <1>3

\* No step forgets a slate.
LEMMA SlatesStay ==
  ASSUME SettledInv, Next
  PROVE  DOMAIN slates \subseteq DOMAIN slates'
<1>1. CASE UNCHANGED slates
      BY <1>1
<1>2. Settled(Database.slates) /\ Database.slates = slates
      BY DEF SettledInv, Database
<1>3. ASSUME NEW c \in Contests, Promote(c) PROVE DOMAIN slates \subseteq DOMAIN slates'
  <2>1. PICK p, db :
          /\ db = Database \/ db = Upserted(Database, c, p)
          /\ DOMAIN slates' = DOMAIN db.slates
        BY <1>3 DEF Promote
  <2>2. DOMAIN Upserted(Database, c, p).slates = DOMAIN slates \cup {c}
        BY <1>2 DEF Upserted, UpsertedAs, Put
  <2> QED BY <1>2, <2>1, <2>2
<1>4. CASE RefreshSlate
  <2>1. PICK c : slates' = Upserted(Database, c, file[c]).slates
        BY <1>4 DEF RefreshSlate, Store
  <2> QED BY <1>2, <2>1 DEF Upserted, UpsertedAs, Put
<1>5. CASE IngestContext
  <2>1. PICK pick \in [DOMAIN catalog' -> UNION {catalog'[w] : w \in DOMAIN catalog'}] :
          LET Weekly(db, w) == IF w \in DOMAIN pick THEN Discovered(db, w, documents', pick[w]) ELSE db
          IN Store(Weekly(Weekly(Weekly(Database, "weekend"), "midweek"), "revancha"))
        BY <1>5 DEF IngestContext
  <2> DEFINE Weekly(db, w) == IF w \in DOMAIN pick THEN Discovered(db, w, documents', pick[w]) ELSE db
  <2>2. \A db, w : DOMAIN db.slates \subseteq DOMAIN Weekly(db, w).slates
        BY DEF Discovered, Upserted, UpsertedAs, Put
  <2>3. slates' = Weekly(Weekly(Weekly(Database, "weekend"), "midweek"), "revancha").slates
        BY <2>1 DEF Store
  <2> HIDE DEF Weekly
  <2> QED BY <1>2, <2>2, <2>3
<1>6. CASE Tick \/ Export \/ RefreshDocument \/ CutRefresh \/ RefreshPredictions \/ RefreshArchive
           \/ ArchiveDue \/ Backfill
      BY <1>6 DEF Tick, Export, RefreshDocument, CutRefresh, RefreshPredictions, Predict,
                  RefreshArchive, ArchiveDue, Backfill
<1>7. ASSUME NEW c \in Contests, \/ Feed(c) \/ ObserveResult(c) \/ ObserveGuide(c)
                                 \/ OverrideDate(c) \/ WatchActivate(c) \/ SaveTicket(c)
      PROVE  DOMAIN slates \subseteq DOMAIN slates'
      BY <1>7 DEF Feed, ObserveResult, ObserveGuide, OverrideDate, WatchActivate, SaveTicket
<1>8. CASE PostSlate
  <2>1. PICK p, archived : slates' = UpsertedAs(Database, p.contest, p, archived).slates
        BY <1>8 DEF PostSlate, Store
  <2> QED BY <1>2, <2>1 DEF UpsertedAs, Put
<1> QED BY <1>3, <1>4, <1>5, <1>6, <1>7, <1>8 DEF Next, Refresh

\* A contest closed to the player reopens only with a new cierre or other fixtures, whichever
\* of the six writers reopens it: its archive flag, which a refresh and the watcher take away,
\* never closed it alone, unless a client withdrew the contest.
THEOREM NoReopeningWithoutNews == DatedStart => (Spec => ReopensOnlyOnNews)
<1> DEFINE Reopening == \A c \in DOMAIN slates :
             Closed(slates[c]) /\ ~Closed(slates[c])' =>
               \/ slates'[c].closes # slates[c].closes \/ slates'[c].fixtures # slates[c].fixtures
               \/ slates[c].withdrawn
<1>1. SettledInv /\ Next => Reopening
  <2> SUFFICES ASSUME SettledInv, Next, NEW c \in DOMAIN slates, Closed(slates[c]),
                      ~slates[c].withdrawn, slates'[c].closes = slates[c].closes,
                      slates'[c].fixtures = slates[c].fixtures
               PROVE  Closed(slates[c])'
      OBVIOUS
  <2>1. Dated(slates[c]) /\ HasReason(slates[c]) /\ Settled(slates) /\ clock \in Nat
        BY DEF SettledInv, Settled
  <2>2. Observed(slates[c]) \/ slates[c].closes <= clock
        BY <2>1, ClosedWhen DEF HasReason
  <2>3. Observed(slates[c]) => Observed(slates[c])'
        BY <2>1, ScoresStay
  <2>4. slates[c].closes \in Nat /\ slates[c].closes # NoDate
        BY <2>1 DEF Dated, NoDate
  <2>5. clock' \in Nat /\ clock' >= clock
        BY <2>1, ClockStep
  <2>6. CASE Observed(slates[c])
        BY <2>3, <2>6 DEF Closed
  <2>7. CASE slates[c].closes <= clock
    <3>1. slates'[c].closes <= clock' /\ slates'[c].closes # NoDate
          BY <2>1, <2>4, <2>5, <2>7
    <3> QED BY <3>1 DEF Closed
  <2> QED BY <2>2, <2>6, <2>7
<1>2. SettledInv /\ [Next]_vars => [Reopening]_vars
      BY <1>1
<1>3. SettledInv /\ [Next]_vars => SettledInv'
      BY SettledInvStep
<1> SUFFICES ASSUME DatedStart PROVE Spec => ReopensOnlyOnNews
    OBVIOUS
<1>4. Init => SettledInv
      BY InitSettled
<1> QED BY <1>2, <1>3, <1>4, PTL DEF Spec, ReopensOnlyOnNews
==============================================================================
