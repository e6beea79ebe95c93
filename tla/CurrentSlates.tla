---------------------------- MODULE CurrentSlates ----------------------------
(***************************************************************************)
(* Which contest is current.  Six writers say what a slate is: the         *)
(* promotion of a guide, an operator's correction of a cierre, the tick of *)
(* the midweek watcher, a client's POST /slates, the refresh from          *)
(* current.json, and the discovery that follows an ingestion of that file. *)
(* The selector, /slates/active and the diagnostics read it.               *)
(*                                                                         *)
(* The fixtures of one contest are one programme: they share a kickoff, in *)
(* the model the first one, and the last follows Span later.  A slate may  *)
(* carry the fixtures of several programmes, which discovery can mix.      *)
(***************************************************************************)
EXTENDS Integers, FiniteSets

CONSTANTS
  Contests,     \* [week, number]: one slate, one guide and one programme each
  RealKickoff,  \* when a programme starts, as a feed would tell
  Cierres,      \* the registration_closes_at that guides and operators state
  Slates0,      \* the slates, match rows, guides and current.json to start from
  Rows0,
  Guides0,
  File0,
  Posts,        \* the slates that clients may post: [contest, closes, sheet, canonical]
  Span,         \* from the first to the last kickoff of a programme
  Offset,       \* FALLBACK_BASE_OFFSET
  Near,         \* _NEAR_IDENTITY_TOLERANCE
  Before,       \* the resolver's window around the cierre
  After,
  Recent,       \* discovery looks this far back
  LimitRecent,  \* limit_recent
  StaleCreated, \* STALE_BEFORE_CREATED_TOLERANCE
  StaleObserved, \* STALE_OBSERVED_AFTER_CLOSE
  MaxTime,      \* bound of the clock
  MaxNews,      \* bound of what feeds, guides, operators and clients do
  MaxCuts       \* bound of the refreshes cut short

Weeks == {"weekend", "midweek", "revancha"}
Priority == [weekend |-> 0, midweek |-> 1, revancha |-> 2]
NoDate == -1
Kickoffs == 0..(MaxTime + Offset + Span)

ASSUME ContestsAssumption == Contests \subseteq [week: Weeks, number: Nat]
ASSUME TimesAssumption ==
  /\ RealKickoff \in [Contests -> Kickoffs]
  /\ Cierres \subseteq 0..MaxTime
  /\ \A p \in Posts : p.contest \in Contests /\ DOMAIN p.sheet \in (SUBSET Contests) \ {{}}
  /\ {Span, Offset, Near, Before, After, Recent, LimitRecent, StaleCreated, StaleObserved} \subseteq Nat
  /\ {MaxTime, MaxNews, MaxCuts} \subseteq Nat

VARIABLES
  clock,
  slates,     \* progol_slates, by contest
  rows,       \* the match rows of a programme: the mark of the one at each kickoff
  results,    \* the rows with a live result, <<programme, kickoff>>
  guides,     \* the guide proposals, by contest
  file,       \* current.json: the catalogue item of each contest in it
  documents,  \* the items ever ingested: the kickoffs told of each programme
  catalog,    \* the items of the latest ingestion that had some, by week type
  refresh,    \* how far refresh_current has come, and with which slate
  news, cuts

vars == <<clock, slates, rows, results, guides, file, documents, catalog, refresh, news, cuts>>

Put(f, x, v) == [y \in DOMAIN f \cup {x} |-> IF y = x THEN v ELSE f[y]]
Marks == {"none", "marked", "unmarked"}

\* A payload: what it says of each programme's kickoff and of its mark, and whether the
\* names are those of the database or those a guide prints.
Told == {"fabricated", "reported", "silent"}
Item(closes, sheet) == [closes |-> closes, sheet |-> sheet, canonical |-> TRUE]
Times(sheet) == {sheet[d].kickoff : d \in DOMAIN sheet}

------------------------------------------------------------------------------

\* upsert_slate: find_match_by_identity, else find_match_near_identity, else a new row.
Linked(r, k) ==
  LET near == {n \in Kickoffs : r[n] = "unmarked" /\ n - k \in -Near..Near}
      Distance(n) == IF n < k THEN k - n ELSE n - k
  IN IF r[k] # "none" \/ near = {} THEN k
     ELSE CHOOSE n \in near : \A m \in near : Distance(n) <= Distance(m)

MarkAfter(mark, told) ==
  CASE mark = "none" -> IF told = "fabricated" THEN "marked" ELSE "unmarked"
    [] told = "reported" -> "unmarked"
    [] OTHER -> mark

\* _compute_composition_hash: of the names and kickoffs the payload has, before resolution.
Hash(p) == [kickoffs |-> [d \in DOMAIN p.sheet |-> p.sheet[d].kickoff], canonical |-> p.canonical]

NoHash == [kickoffs |-> <<>>, canonical |-> FALSE]

\* predicted and ticket: the compositions that predictions and the valid ticket were made of.
\* withdrawn: for the properties, that a client's POST alone archived the slate.
NoTicket == [kickoffs |-> <<>>, canonical |-> TRUE]
NewSlate(now) == [is_archived |-> FALSE, withdrawn |-> FALSE, closes |-> NoDate,
                  fixtures |-> <<>>, created |-> now, hash |-> NoHash, promoted |-> FALSE,
                  predicted |-> {}, ticket |-> NoTicket]

\* The database after upsert_slate with payload p for contest c, archived if it says so.
UpsertedAs(db, c, p, archived) ==
  LET known == c \in DOMAIN db.slates
      old == IF known THEN db.slates[c] ELSE NewSlate(clock)
      links == [d \in DOMAIN p.sheet |-> Linked(db.rows[d], p.sheet[d].kickoff)]
  IN [slates |-> Put(db.slates, c,
        [old EXCEPT !.is_archived = archived, !.withdrawn = archived, !.closes = p.closes,
                    !.fixtures = links, !.hash = Hash(p),
                    !.ticket = IF old.hash \in {NoHash, Hash(p)} THEN @ ELSE NoTicket]),
      rows |-> [d \in Contests |->
        IF d \in DOMAIN links
        THEN [db.rows[d] EXCEPT ![links[d]] = MarkAfter(@, p.sheet[d].told)]
        ELSE db.rows[d]]]

\* The payloads of the program leave is_archived at its default.
Upserted(db, c, p) == UpsertedAs(db, c, p, FALSE)

Database == [slates |-> slates, rows |-> rows]
Store(db) == slates' = db.slates /\ rows' = db.rows

\* _has_observed_result, is_closed
Observed(s) == \E d \in DOMAIN s.fixtures : <<d, s.fixtures[d]>> \in results
FirstKickoff(s) ==
  CHOOSE t \in {s.fixtures[d] : d \in DOMAIN s.fixtures} : \A d \in DOMAIN s.fixtures : t <= s.fixtures[d]
Closed(s) == \/ s.is_archived
             \/ Observed(s)
             \/ IF s.closes # NoDate THEN s.closes <= clock ELSE FirstKickoff(s) <= clock

Init ==
  /\ clock = 0
  /\ slates = Slates0 /\ rows = Rows0 /\ file = File0
  /\ results = {}
  /\ guides = Guides0
  /\ documents = [d \in Contests |-> {}]
  /\ catalog = <<>>
  /\ refresh = [stage |-> "idle", contest |-> <<>>]
  /\ news = 0 /\ cuts = 0

Happens == news < MaxNews /\ news' = news + 1

Tick == /\ clock < MaxTime
        /\ clock' = clock + 1
        /\ UNCHANGED <<slates, rows, results, guides, file, documents, catalog, refresh, news, cuts>>

\* A feed reports a programme, or its score once it is under way.
Feed(d) ==
  /\ Happens
  /\ rows[d][RealKickoff[d]] # "unmarked"
  /\ rows' = [rows EXCEPT ![d][RealKickoff[d]] = "unmarked"]
  /\ UNCHANGED <<clock, slates, results, guides, file, documents, catalog, refresh, cuts>>

ObserveResult(d) ==
  \E k \in {s.fixtures[d] : s \in {t \in {slates[c] : c \in DOMAIN slates} : d \in DOMAIN t.fixtures}} :
    /\ Happens
    /\ RealKickoff[d] <= clock
    /\ results' = results \cup {<<d, k>>}
    /\ UNCHANGED <<clock, slates, rows, guides, file, documents, catalog, refresh, cuts>>

\* _record_observation: a later sighting renews the cierre and the time, never the stored
\* payload with its confidence, as the fixtures are the same.
ObserveGuide(c) ==
  \E date \in Cierres, low \in BOOLEAN :
    /\ Happens
    /\ guides' = Put(guides, c,
         IF c \in DOMAIN guides THEN [guides[c] EXCEPT !.closes = date, !.seen = clock]
         ELSE [closes |-> date, low |-> low, seen |-> clock])
    /\ guides' # guides
    /\ UNCHANGED <<clock, slates, rows, results, file, documents, catalog, refresh, cuts>>

Started(s) == Observed(s) \/ FirstKickoff(s) <= clock

\* promote_proposal: the rows a feed reported near the cierre, or a fabricated ladder.
Promote(c) ==
  /\ Happens
  /\ c \in DOMAIN guides
  /\ c \in DOMAIN slates => ~slates[c].promoted
  /\ LET date == guides[c].closes
         real == {k \in Kickoffs : rows[c][k] = "unmarked" /\ k - date \in -Before..After}
         part == IF real = {} THEN [kickoff |-> date + Offset, told |-> "fabricated"]
                 ELSE [kickoff |-> CHOOSE k \in real : \A n \in real : k <= n, told |-> "reported"]
         db == IF c \in DOMAIN slates /\ Started(slates[c]) THEN Database
               ELSE Upserted(Database, c, [closes |-> date, sheet |-> [d \in {c} |-> part],
                                           canonical |-> FALSE])
     IN /\ slates' = [db.slates EXCEPT ![c].promoted = TRUE]
        /\ rows' = db.rows
  /\ UNCHANGED <<clock, results, guides, file, documents, catalog, refresh, cuts>>

\* ladder_base
Fabricated(s) == Cardinality(DOMAIN s.fixtures) = 1
                 /\ \A d \in DOMAIN s.fixtures : s.fixtures[d] # RealKickoff[d]

\* rebase_to_cierre: only kickoffs that form the fabricator's ladder follow the cierre.
Rebased(s, date) ==
  [d \in DOMAIN s.fixtures |-> IF Fabricated(s) THEN date + Offset ELSE s.fixtures[d]]

\* date_override.  The row moves with its mark and its results; two rows of one fixture at
\* one kickoff are refused by the table, and the request with them.
OverrideDate(c) ==
  \E date \in Cierres :
    /\ Happens
    /\ c \in DOMAIN slates
    /\ LET s == slates[c]
           moved == Rebased(s, date)
       IN /\ \A d \in DOMAIN moved : moved[d] # s.fixtures[d] => rows[d][moved[d]] = "none"
          /\ slates' = [e \in DOMAIN slates |->
               LET t == slates[e]
                   carried == [d \in DOMAIN t.fixtures |->
                     IF d \in DOMAIN moved /\ t.fixtures[d] = s.fixtures[d] THEN moved[d]
                     ELSE t.fixtures[d]]
               IN IF e = c THEN [t EXCEPT !.closes = date, !.fixtures = carried,
                                          !.is_archived = @ /\ date <= clock,
                                          !.withdrawn = @ /\ date <= clock]
                  ELSE [t EXCEPT !.fixtures = carried]]
          /\ rows' = [d \in Contests |->
               IF d \in DOMAIN moved /\ moved[d] # s.fixtures[d]
               THEN [rows[d] EXCEPT ![moved[d]] = rows[d][s.fixtures[d]], ![s.fixtures[d]] = "none"]
               ELSE rows[d]]
          /\ results' = {IF r[1] \in DOMAIN moved /\ r[2] = s.fixtures[r[1]]
                         THEN <<r[1], moved[r[1]]>> ELSE r : r \in results}
    /\ UNCHANGED <<clock, guides, file, documents, catalog, refresh, cuts>>

\* run_ms_pdf_watch, of a midweek slate: a close of the PDF, of an override or of the window,
\* the last held to the first kickoff and stamped on the guide.
WatchActivate(c) ==
  \E date \in Cierres, close \in Kickoffs, provisional \in BOOLEAN :
    /\ Happens
    /\ c.week = "midweek" /\ c \in DOMAIN guides \cap DOMAIN slates
    /\ date > clock /\ ~Started(slates[c])
    /\ close = IF provisional /\ date > FirstKickoff(slates[c]) THEN FirstKickoff(slates[c]) ELSE date
    /\ slates' = [slates EXCEPT ![c].closes = close, ![c].is_archived = FALSE, ![c].withdrawn = FALSE]
    /\ guides' = IF provisional THEN [guides EXCEPT ![c].closes = close, ![c].low = FALSE] ELSE guides
    /\ UNCHANGED <<clock, rows, results, file, documents, catalog, refresh, cuts>>

\* POST /slates: a client states the whole slate, is_archived with it.
PostSlate ==
  \E p \in Posts, archived \in BOOLEAN :
    /\ Happens
    /\ Store(UpsertedAs(Database, p.contest, p, archived))
    /\ UNCHANGED <<clock, results, guides, file, documents, catalog, refresh, cuts>>

\* export_from_active_slates: current.json is written from the open slates, with their marks.
Export ==
  /\ Happens
  /\ \E c \in DOMAIN slates : ~Closed(slates[c])
  /\ file' = [c \in {e \in DOMAIN slates : ~Closed(slates[e])} |->
       Item(slates[c].closes,
            [d \in DOMAIN slates[c].fixtures |->
              [kickoff |-> slates[c].fixtures[d],
               told |-> IF rows[d][slates[c].fixtures[d]] = "marked" THEN "fabricated" ELSE "reported"]])]
  /\ UNCHANGED <<clock, slates, rows, results, guides, documents, catalog, refresh, cuts>>

------------------------------------------------------------------------------

\* _candidate_is_active_or_future, _candidate_sort_key: the games that are still to come.
Coming(item) == {t \in Times(item.sheet) \cup {k + Span : k \in Times(item.sheet)} : t >= clock}
ActiveItem(item) == (item.closes # NoDate /\ item.closes >= clock) \/ Coming(item) # {}
Soonest(item) == CHOOSE t \in Coming(item) : \A u \in Coming(item) : t <= u
Ahead(c, d) ==
  LET Soon(e) == IF Coming(file[e]) = {} THEN MaxTime + Offset + 2 * Span + 1 ELSE Soonest(file[e])
  IN Soon(c) < Soon(d) \/ (Soon(c) = Soon(d) /\ c.number >= d.number)
Candidates == {c \in DOMAIN file : ActiveItem(file[c])}

\* _select_current_progol_item
Current == {c \in Candidates : \A d \in Candidates : Ahead(c, d)}

\* refresh_current: the slate of the current item, its document, its evidence, its
\* predictions, and the archiving of closed slates.  Each stage commits on its own.
RefreshSlate ==
  /\ refresh.stage = "idle"
  /\ \E c \in Current :
       /\ Store(Upserted(Database, c, file[c]))
       /\ refresh' = [stage |-> "upserted", contest |-> c]
  /\ UNCHANGED <<clock, results, guides, file, documents, catalog, news, cuts>>

\* mark_run_success: the items of the file become documents.
Stored == [d \in Contests |-> documents[d] \cup
            UNION {{file[c].sheet[e].kickoff : e \in DOMAIN file[c].sheet \cap {d}} : c \in DOMAIN file}]

\* What discovery infers from an item: the week type and the number of its contest, its cierre.
CatalogItem(c) == [contest |-> c, closes |-> file[c].closes]
Catalogued == [w \in {c.week : c \in DOMAIN file} \cup DOMAIN catalog |->
                LET items == {CatalogItem(c) : c \in {e \in DOMAIN file : e.week = w}}
                IN IF items # {} THEN items ELSE catalog[w]]

\* Mutant of RefreshDocument: a failed ingestion ends the refresh.
RefreshDocumentAborts ==
  /\ refresh.stage = "upserted"
  /\ \/ documents' = Stored /\ catalog' = Catalogued /\ refresh' = [refresh EXCEPT !.stage = "ingested"]
     \/ UNCHANGED <<documents, catalog>> /\ refresh' = [stage |-> "idle", contest |-> <<>>]
  /\ UNCHANGED <<clock, slates, rows, results, guides, file, news, cuts>>

\* run_for_source_documents_only: a failure is recorded on the run, and the refresh goes on.
RefreshDocument ==
  /\ refresh.stage = "upserted"
  /\ \/ documents' = Stored /\ catalog' = Catalogued
     \/ UNCHANGED <<documents, catalog>>
  /\ refresh' = [refresh EXCEPT !.stage = "ingested"]
  /\ UNCHANGED <<clock, slates, rows, results, guides, file, news, cuts>>

\* _refresh_slate_predictions: rows of the composition the slate has now.
Predict(c) == slates' = [slates EXCEPT ![c].predicted = @ \cup {slates[c].hash}]
RefreshPredictions ==
  /\ refresh.stage = "ingested"
  /\ Predict(refresh.contest)
  /\ refresh' = [refresh EXCEPT !.stage = "predicted"]
  /\ UNCHANGED <<clock, rows, results, guides, file, documents, catalog, news, cuts>>

\* Mutant of RefreshArchive: every other slate is archived, as it once was.
RefreshArchiveAll ==
  /\ refresh.stage = "predicted"
  /\ slates' = [c \in DOMAIN slates |-> [slates[c] EXCEPT !.is_archived = @ \/ c # refresh.contest]]
  /\ refresh' = [stage |-> "idle", contest |-> <<>>]
  /\ UNCHANGED <<clock, rows, results, guides, file, documents, catalog, news, cuts>>

\* _archive_non_current_slates
RefreshArchive ==
  /\ refresh.stage = "predicted"
  /\ slates' = [c \in DOMAIN slates |->
       [slates[c] EXCEPT !.is_archived = @ \/ (c # refresh.contest /\ Closed(slates[c]))]]
  /\ refresh' = [stage |-> "idle", contest |-> <<>>]
  /\ UNCHANGED <<clock, rows, results, guides, file, documents, catalog, news, cuts>>

CutRefresh ==
  /\ refresh.stage # "idle" /\ cuts < MaxCuts
  /\ cuts' = cuts + 1
  /\ refresh' = [stage |-> "idle", contest |-> <<>>]
  /\ UNCHANGED <<clock, slates, rows, results, guides, file, documents, catalog, news>>

\* _extract_fixture_candidates: the fixtures of every document of the week type, each with
\* the first kickoff told.  The mark of a fixture is not read.
FixtureCandidates(w, docs) ==
  LET Recently(d) == {k \in docs[d] : k >= clock - Recent}
  IN [d \in {e \in Contests : e.week = w /\ Recently(e) # {}} |->
       [kickoff |-> CHOOSE k \in Recently(d) : \A n \in Recently(d) : k <= n, told |-> "silent"]]

\* discover for one week type: those fixtures under the number and the cierre of an item.
Discovered(db, w, docs, item) ==
  LET sheet == FixtureCandidates(w, docs)
  IN IF DOMAIN sheet = {} THEN db
     ELSE Upserted(db, item.contest, [closes |-> item.closes, canonical |-> TRUE, sheet |-> sheet])

\* run_for_source on the context file, and _auto_discover_slates with what it stored.
IngestContext ==
  /\ Happens
  /\ documents' = Stored /\ catalog' = Catalogued
  /\ \E pick \in [DOMAIN catalog' -> UNION {catalog'[w] : w \in DOMAIN catalog'}] :
       LET Weekly(db, w) == IF w \in DOMAIN pick THEN Discovered(db, w, documents', pick[w]) ELSE db
       IN /\ \A w \in DOMAIN pick : pick[w] \in catalog'[w]
          /\ Store(Weekly(Weekly(Weekly(Database, "weekend"), "midweek"), "revancha"))
  /\ UNCHANGED <<clock, results, guides, file, refresh, cuts>>

\* list_due_for_archive, archive_due_slates
Due == {c \in DOMAIN slates : /\ ~slates[c].is_archived
                              /\ slates[c].closes # NoDate /\ slates[c].closes <= clock}
ArchiveDue ==
  /\ Due # {}
  /\ slates' = [c \in DOMAIN slates |-> [slates[c] EXCEPT !.is_archived = @ \/ c \in Due]]
  /\ UNCHANGED <<clock, rows, results, guides, file, documents, catalog, refresh, news, cuts>>

\* backfill_composition_hashes, when the API starts: from the rows the slate links.
HashFromModel(s) == [kickoffs |-> s.fixtures, canonical |-> TRUE]
Backfill ==
  /\ \E c \in DOMAIN slates : slates[c].hash = NoHash
  /\ slates' = [c \in DOMAIN slates |->
       [slates[c] EXCEPT !.hash = IF @ = NoHash THEN HashFromModel(slates[c]) ELSE @]]
  /\ UNCHANGED <<clock, rows, results, guides, file, documents, catalog, refresh, news, cuts>>

\* A client asks for the predictions of a slate and saves a ticket on them.
SaveTicket(c) ==
  /\ Happens
  /\ c \in DOMAIN slates /\ slates[c].ticket = NoTicket /\ ~Closed(slates[c])
  /\ slates' = [slates EXCEPT ![c].ticket = slates[c].hash, ![c].predicted = @ \cup {slates[c].hash}]
  /\ UNCHANGED <<clock, rows, results, guides, file, documents, catalog, refresh, cuts>>

Refresh == RefreshSlate \/ RefreshDocument \/ RefreshPredictions \/ RefreshArchive
Next ==
  \/ Tick \/ Export \/ PostSlate \/ IngestContext \/ ArchiveDue \/ Backfill \/ Refresh \/ CutRefresh
  \/ \E c \in Contests :
       \/ Feed(c) \/ ObserveResult(c) \/ ObserveGuide(c) \/ Promote(c) \/ OverrideDate(c)
       \/ WatchActivate(c) \/ SaveTicket(c)

\* The job runs again as long as it is enabled, and a running job goes on.
Spec == Init /\ [][Next]_vars /\ WF_vars(RefreshSlate) /\ WF_vars(RefreshDocument)
        /\ WF_vars(RefreshPredictions) /\ WF_vars(RefreshArchive)

------------------------------------------------------------------------------

\* _proposal_meta: a slate's guide is found by its number alone.
GuideOf(c) == {g \in DOMAIN guides : g.number = c.number}
LatestGuide(c) == {g \in GuideOf(c) : \A h \in GuideOf(c) : guides[h].seen <= guides[g].seen}

\* _prev_same_type_closes_at: the next lower contest of the week type.
Lower(c) == {d \in DOMAIN slates : d.week = c.week /\ d.number < c.number}
Previous(c) == {d \in Lower(c) : \A e \in Lower(c) : e.number <= d.number}

\* evaluate_slate_dates.  The sources that state no cierre at all are told apart by MsPdfWatch.
\* A low confidence never stands beside a provisional close, whose stamp replaces it.
StaleSource(c) ==
  \/ \E g \in LatestGuide(c) : guides[g].low \/ slates[c].closes + StaleObserved < guides[g].seen
  \/ slates[c].closes < slates[c].created - StaleCreated
DateStatus(c) ==
  CASE slates[c].closes = NoDate -> "needs_date"
    [] slates[c].closes # NoDate /\ StaleSource(c) -> "stale_source"
    [] slates[c].closes # NoDate /\ ~StaleSource(c) ->
         IF \E d \in Previous(c) : slates[c].closes <= slates[d].closes THEN "date_suspect"
         ELSE "date_valid"

\* Mutant of Sooner: the oldest slate comes first.
OldestFirst(c, d) == slates[c].created <= slates[d].created

\* _active_slate_sort_key of two open slates.
Sooner(c, d) ==
  LET s == slates[c]
      t == slates[d]
      Class(u) == IF u.closes # NoDate THEN 0 ELSE 1
      When(u) == IF u.closes # NoDate THEN u.closes ELSE FirstKickoff(u)
  IN \/ Class(s) < Class(t)
     \/ Class(s) = Class(t) /\ When(s) < When(t)
     \/ Class(s) = Class(t) /\ When(s) = When(t) /\ Priority[c.week] < Priority[d.week]
     \/ Class(s) = Class(t) /\ When(s) = When(t) /\ c.week = d.week /\ s.created >= t.created

\* get_active_slate: the first of the open slates.
OpenSlates == {c \in DOMAIN slates : ~Closed(slates[c])}
ActiveSlate == {c \in OpenSlates : \A d \in OpenSlates : Sooner(c, d)}

\* classify_slate: only the slate of an official proposal has lineage.
Official(c) == slates[c].promoted

\* visible_slates: what the selector offers as open, what it keeps for the record, and what
\* the date gate holds back.
ShownOpen == {c \in OpenSlates : Official(c) /\ DateStatus(c) = "date_valid"}
Viewable == {c \in DOMAIN slates : /\ Official(c) /\ Closed(slates[c])
                                   /\ slates[c].ticket = slates[c].hash
                                   /\ slates[c].hash \in slates[c].predicted}
ClosedAt(c) == IF slates[c].closes # NoDate THEN slates[c].closes ELSE slates[c].created
ShownRecent == {c \in Viewable : Cardinality({d \in Viewable : ClosedAt(d) > ClosedAt(c)}) < LimitRecent}
HeldBack == {c \in DOMAIN slates : Official(c) /\ ~slates[c].is_archived /\ DateStatus(c) # "date_valid"}
ClosesFirst(c, d) ==
  \/ slates[c].closes < slates[d].closes
  \/ slates[c].closes = slates[d].closes /\ Sooner(c, d)
Preselected ==
  IF ShownOpen # {} THEN {c \in ShownOpen : \A d \in ShownOpen : ClosesFirst(c, d)}
  ELSE {c \in ShownRecent : \A d \in ShownRecent : ClosedAt(d) <= ClosedAt(c)}

\* _serialize_slate: the state of a slate's predictions, as each row of the selector shows it.
PredictionStatus(c) ==
  CASE slates[c].predicted # {} -> "persisted"
    [] slates[c].predicted = {} /\ ~Closed(slates[c]) -> "live_available"
    [] OTHER -> "pending"

\* _discovery_info: the contest the diagnostics call the latest of a week type.
LatestContest(w) == {c \in DOMAIN guides : c.week = w
                       /\ \A d \in DOMAIN guides : d.week = w => d.number <= c.number}

------------------------------------------------------------------------------

\* The two entry points of the client agree.  An official slate that /slates/active serves is
\* the one the selector preselects, unless the date gate holds it back and says so; no open
\* official slate is missing from both lists or in both; and no slate offered for play waits
\* for predictions.
SelectorAgrees ==
  /\ \A c \in ActiveSlate : Official(c) => c \in Preselected \/ c \in HeldBack
  /\ \A c \in OpenSlates : Official(c) => (c \in ShownOpen <=> c \notin HeldBack)
  /\ \A c \in ShownOpen \cup ShownRecent : PredictionStatus(c) # "pending"
  /\ \A c \in Preselected : c \in OpenSlates <=> ShownOpen # {}

\* A contest that was closed to the player opens again only because its cierre or its
\* fixtures changed: un-archiving, which a refresh does to whatever item it selects and the
\* watcher to a contest ahead, is not enough.  What they do reopen without news is a contest
\* that a client withdrew ahead of its cierre, and nothing else.
ReopensOnlyOnNews ==
  [][\A c \in DOMAIN slates :
       Closed(slates[c]) /\ ~Closed(slates[c])' =>
         \/ slates'[c].closes # slates[c].closes \/ slates'[c].fixtures # slates[c].fixtures
         \/ slates[c].withdrawn]_vars

\* As long as current.json makes a contest the current one, its slate gets predictions of the
\* composition it has, whatever happens to the document step and to single refreshes.
Ready(c) == c \in DOMAIN slates /\ slates[c].hash \in slates[c].predicted
RefreshLands == \A c \in Contests : c \in Current ~> (Ready(c) \/ c \notin Current)

\* The diagnostics never go back to an earlier contest when a stale guide is seen again.
DiscoveryNeverGoesBack ==
  [][\A w \in Weeks : \A c \in LatestContest(w), d \in LatestContest(w)' : c.number <= d.number]_vars
==============================================================================
