--------------------------- MODULE ModelRunsProofs ---------------------------
(***************************************************************************)
(* Proofs about the training runs of the scoring model and of its neural   *)
(* shadow.  What is in force is the latest committed row, so each property *)
(* rests on what is true of the rows that are not committed yet, and on    *)
(* rows being ordered by age as they are by stamp.                         *)
(***************************************************************************)
EXTENDS ModelRuns, FiniteSetTheorems, WellFoundedInduction, TLAPS

Tasks == {Idle, "train", "candidate", "promote", "rollback", "backtest"}

NeuralRow ==
  [name: {"candidate", "active"}, stamp: Nat, age: Nat, evidence: Evidence \cup Stored,
   forced: BOOLEAN]

ProductionRow ==
  [name: {"production"}, stamp: Nat, age: Nat, by: Runners, first: Nat, boosted: BOOLEAN,
   file: Nat]

Row == NeuralRow \cup ProductionRow

Memory == [approved: SUBSET Competitions, age: 0..(VerdictTTL - 1)]

RowsTyped ==
  /\ runs \subseteq Row
  /\ flushed \in [Runners -> SUBSET Row]
  /\ task \in [Runners -> Tasks]
  /\ stamp \in Nat

GateTyped ==
  /\ verdict \in (SUBSET Competitions) \cup {Nothing}
  /\ trial \in [scored: SUBSET Competitions, won: SUBSET Competitions]
  /\ loaded \in [Runners -> Memory \cup {Nothing}]
  /\ age \in [Competitions -> [Engines -> 0..VerdictTTL]]

\* Committed or not.
Written == runs \cup UNION {flushed[r] : r \in Runners}

\* Of two rows, the one with the lower stamp is the older one.
OrderInv ==
  /\ \A run \in Written : run.stamp <= stamp
  /\ \A one, other \in Written : one.stamp <= other.stamp => one.age >= other.age

\* A row of S whose booster is not a file is not the last of S.
Backed(S, stored) ==
  \A run \in S :
    run.name = "production" /\ run.boosted
      => \/ run.file \in stored
         \/ \E other \in S : other.name = "production" /\ other.stamp > run.stamp

BoosterInv == Backed(runs, files) /\ \A r \in Runners : Backed(flushed[r], files)

ByWorker(S) == {run \in S : run.name = "production" /\ run.by = Worker}

\* The rows a runner has flushed are those of one training of its own.
OneTraining(r) ==
  \A one, other \in flushed[r] :
    one.name = "production" /\ other.name = "production"
      => one.by = r /\ one.first = other.first

SpacingInv ==
  /\ ScheduledRunsAreSpaced
  /\ \A r \in Runners : OneTraining(r)
  /\ flushed[Worker] # {} => task[Worker] = "train"
  /\ task[Worker] = "train" => \A run \in ByWorker(runs) : run.age >= Interval

\* What ShadowIsEarned says of a row.
Earned(e) ==
  /\ ~e.extended /\ HeldOut(e) # {}
  /\ IF e.kind = "loso" THEN Gain(e) > 0 /\ (\A i \in HeldOut(e) : e.folds[i].preserves)
     ELSE e.folds[1].gain > 0 /\ e.folds[1].preserves

EarnedInv == \A run \in Written : run.name = "active" => run.forced \/ Earned(run.evidence)

RowsInv == RowsTyped /\ OrderInv /\ BoosterInv /\ SpacingInv

\* The file routed every competition this way no longer ago than the given age.
RoutedWithin(ages, approved, last) ==
  \A c \in Competitions : ages[c][RouteBy(approved)[c]] <= last

\* What a process remembers of the verdict was in the file when it was read.
GateInv ==
  /\ RoutedWithin(age, verdict, 0)
  /\ \A r \in Runners :
       loaded[r] # Nothing => RoutedWithin(age, loaded[r].approved, loaded[r].age)

RunsInv == RowsInv /\ EarnedInv /\ GateTyped /\ GateInv

------------------------------------------------------------------------------

(* Any numbers have a least one.                                           *)
LEMMA LeastOfNumbers ==
  ASSUME NEW T \in SUBSET Nat, T # {}
  PROVE  \E n \in T : \A m \in T : n <= m
  <1>1. PICK n \in T : \A m \in T : ~(<<m, n>> \in OpToRel(<, Nat))
    BY WFMin, NatLessThanWellFounded, Zenon
  <1>2. \A m \in T : ~(m < n)
    BY <1>1 DEF OpToRel
  <1> QED  BY <1>2

(* Rows whose stamps are bounded have a newest one, and Newest picks it.   *)
LEMMA NewestIsOne ==
  ASSUME NEW S \in SUBSET Row, S # {}, NEW bound \in Nat,
         \A run \in S : run.stamp <= bound
  PROVE  /\ Newest(S) \in S
         /\ \A other \in S : other.stamp <= Newest(S).stamp
  <1> DEFINE Distances == {bound - run.stamp : run \in S}
  <1>1. \A run \in S : run.stamp \in Nat
    BY DEF Row, NeuralRow, ProductionRow
  <1>2. Distances \in SUBSET Nat /\ Distances # {}
    BY <1>1
  <1>3. PICK d \in Distances : \A e \in Distances : d <= e
    <2> HIDE DEF Distances
    <2> QED  BY <1>2, LeastOfNumbers
  <1>4. PICK run \in S : d = bound - run.stamp
    OBVIOUS
  <1>5. \A other \in S : other.stamp <= run.stamp
    <2> SUFFICES ASSUME NEW other \in S PROVE other.stamp <= run.stamp
      OBVIOUS
    <2>1. bound - run.stamp <= bound - other.stamp
      BY <1>3, <1>4
    <2> QED  BY <1>1, <2>1
  <1> QED  BY <1>5 DEF Newest

(* A row that grows older is the same row, and the elder stays the elder.  *)
LEMMA AgedIsSame ==
  /\ \A run \in Row : /\ AgedRun(run) \in Row
                      /\ AgedRun(run).name = run.name
                      /\ AgedRun(run).stamp = run.stamp
                      /\ run.age <= AgedRun(run).age
  /\ \A run \in ProductionRow : /\ AgedRun(run) \in ProductionRow
                                /\ AgedRun(run).by = run.by
                                /\ AgedRun(run).first = run.first
                                /\ AgedRun(run).boosted = run.boosted
                                /\ AgedRun(run).file = run.file
  /\ \A run \in NeuralRow : /\ AgedRun(run) \in NeuralRow
                            /\ AgedRun(run).evidence = run.evidence
                            /\ AgedRun(run).forced = run.forced
  /\ \A one, other \in Row : one.age >= other.age => AgedRun(one).age >= AgedRun(other).age
  <1>0. Interval \in Nat
    BY RunsAssumption
  <1>1. ASSUME NEW run \in ProductionRow
        PROVE  /\ AgedRun(run) \in ProductionRow
               /\ AgedRun(run).name = run.name /\ AgedRun(run).stamp = run.stamp
               /\ AgedRun(run).by = run.by /\ AgedRun(run).first = run.first
               /\ AgedRun(run).boosted = run.boosted /\ AgedRun(run).file = run.file
               /\ AgedRun(run).age = IF run.age < Interval THEN run.age + 1 ELSE run.age
    BY <1>0 DEF AgedRun, ProductionRow
  <1>2. ASSUME NEW run \in NeuralRow
        PROVE  /\ AgedRun(run) \in NeuralRow
               /\ AgedRun(run).name = run.name /\ AgedRun(run).stamp = run.stamp
               /\ AgedRun(run).evidence = run.evidence /\ AgedRun(run).forced = run.forced
               /\ AgedRun(run).age = IF run.age < Interval THEN run.age + 1 ELSE run.age
    BY <1>0 DEF AgedRun, NeuralRow
  <1>3. \A run \in Row : /\ run.age \in Nat
                         /\ AgedRun(run).age = IF run.age < Interval THEN run.age + 1 ELSE run.age
    BY <1>1, <1>2 DEF Row, ProductionRow, NeuralRow
  <1>4. \A run \in Row : run.age <= AgedRun(run).age
    BY <1>0, <1>3
  <1>5. \A one, other \in Row : one.age >= other.age => AgedRun(one).age >= AgedRun(other).age
    BY <1>0, <1>3
  <1> QED  BY <1>1, <1>2, <1>4, <1>5 DEF Row

(* A row that is called production is one, and the others are not.         *)
LEMMA RowsByName ==
  \A run \in Row :
    /\ run.stamp \in Nat /\ run.age \in Nat
    /\ run.name = "production" <=> run \in ProductionRow
    /\ run.name # "production" <=> run \in NeuralRow
  BY DEF Row, ProductionRow, NeuralRow

(* Rows keep the order of their stamps when what is added is newer.        *)
LEMMA OrderKept ==
  ASSUME RowsTyped, OrderInv, stamp' \in Nat, stamp <= stamp',
         \A run \in Written' :
           \/ run \in Written
           \/ run.stamp \in Nat /\ stamp < run.stamp /\ run.stamp <= stamp' /\ run.age = 0
  PROVE  OrderInv'
  <1>1. \A run \in Written : run \in Row
    BY DEF RowsTyped, Written
  <1>2. \A run \in Written : run.stamp \in Nat /\ run.age \in Nat /\ run.stamp <= stamp
    BY <1>1, RowsByName DEF OrderInv
  <1>3. \A run \in Written' : run.stamp \in Nat /\ run.stamp <= stamp'
    BY <1>2 DEF RowsTyped
  <1>4. \A one, other \in Written' : one.stamp <= other.stamp => one.age >= other.age
    <2> SUFFICES ASSUME NEW one \in Written', NEW other \in Written', one.stamp <= other.stamp
                 PROVE  one.age >= other.age
      OBVIOUS
    <2>1. CASE other \in Written
      <3>1. other.stamp <= stamp /\ one.stamp \in Nat /\ other.stamp \in Nat /\ stamp \in Nat
        BY <1>2, <1>3, <2>1 DEF RowsTyped
      <3>2. one \in Written
        BY <3>1
      <3> QED  BY <2>1, <3>2 DEF OrderInv
    <2>2. CASE other \notin Written
      BY <1>2, <2>2
    <2> QED  BY <2>1, <2>2
  <1> QED  BY <1>3, <1>4 DEF OrderInv

(* The row in force is the last of those that are committed.               *)
LEMMA LatestIsOne ==
  ASSUME RowsTyped, OrderInv, NEW name, Of(name) # {}
  PROVE  /\ Latest(name) \in Of(name)
         /\ \A other \in Of(name) : other.stamp <= Latest(name).stamp
  <1>1. Of(name) \in SUBSET Row
    BY DEF RowsTyped, Of
  <1>2. stamp \in Nat /\ \A run \in Of(name) : run.stamp <= stamp
    BY DEF RowsTyped, OrderInv, Written, Of
  <1> QED  BY <1>1, <1>2, NewestIsOne DEF Latest

(* A schedule that finds the latest run old finds every run old.           *)
LEMMA IntervalElapsedIsOfAll ==
  ASSUME RowsTyped, OrderInv, IntervalElapsed
  PROVE  \A run \in Of("production") : run.age >= Interval
  <1> SUFFICES ASSUME NEW run \in Of("production") PROVE run.age >= Interval
    OBVIOUS
  <1>1. /\ Latest("production") \in Of("production")
        /\ run.stamp <= Latest("production").stamp
    BY LatestIsOne
  <1>2. Latest("production") \in Row /\ run \in Row
    BY <1>1 DEF RowsTyped, Of
  <1>3. Latest("production").age >= Interval
    BY <1>2 DEF IntervalElapsed
  <1>4. run.age >= Latest("production").age
    BY <1>1 DEF OrderInv, Written, Of
  <1> QED  BY <1>2, <1>3, <1>4, RowsByName, RunsAssumption

------------------------------------------------------------------------------

(* Each property of what is in force follows from the invariant.           *)
LEMMA InvServes == RowsInv => ServedBoosterLoads
  <1> SUFFICES ASSUME RowsInv, Latest("production") # Nothing, Latest("production").boosted
               PROVE  Latest("production").file \in files
    BY DEF ServedBoosterLoads
  <1>1. Of("production") # {}
    BY DEF Latest
  <1>2. /\ Latest("production") \in Of("production")
        /\ \A other \in Of("production") : other.stamp <= Latest("production").stamp
    BY <1>1, LatestIsOne DEF RowsInv
  <1>3. \A run \in Of("production") : run.stamp \in Nat
    BY RowsByName DEF RowsInv, RowsTyped, Of
  <1>4. ~ \E other \in runs : other.name = "production" /\ other.stamp > Latest("production").stamp
    BY <1>2, <1>3 DEF Of
  <1> QED  BY <1>2, <1>4 DEF RowsInv, BoosterInv, Backed, Of


LEMMA InvSpaces == RowsInv => ScheduledRunsAreSpaced
  BY DEF RowsInv, SpacingInv

------------------------------------------------------------------------------

(* Nothing is trained and nothing is flushed.                              *)
LEMMA RowsInitially == RunsInit => RowsInv
  <1> SUFFICES ASSUME RunsInit PROVE RowsInv
    OBVIOUS
  <1> USE DEF RunsInit, Neural
  <1>1. runs \subseteq NeuralRow
    <2>1. \A e \in Stored : Neural("candidate", 0, e, FALSE) \in NeuralRow
      BY DEF NeuralRow
    <2> QED  BY <2>1
  <1>2. \A run \in Written : run \in runs
    BY DEF Written
  <1>3. \A run \in runs : run.stamp = 0 /\ run.age = 0 /\ run.name = "candidate"
    OBVIOUS
  <1>4. RowsTyped
    BY <1>1 DEF RowsTyped, Row, Tasks
  <1>5. OrderInv
    BY <1>2, <1>3 DEF OrderInv
  <1>6. BoosterInv
    BY <1>3 DEF BoosterInv, Backed
  <1>7. SpacingInv
    BY <1>3, RunsAssumption DEF SpacingInv, ScheduledRunsAreSpaced, OneTraining, Of, ByWorker
  <1> QED  BY <1>4, <1>5, <1>6, <1>7 DEF RowsInv

\* What the rows and who writes them consist of.
rowVars == <<runs, flushed, task, stamp, files>>

(* The invariant says nothing of results, verdicts and routes.             *)
LEMMA RowsFrame == RowsInv /\ UNCHANGED rowVars => RowsInv'
  <1> SUFFICES ASSUME RowsInv, UNCHANGED rowVars PROVE RowsInv'
    OBVIOUS
  <1> USE DEF rowVars
  <1>1. RowsTyped' /\ OrderInv' /\ BoosterInv'
    BY DEF RowsInv, RowsTyped, OrderInv, Written, BoosterInv, Backed
  <1>2. SpacingInv'
    BY DEF RowsInv, SpacingInv, ScheduledRunsAreSpaced, OneTraining, ByWorker, Of
  <1> QED  BY <1>1, <1>2 DEF RowsInv

(* A runner takes something up, or drops what writes no row.  When the     *)
(* worker trains from here on, every run it scheduled is old.              *)
LEMMA TaskStep ==
  ASSUME RowsInv, UNCHANGED <<runs, flushed, stamp, files>>,
         task' \in [Runners -> Tasks],
         task[Worker] = "train" => task'[Worker] = "train",
         task'[Worker] = "train" =>
           task[Worker] = "train" \/ \A run \in Of("production") : run.age >= Interval
  PROVE  RowsInv'
  <1>1. RowsTyped' /\ OrderInv' /\ BoosterInv'
    BY DEF RowsInv, RowsTyped, OrderInv, Written, BoosterInv, Backed
  <1>2. ScheduledRunsAreSpaced' /\ \A r \in Runners : OneTraining(r)'
    BY DEF RowsInv, SpacingInv, ScheduledRunsAreSpaced, OneTraining, Of
  <1>3. flushed'[Worker] # {} => task'[Worker] = "train"
    BY DEF RowsInv, SpacingInv
  <1>4. task'[Worker] = "train" => \A run \in ByWorker(runs') : run.age >= Interval
    BY DEF RowsInv, SpacingInv, ByWorker, Of
  <1> QED  BY <1>1, <1>2, <1>3, <1>4 DEF RowsInv, SpacingInv


(* A runner flushes what it wrote: rows of its own, newer than any other,  *)
(* of which the last names no booster or one that is stored.               *)
LEMMA FlushStep ==
  ASSUME RowsInv, NEW r \in Runners, NEW rows \in SUBSET Row,
         flushed' = [flushed EXCEPT ![r] = rows], runs' = runs,
         task' \in [Runners -> Tasks], task'[Worker] = task[Worker],
         r = Worker => task[Worker] = "train",
         stamp' \in Nat, stamp <= stamp', files \subseteq files',
         \A run \in rows : stamp < run.stamp /\ run.stamp <= stamp' /\ run.age = 0,
         \A one, other \in rows : one.name = "production" /\ other.name = "production"
                                    => one.by = r /\ one.first = other.first,
         Backed(rows, files')
  PROVE  RowsInv'
  <1>0. flushed \in [Runners -> SUBSET Row] /\ stamp \in Nat /\ Worker \in Runners
    BY RunsAssumption DEF RowsInv, RowsTyped
  <1>1. \A q \in Runners : flushed'[q] = IF q = r THEN rows ELSE flushed[q]
    BY <1>0
  <1>2. RowsTyped'
    BY <1>0 DEF RowsInv, RowsTyped
  <1>3. OrderInv'
    <2>1. \A run \in Written' : run \in Written \/ run \in rows
      BY <1>1 DEF Written
    <2>2. \A run \in rows : run.stamp \in Nat
      BY RowsByName
    <2> QED  BY <2>1, <2>2, OrderKept DEF RowsInv
  <1>4. BoosterInv'
    <2>1. ASSUME NEW S, Backed(S, files) PROVE Backed(S, files')
      BY <2>1 DEF Backed
    <2> QED  BY <1>1, <2>1 DEF RowsInv, BoosterInv
  <1>5. SpacingInv'
    <2>1. ScheduledRunsAreSpaced'
      BY DEF RowsInv, SpacingInv, ScheduledRunsAreSpaced, Of
    <2>2. \A q \in Runners : OneTraining(q)'
      BY <1>1 DEF RowsInv, SpacingInv, OneTraining
    <2>3. flushed'[Worker] # {} => task'[Worker] = "train"
      BY <1>0, <1>1 DEF RowsInv, SpacingInv
    <2>4. task'[Worker] = "train" => \A run \in ByWorker(runs') : run.age >= Interval
      BY DEF RowsInv, SpacingInv, ByWorker
    <2> QED  BY <2>1, <2>2, <2>3, <2>4 DEF SpacingInv
  <1> QED  BY <1>2, <1>3, <1>4, <1>5 DEF RowsInv

(* The rows of a training: with a booster the first still holds it inline, *)
(* and the second names the file.                                          *)
LEMMA SaveRunStep ==
  ASSUME RowsInv, NEW r \in Runners, NEW sample \in Samples, SaveRun(r, sample)
  PROVE  RowsInv'
  <1> DEFINE first == stamp + 1
             inline == Production(r, first, first, TRUE, 0)
             named == Production(r, first + 1, first, TRUE, first)
             plain == Production(r, first, first, FALSE, 0)
  <1>0. stamp \in Nat /\ first \in Nat /\ task \in [Runners -> Tasks]
    BY DEF RowsInv, RowsTyped
  <1>1. /\ inline \in Row /\ named \in Row /\ plain \in Row
        /\ inline.stamp = first /\ named.stamp = first + 1 /\ plain.stamp = first
        /\ inline.age = 0 /\ named.age = 0 /\ plain.age = 0
        /\ inline.by = r /\ named.by = r /\ plain.by = r
        /\ inline.first = first /\ named.first = first /\ plain.first = first
        /\ named.file = first /\ named.name = "production" /\ ~plain.boosted
    <2>1. /\ Production(r, first, first, TRUE, 0) \in ProductionRow
          /\ Production(r, first + 1, first, TRUE, first) \in ProductionRow
          /\ Production(r, first, first, FALSE, 0) \in ProductionRow
      <3> HIDE DEF first
      <3> QED  BY <1>0 DEF Production, ProductionRow
    <2> QED  BY <2>1 DEF Row, Production
  <1>2. runs' = runs /\ task' = task
    BY DEF SaveRun
  <1>3. r = Worker => task[Worker] = "train"
    BY DEF SaveRun
  <1>4. CASE Kind(sample) = "booster"
    <2>1. /\ flushed' = [flushed EXCEPT ![r] = {inline, named}]
          /\ files' = files \cup {first} /\ stamp' = stamp + 2
      BY <1>4 DEF SaveRun
    <2>2. Backed({inline, named}, files')
      <3> HIDE DEF inline, named, first
      <3> QED  BY <1>0, <1>1, <2>1 DEF Backed
    <2>3. \A run \in {inline, named} : /\ stamp < run.stamp /\ run.stamp <= stamp' /\ run.age = 0
                                       /\ run.by = r /\ run.first = first /\ run \in Row
      <3> HIDE DEF inline, named
      <3> QED  BY <1>0, <1>1, <2>1
    <2> HIDE DEF inline, named
    <2>4. {inline, named} \in SUBSET Row
      BY <1>1
    <2>5. stamp <= stamp' /\ stamp' \in Nat
      BY <1>0, <2>1
    <2> HIDE DEF first
    <2> QED  BY <1>0, <1>2, <1>3, <2>1, <2>2, <2>3, <2>4, <2>5, FlushStep
  <1>5. CASE Kind(sample) # "booster"
    <2>1. /\ flushed' = [flushed EXCEPT ![r] = {plain}]
          /\ files' = files /\ stamp' = first
      BY <1>5 DEF SaveRun
    <2>2. Backed({plain}, files')
      BY <1>1 DEF Backed
    <2>3. \A run \in {plain} : /\ stamp < run.stamp /\ run.stamp <= stamp' /\ run.age = 0
                               /\ run.by = r /\ run.first = first /\ run \in Row
      <3> HIDE DEF plain
      <3> QED  BY <1>0, <1>1, <2>1
    <2> HIDE DEF plain
    <2>4. {plain} \in SUBSET Row
      BY <1>1
    <2>5. stamp <= stamp' /\ stamp' \in Nat
      BY <1>0, <2>1
    <2> HIDE DEF first
    <2> QED  BY <1>0, <1>2, <1>3, <2>1, <2>2, <2>3, <2>4, <2>5, FlushStep
  <1> QED  BY <1>4, <1>5

(* The worker and the command line write no neural row.                    *)
LEMMA SaveNeuralStep ==
  ASSUME RowsInv, NEW r \in Requests, NEW evidence \in Evidence \cup Stored, NEW forced \in BOOLEAN,
         NEW name \in {"candidate", "active"}, NEW doing \in Tasks,
         SaveNeural(r, doing, name, evidence, forced)
  PROVE  RowsInv'
  <1> DEFINE row == Neural(name, stamp + 1, evidence, forced)
  <1>0. stamp \in Nat /\ task \in [Runners -> Tasks] /\ r \in Runners /\ r # Worker
    BY DEF RowsInv, RowsTyped, Requests
  <1>1. row \in Row /\ row.stamp = stamp + 1 /\ row.age = 0 /\ row.name # "production"
    <2>1. row \in NeuralRow
      BY <1>0 DEF Neural, NeuralRow
    <2> QED  BY <2>1 DEF Row, Neural
  <1>2. /\ flushed' = [flushed EXCEPT ![r] = {row}] /\ stamp' = stamp + 1
        /\ runs' = runs /\ files' = files /\ task' = [task EXCEPT ![r] = doing]
    BY DEF SaveNeural, Starts
  <1> HIDE DEF row
  <1>3. Backed({row}, files') /\ {row} \in SUBSET Row
    BY <1>1 DEF Backed
  <1>4. task' \in [Runners -> Tasks] /\ task'[Worker] = task[Worker]
    BY <1>0, <1>2, RunsAssumption
  <1>5. \A run \in {row} : /\ stamp < run.stamp /\ run.stamp <= stamp' /\ run.age = 0
                           /\ run.name # "production"
    BY <1>0, <1>1, <1>2
  <1>6. stamp' \in Nat /\ stamp <= stamp'
    BY <1>0, <1>2
  <1> QED  BY <1>0, <1>2, <1>3, <1>4, <1>5, <1>6, FlushStep


(* The active row before the one in force is an active row.                *)
LEMMA PreviousIsActive ==
  ASSUME RowsTyped, OrderInv, Cardinality(Of("active")) >= 2
  PROVE  Previous \in Of("active")
  <1>1. Of("active") \ {Latest("active")} # {}
    <2>1. CASE Of("active") = {}
      BY <2>1, FS_EmptySet
    <2>2. CASE Of("active") = {Latest("active")}
      <3>1. Cardinality({Latest("active")}) = 1
        BY FS_Singleton
      <3> QED  BY <2>2, <3>1
    <2> QED  BY <2>1, <2>2
  <1>2. Of("active") \ {Latest("active")} \in SUBSET Row
    BY DEF RowsTyped, Of
  <1>3. stamp \in Nat /\ \A run \in Of("active") \ {Latest("active")} : run.stamp <= stamp
    BY DEF RowsTyped, OrderInv, Written, Of
  <1> QED  BY <1>1, <1>2, <1>3, NewestIsOne DEF Previous

(* A commit shows the rows of one runner.  The worker's are one training,  *)
(* and those it had before are old.                                        *)
LEMMA CommitStep ==
  ASSUME RowsInv, NEW r \in Runners, Commit(r)
  PROVE  RowsInv'
  <1>0. /\ flushed \in [Runners -> SUBSET Row] /\ task \in [Runners -> Tasks]
        /\ runs \subseteq Row /\ stamp \in Nat /\ Worker \in Runners
    BY RunsAssumption DEF RowsInv, RowsTyped
  <1>1. /\ runs' = runs \cup flushed[r]
        /\ flushed' = [flushed EXCEPT ![r] = {}]
        /\ task' = [task EXCEPT ![r] = Idle]
        /\ stamp' = stamp /\ files' = files /\ flushed[r] # {}
    BY DEF Commit
  <1>2. \A q \in Runners : flushed'[q] = IF q = r THEN {} ELSE flushed[q]
    BY <1>0, <1>1
  <1>3. RowsTyped'
    <2>1. flushed[r] \subseteq Row /\ Idle \in Tasks
      BY <1>0 DEF Tasks
    <2> QED  BY <1>0, <1>1, <2>1 DEF RowsTyped
  <1>4. OrderInv'
    <2>1. \A run \in Written' : run \in Written
      BY <1>1, <1>2 DEF Written
    <2> QED  BY <1>0, <1>1, <2>1, OrderKept DEF RowsInv
  <1>5. BoosterInv'
    <2>1. Backed(runs \cup flushed[r], files)
      BY DEF RowsInv, BoosterInv, Backed
    <2>2. Backed({}, files)
      BY DEF Backed
    <2> QED  BY <1>1, <1>2, <2>1, <2>2 DEF RowsInv, BoosterInv
  <1>6. SpacingInv'
    <2>1. \A q \in Runners : OneTraining(q)'
      BY <1>2 DEF RowsInv, SpacingInv, OneTraining
    <2>2. CASE r = Worker
      <3>1. task'[Worker] # "train" /\ flushed'[Worker] = {}
        BY <1>0, <1>1, <1>2, <2>2, RunsAssumption
      <3>2. \A run \in ByWorker(runs) : run.age >= Interval /\ run \in Row
        BY <1>0, <1>1, <2>2 DEF RowsInv, SpacingInv, ByWorker
      <3>3. ASSUME NEW run \in ByWorker(runs'), run.age < Interval
            PROVE  run \in flushed[r] /\ run.name = "production"
        <4>1. run \notin ByWorker(runs)
          BY <3>2, <3>3, RowsByName, RunsAssumption
        <4> QED  BY <1>1, <4>1 DEF ByWorker
      <3>4. ScheduledRunsAreSpaced'
        BY <3>3 DEF RowsInv, SpacingInv, OneTraining, ScheduledRunsAreSpaced, Of, ByWorker
      <3> QED  BY <2>1, <3>1, <3>4 DEF SpacingInv
    <2>3. CASE r # Worker
      <3>1. task'[Worker] = task[Worker] /\ flushed'[Worker] = flushed[Worker]
        BY <1>0, <1>1, <1>2, <2>3
      <3>2. \A run \in flushed[r] : run.name = "production" => run.by # Worker
        BY <2>3 DEF RowsInv, SpacingInv, OneTraining
      <3>3. ByWorker(runs') = ByWorker(runs)
        BY <1>1, <3>2 DEF ByWorker
      <3>4. ScheduledRunsAreSpaced'
        BY <3>3 DEF RowsInv, SpacingInv, ScheduledRunsAreSpaced, Of, ByWorker
      <3> QED  BY <2>1, <3>1, <3>3, <3>4 DEF RowsInv, SpacingInv
    <2> QED  BY <2>2, <2>3
  <1> QED  BY <1>3, <1>4, <1>5, <1>6 DEF RowsInv

(* A process that dies loses what it flushed, and what it stored stays.    *)
LEMMA CrashStep ==
  ASSUME RowsInv, NEW r \in Runners, Crash(r)
  PROVE  RowsInv'
  <1>0. /\ flushed \in [Runners -> SUBSET Row] /\ task \in [Runners -> Tasks]
        /\ runs \subseteq Row /\ stamp \in Nat /\ Worker \in Runners
    BY RunsAssumption DEF RowsInv, RowsTyped
  <1>1. /\ flushed' = [flushed EXCEPT ![r] = {}] /\ task' = [task EXCEPT ![r] = Idle]
        /\ runs' = runs /\ stamp' = stamp /\ files' = files
    BY DEF Crash
  <1>2. /\ \A q \in Runners : flushed'[q] = IF q = r THEN {} ELSE flushed[q]
        /\ \A q \in Runners : task'[q] = IF q = r THEN Idle ELSE task[q]
    BY <1>0, <1>1
  <1>3. RowsTyped'
    BY <1>0, <1>1 DEF RowsTyped, Tasks
  <1>4. OrderInv'
    <2>1. \A run \in Written' : run \in Written
      BY <1>1, <1>2 DEF Written
    <2> QED  BY <1>0, <1>1, <2>1, OrderKept DEF RowsInv
  <1>5. BoosterInv'
    <2>1. Backed({}, files)
      BY DEF Backed
    <2> QED  BY <1>1, <1>2, <2>1 DEF RowsInv, BoosterInv
  <1>6. SpacingInv'
    <2>1. ScheduledRunsAreSpaced' /\ \A q \in Runners : OneTraining(q)'
      BY <1>1, <1>2 DEF RowsInv, SpacingInv, OneTraining, ScheduledRunsAreSpaced, Of
    <2>2. flushed'[Worker] # {} => task'[Worker] = "train"
      BY <1>0, <1>2 DEF RowsInv, SpacingInv
    <2>3. task'[Worker] = "train" => \A run \in ByWorker(runs') : run.age >= Interval
      BY <1>0, <1>1, <1>2, RunsAssumption DEF RowsInv, SpacingInv, ByWorker
    <2> QED  BY <2>1, <2>2, <2>3 DEF SpacingInv
  <1> QED  BY <1>3, <1>4, <1>5, <1>6 DEF RowsInv


(* Rows grow older together.                                               *)
LEMMA TickStep == RowsInv /\ Tick => RowsInv'
  <1> SUFFICES ASSUME RowsInv, Tick PROVE RowsInv'
    OBVIOUS
  <1>0. /\ flushed \in [Runners -> SUBSET Row] /\ task \in [Runners -> Tasks]
        /\ runs \subseteq Row /\ stamp \in Nat /\ Worker \in Runners
    BY RunsAssumption DEF RowsInv, RowsTyped
  <1>1. /\ runs' = {AgedRun(run) : run \in runs}
        /\ \A r \in Runners : flushed'[r] = {AgedRun(run) : run \in flushed[r]}
        /\ DOMAIN flushed' = Runners /\ flushed' = [r \in Runners |-> flushed'[r]]
        /\ task' = task /\ stamp' = stamp /\ files' = files
    BY DEF Tick
  <1>2. RowsTyped'
    <2>1. \A r \in Runners : flushed'[r] \subseteq Row
      BY <1>0, <1>1, AgedIsSame
    <2>2. runs' \subseteq Row
      BY <1>0, <1>1, AgedIsSame
    <2> QED  BY <1>0, <1>1, <2>1, <2>2 DEF RowsTyped
  <1>3. OrderInv'
    <2>1. \A run \in Written' : \E old \in Written : run = AgedRun(old)
      BY <1>1 DEF Written
    <2>2. \A old \in Written : old \in Row
      BY <1>0 DEF Written
    <2>3. \A run \in Written' : run.stamp <= stamp'
      BY <1>1, <2>1, <2>2, AgedIsSame DEF RowsInv, OrderInv
    <2>4. ASSUME NEW one \in Written', NEW other \in Written', one.stamp <= other.stamp
          PROVE  one.age >= other.age
      <3>1. PICK a \in Written : one = AgedRun(a)
        BY <2>1
      <3>2. PICK b \in Written : other = AgedRun(b)
        BY <2>1
      <3>3. a.age >= b.age
        BY <2>2, <2>4, <3>1, <3>2, AgedIsSame DEF RowsInv, OrderInv
      <3> QED  BY <2>2, <3>1, <3>2, <3>3, AgedIsSame
    <2> QED  BY <2>3, <2>4 DEF OrderInv
  <1>4. BoosterInv'
    <2>1. ASSUME NEW S \in SUBSET Row, Backed(S, files)
          PROVE  Backed({AgedRun(run) : run \in S}, files)
      <3> SUFFICES ASSUME NEW run \in S, run.name = "production", run.boosted, run.file \notin files
                   PROVE  \E other \in S : other.name = "production" /\ other.stamp > run.stamp
        BY AgedIsSame, RowsByName DEF Backed
      <3> QED  BY <2>1 DEF Backed
    <2> QED  BY <1>0, <1>1, <2>1 DEF RowsInv, BoosterInv
  <1>5. SpacingInv'
    <2>1. ASSUME NEW S \in SUBSET Row, NEW run \in {AgedRun(old) : old \in S}, run.name = "production"
          PROVE  \E old \in S : /\ run = AgedRun(old) /\ old.name = "production"
                                /\ old.by = run.by /\ old.first = run.first
                                /\ old.age <= run.age /\ old.age \in Nat /\ run.age \in Nat
      <3>1. PICK old \in S : run = AgedRun(old)
        BY <2>1
      <3>2. old \in ProductionRow
        BY <2>1, <3>1, AgedIsSame, RowsByName
      <3>3. run \in Row /\ old \in Row /\ old.age <= run.age /\ old.name = run.name
        BY <3>1, AgedIsSame
      <3>4. old.age \in Nat /\ run.age \in Nat
        BY <3>3, RowsByName
      <3> QED  BY <2>1, <3>1, <3>2, <3>3, <3>4, AgedIsSame
    <2>2. Interval \in Nat
      BY RunsAssumption
    <2>3. ScheduledRunsAreSpaced'
      <3> SUFFICES ASSUME NEW one \in runs', NEW other \in runs',
                          one.name = "production", one.by = Worker, one.age < Interval,
                          other.name = "production", other.by = Worker, other.age < Interval
                   PROVE  one.first = other.first
        BY DEF ScheduledRunsAreSpaced, Of
      <3>1. PICK a \in runs : a.name = "production" /\ a.by = one.by /\ a.first = one.first
                              /\ a.age <= one.age /\ a.age \in Nat /\ one.age \in Nat
        BY <1>0, <1>1, <2>1
      <3>2. PICK b \in runs : b.name = "production" /\ b.by = other.by /\ b.first = other.first
                              /\ b.age <= other.age /\ b.age \in Nat /\ other.age \in Nat
        BY <1>0, <1>1, <2>1
      <3>3. a.age < Interval /\ b.age < Interval
        BY <2>2, <3>1, <3>2
      <3> QED  BY <3>1, <3>2, <3>3 DEF RowsInv, SpacingInv, ScheduledRunsAreSpaced, Of
    <2>4. ASSUME NEW r \in Runners PROVE OneTraining(r)'
      <3> SUFFICES ASSUME NEW one \in flushed'[r], NEW other \in flushed'[r],
                          one.name = "production", other.name = "production"
                   PROVE  one.by = r /\ one.first = other.first
        BY DEF OneTraining
      <3>1. PICK a \in flushed[r] : a.name = "production" /\ a.by = one.by /\ a.first = one.first
        BY <1>0, <1>1, <2>1
      <3>2. PICK b \in flushed[r] : b.name = "production" /\ b.by = other.by /\ b.first = other.first
        BY <1>0, <1>1, <2>1
      <3> QED  BY <3>1, <3>2 DEF RowsInv, SpacingInv, OneTraining
    <2>5. flushed'[Worker] # {} => task'[Worker] = "train"
      BY <1>0, <1>1 DEF RowsInv, SpacingInv
    <2>6. ASSUME task'[Worker] = "train", NEW run \in ByWorker(runs')
          PROVE  run.age >= Interval
      <3>1. run \in runs' /\ run.name = "production" /\ run.by = Worker
        BY DEF ByWorker
      <3>2. PICK old \in runs : old.name = "production" /\ old.by = run.by
                                /\ old.age <= run.age /\ old.age \in Nat /\ run.age \in Nat
        BY <1>0, <1>1, <2>1, <3>1
      <3>3. old.age >= Interval
        BY <1>1, <2>6, <3>1, <3>2 DEF RowsInv, SpacingInv, ByWorker
      <3> QED  BY <2>2, <3>2, <3>3
    <2> QED  BY <2>3, <2>4, <2>5, <2>6 DEF SpacingInv
  <1> QED  BY <1>2, <1>3, <1>4, <1>5 DEF RowsInv

(* Every step of the rows.                                                 *)
LEMMA RowsStep == RowsInv /\ [RunsNext]_vars => RowsInv'
  <1> SUFFICES ASSUME RowsInv, [RunsNext]_vars PROVE RowsInv'
    OBVIOUS
  <1>0. RowsTyped /\ OrderInv /\ task \in [Runners -> Tasks] /\ Worker \in Runners
    BY RunsAssumption DEF RowsInv, RowsTyped
  <1>1. ASSUME NEW why \in {"schedule", "readiness", "request"}, NEW r \in Runners \ {Cli},
               BeginTrain(r, why)
        PROVE  RowsInv'
    <2>1. /\ UNCHANGED <<runs, flushed, stamp, files>>
          /\ task[r] = Idle /\ task' = [task EXCEPT ![r] = "train"]
      BY <1>1 DEF BeginTrain, Starts
    <2>2. r = Worker => \A run \in Of("production") : run.age >= Interval
      BY <1>0, <1>1, IntervalElapsedIsOfAll DEF BeginTrain
    <2>3. task' \in [Runners -> Tasks] /\ task'[Worker] = IF r = Worker THEN "train" ELSE task[Worker]
      BY <1>0, <2>1 DEF Tasks
    <2> QED  BY <2>1, <2>2, <2>3, TaskStep
  <1>2. ASSUME NEW r \in Requests, NEW evidence \in Evidence, TrainCandidate(r, evidence)
        PROVE  RowsInv'
    BY <1>2, SaveNeuralStep DEF TrainCandidate, Tasks
  <1>3. ASSUME NEW r \in Requests, NEW force \in BOOLEAN, Promote(r, force)
        PROVE  RowsInv'
    <2>1. PICK candidate \in Of("candidate") :
            SaveNeural(r, "promote", "active", candidate.evidence, force)
      BY <1>3 DEF Promote
    <2>2. candidate \in NeuralRow
      BY <1>0, RowsByName DEF RowsTyped, Of
    <2>3. candidate.evidence \in Evidence \cup Stored
      BY <2>2 DEF NeuralRow
    <2> QED  BY <2>1, <2>3, SaveNeuralStep DEF Tasks
  <1>4. ASSUME NEW r \in Requests, Rollback(r)
        PROVE  RowsInv'
    <2>1. Previous \in Of("active")
      BY <1>0, <1>4, PreviousIsActive DEF Rollback
    <2>2. Previous \in NeuralRow
      BY <1>0, <2>1, RowsByName DEF RowsTyped, Of
    <2>3. Previous.evidence \in Evidence \cup Stored /\ Previous.forced \in BOOLEAN
      BY <2>2 DEF NeuralRow
    <2> QED  BY <1>4, <2>3, SaveNeuralStep DEF Rollback, Tasks
  <1>5. ASSUME NEW r \in Runners, NEW sample \in Samples, SaveRun(r, sample)
        PROVE  RowsInv'
    BY <1>5, SaveRunStep
  <1>6. ASSUME NEW r \in Runners, Commit(r) \/ Crash(r)
        PROVE  RowsInv'
    BY <1>6, CommitStep, CrashStep
  <1>7. ASSUME NEW r \in Runners, Score(r) \/ ResetVerdict(r)
        PROVE  RowsInv'
    BY <1>7, RowsFrame DEF Score, ResetVerdict, rowVars
  <1>8. ASSUME BeginBacktest PROVE RowsInv'
    <2>1. /\ UNCHANGED <<runs, flushed, stamp, files>>
          /\ task[Cli] = Idle /\ task' = [task EXCEPT ![Cli] = "backtest"]
      BY <1>8 DEF BeginBacktest, Starts
    <2>2. task' \in [Runners -> Tasks]
          /\ task'[Worker] = IF Cli = Worker THEN "backtest" ELSE task[Worker]
      BY <1>0, <2>1, RunsAssumption DEF Tasks
    <2>3. Cli = Worker => task[Worker] # "train"
      BY <2>1, RunsAssumption
    <2> QED  BY <2>1, <2>2, <2>3, TaskStep
  <1>9. ASSUME NEW c \in Competitions, NEW won \in BOOLEAN, Backtest(c, won)
        PROVE  RowsInv'
    BY <1>9, RowsFrame DEF Backtest, rowVars
  <1>10. ASSUME TruncateVerdict PROVE RowsInv'
    BY <1>10, RowsFrame DEF TruncateVerdict, rowVars
  <1>11. ASSUME WriteVerdict PROVE RowsInv'
    <2>1. /\ UNCHANGED <<runs, flushed, stamp, files>>
          /\ task[Cli] = "backtest" /\ task' = [task EXCEPT ![Cli] = Idle]
      BY <1>11 DEF WriteVerdict, Backtested
    <2>2. task' \in [Runners -> Tasks]
          /\ task'[Worker] = IF Cli = Worker THEN Idle ELSE task[Worker]
      BY <1>0, <2>1, RunsAssumption DEF Tasks
    <2>3. Idle # "train"
      BY RunsAssumption
    <2> QED  BY <2>1, <2>2, <2>3, TaskStep
  <1>12. ASSUME NEW s \in Slates, NEW grade \in Grades, Regrade(s, grade)
         PROVE  RowsInv'
    BY <1>12, RowsFrame DEF Regrade, rowVars
  <1>13. ASSUME Tick PROVE RowsInv'
    BY <1>13, TickStep
  <1>14. ASSUME UNCHANGED vars PROVE RowsInv'
    BY <1>14, RowsFrame DEF vars, rowVars
  <1>15. Scorers \subseteq Runners
    BY RunsAssumption
  <1> QED  BY <1>1, <1>2, <1>3, <1>4, <1>5, <1>6, <1>7, <1>8, <1>9, <1>10, <1>11, <1>12, <1>13,
              <1>14, <1>15 DEF RunsNext

(***************************************************************************)
(* The rows that are written stay typed, ordered, backed by files and      *)
(* spaced: the inductive invariant of the training runs.                   *)
(***************************************************************************)
THEOREM RowsInvariant == RunsSpec => []RowsInv
  BY RowsInitially, RowsStep, PTL DEF RunsSpec

(***************************************************************************)
(* Whoever trains at once and whatever dies in between, the booster of the *)
(* production run in force is on disk.                                     *)
(***************************************************************************)
THEOREM BoostersAreServed == RunsSpec => []ServedBoosterLoads
  BY RowsInvariant, InvServes, PTL

(***************************************************************************)
(* Two trainings the worker scheduled are an interval apart, whoever else  *)
(* trains and whoever restarts.                                            *)
(***************************************************************************)
THEOREM ScheduleIsKept == RunsSpec => []ScheduledRunsAreSpaced
  BY RowsInvariant, InvSpaces, PTL


------------------------------------------------------------------------------

Ages == [Competitions -> [Engines -> 0..VerdictTTL]]

(* Every verdict routes every competition to an engine.                    *)
LEMMA RoutesTyped == \A approved : RouteBy(approved) \in [Competitions -> Engines]
  BY DEF RouteBy, Engines

LEMMA LifetimeIsNat == VerdictTTL \in Nat \ {0} /\ VerdictTTL - 1 \in Nat
  BY RunsAssumption

(* What was routed this way within an age was so within a longer one.      *)
LEMMA RoutedLonger ==
  ASSUME NEW ages \in Ages, NEW approved, NEW m \in Nat, NEW n \in Nat, m <= n,
         RoutedWithin(ages, approved, m)
  PROVE  RoutedWithin(ages, approved, n)
  <1> SUFFICES ASSUME NEW c \in Competitions PROVE ages[c][RouteBy(approved)[c]] <= n
    BY DEF RoutedWithin
  <1>1. RouteBy(approved)[c] \in Engines
    BY RoutesTyped
  <1>2. ages[c][RouteBy(approved)[c]] \in Nat
    BY <1>1, LifetimeIsNat DEF Ages
  <1>3. ages[c][RouteBy(approved)[c]] <= m
    BY DEF RoutedWithin
  <1> QED  BY <1>2, <1>3

(* The file routes as it is written, and what it routed before ages no     *)
(* further by that.                                                        *)
LEMMA WitnessedRoutes ==
  ASSUME age \in Ages, NEW new, age' = Witnessed(new)
  PROVE  /\ age' \in Ages
         /\ RoutedWithin(age', new, 0)
         /\ \A old : \A n \in Nat : RoutedWithin(age, old, n) => RoutedWithin(age', old, n)
  <1>0. VerdictTTL \in Nat
    BY LifetimeIsNat
  <1>1. \A c \in Competitions : RouteBy(new)[c] \in Engines
    BY RoutesTyped
  <1>2. \A c \in Competitions, e \in Engines :
          age'[c][e] = IF e = RouteBy(new)[c] THEN 0 ELSE age[c][e]
    BY <1>1 DEF Witnessed, Ages
  <1>3. age' \in Ages
    <2>1. \A c \in Competitions : [age[c] EXCEPT ![RouteBy(new)[c]] = 0] \in [Engines -> 0..VerdictTTL]
      BY <1>0, <1>1 DEF Ages
    <2> QED  BY <2>1 DEF Witnessed, Ages
  <1>4. RoutedWithin(age', new, 0)
    BY <1>1, <1>2 DEF RoutedWithin
  <1>5. ASSUME NEW old, NEW n \in Nat, RoutedWithin(age, old, n)
        PROVE  RoutedWithin(age', old, n)
    <2> SUFFICES ASSUME NEW c \in Competitions PROVE age'[c][RouteBy(old)[c]] <= n
      BY DEF RoutedWithin
    <2>1. RouteBy(old)[c] \in Engines
      BY RoutesTyped
    <2>2. age[c][RouteBy(old)[c]] <= n
      BY <1>5 DEF RoutedWithin
    <2> QED  BY <1>2, <2>1, <2>2
  <1> QED  BY <1>3, <1>4, <1>5

GatePart == GateTyped /\ GateInv

LEMMA GateInitially == RunsInit => GatePart
  <1> SUFFICES ASSUME RunsInit PROVE GatePart
    OBVIOUS
  <1>0. VerdictTTL \in Nat
    BY LifetimeIsNat
  <1>1. age = [c \in Competitions |-> [e \in Engines |-> IF e = "booster" THEN 0 ELSE VerdictTTL]]
        /\ verdict = Nothing /\ trial = NoTrial /\ loaded = [r \in Runners |-> Nothing]
    BY DEF RunsInit
  <1>2. GateTyped
    <2>1. NoTrial \in [scored: SUBSET Competitions, won: SUBSET Competitions]
      BY DEF NoTrial
    <2>2. age \in [Competitions -> [Engines -> 0..VerdictTTL]]
      BY <1>0, <1>1
    <2> QED  BY <1>1, <2>1, <2>2 DEF GateTyped
  <1>3. GateInv
    BY <1>1 DEF GateInv, RoutedWithin, RouteBy, Engines
  <1> QED  BY <1>2, <1>3 DEF GatePart

\* What the gate of the booster consists of.
gateVars == <<verdict, trial, loaded, age>>

LEMMA GateFrame == GatePart /\ UNCHANGED gateVars => GatePart'
  BY DEF GatePart, GateTyped, GateInv, RoutedWithin, gateVars

(* A process forgets what it read.                                         *)
LEMMA ForgetStep ==
  ASSUME GatePart, NEW r \in Runners, loaded' = [loaded EXCEPT ![r] = Nothing],
         trial' \in [scored: SUBSET Competitions, won: SUBSET Competitions],
         UNCHANGED <<verdict, age>>
  PROVE  GatePart'
  <1>1. \A q \in Runners : loaded'[q] = IF q = r THEN Nothing ELSE loaded[q]
    BY DEF GatePart, GateTyped
  <1>2. loaded' \in [Runners -> Memory \cup {Nothing}]
    BY DEF GatePart, GateTyped
  <1>3. GateTyped'
    BY <1>2 DEF GatePart, GateTyped
  <1>4. GateInv'
    BY <1>1 DEF GatePart, GateInv, RoutedWithin
  <1> QED  BY <1>3, <1>4 DEF GatePart

(* A process reads the file, unless it remembers what it read before.      *)
LEMMA ReadStep ==
  ASSUME GatePart, NEW r \in Runners, loaded' = Loaded(r),
         trial' \in [scored: SUBSET Competitions, won: SUBSET Competitions],
         UNCHANGED <<verdict, age>>
  PROVE  GatePart'
  <1>1. CASE loaded' = loaded
    BY <1>1 DEF GatePart, GateTyped, GateInv, RoutedWithin
  <1>2. CASE verdict # Nothing /\ loaded' = [loaded EXCEPT ![r] = [approved |-> verdict, age |-> 0]]
    <2> DEFINE read == [approved |-> verdict, age |-> 0]
    <2>0. verdict \in SUBSET Competitions /\ 0 \in 0..(VerdictTTL - 1)
      <3>1. verdict \in SUBSET Competitions
        BY <1>2 DEF GatePart, GateTyped
      <3> QED  BY <3>1, LifetimeIsNat
    <2>1. read \in Memory /\ read.approved = verdict /\ read.age = 0
      BY <2>0 DEF Memory
    <2>2. loaded' = [loaded EXCEPT ![r] = read]
      BY <1>2
    <2> HIDE DEF read
    <2>3. \A q \in Runners : loaded'[q] = IF q = r THEN read ELSE loaded[q]
      BY <2>2 DEF GatePart, GateTyped
    <2>4. GateTyped'
      BY <2>1, <2>2 DEF GatePart, GateTyped
    <2>5. GateInv'
      BY <2>1, <2>3 DEF GatePart, GateInv, RoutedWithin
    <2> QED  BY <2>4, <2>5 DEF GatePart
  <1> QED  BY <1>1, <1>2 DEF Loaded

(* The file is emptied or written.                                         *)
LEMMA VerdictStep ==
  ASSUME GatePart, verdict' \in (SUBSET Competitions) \cup {Nothing}, age' = Witnessed(verdict'),
         trial' \in [scored: SUBSET Competitions, won: SUBSET Competitions],
         UNCHANGED loaded
  PROVE  GatePart'
  <1>1. age \in Ages
    BY DEF GatePart, GateTyped, Ages
  <1>2. /\ age' \in Ages /\ RoutedWithin(age', verdict', 0)
        /\ \A old : \A n \in Nat : RoutedWithin(age, old, n) => RoutedWithin(age', old, n)
    BY <1>1, WitnessedRoutes
  <1>3. GateTyped'
    BY <1>2 DEF GatePart, GateTyped, Ages
  <1>4. \A r \in Runners : loaded[r] # Nothing => loaded[r].age \in Nat
    BY LifetimeIsNat DEF GatePart, GateTyped, Memory
  <1>5. GateInv'
    BY <1>2, <1>4 DEF GatePart, GateInv
  <1> QED  BY <1>3, <1>5 DEF GatePart

(* What is remembered grows older no slower than what it remembers, and is *)
(* forgotten at the end of its lifetime.                                   *)
LEMMA GateTick == GatePart /\ Tick => GatePart'
  <1> SUFFICES ASSUME GatePart, Tick PROVE GatePart'
    OBVIOUS
  <1>0. /\ age \in Ages /\ VerdictTTL \in Nat /\ VerdictTTL - 1 \in Nat
        /\ loaded \in [Runners -> Memory \cup {Nothing}]
    BY LifetimeIsNat DEF GatePart, GateTyped, Ages
  <1>1. /\ age' = [c \in Competitions |-> [e \in Engines |->
                     IF e = FileRoute[c] THEN 0 ELSE Older(age[c][e])]]
        /\ loaded' = [r \in Runners |->
                        IF loaded[r] = Nothing \/ loaded[r].age = VerdictTTL - 1 THEN Nothing
                        ELSE [loaded[r] EXCEPT !.age = @ + 1]]
        /\ verdict' = verdict /\ trial' = trial
    BY DEF Tick
  <1>2. \A c \in Competitions, e \in Engines :
          /\ age'[c][e] = IF e = FileRoute[c] THEN 0 ELSE Older(age[c][e])
          /\ age[c][e] \in Nat /\ age'[c][e] \in 0..VerdictTTL
          /\ age'[c][e] <= age[c][e] + 1
    BY <1>0, <1>1 DEF Ages, Older
  <1>3. \A r \in Runners : loaded'[r] # Nothing =>
          /\ loaded[r] # Nothing /\ loaded[r].age < VerdictTTL - 1
          /\ loaded'[r] \in Memory
          /\ loaded'[r].approved = loaded[r].approved /\ loaded'[r].age = loaded[r].age + 1
    BY <1>0, <1>1, SMTT(30) DEF Memory
  <1>4. age' \in Ages
    BY <1>1, <1>2 DEF Ages
  <1>5. GateTyped'
    <2>1. loaded' \in [Runners -> Memory \cup {Nothing}]
      BY <1>1, <1>3
    <2> QED  BY <1>1, <1>4, <2>1 DEF GatePart, GateTyped, Ages
  <1>6. GateInv'
    <2>1. RoutedWithin(age', verdict', 0)
      BY <1>1, <1>2, RoutesTyped DEF RoutedWithin, FileRoute
    <2>2. ASSUME NEW r \in Runners, loaded'[r] # Nothing, NEW c \in Competitions
          PROVE  age'[c][RouteBy(loaded'[r].approved)[c]] <= loaded'[r].age
      <3> DEFINE e == RouteBy(loaded[r].approved)[c]
      <3>1. e \in Engines
        BY RoutesTyped
      <3>2. age[c][e] <= loaded[r].age
        BY <1>3, <2>2 DEF GatePart, GateInv, RoutedWithin
      <3>3. loaded[r].age \in Nat
        BY <1>0, <1>3, <2>2 DEF Memory
      <3>4. age'[c][e] <= loaded[r].age + 1
        <4> HIDE DEF e
        <4>1. age[c][e] \in Nat /\ age'[c][e] \in 0..VerdictTTL /\ age'[c][e] <= age[c][e] + 1
          BY <1>2, <3>1
        <4> QED  BY <1>0, <3>2, <3>3, <4>1
      <3> QED  BY <1>3, <2>2, <3>4
    <2> QED  BY <2>1, <2>2 DEF GateInv, RoutedWithin
  <1> QED  BY <1>5, <1>6 DEF GatePart


(* Every step of the gate.                                                 *)
LEMMA GateStep == GatePart /\ [RunsNext]_vars => GatePart'
  <1> SUFFICES ASSUME GatePart, [RunsNext]_vars PROVE GatePart'
    OBVIOUS
  <1> DEFINE Trials == [scored: SUBSET Competitions, won: SUBSET Competitions]
  <1>0. /\ trial \in Trials /\ Scorers \subseteq Runners /\ Cli \in Runners
        /\ NoTrial \in Trials
    BY RunsAssumption DEF GatePart, GateTyped, NoTrial
  <1>1. ASSUME NEW r \in Runners,
               \/ \E why \in {"schedule", "readiness", "request"} : BeginTrain(r, why)
               \/ \E evidence \in Evidence : TrainCandidate(r, evidence)
               \/ \E force \in BOOLEAN : Promote(r, force)
               \/ Rollback(r)
               \/ \E sample \in Samples : SaveRun(r, sample)
               \/ Commit(r)
        PROVE  GatePart'
    <2>1. UNCHANGED gateVars
      BY <1>1 DEF gateVars, BeginTrain, TrainCandidate, Promote, Rollback, SaveNeural, SaveRun, Commit
    <2> QED  BY <2>1, GateFrame
  <1>2. ASSUME NEW r \in Runners, Crash(r) PROVE GatePart'
    BY <1>0, <1>2, ForgetStep DEF Crash
  <1>3. ASSUME NEW r \in Runners, Score(r) PROVE GatePart'
    BY <1>0, <1>3, ReadStep DEF Score
  <1>4. ASSUME NEW r \in Runners, ResetVerdict(r) PROVE GatePart'
    BY <1>0, <1>4, ForgetStep DEF ResetVerdict
  <1>5. CASE BeginBacktest
    BY <1>0, <1>5, ForgetStep DEF BeginBacktest
  <1>6. ASSUME NEW c \in Competitions, NEW won \in BOOLEAN, Backtest(c, won) PROVE GatePart'
    <2>1. trial' \in Trials
      <3>1. /\ trial.scored \cup {c} \in SUBSET Competitions
            /\ (IF won THEN trial.won \cup {c} ELSE trial.won) \in SUBSET Competitions
        BY <1>0
      <3> QED  BY <1>6, <3>1 DEF Backtest
    <2> QED  BY <1>0, <1>6, <2>1, ReadStep DEF Backtest
  <1>7. CASE TruncateVerdict
    BY <1>0, <1>7, VerdictStep DEF TruncateVerdict
  <1>8. CASE WriteVerdict
    <2>1. verdict' \in SUBSET Competitions
      BY <1>0, <1>8 DEF WriteVerdict
    <2> QED  BY <1>0, <1>8, <2>1, VerdictStep DEF WriteVerdict
  <1>9. CASE \E s \in Slates, grade \in Grades : Regrade(s, grade)
    BY <1>9, GateFrame DEF Regrade, gateVars
  <1>10. CASE Tick
    BY <1>10, GateTick
  <1>11. CASE UNCHANGED vars
    BY <1>11, GateFrame DEF vars, gateVars
  <1> HIDE DEF Trials
  <1> QED  BY <1>0, <1>1, <1>2, <1>3, <1>4, <1>5, <1>6, <1>7, <1>8, <1>9, <1>10, <1>11
           DEF RunsNext, Requests

(***************************************************************************)
(* What a process remembers of the verdict was in the file when it read    *)
(* it, and is forgotten at the end of its lifetime.                        *)
(***************************************************************************)
THEOREM GateInvariant == RunsSpec => []GatePart
  BY GateInitially, GateStep, PTL DEF RunsSpec

LEMMA PromiseInit == RunsInit => Promise!Init
  <1> SUFFICES ASSUME RunsInit PROVE Promise!Init
    OBVIOUS
  <1>0. VerdictTTL \in Nat
    BY LifetimeIsNat
  <1>1. /\ age = [c \in Competitions |-> [e \in Engines |-> IF e = "booster" THEN 0 ELSE VerdictTTL]]
        /\ verdict = Nothing /\ route = Nothing
    BY DEF RunsInit
  <1>2. FileRoute = [c \in Competitions |-> "booster"]
    BY <1>1 DEF FileRoute, RouteBy
  <1>3. FileRoute \in [Competitions -> Engines]
    BY RoutesTyped DEF FileRoute
  <1>4. VerdictTTL - 1 + 1 = VerdictTTL
    BY <1>0
  <1>5. age = [c \in Competitions |-> [e \in Engines |->
                 IF e = FileRoute[c] THEN 0 ELSE VerdictTTL - 1 + 1]]
    BY <1>1, <1>2, <1>4
  <1> QED  BY <1>1, <1>3, <1>5 DEF Promise!Init, Promise!TooLong

(* Every step is one of the promise, or leaves what it speaks of alone.    *)
LEMMA PromiseStep == GatePart /\ [RunsNext]_vars => [Promise!Next]_Promise!vars
  <1> SUFFICES ASSUME GatePart, [RunsNext]_vars PROVE [Promise!Next]_Promise!vars
    OBVIOUS
  <1>0. /\ age \in Ages /\ VerdictTTL \in Nat /\ VerdictTTL - 1 \in Nat /\ Scorers \subseteq Runners
        /\ \A approved : RouteBy(approved) \in [Competitions -> Engines]
    BY LifetimeIsNat, RunsAssumption, RoutesTyped DEF GatePart, GateTyped, Ages
  <1>1. ASSUME route' = Nothing, UNCHANGED <<verdict, age>>
        PROVE  Promise!Next
    BY <1>1 DEF Promise!Next, Promise!Silent, FileRoute
  <1>2. ASSUME NEW r \in Runners, Score(r) PROVE Promise!Next
    <2>1. route' = RouteBy(Approved(r)) /\ UNCHANGED <<verdict, age>>
      BY <1>2 DEF Score
    <2>2. RoutedWithin(age, Approved(r), VerdictTTL - 1)
      <3>1. CASE loaded[r] # Nothing
        <4>1. loaded[r].age \in Nat /\ loaded[r].age <= VerdictTTL - 1
          BY <1>0, <3>1 DEF GatePart, GateTyped, Memory
        <4>2. RoutedWithin(age, loaded[r].approved, loaded[r].age)
          BY <3>1 DEF GatePart, GateInv
        <4>3. RoutedWithin(age, loaded[r].approved, VerdictTTL - 1)
          BY <1>0, <4>1, <4>2, RoutedLonger
        <4> QED  BY <3>1, <4>3 DEF Approved
      <3>2. CASE loaded[r] = Nothing
        <4>1. RoutedWithin(age, verdict, VerdictTTL - 1)
          BY <1>0, RoutedLonger DEF GatePart, GateInv
        <4> QED  BY <3>2, <4>1 DEF Approved
      <3> QED  BY <3>1, <3>2
    <2> QED  BY <1>0, <2>1, <2>2 DEF Promise!Next, Promise!Answer, RoutedWithin, FileRoute
  <1>3. ASSUME age' = Witnessed(verdict'), route' = Nothing PROVE Promise!Next
    <2>1. FileRoute' = RouteBy(verdict')
      BY DEF FileRoute
    <2>2. FileRoute' \in [Competitions -> Engines]
      BY <1>0, <2>1
    <2>3. age' = [c \in Competitions |-> [age[c] EXCEPT ![FileRoute'[c]] = 0]]
      BY <1>3, <2>1 DEF Witnessed
    <2> QED  BY <1>3, <2>2, <2>3 DEF Promise!Next, Promise!Change
  <1>4. CASE Tick
    <2>1. route' = Nothing /\ FileRoute' = FileRoute
      BY <1>4 DEF Tick, FileRoute
    <2>2. age' = [c \in Competitions |-> [e \in Engines |->
                    IF e = FileRoute[c] THEN 0 ELSE Older(age[c][e])]]
      BY <1>4 DEF Tick
    <2>3. \A a : Older(a) = Promise!Older(a)
      <3>1. VerdictTTL - 1 + 1 = VerdictTTL
        BY <1>0
      <3> QED  BY <3>1 DEF Older, Promise!Older, Promise!TooLong
    <2>4. age' = [c \in Competitions |-> [e \in Engines |->
                    IF e = FileRoute[c] THEN 0 ELSE Promise!Older(age[c][e])]]
      BY <2>2, <2>3
    <2> QED  BY <2>1, <2>4 DEF Promise!Next, Promise!Tick
  <1>5. CASE UNCHANGED vars
    BY <1>5 DEF vars, Promise!vars, FileRoute
  <1>6. ASSUME NEW r \in Runners,
               \/ \E why \in {"schedule", "readiness", "request"} : BeginTrain(r, why)
               \/ \E evidence \in Evidence : TrainCandidate(r, evidence)
               \/ \E force \in BOOLEAN : Promote(r, force)
               \/ Rollback(r)
               \/ \E sample \in Samples : SaveRun(r, sample)
               \/ Commit(r) \/ Crash(r) \/ ResetVerdict(r)
        PROVE  Promise!Next
    <2>1. route' = Nothing /\ UNCHANGED <<verdict, age>>
      BY <1>6 DEF BeginTrain, TrainCandidate, Promote, Rollback, SaveNeural, SaveRun, Commit, Crash,
                  ResetVerdict
    <2> QED  BY <1>1, <2>1
  <1>7. ASSUME \/ BeginBacktest
               \/ \E c \in Competitions, won \in BOOLEAN : Backtest(c, won)
               \/ \E s \in Slates, grade \in Grades : Regrade(s, grade)
        PROVE  Promise!Next
    <2>1. route' = Nothing /\ UNCHANGED <<verdict, age>>
      BY <1>7 DEF BeginBacktest, Backtest, Regrade
    <2> QED  BY <1>1, <2>1
  <1>8. CASE TruncateVerdict \/ WriteVerdict
    <2>1. age' = Witnessed(verdict') /\ route' = Nothing
      BY <1>8 DEF TruncateVerdict, WriteVerdict
    <2> QED  BY <1>3, <2>1
  <1> QED  BY <1>0, <1>2, <1>4, <1>5, <1>6, <1>7, <1>8 DEF RunsNext, Requests

(***************************************************************************)
(* Whatever the lifetime of the class-level cache is, every process scores *)
(* every match by an engine the file named within that lifetime, while the *)
(* file is emptied and rewritten under the readers.                        *)
(***************************************************************************)
THEOREM GateKeepsThePromise == RunsSpec => GateIsRecent
  BY PromiseInit, PromiseStep, GateInvariant, PTL DEF RunsSpec, GateIsRecent, Promise!Spec


------------------------------------------------------------------------------

\* The sum of what f gives the members of s, by the same recursion as MapThenSumSet.
AddOne(f, g, s) == IF s = {} THEN 0 ELSE f[CHOOSE x \in s : TRUE] + g[s \ {CHOOSE x \in s : TRUE}]

(* The recursion of a sum has a solution over the subsets of a finite set, *)
(* built one size at a time.                                               *)
LEMMA SumExists ==
  ASSUME NEW S, IsFiniteSet(S), NEW f \in [S -> Int]
  PROVE  \E g \in [SUBSET S -> Int] : \A s \in SUBSET S : g[s] = AddOne(f, g, s)
  <1> DEFINE Small(n) == {s \in SUBSET S : Cardinality(s) <= n}
             Solved(n) == \E g \in [Small(n) -> Int] : \A s \in Small(n) : g[s] = AddOne(f, g, s)
             Unsolved == {n \in Nat : ~Solved(n)}
  <1>1. \A s \in SUBSET S : /\ IsFiniteSet(s) /\ Cardinality(s) \in Nat
                            /\ Cardinality(s) <= Cardinality(S)
                            /\ Cardinality(s) = 0 <=> s = {}
                            /\ \A x \in s : Cardinality(s \ {x}) = Cardinality(s) - 1
    BY FS_Subset, FS_CardinalityType, FS_EmptySet, FS_RemoveElement
  <1>2. Solved(0)
    <2>1. \A s \in Small(0) : s = {}
      BY <1>1
    <2>2. [s \in Small(0) |-> 0] \in [Small(0) -> Int]
      OBVIOUS
    <2> QED  BY <2>1, <2>2 DEF AddOne
  <1>3. ASSUME NEW n \in Nat, Solved(n) PROVE Solved(n + 1)
    <2>1. PICK g \in [Small(n) -> Int] : \A s \in Small(n) : g[s] = AddOne(f, g, s)
      BY <1>3
    <2> DEFINE h == [s \in Small(n + 1) |-> AddOne(f, g, s)]
    <2>2. \A s \in Small(n + 1) : s # {} => s \ {CHOOSE x \in s : TRUE} \in Small(n)
      BY <1>1
    <2>3. \A s \in Small(n) : s \in Small(n + 1)
      BY <1>1
    <2>4. \A s \in Small(n) : h[s] = g[s]
      BY <2>1, <2>3
    <2>5. \A s \in Small(n + 1) : AddOne(f, g, s) \in Int /\ AddOne(f, h, s) = AddOne(f, g, s)
      <3> SUFFICES ASSUME NEW s \in Small(n + 1)
                   PROVE  AddOne(f, g, s) \in Int /\ AddOne(f, h, s) = AddOne(f, g, s)
        OBVIOUS
      <3>1. CASE s = {}
        BY <3>1 DEF AddOne
      <3>2. CASE s # {}
        <4> DEFINE x == CHOOSE x \in s : TRUE
        <4>1. x \in S /\ s \ {x} \in Small(n)
          BY <2>2, <3>2
        <4>2. f[x] \in Int /\ g[s \ {x}] \in Int /\ h[s \ {x}] = g[s \ {x}]
          <5> HIDE DEF x, h, Small
          <5> QED  BY <2>4, <4>1
        <4>3. AddOne(f, g, s) = f[x] + g[s \ {x}] /\ AddOne(f, h, s) = f[x] + h[s \ {x}]
          BY <3>2 DEF AddOne
        <4> HIDE DEF x, h
        <4> QED  BY <4>2, <4>3
      <3> QED  BY <3>1, <3>2
    <2>6. h \in [Small(n + 1) -> Int]
      BY <2>5
    <2>7. \A s \in Small(n + 1) : h[s] = AddOne(f, h, s)
      BY <2>5
    <2> HIDE DEF h, Small
    <2> QED  BY <2>6, <2>7
  <1>4. Unsolved = {}
    <2> HIDE DEF Solved
    <2> SUFFICES ASSUME Unsolved # {} PROVE FALSE
      OBVIOUS
    <2>1. PICK n \in Unsolved : \A m \in Unsolved : n <= m
      BY LeastOfNumbers
    <2>2. n \in Nat /\ ~Solved(n) /\ n # 0
      BY <1>2, <2>1
    <2>3. n - 1 \in Nat /\ n - 1 \notin Unsolved
      BY <2>1, <2>2
    <2>4. Solved(n - 1)
      BY <2>3
    <2>5. Solved((n - 1) + 1)
      BY <1>3, <2>3, <2>4
    <2> QED  BY <2>2, <2>5
  <1>5. Cardinality(S) \in Nat /\ Small(Cardinality(S)) = SUBSET S
    BY <1>1, FS_CardinalityType
  <1>6. Solved(Cardinality(S))
    <2> HIDE DEF Solved
    <2> QED  BY <1>4, <1>5
  <1> QED  BY <1>5, <1>6


(* A solution of the recursion is an integer for every subset.             *)
LEMMA SumTyped ==
  ASSUME NEW S, IsFiniteSet(S), NEW f \in [S -> Int], NEW g,
         \A s \in SUBSET S : g[s] = AddOne(f, g, s)
  PROVE  g[S] \in Int
  <1> DEFINE Sizes == {n \in Nat : \E s \in SUBSET S : Cardinality(s) = n /\ g[s] \notin Int}
  <1>1. \A s \in SUBSET S : /\ Cardinality(s) \in Nat
                            /\ \A x \in s : Cardinality(s \ {x}) = Cardinality(s) - 1
    BY FS_Subset, FS_CardinalityType, FS_RemoveElement
  <1>2. Sizes = {}
    <2> SUFFICES ASSUME Sizes # {} PROVE FALSE
      OBVIOUS
    <2>1. PICK n \in Sizes : \A m \in Sizes : n <= m
      BY LeastOfNumbers
    <2>2. PICK s \in SUBSET S : Cardinality(s) = n /\ g[s] \notin Int
      BY <2>1
    <2> DEFINE x == CHOOSE x \in s : TRUE
    <2>3. s # {} /\ g[s] = f[x] + g[s \ {x}]
      <3>1. g[s] = AddOne(f, g, s)
        OBVIOUS
      <3>2. s # {}
        BY <2>2, <3>1 DEF AddOne
      <3> QED  BY <3>1, <3>2 DEF AddOne
    <2>4. x \in s /\ x \in S
      BY <2>3
    <2> HIDE DEF x
    <2>5. Cardinality(s \ {x}) = n - 1 /\ n - 1 \in Nat /\ s \ {x} \in SUBSET S
      BY <1>1, <2>2, <2>4
    <2>6. g[s \ {x}] \in Int
      BY <2>1, <2>5
    <2> QED  BY <2>2, <2>3, <2>4, <2>6
  <1> QED  BY <1>1, <1>2

(* What an evaluation gained over its folds is a number.                   *)
LEMMA GainIsInt ==
  ASSUME NEW e \in Evidence \cup Stored
  PROVE  Gain(e) \in Int /\ IsFiniteSet(HeldOut(e)) /\ Cardinality(HeldOut(e)) \in Nat
  <1> DEFINE S == HeldOut(e)
             f == [i \in S |-> e.folds[i].gain]
             term(g, s) == IF s = {} THEN 0
                           ELSE e.folds[CHOOSE x \in s : TRUE].gain
                                  + g[s \ {CHOOSE x \in s : TRUE}]
             Solves(g) == g = [s \in SUBSET S |-> term(g, s)]
             iter == CHOOSE g : Solves(g)
  <1>1. e.folds \in Seq(Fold)
    BY RunsAssumption DEF Evaluation
  <1>2. S \subseteq 1..Len(e.folds) /\ Len(e.folds) \in Nat
    BY <1>1 DEF HeldOut
  <1>3. IsFiniteSet(S) /\ Cardinality(S) \in Nat
    <2> HIDE DEF S
    <2>1. IsFiniteSet(1..Len(e.folds))
      BY <1>2, FS_Interval
    <2> QED  BY <1>2, <2>1, FS_Subset, FS_CardinalityType
  <1>4. f \in [S -> Int]
    <2>1. \A i \in S : e.folds[i] \in Fold
      BY <1>1, <1>2
    <2> QED  BY <2>1 DEF Fold
  <1>5. Gain(e) = iter[S]
    BY DEF Gain, MapThenSumSet, MapThenFoldSet
  <1>6. \A g : \A s \in SUBSET S : AddOne(f, g, s) = term(g, s)
    <2>1. \A s \in SUBSET S : s # {} => (CHOOSE x \in s : TRUE) \in S
      <3> HIDE DEF S
      <3> QED  OBVIOUS
    <2>2. \A i \in S : f[i] = e.folds[i].gain
      OBVIOUS
    <2> HIDE DEF S, f
    <2> QED  BY <2>1, <2>2 DEF AddOne
  <1> HIDE DEF S, f, term
  <1>7. \E g : Solves(g)
    <2>1. PICK g \in [SUBSET S -> Int] : \A s \in SUBSET S : g[s] = AddOne(f, g, s)
      BY <1>3, <1>4, SumExists
    <2>2. \A s \in SUBSET S : g[s] = term(g, s)
      BY <1>6, <2>1
    <2>3. Solves(g)
      BY <2>2
    <2> HIDE DEF Solves
    <2> QED  BY <2>3
  <1>8. Solves(iter)
    <2> HIDE DEF Solves
    <2> QED  BY <1>7
  <1>9. \A s \in SUBSET S : iter[s] = term(iter, s)
    <2> HIDE DEF iter
    <2> QED  BY <1>8
  <1>10. iter[S] \in Int
    <2> HIDE DEF iter
    <2>1. \A s \in SUBSET S : iter[s] = AddOne(f, iter, s)
      BY <1>6, <1>9
    <2> QED  BY <1>3, <1>4, <2>1, SumTyped
  <1> QED  BY <1>3, <1>5, <1>10 DEF S

(* The gate opens for what is served, out of sample, and keeps its picks.  *)
LEMMA GateIsEarned ==
  ASSUME NEW e \in Evidence \cup Stored, PromotionGate(e)
  PROVE  Earned(e)
  <1>0. Gain(e) \in Int /\ Cardinality(HeldOut(e)) \in Nat
    BY GainIsInt
  <1>1. CASE e.kind = "loso" /\ HeldOut(e) # {}
    <2>1. /\ ~e.extended /\ \A i \in HeldOut(e) : e.folds[i].preserves
          /\ 2 * Gain(e) > Cardinality(HeldOut(e))
      BY <1>1 DEF PromotionGate, EarnsOverSlates
    <2>2. Gain(e) > 0
      BY <1>0, <2>1
    <2> QED  BY <1>1, <2>1, <2>2 DEF Earned
  <1>2. CASE ~(e.kind = "loso" /\ HeldOut(e) # {})
    <2>1. ~e.extended /\ 1 \in HeldOut(e) /\ e.folds[1].preserves /\ e.folds[1].gain > 0
      BY <1>2 DEF PromotionGate, EarnsOnNewest
    <2> QED  BY <1>2, <2>1 DEF Earned
  <1> QED  BY <1>1, <1>2

(* A runner that flushes a row whose evidence earned its name keeps it so. *)
LEMMA EarnedFlush ==
  ASSUME RowsTyped, EarnedInv, NEW r \in Requests, NEW doing, NEW name, NEW evidence, NEW forced,
         SaveNeural(r, doing, name, evidence, forced),
         name = "active" => forced \/ Earned(evidence)
  PROVE  EarnedInv'
  <1> DEFINE row == Neural(name, stamp + 1, evidence, forced)
  <1>1. row.name = name /\ row.forced = forced /\ row.evidence = evidence
    BY DEF Neural
  <1>2. runs' = runs /\ flushed' = [flushed EXCEPT ![r] = {row}]
    BY DEF SaveNeural
  <1> HIDE DEF row
  <1>3. \A run \in Written' : run \in Written \/ run = row
    BY <1>2 DEF RowsTyped, Written
  <1> QED  BY <1>1, <1>3 DEF EarnedInv

(* What is promoted earned it or was forced, what is rolled back to did so *)
(* when it was promoted, and nothing else writes an active row.            *)
LEMMA EarnedStep == RowsInv /\ RowsInv' /\ EarnedInv /\ [RunsNext]_vars => EarnedInv'
  <1> SUFFICES ASSUME RowsInv, RowsInv', EarnedInv, [RunsNext]_vars PROVE EarnedInv'
    OBVIOUS
  <1>0. RowsTyped /\ RowsTyped' /\ OrderInv /\ Scorers \subseteq Runners
    BY RunsAssumption DEF RowsInv
  <1>1. ASSUME \A run \in Written' : run \in Written \/ run.name = "production"
        PROVE  EarnedInv'
    BY <1>1 DEF EarnedInv
  <1>2. ASSUME UNCHANGED <<runs, flushed>> PROVE EarnedInv'
    BY <1>2 DEF EarnedInv, Written
  <1>3. ASSUME NEW r \in Requests, NEW evidence \in Evidence, TrainCandidate(r, evidence)
        PROVE  EarnedInv'
    BY <1>0, <1>3, EarnedFlush DEF TrainCandidate
  <1>4. ASSUME NEW r \in Requests, NEW force \in BOOLEAN, Promote(r, force)
        PROVE  EarnedInv'
    <2>1. PICK candidate \in Of("candidate") :
            /\ PromotionGate(candidate.evidence) \/ force
            /\ SaveNeural(r, "promote", "active", candidate.evidence, force)
      BY <1>4 DEF Promote
    <2>2. candidate \in NeuralRow
      BY <1>0, RowsByName DEF RowsTyped, Of
    <2>3. candidate.evidence \in Evidence \cup Stored
      BY <2>2 DEF NeuralRow
    <2>4. force \/ Earned(candidate.evidence)
      BY <2>1, <2>3, GateIsEarned
    <2> QED  BY <1>0, <2>1, <2>4, EarnedFlush
  <1>5. ASSUME NEW r \in Requests, Rollback(r) PROVE EarnedInv'
    <2>1. Previous \in Of("active")
      BY <1>0, <1>5, PreviousIsActive DEF Rollback
    <2>2. Previous.forced \/ Earned(Previous.evidence)
      BY <2>1 DEF EarnedInv, Written, Of
    <2> QED  BY <1>0, <1>5, <2>2, EarnedFlush DEF Rollback
  <1>6. ASSUME NEW r \in Runners, NEW sample \in Samples, SaveRun(r, sample)
        PROVE  EarnedInv'
    <2>1. /\ runs' = runs
          /\ \A q \in Runners : q # r => flushed'[q] = flushed[q]
          /\ \A run \in flushed'[r] : run.name = "production"
      BY <1>0, <1>6 DEF SaveRun, Production, RowsTyped
    <2> QED  BY <1>1, <2>1 DEF Written
  <1>7. ASSUME NEW r \in Runners, Commit(r) \/ Crash(r) PROVE EarnedInv'
    BY <1>0, <1>1, <1>7 DEF Commit, Crash, RowsTyped, Written
  <1>8. CASE Tick
    <2>1. \A run \in Written' : \E old \in Written : run = AgedRun(old)
      BY <1>8 DEF Tick, Written
    <2>2. ASSUME NEW old \in Written, AgedRun(old).name = "active"
          PROVE  AgedRun(old).forced \/ Earned(AgedRun(old).evidence)
      <3>1. old \in Row
        BY <1>0 DEF RowsTyped, Written
      <3>2. old.name = "active"
        BY <2>2, <3>1, AgedIsSame
      <3>3. old \in NeuralRow
        BY <3>1, <3>2, RowsByName
      <3>4. AgedRun(old).forced = old.forced /\ AgedRun(old).evidence = old.evidence
        BY <3>3, AgedIsSame
      <3> QED  BY <3>2, <3>4 DEF EarnedInv
    <2> QED  BY <2>1, <2>2 DEF EarnedInv
  <1>9. ASSUME \/ \E why \in {"schedule", "readiness", "request"}, r \in Runners : BeginTrain(r, why)
               \/ \E r \in Runners : Score(r) \/ ResetVerdict(r)
               \/ BeginBacktest
               \/ \E c \in Competitions, won \in BOOLEAN : Backtest(c, won)
               \/ TruncateVerdict \/ WriteVerdict
               \/ \E s \in Slates, grade \in Grades : Regrade(s, grade)
               \/ UNCHANGED vars
        PROVE  EarnedInv'
    <2>1. UNCHANGED <<runs, flushed>>
      BY <1>9 DEF BeginTrain, Score, ResetVerdict, BeginBacktest, Backtest, TruncateVerdict,
                  WriteVerdict, Regrade, vars
    <2> QED  BY <1>2, <2>1
  <1> QED  BY <1>0, <1>3, <1>4, <1>5, <1>6, <1>7, <1>8, <1>9 DEF RunsNext

(***************************************************************************)
(* Whatever threads promote and roll back at once, the neural shadow that  *)
(* is served beat the baseline on jornadas it was not trained on, without  *)
(* changing one of their picks, or an operator forced it.                  *)
(***************************************************************************)
THEOREM ShadowsAreEarned == RunsSpec => []ShadowIsEarned
  <1>1. RunsInit => EarnedInv
    <2> SUFFICES ASSUME RunsInit, NEW run \in Written PROVE run.name # "active"
      BY DEF EarnedInv
    <2> QED  BY DEF RunsInit, Written, Neural
  <1>2. EarnedInv => ShadowIsEarned
    BY DEF EarnedInv, Earned, ShadowIsEarned, Written, Of
  <1> QED  BY <1>1, <1>2, EarnedStep, RowsInvariant, PTL DEF RunsSpec

=============================================================================
