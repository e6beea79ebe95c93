---------------------------- MODULE MigrationsProofs ----------------------------
(***************************************************************************)
(* Theorems about Migrations, for any program of data steps, any releases  *)
(* and any number of processes, and about the tables of Fixtures.          *)
(***************************************************************************)
EXTENDS Migrations, FiniteSetTheorems, WellFoundedInduction, TLAPS

------------------------------------------------------------------------------
(* The upgrade.                                                            *)

Versions == {Program[i].version : i \in DOMAIN Program}

Process == [at : {"down", "migrating", "serving"}, code : Nat, seen : Nat]

\* Under the lock, what a process read of the version is still the version.
LockHeld ==
  /\ \A p, q \in Processes : process[p].at = "migrating" /\ process[q].at = "migrating" => p = q
  /\ \A p \in Processes : process[p].at = "migrating" => process[p].seen = version

\* A step that ran is of a version the tables have.
AppliedOnce ==
  \A v \in Versions : /\ applied[v] \in {0, 1}
                      /\ applied[v] = 1 => v <= version

UpgradeInv ==
  /\ version \in Nat /\ shipped \in 1..Len(Releases)
  /\ process \in [Processes -> Process]
  /\ DOMAIN applied = Versions
  /\ LockHeld /\ AppliedOnce
  /\ \A p \in Processes : process[p].at = "serving" => process[p].code <= version

upgradeVars == <<version, applied, shipped, process>>

(* Versions are numbers, and so are the releases.                          *)
LEMMA VersionsTyped ==
  /\ \A i \in DOMAIN Program : Program[i].version \in Nat
  /\ \A n \in 1..Len(Releases) : Releases[n] \in Nat \ {0}
  /\ Len(Releases) \in Nat \ {0}
  <1>1. \A i \in DOMAIN Program : Program[i].version \in Nat
    <2> DEFINE Step == [version : Nat, kind : {"mark", "consolidate"}]
                     \cup [version : Nat, kind : {"relink"}, comp : Competitions]
                     \cup [version : Nat, kind : {"correct"}, slot : Slots, comp : Competitions]
                     \cup [version : Nat, kind : {"alias", "merge", "fold"}, from : Spellings, into : Spellings]
                     \cup [version : Nat, kind : {"split"}, from : Spellings, comp : Competitions,
                           into : Spellings]
    <2>1. Program \in Seq(Step)
      BY MigrationsAssumption
    <2>2. \A x \in Step : x.version \in Nat
      OBVIOUS
    <2> HIDE DEF Step
    <2> QED  BY <2>1, <2>2
  <1> QED  BY <1>1, MigrationsAssumption

(* Nothing has run, whatever the tables are.                               *)
LEMMA UpgradeInit == Init => UpgradeInv
  BY VersionsTyped DEF Init, UpgradeInv, LockHeld, AppliedOnce, Versions, Process, Down

(* A process under the lock runs what is missing and nothing else.         *)
LEMMA MigrateKeepsUpgrade ==
  ASSUME UpgradeInv, NEW p \in Processes, Migrate(p)
  PROVE  UpgradeInv'
  <1> DEFINE code == process[p].code
             steps == Pending(code, version)
  <1>1. /\ process[p] \in Process /\ process[p].at = "migrating" /\ process[p].seen = version
        /\ code \in Nat
    BY DEF UpgradeInv, LockHeld, Process, Migrate
  <1>2. /\ version' = IF version < code THEN code ELSE version
        /\ applied' = [v \in Versions |->
                         IF \E i \in steps : Program[i].version = v THEN applied[v] + 1 ELSE applied[v]]
        /\ process' = [process EXCEPT ![p] = [at |-> "serving", code |-> code, seen |-> 0]]
        /\ shipped' = shipped
    BY <1>1 DEF Migrate, UpgradeInv
  <1>3. version' \in Nat /\ version <= version' /\ code <= version'
    BY <1>1, <1>2 DEF UpgradeInv
  <1>4. \A i \in steps : version < Program[i].version /\ Program[i].version <= code
    BY DEF Pending
  <1>5. AppliedOnce'
    <2> SUFFICES ASSUME NEW v \in Versions
                 PROVE  applied'[v] \in {0, 1} /\ (applied'[v] = 1 => v <= version')
      BY DEF AppliedOnce
    <2>1. v \in Nat /\ applied[v] \in {0, 1} /\ (applied[v] = 1 => v <= version)
      BY VersionsTyped DEF UpgradeInv, AppliedOnce, Versions
    <2>2. CASE \E i \in steps : Program[i].version = v
      <3>1. version < v /\ v <= code
        BY <1>4, <2>2
      <3>2. applied'[v] = applied[v] + 1 /\ applied[v] = 0
        <4> HIDE DEF steps
        <4>1. version \in Nat
          BY DEF UpgradeInv
        <4> QED  BY <1>2, <2>1, <2>2, <3>1, <4>1
      <3> HIDE DEF code
      <3> QED  BY <1>1, <1>3, <2>1, <3>1, <3>2
    <2>3. CASE ~\E i \in steps : Program[i].version = v
      <3>1. applied'[v] = applied[v]
        BY <1>2, <2>3
      <3>2. version \in Nat
        BY DEF UpgradeInv
      <3> QED  BY <1>3, <2>1, <3>1, <3>2
    <2> QED  BY <2>2, <2>3
  <1>6. process' \in [Processes -> Process]
    BY <1>1, <1>2 DEF UpgradeInv, Process
  <1>7. \A q \in Processes : process'[q].at # "migrating"
    BY <1>1, <1>2 DEF UpgradeInv, LockHeld
  <1>8. LockHeld'
    BY <1>7 DEF LockHeld
  <1>9. \A q \in Processes : process'[q].at = "serving" => process'[q].code <= version'
    <2> SUFFICES ASSUME NEW q \in Processes, process'[q].at = "serving"
                 PROVE  process'[q].code <= version'
      OBVIOUS
    <2>1. CASE q = p
      BY <1>2, <1>3, <2>1 DEF UpgradeInv
    <2>2. CASE q # p
      <3>1. process'[q] = process[q] /\ process[q].code \in Nat /\ process[q].code <= version
        BY <1>2, <2>2 DEF UpgradeInv, Process
      <3> QED  BY <1>3, <3>1 DEF UpgradeInv
    <2> QED  BY <2>1, <2>2
  <1> QED  BY <1>2, <1>3, <1>5, <1>6, <1>8, <1>9 DEF UpgradeInv, Versions

(* Every step of the system.                                               *)
LEMMA UpgradeStep == UpgradeInv /\ [Next]_vars => UpgradeInv'
  <1> SUFFICES ASSUME UpgradeInv, [Next]_vars PROVE UpgradeInv'
    OBVIOUS
  <1>1. CASE UNCHANGED upgradeVars
    BY <1>1 DEF UpgradeInv, LockHeld, AppliedOnce, upgradeVars
  <1>2. CASE Deploy
    <2>1. shipped' \in 1..Len(Releases)
      BY <1>2, VersionsTyped DEF Deploy, UpgradeInv
    <2> QED  BY <1>2, <2>1 DEF Deploy, UpgradeInv, LockHeld, AppliedOnce
  <1>3. ASSUME NEW p \in Processes, Stop(p) PROVE UpgradeInv'
    <2>1. Down \in Process /\ Down.at = "down"
      BY DEF Down, Process
    <2>2. process' = [process EXCEPT ![p] = Down] /\ UNCHANGED <<version, applied, shipped>>
      BY <1>3 DEF Stop
    <2> QED  BY <2>1, <2>2 DEF UpgradeInv, LockHeld, AppliedOnce
  <1>4. ASSUME NEW p \in Processes, Start(p) PROVE UpgradeInv'
    <2> DEFINE new == [at |-> "migrating", code |-> Releases[shipped], seen |-> version]
    <2>1. new \in Process
      BY VersionsTyped DEF Process, UpgradeInv
    <2>2. /\ process' = [process EXCEPT ![p] = new] /\ UNCHANGED <<version, applied, shipped>>
          /\ \A q \in Processes : process[q].at # "migrating"
      BY <1>4 DEF Start, Locked
    <2>3. new.at = "migrating" /\ new.seen = version
      OBVIOUS
    <2> HIDE DEF new
    <2> QED  BY <2>1, <2>2, <2>3 DEF UpgradeInv, LockHeld, AppliedOnce
  <1>5. ASSUME NEW p \in Processes, Migrate(p) PROVE UpgradeInv'
    BY <1>5, MigrateKeepsUpgrade
  <1>6. CASE Ingest \/ Operate \/ \E s \in DOMAIN Draws : PromoteSlate(s)
    <2>1. UNCHANGED upgradeVars
      BY <1>6 DEF Ingest, PersistRun, Operate, MergeDuplicate, RelinkSlate, RepointCompetitions,
                  PruneOrphan, Repair, PromoteSlate, upgradeVars
    <2> QED  BY <1>1, <2>1, SMTT(30)
  <1>7. CASE UNCHANGED vars
    <2>1. UNCHANGED upgradeVars
      BY <1>7 DEF vars, upgradeVars
    <2> QED  BY <1>1, <2>1
  <1> QED  BY <1>2, <1>3, <1>4, <1>5, <1>6, <1>7 DEF Next, Upgrade

(* The versions, the lock and what each process read.                      *)
THEOREM UpgradeInvariant == Spec => []UpgradeInv
  BY UpgradeInit, UpgradeStep, PTL DEF Spec

(***************************************************************************)
(* However many processes start, crash and start again on however many     *)
(* releases, run_migrations applies no data step twice to the same tables, *)
(* and no process serves tables older than its code.                       *)
(***************************************************************************)
THEOREM EachStepOnce == Spec => []MigratesOnce
  <1>1. UpgradeInv => MigratesOnce
    <2> SUFFICES ASSUME UpgradeInv PROVE MigratesOnce
      OBVIOUS
    <2>1. \A v \in DOMAIN applied : applied[v] <= 1
      BY DEF UpgradeInv, AppliedOnce
    <2> QED  BY <2>1 DEF UpgradeInv, MigratesOnce
  <1> QED  BY <1>1, UpgradeInvariant, PTL

------------------------------------------------------------------------------
(* Least members, and folds of what preserves a set.                       *)

(* Any numbers have a least one.                                           *)
LEMMA LeastOfNumbers ==
  ASSUME NEW T \in SUBSET Nat, T # {}
  PROVE  \E n \in T : \A m \in T : n <= m
  <1>1. PICK n \in T : \A m \in T : ~(<<m, n>> \in OpToRel(<, Nat))
    BY WFMin, NatLessThanWellFounded, Zenon
  <1>2. \A m \in T : ~(m < n)
    BY <1>1 DEF OpToRel
  <1> QED  BY <1>2

(* Anything that is counted has a member that counts least.                *)
LEMMA LeastByRank ==
  ASSUME NEW S, S # {}, NEW rank, \A x \in S : rank[x] \in Nat
  PROVE  \E x \in S : \A y \in S : rank[x] <= rank[y]
  <1> DEFINE T == {rank[x] : x \in S}
  <1>1. PICK n \in T : \A m \in T : n <= m
    <2>1. T \in SUBSET Nat /\ T # {}
      OBVIOUS
    <2> HIDE DEF T
    <2> QED  BY <2>1, LeastOfNumbers
  <1>2. PICK x \in S : n = rank[x]
    BY <1>1
  <1> QED  BY <1>1, <1>2

LEMMA FirstByIsMember ==
  ASSUME NEW S, S # {}, NEW rank, \A x \in S : rank[x] \in Nat
  PROVE  FirstBy(S, rank) \in S
  BY LeastByRank DEF FirstBy

\* The recursion of a fold: what pick leaves last is applied last.
Folds(D, F, base, pick, g) ==
  \A s \in SUBSET D :
    g[s] = IF s = {} THEN base ELSE F[pick[s]][g[s \ {pick[s]}]]

(* Some facts about the sizes of subsets of a finite set.                  *)
LEMMA Sizes ==
  ASSUME NEW D, IsFiniteSet(D), NEW s \in SUBSET D
  PROVE  /\ IsFiniteSet(s) /\ Cardinality(s) \in Nat /\ Cardinality(s) <= Cardinality(D)
         /\ Cardinality(s) = 0 <=> s = {}
         /\ \A x \in s : Cardinality(s \ {x}) = Cardinality(s) - 1
  <1>1. IsFiniteSet(s) /\ Cardinality(s) <= Cardinality(D)
    BY FS_Subset
  <1>2. Cardinality(s) \in Nat /\ (Cardinality(s) = 0 <=> s = {})
    BY <1>1, FS_CardinalityType, FS_EmptySet
  <1>3. \A x \in s : Cardinality(s \ {x}) = Cardinality(s) - 1
    BY <1>1, FS_RemoveElement
  <1> QED  BY <1>1, <1>2, <1>3

(* Of finitely many things that are measured one measures least.           *)
LEMMA LeastOfFinite ==
  ASSUME NEW S, IsFiniteSet(S), S # {}, NEW rank, \A x \in S : rank[x] \in Int
  PROVE  \E x \in S : \A y \in S : rank[x] <= rank[y]
  <1> DEFINE Least(s) == \E x \in s : \A y \in s : rank[x] <= rank[y]
             Bad == {k \in Nat : \E s \in SUBSET S : Cardinality(s) = k /\ s # {} /\ ~Least(s)}
  <1>1. Bad = {}
    <2> SUFFICES ASSUME Bad # {} PROVE FALSE
      OBVIOUS
    <2>1. PICK k \in Bad : \A m \in Bad : k <= m
      BY LeastOfNumbers
    <2>2. PICK s \in SUBSET S : Cardinality(s) = k /\ s # {} /\ ~Least(s)
      BY <2>1
    <2>3. PICK x \in s : TRUE
      BY <2>2
    <2>4. Cardinality(s \ {x}) = k - 1 /\ k - 1 \in Nat
      BY <2>2, <2>3, Sizes
    <2>5. s \ {x} = {} \/ Least(s \ {x})
      <3> HIDE DEF Least
      <3> QED  BY <2>1, <2>4
    <2>6. CASE s \ {x} = {}
      BY <2>2, <2>3, <2>6
    <2>7. CASE Least(s \ {x})
      <3>1. PICK z \in s \ {x} : \A y \in s \ {x} : rank[z] <= rank[y]
        BY <2>7
      <3>2. CASE rank[x] <= rank[z]
        <4>1. \A y \in s : rank[x] <= rank[y]
          BY <2>3, <3>1, <3>2
        <4> QED  BY <2>2, <2>3, <4>1
      <3>3. CASE ~(rank[x] <= rank[z])
        <4>1. \A y \in s : rank[z] <= rank[y]
          BY <2>3, <3>1, <3>3
        <4> QED  BY <2>2, <3>1, <4>1
      <3> QED  BY <3>2, <3>3
    <2> QED  BY <2>5, <2>6, <2>7
  <1> QED  BY <1>1, Sizes

(* A fold of functions on T has a solution in T, built one size at a time. *)
LEMMA FoldExists ==
  ASSUME NEW T, NEW D, IsFiniteSet(D), NEW base \in T, NEW F \in [D -> [T -> T]],
         NEW pick, \A s \in SUBSET D : s # {} => pick[s] \in s
  PROVE  \E g \in [SUBSET D -> T] : Folds(D, F, base, pick, g)
  <1> DEFINE Small(k) == {s \in SUBSET D : Cardinality(s) <= k}
             step(g, s) == IF s = {} THEN base ELSE F[pick[s]][g[s \ {pick[s]}]]
             Solved(k) == \E g \in [Small(k) -> T] : \A s \in Small(k) : g[s] = step(g, s)
             Unsolved == {k \in Nat : ~Solved(k)}
  <1>1. Solved(0)
    <2>1. \A s \in Small(0) : s = {}
      BY Sizes
    <2>2. [s \in Small(0) |-> base] \in [Small(0) -> T]
      OBVIOUS
    <2> QED  BY <2>1, <2>2
  <1>2. ASSUME NEW k \in Nat, Solved(k) PROVE Solved(k + 1)
    <2>1. PICK g \in [Small(k) -> T] : \A s \in Small(k) : g[s] = step(g, s)
      BY <1>2
    <2> DEFINE h == [s \in Small(k + 1) |-> step(g, s)]
    <2>2. \A s \in Small(k + 1) : s # {} => pick[s] \in D /\ s \ {pick[s]} \in Small(k)
      <3> SUFFICES ASSUME NEW s \in Small(k + 1), s # {}
                   PROVE  pick[s] \in D /\ s \ {pick[s]} \in Small(k)
        OBVIOUS
      <3>1. pick[s] \in s /\ Cardinality(s) <= k + 1 /\ s \in SUBSET D
        OBVIOUS
      <3>2. Cardinality(s \ {pick[s]}) = Cardinality(s) - 1 /\ Cardinality(s) \in Nat
        BY <3>1, Sizes
      <3> QED  BY <3>1, <3>2
    <2>3. \A s \in Small(k) : s \in Small(k + 1)
      BY Sizes
    <2>4. \A s \in Small(k) : h[s] = g[s]
      BY <2>1, <2>3
    <2>5. \A s \in Small(k + 1) : step(g, s) \in T /\ step(h, s) = step(g, s)
      <3> SUFFICES ASSUME NEW s \in Small(k + 1)
                   PROVE  step(g, s) \in T /\ step(h, s) = step(g, s)
        OBVIOUS
      <3>1. CASE s = {}
        BY <3>1
      <3>2. CASE s # {}
        <4> DEFINE rest == s \ {pick[s]}
        <4>1. pick[s] \in D /\ rest \in Small(k)
          BY <2>2, <3>2
        <4>2. g[rest] \in T /\ h[rest] = g[rest]
          <5> HIDE DEF rest, h, Small
          <5> QED  BY <2>4, <4>1
        <4>3. step(g, s) = F[pick[s]][g[rest]] /\ step(h, s) = F[pick[s]][h[rest]]
          BY <3>2, ZenonT(60)
        <4> HIDE DEF rest, h, step
        <4> QED  BY <4>1, <4>2, <4>3
      <3> QED  BY <3>1, <3>2
    <2>6. h \in [Small(k + 1) -> T]
      BY <2>5
    <2>7. \A s \in Small(k + 1) : h[s] = step(h, s)
      BY <2>5
    <2> HIDE DEF h, Small, step
    <2> QED  BY <2>6, <2>7
  <1>3. Unsolved = {}
    <2> HIDE DEF Solved
    <2> SUFFICES ASSUME Unsolved # {} PROVE FALSE
      OBVIOUS
    <2>1. PICK k \in Unsolved : \A m \in Unsolved : k <= m
      BY LeastOfNumbers
    <2>2. k \in Nat /\ ~Solved(k) /\ k # 0
      BY <1>1, <2>1
    <2>3. k - 1 \in Nat /\ k - 1 \notin Unsolved
      BY <2>1, <2>2
    <2>4. Solved(k - 1)
      BY <2>3
    <2>5. Solved((k - 1) + 1)
      BY <1>2, <2>3, <2>4
    <2> QED  BY <2>2, <2>5
  <1>4. Small(Cardinality(D)) = SUBSET D
    BY Sizes
  <1>5. Solved(Cardinality(D))
    <2> HIDE DEF Solved
    <2>1. Cardinality(D) \in Nat
      BY FS_CardinalityType
    <2> QED  BY <1>3, <2>1
  <1>6. PICK g \in [Small(Cardinality(D)) -> T] : \A s \in Small(Cardinality(D)) : g[s] = step(g, s)
    BY <1>5
  <1> HIDE DEF Small
  <1> QED  BY <1>4, <1>6 DEF Folds

(* Whatever solves the recursion of a fold stays in a set that contains    *)
(* the base and that no step leaves.                                       *)
LEMMA FoldStays ==
  ASSUME NEW T, NEW D, IsFiniteSet(D), NEW base \in T, NEW g,
         NEW pick, \A s \in SUBSET D : s # {} => pick[s] \in s,
         \A s \in SUBSET D :
           /\ s = {} => g[s] = base
           /\ s # {} /\ g[s \ {pick[s]}] \in T => g[s] \in T
  PROVE  g[D] \in T
  <1> DEFINE Bad == {k \in Nat : \E s \in SUBSET D : Cardinality(s) = k /\ g[s] \notin T}
  <1>1. Bad = {}
    <2> SUFFICES ASSUME Bad # {} PROVE FALSE
      OBVIOUS
    <2>1. PICK k \in Bad : \A m \in Bad : k <= m
      BY LeastOfNumbers
    <2>2. PICK s \in SUBSET D : Cardinality(s) = k /\ g[s] \notin T
      BY <2>1
    <2>3. s # {} /\ pick[s] \in s
      BY <2>2
    <2>4. Cardinality(s \ {pick[s]}) = k - 1 /\ k - 1 \in Nat /\ s \ {pick[s]} \in SUBSET D
      BY <2>2, <2>3, Sizes
    <2>5. g[s \ {pick[s]}] \in T
      BY <2>1, <2>4
    <2> QED  BY <2>2, <2>3, <2>5
  <1> QED  BY <1>1, Sizes

(* A nonempty set of positions has a last one.                             *)
LEMMA MaxIsMember ==
  ASSUME NEW n \in Nat, NEW s \in SUBSET (1..n), s # {}
  PROVE  Max(s) \in s
  <1> DEFINE behind == [i \in s |-> n - i]
  <1>1. \A i \in s : behind[i] \in Nat
    OBVIOUS
  <1>2. PICK x \in s : \A y \in s : behind[x] <= behind[y]
    <2> HIDE DEF behind
    <2> QED  BY <1>1, LeastByRank
  <1>3. \A y \in s : x >= y
    BY <1>2
  <1> QED  BY <1>3 DEF Max

------------------------------------------------------------------------------
(* What the tables are, and what a resolution of names does to them.       *)

Forms == {Normal[s] : s \in Spellings}

Shape(d) ==
  d = [teams |-> d.teams, marked |-> d.marked, renamed |-> d.renamed, alias |-> d.alias,
       matches |-> d.matches, results |-> d.results, links |-> d.links]

\* No alias answers with a row that was retired, and each retired spelling answers.
AliasesInUse(d) ==
  /\ \A n \in Forms : d.alias[n] \notin d.renamed
  /\ \A r \in d.renamed : Owner(d, r) # Nobody

\* The tables, where only the given slates are known to link no row twice.
Good(d, slates) ==
  /\ Shape(d) /\ TeamsOK(d) /\ AliasesInUse(d)
  /\ MatchesOK(d) /\ ResultsOK(d) /\ LinksOK(d, slates)

\* e has the teams of d and maybe more, and the names that answered still do.
Knows(e, d) ==
  /\ d.teams \subseteq e.teams
  /\ \A s \in Spellings : Owner(d, s) # Nobody => Owner(e, s) # Nobody

SameRows(e, d) == e.matches = d.matches /\ e.results = d.results /\ e.links = d.links

(* Rows that are not touched are as good under more teams.                 *)
LEMMA SameRowsGood ==
  ASSUME NEW S, NEW d, NEW e, Good(d, S), Shape(e), TeamsOK(e), AliasesInUse(e),
         d.teams \subseteq e.teams, SameRows(e, d)
  PROVE  Good(e, S)
  <1>1. MatchesOK(e)
    <2>1. MatchesOK(d) /\ Matches(e) = Matches(d) /\ e.matches = d.matches
      BY DEF Good, SameRows, Matches
    <2> QED  BY <2>1 DEF MatchesOK
  <1>2. ResultsOK(e) /\ LinksOK(e, S)
    BY DEF Good, SameRows, Matches, ResultsOK, LinksOK
  <1> QED  BY <1>1, <1>2 DEF Good

(* The resolver answers with a row in use; with none only for a name that  *)
(* is neither one nor an alias.                                            *)
LEMMA FindTeamInUse ==
  ASSUME NEW d, TeamsOK(d), AliasesInUse(d), NEW s \in Spellings
  PROVE  /\ FindTeam(d, s) \in (d.teams \ d.renamed) \cup {Nobody}
         /\ Owner(d, s) # Nobody => FindTeam(d, s) # Nobody
         /\ s \in d.teams => FindTeam(d, s) # Nobody
  <1> DEFINE named == (d.teams \ d.renamed) \cap {s}
             found == named \cup ({Owner(d, s)} \ {Nobody})
             real == found \ d.marked
             best == IF real = {} THEN found ELSE real
  <1>1. FindTeam(d, s) = IF best = {} THEN Nobody
                         ELSE IF Owner(d, s) \in best THEN Owner(d, s) ELSE s
    BY DEF FindTeam
  <1>2. Nobody \notin Spellings /\ s # Nobody
    BY FixturesAssumption
  <1>3. Owner(d, s) \in (d.teams \ d.renamed) \cup {Nobody}
    BY DEF Owner, TeamsOK, AliasesInUse, Forms
  <1>4. best \subseteq found /\ (best = {} <=> found = {})
    OBVIOUS
  <1>5. Owner(d, s) \notin best /\ best # {} => s \in d.teams \ d.renamed
    BY <1>4
  <1>6. s \in d.teams => s \in named \/ Owner(d, s) # Nobody
    BY DEF AliasesInUse
  <1>7. s \in d.teams \/ Owner(d, s) # Nobody => best # {}
    BY <1>4, <1>6
  <1>8. d.teams \subseteq Spellings
    BY DEF TeamsOK
  <1>9. FindTeam(d, s) \in (d.teams \ d.renamed) \cup {Nobody}
    <2> HIDE DEF best
    <2> QED  BY <1>1, <1>3, <1>5
  <1>10. best # {} => FindTeam(d, s) # Nobody
    <2>1. Owner(d, s) \in best => Owner(d, s) # Nobody
      BY <1>2, <1>4
    <2> HIDE DEF best
    <2> QED  BY <1>1, <1>2, <2>1
  <1> QED  BY <1>7, <1>9, <1>10

(* A resolution adds the row if need be, and leaves the name answered.     *)
LEMMA ResolveTeamKeeps ==
  ASSUME NEW S, NEW d, Good(d, S), NEW s \in Spellings, NEW placeholder \in BOOLEAN
  PROVE  LET e == ResolveTeam(d, s, placeholder)
         IN Good(e, S) /\ Knows(e, d) /\ SameRows(e, d) /\ Owner(e, s) # Nobody
  <1> DEFINE e == ResolveTeam(d, s, placeholder)
             found == FindTeam(d, s)
             row == IF found = Nobody THEN s ELSE found
             marks == IF ~placeholder THEN d.marked \ {row}
                      ELSE IF found = Nobody THEN d.marked \cup {row} ELSE d.marked
             owner == IF d.alias[Normal[s]] = Nobody THEN row ELSE d.alias[Normal[s]]
             aliases == [d.alias EXCEPT ![Normal[s]] = owner]
  <1>1. TeamsOK(d) /\ AliasesInUse(d) /\ Shape(d)
    BY DEF Good
  <1>2. e = [teams |-> d.teams \cup {row}, marked |-> marks, renamed |-> d.renamed,
             alias |-> aliases, matches |-> d.matches, results |-> d.results, links |-> d.links]
    <2>1. e = [d EXCEPT !.teams = d.teams \cup {row}, !.marked = marks, !.alias = aliases]
      BY DEF ResolveTeam
    <2> HIDE DEF e, row, marks, aliases
    <2> QED  BY <1>1, <2>1 DEF Shape
  <1>3. row \in Spellings /\ row # Nobody /\ row \notin d.renamed
    <2>1. CASE found = Nobody
      <3>1. s \notin d.renamed
        BY <1>1, <2>1, FindTeamInUse DEF TeamsOK
      <3> QED  BY <2>1, <3>1, FixturesAssumption
    <2>2. CASE found # Nobody
      BY <1>1, <2>2, FindTeamInUse DEF TeamsOK
    <2> QED  BY <2>1, <2>2
  <1>4. marks \subseteq d.teams \cup {row}
    BY <1>1 DEF TeamsOK
  <1>5. Normal[s] \in Forms /\ d.alias \in [Forms -> d.teams \cup {Nobody}]
    BY <1>1 DEF TeamsOK, Forms
  <1>6. /\ owner \in d.teams \cup {row} /\ owner # Nobody /\ owner \notin d.renamed
        /\ aliases \in [Forms -> (d.teams \cup {row}) \cup {Nobody}]
        /\ \A n \in Forms : aliases[n] = IF n = Normal[s] THEN owner ELSE d.alias[n]
    <2>1. owner \in d.teams \cup {row} /\ owner # Nobody /\ owner \notin d.renamed
      BY <1>1, <1>3, <1>5 DEF AliasesInUse, Forms
    <2> HIDE DEF owner, row, Forms
    <2> QED  BY <1>5, <2>1
  <1> HIDE DEF e, row, marks, owner, aliases
  <1>7. TeamsOK(e)
    BY <1>1, <1>2, <1>3, <1>4, <1>6 DEF TeamsOK, Forms
  <1>8. AliasesInUse(e)
    <2>1. \A r \in d.renamed : Normal[r] \in Forms /\ d.alias[Normal[r]] # Nobody
      BY <1>1 DEF TeamsOK, AliasesInUse, Owner, Forms
    <2>2. \A n \in Forms : d.alias[n] \notin d.renamed
      BY <1>1 DEF AliasesInUse
    <2>3. e.renamed = d.renamed /\ e.alias = aliases
      BY <1>2
    <2> QED  BY <1>6, <2>1, <2>2, <2>3 DEF AliasesInUse, Owner
  <1>9. Knows(e, d) /\ SameRows(e, d) /\ Owner(e, s) # Nobody
    BY <1>2, <1>5, <1>6 DEF Knows, SameRows, Owner, Forms
  <1>10. Shape(e)
    BY <1>2 DEF Shape
  <1>11. d.teams \subseteq e.teams
    BY <1>2
  <1>12. Good(e, S)
    BY <1>7, <1>8, <1>9, <1>10, <1>11, SameRowsGood
  <1> QED  BY <1>9, <1>12 DEF e

LEMMA ResolveBothKeeps ==
  ASSUME NEW S, NEW d, Good(d, S), NEW home \in Spellings, NEW away \in Spellings,
         NEW placeholder \in BOOLEAN
  PROVE  LET e == ResolveBoth(d, home, away, placeholder)
         IN /\ Good(e, S) /\ d.teams \subseteq e.teams /\ SameRows(e, d)
            /\ FindTeam(e, home) \in e.teams /\ FindTeam(e, away) \in e.teams
  <1> DEFINE first == ResolveTeam(d, home, placeholder)
             e == ResolveTeam(first, away, placeholder)
  <1>1. Good(first, S) /\ Knows(first, d) /\ SameRows(first, d) /\ Owner(first, home) # Nobody
    BY ResolveTeamKeeps
  <1> HIDE DEF first
  <1>2. Good(e, S) /\ Knows(e, first) /\ SameRows(e, first) /\ Owner(e, away) # Nobody
    BY <1>1, ResolveTeamKeeps
  <1> HIDE DEF e
  <1>3. Owner(e, home) # Nobody /\ d.teams \subseteq e.teams /\ SameRows(e, d)
    BY <1>1, <1>2 DEF Knows, SameRows
  <1>4. FindTeam(e, home) \in e.teams /\ FindTeam(e, away) \in e.teams
    BY <1>2, <1>3, FindTeamInUse DEF Good
  <1> QED  BY <1>2, <1>3, <1>4 DEF ResolveBoth, first, e

------------------------------------------------------------------------------
(* Rows that are found, added and given results.                           *)

(* A column that is written leaves the others as they are.                 *)
LEMMA WriteMatches ==
  ASSUME NEW d, Shape(d), NEW x
  PROVE  LET e == [d EXCEPT !.matches = x]
         IN /\ Shape(e) /\ e.matches = x /\ e.results = d.results /\ e.links = d.links
            /\ e.teams = d.teams /\ e.marked = d.marked /\ e.renamed = d.renamed /\ e.alias = d.alias
  BY DEF Shape

LEMMA WriteResults ==
  ASSUME NEW d, Shape(d), NEW x
  PROVE  LET e == [d EXCEPT !.results = x]
         IN /\ Shape(e) /\ e.matches = d.matches /\ e.results = x /\ e.links = d.links
            /\ e.teams = d.teams /\ e.marked = d.marked /\ e.renamed = d.renamed /\ e.alias = d.alias
  BY DEF Shape

LEMMA WriteLinks ==
  ASSUME NEW d, Shape(d), NEW x
  PROVE  LET e == [d EXCEPT !.links = x]
         IN /\ Shape(e) /\ e.matches = d.matches /\ e.results = d.results /\ e.links = x
            /\ e.teams = d.teams /\ e.marked = d.marked /\ e.renamed = d.renamed /\ e.alias = d.alias
  BY DEF Shape

(* Teams depend on their own columns.                                      *)
LEMMA SameTeams ==
  ASSUME NEW d, NEW e, TeamsOK(d), AliasesInUse(d),
         e.teams = d.teams, e.marked = d.marked, e.renamed = d.renamed, e.alias = d.alias
  PROVE  TeamsOK(e) /\ AliasesInUse(e)
  BY DEF TeamsOK, AliasesInUse, Owner

(* Other rows of matches, with at least the same names.                    *)
LEMMA MatchesGood ==
  ASSUME NEW S, NEW d, Good(d, S), NEW rows, MatchesOK([d EXCEPT !.matches = rows]),
         Matches(d) \subseteq DOMAIN rows
  PROVE  Good([d EXCEPT !.matches = rows], S)
  <1> DEFINE e == [d EXCEPT !.matches = rows]
  <1>1. /\ Shape(e) /\ e.matches = rows /\ e.results = d.results /\ e.links = d.links
        /\ e.teams = d.teams /\ e.marked = d.marked /\ e.renamed = d.renamed /\ e.alias = d.alias
    <2>1. Shape(d)
      BY DEF Good
    <2> QED  BY <2>1, WriteMatches
  <1> HIDE DEF e
  <1>2. TeamsOK(e) /\ AliasesInUse(e)
    BY <1>1, SameTeams DEF Good
  <1>3. Matches(d) \subseteq Matches(e)
    BY <1>1 DEF Matches
  <1>4. ResultsOK(e) /\ LinksOK(e, S)
    BY <1>1, <1>3 DEF Good, ResultsOK, LinksOK
  <1>5. MatchesOK(e)
    BY DEF e
  <1> QED  BY <1>1, <1>2, <1>4, <1>5 DEF Good, e

(* There is an unused number among the first, one more than the rows.      *)
LEMMA NewIdIsNew ==
  ASSUME NEW d, MatchesOK(d)
  PROVE  NewId(d) \in Nat \ {0} /\ NewId(d) \notin Matches(d)
  <1> DEFINE n == Cardinality(Matches(d))
  <1>1. n \in Nat /\ IsFiniteSet(Matches(d))
    BY FS_CardinalityType DEF MatchesOK
  <1>2. Cardinality(1..(n + 1)) = n + 1
    BY <1>1, FS_Interval
  <1>3. ~(1..(n + 1) \subseteq Matches(d))
    <2> SUFFICES ASSUME 1..(n + 1) \subseteq Matches(d) PROVE FALSE
      OBVIOUS
    <2>1. Cardinality(1..(n + 1)) <= n
      BY <1>1, FS_Subset
    <2> HIDE DEF n
    <2> QED  BY <1>1, <1>2, <2>1
  <1>4. \E i \in 1..(n + 1) : i \notin Matches(d)
    BY <1>3
  <1>5. NewId(d) \in 1..(n + 1) /\ NewId(d) \notin Matches(d)
    BY <1>4 DEF NewId
  <1> QED  BY <1>1, <1>5

(* A row with an identity of its own is added under a new number.          *)
LEMMA InsertKeeps ==
  ASSUME NEW S, NEW d, Good(d, S), NEW m \in MatchRow, {m.home, m.away} \subseteq d.teams,
         WithIdentity(d, m) = {}
  PROVE  LET e == Insert(d, m)
         IN /\ Good(e, S) /\ NewId(d) \in Matches(e) /\ NewId(d) # 0 /\ Matches(d) \subseteq Matches(e)
            /\ NewId(d) \notin Matches(d)
            /\ e.links = d.links
  <1> DEFINE id == NewId(d)
             rows == [i \in Matches(d) \cup {id} |-> IF i \in Matches(d) THEN d.matches[i] ELSE m]
             e == [d EXCEPT !.matches = rows]
  <1>1. Insert(d, m) = e
    BY DEF Insert
  <1>2. id \in Nat \ {0} /\ id \notin Matches(d)
    BY NewIdIsNew DEF Good
  <1>3. e.matches = rows /\ e.teams = d.teams /\ e.links = d.links
    <2>1. Shape(d)
      BY DEF Good
    <2> HIDE DEF rows
    <2> QED  BY <2>1, WriteMatches
  <1>4. MatchesOK(d)
    BY DEF Good
  <1> HIDE DEF e, id
  <1>5. Matches(e) = Matches(d) \cup {id}
    BY <1>3 DEF Matches
  <1>6. MatchesOK(e)
    <2>1. IsFiniteSet(Matches(e)) /\ Matches(e) \subseteq Nat \ {0}
      BY <1>2, <1>4, <1>5, FS_AddElement DEF MatchesOK
    <2>2. rows \in [Matches(e) -> MatchRow]
      BY <1>4, <1>5 DEF MatchesOK
    <2>3. \A i \in Matches(e) : {rows[i].home, rows[i].away} \subseteq d.teams
      BY <1>4, <1>5 DEF MatchesOK
    <2>4. \A i \in Matches(d) : ~SameIdentity(d.matches[i], m)
      BY DEF WithIdentity
    <2>5. \A i \in Matches(d) : ~SameIdentity(m, d.matches[i])
      BY <2>4 DEF SameIdentity, SameFixture
    <2>6. ASSUME NEW i \in Matches(e), NEW j \in Matches(e), SameIdentity(rows[i], rows[j])
          PROVE  i = j
      <3>1. CASE i \in Matches(d) /\ j \in Matches(d)
        BY <1>4, <1>5, <2>6, <3>1 DEF MatchesOK
      <3>2. CASE i = id /\ j \in Matches(d)
        BY <1>2, <1>5, <2>5, <2>6, <3>2
      <3>3. CASE i \in Matches(d) /\ j = id
        BY <1>2, <1>5, <2>4, <2>6, <3>3
      <3> QED  BY <1>5, <3>1, <3>2, <3>3
    <2> HIDE DEF rows
    <2> QED  BY <1>3, <2>1, <2>2, <2>3, <2>6 DEF MatchesOK
  <1>7. Good(e, S)
    <2>1. Matches(d) \subseteq DOMAIN rows
      OBVIOUS
    <2> HIDE DEF rows
    <2> QED  BY <1>6, <2>1, MatchesGood DEF e
  <1> QED  BY <1>1, <1>2, <1>3, <1>5, <1>7 DEF id

(* The nearest row is one of the rows, if there is any.                    *)
LEMMA NearestIsRow ==
  ASSUME NEW d, MatchesOK(d), NEW m \in MatchRow, NEW within, NEW rows \in SUBSET Matches(d)
  PROVE  Nearest(d, m, within, rows) \in rows \cup {0}
  <1> DEFINE close == {i \in rows : SameFixture(d.matches[i], m)
                                     /\ Distance(d.matches[i].day, m.day) <= within}
             apart == [i \in close |-> Distance(d.matches[i].day, m.day)]
             nearest == {i \in close : \A j \in close : apart[i] <= apart[j]}
             days == [i \in nearest |-> d.matches[i].day]
  <1>1. \A i \in rows : d.matches[i].day \in Nat
    BY DEF MatchesOK, MatchRow
  <1>2. m.day \in Nat
    BY DEF MatchRow
  <1>3. \A i \in close : apart[i] \in Nat
    BY <1>1, <1>2 DEF Distance
  <1>4. Nearest(d, m, within, rows) = IF close = {} THEN 0 ELSE FirstBy(nearest, days)
    BY DEF Nearest
  <1>5. CASE close # {}
    <2>1. \E i \in close : \A j \in close : apart[i] <= apart[j]
      <3> HIDE DEF close, apart
      <3> QED  BY <1>3, <1>5, LeastByRank
    <2>2. nearest # {} /\ nearest \subseteq rows
      BY <2>1
    <2>3. \A i \in nearest : days[i] \in Nat
      BY <1>1
    <2> HIDE DEF nearest, days
    <2>4. FirstBy(nearest, days) \in nearest
      BY <2>2, <2>3, FirstByIsMember
    <2> QED  BY <1>4, <1>5, <2>2, <2>4
  <1> QED  BY <1>4, <1>5

LEMMA IdentityIsRow ==
  ASSUME NEW d, MatchesOK(d), NEW m
  PROVE  /\ FindByIdentity(d, m) \in Matches(d) \cup {0}
         /\ FindByIdentity(d, m) = 0 => WithIdentity(d, m) = {}
         /\ FindByIdentity(d, m) # 0 => FindByIdentity(d, m) \in WithIdentity(d, m)
  BY DEF FindByIdentity, WithIdentity, MatchesOK

(* A report replaces the row of its source and time.                       *)
LEMMA SaveResultKeeps ==
  ASSUME NEW S, NEW d, Good(d, S), NEW i \in Matches(d), NEW report \in Reports
  PROVE  Good(SaveResult(d, i, report), S)
  <1> DEFINE row == [match |-> i, source |-> report.source, day |-> report.day,
                     goals |-> report.goals, game |-> report.game]
             kept == {r \in d.results : r.match # i \/ r.source # report.source \/ r.day # report.day}
             e == [d EXCEPT !.results = kept \cup {row}]
  <1>1. SaveResult(d, i, report) = e
    BY DEF SaveResult
  <1>2. /\ Shape(e) /\ e.matches = d.matches /\ e.results = kept \cup {row} /\ e.links = d.links
        /\ e.teams = d.teams /\ e.marked = d.marked /\ e.renamed = d.renamed /\ e.alias = d.alias
    <2>1. Shape(d)
      BY DEF Good
    <2> HIDE DEF row, kept
    <2> QED  BY <2>1, WriteResults
  <1> HIDE DEF e
  <1>3. row \in ResultRow
    <2>1. i \in Nat
      BY DEF Good, MatchesOK
    <2>2. /\ report.source \in Nat /\ report.day \in Nat /\ report.game \in Nat
          /\ report.goals \in Nat \X Nat
      BY FixturesAssumption
    <2> QED  BY <2>1, <2>2 DEF ResultRow
  <1>4. ResultsOK(d)
    BY DEF Good
  <1>5. ResultsOK(e)
    <2>1. IsFiniteSet(kept \cup {row})
      <3>1. IsFiniteSet(kept)
        BY <1>4, FS_Subset DEF ResultsOK
      <3> HIDE DEF kept, row
      <3> QED  BY <3>1, FS_AddElement
    <2>2. kept \cup {row} \subseteq ResultRow
      BY <1>3, <1>4 DEF ResultsOK
    <2>3. {x.match : x \in kept \cup {row}} \subseteq Matches(e)
      BY <1>2, <1>4 DEF ResultsOK, Matches
    <2>4. \A x, y \in kept \cup {row} :
            x.match = y.match /\ x.source = y.source /\ x.day = y.day => x = y
      <3>1. \A x, y \in kept : x.match = y.match /\ x.source = y.source /\ x.day = y.day => x = y
        BY <1>4 DEF ResultsOK
      <3>2. \A x \in kept : ~(x.match = row.match /\ x.source = row.source /\ x.day = row.day)
        OBVIOUS
      <3> HIDE DEF kept, row
      <3> QED  BY <3>1, <3>2
    <2> HIDE DEF kept, row
    <2> QED  BY <1>2, <2>1, <2>2, <2>3, <2>4 DEF ResultsOK
  <1>6. TeamsOK(e) /\ AliasesInUse(e)
    BY <1>2, SameTeams DEF Good
  <1>7. MatchesOK(e) /\ LinksOK(e, S)
    <2>1. MatchesOK(d) /\ LinksOK(d, S) /\ Matches(e) = Matches(d)
      BY <1>2 DEF Good, Matches
    <2> QED  BY <1>2, <2>1 DEF MatchesOK, LinksOK
  <1> QED  BY <1>1, <1>2, <1>5, <1>6, <1>7 DEF Good

(* Whatever the tolerance, an ingested result leaves good tables.          *)
LEMMA IngestKeeps ==
  ASSUME NEW S, NEW d, Good(d, S), NEW report \in Reports, NEW within
  PROVE  Good(IngestResult(d, report, within), S)
  <1> DEFINE known == ResolveBoth(d, report.home, report.away, FALSE)
             home == FindTeam(known, report.home)
             away == FindTeam(known, report.away)
             m == [comp |-> report.comp, home |-> home, away |-> away,
                   day |-> report.day, marked |-> FALSE]
             exact == FindByIdentity(known, m)
             near == FindNearbyForResult(known, m, within)
  <1>1. report.home \in Spellings /\ report.away \in Spellings
        /\ report.comp \in Competitions /\ report.day \in Nat
    BY FixturesAssumption
  <1>2. Good(known, S) /\ home \in known.teams /\ away \in known.teams
    BY <1>1, ResolveBothKeeps
  <1>3. MatchesOK(known) /\ known.teams \subseteq Spellings
    BY <1>2 DEF Good, TeamsOK
  <1> HIDE DEF known
  <1>4. m \in MatchRow /\ m.home = home /\ m.away = away
    BY <1>1, <1>2, <1>3 DEF MatchRow
  <1>5. IngestResult(d, report, within) =
          IF exact # 0 THEN SaveResult(known, exact, report)
          ELSE IF near # 0 THEN SaveResult(known, near, report)
          ELSE SaveResult(Insert(known, m), NewId(known), report)
    BY DEF IngestResult, known
  <1> HIDE DEF m
  <1>6. exact \in Matches(known) \cup {0} /\ (exact = 0 => WithIdentity(known, m) = {})
    BY <1>3, IdentityIsRow
  <1>7. near \in Matches(known) \cup {0}
    BY <1>3, <1>4, NearestIsRow DEF FindNearbyForResult
  <1> HIDE DEF exact, near, home, away
  <1>8. exact # 0 => Good(SaveResult(known, exact, report), S)
    BY <1>2, <1>6, SaveResultKeeps
  <1>9. near # 0 => Good(SaveResult(known, near, report), S)
    BY <1>2, <1>7, SaveResultKeeps
  <1>10. exact = 0 => Good(SaveResult(Insert(known, m), NewId(known), report), S)
    <2> SUFFICES ASSUME exact = 0 PROVE Good(SaveResult(Insert(known, m), NewId(known), report), S)
      OBVIOUS
    <2>1. Good(Insert(known, m), S) /\ NewId(known) \in Matches(Insert(known, m))
      BY <1>2, <1>4, <1>6, InsertKeeps
    <2> QED  BY <2>1, SaveResultKeeps
  <1> QED  BY <1>5, <1>8, <1>9, <1>10

------------------------------------------------------------------------------
(* The data steps.                                                         *)

\* Only the rows of matches may differ, and they are as many.
SameBut(e, d) ==
  /\ e.teams = d.teams /\ e.marked = d.marked /\ e.renamed = d.renamed /\ e.alias = d.alias
  /\ e.results = d.results /\ e.links = d.links /\ Matches(e) = Matches(d)

(* Rewritten rows with identities of their own.                            *)
LEMMA RewriteKeeps ==
  ASSUME NEW S, NEW d, Good(d, S), NEW rows \in [Matches(d) -> MatchRow],
         \A i \in Matches(d) : {rows[i].home, rows[i].away} \subseteq d.teams,
         \A i, j \in Matches(d) : SameIdentity(rows[i], rows[j]) => i = j
  PROVE  LET e == [d EXCEPT !.matches = rows]
         IN Good(e, S) /\ SameBut(e, d) /\ e.matches = rows
  <1> DEFINE e == [d EXCEPT !.matches = rows]
  <1>1. Shape(d) /\ MatchesOK(d)
    BY DEF Good
  <1>2. /\ e.matches = rows /\ e.teams = d.teams /\ e.marked = d.marked /\ e.renamed = d.renamed
        /\ e.alias = d.alias /\ e.results = d.results /\ e.links = d.links
    BY <1>1, WriteMatches
  <1> HIDE DEF e
  <1>3. Matches(e) = Matches(d)
    BY <1>2 DEF Matches
  <1>4. MatchesOK(e)
    BY <1>1, <1>2, <1>3 DEF MatchesOK
  <1>5. Good(e, S)
    BY <1>4, MatchesGood DEF e
  <1> QED  BY <1>2, <1>3, <1>5 DEF e, SameBut

\* What Moved makes of the rows, when a row i of I would become f[i].
MovedTo(d, I, f) ==
  [i \in Matches(d) |->
     IF i \in I /\ ~\E j \in Matches(d) \ {i} : SameIdentity(d.matches[j], f[i])
     THEN f[i] ELSE d.matches[i]]

(* Rows that move apart from each other and from those that stay.          *)
LEMMA MovedKeeps ==
  ASSUME NEW S, NEW d, Good(d, S), NEW I, NEW f \in [Matches(d) -> MatchRow],
         \A i \in Matches(d) : {f[i].home, f[i].away} \subseteq d.teams,
         \A i, j \in Matches(d) \cap I :
           SameIdentity(f[i], f[j]) => SameIdentity(d.matches[i], d.matches[j])
  PROVE  LET e == [d EXCEPT !.matches = MovedTo(d, I, f)]
         IN Good(e, S) /\ SameBut(e, d) /\ e.matches = MovedTo(d, I, f)
  <1> DEFINE rows == MovedTo(d, I, f)
             Stays(i) == rows[i] = d.matches[i]
             Moves(i) == /\ i \in I /\ rows[i] = f[i]
                         /\ \A j \in Matches(d) \ {i} : ~SameIdentity(d.matches[j], f[i])
  <1>1. MatchesOK(d)
    BY DEF Good
  <1>2. \A i \in Matches(d) : Stays(i) \/ Moves(i)
    BY DEF MovedTo
  <1>3. rows \in [Matches(d) -> MatchRow]
    BY <1>1 DEF MovedTo, MatchesOK
  <1> HIDE DEF rows
  <1>4. \A i \in Matches(d) : {rows[i].home, rows[i].away} \subseteq d.teams
    BY <1>1, <1>2 DEF MatchesOK
  <1>5. \A x, y : SameIdentity(x, y) => SameIdentity(y, x)
    BY DEF SameIdentity, SameFixture
  <1>6. ASSUME NEW i \in Matches(d), NEW j \in Matches(d), SameIdentity(rows[i], rows[j])
        PROVE  i = j
    <2>1. CASE Moves(i) /\ Moves(j)
      BY <1>1, <1>6, <2>1 DEF MatchesOK
    <2>2. CASE Moves(i) /\ Stays(j)
      BY <1>5, <1>6, <2>2
    <2>3. CASE Stays(i) /\ Moves(j)
      BY <1>6, <2>3
    <2>4. CASE Stays(i) /\ Stays(j)
      BY <1>1, <1>6, <2>4 DEF MatchesOK
    <2> QED  BY <1>2, <2>1, <2>2, <2>3, <2>4
  <1> QED  BY <1>3, <1>4, <1>6, RewriteKeeps DEF rows

MoveHome(d, I, into) == Moved(d, I, LAMBDA m : [m EXCEPT !.home = into])

MoveAway(d, I, into) == Moved(d, I, LAMBDA m : [m EXCEPT !.away = into])

MoveComp(d, I, comp) == Moved(d, I, LAMBDA m : [m EXCEPT !.comp = comp])

(* Some rows of one home team go to another team; the visitors stay.       *)
LEMMA MoveHomeKeeps ==
  ASSUME NEW S, NEW d, Good(d, S), NEW from, NEW into \in d.teams, NEW I,
         \A i \in Matches(d) \cap I : d.matches[i].home = from
  PROVE  LET e == MoveHome(d, I, into)
         IN /\ Good(e, S) /\ SameBut(e, d)
            /\ \A i \in Matches(d) : e.matches[i].away = d.matches[i].away
  <1> DEFINE f == [i \in Matches(d) |-> [d.matches[i] EXCEPT !.home = into]]
             e == [d EXCEPT !.matches = MovedTo(d, I, f)]
  <1>1. MatchesOK(d) /\ into \in Spellings
    BY DEF Good, TeamsOK
  <1>2. \A i \in Matches(d) : /\ d.matches[i] \in MatchRow
                              /\ {d.matches[i].home, d.matches[i].away} \subseteq d.teams
    BY <1>1 DEF MatchesOK
  <1>3. \A i \in Matches(d) : /\ f[i] \in MatchRow /\ f[i].home = into
                              /\ f[i].comp = d.matches[i].comp /\ f[i].away = d.matches[i].away
                              /\ f[i].day = d.matches[i].day
    BY <1>1, <1>2 DEF MatchRow
  <1>4. MoveHome(d, I, into) = e
    <2>1. [i \in Matches(d) |->
             IF i \in I /\ ~\E j \in Matches(d) \ {i} :
                              SameIdentity(d.matches[j], [d.matches[i] EXCEPT !.home = into])
             THEN [d.matches[i] EXCEPT !.home = into] ELSE d.matches[i]] = MovedTo(d, I, f)
      BY DEF MovedTo
    <2> HIDE DEF f
    <2> QED  BY <2>1 DEF Moved, MoveHome
  <1>5. f \in [Matches(d) -> MatchRow]
    BY <1>3
  <1> HIDE DEF f
  <1>6. \A i, j \in Matches(d) \cap I :
          SameIdentity(f[i], f[j]) => SameIdentity(d.matches[i], d.matches[j])
    BY <1>3 DEF SameIdentity, SameFixture
  <1>7. \A i \in Matches(d) : {f[i].home, f[i].away} \subseteq d.teams
    BY <1>2, <1>3
  <1>8. Good(e, S) /\ SameBut(e, d) /\ e.matches = MovedTo(d, I, f)
    BY <1>5, <1>6, <1>7, MovedKeeps
  <1> HIDE DEF e
  <1>9. \A i \in Matches(d) : e.matches[i].away = d.matches[i].away
    BY <1>3, <1>8 DEF MovedTo
  <1> QED  BY <1>4, <1>8, <1>9

LEMMA MoveAwayKeeps ==
  ASSUME NEW S, NEW d, Good(d, S), NEW from, NEW into \in d.teams, NEW I,
         \A i \in Matches(d) \cap I : d.matches[i].away = from
  PROVE  LET e == MoveAway(d, I, into)
         IN Good(e, S) /\ SameBut(e, d)
  <1> DEFINE f == [i \in Matches(d) |-> [d.matches[i] EXCEPT !.away = into]]
             e == [d EXCEPT !.matches = MovedTo(d, I, f)]
  <1>1. MatchesOK(d) /\ into \in Spellings
    BY DEF Good, TeamsOK
  <1>2. \A i \in Matches(d) : /\ d.matches[i] \in MatchRow
                              /\ {d.matches[i].home, d.matches[i].away} \subseteq d.teams
    BY <1>1 DEF MatchesOK
  <1>3. \A i \in Matches(d) : /\ f[i] \in MatchRow /\ f[i].away = into
                              /\ f[i].comp = d.matches[i].comp /\ f[i].home = d.matches[i].home
                              /\ f[i].day = d.matches[i].day
    BY <1>1, <1>2 DEF MatchRow
  <1>4. MoveAway(d, I, into) = e
    <2>1. [i \in Matches(d) |->
             IF i \in I /\ ~\E j \in Matches(d) \ {i} :
                              SameIdentity(d.matches[j], [d.matches[i] EXCEPT !.away = into])
             THEN [d.matches[i] EXCEPT !.away = into] ELSE d.matches[i]] = MovedTo(d, I, f)
      BY DEF MovedTo
    <2> HIDE DEF f
    <2> QED  BY <2>1 DEF Moved, MoveAway
  <1>5. f \in [Matches(d) -> MatchRow]
    BY <1>3
  <1> HIDE DEF f
  <1>6. \A i, j \in Matches(d) \cap I :
          SameIdentity(f[i], f[j]) => SameIdentity(d.matches[i], d.matches[j])
    BY <1>3 DEF SameIdentity, SameFixture
  <1>7. \A i \in Matches(d) : {f[i].home, f[i].away} \subseteq d.teams
    BY <1>2, <1>3
  <1>8. Good(e, S) /\ SameBut(e, d)
    BY <1>5, <1>6, <1>7, MovedKeeps
  <1> QED  BY <1>4, <1>8

(* Rows of one competition, or a single row, go to another competition.    *)
LEMMA MoveCompKeeps ==
  ASSUME NEW S, NEW d, Good(d, S), NEW comp \in Competitions, NEW I,
         \A i, j \in Matches(d) \cap I : i = j \/ d.matches[i].comp = d.matches[j].comp
  PROVE  Good(MoveComp(d, I, comp), S)
  <1> DEFINE f == [i \in Matches(d) |-> [d.matches[i] EXCEPT !.comp = comp]]
             e == [d EXCEPT !.matches = MovedTo(d, I, f)]
  <1>1. MatchesOK(d)
    BY DEF Good
  <1>2. \A i \in Matches(d) : /\ d.matches[i] \in MatchRow
                              /\ {d.matches[i].home, d.matches[i].away} \subseteq d.teams
    BY <1>1 DEF MatchesOK
  <1>3. \A i \in Matches(d) : /\ f[i] \in MatchRow
                              /\ f[i].away = d.matches[i].away /\ f[i].home = d.matches[i].home
                              /\ f[i].day = d.matches[i].day
    BY <1>1, <1>2 DEF MatchRow
  <1>4. MoveComp(d, I, comp) = e
    <2>1. [i \in Matches(d) |->
             IF i \in I /\ ~\E j \in Matches(d) \ {i} :
                              SameIdentity(d.matches[j], [d.matches[i] EXCEPT !.comp = comp])
             THEN [d.matches[i] EXCEPT !.comp = comp] ELSE d.matches[i]] = MovedTo(d, I, f)
      BY DEF MovedTo
    <2> HIDE DEF f
    <2> QED  BY <2>1 DEF Moved, MoveComp
  <1>5. f \in [Matches(d) -> MatchRow]
    BY <1>3
  <1> HIDE DEF f
  <1>6. \A i, j \in Matches(d) \cap I :
          SameIdentity(f[i], f[j]) => SameIdentity(d.matches[i], d.matches[j])
    BY <1>3 DEF SameIdentity, SameFixture
  <1>7. \A i \in Matches(d) : {f[i].home, f[i].away} \subseteq d.teams
    BY <1>2, <1>3
  <1>8. Good(e, S)
    BY <1>5, <1>6, <1>7, MovedKeeps
  <1> QED  BY <1>4, <1>8

\* The tables with other columns for the teams.
WithTeams(d, teams, marked, renamed, alias) ==
  [teams |-> teams, marked |-> marked, renamed |-> renamed, alias |-> alias,
   matches |-> d.matches, results |-> d.results, links |-> d.links]

LEMMA TeamsGood ==
  ASSUME NEW S, NEW d, Good(d, S), NEW teams, NEW marked, NEW renamed, NEW alias,
         teams \subseteq Spellings, marked \subseteq teams, renamed \subseteq teams,
         d.teams \subseteq teams, alias \in [Forms -> teams \cup {Nobody}],
         \A n \in Forms : alias[n] \notin renamed,
         \A r \in renamed : alias[Normal[r]] # Nobody
  PROVE  Good(WithTeams(d, teams, marked, renamed, alias), S)
  <1> DEFINE e == WithTeams(d, teams, marked, renamed, alias)
  <1>1. e = [teams |-> teams, marked |-> marked, renamed |-> renamed, alias |-> alias,
             matches |-> d.matches, results |-> d.results, links |-> d.links]
    BY DEF WithTeams
  <1> HIDE DEF e
  <1>2. Shape(e) /\ SameRows(e, d)
    BY <1>1 DEF Shape, SameRows
  <1>3. TeamsOK(e) /\ AliasesInUse(e)
    BY <1>1 DEF TeamsOK, AliasesInUse, Owner, Forms
  <1>4. d.teams \subseteq e.teams
    BY <1>1
  <1> QED  BY <1>2, <1>3, <1>4, SameRowsGood DEF e

(* Facts about good tables that the steps below use.                       *)
LEMMA GoodTeams ==
  ASSUME NEW S, NEW d, Good(d, S)
  PROVE  /\ Shape(d) /\ d.teams \subseteq Spellings /\ d.marked \subseteq d.teams
         /\ d.renamed \subseteq d.teams /\ d.alias \in [Forms -> d.teams \cup {Nobody}]
         /\ \A n \in Forms : d.alias[n] \notin d.renamed
         /\ \A r \in d.renamed : d.alias[Normal[r]] # Nobody
         /\ \A r \in Spellings : Normal[r] \in Forms
  BY DEF Good, TeamsOK, AliasesInUse, Owner, Forms

\* The aliases of one row given to another.
Given(d, from, into) == [n \in Forms |-> IF d.alias[n] = from THEN into ELSE d.alias[n]]

(* Rows and aliases of one team go to another.                             *)
LEMMA MergeTeamIs ==
  ASSUME NEW S, NEW d, Good(d, S), NEW from, NEW into, Foldable(d, from, into)
  PROVE  \E e : /\ Good(e, S) /\ SameBut(e, d)
                /\ MergeTeam(d, from, into) = [e EXCEPT !.alias = Given(d, from, into)]
  <1> DEFINE I == {i \in Matches(d) : d.matches[i].home = from}
             home == MoveHome(d, I, into)
             J == {i \in Matches(d) : home.matches[i].away = from}
             away == MoveAway(home, J, into)
  <1>1. from \in d.teams /\ into \in d.teams
    BY DEF Foldable, Present
  <1>2. MergeTeam(d, from, into) =
          [away EXCEPT !.alias = [n \in DOMAIN away.alias |->
                                    IF away.alias[n] = from THEN into ELSE away.alias[n]]]
    BY DEF MergeTeam, MoveHome, MoveAway
  <1>3. \A i \in Matches(d) \cap I : d.matches[i].home = from
    OBVIOUS
  <1> HIDE DEF I
  <1>4. Good(home, S) /\ SameBut(home, d)
    BY <1>1, <1>3, MoveHomeKeeps
  <1> HIDE DEF home
  <1>5. \A i \in Matches(home) \cap J : home.matches[i].away = from
    OBVIOUS
  <1>6. into \in home.teams
    BY <1>1, <1>4 DEF SameBut
  <1> HIDE DEF J
  <1>7. Good(away, S) /\ SameBut(away, home)
    BY <1>4, <1>5, <1>6, MoveAwayKeeps
  <1> HIDE DEF away
  <1>8. SameBut(away, d)
    BY <1>4, <1>7 DEF SameBut
  <1>9. DOMAIN away.alias = Forms
    BY <1>7, GoodTeams
  <1>10. MergeTeam(d, from, into) = [away EXCEPT !.alias = Given(d, from, into)]
    BY <1>2, <1>8, <1>9 DEF SameBut, Given
  <1> QED  BY <1>7, <1>8, <1>10

LEMMA MergeTeamKeeps ==
  ASSUME NEW S, NEW d, Good(d, S), NEW from, NEW into, Foldable(d, from, into)
  PROVE  Good(MergeTeam(d, from, into), S)
  <1>1. PICK e : /\ Good(e, S) /\ SameBut(e, d)
                 /\ MergeTeam(d, from, into) = [e EXCEPT !.alias = Given(d, from, into)]
    BY MergeTeamIs
  <1> DEFINE alias == Given(d, from, into)
  <1>2. from \in Spellings /\ into \in d.teams /\ into \notin d.renamed /\ into # Nobody /\ from # Nobody
    BY GoodTeams, FixturesAssumption DEF Foldable, Present
  <1>3. /\ alias \in [Forms -> d.teams \cup {Nobody}]
        /\ \A n \in Forms : alias[n] \notin d.renamed
        /\ \A r \in d.renamed : alias[Normal[r]] # Nobody
    BY <1>2, GoodTeams DEF Given
  <1> HIDE DEF alias
  <1>4. Shape(e) /\ e.teams = d.teams /\ e.marked = d.marked /\ e.renamed = d.renamed
    BY <1>1 DEF SameBut, Good
  <1>5. [e EXCEPT !.alias = alias] = WithTeams(e, d.teams, d.marked, d.renamed, alias)
    BY <1>4 DEF Shape, WithTeams
  <1>6. Good(WithTeams(e, d.teams, d.marked, d.renamed, alias), S)
    BY <1>1, <1>3, <1>4, GoodTeams, TeamsGood
  <1> QED  BY <1>1, <1>5, <1>6 DEF alias

(* A fold also retires the row, and its name answers with the other.       *)
LEMMA FoldTeamKeeps ==
  ASSUME NEW S, NEW d, Good(d, S), NEW from, NEW into, Foldable(d, from, into)
  PROVE  Good(FoldTeam(d, from, into), S)
  <1>1. PICK e : /\ Good(e, S) /\ SameBut(e, d)
                 /\ MergeTeam(d, from, into) = [e EXCEPT !.alias = Given(d, from, into)]
    BY MergeTeamIs
  <1> DEFINE given == Given(d, from, into)
             owner == IF given[Normal[from]] = Nobody THEN into ELSE given[Normal[from]]
             alias == [given EXCEPT ![Normal[from]] = owner]
             merged == [e EXCEPT !.alias = given]
  <1>2. /\ from \in d.teams /\ from \in Spellings /\ from # Nobody /\ Normal[from] \in Forms
        /\ into \in d.teams /\ into \notin d.renamed /\ into # Nobody /\ from # into
    BY GoodTeams, FixturesAssumption DEF Foldable, Present
  <1>3. /\ given \in [Forms -> d.teams \cup {Nobody}]
        /\ \A n \in Forms : given[n] \notin d.renamed \cup {from}
        /\ \A r \in d.renamed : given[Normal[r]] # Nobody
    BY <1>2, GoodTeams DEF Given
  <1>4. FoldTeam(d, from, into) =
          [merged EXCEPT !.alias[Normal[from]] = IF @ = Nobody THEN into ELSE @,
                         !.renamed = @ \cup {from}, !.marked = @ \cup {from}]
    BY <1>1 DEF FoldTeam
  <1> HIDE DEF given
  <1>5. Shape(e) /\ e.teams = d.teams /\ e.marked = d.marked /\ e.renamed = d.renamed
    BY <1>1 DEF SameBut, Good
  <1>6. FoldTeam(d, from, into)
          = WithTeams(e, d.teams, d.marked \cup {from}, d.renamed \cup {from}, alias)
    <2>1. merged = WithTeams(e, d.teams, d.marked, d.renamed, given)
      BY <1>5 DEF Shape, WithTeams
    <2> HIDE DEF merged
    <2> QED  BY <1>4, <2>1 DEF WithTeams
  <1>7. owner \in d.teams /\ owner # Nobody /\ owner \notin d.renamed \cup {from}
    BY <1>2, <1>3
  <1> HIDE DEF owner
  <1>8. /\ alias \in [Forms -> d.teams \cup {Nobody}]
        /\ \A n \in Forms : alias[n] = IF n = Normal[from] THEN owner ELSE given[n]
    BY <1>2, <1>3, <1>7
  <1> HIDE DEF alias
  <1>9. /\ \A n \in Forms : alias[n] \notin d.renamed \cup {from}
        /\ \A r \in d.renamed \cup {from} : alias[Normal[r]] # Nobody
    <2>1. \A r \in d.renamed : Normal[r] \in Forms
      BY GoodTeams
    <2> QED  BY <1>2, <1>3, <1>7, <1>8, <2>1
  <1>10. Good(WithTeams(e, d.teams, d.marked \cup {from}, d.renamed \cup {from}, alias), S)
    <2>1. d.marked \cup {from} \subseteq d.teams /\ d.renamed \cup {from} \subseteq d.teams
          /\ d.teams \subseteq Spellings
      BY <1>2, GoodTeams
    <2> QED  BY <1>1, <1>5, <1>8, <1>9, <2>1, TeamsGood
  <1> QED  BY <1>6, <1>10

(* The rows of a namesake in one competition go to a row of its own.       *)
LEMMA SplitTeamKeeps ==
  ASSUME NEW S, NEW d, Good(d, S), NEW from, NEW comp, NEW into \in Spellings
  PROVE  Good(SplitTeam(d, from, comp, into), S)
  <1> DEFINE I == {i \in Matches(d) : d.matches[i].comp = comp /\ d.matches[i].home = from}
             J == {i \in Matches(d) : d.matches[i].comp = comp /\ d.matches[i].away = from}
             known == [d EXCEPT !.teams = d.teams \cup {into}]
             home == MoveHome(known, I, into)
             away == MoveAway(home, J, into)
  <1>1. SplitTeam(d, from, comp, into) = IF I \cup J = {} THEN d ELSE away
    BY DEF SplitTeam, MoveHome, MoveAway
  <1>2. Good(known, S) /\ known.teams = d.teams \cup {into} /\ known.matches = d.matches
    <2>0. Shape(d)
      BY DEF Good
    <2>1. known = WithTeams(d, d.teams \cup {into}, d.marked, d.renamed, d.alias)
      BY <2>0, SMTT(30) DEF Shape, WithTeams
    <2>2. /\ d.teams \cup {into} \subseteq Spellings /\ d.marked \subseteq d.teams \cup {into}
          /\ d.renamed \subseteq d.teams \cup {into} /\ d.teams \subseteq d.teams \cup {into}
          /\ d.alias \in [Forms -> (d.teams \cup {into}) \cup {Nobody}]
      BY GoodTeams
    <2>3. Good(WithTeams(d, d.teams \cup {into}, d.marked, d.renamed, d.alias), S)
      BY <2>2, GoodTeams, TeamsGood
    <2>4. known.teams = d.teams \cup {into} /\ known.matches = d.matches
      BY <2>1 DEF WithTeams
    <2> QED  BY <2>1, <2>3, <2>4
  <1> HIDE DEF known
  <1>3. Matches(known) = Matches(d)
    BY <1>2 DEF Matches
  <1>4. \A i \in Matches(known) \cap I : known.matches[i].home = from
    BY <1>2
  <1>5. \A i \in J : i \in Matches(d) /\ d.matches[i].away = from
    OBVIOUS
  <1> HIDE DEF I, J
  <1>6. /\ Good(home, S) /\ SameBut(home, known)
        /\ \A i \in Matches(known) : home.matches[i].away = known.matches[i].away
    BY <1>2, <1>4, MoveHomeKeeps
  <1> HIDE DEF home
  <1>7. \A i \in Matches(home) \cap J : home.matches[i].away = from
    BY <1>2, <1>3, <1>5, <1>6
  <1>8. into \in home.teams
    BY <1>2, <1>6 DEF SameBut
  <1>9. Good(away, S)
    BY <1>6, <1>7, <1>8, MoveAwayKeeps
  <1> QED  BY <1>1, <1>9

LEMMA AttachAliasKeeps ==
  ASSUME NEW S, NEW d, Good(d, S), NEW s \in Spellings, NEW row
  PROVE  Good(AttachAlias(d, s, row), S)
  <1> DEFINE owner == IF d.alias[Normal[s]] = Nobody /\ Present(d, row) THEN row
                      ELSE d.alias[Normal[s]]
             alias == [d.alias EXCEPT ![Normal[s]] = owner]
  <1>0. Shape(d)
    BY DEF Good
  <1>1. AttachAlias(d, s, row) = WithTeams(d, d.teams, d.marked, d.renamed, alias)
    <2>1. AttachAlias(d, s, row) = [d EXCEPT !.alias = alias]
      BY DEF AttachAlias
    <2> HIDE DEF alias
    <2> QED  BY <1>0, <2>1 DEF Shape, WithTeams
  <1>2. Normal[s] \in Forms
    BY DEF Forms
  <1>3. /\ owner \in d.teams \cup {Nobody} /\ owner \notin d.renamed
        /\ owner = Nobody => d.alias[Normal[s]] = Nobody
    BY <1>2, GoodTeams, FixturesAssumption DEF Present
  <1> HIDE DEF owner
  <1>4. /\ alias \in [Forms -> d.teams \cup {Nobody}]
        /\ \A n \in Forms : alias[n] = IF n = Normal[s] THEN owner ELSE d.alias[n]
    BY <1>2, <1>3, GoodTeams
  <1> HIDE DEF alias
  <1>5. /\ \A n \in Forms : alias[n] \notin d.renamed
        /\ \A r \in d.renamed : alias[Normal[r]] # Nobody
    <2>1. \A r \in d.renamed : Normal[r] \in Forms
      BY GoodTeams
    <2> QED  BY <1>3, <1>4, <2>1, GoodTeams
  <1>6. /\ d.teams \subseteq Spellings /\ d.marked \subseteq d.teams /\ d.renamed \subseteq d.teams
    BY GoodTeams
  <1>7. Good(WithTeams(d, d.teams, d.marked, d.renamed, alias), S)
    BY <1>4, <1>5, <1>6, TeamsGood
  <1> QED  BY <1>1, <1>7

LEMMA RelinkKeeps ==
  ASSUME NEW S, NEW d, Good(d, S), NEW comp \in Competitions
  PROVE  Good(Relink(d, comp), S)
  <1> DEFINE I == {i \in Matches(d) : d.matches[i].comp = Concurso}
  <1>1. \A i, j \in Matches(d) \cap I : i = j \/ d.matches[i].comp = d.matches[j].comp
    OBVIOUS
  <1> HIDE DEF I
  <1>2. Good(MoveComp(d, I, comp), S)
    BY <1>1, MoveCompKeeps
  <1> QED  BY <1>2 DEF Relink, MoveComp, I

LEMMA CorrectKeeps ==
  ASSUME NEW S, NEW d, Good(d, S), NEW slot \in Slots, NEW comp \in Competitions
  PROVE  Good(Correct(d, slot, comp), S)
  <1> DEFINE I == {d.links[slot]} \ {0}
  <1>1. \A i, j \in Matches(d) \cap I : i = j \/ d.matches[i].comp = d.matches[j].comp
    OBVIOUS
  <1> HIDE DEF I
  <1>2. Good(MoveComp(d, I, comp), S)
    BY <1>1, MoveCompKeeps
  <1> QED  BY <1>2 DEF Correct, MoveComp, I

(* Marking fabricated rows leaves their identities.                        *)
LEMMA MarkLaddersKeeps ==
  ASSUME NEW S, NEW d, Good(d, S)
  PROVE  Good(MarkLadders(d), S)
  <1> DEFINE fabricated == UNION {Linked(d, s) : s \in {t \in DOMAIN Draws : IsLadder(d, t)}}
             rows == [i \in Matches(d) |->
                        [d.matches[i] EXCEPT !.marked = @ \/ i \in fabricated]]
  <1>1. MarkLadders(d) = [d EXCEPT !.matches = rows]
    BY DEF MarkLadders
  <1> HIDE DEF fabricated
  <1>2. MatchesOK(d)
    BY DEF Good
  <1>3. \A i \in Matches(d) :
          /\ rows[i] \in MatchRow /\ rows[i].comp = d.matches[i].comp /\ rows[i].home = d.matches[i].home
          /\ rows[i].away = d.matches[i].away /\ rows[i].day = d.matches[i].day
    <2> SUFFICES ASSUME NEW i \in Matches(d)
                 PROVE  LET row == [d.matches[i] EXCEPT !.marked = d.matches[i].marked \/ i \in fabricated]
                        IN /\ row \in MatchRow /\ row.comp = d.matches[i].comp
                           /\ row.home = d.matches[i].home
                           /\ row.away = d.matches[i].away /\ row.day = d.matches[i].day
      OBVIOUS
    <2>1. d.matches[i] \in MatchRow
      BY <1>2 DEF MatchesOK
    <2>2. PICK b \in BOOLEAN : b = (d.matches[i].marked \/ i \in fabricated)
      OBVIOUS
    <2> QED  BY <2>1, <2>2 DEF MatchRow
  <1> HIDE DEF rows
  <1>4. \A i \in Matches(d) : {rows[i].home, rows[i].away} \subseteq d.teams
    BY <1>2, <1>3 DEF MatchesOK
  <1>5. \A i, j \in Matches(d) : SameIdentity(rows[i], rows[j]) => i = j
    BY <1>2, <1>3 DEF MatchesOK, SameIdentity, SameFixture
  <1>6. DOMAIN rows = Matches(d)
    BY DEF rows
  <1>7. rows \in [Matches(d) -> MatchRow]
    BY <1>3, <1>6 DEF rows
  <1> QED  BY <1>1, <1>4, <1>5, <1>7, RewriteKeeps

------------------------------------------------------------------------------
(* The consolidation of duplicate rows.                                    *)

\* s comes before j in the order of five ranks.
Precedes(R, s, j) == \E n \in 1..5 : R[n][s] < R[n][j] /\ \A e \in 1..(n - 1) : R[e][s] = R[e][j]

(* Finitely many things in the order of five ranks, the last of which      *)
(* tells them apart, have a first one.                                     *)
LEMMA FirstOfFinite ==
  ASSUME NEW C, IsFiniteSet(C), C # {}, NEW R,
         \A n \in 1..5 : \A x \in C : R[n][x] \in Int,
         \A x, y \in C : R[5][x] = R[5][y] => x = y
  PROVE  \E s \in C : \A j \in C \ {s} : Precedes(R, s, j)
  <1> DEFINE Firsts(n, B) == {x \in B : \A y \in B : R[n][x] <= R[n][y]}
  <1>1. ASSUME NEW n \in 1..5, NEW B \in SUBSET C, B # {}
        PROVE  /\ Firsts(n, B) # {} /\ Firsts(n, B) \subseteq B
               /\ \A x \in Firsts(n, B), y \in Firsts(n, B) : R[n][x] = R[n][y]
               /\ \A x \in Firsts(n, B), y \in B \ Firsts(n, B) : R[n][x] < R[n][y]
    <2> DEFINE rank == R[n]
    <2>1. \A x \in B : rank[x] \in Int
      OBVIOUS
    <2>2. IsFiniteSet(B)
      BY FS_Subset
    <2> HIDE DEF rank
    <2>3. \E x \in B : \A y \in B : rank[x] <= rank[y]
      BY <1>1, <2>1, <2>2, LeastOfFinite
    <2>4. /\ Firsts(n, B) # {} /\ Firsts(n, B) \subseteq B
          /\ \A x \in Firsts(n, B), y \in B : rank[x] <= rank[y]
      BY <2>3 DEF rank
    <2>5. \A x \in Firsts(n, B), y \in Firsts(n, B) : rank[x] = rank[y]
      BY <2>1, <2>4
    <2>6. \A x \in Firsts(n, B), y \in B \ Firsts(n, B) : rank[x] < rank[y]
      <3> SUFFICES ASSUME NEW x \in Firsts(n, B), NEW y \in B, y \notin Firsts(n, B)
                   PROVE  rank[x] < rank[y]
        OBVIOUS
      <3>1. PICK z \in B : ~(rank[y] <= rank[z])
        BY DEF rank
      <3>2. x \in B /\ rank[x] <= rank[z]
        BY <2>4
      <3> HIDE DEF Firsts
      <3> QED  BY <2>1, <3>1, <3>2
    <2> QED  BY <2>4, <2>5, <2>6 DEF rank
  <1> HIDE DEF Firsts
  <1> DEFINE B1 == Firsts(1, C)
             B2 == Firsts(2, B1)
             B3 == Firsts(3, B2)
             B4 == Firsts(4, B3)
             B5 == Firsts(5, B4)
  <1>2. /\ B1 # {} /\ B1 \subseteq C
        /\ \A x, y \in B1 : R[1][x] = R[1][y]
        /\ \A x \in B1, y \in C \ B1 : R[1][x] < R[1][y]
    BY <1>1
  <1> HIDE DEF B1
  <1>3. /\ B2 # {} /\ B2 \subseteq B1
        /\ \A x, y \in B2 : R[2][x] = R[2][y]
        /\ \A x \in B2, y \in B1 \ B2 : R[2][x] < R[2][y]
    BY <1>1, <1>2
  <1> HIDE DEF B2
  <1>4. /\ B3 # {} /\ B3 \subseteq B2
        /\ \A x, y \in B3 : R[3][x] = R[3][y]
        /\ \A x \in B3, y \in B2 \ B3 : R[3][x] < R[3][y]
    BY <1>1, <1>2, <1>3
  <1> HIDE DEF B3
  <1>5. /\ B4 # {} /\ B4 \subseteq B3
        /\ \A x, y \in B4 : R[4][x] = R[4][y]
        /\ \A x \in B4, y \in B3 \ B4 : R[4][x] < R[4][y]
    BY <1>1, <1>2, <1>3, <1>4
  <1> HIDE DEF B4
  <1>6. /\ B5 # {} /\ B5 \subseteq B4
        /\ \A x, y \in B5 : R[5][x] = R[5][y]
        /\ \A x \in B5, y \in B4 \ B5 : R[5][x] < R[5][y]
    BY <1>1, <1>2, <1>3, <1>4, <1>5
  <1> HIDE DEF B5
  <1>7. PICK s \in B5 : TRUE
    BY <1>6
  <1>8. s \in B4 /\ s \in B3 /\ s \in B2 /\ s \in B1 /\ s \in C
    BY <1>2, <1>3, <1>4, <1>5, <1>6
  <1>9. ASSUME NEW j \in C \ {s} PROVE Precedes(R, s, j)
    <2>1. j \notin B5
      BY <1>2, <1>3, <1>4, <1>5, <1>6
    <2>2. CASE j \notin B1
      <3>1. R[1][s] < R[1][j]
        BY <1>2, <1>8, <2>2
      <3> QED  BY <3>1 DEF Precedes
    <2>3. CASE j \in B1 /\ j \notin B2
      <3>1. R[2][s] < R[2][j] /\ R[1][s] = R[1][j]
        BY <1>2, <1>3, <1>8, <2>3
      <3> QED  BY <3>1 DEF Precedes
    <2>4. CASE j \in B1 /\ j \in B2 /\ j \notin B3
      <3>1. R[3][s] < R[3][j] /\ R[1][s] = R[1][j] /\ R[2][s] = R[2][j]
        BY <1>2, <1>3, <1>4, <1>8, <2>4
      <3> QED  BY <3>1 DEF Precedes
    <2>5. CASE j \in B1 /\ j \in B2 /\ j \in B3 /\ j \notin B4
      <3>1. R[4][s] < R[4][j] /\ R[1][s] = R[1][j] /\ R[2][s] = R[2][j] /\ R[3][s] = R[3][j]
        BY <1>2, <1>3, <1>4, <1>5, <1>8, <2>5
      <3> QED  BY <3>1 DEF Precedes
    <2>6. CASE j \in B1 /\ j \in B2 /\ j \in B3 /\ j \in B4
      <3>1. /\ R[5][s] < R[5][j] /\ R[1][s] = R[1][j] /\ R[2][s] = R[2][j] /\ R[3][s] = R[3][j]
            /\ R[4][s] = R[4][j]
        BY <1>2, <1>3, <1>4, <1>5, <1>6, <1>8, <2>1, <2>6
      <3> QED  BY <3>1 DEF Precedes
    <2> QED  BY <2>2, <2>3, <2>4, <2>5, <2>6
  <1> QED  BY <1>8, <1>9

\* The five numbers of RanksBefore, for every row.
Ranks(d) ==
  LET flag(b) == IF b THEN 0 ELSE 1
      all == Matches(d)
  IN [n \in 1..5 |->
        CASE n = 1 -> [k \in all |-> flag(IsLinked(d, k))]
          [] n = 2 -> [k \in all |-> flag(~d.matches[k].marked)]
          [] n = 3 -> [k \in all |-> -Cardinality(Results(d, k))]
          [] n = 4 -> [k \in all |-> d.matches[k].day]
          [] n = 5 -> [k \in all |-> k]]

LEMMA RanksAreNumbers ==
  ASSUME NEW d, MatchesOK(d), ResultsOK(d)
  PROVE  \A n \in 1..5 : \A x \in Matches(d) : Ranks(d)[n][x] \in Int
  <1> SUFFICES ASSUME NEW x \in Matches(d)
               PROVE  \A n \in 1..5 : Ranks(d)[n][x] \in Int
    OBVIOUS
  <1>1. Cardinality(Results(d, x)) \in Nat
    <2>1. Results(d, x) \subseteq d.results /\ IsFiniteSet(d.results)
      BY DEF Results, ResultsOK
    <2> QED  BY <2>1, FS_Subset, FS_CardinalityType
  <1>2. d.matches[x].day \in Nat /\ x \in Nat
    BY DEF MatchesOK, MatchRow
  <1>3. /\ Ranks(d)[1][x] \in Int /\ Ranks(d)[2][x] \in Int
        /\ Ranks(d)[3][x] = -Cardinality(Results(d, x))
        /\ Ranks(d)[4][x] = d.matches[x].day /\ Ranks(d)[5][x] = x
    BY DEF Ranks
  <1> QED  BY <1>1, <1>2, <1>3

LEMMA RanksBeforeIs ==
  ASSUME NEW d, NEW i \in Matches(d), NEW j \in Matches(d)
  PROVE  RanksBefore(d, i, j) <=> Precedes(Ranks(d), i, j)
  <1> DEFINE flag(b) == IF b THEN 0 ELSE 1
             rank(k) == <<flag(IsLinked(d, k)), flag(~d.matches[k].marked),
                          -Cardinality(Results(d, k)), d.matches[k].day, k>>
  <1>1. \A k \in Matches(d) : /\ rank(k)[1] = Ranks(d)[1][k] /\ rank(k)[2] = Ranks(d)[2][k]
                              /\ rank(k)[3] = Ranks(d)[3][k] /\ rank(k)[4] = Ranks(d)[4][k]
                              /\ rank(k)[5] = Ranks(d)[5][k]
    BY DEF Ranks
  <1>2. \A k \in Matches(d) : \A n \in 1..5 : rank(k)[n] = Ranks(d)[n][k]
    <2> HIDE DEF rank
    <2> QED  BY <1>1
  <1>3. RanksBefore(d, i, j) <=>
          \E n \in 1..5 : rank(i)[n] < rank(j)[n] /\ \A e \in 1..(n - 1) : rank(i)[e] = rank(j)[e]
    BY DEF RanksBefore
  <1> HIDE DEF rank
  <1> QED  BY <1>2, <1>3 DEF Precedes

(* The survivor of a row's cluster is a row.                               *)
LEMMA SurvivorIsRow ==
  ASSUME NEW d, MatchesOK(d), ResultsOK(d), NEW i \in Matches(d)
  PROVE  Survivor(d, i) \in Matches(d)
  <1> DEFINE C == Cluster(d, i)
  <1>1. C \subseteq Matches(d) /\ i \in C
    BY DEF Cluster, SameFixture
  <1>2. IsFiniteSet(C)
    BY <1>1, FS_Subset DEF MatchesOK
  <1> HIDE DEF C
  <1>3. \A x, y \in C : Ranks(d)[5][x] = Ranks(d)[5][y] => x = y
    BY <1>1 DEF Ranks
  <1>4. \A n \in 1..5 : \A x \in C : Ranks(d)[n][x] \in Int
    BY <1>1, RanksAreNumbers
  <1>5. \E s \in C : \A j \in C \ {s} : Precedes(Ranks(d), s, j)
    <2> DEFINE R == Ranks(d)
    <2> HIDE DEF R
    <2>1. \E s \in C : \A j \in C \ {s} : Precedes(R, s, j)
      BY <1>1, <1>2, <1>3, <1>4, FirstOfFinite DEF R
    <2> QED  BY <2>1 DEF R
  <1>6. \E s \in C : \A j \in C \ {s} : RanksBefore(d, s, j)
    BY <1>1, <1>5, RanksBeforeIs
  <1>7. Survivor(d, i) = CHOOSE s \in C : \A j \in C \ {s} : RanksBefore(d, s, j)
    BY DEF Survivor, C
  <1> QED  BY <1>1, <1>6, <1>7

(* Among any rows one ranks last.                                          *)
LEMMA LastIsRow ==
  ASSUME NEW d, MatchesOK(d), ResultsOK(d), NEW C \in SUBSET Matches(d), C # {}
  PROVE  (CHOOSE i \in C : \A j \in C \ {i} : RanksBefore(d, j, i)) \in C
  <1> DEFINE R == [n \in 1..5 |-> [k \in Matches(d) |-> -Ranks(d)[n][k]]]
  <1>1. \A n \in 1..5 : \A x \in C : R[n][x] = -Ranks(d)[n][x] /\ Ranks(d)[n][x] \in Int
    BY RanksAreNumbers
  <1> HIDE DEF R
  <1>2. \A n \in 1..5 : \A x \in C : R[n][x] \in Int
    BY <1>1
  <1>3. \A x, y \in C : R[5][x] = R[5][y] => x = y
    <2>1. \A x \in C : Ranks(d)[5][x] = x
      BY DEF Ranks
    <2>2. \A x \in C : R[5][x] = -x /\ x \in Int
      BY <1>1, <2>1
    <2> QED  BY <2>2
  <1>4. IsFiniteSet(C)
    BY FS_Subset DEF MatchesOK
  <1>5. PICK s \in C : \A j \in C \ {s} : Precedes(R, s, j)
    BY <1>2, <1>3, <1>4, FirstOfFinite
  <1>6. \A j \in C \ {s} : Precedes(Ranks(d), j, s)
    <2> SUFFICES ASSUME NEW j \in C \ {s} PROVE Precedes(Ranks(d), j, s)
      OBVIOUS
    <2>1. PICK n \in 1..5 : R[n][s] < R[n][j] /\ \A e \in 1..(n - 1) : R[e][s] = R[e][j]
      BY <1>5 DEF Precedes
    <2>2. Ranks(d)[n][j] < Ranks(d)[n][s]
      BY <1>1, <2>1
    <2>3. \A e \in 1..(n - 1) : Ranks(d)[e][j] = Ranks(d)[e][s]
      <3> SUFFICES ASSUME NEW e \in 1..(n - 1) PROVE Ranks(d)[e][j] = Ranks(d)[e][s]
        OBVIOUS
      <3>1. e \in 1..5 /\ R[e][s] = R[e][j]
        BY <2>1
      <3> QED  BY <1>1, <3>1
    <2> QED  BY <2>2, <2>3 DEF Precedes
  <1>7. \E i \in C : \A j \in C \ {i} : RanksBefore(d, j, i)
    BY <1>6, RanksBeforeIs
  <1> QED  BY <1>7

(* The dependents of a row go to another, but for those that would collide.*)
LEMMA RepointKeeps ==
  ASSUME NEW S, NEW d, Good(d, S), NEW from \in Matches(d), NEW into \in Matches(d), from # into
  PROVE  LET e == Repoint(d, from, into)
         IN Good(e, S) /\ Matches(e) = Matches(d)
  <1> DEFINE moved == MovedResults(d, from, into)
             slots == MovedLinks(d, from, into)
             results == (d.results \ moved) \cup {[r EXCEPT !.match = into] : r \in moved}
             links == [slot \in Slots |-> IF slot \in slots THEN into ELSE d.links[slot]]
             rows == [d.matches EXCEPT ![from].marked = TRUE]
             e == Repoint(d, from, into)
  <1>1. Shape(d) /\ MatchesOK(d) /\ ResultsOK(d) /\ LinksOK(d, S)
    BY DEF Good
  <1>2. e = [teams |-> d.teams, marked |-> d.marked, renamed |-> d.renamed, alias |-> d.alias,
             matches |-> rows, results |-> results, links |-> links]
    <2>1. e = [d EXCEPT !.results = results, !.links = links, !.matches = rows]
      <3>1. e = [d EXCEPT !.results = results, !.links = links, !.matches[from].marked = TRUE]
        BY DEF Repoint
      <3> HIDE DEF e, results, links
      <3> QED  BY <1>1, <3>1 DEF Shape
    <2> HIDE DEF e, results, links, rows
    <2> QED  BY <1>1, <2>1 DEF Shape
  <1> HIDE DEF e
  <1>3. into \in Nat \ {0} /\ from \in Nat \ {0}
    BY <1>1 DEF MatchesOK
  <1>4. /\ rows \in [Matches(d) -> MatchRow]
        /\ \A i \in Matches(d) :
             /\ rows[i].comp = d.matches[i].comp /\ rows[i].home = d.matches[i].home
             /\ rows[i].away = d.matches[i].away /\ rows[i].day = d.matches[i].day
    BY <1>1 DEF MatchesOK, MatchRow
  <1> HIDE DEF rows
  <1>5. Matches(e) = Matches(d) /\ e.matches = rows /\ e.teams = d.teams
    BY <1>2, <1>4 DEF Matches
  <1>6. MatchesOK(e)
    <2>1. \A i \in Matches(e) : {rows[i].home, rows[i].away} \subseteq e.teams
      BY <1>1, <1>4, <1>5 DEF MatchesOK
    <2>2. \A i, j \in Matches(e) : SameIdentity(rows[i], rows[j]) => i = j
      BY <1>1, <1>4, <1>5 DEF MatchesOK, SameIdentity, SameFixture
    <2> QED  BY <1>1, <1>4, <1>5, <2>1, <2>2 DEF MatchesOK
  <1>7. ResultsOK(e)
    <2>1. /\ moved \subseteq d.results
          /\ \A r \in moved : r.match = from /\ r \in ResultRow
          /\ \A r \in moved, x \in d.results :
               x.match = into => x.source # r.source \/ x.day # r.day
      BY <1>1 DEF MovedResults, Results, ResultsOK
    <2>2. \A r \in moved : LET x == [r EXCEPT !.match = into]
                           IN /\ x \in ResultRow /\ x.match = into
                              /\ x.source = r.source /\ x.day = r.day
      BY <1>3, <2>1 DEF ResultRow
    <2> HIDE DEF moved
    <2> DEFINE new == {[r EXCEPT !.match = into] : r \in moved}
    <2>3. IsFiniteSet(new)
      <3>1. IsFiniteSet(moved)
        BY <1>1, <2>1, FS_Subset DEF ResultsOK
      <3> DEFINE to == [r \in moved |-> [r EXCEPT !.match = into]]
      <3>2. new = {to[r] : r \in moved}
        OBVIOUS
      <3>3. IsFiniteSet({to[r] : r \in moved})
        <4>1. to \in Surjection(moved, {to[r] : r \in moved})
          BY DEF Surjection
        <4> QED  BY <3>1, <4>1, FS_Surjection
      <3> QED  BY <3>2, <3>3
    <2>4. IsFiniteSet(results)
      <3>1. IsFiniteSet(d.results \ moved)
        BY <1>1, FS_Subset DEF ResultsOK
      <3> HIDE DEF new
      <3>2. IsFiniteSet((d.results \ moved) \cup new)
        BY <2>3, <3>1, FS_Union
      <3> QED  BY <3>2 DEF new
    <2>5. results \subseteq ResultRow
      BY <1>1, <2>2 DEF ResultsOK
    <2> DEFINE Arrived(x) == /\ x.match = into
                             /\ \E r \in moved : x.source = r.source /\ x.day = r.day
    <2>11. \A x \in new : Arrived(x)
      BY <2>2
    <2>6. {x.match : x \in results} \subseteq Matches(d)
      <3>1. \A x \in d.results : x.match \in Matches(d)
        BY <1>1 DEF ResultsOK
      <3>2. \A x \in new : x.match \in Matches(d)
        BY <2>11
      <3>3. \A x \in results : x \in d.results \/ x \in new
        OBVIOUS
      <3> HIDE DEF new, results
      <3> QED  BY <3>1, <3>2, <3>3
    <2>7. ASSUME NEW x \in results, NEW y \in results,
                 x.match = y.match, x.source = y.source, x.day = y.day
          PROVE  x = y
      <3>1. CASE x \in d.results \ moved /\ y \in d.results \ moved
        BY <1>1, <2>7, <3>1 DEF ResultsOK
      <3>2. CASE x \in new /\ y \in new
        <4>1. PICK r \in moved, q \in moved :
                x = [r EXCEPT !.match = into] /\ y = [q EXCEPT !.match = into]
          BY <3>2
        <4>2. r.match = q.match /\ r.source = q.source /\ r.day = q.day
          BY <2>1, <2>2, <2>7, <4>1
        <4>3. r = q
          BY <1>1, <2>1, <4>2 DEF ResultsOK
        <4> QED  BY <4>1, <4>3
      <3>3. CASE x \in new /\ y \in d.results \ moved
        <4> HIDE DEF new
        <4>1. Arrived(x)
          BY <2>11, <3>3
        <4> QED  BY <2>1, <2>7, <3>3, <4>1
      <3>4. CASE x \in d.results \ moved /\ y \in new
        <4> HIDE DEF new
        <4>1. Arrived(y)
          BY <2>11, <3>4
        <4> QED  BY <2>1, <2>7, <3>4, <4>1
      <3> QED  BY <3>1, <3>2, <3>3, <3>4
    <2> HIDE DEF results
    <2>8. e.results = results
      BY <1>2
    <2> QED  BY <1>5, <2>4, <2>5, <2>6, <2>7, <2>8 DEF ResultsOK
  <1>8. LinksOK(e, S)
    <2>1. \A slot \in slots : slot \in Slots /\ d.links[slot] = from /\ into \notin Linked(d, slot[1])
      BY DEF MovedLinks
    <2>2. \A slot \in Slots : d.links[slot] = into => into \in Linked(d, slot[1])
      BY <1>3 DEF Linked
    <2>3. d.links \in [Slots -> Matches(d) \cup {0}]
      BY <1>1 DEF LinksOK
    <2> HIDE DEF slots
    <2>4. links \in [Slots -> Matches(d) \cup {0}]
      BY <2>3
    <2>5. ASSUME NEW a \in Slots, NEW b \in Slots, a[1] = b[1], a[1] \in S,
                 links[a] = links[b], links[a] # 0
          PROVE  a = b
      <3>1. CASE a \in slots /\ b \in slots
        BY <1>1, <1>3, <2>1, <2>5, <3>1 DEF LinksOK
      <3>2. CASE a \notin slots /\ b \notin slots
        BY <1>1, <2>5, <3>2 DEF LinksOK
      <3>3. CASE a \in slots /\ b \notin slots
        BY <2>1, <2>2, <2>5, <3>3
      <3>4. CASE a \notin slots /\ b \in slots
        BY <2>1, <2>2, <2>5, <3>4
      <3> QED  BY <3>1, <3>2, <3>3, <3>4
    <2> HIDE DEF links
    <2>6. e.links = links
      BY <1>2
    <2> QED  BY <1>5, <2>4, <2>5, <2>6 DEF LinksOK
  <1>9. TeamsOK(e) /\ AliasesInUse(e) /\ Shape(e)
    <2>1. e.teams = d.teams /\ e.marked = d.marked /\ e.renamed = d.renamed /\ e.alias = d.alias
      BY <1>2
    <2>2. Shape(e)
      BY <1>2 DEF Shape
    <2> QED  BY <2>1, <2>2, SameTeams DEF Good
  <1> QED  BY <1>5, <1>6, <1>7, <1>8, <1>9 DEF Good, e

------------------------------------------------------------------------------
(* The folds of the model, over sets of good tables.                       *)

TableSet(S) ==
  {d \in [teams : SUBSET Spellings, marked : SUBSET Spellings, renamed : SUBSET Spellings,
          alias : [Forms -> Spellings \cup {Nobody}],
          matches : UNION {[I -> MatchRow] : I \in SUBSET Nat},
          results : SUBSET ResultRow, links : [Slots -> Nat]] : Good(d, S)}

LEMMA TablesAreASet ==
  ASSUME NEW S, NEW d
  PROVE  d \in TableSet(S) <=> Good(d, S)
  <1> SUFFICES ASSUME Good(d, S) PROVE d \in TableSet(S)
    BY DEF TableSet
  <1>1. /\ d.teams \in SUBSET Spellings /\ d.marked \in SUBSET Spellings /\ d.renamed \in SUBSET Spellings
        /\ d.alias \in [Forms -> Spellings \cup {Nobody}]
    BY GoodTeams
  <1>2. d.matches \in UNION {[I -> MatchRow] : I \in SUBSET Nat}
    <2>1. Matches(d) \in SUBSET Nat /\ d.matches \in [Matches(d) -> MatchRow]
      BY DEF Good, MatchesOK
    <2> QED  BY <2>1
  <1>3. d.results \in SUBSET ResultRow
    BY DEF Good, ResultsOK
  <1>4. d.links \in [Slots -> Nat]
    <2>1. Matches(d) \subseteq Nat /\ d.links \in [Slots -> Matches(d) \cup {0}]
      BY DEF Good, MatchesOK, LinksOK
    <2> QED  BY <2>1
  <1>5. d = [teams |-> d.teams, marked |-> d.marked, renamed |-> d.renamed, alias |-> d.alias,
             matches |-> d.matches, results |-> d.results, links |-> d.links]
    BY DEF Good, Shape
  <1> DEFINE teams == d.teams
             marked == d.marked
             renamed == d.renamed
             alias == d.alias
             matches == d.matches
             results == d.results
             links == d.links
  <1> HIDE DEF teams, marked, renamed, alias, matches, results, links
  <1>6. d = [teams |-> teams, marked |-> marked, renamed |-> renamed, alias |-> alias,
             matches |-> matches, results |-> results, links |-> links]
    BY <1>5 DEF teams, marked, renamed, alias, matches, results, links
  <1>7. d \in [teams : SUBSET Spellings, marked : SUBSET Spellings, renamed : SUBSET Spellings,
               alias : [Forms -> Spellings \cup {Nobody}],
               matches : UNION {[I -> MatchRow] : I \in SUBSET Nat},
               results : SUBSET ResultRow, links : [Slots -> Nat]]
    BY <1>1, <1>2, <1>3, <1>4, <1>6 DEF teams, marked, renamed, alias, matches, results, links
  <1> QED  BY <1>7 DEF TableSet

(* Every duplicate is folded into its survivor.                            *)
LEMMA ConsolidateKeeps ==
  ASSUME NEW S, NEW d, Good(d, S)
  PROVE  Good(Consolidate(d), S)
  <1> DEFINE D == {i \in Matches(d) : Survivor(d, i) # i}
             last(s) == CHOOSE i \in s : \A j \in s \ {i} : RanksBefore(d, j, i)
             step(g, s) == IF s = {} THEN d
                           ELSE Repoint(g[s \ {last(s)}], last(s), Survivor(d, last(s)))
             Solves(g) == g = [s \in SUBSET D |-> step(g, s)]
             iter == CHOOSE g : Solves(g)
             T == {e \in TableSet(S) : Matches(e) = Matches(d)}
             F == [i \in D |-> [e \in T |-> Repoint(e, i, Survivor(d, i))]]
             pick == [s \in SUBSET D |-> last(s)]
  <1>1. MatchesOK(d) /\ ResultsOK(d)
    BY DEF Good
  <1>2. IsFiniteSet(D)
    BY <1>1, FS_Subset DEF MatchesOK
  <1>3. \A i \in D : i \in Matches(d) /\ Survivor(d, i) \in Matches(d) /\ Survivor(d, i) # i
    BY <1>1, SurvivorIsRow
  <1>4. \A s \in SUBSET D : s # {} => last(s) \in s
    BY <1>1, LastIsRow
  <1>5. Consolidate(d) = iter[D]
    BY DEF Consolidate, MapThenFoldSet
  <1>6. d \in T
    BY TablesAreASet
  <1>7. \A i \in D, e \in T : Repoint(e, i, Survivor(d, i)) \in T
    <2> SUFFICES ASSUME NEW i \in D, NEW e \in T PROVE Repoint(e, i, Survivor(d, i)) \in T
      OBVIOUS
    <2>1. Good(e, S) /\ Matches(e) = Matches(d)
      BY TablesAreASet
    <2> DEFINE into == Survivor(d, i)
    <2>2. into \in Matches(d) /\ into # i /\ i \in Matches(d)
      BY <1>3
    <2> HIDE DEF into
    <2>3. Good(Repoint(e, i, into), S) /\ Matches(Repoint(e, i, into)) = Matches(d)
      BY <2>1, <2>2, RepointKeeps
    <2> QED  BY <2>3, TablesAreASet DEF into
  <1> HIDE DEF D, last, T
  <1>8. F \in [D -> [T -> T]]
    BY <1>7
  <1>9. \A s \in SUBSET D : s # {} => pick[s] \in s /\ pick[s] = last(s)
    BY <1>4
  <1>10. \E g : Solves(g)
    <2> HIDE DEF F, pick
    <2>1. PICK g \in [SUBSET D -> T] : Folds(D, F, d, pick, g)
      BY <1>2, <1>6, <1>8, <1>9, FoldExists
    <2>2. \A s \in SUBSET D : g[s] = step(g, s)
      <3> SUFFICES ASSUME NEW s \in SUBSET D PROVE g[s] = step(g, s)
        OBVIOUS
      <3>1. CASE s = {}
        BY <2>1, <3>1 DEF Folds
      <3>2. CASE s # {}
        <4>1. g[s] = F[pick[s]][g[s \ {pick[s]}]]
          BY <2>1, <3>2 DEF Folds
        <4>2. pick[s] = last(s) /\ last(s) \in D /\ g[s \ {last(s)}] \in T
          BY <1>9, <3>2
        <4> QED  BY <3>2, <4>1, <4>2 DEF F
      <3> QED  BY <3>1, <3>2
    <2> HIDE DEF step
    <2>3. Solves(g)
      BY <2>2
    <2> HIDE DEF Solves
    <2> QED  BY <2>3
  <1>11. Solves(iter)
    <2> HIDE DEF Solves
    <2> QED  BY <1>10
  <1>12. \A s \in SUBSET D : iter[s] = step(iter, s)
    <2> HIDE DEF iter, step
    <2> QED  BY <1>11
  <1>13. \A s \in SUBSET D :
           /\ s = {} => iter[s] = d
           /\ s # {} /\ iter[s \ {pick[s]}] \in T => iter[s] \in T
    <2> HIDE DEF iter, pick
    <2>1. \A s \in SUBSET D : s # {} => last(s) \in D
      BY <1>9
    <2> QED  BY <1>7, <1>9, <1>12, <2>1, SMTT(30)
  <1>14. iter[D] \in T
    <2> HIDE DEF iter, pick
    <2> QED  BY <1>2, <1>6, <1>9, <1>13, FoldStays, ZenonT(60)
  <1> QED  BY <1>5, <1>14, TablesAreASet DEF T

(* A data step, whatever its kind.                                         *)
LEMMA ApplyKeeps ==
  ASSUME NEW S, NEW d, Good(d, S), NEW i \in DOMAIN Program
  PROVE  Good(Apply(Program[i], d), S)
  <1> DEFINE step == Program[i]
  <1>1. \/ step.kind \in {"mark", "consolidate"}
        \/ step.kind = "relink" /\ step.comp \in Competitions
        \/ step.kind = "correct" /\ step.slot \in Slots /\ step.comp \in Competitions
        \/ step.kind \in {"alias", "merge", "fold"} /\ step.from \in Spellings /\ step.into \in Spellings
        \/ step.kind = "split" /\ step.comp \in Competitions /\ step.into \in Spellings
    <2> DEFINE Steps == [version : Nat, kind : {"mark", "consolidate"}]
                     \cup [version : Nat, kind : {"relink"}, comp : Competitions]
                     \cup [version : Nat, kind : {"correct"}, slot : Slots, comp : Competitions]
                     \cup [version : Nat, kind : {"alias", "merge", "fold"}, from : Spellings, into : Spellings]
                     \cup [version : Nat, kind : {"split"}, from : Spellings, comp : Competitions,
                           into : Spellings]
    <2>1. Program \in Seq(Steps)
      BY MigrationsAssumption
    <2>2. step \in Steps
      <3> HIDE DEF Steps
      <3> QED  BY <2>1
    <2> HIDE DEF step
    <2> QED  BY <2>2
  <1> SUFFICES Good(Apply(step, d), S)
    OBVIOUS
  <1> HIDE DEF step
  <1>2. CASE step.kind \in {"mark", "consolidate"}
    <2>1. CASE step.kind = "mark"
      <3>1. Apply(step, d) = MarkLadders(d)
        BY <2>1 DEF Apply
      <3> QED  BY <3>1, MarkLaddersKeeps
    <2>2. CASE step.kind = "consolidate"
      <3>1. Apply(step, d) = Consolidate(d)
        BY <2>2 DEF Apply
      <3> QED  BY <3>1, ConsolidateKeeps
    <2> QED  BY <1>2, <2>1, <2>2
  <1>3. CASE step.kind = "relink" /\ step.comp \in Competitions
    <2>1. Apply(step, d) = Relink(d, step.comp)
      BY <1>3 DEF Apply
    <2> QED  BY <1>3, <2>1, RelinkKeeps
  <1>4. CASE step.kind = "correct" /\ step.slot \in Slots /\ step.comp \in Competitions
    <2>1. Apply(step, d) = Correct(d, step.slot, step.comp)
      BY <1>4 DEF Apply
    <2> QED  BY <1>4, <2>1, CorrectKeeps
  <1>5. CASE step.kind = "alias" /\ step.from \in Spellings
    <2>1. Apply(step, d) = AttachAlias(d, step.from, step.into)
      BY <1>5 DEF Apply
    <2> QED  BY <1>5, <2>1, AttachAliasKeeps
  <1>6. CASE step.kind = "merge"
    <2>1. Apply(step, d) = IF Foldable(d, step.from, step.into)
                           THEN MergeTeam(d, step.from, step.into) ELSE d
      BY <1>6 DEF Apply
    <2> QED  BY <2>1, MergeTeamKeeps DEF Foldable, Present
  <1>7. CASE step.kind = "fold"
    <2>1. Apply(step, d) = IF Foldable(d, step.from, step.into)
                           THEN FoldTeam(d, step.from, step.into) ELSE d
      BY <1>7 DEF Apply
    <2> QED  BY <2>1, FoldTeamKeeps DEF Foldable, Present
  <1>8. CASE step.kind = "split" /\ step.into \in Spellings
    <2>1. Apply(step, d) = IF Present(d, step.from)
                           THEN SplitTeam(d, step.from, step.comp, step.into) ELSE d
      BY <1>8 DEF Apply
    <2> QED  BY <1>8, <2>1, SplitTeamKeeps DEF Present
  <1> QED  BY <1>1, <1>2, <1>3, <1>4, <1>5, <1>6, <1>7, <1>8

(* All the data steps of one upgrade.                                      *)
LEMMA MigratedKeeps ==
  ASSUME NEW S, NEW d, Good(d, S), NEW steps
  PROVE  Good(Migrated(d, steps), S)
  <1> DEFINE D == DOMAIN Program
             seq == [i \in D |-> i]
             run(e, i) == IF i \in steps THEN Apply(Program[i], e) ELSE e
             step(g, s) == IF s = {} THEN d ELSE run(g[s \ {Max(s)}], seq[Max(s)])
             Solves(g) == g = [s \in SUBSET D |-> step(g, s)]
             iter == CHOOSE g : Solves(g)
             T == TableSet(S)
             F == [i \in D |-> [e \in T |-> run(e, i)]]
             pick == [s \in SUBSET D |-> Max(s)]
  <1>1. D = 1..Len(Program) /\ Len(Program) \in Nat
    BY MigrationsAssumption
  <1>2. IsFiniteSet(D)
    BY <1>1, FS_Interval
  <1>3. \A s \in SUBSET D : s # {} => Max(s) \in s
    BY <1>1, MaxIsMember
  <1>4. Migrated(d, steps) = iter[D]
    BY DEF Migrated, FoldLeft, MapThenFoldSet
  <1>5. d \in T
    BY TablesAreASet
  <1>6. \A i \in D, e \in T : run(e, i) \in T
    BY TablesAreASet, ApplyKeeps
  <1> HIDE DEF D, T, run
  <1>7. F \in [D -> [T -> T]]
    BY <1>6
  <1>8. \A s \in SUBSET D : s # {} => pick[s] \in s /\ pick[s] = Max(s) /\ seq[Max(s)] = Max(s)
    BY <1>3
  <1> HIDE DEF seq
  <1>9. \E g : Solves(g)
    <2> HIDE DEF F, pick
    <2>1. PICK g \in [SUBSET D -> T] : Folds(D, F, d, pick, g)
      BY <1>2, <1>5, <1>7, <1>8, FoldExists
    <2>2. \A s \in SUBSET D : g[s] = step(g, s)
      <3> SUFFICES ASSUME NEW s \in SUBSET D PROVE g[s] = step(g, s)
        OBVIOUS
      <3>1. CASE s = {}
        BY <2>1, <3>1 DEF Folds
      <3>2. CASE s # {}
        <4>1. g[s] = F[pick[s]][g[s \ {pick[s]}]]
          BY <2>1, <3>2 DEF Folds
        <4>2. pick[s] = Max(s) /\ seq[Max(s)] = Max(s) /\ Max(s) \in D /\ g[s \ {Max(s)}] \in T
          BY <1>8, <3>2
        <4> QED  BY <3>2, <4>1, <4>2 DEF F
      <3> QED  BY <3>1, <3>2
    <2> HIDE DEF step
    <2>3. Solves(g)
      BY <2>2
    <2> HIDE DEF Solves
    <2> QED  BY <2>3
  <1>10. Solves(iter)
    <2> HIDE DEF Solves
    <2> QED  BY <1>9
  <1>11. \A s \in SUBSET D : iter[s] = step(iter, s)
    <2> HIDE DEF iter, step
    <2> QED  BY <1>10
  <1>12. \A s \in SUBSET D :
           /\ s = {} => iter[s] = d
           /\ s # {} /\ iter[s \ {pick[s]}] \in T => iter[s] \in T
    <2> HIDE DEF iter, pick
    <2> SUFFICES ASSUME NEW s \in SUBSET D
                 PROVE  /\ s = {} => iter[s] = d
                        /\ s # {} /\ iter[s \ {pick[s]}] \in T => iter[s] \in T
      OBVIOUS
    <2>1. iter[s] = step(iter, s)
      BY <1>11
    <2>2. CASE s = {}
      BY <2>1, <2>2
    <2>3. CASE s # {}
      <3>1. pick[s] = Max(s) /\ seq[Max(s)] = Max(s) /\ Max(s) \in D
        BY <1>8, <2>3
      <3>2. iter[s] = run(iter[s \ {Max(s)}], Max(s))
        BY <2>1, <2>3, <3>1
      <3> QED  BY <1>6, <2>3, <3>1, <3>2
    <2> QED  BY <2>2, <2>3
  <1>13. iter[D] \in T
    <2> HIDE DEF iter, pick
    <2> QED  BY <1>2, <1>5, <1>8, <1>12, FoldStays, ZenonT(60)
  <1> QED  BY <1>4, <1>13, TablesAreASet DEF T

------------------------------------------------------------------------------
(* The promotion of a slate.                                               *)

LEMMA MostPlayedIsCompetition ==
  ASSUME NEW d, MatchesOK(d), NEW rows \in SUBSET Matches(d)
  PROVE  MostPlayed(d, rows) \in Competitions
  <1> DEFINE count(c) == Cardinality({i \in rows : d.matches[i].comp = c})
             missing == [c \in Competitions |-> Cardinality(rows) - count(c)]
  <1>1. IsFiniteSet(rows) /\ Cardinality(rows) \in Nat
    BY FS_Subset, FS_CardinalityType DEF MatchesOK
  <1>2. \A c : count(c) \in Nat /\ count(c) <= Cardinality(rows)
    <2> SUFFICES ASSUME NEW c PROVE count(c) \in Nat /\ count(c) <= Cardinality(rows)
      OBVIOUS
    <2> DEFINE some == {i \in rows : d.matches[i].comp = c}
    <2>1. some \in SUBSET rows
      OBVIOUS
    <2> HIDE DEF some
    <2>2. Cardinality(some) \in Nat /\ Cardinality(some) <= Cardinality(rows)
      BY <1>1, <2>1, Sizes
    <2> QED  BY <2>2 DEF some
  <1>3. MostPlayed(d, rows) =
          IF rows = {} THEN Concurso
          ELSE CHOOSE c \in Competitions : \A e \in Competitions : count(e) <= count(c)
    BY DEF MostPlayed
  <1> HIDE DEF count
  <1>4. \E c \in Competitions : \A e \in Competitions : count(e) <= count(c)
    <2>1. Competitions # {} /\ \A c \in Competitions : missing[c] \in Nat
      BY <1>1, <1>2, FixturesAssumption
    <2>2. \E c \in Competitions : \A e \in Competitions : missing[c] <= missing[e]
      <3> HIDE DEF missing
      <3> QED  BY <2>1, LeastByRank
    <2>3. PICK c \in Competitions : \A e \in Competitions : missing[c] <= missing[e]
      BY <2>2
    <2>4. \A e \in Competitions : count(e) <= count(c)
      <3> SUFFICES ASSUME NEW e \in Competitions PROVE count(e) <= count(c)
        OBVIOUS
      <3>1. Cardinality(rows) - count(c) <= Cardinality(rows) - count(e)
        BY <2>3
      <3> QED  BY <1>1, <1>2, <3>1
    <2> QED  BY <2>4
  <1> QED  BY <1>3, <1>4, FixturesAssumption

LEMMA InferCompetitionIsCompetition ==
  ASSUME NEW d, MatchesOK(d), NEW home, NEW away
  PROVE  InferCompetition(d, home, away) \in Competitions
  <1>1. \A r : PlayedBy(d, r) \subseteq Matches(d)
    BY DEF PlayedBy, RealRows
  <1>2. \E rows \in SUBSET Matches(d) : InferCompetition(d, home, away) = MostPlayed(d, rows)
    BY <1>1 DEF InferCompetition
  <1> QED  BY <1>2, MostPlayedIsCompetition

LEMMA UpcomingIsRow ==
  ASSUME NEW d, MatchesOK(d), NEW home, NEW away, NEW cierre
  PROVE  /\ Upcoming(d, home, away, cierre) \in Matches(d) \cup {0}
         /\ Upcoming(d, home, away, cierre) # 0 => Nobody \notin {home, away}
  <1> DEFINE rows == {i \in RealRows(d) : /\ d.matches[i].home = home /\ d.matches[i].away = away
                                          /\ cierre - Before <= d.matches[i].day
                                          /\ d.matches[i].day <= cierre + After}
             days == [i \in rows |-> d.matches[i].day]
  <1>1. Upcoming(d, home, away, cierre) =
          IF Nobody \in {home, away} \/ rows = {} THEN 0 ELSE FirstBy(rows, days)
    BY DEF Upcoming
  <1>2. rows \subseteq Matches(d)
    BY DEF RealRows
  <1>3. \A i \in rows : days[i] \in Nat
    BY <1>2 DEF MatchesOK, MatchRow
  <1> HIDE DEF rows, days
  <1>4. rows # {} => FirstBy(rows, days) \in rows
    BY <1>3, FirstByIsMember
  <1> QED  BY <1>1, <1>2, <1>4

(* What a position asks for has the form of a row.                         *)
LEMMA PayloadTyped ==
  ASSUME NEW S, NEW d, Good(d, S), NEW pair \in Spellings \X Spellings,
         NEW cierre \in Nat, NEW position \in Nat \ {0}
  PROVE  Payload(d, pair, cierre, position) \in MatchRow
  <1> DEFINE home == FindTeam(d, pair[1])
             away == FindTeam(d, pair[2])
             found == Upcoming(d, home, away, cierre)
             guess == InferCompetition(d, home, away)
             day == FallbackKickoff(cierre, position)
  <1>1. MatchesOK(d) /\ TeamsOK(d) /\ AliasesInUse(d)
    BY DEF Good
  <1>2. pair[1] \in Spellings /\ pair[2] \in Spellings
    OBVIOUS
  <1>3. home \in Spellings \cup {Nobody} /\ away \in Spellings \cup {Nobody}
    BY <1>1, <1>2, FindTeamInUse DEF TeamsOK
  <1>4. Payload(d, pair, cierre, position) =
          IF found # 0
          THEN [comp |-> d.matches[found].comp, home |-> home, away |-> away,
                day |-> d.matches[found].day, marked |-> FALSE]
          ELSE [comp |-> guess, home |-> pair[1], away |-> pair[2], day |-> day, marked |-> TRUE]
    BY DEF Payload
  <1>5. day \in Nat
    BY FixturesAssumption DEF FallbackKickoff
  <1> HIDE DEF home, away, day
  <1>6. guess \in Competitions
    BY <1>1, InferCompetitionIsCompetition
  <1>7. found \in Matches(d) \cup {0} /\ (found # 0 => home # Nobody /\ away # Nobody)
    BY <1>1, UpcomingIsRow
  <1> HIDE DEF found, guess
  <1>8. found # 0 => d.matches[found].comp \in Competitions /\ d.matches[found].day \in Nat
    BY <1>1, <1>7 DEF MatchesOK, MatchRow
  <1> QED  BY <1>2, <1>3, <1>4, <1>5, <1>6, <1>7, <1>8 DEF MatchRow

(* The link of a slate that is being written may be any row.               *)
LEMMA LinkKeeps ==
  ASSUME NEW S, NEW d, Good(d, S), NEW slot \in Slots, slot[1] \notin S, NEW i \in Matches(d)
  PROVE  Good([d EXCEPT !.links[slot] = i], S)
  <1> DEFINE links == [d.links EXCEPT ![slot] = i]
             e == [d EXCEPT !.links = links]
  <1>1. Shape(d) /\ TeamsOK(d) /\ AliasesInUse(d) /\ MatchesOK(d) /\ ResultsOK(d) /\ LinksOK(d, S)
    BY DEF Good
  <1>2. links \in [Slots -> Matches(d) \cup {0}] /\ \A a \in Slots : a # slot => links[a] = d.links[a]
    BY <1>1 DEF LinksOK
  <1>3. [d EXCEPT !.links[slot] = i] = e
    BY <1>1 DEF Shape
  <1> HIDE DEF links
  <1>4. /\ Shape(e) /\ e.matches = d.matches /\ e.results = d.results /\ e.links = links
        /\ e.teams = d.teams /\ e.marked = d.marked /\ e.renamed = d.renamed /\ e.alias = d.alias
    BY <1>1, WriteLinks
  <1> HIDE DEF e
  <1>5. TeamsOK(e) /\ AliasesInUse(e)
    BY <1>1, <1>4, SameTeams
  <1>6. Matches(e) = Matches(d) /\ MatchesOK(e) /\ ResultsOK(e)
    BY <1>1, <1>4 DEF Matches, MatchesOK, ResultsOK
  <1>7. LinksOK(e, S)
    BY <1>1, <1>2, <1>4, <1>6 DEF LinksOK
  <1> QED  BY <1>3, <1>4, <1>5, <1>6, <1>7 DEF Good

LEMMA PlaceKeeps ==
  ASSUME NEW S, NEW d, Good(d, S), NEW slot \in Slots, slot[1] \notin S, NEW item \in MatchRow
  PROVE  Good(Place(d, slot, item), S)
  <1> DEFINE known == ResolveBoth(d, item.home, item.away, item.marked)
             home == FindTeam(known, item.home)
             away == FindTeam(known, item.away)
             m == [item EXCEPT !.home = home, !.away = away]
             exact == FindByIdentity(known, m)
             found == IF exact # 0 THEN exact ELSE FindNearIdentity(known, m)
             row == [known.matches[found] EXCEPT !.marked = @ /\ item.marked]
             rows == [known.matches EXCEPT ![found] = row]
             e == [known EXCEPT !.matches = rows]
  <1>1. item.home \in Spellings /\ item.away \in Spellings /\ item.marked \in BOOLEAN
    BY DEF MatchRow
  <1>2. Good(known, S) /\ home \in known.teams /\ away \in known.teams
    BY <1>1, ResolveBothKeeps
  <1>3. MatchesOK(known) /\ known.teams \subseteq Spellings
    BY <1>2 DEF Good, TeamsOK
  <1>4. Place(d, slot, item) =
          IF found = 0
          THEN [Insert(known, m) EXCEPT !.links[slot] = NewId(known)]
          ELSE [known EXCEPT !.links[slot] = found, !.matches[found].marked = @ /\ item.marked]
    BY DEF Place
  <1> HIDE DEF known, home, away
  <1>5. m \in MatchRow /\ m.home = home /\ m.away = away
    BY <1>2, <1>3 DEF MatchRow
  <1> HIDE DEF m
  <1>6. exact \in Matches(known) \cup {0} /\ (exact = 0 => WithIdentity(known, m) = {})
    BY <1>3, IdentityIsRow
  <1>7. FindNearIdentity(known, m) \in Matches(known) \cup {0}
    <2>1. RealRows(known) \in SUBSET Matches(known)
      BY DEF RealRows
    <2>2. FindNearIdentity(known, m) \in RealRows(known) \cup {0}
      BY <1>3, <1>5, <2>1, NearestIsRow DEF FindNearIdentity
    <2> QED  BY <2>1, <2>2
  <1>8. found \in Matches(known) \cup {0} /\ (found = 0 => exact = 0)
    BY <1>6, <1>7
  <1> HIDE DEF exact, found
  <1>9. CASE found = 0
    <2>1. Good(Insert(known, m), S) /\ NewId(known) \in Matches(Insert(known, m))
      BY <1>2, <1>5, <1>6, <1>8, <1>9, InsertKeeps
    <2> QED  BY <1>4, <1>9, <2>1, LinkKeeps
  <1>10. CASE found # 0
    <2>1. found \in Matches(known)
      BY <1>8, <1>10
    <2>2. known.matches \in [Matches(known) -> MatchRow]
      BY <1>3 DEF MatchesOK
    <2>3. known.matches[found] \in MatchRow
      BY <2>1, <2>2
    <2>4. /\ row \in MatchRow
          /\ row.comp = known.matches[found].comp /\ row.home = known.matches[found].home
          /\ row.away = known.matches[found].away /\ row.day = known.matches[found].day
      BY <1>1, <2>3 DEF MatchRow
    <2> HIDE DEF row
    <2>5. /\ rows \in [Matches(known) -> MatchRow]
          /\ \A i \in Matches(known) : rows[i] = IF i = found THEN row ELSE known.matches[i]
      BY <2>1, <2>2, <2>4
    <2> HIDE DEF rows
    <2>6. \A i \in Matches(known) :
            /\ rows[i].comp = known.matches[i].comp /\ rows[i].day = known.matches[i].day
            /\ rows[i].home = known.matches[i].home /\ rows[i].away = known.matches[i].away
      BY <2>4, <2>5
    <2>7. /\ \A i \in Matches(known) : {rows[i].home, rows[i].away} \subseteq known.teams
          /\ \A i, j \in Matches(known) : SameIdentity(rows[i], rows[j]) => i = j
      BY <1>3, <2>6 DEF MatchesOK, SameIdentity, SameFixture
    <2>8. Good(e, S) /\ Matches(e) = Matches(known)
      BY <1>2, <2>5, <2>7, RewriteKeeps DEF SameBut
    <2>9. [known EXCEPT !.links[slot] = found, !.matches[found].marked = @ /\ item.marked]
            = [e EXCEPT !.links[slot] = found]
      <3>1. Shape(known)
        BY <1>2 DEF Good
      <3> QED  BY <3>1 DEF Shape, rows, row
    <2> HIDE DEF e
    <2>10. Good([e EXCEPT !.links[slot] = found], S)
      BY <2>1, <2>8, LinkKeeps
    <2> QED  BY <1>4, <1>10, <2>9, <2>10
  <1> QED  BY <1>9, <1>10

(* A slate with no links yet, whose positions take theirs one by one.      *)
LEMMA PromotedKeeps ==
  ASSUME NEW d, Good(d, DOMAIN Draws), NEW t \in DOMAIN Draws
  PROVE  Good(Promoted(d, t), DOMAIN Draws \ {t})
  <1> DEFINE S == DOMAIN Draws \ {t}
             n == Len(Draws[t].pairs)
             D == 1..n
             items == [p \in D |-> Payload(d, Draws[t].pairs[p], Draws[t].cierre, p)]
             links == [slot \in Slots |-> IF slot[1] = t THEN 0 ELSE d.links[slot]]
             base == [d EXCEPT !.links = links]
             run(e, p) == Place(e, <<t, p>>, items[p])
             seq == [p \in D |-> p]
             step(g, s) == IF s = {} THEN base ELSE run(g[s \ {Max(s)}], seq[Max(s)])
             Solves(g) == g = [s \in SUBSET D |-> step(g, s)]
             iter == CHOOSE g : Solves(g)
             T == TableSet(S)
             F == [p \in D |-> [e \in T |-> run(e, p)]]
             pick == [s \in SUBSET D |-> Max(s)]
  <1>1. /\ Draws[t].cierre \in Nat /\ n \in Nat
        /\ \A p \in D : Draws[t].pairs[p] \in Spellings \X Spellings
    BY FixturesAssumption
  <1>2. IsFiniteSet(D)
    BY <1>1, FS_Interval
  <1>3. \A s \in SUBSET D : s # {} => Max(s) \in s
    BY <1>1, MaxIsMember
  <1>4. \A p \in D : items[p] \in MatchRow /\ <<t, p>> \in Slots
    <2> SUFFICES ASSUME NEW p \in D PROVE items[p] \in MatchRow /\ <<t, p>> \in Slots
      OBVIOUS
    <2>1. p \in Nat \ {0}
      BY <1>1
    <2>2. Payload(d, Draws[t].pairs[p], Draws[t].cierre, p) \in MatchRow
      BY <1>1, <2>1, PayloadTyped
    <2>3. <<t, p>> \in Slots
      BY DEF Slots
    <2> QED  BY <2>2, <2>3
  <1>5. Promoted(d, t) = iter[D]
    <2>1. Len(items) = n
      BY <1>1
    <2>2. [p \in 1..Len(items) |-> p] = seq
      BY <2>1
    <2>3. Promoted(d, t) = FoldLeft(run, base, seq)
      BY <2>2, Zenon DEF Promoted
    <2>4. DOMAIN seq = D
      OBVIOUS
    <2> QED  BY <2>3, <2>4 DEF FoldLeft, MapThenFoldSet
  <1>6. Good(base, S)
    <2>1. Shape(d) /\ TeamsOK(d) /\ AliasesInUse(d) /\ MatchesOK(d) /\ ResultsOK(d)
          /\ LinksOK(d, DOMAIN Draws)
      BY DEF Good
    <2>2. links \in [Slots -> Matches(d) \cup {0}]
          /\ \A a \in Slots : a[1] # t => links[a] = d.links[a]
      BY <2>1 DEF LinksOK
    <2> HIDE DEF links
    <2>3. /\ Shape(base) /\ base.matches = d.matches /\ base.results = d.results /\ base.links = links
          /\ base.teams = d.teams /\ base.marked = d.marked /\ base.renamed = d.renamed
          /\ base.alias = d.alias
      BY <2>1, WriteLinks
    <2> HIDE DEF base
    <2>4. TeamsOK(base) /\ AliasesInUse(base)
      BY <2>1, <2>3, SameTeams
    <2>5. Matches(base) = Matches(d) /\ MatchesOK(base) /\ ResultsOK(base)
      BY <2>1, <2>3 DEF Matches, MatchesOK, ResultsOK
    <2>6. LinksOK(base, S)
      BY <2>1, <2>2, <2>3, <2>5 DEF LinksOK
    <2> QED  BY <2>3, <2>4, <2>5, <2>6 DEF Good
  <1> HIDE DEF items, base, n
  <1>7. base \in T
    BY <1>6, TablesAreASet
  <1>8. \A p \in D, e \in T : run(e, p) \in T
    <2> SUFFICES ASSUME NEW p \in D, NEW e \in T PROVE run(e, p) \in T
      OBVIOUS
    <2>1. Good(e, S)
      BY TablesAreASet
    <2> DEFINE slot == <<t, p>>
    <2>2. slot \in Slots /\ slot[1] \notin S /\ items[p] \in MatchRow
      BY <1>4
    <2> HIDE DEF slot, S
    <2>3. Good(Place(e, slot, items[p]), S)
      BY <2>1, <2>2, PlaceKeeps
    <2> QED  BY <2>3, TablesAreASet DEF slot
  <1> HIDE DEF D, T, S, run
  <1>9. F \in [D -> [T -> T]]
    BY <1>8
  <1>10. \A s \in SUBSET D : s # {} => pick[s] \in s /\ pick[s] = Max(s) /\ seq[Max(s)] = Max(s)
    BY <1>3
  <1> HIDE DEF seq
  <1>11. \E g : Solves(g)
    <2> HIDE DEF F, pick
    <2>1. PICK g \in [SUBSET D -> T] : Folds(D, F, base, pick, g)
      BY <1>2, <1>7, <1>9, <1>10, FoldExists
    <2>2. \A s \in SUBSET D : g[s] = step(g, s)
      <3> SUFFICES ASSUME NEW s \in SUBSET D PROVE g[s] = step(g, s)
        OBVIOUS
      <3>1. CASE s = {}
        BY <2>1, <3>1 DEF Folds
      <3>2. CASE s # {}
        <4>1. g[s] = F[pick[s]][g[s \ {pick[s]}]]
          BY <2>1, <3>2 DEF Folds
        <4>2. pick[s] = Max(s) /\ seq[Max(s)] = Max(s) /\ Max(s) \in D /\ g[s \ {Max(s)}] \in T
          BY <1>10, <3>2
        <4> QED  BY <3>2, <4>1, <4>2 DEF F
      <3> QED  BY <3>1, <3>2
    <2> HIDE DEF step
    <2>3. Solves(g)
      BY <2>2
    <2> HIDE DEF Solves
    <2> QED  BY <2>3
  <1>12. Solves(iter)
    <2> HIDE DEF Solves
    <2> QED  BY <1>11
  <1>13. \A s \in SUBSET D : iter[s] = step(iter, s)
    <2> HIDE DEF iter, step
    <2> QED  BY <1>12
  <1>14. \A s \in SUBSET D :
           /\ s = {} => iter[s] = base
           /\ s # {} /\ iter[s \ {pick[s]}] \in T => iter[s] \in T
    <2> HIDE DEF iter, pick
    <2> SUFFICES ASSUME NEW s \in SUBSET D
                 PROVE  /\ s = {} => iter[s] = base
                        /\ s # {} /\ iter[s \ {pick[s]}] \in T => iter[s] \in T
      OBVIOUS
    <2>1. iter[s] = step(iter, s)
      BY <1>13
    <2>2. CASE s = {}
      BY <2>1, <2>2
    <2>3. CASE s # {}
      <3>1. pick[s] = Max(s) /\ seq[Max(s)] = Max(s) /\ Max(s) \in D
        BY <1>10, <2>3
      <3>2. iter[s] = run(iter[s \ {Max(s)}], Max(s))
        BY <2>1, <2>3, <3>1
      <3> QED  BY <1>8, <2>3, <3>1, <3>2
    <2> QED  BY <2>2, <2>3
  <1>15. iter[D] \in T
    <2> HIDE DEF iter, pick
    <2> QED  BY <1>2, <1>7, <1>10, <1>14, FoldStays, ZenonT(60)
  <1> QED  BY <1>5, <1>15, TablesAreASet DEF T, S

(* The unique key of the links completes what the promotion of a slate keeps. *)
LEMMA PromoteSlateKeeps ==
  ASSUME Good(db, DOMAIN Draws), NEW s \in DOMAIN Draws, PromoteSlate(s)
  PROVE  Good(db', DOMAIN Draws)
  <1> DEFINE d == Promoted(db, s)
  <1>1. /\ db' = d
        /\ \A p, q \in 1..Len(Draws[s].pairs) : d.links[<<s, p>>] = d.links[<<s, q>>] => p = q
    BY DEF PromoteSlate
  <1>2. Good(d, DOMAIN Draws \ {s})
    BY PromotedKeeps
  <1> HIDE DEF d
  <1>3. LinksOK(d, DOMAIN Draws)
    <2> SUFFICES ASSUME NEW a \in Slots, NEW b \in Slots, a[1] = b[1], d.links[a] = d.links[b],
                        d.links[a] # 0
                 PROVE  a = b
      BY <1>2 DEF Good, LinksOK
    <2>1. \A c \in Slots : c[1] \in DOMAIN Draws /\ (c[1] = s => \E p \in 1..Len(Draws[s].pairs) : c = <<s, p>>)
      BY DEF Slots
    <2>2. CASE a[1] # s
      BY <1>2, <2>1, <2>2 DEF Good, LinksOK
    <2>3. CASE a[1] = s
      <3>1. PICK p, q \in 1..Len(Draws[s].pairs) : a = <<s, p>> /\ b = <<s, q>>
        BY <2>1, <2>3
      <3> QED  BY <1>1, <3>1
    <2> QED  BY <2>2, <2>3
  <1> QED  BY <1>1, <1>2, <1>3 DEF Good

------------------------------------------------------------------------------
(* The repairs.                                                            *)

LEMMA RelinkSlateKeeps ==
  ASSUME Good(db, DOMAIN Draws), NEW slot \in Slots, NEW side \in {"home", "away"},
         NEW into \in db.teams, RelinkSlate(slot, side, into)
  PROVE  Good(db', DOMAIN Draws)
  <1> DEFINE i == db.links[slot]
             m == [db.matches[i] EXCEPT ![side] = into]
             rows == [db.matches EXCEPT ![i] = m]
  <1>1. /\ MatchesOK(db) /\ LinksOK(db, DOMAIN Draws) /\ db.teams \subseteq Spellings
    BY DEF Good, TeamsOK
  <1>2. /\ i # 0 /\ WithIdentity(db, m) = {}
        /\ db' = [db EXCEPT !.matches[i] = m]
    BY DEF RelinkSlate, Repair
  <1>3. i \in Matches(db)
    BY <1>1, <1>2 DEF LinksOK
  <1>4. db' = [db EXCEPT !.matches = rows]
    <2>1. Shape(db)
      BY DEF Good
    <2> QED  BY <1>2, <2>1 DEF Shape
  <1> HIDE DEF i
  <1>5. /\ m \in MatchRow
        /\ {m.home, m.away} \subseteq {into, db.matches[i].home, db.matches[i].away}
    <2>1. db.matches[i] \in MatchRow /\ into \in Spellings
      BY <1>1, <1>3 DEF MatchesOK
    <2>2. m = [db.matches[i] EXCEPT !.home = into] \/ m = [db.matches[i] EXCEPT !.away = into]
      OBVIOUS
    <2> QED  BY <2>1, <2>2 DEF MatchRow
  <1>6. \A j \in Matches(db) : ~SameIdentity(db.matches[j], m)
    BY <1>2 DEF WithIdentity
  <1> HIDE DEF m
  <1>7. /\ rows \in [Matches(db) -> MatchRow]
        /\ \A j \in Matches(db) : rows[j] = IF j = i THEN m ELSE db.matches[j]
    BY <1>1, <1>3, <1>5 DEF MatchesOK
  <1> HIDE DEF rows
  <1>8. \A j \in Matches(db) : {rows[j].home, rows[j].away} \subseteq db.teams
    BY <1>1, <1>3, <1>5, <1>7 DEF MatchesOK
  <1>9. \A j, k \in Matches(db) : SameIdentity(rows[j], rows[k]) => j = k
    BY <1>1, <1>6, <1>7 DEF MatchesOK, SameIdentity, SameFixture
  <1> QED  BY <1>4, <1>7, <1>8, <1>9, RewriteKeeps

LEMMA RepointCompetitionsKeeps ==
  ASSUME Good(db, DOMAIN Draws), NEW s \in DOMAIN Draws, RepointCompetitions(s)
  PROVE  Good(db', DOMAIN Draws)
  <1> DEFINE named(r) == IF r \in db.renamed THEN r ELSE FindTeam(db, r)
             guess(i) == InferCompetition(db, named(db.matches[i].home), named(db.matches[i].away))
             some == {i \in Linked(db, s) : db.matches[i].marked /\ guess(i) # db.matches[i].comp}
             rows == [i \in Matches(db) |->
                        IF i \in some THEN [db.matches[i] EXCEPT !.comp = guess(i)] ELSE db.matches[i]]
  <1>1. MatchesOK(db)
    BY DEF Good
  <1>2. \A i : guess(i) \in Competitions
    BY <1>1, InferCompetitionIsCompetition
  <1>3. Shape(db) /\ [db EXCEPT !.matches = rows].matches = rows
    <2>1. Shape(db)
      BY DEF Good
    <2> HIDE DEF rows
    <2> QED  BY <2>1, WriteMatches
  <1>4. /\ db' = [db EXCEPT !.matches = rows]
        /\ \A i, j \in Matches(db) : SameIdentity(rows[i], rows[j]) => i = j
    <2> DEFINE tables == [db EXCEPT !.matches = rows]
    <2>1. db' = tables
          /\ \A i, j \in Matches(db) : SameIdentity(tables.matches[i], tables.matches[j]) => i = j
      BY DEF RepointCompetitions, Repair
    <2>2. tables.matches = rows
      BY <1>3
    <2> HIDE DEF tables, rows
    <2>3. \A i, j \in Matches(db) : SameIdentity(rows[i], rows[j]) => i = j
      BY <2>1, <2>2
    <2> QED  BY <2>1, <2>3 DEF tables
  <1> HIDE DEF guess, some
  <1>5. /\ rows \in [Matches(db) -> MatchRow]
        /\ \A i \in Matches(db) : {rows[i].home, rows[i].away} \subseteq db.teams
    BY <1>1, <1>2 DEF MatchesOK, MatchRow
  <1> HIDE DEF rows
  <1> QED  BY <1>4, <1>5, RewriteKeeps

(* Nothing refers to a row that is pruned.                                 *)
LEMMA PruneOrphanKeeps ==
  ASSUME Good(db, DOMAIN Draws), NEW i \in Matches(db), PruneOrphan(i)
  PROVE  Good(db', DOMAIN Draws)
  <1> DEFINE rows == [j \in Matches(db) \ {i} |-> db.matches[j]]
  <1>1. /\ Shape(db) /\ TeamsOK(db) /\ AliasesInUse(db) /\ MatchesOK(db) /\ ResultsOK(db)
        /\ LinksOK(db, DOMAIN Draws)
    BY DEF Good
  <1>2. /\ \A slot \in Slots : db.links[slot] # i
        /\ \A x \in db.results : x.match # i
        /\ db' = [db EXCEPT !.matches = rows]
    BY DEF PruneOrphan, Repair, IsLinked, Results
  <1>3. /\ DOMAIN rows = Matches(db) \ {i} /\ \A j \in Matches(db) \ {i} : rows[j] = db.matches[j]
        /\ rows \in [Matches(db) \ {i} -> MatchRow]
    BY <1>1 DEF MatchesOK
  <1> HIDE DEF rows
  <1> DEFINE e == [db EXCEPT !.matches = rows]
  <1>4. /\ Shape(e) /\ e.matches = rows /\ e.results = db.results /\ e.links = db.links
        /\ e.teams = db.teams /\ e.marked = db.marked /\ e.renamed = db.renamed /\ e.alias = db.alias
    BY <1>1, WriteMatches
  <1> HIDE DEF e
  <1>5. TeamsOK(e) /\ AliasesInUse(e)
    BY <1>1, <1>4, SameTeams
  <1>6. Matches(e) = Matches(db) \ {i}
    BY <1>3, <1>4 DEF Matches
  <1>7. MatchesOK(e)
    <2>1. IsFiniteSet(Matches(e))
      BY <1>1, <1>6, FS_Subset DEF MatchesOK
    <2> QED  BY <1>1, <1>3, <1>4, <1>6, <2>1 DEF MatchesOK
  <1>8. ResultsOK(e)
    BY <1>1, <1>2, <1>4, <1>6 DEF ResultsOK
  <1>9. LinksOK(e, DOMAIN Draws)
    BY <1>1, <1>2, <1>4, <1>6 DEF LinksOK
  <1> QED  BY <1>2, <1>4, <1>5, <1>7, <1>8, <1>9 DEF Good, e

------------------------------------------------------------------------------
(* The invariant of the tables.                                            *)

TablesInv == Good(db, DOMAIN Draws)

LEMMA TablesInit == Init => TablesInv
  <1> SUFFICES ASSUME Init PROVE TablesInv
    OBVIOUS
  <1>1. CASE db = Empty
    <2>1. \A slot \in Slots : Empty.links[slot] = 0
      BY DEF Empty
    <2>2. Matches(Empty) = {}
      BY DEF Matches, Empty
    <2>3. IsFiniteSet({})
      BY FS_EmptySet
    <2>4. Shape(Empty) /\ TeamsOK(Empty) /\ AliasesInUse(Empty)
      BY FixturesAssumption DEF Shape, TeamsOK, AliasesInUse, Empty, Forms
    <2>5. MatchesOK(Empty)
      <3>1. Empty.matches \in [{} -> MatchRow]
        <4>1. Empty.matches = <<>> /\ <<>> \in Seq(MatchRow) /\ Len(<<>>) = 0
          BY DEF Empty
        <4>2. \A s \in Seq(MatchRow) : s \in [1..Len(s) -> MatchRow]
          OBVIOUS
        <4>3. 1..0 = {}
          OBVIOUS
        <4> QED  BY <4>1, <4>2, <4>3
      <3> QED  BY <2>2, <2>3, <3>1 DEF MatchesOK
    <2>6. ResultsOK(Empty)
      BY <2>3 DEF ResultsOK, Empty
    <2>7. LinksOK(Empty, DOMAIN Draws)
      BY <2>1 DEF LinksOK, Empty
    <2> QED  BY <1>1, <2>4, <2>5, <2>6, <2>7 DEF TablesInv, Good
  <1>2. CASE db \in Legacy
    <2>1. TablesOK(db) /\ db.renamed = {}
      BY <1>2, LegacyAssumption
    <2>2. AliasesInUse(db)
      BY <2>1 DEF AliasesInUse
    <2> QED  BY <2>1, <2>2 DEF TablesInv, Good, Shape, TablesOK
  <1> QED  BY <1>1, <1>2 DEF Init

LEMMA TablesStep == TablesInv /\ [Next]_vars => TablesInv'
  <1> SUFFICES ASSUME Good(db, DOMAIN Draws), [Next]_vars PROVE Good(db', DOMAIN Draws)
    BY DEF TablesInv
  <1>1. CASE UNCHANGED db
    BY <1>1
  <1>2. ASSUME NEW p \in Processes, Migrate(p) PROVE Good(db', DOMAIN Draws)
    <2>1. \E steps : db' = Migrated(db, steps)
      BY <1>2 DEF Migrate
    <2> QED  BY <2>1, MigratedKeeps
  <1>3. ASSUME NEW report \in Reports, PersistRun(report) PROVE Good(db', DOMAIN Draws)
    <2>1. \E within : db' = IngestResult(db, report, within)
      BY <1>3 DEF PersistRun
    <2> QED  BY <2>1, IngestKeeps
  <1>4. ASSUME NEW from \in db.teams, NEW into \in db.teams, MergeDuplicate(from, into)
        PROVE  Good(db', DOMAIN Draws)
    <2>1. Foldable(db, from, into) /\ db' = FoldTeam(db, from, into)
      BY <1>4 DEF MergeDuplicate, Repair
    <2> QED  BY <2>1, FoldTeamKeeps
  <1>5. ASSUME NEW s \in DOMAIN Draws, PromoteSlate(s) PROVE Good(db', DOMAIN Draws)
    BY <1>5, PromoteSlateKeeps
  <1>6. CASE Next
    <2>1. CASE Upgrade
      BY <1>1, <1>2, <2>1 DEF Upgrade, Deploy, Stop, Start
    <2>2. CASE Ingest
      BY <1>3, <2>2 DEF Ingest
    <2>3. CASE Operate
      BY <1>4, <2>3, RelinkSlateKeeps, RepointCompetitionsKeeps, PruneOrphanKeeps DEF Operate
    <2> QED  BY <1>5, <1>6, <2>1, <2>2, <2>3 DEF Next
  <1> QED  BY <1>1, <1>6 DEF vars

(* The tables stay as their columns and keys say, no spelling answers to a *)
(* row that was retired, and every row retired left an owner of its name.  *)
THEOREM TablesInvariant == Spec => []TablesInv
  BY TablesInit, TablesStep, PTL DEF Spec

(* Whatever was ingested, promoted, migrated or repaired, in any order: one *)
(* row per fixture and kickoff, one result per row, source and time, one    *)
(* position per row of a slate, and every reference to a row that is there. *)
THEOREM TablesTyped == Spec => []FixturesTypeOK
  <1>1. TablesInv => FixturesTypeOK
    BY DEF TablesInv, FixturesTypeOK, Good, TablesOK, Shape
  <1> QED  BY <1>1, TablesInvariant, PTL

(* A spelling that was folded away resolves to a row in use ever after.    *)
THEOREM RetiredSpellingsResolve == Spec => []RetiredSpellingIsCanonical
  <1>1. TablesInv => RetiredSpellingIsCanonical
    <2> SUFFICES ASSUME TablesInv, NEW r \in db.renamed
                 PROVE  FindTeam(db, r) \in db.teams \ db.renamed
      BY DEF RetiredSpellingIsCanonical
    <2>1. TeamsOK(db) /\ AliasesInUse(db)
      BY DEF TablesInv, Good
    <2>2. r \in Spellings /\ Owner(db, r) # Nobody
      BY <2>1 DEF TeamsOK, AliasesInUse
    <2> QED  BY <2>1, <2>2, FindTeamInUse
  <1> QED  BY <1>1, TablesInvariant, PTL

------------------------------------------------------------------------------
(* The order of rows.                                                      *)

\* R is a strict total order of S.
Orders(R, S) ==
  /\ \A x \in S : <<x, x>> \notin R
  /\ \A x, y, z \in S : <<x, y>> \in R /\ <<y, z>> \in R => <<x, z>> \in R
  /\ \A x, y \in S : x # y => <<x, y>> \in R \/ <<y, x>> \in R

\* The members of S that come before x.
Under(R, S, x) == {y \in S : <<y, x>> \in R}

(* Each place is taken by the member with as many before it.               *)
LEMMA RankIs ==
  ASSUME NEW S, IsFiniteSet(S), NEW R, Orders(R, S)
  PROVE  /\ Cardinality(S) \in Nat
         /\ \A x, y \in S : <<x, y>> \in R => Cardinality(Under(R, S, x)) < Cardinality(Under(R, S, y))
         /\ \A k \in 1..Cardinality(S) : \E x \in S : Cardinality(Under(R, S, x)) = k - 1
  <1> DEFINE n == Cardinality(S)
             places == 1..n
             rank == [x \in S |-> Cardinality(Under(R, S, x)) + 1]
  <1>1. n \in Nat
    BY FS_CardinalityType
  <1>2. \A x \in S : /\ IsFiniteSet(Under(R, S, x)) /\ Cardinality(Under(R, S, x)) \in Nat
                     /\ Cardinality(Under(R, S, x)) < n
    <2> SUFFICES ASSUME NEW x \in S
                 PROVE  /\ IsFiniteSet(Under(R, S, x)) /\ Cardinality(Under(R, S, x)) \in Nat
                        /\ Cardinality(Under(R, S, x)) < n
      OBVIOUS
    <2> DEFINE U == Under(R, S, x)
    <2>1. U \in SUBSET S /\ x \notin U
      BY DEF Under, Orders
    <2> HIDE DEF U
    <2>2. IsFiniteSet(U) /\ Cardinality(U) <= n /\ n # Cardinality(U)
      BY <2>1, FS_Subset
    <2>3. Cardinality(U) \in Nat
      BY <2>2, FS_CardinalityType
    <2> QED  BY <1>1, <2>2, <2>3 DEF U
  <1>3. ASSUME NEW x \in S, NEW y \in S, <<x, y>> \in R
        PROVE  Cardinality(Under(R, S, x)) < Cardinality(Under(R, S, y))
    <2> DEFINE U == Under(R, S, x)
               V == Under(R, S, y)
    <2>1. U \in SUBSET V /\ x \in V /\ x \notin U
      BY <1>3 DEF Under, Orders
    <2>2. IsFiniteSet(V) /\ Cardinality(V) \in Nat /\ Cardinality(U) \in Nat
      BY <1>2
    <2> HIDE DEF U, V
    <2>3. Cardinality(U) <= Cardinality(V) /\ Cardinality(V) # Cardinality(U)
      BY <2>1, <2>2, FS_Subset
    <2> QED  BY <2>2, <2>3 DEF U, V
  <1>4. rank \in [S -> places] /\ \A x \in S : rank[x] = Cardinality(Under(R, S, x)) + 1
    <2>1. \A x \in S : Cardinality(Under(R, S, x)) + 1 \in places
      BY <1>1, <1>2
    <2> HIDE DEF places
    <2> QED  BY <2>1
  <1> HIDE DEF rank
  <1>5. rank \in Injection(S, places)
    <2>1. \A x, y \in S : rank[x] = rank[y] => x = y
      <3> SUFFICES ASSUME NEW x \in S, NEW y \in S, rank[x] = rank[y], x # y PROVE FALSE
        OBVIOUS
      <3>1. /\ Cardinality(Under(R, S, x)) \in Nat /\ Cardinality(Under(R, S, y)) \in Nat
            /\ Cardinality(Under(R, S, x)) + 1 = Cardinality(Under(R, S, y)) + 1
        BY <1>2, <1>4
      <3>2. <<x, y>> \in R \/ <<y, x>> \in R
        BY DEF Orders
      <3> QED  BY <1>3, <3>1, <3>2
    <2> HIDE DEF places
    <2> QED  BY <1>4, <2>1 DEF Injection, IsInjective
  <1>6. IsFiniteSet(places) /\ Cardinality(places) = n
    BY <1>1, FS_Interval
  <1>7. rank \in Surjection(S, places)
    <2> HIDE DEF places
    <2> QED  BY <1>5, <1>6, FS_Injection
  <1>8. \A k \in places : \E x \in S : rank[x] = k
    <2> HIDE DEF places
    <2> QED  BY <1>7 DEF Surjection
  <1>9. \A k \in places : \E x \in S : Cardinality(Under(R, S, x)) = k - 1
    <2> SUFFICES ASSUME NEW k \in places PROVE \E x \in S : Cardinality(Under(R, S, x)) = k - 1
      OBVIOUS
    <2>1. PICK x \in S : rank[x] = k
      BY <1>8
    <2>2. Cardinality(Under(R, S, x)) \in Nat /\ rank[x] = Cardinality(Under(R, S, x)) + 1
      BY <1>2, <1>4
    <2> QED  BY <2>1, <2>2
  <1> QED  BY <1>1, <1>3, <1>9

(* A function of the first n numbers is a sequence of n.                   *)
LEMMA PlacesIs ==
  ASSUME NEW S, NEW n, n \in Nat, NEW s, s = [k \in 1..n |-> s[k]], \A k \in 1..n : s[k] \in S
  PROVE  s \in Seq(S) /\ Len(s) = n /\ DOMAIN s = 1..Len(s)
  <1>1. s \in Seq(S)
    OBVIOUS
  <1>2. DOMAIN s = 1..n
    OBVIOUS
  <1>3. Len(s) = n
    BY <1>1, <1>2
  <1> QED  BY <1>1, <1>2, <1>3

(* The sequence that puts each member in its place is in order.            *)
LEMMA OrderingIs ==
  ASSUME NEW S, IsFiniteSet(S), NEW R, Orders(R, S), NEW s, s = [k \in 1..Cardinality(S) |-> s[k]],
         \A k \in 1..Cardinality(S) : s[k] \in S /\ Cardinality(Under(R, S, s[k])) = k - 1
  PROVE  /\ s \in Seq(S) /\ Len(s) = Cardinality(S) /\ DOMAIN s = 1..Len(s)
         /\ \A j, k \in 1..Len(s) : j < k => <<s[j], s[k]>> \in R
  <1> DEFINE n == Cardinality(S)
  <1>1. n \in Nat
    BY RankIs
  <1> HIDE DEF n
  <1>2. s = [k \in 1..n |-> s[k]] /\ \A k \in 1..n : s[k] \in S
    BY DEF n
  <1>3. s \in Seq(S) /\ Len(s) = n /\ DOMAIN s = 1..Len(s)
    BY <1>1, <1>2, PlacesIs
  <1>4. ASSUME NEW j \in 1..n, NEW k \in 1..n, j < k PROVE <<s[j], s[k]>> \in R
    <2>1. /\ s[j] \in S /\ s[k] \in S
          /\ Cardinality(Under(R, S, s[j])) = j - 1 /\ Cardinality(Under(R, S, s[k])) = k - 1
      BY DEF n
    <2>2. j \in Int /\ k \in Int
      BY <1>1
    <2>3. ~(j - 1 = k - 1) /\ ~(k - 1 < j - 1)
      BY <1>4, <2>2
    <2>4. s[j] # s[k]
      BY <2>1, <2>3
    <2>5. <<s[j], s[k]>> \in R \/ <<s[k], s[j]>> \in R
      BY <2>1, <2>4 DEF Orders
    <2>6. <<s[k], s[j]>> \in R => Cardinality(Under(R, S, s[k])) < Cardinality(Under(R, S, s[j]))
      BY <2>1, RankIs
    <2> QED  BY <2>1, <2>3, <2>5, <2>6
  <1> QED  BY <1>3, <1>4 DEF n

(* The newest of the results comes first.                                  *)
LEMMA NewestIs ==
  ASSUME NEW S, IsFiniteSet(S), S \subseteq ResultRow, S # {},
         \A x, y \in S : x.match = y.match /\ x.source = y.source /\ x.day = y.day => x = y
  PROVE  NewestFirst(S)[1] \in S /\ \A x \in S : x.day <= NewestFirst(S)[1].day
  <1> DEFINE R == {p \in S \X S : Newer(p[1], p[2])}
             before(x) == {y \in S : Newer(y, x)}
             s == NewestFirst(S)
  <1>1. \A x \in S : x.day \in Nat /\ x.match \in Nat /\ x.source \in Nat
    BY DEF ResultRow
  <1>2. \A x, y \in S : <<x, y>> \in R <=> Newer(x, y)
    OBVIOUS
  <1>3. Orders(R, S)
    <2> HIDE DEF R
    <2>1. \A x \in S : ~Newer(x, x)
      BY <1>1 DEF Newer
    <2>2. \A x, y, z \in S : Newer(x, y) /\ Newer(y, z) => Newer(x, z)
      BY <1>1 DEF Newer
    <2>3. \A x, y \in S : x # y => Newer(x, y) \/ Newer(y, x)
      BY <1>1 DEF Newer
    <2> QED  BY <1>2, <2>1, <2>2, <2>3 DEF Orders
  <1>4. \A x \in S : before(x) = Under(R, S, x)
    BY <1>2 DEF Under
  <1> HIDE DEF R
  <1>5. Cardinality(S) \in Nat /\ Cardinality(S) # 0
    BY FS_CardinalityType, FS_EmptySet
  <1> DEFINE pick(k) == CHOOSE x \in S : Cardinality(before(x)) = k - 1
  <1>6. s = [k \in 1..Cardinality(S) |-> pick(k)]
    BY DEF NewestFirst, Sorted
  <1> HIDE DEF s
  <1>7. \A k \in 1..Cardinality(S) : s[k] \in S /\ Cardinality(Under(R, S, s[k])) = k - 1
    <2> SUFFICES ASSUME NEW k \in 1..Cardinality(S)
                 PROVE  s[k] \in S /\ Cardinality(Under(R, S, s[k])) = k - 1
      OBVIOUS
    <2>1. s[k] = CHOOSE x \in S : Cardinality(before(x)) = k - 1
      BY <1>6
    <2>2. \E x \in S : Cardinality(Under(R, S, x)) = k - 1
      BY <1>3, RankIs
    <2>3. \E x \in S : Cardinality(before(x)) = k - 1
      BY <1>4, <2>2
    <2> HIDE DEF before
    <2>4. s[k] \in S /\ Cardinality(before(s[k])) = k - 1
      BY <2>1, <2>3
    <2> QED  BY <1>4, <2>4
  <1> HIDE DEF pick, before
  <1>8. s = [k \in 1..Cardinality(S) |-> s[k]]
    BY <1>6
  <1>9. Len(s) = Cardinality(S) /\ \A j, k \in 1..Len(s) : j < k => <<s[j], s[k]>> \in R
    BY <1>3, <1>7, <1>8, OrderingIs
  <1>10. s[1] \in S /\ Cardinality(Under(R, S, s[1])) = 0
    BY <1>5, <1>7
  <1>11. Under(R, S, s[1]) = {}
    <2>1. Under(R, S, s[1]) \in SUBSET S
      BY DEF Under
    <2>2. IsFiniteSet(Under(R, S, s[1]))
      BY <2>1, FS_Subset
    <2> QED  BY <1>10, <2>2, FS_EmptySet
  <1>12. ASSUME NEW x \in S PROVE x.day <= s[1].day
    <2>1. x # s[1] => <<s[1], x>> \in R
      BY <1>3, <1>10, <1>11 DEF Orders, Under
    <2>2. x # s[1] => Newer(s[1], x)
      BY <1>2, <1>10, <2>1
    <2>3. x.day \in Nat /\ s[1].day \in Nat
      BY <1>1, <1>10
    <2> QED  BY <2>2, <2>3 DEF Newer
  <1> QED  BY <1>10, <1>12 DEF s

(* Rows by day are all there, and none comes before an earlier one.        *)
LEMMA ByDayIs ==
  ASSUME NEW S, IsFiniteSet(S), S \subseteq Nat, NEW day \in [S -> Nat]
  PROVE  /\ ByDay(day) \in Seq(S) /\ DOMAIN ByDay(day) = 1..Len(ByDay(day))
         /\ \A j, k \in 1..Len(ByDay(day)) : j < k => day[ByDay(day)[j]] <= day[ByDay(day)[k]]
  <1> DEFINE sooner(i, j) == day[i] < day[j] \/ (day[i] = day[j] /\ i < j)
             R == {p \in S \X S : sooner(p[1], p[2])}
             before(x) == {y \in S : sooner(y, x)}
             s == ByDay(day)
  <1>1. \A x \in S : day[x] \in Nat /\ x \in Nat
    OBVIOUS
  <1>2. \A x, y \in S : <<x, y>> \in R <=> sooner(x, y)
    OBVIOUS
  <1>3. Orders(R, S)
    <2> HIDE DEF R
    <2>1. \A x \in S : ~sooner(x, x)
      BY <1>1
    <2>2. \A x, y, z \in S : sooner(x, y) /\ sooner(y, z) => sooner(x, z)
      BY <1>1
    <2>3. \A x, y \in S : x # y => sooner(x, y) \/ sooner(y, x)
      BY <1>1
    <2> HIDE DEF sooner
    <2> QED  BY <1>2, <2>1, <2>2, <2>3 DEF Orders
  <1>4. \A x \in S : before(x) = Under(R, S, x)
    BY <1>2 DEF Under
  <1> HIDE DEF R
  <1> DEFINE pick(k) == CHOOSE x \in S : Cardinality(before(x)) = k - 1
  <1>5. s = [k \in 1..Cardinality(S) |-> pick(k)]
    <2>1. DOMAIN day = S
      OBVIOUS
    <2> QED  BY <2>1 DEF ByDay, Sorted
  <1> HIDE DEF s
  <1>6. \A k \in 1..Cardinality(S) : s[k] \in S /\ Cardinality(Under(R, S, s[k])) = k - 1
    <2> SUFFICES ASSUME NEW k \in 1..Cardinality(S)
                 PROVE  s[k] \in S /\ Cardinality(Under(R, S, s[k])) = k - 1
      OBVIOUS
    <2>1. s[k] = CHOOSE x \in S : Cardinality(before(x)) = k - 1
      BY <1>5
    <2>2. \E x \in S : Cardinality(Under(R, S, x)) = k - 1
      BY <1>3, RankIs
    <2>3. \E x \in S : Cardinality(before(x)) = k - 1
      BY <1>4, <2>2
    <2> HIDE DEF before
    <2>4. s[k] \in S /\ Cardinality(before(s[k])) = k - 1
      BY <2>1, <2>3
    <2> QED  BY <1>4, <2>4
  <1> HIDE DEF pick, before, sooner
  <1>7. s = [k \in 1..Cardinality(S) |-> s[k]]
    BY <1>5
  <1>8. /\ s \in Seq(S) /\ Len(s) = Cardinality(S) /\ DOMAIN s = 1..Len(s)
        /\ \A j, k \in 1..Len(s) : j < k => <<s[j], s[k]>> \in R
    BY <1>3, <1>6, <1>7, OrderingIs
  <1>9. \A j, k \in 1..Len(s) : j < k => day[s[j]] <= day[s[k]]
    <2> SUFFICES ASSUME NEW j \in 1..Len(s), NEW k \in 1..Len(s), j < k PROVE day[s[j]] <= day[s[k]]
      OBVIOUS
    <2>1. s[j] \in S /\ s[k] \in S
      BY <1>8
    <2>2. <<s[j], s[k]>> \in R
      BY <1>8
    <2>3. sooner(s[j], s[k])
      BY <1>2, <2>1, <2>2
    <2>4. day[s[j]] \in Nat /\ day[s[k]] \in Nat
      BY <1>1, <2>1
    <2> QED  BY <2>3, <2>4 DEF sooner
  <1> QED  BY <1>8, <1>9 DEF s

(* What is kept of a sequence was in it.                                   *)
LEMMA AmongIs ==
  ASSUME NEW n \in Nat, NEW rows, DOMAIN rows = 1..n, NEW S
  PROVE  /\ \E m \in Nat : DOMAIN Among(rows, S) = 1..m
         /\ \A k \in DOMAIN Among(rows, S) :
              Among(rows, S)[k] \in S /\ \E j \in 1..n : Among(rows, S)[k] = rows[j]
  <1> DEFINE P == {k \in DOMAIN rows : rows[k] \in S}
             R == {p \in P \X P : p[1] < p[2]}
             before(x) == {y \in P : y < x}
             at == Sorted(P, LAMBDA j, k : j < k)
  <1>1. P \in SUBSET (1..n) /\ \A k \in P : k \in Nat /\ rows[k] \in S
    OBVIOUS
  <1>2. IsFiniteSet(P) /\ Cardinality(P) \in Nat
    <2>1. IsFiniteSet(1..n)
      BY FS_Interval
    <2> HIDE DEF P
    <2>2. IsFiniteSet(P)
      BY <1>1, <2>1, FS_Subset
    <2> QED  BY <2>2, FS_CardinalityType
  <1>3. Among(rows, S) = [k \in DOMAIN at |-> rows[at[k]]]
    BY DEF Among
  <1>4. at = [k \in 1..Cardinality(P) |-> CHOOSE x \in P : Cardinality(before(x)) = k - 1]
    BY DEF Sorted
  <1> HIDE DEF P
  <1>5. \A x, y \in P : <<x, y>> \in R <=> x < y
    OBVIOUS
  <1>6. Orders(R, P)
    <2> HIDE DEF R
    <2> QED  BY <1>1, <1>5 DEF Orders
  <1>7. \A x \in P : before(x) = Under(R, P, x)
    BY <1>5 DEF Under
  <1> HIDE DEF R, at
  <1>8. ASSUME NEW k \in DOMAIN at PROVE at[k] \in P
    <2>0. k \in 1..Cardinality(P)
      BY <1>4
    <2>1. at[k] = CHOOSE x \in P : Cardinality(before(x)) = k - 1
      BY <1>4, <2>0
    <2>2. \E x \in P : Cardinality(Under(R, P, x)) = k - 1
      BY <1>2, <1>6, <2>0, RankIs
    <2>3. \E x \in P : Cardinality(before(x)) = k - 1
      BY <1>7, <2>2
    <2> HIDE DEF before
    <2> QED  BY <2>1, <2>3
  <1>9. ASSUME NEW k \in DOMAIN Among(rows, S)
        PROVE  Among(rows, S)[k] \in S /\ \E j \in 1..n : Among(rows, S)[k] = rows[j]
    <2>1. k \in DOMAIN at /\ Among(rows, S)[k] = rows[at[k]]
      BY <1>3
    <2>2. at[k] \in P
      BY <1>8, <2>1
    <2>3. at[k] \in 1..n /\ rows[at[k]] \in S
      BY <1>1, <2>2
    <2> QED  BY <2>1, <2>3
  <1>10. DOMAIN Among(rows, S) = 1..Cardinality(P)
    BY <1>3, <1>4
  <1> QED  BY <1>2, <1>9, <1>10

------------------------------------------------------------------------------
(* What the past of the fixtures says, had later games ended otherwise.    *)

(* The latest result of a row.                                             *)
LEMMA LatestIs ==
  ASSUME NEW d, ResultsOK(d), NEW i \in Completed(d)
  PROVE  /\ Latest(d, i) \in d.results /\ Latest(d, i) \in ResultRow /\ Latest(d, i).match = i
         /\ \A x \in d.results : x.match = i => x.day <= Latest(d, i).day
  <1> DEFINE S == {x \in d.results : x.match = i}
  <1>1. S # {} /\ S \in SUBSET d.results /\ IsFiniteSet(d.results) /\ S \subseteq ResultRow
    BY DEF Completed, ResultsOK
  <1>2. \A x, y \in S : x.match = y.match /\ x.source = y.source /\ x.day = y.day => x = y
    BY DEF ResultsOK
  <1>3. Latest(d, i) = NewestFirst(S)[1]
    BY DEF Latest
  <1>4. \A x \in d.results : x \in S <=> x.match = i
    OBVIOUS
  <1> HIDE DEF S
  <1>5. IsFiniteSet(S)
    BY <1>1, FS_Subset
  <1>6. NewestFirst(S)[1] \in S /\ \A x \in S : x.day <= NewestFirst(S)[1].day
    BY <1>1, <1>2, <1>5, NewestIs
  <1> QED  BY <1>1, <1>3, <1>4, <1>6

\* A result with the score of Altered, when its game came after t.
Otherwise(x, t) == IF x.day > t THEN [x EXCEPT !.goals = <<7, 0>>] ELSE x

(* Other scores are all that changes, and only after the day.              *)
LEMMA AlteredIs ==
  ASSUME NEW d, Shape(d), ResultsOK(d), NEW t \in Nat
  PROVE  /\ Altered(d, t).matches = d.matches /\ Altered(d, t).teams = d.teams
         /\ Matches(Altered(d, t)) = Matches(d)
         /\ Altered(d, t).results = {Otherwise(x, t) : x \in d.results}
         /\ \A x \in d.results : /\ Otherwise(x, t) \in ResultRow
                                 /\ Otherwise(x, t).match = x.match
                                 /\ Otherwise(x, t).source = x.source
                                 /\ Otherwise(x, t).day = x.day
                                 /\ x.day <= t => Otherwise(x, t) = x
         /\ ResultsOK(Altered(d, t))
  <1> DEFINE late == {Otherwise(x, t) : x \in d.results}
             e == [d EXCEPT !.results = late]
  <1>1. Altered(d, t) = e
    BY DEF Altered, Otherwise, Shape
  <1>2. \A x \in d.results : x \in ResultRow
    BY DEF ResultsOK
  <1>3. \A x \in ResultRow : /\ Otherwise(x, t) \in ResultRow
                             /\ Otherwise(x, t).match = x.match
                             /\ Otherwise(x, t).source = x.source
                             /\ Otherwise(x, t).day = x.day
                             /\ x.day <= t => Otherwise(x, t) = x
    BY DEF Otherwise, ResultRow
  <1> HIDE DEF late
  <1>4. e.matches = d.matches /\ e.teams = d.teams /\ e.results = late
    BY WriteResults
  <1> HIDE DEF e
  <1>5. Matches(e) = Matches(d)
    BY <1>4 DEF Matches
  <1>6. ResultsOK(e)
    <2>1. IsFiniteSet(late)
      <3> DEFINE f == [x \in d.results |-> Otherwise(x, t)]
      <3>1. f \in Surjection(d.results, late)
        BY DEF Surjection, late
      <3> HIDE DEF f
      <3> QED  BY <3>1, FS_Surjection DEF ResultsOK
    <2>2. late \subseteq ResultRow /\ {x.match : x \in late} \subseteq Matches(d)
      BY <1>2, <1>3 DEF late, ResultsOK
    <2>3. \A x, y \in late : x.match = y.match /\ x.source = y.source /\ x.day = y.day => x = y
      BY <1>2, <1>3 DEF late, ResultsOK
    <2> QED  BY <1>4, <1>5, <2>1, <2>2, <2>3 DEF ResultsOK
  <1> QED  BY <1>1, <1>2, <1>3, <1>4, <1>5, <1>6 DEF late

\* Tables that differ in the scores after the day t and in nothing a score is made of.
LikeUntil(e, d, t) ==
  /\ ResultsOK(d) /\ ResultsOK(e)
  /\ e.matches = d.matches /\ e.teams = d.teams
  /\ \A x : x.day \in Nat /\ x.day <= t => (x \in e.results <=> x \in d.results)
  /\ \A x \in d.results : \E y \in e.results : y.match = x.match /\ y.day = x.day
  /\ \A y \in e.results : \E x \in d.results : y.match = x.match /\ y.day = x.day

LEMMA AlteredIsLike ==
  ASSUME NEW d, Shape(d), ResultsOK(d), NEW t \in Nat
  PROVE  LikeUntil(Altered(d, t), d, t)
  <1> DEFINE e == Altered(d, t)
  <1>1. /\ e.matches = d.matches /\ e.teams = d.teams /\ ResultsOK(e)
        /\ e.results = {Otherwise(x, t) : x \in d.results}
        /\ \A x \in d.results : /\ Otherwise(x, t).match = x.match /\ Otherwise(x, t).day = x.day
                                /\ x.day <= t => Otherwise(x, t) = x
    BY AlteredIs
  <1> HIDE DEF e
  <1>2. ASSUME NEW x, x.day \in Nat, x.day <= t PROVE x \in e.results <=> x \in d.results
    <2>1. x \in d.results => x \in e.results
      BY <1>1, <1>2
    <2>2. ASSUME x \in e.results PROVE x \in d.results
      <3>1. PICK y \in d.results : x = Otherwise(y, t)
        BY <1>1, <2>2
      <3>2. y.day <= t
        BY <1>1, <1>2, <3>1
      <3> QED  BY <1>1, <3>1, <3>2
    <2> QED  BY <2>1, <2>2
  <1>3. \A x \in d.results : \E y \in e.results : y.match = x.match /\ y.day = x.day
    BY <1>1
  <1>4. \A y \in e.results : \E x \in d.results : y.match = x.match /\ y.day = x.day
    BY <1>1
  <1> QED  BY <1>1, <1>2, <1>3, <1>4 DEF LikeUntil, e

(* The rows with a result, and the days of their latest ones.              *)
LEMMA LatestAgrees ==
  ASSUME NEW e, NEW d, NEW t \in Nat, LikeUntil(e, d, t)
  PROVE  /\ Completed(e) = Completed(d)
         /\ \A i \in Completed(d) : /\ Latest(e, i).day = Latest(d, i).day /\ Latest(d, i).day \in Nat
                                    /\ Latest(d, i).day <= t => Latest(e, i) = Latest(d, i)
  <1>1. Completed(e) = Completed(d)
    BY DEF LikeUntil, Completed, Matches
  <1>2. ASSUME NEW i \in Completed(d)
        PROVE  /\ Latest(e, i).day = Latest(d, i).day /\ Latest(d, i).day \in Nat
               /\ Latest(d, i).day <= t => Latest(e, i) = Latest(d, i)
    <2> DEFINE a == Latest(d, i)
               b == Latest(e, i)
    <2>1. a \in d.results /\ a \in ResultRow /\ a.match = i /\ \A x \in d.results : x.match = i => x.day <= a.day
      BY LatestIs DEF LikeUntil
    <2>2. b \in e.results /\ b \in ResultRow /\ b.match = i /\ \A x \in e.results : x.match = i => x.day <= b.day
      BY <1>1, LatestIs DEF LikeUntil
    <2> HIDE DEF a, b
    <2>3. a.day \in Nat /\ b.day \in Nat
      BY <2>1, <2>2 DEF ResultRow
    <2>4. PICK y \in e.results : y.match = i /\ y.day = a.day
      BY <2>1 DEF LikeUntil
    <2>5. PICK z \in d.results : z.match = i /\ z.day = b.day
      BY <2>2 DEF LikeUntil
    <2>6. b.day = a.day
      <3>1. a.day <= b.day
        BY <2>2, <2>4
      <3>2. b.day <= a.day
        BY <2>1, <2>5
      <3> QED  BY <2>3, <3>1, <3>2
    <2>7. ASSUME a.day <= t PROVE b = a
      <3> DEFINE S == {x \in d.results : x.match = i}
                 R == {x \in e.results : x.match = i}
      <3>1. ASSUME NEW x, x \in S \/ x \in R PROVE x.day \in Nat /\ x.day <= t
        <4>1. x.day \in Nat
          BY <3>1 DEF LikeUntil, ResultsOK, ResultRow
        <4>2. x.day <= a.day
          BY <2>1, <2>2, <2>6, <3>1
        <4> QED  BY <2>3, <2>7, <4>1, <4>2
      <3>2. \A x : x \in S <=> x \in R
        BY <3>1 DEF LikeUntil
      <3> HIDE DEF S, R
      <3>3. S = R
        BY <3>2
      <3> QED  BY <3>3 DEF S, R, a, b, Latest
    <2> QED  BY <2>3, <2>6, <2>7 DEF a, b
  <1> QED  BY <1>1, <1>2

(* So the games come in the same order.                                    *)
LEMMA OrderAgrees ==
  ASSUME NEW e, NEW d, NEW t \in Nat, LikeUntil(e, d, t)
  PROVE  /\ \A S \in SUBSET Completed(d) : Chronological(e, S) = Chronological(d, S)
         /\ \A comp : League(e, comp) = League(d, comp) /\ WalkForward(e, comp) = WalkForward(d, comp)
  <1>1. ASSUME NEW S \in SUBSET Completed(d) PROVE Chronological(e, S) = Chronological(d, S)
    <2>1. [i \in S |-> Latest(e, i).day] = [i \in S |-> Latest(d, i).day]
      BY LatestAgrees
    <2> QED  BY <2>1 DEF Chronological
  <1>2. ASSUME NEW comp PROVE League(e, comp) = League(d, comp) /\ WalkForward(e, comp) = WalkForward(d, comp)
    <2> DEFINE S == {i \in Completed(d) : d.matches[i].comp = comp}
    <2>1. S \in SUBSET Completed(d) /\ League(d, comp) = Chronological(d, S)
      BY DEF League
    <2>2. League(e, comp) = Chronological(e, S)
      <3>1. Completed(e) = Completed(d) /\ e.matches = d.matches
        BY LatestAgrees DEF LikeUntil
      <3>2. {i \in Completed(e) : e.matches[i].comp = comp} = S
        BY <3>1
      <3> HIDE DEF S
      <3> QED  BY <3>2 DEF League
    <2> HIDE DEF S
    <2>3. League(e, comp) = League(d, comp)
      BY <1>1, <2>1, <2>2
    <2> QED  BY <2>3 DEF WalkForward
  <1> QED  BY <1>1, <1>2

(* And a row shows the same past, when it kicked off by then.              *)
LEMMA FeaturesAgree ==
  ASSUME NEW e, NEW d, NEW t \in Nat, LikeUntil(e, d, t), MatchesOK(d), NEW i \in Matches(d),
         d.matches[i].day <= t
  PROVE  Features(e, i) = Features(d, i)
  <1> DEFINE m == d.matches[i]
  <1>1. m \in MatchRow /\ m.day \in Nat
    BY DEF MatchesOK, MatchRow
  <1>2. e.matches = d.matches
    BY DEF LikeUntil
  <1>3. \A x \in d.results \cup e.results : x.day \in Nat
    BY DEF LikeUntil, ResultsOK, ResultRow
  <1>4. \A x : x \in d.results /\ x.day < m.day <=> x \in e.results /\ x.day < m.day
    <2> SUFFICES ASSUME NEW x, x \in d.results \/ x \in e.results, x.day < m.day
                 PROVE  x \in d.results /\ x \in e.results
      OBVIOUS
    <2>1. x.day \in Nat /\ x.day <= t
      BY <1>1, <1>3
    <2> QED  BY <2>1 DEF LikeUntil
  <1> HIDE DEF m
  <1>5. \A r : RecentResults(e, r, m.day, FormLimit) = RecentResults(d, r, m.day, FormLimit)
    <2> SUFFICES ASSUME NEW r
                 PROVE  RecentResults(e, r, m.day, FormLimit) = RecentResults(d, r, m.day, FormLimit)
      OBVIOUS
    <2> DEFINE S == {x \in d.results : x.day < m.day /\ Plays(d.matches[x.match], r)}
               R == {x \in e.results : x.day < m.day /\ Plays(d.matches[x.match], r)}
    <2>1. S = R
      BY <1>4
    <2>2. RecentResults(d, r, m.day, FormLimit) = Newest(d.matches, S, FormLimit)
      BY DEF RecentResults
    <2>3. RecentResults(e, r, m.day, FormLimit) = Newest(d.matches, R, FormLimit)
      BY <1>2 DEF RecentResults
    <2> HIDE DEF S, R
    <2> QED  BY <2>1, <2>2, <2>3
  <1>6. HeadToHead(e, i, MeetingLimit) = HeadToHead(d, i, MeetingLimit)
    <2> DEFINE S == {x \in d.results : x.day < m.day /\ Meet(d.matches[x.match], d.matches[i])}
               R == {x \in e.results : x.day < m.day /\ Meet(d.matches[x.match], d.matches[i])}
    <2>1. S = R
      BY <1>4
    <2>2. HeadToHead(d, i, MeetingLimit) = Newest(d.matches, S, MeetingLimit)
      BY DEF HeadToHead, m
    <2>3. HeadToHead(e, i, MeetingLimit) = Newest(d.matches, R, MeetingLimit)
      BY <1>2 DEF HeadToHead, m
    <2> HIDE DEF S, R
    <2> QED  BY <2>1, <2>2, <2>3
  <1>7. FormWindow(e, m.comp) = FormWindow(d, m.comp)
    BY <1>2 DEF FormWindow
  <1>8. \A r, window : RecentForm(e, r, window, m.day) = RecentForm(d, r, window, m.day)
    BY <1>2, <1>5 DEF RecentForm
  <1> QED  BY <1>2, <1>6, <1>7, <1>8 DEF Features, m

(* The games of a league, each after the earlier ones.                     *)
LEMMA ChronologicalIs ==
  ASSUME NEW d, MatchesOK(d), ResultsOK(d), NEW S \in SUBSET Completed(d)
  PROVE  /\ Chronological(d, S) \in Seq(S) /\ Len(Chronological(d, S)) \in Nat
         /\ DOMAIN Chronological(d, S) = 1..Len(Chronological(d, S))
         /\ \A k \in 1..Len(Chronological(d, S)) : Chronological(d, S)[k] \in S
         /\ \A j, k \in 1..Len(Chronological(d, S)) :
              j < k => Latest(d, Chronological(d, S)[j]).day <= Latest(d, Chronological(d, S)[k]).day
  <1> DEFINE day == [i \in S |-> Latest(d, i).day]
             s == ByDay(day)
  <1>1. S \in SUBSET Matches(d)
    BY DEF Completed
  <1>2. IsFiniteSet(S) /\ S \subseteq Nat
    <2>1. IsFiniteSet(Matches(d)) /\ Matches(d) \subseteq Nat
      BY DEF MatchesOK
    <2> QED  BY <1>1, <2>1, FS_Subset
  <1>3. day \in [S -> Nat] /\ \A i \in S : day[i] = Latest(d, i).day
    <2>1. ASSUME NEW i \in S PROVE Latest(d, i).day \in Nat
      <3>1. Latest(d, i) \in ResultRow
        BY LatestIs
      <3> QED  BY <3>1 DEF ResultRow
    <2> QED  BY <2>1
  <1>4. Chronological(d, S) = s
    BY DEF Chronological
  <1> HIDE DEF day
  <1>5. /\ s \in Seq(S) /\ DOMAIN s = 1..Len(s)
        /\ \A j, k \in 1..Len(s) : j < k => day[s[j]] <= day[s[k]]
    BY <1>2, <1>3, ByDayIs
  <1> HIDE DEF s
  <1>6. Len(s) \in Nat /\ \A k \in 1..Len(s) : s[k] \in S
    BY <1>5
  <1>7. \A j, k \in 1..Len(s) : j < k => Latest(d, s[j]).day <= Latest(d, s[k]).day
    BY <1>3, <1>5, <1>6
  <1> QED  BY <1>4, <1>5, <1>6, <1>7

(* What a league's examples show up to the day.                            *)
LEMMA ExamplesAgree ==
  ASSUME NEW e, NEW d, NEW t \in Nat, LikeUntil(e, d, t), MatchesOK(d), NEW n \in Nat,
         NEW rows, DOMAIN rows = 1..n, \A k \in 1..n : rows[k] \in Completed(d) /\ Known(d, rows[k], t)
  PROVE  Examples(e, rows) = Examples(d, rows)
  <1> DEFINE known == Among(rows, Completed(d))
  <1>1. Completed(e) = Completed(d)
    BY LatestAgrees
  <1>2. ASSUME NEW k \in DOMAIN known
        PROVE  Features(e, known[k]) = Features(d, known[k]) /\ Latest(e, known[k]) = Latest(d, known[k])
    <2>1. PICK j \in 1..n : known[k] = rows[j]
      BY AmongIs
    <2> DEFINE i == rows[j]
    <2>2. i \in Completed(d) /\ i \in Matches(d) /\ d.matches[i].day <= t /\ Latest(d, i).day <= t
      BY DEF Known, Completed
    <2> HIDE DEF i, known
    <2>3. Features(e, i) = Features(d, i)
      BY <2>2, FeaturesAgree
    <2>4. Latest(e, i) = Latest(d, i)
      BY <2>2, LatestAgrees
    <2> QED  BY <2>1, <2>3, <2>4 DEF i
  <1> HIDE DEF known
  <1>3. Examples(d, rows) =
          [k \in DOMAIN known |-> [features |-> Features(d, known[k]), goals |-> Latest(d, known[k]).goals]]
    BY DEF Examples, known
  <1>4. Examples(e, rows) =
          [k \in DOMAIN known |-> [features |-> Features(e, known[k]), goals |-> Latest(e, known[k]).goals]]
    BY <1>1 DEF Examples, known
  <1> QED  BY <1>2, <1>3, <1>4

(* What an artifact of games up to the day is made of.                     *)
LEMMA HeuristicAgrees ==
  ASSUME NEW e, NEW d, NEW t \in Nat, LikeUntil(e, d, t), NEW n \in Nat, NEW rows, DOMAIN rows = 1..n,
         \A k \in 1..n : rows[k] \in Completed(d) /\ Latest(d, rows[k]).day <= t
  PROVE  Heuristic(e, rows) = Heuristic(d, rows)
  <1> DEFINE known == Among(rows, Completed(d))
             game(c, i) == <<d.matches[i].home, d.matches[i].away, Latest(c, i).goals>>
  <1>1. Completed(e) = Completed(d) /\ e.matches = d.matches
    BY LatestAgrees DEF LikeUntil
  <1>2. ASSUME NEW k \in DOMAIN known PROVE Latest(e, known[k]) = Latest(d, known[k])
    <2>1. PICK j \in 1..n : known[k] = rows[j]
      BY AmongIs
    <2> HIDE DEF known
    <2> QED  BY <2>1, LatestAgrees
  <1> HIDE DEF known
  <1>3. Heuristic(d, rows) = [k \in DOMAIN known |-> game(d, known[k])]
    BY DEF Heuristic, known
  <1>4. Heuristic(e, rows) = [k \in DOMAIN known |-> game(e, known[k])]
    BY <1>1 DEF Heuristic, known
  <1> QED  BY <1>2, <1>3, <1>4

(* Each game of the walk-forward is scored by games no later than it.      *)
LEMMA WalkForwardIs ==
  ASSUME NEW d, MatchesOK(d), ResultsOK(d), NEW comp, NEW k \in DOMAIN WalkForward(d, comp)
  PROVE  /\ WalkForward(d, comp)[k].match \in Completed(d)
         /\ \E n \in Nat :
              /\ DOMAIN WalkForward(d, comp)[k].prior = 1..n
              /\ \A j \in 1..n : /\ WalkForward(d, comp)[k].prior[j] \in Completed(d)
                                 /\ Latest(d, WalkForward(d, comp)[k].prior[j]).day
                                      <= Latest(d, WalkForward(d, comp)[k].match).day
  <1> DEFINE s == League(d, comp)
             n == k + MinTraining - 1
  <1>1. /\ s \in Seq(Completed(d)) /\ Len(s) \in Nat /\ DOMAIN s = 1..Len(s)
        /\ \A j \in 1..Len(s) : s[j] \in Completed(d)
        /\ \A j, i \in 1..Len(s) : j < i => Latest(d, s[j]).day <= Latest(d, s[i]).day
    <2> DEFINE S == {i \in Completed(d) : d.matches[i].comp = comp}
    <2>1. S \in SUBSET Completed(d) /\ s = Chronological(d, S)
      BY DEF League
    <2> HIDE DEF S, s
    <2>2. s \in Seq(S) /\ Len(s) \in Nat /\ DOMAIN s = 1..Len(s) /\ \A j \in 1..Len(s) : s[j] \in S
      BY <2>1, ChronologicalIs
    <2>3. \A j, i \in 1..Len(s) : j < i => Latest(d, s[j]).day <= Latest(d, s[i]).day
      BY <2>1, ChronologicalIs
    <2> QED  BY <2>1, <2>2, <2>3
  <1>2. MinTraining \in Nat
    BY HistoryAssumption
  <1>3. WalkForward(d, comp) =
          [j \in 1..(Len(s) - MinTraining) |->
             [match |-> s[j + MinTraining], prior |-> SubSeq(s, 1, j + MinTraining - 1)]]
    BY DEF WalkForward
  <1> HIDE DEF s
  <1>4. k \in 1..(Len(s) - MinTraining)
    BY <1>3
  <1>5. k + MinTraining \in 1..Len(s) /\ n \in Nat /\ n < k + MinTraining /\ n <= Len(s)
    BY <1>1, <1>2, <1>4
  <1>6. WalkForward(d, comp)[k].match = s[k + MinTraining] /\ WalkForward(d, comp)[k].prior = SubSeq(s, 1, n)
    BY <1>3, <1>4
  <1> HIDE DEF n
  <1>7. DOMAIN SubSeq(s, 1, n) = 1..n /\ \A j \in 1..n : SubSeq(s, 1, n)[j] = s[j]
    BY <1>1, <1>5
  <1>8. \A j \in 1..n : j \in 1..Len(s) /\ j < k + MinTraining
    BY <1>1, <1>2, <1>4, <1>5
  <1> QED  BY <1>1, <1>5, <1>6, <1>7, <1>8

------------------------------------------------------------------------------
(* A left fold, position after position.                                   *)

\* The prefixes of a sequence of n, as the sets a fold runs over.
LEMMA PrefixIs ==
  ASSUME NEW n \in Nat, NEW k \in 1..n
  PROVE  /\ 1..k \in SUBSET (1..n) /\ 1..k # {} /\ 1..(k - 1) \in SUBSET (1..n)
         /\ Max(1..k) = k /\ (1..k) \ {k} = 1..(k - 1)
  <1>1. k \in 1..k /\ \A j \in 1..k : k >= j
    OBVIOUS
  <1>2. Max(1..k) \in 1..k /\ \A j \in 1..k : Max(1..k) >= j
    <2> DEFINE s == 1..k
    <2> HIDE DEF s
    <2>1. \E x \in s : \A y \in s : x >= y
      BY <1>1 DEF s
    <2>2. Max(s) \in s /\ \A y \in s : Max(s) >= y
      BY <2>1 DEF Max
    <2> QED  BY <2>2 DEF s
  <1>3. Max(1..k) = k
    <2> DEFINE top == Max(1..k)
    <2>1. top \in 1..k /\ top >= k
      BY <1>1, <1>2
    <2> HIDE DEF top
    <2>2. top = k
      BY <2>1
    <2> QED  BY <2>2 DEF top
  <1> QED  BY <1>3

\* g folds F over the sets of 1..n from the last down; iter does wherever it is of the type.
Solution(n, T, base, F, g) ==
  /\ g \in [SUBSET (1..n) -> T]
  /\ \A s \in SUBSET (1..n) :
       /\ s = {} => g[s] = base
       /\ s # {} => Max(s) \in s /\ g[s] = F[Max(s)][g[s \ {Max(s)}]]
Iterates(n, T, base, F, iter) ==
  \A s \in SUBSET (1..n) :
    /\ s = {} => iter[s] = base
    /\ s # {} /\ iter[s \ {Max(s)}] \in T => iter[s] = F[Max(s)][iter[s \ {Max(s)}]]

\* h is the loop that applies F one position after the other.
Loops(n, T, base, F, h) ==
  /\ h \in [0..n -> T]
  /\ h[0] = base
  /\ \A k \in 1..n : h[k] = F[k][h[k - 1]]

(* A left fold has a solution: each set of positions follows from the one  *)
(* without its last.                                                       *)
LEMMA FoldSolves ==
  ASSUME NEW n \in Nat, NEW T, NEW base \in T, NEW F \in [1..n -> [T -> T]]
  PROVE  \E g : Solution(n, T, base, F, g)
  <1> DEFINE D == 1..n
             pick == [s \in SUBSET D |-> Max(s)]
  <1>1. IsFiniteSet(D)
    BY FS_Interval
  <1>2. \A s \in SUBSET D : s # {} => pick[s] \in s /\ pick[s] = Max(s)
    BY MaxIsMember
  <1> HIDE DEF D, pick
  <1>3. PICK g \in [SUBSET D -> T] : Folds(D, F, base, pick, g)
    <2>1. F \in [D -> [T -> T]]
      BY DEF D
    <2> QED  BY <1>1, <1>2, <2>1, FoldExists
  <1>4. \A s \in SUBSET D :
           /\ s = {} => g[s] = base
           /\ s # {} => Max(s) \in s /\ g[s] = F[Max(s)][g[s \ {Max(s)}]]
    BY <1>2, <1>3 DEF Folds
  <1> QED  BY <1>3, <1>4 DEF D, Solution

(* Its values on prefixes are those of a loop.                             *)
LEMMA FoldByPrefix ==
  ASSUME NEW n \in Nat, NEW T, NEW base \in T, NEW F \in [1..n -> [T -> T]], NEW iter,
         Iterates(n, T, base, F, iter)
  PROVE  \E h : Loops(n, T, base, F, h) /\ iter[1..n] = h[n]
  <1> DEFINE h == [k \in 0..n |-> iter[1..k]]
             Bad == {k \in Nat : k <= n /\ iter[1..k] \notin T}
  <1>1. iter[1..0] = base
    <2>1. 1..0 = {}
      OBVIOUS
    <2> QED  BY <2>1 DEF Iterates
  <1>2. \A k \in 1..n : iter[1..(k - 1)] \in T => iter[1..k] = F[k][iter[1..(k - 1)]] /\ iter[1..k] \in T
    <2> SUFFICES ASSUME NEW k \in 1..n, iter[1..(k - 1)] \in T
                 PROVE  iter[1..k] = F[k][iter[1..(k - 1)]] /\ iter[1..k] \in T
      OBVIOUS
    <2>1. 1..k \in SUBSET (1..n) /\ 1..k # {} /\ Max(1..k) = k /\ (1..k) \ {k} = 1..(k - 1)
      BY PrefixIs
    <2>2. iter[1..k] = F[k][iter[1..(k - 1)]]
      <3> DEFINE s == 1..k
                 r == 1..(k - 1)
      <3>1. s \in SUBSET (1..n) /\ s # {} /\ Max(s) = k /\ s \ {k} = r /\ iter[r] \in T
        BY <2>1
      <3> HIDE DEF s, r
      <3>2. iter[s] = F[k][iter[r]]
        BY <3>1 DEF Iterates
      <3> QED  BY <3>2 DEF s, r
    <2> QED  BY <2>2
  <1>3. Bad = {}
    <2> SUFFICES ASSUME Bad # {} PROVE FALSE
      OBVIOUS
    <2>1. PICK k \in Bad : \A m \in Bad : k <= m
      BY LeastOfNumbers
    <2>2. k \in Nat /\ k <= n /\ iter[1..k] \notin T
      OBVIOUS
    <2>3. k # 0
      BY <1>1, <2>2
    <2>4. k \in 1..n /\ k - 1 \in Nat /\ k - 1 <= n /\ k - 1 \notin Bad
      BY <2>1, <2>2, <2>3
    <2>5. iter[1..(k - 1)] \in T
      BY <2>4
    <2> QED  BY <1>2, <2>2, <2>4, <2>5
  <1>4. \A k \in 0..n : iter[1..k] \in T
    BY <1>3
  <1>5. h \in [0..n -> T]
    BY <1>4
  <1>6. h[0] = base /\ iter[1..n] = h[n]
    BY <1>1
  <1>7. \A k \in 1..n : h[k] = F[k][h[k - 1]]
    <2> SUFFICES ASSUME NEW k \in 1..n PROVE h[k] = F[k][h[k - 1]]
      OBVIOUS
    <2>1. k \in 0..n /\ k - 1 \in 0..n
      OBVIOUS
    <2>2. h[k] = iter[1..k] /\ h[k - 1] = iter[1..(k - 1)]
      BY <2>1
    <2> HIDE DEF h
    <2> QED  BY <1>2, <1>4, <2>1, <2>2
  <1> HIDE DEF h
  <1> QED  BY <1>5, <1>6, <1>7 DEF Loops

------------------------------------------------------------------------------
(* The rolling rows of the expected goals.                                 *)

Pasts == Seq((Nat \X Nat) \X Nat)
Seen == [match: Nat, home: Pasts, away: Pasts, mean: SUBSET ResultRow]
Histories(d) == [rows: Seq(Seen), past: [d.teams -> Pasts]]

Shown(row) == <<row.match, row.home, row.away>>

Unplayed(d) == [rows |-> <<>>, past |-> [r \in d.teams |-> <<>>]]

\* h holds what the games of s before each position left, one game after the other.
Rolls(d, s, h) ==
  /\ h \in [0..Len(s) -> Histories(d)]
  /\ h[0] = Unplayed(d)
  /\ \A k \in 1..Len(s) : h[k] = Rolled(d, h[k - 1], s[k])

(* A game adds its row, made of the histories before it.                   *)
LEMMA RolledIs ==
  ASSUME NEW d, MatchesOK(d), ResultsOK(d), NEW sofar \in Histories(d), NEW i \in Completed(d)
  PROVE  /\ Rolled(d, sofar, i) \in Histories(d)
         /\ Len(sofar.rows) \in Nat /\ Len(Rolled(d, sofar, i).rows) = Len(sofar.rows) + 1
         /\ \A j \in 1..Len(sofar.rows) : Rolled(d, sofar, i).rows[j] = sofar.rows[j]
         /\ Shown(Rolled(d, sofar, i).rows[Len(sofar.rows) + 1])
              = <<i, sofar.past[d.matches[i].home], sofar.past[d.matches[i].away]>>
  <1> DEFINE m == d.matches[i]
             x == Latest(d, i)
             mean == {Latest(d, j) : j \in {k \in Completed(d) : d.matches[k].comp = m.comp}}
             row == [match |-> i, home |-> sofar.past[m.home], away |-> sofar.past[m.away], mean |-> mean]
             host == Append(sofar.past[m.home], <<x.goals, x.day>>)
             guest == Append(sofar.past[m.away], <<<<x.goals[2], x.goals[1]>>, x.day>>)
             past == [sofar.past EXCEPT ![m.home] = host, ![m.away] = guest]
  <1>1. /\ i \in Matches(d) /\ i \in Nat
        /\ m.home \in d.teams /\ m.away \in d.teams
    BY DEF Completed, MatchesOK
  <1>2. x.goals \in Nat \X Nat /\ x.day \in Nat
    <2>1. x \in ResultRow
      BY LatestIs
    <2> QED  BY <2>1 DEF ResultRow
  <1>3. mean \in SUBSET ResultRow
    BY LatestIs
  <1>4. Rolled(d, sofar, i) = [rows |-> Append(sofar.rows, row), past |-> past]
    BY DEF Rolled
  <1>5. sofar.rows \in Seq(Seen) /\ sofar.past \in [d.teams -> Pasts]
    BY DEF Histories
  <1> HIDE DEF m, x, mean
  <1>6. sofar.past[m.home] \in Pasts /\ sofar.past[m.away] \in Pasts
    BY <1>1, <1>5
  <1>7. row \in Seen /\ Shown(row) = <<i, sofar.past[m.home], sofar.past[m.away]>>
    <2>1. row \in Seen
      BY <1>1, <1>3, <1>6 DEF Seen
    <2> QED  BY <2>1 DEF Shown
  <1>8. host \in Pasts /\ guest \in Pasts
    <2> DEFINE a == <<x.goals, x.day>>
               b == <<<<x.goals[2], x.goals[1]>>, x.day>>
               X == (Nat \X Nat) \X Nat
    <2>1. a \in X /\ b \in X
      BY <1>2
    <2> HIDE DEF a, b, X
    <2>2. sofar.past[m.home] \in Seq(X) /\ sofar.past[m.away] \in Seq(X)
      BY <1>6 DEF Pasts, X
    <2>3. Append(sofar.past[m.home], a) \in Seq(X) /\ Append(sofar.past[m.away], b) \in Seq(X)
      BY <2>1, <2>2
    <2> QED  BY <2>3 DEF Pasts, X, a, b
  <1> HIDE DEF row, host, guest
  <1>9. past \in [d.teams -> Pasts]
    BY <1>1, <1>5, <1>8
  <1> HIDE DEF past
  <1>10. /\ Append(sofar.rows, row) \in Seq(Seen)
         /\ Len(sofar.rows) \in Nat /\ Len(Append(sofar.rows, row)) = Len(sofar.rows) + 1
         /\ \A j \in 1..Len(sofar.rows) : Append(sofar.rows, row)[j] = sofar.rows[j]
         /\ Append(sofar.rows, row)[Len(sofar.rows) + 1] = row
    BY <1>5, <1>7
  <1>11. Rolled(d, sofar, i) \in Histories(d)
    BY <1>4, <1>9, <1>10 DEF Histories
  <1>12. Rolled(d, sofar, i).rows = Append(sofar.rows, row)
    BY <1>4
  <1> QED  BY <1>7, <1>10, <1>11, <1>12 DEF m

(* The rows are what the games left, in their order.                       *)
LEMMA RollingRowsIs ==
  ASSUME NEW d, MatchesOK(d), ResultsOK(d), NEW c, c = Chronological(d, Completed(d))
  PROVE  \E h : Rolls(d, c, h) /\ RollingRows(d) = h[Len(c)].rows
  <1> DEFINE n == Len(c)
             D == DOMAIN c
             T == Histories(d)
             base == Unplayed(d)
             more(sofar, i) == Rolled(d, sofar, i)
             step(g, s) == IF s = {} THEN base ELSE more(g[s \ {Max(s)}], c[Max(s)])
             Solves(g) == g = [s \in SUBSET D |-> step(g, s)]
             iter == CHOOSE g : Solves(g)
             F == [k \in 1..n |-> [sofar \in T |-> more(sofar, c[k])]]
  <1>1. D = 1..n /\ n \in Nat /\ \A k \in 1..n : c[k] \in Completed(d)
    <2>1. Completed(d) \in SUBSET Completed(d)
      OBVIOUS
    <2> QED  BY <2>1, ChronologicalIs
  <1>2. RollingRows(d) = iter[D].rows
    <2>1. RollingRows(d) = FoldLeft(more, base, c).rows
      BY Zenon DEF RollingRows, Unplayed
    <2>2. FoldLeft(more, base, c) = iter[D]
      BY DEF FoldLeft, MapThenFoldSet
    <2> HIDE DEF iter
    <2> QED  BY <2>1, <2>2
  <1>3. base \in T
    <2>1. <<>> \in Seq(Seen) /\ <<>> \in Pasts
      BY DEF Pasts
    <2> QED  BY <2>1 DEF Unplayed, Histories
  <1>4. \A k \in 1..n, sofar \in T : more(sofar, c[k]) \in T
    BY <1>1, RolledIs
  <1> HIDE DEF n, D
  <1>5. F \in [1..n -> [T -> T]]
    BY <1>4
  <1> HIDE DEF T, base, more
  <1>6. \A k \in 1..n, sofar \in T : F[k][sofar] = more(sofar, c[k])
    OBVIOUS
  <1> HIDE DEF F
  <1>7. \E g : Solves(g)
    <2>1. PICK g : Solution(n, T, base, F, g)
      BY <1>1, <1>3, <1>5, FoldSolves
    <2>2. \A s \in SUBSET D : g[s] = step(g, s)
      <3> SUFFICES ASSUME NEW s \in SUBSET D PROVE g[s] = step(g, s)
        OBVIOUS
      <3>1. CASE s = {}
        BY <1>1, <2>1, <3>1 DEF Solution
      <3>2. CASE s # {}
        <4>1. Max(s) \in 1..n /\ g[s] = F[Max(s)][g[s \ {Max(s)}]] /\ g[s \ {Max(s)}] \in T
          BY <1>1, <2>1, <3>2 DEF Solution
        <4> QED  BY <1>6, <3>2, <4>1
      <3> QED  BY <3>1, <3>2
    <2> HIDE DEF step
    <2>3. Solves(g)
      <3>1. g \in [SUBSET D -> T]
        BY <1>1, <2>1 DEF Solution
      <3> QED  BY <2>2, <3>1
    <2> HIDE DEF Solves
    <2> QED  BY <2>3
  <1>8. Solves(iter)
    <2> HIDE DEF Solves
    <2> QED  BY <1>7
  <1>9. \A s \in SUBSET D : iter[s] = step(iter, s)
    <2> HIDE DEF iter, step
    <2> QED  BY <1>8
  <1>10. Iterates(n, T, base, F, iter)
    <2> HIDE DEF iter
    <2> SUFFICES ASSUME NEW s \in SUBSET (1..n)
                 PROVE  /\ s = {} => iter[s] = base
                        /\ s # {} /\ iter[s \ {Max(s)}] \in T => iter[s] = F[Max(s)][iter[s \ {Max(s)}]]
      BY DEF Iterates
    <2>1. iter[s] = step(iter, s)
      BY <1>1, <1>9
    <2>2. s # {} => Max(s) \in 1..n
      BY <1>1, MaxIsMember
    <2> QED  BY <1>6, <2>1, <2>2
  <1> HIDE DEF iter
  <1>11. PICK h : Loops(n, T, base, F, h) /\ iter[1..n] = h[n]
    BY <1>1, <1>3, <1>5, <1>10, FoldByPrefix
  <1>12. \A k \in 1..n : h[k] = more(h[k - 1], c[k])
    <2> SUFFICES ASSUME NEW k \in 1..n PROVE h[k] = more(h[k - 1], c[k])
      OBVIOUS
    <2>1. k - 1 \in 0..n
      BY <1>1
    <2> QED  BY <1>6, <1>11, <2>1 DEF Loops
  <1>13. Rolls(d, c, h)
    BY <1>11, <1>12 DEF Loops, Rolls, T, base, more, n
  <1> QED  BY <1>1, <1>2, <1>11, <1>13 DEF n

\* After k games the rows of the games up to the day agree, and the histories while those last.
Agree(d, t, s, g, h, k) ==
  /\ Len(h[k].rows) = k /\ Len(g[k].rows) = k
  /\ \A j \in 1..k : /\ h[k].rows[j].match = s[j]
                     /\ Latest(d, s[j]).day <= t => Shown(g[k].rows[j]) = Shown(h[k].rows[j])
  /\ k = 0 \/ Latest(d, s[k]).day <= t => g[k].past = h[k].past

(* A game of such a day moves like histories alike.                        *)
LEMMA PastsAgree ==
  ASSUME NEW e, NEW d, NEW i, NEW a, NEW b, e.matches = d.matches, Latest(e, i) = Latest(d, i), a.past = b.past
  PROVE  Rolled(e, a, i).past = Rolled(d, b, i).past
  <1> DEFINE m == d.matches[i]
             x == Latest(d, i)
             past(sofar) == [sofar.past EXCEPT
                               ![m.home] = Append(sofar.past[m.home], <<x.goals, x.day>>),
                               ![m.away] = Append(sofar.past[m.away], <<<<x.goals[2], x.goals[1]>>, x.day>>)]
  <1>1. Rolled(d, b, i).past = past(b)
    BY DEF Rolled
  <1>2. Rolled(e, a, i).past = past(a)
    BY DEF Rolled
  <1> QED  BY <1>1, <1>2

LEMMA GameAgrees ==
  ASSUME NEW e, NEW d, NEW t \in Nat, LikeUntil(e, d, t), MatchesOK(d),
         NEW s, s = Chronological(d, Completed(d)), NEW h, Rolls(d, s, h), NEW g, Rolls(e, s, g),
         NEW k \in 1..Len(s), Agree(d, t, s, g, h, k - 1)
  PROVE  Agree(d, t, s, g, h, k)
  <1> DEFINE a == g[k - 1]
             b == h[k - 1]
             i == s[k]
  <1>1. /\ e.matches = d.matches /\ e.teams = d.teams /\ ResultsOK(d) /\ ResultsOK(e) /\ MatchesOK(e)
    BY DEF LikeUntil, MatchesOK, Matches
  <1>2. /\ Len(s) \in Nat /\ \A j \in 1..Len(s) : s[j] \in Completed(d)
        /\ \A j, n \in 1..Len(s) : j < n => Latest(d, s[j]).day <= Latest(d, s[n]).day
    <2>1. Completed(d) \in SUBSET Completed(d)
      OBVIOUS
    <2> QED  BY <1>1, <2>1, ChronologicalIs
  <1>3. k \in Nat /\ k - 1 \in 0..Len(s) /\ k # 0 /\ (k - 1) + 1 = k
    BY <1>2
  <1>4. a \in Histories(e) /\ b \in Histories(d) /\ g[k] = Rolled(e, a, i) /\ h[k] = Rolled(d, b, i)
    BY <1>3 DEF Rolls
  <1>5. i \in Completed(d) /\ i \in Completed(e) /\ (Latest(d, i).day <= t => Latest(e, i) = Latest(d, i))
    BY <1>2, LatestAgrees
  <1>6. /\ Len(b.rows) = k - 1 /\ Len(a.rows) = k - 1
        /\ \A j \in 1..(k - 1) : /\ b.rows[j].match = s[j]
                                 /\ Latest(d, s[j]).day <= t => Shown(a.rows[j]) = Shown(b.rows[j])
        /\ k - 1 = 0 \/ Latest(d, s[k - 1]).day <= t => a.past = b.past
    BY DEF Agree
  <1>7. ASSUME Latest(d, i).day <= t PROVE a.past = b.past
    <2>1. CASE k - 1 = 0
      BY <1>6, <2>1
    <2>2. CASE k - 1 # 0
      <3>1. k - 1 \in 1..Len(s) /\ k - 1 < k
        BY <1>2, <1>3, <2>2
      <3>2. Latest(d, s[k - 1]).day <= Latest(d, i).day
        BY <1>2, <3>1
      <3>3. Latest(d, s[k - 1]).day \in Nat /\ Latest(d, i).day \in Nat
        BY <1>2, <1>5, <3>1, LatestAgrees
      <3>4. Latest(d, s[k - 1]).day <= t
        BY <1>7, <3>2, <3>3
      <3> QED  BY <1>6, <3>4
    <2> QED  BY <2>1, <2>2
  <1> HIDE DEF a, b, i
  <1>8. /\ Len(h[k].rows) = Len(b.rows) + 1
        /\ \A j \in 1..Len(b.rows) : h[k].rows[j] = b.rows[j]
        /\ Shown(h[k].rows[Len(b.rows) + 1]) = <<i, b.past[d.matches[i].home], b.past[d.matches[i].away]>>
    BY <1>1, <1>4, <1>5, RolledIs
  <1>9. /\ Len(g[k].rows) = Len(a.rows) + 1
        /\ \A j \in 1..Len(a.rows) : g[k].rows[j] = a.rows[j]
        /\ Shown(g[k].rows[Len(a.rows) + 1]) = <<i, a.past[e.matches[i].home], a.past[e.matches[i].away]>>
    BY <1>1, <1>4, <1>5, RolledIs
  <1>10. /\ Len(h[k].rows) = k /\ Len(g[k].rows) = k
         /\ \A j \in 1..(k - 1) : h[k].rows[j] = b.rows[j] /\ g[k].rows[j] = a.rows[j]
         /\ Shown(h[k].rows[k]) = <<i, b.past[d.matches[i].home], b.past[d.matches[i].away]>>
         /\ Shown(g[k].rows[k]) = <<i, a.past[d.matches[i].home], a.past[d.matches[i].away]>>
    BY <1>1, <1>3, <1>6, <1>8, <1>9
  <1>11. h[k].rows[k].match = i
    BY <1>10 DEF Shown
  <1>12. ASSUME NEW j \in 1..k
         PROVE  /\ h[k].rows[j].match = s[j]
                /\ Latest(d, s[j]).day <= t => Shown(g[k].rows[j]) = Shown(h[k].rows[j])
    <2>1. CASE j = k
      BY <1>7, <1>10, <1>11, <2>1 DEF i
    <2>2. CASE j # k
      <3>1. j \in 1..(k - 1)
        BY <1>3, <2>2
      <3> QED  BY <1>6, <1>10, <3>1
    <2> QED  BY <2>1, <2>2
  <1>13. ASSUME Latest(d, i).day <= t PROVE g[k].past = h[k].past
    BY <1>1, <1>4, <1>5, <1>7, <1>13, PastsAgree
  <1>14. ASSUME k = 0 \/ Latest(d, s[k]).day <= t PROVE g[k].past = h[k].past
    BY <1>3, <1>13, <1>14 DEF i
  <1> QED  BY <1>10, <1>12, <1>14 DEF Agree

(* A rolling row of a game up to the day shows no score after it.          *)
LEMMA RollingAgrees ==
  ASSUME NEW e, NEW d, NEW t \in Nat, LikeUntil(e, d, t), MatchesOK(d), NEW k \in DOMAIN RollingRows(d),
         Latest(d, RollingRows(d)[k].match).day <= t
  PROVE  Shown(RollingRows(e)[k]) = Shown(RollingRows(d)[k])
  <1> DEFINE s == Chronological(d, Completed(d))
             n == Len(s)
  <1>1. ResultsOK(d) /\ ResultsOK(e) /\ MatchesOK(e) /\ e.teams = d.teams
    BY DEF LikeUntil, MatchesOK, Matches
  <1>2. s = Chronological(e, Completed(e))
    <2>1. Completed(e) = Completed(d) /\ Completed(d) \in SUBSET Completed(d)
      BY LatestAgrees
    <2> QED  BY <2>1, OrderAgrees
  <1>3. n \in Nat
    <2>1. Completed(d) \in SUBSET Completed(d)
      OBVIOUS
    <2> QED  BY <1>1, <2>1, ChronologicalIs
  <1>4. PICK h : Rolls(d, s, h) /\ RollingRows(d) = h[n].rows
    BY <1>1, RollingRowsIs
  <1>5. PICK g : Rolls(e, s, g) /\ RollingRows(e) = g[n].rows
    BY <1>1, <1>2, RollingRowsIs
  <1> DEFINE Bad == {j \in Nat : j <= n /\ ~Agree(d, t, s, g, h, j)}
  <1>6. Agree(d, t, s, g, h, 0)
    <2>1. g[0] = Unplayed(d) /\ h[0] = Unplayed(d)
      BY <1>1, <1>4, <1>5 DEF Rolls, Unplayed
    <2>2. Len(Unplayed(d).rows) = 0
      BY DEF Unplayed
    <2> QED  BY <2>1, <2>2 DEF Agree
  <1>7. Bad = {}
    <2> SUFFICES ASSUME Bad # {} PROVE FALSE
      OBVIOUS
    <2>1. PICK j \in Bad : \A m \in Bad : j <= m
      BY LeastOfNumbers
    <2>2. j \in Nat /\ j <= n /\ ~Agree(d, t, s, g, h, j) /\ j # 0
      BY <1>6
    <2>3. j \in 1..n /\ j - 1 \in Nat /\ j - 1 <= n /\ j - 1 \notin Bad
      BY <1>3, <2>1, <2>2
    <2>4. Agree(d, t, s, g, h, j - 1)
      BY <2>3
    <2> HIDE DEF Bad
    <2> QED  BY <1>4, <1>5, <2>2, <2>3, <2>4, GameAgrees
  <1>8. Agree(d, t, s, g, h, n)
    BY <1>3, <1>7
  <1>9. DOMAIN h[n].rows = 1..n
    <2>1. h[n] \in Histories(d)
      BY <1>3, <1>4 DEF Rolls
    <2>2. h[n].rows \in Seq(Seen) /\ Len(h[n].rows) = n
      BY <1>8, <2>1 DEF Histories, Agree
    <2> QED  BY <2>2
  <1> HIDE DEF s, n
  <1>10. k \in 1..n
    BY <1>4, <1>9
  <1>11. h[n].rows[k].match = s[k] /\ (Latest(d, s[k]).day <= t => Shown(g[n].rows[k]) = Shown(h[n].rows[k]))
    BY <1>8, <1>10 DEF Agree
  <1> QED  BY <1>4, <1>5, <1>11

------------------------------------------------------------------------------
(* The property.                                                           *)

(* Whatever was ingested, promoted, migrated or repaired: what a game is   *)
(* scored by in the walk-forward evaluation, and what its rolling row      *)
(* shows, takes nothing from the results of later days.                    *)
THEOREM ScoresLookBack == Spec => []ScoresIgnoreTheFuture
  <1>1. TablesInv => ScoresIgnoreTheFuture
    <2> SUFFICES ASSUME TablesInv PROVE ScoresIgnoreTheFuture
      OBVIOUS
    <2> DEFINE days == {x.day : x \in db.results}
    <2>1. Shape(db) /\ MatchesOK(db) /\ ResultsOK(db)
      BY DEF TablesInv, Good
    <2>2. days \subseteq Nat
      BY <2>1 DEF ResultsOK, ResultRow
    <2>3. ASSUME NEW t \in days
          PROVE  LET other == Altered(db, t)
                 IN /\ \A comp \in {db.matches[x.match].comp : x \in db.results} :
                         LET rows == Among(League(db, comp), {i \in Completed(db) : Known(db, i, t)})
                             runs == WalkForward(db, comp)
                         IN /\ Examples(other, rows) = Examples(db, rows)
                            /\ \A k \in DOMAIN runs : Known(db, runs[k].match, t) =>
                                 Heuristic(other, runs[k].prior) = Heuristic(db, runs[k].prior)
                    /\ LET now == RollingRows(db)
                           then == RollingRows(other)
                       IN \A k \in DOMAIN now : Known(db, now[k].match, t) => Shown(then[k]) = Shown(now[k])
      <3> DEFINE other == Altered(db, t)
      <3>1. t \in Nat /\ LikeUntil(other, db, t)
        BY <2>1, <2>2, AlteredIsLike
      <3> HIDE DEF other, days
      <3>2. ASSUME NEW comp
            PROVE  LET rows == Among(League(db, comp), {i \in Completed(db) : Known(db, i, t)})
                   IN Examples(other, rows) = Examples(db, rows)
        <4> DEFINE early == {i \in Completed(db) : Known(db, i, t)}
                   S == {i \in Completed(db) : db.matches[i].comp = comp}
                   ordered == League(db, comp)
                   rows == Among(ordered, early)
        <4>1. DOMAIN ordered = 1..Len(ordered) /\ Len(ordered) \in Nat
          <5>1. S \in SUBSET Completed(db) /\ ordered = Chronological(db, S)
            BY DEF League
          <5> HIDE DEF S, ordered
          <5> QED  BY <2>1, <5>1, ChronologicalIs
        <4> HIDE DEF ordered
        <4>2. (\E n \in Nat : DOMAIN rows = 1..n) /\ \A k \in DOMAIN rows : rows[k] \in early
          <5> HIDE DEF early
          <5> QED  BY <4>1, AmongIs
        <4>3. PICK n \in Nat : DOMAIN rows = 1..n
          BY <4>2
        <4> HIDE DEF rows
        <4>4. \A k \in 1..n : rows[k] \in Completed(db) /\ Known(db, rows[k], t)
          BY <4>2, <4>3
        <4>5. Examples(other, rows) = Examples(db, rows)
          BY <2>1, <3>1, <4>3, <4>4, ExamplesAgree
        <4> QED  BY <4>5 DEF rows, ordered
      <3>3. ASSUME NEW comp, NEW k \in DOMAIN WalkForward(db, comp), Known(db, WalkForward(db, comp)[k].match, t)
            PROVE  Heuristic(other, WalkForward(db, comp)[k].prior) = Heuristic(db, WalkForward(db, comp)[k].prior)
        <4> DEFINE rows == WalkForward(db, comp)[k].prior
                   last == Latest(db, WalkForward(db, comp)[k].match).day
        <4>1. WalkForward(db, comp)[k].match \in Completed(db)
          BY <2>1, WalkForwardIs
        <4>2. PICK n \in Nat : /\ DOMAIN rows = 1..n
                               /\ \A j \in 1..n : rows[j] \in Completed(db) /\ Latest(db, rows[j]).day <= last
          BY <2>1, WalkForwardIs
        <4>3. last \in Nat /\ last <= t
          BY <3>1, <3>3, <4>1, LatestAgrees DEF Known
        <4> HIDE DEF rows, last
        <4>4. ASSUME NEW j \in 1..n PROVE rows[j] \in Completed(db) /\ Latest(db, rows[j]).day <= t
          <5>1. rows[j] \in Completed(db) /\ Latest(db, rows[j]).day <= last
            BY <4>2
          <5>2. Latest(db, rows[j]).day \in Nat
            BY <3>1, <5>1, LatestAgrees
          <5> QED  BY <3>1, <4>3, <5>1, <5>2
        <4> QED  BY <3>1, <4>2, <4>4, HeuristicAgrees DEF rows
      <3>4. ASSUME NEW k \in DOMAIN RollingRows(db), Known(db, RollingRows(db)[k].match, t)
            PROVE  Shown(RollingRows(other)[k]) = Shown(RollingRows(db)[k])
        BY <2>1, <3>1, <3>4, RollingAgrees DEF Known
      <3> QED  BY <3>2, <3>3, <3>4 DEF other
    <2> QED  BY <2>3 DEF ScoresIgnoreTheFuture, Shown
  <1> QED  BY <1>1, TablesInvariant, PTL
=============================================================================
