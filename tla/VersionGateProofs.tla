-------------------------- MODULE VersionGateProofs --------------------------
(***************************************************************************)
(* Three theorems about the version gate.                                  *)
(*                                                                         *)
(* For package builds the gate is exact, whatever tags the candidates      *)
(* carry and however they are evaluated: the argument needs only that a    *)
(* judgement of a package build leaves the cached version alone.           *)
(*                                                                         *)
(* An upstream build is judged as ever later releases: a set of since-tags *)
(* that holds at one of them holds at the later ones, as the borders the   *)
(* algorithm puts between such tags stand below the tag they belong to.    *)
(*                                                                         *)
(* What the algorithm decides is what the notes of test_version_tag_eval   *)
(* say: of the tags and their borders in sorted order, the neighbours of   *)
(* a version are those it has among the tags or one of these and the one   *)
(* border between them, so the neighbours among the tags, their signs and  *)
(* their branches decide; and so do the notes, in each of the four orders  *)
(* the tags may have.                                                      *)
(***************************************************************************)
EXTENDS VersionGate, FiniteSetTheorems, SequenceTheorems, TLAPS

Package == Stream(build) # Upstream
Installed == Version(build)

(* Where version_control and behave are.                                   *)
Progress ==
    /\ test \in Tests
    /\ phase \in {"start", "select", "behave", "done"}
    /\ k \in 0 .. Len(test) /\ result \in 0 .. k
    /\ phase = "start" => k = 0
    /\ phase \in {"start", "select"} => ~raised
    /\ (phase \in {"behave", "done"} /\ k > 0 /\ ~raised) => k = Len(test)
    /\ phase \in {"start", "select"} => queue = <<>> /\ runs = {} /\ skips = {}

Queued ==
    /\ queue \in Seq(DOMAIN test)
    /\ result # 0 => queue \in {<<>>, <<result>>}

(* The candidates judged so far: result is the only one of them that fits. *)
Judged == Fitting(Installed) \cap (1 .. k) = {result} \ {0}

Ran ==
    /\ runs \subseteq Fitting(Installed)
    /\ skips \cap Fitting(Installed) = {}
    /\ result # 0 => skips = {}

IInv == Progress /\ Queued
        /\ (Package => nm_version = Installed)
        /\ (Package /\ ~raised => Judged /\ Ran)

-----------------------------------------------------------------------------
(* The installed version, the distribution and the candidates do not       *)
(* change, nor does what fits them.                                        *)
LEMMA FittingIsFixed ==
    ASSUME UNCHANGED <<build, distro, test>>
    PROVE  /\ Fitting(Installed)' = Fitting(Installed)
           /\ Package' = Package /\ Installed' = Installed
BY DEF Fitting, Fits, PackageFits, StockPackage, VerTags, DistroTags,
       MatchRaises, Package, Installed

(* A judgement of a package build does not change the version.             *)
LEMMA PackagesAreNotBumped ==
    ASSUME Package, NEW tags
    PROVE  Bump(Installed) = Installed /\ BumpOnMatch(tags, Installed) = Installed
BY DEF Package, Bump, BumpOnMatch

(* A candidate that fits does not raise.                                   *)
LEMMA FittingDoesNotRaise ==
    ASSUME NEW tags, NEW v, Fits(tags, v)
    PROVE  ~MatchRaises(tags, v)
BY DEF Fits

LEMMA InitImpliesIInv == Init => IInv
<1> SUFFICES ASSUME Init PROVE IInv
  OBVIOUS
<1>1. Progress /\ Queued
  BY TestsAssumption DEF Init, Progress, Queued
<1>2. Package => nm_version = Installed
  BY DEF Init, Installed
<1>3. Judged /\ Ran
  BY DEF Init, Judged, Ran
<1> QED
  BY <1>1, <1>2, <1>3 DEF IInv

LEMMA NextKeepsIInv == IInv /\ [Next]_vars => IInv'
<1> SUFFICES ASSUME IInv, [Next]_vars PROVE IInv'
  OBVIOUS
<1> USE DEF IInv
<1>0. UNCHANGED <<build, distro, test>>
  BY DEF Next, vars, EnterSelect, RunUnasked, JudgeCandidate, Select,
         BeforeScenario, BehaveEnds
<1>1. /\ Fitting(Installed)' = Fitting(Installed)
      /\ Package' = Package /\ Installed' = Installed
  BY <1>0, FittingIsFixed
<1>2. Len(test) \in Nat \ {0} /\ DOMAIN test = 1 .. Len(test)
  BY TestsAssumption DEF Progress
<1>3. CASE EnterSelect
  <2>1. Progress' /\ Queued'
    BY <1>0, <1>3 DEF EnterSelect, Progress, Queued
  <2>2. Package' => nm_version' = Installed'
    BY <1>1, <1>3, PackagesAreNotBumped DEF EnterSelect
  <2>3. (Package /\ ~raised => Judged /\ Ran)'
    BY <1>1, <1>3 DEF EnterSelect, Judged, Ran
  <2> QED
    BY <2>1, <2>2, <2>3
<1>4. CASE RunUnasked
  <2>1. queue' \in Seq(DOMAIN test)
    BY <1>2, <1>4 DEF RunUnasked
  <2>2. Progress' /\ Queued'
    BY <1>0, <1>4, <2>1 DEF RunUnasked, Progress, Queued
  <2>3. (Package /\ ~raised => Judged /\ Ran)' /\ (Package' => nm_version' = Installed')
    BY <1>1, <1>4 DEF RunUnasked, Judged, Ran
  <2> QED
    BY <2>2, <2>3
<1>5. CASE JudgeCandidate
  <2> DEFINE tags == test[k + 1]
             v == BumpOnMatch(tags, nm_version)
             fails == MatchRaises(tags, v) \/ (Fits(tags, v) /\ result # 0)
  <2>0. /\ phase = "select" /\ k < Len(test) /\ k' = k + 1
        /\ nm_version' = v /\ raised' = fails
        /\ result' = IF ~fails /\ Fits(tags, v) THEN k + 1 ELSE result
        /\ phase' = IF fails THEN "done" ELSE phase
        /\ UNCHANGED <<queue, runs, skips>>
    BY <1>5 DEF JudgeCandidate
  <2>1. ~raised /\ queue = <<>> /\ runs = {} /\ skips = {} /\ k \in Nat
    BY <2>0, <1>2 DEF Progress
  <2>2. Progress'
    <3> HIDE DEF tags, v, fails
    <3>1. k' \in 0 .. Len(test) /\ result' \in 0 .. k'
      BY <2>0, <2>1, <1>2 DEF Progress
    <3>2. (phase' = "done" /\ raised') \/ (phase' = "select" /\ ~raised')
      BY <2>0
    <3> QED
      BY <3>1, <3>2, <2>0, <2>1, <1>0 DEF Progress
  <2>3. Queued'
    BY <2>0, <2>1, <1>0 DEF Queued
  <2>4. ASSUME Package PROVE v = Installed
    BY <2>4, PackagesAreNotBumped
  <2>5. ASSUME Package, ~raised' PROVE Judged' /\ Ran'
    <3>1. Judged
      BY <2>1, <2>5
    <3>2. (k + 1 \in Fitting(Installed)) <=> Fits(tags, v)
      BY <2>0, <2>1, <2>4, <2>5, <1>2 DEF Fitting
    <3>3. Fitting(Installed) \cap (1 .. k + 1)
            = (Fitting(Installed) \cap (1 .. k))
                \cup (IF Fits(tags, v) THEN {k + 1} ELSE {})
      <4> HIDE DEF tags, v
      <4>1. 1 .. k + 1 = (1 .. k) \cup {k + 1}
        BY <2>1
      <4> QED
        BY <4>1, <3>2
    <3>4. Judged'
      <4>1. CASE Fits(tags, v)
        <5>0. ~fails
          BY <2>0, <2>5
        <5>1. result = 0 /\ result' = k + 1
          BY <5>0, <2>0, <4>1
        <5>2. k + 1 # 0
          BY <2>1
        <5> HIDE DEF tags, v
        <5> QED
          BY <5>1, <5>2, <4>1, <3>1, <3>3, <2>0, <1>1 DEF Judged
      <4>2. CASE ~Fits(tags, v)
        <5>1. result' = result
          BY <2>0, <4>2
        <5> HIDE DEF tags, v
        <5> QED
          BY <5>1, <4>2, <3>1, <3>3, <2>0, <1>1 DEF Judged
      <4> QED
        BY <4>1, <4>2
    <3>5. Ran'
      BY <2>0, <2>1 DEF Ran
    <3> QED
      BY <3>4, <3>5
  <2> QED
    BY <2>0, <2>2, <2>3, <2>4, <2>5, <1>1
<1>6. CASE Select
  <2>1. /\ phase = "select" /\ k = Len(test)
        /\ UNCHANGED <<k, result, raised, runs, skips>>
    BY <1>6 DEF Select
  <2>2. CASE result = 0
    <3>1. phase' = "done" /\ UNCHANGED <<nm_version, queue>>
      BY <1>6, <2>2 DEF Select
    <3>2. Progress' /\ Queued'
      BY <2>1, <2>2, <3>1, <1>0 DEF Progress, Queued
    <3> QED
      BY <2>1, <3>1, <3>2, <1>1 DEF Judged, Ran
  <2>3. CASE result # 0
    <3>1. phase' = "behave" /\ nm_version' = Installed /\ queue' = <<result>>
      BY <1>6, <2>3 DEF Select, Installed
    <3>2. result \in DOMAIN test
      <4>1. result \in 1 .. Len(test)
        BY <2>1, <2>3, <1>2 DEF Progress
      <4> QED
        BY <4>1, <1>2
    <3>3. queue' \in Seq(DOMAIN test)
      BY <3>1, <3>2
    <3>4. Progress' /\ Queued'
      BY <2>1, <2>3, <3>1, <3>3, <1>0 DEF Progress, Queued
    <3> QED
      BY <2>1, <3>1, <3>4, <1>1 DEF Judged, Ran
  <2> QED
    BY <2>2, <2>3
<1>7. CASE BeforeScenario
  <2> DEFINE i == Head(queue)
             v == BumpOnMatch(test[i], nm_version)
  <2>1. /\ phase = "behave" /\ queue # <<>>
        /\ nm_version' = v /\ queue' = Tail(queue)
        /\ UNCHANGED <<phase, k, result, raised>>
    BY <1>7 DEF BeforeScenario
  <2>2. i \in DOMAIN test /\ queue' \in Seq(DOMAIN test)
    BY <2>1 DEF Queued
  <2>3. Progress'
    BY <2>1, <1>0 DEF Progress
  <2>4. ASSUME result # 0 PROVE i = result /\ queue' = <<>>
    BY <2>1, <2>4 DEF Queued
  <2>5. Queued'
    BY <2>1, <2>2, <2>4, <1>0 DEF Queued
  <2>6. ASSUME Package PROVE v = Installed
    BY <2>6, PackagesAreNotBumped
  <2>7. ASSUME Package, ~raised PROVE Judged' /\ Ran'
    <3>1. Judged /\ Ran
      BY <2>7
    <3>2. (i \in Fitting(Installed)) <=> Fits(test[i], v)
      BY <2>2, <2>6, <2>7 DEF Fitting
    <3>3. result # 0 => Fits(test[i], v) /\ ~MatchRaises(test[i], v)
      <4> SUFFICES ASSUME result # 0 PROVE Fits(test[i], v)
        BY FittingDoesNotRaise
      <4>1. result \in Fitting(Installed)
        BY <3>1 DEF Judged
      <4> QED
        BY <4>1, <3>2, <2>4
    <3>4. \/ UNCHANGED <<runs, skips>>
          \/ Fits(test[i], v) /\ runs' = runs \cup {i} /\ skips' = skips
          \/ ~Fits(test[i], v) /\ skips' = skips \cup {i} /\ runs' = runs
      BY <1>7 DEF BeforeScenario
    <3>5. Ran'
      <4> HIDE DEF i, v
      <4> QED
        BY <3>1, <3>2, <3>3, <3>4, <2>1, <1>1 DEF Ran
    <3>6. Judged'
      BY <3>1, <2>1, <1>1 DEF Judged
    <3> QED
      BY <3>5, <3>6
  <2> QED
    BY <2>1, <2>3, <2>5, <2>6, <2>7, <1>1
<1>8. CASE BehaveEnds
  <2>1. Progress' /\ Queued'
    BY <1>0, <1>8 DEF BehaveEnds, Progress, Queued
  <2> QED
    BY <2>1, <1>1, <1>8 DEF BehaveEnds, Judged, Ran
<1>9. CASE UNCHANGED vars
  <2>1. Progress' /\ Queued'
    BY <1>9 DEF vars, Progress, Queued
  <2> QED
    BY <2>1, <1>1, <1>9 DEF vars, Judged, Ran
<1> QED
  BY <1>3, <1>4, <1>5, <1>6, <1>7, <1>8, <1>9 DEF Next

LEMMA IInvImpliesExact == IInv => PackagesExact
<1> SUFFICES ASSUME IInv, Package, ~raised
             PROVE  /\ (phase # "select" /\ result # 0) => Fitting(Installed) = {result}
                    /\ (phase = "done" /\ k > 0 /\ result = 0) =>
                            Fitting(Installed) = {}
                    /\ runs \subseteq Fitting(Installed)
                    /\ skips \cap Fitting(Installed) = {}
                    /\ result # 0 => skips = {}
  BY DEF PackagesExact, Package, Installed
<1>1. Judged /\ Ran /\ Progress
  BY DEF IInv
<1>2. Len(test) \in Nat /\ Fitting(Installed) \subseteq 1 .. Len(test)
  BY <1>1, TestsAssumption DEF Progress, Fitting
<1>3. (phase \in {"behave", "done"} /\ k > 0) => Fitting(Installed) = {result} \ {0}
  BY <1>1, <1>2 DEF Progress, Judged
<1>4. result # 0 => k > 0 /\ phase # "start"
  BY <1>1, <1>2 DEF Progress
<1> QED
  BY <1>1, <1>3, <1>4 DEF Progress, Ran

(* For every set of builds, distributions and tests: a package build gets  *)
(* the one candidate that fits, and behave agrees with the choice.         *)
THEOREM PackagesAreExact == Spec => []PackagesExact
<1>1. IInv /\ [Next]_vars => IInv'
  BY NextKeepsIInv
<1>2. IInv => PackagesExact
  BY IInvImpliesExact
<1> QED
  BY InitImpliesIInv, <1>1, <1>2, PTL DEF Spec

-----------------------------------------------------------------------------
(* What the evaluation of tags computes: first the order of versions and   *)
(* of tags, then what sorting a set of tags gives.                         *)

LEMMA LeastOf ==
    ASSUME NEW T \in SUBSET Nat, T # {}
    PROVE  \E x \in T : \A y \in T : x <= y
<1>1. \E x \in T : \A y \in T : ~ (<<y, x>> \in OpToRel(<, Nat))
  BY WFMin, NatLessThanWellFounded
<1>2. PICK x \in T : \A y \in T : ~ (<<y, x>> \in OpToRel(<, Nat))
  BY <1>1
<1>3. \A y \in T : ~ (y < x)
  BY <1>2 DEF OpToRel
<1>4. \A y \in T : x <= y
  BY <1>3
<1> QED
  BY <1>4

LEMMA MinIsLeast ==
    ASSUME NEW T \in SUBSET Nat, T # {}
    PROVE  Min(T) \in T /\ \A y \in T : Min(T) <= y
BY LeastOf DEF Min

LEMMA MaxIsGreatest ==
    ASSUME NEW n \in Nat, NEW T \in SUBSET (1 .. n), T # {}
    PROVE  Max(T) \in T /\ \A y \in T : y <= Max(T)
<1> DEFINE D == {n - y : y \in T}
<1>0. \A y \in T : n - y \in Nat
  OBVIOUS
<1>1. D \in SUBSET Nat /\ D # {}
  BY <1>0
<1>2. PICK d \in D : \A y \in D : d <= y
  BY <1>1, LeastOf
<1>3. PICK x \in T : d = n - x
  BY <1>2
<1>4. \A y \in T : y <= x
  <2> TAKE y \in T
  <2>1. n - x <= n - y
    BY <1>2, <1>3
  <2> QED
    BY <2>1
<1>5. \E z \in T : \A y \in T : z >= y
  BY <1>4
<1>6. Max(T) \in T /\ \A y \in T : Max(T) >= y
  BY <1>5 DEF Max
<1> QED
  BY <1>6

Vers(n) == [1 .. n -> Nat]

LEMMA LessIsTransitive ==
    ASSUME NEW n \in Nat, NEW u \in Vers(n), NEW v \in Vers(n), NEW w \in Vers(n),
           Less(u, v), Less(v, w)
    PROVE  Less(u, w)
<1>1. PICK i \in 1 .. n : u[i] < v[i] /\ \A j \in 1 .. i - 1 : u[j] = v[j]
  BY DEF Less, Vers
<1>2. PICK l \in 1 .. n : v[l] < w[l] /\ \A j \in 1 .. l - 1 : v[j] = w[j]
  BY DEF Less, Vers
<1>3. \A j \in 1 .. n : u[j] \in Nat /\ v[j] \in Nat /\ w[j] \in Nat
  BY DEF Vers
<1>4. CASE i <= l
  <2>1. u[i] < w[i]
    <3>1. CASE i = l
      BY <1>1, <1>2, <1>3, <3>1
    <3>2. CASE i < l
      <4>1. v[i] = w[i]
        BY <1>2, <3>2
      <4> QED
        BY <1>1, <4>1
    <3> QED
      BY <1>4, <3>1, <3>2
  <2>2. \A j \in 1 .. i - 1 : u[j] = w[j]
    BY <1>1, <1>2, <1>4
  <2> QED
    BY <2>1, <2>2 DEF Less, Vers
<1>5. CASE l < i
  <2>1. u[l] < w[l]
    <3>1. u[l] = v[l]
      BY <1>1, <1>5
    <3> QED
      BY <1>2, <3>1
  <2>2. \A j \in 1 .. l - 1 : u[j] = w[j]
    BY <1>1, <1>2, <1>5
  <2> QED
    BY <2>1, <2>2 DEF Less, Vers
<1> QED
  BY <1>4, <1>5

LEMMA LessIsTotal ==
    ASSUME NEW n \in Nat, NEW u \in Vers(n), NEW v \in Vers(n)
    PROVE  /\ ~ Less(u, u)
           /\ u = v \/ Less(u, v) \/ Less(v, u)
           /\ ~ (Less(u, v) /\ Less(v, u))
<1>0. \A j \in 1 .. n : u[j] \in Nat /\ v[j] \in Nat
  BY DEF Vers
<1>1. ~ Less(u, u)
  BY <1>0 DEF Less, Vers
<1>2. ~ (Less(u, v) /\ Less(v, u))
  BY <1>1, LessIsTransitive
<1>3. u = v \/ Less(u, v) \/ Less(v, u)
  <2> SUFFICES ASSUME u # v PROVE Less(u, v) \/ Less(v, u)
    OBVIOUS
  <2> DEFINE D == {j \in 1 .. n : u[j] # v[j]}
  <2>1. D # {} /\ D \in SUBSET Nat
    BY DEF Vers
  <2>2. PICK i \in D : \A y \in D : i <= y
    BY <2>1, LeastOf
  <2>3. \A j \in 1 .. i - 1 : u[j] = v[j]
    BY <2>2
  <2>4. i \in 1 .. n /\ (u[i] < v[i] \/ v[i] < u[i])
    BY <1>0
  <2> QED
    BY <2>3, <2>4 DEF Less, Vers
<1> QED
  BY <1>1, <1>2, <1>3

TagsOf(n) == [op : Ops, ver : Vers(n)]

LEMMA OpsAreOrdered ==
    ASSUME NEW o \in Ops, NEW p \in Ops
    PROVE  /\ OpIndex[o] \in Nat
           /\ OpIndex[o] = OpIndex[p] => o = p
<1> DEFINE seq == <<"-", "-=", "+=", "+">>
           Place(x) == CHOOSE i \in 1 .. 4 : seq[i] = x
<1>1. \A x \in Ops : \E i \in 1 .. 4 : seq[i] = x
  <2>1. seq[1] = "-" /\ seq[2] = "-=" /\ seq[3] = "+=" /\ seq[4] = "+"
    OBVIOUS
  <2> HIDE DEF seq
  <2>2. 1 \in 1 .. 4 /\ 2 \in 1 .. 4 /\ 3 \in 1 .. 4 /\ 4 \in 1 .. 4
    OBVIOUS
  <2> QED
    BY <2>1, <2>2 DEF Ops
<1>2. OpIndex[o] = Place(o) /\ OpIndex[p] = Place(p)
  BY DEF OpIndex
<1> HIDE DEF seq
<1>3. \A x \in Ops : Place(x) \in 1 .. 4 /\ seq[Place(x)] = x
  BY <1>1
<1> HIDE DEF Place
<1> QED
  BY <1>2, <1>3

LEMMA TagsAreOrdered ==
    ASSUME NEW n \in Nat, NEW r \in TagsOf(n), NEW s \in TagsOf(n), NEW t \in TagsOf(n)
    PROVE  /\ ~ SortsBefore(t, t)
           /\ SortsBefore(r, s) /\ SortsBefore(s, t) => SortsBefore(r, t)
           /\ s = t \/ SortsBefore(s, t) \/ SortsBefore(t, s)
<1>1. /\ r.ver \in Vers(n) /\ s.ver \in Vers(n) /\ t.ver \in Vers(n)
      /\ r.op \in Ops /\ s.op \in Ops /\ t.op \in Ops
  BY DEF TagsOf
<1>2. /\ OpIndex[r.op] \in Nat /\ OpIndex[s.op] \in Nat /\ OpIndex[t.op] \in Nat
      /\ OpIndex[s.op] = OpIndex[t.op] => s.op = t.op
  BY <1>1, OpsAreOrdered
<1>3. s.ver = t.ver /\ s.op = t.op => s = t
  BY DEF TagsOf
<1>4. ~ SortsBefore(t, t)
  BY <1>1, <1>2, LessIsTotal DEF SortsBefore
<1>5. SortsBefore(r, s) /\ SortsBefore(s, t) => SortsBefore(r, t)
  <2>1. Less(r.ver, s.ver) /\ Less(s.ver, t.ver) => Less(r.ver, t.ver)
    BY <1>1, LessIsTransitive
  <2> QED
    BY <2>1, <1>2 DEF SortsBefore
<1>6. s = t \/ SortsBefore(s, t) \/ SortsBefore(t, s)
  <2>1. s.ver = t.ver \/ Less(s.ver, t.ver) \/ Less(t.ver, s.ver)
    BY <1>1, LessIsTotal
  <2> QED
    BY <2>1, <1>2, <1>3 DEF SortsBefore
<1> QED
  BY <1>4, <1>5, <1>6

Before(T, t) == {s \in T : SortsBefore(s, t)}
Rank(T, t) == Cardinality(Before(T, t))

(* Of two tags the one that sorts before has fewer before it.              *)
LEMMA RanksGrow ==
    ASSUME NEW n \in Nat, NEW T \in SUBSET TagsOf(n), IsFiniteSet(T),
           NEW s \in T, NEW t \in T, SortsBefore(s, t)
    PROVE  Rank(T, s) < Rank(T, t)
<1>1. Before(T, s) \subseteq Before(T, t)
  BY TagsAreOrdered DEF Before
<1>2. s \in Before(T, t) /\ s \notin Before(T, s)
  BY TagsAreOrdered DEF Before
<1>3. IsFiniteSet(Before(T, t)) /\ IsFiniteSet(Before(T, s))
  BY FS_Subset DEF Before
<1>4. Rank(T, s) \in Nat /\ Rank(T, t) \in Nat
  BY <1>3, FS_CardinalityType DEF Rank
<1>5. Rank(T, s) <= Rank(T, t) /\ Rank(T, s) # Rank(T, t)
  BY <1>1, <1>2, <1>3, FS_Subset DEF Rank
<1> QED
  BY <1>4, <1>5

(* Every rank is taken, so Sorted lists the tags of the set.               *)
LEMMA SortedListsTags ==
    ASSUME NEW n \in Nat, NEW T \in SUBSET TagsOf(n), IsFiniteSet(T)
    PROVE  /\ Cardinality(T) \in Nat
           /\ DOMAIN Sorted(T) = 1 .. Cardinality(T)
           /\ \A i \in DOMAIN Sorted(T) :
                Sorted(T)[i] \in T /\ Rank(T, Sorted(T)[i]) = i - 1
<1> DEFINE c == Cardinality(T)
           f == [t \in T |-> Rank(T, t)]
<1>1. c \in Nat
  BY FS_CardinalityType
<1>2. \A t \in T : Rank(T, t) \in 0 .. c - 1
  <2> TAKE t \in T
  <2>1. Before(T, t) \subseteq T \ {t}
    BY TagsAreOrdered DEF Before
  <2>2. IsFiniteSet(T \ {t}) /\ Cardinality(T \ {t}) = c - 1
    BY FS_RemoveElement
  <2>3. IsFiniteSet(Before(T, t)) /\ Rank(T, t) <= c - 1
    BY <2>1, <2>2, FS_Subset DEF Rank
  <2>4. Rank(T, t) \in Nat
    BY <2>3, FS_CardinalityType DEF Rank
  <2> QED
    BY <1>1, <2>3, <2>4
<1>3. \A s, t \in T : Rank(T, s) = Rank(T, t) => s = t
  <2> TAKE s, t \in T
  <2>1. SortsBefore(s, t) => Rank(T, s) < Rank(T, t)
    BY RanksGrow
  <2>2. SortsBefore(t, s) => Rank(T, t) < Rank(T, s)
    BY RanksGrow
  <2>3. s = t \/ SortsBefore(s, t) \/ SortsBefore(t, s)
    BY TagsAreOrdered
  <2> QED
    BY <1>2, <2>1, <2>2, <2>3
<1>4. f \in Injection(T, 0 .. c - 1)
  BY <1>2, <1>3 DEF Injection, IsInjective
<1>5. IsFiniteSet(0 .. c - 1) /\ Cardinality(0 .. c - 1) = c
  <2> DEFINE m == c - 1
  <2>1. m \in Int /\ 0 \in Int
    BY <1>1
  <2> HIDE DEF m
  <2>2. IsFiniteSet(0 .. m) /\ Cardinality(0 .. m) = IF 0 > m THEN 0 ELSE m - 0 + 1
    BY <2>1, FS_Interval
  <2> QED
    BY <1>1, <2>2 DEF m
<1>6. f \in Surjection(T, 0 .. c - 1)
  BY <1>4, <1>5, FS_Injection
<1>7. \A i \in 1 .. c : \E t \in T : Rank(T, t) = i - 1
  <2> TAKE i \in 1 .. c
  <2>1. i - 1 \in 0 .. c - 1
    BY <1>1
  <2>2. \E t \in T : f[t] = i - 1
    BY <1>6, <2>1 DEF Surjection
  <2> QED
    BY <2>2
<1>8. /\ DOMAIN Sorted(T) = 1 .. c
      /\ \A i \in 1 .. c : Sorted(T)[i] = CHOOSE t \in T : Rank(T, t) = i - 1
  BY DEF Sorted, Rank, Before
<1> HIDE DEF c, f
<1>9. \A i \in 1 .. c : Sorted(T)[i] \in T /\ Rank(T, Sorted(T)[i]) = i - 1
  <2> TAKE i \in 1 .. c
  <2>1. PICK t \in T : Rank(T, t) = i - 1
    BY <1>7
  <2>2. Sorted(T)[i] = CHOOSE x \in T : Rank(T, x) = i - 1
    BY <1>8
  <2> QED
    BY <2>1, <2>2
<1> QED
  BY <1>1, <1>8, <1>9 DEF c

(* ... in the order of their versions.                                     *)
LEMMA SortedIsSorted ==
    ASSUME NEW n \in Nat, NEW T \in SUBSET TagsOf(n), IsFiniteSet(T),
           NEW i \in DOMAIN Sorted(T), NEW j \in DOMAIN Sorted(T), i <= j
    PROVE  AtMost(Sorted(T)[i].ver, Sorted(T)[j].ver)
<1> DEFINE s == Sorted(T)[i]
           t == Sorted(T)[j]
<1>1. /\ i \in Nat /\ j \in Nat
      /\ s \in T /\ Rank(T, s) = i - 1 /\ t \in T /\ Rank(T, t) = j - 1
  BY SortedListsTags
<1> HIDE DEF s, t
<1>2. ~ SortsBefore(t, s)
  BY <1>1, RanksGrow
<1>3. ~ Less(t.ver, s.ver)
  BY <1>2 DEF SortsBefore
<1>4. s.ver \in Vers(n) /\ t.ver \in Vers(n)
  BY <1>1 DEF TagsOf
<1>5. s.ver = t.ver \/ Less(s.ver, t.ver)
  BY <1>3, <1>4, LessIsTotal
<1> QED
  BY <1>5 DEF AtMost, s, t

-----------------------------------------------------------------------------
(* A since-only set of tags at a version of an upstream build and at a     *)
(* later micro release of it.                                              *)

LEMMA AtMostIsOrder ==
    ASSUME NEW n \in Nat, NEW u \in Vers(n), NEW v \in Vers(n), NEW w \in Vers(n)
    PROVE  /\ AtMost(u, v) /\ AtMost(v, w) => AtMost(u, w)
           /\ AtMost(u, v) /\ AtMost(v, u) => u = v
           /\ AtMost(u, v) \/ Less(v, u)
           /\ AtMost(u, v) /\ Less(v, w) => Less(u, w)
           /\ Less(u, v) /\ AtMost(v, w) => Less(u, w)
<1>1. /\ Less(u, v) /\ Less(v, w) => Less(u, w)
      /\ ~ (Less(u, v) /\ Less(v, u))
      /\ u = v \/ Less(u, v) \/ Less(v, u)
  BY LessIsTransitive, LessIsTotal
<1> QED
  BY <1>1 DEF AtMost

(* w is v or a later micro release.                                        *)
Later(n, v, w) ==
    /\ v[3] <= w[3]
    /\ \A i \in 1 .. n : i # 3 => w[i] = v[i]

LEMMA LaterIsNotLess ==
    ASSUME NEW n \in Nat, n >= 4, NEW v \in Vers(n), NEW w \in Vers(n), Later(n, v, w)
    PROVE  AtMost(v, w)
<1>1. \A i \in 1 .. n : v[i] \in Nat /\ w[i] \in Nat
  BY DEF Vers
<1>2. 3 \in 1 .. n
  OBVIOUS
<1>3. CASE v[3] = w[3]
  <2>1. \A i \in 1 .. n : v[i] = w[i]
    BY <1>3 DEF Later
  <2>2. v = w
    BY <2>1 DEF Vers
  <2> QED
    BY <2>2 DEF AtMost
<1>4. CASE v[3] < w[3]
  <2>1. \A j \in 1 .. 3 - 1 : v[j] = w[j]
    BY DEF Later
  <2>2. DOMAIN v = 1 .. n
    BY DEF Vers
  <2> QED
    BY <1>2, <1>4, <2>1, <2>2 DEF Less, AtMost
<1> QED
  BY <1>1, <1>2, <1>3, <1>4 DEF Later

(* Nothing whose third and fourth number are 0 lies between v and w.       *)
LEMMA NoBorderBetween ==
    ASSUME NEW n \in Nat, n >= 4, NEW v \in Vers(n), NEW w \in Vers(n), Later(n, v, w),
           v[4] # 0, NEW x \in Vers(n), x[3] = 0, x[4] = 0, AtMost(v, x), AtMost(x, w)
    PROVE  FALSE
<1>0. /\ \A i \in 1 .. n : v[i] \in Nat /\ w[i] \in Nat /\ x[i] \in Nat
      /\ DOMAIN v = 1 .. n /\ DOMAIN x = 1 .. n
      /\ 1 \in 1 .. n /\ 2 \in 1 .. n /\ 3 \in 1 .. n /\ 4 \in 1 .. n
  BY DEF Vers
<1>1. v # x
  BY <1>0
<1>2. PICK i \in 1 .. n : v[i] < x[i] /\ \A j \in 1 .. i - 1 : v[j] = x[j]
  BY <1>0, <1>1 DEF AtMost, Less
<1>3. i < 3
  <2>1. CASE i > 4
    <3>1. v[4] = x[4]
      BY <1>2, <2>1
    <3> QED
      BY <3>1
  <2>2. i # 3 /\ i # 4
    BY <1>0, <1>2
  <2> QED
    BY <2>1, <2>2
<1>4. v[i] = w[i] /\ \A j \in 1 .. i - 1 : v[j] = w[j]
  BY <1>3 DEF Later
<1>5. w[i] < x[i] /\ \A j \in 1 .. i - 1 : w[j] = x[j]
  BY <1>2, <1>4
<1>6. DOMAIN w = 1 .. n
  BY DEF Vers
<1>7. Less(w, x)
  BY <1>5, <1>6 DEF Less
<1> QED
  BY <1>7, AtMostIsOrder, LessIsTotal

(* The tags of such a set with their borders: no since-tag is exactly of   *)
(* the build, and every other tag is the border of a branch.               *)
SinceTags(n, v) ==
    {t \in TagsOf(n) : IF IsPlus(t) THEN t.op = "+=" => t.ver[4] # v[4]
                                    ELSE t.ver[3] = 0 /\ t.ver[4] = 0}

LEMMA ClosestStillHold ==
    ASSUME NEW n \in Nat, n >= 4, NEW v \in Vers(n), NEW w \in Vers(n), Later(n, v, w),
           v[4] # 0, NEW T \in SUBSET SinceTags(n, v), IsFiniteSet(T),
           ClosestHold(Sorted(T), v)
    PROVE  ClosestHold(Sorted(T), w)
<1> DEFINE seq == Sorted(T)
           ver(i) == seq[i].ver
           below(u) == {i \in DOMAIN seq : AtMost(ver(i), u)}
           above(u) == {i \in DOMAIN seq : AtMost(u, ver(i))}
<1>0. T \in SUBSET TagsOf(n)
  BY DEF SinceTags
<1>1. PICK c \in Nat : DOMAIN seq = 1 .. c
  BY <1>0, SortedListsTags
<1>2. \A i \in DOMAIN seq :
         /\ seq[i] \in SinceTags(n, v) /\ ver(i) \in Vers(n) /\ seq[i].op \in Ops
         /\ \A j \in DOMAIN seq : i <= j => AtMost(ver(i), ver(j))
  <2>1. \A i \in DOMAIN seq : seq[i] \in T
    BY <1>0, SortedListsTags
  <2>2. \A i, j \in DOMAIN seq : i <= j => AtMost(ver(i), ver(j))
    BY <1>0, SortedIsSorted
  <2> QED
    BY <2>1, <2>2, <1>0 DEF TagsOf
<1>3. /\ below(v) # {} => Holds(seq[Max(below(v))], v)
      /\ above(v) # {} => Holds(seq[Min(above(v))], v)
  BY DEF ClosestHold
<1>4. AtMost(v, w)
  BY LaterIsNotLess
<1> HIDE DEF seq
<1>5. \A i \in DOMAIN seq : IsPlus(seq[i]) /\ AtMost(v, ver(i)) => ~ Holds(seq[i], v)
  <2> SUFFICES ASSUME NEW i \in DOMAIN seq, IsPlus(seq[i]), AtMost(v, ver(i)), Holds(seq[i], v)
               PROVE  FALSE
    OBVIOUS
  <2>1. CASE seq[i].op = "+"
    <3>1. Less(ver(i), v)
      BY <2>1 DEF Holds
    <3> QED
      BY <3>1, <1>2, AtMostIsOrder, LessIsTotal
  <2>2. CASE seq[i].op = "+="
    <3>1. AtMost(ver(i), v)
      BY <2>2 DEF Holds
    <3>2. ver(i) = v
      BY <3>1, <1>2, AtMostIsOrder
    <3> QED
      BY <3>2, <1>2, <2>2 DEF SinceTags
  <2> QED
    BY <2>1, <2>2 DEF IsPlus
<1>6. \A i \in DOMAIN seq : ~ (AtMost(v, ver(i)) /\ AtMost(ver(i), w))
  <2> SUFFICES ASSUME NEW i \in DOMAIN seq, AtMost(v, ver(i)), AtMost(ver(i), w)
               PROVE  FALSE
    OBVIOUS
  <2>1. above(v) \in SUBSET Nat /\ i \in above(v)
    BY <1>1
  <2>2. Min(above(v)) \in above(v) /\ Min(above(v)) <= i
    BY <2>1, MinIsLeast
  <2>3. PICK a \in DOMAIN seq : a = Min(above(v)) /\ a <= i /\ AtMost(v, ver(a))
    BY <2>2
  <2>4. Holds(seq[a], v)
    BY <1>3, <2>1, <2>3
  <2>5. ~ IsPlus(seq[a])
    BY <1>5, <2>3, <2>4
  <2>6. ver(a)[3] = 0 /\ ver(a)[4] = 0
    BY <2>5, <1>2 DEF SinceTags
  <2>7. AtMost(ver(a), ver(i))
    BY <2>3, <1>2
  <2>8. AtMost(ver(a), w)
    BY <2>7, <1>2, AtMostIsOrder
  <2> QED
    BY <2>3, <2>6, <2>8, <1>2, NoBorderBetween
<1>7. \A i \in DOMAIN seq : /\ AtMost(ver(i), v) <=> AtMost(ver(i), w)
                            /\ AtMost(v, ver(i)) <=> AtMost(w, ver(i))
  <2> TAKE i \in DOMAIN seq
  <2>0. ver(i) \in Vers(n)
    BY <1>2
  <2>1. AtMost(ver(i), v) => AtMost(ver(i), w)
    BY <1>4, <2>0, AtMostIsOrder
  <2>2. AtMost(ver(i), w) => AtMost(ver(i), v)
    <3>1. AtMost(ver(i), v) \/ Less(v, ver(i))
      BY <2>0, AtMostIsOrder
    <3> QED
      BY <3>1, <1>6 DEF AtMost
  <2>3. AtMost(w, ver(i)) => AtMost(v, ver(i))
    BY <1>4, <2>0, AtMostIsOrder
  <2>4. AtMost(v, ver(i)) => AtMost(w, ver(i))
    <3>1. AtMost(w, ver(i)) \/ Less(ver(i), w)
      BY <2>0, AtMostIsOrder
    <3> QED
      BY <3>1, <1>6 DEF AtMost
  <2> QED
    BY <2>1, <2>2, <2>3, <2>4
<1>8. below(w) = below(v) /\ above(w) = above(v)
  BY <1>7
<1>9. ASSUME below(v) # {} PROVE Holds(seq[Max(below(v))], w)
  <2>1. below(v) \in SUBSET (1 .. c)
    BY <1>1
  <2>2. Max(below(v)) \in below(v)
    BY <1>9, <2>1, MaxIsGreatest
  <2>3. PICK m \in DOMAIN seq : m = Max(below(v)) /\ AtMost(ver(m), v)
    BY <2>2
  <2>4. Holds(seq[m], v)
    BY <1>3, <1>9, <2>3
  <2>5. Less(ver(m), v)
    BY <2>3, <1>6, <1>7 DEF AtMost
  <2>6. IsPlus(seq[m])
    <3>1. ~ Less(v, ver(m)) /\ ~ AtMost(v, ver(m))
      BY <2>5, <1>2, <1>6, <1>7, <2>3 DEF AtMost
    <3> QED
      BY <3>1, <2>4, <1>2 DEF Holds, IsPlus, Ops
  <2>7. Less(ver(m), w)
    BY <2>5, <1>2, <1>4, AtMostIsOrder
  <2>8. Holds(seq[m], w)
    BY <2>6, <2>7 DEF Holds, IsPlus, AtMost
  <2> QED
    BY <2>3, <2>8
<1>10. ASSUME above(v) # {} PROVE Holds(seq[Min(above(v))], w)
  <2>1. above(v) \in SUBSET Nat
    BY <1>1
  <2>2. Min(above(v)) \in above(v)
    BY <1>10, <2>1, MinIsLeast
  <2>3. PICK a \in DOMAIN seq : a = Min(above(v)) /\ AtMost(v, ver(a))
    BY <2>2
  <2>4. ~ IsPlus(seq[a])
    BY <1>3, <1>5, <1>10, <2>3
  <2>5. AtMost(w, ver(a)) /\ ~ AtMost(ver(a), w)
    BY <2>3, <1>6, <1>7
  <2>6. Less(w, ver(a))
    BY <2>5 DEF AtMost
  <2>7. Holds(seq[a], w)
    BY <2>4, <2>6, <1>2 DEF Holds, IsPlus, AtMost, Ops
  <2> QED
    BY <2>3, <2>7
<1> QED
  BY <1>8, <1>9, <1>10 DEF ClosestHold, seq

RawTags == [op : Ops, ver : Seq(Nat)]

(* A tag that does not name the build of v.                                *)
NotOfBuild(tag, v) == Len(tag.ver) >= 4 => tag.ver[4] # v[4]

LEMMA FilledIs ==
    ASSUME NEW n \in Nat, NEW tag \in RawTags
    PROVE  /\ Fill(tag, n) \in TagsOf(n)
           /\ Fill(tag, n).op = tag.op
           /\ IsPlus(Fill(tag, n)) <=> IsPlus(tag)
           /\ \A i \in 1 .. n : Fill(tag, n).ver[i] =
                IF i \in 1 .. Len(tag.ver) THEN tag.ver[i]
                ELSE IF tag.op \in {"+", "-="} THEN Top ELSE 0
<1> DEFINE pad == IF tag.op \in {"+", "-="} THEN Top ELSE 0
           ver == [i \in 1 .. n |-> IF i \in DOMAIN tag.ver THEN tag.ver[i] ELSE pad]
           filled == Fill(tag, n)
<1>1. tag.op \in Ops /\ tag.ver \in Seq(Nat)
  BY DEF RawTags
<1>2. DOMAIN tag.ver = 1 .. Len(tag.ver) /\ Len(tag.ver) \in Nat
  BY <1>1, LenProperties
<1>3. \A i \in DOMAIN tag.ver : tag.ver[i] \in Nat
  BY <1>1, ElementOfSeq, <1>2
<1>4. ver \in Vers(n)
  BY <1>3 DEF Vers, Top
<1>5. filled = [op |-> tag.op, ver |-> ver]
  <2>1. filled = [tag EXCEPT !.ver = ver]
    BY DEF Fill
  <2> HIDE DEF filled, ver
  <2>2. [tag EXCEPT !.ver = ver] = [op |-> tag.op, ver |-> ver]
    BY DEF RawTags
  <2> QED
    BY <2>1, <2>2
<1>6. filled.op = tag.op /\ filled.ver = ver
  <2> HIDE DEF filled, ver
  <2> QED
    BY <1>5
<1>7. filled \in TagsOf(n)
  BY <1>1, <1>4, <1>5 DEF TagsOf
<1>8. \A i \in 1 .. n : ver[i] = IF i \in 1 .. Len(tag.ver) THEN tag.ver[i] ELSE pad
  BY <1>2
<1> HIDE DEF filled, ver
<1> QED
  BY <1>6, <1>7, <1>8 DEF IsPlus, filled

LEMMA FilledSinceTag ==
    ASSUME NEW n \in Nat, n >= 4, NEW v \in Vers(n), v[4] # 0,
           NEW tag \in RawTags, IsPlus(tag), NotOfBuild(tag, v)
    PROVE  Fill(tag, n) \in SinceTags(n, v) /\ IsPlus(Fill(tag, n))
<1> DEFINE filled == Fill(tag, n)
<1>1. /\ filled \in TagsOf(n) /\ filled.op = tag.op /\ IsPlus(filled)
      /\ \A i \in 1 .. n : filled.ver[i] = IF i \in 1 .. Len(tag.ver) THEN tag.ver[i]
                                          ELSE IF tag.op \in {"+", "-="} THEN Top ELSE 0
  BY FilledIs
<1>2. tag.op = "+=" => filled.ver[4] # v[4]
  <2>1. 4 \in 1 .. n
    OBVIOUS
  <2>2. CASE 4 \in 1 .. Len(tag.ver)
    <3>1. Len(tag.ver) >= 4
      BY <2>2, LenProperties DEF RawTags
    <3> QED
      BY <2>1, <2>2, <3>1, <1>1 DEF NotOfBuild
  <2>3. CASE 4 \notin 1 .. Len(tag.ver)
    BY <2>1, <2>3, <1>1
  <2> QED
    BY <2>2, <2>3
<1> HIDE DEF filled
<1>3. filled \in SinceTags(n, v)
  BY <1>1, <1>2 DEF SinceTags, IsPlus
<1> QED
  BY <1>1, <1>3 DEF filled

LEMMA BorderOfSinceTag ==
    ASSUME NEW n \in Nat, n >= 4, NEW v, NEW t \in TagsOf(n), IsPlus(t)
    PROVE  AuxTag(t) \in SinceTags(n, v)
<1> DEFINE aux == AuxTag(t)
           ver == [i \in 1 .. n |-> IF i <= 2 THEN t.ver[i] ELSE 0]
<1>1. t.ver \in Vers(n)
  BY DEF TagsOf
<1>2. t.ver \in Seq(Nat) /\ Len(t.ver) = n
  BY <1>1, SeqDef, LenProperties DEF Vers
<1> DEFINE keep == Keep(Len(t.ver))
           border == IF IsPlus(t) THEN 0 ELSE Top
           inner == \E i \in keep + 1 .. Len(t.ver) : t.ver[i] # 0
           equal == ~inner /\ t.op \in {"+=", "-="}
           op == IF IsPlus(t) THEN (IF equal THEN "-=" ELSE "-")
                 ELSE (IF equal THEN "+=" ELSE "+")
           bordered == [i \in 1 .. Len(t.ver) |-> IF i <= keep THEN t.ver[i] ELSE border]
<1>3. aux = [op |-> op, ver |-> ver]
  <2>1. aux = [op |-> op, ver |-> bordered]
    BY DEF AuxTag
  <2>2. keep = 2 /\ border = 0
    BY <1>2 DEF Keep
  <2> HIDE DEF keep, border
  <2>3. bordered = ver
    BY <1>2, <2>2
  <2> QED
    BY <2>1, <2>3
<1> HIDE DEF equal
<1>4. ver \in Vers(n) /\ ver[3] = 0 /\ ver[4] = 0
  BY <1>1 DEF Vers
<1>5. aux.op \in {"-", "-="} /\ aux.ver = ver /\ aux \in TagsOf(n)
  <2>1. op \in {"-", "-="}
    OBVIOUS
  <2> HIDE DEF aux, ver, op
  <2> QED
    BY <2>1, <1>3, <1>4 DEF TagsOf, Ops
<1> QED
  BY <1>4, <1>5 DEF SinceTags, IsPlus

LEMMA BordersOfSinceTags ==
    ASSUME NEW n \in Nat, n >= 4, NEW v, NEW F \in SUBSET SinceTags(n, v), IsFiniteSet(F),
           \A t \in F : IsPlus(t)
    PROVE  AuxTags(F) \in SUBSET SinceTags(n, v) /\ IsFiniteSet(AuxTags(F))
<1> DEFINE seq == Sorted(F)
           A == AuxTags(F)
<1>1. F \in SUBSET TagsOf(n)
  BY DEF SinceTags
<1>2. PICK c \in Nat : DOMAIN seq = 1 .. c
  BY <1>1, SortedListsTags
<1>3. \A i \in DOMAIN seq : seq[i] \in F
  BY <1>1, SortedListsTags
<1>4. PICK I \in SUBSET DOMAIN seq : A = {AuxTag(seq[i]) : i \in I}
  BY DEF AuxTags
<1> HIDE DEF seq, A
<1>5. A \subseteq SinceTags(n, v)
  BY <1>1, <1>3, <1>4, BorderOfSinceTag
<1>6. IsFiniteSet(I)
  BY <1>2, <1>4, FS_Interval, FS_Subset
<1> DEFINE f == [i \in I |-> AuxTag(seq[i])]
<1>7. f \in Surjection(I, A)
  BY <1>4 DEF Surjection
<1>8. IsFiniteSet(A)
  BY <1>6, <1>7, FS_Surjection
<1> QED
  BY <1>5, <1>8 DEF A

(* Tags that only say since when a scenario runs and hold at a version of  *)
(* an upstream build hold at its later micro releases.                     *)
LEMMA SinceStillHolds ==
    ASSUME NEW n \in Nat, n >= 4, NEW v \in Vers(n), NEW w \in Vers(n), Later(n, v, w),
           v[4] # 0, NEW tags \in SUBSET RawTags, IsFiniteSet(tags),
           \A tag \in tags : IsPlus(tag) /\ NotOfBuild(tag, v), Satisfied(tags, v)
    PROVE  Satisfied(tags, w)
<1>1. Len(v) = n /\ Len(w) = n
  BY SeqDef, LenProperties DEF Vers
<1> DEFINE F == {Fill(tag, n) : tag \in tags}
           T == F \cup AuxTags(F)
           f == [tag \in tags |-> Fill(tag, n)]
<1>2. F \in SUBSET SinceTags(n, v) /\ \A t \in F : IsPlus(t)
  BY FilledSinceTag
<1>3. f \in Surjection(tags, F)
  BY DEF Surjection
<1>4. IsFiniteSet(F)
  BY <1>3, FS_Surjection
<1>5. T \in SUBSET SinceTags(n, v) /\ IsFiniteSet(T)
  <2>1. AuxTags(F) \in SUBSET SinceTags(n, v) /\ IsFiniteSet(AuxTags(F))
    BY <1>2, <1>4, BordersOfSinceTags
  <2> QED
    BY <2>1, <1>2, <1>4, FS_Union
<1>6. \A u : Len(u) = n =>
        (Satisfied(tags, u) <=>
           \/ tags = {}
           \/ \E tag \in tags : tag.ver = <<>> /\ tag.op = "+"
           \/ (\A tag \in tags : tag.ver # <<>>) /\ ClosestHold(Sorted(T), u))
  BY DEF Satisfied
<1> HIDE DEF F, T
<1>7. ClosestHold(Sorted(T), v) => ClosestHold(Sorted(T), w)
  BY <1>5, ClosestStillHold
<1> QED
  BY <1>1, <1>6, <1>7

-----------------------------------------------------------------------------
(* Upstream builds.                                                        *)

(* No version tag carries the build number of an upstream build, which is  *)
(* its count of commits: tags with a fourth number name packages, or what  *)
(* tells packages from upstream builds (1.45.4.2000).                      *)
NoTagNamesABuild ==
    \A host \in Hosts, t \in Tests :
        Stream(host.build) = Upstream =>
            \A i \in DOMAIN t : \A tag \in t[i].ver : NotOfBuild(tag, Version(host.build))

Since == {i \in DOMAIN test : \A tag \in test[i].ver : IsPlus(tag)}
MustRun == Since \cap Fitting(NextRelease)
Numbers == Len(Installed)

(* The cached version is a later micro release of the installed one, while *)
(* candidates are selected at least the next.                              *)
Counted ==
    /\ nm_version \in Vers(Numbers)
    /\ Later(Numbers, Installed, nm_version)
    /\ phase = "select" => Later(Numbers, NextRelease, nm_version)

Kept ==
    /\ (result = 0 /\ ~raised) => MustRun \cap (1 .. k) = {}
    /\ skips \cap MustRun = {}

UInv == [build |-> build, distro |-> distro] \in Hosts
        /\ (~Package => Counted /\ Kept)

LEMMA VersionsOfUpstream ==
    ASSUME [build |-> build, distro |-> distro] \in Hosts, ~Package
    PROVE  /\ Numbers \in Nat /\ Numbers >= 4
           /\ Installed \in Vers(Numbers) /\ NextRelease \in Vers(Numbers)
           /\ Later(Numbers, Installed, NextRelease)
           /\ Installed[4] # 0 /\ NextRelease[4] = Installed[4]
<1> DEFINE host == [build |-> build, distro |-> distro]
           b == Installed
<1>1. b \in Seq(Nat) /\ build.suffix # Upstream
  <2>1. host.build = build
    OBVIOUS
  <2>2. host \in Hosts
    OBVIOUS
  <2> HIDE DEF host
  <2> QED
    BY <2>1, <2>2, HostsAssumption DEF Installed
<1>2. ~ (Len(b) < 4) /\ b[4] > 1000
  <2>1. <<"unknown">> # Upstream
    BY DEF Upstream
  <2>2. Stream(build) = IF Len(b) < 4 THEN <<"unknown">>
                        ELSE IF b[4] > 1000 THEN Upstream
                        ELSE IF build.suffix = <<>> THEN <<"unknown">> ELSE build.suffix
    BY DEF Stream, Installed
  <2> HIDE DEF b
  <2>3. Stream(build) = Upstream
    BY DEF Package
  <2> QED
    BY <2>1, <2>2, <2>3, <1>1
<1>3. Len(b) \in Nat /\ b \in Vers(Len(b))
  BY <1>1, LenProperties, SeqDef DEF Vers
<1>4. NextRelease = [b EXCEPT ![3] = @ + 1]
  BY DEF NextRelease, Installed
<1> HIDE DEF b
<1>5. b[3] \in Nat /\ b[4] \in Nat
  BY <1>2, <1>3 DEF Vers
<1>6. NextRelease \in Vers(Len(b)) /\ Later(Len(b), b, NextRelease) /\ NextRelease[4] = b[4]
  BY <1>2, <1>3, <1>4, <1>5 DEF Vers, Later
<1> QED
  BY <1>2, <1>3, <1>5, <1>6 DEF b, Numbers

(* What counts a version up once more.                                     *)
LEMMA BumpedIsLater ==
    ASSUME ~Package, NEW n \in Nat, n >= 4, NEW u \in Vers(n), NEW v \in Vers(n),
           Later(n, u, v)
    PROVE  /\ Bump(v) \in Vers(n)
           /\ Later(n, u, Bump(v))
           /\ Later(n, [u EXCEPT ![3] = @ + 1], Bump(v))
<1>1. Bump(v) = [v EXCEPT ![3] = @ + 1]
  BY DEF Bump, Package
<1>2. u[3] \in Nat /\ v[3] \in Nat /\ 3 \in 1 .. n
  BY DEF Vers
<1> QED
  BY <1>1, <1>2 DEF Vers, Later

LEMMA StreamTagsAreTags ==
    ASSUME NEW S, IsFiniteSet(S), NEW stream,
           \A tag \in S : tag.op \in Ops /\ tag.ver \in Seq(Nat)
    PROVE  /\ ForStream(S, stream) \in SUBSET RawTags
           /\ IsFiniteSet(ForStream(S, stream))
           /\ \A t \in ForStream(S, stream) : \E tag \in S : t.op = tag.op /\ t.ver = tag.ver
<1>1. PICK R \in SUBSET S :
         ForStream(S, stream) = {[op |-> tag.op, ver |-> tag.ver] : tag \in R}
  BY DEF ForStream
<1> DEFINE T == ForStream(S, stream)
           f == [tag \in R |-> [op |-> tag.op, ver |-> tag.ver]]
<1>2. IsFiniteSet(R)
  BY FS_Subset
<1>3. f \in Surjection(R, T)
  BY <1>1 DEF Surjection
<1>4. IsFiniteSet(T)
  BY <1>2, <1>3, FS_Surjection
<1>5. ASSUME NEW t \in T
      PROVE  t \in RawTags /\ \E tag \in S : t.op = tag.op /\ t.ver = tag.ver
  <2>1. PICK tag \in R : t = [op |-> tag.op, ver |-> tag.ver]
    BY <1>1
  <2>2. t.op = tag.op /\ t.ver = tag.ver
    BY <2>1
  <2>3. tag.op \in Ops /\ tag.ver \in Seq(Nat)
    OBVIOUS
  <2>4. t \in RawTags
    BY <2>1, <2>3 DEF RawTags
  <2> QED
    BY <2>2, <2>4
<1> QED
  BY <1>4, <1>5

LEMMA StreamTags ==
    ASSUME NEW v, NEW S, IsFiniteSet(S), NEW stream,
           \A tag \in S : /\ tag.op \in Ops /\ tag.ver \in Seq(Nat)
                          /\ IsPlus(tag) /\ NotOfBuild(tag, v)
    PROVE  /\ ForStream(S, stream) \in SUBSET RawTags
           /\ IsFiniteSet(ForStream(S, stream))
           /\ \A tag \in ForStream(S, stream) : IsPlus(tag) /\ NotOfBuild(tag, v)
BY StreamTagsAreTags DEF IsPlus, NotOfBuild

(* A scenario that must run fits every version it may be judged at.        *)
LEMMA MustRunFits ==
    ASSUME NoTagNamesABuild, [build |-> build, distro |-> distro] \in Hosts, ~Package,
           test \in Tests, NEW i \in MustRun,
           NEW w \in Vers(Numbers), Later(Numbers, NextRelease, w)
    PROVE  PackageFits(test[i]) /\ Fits(test[i], w)
<1> DEFINE tags == VerTags(test[i])
           v == NextRelease
<1>0. /\ Numbers \in Nat /\ Numbers >= 4 /\ v \in Vers(Numbers)
      /\ v[4] # 0 /\ v[4] = Installed[4]
  BY VersionsOfUpstream
<1>1. i \in DOMAIN test /\ Fits(test[i], v) /\ \A tag \in test[i].ver : IsPlus(tag)
  BY DEF MustRun, Since, Fitting
<1>2. /\ IsFiniteSet(test[i].ver)
      /\ \A tag \in test[i].ver : tag.op \in Ops /\ tag.ver \in Seq(Nat)
  BY <1>1, TestsAssumption
<1>3. \A tag \in test[i].ver : NotOfBuild(tag, v)
  <2> DEFINE host == [build |-> build, distro |-> distro]
  <2>1. host \in Hosts /\ host.build = build
    OBVIOUS
  <2>2. Stream(host.build) = Upstream
    BY <2>1 DEF Package
  <2> HIDE DEF host
  <2>3. \A tag \in test[i].ver : NotOfBuild(tag, Installed)
    BY <1>1, <2>1, <2>2 DEF NoTagNamesABuild, Installed
  <2> QED
    BY <1>0, <2>3 DEF NotOfBuild
<1> HIDE DEF v
<1>4. /\ tags \in SUBSET RawTags /\ IsFiniteSet(tags)
      /\ \A tag \in tags : IsPlus(tag) /\ NotOfBuild(tag, v)
  BY <1>1, <1>2, <1>3, StreamTags DEF VerTags
<1>5. /\ PackageFits(test[i]) /\ Satisfied(tags, v) /\ ~MatchRaises(test[i], v)
      /\ Satisfied(DistroTags(test[i]), distro.version)
  BY <1>1 DEF Fits
<1>6. Satisfied(tags, w)
  BY <1>0, <1>4, <1>5, SinceStillHolds DEF v
<1>7. Len(w) = Len(v)
  BY <1>0, SeqDef, LenProperties DEF Vers
<1>8. ~MatchRaises(test[i], w)
  BY <1>5, <1>7 DEF MatchRaises, TooLong
<1> QED
  BY <1>5, <1>6, <1>8 DEF Fits

LEMMA InitImpliesUInv == Init => UInv
<1> SUFFICES ASSUME Init PROVE UInv
  OBVIOUS
<1>1. [build |-> build, distro |-> distro] \in Hosts
  <2>1. PICK host \in Hosts : build = host.build /\ distro = host.distro
    BY DEF Init
  <2> QED
    BY <2>1, HostsAssumption
<1>2. ASSUME ~Package PROVE Counted
  <2>1. nm_version = Installed /\ phase # "select"
    BY DEF Init, Installed
  <2>2. Installed \in Vers(Numbers)
    BY <1>1, <1>2, VersionsOfUpstream
  <2>3. Later(Numbers, Installed, Installed)
    BY <1>1, <1>2, VersionsOfUpstream DEF Later, Vers
  <2> QED
    BY <2>1, <2>2, <2>3 DEF Counted
<1>3. Kept
  BY DEF Init, Kept
<1> QED
  BY <1>1, <1>2, <1>3 DEF UInv

LEMMA NextKeepsUInv ==
    ASSUME NoTagNamesABuild, IInv, UInv, [Next]_vars PROVE UInv'
<1>0. UNCHANGED <<build, distro, test>>
  BY DEF Next, vars, EnterSelect, RunUnasked, JudgeCandidate, Select,
         BeforeScenario, BehaveEnds
<1>1. /\ Package' = Package /\ Installed' = Installed /\ Numbers' = Numbers
      /\ NextRelease' = NextRelease /\ MustRun' = MustRun
  BY <1>0 DEF Fitting, Fits, PackageFits, StockPackage, VerTags, DistroTags, MatchRaises,
              Package, Installed, Numbers, NextRelease, MustRun, Since
<1>2. [build |-> build, distro |-> distro]' \in Hosts
  BY <1>0 DEF UInv
<1> SUFFICES ASSUME ~Package PROVE Counted' /\ Kept'
  BY <1>1, <1>2 DEF UInv
<1>3. /\ Numbers \in Nat /\ Numbers >= 4
      /\ Installed \in Vers(Numbers) /\ NextRelease \in Vers(Numbers)
      /\ Later(Numbers, Installed, NextRelease) /\ Counted /\ Kept
  BY VersionsOfUpstream DEF UInv
<1>4. /\ nm_version \in Vers(Numbers) /\ Later(Numbers, Installed, nm_version)
      /\ phase = "select" => Later(Numbers, NextRelease, nm_version)
  BY <1>3 DEF Counted
<1>5. NextRelease = [Installed EXCEPT ![3] = @ + 1]
  BY DEF NextRelease, Installed
<1>6. \A tags : /\ BumpOnMatch(tags, nm_version) \in Vers(Numbers)
                /\ Later(Numbers, Installed, BumpOnMatch(tags, nm_version))
                /\ phase = "select" =>
                     Later(Numbers, NextRelease, BumpOnMatch(tags, nm_version))
                /\ PackageFits(tags) =>
                     Later(Numbers, NextRelease, BumpOnMatch(tags, nm_version))
  <2>1. /\ Bump(nm_version) \in Vers(Numbers) /\ Later(Numbers, Installed, Bump(nm_version))
        /\ Later(Numbers, NextRelease, Bump(nm_version))
    BY <1>3, <1>4, <1>5, BumpedIsLater
  <2> QED
    BY <1>4, <2>1 DEF BumpOnMatch
<1>7. test \in Tests /\ Len(test) \in Nat /\ DOMAIN test = 1 .. Len(test) /\ k \in Nat
  BY TestsAssumption DEF IInv, Progress
<1>8. CASE EnterSelect
  <2>1. phase' = "select" /\ nm_version' = Bump(nm_version) /\ UNCHANGED <<k, result, raised, skips>>
    BY <1>8 DEF EnterSelect
  <2>2. /\ Bump(nm_version) \in Vers(Numbers) /\ Later(Numbers, Installed, Bump(nm_version))
        /\ Later(Numbers, NextRelease, Bump(nm_version))
    BY <1>3, <1>4, <1>5, BumpedIsLater
  <2>3. Counted'
    BY <2>1, <2>2, <1>1 DEF Counted
  <2>4. Kept'
    BY <2>1, <1>1, <1>3 DEF Kept
  <2> QED
    BY <2>3, <2>4
<1>9. CASE RunUnasked \/ BehaveEnds \/ UNCHANGED vars
  <2>1. /\ UNCHANGED <<nm_version, k, result, raised, skips>>
        /\ phase' = "select" => phase = "select"
    BY <1>9 DEF RunUnasked, BehaveEnds, vars
  <2> QED
    BY <2>1, <1>1, <1>3 DEF Counted, Kept
<1>10. CASE Select
  <2>1. /\ UNCHANGED <<k, result, raised, skips>> /\ phase' # "select"
        /\ nm_version' \in {nm_version, Installed}
    BY <1>10 DEF Select, Installed
  <2>2. Later(Numbers, Installed, Installed)
    BY <1>3 DEF Later, Vers
  <2>3. Counted'
    BY <2>1, <2>2, <1>1, <1>3, <1>4 DEF Counted
  <2> QED
    BY <2>1, <2>3, <1>1, <1>3 DEF Kept
<1>11. CASE JudgeCandidate
  <2> DEFINE tags == test[k + 1]
             v == BumpOnMatch(tags, nm_version)
             fails == MatchRaises(tags, v) \/ (Fits(tags, v) /\ result # 0)
  <2>1. /\ phase = "select" /\ k < Len(test) /\ k' = k + 1
        /\ nm_version' = v /\ raised' = fails
        /\ result' = IF ~fails /\ Fits(tags, v) THEN k + 1 ELSE result
        /\ UNCHANGED skips
    BY <1>11 DEF JudgeCandidate
  <2>2. Counted'
    BY <2>1, <1>1, <1>6 DEF Counted
  <2>3. ASSUME k + 1 \in MustRun PROVE Fits(tags, v)
    <3>1. Later(Numbers, NextRelease, v) /\ v \in Vers(Numbers)
      BY <2>1, <1>6
    <3> QED
      BY <3>1, <2>3, <1>7, MustRunFits DEF UInv
  <2>4. ASSUME result' = 0, ~raised' PROVE MustRun \cap (1 .. k + 1) = {}
    <3>0. k + 1 # 0 /\ 1 .. k + 1 = (1 .. k) \cup {k + 1}
      BY <1>7
    <3>1. result = 0 /\ ~Fits(tags, v)
      <4> HIDE DEF tags, v
      <4>1. ~fails
        BY <2>1, <2>4
      <4>2. ~Fits(tags, v)
        BY <2>1, <2>4, <3>0, <4>1
      <4> QED
        BY <2>1, <2>4, <4>2
    <3>2. k + 1 \notin MustRun
      BY <2>3, <3>1
    <3>3. ~raised
      BY <2>1 DEF IInv, Progress
    <3>4. MustRun \cap (1 .. k) = {}
      BY <3>1, <3>3, <1>3 DEF Kept
    <3> QED
      BY <3>0, <3>2, <3>4
  <2>5. Kept'
    <3> HIDE DEF tags, v, fails
    <3> QED
      BY <2>1, <2>4, <1>1, <1>3 DEF Kept
  <2> QED
    BY <2>2, <2>5
<1>12. CASE BeforeScenario
  <2> DEFINE i == Head(queue)
             v == BumpOnMatch(test[i], nm_version)
  <2>1. /\ phase = "behave" /\ queue # <<>>
        /\ nm_version' = v /\ UNCHANGED <<phase, k, result, raised>>
        /\ \/ UNCHANGED skips
           \/ ~Fits(test[i], v) /\ skips' = skips \cup {i}
    BY <1>12 DEF BeforeScenario
  <2>2. Counted'
    BY <2>1, <1>1, <1>6 DEF Counted
  <2>3. ASSUME i \in MustRun PROVE Fits(test[i], v)
    <3>1. PackageFits(test[i])
      BY <2>3 DEF MustRun, Fitting, Fits
    <3>2. Later(Numbers, NextRelease, v) /\ v \in Vers(Numbers)
      BY <3>1, <1>6
    <3> QED
      BY <3>2, <2>3, <1>7, MustRunFits DEF UInv
  <2>4. Kept'
    <3> HIDE DEF i, v
    <3> QED
      BY <2>1, <2>3, <1>1, <1>3 DEF Kept
  <2> QED
    BY <2>2, <2>4
<1> QED
  BY <1>8, <1>9, <1>10, <1>11, <1>12 DEF Next

(* For every set of upstream builds, distributions and tests no version    *)
(* tag of which carries the number of a build: a scenario that only says   *)
(* since when it runs, and fits the next release, is not lost by being     *)
(* judged as a later one (version_control.py, test_tags_match_version).    *)
THEOREM SinceIsNeverLost ==
    ASSUME NoTagNamesABuild
    PROVE  Spec => []SinceNeverLost
<1>1. Init => IInv /\ UInv
  BY InitImpliesIInv, InitImpliesUInv
<1>2. (IInv /\ UInv) /\ [Next]_vars => (IInv /\ UInv)'
  BY NextKeepsIInv, NextKeepsUInv
<1>3. IInv /\ UInv => SinceNeverLost
  <2> SUFFICES ASSUME IInv, UInv, ~Package
               PROVE  /\ (phase = "done" /\ k > 0 /\ result = 0 /\ ~raised) => MustRun = {}
                      /\ skips \cap MustRun = {}
    BY DEF SinceNeverLost, MustRun, Since, Package
  <2>1. Kept /\ Progress
    BY DEF IInv, UInv
  <2>2. MustRun \subseteq 1 .. Len(test)
    BY <2>1, TestsAssumption DEF MustRun, Fitting, Progress
  <2> QED
    BY <2>1, <2>2 DEF Kept, Progress
<1> QED
  BY <1>1, <1>2, <1>3, PTL DEF Spec

-----------------------------------------------------------------------------
(* What tags mean.  Branches are intervals of versions.                    *)

Same(n, u, v) == \A i \in 1 .. Keep(n) : u[i] = v[i]

LEMMA KeepIsShort ==
    ASSUME NEW n \in Nat, n >= 1
    PROVE  Keep(n) \in 1 .. n /\ Keep(n) \in {1, 2}
BY DEF Keep

LEMMA SameIsSame ==
    ASSUME NEW n, NEW u, NEW v, NEW w
    PROVE  /\ Same(n, u, u)
           /\ Same(n, u, v) => Same(n, v, u)
           /\ Same(n, u, v) /\ Same(n, v, w) => Same(n, u, w)
BY DEF Same

LEMMA BranchesAreOrdered ==
    ASSUME NEW n \in Nat, n >= 1, NEW u \in Vers(n), NEW v \in Vers(n),
           Less(u, v), ~Same(n, u, v),
           NEW x \in Vers(n), NEW y \in Vers(n), Same(n, x, u), Same(n, y, v)
    PROVE  Less(x, y)
<1>1. PICK i \in 1 .. n : u[i] < v[i] /\ \A j \in 1 .. i - 1 : u[j] = v[j]
  BY DEF Less, Vers
<1>2. i \in 1 .. Keep(n)
  <2>1. Keep(n) \in 1 .. n
    BY KeepIsShort
  <2>2. PICK l \in 1 .. Keep(n) : u[l] # v[l]
    BY DEF Same
  <2>3. ~ (l \in 1 .. i - 1)
    BY <1>1, <2>2
  <2> QED
    BY <2>1, <2>2, <2>3
<1>3. \A j \in 1 .. i : x[j] = u[j] /\ y[j] = v[j]
  <2>1. Keep(n) \in 1 .. n
    BY KeepIsShort
  <2>2. \A j \in 1 .. i : j \in 1 .. Keep(n)
    BY <1>2, <2>1
  <2> QED
    BY <2>2 DEF Same
<1>4. x[i] < y[i] /\ \A j \in 1 .. i - 1 : x[j] = y[j]
  BY <1>1, <1>3
<1>5. DOMAIN x = 1 .. n
  BY DEF Vers
<1> QED
  BY <1>4, <1>5 DEF Less

LEMMA BranchesAreIntervals ==
    ASSUME NEW n \in Nat, n >= 1, NEW u \in Vers(n), NEW v \in Vers(n), NEW w \in Vers(n),
           AtMost(u, v), AtMost(v, w), Same(n, u, w)
    PROVE  Same(n, u, v)
<1> SUFFICES ASSUME ~Same(n, u, v) PROVE FALSE
  OBVIOUS
<1>1. Less(u, v)
  BY SameIsSame DEF AtMost
<1>2. Less(w, v)
  BY <1>1, SameIsSame, BranchesAreOrdered
<1> QED
  BY <1>2, AtMostIsOrder, LessIsTotal

(* A version with zeros, or with numbers above all, behind its branch.     *)
LEMMA ZerosComeFirst ==
    ASSUME NEW n \in Nat, n >= 1, NEW u \in Vers(n), NEW v \in Vers(n), Same(n, u, v),
           \A i \in 1 .. n : i > Keep(n) => u[i] = 0
    PROVE  AtMost(u, v)
<1> SUFFICES ASSUME Less(v, u) PROVE FALSE
  BY AtMostIsOrder
<1>1. PICK i \in 1 .. n : v[i] < u[i]
  BY DEF Less, Vers
<1>2. v[i] \in Nat /\ u[i] \in Nat
  BY DEF Vers
<1>3. Keep(n) \in 1 .. n
  BY KeepIsShort
<1>4. CASE i > Keep(n)
  BY <1>1, <1>2, <1>4
<1>5. CASE ~ (i > Keep(n))
  <2>1. i \in 1 .. Keep(n)
    BY <1>3, <1>5
  <2>2. u[i] = v[i]
    BY <2>1 DEF Same
  <2> QED
    BY <1>1, <1>2, <2>2
<1> QED
  BY <1>4, <1>5

LEMMA TopsComeLast ==
    ASSUME NEW n \in Nat, n >= 1, NEW u \in Vers(n), NEW v \in Vers(n), Same(n, u, v),
           \A i \in 1 .. n : i > Keep(n) => u[i] = Top,
           Small(v)
    PROVE  IF n = Keep(n) THEN v = u ELSE Less(v, u)
<1>1. Keep(n) \in 1 .. n /\ Keep(n) \in {1, 2}
  BY KeepIsShort
<1>2. CASE n = Keep(n)
  <2>1. \A i \in 1 .. n : v[i] = u[i]
    BY <1>2 DEF Same
  <2> QED
    BY <1>2, <2>1 DEF Vers
<1>3. CASE n # Keep(n)
  <2> DEFINE i == Keep(n) + 1
  <2>1. i \in 1 .. n /\ i \in {2, 3} /\ i > Keep(n)
    BY <1>1, <1>3
  <2>2. DOMAIN v = 1 .. n
    BY DEF Vers
  <2>3. v[i] < u[i]
    BY <2>1, <2>2 DEF Small
  <2>4. \A j \in 1 .. i - 1 : v[j] = u[j]
    <3>1. i - 1 = Keep(n)
      BY <1>1
    <3> QED
      BY <3>1 DEF Same
  <2>5. Less(v, u)
    <3> HIDE DEF i
    <3> QED
      BY <2>1, <2>2, <2>3, <2>4 DEF Less
  <2> QED
    BY <1>3, <2>5
<1> QED
  BY <1>2, <1>3

(* The places of the operators.                                            *)
LEMMA OpsInOrder ==
    /\ OpIndex["-"] < OpIndex["-="] /\ OpIndex["-="] < OpIndex["+="]
    /\ OpIndex["+="] < OpIndex["+"]
    /\ \A o \in Ops : OpIndex[o] \in Nat
<1> DEFINE seq == <<"-", "-=", "+=", "+">>
           Place(x) == CHOOSE i \in 1 .. 4 : seq[i] = x
<1>1. seq[1] = "-" /\ seq[2] = "-=" /\ seq[3] = "+=" /\ seq[4] = "+"
  OBVIOUS
<1>2. \A o \in Ops : OpIndex[o] = Place(o)
  BY DEF OpIndex
<1> HIDE DEF seq
<1>3. \A x \in Ops : Place(x) \in 1 .. 4 /\ seq[Place(x)] = x
  <2>1. \A x \in Ops : \E i \in 1 .. 4 : seq[i] = x
    <3>1. 1 \in 1 .. 4 /\ 2 \in 1 .. 4 /\ 3 \in 1 .. 4 /\ 4 \in 1 .. 4
      OBVIOUS
    <3> QED
      BY <1>1, <3>1 DEF Ops
  <2> QED
    BY <2>1
<1> HIDE DEF Place
<1>4. \A i \in 1 .. 4 : i = 1 \/ i = 2 \/ i = 3 \/ i = 4
  OBVIOUS
<1>5. "-" \in Ops /\ "-=" \in Ops /\ "+=" \in Ops /\ "+" \in Ops
  BY DEF Ops
<1>6. Place("-") = 1 /\ Place("-=") = 2 /\ Place("+=") = 3 /\ Place("+") = 4
  BY <1>1, <1>3, <1>4, <1>5
<1> QED
  BY <1>2, <1>3, <1>5, <1>6

LEMMA MinusSortsFirst ==
    ASSUME NEW o \in {"-", "-="}, NEW p \in {"+=", "+"}
    PROVE  OpIndex[o] < OpIndex[p]
<1>1. o \in Ops /\ p \in Ops
  BY DEF Ops
<1>2. OpIndex[o] \in Nat /\ OpIndex[p] \in Nat
  BY <1>1, OpsInOrder
<1> DEFINE x == OpIndex["-="]
           y == OpIndex["+="]
<1>3. x \in Nat /\ y \in Nat /\ x < y
  BY OpsInOrder DEF Ops
<1>4. OpIndex[o] <= x /\ y <= OpIndex[p]
  BY OpsInOrder DEF Ops
<1> HIDE DEF x, y
<1> QED
  BY <1>2, <1>3, <1>4

LEMMA PlusOrMinus ==
    ASSUME NEW n, NEW t \in TagsOf(n)
    PROVE  /\ IsPlus(t) => t.op \in {"+=", "+"}
           /\ ~IsPlus(t) => t.op \in {"-", "-="}
           /\ t.ver \in Vers(n)
BY DEF TagsOf, IsPlus, Ops

(* The border of a branch that a tag gets.                                 *)
Inner(n, t) == \E i \in 1 .. n : i > Keep(n) /\ t.ver[i] # 0

LEMMA BorderIs ==
    ASSUME NEW n \in Nat, n >= 1, NEW t \in TagsOf(n)
    PROVE  /\ AuxTag(t) \in TagsOf(n)
           /\ IsPlus(AuxTag(t)) <=> ~IsPlus(t)
           /\ Same(n, AuxTag(t).ver, t.ver)
           /\ \A i \in 1 .. n : i > Keep(n) =>
                AuxTag(t).ver[i] = IF IsPlus(t) THEN 0 ELSE Top
           /\ AuxTag(t).op = "-=" <=> t.op = "+=" /\ ~Inner(n, t)
           /\ AuxTag(t).op = "+=" <=> t.op = "-=" /\ ~Inner(n, t)
<1> DEFINE aux == AuxTag(t)
           keep == Keep(Len(t.ver))
           border == IF IsPlus(t) THEN 0 ELSE Top
           inner == \E i \in keep + 1 .. Len(t.ver) : t.ver[i] # 0
           equal == ~inner /\ t.op \in {"+=", "-="}
           op == IF IsPlus(t) THEN (IF equal THEN "-=" ELSE "-")
                 ELSE (IF equal THEN "+=" ELSE "+")
           ver == [i \in 1 .. Len(t.ver) |-> IF i <= keep THEN t.ver[i] ELSE border]
<1>1. t.ver \in Vers(n) /\ t.op \in Ops
  BY DEF TagsOf
<1>2. Len(t.ver) = n
  BY <1>1, SeqDef, LenProperties DEF Vers
<1>3. aux = [op |-> op, ver |-> ver]
  BY DEF AuxTag
<1>4. border \in Nat
  BY DEF Top
<1>5. keep = Keep(n) /\ keep \in 1 .. n
  BY <1>2, KeepIsShort
<1> HIDE DEF keep, border
<1>6. ver \in Vers(n) /\ \A i \in 1 .. n : ver[i] = IF i <= Keep(n) THEN t.ver[i] ELSE border
  BY <1>1, <1>2, <1>4, <1>5 DEF Vers
<1>7. inner <=> Inner(n, t)
  BY <1>2, <1>5 DEF Inner
<1> HIDE DEF inner
<1>8. /\ op \in Ops
      /\ op \in {"+=", "+"} <=> ~IsPlus(t)
      /\ op = "-=" <=> t.op = "+=" /\ ~Inner(n, t)
      /\ op = "+=" <=> t.op = "-=" /\ ~Inner(n, t)
  BY <1>1, <1>7 DEF IsPlus, Ops
<1> HIDE DEF op, ver, aux
<1>9. aux.op = op /\ aux.ver = ver /\ aux \in TagsOf(n)
  BY <1>3, <1>6, <1>8 DEF TagsOf
<1>10. Same(n, ver, t.ver)
  <2>1. \A i \in 1 .. Keep(n) : i \in 1 .. n /\ i <= Keep(n)
    BY <1>5
  <2> QED
    BY <2>1, <1>6 DEF Same
<1>11. \A i \in 1 .. n : i > Keep(n) => ver[i] = IF IsPlus(t) THEN 0 ELSE Top
  BY <1>5, <1>6 DEF border
<1>12. IsPlus(aux) <=> ~IsPlus(t)
  BY <1>8, <1>9 DEF IsPlus
<1> QED
  BY <1>8, <1>9, <1>10, <1>11, <1>12 DEF aux

(* The number behind its branch is not above all, unless all are.          *)
Capped(n, u) ==
    \/ n = Keep(n)
    \/ u[Keep(n) + 1] < Top
    \/ \A i \in 1 .. n : i > Keep(n) => u[i] = Top

LEMMA SinceBorder ==
    ASSUME NEW n \in Nat, n >= 1, NEW t \in TagsOf(n), IsPlus(t)
    PROVE  /\ SortsBefore(AuxTag(t), t)
           /\ AtMost(AuxTag(t).ver, t.ver)
           /\ AuxTag(t).op = "-=" <=> t.op = "+=" /\ AuxTag(t).ver = t.ver
<1> DEFINE aux == AuxTag(t)
<1>1. /\ aux \in TagsOf(n) /\ ~IsPlus(aux) /\ Same(n, aux.ver, t.ver)
      /\ \A i \in 1 .. n : i > Keep(n) => aux.ver[i] = 0
      /\ aux.op = "-=" <=> t.op = "+=" /\ ~Inner(n, t)
  BY BorderIs
<1> HIDE DEF aux
<1>2. /\ aux.ver \in Vers(n) /\ t.ver \in Vers(n)
      /\ aux.op \in {"-", "-="} /\ t.op \in {"+=", "+"}
  BY <1>1, PlusOrMinus
<1>3. AtMost(aux.ver, t.ver)
  BY <1>1, <1>2, ZerosComeFirst
<1>4. SortsBefore(aux, t)
  BY <1>2, <1>3, MinusSortsFirst DEF SortsBefore, AtMost
<1>5. ~Inner(n, t) <=> aux.ver = t.ver
  <2>1. Keep(n) \in 1 .. n
    BY KeepIsShort
  <2>2. \A i \in 1 .. n : ~ (i > Keep(n)) => aux.ver[i] = t.ver[i]
    BY <1>1, <2>1 DEF Same
  <2>3. ASSUME ~Inner(n, t) PROVE aux.ver = t.ver
    <3>1. \A i \in 1 .. n : aux.ver[i] = t.ver[i]
      BY <1>1, <2>2, <2>3 DEF Inner
    <3> QED
      BY <3>1, <1>2 DEF Vers
  <2> QED
    BY <2>3, <1>1 DEF Inner
<1> QED
  BY <1>1, <1>3, <1>4, <1>5 DEF aux

LEMMA UntilBorder ==
    ASSUME NEW n \in Nat, n >= 1, NEW t \in TagsOf(n), ~IsPlus(t), Capped(n, t.ver)
    PROVE  /\ SortsBefore(t, AuxTag(t))
           /\ AtMost(t.ver, AuxTag(t).ver)
           /\ n = Keep(n) => /\ AuxTag(t).ver = t.ver
                             /\ AuxTag(t).op = "+=" <=> t.op = "-="
<1> DEFINE aux == AuxTag(t)
<1>1. /\ aux \in TagsOf(n) /\ IsPlus(aux) /\ Same(n, aux.ver, t.ver)
      /\ \A i \in 1 .. n : i > Keep(n) => aux.ver[i] = Top
      /\ aux.op = "+=" <=> t.op = "-=" /\ ~Inner(n, t)
  BY BorderIs
<1> HIDE DEF aux
<1>2. /\ aux.ver \in Vers(n) /\ t.ver \in Vers(n)
      /\ t.op \in {"-", "-="} /\ aux.op \in {"+=", "+"}
  BY <1>1, PlusOrMinus
<1>3. Keep(n) \in 1 .. n
  BY KeepIsShort
<1>4. \A i \in 1 .. n : ~ (i > Keep(n)) => aux.ver[i] = t.ver[i]
  BY <1>1, <1>3 DEF Same
<1>5. CASE \A i \in 1 .. n : i > Keep(n) => t.ver[i] = Top
  <2>1. \A i \in 1 .. n : aux.ver[i] = t.ver[i]
    BY <1>1, <1>4, <1>5
  <2>2. aux.ver = t.ver
    BY <2>1, <1>2 DEF Vers
  <2>3. n = Keep(n) => ~Inner(n, t)
    BY DEF Inner
  <2> QED
    BY <1>1, <1>2, <2>2, <2>3, MinusSortsFirst DEF SortsBefore, AtMost, aux
<1>6. CASE n # Keep(n) /\ t.ver[Keep(n) + 1] < Top
  <2> DEFINE i == Keep(n) + 1
  <2>1. i \in 1 .. n /\ t.ver[i] < aux.ver[i] /\ \A j \in 1 .. i - 1 : t.ver[j] = aux.ver[j]
    BY <1>1, <1>3, <1>4, <1>6
  <2>2. DOMAIN t.ver = 1 .. n
    BY <1>2 DEF Vers
  <2>3. Less(t.ver, aux.ver)
    <3> HIDE DEF i
    <3> QED
      BY <2>1, <2>2 DEF Less
  <2> QED
    BY <1>6, <2>3 DEF SortsBefore, AtMost, aux
<1> QED
  BY <1>3, <1>5, <1>6 DEF Capped

-----------------------------------------------------------------------------
(* The order of tags and their ranks.                                      *)

LEMMA RanksAreOrder ==
    ASSUME NEW n \in Nat, NEW F \in SUBSET TagsOf(n), IsFiniteSet(F),
           NEW s \in F, NEW t \in F
    PROVE  /\ Rank(F, s) \in Nat /\ Rank(F, s) < Cardinality(F)
           /\ SortsBefore(s, t) <=> Rank(F, s) < Rank(F, t)
           /\ Rank(F, s) = Rank(F, t) => s = t
<1>1. \A x \in F : Rank(F, x) \in Nat /\ Rank(F, x) < Cardinality(F)
  <2> TAKE x \in F
  <2>1. Before(F, x) \subseteq F \ {x}
    BY TagsAreOrdered DEF Before
  <2>2. IsFiniteSet(F \ {x}) /\ Cardinality(F \ {x}) = Cardinality(F) - 1
    BY FS_RemoveElement
  <2>3. IsFiniteSet(Before(F, x)) /\ Rank(F, x) <= Cardinality(F) - 1
    BY <2>1, <2>2, FS_Subset DEF Rank
  <2>4. Rank(F, x) \in Nat /\ Cardinality(F) \in Nat
    BY <2>3, FS_CardinalityType DEF Rank
  <2> QED
    BY <2>3, <2>4
<1>2. SortsBefore(s, t) => Rank(F, s) < Rank(F, t)
  BY RanksGrow
<1>3. SortsBefore(t, s) => Rank(F, t) < Rank(F, s)
  BY RanksGrow
<1>4. s = t \/ SortsBefore(s, t) \/ SortsBefore(t, s)
  BY TagsAreOrdered
<1> QED
  BY <1>1, <1>2, <1>3, <1>4

LEMMA SortedAt ==
    ASSUME NEW n \in Nat, NEW F \in SUBSET TagsOf(n), IsFiniteSet(F), NEW t \in F
    PROVE  /\ Rank(F, t) + 1 \in DOMAIN Sorted(F)
           /\ Sorted(F)[Rank(F, t) + 1] = t
<1>1. Rank(F, t) \in Nat /\ Rank(F, t) < Cardinality(F) /\ Cardinality(F) \in Nat
  BY RanksAreOrder, FS_CardinalityType
<1>2. DOMAIN Sorted(F) = 1 .. Cardinality(F)
  BY SortedListsTags
<1> DEFINE i == Rank(F, t) + 1
<1>3. i \in DOMAIN Sorted(F)
  BY <1>1, <1>2
<1>4. Sorted(F)[i] \in F /\ Rank(F, Sorted(F)[i]) = i - 1
  BY <1>3, SortedListsTags
<1>5. Rank(F, Sorted(F)[i]) = Rank(F, t)
  BY <1>1, <1>4
<1> QED
  BY <1>3, <1>4, <1>5, RanksAreOrder

(* c comes right before a. *)
Adjacent(F, c, a) == Rank(F, a) = Rank(F, c) + 1

LEMMA Neighbours ==
    ASSUME NEW n \in Nat, NEW F \in SUBSET TagsOf(n), IsFiniteSet(F),
           NEW s \in F, NEW t \in F, SortsBefore(s, t)
    PROVE  /\ \E c \in F : Adjacent(F, c, t) /\ (c = s \/ SortsBefore(s, c))
           /\ \E a \in F : Adjacent(F, s, a) /\ (a = t \/ SortsBefore(a, t))
<1>1. /\ Rank(F, s) \in Nat /\ Rank(F, t) \in Nat /\ Rank(F, s) < Rank(F, t)
      /\ Rank(F, t) < Cardinality(F) /\ Cardinality(F) \in Nat
  BY RanksAreOrder, FS_CardinalityType
<1>2. DOMAIN Sorted(F) = 1 .. Cardinality(F)
  BY SortedListsTags
<1>3. PICK c \in F : Rank(F, c) = Rank(F, t) - 1
  <2>1. Rank(F, t) \in DOMAIN Sorted(F)
    BY <1>1, <1>2
  <2> QED
    BY <2>1, SortedListsTags
<1>4. PICK a \in F : Rank(F, a) = Rank(F, s) + 1
  <2> DEFINE i == Rank(F, s) + 2
  <2>1. i \in DOMAIN Sorted(F) /\ i - 1 = Rank(F, s) + 1
    BY <1>1, <1>2
  <2> HIDE DEF i
  <2>2. Sorted(F)[i] \in F /\ Rank(F, Sorted(F)[i]) = i - 1
    BY <2>1, SortedListsTags
  <2> QED
    BY <2>1, <2>2
<1>5. c = s \/ SortsBefore(s, c)
  <2>1. Rank(F, s) = Rank(F, c) => s = c
    BY RanksAreOrder
  <2>2. SortsBefore(s, c) <=> Rank(F, s) < Rank(F, c)
    BY RanksAreOrder
  <2> QED
    BY <2>1, <2>2, <1>1, <1>3
<1>6. a = t \/ SortsBefore(a, t)
  <2>1. Rank(F, a) = Rank(F, t) => a = t
    BY RanksAreOrder
  <2>2. SortsBefore(a, t) <=> Rank(F, a) < Rank(F, t)
    BY RanksAreOrder
  <2> QED
    BY <2>1, <2>2, <1>1, <1>4
<1> QED
  BY <1>1, <1>3, <1>4, <1>5, <1>6 DEF Adjacent

(* The number of tags of one sign and major version a version of two       *)
(* numbers may have.                                                       *)
OneEach(n, F) ==
    n = 2 => \A s, t \in F :
        (IsPlus(s) <=> IsPlus(t)) /\ s.ver[1] = t.ver[1] => s = t

LEMMA FrontOfTwo ==
    ASSUME NEW n \in Nat, n >= 1, NEW u \in Vers(n), NEW v \in Vers(n)
    PROVE  SubSeq(u, 1, Min({2, Len(u)})) = SubSeq(v, 1, Min({2, Len(v)}))
             <=> \A i \in 1 .. n : i <= 2 => u[i] = v[i]
<1> DEFINE m == IF n <= 2 THEN n ELSE 2
           front(w) == [i \in 1 .. m |-> w[i]]
<1>1. m \in Nat /\ m >= 1 /\ m <= n
  OBVIOUS
<1>2. \A w \in Vers(n) : SubSeq(w, 1, Min({2, Len(w)})) = front(w)
  <2> TAKE w \in Vers(n)
  <2>1. w \in Seq(Nat) /\ Len(w) = n
    BY SeqDef, LenProperties DEF Vers
  <2>2. Min({2, n}) = m
    <3>1. {2, n} \in SUBSET Nat /\ {2, n} # {}
      OBVIOUS
    <3>2. Min({2, n}) \in {2, n} /\ \A y \in {2, n} : Min({2, n}) <= y
      BY <3>1, MinIsLeast
    <3> QED
      BY <3>2
  <2>3. SubSeq(w, 1, m) = [i \in 1 .. m |-> w[i]]
    BY <1>1, <2>1
  <2> QED
    BY <2>1, <2>2, <2>3
<1>3. front(u) = front(v) <=> \A i \in 1 .. m : u[i] = v[i]
  <2>1. ASSUME front(u) = front(v) PROVE \A i \in 1 .. m : u[i] = v[i]
    <3> TAKE i \in 1 .. m
    <3>1. front(u)[i] = u[i] /\ front(v)[i] = v[i]
      OBVIOUS
    <3> QED
      BY <2>1, <3>1
  <2> QED
    BY <2>1
<1> HIDE DEF front
<1>4. (\A i \in 1 .. m : u[i] = v[i]) <=> \A i \in 1 .. n : i <= 2 => u[i] = v[i]
  OBVIOUS
<1> QED
  BY <1>2, <1>3, <1>4

(* The code compares two numbers, the border has those of the branch: the  *)
(* same but for versions of two numbers.                                   *)
LEMMA FrontIsBranch ==
    ASSUME NEW n \in Nat, n >= 1, NEW F \in SUBSET TagsOf(n), OneEach(n, F),
           NEW s \in F, NEW t \in F, s # t, IsPlus(s) <=> IsPlus(t)
    PROVE  (\A i \in 1 .. n : i <= 2 => s.ver[i] = t.ver[i]) <=> Same(n, s.ver, t.ver)
<1>1. CASE n = 2
  <2>1. s.ver[1] # t.ver[1]
    BY <1>1 DEF OneEach
  <2>2. 1 \in 1 .. n /\ 1 \in 1 .. Keep(n)
    BY <1>1 DEF Keep
  <2> QED
    BY <2>1, <2>2 DEF Same
<1>2. CASE n = 1
  <2>1. Keep(n) = 1
    BY <1>2 DEF Keep
  <2> QED
    BY <1>2, <2>1 DEF Same
<1>3. CASE n >= 3
  <2>1. Keep(n) = 2
    BY <1>3 DEF Keep
  <2>2. \A i \in 1 .. n : i <= 2 <=> i \in 1 .. 2
    BY <1>3
  <2>3. \A i \in 1 .. 2 : i \in 1 .. n /\ i <= 2
    BY <1>3
  <2> QED
    BY <2>1, <2>2, <2>3 DEF Same
<1> QED
  BY <1>1, <1>2, <1>3

(* Tags that get a border: next to one of their own sign and of another    *)
(* branch.                                                                 *)
Bordered(n, F, x) ==
    \E y \in F : /\ IsPlus(x) <=> IsPlus(y)
                 /\ ~Same(n, x.ver, y.ver)
                 /\ IF IsPlus(x) THEN Adjacent(F, y, x) ELSE Adjacent(F, x, y)

LEMMA AuxTagsAreBorders ==
    ASSUME NEW n \in Nat, n >= 1, NEW F \in SUBSET TagsOf(n), IsFiniteSet(F), OneEach(n, F)
    PROVE  AuxTags(F) = {AuxTag(x) : x \in {y \in F : Bordered(n, F, y)}}
<1> DEFINE seq == Sorted(F)
           branch(i) == SubSeq(seq[i].ver, 1, Min({2, Len(seq[i].ver)}))
           bordered(i, j) == /\ j \in DOMAIN seq
                             /\ IsPlus(seq[i]) = IsPlus(seq[j])
                             /\ branch(i) # branch(j)
           chosen(i) == IF IsPlus(seq[i]) THEN bordered(i, i - 1) ELSE bordered(i, i + 1)
<1>1. AuxTags(F) = {AuxTag(seq[i]) : i \in {x \in DOMAIN seq : chosen(x)}}
  BY DEF AuxTags
<1>2. PICK c \in Nat : DOMAIN seq = 1 .. c
  BY SortedListsTags
<1>3. \A i \in DOMAIN seq : seq[i] \in F /\ Rank(F, seq[i]) = i - 1
  BY SortedListsTags
<1>4. \A t \in F : Rank(F, t) \in Nat /\ Rank(F, t) + 1 \in DOMAIN seq /\ seq[Rank(F, t) + 1] = t
  BY SortedAt, RanksAreOrder
<1>5. \A i, j \in DOMAIN seq : i # j /\ (IsPlus(seq[i]) <=> IsPlus(seq[j])) =>
         (branch(i) = branch(j) <=> Same(n, seq[i].ver, seq[j].ver))
  <2> SUFFICES ASSUME NEW i \in DOMAIN seq, NEW j \in DOMAIN seq, i # j,
                      IsPlus(seq[i]) <=> IsPlus(seq[j])
               PROVE  branch(i) = branch(j) <=> Same(n, seq[i].ver, seq[j].ver)
    OBVIOUS
  <2>1. seq[i] \in F /\ seq[j] \in F
    BY <1>3
  <2>2. seq[i] # seq[j]
    <3>1. Rank(F, seq[i]) = i - 1 /\ Rank(F, seq[j]) = j - 1
      BY <1>3
    <3> QED
      BY <3>1, <1>2
  <2>3. seq[i].ver \in Vers(n) /\ seq[j].ver \in Vers(n)
    BY <2>1 DEF TagsOf
  <2> HIDE DEF seq
  <2>4. branch(i) = branch(j) <=> \A l \in 1 .. n : l <= 2 => seq[i].ver[l] = seq[j].ver[l]
    BY <2>3, FrontOfTwo
  <2> QED
    BY <2>1, <2>2, <2>4, FrontIsBranch
<1> HIDE DEF branch, seq
<1>6. \A i \in DOMAIN seq : chosen(i) <=> Bordered(n, F, seq[i])
  <2> TAKE i \in DOMAIN seq
  <2> DEFINE near(j) == IF IsPlus(seq[i]) THEN j = i - 1 ELSE j = i + 1
  <2>0. \A x, y : (IsPlus(x) = IsPlus(y)) <=> (IsPlus(x) <=> IsPlus(y))
    BY DEF IsPlus
  <2>1. chosen(i) <=> \E j \in DOMAIN seq : /\ near(j) /\ (IsPlus(seq[i]) <=> IsPlus(seq[j]))
                                            /\ branch(i) # branch(j)
    BY <2>0
  <2>2. \A j \in DOMAIN seq : /\ near(j) => i # j
                              /\ near(j) <=> IF IsPlus(seq[i]) THEN Adjacent(F, seq[j], seq[i])
                                                               ELSE Adjacent(F, seq[i], seq[j])
    BY <1>2, <1>3 DEF Adjacent
  <2>3. chosen(i) <=> \E j \in DOMAIN seq :
          /\ IsPlus(seq[i]) <=> IsPlus(seq[j])
          /\ ~Same(n, seq[i].ver, seq[j].ver)
          /\ IF IsPlus(seq[i]) THEN Adjacent(F, seq[j], seq[i]) ELSE Adjacent(F, seq[i], seq[j])
    <3> HIDE DEF near, chosen
    <3> QED
      BY <2>1, <2>2, <1>5
  <2> HIDE DEF chosen
  <2> QED
    BY <2>3, <1>3, <1>4 DEF Bordered
<1> HIDE DEF chosen
<1> QED
  BY <1>1, <1>3, <1>4, <1>6

-----------------------------------------------------------------------------
(* The tags next to a version.                                             *)

LastBelow(S, v, t) ==
    /\ t \in S /\ AtMost(t.ver, v)
    /\ \A s \in S : AtMost(s.ver, v) => ~SortsBefore(t, s)

FirstAbove(S, v, t) ==
    /\ t \in S /\ AtMost(v, t.ver)
    /\ \A s \in S : AtMost(v, s.ver) => ~SortsBefore(s, t)

LEMMA ClosestAre ==
    ASSUME NEW n \in Nat, NEW S \in SUBSET TagsOf(n), IsFiniteSet(S), NEW v
    PROVE  /\ (\E s \in S : AtMost(s.ver, v)) => \E t \in S : LastBelow(S, v, t)
           /\ (\E s \in S : AtMost(v, s.ver)) => \E t \in S : FirstAbove(S, v, t)
           /\ ClosestHold(Sorted(S), v) <=>
                \A t \in S : LastBelow(S, v, t) \/ FirstAbove(S, v, t) => Holds(t, v)
<1> DEFINE seq == Sorted(S)
           below == {i \in DOMAIN seq : AtMost(seq[i].ver, v)}
           above == {i \in DOMAIN seq : AtMost(v, seq[i].ver)}
           at(t) == Rank(S, t) + 1
<1>1. PICK c \in Nat : DOMAIN seq = 1 .. c
  BY SortedListsTags
<1>2. \A i \in DOMAIN seq : seq[i] \in S /\ at(seq[i]) = i
  <2> TAKE i \in DOMAIN seq
  <2>1. seq[i] \in S /\ Rank(S, seq[i]) = i - 1
    BY SortedListsTags
  <2> QED
    BY <2>1, <1>1
<1>3. \A t \in S : at(t) \in DOMAIN seq /\ seq[at(t)] = t
  BY SortedAt
<1>4. \A s, t \in S : at(s) <= at(t) => ~SortsBefore(t, s)
  <2> TAKE s, t \in S
  <2>1. Rank(S, s) \in Nat /\ Rank(S, t) \in Nat
    BY RanksAreOrder
  <2>2. SortsBefore(t, s) => Rank(S, t) < Rank(S, s)
    BY RanksAreOrder
  <2> QED
    BY <2>1, <2>2
<1>5. ClosestHold(seq, v) <=> /\ below # {} => Holds(seq[Max(below)], v)
                              /\ above # {} => Holds(seq[Min(above)], v)
  BY DEF ClosestHold
<1> HIDE DEF seq, at
<1>6. \A s \in S : /\ AtMost(s.ver, v) <=> at(s) \in below
                   /\ AtMost(v, s.ver) <=> at(s) \in above
  BY <1>3
<1>7. ASSUME below # {} PROVE LastBelow(S, v, seq[Max(below)])
  <2>1. below \in SUBSET (1 .. c)
    BY <1>1
  <2>2. Max(below) \in below /\ \A y \in below : y <= Max(below)
    BY <1>7, <2>1, MaxIsGreatest
  <2>3. PICK m \in DOMAIN seq : m = Max(below) /\ AtMost(seq[m].ver, v)
    BY <2>2
  <2>4. \A s \in S : AtMost(s.ver, v) => at(s) <= at(seq[m])
    BY <1>2, <1>6, <2>2, <2>3
  <2>5. LastBelow(S, v, seq[m])
    BY <1>2, <1>4, <2>3, <2>4 DEF LastBelow
  <2> QED
    BY <2>3, <2>5
<1>8. ASSUME above # {} PROVE FirstAbove(S, v, seq[Min(above)])
  <2>1. above \in SUBSET Nat
    BY <1>1
  <2>2. Min(above) \in above /\ \A y \in above : Min(above) <= y
    BY <1>8, <2>1, MinIsLeast
  <2>3. PICK m \in DOMAIN seq : m = Min(above) /\ AtMost(v, seq[m].ver)
    BY <2>2
  <2>4. \A s \in S : AtMost(v, s.ver) => at(seq[m]) <= at(s)
    BY <1>2, <1>6, <2>2, <2>3
  <2>5. FirstAbove(S, v, seq[m])
    BY <1>2, <1>4, <2>3, <2>4 DEF FirstAbove
  <2> QED
    BY <2>3, <2>5
<1>9. \A s, t : /\ LastBelow(S, v, s) /\ LastBelow(S, v, t) => s = t
                /\ FirstAbove(S, v, s) /\ FirstAbove(S, v, t) => s = t
  BY TagsAreOrdered DEF LastBelow, FirstAbove
<1>10. /\ below # {} <=> \E s \in S : AtMost(s.ver, v)
       /\ above # {} <=> \E s \in S : AtMost(v, s.ver)
  BY <1>2, <1>6
<1>11. \A t : LastBelow(S, v, t) => t \in S /\ below # {}
  BY <1>10 DEF LastBelow
<1>12. \A t : FirstAbove(S, v, t) => t \in S /\ above # {}
  BY <1>10 DEF FirstAbove
<1> DEFINE x == seq[Max(below)]
           y == seq[Min(above)]
<1>13. ClosestHold(seq, v) <=> (below # {} => Holds(x, v)) /\ (above # {} => Holds(y, v))
  BY <1>5
<1>14. (below # {} => LastBelow(S, v, x)) /\ (above # {} => FirstAbove(S, v, y))
  BY <1>7, <1>8
<1> HIDE DEF below, above, x, y
<1>15. \A t : /\ LastBelow(S, v, t) => below # {} /\ t = x
              /\ FirstAbove(S, v, t) => above # {} /\ t = y
  BY <1>9, <1>11, <1>12, <1>14
<1>16. ClosestHold(seq, v) <=>
         \A t \in S : LastBelow(S, v, t) \/ FirstAbove(S, v, t) => Holds(t, v)
  BY <1>11, <1>12, <1>13, <1>14, <1>15
<1>17. /\ below # {} => \E t \in S : LastBelow(S, v, t)
       /\ above # {} => \E t \in S : FirstAbove(S, v, t)
  BY <1>11, <1>12, <1>14
<1> QED
  BY <1>10, <1>16, <1>17 DEF seq

(* A tag at exactly the version holds if it includes the version.          *)
LEMMA HoldsThere ==
    ASSUME NEW n \in Nat, NEW v \in Vers(n), NEW t \in TagsOf(n)
    PROVE  /\ t.ver = v => (Holds(t, v) <=> t.op \in {"-=", "+="})
           /\ Less(t.ver, v) => (Holds(t, v) <=> IsPlus(t))
           /\ Less(v, t.ver) => (Holds(t, v) <=> ~IsPlus(t))
<1>1. t.op \in Ops /\ t.ver \in Vers(n)
  BY DEF TagsOf
<1>2. ~Less(v, v) /\ ~ (Less(t.ver, v) /\ Less(v, t.ver))
  BY <1>1, LessIsTotal
<1>3. t.op \in {"-", "-=", "+=", "+"}
  BY <1>1 DEF Ops
<1>4. /\ t.op = "+" => (Holds(t, v) <=> Less(t.ver, v))
      /\ t.op = "+=" => (Holds(t, v) <=> AtMost(t.ver, v))
      /\ t.op = "-" => (Holds(t, v) <=> Less(v, t.ver))
      /\ t.op = "-=" => (Holds(t, v) <=> AtMost(v, t.ver))
  BY DEF Holds
<1> QED
  BY <1>2, <1>3, <1>4 DEF AtMost, IsPlus

(* Where a tag is exactly at the version, all of these decide.             *)
LEMMA ClosestThere ==
    ASSUME NEW n \in Nat, NEW S \in SUBSET TagsOf(n), IsFiniteSet(S), NEW v \in Vers(n),
           \E f \in S : f.ver = v
    PROVE  ClosestHold(Sorted(S), v) <=> \A t \in S : t.ver = v => Holds(t, v)
<1>1. PICK f \in S : f.ver = v
  OBVIOUS
<1>2. PICK x \in S : LastBelow(S, v, x)
  BY <1>1, ClosestAre DEF AtMost
<1>3. PICK y \in S : FirstAbove(S, v, y)
  BY <1>1, ClosestAre DEF AtMost
<1>4. \A t \in S : LastBelow(S, v, t) \/ FirstAbove(S, v, t) => t.ver = v
  BY <1>1 DEF LastBelow, FirstAbove, SortsBefore, AtMost
<1>5. \A t \in S : t.ver = v => ~SortsBefore(x, t) /\ ~SortsBefore(t, y)
  BY <1>2, <1>3 DEF LastBelow, FirstAbove, AtMost
<1>6. \A t \in S : t.ver = v => OpIndex[y.op] <= OpIndex[t.op] /\ OpIndex[t.op] <= OpIndex[x.op]
  <2> TAKE t \in S
  <2> HAVE t.ver = v
  <2>1. t.op \in Ops /\ x.op \in Ops /\ y.op \in Ops
    BY DEF TagsOf
  <2>2. ~ (OpIndex[x.op] < OpIndex[t.op]) /\ ~ (OpIndex[t.op] < OpIndex[y.op])
    BY <1>2, <1>3, <1>4, <1>5 DEF SortsBefore
  <2> QED
    BY <2>1, <2>2, OpsInOrder
<1>7. ASSUME Holds(x, v), Holds(y, v), NEW t \in S, t.ver = v PROVE Holds(t, v)
  <2>1. x.op \in {"-=", "+="} /\ y.op \in {"-=", "+="}
    BY <1>2, <1>3, <1>4, <1>7, HoldsThere
  <2>2. t.op \in {"-", "-=", "+=", "+"}
    BY DEF TagsOf, Ops
  <2>3. OpIndex["-="] <= OpIndex[t.op] /\ OpIndex[t.op] <= OpIndex["+="]
    <3>1. OpIndex["-="] <= OpIndex[y.op] /\ OpIndex[x.op] <= OpIndex["+="]
      BY <2>1, OpsInOrder DEF Ops
    <3>2. x.op \in Ops /\ y.op \in Ops /\ t.op \in Ops /\ "-=" \in Ops /\ "+=" \in Ops
      BY DEF TagsOf, Ops
    <3> QED
      BY <3>1, <3>2, <1>6, <1>7, OpsInOrder
  <2>4. t.op \in {"-=", "+="}
    BY <2>2, <2>3, OpsInOrder DEF Ops
  <2> QED
    BY <2>4, <1>7, HoldsThere
<1> QED
  BY <1>2, <1>3, <1>4, <1>7, ClosestAre

-----------------------------------------------------------------------------
(* The borders next to a version.                                          *)

Border(s, t) == IF IsPlus(t) THEN AuxTag(t) ELSE AuxTag(s)

(* s and t of one sign and of two branches, in this order.                 *)
Apart(n, s, t) ==
    /\ SortsBefore(s, t) /\ (IsPlus(s) <=> IsPlus(t)) /\ ~Same(n, s.ver, t.ver)
    /\ ~IsPlus(s) => Capped(n, s.ver)

LEMMA BorderIsBetween ==
    ASSUME NEW n \in Nat, n >= 1, NEW s \in TagsOf(n), NEW t \in TagsOf(n), Apart(n, s, t)
    PROVE  /\ Border(s, t) \in TagsOf(n)
           /\ SortsBefore(s, Border(s, t)) /\ SortsBefore(Border(s, t), t)
           /\ AtMost(s.ver, Border(s, t).ver) /\ AtMost(Border(s, t).ver, t.ver)
<1>0. s.ver \in Vers(n) /\ t.ver \in Vers(n)
  BY DEF TagsOf
<1>1. Less(s.ver, t.ver)
  <2>1. s.ver # t.ver
    BY SameIsSame DEF Apart
  <2> QED
    BY <2>1 DEF Apart, SortsBefore
<1>2. CASE IsPlus(t)
  <2> DEFINE b == AuxTag(t)
  <2>1. b \in TagsOf(n) /\ Same(n, b.ver, t.ver)
    BY BorderIs
  <2>2. SortsBefore(b, t) /\ AtMost(b.ver, t.ver)
    BY <1>2, SinceBorder
  <2> HIDE DEF b
  <2>3. b.ver \in Vers(n)
    BY <2>1 DEF TagsOf
  <2>4. Less(s.ver, b.ver)
    BY <1>0, <1>1, <2>1, <2>3, SameIsSame, BranchesAreOrdered DEF Apart
  <2>5. Border(s, t) = b
    BY <1>2 DEF Border, b
  <2> QED
    BY <2>1, <2>2, <2>4, <2>5 DEF SortsBefore, AtMost
<1>3. CASE ~IsPlus(t)
  <2> DEFINE b == AuxTag(s)
  <2>0. ~IsPlus(s) /\ Capped(n, s.ver)
    BY <1>3 DEF Apart
  <2>1. b \in TagsOf(n) /\ Same(n, b.ver, s.ver)
    BY BorderIs
  <2>2. SortsBefore(s, b) /\ AtMost(s.ver, b.ver)
    BY <2>0, UntilBorder
  <2> HIDE DEF b
  <2>3. b.ver \in Vers(n)
    BY <2>1 DEF TagsOf
  <2>4. Less(b.ver, t.ver)
    BY <1>0, <1>1, <2>1, <2>3, SameIsSame, BranchesAreOrdered DEF Apart
  <2>5. Border(s, t) = b
    BY <1>3 DEF Border, b
  <2> QED
    BY <2>1, <2>2, <2>4, <2>5 DEF SortsBefore, AtMost
<1> QED
  BY <1>2, <1>3

(* Every border belongs to two tags next to one another, and every such    *)
(* two have theirs.                                                        *)
LEMMA BordersAre ==
    ASSUME NEW n \in Nat, n >= 1, NEW F \in SUBSET TagsOf(n), IsFiniteSet(F), OneEach(n, F),
           \A t \in F : ~IsPlus(t) => Capped(n, t.ver)
    PROVE  /\ \A b \in AuxTags(F) : \E s, t \in F :
                /\ Adjacent(F, s, t) /\ Apart(n, s, t) /\ b = Border(s, t)
           /\ \A s, t \in F : Adjacent(F, s, t) /\ Apart(n, s, t) => Border(s, t) \in AuxTags(F)
<1>0. \A s, t \in F : Adjacent(F, s, t) => SortsBefore(s, t)
  <2> TAKE s, t \in F
  <2> HAVE Adjacent(F, s, t)
  <2>1. Rank(F, s) \in Nat /\ Rank(F, t) = Rank(F, s) + 1
    BY RanksAreOrder DEF Adjacent
  <2>2. SortsBefore(s, t) <=> Rank(F, s) < Rank(F, t)
    BY RanksAreOrder
  <2> QED
    BY <2>1, <2>2
<1>1. AuxTags(F) = {AuxTag(x) : x \in {y \in F : Bordered(n, F, y)}}
  BY AuxTagsAreBorders
<1>2. ASSUME NEW b \in AuxTags(F)
      PROVE \E s, t \in F : Adjacent(F, s, t) /\ Apart(n, s, t) /\ b = Border(s, t)
  <2>1. PICK x \in F : Bordered(n, F, x) /\ b = AuxTag(x)
    BY <1>1
  <2>2. PICK y \in F : /\ IsPlus(x) <=> IsPlus(y)
                       /\ ~Same(n, x.ver, y.ver)
                       /\ IF IsPlus(x) THEN Adjacent(F, y, x) ELSE Adjacent(F, x, y)
    BY <2>1 DEF Bordered
  <2>3. ~Same(n, y.ver, x.ver)
    BY <2>2, SameIsSame
  <2>4. CASE IsPlus(x)
    <3>1. Adjacent(F, y, x) /\ Apart(n, y, x) /\ b = Border(y, x)
      BY <2>1, <2>2, <2>3, <2>4, <1>0 DEF Apart, Border
    <3> QED
      BY <3>1
  <2>5. CASE ~IsPlus(x)
    <3>1. Adjacent(F, x, y) /\ Apart(n, x, y) /\ b = Border(x, y)
      BY <2>1, <2>2, <2>5, <1>0 DEF Apart, Border
    <3> QED
      BY <3>1
  <2> QED
    BY <2>4, <2>5
<1>3. ASSUME NEW s \in F, NEW t \in F, Adjacent(F, s, t), Apart(n, s, t)
      PROVE Border(s, t) \in AuxTags(F)
  <2>1. CASE IsPlus(t)
    <3>1. Bordered(n, F, t)
      BY <2>1, <1>3, SameIsSame DEF Apart, Bordered
    <3> QED
      BY <3>1, <2>1, <1>1 DEF Border
  <2>2. CASE ~IsPlus(t)
    <3>1. Bordered(n, F, s)
      BY <2>2, <1>3 DEF Apart, Bordered
    <3> QED
      BY <3>1, <2>2, <1>1 DEF Border
  <2> QED
    BY <2>1, <2>2
<1> QED
  BY <1>2, <1>3

(* The tags below and above a version, of one sign, with a border between  *)
(* them, and a border that is not between these.                           *)
Inside(n, F, v, s, t) ==
    LastBelow(F, v, s) /\ FirstAbove(F, v, t) /\ Apart(n, s, t)

Outside(F, v, b) ==
    /\ AtMost(b.ver, v) => \E r \in F : AtMost(r.ver, v) /\ SortsBefore(b, r)
    /\ AtMost(v, b.ver) => \E r \in F : AtMost(v, r.ver) /\ SortsBefore(r, b)

LEMMA InsideOrOutside ==
    ASSUME NEW n \in Nat, n >= 1, NEW F \in SUBSET TagsOf(n), IsFiniteSet(F), OneEach(n, F),
           \A t \in F : ~IsPlus(t) => Capped(n, t.ver),
           NEW v \in Vers(n), \A t \in F : t.ver # v
    PROVE  /\ \A b \in AuxTags(F) : \/ Outside(F, v, b)
                                    \/ \E s, t \in F : Inside(n, F, v, s, t) /\ b = Border(s, t)
           /\ \A s, t \in F : Inside(n, F, v, s, t) => Border(s, t) \in AuxTags(F)
<1>0. \A s, t \in F : /\ s.ver \in Vers(n)
                      /\ s = t \/ SortsBefore(s, t) \/ SortsBefore(t, s)
                      /\ ~ (SortsBefore(s, t) /\ SortsBefore(t, s))
  BY TagsAreOrdered DEF TagsOf
<1>1. \A t \in F : /\ AtMost(t.ver, v) <=> Less(t.ver, v)
                   /\ AtMost(v, t.ver) <=> Less(v, t.ver)
                   /\ Less(t.ver, v) \/ Less(v, t.ver)
                   /\ ~ (Less(t.ver, v) /\ Less(v, t.ver))
  BY <1>0, LessIsTotal DEF AtMost
<1>2. \A s, t \in F : Less(s.ver, v) /\ Less(v, t.ver) => SortsBefore(s, t)
  BY <1>0, LessIsTransitive DEF SortsBefore
<1>3. ASSUME NEW b \in AuxTags(F)
      PROVE \/ Outside(F, v, b)
            \/ \E s, t \in F : Inside(n, F, v, s, t) /\ b = Border(s, t)
  <2>1. PICK s \in F, t \in F : Adjacent(F, s, t) /\ Apart(n, s, t) /\ b = Border(s, t)
    BY BordersAre
  <2>2. /\ b \in TagsOf(n) /\ SortsBefore(s, b) /\ SortsBefore(b, t)
        /\ AtMost(s.ver, b.ver) /\ AtMost(b.ver, t.ver) /\ b.ver \in Vers(n)
    BY <2>1, BorderIsBetween DEF TagsOf
  <2>3. CASE Less(t.ver, v)
    <3>1. ~AtMost(v, b.ver)
      BY <2>2, <2>3, <1>0, AtMostIsOrder, LessIsTotal
    <3>2. Outside(F, v, b)
      BY <3>1, <2>2, <2>3, <1>1 DEF Outside
    <3> QED
      BY <3>2
  <2>4. CASE Less(v, s.ver)
    <3>1. ~AtMost(b.ver, v)
      BY <2>2, <2>4, <1>0, AtMostIsOrder, LessIsTotal
    <3>2. Outside(F, v, b)
      BY <3>1, <2>2, <2>4, <1>1 DEF Outside
    <3> QED
      BY <3>2
  <2>5. CASE Less(s.ver, v) /\ Less(v, t.ver)
    <3>1. \A r \in F : ~ (SortsBefore(s, r) /\ SortsBefore(r, t))
      <4> SUFFICES ASSUME NEW r \in F, SortsBefore(s, r), SortsBefore(r, t) PROVE FALSE
        OBVIOUS
      <4>1. Rank(F, s) < Rank(F, r) /\ Rank(F, r) < Rank(F, t)
        BY RanksAreOrder
      <4>2. Rank(F, s) \in Nat /\ Rank(F, r) \in Nat /\ Rank(F, t) = Rank(F, s) + 1
        BY <2>1, RanksAreOrder DEF Adjacent
      <4> QED
        BY <4>1, <4>2
    <3>2. LastBelow(F, v, s)
      BY <2>5, <3>1, <1>1, <1>2 DEF LastBelow
    <3>3. FirstAbove(F, v, t)
      BY <2>5, <3>1, <1>1, <1>2 DEF FirstAbove
    <3>4. Inside(n, F, v, s, t)
      BY <3>2, <3>3, <2>1 DEF Inside
    <3> QED
      BY <3>4, <2>1
  <2> QED
    BY <2>3, <2>4, <2>5, <1>1
<1>4. ASSUME NEW s \in F, NEW t \in F, Inside(n, F, v, s, t)
      PROVE Border(s, t) \in AuxTags(F)
  <2>1. LastBelow(F, v, s) /\ FirstAbove(F, v, t) /\ Apart(n, s, t) /\ SortsBefore(s, t)
    BY <1>4 DEF Inside, Apart
  <2>2. PICK c \in F : Adjacent(F, c, t) /\ (c = s \/ SortsBefore(s, c))
    BY <2>1, Neighbours
  <2>3. c = s
    <3> SUFFICES ASSUME SortsBefore(s, c) PROVE FALSE
      BY <2>2
    <3>1. ~AtMost(c.ver, v)
      BY <2>1 DEF LastBelow
    <3>2. AtMost(v, c.ver)
      BY <3>1, <1>1
    <3>3. ~SortsBefore(c, t)
      BY <2>1, <3>2 DEF FirstAbove
    <3>4. Rank(F, c) \in Nat /\ Rank(F, t) = Rank(F, c) + 1
      BY <2>2, RanksAreOrder DEF Adjacent
    <3>5. SortsBefore(c, t) <=> Rank(F, c) < Rank(F, t)
      BY RanksAreOrder
    <3> QED
      BY <3>3, <3>4, <3>5
  <2> QED
    BY <2>1, <2>2, <2>3, BordersAre
<1> QED
  BY <1>3, <1>4

LEMMA BordersAreTags ==
    ASSUME NEW n \in Nat, n >= 1, NEW F \in SUBSET TagsOf(n), IsFiniteSet(F), OneEach(n, F),
           \A t \in F : ~IsPlus(t) => Capped(n, t.ver)
    PROVE  F \cup AuxTags(F) \in SUBSET TagsOf(n) /\ IsFiniteSet(F \cup AuxTags(F))
<1> DEFINE A == AuxTags(F)
           chosen == {y \in F : Bordered(n, F, y)}
           f == [x \in chosen |-> AuxTag(x)]
<1>1. A \subseteq TagsOf(n)
  <2>1. \A x \in A : \E c, d \in F : Apart(n, c, d) /\ x = Border(c, d)
    BY BordersAre
  <2> QED
    BY <2>1, BorderIsBetween
<1>2. A = {AuxTag(x) : x \in chosen}
  BY AuxTagsAreBorders
<1>3. IsFiniteSet(chosen)
  BY FS_Subset
<1>4. f \in Surjection(chosen, A)
  BY <1>2 DEF Surjection
<1> HIDE DEF chosen, f, A
<1>5. IsFiniteSet(A)
  BY <1>3, <1>4, FS_Surjection
<1> QED
  BY <1>1, <1>5, FS_Union DEF A

(* With the borders: what is next to a version.                            *)
LEMMA ClosestWithBorder ==
    ASSUME NEW n \in Nat, n >= 1, NEW F \in SUBSET TagsOf(n), IsFiniteSet(F), OneEach(n, F),
           \A t \in F : ~IsPlus(t) => Capped(n, t.ver),
           NEW v \in Vers(n), \A t \in F : t.ver # v,
           NEW s \in F, NEW t \in F, Inside(n, F, v, s, t)
    PROVE  LET G == F \cup AuxTags(F)
               b == Border(s, t)
           IN  /\ AtMost(b.ver, v) => LastBelow(G, v, b)
               /\ ~AtMost(b.ver, v) => LastBelow(G, v, s)
               /\ AtMost(v, b.ver) => FirstAbove(G, v, b)
               /\ ~AtMost(v, b.ver) => FirstAbove(G, v, t)
<1> DEFINE A == AuxTags(F)
           G == F \cup A
           b == Border(s, t)
<1>1. LastBelow(F, v, s) /\ FirstAbove(F, v, t) /\ Apart(n, s, t)
  BY DEF Inside
<1>2. b \in A /\ b \in TagsOf(n) /\ SortsBefore(s, b) /\ SortsBefore(b, t)
  BY <1>1, InsideOrOutside, BorderIsBetween
<1>3. \A x \in A : x = b \/ Outside(F, v, x)
  <2>1. \A x \in A : Outside(F, v, x) \/ \E c, d \in F : Inside(n, F, v, c, d) /\ x = Border(c, d)
    BY InsideOrOutside
  <2>2. \A c, d \in F : Inside(n, F, v, c, d) => c = s /\ d = t
    BY <1>1, TagsAreOrdered DEF Inside, LastBelow, FirstAbove
  <2> QED
    BY <2>1, <2>2
<1>4. A \subseteq TagsOf(n)
  <2>1. \A x \in A : \E c, d \in F : Apart(n, c, d) /\ x = Border(c, d)
    BY BordersAre
  <2> QED
    BY <2>1, BorderIsBetween
<1> HIDE DEF A, b
<1>5. \A r \in F : /\ AtMost(r.ver, v) => r = s \/ SortsBefore(r, s)
                   /\ AtMost(v, r.ver) => r = t \/ SortsBefore(t, r)
  <2> TAKE r \in F
  <2>1. /\ r = s \/ SortsBefore(r, s) \/ SortsBefore(s, r)
        /\ r = t \/ SortsBefore(r, t) \/ SortsBefore(t, r)
    BY TagsAreOrdered
  <2> QED
    BY <2>1, <1>1 DEF LastBelow, FirstAbove
<1>6. \A x \in A : /\ AtMost(x.ver, v) => x = b \/ SortsBefore(x, s)
                   /\ AtMost(v, x.ver) => x = b \/ SortsBefore(t, x)
  <2> TAKE x \in A
  <2> SUFFICES ASSUME x # b
               PROVE  /\ AtMost(x.ver, v) => SortsBefore(x, s)
                      /\ AtMost(v, x.ver) => SortsBefore(t, x)
    OBVIOUS
  <2>1. Outside(F, v, x) /\ x \in TagsOf(n)
    BY <1>3, <1>4
  <2>2. \A r \in F : /\ SortsBefore(x, r) /\ SortsBefore(r, s) => SortsBefore(x, s)
                     /\ SortsBefore(t, r) /\ SortsBefore(r, x) => SortsBefore(t, x)
    BY <2>1, TagsAreOrdered
  <2> QED
    BY <2>1, <2>2, <1>5 DEF Outside
<1>7. /\ \A x \in G : x \in TagsOf(n)
      /\ \A x \in G : x \in F \/ x \in A
  BY <1>4
<1>8. b \in G /\ s \in G /\ t \in G /\ AtMost(s.ver, v) /\ AtMost(v, t.ver)
  BY <1>1, <1>2 DEF LastBelow, FirstAbove
<1> HIDE DEF G
<1>9. \A x \in G : AtMost(x.ver, v) => /\ ~SortsBefore(b, x)
                                       /\ x # b => ~SortsBefore(s, x)
  <2> TAKE x \in G
  <2> HAVE AtMost(x.ver, v)
  <2>1. x = b \/ x = s \/ SortsBefore(x, s)
    BY <1>5, <1>6, <1>7
  <2>2. /\ ~SortsBefore(b, b) /\ ~SortsBefore(s, s)
        /\ SortsBefore(b, x) /\ SortsBefore(x, s) => SortsBefore(b, s)
        /\ SortsBefore(s, x) /\ SortsBefore(x, s) => SortsBefore(s, s)
        /\ SortsBefore(b, s) /\ SortsBefore(s, b) => SortsBefore(b, b)
    BY <1>2, <1>7, TagsAreOrdered
  <2> QED
    BY <2>1, <2>2, <1>2
<1>10. \A x \in G : AtMost(v, x.ver) => /\ ~SortsBefore(x, b)
                                        /\ x # b => ~SortsBefore(x, t)
  <2> TAKE x \in G
  <2> HAVE AtMost(v, x.ver)
  <2>1. x = b \/ x = t \/ SortsBefore(t, x)
    BY <1>5, <1>6, <1>7
  <2>2. /\ ~SortsBefore(b, b) /\ ~SortsBefore(t, t)
        /\ SortsBefore(t, x) /\ SortsBefore(x, b) => SortsBefore(t, b)
        /\ SortsBefore(t, x) /\ SortsBefore(x, t) => SortsBefore(t, t)
        /\ SortsBefore(t, b) /\ SortsBefore(b, t) => SortsBefore(b, b)
    BY <1>2, <1>7, TagsAreOrdered
  <2> QED
    BY <2>1, <2>2, <1>2
<1>11. /\ AtMost(b.ver, v) => LastBelow(G, v, b)
       /\ ~AtMost(b.ver, v) => LastBelow(G, v, s)
  <2>1. \A x \in G : AtMost(x.ver, v) => ~SortsBefore(b, x)
    BY <1>9
  <2>2. ASSUME ~AtMost(b.ver, v) PROVE \A x \in G : AtMost(x.ver, v) => ~SortsBefore(s, x)
    BY <2>2, <1>9
  <2>3. AtMost(b.ver, v) => LastBelow(G, v, b)
    BY <2>1, <1>8 DEF LastBelow
  <2>4. ~AtMost(b.ver, v) => LastBelow(G, v, s)
    BY <2>2, <1>8 DEF LastBelow
  <2> QED
    BY <2>3, <2>4
<1>12. /\ AtMost(v, b.ver) => FirstAbove(G, v, b)
       /\ ~AtMost(v, b.ver) => FirstAbove(G, v, t)
  <2>1. \A x \in G : AtMost(v, x.ver) => ~SortsBefore(x, b)
    BY <1>10
  <2>2. ASSUME ~AtMost(v, b.ver) PROVE \A x \in G : AtMost(v, x.ver) => ~SortsBefore(x, t)
    BY <2>2, <1>10
  <2>3. AtMost(v, b.ver) => FirstAbove(G, v, b)
    BY <2>1, <1>8 DEF FirstAbove
  <2>4. ~AtMost(v, b.ver) => FirstAbove(G, v, t)
    BY <2>2, <1>8 DEF FirstAbove
  <2> QED
    BY <2>3, <2>4
<1> QED
  BY <1>11, <1>12 DEF A, b, G

LEMMA ClosestWithoutBorder ==
    ASSUME NEW n \in Nat, n >= 1, NEW F \in SUBSET TagsOf(n), IsFiniteSet(F), OneEach(n, F),
           \A t \in F : ~IsPlus(t) => Capped(n, t.ver),
           NEW v \in Vers(n), \A t \in F : t.ver # v,
           \A s, t \in F : ~Inside(n, F, v, s, t)
    PROVE  LET G == F \cup AuxTags(F)
           IN  \A x \in G : /\ LastBelow(G, v, x) <=> LastBelow(F, v, x)
                            /\ FirstAbove(G, v, x) <=> FirstAbove(F, v, x)
<1> DEFINE A == AuxTags(F)
           G == F \cup A
<1>1. \A x \in A : Outside(F, v, x)
  BY InsideOrOutside
<1>2. A \subseteq TagsOf(n)
  <2>1. \A x \in A : \E c, d \in F : Apart(n, c, d) /\ x = Border(c, d)
    BY BordersAre
  <2> QED
    BY <2>1, BorderIsBetween
<1>3. \A x, y, z \in TagsOf(n) : SortsBefore(x, y) /\ SortsBefore(y, z) => SortsBefore(x, z)
  BY TagsAreOrdered
<1> HIDE DEF A
<1>4. G \subseteq TagsOf(n)
  BY <1>2
<1>5. \A x \in G : /\ LastBelow(G, v, x) => x \in F
                   /\ FirstAbove(G, v, x) => x \in F
  BY <1>1 DEF LastBelow, FirstAbove, Outside
<1>6. \A x \in G : LastBelow(G, v, x) <=> LastBelow(F, v, x)
  BY <1>1, <1>3, <1>4, <1>5 DEF LastBelow, Outside
<1>7. \A x \in G : FirstAbove(G, v, x) <=> FirstAbove(F, v, x)
  BY <1>1, <1>3, <1>4, <1>5 DEF FirstAbove, Outside
<1> QED
  BY <1>6, <1>7 DEF A

(* What decides, at a version that no tag is at: the tag below it is a "+" *)
(* tag, or the version is behind its branch and a "-" tag above it; and    *)
(* the tag above it the other way round.                                   *)
NeighboursHold(n, F, v) ==
    /\ \A p \in F : LastBelow(F, v, p) =>
         \/ IsPlus(p)
         \/ ~Same(n, p.ver, v) /\ \E q \in F : FirstAbove(F, v, q) /\ ~IsPlus(q)
    /\ \A q \in F : FirstAbove(F, v, q) =>
         \/ ~IsPlus(q)
         \/ ~Same(n, q.ver, v) /\ \E p \in F : LastBelow(F, v, p) /\ IsPlus(p)

LEMMA NeighboursDecide ==
    ASSUME NEW n \in Nat, n >= 1, NEW F \in SUBSET TagsOf(n), IsFiniteSet(F), OneEach(n, F),
           \A t \in F : ~IsPlus(t) => Capped(n, t.ver),
           NEW v \in Vers(n), \A t \in F : t.ver # v, Small(v)
    PROVE  ClosestHold(Sorted(F \cup AuxTags(F)), v) <=> NeighboursHold(n, F, v)
<1> DEFINE G == F \cup AuxTags(F)
<1>1. G \in SUBSET TagsOf(n) /\ IsFiniteSet(G)
  BY BordersAreTags
<1>2. ClosestHold(Sorted(G), v) <=>
         \A t \in G : LastBelow(G, v, t) \/ FirstAbove(G, v, t) => Holds(t, v)
  <2> HIDE DEF G
  <2> QED
    BY <1>1, ClosestAre
<1>3. \A s, t \in F : /\ s.ver \in Vers(n)
                      /\ LastBelow(F, v, s) => Less(s.ver, v)
                      /\ FirstAbove(F, v, t) => Less(v, t.ver)
                      /\ LastBelow(F, v, s) => (Holds(s, v) <=> IsPlus(s))
                      /\ FirstAbove(F, v, t) => (Holds(t, v) <=> ~IsPlus(t))
  BY HoldsThere DEF LastBelow, FirstAbove, AtMost, TagsOf
<1>4. \A s, t, x : /\ LastBelow(F, v, s) /\ LastBelow(F, v, t) => s = t
                   /\ FirstAbove(F, v, s) /\ FirstAbove(F, v, t) => s = t
                   /\ LastBelow(G, v, s) /\ LastBelow(G, v, t) => s = t
                   /\ FirstAbove(G, v, s) /\ FirstAbove(G, v, t) => s = t
  <2> HIDE DEF G
  <2> QED
    BY <1>1, TagsAreOrdered DEF LastBelow, FirstAbove
<1>5. CASE \A s, t \in F : ~Inside(n, F, v, s, t)
  <2>1. \A x \in G : /\ LastBelow(G, v, x) <=> LastBelow(F, v, x)
                     /\ FirstAbove(G, v, x) <=> FirstAbove(F, v, x)
    BY <1>5, ClosestWithoutBorder
  <2>2. \A x : LastBelow(F, v, x) \/ FirstAbove(F, v, x) => x \in F
    BY DEF LastBelow, FirstAbove
  <2>3. ClosestHold(Sorted(G), v) <=> /\ \A p \in F : LastBelow(F, v, p) => IsPlus(p)
                                      /\ \A q \in F : FirstAbove(F, v, q) => ~IsPlus(q)
    <3> HIDE DEF G
    <3>1. F \subseteq G
      BY DEF G
    <3> QED
      BY <1>2, <1>3, <2>1, <2>2, <3>1
  <2>4. ASSUME NEW p \in F, NEW q \in F, LastBelow(F, v, p), FirstAbove(F, v, q),
               IsPlus(p) <=> IsPlus(q)
        PROVE  Same(n, p.ver, v) /\ Same(n, q.ver, v)
    <3>1. Less(p.ver, v) /\ Less(v, q.ver) /\ Less(p.ver, q.ver)
      BY <2>4, <1>3, LessIsTransitive
    <3>2. Same(n, p.ver, q.ver)
      BY <2>4, <1>5, <3>1 DEF Inside, Apart, SortsBefore
    <3>3. Same(n, p.ver, v)
      BY <3>1, <3>2, <1>3, BranchesAreIntervals DEF AtMost
    <3> QED
      BY <3>2, <3>3, SameIsSame
  <2>5. NeighboursHold(n, F, v) <=> /\ \A p \in F : LastBelow(F, v, p) => IsPlus(p)
                                    /\ \A q \in F : FirstAbove(F, v, q) => ~IsPlus(q)
    BY <2>4 DEF NeighboursHold
  <2> QED
    BY <2>3, <2>5
<1>6. ASSUME NEW s \in F, NEW t \in F, Inside(n, F, v, s, t)
      PROVE  ClosestHold(Sorted(G), v) <=> NeighboursHold(n, F, v)
  <2> DEFINE b == Border(s, t)
  <2>1. /\ LastBelow(F, v, s) /\ FirstAbove(F, v, t) /\ Apart(n, s, t)
        /\ IsPlus(s) <=> IsPlus(t)
        /\ ~IsPlus(s) => Capped(n, s.ver)
    BY <1>6 DEF Inside, Apart
  <2>2. Less(s.ver, v) /\ Less(v, t.ver) /\ s.ver \in Vers(n) /\ t.ver \in Vers(n)
    BY <1>3, <2>1
  <2>3. /\ AtMost(b.ver, v) => LastBelow(G, v, b)
        /\ ~AtMost(b.ver, v) => LastBelow(G, v, s)
        /\ AtMost(v, b.ver) => FirstAbove(G, v, b)
        /\ ~AtMost(v, b.ver) => FirstAbove(G, v, t)
    BY <1>6, ClosestWithBorder
  <2>4. b \in TagsOf(n) /\ b \in G
    BY <1>6, <2>1, BorderIsBetween, InsideOrOutside
  <2>5. b.ver \in Vers(n)
    BY <2>4 DEF TagsOf
  <2>6. NeighboursHold(n, F, v) <=> IF IsPlus(t) THEN ~Same(n, t.ver, v) ELSE ~Same(n, s.ver, v)
    BY <1>4, <2>1 DEF NeighboursHold
  <2>7. CASE IsPlus(t)
    <3>1. /\ b = AuxTag(t) /\ Same(n, b.ver, t.ver) /\ ~IsPlus(b)
          /\ \A i \in 1 .. n : i > Keep(n) => b.ver[i] = 0
          /\ b.op = "-=" <=> t.op = "+=" /\ b.ver = t.ver
      BY <2>7, BorderIs, SinceBorder DEF Border
    <3> HIDE DEF b, G
    <3>2. CASE Same(n, t.ver, v)
      <4>1. Same(n, b.ver, v)
        BY <3>1, <3>2, SameIsSame
      <4>2. AtMost(b.ver, v)
        BY <3>1, <4>1, <2>5, ZerosComeFirst
      <4>3. ~Holds(b, v)
        <5>1. b.ver # t.ver
          BY <4>2, <2>2, <2>5, AtMostIsOrder, LessIsTotal
        <5>2. b.op \notin {"-=", "+="}
          BY <3>1, <5>1 DEF IsPlus
        <5> QED
          BY <4>2, <5>2, <3>1, <2>4, HoldsThere DEF AtMost
      <4> QED
        BY <1>2, <2>3, <2>4, <2>6, <2>7, <3>2, <4>2, <4>3
    <3>3. CASE ~Same(n, t.ver, v)
      <4>1. Less(v, b.ver)
        BY <3>1, <3>3, <2>2, <2>5, SameIsSame, BranchesAreOrdered
      <4>2. ~AtMost(b.ver, v) /\ AtMost(v, b.ver)
        BY <4>1, <2>5, AtMostIsOrder, LessIsTotal DEF AtMost
      <4>3. LastBelow(G, v, s) /\ FirstAbove(G, v, b)
        BY <4>2, <2>3
      <4>4. Holds(s, v) /\ Holds(b, v)
        BY <4>1, <3>1, <2>1, <2>4, <2>7, <1>3, HoldsThere
      <4>5. ClosestHold(Sorted(G), v)
        BY <4>3, <4>4, <1>2, <1>4
      <4> QED
        BY <4>5, <2>6, <2>7, <3>3
    <3> QED
      BY <3>2, <3>3
  <2>8. CASE ~IsPlus(t)
    <3>0. ~IsPlus(s)
      BY <2>1, <2>8
    <3>1. /\ b = AuxTag(s) /\ Same(n, b.ver, s.ver) /\ IsPlus(b)
          /\ \A i \in 1 .. n : i > Keep(n) => b.ver[i] = Top
          /\ n = Keep(n) => b.ver = s.ver
      BY <3>0, <2>1, <2>8, BorderIs, UntilBorder DEF Border
    <3> HIDE DEF b, G
    <3>2. CASE Same(n, s.ver, v)
      <4>1. Same(n, b.ver, v)
        BY <3>1, <3>2, SameIsSame
      <4>2. IF n = Keep(n) THEN v = b.ver ELSE Less(v, b.ver)
        BY <3>1, <4>1, <2>5, TopsComeLast
      <4>3. Less(v, b.ver)
        BY <4>2, <3>1, <2>2, LessIsTotal
      <4>4. FirstAbove(G, v, b) /\ ~Holds(b, v)
        BY <4>3, <3>1, <2>3, <2>4, HoldsThere DEF AtMost
      <4> QED
        BY <4>4, <1>2, <2>4, <2>6, <2>8, <3>2
    <3>3. CASE ~Same(n, s.ver, v)
      <4>1. Less(b.ver, v)
        BY <3>1, <3>3, <2>2, <2>5, SameIsSame, BranchesAreOrdered
      <4>2. AtMost(b.ver, v) /\ ~AtMost(v, b.ver)
        BY <4>1, <2>5, AtMostIsOrder, LessIsTotal DEF AtMost
      <4>3. LastBelow(G, v, b) /\ FirstAbove(G, v, t)
        BY <4>2, <2>3
      <4>4. Holds(b, v) /\ Holds(t, v)
        BY <4>1, <3>1, <2>1, <2>4, <2>8, <1>3, HoldsThere
      <4>5. ClosestHold(Sorted(G), v)
        BY <4>3, <4>4, <1>2, <1>4
      <4> QED
        BY <4>5, <2>6, <2>8, <3>3
    <3> QED
      BY <3>2, <3>3
  <2> QED
    BY <2>7, <2>8
<1> QED
  BY <1>5, <1>6

(* Where a tag is exactly at the version, the other tags of its branch     *)
(* hold.                                                                   *)
Exact(n, F, v) ==
    \A f, g \in F : f # g /\ f.ver = v /\ Same(n, g.ver, v) => Holds(g, v)

LEMMA ExactTagsDecide ==
    ASSUME NEW n \in Nat, n >= 1, NEW F \in SUBSET TagsOf(n), IsFiniteSet(F), OneEach(n, F),
           \A t \in F : ~IsPlus(t) => Capped(n, t.ver),
           NEW v \in Vers(n), \E f \in F : f.ver = v, Small(v), Exact(n, F, v)
    PROVE  ClosestHold(Sorted(F \cup AuxTags(F)), v)
             <=> \A f \in F : f.ver = v => Holds(f, v)
<1> DEFINE G == F \cup AuxTags(F)
<1>1. G \in SUBSET TagsOf(n) /\ IsFiniteSet(G) /\ F \subseteq G
  BY BordersAreTags
<1>2. PICK f \in F : f.ver = v
  OBVIOUS
<1>3. ClosestHold(Sorted(G), v) <=> \A g \in G : g.ver = v => Holds(g, v)
  <2> HIDE DEF G
  <2> QED
    BY <1>1, <1>2, ClosestThere
<1>4. ASSUME \A g \in F : g.ver = v => Holds(g, v), NEW b \in AuxTags(F), b.ver = v
      PROVE  Holds(b, v)
  <2>1. PICK s \in F, t \in F : Apart(n, s, t) /\ b = Border(s, t)
    BY BordersAre
  <2>2. /\ s \in TagsOf(n) /\ t \in TagsOf(n) /\ b \in TagsOf(n)
        /\ s.ver \in Vers(n) /\ t.ver \in Vers(n)
    BY <2>1, BorderIsBetween DEF TagsOf
  <2>3. CASE IsPlus(t)
    <3>1. /\ Same(n, b.ver, t.ver) /\ AtMost(b.ver, t.ver)
          /\ b.op = "-=" <=> t.op = "+=" /\ b.ver = t.ver
      BY <2>1, <2>2, <2>3, BorderIs, SinceBorder DEF Border
    <3>2. Same(n, t.ver, v)
      BY <3>1, <1>4, SameIsSame
    <3>3. t.ver = v
      <4> SUFFICES ASSUME t.ver # v PROVE FALSE
        OBVIOUS
      <4>1. Holds(t, v)
        BY <1>2, <3>2 DEF Exact
      <4>2. Less(v, t.ver)
        BY <3>1, <1>4 DEF AtMost
      <4> QED
        BY <4>1, <4>2, <2>2, <2>3, HoldsThere
    <3>4. t.op = "+="
      BY <3>3, <1>4, <2>2, <2>3, HoldsThere DEF IsPlus
    <3> QED
      BY <3>1, <3>3, <3>4, <1>4, <2>2, HoldsThere
  <2>4. CASE ~IsPlus(t)
    <3>1. ~IsPlus(s) /\ Capped(n, s.ver) /\ b = AuxTag(s)
      BY <2>1, <2>4 DEF Apart, Border
    <3>2. /\ \A i \in 1 .. n : i > Keep(n) => b.ver[i] = Top
          /\ n = Keep(n) => b.ver = s.ver /\ (b.op = "+=" <=> s.op = "-=")
      BY <3>1, <2>2, BorderIs, UntilBorder
    <3>3. n = Keep(n)
      <4> SUFFICES ASSUME n # Keep(n) PROVE FALSE
        OBVIOUS
      <4>1. PICK i \in 1 .. n : i > Keep(n) /\ i \in {2, 3}
        <5>1. Keep(n) + 1 \in 1 .. n /\ Keep(n) + 1 > Keep(n) /\ Keep(n) + 1 \in {2, 3}
          BY KeepIsShort
        <5> QED
          BY <5>1
      <4>2. v[i] = Top
        BY <4>1, <3>2, <1>4
      <4>3. DOMAIN v = 1 .. n /\ v[i] \in Nat
        BY DEF Vers
      <4> QED
        BY <4>1, <4>2, <4>3 DEF Small, Top
    <3>4. s.op = "-="
      BY <3>1, <3>2, <3>3, <1>4, <2>2, HoldsThere DEF IsPlus
    <3> QED
      BY <3>2, <3>3, <3>4, <1>4, <2>2, HoldsThere
  <2> QED
    BY <2>3, <2>4
<1> QED
  BY <1>1, <1>3, <1>4

-----------------------------------------------------------------------------
(* What the notes say of filled tags, and that it is what decides.         *)

Means(n, S, v) ==
    /\ \E t \in S : Holds(t, v)
    /\ \A t \in S : Same(n, t.ver, v) => Holds(t, v)

SinceIn(F) == {t \in F : IsPlus(t)}
UntilIn(F) == {t \in F : ~IsPlus(t)}
Precede(S, T) == \A s \in S, t \in T : Less(s.ver, t.ver)

AsMeant(n, F, v, judged) ==
    LET since == SinceIn(F)
        until == UntilIn(F)
    IN /\ until = {} /\ since # {} => (judged <=> Means(n, since, v))
       /\ since = {} /\ until # {} => (judged <=> Means(n, until, v))
       /\ since # {} /\ until # {} =>
            /\ Precede(since, until) =>
                 (judged <=> Means(n, since, v) /\ Means(n, until, v))
            /\ Precede(until, since) =>
                 (judged <=> Means(n, since, v) \/ Means(n, until, v))

LEMMA ExactTagsMean ==
    ASSUME NEW n \in Nat, NEW F \in SUBSET TagsOf(n),
           NEW v \in Vers(n), \E f \in F : f.ver = v, Exact(n, F, v)
    PROVE  AsMeant(n, F, v, \A f \in F : f.ver = v => Holds(f, v))
<1> DEFINE all == \A f \in F : f.ver = v => Holds(f, v)
           P == SinceIn(F)
           U == UntilIn(F)
<1>1. PICK f \in F : f.ver = v
  OBVIOUS
<1>2. Same(n, f.ver, v)
  BY <1>1, SameIsSame
<1>3. all <=> Holds(f, v)
  <2>1. \A g \in F : g # f /\ g.ver = v => Holds(g, v)
    BY <1>1, SameIsSame DEF Exact
  <2> QED
    BY <1>1, <2>1
<1>4. \A g \in F : g # f /\ Same(n, g.ver, v) => Holds(g, v)
  BY <1>1 DEF Exact
<1>5. \A g \in F : /\ Less(g.ver, v) => (Holds(g, v) <=> IsPlus(g))
                   /\ Less(v, g.ver) => (Holds(g, v) <=> ~IsPlus(g))
  BY HoldsThere
<1>6. /\ f \in P => (Means(n, P, v) <=> all)
      /\ f \in U => (Means(n, U, v) <=> all)
  BY <1>2, <1>3, <1>4 DEF Means, SinceIn, UntilIn
<1>7. ASSUME f \in P, U # {}
      PROVE  /\ Precede(P, U) => Means(n, U, v)
             /\ Precede(U, P) => ~Means(n, U, v)
  <2>1. \A g \in U : /\ Precede(P, U) => Holds(g, v)
                     /\ Precede(U, P) => ~Holds(g, v)
    BY <1>1, <1>5, <1>7 DEF Precede, UntilIn
  <2> QED
    BY <2>1, <1>7 DEF Means
<1>8. ASSUME f \in U, P # {}
      PROVE  /\ Precede(U, P) => ~Means(n, P, v)
             /\ Precede(P, U) => Means(n, P, v)
  <2>1. \A g \in P : /\ Precede(P, U) => Holds(g, v)
                     /\ Precede(U, P) => ~Holds(g, v)
    BY <1>1, <1>5, <1>8 DEF Precede, SinceIn
  <2> QED
    BY <2>1, <1>8 DEF Means
<1>9. f \in P \/ f \in U
  BY DEF SinceIn, UntilIn
<1> HIDE DEF all, P, U
<1>10. AsMeant(n, F, v, all)
  BY <1>6, <1>7, <1>8, <1>9 DEF AsMeant, P, U
<1> QED
  BY <1>10 DEF all

LEMMA NeighboursMean ==
    ASSUME NEW n \in Nat, n >= 1, NEW F \in SUBSET TagsOf(n), IsFiniteSet(F),
           NEW v \in Vers(n), \A t \in F : t.ver # v
    PROVE  AsMeant(n, F, v, NeighboursHold(n, F, v))
<1> DEFINE P == SinceIn(F)
           U == UntilIn(F)
           judged == NeighboursHold(n, F, v)
<1>1. \A t \in F : /\ t.ver \in Vers(n)
                   /\ AtMost(t.ver, v) <=> Less(t.ver, v)
                   /\ AtMost(v, t.ver) <=> Less(v, t.ver)
                   /\ Less(t.ver, v) \/ Less(v, t.ver)
                   /\ ~ (Less(t.ver, v) /\ Less(v, t.ver))
                   /\ Holds(t, v) <=> (IsPlus(t) <=> Less(t.ver, v))
  <2> TAKE t \in F
  <2>1. t.ver \in Vers(n)
    BY DEF TagsOf
  <2> QED
    BY <2>1, LessIsTotal, HoldsThere DEF AtMost
<1>2. \A p \in F : LastBelow(F, v, p) <=>
        Less(p.ver, v) /\ \A t \in F : Less(t.ver, v) => ~SortsBefore(p, t)
  BY <1>1 DEF LastBelow
<1>3. \A q \in F : FirstAbove(F, v, q) <=>
        Less(v, q.ver) /\ \A t \in F : Less(v, t.ver) => ~SortsBefore(t, q)
  BY <1>1 DEF FirstAbove
<1>4. \A p, t \in F : LastBelow(F, v, p) /\ Less(t.ver, v) =>
        ~Less(p.ver, t.ver) /\ (Same(n, t.ver, v) => Same(n, p.ver, v))
  <2> TAKE p, t \in F
  <2> HAVE LastBelow(F, v, p) /\ Less(t.ver, v)
  <2>1. ~Less(p.ver, t.ver) /\ Less(p.ver, v)
    BY <1>2 DEF SortsBefore
  <2>2. AtMost(t.ver, p.ver) /\ AtMost(p.ver, v)
    BY <2>1, <1>1, AtMostIsOrder DEF AtMost
  <2>3. Same(n, t.ver, v) => Same(n, t.ver, p.ver)
    BY <2>2, <1>1, BranchesAreIntervals
  <2> QED
    BY <2>1, <2>3, SameIsSame
<1>5. \A q, t \in F : FirstAbove(F, v, q) /\ Less(v, t.ver) =>
        ~Less(t.ver, q.ver) /\ (Same(n, t.ver, v) => Same(n, q.ver, v))
  <2> TAKE q, t \in F
  <2> HAVE FirstAbove(F, v, q) /\ Less(v, t.ver)
  <2>1. ~Less(t.ver, q.ver) /\ Less(v, q.ver)
    BY <1>3 DEF SortsBefore
  <2>2. AtMost(v, q.ver) /\ AtMost(q.ver, t.ver)
    BY <2>1, <1>1, AtMostIsOrder DEF AtMost
  <2>3. Same(n, v, t.ver) => Same(n, v, q.ver)
    BY <2>2, <1>1, BranchesAreIntervals
  <2> QED
    BY <2>1, <2>3, SameIsSame
<1>6. \A s, t \in F : /\ LastBelow(F, v, s) /\ LastBelow(F, v, t) => s = t
                      /\ FirstAbove(F, v, s) /\ FirstAbove(F, v, t) => s = t
  BY <1>2, <1>3, TagsAreOrdered
<1>7. /\ Means(n, P, v) <=> /\ \E t \in F : IsPlus(t) /\ Less(t.ver, v)
                            /\ \A t \in F : IsPlus(t) /\ Same(n, t.ver, v) => Less(t.ver, v)
      /\ Means(n, U, v) <=> /\ \E t \in F : ~IsPlus(t) /\ Less(v, t.ver)
                            /\ \A t \in F : ~IsPlus(t) /\ Same(n, t.ver, v) => Less(v, t.ver)
  <2>1. \A t \in F : /\ IsPlus(t) => (Holds(t, v) <=> Less(t.ver, v))
                     /\ ~IsPlus(t) => (Holds(t, v) <=> Less(v, t.ver))
    BY <1>1
  <2> QED
    BY <2>1 DEF Means, SinceIn, UntilIn
<1>8. /\ \A t \in F : /\ t \in P <=> IsPlus(t)
                      /\ t \in U <=> ~IsPlus(t)
      /\ P \subseteq F /\ U \subseteq F
  BY DEF SinceIn, UntilIn
<1>9. \A s, t \in F : ~ (Less(s.ver, t.ver) /\ Less(t.ver, s.ver))
  BY <1>1, LessIsTotal
<1>10. \A s, t \in F : Less(s.ver, v) /\ Less(v, t.ver) => Less(s.ver, t.ver)
  BY <1>1, LessIsTransitive
<1> HIDE DEF P, U, judged
<1>11. ASSUME NEW p \in F, NEW q \in F, LastBelow(F, v, p), FirstAbove(F, v, q)
       PROVE  AsMeant(n, F, v, judged)
  <2>0. /\ Less(p.ver, v) /\ Less(v, q.ver) /\ Less(p.ver, q.ver)
        /\ ~Less(v, p.ver) /\ ~Less(q.ver, v) /\ ~Less(q.ver, p.ver)
    BY <1>1, <1>2, <1>3, <1>9, <1>10, <1>11
  <2>1. judged <=> /\ IsPlus(p) \/ (~Same(n, p.ver, v) /\ ~IsPlus(q))
                   /\ ~IsPlus(q) \/ (~Same(n, q.ver, v) /\ IsPlus(p))
    BY <1>6, <1>11 DEF judged, NeighboursHold
  <2>2. CASE IsPlus(p) /\ IsPlus(q)
    <3>1. Means(n, P, v) <=> ~Same(n, q.ver, v)
      BY <2>0, <2>2, <1>1, <1>5, <1>7, <1>11
    <3>2. U # {} /\ Precede(P, U) => Means(n, U, v)
      <4> SUFFICES ASSUME U # {}, Precede(P, U) PROVE Means(n, U, v)
        OBVIOUS
      <4>1. \A t \in F : ~IsPlus(t) => Less(q.ver, t.ver)
        BY <2>2, <1>8 DEF Precede
      <4>2. \A t \in F : ~IsPlus(t) => Less(v, t.ver)
        BY <4>1, <2>0, <1>1, LessIsTransitive
      <4> QED
        BY <4>2, <1>7, <1>8
    <3>3. Precede(U, P) => ~Means(n, U, v)
      <4> SUFFICES ASSUME Precede(U, P) PROVE ~Means(n, U, v)
        OBVIOUS
      <4>1. \A t \in F : ~IsPlus(t) => Less(t.ver, p.ver)
        BY <2>2, <1>8 DEF Precede
      <4>2. \A t \in F : ~IsPlus(t) => ~Less(v, t.ver)
        BY <4>1, <2>0, <1>9, <1>10
      <4> QED
        BY <4>2, <1>7
    <3>4. judged <=> ~Same(n, q.ver, v)
      BY <2>1, <2>2
    <3>5. P # {}
      BY <2>2, <1>8
    <3> QED
      BY <3>1, <3>2, <3>3, <3>4, <3>5 DEF AsMeant, P, U
  <2>3. CASE ~IsPlus(p) /\ ~IsPlus(q)
    <3>1. Means(n, U, v) <=> ~Same(n, p.ver, v)
      BY <2>0, <2>3, <1>1, <1>4, <1>7, <1>11
    <3>2. P # {} /\ Precede(P, U) => Means(n, P, v)
      <4> SUFFICES ASSUME P # {}, Precede(P, U) PROVE Means(n, P, v)
        OBVIOUS
      <4>1. \A t \in F : IsPlus(t) => Less(t.ver, p.ver)
        BY <2>3, <1>8 DEF Precede
      <4>2. \A t \in F : IsPlus(t) => Less(t.ver, v)
        BY <4>1, <2>0, <1>1, LessIsTransitive
      <4> QED
        BY <4>2, <1>7, <1>8
    <3>3. Precede(U, P) => ~Means(n, P, v)
      <4> SUFFICES ASSUME Precede(U, P) PROVE ~Means(n, P, v)
        OBVIOUS
      <4>1. \A t \in F : IsPlus(t) => Less(q.ver, t.ver)
        BY <2>3, <1>8 DEF Precede
      <4>2. \A t \in F : IsPlus(t) => ~Less(t.ver, v)
        BY <4>1, <2>0, <1>9, <1>10
      <4> QED
        BY <4>2, <1>7
    <3>4. judged <=> ~Same(n, p.ver, v)
      BY <2>1, <2>3
    <3>5. U # {}
      BY <2>3, <1>8
    <3> QED
      BY <3>1, <3>2, <3>3, <3>4, <3>5 DEF AsMeant, P, U
  <2>4. CASE IsPlus(p) /\ ~IsPlus(q)
    <3>1. judged /\ P # {} /\ U # {}
      BY <2>1, <2>4, <1>8
    <3>2. ~Precede(U, P)
      BY <2>0, <2>4, <1>8 DEF Precede
    <3>3. Precede(P, U) => Means(n, P, v) /\ Means(n, U, v)
      <4> SUFFICES ASSUME Precede(P, U) PROVE Means(n, P, v) /\ Means(n, U, v)
        OBVIOUS
      <4>1. \A t \in F : IF IsPlus(t) THEN Less(t.ver, q.ver) ELSE Less(p.ver, t.ver)
        BY <2>4, <1>8 DEF Precede
      <4>2. \A t \in F : IF IsPlus(t) THEN Less(t.ver, v) ELSE Less(v, t.ver)
        BY <4>1, <1>1, <1>4, <1>5, <1>11
      <4> QED
        BY <4>2, <2>4, <1>7
    <3> QED
      BY <3>1, <3>2, <3>3 DEF AsMeant, P, U
  <2>5. CASE ~IsPlus(p) /\ IsPlus(q)
    <3>1. ~judged /\ P # {} /\ U # {}
      BY <2>1, <2>5, <1>8
    <3>2. ~Precede(P, U)
      BY <2>0, <2>5, <1>8 DEF Precede
    <3>3. Precede(U, P) => ~Means(n, P, v) /\ ~Means(n, U, v)
      <4> SUFFICES ASSUME Precede(U, P) PROVE ~Means(n, P, v) /\ ~Means(n, U, v)
        OBVIOUS
      <4>1. \A t \in F : IF IsPlus(t) THEN Less(p.ver, t.ver) ELSE Less(t.ver, q.ver)
        BY <2>5, <1>8 DEF Precede
      <4>2. \A t \in F : IF IsPlus(t) THEN ~Less(t.ver, v) ELSE ~Less(v, t.ver)
        BY <4>1, <1>1, <1>4, <1>5, <1>11
      <4> QED
        BY <4>2, <1>7
    <3> QED
      BY <3>1, <3>2, <3>3 DEF AsMeant, P, U
  <2> QED
    BY <2>2, <2>3, <2>4, <2>5
<1>12. ASSUME NEW q \in F, FirstAbove(F, v, q), \A t \in F : Less(v, t.ver)
       PROVE  AsMeant(n, F, v, judged)
  <2>1. judged <=> ~IsPlus(q)
    <3>1. \A p \in F : ~LastBelow(F, v, p)
      BY <1>1, <1>2, <1>12
    <3> QED
      BY <3>1, <1>6, <1>12 DEF judged, NeighboursHold
  <2>2. ~Means(n, P, v) /\ (Means(n, U, v) <=> U # {})
    BY <1>1, <1>7, <1>8, <1>12
  <2>3. IF IsPlus(q) THEN P # {} /\ (U # {} => ~Precede(U, P))
                     ELSE U # {} /\ (P # {} => ~Precede(P, U))
    <3>1. \A t \in F : ~Less(t.ver, q.ver)
      BY <1>5, <1>12
    <3> QED
      BY <3>1, <1>8 DEF Precede
  <2> QED
    BY <2>1, <2>2, <2>3 DEF AsMeant, P, U
<1>13. ASSUME NEW p \in F, LastBelow(F, v, p), \A t \in F : Less(t.ver, v)
       PROVE  AsMeant(n, F, v, judged)
  <2>1. judged <=> IsPlus(p)
    <3>1. \A q \in F : ~FirstAbove(F, v, q)
      BY <1>1, <1>3, <1>13
    <3> QED
      BY <3>1, <1>6, <1>13 DEF judged, NeighboursHold
  <2>2. ~Means(n, U, v) /\ (Means(n, P, v) <=> P # {})
    BY <1>1, <1>7, <1>8, <1>13
  <2>3. IF IsPlus(p) THEN P # {} /\ (U # {} => ~Precede(P, U))
                     ELSE U # {} /\ (P # {} => ~Precede(U, P))
    <3>1. \A t \in F : ~Less(p.ver, t.ver)
      BY <1>4, <1>13
    <3> QED
      BY <3>1, <1>8 DEF Precede
  <2> QED
    BY <2>1, <2>2, <2>3 DEF AsMeant, P, U
<1>14. CASE F = {}
  BY <1>14, <1>8 DEF AsMeant, P, U
<1>15. /\ (\E t \in F : Less(t.ver, v)) => \E p \in F : LastBelow(F, v, p)
       /\ (\E t \in F : Less(v, t.ver)) => \E q \in F : FirstAbove(F, v, q)
  BY <1>1, ClosestAre
<1> QED
  BY <1>1, <1>11, <1>12, <1>13, <1>14, <1>15 DEF judged

LEMMA FilledMean ==
    ASSUME NEW n \in Nat, n >= 1, NEW F \in SUBSET TagsOf(n), IsFiniteSet(F), OneEach(n, F),
           \A t \in F : ~IsPlus(t) => Capped(n, t.ver),
           NEW v \in Vers(n), Small(v), Exact(n, F, v)
    PROVE  AsMeant(n, F, v, ClosestHold(Sorted(F \cup AuxTags(F)), v))
<1> DEFINE judged == ClosestHold(Sorted(F \cup AuxTags(F)), v)
           all == \A f \in F : f.ver = v => Holds(f, v)
           near == NeighboursHold(n, F, v)
<1>1. CASE \E f \in F : f.ver = v
  <2>1. judged <=> all
    BY <1>1, ExactTagsDecide
  <2>2. AsMeant(n, F, v, all)
    BY <1>1, ExactTagsMean
  <2> HIDE DEF judged, all
  <2>3. AsMeant(n, F, v, judged)
    BY <2>1, <2>2 DEF AsMeant
  <2> QED
    BY <2>3 DEF judged
<1>2. CASE \A f \in F : f.ver # v
  <2>1. judged <=> near
    BY <1>2, NeighboursDecide
  <2>2. AsMeant(n, F, v, near)
    BY <1>2, NeighboursMean
  <2> HIDE DEF judged, near
  <2>3. AsMeant(n, F, v, judged)
    BY <2>1, <2>2 DEF AsMeant
  <2> QED
    BY <2>3 DEF judged
<1> QED
  BY <1>1, <1>2

-----------------------------------------------------------------------------
(* Tags as they are written, and filled.                                   *)

(* What a tag says by itself is what it says filled.                       *)
LEMMA SaysIsHolds ==
    ASSUME NEW n \in Nat, NEW tag \in RawTags, Len(tag.ver) \in 1 .. n,
           NEW v \in Vers(n), ~Overrun(tag, v)
    PROVE  Says(tag, v) <=> Holds(Fill(tag, n), v)
<1> DEFINE u == tag.ver
           m == Len(u)
           w == SubSeq(v, 1, m)
           filled == Fill(tag, n)
           f == filled.ver
<1>1. /\ u \in Seq(Nat) /\ m \in Nat /\ m >= 1 /\ m <= n /\ tag.op \in Ops
      /\ v \in Seq(Nat) /\ Len(v) = n
  BY SeqDef, LenProperties DEF RawTags, Vers
<1>2. tag \in TagsOf(m) /\ u \in Vers(m)
  BY <1>1, LenProperties DEF RawTags, TagsOf, Vers
<1>3. w = [i \in 1 .. m |-> v[i]]
  BY <1>1
<1>4. w \in Vers(m) /\ \A i \in 1 .. m : w[i] = v[i]
  <2>1. \A i \in 1 .. m : v[i] \in Nat
    <3>1. \A i \in 1 .. m : i \in 1 .. n
      BY <1>1
    <3> HIDE DEF m
    <3> QED
      BY <3>1 DEF Vers
  <2> HIDE DEF m, w
  <2> QED
    BY <2>1, <1>3 DEF Vers
<1>5. /\ filled \in TagsOf(n) /\ filled.op = tag.op /\ f \in Vers(n)
      /\ IsPlus(filled) <=> IsPlus(tag)
      /\ \A i \in 1 .. n : f[i] = IF i \in 1 .. m THEN u[i]
                                  ELSE IF tag.op \in {"+", "-="} THEN Top ELSE 0
  BY FilledIs DEF TagsOf
<1>6. Says(tag, v) <=> Holds(tag, w)
  BY DEF Says
<1>7. Overrun(tag, v) <=> /\ tag.op \in {"+", "-="} /\ m < n /\ w = u
                          /\ v[m + 1] >= Top
  BY <1>1 DEF Overrun
<1> HIDE DEF filled, f, m, u, w
<1>8. /\ Less(u, w) => Less(f, v)
      /\ Less(w, u) => Less(v, f)
  <2>1. DOMAIN u = 1 .. m /\ DOMAIN w = 1 .. m /\ DOMAIN f = 1 .. n /\ DOMAIN v = 1 .. n
    BY <1>2, <1>4, <1>5 DEF Vers
  <2>2. \A i \in 1 .. m : /\ i \in 1 .. n /\ f[i] = u[i] /\ w[i] = v[i]
                          /\ \A j \in 1 .. i - 1 : j \in 1 .. m
    BY <1>1, <1>4, <1>5
  <2> QED
    BY <2>1, <2>2 DEF Less
<1>9. ASSUME u = w, m = n PROVE f = v
  <2>1. \A i \in 1 .. n : f[i] = v[i]
    BY <1>4, <1>5, <1>9
  <2> QED
    BY <2>1, <1>5 DEF Vers
<1>10. ASSUME u = w, m < n, tag.op \in {"+", "-="} PROVE Less(v, f)
  <2> DEFINE i == m + 1
  <2>1. i \in 1 .. n /\ f[i] = Top /\ \A j \in 1 .. i - 1 : v[j] = f[j]
    BY <1>1, <1>4, <1>5, <1>10
  <2>2. v[i] < Top
    <3>1. v[i] \in Nat
      BY <2>1 DEF Vers
    <3>2. ~ (v[i] >= Top)
      BY <1>7, <1>10
    <3> HIDE DEF i
    <3> QED
      BY <3>1, <3>2 DEF Top
  <2>3. DOMAIN v = 1 .. n
    BY DEF Vers
  <2> HIDE DEF i
  <2> QED
    BY <2>1, <2>2, <2>3 DEF Less
<1>11. ASSUME u = w, m < n, tag.op \notin {"+", "-="} PROVE AtMost(f, v)
  <2> SUFFICES ASSUME Less(v, f) PROVE FALSE
    BY <1>5, AtMostIsOrder
  <2>1. PICK i \in 1 .. n : v[i] < f[i]
    BY DEF Less, Vers
  <2>2. v[i] \in Nat /\ (f[i] = v[i] \/ f[i] = 0)
    BY <1>4, <1>5, <1>11 DEF Vers
  <2> QED
    BY <2>1, <2>2
<1>12. tag.op \in {"-", "-=", "+=", "+"}
  BY <1>1 DEF Ops
<1>13. tag.ver = u
  BY DEF u
<1>14. filled.ver = f
  BY DEF f
<1>15. /\ u = w => (Holds(tag, w) <=> tag.op \in {"-=", "+="})
       /\ Less(u, w) => (Holds(tag, w) <=> IsPlus(tag))
       /\ Less(w, u) => (Holds(tag, w) <=> ~IsPlus(tag))
  BY <1>1, <1>2, <1>4, <1>13, HoldsThere
<1>16. /\ f = v => (Holds(filled, v) <=> tag.op \in {"-=", "+="})
       /\ Less(f, v) => (Holds(filled, v) <=> IsPlus(tag))
       /\ Less(v, f) => (Holds(filled, v) <=> ~IsPlus(tag))
  BY <1>5, <1>14, HoldsThere
<1>17. u = w \/ Less(u, w) \/ Less(w, u)
  BY <1>1, <1>2, <1>4, LessIsTotal
<1>18. u = w => (Holds(filled, v) <=> tag.op \in {"-=", "+="})
  <2>1. CASE m = n
    BY <2>1, <1>9, <1>16
  <2>2. CASE m < n /\ tag.op \in {"+", "-="}
    BY <2>2, <1>10, <1>16 DEF IsPlus
  <2>3. CASE m < n /\ tag.op \notin {"+", "-="}
    BY <2>3, <1>11, <1>12, <1>16 DEF IsPlus, AtMost
  <2> QED
    BY <2>1, <2>2, <2>3, <1>1
<1> QED
  BY <1>6, <1>8, <1>15, <1>16, <1>17, <1>18 DEF filled

LEMMA FrontIs ==
    ASSUME NEW u \in Seq(Nat), NEW j \in Nat, j >= 1
    PROVE  LET m == IF j <= Len(u) THEN j ELSE Len(u)
           IN  SubSeq(u, 1, Min({j, Len(u)})) = [i \in 1 .. m |-> u[i]]
<1> DEFINE l == Len(u)
           m == IF j <= l THEN j ELSE l
<1>1. l \in Nat
  BY LenProperties
<1>2. Min({j, l}) = m
  <2>1. {j, l} \in SUBSET Nat /\ {j, l} # {}
    BY <1>1
  <2>2. Min({j, l}) \in {j, l} /\ \A y \in {j, l} : Min({j, l}) <= y
    BY <2>1, MinIsLeast
  <2> HIDE DEF l
  <2> QED
    BY <1>1, <2>2
<1>3. SubSeq(u, 1, m) = [i \in 1 .. m |-> u[i]]
  BY <1>1
<1> QED
  BY <1>2, <1>3

(* A tag names the branch of the version.                                  *)
LEMMA BranchIsSame ==
    ASSUME NEW n \in Nat, n >= 1, NEW tag \in RawTags, Len(tag.ver) \in 1 .. n,
           NEW v \in Vers(n)
    PROVE  Branch(tag.ver, v) = Branch(v, v)
             <=> Len(tag.ver) >= Keep(n) /\ Same(n, Fill(tag, n).ver, v)
<1> DEFINE u == tag.ver
           l == Len(u)
           m == IF Keep(n) <= l THEN Keep(n) ELSE l
           front(w, i) == [x \in 1 .. i |-> w[x]]
<1>1. u \in Seq(Nat) /\ v \in Seq(Nat) /\ Len(v) = n /\ l \in Nat /\ l >= 1 /\ l <= n
  BY SeqDef, LenProperties DEF RawTags, Vers
<1>2. Keep(n) \in 1 .. n /\ Keep(n) \in Nat /\ Keep(n) >= 1 /\ Keep(n) <= n
  BY KeepIsShort
<1>3. Branch(u, v) = front(u, m) /\ Branch(v, v) = front(v, Keep(n))
  BY <1>1, <1>2, FrontIs DEF Branch
<1>4. \A i \in 1 .. Keep(n) : l >= Keep(n) => Fill(tag, n).ver[i] = u[i]
  <2>1. \A i \in 1 .. n : Fill(tag, n).ver[i] =
                IF i \in 1 .. l THEN u[i]
                ELSE IF tag.op \in {"+", "-="} THEN Top ELSE 0
    BY FilledIs
  <2>2. \A i \in 1 .. Keep(n) : i \in 1 .. n /\ (l >= Keep(n) => i \in 1 .. l)
    BY <1>1, <1>2
  <2> QED
    BY <2>1, <2>2
<1> HIDE DEF u, l
<1>5. CASE l >= Keep(n)
  <2>1. m = Keep(n)
    BY <1>1, <1>2, <1>5
  <2>2. front(u, Keep(n)) = front(v, Keep(n)) <=> \A i \in 1 .. Keep(n) : u[i] = v[i]
    <3>1. \A w : \A i \in 1 .. Keep(n) : front(w, Keep(n))[i] = w[i]
      OBVIOUS
    <3>2. ASSUME \A i \in 1 .. Keep(n) : u[i] = v[i] PROVE front(u, Keep(n)) = front(v, Keep(n))
      BY <3>2
    <3> HIDE DEF front
    <3> QED
      BY <3>1, <3>2
  <2> HIDE DEF front, m
  <2> QED
    BY <2>1, <2>2, <1>3, <1>4, <1>5 DEF Same, u, l
<1>6. CASE ~ (l >= Keep(n))
  <2>1. m = l /\ Keep(n) \notin 1 .. l /\ Keep(n) \in 1 .. Keep(n)
    BY <1>1, <1>2, <1>6
  <2>2. DOMAIN front(u, l) = 1 .. l /\ DOMAIN front(v, Keep(n)) = 1 .. Keep(n)
    OBVIOUS
  <2> HIDE DEF front, m
  <2> QED
    BY <2>1, <2>2, <1>3, <1>6 DEF u, l
<1> QED
  BY <1>5, <1>6

(* A tag that names no branch holds at the versions that start as it does. *)
LEMMA ShortTagHolds ==
    ASSUME NEW n \in Nat, n >= 1, NEW tag \in RawTags, Len(tag.ver) \in 1 .. n,
           Len(tag.ver) < Keep(n), tag.op # "-",
           NEW v \in Vers(n), Small(v), Same(n, Fill(tag, n).ver, v)
    PROVE  Holds(Fill(tag, n), v)
<1> DEFINE filled == Fill(tag, n)
           f == filled.ver
<1>1. Len(tag.ver) = 1 /\ Keep(n) = 2
  <2> DEFINE l == Len(tag.ver)
  <2>1. l \in 1 .. n /\ l < Keep(n)
    OBVIOUS
  <2>2. Keep(n) = 1 \/ Keep(n) = 2
    BY KeepIsShort
  <2> HIDE DEF l
  <2>3. l = 1 /\ Keep(n) = 2
    BY <2>1, <2>2
  <2> QED
    BY <2>3 DEF l
<1>2. n >= 3
  BY <1>1 DEF Keep
<1>3. /\ filled \in TagsOf(n) /\ filled.op = tag.op /\ f \in Vers(n)
      /\ \A i \in 1 .. n : f[i] = IF i \in 1 .. 1 THEN tag.ver[i]
                                  ELSE IF tag.op \in {"+", "-="} THEN Top ELSE 0
  BY <1>1, FilledIs DEF TagsOf
<1>4. tag.op \in {"-=", "+=", "+"}
  BY DEF RawTags, Ops
<1> HIDE DEF filled
<1>5. tag.op = "+="
  <2> SUFFICES ASSUME tag.op \in {"+", "-="} PROVE FALSE
    BY <1>4
  <2>1. 2 \in 1 .. n /\ 2 \notin 1 .. 1 /\ 2 \in 1 .. Keep(n)
    BY <1>1, <1>2
  <2>2. v[2] = Top
    BY <2>1, <1>3 DEF Same, filled
  <2>3. DOMAIN v = 1 .. n
    BY DEF Vers
  <2> QED
    BY <2>1, <2>2, <2>3 DEF Small, Top
<1>6. \A i \in 1 .. n : i > Keep(n) => f[i] = 0
  <2>1. \A i \in 1 .. n : i > Keep(n) => i \notin 1 .. 1
    BY <1>1
  <2> QED
    BY <2>1, <1>3, <1>5
<1>7. AtMost(f, v)
  BY <1>3, <1>6, ZerosComeFirst DEF filled
<1> QED
  BY <1>3, <1>5, <1>7 DEF Holds, filled

(* A set of tags of one sign, filled.                                      *)
LEMMA OneSignMeans ==
    ASSUME NEW n \in Nat, n >= 1, NEW v \in Vers(n), Small(v), NEW S \in SUBSET RawTags,
           \A tag \in S : /\ Len(tag.ver) \in 1 .. n /\ ~Overrun(tag, v)
                          /\ Len(tag.ver) < Keep(n) => tag.op # "-"
    PROVE  OneSign(S, v) <=> Means(n, {Fill(tag, n) : tag \in S}, v)
<1>1. \A tag \in S : Says(tag, v) <=> Holds(Fill(tag, n), v)
  BY SaysIsHolds
<1>2. \A tag \in S : Branch(tag.ver, v) = Branch(v, v)
        <=> Len(tag.ver) >= Keep(n) /\ Same(n, Fill(tag, n).ver, v)
  BY BranchIsSame
<1>3. \A tag \in S : ~ (Len(tag.ver) >= Keep(n)) /\ Same(n, Fill(tag, n).ver, v)
        => Holds(Fill(tag, n), v)
  <2> TAKE tag \in S
  <2> HAVE ~ (Len(tag.ver) >= Keep(n)) /\ Same(n, Fill(tag, n).ver, v)
  <2>1. Len(tag.ver) < Keep(n)
    BY KeepIsShort
  <2> QED
    BY <2>1, ShortTagHolds
<1> QED
  BY <1>1, <1>2, <1>3 DEF OneSign, Means

(* What TagsMean says of one set of tags and one version.                  *)
MeantAt(tags, v) ==
    LET since == {tag \in tags : IsPlus(tag)}
        until == tags \ since
        before(S, T) == \A s \in S, t \in T :
            Less(Fill(s, Len(v)).ver, Fill(t, Len(v)).ver)
    IN (Meaningful(tags, v) /\ Plain(tags, v)) =>
        CASE until = {} -> Satisfied(tags, v) = OneSign(since, v)
          [] since = {} -> Satisfied(tags, v) = OneSign(until, v)
          [] since # {} /\ until # {} ->
             /\ before(since, until) => Satisfied(tags, v) =
                    (OneSign(since, v) /\ OneSign(until, v))
             /\ before(until, since) => Satisfied(tags, v) =
                    (OneSign(since, v) \/ OneSign(until, v))

(* What tags that are meaningful and plain are when filled.                *)
LEMMA PlainTagsFilled ==
    ASSUME NEW tags \in SUBSET RawTags, NEW n \in Nat, NEW v \in Vers(n),
           Meaningful(tags, v), Plain(tags, v)
    PROVE  LET F == {Fill(tag, n) : tag \in tags}
           IN  /\ n >= 1 /\ Small(v)
               /\ \A tag \in tags : /\ Len(tag.ver) \in 1 .. n /\ ~Overrun(tag, v)
                                    /\ Len(tag.ver) < Keep(n) => tag.op # "-"
               /\ F \in SUBSET TagsOf(n) /\ OneEach(n, F) /\ Exact(n, F, v)
               /\ \A t \in F : ~IsPlus(t) => Capped(n, t.ver)
<1> DEFINE F == {Fill(tag, n) : tag \in tags}
<1>1. v \in Seq(Nat) /\ Len(v) = n
  BY SeqDef, LenProperties DEF Vers
<1>2. \A tag \in tags : /\ tag.ver \in Seq(Nat) /\ tag.op \in Ops
                        /\ DOMAIN tag.ver = 1 .. Len(tag.ver)
                        /\ Len(tag.ver) \in 1 .. n
  <2> TAKE tag \in tags
  <2>1. tag.ver \in Seq(Nat) /\ tag.op \in Ops
    BY DEF RawTags
  <2>2. tag.ver # <<>> /\ ~ (Len(tag.ver) > n)
    BY <1>1 DEF Meaningful, TooLong
  <2>3. Len(tag.ver) \in Nat /\ Len(tag.ver) # 0 /\ DOMAIN tag.ver = 1 .. Len(tag.ver)
    BY <2>1, <2>2, LenProperties, EmptySeq
  <2> QED
    BY <2>1, <2>2, <2>3
<1>3. /\ \A tag \in tags : Small(tag.ver) /\ ~Overrun(tag, v)
      /\ \A tag \in tags : Len(tag.ver) < Keep(n) => tag.op # "-"
      /\ n = 2 => \A s, t \in tags : (IsPlus(s) <=> IsPlus(t)) /\ s.ver[1] = t.ver[1] => s = t
      /\ Small(v)
  <2>1. \A s, t : (IsPlus(s) = IsPlus(t)) <=> (IsPlus(s) <=> IsPlus(t))
    BY DEF IsPlus
  <2> QED
    BY <2>1, <1>1 DEF Plain, Misread
<1>4. n >= 1
  <2>1. PICK tag \in tags : TRUE
    BY DEF Meaningful
  <2> QED
    BY <2>1, <1>2
<1>5. \A tag \in tags :
        /\ Fill(tag, n) \in TagsOf(n)
        /\ Fill(tag, n).op = tag.op
        /\ IsPlus(Fill(tag, n)) <=> IsPlus(tag)
        /\ \A i \in 1 .. n : Fill(tag, n).ver[i] =
                IF i \in 1 .. Len(tag.ver) THEN tag.ver[i]
                ELSE IF tag.op \in {"+", "-="} THEN Top ELSE 0
  BY FilledIs
<1>6. OneEach(n, F)
  <2> SUFFICES ASSUME n = 2, NEW s \in tags, NEW t \in tags,
                      IsPlus(Fill(s, n)) <=> IsPlus(Fill(t, n)),
                      Fill(s, n).ver[1] = Fill(t, n).ver[1]
               PROVE  Fill(s, n) = Fill(t, n)
    BY DEF OneEach
  <2>1. 1 \in 1 .. n /\ 1 \in 1 .. Len(s.ver) /\ 1 \in 1 .. Len(t.ver)
    <3> DEFINE l == Len(s.ver)
               m == Len(t.ver)
    <3>1. l \in 1 .. n /\ m \in 1 .. n
      BY <1>2
    <3> HIDE DEF l, m
    <3>2. 1 \in 1 .. n /\ 1 \in 1 .. l /\ 1 \in 1 .. m
      BY <3>1, <1>4
    <3> QED
      BY <3>2 DEF l, m
  <2>2. s.ver[1] = t.ver[1]
    BY <2>1, <1>5
  <2> QED
    BY <2>2, <1>3, <1>5
<1>7. Exact(n, F, v)
  <2> SUFFICES ASSUME NEW s \in tags, NEW t \in tags, s # t,
                      Fill(s, n).ver = v, Same(n, Fill(t, n).ver, v)
               PROVE  Holds(Fill(t, n), v)
    BY DEF Exact
  <2>1. Branch(t.ver, v) # Branch(v, v)
    BY <1>1 DEF Meaningful
  <2>2. Len(t.ver) < Keep(n)
    <3>1. ~ (Len(t.ver) >= Keep(n))
      BY <2>1, <1>2, <1>4, BranchIsSame
    <3>2. Len(t.ver) \in Nat /\ Keep(n) \in Nat
      BY <1>2, <1>4, KeepIsShort
    <3> QED
      BY <3>1, <3>2
  <2>3. t.op # "-"
    BY <2>2, <1>3
  <2> QED
    BY <2>2, <2>3, <1>2, <1>3, <1>4, ShortTagHolds
<1>8. ASSUME NEW tag \in tags, ~IsPlus(tag) PROVE Capped(n, Fill(tag, n).ver)
  <2> DEFINE i == Keep(n) + 1
             f == Fill(tag, n).ver
  <2> SUFFICES ASSUME n # Keep(n) PROVE f[i] < Top \/ \A j \in 1 .. n : j > Keep(n) => f[j] = Top
    BY DEF Capped
  <2>1. i \in 1 .. n /\ i \in {2, 3} /\ Keep(n) \in 1 .. n
    BY <1>4, KeepIsShort
  <2>2. \A j \in 1 .. n : f[j] = IF j \in 1 .. Len(tag.ver) THEN tag.ver[j]
                                 ELSE IF tag.op \in {"+", "-="} THEN Top ELSE 0
    BY <1>5
  <2>3. CASE i \in 1 .. Len(tag.ver)
    <3>1. tag.ver[i] < Top
      BY <2>1, <2>3, <1>2, <1>3 DEF Small
    <3> HIDE DEF f, i
    <3> QED
      BY <3>1, <2>1, <2>2, <2>3
  <2>4. CASE i \notin 1 .. Len(tag.ver)
    <3>1. \A j \in 1 .. n : j > Keep(n) => j \notin 1 .. Len(tag.ver)
      <4> DEFINE l == Len(tag.ver)
      <4>1. l \in 1 .. n /\ ~ (i \in 1 .. l)
        BY <1>2, <2>4
      <4> HIDE DEF l
      <4>2. l <= Keep(n)
        BY <4>1, <2>1
      <4>3. \A j \in 1 .. n : j > Keep(n) => j \notin 1 .. l
        BY <4>1, <4>2, <2>1
      <4> QED
        BY <4>3 DEF l
    <3>2. CASE tag.op = "-="
      <4>1. \A j \in 1 .. n : j > Keep(n) => f[j] = Top
        BY <3>1, <3>2, <2>2
      <4> QED
        BY <4>1
    <3>3. CASE tag.op = "-"
      <4>1. f[i] = 0
        BY <3>3, <2>1, <2>2, <2>4
      <4> QED
        BY <4>1 DEF Top
    <3> QED
      BY <3>2, <3>3, <1>2, <1>8 DEF IsPlus, Ops
  <2> QED
    BY <2>3, <2>4
<1>9. F \in SUBSET TagsOf(n) /\ \A t \in F : ~IsPlus(t) => Capped(n, t.ver)
  BY <1>5, <1>8
<1> QED
  BY <1>2, <1>3, <1>4, <1>6, <1>7, <1>9

LEMMA TagsMeanAt ==
    ASSUME NEW tags \in SUBSET RawTags, IsFiniteSet(tags), NEW v \in Seq(Nat)
    PROVE  MeantAt(tags, v)
<1> DEFINE n == Len(v)
           since == {tag \in tags : IsPlus(tag)}
           until == tags \ since
           before(S, T) == \A s \in S, t \in T : Less(Fill(s, n).ver, Fill(t, n).ver)
           judged == Satisfied(tags, v)
           filled(S) == {Fill(tag, n) : tag \in S}
           F == filled(tags)
<1> SUFFICES ASSUME Meaningful(tags, v), Plain(tags, v)
             PROVE  CASE until = {} -> judged = OneSign(since, v)
                      [] since = {} -> judged = OneSign(until, v)
                      [] since # {} /\ until # {} ->
                         /\ before(since, until) =>
                                judged = (OneSign(since, v) /\ OneSign(until, v))
                         /\ before(until, since) =>
                                judged = (OneSign(since, v) \/ OneSign(until, v))
  BY DEF MeantAt
<1>1. n \in Nat /\ v \in Vers(n)
  BY LenProperties, SeqDef DEF Vers
<1>2. /\ n >= 1 /\ Small(v)
      /\ \A tag \in tags : /\ Len(tag.ver) \in 1 .. n /\ ~Overrun(tag, v)
                           /\ Len(tag.ver) < Keep(n) => tag.op # "-"
      /\ F \in SUBSET TagsOf(n) /\ OneEach(n, F) /\ Exact(n, F, v)
      /\ \A t \in F : ~IsPlus(t) => Capped(n, t.ver)
  BY <1>1, PlainTagsFilled
<1>3. IsFiniteSet(F)
  <2> DEFINE f == [tag \in tags |-> Fill(tag, n)]
  <2>1. f \in Surjection(tags, F)
    BY DEF Surjection
  <2> QED
    BY <2>1, FS_Surjection
<1>4. AsMeant(n, F, v, ClosestHold(Sorted(F \cup AuxTags(F)), v))
  <2> HIDE DEF n, F
  <2> QED
    BY <1>1, <1>2, <1>3, FilledMean
<1>5. judged <=> ClosestHold(Sorted(F \cup AuxTags(F)), v)
  <2>1. tags # {} /\ \A tag \in tags : tag.ver # <<>>
    BY DEF Meaningful
  <2> QED
    BY <2>1 DEF Satisfied
<1>6. \A tag \in tags : IsPlus(Fill(tag, n)) <=> IsPlus(tag)
  BY <1>1, FilledIs
<1>7. SinceIn(F) = filled(since) /\ UntilIn(F) = filled(until)
  BY <1>6 DEF SinceIn, UntilIn
<1>8. /\ OneSign(since, v) <=> Means(n, filled(since), v)
      /\ OneSign(until, v) <=> Means(n, filled(until), v)
  <2>1. since \in SUBSET RawTags /\ until \in SUBSET RawTags
        /\ since \subseteq tags /\ until \subseteq tags
    OBVIOUS
  <2> HIDE DEF n, since, until
  <2> QED
    BY <2>1, <1>1, <1>2, OneSignMeans
<1>9. \A S, T : before(S, T) <=> Precede(filled(S), filled(T))
  BY DEF Precede
<1>10. \A S : filled(S) = {} <=> S = {}
  OBVIOUS
<1>11. since # {} \/ until # {}
  BY DEF Meaningful
<1> HIDE DEF F, filled, before
<1>12. AsMeant(n, F, v, judged)
  BY <1>4, <1>5 DEF AsMeant
<1>13. /\ until = {} => (judged <=> OneSign(since, v))
       /\ since = {} => (judged <=> OneSign(until, v))
       /\ since # {} /\ until # {} =>
            /\ before(since, until) =>
                 (judged <=> OneSign(since, v) /\ OneSign(until, v))
            /\ before(until, since) =>
                 (judged <=> OneSign(since, v) \/ OneSign(until, v))
  <2> HIDE DEF judged, since, until, n
  <2> QED
    BY <1>7, <1>8, <1>9, <1>10, <1>11, <1>12 DEF AsMeant
<1>14. \A S, T : /\ (judged = OneSign(S, v)) <=> (judged <=> OneSign(S, v))
                 /\ (judged = (OneSign(S, v) /\ OneSign(T, v)))
                      <=> (judged <=> OneSign(S, v) /\ OneSign(T, v))
                 /\ (judged = (OneSign(S, v) \/ OneSign(T, v)))
                      <=> (judged <=> OneSign(S, v) \/ OneSign(T, v))
  BY DEF Satisfied, OneSign
<1> HIDE DEF judged, since, until
<1> QED
  BY <1>13, <1>14

-----------------------------------------------------------------------------
(* Every judgement is one of tags and of a version of the installed        *)
(* length, and behave judges a scenario once.                              *)

Sized == nm_version \in Vers(Numbers) /\ raised \in BOOLEAN

Once ==
    /\ runs \subseteq DOMAIN test /\ skips \subseteq DOMAIN test /\ runs \cap skips = {}
    /\ \A i, j \in DOMAIN queue : queue[i] = queue[j] => i = j
    /\ \A i \in DOMAIN queue : queue[i] \notin runs \cup skips

JInv == [build |-> build, distro |-> distro] \in Hosts /\ Sized /\ Once

LEMMA InstalledIsVersion ==
    ASSUME [build |-> build, distro |-> distro] \in Hosts
    PROVE  /\ Installed \in Vers(Numbers) /\ Numbers \in Nat
           /\ distro.version \in Seq(Nat) /\ distro.flavor \in {"rhel", "fedora"}
<1> DEFINE host == [build |-> build, distro |-> distro]
<1>1. host \in Hosts /\ host.build = build /\ host.distro = distro
  OBVIOUS
<1> HIDE DEF host
<1>2. /\ Installed \in Seq(Nat)
      /\ distro.version \in Seq(Nat) /\ distro.flavor \in {"rhel", "fedora"}
  BY <1>1, HostsAssumption DEF Installed
<1> QED
  BY <1>2, LenProperties, SeqDef DEF Numbers, Vers

LEMMA BumpedIsSized ==
    ASSUME NEW n \in Nat, NEW v \in Vers(n), NEW tags
    PROVE  Bump(v) \in Vers(n) /\ BumpOnMatch(tags, v) \in Vers(n)
<1>1. [v EXCEPT ![3] = @ + 1] \in Vers(n)
  <2>1. CASE 3 \in 1 .. n
    <3>1. v[3] + 1 \in Nat
      BY <2>1 DEF Vers
    <3> QED
      BY <3>1 DEF Vers
  <2>2. CASE 3 \notin 1 .. n
    BY <2>2 DEF Vers
  <2> QED
    BY <2>1, <2>2
<1> QED
  BY <1>1 DEF Bump, BumpOnMatch

LEMMA InitImpliesJInv == Init => JInv
<1> SUFFICES ASSUME Init PROVE JInv
  OBVIOUS
<1>1. [build |-> build, distro |-> distro] \in Hosts
  <2>1. PICK host \in Hosts : build = host.build /\ distro = host.distro
    BY DEF Init
  <2> QED
    BY <2>1, HostsAssumption
<1>2. nm_version \in Vers(Numbers)
  BY <1>1, InstalledIsVersion DEF Init, Installed
<1>3. Sized
  BY <1>2 DEF Init, Sized
<1>4. Once
  BY DEF Init, Once
<1> QED
  BY <1>1, <1>3, <1>4 DEF JInv

LEMMA NextKeepsJInv ==
    ASSUME IInv, JInv, [Next]_vars PROVE JInv'
<1>0. UNCHANGED <<build, distro, test>>
  BY DEF Next, vars, EnterSelect, RunUnasked, JudgeCandidate, Select,
         BeforeScenario, BehaveEnds
<1>1. /\ [build |-> build, distro |-> distro]' \in Hosts
      /\ Numbers' = Numbers /\ Installed' = Installed
  BY <1>0 DEF JInv, Numbers, Installed
<1>2. /\ Numbers \in Nat /\ nm_version \in Vers(Numbers) /\ Installed \in Vers(Numbers)
      /\ raised \in BOOLEAN /\ Once
      /\ \A tags : Bump(nm_version) \in Vers(Numbers)
                   /\ BumpOnMatch(tags, nm_version) \in Vers(Numbers)
  BY InstalledIsVersion, BumpedIsSized DEF JInv, Sized
<1>3. /\ phase \in {"start", "select"} => queue = <<>> /\ runs = {} /\ skips = {}
      /\ queue \in Seq(DOMAIN test)
  BY DEF IInv, Progress, Queued
<1> SUFFICES Sized' /\ Once'
  BY <1>1 DEF JInv
<1>4. CASE EnterSelect
  BY <1>0, <1>1, <1>2, <1>4 DEF EnterSelect, Sized, Once
<1>5. CASE RunUnasked
  <2>1. queue' = [i \in DOMAIN test |-> i] /\ UNCHANGED <<nm_version, raised, runs, skips>>
        /\ runs = {} /\ skips = {}
    BY <1>3, <1>5 DEF RunUnasked
  <2>2. Sized'
    BY <1>1, <1>2, <2>1 DEF Sized
  <2>3. Once'
    BY <2>1 DEF Once
  <2> QED
    BY <2>2, <2>3
<1>6. CASE JudgeCandidate
  <2>1. /\ nm_version' = BumpOnMatch(test[k + 1], nm_version)
        /\ raised' \in BOOLEAN /\ UNCHANGED <<queue, runs, skips>>
    BY <1>6 DEF JudgeCandidate
  <2> QED
    BY <2>1, <1>0, <1>1, <1>2 DEF Sized, Once
<1>7. CASE Select
  <2>1. /\ nm_version' = nm_version \/ nm_version' = Installed
        /\ queue' = queue \/ queue' = <<result>>
        /\ UNCHANGED <<raised, runs, skips>> /\ runs = {} /\ skips = {}
    BY <1>3, <1>7 DEF Select, Installed
  <2>2. \A i, j \in DOMAIN <<result>> : i = j
    OBVIOUS
  <2>3. Sized'
    BY <1>1, <1>2, <2>1 DEF Sized
  <2>4. Once'
    BY <1>2, <2>1, <2>2 DEF Once
  <2> QED
    BY <2>3, <2>4
<1>8. CASE BeforeScenario
  <2> DEFINE i == Head(queue)
  <2>1. /\ nm_version' = BumpOnMatch(test[i], nm_version)
        /\ queue # <<>> /\ queue' = Tail(queue) /\ UNCHANGED raised
        /\ \/ UNCHANGED <<runs, skips>>
           \/ runs' = runs \cup {i} /\ skips' = skips
           \/ skips' = skips \cup {i} /\ runs' = runs
    BY <1>8 DEF BeforeScenario
  <2>2. Sized'
    BY <2>1, <1>1, <1>2 DEF Sized
  <2>3. /\ i = queue[1] /\ 1 \in DOMAIN queue /\ i \in DOMAIN test
        /\ \A j \in DOMAIN Tail(queue) : /\ j + 1 \in DOMAIN queue /\ j + 1 # 1 /\ j \in Nat
                                         /\ Tail(queue)[j] = queue[j + 1]
    BY <1>3, <2>1
  <2> HIDE DEF i
  <2>4. i \notin runs \cup skips /\ \A j \in DOMAIN queue' : queue'[j] # i
    BY <1>2, <2>1, <2>3 DEF Once
  <2>5. \A j, l \in DOMAIN queue' : queue'[j] = queue'[l] => j = l
    <3> SUFFICES ASSUME NEW j \in DOMAIN queue', NEW l \in DOMAIN queue', queue'[j] = queue'[l]
                 PROVE  j = l
      OBVIOUS
    <3>1. queue[j + 1] = queue[l + 1] /\ j + 1 \in DOMAIN queue /\ l + 1 \in DOMAIN queue
      BY <2>1, <2>3
    <3>2. j + 1 = l + 1
      BY <3>1, <1>2 DEF Once
    <3> QED
      BY <3>2, <2>1, <2>3
  <2>6. \A j \in DOMAIN queue' : queue'[j] \notin runs \cup skips
    BY <1>2, <2>1, <2>3 DEF Once
  <2>7. Once'
    BY <1>0, <1>2, <2>1, <2>3, <2>4, <2>5, <2>6 DEF Once
  <2> QED
    BY <2>2, <2>7
<1>9. CASE BehaveEnds
  BY <1>0, <1>1, <1>2, <1>9 DEF BehaveEnds, Sized, Once
<1>10. CASE UNCHANGED vars
  BY <1>0, <1>1, <1>2, <1>10 DEF vars, Sized, Once
<1> QED
  BY <1>4, <1>5, <1>6, <1>7, <1>8, <1>9, <1>10 DEF Next

LEMMA InvImpliesTypeOK == IInv /\ JInv => TypeOK
<1> SUFFICES ASSUME IInv, JInv PROVE TypeOK
  OBVIOUS
<1>1. nm_version \in Seq(Nat) /\ Len(nm_version) = Len(Version(build))
  <2>1. nm_version \in Vers(Numbers) /\ Numbers \in Nat
    BY InstalledIsVersion DEF JInv, Sized
  <2>2. nm_version \in Seq(Nat) /\ Len(nm_version) = Numbers
    BY <2>1, SeqDef, LenProperties DEF Vers
  <2> QED
    BY <2>2 DEF Numbers, Installed
<1> QED
  BY <1>1 DEF TypeOK, IInv, JInv, Progress, Queued, Sized, Once

LEMMA InvImpliesTagsMean == IInv /\ JInv => TagsMean
<1> SUFFICES ASSUME IInv, JInv PROVE TagsMean
  OBVIOUS
<1>1. test \in Tests /\ distro.version \in Seq(Nat) /\ distro.flavor \in {"rhel", "fedora"}
  BY InstalledIsVersion DEF IInv, Progress, JInv
<1>2. ASSUME NEW i \in DOMAIN test
      PROVE  /\ MeantAt(VerTags(test[i]), nm_version)
             /\ MeantAt(DistroTags(test[i]), distro.version)
  <2>1. \A tags \in {test[i].ver, test[i].rhelver, test[i].fedoraver} :
          /\ IsFiniteSet(tags)
          /\ \A tag \in tags : tag.op \in Ops /\ tag.ver \in Seq(Nat)
    BY <1>1, TestsAssumption
  <2>2. VerTags(test[i]) \in SUBSET RawTags /\ IsFiniteSet(VerTags(test[i]))
    BY <2>1, StreamTagsAreTags DEF VerTags
  <2>3. nm_version \in Seq(Nat)
    BY InvImpliesTypeOK DEF TypeOK
  <2>4. DistroTags(test[i]) \in SUBSET RawTags /\ IsFiniteSet(DistroTags(test[i]))
    <3>1. \A tag \in test[i].rhelver \cup test[i].fedoraver : tag \in RawTags
      <4> TAKE tag \in test[i].rhelver \cup test[i].fedoraver
      <4>1. tag = [op |-> tag.op, ver |-> tag.ver]
        BY <1>1, TestsAssumption
      <4>2. tag.op \in Ops /\ tag.ver \in Seq(Nat)
        BY <2>1
      <4> QED
        BY <4>1, <4>2 DEF RawTags
    <3>2. DistroTags(test[i]) \in {test[i].rhelver, test[i].fedoraver}
      BY <1>1 DEF DistroTags
    <3> QED
      BY <2>1, <3>1, <3>2
  <2> QED
    BY <1>1, <2>2, <2>3, <2>4, TagsMeanAt
<1> SUFFICES ASSUME NEW i \in DOMAIN test,
                    NEW check \in {<<VerTags(test[i]), nm_version>>,
                                  <<DistroTags(test[i]), distro.version>>}
             PROVE  MeantAt(check[1], check[2])
  BY DEF TagsMean, MeantAt
<1>3. \/ check[1] = VerTags(test[i]) /\ check[2] = nm_version
      \/ check[1] = DistroTags(test[i]) /\ check[2] = distro.version
  OBVIOUS
<1> QED
  BY <1>2, <1>3

(* For every set of hosts and of tests: each set of tags that a judgement  *)
(* evaluates means what the notes of test_version_tag_eval say, at the     *)
(* version it is evaluated at.                                             *)
THEOREM TagsAreJudgedByMeaning == Spec => []JudgedByMeaning
<1>1. IInv /\ JInv /\ [Next]_vars => IInv' /\ JInv'
  BY NextKeepsIInv, NextKeepsJInv
<1>2. IInv /\ JInv => JudgedByMeaning
  BY InvImpliesTypeOK, InvImpliesTagsMean DEF JudgedByMeaning
<1> QED
  BY InitImpliesIInv, InitImpliesJInv, <1>1, <1>2, PTL DEF Spec

=============================================================================
