---------------------------- MODULE MapperProofs ----------------------------
(***************************************************************************)
(* For every mapper.yaml, every number of machines, every threshold and    *)
(* every table of measured times: the Mapper gives each test it takes to   *)
(* one machine, and the last machine only what fits on no other, and what  *)
(* it gives is what was asked for.                                         *)
(*                                                                         *)
(* The argument: the tests of a feature stay together.  Until the features *)
(* are given out the tables hold all tests of a feature that were taken or *)
(* none (Whole), then a machine holds all tests of a feature or none, and  *)
(* none of a feature that is still to be given (Placed).                   *)
(***************************************************************************)
EXTENDS Mapper, TLAPS, WellFoundedInduction, SequenceTheorems

TimingTables == UNION {[S -> Nat] : S \in SUBSET Features}

MapperNext ==
  \/ MapperStep \/ Forget
  \/ \E r \in Requests : \E diff : \E measured \in TimingTables, more \in Nat : Ask(r, diff, measured, more)

MapperSpec == MapperInit /\ [][MapperNext]_mapperVars

(* The types of what the loops compute with. *)
MapperTypeOK ==
  /\ timing \in TimingTables /\ extra \in Nat /\ pos \in Nat \ {0}
  /\ times \in [Features -> Nat] /\ tests \in [Features -> SUBSET Tests] /\ total \in Int
  /\ fresh \in SUBSET Features /\ unmatched \in SUBSET Features /\ todo \in SUBSET Features
  /\ mTime \in [1 .. Machines -> Nat] /\ mTests \in [1 .. Machines -> SUBSET Tests]

Taken(i) == Feature(i) \in Features /\ i \in tests[Feature(i)]

Home == \A f \in Features : \A i \in tests[f] : Feature(i) = f /\ Selected(i)

Whole ==
  /\ stage = "collect" => \A i \in Tests : i < pos /\ Selected(i) => Taken(i)
  /\ stage \in {"cover", "spread", "done"} =>
       \A i \in Tests : Selected(i) =>
         Taken(i) \/ (ask.kind = "covering" /\ tests[Feature(i)] = {})
  /\ stage = "cover" => ask.kind = "covering"
  /\ stage \in {"collect", "cover"} => mTests = Nothing

Placed ==
  stage \in {"spread", "done"} =>
    /\ \A f \in Features : f \in todo \/ \E m \in 1 .. Machines : tests[f] \subseteq mTests[m]
    /\ \A m \in 1 .. Machines : \A i \in mTests[m] : Taken(i) /\ Feature(i) \notin todo
    /\ \A m, n \in 1 .. Machines : m # n => mTests[m] \cap mTests[n] = {}
    /\ stage = "done" => todo = {}

Heavy ==
  stage \in {"spread", "done"} =>
    \A f \in Features, m \in 1 .. Machines - 1 :
      tests[f] # {} /\ tests[f] \subseteq mTests[Machines] =>
        Machines * (mTime[m] + times[f]) >= total

IInv == MapperTypeOK /\ Home /\ Whole /\ Placed /\ Heavy

USE DEF Tests

LEMMA MachinesNat == Machines \in Nat /\ Machines > 0
BY MapperAssumption DEF MapperAssumption

USE MachinesNat

LEMMA Element == ASSUME NEW S, NEW s \in Seq(S), NEW i \in 1 .. Len(s) PROVE s[i] \in S
OBVIOUS

LEMMA EntryTypes ==
  ASSUME NEW i \in Tests
  PROVE  Feature(i) \in Features /\ Entries[i].timeout \in Nat
<1>1. Entries \in Seq([name : STRING, feature : Features, timeout : Nat])
  BY MapperAssumption DEF MapperAssumption
<1>2. Entries[i] \in [name : STRING, feature : Features, timeout : Nat]
  BY <1>1, Element
<1> QED
  BY <1>2 DEF Feature

LEMMA TimeIsNat ==
  ASSUME MapperTypeOK, NEW i \in Tests
  PROVE  TimeOf(i) \in Nat
<1>1. PICK S \in SUBSET Features : timing \in [S -> Nat]
  BY DEF MapperTypeOK, TimingTables
<1>2. Feature(i) \in DOMAIN timing => timing[Feature(i)] \in Nat
  BY <1>1
<1> QED
  <2>1. Entries[i].timeout \in Nat /\ extra \in Nat
    BY EntryTypes DEF MapperTypeOK
  <2> QED
    BY <1>2, <2>1 DEF TimeOf

LEMMA EmptyTable ==
  /\ <<>> \in TimingTables
  /\ Nothing \in [1 .. Machines -> SUBSET Tests]
<1>1. <<>> = [x \in {} |-> 0] /\ [x \in {} |-> 0] \in [{} -> Nat]
  OBVIOUS
<1> QED
  BY <1>1 DEF TimingTables, Nothing

LEMMA InitInv == MapperInit => IInv
<1> SUFFICES ASSUME MapperInit PROVE IInv
  OBVIOUS
<1>1. MapperTypeOK
  BY EmptyTable DEF MapperInit, MapperTypeOK
<1>2. Home /\ Whole /\ Placed /\ Heavy
  BY DEF MapperInit, Home, Whole, Placed, Heavy
<1> QED
  BY <1>1, <1>2 DEF IInv

(* Whatever begins anew keeps the invariant. *)
LEMMA ClearedInv ==
  ASSUME Cleared, stage' \in {"idle", "crashed", "collect"}, timing' \in TimingTables, extra' \in Nat
  PROVE  IInv'
<1>1. MapperTypeOK'
  BY EmptyTable DEF Cleared, MapperTypeOK
<1>2. Home'
  BY DEF Cleared, Home
<1>3. Whole'
  BY DEF Cleared, Whole
<1>4. Placed' /\ Heavy'
  BY DEF Placed, Heavy
<1> QED
  BY <1>1, <1>2, <1>3, <1>4 DEF IInv

(* Selected and what the tables hold do not change while they are not      *)
(* written.                                                                *)
LEMMA SameRequest ==
  ASSUME UNCHANGED ask, NEW i \in Tests
  PROVE  Selected(i)' <=> Selected(i)
BY DEF Selected

LEMMA CollectInv == ASSUME IInv, Collect PROVE IInv'
<1>0. MapperTypeOK /\ Home /\ Whole /\ Placed /\ Heavy /\ pos \in Tests /\ stage = "collect"
  BY DEF IInv, Collect
<1>1. TimeOf(pos) \in Nat /\ Feature(pos) \in Features
  BY <1>0, TimeIsNat, EntryTypes
<1>2. /\ tests' \in [Features -> SUBSET Tests]
      /\ \A f \in Features : tests'[f] = IF Selected(pos) /\ f = Feature(pos)
                                         THEN tests[f] \cup {pos} ELSE tests[f]
  <2>1. tests \in [Features -> SUBSET Tests]
    BY <1>0 DEF MapperTypeOK
  <2>2. CASE Selected(pos)
    <3>1. tests' = [tests EXCEPT ![Feature(pos)] = @ \cup {pos}]
      BY <2>2 DEF Collect
    <3> QED
      BY <1>0, <1>1, <2>1, <2>2, <3>1
  <2>3. CASE ~ Selected(pos)
    <3>1. tests' = tests
      BY <2>3 DEF Collect, table
    <3> QED
      BY <2>1, <2>3, <3>1
  <2> QED
    BY <2>2, <2>3
<1>3. MapperTypeOK'
  <2>1. times' \in [Features -> Nat] /\ total' \in Int
    BY <1>0, <1>1, SMTT(30) DEF Collect, table, MapperTypeOK
  <2> QED
    BY <1>0, <1>2, <2>1 DEF Collect, asked, covering, spread, MapperTypeOK
<1>4. Home'
  <2> SUFFICES ASSUME NEW f \in Features, NEW i \in tests'[f] PROVE Feature(i) = f /\ Selected(i)'
    BY DEF Home, Feature
  <2>1. i \in Tests /\ (Selected(i)' <=> Selected(i))
    BY <1>2, SameRequest DEF Collect, asked
  <2> QED
    BY <1>0, <1>2, <2>1 DEF Home
<1>5. Whole'
  <2> SUFFICES ASSUME NEW i \in Tests, i < pos', Selected(i)' PROVE Taken(i)'
    BY <1>0 DEF Collect, Whole, spread
  <2>1. Selected(i) /\ Feature(i) \in Features
    BY SameRequest, EntryTypes DEF Collect, asked
  <2>2. i < pos \/ i = pos
    BY <1>0 DEF Collect, MapperTypeOK
  <2> QED
    BY <1>0, <1>2, <2>1, <2>2 DEF Whole, Taken, Feature
<1>6. Placed' /\ Heavy'
  BY <1>0 DEF Collect, Placed, Heavy
<1> QED
  BY <1>3, <1>4, <1>5, <1>6 DEF IInv

LEMMA CollectedInv == ASSUME IInv, Collected PROVE IInv'
<1>0. MapperTypeOK /\ Home /\ Whole /\ Placed /\ Heavy /\ pos \notin Tests /\ stage = "collect"
  BY DEF IInv, Collected
<1>1. stage' \in {"cover", "spread"} /\ UNCHANGED <<asked, table, mTime, mTests>>
  BY DEF Collected
<1>2. MapperTypeOK'
  BY <1>0, <1>1 DEF Collected, Keys, asked, table, MapperTypeOK
<1>3. Home'
  BY <1>0, <1>1 DEF Home, asked, table, Selected, Feature
<1>4. Whole'
  <2>1. \A i \in Tests : Selected(i) => Taken(i)
    BY <1>0 DEF Whole, MapperTypeOK
  <2>2. \A i \in Tests : Selected(i)' => Taken(i)'
    BY <1>1, <2>1 DEF asked, table, Selected, Taken, Feature
  <2>3. mTests' = Nothing /\ (stage' = "cover" => ask'.kind = "covering")
    BY <1>0, <1>1 DEF Whole, Collected, asked
  <2> QED
    BY <1>1, <2>2, <2>3 DEF Whole
<1>5. mTests' = Nothing /\ 1 \in 1 .. Machines
  BY <1>0, <1>1 DEF Whole
<1>6. Placed' /\ Heavy'
  <2> SUFFICES ASSUME stage' = "spread" PROVE Placed' /\ Heavy'
    BY <1>1 DEF Placed, Heavy
  <2>1. todo' = {f \in Features : tests'[f] # {}}
    BY <1>0, <1>1 DEF Collected, Keys, table
  <2>2. Placed'
    BY <1>5, <2>1 DEF Placed, Nothing
  <2>3. Heavy'
    BY <1>5 DEF Heavy, Nothing
  <2> QED
    BY <2>2, <2>3
<1> QED
  BY <1>2, <1>3, <1>4, <1>6 DEF IInv

LEMMA CoverInv == ASSUME IInv, CoverTest \/ CoverFeature PROVE IInv'
<1>0. MapperTypeOK /\ Home /\ Whole /\ Placed /\ Heavy /\ stage = "cover"
  BY DEF IInv, CoverTest, CoverFeature
<1>1. UNCHANGED <<stage, asked, table, spread>>
  BY DEF CoverTest, CoverFeature
<1>2. MapperTypeOK'
  BY <1>0, <1>1, SMTT(30) DEF CoverTest, CoverFeature, MapperTypeOK, asked, table, spread
<1>3. Home'
  BY <1>0, <1>1 DEF Home, asked, table, Selected, Feature
<1>4. Whole'
  BY <1>0, <1>1 DEF Whole, Taken, asked, table, spread, Selected, Feature
<1>5. Placed' /\ Heavy'
  BY <1>0, <1>1 DEF Placed, Heavy
<1> QED
  BY <1>2, <1>3, <1>4, <1>5 DEF IInv

LEMMA DropInv == ASSUME IInv, Drop PROVE IInv'
<1>0. MapperTypeOK /\ Home /\ Whole /\ Placed /\ Heavy /\ stage = "cover"
  BY DEF IInv, Drop
<1>1. UNCHANGED <<asked, pos, fresh, mTime, mTests>>
  BY DEF Drop
<1>2. CASE unmatched = {}
  <2>1. stage' = "spread" /\ todo' = Keys /\ UNCHANGED <<table, unmatched>>
    BY <1>2 DEF Drop
  <2>2. MapperTypeOK'
    BY <1>0, <1>1, <2>1 DEF MapperTypeOK, Keys, asked, table
  <2>3. Home'
    BY <1>0, <1>1, <2>1 DEF Home, asked, table, Selected, Feature
  <2>4. Whole'
    BY <1>0, <1>1, <2>1 DEF Whole, Taken, asked, table, Selected, Feature
  <2>5. mTests' = Nothing /\ 1 \in 1 .. Machines
    BY <1>0, <1>1 DEF Whole
  <2>6. todo' = {f \in Features : tests'[f] # {}}
    BY <2>1 DEF Keys, table
  <2>7. Placed'
    BY <2>1, <2>5, <2>6 DEF Placed, Nothing
  <2>8. Heavy'
    BY <2>5 DEF Heavy, Nothing
  <2> QED
    BY <2>2, <2>3, <2>4, <2>7, <2>8 DEF IInv
<1>3. CASE unmatched # {}
  <2>1. PICK f \in unmatched :
          /\ unmatched' = unmatched \ {f}
          /\ total' = total - times[f]
          /\ times' = [times EXCEPT ![f] = 0] /\ tests' = [tests EXCEPT ![f] = {}]
          /\ UNCHANGED <<stage, todo>>
    BY <1>3 DEF Drop
  <2>2. /\ f \in Features /\ tests' \in [Features -> SUBSET Tests]
        /\ \A g \in Features : tests'[g] = IF g = f THEN {} ELSE tests[g]
    BY <1>0, <2>1 DEF MapperTypeOK
  <2>3. MapperTypeOK'
    BY <1>0, <1>1, <2>1, <2>2 DEF MapperTypeOK, asked
  <2>4. Home'
    BY <1>0, <1>1, <2>2 DEF Home, asked, Selected, Feature
  <2>5. Whole'
    <3> SUFFICES ASSUME NEW i \in Tests, Selected(i)'
                 PROVE  Taken(i)' \/ (ask'.kind = "covering" /\ tests'[Feature(i)] = {})
      BY <1>0, <1>1, <2>1 DEF Whole, asked, Feature
    <3>1. Taken(i) \/ (ask.kind = "covering" /\ tests[Feature(i)] = {})
      BY <1>0, <1>1, SameRequest DEF Whole, asked
    <3>2. ask'.kind = "covering" /\ Feature(i) \in Features
      BY <1>0, <1>1, EntryTypes DEF Whole, asked
    <3> QED
      BY <2>2, <3>1, <3>2 DEF Taken, Feature
  <2>6. Placed' /\ Heavy'
    BY <1>0, <2>1 DEF Placed, Heavy
  <2> QED
    BY <2>3, <2>4, <2>5, <2>6 DEF IInv
<1> QED
  BY <1>2, <1>3

LEMMA Longer ==
  ASSUME NEW a \in Nat, NEW b \in Nat, a <= b
  PROVE  Machines * a <= Machines * b
OBVIOUS

LEMMA GiveInv == ASSUME IInv, Give PROVE IInv'
<1>0. MapperTypeOK /\ Home /\ Whole /\ Placed /\ Heavy /\ stage = "spread"
  BY DEF IInv, Give
<1>1. PICK f \in todo, m \in 1 .. Machines :
        Fits(f, m) /\ (\A n \in 1 .. m - 1 : ~Fits(f, n)) /\ Gives(f, m)
  BY DEF Give
<1>2. UNCHANGED <<stage, asked, pos, table, covering>> /\ todo' = todo \ {f} /\ f \in Features
  BY <1>0, <1>1 DEF Gives, MapperTypeOK
<1>3. /\ mTests' \in [1 .. Machines -> SUBSET Tests]
      /\ \A n \in 1 .. Machines : mTests'[n] = IF n = m THEN mTests[n] \cup tests[f] ELSE mTests[n]
  BY <1>0, <1>1, <1>2 DEF Gives, MapperTypeOK
<1>4. /\ mTime' \in [1 .. Machines -> Nat]
      /\ \A n \in 1 .. Machines : mTime'[n] = IF n = m THEN mTime[n] + times[f] ELSE mTime[n]
  BY <1>0, <1>1, <1>2 DEF Gives, MapperTypeOK
<1>5. MapperTypeOK'
  BY <1>0, <1>2, <1>3, <1>4 DEF MapperTypeOK, asked, table, covering
<1>6. Home'
  BY <1>0, <1>2 DEF Home, asked, table, Selected, Feature
<1>7. Whole'
  BY <1>0, <1>2 DEF Whole, Taken, asked, table, Selected, Feature
<1>8. \A i \in tests[f] : Feature(i) = f /\ Taken(i)
  BY <1>0, <1>2 DEF Home, Taken
<1>9. Placed'
  <2>1. \A g \in Features : g \in todo' \/ \E n \in 1 .. Machines : tests'[g] \subseteq mTests'[n]
    <3> SUFFICES ASSUME NEW g \in Features, g \notin todo'
                 PROVE  \E n \in 1 .. Machines : tests[g] \subseteq mTests'[n]
      BY <1>2 DEF table
    <3>1. CASE g = f
      BY <1>3, <3>1
    <3>2. CASE g # f
      BY <1>0, <1>2, <1>3, <3>2 DEF Placed
    <3> QED
      BY <3>1, <3>2
  <2>2. \A n \in 1 .. Machines : \A i \in mTests'[n] : Taken(i)' /\ Feature(i) \notin todo'
    <3> SUFFICES ASSUME NEW n \in 1 .. Machines, NEW i \in mTests'[n]
                 PROVE  Taken(i) /\ Feature(i) \notin todo'
      BY <1>2 DEF Taken, table, Feature
    <3>1. i \in mTests[n] \/ i \in tests[f]
      BY <1>3
    <3> QED
      BY <1>0, <1>2, <1>8, <3>1 DEF Placed
  <2>3. ASSUME NEW n \in 1 .. Machines, NEW k \in 1 .. Machines, n # k PROVE mTests'[n] \cap mTests'[k] = {}
    <3> SUFFICES ASSUME NEW i \in mTests'[n], i \in mTests'[k] PROVE FALSE
      BY <2>3
    <3>1. i \in mTests[n] => i \notin mTests[k]
      BY <1>0, <2>3 DEF Placed
    <3>2. i \in mTests[n] \/ i \in mTests[k] => i \notin tests[f]
      BY <1>0, <1>1, <1>8 DEF Placed
    <3> QED
      BY <1>3, <2>3, <3>1, <3>2
  <2> QED
    BY <1>0, <1>2, <2>1, <2>2, <2>3 DEF Placed, Feature
<1>10. Heavy'
  <2> SUFFICES ASSUME NEW g \in Features, NEW n \in 1 .. Machines - 1,
                      tests[g] # {}, tests[g] \subseteq mTests'[Machines]
               PROVE  Machines * (mTime'[n] + times[g]) >= total
    BY <1>2 DEF Heavy, table
  <2>1. /\ n \in 1 .. Machines /\ Machines \in 1 .. Machines /\ n # Machines
        /\ mTime[n] \in Nat /\ mTime'[n] \in Nat /\ times[g] \in Nat /\ times[f] \in Nat /\ total \in Int
        /\ mTime[n] <= mTime'[n]
    BY <1>0, <1>2, <1>4, SMTT(30) DEF MapperTypeOK
  <2>2. PICK i \in tests[g] : TRUE
    OBVIOUS
  <2>3. CASE g = f
    <3>1. m = Machines
      <4> SUFFICES ASSUME m # Machines PROVE FALSE
        OBVIOUS
      <4>1. i \in mTests[Machines]
        BY <1>3, <2>1, <2>2
      <4> QED
        BY <1>0, <1>1, <1>8, <2>1, <2>2, <2>3, <4>1 DEF Placed
    <3>2. ~ (Machines * (mTime[n] + times[f]) < total)
      BY <1>1, <3>1 DEF Fits
    <3> QED
      BY <1>4, <2>1, <2>3, <3>1, <3>2
  <2>4. CASE g # f
    <3>1. tests[g] \subseteq mTests[Machines]
      <4> SUFFICES ASSUME NEW j \in tests[g] PROVE j \in mTests[Machines]
        OBVIOUS
      <4>1. j \notin tests[f]
        BY <1>0, <1>8, <2>4 DEF Home
      <4> QED
        BY <1>3, <2>1, <4>1
    <3>2. Machines * (mTime[n] + times[g]) >= total
      BY <1>0, <3>1 DEF Heavy
    <3>3. Machines * (mTime[n] + times[g]) <= Machines * (mTime'[n] + times[g])
      BY <2>1, Longer
    <3> QED
      BY <2>1, <3>2, <3>3
  <2> QED
    BY <2>3, <2>4
<1> QED
  BY <1>5, <1>6, <1>7, <1>9, <1>10 DEF IInv

LEMMA GivenInv == ASSUME IInv, Given PROVE IInv'
<1>0. MapperTypeOK /\ Home /\ Whole /\ Placed /\ Heavy /\ stage = "spread" /\ stage' = "done" /\ todo = {}
  BY DEF IInv, Given
<1>1. UNCHANGED <<asked, pos, table, covering, spread>>
  BY DEF Given
<1>2. MapperTypeOK'
  BY <1>0, <1>1 DEF MapperTypeOK, asked, table, covering, spread
<1>3. Home'
  BY <1>0, <1>1 DEF Home, asked, table, Selected, Feature
<1>4. Whole'
  BY <1>0, <1>1 DEF Whole, Taken, asked, table, Selected, Feature
<1>5. Placed'
  BY <1>0, <1>1 DEF Placed, Taken, table, spread, Feature
<1>6. Heavy'
  BY <1>0, <1>1 DEF Heavy, table, spread
<1> QED
  BY <1>2, <1>3, <1>4, <1>5, <1>6 DEF IInv

LEMMA StutterInv == ASSUME IInv, UNCHANGED mapperVars PROVE IInv'
<1>0. MapperTypeOK /\ Home /\ Whole /\ Placed /\ Heavy
  BY DEF IInv
<1>1. UNCHANGED <<stage, asked, pos, table, covering, spread>>
  BY DEF mapperVars
<1>2. MapperTypeOK'
  BY <1>0, <1>1 DEF MapperTypeOK, asked, table, covering, spread
<1>3. Home'
  BY <1>0, <1>1 DEF Home, asked, table, Selected, Feature
<1>4. Whole'
  BY <1>0, <1>1 DEF Whole, Taken, asked, table, spread, Selected, Feature
<1>5. Placed'
  BY <1>0, <1>1 DEF Placed, Taken, table, spread, Feature
<1>6. Heavy'
  BY <1>0, <1>1 DEF Heavy, table, spread
<1> QED
  BY <1>2, <1>3, <1>4, <1>5, <1>6 DEF IInv

LEMMA NextInv == IInv /\ [MapperNext]_mapperVars => IInv'
<1> SUFFICES ASSUME IInv, [MapperNext]_mapperVars PROVE IInv'
  OBVIOUS
<1>1. CASE Forget
  BY <1>1, ClearedInv, EmptyTable DEF Forget
<1>2. ASSUME NEW r \in Requests, NEW diff, NEW measured \in TimingTables, NEW more \in Nat,
             Ask(r, diff, measured, more)
      PROVE  IInv'
  <2>1. Cleared /\ stage' \in {"crashed", "collect"} /\ timing' = measured /\ extra' = more
    BY <1>2 DEF Ask
  <2> QED
    BY <2>1, ClearedInv
<1>3. CASE MapperStep
  BY <1>3, CollectInv, CollectedInv, CoverInv, DropInv, GiveInv, GivenInv DEF MapperStep
<1>4. CASE UNCHANGED mapperVars
  BY <1>4, StutterInv
<1> QED
  BY <1>1, <1>2, <1>3, <1>4 DEF MapperNext

-----------------------------------------------------------------------------
(* Induction: a nonempty set of numbers has a least element, and so a      *)
(* function whose value for a set of positions is computed from the value  *)
(* without the last of them exists.  The folds of the model are such       *)
(* functions.                                                              *)

LEMMA LeastOf ==
  ASSUME NEW T \in SUBSET Nat, T # {}
  PROVE  \E x \in T : \A y \in T : x <= y
<1>1. PICK x \in T : \A y \in T : ~ (<<y, x>> \in OpToRel(<, Nat))
  BY WFMin, NatLessThanWellFounded
<1>2. \A y \in T : ~ (y < x)
  BY <1>1 DEF OpToRel
<1> QED
  BY <1>2

Largest(S) == CHOOSE x \in S : \A y \in S : x >= y

LEMMA LargestOf ==
  ASSUME NEW n \in Nat, NEW S \in SUBSET (1 .. n), S # {}
  PROVE  Largest(S) \in S /\ \A y \in S : Largest(S) >= y
<1> DEFINE D == {n - y : y \in S}
<1>0. \A y \in S : n - y \in Nat
  OBVIOUS
<1>1. D \in SUBSET Nat /\ D # {}
  BY <1>0
<1>2. PICK d \in D : \A y \in D : d <= y
  BY <1>1, LeastOf
<1>3. PICK x \in S : d = n - x
  BY <1>2
<1>4. \A y \in S : x >= y
  <2> TAKE y \in S
  <2>1. n - x <= n - y
    BY <1>2, <1>3
  <2> QED
    BY <2>1
<1> QED
  BY <1>4 DEF Largest

LEMMA LargestIs ==
  ASSUME NEW n \in Nat, NEW S \in SUBSET (1 .. n), NEW m \in S, \A y \in S : m >= y
  PROVE  Largest(S) = m
<1>1. Largest(S) \in S /\ Largest(S) >= m /\ m >= Largest(S)
  BY LargestOf
<1>2. Largest(S) \in 1 .. n /\ m \in 1 .. n
  BY <1>1
<1> QED
  BY <1>1, <1>2

Computes(it, n, base, st) ==
  \A s \in SUBSET (1 .. n) :
    it[s] = IF s = {} THEN base ELSE st[<<it[s \ {Largest(s)}], Largest(s)>>]

LEMMA FoldIsDefined ==
  ASSUME NEW n \in Nat, NEW A, NEW base \in A, NEW st \in [A \X (1 .. n) -> A]
  PROVE  \E it \in [SUBSET (1 .. n) -> A] : Computes(it, n, base, st)
<1> DEFINE Good(m) == \E it \in [SUBSET (1 .. m) -> A] : Computes(it, m, base, st)
           T == {m \in 0 .. n : ~ Good(m)}
<1>1. Good(0)
  <2> DEFINE it == [s \in SUBSET (1 .. 0) |-> base]
  <2>1. it \in [SUBSET (1 .. 0) -> A]
    OBVIOUS
  <2>2. \A s \in SUBSET (1 .. 0) : s = {}
    OBVIOUS
  <2>3. Computes(it, 0, base, st)
    BY <2>2 DEF Computes
  <2> QED
    BY <2>1, <2>3
<1>2. ASSUME NEW m \in 1 .. n, Good(m - 1) PROVE Good(m)
  <2>1. PICK it \in [SUBSET (1 .. m - 1) -> A] : Computes(it, m - 1, base, st)
    BY <1>2
  <2> DEFINE up == [s \in SUBSET (1 .. m) |-> IF m \in s THEN st[<<it[s \ {m}], m>>] ELSE it[s]]
  <2>2. \A s \in SUBSET (1 .. m) : s \ {m} \in SUBSET (1 .. m - 1) /\ (m \notin s => s \in SUBSET (1 .. m - 1))
    OBVIOUS
  <2>3. up \in [SUBSET (1 .. m) -> A]
    BY <2>2
  <2>4. ASSUME NEW s \in SUBSET (1 .. m)
        PROVE  up[s] = IF s = {} THEN base ELSE st[<<up[s \ {Largest(s)}], Largest(s)>>]
    <3>1. CASE m \in s
      <4>0. m \in Nat /\ \A y \in s : m >= y
        OBVIOUS
      <4>1. Largest(s) = m
        BY <3>1, <4>0, LargestIs
      <4>2. up[s \ {m}] = it[s \ {m}]
        BY <2>2
      <4> QED
        BY <3>1, <4>1, <4>2
    <3>2. CASE m \notin s
      <4>1. s \in SUBSET (1 .. m - 1) /\ up[s] = it[s]
        BY <2>2, <3>2
      <4>2. it[s] = IF s = {} THEN base ELSE st[<<it[s \ {Largest(s)}], Largest(s)>>]
        BY <2>1, <4>1 DEF Computes
      <4>3. up[s \ {Largest(s)}] = it[s \ {Largest(s)}]
        BY <3>2
      <4> QED
        BY <4>1, <4>2, <4>3
    <3> QED
      BY <3>1, <3>2
  <2>5. Computes(up, m, base, st)
    BY <2>4 DEF Computes
  <2> QED
    BY <2>3, <2>5
<1>3. T = {}
  <2> SUFFICES ASSUME T # {} PROVE FALSE
    OBVIOUS
  <2>0. T \in SUBSET Nat
    OBVIOUS
  <2> HIDE DEF T
  <2>1. PICK m \in T : \A k \in T : m <= k
    BY <2>0, LeastOf
  <2> USE DEF T
  <2> HIDE DEF Good
  <2>2. m # 0
    BY <1>1, <2>1
  <2>3. m \in 1 .. n /\ m - 1 \in 0 .. n /\ m - 1 \notin T
    BY <2>1, <2>2
  <2> QED
    BY <1>2, <2>1, <2>3
<1> HIDE DEF Good
<1>4. Good(n)
  BY <1>3
<1> QED
  BY <1>4 DEF Good

(* Such a function goes over the first positions one by one.               *)
LEMMA LastOfFirst ==
  ASSUME NEW n \in Nat, NEW k \in 1 .. n
  PROVE  /\ 1 .. k \in SUBSET (1 .. n) /\ 1 .. k # {}
         /\ Largest(1 .. k) = k /\ (1 .. k) \ {Largest(1 .. k)} = 1 .. k - 1
<1>1. 1 .. k \in SUBSET (1 .. n) /\ k \in 1 .. k /\ (1 .. k) \ {k} = 1 .. k - 1
  OBVIOUS
<1>2. \A y \in 1 .. k : k >= y
  OBVIOUS
<1>3. Largest(1 .. k) = k
  BY <1>1, <1>2, LargestIs
<1> QED
  BY <1>1, <1>3

LEMMA FoldGoesOn ==
  ASSUME NEW n \in Nat, NEW base, NEW st, NEW it, Computes(it, n, base, st)
  PROVE  /\ it[1 .. 0] = base
         /\ \A k \in 1 .. n : it[1 .. k] = st[<<it[1 .. k - 1], k>>]
<1>1. 1 .. 0 = {}
  OBVIOUS
<1> QED
  BY <1>1, LastOfFirst DEF Computes

(* Induction over the numbers up to n. *)
LEMMA Upwards ==
  ASSUME NEW n \in Nat, NEW G, 0 \in G, \A m \in 1 .. n : m - 1 \in G => m \in G
  PROVE  0 .. n \subseteq G
<1> DEFINE T == (0 .. n) \ G
<1> SUFFICES ASSUME T # {} PROVE FALSE
  OBVIOUS
<1>1. T \in SUBSET Nat
  OBVIOUS
<1>2. PICK m \in T : \A k \in T : m <= k
  <2> HIDE DEF T
  <2> QED
    BY <1>1, LeastOf
<1>3. m \in 1 .. n /\ m - 1 \in 0 .. n
  BY <1>2
<1>4. m - 1 \notin T
  BY <1>1, <1>2, <1>3
<1> QED
  BY <1>2, <1>3, <1>4

THEOREM MapperInvariant == MapperSpec => []IInv
BY InitInv, NextInv, PTL DEF MapperSpec

-----------------------------------------------------------------------------
(* "covering:" keeps the features that have one of the tests.  The loop    *)
(* removes the tests it finds from the list it runs over and so passes     *)
(* over the next one.  That does no harm: the test it found is of the      *)
(* feature it looks at, which is matched by then, and a test belongs to    *)
(* one feature only.                                                       *)

HasOneOf(f, names) == \E j \in Tests : Feature(j) = f /\ Entries[j].name \in Elements(names)

Searching ==
  /\ cover \in Seq(STRING)
  /\ Elements(cover) \subseteq Elements(ask.names)
  /\ \A i \in Tests :
       Feature(i) \in unmatched /\ Entries[i].name \in Elements(ask.names) =>
         Entries[i].name \in Elements(cover)
  /\ fresh \subseteq Keys /\ unmatched \subseteq Keys
  /\ \A f \in fresh \ unmatched : HasOneOf(f, ask.names)
  /\ \A f \in Keys \ fresh : f \in unmatched <=> ~ HasOneOf(f, ask.names)
  /\ fresh # {} /\ Next1 \in unmatched =>
       \A k \in 1 .. pos - 1 : k \in DOMAIN cover =>
         \A i \in tests[Next1] : Entries[i].name # cover[k]

Covered ==
  ask.kind = "covering" =>
    /\ stage = "collect" => cover = ask.names /\ cover \in Seq(STRING)
    /\ stage = "cover" => Searching
    /\ stage \in {"cover", "spread", "done"} =>
         \A f \in Features \ Excluded : HasOneOf(f, ask.names) => tests[f] # {}
    /\ stage \in {"spread", "done"} =>
         \A f \in Features : tests[f] # {} => HasOneOf(f, ask.names)

(* Taking out the first place of an element that is there.                 *)
LEMMA RemovedFirst ==
  ASSUME NEW s \in Seq(STRING), NEW p \in 1 .. Len(s)
  PROVE  /\ RemoveFirst(s, s[p]) \in Seq(STRING)
         /\ Elements(RemoveFirst(s, s[p])) \subseteq Elements(s)
         /\ \A n \in Elements(s) : n # s[p] => n \in Elements(RemoveFirst(s, s[p]))
<1> DEFINE e == s[p]
           T == {i \in DOMAIN s : s[i] = e}
           k == CHOOSE i \in DOMAIN s : s[i] = e /\ \A j \in 1 .. i - 1 : s[j] # e
           a == SubSeq(s, 1, k - 1)
           b == SubSeq(s, k + 1, Len(s))
<1>1. DOMAIN s = 1 .. Len(s) /\ Len(s) \in Nat /\ \A i \in 1 .. Len(s) : s[i] \in STRING
  BY ElementOfSeq, LenProperties
<1>2. T \in SUBSET Nat /\ T # {}
  BY <1>1
<1>3. PICK x \in T : \A y \in T : x <= y
  BY <1>2, LeastOf
<1>4. x \in DOMAIN s /\ s[x] = e /\ \A j \in 1 .. x - 1 : s[j] # e
  BY <1>1, <1>3
<1>5. k \in 1 .. Len(s) /\ s[k] = e
  BY <1>1, <1>4
<1> HIDE DEF T, k, e
<1>6. /\ a \in Seq(STRING) /\ Len(a) = k - 1
      /\ \A i \in 1 .. k - 1 : a[i] = s[i]
  BY <1>1, <1>5, SubSeqProperties, k - 1 \in Int
<1>7. /\ b \in Seq(STRING) /\ Len(b) = Len(s) - k
      /\ \A i \in 1 .. Len(s) - k : b[i] = s[i + k]
  <2>1. k + 1 \in Int /\ Len(s) \in Int /\ \A i \in k + 1 .. Len(s) : s[i] \in STRING
    BY <1>1, <1>5
  <2>2. /\ b \in Seq(STRING)
        /\ Len(b) = IF k + 1 <= Len(s) THEN Len(s) - (k + 1) + 1 ELSE 0
        /\ \A i \in 1 .. Len(s) - (k + 1) + 1 : b[i] = s[(k + 1) + i - 1]
    BY <2>1, SubSeqProperties
  <2> HIDE DEF b
  <2>3. Len(b) = Len(s) - k
    <3>0. k \in Int /\ Len(s) \in Int /\ k <= Len(s)
      BY <1>1, <1>5
    <3>1. (IF k + 1 <= Len(s) THEN Len(s) - (k + 1) + 1 ELSE 0) = Len(s) - k
      <4>1. ASSUME NEW p1 \in Int, NEW p2 \in Int, p1 <= p2
            PROVE  (IF p1 + 1 <= p2 THEN p2 - (p1 + 1) + 1 ELSE 0) = p2 - p1
        BY ONLY <4>1
      <4> QED
        BY <3>0, <4>1
    <3> QED
      BY <2>2, <3>1
  <2>4. ASSUME NEW i \in 1 .. Len(s) - k PROVE b[i] = s[i + k]
    <3>1. i \in 1 .. Len(s) - (k + 1) + 1 /\ (k + 1) + i - 1 = i + k
      BY <1>1, <1>5
    <3> QED
      BY <2>2, <3>1
  <2> QED
    BY <2>2, <2>3, <2>4
<1>8. RemoveFirst(s, e) = a \o b
  BY DEF RemoveFirst, k
<1> HIDE DEF a, b
<1>9. /\ a \o b \in Seq(STRING) /\ Len(a \o b) = Len(s) - 1
      /\ \A i \in 1 .. Len(s) - 1 : (a \o b)[i] = IF i < k THEN s[i] ELSE s[i + 1]
  <2>1. /\ a \o b \in Seq(STRING)
        /\ Len(a \o b) = Len(a) + Len(b)
        /\ \A i \in 1 .. Len(a) + Len(b) : (a \o b)[i] = IF i <= Len(a) THEN a[i] ELSE b[i - Len(a)]
    BY <1>6, <1>7, ConcatProperties
  <2>2. ASSUME NEW i \in 1 .. Len(s) - 1 PROVE (a \o b)[i] = IF i < k THEN s[i] ELSE s[i + 1]
    <3>1. CASE i < k
      BY <1>1, <1>5, <1>6, <1>7, <2>1, <3>1
    <3>2. CASE ~ (i < k)
      <4>1. i - (k - 1) \in 1 .. Len(s) - k /\ (i - (k - 1)) + k = i + 1
        BY <1>1, <1>5, <3>2
      <4>2. (a \o b)[i] = b[i - (k - 1)]
        BY <1>1, <1>5, <1>6, <1>7, <2>1, <3>2
      <4> QED
        BY <1>7, <3>2, <4>1, <4>2
    <3> QED
      BY <3>1, <3>2
  <2> QED
    BY <1>1, <1>5, <1>6, <1>7, <2>1, <2>2
<1>10. DOMAIN (a \o b) = 1 .. Len(s) - 1
  BY <1>1, <1>9, LenProperties
<1>11. Elements(a \o b) \subseteq Elements(s)
  <2>1. ASSUME NEW i \in 1 .. Len(s) - 1 PROVE (a \o b)[i] \in Elements(s)
    <3>1. i \in DOMAIN s /\ i + 1 \in DOMAIN s
      BY <1>1
    <3>2. s[i] \in Elements(s) /\ s[i + 1] \in Elements(s)
      BY <3>1 DEF Elements
    <3> QED
      BY <1>9, <3>2
  <2> QED
    BY <1>10, <2>1 DEF Elements
<1>12. ASSUME NEW i \in DOMAIN s, s[i] # e PROVE s[i] \in Elements(a \o b)
  <2>1. CASE i < k
    <3>1. i \in 1 .. Len(s) - 1
      BY <1>1, <1>5, <2>1
    <3> QED
      BY <1>9, <1>10, <2>1, <3>1 DEF Elements
  <2>2. CASE i > k
    <3>1. i - 1 \in 1 .. Len(s) - 1 /\ ~ (i - 1 < k) /\ (i - 1) + 1 = i
      BY <1>1, <1>5, <2>2
    <3> QED
      BY <1>9, <1>10, <3>1 DEF Elements
  <2> QED
    BY <1>1, <1>5, <1>12, <2>1, <2>2
<1>13. \A n \in Elements(s) : n # e => n \in Elements(a \o b)
  <2> SUFFICES ASSUME NEW n \in Elements(s), n # e PROVE n \in Elements(a \o b)
    OBVIOUS
  <2>1. PICK i \in DOMAIN s : n = s[i]
    BY DEF Elements
  <2> QED
    BY <1>12, <2>1
<1>14. /\ RemoveFirst(s, e) \in Seq(STRING)
       /\ Elements(RemoveFirst(s, e)) \subseteq Elements(s)
       /\ \A n \in Elements(s) : n # e => n \in Elements(RemoveFirst(s, e))
  BY <1>8, <1>9, <1>11, <1>13
<1> QED
  BY <1>14 DEF e

(* The feature that is looked at is one that has not been looked at yet.   *)
LEMMA Next1Is ==
  ASSUME MapperTypeOK, fresh # {}, fresh \subseteq Keys
  PROVE  Next1 \in fresh
<1> DEFINE All1 == UNION {tests[f] : f \in fresh}
<1>1. /\ tests \in [Features -> SUBSET Tests] /\ fresh \subseteq Features
      /\ \A f \in fresh : tests[f] # {}
  BY DEF MapperTypeOK, Keys
<1>2. All1 \in SUBSET Nat /\ All1 # {}
  BY <1>1
<1> HIDE DEF All1
<1>3. PICK i \in All1 : \A j \in All1 : i <= j
  BY <1>2, LeastOf
<1>4. PICK f \in fresh : i \in tests[f]
  BY <1>3 DEF All1
<1>5. \A g \in fresh : \A j \in tests[g] : i <= j
  BY <1>3 DEF All1
<1>6. \E i1 \in tests[f] : \A g \in fresh : \A j \in tests[g] : i1 <= j
  BY <1>4, <1>5
<1> QED
  BY <1>4, <1>6 DEF Next1

LEMMA OfOneFeature ==
  ASSUME NEW i \in Tests, NEW j \in Tests, Entries[i].name = Entries[j].name
  PROVE  Feature(i) = Feature(j)
BY MapperAssumption DEF MapperAssumption

LEMMA NamesAreStrings ==
  ASSUME NEW r \in Requests, NEW c
  PROVE  Parse(r, c).kind = "covering" => Parse(r, c).names = r.names /\ r.names \in Seq(STRING)
BY DEF Requests, Parse, All

LEMMA CoveredStart ==
  ASSUME NEW r \in Requests, NEW diff, NEW measured, NEW more, Ask(r, diff, measured, more)
  PROVE  Covered'
<1>1. /\ stage' \in {"crashed", "collect"}
      /\ ask' = Parse(r, diff.changed) /\ cover' = Parse(r, diff.changed).names
  BY DEF Ask
<1> QED
  BY <1>1, NamesAreStrings DEF Covered

LEMMA CollectCovered == ASSUME IInv, Covered, Collect PROVE Covered'
BY DEF Covered, Collect, asked, covering

LEMMA CollectedCovered == ASSUME IInv, Covered, Collected PROVE Covered'
<1> SUFFICES ASSUME ask'.kind = "covering" PROVE Covered'
  BY DEF Covered
<1>1. MapperTypeOK /\ Home /\ Whole /\ pos \notin Tests /\ stage = "collect" /\ IInv'
  BY CollectedInv DEF IInv, Collected
<1>2. /\ UNCHANGED <<asked, table, cover>> /\ ask' = ask /\ tests' = tests
      /\ stage' = "cover" /\ fresh' = Keys /\ unmatched' = Keys /\ Keys' = Keys /\ pos' = 1
  BY DEF Collected, asked, table, Keys
<1>3. cover = ask.names /\ cover \in Seq(STRING)
  BY <1>1, <1>2 DEF Covered
<1>4. \A f \in Features \ Excluded : HasOneOf(f, ask.names) => tests[f] # {}
  <2> SUFFICES ASSUME NEW f \in Features \ Excluded, NEW j \in Tests, Feature(j) = f PROVE tests[f] # {}
    BY DEF HasOneOf
  <2>1. Selected(j)
    BY <1>2 DEF Selected
  <2>2. j < pos
    BY <1>1 DEF MapperTypeOK
  <2> QED
    BY <1>1, <2>1, <2>2 DEF Whole, Taken
<1>5. Searching'
  BY <1>2, <1>3 DEF Searching
<1> QED
  BY <1>2, <1>4, <1>5 DEF Covered, HasOneOf, Feature

LEMMA CoverTestCovered == ASSUME IInv, Covered, CoverTest PROVE Covered'
<1> SUFFICES ASSUME ask'.kind = "covering" PROVE Covered'
  BY DEF Covered
<1>1. /\ MapperTypeOK /\ Home /\ stage = "cover" /\ stage' = "cover" /\ fresh # {} /\ fresh' = fresh
      /\ ask' = ask /\ tests' = tests /\ Keys' = Keys /\ Next1' = Next1 /\ pos' = pos + 1
      /\ pos \in Nat \ {0} /\ pos <= Len(cover)
  BY DEF IInv, MapperTypeOK, CoverTest, asked, table, Keys, Next1
<1>2. Searching
  BY <1>1 DEF Covered
<1>3. Next1 \in fresh /\ Next1 \in Features /\ tests[Next1] \subseteq Tests
  BY <1>1, <1>2, Next1Is DEF Searching, MapperTypeOK
<1>4. cover \in Seq(STRING) /\ pos \in 1 .. Len(cover) /\ DOMAIN cover = 1 .. Len(cover)
  BY <1>1, <1>2, LenProperties DEF Searching
<1>5. Searching'
  <2>1. CASE \E i \in tests[Next1] : Entries[i].name = cover[pos]
    <3>1. PICK i \in tests[Next1] : Entries[i].name = cover[pos]
      BY <2>1
    <3>2. cover' = RemoveFirst(cover, cover[pos]) /\ unmatched' = unmatched \ {Next1}
      BY <2>1 DEF CoverTest
    <3>3. i \in Tests /\ Feature(i) = Next1
      BY <1>1, <1>3, <3>1 DEF Home
    <3>4. cover' \in Seq(STRING) /\ Elements(cover') \subseteq Elements(ask'.names)
      BY <1>1, <1>2, <1>4, <3>2, RemovedFirst DEF Searching
    <3>5. ASSUME NEW j \in Tests, Feature(j) \in unmatched', Entries[j].name \in Elements(ask.names)
          PROVE  Entries[j].name \in Elements(cover')
      <4>1. Entries[j].name \in Elements(cover)
        BY <1>2, <3>2, <3>5 DEF Searching
      <4>2. Entries[j].name # cover[pos]
        BY <3>1, <3>2, <3>3, <3>5, OfOneFeature
      <4> QED
        BY <1>4, <3>2, <4>1, <4>2, RemovedFirst
    <3>6. HasOneOf(Next1, ask.names)
      <4>1. cover[pos] \in Elements(cover)
        BY <1>4 DEF Elements
      <4>2. Entries[i].name \in Elements(ask.names)
        BY <1>2, <3>1, <4>1 DEF Searching
      <4> QED
        BY <3>3, <4>2 DEF HasOneOf
    <3>7. \A f \in fresh \ unmatched' : HasOneOf(f, ask.names)
      BY <1>2, <3>2, <3>6 DEF Searching
    <3>8. \A f \in Keys \ fresh : f \in unmatched' <=> ~ HasOneOf(f, ask.names)
      BY <1>2, <1>3, <3>2 DEF Searching
    <3>9. fresh \subseteq Keys /\ unmatched' \subseteq Keys /\ Next1 \notin unmatched'
      BY <1>2, <3>2 DEF Searching
    <3>10. \A f : HasOneOf(f, ask.names)' <=> HasOneOf(f, ask.names)
      BY <1>1 DEF HasOneOf, Feature
    <3> QED
      BY <1>1, <3>4, <3>5, <3>7, <3>8, <3>9, <3>10 DEF Searching, Feature
  <2>2. CASE ~ \E i \in tests[Next1] : Entries[i].name = cover[pos]
    <3>1. cover' = cover /\ unmatched' = unmatched
      BY <2>2 DEF CoverTest
    <3>2. \A f : HasOneOf(f, ask.names)' <=> HasOneOf(f, ask.names)
      BY <1>1 DEF HasOneOf, Feature
    <3>3. Next1 \in unmatched => \A k \in 1 .. pos : k \in DOMAIN cover =>
            \A i \in tests[Next1] : Entries[i].name # cover[k]
      <4> SUFFICES ASSUME Next1 \in unmatched, NEW k \in 1 .. pos, k \in DOMAIN cover
                   PROVE  \A i \in tests[Next1] : Entries[i].name # cover[k]
        OBVIOUS
      <4>1. k = pos \/ k \in 1 .. pos - 1
        BY <1>1
      <4> QED
        BY <1>1, <1>2, <2>2, <4>1 DEF Searching
    <3>4. pos' - 1 = pos
      BY <1>1
    <3> QED
      BY <1>1, <1>2, <3>1, <3>2, <3>3, <3>4 DEF Searching, Feature
  <2> QED
    BY <2>1, <2>2
<1> QED
  BY <1>1, <1>5 DEF Covered, HasOneOf, Feature

LEMMA CoverFeatureCovered == ASSUME IInv, Covered, CoverFeature PROVE Covered'
<1> SUFFICES ASSUME ask'.kind = "covering" PROVE Covered'
  BY DEF Covered
<1>1. /\ MapperTypeOK /\ Home /\ Whole /\ stage = "cover" /\ stage' = "cover" /\ fresh # {}
      /\ fresh' = fresh \ {Next1} /\ pos' = 1 /\ cover' = cover /\ unmatched' = unmatched
      /\ ask' = ask /\ tests' = tests /\ Keys' = Keys
      /\ pos \in Nat \ {0} /\ pos > Len(cover)
  BY DEF IInv, MapperTypeOK, CoverFeature, asked, table, Keys
<1>2. Searching
  BY <1>1 DEF Covered
<1>3. Next1 \in fresh /\ Next1 \in Features /\ tests[Next1] # {}
  BY <1>1, <1>2, Next1Is DEF Searching, MapperTypeOK, Keys
<1>4. DOMAIN cover = 1 .. Len(cover) /\ Len(cover) \in Nat
  BY <1>2, LenProperties DEF Searching
<1>5. Next1 \in unmatched => ~ HasOneOf(Next1, ask.names)
  <2> SUFFICES ASSUME Next1 \in unmatched, NEW j \in Tests, Feature(j) = Next1,
                      Entries[j].name \in Elements(ask.names)
               PROVE  FALSE
    BY DEF HasOneOf
  <2>1. PICK k \in DOMAIN cover : cover[k] = Entries[j].name
    BY <1>2 DEF Searching, Elements
  <2>2. k \in 1 .. pos - 1
    BY <1>1, <1>4
  <2>3. PICK i \in tests[Next1] : TRUE
    BY <1>3
  <2>4. Feature(i) = Next1 /\ Selected(i)
    BY <1>1, <1>3 DEF Home
  <2>5. Selected(j)
    BY <1>1, <2>4 DEF Selected
  <2>6. j \in tests[Next1]
    BY <1>1, <1>3, <2>5 DEF Whole, Taken
  <2> QED
    BY <1>1, <1>2, <2>1, <2>2, <2>6 DEF Searching
<1>6. Next1 \notin unmatched => HasOneOf(Next1, ask.names)
  BY <1>2, <1>3 DEF Searching
<1>7. \A f \in Keys \ fresh' : f \in unmatched <=> ~ HasOneOf(f, ask.names)
  BY <1>1, <1>2, <1>5, <1>6 DEF Searching
<1>8. \A f : HasOneOf(f, ask.names)' <=> HasOneOf(f, ask.names)
  BY <1>1 DEF HasOneOf, Feature
<1>9. Searching'
  BY <1>1, <1>2, <1>7, <1>8 DEF Searching, Feature
<1> QED
  BY <1>1, <1>8, <1>9 DEF Covered

LEMMA DropCovered == ASSUME IInv, Covered, Drop PROVE Covered'
<1> SUFFICES ASSUME ask'.kind = "covering" PROVE Covered'
  BY DEF Covered
<1>1. MapperTypeOK /\ Home /\ stage = "cover" /\ ask' = ask /\ cover' = cover /\ fresh' = fresh /\ pos' = pos
  BY DEF IInv, Drop, asked
<1>2. Searching /\ \A f \in Features \ Excluded : HasOneOf(f, ask.names) => tests[f] # {}
  BY <1>1 DEF Covered
<1>3. \A f : HasOneOf(f, ask.names)' <=> HasOneOf(f, ask.names)
  BY <1>1 DEF HasOneOf, Feature
<1>4. CASE unmatched = {}
  <2>1. stage' = "spread" /\ tests' = tests
    BY <1>4 DEF Drop, table
  <2>2. \A f \in Features : tests[f] # {} => HasOneOf(f, ask.names)
    BY <1>2, <1>4 DEF Searching, Keys
  <2> QED
    BY <1>1, <1>2, <1>3, <2>1, <2>2 DEF Covered
<1>5. CASE unmatched # {}
  <2>1. fresh = {}
    BY <1>5 DEF Drop
  <2>2. PICK f \in unmatched :
          unmatched' = unmatched \ {f} /\ tests' = [tests EXCEPT ![f] = {}] /\ stage' = stage
    BY <1>5 DEF Drop
  <2>3. f \in Features /\ f \in Keys /\ ~ HasOneOf(f, ask.names)
    BY <1>1, <1>2, <2>1 DEF Searching, MapperTypeOK
  <2>4. \A g \in Features : tests'[g] = IF g = f THEN {} ELSE tests[g]
    BY <1>1, <2>2 DEF MapperTypeOK
  <2>5. Keys' = Keys \ {f}
    BY <2>4 DEF Keys
  <2>6. Searching'
    BY <1>1, <1>2, <1>3, <2>1, <2>2, <2>5 DEF Searching, Feature
  <2>7. \A g \in Features \ Excluded : HasOneOf(g, ask.names) => tests'[g] # {}
    BY <1>2, <2>3, <2>4
  <2> QED
    BY <1>1, <1>3, <2>2, <2>6, <2>7 DEF Covered
<1> QED
  BY <1>4, <1>5

LEMMA SpreadCovered == ASSUME IInv, Covered, Give \/ Given PROVE Covered'
<1>1. stage = "spread" /\ stage' \in {"spread", "done"} /\ ask' = ask /\ tests' = tests
  BY DEF Give, Gives, Given, asked, table
<1> QED
  BY <1>1 DEF Covered, HasOneOf, Feature

LEMMA CoveredNext == IInv /\ Covered /\ [MapperNext]_mapperVars => Covered'
<1> SUFFICES ASSUME IInv, Covered, [MapperNext]_mapperVars PROVE Covered'
  OBVIOUS
<1>1. CASE Forget
  BY <1>1 DEF Forget, Covered
<1>2. CASE \E r \in Requests : \E diff : \E measured \in TimingTables, more \in Nat : Ask(r, diff, measured, more)
  BY <1>2, CoveredStart
<1>3. CASE MapperStep
  BY <1>3, CollectCovered, CollectedCovered, CoverTestCovered, CoverFeatureCovered, DropCovered, SpreadCovered
     DEF MapperStep
<1>4. CASE UNCHANGED mapperVars
  <2>1. UNCHANGED <<stage, ask, pos, tests, cover, fresh, unmatched>>
    BY <1>4 DEF mapperVars, asked, table, covering
  <2>2. Keys' = Keys /\ Next1' = Next1
    BY <2>1 DEF Keys, Next1
  <2>3. Searching => Searching'
    BY <2>1, <2>2 DEF Searching, HasOneOf, Feature
  <2> QED
    BY <2>1, <2>3 DEF Covered, HasOneOf, Feature
<1> QED
  BY <1>1, <1>2, <1>3, <1>4 DEF MapperNext

LEMMA CoveredAlways == MapperSpec => []Covered
<1>1. MapperInit => Covered
  BY DEF MapperInit, Covered, All
<1> QED
  BY <1>1, CoveredNext, MapperInvariant, PTL DEF MapperSpec

(* Each test that was taken is given to exactly one machine. *)
THEOREM EveryTestOnce == MapperSpec => []EachTestOnce
<1>1. IInv => EachTestOnce
  <2> SUFFICES ASSUME IInv, stage = "done" PROVE EachTestOnce
    BY DEF EachTestOnce
  <2>0. MapperTypeOK /\ Home /\ Whole /\ Placed /\ todo = {}
    BY DEF IInv, Placed
  <2>1. ASSUME NEW i \in Tests
        PROVE  (\E m \in 1 .. Machines : i \in mTests[m]) <=>
                 Selected(i) /\ (ask.kind = "covering" => tests[Feature(i)] # {})
    <3>1. ASSUME NEW m \in 1 .. Machines, i \in mTests[m]
          PROVE  Selected(i) /\ tests[Feature(i)] # {}
      BY <2>0, <3>1 DEF Placed, Taken, Home
    <3>2. ASSUME Selected(i), ask.kind = "covering" => tests[Feature(i)] # {}
          PROVE  \E m \in 1 .. Machines : i \in mTests[m]
      <4>1. Taken(i)
        BY <2>0, <3>2 DEF Whole
      <4>2. PICK m \in 1 .. Machines : tests[Feature(i)] \subseteq mTests[m]
        BY <2>0, <4>1 DEF Placed, Taken
      <4> QED
        BY <4>1, <4>2 DEF Taken
    <3> QED
      BY <3>1, <3>2
  <2> QED
    BY <2>0, <2>1 DEF EachTestOnce, Placed
<1> QED
  BY <1>1, MapperInvariant, PTL

(* What is returned: the sets of the machines that have tests, in their    *)
(* order, or the lone test "pass".                                         *)
AllGiven == UNION {mTests[m] : m \in 1 .. Machines}

LEMMA WhatIsReturned ==
  ASSUME MapperTypeOK
  PROVE  UNION Elements(Distribution) = IF AllGiven = {} THEN {0} ELSE AllGiven
<1> DEFINE A == Seq(SUBSET Tests)
           step(s, m) == IF mTests[m] = {} THEN s ELSE Append(s, mTests[m])
           st == [x \in A \X (1 .. Machines) |-> step(x[1], x[2])]
           Eqn(u) == u = [m \in 0 .. Machines |-> IF m = 0 THEN <<>> ELSE step(u[m - 1], m)]
           used == CHOOSE u : Eqn(u)
<1>1. mTests \in [1 .. Machines -> SUBSET Tests]
  BY DEF MapperTypeOK
<1>2. <<>> \in A
  OBVIOUS
<1>3. ASSUME NEW s \in A, NEW m \in 1 .. Machines
      PROVE  step(s, m) \in A /\ Elements(step(s, m)) = Elements(s) \cup ({mTests[m]} \ {{}})
  <2>1. CASE mTests[m] = {}
    BY <2>1
  <2>2. CASE mTests[m] # {}
    <3> DEFINE t == Append(s, mTests[m])
    <3>1. /\ t \in A /\ Len(t) = Len(s) + 1 /\ Len(s) \in Nat
          /\ \A i \in 1 .. Len(s) : t[i] = s[i]
          /\ t[Len(s) + 1] = mTests[m]
      BY <1>1, AppendProperties, LenProperties
    <3>2. DOMAIN s = 1 .. Len(s) /\ DOMAIN t = 1 .. Len(s) + 1
      BY <3>1, LenProperties
    <3> HIDE DEF t
    <3>3. \A i \in DOMAIN t : i \in DOMAIN s \/ i = Len(s) + 1
      BY <3>1, <3>2
    <3>4. Elements(t) = Elements(s) \cup {mTests[m]}
      <4>1. Elements(t) \subseteq Elements(s) \cup {mTests[m]}
        BY <3>1, <3>2, <3>3 DEF Elements
      <4>2. mTests[m] \in Elements(t)
        <5>1. Len(s) + 1 \in DOMAIN t
          BY <3>1, <3>2
        <5> QED
          BY <3>1, <5>1 DEF Elements
      <4>3. ASSUME NEW i \in DOMAIN s PROVE s[i] \in Elements(t)
        <5>1. i \in DOMAIN t /\ t[i] = s[i]
          BY <3>1, <3>2
        <5> QED
          BY <5>1 DEF Elements
      <4> QED
        BY <4>1, <4>2, <4>3 DEF Elements
    <3> QED
      BY <2>2, <3>1, <3>4 DEF t
  <2> QED
    BY <2>1, <2>2
<1>4. st \in [A \X (1 .. Machines) -> A]
  BY <1>3
<1> HIDE DEF A, step, st
<1>5. \E u : Eqn(u)
  <2> DEFINE z == <<>>
  <2>0. z \in A
    BY <1>2
  <2> HIDE DEF z
  <2>1. PICK it \in [SUBSET (1 .. Machines) -> A] : Computes(it, Machines, z, st)
    BY <1>4, <2>0, FoldIsDefined
  <2>2. it[1 .. 0] = z /\ \A k \in 1 .. Machines : it[1 .. k] = st[<<it[1 .. k - 1], k>>]
    BY <2>1, FoldGoesOn
  <2>3. \A k \in 1 .. Machines : it[1 .. k] = step(it[1 .. k - 1], k)
    <3>1. \A k \in 1 .. Machines : 1 .. k - 1 \in SUBSET (1 .. Machines)
      OBVIOUS
    <3> QED
      BY <2>1, <2>2, <3>1 DEF st
  <2> DEFINE u == [m \in 0 .. Machines |-> it[1 .. m]]
  <2>4. u = [m \in 0 .. Machines |-> IF m = 0 THEN <<>> ELSE step(u[m - 1], m)]
    <3>1. ASSUME NEW m \in 0 .. Machines PROVE u[m] = IF m = 0 THEN <<>> ELSE step(u[m - 1], m)
      <4>1. CASE m = 0
        BY <2>2, <4>1 DEF z
      <4>2. CASE m # 0
        <5>1. m \in 1 .. Machines /\ m - 1 \in 0 .. Machines
          BY <4>2
        <5> QED
          BY <2>3, <4>2, <5>1
      <4> QED
        BY <4>1, <4>2
    <3> QED
      BY <3>1
  <2> QED
    BY <2>4
<1>6. used = [m \in 0 .. Machines |-> IF m = 0 THEN <<>> ELSE step(used[m - 1], m)]
  BY <1>5
<1>7. Distribution = IF used[Machines] = <<>> THEN << {0} >> ELSE used[Machines]
  BY DEF Distribution, step
<1> HIDE DEF used
<1> DEFINE G == {m \in 0 .. Machines :
                  /\ used[m] \in A
                  /\ Elements(used[m]) = {mTests[k] : k \in 1 .. m} \ {{}}}
<1>8. 0 \in G
  BY <1>2, <1>6 DEF Elements
<1>9. ASSUME NEW m \in 1 .. Machines, m - 1 \in G PROVE m \in G
  <2>1. used[m] = step(used[m - 1], m)
    BY <1>6
  <2>2. {mTests[k] : k \in 1 .. m} = {mTests[k] : k \in 1 .. m - 1} \cup {mTests[m]}
    <3>1. \A k \in 1 .. m : k \in 1 .. m - 1 \/ k = m
      OBVIOUS
    <3> QED
      BY <3>1
  <2> QED
    BY <1>3, <1>9, <2>1, <2>2
<1>10. /\ used[Machines] \in A /\ {} \notin Elements(used[Machines])
       /\ UNION Elements(used[Machines]) = AllGiven
  <2>1. Machines \in G
    <3> HIDE DEF G
    <3> QED
      BY <1>8, <1>9, Upwards
  <2> QED
    BY <2>1 DEF AllGiven
<1> QED
  <2>1. CASE used[Machines] = <<>>
    <3>1. AllGiven = {}
      BY <1>10, <2>1 DEF Elements
    <3>2. Elements(<< {0} >>) = {{0}}
      BY DEF Elements
    <3> QED
      BY <1>7, <2>1, <3>1, <3>2
  <2>2. CASE used[Machines] # <<>>
    <3>1. AllGiven # {}
      <4>1. 1 \in DOMAIN used[Machines]
        BY <1>10, <2>2, LenProperties, EmptySeq DEF A
      <4>2. used[Machines][1] \in Elements(used[Machines])
        BY <4>1 DEF Elements
      <4> QED
        BY <1>10, <4>2
    <3> QED
      BY <1>7, <1>10, <2>2, <3>1
  <2> QED
    BY <2>1, <2>2

(* The tests that are given are those a request takes, of which "covering" *)
(* keeps the features that have one of its tests.                          *)
Wanted == {i \in Tests : Selected(i) /\ (ask.kind = "covering" => HasOneOf(Feature(i), ask.names))}

WantedIsGiven == stage = "done" => AllGiven = Wanted

(* In spite of the loop of _cover_tests, which removes from the list it    *)
(* runs over, the machines get for "covering:" the tests of every feature  *)
(* that has one of the tests named, and of no other.                       *)
THEOREM WhatIsGiven == MapperSpec => []WantedIsGiven
<1>1. IInv /\ EachTestOnce /\ Covered => WantedIsGiven
  <2> SUFFICES ASSUME IInv, EachTestOnce, Covered, stage = "done" PROVE AllGiven = Wanted
    BY DEF WantedIsGiven
  <2>1. \A i \in Tests : i \in AllGiven <=> Selected(i) /\ (ask.kind = "covering" => tests[Feature(i)] # {})
    BY DEF EachTestOnce, AllGiven
  <2>2. ASSUME ask.kind = "covering", NEW i \in Tests, Selected(i)
        PROVE  tests[Feature(i)] # {} <=> HasOneOf(Feature(i), ask.names)
    <3>1. Feature(i) \in Features \ Excluded
      BY <2>2, EntryTypes DEF Selected
    <3> QED
      BY <2>2, <3>1 DEF Covered
  <2>3. AllGiven \subseteq Tests
    BY DEF IInv, MapperTypeOK, AllGiven
  <2> QED
    BY <2>1, <2>2, <2>3 DEF Wanted
<1> QED
  BY <1>1, MapperInvariant, EveryTestOnce, CoveredAlways, PTL

(* The last machine has no feature that fitted on another. *)
THEOREM LastOnlyNeeded == MapperSpec => []LastIsNeeded
<1>1. IInv => LastIsNeeded
  BY DEF IInv, Heavy, LastIsNeeded
<1> QED
  BY <1>1, MapperInvariant, PTL
=============================================================================
