--------------------------- MODULE CleanupProofs ---------------------------
(***************************************************************************)
(* The safety properties of the cleanup registry, for every set of actions,*)
(* every assignment of tags, priorities and dependents, and every number   *)
(* of registrations and signals.                                           *)
(***************************************************************************)
EXTENDS Cleanup, TLAPS, WellFoundedInduction, SequenceTheorems

-----------------------------------------------------------------------------
(* What the operators of CleanupList return, for every list and entry.     *)

(* A nonempty set of naturals has the minimum that Min chooses. *)
LEMMA MinOfNaturals ==
  ASSUME NEW S \in SUBSET Nat, S # {}
  PROVE  /\ Min(S) \in S
         /\ \A x \in S : Min(S) <= x
<1> DEFINE R == {ss \in Nat \X Nat : ss[1] < ss[2]}
<1>1. IsWellFoundedOn(R, Nat)
  BY NatLessThanWellFounded DEF OpToRel
<1>2. PICK x \in S : \A y \in S : ~ (<<y, x>> \in R)
  BY <1>1, WFMin
<1>3. \A y \in S : x <= y
  <2>1. TAKE y \in S
  <2>2. ~ (y < x)
    BY <1>2
  <2> QED
    BY <2>2
<1> QED
  BY <1>3 DEF Min

(* What the lemmas ask of the set the entries come from. *)
EntrySet(E) == \A x \in E : x.prio \in Int

InPriorityOrder(l) == \A i, j \in DOMAIN l : i < j => l[i].prio <= l[j].prio

(* Removing position m shifts the rest by one. *)
LEMMA RemoveAtShape ==
  ASSUME NEW E, NEW l \in Seq(E), NEW m \in 1 .. Len(l)
  PROVE  /\ RemoveAt(l, m) \in Seq(E)
         /\ Len(RemoveAt(l, m)) = Len(l) - 1
         /\ \A i \in 1 .. Len(l) - 1 :
              RemoveAt(l, m)[i] = IF i < m THEN l[i] ELSE l[i + 1]
<1> DEFINE a == SubSeq(l, 1, m - 1)
           b == SubSeq(l, m + 1, Len(l))
<1>1. Len(l) \in Nat /\ \A i \in 1 .. Len(l) : l[i] \in E
  BY ElementOfSeq, LenProperties
<1>2. /\ a \in Seq(E) /\ Len(a) = m - 1
      /\ \A i \in 1 .. m - 1 : a[i] = l[i]
  BY <1>1, SubSeqProperties, m - 1 \in Int
<1>3. /\ b \in Seq(E) /\ Len(b) = Len(l) - m
      /\ \A i \in 1 .. Len(l) - m : b[i] = l[i + m]
  BY <1>1, SubSeqProperties, m + 1 \in Int
<1> HIDE DEF a, b
<1>4. /\ a \o b \in Seq(E)
      /\ Len(a \o b) = Len(a) + Len(b)
      /\ \A i \in 1 .. Len(a) + Len(b) :
           (a \o b)[i] = IF i <= Len(a) THEN a[i] ELSE b[i - Len(a)]
  BY <1>2, <1>3, ConcatProperties
<1>5. \A i \in 1 .. Len(l) - 1 :
        (a \o b)[i] = IF i < m THEN l[i] ELSE l[i + 1]
  <2> TAKE i \in 1 .. Len(l) - 1
  <2>1. CASE i < m
    BY <2>1, <1>1, <1>2, <1>3, <1>4
  <2>2. CASE ~ (i < m)
    <3>1. i - Len(a) \in 1 .. Len(l) - m
      BY <2>2, <1>1, <1>2
    <3>2. b[i - Len(a)] = l[i + 1]
      BY <3>1, <1>1, <1>2, <1>3
    <3>3. i \in 1 .. Len(a) + Len(b) /\ ~ (i <= Len(a))
      BY <2>2, <1>1, <1>2, <1>3
    <3>4. (a \o b)[i] = b[i - Len(a)]
      BY <3>3, <1>4
    <3> QED
      BY <2>2, <3>2, <3>4
  <2> QED
    BY <2>1, <2>2
<1>6. RemoveAt(l, m) = a \o b
  BY DEF RemoveAt, a, b
<1> QED
  BY <1>1, <1>2, <1>3, <1>4, <1>5, <1>6

(* new is l with e at position k. *)
WithEntry(l, e, new, k) ==
  /\ Len(new) = Len(l) + 1
  /\ \A i \in 1 .. Len(l) + 1 :
       new[i] = IF i < k THEN l[i] ELSE IF i = k THEN e ELSE l[i - 1]

(* Inserting at position k moves what was there, and all behind it, by one. *)
LEMMA InsertAtShape ==
  ASSUME NEW E, NEW l \in Seq(E), NEW k \in 1 .. Len(l) + 1, NEW e \in E
  PROVE  /\ InsertAt(l, k, e) \in Seq(E)
         /\ WithEntry(l, e, InsertAt(l, k, e), k)
<1> DEFINE a == SubSeq(l, 1, k - 1)
           b == SubSeq(l, k, Len(l))
           c == a \o <<e>>
<1>1. Len(l) \in Nat /\ \A i \in 1 .. Len(l) : l[i] \in E
  BY ElementOfSeq, LenProperties
<1>2. /\ a \in Seq(E) /\ Len(a) = k - 1
      /\ \A i \in 1 .. k - 1 : a[i] = l[i]
  BY <1>1, SubSeqProperties, k - 1 \in Int
<1>3. /\ b \in Seq(E) /\ Len(b) = Len(l) - k + 1
      /\ \A i \in 1 .. Len(l) - k + 1 : b[i] = l[i + k - 1]
  BY <1>1, SubSeqProperties, k \in Int
<1>4. <<e>> \in Seq(E) /\ Len(<<e>>) = 1 /\ <<e>>[1] = e
  OBVIOUS
<1>5. /\ c \in Seq(E) /\ Len(c) = k
      /\ \A i \in 1 .. k : c[i] = IF i < k THEN l[i] ELSE e
  <2> HIDE DEF a
  <2>1. /\ c \in Seq(E) /\ Len(c) = Len(a) + 1
        /\ \A i \in 1 .. Len(a) + 1 :
             c[i] = IF i <= Len(a) THEN a[i] ELSE <<e>>[i - Len(a)]
    BY <1>2, <1>4, ConcatProperties
  <2> HIDE DEF c
  <2> QED
    BY <2>1, <1>2, <1>4
<1> HIDE DEF a, b, c
<1>6. /\ c \o b \in Seq(E)
      /\ Len(c \o b) = Len(c) + Len(b)
      /\ \A i \in 1 .. Len(c) + Len(b) :
           (c \o b)[i] = IF i <= Len(c) THEN c[i] ELSE b[i - Len(c)]
  BY <1>3, <1>5, ConcatProperties
<1>7. \A i \in 1 .. Len(l) + 1 :
        (c \o b)[i] = IF i < k THEN l[i] ELSE IF i = k THEN e ELSE l[i - 1]
  <2> TAKE i \in 1 .. Len(l) + 1
  <2>1. CASE i <= k
    <3>1. i \in 1 .. k /\ i \in 1 .. Len(c) + Len(b) /\ i <= Len(c)
      BY <2>1, <1>1, <1>3, <1>5
    <3>2. (c \o b)[i] = c[i]
      BY <3>1, <1>6
    <3> QED
      BY <2>1, <3>1, <3>2, <1>5
  <2>2. CASE ~ (i <= k)
    <3>1. i - k \in 1 .. Len(l) - k + 1
      BY <2>2, <1>1
    <3>2. b[i - k] = l[i - 1]
      BY <3>1, <1>1, <1>3
    <3>3. i \in 1 .. Len(c) + Len(b) /\ ~ (i <= Len(c)) /\ Len(c) = k
      BY <2>2, <1>1, <1>3, <1>5
    <3>4. (c \o b)[i] = b[i - Len(c)]
      BY <3>3, <1>6
    <3>5. (c \o b)[i] = l[i - 1]
      BY <3>2, <3>3, <3>4
    <3>6. ~ (i < k) /\ i # k
      BY <2>2, <1>1
    <3> QED
      BY <3>5, <3>6
  <2> QED
    BY <2>1, <2>2
<1>8. InsertAt(l, k, e) = c \o b
  BY DEF InsertAt, a, b, c
<1>9. Len(c \o b) = Len(l) + 1
  BY <1>1, <1>3, <1>5, <1>6
<1> QED
  BY <1>6, <1>7, <1>8, <1>9 DEF WithEntry

-----------------------------------------------------------------------------

(* r is l without its entry m, a duplicate of e. *)
DroppedFrom(l, e, r, m) ==
  /\ l[m].tag = e.tag
  /\ Len(r) = Len(l) - 1
  /\ \A i \in 1 .. Len(l) - 1 : r[i] = IF i < m THEN l[i] ELSE l[i + 1]

(* new is r with e at position k, where it parts the priorities. *)
PutInto(r, e, new, k) ==
  /\ k \in 1 .. Len(r) + 1
  /\ WithEntry(r, e, new, k)
  /\ \A i \in 1 .. Len(r) : i < k => r[i].prio < e.prio
  /\ \A i \in 1 .. Len(r) : k <= i => r[i].prio >= e.prio

(* What is left of l once the duplicate of e is deleted: a list in the same *)
(* order, with every other tag.                                            *)
LEMMA WithoutDuplicateShape ==
  ASSUME NEW E, NEW l \in Seq(E), NEW e \in E
  PROVE  LET r == WithoutDuplicate(l, e)
         IN  /\ r \in Seq(E)
             /\ Duplicates(l, e) = {} => r = l
             /\ Duplicates(l, e) # {} =>
                  \E m \in 1 .. Len(l) : DroppedFrom(l, e, r, m)
<1>1. CASE Duplicates(l, e) = {}
  BY <1>1 DEF WithoutDuplicate
<1>2. CASE Duplicates(l, e) # {}
  <2> DEFINE m == Min(Duplicates(l, e))
  <2>1. DOMAIN l = 1 .. Len(l) /\ Len(l) \in Nat
    BY LenProperties
  <2>2. Duplicates(l, e) \in SUBSET Nat
    BY <2>1 DEF Duplicates
  <2>3. m \in Duplicates(l, e)
    BY <1>2, <2>2, MinOfNaturals
  <2>4. m \in 1 .. Len(l) /\ l[m].tag = e.tag
    BY <2>1, <2>3 DEF Duplicates
  <2>5. WithoutDuplicate(l, e) = RemoveAt(l, m)
    BY <1>2 DEF WithoutDuplicate
  <2> HIDE DEF m
  <2>6. /\ RemoveAt(l, m) \in Seq(E)
        /\ DroppedFrom(l, e, RemoveAt(l, m), m)
    BY <2>4, RemoveAtShape DEF DroppedFrom
  <2> QED
    BY <1>2, <2>4, <2>5, <2>6
<1> QED
  BY <1>1, <1>2

(* The slot parts the list: smaller priorities before it, and the entry at *)
(* it, if there is one, has no smaller priority.                           *)
LEMMA SlotShape ==
  ASSUME NEW E, EntrySet(E), NEW l \in Seq(E), NEW e \in E
  PROVE  LET k == Slot(l, e)
         IN  /\ k \in 1 .. Len(l) + 1
             /\ \A i \in 1 .. Len(l) : i < k => l[i].prio < e.prio
             /\ k <= Len(l) => l[k].prio >= e.prio
<1> DEFINE S == {i \in 1 .. Len(l) + 1 : i <= Len(l) => l[i].prio >= e.prio}
           k == Min(S)
<1>1. Len(l) \in Nat /\ \A i \in 1 .. Len(l) : l[i] \in E
  BY ElementOfSeq, LenProperties
<1>2. Len(l) + 1 \in S /\ S \in SUBSET Nat
  BY <1>1
<1>3. k \in S /\ \A x \in S : k <= x
  <2> HIDE DEF S
  <2> QED
    BY <1>2, MinOfNaturals
<1> HIDE DEF k
<1>4. \A i \in 1 .. Len(l) : i < k => l[i].prio < e.prio
  <2> TAKE i \in 1 .. Len(l)
  <2> HAVE i < k
  <2>1. i \notin S /\ k \in 1 .. Len(l) + 1
    BY <1>1, <1>3
  <2>2. ~ (l[i].prio >= e.prio)
    BY <2>1, <1>1
  <2>3. l[i].prio \in Int /\ e.prio \in Int
    BY <1>1 DEF EntrySet
  <2> QED
    BY <2>2, <2>3
<1>5. k = Slot(l, e)
  BY DEF Slot, k
<1> QED
  BY <1>3, <1>4, <1>5

(* Place puts e at one position of the list without its duplicate.         *)
LEMMA PlaceShape ==
  ASSUME NEW E, EntrySet(E), NEW l \in Seq(E), NEW e \in E,
         InPriorityOrder(l)
  PROVE  /\ WithoutDuplicate(l, e) \in Seq(E)
         /\ Place(l, e) \in Seq(E)
         /\ \E k \in Nat : PutInto(WithoutDuplicate(l, e), e, Place(l, e), k)
<1> DEFINE r == WithoutDuplicate(l, e)
           k == Slot(r, e)
<1>1. r \in Seq(E)
  BY WithoutDuplicateShape
<1>2. InPriorityOrder(r)
  <2>0. Len(l) \in Nat /\ DOMAIN l = 1 .. Len(l) /\ DOMAIN r = 1 .. Len(r) /\ Len(r) \in Nat
    BY <1>1, LenProperties
  <2>1. CASE Duplicates(l, e) = {}
    <3>1. r = l
      BY <2>1, WithoutDuplicateShape
    <3> QED
      BY <3>1
  <2>2. CASE Duplicates(l, e) # {}
    <3>0. PICK m \in 1 .. Len(l) : DroppedFrom(l, e, r, m)
      BY <2>2, WithoutDuplicateShape
    <3> HIDE DEF r
    <3>1. /\ Len(r) = Len(l) - 1
          /\ \A i \in 1 .. Len(l) - 1 :
               r[i] = IF i < m THEN l[i] ELSE l[i + 1]
      BY <3>0 DEF DroppedFrom
    <3>2. SUFFICES ASSUME NEW i \in 1 .. Len(r), NEW j \in 1 .. Len(r), i < j
                   PROVE  r[i].prio <= r[j].prio
      BY <2>0 DEF InPriorityOrder
    <3> DEFINE u == IF i < m THEN i ELSE i + 1
               v == IF j < m THEN j ELSE j + 1
    <3>3. /\ u \in DOMAIN l /\ v \in DOMAIN l /\ u < v
          /\ r[i] = l[u] /\ r[j] = l[v]
      BY <3>1, <3>2, <2>0
    <3> HIDE DEF u, v
    <3>4. l[u].prio <= l[v].prio
      BY <3>3 DEF InPriorityOrder
    <3> QED
      BY <3>3, <3>4
  <2> QED
    BY <2>1, <2>2
<1>3. /\ k \in 1 .. Len(r) + 1
      /\ \A i \in 1 .. Len(r) : i < k => r[i].prio < e.prio
      /\ k <= Len(r) => r[k].prio >= e.prio
  BY <1>1, SlotShape
<1>4. Place(l, e) = InsertAt(r, k, e)
  BY DEF Place
<1> HIDE DEF r, k
<1>5. \A i \in 1 .. Len(r) : k <= i => r[i].prio >= e.prio
  <2>1. Len(r) \in Nat /\ DOMAIN r = 1 .. Len(r) /\ \A i \in 1 .. Len(r) : r[i].prio \in Int
    BY <1>1, LenProperties, ElementOfSeq DEF EntrySet
  <2>2. e.prio \in Int
    BY DEF EntrySet
  <2> QED
    BY <1>2, <1>3, <2>1, <2>2 DEF InPriorityOrder
<1>6. Len(r) \in Nat
  BY <1>1, LenProperties
<1> QED
  <2>1. k \in Nat
    BY <1>3, <1>6
  <2>2. Place(l, e) \in Seq(E) /\ WithEntry(r, e, Place(l, e), k)
    <3>1. k \in 1 .. Len(r) + 1
      BY <1>3
    <3> QED
      BY <1>1, <1>4, <3>1, InsertAtShape
  <2>3. PutInto(r, e, Place(l, e), k)
    BY <1>3, <1>5, <2>2 DEF PutInto
  <2> QED
    BY <1>1, <2>1, <2>2, <2>3 DEF r

(* Every position p of the new list but e's own shows an entry of the old  *)
(* one, src[p]; the order of those is kept, and only duplicates of e are   *)
(* not shown.                                                              *)
PlacedFrom(l, e, new, k, src) ==
  /\ k \in DOMAIN new
  /\ new[k] = e
  /\ \A p \in DOMAIN new :
       p # k => src[p] \in DOMAIN l /\ new[p] = l[src[p]]
  /\ \A p, q \in DOMAIN new : p # k /\ q # k /\ p < q => src[p] < src[q]
  /\ \A p \in DOMAIN new : p < k => new[p].prio < e.prio
  /\ \A p \in DOMAIN new : k < p => new[p].prio >= e.prio
  /\ \A x \in DOMAIN l :
       l[x].tag = e.tag \/ \E p \in DOMAIN new : p # k /\ src[p] = x
  /\ TagsDiffer(l) => \A p \in DOMAIN new : p # k => new[p].tag # e.tag

LEMMA PlaceSources ==
  ASSUME NEW E, EntrySet(E), NEW l \in Seq(E), NEW e \in E,
         InPriorityOrder(l)
  PROVE  /\ Place(l, e) \in Seq(E)
         /\ \E k, src : PlacedFrom(l, e, Place(l, e), k, src)
<1> DEFINE new == Place(l, e)
<1> DEFINE r == WithoutDuplicate(l, e)
<1>0. PICK k \in Nat : PutInto(r, e, new, k)
  BY PlaceShape
<1>r. r \in Seq(E) /\ new \in Seq(E)
  BY PlaceShape
<1>d. /\ Duplicates(l, e) = {} => r = l
      /\ Duplicates(l, e) # {} => \E m \in 1 .. Len(l) : DroppedFrom(l, e, r, m)
  BY WithoutDuplicateShape
<1> HIDE DEF new, r
<1>1. /\ r \in Seq(E)
      /\ k \in 1 .. Len(r) + 1
      /\ new \in Seq(E)
      /\ Len(new) = Len(r) + 1
      /\ \A i \in 1 .. Len(r) + 1 :
           new[i] = IF i < k THEN r[i] ELSE IF i = k THEN e ELSE r[i - 1]
      /\ \A i \in 1 .. Len(r) : i < k => r[i].prio < e.prio
      /\ \A i \in 1 .. Len(r) : k <= i => r[i].prio >= e.prio
  BY <1>0, <1>r DEF PutInto, WithEntry
<1>2. /\ Len(r) \in Nat /\ Len(l) \in Nat
      /\ DOMAIN r = 1 .. Len(r) /\ DOMAIN l = 1 .. Len(l)
      /\ DOMAIN new = 1 .. Len(r) + 1
  BY <1>1, LenProperties
<1> DEFINE i(p) == IF p < k THEN p ELSE p - 1
<1>3. \A p \in DOMAIN new : p # k => i(p) \in 1 .. Len(r) /\ new[p] = r[i(p)]
  BY <1>1, <1>2
<1>4. \A p, q \in DOMAIN new : p # k /\ q # k /\ p < q => i(p) < i(q)
  BY <1>1, <1>2
<1>5. \A x \in 1 .. Len(r) : \E p \in DOMAIN new : p # k /\ i(p) = x
  <2> TAKE x \in 1 .. Len(r)
  <2>1. CASE x < k
    <3>1. x \in DOMAIN new /\ x # k /\ i(x) = x
      BY <2>1, <1>1, <1>2
    <3> QED
      BY <3>1
  <2>2. CASE ~ (x < k)
    <3>1. x + 1 \in DOMAIN new /\ x + 1 # k /\ i(x + 1) = x
      BY <2>2, <1>1, <1>2
    <3> QED
      BY <3>1
  <2> QED
    BY <2>1, <2>2
<1>6. /\ k \in DOMAIN new
      /\ new[k] = e
      /\ \A p \in DOMAIN new : p < k => new[p].prio < e.prio
      /\ \A p \in DOMAIN new : k < p => new[p].prio >= e.prio
  <2>1. k \in DOMAIN new /\ new[k] = e
    BY <1>1, <1>2
  <2>2. \A p \in DOMAIN new : p < k => i(p) < k
    BY <1>1, <1>2
  <2>3. \A p \in DOMAIN new : k < p => k <= i(p)
    BY <1>1, <1>2
  <2>4. ASSUME NEW p \in DOMAIN new, p < k
        PROVE  new[p].prio < e.prio
    <3>1. i(p) \in 1 .. Len(r) /\ new[p] = r[i(p)] /\ i(p) < k
      BY <2>2, <2>4, <1>2, <1>3
    <3> HIDE DEF i
    <3> QED
      BY <3>1, <1>1
  <2>5. ASSUME NEW p \in DOMAIN new, k < p
        PROVE  new[p].prio >= e.prio
    <3>1. i(p) \in 1 .. Len(r) /\ new[p] = r[i(p)] /\ k <= i(p)
      BY <2>3, <2>5, <1>2, <1>3
    <3> HIDE DEF i
    <3> QED
      BY <3>1, <1>1
  <2> QED
    BY <2>1, <2>4, <2>5
<1> HIDE DEF i
<1>7. CASE Duplicates(l, e) = {}
  <2>1. r = l
    BY <1>7, <1>d
  <2> DEFINE src == [p \in DOMAIN new |-> i(p)]
  <2>2. \A p \in DOMAIN new : p # k => new[p].tag # e.tag
    BY <1>2, <1>3, <1>7, <2>1 DEF Duplicates
  <2>3. PlacedFrom(l, e, new, k, src)
    BY <1>2, <1>3, <1>4, <1>5, <1>6, <2>1, <2>2 DEF PlacedFrom
  <2> QED
    BY <1>1, <2>3 DEF new
<1>8. CASE Duplicates(l, e) # {}
  <2>0. PICK m \in 1 .. Len(l) : DroppedFrom(l, e, r, m)
    BY <1>8, <1>d
  <2>1. /\ l[m].tag = e.tag
        /\ Len(r) = Len(l) - 1
        /\ \A x \in 1 .. Len(l) - 1 : r[x] = IF x < m THEN l[x] ELSE l[x + 1]
    BY <2>0 DEF DroppedFrom
  <2> DEFINE old(x) == IF x < m THEN x ELSE x + 1
             src == [p \in DOMAIN new |-> old(i(p))]
  <2>2. \A x \in 1 .. Len(r) :
          old(x) \in 1 .. Len(l) /\ old(x) # m /\ r[x] = l[old(x)]
    BY <1>2, <2>1
  <2>3. \A x, y \in 1 .. Len(r) : x < y => old(x) < old(y)
    BY <1>2, <2>1
  <2>4. \A x \in 1 .. Len(l) : x # m => \E y \in 1 .. Len(r) : old(y) = x
    <3> TAKE x \in 1 .. Len(l)
    <3> HAVE x # m
    <3>1. CASE x < m
      <4>1. x \in 1 .. Len(r) /\ old(x) = x
        BY <3>1, <1>2, <2>1
      <4> QED
        BY <4>1
    <3>2. CASE ~ (x < m)
      <4>1. x - 1 \in 1 .. Len(r) /\ old(x - 1) = x
        BY <3>2, <1>2, <2>1
      <4> QED
        BY <4>1
    <3> QED
      BY <3>1, <3>2
  <2> HIDE DEF old
  <2>5. \A p \in DOMAIN new :
          p # k => src[p] \in DOMAIN l /\ src[p] # m /\ new[p] = l[src[p]]
    BY <1>2, <1>3, <2>2
  <2>6. \A p, q \in DOMAIN new : p # k /\ q # k /\ p < q => src[p] < src[q]
    BY <1>3, <1>4, <2>3
  <2>7. \A x \in DOMAIN l :
          l[x].tag = e.tag \/ \E p \in DOMAIN new : p # k /\ src[p] = x
    <3> TAKE x \in DOMAIN l
    <3>1. CASE x = m
      BY <3>1, <2>1
    <3>2. CASE x # m
      <4>1. PICK y \in 1 .. Len(r) : old(y) = x
        BY <3>2, <1>2, <2>4
      <4>2. PICK p \in DOMAIN new : p # k /\ i(p) = y
        BY <1>5
      <4> QED
        BY <4>1, <4>2
    <3> QED
      BY <3>1, <3>2
  <2>8. TagsDiffer(l) => \A p \in DOMAIN new : p # k => new[p].tag # e.tag
    BY <1>2, <2>1, <2>5 DEF TagsDiffer
  <2> HIDE DEF src
  <2>9. PlacedFrom(l, e, new, k, src)
    BY <1>6, <2>5, <2>6, <2>7, <2>8 DEF PlacedFrom
  <2> QED
    BY <1>1, <2>9 DEF new
<1> QED
  BY <1>7, <1>8

-----------------------------------------------------------------------------
(* The invariant of the registry.                                          *)

(* No entry is younger than the registration n. *)
Stamped(l, n) == \A i \in DOMAIN l : l[i].at <= n

(* Entries carry the tag and the priority of their action. *)
Genuine(e) == e.tag = tag[e.act] /\ e.prio = prio[e.act]

AllGenuine(l) == \A i \in DOMAIN l : Genuine(l[i])

WellFormed(l, n) ==
  /\ l \in Seq(EntryType)
  /\ TagsDiffer(l)
  /\ RunsInOrder(l)
  /\ Stamped(l, n)
  /\ AllGenuine(l)

-----------------------------------------------------------------------------

LEMMA EntriesOrdered ==
  ASSUME NEW l \in Seq(EntryType), RunsInOrder(l)
  PROVE  EntrySet(EntryType) /\ InPriorityOrder(l)
<1>1. \A i \in DOMAIN l : l[i] \in EntryType
  BY LenProperties, ElementOfSeq
<1>2. \A i \in DOMAIN l : l[i].prio \in Int
  BY <1>1 DEF EntryType
<1>3. EntrySet(EntryType)
  BY DEF EntrySet, EntryType
<1> QED
  BY <1>2, <1>3 DEF RunsInOrder, InPriorityOrder

(* One insertion of a young entry keeps the list well formed, adds its tag *)
(* and takes none away.                                                    *)
LEMMA PlaceKeeps ==
  ASSUME NEW n \in Nat, NEW l, WellFormed(l, n),
         NEW e \in EntryType, e.at = n, Genuine(e)
  PROVE  /\ WellFormed(Place(l, e), n)
         /\ Listed(Place(l, e)) = Listed(l) \cup {e.tag}
         /\ \A p \in DOMAIN Place(l, e) :
              Place(l, e)[p] = e \/ \E q \in DOMAIN l : Place(l, e)[p] = l[q]
<1> DEFINE new == Place(l, e)
<1>0. l \in Seq(EntryType) /\ TagsDiffer(l) /\ RunsInOrder(l) /\ Stamped(l, n)
      /\ AllGenuine(l)
  BY DEF WellFormed
<1>1. EntrySet(EntryType) /\ InPriorityOrder(l)
  BY <1>0, EntriesOrdered
<1>2. new \in Seq(EntryType)
  BY <1>0, <1>1, PlaceSources
<1>3. PICK k, src : PlacedFrom(l, e, new, k, src)
  BY <1>0, <1>1, PlaceSources
<1>4. /\ DOMAIN new = 1 .. Len(new) /\ Len(new) \in Nat
      /\ DOMAIN l = 1 .. Len(l) /\ Len(l) \in Nat
      /\ \A i \in DOMAIN l : l[i] \in EntryType
      /\ \A i \in DOMAIN new : new[i] \in EntryType
  BY <1>0, <1>2, LenProperties, ElementOfSeq
<1> HIDE DEF new
<1>5. k \in DOMAIN new /\ new[k] = e
  BY <1>3 DEF PlacedFrom
<1>6. \A p \in DOMAIN new : p # k => src[p] \in DOMAIN l /\ new[p] = l[src[p]]
  BY <1>3 DEF PlacedFrom
<1>7. \A p, q \in DOMAIN new : p # k /\ q # k /\ p < q => src[p] < src[q]
  BY <1>3 DEF PlacedFrom
<1>8. \A p \in DOMAIN new : p # k => new[p].tag # e.tag
  BY <1>0, <1>3 DEF PlacedFrom
<1>9. /\ \A p \in DOMAIN new : p < k => new[p].prio < e.prio
      /\ \A p \in DOMAIN new : k < p => new[p].prio >= e.prio
  BY <1>3 DEF PlacedFrom
<1>10. \A x \in DOMAIN l :
         l[x].tag = e.tag \/ \E p \in DOMAIN new : p # k /\ src[p] = x
  BY <1>3 DEF PlacedFrom
<1>11. \A p \in DOMAIN new : new[p].at \in Nat /\ new[p].at <= n
  <2> TAKE p \in DOMAIN new
  <2>1. new[p].at \in Nat
    BY <1>4 DEF EntryType
  <2>2. CASE p = k
    BY <2>1, <2>2, <1>5
  <2>3. CASE p # k
    <3>1. src[p] \in DOMAIN l /\ new[p] = l[src[p]]
      BY <2>3, <1>6
    <3>2. l[src[p]].at <= n
      BY <3>1, <1>0 DEF Stamped
    <3> QED
      BY <2>1, <3>1, <3>2
  <2> QED
    BY <2>2, <2>3
<1>12. TagsDiffer(new)
  <2> SUFFICES ASSUME NEW p \in DOMAIN new, NEW q \in DOMAIN new, p < q
               PROVE  new[p].tag # new[q].tag
    BY <1>4 DEF TagsDiffer
  <2>1. CASE p = k \/ q = k
    BY <2>1, <1>4, <1>5, <1>8
  <2>2. CASE p # k /\ q # k
    <3>1. /\ src[p] < src[q] /\ src[p] \in DOMAIN l /\ src[q] \in DOMAIN l
          /\ new[p] = l[src[p]] /\ new[q] = l[src[q]]
      BY <2>2, <1>6, <1>7
    <3>2. src[p] # src[q]
      BY <3>1, <1>4
    <3> QED
      BY <3>1, <3>2, <1>0 DEF TagsDiffer
  <2> QED
    BY <2>1, <2>2
<1>13. RunsInOrder(new)
  <2> SUFFICES ASSUME NEW p \in DOMAIN new, NEW q \in DOMAIN new, p < q
               PROVE  \/ new[p].prio < new[q].prio
                      \/ new[p].prio = new[q].prio /\ new[p].at >= new[q].at
    BY DEF RunsInOrder
  <2>1. CASE p = k
    <3>1. new[q].prio >= e.prio /\ new[p] = e /\ new[q].at <= n /\ new[q].at \in Nat
      BY <2>1, <1>5, <1>9, <1>11
    <3>2. new[q].prio \in Int /\ e.prio \in Int
      BY <1>4 DEF EntryType
    <3> QED
      BY <3>1, <3>2
  <2>2. CASE q = k
    BY <2>2, <1>5, <1>9
  <2>3. CASE p # k /\ q # k
    <3>1. /\ src[p] < src[q] /\ src[p] \in DOMAIN l /\ src[q] \in DOMAIN l
          /\ new[p] = l[src[p]] /\ new[q] = l[src[q]]
      BY <2>3, <1>6, <1>7
    <3> QED
      BY <3>1, <1>0 DEF RunsInOrder
  <2> QED
    BY <2>1, <2>2, <2>3
<1>14. \A p \in DOMAIN new : new[p] = e \/ \E q \in DOMAIN l : new[p] = l[q]
  BY <1>5, <1>6
<1>15. Stamped(new, n) /\ AllGenuine(new)
  BY <1>0, <1>11, <1>14 DEF Stamped, AllGenuine
<1>16. Listed(new) = Listed(l) \cup {e.tag}
  <2>1. Listed(new) \subseteq Listed(l) \cup {e.tag}
    BY <1>14 DEF Listed
  <2>2. e.tag \in Listed(new)
    BY <1>5 DEF Listed
  <2>3. ASSUME NEW x \in DOMAIN l
        PROVE  l[x].tag \in Listed(new)
    <3>1. CASE l[x].tag = e.tag
      BY <3>1, <2>2
    <3>2. CASE \E p \in DOMAIN new : p # k /\ src[p] = x
      BY <3>2, <1>6 DEF Listed
    <3> QED
      BY <3>1, <3>2, <1>10
  <2> QED
    BY <2>1, <2>2, <2>3 DEF Listed
<1> QED
  BY <1>2, <1>12, <1>13, <1>14, <1>15, <1>16 DEF new, WellFormed

(* A constructor call keeps the list well formed and loses no tag.         *)
LEMMA AddKeeps ==
  ASSUME CleanupAssumption, NEW n \in Nat, NEW l, WellFormed(l, n),
         NEW a \in Action
  PROVE  /\ WellFormed(Add(l, a, n + 1), n + 1)
         /\ Listed(l) \cup {tag[a]} \subseteq Listed(Add(l, a, n + 1))
<1> DEFINE e == Entry(a, n + 1)
           d == Entry(need[a], n + 1)
<1>1. n + 1 \in Nat /\ WellFormed(l, n + 1)
  <2>1. \A i \in DOMAIN l : l[i].at \in Nat /\ l[i].at <= n
    <3>1. \A i \in DOMAIN l : l[i] \in EntryType
      BY LenProperties, ElementOfSeq DEF WellFormed
    <3> QED
      BY <3>1 DEF WellFormed, Stamped, EntryType
  <2> QED
    BY <2>1 DEF WellFormed, Stamped
<1>2. e \in EntryType /\ e.at = n + 1 /\ Genuine(e) /\ e.tag = tag[a]
  BY <1>1 DEF CleanupAssumption, Entry, EntryType, Genuine
<1>3. need[a] # None => d \in EntryType /\ d.at = n + 1 /\ Genuine(d)
  BY <1>1 DEF CleanupAssumption, Entry, EntryType, Genuine
<1> HIDE DEF e, d
<1>4. /\ WellFormed(Place(l, e), n + 1)
      /\ Listed(l) \cup {tag[a]} \subseteq Listed(Place(l, e))
  BY <1>1, <1>2, PlaceKeeps
<1>5. CASE need[a] = None
  <2>1. Add(l, a, n + 1) = Place(l, e)
    BY <1>5 DEF Add, AddAlone, e
  <2> QED
    BY <2>1, <1>4
<1>6. CASE need[a] # None
  <2> DEFINE p1 == Place(Place(l, e), d)
             p2 == Place(p1, d)
  <2>1. /\ WellFormed(p1, n + 1)
        /\ Listed(Place(l, e)) \subseteq Listed(p1)
    BY <1>1, <1>3, <1>4, <1>6, PlaceKeeps
  <2> HIDE DEF p1
  <2>2. /\ WellFormed(p2, n + 1)
        /\ Listed(p1) \subseteq Listed(p2)
    <3>1. d \in EntryType /\ d.at = n + 1 /\ Genuine(d)
      BY <1>3, <1>6
    <3>2. /\ WellFormed(Place(p1, d), n + 1)
          /\ Listed(Place(p1, d)) = Listed(p1) \cup {d.tag}
      BY <1>1, <2>1, <3>1, PlaceKeeps
    <3> QED
      BY <3>2
  <2>3. Add(l, a, n + 1) = p2 \/ Add(l, a, n + 1) = Place(l, e)
    BY <1>6 DEF Add, AddWithNeed, e, d, p1
  <2> HIDE DEF p2
  <2> QED
    BY <1>4, <2>1, <2>2, <2>3
<1> QED
  BY <1>5, <1>6

(* The rest of a well-formed list is well formed.                          *)
LEMMA TailKeeps ==
  ASSUME NEW n \in Nat, NEW l, WellFormed(l, n), l # <<>>
  PROVE  /\ Head(l) \in EntryType
         /\ WellFormed(Tail(l), n)
         /\ Listed(l) = Listed(Tail(l)) \cup {Head(l).tag}
<1> DEFINE t == Tail(l)
<1>0. l \in Seq(EntryType) /\ TagsDiffer(l) /\ RunsInOrder(l) /\ Stamped(l, n)
      /\ AllGenuine(l)
  BY DEF WellFormed
<1>1. /\ Head(l) \in EntryType /\ t \in Seq(EntryType)
      /\ Len(l) \in Nat /\ Len(l) > 0 /\ Len(t) = Len(l) - 1
      /\ DOMAIN l = 1 .. Len(l) /\ DOMAIN t = 1 .. Len(l) - 1
      /\ \A i \in 1 .. Len(l) - 1 : t[i] = l[i + 1]
      /\ Head(l) = l[1]
  <2>1. Head(l) \in EntryType /\ t \in Seq(EntryType) /\ Len(t) = Len(l) - 1
    BY <1>0, HeadTailProperties
  <2>2. Len(l) \in Nat /\ Len(l) > 0 /\ DOMAIN l = 1 .. Len(l)
    BY <1>0, EmptySeq, LenProperties
  <2>3. DOMAIN t = 1 .. Len(l) - 1
    BY <2>1, LenProperties
  <2>4. \A i \in 1 .. Len(l) - 1 : t[i] = l[i + 1]
    BY <1>0, <2>2
  <2> QED
    BY <1>0, <2>1, <2>2, <2>3, <2>4
<1> HIDE DEF t
<1>2. \A i \in DOMAIN t : i + 1 \in DOMAIN l /\ t[i] = l[i + 1]
  BY <1>1
<1>3. TagsDiffer(t)
  <2> SUFFICES ASSUME NEW i \in DOMAIN t, NEW j \in DOMAIN t, t[i].tag = t[j].tag
               PROVE  i = j
    BY DEF TagsDiffer
  <2>1. i + 1 = j + 1
    BY <1>0, <1>2 DEF TagsDiffer
  <2> QED
    BY <2>1, <1>1
<1>4. RunsInOrder(t)
  <2> SUFFICES ASSUME NEW i \in DOMAIN t, NEW j \in DOMAIN t, i < j
               PROVE  \/ t[i].prio < t[j].prio
                      \/ t[i].prio = t[j].prio /\ t[i].at >= t[j].at
    BY DEF RunsInOrder
  <2>1. i + 1 < j + 1
    BY <1>1
  <2> QED
    BY <2>1, <1>0, <1>2 DEF RunsInOrder
<1>5. Stamped(t, n) /\ AllGenuine(t)
  BY <1>0, <1>2 DEF Stamped, AllGenuine
<1>6. Listed(l) = Listed(t) \cup {Head(l).tag}
  <2>1. \A i \in DOMAIN l : i = 1 \/ (i - 1 \in DOMAIN t /\ t[i - 1] = l[i])
    BY <1>1
  <2>2. 1 \in DOMAIN l
    BY <1>1
  <2> QED
    BY <1>1, <1>2, <2>1, <2>2 DEF Listed
<1> QED
  BY <1>1, <1>3, <1>4, <1>5, <1>6 DEF t, WellFormed

-----------------------------------------------------------------------------

(* The inductive invariant: besides the properties themselves it says what *)
(* the entries are, that none is younger than the last registration, and   *)
(* that the loop has an entry in hand while it works on one.               *)
Inv ==
  /\ TypeOK
  /\ WellFormed(lst, clock)
  /\ phase \in {"popped", "running"} => running \in EntryType
  /\ NothingForgotten

LEMMA InitInv == Init => Inv
<1> SUFFICES ASSUME Init PROVE Inv
  OBVIOUS
<1> USE DEF Init
<1>1. lst \in Seq(EntryType) /\ DOMAIN lst = {}
  BY EmptySeq
<1>2. TypeOK
  BY <1>1, CleanupAssumption DEF TypeOK, Phase
<1>3. WellFormed(lst, clock)
  BY <1>1 DEF WellFormed, TagsDiffer, RunsInOrder, Stamped, AllGenuine
<1> QED
  BY <1>2, <1>3 DEF Inv, NothingForgotten

(* A constructor call, by a step or by a running action. *)
LEMMA ConstructKeeps ==
  ASSUME Inv, NEW a \in Action, Construct(a),
         UNCHANGED <<phase, running, failed, kills, lost>>
  PROVE  Inv'
<1> USE CleanupAssumption
<1>1. /\ clock \in 0 .. MaxAdds /\ clock < MaxAdds /\ clock' = clock + 1
      /\ WellFormed(lst, clock)
  BY DEF Inv, TypeOK, Construct
<1>2. /\ WellFormed(lst', clock') /\ Listed(lst) \cup {tag[a]} \subseteq Listed(lst')
  <2>1. clock \in Nat /\ lst' = Add(lst, a, clock + 1)
    BY <1>1 DEF Construct
  <2> QED
    BY <1>1, <2>1, AddKeeps
<1>3. lst' \in Seq(EntryType)
  BY <1>2 DEF WellFormed
<1>4. Listed(lst') \subseteq Tag
  <2>1. \A i \in DOMAIN lst' : lst'[i] \in EntryType
    BY <1>3, LenProperties, ElementOfSeq
  <2> QED
    BY <2>1 DEF Listed, EntryType
<1>5. owed' = owed \cup Listed(lst')
  BY <1>2 DEF Construct
<1>6. TypeOK'
  BY <1>1, <1>3, <1>4, <1>5 DEF Inv, TypeOK
<1>7. NothingForgotten'
  BY <1>2, <1>5 DEF Inv, NothingForgotten, InHand
<1> QED
  BY <1>2, <1>6, <1>7 DEF Inv

LEMMA NextInv == Inv /\ [Next]_vars => Inv'
<1> SUFFICES ASSUME Inv, [Next]_vars PROVE Inv'
  OBVIOUS
<1> USE CleanupAssumption
<1>0. clock \in Nat /\ WellFormed(lst, clock) /\ TypeOK /\ NothingForgotten
  BY DEF Inv, TypeOK
<1>1. ASSUME NEW a \in Action, Register(a)
      PROVE  Inv'
  BY <1>1, ConstructKeeps DEF Register
<1>2. CASE ProcessCleanup
  <2> USE <1>2 DEF ProcessCleanup
  <2>1. TypeOK'
    BY <1>0 DEF TypeOK, Phase
  <2> QED
    BY <1>0, <2>1 DEF Inv, NothingForgotten, InHand, WellFormed, Stamped, AllGenuine
<1>3. CASE Pop
  <2> USE <1>3 DEF Pop
  <2>1. /\ Head(lst) \in EntryType
        /\ WellFormed(Tail(lst), clock)
        /\ Listed(lst) = Listed(Tail(lst)) \cup {Head(lst).tag}
    BY <1>0, TailKeeps
  <2>2. TypeOK'
    BY <1>0, <2>1 DEF TypeOK, Phase, WellFormed
  <2>3. NothingForgotten'
    BY <1>0, <2>1 DEF NothingForgotten, InHand
  <2> QED
    BY <2>1, <2>2, <2>3 DEF Inv
<1>4. CASE Try
  <2> USE <1>4 DEF Try
  <2>1. TypeOK'
    BY <1>0 DEF TypeOK, Phase
  <2> QED
    BY <1>0, <2>1 DEF Inv, NothingForgotten, InHand
<1>5. ASSUME NEW a \in Action, RegisterNested(a)
      PROVE  Inv'
  BY <1>5, ConstructKeeps DEF RegisterNested
<1>6. ASSUME NEW broken \in BOOLEAN, Done(broken)
      PROVE  Inv'
  <2> USE <1>6 DEF Done
  <2>1. running \in EntryType
    BY DEF Inv
  <2>2. Listed(lst) \subseteq Tag
    <3>1. \A i \in DOMAIN lst : lst[i] \in EntryType
      BY <1>0, LenProperties, ElementOfSeq DEF WellFormed
    <3> QED
      BY <3>1 DEF Listed, EntryType
  <2>3. TypeOK'
    BY <1>0, <2>1, <2>2 DEF TypeOK, Phase, EntryType
  <2>4. NothingForgotten'
    BY <1>0 DEF NothingForgotten, InHand
  <2> QED
    BY <1>0, <2>3, <2>4 DEF Inv
<1>7. CASE Return
  <2> USE <1>7 DEF Return
  <2>1. TypeOK'
    BY <1>0 DEF TypeOK, Phase
  <2> QED
    BY <1>0, <2>1 DEF Inv, NothingForgotten, InHand
<1>8. CASE Kill
  <2> USE <1>8 DEF Kill
  <2>1. InHand \subseteq Tag
    BY DEF Inv, InHand, EntryType
  <2>2. TypeOK'
    BY <1>0, <2>1 DEF TypeOK, Phase
  <2>3. NothingForgotten'
    BY <1>0 DEF NothingForgotten, InHand
  <2> QED
    BY <1>0, <2>2, <2>3 DEF Inv
<1>9. CASE BeforeScenario
  <2> USE <1>9 DEF BeforeScenario
  <2>1. TypeOK'
    BY <1>0 DEF TypeOK, Phase
  <2> QED
    BY <1>0, <2>1 DEF Inv, NothingForgotten, InHand
<1>10. CASE UNCHANGED vars
  BY <1>0, <1>10 DEF Inv, vars, TypeOK, NothingForgotten, InHand
<1> QED
  BY <1>1, <1>2, <1>3, <1>4, <1>5, <1>6, <1>7, <1>8, <1>9, <1>10 DEF Next

LEMMA InvHolds == Spec => []Inv
BY InitInv, NextInv, PTL DEF Spec

(* The registry's variables keep their types. *)
THEOREM TypeCorrect == Spec => []TypeOK
BY InvHolds, PTL DEF Inv

(* A restoration is scheduled once, whatever the order of registrations. *)
THEOREM TagsUnique == Spec => []OnePerTag
<1>1. Inv => OnePerTag
  BY DEF Inv, OnePerTag, WellFormed
<1> QED
  BY <1>1, InvHolds, PTL

(* Lower priorities run first, and later registrations first among equals. *)
THEOREM RollbackOrder == Spec => []Ordered
<1>1. Inv => Ordered
  BY DEF Inv, Ordered, WellFormed
<1> QED
  BY <1>1, InvHolds, PTL

(* No registered restoration is dropped but by a signal. *)
THEOREM NoneDropped == Spec => []NothingForgotten
BY InvHolds, PTL DEF Inv

-----------------------------------------------------------------------------
(***************************************************************************)
(* Dependents.  That the needed action is listed at all is inductive; that *)
(* it stands behind the one that needs it then follows from the order.     *)
(***************************************************************************)

NeedsListed(l) ==
  \A i \in DOMAIN l :
    need[l[i].act] # None => tag[need[l[i].act]] \in Listed(l)

LEMMA AddKeepsNeeds ==
  ASSUME CleanupAssumption, TagsTellNeeds, NEW n \in Nat, NEW l,
         WellFormed(l, n), NeedsListed(l), NEW a \in Action
  PROVE  NeedsListed(Add(l, a, n + 1))
<1> DEFINE new == Add(l, a, n + 1)
           e == Entry(a, n + 1)
           d == Entry(need[a], n + 1)
<1>0. n + 1 \in Nat /\ WellFormed(l, n + 1)
  <2>1. \A i \in DOMAIN l : l[i] \in EntryType
    BY LenProperties, ElementOfSeq DEF WellFormed
  <2> QED
    BY <2>1 DEF WellFormed, Stamped, EntryType
<1>1. e \in EntryType /\ e.at = n + 1 /\ Genuine(e) /\ e.act = a /\ e.tag = tag[a]
  BY <1>0 DEF CleanupAssumption, Entry, EntryType, Genuine
<1>2. need[a] # None =>
        /\ d \in EntryType /\ d.at = n + 1 /\ Genuine(d)
        /\ d.act = need[a] /\ d.tag = tag[need[a]] /\ need[d.act] = None
  BY <1>0 DEF CleanupAssumption, Entry, EntryType, Genuine
<1> HIDE DEF e, d
<1> DEFINE one == Place(l, e)
<1>3. /\ WellFormed(one, n + 1)
      /\ Listed(one) = Listed(l) \cup {e.tag}
      /\ \A p \in DOMAIN one : one[p] = e \/ \E q \in DOMAIN l : one[p] = l[q]
  BY <1>0, <1>1, PlaceKeeps
<1> HIDE DEF one
<1>4. CASE need[a] = None
  <2>1. new = one
    BY <1>4 DEF Add, AddAlone, one, e
  <2> QED
    BY <1>1, <1>3, <1>4, <2>1 DEF NeedsListed
<1>5. CASE need[a] # None /\ Duplicates(l, e) = {}
  <2> DEFINE two == Place(one, d)
             three == Place(two, d)
  <2>1. /\ WellFormed(two, n + 1)
        /\ Listed(two) = Listed(one) \cup {d.tag}
        /\ \A p \in DOMAIN two : two[p] = d \/ \E q \in DOMAIN one : two[p] = one[q]
    BY <1>0, <1>2, <1>3, <1>5, PlaceKeeps
  <2> HIDE DEF two
  <2>2. /\ Listed(three) = Listed(two) \cup {d.tag}
        /\ \A p \in DOMAIN three : three[p] = d \/ \E q \in DOMAIN two : three[p] = two[q]
    BY <1>0, <1>2, <1>5, <2>1, PlaceKeeps
  <2> HIDE DEF three
  <2>3. new = three
    BY <1>5 DEF Add, AddWithNeed, one, two, three, e, d
  <2>4. Listed(three) = Listed(l) \cup {e.tag, d.tag}
    BY <1>3, <2>1, <2>2
  <2>5. \A p \in DOMAIN three :
          three[p] = d \/ three[p] = e \/ \E q \in DOMAIN l : three[p] = l[q]
    BY <1>3, <2>1, <2>2
  <2>6. NeedsListed(three)
    BY <1>1, <1>2, <1>5, <2>4, <2>5 DEF NeedsListed
  <2> QED
    BY <2>3, <2>6
<1>6. CASE need[a] # None /\ Duplicates(l, e) # {}
  <2>1. new = one
    BY <1>6 DEF Add, AddWithNeed, one, e
  <2>2. PICK i \in DOMAIN l : l[i].tag = e.tag
    BY <1>6 DEF Duplicates
  <2>3. l[i].act \in Action /\ tag[l[i].act] = tag[a]
    <3>1. l[i] \in EntryType
      BY LenProperties, ElementOfSeq DEF WellFormed
    <3> QED
      BY <1>1, <2>2, <3>1 DEF WellFormed, AllGenuine, Genuine, EntryType
  <2>4. need[l[i].act] # None /\ tag[need[l[i].act]] = tag[need[a]]
    BY <1>6, <2>3 DEF TagsTellNeeds
  <2>5. tag[need[a]] \in Listed(l)
    BY <2>4 DEF NeedsListed
  <2>6. NeedsListed(one)
    BY <1>1, <1>3, <2>5 DEF NeedsListed
  <2> QED
    BY <2>1, <2>6
<1> QED
  BY <1>4, <1>5, <1>6

LEMMA TailKeepsNeeds ==
  ASSUME CleanupAssumption, NeedsRunLater, NEW n \in Nat, NEW l,
         WellFormed(l, n), NeedsListed(l), l # <<>>
  PROVE  NeedsListed(Tail(l))
<1> DEFINE t == Tail(l)
<1>1. /\ l \in Seq(EntryType) /\ RunsInOrder(l) /\ AllGenuine(l)
      /\ Len(l) \in Nat /\ Len(l) > 0
      /\ DOMAIN l = 1 .. Len(l) /\ DOMAIN t = 1 .. Len(l) - 1
      /\ \A i \in 1 .. Len(l) - 1 : t[i] = l[i + 1]
      /\ \A i \in DOMAIN l : l[i] \in EntryType
  <2>1. l \in Seq(EntryType) /\ RunsInOrder(l) /\ AllGenuine(l)
    BY DEF WellFormed
  <2>2. Len(l) \in Nat /\ Len(l) > 0 /\ DOMAIN l = 1 .. Len(l)
    BY <2>1, EmptySeq, LenProperties
  <2>3. t \in Seq(EntryType) /\ Len(t) = Len(l) - 1
    BY <2>1, HeadTailProperties
  <2>4. DOMAIN t = 1 .. Len(l) - 1
    BY <2>3, LenProperties
  <2>5. \A i \in 1 .. Len(l) - 1 : t[i] = l[i + 1]
    BY <2>1, <2>2
  <2>6. \A i \in DOMAIN l : l[i] \in EntryType
    BY <2>1, <2>2, ElementOfSeq
  <2> QED
    BY <2>1, <2>2, <2>4, <2>5, <2>6
<1> HIDE DEF t
<1> SUFFICES ASSUME NEW i \in DOMAIN t, need[t[i].act] # None
             PROVE  tag[need[t[i].act]] \in Listed(t)
  BY DEF NeedsListed, t
<1>2. i + 1 \in DOMAIN l /\ t[i] = l[i + 1] /\ 1 < i + 1 /\ 1 \in DOMAIN l
  BY <1>1
<1>3. PICK j \in DOMAIN l : l[j].tag = tag[need[t[i].act]]
  <2> DEFINE b == i + 1
  <2>1. b \in DOMAIN l /\ t[i] = l[b]
    BY <1>2
  <2> HIDE DEF b
  <2>2. tag[need[l[b].act]] \in Listed(l)
    BY <2>1 DEF NeedsListed
  <2> QED
    BY <2>1, <2>2 DEF Listed
<1>4. /\ l[j].act \in Action /\ t[i].act \in Action
      /\ l[j].tag = tag[l[j].act] /\ l[j].prio = prio[l[j].act]
      /\ t[i].prio = prio[t[i].act]
  BY <1>1, <1>2 DEF AllGenuine, Genuine, EntryType
<1>5. t[i].prio < l[j].prio
  <2>1. \A a, b \in Action :
          need[a] # None /\ tag[b] = tag[need[a]] => prio[a] < prio[b]
    BY DEF NeedsRunLater
  <2>2. tag[l[j].act] = tag[need[t[i].act]]
    BY <1>3, <1>4
  <2>3. prio[t[i].act] < prio[l[j].act]
    BY <2>1, <2>2, <1>4
  <2> QED
    BY <2>3, <1>4
<1>6. j # 1
  <2> SUFFICES ASSUME j = 1 PROVE FALSE
    OBVIOUS
  <2>1. l[1].prio \in Int /\ t[i].prio \in Int
    BY <1>1, <1>2 DEF EntryType
  <2>2. l[1].prio < t[i].prio \/ l[1].prio = t[i].prio
    <3> DEFINE b == i + 1
    <3>1. RunsInOrder(l) /\ 1 \in DOMAIN l /\ b \in DOMAIN l /\ 1 < b /\ t[i] = l[b]
      BY <1>1, <1>2
    <3> HIDE DEF b
    <3> QED
      BY <3>1 DEF RunsInOrder
  <2> QED
    BY <1>5, <2>1, <2>2
<1>7. j - 1 \in DOMAIN t /\ t[j - 1] = l[j]
  BY <1>1, <1>6
<1> QED
  BY <1>3, <1>7 DEF Listed

LEMMA NeedsStep ==
  ASSUME TagsTellNeeds, NeedsRunLater, Inv, NeedsListed(lst), [Next]_vars
  PROVE  NeedsListed(lst')
<1> USE CleanupAssumption
<1>0. clock \in Nat /\ WellFormed(lst, clock)
  BY DEF Inv, TypeOK
<1>1. ASSUME NEW a \in Action, Construct(a)
      PROVE  NeedsListed(lst')
  BY <1>0, <1>1, AddKeepsNeeds DEF Construct
<1>2. CASE Pop
  BY <1>0, <1>2, TailKeepsNeeds DEF Pop
<1>3. CASE UNCHANGED lst
  BY <1>3
<1> QED
  BY <1>1, <1>2, <1>3 DEF Next, vars, Register, RegisterNested, ProcessCleanup,
       Try, Done, Return, Kill, BeforeScenario

(* Where tags tell needs apart and needed actions have later priorities,   *)
(* an action never runs after what it needs.                               *)
THEOREM DependentsBehind ==
  ASSUME TagsTellNeeds, NeedsRunLater
  PROVE  Spec => []NeedsBehind
<1>1. Init => NeedsListed(lst)
  BY DEF Init, NeedsListed
<1>2. Inv /\ NeedsListed(lst) /\ [Next]_vars => NeedsListed(lst)'
  BY NeedsStep
<1>3. Inv /\ NeedsListed(lst) => NeedsBehind
  <2> SUFFICES ASSUME Inv, NeedsListed(lst),
                      NEW i \in DOMAIN lst, need[lst[i].act] # None
               PROVE  \E j \in DOMAIN lst : i < j /\ lst[j].tag = tag[need[lst[i].act]]
    BY DEF NeedsBehind
  <2>1. /\ lst \in Seq(EntryType) /\ RunsInOrder(lst) /\ AllGenuine(lst)
        /\ DOMAIN lst = 1 .. Len(lst) /\ Len(lst) \in Nat
        /\ \A x \in DOMAIN lst : lst[x] \in EntryType
    BY LenProperties, ElementOfSeq DEF Inv, WellFormed
  <2>2. PICK j \in DOMAIN lst : lst[j].tag = tag[need[lst[i].act]]
    BY DEF NeedsListed, Listed
  <2>3. lst[i].prio < lst[j].prio
    <3>1. /\ lst[j].act \in Action /\ lst[i].act \in Action
          /\ lst[j].tag = tag[lst[j].act] /\ lst[j].prio = prio[lst[j].act]
          /\ lst[i].prio = prio[lst[i].act]
      BY <2>1 DEF AllGenuine, Genuine, EntryType
    <3> QED
      BY <2>2, <3>1 DEF NeedsRunLater
  <2>4. ~ (j <= i)
    <3> SUFFICES ASSUME j <= i PROVE FALSE
      OBVIOUS
    <3>1. lst[i].prio \in Int /\ lst[j].prio \in Int
      BY <2>1 DEF EntryType
    <3>2. j < i
      BY <2>1, <2>3, <3>1
    <3> QED
      BY <2>1, <2>3, <3>1, <3>2 DEF RunsInOrder
  <2> QED
    BY <2>1, <2>2, <2>4
<1> QED
  BY <1>1, <1>2, <1>3, InvHolds, PTL DEF Spec

-----------------------------------------------------------------------------
(***************************************************************************)
(* The refinement.  A list that was processed to its end is empty until    *)
(* the next scenario.                                                      *)
(***************************************************************************)

ReturnedEmpty == phase = "returned" => lst = <<>>

LEMMA ReturnedStep == Inv /\ ReturnedEmpty /\ [Next]_vars => ReturnedEmpty'
BY DEF ReturnedEmpty, Next, vars, Register, RegisterNested, Construct,
   ProcessCleanup, Pop, Try, Done, Return, Kill, BeforeScenario

(* A constructor call asks for restorations; none that was pending goes.   *)
LEMMA ConstructAsks ==
  ASSUME Inv, Inv', NEW a \in Action, Construct(a),
         UNCHANGED <<phase, running>>, phase \in {"scenario", "running"}
  PROVE  Promise!Ask
<1>1. Listed(lst) \subseteq Listed(lst')
  <2>1. clock \in Nat /\ WellFormed(lst, clock) /\ lst' = Add(lst, a, clock + 1)
    BY CleanupAssumption DEF Inv, TypeOK, Construct
  <2> QED
    BY <2>1, AddKeeps, CleanupAssumption
<1>2. Listed(lst)' \subseteq Tag /\ Listed(lst)' = Listed(lst')
  <2>1. lst' \in Seq(EntryType)
    BY DEF Inv, WellFormed
  <2>2. \A i \in DOMAIN lst' : lst'[i] \in EntryType
    BY <2>1, LenProperties, ElementOfSeq
  <2> QED
    BY <2>2 DEF Listed, EntryType
<1>3. Mode' = Mode /\ InHand' = InHand
  BY DEF Mode, InHand
<1>4. Mode = "open" \/ InHand # {}
  BY DEF Mode, InHand
<1>5. \E asked \in SUBSET Tag : Listed(lst)' = Listed(lst) \cup asked
  <2>1. Listed(lst)' = Listed(lst) \cup Listed(lst)'
    BY <1>1, <1>2
  <2> QED
    BY <1>2, <2>1
<1> QED
  BY <1>3, <1>4, <1>5 DEF Promise!Ask

(* Popping takes exactly one tag out of the list, as tags are distinct.    *)
LEMMA HeadLeaves ==
  ASSUME NEW n \in Nat, NEW l, WellFormed(l, n), l # <<>>
  PROVE  /\ Listed(l) = Listed(Tail(l)) \cup {Head(l).tag}
         /\ Head(l).tag \notin Listed(Tail(l))
<1>1. l \in Seq(EntryType) /\ TagsDiffer(l)
  BY DEF WellFormed
<1>2. /\ Len(l) \in Nat /\ Len(l) > 0 /\ DOMAIN l = 1 .. Len(l)
      /\ Tail(l) \in Seq(EntryType) /\ Len(Tail(l)) = Len(l) - 1
  BY <1>1, EmptySeq, LenProperties, HeadTailProperties
<1>3. /\ DOMAIN Tail(l) = 1 .. Len(l) - 1
      /\ \A i \in 1 .. Len(l) - 1 : Tail(l)[i] = l[i + 1]
      /\ Head(l) = l[1]
  BY <1>1, <1>2, LenProperties
<1>4. ASSUME NEW i \in 1 .. Len(l) - 1
      PROVE  Tail(l)[i].tag # Head(l).tag
  <2>1. i + 1 \in DOMAIN l /\ 1 \in DOMAIN l /\ i + 1 # 1
    BY <1>2
  <2>2. l[i + 1].tag # l[1].tag
    BY <1>1, <2>1 DEF TagsDiffer
  <2> QED
    BY <1>3, <2>2
<1> QED
  BY <1>3, <1>4, TailKeeps DEF Listed

(* Every step of the registry is one that Registry allows, or none. *)
LEMMA StepRefines ==
  ASSUME Inv, Inv', ReturnedEmpty, [Next]_vars
  PROVE  [Promise!Next]_(Promise!vars)
<1> USE DEF Promise!Next, Promise!vars
<1>1. ASSUME NEW a \in Action, Register(a)
      PROVE  Promise!Ask
  BY <1>1, ConstructAsks DEF Register
<1>2. CASE ProcessCleanup
  <2>1. Promise!Begin
    BY <1>2 DEF ProcessCleanup, Promise!Begin, Mode, InHand, Listed
  <2> QED
    BY <2>1
<1>3. CASE Pop
  <2>1. /\ clock \in Nat /\ WellFormed(lst, clock) /\ lst # <<>>
        /\ phase = "cleanup" /\ phase' = "popped"
        /\ running' = Head(lst) /\ lst' = Tail(lst)
    BY <1>3, CleanupAssumption DEF Pop, Inv, TypeOK
  <2>2. /\ Listed(lst) = Listed(lst') \cup {Head(lst).tag}
        /\ Head(lst).tag \notin Listed(lst')
    BY <2>1, HeadLeaves
  <2>3. InHand = {} /\ InHand' = {Head(lst).tag}
    BY <2>1 DEF InHand
  <2>4. Mode = "undoing" /\ Mode' = "undoing"
    BY <2>1 DEF Mode
  <2>5. Listed(lst)' = Listed(lst) \ {Head(lst).tag} /\ Head(lst).tag \in Listed(lst)
    BY <2>2 DEF Listed
  <2>6. Promise!Take
    BY <2>3, <2>4, <2>5 DEF Promise!Take
  <2> QED
    BY <2>6
<1>4. CASE Try
  BY <1>4 DEF Try, Mode, InHand, Listed
<1>5. ASSUME NEW a \in Action, RegisterNested(a)
      PROVE  Promise!Ask
  BY <1>5, ConstructAsks DEF RegisterNested
<1>6. ASSUME NEW broken \in BOOLEAN, Done(broken)
      PROVE  Promise!Finish
  BY <1>6 DEF Done, Promise!Finish, Mode, InHand, Listed
<1>7. CASE Return
  <2>1. Listed(lst) = {} /\ Listed(lst)' = {} /\ InHand = {} /\ InHand' = {}
    BY <1>7, EmptySeq DEF Return, Listed, InHand
  <2>2. Promise!Close
    BY <1>7, <2>1 DEF Return, Promise!Close, Mode
  <2> QED
    BY <2>2
<1>8. CASE Kill
  <2>1. Promise!Break
    BY <1>8 DEF Kill, Promise!Break, Mode, InHand, Listed
  <2> QED
    BY <2>1
<1>9. CASE BeforeScenario
  <2>1. CASE lst = <<>>
    <3>1. Listed(lst) = {} /\ Listed(lst)' = {} /\ InHand = {} /\ InHand' = {}
      BY <1>9, <2>1, EmptySeq DEF BeforeScenario, Listed, InHand
    <3>2. Promise!Reopen
      BY <1>9, <2>1, <3>1 DEF BeforeScenario, Promise!Reopen, Mode
    <3> QED
      BY <3>2
  <2>2. CASE lst # <<>>
    BY <1>9, <2>2 DEF BeforeScenario, ReturnedEmpty, Mode, InHand, Listed
  <2> QED
    BY <2>1, <2>2
<1>10. CASE UNCHANGED vars
  BY <1>10 DEF vars, Mode, InHand, Listed
<1> QED
  BY <1>1, <1>2, <1>3, <1>4, <1>5, <1>6, <1>7, <1>8, <1>9, <1>10 DEF Next

(* The list with its merging and ordering implements what Registry says of *)
(* it, for every set of actions and every number of signals: nothing       *)
(* pending is dropped, undone twice at a time or left over at the end.     *)
THEOREM PromiseKept == Spec => KeepsPromise
<1>1. Init => Promise!Init
  BY EmptySeq DEF Init, Promise!Init, Listed, InHand, Mode
<1>2. Init => ReturnedEmpty
  BY DEF Init, ReturnedEmpty
<1>3. Inv /\ Inv' /\ ReturnedEmpty /\ [Next]_vars => [Promise!Next]_(Promise!vars)
  BY StepRefines
<1> QED
  BY <1>1, <1>2, <1>3, ReturnedStep, InvHolds, PTL DEF Spec, KeepsPromise, Promise!Spec
=============================================================================
