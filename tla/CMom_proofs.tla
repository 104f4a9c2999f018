----------------------------- MODULE CMom_proofs -----------------------------
(***************************************************************************)
(* Lemmas about the lists of CMom: what a method finds, and that adding    *)
(* and removing keep a list well formed, for any identifiers and objects.  *)
(***************************************************************************)
EXTENDS CMom, FiniteSetTheorems, NaturalsInduction, WellFoundedInduction, TLAPS

\* A set of numbers has a least one: there is a first slot to stop at.
LEMMA Least ==
  ASSUME NEW T \in SUBSET Nat, T # {}
  PROVE  \E x \in T : \A y \in T : x <= y
<1> DEFINE R == {ss \in Nat \X Nat : ss[1] < ss[2]}
<1>0. R = OpToRel(<, Nat) BY Zenon DEF OpToRel
<1>1. IsWellFoundedOn(R, Nat)
  <2> HIDE DEF R
  <2> QED BY <1>0, NatLessThanWellFounded, Zenon
<1>2. PICK x \in T : \A y \in T : ~ (<<y, x>> \in R)
  <2> HIDE DEF R
  <2> QED BY <1>1, WFMin
<1>3. \A y \in T : x <= y
  <2> TAKE y \in T
  <2>1. x \in Nat /\ y \in Nat OBVIOUS
  <2>2. ~ (y < x) BY <2>1, <1>2
  <2> QED BY <2>1, <2>2
<1> QED BY <1>3

\* The slots of a list, and each of them.
LEMMA SlotsOf ==
  ASSUME NEW I, NEW O, NEW m \in ListOf(I, O)
  PROVE  /\ TotalElements(m) \in Nat
         /\ Entries(m) \subseteq Nat \ {0}
         /\ IsFiniteSet(Entries(m))
         /\ Cardinality(Entries(m)) = TotalElements(m)
         /\ \A i \in Entries(m) : /\ m.slot[i].id \in I \cup {FREE_ITEM}
                                  /\ m.slot[i].obj \in O \cup {NULL}
                                  /\ m.slot[i] = [id |-> m.slot[i].id, obj |-> m.slot[i].obj]
         /\ m.iInUse \in Nat /\ m.iNextID \in Nat
<1> DEFINE S == [id : I \cup {FREE_ITEM}, obj : O \cup {NULL}]
<1>1. m.slot \in Seq(S) /\ m.iInUse \in Nat /\ m.iNextID \in Nat BY DEF ListOf
<1>2. TotalElements(m) \in Nat /\ \A i \in Entries(m) : m.slot[i] \in S
  <2> HIDE DEF S
  <2> QED BY <1>1 DEF TotalElements, Entries
<1>3. \A i \in Entries(m) : /\ m.slot[i].id \in I \cup {FREE_ITEM}
                            /\ m.slot[i].obj \in O \cup {NULL}
                            /\ m.slot[i] = [id |-> m.slot[i].id, obj |-> m.slot[i].obj]
  BY <1>2
<1>4. IsFiniteSet(1 .. TotalElements(m)) /\ Cardinality(1 .. TotalElements(m)) = TotalElements(m)
  BY <1>2, FS_Interval, 1 \in Int
<1> QED BY <1>1, <1>2, <1>3, <1>4 DEF Entries

\* The loop that looks for an identifier stops at a slot that has it.
LEMMA FirstIs ==
  ASSUME NEW I, NEW O, NEW m \in ListOf(I, O), NEW id, Holds(m, id)
  PROVE  First(m, id) \in Entries(m) /\ m.slot[First(m, id)].id = id
<1> DEFINE T == {i \in Entries(m) : m.slot[i].id = id}
<1>1. T \in SUBSET Nat /\ T # {} BY SlotsOf DEF Holds
<1>2. PICK x \in T : \A y \in T : x <= y BY <1>1, Least
<1>3. IsFirst(m, x, id)
  <2>1. x \in Entries(m) /\ m.slot[x].id = id OBVIOUS
  <2>2. x \in Nat /\ TotalElements(m) \in Nat BY <1>1, SlotsOf
  <2>3. ASSUME NEW j \in 1 .. x - 1, m.slot[j].id = id PROVE FALSE
    <3>1. j \in Entries(m) BY <2>1, <2>2 DEF Entries
    <3>2. j \in T BY <3>1, <2>3
    <3> QED BY <3>2, <1>2, <2>2
  <2> QED BY <2>1, <2>3 DEF IsFirst
<1>4. \E i \in Entries(m) : IsFirst(m, i, id) BY <1>3
<1>5. First(m, id) \in Entries(m) /\ IsFirst(m, First(m, id), id) BY <1>4 DEF First
<1> QED BY <1>5 DEF IsFirst

\* What is looked up is what a slot in use has.
LEMMA LookupIs ==
  ASSUME NEW I, NEW O, NEW m \in ListOf(I, O), NEW id, id # FREE_ITEM
  PROVE  /\ Lookup(m, id) # NULL =>
              \E i \in Occupied(m) : m.slot[i].id = id /\ m.slot[i].obj = Lookup(m, id)
         /\ Lookup(m, id) \in O \cup {NULL}
         /\ WellFormed(m) =>
              /\ \A i \in Occupied(m) : m.slot[i].id = id => Lookup(m, id) = m.slot[i].obj
              /\ Lookup(m, id) = NULL => ~ Holds(m, id)
<1>1. CASE Holds(m, id)
  <2>1. First(m, id) \in Entries(m) /\ m.slot[First(m, id)].id = id BY <1>1, FirstIs
  <2>2. Lookup(m, id) = m.slot[First(m, id)].obj BY <1>1 DEF Lookup
  <2>3. First(m, id) \in Occupied(m) BY <2>1 DEF Occupied
  <2>4. Lookup(m, id) \in O \cup {NULL}
    <3>1. \A i \in Entries(m) : m.slot[i].obj \in O \cup {NULL} BY SlotsOf
    <3> QED BY <2>1, <2>2, <3>1
  <2>5. ASSUME WellFormed(m) PROVE Lookup(m, id) # NULL
    BY <2>1, <2>2, <2>5 DEF WellFormed
  <2>6. ASSUME WellFormed(m), NEW i \in Occupied(m), m.slot[i].id = id
        PROVE  Lookup(m, id) = m.slot[i].obj
    <3>1. i = First(m, id) BY <2>1, <2>3, <2>6 DEF WellFormed
    <3> QED BY <3>1, <2>2
  <2> QED BY <2>1, <2>2, <2>3, <2>4, <2>5, <2>6
<1>2. CASE ~ Holds(m, id)
  BY <1>2 DEF Lookup, Holds, Occupied
<1> QED BY <1>1, <1>2

\* A new list is well formed and empty.
LEMMA InitIs ==
  ASSUME NEW I, NEW O, NEW n \in Nat
  PROVE  /\ InitMom(n) \in ListOf(I, O)
         /\ WellFormed(InitMom(n))
         /\ Occupied(InitMom(n)) = {}
<1> DEFINE S == [id : I \cup {FREE_ITEM}, obj : O \cup {NULL}]
           m == InitMom(n)
<1>1. FreeSlot \in S BY DEF FreeSlot
<1>2. [i \in 1 .. n |-> FreeSlot] \in Seq(S)
  <2> HIDE DEF S
  <2> QED BY <1>1
<1>3. m \in ListOf(I, O) BY <1>2 DEF InitMom, ListOf
<1>4. Entries(m) = 1 .. n /\ \A i \in 1 .. n : m.slot[i] = FreeSlot
  BY DEF InitMom, Entries, TotalElements
<1>5. Occupied(m) = {} BY <1>4 DEF Occupied, FreeSlot
<1>6. m.iInUse = 0 BY DEF InitMom
<1>7. Cardinality({}) = 0 BY FS_EmptySet
<1>8. \A i \in Entries(m) : m.slot[i].obj = NULL <=> m.slot[i].id = FREE_ITEM
  BY <1>4 DEF FreeSlot
<1> HIDE DEF m
<1>9. WellFormed(m) BY <1>5, <1>6, <1>7, <1>8 DEF WellFormed
<1> QED BY <1>3, <1>5, <1>9 DEF m

\* A list that is added to has one more slot in use, with the new object.
LEMMA AddIs ==
  ASSUME NEW I, NEW O, NEW m \in ListOf(I, O), WellFormed(m), FREE_ITEM \notin I, NULL \notin O,
         NEW id \in I, NEW obj \in O, ~ Holds(m, id)
  PROVE  LET a == AddToList(m, id, obj)
         IN  /\ a \in ListOf(I, O)
             /\ WellFormed(a)
             /\ a.iNextID = m.iNextID
             /\ \E k \in Occupied(a) :
                  /\ k \notin Occupied(m)
                  /\ Occupied(a) = Occupied(m) \cup {k}
                  /\ a.slot[k] = [id |-> id, obj |-> obj]
                  /\ \A i \in Occupied(m) : a.slot[i] = m.slot[i]
<1> DEFINE a == AddToList(m, id, obj)
           S == [id : I \cup {FREE_ITEM}, obj : O \cup {NULL}]
           new == [id |-> id, obj |-> obj]
           N == TotalElements(m)
<1>1. m.slot \in Seq(S) /\ N \in Nat /\ m.iInUse \in Nat BY SlotsOf DEF ListOf
<1>2. new \in S OBVIOUS
<1> DEFINE grown == IF m.iInUse >= N THEN Append(m.slot, new)
                   ELSE [m.slot EXCEPT ![First(m, FREE_ITEM)] = new]
<1>3. a = [slot |-> grown, iInUse |-> m.iInUse + 1, iNextID |-> m.iNextID]
  <2>1. m = [slot |-> m.slot, iInUse |-> m.iInUse, iNextID |-> m.iNextID]
    BY DEF ListOf
  <2>2. a = [m EXCEPT !.slot = grown, !.iInUse = m.iInUse + 1]
    <3>1. a = [m EXCEPT !.slot = IF m.iInUse >= N THEN Append(m.slot, new)
                                 ELSE [m.slot EXCEPT ![First(m, FREE_ITEM)] = new],
                        !.iInUse = m.iInUse + 1] BY Zenon DEF AddToList
    <3> QED BY <3>1, Zenon
  <2> HIDE DEF grown, a
  <2> QED BY <2>1, <2>2
<1>3a. /\ a.iInUse = m.iInUse + 1
       /\ a.iNextID = m.iNextID
       /\ a.slot = IF m.iInUse >= N THEN Append(m.slot, new)
                   ELSE [m.slot EXCEPT ![First(m, FREE_ITEM)] = new]
  BY <1>3
<1>4. Occupied(m) \subseteq Entries(m) /\ IsFiniteSet(Occupied(m))
  BY SlotsOf, FS_Subset DEF Occupied
<1>5. m.iInUse = Cardinality(Occupied(m)) BY DEF WellFormed
<1>6. PICK k \in Nat : /\ k \notin Occupied(m)
                       /\ a.slot \in Seq(S)
                       /\ Entries(a) = Entries(m) \cup {k}
                       /\ a.slot[k] = new
                       /\ \A i \in Entries(m) : i # k => a.slot[i] = m.slot[i]
  <2>1. CASE m.iInUse >= N
    <3>1. a.slot = Append(m.slot, new) BY <1>3a, <2>1
    <3>2. a.slot \in Seq(S) /\ Len(a.slot) = N + 1 /\ a.slot[N + 1] = new
          /\ \A i \in 1 .. N : a.slot[i] = m.slot[i]
      <4> HIDE DEF S, new, a
      <4> QED BY <1>1, <1>2, <3>1 DEF TotalElements
    <3>3. Entries(a) = Entries(m) \cup {N + 1} BY <3>2, <1>1 DEF Entries, TotalElements
    <3>4. N + 1 \notin Occupied(m) BY <1>1, <1>4 DEF Entries
    <3>5. Entries(m) = 1 .. N BY DEF Entries
    <3> QED BY <1>1, <3>2, <3>3, <3>4, <3>5
  <2>2. CASE ~ (m.iInUse >= N)
    <3>1. Holds(m, FREE_ITEM)
      <4> SUFFICES ASSUME ~ Holds(m, FREE_ITEM) PROVE FALSE OBVIOUS
      <4>1. Occupied(m) = Entries(m) BY DEF Holds, Occupied
      <4> QED BY <4>1, <1>1, <1>5, <2>2, SlotsOf
    <3> DEFINE f == First(m, FREE_ITEM)
    <3>2. f \in Entries(m) /\ m.slot[f].id = FREE_ITEM BY <3>1, FirstIs
    <3>3. f \in Nat /\ f \notin Occupied(m) BY <3>2, SlotsOf DEF Occupied
    <3>4. a.slot = [m.slot EXCEPT ![f] = new] BY <1>3a, <2>2
    <3>5. a.slot \in Seq(S) /\ Len(a.slot) = N /\ a.slot[f] = new
          /\ \A i \in Entries(m) : i # f => a.slot[i] = m.slot[i]
      <4> HIDE DEF S, new, a, f
      <4> QED BY <1>1, <1>2, <3>2, <3>4 DEF TotalElements, Entries
    <3>6. Entries(a) = Entries(m) \cup {f} BY <3>5, <3>2 DEF Entries, TotalElements
    <3> QED BY <3>3, <3>5, <3>6
  <2> QED BY <2>1, <2>2
<1>7. a \in ListOf(I, O)
  <2>1. m.iInUse + 1 \in Nat /\ m.iNextID \in Nat BY <1>1, SlotsOf
  <2> HIDE DEF a
  <2>2. a = [slot |-> a.slot, iInUse |-> m.iInUse + 1, iNextID |-> m.iNextID]
    BY <1>3, <1>3a
  <2> HIDE DEF grown
  <2> QED BY <1>6, <2>1, <2>2 DEF ListOf
<1>8. Occupied(a) = Occupied(m) \cup {k} BY <1>6 DEF Occupied
<1>9. \A i \in Occupied(m) : a.slot[i] = m.slot[i] BY <1>6, <1>4
<1> HIDE DEF a
<1>10. WellFormed(a)
  <2>1. a.iInUse = Cardinality(Occupied(a))
    <3>1. Cardinality(Occupied(m) \cup {k}) = Cardinality(Occupied(m)) + 1
      BY <1>4, <1>6, FS_AddElement
    <3> QED BY <1>5, <1>8, <1>3a, <3>1
  <2>2. ASSUME NEW i \in Occupied(a), NEW j \in Occupied(a), a.slot[i].id = a.slot[j].id
        PROVE  i = j
    <3>1. \A x \in Occupied(m) : a.slot[x].id # id BY <1>9, <1>4 DEF Holds
    <3>2. a.slot[k].id = id BY <1>6
    <3>3. CASE i = k \/ j = k BY <3>1, <3>2, <3>3, <2>2, <1>8
    <3>4. CASE i \in Occupied(m) /\ j \in Occupied(m) BY <3>4, <2>2, <1>9 DEF WellFormed
    <3> QED BY <3>3, <3>4, <1>8
  <2>3. ASSUME NEW i \in Entries(a) PROVE a.slot[i].obj = NULL <=> a.slot[i].id = FREE_ITEM
    <3>1. CASE i = k BY <3>1, <1>6
    <3>2. CASE i # k BY <3>2, <1>6 DEF WellFormed
    <3> QED BY <3>1, <3>2
  <2> QED BY <2>1, <2>2, <2>3 DEF WellFormed
<1>11. a.slot[k] = [id |-> id, obj |-> obj] BY <1>6
<1>12. k \in Occupied(a) BY <1>8
<1>13. a.iNextID = m.iNextID BY <1>3a
<1> QED BY <1>6, <1>7, <1>8, <1>9, <1>10, <1>11, <1>12, <1>13 DEF a

\* A list that is removed from no longer holds the identifier; the other slots
\* stay as they are.
LEMMA RemoveIs ==
  ASSUME NEW I, NEW O, NEW m \in ListOf(I, O), NEW id, id # FREE_ITEM
  PROVE  LET r == Remove(m, id)
         IN  /\ r \in ListOf(I, O)
             /\ r.iNextID = m.iNextID
             /\ Entries(r) = Entries(m)
             /\ Occupied(r) \subseteq Occupied(m)
             /\ \A i \in Occupied(r) : r.slot[i] = m.slot[i]
             /\ \A i \in Entries(m) : r.slot[i] \in {m.slot[i], FreeSlot}
             /\ WellFormed(m) =>
                  /\ WellFormed(r)
                  /\ Occupied(r) = {i \in Occupied(m) : m.slot[i].id # id}
<1> DEFINE r == Remove(m, id)
           S == [id : I \cup {FREE_ITEM}, obj : O \cup {NULL}]
           f == First(m, id)
           less == IF m.iInUse > 0 THEN m.iInUse - 1 ELSE 0
<1>1. m.slot \in Seq(S) /\ m.iInUse \in Nat /\ m.iNextID \in Nat BY SlotsOf DEF ListOf
<1>2. CASE ~ Holds(m, id)
  <2>1. r = m BY <1>2 DEF Remove
  <2>2. \A i \in Occupied(m) : m.slot[i].id # id BY <1>2 DEF Holds, Occupied
  <2> QED BY <2>1, <2>2
<1>3. CASE Holds(m, id)
  <2>1. f \in Entries(m) /\ m.slot[f].id = id BY <1>3, FirstIs
  <2>2. r = [slot |-> [m.slot EXCEPT ![f] = FreeSlot], iInUse |-> less, iNextID |-> m.iNextID]
    <3>1. m = [slot |-> m.slot, iInUse |-> m.iInUse, iNextID |-> m.iNextID] BY DEF ListOf
    <3>2. r = [m EXCEPT !.slot = [m.slot EXCEPT ![f] = FreeSlot], !.iInUse = less]
      BY <1>3, Zenon DEF Remove
    <3> HIDE DEF f, less, r
    <3> QED BY <3>1, <3>2
  <2>3. r.slot = [m.slot EXCEPT ![f] = FreeSlot] /\ r.iInUse = less /\ r.iNextID = m.iNextID
    BY <2>2
  <2>4. FreeSlot \in S BY DEF FreeSlot
  <2>5. r.slot \in Seq(S) /\ Len(r.slot) = Len(m.slot) /\ r.slot[f] = FreeSlot
        /\ \A i \in Entries(m) : i # f => r.slot[i] = m.slot[i]
    <3> HIDE DEF S, f, r, less
    <3> QED BY <1>1, <2>1, <2>3, <2>4 DEF Entries, TotalElements
  <2>6. Entries(r) = Entries(m) BY <2>5 DEF Entries, TotalElements
  <2>7. r \in ListOf(I, O)
    <3>1. less \in Nat BY <1>1
    <3> HIDE DEF f, r, less
    <3>2. r = [slot |-> r.slot, iInUse |-> less, iNextID |-> m.iNextID] BY <2>2, <2>3
    <3> QED BY <1>1, <2>5, <3>1, <3>2 DEF ListOf
  <2> HIDE DEF r
  <2>8. Occupied(r) = Occupied(m) \ {f} BY <2>5, <2>6 DEF Occupied, FreeSlot
  <2>9. \A i \in Occupied(r) : r.slot[i] = m.slot[i] BY <2>5, <2>8 DEF Occupied
  <2>10. ASSUME WellFormed(m)
         PROVE  WellFormed(r) /\ Occupied(r) = {i \in Occupied(m) : m.slot[i].id # id}
    <3>1. f \in Occupied(m) BY <2>1 DEF Occupied
    <3>2. Occupied(r) = {i \in Occupied(m) : m.slot[i].id # id}
      BY <2>1, <2>8, <2>10, <3>1 DEF WellFormed
    <3>3. r.iInUse = Cardinality(Occupied(r))
      <4>1. IsFiniteSet(Occupied(m)) BY SlotsOf, FS_Subset DEF Occupied
      <4>2. IsFiniteSet(Occupied(r)) BY <4>1, <2>8, FS_RemoveElement
      <4>3. Cardinality(Occupied(r)) = Cardinality(Occupied(m)) - 1
        BY <4>1, <2>8, <3>1, FS_RemoveElement
      <4>4. Cardinality(Occupied(m)) \in Nat /\ Cardinality(Occupied(r)) \in Nat
        BY <4>1, <4>2, FS_CardinalityType
      <4>5. m.iInUse = Cardinality(Occupied(m)) BY <2>10 DEF WellFormed
      <4> QED BY <2>3, <4>3, <4>4, <4>5
    <3>4. ASSUME NEW i \in Entries(r) PROVE r.slot[i].obj = NULL <=> r.slot[i].id = FREE_ITEM
      <4>1. CASE i = f BY <4>1, <2>5 DEF FreeSlot
      <4>2. CASE i # f BY <4>2, <2>5, <2>6, <2>10 DEF WellFormed
      <4> QED BY <4>1, <4>2
    <3>5. \A i, j \in Occupied(r) : r.slot[i].id = r.slot[j].id => i = j
      BY <2>8, <2>9, <2>10 DEF WellFormed
    <3> QED BY <3>2, <3>3, <3>4, <3>5 DEF WellFormed
  <2>11. \A i \in Entries(m) : r.slot[i] \in {m.slot[i], FreeSlot} BY <2>5
  <2> QED BY <2>3, <2>6, <2>7, <2>8, <2>9, <2>10, <2>11 DEF r
<1> QED BY <1>2, <1>3
\* Freeing a slot leaves the others as they are.
LEMMA FreedIs ==
  ASSUME NEW I, NEW O, NEW m \in ListOf(I, O), NEW k \in Entries(m)
  PROVE  LET a == [m EXCEPT !.slot[k] = FreeSlot]
         IN  /\ a \in ListOf(I, O)
             /\ Entries(a) = Entries(m)
             /\ a.slot[k] = FreeSlot
             /\ \A i \in Entries(m) : i # k => a.slot[i] = m.slot[i]
<1> DEFINE a == [m EXCEPT !.slot[k] = FreeSlot]
           S == [id : I \cup {FREE_ITEM}, obj : O \cup {NULL}]
<1>1. m.slot \in Seq(S) /\ m.iInUse \in Nat /\ m.iNextID \in Nat BY SlotsOf DEF ListOf
<1>2. m = [slot |-> m.slot, iInUse |-> m.iInUse, iNextID |-> m.iNextID] BY DEF ListOf
<1>3. a = [slot |-> [m.slot EXCEPT ![k] = FreeSlot], iInUse |-> m.iInUse, iNextID |-> m.iNextID]
  BY <1>2
<1>4. a.slot = [m.slot EXCEPT ![k] = FreeSlot] /\ FreeSlot \in S BY <1>3 DEF FreeSlot
<1>5. a.slot \in Seq(S) /\ Len(a.slot) = Len(m.slot) /\ a.slot[k] = FreeSlot
      /\ \A i \in Entries(m) : i # k => a.slot[i] = m.slot[i]
  <2> HIDE DEF S, a
  <2> QED BY <1>1, <1>4 DEF Entries, TotalElements
<1>6. a \in ListOf(I, O) BY <1>1, <1>3, <1>5 DEF ListOf
<1>7. Entries(a) = Entries(m) BY <1>5 DEF Entries, TotalElements
<1> QED BY <1>5, <1>6, <1>7 DEF a

\* Two lists with the same slots for an identifier find the same.
LEMMA SameFound ==
  ASSUME NEW I, NEW O, NEW m \in ListOf(I, O), NEW r \in ListOf(I, O), WellFormed(m), WellFormed(r),
         NEW x, x # FREE_ITEM,
         \A i \in Occupied(m) : m.slot[i].id = x => \E j \in Occupied(r) : r.slot[j] = m.slot[i],
         \A j \in Occupied(r) : r.slot[j].id = x => \E i \in Occupied(m) : r.slot[j] = m.slot[i]
  PROVE  Lookup(r, x) = Lookup(m, x)
<1>1. CASE Lookup(m, x) # NULL
  <2>1. PICK i \in Occupied(m) : m.slot[i].id = x /\ m.slot[i].obj = Lookup(m, x)
    BY <1>1, LookupIs
  <2>2. PICK j \in Occupied(r) : r.slot[j] = m.slot[i] BY <2>1
  <2>3. r.slot[j].id = x /\ r.slot[j].obj = Lookup(m, x) BY <2>1, <2>2
  <2>4. \A k \in Occupied(r) : r.slot[k].id = x => Lookup(r, x) = r.slot[k].obj BY LookupIs
  <2> QED BY <2>3, <2>4
<1>2. CASE Lookup(m, x) = NULL
  <2> SUFFICES ASSUME Lookup(r, x) # NULL PROVE FALSE BY <1>2
  <2>1. PICK j \in Occupied(r) : r.slot[j].id = x BY LookupIs
  <2>2. PICK i \in Occupied(m) : r.slot[j] = m.slot[i] BY <2>1
  <2>3. ~ Holds(m, x) BY <1>2, LookupIs
  <2> QED BY <2>1, <2>2, <2>3 DEF Holds, Occupied
<1> QED BY <1>1, <1>2

\* What is added is found, and what else is found stays.
LEMMA AddFinds ==
  ASSUME NEW I, NEW O, NEW m \in ListOf(I, O), WellFormed(m), FREE_ITEM \notin I, NULL \notin O,
         NEW id \in I, NEW obj \in O, ~ Holds(m, id)
  PROVE  LET a == AddToList(m, id, obj)
         IN  /\ Lookup(a, id) = obj
             /\ \A x \in I : x # id => Lookup(a, x) = Lookup(m, x)
<1> DEFINE a == AddToList(m, id, obj)
<1>1. /\ a \in ListOf(I, O)
      /\ WellFormed(a)
      /\ \E k \in Occupied(a) :
           /\ k \notin Occupied(m)
           /\ Occupied(a) = Occupied(m) \cup {k}
           /\ a.slot[k] = [id |-> id, obj |-> obj]
           /\ \A i \in Occupied(m) : a.slot[i] = m.slot[i]
  BY AddIs
<1> HIDE DEF a
<1>2. PICK k \in Occupied(a) :
        /\ Occupied(a) = Occupied(m) \cup {k}
        /\ a.slot[k] = [id |-> id, obj |-> obj]
        /\ \A i \in Occupied(m) : a.slot[i] = m.slot[i]
  BY <1>1
<1>3. a.slot[k].id = id /\ a.slot[k].obj = obj BY <1>2
<1>4. Lookup(a, id) = obj
  <2>1. \A j \in Occupied(a) : a.slot[j].id = id => Lookup(a, id) = a.slot[j].obj
    BY <1>1, LookupIs
  <2> QED BY <1>3, <2>1
<1>5. ASSUME NEW x \in I, x # id PROVE Lookup(a, x) = Lookup(m, x)
  <2>1. \A i \in Occupied(m) : \E j \in Occupied(a) : a.slot[j] = m.slot[i] BY <1>2
  <2>2. \A j \in Occupied(a) : a.slot[j].id = x => \E i \in Occupied(m) : a.slot[j] = m.slot[i]
    BY <1>2, <1>3, <1>5
  <2>3. x # FREE_ITEM OBVIOUS
  <2> QED BY <1>1, <2>1, <2>2, <2>3, SameFound
<1> QED BY <1>4, <1>5 DEF a

\* What is removed is found no more, and what else is found stays.
LEMMA RemoveFinds ==
  ASSUME NEW I, NEW O, NEW m \in ListOf(I, O), WellFormed(m), FREE_ITEM \notin I, NEW id \in I
  PROVE  LET r == Remove(m, id)
         IN  /\ Lookup(r, id) = NULL
             /\ \A x \in I : x # id => Lookup(r, x) = Lookup(m, x)
<1> DEFINE r == Remove(m, id)
<1>1. id # FREE_ITEM OBVIOUS
<1>2. /\ r \in ListOf(I, O)
      /\ WellFormed(r)
      /\ Occupied(r) = {i \in Occupied(m) : m.slot[i].id # id}
      /\ \A i \in Occupied(r) : r.slot[i] = m.slot[i]
  BY <1>1, RemoveIs
<1> HIDE DEF r
<1>3. Lookup(r, id) = NULL
  <2> SUFFICES ASSUME Lookup(r, id) # NULL PROVE FALSE OBVIOUS
  <2>1. PICK i \in Occupied(r) : r.slot[i].id = id BY <1>1, <1>2, LookupIs
  <2> QED BY <1>2, <2>1
<1>4. ASSUME NEW x \in I, x # id PROVE Lookup(r, x) = Lookup(m, x)
  <2>1. \A i \in Occupied(m) : m.slot[i].id = x => \E j \in Occupied(r) : r.slot[j] = m.slot[i]
    BY <1>2, <1>4
  <2>2. \A j \in Occupied(r) : \E i \in Occupied(m) : r.slot[j] = m.slot[i] BY <1>2
  <2>3. x # FREE_ITEM OBVIOUS
  <2> QED BY <1>2, <2>1, <2>2, <2>3, SameFound
<1> QED BY <1>3, <1>4 DEF r
=============================================================================
