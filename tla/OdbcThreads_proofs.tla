------------------------- MODULE OdbcThreads_proofs -------------------------
(***************************************************************************)
(* Theorems about OdbcThreads, for any threads, thread ids, loaders and    *)
(* memory: several threads may even make a MASTER list at once.            *)
(***************************************************************************)
EXTENDS OdbcThreads, CMom_proofs

\* Where a thread can be.
Places ==
  {"none", "load", "new", "boot", "idle", "find", "create", "register", "add",
   "close", "remove", "free", "detach", "gone"}

\* A heap holds lists; a thread has an id and a daughter at hand, or none yet.
TypeInv ==
  /\ cMom \in Moms \cup {NULL}
  /\ masters \in [Moms -> ListOf(ThreadIds, Daughters) \cup {NULL}]
  /\ daughters \in [Daughters -> ListOf(Nat, Threads) \cup {NULL}]
  /\ pc \in [Threads -> Places]
  /\ id \in [Threads -> ThreadIds \cup {NULL}]
  /\ mine \in [Threads -> Daughters \cup {NULL}]
  /\ slot \in Nat

\* ::cMom is a list from the first one on until the process has deleted it.  While
\* it does, a slot without an identifier has no daughter either.
MasterThere ==
  /\ slot = 0 /\ cMom # NULL => masters[cMom] # NULL
  /\ slot > 0 /\ cMom # NULL /\ masters[cMom] # NULL =>
       \A i \in Entries(masters[cMom]) :
         masters[cMom].slot[i].obj = NULL <=> masters[cMom].slot[i].id = FREE_ITEM
  /\ \A t \in Threads :
       /\ pc[t] \notin {"none", "load", "new", "gone"} => cMom # NULL
       /\ pc[t] = "detach" =>
            masters[cMom] # NULL /\ slot > 0 /\ \A u \in Threads : u # t => pc[u] = "gone"
       /\ slot > 0 => pc[t] \in {"detach", "gone"}

\* The threads there are have an id of their own.
IdsApart ==
  \A t \in Running : id[t] \in ThreadIds /\ \A u \in Running : id[u] = id[t] => u = t

\* A daughter a thread has at hand is live and in no other thread's hands.
Busy(t) == pc[t] \in {"register", "add", "close", "remove", "free"}

HeldApart ==
  \A t \in Threads : Busy(t) =>
    /\ mine[t] \in Live(daughters)
    /\ \A u \in Threads : Busy(u) /\ mine[u] = mine[t] => u = t

\* In the list it is under the thread's id, unless it is not yet or no longer there.
HeldListed ==
  cMom # NULL =>
    \A t \in Threads : Busy(t) =>
      \A i \in Occupied(masters[cMom]) : masters[cMom].slot[i].obj = mine[t] =>
        masters[cMom].slot[i].id = id[t] /\ pc[t] \notin {"register", "free"}

\* A daughter is well formed, and the next number is a new one.
Numbered(list) == \A i \in Occupied(list) : list.slot[i].id < list.iNextID

DaughtersFormed ==
  \A d \in Live(daughters) : WellFormed(daughters[d]) /\ Numbered(daughters[d])

\* Who has opened a connection: a thread that has started; in a daughter of the
\* list, of the running threads only the one with its id; in a daughter at hand,
\* only the one whose hands they are.
OpenedByStarted == \A d \in Live(daughters) : \A t \in Openers(d) : pc[t] # "none"

OpenedListed ==
  slot = 0 /\ cMom # NULL =>
    \A i \in Occupied(masters[cMom]) :
      \A t \in Openers(masters[cMom].slot[i].obj) \cap Running : id[t] = masters[cMom].slot[i].id

OpenedHeld ==
  \A t \in Threads : Busy(t) => Openers(mine[t]) \cap Running \subseteq {t}

IInv ==
  /\ TypeInv /\ MasterThere /\ IdsApart
  /\ HeldApart /\ HeldListed
  /\ DaughtersFormed
  /\ OpenedByStarted /\ OpenedListed /\ OpenedHeld
  /\ ListLive

\* What memory holds is a list, and what is not a list is not live.
LEMMA HeapIs ==
  ASSUME TypeInv
  PROVE  /\ \A d \in Live(daughters) : d \in Daughters /\ daughters[d] \in ListOf(Nat, Threads)
         /\ Live(daughters) = {d \in Daughters : daughters[d] # NULL}
         /\ cMom # NULL /\ masters[cMom] # NULL =>
              cMom \in Moms /\ masters[cMom] \in ListOf(ThreadIds, Daughters)
         /\ \A d \in Daughters : d # NULL
BY NullAssumption DEF TypeInv, Live

\* The daughter a running thread finds is live and is in the list under its id.
LEMMA DaughterIs ==
  ASSUME TypeInv, ListLive, IdsApart, NEW t \in Running, Daughter(t) # NULL, masters[cMom] # NULL
  PROVE  /\ cMom # NULL
         /\ Daughter(t) \in Live(daughters)
         /\ \E i \in Occupied(masters[cMom]) :
              masters[cMom].slot[i].id = id[t] /\ masters[cMom].slot[i].obj = Daughter(t)
<1>1. cMom # NULL /\ Daughter(t) = Lookup(masters[cMom], id[t]) BY DEF Daughter
<1>2. masters[cMom] \in ListOf(ThreadIds, Daughters) BY <1>1, HeapIs
<1>3. id[t] # FREE_ITEM BY IdAssumption DEF IdsApart
<1>4. \E i \in Occupied(masters[cMom]) :
        masters[cMom].slot[i].id = id[t] /\ masters[cMom].slot[i].obj = Daughter(t)
  BY <1>1, <1>2, <1>3, LookupIs
<1> QED BY <1>1, <1>4 DEF ListLive

\* As long as the process lives, that daughter is in no other thread's hands, it
\* is in the list once, and of the running threads only this one has used it.
LEMMA DaughterOwn ==
  ASSUME IInv, slot = 0, NEW t \in Running, Daughter(t) # NULL
  PROVE  LET d == Daughter(t)
         IN  /\ cMom # NULL
             /\ d \in Live(daughters)
             /\ \A u \in Threads : Busy(u) /\ mine[u] = d => u = t
             /\ \A i \in Occupied(masters[cMom]) :
                  masters[cMom].slot[i].obj = d => masters[cMom].slot[i].id = id[t]
             /\ Openers(d) \cap Running \subseteq {t}
<1> DEFINE d == Daughter(t)
<1>1. cMom # NULL BY DEF Daughter
<1>2. masters[cMom] # NULL BY <1>1 DEF IInv, MasterThere
<1>3. d \in Live(daughters) /\ \E i \in Occupied(masters[cMom]) :
        masters[cMom].slot[i].id = id[t] /\ masters[cMom].slot[i].obj = d
  BY <1>2, DaughterIs DEF IInv
<1> HIDE DEF d
<1>4. PICK k \in Occupied(masters[cMom]) :
        masters[cMom].slot[k].id = id[t] /\ masters[cMom].slot[k].obj = d
  BY <1>3
<1>5. \A i \in Occupied(masters[cMom]) : masters[cMom].slot[i].obj = d => i = k
  BY <1>1, <1>2, <1>4 DEF IInv, ListLive
<1>6. ASSUME NEW u \in Threads, Busy(u), mine[u] = d PROVE u = t
  <2>1. id[u] = id[t] BY <1>1, <1>4, <1>6 DEF IInv, HeldListed
  <2>2. u \in Running BY <1>6 DEF Running, Busy
  <2> QED BY <2>1, <2>2 DEF IInv, IdsApart
<1>7. ASSUME NEW u \in Openers(d) \cap Running PROVE u = t
  <2>1. id[u] = id[t] BY <1>1, <1>4, <1>7 DEF IInv, OpenedListed
  <2> QED BY <2>1, <1>7 DEF IInv, IdsApart
<1> QED BY <1>1, <1>3, <1>4, <1>5, <1>6, <1>7 DEF d

\* Taking several numbers out of a daughter at once is like taking each.
LEMMA RemoveAllIs ==
  ASSUME NEW I, NEW O, NEW m \in ListOf(I, O), WellFormed(m), NEW numbers, FREE_ITEM \notin numbers
  PROVE  LET r == RemoveAll(m, numbers)
         IN  /\ r \in ListOf(I, O)
             /\ r.iNextID = m.iNextID
             /\ WellFormed(r)
             /\ Occupied(r) = {i \in Occupied(m) : m.slot[i].id \notin numbers}
             /\ \A i \in Occupied(r) : r.slot[i] = m.slot[i]
<1> DEFINE r == RemoveAll(m, numbers)
           S == [id : I \cup {FREE_ITEM}, obj : O \cup {NULL}]
           K == {i \in Occupied(m) : m.slot[i].id \in numbers}
           kept == [i \in Entries(m) |-> IF m.slot[i].id \in numbers THEN FreeSlot ELSE m.slot[i]]
           less == m.iInUse - Cardinality(numbers \cap Ids(m))
<1>1. m.slot \in Seq(S) /\ m.iInUse \in Nat /\ m.iNextID \in Nat BY SlotsOf DEF ListOf
<1>2. r = [slot |-> kept, iInUse |-> less, iNextID |-> m.iNextID]
  <2>1. m = [slot |-> m.slot, iInUse |-> m.iInUse, iNextID |-> m.iNextID] BY DEF ListOf
  <2>2. r = [m EXCEPT !.slot = kept, !.iInUse = less] BY Zenon DEF RemoveAll
  <2> HIDE DEF kept, less, r
  <2> QED BY <2>1, <2>2
<1>3. r.slot = kept /\ r.iInUse = less /\ r.iNextID = m.iNextID BY <1>2
<1>4. kept \in Seq(S) /\ Len(kept) = Len(m.slot)
      /\ \A i \in Entries(m) :
           kept[i] = IF m.slot[i].id \in numbers THEN FreeSlot ELSE m.slot[i]
  <2>1. FreeSlot \in S BY DEF FreeSlot
  <2>2. \A i \in Entries(m) : m.slot[i] \in S
    <3> HIDE DEF S
    <3> QED BY <1>1 DEF Entries, TotalElements
  <2>3. kept \in [1 .. Len(m.slot) -> S] BY <2>1, <2>2 DEF Entries, TotalElements
  <2>4. Len(m.slot) \in Nat
    <3> HIDE DEF S
    <3> QED BY <1>1
  <2>5. kept \in Seq(S) /\ Len(kept) = Len(m.slot)
    <3> HIDE DEF S, kept
    <3> QED BY <2>3, <2>4
  <2> QED BY <2>5
<1>5. Cardinality(numbers \cap Ids(m)) = Cardinality(K) /\ IsFiniteSet(K)
      /\ IsFiniteSet(Occupied(m))
  <2>1. IsFiniteSet(Occupied(m)) BY SlotsOf, FS_Subset DEF Occupied
  <2>2. IsFiniteSet(K) BY <2>1, FS_Subset
  <2> DEFINE name == [i \in K |-> m.slot[i].id]
  <2>3. name \in [K -> numbers \cap Ids(m)] BY DEF Ids
  <2>4. \A i, j \in K : name[i] = name[j] => i = j BY DEF WellFormed
  <2>5. \A n \in numbers \cap Ids(m) : \E i \in K : name[i] = n BY DEF Ids
  <2> HIDE DEF name, K
  <2>6. name \in Bijection(K, numbers \cap Ids(m))
    BY <2>3, <2>4, <2>5 DEF Bijection, Injection, Surjection, IsInjective
  <2>7. ExistsBijection(K, numbers \cap Ids(m)) BY <2>6 DEF ExistsBijection
  <2> QED BY <2>1, <2>2, <2>7, FS_Bijection
<1>6. Entries(r) = Entries(m) BY <1>3, <1>4 DEF Entries, TotalElements
<1> HIDE DEF r, kept
<1>7. Occupied(r) = Occupied(m) \ K
  BY <1>3, <1>4, <1>6 DEF Occupied, FreeSlot
<1>8. \A i \in Occupied(r) : r.slot[i] = m.slot[i] BY <1>3, <1>4, <1>7 DEF Occupied
<1>9. IsFiniteSet(Occupied(r)) /\ Cardinality(Occupied(r)) = Cardinality(Occupied(m)) - Cardinality(K)
  <2>1. K \subseteq Occupied(m) OBVIOUS
  <2>2. IsFiniteSet(Occupied(m) \ K)
        /\ Cardinality(Occupied(m) \ K) = Cardinality(Occupied(m)) - Cardinality(Occupied(m) \cap K)
    <3> HIDE DEF K
    <3> QED BY <1>5, FS_Difference
  <2>3. Occupied(m) \cap K = K OBVIOUS
  <2> HIDE DEF K
  <2> QED BY <1>7, <2>2, <2>3
<1>10. r.iInUse = Cardinality(Occupied(r)) BY <1>3, <1>5, <1>9 DEF WellFormed
<1>11. r.iInUse \in Nat BY <1>9, <1>10, FS_CardinalityType
<1>12. r \in ListOf(I, O) BY <1>1, <1>2, <1>3, <1>4, <1>11 DEF ListOf
<1>13. WellFormed(r)
  <2>1. \A i, j \in Occupied(r) : r.slot[i].id = r.slot[j].id => i = j
    BY <1>7, <1>8 DEF WellFormed
  <2>2. \A i \in Entries(r) : r.slot[i].obj = NULL <=> r.slot[i].id = FREE_ITEM
    BY <1>3, <1>4, <1>6 DEF WellFormed, FreeSlot
  <2> QED BY <1>10, <2>1, <2>2 DEF WellFormed
<1> QED BY <1>3, <1>7, <1>8, <1>12, <1>13 DEF r

\* Connections are opened by threads.
LEMMA OpenersAre ==
  ASSUME TypeInv, DaughtersFormed, NEW d \in Live(daughters)
  PROVE  Openers(d) \subseteq Threads
<1>1. daughters[d] \in ListOf(Nat, Threads) /\ WellFormed(daughters[d])
  BY HeapIs DEF DaughtersFormed
<1>2. \A i \in Entries(daughters[d]) : daughters[d].slot[i].obj \in Threads \cup {NULL}
  BY <1>1, SlotsOf
<1>3. \A i \in Occupied(daughters[d]) :
        i \in Entries(daughters[d]) /\ daughters[d].slot[i].obj # NULL
  BY <1>1 DEF Occupied, WellFormed
<1> QED BY <1>2, <1>3 DEF Openers

\* A thread goes from one place to another; the others stay.
LEMMA PlacesMove ==
  ASSUME TypeInv, NEW t \in Threads, NEW from, NEW to \in Places, Goto(t, from, to)
  PROVE  /\ pc' \in [Threads -> Places]
         /\ pc'[t] = to /\ pc[t] = from
         /\ \A u \in Threads : u # t => pc'[u] = pc[u]
BY DEF TypeInv, Goto

\* The same memory, and one thread moves on: it may have taken its daughter, or
\* have kept the one it had at hand.
LEMMA ThreadMoves ==
  ASSUME IInv, NEW t \in Threads, NEW from, NEW to \in Places, Goto(t, from, to),
         UNCHANGED <<cMom, masters, daughters, slot>>,
         to \notin {"none", "detach", "register", "free"},
         to \notin {"load", "new", "gone"} => cMom # NULL,
         id' \in [Threads -> ThreadIds \cup {NULL}],
         mine' \in [Threads -> Daughters \cup {NULL}],
         \A u \in Threads : u # t => id'[u] = id[u] /\ mine'[u] = mine[u],
         from # "gone",
         from = "none" => id'[t] \in ThreadIds /\ \A u \in Running : id[u] # id'[t],
         from # "none" => id'[t] = id[t],
         to \in {"add", "close", "remove"} =>
           /\ from # "none"
           /\ \/ Busy(t) /\ mine'[t] = mine[t]
              \/ Daughter(t) # NULL /\ mine'[t] = Daughter(t)
  PROVE  IInv'
<1>1. /\ pc' \in [Threads -> Places]
      /\ pc'[t] = to /\ pc[t] = from /\ slot = 0
      /\ \A u \in Threads : u # t => pc'[u] = pc[u]
  BY PlacesMove DEF Goto, IInv
<1>2. /\ \A u \in Threads : u # t => (u \in Running' <=> u \in Running) /\ (Busy(u)' <=> Busy(u))
      /\ Busy(t)' => to \in {"add", "close", "remove"}
      /\ t \in Running <=> from # "none"
  BY <1>1 DEF Running, Busy
<1>3. TypeInv' BY <1>1 DEF IInv, TypeInv
<1>4. MasterThere' BY <1>1 DEF IInv, MasterThere
<1>5. IdsApart'
  <2>1. ASSUME NEW u \in Running' PROVE id'[u] \in ThreadIds
    BY <1>1, <1>2, <2>1 DEF IInv, IdsApart, Running
  <2>2. ASSUME NEW u \in Running', NEW v \in Running', id'[u] = id'[v] PROVE u = v
    <3>0. u \in Threads /\ v \in Threads BY DEF Running
    <3>1. CASE u # t /\ v # t BY <1>2, <2>2, <3>0, <3>1 DEF IInv, IdsApart
    <3>2. ASSUME NEW w \in Running, w # t PROVE id[w] # id'[t]
      BY <1>2, <3>2 DEF IInv, IdsApart
    <3>3. CASE u = t /\ v # t BY <1>2, <2>2, <3>0, <3>2, <3>3
    <3>4. CASE u # t /\ v = t BY <1>2, <2>2, <3>0, <3>2, <3>4
    <3> QED BY <3>1, <3>3, <3>4
  <2> QED BY <2>1, <2>2 DEF IdsApart
<1>6. ASSUME Busy(t)'
      PROVE  /\ mine'[t] \in Live(daughters)
             /\ \A u \in Threads : Busy(u) /\ mine[u] = mine'[t] => u = t
             /\ cMom # NULL => \A i \in Occupied(masters[cMom]) :
                  masters[cMom].slot[i].obj = mine'[t] => masters[cMom].slot[i].id = id[t]
             /\ Openers(mine'[t]) \cap Running \subseteq {t}
             /\ t \in Running
  <2>1. to \in {"add", "close", "remove"} /\ t \in Running BY <1>2, <1>6
  <2>2. CASE Busy(t) /\ mine'[t] = mine[t]
    <3>1. /\ mine[t] \in Live(daughters)
          /\ \A u \in Threads : Busy(u) /\ mine[u] = mine[t] => u = t
      BY <2>2 DEF IInv, HeldApart
    <3>2. cMom # NULL => \A i \in Occupied(masters[cMom]) :
            masters[cMom].slot[i].obj = mine[t] => masters[cMom].slot[i].id = id[t]
      BY <2>2 DEF IInv, HeldListed
    <3>3. Openers(mine[t]) \cap Running \subseteq {t} BY <2>2 DEF IInv, OpenedHeld
    <3> QED BY <2>1, <2>2, <3>1, <3>2, <3>3
  <2>3. CASE Daughter(t) # NULL /\ mine'[t] = Daughter(t)
    BY <1>1, <2>1, <2>3, DaughterOwn
  <2> QED BY <2>1, <2>2, <2>3
<1>7. HeldApart'
  <2>1. ASSUME NEW u \in Threads, Busy(u)' PROVE mine'[u] \in Live(daughters)
    BY <1>2, <1>6, <2>1 DEF IInv, HeldApart
  <2>2. ASSUME NEW u \in Threads, NEW v \in Threads, Busy(u)', Busy(v)', mine'[v] = mine'[u]
        PROVE  v = u
    <3>1. CASE u # t /\ v # t BY <1>2, <2>2, <3>1 DEF IInv, HeldApart
    <3>2. CASE u = t BY <1>2, <1>6, <2>2, <3>2
    <3>3. CASE v = t BY <1>2, <1>6, <2>2, <3>3
    <3> QED BY <3>1, <3>2, <3>3
  <2>3. Live(daughters)' = Live(daughters) BY DEF Live
  <2> QED BY <2>1, <2>2, <2>3 DEF HeldApart
<1>8. HeldListed'
  <2>1. ASSUME cMom # NULL, NEW u \in Threads, Busy(u)', NEW i \in Occupied(masters[cMom]),
               masters[cMom].slot[i].obj = mine'[u]
        PROVE  masters[cMom].slot[i].id = id'[u] /\ pc'[u] \notin {"register", "free"}
    <3>1. CASE u = t BY <1>1, <1>2, <1>6, <2>1, <3>1
    <3>2. CASE u # t BY <1>1, <1>2, <2>1, <3>2 DEF IInv, HeldListed
    <3> QED BY <3>1, <3>2
  <2> QED BY <2>1 DEF HeldListed
<1>9. DaughtersFormed' BY DEF IInv, DaughtersFormed, Live
<1>10. ASSUME NEW d \in Live(daughters), NEW u \in Openers(d)
       PROVE  u \in Threads /\ pc'[u] # "none" /\ (u \in Running' => u \in Running /\ id'[u] = id[u])
  <2>1. pc[u] # "none" BY <1>10 DEF IInv, OpenedByStarted
  <2>2. u \in Threads BY <1>10, OpenersAre DEF IInv
  <2>3. CASE u = t BY <1>1, <1>2, <2>1, <2>3
  <2>4. CASE u # t BY <1>1, <1>2, <2>1, <2>2, <2>4
  <2> QED BY <2>2, <2>3, <2>4
<1>11. Live(daughters)' = Live(daughters) /\ \A d : Openers(d)' = Openers(d)
  BY DEF Live, Openers
<1>12. OpenedByStarted' BY <1>10, <1>11 DEF OpenedByStarted
<1>13. OpenedListed'
  <2>1. ASSUME cMom # NULL, NEW i \in Occupied(masters[cMom]),
               NEW u \in Openers(masters[cMom].slot[i].obj), u \in Running'
        PROVE  id'[u] = masters[cMom].slot[i].id
    <3>1. masters[cMom].slot[i].obj \in Live(daughters)
      BY <1>1, <2>1 DEF IInv, ListLive, MasterThere
    <3>2. u \in Running /\ id'[u] = id[u] BY <1>10, <2>1, <3>1
    <3> QED BY <1>1, <2>1, <3>2 DEF IInv, OpenedListed
  <2> QED BY <1>11, <2>1 DEF OpenedListed
<1>14. OpenedHeld'
  <2>1. ASSUME NEW u \in Threads, Busy(u)', NEW w \in Openers(mine'[u]), w \in Running'
        PROVE  w = u
    <3>1. mine'[u] \in Live(daughters) BY <1>7, <1>11, <2>1 DEF HeldApart
    <3>2. w \in Running BY <1>10, <2>1, <3>1
    <3>3. CASE u = t BY <1>6, <2>1, <3>2, <3>3
    <3>4. CASE u # t BY <1>2, <2>1, <3>2, <3>4 DEF IInv, OpenedHeld
    <3> QED BY <3>3, <3>4
  <2> QED BY <1>11, <2>1 DEF OpenedHeld
<1>15. ListLive' BY <1>11 DEF IInv, ListLive
<1> QED BY <1>3, <1>4, <1>5, <1>7, <1>8, <1>9, <1>12, <1>13, <1>14, <1>15 DEF IInv

\* A connection is added under the next number, which is then one more.
LEMMA AddNumberIs ==
  ASSUME NEW m \in ListOf(Nat, Threads), WellFormed(m), Numbered(m), NEW t \in Threads
  PROVE  LET a == AddNumber(m, t)
         IN  /\ a \in ListOf(Nat, Threads)
             /\ WellFormed(a)
             /\ Numbered(a)
             /\ \A i \in Occupied(a) :
                  a.slot[i].obj = t \/ \E j \in Occupied(m) : a.slot[i].obj = m.slot[j].obj
<1> DEFINE n == m.iNextID
           b == AddToList(m, n, t)
           a == AddNumber(m, t)
<1>1. n \in Nat /\ FREE_ITEM \notin Nat /\ NULL \notin Threads
  BY SlotsOf, IdAssumption, NullAssumption
<1>2. ~ Holds(m, n)
  <2> SUFFICES ASSUME NEW i \in Entries(m), m.slot[i].id = n PROVE FALSE BY DEF Holds
  <2>1. i \in Occupied(m) BY <1>1 DEF Occupied
  <2>2. n < n BY <2>1 DEF Numbered
  <2> QED BY <1>1, <2>2
<1>3. /\ b \in ListOf(Nat, Threads)
      /\ WellFormed(b)
      /\ b.iNextID = n
      /\ \E k \in Occupied(b) :
           /\ k \notin Occupied(m)
           /\ Occupied(b) = Occupied(m) \cup {k}
           /\ b.slot[k] = [id |-> n, obj |-> t]
           /\ \A i \in Occupied(m) : b.slot[i] = m.slot[i]
  <2>1. \A x \in Nat : ~ Holds(m, x) =>
          LET c == AddToList(m, x, t)
          IN  /\ c \in ListOf(Nat, Threads)
              /\ WellFormed(c)
              /\ c.iNextID = m.iNextID
              /\ \E k \in Occupied(c) :
                   /\ k \notin Occupied(m)
                   /\ Occupied(c) = Occupied(m) \cup {k}
                   /\ c.slot[k] = [id |-> x, obj |-> t]
                   /\ \A i \in Occupied(m) : c.slot[i] = m.slot[i]
    <3> TAKE x \in Nat
    <3> HAVE ~ Holds(m, x)
    <3> HIDE DEF n
    <3> QED BY <1>1, AddIs
  <2> QED BY <1>1, <1>2, <2>1
<1>4. a = [b EXCEPT !.iNextID = b.iNextID + 1] BY Zenon DEF AddNumber
<1> HIDE DEF a, b
<1>5. b = [slot |-> b.slot, iInUse |-> b.iInUse, iNextID |-> b.iNextID] /\ b.iInUse \in Nat
  BY <1>3 DEF ListOf
<1>6. a = [slot |-> b.slot, iInUse |-> b.iInUse, iNextID |-> n + 1] BY <1>3, <1>4, <1>5
<1>7. a.slot = b.slot /\ a.iInUse = b.iInUse /\ a.iNextID = n + 1 BY <1>6
<1>8. Entries(a) = Entries(b) /\ Occupied(a) = Occupied(b)
  BY <1>7 DEF Entries, TotalElements, Occupied
<1>9. WellFormed(a) BY <1>3, <1>7, <1>8 DEF WellFormed
<1>10. a \in ListOf(Nat, Threads)
  <2>1. n + 1 \in Nat BY <1>1
  <2> HIDE DEF n
  <2> QED BY <1>3, <1>5, <1>6, <2>1 DEF ListOf
<1>11. PICK k \in Occupied(b) :
         /\ Occupied(b) = Occupied(m) \cup {k}
         /\ b.slot[k] = [id |-> n, obj |-> t]
         /\ \A i \in Occupied(m) : b.slot[i] = m.slot[i]
  BY <1>3
<1>12. Numbered(a)
  <2>1. ASSUME NEW i \in Occupied(m) PROVE a.slot[i].id < n + 1
    <3>1. i \in Entries(m) /\ m.slot[i].id # FREE_ITEM BY DEF Occupied
    <3>2. m.slot[i].id \in Nat
      <4>1. \A j \in Entries(m) : m.slot[j].id \in Nat \cup {FREE_ITEM} BY SlotsOf
      <4> QED BY <3>1, <4>1
    <3>3. m.slot[i].id < n BY DEF Numbered
    <3>4. a.slot[i].id = m.slot[i].id BY <1>7, <1>11
    <3> HIDE DEF n
    <3> QED BY <1>1, <3>2, <3>3, <3>4
  <2>2. a.slot[k].id = n BY <1>7, <1>11
  <2>3. n < n + 1 BY <1>1
  <2> HIDE DEF n
  <2> QED BY <1>7, <1>8, <1>11, <2>1, <2>2, <2>3 DEF Numbered
<1>13. \A i \in Occupied(a) :
         a.slot[i].obj = t \/ \E j \in Occupied(m) : a.slot[i].obj = m.slot[j].obj
  <2>1. a.slot[k].obj = t BY <1>7, <1>11
  <2>2. \A i \in Occupied(m) : a.slot[i].obj = m.slot[i].obj BY <1>7, <1>11
  <2> QED BY <1>8, <1>11, <2>1, <2>2
<1> QED BY <1>9, <1>10, <1>12, <1>13 DEF a

\* The same daughters are live, and no connection is new but one of the thread
\* that has the daughter at hand.
ConnsChange(t) ==
  /\ Live(daughters)' = Live(daughters)
  /\ \A e \in Live(daughters) : \A u \in Openers(e)' :
       u \in Openers(e) \/ (u = t /\ Busy(t) /\ mine[t] = e)

\* One daughter becomes a list with connections of hers and perhaps one of the
\* thread that has her at hand.
LEMMA DaughterChanges ==
  ASSUME IInv, NEW t \in Running, NEW from, NEW to \in Places, Goto(t, from, to),
         from \notin {"none", "load", "new", "gone"},
         to = "idle" \/ (from = "close" /\ to = "remove"),
         NEW d \in Live(daughters), NEW r \in ListOf(Nat, Threads), WellFormed(r), Numbered(r),
         daughters' = [daughters EXCEPT ![d] = r],
         UNCHANGED <<cMom, masters, id, mine, slot>>,
         \A i \in Occupied(r) :
           \/ r.slot[i].obj \in Openers(d)
           \/ r.slot[i].obj = t /\ Busy(t) /\ mine[t] = d
  PROVE  IInv' /\ ConnsChange(t)
<1>0. t \in Threads BY DEF Running
<1>1. /\ pc' \in [Threads -> Places]
      /\ pc'[t] = to /\ pc[t] = from /\ slot = 0
      /\ \A u \in Threads : u # t => pc'[u] = pc[u]
  BY <1>0, PlacesMove DEF Goto, IInv
<1>2. /\ Running' = Running
      /\ \A u \in Threads : Busy(u)' => Busy(u) /\ (pc'[u] \in {"register", "free"} => pc[u] = pc'[u])
  BY <1>0, <1>1 DEF Running, Busy
<1>3. TypeInv'
  <2>1. daughters' \in [Daughters -> ListOf(Nat, Threads) \cup {NULL}] BY DEF IInv, TypeInv
  <2> QED BY <1>1, <2>1 DEF IInv, TypeInv
<1>4. r # NULL BY NullListAssumption
<1>5. /\ Live(daughters)' = Live(daughters)
      /\ \A e \in Live(daughters) : daughters'[e] = IF e = d THEN r ELSE daughters[e]
  BY <1>4 DEF Live, IInv, TypeInv
<1>6. MasterThere' BY <1>0, <1>1 DEF IInv, MasterThere
<1>7. IdsApart' BY <1>2 DEF IInv, IdsApart
<1>8. HeldApart' BY <1>2, <1>5 DEF IInv, HeldApart
<1>9. HeldListed' BY <1>2 DEF IInv, HeldListed
<1>10. DaughtersFormed' BY <1>5 DEF IInv, DaughtersFormed
<1>11. ASSUME NEW e \in Live(daughters), NEW u \in Openers(e)'
       PROVE  u \in Openers(e) \/ (u = t /\ e = d /\ Busy(t) /\ mine[t] = d)
  <2>1. CASE e # d BY <1>5, <1>11, <2>1 DEF Openers
  <2>2. CASE e = d
    <3>1. PICK i \in Occupied(r) : u = r.slot[i].obj BY <1>5, <1>11, <2>2 DEF Openers
    <3> QED BY <2>2, <3>1
  <2> QED BY <2>1, <2>2
<1>12. OpenedByStarted'
  <2>1. ASSUME NEW e \in Live(daughters), NEW u \in Openers(e)' PROVE pc'[u] # "none"
    <3>1. CASE u = t BY <1>1, <3>1
    <3>2. CASE u # t
      <4>1. u \in Openers(e) BY <1>11, <2>1, <3>2
      <4>2. u \in Threads /\ pc[u] # "none" BY <4>1, OpenersAre DEF IInv, OpenedByStarted
      <4> QED BY <1>1, <3>2, <4>2
    <3> QED BY <3>1, <3>2
  <2> QED BY <1>5, <2>1 DEF OpenedByStarted
<1>13. OpenedListed'
  <2>1. ASSUME cMom # NULL, NEW i \in Occupied(masters[cMom]),
               NEW u \in Openers(masters[cMom].slot[i].obj)', u \in Running
        PROVE  id[u] = masters[cMom].slot[i].id
    <3>1. masters[cMom].slot[i].obj \in Live(daughters)
      BY <1>1, <2>1 DEF IInv, ListLive, MasterThere
    <3>2. CASE u \in Openers(masters[cMom].slot[i].obj)
      BY <1>1, <2>1, <3>2 DEF IInv, OpenedListed
    <3>3. CASE u = t /\ masters[cMom].slot[i].obj = d /\ Busy(t) /\ mine[t] = d
      BY <1>0, <2>1, <3>3 DEF IInv, HeldListed
    <3> QED BY <1>11, <2>1, <3>1, <3>2, <3>3
  <2>2. \A i : (masters[cMom].slot[i].obj)' = masters[cMom].slot[i].obj OBVIOUS
  <2> QED BY <1>2, <2>1 DEF OpenedListed
<1>14. OpenedHeld'
  <2>1. ASSUME NEW u \in Threads, Busy(u), NEW w \in Openers(mine[u])', w \in Running
        PROVE  w = u
    <3>1. mine[u] \in Live(daughters) BY <2>1 DEF IInv, HeldApart
    <3>2. CASE w \in Openers(mine[u]) BY <2>1, <3>2 DEF IInv, OpenedHeld
    <3>3. CASE w = t /\ mine[u] = d /\ Busy(t) /\ mine[t] = d
      BY <1>0, <2>1, <3>3 DEF IInv, HeldApart
    <3> QED BY <1>11, <2>1, <3>1, <3>2, <3>3
  <2> QED BY <1>2, <2>1 DEF OpenedHeld
<1>15. ListLive' BY <1>5 DEF IInv, ListLive
<1>16. ConnsChange(t) BY <1>5, <1>11 DEF ConnsChange
<1> QED BY <1>3, <1>6, <1>7, <1>8, <1>9, <1>10, <1>12, <1>13, <1>14, <1>15, <1>16 DEF IInv

\* Deleting the connections of a daughter changes the daughter of the thread
\* that runs, if it has one, to a list with fewer connections.
LEMMA DeleteConnsIs ==
  ASSUME TypeInv, ListLive, IdsApart, DaughtersFormed, NEW t \in Running, NEW d,
         masters[cMom] # NULL
  PROVE  \/ DeleteConns(t, d) = daughters
         \/ \E e \in Live(daughters) : \E r \in ListOf(Nat, Threads) :
              /\ WellFormed(r) /\ Numbered(r)
              /\ DeleteConns(t, d) = [daughters EXCEPT ![e] = r]
              /\ \A i \in Occupied(r) : r.slot[i].obj \in Openers(e)
<1>1. CASE Daughter(t) = NULL BY <1>1 DEF DeleteConns
<1>2. CASE Daughter(t) # NULL
  <2> DEFINE e == Daughter(t)
             m == daughters[e]
             r == RemoveAll(m, Ids(daughters[d]))
  <2>1. e \in Live(daughters) BY <1>2, DaughterIs
  <2>2. DeleteConns(t, d) = [daughters EXCEPT ![e] = r] BY <1>2 DEF DeleteConns
  <2> HIDE DEF e
  <2>3. m \in ListOf(Nat, Threads) /\ WellFormed(m) /\ Numbered(m)
    BY <2>1, HeapIs DEF DaughtersFormed
  <2>4. FREE_ITEM \notin Ids(daughters[d]) BY DEF Ids, Occupied
  <2>5. \A i \in Occupied(m) : m.slot[i].obj \in Openers(e) BY DEF Openers
  <2> HIDE DEF m
  <2>6. /\ r \in ListOf(Nat, Threads)
        /\ r.iNextID = m.iNextID
        /\ WellFormed(r)
        /\ Occupied(r) \subseteq Occupied(m)
        /\ \A i \in Occupied(r) : r.slot[i] = m.slot[i]
    BY <2>3, <2>4, RemoveAllIs
  <2> HIDE DEF r
  <2>7. Numbered(r) BY <2>3, <2>6 DEF Numbered
  <2>8. \A i \in Occupied(r) : r.slot[i].obj \in Openers(e) BY <2>5, <2>6
  <2> QED BY <2>1, <2>2, <2>6, <2>7, <2>8
<1> QED BY <1>1, <1>2

\* A connection is made in the daughter at hand.
LEMMA AddKeeps ==
  ASSUME IInv, NEW t \in Threads, Add(t)
  PROVE  IInv' /\ ConnsChange(t)
<1>1. /\ Goto(t, "add", "idle") /\ pc[t] = "add"
      /\ "idle" \in Places
      /\ cMom # NULL
      /\ UNCHANGED <<cMom, masters, id, mine, slot>>
  BY DEF Add, Goto, Places, IInv, MasterThere
<1>2. t \in Running BY <1>1 DEF Running
<1>3. CASE UNCHANGED daughters
  <2>1. IInv' BY <1>1, <1>3, ThreadMoves DEF IInv, TypeInv
  <2> QED BY <1>3, <2>1 DEF ConnsChange, Live, Openers
<1>4. CASE ~ UNCHANGED daughters
  <2> DEFINE d == mine[t]
             a == AddNumber(daughters[d], t)
  <2>1. daughters' = [daughters EXCEPT ![d] = a] BY <1>4 DEF Add
  <2>2. Busy(t) /\ d \in Live(daughters) BY <1>1 DEF IInv, HeldApart, Busy
  <2>3. daughters[d] \in ListOf(Nat, Threads) /\ WellFormed(daughters[d]) /\ Numbered(daughters[d])
    BY <2>2, HeapIs DEF IInv, DaughtersFormed
  <2>4. /\ a \in ListOf(Nat, Threads) /\ WellFormed(a) /\ Numbered(a)
        /\ \A i \in Occupied(a) :
             a.slot[i].obj = t \/ \E j \in Occupied(daughters[d]) : a.slot[i].obj = daughters[d].slot[j].obj
    BY <2>3, AddNumberIs
  <2> HIDE DEF a
  <2>5. \A i \in Occupied(a) :
          a.slot[i].obj \in Openers(d) \/ (a.slot[i].obj = t /\ Busy(t) /\ mine[t] = d)
    BY <2>2, <2>4 DEF Openers
  <2> HIDE DEF d
  <2> QED BY <1>1, <1>2, <2>1, <2>2, <2>4, <2>5, DaughterChanges
<1> QED BY <1>3, <1>4

\* A connection is taken out of the daughter of the thread.
LEMMA DisconnectKeeps ==
  ASSUME IInv, NEW t \in Threads, NEW n \in 0 .. MaxConns, Disconnect(t, n)
  PROVE  IInv' /\ ConnsChange(t)
<1> DEFINE d == Daughter(t)
           r == Remove(daughters[d], n)
<1>1. /\ Goto(t, "idle", "idle") /\ pc[t] = "idle" /\ slot = 0
      /\ "idle" \in Places
      /\ UNCHANGED <<cMom, masters, id, mine, slot>>
      /\ d # NULL
      /\ daughters' = [daughters EXCEPT ![d] = r]
  BY DEF Disconnect, Goto, Places
<1>2. t \in Running BY <1>1 DEF Running
<1>3. d \in Live(daughters) BY <1>1, <1>2, DaughterOwn
<1>4. daughters[d] \in ListOf(Nat, Threads) /\ WellFormed(daughters[d]) /\ Numbered(daughters[d])
  BY <1>3, HeapIs DEF IInv, DaughtersFormed
<1>5. n # FREE_ITEM BY IdAssumption
<1> HIDE DEF d
<1>6. /\ r \in ListOf(Nat, Threads) /\ WellFormed(r)
      /\ r.iNextID = daughters[d].iNextID
      /\ Occupied(r) \subseteq Occupied(daughters[d])
      /\ \A i \in Occupied(r) : r.slot[i] = daughters[d].slot[i]
  BY <1>4, <1>5, RemoveIs
<1> HIDE DEF r
<1>7. Numbered(r) BY <1>4, <1>6 DEF Numbered
<1>8. \A i \in Occupied(r) : r.slot[i].obj \in Openers(d) BY <1>6 DEF Openers
<1> QED BY <1>1, <1>2, <1>3, <1>6, <1>7, <1>8, DaughterChanges

\* TerminateThread deletes connections.
LEMMA CloseKeeps ==
  ASSUME IInv, NEW t \in Threads, Close(t)
  PROVE  IInv' /\ ConnsChange(t)
<1>1. /\ Goto(t, "close", "remove") /\ pc[t] = "close" /\ slot = 0
      /\ "remove" \in Places
      /\ UNCHANGED <<cMom, masters, id, mine, slot>>
      /\ daughters' = DeleteConns(t, mine[t])
      /\ cMom # NULL /\ masters[cMom] # NULL
  BY DEF Close, Goto, Places, IInv, MasterThere
<1>2. t \in Running /\ Busy(t) BY <1>1 DEF Running, Busy
<1>3. CASE DeleteConns(t, mine[t]) = daughters
  <2>1. IInv' BY <1>1, <1>2, <1>3, ThreadMoves DEF IInv, TypeInv
  <2>2. daughters' = daughters BY <1>1, <1>3
  <2> QED BY <2>1, <2>2 DEF ConnsChange, Live, Openers
<1>4. CASE DeleteConns(t, mine[t]) # daughters
  <2>1. PICK e \in Live(daughters), r \in ListOf(Nat, Threads) :
          /\ WellFormed(r) /\ Numbered(r)
          /\ DeleteConns(t, mine[t]) = [daughters EXCEPT ![e] = r]
          /\ \A i \in Occupied(r) : r.slot[i].obj \in Openers(e)
    BY <1>1, <1>2, <1>4, DeleteConnsIs DEF IInv
  <2>2. daughters' = [daughters EXCEPT ![e] = r] BY <1>1, <2>1
  <2> QED BY <1>1, <1>2, <2>1, <2>2, DaughterChanges
<1> QED BY <1>3, <1>4

\* A new MASTER list is empty; an older one is forgotten, with what it held.
LEMMA NewMasterKeeps ==
  ASSUME IInv, NEW t \in Threads, NewMaster(t)
  PROVE  IInv'
<1>1. PICK m \in Moms \ Live(masters) :
        /\ masters' = [masters EXCEPT ![m] = InitMom(START_NUM_OF_DAUGHTERS)]
        /\ cMom' = m
  BY DEF NewMaster
<1>2. /\ Goto(t, "new", "boot") /\ "boot" \in Places /\ slot = 0
      /\ UNCHANGED <<daughters, id, mine, slot>>
  BY DEF NewMaster, Goto, Places
<1>3. /\ pc' \in [Threads -> Places]
      /\ pc'[t] = "boot" /\ pc[t] = "new"
      /\ \A u \in Threads : u # t => pc'[u] = pc[u]
  BY <1>2, PlacesMove DEF IInv
<1>4. Running' = Running /\ \A u \in Threads : Busy(u)' = Busy(u) BY <1>3 DEF Running, Busy
<1>5. /\ masters'[cMom'] = InitMom(START_NUM_OF_DAUGHTERS)
      /\ cMom' \in Moms /\ cMom' # NULL
  BY <1>1, NullAssumption DEF IInv, TypeInv
<1>6. /\ InitMom(START_NUM_OF_DAUGHTERS) \in ListOf(ThreadIds, Daughters)
      /\ WellFormed(InitMom(START_NUM_OF_DAUGHTERS))
      /\ Occupied(InitMom(START_NUM_OF_DAUGHTERS)) = {}
  BY InitIs DEF START_NUM_OF_DAUGHTERS
<1>7. masters'[cMom'] # NULL BY <1>5, <1>6, NullListAssumption
<1>8. TypeInv' BY <1>1, <1>2, <1>3, <1>6 DEF IInv, TypeInv
<1>9. MasterThere' BY <1>2, <1>3, <1>5, <1>7 DEF IInv, MasterThere
<1>10. IdsApart' BY <1>2, <1>4 DEF IInv, IdsApart
<1>11. Live(daughters)' = Live(daughters) /\ \A d : Openers(d)' = Openers(d)
  BY <1>2 DEF Live, Openers
<1>12. HeldApart' BY <1>2, <1>4, <1>11 DEF IInv, HeldApart
<1>13. Occupied(masters[cMom])' = {} BY <1>5, <1>6
<1>14. HeldListed' BY <1>13 DEF HeldListed
<1>15. DaughtersFormed' BY <1>2, <1>11 DEF IInv, DaughtersFormed
<1>16. OpenedByStarted'
  <2>1. ASSUME NEW d \in Live(daughters), NEW u \in Openers(d) PROVE pc'[u] # "none"
    BY <1>3, <2>1, OpenersAre DEF IInv, OpenedByStarted
  <2> QED BY <1>11, <2>1 DEF OpenedByStarted
<1>17. OpenedListed' BY <1>13 DEF OpenedListed
<1>18. OpenedHeld' BY <1>2, <1>4, <1>11 DEF IInv, OpenedHeld
<1>19. ListLive'
  <2>1. WellFormed(masters[cMom])' BY <1>5, <1>6
  <2> QED BY <1>13, <2>1 DEF ListLive
<1> QED BY <1>8, <1>9, <1>10, <1>12, <1>14, <1>15, <1>16, <1>17, <1>18, <1>19 DEF IInv

\* A daughter that is made is empty, and nobody else has her.
LEMMA CreateKeeps ==
  ASSUME IInv, NEW t \in Threads, Create(t)
  PROVE  IInv'
<1>1. PICK d \in Daughters \ Live(daughters) :
        /\ daughters' = [daughters EXCEPT ![d] = InitMom(START_NUM_OF_ODBCS)]
        /\ mine' = [mine EXCEPT ![t] = d]
  BY DEF Create
<1>2. /\ Goto(t, "create", "register") /\ "register" \in Places /\ slot = 0
      /\ UNCHANGED <<cMom, masters, id, slot>>
  BY DEF Create, Goto, Places
<1>3. /\ pc' \in [Threads -> Places]
      /\ pc'[t] = "register" /\ pc[t] = "create"
      /\ \A u \in Threads : u # t => pc'[u] = pc[u]
  BY <1>2, PlacesMove DEF IInv
<1>4. /\ Running' = Running
      /\ \A u \in Threads : u # t => (Busy(u)' <=> Busy(u))
      /\ ~ Busy(t)
  BY <1>3 DEF Running, Busy
<1>5. /\ InitMom(START_NUM_OF_ODBCS) \in ListOf(Nat, Threads)
      /\ WellFormed(InitMom(START_NUM_OF_ODBCS))
      /\ Occupied(InitMom(START_NUM_OF_ODBCS)) = {}
  BY InitIs DEF START_NUM_OF_ODBCS
<1>6. /\ daughters' \in [Daughters -> ListOf(Nat, Threads) \cup {NULL}]
      /\ daughters'[d] = InitMom(START_NUM_OF_ODBCS)
      /\ \A e \in Daughters : e # d => daughters'[e] = daughters[e]
      /\ mine' \in [Threads -> Daughters \cup {NULL}]
      /\ mine'[t] = d
      /\ \A u \in Threads : u # t => mine'[u] = mine[u]
  BY <1>1, <1>5 DEF IInv, TypeInv
<1>7. InitMom(START_NUM_OF_ODBCS) # NULL BY <1>5, NullListAssumption
<1>8. Live(daughters)' = Live(daughters) \cup {d}
  BY <1>6, <1>7 DEF Live, IInv, TypeInv
<1>9. /\ Openers(d)' = {}
      /\ \A e \in Live(daughters) : daughters'[e] = daughters[e] /\ Openers(e)' = Openers(e)
  <2>1. Occupied(daughters'[d]) = {} BY <1>5, <1>6
  <2>2. \A e \in Live(daughters) : e \in Daughters /\ e # d BY HeapIs DEF IInv
  <2> QED BY <1>6, <2>1, <2>2 DEF Openers
<1>10. TypeInv' BY <1>2, <1>3, <1>6 DEF IInv, TypeInv
<1>11. MasterThere' BY <1>2, <1>3 DEF IInv, MasterThere
<1>12. IdsApart' BY <1>2, <1>4 DEF IInv, IdsApart
<1>13. \A u \in Threads : Busy(u) => mine[u] \in Live(daughters) /\ mine[u] # d
  BY DEF IInv, HeldApart
<1>14. HeldApart'
  <2>1. \A u \in Threads : Busy(u)' => mine'[u] \in Live(daughters)'
    BY <1>4, <1>6, <1>8, <1>13
  <2>2. ASSUME NEW u \in Threads, NEW v \in Threads, Busy(u)', Busy(v)', mine'[v] = mine'[u]
        PROVE  v = u
    <3>1. CASE u # t /\ v # t BY <1>4, <1>6, <2>2, <3>1 DEF IInv, HeldApart
    <3>2. CASE u = t \/ v = t BY <1>4, <1>6, <1>13, <2>2, <3>2
    <3> QED BY <3>1, <3>2
  <2> QED BY <2>1, <2>2 DEF HeldApart
<1>15. cMom # NULL => \A i \in Occupied(masters[cMom]) :
         masters[cMom].slot[i].obj \in Live(daughters) /\ masters[cMom].slot[i].obj # d
  BY <1>2 DEF IInv, ListLive, MasterThere
<1>16. HeldListed'
  <2>1. ASSUME cMom # NULL, NEW u \in Threads, Busy(u)', NEW i \in Occupied(masters[cMom]),
               masters[cMom].slot[i].obj = mine'[u]
        PROVE  masters[cMom].slot[i].id = id[u] /\ pc'[u] \notin {"register", "free"}
    <3>1. u # t BY <1>6, <1>15, <2>1
    <3> QED BY <1>3, <1>4, <1>6, <2>1, <3>1 DEF IInv, HeldListed
  <2> QED BY <1>2, <2>1 DEF HeldListed
<1>17. DaughtersFormed'
  <2>1. WellFormed(daughters'[d]) /\ Numbered(daughters'[d]) BY <1>5, <1>6 DEF Numbered
  <2> QED BY <1>8, <1>9, <2>1 DEF IInv, DaughtersFormed
<1>18. OpenedByStarted'
  <2>1. ASSUME NEW e \in Live(daughters), NEW u \in Openers(e) PROVE pc'[u] # "none"
    BY <1>3, <2>1, OpenersAre DEF IInv, OpenedByStarted
  <2> QED BY <1>8, <1>9, <2>1 DEF OpenedByStarted
<1>19. OpenedListed' BY <1>2, <1>4, <1>9, <1>15 DEF IInv, OpenedListed
<1>20. OpenedHeld'
  <2>1. ASSUME NEW u \in Threads, Busy(u)' PROVE Openers(mine[u])' \cap Running \subseteq {u}
    <3>1. CASE u = t
      <4>1. Openers(mine[t])' = Openers(d)' BY <1>6 DEF Openers
      <4> QED BY <1>9, <3>1, <4>1
    <3>2. CASE u # t
      <4>1. mine'[u] = mine[u] /\ Busy(u) BY <1>4, <1>6, <2>1, <3>2
      <4>2. daughters'[mine[u]] = daughters[mine[u]] BY <1>9, <1>13, <4>1
      <4>3. Openers(mine[u])' = Openers(mine[u]) BY <4>1, <4>2 DEF Openers
      <4>4. Openers(mine[u]) \cap Running \subseteq {u} BY <4>1 DEF IInv, OpenedHeld
      <4> QED BY <4>3, <4>4
    <3> QED BY <3>1, <3>2
  <2>2. Running' = Running BY <1>4
  <2> QED BY <2>1, <2>2 DEF OpenedHeld
<1>21. ListLive' BY <1>2, <1>8 DEF IInv, ListLive
<1> QED BY <1>10, <1>11, <1>12, <1>14, <1>16, <1>17, <1>18, <1>19, <1>20, <1>21 DEF IInv

\* The MASTER list takes a daughter under the thread's id, when it has no other.
LEMMA RegisterKeeps ==
  ASSUME IInv, NEW t \in Threads, Register(t)
  PROVE  IInv'
<1>1. /\ Goto(t, "register", "add") /\ "add" \in Places /\ slot = 0 /\ pc[t] = "register"
      /\ UNCHANGED <<cMom, daughters, id, mine, slot>>
      /\ cMom # NULL /\ masters[cMom] # NULL
  BY DEF Register, Goto, Places, IInv, MasterThere
<1>2. t \in Running /\ Busy(t) BY <1>1 DEF Running, Busy
<1>3. cMom \in Moms /\ masters[cMom] \in ListOf(ThreadIds, Daughters)
  BY <1>1, HeapIs DEF IInv
<1>4. CASE masters' = masters BY <1>1, <1>2, <1>4, ThreadMoves DEF IInv, TypeInv
<1>5. CASE masters' # masters
  <2> DEFINE m == masters[cMom]
             a == AddToList(m, id[t], mine[t])
  <2>1. masters' = [masters EXCEPT ![cMom] = a] /\ Lookup(m, id[t]) = NULL
    BY <1>5 DEF Register, CanAdd
  <2>2. id[t] \in ThreadIds /\ mine[t] \in Live(daughters) /\ mine[t] \in Daughters
    BY <1>2, HeapIs DEF IInv, IdsApart, HeldApart
  <2>3. WellFormed(m) BY <1>1 DEF IInv, ListLive
  <2>4. FREE_ITEM \notin ThreadIds /\ NULL \notin Daughters BY IdAssumption, NullAssumption
  <2>5. ~ Holds(m, id[t]) BY <1>3, <2>1, <2>2, <2>3, <2>4, LookupIs
  <2>6. /\ a \in ListOf(ThreadIds, Daughters)
        /\ WellFormed(a)
        /\ \E k \in Occupied(a) :
             /\ k \notin Occupied(m)
             /\ Occupied(a) = Occupied(m) \cup {k}
             /\ a.slot[k] = [id |-> id[t], obj |-> mine[t]]
             /\ \A i \in Occupied(m) : a.slot[i] = m.slot[i]
    BY <1>3, <2>2, <2>3, <2>4, <2>5, AddIs
  <2> HIDE DEF a
  <2>7. PICK k \in Occupied(a) :
          /\ Occupied(a) = Occupied(m) \cup {k}
          /\ a.slot[k] = [id |-> id[t], obj |-> mine[t]]
          /\ \A i \in Occupied(m) : a.slot[i] = m.slot[i]
    BY <2>6
  <2>8. a.slot[k].id = id[t] /\ a.slot[k].obj = mine[t] BY <2>7
  <2>9. masters'[cMom'] = a /\ a # NULL
    BY <1>1, <1>3, <2>1, <2>6, NullListAssumption DEF IInv, TypeInv
  <2>10. /\ pc' \in [Threads -> Places]
         /\ pc'[t] = "add"
         /\ \A u \in Threads : u # t => pc'[u] = pc[u]
    BY <1>1, PlacesMove DEF IInv
  <2>11. Running' = Running /\ \A u \in Threads : Busy(u)' <=> Busy(u)
    BY <1>1, <2>10 DEF Running, Busy
  <2>12. Live(daughters)' = Live(daughters) /\ \A d : Openers(d)' = Openers(d)
    BY <1>1 DEF Live, Openers
  <2>13. \A i \in Occupied(m) : m.slot[i].obj # mine[t]
    BY <1>1, <1>2 DEF IInv, HeldListed
  <2>14. TypeInv' BY <1>1, <2>1, <2>6, <2>10 DEF IInv, TypeInv
  <2>15. MasterThere' BY <1>1, <2>9, <2>10 DEF IInv, MasterThere
  <2>16. IdsApart' BY <1>1, <2>11 DEF IInv, IdsApart
  <2>17. HeldApart' BY <1>1, <2>11, <2>12 DEF IInv, HeldApart
  <2>18. HeldListed'
    <3>1. ASSUME NEW u \in Threads, Busy(u), NEW i \in Occupied(a), a.slot[i].obj = mine[u]
          PROVE  a.slot[i].id = id[u] /\ pc'[u] \notin {"register", "free"}
      <4>1. CASE i = k
        <5>1. u = t BY <1>2, <2>8, <3>1, <4>1 DEF IInv, HeldApart
        <5> QED BY <2>8, <2>10, <4>1, <5>1
      <4>2. CASE i \in Occupied(m)
        <5>1. m.slot[i].obj = mine[u] BY <2>7, <3>1, <4>2
        <5>2. m.slot[i].id = id[u] /\ pc[u] \notin {"register", "free"}
          BY <1>1, <3>1, <4>2, <5>1 DEF IInv, HeldListed
        <5>3. u # t BY <1>1, <5>2
        <5> QED BY <2>7, <2>10, <4>2, <5>2, <5>3
      <4> QED BY <2>7, <4>1, <4>2
    <3> QED BY <1>1, <2>9, <2>11, <3>1 DEF HeldListed
  <2>19. DaughtersFormed' BY <1>1, <2>12 DEF IInv, DaughtersFormed
  <2>20. OpenedByStarted'
    <3>1. ASSUME NEW d \in Live(daughters), NEW u \in Openers(d) PROVE pc'[u] # "none"
      BY <2>10, <3>1, OpenersAre DEF IInv, OpenedByStarted
    <3> QED BY <2>12, <3>1 DEF OpenedByStarted
  <2>21. OpenedListed'
    <3>1. ASSUME NEW i \in Occupied(a), NEW u \in Openers(a.slot[i].obj) \cap Running
          PROVE  id[u] = a.slot[i].id
      <4>1. CASE i = k BY <1>2, <2>8, <3>1, <4>1 DEF IInv, OpenedHeld
      <4>2. CASE i \in Occupied(m)
        <5>1. a.slot[i] = m.slot[i] BY <2>7, <4>2
        <5> QED BY <1>1, <3>1, <4>2, <5>1 DEF IInv, OpenedListed
      <4> QED BY <2>7, <4>1, <4>2
    <3>2. \A i : Openers(masters[cMom].slot[i].obj)' = Openers(a.slot[i].obj)
      BY <1>1, <2>9 DEF Openers
    <3>3. Occupied(masters[cMom])' = Occupied(a) /\ \A i : (masters[cMom].slot[i].id)' = a.slot[i].id
      BY <2>9
    <3> HIDE DEF m
    <3> QED BY <1>1, <2>11, <3>1, <3>2, <3>3 DEF OpenedListed
  <2>22. OpenedHeld' BY <1>1, <2>11, <2>12 DEF IInv, OpenedHeld
  <2>23. ListLive'
    <3>1. ASSUME NEW i \in Occupied(a) PROVE a.slot[i].obj \in Live(daughters)
      BY <1>1, <2>2, <2>7, <2>8 DEF IInv, ListLive
    <3>2. ASSUME NEW i \in Occupied(a), NEW j \in Occupied(a), a.slot[i].obj = a.slot[j].obj
          PROVE  i = j
      <4>1. CASE i \in Occupied(m) /\ j \in Occupied(m)
        BY <1>1, <2>7, <3>2, <4>1 DEF IInv, ListLive
      <4>2. CASE i = k \/ j = k BY <2>7, <2>8, <2>13, <3>2, <4>2
      <4> QED BY <2>7, <4>1, <4>2
    <3> HIDE DEF m
    <3> QED BY <2>6, <2>9, <2>12, <3>1, <3>2 DEF ListLive
  <2> QED BY <2>14, <2>15, <2>16, <2>17, <2>18, <2>19, <2>20, <2>21, <2>22, <2>23 DEF IInv
<1> QED BY <1>4, <1>5

\* The daughter in the thread's hands leaves the list, and nothing else does
\* that another thread has at hand.
LEMMA RemoveDaughterKeeps ==
  ASSUME IInv, NEW t \in Threads, RemoveDaughter(t)
  PROVE  IInv'
<1> DEFINE m == masters[cMom]
           r == Remove(m, id[t])
<1>1. /\ Goto(t, "remove", "free") /\ "free" \in Places /\ slot = 0 /\ pc[t] = "remove"
      /\ UNCHANGED <<cMom, daughters, id, mine, slot>>
      /\ masters' = [masters EXCEPT ![cMom] = r]
      /\ cMom # NULL /\ masters[cMom] # NULL
  BY DEF RemoveDaughter, Goto, Places, IInv, MasterThere
<1>2. t \in Running /\ Busy(t) BY <1>1 DEF Running, Busy
<1>3. cMom \in Moms /\ m \in ListOf(ThreadIds, Daughters) /\ WellFormed(m)
  BY <1>1, HeapIs DEF IInv, ListLive
<1>4. id[t] # FREE_ITEM BY <1>2, IdAssumption DEF IInv, IdsApart
<1> HIDE DEF m
<1>5. /\ r \in ListOf(ThreadIds, Daughters)
      /\ WellFormed(r)
      /\ Occupied(r) = {i \in Occupied(m) : m.slot[i].id # id[t]}
      /\ \A i \in Occupied(r) : r.slot[i] = m.slot[i]
  BY <1>3, <1>4, RemoveIs
<1> HIDE DEF r
<1>6. masters'[cMom'] = r /\ r # NULL
  BY <1>1, <1>3, <1>5, NullListAssumption DEF IInv, TypeInv
<1>7. /\ pc' \in [Threads -> Places]
      /\ pc'[t] = "free"
      /\ \A u \in Threads : u # t => pc'[u] = pc[u]
  BY <1>1, PlacesMove DEF IInv
<1>8. Running' = Running /\ \A u \in Threads : Busy(u)' <=> Busy(u)
  BY <1>1, <1>7 DEF Running, Busy
<1>9. Live(daughters)' = Live(daughters) /\ \A d : Openers(d)' = Openers(d)
  BY <1>1 DEF Live, Openers
<1>10. TypeInv' BY <1>1, <1>5, <1>7 DEF IInv, TypeInv
<1>11. MasterThere' BY <1>1, <1>6, <1>7 DEF IInv, MasterThere
<1>12. IdsApart' BY <1>1, <1>8 DEF IInv, IdsApart
<1>13. HeldApart' BY <1>1, <1>8, <1>9 DEF IInv, HeldApart
<1>14. HeldListed'
  <2>1. ASSUME NEW u \in Threads, Busy(u), NEW i \in Occupied(r), r.slot[i].obj = mine[u]
        PROVE  r.slot[i].id = id[u] /\ pc'[u] \notin {"register", "free"}
    <3>1. i \in Occupied(m) /\ m.slot[i].id # id[t] /\ r.slot[i] = m.slot[i] BY <1>5
    <3>2. m.slot[i].id = id[u] /\ pc[u] \notin {"register", "free"}
      BY <1>1, <2>1, <3>1 DEF IInv, HeldListed, m
    <3>3. u # t BY <3>1, <3>2
    <3> QED BY <1>7, <3>1, <3>2, <3>3
  <2> QED BY <1>1, <1>6, <1>8, <2>1 DEF HeldListed
<1>15. DaughtersFormed' BY <1>1, <1>9 DEF IInv, DaughtersFormed
<1>16. OpenedByStarted'
  <2>1. ASSUME NEW d \in Live(daughters), NEW u \in Openers(d) PROVE pc'[u] # "none"
    BY <1>7, <2>1, OpenersAre DEF IInv, OpenedByStarted
  <2> QED BY <1>9, <2>1 DEF OpenedByStarted
<1>17. OpenedListed'
  <2>1. ASSUME NEW i \in Occupied(r), NEW u \in Openers(r.slot[i].obj) \cap Running
        PROVE  id[u] = r.slot[i].id
    <3>1. i \in Occupied(m) /\ r.slot[i] = m.slot[i] BY <1>5
    <3> QED BY <1>1, <2>1, <3>1 DEF IInv, OpenedListed, m
  <2>2. \A i : Openers(masters[cMom].slot[i].obj)' = Openers(r.slot[i].obj)
    BY <1>1, <1>6 DEF Openers
  <2>3. Occupied(masters[cMom])' = Occupied(r) /\ \A i : (masters[cMom].slot[i].id)' = r.slot[i].id
    BY <1>6
  <2> QED BY <1>1, <1>8, <2>1, <2>2, <2>3 DEF OpenedListed
<1>18. OpenedHeld' BY <1>1, <1>8, <1>9 DEF IInv, OpenedHeld
<1>19. ListLive'
  <2>1. ASSUME NEW i \in Occupied(r) PROVE r.slot[i].obj \in Live(daughters)
    BY <1>1, <1>5 DEF IInv, ListLive, m
  <2>2. ASSUME NEW i \in Occupied(r), NEW j \in Occupied(r), r.slot[i].obj = r.slot[j].obj
        PROVE  i = j
    BY <1>1, <1>5, <2>2 DEF IInv, ListLive, m
  <2> QED BY <1>5, <1>6, <1>9, <2>1, <2>2 DEF ListLive
<1> QED BY <1>10, <1>11, <1>12, <1>13, <1>14, <1>15, <1>16, <1>17, <1>18, <1>19 DEF IInv

\* Fewer daughters are live; the list and the other threads do not have the one
\* that is gone.
LEMMA FreeKeeps ==
  ASSUME IInv, NEW t \in Threads, Free(t)
  PROVE  IInv'
<1> DEFINE d == mine[t]
<1>1. /\ Goto(t, "free", "idle") /\ "idle" \in Places /\ slot = 0 /\ pc[t] = "free"
      /\ UNCHANGED <<cMom, masters, id, mine, slot>>
      /\ daughters' = [daughters EXCEPT ![d] = NULL]
  BY DEF Free, Goto, Places
<1>2. t \in Running /\ Busy(t) BY <1>1 DEF Running, Busy
<1>3. d \in Live(daughters) /\ d \in Daughters
      /\ \A u \in Threads : u # t /\ Busy(u) => mine[u] # d
  BY <1>2, HeapIs DEF IInv, HeldApart
<1>4. cMom # NULL => \A i \in Occupied(masters[cMom]) :
        masters[cMom].slot[i].obj \in Live(daughters) /\ masters[cMom].slot[i].obj # d
  BY <1>1, <1>2 DEF IInv, HeldListed, ListLive, MasterThere
<1> HIDE DEF d
<1>5. /\ pc' \in [Threads -> Places]
      /\ pc'[t] = "idle"
      /\ \A u \in Threads : u # t => pc'[u] = pc[u]
  BY <1>1, PlacesMove DEF IInv
<1>6. Running' = Running /\ \A u \in Threads : Busy(u)' <=> Busy(u) /\ u # t
  BY <1>1, <1>5 DEF Running, Busy
<1>7. /\ daughters' \in [Daughters -> ListOf(Nat, Threads) \cup {NULL}]
      /\ Live(daughters)' = Live(daughters) \ {d}
      /\ \A e \in Live(daughters) : e # d => daughters'[e] = daughters[e]
  BY <1>1, <1>3 DEF IInv, TypeInv, Live
<1>8. \A e \in Live(daughters) : e # d => Openers(e)' = Openers(e)
  BY <1>7 DEF Openers
<1>9. TypeInv' BY <1>1, <1>5, <1>7 DEF IInv, TypeInv
<1>10. MasterThere' BY <1>1, <1>5 DEF IInv, MasterThere
<1>11. IdsApart' BY <1>1, <1>6 DEF IInv, IdsApart
<1>12. HeldApart' BY <1>1, <1>3, <1>6, <1>7 DEF IInv, HeldApart
<1>13. HeldListed' BY <1>1, <1>5, <1>6 DEF IInv, HeldListed
<1>14. DaughtersFormed' BY <1>7 DEF IInv, DaughtersFormed
<1>15. OpenedByStarted'
  <2>1. ASSUME NEW e \in Live(daughters), NEW u \in Openers(e) PROVE pc'[u] # "none"
    BY <1>5, <2>1, OpenersAre DEF IInv, OpenedByStarted
  <2> QED BY <1>7, <1>8, <2>1 DEF OpenedByStarted
<1>16. OpenedListed' BY <1>1, <1>4, <1>6, <1>8 DEF IInv, OpenedListed
<1>17. OpenedHeld'
  <2>1. ASSUME NEW u \in Threads, Busy(u), u # t
        PROVE  Openers(mine[u])' \cap Running \subseteq {u}
    <3>1. mine[u] \in Live(daughters) /\ mine[u] # d BY <1>3, <2>1 DEF IInv, HeldApart
    <3>2. Openers(mine[u])' = Openers(mine[u]) BY <1>1, <1>7, <3>1 DEF Openers
    <3> QED BY <2>1, <3>2 DEF IInv, OpenedHeld
  <2> QED BY <1>6, <2>1 DEF OpenedHeld
<1>18. ListLive' BY <1>1, <1>4, <1>7 DEF IInv, ListLive
<1> QED BY <1>9, <1>10, <1>11, <1>12, <1>13, <1>14, <1>15, <1>16, <1>17, <1>18 DEF IInv

\* The process detaches: the other threads are gone, nothing is at hand.
LEMMA DetachKeeps ==
  ASSUME IInv, NEW t \in Threads, Detach(t)
  PROVE  IInv'
<1>1. /\ slot = 0 /\ slot' = 1 /\ pc[t] = "idle"
      /\ cMom # NULL /\ masters[cMom] # NULL
      /\ UNCHANGED <<cMom, masters, daughters, id, mine>>
      /\ pc' = [u \in Threads |-> IF u = t THEN "detach" ELSE "gone"]
  BY DEF Detach, IInv, MasterThere
<1>2. /\ pc' \in [Threads -> Places]
      /\ \A u \in Threads : ~ Busy(u)' /\ pc'[u] \in {"detach", "gone"}
      /\ Running' = {t} /\ t \in Running
  BY <1>1 DEF Places, Busy, Running
<1>3. TypeInv' BY <1>1, <1>2 DEF IInv, TypeInv
<1>4. WellFormed(masters[cMom]) BY <1>1 DEF IInv, ListLive
<1>5. MasterThere' BY <1>1, <1>2, <1>4 DEF MasterThere, WellFormed
<1>6. IdsApart' BY <1>1, <1>2 DEF IInv, IdsApart
<1>7. Live(daughters)' = Live(daughters) /\ \A d : Openers(d)' = Openers(d)
  BY <1>1 DEF Live, Openers
<1>8. OpenedByStarted'
  <2>1. ASSUME NEW d \in Live(daughters), NEW u \in Openers(d) PROVE pc'[u] # "none"
    BY <1>2, <2>1, OpenersAre DEF IInv
  <2> QED BY <1>7, <2>1 DEF OpenedByStarted
<1>9. DaughtersFormed' BY <1>1, <1>7 DEF IInv, DaughtersFormed
<1>10. HeldApart' /\ HeldListed' /\ OpenedHeld' BY <1>2 DEF HeldApart, HeldListed, OpenedHeld
<1>11. OpenedListed' BY <1>1 DEF OpenedListed
<1>12. ListLive' BY <1>1, <1>7 DEF IInv, ListLive
<1> QED BY <1>3, <1>5, <1>6, <1>8, <1>9, <1>10, <1>11, <1>12 DEF IInv

\* What DeleteConns leaves is a heap with the same daughters and no connection
\* that was not there.
LEMMA DeleteConnsLeaves ==
  ASSUME IInv, NEW t \in Running, NEW d, masters[cMom] # NULL
  PROVE  LET h == DeleteConns(t, d)
         IN  /\ h \in [Daughters -> ListOf(Nat, Threads) \cup {NULL}]
             /\ \A x \in Daughters : h[x] = NULL <=> daughters[x] = NULL
             /\ \A x \in Live(daughters) :
                  /\ WellFormed(h[x]) /\ Numbered(h[x])
                  /\ \A i \in Occupied(h[x]) : h[x].slot[i].obj \in Openers(x)
<1> DEFINE h == DeleteConns(t, d)
<1>1. /\ daughters \in [Daughters -> ListOf(Nat, Threads) \cup {NULL}]
      /\ \A x \in Live(daughters) :
           /\ WellFormed(daughters[x]) /\ Numbered(daughters[x])
           /\ \A i \in Occupied(daughters[x]) : daughters[x].slot[i].obj \in Openers(x)
  BY DEF IInv, TypeInv, DaughtersFormed, Openers
<1>2. CASE h = daughters BY <1>1, <1>2
<1>3. CASE h # daughters
  <2>1. PICK e \in Live(daughters), r \in ListOf(Nat, Threads) :
          /\ WellFormed(r) /\ Numbered(r)
          /\ h = [daughters EXCEPT ![e] = r]
          /\ \A i \in Occupied(r) : r.slot[i].obj \in Openers(e)
    BY <1>3, DeleteConnsIs DEF IInv
  <2> HIDE DEF h
  <2>2. e \in Daughters /\ daughters[e] # NULL /\ r # NULL
    BY HeapIs, NullListAssumption DEF IInv
  <2>3. h \in [Daughters -> ListOf(Nat, Threads) \cup {NULL}] BY <1>1, <2>1
  <2>4. \A x \in Daughters : h[x] = IF x = e THEN r ELSE daughters[x] BY <1>1, <2>1
  <2>5. \A x \in Daughters : h[x] = NULL <=> daughters[x] = NULL BY <2>2, <2>4
  <2>6. ASSUME NEW x \in Live(daughters)
        PROVE  /\ WellFormed(h[x]) /\ Numbered(h[x])
               /\ \A i \in Occupied(h[x]) : h[x].slot[i].obj \in Openers(x)
    <3>0. x \in Daughters BY HeapIs DEF IInv
    <3>1. CASE x = e
      <4>1. h[x] = r BY <2>4, <3>0, <3>1
      <4> QED BY <2>1, <3>1, <4>1
    <3>2. CASE x # e
      <4>1. h[x] = daughters[x] BY <2>4, <3>0, <3>2
      <4> QED BY <1>1, <4>1
    <3> QED BY <3>1, <3>2
  <2> QED BY <2>3, <2>5, <2>6 DEF h
<1> QED BY <1>2, <1>3

\* A slot of the MASTER list is freed together with its daughter.
LEMMA DetachSlotKeeps ==
  ASSUME IInv, NEW t \in Threads, DetachSlot(t)
  PROVE  IInv'
<1> DEFINE m == masters[cMom]
           d == m.slot[slot].obj
           r == Remove(m, id[t])
           a == [r EXCEPT !.slot[slot] = FreeSlot]
<1>1. /\ pc[t] = "detach" /\ slot <= TotalElements(m) /\ slot' = slot + 1
      /\ UNCHANGED <<cMom, pc, id, mine>>
      /\ slot \in Nat /\ slot > 0
      /\ cMom # NULL /\ m # NULL
      /\ \A u \in Threads : pc[u] \in {"detach", "gone"}
  BY DEF DetachSlot, IInv, MasterThere, TypeInv
<1>2. t \in Running /\ \A u \in Threads : ~ Busy(u)' BY <1>1 DEF Running, Busy
<1>3. cMom \in Moms /\ m \in ListOf(ThreadIds, Daughters)
  BY <1>1, HeapIs DEF IInv
<1>4. slot \in Entries(m) BY <1>1, <1>3, SlotsOf DEF Entries
<1>5. IdsApart' BY <1>1 DEF IInv, IdsApart, Running
<1>6. HeldApart' /\ HeldListed' /\ OpenedHeld' BY <1>2 DEF HeldApart, HeldListed, OpenedHeld
<1>7. OpenedListed' BY <1>1 DEF OpenedListed
<1>8. slot' \in Nat /\ slot' > 0 BY <1>1
<1>9. CASE d = NULL
  <2>1. UNCHANGED <<masters, daughters>> BY <1>9 DEF DetachSlot
  <2>2. TypeInv' BY <1>1, <1>8, <2>1 DEF IInv, TypeInv
  <2>3. MasterThere' BY <1>1, <1>8, <2>1 DEF IInv, MasterThere
  <2>4. Live(daughters)' = Live(daughters) /\ \A e : Openers(e)' = Openers(e)
    BY <2>1 DEF Live, Openers
  <2>5. DaughtersFormed' BY <2>1, <2>4 DEF IInv, DaughtersFormed
  <2>6. OpenedByStarted' BY <1>1, <2>4 DEF IInv, OpenedByStarted
  <2>7. ListLive' BY <1>1, <1>8, <2>1, <2>4 DEF IInv, ListLive
  <2> QED BY <1>5, <1>6, <1>7, <2>2, <2>3, <2>5, <2>6, <2>7 DEF IInv
<1>10. CASE d # NULL
  <2> DEFINE h == DeleteConns(t, d)
  <2>1. daughters' = [h EXCEPT ![d] = NULL] /\ masters' = [masters EXCEPT ![cMom] = a]
    BY <1>10 DEF DetachSlot
  <2>2. slot \in Occupied(m) BY <1>1, <1>4, <1>10 DEF IInv, MasterThere, Occupied
  <2>3. d \in Live(daughters) /\ d \in Daughters
    <3>1. d \in Live(daughters) BY <1>1, <2>2 DEF IInv, ListLive
    <3> QED BY <3>1, HeapIs DEF IInv
  <2>4. /\ h \in [Daughters -> ListOf(Nat, Threads) \cup {NULL}]
        /\ \A x \in Daughters : h[x] = NULL <=> daughters[x] = NULL
        /\ \A x \in Live(daughters) :
             /\ WellFormed(h[x]) /\ Numbered(h[x])
             /\ \A i \in Occupied(h[x]) : h[x].slot[i].obj \in Openers(x)
    BY <1>1, <1>2, DeleteConnsLeaves
  <2> HIDE DEF h
  <2>5. id[t] # FREE_ITEM BY <1>2, IdAssumption DEF IInv, IdsApart
  <2> HIDE DEF m
  <2>6. /\ r \in ListOf(ThreadIds, Daughters)
        /\ Entries(r) = Entries(m)
        /\ Occupied(r) \subseteq Occupied(m)
        /\ \A i \in Occupied(r) : r.slot[i] = m.slot[i]
        /\ \A i \in Entries(m) : r.slot[i] \in {m.slot[i], FreeSlot}
    BY <1>3, <2>5, RemoveIs
  <2> HIDE DEF r
  <2>7. /\ a \in ListOf(ThreadIds, Daughters)
        /\ Entries(a) = Entries(m)
        /\ a.slot[slot] = FreeSlot
        /\ \A i \in Entries(m) : i # slot => a.slot[i] = r.slot[i]
    BY <1>4, <2>6, FreedIs
  <2> HIDE DEF a
  <2>8. Occupied(a) = Occupied(r) \ {slot} BY <2>6, <2>7 DEF Occupied, FreeSlot
  <2>9. \A i \in Occupied(a) : i \in Occupied(m) /\ i # slot /\ a.slot[i] = m.slot[i]
    BY <2>6, <2>7, <2>8 DEF Occupied
  <2>10. masters'[cMom'] = a BY <1>1, <1>3, <2>1 DEF IInv, TypeInv
  <2> HIDE DEF d
  <2>11. /\ Live(daughters)' = Live(daughters) \ {d}
         /\ \A e \in Live(daughters) : e # d => daughters'[e] = h[e]
    BY <2>1, <2>3, <2>4 DEF Live, IInv, TypeInv
  <2>12. TypeInv'
    <3>1. daughters' \in [Daughters -> ListOf(Nat, Threads) \cup {NULL}] BY <2>1, <2>4
    <3>2. masters' \in [Moms -> ListOf(ThreadIds, Daughters) \cup {NULL}]
      BY <2>1, <2>7 DEF IInv, TypeInv
    <3> QED BY <1>1, <1>8, <3>1, <3>2 DEF IInv, TypeInv
  <2>13. MasterThere'
    <3>1. \A i \in Entries(a) : a.slot[i].obj = NULL <=> a.slot[i].id = FREE_ITEM
      <4>1. ASSUME NEW i \in Entries(m) PROVE m.slot[i].obj = NULL <=> m.slot[i].id = FREE_ITEM
        BY <1>1 DEF IInv, MasterThere, m
      <4> QED BY <2>6, <2>7, <4>1 DEF FreeSlot
    <3>2. a # NULL BY <2>7, NullListAssumption
    <3>3. \A u \in Threads : pc[u] = "detach" => \A v \in Threads : v # u => pc[v] = "gone"
      BY DEF IInv, MasterThere
    <3> QED BY <1>1, <1>8, <2>10, <3>1, <3>2, <3>3 DEF MasterThere
  <2>14. DaughtersFormed' BY <2>4, <2>11 DEF DaughtersFormed
  <2>15. OpenedByStarted'
    <3>1. ASSUME NEW e \in Live(daughters), e # d, NEW u \in Openers(e)' PROVE pc'[u] # "none"
      <4>1. u \in Openers(e) BY <2>4, <2>11, <3>1 DEF Openers
      <4> QED BY <1>1, <4>1 DEF IInv, OpenedByStarted
    <3> QED BY <2>11, <3>1 DEF OpenedByStarted
  <2>16. ListLive'
    <3>1. \A i \in Occupied(m) : m.slot[i].obj = d => i = slot
      BY <1>1, <2>2 DEF IInv, ListLive, m, d
    <3>2. ASSUME NEW i \in Occupied(a) PROVE a.slot[i].obj \in Live(daughters) \ {d}
      BY <1>1, <2>9, <3>1 DEF IInv, ListLive, m
    <3>3. ASSUME NEW i \in Occupied(a), NEW j \in Occupied(a), a.slot[i].obj = a.slot[j].obj
          PROVE  i = j
      BY <1>1, <2>9, <3>3 DEF IInv, ListLive, m
    <3> QED BY <1>8, <2>10, <2>11, <3>2, <3>3 DEF ListLive
  <2> QED BY <1>5, <1>6, <1>7, <2>12, <2>13, <2>14, <2>15, <2>16 DEF IInv
<1> QED BY <1>9, <1>10

\* The MASTER list is freed, and with it the last thread is gone.
LEMMA DetachEndKeeps ==
  ASSUME IInv, NEW t \in Threads, DetachEnd(t)
  PROVE  IInv'
<1>1. /\ pc[t] = "detach" /\ slot > 0 /\ cMom # NULL /\ masters[cMom] # NULL
      /\ UNCHANGED <<cMom, daughters, id, mine, slot>>
      /\ masters' = [masters EXCEPT ![cMom] = NULL]
      /\ pc' = [pc EXCEPT ![t] = "gone"]
      /\ \A u \in Threads : pc[u] \in {"detach", "gone"}
  BY DEF DetachEnd, IInv, MasterThere
<1>2. /\ pc' \in [Threads -> Places]
      /\ \A u \in Threads : pc'[u] = "gone"
  BY <1>1 DEF IInv, MasterThere, TypeInv, Places
<1>3. Running' = {} /\ \A u \in Threads : ~ Busy(u)' BY <1>2 DEF Running, Busy
<1>4. TypeInv'
  <2>1. masters' \in [Moms -> ListOf(ThreadIds, Daughters) \cup {NULL}]
    BY <1>1 DEF IInv, TypeInv
  <2> QED BY <1>1, <1>2, <2>1 DEF IInv, TypeInv
<1>5. masters'[cMom'] = NULL BY <1>1 DEF IInv, TypeInv
<1>6. MasterThere' BY <1>1, <1>2, <1>5 DEF MasterThere
<1>7. Live(daughters)' = Live(daughters) /\ \A d : Openers(d)' = Openers(d)
  BY <1>1 DEF Live, Openers
<1>8. OpenedByStarted'
  <2>1. ASSUME NEW d \in Live(daughters), NEW u \in Openers(d) PROVE pc'[u] # "none"
    BY <1>2, <2>1, OpenersAre DEF IInv
  <2> QED BY <1>7, <2>1 DEF OpenedByStarted
<1>9. DaughtersFormed' BY <1>1, <1>7 DEF IInv, DaughtersFormed
<1>10. IdsApart' /\ HeldApart' /\ HeldListed' /\ OpenedHeld'
  BY <1>3 DEF IdsApart, HeldApart, HeldListed, OpenedHeld
<1>11. OpenedListed' BY <1>1 DEF OpenedListed
<1>12. ListLive' BY <1>5 DEF ListLive
<1> QED BY <1>4, <1>6, <1>8, <1>9, <1>10, <1>11, <1>12 DEF IInv

\* The steps that change no list and no connection.
LEMMA MovesKeep ==
  ASSUME IInv, NEW t \in Threads,
         \/ \E i \in ThreadIds : Start(t, i)
         \/ Load(t) \/ Boot(t) \/ Connect(t) \/ Find(t) \/ ShutDown(t) \/ Exit(t)
  PROVE  IInv'
<1> USE DEF Places
<1>0. id \in [Threads -> ThreadIds \cup {NULL}] /\ mine \in [Threads -> Daughters \cup {NULL}]
  BY DEF IInv, TypeInv
<1>1. CASE \E i \in ThreadIds : Start(t, i)
  <2>1. PICK i \in ThreadIds : Start(t, i) BY <1>1
  <2> DEFINE to == IF t \in Loaders THEN "load" ELSE "idle"
  <2>2. /\ Goto(t, "none", to) /\ to \in Places /\ to \in {"load", "idle"}
        /\ to \notin {"load", "new", "gone"} => cMom # NULL
        /\ id' = [id EXCEPT ![t] = i]
        /\ \A u \in Running : id[u] # i
        /\ UNCHANGED <<cMom, masters, daughters, mine, slot>>
    BY <2>1 DEF Start
  <2>3. id' \in [Threads -> ThreadIds \cup {NULL}] /\ id'[t] = i
        /\ \A u \in Threads : u # t => id'[u] = id[u]
    BY <1>0, <2>2
  <2> HIDE DEF to
  <2> QED BY <1>0, <2>2, <2>3, ThreadMoves
<1>2. CASE Load(t)
  <2> DEFINE to == IF cMom = NULL THEN "new" ELSE "boot"
  <2>1. /\ Goto(t, "load", to) /\ to \in Places /\ to \in {"new", "boot"}
        /\ to # "new" => cMom # NULL
        /\ UNCHANGED <<cMom, masters, daughters, id, mine, slot>>
    BY <1>2 DEF Load
  <2> HIDE DEF to
  <2> QED BY <1>0, <2>1, ThreadMoves
<1>3. CASE Boot(t)
  <2> DEFINE to == IF Daughter(t) # NULL /\ Lookup(daughters[Daughter(t)], 0) # NULL
                   THEN "idle" ELSE "find"
  <2>1. /\ Goto(t, "boot", to) /\ to \in Places /\ to \in {"idle", "find"}
        /\ UNCHANGED <<cMom, masters, daughters, id, mine, slot>>
    BY <1>3 DEF Boot
  <2>2. cMom # NULL BY <2>1 DEF Goto, IInv, MasterThere
  <2> HIDE DEF to
  <2> QED BY <1>0, <2>1, <2>2, ThreadMoves
<1>4. CASE Connect(t)
  <2>1. /\ Goto(t, "idle", "find") /\ "find" \in Places
        /\ UNCHANGED <<cMom, masters, daughters, id, mine, slot>>
    BY <1>4 DEF Connect
  <2>2. cMom # NULL BY <2>1 DEF Goto, IInv, MasterThere
  <2> QED BY <1>0, <2>1, <2>2, ThreadMoves
<1>5. CASE Find(t)
  <2> DEFINE to == IF Daughter(t) = NULL THEN "create" ELSE "add"
  <2>1. /\ Goto(t, "find", to) /\ to \in Places /\ to \in {"create", "add"}
        /\ to = "add" => Daughter(t) # NULL
        /\ mine' = [mine EXCEPT ![t] = Daughter(t)]
        /\ UNCHANGED <<cMom, masters, daughters, id, slot>>
    BY <1>5 DEF Find
  <2>2. cMom # NULL /\ t \in Running /\ slot = 0
    BY <2>1 DEF Goto, IInv, MasterThere, Running
  <2>3. Daughter(t) \in Daughters \cup {NULL} BY <2>2, DaughterOwn, HeapIs DEF IInv
  <2>4. mine' \in [Threads -> Daughters \cup {NULL}] /\ mine'[t] = Daughter(t)
        /\ \A u \in Threads : u # t => mine'[u] = mine[u]
    BY <1>0, <2>1, <2>3
  <2> HIDE DEF to
  <2> QED BY <1>0, <2>1, <2>2, <2>4, ThreadMoves
<1>6. CASE ShutDown(t)
  <2>1. /\ Goto(t, "idle", "close") /\ "close" \in Places
        /\ Daughter(t) # NULL
        /\ mine' = [mine EXCEPT ![t] = Daughter(t)]
        /\ UNCHANGED <<cMom, masters, daughters, id, slot>>
    BY <1>6 DEF ShutDown
  <2>2. cMom # NULL /\ t \in Running /\ slot = 0
    BY <2>1 DEF Goto, IInv, MasterThere, Running
  <2>3. Daughter(t) \in Daughters BY <2>1, <2>2, DaughterOwn, HeapIs DEF IInv
  <2>4. mine' \in [Threads -> Daughters \cup {NULL}] /\ mine'[t] = Daughter(t)
        /\ \A u \in Threads : u # t => mine'[u] = mine[u]
    BY <1>0, <2>1, <2>3
  <2> QED BY <1>0, <2>1, <2>2, <2>4, ThreadMoves
<1>7. CASE Exit(t)
  <2>1. /\ Goto(t, "idle", "gone") /\ "gone" \in Places
        /\ UNCHANGED <<cMom, masters, daughters, id, mine, slot>>
    BY <1>7 DEF Exit
  <2> QED BY <1>0, <2>1, ThreadMoves
<1> QED BY <1>1, <1>2, <1>3, <1>4, <1>5, <1>6, <1>7

\* IInv holds at first: there is no thread and no list.
LEMMA InitIInv ==
  ASSUME Init
  PROVE  IInv
<1>1. TypeInv BY DEF Init, TypeInv, Places
<1>2. Live(daughters) = {} /\ cMom = NULL BY DEF Init, Live
<1>3. Running = {} /\ \A t \in Threads : ~ Busy(t) BY DEF Init, Running, Busy
<1>4. MasterThere BY DEF Init, MasterThere
<1> QED BY <1>1, <1>2, <1>3, <1>4
        DEF IInv, IdsApart, HeldApart, HeldListed, DaughtersFormed, OpenedByStarted,
            OpenedListed, OpenedHeld, ListLive

\* Every step keeps IInv.
LEMMA NextIInv ==
  ASSUME IInv, [Next]_vars
  PROVE  IInv'
<1>1. CASE UNCHANGED vars
  BY <1>1 DEF vars, IInv, TypeInv, MasterThere, IdsApart, HeldApart, HeldListed, DaughtersFormed,
     OpenedByStarted, OpenedListed, OpenedHeld, ListLive, Running, Busy, Live, Openers
<1>2. ASSUME NEW t \in Threads, NEW n \in 0 .. MaxConns, Disconnect(t, n) PROVE IInv'
  BY <1>2, DisconnectKeeps
<1>3. CASE Next
  <2>1. PICK t \in Threads :
          \/ \E i \in ThreadIds : Start(t, i)
          \/ Load(t) \/ NewMaster(t) \/ Boot(t)
          \/ Connect(t) \/ Find(t) \/ Create(t) \/ Register(t) \/ Add(t)
          \/ \E n \in 0 .. MaxConns : Disconnect(t, n)
          \/ ShutDown(t) \/ Close(t) \/ RemoveDaughter(t) \/ Free(t)
          \/ Exit(t)
          \/ Detach(t) \/ DetachSlot(t) \/ DetachEnd(t)
    BY <1>3 DEF Next
  <2> QED BY <1>2, <2>1, MovesKeep, NewMasterKeeps, CreateKeeps, RegisterKeeps, AddKeeps,
             CloseKeeps, RemoveDaughterKeeps, FreeKeeps, DetachKeeps, DetachSlotKeeps,
             DetachEndKeeps
<1> QED BY <1>1, <1>3

\* The inductive invariant.
THEOREM Invariant == Spec => []IInv
<1>1. Init => IInv BY InitIInv
<1>2. IInv /\ [Next]_vars => IInv' BY NextIInv
<1> QED BY <1>1, <1>2, PTL DEF Spec

\* Whatever the threads do, and however many there are, the MASTER list is well
\* formed and names live daughters, each once.
THEOREM ListIsLive == Spec => []ListLive
<1>1. IInv => ListLive BY DEF IInv
<1> QED BY <1>1, Invariant, PTL

\* A running thread finds no connection that another running thread has opened.
THEOREM ThreadsStayApart == Spec => []ThreadsApart
<1>1. IInv => ThreadsApart
  <2> SUFFICES ASSUME IInv, slot = 0, NEW t \in Running, Daughter(t) # NULL
               PROVE  Openers(Daughter(t)) \cap Running \subseteq {t}
    BY DEF ThreadsApart
  <2> QED BY DaughterOwn
<1> QED BY <1>1, Invariant, PTL

-----------------------------------------------------------------------------
(***************************************************************************)
(* What is kept when one thread loads the extension.  With several of them *)
(* a MASTER list can be replaced by another, and all it holds is lost.     *)
(***************************************************************************)
OneLoader == \A t, u \in Loaders : t = u

\* Only a loader loads, and it makes the list when there is none; before it has,
\* there is no daughter.
LoadsOnce ==
  /\ \A t \in Threads : /\ pc[t] \in {"load", "new"} => t \in Loaders
                        /\ pc[t] = "new" => cMom = NULL
  /\ cMom = NULL => Live(daughters) = {}

\* A thread that makes a daughter has none, and one that deletes its daughter
\* still finds it.
OwnFound ==
  slot = 0 =>
    \A t \in Threads : /\ pc[t] \in {"create", "register"} => Daughter(t) = NULL
                       /\ pc[t] \in {"close", "remove"} => Daughter(t) = mine[t]

\* A daughter that is not yet, or no longer, in the list has no connections; it is
\* given up only then.
Emptied ==
  \A t \in Threads : pc[t] \in {"register", "remove", "free"} => Openers(mine[t]) = {}

JInv == IInv /\ LoadsOnce /\ OwnFound /\ Emptied /\ DaughtersKept

\* A step with the same memory, as in ThreadMoves.
LEMMA MovesKeepJ ==
  ASSUME JInv, NEW t \in Threads, NEW from, NEW to \in Places, Goto(t, from, to),
         UNCHANGED <<cMom, masters, daughters, lost, slot>>,
         IInv',
         to \notin {"register", "remove", "free"}, from \notin {"register", "free"},
         to \in {"load", "new"} => t \in Loaders,
         to = "new" => cMom = NULL,
         to = "create" => Daughter(t)' = NULL,
         to = "close" => Daughter(t)' = mine'[t],
         \A u \in Threads : u # t => id'[u] = id[u] /\ mine'[u] = mine[u]
  PROVE  JInv'
<1>1. /\ pc'[t] = to /\ pc[t] = from /\ slot = 0
      /\ \A u \in Threads : u # t => pc'[u] = pc[u]
  BY PlacesMove DEF Goto, JInv, IInv
<1>2. Live(daughters)' = Live(daughters) BY DEF Live
<1>3. LoadsOnce' BY <1>1, <1>2 DEF JInv, LoadsOnce
<1>4. OwnFound'
  <2>1. \A u \in Threads : u # t => Daughter(u)' = Daughter(u) BY DEF Daughter
  <2> QED BY <1>1, <2>1 DEF JInv, OwnFound
<1>5. Emptied'
  <2>1. ASSUME NEW u \in Threads, pc'[u] \in {"register", "remove", "free"}
        PROVE  Openers(mine[u])' = {}
    <3>1. u # t BY <1>1, <2>1
    <3>2. Openers(mine[u])' = Openers(mine[u]) BY <3>1 DEF Openers
    <3> QED BY <1>1, <2>1, <3>1, <3>2 DEF JInv, Emptied
  <2> QED BY <2>1 DEF Emptied
<1>6. DaughtersKept'
  <2>1. ASSUME slot = 0, NEW d \in Live(daughters) \ lost
        PROVE  \/ \E i \in ThreadIds : Lookup(masters[cMom], i) = d
               \/ \E u \in Running' : mine'[u] = d /\ pc'[u] \in {"register", "free"}
    <3>1. CASE \E i \in ThreadIds : Lookup(masters[cMom], i) = d BY <3>1
    <3>2. CASE \E u \in Running : mine[u] = d /\ pc[u] \in {"register", "free"}
      <4>1. PICK u \in Running : mine[u] = d /\ pc[u] \in {"register", "free"} BY <3>2
      <4>2. u \in Threads /\ u # t BY <1>1, <4>1 DEF Running
      <4>3. u \in Running' /\ mine'[u] = d /\ pc'[u] \in {"register", "free"}
        BY <1>1, <4>1, <4>2 DEF Running
      <4> QED BY <4>3
    <3> QED BY <2>1, <3>1, <3>2 DEF JInv, DaughtersKept
  <2> QED BY <1>2, <2>1 DEF DaughtersKept
<1> QED BY <1>3, <1>4, <1>5, <1>6 DEF JInv

\* A step that changes connections.
LEMMA ConnsKeepJ ==
  ASSUME JInv, NEW t \in Threads, NEW from, NEW to \in Places, Goto(t, from, to),
         UNCHANGED <<cMom, masters, lost, id, mine, slot>>,
         IInv', ConnsChange(t),
         \/ to = "idle" /\ from \in {"add", "idle"}
         \/ to = "remove" /\ from = "close" /\ Openers(mine[t])' = {}
  PROVE  JInv'
<1>1. /\ pc'[t] = to /\ pc[t] = from /\ slot = 0
      /\ \A u \in Threads : u # t => pc'[u] = pc[u]
  BY PlacesMove DEF Goto, JInv, IInv
<1>2. /\ Live(daughters)' = Live(daughters)
      /\ \A e \in Live(daughters) : \A u \in Openers(e)' :
           u \in Openers(e) \/ (u = t /\ Busy(t) /\ mine[t] = e)
  BY DEF ConnsChange
<1>3. LoadsOnce' BY <1>1, <1>2 DEF JInv, LoadsOnce
<1>4. OwnFound'
  <2>1. \A u \in Threads : Daughter(u)' = Daughter(u) BY DEF Daughter
  <2> QED BY <1>1, <2>1 DEF JInv, OwnFound
<1>5. Emptied'
  <2>1. ASSUME NEW u \in Threads, pc'[u] \in {"register", "remove", "free"}, u # t
        PROVE  Openers(mine[u])' = {}
    <3>1. Busy(u) /\ pc[u] = pc'[u] BY <1>1, <2>1 DEF Busy
    <3>2. mine[u] \in Live(daughters) /\ (Busy(t) => mine[t] # mine[u])
      BY <2>1, <3>1 DEF JInv, IInv, HeldApart
    <3>3. Openers(mine[u]) = {} BY <2>1, <3>1 DEF JInv, Emptied
    <3>4. \A e \in Live(daughters) : e = mine[u] => Openers(e)' = {} BY <1>2, <3>2, <3>3
    <3>5. ASSUME NEW e, e = mine[u] PROVE Openers(e)' = Openers(mine[u])'
      BY <3>5 DEF Openers
    <3> QED BY <3>2, <3>4, <3>5
  <2>2. pc'[t] \in {"register", "remove", "free"} => Openers(mine[t])' = {} BY <1>1
  <2> QED BY <2>1, <2>2 DEF Emptied
<1>6. DaughtersKept'
  <2>1. \A u \in Running : pc[u] \in {"register", "free"} => u \in Running' /\ pc'[u] = pc[u]
    BY <1>1 DEF Running
  <2> QED BY <1>2, <2>1 DEF JInv, DaughtersKept
<1> QED BY <1>3, <1>4, <1>5, <1>6 DEF JInv

\* The first MASTER list replaces none.
LEMMA NewMasterKeepsJ ==
  ASSUME JInv, OneLoader, NEW t \in Threads, NewMaster(t), IInv'
  PROVE  JInv'
<1>1. PICK m \in Moms \ Live(masters) :
        /\ masters' = [masters EXCEPT ![m] = InitMom(START_NUM_OF_DAUGHTERS)]
        /\ cMom' = m
  BY DEF NewMaster
<1>2. /\ Goto(t, "new", "boot") /\ "boot" \in Places /\ slot = 0
      /\ UNCHANGED <<daughters, lost, id, mine, slot>>
  BY DEF NewMaster, Goto, Places
<1>3. /\ pc'[t] = "boot" /\ pc[t] = "new"
      /\ \A u \in Threads : u # t => pc'[u] = pc[u]
  BY <1>2, PlacesMove DEF JInv, IInv
<1>4. cMom = NULL /\ t \in Loaders /\ Live(daughters) = {} BY <1>3 DEF JInv, LoadsOnce
<1>5. \A u \in Threads : u # t => pc'[u] \in {"none", "load", "new", "gone"}
  BY <1>3, <1>4 DEF JInv, IInv, MasterThere
<1>6. Live(daughters)' = {} BY <1>2, <1>4 DEF Live
<1>7. cMom' # NULL BY <1>1, NullAssumption
<1>8. LoadsOnce'
  <2>1. ASSUME NEW u \in Threads, pc'[u] = "new" PROVE FALSE
    <3>1. u # t /\ pc[u] = "new" BY <1>3, <2>1
    <3>2. u \in Loaders BY <3>1 DEF JInv, LoadsOnce
    <3> QED BY <1>4, <3>1, <3>2 DEF OneLoader
  <2>2. \A u \in Threads : pc'[u] = "load" => u \in Loaders BY <1>3 DEF JInv, LoadsOnce
  <2> QED BY <1>7, <2>1, <2>2 DEF LoadsOnce
<1>9. OwnFound' BY <1>3, <1>5 DEF OwnFound
<1>10. Emptied' BY <1>3, <1>5 DEF Emptied
<1>11. DaughtersKept' BY <1>6 DEF DaughtersKept
<1> QED BY <1>8, <1>9, <1>10, <1>11 DEF JInv

\* A new daughter is in the hands of the thread that registers it.
LEMMA CreateKeepsJ ==
  ASSUME JInv, NEW t \in Threads, Create(t), IInv'
  PROVE  JInv'
<1>1. PICK d \in Daughters \ Live(daughters) :
        /\ daughters' = [daughters EXCEPT ![d] = InitMom(START_NUM_OF_ODBCS)]
        /\ mine' = [mine EXCEPT ![t] = d]
  BY DEF Create
<1>2. /\ Goto(t, "create", "register") /\ "register" \in Places /\ slot = 0
      /\ UNCHANGED <<cMom, masters, lost, id, slot>>
  BY DEF Create, Goto, Places
<1>3. /\ pc'[t] = "register" /\ pc[t] = "create"
      /\ \A u \in Threads : u # t => pc'[u] = pc[u]
  BY <1>2, PlacesMove DEF JInv, IInv
<1>4. /\ \A e \in Daughters : daughters'[e] = IF e = d THEN InitMom(START_NUM_OF_ODBCS) ELSE daughters[e]
      /\ mine'[t] = d
      /\ \A u \in Threads : u # t => mine'[u] = mine[u]
  BY <1>1 DEF JInv, IInv, TypeInv
<1>5. Live(daughters)' \subseteq Live(daughters) \cup {d} BY <1>1, <1>4 DEF Live, JInv, IInv, TypeInv
<1>6. cMom # NULL BY <1>3 DEF JInv, IInv, MasterThere
<1>7. LoadsOnce' BY <1>2, <1>3, <1>6 DEF JInv, LoadsOnce
<1>8. OwnFound'
  <2>1. \A u \in Threads : Daughter(u)' = Daughter(u) BY <1>2 DEF Daughter
  <2> QED BY <1>2, <1>3, <1>4, <2>1 DEF JInv, OwnFound
<1>9. Emptied'
  <2>1. Openers(mine[t])' = {}
    <3>1. Occupied(InitMom(START_NUM_OF_ODBCS)) = {} BY InitIs DEF START_NUM_OF_ODBCS
    <3>2. daughters'[mine'[t]] = InitMom(START_NUM_OF_ODBCS) BY <1>4
    <3> QED BY <3>1, <3>2 DEF Openers
  <2>2. ASSUME NEW u \in Threads, u # t, pc'[u] \in {"register", "remove", "free"}
        PROVE  Openers(mine[u])' = {}
    <3>1. pc[u] = pc'[u] /\ Busy(u) BY <1>3, <2>2 DEF Busy
    <3>2. mine[u] \in Live(daughters) BY <3>1 DEF JInv, IInv, HeldApart
    <3>3. mine[u] \in Daughters /\ mine[u] # d BY <3>2, HeapIs DEF JInv, IInv
    <3>4. daughters'[mine'[u]] = daughters[mine[u]] BY <1>4, <2>2, <3>3
    <3>5. Openers(mine[u])' = Openers(mine[u]) BY <3>4 DEF Openers
    <3> QED BY <2>2, <3>1, <3>5 DEF JInv, Emptied
  <2> QED BY <2>1, <2>2 DEF Emptied
<1>10. DaughtersKept'
  <2>1. t \in Running' /\ mine'[t] = d /\ pc'[t] = "register" BY <1>3, <1>4 DEF Running
  <2>2. \A u \in Running : pc[u] \in {"register", "free"} =>
          u \in Running' /\ pc'[u] = pc[u] /\ mine'[u] = mine[u]
    BY <1>3, <1>4 DEF Running
  <2>3. ASSUME NEW e \in Live(daughters)' \ lost
        PROVE  \/ \E i \in ThreadIds : Lookup(masters[cMom], i) = e
               \/ \E u \in Running' : mine'[u] = e /\ pc'[u] \in {"register", "free"}
    <3>1. CASE e = d BY <2>1, <3>1
    <3>2. CASE e \in Live(daughters) BY <1>2, <2>2, <2>3, <3>2 DEF JInv, DaughtersKept
    <3> QED BY <1>5, <2>3, <3>1, <3>2
  <2> QED BY <1>2, <2>3 DEF DaughtersKept
<1> QED BY <1>7, <1>8, <1>9, <1>10 DEF JInv

\* A daughter that is not registered is one there was no memory for.
LEMMA RegisterKeepsJ ==
  ASSUME JInv, NEW t \in Threads, Register(t), IInv'
  PROVE  JInv'
<1> DEFINE m == masters[cMom]
           a == AddToList(m, id[t], mine[t])
<1>1. /\ Goto(t, "register", "add") /\ "add" \in Places /\ slot = 0
      /\ UNCHANGED <<cMom, daughters, id, mine, slot>>
      /\ cMom # NULL /\ masters[cMom] # NULL
  BY DEF Register, Goto, Places, JInv, IInv, MasterThere
<1>2. /\ pc'[t] = "add" /\ pc[t] = "register"
      /\ \A u \in Threads : u # t => pc'[u] = pc[u]
  BY <1>1, PlacesMove DEF JInv, IInv
<1>3. t \in Running /\ Busy(t) BY <1>2 DEF Running, Busy
<1>4. /\ cMom \in Moms /\ m \in ListOf(ThreadIds, Daughters) /\ WellFormed(m)
      /\ id[t] \in ThreadIds /\ id[t] # FREE_ITEM /\ FREE_ITEM \notin ThreadIds
      /\ mine[t] \in Daughters /\ mine[t] # NULL /\ NULL \notin Daughters
  BY <1>1, <1>3, HeapIs, IdAssumption, NullAssumption
     DEF JInv, IInv, ListLive, IdsApart, HeldApart
<1>5. Lookup(m, id[t]) = NULL BY <1>1, <1>2 DEF JInv, OwnFound, Daughter
<1>6. ~ Holds(m, id[t]) BY <1>4, <1>5, LookupIs
<1>7. Live(daughters)' = Live(daughters) /\ \A u \in Threads : Openers(mine[u])' = Openers(mine[u])
  BY <1>1 DEF Live, Openers
<1>8. \A u \in Running : u # t =>
        u \in Running' /\ id[u] # id[t] /\ id[u] \in ThreadIds /\ pc'[u] = pc[u]
  BY <1>2, <1>3 DEF JInv, IInv, IdsApart, Running
<1>9. LoadsOnce' BY <1>1, <1>2 DEF JInv, LoadsOnce
<1>10. Emptied' BY <1>2, <1>7 DEF JInv, Emptied
<1>11. m.iInUse < TotalElements(m) => Holds(m, FREE_ITEM)
  <2> SUFFICES ASSUME m.iInUse < TotalElements(m), ~ Holds(m, FREE_ITEM) PROVE FALSE OBVIOUS
  <2>1. Occupied(m) = Entries(m) BY DEF Holds, Occupied
  <2> QED BY <1>4, <2>1, SlotsOf DEF WellFormed
<1>12. CASE masters' = [masters EXCEPT ![cMom] = a] /\ lost' \subseteq Live(daughters) \cup lost
            /\ lost \subseteq lost'
  <2>1. masters'[cMom'] = a BY <1>1, <1>4, <1>12 DEF JInv, IInv, TypeInv
  <2>2. /\ Lookup(a, id[t]) = mine[t]
        /\ \A x \in ThreadIds : x # id[t] => Lookup(a, x) = Lookup(m, x)
    BY <1>4, <1>6, AddFinds
  <2> HIDE DEF a, m
  <2>3. OwnFound'
    <3>1. ASSUME NEW u \in Threads, u # t, pc'[u] \in {"create", "register", "close", "remove"}
          PROVE  Daughter(u)' = Daughter(u)
      <4>1. u \in Running BY <1>2, <3>1 DEF Running
      <4>2. Lookup(a, id[u]) = Lookup(m, id[u]) BY <1>8, <2>2, <3>1, <4>1
      <4> QED BY <1>1, <2>1, <4>2 DEF Daughter, m
    <3> QED BY <1>1, <1>2, <3>1 DEF JInv, OwnFound
  <2>4. DaughtersKept'
    <3>1. ASSUME NEW d \in Live(daughters) \ lost
          PROVE  \/ \E i \in ThreadIds : Lookup(a, i) = d
                 \/ \E u \in Running' : mine'[u] = d /\ pc'[u] \in {"register", "free"}
      <4>1. CASE d = mine[t] BY <1>4, <2>2, <4>1
      <4>2. CASE d # mine[t] /\ \E i \in ThreadIds : Lookup(m, i) = d
        <5>1. PICK i \in ThreadIds : Lookup(m, i) = d BY <4>2
        <5>2. d # NULL BY <1>4, HeapIs DEF JInv, IInv
        <5>3. i # id[t] BY <1>5, <5>1, <5>2 DEF m
        <5> QED BY <2>2, <5>1, <5>3
      <4>3. CASE d # mine[t] /\ \E u \in Running : mine[u] = d /\ pc[u] \in {"register", "free"}
        BY <1>1, <1>8, <4>3
      <4> QED BY <1>1, <3>1, <4>1, <4>2, <4>3 DEF JInv, DaughtersKept, m
    <3> QED BY <1>7, <1>12, <2>1, <3>1 DEF DaughtersKept
  <2> QED BY <1>9, <1>10, <2>3, <2>4 DEF JInv
<1>13. CASE masters' = masters /\ lost' = lost \cup {mine[t]}
  <2>1. \A u \in Threads : Daughter(u)' = Daughter(u) BY <1>1, <1>13 DEF Daughter
  <2>2. OwnFound' BY <1>1, <1>2, <2>1 DEF JInv, OwnFound
  <2>3. DaughtersKept'
    <3>1. ASSUME NEW d \in Live(daughters) \ lost, d # mine[t]
          PROVE  \/ \E i \in ThreadIds : Lookup(m, i) = d
                 \/ \E u \in Running' : mine'[u] = d /\ pc'[u] \in {"register", "free"}
      <4>1. CASE \E u \in Running : mine[u] = d /\ pc[u] \in {"register", "free"}
        BY <1>1, <1>8, <3>1, <4>1
      <4> QED BY <1>1, <3>1, <4>1 DEF JInv, DaughtersKept
    <3> QED BY <1>1, <1>7, <1>13, <3>1 DEF DaughtersKept
  <2> QED BY <1>9, <1>10, <2>2, <2>3 DEF JInv
<1>14. PICK room \in BOOLEAN :
         /\ masters' = IF CanAdd(m, id[t], mine[t], room)
                       THEN [masters EXCEPT ![cMom] = a] ELSE masters
         /\ lost' = IF room THEN lost
                    ELSE lost \cup ({mine[t]} \ {masters'[cMom].slot[i].obj : i \in Entries(masters'[cMom])})
  BY DEF Register
<1>15. CASE CanAdd(m, id[t], mine[t], room)
  <2>1. mine[t] \in Live(daughters) BY <1>3 DEF JInv, IInv, HeldApart
  <2>2. masters' = [masters EXCEPT ![cMom] = a] BY <1>14, <1>15
  <2>3. lost' \subseteq Live(daughters) \cup lost /\ lost \subseteq lost' BY <1>14, <2>1
  <2> HIDE DEF a, m
  <2> QED BY <1>12, <2>2, <2>3
<1>16. CASE ~ CanAdd(m, id[t], mine[t], room)
  <2>1. room = FALSE
    <3> SUFFICES ASSUME room = TRUE PROVE FALSE OBVIOUS
    <3>1. m.iInUse \in Nat /\ TotalElements(m) \in Nat BY <1>4, SlotsOf
    <3>2. IF m.iInUse >= TotalElements(m) THEN room ELSE Holds(m, FREE_ITEM) BY <1>11, <3>1
    <3> QED BY <1>4, <1>5, <1>16, <3>2 DEF CanAdd
  <2>2. masters' = masters BY <1>14, <1>16
  <2>3. \A i \in Entries(m) : m.slot[i].obj # mine[t]
    <3>1. \A i \in Occupied(m) : m.slot[i].obj # mine[t]
      BY <1>1, <1>2, <1>3 DEF JInv, IInv, HeldListed
    <3>2. \A i \in Entries(m) : i \notin Occupied(m) => m.slot[i].obj = NULL
      BY <1>4 DEF WellFormed, Occupied
    <3> QED BY <1>4, <3>1, <3>2
  <2>4. lost' = lost \cup {mine[t]} BY <1>14, <2>1, <2>2, <2>3
  <2> QED BY <1>13, <2>2, <2>4
<1> QED BY <1>14, <1>15, <1>16

\* What leaves the list is what the thread is about to free.
LEMMA RemoveDaughterKeepsJ ==
  ASSUME JInv, NEW t \in Threads, RemoveDaughter(t), IInv'
  PROVE  JInv'
<1> DEFINE m == masters[cMom]
           r == Remove(m, id[t])
<1>1. /\ Goto(t, "remove", "free") /\ "free" \in Places /\ slot = 0
      /\ UNCHANGED <<cMom, daughters, lost, id, mine, slot>>
      /\ masters' = [masters EXCEPT ![cMom] = r]
      /\ cMom # NULL /\ masters[cMom] # NULL
  BY DEF RemoveDaughter, Goto, Places, JInv, IInv, MasterThere
<1>2. /\ pc'[t] = "free" /\ pc[t] = "remove"
      /\ \A u \in Threads : u # t => pc'[u] = pc[u]
  BY <1>1, PlacesMove DEF JInv, IInv
<1>3. t \in Running /\ t \in Running' BY <1>2 DEF Running
<1>4. /\ cMom \in Moms /\ m \in ListOf(ThreadIds, Daughters) /\ WellFormed(m)
      /\ id[t] \in ThreadIds /\ FREE_ITEM \notin ThreadIds
  BY <1>1, <1>3, HeapIs, IdAssumption DEF JInv, IInv, ListLive, IdsApart
<1>5. masters'[cMom'] = r BY <1>1, <1>4 DEF JInv, IInv, TypeInv
<1>6. /\ Lookup(r, id[t]) = NULL
      /\ \A x \in ThreadIds : x # id[t] => Lookup(r, x) = Lookup(m, x)
  BY <1>4, RemoveFinds
<1>7. Lookup(m, id[t]) = mine[t] BY <1>1, <1>2 DEF JInv, OwnFound, Daughter
<1> HIDE DEF r, m
<1>8. \A u \in Running : u # t =>
        u \in Running' /\ id[u] # id[t] /\ id[u] \in ThreadIds /\ pc'[u] = pc[u]
  BY <1>2, <1>3 DEF JInv, IInv, IdsApart, Running
<1>9. Live(daughters)' = Live(daughters) /\ \A u \in Threads : Openers(mine[u])' = Openers(mine[u])
  BY <1>1 DEF Live, Openers
<1>10. LoadsOnce' BY <1>1, <1>2 DEF JInv, LoadsOnce
<1>11. Emptied' BY <1>2, <1>9 DEF JInv, Emptied
<1>12. OwnFound'
  <2>1. ASSUME NEW u \in Threads, u # t, pc'[u] \in {"create", "register", "close", "remove"}
        PROVE  Daughter(u)' = Daughter(u)
    <3>1. u \in Running BY <1>2, <2>1 DEF Running
    <3>2. Lookup(r, id[u]) = Lookup(m, id[u]) BY <1>6, <1>8, <2>1, <3>1
    <3> QED BY <1>1, <1>5, <3>2 DEF Daughter, m
  <2> QED BY <1>1, <1>2, <2>1 DEF JInv, OwnFound
<1>13. DaughtersKept'
  <2>1. ASSUME NEW d \in Live(daughters) \ lost
        PROVE  \/ \E i \in ThreadIds : Lookup(r, i) = d
               \/ \E u \in Running' : mine'[u] = d /\ pc'[u] \in {"register", "free"}
    <3>1. CASE \E i \in ThreadIds : Lookup(m, i) = d
      <4>1. PICK i \in ThreadIds : Lookup(m, i) = d BY <3>1
      <4>2. CASE i = id[t] BY <1>1, <1>2, <1>3, <1>7, <4>1, <4>2
      <4>3. CASE i # id[t] BY <1>6, <4>1, <4>3
      <4> QED BY <4>2, <4>3
    <3>2. CASE \E u \in Running : mine[u] = d /\ pc[u] \in {"register", "free"}
      BY <1>1, <1>2, <1>8, <3>2
    <3> QED BY <1>1, <2>1, <3>1, <3>2 DEF JInv, DaughtersKept, m
  <2> QED BY <1>1, <1>5, <1>9, <2>1 DEF DaughtersKept
<1> QED BY <1>10, <1>11, <1>12, <1>13 DEF JInv

\* What is freed is no longer looked for.
LEMMA FreeKeepsJ ==
  ASSUME JInv, NEW t \in Threads, Free(t), IInv'
  PROVE  JInv'
<1> DEFINE d == mine[t]
<1>1. /\ Goto(t, "free", "idle") /\ "idle" \in Places /\ slot = 0
      /\ UNCHANGED <<cMom, masters, id, mine, slot>>
      /\ daughters' = [daughters EXCEPT ![d] = NULL]
      /\ lost' = lost \ {d}
  BY DEF Free, Goto, Places
<1>2. /\ pc'[t] = "idle" /\ pc[t] = "free"
      /\ \A u \in Threads : u # t => pc'[u] = pc[u]
  BY <1>1, PlacesMove DEF JInv, IInv
<1>3. t \in Running /\ Busy(t) BY <1>2 DEF Running, Busy
<1>4. d \in Daughters BY <1>3, HeapIs DEF JInv, IInv, HeldApart
<1> HIDE DEF d
<1>5. /\ Live(daughters)' = Live(daughters) \ {d}
      /\ \A e \in Daughters : e # d => daughters'[e] = daughters[e]
  BY <1>1, <1>4 DEF JInv, IInv, TypeInv, Live
<1>6. LoadsOnce' BY <1>1, <1>2, <1>5 DEF JInv, LoadsOnce
<1>7. OwnFound'
  <2>1. \A u \in Threads : Daughter(u)' = Daughter(u) BY <1>1 DEF Daughter
  <2> QED BY <1>1, <1>2, <2>1 DEF JInv, OwnFound
<1>8. Emptied'
  <2>1. ASSUME NEW u \in Threads, pc'[u] \in {"register", "remove", "free"}
        PROVE  Openers(mine[u])' = {}
    <3>1. u # t /\ pc[u] = pc'[u] /\ Busy(u) BY <1>2, <2>1 DEF Busy
    <3>2. mine[u] # d /\ mine[u] \in Daughters
      BY <1>3, <3>1, HeapIs DEF JInv, IInv, HeldApart, d
    <3>3. daughters'[mine'[u]] = daughters[mine[u]] BY <1>1, <1>5, <3>2
    <3>4. Openers(mine[u])' = Openers(mine[u]) BY <3>3 DEF Openers
    <3> QED BY <2>1, <3>1, <3>4 DEF JInv, Emptied
  <2> QED BY <2>1 DEF Emptied
<1>9. DaughtersKept'
  <2>1. ASSUME NEW e \in Live(daughters) \ lost, e # d
        PROVE  \/ \E i \in ThreadIds : Lookup(masters[cMom], i) = e
               \/ \E u \in Running' : mine'[u] = e /\ pc'[u] \in {"register", "free"}
    <3>1. CASE \E u \in Running : mine[u] = e /\ pc[u] \in {"register", "free"}
      <4>1. PICK u \in Running : mine[u] = e /\ pc[u] \in {"register", "free"} BY <3>1
      <4>2. u \in Threads /\ u # t BY <2>1, <4>1 DEF Running, d
      <4>3. u \in Running' /\ mine'[u] = e /\ pc'[u] \in {"register", "free"}
        BY <1>1, <1>2, <4>1, <4>2 DEF Running
      <4> QED BY <4>3
    <3> QED BY <1>1, <2>1, <3>1 DEF JInv, DaughtersKept
  <2> QED BY <1>1, <1>5, <2>1 DEF DaughtersKept
<1> QED BY <1>6, <1>7, <1>8, <1>9 DEF JInv

\* Once the process detaches there is nothing to keep.
LEMMA DetachKeepsJ ==
  ASSUME JInv, NEW t \in Threads, Detach(t) \/ DetachSlot(t) \/ DetachEnd(t), IInv'
  PROVE  JInv'
<1>1. cMom # NULL /\ cMom' = cMom /\ slot' > 0
      /\ \A u \in Threads : pc'[u] \in {"detach", "gone"}
  <2>1. CASE Detach(t) BY <2>1 DEF Detach
  <2>2. CASE DetachSlot(t) \/ DetachEnd(t)
    BY <2>2 DEF DetachSlot, DetachEnd, JInv, IInv, MasterThere, TypeInv
  <2> QED BY <2>1, <2>2
<1>2. LoadsOnce' BY <1>1 DEF LoadsOnce
<1>3. OwnFound' /\ DaughtersKept' BY <1>1 DEF OwnFound, DaughtersKept
<1>4. Emptied' BY <1>1 DEF Emptied
<1> QED BY <1>2, <1>3, <1>4 DEF JInv

\* Close leaves the daughter at hand without connections: it is still the one the
\* thread finds.
LEMMA CloseKeepsJ ==
  ASSUME JInv, NEW t \in Threads, Close(t), IInv', ConnsChange(t)
  PROVE  JInv'
<1> DEFINE d == mine[t]
           m == daughters[d]
           r == RemoveAll(m, Ids(m))
<1>1. /\ Goto(t, "close", "remove") /\ pc[t] = "close" /\ slot = 0
      /\ "remove" \in Places
      /\ UNCHANGED <<cMom, masters, lost, id, mine, slot>>
      /\ daughters' = DeleteConns(t, d)
  BY DEF Close, Goto, Places
<1>2. Busy(t) BY <1>1 DEF Busy
<1>3. d \in Live(daughters) /\ d \in Daughters /\ d # NULL
  BY <1>2, HeapIs DEF JInv, IInv, HeldApart
<1>4. Daughter(t) = d BY <1>1 DEF JInv, OwnFound
<1>5. daughters' = [daughters EXCEPT ![d] = r] BY <1>1, <1>3, <1>4 DEF DeleteConns
<1>6. m \in ListOf(Nat, Threads) /\ WellFormed(m)
  BY <1>3, HeapIs DEF JInv, IInv, DaughtersFormed
<1>7. FREE_ITEM \notin Ids(m) /\ \A i \in Occupied(m) : m.slot[i].id \in Ids(m)
  BY DEF Ids, Occupied
<1>8. daughters'[d] = r BY <1>3, <1>5 DEF JInv, IInv, TypeInv
<1> HIDE DEF m
<1>9. Occupied(r) = {i \in Occupied(m) : m.slot[i].id \notin Ids(m)}
  BY <1>6, <1>7, RemoveAllIs
<1>10. Occupied(r) = {} BY <1>7, <1>9
<1>11. Openers(mine[t])' = {} BY <1>1, <1>8, <1>10 DEF Openers
<1> HIDE DEF d, r
<1> QED BY <1>1, <1>11, ConnsKeepJ

\* Every step keeps JInv.
LEMMA NextJInv ==
  ASSUME JInv, OneLoader, [Next]_vars
  PROVE  JInv'
<1>0. IInv' BY NextIInv DEF JInv
<1>1. CASE UNCHANGED vars
  <2>1. UNCHANGED <<cMom, masters, daughters, lost, pc, id, mine, slot>> BY <1>1 DEF vars
  <2>2. LoadsOnce' BY <2>1 DEF JInv, LoadsOnce, Live
  <2>3. \A u \in Threads : Daughter(u)' = Daughter(u) BY <2>1 DEF Daughter
  <2>4. OwnFound' BY <2>1, <2>3 DEF JInv, OwnFound
  <2>5. ASSUME NEW u \in Threads, pc'[u] \in {"register", "remove", "free"}
        PROVE  Openers(mine[u])' = {}
    <3>1. Openers(mine[u]) = {} BY <2>1, <2>5 DEF JInv, Emptied
    <3> QED BY <2>1, <3>1 DEF Openers
  <2>6. Emptied' BY <2>5 DEF Emptied
  <2>7. DaughtersKept' BY <2>1 DEF JInv, DaughtersKept, Live, Running
  <2> QED BY <1>0, <2>2, <2>4, <2>6, <2>7 DEF JInv
<1>2. ASSUME NEW t \in Threads, NEW i \in ThreadIds, Start(t, i) PROVE JInv'
  <2> DEFINE to == IF t \in Loaders THEN "load" ELSE "idle"
  <2>1. /\ Goto(t, "none", to) /\ to \in Places /\ to \in {"load", "idle"}
        /\ to = "load" => t \in Loaders
        /\ id' = [id EXCEPT ![t] = i]
        /\ UNCHANGED <<cMom, masters, daughters, lost, mine, slot>>
    BY <1>2 DEF Start, Places
  <2>2. \A u \in Threads : u # t => id'[u] = id[u] /\ mine'[u] = mine[u]
    BY <2>1 DEF JInv, IInv, TypeInv
  <2> HIDE DEF to
  <2> QED BY <1>0, <2>1, <2>2, MovesKeepJ
<1>3. ASSUME NEW t \in Threads, Load(t) PROVE JInv'
  <2> DEFINE to == IF cMom = NULL THEN "new" ELSE "boot"
  <2>1. /\ Goto(t, "load", to) /\ to \in Places /\ to \in {"new", "boot"}
        /\ to = "new" => cMom = NULL
        /\ UNCHANGED <<cMom, masters, daughters, lost, id, mine, slot>>
    BY <1>3 DEF Load, Places
  <2>2. t \in Loaders BY <2>1 DEF Goto, JInv, LoadsOnce
  <2> HIDE DEF to
  <2> QED BY <1>0, <2>1, <2>2, MovesKeepJ
<1>4. ASSUME NEW t \in Threads, Boot(t) \/ Connect(t) \/ Exit(t) PROVE JInv'
  <2>1. PICK from, to \in Places :
          /\ Goto(t, from, to) /\ from \notin {"register", "free"}
          /\ to \in {"idle", "find", "gone"}
          /\ UNCHANGED <<cMom, masters, daughters, lost, id, mine, slot>>
    BY <1>4 DEF Boot, Connect, Exit, Places
  <2> QED BY <1>0, <2>1, MovesKeepJ
<1>5. ASSUME NEW t \in Threads, Find(t) PROVE JInv'
  <2> DEFINE to == IF Daughter(t) = NULL THEN "create" ELSE "add"
  <2>1. /\ Goto(t, "find", to) /\ to \in Places /\ to \in {"create", "add"}
        /\ to = "create" => Daughter(t) = NULL
        /\ mine' = [mine EXCEPT ![t] = Daughter(t)]
        /\ UNCHANGED <<cMom, masters, daughters, lost, id, slot>>
    BY <1>5 DEF Find, Places
  <2>2. Daughter(t)' = Daughter(t) BY <2>1 DEF Daughter
  <2>3. \A u \in Threads : u # t => id'[u] = id[u] /\ mine'[u] = mine[u]
    BY <2>1 DEF JInv, IInv, TypeInv
  <2> HIDE DEF to
  <2> QED BY <1>0, <2>1, <2>2, <2>3, MovesKeepJ
<1>6. ASSUME NEW t \in Threads, ShutDown(t) PROVE JInv'
  <2>1. /\ Goto(t, "idle", "close") /\ "close" \in Places
        /\ mine' = [mine EXCEPT ![t] = Daughter(t)]
        /\ UNCHANGED <<cMom, masters, daughters, lost, id, slot>>
    BY <1>6 DEF ShutDown, Places
  <2>2. Daughter(t)' = Daughter(t) BY <2>1 DEF Daughter
  <2>3. mine'[t] = Daughter(t) /\ \A u \in Threads : u # t => id'[u] = id[u] /\ mine'[u] = mine[u]
    BY <2>1 DEF JInv, IInv, TypeInv
  <2> QED BY <1>0, <2>1, <2>2, <2>3, MovesKeepJ
<1>7. ASSUME NEW t \in Threads, Add(t) PROVE JInv'
  <2>1. ConnsChange(t) BY <1>7, AddKeeps DEF JInv
  <2>2. /\ Goto(t, "add", "idle") /\ "idle" \in Places
        /\ UNCHANGED <<cMom, masters, lost, id, mine, slot>>
    BY <1>7 DEF Add, Places
  <2> QED BY <1>0, <2>1, <2>2, ConnsKeepJ
<1>8. ASSUME NEW t \in Threads, NEW n \in 0 .. MaxConns, Disconnect(t, n) PROVE JInv'
  <2>1. ConnsChange(t) BY <1>8, DisconnectKeeps DEF JInv
  <2>2. /\ Goto(t, "idle", "idle") /\ "idle" \in Places
        /\ UNCHANGED <<cMom, masters, lost, id, mine, slot>>
    BY <1>8 DEF Disconnect, Places
  <2> QED BY <1>0, <2>1, <2>2, ConnsKeepJ
<1>9. ASSUME NEW t \in Threads, Close(t) PROVE JInv'
  <2>1. ConnsChange(t) BY <1>9, CloseKeeps DEF JInv
  <2> QED BY <1>0, <1>9, <2>1, CloseKeepsJ
<1>10. CASE Next
  <2>1. PICK t \in Threads :
          \/ \E i \in ThreadIds : Start(t, i)
          \/ Load(t) \/ NewMaster(t) \/ Boot(t)
          \/ Connect(t) \/ Find(t) \/ Create(t) \/ Register(t) \/ Add(t)
          \/ \E n \in 0 .. MaxConns : Disconnect(t, n)
          \/ ShutDown(t) \/ Close(t) \/ RemoveDaughter(t) \/ Free(t)
          \/ Exit(t)
          \/ Detach(t) \/ DetachSlot(t) \/ DetachEnd(t)
    BY <1>10 DEF Next
  <2> QED BY <1>0, <1>2, <1>3, <1>4, <1>5, <1>6, <1>7, <1>8, <1>9, <2>1, NewMasterKeepsJ,
             CreateKeepsJ, RegisterKeepsJ, RemoveDaughterKeepsJ, FreeKeepsJ, DetachKeepsJ
<1> QED BY <1>1, <1>10

\* With one loader, JInv is an invariant.
THEOREM InvariantOneLoader ==
  ASSUME OneLoader
  PROVE  Spec => []JInv
<1>1. Init => JInv
  <2> SUFFICES ASSUME Init PROVE JInv OBVIOUS
  <2>1. Live(daughters) = {} BY DEF Init, Live
  <2> QED BY <2>1, InitIInv DEF Init, JInv, LoadsOnce, OwnFound, Emptied, DaughtersKept
<1>2. JInv /\ [Next]_vars => JInv' BY NextJInv
<1> QED BY <1>1, <1>2, PTL DEF Spec

\* Every daughter there was memory to register is in the list or in the hands of
\* the thread that makes or deletes it.
THEOREM DaughtersStayKept ==
  ASSUME OneLoader
  PROVE  Spec => []DaughtersKept
<1>1. JInv => DaughtersKept BY DEF JInv
<1> QED BY <1>1, InvariantOneLoader, PTL

\* A running thread finds every connection it has opened and not closed.
THEOREM ConnectionsStayFound ==
  ASSUME OneLoader
  PROVE  Spec => []ConnectionsFound
<1>1. JInv => ConnectionsFound
  <2> SUFFICES ASSUME JInv, slot = 0, NEW t \in Running, NEW d \in Live(daughters) \ lost,
                      t \in Openers(d)
               PROVE  Daughter(t) = d
    BY DEF ConnectionsFound
  <2>1. CASE \E u \in Running : mine[u] = d /\ pc[u] \in {"register", "free"}
    BY <2>1 DEF JInv, Emptied, Running
  <2>2. CASE \E i \in ThreadIds : Lookup(masters[cMom], i) = d
    <3>1. PICK i \in ThreadIds : Lookup(masters[cMom], i) = d BY <2>2
    <3>2. cMom # NULL /\ masters[cMom] # NULL
      BY DEF JInv, IInv, LoadsOnce, MasterThere
    <3>3. masters[cMom] \in ListOf(ThreadIds, Daughters) BY <3>2, HeapIs DEF JInv, IInv
    <3>4. d # NULL /\ i # FREE_ITEM BY HeapIs, IdAssumption DEF JInv, IInv
    <3>5. PICK k \in Occupied(masters[cMom]) :
            masters[cMom].slot[k].id = i /\ masters[cMom].slot[k].obj = d
      BY <3>1, <3>3, <3>4, LookupIs
    <3>6. id[t] = i BY <3>2, <3>5 DEF JInv, IInv, OpenedListed
    <3> QED BY <3>1, <3>2, <3>6 DEF Daughter
  <2> QED BY <2>1, <2>2 DEF JInv, DaughtersKept
<1> QED BY <1>1, InvariantOneLoader, PTL
=============================================================================
