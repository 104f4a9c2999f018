-------------------------------- MODULE CMom --------------------------------
(***************************************************************************)
(* src/Win32-ODBC/CMom.cpp: the list class of Win32::ODBC.  The MASTER list*)
(* finds the daughter of a thread by its thread id, and a DAUGHTER list    *)
(* finds the connection of a number.  Both are this one class, and this    *)
(* module is its data: what each method does to a list, as an operator.    *)
(* OdbcThreads and Odbc add the processes that call them.                  *)
(*                                                                         *)
(* pItems and pList are parallel arrays; here they are one sequence of     *)
(* slots, whose length is iNumOfEntries.                                   *)
(***************************************************************************)
EXTENDS Naturals, Sequences, FiniteSets

CONSTANTS
  FREE_ITEM,  \* the identifier of a slot that is not in use
  NULL        \* no object

FreeSlot == [id |-> FREE_ITEM, obj |-> NULL]

\* A list of the objects O under the identifiers I
ListOf(I, O) ==
  [slot : Seq([id : I \cup {FREE_ITEM}, obj : O \cup {NULL}]), iInUse : Nat, iNextID : Nat]

\* InitMom: START_NUM_OF_DAUGHTERS or START_NUM_OF_ODBCS free slots
InitMom(n) == [slot |-> [i \in 1 .. n |-> FreeSlot], iInUse |-> 0, iNextID |-> 0]

TotalElements(m) == Len(m.slot)

Entries(m) == 1 .. TotalElements(m)

Occupied(m) == {i \in Entries(m) : m.slot[i].id # FREE_ITEM}

IsFirst(m, i, id) ==
  m.slot[i].id = id /\ \A j \in 1 .. i - 1 : m.slot[j].id # id

Holds(m, id) == \E i \in Entries(m) : m.slot[i].id = id

\* The slot the loops from 0 to iNumOfEntries stop at
First(m, id) == CHOOSE i \in Entries(m) : IsFirst(m, i, id)

\* operator[](DWORD)
Lookup(m, id) == IF Holds(m, id) THEN m.slot[First(m, id)].obj ELSE NULL

\* operator[](void*): 0 when the object is not in the list
NumberOf(m, obj) ==
  IF \E i \in Entries(m) : m.slot[i].obj = obj
  THEN m.slot[CHOOSE i \in Entries(m) :
                /\ m.slot[i].obj = obj
                /\ \A j \in Entries(m) : m.slot[j].obj = obj => i <= j].id
  ELSE 0

\* AddToList grows a full list by one slot, and otherwise fills the first
\* free one.  room: whether the larger arrays could be allocated.
CanAdd(m, id, obj, room) ==
  /\ obj # NULL
  /\ Lookup(m, id) = NULL
  /\ IF m.iInUse >= TotalElements(m) THEN room ELSE Holds(m, FREE_ITEM)

\* Mutant of AddToList: a full list does not grow.
AddOver(m, id, obj) ==
  LET new == [id |-> id, obj |-> obj]
  IN  [m EXCEPT !.slot[IF m.iInUse >= TotalElements(m) THEN TotalElements(m)
                       ELSE First(m, FREE_ITEM)] = new,
                !.iInUse = @ + 1]
AddToList(m, id, obj) ==
  LET new == [id |-> id, obj |-> obj]
  IN  [m EXCEPT !.slot = IF m.iInUse >= TotalElements(m) THEN Append(@, new)
                         ELSE [@ EXCEPT ![First(m, FREE_ITEM)] = new],
                !.iInUse = @ + 1]

\* Add(void *): the next number, given back when AddToList fails
AddNumber(m, obj) == [AddToList(m, m.iNextID, obj) EXCEPT !.iNextID = @ + 1]

\* Mutant of Remove: iInUse is not decremented.
RemoveUncounted(m, id) ==
  IF Holds(m, id) THEN [m EXCEPT !.slot[First(m, id)] = FreeSlot] ELSE m
Remove(m, id) ==
  IF Holds(m, id)
  THEN [m EXCEPT !.slot[First(m, id)] = FreeSlot,
                 !.iInUse = IF @ > 0 THEN @ - 1 ELSE 0]
  ELSE m

(***************************************************************************)
(* What makes a list correct: an identifier is in one slot, a slot in use  *)
(* has an object and a free one has none, and iInUse counts the slots in   *)
(* use.  AddToList relies on the count: it looks for a free slot only when *)
(* iInUse says there is one, and gives up without a word otherwise.        *)
(***************************************************************************)
WellFormed(m) ==
  /\ \A i, j \in Occupied(m) : m.slot[i].id = m.slot[j].id => i = j
  /\ \A i \in Entries(m) : m.slot[i].obj = NULL <=> m.slot[i].id = FREE_ITEM
  /\ m.iInUse = Cardinality(Occupied(m))

\* The identifiers in use
Ids(m) == {m.slot[i].id : i \in Occupied(m)}
=============================================================================
