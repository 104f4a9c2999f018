---------------------------- MODULE OdbcThreads ----------------------------
(***************************************************************************)
(* src/Win32-ODBC: how the Perl threads of a process share the MASTER list *)
(* (CMom.cpp, and InitExtension, NewODBC, TerminateThread and DllMain in   *)
(* ODBC.xs).  A thread finds its daughter list under its thread id; what   *)
(* happens inside one daughter is Odbc.                                    *)
(*                                                                         *)
(* Every method of CMom runs inside gCSMom and is one step (AddToList      *)
(* looks an id up in one section and adds it in another, but only the      *)
(* thread of that id adds it).  Between two methods another thread may     *)
(* run, and ::cMom itself is read and assigned without a lock.  A daughter *)
(* is a CMom too; its objects are connections, named here by the thread    *)
(* that opened them.                                                       *)
(***************************************************************************)
EXTENDS CMom

CONSTANTS
  Threads,    \* the threads that ever run
  ThreadIds,  \* thread ids; Windows gives the id of a thread that is gone again
  Loaders,    \* the threads whose interpreter loads the extension itself
  Moms,       \* memory for MASTER lists
  Daughters,  \* memory for DAUGHTER lists
  MaxConns    \* bounds the connections made in one daughter

START_NUM_OF_DAUGHTERS == 2
START_NUM_OF_ODBCS == 2

ASSUME LoaderAssumption == Loaders \subseteq Threads
ASSUME IdAssumption == FREE_ITEM \notin ThreadIds \cup Nat
ASSUME NullAssumption == NULL \notin Threads \cup ThreadIds \cup Moms \cup Daughters
ASSUME NullListAssumption == NULL \notin ListOf(ThreadIds, Daughters) \cup ListOf(Nat, Threads)

VARIABLES
  cMom,       \* ::cMom
  masters,    \* the MASTER lists, of daughters
  daughters,  \* the DAUGHTER lists, of connections
  lost,       \* the daughters that could not be registered
  pc,         \* where each thread is
  id,         \* its thread id
  mine,       \* its local cmDaughter
  slot        \* the slot the process detach is at; 0 before it

vars == <<cMom, masters, daughters, lost, pc, id, mine, slot>>

Live(heap) == {x \in DOMAIN heap : heap[x] # NULL}

Running == {t \in Threads : pc[t] \notin {"none", "gone"}}

\* ::cMom->operator[](GetCurrentThreadId())
\* Mutant of Daughter: one daughter for everybody.
DaughterShared(t) == IF cMom = NULL THEN NULL ELSE masters[cMom].slot[1].obj
Daughter(t) == IF cMom = NULL THEN NULL ELSE Lookup(masters[cMom], id[t])

-----------------------------------------------------------------------------
Init ==
  /\ cMom = NULL
  /\ masters = [m \in Moms |-> NULL]
  /\ daughters = [d \in Daughters |-> NULL]
  /\ lost = {}
  /\ pc = [t \in Threads |-> "none"]
  /\ id = [t \in Threads |-> NULL]
  /\ mine = [t \in Threads |-> NULL]
  /\ slot = 0

Goto(t, from, to) ==
  /\ slot = 0
  /\ pc[t] = from
  /\ pc' = [pc EXCEPT ![t] = to]

\* A thread loads the extension or is a clone of one that has.
Start(t, i) ==
  /\ \A u \in Running : id[u] # i
  /\ t \in Loaders \/ cMom # NULL
  /\ Goto(t, "none", IF t \in Loaders THEN "load" ELSE "idle")
  /\ id' = [id EXCEPT ![t] = i]
  /\ UNCHANGED <<cMom, masters, daughters, lost, mine, slot>>

\* InitExtension: ::cMom is tested,
Load(t) ==
  /\ Goto(t, "load", IF cMom = NULL THEN "new" ELSE "boot")
  /\ UNCHANGED <<cMom, masters, daughters, lost, id, mine, slot>>

\* CMom(): and assigned, whatever it has become since.
NewMaster(t) ==
  /\ Goto(t, "new", "boot")
  /\ \E m \in Moms \ Live(masters) :
       /\ masters' = [masters EXCEPT ![m] = InitMom(START_NUM_OF_DAUGHTERS)]
       /\ cMom' = m
  /\ UNCHANGED <<daughters, lost, id, mine, slot>>

\* The thread's connection 0 is made when it is missing.
Boot(t) ==
  /\ Goto(t, "boot", IF Daughter(t) # NULL /\ Lookup(daughters[Daughter(t)], 0) # NULL
                     THEN "idle" ELSE "find")
  /\ UNCHANGED <<cMom, masters, daughters, lost, id, mine, slot>>

\* ODBC_Connect and ODBC_Clone call NewODBC
Connect(t) ==
  /\ Goto(t, "idle", "find")
  /\ UNCHANGED <<cMom, masters, daughters, lost, id, mine, slot>>

\* NewODBC: the daughter of this thread is looked for,
\* Mutant of Find: a daughter is made for every connection.
FindNone(t) ==
  /\ Goto(t, "find", "create")
  /\ UNCHANGED <<cMom, masters, daughters, lost, id, mine, slot>>
Find(t) ==
  /\ Goto(t, "find", IF Daughter(t) = NULL THEN "create" ELSE "add")
  /\ mine' = [mine EXCEPT ![t] = Daughter(t)]
  /\ UNCHANGED <<cMom, masters, daughters, lost, id, slot>>

\* CMom(DWORD): made when there is none,
Create(t) ==
  /\ Goto(t, "create", "register")
  /\ \E d \in Daughters \ Live(daughters) :
       /\ daughters' = [daughters EXCEPT ![d] = InitMom(START_NUM_OF_ODBCS)]
       /\ mine' = [mine EXCEPT ![t] = d]
  /\ UNCHANGED <<cMom, masters, lost, id, slot>>

\* and registered.  That it was not is noticed by nobody.
Register(t) ==
  /\ Goto(t, "register", "add")
  /\ \E room \in BOOLEAN :
       /\ masters' = IF CanAdd(masters[cMom], id[t], mine[t], room)
                     THEN [masters EXCEPT ![cMom] = AddToList(@, id[t], mine[t])]
                     ELSE masters
       /\ lost' = IF room THEN lost ELSE lost \cup ({mine[t]} \ {masters'[cMom].slot[i].obj : i \in Entries(masters'[cMom])})
  /\ UNCHANGED <<cMom, daughters, id, mine, slot>>

\* The connection is added to the daughter at hand, or there is no memory for
\* it: a call that fails, with a delete of memory nobody has set.
Add(t) ==
  /\ Goto(t, "add", "idle")
  /\ \/ UNCHANGED daughters
     \/ /\ daughters[mine[t]].iNextID < MaxConns
        /\ daughters' = [daughters EXCEPT ![mine[t]] = AddNumber(@, t)]
  /\ UNCHANGED <<cMom, masters, lost, id, mine, slot>>

\* ODBC_Disconnect of one connection
Disconnect(t, n) ==
  /\ Goto(t, "idle", "idle")
  /\ Daughter(t) # NULL
  /\ Lookup(daughters[Daughter(t)], n) # NULL
  /\ daughters' = [daughters EXCEPT ![Daughter(t)] = Remove(@, n)]
  /\ UNCHANGED <<cMom, masters, lost, id, mine, slot>>

-----------------------------------------------------------------------------
\* ~CMom of a daughter.  DeleteConn looks a number up in the daughter of the
\* thread that runs, which need not be the one that is deleted.
RemoveAll(list, numbers) ==
  [list EXCEPT !.slot = [i \in Entries(list) |->
                           IF list.slot[i].id \in numbers THEN FreeSlot ELSE list.slot[i]],
               !.iInUse = @ - Cardinality(numbers \cap Ids(list))]

DeleteConns(t, d) ==
  IF Daughter(t) = NULL THEN daughters
  ELSE [daughters EXCEPT ![Daughter(t)] = RemoveAll(@, Ids(daughters[d]))]

\* TerminateThread: the daughter is looked for,
ShutDown(t) ==
  /\ Goto(t, "idle", "close")
  /\ Daughter(t) # NULL
  /\ mine' = [mine EXCEPT ![t] = Daughter(t)]
  /\ UNCHANGED <<cMom, masters, daughters, lost, id, slot>>

\* its connections are deleted,
Close(t) ==
  /\ Goto(t, "close", "remove")
  /\ daughters' = DeleteConns(t, mine[t])
  /\ UNCHANGED <<cMom, masters, lost, id, mine, slot>>

\* it is taken out of the MASTER list,
\* Mutant of RemoveDaughter: the list keeps it.
RemoveKept(t) ==
  /\ Goto(t, "remove", "free")
  /\ UNCHANGED <<cMom, masters, daughters, lost, id, mine, slot>>
RemoveDaughter(t) ==
  /\ Goto(t, "remove", "free")
  /\ masters' = [masters EXCEPT ![cMom] = Remove(@, id[t])]
  /\ UNCHANGED <<cMom, daughters, lost, id, mine, slot>>

\* and its memory is freed.
Free(t) ==
  /\ Goto(t, "free", "idle")
  /\ daughters' = [daughters EXCEPT ![mine[t]] = NULL]
  /\ lost' = lost \ {mine[t]}
  /\ UNCHANGED <<cMom, masters, id, mine, slot>>

\* DLL_THREAD_DETACH deletes nothing: the call of TerminateThread is a comment.
Exit(t) ==
  /\ Goto(t, "idle", "gone")
  /\ UNCHANGED <<cMom, masters, daughters, lost, id, mine, slot>>

-----------------------------------------------------------------------------
\* DLL_PROCESS_DETACH.  The process ends its other threads wherever they are,
\* and the one that is left deletes ::cMom.
Detach(t) ==
  /\ slot = 0
  /\ pc[t] = "idle"
  /\ cMom # NULL
  /\ slot' = 1
  /\ pc' = [u \in Threads |-> IF u = t THEN "detach" ELSE "gone"]
  /\ UNCHANGED <<cMom, masters, daughters, lost, id, mine>>

\* ~CMom of the MASTER: a daughter is deleted, which also takes the daughter of
\* this thread out of the list, and its slot is freed.
DetachSlot(t) ==
  LET d == masters[cMom].slot[slot].obj
  IN  /\ pc[t] = "detach"
      /\ slot <= TotalElements(masters[cMom])
      /\ slot' = slot + 1
      /\ IF d = NULL THEN UNCHANGED <<masters, daughters>>
         ELSE /\ daughters' = [DeleteConns(t, d) EXCEPT ![d] = NULL]
              /\ masters' = [masters EXCEPT ![cMom] =
                               [Remove(@, id[t]) EXCEPT !.slot[slot] = FreeSlot]]
      /\ UNCHANGED <<cMom, lost, pc, id, mine>>

DetachEnd(t) ==
  /\ pc[t] = "detach"
  /\ slot > TotalElements(masters[cMom])
  /\ masters' = [masters EXCEPT ![cMom] = NULL]
  /\ pc' = [pc EXCEPT ![t] = "gone"]
  /\ UNCHANGED <<cMom, daughters, lost, id, mine, slot>>

-----------------------------------------------------------------------------
Next ==
  \E t \in Threads :
    \/ \E i \in ThreadIds : Start(t, i)
    \/ Load(t) \/ NewMaster(t) \/ Boot(t)
    \/ Connect(t) \/ Find(t) \/ Create(t) \/ Register(t) \/ Add(t)
    \/ \E n \in 0 .. MaxConns : Disconnect(t, n)
    \/ ShutDown(t) \/ Close(t) \/ RemoveDaughter(t) \/ Free(t)
    \/ Exit(t)
    \/ Detach(t) \/ DetachSlot(t) \/ DetachEnd(t)

Spec == Init /\ [][Next]_vars

-----------------------------------------------------------------------------
\* The MASTER list names live daughters, each once.  A slot that outlives its
\* daughter would be used by every later call of the thread with that id.
ListLive ==
  cMom # NULL /\ masters[cMom] # NULL =>
    /\ \A i \in Occupied(masters[cMom]) : masters[cMom].slot[i].obj \in Live(daughters)
    /\ \A i, j \in Occupied(masters[cMom]) :
         masters[cMom].slot[i].obj = masters[cMom].slot[j].obj => i = j
    /\ slot = 0 => WellFormed(masters[cMom])

\* A connection stays within reach of the thread that opened it, in the
\* daughter the thread's id finds, until the thread deletes it; what could not
\* be registered for want of memory is the exception.
Openers(d) == {daughters[d].slot[i].obj : i \in Occupied(daughters[d])}

ConnectionsFound ==
  slot = 0 =>
    \A t \in Running, d \in Live(daughters) \ lost : t \in Openers(d) => Daughter(t) = d

\* No thread finds a connection that another running thread has opened.
ThreadsApart ==
  slot = 0 =>
    \A t \in Running : Daughter(t) # NULL => Openers(Daughter(t)) \cap Running \subseteq {t}

\* No memory is lost: a daughter is in the list, or in the hands of a thread
\* that is making or deleting it, or could not be registered.
DaughtersKept ==
  slot = 0 =>
    \A d \in Live(daughters) \ lost :
      \/ \E i \in ThreadIds : Lookup(masters[cMom], i) = d
      \/ \E t \in Running : mine[t] = d /\ pc[t] \in {"register", "free"}
=============================================================================
