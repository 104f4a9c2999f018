---------------------------- MODULE CallbackList ----------------------------
(***************************************************************************)
(* src/Win32-Daemon: RegisterCallbacks() of Daemon.xs, the CCallbackList it*)
(* fills, and ProcessStateChange, which looks a routine up for each event. *)
(*                                                                         *)
(* Only the Perl thread uses the list, so an operation is never interleaved*)
(* with another; RegisterCallbacks is still one step per SET_CALLBACK,     *)
(* which is the unit in which the list and its count change.               *)
(***************************************************************************)
EXTENDS Naturals, Sequences, FiniteSets

CONSTANTS
  Commands,     \* the commands with a slot (GetCallbackIndex)
  CodeOrder,    \* the order of SET_CALLBACK for a code reference
  HashOrder,    \* the order of SET_CALLBACK for a hash
  Routines,     \* code references
  NULL,         \* no routine: an empty slot, a key the hash does not have
  Other,        \* a value of the hash that is not a code reference
  Posted,       \* the control codes ServiceHandler posts, as they arrive
  Modulus       \* 2^32: m_dwCount is a DWORD

IsOrder(seq) ==
  /\ seq \in Seq(Commands)
  /\ \A c \in Commands : \E i \in 1 .. Len(seq) : seq[i] = c
  /\ \A i, j \in 1 .. Len(seq) : seq[i] = seq[j] => i = j

TOTAL_CALLBACK == Cardinality(Commands)

ASSUME CommandsAssumption == IsFiniteSet(Commands)
ASSUME OrderAssumption == IsOrder(CodeOrder) /\ IsOrder(HashOrder)
ASSUME RoutineAssumption == NULL # Other /\ NULL \notin Routines /\ Other \notin Routines
ASSUME ModulusAssumption == Modulus \in Nat /\ TOTAL_CALLBACK < Modulus

VARIABLES
  m_pSvList,  \* command -> routine
  m_dwCount,
  given,      \* what this call of RegisterCallbacks gives each command
  order,      \* the order in which it sets them
  next,       \* the SET_CALLBACK it is at; past the end when no call runs
  called,     \* the callback made last: the command and the routine
  freed,      \* the routines whose last reference the script has dropped
  \* history, read by the properties only
  before,     \* m_pSvList at the start of the call
  removed     \* a routine has been replaced by NULL

listVars == <<m_pSvList, m_dwCount, given, order, next, called, freed, before, removed>>

Values == Routines \cup {NULL, Other}
Events == Posted \cup {"TIMER", "RUNNING"}
Uncalled == [command |-> NULL, event |-> NULL, routine |-> NULL]

ListInit ==
  /\ m_pSvList = [c \in Commands |-> NULL]
  /\ m_dwCount = 0
  /\ given = [c \in Commands |-> Other]
  /\ order = CodeOrder /\ next = Len(CodeOrder) + 1
  /\ called = Uncalled
  /\ freed = {}
  /\ before = m_pSvList
  /\ removed = FALSE

\* Mutant of Returned: the last SET_CALLBACK is missed.
ReturnedEarly == next >= Len(order)

Returned == next > Len(order)

\* RegisterCallbacks( $SubRef | $HashRef ): any other argument changes nothing.
RegisterCallbacks ==
  /\ Returned
  /\ \/ \E r \in Routines \ freed : given' = [c \in Commands |-> r] /\ order' = CodeOrder
     \/ given' \in [Commands -> Values \ freed] /\ order' = HashOrder
  /\ next' = 1
  /\ before' = m_pSvList
  /\ UNCHANGED <<m_pSvList, m_dwCount, called, freed, removed>>

\* Mutant of Increment: the cap is one too low.
IncrementBelow == LET n == (m_dwCount + 1) % Modulus
                  IN  IF TOTAL_CALLBACK <= n THEN TOTAL_CALLBACK - 1 ELSE n

\* m_dwCount++, then the cap.
Increment == LET n == (m_dwCount + 1) % Modulus
             IN  IF TOTAL_CALLBACK < n THEN TOTAL_CALLBACK ELSE n

\* m_dwCount--, then "if( 0 < (long) m_dwCount ) m_dwCount = 0".
Decrement == LET n == (m_dwCount + Modulus - 1) % Modulus
             IN  IF 0 < n /\ 2 * n < Modulus THEN 0 ELSE n

\* Mutant of SetSlot: any value reaches CCallbackList::Set.
SetAny(command, value) ==
  /\ m_pSvList' = [m_pSvList EXCEPT ![command] = value]
  /\ removed' = (removed \/ (m_pSvList[command] # NULL /\ value = NULL))
  /\ m_dwCount' = IF m_pSvList[command] = NULL /\ value # NULL THEN Increment
                  ELSE IF m_pSvList[command] # NULL /\ value = NULL THEN Decrement
                  ELSE m_dwCount

\* SET_CALLBACK: a value that is not code never reaches CCallbackList::Set.
SetSlot(command, value) ==
  IF value = Other
    THEN UNCHANGED <<m_pSvList, m_dwCount, removed>>
    ELSE /\ m_pSvList' = [m_pSvList EXCEPT ![command] = value]
         /\ removed' = (removed \/ (m_pSvList[command] # NULL /\ value = NULL))
         /\ m_dwCount' = IF m_pSvList[command] = NULL /\ value # NULL THEN Increment
                         ELSE IF m_pSvList[command] # NULL /\ value = NULL THEN Decrement
                         ELSE m_dwCount

SetCallback ==
  /\ ~Returned
  /\ SetSlot(order[next], given[order[next]])
  /\ next' = next + 1
  /\ UNCHANGED <<given, order, called, freed, before>>

\* CCallbackList::Get
Get(command) == IF command \in Commands THEN m_pSvList[command] ELSE NULL

\* The event a routine is looked up for: "running" stands in for the timer.
Effective(event) ==
  IF event = "TIMER" /\ Get("RUNNING") # NULL THEN "RUNNING" ELSE event

\* ProcessStateChange, as the message loop calls it for a control or a heartbeat: an
\* event without a routine is passed over.  (A routine that is gone is called or not,
\* as what is left at its address has it; not calling it is a stuttering step.)
ProcessStateChange(event) ==
  /\ Returned
  /\ called' = [command |-> Effective(event), event |-> event,
                routine |-> Get(Effective(event))]
  /\ UNCHANGED <<m_pSvList, m_dwCount, given, order, next, freed, before, removed>>

\* The list keeps the address of the routine and no reference to it.
Drop(r) ==
  /\ Returned
  /\ r \notin freed
  /\ freed' = freed \cup {r}
  /\ UNCHANGED <<m_pSvList, m_dwCount, given, order, next, called, before, removed>>

ListNext ==
  \/ RegisterCallbacks
  \/ SetCallback
  \/ \E event \in Posted \cup {"TIMER"} : ProcessStateChange(event)
  \/ \E r \in Routines : Drop(r)

ListSpec == ListInit /\ [][ListNext]_listVars

-----------------------------------------------------------------------------
(***************************************************************************)
(*                               Properties                                *)
(***************************************************************************)
\* Every variable keeps its type.
ListTypeOK ==
  /\ m_pSvList \in [Commands -> Routines \cup {NULL}]
  /\ m_dwCount \in 0 .. Modulus - 1
  /\ given \in [Commands -> Values]
  /\ order \in {CodeOrder, HashOrder}
  /\ next \in 1 .. Len(order) + 1
  /\ called \in [command : Events \cup {NULL}, event : Events \cup {NULL},
                 routine : Routines \cup {NULL}]
  /\ freed \subseteq Routines
  /\ before \in [Commands -> Routines \cup {NULL}]
  /\ removed \in BOOLEAN

Filled == {c \in Commands : m_pSvList[c] # NULL}

\* Until a routine is first removed, GetCount() is the number of routines, in the
\* middle of a call too: StartService relies on it to enter callback mode.
CountExact == ~removed => m_dwCount = Cardinality(Filled)

\* A call that has returned has given every command the routine it was passed for it,
\* emptied the slots its hash has no key for, and left alone those whose value is not
\* code, whatever order the slots were set in.
Taken(c) == m_pSvList[c] = IF given[c] = Other THEN before[c] ELSE given[c]
RegistrationTakes == Returned => \A c \in Commands : Taken(c)

=============================================================================
