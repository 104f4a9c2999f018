------------------------- MODULE DaemonParts_proofs -------------------------
(***************************************************************************)
(* Theorems about the two small parts of Win32::Daemon: CallbackList, for  *)
(* any set of commands and routines, and WinStation, for any stations,     *)
(* desktops, names a script may pass and size of an access control list.   *)
(* The parts share no state; a theorem is about one of them.               *)
(***************************************************************************)
EXTENDS CallbackList, WinStation, FiniteSetTheorems, TLAPS

(***************************************************************************)
(*                              CallbackList                               *)
(***************************************************************************)
\* Both orders are orders of the commands: the one in use is too.
LEMMA OrderInUse ==
  ASSUME ListTypeOK
  PROVE  /\ IsOrder(order)
         /\ Len(order) \in Nat
         /\ next \in 1 .. Len(order) + 1
         /\ ~Returned => next \in 1 .. Len(order) /\ order[next] \in Commands
<1>1. IsOrder(order) BY OrderAssumption DEF ListTypeOK
<1>2. order \in Seq(Commands) BY <1>1 DEF IsOrder
<1>3. Len(order) \in Nat /\ \A i \in 1 .. Len(order) : order[i] \in Commands BY <1>2
<1>4. next \in 1 .. Len(order) + 1 BY DEF ListTypeOK
<1> QED BY <1>1, <1>3, <1>4 DEF Returned

\* The arithmetic of m_dwCount stays in the range of a DWORD.
LEMMA CountRange ==
  ASSUME ListTypeOK
  PROVE  Increment \in 0 .. Modulus - 1 /\ Decrement \in 0 .. Modulus - 1
<1>1. TOTAL_CALLBACK \in Nat /\ Modulus \in Nat /\ TOTAL_CALLBACK < Modulus
  BY CommandsAssumption, ModulusAssumption, FS_CardinalityType DEF TOTAL_CALLBACK
<1>2. m_dwCount \in Nat BY DEF ListTypeOK
<1>3. (m_dwCount + 1) % Modulus \in 0 .. Modulus - 1 BY <1>1, <1>2
<1>4. (m_dwCount + Modulus - 1) % Modulus \in 0 .. Modulus - 1 BY <1>1, <1>2
<1> QED BY <1>1, <1>3, <1>4 DEF Increment, Decrement

\* A SET_CALLBACK keeps every variable in its type.
LEMMA SetCallbackType ==
  ASSUME ListTypeOK, SetCallback
  PROVE  ListTypeOK'
<1>1. order[next] \in Commands /\ next \in 1 .. Len(order)
  BY OrderInUse DEF SetCallback
<1>2. given[order[next]] \in Values BY <1>1 DEF ListTypeOK
<1>3. m_pSvList' \in [Commands -> Routines \cup {NULL}]
      /\ m_dwCount' \in 0 .. Modulus - 1
      /\ removed' \in BOOLEAN
  <2>1. CASE given[order[next]] = Other
    BY <2>1 DEF SetCallback, SetSlot, ListTypeOK
  <2>2. CASE given[order[next]] # Other
    <3>1. given[order[next]] \in Routines \cup {NULL} BY <1>2, <2>2 DEF Values
    <3> QED BY <1>1, <2>2, <3>1, CountRange DEF SetCallback, SetSlot, ListTypeOK
  <2> QED BY <2>1, <2>2
<1>4. next' \in 1 .. Len(order) + 1 BY <1>1, OrderInUse DEF SetCallback
<1> QED BY <1>3, <1>4 DEF ListTypeOK, SetCallback

\* The type invariant holds in every behaviour of the list.
THEOREM ListTypeInvariant == ListSpec => []ListTypeOK
<1>1. ListInit => ListTypeOK
  <2> SUFFICES ASSUME ListInit PROVE ListTypeOK OBVIOUS
  <2>1. Len(CodeOrder) + 1 \in 1 .. Len(CodeOrder) + 1
    BY OrderAssumption DEF IsOrder
  <2>2. 0 \in 0 .. Modulus - 1 BY ModulusAssumption, CommandsAssumption, FS_CardinalityType
                               DEF TOTAL_CALLBACK
  <2> QED BY <2>1, <2>2 DEF ListInit, ListTypeOK, Values, Uncalled
<1>2. ListTypeOK /\ [ListNext]_listVars => ListTypeOK'
  <2> SUFFICES ASSUME ListTypeOK, [ListNext]_listVars PROVE ListTypeOK' OBVIOUS
  <2>1. CASE RegisterCallbacks
    <3>1. order' \in {CodeOrder, HashOrder} /\ given' \in [Commands -> Values]
      BY <2>1 DEF RegisterCallbacks, Values
    <3>2. 1 \in 1 .. Len(order') + 1 BY <3>1, OrderAssumption DEF IsOrder
    <3> QED BY <2>1, <3>1, <3>2 DEF RegisterCallbacks, ListTypeOK
  <2>2. CASE SetCallback BY <2>2, SetCallbackType
  <2>3. ASSUME NEW event \in Posted \cup {"TIMER"}, ProcessStateChange(event) PROVE ListTypeOK'
    <3>1. Effective(event) \in Events BY DEF Effective, Events
    <3>2. Get(Effective(event)) \in Routines \cup {NULL} BY DEF Get, ListTypeOK
    <3>3. event \in Events BY DEF Events
    <3> QED BY <2>3, <3>1, <3>2, <3>3 DEF ProcessStateChange, ListTypeOK
  <2>4. ASSUME NEW r \in Routines, Drop(r) PROVE ListTypeOK' BY <2>4 DEF Drop, ListTypeOK
  <2>5. CASE UNCHANGED listVars BY <2>5 DEF listVars, ListTypeOK
  <2> QED BY <2>1, <2>2, <2>3, <2>4, <2>5 DEF ListNext
<1> QED BY <1>1, <1>2, PTL DEF ListSpec

-----------------------------------------------------------------------------
\* The filled slots are finitely many, at most one for each command.
LEMMA FilledFinite ==
  /\ IsFiniteSet(Filled)
  /\ Cardinality(Filled) \in Nat
  /\ TOTAL_CALLBACK \in Nat
  /\ Cardinality(Filled) <= TOTAL_CALLBACK
<1>1. Filled \subseteq Commands BY DEF Filled
<1> QED BY <1>1, CommandsAssumption, FS_Subset, FS_CardinalityType DEF TOTAL_CALLBACK

\* Filling an empty slot adds it to the filled slots, which were fewer than all.
LEMMA FillOne ==
  ASSUME NEW c \in Commands, m_pSvList[c] = NULL, Filled' = Filled \cup {c}
  PROVE  Cardinality(Filled') = Cardinality(Filled) + 1 /\ Cardinality(Filled) < TOTAL_CALLBACK
<1>1. c \notin Filled BY DEF Filled
<1>2. Cardinality(Filled \cup {c}) = Cardinality(Filled) + 1
  BY <1>1, FilledFinite, FS_AddElement
<1>3. Filled \cup {c} \subseteq Commands BY DEF Filled
<1>4. Cardinality(Filled \cup {c}) <= TOTAL_CALLBACK
  BY <1>3, CommandsAssumption, FS_Subset DEF TOTAL_CALLBACK
<1> QED BY <1>2, <1>4, FilledFinite

\* GetCount() is the number of registered routines until the first one is removed:
\* the increment never meets the cap nor the end of a DWORD, and the decrement, whose
\* correction is inverted, has not run.
THEOREM CountIsExact == ListSpec => []CountExact
<1>1. ListInit => CountExact
  <2> SUFFICES ASSUME ListInit PROVE m_dwCount = Cardinality(Filled) BY DEF CountExact
  <2>1. Filled = {} BY DEF ListInit, Filled
  <2> QED BY <2>1, FS_EmptySet DEF ListInit
<1>2. ListTypeOK /\ CountExact /\ [ListNext]_listVars => CountExact'
  <2> SUFFICES ASSUME ListTypeOK, CountExact, [ListNext]_listVars, ~removed'
               PROVE  m_dwCount' = Cardinality(Filled')
    BY DEF CountExact
  <2>1. CASE UNCHANGED <<m_pSvList, m_dwCount, removed>>
    <3>1. Filled' = Filled BY <2>1 DEF Filled
    <3> QED BY <2>1, <3>1 DEF CountExact
  <2>2. CASE SetCallback
    <3> DEFINE c == order[next]
               v == given[c]
    <3>1. c \in Commands BY <2>2, OrderInUse DEF SetCallback
    <3>2. v \in Values BY <3>1 DEF ListTypeOK
    <3>3. CASE v = Other BY <2>1, <2>2, <3>3 DEF SetCallback, SetSlot
    <3>4. CASE v # Other
      <4>1. m_pSvList' = [m_pSvList EXCEPT ![c] = v] /\ ~removed
        BY <2>2, <3>4 DEF SetCallback, SetSlot, ListTypeOK
      <4>2. m_dwCount = Cardinality(Filled) BY <4>1 DEF CountExact
      <4>3. CASE m_pSvList[c] = NULL /\ v # NULL
        <5>1. Filled' = Filled \cup {c} BY <3>1, <4>1, <4>3 DEF Filled, ListTypeOK
        <5>2. Cardinality(Filled') = Cardinality(Filled) + 1
              /\ Cardinality(Filled) < TOTAL_CALLBACK
          BY <3>1, <4>3, <5>1, FillOne
        <5>3. m_dwCount' = Increment BY <2>2, <3>4, <4>3 DEF SetCallback, SetSlot
        <5>4. Increment = m_dwCount + 1
          BY <4>2, <5>2, FilledFinite, ModulusAssumption DEF Increment
        <5> QED BY <4>2, <5>2, <5>3, <5>4
      <4>4. CASE (m_pSvList[c] = NULL) = (v = NULL)
        <5>1. Filled' = Filled BY <3>1, <4>1, <4>4 DEF Filled, ListTypeOK
        <5>2. m_dwCount' = m_dwCount BY <2>2, <3>4, <4>4 DEF SetCallback, SetSlot
        <5> QED BY <4>2, <5>1, <5>2
      <4>5. ~(m_pSvList[c] # NULL /\ v = NULL)
        BY <2>2, <3>4 DEF SetCallback, SetSlot
      <4> QED BY <4>3, <4>4, <4>5
    <3> QED BY <3>3, <3>4
  <2>3. CASE RegisterCallbacks BY <2>1, <2>3 DEF RegisterCallbacks
  <2>4. ASSUME NEW event \in Posted \cup {"TIMER"}, ProcessStateChange(event)
        PROVE  UNCHANGED <<m_pSvList, m_dwCount, removed>>
    BY <2>4 DEF ProcessStateChange
  <2>5. ASSUME NEW r \in Routines, Drop(r) PROVE UNCHANGED <<m_pSvList, m_dwCount, removed>>
    BY <2>5 DEF Drop
  <2>6. CASE UNCHANGED listVars BY <2>1, <2>6 DEF listVars
  <2> QED BY <2>1, <2>2, <2>3, <2>4, <2>5, <2>6 DEF ListNext
<1> QED BY <1>1, <1>2, ListTypeInvariant, PTL DEF ListSpec

-----------------------------------------------------------------------------
\* In the middle of a call the commands already set are as the call gives them and
\* the others are as the call found them.
InCall ==
  \A i \in 1 .. Len(order) :
    IF i < next THEN Taken(order[i]) ELSE m_pSvList[order[i]] = before[order[i]]

\* A call of RegisterCallbacks that has returned has given every command its routine.
THEOREM RegistrationIsTaken == ListSpec => []RegistrationTakes
<1>1. ListInit => InCall
  <2> SUFFICES ASSUME ListInit, NEW i \in 1 .. Len(order)
               PROVE  i < next /\ Taken(order[i])
    BY DEF InCall
  <2>1. order \in Seq(Commands) BY OrderAssumption DEF ListInit, IsOrder
  <2>2. order[i] \in Commands /\ Len(order) \in Nat BY <2>1
  <2> QED BY <2>2 DEF ListInit, Taken
<1>2. ListTypeOK /\ InCall /\ [ListNext]_listVars => InCall'
  <2> SUFFICES ASSUME ListTypeOK, InCall, [ListNext]_listVars PROVE InCall' OBVIOUS
  <2>1. CASE RegisterCallbacks
    BY <2>1, OrderAssumption DEF RegisterCallbacks, InCall, IsOrder
  <2>2. CASE SetCallback
    <3> SUFFICES ASSUME NEW i \in 1 .. Len(order)
                 PROVE  IF i < next' THEN Taken(order[i])'
                                     ELSE (m_pSvList[order[i]] = before[order[i]])'
      BY <2>2 DEF SetCallback, InCall
    <3>1. next \in 1 .. Len(order) /\ Len(order) \in Nat /\ order[next] \in Commands
          /\ order[i] \in Commands /\ next' = next + 1
      BY <2>2, OrderInUse DEF SetCallback, IsOrder
    <3>2. CASE i = next
      <4>1. m_pSvList[order[i]] = before[order[i]] BY <3>1, <3>2 DEF InCall
      <4> QED BY <2>2, <3>1, <3>2, <4>1 DEF SetCallback, SetSlot, Taken, ListTypeOK
    <3>3. CASE i # next
      <4>1. order[i] # order[next] BY <3>1, <3>3, OrderInUse DEF IsOrder
      <4>2. m_pSvList'[order[i]] = m_pSvList[order[i]]
        BY <2>2, <3>1, <4>1 DEF SetCallback, SetSlot, ListTypeOK
      <4>3. i < next <=> i < next' BY <3>1, <3>3
      <4> QED BY <2>2, <3>1, <4>2, <4>3 DEF SetCallback, InCall, Taken
    <3> QED BY <3>2, <3>3
  <2>3. CASE UNCHANGED <<m_pSvList, given, order, next, before>>
    BY <2>3 DEF InCall, Taken
  <2>4. ASSUME NEW event \in Posted \cup {"TIMER"}, ProcessStateChange(event)
        PROVE  UNCHANGED <<m_pSvList, given, order, next, before>>
    BY <2>4 DEF ProcessStateChange
  <2>5. ASSUME NEW r \in Routines, Drop(r)
        PROVE  UNCHANGED <<m_pSvList, given, order, next, before>>
    BY <2>5 DEF Drop
  <2>6. CASE UNCHANGED listVars BY <2>3, <2>6 DEF listVars
  <2> QED BY <2>1, <2>2, <2>3, <2>4, <2>5, <2>6 DEF ListNext
<1>3. ListTypeOK /\ InCall => RegistrationTakes
  <2> SUFFICES ASSUME ListTypeOK, InCall, Returned, NEW c \in Commands PROVE Taken(c)
    BY DEF RegistrationTakes
  <2>1. PICK i \in 1 .. Len(order) : order[i] = c BY OrderInUse DEF IsOrder
  <2>2. i < next BY OrderInUse DEF Returned
  <2> QED BY <2>1, <2>2 DEF InCall
<1> QED BY <1>1, <1>2, <1>3, ListTypeInvariant, PTL DEF ListSpec

-----------------------------------------------------------------------------
(***************************************************************************)
(*                               WinStation                                *)
(***************************************************************************)
\* m_hWinStation and m_hDesktop name the start desktop all the time, which is
\* what RestoredHome rests on.
HomeInv == home = Home

IInv == TypeOK /\ HomeInv /\ RestoredHome /\ SuccessMoves

\* A desktop is a pair of names, the first of a station.
LEMMA DesktopPair ==
  ASSUME NEW d \in Desktops
  PROVE  /\ d[1] \in Stations
         /\ d \in Names \X Names
         /\ d \in Objects
         /\ <<d[1]>> \in Objects
BY DesktopAssumption DEF Objects

\* The lists stay below their limit whatever is added to them.
LEMMA AcesGrow ==
  ASSUME TypeOK, NEW d \in Names \X Names, d[1] \in Stations
  PROVE  /\ StationPrivileges(d[1]) => aces' \in [Objects -> 0 .. MaxAces]
         /\ d \in Desktops /\ BothPrivileges(d[1], d) => aces' \in [Objects -> 0 .. MaxAces]
<1> DEFINE w == <<d[1]>>
<1>1. ASSUME NEW o \in Objects, NEW new \in Nat, new <= 2,
             NEW n \in AddSecurityPrivileges(o, new) \cup {aces[o]}
      PROVE  n \in 0 .. MaxAces
  BY <1>1, AceAssumption DEF AddSecurityPrivileges, HasRoom, TypeOK
<1>2. w \in Objects /\ (d \in Desktops => d \in Objects)
  BY DEF Objects
<1> HIDE DEF w
<1>3. ASSUME NEW n \in 0 .. MaxAces, NEW m \in 0 .. MaxAces
      PROVE  /\ [aces EXCEPT ![w] = n] \in [Objects -> 0 .. MaxAces]
             /\ [aces EXCEPT ![w] = n, ![d] = m] \in [Objects -> 0 .. MaxAces]
  BY <1>2, <1>3 DEF TypeOK
<1>4. StationPrivileges(d[1]) => aces' \in [Objects -> 0 .. MaxAces]
  <2> SUFFICES ASSUME NEW n \in AddSecurityPrivileges(w, 2) \cup {aces[w]},
                      aces' = [aces EXCEPT ![w] = n]
               PROVE  aces' \in [Objects -> 0 .. MaxAces]
    BY DEF StationPrivileges, w
  <2>1. n \in 0 .. MaxAces
    BY <1>1, <1>2
  <2> QED BY <1>3, <2>1
<1>5. ASSUME d \in Desktops, BothPrivileges(d[1], d)
      PROVE  aces' \in [Objects -> 0 .. MaxAces]
  <2> PICK n \in AddSecurityPrivileges(w, 2) \cup {aces[w]}, m \in AddSecurityPrivileges(d, 1) :
        aces' = [aces EXCEPT ![w] = n, ![d] = m]
    BY <1>5 DEF BothPrivileges, w
  <2>1. n \in 0 .. MaxAces /\ m \in 0 .. MaxAces
    BY <1>1, <1>2, <1>5
  <2> QED BY <1>3, <2>1
<1> QED BY <1>4, <1>5

\* One case for every point CWinStation::Set can get to.
LEMMA SetKeeps ==
  ASSUME IInv, NEW call \in Calls \ {"RestoreService"}, NEW d \in Names \X Names, Set(call, d)
  PROVE  IInv'
<1> USE DEF IInv, HomeInv, RestoredHome, Return, Parts
<1>1. CASE NotOpened(call, d)
  BY <1>1 DEF NotOpened, TypeOK, SuccessMoves
<1>2. CASE NotAssigned(call, d)
  <2>1. aces' \in [Objects -> 0 .. MaxAces]
    BY <1>2, AcesGrow DEF NotAssigned
  <2> QED BY <1>2, <2>1 DEF NotAssigned, TypeOK, SuccessMoves
<1>3. CASE DesktopNotOpened(call, d)
  <2>1. aces' \in [Objects -> 0 .. MaxAces]
    BY <1>3, AcesGrow DEF DesktopNotOpened
  <2> QED BY <1>3, <2>1 DEF DesktopNotOpened, TypeOK, SuccessMoves
<1>4. CASE DesktopNotGranted(call, d)
  <2>1. d[1] \in Stations /\ aces' \in [Objects -> 0 .. MaxAces]
    BY <1>4, DesktopPair, AcesGrow DEF DesktopNotGranted
  <2> QED BY <1>4, <2>1 DEF DesktopNotGranted, TypeOK, SuccessMoves
<1>5. CASE DesktopNotSet(call, d)
  <2>1. d[1] \in Stations /\ aces' \in [Objects -> 0 .. MaxAces]
    BY <1>5, DesktopPair, AcesGrow DEF DesktopNotSet
  <2>2. PICK r \in {"thread", "back"} :
          last' = [call |-> call, asked |-> d, ok |-> FALSE, refused |-> r]
    BY <1>5 DEF DesktopNotSet
  <2>3. station' \in Stations /\ UNCHANGED <<desktop, home>>
    BY <1>5, <2>1 DEF DesktopNotSet, TypeOK
  <2> QED BY <2>1, <2>2, <2>3 DEF TypeOK, SuccessMoves
<1>6. CASE Moved(call, d)
  <2>1. d \in Desktops /\ d[1] \in Stations /\ aces' \in [Objects -> 0 .. MaxAces]
    BY <1>6, DesktopPair, AcesGrow DEF Moved
  <2> QED BY <1>6, <2>1 DEF Moved, TypeOK, SuccessMoves
<1> QED BY <1>1, <1>2, <1>3, <1>4, <1>5, <1>6 DEF Set

\* The ends of a RestoreService.
LEMMA RestoreKeeps ==
  ASSUME IInv, RestoreService
  PROVE  IInv'
<1>1. home = Home /\ Home[1] \in Stations /\ Home \in Names \X Names /\ Home \in Desktops
  BY DesktopAssumption, DesktopPair DEF IInv, HomeInv
<1>2. UNCHANGED <<home, aces>>
  BY DEF RestoreService
<1>3. CASE /\ Return("RestoreService", home, FALSE, "station")
           /\ UNCHANGED <<station, desktop>>
  BY <1>1, <1>2, <1>3
     DEF Return, Calls, Parts, IInv, HomeInv, TypeOK, RestoredHome, SuccessMoves
<1>4. CASE /\ station' = home[1]
           /\ Return("RestoreService", home, FALSE, "thread")
           /\ UNCHANGED desktop
  BY <1>1, <1>2, <1>4
     DEF Return, Calls, Parts, IInv, HomeInv, TypeOK, RestoredHome, SuccessMoves
<1>5. CASE /\ station' = home[1]
           /\ desktop' = home
           /\ Return("RestoreService", home, TRUE, "none")
  BY <1>1, <1>2, <1>5
     DEF Return, Calls, Parts, IInv, HomeInv, TypeOK, RestoredHome, SuccessMoves
<1> QED BY <1>3, <1>4, <1>5 DEF RestoreService

LEMMA Inductive == Spec => []IInv
<1>1. Init => IInv
  <2> SUFFICES ASSUME Init PROVE IInv
    OBVIOUS
  <2>1. Home \in Desktops /\ Home[1] \in Stations /\ Home \in Names \X Names
    BY DesktopAssumption, DesktopPair
  <2>2. TypeOK
    <3>1. aces \in [Objects -> 0 .. MaxAces]
      BY AceAssumption DEF Init
    <3>2. last \in [call : Calls, asked : Names \X Names, ok : BOOLEAN, refused : Parts]
      BY <2>1 DEF Init, Calls, Parts
    <3> QED BY <2>1, <3>1, <3>2 DEF Init, TypeOK
  <2>3. last.call # "RestoreService"
    BY DEF Init
  <2> QED BY <2>2, <2>3 DEF Init, IInv, HomeInv, RestoredHome, SuccessMoves
<1>2. IInv /\ [Next]_vars => IInv'
  <2> SUFFICES ASSUME IInv, [Next]_vars PROVE IInv'
    OBVIOUS
  <2>1. ASSUME NEW w \in Names, NEW named \in BOOLEAN, ShowService(w, named)
        PROVE  IInv'
    BY <2>1, SetKeeps, DesktopAssumption DEF ShowService, Calls
  <2>2. CASE HideService
    BY <2>2, SetKeeps, DesktopAssumption DEF HideService, Calls
  <2>3. CASE UNCHANGED vars
    BY <2>3 DEF vars, IInv, HomeInv, TypeOK, RestoredHome, SuccessMoves
  <2> QED BY <2>1, <2>2, <2>3, RestoreKeeps DEF Next
<1> QED BY <1>1, <1>2, PTL DEF Spec

\* No list is ever asked to hold more than Windows accepts, for any limit.
THEOREM TypeInvariant == Spec => []TypeOK
BY Inductive, PTL DEF IInv

\* A RestoreService that reports success has undone whatever the calls before
\* it did, half done ones included.
THEOREM RestoresHome == Spec => []RestoredHome
BY Inductive, PTL DEF IInv

\* A reported success has moved the process, and the thread too unless the
\* privileges on the desktop could not be added, for whatever reason.
THEOREM SuccessHasMoved == Spec => []SuccessMoves
BY Inductive, PTL DEF IInv

\* The thread's desktop stays in the station of the process, whatever Windows
\* refuses, but for the refusals StaysWhole names: in particular a refused
\* SetThreadDesktop in Set does not part them when the process may go back.
THEOREM WholeStays == Spec => StaysWhole
<1> DEFINE Parted == \/ last'.refused \in {"desktop", "privileges", "back"}
                     \/ last'.call = "RestoreService" /\ last'.refused = "thread"
<1>1. ASSUME IInv, [Next]_vars
      PROVE  [Whole => Whole' \/ Parted]_vars
  <2> USE DEF Whole, Return, IInv
  <2>1. ASSUME NEW call \in Calls, NEW d \in Names \X Names, Set(call, d), Whole
        PROVE  Whole' \/ Parted
    BY <2>1 DEF Set, NotOpened, NotAssigned, DesktopNotOpened, DesktopNotGranted, DesktopNotSet, Moved
  <2>2. ASSUME NEW w \in Names, NEW named \in BOOLEAN, ShowService(w, named), Whole
        PROVE  Whole' \/ Parted
    BY <2>1, <2>2, DesktopAssumption DEF ShowService, Calls
  <2>3. ASSUME HideService, Whole
        PROVE  Whole' \/ Parted
    BY <2>1, <2>3, DesktopAssumption DEF HideService, Calls
  <2>4. ASSUME RestoreService, Whole
        PROVE  Whole' \/ Parted
    BY <2>4 DEF RestoreService
  <2> QED BY <1>1, <2>2, <2>3, <2>4 DEF Next, vars
<1> QED BY <1>1, Inductive, PTL DEF Spec, StaysWhole

=============================================================================
