-------------------------- MODULE OleObjects_proofs --------------------------
(***************************************************************************)
(* What OleObjects keeps, for every number of objects, COM objects, frames *)
(* and references: the types, the order of the chain, what g_hv_unique     *)
(* points at, what is held for the objects, and what a walk has released.  *)
(*                                                                         *)
(* The operators on a stack take what they say of the objects as arguments *)
(* (the live ones, the used ones, pDispatch and born), so that a lemma can *)
(* change the stack and the objects one after the other.                   *)
(***************************************************************************)
EXTENDS OleObjects, FiniteSetTheorems, SequenceTheorems, TLAPS

Used == {o \in Objects : memory[o] # "unused"}

-----------------------------------------------------------------------------
(***************************************************************************)
(* The objects                                                             *)
(***************************************************************************)
TypeInv ==
  /\ memory \in [Objects -> {"unused", "live", "freed"}]
  /\ pNext \in [Objects -> Objects \cup {NULL}]
  /\ pPrevious \in [Objects -> Objects \cup {NULL}]
  /\ g_pObj \in Objects \cup {NULL}
  /\ pDispatch \in [Objects -> Coms \cup {NULL}]
  /\ destroy \in [Objects -> BOOLEAN]
  /\ flags \in [Objects -> SUBSET {"UNIQUE", "DESTROYED"}]
  /\ refs \in [Objects -> 0 .. MaxRefs]
  /\ g_hv_unique \in [Coms -> Objects \cup {NULL}]
  /\ g_bInitialized \in BOOLEAN
  /\ held \in [Coms -> 0 .. MaxHeld]
  /\ exiting \in BOOLEAN
  /\ born \in [Objects -> Nat]

\* The used objects have different numbers, none above how many there are.
BornInv ==
  /\ \A o \in Used : born[o] <= Cardinality(Used)
  /\ \A o, p \in Used : born[o] = born[p] => o = p

\* p is the youngest of the objects older than o.
Follows(p, o) == born[p] < born[o] /\ \A q \in Live : born[q] < born[o] => born[q] <= born[p]

\* g_pObj is the youngest.
HeadInv ==
  /\ g_pObj = NULL => Live = {}
  /\ g_pObj # NULL =>
       g_pObj \in Live /\ pPrevious[g_pObj] = NULL /\ \A o \in Live : born[o] <= born[g_pObj]

\* pNext is the object just older, and pPrevious undoes pNext.
LinksInv ==
  \A o \in Live :
    /\ pNext[o] = NULL => \A q \in Live : born[o] <= born[q]
    /\ pNext[o] # NULL => pNext[o] \in Live /\ pPrevious[pNext[o]] = o /\ Follows(pNext[o], o)
    /\ pPrevious[o] = NULL => o = g_pObj
    /\ pPrevious[o] # NULL => pPrevious[o] \in Live /\ pNext[pPrevious[o]] = o

ChainInv == BornInv /\ HeadInv /\ LinksInv

\* What is not live has no reference and no interface, what is destroyed no interface.
ObjectInv ==
  /\ \A o \in Objects : refs[o] > 0 => o \in Live
  /\ \A o \in Objects : pDispatch[o] # NULL => o \in Live
  /\ \A o \in Objects : "DESTROYED" \in flags[o] => pDispatch[o] = NULL

-----------------------------------------------------------------------------
(***************************************************************************)
(* The stack                                                               *)
(***************************************************************************)

\* Which frames there can be.
Shaped(f) ==
  \/ /\ f.op = "DESTROY"
     /\ f.at \in {"release", "callback", "released"}
     /\ f.obj \in Objects /\ f.kept = {f.obj}
  \/ /\ f.op = "Tie"
     /\ f.at \in {"release", "callback", "released"}
     /\ f.obj \in Objects /\ f.kept \subseteq {f.obj}
     /\ f.at = "callback" => f.kept = {f.obj}
  \/ /\ f.op = "Uninitialize"
     /\ \/ f.at \in {"release", "released"} /\ f.obj \in Objects
        \/ f.at = "callback" /\ f.obj \in f.kept
        \/ f.at \in {"close", "unwind"} /\ f.obj = NULL
  \/ /\ f.op = "Enum"
     /\ \/ f.at \in {"visit", "next"} /\ f.kept = {}
        \/ f.at = "callback" /\ f.kept = {f.obj} /\ f.obj \in Objects

\* A walk that is at f.obj has released the objects it began with that are younger.
Walked(f, live, used, disp, num) ==
  /\ f.start \subseteq used
  /\ f.obj # NULL => f.obj \in used
  /\ \A o \in f.start \cap live :
       disp[o] = NULL \/ (f.obj # NULL /\ num[o] <= num[f.obj])

\* What a frame knows of the objects.
Holds(f, live, used, disp, num) ==
  /\ f.kept \subseteq live
  /\ f.at \in {"release", "released"} => f.obj \in live
  /\ f.at = "released" => disp[f.obj] = NULL
  /\ f.op = "Uninitialize" => Walked(f, live, used, disp, num)

\* Where a frame can be that has another one on it.
Waiting(f) == f.at \in {"callback", "unwind", "next"}

Stacked(s, live, used, disp, num) ==
  /\ s \in Seq(Frames)
  /\ Len(s) <= MaxDepth
  /\ \A i \in 1 .. Len(s) : Shaped(s[i]) /\ Holds(s[i], live, used, disp, num)
  /\ \A i \in 1 .. Len(s) : i < Len(s) => Waiting(s[i])
  /\ \A i \in 1 .. Len(s) : s[i].op = "Tie" => i = 1

StackInv == Stacked(stack, Live, Used, pDispatch, born)

InStack(s, o) == \E i \in 1 .. Len(s) : o \in s[i].kept

\* An object in g_hv_unique stands for its COM object, and Perl still refers to it.
UniqueInv ==
  \A c \in Coms : g_hv_unique[c] # NULL =>
    /\ g_hv_unique[c] \in Live
    /\ pDispatch[g_hv_unique[c]] = c
    /\ "UNIQUE" \in flags[g_hv_unique[c]]
    /\ refs[g_hv_unique[c]] > 0 \/ InStack(stack, g_hv_unique[c])

IInv ==
  /\ TypeInv
  /\ ChainInv
  /\ ObjectInv
  /\ HeldCovers
  /\ StackInv
  /\ UniqueInv

-----------------------------------------------------------------------------
(***************************************************************************)
(* Stacks                                                                  *)
(***************************************************************************)
Under(s) == SubSeq(s, 1, Len(s) - 1)
Replaced(s, f) == [s EXCEPT ![Len(s)] = f]

LEMMA PushIs ==
  ASSUME NEW s \in Seq(Frames), NEW f \in Frames
  PROVE  /\ Append(s, f) \in Seq(Frames)
         /\ Len(Append(s, f)) = Len(s) + 1
         /\ \A i \in 1 .. Len(s) + 1 : Append(s, f)[i] = IF i = Len(s) + 1 THEN f ELSE s[i]
  BY AppendProperties

LEMMA PopIs ==
  ASSUME NEW s \in Seq(Frames), s # <<>>
  PROVE  /\ Len(s) \in Nat \ {0}
         /\ Under(s) \in Seq(Frames)
         /\ Len(Under(s)) = Len(s) - 1
         /\ \A i \in 1 .. Len(s) - 1 : Under(s)[i] = s[i]
  <1>1. Len(s) \in Nat \ {0} BY EmptySeq, LenProperties
  <1>2. \A i \in 1 .. Len(s) - 1 : s[i] \in Frames BY <1>1, ElementOfSeq
  <1> DEFINE n == Len(s) - 1
  <1>3. n \in Int /\ 1 \in Int BY <1>1
  <1>4. \A i \in 1 .. n : s[i] \in Frames BY <1>2
  <1> HIDE DEF n
  <1>5. /\ SubSeq(s, 1, n) \in Seq(Frames)
        /\ Len(SubSeq(s, 1, n)) = IF 1 <= n THEN n - 1 + 1 ELSE 0
        /\ \A i \in 1 .. n - 1 + 1 : SubSeq(s, 1, n)[i] = s[1 + i - 1]
    BY <1>3, <1>4, SubSeqProperties
  <1>6. n \in Nat BY <1>1 DEF n
  <1>7. Len(SubSeq(s, 1, n)) = n BY <1>5, <1>6
  <1>8. ASSUME NEW i \in 1 .. n PROVE SubSeq(s, 1, n)[i] = s[i]
    <2>1. i \in 1 .. n - 1 + 1 /\ 1 + i - 1 = i BY <1>6
    <2> QED BY <1>5, <2>1
  <1> QED BY <1>1, <1>5, <1>7, <1>8 DEF Under, n

LEMMA BecomeIs ==
  ASSUME NEW s \in Seq(Frames), s # <<>>, NEW f \in Frames
  PROVE  /\ Replaced(s, f) \in Seq(Frames)
         /\ Len(Replaced(s, f)) = Len(s)
         /\ Replaced(s, f) # <<>>
         /\ \A i \in 1 .. Len(s) : Replaced(s, f)[i] = IF i = Len(s) THEN f ELSE s[i]
  <1>1. Len(s) \in 1 .. Len(s) BY EmptySeq, LenProperties
  <1> QED BY <1>1, ExceptSeq, EmptySeq DEF Replaced

LEMMA PushStacked ==
  ASSUME NEW s, NEW live, NEW used, NEW disp, NEW num, Stacked(s, live, used, disp, num),
         NEW f \in Frames, Shaped(f), Holds(f, live, used, disp, num),
         Len(s) < MaxDepth, s # <<>> => Waiting(s[Len(s)]), f.op = "Tie" => s = <<>>
  PROVE  Stacked(Append(s, f), live, used, disp, num)
  <1>1. s \in Seq(Frames) /\ Len(s) \in Nat /\ (Len(s) > 0 => s # <<>>) /\ (s = <<>> => Len(s) = 0)
    BY EmptySeq, LenProperties DEF Stacked
  <1> DEFINE t == Append(s, f)
  <1>2. /\ t \in Seq(Frames) /\ Len(t) = Len(s) + 1
        /\ \A i \in 1 .. Len(s) + 1 : t[i] = IF i = Len(s) + 1 THEN f ELSE s[i]
    BY <1>1, PushIs
  <1> HIDE DEF t
  <1>3. Len(t) <= MaxDepth BY <1>1, <1>2, BoundAssumption
  <1>4. ASSUME NEW i \in 1 .. Len(t)
        PROVE  /\ Shaped(t[i]) /\ Holds(t[i], live, used, disp, num)
               /\ i < Len(t) => Waiting(t[i])
               /\ t[i].op = "Tie" => i = 1
    <2>1. CASE i = Len(s) + 1 BY <1>1, <1>2, <2>1
    <2>2. CASE i # Len(s) + 1
      <3>1. i \in 1 .. Len(s) /\ t[i] = s[i] BY <1>1, <1>2, <1>4, <2>2
      <3>2. i = Len(s) => s # <<>> BY <1>1, <3>1
      <3> QED BY <1>1, <3>1, <3>2 DEF Stacked
    <2> QED BY <2>1, <2>2
  <1> QED BY <1>2, <1>3, <1>4 DEF Stacked, t

LEMMA PopStacked ==
  ASSUME NEW s, NEW live, NEW used, NEW disp, NEW num, Stacked(s, live, used, disp, num),
         s # <<>>
  PROVE  /\ Stacked(Under(s), live, used, disp, num)
         /\ \A i \in 1 .. Len(Under(s)) : Waiting(Under(s)[i])
  <1>1. s \in Seq(Frames) BY DEF Stacked
  <1> DEFINE t == Under(s)
  <1>2. /\ Len(s) \in Nat \ {0} /\ t \in Seq(Frames) /\ Len(t) = Len(s) - 1
        /\ \A i \in 1 .. Len(s) - 1 : t[i] = s[i]
    BY <1>1, PopIs
  <1> HIDE DEF t
  <1>3. Len(t) <= MaxDepth BY <1>2, BoundAssumption DEF Stacked
  <1>4. ASSUME NEW i \in 1 .. Len(t)
        PROVE  /\ Shaped(t[i]) /\ Holds(t[i], live, used, disp, num)
               /\ Waiting(t[i])
               /\ t[i].op = "Tie" => i = 1
    <2>1. i \in 1 .. Len(s) /\ i < Len(s) /\ t[i] = s[i] BY <1>2
    <2> QED BY <2>1 DEF Stacked
  <1> QED BY <1>2, <1>3, <1>4 DEF Stacked, t

LEMMA BecomeStacked ==
  ASSUME NEW s, NEW live, NEW used, NEW disp, NEW num, Stacked(s, live, used, disp, num),
         s # <<>>, NEW f \in Frames, Shaped(f), Holds(f, live, used, disp, num),
         f.op = "Tie" => s[Len(s)].op = "Tie"
  PROVE  Stacked(Replaced(s, f), live, used, disp, num)
  <1>1. s \in Seq(Frames) /\ Len(s) \in Nat \ {0} BY PopIs DEF Stacked
  <1> DEFINE t == Replaced(s, f)
  <1>2. /\ t \in Seq(Frames) /\ Len(t) = Len(s)
        /\ \A i \in 1 .. Len(s) : t[i] = IF i = Len(s) THEN f ELSE s[i]
    BY <1>1, BecomeIs
  <1> HIDE DEF t
  <1>3. Len(t) <= MaxDepth BY <1>2 DEF Stacked
  <1>4. ASSUME NEW i \in 1 .. Len(t)
        PROVE  /\ Shaped(t[i]) /\ Holds(t[i], live, used, disp, num)
               /\ i < Len(t) => Waiting(t[i])
               /\ t[i].op = "Tie" => i = 1
    <2>1. CASE i = Len(s) BY <1>1, <1>2, <2>1 DEF Stacked
    <2>2. CASE i # Len(s) BY <1>1, <1>2, <2>2 DEF Stacked
    <2> QED BY <2>1, <2>2
  <1> QED BY <1>2, <1>3, <1>4 DEF Stacked, t

LEMMA TopStacked ==
  ASSUME NEW s, NEW live, NEW used, NEW disp, NEW num, Stacked(s, live, used, disp, num),
         s # <<>>
  PROVE  /\ Len(s) \in 1 .. Len(s)
         /\ s[Len(s)] \in Frames
         /\ Shaped(s[Len(s)])
         /\ Holds(s[Len(s)], live, used, disp, num)
         /\ s[Len(s)].op = "Tie" => Under(s) = <<>>
  <1>1. s \in Seq(Frames) /\ Len(s) \in Nat \ {0} BY PopIs DEF Stacked
  <1>2. Len(s) \in 1 .. Len(s) BY <1>1
  <1>3. s[Len(s)] \in Frames BY <1>1, <1>2, ElementOfSeq
  <1>4. s[Len(s)].op = "Tie" => Len(s) = 1 BY <1>2 DEF Stacked
  <1>5. Len(s) = 1 => Under(s) = <<>>
    <2>1. Under(s) \in Seq(Frames) /\ Len(Under(s)) = Len(s) - 1 BY <1>1, PopIs
    <2> QED BY <2>1, EmptySeq
  <1> QED BY <1>2, <1>3, <1>4, <1>5 DEF Stacked

\* References of the frames.
LEMMA PushKept ==
  ASSUME NEW s \in Seq(Frames), NEW f \in Frames, NEW o
  PROVE  InStack(Append(s, f), o) <=> InStack(s, o) \/ o \in f.kept
  <1>1. Len(s) \in Nat BY LenProperties
  <1> DEFINE t == Append(s, f)
  <1>2. /\ Len(t) = Len(s) + 1
        /\ \A i \in 1 .. Len(s) + 1 : t[i] = IF i = Len(s) + 1 THEN f ELSE s[i]
    BY PushIs
  <1> HIDE DEF t
  <1>3. InStack(t, o) => InStack(s, o) \/ o \in f.kept
    BY <1>1, <1>2 DEF InStack
  <1>4. ASSUME InStack(s, o) PROVE InStack(t, o)
    <2>1. PICK i \in 1 .. Len(s) : o \in s[i].kept BY <1>4 DEF InStack
    <2>2. i \in 1 .. Len(t) /\ t[i] = s[i] BY <1>1, <1>2
    <2> QED BY <2>1, <2>2 DEF InStack
  <1>5. ASSUME o \in f.kept PROVE InStack(t, o)
    <2>1. Len(t) \in 1 .. Len(t) /\ t[Len(t)] = f BY <1>1, <1>2
    <2> QED BY <1>5, <2>1 DEF InStack
  <1> QED BY <1>3, <1>4, <1>5 DEF t

LEMMA TopKept ==
  ASSUME NEW s \in Seq(Frames), s # <<>>, NEW o
  PROVE  InStack(s, o) <=> InStack(Under(s), o) \/ o \in s[Len(s)].kept
  <1> DEFINE t == Under(s)
  <1>1. Len(s) \in Nat \ {0} /\ Len(t) = Len(s) - 1 /\ \A i \in 1 .. Len(s) - 1 : t[i] = s[i]
    BY PopIs
  <1> HIDE DEF t
  <1>2. ASSUME InStack(s, o), o \notin s[Len(s)].kept PROVE InStack(t, o)
    <2>1. PICK i \in 1 .. Len(s) : o \in s[i].kept BY <1>2 DEF InStack
    <2>2. i \in 1 .. Len(t) /\ t[i] = s[i] BY <1>1, <1>2, <2>1
    <2> QED BY <2>1, <2>2 DEF InStack
  <1>3. ASSUME InStack(t, o) PROVE InStack(s, o)
    <2>1. PICK i \in 1 .. Len(t) : o \in t[i].kept BY <1>3 DEF InStack
    <2>2. i \in 1 .. Len(s) /\ t[i] = s[i] BY <1>1, <2>1
    <2> QED BY <2>1, <2>2 DEF InStack
  <1>4. o \in s[Len(s)].kept => InStack(s, o) BY <1>1 DEF InStack
  <1> QED BY <1>2, <1>3, <1>4 DEF t

LEMMA BecomeKept ==
  ASSUME NEW s \in Seq(Frames), s # <<>>, NEW f \in Frames, NEW o
  PROVE  InStack(Replaced(s, f), o) <=> InStack(Under(s), o) \/ o \in f.kept
  <1> DEFINE t == Replaced(s, f)
  <1>1. /\ Len(s) \in Nat \ {0} /\ Under(s) \in Seq(Frames) /\ Len(Under(s)) = Len(s) - 1
        /\ \A i \in 1 .. Len(s) - 1 : Under(s)[i] = s[i]
    BY PopIs
  <1>2. /\ t \in Seq(Frames) /\ t # <<>> /\ Len(t) = Len(s)
        /\ \A i \in 1 .. Len(s) : t[i] = IF i = Len(s) THEN f ELSE s[i]
    BY BecomeIs
  <1> HIDE DEF t
  <1>3. /\ Under(t) \in Seq(Frames) /\ Len(Under(t)) = Len(s) - 1
        /\ \A i \in 1 .. Len(s) - 1 : Under(t)[i] = t[i]
    BY <1>2, PopIs
  <1>4. Under(t) = Under(s)
    <2>1. \A i \in 1 .. Len(Under(t)) : Under(t)[i] = Under(s)[i] BY <1>1, <1>2, <1>3
    <2> QED BY <1>1, <1>3, <2>1, SeqEqual
  <1>5. t[Len(t)] = f BY <1>1, <1>2
  <1> QED BY <1>2, <1>4, <1>5, TopKept DEF t

-----------------------------------------------------------------------------
(***************************************************************************)
(* Changes of the objects and what stacks say of them                      *)
(***************************************************************************)

\* More objects, and fewer interfaces of those there are.
LEMMA GrowStacked ==
  ASSUME NEW s, NEW live, NEW used, NEW disp, NEW num, NEW live2, NEW used2, NEW disp2, NEW num2,
         Stacked(s, live, used, disp, num),
         live \subseteq live2, used \subseteq used2, live2 \cap used \subseteq live,
         \A o \in live : disp2[o] \in {disp[o], NULL},
         \A o \in used : num2[o] = num[o]
  PROVE  Stacked(s, live2, used2, disp2, num2)
  <1>1. ASSUME NEW f, Walked(f, live, used, disp, num) PROVE Walked(f, live2, used2, disp2, num2)
    <2>1. /\ f.start \subseteq used
          /\ f.obj # NULL => f.obj \in used
          /\ \A o \in f.start \cap live :
               disp[o] = NULL \/ (f.obj # NULL /\ num[o] <= num[f.obj])
      BY <1>1 DEF Walked
    <2>2. ASSUME NEW o \in f.start \cap live2
          PROVE  disp2[o] = NULL \/ (f.obj # NULL /\ num2[o] <= num2[f.obj])
      <3>1. o \in f.start \cap live /\ o \in used BY <2>1
      <3> QED BY <2>1, <3>1
    <2> QED BY <2>1, <2>2 DEF Walked
  <1>2. ASSUME NEW f, Holds(f, live, used, disp, num) PROVE Holds(f, live2, used2, disp2, num2)
    <2>1. /\ f.kept \subseteq live
          /\ f.at \in {"release", "released"} => f.obj \in live
          /\ f.at = "released" => disp[f.obj] = NULL
          /\ f.op = "Uninitialize" => Walked(f, live, used, disp, num)
      BY <1>2 DEF Holds
    <2>2. f.at = "released" => disp2[f.obj] = NULL BY <2>1
    <2>3. f.op = "Uninitialize" => Walked(f, live2, used2, disp2, num2) BY <1>1, <2>1
    <2> QED BY <2>1, <2>2, <2>3 DEF Holds
  <1> QED BY <1>2 DEF Stacked

\* An object that no frame keeps goes, and no frame is at releasing one.
LEMMA FreeStacked ==
  ASSUME NEW s, NEW live, NEW used, NEW disp, NEW num, NEW o,
         Stacked(s, live, used, disp, num),
         \A i \in 1 .. Len(s) : Waiting(s[i]),
         ~InStack(s, o)
  PROVE  Stacked(s, live \ {o}, used, disp, num)
  <1>1. ASSUME NEW f, Walked(f, live, used, disp, num) PROVE Walked(f, live \ {o}, used, disp, num)
    BY <1>1 DEF Walked
  <1>2. ASSUME NEW i \in 1 .. Len(s) PROVE Holds(s[i], live \ {o}, used, disp, num)
    <2>1. Holds(s[i], live, used, disp, num) /\ Waiting(s[i]) /\ o \notin s[i].kept
      BY DEF Stacked, InStack
    <2> QED BY <1>1, <2>1 DEF Holds, Waiting
  <1> QED BY <1>2 DEF Stacked

-----------------------------------------------------------------------------
(***************************************************************************)
(* The chain                                                               *)
(***************************************************************************)
LEMMA LiveUsed == Live \subseteq Used
  BY DEF Live, Used

LEMMA UsedFinite == IsFiniteSet(Used) /\ Cardinality(Used) \in Nat
  <1>1. Used \subseteq Objects BY DEF Used
  <1>2. IsFiniteSet(Used) BY <1>1, FiniteAssumption, FS_Subset
  <1> QED BY <1>2, FS_CardinalityType

\* A new object, and what it is.
Created(o, c, unique, callback) ==
  /\ memory[o] = "unused"
  /\ memory' = [memory EXCEPT ![o] = "live"]
  /\ born' = [born EXCEPT ![o] = Cardinality({p \in Objects : memory[p] # "unused"}) + 1]
  /\ AddToObjectChain(o)
  /\ pDispatch' = [pDispatch EXCEPT ![o] = c]
  /\ destroy' = [destroy EXCEPT ![o] = callback]
  /\ flags' = [flags EXCEPT ![o] = IF unique THEN {"UNIQUE"} ELSE {}]
  /\ g_hv_unique' = IF unique THEN [g_hv_unique EXCEPT ![c] = o] ELSE g_hv_unique
  /\ refs' = [refs EXCEPT ![o] = 1]

LEMMA CreatedBorn ==
  ASSUME TypeInv, BornInv, NEW o \in Objects, memory[o] = "unused",
         memory' = [memory EXCEPT ![o] = "live"],
         born' = [born EXCEPT ![o] = Cardinality({p \in Objects : memory[p] # "unused"}) + 1]
  PROVE  /\ BornInv'
         /\ Live' = Live \cup {o} /\ Used' = Used \cup {o} /\ o \notin Used
         /\ \A p \in Used : born'[p] = born[p] /\ born[p] < born'[o]
         /\ born' \in [Objects -> Nat]
  <1>1. Live' = Live \cup {o} /\ Used' = Used \cup {o} /\ o \notin Used
    BY DEF Live, Used, TypeInv
  <1>2. Cardinality(Used) \in Nat /\ Cardinality(Used') = Cardinality(Used) + 1
    BY <1>1, UsedFinite, FS_AddElement
  <1>3. born' = [born EXCEPT ![o] = Cardinality(Used) + 1] BY DEF Used
  <1>4. born' \in [Objects -> Nat] /\ born'[o] = Cardinality(Used) + 1
    BY <1>2, <1>3 DEF TypeInv
  <1>5. \A p \in Used : born'[p] = born[p] /\ born[p] \in Nat /\ p \in Objects
    BY <1>1, <1>3 DEF TypeInv, Used
  <1>6. \A p \in Used : born[p] <= Cardinality(Used) BY DEF BornInv
  <1>7. \A p \in Used : born[p] < born'[o] BY <1>2, <1>4, <1>5, <1>6
  <1>8. \A p \in Used' : born'[p] <= Cardinality(Used') BY <1>1, <1>2, <1>4, <1>5, <1>6
  <1>9. \A p, q \in Used' : born'[p] = born'[q] => p = q
    BY <1>1, <1>2, <1>4, <1>5, <1>7 DEF BornInv
  <1> QED BY <1>1, <1>4, <1>5, <1>7, <1>8, <1>9 DEF BornInv

LEMMA CreatedChain ==
  ASSUME TypeInv, ChainInv, NEW o \in Objects, memory[o] = "unused",
         memory' = [memory EXCEPT ![o] = "live"],
         born' = [born EXCEPT ![o] = Cardinality({p \in Objects : memory[p] # "unused"}) + 1],
         AddToObjectChain(o)
  PROVE  ChainInv'
  <1> BornInv /\ HeadInv /\ LinksInv BY DEF ChainInv
  <1>1. /\ BornInv'
        /\ Live' = Live \cup {o} /\ Used' = Used \cup {o} /\ o \notin Used
        /\ \A p \in Used : born'[p] = born[p] /\ born[p] < born'[o]
        /\ born' \in [Objects -> Nat]
    BY CreatedBorn
  <1>2. /\ o \notin Live /\ \A p \in Live : born'[p] = born[p] /\ born[p] < born'[o]
        /\ \A p \in Live : born[p] \in Nat /\ p \in Objects
    BY <1>1, LiveUsed DEF TypeInv, Live
  <1>3. /\ pNext'[o] = g_pObj /\ pPrevious'[o] = NULL /\ g_pObj' = o
        /\ \A p \in Objects \ {o} : pNext'[p] = pNext[p]
        /\ \A p \in Objects \ {o} : pPrevious'[p] = IF p = g_pObj THEN o ELSE pPrevious[p]
    BY DEF AddToObjectChain, TypeInv
  <1>4. o # NULL BY NullAssumption
  <1>5. HeadInv' BY <1>1, <1>2, <1>3, <1>4 DEF HeadInv
  <1>6. born'[o] \in Nat BY <1>1
  <1>7. ASSUME NEW x \in Live, x # NULL
        PROVE  /\ pNext'[x] = NULL => \A q \in Live' : born'[x] <= born'[q]
               /\ pNext'[x] # NULL =>
                    pNext'[x] \in Live' /\ pPrevious'[pNext'[x]] = x /\ Follows(pNext[x], x)'
               /\ pPrevious'[x] = NULL => x = g_pObj'
               /\ pPrevious'[x] # NULL => pPrevious'[x] \in Live' /\ pNext'[pPrevious'[x]] = x
    <2>1. /\ x # o /\ x \in Objects
          /\ pNext[x] = NULL => \A q \in Live : born[x] <= born[q]
          /\ pNext[x] # NULL => pNext[x] \in Live /\ pPrevious[pNext[x]] = x /\ Follows(pNext[x], x)
          /\ pPrevious[x] = NULL => x = g_pObj
          /\ pPrevious[x] # NULL => pPrevious[x] \in Live /\ pNext[pPrevious[x]] = x
      BY <1>2 DEF LinksInv
    <2>2. pNext'[x] = pNext[x] BY <1>3, <2>1
    <2>3. ASSUME pNext[x] = NULL, NEW q \in Live' PROVE born'[x] <= born'[q]
      BY <1>1, <1>2, <1>6, <2>1, <2>3
    <2>4. ASSUME pNext[x] # NULL
          PROVE  pNext[x] \in Live' /\ pPrevious'[pNext[x]] = x /\ Follows(pNext[x], x)'
      <3>1. pNext[x] \in Live /\ pPrevious[pNext[x]] = x /\ Follows(pNext[x], x) BY <2>1, <2>4
      <3>2. pNext[x] # g_pObj BY <1>7, <3>1, <2>4 DEF HeadInv
      <3>3. pNext[x] \in Objects \ {o} BY <1>2, <3>1
      <3>4. pPrevious'[pNext[x]] = x BY <1>3, <3>1, <3>2, <3>3
      <3> DEFINE n == pNext[x]
      <3>5. n \in Live /\ born[n] < born[x] /\ \A q \in Live : born[q] < born[x] => born[q] <= born[n]
        BY <3>1 DEF Follows
      <3> HIDE DEF n
      <3>6. born'[n] < born'[x] /\ \A q \in Live' : born'[q] < born'[x] => born'[q] <= born'[n]
        <4>1. born'[n] < born'[x] BY <1>2, <3>5
        <4>2. ASSUME NEW q \in Live', born'[q] < born'[x] PROVE born'[q] <= born'[n]
          <5>1. q # o BY <1>2, <1>6, <4>2
          <5>2. q \in Live BY <1>1, <5>1
          <5> QED BY <1>2, <3>5, <4>2, <5>2
        <4> QED BY <4>1, <4>2
      <3>7. (n = pNext[x]) /\ pNext'[x] = n BY <2>2 DEF n
      <3> QED BY <1>1, <2>2, <3>1, <3>4, <3>6, <3>7 DEF Follows
    <2>5. pPrevious'[x] = IF x = g_pObj THEN o ELSE pPrevious[x] BY <1>3, <2>1
    <2>6. pPrevious'[x] # NULL BY <1>4, <2>1, <2>5
    <2>7. pPrevious'[x] \in Live' /\ pNext'[pPrevious'[x]] = x
      <3>1. CASE x = g_pObj BY <1>1, <1>3, <2>5, <3>1
      <3>2. CASE x # g_pObj
        <4>1. pPrevious[x] \in Live /\ pNext[pPrevious[x]] = x /\ pPrevious'[x] = pPrevious[x]
          BY <2>1, <2>5, <3>2
        <4> QED BY <1>1, <1>2, <1>3, <4>1
      <3> QED BY <3>1, <3>2
    <2> QED BY <2>2, <2>3, <2>4, <2>6, <2>7
  <1>8. /\ pNext'[o] = NULL => \A q \in Live' : born'[o] <= born'[q]
        /\ pNext'[o] # NULL =>
             pNext'[o] \in Live' /\ pPrevious'[pNext'[o]] = o /\ Follows(pNext[o], o)'
        /\ pPrevious'[o] = NULL => o = g_pObj'
        /\ pPrevious'[o] # NULL => pPrevious'[o] \in Live' /\ pNext'[pPrevious'[o]] = o
    <2>1. CASE g_pObj = NULL
      <3>1. Live' = {o} BY <1>1, <2>1 DEF HeadInv
      <3>2. \A q \in Live' : born'[o] <= born'[q] BY <1>6, <3>1
      <3> QED BY <1>3, <2>1, <3>2
    <2>2. CASE g_pObj # NULL
      <3>1. g_pObj \in Live /\ \A q \in Live : born[q] <= born[g_pObj] BY <2>2 DEF HeadInv
      <3>2. pPrevious'[g_pObj] = o BY <1>2, <1>3, <3>1
      <3>3. born'[g_pObj] < born'[o] /\ \A q \in Live' : born'[q] < born'[o] => born'[q] <= born'[g_pObj]
        <4>1. born'[g_pObj] < born'[o] BY <1>2, <3>1
        <4>2. ASSUME NEW q \in Live', born'[q] < born'[o] PROVE born'[q] <= born'[g_pObj]
          <5>1. q # o BY <1>6, <4>2
          <5>2. q \in Live BY <1>1, <5>1
          <5> QED BY <1>2, <3>1, <5>2
        <4> QED BY <4>1, <4>2
      <3>4. Follows(pNext[o], o)' BY <1>3, <3>3 DEF Follows
      <3> QED BY <1>1, <1>3, <2>2, <3>1, <3>2, <3>4
    <2> QED BY <2>1, <2>2
  <1>9. LinksInv'
    <2>1. \A x \in Live : x # NULL BY NullAssumption DEF Live
    <2> QED BY <1>1, <1>7, <1>8, <2>1 DEF LinksInv
  <1> QED BY <1>1, <1>5, <1>9 DEF ChainInv

LEMMA FreedChain ==
  ASSUME TypeInv, ChainInv, NEW o \in Live, Free(o)
  PROVE  /\ ChainInv'
         /\ Live' = Live \ {o} /\ Used' = Used
  <1> BornInv /\ HeadInv /\ LinksInv BY DEF ChainInv
  <1>1. Live' = Live \ {o} /\ Used' = Used /\ born' = born BY DEF Free, Live, Used, TypeInv
  <1>2. /\ \A p, q \in Live : born[p] = born[q] => p = q
        /\ \A p \in Live : born[p] \in Nat /\ p \in Objects /\ p # NULL
    BY LiveUsed, NullAssumption DEF BornInv, TypeInv, Live
  <1>3. BornInv' BY <1>1 DEF BornInv
  <1> DEFINE n == pNext[o]
             m == pPrevious[o]
  <1>4. /\ g_pObj' = IF m = NULL THEN n ELSE g_pObj
        /\ \A p \in Live' : pNext'[p] = IF p = m THEN n ELSE pNext[p]
        /\ \A p \in Live' : pPrevious'[p] = IF p = n THEN m ELSE pPrevious[p]
    BY <1>1, <1>2 DEF Free, RemoveFromObjectChain
  <1>5. /\ n = NULL => \A q \in Live : born[o] <= born[q]
        /\ n # NULL => /\ n \in Live' /\ pPrevious[n] = o /\ born[n] < born[o]
                       /\ \A q \in Live : born[q] < born[o] => born[q] <= born[n]
        /\ m = NULL => o = g_pObj
        /\ m # NULL => m \in Live' /\ pNext[m] = o /\ born[o] < born[m]
                       /\ \A q \in Live : born[q] < born[m] => born[q] <= born[o]
    <2>1. /\ n = NULL => \A q \in Live : born[o] <= born[q]
          /\ n # NULL => n \in Live /\ pPrevious[n] = o /\ Follows(n, o)
          /\ m = NULL => o = g_pObj
          /\ m # NULL => m \in Live /\ pNext[m] = o
      BY DEF LinksInv
    <2>2. m # NULL => Follows(o, m) BY <1>2, <2>1 DEF LinksInv
    <2>3. n # NULL => n # o BY <1>2, <2>1 DEF Follows
    <2>4. m # NULL => m # o BY <1>2, <2>1, <2>2 DEF Follows
    <2> HIDE DEF n, m
    <2> QED BY <1>1, <2>1, <2>2, <2>3, <2>4 DEF Follows
  <1> HIDE DEF n, m
  <1>6. HeadInv'
    <2>1. CASE m = NULL
      <3>1. o = g_pObj /\ g_pObj' = n /\ \A q \in Live : born[q] <= born[o]
        BY <1>2, <1>4, <1>5, <2>1 DEF HeadInv
      <3>2. n = NULL => Live' = {} BY <1>1, <1>2, <1>5, <3>1
      <3>3. n # NULL => \A q \in Live' : born'[q] <= born'[n] BY <1>1, <1>2, <1>5, <3>1
      <3>4. n # NULL => n \in Live' /\ pPrevious'[n] = NULL BY <1>4, <1>5, <2>1
      <3> QED BY <3>1, <3>2, <3>3, <3>4 DEF HeadInv
    <2>2. CASE m # NULL
      <3>1. g_pObj' = g_pObj /\ m \in Live' BY <1>4, <1>5, <2>2
      <3>2. g_pObj # NULL /\ g_pObj \in Live BY <1>1, <3>1 DEF HeadInv
      <3>3. pPrevious[g_pObj] = NULL /\ \A q \in Live : born[q] <= born[g_pObj] BY <3>2 DEF HeadInv
      <3>4. g_pObj # o BY <1>1, <1>2, <1>5, <2>2, <3>1, <3>3
      <3>5. g_pObj # n BY <1>2, <1>5, <3>2, <3>3
      <3>6. g_pObj \in Live' /\ pPrevious'[g_pObj] = NULL BY <1>1, <1>4, <3>2, <3>3, <3>4, <3>5
      <3> QED BY <1>1, <3>1, <3>2, <3>3, <3>6 DEF HeadInv
    <2> QED BY <2>1, <2>2
  <1>7. ASSUME NEW x \in Live'
        PROVE  /\ pNext'[x] = NULL => \A q \in Live' : born'[x] <= born'[q]
               /\ pNext'[x] # NULL =>
                    pNext'[x] \in Live' /\ pPrevious'[pNext'[x]] = x /\ Follows(pNext[x], x)'
               /\ pPrevious'[x] = NULL => x = g_pObj'
               /\ pPrevious'[x] # NULL => pPrevious'[x] \in Live' /\ pNext'[pPrevious'[x]] = x
    <2>1. /\ x # o /\ x \in Live /\ x # NULL
          /\ pNext[x] = NULL => \A q \in Live : born[x] <= born[q]
          /\ pNext[x] # NULL => pNext[x] \in Live /\ pPrevious[pNext[x]] = x /\ Follows(pNext[x], x)
          /\ pPrevious[x] = NULL => x = g_pObj
          /\ pPrevious[x] # NULL => pPrevious[x] \in Live /\ pNext[pPrevious[x]] = x
      BY <1>1, <1>2 DEF LinksInv
    <2> DEFINE y == pNext'[x]
    <2>2. /\ y = NULL => \A q \in Live' : born[x] <= born[q]
          /\ y # NULL => /\ y \in Live' /\ pPrevious'[y] = x /\ born[y] < born[x]
                         /\ \A q \in Live' : born[q] < born[x] => born[q] <= born[y]
      <3>1. CASE x = m
        <4>1. y = n BY <1>4, <3>1
        <4>2. m # NULL /\ born[o] < born[m] /\ \A q \in Live : born[q] < born[m] => born[q] <= born[o]
          BY <1>5, <2>1, <3>1
        <4>3. ASSUME n = NULL, NEW q \in Live' PROVE born[m] <= born[q]
          <5>1. q \in Live /\ q # o /\ born[o] <= born[q] BY <1>1, <1>5, <4>3
          <5> QED BY <1>2, <2>1, <3>1, <4>2, <5>1
        <4>4. ASSUME n # NULL
              PROVE  /\ n \in Live' /\ pPrevious'[n] = m /\ born[n] < born[m]
                     /\ \A q \in Live' : born[q] < born[m] => born[q] <= born[n]
          <5>1. n \in Live' /\ n \in Live /\ pPrevious'[n] = m /\ born[n] < born[o]
            BY <1>1, <1>4, <1>5, <4>4
          <5>2. born[n] < born[m] BY <1>2, <2>1, <3>1, <4>2, <5>1
          <5>3. ASSUME NEW q \in Live', born[q] < born[m] PROVE born[q] <= born[n]
            <6>1. q \in Live /\ q # o /\ born[q] <= born[o] BY <1>1, <4>2, <5>3
            <6>2. born[q] # born[o] BY <1>2, <6>1
            <6>3. born[q] < born[o] BY <1>2, <6>1, <6>2
            <6> QED BY <1>5, <4>4, <6>1, <6>3
          <5> QED BY <5>1, <5>2, <5>3
        <4> HIDE DEF y
        <4> QED BY <3>1, <4>1, <4>3, <4>4
      <3>2. CASE x # m
        <4>1. y = pNext[x] BY <1>4, <3>2
        <4> HIDE DEF y
        <4>2. ASSUME y # NULL
              PROVE  /\ y \in Live' /\ pPrevious'[y] = x /\ born[y] < born[x]
                     /\ \A q \in Live' : born[q] < born[x] => born[q] <= born[y]
          <5>1. y \in Live /\ pPrevious[y] = x /\ Follows(y, x) BY <2>1, <4>1, <4>2
          <5>2. y # o BY <3>2, <5>1 DEF m
          <5>3. y # n BY <1>5, <2>1, <4>2, <5>1
          <5> QED BY <1>1, <1>4, <5>1, <5>2, <5>3 DEF Follows
        <4> QED BY <1>1, <2>1, <4>1, <4>2
      <3> QED BY <3>1, <3>2
    <2>3. y # NULL => Follows(pNext[x], x)'
      <3>1. (pNext[x])' = y OBVIOUS
      <3> HIDE DEF y
      <3> QED BY <1>1, <2>2, <3>1 DEF Follows
    <2>4. /\ pPrevious'[x] = NULL => x = g_pObj'
          /\ pPrevious'[x] # NULL => pPrevious'[x] \in Live' /\ pNext'[pPrevious'[x]] = x
      <3>1. CASE x = n
        <4>1. pPrevious'[x] = m BY <1>4, <3>1
        <4>2. m = NULL => x = g_pObj' BY <1>4, <3>1
        <4>3. m # NULL => m \in Live' /\ pNext'[m] = x BY <1>4, <1>5, <3>1
        <4> QED BY <4>1, <4>2, <4>3
      <3>2. CASE x # n
        <4>1. pPrevious'[x] = pPrevious[x] BY <1>4, <3>2
        <4>2. pPrevious[x] = NULL => x = g_pObj' BY <1>4, <1>5, <2>1
        <4>3. ASSUME pPrevious[x] # NULL
              PROVE  pPrevious[x] \in Live' /\ pNext'[pPrevious[x]] = x
          <5>1. pPrevious[x] \in Live /\ pNext[pPrevious[x]] = x BY <2>1, <4>3
          <5>2. pPrevious[x] # o BY <3>2, <5>1 DEF n
          <5>3. pPrevious[x] # m BY <1>5, <2>1, <4>3, <5>1
          <5> QED BY <1>1, <1>4, <5>1, <5>2, <5>3
        <4> QED BY <4>1, <4>2, <4>3
      <3> QED BY <3>1, <3>2
    <2>5. pNext'[x] = NULL => \A q \in Live' : born'[x] <= born'[q] BY <1>1, <2>2
    <2> QED BY <2>2, <2>3, <2>4, <2>5
  <1>8. LinksInv' BY <1>7 DEF LinksInv
  <1> QED BY <1>1, <1>3, <1>6, <1>8 DEF ChainInv

-----------------------------------------------------------------------------
(***************************************************************************)
(* What is held                                                            *)
(***************************************************************************)
Standing(c) == {o \in Live : pDispatch[o] = c}

LEMMA StandingFinite ==
  ASSUME NEW c
  PROVE  IsFiniteSet(Standing(c)) /\ Cardinality(Standing(c)) \in Nat
  <1>1. Standing(c) \subseteq Objects BY DEF Standing, Live
  <1>2. IsFiniteSet(Standing(c)) BY <1>1, FiniteAssumption, FS_Subset
  <1> QED BY <1>2, FS_CardinalityType

LEMMA HeldCreated ==
  ASSUME TypeInv, HeldCovers, NEW c \in Coms, NEW o \in Objects, memory[o] = "unused",
         memory' = [memory EXCEPT ![o] = "live"],
         pDispatch' = [pDispatch EXCEPT ![o] = c],
         CoCreateInstance(c)
  PROVE  HeldCovers' /\ held' \in [Coms -> 0 .. MaxHeld]
  <1>1. o \notin Live /\ Live' = Live \cup {o} BY DEF Live, TypeInv
  <1>2. held' \in [Coms -> 0 .. MaxHeld] /\ \A d \in Coms : held'[d] = IF d = c THEN held[d] + 1 ELSE held[d]
    BY BoundAssumption DEF CoCreateInstance, TypeInv
  <1>3. ASSUME NEW d \in Coms PROVE held'[d] >= Cardinality(Standing(d)')
    <2>1. IsFiniteSet(Standing(d)) /\ Cardinality(Standing(d)) \in Nat BY StandingFinite
    <2>2. held[d] >= Cardinality(Standing(d)) /\ held[d] \in Nat
      BY DEF HeldCovers, Standing, TypeInv
    <2>3. CASE d = c
      <3>1. Standing(d)' = Standing(d) \cup {o} /\ o \notin Standing(d)
        BY <1>1, <2>3 DEF Standing, TypeInv, Live
      <3>2. Cardinality(Standing(d)') = Cardinality(Standing(d)) + 1 BY <2>1, <3>1, FS_AddElement
      <3> QED BY <1>2, <2>1, <2>2, <2>3, <3>2
    <2>4. CASE d # c
      <3>1. Standing(d)' = Standing(d) BY <1>1, <2>4 DEF Standing, TypeInv, Live
      <3> QED BY <1>2, <2>2, <2>4, <3>1
    <2> QED BY <2>3, <2>4
  <1> QED BY <1>2, <1>3 DEF HeldCovers, Standing

LEMMA HeldReleased ==
  ASSUME TypeInv, HeldCovers, NEW o \in Live, ReleaseInterfaces(o), memory' = memory
  PROVE  HeldCovers' /\ held' \in [Coms -> 0 .. MaxHeld]
  <1> DEFINE c == pDispatch[o]
  <1>1. Live' = Live /\ o \in Objects BY DEF Live
  <1>2. \A p \in Objects : pDispatch'[p] = IF p = o THEN NULL ELSE pDispatch[p]
    BY DEF ReleaseInterfaces, TypeInv
  <1>3. held' = [d \in Coms |-> IF d = c THEN held[d] - 1 ELSE held[d]] BY DEF ReleaseInterfaces
  <1>4. ASSUME NEW d \in Coms
        PROVE  held'[d] >= Cardinality(Standing(d)') /\ held'[d] \in 0 .. MaxHeld
    <2>1. IsFiniteSet(Standing(d)) /\ Cardinality(Standing(d)) \in Nat BY StandingFinite
    <2>2. held[d] >= Cardinality(Standing(d)) /\ held[d] \in 0 .. MaxHeld
      BY DEF HeldCovers, Standing, TypeInv
    <2>3. CASE d = c
      <3>1. Standing(d)' = Standing(d) \ {o} /\ o \in Standing(d)
        <4>1. o \in Standing(d) BY <2>3 DEF Standing
        <4>2. Standing(d)' = Standing(d) \ {o}
          BY <1>1, <1>2, <2>3, NullAssumption DEF Standing, Live
        <4> QED BY <4>1, <4>2
      <3>2. Cardinality(Standing(d) \ {o}) = Cardinality(Standing(d)) - 1
        BY <2>1, <3>1, FS_RemoveElement
      <3>3. Cardinality(Standing(d) \ {o}) \in Nat
        BY <2>1, FS_RemoveElement, FS_CardinalityType
      <3>4. held'[d] = held[d] - 1 BY <1>3, <2>3
      <3> QED BY <2>1, <2>2, <3>1, <3>2, <3>3, <3>4, BoundAssumption
    <2>4. CASE d # c
      <3>1. Standing(d)' = Standing(d)
        BY <1>1, <1>2, <2>4, NullAssumption DEF Standing, Live
      <3>2. held'[d] = held[d] BY <1>3, <2>4
      <3> QED BY <2>2, <3>1, <3>2
    <2> QED BY <2>3, <2>4
  <1>5. held' \in [Coms -> 0 .. MaxHeld] BY <1>3, <1>4
  <1> QED BY <1>4, <1>5 DEF HeldCovers, Standing

LEMMA HeldKept ==
  ASSUME HeldCovers, UNCHANGED <<held, pDispatch>>,
         \A o \in Live' : o \in Live,
         \A o \in Live : pDispatch[o] # NULL => o \in Live'
  PROVE  HeldCovers'
  <1>1. ASSUME NEW d \in Coms PROVE Standing(d)' = Standing(d)
    BY NullAssumption DEF Standing
  <1> QED BY <1>1 DEF HeldCovers, Standing

-----------------------------------------------------------------------------
(***************************************************************************)
(* Frames                                                                  *)
(***************************************************************************)
LEMMA FrameIs ==
  ASSUME NEW op \in Operations, NEW o \in Objects \cup {NULL}, NEW at \in Places,
         NEW kept \in SUBSET Objects, NEW start \in SUBSET Objects
  PROVE  /\ Frame(op, o, at, kept, start) \in Frames
         /\ Frame(op, o, at, kept, start).op = op
         /\ Frame(op, o, at, kept, start).obj = o
         /\ Frame(op, o, at, kept, start).at = at
         /\ Frame(op, o, at, kept, start).kept = kept
         /\ Frame(op, o, at, kept, start).start = start
  BY DEF Frame, Frames

LEMMA Fields ==
  ASSUME NEW f \in Frames
  PROVE  /\ f.op \in Operations /\ f.obj \in Objects \cup {NULL} /\ f.at \in Places
         /\ f.kept \in SUBSET Objects /\ f.start \in SUBSET Objects
  BY DEF Frames

LEMMA Changed ==
  ASSUME NEW f \in Frames, NEW o \in Objects \cup {NULL}, NEW at \in Places, NEW kept \in SUBSET Objects
  PROVE  /\ [f EXCEPT !.at = at] = Frame(f.op, f.obj, at, f.kept, f.start)
         /\ [f EXCEPT !.kept = kept] = Frame(f.op, f.obj, f.at, kept, f.start)
         /\ [f EXCEPT !.at = at, !.kept = kept] = Frame(f.op, f.obj, at, kept, f.start)
         /\ [f EXCEPT !.obj = o, !.at = at] = Frame(f.op, o, at, f.kept, f.start)
  <1>1. [f EXCEPT !.at = at] = Frame(f.op, f.obj, at, f.kept, f.start) BY DEF Frame, Frames
  <1>2. [f EXCEPT !.kept = kept] = Frame(f.op, f.obj, f.at, kept, f.start) BY DEF Frame, Frames
  <1>3. [f EXCEPT !.at = at, !.kept = kept] = Frame(f.op, f.obj, at, kept, f.start)
    <2> DEFINE g == [f EXCEPT !.at = at, !.kept = kept]
    <2>1. g \in Frames BY DEF Frames
    <2>2. g.op = f.op /\ g.obj = f.obj /\ g.at = at /\ g.kept = kept /\ g.start = f.start
      BY DEF Frames
    <2> HIDE DEF g
    <2>3. g = Frame(g.op, g.obj, g.at, g.kept, g.start) BY <2>1 DEF Frame, Frames
    <2> QED BY <2>2, <2>3 DEF g
  <1>4. [f EXCEPT !.obj = o, !.at = at] = Frame(f.op, o, at, f.kept, f.start)
    <2> DEFINE g == [f EXCEPT !.obj = o, !.at = at]
    <2>1. g \in Frames BY DEF Frames
    <2>2. g.op = f.op /\ g.obj = o /\ g.at = at /\ g.kept = f.kept /\ g.start = f.start
      BY DEF Frames
    <2> HIDE DEF g
    <2>3. g = Frame(g.op, g.obj, g.at, g.kept, g.start) BY <2>1 DEF Frame, Frames
    <2> QED BY <2>2, <2>3 DEF g
  <1> QED BY <1>1, <1>2, <1>3, <1>4

\* What is known of the top frame.
LEMMA TopIs ==
  ASSUME StackInv, stack # <<>>
  PROVE  /\ stack \in Seq(Frames)
         /\ Depth \in Nat \ {0} /\ Depth <= MaxDepth
         /\ Top \in Frames /\ Shaped(Top) /\ Holds(Top, Live, Used, pDispatch, born)
         /\ Top.op = "Tie" => Under(stack) = <<>>
         /\ Top.op \in Operations /\ Top.obj \in Objects \cup {NULL} /\ Top.at \in Places
         /\ Top.kept \in SUBSET Objects /\ Top.start \in SUBSET Objects
         /\ Top.kept \subseteq Live
  <1>1. /\ Len(stack) \in 1 .. Len(stack)
        /\ stack[Len(stack)] \in Frames
        /\ Shaped(stack[Len(stack)])
        /\ Holds(stack[Len(stack)], Live, Used, pDispatch, born)
        /\ stack[Len(stack)].op = "Tie" => Under(stack) = <<>>
    BY TopStacked DEF StackInv
  <1>2. stack \in Seq(Frames) /\ Len(stack) <= MaxDepth /\ Len(stack) \in Nat \ {0}
    BY PopIs DEF StackInv, Stacked
  <1>3. Top = stack[Len(stack)] BY DEF Top, Depth
  <1>4. Top.kept \subseteq Live BY <1>1, <1>3 DEF Holds
  <1> QED BY <1>1, <1>2, <1>3, <1>4, Fields DEF Depth

LEMMA TopTypes ==
  ASSUME StackInv, stack # <<>>
  PROVE  /\ Top \in Frames
         /\ Top.op \in Operations /\ Top.obj \in Objects \cup {NULL} /\ Top.at \in Places
         /\ Top.kept \in SUBSET Objects /\ Top.start \in SUBSET Objects
  BY TopIs

LEMMA KeptUnder ==
  ASSUME StackInv, stack # <<>>, NEW o
  PROVE  KeptBelow(o, Depth - 1) <=> InStack(Under(stack), o)
  <1>1. stack \in Seq(Frames) BY DEF StackInv, Stacked
  <1> DEFINE t == Under(stack)
  <1>2. Len(t) = Len(stack) - 1 /\ \A i \in 1 .. Len(stack) - 1 : t[i] = stack[i]
    BY <1>1, PopIs
  <1> HIDE DEF t
  <1>3. KeptBelow(o, Depth - 1) <=> InStack(t, o) BY <1>2 DEF KeptBelow, InStack, Depth
  <1> QED BY <1>3 DEF t

-----------------------------------------------------------------------------
(***************************************************************************)
(* Steps                                                                   *)
(***************************************************************************)

\* Only the stack, the references and the flags of PERINTERP change.
LEMMA SameObjects ==
  ASSUME IInv, UNCHANGED <<chainVars, comVars, flags, destroy>>,
         refs' \in [Objects -> 0 .. MaxRefs],
         \A o \in Objects : refs'[o] > 0 => o \in Live,
         g_bInitialized' \in BOOLEAN, exiting' \in BOOLEAN,
         Stacked(stack', Live, Used, pDispatch, born),
         \A o \in Live : (refs[o] > 0 \/ InStack(stack, o)) => (refs'[o] > 0 \/ InStack(stack', o))
  PROVE  IInv'
  <1>1. Live' = Live /\ Used' = Used BY DEF Live, Used, chainVars
  <1>2. TypeInv' BY DEF IInv, TypeInv, chainVars, comVars
  <1>3. ChainInv'
    <2>1. BornInv' BY <1>1 DEF IInv, ChainInv, BornInv, chainVars
    <2>2. HeadInv' BY <1>1 DEF IInv, ChainInv, HeadInv, chainVars
    <2>3. LinksInv' BY <1>1 DEF IInv, ChainInv, LinksInv, Follows, chainVars
    <2> QED BY <2>1, <2>2, <2>3 DEF ChainInv
  <1>4. ObjectInv' BY <1>1 DEF IInv, ObjectInv, comVars
  <1>5. HeldCovers' BY <1>1, HeldKept DEF IInv, comVars
  <1>6. StackInv' BY <1>1 DEF StackInv, chainVars, comVars
  <1>7. UniqueInv' BY <1>1 DEF IInv, UniqueInv, comVars
  <1> QED BY <1>2, <1>3, <1>4, <1>5, <1>6, <1>7 DEF IInv

LEMMA PushStep ==
  ASSUME IInv, UNCHANGED <<chainVars, comVars, flags, destroy, refs>>,
         g_bInitialized' \in BOOLEAN, exiting' \in BOOLEAN,
         NEW f \in Frames, Shaped(f), Holds(f, Live, Used, pDispatch, born),
         Push(f), stack # <<>> => Waiting(Top), f.op = "Tie" => stack = <<>>
  PROVE  IInv'
  <1>1. stack \in Seq(Frames) /\ StackInv BY DEF IInv, StackInv, Stacked
  <1>2. stack' = Append(stack, f) /\ Len(stack) < MaxDepth /\ (stack # <<>> => Waiting(stack[Len(stack)]))
    BY DEF Push, Depth, Top
  <1>3. Stacked(stack', Live, Used, pDispatch, born)
    BY <1>1, <1>2, PushStacked DEF StackInv
  <1>4. \A o : InStack(stack, o) => InStack(stack', o) BY <1>1, <1>2, PushKept
  <1>5. refs' = refs /\ refs \in [Objects -> 0 .. MaxRefs] /\ \A o \in Objects : refs[o] > 0 => o \in Live
    BY DEF IInv, TypeInv, ObjectInv
  <1> QED BY <1>3, <1>4, <1>5, SameObjects

LEMMA BecomeStep ==
  ASSUME IInv, UNCHANGED <<chainVars, comVars, flags, destroy, refs>>,
         g_bInitialized' \in BOOLEAN, exiting' \in BOOLEAN,
         stack # <<>>,
         NEW f \in Frames, Shaped(f), Holds(f, Live, Used, pDispatch, born),
         Become(f), f.op = Top.op, Top.kept \subseteq f.kept
  PROVE  IInv'
  <1>1. stack \in Seq(Frames) /\ StackInv BY DEF IInv, StackInv, Stacked
  <1>2. stack' = Replaced(stack, f) BY DEF Become, Depth, Replaced
  <1>3. Stacked(stack', Live, Used, pDispatch, born)
    BY <1>1, <1>2, BecomeStacked DEF StackInv, Top, Depth
  <1>4. \A o : InStack(stack, o) => InStack(stack', o)
    <2>1. \A o : InStack(stack, o) <=> InStack(Under(stack), o) \/ o \in Top.kept
      BY <1>1, TopKept DEF Top, Depth
    <2>2. \A o : InStack(stack', o) <=> InStack(Under(stack), o) \/ o \in f.kept
      BY <1>1, <1>2, BecomeKept
    <2> QED BY <2>1, <2>2
  <1>5. refs' = refs /\ refs \in [Objects -> 0 .. MaxRefs] /\ \A o \in Objects : refs[o] > 0 => o \in Live
    BY DEF IInv, TypeInv, ObjectInv
  <1> QED BY <1>3, <1>4, <1>5, SameObjects

LEMMA PopStep ==
  ASSUME IInv, UNCHANGED <<chainVars, comVars, flags, destroy, refs>>,
         g_bInitialized' \in BOOLEAN, exiting' \in BOOLEAN,
         stack # <<>>, Pop, Top.kept = {}
  PROVE  IInv'
  <1>1. stack \in Seq(Frames) /\ StackInv BY DEF IInv, StackInv, Stacked
  <1>2. stack' = Under(stack) BY DEF Pop, Depth, Under
  <1>3. Stacked(stack', Live, Used, pDispatch, born) BY <1>1, <1>2, PopStacked DEF StackInv
  <1>4. \A o : InStack(stack, o) => InStack(stack', o)
    BY <1>1, <1>2, TopKept DEF Top, Depth
  <1>5. refs' = refs /\ refs \in [Objects -> 0 .. MaxRefs] /\ \A o \in Objects : refs[o] > 0 => o \in Live
    BY DEF IInv, TypeInv, ObjectInv
  <1> QED BY <1>3, <1>4, <1>5, SameObjects

LEMMA DestroyingIs ==
  ASSUME NEW o \in Live
  PROVE  /\ Destroying(o) \in Frames /\ Shaped(Destroying(o))
         /\ Holds(Destroying(o), Live, Used, pDispatch, born)
         /\ Destroying(o).kept = {o} /\ Destroying(o).op = "DESTROY"
  <1>1. o \in Objects /\ {o} \in SUBSET Objects BY DEF Live
  <1>2. "DESTROY" \in Operations /\ "release" \in Places BY DEF Operations, Places
  <1> DEFINE f == Frame("DESTROY", o, "release", {o}, {})
  <1>3. f \in Frames /\ f.op = "DESTROY" /\ f.obj = o /\ f.at = "release" /\ f.kept = {o} /\ f.start = {}
    BY <1>1, <1>2, FrameIs
  <1> HIDE DEF f
  <1>4. Shaped(f) /\ Holds(f, Live, Used, pDispatch, born)
    BY <1>1, <1>3 DEF Shaped, Holds
  <1> QED BY <1>3, <1>4 DEF f, Destroying

LEMMA LetGoStep ==
  ASSUME IInv, UNCHANGED <<chainVars, comVars, flags, destroy, refs>>,
         g_bInitialized' \in BOOLEAN, exiting' \in BOOLEAN,
         stack # <<>>,
         NEW f \in Frames, Shaped(f), Holds(f, Live, Used, pDispatch, born), Waiting(f),
         NEW o, LetGo(f, o), f.op = Top.op, Top.kept \ {o} \subseteq f.kept
  PROVE  IInv'
  <1>1. stack \in Seq(Frames) /\ StackInv BY DEF IInv, StackInv, Stacked
  <1> DEFINE back == Replaced(stack, f)
             gone == refs[o] = 0 /\ o \in Live /\ ~KeptBelow(o, Depth - 1)
  <1>2. /\ gone => Len(stack) < MaxDepth
        /\ stack' = IF gone THEN Append(back, Destroying(o)) ELSE back
    BY DEF LetGo, Depth, Replaced
  <1>3. Stacked(back, Live, Used, pDispatch, born)
    BY <1>1, BecomeStacked DEF StackInv, Top, Depth
  <1>4. /\ Len(stack) \in Nat \ {0} /\ back \in Seq(Frames) /\ back # <<>> /\ Len(back) = Len(stack)
        /\ back[Len(back)] = f
    <2>1. Len(stack) \in Nat \ {0} BY <1>1, PopIs
    <2>2. /\ back \in Seq(Frames) /\ back # <<>> /\ Len(back) = Len(stack)
          /\ \A i \in 1 .. Len(stack) : back[i] = IF i = Len(stack) THEN f ELSE stack[i]
      BY <1>1, BecomeIs
    <2> HIDE DEF back
    <2> QED BY <2>1, <2>2
  <1>5. \A x : InStack(stack, x) <=> InStack(Under(stack), x) \/ x \in Top.kept
    BY <1>1, TopKept DEF Top, Depth
  <1>6. \A x : InStack(back, x) <=> InStack(Under(stack), x) \/ x \in f.kept
    BY <1>1, BecomeKept
  <1>7. KeptBelow(o, Depth - 1) <=> InStack(Under(stack), o) BY <1>1, KeptUnder
  <1>8. refs' = refs /\ refs \in [Objects -> 0 .. MaxRefs] /\ \A x \in Objects : refs[x] > 0 => x \in Live
    BY DEF IInv, TypeInv, ObjectInv
  <1> HIDE DEF back
  <1>9. CASE gone
    <2> DEFINE d == Destroying(o)
    <2>1. d \in Frames /\ Shaped(d) /\ Holds(d, Live, Used, pDispatch, born) /\ d.kept = {o}
          /\ d.op # "Tie"
      BY <1>9, DestroyingIs
    <2>2. stack' = Append(back, d) /\ Len(back) < MaxDepth BY <1>2, <1>4, <1>9
    <2> HIDE DEF d
    <2>3. Stacked(stack', Live, Used, pDispatch, born) BY <1>3, <1>4, <2>1, <2>2, PushStacked
    <2>4. \A x : InStack(stack', x) <=> InStack(back, x) \/ x = o BY <1>4, <2>1, <2>2, PushKept
    <2>5. \A x : InStack(stack, x) => InStack(stack', x) BY <1>5, <1>6, <2>4
    <2> QED BY <1>8, <2>3, <2>5, SameObjects
  <1>10. CASE ~gone
    <2>1. stack' = back BY <1>2, <1>10
    <2>2. Stacked(stack', Live, Used, pDispatch, born) BY <1>3, <2>1
    <2>3. ASSUME NEW x \in Live, refs[x] > 0 \/ InStack(stack, x)
          PROVE  refs'[x] > 0 \/ InStack(stack', x)
      <3>1. refs[x] \in Nat BY <1>8 DEF Live
      <3>2. CASE x = o
        <4>1. refs[o] > 0 \/ InStack(Under(stack), o) BY <1>7, <1>10, <3>1, <3>2
        <4> QED BY <1>6, <1>8, <2>1, <3>2, <4>1
      <3>3. CASE x # o BY <1>5, <1>6, <1>8, <2>1, <2>3, <3>3
      <3> QED BY <3>2, <3>3
    <2> QED BY <1>8, <2>2, <2>3, SameObjects
  <1> QED BY <1>9, <1>10

\* The interfaces of o are released, and its frame goes on.
LEMMA ReleaseStep ==
  ASSUME IInv, NEW o \in Live, ReleaseInterfaces(o),
         UNCHANGED <<chainVars, g_bInitialized, flags, refs, exiting>>,
         destroy' \in [Objects -> BOOLEAN],
         stack # <<>>, Top.obj = o, Top.op # "Enum", Top.at # "unwind", Step("released")
  PROVE  IInv'
  <1>1. stack \in Seq(Frames) /\ StackInv /\ TypeInv /\ ObjectInv /\ UniqueInv /\ HeldCovers /\ ChainInv
    BY DEF IInv, StackInv, Stacked
  <1>2. Live' = Live /\ Used' = Used /\ o \in Objects BY DEF Live, Used, chainVars
  <1>3. /\ pDispatch' \in [Objects -> Coms \cup {NULL}]
        /\ \A p \in Objects : pDispatch'[p] = IF p = o THEN NULL ELSE pDispatch[p]
        /\ g_hv_unique' \in [Coms -> Objects \cup {NULL}]
        /\ \A d \in Coms : g_hv_unique'[d] =
             IF d = pDispatch[o] /\ "UNIQUE" \in flags[o] THEN NULL ELSE g_hv_unique[d]
    BY <1>1, <1>2 DEF ReleaseInterfaces, TypeInv
  <1>4. HeldCovers' /\ held' \in [Coms -> 0 .. MaxHeld] BY <1>1, HeldReleased DEF chainVars
  <1>5. TypeInv' BY <1>1, <1>3, <1>4 DEF TypeInv, chainVars
  <1>6. ChainInv'
    <2>1. BornInv' BY <1>1, <1>2 DEF ChainInv, BornInv, chainVars
    <2>2. HeadInv' BY <1>1, <1>2 DEF ChainInv, HeadInv, chainVars
    <2>3. LinksInv' BY <1>1, <1>2 DEF ChainInv, LinksInv, Follows, chainVars
    <2> QED BY <2>1, <2>2, <2>3 DEF ChainInv
  <1>7. ObjectInv' BY <1>1, <1>2, <1>3 DEF ObjectInv
  <1>8. born' = born BY DEF chainVars
  <1>9. Stacked(stack, Live', Used', pDispatch', born')
    <2>1. \A p \in Live : pDispatch'[p] \in {pDispatch[p], NULL} BY <1>3 DEF Live
    <2> QED BY <1>1, <1>2, <1>8, <2>1, GrowStacked DEF StackInv
  <1> DEFINE f == Frame(Top.op, o, "released", Top.kept, Top.start)
  <1>10. /\ Top \in Frames /\ Shaped(Top) /\ Holds(Top, Live, Used, pDispatch, born)
         /\ Top.op \in Operations /\ Top.kept \in SUBSET Objects /\ Top.start \in SUBSET Objects
    BY <1>1, TopIs
  <1>11. "released" \in Places BY DEF Places
  <1>12. /\ f \in Frames /\ f.op = Top.op /\ f.obj = o /\ f.at = "released"
         /\ f.kept = Top.kept /\ f.start = Top.start
    BY <1>2, <1>10, <1>11, FrameIs
  <1>13. stack' = Replaced(stack, f)
    <2>1. [Top EXCEPT !.at = "released"] = f BY <1>10, <1>11, Changed
    <2> HIDE DEF f
    <2> QED BY <2>1 DEF Step, Become, Replaced, Depth
  <1> HIDE DEF f
  <1>14. Shaped(f) BY <1>2, <1>10, <1>12 DEF Shaped
  <1>15. Holds(f, Live', Used', pDispatch', born')
    <2>1. Holds(Top, Live', Used', pDispatch', born')
      BY <1>9, TopStacked DEF Top, Depth
    <2>2. f.op = "Uninitialize" => Walked(f, Live', Used', pDispatch', born')
      BY <1>12, <2>1 DEF Holds, Walked
    <2>3. f.kept \subseteq Live' BY <1>12, <2>1 DEF Holds
    <2>4. f.obj \in Live' /\ pDispatch'[f.obj] = NULL BY <1>2, <1>3, <1>12
    <2> QED BY <2>2, <2>3, <2>4 DEF Holds
  <1>16. StackInv'
    <2>1. Stacked(stack', Live', Used', pDispatch', born')
      BY <1>9, <1>12, <1>13, <1>14, <1>15, BecomeStacked DEF Top, Depth
    <2> QED BY <2>1 DEF StackInv
  <1>17. \A x : InStack(stack, x) => InStack(stack', x)
    <2>1. \A x : InStack(stack, x) <=> InStack(Under(stack), x) \/ x \in Top.kept
      BY <1>1, TopKept DEF Top, Depth
    <2>2. \A x : InStack(stack', x) <=> InStack(Under(stack), x) \/ x \in f.kept
      BY <1>1, <1>12, <1>13, BecomeKept
    <2> QED BY <1>12, <2>1, <2>2
  <1>18. UniqueInv'
    <2>1. ASSUME NEW c \in Coms, g_hv_unique'[c] # NULL
          PROVE  /\ g_hv_unique'[c] \in Live' /\ pDispatch'[g_hv_unique'[c]] = c
                 /\ "UNIQUE" \in flags'[g_hv_unique'[c]]
                 /\ refs'[g_hv_unique'[c]] > 0 \/ InStack(stack', g_hv_unique'[c])
      <3> DEFINE x == g_hv_unique'[c]
      <3>1. x = g_hv_unique[c] /\ ~(c = pDispatch[o] /\ "UNIQUE" \in flags[o])
        BY <1>3, <2>1
      <3>2. /\ x \in Live /\ pDispatch[x] = c /\ "UNIQUE" \in flags[x]
            /\ refs[x] > 0 \/ InStack(stack, x)
        BY <1>1, <2>1, <3>1 DEF UniqueInv
      <3> HIDE DEF x
      <3>3. x # o BY <3>1, <3>2
      <3>4. pDispatch'[x] = c BY <1>3, <3>2, <3>3 DEF Live
      <3>5. flags' = flags /\ refs' = refs OBVIOUS
      <3>6. refs'[x] > 0 \/ InStack(stack', x) BY <1>17, <3>2, <3>5
      <3>7. x \in Live' BY <1>2, <3>2
      <3>8. "UNIQUE" \in flags'[x] BY <3>2, <3>5
      <3> QED BY <3>4, <3>6, <3>7, <3>8 DEF x
    <2> QED BY <2>1 DEF UniqueInv
  <1> QED BY <1>4, <1>5, <1>6, <1>7, <1>16, <1>18 DEF IInv

\* An object without interfaces goes out of memory, with the frame that had it.
LEMMA FreeStep ==
  ASSUME IInv, NEW o \in Live, pDispatch[o] = NULL, Free(o),
         UNCHANGED <<comVars, g_bInitialized, destroy, exiting>>,
         stack # <<>>, Pop, ~InStack(Under(stack), o), Top.kept \subseteq {o}
  PROVE  IInv'
  <1>1. stack \in Seq(Frames) /\ StackInv /\ TypeInv /\ ObjectInv /\ UniqueInv /\ HeldCovers /\ ChainInv
    BY DEF IInv, StackInv, Stacked
  <1>2. ChainInv' /\ Live' = Live \ {o} /\ Used' = Used BY <1>1, FreedChain
  <1>3. o \in Objects /\ o # NULL BY NullAssumption DEF Live
  <1>4. /\ memory' \in [Objects -> {"unused", "live", "freed"}]
        /\ flags' \in [Objects -> SUBSET {"UNIQUE", "DESTROYED"}]
        /\ refs' \in [Objects -> 0 .. MaxRefs]
        /\ born' = born
        /\ \A p \in Objects : refs'[p] = IF p = o THEN 0 ELSE refs[p]
        /\ \A p \in Objects : flags'[p] = IF p = o THEN {} ELSE flags[p]
    <2>1. memory' \in [Objects -> {"unused", "live", "freed"}] /\ born' = born
      BY <1>1 DEF Free, TypeInv
    <2>2. flags' \in [Objects -> SUBSET {"UNIQUE", "DESTROYED"}]
      BY <1>1 DEF Free, TypeInv
    <2>3. refs' \in [Objects -> 0 .. MaxRefs]
      <3>1. refs' = [refs EXCEPT ![o] = 0] BY DEF Free
      <3>2. 0 \in 0 .. MaxRefs BY BoundAssumption
      <3> QED BY <1>1, <3>1, <3>2 DEF TypeInv
    <2>4. \A p \in Objects : refs'[p] = IF p = o THEN 0 ELSE refs[p]
      BY <1>1 DEF Free, TypeInv
    <2>5. \A p \in Objects : flags'[p] = IF p = o THEN {} ELSE flags[p]
      BY <1>1 DEF Free, TypeInv
    <2> QED BY <2>1, <2>2, <2>3, <2>4, <2>5
  <1>5. /\ pNext' \in [Objects -> Objects \cup {NULL}]
        /\ pPrevious' \in [Objects -> Objects \cup {NULL}]
        /\ g_pObj' \in Objects \cup {NULL}
    BY <1>1, <1>3 DEF Free, RemoveFromObjectChain, TypeInv
  <1>6. TypeInv' BY <1>1, <1>4, <1>5 DEF TypeInv, comVars
  <1>7. ObjectInv'
    <2>1. \A p \in Objects : refs'[p] > 0 => p \in Live' BY <1>1, <1>2, <1>4 DEF ObjectInv
    <2>2. \A p \in Objects : pDispatch'[p] # NULL => p \in Live'
      BY <1>1, <1>2 DEF ObjectInv, comVars
    <2>3. \A p \in Objects : "DESTROYED" \in flags'[p] => pDispatch'[p] = NULL
      BY <1>1, <1>4 DEF ObjectInv, comVars
    <2> QED BY <2>1, <2>2, <2>3 DEF ObjectInv
  <1>8. HeldCovers' BY <1>1, <1>2, HeldKept DEF comVars
  <1>9. stack' = Under(stack) BY DEF Pop, Depth, Under
  <1>10. StackInv'
    <2>1. Stacked(stack', Live, Used, pDispatch, born) /\ \A i \in 1 .. Len(stack') : Waiting(stack'[i])
      BY <1>1, <1>9, PopStacked DEF StackInv
    <2>2. Stacked(stack', Live \ {o}, Used, pDispatch, born) BY <1>9, <2>1, FreeStacked
    <2> QED BY <1>2, <1>4, <2>2 DEF StackInv, comVars
  <1>11. \A x : x # o /\ InStack(stack, x) => InStack(stack', x)
    BY <1>1, <1>9, TopKept DEF Top, Depth
  <1>12. UniqueInv'
    <2>1. ASSUME NEW c \in Coms, g_hv_unique[c] # NULL
          PROVE  /\ g_hv_unique[c] \in Live' /\ pDispatch[g_hv_unique[c]] = c
                 /\ "UNIQUE" \in flags'[g_hv_unique[c]]
                 /\ refs'[g_hv_unique[c]] > 0 \/ InStack(stack', g_hv_unique[c])
      <3> DEFINE x == g_hv_unique[c]
      <3>1. /\ x \in Live /\ pDispatch[x] = c /\ "UNIQUE" \in flags[x]
            /\ refs[x] > 0 \/ InStack(stack, x)
        BY <1>1, <2>1 DEF UniqueInv
      <3> HIDE DEF x
      <3>2. x # o BY <3>1, NullAssumption
      <3>3. x \in Objects BY <3>1 DEF Live
      <3>4. flags'[x] = flags[x] /\ refs'[x] = refs[x] BY <1>4, <3>2, <3>3
      <3>5. x \in Live' BY <1>2, <3>1, <3>2
      <3>6. refs'[x] > 0 \/ InStack(stack', x) BY <1>11, <3>1, <3>2, <3>4
      <3>7. "UNIQUE" \in flags'[x] BY <3>1, <3>4
      <3> QED BY <3>1, <3>5, <3>6, <3>7 DEF x
    <2>2. g_hv_unique' = g_hv_unique /\ pDispatch' = pDispatch BY DEF comVars
    <2> QED BY <2>1, <2>2 DEF UniqueInv
  <1> QED BY <1>2, <1>6, <1>7, <1>8, <1>10, <1>12 DEF IInv

\* The script gets an object, a new one or the one that stands for c.
LEMMA CreateStep ==
  ASSUME IInv, NEW c \in Coms, NEW unique \in BOOLEAN, NEW callback \in BOOLEAN,
         CoCreateInstance(c), CreatePerlObject(c, unique, callback),
         g_bInitialized' \in BOOLEAN, UNCHANGED <<stack, exiting>>
  PROVE  IInv'
  <1>1. stack \in Seq(Frames) /\ StackInv /\ TypeInv /\ ObjectInv /\ UniqueInv /\ HeldCovers /\ ChainInv
    BY DEF IInv, StackInv, Stacked
  <1>2. CASE unique /\ g_hv_unique[c] # NULL
    <2> DEFINE x == g_hv_unique[c]
    <2>1. /\ refs[x] < MaxRefs /\ refs' = [refs EXCEPT ![x] = refs[x] + 1]
          /\ UNCHANGED <<chainVars, pDispatch, g_hv_unique, destroy, flags>>
      BY <1>2 DEF CreatePerlObject
    <2>2. x \in Live /\ x \in Objects BY <1>1, <1>2 DEF UniqueInv, Live
    <2> HIDE DEF x
    <2>3. refs' \in [Objects -> 0 .. MaxRefs] /\ \A p \in Objects : refs'[p] >= refs[p] /\ (p # x => refs'[p] = refs[p])
      BY <1>1, <2>1, <2>2, BoundAssumption DEF TypeInv
    <2>4. held' \in [Coms -> 0 .. MaxHeld] /\ \A d \in Coms : held'[d] >= held[d]
      BY <1>1, BoundAssumption DEF CoCreateInstance, TypeInv
    <2>5. Live' = Live /\ Used' = Used BY <2>1 DEF Live, Used, chainVars
    <2>6. TypeInv' BY <1>1, <2>1, <2>3, <2>4 DEF TypeInv, chainVars
    <2>7. ChainInv'
      <3>1. BornInv' BY <1>1, <2>1, <2>5 DEF ChainInv, BornInv, chainVars
      <3>2. HeadInv' BY <1>1, <2>1, <2>5 DEF ChainInv, HeadInv, chainVars
      <3>3. LinksInv' BY <1>1, <2>1, <2>5 DEF ChainInv, LinksInv, Follows, chainVars
      <3> QED BY <3>1, <3>2, <3>3 DEF ChainInv
    <2>8. ObjectInv'
      <3>1. \A p \in Objects : refs'[p] > 0 => p \in Live BY <1>1, <2>2, <2>3 DEF ObjectInv
      <3> QED BY <1>1, <2>1, <2>5, <3>1 DEF ObjectInv
    <2>9. HeldCovers'
      <3>1. ASSUME NEW d \in Coms PROVE held'[d] >= Cardinality(Standing(d)')
        <4>1. Standing(d)' = Standing(d) BY <2>1, <2>5 DEF Standing
        <4>2. held[d] >= Cardinality(Standing(d)) /\ Cardinality(Standing(d)) \in Nat
          BY <1>1, StandingFinite DEF HeldCovers, Standing
        <4>3. held'[d] >= held[d] /\ held[d] \in Nat /\ held'[d] \in Nat
          BY <1>1, <2>4 DEF TypeInv
        <4> QED BY <4>1, <4>2, <4>3
      <3> QED BY <3>1 DEF HeldCovers, Standing
    <2>10. StackInv' BY <1>1, <2>1, <2>5 DEF StackInv, chainVars
    <2>11. UniqueInv'
      <3>1. \A d \in Coms : g_hv_unique[d] # NULL => refs'[g_hv_unique[d]] > 0 \/ InStack(stack, g_hv_unique[d])
        <4>1. ASSUME NEW d \in Coms, g_hv_unique[d] # NULL
              PROVE  refs'[g_hv_unique[d]] > 0 \/ InStack(stack, g_hv_unique[d])
          <5>1. /\ g_hv_unique[d] \in Objects
                /\ refs[g_hv_unique[d]] > 0 \/ InStack(stack, g_hv_unique[d])
            BY <1>1, <4>1 DEF UniqueInv, Live
          <5>2. \A p \in Objects : refs[p] \in Nat /\ refs'[p] \in Nat BY <1>1, <2>3 DEF TypeInv
          <5> QED BY <2>3, <5>1, <5>2
        <4> QED BY <4>1
      <3> QED BY <1>1, <2>1, <2>5, <3>1 DEF UniqueInv
    <2> QED BY <2>6, <2>7, <2>8, <2>9, <2>10, <2>11 DEF IInv
  <1>3. CASE ~(unique /\ g_hv_unique[c] # NULL)
    <2>1. PICK o \in Objects : Created(o, c, unique, callback)
      BY <1>3 DEF CreatePerlObject, Created
    <2>2. memory[o] = "unused" /\ memory' = [memory EXCEPT ![o] = "live"]
          /\ born' = [born EXCEPT ![o] = Cardinality({p \in Objects : memory[p] # "unused"}) + 1]
          /\ AddToObjectChain(o)
      BY <2>1 DEF Created
    <2>3. BornInv BY <1>1 DEF ChainInv
    <2>4. /\ Live' = Live \cup {o} /\ Used' = Used \cup {o} /\ o \notin Used
          /\ \A p \in Used : born'[p] = born[p]
          /\ born' \in [Objects -> Nat]
      BY <1>1, <2>2, <2>3, CreatedBorn
    <2>5. ChainInv' BY <1>1, <2>2, CreatedChain
    <2>6. /\ pDispatch' = [pDispatch EXCEPT ![o] = c]
          /\ destroy' = [destroy EXCEPT ![o] = callback]
          /\ flags' = [flags EXCEPT ![o] = IF unique THEN {"UNIQUE"} ELSE {}]
          /\ g_hv_unique' = IF unique THEN [g_hv_unique EXCEPT ![c] = o] ELSE g_hv_unique
          /\ refs' = [refs EXCEPT ![o] = 1]
      BY <2>1 DEF Created
    <2>7. HeldCovers' /\ held' \in [Coms -> 0 .. MaxHeld] BY <1>1, <2>2, <2>6, HeldCreated
    <2>8. /\ pNext' \in [Objects -> Objects \cup {NULL}]
          /\ pPrevious' \in [Objects -> Objects \cup {NULL}]
          /\ g_pObj' \in Objects \cup {NULL}
      BY <1>1, <2>2 DEF AddToObjectChain, TypeInv
    <2>9. /\ memory' \in [Objects -> {"unused", "live", "freed"}]
          /\ pDispatch' \in [Objects -> Coms \cup {NULL}]
          /\ destroy' \in [Objects -> BOOLEAN]
          /\ flags' \in [Objects -> SUBSET {"UNIQUE", "DESTROYED"}]
          /\ refs' \in [Objects -> 0 .. MaxRefs]
          /\ g_hv_unique' \in [Coms -> Objects \cup {NULL}]
      BY <1>1, <2>2, <2>6, BoundAssumption DEF TypeInv
    <2>10. TypeInv' BY <1>1, <2>4, <2>7, <2>8, <2>9 DEF TypeInv
    <2>11. o \notin Live /\ \A p \in Live : p \in Objects /\ p # o
      BY <2>4, LiveUsed DEF Live
    <2>12. /\ \A p \in Live : pDispatch'[p] = pDispatch[p] /\ flags'[p] = flags[p] /\ refs'[p] = refs[p]
           /\ pDispatch'[o] = c /\ flags'[o] = (IF unique THEN {"UNIQUE"} ELSE {}) /\ refs'[o] = 1
      BY <1>1, <2>6, <2>11 DEF TypeInv
    <2>13. ObjectInv'
      <3>1. ASSUME NEW p \in Objects
            PROVE  /\ refs'[p] > 0 => p \in Live'
                   /\ pDispatch'[p] # NULL => p \in Live'
                   /\ "DESTROYED" \in flags'[p] => pDispatch'[p] = NULL
        <4>1. CASE p = o BY <2>4, <2>12, <4>1
        <4>2. CASE p # o
          <5>1. refs'[p] = refs[p] /\ pDispatch'[p] = pDispatch[p] /\ flags'[p] = flags[p]
            BY <1>1, <2>6, <4>2 DEF TypeInv
          <5> QED BY <1>1, <2>4, <5>1 DEF ObjectInv
        <4> QED BY <4>1, <4>2
      <3> QED BY <3>1 DEF ObjectInv
    <2>14. StackInv'
      <3>1. \A p \in Live : pDispatch'[p] \in {pDispatch[p], NULL} BY <2>12
      <3>2. /\ Live \subseteq Live' /\ Used \subseteq Used' /\ Live' \cap Used \subseteq Live
            /\ \A p \in Used : born'[p] = born[p]
        BY <2>4
      <3>3. Stacked(stack, Live, Used, pDispatch, born) BY <1>1 DEF StackInv
      <3>4. Stacked(stack, Live', Used', pDispatch', born') BY <3>1, <3>2, <3>3, GrowStacked
      <3> QED BY <3>4 DEF StackInv
    <2>15. UniqueInv'
      <3>1. ASSUME NEW d \in Coms, g_hv_unique'[d] # NULL
            PROVE  /\ g_hv_unique'[d] \in Live' /\ pDispatch'[g_hv_unique'[d]] = d
                   /\ "UNIQUE" \in flags'[g_hv_unique'[d]]
                   /\ refs'[g_hv_unique'[d]] > 0 \/ InStack(stack', g_hv_unique'[d])
        <4>1. CASE unique /\ d = c
          <5>1. g_hv_unique'[d] = o BY <1>1, <2>6, <4>1 DEF TypeInv
          <5> QED BY <2>4, <2>12, <4>1, <5>1
        <4>2. CASE ~(unique /\ d = c)
          <5>1. g_hv_unique'[d] = g_hv_unique[d] BY <1>1, <2>6, <4>2 DEF TypeInv
          <5>2. /\ g_hv_unique[d] \in Live /\ pDispatch[g_hv_unique[d]] = d
                /\ "UNIQUE" \in flags[g_hv_unique[d]]
                /\ refs[g_hv_unique[d]] > 0 \/ InStack(stack, g_hv_unique[d])
            BY <1>1, <3>1, <5>1 DEF UniqueInv
          <5> QED BY <2>4, <2>12, <5>1, <5>2
        <4> QED BY <4>1, <4>2
      <3> QED BY <3>1 DEF UniqueInv
    <2> QED BY <2>5, <2>7, <2>10, <2>13, <2>14, <2>15 DEF IInv
  <1> QED BY <1>2, <1>3

-----------------------------------------------------------------------------
(***************************************************************************)
(* Every action keeps IInv                                                 *)
(***************************************************************************)
LEMMA InitIInv == Init => IInv
  <1> SUFFICES ASSUME Init PROVE IInv
    OBVIOUS
  <1> USE DEF Init
  <1>1. Live = {} /\ Used = {} BY DEF Live, Used
  <1>2. TypeInv
    <2>1. 0 \in 0 .. MaxRefs /\ 0 \in 0 .. MaxHeld BY BoundAssumption
    <2>2. refs \in [Objects -> 0 .. MaxRefs] /\ held \in [Coms -> 0 .. MaxHeld] BY <2>1
    <2>3. flags \in [Objects -> SUBSET {"UNIQUE", "DESTROYED"}] OBVIOUS
    <2> QED BY <2>2, <2>3 DEF TypeInv
  <1>3. ChainInv BY <1>1 DEF ChainInv, BornInv, HeadInv, LinksInv
  <1>4. ObjectInv BY DEF ObjectInv
  <1>5. HeldCovers
    <2>1. \A c \in Coms : {o \in Live : pDispatch[o] = c} = {} BY <1>1
    <2>2. Cardinality({}) = 0 BY FS_EmptySet
    <2>3. ASSUME NEW c \in Coms PROVE held[c] >= Cardinality({o \in Live : pDispatch[o] = c})
      <3>1. Cardinality({o \in Live : pDispatch[o] = c}) = 0 BY <2>1, <2>2
      <3>2. held[c] = 0 OBVIOUS
      <3> QED BY <3>1, <3>2
    <2> QED BY <2>3 DEF HeldCovers
  <1>6. StackInv
    <2>1. stack \in Seq(Frames) /\ Len(stack) = 0 BY EmptySeq
    <2> QED BY <2>1, BoundAssumption DEF StackInv, Stacked
  <1>7. UniqueInv BY DEF UniqueInv
  <1> QED BY <1>2, <1>3, <1>4, <1>5, <1>6, <1>7 DEF IInv

LEMMA NewStep ==
  ASSUME IInv, NEW c \in Coms, NEW u \in BOOLEAN, NEW d \in BOOLEAN, New(c, u, d) PROVE IInv'
  BY CreateStep DEF New, Initialize

LEMMA GetPropertyStep ==
  ASSUME IInv, NEW c \in Coms, NEW u \in BOOLEAN, GetProperty(c, u) PROVE IInv'
  <1>1. g_bInitialized' \in BOOLEAN BY DEF GetProperty, IInv, TypeInv
  <1>2. CoCreateInstance(c) /\ CreatePerlObject(c, u, FALSE) /\ UNCHANGED <<stack, exiting>>
    BY DEF GetProperty, AddRef
  <1> QED BY <1>1, <1>2, CreateStep

LEMMA UniqueStep ==
  ASSUME IInv, _Unique PROVE IInv'
  <1>1. /\ UNCHANGED <<chainVars, pDispatch, held, g_bInitialized, destroy, flags, refs, stack, exiting>>
        /\ g_hv_unique' = [c \in Coms |-> NULL]
    BY DEF _Unique
  <1>2. Live' = Live /\ Used' = Used BY <1>1 DEF Live, Used, chainVars
  <1>3. TypeInv' BY <1>1 DEF IInv, TypeInv, chainVars
  <1>4. ChainInv'
    <2>1. BornInv' BY <1>1, <1>2 DEF IInv, ChainInv, BornInv, chainVars
    <2>2. HeadInv' BY <1>1, <1>2 DEF IInv, ChainInv, HeadInv, chainVars
    <2>3. LinksInv' BY <1>1, <1>2 DEF IInv, ChainInv, LinksInv, Follows, chainVars
    <2> QED BY <2>1, <2>2, <2>3 DEF ChainInv
  <1>5. ObjectInv' BY <1>1, <1>2 DEF IInv, ObjectInv
  <1>6. HeldCovers' BY <1>1, <1>2, HeldKept DEF IInv
  <1>7. StackInv' BY <1>1, <1>2 DEF IInv, StackInv, chainVars
  <1>8. UniqueInv' BY <1>1 DEF UniqueInv
  <1> QED BY <1>3, <1>4, <1>5, <1>6, <1>7, <1>8 DEF IInv

\* A script that runs is not in the middle of a release or of a walk.
LEMMA ScriptWaits ==
  ASSUME ScriptRuns, stack # <<>>
  PROVE  Top.at = "callback" /\ Waiting(Top)
  BY DEF ScriptRuns, Waiting

LEMMA TypesStay ==
  ASSUME IInv
  PROVE  /\ g_bInitialized \in BOOLEAN /\ exiting \in BOOLEAN
         /\ refs \in [Objects -> 0 .. MaxRefs]
         /\ \A o \in Objects : refs[o] > 0 => o \in Live
         /\ g_pObj \in Objects \cup {NULL}
         /\ pNext \in [Objects -> Objects \cup {NULL}]
         /\ StackInv /\ TypeInv /\ ChainInv /\ ObjectInv
         /\ stack \in Seq(Frames)
         /\ Live \in SUBSET Objects
  BY DEF IInv, TypeInv, ObjectInv, StackInv, Stacked, Live

LEMMA KeepStep ==
  ASSUME IInv, NEW o \in Objects, Keep(o) PROVE IInv'
  <1>1. /\ UNCHANGED <<chainVars, comVars, g_bInitialized, destroy, flags, stack, exiting>>
        /\ stack # <<>> /\ Top.at = "callback" /\ Top.obj = o
        /\ refs[o] < MaxRefs /\ refs' = [refs EXCEPT ![o] = refs[o] + 1]
    BY DEF Keep
  <1>2. refs \in [Objects -> 0 .. MaxRefs] /\ StackInv /\ \A p \in Objects : refs[p] > 0 => p \in Live
    BY TypesStay
  <1>3. o \in Live
    <2>1. Top.kept \subseteq Live /\ Shaped(Top) BY <1>1, <1>2, TopIs
    <2>2. Top.obj \in Top.kept BY <1>1, <2>1 DEF Shaped
    <2> QED BY <1>1, <2>1, <2>2
  <1>4. refs' \in [Objects -> 0 .. MaxRefs] BY <1>1, <1>2, BoundAssumption
  <1>5. \A p \in Objects : refs'[p] > 0 => p \in Live BY <1>1, <1>2, <1>3
  <1>6. \A p \in Objects : refs[p] > 0 => refs'[p] > 0 BY <1>1, <1>2
  <1>7. Stacked(stack', Live, Used, pDispatch, born) BY <1>1, <1>2 DEF StackInv
  <1>8. g_bInitialized' \in BOOLEAN /\ exiting' \in BOOLEAN BY <1>1, TypesStay
  <1>9. \A p \in Live : (refs[p] > 0 \/ InStack(stack, p)) => (refs'[p] > 0 \/ InStack(stack', p))
    BY <1>1, <1>6 DEF Live
  <1> QED BY <1>1, <1>4, <1>5, <1>7, <1>8, <1>9, SameObjects

LEMMA DropStep ==
  ASSUME IInv, NEW o \in Objects, Drop(o) PROVE IInv'
  <1>1. /\ UNCHANGED <<chainVars, comVars, g_bInitialized, destroy, flags, exiting>>
        /\ ScriptRuns \/ (stack = <<>> /\ exiting)
        /\ refs[o] > 0 /\ refs' = [refs EXCEPT ![o] = refs[o] - 1]
    BY DEF Drop
  <1>2. refs \in [Objects -> 0 .. MaxRefs] /\ StackInv /\ stack \in Seq(Frames)
        /\ \A p \in Objects : refs[p] > 0 => p \in Live
    BY TypesStay
  <1>3. o \in Live BY <1>1, <1>2
  <1>4. refs' \in [Objects -> 0 .. MaxRefs] /\ \A p \in Objects : refs'[p] = IF p = o THEN refs[p] - 1 ELSE refs[p]
    BY <1>1, <1>2, BoundAssumption
  <1>5. \A p \in Objects : refs'[p] > 0 => p \in Live BY <1>2, <1>3, <1>4
  <1>6. g_bInitialized' \in BOOLEAN /\ exiting' \in BOOLEAN BY <1>1, TypesStay
  <1>7. CASE refs[o] = 1 /\ ~KeptBelow(o, Depth)
    <2> DEFINE d == Destroying(o)
    <2>1. d \in Frames /\ Shaped(d) /\ Holds(d, Live, Used, pDispatch, born) /\ d.kept = {o}
          /\ d.op # "Tie"
      BY <1>3, DestroyingIs
    <2>2. stack' = Append(stack, d) /\ Len(stack) < MaxDepth BY <1>7 DEF Drop, Push, Depth
    <2> HIDE DEF d
    <2>3. stack # <<>> => Waiting(stack[Len(stack)])
      BY <1>1, ScriptWaits DEF Top, Depth
    <2>4. Stacked(stack', Live, Used, pDispatch, born)
      BY <1>2, <2>1, <2>2, <2>3, PushStacked DEF StackInv
    <2>5. \A p : InStack(stack', p) <=> InStack(stack, p) \/ p = o
      BY <1>2, <2>1, <2>2, PushKept
    <2>6. \A p \in Live : (refs[p] > 0 \/ InStack(stack, p)) => (refs'[p] > 0 \/ InStack(stack', p))
      BY <1>4, <2>5 DEF Live
    <2> QED BY <1>1, <1>4, <1>5, <1>6, <2>4, <2>6, SameObjects
  <1>8. CASE ~(refs[o] = 1 /\ ~KeptBelow(o, Depth))
    <2>1. stack' = stack BY <1>8 DEF Drop
    <2>2. Stacked(stack', Live, Used, pDispatch, born) BY <1>2, <2>1 DEF StackInv
    <2>3. refs'[o] > 0 \/ InStack(stack', o)
      <3>1. refs[o] \in Nat BY <1>2
      <3>2. CASE refs[o] = 1 BY <1>8, <2>1, <3>2 DEF KeptBelow, InStack, Depth
      <3>3. CASE refs[o] # 1 BY <1>1, <1>4, <3>1, <3>3
      <3> QED BY <3>2, <3>3
    <2>4. \A p \in Live : (refs[p] > 0 \/ InStack(stack, p)) => (refs'[p] > 0 \/ InStack(stack', p))
      BY <1>4, <2>1, <2>3 DEF Live
    <2> QED BY <1>1, <1>4, <1>5, <1>6, <2>2, <2>4, SameObjects
  <1> QED BY <1>7, <1>8

LEMMA CallDestroyStep ==
  ASSUME IInv, stack # <<>>, Top.at = "release", CallDestroy,
         UNCHANGED <<chainVars, g_bInitialized, flags, refs, exiting>>
  PROVE  IInv'
  <1>1. /\ StackInv /\ g_bInitialized \in BOOLEAN /\ exiting \in BOOLEAN /\ Live \in SUBSET Objects
    BY TypesStay
  <1>2. /\ Top \in Frames /\ Shaped(Top) /\ Holds(Top, Live, Used, pDispatch, born)
        /\ Top.op \in Operations /\ Top.obj \in Objects \cup {NULL}
        /\ Top.kept \in SUBSET Objects /\ Top.start \in SUBSET Objects
    BY <1>1, TopIs
  <1>3. Top.obj \in Live BY <1>2 DEF Holds
  <1> DEFINE f == Frame(Top.op, Top.obj, "callback", Top.kept \cup {Top.obj}, Top.start)
  <1>4. "callback" \in Places BY DEF Places
  <1>5. Top.kept \cup {Top.obj} \in SUBSET Objects BY <1>1, <1>2, <1>3
  <1>6. /\ f \in Frames /\ f.op = Top.op /\ f.obj = Top.obj /\ f.at = "callback"
        /\ f.kept = Top.kept \cup {Top.obj} /\ f.start = Top.start
    BY <1>2, <1>4, <1>5, FrameIs
  <1>7. Become(f)
    <2>1. [Top EXCEPT !.at = "callback", !.kept = Top.kept \cup {Top.obj}] = f
      BY <1>2, <1>4, <1>5, Changed
    <2> HIDE DEF f
    <2> QED BY <2>1 DEF CallDestroy, Become
  <1> HIDE DEF f
  <1>8. Shaped(f) BY <1>2, <1>3, <1>6 DEF Shaped
  <1>9. Holds(f, Live, Used, pDispatch, born) BY <1>2, <1>3, <1>6 DEF Holds, Walked
  <1>10. UNCHANGED <<chainVars, comVars, flags, destroy, refs>> BY DEF CallDestroy
  <1> QED BY <1>1, <1>6, <1>7, <1>8, <1>9, <1>10, BecomeStep

LEMMA ReleasePerlObjectStep ==
  ASSUME IInv, ReleasePerlObject PROVE IInv'
  <1>1. /\ stack # <<>> /\ Top.at = "release"
        /\ UNCHANGED <<chainVars, g_bInitialized, flags, refs, exiting>>
    BY DEF ReleasePerlObject
  <1>2. CASE CallDestroy BY <1>1, <1>2, CallDestroyStep
  <1>3. CASE ReleaseNow
    <2>1. StackInv /\ destroy \in [Objects -> BOOLEAN] BY DEF IInv, TypeInv
    <2>2. Shaped(Top) /\ Holds(Top, Live, Used, pDispatch, born) BY <1>1, <2>1, TopIs
    <2>3. Top.obj \in Live /\ Top.op # "Enum" BY <1>1, <2>2 DEF Holds, Shaped
    <2>4. ReleaseInterfaces(Top.obj) /\ Step("released") /\ destroy' = destroy
      BY <1>3 DEF ReleaseNow
    <2>5. destroy' \in [Objects -> BOOLEAN] BY <2>1, <2>4
    <2>6. Top.at # "unwind" BY <1>1
    <2> QED BY <1>1, <2>3, <2>4, <2>5, <2>6, ReleaseStep
  <1> QED BY <1>2, <1>3 DEF ReleasePerlObject

LEMMA CallbackReturnsStep ==
  ASSUME IInv, CallbackReturns PROVE IInv'
  <1>1. /\ stack # <<>> /\ Top.at = "callback" /\ Top.op # "Enum"
        /\ UNCHANGED <<chainVars, g_bInitialized, flags, refs, exiting>>
        /\ destroy' = [destroy EXCEPT ![Top.obj] = FALSE]
        /\ ReleaseInterfaces(Top.obj) /\ Step("released")
    BY DEF CallbackReturns
  <1>2. StackInv /\ destroy \in [Objects -> BOOLEAN] BY DEF IInv, TypeInv
  <1>3. Shaped(Top) /\ Top.kept \subseteq Live BY <1>1, <1>2, TopIs
  <1>4. Top.obj \in Live BY <1>1, <1>3 DEF Shaped
  <1>5. destroy' \in [Objects -> BOOLEAN] BY <1>1, <1>2
  <1>6. Top.at # "unwind" BY <1>1
  <1> QED BY <1>1, <1>4, <1>5, <1>6, ReleaseStep

LEMMA DestroyedStep ==
  ASSUME IInv, Destroyed PROVE IInv'
  <1> DEFINE o == Top.obj
  <1>1. /\ stack # <<>> /\ Top.op = "DESTROY" /\ Top.at = "released" /\ Pop
        /\ UNCHANGED <<comVars, g_bInitialized, destroy, exiting>>
    BY DEF Destroyed, At
  <1>2. IF refs[o] > 0 \/ KeptBelow(o, Depth - 1)
          THEN /\ flags' = [flags EXCEPT ![o] = flags[o] \cup {"DESTROYED"}]
               /\ UNCHANGED <<chainVars, refs>>
          ELSE Free(o)
    BY DEF Destroyed
  <1>3. StackInv /\ TypeInv /\ ObjectInv /\ stack \in Seq(Frames) BY TypesStay
  <1>4. Shaped(Top) /\ Holds(Top, Live, Used, pDispatch, born) BY <1>1, <1>3, TopIs
  <1>5. o \in Live /\ pDispatch[o] = NULL /\ Top.kept = {o} BY <1>1, <1>4 DEF Holds, Shaped
  <1>6. KeptBelow(o, Depth - 1) <=> InStack(Under(stack), o) BY <1>1, <1>3, KeptUnder
  <1> HIDE DEF o
  <1>7. CASE refs[o] > 0 \/ KeptBelow(o, Depth - 1)
    <2>1. flags' = [flags EXCEPT ![o] = flags[o] \cup {"DESTROYED"}] /\ UNCHANGED <<chainVars, refs>>
      BY <1>2, <1>7
    <2>2. Live' = Live /\ Used' = Used /\ o \in Objects BY <1>5, <2>1 DEF Live, Used, chainVars
    <2>3. flags' \in [Objects -> SUBSET {"UNIQUE", "DESTROYED"}] BY <1>3, <2>1, <2>2 DEF TypeInv
    <2>4. TypeInv' BY <1>1, <1>3, <2>1, <2>3 DEF TypeInv, chainVars, comVars
    <2>5. ChainInv'
      <3>1. BornInv' BY <2>1, <2>2 DEF IInv, ChainInv, BornInv, chainVars
      <3>2. HeadInv' BY <2>1, <2>2 DEF IInv, ChainInv, HeadInv, chainVars
      <3>3. LinksInv' BY <2>1, <2>2 DEF IInv, ChainInv, LinksInv, Follows, chainVars
      <3> QED BY <3>1, <3>2, <3>3 DEF ChainInv
    <2>6. pDispatch' = pDispatch /\ g_hv_unique' = g_hv_unique /\ held' = held BY <1>1 DEF comVars
    <2>7. ObjectInv'
      <3>1. \A p \in Objects : "DESTROYED" \in flags'[p] => pDispatch[p] = NULL
        BY <1>3, <1>5, <2>1, <2>2 DEF ObjectInv, TypeInv
      <3> QED BY <1>3, <2>1, <2>2, <2>6, <3>1 DEF ObjectInv
    <2>8. HeldCovers' BY <2>2, <2>6, HeldKept DEF IInv
    <2>9. stack' = Under(stack) BY <1>1 DEF Pop, Depth, Under
    <2>10. StackInv'
      <3>1. Stacked(stack', Live, Used, pDispatch, born) BY <1>1, <1>3, <2>9, PopStacked DEF StackInv
      <3> QED BY <2>1, <2>2, <2>6, <3>1 DEF StackInv, chainVars
    <2>11. UniqueInv'
      <3>1. ASSUME NEW c \in Coms, g_hv_unique[c] # NULL
            PROVE  /\ g_hv_unique[c] \in Live /\ pDispatch[g_hv_unique[c]] = c
                   /\ "UNIQUE" \in flags'[g_hv_unique[c]]
                   /\ refs[g_hv_unique[c]] > 0 \/ InStack(stack', g_hv_unique[c])
        <4> DEFINE x == g_hv_unique[c]
        <4>1. /\ x \in Live /\ pDispatch[x] = c /\ "UNIQUE" \in flags[x]
              /\ refs[x] > 0 \/ InStack(stack, x)
          BY <3>1 DEF IInv, UniqueInv
        <4> HIDE DEF x
        <4>2. x # o BY <1>5, <4>1, NullAssumption
        <4>3. flags'[x] = flags[x] BY <1>3, <2>1, <2>2, <4>1, <4>2 DEF TypeInv, Live
        <4>4. InStack(stack, x) => InStack(stack', x)
          <5>1. InStack(stack, x) => InStack(Under(stack), x) \/ x \in Top.kept
            BY <1>1, <1>3, TopKept DEF Top, Depth
          <5> QED BY <1>5, <2>9, <4>2, <5>1
        <4> QED BY <4>1, <4>3, <4>4 DEF x
      <3> QED BY <2>1, <2>2, <2>6, <3>1 DEF UniqueInv
    <2> QED BY <2>4, <2>5, <2>7, <2>8, <2>10, <2>11 DEF IInv
  <1>8. CASE ~(refs[o] > 0 \/ KeptBelow(o, Depth - 1))
    <2>1. Free(o) BY <1>2, <1>8
    <2>2. ~InStack(Under(stack), o) /\ Top.kept \subseteq {o} BY <1>5, <1>6, <1>8
    <2> QED BY <1>1, <1>5, <2>1, <2>2, FreeStep
  <1> QED BY <1>7, <1>8

LEMMA TieDestroyedStep ==
  ASSUME IInv, TieDestroyed PROVE IInv'
  <1>1. /\ stack # <<>> /\ Top.op = "Tie" /\ Top.at = "released" /\ Pop /\ Free(Top.obj)
        /\ UNCHANGED <<comVars, g_bInitialized, destroy, exiting>>
    BY DEF TieDestroyed, At
  <1>2. StackInv BY TypesStay
  <1>3. Shaped(Top) /\ Holds(Top, Live, Used, pDispatch, born) /\ (Top.op = "Tie" => Under(stack) = <<>>)
    BY <1>1, <1>2, TopIs
  <1>4. Top.obj \in Live /\ pDispatch[Top.obj] = NULL /\ Top.kept \subseteq {Top.obj}
    BY <1>1, <1>3 DEF Holds, Shaped
  <1>5. ~InStack(Under(stack), Top.obj) BY <1>1, <1>3 DEF InStack
  <1> QED BY <1>1, <1>4, <1>5, FreeStep

LEMMA GlobalCleanupStep ==
  ASSUME IInv, NEW o \in Objects, GlobalCleanup(o) PROVE IInv'
  <1> DEFINE at == IF "DESTROYED" \in flags[o] \/ pDispatch[o] = NULL THEN "released" ELSE "release"
             f == Frame("Tie", o, at, {}, {})
  <1>1. /\ stack = <<>> /\ o \in Live /\ Push(f)
        /\ UNCHANGED <<chainVars, comVars, g_bInitialized, destroy, flags, refs, exiting>>
    BY DEF GlobalCleanup
  <1>2. ObjectInv /\ g_bInitialized \in BOOLEAN /\ exiting \in BOOLEAN BY TypesStay
  <1>3. at \in {"release", "released"} /\ (at = "released" => pDispatch[o] = NULL)
    BY <1>2 DEF ObjectInv
  <1> HIDE DEF at
  <1>4. "Tie" \in Operations /\ at \in Places BY <1>3 DEF Operations, Places
  <1>5. /\ f \in Frames /\ f.op = "Tie" /\ f.obj = o /\ f.at = at /\ f.kept = {} /\ f.start = {}
    BY <1>4, FrameIs
  <1> HIDE DEF f
  <1>6. Shaped(f) BY <1>3, <1>5 DEF Shaped
  <1>7. Holds(f, Live, Used, pDispatch, born) BY <1>1, <1>3, <1>5 DEF Holds
  <1> QED BY <1>1, <1>2, <1>5, <1>6, <1>7, PushStep

LEMMA AtHeaderIs ==
  ASSUME NEW o \in Objects \cup {NULL}
  PROVE  /\ AtHeader(o) \in Places
         /\ o = NULL => AtHeader(o) = "close"
         /\ o # NULL => AtHeader(o) = "release"
  BY DEF AtHeader, Places

LEMMA EnterUninitializeStep ==
  ASSUME IInv, EnterUninitialize, stack # <<>> => Waiting(Top), exiting' \in BOOLEAN,
         UNCHANGED <<chainVars, comVars, g_bInitialized, destroy, flags, refs>>
  PROVE  IInv'
  <1>1. /\ ChainInv /\ g_bInitialized \in BOOLEAN /\ g_pObj \in Objects \cup {NULL}
        /\ Live \in SUBSET Objects /\ refs \in [Objects -> 0 .. MaxRefs] /\ StackInv
        /\ \A p \in Objects : refs[p] > 0 => p \in Live
    BY TypesStay
  <1> DEFINE f == Frame("Uninitialize", g_pObj, AtHeader(g_pObj), {}, Live)
  <1>2. CASE g_bInitialized
    <2>1. Push(f) BY <1>2 DEF EnterUninitialize
    <2>2. "Uninitialize" \in Operations /\ AtHeader(g_pObj) \in Places
      BY <1>1, AtHeaderIs DEF Operations
    <2>3. /\ f \in Frames /\ f.op = "Uninitialize" /\ f.obj = g_pObj
          /\ f.at = AtHeader(g_pObj) /\ f.kept = {} /\ f.start = Live
      BY <1>1, <2>2, FrameIs
    <2> HIDE DEF f
    <2>4. Shaped(f) BY <1>1, <2>3, AtHeaderIs DEF Shaped
    <2>5. HeadInv BY <1>1 DEF ChainInv
    <2>6. Walked(f, Live, Used, pDispatch, born)
      BY <2>3, <2>5, LiveUsed DEF Walked, HeadInv
    <2>7. f.at \in {"release", "released"} => f.obj \in Live
      BY <1>1, <2>3, <2>5, AtHeaderIs DEF HeadInv
    <2>8. f.at # "released" BY <1>1, <2>3, AtHeaderIs
    <2>9. Holds(f, Live, Used, pDispatch, born) BY <2>3, <2>6, <2>7, <2>8 DEF Holds
    <2> QED BY <1>1, <2>1, <2>3, <2>4, <2>9, PushStep
  <1>3. CASE ~g_bInitialized
    <2>1. stack' = stack BY <1>3 DEF EnterUninitialize
    <2>2. Stacked(stack', Live, Used, pDispatch, born) BY <1>1, <2>1 DEF StackInv
    <2> QED BY <1>1, <2>1, <2>2, SameObjects
  <1> QED BY <1>1, <1>2, <1>3

LEMMA UninitializeStep ==
  ASSUME IInv, Uninitialize PROVE IInv'
  <1>1. exiting' \in BOOLEAN BY TypesStay DEF Uninitialize
  <1>2. stack # <<>> => Waiting(Top) BY ScriptWaits DEF Uninitialize
  <1> QED BY <1>1, <1>2, EnterUninitializeStep DEF Uninitialize

LEMMA ExitStep ==
  ASSUME IInv, Exit PROVE IInv'
  <1>1. exiting' \in BOOLEAN /\ stack = <<>> BY DEF Exit
  <1> QED BY <1>1, EnterUninitializeStep DEF Exit

\* The object after one that was released is as old as any that is left.
LEMMA UninitializeNextStep ==
  ASSUME IInv, UninitializeNext PROVE IInv'
  <1> DEFINE p == Top.obj
             o == pNext[Top.obj]
             f == Frame(Top.op, o, AtHeader(o), Top.kept, Top.start)
  <1>1. /\ stack # <<>> /\ Top.op = "Uninitialize" /\ Top.at = "released"
        /\ Become([Top EXCEPT !.obj = o, !.at = AtHeader(o)])
        /\ UNCHANGED <<chainVars, comVars, g_bInitialized, destroy, flags, refs, exiting>>
    BY DEF UninitializeNext, At
  <1>2. /\ ChainInv /\ StackInv /\ TypeInv /\ g_bInitialized \in BOOLEAN /\ exiting \in BOOLEAN
        /\ pNext \in [Objects -> Objects \cup {NULL}] /\ Live \in SUBSET Objects
    BY TypesStay
  <1>a. /\ Top \in Frames /\ Top.op \in Operations /\ Top.obj \in Objects \cup {NULL}
        /\ Top.kept \in SUBSET Objects /\ Top.start \in SUBSET Objects
    BY <1>1, <1>2, TopTypes
  <1>3. Shaped(Top) /\ Holds(Top, Live, Used, pDispatch, born) BY <1>1, <1>2, TopIs
  <1>4. /\ p \in Live /\ pDispatch[p] = NULL /\ Top.kept \subseteq Live
        /\ Top.start \subseteq Used
        /\ \A x \in Top.start \cap Live : pDispatch[x] = NULL \/ (p # NULL /\ born[x] <= born[p])
    BY <1>1, <1>3 DEF Holds, Walked
  <1>5. o \in Objects \cup {NULL} BY <1>2, <1>4
  <1>6. AtHeader(o) \in Places BY <1>5, AtHeaderIs
  <1>7. /\ f \in Frames /\ f.op = Top.op /\ f.obj = o /\ f.at = AtHeader(o)
        /\ f.kept = Top.kept /\ f.start = Top.start
    <2> HIDE DEF o
    <2> QED BY <1>a, <1>5, <1>6, FrameIs
  <1>8. [Top EXCEPT !.obj = o, !.at = AtHeader(o)] = f
    <2> HIDE DEF o
    <2> QED BY <1>a, <1>5, <1>6, Changed DEF f
  <1>9. Become(f)
    <2> HIDE DEF f, o
    <2> QED BY <1>1, <1>8
  <1>10. /\ o = NULL => \A q \in Live : born[p] <= born[q]
         /\ o # NULL => o \in Live /\ Follows(o, p)
    BY <1>2, <1>4 DEF ChainInv, LinksInv
  <1> HIDE DEF f, o, p
  <1>11. Shaped(f) BY <1>1, <1>5, <1>7, AtHeaderIs DEF Shaped
  <1>12. Walked(f, Live, Used, pDispatch, born)
    <2>1. ASSUME NEW x \in f.start \cap Live, pDispatch[x] # NULL
          PROVE  o # NULL /\ born[x] <= born[o]
      <3>1. x \in Live /\ x \in Used /\ p \in Used /\ x \in Objects /\ p \in Objects
        BY <1>2, <1>4, LiveUsed
      <3>2. born[x] \in Nat /\ born[p] \in Nat BY <1>2, <3>1 DEF TypeInv
      <3>3. born[x] <= born[p] /\ x # p BY <1>4, <1>7, <2>1
      <3>4. born[x] # born[p] BY <1>2, <3>1, <3>3 DEF ChainInv, BornInv
      <3>5. born[x] < born[p] BY <3>2, <3>3, <3>4
      <3>6. o # NULL
        <4>1. CASE o = NULL
          <5>1. born[p] <= born[x] BY <1>10, <3>1, <4>1
          <5> QED BY <3>2, <3>5, <5>1
        <4> QED BY <4>1
      <3> QED BY <1>10, <3>1, <3>5, <3>6 DEF Follows
    <2>2. o # NULL => o \in Used BY <1>10, LiveUsed
    <2>3. f.start \subseteq Used BY <1>4, <1>7
    <2> QED BY <1>7, <2>1, <2>2, <2>3 DEF Walked
  <1>13. Holds(f, Live, Used, pDispatch, born)
    <2>1. f.at \in {"release", "released"} => f.obj \in Live
      BY <1>5, <1>7, <1>10, AtHeaderIs
    <2>2. f.at # "released" BY <1>5, <1>7, AtHeaderIs
    <2> QED BY <1>4, <1>7, <1>12, <2>1, <2>2 DEF Holds
  <1>14. Top.kept \subseteq f.kept BY <1>7
  <1> QED BY <1>1, <1>2, <1>7, <1>9, <1>11, <1>13, <1>14, BecomeStep

LEMMA UninitializeCloseStep ==
  ASSUME IInv, UninitializeClose PROVE IInv'
  <1>1. /\ stack # <<>> /\ Top.op = "Uninitialize" /\ Top.at = "close"
        /\ g_bInitialized' = FALSE /\ Step("unwind")
        /\ UNCHANGED <<chainVars, comVars, destroy, flags, refs, exiting>>
    BY DEF UninitializeClose, At
  <1>2. StackInv /\ exiting \in BOOLEAN BY TypesStay
  <1>a. /\ Top \in Frames /\ Top.op \in Operations /\ Top.obj \in Objects \cup {NULL}
        /\ Top.kept \in SUBSET Objects /\ Top.start \in SUBSET Objects
    BY <1>1, <1>2, TopTypes
  <1>3. Shaped(Top) /\ Holds(Top, Live, Used, pDispatch, born) BY <1>1, <1>2, TopIs
  <1> DEFINE f == Frame(Top.op, Top.obj, "unwind", Top.kept, Top.start)
  <1>4. "unwind" \in Places BY DEF Places
  <1>5. /\ f \in Frames /\ f.op = Top.op /\ f.obj = Top.obj /\ f.at = "unwind"
        /\ f.kept = Top.kept /\ f.start = Top.start
    BY <1>a, <1>4, FrameIs
  <1>6. Become(f)
    <2>1. [Top EXCEPT !.at = "unwind"] = f BY <1>a, <1>4, Changed
    <2> HIDE DEF f
    <2> QED BY <1>1, <2>1 DEF Step
  <1> HIDE DEF f
  <1>7. Shaped(f) BY <1>1, <1>3, <1>5 DEF Shaped
  <1>8. Holds(f, Live, Used, pDispatch, born) BY <1>3, <1>5 DEF Holds, Walked
  <1>9. g_bInitialized' \in BOOLEAN /\ exiting' \in BOOLEAN BY <1>1, <1>2
  <1> QED BY <1>1, <1>5, <1>6, <1>7, <1>8, <1>9, BecomeStep

LEMMA UninitializeUnwindStep ==
  ASSUME IInv, UninitializeUnwind PROVE IInv'
  <1>1. /\ stack # <<>> /\ Top.op = "Uninitialize" /\ Top.at = "unwind"
        /\ UNCHANGED <<chainVars, comVars, g_bInitialized, destroy, flags, refs, exiting>>
    BY DEF UninitializeUnwind, At
  <1>2. StackInv /\ g_bInitialized' \in BOOLEAN /\ exiting' \in BOOLEAN BY <1>1, TypesStay
  <1>a. /\ Top \in Frames /\ Top.op \in Operations /\ Top.obj \in Objects \cup {NULL}
        /\ Top.kept \in SUBSET Objects /\ Top.start \in SUBSET Objects
    BY <1>1, <1>2, TopTypes
  <1>3. Shaped(Top) /\ Holds(Top, Live, Used, pDispatch, born) BY <1>1, <1>2, TopIs
  <1>4. CASE Top.kept = {}
    <2>1. Pop BY <1>4 DEF UninitializeUnwind
    <2> QED BY <1>1, <1>2, <1>4, <2>1, PopStep
  <1>5. CASE Top.kept # {}
    <2>1. PICK o \in Top.kept : LetGo([Top EXCEPT !.kept = Top.kept \ {o}], o)
      BY <1>5 DEF UninitializeUnwind
    <2> DEFINE kept == Top.kept \ {o}
               f == Frame(Top.op, Top.obj, "unwind", kept, Top.start)
    <2>2. "unwind" \in Places BY DEF Places
    <2>3. kept \in SUBSET Objects BY <1>a
    <2>4. /\ f \in Frames /\ f.op = Top.op /\ f.obj = Top.obj /\ f.at = "unwind"
          /\ f.kept = kept /\ f.start = Top.start
      <3> HIDE DEF kept
      <3> QED BY <1>a, <2>2, <2>3, FrameIs
    <2>5. LetGo(f, o)
      <3>1. [Top EXCEPT !.kept = kept] = Frame(Top.op, Top.obj, Top.at, kept, Top.start)
        <4> HIDE DEF kept
        <4> QED BY <1>a, <2>2, <2>3, Changed
      <3>2. [Top EXCEPT !.kept = kept] = f BY <1>1, <3>1
      <3> HIDE DEF f
      <3> QED BY <2>1, <3>2
    <2> HIDE DEF f
    <2>6. Shaped(f) BY <1>1, <1>3, <2>4 DEF Shaped
    <2>7. Holds(f, Live, Used, pDispatch, born) BY <1>3, <2>4 DEF Holds, Walked
    <2>8. Waiting(f) BY <2>4 DEF Waiting
    <2>9. f.op = Top.op /\ Top.kept \ {o} \subseteq f.kept BY <2>4
    <2> QED BY <1>1, <1>2, <2>4, <2>5, <2>6, <2>7, <2>8, <2>9, LetGoStep
  <1> QED BY <1>4, <1>5

LEMMA EnumAllObjectsStep ==
  ASSUME IInv, EnumAllObjects PROVE IInv'
  <1> DEFINE f == Frame("Enum", g_pObj, "visit", {}, {})
  <1>1. /\ ScriptRuns /\ Push(f)
        /\ UNCHANGED <<chainVars, comVars, g_bInitialized, destroy, flags, refs, exiting>>
    BY DEF EnumAllObjects
  <1>2. /\ g_bInitialized' \in BOOLEAN /\ exiting' \in BOOLEAN /\ g_pObj \in Objects \cup {NULL}
    BY <1>1, TypesStay
  <1>3. "Enum" \in Operations /\ "visit" \in Places BY DEF Operations, Places
  <1>4. /\ f \in Frames /\ f.op = "Enum" /\ f.obj = g_pObj /\ f.at = "visit" /\ f.kept = {} /\ f.start = {}
    BY <1>2, <1>3, FrameIs
  <1> HIDE DEF f
  <1>5. Shaped(f) /\ Holds(f, Live, Used, pDispatch, born) BY <1>4 DEF Shaped, Holds
  <1>6. stack # <<>> => Waiting(Top) BY <1>1, ScriptWaits
  <1>7. f.op # "Tie" BY <1>4
  <1> QED BY <1>1, <1>2, <1>4, <1>5, <1>6, <1>7, PushStep

\* A walk of EnumAllObjects goes to a place where it keeps what it visits, or nothing.
LEMMA EnumBecomeStep ==
  ASSUME IInv, stack # <<>>, Top.op = "Enum", Top.kept = {},
         UNCHANGED <<chainVars, comVars, g_bInitialized, destroy, flags, refs, exiting>>,
         NEW f \in Frames, Become(f), f.op = "Enum",
         \/ f.at \in {"visit", "next"} /\ f.kept = {}
         \/ f.at = "callback" /\ f.kept = {f.obj} /\ f.obj \in Live
  PROVE  IInv'
  <1>1. g_bInitialized' \in BOOLEAN /\ exiting' \in BOOLEAN /\ Live \in SUBSET Objects BY TypesStay
  <1>2. Shaped(f) BY <1>1 DEF Shaped
  <1>3. Holds(f, Live, Used, pDispatch, born) BY DEF Holds
  <1> QED BY <1>1, <1>2, <1>3, BecomeStep

LEMMA EnumVisitStep ==
  ASSUME IInv, EnumVisit PROVE IInv'
  <1>1. /\ stack # <<>> /\ Top.op = "Enum" /\ Top.at = "visit"
        /\ UNCHANGED <<chainVars, comVars, g_bInitialized, destroy, flags, refs, exiting>>
    BY DEF EnumVisit, At
  <1>2. StackInv /\ g_bInitialized' \in BOOLEAN /\ exiting' \in BOOLEAN BY <1>1, TypesStay
  <1>a. /\ Top \in Frames /\ Top.op \in Operations /\ Top.obj \in Objects \cup {NULL}
        /\ Top.kept \in SUBSET Objects /\ Top.start \in SUBSET Objects
    BY <1>1, <1>2, TopTypes
  <1>3. Shaped(Top) BY <1>1, <1>2, TopIs
  <1>4. Top.kept = {} BY <1>1, <1>3 DEF Shaped
  <1>5. CASE Top.obj = NULL
    <2>1. Pop BY <1>5 DEF EnumVisit
    <2> QED BY <1>1, <1>2, <1>4, <2>1, PopStep
  <1>6. CASE Top.obj # NULL /\ Top.obj \in Live
    <2> DEFINE f == Frame(Top.op, Top.obj, "callback", {Top.obj}, Top.start)
    <2>1. "callback" \in Places /\ {Top.obj} \in SUBSET Objects BY <1>6 DEF Places, Live
    <2>2. f \in Frames /\ f.op = Top.op /\ f.obj = Top.obj /\ f.at = "callback" /\ f.kept = {Top.obj}
      BY <1>a, <2>1, FrameIs
    <2>3. Become(f)
      <3>1. [Top EXCEPT !.at = "callback", !.kept = {Top.obj}] = f BY <1>a, <2>1, Changed
      <3> HIDE DEF f
      <3> QED BY <1>6, <3>1 DEF EnumVisit
    <2> HIDE DEF f
    <2> QED BY <1>1, <1>4, <1>6, <2>2, <2>3, EnumBecomeStep
  <1>7. CASE Top.obj # NULL /\ Top.obj \notin Live
    <2> DEFINE f == Frame(Top.op, Top.obj, "next", Top.kept, Top.start)
    <2>1. "next" \in Places BY DEF Places
    <2>2. f \in Frames /\ f.op = Top.op /\ f.obj = Top.obj /\ f.at = "next" /\ f.kept = Top.kept
      BY <1>a, <2>1, FrameIs
    <2>3. Become(f)
      <3>1. [Top EXCEPT !.at = "next"] = f BY <1>a, <2>1, Changed
      <3> HIDE DEF f
      <3> QED BY <1>7, <3>1 DEF EnumVisit, Step
    <2> HIDE DEF f
    <2>4. f.op = "Enum" /\ f.at = "next" /\ f.kept = {} BY <1>1, <1>4, <2>2
    <2>5. f \in Frames /\ f.at \in {"visit", "next"} BY <2>2
    <2> QED BY <1>1, <1>4, <2>3, <2>4, <2>5, EnumBecomeStep
  <1> QED BY <1>5, <1>6, <1>7

LEMMA EnumCallbackReturnsStep ==
  ASSUME IInv, EnumCallbackReturns PROVE IInv'
  <1>1. /\ stack # <<>> /\ Top.op = "Enum" /\ Top.at = "callback"
        /\ LetGo([Top EXCEPT !.at = "next", !.kept = {}], Top.obj)
        /\ UNCHANGED <<chainVars, comVars, g_bInitialized, destroy, flags, refs, exiting>>
    BY DEF EnumCallbackReturns, At
  <1>2. StackInv /\ g_bInitialized' \in BOOLEAN /\ exiting' \in BOOLEAN BY <1>1, TypesStay
  <1>a. /\ Top \in Frames /\ Top.op \in Operations /\ Top.obj \in Objects \cup {NULL}
        /\ Top.kept \in SUBSET Objects /\ Top.start \in SUBSET Objects
    BY <1>1, <1>2, TopTypes
  <1>3. Shaped(Top) BY <1>1, <1>2, TopIs
  <1> DEFINE f == Frame(Top.op, Top.obj, "next", {}, Top.start)
  <1>4. "next" \in Places BY DEF Places
  <1>5. /\ f \in Frames /\ f.op = Top.op /\ f.obj = Top.obj /\ f.at = "next" /\ f.kept = {}
    BY <1>a, <1>4, FrameIs
  <1>6. LetGo(f, Top.obj)
    <2>1. [Top EXCEPT !.at = "next", !.kept = {}] = f BY <1>a, <1>4, Changed
    <2> HIDE DEF f
    <2> QED BY <1>1, <2>1
  <1> HIDE DEF f
  <1>7. Shaped(f) /\ Holds(f, Live, Used, pDispatch, born) BY <1>1, <1>5 DEF Shaped, Holds
  <1>8. Waiting(f) BY <1>5 DEF Waiting
  <1>9. Top.kept \ {Top.obj} \subseteq f.kept BY <1>1, <1>3, <1>5 DEF Shaped
  <1> QED BY <1>1, <1>2, <1>5, <1>6, <1>7, <1>8, <1>9, LetGoStep

LEMMA EnumNextStep ==
  ASSUME IInv, EnumNext PROVE IInv'
  <1>1. /\ stack # <<>> /\ Top.op = "Enum" /\ Top.at = "next"
        /\ UNCHANGED <<chainVars, comVars, g_bInitialized, destroy, flags, refs, exiting>>
    BY DEF EnumNext, At
  <1>2. /\ StackInv /\ pNext \in [Objects -> Objects \cup {NULL}] /\ Live \in SUBSET Objects
    BY TypesStay
  <1>a. /\ Top \in Frames /\ Top.op \in Operations /\ Top.obj \in Objects \cup {NULL}
        /\ Top.kept \in SUBSET Objects /\ Top.start \in SUBSET Objects
    BY <1>1, <1>2, TopTypes
  <1>3. Shaped(Top) BY <1>1, <1>2, TopIs
  <1>4. Top.kept = {} BY <1>1, <1>3 DEF Shaped
  <1>5. PICK o \in Objects \cup {NULL} : Become([Top EXCEPT !.obj = o, !.at = "visit"])
    <2>1. PICK o \in IF Top.obj \in Live THEN {pNext[Top.obj]} ELSE Objects \cup {NULL} :
            Become([Top EXCEPT !.obj = o, !.at = "visit"])
      BY DEF EnumNext
    <2>2. o \in Objects \cup {NULL} BY <1>2
    <2> QED BY <2>1, <2>2
  <1> DEFINE f == Frame(Top.op, o, "visit", Top.kept, Top.start)
  <1>6. "visit" \in Places BY DEF Places
  <1>7. f \in Frames /\ f.op = Top.op /\ f.obj = o /\ f.at = "visit" /\ f.kept = Top.kept
    BY <1>a, <1>6, FrameIs
  <1>8. Become(f)
    <2>1. [Top EXCEPT !.obj = o, !.at = "visit"] = f BY <1>a, <1>6, Changed
    <2> HIDE DEF f
    <2> QED BY <1>5, <2>1
  <1> HIDE DEF f
  <1>9. f.op = "Enum" /\ f.at = "visit" /\ f.kept = {} BY <1>1, <1>4, <1>7
  <1>10. f \in Frames /\ f.at \in {"visit", "next"} BY <1>7
  <1> QED BY <1>1, <1>4, <1>8, <1>9, <1>10, EnumBecomeStep

LEMMA NextIInv ==
  ASSUME IInv, [Next]_vars PROVE IInv'
  <1>1. CASE Next
    <2>1. ASSUME NEW c \in Coms, NEW u \in BOOLEAN, GetProperty(c, u) PROVE IInv'
      BY <2>1, GetPropertyStep
    <2>2. ASSUME NEW c \in Coms, NEW u \in BOOLEAN, NEW d \in BOOLEAN, New(c, u, d) PROVE IInv'
      BY <2>2, NewStep
    <2>3. ASSUME NEW o \in Objects, Keep(o) PROVE IInv' BY <2>3, KeepStep
    <2>4. ASSUME NEW o \in Objects, Drop(o) PROVE IInv' BY <2>4, DropStep
    <2>5. ASSUME NEW o \in Objects, GlobalCleanup(o) PROVE IInv' BY <2>5, GlobalCleanupStep
    <2>6. CASE _Unique BY <2>6, UniqueStep
    <2>7. CASE ReleasePerlObject \/ CallbackReturns
      BY <2>7, ReleasePerlObjectStep, CallbackReturnsStep
    <2>8. CASE Destroyed \/ TieDestroyed BY <2>8, DestroyedStep, TieDestroyedStep
    <2>9. CASE Uninitialize \/ UninitializeNext \/ UninitializeClose \/ UninitializeUnwind \/ Exit
      BY <2>9, UninitializeStep, UninitializeNextStep, UninitializeCloseStep,
         UninitializeUnwindStep, ExitStep
    <2>10. CASE EnumAllObjects \/ EnumVisit \/ EnumCallbackReturns \/ EnumNext
      BY <2>10, EnumAllObjectsStep, EnumVisitStep, EnumCallbackReturnsStep, EnumNextStep
    <2> QED BY <1>1, <2>1, <2>2, <2>3, <2>4, <2>5, <2>6, <2>7, <2>8, <2>9, <2>10 DEF Next
  <1>2. CASE UNCHANGED vars
    <2>1. refs' \in [Objects -> 0 .. MaxRefs] /\ (\A o \in Objects : refs'[o] > 0 => o \in Live)
          /\ g_bInitialized' \in BOOLEAN /\ exiting' \in BOOLEAN
      BY <1>2, TypesStay DEF vars
    <2>2. UNCHANGED <<chainVars, comVars, flags, destroy>> /\ stack' = stack /\ refs' = refs
      BY <1>2 DEF vars
    <2>3. Stacked(stack', Live, Used, pDispatch, born) BY <2>2, TypesStay DEF StackInv
    <2> QED BY <2>1, <2>2, <2>3, SameObjects
  <1> QED BY <1>1, <1>2

-----------------------------------------------------------------------------
(***************************************************************************)
(* The properties follow from IInv                                         *)
(***************************************************************************)
LEMMA OlderIs ==
  ASSUME TypeInv, BornInv, NEW o \in Live, NEW p \in Live, Follows(p, o)
  PROVE  Older(o) = p
  <1> DEFINE older == {q \in Live : born[q] < born[o]}
  <1>1. p \in older /\ \A q \in older : born[q] <= born[p] BY DEF Follows
  <1>2. ASSUME NEW r \in older, \A q \in older : born[q] <= born[r] PROVE r = p
    <2>1. born[p] <= born[r] /\ born[r] <= born[p] BY <1>1, <1>2
    <2>2. r \in Used /\ p \in Used /\ r \in Objects /\ p \in Objects BY LiveUsed DEF Live
    <2>3. born[p] \in Nat /\ born[r] \in Nat BY <2>2 DEF TypeInv
    <2>4. born[p] = born[r] BY <2>1, <2>3
    <2> QED BY <2>2, <2>4 DEF BornInv
  <1>3. Older(o) = CHOOSE r \in older : \A q \in older : born[q] <= born[r]
    <2>1. older # {} BY <1>1
    <2> QED BY <2>1 DEF Older
  <1> HIDE DEF older
  <1>4. (CHOOSE r \in older : \A q \in older : born[q] <= born[r]) = p BY <1>1, <1>2
  <1> QED BY <1>3, <1>4

LEMMA ChainIs == IInv => ChainOrdered
  <1> SUFFICES ASSUME IInv PROVE ChainOrdered
    OBVIOUS
  <1>1. TypeInv /\ BornInv /\ HeadInv /\ LinksInv BY DEF IInv, ChainInv
  <1>2. g_pObj = NULL <=> Live = {} BY <1>1 DEF HeadInv
  <1>3. g_pObj # NULL => g_pObj \in Live /\ \A o \in Live : born[o] <= born[g_pObj]
    BY <1>1 DEF HeadInv
  <1>4. g_pObj # NULL => pPrevious[g_pObj] = NULL BY <1>1 DEF HeadInv
  <1>5. ASSUME NEW o \in Live
        PROVE  pNext[o] = Older(o) /\ (Older(o) # NULL => pPrevious[Older(o)] = o)
    <2>1. CASE pNext[o] = NULL
      <3>1. \A q \in Live : born[o] <= born[q] BY <1>1, <2>1 DEF LinksInv
      <3>2. \A q \in Live : born[q] \in Nat BY <1>1 DEF TypeInv, Live
      <3>3. {q \in Live : born[q] < born[o]} = {} BY <3>1, <3>2
      <3>4. Older(o) = NULL BY <3>3 DEF Older
      <3> QED BY <2>1, <3>4
    <2>2. CASE pNext[o] # NULL
      <3>1. pNext[o] \in Live /\ pPrevious[pNext[o]] = o /\ Follows(pNext[o], o)
        BY <1>1, <2>2 DEF LinksInv
      <3>2. Older(o) = pNext[o] BY <1>1, <3>1, OlderIs
      <3> QED BY <3>1, <3>2
    <2> QED BY <2>1, <2>2
  <1> QED BY <1>2, <1>3, <1>4, <1>5 DEF ChainOrdered

LEMMA TypesAre == IInv => TypeOK
  BY DEF IInv, TypeInv, StackInv, Stacked, TypeOK, Depth

LEMMA UniqueIs == IInv => UniqueLive
  BY DEF IInv, UniqueInv, UniqueLive, KeptBelow, InStack, Depth

LEMMA WalkIs == IInv => WalkReleases
  <1> SUFFICES ASSUME IInv, NEW i \in DOMAIN stack, stack[i].op = "Uninitialize",
                      NEW o \in stack[i].start \cap Live
               PROVE  pDispatch[o] = NULL \/ (stack[i].obj # NULL /\ born[o] <= born[stack[i].obj])
    BY DEF WalkReleases
  <1>1. StackInv /\ stack \in Seq(Frames) BY TypesStay
  <1>2. i \in 1 .. Len(stack) BY <1>1, LenProperties
  <1>3. Holds(stack[i], Live, Used, pDispatch, born) BY <1>1, <1>2 DEF StackInv, Stacked
  <1> QED BY <1>3 DEF Holds, Walked

-----------------------------------------------------------------------------
\* The inductive invariant: numbers, chain, objects, what is held, frames.
THEOREM Invariant == Spec => []IInv
  BY InitIInv, NextIInv, PTL DEF Spec

\* The variables have their types, and there are at most MaxDepth frames, each with an
\* operation, a place, an object or none, and sets of objects (ReleasePerlObject,
\* Uninitialize and EnumAllObjects when they call the script and are called by it).
THEOREM TypeInvariant == Spec => []TypeOK
  BY Invariant, TypesAre, PTL

\* AddToObjectChain and RemoveFromObjectChain keep a doubly linked list of the live
\* objects, the youngest first, whatever the order in which the script and the
\* callbacks create objects and Perl destroys them.
THEOREM ChainIsOrdered == Spec => []ChainOrdered
  BY Invariant, ChainIs, PTL

\* CreatePerlObject never hands out an object that is out of memory or stands for
\* another COM object: g_hv_unique has addresses, but ReleasePerlObject takes an
\* object's address out before the object goes.
THEOREM UniqueIsLive == Spec => []UniqueLive
  BY Invariant, UniqueIs, PTL

\* ReleasePerlObject releases for each object the reference it was created with and no
\* more, when DESTROY, a walk of Uninitialize and a walk in a callback all come to it.
THEOREM HeldIsEnough == Spec => []HeldCovers
  <1>1. IInv => HeldCovers BY DEF IInv
  <1> QED BY <1>1, Invariant, PTL

\* Uninitialize has released all the objects there were when it began and that it is
\* past, though the callbacks it makes add objects to the chain and take others off it.
THEOREM WalkHasReleased == Spec => []WalkReleases
  BY Invariant, WalkIs, PTL
=============================================================================
