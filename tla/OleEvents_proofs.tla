-------------------------- MODULE OleEvents_proofs --------------------------
(***************************************************************************)
(* What OleEvents keeps, for every number of objects, sinks, frames,       *)
(* references and events, as long as no sink is disconnected while it is   *)
(* being connected or disconnected: the references to a sink are counted,  *)
(* the server calls the sinks objects have, and no call is made through    *)
(* what is not in memory.                                                  *)
(*                                                                         *)
(* The operators take the state they speak of as arguments: the stack, the *)
(* interfaces and the sinks of the objects, the memory of the sinks, and   *)
(* the connected ones.                                                     *)
(***************************************************************************)
EXTENDS OleEvents, FiniteSetTheorems, SequenceTheorems, TLAPS

-----------------------------------------------------------------------------
(***************************************************************************)
(* The objects and the sinks                                               *)
(***************************************************************************)
TypeInv ==
  /\ memory \in [Objects -> {"live", "freed"}]
  /\ pDispatch \in [Objects -> BOOLEAN]
  /\ pEventSink \in [Objects -> Sinks \cup {NULL}]
  /\ refs \in [Objects -> 0 .. MaxRefs]
  /\ g_bInitialized \in BOOLEAN
  /\ sink \in [Sinks -> EventSinks \cup {NULL}]
  /\ made \subseteq Sinks
  /\ connected \subseteq Sinks
  /\ events \in 0 .. MaxEvents
  /\ torn \in BOOLEAN

\* What has its interface is in memory, and a sink that is in memory has been made.
MemoryInv == /\ \A o \in Objects : pDispatch[o] => o \in Live
             /\ InMemory \subseteq made

\* A frame waits for the server, which connects or disconnects s.
Waits(f, s) == f.sink = s /\ f.at \in Outgoing
BusyIn(st, s) == \E i \in 1 .. Len(st) : Waits(st[i], s)

\* The sink an object has is its own, and it is connected or being connected.
Owned(st, disp, own, heap) ==
  \A o \in Objects : own[o] # NULL =>
    /\ disp[o]
    /\ heap[own[o]] # NULL /\ heap[own[o]].m_pObj = o
    /\ \/ heap[own[o]].m_pConnectionPoint = "set"
       \/ heap[own[o]].m_pConnectionPoint = "garbage" /\ BusyIn(st, own[o])

\* The server's sinks are those objects have.
Served(own, heap, con) == \A s \in con : heap[s] # NULL /\ own[heap[s].m_pObj] = s

\* A frame calls s, and the server has counted the call.
IsCall(f, s) == f.op = "Invoke" /\ f.sink = s /\ f.more
CallsIn(st, s) == {i \in 1 .. Len(st) : IsCall(st[i], s)}

\* The references to a sink.
One(there) == IF there THEN 1 ELSE 0
Has(own, s) == \E o \in Objects : own[o] = s
Tally(st, own, con, s) == One(Has(own, s)) + One(s \in con) + Cardinality(CallsIn(st, s))
Count(heap, s) == IF heap[s] # NULL THEN heap[s].m_refcount ELSE 0
Counted(st, own, heap, con) == \A s \in Sinks : Count(heap, s) = Tally(st, own, con, s)

-----------------------------------------------------------------------------
(***************************************************************************)
(* The stack                                                               *)
(***************************************************************************)
\* Which frames there can be.
Shaped(f) ==
  \/ /\ f.op = "WithEvents" /\ f.obj \in Objects
     /\ f.at \in {"unadvise", "connect", "done"} \cup Outgoing
  \/ /\ f.op = "DESTROY" /\ f.obj \in Objects
     /\ f.at \in {"unadvise", "unadvising", "released"}
  \/ /\ f.op = "Uninitialize"
     /\ f.at \in {"walk", "unadvise", "unadvising"}
     /\ f.at # "walk" => f.obj \in Objects
  \/ /\ f.op = "Invoke" /\ f.obj \in Objects /\ f.sink \in Sinks
     /\ f.at \in {"handler", "done"}

\* A frame that waits for the server knows the object's sink.
Knows(f, own, heap, con) ==
  f.at \in Outgoing =>
    /\ f.sink # NULL /\ own[f.obj] = f.sink
    /\ f.at = "unadvising" => heap[f.sink].m_pConnectionPoint = "set"
    /\ f.at = "advise" => f.sink \notin con

\* Where a frame can be that has another one on it.
Waiting(f) == f.at \in Outgoing \cup {"handler", "done"}

\* No two frames wait for the same sink.
Apart(st) == \A i, j \in 1 .. Len(st) : i < j /\ st[i].at \in Outgoing => ~Waits(st[j], st[i].sink)

\* Frames that have another one on them, or may get one.
Below(b, own, heap, con) ==
  /\ b \in Seq(Frames)
  /\ Apart(b)
  /\ \A i \in 1 .. Len(b) : Shaped(b[i]) /\ Waiting(b[i]) /\ Knows(b[i], own, heap, con)

\* The frame on top of b: what it knows, and that no other one waits for its sink.
OnTop(f, b, disp, own, heap, con) ==
  /\ Shaped(f)
  /\ Knows(f, own, heap, con)
  /\ f.at \in Outgoing => ~BusyIn(b, f.sink)
  /\ f.op = "WithEvents" /\ f.at \in {"unadvise", "connect"} => disp[f.obj]
  /\ f.at = "connect" => own[f.obj] = NULL
  /\ f.at = "released" => ~disp[f.obj]

Under(st) == SubSeq(st, 1, Len(st) - 1)
Replaced(st, f) == [st EXCEPT ![Len(st)] = f]

Stacked(st, disp, own, heap, con) ==
  /\ st \in Seq(Frames)
  /\ st # <<>> =>
       /\ Below(Under(st), own, heap, con)
       /\ OnTop(st[Len(st)], Under(st), disp, own, heap, con)

Sound(st, disp, own, heap, con) ==
  /\ Owned(st, disp, own, heap)
  /\ Served(own, heap, con)
  /\ Counted(st, own, heap, con)
  /\ Stacked(st, disp, own, heap, con)

\* What holds as long as no sink is disconnected while it is connected or disconnected.
Good == /\ TypeInv
        /\ MemoryInv
        /\ Sound(stack, pDispatch, pEventSink, sink, connected)
        /\ crashed \notin {"sink", "object"}

IInv == ~torn => Good

-----------------------------------------------------------------------------
(***************************************************************************)
(* Stacks                                                                  *)
(***************************************************************************)
LEMMA PushIs ==
  ASSUME NEW b \in Seq(Frames), NEW f \in Frames
  PROVE  /\ Append(b, f) \in Seq(Frames)
         /\ Append(b, f) # <<>>
         /\ Len(b) \in Nat
         /\ Len(Append(b, f)) = Len(b) + 1
         /\ \A i \in 1 .. Len(b) : Append(b, f)[i] = b[i]
         /\ Append(b, f)[Len(b) + 1] = f
         /\ Under(Append(b, f)) = b
  <1> DEFINE t == Append(b, f)
  <1>1. /\ t \in Seq(Frames) /\ Len(b) \in Nat /\ Len(t) = Len(b) + 1
        /\ \A i \in 1 .. Len(b) : t[i] = b[i]
        /\ t[Len(b) + 1] = f
    BY AppendProperties, LenProperties
  <1>2. t # <<>> BY AppendProperties
  <1>3. Under(t) = b
    <2> HIDE DEF t
    <2> DEFINE n == Len(t) - 1
    <2>1. n = Len(b) /\ n \in Nat /\ n \in Int /\ 1 \in Int BY <1>1
    <2>2. \A i \in 1 .. Len(b) : b[i] \in Frames BY ElementOfSeq
    <2>3. \A i \in 1 .. n : t[i] \in Frames BY <1>1, <2>1, <2>2
    <2> HIDE DEF n
    <2>4. /\ SubSeq(t, 1, n) \in Seq(Frames)
          /\ Len(SubSeq(t, 1, n)) = IF 1 <= n THEN n - 1 + 1 ELSE 0
          /\ \A i \in 1 .. n - 1 + 1 : SubSeq(t, 1, n)[i] = t[1 + i - 1]
      BY <2>1, <2>3, SubSeqProperties
    <2>5. Len(SubSeq(t, 1, n)) = Len(b) BY <2>1, <2>4
    <2>6. ASSUME NEW i \in 1 .. Len(b) PROVE SubSeq(t, 1, n)[i] = b[i]
      <3>1. i \in 1 .. n - 1 + 1 /\ 1 + i - 1 = i BY <2>1
      <3> QED BY <1>1, <2>4, <3>1
    <2>7. SubSeq(t, 1, n) = b BY <2>4, <2>5, <2>6, SeqEqual
    <2> QED BY <2>7 DEF Under, n
  <1> QED BY <1>1, <1>2, <1>3

\* A stack is its top on what is under it.
LEMMA Split ==
  ASSUME NEW st \in Seq(Frames), st # <<>>
  PROVE  /\ Under(st) \in Seq(Frames)
         /\ st[Len(st)] \in Frames
         /\ st = Append(Under(st), st[Len(st)])
         /\ \A f \in Frames : Replaced(st, f) = Append(Under(st), f)
  <1>1. Len(st) \in Nat \ {0} BY EmptySeq, LenProperties
  <1>2. \A i \in 1 .. Len(st) : st[i] \in Frames BY ElementOfSeq
  <1>3. st[Len(st)] \in Frames BY <1>1, <1>2
  <1> DEFINE n == Len(st) - 1
             b == SubSeq(st, 1, n)
  <1>4. n \in Int /\ n \in Nat /\ 1 \in Int /\ Len(st) = n + 1 BY <1>1
  <1>5. \A i \in 1 .. n : st[i] \in Frames BY <1>2, <1>4
  <1> HIDE DEF n
  <1>6. /\ b \in Seq(Frames)
        /\ Len(b) = IF 1 <= n THEN n - 1 + 1 ELSE 0
        /\ \A i \in 1 .. n - 1 + 1 : b[i] = st[1 + i - 1]
    BY <1>4, <1>5, SubSeqProperties
  <1>7. Len(b) = n BY <1>4, <1>6
  <1>8. ASSUME NEW i \in 1 .. n PROVE b[i] = st[i]
    <2>1. i \in 1 .. n - 1 + 1 /\ 1 + i - 1 = i BY <1>4
    <2> QED BY <1>6, <2>1
  <1>9. b = Under(st) BY DEF Under, n
  <1> HIDE DEF b
  <1>10. ASSUME NEW f \in Frames PROVE Replaced(st, f) = Append(b, f)
    <2> DEFINE t == Append(b, f)
               r == Replaced(st, f)
    <2>1. /\ t \in Seq(Frames) /\ Len(t) = n + 1 /\ t[n + 1] = f
          /\ \A i \in 1 .. n : t[i] = b[i]
      BY <1>6, <1>7, PushIs
    <2>2. /\ r \in Seq(Frames) /\ Len(r) = n + 1
          /\ \A i \in 1 .. n + 1 : r[i] = IF i = n + 1 THEN f ELSE st[i]
      BY <1>1, <1>4, ExceptSeq DEF Replaced
    <2> HIDE DEF t, r
    <2>3. \A i \in 1 .. n + 1 : t[i] = r[i]
      BY <1>4, <1>8, <2>1, <2>2
    <2>4. t = r BY <2>1, <2>2, <2>3, SeqEqual
    <2> QED BY <2>4 DEF t, r
  <1>11. Replaced(st, st[Len(st)]) = st
    BY <1>1, <1>3, SeqEqual, ExceptSeq DEF Replaced
  <1> QED BY <1>3, <1>6, <1>9, <1>10, <1>11

\* Who waits, and who calls, on a stack with one more frame.
LEMMA PushBusy ==
  ASSUME NEW b \in Seq(Frames), NEW f \in Frames, NEW s
  PROVE  BusyIn(Append(b, f), s) <=> BusyIn(b, s) \/ Waits(f, s)
  <1> DEFINE t == Append(b, f)
  <1>1. /\ Len(b) \in Nat /\ Len(t) = Len(b) + 1 /\ t[Len(b) + 1] = f
        /\ \A i \in 1 .. Len(b) : t[i] = b[i]
    BY PushIs
  <1> HIDE DEF t
  <1>2. BusyIn(t, s) => BusyIn(b, s) \/ Waits(f, s) BY <1>1 DEF BusyIn
  <1>3. ASSUME BusyIn(b, s) PROVE BusyIn(t, s)
    <2>1. PICK i \in 1 .. Len(b) : Waits(b[i], s) BY <1>3 DEF BusyIn
    <2>2. i \in 1 .. Len(t) /\ t[i] = b[i] BY <1>1, <2>1
    <2> QED BY <2>1, <2>2 DEF BusyIn
  <1>4. ASSUME Waits(f, s) PROVE BusyIn(t, s)
    <2>1. Len(t) \in 1 .. Len(t) /\ t[Len(t)] = f BY <1>1
    <2> QED BY <1>4, <2>1 DEF BusyIn
  <1> QED BY <1>2, <1>3, <1>4 DEF t

LEMMA PushCalls ==
  ASSUME NEW b \in Seq(Frames), NEW f \in Frames, NEW s
  PROVE  /\ Cardinality(CallsIn(b, s)) \in Nat
         /\ Cardinality(CallsIn(Append(b, f), s)) = Cardinality(CallsIn(b, s)) + One(IsCall(f, s))
  <1> DEFINE t == Append(b, f)
  <1>1. /\ Len(b) \in Nat /\ Len(t) = Len(b) + 1 /\ t[Len(b) + 1] = f
        /\ \A i \in 1 .. Len(b) : t[i] = b[i]
    BY PushIs
  <1> HIDE DEF t
  <1> DEFINE n == Len(b) + 1
  <1>2. IsFiniteSet(1 .. Len(b)) BY <1>1, FS_Interval
  <1>3. CallsIn(b, s) \subseteq 1 .. Len(b) BY DEF CallsIn
  <1>4. IsFiniteSet(CallsIn(b, s)) BY <1>2, <1>3, FS_Subset
  <1>5. n \notin CallsIn(b, s) BY <1>1, <1>3
  <1>6. CASE IsCall(f, s)
    <2>1. CallsIn(t, s) = CallsIn(b, s) \cup {n} BY <1>1, <1>6 DEF CallsIn
    <2> QED BY <1>4, <1>5, <1>6, <2>1, FS_AddElement, FS_CardinalityType DEF One, t
  <1>7. CASE ~IsCall(f, s)
    <2>1. CallsIn(t, s) = CallsIn(b, s) BY <1>1, <1>7 DEF CallsIn
    <2>2. Cardinality(CallsIn(b, s)) \in Nat BY <1>4, FS_CardinalityType
    <2> QED BY <1>7, <2>1, <2>2 DEF One, t
  <1> QED BY <1>6, <1>7

\* A waiting frame is on top: the stack may get another one.
LEMMA PushBelow ==
  ASSUME NEW b, NEW f \in Frames, NEW disp, NEW own, NEW heap, NEW con,
         Below(b, own, heap, con), OnTop(f, b, disp, own, heap, con), Waiting(f)
  PROVE  Below(Append(b, f), own, heap, con)
  <1> DEFINE t == Append(b, f)
  <1>1. b \in Seq(Frames) BY DEF Below
  <1>2. /\ t \in Seq(Frames) /\ Len(b) \in Nat /\ Len(t) = Len(b) + 1 /\ t[Len(b) + 1] = f
        /\ \A i \in 1 .. Len(b) : t[i] = b[i]
    BY <1>1, PushIs
  <1> HIDE DEF t
  <1>3. ASSUME NEW i \in 1 .. Len(t)
        PROVE  Shaped(t[i]) /\ Waiting(t[i]) /\ Knows(t[i], own, heap, con)
    <2>1. CASE i = Len(b) + 1 BY <1>2, <2>1 DEF OnTop
    <2>2. CASE i # Len(b) + 1
      <3>1. i \in 1 .. Len(b) /\ t[i] = b[i] BY <1>2, <2>2
      <3> QED BY <3>1 DEF Below
    <2> QED BY <2>1, <2>2
  <1>4. ASSUME NEW i \in 1 .. Len(t), NEW j \in 1 .. Len(t), i < j, t[i].at \in Outgoing
        PROVE  ~Waits(t[j], t[i].sink)
    <2>1. i \in 1 .. Len(b) /\ t[i] = b[i] BY <1>2, <1>4
    <2>2. CASE j = Len(b) + 1
      <3>1. Waits(b[i], b[i].sink) BY <1>4, <2>1 DEF Waits
      <3>2. BusyIn(b, b[i].sink) BY <2>1, <3>1 DEF BusyIn
      <3>3. t[j] = f BY <1>2, <2>2
      <3> QED BY <2>1, <3>2, <3>3 DEF OnTop, Waits
    <2>3. CASE j # Len(b) + 1
      <3>1. j \in 1 .. Len(b) /\ t[j] = b[j] BY <1>2, <2>3
      <3> QED BY <1>4, <2>1, <3>1 DEF Below, Apart
    <2> QED BY <2>2, <2>3
  <1> QED BY <1>2, <1>3, <1>4 DEF Below, Apart, t

\* What is under a frame is a stack of its own.
LEMMA PopStacked ==
  ASSUME NEW b, NEW disp, NEW own, NEW heap, NEW con, Below(b, own, heap, con)
  PROVE  Stacked(b, disp, own, heap, con)
  <1>1. b \in Seq(Frames) BY DEF Below
  <1>2. CASE b = <<>> BY <1>1, <1>2 DEF Stacked
  <1>3. CASE b # <<>>
    <2> DEFINE u == Under(b)
               f == b[Len(b)]
    <2>1. u \in Seq(Frames) /\ f \in Frames /\ b = Append(u, f) BY <1>1, <1>3, Split
    <2> HIDE DEF u, f
    <2>2. /\ Len(u) \in Nat /\ Len(b) = Len(u) + 1 /\ b[Len(u) + 1] = f
          /\ \A i \in 1 .. Len(u) : b[i] = u[i]
      BY <2>1, PushIs
    <2>3. Len(b) \in 1 .. Len(b) /\ b[Len(b)] = f BY <2>2
    <2>4. \A i \in 1 .. Len(u) : i \in 1 .. Len(b) /\ i < Len(b) /\ u[i] = b[i] BY <2>2
    <2>5. Below(u, own, heap, con)
      <3>1. \A i \in 1 .. Len(u) : Shaped(u[i]) /\ Waiting(u[i]) /\ Knows(u[i], own, heap, con)
        BY <2>4 DEF Below
      <3>2. Apart(u) BY <2>4 DEF Below, Apart
      <3> QED BY <2>1, <3>1, <3>2 DEF Below
    <2>6. Shaped(f) /\ Waiting(f) /\ Knows(f, own, heap, con) BY <2>3 DEF Below
    <2>7. ASSUME f.at \in Outgoing, BusyIn(u, f.sink) PROVE FALSE
      <3>1. PICK i \in 1 .. Len(u) : Waits(u[i], f.sink) BY <2>7 DEF BusyIn
      <3>2. /\ i \in 1 .. Len(b) /\ i < Len(b) /\ b[i] = u[i]
            /\ b[i].at \in Outgoing /\ b[i].sink = f.sink
        BY <2>4, <3>1 DEF Waits
      <3>3. ~Waits(b[Len(b)], b[i].sink) BY <2>3, <3>2 DEF Below, Apart
      <3> QED BY <2>3, <2>7, <3>2, <3>3 DEF Waits
    <2>8. OnTop(f, u, disp, own, heap, con)
      BY <2>6, <2>7 DEF OnTop, Waiting, Outgoing
    <2> QED BY <1>1, <2>5, <2>8 DEF Stacked, u, f
  <1> QED BY <1>2, <1>3

\* A frame on top of others is a stack.
LEMMA PushStacked ==
  ASSUME NEW b, NEW f \in Frames, NEW disp, NEW own, NEW heap, NEW con,
         Below(b, own, heap, con), OnTop(f, b, disp, own, heap, con)
  PROVE  Stacked(Append(b, f), disp, own, heap, con)
  <1> DEFINE t == Append(b, f)
  <1>1. b \in Seq(Frames) BY DEF Below
  <1>2. /\ t \in Seq(Frames) /\ Len(t) = Len(b) + 1 /\ t[Len(b) + 1] = f /\ Under(t) = b
    BY <1>1, PushIs
  <1> HIDE DEF t
  <1> QED BY <1>2 DEF Stacked, t

\* The script runs, or the server may call: what there is may get a frame on it.
LEMMA WaitingBelow ==
  ASSUME NEW st, NEW disp, NEW own, NEW heap, NEW con, Stacked(st, disp, own, heap, con),
         st # <<>> => Waiting(st[Len(st)])
  PROVE  Below(st, own, heap, con)
  <1>1. st \in Seq(Frames) BY DEF Stacked
  <1>2. CASE st = <<>>
    <2>1. Len(st) = 0 BY <1>2
    <2> QED BY <1>1, <2>1 DEF Below, Apart
  <1>3. CASE st # <<>>
    <2>1. st[Len(st)] \in Frames /\ st = Append(Under(st), st[Len(st)]) BY <1>1, <1>3, Split
    <2>2. /\ Below(Under(st), own, heap, con)
          /\ OnTop(st[Len(st)], Under(st), disp, own, heap, con)
      BY <1>3 DEF Stacked
    <2>3. Below(Append(Under(st), st[Len(st)]), own, heap, con)
      BY <1>3, <2>1, <2>2, PushBelow
    <2> QED BY <2>1, <2>3
  <1> QED BY <1>2, <1>3

-----------------------------------------------------------------------------
(***************************************************************************)
(* Changes of the sinks and what stacks say of them                        *)
(***************************************************************************)
Heaps == [Sinks -> EventSinks \cup {NULL}]
Pointers == [Objects -> Sinks \cup {NULL}]

\* What a frame that waits for the server has.
LEMMA WaitsFor ==
  ASSUME NEW f \in Frames, Shaped(f), f.at \in Outgoing, NEW own, NEW heap, NEW con,
         Knows(f, own, heap, con)
  PROVE  /\ f.obj \in Objects /\ f.sink \in Sinks /\ own[f.obj] = f.sink
         /\ f.op # "Invoke"
  <1>1. f.obj \in Objects /\ f.op # "Invoke" BY DEF Shaped, Outgoing
  <1>2. f.sink \in Sinks \cup {NULL} /\ f.sink # NULL /\ own[f.obj] = f.sink BY DEF Frames, Knows
  <1> QED BY <1>1, <1>2

\* Only s changes, and who has it.
OnlyOf(s, own, heap, con, own2, heap2, con2) ==
  /\ \A o \in Objects : own2[o] = own[o] \/ own[o] = NULL \/ own[o] = s
  /\ \A x \in Sinks \ {s} : heap2[x] = heap[x]
  /\ con2 \subseteq con \cup {s}

\* A sink that no frame waits for changes.
LEMMA BelowElsewhere ==
  ASSUME NEW b, NEW own, NEW heap, NEW con, NEW own2, NEW heap2, NEW con2, NEW s,
         Below(b, own, heap, con), ~BusyIn(b, s),
         OnlyOf(s, own, heap, con, own2, heap2, con2)
  PROVE  Below(b, own2, heap2, con2)
  <1>1. b \in Seq(Frames) BY DEF Below
  <1>2. ASSUME NEW i \in 1 .. Len(b), b[i].at \in Outgoing
        PROVE  Knows(b[i], own2, heap2, con2)
    <2> DEFINE f == b[i]
    <2>1. f \in Frames BY <1>1, ElementOfSeq
    <2>2. Shaped(f) /\ Knows(f, own, heap, con) BY DEF Below
    <2>3. ~Waits(f, s) BY DEF BusyIn
    <2>4. f.at \in Outgoing BY <1>2
    <2> HIDE DEF f
    <2>5. f.obj \in Objects /\ f.sink \in Sinks /\ own[f.obj] = f.sink
      BY <2>1, <2>2, <2>4, WaitsFor
    <2>6. f.sink # s BY <2>3, <2>4 DEF Waits
    <2>7. own2[f.obj] = f.sink BY <2>5, <2>6, NullAssumption DEF OnlyOf
    <2>8. heap2[f.sink] = heap[f.sink] BY <2>5, <2>6 DEF OnlyOf
    <2>9. f.sink \in con2 => f.sink \in con BY <2>6 DEF OnlyOf
    <2>10. Knows(f, own2, heap2, con2) BY <2>2, <2>7, <2>8, <2>9 DEF Knows
    <2> QED BY <2>10 DEF f
  <1>3. \A i \in 1 .. Len(b) : Knows(b[i], own2, heap2, con2) BY <1>2 DEF Knows
  <1> QED BY <1>3 DEF Below

\* The sinks objects have keep their connection points.
LEMMA BelowSame ==
  ASSUME NEW b, NEW own, NEW heap, NEW con, NEW heap2,
         Below(b, own, heap, con),
         \A x \in Sinks : Has(own, x) =>
           heap2[x].m_pConnectionPoint = heap[x].m_pConnectionPoint
  PROVE  Below(b, own, heap2, con)
  <1>1. b \in Seq(Frames) BY DEF Below
  <1>2. ASSUME NEW i \in 1 .. Len(b), b[i].at \in Outgoing
        PROVE  Knows(b[i], own, heap2, con)
    <2> DEFINE f == b[i]
    <2>1. f \in Frames BY <1>1, ElementOfSeq
    <2>2. Shaped(f) /\ Knows(f, own, heap, con) BY DEF Below
    <2>3. f.at \in Outgoing BY <1>2
    <2> HIDE DEF f
    <2>4. f.obj \in Objects /\ f.sink \in Sinks /\ own[f.obj] = f.sink
      BY <2>1, <2>2, <2>3, WaitsFor
    <2>5. heap2[f.sink].m_pConnectionPoint = heap[f.sink].m_pConnectionPoint
      BY <2>4 DEF Has
    <2>6. Knows(f, own, heap2, con) BY <2>2, <2>5 DEF Knows
    <2> QED BY <2>6 DEF f
  <1>3. \A i \in 1 .. Len(b) : Knows(b[i], own, heap2, con) BY <1>2 DEF Knows
  <1> QED BY <1>3 DEF Below

\* Release, of a sink with as many references.
LEMMA ReleaseIs ==
  ASSUME NEW heap \in Heaps, NEW s \in Sinks, NEW n \in Nat, heap[s] # NULL,
         heap[s].m_refcount >= n
  PROVE  /\ Release(heap, s, n) \in Heaps
         /\ \A x \in Sinks \ {s} : Release(heap, s, n)[x] = heap[x]
         /\ Count(Release(heap, s, n), s) = heap[s].m_refcount - n
         /\ heap[s].m_refcount > n =>
              /\ Release(heap, s, n)[s] # NULL
              /\ Release(heap, s, n)[s].m_pObj = heap[s].m_pObj
              /\ Release(heap, s, n)[s].m_pConnectionPoint = heap[s].m_pConnectionPoint
  <1> DEFINE r == heap[s]
             left == r.m_refcount - n
             e == [r EXCEPT !.m_refcount = left]
             h == Release(heap, s, n)
  <1>1. r \in EventSinks BY DEF Heaps
  <1>2. r.m_refcount \in Nat /\ left \in Nat BY <1>1 DEF EventSinks
  <1> HIDE DEF left
  <1>3. e \in EventSinks BY <1>1, <1>2 DEF EventSinks
  <1>4. /\ e.m_refcount = left /\ e.m_pObj = r.m_pObj
        /\ e.m_pConnectionPoint = r.m_pConnectionPoint
    BY <1>1 DEF EventSinks
  <1>5. e # NULL BY <1>3, PointerAssumption
  <1>6. r # NULL /\ r = heap[s] /\ left = r.m_refcount - n BY DEF left
  <1>7. h = [heap EXCEPT ![s] = IF left = 0 THEN NULL ELSE e] BY DEF Release, left
  <1> HIDE DEF r, e, h
  <1>8. /\ h \in Heaps
        /\ \A x \in Sinks \ {s} : h[x] = heap[x]
        /\ h[s] = IF left = 0 THEN NULL ELSE e
    BY <1>3, <1>7 DEF Heaps
  <1>9. Count(h, s) = left
    <2>1. CASE left = 0 BY <1>8, <2>1 DEF Count
    <2>2. CASE left # 0 BY <1>4, <1>5, <1>8, <2>2 DEF Count
    <2> QED BY <2>1, <2>2
  <1>10. r.m_refcount > n =>
           /\ h[s] # NULL /\ h[s].m_pObj = r.m_pObj
           /\ h[s].m_pConnectionPoint = r.m_pConnectionPoint
    BY <1>2, <1>4, <1>5, <1>6, <1>8
  <1> QED BY <1>6, <1>8, <1>9, <1>10 DEF h

\* A sink has one object.
LEMMA OneOwner ==
  ASSUME NEW st, NEW disp, NEW own, NEW heap, Owned(st, disp, own, heap),
         NEW o \in Objects, NEW p \in Objects, own[o] # NULL, own[p] = own[o]
  PROVE  p = o
  BY DEF Owned

\* What the references to a sink sum up to.
LEMMA TallyIs ==
  ASSUME NEW st \in Seq(Frames), NEW own, NEW con, NEW s
  PROVE  /\ Cardinality(CallsIn(st, s)) \in Nat
         /\ Tally(st, own, con, s) \in Nat
         /\ Has(own, s) => Tally(st, own, con, s) >= 1
         /\ s \in con => Tally(st, own, con, s) >= 1
         /\ Has(own, s) /\ s \in con => Tally(st, own, con, s) >= 2
  <1>1. Cardinality(CallsIn(st, s)) \in Nat
    <2>1. CASE st = <<>>
      <3>1. CallsIn(st, s) = {} BY <2>1 DEF CallsIn
      <3> QED BY <3>1, FS_EmptySet
    <2>2. CASE st # <<>>
      <3> DEFINE b == Under(st)
                 f == st[Len(st)]
      <3>1. b \in Seq(Frames) /\ f \in Frames /\ st = Append(b, f) BY <2>2, Split
      <3> HIDE DEF b, f
      <3>2. /\ Cardinality(CallsIn(b, s)) \in Nat
            /\ Cardinality(CallsIn(st, s)) = Cardinality(CallsIn(b, s)) + One(IsCall(f, s))
        BY <3>1, PushCalls
      <3>3. One(IsCall(f, s)) \in Nat BY DEF One
      <3> QED BY <3>2, <3>3
    <2> QED BY <2>1, <2>2
  <1> QED BY <1>1 DEF Tally, One

\* Another stack, of which the sinks know no less, and objects without one lose their
\* interface.
LEMMA QuietSound ==
  ASSUME NEW st, NEW t, NEW disp, NEW disp2, NEW own, NEW heap, NEW con,
         Sound(st, disp, own, heap, con), Stacked(t, disp2, own, heap, con),
         \A s \in Sinks : BusyIn(st, s) => BusyIn(t, s),
         \A s \in Sinks : Cardinality(CallsIn(t, s)) = Cardinality(CallsIn(st, s)),
         own \in Pointers, \A o \in Objects : own[o] # NULL /\ disp[o] => disp2[o]
  PROVE  Sound(t, disp2, own, heap, con)
  <1>1. Owned(t, disp2, own, heap)
    <2>1. ASSUME NEW o \in Objects, own[o] # NULL PROVE own[o] \in Sinks BY <2>1 DEF Pointers
    <2> QED BY <2>1 DEF Sound, Owned
  <1>2. Counted(t, own, heap, con) BY DEF Sound, Counted, Tally
  <1> QED BY <1>1, <1>2 DEF Sound

\* A frame that waits for no server, and is no call, is pushed;
LEMMA PushQuiet ==
  ASSUME NEW st, NEW f \in Frames, NEW disp, NEW own \in Pointers, NEW heap, NEW con,
         Sound(st, disp, own, heap, con), st # <<>> => Waiting(st[Len(st)]),
         OnTop(f, st, disp, own, heap, con), f.at \notin Outgoing, f.op # "Invoke"
  PROVE  Sound(Append(st, f), disp, own, heap, con)
  <1>1. Stacked(st, disp, own, heap, con) BY DEF Sound
  <1>2. Below(st, own, heap, con) BY <1>1, WaitingBelow
  <1>3. Stacked(Append(st, f), disp, own, heap, con) BY <1>2, PushStacked
  <1>4. st \in Seq(Frames) BY <1>2 DEF Below
  <1>5. ASSUME NEW s
        PROVE  /\ BusyIn(st, s) => BusyIn(Append(st, f), s)
               /\ Cardinality(CallsIn(Append(st, f), s)) = Cardinality(CallsIn(st, s))
    <2>1. BusyIn(st, s) => BusyIn(Append(st, f), s) BY <1>4, PushBusy
    <2>2. One(IsCall(f, s)) = 0 BY DEF One, IsCall
    <2>3. /\ Cardinality(CallsIn(st, s)) \in Nat
          /\ Cardinality(CallsIn(Append(st, f), s)) = Cardinality(CallsIn(st, s)) + 0
      BY <1>4, <2>2, PushCalls
    <2> QED BY <2>1, <2>3
  <1> QED BY <1>3, <1>5, QuietSound

\* goes on, and its object may lose the interface;
LEMMA BecomeQuiet ==
  ASSUME NEW b, NEW f \in Frames, NEW g \in Frames,
         NEW disp, NEW disp2, NEW own \in Pointers, NEW heap, NEW con,
         Sound(Append(b, f), disp, own, heap, con), Below(b, own, heap, con),
         OnTop(g, b, disp2, own, heap, con), f.at \notin Outgoing, g.op = f.op,
         g.op = "Invoke" => g.sink = f.sink /\ g.more = f.more,
         \A o \in Objects : own[o] # NULL /\ disp[o] => disp2[o]
  PROVE  Sound(Append(b, g), disp2, own, heap, con)
  <1>1. b \in Seq(Frames) BY DEF Below
  <1>2. Stacked(Append(b, g), disp2, own, heap, con) BY PushStacked
  <1>3. ASSUME NEW s
        PROVE  /\ BusyIn(Append(b, f), s) => BusyIn(Append(b, g), s)
               /\ Cardinality(CallsIn(Append(b, g), s)) = Cardinality(CallsIn(Append(b, f), s))
    <2>1. ~Waits(f, s) BY DEF Waits
    <2>2. BusyIn(Append(b, f), s) => BusyIn(Append(b, g), s) BY <1>1, <2>1, PushBusy
    <2>3. IsCall(g, s) <=> IsCall(f, s) BY DEF IsCall
    <2>4. One(IsCall(g, s)) = One(IsCall(f, s)) BY <2>3 DEF One
    <2> QED BY <1>1, <2>2, <2>4, PushCalls
  <1> QED BY <1>2, <1>3, QuietSound

\* and is popped.
LEMMA PopQuiet ==
  ASSUME NEW b, NEW f \in Frames,
         NEW disp, NEW own \in Pointers, NEW heap, NEW con,
         Sound(Append(b, f), disp, own, heap, con), Below(b, own, heap, con),
         f.at \notin Outgoing, f.op # "Invoke"
  PROVE  Sound(b, disp, own, heap, con)
  <1>1. b \in Seq(Frames) BY DEF Below
  <1>2. Stacked(b, disp, own, heap, con) BY PopStacked
  <1>3. ASSUME NEW s
        PROVE  /\ BusyIn(Append(b, f), s) => BusyIn(b, s)
               /\ Cardinality(CallsIn(b, s)) = Cardinality(CallsIn(Append(b, f), s))
    <2>1. ~Waits(f, s) /\ One(IsCall(f, s)) = 0 BY DEF Waits, One, IsCall
    <2>2. BusyIn(Append(b, f), s) => BusyIn(b, s) BY <1>1, <2>1, PushBusy
    <2>3. /\ Cardinality(CallsIn(b, s)) \in Nat
          /\ Cardinality(CallsIn(Append(b, f), s)) = Cardinality(CallsIn(b, s)) + 0
      BY <1>1, <2>1, PushCalls
    <2> QED BY <2>2, <2>3
  <1> QED BY <1>2, <1>3, QuietSound

\* The frame on top parts an object from its sink: the references of the object and of
\* the server go.
LEMMA PartSound ==
  ASSUME NEW b, NEW f \in Frames, NEW g \in Frames, NEW o \in Objects, NEW s \in Sinks,
         NEW disp, NEW own \in Pointers, NEW heap \in Heaps, NEW con,
         NEW disp2, NEW own2, NEW heap2, NEW con2,
         Sound(Append(b, f), disp, own, heap, con), Below(b, own, heap, con),
         OnTop(f, b, disp, own, heap, con), f.at \in Outgoing, f.obj = o, f.sink = s,
         \A p \in Objects \ {o} : disp2[p] = disp[p],
         own2 = [own EXCEPT ![o] = NULL],
         \A x \in Sinks \ {s} : heap2[x] = heap[x],
         con \subseteq Sinks, con2 = con \ {s},
         Count(heap2, s) = Count(heap, s) - 1 - One(s \in con),
         g.at \notin Outgoing, g.op # "Invoke",
         Below(b, own2, heap2, con2) => OnTop(g, b, disp2, own2, heap2, con2)
  PROVE  Sound(Append(b, g), disp2, own2, heap2, con2)
  <1>1. b \in Seq(Frames) BY DEF Below
  <1>2. Knows(f, own, heap, con) /\ Shaped(f) /\ ~BusyIn(b, s) BY DEF OnTop
  <1>3. own[o] = s /\ f.op # "Invoke" BY <1>2, WaitsFor
  <1>4. own2[o] = NULL /\ \A p \in Objects \ {o} : own2[p] = own[p] BY DEF Pointers
  <1>5. s # NULL BY NullAssumption
  <1>6. Below(b, own2, heap2, con2)
    <2>1. \A p \in Objects : own2[p] = own[p] \/ own[p] = NULL \/ own[p] = s BY <1>3, <1>4
    <2>2. con2 \subseteq con \cup {s} OBVIOUS
    <2>3. OnlyOf(s, own, heap, con, own2, heap2, con2) BY <2>1, <2>2 DEF OnlyOf
    <2> QED BY <1>2, <2>3, BelowElsewhere
  <1>7. Stacked(Append(b, g), disp2, own2, heap2, con2) BY <1>6, PushStacked
  <1>8. /\ Owned(Append(b, f), disp, own, heap) /\ Served(own, heap, con)
        /\ Counted(Append(b, f), own, heap, con)
    BY DEF Sound
  <1>9. \A p \in Objects : own[p] = s => p = o BY <1>3, <1>5, <1>8, OneOwner
  <1>10. Owned(Append(b, g), disp2, own2, heap2)
    <2>1. SUFFICES ASSUME NEW p \in Objects, own2[p] # NULL
                   PROVE  /\ disp2[p]
                          /\ heap2[own2[p]] # NULL /\ heap2[own2[p]].m_pObj = p
                          /\ \/ heap2[own2[p]].m_pConnectionPoint = "set"
                             \/ /\ heap2[own2[p]].m_pConnectionPoint = "garbage"
                                /\ BusyIn(Append(b, g), own2[p])
      BY DEF Owned
    <2> DEFINE x == own[p]
    <2>2. p # o /\ own2[p] = x /\ x # NULL BY <1>4, <2>1
    <2>3. x \in Sinks \ {s} BY <1>9, <2>2 DEF Pointers
    <2>4. /\ disp[p] /\ heap[x] # NULL /\ heap[x].m_pObj = p
          /\ \/ heap[x].m_pConnectionPoint = "set"
             \/ heap[x].m_pConnectionPoint = "garbage" /\ BusyIn(Append(b, f), x)
      BY <1>8, <2>2 DEF Owned
    <2> HIDE DEF x
    <2>5. heap2[x] = heap[x] /\ disp2[p] = disp[p] BY <2>2, <2>3
    <2>6. ~Waits(f, x) BY <2>3 DEF Waits
    <2>7. BusyIn(Append(b, f), x) => BusyIn(Append(b, g), x) BY <1>1, <2>6, PushBusy
    <2> QED BY <2>2, <2>4, <2>5, <2>7
  <1>11. Served(own2, heap2, con2)
    <2>1. SUFFICES ASSUME NEW x \in con2 PROVE heap2[x] # NULL /\ own2[heap2[x].m_pObj] = x
      BY DEF Served
    <2>2. x \in con /\ x \in Sinks \ {s} OBVIOUS
    <2>3. heap[x] # NULL /\ own[heap[x].m_pObj] = x /\ heap2[x] = heap[x]
      BY <1>8, <2>2 DEF Served
    <2>4. heap[x].m_pObj \in Objects BY <2>2, <2>3 DEF Heaps, EventSinks
    <2>5. heap[x].m_pObj # o BY <1>3, <2>2, <2>3
    <2> QED BY <1>4, <2>3, <2>4, <2>5
  <1>12. Counted(Append(b, g), own2, heap2, con2)
    <2>1. SUFFICES ASSUME NEW x \in Sinks
                   PROVE  Count(heap2, x) = Tally(Append(b, g), own2, con2, x)
      BY DEF Counted
    <2>2. One(IsCall(f, x)) = 0 /\ One(IsCall(g, x)) = 0 BY <1>3 DEF One, IsCall
    <2>3. /\ Cardinality(CallsIn(b, x)) \in Nat
          /\ Cardinality(CallsIn(Append(b, f), x)) = Cardinality(CallsIn(b, x)) + 0
          /\ Cardinality(CallsIn(Append(b, g), x)) = Cardinality(CallsIn(b, x)) + 0
      BY <1>1, <2>2, PushCalls
    <2>4. Cardinality(CallsIn(Append(b, g), x)) = Cardinality(CallsIn(Append(b, f), x))
      BY <2>3
    <2>5. Count(heap, x) = Tally(Append(b, f), own, con, x) BY <1>8 DEF Counted
    <2>6. CASE x # s
      <3>1. Count(heap2, x) = Count(heap, x) BY <2>6 DEF Count
      <3>2. Has(own2, x) <=> Has(own, x)
        <4>1. x # NULL BY NullAssumption
        <4> QED BY <1>3, <1>4, <2>6, <4>1 DEF Has
      <3>3. x \in con2 <=> x \in con BY <2>6
      <3>4. One(Has(own2, x)) = One(Has(own, x)) /\ One(x \in con2) = One(x \in con)
        BY <3>2, <3>3 DEF One
      <3> QED BY <2>4, <2>5, <3>1, <3>4 DEF Tally
    <2>7. CASE x = s
      <3>1. Has(own, s) BY <1>3 DEF Has
      <3>2. ~Has(own2, s) BY <1>4, <1>5, <1>9 DEF Has
      <3>3. s \notin con2 OBVIOUS
      <3>4. One(Has(own, s)) = 1 /\ One(Has(own2, s)) = 0 /\ One(s \in con2) = 0
        BY <3>1, <3>2, <3>3 DEF One
      <3>5. One(s \in con) \in Nat BY DEF One
      <3>6. Count(heap, s) = 1 + One(s \in con) + Cardinality(CallsIn(b, s))
        BY <2>3, <2>5, <2>7, <3>4, <3>5 DEF Tally
      <3>7. Count(heap2, s) = Cardinality(CallsIn(b, s)) BY <2>3, <2>7, <3>5, <3>6
      <3>8. Tally(Append(b, g), own2, con2, s) = Cardinality(CallsIn(b, s))
        BY <2>3, <2>7, <3>4 DEF Tally
      <3> QED BY <2>7, <3>7, <3>8
    <2> QED BY <2>6, <2>7
  <1> QED BY <1>7, <1>10, <1>11, <1>12 DEF Sound

\* The frame on top makes a sink for the object: nothing refers to it but the object.
LEMMA JoinSound ==
  ASSUME NEW b, NEW f \in Frames, NEW g \in Frames, NEW o \in Objects, NEW s \in Sinks,
         NEW disp, NEW own \in Pointers, NEW heap \in Heaps, NEW con \in SUBSET Sinks,
         NEW own2, NEW heap2,
         Sound(Append(b, f), disp, own, heap, con), Below(b, own, heap, con),
         OnTop(f, b, disp, own, heap, con),
         f.op = "WithEvents", f.at = "connect", f.obj = o, heap[s] = NULL,
         g.op = "WithEvents", g.at = "advise", g.obj = o, g.sink = s,
         own2 = [own EXCEPT ![o] = s], heap2 = [heap EXCEPT ![s] = NewSink(o)]
  PROVE  Sound(Append(b, g), disp, own2, heap2, con)
  <1>1. b \in Seq(Frames) BY DEF Below
  <1>2. disp[o] /\ own[o] = NULL BY DEF OnTop
  <1>3. own2[o] = s /\ \A p \in Objects \ {o} : own2[p] = own[p] BY DEF Pointers
  <1>4. s # NULL BY NullAssumption
  <1>5. /\ Owned(Append(b, f), disp, own, heap) /\ Served(own, heap, con)
        /\ Counted(Append(b, f), own, heap, con)
    BY DEF Sound
  <1>6. NewSink(o) \in EventSinks
    BY DEF NewSink, EventSinks
  <1>7. NewSink(o) # NULL BY <1>6, PointerAssumption
  <1>8. /\ heap2[s] = NewSink(o)
        /\ \A x \in Sinks \ {s} : heap2[x] = heap[x]
    BY DEF Heaps
  <1>9. /\ NewSink(o).m_pObj = o /\ NewSink(o).m_refcount = 1
        /\ NewSink(o).m_pConnectionPoint = "garbage"
    BY DEF NewSink
  <1>10. ~Has(own, s)
    <2>1. \A p \in Objects : own[p] = s => heap[s] # NULL BY <1>4, <1>5 DEF Owned
    <2> QED BY <2>1 DEF Has
  <1>11. s \notin con BY <1>5 DEF Served
  <1>12. ~BusyIn(b, s)
    <2>1. ASSUME NEW i \in 1 .. Len(b), Waits(b[i], s) PROVE FALSE
      <3>1. b[i] \in Frames BY <1>1, ElementOfSeq
      <3>2. Shaped(b[i]) /\ Knows(b[i], own, heap, con) /\ b[i].at \in Outgoing /\ b[i].sink = s
        BY <2>1 DEF Below, Waits
      <3>3. b[i].obj \in Objects /\ own[b[i].obj] = s BY <3>1, <3>2, WaitsFor
      <3> QED BY <1>10, <3>3 DEF Has
    <2> QED BY <2>1 DEF BusyIn
  <1>13. Below(b, own2, heap2, con)
    <2>1. \A p \in Objects : own2[p] = own[p] \/ own[p] = NULL \/ own[p] = s BY <1>2, <1>3
    <2>2. OnlyOf(s, own, heap, con, own2, heap2, con) BY <1>8, <2>1 DEF OnlyOf
    <2> QED BY <1>12, <2>2, BelowElsewhere
  <1>14. OnTop(g, b, disp, own2, heap2, con)
    <2>1. Shaped(g) BY DEF Shaped, Outgoing
    <2>2. Knows(g, own2, heap2, con) BY <1>3, <1>4, <1>11 DEF Knows
    <2> QED BY <1>12, <2>1, <2>2 DEF OnTop
  <1>15. Stacked(Append(b, g), disp, own2, heap2, con) BY <1>13, <1>14, PushStacked
  <1>16. Owned(Append(b, g), disp, own2, heap2)
    <2>1. SUFFICES ASSUME NEW p \in Objects, own2[p] # NULL
                   PROVE  /\ disp[p]
                          /\ heap2[own2[p]] # NULL /\ heap2[own2[p]].m_pObj = p
                          /\ \/ heap2[own2[p]].m_pConnectionPoint = "set"
                             \/ /\ heap2[own2[p]].m_pConnectionPoint = "garbage"
                                /\ BusyIn(Append(b, g), own2[p])
      BY DEF Owned
    <2>2. CASE p = o
      <3>1. Waits(g, s) BY DEF Waits, Outgoing
      <3>2. BusyIn(Append(b, g), s) BY <1>1, <3>1, PushBusy
      <3> QED BY <1>2, <1>3, <1>7, <1>8, <1>9, <2>2, <3>2
    <2>3. CASE p # o
      <3> DEFINE x == own[p]
      <3>1. own2[p] = x /\ x # NULL BY <1>3, <2>1, <2>3
      <3>2. x \in Sinks \ {s} BY <1>10, <3>1 DEF Pointers, Has
      <3>3. /\ disp[p] /\ heap[x] # NULL /\ heap[x].m_pObj = p
            /\ \/ heap[x].m_pConnectionPoint = "set"
               \/ heap[x].m_pConnectionPoint = "garbage" /\ BusyIn(Append(b, f), x)
        BY <1>5, <3>1 DEF Owned
      <3> HIDE DEF x
      <3>4. ~Waits(f, x) BY DEF Waits, Outgoing
      <3>5. BusyIn(Append(b, f), x) => BusyIn(Append(b, g), x) BY <1>1, <3>4, PushBusy
      <3> QED BY <1>8, <3>1, <3>2, <3>3, <3>5
    <2> QED BY <2>2, <2>3
  <1>17. Served(own2, heap2, con)
    <2>1. SUFFICES ASSUME NEW x \in con PROVE heap2[x] # NULL /\ own2[heap2[x].m_pObj] = x
      BY DEF Served
    <2>2. x \in Sinks \ {s} BY <1>11
    <2>3. heap[x] # NULL /\ own[heap[x].m_pObj] = x /\ heap2[x] = heap[x]
      BY <1>5, <1>8, <2>2 DEF Served
    <2>4. heap[x].m_pObj \in Objects BY <2>2, <2>3 DEF Heaps, EventSinks
    <2>5. heap[x].m_pObj # o
      <3>1. x # NULL BY <2>2, NullAssumption
      <3> QED BY <1>2, <2>3, <3>1
    <2> QED BY <1>3, <2>3, <2>4, <2>5
  <1>18. Counted(Append(b, g), own2, heap2, con)
    <2>1. SUFFICES ASSUME NEW x \in Sinks
                   PROVE  Count(heap2, x) = Tally(Append(b, g), own2, con, x)
      BY DEF Counted
    <2>2. One(IsCall(f, x)) = 0 /\ One(IsCall(g, x)) = 0 BY DEF One, IsCall
    <2>3. /\ Cardinality(CallsIn(b, x)) \in Nat
          /\ Cardinality(CallsIn(Append(b, f), x)) = Cardinality(CallsIn(b, x)) + 0
          /\ Cardinality(CallsIn(Append(b, g), x)) = Cardinality(CallsIn(b, x)) + 0
      BY <1>1, <2>2, PushCalls
    <2>4. Cardinality(CallsIn(Append(b, g), x)) = Cardinality(CallsIn(Append(b, f), x))
      BY <2>3
    <2>5. Count(heap, x) = Tally(Append(b, f), own, con, x) BY <1>5 DEF Counted
    <2>6. CASE x # s
      <3>1. Count(heap2, x) = Count(heap, x) BY <1>8, <2>6 DEF Count
      <3>2. Has(own2, x) <=> Has(own, x)
        <4>1. x # NULL BY NullAssumption
        <4> QED BY <1>2, <1>3, <2>6, <4>1 DEF Has
      <3>3. One(Has(own2, x)) = One(Has(own, x)) BY <3>2 DEF One
      <3> QED BY <2>4, <2>5, <3>1, <3>3 DEF Tally
    <2>7. CASE x = s
      <3>1. Has(own2, s) BY <1>3 DEF Has
      <3>2. One(Has(own, s)) = 0 /\ One(Has(own2, s)) = 1 /\ One(s \in con) = 0
        BY <1>10, <1>11, <3>1 DEF One
      <3>3. Count(heap, s) = 0 /\ Count(heap2, s) = 1 BY <1>7, <1>8, <1>9 DEF Count
      <3>4. Cardinality(CallsIn(b, s)) = 0 BY <2>3, <2>5, <2>7, <3>2, <3>3 DEF Tally
      <3> QED BY <2>3, <2>7, <3>2, <3>3, <3>4 DEF Tally
    <2> QED BY <2>6, <2>7
  <1> QED BY <1>15, <1>16, <1>17, <1>18 DEF Sound

\* The memory of the sinks changes, but not what the sinks in use point at.
Alike(own, heap, con, heap2) ==
  \A x \in Sinks : Has(own, x) \/ x \in con =>
    /\ heap2[x] # NULL /\ heap2[x].m_pObj = heap[x].m_pObj
    /\ heap2[x].m_pConnectionPoint = heap[x].m_pConnectionPoint

LEMMA AlikeSound ==
  ASSUME NEW st, NEW t, NEW disp, NEW own \in Pointers, NEW heap, NEW con \in SUBSET Sinks,
         NEW heap2,
         Sound(st, disp, own, heap, con), Alike(own, heap, con, heap2),
         Stacked(t, disp, own, heap2, con), Counted(t, own, heap2, con),
         \A s \in Sinks : BusyIn(st, s) => BusyIn(t, s)
  PROVE  Sound(t, disp, own, heap2, con)
  <1>1. Owned(st, disp, own, heap) /\ Served(own, heap, con) BY DEF Sound
  <1>2. Owned(t, disp, own, heap2)
    <2>1. SUFFICES ASSUME NEW p \in Objects, own[p] # NULL
                   PROVE  /\ disp[p]
                          /\ heap2[own[p]] # NULL /\ heap2[own[p]].m_pObj = p
                          /\ \/ heap2[own[p]].m_pConnectionPoint = "set"
                             \/ /\ heap2[own[p]].m_pConnectionPoint = "garbage"
                                /\ BusyIn(t, own[p])
      BY DEF Owned
    <2> DEFINE x == own[p]
    <2>2. x \in Sinks BY <2>1 DEF Pointers
    <2>3. Has(own, x) BY DEF Has
    <2>4. /\ disp[p] /\ heap[x] # NULL /\ heap[x].m_pObj = p
          /\ \/ heap[x].m_pConnectionPoint = "set"
             \/ heap[x].m_pConnectionPoint = "garbage" /\ BusyIn(st, x)
      BY <1>1, <2>1 DEF Owned
    <2> HIDE DEF x
    <2>5. /\ heap2[x] # NULL /\ heap2[x].m_pObj = heap[x].m_pObj
          /\ heap2[x].m_pConnectionPoint = heap[x].m_pConnectionPoint
      BY <2>2, <2>3 DEF Alike
    <2>6. BusyIn(st, x) => BusyIn(t, x) BY <2>2
    <2>7. /\ disp[p] /\ heap2[x] # NULL /\ heap2[x].m_pObj = p
          /\ \/ heap2[x].m_pConnectionPoint = "set"
             \/ heap2[x].m_pConnectionPoint = "garbage" /\ BusyIn(t, x)
      BY <2>4, <2>5, <2>6
    <2> QED BY <2>7 DEF x
  <1>3. Served(own, heap2, con) BY <1>1 DEF Served, Alike
  <1> QED BY <1>2, <1>3 DEF Sound

\* The server calls a sink: a reference for the call, if it counts it.
LEMMA CallSound ==
  ASSUME NEW st, NEW f \in Frames, NEW s \in Sinks,
         NEW disp, NEW own \in Pointers, NEW heap \in Heaps, NEW con \in SUBSET Sinks, NEW heap2,
         Sound(st, disp, own, heap, con), Below(st, own, heap, con), s \in con,
         f.op = "Invoke", f.obj \in Objects, f.sink = s, f.at = "handler",
         heap2 = IF f.more THEN [heap EXCEPT ![s].m_refcount = @ + 1] ELSE heap
  PROVE  heap2 \in Heaps /\ Sound(Append(st, f), disp, own, heap2, con)
  <1>1. st \in Seq(Frames) BY DEF Below
  <1>2. /\ Owned(st, disp, own, heap) /\ Served(own, heap, con) /\ Counted(st, own, heap, con)
    BY DEF Sound
  <1>3. heap[s] # NULL BY <1>2 DEF Served
  <1>4. heap[s] \in EventSinks BY <1>3 DEF Heaps
  <1>5. /\ heap2 \in Heaps
        /\ \A x \in Sinks \ {s} : heap2[x] = heap[x]
        /\ heap2[s] # NULL /\ heap2[s].m_pObj = heap[s].m_pObj
        /\ heap2[s].m_pConnectionPoint = heap[s].m_pConnectionPoint
        /\ heap2[s].m_refcount = heap[s].m_refcount + One(f.more)
    <2>1. CASE ~f.more
      <3>1. heap[s].m_refcount \in Nat BY <1>4 DEF EventSinks
      <3> QED BY <1>3, <2>1, <3>1 DEF One
    <2>2. CASE f.more
      <3> DEFINE e == [heap[s] EXCEPT !.m_refcount = @ + 1]
      <3>1. /\ e \in EventSinks /\ e.m_pObj = heap[s].m_pObj
            /\ e.m_pConnectionPoint = heap[s].m_pConnectionPoint
            /\ e.m_refcount = heap[s].m_refcount + 1
        BY <1>4 DEF EventSinks
      <3>2. e # NULL BY <3>1, PointerAssumption
      <3>3. heap2 = [heap EXCEPT ![s] = e] BY <2>2
      <3> HIDE DEF e
      <3>4. heap2 \in Heaps /\ heap2[s] = e /\ \A x \in Sinks \ {s} : heap2[x] = heap[x]
        BY <3>1, <3>3 DEF Heaps
      <3> QED BY <2>2, <3>1, <3>2, <3>4 DEF One
    <2> QED BY <2>1, <2>2
  <1>6. Alike(own, heap, con, heap2)
    <2>1. \A x \in Sinks : Has(own, x) => heap[x] # NULL
      <3>1. \A x \in Sinks : x # NULL BY NullAssumption
      <3> QED BY <1>2, <3>1 DEF Has, Owned
    <2>2. \A x \in con : heap[x] # NULL BY <1>2 DEF Served
    <2> QED BY <1>5, <2>1, <2>2 DEF Alike
  <1>7. Below(st, own, heap2, con) BY <1>6, BelowSame DEF Alike
  <1>8. OnTop(f, st, disp, own, heap2, con)
    BY DEF OnTop, Shaped, Knows, Outgoing
  <1>9. Stacked(Append(st, f), disp, own, heap2, con) BY <1>7, <1>8, PushStacked
  <1>10. Counted(Append(st, f), own, heap2, con)
    <2>1. SUFFICES ASSUME NEW x \in Sinks
                   PROVE  Count(heap2, x) = Tally(Append(st, f), own, con, x)
      BY DEF Counted
    <2>2. /\ Cardinality(CallsIn(st, x)) \in Nat
          /\ Cardinality(CallsIn(Append(st, f), x))
               = Cardinality(CallsIn(st, x)) + One(IsCall(f, x))
      BY <1>1, PushCalls
    <2>3. Count(heap, x) = Tally(st, own, con, x) BY <1>2 DEF Counted
    <2>4. Count(heap2, x) = Count(heap, x) + One(IsCall(f, x))
      <3>1. CASE x # s
        <4>1. One(IsCall(f, x)) = 0 BY <3>1 DEF One, IsCall
        <4>2. Count(heap, x) \in Nat
          <5>1. heap[x] # NULL => heap[x] \in EventSinks BY DEF Heaps
          <5> QED BY <5>1 DEF Count, EventSinks
        <4>3. Count(heap2, x) = Count(heap, x) BY <1>5, <3>1 DEF Count
        <4> QED BY <4>1, <4>2, <4>3
      <3>2. CASE x = s
        <4>1. One(IsCall(f, x)) = One(f.more) BY <3>2 DEF One, IsCall
        <4> QED BY <1>3, <1>5, <3>2, <4>1 DEF Count
      <3> QED BY <3>1, <3>2
    <2>5. /\ One(Has(own, x)) \in Nat /\ One(x \in con) \in Nat /\ One(IsCall(f, x)) \in Nat
      BY DEF One
    <2> QED BY <2>2, <2>3, <2>4, <2>5 DEF Tally
  <1>11. \A x \in Sinks : BusyIn(st, x) => BusyIn(Append(st, f), x) BY <1>1, PushBusy
  <1> QED BY <1>5, <1>6, <1>9, <1>10, <1>11, AlikeSound

\* A call returns, with its reference.
LEMMA ReturnSound ==
  ASSUME NEW b, NEW f \in Frames, NEW s \in Sinks,
         NEW disp, NEW own \in Pointers, NEW heap \in Heaps, NEW con \in SUBSET Sinks, NEW heap2,
         Sound(Append(b, f), disp, own, heap, con), Below(b, own, heap, con),
         f.op = "Invoke", f.sink = s, f.at = "done",
         heap2 = IF f.more /\ heap[s] # NULL THEN Release(heap, s, 1) ELSE heap
  PROVE  heap2 \in Heaps /\ Sound(b, disp, own, heap2, con)
  <1>1. b \in Seq(Frames) BY DEF Below
  <1>2. /\ Owned(Append(b, f), disp, own, heap) /\ Served(own, heap, con)
        /\ Counted(Append(b, f), own, heap, con)
    BY DEF Sound
  <1>3. ASSUME NEW x
        PROVE  /\ Cardinality(CallsIn(b, x)) \in Nat
               /\ Tally(Append(b, f), own, con, x) = Tally(b, own, con, x) + One(IsCall(f, x))
               /\ Tally(b, own, con, x) \in Nat
               /\ Has(own, x) \/ x \in con => Tally(b, own, con, x) >= 1
    <2>1. /\ Cardinality(CallsIn(b, x)) \in Nat
          /\ Cardinality(CallsIn(Append(b, f), x))
               = Cardinality(CallsIn(b, x)) + One(IsCall(f, x))
      BY <1>1, PushCalls
    <2>2. /\ One(Has(own, x)) \in Nat /\ One(x \in con) \in Nat /\ One(IsCall(f, x)) \in Nat
      BY DEF One
    <2>3. Tally(Append(b, f), own, con, x) = Tally(b, own, con, x) + One(IsCall(f, x))
      BY <2>1, <2>2 DEF Tally
    <2> QED BY <1>1, <2>1, <2>3, TallyIs
  <1>4. \A x \in Sinks : Count(heap, x) = Tally(b, own, con, x) + One(IsCall(f, x))
    BY <1>2, <1>3 DEF Counted
  <1>5. /\ heap2 \in Heaps
        /\ \A x \in Sinks \ {s} : heap2[x] = heap[x]
        /\ Count(heap2, s) = Tally(b, own, con, s)
        /\ Tally(b, own, con, s) >= 1 =>
             /\ heap2[s] # NULL /\ heap2[s].m_pObj = heap[s].m_pObj
             /\ heap2[s].m_pConnectionPoint = heap[s].m_pConnectionPoint
    <2>1. One(IsCall(f, s)) = One(f.more) BY DEF One, IsCall
    <2>2. Count(heap, s) = Tally(b, own, con, s) + One(f.more) /\ Tally(b, own, con, s) \in Nat
      BY <1>3, <1>4, <2>1
    <2>3. CASE ~f.more
      <3>1. One(f.more) = 0 BY <2>3 DEF One
      <3>2. heap2 = heap BY <2>3
      <3>3. Count(heap, s) >= 1 => heap[s] # NULL BY DEF Count
      <3> QED BY <2>2, <3>1, <3>2, <3>3
    <2>4. CASE f.more
      <3>1. Count(heap, s) = Tally(b, own, con, s) + 1 BY <2>2, <2>4 DEF One
      <3>2. heap[s] # NULL BY <2>2, <3>1 DEF Count
      <3>3. heap[s].m_refcount = Tally(b, own, con, s) + 1 BY <3>1, <3>2 DEF Count
      <3>4. heap2 = Release(heap, s, 1) BY <2>4, <3>2
      <3>5. heap[s].m_refcount >= 1 /\ heap[s].m_refcount - 1 = Tally(b, own, con, s)
        BY <2>2, <3>3
      <3>6. Tally(b, own, con, s) >= 1 => heap[s].m_refcount > 1 BY <2>2, <3>3
      <3> QED BY <3>2, <3>4, <3>5, <3>6, ReleaseIs
    <2> QED BY <2>3, <2>4
  <1>6. Alike(own, heap, con, heap2)
    <2>1. ASSUME NEW x \in Sinks, Has(own, x) \/ x \in con
          PROVE  /\ heap2[x] # NULL /\ heap2[x].m_pObj = heap[x].m_pObj
                 /\ heap2[x].m_pConnectionPoint = heap[x].m_pConnectionPoint
      <3>1. CASE x = s BY <1>3, <1>5, <2>1, <3>1
      <3>2. CASE x # s
        <4>1. heap2[x] = heap[x] BY <1>5, <3>2
        <4>2. Tally(b, own, con, x) >= 1 /\ Tally(b, own, con, x) \in Nat BY <1>3, <2>1
        <4>3. One(IsCall(f, x)) \in Nat BY DEF One
        <4>4. Count(heap, x) >= 1 BY <1>4, <4>2, <4>3
        <4>5. heap[x] # NULL BY <4>4 DEF Count
        <4> QED BY <4>1, <4>5
      <3> QED BY <3>1, <3>2
    <2> QED BY <2>1 DEF Alike
  <1>7. Below(b, own, heap2, con) BY <1>6, BelowSame DEF Alike
  <1>8. Stacked(b, disp, own, heap2, con) BY <1>7, PopStacked
  <1>9. Counted(b, own, heap2, con)
    <2>1. ASSUME NEW x \in Sinks, x # s PROVE Count(heap2, x) = Tally(b, own, con, x)
      <3>1. One(IsCall(f, x)) = 0 BY <2>1 DEF One, IsCall
      <3>2. Count(heap2, x) = Count(heap, x) BY <1>5, <2>1 DEF Count
      <3>3. Tally(b, own, con, x) \in Nat BY <1>3
      <3> QED BY <1>4, <3>1, <3>2, <3>3
    <2> QED BY <1>5, <2>1 DEF Counted
  <1>10. ASSUME NEW x \in Sinks PROVE BusyIn(Append(b, f), x) => BusyIn(b, x)
    <2>1. ~Waits(f, x) BY DEF Waits, Outgoing
    <2> QED BY <1>1, <2>1, PushBusy
  <1> QED BY <1>5, <1>6, <1>8, <1>9, <1>10, AlikeSound

\* The server has the sink, or its call has returned.
LEMMA TouchSound ==
  ASSUME NEW b, NEW f \in Frames, NEW g \in Frames, NEW s \in Sinks,
         NEW disp, NEW own \in Pointers, NEW heap \in Heaps, NEW con \in SUBSET Sinks,
         NEW heap2, NEW con2,
         Sound(Append(b, f), disp, own, heap, con), Below(b, own, heap, con),
         OnTop(f, b, disp, own, heap, con), f.at \in Outgoing, f.sink = s,
         \A x \in Sinks \ {s} : heap2[x] = heap[x],
         heap2[s] # NULL, heap2[s].m_pObj = heap[s].m_pObj,
         con2 \in {con, con \cup {s}},
         Count(heap2, s) = Count(heap, s) + One(s \in con2) - One(s \in con),
         \/ heap2[s].m_pConnectionPoint = "set"
         \/ heap2[s].m_pConnectionPoint = heap[s].m_pConnectionPoint /\ Waits(g, s),
         g.op = f.op,
         OnTop(g, b, disp, own, heap2, con2)
  PROVE  Sound(Append(b, g), disp, own, heap2, con2)
  <1>1. b \in Seq(Frames) BY DEF Below
  <1>2. Knows(f, own, heap, con) /\ Shaped(f) /\ ~BusyIn(b, s) BY DEF OnTop
  <1>3. f.obj \in Objects /\ own[f.obj] = s /\ f.op # "Invoke" BY <1>2, WaitsFor
  <1>4. s # NULL BY NullAssumption
  <1>5. /\ Owned(Append(b, f), disp, own, heap) /\ Served(own, heap, con)
        /\ Counted(Append(b, f), own, heap, con)
    BY DEF Sound
  <1>6. Below(b, own, heap2, con2)
    <2>1. OnlyOf(s, own, heap, con, own, heap2, con2) BY DEF OnlyOf
    <2> QED BY <1>2, <2>1, BelowElsewhere
  <1>7. Stacked(Append(b, g), disp, own, heap2, con2) BY <1>6, PushStacked
  <1>8. Owned(Append(b, g), disp, own, heap2)
    <2>1. SUFFICES ASSUME NEW p \in Objects, own[p] # NULL
                   PROVE  /\ disp[p]
                          /\ heap2[own[p]] # NULL /\ heap2[own[p]].m_pObj = p
                          /\ \/ heap2[own[p]].m_pConnectionPoint = "set"
                             \/ /\ heap2[own[p]].m_pConnectionPoint = "garbage"
                                /\ BusyIn(Append(b, g), own[p])
      BY DEF Owned
    <2> DEFINE x == own[p]
    <2>2. x \in Sinks BY <2>1 DEF Pointers
    <2>3. /\ disp[p] /\ heap[x] # NULL /\ heap[x].m_pObj = p
          /\ \/ heap[x].m_pConnectionPoint = "set"
             \/ heap[x].m_pConnectionPoint = "garbage" /\ BusyIn(Append(b, f), x)
      BY <1>5, <2>1 DEF Owned
    <2>4. x = own[p] OBVIOUS
    <2> HIDE DEF x
    <2>5. CASE x = s
      <3>1. Waits(g, s) => BusyIn(Append(b, g), s) BY <1>1, PushBusy
      <3>2. \/ heap2[s].m_pConnectionPoint = "set"
            \/ heap2[s].m_pConnectionPoint = "garbage" /\ BusyIn(Append(b, g), s)
        BY <2>3, <2>5, <3>1
      <3>3. heap2[x] # NULL /\ heap2[x].m_pObj = p BY <2>3, <2>5
      <3> QED BY <2>3, <2>4, <2>5, <3>2, <3>3
    <2>6. CASE x # s
      <3>1. heap2[x] = heap[x] BY <2>2, <2>6
      <3>2. ~Waits(f, x) BY <2>6 DEF Waits
      <3>3. BusyIn(Append(b, f), x) => BusyIn(Append(b, g), x) BY <1>1, <3>2, PushBusy
      <3> QED BY <2>3, <2>4, <3>1, <3>3
    <2> QED BY <2>5, <2>6
  <1>9. Served(own, heap2, con2)
    <2>1. SUFFICES ASSUME NEW x \in con2 PROVE heap2[x] # NULL /\ own[heap2[x].m_pObj] = x
      BY DEF Served
    <2>2. CASE x = s
      <3>1. heap[s].m_pObj = f.obj BY <1>3, <1>4, <1>5 DEF Owned
      <3> QED BY <1>3, <2>2, <3>1
    <2>3. CASE x # s
      <3>1. x \in con /\ x \in Sinks \ {s} BY <2>3
      <3>2. heap2[x] = heap[x] BY <3>1
      <3> QED BY <1>5, <3>1, <3>2 DEF Served
    <2> QED BY <2>2, <2>3
  <1>10. Counted(Append(b, g), own, heap2, con2)
    <2>1. SUFFICES ASSUME NEW x \in Sinks
                   PROVE  Count(heap2, x) = Tally(Append(b, g), own, con2, x)
      BY DEF Counted
    <2>2. One(IsCall(f, x)) = 0 /\ One(IsCall(g, x)) = 0 BY <1>3 DEF One, IsCall
    <2>3. /\ Cardinality(CallsIn(b, x)) \in Nat
          /\ Cardinality(CallsIn(Append(b, f), x)) = Cardinality(CallsIn(b, x)) + 0
          /\ Cardinality(CallsIn(Append(b, g), x)) = Cardinality(CallsIn(b, x)) + 0
      BY <1>1, <2>2, PushCalls
    <2>4. Count(heap, x) = Tally(Append(b, f), own, con, x) BY <1>5 DEF Counted
    <2>5. /\ One(Has(own, x)) \in Nat /\ One(x \in con) \in Nat /\ One(x \in con2) \in Nat
      BY DEF One
    <2>6. Count(heap2, x) = Count(heap, x) + One(x \in con2) - One(x \in con)
      <3>1. CASE x = s BY <3>1
      <3>2. CASE x # s
        <4>1. Count(heap2, x) = Count(heap, x) BY <3>2 DEF Count
        <4>2. One(x \in con2) = One(x \in con) BY <3>2 DEF One
        <4>3. Count(heap, x) \in Nat BY <2>3, <2>4, <2>5 DEF Tally
        <4> QED BY <2>5, <4>1, <4>2, <4>3
      <3> QED BY <3>1, <3>2
    <2> QED BY <2>3, <2>4, <2>5, <2>6 DEF Tally
  <1> QED BY <1>7, <1>8, <1>9, <1>10 DEF Sound

-----------------------------------------------------------------------------
(***************************************************************************)
(* The frame on top                                                        *)
(***************************************************************************)
Base == Under(stack)

LEMMA TopIs ==
  ASSUME Good, stack # <<>>
  PROVE  /\ stack \in Seq(Frames) /\ Base \in Seq(Frames) /\ Top \in Frames
         /\ stack = Append(Base, Top)
         /\ Below(Base, pEventSink, sink, connected)
         /\ OnTop(Top, Base, pDispatch, pEventSink, sink, connected)
         /\ Sound(Append(Base, Top), pDispatch, pEventSink, sink, connected)
         /\ \A g \in Frames : Become(g) <=> stack' = Append(Base, g)
         /\ Pop <=> stack' = Base
  <1>1. Sound(stack, pDispatch, pEventSink, sink, connected) BY DEF Good
  <1>2. Stacked(stack, pDispatch, pEventSink, sink, connected) BY <1>1 DEF Sound
  <1>3. /\ stack \in Seq(Frames)
        /\ Below(Base, pEventSink, sink, connected)
        /\ OnTop(Top, Base, pDispatch, pEventSink, sink, connected)
    BY <1>2 DEF Stacked, Base, Top, Depth
  <1>4. /\ Under(stack) \in Seq(Frames) /\ stack[Len(stack)] \in Frames
        /\ stack = Append(Under(stack), stack[Len(stack)])
        /\ \A g \in Frames : Replaced(stack, g) = Append(Under(stack), g)
    BY <1>3, Split
  <1>5. /\ Base \in Seq(Frames) /\ Top \in Frames /\ stack = Append(Base, Top)
        /\ \A g \in Frames : Replaced(stack, g) = Append(Base, g)
    BY <1>4 DEF Base, Top, Depth
  <1>6. \A g \in Frames : Become(g) <=> stack' = Append(Base, g)
    BY <1>5 DEF Become, Replaced, Depth
  <1>7. Pop <=> stack' = Base BY DEF Pop, Base, Under, Depth
  <1>8. Sound(Append(Base, Top), pDispatch, pEventSink, sink, connected) BY <1>1, <1>5
  <1> QED BY <1>3, <1>5, <1>6, <1>7, <1>8

\* Frames that differ in a field or two
LEMMA PlaceIs ==
  ASSUME NEW f \in Frames, NEW place \in Places
  PROVE  LET g == [f EXCEPT !.at = place] IN
           /\ g \in Frames /\ g.at = place
           /\ g.op = f.op /\ g.obj = f.obj /\ g.sink = f.sink /\ g.more = f.more
  BY DEF Frames

Aimed(f, s, place) == [f EXCEPT !.sink = s, !.at = place]
LEMMA AimIs ==
  ASSUME NEW f \in Frames, NEW s \in Sinks, NEW place \in Places
  PROVE  /\ Aimed(f, s, place) \in Frames
         /\ Aimed(f, s, place).at = place /\ Aimed(f, s, place).sink = s
         /\ Aimed(f, s, place).op = f.op /\ Aimed(f, s, place).obj = f.obj
         /\ Aimed(f, s, place).more = f.more
  <1> DEFINE e == [f EXCEPT !.sink = s]
             g == [e EXCEPT !.at = place]
  <1>1. e \in Frames /\ e.sink = s /\ e.op = f.op /\ e.obj = f.obj /\ e.more = f.more
    BY DEF Frames
  <1>2. Aimed(f, s, place) = g BY DEF Aimed
  <1> HIDE DEF e
  <1>3. g \in Frames /\ g.at = place /\ g.op = e.op /\ g.obj = e.obj /\ g.sink = e.sink /\ g.more = e.more
    BY <1>1, PlaceIs
  <1> HIDE DEF g
  <1> QED BY <1>1, <1>2, <1>3

LEMMA WalkIs ==
  ASSUME NEW f \in Frames, NEW o \in Objects
  PROVE  LET g == [f EXCEPT !.obj = o, !.at = "unadvise", !.todo = @ \ {o}] IN
           /\ g \in Frames /\ g.at = "unadvise" /\ g.obj = o
           /\ g.op = f.op /\ g.sink = f.sink /\ g.more = f.more
  <1> DEFINE d == [f EXCEPT !.todo = @ \ {o}]
             e == [d EXCEPT !.obj = o]
             g == [e EXCEPT !.at = "unadvise"]
  <1>1. d \in Frames /\ d.op = f.op /\ d.sink = f.sink /\ d.more = f.more BY DEF Frames
  <1>2. [f EXCEPT !.obj = o, !.at = "unadvise", !.todo = @ \ {o}] = g BY DEF Frames
  <1> HIDE DEF d
  <1>3. e \in Frames /\ e.obj = o /\ e.op = d.op /\ e.sink = d.sink /\ e.more = d.more
    BY <1>1 DEF Frames
  <1> HIDE DEF e
  <1>4. "unadvise" \in Places BY DEF Places
  <1>5. g \in Frames /\ g.at = "unadvise" /\ g.op = e.op /\ g.obj = e.obj /\ g.sink = e.sink /\ g.more = e.more
    BY <1>3, <1>4, PlaceIs
  <1> HIDE DEF g
  <1> QED BY <1>1, <1>2, <1>3, <1>5

LEMMA FrameIs ==
  ASSUME NEW op \in Operations, NEW o \in Objects \cup {NULL}, NEW s \in Sinks \cup {NULL},
         NEW at \in Places, NEW more \in BOOLEAN, NEW todo \in SUBSET Objects
  PROVE  /\ Frame(op, o, s, at, more, todo) \in Frames
         /\ Frame(op, o, s, at, more, todo).op = op /\ Frame(op, o, s, at, more, todo).obj = o
         /\ Frame(op, o, s, at, more, todo).sink = s /\ Frame(op, o, s, at, more, todo).at = at
         /\ Frame(op, o, s, at, more, todo).more = more
  BY DEF Frame, Frames

\* Only the stack changes.
LEMMA QuietStep ==
  ASSUME Good, Sound(stack', pDispatch, pEventSink, sink, connected),
         UNCHANGED <<memory, pDispatch, pEventSink, sinkVars, events>>,
         refs' \in [Objects -> 0 .. MaxRefs], g_bInitialized' \in BOOLEAN, torn' \in BOOLEAN,
         crashed' \notin {"sink", "object"}
  PROVE  Good'
  <1>1. TypeInv' BY DEF Good, TypeInv, sinkVars
  <1>2. MemoryInv' BY DEF Good, MemoryInv, Live, InMemory, sinkVars
  <1>3. Sound(stack, pDispatch, pEventSink, sink, connected)' BY DEF sinkVars
  <1> QED BY <1>1, <1>2, <1>3 DEF Good

\* A frame is pushed that is about to disconnect, or to walk.
LEMMA PushStep ==
  ASSUME Good, stack # <<>> => Waiting(Top), NEW f \in Frames, Push(f),
         \/ f.op \in {"WithEvents", "DESTROY"} /\ f.obj \in Objects /\ f.at = "unadvise"
         \/ f.op = "Uninitialize" /\ f.at = "walk",
         f.op = "WithEvents" => pDispatch[f.obj]
  PROVE  Sound(stack', pDispatch, pEventSink, sink, connected)
  <1>1. stack' = Append(stack, f) BY DEF Push
  <1>2. f.at \notin Outgoing /\ f.op # "Invoke" BY DEF Outgoing
  <1>3. OnTop(f, stack, pDispatch, pEventSink, sink, connected)
    BY <1>2 DEF OnTop, Shaped, Knows
  <1>4. pEventSink \in Pointers BY DEF Good, TypeInv, Pointers
  <1>5. Sound(stack, pDispatch, pEventSink, sink, connected) BY DEF Good
  <1>6. stack # <<>> => Waiting(stack[Len(stack)]) BY DEF Top, Depth
  <1>7. Sound(Append(stack, f), pDispatch, pEventSink, sink, connected)
    BY <1>2, <1>3, <1>4, <1>5, <1>6, PushQuiet
  <1> QED BY <1>1, <1>7

-----------------------------------------------------------------------------
(***************************************************************************)
(* Steps that change the stack only                                        *)
(***************************************************************************)
LEMMA WithEventsStep ==
  ASSUME Good, NEW o \in Objects, NEW handler \in BOOLEAN, WithEvents(o, handler)
  PROVE  Good'
  <1> DEFINE f == Frame("WithEvents", o, NULL, "unadvise", handler, {})
  <1>1. f \in Frames /\ f.op = "WithEvents" /\ f.obj = o /\ f.at = "unadvise"
    BY FrameIs DEF Operations, Places
  <1>2. Push(f) /\ pDispatch[o] /\ (stack # <<>> => Waiting(Top))
    BY DEF WithEvents, ScriptRuns, Waiting
  <1> HIDE DEF f
  <1>3. Sound(stack', pDispatch, pEventSink, sink, connected) BY <1>1, <1>2, PushStep
  <1>4. /\ UNCHANGED <<memory, pDispatch, pEventSink, sinkVars, events>>
        /\ refs' \in [Objects -> 0 .. MaxRefs] /\ g_bInitialized' \in BOOLEAN
        /\ torn' \in BOOLEAN /\ crashed' \notin {"sink", "object"}
    BY DEF WithEvents, objVars, sinkVars, Good, TypeInv
  <1> QED BY <1>3, <1>4, QuietStep

LEMMA UninitializeStep ==
  ASSUME Good, Uninitialize
  PROVE  Good'
  <1> DEFINE f == Frame("Uninitialize", NULL, NULL, "walk", FALSE, Live)
  <1>1. Live \in SUBSET Objects BY DEF Live
  <1>2. f \in Frames /\ f.op = "Uninitialize" /\ f.at = "walk"
    BY <1>1 DEF Frame, Frames, Operations, Places
  <1>3. Push(f) /\ (stack # <<>> => Waiting(Top)) BY DEF Uninitialize, ScriptRuns, Waiting
  <1> HIDE DEF f
  <1>4. Sound(stack', pDispatch, pEventSink, sink, connected) BY <1>2, <1>3, PushStep
  <1>5. /\ UNCHANGED <<memory, pDispatch, pEventSink, sinkVars, events>>
        /\ refs' \in [Objects -> 0 .. MaxRefs] /\ g_bInitialized' \in BOOLEAN
        /\ torn' \in BOOLEAN /\ crashed' \notin {"sink", "object"}
    BY DEF Uninitialize, objVars, sinkVars, Good, TypeInv
  <1> QED BY <1>4, <1>5, QuietStep

LEMMA DropStep ==
  ASSUME Good, NEW o \in Objects, Drop(o)
  PROVE  Good'
  <1> DEFINE f == Frame("DESTROY", o, NULL, "unadvise", FALSE, {})
  <1>1. f \in Frames /\ f.op = "DESTROY" /\ f.obj = o /\ f.at = "unadvise"
    BY DEF Frame, Frames, Operations, Places
  <1>2. (Push(f) \/ stack' = stack) /\ (stack # <<>> => Waiting(Top))
    BY DEF Drop, ScriptRuns, Waiting
  <1> HIDE DEF f
  <1>3. Sound(stack', pDispatch, pEventSink, sink, connected)
    <2>1. CASE stack' = stack BY <2>1 DEF Good
    <2>2. CASE Push(f) BY <1>1, <1>2, <2>2, PushStep
    <2> QED BY <1>2, <2>1, <2>2
  <1>4. refs' \in [Objects -> 0 .. MaxRefs]
    <2>1. refs[o] \in 0 .. MaxRefs /\ refs[o] > 0 BY DEF Drop, Good, TypeInv
    <2>2. refs[o] - 1 \in 0 .. MaxRefs BY <2>1, BoundAssumption
    <2> QED BY <2>2 DEF Drop, Good, TypeInv
  <1>5. /\ UNCHANGED <<memory, pDispatch, pEventSink, sinkVars, events>>
        /\ g_bInitialized' \in BOOLEAN /\ torn' \in BOOLEAN
        /\ crashed' \notin {"sink", "object"}
    BY DEF Drop, sinkVars, Good, TypeInv
  <1> QED BY <1>3, <1>4, <1>5, QuietStep

LEMMA KeepStep ==
  ASSUME Good, NEW o \in Objects, Keep(o)
  PROVE  Good'
  <1>1. Sound(stack', pDispatch, pEventSink, sink, connected) BY DEF Keep, Good
  <1>2. refs' \in [Objects -> 0 .. MaxRefs]
    <2>1. refs[o] \in 0 .. MaxRefs /\ refs[o] < MaxRefs BY DEF Keep, Good, TypeInv
    <2>2. refs[o] + 1 \in 0 .. MaxRefs BY <2>1, BoundAssumption
    <2> QED BY <2>2 DEF Keep, Good, TypeInv
  <1>3. /\ UNCHANGED <<memory, pDispatch, pEventSink, sinkVars, events>>
        /\ g_bInitialized' \in BOOLEAN /\ torn' \in BOOLEAN
        /\ crashed' \notin {"sink", "object"}
    BY DEF Keep, sinkVars, Good, TypeInv
  <1> QED BY <1>1, <1>2, <1>3, QuietStep

\* The frame on top goes on, or returns.
LEMMA BecomeStep ==
  ASSUME Good, stack # <<>>, Top.at \notin Outgoing, NEW g \in Frames, Become(g),
         OnTop(g, Base, pDispatch, pEventSink, sink, connected), g.op = Top.op,
         g.op = "Invoke" => g.sink = Top.sink /\ g.more = Top.more
  PROVE  Sound(stack', pDispatch, pEventSink, sink, connected)
  <1>1. /\ Top \in Frames /\ stack' = Append(Base, g)
        /\ Below(Base, pEventSink, sink, connected)
        /\ Sound(Append(Base, Top), pDispatch, pEventSink, sink, connected)
    BY TopIs
  <1>2. pEventSink \in Pointers BY DEF Good, TypeInv, Pointers
  <1>3. Sound(Append(Base, g), pDispatch, pEventSink, sink, connected)
    BY <1>1, <1>2, BecomeQuiet
  <1> QED BY <1>1, <1>3

LEMMA ConnectFailsStep ==
  ASSUME Good, ConnectFails
  PROVE  Good'
  <1>1. stack # <<>> /\ Top.at = "connect" /\ Step("done") BY DEF ConnectFails, At
  <1>2. Top \in Frames /\ OnTop(Top, Base, pDispatch, pEventSink, sink, connected) BY <1>1, TopIs
  <1> DEFINE g == [Top EXCEPT !.at = "done"]
  <1>3. /\ g \in Frames /\ g.at = "done" /\ g.op = Top.op /\ g.obj = Top.obj /\ g.sink = Top.sink
        /\ g.more = Top.more
    BY <1>2, PlaceIs DEF Places
  <1>4. Become(g) BY <1>1 DEF Step
  <1> HIDE DEF g
  <1>5. Shaped(g) BY <1>1, <1>2, <1>3 DEF OnTop, Shaped, Outgoing
  <1>6. OnTop(g, Base, pDispatch, pEventSink, sink, connected)
    BY <1>3, <1>5 DEF OnTop, Knows, Outgoing
  <1>7. Top.at \notin Outgoing BY <1>1 DEF Outgoing
  <1>8. Sound(stack', pDispatch, pEventSink, sink, connected)
    BY <1>1, <1>3, <1>4, <1>6, <1>7, BecomeStep
  <1>9. /\ UNCHANGED <<memory, pDispatch, pEventSink, sinkVars, events>>
        /\ refs' \in [Objects -> 0 .. MaxRefs] /\ g_bInitialized' \in BOOLEAN
        /\ torn' \in BOOLEAN /\ crashed' \notin {"sink", "object"}
    BY DEF ConnectFails, objVars, sinkVars, Good, TypeInv
  <1> QED BY <1>8, <1>9, QuietStep

LEMMA UninitializeNextStep ==
  ASSUME Good, UninitializeNext
  PROVE  Good'
  <1>1. stack # <<>> /\ Top.at = "walk" BY DEF UninitializeNext, At
  <1>2. Top \in Frames /\ OnTop(Top, Base, pDispatch, pEventSink, sink, connected) BY <1>1, TopIs
  <1>3. PICK o \in Top.todo \cap Live :
          Become([Top EXCEPT !.obj = o, !.at = "unadvise", !.todo = @ \ {o}])
    BY DEF UninitializeNext
  <1>4. o \in Objects BY DEF Live
  <1> DEFINE g == [Top EXCEPT !.obj = o, !.at = "unadvise", !.todo = @ \ {o}]
  <1>5. /\ g \in Frames /\ g.at = "unadvise" /\ g.obj = o /\ g.op = Top.op /\ g.sink = Top.sink
        /\ g.more = Top.more
    BY <1>2, <1>4, WalkIs
  <1>6. Become(g) BY <1>3
  <1> HIDE DEF g
  <1>7. Top.op = "Uninitialize" BY <1>1, <1>2 DEF OnTop, Shaped, Outgoing
  <1>8. OnTop(g, Base, pDispatch, pEventSink, sink, connected)
    BY <1>4, <1>5, <1>7 DEF OnTop, Shaped, Knows, Outgoing
  <1>9. Top.at \notin Outgoing BY <1>1 DEF Outgoing
  <1>10. Sound(stack', pDispatch, pEventSink, sink, connected)
    BY <1>1, <1>5, <1>6, <1>8, <1>9, BecomeStep
  <1>11. /\ UNCHANGED <<memory, pDispatch, pEventSink, sinkVars, events>>
         /\ refs' \in [Objects -> 0 .. MaxRefs] /\ g_bInitialized' \in BOOLEAN
         /\ torn' \in BOOLEAN /\ crashed' \notin {"sink", "object"}
    BY DEF UninitializeNext, objVars, sinkVars, Good, TypeInv
  <1> QED BY <1>10, <1>11, QuietStep

LEMMA HandlerReturnsStep ==
  ASSUME Good, HandlerReturns
  PROVE  Good'
  <1>1. stack # <<>> /\ Top.at = "handler" BY DEF HandlerReturns, At
  <1>2. /\ Top \in Frames /\ Base \in Seq(Frames)
        /\ OnTop(Top, Base, pDispatch, pEventSink, sink, connected)
        /\ Below(Base, pEventSink, sink, connected)
        /\ Sound(Append(Base, Top), pDispatch, pEventSink, sink, connected)
        /\ \A g \in Frames : Become(g) <=> stack' = Append(Base, g)
        /\ stack \in Seq(Frames)
    BY <1>1, TopIs
  <1> DEFINE g == [Top EXCEPT !.at = "done"]
             f == Frame("DESTROY", Top.obj, NULL, "unadvise", FALSE, {})
  <1>3. /\ g \in Frames /\ g.at = "done" /\ g.op = Top.op /\ g.obj = Top.obj /\ g.sink = Top.sink
        /\ g.more = Top.more
    BY <1>2, PlaceIs DEF Places
  <1>4. Top.op = "Invoke" /\ Top.obj \in Objects /\ Top.sink \in Sinks
    BY <1>1, <1>2 DEF OnTop, Shaped, Outgoing
  <1>5. f \in Frames /\ f.op = "DESTROY" /\ f.obj = Top.obj /\ f.at = "unadvise"
    BY <1>4 DEF Frame, Frames, Operations, Places
  <1>6. \/ Step("done")
        \/ stack' = Append([stack EXCEPT ![Depth].at = "done"], f)
    BY DEF HandlerReturns
  <1>7. [stack EXCEPT ![Depth].at = "done"] = Replaced(stack, g)
    BY DEF Replaced, Top, Depth
  <1>8. Replaced(stack, g) = Append(Base, g) BY <1>1, <1>2, <1>3, Split DEF Base
  <1>9. Step("done") => stack' = Append(Base, g) BY <1>2, <1>3 DEF Step
  <1> HIDE DEF g, f
  <1>10. stack' = Append(Base, g) \/ stack' = Append(Append(Base, g), f)
    BY <1>6, <1>7, <1>8, <1>9
  <1>11. OnTop(g, Base, pDispatch, pEventSink, sink, connected)
    BY <1>3, <1>4 DEF OnTop, Shaped, Knows, Outgoing
  <1>12. Top.at \notin Outgoing BY <1>1 DEF Outgoing
  <1>13. pEventSink \in Pointers BY DEF Good, TypeInv, Pointers
  <1>14. Sound(Append(Base, g), pDispatch, pEventSink, sink, connected)
    BY <1>2, <1>3, <1>11, <1>12, <1>13, BecomeQuiet
  <1>15. Sound(Append(Append(Base, g), f), pDispatch, pEventSink, sink, connected)
    <2>1. /\ Len(Append(Base, g)) = Len(Base) + 1 /\ Append(Base, g)[Len(Base) + 1] = g
      BY <1>2, <1>3, PushIs
    <2>2. Waiting(Append(Base, g)[Len(Append(Base, g))]) BY <1>3, <2>1 DEF Waiting
    <2>3. f.at \notin Outgoing /\ f.op # "Invoke" BY <1>5 DEF Outgoing
    <2>4. OnTop(f, Append(Base, g), pDispatch, pEventSink, sink, connected)
      BY <1>4, <1>5, <2>3 DEF OnTop, Shaped, Knows
    <2> QED BY <1>5, <1>13, <1>14, <2>2, <2>3, <2>4, PushQuiet
  <1>16. Sound(stack', pDispatch, pEventSink, sink, connected) BY <1>10, <1>14, <1>15
  <1>17. /\ UNCHANGED <<memory, pDispatch, pEventSink, sinkVars, events>>
         /\ refs' \in [Objects -> 0 .. MaxRefs] /\ g_bInitialized' \in BOOLEAN
         /\ torn' \in BOOLEAN /\ crashed' \notin {"sink", "object"}
    BY DEF HandlerReturns, objVars, sinkVars, Good, TypeInv
  <1> QED BY <1>16, <1>17, QuietStep

\* A frame that waits for no server, and is no call, returns.
LEMMA PopStep ==
  ASSUME Good, stack # <<>>, Top.at \notin Outgoing, Top.op # "Invoke", Pop
  PROVE  Sound(stack', pDispatch, pEventSink, sink, connected)
  <1>1. /\ Top \in Frames /\ stack' = Base
        /\ Below(Base, pEventSink, sink, connected)
        /\ Sound(Append(Base, Top), pDispatch, pEventSink, sink, connected)
    BY TopIs
  <1>2. pEventSink \in Pointers BY DEF Good, TypeInv, Pointers
  <1>3. Sound(Base, pDispatch, pEventSink, sink, connected) BY <1>1, <1>2, PopQuiet
  <1> QED BY <1>1, <1>3

LEMMA WithEventsReturnsStep ==
  ASSUME Good, WithEventsReturns
  PROVE  Good'
  <1>1. stack # <<>> /\ Top.at = "done" /\ Top.op = "WithEvents" /\ Pop
    BY DEF WithEventsReturns, At
  <1>2. Top.at \notin Outgoing BY <1>1 DEF Outgoing
  <1>3. Sound(stack', pDispatch, pEventSink, sink, connected) BY <1>1, <1>2, PopStep
  <1>4. /\ UNCHANGED <<memory, pDispatch, pEventSink, sinkVars, events>>
        /\ refs' \in [Objects -> 0 .. MaxRefs] /\ g_bInitialized' \in BOOLEAN
        /\ torn' \in BOOLEAN /\ crashed' \notin {"sink", "object"}
    BY DEF WithEventsReturns, objVars, sinkVars, Good, TypeInv
  <1> QED BY <1>3, <1>4, QuietStep

LEMMA UninitializeEndStep ==
  ASSUME Good, UninitializeEnd
  PROVE  Good'
  <1>1. stack # <<>> /\ Top.at = "walk" /\ Pop BY DEF UninitializeEnd, At
  <1>2. OnTop(Top, Base, pDispatch, pEventSink, sink, connected) BY <1>1, TopIs
  <1>3. Top.at \notin Outgoing /\ Top.op # "Invoke" BY <1>1, <1>2 DEF OnTop, Shaped, Outgoing
  <1>4. Sound(stack', pDispatch, pEventSink, sink, connected) BY <1>1, <1>3, PopStep
  <1>5. /\ UNCHANGED <<memory, pDispatch, pEventSink, sinkVars, events>>
        /\ refs' \in [Objects -> 0 .. MaxRefs] /\ g_bInitialized' \in BOOLEAN
        /\ torn' \in BOOLEAN /\ crashed' \notin {"sink", "object"}
    BY DEF UninitializeEnd, objVars, sinkVars, Good, TypeInv
  <1> QED BY <1>4, <1>5, QuietStep

\* The object that goes has no interface.
LEMMA DestroyedStep ==
  ASSUME Good, Destroyed
  PROVE  Good'
  <1>1. stack # <<>> /\ Top.at = "released" /\ Pop BY DEF Destroyed, At
  <1>2. OnTop(Top, Base, pDispatch, pEventSink, sink, connected) BY <1>1, TopIs
  <1>3. Top.at \notin Outgoing /\ Top.op # "Invoke" /\ Top.obj \in Objects
    BY <1>1, <1>2 DEF OnTop, Shaped, Outgoing
  <1>4. ~pDispatch[Top.obj] BY <1>1, <1>2 DEF OnTop
  <1>5. Sound(stack', pDispatch, pEventSink, sink, connected) BY <1>1, <1>3, PopStep
  <1>6. memory' = memory \/ memory' = [memory EXCEPT ![Top.obj] = "freed"] BY DEF Destroyed
  <1>7. UNCHANGED <<pDispatch, pEventSink, refs, g_bInitialized, sink, made, connected, events, crashed, torn>>
    BY DEF Destroyed, sinkVars
  <1>8. TypeInv'
    <2>1. memory' \in [Objects -> {"live", "freed"}] BY <1>6 DEF Good, TypeInv
    <2> QED BY <1>7, <2>1 DEF Good, TypeInv
  <1>9. MemoryInv'
    <2>1. \A o \in Objects : pDispatch[o] => memory[o] = "live" BY DEF Good, MemoryInv, Live
    <2>2. memory \in [Objects -> {"live", "freed"}] BY DEF Good, TypeInv
    <2>3. \A o \in Objects : pDispatch[o] => memory'[o] = "live" BY <1>4, <1>6, <2>1, <2>2
    <2>4. InMemory \subseteq made BY DEF Good, MemoryInv
    <2>5. InMemory' \subseteq made' BY <1>7, <2>4 DEF InMemory
    <2>6. \A o \in Objects : pDispatch'[o] => o \in Live' BY <1>7, <2>3 DEF Live
    <2> QED BY <2>5, <2>6 DEF MemoryInv
  <1>10. Sound(stack, pDispatch, pEventSink, sink, connected)' BY <1>5, <1>7
  <1> QED BY <1>7, <1>8, <1>9, <1>10 DEF Good

-----------------------------------------------------------------------------
(***************************************************************************)
(* Steps that change the sinks                                             *)
(***************************************************************************)
LEMMA HeapStep ==
  ASSUME Good, Sound(stack, pDispatch, pEventSink, sink, connected)',
         UNCHANGED <<memory, refs, g_bInitialized, made, crashed>>,
         pDispatch' \in [Objects -> BOOLEAN], \A o \in Objects : pDispatch'[o] => pDispatch[o],
         pEventSink' \in Pointers, sink' \in Heaps,
         \A x \in Sinks : sink'[x] # NULL => sink[x] # NULL,
         connected' \subseteq Sinks, events' \in 0 .. MaxEvents, torn' \in BOOLEAN
  PROVE  Good'
  <1>1. TypeInv' BY DEF Good, TypeInv, Pointers, Heaps
  <1>2. MemoryInv'
    <2>1. \A o \in Objects : pDispatch'[o] => o \in Live' BY DEF Good, MemoryInv, Live
    <2>2. InMemory' \subseteq made' BY DEF Good, MemoryInv, InMemory
    <2> QED BY <2>1, <2>2 DEF MemoryInv
  <1> QED BY <1>1, <1>2 DEF Good

LEMMA Types ==
  ASSUME Good
  PROVE  /\ pEventSink \in Pointers /\ sink \in Heaps /\ connected \in SUBSET Sinks
         /\ pDispatch \in [Objects -> BOOLEAN] /\ events \in 0 .. MaxEvents /\ torn \in BOOLEAN
         /\ made \subseteq Sinks
  BY DEF Good, TypeInv, Pointers, Heaps

\* The sink of an object is its own.
LEMMA OwnIs ==
  ASSUME Good, NEW o \in Objects, pEventSink[o] # NULL
  PROVE  /\ pEventSink[o] \in Sinks /\ pDispatch[o] /\ o \in Live
         /\ sink[pEventSink[o]] # NULL /\ sink[pEventSink[o]] \in EventSinks
         /\ sink[pEventSink[o]].m_pObj = o
         /\ \/ sink[pEventSink[o]].m_pConnectionPoint = "set"
            \/ /\ sink[pEventSink[o]].m_pConnectionPoint = "garbage"
               /\ BusyIn(stack, pEventSink[o])
  <1>1. pEventSink[o] \in Sinks BY Types DEF Pointers
  <1>2. Owned(stack, pDispatch, pEventSink, sink) BY DEF Good, Sound
  <1>3. pDispatch[o] /\ sink[pEventSink[o]] # NULL /\ sink[pEventSink[o]].m_pObj = o
    BY <1>2 DEF Owned
  <1>4. o \in Live BY <1>3 DEF Good, MemoryInv
  <1>5. sink[pEventSink[o]] \in EventSinks BY <1>1, <1>3, Types DEF Heaps
  <1> QED BY <1>1, <1>2, <1>3, <1>4, <1>5 DEF Owned

LEMMA BusyIs ==
  ASSUME Good, NEW s
  PROVE  Busy(s) <=> BusyIn(stack, s)
  <1>1. stack \in Seq(Frames) BY DEF Good, Sound, Stacked
  <1>2. DOMAIN stack = 1 .. Len(stack) BY <1>1, LenProperties
  <1> QED BY <1>2 DEF Busy, BusyIn, Waits

\* The frame on top waits for the server, which has the object's sink.
LEMMA TopWaits ==
  ASSUME Good, stack # <<>>, Top.at \in Outgoing
  PROVE  /\ Top.obj \in Objects /\ Top.sink \in Sinks /\ pEventSink[Top.obj] = Top.sink
         /\ Top.sink # NULL /\ Top.op # "Invoke"
         /\ Top.at = "unadvising" => sink[Top.sink].m_pConnectionPoint = "set"
         /\ Top.at = "advise" => Top.sink \notin connected
  <1>1. Top \in Frames /\ OnTop(Top, Base, pDispatch, pEventSink, sink, connected) BY TopIs
  <1>2. Shaped(Top) /\ Knows(Top, pEventSink, sink, connected) BY <1>1 DEF OnTop
  <1> QED BY <1>1, <1>2, WaitsFor, NullAssumption DEF Knows

\* Where the frame on top goes when its object has no sink any more.
Gone == [Top EXCEPT !.at = Onward]

LEMMA DisconnectedIs ==
  ASSUME Good, stack # <<>>, Top.at \in {"unadvise", "unadvising"}, Disconnected(Top.obj)
  PROVE  /\ Top.obj \in Objects
         /\ Gone \in Frames /\ stack' = Append(Base, Gone)
         /\ Gone.at \notin Outgoing /\ Gone.op = Top.op /\ Gone.op # "Invoke"
         /\ \A heap2, con2 : OnTop(Gone, Base, pDispatch', pEventSink', heap2, con2)
         /\ pEventSink' = [pEventSink EXCEPT ![Top.obj] = NULL] /\ pEventSink' \in Pointers
         /\ pDispatch' \in [Objects -> BOOLEAN]
         /\ \A p \in Objects : pDispatch'[p] => pDispatch[p]
         /\ \A p \in Objects \ {Top.obj} : pDispatch'[p] = pDispatch[p]
  <1>1. /\ Top \in Frames /\ OnTop(Top, Base, pDispatch, pEventSink, sink, connected)
        /\ \A g \in Frames : Become(g) <=> stack' = Append(Base, g)
    BY TopIs
  <1>2. Top.obj \in Objects /\ Top.op \in {"WithEvents", "DESTROY", "Uninitialize"}
    BY <1>1 DEF OnTop, Shaped, Outgoing
  <1>3. /\ Top.op = "WithEvents" => Onward \in {"connect", "done"}
        /\ Top.op = "DESTROY" => Onward = "released"
        /\ Top.op = "Uninitialize" => Onward = "walk"
    BY DEF Onward
  <1>4. Onward \in {"connect", "done", "released", "walk"} BY <1>2, <1>3
  <1>5. Onward \in Places BY <1>4 DEF Places
  <1>6. /\ Gone \in Frames /\ Gone.at = Onward
        /\ Gone.op = Top.op /\ Gone.obj = Top.obj
    BY <1>1, <1>5, PlaceIs DEF Gone
  <1>7. stack' = Append(Base, Gone) BY <1>1, <1>6 DEF Disconnected, Step, Gone
  <1>8. Gone.at \notin Outgoing /\ Gone.op # "Invoke" BY <1>2, <1>4, <1>6 DEF Outgoing
  <1>9. /\ pEventSink' = [pEventSink EXCEPT ![Top.obj] = NULL]
        /\ pDispatch' = [pDispatch EXCEPT ![Top.obj] = @ /\ Top.op = "WithEvents"]
    BY DEF Disconnected
  <1>10. pEventSink' \in Pointers /\ pEventSink'[Top.obj] = NULL
    BY <1>2, <1>9, Types DEF Pointers
  <1>11. /\ pDispatch' \in [Objects -> BOOLEAN]
         /\ pDispatch'[Top.obj] <=> pDispatch[Top.obj] /\ Top.op = "WithEvents"
         /\ \A p \in Objects \ {Top.obj} : pDispatch'[p] = pDispatch[p]
    BY <1>2, <1>9, Types
  <1>12. Top.op = "WithEvents" => pDispatch[Top.obj]
    <2>1. CASE Top.at = "unadvise" BY <1>1, <2>1 DEF OnTop
    <2>2. CASE Top.at = "unadvising"
      <3>1. pEventSink[Top.obj] = Top.sink /\ Top.sink # NULL BY <2>2, TopWaits DEF Outgoing
      <3> QED BY <1>2, <3>1, OwnIs
    <2> QED BY <2>1, <2>2
  <1>13. Shaped(Gone) BY <1>2, <1>3, <1>6 DEF Shaped
  <1>14. ASSUME NEW heap2, NEW con2
         PROVE  OnTop(Gone, Base, pDispatch', pEventSink', heap2, con2)
    <2>1. Knows(Gone, pEventSink', heap2, con2) BY <1>8 DEF Knows
    <2>2. Gone.op = "WithEvents" => pDispatch'[Gone.obj] BY <1>6, <1>11, <1>12
    <2>3. Gone.at = "connect" => pEventSink'[Gone.obj] = NULL BY <1>6, <1>10
    <2>4. Gone.at = "released" => ~pDispatch'[Gone.obj] BY <1>2, <1>3, <1>6, <1>11
    <2> QED BY <1>8, <1>13, <2>1, <2>2, <2>3, <2>4 DEF OnTop
  <1> QED BY <1>2, <1>6, <1>7, <1>8, <1>9, <1>10, <1>11, <1>14

LEMMA UnadviseStep ==
  ASSUME Good, Unadvise, ~torn'
  PROVE  Good'
  <1>1. stack # <<>> /\ Top.at = "unadvise" BY DEF Unadvise, At
  <1>2. /\ Top \in Frames /\ Base \in Seq(Frames) /\ stack = Append(Base, Top)
        /\ OnTop(Top, Base, pDispatch, pEventSink, sink, connected)
        /\ Below(Base, pEventSink, sink, connected)
        /\ Sound(Append(Base, Top), pDispatch, pEventSink, sink, connected)
    BY <1>1, TopIs
  <1>3. Top.at \notin Outgoing /\ Top.obj \in Objects /\ Top.op # "Invoke"
    BY <1>1, <1>2 DEF OnTop, Shaped, Outgoing
  <1> DEFINE s == pEventSink[Top.obj]
  <1>4. CASE /\ s = NULL
             /\ Disconnected(Top.obj)
             /\ UNCHANGED <<memory, refs, g_bInitialized, sinkVars, events, crashed, torn>>
    <2>1. /\ Gone \in Frames /\ stack' = Append(Base, Gone)
          /\ Gone.op = Top.op /\ Gone.op # "Invoke"
          /\ OnTop(Gone, Base, pDispatch', pEventSink', sink, connected)
          /\ pEventSink' = [pEventSink EXCEPT ![Top.obj] = NULL] /\ pEventSink' \in Pointers
          /\ pDispatch' \in [Objects -> BOOLEAN]
          /\ \A p \in Objects : pDispatch'[p] => pDispatch[p]
          /\ \A p \in Objects \ {Top.obj} : pDispatch'[p] = pDispatch[p]
      BY <1>1, <1>4, DisconnectedIs
    <2>2. pEventSink' = pEventSink BY <1>3, <1>4, <2>1, Types DEF Pointers
    <2>3. UNCHANGED <<sink, made, connected, memory, refs, g_bInitialized, events, crashed, torn>>
      BY <1>4 DEF sinkVars
    <2>4. \A p \in Objects : pEventSink[p] # NULL /\ pDispatch[p] => pDispatch'[p]
      BY <1>4, <2>1
    <2>5. OnTop(Gone, Base, pDispatch', pEventSink, sink, connected) BY <2>1, <2>2
    <2>6. Sound(Append(Base, Gone), pDispatch', pEventSink, sink, connected)
      BY <1>2, <1>3, <2>1, <2>4, <2>5, Types, BecomeQuiet
    <2>7. Sound(stack, pDispatch, pEventSink, sink, connected)' BY <2>1, <2>2, <2>3, <2>6
    <2>8. sink' \in Heaps /\ connected' \subseteq Sinks /\ events' \in 0 .. MaxEvents /\ torn' \in BOOLEAN
      BY <2>3, Types
    <2> QED BY <2>1, <2>3, <2>7, <2>8, HeapStep
  <1>5. CASE s \in InMemory /\ CallServer(s)
    <2>1. s \in Sinks /\ s # NULL BY <1>5, NullAssumption DEF InMemory
    <2>2. ~Tears(Top) BY <1>5 DEF CallServer
    <2>3. ~BusyIn(stack, s) BY <1>1, <2>2, BusyIs DEF Tears
    <2>4. ~BusyIn(Base, s) BY <1>2, <2>3, PushBusy
    <2> DEFINE g == Aimed(Top, s, "unadvising")
    <2>5. /\ Become(g) /\ sink[s].m_pConnectionPoint = "set" /\ pEventSink[Top.obj] = s
          /\ UNCHANGED <<objVars, sinkVars, events, crashed>>
      BY <1>5 DEF CallServer, Aimed
    <2> HIDE DEF s
    <2> "unadvising" \in Places BY DEF Places, Outgoing
    <2>6. /\ g \in Frames /\ g.at = "unadvising" /\ g.sink = s /\ g.op = Top.op /\ g.obj = Top.obj
          /\ g.more = Top.more
      BY <1>2, <2>1, AimIs
    <2> HIDE DEF g
    <2>7. Shaped(g) BY <1>1, <1>2, <2>6 DEF OnTop, Shaped, Outgoing
    <2>8. Knows(g, pEventSink, sink, connected) BY <2>1, <2>5, <2>6 DEF Knows
    <2>9. OnTop(g, Base, pDispatch, pEventSink, sink, connected)
      BY <2>4, <2>6, <2>7, <2>8 DEF OnTop
    <2>10. g.op # "Invoke" BY <1>3, <2>6
    <2>11. Sound(stack', pDispatch, pEventSink, sink, connected)
      BY <1>1, <1>3, <2>5, <2>6, <2>9, <2>10, BecomeStep
    <2>12. /\ UNCHANGED <<memory, pDispatch, pEventSink, sinkVars, events>>
           /\ refs' \in [Objects -> 0 .. MaxRefs] /\ g_bInitialized' \in BOOLEAN
           /\ crashed' \notin {"sink", "object"}
      BY <2>5 DEF objVars, sinkVars, Good, TypeInv
    <2>13. torn' \in BOOLEAN BY <1>5 DEF CallServer
    <2> QED BY <2>11, <2>12, <2>13, QuietStep
  <1>6. CASE s \in InMemory /\ NoServer(s)
    <2>1. s \in Sinks /\ s # NULL BY <1>6, NullAssumption DEF InMemory
    <2>2. sink[s].m_pConnectionPoint # "set" /\ ~Tears(Top) BY <1>6 DEF NoServer
    <2>3. BusyIn(stack, s) BY <1>3, <2>1, <2>2, OwnIs
    <2>4. Tears(Top) BY <1>1, <2>3, BusyIs DEF Tears
    <2> QED BY <2>2, <2>4
  <1>7. \/ /\ s = NULL
           /\ Disconnected(Top.obj)
           /\ UNCHANGED <<memory, refs, g_bInitialized, sinkVars, events, crashed, torn>>
        \/ s \in InMemory /\ (CallServer(s) \/ NoServer(s))
    BY DEF Unadvise
  <1> QED BY <1>4, <1>5, <1>6, <1>7

\* A sink the frame on top waits with loses the references of the object and the server.
LEMMA PartHeap ==
  ASSUME Good, stack # <<>>, Top.at \in Outgoing,
         NEW heap \in Heaps, \A x \in Sinks \ {Top.sink} : heap[x] = sink[x],
         heap[Top.sink] # NULL, heap[Top.sink].m_refcount = sink[Top.sink].m_refcount,
         sink' = Release(heap, Top.sink, 1 + One(Top.sink \in connected))
  PROVE  /\ sink' \in Heaps
         /\ \A x \in Sinks \ {Top.sink} : sink'[x] = sink[x]
         /\ sink[Top.sink] # NULL
         /\ Count(sink', Top.sink) = Count(sink, Top.sink) - 1 - One(Top.sink \in connected)
  <1> DEFINE s == Top.sink
             n == 1 + One(s \in connected)
  <1>1. Top.obj \in Objects /\ s \in Sinks /\ pEventSink[Top.obj] = s /\ s # NULL BY TopWaits
  <1>2. sink[s] # NULL /\ sink[s] \in EventSinks BY <1>1, OwnIs
  <1>3. sink[s].m_refcount \in Nat BY <1>2 DEF EventSinks
  <1>4. stack \in Seq(Frames) BY TopIs
  <1>5. Has(pEventSink, s) BY <1>1 DEF Has
  <1>6. Count(sink, s) = Tally(stack, pEventSink, connected, s)
    BY <1>1 DEF Good, Sound, Counted
  <1>7. Count(sink, s) = sink[s].m_refcount BY <1>2 DEF Count
  <1>8. n \in Nat /\ Tally(stack, pEventSink, connected, s) >= n
    <2>1. CASE s \in connected
      <3>1. n = 2 BY <2>1 DEF One
      <3>2. Tally(stack, pEventSink, connected, s) >= 2 BY <1>4, <1>5, <2>1, TallyIs
      <3> QED BY <3>1, <3>2
    <2>2. CASE s \notin connected
      <3>1. n = 1 BY <2>2 DEF One
      <3>2. Tally(stack, pEventSink, connected, s) >= 1 BY <1>4, <1>5, TallyIs
      <3> QED BY <3>1, <3>2
    <2> QED BY <2>1, <2>2
  <1>9. One(s \in connected) \in Nat BY DEF One
  <1>10. n = 1 + One(s \in connected) OBVIOUS
  <1>11. /\ sink' = Release(heap, s, n) /\ heap[s] # NULL
         /\ heap[s].m_refcount = sink[s].m_refcount
         /\ \A x \in Sinks \ {s} : heap[x] = sink[x]
    OBVIOUS
  <1>12. heap[s].m_refcount >= n BY <1>6, <1>7, <1>8, <1>11
  <1> HIDE DEF n, s
  <1>13. /\ Release(heap, s, n) \in Heaps
         /\ \A x \in Sinks \ {s} : Release(heap, s, n)[x] = heap[x]
         /\ Count(Release(heap, s, n), s) = heap[s].m_refcount - n
    BY <1>1, <1>8, <1>11, <1>12, ReleaseIs
  <1>14. Count(sink', s) = Count(sink, s) - 1 - One(s \in connected)
    BY <1>3, <1>7, <1>9, <1>10, <1>11, <1>13
  <1> QED BY <1>2, <1>11, <1>13, <1>14 DEF s

\* The sink of the frame on top is parted from its object, which is disconnected.
LEMMA DisconnectedPart ==
  ASSUME Good, stack # <<>>, Top.at = "unadvising", Disconnected(Top.obj),
         connected' = connected \ {Top.sink},
         sink' \in Heaps, \A x \in Sinks \ {Top.sink} : sink'[x] = sink[x],
         sink[Top.sink] # NULL,
         Count(sink', Top.sink) = Count(sink, Top.sink) - 1 - One(Top.sink \in connected),
         UNCHANGED <<memory, refs, g_bInitialized, made, events, crashed, torn>>
  PROVE  Good'
  <1>1. /\ Top \in Frames
        /\ OnTop(Top, Base, pDispatch, pEventSink, sink, connected)
        /\ Below(Base, pEventSink, sink, connected)
        /\ Sound(Append(Base, Top), pDispatch, pEventSink, sink, connected)
    BY TopIs
  <1>2. Top.at \in Outgoing BY DEF Outgoing
  <1>3. Top.obj \in Objects /\ Top.sink \in Sinks BY <1>2, TopWaits
  <1>4. /\ Gone \in Frames /\ stack' = Append(Base, Gone)
        /\ Gone.at \notin Outgoing /\ Gone.op # "Invoke"
        /\ OnTop(Gone, Base, pDispatch', pEventSink', sink', connected')
        /\ pEventSink' = [pEventSink EXCEPT ![Top.obj] = NULL] /\ pEventSink' \in Pointers
        /\ pDispatch' \in [Objects -> BOOLEAN]
        /\ \A p \in Objects : pDispatch'[p] => pDispatch[p]
        /\ \A p \in Objects \ {Top.obj} : pDispatch'[p] = pDispatch[p]
    BY DisconnectedIs
  <1>5. Sound(Append(Base, Gone), pDispatch', pEventSink', sink', connected')
    BY <1>1, <1>2, <1>3, <1>4, Types, PartSound
  <1>6. Sound(stack, pDispatch, pEventSink, sink, connected)' BY <1>4, <1>5
  <1>7. \A x \in Sinks : sink'[x] # NULL => sink[x] # NULL OBVIOUS
  <1>8. connected' \subseteq Sinks /\ events' \in 0 .. MaxEvents /\ torn' \in BOOLEAN BY Types
  <1> QED BY <1>4, <1>6, <1>7, <1>8, HeapStep

LEMMA UnadviseReturnsStep ==
  ASSUME Good, UnadviseReturns
  PROVE  Good'
  <1>1. stack # <<>> /\ Top.at = "unadvising" /\ Top.at \in Outgoing
    BY DEF UnadviseReturns, At, Outgoing
  <1> DEFINE s == Top.sink
             heap == [sink EXCEPT ![s].m_pConnectionPoint = "NULL"]
  <1>2. /\ connected' = connected \ {s} /\ Disconnected(Top.obj)
        /\ sink' = Release(heap, s, IF s \in connected THEN 2 ELSE 1)
        /\ UNCHANGED <<memory, refs, g_bInitialized, made, events, crashed, torn>>
    BY DEF UnadviseReturns
  <1>3. Top.obj \in Objects /\ s \in Sinks /\ pEventSink[Top.obj] = s /\ s # NULL
    BY <1>1, TopWaits
  <1>4. sink[s] \in EventSinks BY <1>3, OwnIs
  <1>5. sink \in Heaps BY Types
  <1>6. /\ heap \in Heaps /\ heap[s] # NULL /\ heap[s].m_refcount = sink[s].m_refcount
        /\ \A x \in Sinks \ {s} : heap[x] = sink[x]
    <2> DEFINE e == [sink[s] EXCEPT !.m_pConnectionPoint = "NULL"]
    <2>1. e \in EventSinks /\ e.m_refcount = sink[s].m_refcount BY <1>4 DEF EventSinks
    <2>2. heap = [sink EXCEPT ![s] = e] OBVIOUS
    <2>3. e # NULL BY <2>1, PointerAssumption
    <2> HIDE DEF e, heap
    <2> QED BY <1>3, <1>5, <2>1, <2>2, <2>3 DEF Heaps
  <1>7. sink' = Release(heap, s, 1 + One(s \in connected))
    <2>1. (IF s \in connected THEN 2 ELSE 1) = 1 + One(s \in connected) BY DEF One
    <2> HIDE DEF heap
    <2> QED BY <1>2, <2>1
  <1> HIDE DEF heap
  <1>8. /\ sink' \in Heaps
        /\ \A x \in Sinks \ {s} : sink'[x] = sink[x]
        /\ sink[s] # NULL
        /\ Count(sink', s) = Count(sink, s) - 1 - One(s \in connected)
    BY <1>1, <1>6, <1>7, PartHeap
  <1> QED BY <1>1, <1>2, <1>8, DisconnectedPart

LEMMA AdviseFailsStep ==
  ASSUME Good, AdviseFails
  PROVE  Good'
  <1>1. stack # <<>> /\ Top.at = "advise" /\ Top.at \in Outgoing /\ Step("done")
    BY DEF AdviseFails, At, Outgoing
  <1>2. /\ Top \in Frames
        /\ OnTop(Top, Base, pDispatch, pEventSink, sink, connected)
        /\ Below(Base, pEventSink, sink, connected)
        /\ Sound(Append(Base, Top), pDispatch, pEventSink, sink, connected)
        /\ \A g \in Frames : Become(g) <=> stack' = Append(Base, g)
    BY <1>1, TopIs
  <1>3. /\ Top.obj \in Objects /\ Top.sink \in Sinks /\ pEventSink[Top.obj] = Top.sink
        /\ Top.sink # NULL /\ Top.sink \notin connected /\ Top.op # "Invoke"
    BY <1>1, TopWaits
  <1>4. /\ sink' = Release(sink, Top.sink, 1)
        /\ pEventSink' = [pEventSink EXCEPT ![Top.obj] = NULL]
        /\ UNCHANGED <<memory, pDispatch, refs, g_bInitialized, made, connected, events, crashed, torn>>
    BY <1>3 DEF AdviseFails
  <1>5. 1 + One(Top.sink \in connected) = 1 BY <1>3 DEF One
  <1>6. sink[Top.sink] # NULL BY <1>3, OwnIs
  <1>7. /\ sink' \in Heaps
        /\ \A x \in Sinks \ {Top.sink} : sink'[x] = sink[x]
        /\ Count(sink', Top.sink) = Count(sink, Top.sink) - 1 - One(Top.sink \in connected)
    BY <1>1, <1>4, <1>5, <1>6, Types, PartHeap
  <1> DEFINE g == [Top EXCEPT !.at = "done"]
  <1>8. "done" \in Places BY DEF Places
  <1>9. g \in Frames /\ g.at = "done" /\ g.op = Top.op /\ g.obj = Top.obj BY <1>2, <1>8, PlaceIs
  <1>10. stack' = Append(Base, g) BY <1>1, <1>2, <1>9 DEF Step
  <1> HIDE DEF g
  <1>11. g.at \notin Outgoing /\ g.op # "Invoke" BY <1>3, <1>9 DEF Outgoing
  <1>12. Shaped(g) BY <1>1, <1>2, <1>9 DEF OnTop, Shaped, Outgoing
  <1>13. OnTop(g, Base, pDispatch, pEventSink', sink', connected)
    BY <1>9, <1>11, <1>12 DEF OnTop, Knows
  <1>14. connected = connected \ {Top.sink} BY <1>3
  <1>15. Sound(Append(Base, g), pDispatch, pEventSink', sink', connected)
    <2>1. pEventSink' = [pEventSink EXCEPT ![Top.obj] = NULL] BY <1>4
    <2>2. Top.at \in Outgoing BY <1>1
    <2>3. pEventSink \in Pointers /\ sink \in Heaps /\ connected \subseteq Sinks BY Types
    <2>4. g \in Frames BY <1>9
    <2> QED BY <1>2, <1>3, <1>7, <1>11, <1>13, <1>14, <2>1, <2>2, <2>3, <2>4, PartSound
  <1>16. Sound(stack, pDispatch, pEventSink, sink, connected)' BY <1>4, <1>10, <1>15
  <1>17. \A x \in Sinks : sink'[x] # NULL => sink[x] # NULL BY <1>6, <1>7
  <1>18. /\ pEventSink' \in Pointers /\ pDispatch' \in [Objects -> BOOLEAN]
         /\ connected' \subseteq Sinks /\ events' \in 0 .. MaxEvents /\ torn' \in BOOLEAN
    BY <1>4, Types DEF Pointers
  <1> QED BY <1>4, <1>7, <1>16, <1>17, <1>18, HeapStep

\* A sink that has not been made is in no memory.
LEMMA ConnectStep ==
  ASSUME Good, Connect
  PROVE  Good'
  <1>1. stack # <<>> /\ Top.at = "connect" BY DEF Connect, At
  <1>2. /\ Top \in Frames
        /\ OnTop(Top, Base, pDispatch, pEventSink, sink, connected)
        /\ Below(Base, pEventSink, sink, connected)
        /\ Sound(Append(Base, Top), pDispatch, pEventSink, sink, connected)
        /\ \A g \in Frames : Become(g) <=> stack' = Append(Base, g)
    BY <1>1, TopIs
  <1>3. Top.op = "WithEvents" /\ Top.obj \in Objects
    BY <1>1, <1>2 DEF OnTop, Shaped, Outgoing
  <1>4. PICK s \in Sinks \ made :
          /\ sink' = [sink EXCEPT ![s] = NewSink(Top.obj)]
          /\ made' = made \cup {s}
          /\ pEventSink' = [pEventSink EXCEPT ![Top.obj] = s]
          /\ Become(Aimed(Top, s, "advise"))
    BY DEF Connect, Aimed
  <1>5. sink[s] = NULL BY <1>4 DEF Good, MemoryInv, InMemory
  <1>6. UNCHANGED <<memory, pDispatch, refs, g_bInitialized, connected, events, crashed, torn>>
    BY DEF Connect
  <1> DEFINE g == Aimed(Top, s, "advise")
  <1>7. "advise" \in Places BY DEF Places, Outgoing
  <1>8. /\ g \in Frames /\ g.at = "advise" /\ g.sink = s /\ g.op = "WithEvents" /\ g.obj = Top.obj
    BY <1>2, <1>3, <1>4, <1>7, AimIs
  <1>9. stack' = Append(Base, g) BY <1>2, <1>4, <1>8
  <1> HIDE DEF g
  <1>10. pEventSink \in Pointers /\ sink \in Heaps /\ connected \in SUBSET Sinks /\ made \subseteq Sinks
    BY Types
  <1>11. /\ sink' = [sink EXCEPT ![s] = NewSink(Top.obj)]
         /\ pEventSink' = [pEventSink EXCEPT ![Top.obj] = s]
         /\ s \in Sinks
    BY <1>4
  <1>12. Sound(Append(Base, g), pDispatch, pEventSink', sink', connected)
    BY <1>1, <1>2, <1>3, <1>5, <1>8, <1>10, <1>11, JoinSound
  <1>13. Sound(stack, pDispatch, pEventSink, sink, connected)' BY <1>6, <1>9, <1>12
  <1>14. TypeInv'
    <2>1. NewSink(Top.obj) \in EventSinks BY <1>3 DEF NewSink, EventSinks
    <2>2. sink' \in [Sinks -> EventSinks \cup {NULL}] BY <1>10, <1>11, <2>1 DEF Heaps
    <2>3. pEventSink' \in [Objects -> Sinks \cup {NULL}] BY <1>10, <1>11 DEF Pointers
    <2>4. made' \subseteq Sinks BY <1>4, <1>10
    <2> QED BY <1>6, <2>2, <2>3, <2>4 DEF Good, TypeInv
  <1>15. MemoryInv'
    <2>1. \A o \in Objects : pDispatch'[o] => o \in Live'
      BY <1>6 DEF Good, MemoryInv, Live
    <2>2. InMemory' \subseteq made'
      BY <1>4, <1>10 DEF Good, MemoryInv, InMemory, Heaps
    <2> QED BY <2>1, <2>2 DEF MemoryInv
  <1> QED BY <1>6, <1>13, <1>14, <1>15 DEF Good

\* The server takes the sink, with a reference.
LEMMA ServerAdvisesStep ==
  ASSUME Good, ServerAdvises
  PROVE  Good'
  <1>1. stack # <<>> /\ Top.at = "advise" /\ Top.at \in Outgoing /\ Step("advised")
    BY DEF ServerAdvises, At, Outgoing
  <1>2. /\ Top \in Frames
        /\ OnTop(Top, Base, pDispatch, pEventSink, sink, connected)
        /\ Below(Base, pEventSink, sink, connected)
        /\ Sound(Append(Base, Top), pDispatch, pEventSink, sink, connected)
        /\ \A g \in Frames : Become(g) <=> stack' = Append(Base, g)
    BY <1>1, TopIs
  <1> DEFINE s == Top.sink
             e == [sink[s] EXCEPT !.m_refcount = @ + 1]
             g == [Top EXCEPT !.at = "advised"]
  <1>3. /\ Top.obj \in Objects /\ s \in Sinks /\ pEventSink[Top.obj] = s
        /\ s # NULL /\ s \notin connected /\ Top.op # "Invoke"
    BY <1>1, TopWaits
  <1>4. /\ sink[s] # NULL /\ sink[s] \in EventSinks BY <1>3, OwnIs
  <1>5. /\ e \in EventSinks /\ e.m_pObj = sink[s].m_pObj
        /\ e.m_pConnectionPoint = sink[s].m_pConnectionPoint
        /\ e.m_refcount = sink[s].m_refcount + 1 /\ sink[s].m_refcount \in Nat
    BY <1>4 DEF EventSinks
  <1>6. e # NULL BY <1>5, PointerAssumption
  <1>7. sink' = [sink EXCEPT ![s] = e] /\ connected' = connected \cup {s}
    BY DEF ServerAdvises, AddRef
  <1>8. UNCHANGED <<memory, pDispatch, pEventSink, refs, g_bInitialized, made, events, crashed, torn>>
    BY DEF ServerAdvises, objVars
  <1> HIDE DEF e
  <1>9. "advised" \in Places BY DEF Places, Outgoing
  <1>10. g \in Frames /\ g.at = "advised" /\ g.sink = s /\ g.op = Top.op /\ g.obj = Top.obj
    BY <1>2, <1>9, PlaceIs
  <1>11. stack' = Append(Base, g) BY <1>1, <1>2, <1>10 DEF Step
  <1> HIDE DEF g
  <1>12. sink \in Heaps /\ pEventSink \in Pointers /\ connected \in SUBSET Sinks BY Types
  <1>13. sink' \in Heaps /\ sink'[s] = e /\ \A x \in Sinks \ {s} : sink'[x] = sink[x]
    BY <1>3, <1>5, <1>7, <1>12 DEF Heaps
  <1>14. Count(sink', s) = Count(sink, s) + One(s \in connected') - One(s \in connected)
    <2>1. One(s \in connected') = 1 /\ One(s \in connected) = 0 BY <1>3, <1>7 DEF One
    <2>2. Count(sink, s) = sink[s].m_refcount BY <1>4 DEF Count
    <2>3. Count(sink', s) = sink[s].m_refcount + 1 BY <1>5, <1>6, <1>13 DEF Count
    <2> QED BY <1>5, <2>1, <2>2, <2>3
  <1>15. Waits(g, s) BY <1>10 DEF Waits, Outgoing
  <1>16. OnTop(g, Base, pDispatch, pEventSink, sink', connected')
    <2>1. Shaped(Top) /\ ~BusyIn(Base, s) BY <1>1, <1>2 DEF OnTop
    <2>2. Shaped(g) BY <1>1, <1>10, <2>1 DEF Shaped, Outgoing
    <2>3. Knows(g, pEventSink, sink', connected') BY <1>3, <1>10 DEF Knows
    <2> QED BY <1>10, <2>1, <2>2, <2>3 DEF OnTop
  <1>17. Sound(Append(Base, g), pDispatch, pEventSink, sink', connected')
    <2>1. sink'[s] # NULL /\ sink'[s].m_pObj = sink[s].m_pObj
      BY <1>5, <1>6, <1>13
    <2>2. sink'[s].m_pConnectionPoint = sink[s].m_pConnectionPoint BY <1>5, <1>13
    <2>3. connected' \in {connected, connected \cup {s}} BY <1>7
    <2>4. Top.at \in Outgoing /\ Top.sink = s BY <1>1
    <2>5. g.op = Top.op BY <1>10
    <2>6. \A x \in Sinks \ {s} : sink'[x] = sink[x] BY <1>13
    <2>7. g \in Frames /\ s \in Sinks BY <1>3, <1>10
    <2> HIDE DEF s
    <2> QED BY <1>2, <1>12, <1>14, <1>15, <1>16, <2>1, <2>2, <2>3, <2>4, <2>5, <2>6, <2>7, TouchSound
  <1>18. Sound(stack, pDispatch, pEventSink, sink, connected)' BY <1>8, <1>11, <1>17
  <1>19. \A x \in Sinks : sink'[x] # NULL => sink[x] # NULL BY <1>4, <1>13
  <1>20. /\ pEventSink' \in Pointers /\ pDispatch' \in [Objects -> BOOLEAN]
         /\ connected' \subseteq Sinks /\ events' \in 0 .. MaxEvents /\ torn' \in BOOLEAN
    BY <1>3, <1>7, <1>8, Types
  <1> QED BY <1>8, <1>13, <1>18, <1>19, <1>20, HeapStep

\* Advise has returned, with the connection point.
LEMMA AdviseReturnsStep ==
  ASSUME Good, AdviseReturns
  PROVE  Good'
  <1>1. stack # <<>> /\ Top.at = "advised" /\ Top.at \in Outgoing /\ Step("done")
    BY DEF AdviseReturns, At, Outgoing
  <1>2. /\ Top \in Frames
        /\ OnTop(Top, Base, pDispatch, pEventSink, sink, connected)
        /\ Below(Base, pEventSink, sink, connected)
        /\ Sound(Append(Base, Top), pDispatch, pEventSink, sink, connected)
        /\ \A g \in Frames : Become(g) <=> stack' = Append(Base, g)
    BY <1>1, TopIs
  <1> DEFINE s == Top.sink
             e == [sink[s] EXCEPT !.m_pConnectionPoint = "set"]
             g == [Top EXCEPT !.at = "done"]
  <1>3. /\ Top.obj \in Objects /\ s \in Sinks /\ pEventSink[Top.obj] = s
        /\ s # NULL /\ Top.op # "Invoke"
    BY <1>1, TopWaits
  <1>4. /\ sink[s] # NULL /\ sink[s] \in EventSinks BY <1>3, OwnIs
  <1>5. /\ e \in EventSinks /\ e.m_pObj = sink[s].m_pObj
        /\ e.m_pConnectionPoint = "set"
        /\ e.m_refcount = sink[s].m_refcount /\ sink[s].m_refcount \in Nat
    BY <1>4 DEF EventSinks
  <1>6. e # NULL BY <1>5, PointerAssumption
  <1>7. sink' = [sink EXCEPT ![s] = e] BY DEF AdviseReturns
  <1>8. UNCHANGED <<memory, pDispatch, pEventSink, refs, g_bInitialized, made, connected, events, crashed, torn>>
    BY DEF AdviseReturns, objVars
  <1> HIDE DEF e
  <1>9. "done" \in Places BY DEF Places
  <1>10. g \in Frames /\ g.at = "done" /\ g.sink = s /\ g.op = Top.op /\ g.obj = Top.obj
    BY <1>2, <1>9, PlaceIs
  <1>11. stack' = Append(Base, g) BY <1>1, <1>2, <1>10 DEF Step
  <1> HIDE DEF g
  <1>12. sink \in Heaps /\ pEventSink \in Pointers /\ connected \in SUBSET Sinks BY Types
  <1>13. sink' \in Heaps /\ sink'[s] = e /\ \A x \in Sinks \ {s} : sink'[x] = sink[x]
    BY <1>3, <1>5, <1>7, <1>12 DEF Heaps
  <1>14. Count(sink', s) = Count(sink, s) + One(s \in connected) - One(s \in connected)
    <2>1. One(s \in connected) \in Nat BY DEF One
    <2>2. Count(sink, s) = sink[s].m_refcount BY <1>4 DEF Count
    <2>3. Count(sink', s) = sink[s].m_refcount BY <1>5, <1>6, <1>13 DEF Count
    <2> QED BY <1>5, <2>1, <2>2, <2>3
  <1>15. OnTop(g, Base, pDispatch, pEventSink, sink', connected)
    <2>1. Shaped(Top) BY <1>2 DEF OnTop
    <2>2. Shaped(g) BY <1>1, <1>10, <2>1 DEF Shaped, Outgoing
    <2> QED BY <1>10, <2>2 DEF OnTop, Knows, Outgoing
  <1>16. Sound(Append(Base, g), pDispatch, pEventSink, sink', connected)
    <2>1. sink'[s] # NULL /\ sink'[s].m_pObj = sink[s].m_pObj BY <1>5, <1>6, <1>13
    <2>2. sink'[s].m_pConnectionPoint = "set" BY <1>5, <1>13
    <2>3. connected \in {connected, connected \cup {s}} OBVIOUS
    <2>4. Top.at \in Outgoing /\ Top.sink = s BY <1>1
    <2>5. g.op = Top.op BY <1>10
    <2>6. \A x \in Sinks \ {s} : sink'[x] = sink[x] BY <1>13
    <2>7. g \in Frames /\ s \in Sinks BY <1>3, <1>10
    <2> HIDE DEF s
    <2> QED BY <1>2, <1>12, <1>14, <1>15, <2>1, <2>2, <2>3, <2>4, <2>5, <2>6, <2>7, TouchSound
  <1>17. Sound(stack, pDispatch, pEventSink, sink, connected)' BY <1>8, <1>11, <1>16
  <1>18. \A x \in Sinks : sink'[x] # NULL => sink[x] # NULL BY <1>4, <1>13
  <1>19. /\ pEventSink' \in Pointers /\ pDispatch' \in [Objects -> BOOLEAN]
         /\ connected' \subseteq Sinks /\ events' \in 0 .. MaxEvents /\ torn' \in BOOLEAN
    BY <1>8, Types
  <1> QED BY <1>8, <1>13, <1>17, <1>18, <1>19, HeapStep

\* The server calls the sink of an object.
LEMMA FireStep ==
  ASSUME Good, NEW s \in Sinks, NEW counted \in BOOLEAN, Fire(s, counted)
  PROVE  Good'
  <1> DEFINE o == sink[s].m_pObj
             f == Frame("Invoke", o, s, "handler", counted, {})
  <1>1. s \in connected /\ o \in Live /\ stack' = Append(stack, f) BY DEF Fire, Push
  <1>2. o \in Objects BY <1>1 DEF Live
  <1>3. /\ f \in Frames /\ f.op = "Invoke" /\ f.obj = o /\ f.sink = s /\ f.at = "handler"
        /\ f.more = counted
    BY <1>2 DEF Frame, Frames, Operations, Places
  <1>4. stack # <<>> => Waiting(stack[Len(stack)])
    BY DEF Fire, TakesCalls, Waiting, Top, Depth
  <1>5. Sound(stack, pDispatch, pEventSink, sink, connected) BY DEF Good
  <1>6. Stacked(stack, pDispatch, pEventSink, sink, connected) BY <1>5 DEF Sound
  <1>7. Below(stack, pEventSink, sink, connected) BY <1>4, <1>6, WaitingBelow
  <1>8. /\ sink' = IF counted THEN [sink EXCEPT ![s].m_refcount = @ + 1] ELSE sink
        /\ events' = events + 1 /\ events < MaxEvents
        /\ UNCHANGED <<memory, pDispatch, pEventSink, refs, g_bInitialized, made, connected, crashed, torn>>
    BY DEF Fire, AddRef, objVars
  <1> HIDE DEF f
  <1>9. sink' = IF f.more THEN [sink EXCEPT ![s].m_refcount = @ + 1] ELSE sink BY <1>3, <1>8
  <1>10. f.obj \in Objects BY <1>2, <1>3
  <1>11. sink' \in Heaps /\ Sound(Append(stack, f), pDispatch, pEventSink, sink', connected)
    BY <1>1, <1>3, <1>5, <1>7, <1>9, <1>10, Types, CallSound
  <1>12. Sound(stack, pDispatch, pEventSink, sink, connected)' BY <1>1, <1>8, <1>11
  <1>13. \A x \in Sinks : sink'[x] # NULL => sink[x] # NULL
    <2>1. sink[s] # NULL BY <1>1, <1>5 DEF Sound, Served
    <2> QED BY <1>8, <2>1, Types DEF Heaps
  <1>14. events' \in 0 .. MaxEvents BY <1>8, Types, BoundAssumption
  <1>15. /\ pEventSink' \in Pointers /\ pDispatch' \in [Objects -> BOOLEAN]
         /\ connected' \subseteq Sinks /\ torn' \in BOOLEAN
    BY <1>8, Types
  <1> QED BY <1>8, <1>11, <1>12, <1>13, <1>14, <1>15, HeapStep

LEMMA InvokeReturnsStep ==
  ASSUME Good, InvokeReturns
  PROVE  Good'
  <1>1. stack # <<>> /\ Top.at = "done" /\ Top.op = "Invoke" /\ Pop BY DEF InvokeReturns, At
  <1>2. /\ Top \in Frames /\ stack' = Base
        /\ OnTop(Top, Base, pDispatch, pEventSink, sink, connected)
        /\ Below(Base, pEventSink, sink, connected)
        /\ Sound(Append(Base, Top), pDispatch, pEventSink, sink, connected)
    BY <1>1, TopIs
  <1>3. Top.sink \in Sinks BY <1>1, <1>2 DEF OnTop, Shaped
  <1>4. /\ sink' = IF Top.more /\ sink[Top.sink] # NULL THEN Release(sink, Top.sink, 1) ELSE sink
        /\ UNCHANGED <<memory, pDispatch, pEventSink, refs, g_bInitialized, made, connected, events, crashed, torn>>
    BY <1>3 DEF InvokeReturns, InMemory, objVars
  <1>5. sink' = IF Top.more /\ sink[Top.sink] # NULL THEN Release(sink, Top.sink, 1) ELSE sink
    BY <1>4
  <1>6. sink' \in Heaps /\ Sound(Base, pDispatch, pEventSink, sink', connected)
    BY <1>1, <1>2, <1>3, <1>5, Types, ReturnSound
  <1>7. Sound(stack, pDispatch, pEventSink, sink, connected)' BY <1>2, <1>4, <1>6
  <1>8. \A x \in Sinks : sink'[x] # NULL => sink[x] # NULL
    <2>1. CASE sink' = sink BY <2>1
    <2>2. CASE sink[Top.sink] # NULL /\ sink' = Release(sink, Top.sink, 1)
      <3>1. \A x \in Sinks \ {Top.sink} : sink'[x] = sink[x]
        BY <1>3, <2>2, Types DEF Release, Heaps
      <3> QED BY <2>2, <3>1
    <2> QED BY <1>5, <2>1, <2>2
  <1>9. /\ pEventSink' \in Pointers /\ pDispatch' \in [Objects -> BOOLEAN]
        /\ connected' \subseteq Sinks /\ events' \in 0 .. MaxEvents /\ torn' \in BOOLEAN
    BY <1>4, Types
  <1> QED BY <1>4, <1>6, <1>7, <1>8, <1>9, HeapStep

-----------------------------------------------------------------------------
(***************************************************************************)
(* Ends of the process                                                     *)
(***************************************************************************)

\* The sink a release finds has a connection point, or is waited for.
LEMMA UnadviseFailsStep ==
  ASSUME Good, UnadviseFails, ~torn'
  PROVE  FALSE
  <1>1. /\ stack # <<>> /\ Top.at = "unadvise" /\ pEventSink[Top.obj] # NULL
        /\ pEventSink[Top.obj] \in InMemory =>
             sink[pEventSink[Top.obj]].m_pConnectionPoint = "garbage"
        /\ ~Tears(Top)
    BY DEF UnadviseFails, Crash, At
  <1>2. OnTop(Top, Base, pDispatch, pEventSink, sink, connected) BY <1>1, TopIs
  <1>3. Top.obj \in Objects BY <1>1, <1>2 DEF OnTop, Shaped, Outgoing
  <1>4. /\ pEventSink[Top.obj] \in InMemory
        /\ \/ sink[pEventSink[Top.obj]].m_pConnectionPoint = "set"
           \/ BusyIn(stack, pEventSink[Top.obj])
    BY <1>1, <1>3, OwnIs DEF InMemory
  <1>5. Busy(pEventSink[Top.obj]) BY <1>1, <1>4, BusyIs
  <1> QED BY <1>1, <1>5 DEF Tears

\* What the server's calls return to is there.
LEMMA ReturnsToSomething ==
  ASSUME Good
  PROVE  ~UnadviseReturnsToNothing /\ ~AdviseReturnsToNothing
  <1>1. ASSUME stack # <<>>, Top.at \in Outgoing
        PROVE  Top.obj \in Live /\ Top.sink \in InMemory /\ pEventSink[Top.obj] = Top.sink
    <2>1. Top.obj \in Objects /\ pEventSink[Top.obj] = Top.sink /\ Top.sink # NULL
      BY <1>1, TopWaits
    <2> QED BY <2>1, OwnIs DEF InMemory
  <1>2. ASSUME UnadviseReturnsToNothing PROVE FALSE
    <2>1. stack # <<>> /\ Top.at = "unadvising" /\ Top.at \in Outgoing
      BY <1>2 DEF UnadviseReturnsToNothing, At, Outgoing
    <2>2. Top.sink \in InMemory /\ Top.obj \in Live BY <1>1, <2>1
    <2>3. sink[Top.sink].m_pConnectionPoint = "set" BY <2>1, TopWaits
    <2> QED BY <1>2, <2>2, <2>3 DEF UnadviseReturnsToNothing
  <1>3. ASSUME AdviseReturnsToNothing PROVE FALSE
    <2>1. stack # <<>> /\ Top.at = "advise" /\ Top.at \in Outgoing
      BY <1>3 DEF AdviseReturnsToNothing, At, Outgoing
    <2>2. Top.sink \in InMemory /\ Top.obj \in Live /\ pEventSink[Top.obj] = Top.sink
      BY <1>1, <2>1
    <2> QED BY <1>3, <2>2 DEF AdviseReturnsToNothing
  <1> QED BY <1>2, <1>3

\* A sink the server calls is an object's.
LEMMA ConnectedIs ==
  ASSUME Good, NEW s \in connected
  PROVE  /\ s \in Sinks /\ sink[s] # NULL /\ sink[s].m_pObj \in Objects
         /\ pEventSink[sink[s].m_pObj] = s /\ sink[s].m_pObj \in Live
  <1>1. Served(pEventSink, sink, connected) BY DEF Good, Sound
  <1>2. s \in Sinks /\ sink[s] # NULL /\ pEventSink[sink[s].m_pObj] = s
    BY <1>1, Types DEF Served
  <1>3. sink[s].m_pObj \in Objects BY <1>2, Types DEF Heaps, EventSinks
  <1>4. s # NULL BY <1>2, NullAssumption
  <1> QED BY <1>2, <1>3, <1>4, OwnIs

LEMMA FiresAtSomething == Good => ~FireAtNothing
  BY ConnectedIs DEF FireAtNothing

\* The type info there is none of: the process is over, and nothing else changes.
LEMMA ConnectFailsWithoutTypeStep ==
  ASSUME Good, ConnectFailsWithoutType
  PROVE  Good'
  <1>1. /\ Top.at = "connect" /\ stack' = stack /\ crashed' = "type"
        /\ UNCHANGED <<objVars, sinkVars, events>>
        /\ torn' = (torn \/ (stack # <<>> /\ Tears(Top)))
    BY DEF ConnectFailsWithoutType, At, Crash
  <1>2. torn' \in BOOLEAN BY <1>1
  <1>3. Sound(stack', pDispatch, pEventSink, sink, connected) BY <1>1 DEF Good
  <1>4. /\ UNCHANGED <<memory, pDispatch, pEventSink, sinkVars, events>>
        /\ refs' \in [Objects -> 0 .. MaxRefs] /\ g_bInitialized' \in BOOLEAN
        /\ crashed' \notin {"sink", "object"}
    BY <1>1 DEF objVars, Good, TypeInv
  <1> QED BY <1>2, <1>3, <1>4, QuietStep

-----------------------------------------------------------------------------
(***************************************************************************)
(* The invariant                                                           *)
(***************************************************************************)
LEMMA InitIInv == Init => IInv
  <1> SUFFICES ASSUME Init PROVE Good BY DEF IInv
  <1>1. TypeInv
    <2>1. 1 \in 0 .. MaxRefs /\ 0 \in 0 .. MaxEvents BY BoundAssumption
    <2> QED BY <2>1 DEF Init, TypeInv
  <1>2. MemoryInv BY DEF Init, MemoryInv, Live, InMemory
  <1>3. Owned(stack, pDispatch, pEventSink, sink) BY DEF Init, Owned
  <1>4. Served(pEventSink, sink, connected) BY DEF Init, Served
  <1>5. Counted(stack, pEventSink, sink, connected)
    <2>1. ASSUME NEW s \in Sinks PROVE Count(sink, s) = Tally(stack, pEventSink, connected, s)
      <3>1. Count(sink, s) = 0 BY DEF Init, Count
      <3>2. ~Has(pEventSink, s)
        <4>1. s # NULL BY NullAssumption
        <4> QED BY <4>1 DEF Init, Has
      <3>3. One(Has(pEventSink, s)) = 0 /\ One(s \in connected) = 0 BY <3>2 DEF Init, One
      <3>4. Len(stack) = 0 BY DEF Init
      <3>5. CallsIn(stack, s) = {} BY <3>4 DEF CallsIn
      <3>6. Cardinality(CallsIn(stack, s)) = 0 BY <3>5, FS_EmptySet
      <3> QED BY <3>1, <3>3, <3>6 DEF Tally
    <2> QED BY <2>1 DEF Counted
  <1>6. Stacked(stack, pDispatch, pEventSink, sink, connected) BY DEF Init, Stacked
  <1>7. crashed \notin {"sink", "object"} BY DEF Init
  <1> QED BY <1>1, <1>2, <1>3, <1>4, <1>5, <1>6, <1>7 DEF Good, Sound

LEMMA NextIInv == IInv /\ [Next]_vars => IInv'
  <1> SUFFICES ASSUME IInv, [Next]_vars, ~torn' PROVE Good' BY DEF IInv
  <1>1. ~torn
    <2>1. torn' = torn \/ torn' = (torn \/ Tears(Top))
            \/ torn' = (torn \/ (stack # <<>> /\ Tears(Top)))
      BY DEF Next, vars, WithEvents, Keep, Drop, Fire, FireAtNothing, Unadvise, CallServer, NoServer,
             UnadviseFails, UnadviseReturns, UnadviseReturnsToNothing, ConnectFails,
             ConnectFailsWithoutType, Connect, ServerAdvises, AdviseReturns, AdviseFails,
             AdviseReturnsToNothing, WithEventsReturns, HandlerReturns, InvokeReturns, Destroyed,
             Uninitialize, UninitializeNext, UninitializeEnd, Crash
    <2> QED BY <2>1
  <1>2. Good BY <1>1 DEF IInv
  <1>3. CASE \E o \in Objects, handler \in BOOLEAN : WithEvents(o, handler)
    BY <1>2, <1>3, WithEventsStep
  <1>4. CASE \E o \in Objects : Keep(o) \/ Drop(o) BY <1>2, <1>4, KeepStep, DropStep
  <1>5. CASE \E s \in Sinks, counted \in BOOLEAN : Fire(s, counted) BY <1>2, <1>5, FireStep
  <1>6. CASE FireAtNothing BY <1>2, <1>6, FiresAtSomething
  <1>7. CASE Unadvise BY <1>2, <1>7, UnadviseStep
  <1>8. CASE UnadviseFails BY <1>2, <1>8, UnadviseFailsStep
  <1>9. CASE UnadviseReturns BY <1>2, <1>9, UnadviseReturnsStep
  <1>10. CASE UnadviseReturnsToNothing \/ AdviseReturnsToNothing BY <1>2, <1>10, ReturnsToSomething
  <1>11. CASE ConnectFails BY <1>2, <1>11, ConnectFailsStep
  <1>12. CASE ConnectFailsWithoutType BY <1>2, <1>12, ConnectFailsWithoutTypeStep
  <1>13. CASE Connect BY <1>2, <1>13, ConnectStep
  <1>14. CASE ServerAdvises BY <1>2, <1>14, ServerAdvisesStep
  <1>15. CASE AdviseReturns BY <1>2, <1>15, AdviseReturnsStep
  <1>16. CASE AdviseFails BY <1>2, <1>16, AdviseFailsStep
  <1>17. CASE WithEventsReturns BY <1>2, <1>17, WithEventsReturnsStep
  <1>18. CASE HandlerReturns BY <1>2, <1>18, HandlerReturnsStep
  <1>19. CASE InvokeReturns BY <1>2, <1>19, InvokeReturnsStep
  <1>20. CASE Destroyed BY <1>2, <1>20, DestroyedStep
  <1>21. CASE Uninitialize BY <1>2, <1>21, UninitializeStep
  <1>22. CASE UninitializeNext BY <1>2, <1>22, UninitializeNextStep
  <1>23. CASE UninitializeEnd BY <1>2, <1>23, UninitializeEndStep
  <1>24. CASE UNCHANGED vars
    <2>1. UNCHANGED <<memory, pDispatch, pEventSink, sinkVars, events, stack, refs, g_bInitialized, crashed, torn>>
      BY <1>24 DEF vars, objVars
    <2>2. Sound(stack', pDispatch, pEventSink, sink, connected) BY <1>2, <2>1 DEF Good
    <2>3. /\ refs' \in [Objects -> 0 .. MaxRefs] /\ g_bInitialized' \in BOOLEAN
          /\ torn' \in BOOLEAN /\ crashed' \notin {"sink", "object"}
      BY <1>2, <2>1 DEF Good, TypeInv
    <2> QED BY <1>2, <2>1, <2>2, <2>3, QuietStep
  <1> QED
    BY <1>3, <1>4, <1>5, <1>6, <1>7, <1>8, <1>9, <1>10, <1>11, <1>12, <1>13, <1>14, <1>15, <1>16,
       <1>17, <1>18, <1>19, <1>20, <1>21, <1>22, <1>23, <1>24
    DEF Next

LEMMA Invariance == Spec => []IInv
  <1>1. Init => IInv BY InitIInv
  <1>2. IInv /\ [Next]_vars => IInv' BY NextIInv
  <1> QED BY <1>1, <1>2, PTL DEF Spec

-----------------------------------------------------------------------------
(***************************************************************************)
(* Theorems                                                                *)
(***************************************************************************)

\* The references to a sink (EventSink::AddRef and Release, Advise, Unadvise, Invoke) are the
\* object's, the server's and those of counted calls that run: it is deleted with the last
\* one, whatever the handlers did in between.
THEOREM SinkIsCounted == Spec => []SinkCounted
  <1>1. IInv => SinkCounted
    <2> SUFFICES ASSUME IInv, ~torn, NEW s \in Sinks
                 PROVE  (IF s \in InMemory THEN sink[s].m_refcount ELSE 0)
                          = Cardinality(Owners(s)) + Cardinality(connected \cap {s})
                            + Cardinality(Calls(s))
      BY DEF SinkCounted
    <2>1. Good BY DEF IInv
    <2>2. Count(sink, s) = Tally(stack, pEventSink, connected, s)
      BY <2>1 DEF Good, Sound, Counted
    <2>3. (IF s \in InMemory THEN sink[s].m_refcount ELSE 0) = Count(sink, s)
      BY DEF Count, InMemory
    <2>4. Cardinality(Owners(s)) = One(Has(pEventSink, s))
      <3>1. CASE Has(pEventSink, s)
        <4>1. PICK o \in Objects : pEventSink[o] = s BY <3>1 DEF Has
        <4>2. s # NULL BY NullAssumption
        <4>3. \A p \in Objects : pEventSink[p] = s => p = o
          BY <2>1, <4>1, <4>2, OneOwner DEF Good, Sound
        <4>4. Owners(s) = {o} BY <4>1, <4>3 DEF Owners
        <4>5. Cardinality(Owners(s)) = 1 BY <4>4, FS_Singleton
        <4> QED BY <3>1, <4>5 DEF One
      <3>2. CASE ~Has(pEventSink, s)
        <4>1. Owners(s) = {} BY <3>2 DEF Owners, Has
        <4> QED BY <3>2, <4>1, FS_EmptySet DEF One
      <3> QED BY <3>1, <3>2
    <2>5. Cardinality(connected \cap {s}) = One(s \in connected)
      <3>1. CASE s \in connected
        <4>1. connected \cap {s} = {s} BY <3>1
        <4>2. Cardinality(connected \cap {s}) = 1 BY <4>1, FS_Singleton
        <4> QED BY <3>1, <4>2 DEF One
      <3>2. CASE s \notin connected
        <4>1. connected \cap {s} = {} BY <3>2
        <4> QED BY <3>2, <4>1, FS_EmptySet DEF One
      <3> QED BY <3>1, <3>2
    <2>6. Calls(s) = CallsIn(stack, s)
      <3>1. stack \in Seq(Frames) BY <2>1 DEF Good, Sound, Stacked
      <3>2. DOMAIN stack = 1 .. Len(stack) BY <3>1, LenProperties
      <3> QED BY <3>2 DEF Calls, CallsIn, IsCall
    <2> QED BY <2>2, <2>3, <2>4, <2>5, <2>6 DEF Tally
  <1> QED BY <1>1, Invariance, PTL

\* The server calls the sinks objects have and no other (WithEvents and ReleasePerlObject
\* disconnect the one before), the objects are in memory, and what has no interface any
\* more has no sink.
THEOREM CurrentIsConnected == Spec => []CurrentConnected
  <1>1. IInv => CurrentConnected
    <2> SUFFICES ASSUME IInv, ~torn
                 PROVE  /\ \A s \in connected :
                             sink[s].m_pObj \in Live /\ pEventSink[sink[s].m_pObj] = s
                        /\ \A o \in Objects : ~pDispatch[o] => pEventSink[o] = NULL
      BY DEF CurrentConnected
    <2>1. Good BY DEF IInv
    <2> QED BY <2>1, ConnectedIs, OwnIs
  <1> QED BY <1>1, Invariance, PTL

\* Unless a handler has a sink disconnected in the middle of its Advise or Unadvise, no call
\* is made through a sink or an object that is not there.
THEOREM CrashIsExplained == Spec => []CrashExplained
  <1>1. IInv => CrashExplained BY DEF IInv, Good, CrashExplained
  <1> QED BY <1>1, Invariance, PTL

=============================================================================
