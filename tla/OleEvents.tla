------------------------------ MODULE OleEvents ------------------------------
(***************************************************************************)
(* src/Win32-OLE/OLE.xs: the events of Win32::OLE objects.  WithEvents     *)
(* connects an EventSink to the server of an object; the server calls its  *)
(* Invoke, which calls the script's handler.  An object has one sink at    *)
(* most, which is disconnected when another one is connected and when the  *)
(* object is released, by DESTROY or by Uninitialize.                      *)
(*                                                                         *)
(* Events need a single threaded apartment, so everything is on one thread.*)
(* But such a thread takes incoming calls while an outgoing one waits: an  *)
(* event may arrive in the middle of Advise and of Unadvise, and its       *)
(* handler may call WithEvents, Uninitialize, or drop the object.  As in   *)
(* OleObjects the functions that run are frames of a stack.  How objects   *)
(* are made, their chain and their destroy callbacks are OleObjects'; here *)
(* the objects are there from the start.                                   *)
(***************************************************************************)
EXTENDS Integers, Sequences, FiniteSets

CONSTANTS
  Objects,    \* WINOLEOBJECTs
  Sinks,      \* memory for EventSinks, each used once
  NULL,
  MaxDepth,   \* bound: frames on the stack
  MaxRefs,    \* bound: references the script has to one object
  MaxEvents   \* bound: events

ASSUME NullAssumption  == NULL \notin Objects \cup Sinks
ASSUME BoundAssumption == MaxDepth \in Nat /\ MaxRefs \in Nat \ {0} /\ MaxEvents \in Nat

VARIABLES
  \* the objects
  memory,       \* "live" or "freed"
  pDispatch,    \* whether it has its interface; a zombie has not
  pEventSink,
  refs,         \* references the script has to it
  g_bInitialized,
  \* the sinks
  sink,         \* sink -> its members, or NULL while it is not in memory
  made,         \* the sinks there have been
  \* the server
  connected,    \* the sinks it calls, holding a reference to each
  events,       \* events so far
  \* the thread
  stack,        \* frames of the functions that run
  crashed,      \* what ended the process, or "no"
  \* history, read by the properties only
  torn          \* a sink was disconnected in the middle of its Advise or Unadvise

objVars  == <<memory, pDispatch, pEventSink, refs, g_bInitialized>>
sinkVars == <<sink, made, connected>>
vars == <<objVars, sinkVars, events, stack, crashed, torn>>

Live == {o \in Objects : memory[o] = "live"}
InMemory == {s \in Sinks : sink[s] # NULL}

Init ==
  /\ memory = [o \in Objects |-> "live"]
  /\ pDispatch = [o \in Objects |-> TRUE]
  /\ pEventSink = [o \in Objects |-> NULL]
  /\ refs = [o \in Objects |-> 1]
  /\ g_bInitialized = TRUE
  /\ sink = [s \in Sinks |-> NULL]
  /\ made = {}
  /\ connected = {}
  /\ events = 0
  /\ stack = <<>>
  /\ crashed = "no"
  /\ torn = FALSE

-----------------------------------------------------------------------------
(***************************************************************************)
(* Frames.  "more": WithEvents has a handler to connect, the server of an  *)
(* Invoke holds a reference of its own during the call.  "todo" is what a  *)
(* walk has before it.                                                     *)
(***************************************************************************)
Outgoing == {"unadvising", "advise", "advised"}

Operations == {"WithEvents", "DESTROY", "Uninitialize", "Invoke"}
Places == {"unadvise", "connect", "done", "handler", "released", "walk"} \cup Outgoing
Frames ==
  [op : Operations, obj : Objects \cup {NULL}, sink : Sinks \cup {NULL}, at : Places,
   more : BOOLEAN, todo : SUBSET Objects]
Frame(op, o, s, at, more, todo) ==
  [op |-> op, obj |-> o, sink |-> s, at |-> at, more |-> more, todo |-> todo]

Depth == Len(stack)
Top == stack[Depth]
At(place) == crashed = "no" /\ stack # <<>> /\ Top.at = place

Push(frame) == Depth < MaxDepth /\ stack' = Append(stack, frame)
Pop == stack' = SubSeq(stack, 1, Depth - 1)
Become(frame) == stack' = [stack EXCEPT ![Depth] = frame]
Step(place) == Become([Top EXCEPT !.at = place])

ScriptRuns == crashed = "no" /\ (stack # <<>> => Top.at = "handler")

\* A frame that connects or disconnects s waits for the server.
Busy(s) == \E i \in DOMAIN stack : stack[i].sink = s /\ stack[i].at \in Outgoing

\* The frame is about to disconnect such a sink.
Tears(frame) == frame.at = "unadvise" /\ Busy(pEventSink[frame.obj])

\* A call reads through NULL or what is not in memory, and the process is over.
Crash(why) ==
  /\ crashed' = why
  /\ torn' = (torn \/ (stack # <<>> /\ Tears(Top)))
  /\ UNCHANGED <<objVars, sinkVars, events, stack>>

\* Frames up to n that have a reference to o: the argument of DESTROY, and of a handler
\* that runs
KeptBelow(o, n) ==
  \E i \in 1 .. n : stack[i].obj = o /\ (stack[i].op = "DESTROY" \/ stack[i].at = "handler")

Reachable(o) == refs[o] = 0 => stack # <<>> /\ Top.obj = o

-----------------------------------------------------------------------------
(***************************************************************************)
(* EventSink                                                               *)
(***************************************************************************)
EventSinks ==
  [m_pObj : Objects, m_refcount : Nat, m_pConnectionPoint : {"garbage", "set", "NULL"}]
ASSUME PointerAssumption == NULL \notin EventSinks
NewSink(o) == [m_pObj |-> o, m_refcount |-> 1, m_pConnectionPoint |-> "garbage"]

\* AddRef and Release; the last one deletes the sink
AddRef(s) == [sink EXCEPT ![s].m_refcount = @ + 1]

Release(heap, s, n) ==
  LET left == heap[s].m_refcount - n IN
    [heap EXCEPT ![s] = IF left = 0 THEN NULL ELSE [heap[s] EXCEPT !.m_refcount = left]]

\* Where the frame on top goes on without a sink
Onward == CASE Top.op = "WithEvents"   -> IF Top.more THEN "connect" ELSE "done"
            [] Top.op = "DESTROY"      -> "released"
            [] Top.op = "Uninitialize" -> "walk"

\* The object has no sink any more.  ReleasePerlObject releases the interface next.
\* Mutant of Disconnected: the pointer to the sink stays.
DisconnectedOnly(o) ==
  /\ UNCHANGED pEventSink
  /\ pDispatch' = [pDispatch EXCEPT ![o] = @ /\ Top.op = "WithEvents"]
  /\ Step(Onward)
Disconnected(o) ==
  /\ pEventSink' = [pEventSink EXCEPT ![o] = NULL]
  /\ pDispatch' = [pDispatch EXCEPT ![o] = @ /\ Top.op = "WithEvents"]
  /\ Step(Onward)

\* Unadvise calls the server, unless the sink has no connection point.  Before Advise has
\* returned that is whatever the constructor found in the memory.
CallServer(s) ==
  /\ sink[s].m_pConnectionPoint = "set"
  /\ Become([Top EXCEPT !.sink = s, !.at = "unadvising"])
  /\ torn' = (torn \/ Tears(Top))
  /\ UNCHANGED <<objVars, sinkVars, events, crashed>>

NoServer(s) ==
  /\ sink[s].m_pConnectionPoint # "set"
  /\ sink' = Release(sink, s, 1)
  /\ Disconnected(Top.obj)
  /\ torn' = (torn \/ Tears(Top))
  /\ UNCHANGED <<memory, refs, g_bInitialized, made, connected, events, crashed>>

Unadvise ==
  /\ At("unadvise")
  /\ LET s == pEventSink[Top.obj] IN
       \/ /\ s = NULL
          /\ Disconnected(Top.obj)
          /\ UNCHANGED <<memory, refs, g_bInitialized, sinkVars, events, crashed, torn>>
       \/ s \in InMemory /\ (CallServer(s) \/ NoServer(s))

UnadviseFails ==
  /\ At("unadvise")
  /\ LET s == pEventSink[Top.obj] IN
       /\ s # NULL
       /\ s \in InMemory => sink[s].m_pConnectionPoint = "garbage"
  /\ Crash("sink")

\* The server has let go of the sink; its connection point, read again, is released, and
\* so is the sink.
\* Mutant of UnadviseReturns: the sink's own reference stays.
UnadviseLeaks ==
  /\ At("unadvising")
  /\ LET s == Top.sink IN
       /\ s \in InMemory /\ sink[s].m_pConnectionPoint = "set"
       /\ Top.obj \in Live
       /\ connected' = connected \ {s}
       /\ sink' = Release([sink EXCEPT ![s].m_pConnectionPoint = "NULL"], s,
                          IF s \in connected THEN 1 ELSE 0)
  /\ Disconnected(Top.obj)
  /\ UNCHANGED <<memory, refs, g_bInitialized, made, events, crashed, torn>>
UnadviseReturns ==
  /\ At("unadvising")
  /\ LET s == Top.sink IN
       /\ s \in InMemory /\ sink[s].m_pConnectionPoint = "set"
       /\ Top.obj \in Live
       /\ connected' = connected \ {s}
       /\ sink' = Release([sink EXCEPT ![s].m_pConnectionPoint = "NULL"], s,
                          IF s \in connected THEN 2 ELSE 1)
  /\ Disconnected(Top.obj)
  /\ UNCHANGED <<memory, refs, g_bInitialized, made, events, crashed, torn>>

UnadviseReturnsToNothing ==
  /\ At("unadvising")
  /\ LET s == Top.sink IN
       \/ s \notin InMemory /\ Crash("sink")
       \/ s \in InMemory /\ sink[s].m_pConnectionPoint # "set" /\ Crash("sink")
       \/ Top.obj \notin Live /\ Crash("object")

-----------------------------------------------------------------------------
(***************************************************************************)
(* Win32::OLE->WithEvents( OBJECT [, HANDLER [, INTERFACE ]] )             *)
(***************************************************************************)
WithEvents(o, handler) ==
  /\ ScriptRuns
  /\ Reachable(o) /\ o \in Live /\ pDispatch[o]
  /\ Push(Frame("WithEvents", o, NULL, "unadvise", handler, {}))
  /\ UNCHANGED <<objVars, sinkVars, events, crashed, torn>>

\* The object, the interface or the connection point is not there.
ConnectFails ==
  /\ At("connect")
  /\ Step("done")
  /\ UNCHANGED <<objVars, sinkVars, events, crashed, torn>>

\* No connection points, and an interface that was given by its number: the type info
\* there is none of is released.
ConnectFailsWithoutType == At("connect") /\ Crash("type")

\* The sink is the object's before it is connected.
Connect ==
  /\ At("connect")
  /\ \E s \in Sinks \ made :
       /\ sink' = [sink EXCEPT ![s] = NewSink(Top.obj)]
       /\ made' = made \cup {s}
       /\ pEventSink' = [pEventSink EXCEPT ![Top.obj] = s]
       /\ Become([Top EXCEPT !.sink = s, !.at = "advise"])
  /\ UNCHANGED <<memory, pDispatch, refs, g_bInitialized, connected, events, crashed, torn>>

\* IConnectionPoint::Advise: the server has the sink,
ServerAdvises ==
  /\ At("advise")
  /\ Top.sink \in InMemory
  /\ connected' = connected \cup {Top.sink}
  /\ sink' = AddRef(Top.sink)
  /\ Step("advised")
  /\ UNCHANGED <<objVars, made, events, crashed, torn>>

\* and its call returns.
AdviseReturns ==
  /\ At("advised")
  /\ sink' = [sink EXCEPT ![Top.sink].m_pConnectionPoint = "set"]
  /\ Step("done")
  /\ UNCHANGED <<objVars, made, connected, events, crashed, torn>>

\* Advise has failed: the sink of the object, read again, goes.
\* Mutant of AdviseFails: the object still has it.
AdviseFailsKept ==
  /\ At("advise")
  /\ LET s == pEventSink[Top.obj] IN
       /\ Top.obj \in Live /\ s \in InMemory
       /\ sink' = Release(sink, s, 1)
  /\ Step("done")
  /\ UNCHANGED <<objVars, made, connected, events, crashed, torn>>
AdviseFails ==
  /\ At("advise")
  /\ LET o == Top.obj
         s == pEventSink[o]
     IN  /\ o \in Live /\ s \in InMemory
         /\ sink' = Release(sink, s, 1)
         /\ pEventSink' = [pEventSink EXCEPT ![o] = NULL]
  /\ Step("done")
  /\ UNCHANGED <<memory, pDispatch, refs, g_bInitialized, made, connected, events, crashed, torn>>

AdviseReturnsToNothing ==
  \/ At("advise") /\ Top.obj \notin Live /\ Crash("object")
  \/ At("advise") /\ pEventSink[Top.obj] \notin InMemory /\ Crash("sink")
  \/ At("advise") /\ Top.sink \notin InMemory /\ Crash("sink")

\* Back to the caller of WithEvents
WithEventsReturns ==
  /\ At("done") /\ Top.op = "WithEvents"
  /\ Pop
  /\ UNCHANGED <<objVars, sinkVars, events, crashed, torn>>

-----------------------------------------------------------------------------
(***************************************************************************)
(* EventSink::Invoke                                                       *)
(***************************************************************************)

\* The thread takes calls when the script waits for events or calls the server, and while
\* Advise and Unadvise wait.
TakesCalls == crashed = "no" /\ (stack # <<>> => Top.at \in Outgoing \cup {"handler"})

\* The handler gets the object, made from its address.
Fire(s, counted) ==
  LET o == sink[s].m_pObj IN
    /\ TakesCalls
    /\ s \in connected
    /\ events < MaxEvents
    /\ o \in Live
    /\ Push(Frame("Invoke", o, s, "handler", counted, {}))
    /\ sink' = IF counted THEN AddRef(s) ELSE sink
    /\ events' = events + 1
    /\ UNCHANGED <<objVars, made, connected, crashed, torn>>

FireAtNothing ==
  /\ TakesCalls
  /\ \E s \in connected : sink[s].m_pObj \notin Live
  /\ Crash("object")

\* The reference made for the handler goes, and maybe the object with it.
HandlerReturns ==
  /\ At("handler")
  /\ LET o == Top.obj IN
       IF o \in Live /\ refs[o] = 0 /\ ~KeptBelow(o, Depth - 1)
       THEN /\ Depth < MaxDepth
            /\ stack' = Append([stack EXCEPT ![Depth].at = "done"],
                               Frame("DESTROY", o, NULL, "unadvise", FALSE, {}))
       ELSE Step("done")
  /\ UNCHANGED <<objVars, sinkVars, events, crashed, torn>>

InvokeReturns ==
  /\ At("done") /\ Top.op = "Invoke"
  /\ sink' = IF Top.more /\ Top.sink \in InMemory THEN Release(sink, Top.sink, 1) ELSE sink
  /\ Pop
  /\ UNCHANGED <<objVars, made, connected, events, crashed, torn>>

-----------------------------------------------------------------------------
(***************************************************************************)
(* References and the release of objects                                   *)
(***************************************************************************)

\* The handler puts the object away.
Keep(o) ==
  /\ At("handler") /\ Top.obj = o
  /\ refs[o] < MaxRefs
  /\ refs' = [refs EXCEPT ![o] = @ + 1]
  /\ UNCHANGED <<memory, pDispatch, pEventSink, g_bInitialized, sinkVars, events, stack, crashed,
                 torn>>

Drop(o) ==
  /\ ScriptRuns
  /\ o \in Live /\ refs[o] > 0
  /\ refs' = [refs EXCEPT ![o] = @ - 1]
  /\ IF refs[o] = 1 /\ ~KeptBelow(o, Depth)
       THEN Push(Frame("DESTROY", o, NULL, "unadvise", FALSE, {}))
       ELSE UNCHANGED stack
  /\ UNCHANGED <<memory, pDispatch, pEventSink, g_bInitialized, sinkVars, events, crashed, torn>>

\* With no reference left the object goes, unless a handler has put one away.
Destroyed ==
  LET o == Top.obj IN
    /\ At("released")
    /\ memory' = IF refs[o] > 0 \/ KeptBelow(o, Depth - 1) THEN memory
                 ELSE [memory EXCEPT ![o] = "freed"]
    /\ Pop
    /\ UNCHANGED <<pDispatch, pEventSink, refs, g_bInitialized, sinkVars, events, crashed, torn>>

\* Uninitialize releases the objects on the chain, in the chain's order.
Uninitialize ==
  /\ ScriptRuns
  /\ g_bInitialized
  /\ Push(Frame("Uninitialize", NULL, NULL, "walk", FALSE, Live))
  /\ UNCHANGED <<objVars, sinkVars, events, crashed, torn>>

UninitializeNext ==
  /\ At("walk")
  /\ \E o \in Top.todo \cap Live :
       Become([Top EXCEPT !.obj = o, !.at = "unadvise", !.todo = @ \ {o}])
  /\ UNCHANGED <<objVars, sinkVars, events, crashed, torn>>

UninitializeEnd ==
  /\ At("walk")
  /\ Top.todo \cap Live = {}
  /\ g_bInitialized' = FALSE
  /\ Pop
  /\ UNCHANGED <<memory, pDispatch, pEventSink, refs, sinkVars, events, crashed, torn>>

-----------------------------------------------------------------------------
Next ==
  \/ \E o \in Objects : \/ \E handler \in BOOLEAN : WithEvents(o, handler)
                        \/ Keep(o) \/ Drop(o)
  \/ \E s \in Sinks, counted \in BOOLEAN : Fire(s, counted)
  \/ FireAtNothing
  \/ Unadvise \/ UnadviseFails \/ UnadviseReturns \/ UnadviseReturnsToNothing
  \/ ConnectFails \/ ConnectFailsWithoutType \/ Connect
  \/ ServerAdvises \/ AdviseReturns \/ AdviseFails \/ AdviseReturnsToNothing
  \/ WithEventsReturns
  \/ HandlerReturns \/ InvokeReturns
  \/ Destroyed
  \/ Uninitialize \/ UninitializeNext \/ UninitializeEnd

Spec == Init /\ [][Next]_vars

-----------------------------------------------------------------------------
(***************************************************************************)
(* Properties                                                              *)
(***************************************************************************)

\* The references to a sink are the object's, the server's, and those of calls the server
\* has counted: it is deleted with the last one, whatever a handler did in between.
Owners(s) == {o \in Objects : pEventSink[o] = s}
Calls(s) == {i \in DOMAIN stack : stack[i].op = "Invoke" /\ stack[i].sink = s /\ stack[i].more}

SinkCounted ==
  crashed = "no" /\ ~torn =>
    \A s \in Sinks :
      (IF s \in InMemory THEN sink[s].m_refcount ELSE 0)
        = Cardinality(Owners(s)) + Cardinality(connected \cap {s}) + Cardinality(Calls(s))

\* The server calls the sink an object has now and no other, and the object is in memory:
\* the handler before, or the one of an object that is gone, gets no event.  What has no
\* interface any more has no sink either, in the middle of a release or a walk too.
CurrentConnected ==
  ~torn => /\ \A s \in connected : sink[s].m_pObj \in Live /\ pEventSink[sink[s].m_pObj] = s
           /\ \A o \in Objects : ~pDispatch[o] => pEventSink[o] = NULL

\* The process only ends when a handler changes the handler of its object, or releases
\* the object, while that sink is being connected or disconnected.
CrashExplained == crashed \in {"sink", "object"} => torn

-----------------------------------------------------------------------------
\* OLE.xs:1117-1120: "Make sure nothing is cleaned up twice!"  A sink is, when an event
\* arrives in the middle of Unadvise and its handler calls Uninitialize.
Disconnecting(i, s) ==
  stack[i].op \in {"DESTROY", "Uninitialize"} /\ stack[i].at = "unadvising" /\ stack[i].sink = s

NothingTwice ==
  \A i, j \in DOMAIN stack, s \in Sinks : Disconnecting(i, s) /\ Disconnecting(j, s) => i = j
=============================================================================
