----------------------------- MODULE OleObjects -----------------------------
(***************************************************************************)
(* src/Win32-OLE/OLE.xs: the objects of one interpreter.  Each Win32::OLE  *)
(* object (a WINOLEOBJECT) holds a reference to a COM object and is on the *)
(* object chain, a doubly linked list; Uninitialize walks the chain and    *)
(* releases what it finds, EnumAllObjects walks it and calls the script.   *)
(*                                                                         *)
(* One thread runs an interpreter, so the critical section around the chain*)
(* never waits.  What makes the order of things hard is reentrancy: the    *)
(* script's code runs in the middle of a release (the DESTROY argument of  *)
(* new) and of a walk, where it may create and drop objects, and walk and  *)
(* release in turn.  The frames of the running functions are on a stack;   *)
(* the script runs when the stack is empty or its top frame is at          *)
(* "callback".                                                             *)
(***************************************************************************)
EXTENDS Integers, Sequences, FiniteSets

CONSTANTS
  Objects,    \* blocks of memory for a WINOLEOBJECT, each used once
  Coms,       \* COM objects, by identity (IUnknown)
  NULL,
  MaxDepth,   \* bound: frames on the stack
  MaxRefs,    \* bound: references the script has to one object
  MaxHeld     \* bound: references held to one COM object

ASSUME NullAssumption  == NULL \notin Objects /\ NULL \notin Coms
ASSUME BoundAssumption == MaxDepth \in Nat /\ MaxRefs \in Nat \ {0} /\ MaxHeld \in Nat
ASSUME FiniteAssumption == IsFiniteSet(Objects)

VARIABLES
  \* the objects; one is in memory from CreatePerlObject to Tie::DESTROY
  memory,     \* "unused", "live" or "freed"
  pNext, pPrevious, g_pObj,       \* the chain
  pDispatch,  \* object -> its COM object
  destroy,    \* object -> it has a destroy callback
  flags,      \* object -> subset of {"UNIQUE", "DESTROYED"}
  refs,       \* object -> references the script has to it
  \* the rest of PERINTERP
  g_hv_unique,          \* COM object -> the object that stands for it
  g_bInitialized,
  \* COM: the references this extension holds
  held,
  \* Perl
  stack,      \* frames of the functions that run
  exiting,    \* the interpreter is being destructed
  \* history, read by the properties only
  born        \* object -> how many were created before it, and itself

chainVars == <<memory, pNext, pPrevious, g_pObj, born>>
comVars   == <<pDispatch, g_hv_unique, held>>
vars == <<chainVars, comVars, g_bInitialized, destroy, flags, refs, stack, exiting>>

Live == {o \in Objects : memory[o] = "live"}

Init ==
  /\ memory = [o \in Objects |-> "unused"]
  /\ pNext = [o \in Objects |-> NULL] /\ pPrevious = [o \in Objects |-> NULL]
  /\ g_pObj = NULL
  /\ pDispatch = [o \in Objects |-> NULL]
  /\ destroy = [o \in Objects |-> FALSE]
  /\ flags = [o \in Objects |-> {}]
  /\ refs = [o \in Objects |-> 0]
  /\ g_hv_unique = [c \in Coms |-> NULL]
  /\ g_bInitialized = FALSE
  /\ held = [c \in Coms |-> 0]
  /\ stack = <<>>
  /\ exiting = FALSE
  /\ born = [o \in Objects |-> 0]

-----------------------------------------------------------------------------
(***************************************************************************)
(* Frames.  "kept" holds the objects a frame has a (mortal) reference to,  *)
(* "start" the objects that were live when an Uninitialize began.          *)
(***************************************************************************)
Operations == {"DESTROY", "Tie", "Uninitialize", "Enum"}
Places     == {"release", "callback", "released", "visit", "next", "close", "unwind"}
Frames ==
  [op : Operations, obj : Objects \cup {NULL}, at : Places,
   kept : SUBSET Objects, start : SUBSET Objects]
Frame(op, o, at, kept, start) ==
  [op |-> op, obj |-> o, at |-> at, kept |-> kept, start |-> start]

Depth == Len(stack)
Top == stack[Depth]
At(op, at) == stack # <<>> /\ Top.op = op /\ Top.at = at

Push(frame) == Depth < MaxDepth /\ stack' = Append(stack, frame)
Pop == stack' = SubSeq(stack, 1, Depth - 1)
Become(frame) == stack' = [stack EXCEPT ![Depth] = frame]
Step(at) == Become([Top EXCEPT !.at = at])

ScriptRuns == IF stack = <<>> THEN ~exiting ELSE Top.at = "callback"

\* Frames up to n that have a reference to o.
KeptBelow(o, n) == \E i \in 1 .. n : o \in stack[i].kept

-----------------------------------------------------------------------------
(***************************************************************************)
(* The chain                                                               *)
(***************************************************************************)
AddToObjectChain(o) ==
  /\ pNext' = [pNext EXCEPT ![o] = g_pObj]
  /\ pPrevious' = [p \in Objects |-> IF p = o THEN NULL
                                     ELSE IF p = g_pObj THEN o ELSE pPrevious[p]]
  /\ g_pObj' = o

\* Mutant of RemoveFromObjectChain: the new head keeps its pPrevious.
RemoveHeadOnly(o) ==
  /\ g_pObj' = IF pPrevious[o] = NULL THEN pNext[o] ELSE g_pObj
  /\ pNext' = [p \in Objects |-> IF p = pPrevious[o] THEN pNext[o] ELSE pNext[p]]
  /\ pPrevious' = [p \in Objects |-> IF p = pNext[o] /\ pPrevious[o] # NULL
                                        THEN pPrevious[o] ELSE pPrevious[p]]

\* The code leaves o's own links alone.  Here they go too: o is freed next, and a walk that
\* still reads them then (EnumNext) reads anything.
RemoveFromObjectChain(o) ==
  /\ g_pObj' = IF pPrevious[o] = NULL THEN pNext[o] ELSE g_pObj
  /\ pNext' = [p \in Objects |-> IF p = o THEN NULL
                                 ELSE IF p = pPrevious[o] THEN pNext[o] ELSE pNext[p]]
  /\ pPrevious' = [p \in Objects |-> IF p = o THEN NULL
                                     ELSE IF p = pNext[o] THEN pPrevious[o] ELSE pPrevious[p]]

\* Win32::OLE::Tie::DESTROY: off the chain and out of memory.  What a reference to it
\* finds from then on is no object (GetOleObject), so the references count no more.
Free(o) ==
  /\ RemoveFromObjectChain(o)
  /\ memory' = [memory EXCEPT ![o] = "freed"]
  /\ flags' = [flags EXCEPT ![o] = {}]
  /\ refs' = [refs EXCEPT ![o] = 0]
  /\ UNCHANGED born

-----------------------------------------------------------------------------
(***************************************************************************)
(* Creation                                                                *)
(***************************************************************************)

\* COM hands out a reference, or a callee adds one to what it was given.
CoCreateInstance(c) == held[c] < MaxHeld /\ held' = [held EXCEPT ![c] = @ + 1]

\* Mutant of AddRef: the variant's own reference is used.
Borrow(c) == UNCHANGED held
AddRef(c) == CoCreateInstance(c)

\* A unique hit hands out the object there is, and never releases the reference the
\* caller has got for it.
CreatePerlObject(c, unique, callback) ==
  /\ IF unique /\ g_hv_unique[c] # NULL
       THEN /\ refs[g_hv_unique[c]] < MaxRefs
            /\ refs' = [refs EXCEPT ![g_hv_unique[c]] = @ + 1]
            /\ UNCHANGED <<chainVars, pDispatch, g_hv_unique, destroy, flags>>
       ELSE \E o \in Objects :
              /\ memory[o] = "unused"
              /\ memory' = [memory EXCEPT ![o] = "live"]
              /\ born' = [born EXCEPT
                   ![o] = Cardinality({p \in Objects : memory[p] # "unused"}) + 1]
              /\ AddToObjectChain(o)
              /\ pDispatch' = [pDispatch EXCEPT ![o] = c]
              /\ destroy' = [destroy EXCEPT ![o] = callback]
              /\ flags' = [flags EXCEPT ![o] = IF unique THEN {"UNIQUE"} ELSE {}]
              /\ g_hv_unique' = IF unique THEN [g_hv_unique EXCEPT ![c] = o]
                                          ELSE g_hv_unique
              /\ refs' = [refs EXCEPT ![o] = 1]

\* Initialized or not, the flag is set: a failure is only reported.
Initialize == g_bInitialized' = TRUE

\* Win32::OLE->new( PROGID [, DESTRUCTOR] )
New(c, unique, callback) ==
  /\ ScriptRuns
  /\ Initialize
  /\ CoCreateInstance(c)
  /\ CreatePerlObject(c, unique, callback)
  /\ UNCHANGED <<stack, exiting>>

\* The script has o, or has got it as a callback's argument.
Reachable(o) == refs[o] > 0 \/ (stack # <<>> /\ Top.obj = o)

\* A property or a method that returns an object needs one that is not a zombie.
GetProperty(c, unique) ==
  /\ ScriptRuns
  /\ \E o \in Live : Reachable(o) /\ pDispatch[o] # NULL
  /\ AddRef(c)
  /\ CreatePerlObject(c, unique, FALSE)
  /\ UNCHANGED <<g_bInitialized, stack, exiting>>

\* Win32::OLE->Option( _Unique => ... ) forgets which objects there are.
_Unique ==
  /\ ScriptRuns
  /\ g_hv_unique' = [c \in Coms |-> NULL]
  /\ UNCHANGED <<chainVars, pDispatch, held, g_bInitialized, destroy, flags, refs, stack,
                 exiting>>

-----------------------------------------------------------------------------
(***************************************************************************)
(* References.  Perl calls DESTROY when the last one goes.                 *)
(***************************************************************************)
Destroying(o) == Frame("DESTROY", o, "release", {o}, {})

\* A callback puts its argument away.  (A copy of a reference the script has already
\* changes nothing before both are dropped.)
Keep(o) ==
  /\ stack # <<>> /\ Top.at = "callback" /\ Top.obj = o
  /\ refs[o] < MaxRefs
  /\ refs' = [refs EXCEPT ![o] = @ + 1]
  /\ UNCHANGED <<chainVars, comVars, g_bInitialized, destroy, flags, stack, exiting>>

Drop(o) ==
  /\ ScriptRuns \/ (stack = <<>> /\ exiting)
  /\ refs[o] > 0
  /\ refs' = [refs EXCEPT ![o] = @ - 1]
  /\ IF refs[o] = 1 /\ ~KeptBelow(o, Depth)
       THEN Push(Destroying(o))
       ELSE UNCHANGED stack
  /\ UNCHANGED <<chainVars, comVars, g_bInitialized, destroy, flags, exiting>>

-----------------------------------------------------------------------------
(***************************************************************************)
(* ReleasePerlObject, for the frame on top                                 *)
(***************************************************************************)
\* Mutant of ReleaseInterfaces: the object keeps its interface.
ReleaseAgain(o) ==
  LET c == pDispatch[o] IN
    /\ held' = [d \in Coms |-> IF d = c THEN held[d] - 1 ELSE held[d]]
    /\ g_hv_unique' = [d \in Coms |-> IF d = c THEN NULL ELSE g_hv_unique[d]]
    /\ UNCHANGED pDispatch

\* Mutant of ReleaseInterfaces: g_hv_unique is not told.
ReleaseUntold(o) ==
  LET c == pDispatch[o] IN
    /\ pDispatch' = [pDispatch EXCEPT ![o] = NULL]
    /\ held' = [d \in Coms |-> IF d = c THEN held[d] - 1 ELSE held[d]]
    /\ UNCHANGED g_hv_unique

ReleaseInterfaces(o) ==
  LET c == pDispatch[o] IN
    /\ pDispatch' = [pDispatch EXCEPT ![o] = NULL]
    /\ held' = [d \in Coms |-> IF d = c THEN held[d] - 1 ELSE held[d]]
    /\ g_hv_unique' = [d \in Coms |-> IF d = c /\ "UNIQUE" \in flags[o]
                                        THEN NULL ELSE g_hv_unique[d]]

\* The callback's argument is a mortal reference, the caller's to free.
CallDestroy ==
  /\ destroy[Top.obj]
  /\ Become([Top EXCEPT !.at = "callback", !.kept = @ \cup {Top.obj}])
  /\ UNCHANGED <<comVars, destroy>>

ReleaseNow ==
  /\ ~destroy[Top.obj]
  /\ ReleaseInterfaces(Top.obj)
  /\ Step("released")
  /\ UNCHANGED destroy

ReleasePerlObject ==
  /\ stack # <<>> /\ Top.at = "release"
  /\ CallDestroy \/ ReleaseNow
  /\ UNCHANGED <<chainVars, g_bInitialized, flags, refs, exiting>>

\* Mutant of CallbackReturns: nothing else is done after the callback.
ReturnAtOnce ==
  /\ stack # <<>> /\ Top.op # "Enum" /\ Top.at = "callback"
  /\ destroy' = [destroy EXCEPT ![Top.obj] = FALSE]
  /\ Step("released")
  /\ UNCHANGED <<chainVars, comVars, g_bInitialized, flags, refs, exiting>>

\* pObj->destroy is cleared when its callback is back.
CallbackReturns ==
  /\ stack # <<>> /\ Top.op # "Enum" /\ Top.at = "callback"
  /\ destroy' = [destroy EXCEPT ![Top.obj] = FALSE]
  /\ ReleaseInterfaces(Top.obj)
  /\ Step("released")
  /\ UNCHANGED <<chainVars, g_bInitialized, flags, refs, exiting>>

-----------------------------------------------------------------------------
(***************************************************************************)
(* Destruction                                                             *)
(***************************************************************************)

\* Win32::OLE::DESTROY has returned: with no reference left the object goes, unless
\* the callback has put one away.
Destroyed ==
  LET o == Top.obj IN
    /\ At("DESTROY", "released")
    /\ Pop
    /\ IF refs[o] > 0 \/ KeptBelow(o, Depth - 1)
         THEN /\ flags' = [flags EXCEPT ![o] = @ \cup {"DESTROYED"}]
              /\ UNCHANGED <<chainVars, refs>>
         ELSE Free(o)
    /\ UNCHANGED <<comVars, g_bInitialized, destroy, exiting>>

\* At the end Perl destroys what is left, in its own order: the tie before the object.
GlobalCleanup(o) ==
  /\ exiting /\ stack = <<>>
  /\ o \in Live /\ refs[o] > 0
  /\ Push(Frame("Tie", o,
                IF "DESTROYED" \in flags[o] \/ pDispatch[o] = NULL
                  THEN "released" ELSE "release", {}, {}))
  /\ UNCHANGED <<chainVars, comVars, g_bInitialized, destroy, flags, refs, exiting>>

TieDestroyed ==
  /\ At("Tie", "released")
  /\ Free(Top.obj)
  /\ Pop
  /\ UNCHANGED <<comVars, g_bInitialized, destroy, exiting>>

\* The frame on top, become f, drops its reference to o.
LetGo(f, o) ==
  LET gone == refs[o] = 0 /\ o \in Live /\ ~KeptBelow(o, Depth - 1)
  IN  /\ gone => Depth < MaxDepth
      /\ LET back == [stack EXCEPT ![Depth] = f]
         IN  stack' = IF gone THEN Append(back, Destroying(o)) ELSE back

-----------------------------------------------------------------------------
(***************************************************************************)
(* Win32::OLE->Uninitialize, called by the script or the END block         *)
(***************************************************************************)
AtHeader(o) == IF o = NULL THEN "close" ELSE "release"

EnterUninitialize ==
  IF g_bInitialized
    THEN Push(Frame("Uninitialize", g_pObj, AtHeader(g_pObj), {}, Live))
    ELSE UNCHANGED stack

Uninitialize ==
  /\ ScriptRuns
  /\ EnterUninitialize
  /\ UNCHANGED <<chainVars, comVars, g_bInitialized, destroy, flags, refs, exiting>>

UninitializeNext ==
  /\ At("Uninitialize", "released")
  /\ LET o == pNext[Top.obj] IN Become([Top EXCEPT !.obj = o, !.at = AtHeader(o)])
  /\ UNCHANGED <<chainVars, comVars, g_bInitialized, destroy, flags, refs, exiting>>

UninitializeClose ==
  /\ At("Uninitialize", "close")
  /\ g_bInitialized' = FALSE
  /\ Step("unwind")
  /\ UNCHANGED <<chainVars, comVars, destroy, flags, refs, exiting>>

\* Back in the script the mortal references go.
UninitializeUnwind ==
  /\ At("Uninitialize", "unwind")
  /\ IF Top.kept = {} THEN Pop
     ELSE \E o \in Top.kept : LetGo([Top EXCEPT !.kept = @ \ {o}], o)
  /\ UNCHANGED <<chainVars, comVars, g_bInitialized, destroy, flags, refs, exiting>>

\* END { Win32::OLE->Uninitialize }
Exit ==
  /\ stack = <<>> /\ ~exiting
  /\ exiting' = TRUE
  /\ EnterUninitialize
  /\ UNCHANGED <<chainVars, comVars, g_bInitialized, destroy, flags, refs>>

-----------------------------------------------------------------------------
(***************************************************************************)
(* Win32::OLE->EnumAllObjects( CALLBACK )                                  *)
(***************************************************************************)
EnumAllObjects ==
  /\ ScriptRuns
  /\ Push(Frame("Enum", g_pObj, "visit", {}, {}))
  /\ UNCHANGED <<chainVars, comVars, g_bInitialized, destroy, flags, refs, exiting>>

\* What is not live has no magic number any more.
EnumVisit ==
  /\ At("Enum", "visit")
  /\ IF Top.obj = NULL THEN Pop
     ELSE IF Top.obj \in Live
       THEN Become([Top EXCEPT !.at = "callback", !.kept = {Top.obj}])
       ELSE Step("next")
  /\ UNCHANGED <<chainVars, comVars, g_bInitialized, destroy, flags, refs, exiting>>

EnumCallbackReturns ==
  /\ At("Enum", "callback")
  /\ LetGo([Top EXCEPT !.at = "next", !.kept = {}], Top.obj)
  /\ UNCHANGED <<chainVars, comVars, g_bInitialized, destroy, flags, refs, exiting>>

\* pHeader->pNext is read after the reference is gone: anything, if that was the last.
EnumNext ==
  /\ At("Enum", "next")
  /\ \E o \in IF Top.obj \in Live THEN {pNext[Top.obj]} ELSE Objects \cup {NULL} :
       Become([Top EXCEPT !.obj = o, !.at = "visit"])
  /\ UNCHANGED <<chainVars, comVars, g_bInitialized, destroy, flags, refs, exiting>>

-----------------------------------------------------------------------------
Next ==
  \/ \E c \in Coms, u \in BOOLEAN : GetProperty(c, u) \/ \E d \in BOOLEAN : New(c, u, d)
  \/ _Unique
  \/ \E o \in Objects : Keep(o) \/ Drop(o) \/ GlobalCleanup(o)
  \/ ReleasePerlObject \/ CallbackReturns
  \/ Destroyed \/ TieDestroyed
  \/ Uninitialize \/ UninitializeNext \/ UninitializeClose \/ UninitializeUnwind \/ Exit
  \/ EnumAllObjects \/ EnumVisit \/ EnumCallbackReturns \/ EnumNext

Spec == Init /\ [][Next]_vars

-----------------------------------------------------------------------------
(***************************************************************************)
(* Properties                                                              *)
(***************************************************************************)

\* Every variable has its type.
TypeOK ==
  /\ memory \in [Objects -> {"unused", "live", "freed"}]
  /\ pNext \in [Objects -> Objects \cup {NULL}]
  /\ pPrevious \in [Objects -> Objects \cup {NULL}]
  /\ g_pObj \in Objects \cup {NULL}
  /\ pDispatch \in [Objects -> Coms \cup {NULL}]
  /\ destroy \in [Objects -> BOOLEAN]
  /\ flags \in [Objects -> SUBSET {"UNIQUE", "DESTROYED"}]
  /\ refs \in [Objects -> 0 .. MaxRefs]
  /\ g_hv_unique \in [Coms -> Objects \cup {NULL}]
  /\ g_bInitialized \in BOOLEAN
  /\ held \in [Coms -> 0 .. MaxHeld]
  /\ stack \in Seq(Frames) /\ Depth <= MaxDepth
  /\ exiting \in BOOLEAN
  /\ born \in [Objects -> Nat]

\* The live object created last before o.
Older(o) == LET older == {p \in Live : born[p] < born[o]} IN
              IF older = {} THEN NULL
              ELSE CHOOSE p \in older : \A q \in older : born[q] <= born[p]

\* Whatever callbacks create and free in the middle of a walk or of a release, the
\* chain is the live objects, the youngest first, linked both ways (AddToObjectChain,
\* RemoveFromObjectChain).
ChainOrdered ==
  /\ g_pObj = NULL <=> Live = {}
  /\ g_pObj # NULL => g_pObj \in Live /\ \A o \in Live : born[o] <= born[g_pObj]
  /\ \A o \in Live : /\ pNext[o] = Older(o)
                     /\ Older(o) # NULL => pPrevious[Older(o)] = o
  /\ g_pObj # NULL => pPrevious[g_pObj] = NULL

\* The addresses in g_hv_unique are no references: each is of an object that Perl still
\* refers to, which stands for that COM object (CreatePerlObject hands it out as it is).
UniqueLive ==
  \A c \in Coms : LET o == g_hv_unique[c] IN
    o # NULL => /\ o \in Live /\ pDispatch[o] = c /\ "UNIQUE" \in flags[o]
                /\ refs[o] > 0 \/ KeptBelow(o, Depth)

\* No COM reference is released that another object still counts on, though an object
\* can be released by DESTROY, by a walk, and by a walk within its own callback.
HeldCovers ==
  \A c \in Coms : held[c] >= Cardinality({o \in Live : pDispatch[o] = c})

\* Uninitialize misses none of the objects there were when it was called: those it has
\* passed have no interface any more, whatever the callbacks did to the chain meanwhile.
WalkReleases ==
  \A i \in DOMAIN stack :
    LET f == stack[i] IN
      f.op = "Uninitialize" =>
        \A o \in f.start \cap Live :
          pDispatch[o] = NULL \/ (f.obj # NULL /\ born[o] <= born[f.obj])

=============================================================================
