---------------------------- MODULE Daemon_proofs ----------------------------
(***************************************************************************)
(* Theorems about Daemon, for any set of controls, timers, callbacks and   *)
(* script calls and any number of each.                                    *)
(***************************************************************************)
EXTENDS Daemon, TLAPS

\* Abbreviations: sets of labels and names, and tuples of variables.
USE DEF Threads, Errors, Events, ScmControls, UpdateLabels, HandlerLabels, SetupLabels,
        TimeoutLabels, DispatcherLabels, MainLabels, PerlLabels, Labels, States, Pending,
        Settled,
        statusVars, errorVars, timerVars, queueVars, commandVars, setupVars, threadVars,
        serviceVars, heartbeatVars, perlVars

-----------------------------------------------------------------------------
(***************************************************************************)
(* The type invariant.  It is not inductive alone: a return label must be a*)
(* label of the thread, a control that is posted must be a control, and the*)
(* error that is reported must have been chosen.                           *)
(***************************************************************************)
ReturnsHome ==
  /\ pc["dispatcher"] \in UpdateLabels => ret["dispatcher"] \in {"h_notify", "done"}
  /\ pc["main"] \in UpdateLabels =>
       ret["main"] \in {"h_notify", "m_exit", "t_dispatch", "loop"}
  /\ pc["main"] \in TimeoutLabels => ret["main"] \in {"t_dispatch", "loop"}
  /\ pc["perl"] \in UpdateLabels =>
       ret["perl"] \in {"script", "callback", "cb_done", "stop_grace", "stop_mode"}

HandlesEvent ==
  \A t \in {"dispatcher", "main"} :
    pc[t] \in HandlerLabels \/ (pc[t] \in UpdateLabels /\ ret[t] = "h_notify")
      => ctl[t] \in Events

ErrorChosen == \A t \in Threads : pc[t] = "upd_report" => err[t] \in Errors

ServiceType ==
  /\ StatusType /\ ErrorType /\ TimerType /\ QueueType /\ CommandType /\ SetupType
  /\ sent \in 0 .. MaxControls
ScriptType == PerlType /\ gfCallbackMode \in BOOLEAN

TypeInv ==
  ThreadType /\ ReturnsHome /\ HandlesEvent /\ ErrorChosen /\ ServiceType /\ ScriptType

\* The type invariant across the handler posting SET_TIMER.
LEMMA SetTimeoutTimerType ==
  ASSUME TypeInv, NEW t \in {"dispatcher", "main"}, SetTimeoutTimer(t), UNCHANGED perlVars
  PROVE  TypeInv'
<1>1. ThreadType'
  BY DEF TypeInv, ThreadType, SetTimeoutTimer, CallUpdate, KillCall, KillClear,
      Goto
<1>2. ReturnsHome'
  BY DEF TypeInv, ThreadType, ReturnsHome, SetTimeoutTimer, CallUpdate, KillCall,
      KillClear, Goto
<1>3. HandlesEvent' /\ ErrorChosen'
  BY DEF TypeInv, ThreadType, HandlesEvent, ErrorChosen, SetTimeoutTimer,
      CallUpdate, KillCall, KillClear, Goto
<1>4. ServiceType'
  <2>1. mainQueue' = mainQueue \/ mainQueue' = Append(mainQueue, "SET_TIMER")
    BY DEF SetTimeoutTimer, KillCall, KillClear, PostToMain
  <2>2. perlQueue' = perlQueue BY DEF SetTimeoutTimer, KillCall, KillClear
  <2>3. StatusType' /\ ErrorType' /\ TimerType' /\ CommandType' /\ SetupType' 
        /\ sent' \in 0 .. MaxControls
    BY DEF TypeInv, ServiceType, StatusType, ErrorType, TimerType, CommandType,
        SetupType, SetTimeoutTimer, PostToMain, KillCall, KillClear, MainReachable
  <2> QED BY <2>1, <2>2, <2>3 DEF TypeInv, ServiceType, QueueType
<1>5. ScriptType'
  BY DEF TypeInv, ScriptType, PerlType, SetTimeoutTimer, PostToMain, KillCall,
      KillClear, MainReachable
<1> QED BY <1>1, <1>2, <1>3, <1>4, <1>5 DEF TypeInv

\* The type invariant across ServiceMain posting SET_TIMER.
LEMMA MainSetTimerType == ASSUME TypeInv, MainSetTimer, UNCHANGED perlVars PROVE TypeInv'
<1>1. ThreadType'
  BY DEF TypeInv, ThreadType, MainSetTimer, Goto, KillCall, KillClear
<1>2. ReturnsHome'
  BY DEF TypeInv, ThreadType, ReturnsHome, MainSetTimer, Goto, KillCall, KillClear
<1>3. HandlesEvent' /\ ErrorChosen'
  BY DEF TypeInv, ThreadType, HandlesEvent, ErrorChosen, MainSetTimer, Goto,
      KillCall, KillClear
<1>4. ServiceType'
  <2>1. QueueType'
    BY DEF TypeInv, ServiceType, QueueType, MainSetTimer, KillCall, KillClear
  <2>2. StatusType' /\ ErrorType' /\ TimerType' /\ CommandType' /\ SetupType' 
        /\ sent' \in 0 .. MaxControls
    BY DEF TypeInv, ServiceType, StatusType, ErrorType, TimerType, CommandType,
        SetupType, MainSetTimer, KillCall, KillClear
  <2> QED BY <2>1, <2>2 DEF ServiceType
<1>5. ScriptType'
  BY DEF TypeInv, ScriptType, PerlType, MainSetTimer, KillCall, KillClear
<1> QED BY <1>1, <1>2, <1>3, <1>4, <1>5 DEF TypeInv

\* The type invariant across registering the handler, or failing to.
LEMMA MainRegisterType == ASSUME TypeInv, MainRegister, UNCHANGED perlVars PROVE TypeInv'
<1>1. ThreadType'
  BY DEF TypeInv, ThreadType, MainRegister, Goto
<1>2. ReturnsHome'
  BY DEF TypeInv, ThreadType, ReturnsHome, MainRegister, Goto
<1>3. HandlesEvent' /\ ErrorChosen'
  BY DEF TypeInv, ThreadType, HandlesEvent, ErrorChosen, MainRegister, Goto
<1>4. ServiceType'
  <2>1. StatusType'
    BY DEF TypeInv, ServiceType, StatusType, MainRegister
  <2>2. SetupType'
    <3>1. ghService' \in BOOLEAN
      BY DEF TypeInv, ServiceType, SetupType, MainRegister
    <3> QED BY <3>1 DEF TypeInv, ServiceType, SetupType, MainRegister
  <2>3. ErrorType' /\ TimerType' /\ QueueType' /\ CommandType' /\ sent' \in 0 .. MaxControls
    BY DEF TypeInv, ServiceType, ErrorType, TimerType, QueueType, CommandType,
        MainRegister
  <2> QED BY <2>1, <2>2, <2>3 DEF ServiceType
<1>5. ScriptType'
  BY DEF TypeInv, ScriptType, PerlType, MainRegister
<1> QED BY <1>1, <1>2, <1>3, <1>4, <1>5 DEF TypeInv

\* The type invariant across creating the service thread.
LEMMA StartServiceType == ASSUME TypeInv, StartService PROVE TypeInv'
<1>1. ThreadType'
  BY DEF TypeInv, ThreadType, StartService
<1>2. ReturnsHome'
  BY DEF TypeInv, ThreadType, ReturnsHome, StartService
<1>3. HandlesEvent' /\ ErrorChosen'
  BY DEF TypeInv, ThreadType, HandlesEvent, ErrorChosen, StartService
<1>4. ServiceType'
  BY DEF TypeInv, ServiceType, StatusType, ErrorType, TimerType, QueueType,
      CommandType, SetupType, ThreadType, HandlesEvent, StartService
<1>5. ScriptType'
  BY DEF TypeInv, ScriptType, PerlType, StartService
<1> QED BY <1>1, <1>2, <1>3, <1>4, <1>5 DEF TypeInv

\* The type invariant across taking a control from the queue.
LEMMA LoopMessageType == ASSUME TypeInv, LoopMessage PROVE TypeInv'
<1>1. ThreadType'
  BY DEF TypeInv, ThreadType, QueueType, ServiceType, LoopMessage, Dispatch, Goto
<1>2. ReturnsHome'
  BY DEF TypeInv, ThreadType, ReturnsHome, LoopMessage, Dispatch, Goto
<1>3. HandlesEvent' /\ ErrorChosen'
  BY DEF TypeInv, ThreadType, HandlesEvent, ErrorChosen, LoopMessage, Dispatch,
      Goto
<1>4. ServiceType'
  BY DEF TypeInv, ServiceType, StatusType, ErrorType, TimerType, QueueType,
      CommandType, SetupType, ThreadType, HandlesEvent, LoopMessage, Dispatch
<1>5. ScriptType'
  BY DEF TypeInv, ScriptType, PerlType, LoopMessage, Dispatch
<1> QED BY <1>1, <1>2, <1>3, <1>4, <1>5 DEF TypeInv

\* The type invariant across taking a heartbeat.
LEMMA LoopTimerType == ASSUME TypeInv, LoopTimer PROVE TypeInv'
<1>1. ThreadType'
  BY DEF TypeInv, ThreadType, QueueType, ServiceType, LoopTimer, Dispatch, Goto
<1>2. ReturnsHome'
  BY DEF TypeInv, ThreadType, ReturnsHome, LoopTimer, Dispatch, Goto
<1>3. HandlesEvent' /\ ErrorChosen'
  BY DEF TypeInv, ThreadType, HandlesEvent, ErrorChosen, LoopTimer, Dispatch, Goto
<1>4. ServiceType'
  BY DEF TypeInv, ServiceType, StatusType, ErrorType, TimerType, QueueType,
      CommandType, SetupType, ThreadType, HandlesEvent, LoopTimer, Dispatch
<1>5. ScriptType'
  BY DEF TypeInv, ScriptType, PerlType, LoopTimer, Dispatch
<1> QED BY <1>1, <1>2, <1>3, <1>4, <1>5 DEF TypeInv

\* The type invariant across the end of a callback.
LEMMA CallbackDoneType == ASSUME TypeInv, CallbackDone PROVE TypeInv'
<1>1. ThreadType'
  BY DEF TypeInv, ThreadType, CallbackDone, Goto
<1>2. ReturnsHome'
  BY DEF TypeInv, ThreadType, ReturnsHome, CallbackDone, Goto
<1>3. HandlesEvent' /\ ErrorChosen'
  BY DEF TypeInv, ThreadType, HandlesEvent, ErrorChosen, CallbackDone, Goto
<1>4. ServiceType'
  BY DEF TypeInv, ServiceType, StatusType, ErrorType, TimerType, QueueType,
      CommandType, SetupType, ThreadType, HandlesEvent, CallbackDone
<1>5. ScriptType'
  BY DEF TypeInv, ScriptType, PerlType, CallbackDone
<1> QED BY <1>1, <1>2, <1>3, <1>4, <1>5 DEF TypeInv

\* The type invariant across the end of the message loop.
LEMMA LoopExitType == ASSUME TypeInv, LoopExit PROVE TypeInv'
<1>1. ThreadType'
  BY DEF TypeInv, ThreadType, LoopExit, Goto
<1>2. ReturnsHome'
  BY DEF TypeInv, ThreadType, ReturnsHome, LoopExit, Goto
<1>3. HandlesEvent' /\ ErrorChosen'
  BY DEF TypeInv, ThreadType, HandlesEvent, ErrorChosen, LoopExit, Goto
<1>4. ServiceType'
  BY DEF TypeInv, ServiceType, StatusType, ErrorType, TimerType, QueueType,
      CommandType, SetupType, ThreadType, HandlesEvent, LoopExit
<1>5. ScriptType'
  BY DEF TypeInv, ScriptType, PerlType, LoopExit
<1> QED BY <1>1, <1>2, <1>3, <1>4, <1>5 DEF TypeInv

\* The type invariant across a call of State.
LEMMA StateType == ASSUME TypeInv, State PROVE TypeInv'
<1>1. ThreadType'
  BY ScriptAssumption DEF TypeInv, ThreadType, StatusType, ServiceType, State,
      CallUpdate, Calling, Home, Goto
<1>2. ReturnsHome'
  BY DEF TypeInv, ThreadType, ReturnsHome, State, CallUpdate, Calling, Home, Goto
<1>3. HandlesEvent' /\ ErrorChosen'
  BY DEF TypeInv, ThreadType, HandlesEvent, ErrorChosen, State, CallUpdate,
      Calling, Home, Goto
<1>4. ServiceType'
  BY DEF TypeInv, ServiceType, StatusType, ErrorType, TimerType, QueueType,
      CommandType, SetupType, ThreadType, HandlesEvent, State, Calling, Home
<1>5. ScriptType'
  BY ScriptAssumption DEF TypeInv, ScriptType, PerlType, State, Calling, Home
<1> QED BY <1>1, <1>2, <1>3, <1>4, <1>5 DEF TypeInv

\* The type invariant across a call of SetServiceBits.
LEMMA SetServiceBitsType == ASSUME TypeInv, SetServiceBits PROVE TypeInv'
<1>1. ThreadType'
  BY DEF TypeInv, ThreadType, SetServiceBits, Goto, Calling, Home
<1>2. ReturnsHome'
  BY DEF TypeInv, ThreadType, ReturnsHome, SetServiceBits, Goto, Calling, Home
<1>3. HandlesEvent' /\ ErrorChosen'
  BY DEF TypeInv, ThreadType, HandlesEvent, ErrorChosen, SetServiceBits, Goto,
      Calling, Home
<1>4. ServiceType'
  <2>1. SetupType'
    BY DEF TypeInv, ServiceType, SetupType, SetServiceBits, Calling, Home
  <2>2. StatusType' /\ ErrorType' /\ TimerType' /\ QueueType' /\ CommandType' 
        /\ sent' \in 0 .. MaxControls
    BY DEF TypeInv, ServiceType, StatusType, ErrorType, TimerType, QueueType,
        CommandType, SetServiceBits, Calling, Home
  <2> QED BY <2>1, <2>2 DEF ServiceType
<1>5. ScriptType'
  BY ScriptAssumption DEF TypeInv, ScriptType, PerlType, SetServiceBits, Calling,
      Home
<1> QED BY <1>1, <1>2, <1>3, <1>4, <1>5 DEF TypeInv

\* The type invariant across StopService posting WM_QUIT.
LEMMA StopPostType == ASSUME TypeInv, StopPost PROVE TypeInv'
<1>1. ThreadType'
  BY DEF TypeInv, ThreadType, StopPost, Goto
<1>2. ReturnsHome'
  BY DEF TypeInv, ThreadType, ReturnsHome, StopPost, Goto
<1>3. HandlesEvent' /\ ErrorChosen'
  BY DEF TypeInv, ThreadType, HandlesEvent, ErrorChosen, StopPost, Goto
<1>4. ServiceType'
  <2>1. QueueType'
    <3>1. mainQueue' = mainQueue \/ mainQueue' = Append(mainQueue, "QUIT")
      BY DEF StopPost, PostToMain
    <3>2. perlQueue' = perlQueue BY DEF StopPost
    <3> QED BY <3>1, <3>2 DEF TypeInv, ServiceType, QueueType
  <2>2. StatusType' /\ ErrorType' /\ TimerType' /\ CommandType' /\ SetupType' 
        /\ sent' \in 0 .. MaxControls
    BY DEF TypeInv, ServiceType, StatusType, ErrorType, TimerType, CommandType,
        SetupType, StopPost, PostToMain, MainReachable
  <2> QED BY <2>1, <2>2 DEF ServiceType
<1>5. ScriptType'
  BY ScriptAssumption DEF TypeInv, ScriptType, PerlType, StopPost, PostToMain,
      MainReachable
<1> QED BY <1>1, <1>2, <1>3, <1>4, <1>5 DEF TypeInv

\* The type invariant across StopService leaving callback mode.
LEMMA StopModeType == ASSUME TypeInv, StopMode PROVE TypeInv'
<1>1. ThreadType'
  BY DEF TypeInv, ThreadType, StopMode, Goto, Home
<1>2. ReturnsHome'
  BY DEF TypeInv, ThreadType, ReturnsHome, StopMode, Goto, Home
<1>3. HandlesEvent' /\ ErrorChosen'
  BY DEF TypeInv, ThreadType, HandlesEvent, ErrorChosen, StopMode, Goto, Home
<1>4. ServiceType'
  BY DEF TypeInv, ServiceType, StatusType, ErrorType, TimerType, QueueType,
      CommandType, SetupType, ThreadType, HandlesEvent, StopMode, Home
<1>5. ScriptType'
  BY DEF TypeInv, ScriptType, PerlType, StopMode, Home
<1> QED BY <1>1, <1>2, <1>3, <1>4, <1>5 DEF TypeInv

\* The remaining steps are direct.
USE DEF TypeInv, ThreadType, ReturnsHome, HandlesEvent, ErrorChosen, ServiceType, StatusType,
        ErrorType, TimerType, QueueType, CommandType, SetupType, ScriptType, PerlType

\* A step of UpdateServiceStatus, in any of the three threads.
LEMMA UpdateServiceStatusType ==
  ASSUME TypeInv, NEW t \in Threads, UpdateServiceStatus(t), UNCHANGED perlVars
  PROVE  TypeInv'
<1>1. CASE UpdateState(t) BY <1>1 DEF UpdateState, Goto, StoreState
<1>2. CASE UpdateKill(t) BY <1>2 DEF UpdateKill, KillCall, KillClear, Goto
<1>3. CASE UpdateError(t) BY <1>3 DEF UpdateError, Goto
<1>4. CASE UpdateReport(t) BY <1>4 DEF UpdateReport, Goto
<1> QED BY <1>1, <1>2, <1>3, <1>4 DEF UpdateServiceStatus

\* A step of ServiceHandler, in the dispatcher or (for START) in ServiceMain.
LEMMA ServiceHandlerType ==
  ASSUME TypeInv, NEW t \in {"dispatcher", "main"}, ServiceHandler(t), UNCHANGED perlVars
  PROVE  TypeInv'
<1>1. CASE HandlerSwitch(t) BY <1>1 DEF HandlerSwitch, Goto, TimedControls
<1>2. CASE HandlerLast(t) BY <1>2 DEF HandlerLast, Goto, CallUpdate, TimedControls
<1>3. CASE HandlerNotify(t) BY <1>3 DEF HandlerNotify, Goto
<1> QED BY <1>1, <1>2, <1>3, SetTimeoutTimerType DEF ServiceHandler

\* A step of the dispatcher thread, or a control the SCM sends it.
LEMMA DispatcherType ==
  ASSUME TypeInv, DispatcherStep \/ \E c \in Controls : DispatcherControl(c), UNCHANGED perlVars
  PROVE  TypeInv'
<1>1. CASE DispatcherConnect BY <1>1 DEF DispatcherConnect, CallUpdate, Goto
<1>2. CASE DispatcherReturn BY <1>2 DEF DispatcherReturn, CallUpdate, Goto
<1>3. CASE \E c \in Controls : DispatcherControl(c)
  BY <1>3, ControlsAssumption, BoundAssumption DEF DispatcherControl, EnterHandler, Goto
<1> QED BY <1>1, <1>2, <1>3, UpdateServiceStatusType, ServiceHandlerType DEF
    DispatcherStep

\* A step of ServiceMain.
LEMMA MainType ==
  ASSUME TypeInv, MainStep, UNCHANGED perlVars
  PROVE  TypeInv'
<1>1. CASE MainEntry BY <1>1 DEF MainEntry, Goto
<1>2. CASE MainFirst BY <1>2 DEF MainFirst, Goto
<1>3. CASE MainPending BY <1>3 DEF MainPending, Goto
<1>4. CASE MainMode BY <1>4 DEF MainMode, Goto, EnterHandler
<1>5. CASE MainBits BY <1>5 DEF MainBits, Goto
<1>6. CASE MainArm BY <1>6 DEF MainArm
<1>7. CASE MainQuit BY <1>7 DEF MainQuit, CallUpdate, Goto
<1>8. CASE MainTimer BY <1>8 DEF MainTimer, Goto
<1>9. CASE TimeoutKill BY <1>9 DEF TimeoutKill, KillCall, KillClear, Goto
<1>10. CASE TimeoutForce BY <1>10 DEF TimeoutForce, Goto, StoreState
<1>11. CASE TimeoutCall BY <1>11 DEF TimeoutCall, CallUpdate, Goto
<1>12. CASE TimeoutDispatch BY <1>12 DEF TimeoutDispatch, Goto
<1>13. CASE MainExit BY <1>13 DEF MainExit, Goto
<1> QED BY <1>1, <1>2, <1>3, <1>4, <1>5, <1>6, <1>7, <1>8, <1>9, <1>10, <1>11, <1>12,
    <1>13, MainSetTimerType, MainRegisterType, UpdateServiceStatusType, ServiceHandlerType
    DEF MainStep

\* Setting the callback timer leaves two booleans.
LEMMA SetCallbackTimerType ==
  ASSUME timerValue \in BOOLEAN, NEW argument \in TimerArguments, SetCallbackTimer(argument)
  PROVE  timerValue' \in BOOLEAN /\ heartbeat' \in BOOLEAN
<1>1. CASE argument = "negative" BY <1>1 DEF SetCallbackTimer
<1>2. CASE argument # "negative"
  <2>1. (argument = "positive") \in BOOLEAN OBVIOUS
  <2> QED BY <1>2, <2>1 DEF SetCallbackTimer
<1> QED BY <1>1, <1>2

\* The type invariant across entering callback mode.
LEMMA EnterCallbackModeType == ASSUME TypeInv, EnterCallbackMode PROVE TypeInv'
<1>1. ThreadType'
  BY DEF TypeInv, ThreadType, EnterCallbackMode, Goto, Calling, Home
<1>2. ReturnsHome'
  BY DEF TypeInv, ThreadType, ReturnsHome, EnterCallbackMode, Goto, Calling, Home
<1>3. HandlesEvent' /\ ErrorChosen'
  BY DEF TypeInv, ThreadType, HandlesEvent, ErrorChosen, EnterCallbackMode, Goto, Calling, Home
<1>4. ServiceType'
  BY DEF TypeInv, ServiceType, StatusType, ErrorType, TimerType, QueueType, CommandType,
      SetupType, EnterCallbackMode, Calling, Home
<1>5. ScriptType'
  <2>1. PICK argument \in TimerArguments : SetCallbackTimer(argument) BY DEF EnterCallbackMode
  <2>2. timerValue \in BOOLEAN BY DEF TypeInv, ScriptType, PerlType
  <2>3. timerValue' \in BOOLEAN /\ heartbeat' \in BOOLEAN
    BY <2>1, <2>2, SetCallbackTimerType
  <2>4. gfCallbackMode' \in BOOLEAN /\ inLoop' \in BOOLEAN
    BY DEF TypeInv, ScriptType, PerlType, EnterCallbackMode, Calling
  <2> QED
    BY <2>3, <2>4, ScriptAssumption
    DEF TypeInv, ScriptType, PerlType, EnterCallbackMode, Calling
<1> QED BY <1>1, <1>2, <1>3, <1>4, <1>5 DEF TypeInv

\* The type invariant across a call of CallbackTimer.
LEMMA CallbackTimerType == ASSUME TypeInv, CallbackTimer PROVE TypeInv'
<1>1. ThreadType'
  BY DEF TypeInv, ThreadType, CallbackTimer, Goto, Calling, Home
<1>2. ReturnsHome'
  BY DEF TypeInv, ThreadType, ReturnsHome, CallbackTimer, Goto, Calling, Home
<1>3. HandlesEvent' /\ ErrorChosen'
  BY DEF TypeInv, ThreadType, HandlesEvent, ErrorChosen, CallbackTimer, Goto, Calling, Home
<1>4. ServiceType'
  BY DEF TypeInv, ServiceType, StatusType, ErrorType, TimerType, QueueType, CommandType,
      SetupType, CallbackTimer, Calling, Home
<1>5. ScriptType'
  <2>1. PICK argument \in TimerArguments : SetCallbackTimer(argument) BY DEF CallbackTimer
  <2>2. timerValue \in BOOLEAN BY DEF TypeInv, ScriptType, PerlType
  <2>3. timerValue' \in BOOLEAN /\ heartbeat' \in BOOLEAN
    BY <2>1, <2>2, SetCallbackTimerType
  <2>4. gfCallbackMode' \in BOOLEAN /\ inLoop' \in BOOLEAN
    BY DEF TypeInv, ScriptType, PerlType, CallbackTimer, Calling
  <2> QED
    BY <2>3, <2>4, ScriptAssumption
    DEF TypeInv, ScriptType, PerlType, CallbackTimer, Calling
<1> QED BY <1>1, <1>2, <1>3, <1>4, <1>5 DEF TypeInv

\* A step of StartService's message loop.
LEMMA PerlLoopType ==
  ASSUME TypeInv, PerlLoop
  PROVE  TypeInv'
<1>1. CASE CallbackReturn BY <1>1 DEF CallbackReturn, Goto
<1> QED BY <1>1, EnterCallbackModeType, LoopMessageType, LoopTimerType, CallbackDoneType,
    LoopExitType DEF PerlLoop

\* A call of the script.
LEMMA PerlCallType ==
  ASSUME TypeInv, PerlCall
  PROVE  TypeInv'
<1>1. CASE CallbackReturnState
  BY <1>1, ScriptAssumption DEF CallbackReturnState, CallUpdate, Calling, Goto, Home
<1>2. CASE LastControlMessage
  BY <1>2, ScriptAssumption DEF LastControlMessage, Goto, Calling, Home
<1>3. CASE StopService BY <1>3, ScriptAssumption DEF StopService, Goto, Calling, Home
<1> QED BY <1>1, <1>2, <1>3, CallbackTimerType, StateType, SetServiceBitsType DEF PerlCall

\* A step of StopService.
LEMMA PerlStopType ==
  ASSUME TypeInv, PerlStop
  PROVE  TypeInv'
<1>1. CASE StopCheck BY <1>1 DEF StopCheck, Goto, CallUpdate, DispatcherActive
<1>2. CASE StopGrace BY <1>2 DEF StopGrace, DispatcherActive
<1> QED BY <1>1, <1>2, StopPostType, StopModeType DEF PerlStop

\* The initial state satisfies the type invariant.
LEMMA InitType == Init => TypeInv
<1> SUFFICES ASSUME Init PROVE TypeInv OBVIOUS
<1>1. ThreadType /\ ReturnsHome /\ HandlesEvent /\ ErrorChosen
  BY DEF Init, ServiceInit, ThreadType, ReturnsHome, HandlesEvent, ErrorChosen
<1>2. ServiceType
  <2>1. StatusType BY DEF Init, ServiceInit
  <2>4. ErrorType BY DEF Init, ServiceInit
  <2>5. TimerType BY DEF Init, ServiceInit
  <2>2. QueueType BY DEF Init, ServiceInit
  <2>6. CommandType BY DEF Init, ServiceInit
  <2>7. SetupType
    <3>1. ghService = FALSE /\ gServiceMainThreadID = FALSE BY DEF Init, ServiceInit
    <3>2. gdwServiceBits = FALSE /\ scmBits = FALSE BY DEF Init, ServiceInit
    <3> QED BY <3>1, <3>2
  <2>3. sent \in 0 .. MaxControls BY BoundAssumption DEF Init, ServiceInit
  <2> QED BY <2>1, <2>2, <2>3, <2>4, <2>5, <2>6, <2>7
<1>3. ScriptType
  <2>1. gfCallbackMode \in BOOLEAN
    <3>1. gfCallbackMode = FALSE BY DEF Init, ServiceInit
    <3> QED BY <3>1
  <2>2. PerlType
    <3>1. ghServiceThread = FALSE /\ inLoop = FALSE /\ timerValue = TRUE BY DEF Init
    <3>2. heartbeat = FALSE /\ fCallbackState = FALSE BY DEF Init
    <3>3. posts = 0 /\ calls = 0 /\ last = "NONE" BY DEF Init
    <3>4. /\ ghServiceThread \in BOOLEAN /\ inLoop \in BOOLEAN /\ timerValue \in BOOLEAN
          /\ heartbeat \in BOOLEAN /\ fCallbackState \in BOOLEAN
      BY <3>1, <3>2
    <3>5. posts \in 0 .. MaxPosts BY <3>3, ScriptAssumption
    <3>6. calls \in 0 .. MaxCalls BY <3>3, ScriptAssumption
    <3> QED BY <3>3, <3>4, <3>5, <3>6
  <2> QED BY <2>1, <2>2
<1> QED BY <1>1, <1>2, <1>3 DEF TypeInv

\* Every step of every thread keeps the type invariant.
LEMMA NextType ==
  ASSUME TypeInv, [Next]_vars
  PROVE  TypeInv'
<1>1. CASE StartService \/ PerlLoop BY <1>1, StartServiceType, PerlLoopType
<1>2. CASE PerlCall BY <1>2, PerlCallType
<1>3. CASE PerlStop BY <1>3, PerlStopType
<1>4. CASE PerlUpdate BY <1>4, UpdateServiceStatusType DEF PerlUpdate
<1>5. CASE Dispatcher \/ ServiceControlManager
  BY <1>5, DispatcherType DEF Dispatcher, ServiceControlManager
<1>6. CASE Main BY <1>6, MainType DEF Main
<1>7. CASE UNCHANGED vars
  BY <1>7 DEF vars, TypeInv, ThreadType, ReturnsHome, HandlesEvent, ErrorChosen, ServiceType,
      StatusType, ErrorType, TimerType, QueueType, CommandType, SetupType, ScriptType, PerlType
<1> QED BY <1>1, <1>2, <1>3, <1>4, <1>5, <1>6, <1>7 DEF Next

\* Every variable keeps its type, and every thread stays in its own code.
THEOREM TypeInvariant == Spec => []TypeOK
<1>1. TypeInv => TypeOK BY DEF TypeInv, ServiceType, ScriptType, TypeOK
<1> QED BY <1>1, InitType, NextType, PTL DEF Spec

HIDE DEF TypeInv, ThreadType, ReturnsHome, HandlesEvent, ErrorChosen, ServiceType, StatusType,
         ErrorType, TimerType, QueueType, CommandType, SetupType, ScriptType, PerlType

-----------------------------------------------------------------------------
(***************************************************************************)
(* The order in which the threads are created: without it StartService and *)
(* the SCM could restart a thread in the middle of a report.               *)
(***************************************************************************)
Born ==
  /\ ~ghServiceThread => pc["dispatcher"] = "unborn"
  /\ pc["dispatcher"] \in {"unborn", "connect"} => pc["main"] = "unborn"

\* Every step keeps the order in which the threads are created.
LEMMA BornStep ==
  ASSUME TypeInv, Born, [Next]_vars
  PROVE  Born'
<1> USE DEF TypeInv, ThreadType, ReturnsHome, Born
<1>1. ASSUME NEW t \in Threads, UpdateState(t), UNCHANGED perlVars PROVE Born'
  BY <1>1 DEF UpdateState, Goto
<1>2. ASSUME NEW t \in Threads, UpdateKill(t), UNCHANGED perlVars PROVE Born'
  BY <1>2 DEF UpdateKill, KillCall, KillClear, Goto
<1>3. ASSUME NEW t \in Threads, UpdateError(t), UNCHANGED perlVars PROVE Born'
  BY <1>3 DEF UpdateError, Goto
<1>4. ASSUME NEW t \in Threads, UpdateReport(t), UNCHANGED perlVars PROVE Born'
  BY <1>4 DEF UpdateReport, Goto
<1>5. ASSUME NEW t \in {"dispatcher", "main"}, HandlerSwitch(t), UNCHANGED perlVars PROVE Born'
  BY <1>5 DEF HandlerSwitch, Goto, TimedControls
<1>6. ASSUME NEW t \in {"dispatcher", "main"}, HandlerLast(t), UNCHANGED perlVars PROVE Born'
  BY <1>6 DEF HandlerLast, Goto, CallUpdate, TimedControls
<1>7. ASSUME NEW t \in {"dispatcher", "main"}, SetTimeoutTimer(t), UNCHANGED perlVars PROVE Born'
  BY <1>7 DEF SetTimeoutTimer, CallUpdate, KillCall, KillClear, Goto
<1>8. ASSUME NEW t \in {"dispatcher", "main"}, HandlerNotify(t), UNCHANGED perlVars PROVE Born'
  BY <1>8 DEF HandlerNotify, Goto
<1>9. ASSUME DispatcherConnect, UNCHANGED perlVars PROVE Born'
  BY <1>9 DEF DispatcherConnect, CallUpdate, Goto
<1>10. ASSUME DispatcherReturn, UNCHANGED perlVars PROVE Born'
  BY <1>10 DEF DispatcherReturn, CallUpdate, Goto
<1>11. ASSUME NEW c \in Controls, DispatcherControl(c), UNCHANGED perlVars PROVE Born'
  BY <1>11 DEF DispatcherControl, EnterHandler, Goto
<1>12. ASSUME MainEntry, UNCHANGED perlVars PROVE Born'
  BY <1>12 DEF MainEntry, Goto
<1>13. ASSUME MainSetTimer, UNCHANGED perlVars PROVE Born'
  BY <1>13 DEF MainSetTimer, Goto, KillCall, KillClear
<1>14. ASSUME MainRegister, UNCHANGED perlVars PROVE Born'
  BY <1>14 DEF MainRegister, Goto
<1>15. ASSUME MainFirst, UNCHANGED perlVars PROVE Born'
  BY <1>15 DEF MainFirst, Goto
<1>16. ASSUME MainPending, UNCHANGED perlVars PROVE Born'
  BY <1>16 DEF MainPending, Goto
<1>17. ASSUME MainMode, UNCHANGED perlVars PROVE Born'
  BY <1>17 DEF MainMode, Goto, EnterHandler
<1>18. ASSUME MainBits, UNCHANGED perlVars PROVE Born'
  BY <1>18 DEF MainBits, Goto
<1>19. ASSUME MainArm, UNCHANGED perlVars PROVE Born'
  BY <1>19 DEF MainArm
<1>20. ASSUME MainQuit, UNCHANGED perlVars PROVE Born'
  BY <1>20 DEF MainQuit, CallUpdate, Goto
<1>21. ASSUME MainTimer, UNCHANGED perlVars PROVE Born'
  BY <1>21 DEF MainTimer, Goto
<1>22. ASSUME TimeoutKill, UNCHANGED perlVars PROVE Born'
  BY <1>22 DEF TimeoutKill, KillCall, KillClear, Goto
<1>23. ASSUME TimeoutForce, UNCHANGED perlVars PROVE Born'
  BY <1>23 DEF TimeoutForce, Goto
<1>24. ASSUME TimeoutCall, UNCHANGED perlVars PROVE Born'
  BY <1>24 DEF TimeoutCall, CallUpdate, Goto
<1>25. ASSUME TimeoutDispatch, UNCHANGED perlVars PROVE Born'
  BY <1>25 DEF TimeoutDispatch, Goto
<1>26. ASSUME MainExit, UNCHANGED perlVars PROVE Born'
  BY <1>26 DEF MainExit, Goto
<1>27. CASE StartService
  BY <1>27 DEF StartService
<1>28. CASE EnterCallbackMode
  BY <1>28 DEF EnterCallbackMode, SetCallbackTimer, Goto
<1>29. CASE LoopMessage
  BY <1>29 DEF LoopMessage, Dispatch, Goto
<1>30. CASE LoopTimer
  BY <1>30 DEF LoopTimer, Dispatch, Goto
<1>31. CASE CallbackReturn
  BY <1>31 DEF CallbackReturn, Goto
<1>32. CASE CallbackReturnState
  BY <1>32 DEF CallbackReturnState, CallUpdate, Calling, Goto, Home
<1>33. CASE CallbackDone
  BY <1>33 DEF CallbackDone, Goto
<1>34. CASE LoopExit
  BY <1>34 DEF LoopExit, Goto
<1>35. CASE State
  BY <1>35 DEF State, CallUpdate, Calling, Home, Goto
<1>36. CASE LastControlMessage
  BY <1>36 DEF LastControlMessage, Goto, Calling, Home
<1>37. CASE SetServiceBits
  BY <1>37 DEF SetServiceBits, Goto, Calling, Home
<1>38. CASE CallbackTimer
  BY <1>38 DEF CallbackTimer, SetCallbackTimer, Calling, Home
<1>39. CASE StopService
  BY <1>39 DEF StopService, Goto, Calling, Home
<1>40. CASE StopPost
  BY <1>40 DEF StopPost, Goto
<1>41. CASE StopCheck
  BY <1>41 DEF StopCheck, Goto, CallUpdate, DispatcherActive
<1>42. CASE StopGrace
  BY <1>42 DEF StopGrace, DispatcherActive
<1>43. CASE StopMode
  BY <1>43 DEF StopMode, Goto, Home
<1>44. CASE UNCHANGED vars BY <1>44 DEF vars
<1> QED BY <1>1, <1>2, <1>3, <1>4, <1>5, <1>6, <1>7, <1>8, <1>9, <1>10, <1>11, <1>12,
    <1>13, <1>14, <1>15, <1>16, <1>17, <1>18, <1>19, <1>20, <1>21, <1>22, <1>23, <1>24,
    <1>25, <1>26, <1>27, <1>28, <1>29, <1>30, <1>31, <1>32, <1>33, <1>34, <1>35, <1>36,
    <1>37, <1>38, <1>39, <1>40, <1>41, <1>42, <1>43, <1>44 DEF Next, PerlLoop, PerlCall,
    PerlStop, PerlUpdate, Dispatcher, ServiceControlManager, Main, MainStep,
    DispatcherStep, ServiceHandler, UpdateServiceStatus

-----------------------------------------------------------------------------
(***************************************************************************)
(* StatusExplained.  As long as no store has been overtaken, at most one   *)
(* thread is between its store and its report, and what it is about to     *)
(* report is what is stored.                                               *)
(***************************************************************************)
ReportsInTurn ==
  \/ unreported
  \/ /\ \A t \in Threads : pc[t] \in Reporting => arg[t] = gdwState
     /\ \A t, u \in Threads : InFlight(t) /\ InFlight(u) => t = u
     /\ (\A t \in Threads : ~InFlight(t)) => gdwState \in {scmState, "NOT_READY"}

\* Every step keeps the reports in turn.
LEMMA ReportsStep ==
  ASSUME TypeInv, Born, ReportsInTurn, [Next]_vars
  PROVE  ReportsInTurn'
<1> USE DEF TypeInv, ThreadType, ReturnsHome, ReportsInTurn, InFlight, Reporting
<1>1. ASSUME NEW t \in Threads, UpdateState(t) PROVE ReportsInTurn'
  <2> SUFFICES ASSUME ~unreported' PROVE ReportsInTurn' OBVIOUS
  <2>1. ~unreported /\ \A u \in Threads \ {t} : ~InFlight(u) BY <1>1 DEF UpdateState, StoreState
  <2>2. \A u \in Threads \ {t} : ~InFlight(u)' BY <1>1, <2>1 DEF UpdateState, Goto
  <2>3. arg'[t] = gdwState' /\ pc'[t] = "upd_kill" BY <1>1 DEF UpdateState, StoreState, Goto
  <2> QED BY <2>2, <2>3
<1>2. ASSUME NEW t \in Threads, UpdateKill(t) PROVE ReportsInTurn'
  BY <1>2 DEF UpdateKill, KillCall, KillClear, Goto
<1>3. ASSUME NEW t \in Threads, UpdateError(t) PROVE ReportsInTurn'
  BY <1>3 DEF UpdateError, Goto
<1>4. ASSUME NEW t \in Threads, UpdateReport(t) PROVE ReportsInTurn'
  <2> SUFFICES ASSUME ~unreported' PROVE ReportsInTurn' OBVIOUS
  <2>1. ~unreported /\ ghService BY <1>4 DEF UpdateReport, StatusType, ServiceType
  <2>2. \A u \in Threads \ {t} : ~InFlight(u) BY <1>4, <2>1 DEF UpdateReport
  <2>3. \A u \in Threads \ {t} : ~InFlight(u)' BY <1>4, <2>2 DEF UpdateReport, Goto
  <2>4. ~InFlight(t)' /\ pc'[t] \notin Reporting BY <1>4 DEF UpdateReport, Goto
  <2>5. scmState' = gdwState' BY <1>4, <2>1 DEF UpdateReport
  <2> QED BY <2>3, <2>4, <2>5
<1>5. ASSUME NEW t \in {"dispatcher", "main"}, HandlerSwitch(t) PROVE ReportsInTurn'
  BY <1>5 DEF HandlerSwitch, Goto, TimedControls
<1>6. ASSUME NEW t \in {"dispatcher", "main"}, HandlerLast(t) PROVE ReportsInTurn'
  BY <1>6 DEF HandlerLast, Goto, CallUpdate, TimedControls
<1>7. ASSUME NEW t \in {"dispatcher", "main"}, SetTimeoutTimer(t) PROVE ReportsInTurn'
  BY <1>7 DEF SetTimeoutTimer, CallUpdate, KillCall, KillClear, Goto
<1>8. ASSUME NEW t \in {"dispatcher", "main"}, HandlerNotify(t) PROVE ReportsInTurn'
  BY <1>8 DEF HandlerNotify, Goto
<1>9. CASE DispatcherConnect
  <2>1. pc["dispatcher"] = "connect" /\ pc["main"] = "unborn" BY <1>9 DEF DispatcherConnect, Born
  <2>2. \A u \in Threads : ~InFlight(u) <=> ~InFlight(u)'
    BY <1>9, <2>1 DEF DispatcherConnect, CallUpdate, Goto
  <2>3. \A u \in Threads : pc'[u] \in Reporting => pc[u] \in Reporting /\ arg'[u] = arg[u]
    BY <1>9, <2>1 DEF DispatcherConnect, CallUpdate, Goto
  <2> QED BY <1>9, <2>2, <2>3 DEF DispatcherConnect
<1>10. CASE DispatcherReturn
  BY <1>10 DEF DispatcherReturn, CallUpdate, Goto
<1>11. ASSUME NEW c \in Controls, DispatcherControl(c) PROVE ReportsInTurn'
  BY <1>11 DEF DispatcherControl, EnterHandler, Goto
<1>12. CASE MainEntry
  BY <1>12 DEF MainEntry, Goto
<1>13. CASE MainSetTimer
  BY <1>13 DEF MainSetTimer, Goto, KillCall, KillClear
<1>14. CASE MainRegister
  BY <1>14 DEF MainRegister, Goto
<1>15. CASE MainFirst
  BY <1>15 DEF MainFirst, Goto
<1>16. CASE MainPending
  <2> SUFFICES ASSUME ~unreported' PROVE ReportsInTurn' OBVIOUS
  <2>1. /\ ~unreported /\ scmState = "START_PENDING"
        /\ \A u \in Threads \ {"main"} : ~InFlight(u)
    BY <1>16 DEF MainPending
  <2>2. \A u \in Threads : ~InFlight(u)' BY <1>16, <2>1 DEF MainPending, Goto
  <2> QED BY <1>16, <2>1, <2>2 DEF MainPending
<1>17. CASE MainMode
  BY <1>17 DEF MainMode, Goto, EnterHandler
<1>18. CASE MainBits
  BY <1>18 DEF MainBits, Goto
<1>19. CASE MainArm
  BY <1>19 DEF MainArm
<1>20. CASE MainQuit
  BY <1>20 DEF MainQuit, CallUpdate, Goto
<1>21. CASE MainTimer
  BY <1>21 DEF MainTimer, Goto
<1>22. CASE TimeoutKill
  BY <1>22 DEF TimeoutKill, KillCall, KillClear, Goto
<1>23. CASE TimeoutForce
  BY <1>23 DEF TimeoutForce, Goto, StoreState
<1>24. CASE TimeoutCall
  BY <1>24 DEF TimeoutCall, CallUpdate, Goto
<1>25. CASE TimeoutDispatch
  BY <1>25 DEF TimeoutDispatch, Goto
<1>26. CASE MainExit
  BY <1>26 DEF MainExit, Goto
<1>27. CASE StartService
  <2>1. pc["dispatcher"] = "unborn" /\ pc["perl"] = "script" BY <1>27 DEF StartService, Born
  <2>2. \A u \in Threads : ~InFlight(u) <=> ~InFlight(u)' BY <1>27, <2>1 DEF StartService
  <2>3. \A u \in Threads : pc'[u] \in Reporting => pc[u] \in Reporting
    BY <1>27, <2>1 DEF StartService
  <2> QED BY <1>27, <2>2, <2>3 DEF StartService
<1>28. CASE EnterCallbackMode
  BY <1>28 DEF EnterCallbackMode, SetCallbackTimer, Goto
<1>29. CASE LoopMessage
  BY <1>29 DEF LoopMessage, Dispatch, Goto
<1>30. CASE LoopTimer
  BY <1>30 DEF LoopTimer, Dispatch, Goto
<1>31. CASE CallbackReturn
  BY <1>31 DEF CallbackReturn, Goto
<1>32. CASE CallbackReturnState
  BY <1>32 DEF CallbackReturnState, CallUpdate, Calling, Goto, Home
<1>33. CASE CallbackDone
  BY <1>33 DEF CallbackDone, Goto
<1>34. CASE LoopExit
  BY <1>34 DEF LoopExit, Goto
<1>35. CASE State
  BY <1>35 DEF State, CallUpdate, Calling, Home, Goto
<1>36. CASE LastControlMessage
  BY <1>36 DEF LastControlMessage, Goto, Calling, Home
<1>37. CASE SetServiceBits
  BY <1>37 DEF SetServiceBits, Goto, Calling, Home
<1>38. CASE CallbackTimer
  BY <1>38 DEF CallbackTimer, SetCallbackTimer, Calling, Home
<1>39. CASE StopService
  BY <1>39 DEF StopService, Goto, Calling, Home
<1>40. CASE StopPost
  BY <1>40 DEF StopPost, Goto
<1>41. CASE StopCheck
  BY <1>41 DEF StopCheck, Goto, CallUpdate, DispatcherActive
<1>42. CASE StopGrace
  <2> SUFFICES ASSUME ~unreported' PROVE ReportsInTurn' OBVIOUS
  <2>1. ~unreported /\ ~InFlight("dispatcher") BY <1>42 DEF StopGrace
  <2>2. \A u \in Threads : ~InFlight(u) <=> ~InFlight(u)' BY <1>42, <2>1 DEF StopGrace
  <2>3. \A u \in Threads : pc'[u] \in Reporting => pc[u] \in Reporting /\ arg'[u] = arg[u]
    BY <1>42 DEF StopGrace
  <2> QED BY <1>42, <2>1, <2>2, <2>3 DEF StopGrace
<1>43. CASE StopMode
  BY <1>43 DEF StopMode, Goto, Home
<1>44. CASE UNCHANGED vars BY <1>44 DEF vars
<1> QED BY <1>1, <1>2, <1>3, <1>4, <1>5, <1>6, <1>7, <1>8, <1>9, <1>10, <1>11, <1>12,
    <1>13, <1>14, <1>15, <1>16, <1>17, <1>18, <1>19, <1>20, <1>21, <1>22, <1>23, <1>24,
    <1>25, <1>26, <1>27, <1>28, <1>29, <1>30, <1>31, <1>32, <1>33, <1>34, <1>35, <1>36,
    <1>37, <1>38, <1>39, <1>40, <1>41, <1>42, <1>43, <1>44 DEF Next, PerlLoop, PerlCall,
    PerlStop, PerlUpdate, Dispatcher, ServiceControlManager, Main, MainStep,
    DispatcherStep, ServiceHandler, UpdateServiceStatus

\* A state that differs from the status the SCM holds is one that is on its way there,
\* or that was overtaken or never reported: with the type and the creation order, the
\* reports in turn are inductive.
THEOREM StatusIsExplained == Spec => []StatusExplained
<1>1. Init => TypeInv /\ Born /\ ReportsInTurn
  <2> SUFFICES ASSUME Init PROVE TypeInv /\ Born /\ ReportsInTurn OBVIOUS
  <2>1. \A t \in Threads : pc[t] \in {"script", "unborn"} BY DEF Init, ServiceInit
  <2>2. gdwState = "NOT_READY" BY DEF Init, ServiceInit
  <2>3. ReportsInTurn BY <2>1, <2>2 DEF ReportsInTurn, InFlight, Reporting
  <2> QED BY <2>3, InitType DEF Init, ServiceInit, Born
<1>2. TypeInv /\ Born /\ ReportsInTurn /\ [Next]_vars => (TypeInv /\ Born /\ ReportsInTurn)'
  BY NextType, BornStep, ReportsStep
<1>3. ReportsInTurn => StatusExplained BY DEF ReportsInTurn, StatusExplained
<1> QED BY <1>1, <1>2, <1>3, PTL DEF Spec

-----------------------------------------------------------------------------
(***************************************************************************)
(* TimerHandleLive.  ServiceMain has no timer armed before its message     *)
(* loop nor when its thread ends, which is when Windows would take an armed*)
(* timer away from under ghTimer.                                          *)
(***************************************************************************)
Unarmed ==
  \/ pc["main"] \in SetupLabels \cup HandlerLabels \cup {"m_exit", "done"}
  \/ pc["main"] \in UpdateLabels /\ ret["main"] = "h_notify"
  \/ pc["main"] \in {"upd_error", "upd_report"} /\ ret["main"] = "m_exit"
TimerInv == TimerHandleLive /\ (Unarmed => ghTimer = NoTimer)

\* Every step keeps the timer and its handle together.
LEMMA TimerStep ==
  ASSUME TypeInv, Born, TimerInv, [Next]_vars
  PROVE  TimerInv'
<1> USE DEF TypeInv, ThreadType, ReturnsHome, TimerInv, TimerHandleLive, ClearLabels,
    Unarmed, TimerType, ServiceType
<1>1. ASSUME NEW t \in Threads, UpdateState(t) PROVE TimerInv'
  BY <1>1 DEF UpdateState, Goto
<1>2. ASSUME NEW t \in Threads, UpdateKill(t) PROVE TimerInv'
  BY <1>2 DEF UpdateKill, KillCall, KillClear, Goto
<1>3. ASSUME NEW t \in Threads, UpdateError(t) PROVE TimerInv'
  BY <1>3 DEF UpdateError, Goto
<1>4. ASSUME NEW t \in Threads, UpdateReport(t) PROVE TimerInv'
  BY <1>4 DEF UpdateReport, Goto
<1>5. ASSUME NEW t \in {"dispatcher", "main"}, HandlerSwitch(t) PROVE TimerInv'
  BY <1>5 DEF HandlerSwitch, Goto, TimedControls
<1>6. ASSUME NEW t \in {"dispatcher", "main"}, HandlerLast(t) PROVE TimerInv'
  BY <1>6 DEF HandlerLast, Goto, CallUpdate, TimedControls
<1>7. ASSUME NEW t \in {"dispatcher", "main"}, SetTimeoutTimer(t) PROVE TimerInv'
  BY <1>7 DEF SetTimeoutTimer, CallUpdate, KillCall, KillClear, Goto
<1>8. ASSUME NEW t \in {"dispatcher", "main"}, HandlerNotify(t) PROVE TimerInv'
  BY <1>8 DEF HandlerNotify, Goto
<1>9. CASE DispatcherConnect
  BY <1>9 DEF DispatcherConnect, CallUpdate, Goto, Born
<1>10. CASE DispatcherReturn
  BY <1>10 DEF DispatcherReturn, CallUpdate, Goto
<1>11. ASSUME NEW c \in Controls, DispatcherControl(c) PROVE TimerInv'
  BY <1>11 DEF DispatcherControl, EnterHandler, Goto
<1>12. CASE MainEntry
  BY <1>12 DEF MainEntry, Goto
<1>13. CASE MainSetTimer
  BY <1>13 DEF MainSetTimer, Goto, KillCall, KillClear
<1>14. CASE MainRegister
  BY <1>14 DEF MainRegister, Goto
<1>15. CASE MainFirst
  BY <1>15 DEF MainFirst, Goto
<1>16. CASE MainPending
  BY <1>16 DEF MainPending, Goto
<1>17. CASE MainMode
  BY <1>17 DEF MainMode, Goto, EnterHandler
<1>18. CASE MainBits
  BY <1>18 DEF MainBits, Goto
<1>19. CASE MainArm
  BY <1>19 DEF MainArm
<1>20. CASE MainQuit
  BY <1>20 DEF MainQuit, CallUpdate, Goto
<1>21. CASE MainTimer
  BY <1>21 DEF MainTimer, Goto
<1>22. CASE TimeoutKill
  BY <1>22 DEF TimeoutKill, KillCall, KillClear, Goto
<1>23. CASE TimeoutForce
  BY <1>23 DEF TimeoutForce, Goto
<1>24. CASE TimeoutCall
  BY <1>24 DEF TimeoutCall, CallUpdate, Goto
<1>25. CASE TimeoutDispatch
  BY <1>25 DEF TimeoutDispatch, Goto
<1>26. CASE MainExit
  BY <1>26 DEF MainExit, Goto
<1>27. CASE StartService
  BY <1>27 DEF StartService, Born
<1>28. CASE EnterCallbackMode
  BY <1>28 DEF EnterCallbackMode, SetCallbackTimer, Goto
<1>29. CASE LoopMessage
  BY <1>29 DEF LoopMessage, Dispatch, Goto
<1>30. CASE LoopTimer
  BY <1>30 DEF LoopTimer, Dispatch, Goto
<1>31. CASE CallbackReturn
  BY <1>31 DEF CallbackReturn, Goto
<1>32. CASE CallbackReturnState
  BY <1>32 DEF CallbackReturnState, CallUpdate, Calling, Goto, Home
<1>33. CASE CallbackDone
  BY <1>33 DEF CallbackDone, Goto
<1>34. CASE LoopExit
  BY <1>34 DEF LoopExit, Goto
<1>35. CASE State
  BY <1>35 DEF State, CallUpdate, Calling, Home, Goto
<1>36. CASE LastControlMessage
  BY <1>36 DEF LastControlMessage, Goto, Calling, Home
<1>37. CASE SetServiceBits
  BY <1>37 DEF SetServiceBits, Goto, Calling, Home
<1>38. CASE CallbackTimer
  BY <1>38 DEF CallbackTimer, SetCallbackTimer, Calling, Home
<1>39. CASE StopService
  BY <1>39 DEF StopService, Goto, Calling, Home
<1>40. CASE StopPost
  BY <1>40 DEF StopPost, Goto
<1>41. CASE StopCheck
  BY <1>41 DEF StopCheck, Goto, CallUpdate, DispatcherActive
<1>42. CASE StopGrace
  BY <1>42 DEF StopGrace, DispatcherActive
<1>43. CASE StopMode
  BY <1>43 DEF StopMode, Goto, Home
<1>44. CASE UNCHANGED vars BY <1>44 DEF vars
<1> QED BY <1>1, <1>2, <1>3, <1>4, <1>5, <1>6, <1>7, <1>8, <1>9, <1>10, <1>11, <1>12,
    <1>13, <1>14, <1>15, <1>16, <1>17, <1>18, <1>19, <1>20, <1>21, <1>22, <1>23, <1>24,
    <1>25, <1>26, <1>27, <1>28, <1>29, <1>30, <1>31, <1>32, <1>33, <1>34, <1>35, <1>36,
    <1>37, <1>38, <1>39, <1>40, <1>41, <1>42, <1>43, <1>44 DEF Next, PerlLoop, PerlCall,
    PerlStop, PerlUpdate, Dispatcher, ServiceControlManager, Main, MainStep,
    DispatcherStep, ServiceHandler, UpdateServiceStatus

\* KillTimer() never names a timer that is gone, whether or not a timer can be killed
\* from another thread.
THEOREM TimerHandleIsLive == Spec => []TimerHandleLive
<1>1. Init => TypeInv /\ Born /\ TimerInv
  <2> SUFFICES ASSUME Init PROVE TypeInv /\ Born /\ TimerInv OBVIOUS
  <2>1. ghTimer = NoTimer BY DEF Init, ServiceInit
  <2> QED BY <2>1, InitType DEF Init, ServiceInit, Born, TimerInv, TimerHandleLive
<1>2. TypeInv /\ Born /\ TimerInv /\ [Next]_vars => (TypeInv /\ Born /\ TimerInv)'
  BY NextType, BornStep, TimerStep
<1>3. TimerInv => TimerHandleLive BY DEF TimerInv
<1> QED BY <1>1, <1>2, <1>3, PTL DEF Spec

-----------------------------------------------------------------------------
(***************************************************************************)
(* HeartbeatKept.  While an event is dispatched, the heartbeat of before is*)
(* in fCallbackState, and a routine that sets the value starts it itself.  *)
(***************************************************************************)
HeartbeatInv ==
  inLoop =>
    /\ pc["perl"] = "loop" => (heartbeat <=> timerValue)
    /\ heartbeat => timerValue
    /\ timerValue => heartbeat \/ fCallbackState

\* The threads of the SCM leave the heartbeat and the Perl thread's place alone.
LEMMA ServiceLeavesPerl ==
  ASSUME TypeInv, Dispatcher \/ ServiceControlManager \/ Main
  PROVE  pc'["perl"] = pc["perl"] /\ UNCHANGED perlVars
<1> USE DEF TypeInv, ThreadType, Goto, CallUpdate, EnterHandler
<1>1. ASSUME NEW t \in {"dispatcher", "main"}, UpdateServiceStatus(t)
      PROVE  pc'["perl"] = pc["perl"]
  BY <1>1 DEF UpdateServiceStatus, UpdateState, UpdateKill, KillCall, KillClear,
      UpdateError, UpdateReport
<1>2. ASSUME NEW t \in {"dispatcher", "main"}, ServiceHandler(t)
      PROVE  pc'["perl"] = pc["perl"]
  BY <1>2 DEF ServiceHandler, HandlerSwitch, HandlerLast, SetTimeoutTimer, KillCall,
      KillClear, HandlerNotify
<1>3. CASE Dispatcher
  BY <1>1, <1>2, <1>3
  DEF Dispatcher, DispatcherStep, DispatcherConnect, DispatcherReturn
<1>4. CASE ServiceControlManager
  BY <1>4 DEF ServiceControlManager, DispatcherControl
<1>5. CASE Main
  BY <1>1, <1>2, <1>5
  DEF Main, MainStep, MainEntry, MainSetTimer, KillCall, KillClear, MainRegister,
      MainFirst, MainPending, MainMode, MainBits, MainArm, MainQuit, MainTimer,
      TimeoutKill, TimeoutForce, TimeoutCall, TimeoutDispatch, MainExit
<1> QED BY <1>3, <1>4, <1>5

\* Every step keeps the heartbeat: the message loop stops and restarts it in pairs.
LEMMA HeartbeatStep ==
  ASSUME TypeInv, HeartbeatInv, [Next]_vars
  PROVE  HeartbeatInv'
<1> USE DEF TypeInv, ThreadType, ReturnsHome, ScriptType, PerlType, HeartbeatInv, Goto
<1>1. CASE UNCHANGED vars BY <1>1 DEF vars
<1>2. CASE Dispatcher \/ ServiceControlManager \/ Main BY <1>2, ServiceLeavesPerl
<1>3. CASE PerlUpdate
  BY <1>3 DEF PerlUpdate, UpdateServiceStatus, UpdateState, UpdateKill, KillCall,
      KillClear, UpdateError, UpdateReport
<1>4. CASE StartService BY <1>4 DEF StartService
<1>5. CASE PerlLoop
  <2>1. CASE EnterCallbackMode BY <2>1 DEF EnterCallbackMode, SetCallbackTimer
  <2>2. CASE LoopMessage BY <2>2 DEF LoopMessage, Dispatch
  <2>3. CASE LoopTimer BY <2>3 DEF LoopTimer, Dispatch
  <2>4. CASE CallbackReturn BY <2>4 DEF CallbackReturn
  <2>5. CASE CallbackDone BY <2>5 DEF CallbackDone
  <2>6. CASE LoopExit BY <2>6 DEF LoopExit
  <2> QED BY <1>5, <2>1, <2>2, <2>3, <2>4, <2>5, <2>6 DEF PerlLoop
<1>6. CASE PerlCall
  <2> USE DEF Calling, Home
  <2>1. CASE CallbackReturnState BY <2>1 DEF CallbackReturnState, CallUpdate
  <2>2. CASE State BY <2>2 DEF State, CallUpdate
  <2>3. CASE LastControlMessage BY <2>3 DEF LastControlMessage
  <2>4. CASE SetServiceBits BY <2>4 DEF SetServiceBits
  <2>5. CASE CallbackTimer BY <2>5 DEF CallbackTimer, SetCallbackTimer
  <2>6. CASE StopService BY <2>6 DEF StopService
  <2> QED BY <1>6, <2>1, <2>2, <2>3, <2>4, <2>5, <2>6 DEF PerlCall
<1>7. CASE PerlStop
  <2>1. CASE StopPost BY <2>1 DEF StopPost
  <2>2. CASE StopCheck BY <2>2 DEF StopCheck, CallUpdate
  <2>3. CASE StopGrace BY <2>3 DEF StopGrace
  <2>4. CASE StopMode BY <2>4 DEF StopMode, Home
  <2> QED BY <1>7, <2>1, <2>2, <2>3, <2>4 DEF PerlStop
<1> QED BY <1>1, <1>2, <1>3, <1>4, <1>5, <1>6, <1>7 DEF Next

\* Back in the loop the heartbeat runs if and only if its value is positive.
THEOREM HeartbeatIsKept == Spec => []HeartbeatKept
<1>1. Init => TypeInv /\ HeartbeatInv
  BY InitType DEF Init, ServiceInit, HeartbeatInv
<1>2. TypeInv /\ HeartbeatInv /\ [Next]_vars => (TypeInv /\ HeartbeatInv)'
  BY NextType, HeartbeatStep
<1>3. HeartbeatInv => HeartbeatKept BY DEF HeartbeatInv, HeartbeatKept
<1> QED BY <1>1, <1>2, <1>3, PTL DEF Spec

-----------------------------------------------------------------------------
(***************************************************************************)
(* StoppedStays.  While the script says nothing and one control at most    *)
(* has been sent, only a STOP makes the state STOPPED: it makes the timeout*)
(* force STOPPED, and as ServiceMain's thread never leaves its loop again, *)
(* what it stores and reports from then on is STOPPED.                     *)
(***************************************************************************)
Quiet == calls = 0 /\ sent <= 1

\* The dispatcher thread is in its last report, or behind it.
LastReport ==
  \/ pc["dispatcher"] = "done"
  \/ pc["dispatcher"] \in UpdateLabels /\ ret["dispatcher"] = "done"

\* ServiceMain before its handler has reported START, and in its loop.
Early ==
  \/ pc["main"] \in (SetupLabels \cup HandlerLabels) \ {"m_bits", "h_notify"}
  \/ pc["main"] \in UpdateLabels /\ ret["main"] = "h_notify"
Late ==
  \/ pc["main"] = "loop" \/ pc["main"] \in TimeoutLabels
  \/ pc["main"] \in UpdateLabels /\ ret["main"] \in {"t_dispatch", "loop"}
\* RegisterServiceCtrlHandler has failed.
Unregistered == pc["main"] \in {"m_exit", "done"} /\ ~ghService

\* STOP has been handled, and what ServiceMain's timeouts will store is STOPPED; or
\* what they are storing is STOPPED already.
Stopping == gdwTimeoutState = "STOPPED" /\ Late
Forcing == Stopping /\ (pc["main"] \in UpdateLabels => arg["main"] = "STOPPED")

\* Without calls nobody posts WM_QUIT, reports from the script, or kills a thread.
Silent ==
  /\ pc["perl"] \in {"script", "mode", "loop", "callback", "cb_done"}
  /\ mainQueue \in Seq({"SET_TIMER"})
  /\ pc["dispatcher"] # "dead"

\* Until ServiceMain has reported, the SCM sends nothing.
Placed ==
  /\ Early \/ pc["main"] \in {"h_notify", "m_bits"} \/ Late \/ Unregistered
  /\ ghService => pc["main"] \notin {"unborn", "m_entry", "m_kill", "m_clear", "m_post",
                                     "m_register"}
  /\ Early => sent = 0 /\ scmState = "START_PENDING" /\ scmError = "NONE"
  /\ pc["main"] = "h_switch" => ctl["main"] = "START"
  /\ sent = 0 => pc["dispatcher"] \in {"unborn", "connect", "dispatch"} \/ LastReport

\* Where STOPPED can come from, in each of the places it can be.
Sourced ==
  /\ gdwTimeoutState = "STOPPED" => sent = 1 /\ pc["dispatcher"] # "h_switch"
  /\ scmState = "STOPPED" => Forcing
  /\ arg["main"] = "STOPPED" /\ pc["main"] \in HandlerLabels \cup UpdateLabels => Stopping
  /\ arg["dispatcher"] = "STOPPED" /\ pc["dispatcher"] \in HandlerLabels \cup UpdateLabels =>
       LastReport
  /\ gdwState = "STOPPED" => Stopping \/ Unregistered \/ (LastReport /\ pc["main"] = "unborn")

\* The last report, and what there is left to change it.
Ended ==
  LastReport =>
    /\ (pc["main"] = "unborn" /\ ~ghService) \/ Forcing
    /\ pc["dispatcher"] \in UpdateLabels => arg["dispatcher"] = "STOPPED"
    /\ pc["dispatcher"] # "upd_state" => gdwState = "STOPPED"

OneStop == Silent /\ Placed /\ Sourced /\ Ended
StopInv == Quiet => OneStop

\* What a silent script and a single control leave for a step to start from.
LEMMA QuietBefore ==
  ASSUME TypeInv, StopInv, [Next]_vars, Quiet'
  PROVE  Quiet /\ OneStop /\ UNCHANGED calls
<1> USE DEF TypeInv, ServiceType, ScriptType, PerlType
<1>1. sent \in Nat /\ calls \in Nat BY BoundAssumption, ScriptAssumption
<1>2. sent' \in {sent, sent + 1} /\ calls' \in {calls, calls + 1}
  <2>1. CASE Dispatcher \/ Main
    <3>1. UNCHANGED calls BY <2>1 DEF Dispatcher, Main
    <3>2. ASSUME NEW t \in Threads, UpdateServiceStatus(t) PROVE UNCHANGED sent
      BY <3>2 DEF UpdateServiceStatus, UpdateState, UpdateKill, UpdateError, UpdateReport,
          KillCall, KillClear
    <3>3. ASSUME NEW t \in Threads, ServiceHandler(t) PROVE UNCHANGED sent
      BY <3>3 DEF ServiceHandler, HandlerSwitch, HandlerLast, SetTimeoutTimer, HandlerNotify,
          KillCall, KillClear
    <3>4. UNCHANGED sent
      BY <2>1, <3>2, <3>3
      DEF Dispatcher, DispatcherStep, DispatcherConnect, DispatcherReturn, Main, MainStep,
          MainEntry, MainSetTimer, MainRegister, MainFirst, MainPending, MainMode, MainBits,
          MainArm, MainQuit, MainTimer, TimeoutKill, TimeoutForce, TimeoutCall,
          TimeoutDispatch, MainExit, KillCall, KillClear
    <3> QED BY <3>1, <3>4
  <2>2. CASE ServiceControlManager
    BY <2>2 DEF ServiceControlManager, DispatcherControl
  <2>3. CASE PerlUpdate
    BY <2>3 DEF PerlUpdate, UpdateServiceStatus, UpdateState, UpdateKill, UpdateError,
        UpdateReport, KillCall, KillClear
  <2>4. CASE StartService \/ PerlLoop
    BY <2>4 DEF StartService, PerlLoop, EnterCallbackMode, LoopMessage, LoopTimer,
        CallbackReturn, CallbackDone, LoopExit
  <2>5. CASE PerlCall
    BY <2>5 DEF PerlCall, CallbackReturnState, State, LastControlMessage, SetServiceBits,
        CallbackTimer, StopService, Calling
  <2>6. CASE PerlStop BY <2>6 DEF PerlStop, StopPost, StopCheck, StopGrace, StopMode
  <2>7. CASE UNCHANGED vars BY <2>7 DEF vars
  <2> QED BY <2>1, <2>2, <2>3, <2>4, <2>5, <2>6, <2>7 DEF Next
<1>3. Quiet /\ UNCHANGED calls BY <1>1, <1>2 DEF Quiet
<1> QED BY <1>3 DEF StopInv

\* A queue of SET_TIMERs with one more.
LEMMA AppendSetTimer ==
  ASSUME NEW q \in Seq({"SET_TIMER"}) PROVE Append(q, "SET_TIMER") \in Seq({"SET_TIMER"})
  OBVIOUS

\* Every step of the service's threads keeps it.
LEMMA ServiceStopStep ==
  ASSUME TypeInv, Born, Quiet, OneStop, Quiet', Dispatcher \/ ServiceControlManager \/ Main
  PROVE  OneStop'
<1> USE DEF TypeInv, ThreadType, ReturnsHome, ServiceType, StatusType, CommandType, OneStop,
        Silent, Placed, Sourced, Ended, Early, Late, Unregistered, Stopping, Forcing, LastReport
<1>1. ASSUME NEW t \in {"dispatcher", "main"}, UpdateState(t) PROVE OneStop'
  BY <1>1 DEF UpdateState, Goto, StoreState
<1>2. ASSUME NEW t \in {"dispatcher", "main"}, UpdateKill(t) PROVE OneStop'
  BY <1>2 DEF UpdateKill, KillCall, KillClear, Goto
<1>3. ASSUME NEW t \in {"dispatcher", "main"}, UpdateError(t) PROVE OneStop'
  BY <1>3 DEF UpdateError, Goto
<1>4. ASSUME NEW t \in {"dispatcher", "main"}, UpdateReport(t) PROVE OneStop'
  BY <1>4 DEF UpdateReport, Goto
<1>5. ASSUME NEW t \in {"dispatcher", "main"}, HandlerSwitch(t) PROVE OneStop'
  <2>1. Silent' BY <1>5 DEF HandlerSwitch, Goto
  <2>2. CASE t = "dispatcher"
    <3>1. gdwTimeoutState # "STOPPED" /\ sent = 1 /\ ~LastReport /\ ~LastReport'
      BY <1>5, <2>2, BoundAssumption DEF HandlerSwitch, Goto, Quiet
    <3>2. Placed' BY <1>5, <2>2 DEF HandlerSwitch, Goto
    <3>3. Sourced' BY <1>5, <2>2, <3>1 DEF HandlerSwitch, Goto, TimedControls
    <3> QED BY <2>1, <3>1, <3>2, <3>3
  <2>3. CASE t = "main"
    <3>1. Placed' BY <1>5, <2>3 DEF HandlerSwitch, Goto
    <3>2. Sourced' BY <1>5, <2>3 DEF HandlerSwitch, Goto, TimedControls
    <3>3. Ended' BY <1>5, <2>3 DEF HandlerSwitch, Goto
    <3> QED BY <2>1, <3>1, <3>2, <3>3
  <2> QED BY <2>2, <2>3
<1>6. ASSUME NEW t \in {"dispatcher", "main"}, HandlerLast(t) PROVE OneStop'
  BY <1>6 DEF HandlerLast, Goto, CallUpdate, TimedControls
<1>7. ASSUME NEW t \in {"dispatcher", "main"}, SetTimeoutTimer(t) PROVE OneStop'
  <2>1. mainQueue' \in {mainQueue, Append(mainQueue, "SET_TIMER")}
    BY <1>7 DEF SetTimeoutTimer, KillCall, KillClear, PostToMain
  <2>4. mainQueue' \in Seq({"SET_TIMER"})
    <3>1. mainQueue \in Seq({"SET_TIMER"}) OBVIOUS
    <3> QED BY <2>1, <3>1, AppendSetTimer
  <2>2. Silent' BY <1>7, <2>4 DEF SetTimeoutTimer, CallUpdate, KillCall, KillClear, Goto
  <2>3. (Placed /\ Sourced /\ Ended)'
    BY <1>7 DEF SetTimeoutTimer, CallUpdate, KillCall, KillClear, Goto
  <2> QED BY <2>2, <2>3
<1>8. ASSUME NEW t \in {"dispatcher", "main"}, HandlerNotify(t) PROVE OneStop'
  BY <1>8 DEF HandlerNotify, Goto
<1>9. CASE DispatcherConnect
  BY <1>9 DEF DispatcherConnect, CallUpdate, Goto, Born
<1>10. CASE DispatcherReturn
  BY <1>10 DEF DispatcherReturn, CallUpdate, Goto
<1>11. ASSUME NEW c \in Controls, DispatcherControl(c) PROVE OneStop'
  BY <1>11 DEF DispatcherControl, EnterHandler, Goto, Deliverable, Quiet
<1>12. CASE MainEntry
  BY <1>12 DEF MainEntry, Goto
<1>13. CASE MainSetTimer
  <2>1. mainQueue' \in {mainQueue, Append(mainQueue, "SET_TIMER")}
    BY <1>13 DEF MainSetTimer, KillCall, KillClear
  <2>4. mainQueue' \in Seq({"SET_TIMER"})
    <3>1. mainQueue \in Seq({"SET_TIMER"}) OBVIOUS
    <3> QED BY <2>1, <3>1, AppendSetTimer
  <2>2. Silent' BY <1>13, <2>4 DEF MainSetTimer, KillCall, KillClear, Goto
  <2>3. (Placed /\ Sourced /\ Ended)'
    BY <1>13 DEF MainSetTimer, KillCall, KillClear, Goto
  <2> QED BY <2>2, <2>3
<1>14. CASE MainRegister
  BY <1>14 DEF MainRegister, Goto
<1>15. CASE MainFirst
  BY <1>15 DEF MainFirst, Goto
<1>16. CASE MainPending
  BY <1>16 DEF MainPending, Goto
<1>17. CASE MainMode
  BY <1>17 DEF MainMode, Goto, EnterHandler
<1>18. CASE MainBits
  BY <1>18 DEF MainBits, Goto
<1>19. CASE MainArm
  BY <1>19 DEF MainArm
<1>20. CASE MainQuit
  BY <1>20 DEF MainQuit, CallUpdate, Goto
<1>21. CASE MainTimer
  BY <1>21 DEF MainTimer, Goto
<1>22. CASE TimeoutKill
  BY <1>22 DEF TimeoutKill, KillCall, KillClear, Goto
<1>23. CASE TimeoutForce
  BY <1>23 DEF TimeoutForce, Goto, StoreState
<1>24. CASE TimeoutCall
  BY <1>24 DEF TimeoutCall, CallUpdate, Goto
<1>25. CASE TimeoutDispatch
  BY <1>25 DEF TimeoutDispatch, Goto
<1>26. CASE MainExit
  BY <1>26 DEF MainExit, Goto
<1> QED BY <1>1, <1>2, <1>3, <1>4, <1>5, <1>6, <1>7, <1>8, <1>9, <1>10, <1>11, <1>12,
    <1>13, <1>14, <1>15, <1>16, <1>17, <1>18, <1>19, <1>20, <1>21, <1>22, <1>23, <1>24,
    <1>25, <1>26 DEF Dispatcher, ServiceControlManager, Main, MainStep, DispatcherStep,
    ServiceHandler, UpdateServiceStatus

\* The script's thread, which makes no call, starts the service and takes its messages.
LEMMA PerlStopStep ==
  ASSUME TypeInv, Born, Quiet, OneStop, UNCHANGED calls, [Next]_vars,
         ~(Dispatcher \/ ServiceControlManager \/ Main)
  PROVE  OneStop'
<1> USE DEF TypeInv, ThreadType, ReturnsHome, OneStop, Silent, Placed, Sourced, Ended, Early,
        Late, Unregistered, Stopping, Forcing, LastReport
<1>1. CASE UNCHANGED vars BY <1>1 DEF vars
<1>2. CASE StartService
  <2>1. pc["dispatcher"] = "unborn" /\ pc["main"] = "unborn" BY <1>2 DEF StartService, Born
  <2> QED BY <1>2, <2>1 DEF StartService
<1>3. CASE PerlLoop
  <2>1. CASE EnterCallbackMode BY <2>1 DEF EnterCallbackMode, Goto
  <2>2. CASE LoopMessage BY <2>2 DEF LoopMessage, Dispatch, Goto
  <2>3. CASE LoopTimer BY <2>3 DEF LoopTimer, Dispatch, Goto
  <2>4. CASE CallbackReturn BY <2>4 DEF CallbackReturn, Goto
  <2>5. CASE CallbackDone BY <2>5 DEF CallbackDone, Goto
  <2>6. CASE LoopExit BY <2>6 DEF LoopExit, Goto
  <2> QED BY <1>3, <2>1, <2>2, <2>3, <2>4, <2>5, <2>6 DEF PerlLoop
<1>4. ASSUME PerlCall \/ PerlStop \/ PerlUpdate PROVE FALSE
  <2>1. calls \in Nat BY ScriptAssumption DEF ScriptType, PerlType
  <2>2. ~PerlCall
    BY <2>1 DEF PerlCall, CallbackReturnState, State, LastControlMessage, SetServiceBits,
        CallbackTimer, StopService, Calling
  <2>3. ~PerlStop BY DEF PerlStop, StopPost, StopCheck, StopGrace, StopMode
  <2>4. ~PerlUpdate
    BY DEF PerlUpdate, UpdateServiceStatus, UpdateState, UpdateKill, KillCall, KillClear,
        UpdateError, UpdateReport
  <2> QED BY <1>4, <2>2, <2>3, <2>4
<1> QED BY <1>1, <1>2, <1>3, <1>4 DEF Next

\* Whatever one control, at any moment, has left behind, the state is STOPPED when the
\* dispatcher thread has ended, and stays so.
THEOREM StoppedIsKept == Spec => []StoppedStays
<1>1. Init => TypeInv /\ Born /\ StopInv
  <2> SUFFICES ASSUME Init PROVE TypeInv /\ Born /\ StopInv OBVIOUS
  <2>1. /\ pc["dispatcher"] = "unborn" /\ pc["main"] = "unborn" /\ pc["perl"] = "script"
        /\ mainQueue = <<>> /\ ghService = FALSE /\ sent = 0
    BY DEF Init, ServiceInit
  <2>2. /\ gdwTimeoutState = "START_PENDING" /\ scmState = "START_PENDING"
        /\ scmError = "NONE" /\ gdwState = "NOT_READY"
    BY DEF Init, ServiceInit
  <2>3. mainQueue \in Seq({"SET_TIMER"}) BY <2>1
  <2>4. OneStop
    BY <2>1, <2>2, <2>3
    DEF OneStop, Silent, Placed, Sourced, Ended, Early, Late, Unregistered, Stopping, Forcing,
        LastReport
  <2> QED BY <2>4, InitType DEF Init, ServiceInit, Born, StopInv
<1>2. TypeInv /\ Born /\ StopInv /\ [Next]_vars => (TypeInv /\ Born /\ StopInv)'
  BY NextType, BornStep, QuietBefore, ServiceStopStep, PerlStopStep DEF StopInv
<1>3. StopInv => StoppedStays
  BY DEF StopInv, OneStop, Ended, LastReport, StoppedStays, Quiet
<1> QED BY <1>1, <1>2, <1>3, PTL DEF Spec

=============================================================================
