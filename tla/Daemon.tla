------------------------------- MODULE Daemon -------------------------------
(***************************************************************************)
(* Win32::Daemon: the Perl thread (the XS functions of Daemon.xs a script  *)
(* calls, and the callback loop of StartService) composed with the two     *)
(* threads of module ServiceThread.                                        *)
(*                                                                         *)
(* The script is the environment: at "script" (its own code) and at        *)
(* "callback" (a callback routine) it calls any function of Calls, at most *)
(* MaxCalls times in all, and its callbacks return when they like.         *)
(***************************************************************************)
EXTENDS ServiceThread

CONSTANTS
  Registered,   \* the events RegisterCallbacks has set a routine for
  Calls,        \* the functions the script calls in this instance
  NewStates,    \* the states it passes to State() or returns from a callback
  MaxCalls,     \* bound: number of such calls
  MaxPosts      \* dwPostCount: 5 in StopService

Events == ScmControls \cup {"START", "TIMER"}
Functions == {"State", "Error", "StopService", "LastControlMessage", "SetServiceBits",
              "CallbackTimer", "Return"}

ASSUME ScriptAssumption ==
  /\ Registered \subseteq Events
  /\ Calls \subseteq Functions
  /\ NewStates \subseteq States
  /\ MaxCalls \in Nat
  /\ MaxPosts \in Nat

VARIABLES
  ghServiceThread,  \* the service thread has been created
  inLoop,           \* the Perl thread is inside StartService's message loop
  timerValue,       \* gCallbackTimer's value is positive
  heartbeat,        \* gCallbackTimer is running
  fCallbackState,   \* DispatchThreadMessage's copy of that
  posts,            \* dwPostCount
  last,             \* what LastControlMessage returned
  calls             \* number of script calls made (bound)

heartbeatVars == <<timerValue, heartbeat, fCallbackState>>
perlVars == <<ghServiceThread, inLoop, heartbeatVars, posts, last, calls>>
vars == <<serviceVars, perlVars>>

Init ==
  /\ ServiceInit
  /\ ghServiceThread = FALSE
  /\ inLoop = FALSE
  /\ timerValue = TRUE /\ heartbeat = FALSE /\ fCallbackState = FALSE
  /\ posts = 0
  /\ last = "NONE"
  /\ calls = 0

\* 0 < gCallback.GetCount(), for a list RegisterCallbacks has filled once.
CallbacksRegistered == Registered # {}

\* Where script code runs: its own, or a callback of the loop.
Home == IF inLoop THEN "callback" ELSE "script"

Calling(function) ==
  /\ pc["perl"] = Home
  /\ function \in Calls
  /\ calls < MaxCalls
  /\ calls' = calls + 1

-----------------------------------------------------------------------------
(***************************************************************************)
(* StartService( [ \%Context, $CallbackTimer ] )                           *)
(* The service thread is created before callback mode is entered.          *)
(***************************************************************************)
StartService ==
  /\ pc["perl"] = "script"
  /\ ~ghServiceThread
  /\ ghServiceThread' = TRUE
  /\ pc' = [pc EXCEPT !["dispatcher"] = "connect",
                      !["perl"] = IF CallbacksRegistered THEN "mode" ELSE "script"]
  /\ UNCHANGED <<statusVars, errorVars, timerVars, queueVars, commandVars, setupVars,
                 arg, err, ctl, ret, gfCallbackMode, sent, inLoop, heartbeatVars, posts,
                 last, calls>>

(***************************************************************************)
(* gCallbackTimer = value; gCallbackTimer.Start(): a negative value is      *)
(* ignored, a timer that runs is restarted with the new value, and one that*)
(* does not is started if the value is positive.                           *)
(***************************************************************************)
TimerArguments == {"positive", "zero", "negative"}
SetCallbackTimer(argument) ==
  /\ timerValue' = IF argument = "negative" THEN timerValue ELSE argument = "positive"
  /\ heartbeat' = timerValue'

\* The value is StartService's argument, 5000 by default.
EnterCallbackMode ==
  /\ pc["perl"] = "mode"
  /\ gfCallbackMode' = TRUE
  /\ inLoop' = TRUE
  /\ \E argument \in TimerArguments : SetCallbackTimer(argument)
  /\ Goto("perl", "loop")
  /\ UNCHANGED <<statusVars, errorVars, timerVars, queueVars, commandVars, setupVars,
                 arg, err, ctl, ret, sent, ghServiceThread, fCallbackState, posts,
                 last, calls>>

\* Mutant of Dispatch: the state of the heartbeat is read after Stop().
DispatchStopped(event) ==
  /\ fCallbackState' = FALSE
  /\ heartbeat' = FALSE
  /\ ctl' = [ctl EXCEPT !["perl"] = event]
  /\ Goto("perl", IF event \in Registered THEN "callback" ELSE "cb_done")

\* DispatchThreadMessage: the heartbeat is stopped while the event is processed;
\* an event without a routine is over at once (ProcessStateChange returns FALSE).
Dispatch(event) ==
  /\ fCallbackState' = heartbeat
  /\ heartbeat' = FALSE
  /\ ctl' = [ctl EXCEPT !["perl"] = event]
  /\ Goto("perl", IF event \in Registered THEN "callback" ELSE "cb_done")

LoopMessage ==
  /\ pc["perl"] = "loop" /\ gfCallbackMode
  /\ perlQueue # <<>>
  /\ perlQueue' = Tail(perlQueue)
  /\ Dispatch(Head(perlQueue))
  /\ UNCHANGED <<statusVars, errorVars, timerVars, mainQueue, commandVars, setupVars,
                 arg, err, ret, gfCallbackMode, sent, ghServiceThread, inLoop, timerValue,
                 posts, last, calls>>

LoopTimer ==
  /\ pc["perl"] = "loop" /\ gfCallbackMode
  /\ perlQueue = <<>> /\ heartbeat
  /\ Dispatch("TIMER")
  /\ UNCHANGED <<statusVars, errorVars, timerVars, queueVars, commandVars, setupVars,
                 arg, err, ret, gfCallbackMode, sent, ghServiceThread, inLoop, timerValue,
                 posts, last, calls>>

\* The callback returns no integer.
CallbackReturn ==
  /\ pc["perl"] = "callback"
  /\ Goto("perl", "cb_done")
  /\ UNCHANGED <<statusVars, errorVars, timerVars, queueVars, commandVars, setupVars,
                 arg, err, ctl, ret, gfCallbackMode, sent, perlVars>>

\* CallPerlRoutine: an integer return value is the new state.
CallbackReturnState ==
  /\ inLoop /\ Calling("Return")
  /\ \E state \in NewStates : CallUpdate("perl", state, "LAST", "cb_done")
  /\ UNCHANGED <<statusVars, errorVars, timerVars, queueVars, commandVars, setupVars,
                 ctl, gfCallbackMode, sent, ghServiceThread, inLoop, heartbeatVars, posts,
                 last>>

CallbackDone ==
  /\ pc["perl"] = "cb_done"
  /\ Goto("perl", "loop")
  /\ ctl' = [ctl EXCEPT !["perl"] = "NONE"]
  /\ heartbeat' = (heartbeat \/ (fCallbackState /\ timerValue))
  /\ fCallbackState' = FALSE
  /\ UNCHANGED <<statusVars, errorVars, timerVars, queueVars, commandVars, setupVars,
                 arg, err, ret, gfCallbackMode, sent, ghServiceThread, inLoop, timerValue,
                 posts, last, calls>>

LoopExit ==
  /\ pc["perl"] = "loop" /\ ~gfCallbackMode
  /\ Goto("perl", "script")
  /\ inLoop' = FALSE
  /\ heartbeat' = FALSE
  /\ UNCHANGED <<statusVars, errorVars, timerVars, queueVars, commandVars, setupVars,
                 arg, err, ctl, ret, gfCallbackMode, sent, ghServiceThread, timerValue,
                 fCallbackState, posts, last, calls>>

-----------------------------------------------------------------------------
(***************************************************************************)
(* State( $NewState ), State( { error => ... } ) and State( { state =>     *)
(* ..., error => ... } ): nothing happens while gdwState is 0; what the    *)
(* script leaves out is the state it has and NO_ERROR.                     *)
(***************************************************************************)
State ==
  /\ gdwState # "NOT_READY"
  /\ \/ /\ Calling("State")
        /\ \E state \in NewStates : CallUpdate("perl", state, "NO_ERROR", Home)
     \/ /\ Calling("Error")
        /\ \E state \in NewStates \cup {gdwState} : CallUpdate("perl", state, "FAILED", Home)
  /\ UNCHANGED <<statusVars, errorVars, timerVars, queueVars, commandVars, setupVars,
                 ctl, gfCallbackMode, sent, ghServiceThread, inLoop, heartbeatVars, posts,
                 last>>

\* LastControlMessage( [$fResetMessage] ): the reset comes before the read.
LastControlMessage ==
  \/ /\ Calling("LastControlMessage")
     /\ \/ /\ gdwLastControlMessage' = "NONE"
           /\ Goto("perl", "lcm_read")
           /\ UNCHANGED last
        \/ /\ last' = gdwLastControlMessage
           /\ UNCHANGED <<gdwLastControlMessage, pc>>
     /\ UNCHANGED <<statusVars, errorVars, timerVars, queueVars, gdwTimeoutState, setupVars,
                    arg, err, ctl, ret, gfCallbackMode, sent, ghServiceThread, inLoop,
                    heartbeatVars, posts>>
  \/ /\ pc["perl"] = "lcm_read"
     /\ last' = gdwLastControlMessage
     /\ Goto("perl", Home)
     /\ UNCHANGED <<statusVars, errorVars, timerVars, queueVars, commandVars, setupVars,
                    arg, err, ctl, ret, gfCallbackMode, sent, ghServiceThread, inLoop,
                    heartbeatVars, posts, calls>>

\* SetServiceBits( $Bits ): straight to the SCM with a service handle, else kept
\* for ServiceMain.  ghService is read at entry (PREINIT).
SetServiceBits ==
  \/ /\ Calling("SetServiceBits")
     /\ IF ghService THEN scmBits' = TRUE /\ UNCHANGED pc
                     ELSE Goto("perl", "bits_store") /\ UNCHANGED scmBits
     /\ UNCHANGED <<statusVars, errorVars, timerVars, queueVars, commandVars, ghService,
                    gServiceMainThreadID, gdwServiceBits, arg, err, ctl, ret,
                    gfCallbackMode, sent, ghServiceThread, inLoop, heartbeatVars, posts,
                    last>>
  \/ /\ pc["perl"] = "bits_store"
     /\ gdwServiceBits' = TRUE
     /\ Goto("perl", Home)
     /\ UNCHANGED <<statusVars, errorVars, timerVars, queueVars, commandVars, ghService,
                    gServiceMainThreadID, scmBits, arg, err, ctl, ret, gfCallbackMode,
                    sent, perlVars>>

CallbackTimer ==
  /\ Calling("CallbackTimer")
  /\ \E argument \in TimerArguments : SetCallbackTimer(argument)
  /\ UNCHANGED <<serviceVars, ghServiceThread, inLoop, fCallbackState, posts, last>>

-----------------------------------------------------------------------------
(***************************************************************************)
(* StopService(): post WM_QUIT while posting works, at most MaxPosts times *)
(* with a Sleep between, then look at the dispatcher thread.               *)
(***************************************************************************)
DispatcherActive == pc["dispatcher"] \notin {"unborn", "done", "dead"}

StopService ==
  /\ Calling("StopService")
  /\ posts' = MaxPosts
  /\ Goto("perl", "stop_post")
  /\ UNCHANGED <<statusVars, errorVars, timerVars, queueVars, commandVars, setupVars,
                 arg, err, ctl, ret, gfCallbackMode, sent, ghServiceThread, inLoop,
                 heartbeatVars, last>>

StopPost ==
  /\ pc["perl"] = "stop_post"
  /\ \/ /\ posts > 0 /\ MainReachable
        /\ PostToMain("QUIT")
        /\ posts' = posts - 1
        /\ UNCHANGED pc
     \/ /\ posts = 0 \/ ~MainReachable
        /\ posts' = 0
        /\ Goto("perl", "stop_check")
        /\ UNCHANGED mainQueue
  /\ UNCHANGED <<statusVars, errorVars, timerVars, perlQueue, commandVars, setupVars,
                 arg, err, ctl, ret, gfCallbackMode, sent, ghServiceThread, inLoop,
                 heartbeatVars, last, calls>>

\* GetExitCodeThread fails without a service thread; an active dispatcher gets
\* STOP_PENDING and a second of grace.
StopCheck ==
  /\ pc["perl"] = "stop_check"
  /\ \/ ~ghServiceThread /\ Goto("perl", "stop_mode") /\ UNCHANGED <<arg, err, ret>>
     \/ /\ ghServiceThread /\ DispatcherActive
        /\ CallUpdate("perl", "STOP_PENDING", "LAST", "stop_grace")
     \/ /\ ghServiceThread /\ ~DispatcherActive
        /\ CallUpdate("perl", "STOPPED", "LAST", "stop_mode")
  /\ UNCHANGED <<statusVars, errorVars, timerVars, queueVars, commandVars, setupVars,
                 ctl, gfCallbackMode, sent, perlVars>>

\* TerminateThread on a dispatcher that is still active, wherever it is.
StopGrace ==
  /\ pc["perl"] = "stop_grace"
  /\ pc' = [pc EXCEPT !["perl"] = "upd_state",
                      !["dispatcher"] = IF DispatcherActive THEN "dead" ELSE @]
  /\ arg' = [arg EXCEPT !["perl"] = "STOPPED"]
  /\ err' = [err EXCEPT !["perl"] = "LAST"]
  /\ ret' = [ret EXCEPT !["perl"] = "stop_mode"]
  /\ UNCHANGED <<gdwState, scmState, answered, errorVars, timerVars, queueVars,
                 commandVars, setupVars, ctl, gfCallbackMode, sent, perlVars>>
  /\ unreported' = (unreported \/ InFlight("dispatcher"))

\* Mutant of StopMode: gfCallbackMode stays on.
StopModeOn ==
  /\ pc["perl"] = "stop_mode"
  /\ Goto("perl", Home)
  /\ UNCHANGED <<statusVars, errorVars, timerVars, queueVars, commandVars, setupVars,
                 arg, err, ctl, ret, gfCallbackMode, sent, perlVars>>

StopMode ==
  /\ pc["perl"] = "stop_mode"
  /\ gfCallbackMode' = FALSE
  /\ Goto("perl", Home)
  /\ UNCHANGED <<statusVars, errorVars, timerVars, queueVars, commandVars, setupVars,
                 arg, err, ctl, ret, sent, perlVars>>

PerlLoop ==
  \/ EnterCallbackMode \/ LoopMessage \/ LoopTimer \/ CallbackReturn \/ CallbackDone
  \/ LoopExit
PerlCall ==
  \/ CallbackReturnState \/ State \/ LastControlMessage \/ SetServiceBits
  \/ CallbackTimer \/ StopService
PerlStop == StopPost \/ StopCheck \/ StopGrace \/ StopMode
PerlUpdate == UpdateServiceStatus("perl") /\ UNCHANGED perlVars
Dispatcher == DispatcherStep /\ UNCHANGED perlVars
ServiceControlManager ==
  \E control \in Controls : DispatcherControl(control) /\ UNCHANGED perlVars
Main == MainStep /\ UNCHANGED perlVars

Next ==
  \/ StartService \/ PerlLoop \/ PerlCall \/ PerlStop \/ PerlUpdate
  \/ Dispatcher \/ ServiceControlManager \/ Main

Spec == Init /\ [][Next]_vars

(***************************************************************************)
(* Every thread keeps running and callbacks return.  Nothing is assumed of *)
(* the script's calls nor of the SCM's controls.  The second reads of      *)
(* LastControlMessage and SetServiceBits belong to calls that have begun.  *)
(***************************************************************************)
InCall == pc["perl"] \in {"lcm_read", "bits_store"}
PerlProgress ==
  \/ PerlLoop \/ PerlStop \/ PerlUpdate
  \/ InCall /\ (LastControlMessage \/ SetServiceBits)

Fairness ==
  /\ WF_vars(StartService)
  /\ WF_vars(PerlProgress)
  /\ WF_vars(Dispatcher)
  /\ WF_vars(Main)

FairSpec == Spec /\ Fairness

-----------------------------------------------------------------------------
(***************************************************************************)
(*                               Properties                                *)
(***************************************************************************)
UpdateLabels  == {"upd_state", "upd_kill", "upd_clear", "upd_error", "upd_report"}
HandlerLabels == {"h_switch", "h_last", "h_kill", "h_clear", "h_post", "h_notify"}
SetupLabels   == {"unborn", "m_entry", "m_kill", "m_clear", "m_post", "m_register",
                  "m_first", "m_pending", "m_mode", "m_bits"}
TimeoutLabels == {"t_kill", "t_clear", "t_force", "t_call", "t_dispatch"}

DispatcherLabels ==
  {"unborn", "connect", "dispatch", "done", "dead"} \cup HandlerLabels \cup UpdateLabels
MainLabels ==
  SetupLabels \cup TimeoutLabels \cup HandlerLabels \cup UpdateLabels
    \cup {"loop", "m_exit", "done"}
PerlLabels ==
  {"script", "mode", "loop", "callback", "cb_done", "lcm_read", "bits_store", "stop_post",
   "stop_check", "stop_grace", "stop_mode"} \cup UpdateLabels

Labels == DispatcherLabels \cup MainLabels \cup PerlLabels

StatusType ==
  /\ gdwState \in States /\ scmState \in States
  /\ unreported \in BOOLEAN /\ answered \in BOOLEAN
ErrorType == gdwServiceErrorState \in Errors /\ scmError \in Errors \cup {"NONE"}
TimerType == timers \subseteq TimerIds /\ ghTimer \in TimerIds \cup {NoTimer}
QueueType == mainQueue \in Seq({"SET_TIMER", "QUIT"}) /\ perlQueue \in Seq(Events)
CommandType ==
  gdwTimeoutState \in States /\ gdwLastControlMessage \in Events \cup {"NONE"}
SetupType ==
  /\ ghService \in BOOLEAN /\ gServiceMainThreadID \in BOOLEAN
  /\ gdwServiceBits \in BOOLEAN /\ scmBits \in BOOLEAN
ThreadType ==
  /\ pc \in [Threads -> Labels] /\ ret \in [Threads -> Labels \cup {"none"}]
  /\ arg \in [Threads -> States]
  /\ err \in [Threads -> Errors \cup {"LAST"}]
  /\ ctl \in [Threads -> Events \cup {"NONE"}]
  /\ pc["dispatcher"] \in DispatcherLabels
  /\ pc["main"] \in MainLabels
  /\ pc["perl"] \in PerlLabels
PerlType ==
  /\ ghServiceThread \in BOOLEAN /\ inLoop \in BOOLEAN
  /\ timerValue \in BOOLEAN /\ heartbeat \in BOOLEAN /\ fCallbackState \in BOOLEAN
  /\ posts \in 0 .. MaxPosts
  /\ last \in Events \cup {"NONE"}
  /\ calls \in 0 .. MaxCalls

\* Every variable keeps its type, and every thread stays in its own code.
TypeOK ==
  /\ StatusType /\ ErrorType /\ TimerType /\ QueueType /\ CommandType /\ SetupType
  /\ ThreadType /\ PerlType
  /\ gfCallbackMode \in BOOLEAN /\ sent \in 0 .. MaxControls

\* State() (gdwState) differs from the status the SCM holds only while a thread is
\* on its way from storing the one to reporting the other, or after a store was
\* overtaken or never reported (UpdateServiceStatus, the store at line 86, the
\* failure path at line 180, TerminateThread in StopService).
StatusExplained ==
  \/ gdwState \in {scmState, "NOT_READY"}
  \/ unreported
  \/ \E t \in Threads : InFlight(t)

\* KillTimer() never names a timer that is gone (its identifier may have been given
\* to another timer): a non-zero ghTimer is an armed timer, or a thread has killed
\* it and is about to clear ghTimer, or TerminateThread killed that thread.
ClearLabels == {"h_clear", "upd_clear", "m_clear", "t_clear"}
TimerHandleLive ==
  \/ ghTimer \in timers \cup {NoTimer}
  \/ \E t \in Threads : pc[t] \in ClearLabels
  \/ pc["dispatcher"] = "dead"

\* With a script that reports nothing and one control, the state is STOPPED for good
\* once the dispatcher thread has ended: ServiceThread's last report repairs what the
\* handler and the timeout left behind.  (Not so with a second control: CONTINUE can
\* change gdwTimeoutState before TimerHandler's second run, which then forces RUNNING.)
StoppedStays ==
  pc["dispatcher"] = "done" /\ calls = 0 /\ sent <= 1 => gdwState = "STOPPED"

\* Back in the message loop the heartbeat runs if and only if its value is positive,
\* whatever the callbacks did to it while DispatchThreadMessage had it stopped.
HeartbeatKept == inLoop /\ pc["perl"] = "loop" => (heartbeat <=> timerValue)

\* A control handled in callback mode reaches its routine, under its own name, in
\* spite of the heartbeats, or the script leaves callback mode.
ControlCalledBack ==
  \A c \in Controls \cap Registered :
    (pc["dispatcher"] = "h_notify" /\ ctl["dispatcher"] = c /\ gfCallbackMode)
      ~> (ctl["perl"] = c \/ ~gfCallbackMode)

\* The heartbeat keeps coming as long as callback mode and the timer are on.
HeartbeatBeats ==
  (inLoop /\ gfCallbackMode) ~> (ctl["perl"] = "TIMER" \/ ~gfCallbackMode \/ ~timerValue)

\* A script whose callback calls StopService gets control back from StartService.
StopReturns == (pc["perl"] = "stop_post") ~> (pc["perl"] = "script")

\* A START the script does not answer is settled by the timeout timer, unless a
\* control comes first.
StartCompletes ==
  (pc["main"] = "h_switch") ~>
    (gdwState = "RUNNING" /\ scmState = "RUNNING") \/ calls > 0 \/ sent > 0

-----------------------------------------------------------------------------
(***************************************************************************)
(* What the documentation and the comments say and the code does not do.   *)
(***************************************************************************)
\* ServiceThread.cpp:323-326: the state is changed automatically in case the script
\* does not process the request (and not when it has).
ForcedOnlyUnanswered ==
  [][pc["main"] = "loop" /\ pc'["main"] = "t_kill" => ~answered]_vars

\* Daemon.pm:477-478: a command the script does not answer is settled in the end.
StopTimesOut == (gdwState = "STOP_PENDING") ~> (gdwState = "STOPPED")

=============================================================================
