--------------------------- MODULE ServiceThread ---------------------------
(***************************************************************************)
(* src/Win32-Daemon/ServiceThread.cpp: the two threads the Service Control *)
(* Manager (SCM) drives, and the routines they share with the Perl thread. *)
(*                                                                         *)
(*   "dispatcher"  ServiceThread(): sits in StartServiceCtrlDispatcher and *)
(*                 runs ServiceHandler for every control the SCM sends.    *)
(*   "main"        ServiceMain(): registers the handler, then runs the     *)
(*                 message loop that owns the command timeout timer.       *)
(*   "perl"        the thread of the script (module Daemon); it runs       *)
(*                 UpdateServiceStatus too.                                *)
(*                                                                         *)
(* The globals of Daemon.h are shared by the three threads without a lock. *)
(* A step of this module is one access to them or one call to Windows, so  *)
(* the threads interleave between any two accesses.                        *)
(***************************************************************************)
EXTENDS Naturals, Sequences, FiniteSets

CONSTANTS
  Controls,         \* the controls the SCM sends in this instance
  MaxControls,      \* bound: how many controls the SCM sends
  TimerIds,         \* identifiers of window-less timers
  NoTimer,          \* ghTimer when it is 0
  CrossThreadKill   \* does ::KillTimer(NULL, id) work on another thread's timer?

Threads == {"dispatcher", "main", "perl"}

Pending == {"START_PENDING", "PAUSE_PENDING", "CONTINUE_PENDING", "STOP_PENDING"}
Settled == {"RUNNING", "PAUSED", "STOPPED"}
States  == {"NOT_READY"} \cup Pending \cup Settled

(***************************************************************************)
(* Every control that carries no state (INTERROGATE, SHUTDOWN, PARAMCHANGE,*)
(* NETBIND..., PRESHUTDOWN, user defined codes) takes the same path through*)
(* the switch; INTERROGATE stands for them.  START is the extension's own  *)
(* control: the SCM never sends it.                                        *)
(***************************************************************************)
ScmControls   == {"STOP", "PAUSE", "CONTINUE", "INTERROGATE"}
TimedControls == {"START", "STOP", "PAUSE", "CONTINUE"}
Errors        == {"NO_ERROR", "FAILED"}

ASSUME ControlsAssumption == Controls \subseteq ScmControls
ASSUME BoundAssumption    == MaxControls \in Nat
ASSUME TimerAssumption    == NoTimer \notin TimerIds
ASSUME KillAssumption     == CrossThreadKill \in BOOLEAN

VARIABLES
  \* globals of Daemon.h
  gdwState, gdwTimeoutState, gdwLastControlMessage, gfCallbackMode,
  gdwServiceErrorState, ghTimer, ghService, gServiceMainThreadID,
  gdwServiceBits,
  \* Windows: what the SCM was told, the armed timers, the message queues
  scmState, scmBits, timers, mainQueue, perlQueue,
  scmError,  \* the error of the last report; "NONE" before the first one
  \* the threads: next label, and the locals of the routine they are in
  pc,     \* thread -> label
  arg,    \* dwState: the state a routine is about to report
  err,    \* dwError of UpdateServiceStatus; "LAST" is 0xFFFFFFFF
  ctl,    \* dwControl of ServiceHandler, or the event of a callback
  ret,    \* where UpdateServiceStatus returns to
  sent,   \* number of controls sent (bound)
  \* history, read by the properties only
  unreported,  \* gdwState was stored without, or across, a report to the SCM
  answered     \* the script has answered the last timed control

statusVars == <<gdwState, scmState, unreported, answered>>
errorVars  == <<gdwServiceErrorState, scmError>>
timerVars  == <<ghTimer, timers>>
queueVars  == <<mainQueue, perlQueue>>
commandVars == <<gdwTimeoutState, gdwLastControlMessage>>
setupVars  == <<ghService, gServiceMainThreadID, gdwServiceBits, scmBits>>
threadVars == <<pc, arg, err, ctl, ret>>
serviceVars == <<statusVars, errorVars, timerVars, queueVars, commandVars,
                 setupVars, threadVars, gfCallbackMode, sent>>

Goto(t, label) == pc' = [pc EXCEPT ![t] = label]

(***************************************************************************)
(* DLL_PROCESS_ATTACH.  Only the Perl thread exists.                       *)
(***************************************************************************)
ServiceInit ==
  /\ gdwState = "NOT_READY"
  /\ gdwTimeoutState = "START_PENDING"
  /\ gdwLastControlMessage = "NONE"
  /\ gfCallbackMode = FALSE
  /\ gdwServiceErrorState = "NO_ERROR"
  /\ ghTimer = NoTimer
  /\ ghService = FALSE
  /\ gServiceMainThreadID = FALSE
  /\ gdwServiceBits = FALSE
  /\ scmState = "START_PENDING" /\ scmError = "NONE" /\ scmBits = FALSE
  /\ timers = {}
  /\ mainQueue = <<>> /\ perlQueue = <<>>
  /\ pc = [t \in Threads |-> IF t = "perl" THEN "script" ELSE "unborn"]
  /\ arg = [t \in Threads |-> "NOT_READY"]
  /\ err = [t \in Threads |-> "LAST"]
  /\ ctl = [t \in Threads |-> "NONE"]
  /\ ret = [t \in Threads |-> "none"]
  /\ sent = 0
  /\ unreported = FALSE
  /\ answered = FALSE

-----------------------------------------------------------------------------
(***************************************************************************)
(* UpdateServiceStatus( dwState, , dwError )                               *)
(***************************************************************************)

\* The thread has stored gdwState and has not reported it yet.
Reporting == {"upd_kill", "upd_clear", "upd_error", "upd_report"}
InFlight(t) ==
  \/ pc[t] \in Reporting
  \/ pc[t] = "t_call"
  \/ pc[t] = "upd_state" /\ t = "main" /\ ret[t] \in {"t_dispatch", "loop"}

\* Storing gdwState while another thread is between its store and its report.
StoreState(t, state) ==
  /\ gdwState' = state
  /\ unreported' = (unreported \/ \E u \in Threads \ {t} : InFlight(u))

CallUpdate(t, state, error, label) ==
  /\ arg' = [arg EXCEPT ![t] = state]
  /\ err' = [err EXCEPT ![t] = error]
  /\ ret' = [ret EXCEPT ![t] = label]
  /\ Goto(t, "upd_state")

UpdateState(t) ==
  /\ pc[t] = "upd_state"
  /\ StoreState(t, arg[t])
  /\ Goto(t, "upd_kill")
  /\ UNCHANGED <<scmState, answered, errorVars, timerVars, queueVars, commandVars,
                 setupVars, arg, err, ctl, ret, gfCallbackMode, sent>>

(***************************************************************************)
(* KillTimer(): test ghTimer and call ::KillTimer (one step), then clear   *)
(* ghTimer (another).  Windows timers without a window belong to the thread*)
(* that set them, here "main".                                             *)
(***************************************************************************)
KillCall(t, from, clear, skip) ==
  /\ pc[t] = from
  /\ Goto(t, IF ghTimer # NoTimer THEN clear ELSE skip)
  /\ timers' = IF t = "main" \/ CrossThreadKill THEN timers \ {ghTimer} ELSE timers
  /\ UNCHANGED <<statusVars, errorVars, ghTimer, queueVars, commandVars, setupVars,
                 arg, err, ctl, ret, gfCallbackMode, sent>>

\* Mutant of KillClear: ghTimer keeps the timer that is gone.
KillForgotten(t, from, to) ==
  /\ pc[t] = from
  /\ Goto(t, to)
  /\ UNCHANGED <<statusVars, errorVars, timerVars, queueVars, commandVars, setupVars,
                 arg, err, ctl, ret, gfCallbackMode, sent>>

KillClear(t, from, to) ==
  /\ pc[t] = from
  /\ Goto(t, to)
  /\ ghTimer' = NoTimer
  /\ UNCHANGED <<statusVars, errorVars, timers, queueVars, commandVars, setupVars,
                 arg, err, ctl, ret, gfCallbackMode, sent>>

UpdateKill(t) ==
  \/ KillCall(t, "upd_kill", "upd_clear", "upd_error")
  \/ KillClear(t, "upd_clear", "upd_error")

\* Mutant of UpdateError: no test for 0xFFFFFFFF.
ErrorUntested(t) ==
  /\ pc[t] = "upd_error"
  /\ Goto(t, "upd_report")
  /\ gdwServiceErrorState' = err[t]
  /\ UNCHANGED <<statusVars, scmError, timerVars, queueVars, commandVars, setupVars,
                 arg, err, ctl, ret, gfCallbackMode, sent>>

UpdateError(t) ==
  /\ pc[t] = "upd_error"
  /\ Goto(t, "upd_report")
  /\ IF err[t] = "LAST"
       THEN err' = [err EXCEPT ![t] = gdwServiceErrorState] /\ UNCHANGED gdwServiceErrorState
       ELSE gdwServiceErrorState' = err[t] /\ UNCHANGED err
  /\ UNCHANGED <<statusVars, scmError, timerVars, queueVars, commandVars, setupVars,
                 arg, ctl, ret, gfCallbackMode, sent>>

\* Mutant of UpdateReport: an early return on NO_ERROR.
ReportErrorsOnly(t) ==
  /\ pc[t] = "upd_report"
  /\ Goto(t, ret[t])
  /\ IF ghService /\ err[t] = "FAILED"
       THEN scmState' = arg[t] /\ scmError' = err[t]
       ELSE UNCHANGED <<scmState, scmError>>
  /\ unreported' = (unreported \/ ~ghService)
  /\ answered' = (answered \/ t = "perl")
  /\ arg' = [arg EXCEPT ![t] = "NOT_READY"]
  /\ err' = [err EXCEPT ![t] = "LAST"]
  /\ UNCHANGED <<gdwState, gdwServiceErrorState, timerVars, queueVars, commandVars,
                 setupVars, ctl, ret, gfCallbackMode, sent>>

\* SetServiceStatus fails, without a trace, while ghService is 0.
UpdateReport(t) ==
  /\ pc[t] = "upd_report"
  /\ Goto(t, ret[t])
  /\ IF ghService
       THEN scmState' = arg[t] /\ scmError' = err[t]
       ELSE UNCHANGED <<scmState, scmError>>
  /\ unreported' = (unreported \/ ~ghService)
  /\ answered' = (answered \/ t = "perl")
  /\ arg' = [arg EXCEPT ![t] = "NOT_READY"]
  /\ err' = [err EXCEPT ![t] = "LAST"]
  /\ UNCHANGED <<gdwState, gdwServiceErrorState, timerVars, queueVars, commandVars,
                 setupVars, ctl, ret, gfCallbackMode, sent>>

UpdateServiceStatus(t) ==
  UpdateState(t) \/ UpdateKill(t) \/ UpdateError(t) \/ UpdateReport(t)

-----------------------------------------------------------------------------
(***************************************************************************)
(* ServiceHandler( dwControl ), run by the dispatcher for the SCM and once *)
(* by ServiceMain itself for the fake START.                               *)
(***************************************************************************)

\* Line 196: dwState is a copy of gdwState made at entry.
EnterHandler(t, control) ==
  /\ ctl' = [ctl EXCEPT ![t] = control]
  /\ arg' = [arg EXCEPT ![t] = gdwState]
  /\ Goto(t, "h_switch")

\* The second reads of gdwState, lines 228 and 241, decide PAUSE and CONTINUE.  Line
\* 262 stores INTERROGATE itself, but not the controls it stands for, a first time.
HandlerSwitch(t) ==
  /\ pc[t] = "h_switch"
  /\ Goto(t, "h_last")
  /\ answered' = (answered /\ ctl[t] \notin TimedControls)
  /\ \/ /\ ctl[t] = "START"
        /\ arg' = [arg EXCEPT ![t] = "START_PENDING"]
        /\ gdwTimeoutState' = "RUNNING"
     \/ /\ ctl[t] = "STOP"
        /\ arg' = [arg EXCEPT ![t] = "STOP_PENDING"]
        /\ gdwTimeoutState' = "STOPPED"
     \/ /\ ctl[t] = "PAUSE"
        /\ arg' = [arg EXCEPT ![t] = IF gdwState # "PAUSED" THEN "PAUSE_PENDING" ELSE @]
        /\ gdwTimeoutState' = "PAUSED"
     \/ /\ ctl[t] = "CONTINUE"
        /\ arg' = [arg EXCEPT ![t] = IF gdwState = "PAUSED" THEN "CONTINUE_PENDING" ELSE @]
        /\ gdwTimeoutState' = "RUNNING"
     \/ /\ ctl[t] \notin TimedControls
        /\ UNCHANGED <<arg, gdwTimeoutState>>
  /\ \/ UNCHANGED gdwLastControlMessage
     \/ ctl[t] = "INTERROGATE" /\ gdwLastControlMessage' = ctl[t]
  /\ UNCHANGED <<gdwState, scmState, unreported, errorVars, timerVars, queueVars,
                 setupVars, err, ctl, ret, gfCallbackMode, sent>>

HandlerLast(t) ==
  /\ pc[t] = "h_last"
  /\ gdwLastControlMessage' = ctl[t]
  /\ IF ctl[t] \in TimedControls
       THEN Goto(t, "h_kill") /\ UNCHANGED <<arg, err, ret>>
       ELSE CallUpdate(t, arg[t], "LAST", "h_notify")
  /\ UNCHANGED <<statusVars, errorVars, timerVars, queueVars, gdwTimeoutState, setupVars,
                 ctl, gfCallbackMode, sent>>

\* PostThreadMessage to ServiceMain's thread: it needs the thread id, and the
\* thread's queue, which its own first post creates and which dies with it.
MainReachable ==
  /\ gServiceMainThreadID
  /\ pc["main"] \notin {"m_entry", "m_kill", "m_clear", "m_post", "done"}
PostToMain(message) ==
  mainQueue' = IF MainReachable THEN Append(mainQueue, message) ELSE mainQueue

\* SetTimeoutTimer: KillTimer(), then ask ServiceMain's thread for the timer.
SetTimeoutTimer(t) ==
  \/ KillCall(t, "h_kill", "h_clear", "h_post")
  \/ KillClear(t, "h_clear", "h_post")
  \/ /\ pc[t] = "h_post"
     /\ PostToMain("SET_TIMER")
     /\ CallUpdate(t, arg[t], "LAST", "h_notify")
     /\ UNCHANGED <<statusVars, errorVars, timerVars, perlQueue, commandVars, setupVars,
                    ctl, gfCallbackMode, sent>>

\* Mutant of HandlerNotify: the state is posted instead of the control.
NotifyState(t) ==
  /\ pc[t] = "h_notify"
  /\ perlQueue' = IF gfCallbackMode THEN Append(perlQueue, gdwState) ELSE perlQueue
  /\ ctl' = [ctl EXCEPT ![t] = "NONE"]
  /\ Goto(t, IF t = "main" THEN "m_bits" ELSE "dispatch")
  /\ UNCHANGED <<statusVars, errorVars, timerVars, mainQueue, commandVars, setupVars,
                 arg, err, ret, gfCallbackMode, sent>>

\* In callback mode the control goes to the Perl thread's queue.
HandlerNotify(t) ==
  /\ pc[t] = "h_notify"
  /\ perlQueue' = IF gfCallbackMode THEN Append(perlQueue, ctl[t]) ELSE perlQueue
  /\ ctl' = [ctl EXCEPT ![t] = "NONE"]
  /\ Goto(t, IF t = "main" THEN "m_bits" ELSE "dispatch")
  /\ UNCHANGED <<statusVars, errorVars, timerVars, mainQueue, commandVars, setupVars,
                 arg, err, ret, gfCallbackMode, sent>>

ServiceHandler(t) ==
  HandlerSwitch(t) \/ HandlerLast(t) \/ SetTimeoutTimer(t) \/ HandlerNotify(t)

-----------------------------------------------------------------------------
(***************************************************************************)
(* ServiceThread(): the dispatcher.  StartServiceCtrlDispatcher fails at   *)
(* once when the process was not started by the SCM, else the SCM starts   *)
(* ServiceMain on a thread of its own and sends controls one at a time,    *)
(* until the service has reported SERVICE_STOPPED.                         *)
(***************************************************************************)
DispatcherConnect ==
  /\ pc["dispatcher"] = "connect"
  /\ \/ /\ pc' = [pc EXCEPT !["dispatcher"] = "dispatch", !["main"] = "m_entry"]
        /\ UNCHANGED <<arg, err, ret>>
     \/ CallUpdate("dispatcher", "STOPPED", "LAST", "done")
  /\ UNCHANGED <<statusVars, errorVars, timerVars, queueVars, commandVars, setupVars,
                 ctl, gfCallbackMode, sent>>

\* The SCM refuses a control the reported state does not admit, and STOP until a
\* report has told it that the service accepts controls.
Deliverable(control) ==
  \/ scmState \in {"RUNNING", "PAUSED", "PAUSE_PENDING", "CONTINUE_PENDING"}
  \/ scmState = "START_PENDING" /\ scmError # "NONE" /\ control = "STOP"

DispatcherControl(control) ==
  /\ pc["dispatcher"] = "dispatch"
  /\ sent < MaxControls
  /\ ghService
  /\ Deliverable(control)
  /\ sent' = sent + 1
  /\ EnterHandler("dispatcher", control)
  /\ UNCHANGED <<statusVars, errorVars, timerVars, queueVars, commandVars, setupVars,
                 err, ret, gfCallbackMode>>

\* Mutant of DispatcherReturn: no last report.
ReturnSilently ==
  /\ pc["dispatcher"] = "dispatch"
  /\ scmState = "STOPPED"
  /\ Goto("dispatcher", "done")
  /\ UNCHANGED <<statusVars, errorVars, timerVars, queueVars, commandVars, setupVars,
                 arg, err, ctl, ret, gfCallbackMode, sent>>

\* Line 486: the thread's last report once StartServiceCtrlDispatcher returns.
DispatcherReturn ==
  /\ pc["dispatcher"] = "dispatch"
  /\ scmState = "STOPPED"
  /\ CallUpdate("dispatcher", "STOPPED", "LAST", "done")
  /\ UNCHANGED <<statusVars, errorVars, timerVars, queueVars, commandVars, setupVars,
                 ctl, gfCallbackMode, sent>>

-----------------------------------------------------------------------------
(***************************************************************************)
(* ServiceMain()                                                           *)
(***************************************************************************)

\* Lines 66-73: publish the thread id, then SetTimeoutTimer( 10 ).
MainEntry ==
  /\ pc["main"] = "m_entry"
  /\ gServiceMainThreadID' = TRUE
  /\ Goto("main", "m_kill")
  /\ UNCHANGED <<statusVars, errorVars, timerVars, queueVars, commandVars, ghService,
                 gdwServiceBits, scmBits, arg, err, ctl, ret, gfCallbackMode, sent>>

MainSetTimer ==
  \/ KillCall("main", "m_kill", "m_clear", "m_post")
  \/ KillClear("main", "m_clear", "m_post")
  \/ /\ pc["main"] = "m_post"
     /\ mainQueue' = Append(mainQueue, "SET_TIMER")
     /\ Goto("main", "m_register")
     /\ UNCHANGED <<statusVars, errorVars, timerVars, perlQueue, commandVars, setupVars,
                    arg, err, ctl, ret, gfCallbackMode, sent>>

\* RegisterServiceCtrlHandler; when it fails the state is stored, not reported.
MainRegister ==
  /\ pc["main"] = "m_register"
  /\ \/ /\ ghService' = TRUE
        /\ Goto("main", "m_first")
        /\ UNCHANGED <<gdwState, unreported>>
     \/ /\ gdwState' = "STOPPED"
        /\ unreported' = TRUE
        /\ Goto("main", "m_exit")
        /\ UNCHANGED ghService
  /\ UNCHANGED <<scmState, answered, errorVars, timerVars, queueVars, commandVars,
                 gServiceMainThreadID, gdwServiceBits, scmBits, arg, err, ctl, ret,
                 gfCallbackMode, sent>>

\* Lines 84-86: the state becomes START_PENDING if nobody has set it yet.  The
\* SCM is not told: a service starts out START_PENDING there.
MainFirst ==
  /\ pc["main"] = "m_first"
  /\ Goto("main", IF gdwState = "NOT_READY" THEN "m_pending" ELSE "m_bits")
  /\ UNCHANGED <<statusVars, errorVars, timerVars, queueVars, commandVars, setupVars,
                 arg, err, ctl, ret, gfCallbackMode, sent>>

MainPending ==
  /\ pc["main"] = "m_pending"
  /\ gdwState' = "START_PENDING"
  /\ unreported' = (unreported \/ scmState # "START_PENDING"
                      \/ \E u \in Threads \ {"main"} : InFlight(u))
  /\ Goto("main", "m_mode")
  /\ UNCHANGED <<scmState, answered, errorVars, timerVars, queueVars, commandVars,
                 setupVars, arg, err, ctl, ret, gfCallbackMode, sent>>

\* Lines 93-99: the fake START, only if callback mode is already on.
MainMode ==
  /\ pc["main"] = "m_mode"
  /\ IF gfCallbackMode
       THEN EnterHandler("main", "START")
       ELSE Goto("main", "m_bits") /\ UNCHANGED <<arg, ctl>>
  /\ UNCHANGED <<statusVars, errorVars, timerVars, queueVars, commandVars, setupVars,
                 err, ret, gfCallbackMode, sent>>

MainBits ==
  /\ pc["main"] = "m_bits"
  /\ scmBits' = (scmBits \/ gdwServiceBits)
  /\ Goto("main", "loop")
  /\ UNCHANGED <<statusVars, errorVars, timerVars, queueVars, commandVars, ghService,
                 gServiceMainThreadID, gdwServiceBits, arg, err, ctl, ret,
                 gfCallbackMode, sent>>

\* WM_USER_SET_TIMER: SetTimer( NULL, ... ) makes a new timer each time.
MainArm ==
  /\ pc["main"] = "loop"
  /\ mainQueue # <<>> /\ Head(mainQueue) = "SET_TIMER"
  /\ mainQueue' = Tail(mainQueue)
  /\ \/ \E id \in TimerIds \ timers : ghTimer' = id /\ timers' = timers \cup {id}
     \/ TimerIds \subseteq timers /\ ghTimer' = NoTimer /\ UNCHANGED timers
  /\ UNCHANGED <<statusVars, errorVars, perlQueue, commandVars, setupVars, threadVars,
                 gfCallbackMode, sent>>

\* WM_QUIT ends the loop; line 175 reports gdwState as it is then.
MainQuit ==
  /\ pc["main"] = "loop"
  /\ mainQueue # <<>> /\ Head(mainQueue) = "QUIT"
  /\ mainQueue' = Tail(mainQueue)
  /\ CallUpdate("main", gdwState, "LAST", "m_exit")
  /\ UNCHANGED <<statusVars, errorVars, timerVars, perlQueue, commandVars, setupVars,
                 ctl, gfCallbackMode, sent>>

\* WM_TIMER is retrieved only when no message is posted; the timer is periodic,
\* it stays armed until it is killed.
MainTimer ==
  /\ pc["main"] = "loop"
  /\ mainQueue = <<>> /\ timers # {}
  /\ ret' = [ret EXCEPT !["main"] = "t_dispatch"]
  /\ Goto("main", "t_kill")
  /\ UNCHANGED <<statusVars, errorVars, timerVars, queueVars, commandVars, setupVars,
                 arg, err, ctl, gfCallbackMode, sent>>

\* Lines 159-161 and TimerHandler, lines 395-397: force the state.
TimeoutKill ==
  \/ KillCall("main", "t_kill", "t_clear", "t_force")
  \/ KillClear("main", "t_clear", "t_force")

TimeoutForce ==
  /\ pc["main"] = "t_force"
  /\ StoreState("main", gdwTimeoutState)
  /\ Goto("main", "t_call")
  /\ UNCHANGED <<scmState, answered, errorVars, timerVars, queueVars, commandVars,
                 setupVars, arg, err, ctl, ret, gfCallbackMode, sent>>

\* Mutant of TimeoutCall: TimerHandler stores the state and does not report it.
TimeoutUnreported ==
  /\ pc["main"] = "t_call"
  /\ Goto("main", ret["main"])
  /\ UNCHANGED <<statusVars, errorVars, timerVars, queueVars, commandVars, setupVars,
                 arg, err, ctl, ret, gfCallbackMode, sent>>

TimeoutCall ==
  /\ pc["main"] = "t_call"
  /\ CallUpdate("main", gdwTimeoutState, "LAST", ret["main"])
  /\ UNCHANGED <<statusVars, errorVars, timerVars, queueVars, commandVars, setupVars,
                 ctl, gfCallbackMode, sent>>

\* The case falls through to DispatchMessage, which calls TimerHandler (the
\* same steps again) unless Windows finds no timer with that procedure left.
TimeoutDispatch ==
  /\ pc["main"] = "t_dispatch"
  /\ ret' = [ret EXCEPT !["main"] = "loop"]
  /\ \/ Goto("main", "t_kill")
     \/ Goto("main", "loop")
  /\ UNCHANGED <<statusVars, errorVars, timerVars, queueVars, commandVars, setupVars,
                 arg, err, ctl, gfCallbackMode, sent>>

\* The thread ends: its queue and its timers go with it.
MainExit ==
  /\ pc["main"] = "m_exit"
  /\ Goto("main", "done")
  /\ timers' = {}
  /\ mainQueue' = <<>>
  /\ UNCHANGED <<statusVars, errorVars, ghTimer, perlQueue, commandVars, setupVars,
                 arg, err, ctl, ret, gfCallbackMode, sent>>

MainStep ==
  \/ MainEntry \/ MainSetTimer \/ MainRegister \/ MainFirst \/ MainPending
  \/ MainMode \/ MainBits \/ MainArm \/ MainQuit \/ MainTimer
  \/ TimeoutKill \/ TimeoutForce \/ TimeoutCall \/ TimeoutDispatch \/ MainExit
  \/ ServiceHandler("main") \/ UpdateServiceStatus("main")

DispatcherStep ==
  \/ DispatcherConnect \/ DispatcherReturn
  \/ ServiceHandler("dispatcher") \/ UpdateServiceStatus("dispatcher")

=============================================================================
