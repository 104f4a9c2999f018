# A verification project for libwin32

libwin32 is a collection of Perl extensions for Windows. Most of them wrap one
Windows call per function. A few keep state of their own between calls, share it
with threads, callbacks or processes they do not control, and live or die by the order in
which things happen. This project models those: `Win32::Daemon`, the only extension in which
three threads share globals without a lock; the objects and events of `Win32::OLE`, which run
script code in the middle of their own release; the connections of `Win32::ODBC`, a list of lists
that every thread of the process reaches; both ends of a `Win32::Pipe`; and the window station of
the daemon, where a move takes four calls and each may fail.

Paths below are relative to the repository; a file name without a directory is one of the
component the section is about.

## 1. Inventory

| Component | State it keeps | Operations | Interaction | What is hard | What must hold | Here |
|---|---|---|---|---|---|---|
| `Win32::Daemon` service threads (`ServiceThread.cpp`) | `gdwState`, `gdwTimeoutState`, `gdwLastControlMessage`, `gdwServiceErrorState`, `ghTimer`, `ghService`, `gdwServiceBits`, two message queues | `ServiceThread`, `ServiceMain`, `ServiceHandler`, `SetTimeoutTimer`, `KillTimer`, `TimerHandler`, `UpdateServiceStatus` | the Service Control Manager (SCM) calls `ServiceMain` and `ServiceHandler`; timers and thread messages; all three threads call `UpdateServiceStatus` | every access races with two other threads; a thread may be terminated anywhere | the status the script sees and the one the SCM holds agree when nothing is under way; a command is answered by the script or settled by the timeout, once | modelled |
| `Win32::Daemon` script interface (`Daemon.xs`) | `gfCallbackMode`, the callback timer, the service thread's handle | `StartService` and its message loop, `State`, `LastControlMessage`, `SetServiceBits`, `CallbackTimer`, `StopService`, callbacks | runs on the Perl thread, takes messages from `ServiceHandler` | setup order, heartbeat stopped and restarted around callbacks, shutting down a thread that is in a call | controls reach their routine, the heartbeat goes on, `StartService` returns | partly |
| callback list (`CCallbackList.cpp`) | a slot per command, a count | `RegisterCallbacks`, `Set`, `Get`, `ProcessStateChange` | Perl code references | borrowed references, an unsigned counter | the count is right, a registration has the effect that was asked for | modelled |
| callback timer (`CCallbackTimer.cpp`) | value, running or not | `=`, `Start`, `Stop`, `QueryState` | the message loop | restarted while the value changes | not running during a callback | modelled (in `Daemon`) |
| window station (`CWinStation.cpp`) | the process's and the thread's original station and desktop | `Set`, `Restore` under `ShowService`, `HideService`, `RestoreService` | the window station API | one of four calls failing half way; access control lists that only grow | success means moved; `RestoreService` brings everything home; process and thread are not parted | modelled |
| `Win32::OLE` objects and events (`OLE.xs`) | a global chain of objects, unique objects, per-object COM references, event sinks | create, release, `Initialize`, `Uninitialize`, enumerate, `WithEvents`, `EventSink` | COM calls back into Perl; a destructor runs Perl code in the middle of a release | reentrancy while the chain is walked; an event in the middle of connecting, disconnecting, or after a release | a COM reference is not released too often; the chain is the live objects; `Uninitialize` reaches them all; the server calls the sink an object has, and no other | partly: enumerators, variants and type libraries are left out |
| `Win32::ODBC` (`ODBC.xs`, `CMom.cpp`, `CResults.cpp`) | a MASTER list of threads, a DAUGHTER list of connections each; a connection's statement, result set and shared link | boot, connect, clone, execute, catalogs, fetch, drop cursor, disconnect, shut down; attach and detach of threads | the driver; all threads share the MASTER list | a driver call failing between two frees; clones; thread ids that are used again; the end of the process | a number names one live connection; a link lives as long as its last clone; bound buffers exist; no thread meets another's connections | partly: calls that only ask are left out |
| `Win32::Pipe` (`Cpipe.cpp`, `Pipe.xs`) | handle, buffer, error | create, connect, read, write, disconnect, close | a process at the other end | clients that wait for a busy pipe, are killed, or close while the server exits | data arrives whole and in order, from one client; nobody hangs | partly: the server's writes and the buffer are left out |
| `Win32::Clipboard` (`Clipboard.xs`) | a viewer thread, an event that has a name | `WaitForChange`, `StopClipboardViewer` | clipboard messages; other processes share the event | one process's reset against another's wait; any thread that starts or ends destroys the viewer | a script that waits is woken by a change | not modelled (next in the plan) |
| `Win32::IPC` | kernel objects | `wait_any`, `wait_all` | threads of other processes | abandoned mutexes, auto-reset | index and sign of the result name the object that was signalled | not modelled: the state is the kernel's |
| `Win32::Sound` | a wave device and its buffers | open, load, play, unload | the device returns buffers asynchronously | unloading what is playing | a buffer is freed after it is returned | not modelled |
| `Win32::Job` | a job and its processes | spawn, run, watch | processes end by themselves | timeout against a late exit | handles are closed once | not modelled |
| `Win32::API` | prototypes, callbacks | call, callback | foreign code | marshalling | stack balance | not modelled: a conversion |
| `Win32::Registry`, `Win32::EventLog`, `Win32::Internet` | an index, a read buffer, a handle | | | iteration while the source changes | | not modelled |
| `Win32::Console`, `PerfLib`, `NetAdmin`, `NetResource`, `Win32API::Net`, `FileSecurity`, `File`, `Process`, `Service`, `Shortcut`, `WinError` | none, or a handle | one Windows call each | | | | not modelled |

## 2. Modules

    ServiceThread ─── Daemon ─┬─ MCDaemon        (TLC instances)
                              └─ Daemon_proofs   (theorems)
    CallbackList ─────────────┬─ MCCallbackList
                              └─ DaemonParts_proofs  (of both)
    WinStation ───────────────┬─ MCWinStation
                              └─ DaemonParts_proofs
    OleObjects ───────────────┬─ MCOleObjects
                              └─ OleObjects_proofs
    OleEvents ────────────────┬─ MCOleEvents
                              └─ OleEvents_proofs
    CMom ─┬─ Odbc ────────────┬─ MCOdbc          (implements Sessions)
          │                   └─ Odbc_proofs
          ├─ OdbcThreads ─────┬─ MCOdbcThreads
          │                   └─ OdbcThreads_proofs
          └─ CMom_proofs (lemmas, which the two above extend)
    NamedPipe ────────────────┬─ MCNamedPipe
                              └─ NamedPipe_proofs

### ServiceThread

The two threads the SCM drives and the routines they share with the Perl thread.
One step is one access to a global or one call to Windows, because the code takes
no lock: the threads interleave between any two accesses. `pc[t]` is the next label
of a thread; `arg`, `err`, `ctl` and `ret` are the locals of the routine it is in
(`UpdateServiceStatus` runs on all three threads, `ServiceHandler` on the dispatcher
and once on ServiceMain's thread for the fake START, so the operators take the
thread as a parameter).

| In the code | In the model |
|---|---|
| `UpdateServiceStatus`, 415-465 | `UpdateState`, `UpdateKill`, `UpdateError`, `UpdateReport` |
| `KillTimer`, 401-413 | `KillCall` (test and `::KillTimer`), `KillClear` (`ghTimer = 0`) |
| `ServiceHandler`, 193-358 | `EnterHandler` (the copy of `gdwState`), `HandlerSwitch`, `HandlerLast`, `SetTimeoutTimer`, `HandlerNotify` |
| `ServiceThread`, 468-490 | `DispatcherConnect`, `DispatcherControl`, `DispatcherReturn` |
| `ServiceMain`, 58-190 | `MainEntry` ... `MainBits` (setup), `MainArm`, `MainQuit`, `MainTimer` (the loop), `MainExit` |
| `TimerHandler`, 392-398, called at 160 and again through `DispatchMessage` | `TimeoutKill`, `TimeoutForce`, `TimeoutCall`, `TimeoutDispatch` |
| `DLL_PROCESS_ATTACH` (`Daemon.xs`, 926) | `ServiceInit` |

What is Windows is part of the model only as far as the code relies on it: the SCM
starts `ServiceMain` on a thread of its own, delivers one control at a time and only
those the reported state admits (`Deliverable`), and lets the dispatcher return once
the service has reported STOPPED. Posted messages arrive in order; a timer message is
retrieved when no posted one waits; a posted message to a thread without a queue is
lost (`MainReachable`). `::KillTimer(NULL, id)` from a thread that did not set the timer
is documented by neither the code nor its comments; `CrossThreadKill` makes it a
constant: `DaemonCallback` takes it to do nothing, `DaemonServed` and `BadTimeout` take it to
work, and the proofs hold for both.

`unreported` and `answered` are history variables. No action reads them: the first
says that `gdwState` was stored without, or across, a report to the SCM, the second
that the script has answered the last timed control.

### Daemon

The Perl thread: `StartService` (creating the service thread, entering callback mode,
the message loop, `DispatchThreadMessage` with the heartbeat stopped and restarted,
`CallPerlRoutine` with its return value), `State`, `LastControlMessage`,
`SetServiceBits`, `CallbackTimer` and `StopService` with its bounded posting, its second
of grace and `TerminateThread`. The script is the environment: at "script" (its own
code) and at "callback" (a routine of the loop) it may call any function of `Calls`.

### CallbackList

`RegisterCallbacks` as the code runs it, one `SET_CALLBACK` a step in the order of the
code, which differs for a code reference and a hash; `Set` with the two tests on
`m_dwCount`, a DWORD (`% Modulus`); `Get`; the lookup of `ProcessStateChange`, where
"running" stands in for "timer"; and Perl freeing a routine (`Drop`, external).
Only the Perl thread uses the list, so it is a module of its own and `Daemon` only knows
which events have a routine (`Registered`).

### OleObjects

One interpreter and its objects; one thread runs them, so `g_CriticalSection` never waits and
is left out. What interleaves is reentrancy: `ReleasePerlObject` calls the script's destroy
callback before it releases anything, from `DESTROY`, from `Uninitialize`'s walk and from
`Tie::DESTROY`, and `EnumAllObjects` calls a callback for each object. The functions that are
running are the frames of `stack`; the script takes its steps when the stack is empty or
the top frame is at "callback".

| In the code | In the model |
|---|---|
| `AddToObjectChain`, `RemoveFromObjectChain`, 980-1028 | the same |
| `CreatePerlObject`, 1030-1104, from `new` and from a property that is an object (3053) | `CreatePerlObject`, `New`, `GetProperty` |
| `ReleasePerlObject`, 1106-1203 | `CallDestroy` up to the callback, `CallbackReturns` from there, `ReleaseNow` without one; `ReleaseInterfaces` is their common tail |
| `DESTROY`, 3643, and then `Tie::DESTROY`, 4476, as Perl frees the object | `Drop` or `LetGo`, the release, `Destroyed` |
| `Tie::DESTROY` first, in global destruction | `GlobalCleanup`, the release, `TieDestroyed` |
| `Uninitialize`, 3258-3321, and the END block of `Bootstrap` | `Uninitialize`, `Exit`, `UninitializeNext`, `UninitializeClose` |
| `EnumAllObjects`, 3968-4014 | `EnumAllObjects`, `EnumVisit`, `EnumCallbackReturns`, `EnumNext` |
| `hv_undef(g_hv_unique)`, 3506 | `_Unique` |

Perl's reference counts are `refs`, what the script has, and `kept`, the mortal references
of a frame. The reference `ReleasePerlObject` makes for its callback (1123) is made before
`SAVETMPS` and is therefore freed by its caller: at the end of `DESTROY`, or after the whole of
`Uninitialize` (`UninitializeUnwind`), which is what keeps the walk on live objects.
`EnumAllObjects` makes its own after `SAVETMPS` and frees it before it reads `pNext`. If
it was the last one the walk goes on anywhere (`EnumNext`). Each block of memory is used for
one object only; `born` counts them for the properties.

### OleEvents

Events need a single threaded apartment, so everything happens on one thread. But a thread that
waits for a call into the server takes calls from it: an event may arrive while `Advise` or `Unadvise`
waits, and its handler may call `WithEvents`, `Uninitialize`, or drop the object. As in `OleObjects`
the functions that run are the frames of a stack.

| In the code | In the model |
|---|---|
| `EventSink::EventSink`, `AddRef`, `Release`, 1938-2041 | `NewSink`, `AddRef`, `Release` |
| `Unadvise`, 1980-1989, called by `WithEvents`, `DESTROY` and `Uninitialize` | `Unadvise` up to the server, `UnadviseReturns` from there, `Disconnected` in the caller; `UnadviseFails` and `UnadviseReturnsToNothing` read what is gone |
| `WithEvents`, 4302-4470 | `WithEvents`, `ConnectFails`, `Connect`, `ServerAdvises`, `AdviseReturns`, `AdviseFails`, `WithEventsReturns` |
| `Invoke`, 2072-2163 | `Fire`, the handler's own steps, `HandlerReturns`, `InvokeReturns` |
| `DESTROY` and `Uninitialize`, as far as sinks go | `Drop`, `Destroyed`, `Uninitialize` ... `UninitializeEnd` |

The constructor of `EventSink` leaves `m_pConnectionPoint` as the memory was ("garbage") until
`Advise` has returned, and `Unadvise` calls through it or finds NULL. The objects are
there from the start: how they are made, their chain and their destroy callbacks are `OleObjects`'.
`torn` is a history variable: a handler has disconnected a sink in the middle of its being
connected or disconnected. `crashed` says what ended the process.

### CMom, Odbc, OdbcThreads

`CMom` is the list class as data: `InitMom`, `operator[]`, `Add`, `AddToList` and `Remove` are operators
on a list. Two modules add the processes.

`Odbc` is one Perl thread with its DAUGHTER list: the connections (`ODBC_TYPE`), the links they share
with their clones (`ODBC_HDBC`, with `iCount`), a connection's statement with what is bound to it, and
its result set (`CResults`). `_NT_ODBC_Verify` only looks in the caller's own daughter, so a call is one
step, and its outcomes are those of the driver calls it makes; an operator named after a C
function takes the heap and the driver to those it may leave. `ODBCLIST`, the connection
with number 0, is what all unknown numbers act on. Calls that end the process by reading through
NULL are steps of their own (`ConnectCrashes`, `CloneCrashes`, `CallCrashes`).

`OdbcThreads` is the MASTER list under the threads of the process. Each method of `CMom` runs in
`gCSMom` and is one step; between two of them another thread may run. Threads load the extension,
make and delete their daughter, and end, which deletes nothing; Windows gives their ids to later
threads; `DLL_PROCESS_DETACH` deletes the MASTER list on whichever thread is left.

`Sessions` is what the connections promise a script: numbers that are never given twice, a link for
each `Connect`, shared by `Clone` and closed with its last session. `Odbc` implements it. The refinement
mapping is `Abstract` in `Odbc`: a session is a number the script holds, its link is the `ODBC_HDBC`
of the connection that number finds.

### NamedPipe

Scripts as the synopsis of `Pipe.pm` writes them, on one pipe name. A server creates an instance,
connects, reads, disconnects, connects again or closes, and may be refused its pipe (`CreateFails`);
a client opens the pipe, or waits for it when it is busy, writes, closes, and may be killed anywhere.
The server's `Disconnect` is the step of `Pipe.xs`, which takes the two arguments `Pipe.pm` passes for wrong usage and returns; so an
instance belongs to one client until it is closed. The instance itself (`Pipes`, `Listening`,
`Attached`, `Detached`) is Windows, as far as the code relies on it: it listens until it is opened,
carries what is written in order and up to its room, and outlives its client until the server closes it.

Two things follow the code where one would not expect them. A read that yields nothing sets its
argument to undef (`Pipe.xs:272`), and the argument is the script's `$self->{'Pipe'}` (`Pipe.pm:65`):
after `ReadFails` the server's `pipe` is NULL, `Connect` and `Close` find no object, and the instance
stays with its client until the process ends (`lost`), so that the name exists and no instance
of it listens (`Exists`). And nobody tells a server that the client it reads from was killed: the system
breaks the instance when it learns of it (`Break`, which need not happen), and until then `Read` waits,
as `Pipe.pm:362-364` says.

| In the code | In the model |
|---|---|
| `CPipe(name)` of a server, `Pipe_Create` | `Create`, `CreateFails` |
| `CPipe(name)` of a client, 88-127 | `Open`, `OpenBusy`, `WaitNamedPipe`, `WaitFails`, `OpenFails` |
| `Connect`, 175-187 | `Connect`, `Connected`, `Reconnect` |
| `Read`, `Pipe.xs:242-277` | `Read`, `ReadFails` |
| `Write`, 167-173 | `Write`, `WriteFails` |
| `Disconnect` of `Pipe.xs` | `Disconnect` |
| `Close` and `~CPipe` | `Close` at the server, `CloseFile` at the client |

### WinStation

`Set` and `Restore` under the functions a script calls, each call of Windows failing or not. The
state is where the process and the thread are, where they came from (`home`, which `GetThisStation`
took), and how many entries the access control list of each station and desktop has. A call of
`AddSecurityPrivileges` adds some and never removes any (a list whose size cannot be read is
replaced by none at all); it fails when the list is full, and whenever
one of the calls it makes does (204, 231, 244, 401, 409), which for the station changes nothing and for
the desktop leads to `DesktopNotGranted`: the thread is not moved and TRUE is returned. A call
is one step, since only the Perl thread makes them; how far `Set` gets is a
disjunct of its own (`NotOpened`, `NotAssigned`, `DesktopNotOpened`, `DesktopNotGranted`,
`DesktopNotSet`, `Moved`). Windows may refuse a desktop that exists, the way back after a refused
`SetThreadDesktop`, and each half of `RestoreService`; `last.refused` is the part it refused.

## 3. What the runs check

Every run names its bounds in its `.cfg`. The symmetry sets permute model values the modules never
compare with a constant, and stand in safety runs only. `CHECK_DEADLOCK FALSE` stands where the
system may stop: the daemon's threads end and a script has nothing left to call, the stack of the
OLE modules is bounded, the process of `OdbcThreads` ends, a client of `NamedPipe` is at its end.
`CallbackList`, `Odbc` and `WinStation` are checked for deadlock too.

| Run | Question | Bounds and why they are enough |
|---|---|---|
| `DaemonCallback` | `TypeOK`; `StatusExplained`: `gdwState` and the SCM's state differ only while a thread is between its store and its report, or after a store was overtaken or never reported; `TimerHandleLive`: a non-zero `ghTimer` is an armed timer, or somebody is about to clear it; `HeartbeatKept`: back in the loop the heartbeat runs if and only if its value is positive, whatever a callback did to it; `StoppedStays`: with a script that reports nothing and one control, the state is STOPPED once the dispatcher thread has ended | one STOP, PAUSE or INTERROGATE and one call out of all seven: the fake START makes the timeout's state RUNNING, so the timeout and the STOP can race; all three threads are in `UpdateServiceStatus` or `KillTimer` at once, a second timer is armed over a first, and `TerminateThread` hits the dispatcher anywhere. 2.1 million states |
| `DaemonServed` | under fairness: `ControlCalledBack`, `HeartbeatBeats`, `StopReturns`, `StartCompletes` | one control and one `StopService`; the heartbeat goes round without a bound. 0.2 million states |
| `CallbackList` | `ListTypeOK`; `CountExact` (until a routine is removed the count is the number of filled slots, in the middle of a call too); `RegistrationTakes` (a call that has returned has given every command what it was passed, whatever the order) | three commands whose two orders differ, two routines, a 4-bit counter so that the decrement that wraps is reached. 0.3 million states |
| `OleObjects` | `TypeOK`; `ChainOrdered`: whatever callbacks do in a walk or a release, the chain is the live objects, youngest first; `UniqueLive`: `g_hv_unique` names objects that are live and referred to; `HeldCovers`: no COM reference is released that an object still counts on; `WalkReleases`: `Uninitialize` misses none of the objects there were when it was called | three objects over the run, so that the middle of a chain is removed; one COM object, so that unique objects meet, of which two references may be held; two nested functions, so that `Uninitialize` runs in a callback of `Uninitialize` and the same object is released by both; two references, so that a unique hit meets an object in use. 2.6 million states |
| `OleEvents` | `SinkCounted`: a sink's count is the object's reference, the server's, and those of running calls, so it is deleted with the last and not before; `CurrentConnected`: the server calls the sink an object has now and no other, and nothing that has lost its interface has a sink; `CrashExplained`: the process only ends when a handler tears its own sink (`torn`) or the interface had no type info | two objects, so that a walk goes on after a handler; three sinks, so that one is replaced twice; four frames: an event in `Unadvise` in a handler in `Uninitialize`; three events. 1.4 million states |
| `Odbc` | `NumbersAgree`: the list is well formed and holds exactly the live connections, each under its own number; `CountMatches`: `iCount` counts the connections that share a link, and no link outlives them; `StatementsOwned`: the driver's statements are those of live connections on connected links; `BoundBuffersLive`: columns are bound to buffers that exist; `ExecuteDelivers`: a success reported for a number other than 0 that the caller holds has a cursor bound to this connection's result set (0 is `ODBCLIST`: `Execute` does nothing for it and reports success, and the first `Connect` of a thread that never ran `InitExtension` hands it out); `CallsIsolated`: a call changes one connection at most; `Implements`: `Sessions` | three connections and numbers up to 2 in lists of two slots, so that a list grows and a number is skipped; two links, so that a clone and a new connection exist at once; two result sets, so that the new one is not in the place of the old; both values of the close type that differ in what they free. 44 thousand states |
| `OdbcThreads` | `ListLive`: the MASTER list names live daughters, each once; `ConnectionsFound`: a thread finds the daughter its connections are in; `ThreadsApart`: no thread finds another running thread's; `DaughtersKept`: no daughter is lost but the one that could not be registered | three threads and three ids in a list of two slots, so that it grows, and ids are used again; one thread loads the extension, the others are clones (see below); two connections. 0.9 million states |
| `NamedPipe` | `TypeOK`; `StreamKept`: what a server has read, followed by what is under way, is what one client has written, in order and from the start; `CloseDelivers`: a client that has closed has been read to the end, unless the server closed first; under fairness `ClientEnds`: no open, write or close waits for ever; `ServerListens`: a server that does not exit listens again and again, unless it is refused a pipe, or waits in `Read` for a client of which the system does not know that it was killed | one server and three clients, so that the pipe is busy, and busy again for the one that waited, and a third instance is made over two lost ones; three writes into room for two, so that a write waits and a read takes a part. 320 thousand states |
| `WinStation` | `TypeOK`, which bounds the lists; `RestoredHome`: a `RestoreService` that reports success has brought everything home; `SuccessMoves`: a success has moved process and thread, unless `AddSecurityPrivileges` failed for the desktop; `StaysWhole`: thread and process are parted when Windows refuses the desktop, the privileges on it, the way back, or the thread's desktop in `RestoreService`, and by no other refusal | two stations with a desktop each, one name that does not exist, lists that are full after two or three calls. 17 thousand states |

### Fairness

`Daemon`: `FairSpec` gives weak fairness to the three threads: to the dispatcher and to
ServiceMain's thread as a whole, and to the Perl thread while it runs code of the
extension (the loop, the rest of a call that has begun) and for the callback's own
return. Windows schedules every ready thread, and the code has no loop that
spins. Nothing is assumed of the script's calls, of the SCM's controls, nor of which
branch a thread takes (a registration or a connection that may fail).
`StartCompletes` relies on the timer, which is fair as part of the thread that owns it:
a periodic timer fires as long as it is armed. That callbacks return is an assumption
about scripts; `ControlCalledBack` and `HeartbeatBeats` need it.

`NamedPipe`: weak fairness of each script as a whole: it goes on when the call it is in can return.
That `WaitNamedPipe` comes to an end is part of it, since `XS_WIN32__Pipe_Create` passes
it a time. Nobody has to be killed, the system need not learn that somebody was (no fairness of `Break`),
a server may exit or read on for as long as there is something to read.

### Where the code and its documentation part

Each of these runs checks one property that a comment or the documentation states, and
TLC finds the behaviour of the code that violates it.

| Run | Stated | What the code does |
|---|---|---|
| `BadTimeout` | a command the script does not answer fails after a while (`Daemon.pm:477`) | `ServiceHandler` asks for the timer and then calls `UpdateServiceStatus`, whose `KillTimer` removes it if ServiceMain has been quick: an unanswered STOP stays STOP_PENDING for ever. Found under fairness |
| `BadForced` | the state is forced "in case the perl script does not process the request" (`ServiceThread.cpp:324`) | the request for the timer waits in ServiceMain's queue while the script answers; the timer is armed after the answer and overrides it |
| `BadCleanup` | "Make sure nothing is cleaned up twice!" (`OLE.xs:1117`) | `ReleasePerlObject` clears `pEventSink` after `Unadvise`; an event that arrives while `Unadvise` waits, and whose handler calls `Uninitialize`, disconnects the same sink again |

Divergences for which no run is kept, because a call or two show them or because they
leave nothing that could hold. `Win32::Daemon`:

- the handler writes back the copy of `gdwState` it made at entry, over a `State()` of the script in
  between (`ServiceThread.cpp:196`, against 334);
- the service thread is created before `gfCallbackMode` is set, and a ServiceMain that is faster
  posts no START (`Daemon.xs:1247`, against `ServiceThread.cpp:88`);
- the test after `m_dwCount--` is inverted, and removing one of several routines makes the
  count 0 (`CCallbackList.cpp:155`, against `Daemon.pm:626`), so that a `StartService` after it does not
  enter callback mode (`Daemon.xs:1285`; `Daemon` takes `Registered` as it is when the service starts);
- the callback list keeps an address and no reference, so a routine the script has dropped is
  freed and called (`Daemon.h:167`, against `Daemon.pm:609`); `Drop` and `ProcessStateChange` show it;
- `CallbackTimer` in a callback starts the heartbeat that was stopped for it
  (`Daemon.xs:1385`, against 800), and `CallbackTimer(-1)` does not toggle but restarts
  (`CCallbackTimer.cpp:129`, against `Daemon.pm:271`);
- bits given to `SetServiceBits` before there is a handle are kept after ServiceMain has looked for
  them, if it looks in between (`Daemon.xs:1987`, against 2014);
- `LastControlMessage(1)` resets before it reads (`Daemon.xs:2110`); `State($s)` always
  clears the error (`Daemon.xs:2060`, against `Daemon.pm:571`); "running" wins over "timer"
  (`Daemon.xs:603`, against `Daemon.pm:1008`); the "user_defined" slot answers to a code no
  control has (`CCallbackList.cpp:55`); the timeout is scaled by 1000 twice
  (`ServiceThread.cpp:148` and `368`);
- `ShowService` reads the name of the desktop from the argument of the station
  (`Daemon.xs:2138`); when the privileges on the desktop cannot be added, for any reason, it is not
  set and success is reported (`CWinStation.cpp:103`, 111).

`Win32::OLE`: an object that a destroy callback makes during the walk of `Uninitialize` is put before
the head of the chain and keeps its interface over `CoUninitialize` (`OLE.xs:3265`, against
`OLE.pm:309`); a destroy callback that calls `Uninitialize` is called a second time (`OLE.xs:1153`,
against 1117); `EnumAllObjects` loses its way when its callback drops the object (`OLE.xs:4011`, against
`OLE.pm:116`); clearing the table of `_Unique` while it is in use leaves two objects for one COM
object (`OLE.xs:3506`, against `OLE.pm:605`); when `Advise` fails the type info is released
twice (`OLE.xs:4451`), and without connection points one that there is not (4427).

`Win32::ODBC`: `GetConnections` asks for the numbers below the number of slots only
(`ODBC.xs:1143`); a number that is not in the list acts on `ODBCLIST`, and `Execute` then
reports success (`ODBC.xs:533`, against the comment at 522); `Disconnect` without an argument
does not disconnect all (898, against its own comment); `MapCloseType` falls through (592); the handle
is set to NULL before `SQLFreeConnect` gets it (221-226); a connection whose option is refused is
not given back (683); when a result set's columns cannot be allocated its arrays are deleted twice
(`CResults.cpp:132`); `NewODBC` frees an object it has not initialised (140); a MASTER list that two
threads load at once is made twice (`CMom.cpp:55`, against `ODBC.xs:2561`), which is why one
thread loads in `OdbcThreads`; the daughter of a thread that has ended stays under its id
(`ODBC.xs:2732`).

`Win32::Pipe`: `Disconnect` takes the two arguments its own wrapper passes for wrong usage, and the
server never could "`Connect` again" on the same instance (`Pipe.xs:307`, against
`Pipe.pm:240`); a read that yields nothing loses the object, and with it the handle
(`Pipe.xs:272`); the constructor that fails deletes the object, and its caller reads and deletes it once more
(`Cpipe.cpp:125`, `Pipe.xs:177`).

One behaviour contradicts no document and is worth knowing. `TimerHandler` runs twice for
one WM_TIMER (line 160, and again through `DispatchMessage`), and reads
`gdwTimeoutState` anew each time. `StoppedStays` therefore speaks of one control: if a
timeout overtakes the STOP_PENDING of a STOP, the SCM may send CONTINUE, the dispatcher
may then end with STOPPED, and the second run forces RUNNING over it. TLC finds this
(in some sixty steps) when `MaxControls` is 3 and the bound is dropped from the property.

## 4. What is proved

For every value of the constants: any set of controls, any timers, any callbacks,
any script calls and states, any servers and clients, any stations and desktops, any threads and lists,
any objects, and any number of each (of objects, any finite number). The assumptions are those the modules name (`ControlsAssumption`, `BoundAssumption`,
`TimerAssumption`, `KillAssumption`, `ScriptAssumption`; `CommandsAssumption`, `OrderAssumption`,
`RoutineAssumption`, `ModulusAssumption`; `NullAssumption`, `RoomAssumption`;
`DesktopAssumption`, `AceAssumption`; `LoaderAssumption`, `IdAssumption`, `NullAssumption`,
`NullListAssumption` of `OdbcThreads`; `CloseAssumption`, `NumberAssumption`, `NullAssumption`,
`MemoryAssumption`, `PointerAssumption` of `Odbc`; `NullAssumption`, `BoundAssumption`, `FiniteAssumption` of
`OleObjects`; `NullAssumption`, `BoundAssumption`, `PointerAssumption` of `OleEvents`); they only give the constants their types,
except that a registration order lists every command once, that the counter is wide enough for the
number of commands, that the service's own desktop is one there is, and that a connection has memory
for a result set beside the one its statement is bound to, that the objects of `OleObjects` are finitely
many and that a script can have a reference to one.

`Daemon_proofs`

- `TypeInvariant`: `Spec => []TypeOK`. Inductive with `TypeInv`, which adds where a
  routine may return to (`ret`), that a control being handled is a control, and that
  an error about to be reported has been chosen (`err` is no longer 0xFFFFFFFF, which
  only `UpdateError` ensures).
- `StatusIsExplained`: `Spec => []StatusExplained`. `Born` fixes the order in which the
  threads are created: without it a thread could be started again in the middle of a
  report. `ReportsInTurn` says that, as long as no store has been overtaken, at most one
  thread is between its store and its report, what it is about to report is what is
  stored, and with no such thread the two states agree. Each step moves one of
  the three or sets `unreported`.
- `TimerHandleIsLive`: `Spec => []TimerHandleLive`, for both values of `CrossThreadKill`.
  An armed timer goes away by `::KillTimer` or when ServiceMain's thread ends, so the
  strengthening `TimerInv` adds that `ghTimer` is 0 before ServiceMain's loop and after
  it (`Unarmed`).
- `HeartbeatIsKept`: `Spec => []HeartbeatKept`. While an event is dispatched the heartbeat
  of before is in `fCallbackState`; `HeartbeatInv` says that, anywhere in the loop, the
  heartbeat runs only with a positive value, and that with one it runs or is to be
  restarted. The SCM's threads do not touch it (`ServiceLeavesPerl`).

- `StoppedIsKept`: `Spec => []StoppedStays`. The invariant `OneStop`, as long as the script makes no call and
  one control at most has been sent, says where a STOPPED can come from in each of the places it can be
  (`Sourced`: the timeout's state, the SCM's, the two threads' arguments, `gdwState` itself): a STOP that has
  been handled, a handler that could not be registered, or the last report. `Placed` says that the SCM
  sends nothing until ServiceMain has reported, so that a STOP meets ServiceMain in its loop, which it never
  leaves again (`Silent`: nobody posts WM_QUIT); from then on all that its timeouts store and report
  is STOPPED (`Forcing`).

`DaemonParts_proofs`, for `CallbackList`

- `ListTypeInvariant`, and with it that the counter stays below `Modulus`.
- `CountIsExact`: `ListSpec => []CountExact`. One filled slot more or less is one element
  more or less of a finite set; the cap is never reached before a removal, because the
  count is at most the number of commands.
- `RegistrationIsTaken`: `ListSpec => []RegistrationTakes`. In the middle of a call the
  commands whose position is behind `next` have their value and the others still have
  that of `before`; no command comes twice in an order, so a later step does not undo
  an earlier one, and none is left out.

and for `WinStation`

- `TypeInvariant`, `RestoresHome`, `SuccessHasMoved` and `WholeStays` (`Spec => StaysWhole`), from an
  invariant that adds `home = Home`: what `GetThisStation` took once is never taken again, whatever
  Windows refuses.

`NamedPipe_proofs`

- `TypeInvariant`, `StreamIsKept` (`Spec => []StreamKept`), `CloseHasDelivered`
  (`Spec => []CloseDelivers`), from one invariant `IInv`. Beside the type and the two properties it
  says whose handle is whose: a client that is open, writing or closing has the handle of an instance,
  an instance has one client at most, is broken when that client has closed, and may be when it was
  killed (`BrokenOK`). A read that fails takes the instance out of the server's hands, with nothing under
  way in it (`ReadFailsKeeps`, `DropKeeps`). Each step is shown to change
  one instance and one client (`ServerMoves`, `ClientMoves`, `PipeChanges`); a write appends to what
  is under way, and a read moves it (`WriteAppends`, `ReadMoves`).

`CMom_proofs` (lemmas)

- What a list finds: the loops stop at a first slot (`FirstIs`, which needs that a set of numbers has a
  least one), a lookup gives what a slot in use has (`LookupIs`). A list that is added to or removed from
  stays well formed, has one slot in use more or less, and finds the same for every other identifier
  (`AddIs`, `AddFinds`, `RemoveIs`, `RemoveFinds`). This is the argument of `AddToList`, which trusts
  `iInUse` to say whether there is a free slot.

`Odbc_proofs`

- `Agreement`, `Counting`, `Ownership`, `Binding`, `Delivery`, `Isolation` and `Refinement`: each property
  of the run, from one invariant `IInv`. It speaks of the heap as a whole (`HeapInv`): what the list finds
  (`Listed`), each connection with its statement and result set (`Sound`), and what is shared (`Shared`,
  `Counted`); then of the numbers the caller holds (`HandedOf`: exactly those of the connections that are
  connected) and of the slots `~CMom` has passed (`ClosingEmpties`). `Sound` has the part that
  `BoundBuffersLive` needs and does not say: a result set has the number of its connection, since
  `RemoveBuffers` looks its owner up again and unbinds whatever it finds.
- The operators are named after the C functions, and so are the lemmas: `UnbindIs`, `DeleteResultsIs`,
  `RenewIs`, `ResetStmtIs` and the like say that a function leaves the heap whole and changes one
  connection (`Leaves`); `ConnectIs`, `CloneIs` that a heap grows by a connection (`Grown`); `DeleteIs`,
  `ShrunkIs` that it shrinks. Each is proved for any heap, so a call is the composition of its functions.
- A step keeps the invariant, isolates and promises (`Kept`). `Promised` is the refinement before it is put
  in the words of `Sessions`: no change, a number used up, a session on a link of its own or on a shared
  one, one session less, or the end. `AbstractIs` maps it to the actions of `Sessions`.

`OdbcThreads_proofs`

- `ListIsLive` and `ThreadsStayApart`, for any number of loaders, from the invariant `IInv`: running
  threads have ids of their own (`IdsApart`); a daughter a thread has at hand is live, in no other
  thread's hands (`HeldApart`) and in the list only under the thread's id, and not at all before it is
  registered and after it is removed (`HeldListed`); of the running threads only the one whose id a
  daughter is under, or whose hands it is in, has opened connections in it (`OpenedListed`,
  `OpenedHeld`). The daughters themselves are well formed and their next number is new
  (`DaughtersFormed`). Without `HeldListed` the step that frees a daughter could free one of the list.
- `DaughtersStayKept` and `ConnectionsStayFound`, when one thread at most loads the extension
  (`OneLoader`, which is what the run assumes too), from `JInv`, which adds: the first MASTER list
  replaces none (`LoadsOnce`), a thread that makes a daughter finds none and one that
  deletes its daughter finds it until it removes it (`OwnFound`), and a daughter out of the list
  has no connections (`Emptied`).

`OleObjects_proofs`

- `TypeInvariant`, `ChainIsOrdered`, `UniqueIsLive`, `HeldIsEnough` and `WalkHasReleased`, from one
  invariant `IInv`. It has the chain link by link (`LinksInv`: `pNext` is the object just older, `pPrevious`
  undoes it), in terms of the order of creation (`BornInv`), which is what makes the middle of a list
  known from its neighbours; what is not live has neither references nor an interface (`ObjectInv`).
- The stack (`Stacked`): which frames there can be (`Shaped`), where one waits that has another on it
  (`Waiting`: at a callback, in its last unwinding or between two objects of an enumeration), and what a
  frame knows (`Holds`): the objects it keeps are live, the object of a release is live, and the walk of
  `Uninitialize` has released all the objects it began with that are younger than the one it is at
  (`Walked`). That a walk keeps its object while the callback runs is what `HeldCovers` and
  `UniqueLive` turn on: only an object that nothing refers to is freed, and none that is
  kept by a frame is.
- A lemma about the stack takes the objects as arguments (`live`, `used`, `disp`, `num`), so that a step
  that changes both is two lemmas, one for each.

`OleEvents_proofs`

- `SinkIsCounted`, `CurrentIsConnected` and `CrashIsExplained`, from the invariant `IInv`: as long as no
  sink is torn (disconnected in the middle of its own `Advise` or `Unadvise`) the state is `Good`. Once one
  is, nothing is promised, and nothing needs to be shown: `torn` stays.
- `Good` has the sinks from three sides. `Owned`: the sink an object has is in memory and its own, and either
  connected or being connected by a frame that waits for the server (`m_pConnectionPoint` is not set
  before `Advise` returns). `Served`: the sinks the server has are those. `Counted`: a sink's count is
  the number of its references, the object's, the server's and one for every call that runs.
- The stack is needed because a frame goes on with a sink it took before it waited (`Knows`). That sink is
  still the object's when the server answers, for two reasons: no two frames wait for the same sink
  (`Apart`), and a step that would disconnect a sink somebody waits for sets `torn` (`Tears`).
- A lemma for each kind of step, with the stack, the objects, the sinks and the connected ones as
  arguments: a step of the stack only (`QuietSound`), a sink and an object parted (`PartSound`), joined
  (`JoinSound`), a call that begins or ends (`CallSound`, `ReturnSound`), a sink the server takes or whose
  `Advise` has returned (`TouchSound`). An action is one of them: `Connect` joins, the return of
  `Unadvise` and a failed `Advise` part.

Every safety property of the passing runs is one of these theorems. Model-checked only: the liveness
properties (`ControlCalledBack`, `HeartbeatBeats`, `StopReturns`, `StartCompletes`, `ClientEnds`,
`ServerListens`), since fairness and ENABLED are out of the prover's reach.

## 5. What is abstracted, and what is left out

- Durations. Wait hints, checkpoints, the interval of a timer and `Timeout()` are not
  modelled: an armed timer may fire at any time. The time in which a script must
  answer is therefore never relied upon.
- Controls that carry no state (SHUTDOWN, PARAMCHANGE, NETBIND..., PRESHUTDOWN, user defined
  codes) take the path of INTERROGATE, which stands for them. The mask of accepted
  controls (`AcceptedControls`) is all of them; a control the SCM would refuse because of it is
  simply not in `Controls`.
- `SetServiceStatus` fails while there is no handle and works otherwise; failures of
  `RegisterServiceCtrlHandler` and of the connection to the SCM are modelled, a failure of
  `CreateThread` is not (the script sees it as a service that was never started).
- A script that dies in a callback leaves the loop by a long jump and is not modelled,
  nor is one that dies in a destroy callback (`OLE.xs:1147`), nor are WM_QUERYENDSESSION and messages of other programs.
- Within a step: `KillCall` tests `ghTimer` and kills the timer (`ServiceThread.cpp:405-408`), `HandlerSwitch`
  reads and writes the state and the timeout's state (228-234), `TimeoutForce` copies the timeout's state (396).
  A `SetTimer` that fails is not modelled: the heartbeat and the timeout start when they are asked to.
- The service database (`CreateService`, `ConfigureService`, `QueryServiceConfig`,
  `DeleteService`, `GetSecurity`...), a call of Windows each.
- The contents of the context hash passed to callbacks.
- Of `OLE.xs`: enumerators, variants and type libraries are on the same chain and are
  released without running script code; they are left out, as are the apartment
  (`CoInitializeEx` and its failure), interpreters in other threads (each has its own chain), and
  what a COM object does when it is released. A copy the script makes of a reference
  it already has is left out: it changes nothing before both are dropped. Of the events: which
  method of the handler an event reaches, its arguments, and the references to type infos. Only
  `Advise`, `Unadvise` and the script's own waits and calls take incoming calls; the release of an
  interface, which may take some too, does not.
- Of `ODBC.xs`: the calls that ask the driver and return text (`GetInfo`, `DataSources`, `ColAttributes`,
  `GetData` and the like), `Transact`, `SetPos`, the cursor's name and the options of a statement,
  which change nothing a property speaks of; the text of the last error, which `Fetch` takes for its own
  (`ODBC.xs:823`). In `Odbc`, `SQLAllocEnv` and `CMom::Add` do not fail in `NewODBC` (113-122, 139; `Add`
  of `OdbcThreads` may). A MASTER list is made by one thread (see 3).
- Of `Win32::Pipe`: what a server writes, so that two ends that both wait for the other to read
  (`FlushFileBuffers` at both) are not there; `ResizeBuffer`; `EndOfFile`; security attributes; writes of
  no bytes, which would look like an end to `Read`. A write arrives as a whole, and there are finitely
  many clients: with ever new ones, one that waits could be overtaken for ever in the loop of
  `Cpipe.cpp:88-116`, which has no bound. Data in an instance that a failed read lost is none, since
  the read fails only when there is none. A handle that
  `CreateFile` returns is taken to come with an error code of its own, which the code assumes
  (`Cpipe.cpp:108`).
- Of the window station: security identifiers, the handles that are never closed, and the
  switch of the visible desktop.

### Not modelled

`Win32::Console`, `PerfLib`, `NetAdmin`, `NetResource`, `Win32API::Net`, `FileSecurity`, `File`, `Process`,
`Service`, `Shortcut` and the constants make one call of Windows per function and keep nothing that a
later call depends on. `Win32::API` and the conversions of `Win32::OLE` move data between Perl values and
machine types. `Win32::IPC` returns an index into the list it was given. `EventLog`, `Registry` and
`Internet` keep a counter or a handle in one thread. `Job` waits for a list of processes and kills
them. `Sound` frees a buffer whether the device still plays it or not, so that what one would state of
it does not hold.

By lines, most of the C and C++ of the repository is none of this: `Win32-ODBC/Constant.cpp` (4700 lines) and
`constant.cpp` compare a name with a list of names; `WININET.H` is the header of a Windows SDK, and
`ppport.h` (13 copies), `Win32Perl.h` and `xs_win32perl.h` are compatibility headers. The files that keep state
(`ServiceThread.cpp`, `CCallbackList.cpp`, `CCallbackTimer.cpp`, `CWinStation.cpp`, `CMom.cpp`, `CResults.cpp`,
`Cpipe.cpp`) and the `.xs` files above them are modelled.

## 6. What is left

1. `Clipboard`: the viewer thread, `WaitForChange` and the event, as processes that share the event by its
   name. That a change wakes whoever waits should hold for a process alone; a reset by another
   process between `ResetEvent` and `WaitForSingleObject` loses it, and a thread that starts
   destroys the viewer (`Clipboard.xs:59`).
2. The server's writes in `NamedPipe`, with both ends flushing, and `EnumVariant` and type libraries on
   the chain of `OleObjects`.
3. An abstract service (the SCM's view: a state that changes by reports and settles) that `Daemon` implements
   as long as no store is overtaken.
4. Proofs: what 1 to 3 add; for 3, that each step of `Daemon` is one of the abstract service or none.
