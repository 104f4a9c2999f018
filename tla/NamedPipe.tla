----------------------------- MODULE NamedPipe -----------------------------
(***************************************************************************)
(* src/Win32-Pipe: CPipe (Cpipe.cpp) under the functions of Pipe.xs, in    *)
(* the hands of scripts that follow the synopsis of Pipe.pm: a server      *)
(* creates a pipe, connects, reads, disconnects and connects again, or     *)
(* closes; a client opens the pipe, writes and closes.  All servers and    *)
(* clients use one pipe name.                                              *)
(*                                                                         *)
(* The named pipe itself is the system's: an instance per server, which    *)
(* listens until a client opens it, carries bytes in order, and outlives   *)
(* the client until the server closes it, or the server's process ends.    *)
(***************************************************************************)
EXTENDS Naturals, Sequences, FiniteSets

CONSTANTS
  Servers,    \* server scripts
  Clients,    \* client scripts
  MaxWrites,  \* bounds the writes of a client
  Room,       \* writes that fit into the buffer of an instance
  NULL        \* no object

\* An instance: once it is open it belongs to one client, until it is closed.
Pipes ==
  [state : {"listening", "connected", "broken"},
   client : Clients \cup {NULL},
   data : Seq(Clients \X Nat)]

ASSUME NullAssumption == NULL \notin Servers \cup Clients \cup Pipes
ASSUME RoomAssumption == MaxWrites \in Nat /\ Room \in Nat \ {0}

VARIABLES
  pipe,    \* the instance of each server: its client and the data under way
  server,  \* where each server script is
  client,  \* where each client script is
  hPipe,   \* the instance a client's handle is for
  sent,    \* history: what each client has written
  got,     \* history: what each server has read since it created its pipe
  lost     \* the clients whose instances a server's process has no object for

vars == <<pipe, server, client, hPipe, sent, got, lost>>

Instances == {s \in Servers : pipe[s] # NULL}

\* There is an instance of this name, if only one that nobody can close.
Exists == Instances # {} \/ \E s \in Servers : lost[s] # {}

Listening == {s \in Instances : pipe[s].state = "listening"}

\* A client's handle is good while the server keeps its end.
Attached(c) == hPipe[c] # NULL /\ pipe[hPipe[c]] # NULL /\ pipe[hPipe[c]].client = c

Init ==
  /\ pipe = [s \in Servers |-> NULL]
  /\ server = [s \in Servers |-> "idle"]
  /\ client = [c \in Clients |-> "new"]
  /\ hPipe = [c \in Clients |-> NULL]
  /\ sent = [c \in Clients |-> 0]
  /\ got = [s \in Servers |-> <<>>]
  /\ lost = [s \in Servers |-> {}]

ServerGoes(s, from, to) == server[s] = from /\ server' = [server EXCEPT ![s] = to]

ClientGoes(c, from, to) == client[c] = from /\ client' = [client EXCEPT ![c] = to]

-----------------------------------------------------------------------------
\* The server's script

\* CPipe(name): CreateNamedPipe.  A new instance listens at once.
Create(s) ==
  /\ ServerGoes(s, "idle", "created")
  /\ pipe' = [pipe EXCEPT ![s] = [state |-> "listening", client |-> NULL, data |-> <<>>]]
  /\ got' = [got EXCEPT ![s] = <<>>]
  /\ UNCHANGED <<client, hPipe, sent, lost>>

\* CreateNamedPipe fails.  The constructor deletes the object, and
\* XS_WIN32__Pipe_Create reads and deletes it once more: the script tries again,
\* or its process is at its end.  (An object that passes for a good one has no
\* handle: Connect fails, and the script tries again as well.)
CreateFails(s) ==
  /\ \/ ServerGoes(s, "idle", "failed")
     \/ ServerGoes(s, "failed", "idle")
     \/ ServerGoes(s, "failed", "gone")
  /\ lost' = [lost EXCEPT ![s] = IF server'[s] = "gone" THEN {} ELSE @]
  /\ UNCHANGED <<pipe, client, hPipe, sent, got>>

\* CPipe::Connect: ConnectNamedPipe waits for a client,
Connect(s) ==
  /\ server[s] \in {"created", "disconnected"}
  /\ s \in Listening
  /\ server' = [server EXCEPT ![s] = "connecting"]
  /\ UNCHANGED <<pipe, client, hPipe, sent, got, lost>>

Connected(s) ==
  /\ ServerGoes(s, "connecting", "reading")
  /\ s \notin Listening
  /\ UNCHANGED <<pipe, client, hPipe, sent, got, lost>>

\* and CPipe::Connect is content with one that is there already.  A client that
\* has come and gone makes it fail, and so does an object that Read has lost;
\* the script closes.
\* Mutant of Reconnect: the error is not looked at.
ReconnectAnyway(s) ==
  /\ server[s] \in {"created", "disconnected"}
  /\ s \notin Listening
  /\ server' = [server EXCEPT ![s] = "reading"]
  /\ UNCHANGED <<pipe, client, hPipe, sent, got, lost>>
Reconnect(s) ==
  /\ server[s] \in {"created", "disconnected"}
  /\ \/ /\ s \in Instances /\ pipe[s].state = "connected"
        /\ server' = [server EXCEPT ![s] = "reading"]
     \/ /\ s \in Instances => pipe[s].state = "broken"
        /\ server' = [server EXCEPT ![s] = "closing"]
  /\ UNCHANGED <<pipe, client, hPipe, sent, got, lost>>

\* CPipe::Read returns what is there, as far as it goes into cBuffer.
Read(s) ==
  /\ ServerGoes(s, "reading", "read")
  /\ s \in Instances
  /\ \E n \in 1 .. Len(pipe[s].data) :
       /\ got' = [got EXCEPT ![s] = @ \o SubSeq(pipe[s].data, 1, n)]
       /\ pipe' = [pipe EXCEPT ![s].data = SubSeq(@, n + 1, Len(@))]
  /\ UNCHANGED <<client, hPipe, sent, lost>>

\* It fails when the system knows that the client is gone, and then
\* XS_WIN32__Pipe_Read sets its argument to undef: that is the script's
\* $self->{'Pipe'}, so the object and its handle stay, and no call gets at them
\* again.
ReadFails(s) ==
  /\ ServerGoes(s, "reading", "finished")
  /\ s \in Instances => pipe[s].data = <<>> /\ pipe[s].state = "broken"
  /\ lost' = [lost EXCEPT ![s] = IF s \in Instances THEN @ \cup {pipe[s].client} ELSE @]
  /\ pipe' = [pipe EXCEPT ![s] = NULL]
  /\ UNCHANGED <<client, hPipe, sent, got>>

\* The script reads on, is finished with the client, or exits.
Decide(s) ==
  /\ \E next \in {"reading", "finished", "exiting"} : ServerGoes(s, "read", next)
  /\ UNCHANGED <<pipe, client, hPipe, sent, got, lost>>

\* Pipe.pm gives Disconnect two arguments, and XS_WIN32__Pipe_Disconnect takes
\* one or two arguments for wrong usage: it returns without a call of CPipe.
Disconnect(s) ==
  /\ ServerGoes(s, "finished", "disconnected")
  /\ UNCHANGED <<pipe, client, hPipe, sent, got, lost>>

\* ~CPipe: a server has nothing to flush; the instance is gone, and with it
\* what its client has not been able to deliver.  Close passes over an object
\* that Read has lost; the end of the process takes what is left.
\* Mutant of Close: hPipe is not closed.
CloseLeaks(s) ==
  /\ \/ ServerGoes(s, "closing", "idle") /\ UNCHANGED <<pipe, lost>>
     \/ /\ ServerGoes(s, "exiting", "gone")
        /\ lost' = [lost EXCEPT ![s] = {}] /\ pipe' = [pipe EXCEPT ![s] = NULL]
  /\ UNCHANGED <<client, hPipe, sent, got>>
Close(s) ==
  /\ \/ ServerGoes(s, "closing", "idle") /\ UNCHANGED lost
     \/ ServerGoes(s, "exiting", "gone") /\ lost' = [lost EXCEPT ![s] = {}]
  /\ pipe' = [pipe EXCEPT ![s] = NULL]
  /\ UNCHANGED <<client, hPipe, sent, got>>

-----------------------------------------------------------------------------
\* The client's script

\* CPipe(name): CreateFile opens an instance that listens.
Open(c) ==
  /\ ClientGoes(c, "new", "open")
  /\ \E s \in Listening :
       /\ pipe' = [pipe EXCEPT ![s].state = "connected", ![s].client = c]
       /\ hPipe' = [hPipe EXCEPT ![c] = s]
  /\ UNCHANGED <<server, sent, got, lost>>

\* All instances are busy: WaitNamedPipe
OpenBusy(c) ==
  /\ Listening = {} /\ Exists
  /\ ClientGoes(c, "new", "waiting")
  /\ UNCHANGED <<pipe, server, hPipe, sent, got, lost>>

\* There is no pipe of this name: "Could not connect".  The constructor deletes
\* the object, and XS_WIN32__Pipe_Create reads and deletes it once more; this
\* client is at its end, with an error or without.
OpenFails(c) ==
  /\ ~Exists
  /\ ClientGoes(c, "new", "refused")
  /\ UNCHANGED <<pipe, server, hPipe, sent, got, lost>>

\* WaitNamedPipe returns when an instance listens, and CreateFile is called
\* again: another client may have been faster.  It fails when the time dWait
\* is over or the pipe is gone.
WaitNamedPipe(c) ==
  /\ Listening # {}
  /\ ClientGoes(c, "waiting", "new")
  /\ UNCHANGED <<pipe, server, hPipe, sent, got, lost>>

\* Mutant of WaitFails: the wait has no end.
WaitForever(c) ==
  /\ server = [s \in Servers |-> "idle"]
  /\ ClientGoes(c, "waiting", "refused")
  /\ UNCHANGED <<pipe, server, hPipe, sent, got, lost>>
WaitFails(c) ==
  /\ ClientGoes(c, "waiting", "refused")
  /\ UNCHANGED <<pipe, server, hPipe, sent, got, lost>>

\* The script has more to write, or not.
Proceed(c) ==
  /\ \/ sent[c] < MaxWrites /\ ClientGoes(c, "open", "writing")
     \/ ClientGoes(c, "open", "closing")
  /\ UNCHANGED <<pipe, server, hPipe, sent, got, lost>>

\* CPipe::Write waits for room in the instance,
\* Mutant of Write: it is repeated as long as there is room.
WriteAgain(c) ==
  /\ ClientGoes(c, "writing", "open")
  /\ Attached(c)
  /\ Len(pipe[hPipe[c]].data) < Room
  /\ sent' = [sent EXCEPT ![c] = @ + 1]
  /\ pipe' = [pipe EXCEPT ![hPipe[c]].data = @ \o <<<<c, sent'[c]>>, <<c, sent'[c]>>>>]
  /\ UNCHANGED <<server, hPipe, got, lost>>
Write(c) ==
  /\ ClientGoes(c, "writing", "open")
  /\ Attached(c)
  /\ Len(pipe[hPipe[c]].data) < Room
  /\ sent' = [sent EXCEPT ![c] = @ + 1]
  /\ pipe' = [pipe EXCEPT ![hPipe[c]].data = Append(@, <<c, sent'[c]>>)]
  /\ UNCHANGED <<server, hPipe, got, lost>>

\* and fails when it is gone: the script closes.
WriteFails(c) ==
  /\ ~Attached(c)
  /\ ClientGoes(c, "writing", "closing")
  /\ UNCHANGED <<pipe, server, hPipe, sent, got, lost>>

Detached(c) ==
  IF Attached(c) THEN [pipe EXCEPT ![hPipe[c]].state = "broken"] ELSE pipe

\* ~CPipe: FlushFileBuffers waits for the server to read everything, and then
\* the handle is closed.
\* Mutant of CloseFile: Disconnect without purge.
CloseHasty(c) ==
  /\ ClientGoes(c, "closing", "closed")
  /\ pipe' = Detached(c)
  /\ hPipe' = [hPipe EXCEPT ![c] = NULL]
  /\ UNCHANGED <<server, sent, got, lost>>
CloseFile(c) ==
  /\ Attached(c) => pipe[hPipe[c]].data = <<>>
  /\ ClientGoes(c, "closing", "closed")
  /\ pipe' = Detached(c)
  /\ hPipe' = [hPipe EXCEPT ![c] = NULL]
  /\ UNCHANGED <<server, sent, got, lost>>

\* The client's process is killed, or its machine is.
Kill(c) ==
  /\ client[c] \notin {"closed", "refused", "killed"}
  /\ client' = [client EXCEPT ![c] = "killed"]
  /\ hPipe' = [hPipe EXCEPT ![c] = NULL]
  /\ UNCHANGED <<pipe, server, sent, got, lost>>

\* The system learns of it, soon or after "one REALLY long time" (Pipe.pm).
Break(s) ==
  /\ s \in Instances /\ pipe[s].state = "connected" /\ client[pipe[s].client] = "killed"
  /\ pipe' = [pipe EXCEPT ![s].state = "broken"]
  /\ UNCHANGED <<server, client, hPipe, sent, got, lost>>

-----------------------------------------------------------------------------
ServerNext(s) ==
  \/ Create(s) \/ CreateFails(s) \/ Connect(s) \/ Connected(s) \/ Reconnect(s)
  \/ Read(s) \/ ReadFails(s) \/ Decide(s) \/ Disconnect(s) \/ Close(s)

ClientNext(c) ==
  \/ Open(c) \/ OpenBusy(c) \/ OpenFails(c) \/ WaitNamedPipe(c) \/ WaitFails(c)
  \/ Proceed(c) \/ Write(c) \/ WriteFails(c) \/ CloseFile(c)

Next ==
  \/ \E s \in Servers : ServerNext(s) \/ Break(s)
  \/ \E c \in Clients : ClientNext(c) \/ Kill(c)

(***************************************************************************)
(* A script goes on as far as its calls return: they are in a loop of the  *)
(* server's and in a straight line of the client's.  That WaitNamedPipe    *)
(* ends is part of it: XS_WIN32__Pipe_Create passes it a time.  Nobody has *)
(* to be killed, a server may read on for ever or exit, and the system     *)
(* need not learn of a client that was killed.                             *)
(***************************************************************************)
Fairness ==
  /\ \A s \in Servers : WF_vars(ServerNext(s))
  /\ \A c \in Clients : WF_vars(ClientNext(c))

Spec == Init /\ [][Next]_vars /\ Fairness

-----------------------------------------------------------------------------
\* Type invariant
Gone == {"closed", "refused", "killed"}

ServerStates ==
  {"idle", "failed", "created", "connecting", "reading", "read", "finished", "disconnected",
   "closing", "exiting", "gone"}

\* Where a script has no object, and where Read may have lost it.
Bare == {"idle", "failed", "gone"}

AfterRead == {"finished", "disconnected", "closing"}

ObjectOK(s) ==
  /\ server[s] \in Bare => pipe[s] = NULL
  /\ pipe[s] = NULL => server[s] \in Bare \cup AfterRead
  /\ server[s] = "gone" => lost[s] = {}

TypeOK ==
  /\ pipe \in [Servers -> Pipes \cup {NULL}]
  /\ \A s \in Instances :
       /\ pipe[s].client = NULL <=> s \in Listening
       /\ Len(pipe[s].data) <= Room
  /\ server \in [Servers -> ServerStates]
  /\ lost \in [Servers -> SUBSET Clients]
  /\ \A s \in Servers : /\ ObjectOK(s)
                        /\ \A c \in lost[s] : client[c] \in {"closed", "killed"}
  /\ client \in [Clients -> {"new", "waiting", "open", "writing", "closing"} \cup Gone]
  /\ hPipe \in [Clients -> Servers \cup {NULL}]
  /\ sent \in [Clients -> 0 .. MaxWrites]
  /\ got \in [Servers -> Seq(Clients \X Nat)]

\* What a server has read since it created its pipe, followed by what is under
\* way, is what its client has written, in order and from the start: Connect
\* never goes on to another client in the middle.
Written(c, n) == [i \in 1 .. n |-> <<c, i>>]

StreamKept ==
  \A s \in Instances :
    got[s] \o pipe[s].data =
      IF pipe[s].client = NULL THEN <<>>
      ELSE Written(pipe[s].client, sent[pipe[s].client])

\* A client that has closed its pipe has been read to the end, unless the
\* server closed first.
CloseDelivers ==
  \A s \in Instances :
    pipe[s].client # NULL /\ pipe[s].data # <<>> => client[pipe[s].client] # "closed"

\* Every client comes to its end: no open waits for ever for a busy pipe, no
\* write for room, and no close for the server to read.
ClientEnds == \A c \in Clients : client[c] = "new" ~> client[c] \in Gone

\* The server waits in Read for a client that was killed: no call of the module
\* ends that.
WaitsForKilled(s) ==
  /\ server[s] = "reading" /\ s \in Instances
  /\ pipe[s].state = "connected" /\ pipe[s].data = <<>> /\ client[pipe[s].client] = "killed"

\* A server that does not exit listens again and again, although Disconnect does
\* nothing and Read may lose the object: unless the system refuses it a pipe, or
\* keeps from it that the client it reads from was killed.
ServerListens ==
  \A s \in Servers :
    []<>(s \in Listening \/ server[s] \in {"failed", "gone"} \/ WaitsForKilled(s))
=============================================================================
