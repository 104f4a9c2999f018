-------------------------- MODULE NamedPipe_proofs --------------------------
(***************************************************************************)
(* Theorems about NamedPipe, for any servers and clients, any number of    *)
(* writes and any room in an instance.                                     *)
(***************************************************************************)
EXTENDS NamedPipe, SequenceTheorems, TLAPS

Opened == {"open", "writing", "closing"}

\* An instance belongs to a client that has opened it and no other, and the
\* client's handle is for it until the client is done.
OwnInstance ==
  \A s \in Instances : pipe[s].client # NULL =>
    /\ client[pipe[s].client] \in Opened \cup {"closed", "killed"}
    /\ client[pipe[s].client] \in Opened => hPipe[pipe[s].client] = s
    /\ \A t \in Instances : pipe[t].client = pipe[s].client => t = s

\* Whoever has not opened a pipe has written nothing, whoever writes has
\* something left to write, and nothing has been read from an instance that
\* listens.
Unsent ==
  \A c \in Clients : /\ client[c] \in {"new", "waiting"} => sent[c] = 0
                     /\ client[c] = "writing" => sent[c] < MaxWrites

Fresh == \A s \in Listening : got[s] = <<>> /\ pipe[s].data = <<>>

\* The system says of a client that it is gone only when it is.
BrokenOK ==
  \A s \in Instances : pipe[s].state = "broken" => client[pipe[s].client] \in {"closed", "killed"}

IInv == TypeOK /\ OwnInstance /\ BrokenOK /\ Unsent /\ Fresh /\ StreamKept /\ CloseDelivers

Message == Clients \X Nat

-----------------------------------------------------------------------------
\* What a read takes and what it leaves is what there was.
LEMMA Halves ==
  ASSUME NEW S, NEW b \in Seq(S), NEW n \in 1 .. Len(b)
  PROVE  /\ SubSeq(b, 1, n) \in Seq(S) /\ SubSeq(b, n + 1, Len(b)) \in Seq(S)
         /\ Len(SubSeq(b, n + 1, Len(b))) <= Len(b)
         /\ SubSeq(b, 1, n) \o SubSeq(b, n + 1, Len(b)) = b
<1> DEFINE x == SubSeq(b, 1, n)
           y == SubSeq(b, n + 1, Len(b))
<1>1. Len(b) \in Nat /\ n \in Nat /\ n <= Len(b) /\ \A i \in 1 .. Len(b) : b[i] \in S
  OBVIOUS
<1>2. x \in Seq(S) /\ Len(x) = n /\ \A i \in 1 .. n : x[i] = b[i]
  BY <1>1, SubSeqProperties
<1>3. y \in Seq(S) /\ Len(y) = Len(b) - n /\ \A i \in 1 .. Len(b) - n : y[i] = b[n + i]
  BY <1>1, SubSeqProperties
<1> HIDE DEF x, y
<1>4. x \o y \in Seq(S) /\ Len(x \o y) = Len(b)
      /\ \A i \in 1 .. Len(b) : (x \o y)[i] = IF i <= n THEN x[i] ELSE y[i - n]
  <2>1. /\ x \o y \in Seq(S)
        /\ Len(x \o y) = Len(x) + Len(y)
        /\ \A i \in 1 .. Len(x) + Len(y) : (x \o y)[i] =
                     IF i <= Len(x) THEN x[i] ELSE y[i - Len(x)]
    BY <1>2, <1>3, ConcatProperties
  <2> QED BY <1>1, <1>2, <1>3, <2>1
<1>5. ASSUME NEW i \in 1 .. Len(b)
      PROVE  (x \o y)[i] = b[i]
  <2>1. i \in Nat /\ (x \o y)[i] = IF i <= n THEN x[i] ELSE y[i - n]
    BY <1>1, <1>4
  <2>2. CASE i <= n
    <3>1. i \in 1 .. n
      BY <1>1, <2>1, <2>2
    <3> QED BY <1>2, <2>1, <2>2, <3>1
  <2>3. CASE ~(i <= n)
    <3>1. i - n \in 1 .. Len(b) - n /\ n + (i - n) = i
      BY <1>1, <2>1, <2>3
    <3> QED BY <1>3, <2>1, <2>3, <3>1
  <2> QED BY <2>2, <2>3
<1>6. x \o y = b
  BY <1>4, <1>5, SeqEqual
<1> QED BY <1>1, <1>2, <1>3, <1>6 DEF x, y

\* Reading moves the boundary between got and data and nothing else; writing
\* adds at the end.
LEMMA ReadMoves ==
  ASSUME NEW a \in Seq(Message), NEW x \in Seq(Message), NEW y \in Seq(Message)
  PROVE  a \o x \in Seq(Message) /\ (a \o x) \o y = a \o (x \o y)
BY ConcatAssociative, ConcatProperties

LEMMA EmptyStream == <<>> \o <<>> = <<>> /\ Len(<<>>) = 0
OBVIOUS

LEMMA WriteAppends ==
  ASSUME NEW a \in Seq(Message), NEW b \in Seq(Message), NEW x \in Message
  PROVE  a \o Append(b, x) = Append(a \o b, x)
BY AppendIsConcat, ConcatAssociative, ConcatProperties, EmptySeq DEF Message

LEMMA WrittenGrows ==
  ASSUME NEW c \in Clients, NEW n \in Nat
  PROVE  Append([i \in 1 .. n |-> <<c, i>>], <<c, n + 1>>) = [i \in 1 .. n + 1 |-> <<c, i>>]
<1> DEFINE a == [i \in 1 .. n |-> <<c, i>>]
           b == [i \in 1 .. n + 1 |-> <<c, i>>]
<1>1. a \in Seq(Message) /\ Len(a) = n /\ b \in Seq(Message) /\ Len(b) = n + 1
  BY DEF Message
<1>2. Append(a, <<c, n + 1>>) \in Seq(Message) /\ Len(Append(a, <<c, n + 1>>)) = n + 1
  BY <1>1 DEF Message
<1>3. ASSUME NEW i \in 1 .. n + 1
      PROVE  Append(a, <<c, n + 1>>)[i] = b[i]
  BY <1>1
<1> HIDE DEF a, b
<1>4. Append(a, <<c, n + 1>>) = b
  BY <1>1, <1>2, <1>3, SeqEqual
<1> QED BY <1>4 DEF a, b

-----------------------------------------------------------------------------
\* A step of a client that touches no pipe.
LEMMA ClientMoves ==
  ASSUME IInv, UNCHANGED <<pipe, server, hPipe, sent, got, lost>>,
         NEW c \in Clients, NEW from, NEW to, ClientGoes(c, from, to),
         \/ from \in {"new", "waiting"} /\ to \in {"new", "waiting", "refused"}
         \/ from \in Opened /\ to \in Opened,
         to = "writing" => sent[c] < MaxWrites
  PROVE  IInv'
<1> USE DEF IInv, ClientGoes, Opened, Gone
<1>1. client' \in [Clients -> {"new", "waiting", "open", "writing", "closing"} \cup Gone]
      /\ client' = [client EXCEPT ![c] = to]
  BY DEF TypeOK
<1>2. TypeOK'
  BY <1>1 DEF TypeOK, ObjectOK, Instances, Listening
<1>3. OwnInstance' /\ BrokenOK'
  BY <1>1 DEF TypeOK, OwnInstance, BrokenOK, Instances, Listening, Pipes
<1>4. Unsent' /\ Fresh'
  BY <1>1 DEF TypeOK, Unsent, Fresh, Instances, Listening
<1>5. StreamKept'
  BY DEF StreamKept, Instances
<1>6. CloseDelivers'
  BY <1>1 DEF TypeOK, CloseDelivers, Instances, Pipes
<1> QED BY <1>2, <1>3, <1>4, <1>5, <1>6

\* A step of a server that leaves its pipe alone.
LEMMA ServerMoves ==
  ASSUME IInv, UNCHANGED <<pipe, client, hPipe, sent, got>>,
         NEW s \in Servers, NEW to \in ServerStates, server' = [server EXCEPT ![s] = to],
         lost' \in [Servers -> SUBSET Clients],
         \A t \in Servers : lost'[t] \in {lost[t], {}}, ObjectOK(s)'
  PROVE  IInv'
<1>1. TypeOK'
  <2>1. \A t \in Servers : ObjectOK(t)'
    BY DEF IInv, TypeOK, ObjectOK, ServerStates
  <2>2. \A t \in Servers : \A c \in lost'[t] : client'[c] \in {"closed", "killed"}
    BY DEF IInv, TypeOK
  <2> QED BY <2>1, <2>2 DEF IInv, TypeOK, Instances, Listening, ServerStates
<1>2. OwnInstance' /\ BrokenOK' /\ Unsent'
  BY DEF IInv, OwnInstance, BrokenOK, Unsent, Instances
<1>3. Fresh' /\ CloseDelivers'
  BY DEF IInv, Fresh, CloseDelivers, Instances, Listening
<1>4. StreamKept'
  BY DEF IInv, StreamKept, Instances
<1> QED BY <1>1, <1>2, <1>3, <1>4 DEF IInv

LEMMA CreateFailsKeeps ==
  ASSUME IInv, NEW s \in Servers, CreateFails(s)
  PROVE  IInv'
<1>1. PICK to \in Bare : server[s] \in Bare /\ server' = [server EXCEPT ![s] = to]
  BY DEF CreateFails, ServerGoes, Bare
<1>2. /\ lost' \in [Servers -> SUBSET Clients]
      /\ \A t \in Servers : lost'[t] \in {lost[t], {}}
      /\ to = "gone" => lost'[s] = {}
  BY <1>1 DEF CreateFails, IInv, TypeOK
<1>3. ObjectOK(s)'
  BY <1>1, <1>2 DEF CreateFails, IInv, TypeOK, ObjectOK
<1>4. UNCHANGED <<pipe, client, hPipe, sent, got>> /\ to \in ServerStates
  BY <1>1 DEF CreateFails, Bare, ServerStates
<1> QED BY <1>1, <1>2, <1>3, <1>4, ServerMoves

-----------------------------------------------------------------------------
LEMMA CreateKeeps ==
  ASSUME IInv, NEW s \in Servers, Create(s)
  PROVE  IInv'
<1> DEFINE new == [state |-> "listening", client |-> NULL, data |-> <<>>]
<1>0. <<>> \in Seq(Clients \X Nat)
  OBVIOUS
<1>1. new \in Pipes /\ new # NULL /\ new.client = NULL /\ new.state = "listening" /\ new.data = <<>>
  <2>1. new \in Pipes
    BY <1>0 DEF Pipes
  <2> QED BY <2>1, NullAssumption
<1> HIDE DEF new
<1>2. /\ pipe' = [pipe EXCEPT ![s] = new] /\ got' = [got EXCEPT ![s] = <<>>]
      /\ server' = [server EXCEPT ![s] = "created"] /\ server[s] = "idle"
      /\ UNCHANGED <<client, hPipe, sent, lost>>
  BY DEF Create, ServerGoes, new
<1>3. TypeOK'
  <2>1. pipe' \in [Servers -> Pipes \cup {NULL}] /\ got' \in [Servers -> Seq(Clients \X Nat)]
    BY <1>1, <1>2 DEF IInv, TypeOK
  <2>2. \A t \in Instances' : /\ pipe'[t].client = NULL <=> t \in Listening'
                              /\ Len(pipe'[t].data) <= Room
    BY <1>1, <1>2, RoomAssumption DEF IInv, TypeOK, Instances, Listening
  <2>3. \A t \in Servers : ObjectOK(t)'
    BY <1>1, <1>2 DEF IInv, TypeOK, ObjectOK, Bare
  <2> QED BY <1>2, <2>1, <2>2, <2>3 DEF IInv, TypeOK, ServerStates
<1>4. OwnInstance' /\ BrokenOK' /\ Unsent'
  BY <1>1, <1>2 DEF IInv, TypeOK, OwnInstance, BrokenOK, Unsent, Instances
<1>5. Fresh' /\ CloseDelivers'
  BY <1>1, <1>2 DEF IInv, TypeOK, Fresh, CloseDelivers, Instances, Listening
<1>6. StreamKept'
  <2> SUFFICES ASSUME NEW t \in Instances'
               PROVE  got'[t] \o pipe'[t].data =
                        IF pipe'[t].client = NULL THEN <<>>
                        ELSE Written(pipe'[t].client, sent'[pipe'[t].client])
    BY DEF StreamKept
  <2>1. CASE t = s
    <3>1. got'[t] \o pipe'[t].data = <<>> \o <<>>
      BY <1>1, <1>2, <2>1 DEF IInv, TypeOK
    <3> QED BY <1>1, <1>2, <2>1, <3>1 DEF IInv, TypeOK
  <2>2. CASE t # s
    <3>1. t \in Instances /\ got'[t] = got[t] /\ pipe'[t] = pipe[t]
      BY <1>2, <2>2 DEF IInv, TypeOK, Instances
    <3> QED BY <1>2, <3>1 DEF IInv, StreamKept
  <2> QED BY <2>1, <2>2
<1> QED BY <1>3, <1>4, <1>5, <1>6 DEF IInv

\* A step that exchanges the pipe of a server: what has to be said of the new one.
LEMMA PipeChanges ==
  ASSUME IInv, NEW s \in Instances, NEW p \in Pipes, pipe' = [pipe EXCEPT ![s] = p],
         server'[s] \notin Bare, lost' = lost,
         \A t \in Servers \ {s} : server'[t] = server[t]
  PROVE  /\ Instances' = Instances
         /\ \A t \in Instances \ {s} : pipe'[t] = pipe[t]
         /\ pipe'[s] = p /\ p # NULL /\ s \in Servers
         /\ pipe' \in [Servers -> Pipes \cup {NULL}]
         /\ \A t \in Servers : ObjectOK(t)'
<1>1. s \in Servers /\ p # NULL /\ pipe \in [Servers -> Pipes \cup {NULL}]
  BY NullAssumption DEF IInv, TypeOK, Instances
<1>2. /\ pipe'[s] = p /\ pipe' \in [Servers -> Pipes \cup {NULL}]
      /\ \A t \in Servers \ {s} : pipe'[t] = pipe[t]
  BY <1>1
<1>3. Instances' = Instances /\ \A t \in Instances \ {s} : pipe'[t] = pipe[t]
  BY <1>1, <1>2 DEF Instances
<1>4. ASSUME NEW t \in Servers
      PROVE  ObjectOK(t)'
  <2>1. CASE t = s
    BY <1>1, <1>2, <2>1 DEF ObjectOK, Bare
  <2>2. CASE t # s
    BY <1>2, <2>2 DEF IInv, TypeOK, ObjectOK
  <2> QED BY <2>1, <2>2
<1> QED BY <1>1, <1>2, <1>3, <1>4

LEMMA ReadKeeps ==
  ASSUME IInv, NEW s \in Servers, Read(s)
  PROVE  IInv'
<1> PICK n \in 1 .. Len(pipe[s].data) :
      /\ got' = [got EXCEPT ![s] = @ \o SubSeq(pipe[s].data, 1, n)]
      /\ pipe' = [pipe EXCEPT ![s].data = SubSeq(@, n + 1, Len(@))]
  BY DEF Read
<1> DEFINE rest == SubSeq(pipe[s].data, n + 1, Len(pipe[s].data))
           p == [pipe[s] EXCEPT !.data = rest]
<1> HIDE DEF rest, p
<1>1. /\ server[s] = "reading" /\ server' = [server EXCEPT ![s] = "read"]
      /\ UNCHANGED <<client, hPipe, sent, lost>>
      /\ s \in Instances /\ pipe[s] \in Pipes /\ Len(pipe[s].data) <= Room
  BY DEF Read, ServerGoes, IInv, TypeOK, Instances
<1>2. /\ got[s] \in Seq(Message) /\ pipe[s].data \in Seq(Message)
  BY <1>1 DEF IInv, TypeOK, Pipes, Message
<1>3. /\ got'[s] \in Seq(Message) /\ rest \in Seq(Message) /\ Len(rest) <= Room
      /\ got'[s] \o rest = got[s] \o pipe[s].data
  <2> DEFINE taken == SubSeq(pipe[s].data, 1, n)
  <2>1. got'[s] = got[s] \o taken
    BY DEF IInv, TypeOK
  <2>2. /\ taken \in Seq(Message) /\ rest \in Seq(Message) /\ Len(rest) <= Len(pipe[s].data)
        /\ taken \o rest = pipe[s].data
    BY <1>2, Halves DEF rest
  <2> HIDE DEF taken
  <2>3. got[s] \o taken \in Seq(Message) /\ (got[s] \o taken) \o rest = got[s] \o (taken \o rest)
    BY <1>2, <2>2, ReadMoves
  <2>4. Len(rest) \in Nat /\ Len(pipe[s].data) \in Nat
    BY <1>2, <2>2, LenProperties
  <2>5. Len(rest) <= Room
    BY <1>1, <2>2, <2>4, RoomAssumption
  <2> QED BY <2>1, <2>2, <2>3, <2>5
<1>4. pipe' = [pipe EXCEPT ![s] = p]
  BY <1>1 DEF IInv, TypeOK, rest, p
<1>5. p \in Pipes /\ p.client = pipe[s].client /\ p.state = pipe[s].state /\ p.data = rest
  BY <1>1, <1>3 DEF Pipes, Message, p
<1>6. /\ server' \in [Servers -> ServerStates] /\ server'[s] = "read"
      /\ "read" \notin Bare /\ \A t \in Servers \ {s} : server'[t] = server[t]
  BY <1>1 DEF IInv, TypeOK, ServerStates, Bare
<1>7. /\ Instances' = Instances
      /\ \A t \in Instances \ {s} : pipe'[t] = pipe[t]
      /\ pipe'[s] = p /\ p # NULL
      /\ pipe' \in [Servers -> Pipes \cup {NULL}]
      /\ \A t \in Servers : ObjectOK(t)'
  BY <1>1, <1>4, <1>5, <1>6, PipeChanges
<1>8. s \notin Listening
  BY <1>1, <1>2, EmptyStream DEF IInv, Fresh
<1>9. TypeOK'
  <2>1. got' \in [Servers -> Seq(Clients \X Nat)]
    BY <1>3 DEF IInv, TypeOK, Message
  <2>2. \A t \in Instances' : /\ pipe'[t].client = NULL <=> t \in Listening'
                              /\ Len(pipe'[t].data) <= Room
    <3>1. ASSUME NEW t \in Instances \ {s}
          PROVE  /\ pipe'[t].client = NULL <=> t \in Listening'
                 /\ Len(pipe'[t].data) <= Room
      BY <1>7 DEF IInv, TypeOK, Listening
    <3>2. pipe'[s].client = NULL <=> s \in Listening'
      BY <1>1, <1>5, <1>7 DEF IInv, TypeOK, Listening
    <3>3. Len(pipe'[s].data) <= Room
      BY <1>3, <1>5, <1>7
    <3> QED BY <1>7, <3>1, <3>2, <3>3
  <2> QED BY <1>1, <1>6, <1>7, <2>1, <2>2 DEF IInv, TypeOK
<1>10. OwnInstance' /\ BrokenOK' /\ Unsent'
  BY <1>1, <1>5, <1>7 DEF IInv, OwnInstance, BrokenOK, Unsent
<1>11. Fresh'
  <2>1. \A t \in Listening' : t \in Listening /\ t # s
    BY <1>1, <1>5, <1>7, <1>8 DEF Listening
  <2>2. \A t \in Listening : t \in Servers /\ t \in Instances
    BY DEF Listening, Instances
  <2> QED BY <1>7, <2>1, <2>2 DEF IInv, TypeOK, Fresh
<1>12. CloseDelivers'
  <2>1. pipe[s].data # <<>>
    BY <1>2, EmptyStream
  <2> QED BY <1>1, <1>5, <1>7, <2>1 DEF IInv, CloseDelivers
<1>13. StreamKept'
  <2>1. got'[s] \o pipe'[s].data = got[s] \o pipe[s].data
    BY <1>3, <1>5, <1>7
  <2>2. \A t \in Instances \ {s} : got'[t] = got[t]
    BY DEF IInv, TypeOK, Instances
  <2>3. pipe'[s].client = pipe[s].client /\ sent' = sent
    BY <1>1, <1>5, <1>7
  <2> SUFFICES ASSUME NEW t \in Instances
               PROVE  got'[t] \o pipe'[t].data =
                        IF pipe'[t].client = NULL THEN <<>>
                        ELSE Written(pipe'[t].client, sent'[pipe'[t].client])
    BY <1>7 DEF StreamKept
  <2>4. got[t] \o pipe[t].data = IF pipe[t].client = NULL THEN <<>>
                                ELSE Written(pipe[t].client, sent[pipe[t].client])
    BY DEF IInv, StreamKept
  <2>5. CASE t = s
    BY <2>1, <2>3, <2>4, <2>5
  <2>6. CASE t # s
    BY <1>7, <2>2, <2>3, <2>4, <2>6
  <2> QED BY <2>5, <2>6
<1> QED BY <1>9, <1>10, <1>11, <1>12, <1>13 DEF IInv

\* A server is without its object after the step: it was closed, or lost.
LEMMA DropKeeps ==
  ASSUME IInv, NEW s \in Servers, pipe' = [pipe EXCEPT ![s] = NULL],
         UNCHANGED <<client, hPipe, sent, got>>,
         NEW to \in Bare \cup AfterRead, server' = [server EXCEPT ![s] = to],
         lost' \in [Servers -> SUBSET Clients],
         \A t \in Servers \ {s} : lost'[t] = lost[t],
         \A c \in lost'[s] : client[c] \in {"closed", "killed"},
         to = "gone" => lost'[s] = {}
  PROVE  IInv'
<1>1. /\ server' \in [Servers -> ServerStates] /\ server'[s] = to
      /\ \A t \in Servers \ {s} : server'[t] = server[t]
  BY DEF IInv, TypeOK, ServerStates, Bare, AfterRead
<1>2. /\ Instances' = Instances \ {s}
      /\ \A t \in Instances \ {s} : pipe'[t] = pipe[t]
      /\ Listening' = Listening \ {s}
  BY DEF IInv, TypeOK, Instances, Listening
<1>3. TypeOK'
  <2>1. pipe' \in [Servers -> Pipes \cup {NULL}] /\ pipe'[s] = NULL
        /\ \A t \in Servers \ {s} : pipe'[t] = pipe[t]
    BY DEF IInv, TypeOK
  <2>2. \A t \in Servers : ObjectOK(t)'
    BY <1>1, <2>1 DEF IInv, TypeOK, ObjectOK
  <2>3. \A t \in Servers : \A c \in lost'[t] : client'[c] \in {"closed", "killed"}
    BY DEF IInv, TypeOK
  <2> QED BY <1>1, <1>2, <2>1, <2>2, <2>3 DEF IInv, TypeOK
<1>4. OwnInstance' /\ BrokenOK' /\ Unsent'
  BY <1>2 DEF IInv, OwnInstance, BrokenOK, Unsent
<1>5. Fresh' /\ CloseDelivers'
  BY <1>2 DEF IInv, TypeOK, Fresh, CloseDelivers, Listening
<1>6. StreamKept'
  BY <1>2 DEF IInv, StreamKept
<1> QED BY <1>3, <1>4, <1>5, <1>6 DEF IInv

LEMMA CloseKeeps ==
  ASSUME IInv, NEW s \in Servers, Close(s)
  PROVE  IInv'
<1>1. PICK to \in Bare : /\ server' = [server EXCEPT ![s] = to]
                         /\ to = "gone" => lost' = [lost EXCEPT ![s] = {}]
                         /\ to # "gone" => lost' = lost
  BY DEF Close, ServerGoes, Bare
<1>2. /\ lost' \in [Servers -> SUBSET Clients]
      /\ \A t \in Servers \ {s} : lost'[t] = lost[t]
      /\ \A c \in lost'[s] : client[c] \in {"closed", "killed"}
      /\ to = "gone" => lost'[s] = {}
  BY <1>1 DEF IInv, TypeOK
<1> QED BY <1>1, <1>2, DropKeeps DEF Close

\* Only the instance of a client that is gone is lost.
LEMMA ReadFailsKeeps ==
  ASSUME IInv, NEW s \in Servers, ReadFails(s)
  PROVE  IInv'
<1>1. s \in Instances /\ pipe[s].state = "broken"
  BY DEF ReadFails, ServerGoes, IInv, TypeOK, ObjectOK, Instances, Bare, AfterRead
<1>2. pipe[s].client \in Clients /\ client[pipe[s].client] \in {"closed", "killed"}
  BY <1>1 DEF IInv, TypeOK, Instances, Listening, Pipes, BrokenOK
<1>3. lost' = [lost EXCEPT ![s] = lost[s] \cup {pipe[s].client}]
  BY <1>1 DEF ReadFails
<1>4. /\ lost' \in [Servers -> SUBSET Clients]
      /\ \A t \in Servers \ {s} : lost'[t] = lost[t]
      /\ \A c \in lost'[s] : client[c] \in {"closed", "killed"}
  BY <1>2, <1>3 DEF IInv, TypeOK
<1> QED BY <1>4, DropKeeps DEF ReadFails, ServerGoes, AfterRead

LEMMA ServerKeeps ==
  ASSUME IInv, NEW s \in Servers, ServerNext(s)
  PROVE  IInv'
<1> USE DEF ServerGoes, ServerStates, ObjectOK, Bare, AfterRead
<1>0. /\ lost \in [Servers -> SUBSET Clients]
      /\ ObjectOK(s) /\ server \in [Servers -> ServerStates]
  BY DEF IInv, TypeOK
<1>1. CASE Connect(s)
  BY <1>0, <1>1, ServerMoves DEF Connect, Listening, Instances
<1>2. CASE Connected(s)
  BY <1>0, <1>2, ServerMoves DEF Connected
<1>3. CASE Reconnect(s)
  BY <1>0, <1>3, ServerMoves DEF Reconnect, Instances
<1>4. CASE Decide(s)
  BY <1>0, <1>4, ServerMoves DEF Decide
<1>5. CASE Disconnect(s)
  BY <1>0, <1>5, ServerMoves DEF Disconnect
<1> QED BY <1>1, <1>2, <1>3, <1>4, <1>5, CreateKeeps, CreateFailsKeeps, ReadKeeps, ReadFailsKeeps,
           CloseKeeps
        DEF ServerNext

-----------------------------------------------------------------------------
LEMMA OpenKeeps ==
  ASSUME IInv, NEW c \in Clients, Open(c)
  PROVE  IInv'
<1> PICK s \in Listening : /\ pipe' = [pipe EXCEPT ![s].state = "connected", ![s].client = c]
                          /\ hPipe' = [hPipe EXCEPT ![c] = s]
  BY DEF Open
<1> DEFINE p == [pipe[s] EXCEPT !.state = "connected", !.client = c]
<1>1. /\ client[c] = "new" /\ client' = [client EXCEPT ![c] = "open"]
      /\ UNCHANGED <<server, sent, got, lost>>
  BY DEF Open, ClientGoes
<1>2. s \in Instances /\ s \in Servers /\ pipe[s] \in Pipes /\ pipe[s].data = <<>> /\ got[s] = <<>>
  BY DEF IInv, TypeOK, Instances, Listening, Fresh
<1>3. p \in Pipes /\ p.client = c /\ p.state = "connected" /\ p.data = <<>>
  BY <1>2 DEF Pipes
<1>4. pipe' = [pipe EXCEPT ![s] = p]
  BY <1>2
<1> HIDE DEF p
<1>5. server'[s] \notin Bare /\ \A t \in Servers \ {s} : server'[t] = server[t]
  BY <1>1, <1>2 DEF IInv, TypeOK, ObjectOK, Instances
<1>6. /\ Instances' = Instances
      /\ \A t \in Instances \ {s} : pipe'[t] = pipe[t]
      /\ pipe'[s] = p /\ p # NULL
      /\ pipe' \in [Servers -> Pipes \cup {NULL}]
      /\ \A t \in Servers : ObjectOK(t)'
  BY <1>1, <1>2, <1>3, <1>4, <1>5, PipeChanges
<1>7. Listening' = Listening \ {s} /\ c # NULL
  <2>1. Listening' = {t \in Instances : pipe'[t].state = "listening"}
    BY <1>6 DEF Listening
  <2>2. ASSUME NEW t \in Instances
        PROVE  t \in Listening' <=> t \in Listening \ {s}
    BY <2>1, <1>3, <1>6 DEF Listening
  <2>3. c # NULL
    BY NullAssumption
  <2> QED BY <2>1, <2>2, <2>3 DEF Listening
<1>8. sent[c] = 0
  BY <1>1 DEF IInv, Unsent
<1>9. \A t \in Instances : pipe[t].client # c
  BY <1>1, <1>7 DEF IInv, OwnInstance, Opened
<1>10. /\ client' \in [Clients -> {"new", "waiting", "open", "writing", "closing"} \cup Gone]
       /\ client'[c] = "open" /\ \A d \in Clients \ {c} : client'[d] = client[d]
       /\ hPipe' \in [Clients -> Servers \cup {NULL}]
       /\ hPipe'[c] = s /\ \A d \in Clients \ {c} : hPipe'[d] = hPipe[d]
  BY <1>1, <1>2 DEF IInv, TypeOK
<1>11. TypeOK'
  <2>1. \A t \in Instances' : /\ pipe'[t].client = NULL <=> t \in Listening'
                              /\ Len(pipe'[t].data) <= Room
    <3>1. pipe'[s].client # NULL /\ Len(pipe'[s].data) = 0
      BY <1>3, <1>6, <1>7, EmptyStream
    <3>2. \A t \in Instances \ {s} : /\ pipe'[t].client = NULL <=> t \in Listening'
                                    /\ Len(pipe'[t].data) <= Room
      BY <1>6, <1>7 DEF IInv, TypeOK
    <3>3. s \notin Listening' /\ Len(pipe'[s].data) <= Room
      BY <1>7, <3>1, RoomAssumption
    <3> QED BY <1>6, <3>1, <3>2, <3>3
  <2>2. \A t \in Servers : \A d \in lost'[t] : client'[d] \in {"closed", "killed"}
    BY <1>1, <1>10 DEF IInv, TypeOK
  <2> QED BY <1>1, <1>6, <1>10, <2>1, <2>2 DEF IInv, TypeOK
<1>12. OwnInstance'
  BY <1>1, <1>3, <1>6, <1>9, <1>10 DEF IInv, TypeOK, OwnInstance, Opened, Instances, Pipes
<1>13. Unsent' /\ Fresh' /\ BrokenOK'
  <2>0. BrokenOK'
    BY <1>3, <1>6, <1>9, <1>10 DEF IInv, TypeOK, BrokenOK, Instances, Listening, Pipes
  <2>1. Unsent'
    BY <1>1, <1>10 DEF IInv, Unsent
  <2>2. Fresh'
    BY <1>1, <1>6, <1>7 DEF IInv, Fresh, Listening
  <2> QED BY <2>0, <2>1, <2>2
<1>14. StreamKept'
  <2>1. Written(c, 0) = <<>>
    BY DEF Written
  <2> SUFFICES ASSUME NEW t \in Instances
               PROVE  got'[t] \o pipe'[t].data =
                        IF pipe'[t].client = NULL THEN <<>>
                        ELSE Written(pipe'[t].client, sent'[pipe'[t].client])
    BY <1>6 DEF StreamKept
  <2>2. CASE t = s
    <3>1. got'[s] \o pipe'[s].data = <<>>
      BY <1>1, <1>2, <1>3, <1>6, EmptyStream
    <3>2. pipe'[s].client = c /\ sent'[c] = 0
      BY <1>1, <1>3, <1>6, <1>8
    <3> QED BY <1>7, <2>1, <2>2, <3>1, <3>2
  <2>3. CASE t # s
    BY <1>1, <1>6, <2>3 DEF IInv, StreamKept
  <2> QED BY <2>2, <2>3
<1>15. CloseDelivers'
  BY <1>1, <1>3, <1>6, <1>9, <1>10 DEF IInv, TypeOK, CloseDelivers, Instances, Pipes
<1> QED BY <1>11, <1>12, <1>13, <1>14, <1>15 DEF IInv

LEMMA WriteKeeps ==
  ASSUME IInv, NEW c \in Clients, Write(c)
  PROVE  IInv'
<1> DEFINE s == hPipe[c]
           x == <<c, sent[c] + 1>>
           p == [pipe[s] EXCEPT !.data = Append(@, x)]
<1>1. /\ client[c] = "writing" /\ client' = [client EXCEPT ![c] = "open"]
      /\ sent' = [sent EXCEPT ![c] = sent[c] + 1]
      /\ sent[c] \in 0 .. MaxWrites - 1
      /\ UNCHANGED <<server, hPipe, got, lost>>
  BY RoomAssumption DEF Write, ClientGoes, IInv, TypeOK, Unsent
<1>2. s \in Instances /\ s \in Servers /\ pipe[s] \in Pipes /\ pipe[s].client = c /\ c # NULL
      /\ Len(pipe[s].data) < Room
  <2>1. c # NULL
    BY NullAssumption
  <2> QED BY <2>1 DEF Write, Attached, IInv, TypeOK, Instances
<1>3. pipe' = [pipe EXCEPT ![s] = p]
  BY <1>1, <1>2 DEF Write, IInv, TypeOK
<1>4. /\ pipe[s].data \in Seq(Message) /\ got[s] \in Seq(Message) /\ x \in Message
      /\ Append(pipe[s].data, x) \in Seq(Message)
      /\ Len(Append(pipe[s].data, x)) <= Room
  <2>1. x \in Message
    BY <1>1 DEF Message
  <2> QED BY <1>2, <2>1, AppendProperties, RoomAssumption DEF IInv, TypeOK, Pipes, Message
<1>5. p \in Pipes /\ p.client = c /\ p.state = pipe[s].state /\ p.data = Append(pipe[s].data, x)
  BY <1>2, <1>4 DEF Pipes, Message
<1> HIDE DEF p
<1>6. server'[s] \notin Bare /\ \A t \in Servers \ {s} : server'[t] = server[t]
  BY <1>1, <1>2 DEF IInv, TypeOK, ObjectOK, Instances
<1>7. /\ Instances' = Instances
      /\ \A t \in Instances \ {s} : pipe'[t] = pipe[t]
      /\ pipe'[s] = p /\ p # NULL
      /\ pipe' \in [Servers -> Pipes \cup {NULL}]
      /\ \A t \in Servers : ObjectOK(t)'
  BY <1>1, <1>2, <1>3, <1>5, <1>6, PipeChanges
<1>8. Listening' = Listening
  <2>1. Listening' = {t \in Instances : pipe'[t].state = "listening"}
    BY <1>7 DEF Listening
  <2> QED BY <2>1, <1>5, <1>7 DEF Listening
<1>9. s \notin Listening
  BY <1>2 DEF IInv, TypeOK
<1>10. \A t \in Instances \ {s} : pipe[t].client # c
  BY <1>2 DEF IInv, OwnInstance
<1>11. /\ client' \in [Clients -> {"new", "waiting", "open", "writing", "closing"} \cup Gone]
       /\ client'[c] = "open" /\ \A d \in Clients \ {c} : client'[d] = client[d]
       /\ sent' \in [Clients -> 0 .. MaxWrites]
       /\ sent'[c] = sent[c] + 1 /\ \A d \in Clients \ {c} : sent'[d] = sent[d]
  BY <1>1, RoomAssumption DEF IInv, TypeOK
<1>12. TypeOK'
  <2>1. \A t \in Instances \ {s} : /\ pipe'[t].client = NULL <=> t \in Listening'
                                  /\ Len(pipe'[t].data) <= Room
    BY <1>7, <1>8 DEF IInv, TypeOK
  <2>2. /\ pipe'[s].client = NULL <=> s \in Listening'
        /\ Len(pipe'[s].data) <= Room
    BY <1>2, <1>4, <1>5, <1>7, <1>8, <1>9
  <2>3. \A t \in Servers : \A d \in lost'[t] : client'[d] \in {"closed", "killed"}
    BY <1>1, <1>11 DEF IInv, TypeOK
  <2> QED BY <1>1, <1>2, <1>7, <1>11, <2>1, <2>2, <2>3 DEF IInv, TypeOK
<1>13. OwnInstance' /\ BrokenOK'
  <2>1. OwnInstance'
    <3>1. \A t \in Instances : pipe'[t].client = pipe[t].client
      BY <1>2, <1>5, <1>7
    <3>2. \A d \in Clients : client'[d] \in Opened <=> client[d] \in Opened
      BY <1>1, <1>11 DEF Opened
    <3>3. \A t \in Instances : pipe[t].client # NULL => pipe[t].client \in Clients
      BY DEF IInv, TypeOK, Instances, Pipes
    <3>4. \A d \in Clients : client'[d] \in Opened \/ client'[d] = client[d]
      BY <1>11 DEF Opened
    <3> QED BY <1>1, <1>7, <3>1, <3>2, <3>3, <3>4 DEF IInv, OwnInstance
  <2>2. pipe[s].state # "broken"
    BY <1>1, <1>2 DEF IInv, BrokenOK
  <2>3. \A t \in Instances \ {s} : pipe[t].state = "broken" => pipe[t].client \in Clients
    BY DEF IInv, TypeOK, Instances, Listening, Pipes
  <2>4. BrokenOK'
    BY <1>5, <1>7, <1>10, <1>11, <2>2, <2>3 DEF IInv, BrokenOK
  <2> QED BY <2>1, <2>4
<1>14. Unsent' /\ Fresh'
  <2>1. Unsent'
    BY <1>1, <1>11 DEF IInv, Unsent
  <2>2. Fresh'
    BY <1>1, <1>7, <1>8, <1>9 DEF IInv, Fresh, Listening
  <2> QED BY <2>1, <2>2
<1>15. StreamKept'
  <2> SUFFICES ASSUME NEW t \in Instances
               PROVE  got'[t] \o pipe'[t].data =
                        IF pipe'[t].client = NULL THEN <<>>
                        ELSE Written(pipe'[t].client, sent'[pipe'[t].client])
    BY <1>7 DEF StreamKept
  <2>1. got[t] \o pipe[t].data = IF pipe[t].client = NULL THEN <<>>
                                ELSE Written(pipe[t].client, sent[pipe[t].client])
    BY DEF IInv, StreamKept
  <2>2. CASE t = s
    <3>1. got'[s] \o pipe'[s].data = Append(got[s] \o pipe[s].data, x)
      <4>1. got'[s] = got[s] /\ pipe'[s].data = Append(pipe[s].data, x)
        BY <1>1, <1>5, <1>7
      <4>2. got[s] \o Append(pipe[s].data, x) = Append(got[s] \o pipe[s].data, x)
        BY <1>4, WriteAppends
      <4> QED BY <4>1, <4>2
    <3>2. Append(Written(c, sent[c]), x) = Written(c, sent[c] + 1)
      BY <1>1, RoomAssumption, WrittenGrows DEF Written
    <3>3. pipe'[s].client = c /\ sent'[c] = sent[c] + 1
      BY <1>5, <1>7, <1>11
    <3>4. got[s] \o pipe[s].data = Written(c, sent[c])
      BY <1>2, <2>1, <2>2
    <3> QED BY <1>2, <2>2, <3>1, <3>2, <3>3, <3>4
  <2>3. CASE t # s
    <3>1. pipe[t].client # NULL => sent'[pipe[t].client] = sent[pipe[t].client]
      BY <1>10, <1>11, <2>3 DEF IInv, TypeOK, Instances, Pipes
    <3>2. got'[t] = got[t] /\ pipe'[t] = pipe[t]
      BY <1>1, <1>7, <2>3
    <3> QED BY <2>1, <3>1, <3>2
  <2> QED BY <2>2, <2>3
<1>16. CloseDelivers'
  <2> SUFFICES ASSUME NEW t \in Instances, pipe'[t].client # NULL, pipe'[t].data # <<>>
               PROVE  client'[pipe'[t].client] # "closed"
    BY <1>7 DEF CloseDelivers
  <2>1. CASE t = s
    BY <1>5, <1>7, <1>11, <2>1
  <2>2. CASE t # s
    <3>1. pipe'[t] = pipe[t] /\ pipe[t].client \in Clients /\ pipe[t].client # c
      BY <1>7, <1>10, <2>2 DEF IInv, TypeOK, Instances, Pipes
    <3> QED BY <1>11, <3>1 DEF IInv, CloseDelivers
  <2> QED BY <2>1, <2>2
<1> QED BY <1>12, <1>13, <1>14, <1>15, <1>16 DEF IInv

\* A client is done, or the system learns of one that is: its instance may break.
LEMMA DetachKeeps ==
  ASSUME IInv, NEW c \in Clients, NEW to \in {"closed", "killed"},
         client' = [client EXCEPT ![c] = to], client[c] \notin {"closed", "refused"},
         to = "closed" => /\ client[c] = "closing"
                          /\ \A t \in Instances : pipe[t].client = c => pipe[t].data = <<>>,
         \/ pipe' = pipe
         \/ \E t \in Instances : /\ pipe[t].client = c
                                 /\ pipe' = [pipe EXCEPT ![t].state = "broken"],
         hPipe' \in [Clients -> Servers \cup {NULL}],
         \A d \in Clients \ {c} : hPipe'[d] = hPipe[d],
         UNCHANGED <<server, sent, got, lost>>
  PROVE  IInv'
<1>1. /\ client' \in [Clients -> {"new", "waiting", "open", "writing", "closing"} \cup Gone]
      /\ client'[c] = to /\ \A d \in Clients \ {c} : client'[d] = client[d]
  BY DEF IInv, TypeOK, Gone
<1>2. Unsent'
  BY <1>1 DEF IInv, Unsent
<1>3. \A t \in Servers : \A d \in lost'[t] : client'[d] \in {"closed", "killed"}
  BY <1>1 DEF IInv, TypeOK
<1>4. \A t \in Instances : t \in Servers /\ pipe[t].client \in Clients \cup {NULL}
  BY DEF IInv, TypeOK, Instances, Pipes
<1>5. CASE pipe' = pipe
  <2>1. Instances' = Instances /\ Listening' = Listening
    BY <1>5 DEF Instances, Listening
  <2>2. TypeOK'
    BY <1>1, <1>3, <1>5, <2>1 DEF IInv, TypeOK, ObjectOK
  <2>3. OwnInstance' /\ BrokenOK'
    <3>1. \A t \in Instances : pipe[t].client # NULL =>
            /\ client'[pipe[t].client] \in Opened \cup {"closed", "killed"}
            /\ client'[pipe[t].client] \in Opened => hPipe'[pipe[t].client] = t
      BY <1>1, <1>4 DEF IInv, OwnInstance, Opened
    <3>2. \A t \in Instances : pipe[t].state = "broken" => pipe[t].client \in Clients
      BY <1>4 DEF IInv, TypeOK, Listening
    <3> QED BY <1>1, <1>5, <2>1, <3>1, <3>2 DEF IInv, OwnInstance, BrokenOK
  <2>4. Fresh'
    BY <1>5, <2>1 DEF IInv, Fresh
  <2>5. StreamKept'
    BY <1>5, <2>1 DEF IInv, StreamKept
  <2>6. CloseDelivers'
    BY <1>1, <1>4, <1>5, <2>1 DEF IInv, CloseDelivers
  <2> QED BY <1>2, <2>2, <2>3, <2>4, <2>5, <2>6 DEF IInv
<1>6. ASSUME NEW s \in Instances, pipe[s].client = c, pipe' = [pipe EXCEPT ![s].state = "broken"]
      PROVE  IInv'
  <2> DEFINE p == [pipe[s] EXCEPT !.state = "broken"]
  <2>1. s \in Servers /\ pipe[s] \in Pipes /\ pipe[s].client = c /\ c # NULL
    <3>1. c # NULL
      BY NullAssumption
    <3> QED BY <1>6, <3>1 DEF IInv, TypeOK, Instances
  <2>2. pipe' = [pipe EXCEPT ![s] = p]
    BY <1>6, <2>1 DEF IInv, TypeOK
  <2>3. p \in Pipes /\ p.client = c /\ p.state = "broken" /\ p.data = pipe[s].data
    BY <2>1 DEF Pipes
  <2> HIDE DEF p
  <2>4. server'[s] \notin Bare /\ \A t \in Servers \ {s} : server'[t] = server[t]
    BY <2>1 DEF IInv, TypeOK, ObjectOK, Instances
  <2>5. /\ Instances' = Instances
        /\ \A t \in Instances \ {s} : pipe'[t] = pipe[t]
        /\ pipe'[s] = p /\ p # NULL
        /\ pipe' \in [Servers -> Pipes \cup {NULL}]
        /\ \A t \in Servers : ObjectOK(t)'
    BY <2>1, <2>2, <2>3, <2>4, PipeChanges
  <2>6. s \notin Listening
    BY <2>1 DEF IInv, TypeOK
  <2>7. Listening' = Listening
    <3>1. Listening' = {t \in Instances : pipe'[t].state = "listening"}
      BY <2>5 DEF Listening
    <3>2. ASSUME NEW t \in Instances
          PROVE  pipe'[t].state = "listening" <=> t \in Listening
      BY <2>3, <2>5, <2>6 DEF Listening
    <3> QED BY <3>1, <3>2 DEF Listening
  <2>8. TypeOK'
    <3>1. \A t \in Instances \ {s} : /\ pipe'[t].client = NULL <=> t \in Listening'
                                    /\ Len(pipe'[t].data) <= Room
      BY <2>5, <2>7 DEF IInv, TypeOK
    <3>2. /\ pipe'[s].client = NULL <=> s \in Listening'
          /\ Len(pipe'[s].data) <= Room
      BY <2>1, <2>3, <2>5, <2>6, <2>7 DEF IInv, TypeOK
    <3> QED BY <1>1, <1>3, <2>1, <2>5, <3>1, <3>2 DEF IInv, TypeOK
  <2>9. \A t \in Instances : pipe'[t].client = pipe[t].client /\ pipe'[t].data = pipe[t].data
    BY <2>1, <2>3, <2>5
  <2>10. OwnInstance' /\ BrokenOK'
    <3>1. \A t \in Instances : pipe[t].client # NULL =>
            /\ client'[pipe[t].client] \in Opened \cup {"closed", "killed"}
            /\ client'[pipe[t].client] \in Opened => hPipe'[pipe[t].client] = t
      BY <1>1, <1>4 DEF IInv, OwnInstance, Opened
    <3>2. \A t \in Instances \ {s} : pipe[t].state = "broken" => pipe[t].client \in Clients
      BY <1>4 DEF IInv, TypeOK, Listening
    <3>3. OwnInstance'
      BY <2>5, <2>9, <3>1 DEF IInv, OwnInstance
    <3>4. BrokenOK'
      BY <1>1, <2>3, <2>5, <2>9, <3>2 DEF IInv, BrokenOK
    <3> QED BY <3>3, <3>4
  <2>11. Fresh'
    BY <2>5, <2>6, <2>7 DEF IInv, Fresh, Listening
  <2>12. StreamKept'
    BY <2>5, <2>9 DEF IInv, StreamKept
  <2>13. CloseDelivers'
    BY <1>1, <1>4, <2>5, <2>9 DEF IInv, CloseDelivers
  <2> QED BY <1>2, <2>8, <2>10, <2>11, <2>12, <2>13 DEF IInv
<1> QED BY <1>5, <1>6

\* ~CPipe of a client.
LEMMA CloseFileKeeps ==
  ASSUME IInv, NEW c \in Clients, CloseFile(c)
  PROVE  IInv'
<1>1. client[c] = "closing" /\ client' = [client EXCEPT ![c] = "closed"]
      /\ hPipe' = [hPipe EXCEPT ![c] = NULL] /\ UNCHANGED <<server, sent, got, lost>>
  BY DEF CloseFile, ClientGoes
<1>2. /\ hPipe' \in [Clients -> Servers \cup {NULL}]
      /\ \A d \in Clients \ {c} : hPipe'[d] = hPipe[d]
  BY <1>1 DEF IInv, TypeOK
<1>3. \A t \in Instances : pipe[t].client = c => hPipe[c] = t /\ Attached(c)
  BY <1>1, NullAssumption DEF IInv, TypeOK, OwnInstance, Opened, Instances, Attached
<1>4. \A t \in Instances : pipe[t].client = c => pipe[t].data = <<>>
  BY <1>3 DEF CloseFile
<1>5. \/ pipe' = pipe
      \/ \E t \in Instances : /\ pipe[t].client = c
                              /\ pipe' = [pipe EXCEPT ![t].state = "broken"]
  <2>1. Attached(c) => hPipe[c] \in Instances /\ pipe[hPipe[c]].client = c
    BY DEF Attached, IInv, TypeOK, Instances
  <2> QED BY <2>1 DEF CloseFile, Detached
<1> QED BY <1>1, <1>2, <1>4, <1>5, DetachKeeps

LEMMA KillKeeps ==
  ASSUME IInv, NEW c \in Clients, Kill(c)
  PROVE  IInv'
<1>1. /\ hPipe' \in [Clients -> Servers \cup {NULL}]
      /\ \A d \in Clients \ {c} : hPipe'[d] = hPipe[d]
  BY DEF Kill, IInv, TypeOK
<1> QED BY <1>1, DetachKeeps DEF Kill

LEMMA BreakKeeps ==
  ASSUME IInv, NEW s \in Servers, Break(s)
  PROVE  IInv'
<1> DEFINE c == pipe[s].client
<1>1. s \in Instances /\ pipe[s].state = "connected"
  BY DEF Break
<1>2. c \in Clients /\ client[c] = "killed"
  BY <1>1 DEF Break, IInv, TypeOK, Instances, Listening, Pipes
<1>3. client' = [client EXCEPT ![c] = "killed"]
  BY <1>2 DEF Break, IInv, TypeOK
<1>4. hPipe' \in [Clients -> Servers \cup {NULL}] /\ \A d \in Clients \ {c} : hPipe'[d] = hPipe[d]
  BY DEF Break, IInv, TypeOK
<1>5. \E t \in Instances : pipe[t].client = c /\ pipe' = [pipe EXCEPT ![t].state = "broken"]
  BY <1>1 DEF Break
<1>6. UNCHANGED <<server, sent, got, lost>>
  BY DEF Break
<1> HIDE DEF c
<1> QED BY <1>2, <1>3, <1>4, <1>5, <1>6, DetachKeeps

LEMMA ClientKeeps ==
  ASSUME IInv, NEW c \in Clients, ClientNext(c) \/ Kill(c)
  PROVE  IInv'
<1> USE DEF Opened
<1>1. CASE OpenBusy(c)
  BY <1>1, ClientMoves DEF OpenBusy
<1>2. CASE OpenFails(c)
  BY <1>2, ClientMoves DEF OpenFails
<1>3. CASE WaitNamedPipe(c)
  BY <1>3, ClientMoves DEF WaitNamedPipe
<1>4. CASE WaitFails(c)
  BY <1>4, ClientMoves DEF WaitFails
<1>5. CASE Proceed(c)
  BY <1>5, ClientMoves DEF Proceed
<1>6. CASE WriteFails(c)
  BY <1>6, ClientMoves DEF WriteFails
<1> QED BY <1>1, <1>2, <1>3, <1>4, <1>5, <1>6, OpenKeeps, WriteKeeps, CloseFileKeeps, KillKeeps
        DEF ClientNext

LEMMA Inductive == Spec => []IInv
<1>1. Init => IInv
  <2> SUFFICES ASSUME Init PROVE IInv
    OBVIOUS
  <2>1. Instances = {} /\ Listening = {}
    BY DEF Init, Instances, Listening
  <2>2. TypeOK
    BY <2>1, RoomAssumption DEF Init, TypeOK, ObjectOK, Bare, ServerStates
  <2> QED BY <2>1, <2>2 DEF Init, IInv, OwnInstance, BrokenOK, Unsent, Fresh, StreamKept, CloseDelivers
<1>2. IInv /\ [Next]_vars => IInv'
  <2> SUFFICES ASSUME IInv, [Next]_vars PROVE IInv'
    OBVIOUS
  <2>1. CASE Next
    BY <2>1, ServerKeeps, BreakKeeps, ClientKeeps DEF Next
  <2>2. CASE UNCHANGED vars
    <3>1. Instances' = Instances /\ Listening' = Listening
      BY <2>2 DEF vars, Instances, Listening
    <3> QED BY <2>2, <3>1 DEF vars, IInv, TypeOK, ObjectOK, OwnInstance, BrokenOK, Unsent, Fresh, StreamKept,
                             CloseDelivers
  <2> QED BY <2>1, <2>2
<1> QED BY <1>1, <1>2, PTL DEF Spec

\* The type of the pipe's state, for any number of servers and clients.
THEOREM TypeInvariant == Spec => []TypeOK
BY Inductive, PTL DEF IInv

\* What a server has read of an instance, with what is still under way, is what
\* one client has written, whole and in order, however many clients there are.
THEOREM StreamIsKept == Spec => []StreamKept
BY Inductive, PTL DEF IInv

\* A client whose close has returned leaves nothing unread behind.
THEOREM CloseHasDelivered == Spec => []CloseDelivers
BY Inductive, PTL DEF IInv
=============================================================================
