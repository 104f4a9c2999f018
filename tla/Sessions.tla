------------------------------ MODULE Sessions ------------------------------
(***************************************************************************)
(* What the connections of Win32::ODBC promise one Perl thread.  A session *)
(* is a number the script got from ODBC_Connect or ODBC_Clone; it stands   *)
(* for a connection of the driver, a link.  Numbers go up and are never    *)
(* given twice, a new session gets a link of its own or shares the one of  *)
(* an open session, and a link is closed with its last session.            *)
(***************************************************************************)
EXTENDS Naturals

CONSTANT Links  \* connections the driver can have

VARIABLES
  session,  \* the link of every open session
  linked,   \* the links that are connected
  issued    \* the numbers below it are used up

vars == <<session, linked, issued>>

NoSession == [n \in {} |-> Links]

LinksOf(s) == {s[n] : n \in DOMAIN s}

Init ==
  /\ session = NoSession
  /\ linked = {}
  /\ issued = 0

Add(d) ==
  /\ issued' = issued + 1
  /\ session' = [n \in DOMAIN session \cup {issued} |-> IF n = issued THEN d ELSE session[n]]

\* ODBC_Connect: the driver connects
Open(d) ==
  /\ d \notin linked
  /\ linked' = linked \cup {d}
  /\ Add(d)

\* ODBC_Clone
Share(n) ==
  /\ Add(session[n])
  /\ UNCHANGED linked

\* ODBC_Disconnect
Close(n) ==
  /\ UNCHANGED issued
  /\ session' = [m \in DOMAIN session \ {n} |-> session[m]]
  /\ linked' = LinksOf(session')

\* A number that is used up without a session: ODBCLIST, and a connection that
\* could not be opened
Skip ==
  /\ issued' = issued + 1
  /\ UNCHANGED <<session, linked>>

\* The thread, or the process, ends; whoever comes next counts from 0 again.
End ==
  /\ issued' = 0
  /\ session' = NoSession
  /\ linked' = {}

Next ==
  \/ \E d \in Links : Open(d)
  \/ \E n \in DOMAIN session : Share(n) \/ Close(n)
  \/ Skip
  \/ End

Spec == Init /\ [][Next]_vars
=============================================================================
