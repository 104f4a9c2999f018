-------------------------------- MODULE Odbc --------------------------------
(***************************************************************************)
(* src/Win32-ODBC: the connections of one Perl thread (ODBC.xs) with their *)
(* result sets (CResults.cpp), kept in the thread's daughter list (CMom).  *)
(*                                                                         *)
(* Everything here belongs to one thread: _NT_ODBC_Verify looks a number up*)
(* in the caller's own daughter.  So a call is one step, and its outcomes  *)
(* are those of the driver calls it makes.  How the threads find their     *)
(* daughters is OdbcThreads.                                               *)
(*                                                                         *)
(* The heap and the driver are one record: an operator named after a C     *)
(* function takes the record before a call to the record after it, and one *)
(* that may fail gives a set of results, each with the record it leaves    *)
(* and whether an error is reported.  The text of the last error, which    *)
(* only the next Fetch looks at, is left out.                              *)
(***************************************************************************)
EXTENDS CMom

CONSTANTS
  Objs,         \* memory for ODBC_TYPE
  Dbcs,         \* memory for ODBC_HDBC, each with the driver's connection
  Sets,         \* memory a connection has for its CResults
  CloseTypes,   \* the values given to SetStmtCloseType and DropCursor
  MaxNumber     \* bounds the connection numbers of a session

START_NUM_OF_ODBCS == 2

Numbers == 0 .. MaxNumber

\* What ODBC.h and sqlext.h allow a SQLFreeStmt option to be
StmtOptions == {"SQL_DROP", "SQL_CLOSE", "SQL_UNBIND", "SQL_RESET_PARAMS", "SQL_DONT_CLOSE"}

ASSUME CloseAssumption == CloseTypes \subseteq StmtOptions
ASSUME NumberAssumption == MaxNumber \in Nat /\ FREE_ITEM \notin Nat
ASSUME NullAssumption == NULL \notin Objs \cup Dbcs \cup Sets \cup Nat
ASSUME MemoryAssumption == IsFiniteSet(Objs) /\ Cardinality(Sets) > 1

VARIABLES
  odbc,     \* the heap and the driver: mom is the daughter, statements
            \* counts the statements the driver has for each of its connections
  handed,   \* the numbers the caller holds: returned and not yet given back
  closing,  \* the slot ~CMom is at; 0 when the daughter is not being deleted
  executed  \* the number an Execute has just reported success for, or NULL

vars == <<odbc, handed, closing, executed>>

\* A statement of the driver, CResults, ODBC_TYPE and ODBC_HDBC
Statement == [open : BOOLEAN, bound : Sets \cup {NULL}]

CResults == [iODBC : Nat, mem : Sets]

ODBC_TYPE ==
  [conn : Nat, hdbc : Dbcs \cup {NULL}, hstmt : Statement \cup {NULL},
   Results : CResults \cup {NULL}, uStmtCloseType : StmtOptions]

ODBC_HDBC == [iCount : Nat]

ASSUME PointerAssumption ==
  NULL \notin Statement \cup CResults \cup ODBC_TYPE \cup ODBC_HDBC \cup ListOf(Nat, Objs)

Live(heap) == {x \in DOMAIN heap : heap[x] # NULL}

Spare(heap) == CHOOSE x \in DOMAIN heap : heap[x] = NULL

HasSpare(heap) == \E x \in DOMAIN heap : heap[x] = NULL

\* ODBCLIST: the connection with number 0, made when the extension is booted
ODBCLIST(o) == IF o.mom = NULL THEN NULL ELSE Lookup(o.mom, 0)

Verify(o, n) ==
  LET found == IF o.mom = NULL THEN NULL ELSE Lookup(o.mom, n)
  IN  IF found # NULL THEN found ELSE ODBCLIST(o)

\* What a call leaves, with an error reported or without
Done(o) == [heap |-> o, ok |-> TRUE]
Failed(o) == [heap |-> o, ok |-> FALSE]

-----------------------------------------------------------------------------
\* CResults.  A result set is built for what the statement has open, and its
\* buffers are bound to the columns of the statement.

\* SQLFreeStmt(SQL_UNBIND)
Unbind(o, h) == IF o.conns[h].hstmt = NULL THEN o ELSE [o EXCEPT !.conns[h].hstmt.bound = NULL]

\* Mutant of DeleteResults: without RemoveBuffers.
DeleteBound(o, h) == [o EXCEPT !.conns[h].Results = NULL]
\* ~CResults and RemoveBuffers: the statement it unbinds is the one of the
\* connection its number finds now.
DeleteResults(o, h) ==
  LET owner == Verify(o, o.conns[h].Results.iODBC)
      unbound == IF owner = NULL THEN o ELSE Unbind(o, owner)
  IN  IF o.conns[h].Results = NULL THEN o
      ELSE [unbound EXCEPT !.conns[h].Results = NULL]

\* CResults(h): SQLNumResultCols fails without an open cursor, and then
\* nothing is bound.  The memory is not what the statement is bound to, so
\* that a binding that was left behind stays visible.
NewResults(o, h) ==
  LET c == o.conns[h]
      mem == CHOOSE r \in Sets : c.hstmt = NULL \/ c.hstmt.bound # r
      built == [o EXCEPT !.conns[h].Results = [iODBC |-> c.conn, mem |-> mem]]
  IN  IF c.hstmt # NULL /\ c.hstmt.open
      THEN [built EXCEPT !.conns[h].hstmt.bound = mem] ELSE built

-----------------------------------------------------------------------------
\* ODBC.xs: making and freeing a connection

CleanODBC(n) ==
  [conn |-> n, hdbc |-> NULL, hstmt |-> NULL, Results |-> NULL,
   uStmtCloseType |-> "SQL_DROP"]

\* NewODBC: a thread without a daughter gets one.
NewODBC(o) ==
  LET h == Spare(o.conns)
      mom == AddNumber(IF o.mom = NULL THEN InitMom(START_NUM_OF_ODBCS) ELSE o.mom, h)
  IN  [o EXCEPT !.mom = mom, !.conns[h] = CleanODBC(NumberOf(mom, h))]

\* Mutant of DropStmt: the driver keeps the statement.
DropForgotten(o, h) ==
  IF o.conns[h].hstmt = NULL THEN o ELSE [o EXCEPT !.conns[h].hstmt = NULL]
DropStmt(o, h) ==
  IF o.conns[h].hstmt = NULL THEN o
  ELSE [o EXCEPT !.conns[h].hstmt = NULL, !.statements[o.conns[h].hdbc] = @ - 1]

\* The last connection that uses an ODBC_HDBC disconnects it.
\* Mutant of ReleaseHdbc: every connection disconnects.
ReleaseEach(o, h) ==
  LET d == o.conns[h].hdbc
  IN  IF d = NULL THEN o
      ELSE [o EXCEPT !.conns[h].hdbc = NULL, !.hdbcs[d] = NULL, !.connected = @ \ {d}]
ReleaseHdbc(o, h) ==
  LET d == o.conns[h].hdbc
      last == o.hdbcs[d].iCount = 1
  IN  IF d = NULL THEN o
      ELSE [o EXCEPT !.conns[h].hdbc = NULL,
                     !.hdbcs[d] = IF last THEN NULL ELSE [iCount |-> @.iCount - 1],
                     !.connected = IF last THEN @ \ {d} ELSE @]

FreeODBC(o, h) == ReleaseHdbc(DropStmt(DeleteResults(o, h), h), h)

\* Mutant of DeleteConn: the number is given up first.
DeleteRemoved(o, n) ==
  LET h == Lookup(o.mom, n)
  IN  IF h = NULL THEN o
      ELSE [FreeODBC([o EXCEPT !.mom = Remove(@, n)], h) EXCEPT !.conns[h] = NULL]
DeleteConn(o, n) ==
  LET h == Lookup(o.mom, n)
  IN  IF h = NULL THEN o
      ELSE [FreeODBC(o, h) EXCEPT !.mom = Remove(@, n), !.conns[h] = NULL]

-----------------------------------------------------------------------------
\* ResetStmt.  SQLFreeStmt does what the close type says; a statement that is
\* gone is allocated again, unless the close type is SQL_DONT_CLOSE.

FreeStmt(o, h) ==
  LET type == o.conns[h].uStmtCloseType
  IN  CASE type = "SQL_DROP" -> DropStmt(o, h)
        [] type = "SQL_CLOSE" -> [o EXCEPT !.conns[h].hstmt.open = FALSE]
        [] type = "SQL_UNBIND" -> Unbind(o, h)
        [] OTHER -> o

AllocStmt(o, h) ==
  [o EXCEPT !.conns[h].hstmt = [open |-> FALSE, bound |-> NULL],
            !.statements[o.conns[h].hdbc] = @ + 1]

Connected(o, h) == o.conns[h].hdbc # NULL /\ o.conns[h].hdbc \in o.connected

ResetStmt(o, h) ==
  LET had == o.conns[h].hstmt # NULL
      freed == IF had THEN FreeStmt(o, h) ELSE o
      again == freed.conns[h].hstmt = NULL
  IN  IF o.conns[h].uStmtCloseType = "SQL_DONT_CLOSE" THEN {Done(o)}
      ELSE (IF had THEN {Failed(o)} ELSE {})
           \cup (IF again THEN {Failed(freed)} ELSE {Done(freed)})
           \cup (IF again /\ Connected(o, h) THEN {Done(AllocStmt(freed, h))} ELSE {})

\* SQLExecDirect, SQLTables and SQLGetTypeInfo open a cursor on a statement
\* without one.
Opens(o, h) ==
  LET s == o.conns[h].hstmt
  IN  IF s # NULL /\ ~s.open THEN {[o EXCEPT !.conns[h].hstmt.open = TRUE]} ELSE {}

\* Mutant of Renew: the new result set is bound before the old one is deleted.
RenewFirst(o, h) ==
  IF o.conns[h].Results = NULL THEN NewResults(o, h) ELSE Unbind(NewResults(o, h), h)
Renew(o, h) == NewResults(DeleteResults(o, h), h)

\* CResults calls ODBCError for a column that SQLBindCol refuses: the call then
\* reports an error, with the new result set in place.
Renewed(o, h) ==
  LET s == o.conns[h].hstmt
  IN  {Done(Renew(o, h))}
      \cup (IF s # NULL /\ s.open THEN {Failed(Renew(o, h))} ELSE {})

-----------------------------------------------------------------------------
NoHeap ==
  [mom |-> NULL,
   conns |-> [h \in Objs |-> NULL],
   hdbcs |-> [d \in Dbcs |-> NULL],
   connected |-> {},
   statements |-> [d \in Dbcs |-> 0]]

Init ==
  /\ odbc = NoHeap
  /\ handed = {}
  /\ closing = 0
  /\ executed = NULL

\* A call that returns
Returns(n) ==
  /\ closing = 0
  /\ UNCHANGED closing
  /\ executed' = n

\* A call that reads through NULL or a freed connection ends the process, and
\* with it the heap and the driver's connections.  The next one starts anew.
Crash ==
  /\ closing = 0
  /\ odbc' = NoHeap
  /\ handed' = {}
  /\ executed' = NULL
  /\ UNCHANGED closing

\* Bounds of the model: memory for one more of everything, and a number
CanAllocate ==
  /\ HasSpare(odbc.conns) /\ HasSpare(odbc.hdbcs)
  /\ odbc.mom # NULL => odbc.mom.iNextID \in Numbers

\* A call of these on ODBCLIST returns without asking the driver.
ChecksList == {"Execute", "Catalog", "Fetch", "MoreResults"}
UsesDriver == ChecksList \cup {"GetTypeInfo", "SetPos", "DropCursor"}
UsesDaughter == {"Disconnect", "GetConnections"}
Calls == UsesDriver \cup UsesDaughter \cup {"GetData", "KeepCursor", "SetStmtCloseType"}

\* A call dies when there is no daughter or no ODBCLIST to act on, when the
\* driver refuses it and the error is looked up through an hdbc that is NULL
\* (without hdbc there is no statement, and the driver refuses), and when it
\* reads the result set of a connection without one.
Dies(call, n) ==
  LET h == Verify(odbc, n)
  IN  \/ call \in UsesDaughter /\ odbc.mom = NULL
      \/ call \notin UsesDaughter /\ h = NULL
      \/ /\ call \in UsesDriver
         /\ h # NULL
         /\ call \in ChecksList => h # ODBCLIST(odbc)
         /\ odbc.conns[h].hdbc = NULL
      \/ call = "GetData" /\ h # NULL /\ odbc.conns[h].Results = NULL

\* InitExtension: connection 0 is looked for, and a connection is made when
\* it is missing.
InitExtension ==
  /\ ODBCLIST(odbc) = NULL
  /\ CanAllocate
  /\ odbc' = NewODBC(odbc)
  /\ Returns(NULL)
  /\ UNCHANGED handed

\* ODBC_Connect.  h is the new connection, with its own ODBC_HDBC.
Connecting(o, h, d) ==
  [o EXCEPT !.conns[h].hdbc = d, !.hdbcs[d] = [iCount |-> 1]]

ConnectSucceeds(o, h, d) ==
  LET connected == [o EXCEPT !.connected = @ \cup {d}]
      n == o.conns[h].conn
  IN  /\ odbc' = AllocStmt(connected, h)
      /\ handed' = handed \cup {n}
      /\ Returns(NULL)

\* A connect option the driver refuses: the error is reported, and the
\* connection is neither deleted nor handed to the caller.
ConnectOptionFails(o) ==
  /\ odbc' = o
  /\ Returns(NULL)
  /\ UNCHANGED handed

\* SQLDriverConnect fails: ODBCLIST gets the error, the connection is deleted
ConnectDriverFails(o, h) ==
  /\ ODBCLIST(o) \notin {NULL, h}
  /\ odbc' = DeleteConn(o, o.conns[h].conn)
  /\ Returns(NULL)
  /\ UNCHANGED handed

Connect ==
  LET h == Spare(odbc.conns)
      d == Spare(odbc.hdbcs)
      o == Connecting(NewODBC(odbc), h, d)
  IN  /\ CanAllocate
      /\ \/ ConnectSucceeds(o, h, d)
         \/ ConnectOptionFails(o)
         \/ ConnectDriverFails(o, h)

\* SQLAllocConnect or SQLAllocStmt fails: the connection is deleted and then
\* read.  Without another connection as ODBCLIST a refused SQLDriverConnect
\* reads NULL too.
ConnectCrashes == CanAllocate /\ Crash

\* ODBC_Clone: another connection on the same ODBC_HDBC
\* Mutant of Share: the clone is not counted.
ShareUncounted(o, h, d) == [o EXCEPT !.conns[h].hdbc = d]
Share(o, h, d) == [o EXCEPT !.conns[h].hdbc = d, !.hdbcs[d].iCount = @ + 1]

Clone(n) ==
  LET old == Verify(odbc, n)
      h == Spare(odbc.conns)
      o == Share(NewODBC(odbc), h, odbc.conns[old].hdbc)
  IN  /\ old # NULL
      /\ Connected(odbc, old)
      /\ CanAllocate
      /\ odbc' = AllocStmt(o, h)
      /\ handed' = handed \cup {o.conns[h].conn}
      /\ Returns(NULL)
    
\* The cloned connection has no hdbc or no DSN, or SQLAllocStmt fails.
CloneCrashes == odbc.mom # NULL /\ CanAllocate /\ Crash

\* ODBC_Disconnect
Disconnect(n) ==
  /\ ~Dies("Disconnect", n)
  /\ odbc' = DeleteConn(odbc, n)
  /\ handed' = handed \ {n}
  /\ Returns(NULL)

\* TerminateThread: the daughter deletes the connection in each of its slots
\* and is then removed from the master list.
ShutDown ==
  /\ closing = 0
  /\ odbc.mom # NULL
  /\ closing' = 1
  /\ executed' = NULL
  /\ UNCHANGED <<odbc, handed>>

ShutDownSlot ==
  LET h == odbc.mom.slot[closing].obj
      n == odbc.conns[h].conn
  IN  /\ closing # 0
      /\ closing <= TotalElements(odbc.mom)
      /\ closing' = closing + 1
      /\ IF h = NULL THEN UNCHANGED <<odbc, handed>>
         ELSE odbc' = DeleteConn(odbc, n) /\ handed' = handed \ {n}
      /\ UNCHANGED executed

ShutDownEnd ==
  /\ closing # 0
  /\ closing > TotalElements(odbc.mom)
  /\ odbc' = [odbc EXCEPT !.mom = NULL]
  /\ closing' = 0
  /\ UNCHANGED <<handed, executed>>

-----------------------------------------------------------------------------
\* The calls on a connection.  A number that is not open acts on ODBCLIST.

CallCrashes ==
  /\ {call \in Calls : \E n \in Numbers : Dies(call, n)} # {}
  /\ Crash

\* The call leaves one of the outcomes.
Call(call, n, outcomes) ==
  /\ ~Dies(call, n)
  /\ \E r \in outcomes :
       /\ odbc' = r.heap
       /\ Returns(IF call = "Execute" /\ r.ok THEN n ELSE NULL)
  /\ UNCHANGED handed

\* ODBC_Execute: nothing is executed for ODBCLIST, and no error is reported.
Executed(h) ==
  UNION {IF ~r.ok THEN {r}
         ELSE {Failed(r.heap)} \cup UNION {Renewed(o, h) : o \in Opens(r.heap, h)} :
           r \in ResetStmt(odbc, h)}

ExecuteOutcomes(h) == IF h = ODBCLIST(odbc) THEN {Done(odbc)} ELSE Executed(h)

Execute(n) == Call("Execute", n, ExecuteOutcomes(Verify(odbc, n)))

\* ODBC_GetTypeInfo does the same without asking for ODBCLIST.
GetTypeInfo(n) == Call("GetTypeInfo", n, Executed(Verify(odbc, n)))

\* TableColList: SQLTables is called whatever became of ResetStmt, its
\* SQL_SUCCESS_WITH_INFO is reported as an error although the cursor is open,
\* and ODBCLIST gets a result set too.
TablesAsked(r, o, h) == {Failed(o)} \cup (IF r.ok THEN Renewed(o, h) ELSE {})

CatalogOutcomes(h) ==
  IF h = ODBCLIST(odbc) THEN Renewed(odbc, h)
  ELSE UNION {{Failed(r.heap)} \cup UNION {TablesAsked(r, o, h) : o \in Opens(r.heap, h)} :
                r \in ResetStmt(odbc, h)}

Catalog(n) == Call("Catalog", n, CatalogOutcomes(Verify(odbc, n)))

\* ODBC_Fetch, ODBC_GetData, ODBC_MoreResults and ODBC_SetPos ask the driver or
\* read the buffers.  Neither the connection nor its result set is replaced:
\* ODBC_MoreResults leaves the buffers of the result set before bound.
Asking == {"Fetch", "GetData", "MoreResults", "SetPos"}

Ask(n) ==
  /\ ~ \A call \in Asking : Dies(call, n)
  /\ Returns(NULL)
  /\ UNCHANGED <<odbc, handed>>

\* ODBC_DropCursor: ResetStmt with another close type, which is put back.
\* With SQL_DONT_CLOSE the driver is not called at all.
WithType(o, h, type) == [o EXCEPT !.conns[h].uStmtCloseType = type]

DropOutcomes(h, type) ==
  {[r EXCEPT !.heap = WithType(@, h, odbc.conns[h].uStmtCloseType)] :
     r \in ResetStmt(WithType(odbc, h, type), h)}

DropCursor(n, type) ==
  Call(IF type = "SQL_DONT_CLOSE" THEN "KeepCursor" ELSE "DropCursor", n,
       DropOutcomes(Verify(odbc, n), type))

\* ODBC_SetStmtCloseType: MapCloseType falls out of SQL_RESET_PARAMS into the
\* default, so that this type is set and reported as an error.
SetStmtCloseType(n, type) ==
  Call("SetStmtCloseType", n, {Done(WithType(odbc, Verify(odbc, n), type))})

-----------------------------------------------------------------------------
Next ==
  \/ InitExtension
  \/ Connect
  \/ ConnectCrashes
  \/ CloneCrashes
  \/ ShutDown
  \/ ShutDownSlot
  \/ ShutDownEnd
  \/ CallCrashes
  \/ \E n \in Numbers :
       \/ Clone(n) \/ Disconnect(n)
       \/ Execute(n) \/ GetTypeInfo(n) \/ Catalog(n)
       \/ Ask(n)
       \/ \E type \in CloseTypes : DropCursor(n, type) \/ SetStmtCloseType(n, type)

Spec == Init /\ [][Next]_vars

-----------------------------------------------------------------------------
\* The daughter's list and the connections agree: the list is well formed, the
\* slots hold exactly the connections that are live, and a connection's own
\* number is the one that finds it.  A connection outside the list could not
\* be closed, and one in the list that is gone would be used after delete.
NumbersAgree ==
  IF odbc.mom = NULL THEN Live(odbc.conns) = {}
  ELSE /\ WellFormed(odbc.mom)
       /\ Live(odbc.conns) = {odbc.mom.slot[i].obj : i \in Occupied(odbc.mom)}
       /\ \A h \in Live(odbc.conns) : Lookup(odbc.mom, odbc.conns[h].conn) = h

\* An ODBC_HDBC counts the connections that use it, clones and the original
\* alike, is freed with the last one and not before, and is not left connected.
Users(d) == {h \in Live(odbc.conns) : odbc.conns[h].hdbc = d}

CountMatches ==
  \A d \in Dbcs :
    IF odbc.hdbcs[d] = NULL THEN Users(d) = {} /\ d \notin odbc.connected
    ELSE odbc.hdbcs[d].iCount = Cardinality(Users(d)) /\ Users(d) # {}

\* The statements the driver has for a connection are those of the live
\* connections that use it, and it is connected while it has any: SQLDisconnect
\* refuses a connection with statements, and the code does not look.
Statements(d) == {h \in Users(d) : odbc.conns[h].hstmt # NULL}

StatementsOwned ==
  /\ \A d \in Dbcs : odbc.statements[d] = Cardinality(Statements(d))
  /\ \A h \in Live(odbc.conns) : odbc.conns[h].hstmt # NULL => Connected(odbc, h)

\* The columns of a statement are bound to the buffers of its connection's
\* result set, never to ones that are gone: the next SQLExtendedFetch writes
\* to them.
BoundBuffersLive ==
  \A h \in Live(odbc.conns) :
    LET c == odbc.conns[h]
    IN  c.hstmt # NULL /\ c.hstmt.bound # NULL =>
          c.Results # NULL /\ c.Results.mem = c.hstmt.bound

\* An Execute that reports success on a number that the caller holds, other
\* than 0, has opened a cursor and bound it to a result set of this connection.
\* The number 0 is ODBCLIST, for which Execute does nothing and reports success:
\* a thread that never ran InitExtension gets it from its first Connect.
ExecuteDelivers ==
  executed \in handed \ {0} =>
    LET c == odbc.conns[Lookup(odbc.mom, executed)]
    IN  /\ c.hstmt # NULL /\ c.hstmt.open
        /\ c.Results # NULL /\ c.Results.mem = c.hstmt.bound

\* A call changes or deletes at most one connection, its statement and its
\* result set included: a clone keeps its statement and its buffers whatever
\* happens to the connection it was made from, and ODBCLIST keeps its own.
CallsIsolated ==
  [][odbc'.mom = NULL \/
     Cardinality({h \in Live(odbc.conns) : odbc'.conns[h] # odbc.conns[h]}) <= 1]_vars

\* The script sees Sessions: a number it holds stands for the ODBC_HDBC of the
\* connection that its number finds.
Linked(n) == odbc.conns[Lookup(odbc.mom, n)].hdbc

Abstract == INSTANCE Sessions WITH
  Links <- Dbcs,
  session <- [n \in handed |-> Linked(n)],
  linked <- odbc.connected,
  issued <- IF odbc.mom = NULL THEN 0 ELSE odbc.mom.iNextID

\* Numbers are not reused, a clone shares the link of the connection it was
\* made from, and closing one of them leaves the others connected.
Implements == Abstract!Spec
=============================================================================
