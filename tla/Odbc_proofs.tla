----------------------------- MODULE Odbc_proofs -----------------------------
(***************************************************************************)
(* Theorems about Odbc, for any memory and any close types: the heap of    *)
(* one thread stays whole through every call and every failure of the      *)
(* driver, and the script sees Sessions.                                   *)
(***************************************************************************)
EXTENDS Odbc, CMom_proofs

Heaps ==
  [mom : ListOf(Nat, Objs) \cup {NULL},
   conns : [Objs -> ODBC_TYPE \cup {NULL}],
   hdbcs : [Dbcs -> ODBC_HDBC \cup {NULL}],
   connected : SUBSET Dbcs,
   statements : [Dbcs -> Int]]

\* Who uses a connection of the driver, and whose statements it has.
UsersOf(o, d) == {h \in Live(o.conns) : o.conns[h].hdbc = d}

StatementsOf(o, d) == {h \in UsersOf(o, d) : o.conns[h].hstmt # NULL}

\* The daughter finds the live connections, each under its number, and the next
\* number is a new one.
Listed(o) ==
  IF o.mom = NULL THEN Live(o.conns) = {}
  ELSE /\ WellFormed(o.mom)
       /\ \A i \in Occupied(o.mom) : o.mom.slot[i].id < o.mom.iNextID
       /\ \A i \in Occupied(o.mom) :
            /\ o.mom.slot[i].obj \in Live(o.conns)
            /\ o.conns[o.mom.slot[i].obj].conn = o.mom.slot[i].id
       /\ \A h \in Live(o.conns) : \E i \in Occupied(o.mom) : o.mom.slot[i].obj = h

\* A connection with its statement and its result set, while the connections up
\* are connected: RemoveBuffers finds it by the number of the result set.
Sound(c, up) ==
  /\ c.Results # NULL => c.Results.iODBC = c.conn
  /\ c.hstmt # NULL => c.hdbc \in up
  /\ c.hstmt # NULL /\ c.hstmt.bound # NULL =>
       c.Results # NULL /\ c.Results.mem = c.hstmt.bound

Shared(o, d) ==
  IF o.hdbcs[d] = NULL THEN UsersOf(o, d) = {} /\ d \notin o.connected
  ELSE o.hdbcs[d].iCount = Cardinality(UsersOf(o, d)) /\ UsersOf(o, d) # {}

Counted(o, d) == o.statements[d] = Cardinality(StatementsOf(o, d))

HeapInv(o) ==
  /\ o \in Heaps
  /\ Listed(o)
  /\ \A h \in Live(o.conns) : Sound(o.conns[h], o.connected)
  /\ \A d \in Dbcs : Shared(o, d) /\ Counted(o, d)

\* The numbers held are those of the connections that are connected.
HandedOf(o, held) ==
  /\ held \subseteq Nat
  /\ \A n \in held : o.mom # NULL /\ Lookup(o.mom, n) # NULL /\ Connected(o, Lookup(o.mom, n))
  /\ \A h \in Live(o.conns) : Connected(o, h) => o.conns[h].conn \in held

\* The sessions the script has.
SessionOf(o, held) == [n \in held |-> o.conns[Lookup(o.mom, n)].hdbc]

\* The slots that ~CMom has passed are free.
ClosingEmpties ==
  /\ closing \in Nat
  /\ closing # 0 =>
       /\ odbc.mom # NULL
       /\ executed = NULL
       /\ \A i \in Entries(odbc.mom) : i < closing => odbc.mom.slot[i].id = FREE_ITEM

IInv ==
  /\ HeapInv(odbc)
  /\ HandedOf(odbc, handed)
  /\ ClosingEmpties
  /\ executed \in Nat \cup {NULL}
  /\ ExecuteDelivers

\* A call on the connection h leaves the list, the other connections and the
\* connections of the driver as they are.
Frame(o, r, h) ==
  /\ r.mom = o.mom /\ r.hdbcs = o.hdbcs /\ r.connected = o.connected
  /\ \A x \in Objs : x # h => r.conns[x] = o.conns[x]
  /\ r.conns[h] # NULL
  /\ r.conns[h].conn = o.conns[h].conn /\ r.conns[h].hdbc = o.conns[h].hdbc

Leaves(o, r, h) == HeapInv(r) /\ Frame(o, r, h)

\* The heap o with h replaced, and what the driver counts then.
With(o, h, c, counts) ==
  [mom |-> o.mom, conns |-> [o.conns EXCEPT ![h] = c], hdbcs |-> o.hdbcs,
   connected |-> o.connected, statements |-> counts]

-----------------------------------------------------------------------------
\* The parts of a heap and of a connection.
LEMMA HeapIs ==
  ASSUME NEW o \in Heaps
  PROVE  /\ o = [mom |-> o.mom, conns |-> o.conns, hdbcs |-> o.hdbcs,
                 connected |-> o.connected, statements |-> o.statements]
         /\ o.mom \in ListOf(Nat, Objs) \cup {NULL}
         /\ o.conns \in [Objs -> ODBC_TYPE \cup {NULL}]
         /\ o.hdbcs \in [Dbcs -> ODBC_HDBC \cup {NULL}]
         /\ o.connected \subseteq Dbcs
         /\ o.statements \in [Dbcs -> Int]
         /\ Live(o.conns) \subseteq Objs
         /\ \A h \in Objs : h \in Live(o.conns) <=> o.conns[h] # NULL
         /\ \A h \in Live(o.conns) : o.conns[h] \in ODBC_TYPE
<1>1. /\ o = [mom |-> o.mom, conns |-> o.conns, hdbcs |-> o.hdbcs,
              connected |-> o.connected, statements |-> o.statements]
      /\ o.mom \in ListOf(Nat, Objs) \cup {NULL}
      /\ o.conns \in [Objs -> ODBC_TYPE \cup {NULL}]
      /\ o.hdbcs \in [Dbcs -> ODBC_HDBC \cup {NULL}]
      /\ o.connected \subseteq Dbcs
      /\ o.statements \in [Dbcs -> Int]
  BY DEF Heaps
<1>2. Live(o.conns) = {h \in Objs : o.conns[h] # NULL} BY <1>1 DEF Live
<1> QED BY <1>1, <1>2

LEMMA ConnectionIs ==
  ASSUME NEW c \in ODBC_TYPE
  PROVE  /\ c = [conn |-> c.conn, hdbc |-> c.hdbc, hstmt |-> c.hstmt, Results |-> c.Results,
                 uStmtCloseType |-> c.uStmtCloseType]
         /\ c.conn \in Nat
         /\ c.hdbc \in Dbcs \cup {NULL}
         /\ c.hstmt \in Statement \cup {NULL}
         /\ c.Results \in CResults \cup {NULL}
         /\ c.uStmtCloseType \in StmtOptions
         /\ c # NULL
BY PointerAssumption DEF ODBC_TYPE

\* The users of a connection of the driver are finitely many.
LEMMA UsersFinite ==
  ASSUME NEW o \in Heaps, NEW d
  PROVE  /\ IsFiniteSet(UsersOf(o, d)) /\ IsFiniteSet(StatementsOf(o, d))
         /\ UsersOf(o, d) \subseteq Objs
         /\ Cardinality(UsersOf(o, d)) \in Nat /\ Cardinality(StatementsOf(o, d)) \in Nat
<1>1. UsersOf(o, d) \subseteq Objs /\ StatementsOf(o, d) \subseteq Objs
  BY HeapIs DEF UsersOf, StatementsOf
<1>2. IsFiniteSet(Objs) BY MemoryAssumption
<1>3. IsFiniteSet(UsersOf(o, d)) /\ IsFiniteSet(StatementsOf(o, d)) BY <1>1, <1>2, FS_Subset
<1> QED BY <1>1, <1>3, FS_CardinalityType

\* What was changed at h only, with the driver's count of its statements, is
\* whole again.
Accounts(o, h, c, counts) ==
  \/ counts = o.statements /\ (c.hstmt = NULL <=> o.conns[h].hstmt = NULL)
  \/ /\ c.hstmt = NULL /\ o.conns[h].hstmt # NULL
     /\ counts = [o.statements EXCEPT ![c.hdbc] = @ - 1]
  \/ /\ c.hstmt # NULL /\ o.conns[h].hstmt = NULL
     /\ counts = [o.statements EXCEPT ![c.hdbc] = @ + 1]

LEMMA WithIs ==
  ASSUME NEW o, HeapInv(o), NEW h \in Live(o.conns), NEW c \in ODBC_TYPE, NEW counts,
         c.conn = o.conns[h].conn, c.hdbc = o.conns[h].hdbc,
         Sound(c, o.connected), Accounts(o, h, c, counts)
  PROVE  Leaves(o, With(o, h, c, counts), h) /\ With(o, h, c, counts).conns[h] = c
<1> DEFINE r == With(o, h, c, counts)
<1>1. o \in Heaps /\ h \in Objs BY HeapIs DEF HeapInv
<1>2. counts \in [Dbcs -> Int] BY <1>1, HeapIs DEF Accounts
<1>3. /\ r.mom = o.mom /\ r.hdbcs = o.hdbcs /\ r.connected = o.connected
      /\ r.conns = [o.conns EXCEPT ![h] = c] /\ r.statements = counts
  BY DEF With
<1>4. r \in Heaps
  <2>1. [o.conns EXCEPT ![h] = c] \in [Objs -> ODBC_TYPE \cup {NULL}] BY <1>1, HeapIs
  <2> QED BY <1>1, <1>2, <2>1, HeapIs DEF With, Heaps
<1>5. r.conns[h] = c /\ \A x \in Objs : x # h => r.conns[x] = o.conns[x] BY <1>1, <1>3, HeapIs
<1> HIDE DEF r
<1>6. c # NULL BY ConnectionIs
<1>7. Live(r.conns) = Live(o.conns)
  <2>1. Live(r.conns) \subseteq Objs /\ \A x \in Objs : x \in Live(r.conns) <=> r.conns[x] # NULL
    BY <1>4, HeapIs
  <2>2. Live(o.conns) \subseteq Objs /\ \A x \in Objs : x \in Live(o.conns) <=> o.conns[x] # NULL
    BY <1>1, HeapIs
  <2>3. \A x \in Objs : r.conns[x] # NULL <=> o.conns[x] # NULL BY <1>5, <1>6, <2>2
  <2> QED BY <2>1, <2>2, <2>3
<1>8. \A x \in Live(o.conns) : r.conns[x].conn = o.conns[x].conn /\ r.conns[x].hdbc = o.conns[x].hdbc
  BY <1>1, <1>5, HeapIs
<1>9. Frame(o, r, h) BY <1>3, <1>5, <1>6 DEF Frame
<1>10. Listed(r) BY <1>3, <1>7, <1>8 DEF Listed, HeapInv
<1>11. ASSUME NEW x \in Live(r.conns) PROVE Sound(r.conns[x], r.connected)
  BY <1>1, <1>3, <1>5, <1>7, HeapIs DEF HeapInv
<1>12. ASSUME NEW d \in Dbcs PROVE Shared(r, d)
  <2>1. UsersOf(r, d) = UsersOf(o, d) BY <1>7, <1>8 DEF UsersOf
  <2> QED BY <1>3, <2>1 DEF Shared, HeapInv
<1>13. ASSUME NEW d \in Dbcs PROVE Counted(r, d)
  <2>1. UsersOf(r, d) = UsersOf(o, d) BY <1>7, <1>8 DEF UsersOf
  <2>2. o.statements[d] = Cardinality(StatementsOf(o, d)) BY DEF HeapInv, Counted
  <2>3. h \in UsersOf(o, d) <=> c.hdbc = d BY DEF UsersOf
  <2>4. \A x \in UsersOf(o, d) : x # h => r.conns[x] = o.conns[x] BY <1>1, <1>5, UsersFinite
  <2>5. o.statements \in [Dbcs -> Int] BY <1>1, HeapIs
  <2>6. CASE counts = o.statements /\ (c.hstmt = NULL <=> o.conns[h].hstmt = NULL)
    <3>1. StatementsOf(r, d) = StatementsOf(o, d) BY <1>5, <2>1, <2>4, <2>6 DEF StatementsOf
    <3> QED BY <1>3, <2>2, <2>6, <3>1 DEF Counted
  <2>7. CASE /\ c.hstmt = NULL /\ o.conns[h].hstmt # NULL
             /\ counts = [o.statements EXCEPT ![c.hdbc] = @ - 1]
    <3>1. CASE c.hdbc = d
      <4>1. StatementsOf(r, d) = StatementsOf(o, d) \ {h} /\ h \in StatementsOf(o, d)
        BY <1>5, <2>1, <2>3, <2>4, <2>7, <3>1 DEF StatementsOf
      <4>2. Cardinality(StatementsOf(o, d) \ {h}) = Cardinality(StatementsOf(o, d)) - 1
        BY <1>1, <4>1, UsersFinite, FS_RemoveElement
      <4>3. counts[d] = o.statements[d] - 1 BY <2>5, <2>7, <3>1
      <4> QED BY <1>3, <2>2, <4>1, <4>2, <4>3 DEF Counted
    <3>2. CASE c.hdbc # d
      <4>1. StatementsOf(r, d) = StatementsOf(o, d)
        BY <1>5, <2>1, <2>3, <2>4, <3>2 DEF StatementsOf
      <4>2. counts[d] = o.statements[d] BY <2>5, <2>7, <3>2
      <4> QED BY <1>3, <2>2, <4>1, <4>2 DEF Counted
    <3> QED BY <3>1, <3>2
  <2>8. CASE /\ c.hstmt # NULL /\ o.conns[h].hstmt = NULL
             /\ counts = [o.statements EXCEPT ![c.hdbc] = @ + 1]
    <3>1. CASE c.hdbc = d
      <4>1. StatementsOf(r, d) = StatementsOf(o, d) \cup {h} /\ h \notin StatementsOf(o, d)
        BY <1>5, <2>1, <2>3, <2>4, <2>8, <3>1 DEF StatementsOf
      <4>2. Cardinality(StatementsOf(o, d) \cup {h}) = Cardinality(StatementsOf(o, d)) + 1
        BY <1>1, <4>1, UsersFinite, FS_AddElement
      <4>3. counts[d] = o.statements[d] + 1 BY <2>5, <2>8, <3>1
      <4> QED BY <1>3, <2>2, <4>1, <4>2, <4>3 DEF Counted
    <3>2. CASE c.hdbc # d
      <4>1. StatementsOf(r, d) = StatementsOf(o, d)
        BY <1>5, <2>1, <2>3, <2>4, <3>2 DEF StatementsOf
      <4>2. counts[d] = o.statements[d] BY <2>5, <2>8, <3>2
      <4> QED BY <1>3, <2>2, <4>1, <4>2 DEF Counted
    <3> QED BY <3>1, <3>2
  <2> QED BY <2>6, <2>7, <2>8 DEF Accounts
<1>14. HeapInv(r) BY <1>4, <1>10, <1>11, <1>12, <1>13 DEF HeapInv
<1> QED BY <1>5, <1>9, <1>14 DEF r, Leaves

-----------------------------------------------------------------------------
\* What a number finds is live and has this number, and every live connection
\* is found.
LEMMA FoundIs ==
  ASSUME NEW o, HeapInv(o)
  PROVE  /\ \A n \in Nat : o.mom # NULL /\ Lookup(o.mom, n) # NULL =>
              Lookup(o.mom, n) \in Live(o.conns) /\ o.conns[Lookup(o.mom, n)].conn = n
         /\ \A h \in Live(o.conns) :
              /\ o.mom # NULL
              /\ o.conns[h].conn \in Nat
              /\ Lookup(o.mom, o.conns[h].conn) = h
              /\ h # NULL
<1>1. o \in Heaps /\ FREE_ITEM \notin Nat BY NumberAssumption DEF HeapInv
<1>2. ASSUME NEW n \in Nat, o.mom # NULL, Lookup(o.mom, n) # NULL
      PROVE  Lookup(o.mom, n) \in Live(o.conns) /\ o.conns[Lookup(o.mom, n)].conn = n
  <2>1. o.mom \in ListOf(Nat, Objs) /\ n # FREE_ITEM BY <1>1, <1>2, HeapIs
  <2>2. PICK i \in Occupied(o.mom) : o.mom.slot[i].id = n /\ o.mom.slot[i].obj = Lookup(o.mom, n)
    BY <1>2, <2>1, LookupIs
  <2> QED BY <1>2, <2>2 DEF HeapInv, Listed
<1>3. ASSUME NEW h \in Live(o.conns)
      PROVE  /\ o.mom # NULL
             /\ o.conns[h].conn \in Nat
             /\ Lookup(o.mom, o.conns[h].conn) = h
             /\ h # NULL
  <2>1. o.mom # NULL BY DEF HeapInv, Listed
  <2>2. PICK i \in Occupied(o.mom) : o.mom.slot[i].obj = h BY <2>1 DEF HeapInv, Listed
  <2>3. o.conns[h].conn = o.mom.slot[i].id BY <2>1, <2>2 DEF HeapInv, Listed
  <2>4. o.conns[h].conn \in Nat BY <1>1, HeapIs, ConnectionIs
  <2>5. o.mom \in ListOf(Nat, Objs) /\ o.conns[h].conn # FREE_ITEM BY <1>1, <2>1, <2>4, HeapIs
  <2>6. WellFormed(o.mom) BY <2>1 DEF HeapInv, Listed
  <2>7. \A j \in Occupied(o.mom) : o.mom.slot[j].id = o.conns[h].conn =>
          Lookup(o.mom, o.conns[h].conn) = o.mom.slot[j].obj
    BY <2>5, <2>6, LookupIs
  <2>8. h # NULL BY <1>1, HeapIs, NullAssumption
  <2> QED BY <2>1, <2>2, <2>3, <2>4, <2>7, <2>8
<1> QED BY <1>2, <1>3

\* A call acts on a live connection, or there is none to act on.
LEMMA VerifyIs ==
  ASSUME NEW o, HeapInv(o)
  PROVE  /\ \A n \in Nat : Verify(o, n) # NULL => Verify(o, n) \in Live(o.conns)
         /\ \A h \in Live(o.conns) : Verify(o, o.conns[h].conn) = h
<1>1. ASSUME NEW n \in Nat, Verify(o, n) # NULL PROVE Verify(o, n) \in Live(o.conns)
  <2>1. o.mom # NULL /\ Verify(o, n) \in {Lookup(o.mom, n), Lookup(o.mom, 0)}
    BY <1>1 DEF Verify, ODBCLIST
  <2> QED BY <1>1, <2>1, FoundIs
<1>2. \A h \in Live(o.conns) : Verify(o, o.conns[h].conn) = h BY FoundIs DEF Verify
<1> QED BY <1>1, <1>2

LEMMA LeavesSame ==
  ASSUME NEW o, HeapInv(o), NEW h \in Live(o.conns)
  PROVE  Leaves(o, o, h)
<1>1. o.conns[h] # NULL BY HeapIs DEF HeapInv
<1> QED BY <1>1 DEF Leaves, Frame

LEMMA LeavesLive ==
  ASSUME NEW o, HeapInv(o), NEW h \in Live(o.conns), NEW r, Leaves(o, r, h)
  PROVE  Live(r.conns) = Live(o.conns) /\ h \in Live(r.conns) /\ HeapInv(r)
<1>1. o \in Heaps /\ r \in Heaps BY DEF Leaves, HeapInv
<1>2. Live(r.conns) \subseteq Objs /\ \A x \in Objs : x \in Live(r.conns) <=> r.conns[x] # NULL
  BY <1>1, HeapIs
<1>3. Live(o.conns) \subseteq Objs /\ \A x \in Objs : x \in Live(o.conns) <=> o.conns[x] # NULL
  BY <1>1, HeapIs
<1>4. \A x \in Objs : r.conns[x] # NULL <=> o.conns[x] # NULL BY <1>3 DEF Leaves, Frame
<1> QED BY <1>2, <1>3, <1>4 DEF Leaves

LEMMA LeavesThen ==
  ASSUME NEW o, HeapInv(o), NEW h \in Live(o.conns), NEW p, Leaves(o, p, h), NEW r, Leaves(p, r, h)
  PROVE  Leaves(o, r, h)
BY DEF Leaves, Frame

\* A connection with another statement, result set or close type.
LEMMA ReplaceIs ==
  ASSUME NEW o, HeapInv(o), NEW h \in Live(o.conns),
         NEW s \in Statement \cup {NULL}, NEW res \in CResults \cup {NULL}, NEW type \in StmtOptions,
         s = NULL <=> o.conns[h].hstmt = NULL,
         res # NULL => res.iODBC = o.conns[h].conn,
         s # NULL /\ s.bound # NULL => res # NULL /\ res.mem = s.bound
  PROVE  LET c == [conn |-> o.conns[h].conn, hdbc |-> o.conns[h].hdbc, hstmt |-> s,
                   Results |-> res, uStmtCloseType |-> type]
             r == With(o, h, c, o.statements)
         IN  Leaves(o, r, h) /\ r.conns[h] = c
<1> DEFINE c == [conn |-> o.conns[h].conn, hdbc |-> o.conns[h].hdbc, hstmt |-> s,
                 Results |-> res, uStmtCloseType |-> type]
<1>1. o.conns[h] \in ODBC_TYPE BY HeapIs DEF HeapInv
<1>2. o.conns[h].conn \in Nat /\ o.conns[h].hdbc \in Dbcs \cup {NULL} BY <1>1, ConnectionIs
<1>3. c \in ODBC_TYPE BY <1>2 DEF ODBC_TYPE
<1>4. /\ c.conn = o.conns[h].conn /\ c.hdbc = o.conns[h].hdbc
      /\ c.hstmt = s /\ c.Results = res
  OBVIOUS
<1> HIDE DEF c
<1>5. Sound(o.conns[h], o.connected) BY DEF HeapInv
<1>6. Sound(c, o.connected) BY <1>4, <1>5 DEF Sound
<1>7. Accounts(o, h, c, o.statements) BY <1>4 DEF Accounts
<1>8. Leaves(o, With(o, h, c, o.statements), h) /\ With(o, h, c, o.statements).conns[h] = c
  BY <1>3, <1>4, <1>6, <1>7, WithIs
<1> QED BY <1>8 DEF c

\* A statement in its parts.
LEMMA StatementIs ==
  ASSUME NEW s \in Statement
  PROVE  /\ s = [open |-> s.open, bound |-> s.bound]
         /\ s.open \in BOOLEAN /\ s.bound \in Sets \cup {NULL}
         /\ s # NULL
BY PointerAssumption DEF Statement

LEMMA UnbindIs ==
  ASSUME NEW o, HeapInv(o), NEW h \in Live(o.conns)
  PROVE  LET r == Unbind(o, h)
             s == o.conns[h].hstmt
         IN  /\ Leaves(o, r, h)
             /\ r.conns[h] = IF s = NULL THEN o.conns[h]
                             ELSE [conn |-> o.conns[h].conn, hdbc |-> o.conns[h].hdbc,
                                   hstmt |-> [open |-> s.open, bound |-> NULL],
                                   Results |-> o.conns[h].Results,
                                   uStmtCloseType |-> o.conns[h].uStmtCloseType]
<1> DEFINE s == o.conns[h].hstmt
<1>1. CASE s = NULL
  <2>1. Unbind(o, h) = o BY <1>1 DEF Unbind
  <2> QED BY <1>1, <2>1, LeavesSame
<1>2. CASE s # NULL
  <2>1. o \in Heaps /\ o.conns[h] \in ODBC_TYPE BY HeapIs DEF HeapInv
  <2>2. s \in Statement BY <1>2, <2>1, ConnectionIs
  <2> DEFINE t == [open |-> s.open, bound |-> NULL]
             c == [conn |-> o.conns[h].conn, hdbc |-> o.conns[h].hdbc, hstmt |-> t,
                   Results |-> o.conns[h].Results, uStmtCloseType |-> o.conns[h].uStmtCloseType]
  <2>3. t \in Statement /\ t # NULL /\ t.bound = NULL
    <3>1. t \in Statement BY <2>2, StatementIs DEF Statement
    <3> QED BY <3>1, StatementIs
  <2>4. [s EXCEPT !.bound = NULL] = t BY <2>2, StatementIs
  <2>5. [o.conns[h] EXCEPT !.hstmt = t] = c
    <3> HIDE DEF t, s
    <3> QED BY <2>1, ConnectionIs
  <2>6. Unbind(o, h) = [o EXCEPT !.conns[h].hstmt.bound = NULL] BY <1>2 DEF Unbind
  <2>7. Unbind(o, h) = With(o, h, c, o.statements)
    <3>1. Unbind(o, h) = [o EXCEPT !.conns = [o.conns EXCEPT ![h] = c]]
      BY <2>4, <2>5, <2>6
    <3> HIDE DEF c
    <3> QED BY <2>1, <3>1, HeapIs DEF With
  <2>8. Sound(o.conns[h], o.connected) BY DEF HeapInv
  <2>9. o.conns[h].Results \in CResults \cup {NULL} /\ o.conns[h].uStmtCloseType \in StmtOptions
    BY <2>1, ConnectionIs
  <2> HIDE DEF t
  <2>10. Leaves(o, With(o, h, c, o.statements), h) /\ With(o, h, c, o.statements).conns[h] = c
    BY <1>2, <2>3, <2>8, <2>9, ReplaceIs DEF Sound
  <2> QED BY <1>2, <2>7, <2>10 DEF t
<1> QED BY <1>1, <1>2

\* ~CResults unbinds the statement of the connection that owns the result set.
LEMMA DeleteResultsIs ==
  ASSUME NEW o, HeapInv(o), NEW h \in Live(o.conns)
  PROVE  LET r == DeleteResults(o, h)
             c == o.conns[h]
             s == IF c.hstmt = NULL THEN NULL ELSE [open |-> c.hstmt.open, bound |-> NULL]
         IN  /\ Leaves(o, r, h)
             /\ r.conns[h] = [conn |-> c.conn, hdbc |-> c.hdbc, hstmt |-> s,
                              Results |-> NULL, uStmtCloseType |-> c.uStmtCloseType]
             /\ s \in Statement \cup {NULL}
<1> DEFINE c == o.conns[h]
           s == IF c.hstmt = NULL THEN NULL ELSE [open |-> c.hstmt.open, bound |-> NULL]
           d == [conn |-> c.conn, hdbc |-> c.hdbc, hstmt |-> s,
                 Results |-> NULL, uStmtCloseType |-> c.uStmtCloseType]
<1>1. o \in Heaps /\ c \in ODBC_TYPE /\ Sound(c, o.connected) BY HeapIs DEF HeapInv
<1>2. c.hstmt # NULL => c.hstmt \in Statement /\ s \in Statement /\ s # NULL
  <2>1. c.hstmt # NULL => c.hstmt \in Statement BY <1>1, ConnectionIs
  <2>2. c.hstmt # NULL => s \in Statement BY <2>1, StatementIs DEF Statement
  <2> QED BY <2>1, <2>2, StatementIs
<1>2a. s \in Statement \cup {NULL} BY <1>2
<1>3. CASE c.Results = NULL
  <2>1. DeleteResults(o, h) = o BY <1>3 DEF DeleteResults
  <2>2. c.hstmt # NULL => c.hstmt.bound = NULL BY <1>1, <1>3 DEF Sound
  <2>3. c.hstmt = s BY <1>2, <2>2, StatementIs
  <2>4. c = d
    <3> HIDE DEF c, s
    <3> QED BY <1>1, <1>3, <2>3, ConnectionIs
  <2> QED BY <1>2a, <2>1, <2>4, LeavesSame
<1>4. CASE c.Results # NULL
  <2>1. c.Results.iODBC = c.conn BY <1>1, <1>4 DEF Sound
  <2>2. Verify(o, c.Results.iODBC) = h /\ h # NULL BY <2>1, VerifyIs, FoundIs
  <2> DEFINE u == Unbind(o, h)
  <2>3. DeleteResults(o, h) = [u EXCEPT !.conns[h].Results = NULL]
    BY <1>4, <2>2 DEF DeleteResults
  <2>4. /\ Leaves(o, u, h)
        /\ u.conns[h] = IF c.hstmt = NULL THEN c
                        ELSE [conn |-> c.conn, hdbc |-> c.hdbc, hstmt |-> s,
                              Results |-> c.Results, uStmtCloseType |-> c.uStmtCloseType]
    BY UnbindIs
  <2> HIDE DEF u
  <2>5. HeapInv(u) /\ h \in Live(u.conns) /\ u \in Heaps BY <2>4, LeavesLive DEF HeapInv
  <2>6. u.conns[h] = [conn |-> c.conn, hdbc |-> c.hdbc, hstmt |-> s,
                      Results |-> c.Results, uStmtCloseType |-> c.uStmtCloseType]
    <3>1. CASE c.hstmt = NULL
      <4>1. s = c.hstmt BY <3>1
      <4> HIDE DEF c, s
      <4> QED BY <1>1, <2>4, <3>1, <4>1, ConnectionIs
    <3>2. CASE c.hstmt # NULL BY <2>4, <3>2
    <3> QED BY <3>1, <3>2
  <2>7. [u.conns[h] EXCEPT !.Results = NULL] = d
    <3> HIDE DEF c, s
    <3> QED BY <2>6
  <2>8. DeleteResults(o, h) = With(u, h, d, u.statements)
    <3>1. DeleteResults(o, h) = [u EXCEPT !.conns = [u.conns EXCEPT ![h] = d]]
      BY <2>3, <2>7
    <3> HIDE DEF d
    <3> QED BY <2>5, <3>1, HeapIs DEF With
  <2>9. s # NULL => s.bound = NULL BY <1>2
  <2>10. c.uStmtCloseType \in StmtOptions BY <1>1, ConnectionIs
  <2>11. u.conns[h].hstmt = s /\ u.conns[h].conn = c.conn /\ u.conns[h].hdbc = c.hdbc BY <2>6
  <2> HIDE DEF s, c
  <2>12. Leaves(u, With(u, h, d, u.statements), h) /\ With(u, h, d, u.statements).conns[h] = d
    <3>1. NULL \in CResults \cup {NULL} OBVIOUS
    <3> QED BY <1>2a, <2>5, <2>9, <2>10, <2>11, <3>1, ReplaceIs
  <2>13. Leaves(o, DeleteResults(o, h), h) /\ DeleteResults(o, h).conns[h] = d
    BY <2>4, <2>8, <2>12, LeavesThen
  <2> QED BY <1>2a, <2>13 DEF s, c
<1> QED BY <1>3, <1>4

\* CResults binds what is open to buffers of its own.
LEMMA NewResultsIs ==
  ASSUME NEW o, HeapInv(o), NEW h \in Live(o.conns), o.conns[h].Results = NULL
  PROVE  LET r == NewResults(o, h)
             s == o.conns[h].hstmt
         IN  /\ Leaves(o, r, h)
             /\ s # NULL /\ s.open =>
                  /\ r.conns[h].hstmt # NULL /\ r.conns[h].hstmt.open
                  /\ r.conns[h].Results # NULL /\ r.conns[h].Results.mem = r.conns[h].hstmt.bound
<1> DEFINE c == o.conns[h]
           mem == CHOOSE m \in Sets : c.hstmt = NULL \/ c.hstmt.bound # m
           res == [iODBC |-> c.conn, mem |-> mem]
           t == [open |-> c.hstmt.open, bound |-> mem]
           s == IF c.hstmt # NULL /\ c.hstmt.open THEN t ELSE c.hstmt
           d == [conn |-> c.conn, hdbc |-> c.hdbc, hstmt |-> s,
                 Results |-> res, uStmtCloseType |-> c.uStmtCloseType]
<1>1. o \in Heaps /\ c \in ODBC_TYPE /\ Sound(c, o.connected) BY HeapIs DEF HeapInv
<1>2. c.hstmt # NULL => c.hstmt.bound = NULL BY <1>1 DEF Sound
<1>3. mem \in Sets
  <2>1. Sets # {} /\ NULL \notin Sets BY MemoryAssumption, NullAssumption, FS_EmptySet
  <2>2. \E m \in Sets : c.hstmt = NULL \/ c.hstmt.bound # m BY <1>2, <2>1
  <2> QED BY <2>2
<1>4. res \in CResults /\ res # NULL /\ res.iODBC = c.conn /\ res.mem = mem
  <2> HIDE DEF mem, c
  <2>1. res \in CResults BY <1>1, <1>3, ConnectionIs DEF CResults
  <2> QED BY <2>1, PointerAssumption
<1>5. c.hstmt # NULL => c.hstmt \in Statement /\ t \in Statement /\ t # NULL
  <2> HIDE DEF mem
  <2>1. c.hstmt # NULL => c.hstmt \in Statement BY <1>1, ConnectionIs
  <2>2. c.hstmt # NULL => t \in Statement BY <1>3, <2>1, StatementIs DEF Statement
  <2> QED BY <2>1, <2>2, StatementIs
<1> DEFINE built == [o EXCEPT !.conns[h].Results = res]
<1>6. NewResults(o, h) = IF c.hstmt # NULL /\ c.hstmt.open
                         THEN [built EXCEPT !.conns[h].hstmt.bound = mem] ELSE built
  BY Zenon DEF NewResults
<1> HIDE DEF mem
<1>7. t.open = c.hstmt.open /\ t.bound = mem OBVIOUS
<1> DEFINE e == [conn |-> c.conn, hdbc |-> c.hdbc, hstmt |-> c.hstmt,
                 Results |-> res, uStmtCloseType |-> c.uStmtCloseType]
<1>8. built = With(o, h, e, o.statements)
  <2>1. [c EXCEPT !.Results = res] = e
    <3> HIDE DEF c, res
    <3> QED BY <1>1, ConnectionIs
  <2>2. built = [o EXCEPT !.conns = [o.conns EXCEPT ![h] = e]] BY <2>1
  <2> HIDE DEF e, built
  <2> QED BY <1>1, <2>2, HeapIs DEF With
<1>9. h \in Objs /\ o.conns \in [Objs -> ODBC_TYPE \cup {NULL}] BY <1>1, HeapIs
<1>10. NewResults(o, h) = With(o, h, d, o.statements)
  <2>1. CASE c.hstmt # NULL /\ c.hstmt.open
    <3>1. built.conns = [o.conns EXCEPT ![h] = e] BY <1>8 DEF With
    <3>2. built.conns[h] = e
      <4> HIDE DEF e, built
      <4> QED BY <1>9, <3>1
    <3>3. [e EXCEPT !.hstmt = t] = d
      <4>1. s = t BY <2>1
      <4> HIDE DEF t, res, s, c
      <4> QED BY <4>1
    <3>4. [c.hstmt EXCEPT !.bound = mem] = t BY <1>5, <2>1, StatementIs
    <3>5. [built.conns EXCEPT ![h] = d] = [o.conns EXCEPT ![h] = d]
      <4> HIDE DEF e, built, d
      <4> QED BY <1>9, <3>1
    <3>6. NewResults(o, h) = [built EXCEPT !.conns[h].hstmt.bound = mem] BY <1>6, <2>1
    <3>7. e.hstmt = c.hstmt OBVIOUS
    <3> HIDE DEF built
    <3>8. [built EXCEPT !.conns[h].hstmt.bound = mem]
            = [built EXCEPT !.conns = [built.conns EXCEPT ![h] = d]]
      <4> HIDE DEF e, d, t, res
      <4> QED BY <3>2, <3>3, <3>4, <3>7
    <3>9. built = With(o, h, e, o.statements) BY <1>8
    <3>10. [built EXCEPT !.conns = [built.conns EXCEPT ![h] = d]] = With(o, h, d, o.statements)
      <4> HIDE DEF e, d
      <4> QED BY <3>5, <3>9 DEF With
    <3> QED BY <3>6, <3>8, <3>10
  <2>2. CASE ~ (c.hstmt # NULL /\ c.hstmt.open)
    <3>1. d = e BY <2>2
    <3> HIDE DEF d, e, built
    <3> QED BY <1>6, <1>8, <2>2, <3>1
  <2> QED BY <2>1, <2>2
<1>11. s \in Statement \cup {NULL} /\ (s = NULL <=> c.hstmt = NULL)
  BY <1>5
<1>12. s # NULL /\ s.bound # NULL => res.mem = s.bound
  BY <1>2, <1>4, <1>5, <1>7
<1>13. c.uStmtCloseType \in StmtOptions BY <1>1, ConnectionIs
<1> HIDE DEF c, s, res
<1>14. Leaves(o, With(o, h, d, o.statements), h) /\ With(o, h, d, o.statements).conns[h] = d
  BY <1>4, <1>11, <1>12, <1>13, ReplaceIs DEF c
<1>15. NewResults(o, h).conns[h].hstmt = s /\ NewResults(o, h).conns[h].Results = res
  BY <1>10, <1>14
<1>16. c.hstmt # NULL /\ c.hstmt.open => s # NULL /\ s.open /\ s.bound = mem
  BY <1>5, <1>7 DEF s
<1> QED BY <1>4, <1>10, <1>14, <1>15, <1>16 DEF c

\* The result set is replaced, and what has a cursor is bound to the new one.
LEMMA RenewIs ==
  ASSUME NEW o, HeapInv(o), NEW h \in Live(o.conns)
  PROVE  LET r == Renew(o, h)
             s == o.conns[h].hstmt
         IN  /\ Leaves(o, r, h)
             /\ s # NULL /\ s.open =>
                  /\ r.conns[h].hstmt # NULL /\ r.conns[h].hstmt.open
                  /\ r.conns[h].Results # NULL /\ r.conns[h].Results.mem = r.conns[h].hstmt.bound
<1> DEFINE p == DeleteResults(o, h)
           c == o.conns[h]
           s == IF c.hstmt = NULL THEN NULL ELSE [open |-> c.hstmt.open, bound |-> NULL]
<1>1. /\ Leaves(o, p, h)
      /\ p.conns[h] = [conn |-> c.conn, hdbc |-> c.hdbc, hstmt |-> s,
                       Results |-> NULL, uStmtCloseType |-> c.uStmtCloseType]
      /\ s \in Statement \cup {NULL}
  BY DeleteResultsIs
<1> HIDE DEF p
<1>2. p.conns[h].Results = NULL /\ p.conns[h].hstmt = s
  <2> HIDE DEF s, c
  <2> QED BY <1>1
<1>3. HeapInv(p) /\ h \in Live(p.conns) BY <1>1, LeavesLive
<1>4. /\ Leaves(p, NewResults(p, h), h)
      /\ s # NULL /\ s.open =>
           LET r == NewResults(p, h)
           IN  /\ r.conns[h].hstmt # NULL /\ r.conns[h].hstmt.open
               /\ r.conns[h].Results # NULL /\ r.conns[h].Results.mem = r.conns[h].hstmt.bound
  <2> HIDE DEF s
  <2> QED BY <1>2, <1>3, NewResultsIs
<1>5. Renew(o, h) = NewResults(p, h) BY DEF Renew, p
<1>6. Leaves(o, Renew(o, h), h) BY <1>1, <1>4, <1>5, LeavesThen
<1>7. c.hstmt # NULL /\ c.hstmt.open => s # NULL /\ s.open
  <2>1. c.hstmt # NULL => s \in Statement
    <3>1. c \in ODBC_TYPE BY HeapIs DEF HeapInv
    <3>2. c.hstmt # NULL => c.hstmt \in Statement BY <3>1, ConnectionIs
    <3> QED BY <3>2, StatementIs DEF Statement
  <2> QED BY <2>1, StatementIs
<1> QED BY <1>4, <1>5, <1>6, <1>7

-----------------------------------------------------------------------------
\* The statement of a connection is dropped; the driver counts it no longer.
LEMMA DropStmtIs ==
  ASSUME NEW o, HeapInv(o), NEW h \in Live(o.conns)
  PROVE  LET r == DropStmt(o, h)
         IN  /\ Leaves(o, r, h)
             /\ r.conns[h].hstmt = NULL
             /\ r.conns[h].Results = o.conns[h].Results
<1> DEFINE c == o.conns[h]
<1>1. o \in Heaps /\ c \in ODBC_TYPE /\ Sound(c, o.connected) BY HeapIs DEF HeapInv
<1>2. CASE c.hstmt = NULL
  <2>1. DropStmt(o, h) = o BY <1>2 DEF DropStmt
  <2> QED BY <1>2, <2>1, LeavesSame
<1>3. CASE c.hstmt # NULL
  <2> DEFINE d == [conn |-> c.conn, hdbc |-> c.hdbc, hstmt |-> NULL,
                   Results |-> c.Results, uStmtCloseType |-> c.uStmtCloseType]
             less == [o.statements EXCEPT ![c.hdbc] = @ - 1]
  <2>1. [c EXCEPT !.hstmt = NULL] = d
    <3> HIDE DEF c
    <3> QED BY <1>1, ConnectionIs
  <2>2. DropStmt(o, h) = [o EXCEPT !.conns = [o.conns EXCEPT ![h] = d], !.statements = less]
    <3>1. DropStmt(o, h) = [o EXCEPT !.conns[h].hstmt = NULL, !.statements[c.hdbc] = @ - 1]
      BY <1>3 DEF DropStmt
    <3> QED BY <2>1, <3>1
  <2>3. DropStmt(o, h) = With(o, h, d, less)
    <3> HIDE DEF d, less
    <3> QED BY <1>1, <2>2, HeapIs DEF With
  <2>4. d \in ODBC_TYPE
    <3> HIDE DEF c
    <3> QED BY <1>1, ConnectionIs DEF ODBC_TYPE
  <2>5. d.conn = c.conn /\ d.hdbc = c.hdbc /\ d.hstmt = NULL /\ d.Results = c.Results OBVIOUS
  <2> HIDE DEF d
  <2>6. Sound(d, o.connected) BY <1>1, <2>5 DEF Sound
  <2>7. Accounts(o, h, d, less) BY <1>3, <2>5 DEF Accounts
  <2>8. Leaves(o, With(o, h, d, less), h) /\ With(o, h, d, less).conns[h] = d
    BY <2>4, <2>5, <2>6, <2>7, WithIs
  <2> QED BY <2>3, <2>5, <2>8
<1> QED BY <1>2, <1>3

\* SQLAllocStmt, on a connection that is connected and has no statement.
LEMMA AllocStmtIs ==
  ASSUME NEW o, HeapInv(o), NEW h \in Live(o.conns), o.conns[h].hstmt = NULL, Connected(o, h)
  PROVE  Leaves(o, AllocStmt(o, h), h)
<1> DEFINE c == o.conns[h]
           s == [open |-> FALSE, bound |-> NULL]
           d == [conn |-> c.conn, hdbc |-> c.hdbc, hstmt |-> s,
                 Results |-> c.Results, uStmtCloseType |-> c.uStmtCloseType]
           more == [o.statements EXCEPT ![c.hdbc] = @ + 1]
<1>1. o \in Heaps /\ c \in ODBC_TYPE /\ Sound(c, o.connected) BY HeapIs DEF HeapInv
<1>2. s \in Statement /\ s.bound = NULL BY DEF Statement
<1>3. s # NULL BY <1>2, StatementIs
<1> HIDE DEF s
<1>4. [c EXCEPT !.hstmt = s] = d
  <2> HIDE DEF c
  <2> QED BY <1>1, ConnectionIs
<1>5. AllocStmt(o, h) = [o EXCEPT !.conns = [o.conns EXCEPT ![h] = d], !.statements = more]
  BY <1>4 DEF AllocStmt, s
<1>6. AllocStmt(o, h) = With(o, h, d, more)
  <2> HIDE DEF d, more
  <2> QED BY <1>1, <1>5, HeapIs DEF With
<1>7. d \in ODBC_TYPE
  <2> HIDE DEF c
  <2> QED BY <1>1, <1>2, ConnectionIs DEF ODBC_TYPE
<1>8. d.conn = c.conn /\ d.hdbc = c.hdbc /\ d.hstmt = s /\ d.Results = c.Results OBVIOUS
<1> HIDE DEF d
<1>9. Sound(d, o.connected) BY <1>1, <1>2, <1>8 DEF Sound, Connected
<1>10. Accounts(o, h, d, more) BY <1>3, <1>8 DEF Accounts
<1>11. Leaves(o, With(o, h, d, more), h) BY <1>7, <1>8, <1>9, <1>10, WithIs
<1> QED BY <1>6, <1>11

\* A statement that is there is opened or closed.
LEMMA SetOpenIs ==
  ASSUME NEW o, HeapInv(o), NEW h \in Live(o.conns), o.conns[h].hstmt # NULL, NEW open \in BOOLEAN
  PROVE  LET r == [o EXCEPT !.conns[h].hstmt.open = open]
         IN  Leaves(o, r, h) /\ r.conns[h].hstmt # NULL /\ r.conns[h].hstmt.open = open
<1> DEFINE c == o.conns[h]
           s == [open |-> open, bound |-> c.hstmt.bound]
           d == [conn |-> c.conn, hdbc |-> c.hdbc, hstmt |-> s,
                 Results |-> c.Results, uStmtCloseType |-> c.uStmtCloseType]
           r == [o EXCEPT !.conns[h].hstmt.open = open]
<1>1. o \in Heaps /\ c \in ODBC_TYPE /\ Sound(c, o.connected) BY HeapIs DEF HeapInv
<1>2. c.hstmt \in Statement BY <1>1, ConnectionIs
<1>3. s \in Statement BY <1>2, StatementIs DEF Statement
<1>4. s # NULL /\ s.bound = c.hstmt.bound /\ s.open = open BY <1>3, StatementIs
<1>5. [c.hstmt EXCEPT !.open = open] = s BY <1>2, StatementIs
<1> HIDE DEF s
<1>6. [c EXCEPT !.hstmt = s] = d
  <2> HIDE DEF c
  <2> QED BY <1>1, ConnectionIs
<1>7. r = [o EXCEPT !.conns = [o.conns EXCEPT ![h] = d]] BY <1>5, <1>6
<1>8. r = With(o, h, d, o.statements)
  <2> HIDE DEF d, r
  <2> QED BY <1>1, <1>7, HeapIs DEF With
<1>9. c.Results \in CResults \cup {NULL} /\ c.uStmtCloseType \in StmtOptions BY <1>1, ConnectionIs
<1>10. Leaves(o, With(o, h, d, o.statements), h) /\ With(o, h, d, o.statements).conns[h] = d
  <2>1. c.Results # NULL => c.Results.iODBC = c.conn BY <1>1 DEF Sound
  <2>2. s # NULL /\ s.bound # NULL => c.Results # NULL /\ c.Results.mem = s.bound
    BY <1>1, <1>4 DEF Sound
  <2> QED BY <1>3, <1>4, <1>9, <2>1, <2>2, ReplaceIs
<1>11. d.hstmt = s OBVIOUS
<1> HIDE DEF d, r
<1> QED BY <1>4, <1>8, <1>10, <1>11 DEF r

LEMMA OpensIs ==
  ASSUME NEW o, HeapInv(o), NEW h \in Live(o.conns), NEW r \in Opens(o, h)
  PROVE  Leaves(o, r, h) /\ r.conns[h].hstmt # NULL /\ r.conns[h].hstmt.open
<1>1. o.conns[h].hstmt # NULL /\ r = [o EXCEPT !.conns[h].hstmt.open = TRUE] BY DEF Opens
<1> QED BY <1>1, SetOpenIs

LEMMA WithTypeIs ==
  ASSUME NEW o, HeapInv(o), NEW h \in Live(o.conns), NEW type \in StmtOptions
  PROVE  Leaves(o, WithType(o, h, type), h)
<1> DEFINE c == o.conns[h]
           d == [conn |-> c.conn, hdbc |-> c.hdbc, hstmt |-> c.hstmt,
                 Results |-> c.Results, uStmtCloseType |-> type]
<1>1. o \in Heaps /\ c \in ODBC_TYPE /\ Sound(c, o.connected) BY HeapIs DEF HeapInv
<1>2. [c EXCEPT !.uStmtCloseType = type] = d
  <2> HIDE DEF c
  <2> QED BY <1>1, ConnectionIs
<1>3. WithType(o, h, type) = [o EXCEPT !.conns = [o.conns EXCEPT ![h] = d]]
  BY <1>2 DEF WithType
<1>4. WithType(o, h, type) = With(o, h, d, o.statements)
  <2> HIDE DEF d
  <2> QED BY <1>1, <1>3, HeapIs DEF With
<1>5. c.Results \in CResults \cup {NULL} /\ c.hstmt \in Statement \cup {NULL} BY <1>1, ConnectionIs
<1>6. Leaves(o, With(o, h, d, o.statements), h)
  BY <1>1, <1>5, ReplaceIs DEF Sound
<1> QED BY <1>4, <1>6

\* SQLFreeStmt does what the close type says.
LEMMA FreeStmtIs ==
  ASSUME NEW o, HeapInv(o), NEW h \in Live(o.conns), o.conns[h].hstmt # NULL
  PROVE  Leaves(o, FreeStmt(o, h), h)
<1> DEFINE type == o.conns[h].uStmtCloseType
<1>1. CASE type = "SQL_DROP" BY <1>1, DropStmtIs DEF FreeStmt
<1>2. CASE type = "SQL_CLOSE"
  <2>1. FreeStmt(o, h) = [o EXCEPT !.conns[h].hstmt.open = FALSE] BY <1>2 DEF FreeStmt
  <2>2. \A open \in BOOLEAN : Leaves(o, [o EXCEPT !.conns[h].hstmt.open = open], h) BY SetOpenIs
  <2>3. Leaves(o, [o EXCEPT !.conns[h].hstmt.open = FALSE], h) BY <2>2, Zenon
  <2> QED BY <2>1, <2>3
<1>3. CASE type = "SQL_UNBIND" BY <1>3, UnbindIs DEF FreeStmt
<1>4. CASE type \notin {"SQL_DROP", "SQL_CLOSE", "SQL_UNBIND"}
  <2>1. FreeStmt(o, h) = o BY <1>4 DEF FreeStmt
  <2> QED BY <2>1, LeavesSame
<1> QED BY <1>1, <1>2, <1>3, <1>4

\* ResetStmt, whatever the driver refuses.
LEMMA ResetStmtIs ==
  ASSUME NEW o, HeapInv(o), NEW h \in Live(o.conns), NEW r \in ResetStmt(o, h)
  PROVE  Leaves(o, r.heap, h)
<1> DEFINE had == o.conns[h].hstmt # NULL
           freed == IF had THEN FreeStmt(o, h) ELSE o
<1>1. Leaves(o, freed, h) BY FreeStmtIs, LeavesSame
<1>2. Leaves(o, o, h) BY LeavesSame
<1>3. HeapInv(freed) /\ h \in Live(freed.conns) BY <1>1, LeavesLive
<1> HIDE DEF freed
<1>4. \/ r \in {Done(o), Failed(o), Done(freed), Failed(freed)}
      \/ /\ freed.conns[h].hstmt = NULL /\ Connected(o, h)
         /\ r = Done(AllocStmt(freed, h))
  BY DEF ResetStmt, freed
<1>5. CASE r \in {Done(o), Failed(o), Done(freed), Failed(freed)}
  BY <1>1, <1>2, <1>5 DEF Done, Failed
<1>6. CASE /\ freed.conns[h].hstmt = NULL /\ Connected(o, h)
           /\ r = Done(AllocStmt(freed, h))
  <2>1. Connected(freed, h) BY <1>1, <1>6 DEF Leaves, Frame, Connected
  <2>2. Leaves(freed, AllocStmt(freed, h), h) BY <1>3, <1>6, <2>1, AllocStmtIs
  <2>3. Leaves(o, AllocStmt(freed, h), h) BY <1>1, <2>2, LeavesThen
  <2> QED BY <1>6, <2>3 DEF Done
<1> QED BY <1>4, <1>5, <1>6

-----------------------------------------------------------------------------
\* Connections come and go.

\* The next number, and what a number finds.
Issued(o) == IF o.mom = NULL THEN 0 ELSE o.mom.iNextID

Found(o, n) == IF o.mom = NULL THEN NULL ELSE Lookup(o.mom, n)

\* The number of an object that is in one slot.
LEMMA NumberIs ==
  ASSUME NEW I, NEW O, NEW m \in ListOf(I, O), NEW obj, NEW k \in Entries(m), m.slot[k].obj = obj,
         \A i \in Entries(m) : m.slot[i].obj = obj => i = k
  PROVE  NumberOf(m, obj) = m.slot[k].id
<1> DEFINE P(i) == /\ m.slot[i].obj = obj
                   /\ \A j \in Entries(m) : m.slot[j].obj = obj => i <= j
<1>1. Entries(m) \subseteq Nat BY SlotsOf
<1>2. P(k) BY <1>1
<1>3. \A i \in Entries(m) : P(i) => i = k OBVIOUS
<1>4. (CHOOSE i \in Entries(m) : P(i)) = k BY <1>2, <1>3
<1>5. NumberOf(m, obj) = m.slot[CHOOSE i \in Entries(m) : P(i)].id BY DEF NumberOf
<1> QED BY <1>4, <1>5

LEMMA SpareIs ==
  ASSUME NEW o, HeapInv(o)
  PROVE  /\ HasSpare(o.conns) =>
              /\ Spare(o.conns) \in Objs /\ Spare(o.conns) \notin Live(o.conns)
              /\ Spare(o.conns) # NULL
         /\ HasSpare(o.hdbcs) => Spare(o.hdbcs) \in Dbcs /\ o.hdbcs[Spare(o.hdbcs)] = NULL
<1>1. o \in Heaps BY DEF HeapInv
<1>2. DOMAIN o.conns = Objs /\ DOMAIN o.hdbcs = Dbcs BY <1>1, HeapIs
<1>3. HasSpare(o.conns) => Spare(o.conns) \in Objs /\ o.conns[Spare(o.conns)] = NULL
  BY <1>2 DEF HasSpare, Spare
<1>4. HasSpare(o.hdbcs) => Spare(o.hdbcs) \in Dbcs /\ o.hdbcs[Spare(o.hdbcs)] = NULL
  BY <1>2 DEF HasSpare, Spare
<1>5. HasSpare(o.conns) => Spare(o.conns) \notin Live(o.conns) BY <1>1, <1>3, HeapIs
<1> QED BY <1>3, <1>4, <1>5, NullAssumption

\* NewODBC lists the connection under the next number.
LEMMA NewIs ==
  ASSUME NEW o, HeapInv(o), HasSpare(o.conns)
  PROVE  LET h == Spare(o.conns)
             n == Issued(o)
             r == NewODBC(o)
         IN  /\ HeapInv(r)
             /\ n \in Nat
             /\ r.mom # NULL /\ Issued(r) = n + 1
             /\ h \in Objs /\ h \notin Live(o.conns) /\ h # NULL
             /\ r.conns = [o.conns EXCEPT ![h] = CleanODBC(n)]
             /\ r.hdbcs = o.hdbcs /\ r.connected = o.connected /\ r.statements = o.statements
             /\ Lookup(r.mom, n) = h /\ Found(o, n) = NULL
             /\ \A x \in Nat : x # n => Lookup(r.mom, x) = Found(o, x)
<1> DEFINE h == Spare(o.conns)
           n == Issued(o)
           r == NewODBC(o)
           b == IF o.mom = NULL THEN InitMom(START_NUM_OF_ODBCS) ELSE o.mom
           a == AddToList(b, n, h)
           m == [slot |-> a.slot, iInUse |-> a.iInUse, iNextID |-> n + 1]
<1>1. o \in Heaps BY DEF HeapInv
<1>2. h \in Objs /\ h \notin Live(o.conns) /\ h # NULL BY SpareIs
<1>3. FREE_ITEM \notin Nat /\ NULL \notin Objs BY NumberAssumption, NullAssumption
<1> HIDE DEF h
<1>4. /\ b \in ListOf(Nat, Objs) /\ WellFormed(b) /\ b.iNextID = n
      /\ \A i \in Occupied(b) : /\ b.slot[i].id < n
                                /\ b.slot[i].obj \in Live(o.conns)
                                /\ o.conns[b.slot[i].obj].conn = b.slot[i].id
      /\ \A x \in Live(o.conns) : \E i \in Occupied(b) : b.slot[i].obj = x
  <2>1. CASE o.mom = NULL
    <3>1. b = InitMom(START_NUM_OF_ODBCS) /\ START_NUM_OF_ODBCS \in Nat
      BY <2>1 DEF START_NUM_OF_ODBCS
    <3>2. InitMom(START_NUM_OF_ODBCS).iNextID = 0 BY DEF InitMom
    <3>3. Live(o.conns) = {} BY <2>1 DEF HeapInv, Listed
    <3> HIDE DEF b
    <3> QED BY <2>1, <3>1, <3>2, <3>3, InitIs DEF Issued
  <2>2. CASE o.mom # NULL
    <3>1. b = o.mom /\ n = o.mom.iNextID BY <2>2 DEF Issued
    <3>2. b \in ListOf(Nat, Objs) BY <1>1, <2>2, <3>1, HeapIs
    <3> HIDE DEF b, n
    <3> QED BY <2>2, <3>1, <3>2 DEF HeapInv, Listed
  <2> QED BY <2>1, <2>2
<1>5. \A x : Found(o, x) = IF o.mom = NULL THEN NULL ELSE Lookup(b, x) BY DEF Found
<1>6. \A x \in Nat : Lookup(b, x) = Found(o, x)
  <2>1. CASE o.mom = NULL
    <3>1. b = InitMom(START_NUM_OF_ODBCS) /\ START_NUM_OF_ODBCS \in Nat
      BY <2>1 DEF START_NUM_OF_ODBCS
    <3>2. Occupied(b) = {} BY <3>1, InitIs
    <3> HIDE DEF b
    <3>3. \A x \in Nat : Lookup(b, x) = NULL BY <1>3, <1>4, <3>2, LookupIs
    <3> QED BY <1>5, <2>1, <3>3
  <2>2. CASE o.mom # NULL BY <1>5, <2>2
  <2> QED BY <2>1, <2>2
<1>7. n \in Nat BY <1>4, SlotsOf
<1>8. NewODBC(o) = [o EXCEPT !.mom = AddNumber(b, h),
                             !.conns[h] = CleanODBC(NumberOf(AddNumber(b, h), h))]
  BY Zenon DEF NewODBC, h
<1> HIDE DEF b, n
<1>9. ~ Holds(b, n)
  <2> SUFFICES ASSUME NEW i \in Entries(b), b.slot[i].id = n PROVE FALSE BY DEF Holds
  <2>1. i \in Occupied(b) BY <1>3, <1>7 DEF Occupied
  <2> QED BY <1>4, <1>7, <2>1
<1>10. /\ a \in ListOf(Nat, Objs) /\ WellFormed(a) /\ a.iNextID = n
       /\ \E k \in Occupied(a) : /\ k \notin Occupied(b)
                                 /\ Occupied(a) = Occupied(b) \cup {k}
                                 /\ a.slot[k] = [id |-> n, obj |-> h]
                                 /\ \A i \in Occupied(b) : a.slot[i] = b.slot[i]
  <2>1. /\ a \in ListOf(Nat, Objs) /\ WellFormed(a) /\ a.iNextID = b.iNextID
        /\ \E k \in Occupied(a) : /\ k \notin Occupied(b)
                                  /\ Occupied(a) = Occupied(b) \cup {k}
                                  /\ a.slot[k] = [id |-> n, obj |-> h]
                                  /\ \A i \in Occupied(b) : a.slot[i] = b.slot[i]
    BY <1>2, <1>3, <1>4, <1>7, <1>9, AddIs
  <2> QED BY <1>4, <2>1
<1>11. Lookup(a, n) = h /\ \A x \in Nat : x # n => Lookup(a, x) = Lookup(b, x)
  BY <1>2, <1>3, <1>4, <1>7, <1>9, AddFinds
<1>12. AddNumber(b, h) = [a EXCEPT !.iNextID = @ + 1] BY <1>4 DEF AddNumber
<1> HIDE DEF a
<1>13. AddNumber(b, h) = m
  <2>1. a = [slot |-> a.slot, iInUse |-> a.iInUse, iNextID |-> a.iNextID] BY <1>10 DEF ListOf
  <2> QED BY <1>10, <1>12, <2>1
<1>14. m.slot = a.slot /\ m.iInUse = a.iInUse /\ m.iNextID = n + 1 OBVIOUS
<1>15. m \in ListOf(Nat, Objs) BY <1>7, <1>10 DEF ListOf
<1> HIDE DEF m
<1>16. Entries(m) = Entries(a) /\ Occupied(m) = Occupied(a) /\ WellFormed(m)
  BY <1>10, <1>14 DEF Entries, Occupied, TotalElements, WellFormed
<1>17. \A x \in Nat : Lookup(m, x) = Lookup(a, x)
  BY <1>3, <1>10, <1>14, <1>15, <1>16, SameFound
<1>18. PICK k \in Occupied(a) : /\ k \notin Occupied(b)
                                /\ Occupied(a) = Occupied(b) \cup {k}
                                /\ a.slot[k] = [id |-> n, obj |-> h]
                                /\ \A i \in Occupied(b) : a.slot[i] = b.slot[i]
  BY <1>10
<1>19. a.slot[k].id = n /\ a.slot[k].obj = h BY <1>18
<1>20. NumberOf(m, h) = n
  <2>1. k \in Entries(m) BY <1>16 DEF Occupied
  <2>2. ASSUME NEW i \in Entries(m), m.slot[i].obj = h PROVE i = k
    <3>1. i \in Occupied(m) BY <1>2, <1>16, <2>2 DEF WellFormed, Occupied
    <3>2. i \in Occupied(b) => b.slot[i].obj = h BY <1>14, <1>18, <2>2
    <3> QED BY <1>2, <1>4, <1>16, <1>18, <3>1, <3>2
  <2> QED BY <1>14, <1>15, <1>19, <2>1, <2>2, NumberIs
<1> DEFINE c == CleanODBC(n)
           conns == [o.conns EXCEPT ![h] = c]
<1>21. r = [mom |-> m, conns |-> conns, hdbcs |-> o.hdbcs,
            connected |-> o.connected, statements |-> o.statements]
  <2>1. r = [o EXCEPT !.mom = m, !.conns = conns] BY <1>8, <1>13, <1>20
  <2>2. o = [mom |-> o.mom, conns |-> o.conns, hdbcs |-> o.hdbcs,
             connected |-> o.connected, statements |-> o.statements]
    BY <1>1, HeapIs
  <2> HIDE DEF r, conns
  <2> QED BY <2>1, <2>2
<1>22. /\ r.mom = m /\ r.conns = conns /\ r.hdbcs = o.hdbcs
       /\ r.connected = o.connected /\ r.statements = o.statements
  <2> HIDE DEF r, conns
  <2> QED BY <1>21
<1>23. c \in ODBC_TYPE /\ c.conn = n /\ c.hdbc = NULL /\ c.hstmt = NULL /\ c.Results = NULL
  BY <1>7 DEF CleanODBC, ODBC_TYPE, StmtOptions
<1>24. c # NULL BY <1>23, ConnectionIs
<1> HIDE DEF c
<1>25. conns \in [Objs -> ODBC_TYPE \cup {NULL}] BY <1>1, <1>23, HeapIs
<1>26. conns[h] = c /\ \A x \in Objs : x # h => conns[x] = o.conns[x] BY <1>1, <1>2, HeapIs
<1> HIDE DEF conns
<1>27. r \in Heaps
  <2> HIDE DEF r
  <2> QED BY <1>1, <1>15, <1>21, <1>25, HeapIs DEF Heaps
<1> HIDE DEF r
<1>28. Live(r.conns) = Live(o.conns) \cup {h}
  <2>1. Live(r.conns) \subseteq Objs /\ \A x \in Objs : x \in Live(r.conns) <=> r.conns[x] # NULL
    BY <1>27, HeapIs
  <2>2. Live(o.conns) \subseteq Objs /\ \A x \in Objs : x \in Live(o.conns) <=> o.conns[x] # NULL
    BY <1>1, HeapIs
  <2>3. \A x \in Objs : r.conns[x] # NULL <=> o.conns[x] # NULL \/ x = h
    BY <1>22, <1>24, <1>26
  <2> QED BY <1>2, <2>1, <2>2, <2>3
<1>29. m # NULL BY <1>15, PointerAssumption
<1>30. Listed(r)
  <2>1. \A i \in Occupied(m) : m.slot[i].id < m.iNextID
    <3>1. \A i \in Occupied(b) : b.slot[i].id \in Nat
      BY <1>1, <1>4, HeapIs, ConnectionIs
    <3>2. m.slot[k].id = n BY <1>14, <1>19
    <3> QED BY <1>4, <1>7, <1>14, <1>16, <1>18, <3>1, <3>2
  <2>2. ASSUME NEW i \in Occupied(m)
        PROVE  m.slot[i].obj \in Live(r.conns) /\ r.conns[m.slot[i].obj].conn = m.slot[i].id
    <3>1. CASE i = k BY <1>14, <1>19, <1>22, <1>23, <1>26, <1>28, <3>1
    <3>2. CASE i \in Occupied(b)
      <4>1. m.slot[i] = b.slot[i] BY <1>14, <1>18, <3>2
      <4>2. b.slot[i].obj \in Live(o.conns) /\ o.conns[b.slot[i].obj].conn = b.slot[i].id
        BY <1>4, <3>2
      <4>3. r.conns[b.slot[i].obj] = o.conns[b.slot[i].obj]
        BY <1>1, <1>2, <1>22, <1>26, <4>2, HeapIs
      <4> QED BY <1>28, <4>1, <4>2, <4>3
    <3> QED BY <1>16, <1>18, <3>1, <3>2
  <2>3. ASSUME NEW x \in Live(r.conns) PROVE \E i \in Occupied(m) : m.slot[i].obj = x
    <3>1. CASE x = h BY <1>14, <1>16, <1>19, <3>1
    <3>2. CASE x \in Live(o.conns)
      <4>1. PICK i \in Occupied(b) : b.slot[i].obj = x BY <1>4, <3>2
      <4> QED BY <1>14, <1>16, <1>18, <4>1
    <3> QED BY <1>28, <3>1, <3>2
  <2> QED BY <1>16, <1>22, <1>29, <2>1, <2>2, <2>3 DEF Listed
<1>31. \A x \in Live(o.conns) : r.conns[x] = o.conns[x]
  BY <1>1, <1>2, <1>22, <1>26, HeapIs
<1>32. ASSUME NEW x \in Live(r.conns) PROVE Sound(r.conns[x], r.connected)
  <2>1. CASE x = h
    <3>1. r.conns[x] = c BY <1>22, <1>26, <2>1
    <3> QED BY <1>23, <3>1 DEF Sound
  <2>2. CASE x \in Live(o.conns) BY <1>22, <1>31, <2>2 DEF HeapInv
  <2> QED BY <1>28, <2>1, <2>2
<1>33. ASSUME NEW d \in Dbcs PROVE Shared(r, d) /\ Counted(r, d)
  <2>1. d # NULL BY NullAssumption
  <2>2. r.conns[h].hdbc = NULL BY <1>22, <1>23, <1>26
  <2>3. UsersOf(r, d) = UsersOf(o, d) BY <1>28, <1>31, <2>1, <2>2 DEF UsersOf
  <2>4. StatementsOf(r, d) = StatementsOf(o, d)
    <3>1. UsersOf(o, d) \subseteq Live(o.conns) BY DEF UsersOf
    <3> QED BY <1>31, <2>3, <3>1 DEF StatementsOf
  <2>5. Shared(o, d) /\ Counted(o, d) BY DEF HeapInv
  <2> QED BY <1>22, <2>3, <2>4, <2>5 DEF Shared, Counted
<1>34. HeapInv(r) BY <1>27, <1>30, <1>32, <1>33 DEF HeapInv
<1>35. Issued(r) = n + 1 BY <1>14, <1>22, <1>29 DEF Issued
<1>36. r.conns = [o.conns EXCEPT ![h] = CleanODBC(n)] BY <1>22 DEF conns, c
<1>37. Lookup(r.mom, n) = h /\ \A x \in Nat : x # n => Lookup(r.mom, x) = Found(o, x)
  BY <1>6, <1>7, <1>11, <1>17, <1>22
<1>38. Found(o, n) = NULL
  <2>1. Lookup(b, n) = NULL BY <1>9 DEF Lookup
  <2> QED BY <1>6, <1>7, <2>1
<1> QED BY <1>2, <1>7, <1>22, <1>29, <1>34, <1>35, <1>36, <1>37, <1>38 DEF h, n, r

\* A connection without an ODBC_HDBC gets d, new or shared.
Attached(o, r, h, d) ==
  /\ r \in Heaps
  /\ r.mom = o.mom /\ r.statements = o.statements
  /\ \A x \in Objs : x # h => r.conns[x] = o.conns[x]
  /\ r.conns[h] # NULL /\ r.conns[h].hdbc = d
  /\ r.conns[h].conn = o.conns[h].conn /\ r.conns[h].hstmt = o.conns[h].hstmt
  /\ r.conns[h].Results = o.conns[h].Results
  /\ \A f \in Dbcs : f # d => r.hdbcs[f] = o.hdbcs[f]
  /\ r.hdbcs[d] # NULL /\ r.hdbcs[d].iCount = Cardinality(UsersOf(o, d)) + 1
  /\ r.connected \in {o.connected, o.connected \cup {d}}

LEMMA AttachIs ==
  ASSUME NEW o, HeapInv(o), NEW h \in Live(o.conns), o.conns[h].hdbc = NULL, NEW d \in Dbcs,
         NEW r, Attached(o, r, h, d)
  PROVE  /\ HeapInv(r)
         /\ Live(r.conns) = Live(o.conns)
         /\ r.conns[h].hstmt = NULL
<1> DEFINE c == o.conns[h]
           e == r.conns[h]
<1>0. /\ r \in Heaps
      /\ r.mom = o.mom /\ r.statements = o.statements
      /\ \A x \in Objs : x # h => r.conns[x] = o.conns[x]
      /\ r.conns[h] # NULL /\ r.conns[h].hdbc = d
      /\ r.conns[h].conn = o.conns[h].conn /\ r.conns[h].hstmt = o.conns[h].hstmt
      /\ r.conns[h].Results = o.conns[h].Results
      /\ \A f \in Dbcs : f # d => r.hdbcs[f] = o.hdbcs[f]
      /\ r.hdbcs[d] # NULL /\ r.hdbcs[d].iCount = Cardinality(UsersOf(o, d)) + 1
      /\ r.connected \in {o.connected, o.connected \cup {d}}
  BY DEF Attached
<1>1. o \in Heaps /\ c \in ODBC_TYPE /\ Sound(c, o.connected) BY HeapIs DEF HeapInv
<1>3. /\ e.conn = c.conn /\ e.hdbc = d /\ e.hstmt = c.hstmt /\ e.Results = c.Results BY <1>0
<1>5. c.hstmt = NULL
  <2>1. NULL \notin o.connected BY <1>1, HeapIs, NullAssumption
  <2> QED BY <1>1, <2>1 DEF Sound
<1>6. e # NULL BY <1>0
<1>7. r.conns[h] = e /\ \A x \in Objs : x # h => r.conns[x] = o.conns[x] BY <1>0
<1> HIDE DEF e
<1>8. Live(r.conns) = Live(o.conns)
  <2>1. Live(r.conns) \subseteq Objs /\ \A x \in Objs : x \in Live(r.conns) <=> r.conns[x] # NULL
    BY <1>0, HeapIs
  <2>2. Live(o.conns) \subseteq Objs /\ \A x \in Objs : x \in Live(o.conns) <=> o.conns[x] # NULL
    BY <1>1, HeapIs
  <2>3. \A x \in Objs : r.conns[x] # NULL <=> o.conns[x] # NULL BY <1>6, <1>7, <2>2
  <2> QED BY <2>1, <2>2, <2>3
<1>9. \A x \in Live(o.conns) : r.conns[x].conn = o.conns[x].conn
  BY <1>1, <1>3, <1>7, HeapIs
<1>10. Listed(r) BY <1>0, <1>8, <1>9 DEF Listed, HeapInv
<1>11. ASSUME NEW x \in Live(r.conns) PROVE Sound(r.conns[x], r.connected)
  <2>1. CASE x = h BY <1>1, <1>3, <1>5, <1>7, <2>1 DEF Sound
  <2>2. CASE x # h
    <3>1. r.conns[x] = o.conns[x] /\ Sound(o.conns[x], o.connected)
      BY <1>1, <1>7, <1>8, <2>2, HeapIs DEF HeapInv
    <3> QED BY <1>0, <3>1 DEF Sound
  <2> QED BY <2>1, <2>2
<1>12. ASSUME NEW f \in Dbcs PROVE Shared(r, f) /\ Counted(r, f)
  <2>1. Shared(o, f) /\ Counted(o, f) BY DEF HeapInv
  <2>2. f # NULL /\ o.hdbcs \in [Dbcs -> ODBC_HDBC \cup {NULL}] BY <1>1, HeapIs, NullAssumption
  <2>3. UsersOf(o, f) \subseteq Live(o.conns) /\ h \notin UsersOf(o, f) BY <2>2 DEF UsersOf
  <2>4. UsersOf(r, f) = IF f = d THEN UsersOf(o, f) \cup {h} ELSE UsersOf(o, f)
    <3>1. \A x \in Live(o.conns) : x # h => r.conns[x].hdbc = o.conns[x].hdbc
      BY <1>1, <1>7, HeapIs
    <3>2. r.conns[h].hdbc = d BY <1>3, <1>7
    <3> QED BY <1>8, <2>2, <3>1, <3>2 DEF UsersOf
  <2>5. StatementsOf(r, f) = StatementsOf(o, f)
    <3>1. \A x \in UsersOf(o, f) : r.conns[x] = o.conns[x] BY <1>1, <1>7, <2>3, HeapIs
    <3>2. r.conns[h].hstmt = NULL BY <1>3, <1>5, <1>7
    <3> QED BY <2>4, <3>1, <3>2 DEF StatementsOf
  <2>6. Counted(r, f) BY <1>0, <2>1, <2>5 DEF Counted
  <2>7. CASE f = d
    <3>1. Cardinality(UsersOf(r, f)) = Cardinality(UsersOf(o, f)) + 1
      <4>1. IsFiniteSet(UsersOf(o, f)) BY <1>1, UsersFinite
      <4> QED BY <2>3, <2>4, <2>7, <4>1, FS_AddElement
    <3> QED BY <1>0, <2>4, <2>6, <2>7, <3>1 DEF Shared
  <2>8. CASE f # d
    <3>1. r.hdbcs[f] = o.hdbcs[f] BY <1>0, <2>8
    <3>2. f \in r.connected <=> f \in o.connected BY <1>0, <2>8
    <3> QED BY <2>1, <2>4, <2>6, <2>8, <3>1, <3>2 DEF Shared
  <2> QED BY <2>7, <2>8
<1>13. HeapInv(r) BY <1>0, <1>10, <1>11, <1>12 DEF HeapInv
<1> QED BY <1>3, <1>5, <1>7, <1>8, <1>13 DEF e

\* ReleaseHdbc counts one user less, and disconnects after the last one.
LEMMA ReleaseHdbcIs ==
  ASSUME NEW o, HeapInv(o), NEW h \in Live(o.conns)
  PROVE  LET d == o.conns[h].hdbc
             last == o.hdbcs[d].iCount = 1
             r == ReleaseHdbc(o, h)
         IN  /\ r = [mom |-> r.mom, conns |-> r.conns, hdbcs |-> r.hdbcs,
                     connected |-> r.connected, statements |-> r.statements]
             /\ r.mom = o.mom /\ r.statements = o.statements
             /\ DOMAIN r.conns = Objs /\ \A x \in Objs : x # h => r.conns[x] = o.conns[x]
             /\ d = NULL => r.hdbcs = o.hdbcs /\ r.connected = o.connected
             /\ d # NULL => d \in Dbcs /\ o.hdbcs[d] \in ODBC_HDBC
             /\ d # NULL /\ last =>
                  r.hdbcs = [o.hdbcs EXCEPT ![d] = NULL] /\ r.connected = o.connected \ {d}
             /\ d # NULL /\ ~ last =>
                  /\ r.hdbcs = [o.hdbcs EXCEPT ![d] = [iCount |-> o.hdbcs[d].iCount - 1]]
                  /\ r.connected = o.connected
<1> DEFINE d == o.conns[h].hdbc
           last == o.hdbcs[d].iCount = 1
           r == ReleaseHdbc(o, h)
<1>1. o \in Heaps /\ o.conns[h] \in ODBC_TYPE /\ h \in Objs BY HeapIs DEF HeapInv
<1>2. o = [mom |-> o.mom, conns |-> o.conns, hdbcs |-> o.hdbcs,
           connected |-> o.connected, statements |-> o.statements]
      /\ o.conns \in [Objs -> ODBC_TYPE \cup {NULL}]
      /\ o.hdbcs \in [Dbcs -> ODBC_HDBC \cup {NULL}]
  BY <1>1, HeapIs
<1>3. CASE d = NULL
  <2>1. r = o BY <1>3 DEF ReleaseHdbc
  <2> HIDE DEF r, d, last
  <2> QED BY <1>2, <1>3, <2>1 DEF r, d, last
<1>4. CASE d # NULL
  <2>1. d \in Dbcs BY <1>1, <1>4, ConnectionIs
  <2>2. o.hdbcs[d] \in ODBC_HDBC
    <3>1. h \in UsersOf(o, d) BY DEF UsersOf
    <3>2. o.hdbcs[d] # NULL BY <2>1, <3>1 DEF HeapInv, Shared
    <3> QED BY <1>2, <2>1, <3>2
  <2> DEFINE conns == [o.conns EXCEPT ![h].hdbc = NULL]
             less == IF last THEN NULL ELSE [iCount |-> o.hdbcs[d].iCount - 1]
             hdbcs == [o.hdbcs EXCEPT ![d] = less]
             up == IF last THEN o.connected \ {d} ELSE o.connected
  <2>3. r = [o EXCEPT !.conns = conns, !.hdbcs = hdbcs, !.connected = up]
    BY <1>4, Zenon DEF ReleaseHdbc
  <2>5. DOMAIN conns = Objs /\ \A x \in Objs : x # h => conns[x] = o.conns[x] BY <1>2
  <2> HIDE DEF r, conns, hdbcs, up
  <2>6. r = [mom |-> o.mom, conns |-> conns, hdbcs |-> hdbcs,
             connected |-> up, statements |-> o.statements]
    BY <1>2, <2>3
  <2>7. /\ r.mom = o.mom /\ r.conns = conns /\ r.hdbcs = hdbcs /\ r.connected = up
        /\ r.statements = o.statements
    BY <2>6
  <2>8. last => hdbcs = [o.hdbcs EXCEPT ![d] = NULL] /\ up = o.connected \ {d} BY DEF hdbcs, up
  <2>9. ~ last => /\ hdbcs = [o.hdbcs EXCEPT ![d] = [iCount |-> o.hdbcs[d].iCount - 1]]
                  /\ up = o.connected
    BY DEF hdbcs, up
  <2>10. /\ r = [mom |-> r.mom, conns |-> r.conns, hdbcs |-> r.hdbcs,
                 connected |-> r.connected, statements |-> r.statements]
         /\ DOMAIN r.conns = Objs /\ \A x \in Objs : x # h => r.conns[x] = o.conns[x]
    BY <2>5, <2>6, <2>7
  <2> HIDE DEF last, d
  <2> QED BY <1>4, <2>1, <2>2, <2>7, <2>8, <2>9, <2>10 DEF last, d, r
<1> QED BY <1>3, <1>4

\* DeleteConn: the connection is gone from the list and from the heap, and the
\* other connections keep what they have.
LEMMA DeleteIs ==
  ASSUME NEW o, HeapInv(o), NEW n \in Nat, o.mom # NULL, Lookup(o.mom, n) # NULL
  PROVE  LET h == Lookup(o.mom, n)
             r == DeleteConn(o, n)
         IN  /\ HeapInv(r)
             /\ r.mom # NULL /\ r.mom = Remove(o.mom, n) /\ Issued(r) = Issued(o)
             /\ Live(r.conns) = Live(o.conns) \ {h}
             /\ \A x \in Objs : x # h => r.conns[x] = o.conns[x]
             /\ \A x \in Live(r.conns) : Connected(r, x) <=> Connected(o, x)
             /\ Lookup(r.mom, n) = NULL
             /\ \A x \in Nat : x # n => Lookup(r.mom, x) = Lookup(o.mom, x)
<1> DEFINE h == Lookup(o.mom, n)
           b == DeleteResults(o, h)
           p == DropStmt(b, h)
           q == ReleaseHdbc(p, h)
           r == DeleteConn(o, n)
           d == p.conns[h].hdbc
           last == p.hdbcs[d].iCount = 1
<1>1. h \in Live(o.conns) /\ o.conns[h].conn = n /\ h # NULL BY FoundIs
<1>2. r = [q EXCEPT !.mom = Remove(@, n), !.conns[h] = NULL]
  BY <1>1 DEF DeleteConn, FreeODBC
<1> HIDE DEF r, h
<1>3. /\ Leaves(o, b, h)
      /\ \E s : b.conns[h] = [conn |-> o.conns[h].conn, hdbc |-> o.conns[h].hdbc, hstmt |-> s,
                              Results |-> NULL, uStmtCloseType |-> o.conns[h].uStmtCloseType]
  BY <1>1, DeleteResultsIs
<1>4. b.conns[h].Results = NULL BY <1>3
<1> HIDE DEF b
<1>5. HeapInv(b) /\ h \in Live(b.conns) /\ Live(b.conns) = Live(o.conns) BY <1>1, <1>3, LeavesLive
<1>6. Leaves(b, p, h) /\ p.conns[h].hstmt = NULL /\ p.conns[h].Results = NULL
  BY <1>4, <1>5, DropStmtIs
<1> HIDE DEF p
<1>7. HeapInv(p) /\ h \in Live(p.conns) /\ Live(p.conns) = Live(o.conns) BY <1>5, <1>6, LeavesLive
<1>8. Leaves(o, p, h) BY <1>1, <1>3, <1>6, LeavesThen
<1>9. /\ p.mom = o.mom /\ p.connected = o.connected
      /\ \A x \in Objs : x # h => p.conns[x] = o.conns[x]
      /\ p.conns[h].conn = n
  BY <1>1, <1>8 DEF Leaves, Frame
<1>10. p \in Heaps /\ h \in Objs BY <1>7, HeapIs DEF HeapInv
<1>11. /\ q = [mom |-> q.mom, conns |-> q.conns, hdbcs |-> q.hdbcs,
               connected |-> q.connected, statements |-> q.statements]
       /\ q.mom = p.mom /\ q.statements = p.statements
       /\ DOMAIN q.conns = Objs /\ \A x \in Objs : x # h => q.conns[x] = p.conns[x]
       /\ d = NULL => q.hdbcs = p.hdbcs /\ q.connected = p.connected
       /\ d # NULL => d \in Dbcs /\ p.hdbcs[d] \in ODBC_HDBC
       /\ d # NULL /\ last =>
            q.hdbcs = [p.hdbcs EXCEPT ![d] = NULL] /\ q.connected = p.connected \ {d}
       /\ d # NULL /\ ~ last =>
            /\ q.hdbcs = [p.hdbcs EXCEPT ![d] = [iCount |-> p.hdbcs[d].iCount - 1]]
            /\ q.connected = p.connected
  BY <1>7, ReleaseHdbcIs
<1> HIDE DEF q
<1> DEFINE m == Remove(o.mom, n)
           conns == [q.conns EXCEPT ![h] = NULL]
<1>12. r = [mom |-> m, conns |-> conns, hdbcs |-> q.hdbcs,
            connected |-> q.connected, statements |-> p.statements]
  <2>1. q.mom = o.mom /\ q.statements = p.statements BY <1>9, <1>11
  <2>2. r = [q EXCEPT !.mom = m, !.conns = conns] BY <1>2, <2>1
  <2>3. q = [mom |-> q.mom, conns |-> q.conns, hdbcs |-> q.hdbcs,
             connected |-> q.connected, statements |-> q.statements] BY <1>11
  <2> HIDE DEF m, conns
  <2> QED BY <2>1, <2>2, <2>3
<1>13. conns[h] = NULL /\ DOMAIN conns = Objs /\ \A x \in Objs : x # h => conns[x] = p.conns[x]
  BY <1>10, <1>11
<1>14. conns \in [Objs -> ODBC_TYPE \cup {NULL}]
  <2>1. conns = [x \in Objs |-> conns[x]] BY <1>11
  <2>2. \A x \in Objs : conns[x] \in ODBC_TYPE \cup {NULL}
    <3> HIDE DEF conns
    <3> QED BY <1>10, <1>13, HeapIs
  <2> HIDE DEF conns
  <2> QED BY <2>1, <2>2
<1> HIDE DEF conns
<1>15. o \in Heaps /\ o.mom \in ListOf(Nat, Objs) /\ WellFormed(o.mom)
       /\ FREE_ITEM \notin Nat /\ n # FREE_ITEM
  <2>1. o \in Heaps BY DEF HeapInv
  <2>2. o.mom \in ListOf(Nat, Objs) BY <2>1, HeapIs
  <2> QED BY <2>1, <2>2, NumberAssumption DEF HeapInv, Listed
<1>16. /\ m \in ListOf(Nat, Objs) /\ WellFormed(m) /\ m.iNextID = o.mom.iNextID
       /\ Occupied(m) = {i \in Occupied(o.mom) : o.mom.slot[i].id # n}
       /\ \A i \in Occupied(m) : m.slot[i] = o.mom.slot[i]
  BY <1>15, RemoveIs
<1>17. m # NULL BY <1>16, PointerAssumption
<1>18. Lookup(m, n) = NULL /\ \A x \in Nat : x # n => Lookup(m, x) = Lookup(o.mom, x)
  BY <1>15, RemoveFinds
<1>19. m = Remove(o.mom, n) OBVIOUS
<1> HIDE DEF m
<1>20. /\ r.mom = m /\ r.conns = conns /\ r.hdbcs = q.hdbcs
       /\ r.connected = q.connected /\ r.statements = p.statements
  BY <1>12
<1>21. \A f \in Dbcs : Shared(p, f) /\ Counted(p, f) BY <1>7 DEF HeapInv
<1>22. d # NULL => p.hdbcs[d].iCount = Cardinality(UsersOf(p, d)) /\ h \in UsersOf(p, d)
  <2>1. d # NULL => h \in UsersOf(p, d) /\ d \in Dbcs BY <1>7, <1>11 DEF UsersOf
  <2> QED BY <1>21, <2>1 DEF Shared
<1>23. \A f : UsersOf(p, f) \subseteq Objs /\ IsFiniteSet(UsersOf(p, f))
              /\ Cardinality(UsersOf(p, f)) \in Nat
  BY <1>10, UsersFinite
<1>24. d # NULL => /\ Cardinality(UsersOf(p, d) \ {h}) = p.hdbcs[d].iCount - 1
                   /\ p.hdbcs[d].iCount \in Nat /\ p.hdbcs[d].iCount # 0
                   /\ (last <=> UsersOf(p, d) \ {h} = {})
  <2> SUFFICES ASSUME d # NULL
               PROVE  /\ Cardinality(UsersOf(p, d) \ {h}) = p.hdbcs[d].iCount - 1
                      /\ p.hdbcs[d].iCount \in Nat /\ p.hdbcs[d].iCount # 0
                      /\ (last <=> UsersOf(p, d) \ {h} = {})
    OBVIOUS
  <2> DEFINE U == UsersOf(p, d)
             k == p.hdbcs[d].iCount
  <2>1. IsFiniteSet(U) /\ h \in U /\ k = Cardinality(U) /\ k \in Nat BY <1>22, <1>23
  <2> HIDE DEF U, k
  <2>2. IsFiniteSet(U \ {h}) /\ Cardinality(U \ {h}) = k - 1 BY <2>1, FS_RemoveElement
  <2>3. Cardinality(U \ {h}) \in Nat /\ (Cardinality(U \ {h}) = 0 <=> U \ {h} = {})
    BY <2>2, FS_CardinalityType, FS_EmptySet
  <2>4. k # 0 /\ (k = 1 <=> U \ {h} = {}) BY <2>1, <2>2, <2>3
  <2> QED BY <2>1, <2>2, <2>4 DEF U, k
<1>25. r \in Heaps
  <2>1. q.hdbcs \in [Dbcs -> ODBC_HDBC \cup {NULL}]
    <3>1. p.hdbcs \in [Dbcs -> ODBC_HDBC \cup {NULL}] BY <1>10, HeapIs
    <3>2. CASE d = NULL BY <1>11, <3>1, <3>2
    <3>3. CASE d # NULL /\ last BY <1>11, <3>1, <3>3
    <3>4. CASE d # NULL /\ ~ last
      <4>1. p.hdbcs[d].iCount - 1 \in Nat BY <1>24, <3>4
      <4>2. [iCount |-> p.hdbcs[d].iCount - 1] \in ODBC_HDBC BY <4>1 DEF ODBC_HDBC
      <4> HIDE DEF d, last
      <4> QED BY <1>11, <3>1, <3>4, <4>2
    <3> QED BY <3>2, <3>3, <3>4
  <2>2. q.connected \subseteq Dbcs /\ p.statements \in [Dbcs -> Int]
    <3>1. p.connected \subseteq Dbcs /\ p.statements \in [Dbcs -> Int] BY <1>10, HeapIs
    <3> QED BY <1>11, <3>1
  <2> QED BY <1>12, <1>14, <1>16, <2>1, <2>2 DEF Heaps
<1>26. Live(r.conns) = Live(o.conns) \ {h}
  <2>1. Live(r.conns) \subseteq Objs /\ \A x \in Objs : x \in Live(r.conns) <=> r.conns[x] # NULL
    BY <1>25, HeapIs
  <2>2. Live(o.conns) \subseteq Objs /\ \A x \in Objs : x \in Live(o.conns) <=> o.conns[x] # NULL
    BY <1>15, HeapIs
  <2>3. \A x \in Objs : x # h => r.conns[x] = o.conns[x] BY <1>9, <1>13, <1>20
  <2> QED BY <1>13, <1>20, <2>1, <2>2, <2>3
<1>27. \A x \in Objs : x # h => r.conns[x] = o.conns[x] /\ r.conns[x] = p.conns[x]
  BY <1>9, <1>13, <1>20
<1>28. Listed(r)
  <2>1. ASSUME NEW i \in Occupied(m)
        PROVE  /\ m.slot[i].id < m.iNextID
               /\ m.slot[i].obj \in Live(r.conns)
               /\ r.conns[m.slot[i].obj].conn = m.slot[i].id
    <3>1. i \in Occupied(o.mom) /\ o.mom.slot[i].id # n /\ m.slot[i] = o.mom.slot[i] BY <1>16
    <3>2. /\ o.mom.slot[i].id < o.mom.iNextID
          /\ o.mom.slot[i].obj \in Live(o.conns)
          /\ o.conns[o.mom.slot[i].obj].conn = o.mom.slot[i].id
      BY <3>1 DEF HeapInv, Listed
    <3>3. o.mom.slot[i].obj # h /\ o.mom.slot[i].obj \in Objs BY <1>1, <1>15, <3>1, <3>2, HeapIs
    <3> QED BY <1>16, <1>26, <1>27, <3>1, <3>2, <3>3
  <2>2. ASSUME NEW x \in Live(r.conns) PROVE \E i \in Occupied(m) : m.slot[i].obj = x
    <3>1. x \in Live(o.conns) /\ x # h BY <1>26
    <3>2. PICK i \in Occupied(o.mom) : o.mom.slot[i].obj = x BY <3>1 DEF HeapInv, Listed
    <3>3. o.conns[x].conn = o.mom.slot[i].id BY <3>2 DEF HeapInv, Listed
    <3>4. Lookup(o.mom, o.conns[x].conn) = x BY <3>1, FoundIs
    <3>5. o.mom.slot[i].id # n BY <3>1, <3>3, <3>4 DEF h
    <3> QED BY <1>16, <3>2, <3>5
  <2> QED BY <1>16, <1>17, <1>20, <2>1, <2>2 DEF Listed
<1>29. \A f \in Dbcs : UsersOf(r, f) = UsersOf(p, f) \ {h}
  <2> TAKE f \in Dbcs
  <2>1. Live(r.conns) = Live(p.conns) \ {h} /\ Live(p.conns) \subseteq Objs
    BY <1>7, <1>10, <1>26, HeapIs
  <2> QED BY <1>27, <2>1 DEF UsersOf
<1>30. ASSUME NEW f \in Dbcs PROVE Shared(r, f) /\ Counted(r, f)
  <2>1. Shared(p, f) /\ Counted(p, f) BY <1>21
  <2>2. p.hdbcs \in [Dbcs -> ODBC_HDBC \cup {NULL}] BY <1>10, HeapIs
  <2>3. StatementsOf(r, f) = StatementsOf(p, f)
    BY <1>6, <1>23, <1>27, <1>29 DEF StatementsOf
  <2>4. Counted(r, f) BY <1>20, <2>1, <2>3 DEF Counted
  <2>5. CASE f # d
    <3>1. UsersOf(r, f) = UsersOf(p, f) BY <1>29, <2>5 DEF UsersOf
    <3>2. r.hdbcs[f] = p.hdbcs[f] /\ (f \in r.connected <=> f \in p.connected)
      <4> HIDE DEF d, last
      <4> QED BY <1>11, <1>20, <2>2, <2>5
    <3> QED BY <2>1, <2>4, <3>1, <3>2 DEF Shared
  <2>6. CASE f = d /\ last
    <3>1. d # NULL BY <2>6, NullAssumption
    <3>2. UsersOf(r, f) = {} BY <1>24, <1>29, <2>6, <3>1
    <3>3. r.hdbcs[f] = NULL /\ f \notin r.connected
      <4> HIDE DEF d, last
      <4> QED BY <1>11, <1>20, <2>2, <2>6, <3>1
    <3> QED BY <2>4, <3>2, <3>3 DEF Shared
  <2>7. CASE f = d /\ ~ last
    <3>1. d # NULL BY <2>7, NullAssumption
    <3> DEFINE g == [iCount |-> p.hdbcs[d].iCount - 1]
    <3>2. r.hdbcs[f] = g
      <4> HIDE DEF d, last
      <4> QED BY <1>11, <1>20, <2>2, <2>7, <3>1
    <3>3. r.hdbcs[f] \in ODBC_HDBC
      <4>1. p.hdbcs[d].iCount - 1 \in Nat BY <1>24, <3>1
      <4> QED BY <3>2, <4>1 DEF ODBC_HDBC
    <3>4. r.hdbcs[f] # NULL BY <3>3, PointerAssumption
    <3>5. r.hdbcs[f].iCount = p.hdbcs[d].iCount - 1 BY <3>2
    <3>6. Cardinality(UsersOf(r, f)) = p.hdbcs[d].iCount - 1 /\ UsersOf(r, f) # {}
      <4>1. UsersOf(r, f) = UsersOf(p, d) \ {h} BY <1>29, <2>7
      <4> HIDE DEF d
      <4> QED BY <1>24, <2>7, <3>1, <4>1
    <3> QED BY <2>4, <3>4, <3>5, <3>6 DEF Shared
  <2> QED BY <2>5, <2>6, <2>7
<1>31. ASSUME NEW x \in Live(r.conns), NEW f \in Dbcs, r.conns[x].hdbc = f
       PROVE  f \in r.connected <=> f \in o.connected
  <2>1. x \in UsersOf(r, f) BY <1>31 DEF UsersOf
  <2>2. ~ (f = d /\ d # NULL /\ last)
    <3> SUFFICES ASSUME f = d, d # NULL, last PROVE FALSE OBVIOUS
    <3>1. UsersOf(r, f) = {} BY <1>24, <1>29
    <3> QED BY <2>1, <3>1
  <2>3. f \in q.connected <=> f \in p.connected
    <3>1. f # NULL BY NullAssumption
    <3> HIDE DEF d, last
    <3> QED BY <1>11, <2>2, <3>1
  <2> QED BY <1>9, <1>20, <2>3
<1>32. ASSUME NEW x \in Live(r.conns) PROVE Sound(r.conns[x], r.connected)
  <2>1. x \in Live(p.conns) /\ x # h /\ x \in Objs /\ r.conns[x] = p.conns[x]
    BY <1>7, <1>10, <1>26, <1>27, HeapIs
  <2>2. Sound(p.conns[x], p.connected) BY <1>7, <2>1 DEF HeapInv
  <2>3. p.connected \subseteq Dbcs BY <1>10, HeapIs
  <2> QED BY <1>9, <1>31, <2>1, <2>2, <2>3 DEF Sound
<1>33. ASSUME NEW x \in Live(r.conns) PROVE Connected(r, x) <=> Connected(o, x)
  <2>1. x # h /\ x \in Live(o.conns) /\ x \in Objs BY <1>15, <1>26, HeapIs
  <2>2. r.conns[x] = o.conns[x] BY <1>27, <2>1
  <2>3. o.conns[x].hdbc \in Dbcs \cup {NULL} BY <1>15, <2>1, HeapIs, ConnectionIs
  <2> QED BY <1>31, <2>2, <2>3 DEF Connected
<1>34. HeapInv(r) BY <1>25, <1>28, <1>30, <1>32 DEF HeapInv
<1>35. Issued(r) = Issued(o) BY <1>16, <1>17, <1>20 DEF Issued
<1>36. r.mom # NULL /\ r.mom = Remove(o.mom, n) BY <1>17, <1>19, <1>20
<1>37. Lookup(r.mom, n) = NULL /\ \A x \in Nat : x # n => Lookup(r.mom, x) = Lookup(o.mom, x)
  BY <1>18, <1>20
<1> QED BY <1>26, <1>27, <1>33, <1>34, <1>35, <1>36, <1>37 DEF h, r

-----------------------------------------------------------------------------
\* What the caller holds, and its sessions.

\* h is a new connection, under the next number.
Grown(o, p, h) ==
  /\ HeapInv(p)
  /\ p.mom # NULL /\ Issued(o) \in Nat /\ Issued(p) = Issued(o) + 1
  /\ h \in Objs /\ h \notin Live(o.conns) /\ Live(p.conns) = Live(o.conns) \cup {h}
  /\ \A x \in Objs : x # h => p.conns[x] = o.conns[x]
  /\ p.conns[h].conn = Issued(o)
  /\ Found(o, Issued(o)) = NULL /\ Lookup(p.mom, Issued(o)) = h
  /\ \A x \in Nat : x # Issued(o) => Lookup(p.mom, x) = Found(o, x)
  /\ \A x \in Live(o.conns) : Connected(p, x) <=> Connected(o, x)

\* The links that are connected are those of the sessions.
LEMMA LinksIs ==
  ASSUME NEW o, HeapInv(o), NEW H, HandedOf(o, H)
  PROVE  o.connected = {SessionOf(o, H)[n] : n \in H}
<1>1. o \in Heaps BY DEF HeapInv
<1>2. ASSUME NEW d \in o.connected PROVE \E n \in H : SessionOf(o, H)[n] = d
  <2>1. d \in Dbcs /\ d # NULL BY <1>1, HeapIs, NullAssumption
  <2>2. UsersOf(o, d) # {} BY <2>1 DEF HeapInv, Shared
  <2>3. PICK h \in Live(o.conns) : o.conns[h].hdbc = d BY <2>2 DEF UsersOf
  <2>4. Connected(o, h) BY <2>1, <2>3 DEF Connected
  <2>5. o.conns[h].conn \in H BY <2>4 DEF HandedOf
  <2>6. Lookup(o.mom, o.conns[h].conn) = h BY FoundIs
  <2>7. SessionOf(o, H)[o.conns[h].conn] = d BY <2>3, <2>5, <2>6 DEF SessionOf
  <2> QED BY <2>5, <2>7
<1>3. ASSUME NEW n \in H PROVE SessionOf(o, H)[n] \in o.connected
  BY DEF HandedOf, Connected, SessionOf
<1> QED BY <1>2, <1>3

LEMMA LeftIs ==
  ASSUME NEW o, HeapInv(o), NEW H, HandedOf(o, H), NEW h \in Live(o.conns), NEW p, Leaves(o, p, h)
  PROVE  /\ HandedOf(p, H)
         /\ SessionOf(p, H) = SessionOf(o, H)
         /\ p.connected = o.connected /\ Issued(p) = Issued(o)
<1>1. p.mom = o.mom /\ p.connected = o.connected BY DEF Leaves, Frame
<1>2. Live(p.conns) = Live(o.conns) BY LeavesLive
<1>3. o \in Heaps BY DEF HeapInv
<1>4. \A x \in Live(o.conns) : p.conns[x].conn = o.conns[x].conn /\ p.conns[x].hdbc = o.conns[x].hdbc
  BY <1>3, HeapIs DEF Leaves, Frame
<1>5. \A x \in Live(o.conns) : Connected(p, x) <=> Connected(o, x) BY <1>1, <1>4 DEF Connected
<1>6. \A n \in H : Lookup(o.mom, n) \in Live(o.conns) BY FoundIs DEF HandedOf
<1>7. HandedOf(p, H) BY <1>1, <1>2, <1>4, <1>5, <1>6 DEF HandedOf
<1>8. SessionOf(p, H) = SessionOf(o, H) BY <1>1, <1>4, <1>6 DEF SessionOf
<1>9. Issued(p) = Issued(o) BY <1>1 DEF Issued
<1> QED BY <1>1, <1>7, <1>8, <1>9

\* A new connection is a session when it is connected.
LEMMA GrownIs ==
  ASSUME NEW o, HeapInv(o), NEW H, HandedOf(o, H), NEW h, NEW p, Grown(o, p, h),
         NEW K, K = IF Connected(p, h) THEN H \cup {Issued(o)} ELSE H
  PROVE  /\ HandedOf(p, K)
         /\ Issued(o) \notin H
         /\ SessionOf(p, K) =
              [n \in K |-> IF n = Issued(o) THEN p.conns[h].hdbc ELSE SessionOf(o, H)[n]]
<1>1. o \in Heaps BY DEF HeapInv
<1>2. Issued(o) \notin H
  <2> SUFFICES ASSUME Issued(o) \in H PROVE FALSE OBVIOUS
  <2> QED BY DEF HandedOf, Grown, Found
<1>3. ASSUME NEW n \in H
      PROVE  /\ n \in Nat /\ n # Issued(o) /\ o.mom # NULL
             /\ Lookup(p.mom, n) = Lookup(o.mom, n)
             /\ Lookup(o.mom, n) \in Live(o.conns) /\ Lookup(o.mom, n) # NULL
             /\ Connected(p, Lookup(o.mom, n))
             /\ p.conns[Lookup(o.mom, n)] = o.conns[Lookup(o.mom, n)]
  <2>1. n \in Nat /\ n # Issued(o) /\ o.mom # NULL /\ Lookup(o.mom, n) # NULL
        /\ Connected(o, Lookup(o.mom, n))
    BY <1>2 DEF HandedOf
  <2>2. Lookup(p.mom, n) = Lookup(o.mom, n) BY <2>1 DEF Grown, Found
  <2>3. Lookup(o.mom, n) \in Live(o.conns) BY <2>1, FoundIs
  <2>4. Lookup(o.mom, n) \in Objs /\ Lookup(o.mom, n) # h BY <1>1, <2>3, HeapIs DEF Grown
  <2> QED BY <2>1, <2>2, <2>3, <2>4 DEF Grown
<1>4. HandedOf(p, K)
  <2>1. K \subseteq Nat BY DEF HandedOf, Grown
  <2>2. ASSUME NEW n \in K
        PROVE  p.mom # NULL /\ Lookup(p.mom, n) # NULL /\ Connected(p, Lookup(p.mom, n))
    <3>1. p.mom # NULL BY DEF Grown
    <3>2. CASE n \in H BY <1>3, <3>1, <3>2
    <3>3. CASE n = Issued(o) /\ Connected(p, h)
      <4>1. Lookup(p.mom, n) = h /\ h # NULL BY <3>3, NullAssumption DEF Grown
      <4> QED BY <3>1, <3>3, <4>1
    <3> QED BY <3>2, <3>3
  <2>3. ASSUME NEW x \in Live(p.conns), Connected(p, x) PROVE p.conns[x].conn \in K
    <3>1. CASE x = h BY <2>3, <3>1 DEF Grown
    <3>2. CASE x \in Live(o.conns)
      <4>1. Connected(o, x) BY <2>3, <3>2 DEF Grown
      <4>2. x \in Objs /\ x # h BY <1>1, <3>2, HeapIs DEF Grown
      <4>3. p.conns[x] = o.conns[x] BY <4>2 DEF Grown
      <4> QED BY <3>2, <4>1, <4>3 DEF HandedOf
    <3> QED BY <3>1, <3>2 DEF Grown
  <2> QED BY <2>1, <2>2, <2>3 DEF HandedOf
<1>5. ASSUME NEW n \in K
      PROVE  p.conns[Lookup(p.mom, n)].hdbc =
               IF n = Issued(o) THEN p.conns[h].hdbc ELSE SessionOf(o, H)[n]
  <2>1. CASE n = Issued(o) BY <2>1 DEF Grown
  <2>2. CASE n # Issued(o)
    <3>1. n \in H BY <2>2
    <3> QED BY <1>3, <2>2, <3>1 DEF SessionOf
  <2> QED BY <2>1, <2>2
<1> QED BY <1>2, <1>4, <1>5 DEF SessionOf

\* A number that is given back is no session any more.
LEMMA ShrunkIs ==
  ASSUME NEW o, HeapInv(o), NEW H, HandedOf(o, H), NEW n \in Nat, o.mom # NULL
  PROVE  LET p == DeleteConn(o, n)
             K == H \ {n}
         IN  /\ HeapInv(p) /\ HandedOf(p, K)
             /\ p.mom # NULL /\ Issued(p) = Issued(o)
             /\ SessionOf(p, K) = [x \in K |-> SessionOf(o, H)[x]]
<1> DEFINE p == DeleteConn(o, n)
           K == H \ {n}
           h == Lookup(o.mom, n)
<1>1. CASE h = NULL
  <2>1. p = o BY <1>1 DEF DeleteConn
  <2>2. n \notin H BY <1>1 DEF HandedOf
  <2>3. K = H BY <2>2
  <2>4. SessionOf(o, H) = [x \in H |-> SessionOf(o, H)[x]] BY DEF SessionOf
  <2> HIDE DEF p, K
  <2>5. HandedOf(p, K) /\ SessionOf(p, K) = [x \in K |-> SessionOf(o, H)[x]] BY <2>1, <2>3, <2>4
  <2> QED BY <2>1, <2>5 DEF p, K
<1>2. CASE h # NULL
  <2>1. /\ HeapInv(p)
        /\ p.mom # NULL /\ Issued(p) = Issued(o)
        /\ Live(p.conns) = Live(o.conns) \ {h}
        /\ \A x \in Objs : x # h => p.conns[x] = o.conns[x]
        /\ \A x \in Live(p.conns) : Connected(p, x) <=> Connected(o, x)
        /\ Lookup(p.mom, n) = NULL
        /\ \A x \in Nat : x # n => Lookup(p.mom, x) = Lookup(o.mom, x)
    BY <1>2, DeleteIs
  <2> HIDE DEF p
  <2>2. o \in Heaps BY DEF HeapInv
  <2>3. \A x \in Live(p.conns) : x \in Live(o.conns) /\ x # h /\ p.conns[x] = o.conns[x]
    BY <2>1, <2>2, HeapIs
  <2>4. ASSUME NEW x \in K
        PROVE  /\ x \in Nat /\ Lookup(p.mom, x) = Lookup(o.mom, x)
               /\ Lookup(o.mom, x) # NULL
               /\ Lookup(o.mom, x) \in Live(p.conns)
               /\ Connected(p, Lookup(o.mom, x))
    <3>1. x \in Nat /\ x # n /\ Lookup(o.mom, x) # NULL /\ Connected(o, Lookup(o.mom, x))
      BY DEF HandedOf
    <3>2. Lookup(o.mom, x) \in Live(o.conns) /\ o.conns[Lookup(o.mom, x)].conn = x BY <3>1, FoundIs
    <3>3. Lookup(o.mom, x) # h
      <4>1. o.conns[h].conn = n BY <1>2, FoundIs
      <4> QED BY <3>1, <3>2, <4>1
    <3> QED BY <2>1, <3>1, <3>2, <3>3
  <2>5. HandedOf(p, K)
    <3>1. K \subseteq Nat BY DEF HandedOf
    <3>2. ASSUME NEW x \in Live(p.conns), Connected(p, x) PROVE p.conns[x].conn \in K
      <4>1. x \in Live(o.conns) /\ x # h /\ p.conns[x] = o.conns[x] /\ Connected(o, x)
        BY <2>1, <2>3, <3>2
      <4>2. o.conns[x].conn \in H BY <4>1 DEF HandedOf
      <4>3. Lookup(o.mom, o.conns[x].conn) = x BY <4>1, FoundIs
      <4>4. o.conns[x].conn # n BY <4>1, <4>3
      <4> QED BY <4>1, <4>2, <4>4
    <3> HIDE DEF K
    <3> QED BY <2>1, <2>4, <3>1, <3>2 DEF HandedOf
  <2>6. \A x \in K : p.conns[Lookup(p.mom, x)].hdbc = SessionOf(o, H)[x]
    BY <2>3, <2>4 DEF SessionOf
  <2>7. SessionOf(p, K) = [x \in K |-> SessionOf(o, H)[x]] BY <2>6 DEF SessionOf
  <2> QED BY <2>1, <2>5, <2>7 DEF p
<1> QED BY <1>1, <1>2

\* A heap without a daughter has no connections and no sessions.
LEMMA NoHeapIs ==
  /\ HeapInv(NoHeap) /\ HandedOf(NoHeap, {})
  /\ NoHeap.mom = NULL /\ NoHeap.connected = {} /\ Issued(NoHeap) = 0
<1> DEFINE o == NoHeap
<1>1. /\ o.mom = NULL /\ o.conns = [h \in Objs |-> NULL] /\ o.hdbcs = [d \in Dbcs |-> NULL]
      /\ o.connected = {} /\ o.statements = [d \in Dbcs |-> 0]
  BY DEF NoHeap
<1>2. o \in Heaps BY DEF NoHeap, Heaps
<1> HIDE DEF o
<1>3. Live(o.conns) = {} BY <1>1 DEF Live
<1>4. ASSUME NEW d \in Dbcs PROVE Shared(o, d) /\ Counted(o, d)
  <2>1. UsersOf(o, d) = {} /\ StatementsOf(o, d) = {} BY <1>3 DEF UsersOf, StatementsOf
  <2> QED BY <1>1, <2>1, FS_EmptySet DEF Shared, Counted
<1>5. HeapInv(o) BY <1>1, <1>2, <1>3, <1>4 DEF HeapInv, Listed
<1>6. HandedOf(o, {}) BY <1>3 DEF HandedOf
<1>7. Issued(o) = 0 BY <1>1 DEF Issued
<1> QED BY <1>1, <1>5, <1>6, <1>7 DEF o

LEMMA EmptiedIs ==
  ASSUME NEW o, HeapInv(o), NEW H, HandedOf(o, H), o.mom # NULL, Occupied(o.mom) = {}
  PROVE  LET p == [o EXCEPT !.mom = NULL]
         IN  /\ HeapInv(p) /\ HandedOf(p, H)
             /\ H = {} /\ p.connected = {} /\ Issued(p) = 0 /\ p.mom = NULL
<1> DEFINE p == [o EXCEPT !.mom = NULL]
<1>1. o \in Heaps BY DEF HeapInv
<1>2. p = [mom |-> NULL, conns |-> o.conns, hdbcs |-> o.hdbcs,
           connected |-> o.connected, statements |-> o.statements]
  BY <1>1, HeapIs
<1>3. /\ p.mom = NULL /\ p.conns = o.conns /\ p.hdbcs = o.hdbcs
      /\ p.connected = o.connected /\ p.statements = o.statements
  BY <1>2
<1>4. p \in Heaps BY <1>1, <1>2, HeapIs DEF Heaps
<1> HIDE DEF p
<1>5. Live(o.conns) = {} BY DEF HeapInv, Listed
<1>6. H = {}
  <2>1. \A n \in H : Lookup(o.mom, n) \in Live(o.conns) BY FoundIs DEF HandedOf
  <2> QED BY <1>5, <2>1
<1>7. o.connected = {} BY <1>6, LinksIs
<1>8. \A d \in Dbcs : Shared(p, d) /\ Counted(p, d)
  <2> TAKE d \in Dbcs
  <2>1. UsersOf(p, d) = UsersOf(o, d) BY <1>3 DEF UsersOf
  <2>2. StatementsOf(p, d) = StatementsOf(o, d) BY <1>3, <2>1 DEF StatementsOf
  <2> QED BY <1>3, <2>1, <2>2 DEF HeapInv, Shared, Counted
<1>9. HeapInv(p) BY <1>3, <1>4, <1>5, <1>8 DEF HeapInv, Listed
<1>10. HandedOf(p, H) BY <1>3, <1>5, <1>6 DEF HandedOf
<1>11. Issued(p) = 0 BY <1>3 DEF Issued
<1> QED BY <1>3, <1>6, <1>7, <1>9, <1>10, <1>11 DEF p

-----------------------------------------------------------------------------
\* ODBC_Connect and ODBC_Clone

LEMMA GrownLeft ==
  ASSUME NEW o, HeapInv(o), NEW h, NEW p, Grown(o, p, h), NEW q, Leaves(p, q, h)
  PROVE  Grown(o, q, h) /\ (Connected(q, h) <=> Connected(p, h))
         /\ q.connected = p.connected /\ q.conns[h].hdbc = p.conns[h].hdbc
<1>1. HeapInv(p) /\ h \in Live(p.conns) BY DEF Grown
<1>2. Live(q.conns) = Live(p.conns) /\ HeapInv(q) BY <1>1, LeavesLive
<1>3. q.mom = p.mom /\ q.connected = p.connected /\ q.conns[h].hdbc = p.conns[h].hdbc
      /\ q.conns[h].conn = p.conns[h].conn /\ \A x \in Objs : x # h => q.conns[x] = p.conns[x]
  BY DEF Leaves, Frame
<1>4. \A x : Connected(p, x) <=> p.conns[x].hdbc # NULL /\ p.conns[x].hdbc \in p.connected
  BY DEF Connected
<1>5. \A x : Connected(q, x) <=> q.conns[x].hdbc # NULL /\ q.conns[x].hdbc \in p.connected
  BY <1>3 DEF Connected
<1>6. \A x \in Live(o.conns) : x \in Objs /\ x # h BY HeapIs DEF Grown, HeapInv
<1>7. \A x \in Live(o.conns) : Connected(q, x) <=> Connected(o, x)
  BY <1>3, <1>4, <1>5, <1>6 DEF Grown
<1>8. Issued(q) = Issued(p) BY <1>3 DEF Issued
<1> QED BY <1>2, <1>3, <1>4, <1>5, <1>7, <1>8 DEF Grown

\* A new connection with the ODBC_HDBC d, connected or not.
LEMMA JoinedIs ==
  ASSUME NEW o, HeapInv(o), HasSpare(o.conns), NEW d \in Dbcs,
         NEW p, Attached(NewODBC(o), p, Spare(o.conns), d),
         p.connected = o.connected \/ UsersOf(o, d) = {}
  PROVE  /\ Grown(o, p, Spare(o.conns))
         /\ p.conns[Spare(o.conns)].hdbc = d /\ p.conns[Spare(o.conns)].hstmt = NULL
<1> DEFINE h == Spare(o.conns)
           n == Issued(o)
           r == NewODBC(o)
           c == CleanODBC(n)
<1>1. /\ HeapInv(r)
      /\ n \in Nat
      /\ r.mom # NULL /\ Issued(r) = n + 1
      /\ h \in Objs /\ h \notin Live(o.conns) /\ h # NULL
      /\ r.conns = [o.conns EXCEPT ![h] = CleanODBC(n)]
      /\ r.hdbcs = o.hdbcs /\ r.connected = o.connected /\ r.statements = o.statements
      /\ Lookup(r.mom, n) = h /\ Found(o, n) = NULL
      /\ \A x \in Nat : x # n => Lookup(r.mom, x) = Found(o, x)
  BY NewIs
<1> HIDE DEF r, h, n
<1>2. o \in Heaps /\ r \in Heaps BY <1>1 DEF HeapInv
<1>2a. Attached(r, p, h, d) BY DEF r, h
<1>3. r.conns[h] = c /\ \A x \in Objs : x # h => r.conns[x] = o.conns[x] BY <1>1, <1>2, HeapIs
<1>4. c.conn = n /\ c.hdbc = NULL BY DEF CleanODBC
<1>5. c # NULL
  <2>1. c \in ODBC_TYPE BY <1>1 DEF CleanODBC, ODBC_TYPE, StmtOptions
  <2> QED BY <2>1, ConnectionIs
<1> HIDE DEF c
<1>6. Live(r.conns) = Live(o.conns) \cup {h}
  <2>1. Live(r.conns) \subseteq Objs /\ \A x \in Objs : x \in Live(r.conns) <=> r.conns[x] # NULL
    BY <1>2, HeapIs
  <2>2. Live(o.conns) \subseteq Objs /\ \A x \in Objs : x \in Live(o.conns) <=> o.conns[x] # NULL
    BY <1>2, HeapIs
  <2> QED BY <1>1, <1>3, <1>5, <2>1, <2>2
<1>7. /\ \A x \in Objs : x # h => p.conns[x] = r.conns[x]
      /\ p.conns[h].hdbc = d /\ p.conns[h].conn = r.conns[h].conn
      /\ p.mom = r.mom /\ p.connected \in {o.connected, o.connected \cup {d}}
  BY <1>1, <1>2a DEF Attached
<1>8. p.conns[h].hdbc = d /\ p.mom = r.mom BY <1>7
<1>9. /\ HeapInv(p)
      /\ Live(p.conns) = Live(r.conns)
      /\ p.conns[h].hstmt = NULL
  <2>1. h \in Live(r.conns) BY <1>6
  <2>2. r.conns[h].hdbc = NULL BY <1>3, <1>4
  <2>3. HeapInv(r) /\ d \in Dbcs BY <1>1
  <2>4. \A q : Attached(r, q, h, d) =>
          HeapInv(q) /\ Live(q.conns) = Live(r.conns) /\ q.conns[h].hstmt = NULL
    BY <2>1, <2>2, <2>3, AttachIs
  <2> QED BY <1>2a, <2>4
<1>11. Issued(p) = n + 1 BY <1>1, <1>8 DEF Issued
<1>12. ASSUME NEW x \in Live(o.conns) PROVE Connected(p, x) <=> Connected(o, x)
  <2>1. x \in Objs /\ x # h BY <1>1, <1>2, HeapIs
  <2>2. p.conns[x] = o.conns[x] BY <1>3, <1>7, <2>1
  <2>3. CASE p.connected = o.connected BY <2>2, <2>3 DEF Connected
  <2>4. CASE p.connected = o.connected \cup {d} /\ UsersOf(o, d) = {}
    <3>1. o.conns[x].hdbc # d BY <2>4 DEF UsersOf
    <3> QED BY <2>2, <2>4, <3>1 DEF Connected
  <2> QED BY <1>7, <2>3, <2>4
<1>13. \A x \in Objs : x # h => p.conns[x] = o.conns[x] BY <1>3, <1>7
<1>14. Grown(o, p, h)
  BY <1>1, <1>3, <1>4, <1>6, <1>7, <1>8, <1>9, <1>11, <1>12, <1>13 DEF Grown, n
<1> QED BY <1>8, <1>9, <1>14 DEF h

\* NewODBC in its parts.
LEMMA NewParts ==
  ASSUME NEW o, HeapInv(o), HasSpare(o.conns)
  PROVE  LET r == NewODBC(o)
         IN  /\ r \in Heaps
             /\ r = [mom |-> r.mom, conns |-> r.conns, hdbcs |-> o.hdbcs,
                     connected |-> o.connected, statements |-> o.statements]
             /\ r.conns[Spare(o.conns)] \in ODBC_TYPE /\ Spare(o.conns) \in Objs
<1> DEFINE r == NewODBC(o)
           h == Spare(o.conns)
<1>1. /\ HeapInv(r)
      /\ h \in Objs
      /\ Issued(o) \in Nat
      /\ r.conns = [o.conns EXCEPT ![h] = CleanODBC(Issued(o))]
      /\ r.hdbcs = o.hdbcs /\ r.connected = o.connected /\ r.statements = o.statements
  BY NewIs
<1> HIDE DEF r, h
<1>2. o \in Heaps /\ r \in Heaps BY <1>1 DEF HeapInv
<1>3. CleanODBC(Issued(o)) \in ODBC_TYPE BY <1>1 DEF CleanODBC, ODBC_TYPE, StmtOptions
<1>4. r.conns[h] \in ODBC_TYPE BY <1>1, <1>2, <1>3, HeapIs
<1>5. r = [mom |-> r.mom, conns |-> r.conns, hdbcs |-> r.hdbcs,
           connected |-> r.connected, statements |-> r.statements]
  BY <1>2, HeapIs
<1> QED BY <1>1, <1>2, <1>4, <1>5 DEF r, h

\* The heap r with the ODBC_HDBC d for h.
Attach(r, h, d, k, up) ==
  [mom |-> r.mom,
   conns |-> [r.conns EXCEPT ![h] = [r.conns[h] EXCEPT !.hdbc = d]],
   hdbcs |-> [r.hdbcs EXCEPT ![d] = [iCount |-> k]],
   connected |-> up, statements |-> r.statements]

LEMMA AttachedIs ==
  ASSUME NEW r \in Heaps, NEW h \in Objs, r.conns[h] \in ODBC_TYPE, NEW d \in Dbcs,
         NEW k, k = Cardinality(UsersOf(r, d)) + 1,
         NEW up, up \in {r.connected, r.connected \cup {d}}
  PROVE  Attached(r, Attach(r, h, d, k, up), h, d) /\ Attach(r, h, d, k, up).connected = up
<1> DEFINE p == Attach(r, h, d, k, up)
           c == r.conns[h]
           e == [conn |-> c.conn, hdbc |-> d, hstmt |-> c.hstmt,
                 Results |-> c.Results, uStmtCloseType |-> c.uStmtCloseType]
           g == [iCount |-> k]
<1>1. c \in ODBC_TYPE OBVIOUS
<1>2. [c EXCEPT !.hdbc = d] = e
  <2> HIDE DEF c
  <2> QED BY <1>1, ConnectionIs
<1>3. e \in ODBC_TYPE
  <2> HIDE DEF c
  <2> QED BY <1>1, ConnectionIs DEF ODBC_TYPE
<1>4. e.conn = c.conn /\ e.hdbc = d /\ e.hstmt = c.hstmt /\ e.Results = c.Results OBVIOUS
<1>5. e # NULL BY <1>3, ConnectionIs
<1>6. g \in ODBC_HDBC /\ g.iCount = k /\ g # NULL
  <2>1. k \in Nat BY UsersFinite
  <2>2. g \in ODBC_HDBC BY <2>1 DEF ODBC_HDBC
  <2> QED BY <2>2, PointerAssumption
<1>7. p = [mom |-> r.mom, conns |-> [r.conns EXCEPT ![h] = e], hdbcs |-> [r.hdbcs EXCEPT ![d] = g],
           connected |-> up, statements |-> r.statements]
  BY <1>2 DEF Attach
<1> HIDE DEF p, c, e, g
<1>8. /\ p.mom = r.mom /\ p.conns = [r.conns EXCEPT ![h] = e] /\ p.hdbcs = [r.hdbcs EXCEPT ![d] = g]
      /\ p.connected = up /\ p.statements = r.statements
  BY <1>7
<1>9. /\ [r.conns EXCEPT ![h] = e] \in [Objs -> ODBC_TYPE \cup {NULL}]
      /\ [r.conns EXCEPT ![h] = e][h] = e
      /\ \A x \in Objs : x # h => [r.conns EXCEPT ![h] = e][x] = r.conns[x]
  BY <1>3, HeapIs
<1>10. /\ [r.hdbcs EXCEPT ![d] = g] \in [Dbcs -> ODBC_HDBC \cup {NULL}]
       /\ [r.hdbcs EXCEPT ![d] = g][d] = g
       /\ \A f \in Dbcs : f # d => [r.hdbcs EXCEPT ![d] = g][f] = r.hdbcs[f]
  BY <1>6, HeapIs
<1>11. /\ r.mom \in ListOf(Nat, Objs) \cup {NULL} /\ r.statements \in [Dbcs -> Int]
       /\ up \subseteq Dbcs
  BY HeapIs
<1>12. p \in Heaps BY <1>7, <1>9, <1>10, <1>11 DEF Heaps
<1>13. /\ \A x \in Objs : x # h => p.conns[x] = r.conns[x]
       /\ p.conns[h] = e /\ p.hdbcs[d] = g
       /\ \A f \in Dbcs : f # d => p.hdbcs[f] = r.hdbcs[f]
  BY <1>8, <1>9, <1>10
<1>14. /\ p.conns[h] # NULL /\ p.conns[h].hdbc = d
       /\ p.conns[h].conn = r.conns[h].conn /\ p.conns[h].hstmt = r.conns[h].hstmt
       /\ p.conns[h].Results = r.conns[h].Results
  BY <1>4, <1>5, <1>13 DEF c
<1>15. p.hdbcs[d] # NULL /\ p.hdbcs[d].iCount = Cardinality(UsersOf(r, d)) + 1 BY <1>6, <1>13
<1>16. Attached(r, p, h, d) BY <1>8, <1>12, <1>13, <1>14, <1>15 DEF Attached
<1> QED BY <1>8, <1>16 DEF p

\* A new connection has an ODBC_HDBC of its own, which may be connected and
\* then gets a statement.
LEMMA ConnectIs ==
  ASSUME NEW o, HeapInv(o), HasSpare(o.conns), HasSpare(o.hdbcs)
  PROVE  LET h == Spare(o.conns)
             d == Spare(o.hdbcs)
             p == Connecting(NewODBC(o), h, d)
             q == AllocStmt([p EXCEPT !.connected = @ \cup {d}], h)
         IN  /\ d \in Dbcs /\ d \notin o.connected
             /\ Grown(o, p, h) /\ ~ Connected(p, h) /\ p.connected = o.connected
             /\ Grown(o, q, h) /\ Connected(q, h)
             /\ q.connected = o.connected \cup {d} /\ q.conns[h].hdbc = d
<1> DEFINE h == Spare(o.conns)
           d == Spare(o.hdbcs)
           r == NewODBC(o)
           p == Connecting(r, h, d)
           s == [p EXCEPT !.connected = @ \cup {d}]
           q == AllocStmt(s, h)
<1>1. d \in Dbcs /\ o.hdbcs[d] = NULL BY SpareIs
<1>2. d \notin o.connected /\ UsersOf(o, d) = {} BY <1>1 DEF HeapInv, Shared
<1>3. /\ r \in Heaps
      /\ r = [mom |-> r.mom, conns |-> r.conns, hdbcs |-> o.hdbcs,
              connected |-> o.connected, statements |-> o.statements]
      /\ r.conns[h] \in ODBC_TYPE /\ h \in Objs
  BY NewParts
<1>4. HeapInv(r) BY NewIs
<1> HIDE DEF d, r
<1>5. r.hdbcs = o.hdbcs /\ r.connected = o.connected /\ r.statements = o.statements BY <1>3
<1>6. Cardinality(UsersOf(r, d)) + 1 = 1
  <2>1. UsersOf(r, d) = {} BY <1>1, <1>4, <1>5 DEF HeapInv, Shared
  <2> QED BY <2>1, FS_EmptySet
<1>7. p = Attach(r, h, d, 1, r.connected)
  <2>1. p = [r EXCEPT !.conns[h].hdbc = d, !.hdbcs[d] = [iCount |-> 1]] BY DEF Connecting
  <2> HIDE DEF p, h
  <2> QED BY <1>3, <1>5, <2>1 DEF Attach
<1>8. s = Attach(r, h, d, 1, r.connected \cup {d})
  <2> HIDE DEF p, h
  <2> QED BY <1>7 DEF Attach
<1> HIDE DEF h, p, s
<1>9. /\ Attached(r, p, h, d) /\ p.connected = r.connected
      /\ Attached(r, s, h, d) /\ s.connected = r.connected \cup {d}
  BY <1>1, <1>3, <1>6, <1>7, <1>8, AttachedIs
<1>10. \A t : Attached(r, t, h, d) =>
         Grown(o, t, h) /\ t.conns[h].hdbc = d /\ t.conns[h].hstmt = NULL
  <2>1. \A t : Attached(NewODBC(o), t, Spare(o.conns), d)
                /\ (t.connected = o.connected \/ UsersOf(o, d) = {}) =>
          /\ Grown(o, t, Spare(o.conns))
          /\ t.conns[Spare(o.conns)].hdbc = d /\ t.conns[Spare(o.conns)].hstmt = NULL
    BY <1>1, JoinedIs
  <2> QED BY <1>2, <2>1 DEF r, h
<1>11. d # NULL BY <1>1, NullAssumption
<1>12. Grown(o, p, h) /\ ~ Connected(p, h) /\ p.connected = o.connected
  BY <1>2, <1>5, <1>9, <1>10 DEF Connected
<1>13. Grown(o, s, h) /\ Connected(s, h) /\ s.conns[h].hdbc = d /\ s.conns[h].hstmt = NULL
  BY <1>9, <1>10, <1>11 DEF Connected
<1>14. Leaves(s, q, h)
  <2>1. HeapInv(s) /\ h \in Live(s.conns) BY <1>13 DEF Grown
  <2> QED BY <1>13, <2>1, AllocStmtIs
<1> HIDE DEF q
<1>15. Grown(o, q, h) /\ (Connected(q, h) <=> Connected(s, h))
       /\ q.connected = s.connected /\ q.conns[h].hdbc = s.conns[h].hdbc
  BY <1>13, <1>14, GrownLeft
<1>16. Connected(q, h) /\ q.connected = o.connected \cup {d} /\ q.conns[h].hdbc = d
  BY <1>5, <1>9, <1>13, <1>15
<1> QED BY <1>1, <1>2, <1>12, <1>15, <1>16 DEF h, d, r, p, s, q

\* A clone shares the ODBC_HDBC of a connection that is connected.
LEMMA CloneIs ==
  ASSUME NEW o, HeapInv(o), HasSpare(o.conns), NEW old \in Live(o.conns), Connected(o, old)
  PROVE  LET h == Spare(o.conns)
             d == o.conns[old].hdbc
             q == AllocStmt(Share(NewODBC(o), h, d), h)
         IN  /\ Grown(o, q, h) /\ Connected(q, h)
             /\ q.connected = o.connected /\ q.conns[h].hdbc = d
             /\ Share(NewODBC(o), h, d).conns[h].conn = Issued(o)
<1> DEFINE h == Spare(o.conns)
           d == o.conns[old].hdbc
           r == NewODBC(o)
           s == Share(r, h, d)
           q == AllocStmt(s, h)
<1>1. d \in Dbcs /\ d # NULL /\ d \in o.connected
  <2>1. o.connected \subseteq Dbcs BY HeapIs DEF HeapInv
  <2> QED BY <2>1 DEF Connected
<1>2. /\ r \in Heaps
      /\ r = [mom |-> r.mom, conns |-> r.conns, hdbcs |-> o.hdbcs,
              connected |-> o.connected, statements |-> o.statements]
      /\ r.conns[h] \in ODBC_TYPE /\ h \in Objs
  BY NewParts
<1>3. HeapInv(r) BY NewIs
<1> HIDE DEF d, r
<1>4. r.hdbcs = o.hdbcs /\ r.connected = o.connected /\ r.statements = o.statements BY <1>2
<1>5. Shared(r, d) BY <1>1, <1>3 DEF HeapInv
<1>6. r.hdbcs[d] # NULL /\ r.hdbcs[d].iCount = Cardinality(UsersOf(r, d))
  BY <1>1, <1>4, <1>5 DEF Shared
<1>7. r.hdbcs[d] \in ODBC_HDBC BY <1>1, <1>2, <1>6, HeapIs
<1>8. s = Attach(r, h, d, r.hdbcs[d].iCount + 1, r.connected)
  <2>1. s = [r EXCEPT !.conns[h].hdbc = d, !.hdbcs[d].iCount = @ + 1] BY DEF Share
  <2>2. [r.hdbcs[d] EXCEPT !.iCount = @ + 1] = [iCount |-> r.hdbcs[d].iCount + 1]
    BY <1>7 DEF ODBC_HDBC
  <2>3. s = [r EXCEPT !.conns = [r.conns EXCEPT ![h] = [r.conns[h] EXCEPT !.hdbc = d]],
                      !.hdbcs = [r.hdbcs EXCEPT ![d] = [iCount |-> r.hdbcs[d].iCount + 1]]]
    BY <2>1, <2>2
  <2>4. r = [mom |-> r.mom, conns |-> r.conns, hdbcs |-> r.hdbcs,
             connected |-> r.connected, statements |-> r.statements]
    BY <1>2, HeapIs
  <2> HIDE DEF s, h
  <2> QED BY <2>3, <2>4 DEF Attach
<1> HIDE DEF h, s
<1>9. Attached(r, s, h, d) /\ s.connected = r.connected
  BY <1>1, <1>2, <1>6, <1>8, AttachedIs
<1>10. Grown(o, s, h) /\ s.conns[h].hdbc = d /\ s.conns[h].hstmt = NULL
  <2>1. \A t : Attached(NewODBC(o), t, Spare(o.conns), d)
                /\ (t.connected = o.connected \/ UsersOf(o, d) = {}) =>
          /\ Grown(o, t, Spare(o.conns))
          /\ t.conns[Spare(o.conns)].hdbc = d /\ t.conns[Spare(o.conns)].hstmt = NULL
    BY <1>1, JoinedIs
  <2> QED BY <1>4, <1>9, <2>1 DEF r, h
<1>11. Connected(s, h) BY <1>1, <1>4, <1>9, <1>10 DEF Connected
<1>12. Leaves(s, q, h)
  <2>1. HeapInv(s) /\ h \in Live(s.conns) BY <1>10 DEF Grown
  <2> QED BY <1>10, <1>11, <2>1, AllocStmtIs
<1> HIDE DEF q
<1>13. Grown(o, q, h) /\ (Connected(q, h) <=> Connected(s, h))
       /\ q.connected = s.connected /\ q.conns[h].hdbc = s.conns[h].hdbc
  BY <1>10, <1>12, GrownLeft
<1>14. Connected(q, h) /\ q.connected = o.connected /\ q.conns[h].hdbc = d
  BY <1>4, <1>9, <1>10, <1>11, <1>13
<1>15. s.conns[h].conn = Issued(o) BY <1>10 DEF Grown
<1> QED BY <1>13, <1>14, <1>15 DEF h, d, r, s, q

-----------------------------------------------------------------------------
\* The steps.  One connection changes at most, unless the daughter goes.
Isolated(o, p) ==
  p.mom = NULL \/ \E x : \A h \in Live(o.conns) : h # x => p.conns[h] = o.conns[h]

\* What a step is to the script: none or a number used up; a session on a link
\* of its own; one on the link of another; one less; the end.
Promised(o, held, p, now) ==
  \/ /\ SessionOf(p, now) = SessionOf(o, held) /\ p.connected = o.connected
     /\ Issued(p) \in {Issued(o), Issued(o) + 1}
  \/ /\ Issued(p) = Issued(o) + 1
     /\ \E d \in Dbcs :
          /\ d \notin o.connected /\ p.connected = o.connected \cup {d}
          /\ SessionOf(p, now) = [n \in held \cup {Issued(o)} |->
                                    IF n = Issued(o) THEN d ELSE SessionOf(o, held)[n]]
  \/ /\ Issued(p) = Issued(o) + 1 /\ p.connected = o.connected
     /\ \E x \in held :
          SessionOf(p, now) = [n \in held \cup {Issued(o)} |->
                                 IF n = Issued(o) THEN SessionOf(o, held)[x]
                                 ELSE SessionOf(o, held)[n]]
  \/ /\ Issued(p) = Issued(o)
     /\ p.connected = {SessionOf(p, now)[n] : n \in now}
     /\ \E x \in held : /\ now = held \ {x}
                        /\ SessionOf(p, now) = [n \in now |-> SessionOf(o, held)[n]]
  \/ Issued(p) = 0 /\ now = {} /\ p.connected = {}

\* A step keeps the invariant, isolates and promises.
Kept ==
  /\ IInv'
  /\ Isolated(odbc, odbc')
  /\ Promised(odbc, handed, odbc', handed')

LEMMA Quiet ==
  ASSUME HeapInv(odbc'), HandedOf(odbc', handed'), ClosingEmpties', executed' = NULL
  PROVE  IInv'
<1>1. NULL \notin handed' BY NullAssumption DEF HandedOf
<1>2. ExecuteDelivers' BY <1>1 DEF ExecuteDelivers
<1> QED BY <1>2 DEF IInv

LEMMA NotClosing ==
  ASSUME closing' = 0
  PROVE  ClosingEmpties'
BY DEF ClosingEmpties

LEMMA GrownStep ==
  ASSUME IInv, closing' = 0, executed' = NULL, NEW h, Grown(odbc, odbc', h),
         \/ /\ ~ Connected(odbc', h) /\ handed' = handed /\ (odbc').connected = odbc.connected
         \/ /\ Connected(odbc', h) /\ handed' = handed \cup {Issued(odbc)}
            /\ \/ /\ (odbc').conns[h].hdbc \in Dbcs \ odbc.connected
                  /\ (odbc').connected = odbc.connected \cup {(odbc').conns[h].hdbc}
               \/ /\ (odbc').connected = odbc.connected
                  /\ \E x \in handed : (odbc').conns[h].hdbc = SessionOf(odbc, handed)[x]
  PROVE  Kept
<1> DEFINE o == odbc
           p == odbc'
           H == handed
           K == handed'
<1>1. HeapInv(o) /\ HandedOf(o, H) BY DEF IInv
<1>2. K = IF Connected(p, h) THEN H \cup {Issued(o)} ELSE H OBVIOUS
<1>3. /\ HandedOf(p, K)
      /\ Issued(o) \notin H
      /\ SessionOf(p, K) =
           [n \in K |-> IF n = Issued(o) THEN p.conns[h].hdbc ELSE SessionOf(o, H)[n]]
  <2> HIDE DEF o, p, H, K
  <2>1. Grown(o, p, h) BY DEF o, p
  <2> QED BY <1>1, <1>2, <2>1, GrownIs
<1>4. HeapInv(p) /\ Issued(p) = Issued(o) + 1 BY DEF Grown
<1>5. IInv' BY <1>3, <1>4, Quiet, NotClosing
<1>6. Isolated(o, p)
  <2>1. \A x \in Live(o.conns) : x # h => p.conns[x] = o.conns[x]
    BY <1>1, HeapIs DEF Grown, HeapInv
  <2> QED BY <2>1 DEF Isolated
<1>7. Promised(o, H, p, K)
  <2>1. CASE ~ Connected(p, h) /\ K = H /\ p.connected = o.connected
    <3>1. SessionOf(p, K) = [n \in H |-> SessionOf(o, H)[n]] BY <1>3, <2>1
    <3>2. SessionOf(o, H) = [n \in H |-> SessionOf(o, H)[n]] BY DEF SessionOf
    <3> HIDE DEF o, p, H, K
    <3> QED BY <1>4, <2>1, <3>1, <3>2 DEF Promised
  <2>2. CASE /\ K = H \cup {Issued(o)}
             /\ p.conns[h].hdbc \in Dbcs \ o.connected
             /\ p.connected = o.connected \cup {p.conns[h].hdbc}
    <3> HIDE DEF o, p, H, K
    <3> QED BY <1>3, <1>4, <2>2 DEF Promised
  <2>3. CASE /\ K = H \cup {Issued(o)} /\ p.connected = o.connected
             /\ \E x \in H : p.conns[h].hdbc = SessionOf(o, H)[x]
    <3> HIDE DEF o, p, H, K
    <3>1. PICK x \in H : p.conns[h].hdbc = SessionOf(o, H)[x] BY <2>3
    <3>2. SessionOf(p, K) = [n \in H \cup {Issued(o)} |->
                              IF n = Issued(o) THEN SessionOf(o, H)[x] ELSE SessionOf(o, H)[n]]
      BY <1>3, <2>3, <3>1
    <3> QED BY <1>4, <2>3, <3>2 DEF Promised
  <2> QED BY <2>1, <2>2, <2>3
<1> QED BY <1>5, <1>6, <1>7 DEF Kept

LEMMA InitExtensionStep ==
  ASSUME IInv, InitExtension
  PROVE  Kept
<1>1. HeapInv(odbc) /\ HasSpare(odbc.conns) BY DEF IInv, InitExtension, CanAllocate
<1>2. closing' = 0 /\ executed' = NULL /\ handed' = handed /\ odbc' = NewODBC(odbc)
  BY DEF InitExtension, Returns
<1> DEFINE h == Spare(odbc.conns)
           n == Issued(odbc)
           r == NewODBC(odbc)
<1>3. /\ HeapInv(r)
      /\ n \in Nat
      /\ r.mom # NULL /\ Issued(r) = n + 1
      /\ h \in Objs /\ h \notin Live(odbc.conns) /\ h # NULL
      /\ r.conns = [odbc.conns EXCEPT ![h] = CleanODBC(n)]
      /\ r.hdbcs = odbc.hdbcs /\ r.connected = odbc.connected /\ r.statements = odbc.statements
      /\ Lookup(r.mom, n) = h /\ Found(odbc, n) = NULL
      /\ \A x \in Nat : x # n => Lookup(r.mom, x) = Found(odbc, x)
  BY <1>1, NewIs
<1> HIDE DEF h, n, r
<1>4. odbc \in Heaps /\ r \in Heaps BY <1>1, <1>3 DEF HeapInv
<1>5. r.conns[h] = CleanODBC(n) /\ \A x \in Objs : x # h => r.conns[x] = odbc.conns[x]
  BY <1>3, <1>4, HeapIs
<1>6. CleanODBC(n).hdbc = NULL /\ CleanODBC(n).conn = n /\ CleanODBC(n) # NULL
  <2>1. CleanODBC(n) \in ODBC_TYPE BY <1>3 DEF CleanODBC, ODBC_TYPE, StmtOptions
  <2> QED BY <2>1, ConnectionIs DEF CleanODBC
<1>7. Live(r.conns) = Live(odbc.conns) \cup {h}
  <2>1. Live(r.conns) \subseteq Objs /\ \A x \in Objs : x \in Live(r.conns) <=> r.conns[x] # NULL
    BY <1>4, HeapIs
  <2>2. Live(odbc.conns) \subseteq Objs
        /\ \A x \in Objs : x \in Live(odbc.conns) <=> odbc.conns[x] # NULL
    BY <1>4, HeapIs
  <2> QED BY <1>3, <1>5, <1>6, <2>1, <2>2
<1>8. ~ Connected(r, h) BY <1>5, <1>6 DEF Connected
<1>9. \A x \in Live(odbc.conns) : Connected(r, x) <=> Connected(odbc, x)
  BY <1>3, <1>4, <1>5, HeapIs DEF Connected
<1>10. Grown(odbc, r, h) BY <1>3, <1>5, <1>6, <1>7, <1>9 DEF Grown, n
<1>11. odbc' = r BY <1>2 DEF r
<1> QED BY <1>2, <1>3, <1>8, <1>10, <1>11, GrownStep

LEMMA ConnectStep ==
  ASSUME IInv, Connect
  PROVE  Kept
<1> DEFINE h == Spare(odbc.conns)
           d == Spare(odbc.hdbcs)
           p == Connecting(NewODBC(odbc), h, d)
           q == AllocStmt([p EXCEPT !.connected = @ \cup {d}], h)
<1>1. HeapInv(odbc) /\ HandedOf(odbc, handed) /\ HasSpare(odbc.conns) /\ HasSpare(odbc.hdbcs)
  BY DEF IInv, Connect, CanAllocate
<1>2. /\ d \in Dbcs /\ d \notin odbc.connected
      /\ Grown(odbc, p, h) /\ ~ Connected(p, h) /\ p.connected = odbc.connected
      /\ Grown(odbc, q, h) /\ Connected(q, h)
      /\ q.connected = odbc.connected \cup {d} /\ q.conns[h].hdbc = d
  BY <1>1, ConnectIs
<1>3. p.conns[h].conn = Issued(odbc) BY <1>2 DEF Grown
<1>4. CASE ConnectSucceeds(p, h, d)
  <2>1. /\ odbc' = q /\ closing' = 0 /\ executed' = NULL
        /\ handed' = handed \cup {Issued(odbc)}
    BY <1>3, <1>4 DEF ConnectSucceeds, Returns
  <2> HIDE DEF q, h, d, p
  <2> QED BY <1>2, <2>1, GrownStep
<1>5. CASE ConnectOptionFails(p)
  <2>1. odbc' = p /\ closing' = 0 /\ executed' = NULL /\ handed' = handed
    BY <1>5 DEF ConnectOptionFails, Returns
  <2> HIDE DEF q, h, d, p
  <2> QED BY <1>2, <2>1, GrownStep
<1>6. CASE ConnectDriverFails(p, h)
  <2> HIDE DEF q, h, d, p
  <2> DEFINE n == Issued(odbc)
             r == DeleteConn(p, n)
  <2>1. odbc' = r /\ closing' = 0 /\ executed' = NULL /\ handed' = handed
    BY <1>3, <1>6 DEF ConnectDriverFails, Returns
  <2>2. /\ HeapInv(p) /\ p.mom # NULL /\ n \in Nat /\ Issued(p) = n + 1 BY <1>2 DEF Grown
  <2>3. /\ HandedOf(p, handed) /\ n \notin handed
        /\ SessionOf(p, handed) =
             [x \in handed |-> IF x = n THEN p.conns[h].hdbc ELSE SessionOf(odbc, handed)[x]]
    BY <1>1, <1>2, GrownIs
  <2>4. /\ HeapInv(r) /\ HandedOf(r, handed \ {n})
        /\ r.mom # NULL /\ Issued(r) = Issued(p)
        /\ SessionOf(r, handed \ {n}) = [x \in handed \ {n} |-> SessionOf(p, handed)[x]]
    <3> HIDE DEF n
    <3>1. HeapInv(p) /\ HandedOf(p, handed) /\ n \in Nat /\ p.mom # NULL BY <2>2, <2>3
    <3>2. \A x \in Nat :
            /\ HeapInv(DeleteConn(p, x)) /\ HandedOf(DeleteConn(p, x), handed \ {x})
            /\ DeleteConn(p, x).mom # NULL /\ Issued(DeleteConn(p, x)) = Issued(p)
            /\ SessionOf(DeleteConn(p, x), handed \ {x}) =
                 [y \in handed \ {x} |-> SessionOf(p, handed)[y]]
      BY <3>1, ShrunkIs
    <3> QED BY <3>1, <3>2
  <2>5. handed \ {n} = handed BY <2>3
  <2>6. SessionOf(r, handed) = SessionOf(odbc, handed)
    <3>1. \A x \in handed : SessionOf(r, handed)[x] = SessionOf(odbc, handed)[x]
      <4> HIDE DEF r, n
      <4> QED BY <2>3, <2>4, <2>5
    <3> QED BY <3>1 DEF SessionOf
  <2>7. r.connected = odbc.connected
    <3>1. r.connected = {SessionOf(r, handed)[x] : x \in handed} BY <2>4, <2>5, LinksIs
    <3>2. odbc.connected = {SessionOf(odbc, handed)[x] : x \in handed} BY <1>1, LinksIs
    <3> QED BY <2>6, <3>1, <3>2
  <2>8. Isolated(odbc, r)
    <3>1. Lookup(p.mom, n) = h /\ h # NULL BY <1>2, NullAssumption DEF Grown
    <3>2. \A x \in Objs : x # h => r.conns[x] = p.conns[x]
      BY <2>2, <3>1, DeleteIs
    <3>3. \A x \in Live(odbc.conns) : x \in Objs /\ x # h /\ p.conns[x] = odbc.conns[x]
      BY <1>1, <1>2, HeapIs DEF Grown, HeapInv
    <3> HIDE DEF r
    <3> QED BY <3>2, <3>3 DEF Isolated
  <2> HIDE DEF r
  <2>9. HandedOf(odbc', handed') BY <2>1, <2>4, <2>5
  <2>10. IInv' BY <2>1, <2>4, <2>9, Quiet, NotClosing
  <2>11. Promised(odbc, handed, odbc', handed') BY <2>1, <2>2, <2>4, <2>6, <2>7 DEF Promised
  <2> QED BY <2>1, <2>8, <2>10, <2>11 DEF Kept
<1> QED BY <1>4, <1>5, <1>6 DEF Connect

LEMMA CloneStep ==
  ASSUME IInv, NEW n \in Numbers, Clone(n)
  PROVE  Kept
<1> DEFINE old == Verify(odbc, n)
           h == Spare(odbc.conns)
           d == odbc.conns[old].hdbc
           q == AllocStmt(Share(NewODBC(odbc), h, d), h)
           x == odbc.conns[old].conn
<1>1. HeapInv(odbc) /\ HandedOf(odbc, handed) /\ HasSpare(odbc.conns) /\ Connected(odbc, old)
  BY DEF IInv, Clone, CanAllocate
<1>2. old \in Live(odbc.conns)
  <2>1. n \in Nat BY NumberAssumption DEF Numbers
  <2>2. old # NULL BY DEF Clone
  <2> QED BY <1>1, <2>1, <2>2, VerifyIs
<1>3. odbc' = q /\ closing' = 0 /\ executed' = NULL
      /\ handed' = handed \cup {Share(NewODBC(odbc), h, d).conns[h].conn}
  BY DEF Clone, Returns
<1> HIDE DEF old
<1>4. /\ Grown(odbc, q, h) /\ Connected(q, h)
      /\ q.connected = odbc.connected /\ q.conns[h].hdbc = d
      /\ Share(NewODBC(odbc), h, d).conns[h].conn = Issued(odbc)
  BY <1>1, <1>2, CloneIs
<1>5. x \in handed /\ Lookup(odbc.mom, x) = old BY <1>1, <1>2, FoundIs DEF HandedOf
<1>6. SessionOf(odbc, handed)[x] = d BY <1>5 DEF SessionOf
<1> HIDE DEF q, h, x, d
<1>7. handed' = handed \cup {Issued(odbc)} BY <1>3, <1>4
<1> QED BY <1>3, <1>4, <1>5, <1>6, <1>7, GrownStep

LEMMA CrashStep ==
  ASSUME IInv, Crash
  PROVE  Kept
<1>1. odbc' = NoHeap /\ handed' = {} /\ executed' = NULL /\ closing' = 0 BY DEF Crash
<1>2. HandedOf(odbc', handed') /\ HeapInv(odbc') BY <1>1, NoHeapIs
<1>3. IInv' BY <1>1, <1>2, Quiet, NotClosing
<1>4. Isolated(odbc, odbc') BY <1>1, NoHeapIs DEF Isolated
<1>5. Promised(odbc, handed, odbc', handed') BY <1>1, NoHeapIs DEF Promised
<1> QED BY <1>3, <1>4, <1>5 DEF Kept

\* What giving a number back is to the script.
LEMMA Shrinks ==
  ASSUME IInv, NEW n \in Nat, odbc.mom # NULL
  PROVE  LET p == DeleteConn(odbc, n)
         IN  /\ HeapInv(p) /\ HandedOf(p, handed \ {n}) /\ p.mom # NULL
             /\ Isolated(odbc, p)
             /\ Promised(odbc, handed, p, handed \ {n})
<1> DEFINE p == DeleteConn(odbc, n)
           K == handed \ {n}
           h == Lookup(odbc.mom, n)
<1>1. HeapInv(odbc) /\ HandedOf(odbc, handed) BY DEF IInv
<1>2. /\ HeapInv(p) /\ HandedOf(p, K)
      /\ p.mom # NULL /\ Issued(p) = Issued(odbc)
      /\ SessionOf(p, K) = [x \in K |-> SessionOf(odbc, handed)[x]]
  BY <1>1, ShrunkIs
<1>3. Isolated(odbc, p)
  <2>1. CASE h = NULL
    <3>1. p = odbc BY <2>1 DEF DeleteConn
    <3> HIDE DEF p
    <3> QED BY <3>1 DEF Isolated
  <2>2. CASE h # NULL
    <3>1. \A x \in Objs : x # h => p.conns[x] = odbc.conns[x] BY <1>1, <2>2, DeleteIs
    <3>2. \A x \in Live(odbc.conns) : x \in Objs BY <1>1, HeapIs DEF HeapInv
    <3> HIDE DEF p, h
    <3> QED BY <3>1, <3>2 DEF Isolated
  <2> QED BY <2>1, <2>2
<1> HIDE DEF p
<1>4. p.connected = {SessionOf(p, K)[x] : x \in K} BY <1>2, LinksIs
<1>5. CASE n \in handed
  <2>1. Promised(odbc, handed, p, K) BY <1>2, <1>4, <1>5 DEF Promised
  <2> QED BY <1>2, <1>3, <2>1 DEF p
<1>6. CASE n \notin handed
  <2>1. K = handed BY <1>6
  <2> HIDE DEF K
  <2>2. SessionOf(p, K) = SessionOf(odbc, handed)
    <3>1. SessionOf(odbc, handed) = [x \in handed |-> SessionOf(odbc, handed)[x]] BY DEF SessionOf
    <3> QED BY <1>2, <2>1, <3>1
  <2>3. odbc.connected = {SessionOf(odbc, handed)[x] : x \in handed} BY <1>1, LinksIs
  <2>4. p.connected = odbc.connected BY <1>4, <2>1, <2>2, <2>3
  <2>5. Promised(odbc, handed, p, K) BY <1>2, <2>2, <2>4 DEF Promised
  <2> QED BY <1>2, <1>3, <2>5 DEF p, K
<1> QED BY <1>5, <1>6

LEMMA DisconnectStep ==
  ASSUME IInv, NEW n \in Numbers, Disconnect(n)
  PROVE  Kept
<1>1. n \in Nat BY NumberAssumption DEF Numbers
<1>2. odbc.mom # NULL BY DEF Disconnect, Dies, UsesDaughter
<1>3. /\ odbc' = DeleteConn(odbc, n) /\ handed' = handed \ {n}
      /\ closing' = 0 /\ executed' = NULL
  BY DEF Disconnect, Returns
<1>4. /\ HeapInv(odbc') /\ HandedOf(odbc', handed')
      /\ Isolated(odbc, odbc') /\ Promised(odbc, handed, odbc', handed')
  BY <1>1, <1>2, <1>3, Shrinks
<1>5. IInv' BY <1>3, <1>4, Quiet, NotClosing
<1> QED BY <1>4, <1>5 DEF Kept

\* A step of ~CMom, and the calls that only ask the driver.
LEMMA SameStep ==
  ASSUME IInv, UNCHANGED <<odbc, handed>>, ClosingEmpties', executed' = NULL
  PROVE  Kept
<1>1. IInv' BY Quiet DEF IInv
<1>2. Isolated(odbc, odbc') BY DEF Isolated
<1>3. Promised(odbc, handed, odbc', handed') BY DEF Promised
<1> QED BY <1>1, <1>2, <1>3 DEF Kept

LEMMA ShutDownStep ==
  ASSUME IInv, ShutDown
  PROVE  Kept
<1>1. UNCHANGED <<odbc, handed>> /\ closing' = 1 /\ executed' = NULL /\ odbc.mom # NULL
  BY DEF ShutDown
<1>2. ClosingEmpties'
  <2>1. Entries(odbc.mom) \subseteq Nat \ {0}
    <3>1. odbc.mom \in ListOf(Nat, Objs) BY <1>1, HeapIs DEF IInv, HeapInv
    <3> QED BY <3>1, SlotsOf
  <2>2. \A i \in Entries(odbc.mom) : ~ (i < 1) BY <2>1
  <2> QED BY <1>1, <2>2 DEF ClosingEmpties
<1> QED BY <1>1, <1>2, SameStep

LEMMA ShutDownSlotStep ==
  ASSUME IInv, ShutDownSlot
  PROVE  Kept
<1> DEFINE m == odbc.mom
           h == m.slot[closing].obj
           n == odbc.conns[h].conn
<1>1. /\ closing # 0 /\ closing <= TotalElements(m) /\ closing' = closing + 1
      /\ executed' = executed
      /\ h = NULL => UNCHANGED <<odbc, handed>>
      /\ h # NULL => odbc' = DeleteConn(odbc, n) /\ handed' = handed \ {n}
  BY DEF ShutDownSlot
<1>2. /\ closing \in Nat /\ m # NULL /\ executed = NULL
      /\ \A i \in Entries(m) : i < closing => m.slot[i].id = FREE_ITEM
  BY <1>1 DEF IInv, ClosingEmpties
<1>3. HeapInv(odbc) /\ m \in ListOf(Nat, Objs) BY <1>2, HeapIs DEF IInv, HeapInv
<1>4. WellFormed(m) /\ Entries(m) \subseteq Nat /\ closing \in Entries(m)
  <2>1. TotalElements(m) \in Nat /\ Entries(m) \subseteq Nat BY <1>3, SlotsOf
  <2>2. closing \in 1 .. TotalElements(m) BY <1>1, <1>2, <2>1
  <2> QED BY <1>2, <1>3, <2>1, <2>2 DEF HeapInv, Listed, Entries
<1>5. CASE h = NULL
  <2>1. m.slot[closing].id = FREE_ITEM BY <1>4, <1>5 DEF WellFormed
  <2>2. \A i \in Entries(m) : i < closing + 1 => m.slot[i].id = FREE_ITEM
    <3>1. \A i \in Entries(m) : i < closing + 1 => i < closing \/ i = closing BY <1>2, <1>4
    <3> QED BY <1>2, <2>1, <3>1
  <2>3. odbc' = odbc BY <1>1, <1>5
  <2>4. ClosingEmpties' BY <1>1, <1>2, <2>2, <2>3 DEF ClosingEmpties
  <2> QED BY <1>1, <1>2, <1>5, <2>4, SameStep
<1>6. CASE h # NULL
  <2>1. closing \in Occupied(m) BY <1>4, <1>6 DEF WellFormed, Occupied
  <2>2. h \in Live(odbc.conns) /\ n = m.slot[closing].id BY <1>2, <1>3, <2>1 DEF HeapInv, Listed
  <2>3. n \in Nat /\ Lookup(m, n) = h BY <1>3, <2>2, FoundIs
  <2> HIDE DEF n, h
  <2>4. /\ HeapInv(odbc') /\ HandedOf(odbc', handed') /\ (odbc').mom # NULL
        /\ Isolated(odbc, odbc') /\ Promised(odbc, handed, odbc', handed')
    BY <1>1, <1>2, <1>6, <2>3, Shrinks
  <2>5. (odbc').mom = Remove(m, n)
    <3>1. DeleteConn(odbc, n).mom = Remove(odbc.mom, n) BY <1>2, <1>3, <1>6, <2>3, DeleteIs
    <3> QED BY <1>1, <1>6, <3>1
  <2>6. /\ Entries(Remove(m, n)) = Entries(m)
        /\ Occupied(Remove(m, n)) = {i \in Occupied(m) : m.slot[i].id # n}
    <3>1. n # FREE_ITEM BY <2>3, NumberAssumption
    <3> QED BY <1>3, <1>4, <3>1, RemoveIs
  <2>7. ASSUME NEW i \in Entries(Remove(m, n)), i < closing + 1
        PROVE  Remove(m, n).slot[i].id = FREE_ITEM
    <3>1. i \in Entries(m) BY <2>6
    <3>2. i < closing \/ i = closing BY <1>2, <1>4, <2>7, <3>1
    <3>3. i \notin Occupied(Remove(m, n))
      <4>1. CASE i < closing BY <1>2, <2>6, <3>1, <4>1 DEF Occupied
      <4>2. CASE i = closing BY <2>2, <2>6, <4>2 DEF n, h
      <4> QED BY <3>2, <4>1, <4>2
    <3> QED BY <3>3 DEF Occupied
  <2>8. ClosingEmpties' BY <1>1, <1>2, <2>4, <2>5, <2>7 DEF ClosingEmpties
  <2>9. IInv' BY <1>1, <1>2, <2>4, <2>8, Quiet
  <2> QED BY <2>4, <2>9 DEF Kept
<1> QED BY <1>5, <1>6

LEMMA ShutDownEndStep ==
  ASSUME IInv, ShutDownEnd
  PROVE  Kept
<1> DEFINE m == odbc.mom
           p == [odbc EXCEPT !.mom = NULL]
<1>1. closing # 0 /\ closing > TotalElements(m) /\ closing' = 0
      /\ odbc' = p /\ handed' = handed /\ executed' = executed
  BY DEF ShutDownEnd
<1>2. /\ closing \in Nat /\ m # NULL /\ executed = NULL
      /\ \A i \in Entries(m) : i < closing => m.slot[i].id = FREE_ITEM
  BY <1>1 DEF IInv, ClosingEmpties
<1>3. HeapInv(odbc) /\ HandedOf(odbc, handed) /\ m \in ListOf(Nat, Objs)
  BY <1>2, HeapIs DEF IInv, HeapInv
<1>4. Occupied(m) = {}
  <2>1. TotalElements(m) \in Nat BY <1>3, SlotsOf
  <2>2. \A i \in Entries(m) : i < closing BY <1>1, <1>2, <2>1 DEF Entries
  <2> QED BY <1>2, <2>2 DEF Occupied
<1>5. /\ HeapInv(p) /\ HandedOf(p, handed)
      /\ handed = {} /\ p.connected = {} /\ Issued(p) = 0 /\ p.mom = NULL
  BY <1>2, <1>3, <1>4, EmptiedIs
<1> HIDE DEF p
<1>6. HeapInv(odbc') /\ HandedOf(odbc', handed') BY <1>1, <1>5
<1>7. IInv' BY <1>1, <1>2, <1>6, Quiet, NotClosing
<1>8. Isolated(odbc, odbc') BY <1>1, <1>5 DEF Isolated
<1>9. Promised(odbc, handed, odbc', handed') BY <1>1, <1>5 DEF Promised
<1> QED BY <1>7, <1>8, <1>9 DEF Kept


-----------------------------------------------------------------------------
\* The calls on a connection.

\* h has a cursor open, bound to a result set of its own.
Delivered(c) ==
  /\ c.hstmt # NULL /\ c.hstmt.open
  /\ c.Results # NULL /\ c.Results.mem = c.hstmt.bound

\* ResetStmt, a cursor is opened, and the result set is renewed.
LEMMA RenewedIs ==
  ASSUME NEW o, HeapInv(o), NEW h \in Live(o.conns), NEW p, Leaves(o, p, h), NEW q \in Opens(p, h)
  PROVE  /\ Leaves(o, q, h)
         /\ Leaves(o, Renew(q, h), h)
         /\ Delivered(Renew(q, h).conns[h])
<1>1. HeapInv(p) /\ h \in Live(p.conns) BY LeavesLive
<1>2. Leaves(p, q, h) /\ q.conns[h].hstmt # NULL /\ q.conns[h].hstmt.open BY <1>1, OpensIs
<1>3. Leaves(o, q, h) BY <1>2, LeavesThen
<1>4. HeapInv(q) /\ h \in Live(q.conns) BY <1>1, <1>2, LeavesLive
<1>5. Leaves(q, Renew(q, h), h) /\ Delivered(Renew(q, h).conns[h])
  BY <1>2, <1>4, RenewIs DEF Delivered
<1>6. Leaves(o, Renew(q, h), h) BY <1>3, <1>5, LeavesThen
<1> QED BY <1>3, <1>5, <1>6

\* The result set is renewed, whether or not the columns can be bound.
LEMMA RenewedOneOf ==
  ASSUME NEW o, NEW h, NEW r \in Renewed(o, h)
  PROVE  r \in {Done(Renew(o, h)), Failed(Renew(o, h))}
BY DEF Renewed

LEMMA ExecutedIs ==
  ASSUME HeapInv(odbc), NEW h \in Live(odbc.conns), NEW r \in Executed(h)
  PROVE  Leaves(odbc, r.heap, h) /\ (r.ok => Delivered(r.heap.conns[h]))
<1>1. PICK s \in ResetStmt(odbc, h) :
        IF ~s.ok THEN r = s
        ELSE r = Failed(s.heap) \/ \E o \in Opens(s.heap, h) : r \in Renewed(o, h)
  BY DEF Executed
<1>2. Leaves(odbc, s.heap, h) BY ResetStmtIs
<1>3. CASE ~s.ok BY <1>1, <1>2, <1>3
<1>4. CASE r = Failed(s.heap) BY <1>2, <1>4 DEF Failed
<1>5. CASE \E o \in Opens(s.heap, h) : r \in Renewed(o, h)
  <2>1. PICK o \in Opens(s.heap, h) : r \in Renewed(o, h) BY <1>5
  <2>2. Leaves(odbc, Renew(o, h), h) /\ Delivered(Renew(o, h).conns[h]) BY <1>2, RenewedIs
  <2>3. r \in {Done(Renew(o, h)), Failed(Renew(o, h))} BY <2>1, RenewedOneOf
  <2> QED BY <2>2, <2>3 DEF Done, Failed
<1> QED BY <1>1, <1>3, <1>4, <1>5

LEMMA CatalogIs ==
  ASSUME HeapInv(odbc), NEW h \in Live(odbc.conns), NEW r \in CatalogOutcomes(h)
  PROVE  Leaves(odbc, r.heap, h)
<1>1. CASE h = ODBCLIST(odbc)
  <2>1. r \in {Done(Renew(odbc, h)), Failed(Renew(odbc, h))}
    BY <1>1, RenewedOneOf DEF CatalogOutcomes
  <2>2. Leaves(odbc, Renew(odbc, h), h) BY RenewIs
  <2> QED BY <2>1, <2>2 DEF Done, Failed
<1>2. CASE h # ODBCLIST(odbc)
  <2>1. PICK s \in ResetStmt(odbc, h) :
          r \in {Failed(s.heap)} \cup UNION {TablesAsked(s, o, h) : o \in Opens(s.heap, h)}
    BY <1>2 DEF CatalogOutcomes
  <2>2. Leaves(odbc, s.heap, h) BY ResetStmtIs
  <2>3. CASE r = Failed(s.heap) BY <2>2, <2>3 DEF Failed
  <2>4. CASE \E o \in Opens(s.heap, h) : r \in TablesAsked(s, o, h)
    <3>1. PICK o \in Opens(s.heap, h) : r = Failed(o) \/ r \in Renewed(o, h)
      BY <2>4 DEF TablesAsked
    <3>2. Leaves(odbc, Renew(o, h), h) /\ Leaves(odbc, o, h) BY <2>2, RenewedIs
    <3>3. r \in {Done(Renew(o, h)), Failed(Renew(o, h)), Failed(o)} BY <3>1, RenewedOneOf
    <3> QED BY <3>2, <3>3 DEF Done, Failed
  <2> QED BY <2>1, <2>3, <2>4
<1> QED BY <1>1, <1>2

LEMMA DropIs ==
  ASSUME HeapInv(odbc), NEW h \in Live(odbc.conns), NEW type \in CloseTypes,
         NEW r \in DropOutcomes(h, type)
  PROVE  Leaves(odbc, r.heap, h)
<1> DEFINE was == odbc.conns[h].uStmtCloseType
           typed == WithType(odbc, h, type)
<1>1. type \in StmtOptions BY CloseAssumption
<1>2. was \in StmtOptions BY HeapIs, ConnectionIs DEF HeapInv
<1>3. PICK s \in ResetStmt(typed, h) : r = [s EXCEPT !.heap = WithType(@, h, was)]
  BY DEF DropOutcomes
<1>4. Leaves(odbc, typed, h) BY <1>1, WithTypeIs
<1>5. HeapInv(typed) /\ h \in Live(typed.conns) BY <1>4, LeavesLive
<1>6. Leaves(typed, s.heap, h)
  <2> HIDE DEF typed
  <2> QED BY <1>5, ResetStmtIs
<1>7. HeapInv(s.heap) /\ h \in Live(s.heap.conns)
  <2> HIDE DEF typed
  <2> QED BY <1>5, <1>6, LeavesLive
<1>8. Leaves(s.heap, WithType(s.heap, h, was), h)
  <2> HIDE DEF was
  <2> QED BY <1>2, <1>7, WithTypeIs
<1>9. s = [heap |-> s.heap, ok |-> s.ok]
  <2>1. \E p : s = Done(p) \/ s = Failed(p) BY <1>3 DEF ResetStmt
  <2> QED BY <2>1 DEF Done, Failed
<1>10. r.heap = WithType(s.heap, h, was) BY <1>3, <1>9
<1>11. Leaves(odbc, WithType(s.heap, h, was), h)
  <2>1. Leaves(odbc, s.heap, h)
    <3> HIDE DEF typed
    <3> QED BY <1>4, <1>5, <1>6, LeavesThen
  <2> HIDE DEF was, typed
  <2> QED BY <1>7, <1>8, <2>1, LeavesThen
<1> QED BY <1>10, <1>11

LEMMA LeavesStep ==
  ASSUME IInv, NEW h \in Live(odbc.conns), Leaves(odbc, odbc', h), handed' = handed, closing' = 0,
         executed' = NULL \/ (executed' \in Nat /\ ExecuteDelivers')
  PROVE  Kept
<1>1. HeapInv(odbc) /\ HandedOf(odbc, handed) BY DEF IInv
<1>2. HeapInv(odbc') BY DEF Leaves
<1>3. /\ HandedOf(odbc', handed)
      /\ SessionOf(odbc', handed) = SessionOf(odbc, handed)
      /\ (odbc').connected = odbc.connected /\ Issued(odbc') = Issued(odbc)
  BY <1>1, LeftIs
<1>4. HandedOf(odbc', handed') BY <1>3
<1>5. ClosingEmpties' BY NotClosing
<1>6. IInv'
  <2>1. CASE executed' = NULL BY <1>2, <1>4, <1>5, <2>1, Quiet
  <2>2. CASE executed' \in Nat /\ ExecuteDelivers' BY <1>2, <1>4, <1>5, <2>2 DEF IInv
  <2> QED BY <2>1, <2>2
<1>7. Isolated(odbc, odbc')
  <2>1. \A x \in Live(odbc.conns) : x \in Objs BY <1>1, HeapIs DEF HeapInv
  <2> QED BY <2>1 DEF Leaves, Frame, Isolated
<1>8. Promised(odbc, handed, odbc', handed') BY <1>3 DEF Promised
<1> QED BY <1>6, <1>7, <1>8 DEF Kept

\* A call that does not die acts on a live connection.
LEMMA ActsOn ==
  ASSUME HeapInv(odbc), NEW call \in Calls \ UsesDaughter, NEW n \in Numbers, ~ Dies(call, n)
  PROVE  Verify(odbc, n) \in Live(odbc.conns) /\ n \in Nat
<1>1. n \in Nat BY NumberAssumption DEF Numbers
<1>2. Verify(odbc, n) # NULL BY DEF Dies
<1> QED BY <1>1, <1>2, VerifyIs

LEMMA CallStep ==
  ASSUME IInv, NEW call \in Calls \ (UsesDaughter \cup {"Execute"}), NEW n \in Numbers, NEW outcomes,
         \A r \in outcomes : Verify(odbc, n) \in Live(odbc.conns) =>
                               Leaves(odbc, r.heap, Verify(odbc, n)),
         Call(call, n, outcomes)
  PROVE  Kept
<1>1. ~ Dies(call, n) /\ handed' = handed /\ closing' = 0 /\ executed' = NULL
  BY DEF Call, Returns
<1>2. Verify(odbc, n) \in Live(odbc.conns) BY <1>1, ActsOn DEF IInv
<1>3. PICK r \in outcomes : odbc' = r.heap BY DEF Call
<1>4. Leaves(odbc, odbc', Verify(odbc, n)) BY <1>2, <1>3
<1> QED BY <1>1, <1>2, <1>4, LeavesStep

\* What Execute acts on is the connection of its number, or ODBCLIST.
LEMMA ExecuteStep ==
  ASSUME IInv, NEW n \in Numbers, Execute(n)
  PROVE  Kept
<1> DEFINE h == Verify(odbc, n)
<1>1. HeapInv(odbc) /\ HandedOf(odbc, handed) BY DEF IInv
<1>2. Call("Execute", n, ExecuteOutcomes(h)) BY DEF Execute
<1>3. ~ Dies("Execute", n) /\ handed' = handed /\ closing' = 0 BY <1>2 DEF Call, Returns
<1>4. h \in Live(odbc.conns) /\ n \in Nat
  <2>1. "Execute" \in Calls \ UsesDaughter BY DEF Calls, UsesDriver, ChecksList, UsesDaughter
  <2> QED BY <1>1, <1>3, <2>1, ActsOn
<1> HIDE DEF h
<1>5. PICK r \in ExecuteOutcomes(h) : odbc' = r.heap /\ executed' = IF r.ok THEN n ELSE NULL
  BY <1>2 DEF Call, Returns
<1>6. Leaves(odbc, odbc', h) /\ (r.ok /\ h # ODBCLIST(odbc) => Delivered((odbc').conns[h]))
  <2>1. CASE h = ODBCLIST(odbc)
    <3>1. r = Done(odbc) BY <1>5, <2>1 DEF ExecuteOutcomes
    <3>2. odbc' = odbc BY <1>5, <3>1 DEF Done
    <3>3. Leaves(odbc, odbc, h) BY <1>1, <1>4, LeavesSame
    <3> QED BY <2>1, <3>2, <3>3
  <2>2. CASE h # ODBCLIST(odbc)
    <3>1. r \in Executed(h) BY <1>5, <2>2 DEF ExecuteOutcomes
    <3>2. Leaves(odbc, r.heap, h) /\ (r.ok => Delivered(r.heap.conns[h]))
      BY <1>1, <1>4, <3>1, ExecutedIs
    <3> QED BY <1>5, <3>2
  <2> QED BY <2>1, <2>2
<1>7. CASE ~ r.ok BY <1>3, <1>4, <1>5, <1>6, <1>7, LeavesStep
<1>8. CASE r.ok
  <2>1. executed' = n BY <1>5, <1>8
  <2>2. ASSUME n \in handed, n # 0 PROVE Delivered((odbc').conns[Lookup((odbc').mom, n)])
    <3>1. odbc.mom # NULL /\ Lookup(odbc.mom, n) # NULL BY <1>1, <2>2 DEF HandedOf
    <3>2. h = Lookup(odbc.mom, n) BY <3>1 DEF Verify, h
    <3>3. odbc.conns[h].conn = n BY <1>1, <1>4, <3>1, <3>2, FoundIs
    <3>4. h # ODBCLIST(odbc)
      <4> SUFFICES ASSUME h = Lookup(odbc.mom, 0) PROVE FALSE BY <3>1 DEF ODBCLIST
      <4>1. odbc.conns[h].conn = 0 BY <1>1, <3>1, <3>2, FoundIs
      <4> QED BY <2>2, <3>3, <4>1
    <3>5. (odbc').mom = odbc.mom BY <1>6 DEF Leaves, Frame
    <3> QED BY <1>6, <1>8, <3>2, <3>4, <3>5
  <2>3. ExecuteDelivers' BY <1>3, <2>1, <2>2 DEF ExecuteDelivers, Delivered
  <2> QED BY <1>3, <1>4, <1>6, <2>1, <2>3, LeavesStep
<1> QED BY <1>7, <1>8

LEMMA OtherCallsStep ==
  ASSUME IInv, NEW n \in Numbers,
         \/ GetTypeInfo(n) \/ Catalog(n)
         \/ \E type \in CloseTypes : DropCursor(n, type) \/ SetStmtCloseType(n, type)
  PROVE  Kept
<1> DEFINE h == Verify(odbc, n)
<1> HIDE DEF h
<1>1. HeapInv(odbc) BY DEF IInv
<1>2. {"GetTypeInfo", "Catalog", "DropCursor", "KeepCursor", "SetStmtCloseType"}
        \subseteq Calls \ (UsesDaughter \cup {"Execute"})
  BY DEF Calls, UsesDriver, ChecksList, UsesDaughter
<1>3. CASE GetTypeInfo(n)
  <2>1. Call("GetTypeInfo", n, Executed(h)) BY <1>3 DEF GetTypeInfo, h
  <2>2. \A r \in Executed(h) : h \in Live(odbc.conns) => Leaves(odbc, r.heap, h)
    BY <1>1, ExecutedIs
  <2> QED BY <1>2, <2>1, <2>2, CallStep DEF h
<1>4. CASE Catalog(n)
  <2>1. Call("Catalog", n, CatalogOutcomes(h)) BY <1>4 DEF Catalog, h
  <2>2. \A r \in CatalogOutcomes(h) : h \in Live(odbc.conns) => Leaves(odbc, r.heap, h)
    BY <1>1, CatalogIs
  <2> QED BY <1>2, <2>1, <2>2, CallStep DEF h
<1>5. ASSUME NEW type \in CloseTypes, DropCursor(n, type) PROVE Kept
  <2> DEFINE call == IF type = "SQL_DONT_CLOSE" THEN "KeepCursor" ELSE "DropCursor"
  <2>1. Call(call, n, DropOutcomes(h, type)) BY <1>5 DEF DropCursor, h
  <2>2. \A r \in DropOutcomes(h, type) : h \in Live(odbc.conns) => Leaves(odbc, r.heap, h)
    BY <1>1, DropIs
  <2>3. call \in Calls \ (UsesDaughter \cup {"Execute"}) BY <1>2
  <2> HIDE DEF call
  <2> QED BY <2>1, <2>2, <2>3, CallStep DEF h
<1>6. ASSUME NEW type \in CloseTypes, SetStmtCloseType(n, type) PROVE Kept
  <2> DEFINE outcomes == {Done(WithType(odbc, h, type))}
  <2>1. Call("SetStmtCloseType", n, outcomes) BY <1>6 DEF SetStmtCloseType, h
  <2>2. type \in StmtOptions BY CloseAssumption
  <2>3. \A r \in outcomes : h \in Live(odbc.conns) => Leaves(odbc, r.heap, h)
    BY <1>1, <2>2, WithTypeIs DEF Done
  <2> HIDE DEF outcomes
  <2> QED BY <1>2, <2>1, <2>3, CallStep DEF h
<1> QED BY <1>3, <1>4, <1>5, <1>6

-----------------------------------------------------------------------------
LEMMA StepIs ==
  ASSUME IInv, Next
  PROVE  Kept
<1>1. ASSUME InitExtension PROVE Kept BY <1>1, InitExtensionStep
<1>2. ASSUME Connect PROVE Kept BY <1>2, ConnectStep
<1>3. ASSUME ConnectCrashes \/ CloneCrashes \/ CallCrashes PROVE Kept
  BY <1>3, CrashStep DEF ConnectCrashes, CloneCrashes, CallCrashes
<1>4. ASSUME ShutDown PROVE Kept BY <1>4, ShutDownStep
<1>5. ASSUME ShutDownSlot PROVE Kept BY <1>5, ShutDownSlotStep
<1>6. ASSUME ShutDownEnd PROVE Kept BY <1>6, ShutDownEndStep
<1>7. ASSUME NEW n \in Numbers, Clone(n) PROVE Kept BY <1>7, CloneStep
<1>8. ASSUME NEW n \in Numbers, Disconnect(n) PROVE Kept BY <1>8, DisconnectStep
<1>9. ASSUME NEW n \in Numbers, Execute(n) PROVE Kept BY <1>9, ExecuteStep
<1>10. ASSUME NEW n \in Numbers, Ask(n) PROVE Kept
  <2>1. UNCHANGED <<odbc, handed>> /\ closing' = 0 /\ executed' = NULL
    BY <1>10 DEF Ask, Returns
  <2> QED BY <2>1, SameStep, NotClosing
<1>11. ASSUME NEW n \in Numbers,
              \/ GetTypeInfo(n) \/ Catalog(n)
              \/ \E type \in CloseTypes : DropCursor(n, type) \/ SetStmtCloseType(n, type)
       PROVE  Kept
  BY <1>11, OtherCallsStep
<1> QED BY <1>1, <1>2, <1>3, <1>4, <1>5, <1>6, <1>7, <1>8, <1>9, <1>10, <1>11 DEF Next

LEMMA StartIs ==
  ASSUME Init
  PROVE  IInv
<1>1. odbc = NoHeap /\ handed = {} /\ closing = 0 /\ executed = NULL BY DEF Init
<1>2. HeapInv(odbc) /\ HandedOf(odbc, handed) BY <1>1, NoHeapIs
<1>3. ClosingEmpties /\ ExecuteDelivers BY <1>1 DEF ClosingEmpties, ExecuteDelivers
<1> QED BY <1>1, <1>2, <1>3 DEF IInv

LEMMA StutterIs ==
  ASSUME IInv, UNCHANGED vars
  PROVE  Kept
<1>1. odbc' = odbc /\ handed' = handed /\ closing' = closing /\ executed' = executed BY DEF vars
<1>2. IInv' BY <1>1 DEF IInv, ClosingEmpties, ExecuteDelivers
<1>3. Isolated(odbc, odbc') BY <1>1 DEF Isolated
<1>4. Promised(odbc, handed, odbc', handed') BY <1>1 DEF Promised
<1> QED BY <1>2, <1>3, <1>4 DEF Kept

\* The heap of a thread is whole at every step: its list, its connections with
\* their statements and result sets, the counts that are shared, and what the
\* caller holds, through every call of ODBC.xs, every refusal of the driver and
\* the deletion of the daughter.
THEOREM Invariant == Spec => []IInv
<1>1. Init => IInv BY StartIs
<1>2. IInv /\ [Next]_vars => IInv' BY StepIs, StutterIs DEF Kept
<1> QED BY <1>1, <1>2, PTL DEF Spec

\* The daughter's list and the connections that are live agree, and a
\* connection's own number finds it: NewODBC, DeleteConn and ~CMom never leave
\* a connection outside the list, or one in it that was deleted.
THEOREM Agreement == Spec => []NumbersAgree
<1>1. IInv => NumbersAgree
  <2> SUFFICES ASSUME IInv PROVE NumbersAgree OBVIOUS
  <2>1. HeapInv(odbc) BY DEF IInv
  <2>2. CASE odbc.mom = NULL BY <2>1, <2>2 DEF HeapInv, Listed, NumbersAgree
  <2>3. CASE odbc.mom # NULL
    <3>1. WellFormed(odbc.mom) BY <2>1, <2>3 DEF HeapInv, Listed
    <3>2. \A i \in Occupied(odbc.mom) : odbc.mom.slot[i].obj \in Live(odbc.conns)
      BY <2>1, <2>3 DEF HeapInv, Listed
    <3>3. \A h \in Live(odbc.conns) : \E i \in Occupied(odbc.mom) : odbc.mom.slot[i].obj = h
      BY <2>1, <2>3 DEF HeapInv, Listed
    <3>4. Live(odbc.conns) = {odbc.mom.slot[i].obj : i \in Occupied(odbc.mom)} BY <3>2, <3>3
    <3>5. \A h \in Live(odbc.conns) : Lookup(odbc.mom, odbc.conns[h].conn) = h BY <2>1, FoundIs
    <3> QED BY <2>3, <3>1, <3>4, <3>5 DEF NumbersAgree
  <2> QED BY <2>2, <2>3
<1> QED BY <1>1, Invariant, PTL

\* An ODBC_HDBC counts the connections that use it, ODBC_Clone and the error
\* paths of ODBC_Connect included, is freed with the last of them and is then
\* not connected.
THEOREM Counting == Spec => []CountMatches
<1>1. IInv => CountMatches
  <2>1. \A d : Users(d) = UsersOf(odbc, d) BY DEF Users, UsersOf
  <2> QED BY <2>1 DEF IInv, HeapInv, Shared, CountMatches
<1> QED BY <1>1, Invariant, PTL

\* The driver's connection has the statements of the live connections that use
\* it, so that SQLDisconnect meets none, and a connection with a statement is
\* connected.
THEOREM Ownership == Spec => []StatementsOwned
<1>1. IInv => StatementsOwned
  <2> SUFFICES ASSUME IInv PROVE StatementsOwned OBVIOUS
  <2>1. HeapInv(odbc) BY DEF IInv
  <2>2. \A d : Statements(d) = StatementsOf(odbc, d)
    BY DEF Users, UsersOf, Statements, StatementsOf
  <2>3. \A d \in Dbcs : odbc.statements[d] = Cardinality(Statements(d))
    BY <2>1, <2>2 DEF HeapInv, Counted
  <2>4. ASSUME NEW h \in Live(odbc.conns), odbc.conns[h].hstmt # NULL PROVE Connected(odbc, h)
    <3>1. odbc.conns[h].hdbc \in odbc.connected BY <2>1, <2>4 DEF HeapInv, Sound
    <3>2. NULL \notin odbc.connected BY <2>1, HeapIs, NullAssumption DEF HeapInv
    <3> QED BY <3>1, <3>2 DEF Connected
  <2> QED BY <2>3, <2>4 DEF StatementsOwned
<1> QED BY <1>1, Invariant, PTL

\* The columns of a statement are never bound to the buffers of a result set
\* that is gone: RemoveBuffers finds the connection of the result set by its
\* number, and ~CResults comes before the statement and the number go.
THEOREM Binding == Spec => []BoundBuffersLive
<1>1. IInv => BoundBuffersLive BY DEF IInv, HeapInv, Sound, BoundBuffersLive
<1> QED BY <1>1, Invariant, PTL

\* An ODBC_Execute that reports success on a number the caller holds, other than
\* the 0 of ODBCLIST, has opened a cursor on this connection and bound it to a
\* new result set.
THEOREM Delivery == Spec => []ExecuteDelivers
<1>1. IInv => ExecuteDelivers BY DEF IInv
<1> QED BY <1>1, Invariant, PTL

\* A call changes or deletes one connection at most, until the daughter goes:
\* a clone does not notice what becomes of the connection it was made from.
THEOREM Isolation == Spec => CallsIsolated
<1>1. ASSUME Isolated(odbc, odbc')
      PROVE  (odbc').mom = NULL \/
             Cardinality({h \in Live(odbc.conns) : (odbc').conns[h] # odbc.conns[h]}) <= 1
  <2> DEFINE changed == {h \in Live(odbc.conns) : (odbc').conns[h] # odbc.conns[h]}
  <2>1. CASE (odbc').mom = NULL BY <2>1
  <2>2. CASE \E x : \A h \in Live(odbc.conns) : h # x => (odbc').conns[h] = odbc.conns[h]
    <3>1. PICK x : changed \subseteq {x} BY <2>2
    <3> HIDE DEF changed
    <3>2. changed = {} \/ changed = {x} BY <3>1
    <3>3. Cardinality({}) = 0 /\ Cardinality({x}) = 1 BY FS_EmptySet, FS_Singleton
    <3>4. Cardinality(changed) <= 1 BY <3>2, <3>3
    <3> QED BY <3>4 DEF changed
  <2> QED BY <1>1, <2>1, <2>2 DEF Isolated
<1>2. IInv /\ [Next]_vars =>
        [(odbc').mom = NULL \/
           Cardinality({h \in Live(odbc.conns) : (odbc').conns[h] # odbc.conns[h]}) <= 1]_vars
  BY <1>1, StepIs DEF Kept
<1> QED BY <1>2, Invariant, PTL DEF Spec, CallsIsolated

-----------------------------------------------------------------------------
\* The refinement: what the steps promise, in the words of Sessions.
LEMMA AbstractIs ==
  /\ Abstract!Init <=>
       SessionOf(odbc, handed) = Abstract!NoSession /\ odbc.connected = {} /\ Issued(odbc) = 0
  /\ UNCHANGED Abstract!vars <=>
       /\ SessionOf(odbc', handed') = SessionOf(odbc, handed)
       /\ (odbc').connected = odbc.connected
       /\ Issued(odbc') = Issued(odbc)
  /\ Abstract!Skip <=>
       /\ SessionOf(odbc', handed') = SessionOf(odbc, handed)
       /\ (odbc').connected = odbc.connected
       /\ Issued(odbc') = Issued(odbc) + 1
  /\ \A d : Abstract!Open(d) <=>
       /\ d \notin odbc.connected /\ (odbc').connected = odbc.connected \cup {d}
       /\ Issued(odbc') = Issued(odbc) + 1
       /\ SessionOf(odbc', handed') =
            [n \in handed \cup {Issued(odbc)} |->
               IF n = Issued(odbc) THEN d ELSE SessionOf(odbc, handed)[n]]
  /\ \A x : Abstract!Share(x) <=>
       /\ (odbc').connected = odbc.connected
       /\ Issued(odbc') = Issued(odbc) + 1
       /\ SessionOf(odbc', handed') =
            [n \in handed \cup {Issued(odbc)} |->
               IF n = Issued(odbc) THEN SessionOf(odbc, handed)[x] ELSE SessionOf(odbc, handed)[n]]
  /\ \A x : Abstract!Close(x) <=>
       /\ Issued(odbc') = Issued(odbc)
       /\ SessionOf(odbc', handed') = [n \in handed \ {x} |-> SessionOf(odbc, handed)[n]]
       /\ (odbc').connected = {SessionOf(odbc', handed')[n] : n \in handed'}
  /\ Abstract!End <=>
       /\ SessionOf(odbc', handed') = Abstract!NoSession
       /\ (odbc').connected = {} /\ Issued(odbc') = 0
<1>1. DOMAIN SessionOf(odbc, handed) = handed /\ DOMAIN SessionOf(odbc', handed') = handed'
  BY DEF SessionOf
<1>2. Abstract!Init <=>
        SessionOf(odbc, handed) = Abstract!NoSession /\ odbc.connected = {} /\ Issued(odbc) = 0
  BY DEF Abstract!Init, SessionOf, Issued, Linked
<1>3. UNCHANGED Abstract!vars <=>
        /\ SessionOf(odbc', handed') = SessionOf(odbc, handed)
        /\ (odbc').connected = odbc.connected
        /\ Issued(odbc') = Issued(odbc)
  BY DEF Abstract!vars, SessionOf, Issued, Linked
<1>4. Abstract!Skip <=>
        /\ SessionOf(odbc', handed') = SessionOf(odbc, handed)
        /\ (odbc').connected = odbc.connected
        /\ Issued(odbc') = Issued(odbc) + 1
  BY DEF Abstract!Skip, SessionOf, Issued, Linked
<1>5. ASSUME NEW d
      PROVE  Abstract!Add(d) <=>
               /\ Issued(odbc') = Issued(odbc) + 1
               /\ SessionOf(odbc', handed') =
                    [n \in handed \cup {Issued(odbc)} |->
                       IF n = Issued(odbc) THEN d ELSE SessionOf(odbc, handed)[n]]
  BY DEF Abstract!Add, SessionOf, Issued, Linked
<1>6. ASSUME NEW d
      PROVE  Abstract!Open(d) <=>
               d \notin odbc.connected /\ (odbc').connected = odbc.connected \cup {d}
               /\ Abstract!Add(d)
  BY DEF Abstract!Open
<1>7. ASSUME NEW x
      PROVE  Abstract!Share(x) <=>
               (odbc').connected = odbc.connected /\ Abstract!Add(SessionOf(odbc, handed)[x])
  BY DEF Abstract!Share, SessionOf, Linked
<1>8. ASSUME NEW x
      PROVE  Abstract!Close(x) <=>
               /\ Issued(odbc') = Issued(odbc)
               /\ SessionOf(odbc', handed') = [n \in handed \ {x} |-> SessionOf(odbc, handed)[n]]
               /\ (odbc').connected = {SessionOf(odbc', handed')[n] : n \in handed'}
  BY <1>1 DEF Abstract!Close, Abstract!LinksOf, SessionOf, Issued, Linked
<1>9. Abstract!End <=>
        /\ SessionOf(odbc', handed') = Abstract!NoSession
        /\ (odbc').connected = {} /\ Issued(odbc') = 0
  BY DEF Abstract!End, SessionOf, Issued, Linked
<1> QED BY <1>2, <1>3, <1>4, <1>5, <1>6, <1>7, <1>8, <1>9

LEMMA PromisedIs ==
  ASSUME Promised(odbc, handed, odbc', handed')
  PROVE  Abstract!Next \/ UNCHANGED Abstract!vars
<1> DEFINE S == SessionOf(odbc, handed)
           T == SessionOf(odbc', handed')
           up == odbc.connected
           now == (odbc').connected
           i == Issued(odbc)
           j == Issued(odbc')
<1>1. DOMAIN S = handed BY DEF SessionOf
<1>2. /\ (\E d \in Dbcs : Abstract!Open(d)) => Abstract!Next
      /\ (\E x \in handed : Abstract!Share(x) \/ Abstract!Close(x)) => Abstract!Next
      /\ Abstract!Skip \/ Abstract!End => Abstract!Next
  BY DEF Abstract!Next, Linked
<1>3. CASE T = S /\ now = up /\ j \in {i, i + 1}
  <2>1. CASE j = i BY <1>3, <2>1, AbstractIs
  <2>2. CASE j = i + 1
    <3>1. Abstract!Skip BY <1>3, <2>2, AbstractIs
    <3> QED BY <1>2, <3>1
  <2> QED BY <1>3, <2>1, <2>2
<1>4. ASSUME j = i + 1, NEW d \in Dbcs, d \notin up, now = up \cup {d},
             T = [n \in handed \cup {i} |-> IF n = i THEN d ELSE S[n]]
      PROVE  Abstract!Next
  <2>1. Abstract!Open(d) BY <1>4, AbstractIs
  <2> QED BY <1>2, <2>1
<1>5. ASSUME j = i + 1, now = up, NEW x \in handed,
             T = [n \in handed \cup {i} |-> IF n = i THEN S[x] ELSE S[n]]
      PROVE  Abstract!Next
  <2>1. Abstract!Share(x) BY <1>5, AbstractIs
  <2> QED BY <1>2, <2>1
<1>6. ASSUME j = i, now = {T[n] : n \in handed'}, NEW x \in handed, handed' = handed \ {x},
             T = [n \in handed' |-> S[n]]
      PROVE  Abstract!Next
  <2>1. T = [n \in handed \ {x} |-> S[n]] BY <1>6
  <2>2. Abstract!Close(x) BY <1>6, <2>1, AbstractIs
  <2> QED BY <1>2, <2>2
<1>7. CASE j = 0 /\ handed' = {} /\ now = {}
  <2>1. T = Abstract!NoSession BY <1>7 DEF SessionOf, Abstract!NoSession
  <2>2. Abstract!End BY <1>7, <2>1, AbstractIs
  <2> QED BY <1>2, <2>2
<1>8. \/ T = S /\ now = up /\ j \in {i, i + 1}
      \/ /\ j = i + 1
         /\ \E d \in Dbcs :
              /\ d \notin up /\ now = up \cup {d}
              /\ T = [n \in handed \cup {i} |-> IF n = i THEN d ELSE S[n]]
      \/ /\ j = i + 1 /\ now = up
         /\ \E x \in handed : T = [n \in handed \cup {i} |-> IF n = i THEN S[x] ELSE S[n]]
      \/ /\ j = i /\ now = {T[n] : n \in handed'}
         /\ \E x \in handed : handed' = handed \ {x} /\ T = [n \in handed' |-> S[n]]
      \/ j = 0 /\ handed' = {} /\ now = {}
  BY Zenon DEF Promised
<1> HIDE DEF S, T, up, now, i, j
<1> QED BY <1>3, <1>4, <1>5, <1>6, <1>7, <1>8

\* The script sees Sessions: every call, every failure of the driver and the
\* end of the thread is a step of theirs or none.  Numbers are not reused, a
\* clone shares the link of the connection it was made from, and a link is
\* closed with its last session and not before.
THEOREM Refinement == Spec => Implements
<1>1. Init => Abstract!Init
  <2> SUFFICES ASSUME Init PROVE Abstract!Init OBVIOUS
  <2>1. odbc = NoHeap /\ handed = {} BY DEF Init
  <2>2. SessionOf(odbc, handed) = Abstract!NoSession BY <2>1 DEF SessionOf, Abstract!NoSession
  <2>3. odbc.connected = {} /\ Issued(odbc) = 0 BY <2>1, NoHeapIs
  <2> QED BY <2>2, <2>3, AbstractIs
<1>2. IInv /\ [Next]_vars => [Abstract!Next]_(Abstract!vars)
  <2> SUFFICES ASSUME IInv, [Next]_vars PROVE Abstract!Next \/ UNCHANGED Abstract!vars OBVIOUS
  <2>1. Promised(odbc, handed, odbc', handed') BY StepIs, StutterIs DEF Kept
  <2> QED BY <2>1, PromisedIs
<1> QED BY <1>1, <1>2, Invariant, PTL DEF Spec, Implements, Abstract!Spec
=============================================================================
