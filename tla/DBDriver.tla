------------------------------ MODULE DBDriver ------------------------------
(***************************************************************************)
(* low_level/dbdriver.hpp and connection_def.hpp: who owns a connection to *)
(* the server and who owns a statement's handle.                           *)
(*                                                                         *)
(* A DBDriver holds the C library's MYSQL structure by value.  A statement *)
(* handle points back to that structure, which lists the handles it must   *)
(* detach when the connection goes.  Driver and statement objects are      *)
(* named by the memory they live in, which may be used again.              *)
(***************************************************************************)
EXTENDS Naturals, FiniteSets

CONSTANTS
  Drivers,      \* memory for DBDriver objects
  StmtObjects,  \* memory for Statement objects
  MaxId,        \* bound: connections tried
  MaxHandles    \* bound: statements initialized

ASSUME DBDriverAssumption == MaxId \in Nat /\ MaxHandles \in Nat

Sessions == 1 .. MaxId
Handles == 1 .. MaxHandles

VARIABLES
  drivers,       \* the DBDriver objects alive
  id,            \* DBDriver::id, 0 if not connected
  globalId,      \* getGlobalIdRef()
  session,       \* external, in the MYSQL structure: its connection, 0 if none
  list,          \* external, MYSQL::stmts: the handles of the structure
  alive,         \* external: the connections the server has
  statementPtr,  \* Statement::statementPtr, 0 if nullptr or not alive
  used,          \* handles initialized so far
  mysql,         \* external, MYSQL_STMT::mysql: the handle's structure or "none"
  prepared,      \* external: the connection the handle was prepared on, or 0
  closed,        \* history: how often mysql_stmt_close had the handle
  moved,         \* history: handles of a structure that was moved away
  reported       \* history: handles whose close failed in operator=

driverVars == <<drivers, id, globalId, session, list, alive>>
stmtVars == <<statementPtr, used, mysql, prepared, closed>>
driverHistory == <<moved, reported>>
dbVars == <<driverVars, stmtVars, driverHistory>>

DBDriverTypeOK ==
  /\ drivers \subseteq Drivers
  /\ id \in [Drivers -> 0 .. MaxId]
  /\ globalId \in 1 .. MaxId + 1
  /\ session \in [Drivers -> 0 .. MaxId]
  /\ list \in [Drivers -> SUBSET Handles]
  /\ alive \subseteq Sessions
  /\ statementPtr \in [StmtObjects -> 0 .. MaxHandles]
  /\ used \in 0 .. MaxHandles
  /\ mysql \in [Handles -> Drivers \cup {"none"}]
  /\ prepared \in [Handles -> 0 .. MaxId]
  /\ closed \in [Handles -> 0 .. 2]
  /\ moved \subseteq Handles /\ reported \subseteq Handles

DBDriverInit ==
  /\ drivers = {} /\ id = [d \in Drivers |-> 0] /\ globalId = 1
  /\ session = [d \in Drivers |-> 0] /\ list = [d \in Drivers |-> {}] /\ alive = {}
  /\ statementPtr = [s \in StmtObjects |-> 0] /\ used = 0
  /\ mysql = [h \in Handles |-> "none"] /\ prepared = [h \in Handles |-> 0]
  /\ closed = [h \in Handles |-> 0]
  /\ moved = {} /\ reported = {}

-----------------------------------------------------------------------------

isConnected(d) == id[d] # 0

\* The server answers on the connection of d.
tryPing(d) == session[d] \in alive

\* mysql_close() detaches the handles in the structure's list.
Detached(d) == mysql' = [h \in Handles |-> IF h \in list[d] THEN "none" ELSE mysql[h]]

\* DBDriver(): mysqlInit().
Construct(d) ==
  /\ d \notin drivers
  /\ drivers' = drivers \cup {d}
  /\ id' = [id EXCEPT ![d] = 0]
  /\ session' = [session EXCEPT ![d] = 0]
  /\ list' = [list EXCEPT ![d] = {}]
  /\ UNCHANGED <<globalId, alive, stmtVars, driverHistory>>

\* Fault: a connection is counted twice.
ConnectCountsTwice(d, succeeds) ==
  /\ d \in drivers /\ globalId <= MaxId
  /\ id' = [id EXCEPT ![d] = globalId]
  /\ globalId' = globalId + 2
  /\ session' = [session EXCEPT ![d] = IF succeeds THEN globalId ELSE 0]
  /\ alive' = (IF isConnected(d) THEN alive \ {session[d]} ELSE alive)
               \cup (IF succeeds THEN {globalId} ELSE {})
  /\ IF isConnected(d) THEN Detached(d) /\ list' = [list EXCEPT ![d] = {}]
     ELSE UNCHANGED <<mysql, list>>
  /\ UNCHANGED <<drivers, statementPtr, used, prepared, closed, driverHistory>>

\* Fault: the connection before it is not closed.
ConnectWithoutClose(d, succeeds) ==
  /\ d \in drivers /\ globalId <= MaxId
  /\ id' = [id EXCEPT ![d] = globalId]
  /\ globalId' = globalId + 1
  /\ session' = [session EXCEPT ![d] = IF succeeds THEN globalId ELSE 0]
  /\ alive' = alive \cup (IF succeeds THEN {globalId} ELSE {})
  /\ UNCHANGED <<mysql, list>>
  /\ UNCHANGED <<drivers, statementPtr, used, prepared, closed, driverHistory>>

\* connect(), which closes what a connected driver has.  The id is taken before the
\* server is asked, and kept when it refuses.
Connect(d, succeeds) ==
  /\ d \in drivers /\ globalId <= MaxId
  /\ id' = [id EXCEPT ![d] = globalId]
  /\ globalId' = globalId + 1
  /\ session' = [session EXCEPT ![d] = IF succeeds THEN globalId ELSE 0]
  /\ alive' = (IF isConnected(d) THEN alive \ {session[d]} ELSE alive)
               \cup (IF succeeds THEN {globalId} ELSE {})
  /\ IF isConnected(d) THEN Detached(d) /\ list' = [list EXCEPT ![d] = {}]
     ELSE UNCHANGED <<mysql, list>>
  /\ UNCHANGED <<drivers, statementPtr, used, prepared, closed, driverHistory>>

\* Connection(): a driver that connects, and is destroyed if that throws.
MakeConnection(d, succeeds) ==
  /\ d \notin drivers /\ globalId <= MaxId
  /\ globalId' = globalId + 1
  /\ list' = [list EXCEPT ![d] = {}]
  /\ IF succeeds
     THEN /\ drivers' = drivers \cup {d}
          /\ id' = [id EXCEPT ![d] = globalId]
          /\ session' = [session EXCEPT ![d] = globalId]
          /\ alive' = alive \cup {globalId}
     ELSE UNCHANGED <<drivers, id, session, alive>>
  /\ UNCHANGED <<stmtVars, driverHistory>>

\* changeUser(), which throws if the server refuses; the C library gives up the
\* statements of the former user.
changeUser(d) ==
  /\ d \in drivers /\ tryPing(d)
  /\ Detached(d)
  /\ list' = [list EXCEPT ![d] = {}]
  /\ UNCHANGED <<drivers, id, globalId, session, alive,
                 statementPtr, used, prepared, closed, driverHistory>>

\* Fault: the other structure is left as it was.
MoveShares(d, other) ==
  /\ d \notin drivers /\ other \in drivers
  /\ drivers' = drivers \cup {d}
  /\ id' = [id EXCEPT ![d] = id[other], ![other] = 0]
  /\ session' = [session EXCEPT ![d] = session[other]]
  /\ list' = [list EXCEPT ![d] = list[other]]
  /\ moved' = moved \cup list[other]
  /\ UNCHANGED <<globalId, alive, stmtVars, reported>>

\* Fault: the other driver keeps its id.
MoveKeepsId(d, other) ==
  /\ d \notin drivers /\ other \in drivers
  /\ drivers' = drivers \cup {d}
  /\ id' = [id EXCEPT ![d] = id[other]]
  /\ session' = [session EXCEPT ![d] = session[other], ![other] = 0]
  /\ list' = [list EXCEPT ![d] = list[other], ![other] = {}]
  /\ moved' = moved \cup list[other]
  /\ UNCHANGED <<globalId, alive, stmtVars, reported>>

\* DBDriver(DBDriver&&): the structure is copied and the other one initialized
\* anew.  The handles go on pointing to the other one.
MoveDriver(d, other) ==
  /\ d \notin drivers /\ other \in drivers
  /\ drivers' = drivers \cup {d}
  /\ id' = [id EXCEPT ![d] = id[other], ![other] = 0]
  /\ session' = [session EXCEPT ![d] = session[other], ![other] = 0]
  /\ list' = [list EXCEPT ![d] = list[other], ![other] = {}]
  /\ moved' = moved \cup list[other]
  /\ UNCHANGED <<globalId, alive, stmtVars, reported>>

\* ~DBDriver(): mysqlClose().
DestroyDriver(d) ==
  /\ d \in drivers
  /\ drivers' = drivers \ {d}
  /\ id' = [id EXCEPT ![d] = 0]
  /\ session' = [session EXCEPT ![d] = 0]
  /\ list' = [list EXCEPT ![d] = {}]
  /\ alive' = alive \ {session[d]}
  /\ Detached(d)
  /\ UNCHANGED <<globalId, statementPtr, used, prepared, closed, driverHistory>>

\* The server drops a connection.
ServerDrops(s) == s \in alive /\ alive' = alive \ {s} /\ UNCHANGED
  <<drivers, id, globalId, session, list, stmtVars, driverHistory>>

-----------------------------------------------------------------------------
(* Statement                                                                *)

Free(s) == statementPtr[s] = 0

\* makeStatement() and Statement(): mysql_stmt_init.
MakeStatement(s, d) ==
  /\ Free(s) /\ d \in drivers /\ used < MaxHandles
  /\ used' = used + 1
  /\ statementPtr' = [statementPtr EXCEPT ![s] = used + 1]
  /\ mysql' = [mysql EXCEPT ![used + 1] = d]
  /\ list' = [list EXCEPT ![d] = @ \cup {used + 1}]
  /\ UNCHANGED <<drivers, id, globalId, session, alive, prepared, closed, driverHistory>>

\* prepare() throws unless the handle's structure has a connection.
Prepare(s) ==
  LET h == statementPtr[s]
  IN  /\ h # 0 /\ closed[h] = 0 /\ mysql[h] \in drivers
      /\ tryPing(mysql[h])
      /\ prepared' = [prepared EXCEPT ![h] = session[mysql[h]]]
      /\ UNCHANGED <<driverVars, statementPtr, used, mysql, closed, driverHistory>>

\* close(): the handle is freed, even when an error is reported.
Close(h) ==
  /\ closed' = [closed EXCEPT ![h] = @ + 1]
  /\ list' = [d \in Drivers |-> IF d = mysql[h] THEN list[d] \ {h} ELSE list[d]]

\* An error can only be reported for a handle that has a structure.
CloseMayFail(h) == mysql[h] # "none"

\* Nothing is said of what follows the second close of a handle.
Defined(h) == closed[h] < 2

\* Statement(Statement&&), and operator= of an object that has no handle.
MoveStatement(s, other) ==
  /\ Free(s) /\ ~Free(other)
  /\ statementPtr' = [statementPtr EXCEPT ![s] = statementPtr[other], ![other] = 0]
  /\ UNCHANGED <<driverVars, used, mysql, prepared, closed, driverHistory>>

\* Fault: the own handle is not closed.
AssignWithoutClose(s, other) ==
  /\ s # other /\ ~Free(s)
  /\ statementPtr' = [statementPtr EXCEPT ![s] = statementPtr[other]]
  /\ UNCHANGED <<driverVars, used, mysql, prepared, closed, driverHistory>>

\* operator=(Statement&&): when close() throws, the own pointer stays.
AssignStatement(s, other) ==
  /\ s # other /\ ~Free(s) /\ Defined(statementPtr[s])
  /\ Close(statementPtr[s])
  /\ \/ /\ statementPtr' = [statementPtr EXCEPT ![s] = statementPtr[other], ![other] = 0]
        /\ UNCHANGED reported
     \/ /\ CloseMayFail(statementPtr[s])
        /\ reported' = reported \cup {statementPtr[s]}
        /\ UNCHANGED statementPtr
  /\ UNCHANGED <<drivers, id, globalId, session, alive, used, mysql, prepared, moved>>

\* ~Statement() logs an error of close().
DestroyStatement(s) ==
  /\ ~Free(s) /\ Defined(statementPtr[s])
  /\ Close(statementPtr[s])
  /\ statementPtr' = [statementPtr EXCEPT ![s] = 0]
  /\ UNCHANGED <<drivers, id, globalId, session, alive, used, mysql, prepared, driverHistory>>

DBDriverNext ==
  \/ \E d \in Drivers :
       \/ Construct(d) \/ changeUser(d) \/ DestroyDriver(d)
       \/ \E succeeds \in BOOLEAN : Connect(d, succeeds) \/ MakeConnection(d, succeeds)
  \/ \E d, other \in Drivers : MoveDriver(d, other)
  \/ \E s \in Sessions : ServerDrops(s)
  \/ \E s \in StmtObjects :
       \/ \E d \in Drivers : MakeStatement(s, d)
       \/ Prepare(s) \/ DestroyStatement(s)
  \/ \E s, other \in StmtObjects : MoveStatement(s, other) \/ AssignStatement(s, other)

DBDriverSpec == DBDriverInit /\ [][DBDriverNext]_dbVars

-----------------------------------------------------------------------------

\* operator==: drivers that are connected compare equal only to themselves, and a
\* connection has the id of the driver that holds it.
IdsAreIdentities ==
  /\ \A d, e \in drivers : id[d] = id[e] /\ id[d] # 0 => d = e
  /\ \A d \in drivers : session[d] \in {0, id[d]}

\* Every connection the server has is held by one driver, which will close it.
OneOwner ==
  \A s \in alive :
    \E d \in drivers : session[d] = s /\ \A e \in drivers : session[e] = s => e = d

\* No handle is closed twice, and none is dropped alive, unless the close that an
\* assignment began reported an error.
ClosedOnce ==
  \A h \in 1 .. used \ reported :
    Cardinality({s \in StmtObjects : statementPtr[s] = h}) = 1 - closed[h]

\* A handle that is not closed points to the structure of a live driver that lists
\* it, and is prepared on its connection if at all; or to none.  The exception are
\* the handles of a driver that was moved.
StatementsFollow ==
  \A h \in 1 .. used \ moved :
    closed[h] = 0 /\ mysql[h] # "none" =>
      /\ mysql[h] \in drivers
      /\ h \in list[mysql[h]]
      /\ prepared[h] \in {0, session[mysql[h]]}
=============================================================================
