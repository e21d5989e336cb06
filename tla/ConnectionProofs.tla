-------------------------- MODULE ConnectionProofs --------------------------
(***************************************************************************)
(* Proofs about the owners of connections and statement handles, for any   *)
(* number of drivers, statements, connections and handles, and about the   *)
(* types of everything on a connection.                                    *)
(***************************************************************************)
EXTENDS MCConnection, TransactionProofs, FiniteSetTheorems

\* An action of the drivers, of the statements, or of the server.
DriverStep ==
  \/ \E d \in Drivers :
       \/ Construct(d) \/ changeUser(d) \/ DestroyDriver(d)
       \/ \E succeeds \in BOOLEAN : Connect(d, succeeds) \/ MakeConnection(d, succeeds)
  \/ \E d, other \in Drivers : MoveDriver(d, other)
  \/ \E s \in Sessions : ServerDrops(s)

StatementStep ==
  \/ \E s \in StmtObjects :
       \/ \E d \in Drivers : MakeStatement(s, d)
       \/ Prepare(s) \/ DestroyStatement(s)
  \/ \E s, other \in StmtObjects : MoveStatement(s, other) \/ AssignStatement(s, other)

\* The variables have their types at the start.
LEMMA TypeInit == DBDriverInit => DBDriverTypeOK
  BY DBDriverAssumption
  DEF DBDriverInit, DBDriverTypeOK, Handles, Sessions

\* The actions of the drivers keep the types.
LEMMA DriverTypeStep ==
  ASSUME DBDriverTypeOK, DriverStep
  PROVE  DBDriverTypeOK'
  <1> USE DBDriverAssumption DEF DBDriverTypeOK, Sessions, Handles
  <1>1. ASSUME NEW d \in Drivers, Construct(d) PROVE DBDriverTypeOK'
    BY <1>1 DEF Construct, stmtVars, driverHistory
  <1>2. ASSUME NEW d \in Drivers, changeUser(d) PROVE DBDriverTypeOK'
    BY <1>2 DEF changeUser, Detached, driverHistory
  <1>3. ASSUME NEW d \in Drivers, DestroyDriver(d) PROVE DBDriverTypeOK'
    <2>1. /\ id' \in [Drivers -> 0 .. MaxId] /\ session' \in [Drivers -> 0 .. MaxId]
          /\ list' \in [Drivers -> SUBSET Handles]
      BY <1>3 DEF DestroyDriver
    <2>2. mysql' \in [Handles -> Drivers \cup {"none"}]
      BY <1>3 DEF DestroyDriver, Detached
    <2>3. drivers' \subseteq Drivers /\ alive' \subseteq 1 .. MaxId
      BY <1>3 DEF DestroyDriver
    <2> QED BY <1>3, <2>1, <2>2, <2>3 DEF DestroyDriver, driverHistory
  <1>4. ASSUME NEW d \in Drivers, NEW succeeds \in BOOLEAN, Connect(d, succeeds)
        PROVE  DBDriverTypeOK'
    <2>1. globalId \in Sessions /\ globalId' \in 1 .. MaxId + 1
      BY <1>4 DEF Connect
    <2>2. id' \in [Drivers -> 0 .. MaxId] /\ session' \in [Drivers -> 0 .. MaxId]
      BY <1>4, <2>1 DEF Connect
    <2>3. alive' \subseteq Sessions
      BY <1>4, <2>1 DEF Connect
    <2>4. list' \in [Drivers -> SUBSET Handles] /\ mysql' \in [Handles -> Drivers \cup {"none"}]
      BY <1>4 DEF Connect, Detached
    <2> QED
      BY <1>4, <2>1, <2>2, <2>3, <2>4 DEF Connect, driverHistory
  <1>5. ASSUME NEW d \in Drivers, NEW succeeds \in BOOLEAN, MakeConnection(d, succeeds)
        PROVE  DBDriverTypeOK'
    <2>1. globalId \in Sessions /\ globalId' \in 1 .. MaxId + 1
      BY <1>5 DEF MakeConnection
    <2>2. id' \in [Drivers -> 0 .. MaxId] /\ session' \in [Drivers -> 0 .. MaxId]
      <3>1. CASE succeeds
        <4>1. /\ id' = [id EXCEPT ![d] = globalId]
              /\ session' = [session EXCEPT ![d] = globalId]
          BY <1>5, <3>1 DEF MakeConnection
        <4> QED BY <2>1, <4>1
      <3>2. CASE ~succeeds
        BY <1>5, <3>2 DEF MakeConnection
      <3> QED BY <3>1, <3>2
    <2>3. alive' \subseteq Sessions /\ drivers' \subseteq Drivers
      BY <1>5, <2>1 DEF MakeConnection
    <2>4. list' \in [Drivers -> SUBSET Handles]
      BY <1>5 DEF MakeConnection
    <2> QED BY <1>5, <2>1, <2>2, <2>3, <2>4 DEF MakeConnection, stmtVars, driverHistory
  <1>6. ASSUME NEW d \in Drivers, NEW other \in Drivers, MoveDriver(d, other)
        PROVE  DBDriverTypeOK'
    <2>1. id' \in [Drivers -> 0 .. MaxId] /\ session' \in [Drivers -> 0 .. MaxId]
      BY <1>6 DEF MoveDriver
    <2>2. list' \in [Drivers -> SUBSET Handles] /\ moved' \subseteq Handles
      BY <1>6 DEF MoveDriver
    <2>3. drivers' \subseteq Drivers
      BY <1>6 DEF MoveDriver
    <2> QED BY <1>6, <2>1, <2>2, <2>3 DEF MoveDriver, stmtVars
  <1>7. ASSUME NEW s \in Sessions, ServerDrops(s) PROVE DBDriverTypeOK'
    BY <1>7 DEF ServerDrops, stmtVars, driverHistory
  <1> QED BY <1>1, <1>2, <1>3, <1>4, <1>5, <1>6, <1>7 DEF DriverStep

\* Closing a handle keeps the types.
LEMMA CloseType ==
  ASSUME DBDriverTypeOK, NEW h \in Handles, Close(h), Defined(h)
  PROVE  closed' \in [Handles -> 0 .. 2] /\ list' \in [Drivers -> SUBSET Handles]
  BY DEF DBDriverTypeOK, Close, Defined

\* A pointer that is not null points to a handle.
LEMMA PointerType ==
  ASSUME DBDriverTypeOK, NEW s \in StmtObjects, statementPtr[s] # 0
  PROVE  statementPtr[s] \in Handles
  BY DBDriverAssumption DEF DBDriverTypeOK, Handles

\* The actions of the statements keep the types.
LEMMA StatementTypeStep ==
  ASSUME DBDriverTypeOK, StatementStep
  PROVE  DBDriverTypeOK'
  <1> USE DBDriverAssumption DEF DBDriverTypeOK, Sessions
  <1>1. ASSUME NEW s \in StmtObjects, NEW d \in Drivers, MakeStatement(s, d)
        PROVE  DBDriverTypeOK'
    <2>1. used + 1 \in Handles
      BY <1>1 DEF MakeStatement, Handles
    <2> QED BY <1>1, <2>1 DEF MakeStatement, driverHistory, Handles
  <1>2. ASSUME NEW s \in StmtObjects, Prepare(s) PROVE DBDriverTypeOK'
    <2>1. /\ statementPtr[s] \in Handles
          /\ mysql[statementPtr[s]] \in Drivers
      BY <1>2, PointerType DEF Prepare
    <2>2. prepared' \in [Handles -> 0 .. MaxId]
      BY <1>2, <2>1 DEF Prepare
    <2> QED BY <1>2, <2>2 DEF Prepare, driverVars, driverHistory
  <1>3. ASSUME NEW s \in StmtObjects, DestroyStatement(s) PROVE DBDriverTypeOK'
    <2>1. statementPtr[s] \in Handles
      BY <1>3, PointerType DEF DestroyStatement, Free
    <2>2. closed' \in [Handles -> 0 .. 2] /\ list' \in [Drivers -> SUBSET Handles]
      BY <1>3, <2>1, CloseType DEF DestroyStatement
    <2> QED BY <1>3, <2>2 DEF DestroyStatement, driverHistory
  <1>4. ASSUME NEW s \in StmtObjects, NEW other \in StmtObjects, MoveStatement(s, other)
        PROVE  DBDriverTypeOK'
    BY <1>4 DEF MoveStatement, driverVars, driverHistory
  <1>5. ASSUME NEW s \in StmtObjects, NEW other \in StmtObjects, AssignStatement(s, other)
        PROVE  DBDriverTypeOK'
    <2>1. statementPtr[s] \in Handles
      BY <1>5, PointerType DEF AssignStatement, Free
    <2>2. closed' \in [Handles -> 0 .. 2] /\ list' \in [Drivers -> SUBSET Handles]
      BY <1>5, <2>1, CloseType DEF AssignStatement
    <2>3. /\ statementPtr' \in [StmtObjects -> 0 .. MaxHandles]
          /\ reported' \subseteq Handles
      BY <1>5, <2>1 DEF AssignStatement
    <2> QED BY <1>5, <2>2, <2>3 DEF AssignStatement
  <1> QED BY <1>1, <1>2, <1>3, <1>4, <1>5 DEF StatementStep

\* Every step of the specification is one of the two kinds, or leaves all as it is.
LEMMA StepKinds == [DBDriverNext]_dbVars => DriverStep \/ StatementStep \/ UNCHANGED dbVars
  BY DEF DBDriverNext, DriverStep, StatementStep

\* The types are kept.
LEMMA TypeStep == DBDriverTypeOK /\ [DBDriverNext]_dbVars => DBDriverTypeOK'
  <1> SUFFICES ASSUME DBDriverTypeOK, [DBDriverNext]_dbVars PROVE DBDriverTypeOK'
    OBVIOUS
  <1>1. CASE UNCHANGED dbVars
    BY <1>1 DEF DBDriverTypeOK, dbVars, driverVars, stmtVars, driverHistory
  <1> QED BY <1>1, DriverTypeStep, StatementTypeStep, StepKinds

\* Drivers, handles and the connections of the server keep their types.
THEOREM DBDriverTypeCorrect == DBDriverSpec => []DBDriverTypeOK
  BY TypeInit, TypeStep, PTL DEF DBDriverSpec

-----------------------------------------------------------------------------
(* Identities and owners of connections.                                   *)

\* Every id was handed out by the counter.
IdsBelow == \A d \in Drivers : id[d] < globalId

\* The counter gave no id to two drivers.
IdsDistinct == \A d, e \in Drivers : id[d] = id[e] /\ id[d] # 0 => d = e

\* A connection has its driver's id, and memory without a driver has none.
SessionHasId ==
  /\ \A d \in Drivers : session[d] \in {0, id[d]}
  /\ \A d \in Drivers \ drivers : id[d] = 0

AliveIsHeld == \A s \in alive : \E d \in drivers : session[d] = s

OwnersInv == DBDriverTypeOK /\ IdsBelow /\ IdsDistinct /\ SessionHasId /\ AliveIsHeld

\* Nobody is connected at the start.
LEMMA OwnersInit == DBDriverInit => OwnersInv
  <1> SUFFICES ASSUME DBDriverInit PROVE OwnersInv
    OBVIOUS
  <1>1. DBDriverTypeOK
    BY TypeInit
  <1> QED
    BY <1>1 DEF DBDriverInit, OwnersInv, IdsBelow, IdsDistinct, SessionHasId, AliveIsHeld

\* The statements have no part in it.
LEMMA OwnersUnchanged ==
  ASSUME OwnersInv, DBDriverTypeOK', UNCHANGED <<drivers, id, globalId, session, alive>>
  PROVE  OwnersInv'
  BY DEF OwnersInv, IdsBelow, IdsDistinct, SessionHasId, AliveIsHeld

\* connect() takes a new id and closes the connection that the driver had.
LEMMA OwnersConnect ==
  ASSUME OwnersInv, DBDriverTypeOK',
         NEW d \in Drivers, NEW succeeds \in BOOLEAN, Connect(d, succeeds)
  PROVE  OwnersInv'
  <1> USE DEF OwnersInv, DBDriverTypeOK
  <1>1. /\ id' = [id EXCEPT ![d] = globalId]
        /\ session' = [session EXCEPT ![d] = IF succeeds THEN globalId ELSE 0]
        /\ globalId' = globalId + 1 /\ drivers' = drivers /\ d \in drivers
    BY DEF Connect
  <1>2. globalId \in Nat \ {0} /\ \A e \in Drivers : id[e] \in Nat
    BY DBDriverAssumption
  <1>3. IdsBelow'
    BY <1>1, <1>2 DEF IdsBelow
  <1>4. IdsDistinct'
    BY <1>1, <1>2 DEF IdsDistinct, IdsBelow
  <1>5. SessionHasId'
    BY <1>1, <1>2 DEF SessionHasId
  <1>6. AliveIsHeld'
    <2> SUFFICES ASSUME NEW s \in alive'
                 PROVE  \E e \in drivers' : session'[e] = s
      BY DEF AliveIsHeld
    <2>1. CASE s = globalId /\ succeeds
      BY <1>1, <2>1
    <2>2. CASE ~(s = globalId /\ succeeds)
      <3>1. s \in alive /\ (isConnected(d) => s # session[d])
        BY <2>2 DEF Connect
      <3>2. PICK e \in drivers : session[e] = s
        BY <3>1 DEF AliveIsHeld
      <3>3. s # 0
        BY <3>1 DEF Sessions
      <3>4. e # d
        BY <3>1, <3>2, <3>3 DEF SessionHasId, isConnected
      <3> QED BY <1>1, <3>2, <3>4
    <2> QED BY <2>1, <2>2
  <1> QED BY <1>3, <1>4, <1>5, <1>6

\* A Connection is a driver with a new id, or nothing at all.
LEMMA OwnersMakeConnection ==
  ASSUME OwnersInv, DBDriverTypeOK',
         NEW d \in Drivers, NEW succeeds \in BOOLEAN, MakeConnection(d, succeeds)
  PROVE  OwnersInv'
  <1> USE DEF OwnersInv, DBDriverTypeOK
  <1>1. globalId \in Nat \ {0} /\ \A e \in Drivers : id[e] \in Nat
    BY DBDriverAssumption
  <1>2. CASE succeeds
    <2>1. /\ id' = [id EXCEPT ![d] = globalId]
          /\ session' = [session EXCEPT ![d] = globalId]
          /\ globalId' = globalId + 1
          /\ drivers' = drivers \cup {d} /\ d \notin drivers
          /\ alive' = alive \cup {globalId}
      BY <1>2 DEF MakeConnection
    <2>2. IdsBelow'
      BY <1>1, <2>1 DEF IdsBelow
    <2>3. IdsDistinct'
      BY <1>1, <2>1 DEF IdsDistinct, IdsBelow
    <2>4. SessionHasId'
      BY <1>1, <2>1 DEF SessionHasId
    <2>5. AliveIsHeld'
      BY <2>1 DEF AliveIsHeld
    <2> QED BY <2>2, <2>3, <2>4, <2>5
  <1>3. CASE ~succeeds
    <2>1. UNCHANGED <<drivers, id, session, alive>> /\ globalId' = globalId + 1
      BY <1>3 DEF MakeConnection
    <2>2. IdsBelow'
      BY <1>1, <2>1 DEF IdsBelow
    <2> QED BY <2>1, <2>2 DEF IdsDistinct, SessionHasId, AliveIsHeld
  <1> QED BY <1>2, <1>3

\* A move hands the id and the connection over.
LEMMA OwnersMove ==
  ASSUME OwnersInv, DBDriverTypeOK',
         NEW d \in Drivers, NEW other \in Drivers, MoveDriver(d, other)
  PROVE  OwnersInv'
  <1> USE DEF OwnersInv, DBDriverTypeOK
  <1>1. /\ d \notin drivers /\ other \in drivers /\ d # other
        /\ drivers' = drivers \cup {d}
        /\ id' = [id EXCEPT ![d] = id[other], ![other] = 0]
        /\ session' = [session EXCEPT ![d] = session[other], ![other] = 0]
        /\ globalId' = globalId /\ alive' = alive
    BY DEF MoveDriver
  <1>2. globalId \in Nat \ {0} /\ id[d] = 0
    BY <1>1 DEF SessionHasId
  <1>3. /\ id'[d] = id[other] /\ id'[other] = 0
        /\ session'[d] = session[other] /\ session'[other] = 0
        /\ \A e \in Drivers \ {d, other} : id'[e] = id[e] /\ session'[e] = session[e]
    BY <1>1
  <1>4. IdsBelow'
    BY <1>1, <1>2, <1>3 DEF IdsBelow
  <1>5. IdsDistinct'
    BY <1>1, <1>3 DEF IdsDistinct
  <1>6. SessionHasId'
    BY <1>1, <1>3 DEF SessionHasId
  <1>7. AliveIsHeld'
    <2> SUFFICES ASSUME NEW s \in alive
                 PROVE  \E e \in drivers' : session'[e] = s
      BY <1>1 DEF AliveIsHeld
    <2>1. PICK e \in drivers : session[e] = s
      BY DEF AliveIsHeld
    <2>2. CASE e = other
      BY <1>1, <1>3, <2>1, <2>2
    <2>3. CASE e # other
      BY <1>1, <1>3, <2>1, <2>3
    <2> QED BY <2>2, <2>3
  <1> QED BY <1>4, <1>5, <1>6, <1>7

\* Memory becomes or stops being a driver; a destructor closes the connection.
LEMMA OwnersEmptied ==
  ASSUME OwnersInv, DBDriverTypeOK', NEW d \in Drivers, Construct(d) \/ DestroyDriver(d)
  PROVE  OwnersInv'
  <1> USE DEF OwnersInv, DBDriverTypeOK
  <1>1. /\ id' = [id EXCEPT ![d] = 0] /\ session' = [session EXCEPT ![d] = 0]
        /\ globalId' = globalId /\ drivers' \ {d} = drivers \ {d}
    BY DEF Construct, DestroyDriver
  <1>2. globalId \in Nat \ {0}
    OBVIOUS
  <1>3. IdsBelow' /\ IdsDistinct'
    BY <1>1, <1>2 DEF IdsBelow, IdsDistinct
  <1>4. SessionHasId'
    BY <1>1 DEF SessionHasId
  <1>5. AliveIsHeld'
    <2> SUFFICES ASSUME NEW s \in alive'
                 PROVE  \E e \in drivers' : session'[e] = s
      BY DEF AliveIsHeld
    <2>1. s \in alive /\ s # 0 /\ (d \in drivers => s # session[d])
      BY DEF Construct, DestroyDriver, Sessions
    <2>2. PICK e \in drivers : session[e] = s
      BY <2>1 DEF AliveIsHeld
    <2>3. e # d
      BY <2>1, <2>2
    <2> QED BY <1>1, <2>2, <2>3
  <1> QED BY <1>3, <1>4, <1>5

\* Identities and owners are kept by every step.
LEMMA OwnersStep == OwnersInv /\ [DBDriverNext]_dbVars => OwnersInv'
  <1> SUFFICES ASSUME OwnersInv, [DBDriverNext]_dbVars PROVE OwnersInv'
    OBVIOUS
  <1>1. DBDriverTypeOK'
    BY TypeStep DEF OwnersInv
  <1>2. CASE StatementStep \/ UNCHANGED dbVars
    <2>1. UNCHANGED <<drivers, id, globalId, session, alive>>
      BY <1>2 DEF StatementStep, MakeStatement, Prepare, DestroyStatement, MoveStatement,
                  AssignStatement, dbVars, driverVars
    <2> QED BY <1>1, <2>1, OwnersUnchanged
  <1>3. CASE DriverStep
    <2>1. ASSUME NEW d \in Drivers, changeUser(d) PROVE OwnersInv'
      BY <1>1, <2>1, OwnersUnchanged DEF changeUser
    <2>2. ASSUME NEW s \in Sessions, ServerDrops(s) PROVE OwnersInv'
      BY <1>1, <2>2
      DEF ServerDrops, OwnersInv, IdsBelow, IdsDistinct, SessionHasId, AliveIsHeld
    <2> QED
      BY <1>1, <1>3, <2>1, <2>2, OwnersConnect, OwnersMakeConnection, OwnersMove,
         OwnersEmptied
      DEF DriverStep
  <1> QED BY <1>2, <1>3, StepKinds

\* The invariant of ids and owners.
THEOREM OwnersCorrect == DBDriverSpec => []OwnersInv
  BY OwnersInit, OwnersStep, PTL DEF DBDriverSpec

\* operator== of DBDriver compares ids: no two drivers that are connected are equal,
\* and a connection is known by the id of its driver.
THEOREM IdsIdentify == DBDriverSpec => []IdsAreIdentities
  <1>1. OwnersInv => IdsAreIdentities
    BY DEF OwnersInv, DBDriverTypeOK, IdsDistinct, SessionHasId, IdsAreIdentities
  <1> QED BY <1>1, OwnersCorrect, PTL

\* Whatever is moved, connected anew, refused and destroyed, each connection of the
\* server is held by one driver, which will close it.
THEOREM OneOwnerEach == DBDriverSpec => []OneOwner
  <1>1. ASSUME OwnersInv PROVE OneOwner
    <2> SUFFICES ASSUME NEW s \in alive
                 PROVE  \E d \in drivers :
                          session[d] = s /\ \A e \in drivers : session[e] = s => e = d
      BY DEF OneOwner
    <2>1. PICK d \in drivers : session[d] = s
      BY <1>1 DEF OwnersInv, AliveIsHeld
    <2>2. s # 0
      BY <1>1 DEF OwnersInv, DBDriverTypeOK, Sessions
    <2>3. \A e \in drivers : session[e] = s => id[e] = s
      BY <1>1, <2>2 DEF OwnersInv, DBDriverTypeOK, SessionHasId
    <2>4. \A e \in drivers : session[e] = s => e = d
      BY <1>1, <2>1, <2>2, <2>3 DEF OwnersInv, DBDriverTypeOK, IdsDistinct
    <2> QED BY <2>1, <2>4
  <1> QED BY <1>1, OwnersCorrect, PTL

-----------------------------------------------------------------------------
(* The owners of statement handles.                                        *)

\* No two Statement objects have one handle.
PointersDistinct ==
  \A s, t \in StmtObjects : statementPtr[s] = statementPtr[t] /\ statementPtr[s] # 0 => s = t

\* Handles that were not initialized yet are as mysql_stmt_init will give them.
FreshHandles ==
  /\ \A s \in StmtObjects : statementPtr[s] <= used
  /\ \A h \in Handles : h > used => closed[h] = 0 /\ prepared[h] = 0

\* A handle is open in somebody's hand, or closed in nobody's.
OpenIffHeld ==
  \A h \in 1 .. used \ reported :
    \/ closed[h] = 0 /\ \E s \in StmtObjects : statementPtr[s] = h
    \/ closed[h] = 1 /\ \A s \in StmtObjects : statementPtr[s] # h

HandlesInv == DBDriverTypeOK /\ PointersDistinct /\ FreshHandles /\ OpenIffHeld

\* There are no handles at the start.
LEMMA HandlesInit == DBDriverInit => HandlesInv
  <1> SUFFICES ASSUME DBDriverInit PROVE HandlesInv
    OBVIOUS
  <1>1. DBDriverTypeOK
    BY TypeInit
  <1> QED
    BY <1>1 DEF DBDriverInit, HandlesInv, PointersDistinct, FreshHandles, OpenIffHeld, Handles

\* A new handle is in one hand.
LEMMA HandlesMake ==
  ASSUME HandlesInv, DBDriverTypeOK',
         NEW s \in StmtObjects, NEW d \in Drivers, MakeStatement(s, d)
  PROVE  HandlesInv'
  <1> USE DEF HandlesInv, DBDriverTypeOK
  <1>1. /\ statementPtr' = [statementPtr EXCEPT ![s] = used + 1] /\ used' = used + 1
        /\ statementPtr[s] = 0
        /\ UNCHANGED <<closed, prepared, reported>>
    BY DEF MakeStatement, Free, driverHistory
  <1>2. used \in Nat /\ \A t \in StmtObjects : statementPtr[t] \in Nat
    BY DBDriverAssumption
  <1>3. used + 1 \in Handles
    BY DBDriverAssumption DEF MakeStatement, Handles
  <1>4. PointersDistinct'
    BY <1>1, <1>2 DEF PointersDistinct, FreshHandles
  <1>5. FreshHandles'
    BY <1>1, <1>2 DEF FreshHandles, Handles
  <1>6. OpenIffHeld'
    <2> SUFFICES ASSUME NEW h \in 1 .. used + 1, h \notin reported
                 PROVE  \/ closed[h] = 0 /\ \E t \in StmtObjects : statementPtr'[t] = h
                        \/ closed[h] = 1 /\ \A t \in StmtObjects : statementPtr'[t] # h
      BY <1>1 DEF OpenIffHeld
    <2>1. CASE h = used + 1
      BY <1>1, <1>2, <1>3, <2>1 DEF FreshHandles
    <2>2. CASE h # used + 1
      <3>1. h \in 1 .. used \ reported
        BY <1>2, <2>2
      <3>2. CASE closed[h] = 0 /\ \E t \in StmtObjects : statementPtr[t] = h
        <4>1. PICK t \in StmtObjects : statementPtr[t] = h
          BY <3>2
        <4>2. t # s
          BY <1>1, <4>1
        <4> QED BY <1>1, <3>2, <4>1, <4>2
      <3>3. CASE closed[h] = 1 /\ \A t \in StmtObjects : statementPtr[t] # h
        BY <1>1, <2>2, <3>3
      <3> QED BY <3>1, <3>2, <3>3 DEF OpenIffHeld
    <2> QED BY <2>1, <2>2
  <1> QED BY <1>4, <1>5, <1>6

\* A move hands the handle over.
LEMMA HandlesMove ==
  ASSUME HandlesInv, DBDriverTypeOK',
         NEW s \in StmtObjects, NEW other \in StmtObjects, MoveStatement(s, other)
  PROVE  HandlesInv'
  <1> USE DEF HandlesInv, DBDriverTypeOK
  <1>1. /\ s # other /\ statementPtr[s] = 0
        /\ statementPtr'[s] = statementPtr[other] /\ statementPtr'[other] = 0
        /\ \A t \in StmtObjects \ {s, other} : statementPtr'[t] = statementPtr[t]
        /\ UNCHANGED <<used, closed, prepared, reported>>
    BY DEF MoveStatement, Free, driverHistory
  <1>2. PointersDistinct'
    BY <1>1 DEF PointersDistinct
  <1>3. FreshHandles'
    BY <1>1 DEF FreshHandles
  <1>4. OpenIffHeld'
    <2> SUFFICES ASSUME NEW h \in 1 .. used, h \notin reported
                 PROVE  \/ closed[h] = 0 /\ \E t \in StmtObjects : statementPtr'[t] = h
                        \/ closed[h] = 1 /\ \A t \in StmtObjects : statementPtr'[t] # h
      BY <1>1 DEF OpenIffHeld
    <2>1. CASE closed[h] = 0 /\ \E t \in StmtObjects : statementPtr[t] = h
      <3>1. PICK t \in StmtObjects : statementPtr[t] = h
        BY <2>1
      <3>2. statementPtr'[IF t = other THEN s ELSE t] = h
        BY <1>1, <3>1
      <3> QED BY <2>1, <3>2
    <2>2. CASE closed[h] = 1 /\ \A t \in StmtObjects : statementPtr[t] # h
      <3>1. \A t \in StmtObjects : statementPtr'[t] # h
        <4> TAKE t \in StmtObjects
        <4> QED BY <1>1, <2>2
      <3> QED BY <2>2, <3>1
    <2> QED BY <2>1, <2>2 DEF OpenIffHeld
  <1> QED BY <1>2, <1>3, <1>4

\* The destructor, and an assignment that goes well, close what the object had, and
\* give it what it did not have before.
LEMMA HandlesClose ==
  ASSUME HandlesInv, DBDriverTypeOK',
         NEW s \in StmtObjects, NEW other \in StmtObjects, statementPtr[s] # 0,
         \/ /\ s # other
            /\ statementPtr' = [statementPtr EXCEPT ![s] = statementPtr[other], ![other] = 0]
         \/ statementPtr' = [statementPtr EXCEPT ![s] = 0],
         closed' = [closed EXCEPT ![statementPtr[s]] = @ + 1],
         UNCHANGED <<used, prepared, reported>>
  PROVE  HandlesInv'
  <1> USE DEF HandlesInv, DBDriverTypeOK
  <1> DEFINE c == statementPtr[s]
  <1>1. c \in Handles /\ c \in 1 .. used
    BY DBDriverAssumption, PointerType DEF FreshHandles
  <1>2. \A t \in StmtObjects \ {s} : statementPtr[t] # c
    BY DEF PointersDistinct
  <1>3. \A t \in StmtObjects : statementPtr'[t] # c
    BY <1>2, statementPtr[s] # 0
  <1>4. PointersDistinct'
    BY DEF PointersDistinct
  <1>5. FreshHandles'
    <2>1. \A t \in StmtObjects : statementPtr'[t] <= used
      BY DBDriverAssumption DEF FreshHandles
    <2>2. \A h \in Handles : h > used => closed'[h] = 0
      BY <1>1 DEF FreshHandles, Handles
    <2> QED BY <2>1, <2>2 DEF FreshHandles
  <1>6. OpenIffHeld'
    <2> SUFFICES ASSUME NEW h \in 1 .. used, h \notin reported
                 PROVE  \/ closed'[h] = 0 /\ \E t \in StmtObjects : statementPtr'[t] = h
                        \/ closed'[h] = 1 /\ \A t \in StmtObjects : statementPtr'[t] # h
      BY DEF OpenIffHeld
    <2>0. h \in Handles
      BY DBDriverAssumption DEF Handles
    <2>1. CASE h = c
      <3>1. closed[h] = 0
        BY <2>1 DEF OpenIffHeld
      <3> QED BY <1>3, <2>0, <2>1, <3>1
    <2>2. CASE h # c
      <3>1. closed'[h] = closed[h]
        BY <2>0, <2>2
      <3>2. CASE closed[h] = 0 /\ \E t \in StmtObjects : statementPtr[t] = h
        <4>1. PICK t \in StmtObjects : statementPtr[t] = h
          BY <3>2
        <4>2. t # s
          BY <2>2, <4>1
        <4>3. \E w \in StmtObjects : statementPtr'[w] = h
          BY <4>1, <4>2
        <4> QED BY <3>1, <3>2, <4>3
      <3>3. CASE closed[h] = 1 /\ \A t \in StmtObjects : statementPtr[t] # h
        <4>1. \A t \in StmtObjects : statementPtr'[t] # h
          <5> TAKE t \in StmtObjects
          <5>1. h # 0
            OBVIOUS
          <5> QED BY <3>3, <5>1
        <4> QED BY <3>1, <3>3, <4>1
      <3> QED BY <3>2, <3>3 DEF OpenIffHeld
    <2> QED BY <2>1, <2>2
  <1> QED BY <1>4, <1>5, <1>6

\* An assignment whose close fails leaves the pointer, and is reported.
LEMMA HandlesReport ==
  ASSUME HandlesInv, DBDriverTypeOK', NEW s \in StmtObjects, statementPtr[s] # 0,
         closed' = [closed EXCEPT ![statementPtr[s]] = @ + 1],
         reported' = reported \cup {statementPtr[s]},
         UNCHANGED <<used, prepared, statementPtr>>
  PROVE  HandlesInv'
  <1> USE DEF HandlesInv, DBDriverTypeOK
  <1>1. statementPtr[s] \in Handles /\ statementPtr[s] \in 1 .. used
    BY DBDriverAssumption, PointerType DEF FreshHandles
  <1>2. PointersDistinct'
    BY DEF PointersDistinct
  <1>3. FreshHandles'
    BY <1>1 DEF FreshHandles, Handles
  <1>4. OpenIffHeld'
    <2>1. \A h \in 1 .. used \ reported' : h \in 1 .. used \ reported /\ closed'[h] = closed[h]
      BY DBDriverAssumption DEF Handles
    <2> QED BY <2>1 DEF OpenIffHeld
  <1> QED BY <1>2, <1>3, <1>4

\* The handles' owners are kept by every step.
LEMMA HandlesStep == HandlesInv /\ [DBDriverNext]_dbVars => HandlesInv'
  <1> SUFFICES ASSUME HandlesInv, [DBDriverNext]_dbVars PROVE HandlesInv'
    OBVIOUS
  <1>1. DBDriverTypeOK'
    BY TypeStep DEF HandlesInv
  <1>2. ASSUME UNCHANGED <<statementPtr, used, closed, reported>>,
               UNCHANGED prepared \/ \E s \in StmtObjects : Prepare(s)
        PROVE  HandlesInv'
    <2>1. PointersDistinct' /\ OpenIffHeld'
      BY <1>2 DEF HandlesInv, PointersDistinct, OpenIffHeld
    <2>2. FreshHandles'
      <3>1. CASE UNCHANGED prepared
        BY <1>2, <3>1 DEF HandlesInv, FreshHandles
      <3>2. ASSUME NEW s \in StmtObjects, Prepare(s) PROVE FreshHandles'
        <4>1. statementPtr[s] \in Handles
          BY <3>2, PointerType DEF Prepare, HandlesInv
        <4>2. \A h \in Handles : h > used => h # statementPtr[s]
          BY <4>1 DEF HandlesInv, FreshHandles, DBDriverTypeOK, Handles
        <4> QED BY <1>2, <3>2, <4>1, <4>2 DEF Prepare, HandlesInv, FreshHandles, DBDriverTypeOK
      <3> QED BY <1>2, <3>1, <3>2
    <2> QED BY <1>1, <2>1, <2>2 DEF HandlesInv
  <1>3. CASE DriverStep \/ UNCHANGED dbVars
    <2>1. UNCHANGED <<statementPtr, used, closed, reported, prepared>>
      BY <1>3
      DEF DriverStep, Construct, changeUser, DestroyDriver, Connect, MakeConnection,
          MoveDriver, ServerDrops, dbVars, stmtVars, driverHistory
    <2> QED BY <1>2, <2>1
  <1>4. CASE StatementStep
    <2>1. ASSUME NEW s \in StmtObjects, Prepare(s) PROVE HandlesInv'
      <3>1. UNCHANGED <<statementPtr, used, closed, reported>>
        BY <2>1 DEF Prepare, driverHistory
      <3> QED BY <1>2, <2>1, <3>1
    <2>2. ASSUME NEW s \in StmtObjects, DestroyStatement(s) PROVE HandlesInv'
      BY <1>1, <2>2, HandlesClose DEF DestroyStatement, Close, Free, driverHistory
    <2>3. ASSUME NEW s \in StmtObjects, NEW other \in StmtObjects, AssignStatement(s, other)
          PROVE  HandlesInv'
      BY <1>1, <2>3, HandlesClose, HandlesReport DEF AssignStatement, Close, Free
    <2> QED BY <1>1, <1>4, <2>1, <2>2, <2>3, HandlesMake, HandlesMove DEF StatementStep
  <1> QED BY <1>3, <1>4, StepKinds

\* The invariant of the handles' owners.
THEOREM HandlesCorrect == DBDriverSpec => []HandlesInv
  BY HandlesInit, HandlesStep, PTL DEF DBDriverSpec

\* Through moves and assignments of Statement objects no handle is closed twice and
\* none is lost, but for those whose close reported an error.
THEOREM HandlesClosedOnce == DBDriverSpec => []ClosedOnce
  <1>1. ASSUME HandlesInv PROVE ClosedOnce
    <2> SUFFICES ASSUME NEW h \in 1 .. used \ reported
                 PROVE  Cardinality({s \in StmtObjects : statementPtr[s] = h}) = 1 - closed[h]
      BY DEF ClosedOnce
    <2>1. h # 0
      BY <1>1 DEF HandlesInv, DBDriverTypeOK
    <2>2. CASE closed[h] = 0 /\ \E s \in StmtObjects : statementPtr[s] = h
      <3>1. PICK s \in StmtObjects : statementPtr[s] = h
        BY <2>2
      <3>2. {t \in StmtObjects : statementPtr[t] = h} = {s}
        BY <1>1, <2>1, <3>1 DEF HandlesInv, PointersDistinct
      <3>3. Cardinality({s}) = 1
        BY FS_Singleton
      <3> QED BY <2>2, <3>2, <3>3
    <2>3. CASE closed[h] = 1 /\ \A s \in StmtObjects : statementPtr[s] # h
      <3>1. {t \in StmtObjects : statementPtr[t] = h} = {}
        BY <2>3
      <3> QED BY <2>3, <3>1, FS_EmptySet
    <2> QED BY <1>1, <2>2, <2>3 DEF HandlesInv, OpenIffHeld
  <1> QED BY <1>1, HandlesCorrect, PTL

-----------------------------------------------------------------------------
(* Where the handles point to.                                             *)

FollowInv == OwnersInv /\ HandlesInv /\ StatementsFollow

\* The driver actions close and prepare no handle; a handle whose structure they
\* give up is detached from it, or was moved.
LEMMA FollowDriverStep ==
  ASSUME FollowInv, OwnersInv', DriverStep
  PROVE  StatementsFollow'
  <1> USE DEF FollowInv, OwnersInv, DBDriverTypeOK
  <1>1. UNCHANGED <<used, prepared, closed>> /\ moved \subseteq moved'
    BY DEF DriverStep, Construct, changeUser, DestroyDriver, Connect, MakeConnection,
           MoveDriver, ServerDrops, stmtVars, driverHistory
  <1> SUFFICES ASSUME NEW h \in 1 .. used, h \notin moved', closed[h] = 0,
                      mysql'[h] # "none"
               PROVE  /\ mysql'[h] \in drivers'
                      /\ h \in list'[mysql'[h]]
                      /\ prepared[h] \in {0, session'[mysql'[h]]}
    BY <1>1 DEF StatementsFollow
  <1> DEFINE m == mysql[h]
  <1>2. h \in Handles
    BY DBDriverAssumption DEF Handles
  <1>3. m # "none" => m \in drivers /\ h \in list[m] /\ prepared[h] \in {0, session[m]}
    BY <1>1 DEF StatementsFollow
  <1>4. ASSUME NEW d \in Drivers, Construct(d)
        PROVE  /\ mysql'[h] \in drivers'
               /\ h \in list'[mysql'[h]]
               /\ prepared[h] \in {0, session'[mysql'[h]]}
    BY <1>3, <1>4 DEF Construct, stmtVars
  <1>5. ASSUME NEW d \in Drivers, changeUser(d) \/ DestroyDriver(d)
        PROVE  /\ mysql'[h] \in drivers'
               /\ h \in list'[mysql'[h]]
               /\ prepared[h] \in {0, session'[mysql'[h]]}
    <2>1. h \notin list[d] /\ mysql'[h] = m
      BY <1>2, <1>5 DEF changeUser, DestroyDriver, Detached
    <2>2. m # d
      BY <1>3, <2>1
    <2> QED BY <1>3, <1>5, <2>1, <2>2 DEF changeUser, DestroyDriver
  <1>6. ASSUME NEW d \in Drivers, NEW succeeds \in BOOLEAN, Connect(d, succeeds)
        PROVE  /\ mysql'[h] \in drivers'
               /\ h \in list'[mysql'[h]]
               /\ prepared[h] \in {0, session'[mysql'[h]]}
    <2>1. CASE isConnected(d)
      <3>1. h \notin list[d] /\ mysql'[h] = m
        BY <1>2, <1>6, <2>1 DEF Connect, Detached
      <3>2. m # d
        BY <1>3, <3>1
      <3> QED BY <1>3, <1>6, <2>1, <3>1, <3>2 DEF Connect
    <2>2. CASE ~isConnected(d)
      <3>1. session[d] = 0
        BY <2>2 DEF isConnected, SessionHasId
      <3>2. mysql' = mysql /\ list' = list /\ drivers' = drivers
        BY <1>6, <2>2 DEF Connect
      <3>3. CASE m = d
        BY <1>3, <3>1, <3>2, <3>3
      <3>4. CASE m # d
        <4>1. session'[m] = session[m]
          BY <1>3, <1>6, <3>2, <3>4 DEF Connect
        <4> QED BY <1>3, <3>2, <4>1
      <3> QED BY <3>3, <3>4
    <2> QED BY <2>1, <2>2
  <1>7. ASSUME NEW d \in Drivers, NEW succeeds \in BOOLEAN, MakeConnection(d, succeeds)
        PROVE  /\ mysql'[h] \in drivers'
               /\ h \in list'[mysql'[h]]
               /\ prepared[h] \in {0, session'[mysql'[h]]}
    <2>1. m \in drivers /\ m # d /\ mysql' = mysql /\ m \in Drivers
      BY <1>3, <1>7 DEF MakeConnection, stmtVars
    <2>2. m \in drivers' /\ list'[m] = list[m] /\ session'[m] = session[m]
      BY <1>7, <2>1 DEF MakeConnection
    <2> QED BY <1>3, <2>1, <2>2
  <1>8. ASSUME NEW d \in Drivers, NEW other \in Drivers, MoveDriver(d, other)
        PROVE  /\ mysql'[h] \in drivers'
               /\ h \in list'[mysql'[h]]
               /\ prepared[h] \in {0, session'[mysql'[h]]}
    <2>1. m \in drivers /\ m # d /\ m # other /\ mysql' = mysql /\ m \in Drivers
      BY <1>3, <1>8 DEF MoveDriver, stmtVars
    <2>2. m \in drivers' /\ list'[m] = list[m] /\ session'[m] = session[m]
      BY <1>8, <2>1 DEF MoveDriver
    <2> QED BY <1>3, <2>1, <2>2
  <1>9. ASSUME NEW s \in Sessions, ServerDrops(s)
        PROVE  /\ mysql'[h] \in drivers'
               /\ h \in list'[mysql'[h]]
               /\ prepared[h] \in {0, session'[mysql'[h]]}
    BY <1>3, <1>9 DEF ServerDrops, stmtVars
  <1> QED BY <1>4, <1>5, <1>6, <1>7, <1>8, <1>9 DEF DriverStep

\* A new handle is in its structure's list, a closed one in nobody's sight.
LEMMA FollowStatementStep ==
  ASSUME FollowInv, HandlesInv', StatementStep
  PROVE  StatementsFollow'
  <1> USE DEF FollowInv, OwnersInv, DBDriverTypeOK
  <1>1. UNCHANGED <<drivers, session, moved>>
    BY DEF StatementStep, MakeStatement, Prepare, DestroyStatement, MoveStatement,
           AssignStatement, driverVars, driverHistory
  <1>2. ASSUME NEW s \in StmtObjects, NEW d \in Drivers, MakeStatement(s, d)
        PROVE  StatementsFollow'
    <2> SUFFICES ASSUME NEW h \in 1 .. used + 1, h \notin moved, closed[h] = 0,
                        mysql'[h] # "none"
                 PROVE  /\ mysql'[h] \in drivers
                        /\ h \in list'[mysql'[h]]
                        /\ prepared[h] \in {0, session[mysql'[h]]}
      BY <1>1, <1>2 DEF MakeStatement, StatementsFollow
    <2>1. used \in Nat /\ used + 1 \in Handles /\ h \in Handles
      BY <1>2, DBDriverAssumption DEF MakeStatement, Handles
    <2>2. CASE h = used + 1
      <3>1. mysql'[h] = d /\ h \in list'[d] /\ prepared[h] = 0 /\ d \in drivers
        BY <1>2, <2>1, <2>2 DEF MakeStatement, HandlesInv, FreshHandles
      <3> QED BY <3>1
    <2>3. CASE h # used + 1
      <3>1. h \in 1 .. used /\ mysql'[h] = mysql[h] /\ mysql[h] \in Drivers
        BY <1>2, <2>1, <2>3 DEF MakeStatement
      <3>2. list[mysql[h]] \subseteq list'[mysql[h]]
        BY <1>2, <3>1 DEF MakeStatement
      <3> QED BY <3>1, <3>2 DEF StatementsFollow
    <2> QED BY <2>2, <2>3
  <1>3. ASSUME NEW s \in StmtObjects, Prepare(s) PROVE StatementsFollow'
    <2>1. statementPtr[s] \in Handles
      BY <1>3, PointerType DEF Prepare
    <2>2. prepared' = [prepared EXCEPT ![statementPtr[s]] = session[mysql[statementPtr[s]]]]
      BY <1>3 DEF Prepare
    <2> QED BY <1>1, <1>3, <2>1, <2>2 DEF Prepare, StatementsFollow, driverVars
  <1>4. ASSUME NEW s \in StmtObjects, NEW other \in StmtObjects, MoveStatement(s, other)
        PROVE  StatementsFollow'
    BY <1>4 DEF MoveStatement, StatementsFollow, driverVars, driverHistory
  <1>5. ASSUME NEW s \in StmtObjects, statementPtr[s] # 0, Close(statementPtr[s]),
               UNCHANGED <<used, mysql, prepared>>
        PROVE  StatementsFollow'
    <2> SUFFICES ASSUME NEW h \in 1 .. used, h \notin moved, closed'[h] = 0, mysql[h] # "none"
                 PROVE  /\ mysql[h] \in drivers
                        /\ h \in list'[mysql[h]]
                        /\ prepared[h] \in {0, session[mysql[h]]}
      BY <1>1, <1>5 DEF StatementsFollow
    <2>1. h \in Handles /\ statementPtr[s] \in Handles /\ mysql[h] \in Drivers
      BY <1>5, PointerType, DBDriverAssumption DEF Handles
    <2>2. h # statementPtr[s]
      BY <1>5, <2>1 DEF Close
    <2>3. closed[h] = 0
      BY <1>5, <2>1, <2>2 DEF Close
    <2>4. mysql[h] \in drivers /\ h \in list[mysql[h]] /\ prepared[h] \in {0, session[mysql[h]]}
      BY <2>3 DEF StatementsFollow
    <2>5. h \in list'[mysql[h]]
      BY <1>5, <2>1, <2>2, <2>4 DEF Close
    <2> QED BY <2>4, <2>5
  <1> QED
    BY <1>2, <1>3, <1>4, <1>5
    DEF StatementStep, DestroyStatement, AssignStatement, Free

\* Where the handles point to is kept by every step.
LEMMA FollowStep == FollowInv /\ [DBDriverNext]_dbVars => FollowInv'
  <1> SUFFICES ASSUME FollowInv, [DBDriverNext]_dbVars PROVE FollowInv'
    OBVIOUS
  <1>1. OwnersInv' /\ HandlesInv'
    BY OwnersStep, HandlesStep DEF FollowInv
  <1>2. CASE UNCHANGED dbVars
    BY <1>1, <1>2
    DEF FollowInv, StatementsFollow, dbVars, driverVars, stmtVars, driverHistory
  <1>3. CASE DriverStep
    BY <1>1, <1>3, FollowDriverStep DEF FollowInv
  <1>4. CASE StatementStep
    BY <1>1, <1>4, FollowStatementStep DEF FollowInv
  <1> QED BY <1>2, <1>3, <1>4, StepKinds

\* An open handle points to a driver that lists it and on whose connection it was
\* prepared, or to none, unless that driver was moved: no handle outlives the
\* structure it points to.
THEOREM HandlesFollow == DBDriverSpec => []StatementsFollow
  <1>1. DBDriverInit => FollowInv
    <2> SUFFICES ASSUME DBDriverInit PROVE FollowInv
      OBVIOUS
    <2>1. StatementsFollow
      BY DEF DBDriverInit, StatementsFollow
    <2> QED BY <2>1, OwnersInit, HandlesInit DEF FollowInv
  <1>2. FollowInv => StatementsFollow
    BY DEF FollowInv
  <1> QED BY <1>1, <1>2, FollowStep, PTL DEF DBDriverSpec

-----------------------------------------------------------------------------
(* The connection as a whole.                                               *)

\* Either part keeps its own invariant and leaves the other alone.
LEMMA ConnectionStep ==
  DBDriverTypeOK /\ SessionInv /\ [MCNext]_<<kind, sessionVars, dbVars>>
    => DBDriverTypeOK' /\ SessionInv'
  <1> SUFFICES ASSUME DBDriverTypeOK, SessionInv, [MCNext]_<<kind, sessionVars, dbVars>>
               PROVE  DBDriverTypeOK' /\ SessionInv'
    OBVIOUS
  <1>1. [DBDriverNext]_dbVars /\ [SessionNext]_sessionVars
    BY DEF MCNext
  <1> QED BY <1>1, TypeStep, SessionInvStep

\* Everything that the objects on a connection keep has its type: what the drivers
\* and statements own, and what queries, results and transactions remember.
THEOREM ConnectionTypes == MCSpec => []ConnectionTypeOK
  <1>1. MCInit => DBDriverTypeOK /\ SessionInv
    BY TypeInit, SessionInvInit DEF MCInit
  <1>2. DBDriverTypeOK /\ SessionInv => ConnectionTypeOK
    BY NestedTypes DEF SessionInv, ConnectionTypeOK
  <1> QED BY <1>1, <1>2, ConnectionStep, PTL DEF MCSpec
=============================================================================
