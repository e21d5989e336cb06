-------------------------- MODULE MasterSlavePools --------------------------
(***************************************************************************)
(* master_slave_connection_pools.hpp: a master pool and a map of slave     *)
(* pools.  Its calls construct, move and destroy pools with everything     *)
(* that PoolLifecycle says of that.                                        *)
(***************************************************************************)
EXTENDS PoolLifecycle, ConcatIterator, SequencesExt

CONSTANTS
  Master,    \* the memory of the master pool
  SlaveIds,  \* numbers, which the map orders
  Free,      \* no pool
  MaxOwn     \* bound: pools and remains of pools that are not in the group

ASSUME MasterSlaveAssumption ==
  Master \in Objects /\ SlaveIds \subseteq Nat /\ Free \notin Objects /\ MaxOwn \in Nat

VARIABLE slaves  \* for each id its pool or Free

msVars == <<lifeVars, slaves>>

\* The step of a call that puts a pool into the map.
Insertions == [op : {"insert"}, id : SlaveIds, o : Objects]

MasterSlaveTypeOK ==
  /\ LifecycleTypeOK
  /\ todo \in Seq(Steps \cup Insertions)
  /\ slaves \in [SlaveIds -> Objects \cup {Free}]

\* The constructor makes the master pool.
MasterSlaveInit ==
  /\ LifecycleInit
  /\ slaves = [i \in SlaveIds |-> Free]

Ids == {i \in SlaveIds : slaves[i] # Free}
Pooled == {slaves[i] : i \in Ids}
Own == {o \in Objects \ (Pooled \cup {Master}) : base[o] # "none"}

\* Fault: the two halves of the pair are swapped.
InsertSwapped(id, o) == <<[op |-> "insert", id |-> o, o |-> id]>>

InsertStep(id, o) == <<[op |-> "insert", id |-> id, o |-> o]>>

\* emplaceSlavePool() of a pool: the node is made from it before the map is asked.
\* A pool is moved into the node even if the id is taken.
CallEmplace(id, node, from) ==
  /\ Idle /\ base[Master] = "here"
  /\ base[node] = "none" /\ node # Master
  /\ from \in Own /\ base[from] = "here"
  /\ todo' = Move(node, from) \o InsertStep(id, node)
  /\ UNCHANGED <<base, enabled, thread, settings, terminated, wanted, chosen, arrived, slaves>>

\* addSlavePool(): the pool goes through a pair.
CallAdd(id, node, pair, from) ==
  /\ Idle /\ base[Master] = "here"
  /\ Cardinality({node, pair, Master}) = 3 /\ {base[node], base[pair]} = {"none"}
  /\ from \in Own /\ base[from] = "here"
  /\ todo' = Move(pair, from) \o Move(node, pair) \o InsertStep(id, node) \o Destroy(pair)
  /\ UNCHANGED <<base, enabled, thread, settings, terminated, wanted, chosen, arrived, slaves>>

\* The map takes the node, or the node is destroyed and the call throws: the pool
\* is lost to the caller too.
StepInsert ==
  /\ todo # <<>> /\ Now.op = "insert" /\ ~terminated
  /\ IF slaves[Now.id] = Free
     THEN slaves' = [slaves EXCEPT ![Now.id] = Now.o] /\ todo' = Tail(todo)
     ELSE todo' = Destroy(Now.o) \o Tail(todo) /\ UNCHANGED slaves
  /\ UNCHANGED <<base, enabled, thread, settings, terminated, wanted, chosen, arrived>>

\* Fault: the pool is destroyed, and stays in the map.
EraseKeepsNode(id) ==
  /\ Idle /\ slaves[id] # Free
  /\ todo' = Destroy(slaves[id])
  /\ UNCHANGED <<base, enabled, thread, settings, terminated, wanted, chosen, arrived, slaves>>

\* eraseSlavePool(), which throws and does nothing for an id that is not there.
CallErase(id) ==
  /\ Idle /\ slaves[id] # Free
  /\ slaves' = [slaves EXCEPT ![id] = Free]
  /\ todo' = Destroy(slaves[id])
  /\ UNCHANGED <<base, enabled, thread, settings, terminated, wanted, chosen, arrived>>

\* The calls of PoolLifecycle: any pool may be started, stopped and set through a
\* reference; only the user's own are moved and destroyed by him.
PoolCall ==
  /\ \/ \E o \in Objects : Construct(o) /\ (o = Master \/ Cardinality(Own) < MaxOwn)
     \/ \E o \in Objects, j \in Jobs : CallStart(o, j) \/ CallStop(o, j)
     \/ \E o \in Objects, s \in Settings : Choose(o, s)
     \/ \E o \in Objects \ {Master}, from \in Own : CallMove(o, from)
     \/ \E o \in Own : CallDestroy(o)
  /\ UNCHANGED slaves

MasterSlaveNext ==
  \/ PoolCall
  \/ \E id \in SlaveIds, node, from \in Objects : CallEmplace(id, node, from)
  \/ \E id \in SlaveIds, node, pair, from \in Objects : CallAdd(id, node, pair, from)
  \/ \E id \in SlaveIds : CallErase(id)
  \/ StepInsert
  \/ CallStep /\ UNCHANGED slaves
  \/ \E o \in Objects, j \in Jobs : (JobEnds(o, j) \/ JobFails(o, j)) /\ UNCHANGED slaves

MasterSlaveSpec == MasterSlaveInit /\ [][MasterSlaveNext]_msVars

-----------------------------------------------------------------------------
(* Look-ups and iteration.                                                  *)

\* The map's order.
SlaveSeq ==
  CHOOSE s \in [1 .. Cardinality(Ids) -> Ids] : \A i, j \in DOMAIN s : i < j => s[i] < s[j]

\* getSlavePoolRef(): the first slave, or the master.
getSlavePoolRef == IF Ids = {} THEN Master ELSE slaves[SlaveSeq[1]]

\* getSlavePoolRef(id), which throws where this is Free.
getSlavePoolRefOf(id) == slaves[id]

getSlaveOrMasterPoolRef(id) == IF slaves[id] = Free THEN Master ELSE slaves[id]

size == Cardinality(Ids) + 1

\* A loop from begin() to end().
Iteration ==
  LET items == Visited(1, Len(SlaveSeq))
  IN  [n \in DOMAIN items |-> IF items[n][1] = 1 THEN Master ELSE slaves[SlaveSeq[items[n][2]]]]

-----------------------------------------------------------------------------

\* Whatever was added, refused and erased, a loop over the pools meets the master
\* and then every slave, each one once and alive, as many as size() says, and the
\* look-ups find only these.
IterationVisitsAll ==
  Idle /\ base[Master] = "here" =>
    /\ Len(Iteration) = size
    /\ Iteration[1] = Master
    /\ Cardinality(ToSet(Iteration)) = size
    /\ \A o \in ToSet(Iteration) : base[o] = "here"
    /\ getSlavePoolRef \in ToSet(Iteration)
    /\ \A id \in SlaveIds : /\ getSlaveOrMasterPoolRef(id) \in ToSet(Iteration)
                            /\ getSlavePoolRefOf(id) \in ToSet(Iteration) \cup {Free}
=============================================================================
