-------------------------- MODULE SharedPtrPoolBase --------------------------
(***************************************************************************)
(* The pool of shared resources of shared_ptr_pool/base.hpp: a vector of   *)
(* items {valid, shared_ptr}, the index the next search starts from, a     *)
(* mutex and a population number.                                          *)
(*                                                                         *)
(* The pool lends by copying a shared_ptr and learns of a return from      *)
(* use_count() alone, which changes outside the mutex.  So the model keeps *)
(* the owners of every resource: the pool's own item, a user's call, and   *)
(* the background threads.  One step is one critical section of poolMutex, *)
(* except in get(), where the search and the copy of the shared_ptr it     *)
(* returns are separate steps: a weak_ptr can be locked between the two.   *)
(* A scan of the vector is one step; a release that lands inside it counts *)
(* as before or after it.                                                  *)
(***************************************************************************)
EXTENDS Integers, Sequences, FiniteSets

CONSTANTS
  Resources,      \* resources that can exist at a time: what the server accepts
  Users,          \* calls of user threads, each borrowing one resource at a time
  None,           \* no user, no resource
  PopulationIds,  \* values given to setPopulationId
  Invalidate,     \* invalidateResourceOnAccess
  FactoryMayFail, \* a factory can fail while the server accepts connections
  Breakable       \* resources whose connection can break

ASSUME BaseAssumption ==
  /\ IsFiniteSet(Resources) /\ IsFiniteSet(Users)
  /\ None \notin Resources \cup Users
  /\ Users \cap {"keeper", "health", "disposer", "pool"} = {}
  /\ 0 \in PopulationIds
  /\ Invalidate \in BOOLEAN
  /\ FactoryMayFail \in BOOLEAN
  /\ Breakable \subseteq Resources

\* The background owners: the temporary pool of the resource count keeper, the
\* locked batch of the health care job, and removed items on their way to
\* destruction (tmpPool of clearPool, removePool of the keeper's thread).
Jobs == {"keeper", "health", "disposer"}

Items == [res : Resources, valid : BOOLEAN]

VARIABLES
  pool,         \* the vector of items
  poolIndex,    \* where the next search starts, from 0 as in the code
  populationId,
  mutex,        \* the call that holds poolMutex between two steps, or None
  pc,           \* where each user's call is
  hand,         \* the resource it has in hand
  seen,         \* the population its get() started with
  jobRefs,      \* the shared_ptrs the background threads own
  weak,         \* the weak_ptrs of the health care job's snapshot
  dirty,        \* history: lent and not checked since (tracked if Invalidate)
  broken,       \* resources whose connection is dead
  status        \* "running", "terminated", or "undefined" after a fatal UB

poolVars == <<pool, poolIndex, populationId, mutex>>
userVars == <<pc, hand, seen>>
baseVars == <<poolVars, userVars, jobRefs, weak, dirty, broken, status>>

-----------------------------------------------------------------------------
(* Ownership.                                                              *)

InPool(r) == \E i \in DOMAIN pool : pool[i].res = r

Holds(u, r) == pc[u] \in {"adding", "holding"} /\ hand[u] = r

\* One element for each shared_ptr to r: its number is use_count().
Owners(r) ==
  {u \in Users : Holds(u, r)} \cup {j \in Jobs : r \in jobRefs[j]}
    \cup (IF InPool(r) THEN {"pool"} ELSE {})

\* use_count() > 1 of an item of the pool: someone else owns it too.
isUsed(item) == Owners(item.res) \ {"pool"} # {}

isAvailable(item) == item.valid /\ ~isUsed(item)

AvailableIndices == {i \in DOMAIN pool : isAvailable(pool[i])}

\* A resource that no pointer refers to, strong or weak: it can be (re)created.
Fresh(r) ==
  /\ Owners(r) = {}
  /\ \A u \in Users : hand[u] # r
  /\ \A w \in weak : w.res # r

FactoryFails == FactoryMayFail \/ \A r \in Resources : ~Fresh(r)

Create(r) == Fresh(r) /\ broken' = broken \ {r}

\* r is put in a user's hands: from now on it has not been checked.
Lend(r) == dirty' = IF Invalidate THEN dirty \cup {r} ELSE dirty

-----------------------------------------------------------------------------
(* Changes of the vector that several operations share.                    *)

\* The vector without its i-th item.
Without(i) ==
  [k \in 1 .. Len(pool) - 1 |-> IF k < i THEN pool[k] ELSE pool[k + 1]]

\* Fault: the index may be left one past the end.
ResetIndexLate(size) == IF poolIndex > size THEN 0 ELSE poolIndex

\* Fault: the index steps back with the vector, also from 0.
StepBack(size) == poolIndex - 1

ResetIndex(size) == IF poolIndex >= size THEN 0 ELSE poolIndex

RemoveItem(i) ==
  /\ pool' = Without(i)
  /\ poolIndex' = ResetIndex(Len(pool) - 1)

\* eraseUnsafe does not test whether the item is there.  When it is not, it
\* erases the end iterator: undefined behaviour, which pops an unrelated last
\* item or, always so in an empty vector, ends the process.
EraseUnsafe(r) ==
  \/ /\ \E i \in DOMAIN pool : pool[i].res = r /\ RemoveItem(i)
     /\ UNCHANGED status
  \/ /\ ~InPool(r)
     /\ pool # <<>>
     /\ RemoveItem(Len(pool))
     /\ UNCHANGED status
  \/ /\ ~InPool(r)
     /\ status' = "undefined"
     /\ UNCHANGED <<pool, poolIndex>>

-----------------------------------------------------------------------------
(* get().                                                                  *)

\* The search runs from poolIndex to the end.  The second search, from the
\* beginning to poolIndex, compares its bound with itself instead of with its
\* result, so its result is never used.
Candidates == {i \in AvailableIndices : i > poolIndex}

\* Fault: the mutex is released before the shared_ptr is copied.
UnlockEarly(u) == mutex' = None

KeepLocked(u) == mutex' = u

\* Fault: the item found keeps its validity.
ClaimStillValid(i) == pool' = pool

Claim(i) ==
  pool' = IF Invalidate THEN [pool EXCEPT ![i].valid = FALSE] ELSE pool

\* lock, search, and the update of the item found; the mutex stays locked until
\* the shared_ptr is copied.
GetFound(u) ==
  /\ pc[u] = "idle" /\ mutex = None
  /\ \E i \in Candidates :
       /\ \A j \in Candidates : i <= j
       /\ poolIndex' = i - 1
       /\ Claim(i)
       /\ hand' = [hand EXCEPT ![u] = pool[i].res]
  /\ KeepLocked(u)
  /\ pc' = [pc EXCEPT ![u] = "copy"]
  /\ UNCHANGED <<populationId, seen, jobRefs, weak, dirty, broken, status>>

\* Fault: the lock outlives the critical section.
StayLocked == UNCHANGED mutex

Unlock == mutex' = None

\* The copy of the shared_ptr that get() returns, then the unlock.
GetCopy(u) ==
  /\ pc[u] = "copy"
  /\ pc' = [pc EXCEPT ![u] = "holding"]
  /\ Unlock
  /\ Lend(hand[u])
  /\ UNCHANGED <<pool, poolIndex, populationId, hand, seen, jobRefs, weak,
                 broken, status>>

\* Nothing found: remember the population, unlock and call the factory.
GetMiss(u) ==
  /\ pc[u] = "idle" /\ mutex = None
  /\ Candidates = {}
  /\ pc' = [pc EXCEPT ![u] = "creating"]
  /\ seen' = [seen EXCEPT ![u] = populationId]
  /\ UNCHANGED <<poolVars, hand, jobRefs, weak, dirty, broken, status>>

\* The factory's future delivers; the caller owns the resource from here on.
EmergencyCreate(u) ==
  /\ pc[u] = "creating"
  /\ \E r \in Resources :
       /\ Create(r)
       /\ Lend(r)
       /\ hand' = [hand EXCEPT ![u] = r]
  /\ pc' = [pc EXCEPT ![u] = "adding"]
  /\ UNCHANGED <<poolVars, seen, jobRefs, weak, status>>

\* The factory or its future throws out of get().
EmergencyFail(u) ==
  /\ pc[u] = "creating"
  /\ FactoryFails
  /\ pc' = [pc EXCEPT ![u] = "idle"]
  /\ UNCHANGED <<poolVars, hand, seen, jobRefs, weak, dirty, broken, status>>

\* The second critical section: the new resource joins the pool unless the
\* population changed meanwhile; the caller gets it either way.
EmergencyAdd(u) ==
  /\ pc[u] = "adding" /\ mutex = None
  /\ IF seen[u] = populationId
       THEN /\ pool' = Append(pool, [res |-> hand[u], valid |-> ~Invalidate])
            /\ poolIndex' = Len(pool)
       ELSE UNCHANGED <<pool, poolIndex>>
  /\ pc' = [pc EXCEPT ![u] = "holding"]
  /\ UNCHANGED <<populationId, mutex, hand, seen, jobRefs, weak, dirty, broken,
                 status>>

-----------------------------------------------------------------------------
(* The other operations of a user's call.                                  *)

\* The user drops the shared_ptr: no lock, no call of the pool.
Release(u) ==
  /\ pc[u] = "holding"
  /\ pc' = [pc EXCEPT ![u] = "idle"]
  /\ hand' = [hand EXCEPT ![u] = None]
  /\ UNCHANGED <<poolVars, seen, jobRefs, weak, dirty, broken, status>>

\* A resource the pool never sees (a failure changes nothing).
GetUnpooled(u) ==
  /\ pc[u] = "idle"
  /\ \E r \in Resources :
       /\ Create(r)
       /\ Lend(r)
       /\ hand' = [hand EXCEPT ![u] = r]
  /\ pc' = [pc EXCEPT ![u] = "holding"]
  /\ UNCHANGED <<poolVars, seen, jobRefs, weak, status>>

\* The items move to tmpPool, whose destruction follows the unlock (Dispose);
\* the population number stays as it was.
ClearPool ==
  /\ mutex = None
  /\ jobRefs' = [jobRefs EXCEPT !["disposer"] =
                   @ \cup {pool[i].res : i \in DOMAIN pool}]
  /\ pool' = <<>>
  /\ poolIndex' = 0
  /\ UNCHANGED <<populationId, mutex, userVars, weak, dirty, broken, status>>

\* poolFullState() pings every unused resource under the mutex: nothing changes,
\* but the pool is locked for as long as the checks take.
PoolFullState(u) ==
  /\ pc[u] = "idle" /\ mutex = None
  /\ pc' = [pc EXCEPT ![u] = "probing"]
  /\ mutex' = u
  /\ UNCHANGED <<pool, poolIndex, populationId, hand, seen, jobRefs, weak, dirty,
                 broken, status>>

PoolFullStateEnd(u) ==
  /\ pc[u] = "probing"
  /\ pc' = [pc EXCEPT ![u] = "idle"]
  /\ Unlock
  /\ UNCHANGED <<pool, poolIndex, populationId, hand, seen, jobRefs, weak, dirty,
                 broken, status>>

setPopulationId(id) ==
  /\ populationId' = id
  /\ UNCHANGED <<pool, poolIndex, mutex, userVars, jobRefs, weak, dirty, broken,
                 status>>

\* A removed item's shared_ptr is destroyed, outside the mutex.
Dispose(r) ==
  /\ r \in jobRefs["disposer"]
  /\ jobRefs' = [jobRefs EXCEPT !["disposer"] = @ \ {r}]
  /\ UNCHANGED <<poolVars, userVars, weak, dirty, broken, status>>

\* The server or the network drops a connection.
Break(r) ==
  /\ r \in Breakable \ broken
  /\ ~Fresh(r)
  /\ broken' = broken \cup {r}
  /\ UNCHANGED <<poolVars, userVars, jobRefs, weak, dirty, status>>

-----------------------------------------------------------------------------

BaseInit ==
  /\ pool = <<>> /\ poolIndex = 0 /\ populationId = 0 /\ mutex = None
  /\ pc = [u \in Users |-> "idle"]
  /\ hand = [u \in Users |-> None]
  /\ seen = [u \in Users |-> 0]
  /\ jobRefs = [j \in Jobs |-> {}]
  /\ weak = {} /\ dirty = {} /\ broken = {}
  /\ status = "running"

\* The steps of a user's get().
GetNext(u) ==
  \/ GetFound(u) \/ GetCopy(u) \/ GetMiss(u)
  \/ EmergencyCreate(u) \/ EmergencyFail(u) \/ EmergencyAdd(u)

UserNext ==
  \/ \E u \in Users : GetNext(u) \/ Release(u) \/ GetUnpooled(u)
                         \/ PoolFullState(u) \/ PoolFullStateEnd(u)
  \/ ClearPool
  \/ \E id \in PopulationIds : setPopulationId(id)

EnvironmentNext == \E r \in Resources : Dispose(r) \/ Break(r)

BaseTypeOK ==
  /\ pool \in Seq(Items)
  /\ poolIndex \in Nat
  /\ populationId \in PopulationIds
  /\ mutex \in Users \cup {None}
  /\ pc \in [Users -> {"idle", "copy", "creating", "adding", "holding",
                      "probing"}]
  /\ hand \in [Users -> Resources \cup {None}]
  /\ seen \in [Users -> PopulationIds]
  /\ jobRefs \in [Jobs -> SUBSET Resources]
  /\ weak \subseteq Items
  /\ dirty \subseteq Resources
  /\ broken \subseteq Resources
  /\ status \in {"running", "terminated", "undefined"}
=============================================================================
