---------------------------- MODULE SharedPtrPool ----------------------------
(***************************************************************************)
(* shared_ptr_pool.hpp: a pool with its resource count keeper and its      *)
(* health care job, each of which the template's parameters switch on.     *)
(* The jobs run from the start; sleepInParts only delays their cycles.     *)
(***************************************************************************)
EXTENDS ResourceCountKeeper, HealthCareJob

CONSTANTS EnableResourceCountKeeper, EnableHealthCareJob

\* The static_assert of the class is the last conjunct.
ASSUME PoolAssumption ==
  /\ EnableResourceCountKeeper \in BOOLEAN
  /\ EnableHealthCareJob \in BOOLEAN
  /\ Invalidate => EnableHealthCareJob

vars == <<baseVars, keeperVars, healthVars>>

Init == BaseInit /\ KeeperInit /\ HealthInit

\* std::terminate, or a fatal undefined behaviour, ends every thread.
Running == status = "running"

Ended == ~Running /\ UNCHANGED vars

UserStep == Running /\ UserNext /\ UNCHANGED <<keeperVars, healthVars>>

EnvironmentStep ==
  Running /\ EnvironmentNext /\ UNCHANGED <<keeperVars, healthVars>>

KeeperStep ==
  EnableResourceCountKeeper /\ Running /\ KeeperNext /\ UNCHANGED healthVars

HealthStep ==
  EnableHealthCareJob /\ Running /\ HealthNext /\ UNCHANGED keeperVars

Next == UserStep \/ EnvironmentStep \/ KeeperStep \/ HealthStep \/ Ended

Spec == Init /\ [][Next]_vars

\* The steps that a call which has begun has yet to take.
CallStep(u) ==
  /\ Running
  /\ \/ GetCopy(u) \/ EmergencyCreate(u) \/ EmergencyFail(u) \/ EmergencyAdd(u)
     \/ PoolFullStateEnd(u)
  /\ UNCHANGED <<keeperVars, healthVars>>

DisposeStep ==
  /\ Running
  /\ \E r \in Resources : Dispose(r)
  /\ UNCHANGED <<keeperVars, healthVars>>

\* Every thread runs while the process does, and none waits for ever for a mutex
\* that is released again and again.  Users need not return what they borrowed.
FairSpec ==
  /\ Spec
  /\ \A u \in Users : SF_vars(CallStep(u))
  /\ SF_vars(KeeperStep)
  /\ SF_vars(HealthStep)
  /\ WF_vars(DisposeStep)

TypeOK == BaseTypeOK /\ KeeperTypeOK /\ HealthTypeOK

-----------------------------------------------------------------------------
(* The user's factories, seen from outside.                                *)

\* Those who wait for a factory's connection.
Callers == Users \cup {"keeper"}

Connecting(c) ==
  \/ c \in Users /\ pc[c] = "creating"
  \/ c = "keeper" /\ keeperPc = "create" /\ need > 0

\* A factory delivers r.
Connected(r) == Fresh(r) /\ ~Fresh(r)'

-----------------------------------------------------------------------------
(* Safety.                                                                 *)

\* poolIndex addresses an item, or is 0 in an empty pool: the assertion at the
\* head of get(), which every operation that shrinks the vector re-establishes.
PoolIndexInRange ==
  \/ pool = <<>> /\ poolIndex = 0
  \/ pool # <<>> /\ poolIndex < Len(pool)

\* No resource is in the hands of two calls, although the pool learns from
\* use_count() only, outside its mutex, that one is free again.
ExclusiveUse ==
  \A u, v \in Users : u # v => \A r \in Resources : ~(Holds(u, r) /\ Holds(v, r))

\* Where resources are invalidated on access, a valid item's resource has been
\* checked since it was last lent: no late result of a check, and no item added,
\* makes a borrowed resource pass for a checked one.
ValidMeansChecked ==
  Invalidate =>
    \A i \in DOMAIN pool : pool[i].valid => pool[i].res \notin dirty

\* Without a health care job, a resource in use leaves the pool only when a user
\* clears it: the keeper's removal, which works from an outdated count, spares
\* the used ones.
UsedStaysPooled ==
  [][\A r \in Resources :
       (\E u \in Users : Holds(u, r)) /\ InPool(r) /\ ~InPool(r)'
         => ClearPool /\ UNCHANGED keeperVars]_vars

-----------------------------------------------------------------------------
(* The inductive invariant behind ExclusiveUse and ValidMeansChecked.      *)

NoDuplicates ==
  \A i, j \in DOMAIN pool : pool[i].res = pool[j].res => i = j

HandMatchesPc ==
  \A u \in Users :
    /\ pc[u] \in {"idle", "creating", "probing"} => hand[u] = None
    /\ pc[u] \in {"copy", "adding", "holding"} => hand[u] \in Resources

\* Between its search and its copy, get() has the mutex, and so the item.
CopyIsLocked ==
  \A u \in Users :
    /\ pc[u] = "copy" => mutex = u /\ InPool(hand[u])
    /\ pc[u] = "probing" => mutex = u

HandsDistinct ==
  \A u, v \in Users : u # v /\ hand[u] # None => hand[u] # hand[v]

\* A resource on its way into the pool is in one place only.
ArrivalsOutside ==
  /\ \A u \in Users :
       pc[u] = "adding" => ~InPool(hand[u]) /\ hand[u] \notin jobRefs["keeper"]
  /\ \A r \in jobRefs["keeper"] : ~InPool(r) /\ \A u \in Users : hand[u] # r

Ownership ==
  /\ NoDuplicates /\ HandMatchesPc /\ CopyIsLocked /\ HandsDistinct
  /\ ArrivalsOutside

\* The resources of the health care job's snapshot and of its running checks are
\* distinct, and the latter are owned by it.
ChecksApart ==
  /\ \A w, x \in weak : w.res = x.res => w = x
  /\ \A c, d \in checks : c.res = d.res => c = d
  /\ \A c \in checks : c.res \in jobRefs["health"] /\ \A w \in weak : w.res # c.res
  /\ healthPc \in {"idle", "dead"} => weak = {}
  /\ healthPc \notin {"lock", "check"} => checks = {}
  /\ healthPc # "lock" => batch = {}
  /\ batch \subseteq weak

\* r was invalid at the snapshot, and its check has not been applied yet.
Revalidating(r) ==
  (\E w \in weak : w.res = r /\ ~w.valid) \/ (\E c \in checks : c.res = r /\ ~c.valid)

\* Such a resource cannot have been borrowed since: its item is still invalid.
Validity ==
  /\ \A i \in DOMAIN pool : pool[i].valid =>
       /\ pool[i].res \notin dirty
       /\ \A u \in Users : pc[u] = "copy" => hand[u] # pool[i].res
       /\ ~Revalidating(pool[i].res)
  /\ \A r \in jobRefs["keeper"] : r \notin dirty /\ ~Revalidating(r)
  /\ \A r \in Resources : Revalidating(r) => \A u \in Users : hand[u] # r
  /\ \A c \in checks : c.verdict = "healthy" /\ ~c.valid => c.res \notin dirty

ValidityInv == ChecksApart /\ (Invalidate => Validity)

-----------------------------------------------------------------------------
(* What comments of the code claim and the code does not do.               *)

\* health_care_job.hpp:147: "we are now the sole owners of these resources so we
\* can call healthCheck".  No user holds a resource while its check runs.
ChecksAreExclusive ==
  \A c \in checks : c.verdict = "running" => \A u \in Users : ~Holds(u, c.res)

\* health_care_job.hpp:191: "This is allowed to happen since user can clear pool
\* while there are running health checks."  Doing so is not undefined behaviour.
ClearDuringCheckIsDefined == status # "undefined"

\* The test "can work without keeper job" (tests/db_access/connection_pool.cpp:163)
\* expects get() to take an available resource instead of creating one, and the
\* second search of base.hpp:323 is there for it.
EmergencyOnlyWhenEmpty ==
  [][(\E u \in Users : GetMiss(u)) => AvailableIndices = {}]_vars

-----------------------------------------------------------------------------
(* Liveness, under FairSpec.                                               *)

\* Every get() comes back, with a resource or with the factory's exception.
GetReturns ==
  \A u \in Users : pc[u] \in {"copy", "creating", "adding"}
                     ~> pc[u] \in {"holding", "idle"} \/ ~Running

\* From some time on no call borrows, clears the pool or changes the population.
\* (A call leaves the jobs' variables alone, which tells it from a job's step.)
Quiet ==
  <>[][~(/\ \/ \E u \in Users : GetFound(u) \/ GetMiss(u) \/ GetUnpooled(u)
            \/ ClearPool
            \/ \E id \in PopulationIds : setPopulationId(id)
         /\ UNCHANGED <<keeperVars, healthVars>>)]_vars

SpareInBounds ==
  Cardinality(AvailableIndices) \in MinSpare .. MaxSpare

ServerFull == \A r \in Resources : ~Fresh(r)

\* Once the users are quiet, the keeper brings the available resources between
\* minSpare and maxSpare for good, however outdated the counts it acted on, as
\* long as the server accepts connections.
KeeperSettles == Quiet => <>[](SpareInBounds \/ ServerFull)

\* A resource in the pool that nobody has borrowed.
Unborrowed(r) == InPool(r) /\ \A u \in Users : hand[u] # r

\* A broken resource does not lie in the pool for ever: it is erased, unless it
\* is borrowed again and again, in between the snapshot and its lock.
BrokenIsErased ==
  \A r \in Resources : []<>(~Running \/ r \notin broken \/ ~Unborrowed(r))

\* Where resources are invalidated on access, an invalid resource does not lie
\* unborrowed in the pool for ever: it becomes valid again or is erased.
InvalidIsRevalidated ==
  \A r \in Resources :
    []<>(\/ ~Running \/ ~Unborrowed(r)
         \/ \E i \in DOMAIN pool : pool[i].res = r /\ pool[i].valid)

-----------------------------------------------------------------------------
(* The contract.                                                           *)

\* The pool keeps its promise to the users: it implements the contract.
Contract ==
  INSTANCE PoolContract WITH
    stock <- {r \in Resources : Owners(r) # {}},
    lent <- [u \in Users |->
               IF pc[u] \in {"adding", "holding"} THEN hand[u] ELSE None],
    unchecked <- dirty

KeepsContract == Contract!Spec
=============================================================================
