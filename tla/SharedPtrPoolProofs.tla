------------------------- MODULE SharedPtrPoolProofs -------------------------
(***************************************************************************)
(* Proofs about the pool of SharedPtrPool, for any number of users and     *)
(* resources and any setting of its parameters.                            *)
(***************************************************************************)
EXTENDS SharedPtrPool, FiniteSetTheorems, TLAPS

-----------------------------------------------------------------------------
(* The vector and the index.                                               *)

\* An item of the vector is a resource and a flag.
LEMMA ItemType ==
  ASSUME pool \in Seq(Items), NEW i \in DOMAIN pool
  PROVE  pool[i] \in Items /\ pool[i].res \in Resources /\ pool[i].valid \in BOOLEAN
  <1>1. pool[i] \in Items
    OBVIOUS
  <1> QED BY <1>1 DEF Items

\* Erasing one item leaves a vector of items, one shorter.
LEMMA WithoutType ==
  ASSUME pool \in Seq(Items), NEW i \in DOMAIN pool
  PROVE  /\ Without(i) \in Seq(Items)
         /\ Len(Without(i)) = Len(pool) - 1
  BY SMTT(20) DEF Without

\* A kept part of the vector is a vector of items of it, in their order.
LEMMA KeepOnlyType ==
  ASSUME pool \in Seq(Items), NEW K, K \subseteq DOMAIN pool, KeepOnly(K)
  PROVE  /\ pool' \in Seq(Items)
         /\ Len(pool') = Cardinality(K)
         /\ Cardinality(K) \in Nat
         /\ \E f \in [DOMAIN pool' -> DOMAIN pool] :
              /\ \A a, b \in DOMAIN pool' : f[a] = f[b] => a = b
              /\ \A a \in DOMAIN pool' : pool'[a] = pool[f[a]]
  <1>1. IsFiniteSet(K)
    <2>1. IsFiniteSet(1 .. Len(pool))
      BY FS_Interval
    <2> QED BY <2>1, FS_Subset
  <1>2. Cardinality(K) \in Nat
    BY <1>1, FS_CardinalityType
  <1>3. PICK f \in [1 .. Cardinality(K) -> K] :
          /\ \A a, b \in DOMAIN f : a < b => f[a] < f[b]
          /\ pool' = [a \in DOMAIN f |-> pool[f[a]]]
    BY DEF KeepOnly
  <1>4. pool' \in [1 .. Cardinality(K) -> Items]
    BY <1>3
  <1>5. pool' \in Seq(Items) /\ Len(pool') = Cardinality(K)
    BY <1>2, <1>4
  <1>6. \A a, b \in 1 .. Cardinality(K) : f[a] = f[b] => a = b
    <2> SUFFICES ASSUME NEW a \in 1 .. Cardinality(K), NEW b \in 1 .. Cardinality(K),
                        f[a] = f[b], a # b
                 PROVE  FALSE
      OBVIOUS
    <2>1. a < b \/ b < a
      BY <1>2
    <2>2. f[a] \in Nat /\ f[b] \in Nat
      BY <1>3
    <2> QED BY <1>3, <2>1, <2>2
  <1>7. DOMAIN pool' = 1 .. Cardinality(K)
    BY <1>3
  <1>8. f \in [DOMAIN pool' -> DOMAIN pool]
    BY <1>3, <1>7
  <1>9. \A a \in DOMAIN pool' : pool'[a] = pool[f[a]]
    BY <1>3, <1>7
  <1> QED BY <1>2, <1>5, <1>6, <1>7, <1>8, <1>9

\* Claiming an item changes no more than its validity.
LEMMA ClaimType ==
  ASSUME pool \in Seq(Items), NEW i \in DOMAIN pool, Claim(i)
  PROVE  /\ pool' \in Seq(Items)
         /\ DOMAIN pool' = DOMAIN pool
         /\ Len(pool') = Len(pool)
         /\ \A k \in DOMAIN pool :
              /\ pool'[k].res = pool[k].res
              /\ k # i => pool'[k] = pool[k]
         /\ Invalidate => ~pool'[i].valid
  <1>1. CASE ~Invalidate
    BY <1>1 DEF Claim
  <1>2. CASE Invalidate
    <2>1. pool' = [pool EXCEPT ![i].valid = FALSE]
      BY <1>2 DEF Claim
    <2>2. [pool[i] EXCEPT !.valid = FALSE] \in Items
      BY ItemType DEF Items
    <2>3. pool' \in Seq(Items) /\ DOMAIN pool' = DOMAIN pool /\ Len(pool') = Len(pool)
      BY <2>1, <2>2
    <2>4. pool'[i] = [pool[i] EXCEPT !.valid = FALSE]
      BY <2>1
    <2>5. pool[i] \in Items
      BY ItemType
    <2>6. pool'[i].res = pool[i].res /\ pool'[i].valid = FALSE
      BY <2>4, <2>5 DEF Items
    <2>7. \A k \in DOMAIN pool : k # i => pool'[k] = pool[k]
      BY <2>1
    <2> QED BY <2>3, <2>6, <2>7, <1>2
  <1> QED BY <1>1, <1>2

-----------------------------------------------------------------------------
(* Types.  What a call has in hand depends on where it is: the types are   *)
(* invariant together with HandMatchesPc.                                  *)

Typed == TypeOK /\ HandMatchesPc

\* The steps of a user's call, of clearPool and setPopulationId.
LEMMA UserStepType ==
  ASSUME Typed, UserStep
  PROVE  Typed'
  <1> USE BaseAssumption DEF Typed, HandMatchesPc, TypeOK, BaseTypeOK,
        KeeperTypeOK, HealthTypeOK, keeperVars, healthVars, poolVars, userVars, Jobs
  <1>0. UNCHANGED <<keeperVars, healthVars>>
    BY DEF UserStep
  <1>1. ASSUME NEW u \in Users, GetFound(u) PROVE Typed'
    <2>1. PICK i \in DOMAIN pool :
            poolIndex' = i - 1 /\ Claim(i) /\ hand' = [hand EXCEPT ![u] = pool[i].res]
      BY <1>1 DEF GetFound, Candidates, AvailableIndices
    <2>2. pool' \in Seq(Items)
      BY <2>1, ClaimType
    <2>4. poolIndex' \in Nat /\ pool[i].res \in Resources
      BY <2>1, ItemType
    <2>5. HandMatchesPc'
      BY <1>1, <2>1, <2>4 DEF GetFound
    <2>6. BaseTypeOK'
      BY <1>1, <2>1, <2>2, <2>4 DEF GetFound, KeepLocked
    <2> QED BY <1>0, <2>5, <2>6
  <1>2. ASSUME NEW u \in Users, GetCopy(u) PROVE Typed'
    BY <1>0, <1>2 DEF GetCopy, Lend, Unlock
  <1>3. ASSUME NEW u \in Users, GetMiss(u) PROVE Typed'
    BY <1>0, <1>3 DEF GetMiss
  <1>4. ASSUME NEW u \in Users, EmergencyCreate(u) PROVE Typed'
    BY <1>0, <1>4 DEF EmergencyCreate, Create, Lend
  <1>5. ASSUME NEW u \in Users, EmergencyFail(u) PROVE Typed'
    BY <1>0, <1>5 DEF EmergencyFail
  <1>6. ASSUME NEW u \in Users, EmergencyAdd(u) PROVE Typed'
    <2>1. [res |-> hand[u], valid |-> ~Invalidate] \in Items
      BY <1>6 DEF EmergencyAdd, Items
    <2> DEFINE item == [res |-> hand[u], valid |-> ~Invalidate]
    <2>3. item \in Items
      BY <2>1
    <2>4. \/ pool' = Append(pool, item) /\ poolIndex' = Len(pool)
          \/ UNCHANGED <<pool, poolIndex>>
      BY <1>6 DEF EmergencyAdd
    <2> HIDE DEF item
    <2>2. pool' \in Seq(Items) /\ poolIndex' \in Nat
      BY <2>3, <2>4
    <2> QED BY <1>0, <1>6, <2>2 DEF EmergencyAdd
  <1>7. ASSUME NEW u \in Users, Release(u) PROVE Typed'
    BY <1>0, <1>7 DEF Release
  <1>8. ASSUME NEW u \in Users, GetUnpooled(u) PROVE Typed'
    BY <1>0, <1>8 DEF GetUnpooled, Create, Lend
  <1>9. ASSUME NEW u \in Users, PoolFullState(u) \/ PoolFullStateEnd(u) PROVE Typed'
    BY <1>0, <1>9 DEF PoolFullState, PoolFullStateEnd, Unlock
  <1>10. CASE ClearPool
    <2>1. \A i \in DOMAIN pool : pool[i].res \in Resources
      BY ItemType
    <2>2. jobRefs' \in [Jobs -> SUBSET Resources]
      BY <2>1, <1>10 DEF ClearPool
    <2> QED BY <1>0, <1>10, <2>2 DEF ClearPool
  <1>11. ASSUME NEW id \in PopulationIds, setPopulationId(id) PROVE Typed'
    BY <1>0, <1>11 DEF setPopulationId
  <1> QED
    BY <1>1, <1>2, <1>3, <1>4, <1>5, <1>6, <1>7, <1>8, <1>9, <1>10, <1>11
    DEF UserStep, UserNext, GetNext

\* The destruction of removed items, and the environment.
LEMMA EnvironmentStepType ==
  ASSUME Typed, EnvironmentStep
  PROVE  Typed'
  BY BaseAssumption
  DEF EnvironmentStep, EnvironmentNext, Dispose, Break, Typed, HandMatchesPc, TypeOK,
      BaseTypeOK, KeeperTypeOK, HealthTypeOK, keeperVars, healthVars, poolVars,
      userVars, Jobs

\* What an owner among the jobs holds is a finite set.
LEMMA JobRefsFinite ==
  ASSUME BaseTypeOK, NEW j \in Jobs
  PROVE  IsFiniteSet(jobRefs[j]) /\ Cardinality(jobRefs[j]) \in Nat
  <1>1. jobRefs[j] \subseteq Resources
    BY DEF BaseTypeOK
  <1>2. IsFiniteSet(jobRefs[j])
    BY <1>1, BaseAssumption, FS_Subset DEF BaseAssumption
  <1> QED BY <1>2, FS_CardinalityType

\* So is any set of indices of the vector.
LEMMA IndicesFinite ==
  ASSUME pool \in Seq(Items), NEW K, K \subseteq DOMAIN pool
  PROVE  IsFiniteSet(K) /\ Cardinality(K) \in Nat
  <1>1. IsFiniteSet(1 .. Len(pool))
    BY FS_Interval
  <1>2. IsFiniteSet(K)
    BY <1>1, FS_Subset
  <1> QED BY <1>2, FS_CardinalityType

\* What the keeper adds are its own resources, each once, and valid.
LEMMA KeeperAddItems ==
  ASSUME BaseTypeOK, KeeperAdd, ~UNCHANGED pool
  PROVE  \E added \in Seq(Items) :
           /\ pool' = pool \o added
           /\ \A k \in DOMAIN added :
                added[k].valid /\ added[k].res \in jobRefs["keeper"]
           /\ \A a, b \in DOMAIN added : added[a].res = added[b].res => a = b
  <1> DEFINE n == Cardinality(jobRefs["keeper"])
  <1>1. n \in Nat /\ jobRefs["keeper"] \subseteq Resources
    BY JobRefsFinite DEF BaseTypeOK, Jobs
  <1>2. PICK f \in [1 .. n -> jobRefs["keeper"]] :
          /\ \A a, b \in 1 .. n : f[a] = f[b] => a = b
          /\ pool' = pool \o [k \in 1 .. n |-> [res |-> f[k], valid |-> TRUE]]
    BY DEF KeeperAdd
  <1> DEFINE added == [k \in 1 .. n |-> [res |-> f[k], valid |-> TRUE]]
  <1>3. \A k \in 1 .. n : [res |-> f[k], valid |-> TRUE] \in Items
    BY <1>1, <1>2 DEF Items
  <1> HIDE DEF n
  <1>4. added \in Seq(Items) /\ DOMAIN added = 1 .. n
    BY <1>1, <1>3
  <1>5. \A k \in 1 .. n : added[k].res = f[k] /\ added[k].valid
    OBVIOUS
  <1>6. pool' = pool \o added
    BY <1>2 DEF n
  <1> HIDE DEF added
  <1>7. \A k \in DOMAIN added : added[k].valid /\ added[k].res \in jobRefs["keeper"]
    BY <1>2, <1>4, <1>5
  <1>8. \A a, b \in DOMAIN added : added[a].res = added[b].res => a = b
    BY <1>2, <1>4, <1>5
  <1> QED BY <1>4, <1>6, <1>7, <1>8

\* The steps of the resource count keeper.
LEMMA KeeperStepType ==
  ASSUME Typed, KeeperStep
  PROVE  Typed'
  <1> USE BaseAssumption DEF Typed, HandMatchesPc, TypeOK, BaseTypeOK,
        KeeperTypeOK, HealthTypeOK, baseVars, healthVars, poolVars, userVars, Jobs
  <1>0. UNCHANGED healthVars
    BY DEF KeeperStep
  <1>1. CASE KeeperCount
    <2>1. Cardinality(AvailableIndices) \in Nat
      BY IndicesFinite DEF AvailableIndices
    <2>2. need' \in Nat
      BY <1>1, <2>1, KeeperAssumption DEF KeeperCount, KeeperAssumption
    <2> QED BY <1>0, <1>1, <2>2 DEF KeeperCount
  <1>2. CASE KeeperLaunch \/ KeeperError
    BY <1>0, <1>2 DEF KeeperLaunch, KeeperError
  <1>3. CASE KeeperCreate
    BY <1>0, <1>3 DEF KeeperCreate, Create
  <1>4. CASE KeeperCreateFails
    BY <1>0, <1>4 DEF KeeperCreateFails
  <1>5. CASE KeeperAdd
    <2>1. pool' \in Seq(Items)
      <3>1. CASE ~UNCHANGED pool
        <4>1. PICK added \in Seq(Items) : pool' = pool \o added
          BY <1>5, <3>1, KeeperAddItems
        <4> QED BY <4>1
      <3> QED BY <3>1
    <2> QED BY <1>0, <1>5, <2>1 DEF KeeperAdd
  <1>6. CASE KeeperTrim
    <2> DEFINE kept == DOMAIN pool \ (FirstPass \cup SecondPass)
    <2>1. KeepOnly(kept) /\ poolIndex' = ResetIndex(Cardinality(kept))
      BY <1>6 DEF KeeperTrim
    <2>2. pool' \in Seq(Items)
      BY <2>1, KeepOnlyType
    <2>3. poolIndex' \in Nat
      BY <2>1 DEF ResetIndex
    <2>4. jobRefs' \in [Jobs -> SUBSET Resources]
      <3>1. FirstPass \subseteq DOMAIN pool /\ SecondPass \subseteq DOMAIN pool
        BY DEF FirstPass, SecondPass, FirstOf, AvailableIndices, UnusedIndices
      <3>2. {pool[i].res : i \in (FirstPass \cup SecondPass) \ OverwrittenItems}
              \subseteq Resources
        BY <3>1, ItemType
      <3> QED BY <1>6, <3>2 DEF KeeperTrim
    <2> QED BY <1>0, <1>6, <2>2, <2>3, <2>4 DEF KeeperTrim
  <1> QED
    BY <1>1, <1>2, <1>3, <1>4, <1>5, <1>6 DEF KeeperStep, KeeperNext

\* Erasing, whether the item is there or not, leaves a vector of items.
LEMMA EraseType ==
  ASSUME BaseTypeOK, NEW r, EraseUnsafe(r)
  PROVE  pool' \in Seq(Items) /\ poolIndex' \in Nat
         /\ status' \in {"running", "terminated", "undefined"}
  <1> USE DEF BaseTypeOK
  <1>1. ASSUME NEW i \in DOMAIN pool, RemoveItem(i)
        PROVE  pool' \in Seq(Items) /\ poolIndex' \in Nat
    BY <1>1, WithoutType DEF RemoveItem, ResetIndex
  <1>2. pool # <<>> => Len(pool) \in DOMAIN pool
    OBVIOUS
  <1> QED BY <1>1, <1>2 DEF EraseUnsafe

\* The steps of the health care job.
LEMMA HealthStepType ==
  ASSUME Typed, HealthStep
  PROVE  Typed'
  <1> USE BaseAssumption DEF Typed, HandMatchesPc, TypeOK, BaseTypeOK,
        KeeperTypeOK, HealthTypeOK, baseVars, keeperVars, poolVars, userVars, Jobs,
        Verdicts
  <1>0. UNCHANGED keeperVars
    BY DEF HealthStep
  <1>1. CASE HealthSnapshot
    <2>1. \A i \in DOMAIN pool : pool[i] \in Items
      BY ItemType
    <2>2. weak' \subseteq Items
      BY <1>1, <2>1 DEF HealthSnapshot
    <2> QED BY <1>0, <1>1, <2>2 DEF HealthSnapshot
  <1>2. CASE HealthTakeBatch
    BY <1>0, <1>2 DEF HealthTakeBatch
  <1>3. ASSUME NEW item \in batch, HealthLock(item) PROVE Typed'
    BY <1>0, <1>3 DEF HealthLock, Items
  <1>4. CASE HealthLaunch \/ HealthError
    BY <1>0, <1>4 DEF HealthLaunch, HealthError
  <1>5. ASSUME NEW c \in checks, HealthPing(c) PROVE Typed'
    BY <1>0, <1>5 DEF HealthPing
  <1>6. ASSUME NEW c \in checks, HealthErase(c) PROVE Typed'
    BY <1>0, <1>6, EraseType DEF HealthErase
  <1>7. ASSUME NEW c \in checks, HealthRevalidate(c) PROVE Typed'
    <2>1. \A i \in DOMAIN pool : [pool[i] EXCEPT !.valid = TRUE] \in Items
      BY ItemType DEF Items
    <2>2. pool' \in Seq(Items)
      BY <1>7, <2>1, ItemType DEF HealthRevalidate
    <2> QED BY <1>0, <1>7, <2>2 DEF HealthRevalidate
  <1>8. ASSUME NEW c \in checks, HealthLeave(c) PROVE Typed'
    BY <1>0, <1>8 DEF HealthLeave
  <1>9. CASE HealthBatchEnd
    BY <1>0, <1>9 DEF HealthBatchEnd
  <1> QED
    BY <1>1, <1>2, <1>3, <1>4, <1>5, <1>6, <1>7, <1>8, <1>9
    DEF HealthStep, HealthNext

\* The initial pool is empty and nobody has anything.
LEMMA TypedInit == Init => Typed
  BY BaseAssumption, KeeperAssumption
  DEF Init, BaseInit, KeeperInit, HealthInit, Typed, TypeOK, HandMatchesPc,
      BaseTypeOK, KeeperTypeOK, HealthTypeOK, BaseAssumption, Jobs, Items

\* So every step keeps the types.
LEMMA TypedStep == Typed /\ [Next]_vars => Typed'
  <1> SUFFICES ASSUME Typed, [Next]_vars PROVE Typed'
    OBVIOUS
  <1>1. CASE UNCHANGED vars
    BY <1>1 DEF vars, baseVars, keeperVars, healthVars, poolVars, userVars, Typed,
       TypeOK, HandMatchesPc, BaseTypeOK, KeeperTypeOK, HealthTypeOK
  <1> QED
    BY <1>1, UserStepType, EnvironmentStepType, KeeperStepType, HealthStepType
    DEF Next, Ended

\* Every variable keeps its type.
THEOREM TypeCorrect == Spec => []TypeOK
  <1>1. Spec => []Typed
    BY TypedInit, TypedStep, PTL DEF Spec
  <1>2. Typed => TypeOK
    BY DEF Typed
  <1> QED BY <1>1, <1>2, PTL

-----------------------------------------------------------------------------
(* The index.                                                              *)

\* An index reset after an erasure is in range, whatever was erased.
LEMMA EraseIndex ==
  ASSUME BaseTypeOK, PoolIndexInRange, NEW r, EraseUnsafe(r)
  PROVE  PoolIndexInRange'
  <1> USE DEF BaseTypeOK, PoolIndexInRange
  <1>1. ASSUME NEW i \in DOMAIN pool, RemoveItem(i)
        PROVE  PoolIndexInRange'
    <2>1. pool' \in Seq(Items) /\ Len(pool') = Len(pool) - 1
      BY <1>1, WithoutType DEF RemoveItem
    <2>2. poolIndex' = IF poolIndex >= Len(pool') THEN 0 ELSE poolIndex
      BY <1>1, <2>1 DEF RemoveItem, ResetIndex
    <2> QED BY <2>1, <2>2
  <1>2. pool # <<>> => Len(pool) \in DOMAIN pool
    OBVIOUS
  <1> QED BY <1>1, <1>2 DEF EraseUnsafe

\* Every step that moves the index or shrinks the vector leaves the index on an item,
\* or at 0 in an empty vector.
LEMMA IndexStep == Typed /\ PoolIndexInRange /\ [Next]_vars => PoolIndexInRange'
  <1> SUFFICES ASSUME Typed, PoolIndexInRange, [Next]_vars
               PROVE  PoolIndexInRange'
    OBVIOUS
  <1>t. BaseTypeOK /\ BaseTypeOK'
    BY TypedStep DEF Typed, TypeOK
  <1>p. pool \in Seq(Items) /\ pool' \in Seq(Items) /\ poolIndex \in Nat
    BY <1>t DEF BaseTypeOK
  <1> USE DEF PoolIndexInRange
  <1>0. CASE UNCHANGED <<pool, poolIndex>>
    BY <1>0
  <1>1. ASSUME NEW u \in Users, GetFound(u) PROVE PoolIndexInRange'
    <2>1. PICK i \in DOMAIN pool : poolIndex' = i - 1 /\ Claim(i)
      BY <1>1 DEF GetFound, Candidates, AvailableIndices
    <2>2. Len(pool') = Len(pool)
      BY <2>1, <1>p, ClaimType
    <2> QED BY <1>p, <2>1, <2>2
  <1>2. ASSUME NEW u \in Users, EmergencyAdd(u) PROVE PoolIndexInRange'
    <2> DEFINE item == [res |-> hand[u], valid |-> ~Invalidate]
    <2>1. \/ pool' = Append(pool, item) /\ poolIndex' = Len(pool)
          \/ UNCHANGED <<pool, poolIndex>>
      BY <1>2 DEF EmergencyAdd
    <2> HIDE DEF item
    <2> QED BY <1>p, <2>1
  <1>3. CASE ClearPool
    BY <1>3 DEF ClearPool
  <1>4. CASE KeeperAdd
    <2>3. Len(pool') >= Len(pool)
      <3>1. CASE ~UNCHANGED pool
        <4>1. PICK added \in Seq(Items) : pool' = pool \o added
          BY <1>4, <1>t, <3>1, KeeperAddItems
        <4> QED BY <1>p, <4>1
      <3> QED BY <1>p, <3>1
    <2>4. poolIndex' = poolIndex
      BY <1>4 DEF KeeperAdd
    <2> QED BY <1>p, <2>3, <2>4
  <1>5. CASE KeeperTrim
    <2> DEFINE kept == DOMAIN pool \ (FirstPass \cup SecondPass)
    <2>1. KeepOnly(kept) /\ poolIndex' = ResetIndex(Cardinality(kept))
      BY <1>5 DEF KeeperTrim
    <2>2. Len(pool') = Cardinality(kept)
      BY <1>p, <2>1, KeepOnlyType
    <2> HIDE DEF kept
    <2> QED BY <1>p, <2>1, <2>2 DEF ResetIndex
  <1>6. ASSUME NEW c \in checks, HealthErase(c) PROVE PoolIndexInRange'
    BY <1>t, <1>6, EraseIndex DEF HealthErase
  <1>7. ASSUME NEW c \in checks, HealthRevalidate(c) PROVE PoolIndexInRange'
    <2>1. DOMAIN pool' = DOMAIN pool /\ poolIndex' = poolIndex
      BY <1>7 DEF HealthRevalidate
    <2>2. Len(pool') = Len(pool)
      BY <1>p, <2>1
    <2> QED BY <1>p, <2>1, <2>2
  <1>8. CASE UserStep
    BY <1>8, <1>0, <1>1, <1>2, <1>3
    DEF UserStep, UserNext, GetNext, GetCopy, GetMiss, EmergencyCreate,
        EmergencyFail, Release, GetUnpooled, PoolFullState, PoolFullStateEnd,
        setPopulationId, poolVars
  <1>9. CASE EnvironmentStep
    BY <1>9, <1>0 DEF EnvironmentStep, EnvironmentNext, Dispose, Break, poolVars
  <1>10. CASE KeeperStep
    BY <1>10, <1>0, <1>4, <1>5
    DEF KeeperStep, KeeperNext, KeeperCount, KeeperLaunch, KeeperError,
        KeeperCreate, KeeperCreateFails, baseVars, poolVars
  <1>11. CASE HealthStep
    BY <1>11, <1>0, <1>6, <1>7
    DEF HealthStep, HealthNext, HealthSnapshot, HealthTakeBatch, HealthLock,
        HealthLaunch, HealthError, HealthPing, HealthLeave, HealthBatchEnd,
        baseVars, poolVars
  <1>12. CASE UNCHANGED vars
    BY <1>12, <1>0 DEF vars, baseVars, poolVars
  <1> QED BY <1>8, <1>9, <1>10, <1>11, <1>12 DEF Next, Ended

\* The assertion at the head of get() holds in every state: the index is reset
\* wherever the vector shrinks.
THEOREM IndexCorrect == Spec => []PoolIndexInRange
  <1>1. Init => PoolIndexInRange
    BY DEF Init, BaseInit, PoolIndexInRange
  <1> QED
    BY <1>1, TypedInit, TypedStep, IndexStep, PTL DEF Spec

-----------------------------------------------------------------------------
(* Ownership: no resource is in two hands.                                 *)

\* An item that is not used has no owner but the pool.
LEMMA UnusedItem ==
  ASSUME NEW item, ~isUsed(item)
  PROVE  /\ \A u \in Users : ~Holds(u, item.res)
         /\ \A j \in Jobs : item.res \notin jobRefs[j]
  BY BaseAssumption DEF isUsed, Owners, BaseAssumption, Jobs

\* A resource that can be created is nowhere.
LEMMA FreshResource ==
  ASSUME NEW r, Fresh(r)
  PROVE  /\ ~InPool(r)
         /\ \A u \in Users : hand[u] # r
         /\ \A j \in Jobs : r \notin jobRefs[j]
         /\ \A w \in weak : w.res # r
  BY DEF Fresh, Owners

\* The vector only loses items, or their flags change.
Shrinks ==
  \E f \in [DOMAIN pool' -> DOMAIN pool] :
    /\ \A a, b \in DOMAIN pool' : f[a] = f[b] => a = b
    /\ \A a \in DOMAIN pool' : pool'[a].res = pool[f[a]].res

\* Losing items makes no two of them alike.
LEMMA ShrinkKeepsDistinct ==
  ASSUME NoDuplicates, Shrinks
  PROVE  NoDuplicates' /\ \A r : InPool(r)' => InPool(r)
  BY DEF NoDuplicates, Shrinks, InPool

\* Removing an item loses just that.
LEMMA RemoveShrinks ==
  ASSUME pool \in Seq(Items), NEW i \in DOMAIN pool, RemoveItem(i)
  PROVE  Shrinks
  <1> DEFINE f == [k \in DOMAIN pool' |-> IF k < i THEN k ELSE k + 1]
  <1>1. pool' = Without(i)
    BY DEF RemoveItem
  <1>2. DOMAIN pool' = 1 .. Len(pool) - 1 /\ i \in 1 .. Len(pool) /\ Len(pool) \in Nat
    BY <1>1 DEF Without
  <1>3. f \in [DOMAIN pool' -> DOMAIN pool]
    BY <1>2
  <1>4. \A a, b \in DOMAIN pool' : f[a] = f[b] => a = b
    BY <1>2
  <1>5. \A a \in DOMAIN pool' : pool'[a].res = pool[f[a]].res
    BY <1>1, <1>2 DEF Without
  <1> QED BY <1>3, <1>4, <1>5 DEF Shrinks

\* So does erasing, even of a resource that is not there.
LEMMA EraseShrinks ==
  ASSUME BaseTypeOK, NEW r, EraseUnsafe(r)
  PROVE  Shrinks
  <1>1. pool # <<>> => Len(pool) \in DOMAIN pool
    BY DEF BaseTypeOK
  <1>2. ASSUME UNCHANGED pool PROVE Shrinks
    <2> DEFINE f == [k \in DOMAIN pool' |-> k]
    <2>1. f \in [DOMAIN pool' -> DOMAIN pool] /\ \A k \in DOMAIN pool' : f[k] = k
      BY <1>2
    <2> QED BY <1>2, <2>1 DEF Shrinks
  <1> QED BY <1>1, <1>2, RemoveShrinks DEF EraseUnsafe, BaseTypeOK

\* A step that moves nothing in or out of the pool or a call's hand.
LEMMA OwnershipUnmoved ==
  ASSUME Ownership, UNCHANGED <<pool, hand, pc, mutex>>,
         jobRefs'["keeper"] = jobRefs["keeper"]
  PROVE  Ownership'
  BY DEF Ownership, NoDuplicates, HandMatchesPc, CopyIsLocked, HandsDistinct,
         ArrivalsOutside, InPool

\* While the mutex is free no call is between two steps of a critical section.
LEMMA MutexFree ==
  ASSUME CopyIsLocked, mutex = None
  PROVE  \A u \in Users : pc[u] \notin {"copy", "probing"}
  <1> SUFFICES ASSUME NEW u \in Users, pc[u] \in {"copy", "probing"}
               PROVE  FALSE
    OBVIOUS
  <1>1. mutex = u
    BY DEF CopyIsLocked
  <1> QED BY <1>1, BaseAssumption DEF BaseAssumption

\* While a call has the mutex no other call is there.
LEMMA MutexHeld ==
  ASSUME CopyIsLocked, NEW u \in Users, mutex = u
  PROVE  \A v \in Users \ {u} : pc[v] \notin {"copy", "probing"}
  <1> SUFFICES ASSUME NEW v \in Users \ {u}, pc[v] \in {"copy", "probing"}
               PROVE  FALSE
    OBVIOUS
  <1>1. mutex = v
    BY DEF CopyIsLocked
  <1> QED BY <1>1

\* A critical section that only takes items out of the pool.
LEMMA OwnershipShrinks ==
  ASSUME Ownership, BaseTypeOK, mutex = None, Shrinks, UNCHANGED <<hand, pc, mutex>>,
         jobRefs'["keeper"] = jobRefs["keeper"]
  PROVE  Ownership'
  <1>1. NoDuplicates' /\ \A r : InPool(r)' => InPool(r)
    BY ShrinkKeepsDistinct DEF Ownership
  <1>2. \A u \in Users : pc[u] \notin {"copy", "probing"}
    BY MutexFree DEF Ownership
  <1>3. HandMatchesPc' /\ HandsDistinct'
    BY DEF Ownership, HandMatchesPc, HandsDistinct
  <1>4. CopyIsLocked'
    BY <1>2 DEF CopyIsLocked
  <1>5. ArrivalsOutside'
    BY <1>1 DEF Ownership, ArrivalsOutside
  <1> QED BY <1>1, <1>3, <1>4, <1>5 DEF Ownership

\* A call takes in hand a resource that no other call and no job has.
LEMMA OwnershipTaken ==
  ASSUME Ownership, BaseTypeOK, BaseTypeOK', NEW u \in Users, NEW r \in Resources,
         hand' = [hand EXCEPT ![u] = r],
         \A v \in Users : hand[v] # r,
         r \notin jobRefs["keeper"], ~InPool(r),
         \/ pc' = [pc EXCEPT ![u] = "adding"]
         \/ pc' = [pc EXCEPT ![u] = "holding"],
         pc[u] # "copy",
         UNCHANGED <<pool, mutex, jobRefs>>
  PROVE  Ownership'
  <1> USE DEF BaseTypeOK
  <1>1. NoDuplicates' /\ \A x : InPool(x)' = InPool(x)
    BY DEF Ownership, NoDuplicates, InPool
  <1>2. HandMatchesPc' /\ HandsDistinct'
    BY DEF Ownership, HandMatchesPc, HandsDistinct
  <1>3. CopyIsLocked'
    BY <1>1 DEF Ownership, CopyIsLocked
  <1>4. ArrivalsOutside'
    BY <1>1 DEF Ownership, ArrivalsOutside
  <1> QED BY <1>1, <1>2, <1>3, <1>4 DEF Ownership

\* A call leaves or enters a place where it has nothing in hand.
LEMMA OwnershipIdle ==
  ASSUME Ownership, BaseTypeOK, NEW u \in Users, NEW p \in {"idle", "creating"},
         pc[u] \notin {"copy", "probing"},
         pc' = [pc EXCEPT ![u] = p],
         hand' = [hand EXCEPT ![u] = None],
         UNCHANGED <<pool, jobRefs, mutex>>
  PROVE  Ownership'
  <1> USE DEF BaseTypeOK
  <1>1. NoDuplicates' /\ \A x : InPool(x)' = InPool(x)
    BY DEF Ownership, NoDuplicates, InPool
  <1>2. HandMatchesPc' /\ HandsDistinct'
    BY DEF Ownership, HandMatchesPc, HandsDistinct
  <1>3. CopyIsLocked'
    BY <1>1, BaseAssumption DEF Ownership, CopyIsLocked, BaseAssumption
  <1>4. ArrivalsOutside'
    <2>1. None \notin jobRefs["keeper"]
      BY BaseAssumption DEF BaseAssumption, Jobs
    <2> QED BY <1>1, <2>1 DEF Ownership, ArrivalsOutside
  <1> QED BY <1>1, <1>2, <1>3, <1>4 DEF Ownership

\* A user's call takes in hand what nobody else has: an unused item of the pool, or a
\* resource of its own.
LEMMA OwnershipUserStep ==
  ASSUME Ownership, Typed, Typed', UserStep
  PROVE  Ownership'
  <1>t. BaseTypeOK /\ BaseTypeOK'
    BY DEF Typed, TypeOK
  <1>1. ASSUME NEW u \in Users, GetFound(u) PROVE Ownership'
    <2> USE DEF BaseTypeOK
    <2>1. PICK i \in DOMAIN pool :
            /\ isAvailable(pool[i]) /\ Claim(i)
            /\ hand' = [hand EXCEPT ![u] = pool[i].res]
      BY <1>1 DEF GetFound, Candidates, AvailableIndices
    <2>2. /\ pool' \in Seq(Items) /\ DOMAIN pool' = DOMAIN pool
          /\ \A k \in DOMAIN pool : pool'[k].res = pool[k].res
      BY <1>t, <2>1, ClaimType
    <2>3. \A v \in Users : ~Holds(v, pool[i].res)
      BY <2>1, UnusedItem DEF isAvailable
    <2>4. pool[i].res \in Resources /\ pool[i].res # None
      BY <1>t, ItemType, BaseAssumption DEF BaseAssumption
    <2>5. /\ pc[u] = "idle" /\ mutex = None /\ mutex' = u
          /\ pc' = [pc EXCEPT ![u] = "copy"] /\ jobRefs' = jobRefs
      BY <1>1 DEF GetFound, KeepLocked
    <2>6. \A v \in Users : pc[v] \notin {"copy", "probing"}
      BY <2>5, MutexFree DEF Ownership
    <2>7. \A v \in Users : hand[v] # pool[i].res
      BY <1>t, <2>3, <2>4, <2>6 DEF Ownership, HandMatchesPc, Holds
    <2>8. NoDuplicates' /\ \A r : InPool(r)' = InPool(r)
      BY <2>2 DEF Ownership, NoDuplicates, InPool
    <2>9. HandMatchesPc' /\ HandsDistinct'
      BY <1>t, <2>1, <2>4, <2>5, <2>7 DEF Ownership, HandMatchesPc, HandsDistinct
    <2>10. CopyIsLocked'
      <3>1. InPool(pool[i].res)
        BY DEF InPool
      <3> QED BY <1>t, <2>1, <2>5, <2>6, <2>8, <3>1 DEF CopyIsLocked
    <2>11. ArrivalsOutside'
      <3>1. pool[i].res \notin jobRefs["keeper"]
        BY DEF Ownership, ArrivalsOutside, InPool
      <3> QED BY <1>t, <2>1, <2>5, <2>8, <3>1 DEF Ownership, ArrivalsOutside
    <2> QED BY <2>8, <2>9, <2>10, <2>11 DEF Ownership
  <1>2. ASSUME NEW u \in Users, GetCopy(u) PROVE Ownership'
    <2> USE DEF BaseTypeOK
    <2>1. /\ pc[u] = "copy" /\ pc' = [pc EXCEPT ![u] = "holding"]
          /\ UNCHANGED <<pool, hand, jobRefs>>
      BY <1>2 DEF GetCopy
    <2>2. NoDuplicates' /\ \A r : InPool(r)' = InPool(r)
      BY <2>1 DEF Ownership, NoDuplicates, InPool
    <2>3. HandMatchesPc' /\ HandsDistinct'
      BY <1>t, <2>1 DEF Ownership, HandMatchesPc, HandsDistinct
    <2>4. CopyIsLocked'
      <3>1. \A v \in Users \ {u} : pc[v] \notin {"copy", "probing"}
        BY <2>1, MutexHeld DEF Ownership, CopyIsLocked
      <3> QED BY <1>t, <2>1, <3>1 DEF CopyIsLocked
    <2>5. ArrivalsOutside'
      BY <1>t, <2>1, <2>2 DEF Ownership, ArrivalsOutside
    <2> QED BY <2>2, <2>3, <2>4, <2>5 DEF Ownership
  <1>3. ASSUME NEW u \in Users, GetMiss(u) \/ EmergencyFail(u) PROVE Ownership'
    <2>1. hand[u] = None
      BY <1>3 DEF GetMiss, EmergencyFail, Ownership, HandMatchesPc
    <2>2. hand' = [hand EXCEPT ![u] = None]
      BY <1>3, <1>t, <2>1 DEF GetMiss, EmergencyFail, BaseTypeOK
    <2> QED
      BY <1>3, <1>t, <2>2, OwnershipIdle DEF GetMiss, EmergencyFail, poolVars
  <1>4. ASSUME NEW u \in Users, EmergencyCreate(u) \/ GetUnpooled(u) PROVE Ownership'
    <2>1. PICK r \in Resources : Fresh(r) /\ hand' = [hand EXCEPT ![u] = r]
      BY <1>4 DEF EmergencyCreate, GetUnpooled, Create
    <2>2. /\ \A v \in Users : hand[v] # r
          /\ r \notin jobRefs["keeper"] /\ ~InPool(r)
      BY <2>1, FreshResource DEF Jobs
    <2> QED
      BY <1>4, <1>t, <2>1, <2>2, OwnershipTaken
      DEF EmergencyCreate, GetUnpooled, poolVars
  <1>5. ASSUME NEW u \in Users, EmergencyAdd(u) PROVE Ownership'
    <2> USE DEF BaseTypeOK
    <2> DEFINE item == [res |-> hand[u], valid |-> ~Invalidate]
    <2>1. /\ \/ pool' = Append(pool, item)
             \/ UNCHANGED pool
          /\ pc[u] = "adding" /\ mutex = None
          /\ pc' = [pc EXCEPT ![u] = "holding"]
          /\ UNCHANGED <<hand, mutex, jobRefs>>
      BY <1>5 DEF EmergencyAdd
    <2>2. item.res = hand[u]
      OBVIOUS
    <2>3. ~InPool(hand[u]) /\ hand[u] \notin jobRefs["keeper"]
      BY <2>1 DEF Ownership, ArrivalsOutside
    <2>4. hand[u] \in Resources /\ hand[u] # None
      BY <2>1, BaseAssumption DEF Ownership, HandMatchesPc, BaseAssumption
    <2> HIDE DEF item
    <2>a. \A k \in DOMAIN pool' :
            \/ k \in DOMAIN pool /\ pool'[k] = pool[k]
            \/ k = Len(pool) + 1 /\ pool'[k] = item
      BY <1>t, <2>1
    <2>5. NoDuplicates'
      BY <2>a, <2>2, <2>3 DEF Ownership, NoDuplicates, InPool
    <2>6. \A r : InPool(r)' => InPool(r) \/ r = hand[u]
      BY <2>a, <2>2 DEF InPool
    <2>7. HandMatchesPc' /\ HandsDistinct'
      BY <1>t, <2>1 DEF Ownership, HandMatchesPc, HandsDistinct
    <2>8. CopyIsLocked'
      <3>1. \A v \in Users : pc[v] \notin {"copy", "probing"}
        BY <2>1, MutexFree DEF Ownership
      <3> QED BY <1>t, <2>1, <3>1 DEF CopyIsLocked
    <2>9. ArrivalsOutside'
      BY <1>t, <2>1, <2>3, <2>4, <2>6 DEF Ownership, ArrivalsOutside, HandsDistinct
    <2> QED BY <2>5, <2>7, <2>8, <2>9 DEF Ownership
  <1>6. ASSUME NEW u \in Users, Release(u) PROVE Ownership'
    BY <1>6, <1>t, OwnershipIdle DEF Release, poolVars
  <1>7. ASSUME NEW u \in Users, PoolFullState(u) \/ PoolFullStateEnd(u)
        PROVE  Ownership'
    <2> USE DEF BaseTypeOK
    <2>1. hand[u] = None
      BY <1>7 DEF PoolFullState, PoolFullStateEnd, Ownership, HandMatchesPc
    <2>2. /\ UNCHANGED <<pool, hand, jobRefs>>
          /\ \/ pc' = [pc EXCEPT ![u] = "probing"] /\ mutex' = u
             \/ pc' = [pc EXCEPT ![u] = "idle"]
          /\ pc[u] \in {"idle", "probing"}
      BY <1>7 DEF PoolFullState, PoolFullStateEnd
    <2>3. \A v \in Users \ {u} : pc[v] \notin {"copy", "probing"}
      <3>1. mutex = None \/ mutex = u
        BY <1>7 DEF PoolFullState, PoolFullStateEnd, Ownership, CopyIsLocked
      <3> QED BY <3>1, MutexFree, MutexHeld DEF Ownership
    <2>4. NoDuplicates' /\ \A r : InPool(r)' = InPool(r)
      BY <2>2 DEF Ownership, NoDuplicates, InPool
    <2>5. HandMatchesPc' /\ HandsDistinct'
      BY <1>t, <2>1, <2>2 DEF Ownership, HandMatchesPc, HandsDistinct
    <2>6. CopyIsLocked'
      BY <1>t, <2>2, <2>3 DEF CopyIsLocked
    <2>7. ArrivalsOutside'
      BY <1>t, <2>2, <2>4 DEF Ownership, ArrivalsOutside
    <2> QED BY <2>4, <2>5, <2>6, <2>7 DEF Ownership
  <1>8. CASE ClearPool
    <2>1. Shrinks
      <3> DEFINE f == [k \in DOMAIN pool' |-> k]
      <3>1. DOMAIN pool' = {}
        BY <1>8 DEF ClearPool
      <3>2. f \in [DOMAIN pool' -> DOMAIN pool]
        BY <3>1
      <3> QED BY <3>1, <3>2 DEF Shrinks
    <2> QED
      BY <1>8, <1>t, <2>1, OwnershipShrinks DEF ClearPool, userVars, BaseTypeOK, Jobs
  <1>9. ASSUME NEW id \in PopulationIds, setPopulationId(id) PROVE Ownership'
    BY <1>9, OwnershipUnmoved DEF setPopulationId, userVars
  <1> QED
    BY <1>1, <1>2, <1>3, <1>4, <1>5, <1>6, <1>7, <1>8, <1>9
    DEF UserStep, UserNext, GetNext

\* The keeper creates outside the pool, adds what only it owns, and removes.
LEMMA OwnershipKeeperStep ==
  ASSUME Ownership, Typed, Typed', KeeperStep
  PROVE  Ownership'
  <1>t. BaseTypeOK /\ BaseTypeOK'
    BY DEF Typed, TypeOK
  <1>1. CASE KeeperCount \/ KeeperLaunch \/ KeeperError \/ KeeperCreateFails
    BY <1>1, OwnershipUnmoved
    DEF KeeperCount, KeeperLaunch, KeeperError, KeeperCreateFails, baseVars,
        poolVars, userVars
  <1>2. CASE KeeperCreate
    <2>1. PICK r \in Resources :
            Fresh(r) /\ jobRefs' = [jobRefs EXCEPT !["keeper"] = @ \cup {r}]
      BY <1>2 DEF KeeperCreate, Create
    <2>2. UNCHANGED <<pool, hand, pc, mutex>>
      BY <1>2 DEF KeeperCreate, poolVars, userVars
    <2>3. ~InPool(r) /\ \A u \in Users : hand[u] # r
      BY <2>1, FreshResource
    <2>4. jobRefs'["keeper"] = jobRefs["keeper"] \cup {r}
      BY <1>t, <2>1 DEF BaseTypeOK, Jobs
    <2>5. NoDuplicates' /\ \A x : InPool(x)' = InPool(x)
      BY <2>2 DEF Ownership, NoDuplicates, InPool
    <2>6. HandMatchesPc' /\ HandsDistinct' /\ CopyIsLocked'
      BY <2>2, <2>5 DEF Ownership, HandMatchesPc, HandsDistinct, CopyIsLocked
    <2>7. ArrivalsOutside'
      BY <2>2, <2>3, <2>4, <2>5 DEF Ownership, ArrivalsOutside
    <2> QED BY <2>5, <2>6, <2>7 DEF Ownership
  <1>3. CASE KeeperAdd
    <2>1. /\ mutex = None /\ UNCHANGED <<hand, pc, mutex>>
          /\ jobRefs' = [jobRefs EXCEPT !["keeper"] = {}]
      BY <1>3 DEF KeeperAdd, userVars
    <2>2. jobRefs'["keeper"] = {}
      BY <1>t, <2>1 DEF BaseTypeOK, Jobs
    <2>3. \A u \in Users : pc[u] \notin {"copy", "probing"}
      BY <2>1, MutexFree DEF Ownership
    <2>4. HandMatchesPc' /\ HandsDistinct' /\ CopyIsLocked'
      BY <2>1, <2>3 DEF Ownership, HandMatchesPc, HandsDistinct, CopyIsLocked
    <2>5. NoDuplicates' /\ \A r : InPool(r)' => InPool(r) \/ r \in jobRefs["keeper"]
      <3>1. CASE UNCHANGED pool
        BY <3>1 DEF Ownership, NoDuplicates, InPool
      <3>2. CASE ~UNCHANGED pool
        <4>1. PICK added \in Seq(Items) :
                /\ pool' = pool \o added
                /\ \A k \in DOMAIN added : added[k].res \in jobRefs["keeper"]
                /\ \A a, b \in DOMAIN added : added[a].res = added[b].res => a = b
          BY <1>t, <1>3, <3>2, KeeperAddItems
        <4>2. \A k \in DOMAIN pool' :
                \/ k \in DOMAIN pool /\ pool'[k] = pool[k]
                \/ /\ k - Len(pool) \in DOMAIN added
                   /\ pool'[k] = added[k - Len(pool)]
          BY <1>t, <4>1 DEF BaseTypeOK
        <4>3. \A k \in DOMAIN pool' : k \in Nat
          BY <1>t DEF BaseTypeOK
        <4>4. Len(pool) \in Nat
          BY <1>t DEF BaseTypeOK
        <4>5. \A k \in DOMAIN pool : pool[k].res \notin jobRefs["keeper"]
          BY DEF Ownership, ArrivalsOutside, InPool
        <4>6. NoDuplicates'
          BY <4>1, <4>2, <4>3, <4>4, <4>5 DEF Ownership, NoDuplicates
        <4> QED BY <4>1, <4>2, <4>6 DEF InPool
      <3> QED BY <3>1, <3>2
    <2>6. ArrivalsOutside'
      BY <2>1, <2>2, <2>5 DEF Ownership, ArrivalsOutside
    <2> QED BY <2>4, <2>5, <2>6 DEF Ownership
  <1>4. CASE KeeperTrim
    <2> DEFINE kept == DOMAIN pool \ (FirstPass \cup SecondPass)
    <2>1. KeepOnly(kept) /\ mutex = None /\ UNCHANGED <<hand, pc, mutex>>
      BY <1>4 DEF KeeperTrim, userVars
    <2>2. Shrinks
      BY <1>t, <2>1, KeepOnlyType DEF BaseTypeOK, Shrinks
    <2>3. jobRefs'["keeper"] = jobRefs["keeper"]
      BY <1>t, <1>4 DEF KeeperTrim, BaseTypeOK, Jobs
    <2> QED BY <1>t, <2>1, <2>2, <2>3, OwnershipShrinks
  <1> QED
    BY <1>1, <1>2, <1>3, <1>4 DEF KeeperStep, KeeperNext

\* The health care job only erases items or makes them valid.
LEMMA OwnershipHealthStep ==
  ASSUME Ownership, Typed, Typed', HealthStep
  PROVE  Ownership'
  <1>t. BaseTypeOK /\ BaseTypeOK'
    BY DEF Typed, TypeOK
  <1>1. CASE \/ HealthSnapshot \/ HealthTakeBatch \/ HealthLaunch
             \/ \E c \in checks : HealthPing(c) \/ HealthLeave(c)
    BY <1>1, OwnershipUnmoved
    DEF HealthSnapshot, HealthTakeBatch, HealthLaunch, HealthPing, HealthLeave,
        baseVars, poolVars, userVars
  <1>2. CASE HealthError \/ HealthBatchEnd \/ \E item \in batch : HealthLock(item)
    <2>1. jobRefs'["keeper"] = jobRefs["keeper"]
      BY <1>t, <1>2 DEF HealthError, HealthBatchEnd, HealthLock, BaseTypeOK, Jobs
    <2>2. UNCHANGED <<pool, hand, pc, mutex>>
      BY <1>2 DEF HealthError, HealthBatchEnd, HealthLock, poolVars, userVars
    <2> QED BY <2>1, <2>2, OwnershipUnmoved
  <1>3. ASSUME NEW c \in checks, HealthErase(c) PROVE Ownership'
    BY <1>t, <1>3, EraseShrinks, OwnershipShrinks DEF HealthErase, userVars
  <1>4. ASSUME NEW c \in checks, HealthRevalidate(c) PROVE Ownership'
    <2>1. DOMAIN pool' = DOMAIN pool
      BY <1>4 DEF HealthRevalidate
    <2>2. \A k \in DOMAIN pool : pool'[k].res = pool[k].res
      <3>1. \A k \in DOMAIN pool : pool[k] \in Items
        BY <1>t, ItemType DEF BaseTypeOK
      <3> QED BY <1>4, <3>1 DEF HealthRevalidate, Items
    <2>3. Shrinks
      <3> DEFINE f == [k \in DOMAIN pool' |-> k]
      <3>1. f \in [DOMAIN pool' -> DOMAIN pool] /\ \A k \in DOMAIN pool' : f[k] = k
        BY <2>1
      <3> QED BY <2>1, <2>2, <3>1 DEF Shrinks
    <2> QED BY <1>t, <1>4, <2>3, OwnershipShrinks DEF HealthRevalidate, userVars
  <1> QED
    BY <1>1, <1>2, <1>3, <1>4 DEF HealthStep, HealthNext

\* Ownership is inductive, with the types.
LEMMA OwnershipStep == Typed /\ Ownership /\ [Next]_vars => Ownership'
  <1> SUFFICES ASSUME Typed, Ownership, [Next]_vars
               PROVE  Ownership'
    OBVIOUS
  <1>t. Typed'
    BY TypedStep
  <1>1. CASE EnvironmentStep
    <2>1. UNCHANGED <<pool, hand, pc, mutex>>
      BY <1>1
      DEF EnvironmentStep, EnvironmentNext, Dispose, Break, poolVars, userVars
    <2>2. jobRefs'["keeper"] = jobRefs["keeper"]
      BY <1>1
      DEF EnvironmentStep, EnvironmentNext, Dispose, Break, Typed, TypeOK,
          BaseTypeOK, Jobs
    <2> QED BY <2>1, <2>2, OwnershipUnmoved
  <1>2. CASE UNCHANGED vars
    BY <1>2, OwnershipUnmoved DEF vars, baseVars, poolVars, userVars
  <1> QED
    BY <1>t, <1>1, <1>2, OwnershipUserStep, OwnershipKeeperStep, OwnershipHealthStep
    DEF Next, Ended

\* At the start there is nothing to own.
LEMMA OwnershipInit == Init => Ownership
  BY DEF Init, BaseInit, Ownership, NoDuplicates, HandMatchesPc, CopyIsLocked,
         HandsDistinct, ArrivalsOutside, InPool, Jobs

\* A resource is owned as Ownership says: it is in one hand, in the pool once,
\* and what is on its way into the pool is nowhere else.
THEOREM OwnershipCorrect == Spec => []Ownership
  BY TypedInit, TypedStep, OwnershipInit, OwnershipStep, PTL DEF Spec

\* No resource is in the hands of two calls, however the calls and the jobs
\* interleave and however the connections fail.
THEOREM UseIsExclusive == Spec => []ExclusiveUse
  <1>1. Typed /\ Ownership => ExclusiveUse
    BY BaseAssumption
    DEF Typed, Ownership, HandsDistinct, HandMatchesPc, ExclusiveUse, Holds,
        BaseAssumption
  <1>2. Spec => []Typed
    BY TypedInit, TypedStep, PTL DEF Spec
  <1> QED BY <1>1, <1>2, OwnershipCorrect, PTL

-----------------------------------------------------------------------------
(* Validity: a valid item has been checked since it was last lent.         *)

\* The health care job owns what it checks, and has one weak_ptr or one check of
\* a resource.
LEMMA ChecksApartHealthStep ==
  ASSUME Typed, Ownership, ChecksApart, HealthStep
  PROVE  ChecksApart'
  <1>t. BaseTypeOK /\ HealthTypeOK
    BY DEF Typed, TypeOK
  <1>h. jobRefs \in [Jobs -> SUBSET Resources] /\ "health" \in Jobs
    BY <1>t DEF BaseTypeOK, Jobs
  <1> USE DEF ChecksApart
  <1>1. CASE HealthSnapshot
    BY <1>1 DEF HealthSnapshot, Ownership, NoDuplicates
  <1>2. CASE HealthTakeBatch
    BY <1>2 DEF HealthTakeBatch, baseVars
  <1>3. ASSUME NEW item \in batch, HealthLock(item) PROVE ChecksApart'
    <2> DEFINE c0 == [res |-> item.res, valid |-> item.valid, verdict |-> "none"]
    <2>1. c0.res = item.res
      OBVIOUS
    <2>2. item \in weak /\ healthPc = "lock" /\ healthPc' = "lock"
          /\ batch' = batch \ {item} /\ weak' = weak \ {item}
      BY <1>3 DEF HealthLock
    <2>3. CASE UNCHANGED <<jobRefs, checks>>
      BY <2>2, <2>3
    <2>4. CASE /\ jobRefs' = [jobRefs EXCEPT !["health"] = @ \cup {item.res}]
               /\ checks' = checks \cup {c0}
      <3> HIDE DEF c0
      <3>1. jobRefs'["health"] = jobRefs["health"] \cup {item.res}
        BY <1>h, <2>4
      <3> QED BY <2>1, <2>2, <2>4, <3>1
    <2> QED BY <1>3, <2>3, <2>4 DEF HealthLock
  <1>4. CASE HealthLaunch
    <2>1. /\ checks' = {[c EXCEPT !.verdict = "running"] : c \in checks}
          /\ UNCHANGED <<weak, jobRefs, batch>> /\ batch = {}
          /\ healthPc = "lock" /\ healthPc' = "check"
      BY <1>4 DEF HealthLaunch, baseVars
    <2>2. \A c \in checks : [c EXCEPT !.verdict = "running"].res = c.res
      BY <1>t DEF HealthTypeOK
    <2>3. \A d \in checks' :
            \E c \in checks : d = [c EXCEPT !.verdict = "running"] /\ d.res = c.res
      BY <2>1, <2>2
    <2> QED BY <2>1, <2>3
  <1>5. CASE HealthError
    BY <1>5 DEF HealthError
  <1>6. ASSUME NEW c \in checks, HealthPing(c) PROVE ChecksApart'
    <2>1. PICK v \in Verdicts :
            checks' = (checks \ {c}) \cup {[c EXCEPT !.verdict = v]}
      BY <1>6 DEF HealthPing
    <2> DEFINE c1 == [c EXCEPT !.verdict = v]
    <2>2. c1.res = c.res /\ checks' = (checks \ {c}) \cup {c1}
      BY <1>t, <2>1 DEF HealthTypeOK
    <2>3. UNCHANGED <<weak, jobRefs, batch, healthPc>>
      BY <1>6 DEF HealthPing
    <2> HIDE DEF c1
    <2> QED BY <2>2, <2>3
  <1>7. ASSUME NEW c \in checks,
               HealthErase(c) \/ HealthRevalidate(c) \/ HealthLeave(c)
        PROVE  ChecksApart'
    BY <1>7 DEF HealthErase, HealthRevalidate, HealthLeave, baseVars
  <1>8. CASE HealthBatchEnd
    BY <1>8 DEF HealthBatchEnd
  <1> QED
    BY <1>1, <1>2, <1>3, <1>4, <1>5, <1>6, <1>7, <1>8 DEF HealthStep, HealthNext

\* No other step touches what the health care job has.
LEMMA ChecksApartStep == Typed /\ Ownership /\ ChecksApart /\ [Next]_vars => ChecksApart'
  <1> SUFFICES ASSUME Typed, Ownership, ChecksApart, [Next]_vars
               PROVE  ChecksApart'
    OBVIOUS
  <1>j. jobRefs \in [Jobs -> SUBSET Resources] /\ "health" \in Jobs
    BY DEF Typed, TypeOK, BaseTypeOK, Jobs
  <1>1. ASSUME UNCHANGED <<weak, healthVars>>, jobRefs'["health"] = jobRefs["health"]
        PROVE  ChecksApart'
    BY <1>1 DEF ChecksApart, healthVars
  <1>2. CASE UserStep
    BY <1>j, <1>1, <1>2
    DEF UserStep, UserNext, GetNext, GetFound, GetCopy, GetMiss, EmergencyCreate,
        EmergencyFail, EmergencyAdd, Release, GetUnpooled, PoolFullState,
        PoolFullStateEnd, ClearPool, setPopulationId
  <1>3. CASE EnvironmentStep
    BY <1>j, <1>1, <1>3 DEF EnvironmentStep, EnvironmentNext, Dispose, Break
  <1>4. CASE KeeperStep
    BY <1>j, <1>1, <1>4
    DEF KeeperStep, KeeperNext, KeeperCount, KeeperLaunch, KeeperError, KeeperCreate,
        KeeperCreateFails, KeeperAdd, KeeperTrim, baseVars
  <1>5. CASE UNCHANGED vars
    BY <1>1, <1>5 DEF vars, baseVars
  <1> QED
    BY <1>2, <1>3, <1>4, <1>5, ChecksApartHealthStep DEF Next, Ended

\* Every item of the vector was there, just so.
NoNewItems == \A a \in DOMAIN pool' : \E b \in DOMAIN pool : pool'[a] = pool[b]

\* Erasing brings no item.
LEMMA EraseNoNewItems ==
  ASSUME BaseTypeOK, NEW r, EraseUnsafe(r)
  PROVE  NoNewItems
  <1>1. pool # <<>> => Len(pool) \in DOMAIN pool
    BY DEF BaseTypeOK
  <1>2. ASSUME NEW i \in DOMAIN pool, RemoveItem(i) PROVE NoNewItems
    <2>1. pool' = Without(i)
      BY <1>2 DEF RemoveItem
    <2> QED BY <2>1 DEF Without, NoNewItems, BaseTypeOK
  <1>3. UNCHANGED pool => NoNewItems
    BY DEF NoNewItems
  <1> QED BY <1>1, <1>2, <1>3 DEF EraseUnsafe

\* A step that brings no item, lends nothing and starts no check keeps Validity.
LEMMA ValidityShrinks ==
  ASSUME Validity, NoNewItems,
         weak' \subseteq weak, checks' \subseteq checks, dirty' \subseteq dirty,
         jobRefs'["keeper"] \subseteq jobRefs["keeper"],
         \A u \in Users : hand'[u] = hand[u] \/ hand'[u] = None,
         \A u \in Users : pc'[u] = "copy" => pc[u] = "copy" /\ hand'[u] = hand[u]
  PROVE  Validity'
  <1>1. \A r : Revalidating(r)' => Revalidating(r)
    BY DEF Revalidating
  <1>2. \A r \in Resources : r # None
    BY BaseAssumption DEF BaseAssumption
  <1>3. \A a \in DOMAIN pool' : pool'[a].valid =>
          /\ pool'[a].res \notin dirty'
          /\ \A u \in Users : pc'[u] = "copy" => hand'[u] # pool'[a].res
          /\ ~Revalidating(pool'[a].res)
    BY DEF Validity, NoNewItems
  <1> QED BY <1>1, <1>2, <1>3 DEF Validity, Revalidating

\* A resource that can be created is not being checked.
LEMMA FreshNotRevalidating ==
  ASSUME ChecksApart, NEW r, Fresh(r)
  PROVE  ~Revalidating(r) /\ \A c \in checks : c.res # r
  BY FreshResource DEF ChecksApart, Revalidating, Jobs

\* Where the model tracks what was lent, get() takes only what is checked.
LEMMA ValidityUserStep ==
  ASSUME Invalidate, Typed, Typed', Ownership, ChecksApart, Validity, UserStep
  PROVE  Validity'
  <1>t. BaseTypeOK /\ BaseTypeOK' /\ UNCHANGED healthVars
    BY DEF Typed, TypeOK, UserStep
  <1>c. UNCHANGED checks
    BY <1>t DEF healthVars
  <1>1. ASSUME NEW u \in Users, GetFound(u) PROVE Validity'
    <2>1. PICK i \in DOMAIN pool :
            /\ isAvailable(pool[i]) /\ Claim(i)
            /\ hand' = [hand EXCEPT ![u] = pool[i].res]
      BY <1>1 DEF GetFound, Candidates, AvailableIndices
    <2>2. /\ DOMAIN pool' = DOMAIN pool /\ ~pool'[i].valid
          /\ \A k \in DOMAIN pool :
               pool'[k].res = pool[k].res /\ (k # i => pool'[k] = pool[k])
      BY <1>t, <2>1, ClaimType DEF BaseTypeOK
    <2>3. UNCHANGED <<weak, dirty, jobRefs>> /\ pc' = [pc EXCEPT ![u] = "copy"]
      BY <1>1 DEF GetFound
    <2>4. ~Revalidating(pool[i].res)
      BY <2>1 DEF Validity, isAvailable
    <2>5. \A r : Revalidating(r)' = Revalidating(r)
      BY <1>c, <2>3 DEF Revalidating
    <2>6. \A v \in Users : /\ v # u => hand'[v] = hand[v]
                           /\ v = u => hand'[v] = pool[i].res
                           /\ pc'[v] = "copy" => pc[v] = "copy" \/ v = u
      <3>1. DOMAIN hand = Users /\ DOMAIN pc = Users
        BY <1>t DEF BaseTypeOK
      <3>2. \A v \in Users : /\ v # u => hand'[v] = hand[v]
                             /\ v = u => hand'[v] = pool[i].res
        BY <2>1, <3>1
      <3>3. \A v \in Users : pc'[v] = "copy" => pc[v] = "copy" \/ v = u
        BY <2>3, <3>1
      <3> QED BY <3>2, <3>3
    <2>7. \A k \in DOMAIN pool : k # i => pool[k].res # pool[i].res
      BY DEF Ownership, NoDuplicates
    <2>8. \A k \in DOMAIN pool' : pool'[k].valid =>
            k # i /\ pool[k].valid /\ pool'[k].res = pool[k].res
      BY <2>2
    <2>9. \A k \in DOMAIN pool' : pool'[k].valid =>
            /\ pool'[k].res \notin dirty'
            /\ \A v \in Users : pc'[v] = "copy" => hand'[v] # pool'[k].res
            /\ ~Revalidating(pool'[k].res)
      BY <2>2, <2>3, <2>6, <2>7, <2>8 DEF Validity
    <2>10. \A r \in Resources : Revalidating(r) => \A v \in Users : hand'[v] # r
      BY <2>4, <2>6 DEF Validity
    <2> QED
      BY <1>c, <2>3, <2>5, <2>9, <2>10 DEF Validity
  <1>2. ASSUME NEW u \in Users, GetCopy(u) PROVE Validity'
    <2>1. /\ UNCHANGED <<pool, hand, weak, jobRefs>> /\ pc[u] = "copy"
          /\ pc' = [pc EXCEPT ![u] = "holding"] /\ dirty' = dirty \cup {hand[u]}
      BY <1>2 DEF GetCopy, Lend
    <2>2. \A r : Revalidating(r)' = Revalidating(r)
      BY <1>c, <2>1 DEF Revalidating
    <2>3. hand[u] \in Resources
      BY <2>1 DEF Ownership, HandMatchesPc
    <2>4. \A v \in Users : pc'[v] = "copy" => pc[v] = "copy"
      BY <1>t, <2>1 DEF BaseTypeOK
    <2>5. InPool(hand[u]) /\ hand[u] \notin jobRefs["keeper"]
      BY <2>1 DEF Ownership, CopyIsLocked, ArrivalsOutside
    <2>6. ~Revalidating(hand[u])
      BY <2>3 DEF Validity
    <2>7. \A c \in checks : ~c.valid => c.res # hand[u]
      BY <2>6 DEF Revalidating
    <2>8. \A k \in DOMAIN pool : pool[k].valid => pool[k].res # hand[u]
      BY <2>1 DEF Validity
    <2> QED
      BY <1>c, <2>1, <2>2, <2>4, <2>5, <2>7, <2>8 DEF Validity
  <1>3. ASSUME NEW u \in Users, EmergencyCreate(u) \/ GetUnpooled(u) PROVE Validity'
    <2>1. PICK r \in Resources :
            /\ Fresh(r) /\ hand' = [hand EXCEPT ![u] = r]
            /\ dirty' = dirty \cup {r}
      BY <1>3 DEF EmergencyCreate, GetUnpooled, Create, Lend
    <2>2. /\ UNCHANGED <<pool, weak, jobRefs>>
          /\ \A v \in Users : pc'[v] = "copy" => pc[v] = "copy" /\ v # u
      BY <1>3, <1>t DEF EmergencyCreate, GetUnpooled, poolVars, BaseTypeOK
    <2>3. \A v \in Users : (v # u => hand'[v] = hand[v]) /\ hand'[u] = r
      BY <1>t, <2>1 DEF BaseTypeOK
    <2>4. ~InPool(r) /\ r \notin jobRefs["keeper"]
      BY <2>1, FreshResource DEF Jobs
    <2>5. ~Revalidating(r) /\ \A c \in checks : c.res # r
      BY <2>1, FreshNotRevalidating
    <2>6. \A x : Revalidating(x)' = Revalidating(x)
      BY <1>c, <2>2 DEF Revalidating
    <2>7. \A k \in DOMAIN pool : pool[k].res # r
      BY <2>4 DEF InPool
    <2> QED
      BY <1>c, <2>1, <2>2, <2>3, <2>4, <2>5, <2>6, <2>7 DEF Validity
  <1>4. ASSUME NEW u \in Users, EmergencyAdd(u) PROVE Validity'
    <2> DEFINE item == [res |-> hand[u], valid |-> ~Invalidate]
    <2>1. /\ \/ pool' = Append(pool, item)
             \/ UNCHANGED pool
          /\ UNCHANGED <<hand, weak, dirty, jobRefs>>
          /\ pc' = [pc EXCEPT ![u] = "holding"]
      BY <1>4 DEF EmergencyAdd
    <2>2. ~item.valid
      OBVIOUS
    <2> HIDE DEF item
    <2>3. \A k \in DOMAIN pool' : pool'[k].valid =>
            k \in DOMAIN pool /\ pool'[k] = pool[k]
      BY <1>t, <2>1, <2>2, SMTT(30) DEF BaseTypeOK
    <2>4. \A v \in Users : pc'[v] = "copy" => pc[v] = "copy"
      BY <1>t, <2>1 DEF BaseTypeOK
    <2>5. \A r : Revalidating(r)' = Revalidating(r)
      BY <1>c, <2>1 DEF Revalidating
    <2> QED BY <1>c, <2>1, <2>3, <2>4, <2>5 DEF Validity
  <1>5. ASSUME NEW u \in Users,
               \/ GetMiss(u) \/ EmergencyFail(u) \/ Release(u)
               \/ PoolFullState(u) \/ PoolFullStateEnd(u)
        PROVE  Validity'
    <2>1. UNCHANGED <<pool, weak, dirty, jobRefs>>
      BY <1>5 DEF GetMiss, EmergencyFail, Release, PoolFullState, PoolFullStateEnd,
                  poolVars
    <2>2. \A v \in Users :
            /\ hand'[v] = hand[v] \/ hand'[v] = None
            /\ pc'[v] = "copy" => pc[v] = "copy" /\ hand'[v] = hand[v]
      BY <1>5, <1>t DEF GetMiss, EmergencyFail, Release, PoolFullState,
                        PoolFullStateEnd, BaseTypeOK
    <2>3. NoNewItems
      BY <2>1 DEF NoNewItems
    <2> QED BY <1>c, <2>1, <2>2, <2>3, ValidityShrinks
  <1>6. ASSUME ClearPool \/ \E id \in PopulationIds : setPopulationId(id)
        PROVE  Validity'
    <2>1. UNCHANGED <<hand, pc, weak, dirty>> /\ jobRefs'["keeper"] = jobRefs["keeper"]
      BY <1>6, <1>t DEF ClearPool, setPopulationId, userVars, BaseTypeOK, Jobs
    <2>2. NoNewItems
      BY <1>6 DEF ClearPool, setPopulationId, NoNewItems
    <2> QED BY <1>c, <2>1, <2>2, ValidityShrinks
  <1> QED
    BY <1>1, <1>2, <1>3, <1>4, <1>5, <1>6 DEF UserStep, UserNext, GetNext

\* What the keeper creates has never been lent, and no check of it can be late.
LEMMA ValidityKeeperStep ==
  ASSUME Invalidate, Typed, Typed', Ownership, ChecksApart, Validity, KeeperStep
  PROVE  Validity'
  <1>t. BaseTypeOK /\ BaseTypeOK' /\ UNCHANGED checks
    BY DEF Typed, TypeOK, KeeperStep, healthVars
  <1>1. CASE KeeperCount \/ KeeperLaunch \/ KeeperError \/ KeeperCreateFails
    <2>1. UNCHANGED <<pool, hand, pc, weak, dirty, jobRefs>>
      BY <1>1 DEF KeeperCount, KeeperLaunch, KeeperError, KeeperCreateFails, baseVars,
                  poolVars, userVars
    <2>2. NoNewItems
      BY <2>1 DEF NoNewItems
    <2> QED BY <1>t, <2>1, <2>2, ValidityShrinks
  <1>2. CASE KeeperCreate
    <2>1. PICK r \in Resources :
            /\ Fresh(r) /\ dirty' = dirty \ {r}
            /\ jobRefs' = [jobRefs EXCEPT !["keeper"] = @ \cup {r}]
      BY <1>2 DEF KeeperCreate, Create
    <2>2. UNCHANGED <<pool, hand, pc, weak>>
      BY <1>2 DEF KeeperCreate, poolVars, userVars
    <2>3. jobRefs'["keeper"] = jobRefs["keeper"] \cup {r}
      BY <1>t, <2>1 DEF BaseTypeOK, Jobs
    <2>4. ~Revalidating(r)
      BY <2>1, FreshNotRevalidating
    <2>5. \A x : Revalidating(x)' = Revalidating(x)
      BY <1>t, <2>2 DEF Revalidating
    <2> QED BY <1>t, <2>1, <2>2, <2>3, <2>4, <2>5 DEF Validity
  <1>3. CASE KeeperAdd
    <2>1. UNCHANGED <<hand, pc, weak, dirty>> /\ jobRefs'["keeper"] = {}
      BY <1>3, <1>t DEF KeeperAdd, userVars, BaseTypeOK, Jobs
    <2>2. CASE UNCHANGED pool
      <3>1. NoNewItems
        BY <2>2 DEF NoNewItems
      <3> QED BY <1>t, <2>1, <3>1, ValidityShrinks
    <2>3. CASE ~UNCHANGED pool
      <3>1. PICK added \in Seq(Items) :
              /\ pool' = pool \o added
              /\ \A k \in DOMAIN added : added[k].res \in jobRefs["keeper"]
        BY <1>t, <1>3, <2>3, KeeperAddItems
      <3>2. \A k \in DOMAIN pool' :
              \/ k \in DOMAIN pool /\ pool'[k] = pool[k]
              \/ pool'[k].res \in jobRefs["keeper"]
        BY <1>t, <3>1 DEF BaseTypeOK
      <3>3. \A r \in jobRefs["keeper"] :
              r \notin dirty /\ ~Revalidating(r) /\ \A u \in Users : hand[u] # r
        BY DEF Validity, Ownership, ArrivalsOutside
      <3>4. \A x : Revalidating(x)' = Revalidating(x)
        BY <1>t, <2>1 DEF Revalidating
      <3> QED BY <1>t, <2>1, <3>2, <3>3, <3>4 DEF Validity
    <2> QED BY <2>2, <2>3
  <1>4. CASE KeeperTrim
    <2> DEFINE kept == DOMAIN pool \ (FirstPass \cup SecondPass)
    <2>1. KeepOnly(kept) /\ UNCHANGED <<hand, pc, weak, dirty>>
      BY <1>4 DEF KeeperTrim, userVars
    <2>2. NoNewItems
      BY <1>t, <2>1, KeepOnlyType DEF BaseTypeOK, NoNewItems
    <2>3. jobRefs'["keeper"] = jobRefs["keeper"]
      BY <1>t, <1>4 DEF KeeperTrim, BaseTypeOK, Jobs
    <2> QED BY <1>t, <2>1, <2>2, <2>3, ValidityShrinks
  <1> QED
    BY <1>1, <1>2, <1>3, <1>4 DEF KeeperStep, KeeperNext

\* A check applied late makes valid only a resource that nobody could borrow
\* since its snapshot, because its item was invalid all the time.
LEMMA ValidityHealthStep ==
  ASSUME Invalidate, Typed, Typed', Ownership, ChecksApart, Validity, HealthStep
  PROVE  Validity'
  <1>t. BaseTypeOK /\ BaseTypeOK' /\ HealthTypeOK
    BY DEF Typed, TypeOK
  <1>k. UNCHANGED <<hand, pc>>
    BY DEF HealthStep, HealthNext, HealthSnapshot, HealthTakeBatch, HealthLock,
           HealthLaunch, HealthError, HealthPing, HealthErase, HealthRevalidate,
           HealthLeave, HealthBatchEnd, baseVars, userVars
  <1>j. jobRefs'["keeper"] = jobRefs["keeper"]
    BY <1>t
    DEF HealthStep, HealthNext, HealthSnapshot, HealthTakeBatch, HealthLock,
        HealthLaunch, HealthError, HealthPing, HealthErase, HealthRevalidate,
        HealthLeave, HealthBatchEnd, baseVars, BaseTypeOK, Jobs
  <1>1. CASE HealthSnapshot
    <2>1. /\ weak' = {pool[i] : i \in {k \in DOMAIN pool : ~isUsed(pool[k])}}
          /\ UNCHANGED <<pool, dirty, checks>> /\ checks = {} /\ mutex = None
      BY <1>1 DEF HealthSnapshot, poolVars, ChecksApart
    <2>2. \A r : Revalidating(r)' =>
            \E i \in DOMAIN pool :
              ~isUsed(pool[i]) /\ ~pool[i].valid /\ pool[i].res = r
      BY <2>1 DEF Revalidating
    <2>3. \A i \in DOMAIN pool : pool[i].valid => ~Revalidating(pool[i].res)'
      BY <2>1, <2>2 DEF Ownership, NoDuplicates
    <2>4. \A r \in jobRefs["keeper"] : ~Revalidating(r)'
      BY <2>2 DEF Ownership, ArrivalsOutside, InPool
    <2>5. \A i \in DOMAIN pool : ~isUsed(pool[i]) =>
            \A u \in Users : hand[u] # pool[i].res
      <3>1. \A u \in Users : pc[u] \notin {"copy", "probing"}
        BY <2>1, MutexFree DEF Ownership
      <3>2. \A i \in DOMAIN pool : pool[i].res # None
        BY <1>t, ItemType, BaseAssumption DEF BaseTypeOK, BaseAssumption
      <3> QED
        BY <1>t, <3>1, <3>2, UnusedItem
        DEF Holds, Ownership, HandMatchesPc, BaseTypeOK
    <2>6. \A r \in Resources : Revalidating(r)' => \A u \in Users : hand[u] # r
      BY <2>2, <2>5
    <2>7. \A i \in DOMAIN pool' : pool'[i].valid => ~Revalidating(pool[i].res)'
      BY <2>1, <2>3
    <2> QED BY <1>k, <1>j, <2>1, <2>3, <2>4, <2>6, <2>7 DEF Validity, Revalidating
  <1>2. ASSUME NEW item \in batch, HealthLock(item) PROVE Validity'
    <2> DEFINE c0 == [res |-> item.res, valid |-> item.valid, verdict |-> "none"]
    <2>1. /\ UNCHANGED <<pool, dirty>> /\ weak' \subseteq weak /\ item \in weak
          /\ checks' \subseteq checks \cup {c0}
      BY <1>2 DEF HealthLock, poolVars, ChecksApart
    <2>2. c0.res = item.res /\ c0.valid = item.valid /\ c0.verdict # "healthy"
      OBVIOUS
    <2> HIDE DEF c0
    <2>3. \A r : Revalidating(r)' => Revalidating(r)
      BY <2>1, <2>2 DEF Revalidating
    <2> QED BY <1>k, <1>j, <2>1, <2>2, <2>3 DEF Validity
  <1>3. CASE HealthLaunch
    <2>1. /\ UNCHANGED <<pool, dirty, weak>>
          /\ checks' = {[c EXCEPT !.verdict = "running"] : c \in checks}
      BY <1>3 DEF HealthLaunch, baseVars, poolVars
    <2>2. \A d \in checks' :
            /\ d.verdict # "healthy"
            /\ \E c \in checks : c.res = d.res /\ c.valid = d.valid
      BY <1>t, <2>1 DEF HealthTypeOK
    <2>3. \A r : Revalidating(r)' => Revalidating(r)
      BY <2>1, <2>2 DEF Revalidating
    <2> QED BY <1>k, <1>j, <2>1, <2>2, <2>3 DEF Validity
  <1>4. ASSUME NEW c \in checks, HealthPing(c) PROVE Validity'
    <2>1. PICK v \in Verdicts :
            /\ checks' = (checks \ {c}) \cup {[c EXCEPT !.verdict = v]}
            /\ dirty' = IF v = "healthy" /\ ~\E u \in Users : Holds(u, c.res)
                          THEN dirty \ {c.res} ELSE dirty
      BY <1>4 DEF HealthPing
    <2>2. UNCHANGED <<pool, weak>>
      BY <1>4 DEF HealthPing, poolVars
    <2> DEFINE c1 == [c EXCEPT !.verdict = v]
    <2>3. /\ checks' = (checks \ {c}) \cup {c1}
          /\ c1.res = c.res /\ c1.valid = c.valid /\ c1.verdict = v
          /\ c.res \in Resources
      BY <1>t, <2>1 DEF HealthTypeOK
    <2> HIDE DEF c1
    <2>4. \A r : Revalidating(r)' => Revalidating(r)
      BY <2>2, <2>3 DEF Revalidating
    <2>5. ~c.valid => \A u \in Users : ~Holds(u, c.res)
      BY <2>3 DEF Validity, Revalidating, Holds
    <2>6. c1.verdict = "healthy" /\ ~c1.valid => c1.res \notin dirty'
      BY <2>1, <2>3, <2>5
    <2>7. dirty' \subseteq dirty
      BY <2>1
    <2> QED BY <1>k, <1>j, <2>2, <2>3, <2>4, <2>6, <2>7 DEF Validity
  <1>5. ASSUME NEW c \in checks, HealthRevalidate(c) PROVE Validity'
    <2>1. /\ c.verdict = "healthy" /\ ~c.valid /\ mutex = None
          /\ UNCHANGED <<weak, dirty>> /\ checks' = checks \ {c}
          /\ DOMAIN pool' = DOMAIN pool
      BY <1>5 DEF HealthRevalidate, MustRevalidate
    <2>2. \A i \in DOMAIN pool :
            /\ pool'[i].res = pool[i].res
            /\ pool[i].res # c.res => pool'[i] = pool[i]
      <3>1. \A i \in DOMAIN pool : pool[i] \in Items
        BY <1>t, ItemType DEF BaseTypeOK
      <3> QED BY <1>5, <3>1 DEF HealthRevalidate, Items
    <2>3. c.res \notin dirty
      BY <2>1 DEF Validity
    <2>4. \A u \in Users : pc[u] # "copy"
      BY <2>1, MutexFree DEF Ownership
    <2>5. ~Revalidating(c.res)'
      BY <2>1 DEF Revalidating, ChecksApart
    <2>6. \A r : Revalidating(r)' => Revalidating(r)
      BY <2>1 DEF Revalidating
    <2>7. \A i \in DOMAIN pool' : pool'[i].valid =>
            pool'[i].res \notin dirty /\ ~Revalidating(pool[i].res)'
      <3> SUFFICES ASSUME NEW i \in DOMAIN pool, pool'[i].valid
                   PROVE  pool[i].res \notin dirty /\ ~Revalidating(pool[i].res)'
        BY <2>1, <2>2
      <3>0. pool'[i].res = pool[i].res
        BY <2>2
      <3>1. CASE pool[i].res = c.res
        <4>1. Revalidating(pool[i].res)' = Revalidating(c.res)'
          BY <3>0, <3>1 DEF Revalidating
        <4> QED BY <2>3, <2>5, <3>1, <4>1
      <3>2. CASE pool[i].res # c.res
        <4>1. pool[i].valid
          BY <2>2, <3>2
        <4>2. pool[i].res \notin dirty /\ ~Revalidating(pool[i].res)
          BY <4>1 DEF Validity
        <4> QED BY <2>1, <3>0, <4>2 DEF Revalidating
      <3> QED BY <3>1, <3>2
    <2> QED
      BY <1>k, <1>j, <2>1, <2>2, <2>4, <2>6, <2>7 DEF Validity, Revalidating
  <1>6. CASE \/ HealthTakeBatch \/ HealthError \/ HealthBatchEnd
             \/ \E c \in checks : HealthErase(c) \/ HealthLeave(c)
    <2>1. weak' \subseteq weak /\ checks' \subseteq checks /\ dirty' = dirty
      BY <1>6 DEF HealthTakeBatch, HealthError, HealthBatchEnd, HealthErase,
                  HealthLeave, baseVars
    <2>2. NoNewItems
      <3>1. UNCHANGED pool => NoNewItems
        BY DEF NoNewItems
      <3> QED
        BY <1>t, <1>6, <3>1, EraseNoNewItems
        DEF HealthTakeBatch, HealthError, HealthBatchEnd, HealthErase, HealthLeave,
            baseVars, poolVars
    <2> QED BY <1>k, <1>j, <2>1, <2>2, ValidityShrinks
  <1> QED
    BY <1>1, <1>2, <1>3, <1>4, <1>5, <1>6 DEF HealthStep, HealthNext

\* Validity is inductive, with Ownership and the types.
LEMMA ValidityStep ==
  Typed /\ Ownership /\ ValidityInv /\ [Next]_vars => ValidityInv'
  <1> SUFFICES ASSUME Typed, Ownership, ValidityInv, [Next]_vars
               PROVE  ValidityInv'
    OBVIOUS
  <1>1. ChecksApart'
    BY ChecksApartStep DEF ValidityInv
  <1>2. ASSUME Invalidate PROVE Validity'
    <2>1. Typed' /\ ChecksApart /\ Validity
      BY <1>2, TypedStep DEF ValidityInv
    <2>2. CASE EnvironmentStep \/ UNCHANGED vars
      <3>1. UNCHANGED <<pool, hand, pc, weak, checks, dirty>>
        BY <2>2 DEF EnvironmentStep, EnvironmentNext, Dispose, Break, vars, baseVars,
                    healthVars, poolVars, userVars
      <3>2. jobRefs'["keeper"] = jobRefs["keeper"]
        BY <2>2 DEF EnvironmentStep, EnvironmentNext, Dispose, Break, vars, baseVars,
                    Typed, TypeOK, BaseTypeOK, Jobs
      <3>3. NoNewItems
        BY <3>1 DEF NoNewItems
      <3> QED BY <2>1, <3>1, <3>2, <3>3, ValidityShrinks
    <2> QED
      BY <1>2, <2>1, <2>2, ValidityUserStep, ValidityKeeperStep, ValidityHealthStep
      DEF Next, Ended
  <1> QED BY <1>1, <1>2 DEF ValidityInv

\* At the start nothing is valid and nothing is being checked.
LEMMA ValidityInit == Init => ValidityInv
  BY DEF Init, BaseInit, HealthInit, ValidityInv, ChecksApart, Validity, Revalidating,
         Jobs

\* The jobs and the calls keep the validity of every item honest.
THEOREM ValidityCorrect == Spec => []ValidityInv
  BY TypedInit, TypedStep, OwnershipInit, OwnershipStep, ValidityInit, ValidityStep,
     PTL DEF Spec

\* Where resources are invalidated on access, a valid item's resource has been
\* checked since it was last lent.
THEOREM CheckedBeforeLent == Spec => []ValidMeansChecked
  <1>1. ValidityInv => ValidMeansChecked
    BY DEF ValidityInv, Validity, ValidMeansChecked
  <1> QED BY <1>1, ValidityCorrect, PTL

-----------------------------------------------------------------------------
(* The contract: the steps of the pool and its jobs are steps of it.       *)

\* The abstract state of the refinement mapping.
PoolStock == {r \in Resources : Owners(r) # {}}
PoolLent == [u \in Users |-> IF pc[u] \in {"adding", "holding"} THEN hand[u] ELSE None]

\* What get() found and has not copied yet has not been lent since its last check.
CopyIsChecked ==
  Invalidate => \A u \in Users : pc[u] = "copy" => hand[u] \notin dirty

\* A resource has an owner when a call holds it, a job refers to it, or the pool
\* contains it.
LEMMA StockMember ==
  ASSUME NEW r \in Resources
  PROVE  r \in PoolStock <=> \/ \E u \in Users : Holds(u, r)
                             \/ \E j \in Jobs : r \in jobRefs[j]
                             \/ InPool(r)
  BY DEF PoolStock, Owners

LEMMA StockMemberNext ==
  ASSUME NEW r \in Resources
  PROVE  r \in PoolStock' <=> \/ \E u \in Users : Holds(u, r)'
                              \/ \E j \in Jobs : r \in jobRefs'[j]
                              \/ InPool(r)'
  BY DEF PoolStock, Owners, Holds, InPool

\* The mapped lent resource is what the call holds.
LEMMA LentIsHeld ==
  ASSUME HandMatchesPc, NEW u \in Users
  PROVE  /\ \A r \in Resources : PoolLent[u] = r <=> Holds(u, r)
         /\ PoolLent[u] = None <=> pc[u] \notin {"adding", "holding"}
  BY BaseAssumption DEF PoolLent, Holds, HandMatchesPc, BaseAssumption

\* A step that lends nothing and drops or keeps what there is discards the difference.
LEMMA DropIsDiscard ==
  ASSUME HandMatchesPc, UNCHANGED <<PoolLent, dirty>>, PoolStock' \subseteq PoolStock,
         \A u \in Users : \A r \in Resources : Holds(u, r)' <=> Holds(u, r)
  PROVE  Contract!Discard(PoolStock \ PoolStock') /\ Contract!Next
  <1>1. \A r \in PoolStock \ PoolStock' : \A u \in Users : PoolLent[u] # r
    <2> SUFFICES ASSUME NEW r \in Resources, r \notin PoolStock', NEW u \in Users,
                        PoolLent[u] = r
                 PROVE  FALSE
      BY DEF PoolStock
    <2>1. Holds(u, r)
      BY LentIsHeld
    <2>2. Holds(u, r)'
      BY <2>1
    <2> QED BY <2>2 DEF PoolStock, Owners
  <1>2. Contract!Discard(PoolStock \ PoolStock')
    BY <1>1 DEF Contract!Discard, Contract!LentOut, PoolStock, PoolLent
  <1>3. PoolStock \ PoolStock' \in SUBSET PoolStock
    OBVIOUS
  <1> QED BY <1>2, <1>3 DEF Contract!Next, PoolStock

\* The same, of a step that leaves the calls alone.
LEMMA JobKeepsContract ==
  ASSUME HandMatchesPc, UNCHANGED <<pc, hand, dirty>>,
         \A r \in Resources : InPool(r)' => r \in PoolStock,
         \A r \in Resources, j \in Jobs : r \in jobRefs'[j] => r \in PoolStock
  PROVE  Contract!Next
  <1>1. \A u \in Users : \A r \in Resources : Holds(u, r)' <=> Holds(u, r)
    BY DEF Holds
  <1>2. PoolStock' \subseteq PoolStock
    <2> SUFFICES ASSUME NEW r \in Resources, r \in PoolStock' PROVE r \in PoolStock
      BY DEF PoolStock
    <2>1. \/ \E u \in Users : Holds(u, r)'
          \/ \E j \in Jobs : r \in jobRefs'[j]
          \/ InPool(r)'
      BY StockMemberNext
    <2> QED BY <1>1, <2>1, StockMember
  <1>3. UNCHANGED <<PoolLent, dirty>>
    BY DEF PoolLent
  <1> QED BY <1>1, <1>2, <1>3, DropIsDiscard

\* A call gets hold of a resource that nobody has in hand.
LEMMA TakeIsLent ==
  ASSUME BaseTypeOK, NEW u \in Users, NEW r \in Resources,
         NEW p \in {"adding", "holding"}, pc[u] \notin {"adding", "holding"},
         pc' = [pc EXCEPT ![u] = p], hand' = [hand EXCEPT ![u] = r],
         UNCHANGED <<pool, jobRefs>>
  PROVE  /\ PoolLent' = [PoolLent EXCEPT ![u] = r]
         /\ PoolLent[u] = None
         /\ PoolStock' = PoolStock \cup {r}
  <1>1. pc'[u] = p /\ hand'[u] = r
    BY DEF BaseTypeOK
  <1>2. \A v \in Users \ {u} : pc'[v] = pc[v] /\ hand'[v] = hand[v]
    BY DEF BaseTypeOK
  <1>3. PoolLent' = [PoolLent EXCEPT ![u] = r]
    BY <1>1, <1>2 DEF PoolLent
  <1>4. \A v \in Users, x \in Resources :
          Holds(v, x)' <=> Holds(v, x) \/ (v = u /\ x = r)
    BY <1>1, <1>2 DEF Holds
  <1>5. \A x \in Resources : InPool(x)' <=> InPool(x)
    BY DEF InPool
  <1>6. ASSUME NEW x \in Resources PROVE x \in PoolStock' <=> x \in PoolStock \/ x = r
    <2>1. (\E v \in Users : Holds(v, x)') <=> (\E v \in Users : Holds(v, x)) \/ x = r
      BY <1>4
    <2> QED BY <1>5, <2>1, StockMember, StockMemberNext
  <1>7. PoolStock' \subseteq Resources /\ PoolStock \subseteq Resources
    BY DEF PoolStock
  <1>8. PoolStock' = PoolStock \cup {r}
    BY <1>6, <1>7
  <1>9. PoolLent[u] = None
    BY DEF PoolLent
  <1> QED BY <1>3, <1>8, <1>9

\* No call has in hand a resource that nobody holds.
LEMMA NotLentOut ==
  ASSUME HandMatchesPc, NEW r \in Resources, \A u \in Users : ~Holds(u, r)
  PROVE  ~Contract!LentOut(r)
  <1> SUFFICES ASSUME NEW u \in Users, PoolLent[u] = r PROVE FALSE
    BY DEF Contract!LentOut, PoolLent
  <1> QED BY LentIsHeld

\* A resource of its own is lent new.
LEMMA OwnIsLentNew ==
  ASSUME Typed, NEW u \in Users, NEW r \in Resources, Fresh(r), Lend(r),
         NEW p \in {"adding", "holding"}, pc[u] \notin {"adding", "holding"},
         pc' = [pc EXCEPT ![u] = p], hand' = [hand EXCEPT ![u] = r],
         UNCHANGED <<pool, jobRefs>>
  PROVE  Contract!Next
  <1>1. /\ PoolLent' = [PoolLent EXCEPT ![u] = r]
        /\ PoolLent[u] = None
        /\ PoolStock' = PoolStock \cup {r}
    BY TakeIsLent DEF Typed, TypeOK
  <1>2. r \notin PoolStock
    BY DEF Fresh, PoolStock
  <1>3. Contract!LendNew(u, r)
    BY <1>1, <1>2 DEF Contract!LendNew, Contract!Mark, Lend, PoolLent, PoolStock
  <1> QED BY <1>3 DEF Contract!Next

\* The steps of a user's call.
LEMMA ContractUserStep ==
  ASSUME Typed, Ownership, ValidityInv, CopyIsChecked, UserStep
  PROVE  Contract!Next
  <1> USE DEF Ownership
  <1>0. BaseTypeOK
    BY DEF Typed, TypeOK
  <1>1. ASSUME NEW u \in Users, GetFound(u) \/ GetMiss(u) \/ EmergencyFail(u)
                                  \/ PoolFullState(u) \/ PoolFullStateEnd(u)
        PROVE  Contract!Next
    <2>1. pc[u] \notin {"adding", "holding"} /\ pc'[u] \notin {"adding", "holding"}
      BY <1>0, <1>1 DEF GetFound, GetMiss, EmergencyFail, PoolFullState,
                        PoolFullStateEnd, BaseTypeOK
    <2>2. \A v \in Users \ {u} : pc'[v] = pc[v] /\ hand'[v] = hand[v]
      BY <1>0, <1>1 DEF GetFound, GetMiss, EmergencyFail, PoolFullState,
                        PoolFullStateEnd, BaseTypeOK
    <2>3. jobRefs' = jobRefs /\ dirty' = dirty
      BY <1>1 DEF GetFound, GetMiss, EmergencyFail, PoolFullState, PoolFullStateEnd,
                  poolVars
    <2>4. \A r \in Resources : InPool(r)' <=> InPool(r)
      <3>1. CASE GetFound(u)
        <4>1. PICK i \in DOMAIN pool : Claim(i)
          BY <3>1 DEF GetFound, Candidates, AvailableIndices
        <4> QED BY <1>0, <4>1, ClaimType DEF InPool, BaseTypeOK
      <3>2. CASE ~GetFound(u)
        BY <1>1, <3>2 DEF GetMiss, EmergencyFail, PoolFullState, PoolFullStateEnd,
                          poolVars, InPool
      <3> QED BY <3>1, <3>2
    <2>5. PoolLent' = PoolLent
      BY <2>1, <2>2 DEF PoolLent
    <2>6. \A v \in Users, r \in Resources : Holds(v, r)' <=> Holds(v, r)
      BY <2>1, <2>2 DEF Holds
    <2>7. PoolStock' \subseteq PoolStock
      <3> SUFFICES ASSUME NEW r \in Resources, r \in PoolStock' PROVE r \in PoolStock
        BY DEF PoolStock
      <3> QED BY <2>3, <2>4, <2>6, StockMember, StockMemberNext
    <2> QED BY <2>3, <2>5, <2>6, <2>7, DropIsDiscard
  <1>2. ASSUME NEW u \in Users, GetCopy(u) PROVE Contract!Next
    <2>0. hand[u] \in Resources /\ InPool(hand[u]) /\ (Invalidate => hand[u] \notin dirty)
      BY <1>2 DEF GetCopy, HandMatchesPc, CopyIsLocked, CopyIsChecked
    <2>1. PICK r \in Resources :
            r = hand[u] /\ InPool(r) /\ (Invalidate => r \notin dirty)
      BY <2>0
    <2>2. \A v \in Users : ~Holds(v, r)
      BY <1>2, <2>1, BaseAssumption
      DEF GetCopy, HandsDistinct, Holds, BaseAssumption
    <2>3. ~Contract!LentOut(r)
      BY <2>1, <2>2, NotLentOut
    <2>4. r \in PoolStock
      BY <2>1, StockMember
    <2>5. hand' = [hand EXCEPT ![u] = r] /\ pc' = [pc EXCEPT ![u] = "holding"]
      BY <1>0, <1>2, <2>1 DEF GetCopy, BaseTypeOK
    <2>6. UNCHANGED <<pool, jobRefs>> /\ pc[u] = "copy" /\ Lend(r)
      BY <1>2, <2>1 DEF GetCopy
    <2>7. /\ PoolLent' = [PoolLent EXCEPT ![u] = r]
          /\ PoolLent[u] = None
          /\ PoolStock' = PoolStock \cup {r}
      BY <1>0, <2>1, <2>5, <2>6, TakeIsLent
    <2>8. Contract!LendPooled(u, r)
      BY <2>1, <2>3, <2>4, <2>6, <2>7
      DEF Contract!LendPooled, Contract!Mark, Lend, PoolLent, PoolStock
    <2> QED BY <2>1, <2>8 DEF Contract!Next
  <1>3. ASSUME NEW u \in Users, EmergencyCreate(u) \/ GetUnpooled(u)
        PROVE  Contract!Next
    <2>1. PICK r \in Resources :
            Create(r) /\ Lend(r) /\ hand' = [hand EXCEPT ![u] = r]
      BY <1>3 DEF EmergencyCreate, GetUnpooled
    <2>2. PICK p \in {"adding", "holding"} : pc' = [pc EXCEPT ![u] = p]
      BY <1>3 DEF EmergencyCreate, GetUnpooled
    <2>3. pc[u] \notin {"adding", "holding"} /\ UNCHANGED <<pool, jobRefs>>
      BY <1>3 DEF EmergencyCreate, GetUnpooled, poolVars
    <2> QED BY <2>1, <2>2, <2>3, OwnIsLentNew DEF Create
  <1>4. ASSUME NEW u \in Users, EmergencyAdd(u) PROVE Contract!Next
    <2>1. pc[u] = "adding" /\ pc'[u] = "holding" /\ hand' = hand
      BY <1>0, <1>4 DEF EmergencyAdd, BaseTypeOK
    <2>2. \A v \in Users \ {u} : pc'[v] = pc[v]
      BY <1>0, <1>4 DEF EmergencyAdd, BaseTypeOK
    <2>3. jobRefs' = jobRefs /\ dirty' = dirty
      BY <1>4 DEF EmergencyAdd
    <2>4. \A v \in Users, r \in Resources : Holds(v, r)' <=> Holds(v, r)
      BY <2>1, <2>2 DEF Holds
    <2>5. PoolLent' = PoolLent
      BY <2>1, <2>2 DEF PoolLent
    <2>6. \A r \in Resources : InPool(r)' => InPool(r) \/ Holds(u, r)
      <3> SUFFICES ASSUME NEW r \in Resources, NEW i \in DOMAIN pool', pool'[i].res = r
                   PROVE  InPool(r) \/ Holds(u, r)
        BY DEF InPool
      <3>1. pool \in Seq(Items)
        BY <1>0 DEF BaseTypeOK
      <3>2. CASE pool' = pool
        BY <3>2 DEF InPool
      <3>3. CASE pool' = Append(pool, [res |-> hand[u], valid |-> ~Invalidate])
        <4>1. CASE i \in DOMAIN pool
          BY <3>1, <3>3, <4>1 DEF InPool
        <4>2. CASE i = Len(pool) + 1
          BY <2>1, <3>1, <3>3, <4>2 DEF Holds
        <4> QED BY <3>1, <3>3, <4>1, <4>2
      <3> QED BY <1>4, <3>2, <3>3 DEF EmergencyAdd
    <2>7. PoolStock' \subseteq PoolStock
      <3> SUFFICES ASSUME NEW r \in Resources, r \in PoolStock' PROVE r \in PoolStock
        BY DEF PoolStock
      <3> QED BY <2>3, <2>4, <2>6, StockMember, StockMemberNext
    <2> QED BY <2>3, <2>4, <2>5, <2>7, DropIsDiscard
  <1>5. ASSUME NEW u \in Users, Release(u) PROVE Contract!Next
    <2>1. PICK r \in Resources : r = hand[u] /\ Holds(u, r)
      BY <1>5 DEF Release, HandMatchesPc, Holds
    <2>2. pc'[u] = "idle" /\ \A v \in Users \ {u} : pc'[v] = pc[v] /\ hand'[v] = hand[v]
      BY <1>0, <1>5 DEF Release, BaseTypeOK
    <2>3. UNCHANGED <<pool, jobRefs, dirty>>
      BY <1>5 DEF Release, poolVars
    <2>4. PoolLent' = [PoolLent EXCEPT ![u] = None]
      BY <2>2 DEF PoolLent
    <2>5. PoolLent[u] = r /\ PoolLent[u] # None
      BY <2>1, LentIsHeld, BaseAssumption DEF BaseAssumption
    <2>6. \A x \in Resources : InPool(x)' <=> InPool(x)
      BY <2>3 DEF InPool
    <2>7. \A x \in Resources :
            /\ x # r => ((\E v \in Users : Holds(v, x)') <=> (\E v \in Users : Holds(v, x)))
            /\ (\E v \in Users : Holds(v, x)') => (\E v \in Users : Holds(v, x))
      BY <2>1, <2>2 DEF Holds
    <2>8. \A x \in Resources : /\ x # r => (x \in PoolStock' <=> x \in PoolStock)
                               /\ x \in PoolStock' => x \in PoolStock
      BY <2>3, <2>6, <2>7, StockMember, StockMemberNext
    <2>9. PoolStock' \subseteq Resources /\ PoolStock \subseteq Resources
      BY DEF PoolStock
    <2>10. PoolStock' = PoolStock \/ PoolStock' = PoolStock \ {r}
      BY <2>8, <2>9
    <2>11. Contract!Return(u)
      BY <2>3, <2>4, <2>5, <2>10 DEF Contract!Return, PoolLent, PoolStock
    <2> QED BY <2>11 DEF Contract!Next
  <1>6. ASSUME ClearPool PROVE Contract!Next
    <2>1. UNCHANGED <<pc, hand, dirty>> /\ pool' = <<>>
      BY <1>6 DEF ClearPool, userVars
    <2>2. \A j \in Jobs, r \in Resources : r \in jobRefs'[j] => r \in jobRefs[j] \/ InPool(r)
      BY <1>0, <1>6 DEF ClearPool, InPool, BaseTypeOK, Jobs
    <2>3. \A r \in Resources : ~InPool(r)'
      BY <2>1 DEF InPool
    <2> QED BY <2>1, <2>2, <2>3, JobKeepsContract, StockMember
  <1>7. ASSUME NEW id \in PopulationIds, setPopulationId(id) PROVE Contract!Next
    <2>1. UNCHANGED <<pc, hand, dirty, pool, jobRefs>>
      BY <1>7 DEF setPopulationId, userVars
    <2>2. \A r \in Resources : InPool(r)' => InPool(r)
      BY <2>1 DEF InPool
    <2> QED BY <2>1, <2>2, JobKeepsContract, StockMember
  <1> QED
    BY <1>1, <1>2, <1>3, <1>4, <1>5, <1>6, <1>7 DEF UserStep, UserNext, GetNext

\* Erasing brings no resource into the pool.
LEMMA EraseKeepsOut ==
  ASSUME BaseTypeOK, NEW r, EraseUnsafe(r)
  PROVE  \A x : InPool(x)' => InPool(x)
  <1>1. NoNewItems
    BY EraseNoNewItems
  <1> QED BY <1>1 DEF NoNewItems, InPool

\* The environment's steps: an item is destroyed, a connection breaks.
LEMMA ContractEnvironmentStep ==
  ASSUME Typed, EnvironmentStep
  PROVE  Contract!Next
  <1>1. UNCHANGED <<pc, hand, dirty, pool>>
    BY DEF EnvironmentStep, EnvironmentNext, Dispose, Break, poolVars, userVars
  <1>2. \A j \in Jobs, r \in Resources : r \in jobRefs'[j] => r \in jobRefs[j]
    BY DEF EnvironmentStep, EnvironmentNext, Dispose, Break, Typed, TypeOK, BaseTypeOK, Jobs
  <1>3. \A r \in Resources : InPool(r)' => InPool(r)
    BY <1>1 DEF InPool
  <1> QED BY <1>1, <1>2, <1>3, JobKeepsContract, StockMember DEF Typed

\* The keeper's steps.
LEMMA ContractKeeperStep ==
  ASSUME Typed, KeeperStep
  PROVE  Contract!Next
  <1>0. BaseTypeOK /\ HandMatchesPc
    BY DEF Typed, TypeOK
  <1>1. ASSUME KeeperCount \/ KeeperLaunch \/ KeeperError \/ KeeperCreateFails
        PROVE  Contract!Next
    <2>1. UNCHANGED <<pc, hand, dirty, pool, jobRefs>>
      BY <1>1 DEF KeeperCount, KeeperLaunch, KeeperError, KeeperCreateFails, baseVars,
                  poolVars, userVars
    <2>2. \A r \in Resources : InPool(r)' => InPool(r)
      BY <2>1 DEF InPool
    <2> QED BY <1>0, <2>1, <2>2, JobKeepsContract, StockMember
  <1>2. ASSUME KeeperCreate PROVE Contract!Next
    <2>1. PICK r \in Resources :
            /\ Create(r)
            /\ dirty' = dirty \ {r}
            /\ jobRefs' = [jobRefs EXCEPT !["keeper"] = @ \cup {r}]
      BY <1>2 DEF KeeperCreate
    <2>2. UNCHANGED <<pc, hand, pool>>
      BY <1>2 DEF KeeperCreate, poolVars, userVars
    <2>3. PoolLent' = PoolLent
      BY <2>2 DEF PoolLent
    <2>4. \A v \in Users, x \in Resources : Holds(v, x)' <=> Holds(v, x)
      BY <2>2 DEF Holds
    <2>5. \A x \in Resources : InPool(x)' <=> InPool(x)
      BY <2>2 DEF InPool
    <2>6. \A x \in Resources : (\E j \in Jobs : x \in jobRefs'[j])
                                 <=> (\E j \in Jobs : x \in jobRefs[j]) \/ x = r
      BY <1>0, <2>1 DEF BaseTypeOK, Jobs
    <2>7. \A x \in Resources : x \in PoolStock' <=> x \in PoolStock \/ x = r
      BY <2>4, <2>5, <2>6, StockMember, StockMemberNext
    <2>8. PoolStock' \subseteq Resources /\ PoolStock \subseteq Resources
      BY DEF PoolStock
    <2>9. PoolStock' = PoolStock \cup {r}
      BY <2>7, <2>8
    <2>10. r \notin PoolStock
      BY <2>1 DEF Create, Fresh, PoolStock
    <2>11. Contract!Stock(r)
      BY <2>1, <2>3, <2>9, <2>10 DEF Contract!Stock, PoolStock, PoolLent
    <2> QED BY <2>11 DEF Contract!Next
  <1>3. ASSUME KeeperAdd PROVE Contract!Next
    <2>1. UNCHANGED <<pc, hand, dirty>>
      BY <1>3 DEF KeeperAdd, userVars
    <2>2. \A j \in Jobs, r \in Resources : r \in jobRefs'[j] => r \in jobRefs[j]
      BY <1>0, <1>3 DEF KeeperAdd, BaseTypeOK, Jobs
    <2>3. \A r \in Resources : InPool(r)' => InPool(r) \/ r \in jobRefs["keeper"]
      <3>1. CASE pool' = pool
        BY <3>1 DEF InPool
      <3>2. CASE pool' # pool
        <4>1. PICK added \in Seq(Items) :
                /\ pool' = pool \o added
                /\ \A k \in DOMAIN added : added[k].res \in jobRefs["keeper"]
          BY <1>0, <1>3, <3>2, KeeperAddItems
        <4>2. pool \in Seq(Items)
          BY <1>0 DEF BaseTypeOK
        <4>3. ASSUME NEW i \in DOMAIN pool'
              PROVE  InPool(pool'[i].res) \/ pool'[i].res \in jobRefs["keeper"]
          <5>1. CASE i \in DOMAIN pool
            BY <4>1, <4>2, <5>1 DEF InPool
          <5>2. CASE i \notin DOMAIN pool
            <6>1. i - Len(pool) \in DOMAIN added /\ pool'[i] = added[i - Len(pool)]
              BY <4>1, <4>2, <5>2
            <6> QED BY <4>1, <6>1
          <5> QED BY <5>1, <5>2
        <4> QED BY <4>3 DEF InPool
      <3> QED BY <3>1, <3>2
    <2> QED BY <1>0, <2>1, <2>2, <2>3, JobKeepsContract, StockMember DEF Jobs
  <1>4. ASSUME KeeperTrim PROVE Contract!Next
    <2>1. UNCHANGED <<pc, hand, dirty>>
      BY <1>4 DEF KeeperTrim, userVars
    <2>2. PICK K : K \subseteq DOMAIN pool /\ KeepOnly(K)
      BY <1>4 DEF KeeperTrim
    <2>3. \A r \in Resources : InPool(r)' => InPool(r)
      BY <1>0, <2>2, KeepOnlyType DEF InPool, BaseTypeOK
    <2>4. \A j \in Jobs, r \in Resources : r \in jobRefs'[j] => r \in jobRefs[j] \/ InPool(r)
      <3>1. PICK R : /\ R \subseteq {pool[i].res : i \in DOMAIN pool}
                     /\ jobRefs' = [jobRefs EXCEPT !["disposer"] = @ \cup R]
        BY <1>4 DEF KeeperTrim, FirstPass, SecondPass, FirstOf, AvailableIndices,
                    UnusedIndices
      <3> QED BY <1>0, <3>1 DEF BaseTypeOK, Jobs, InPool
    <2> QED BY <1>0, <2>1, <2>3, <2>4, JobKeepsContract, StockMember
  <1> QED BY <1>1, <1>2, <1>3, <1>4 DEF KeeperStep, KeeperNext

\* The health care job's steps.
LEMMA ContractHealthStep ==
  ASSUME Typed, HealthStep
  PROVE  Contract!Next
  <1>0. BaseTypeOK /\ HandMatchesPc
    BY DEF Typed, TypeOK
  <1>1. ASSUME NEW c \in checks, HealthPing(c) PROVE Contract!Next
    <2>1. UNCHANGED <<pc, hand, pool, jobRefs>>
      BY <1>1 DEF HealthPing, poolVars, userVars
    <2>2. \A r \in Resources : InPool(r)' => InPool(r)
      BY <2>1 DEF InPool
    <2>3. CASE dirty' = dirty
      BY <1>0, <2>1, <2>2, <2>3, JobKeepsContract, StockMember
    <2>4. CASE dirty' # dirty
      <3>1. (\A u \in Users : ~Holds(u, c.res)) /\ dirty' = dirty \ {c.res}
        BY <1>1, <2>4 DEF HealthPing
      <3>2. PICK r \in Resources : r = c.res
        BY DEF Typed, TypeOK, HealthTypeOK
      <3>3. ~Contract!LentOut(r)
        BY <1>0, <3>1, <3>2, NotLentOut
      <3>4. PoolLent' = PoolLent
        BY <2>1 DEF PoolLent
      <3>5. PoolStock' = PoolStock
        BY <2>1 DEF PoolStock, Owners, Holds, InPool
      <3>6. Contract!Check(r)
        BY <3>1, <3>2, <3>3, <3>4, <3>5 DEF Contract!Check, PoolStock, PoolLent
      <3> QED BY <3>6 DEF Contract!Next
    <2> QED BY <2>3, <2>4
  <1>2. ASSUME HealthSnapshot \/ HealthTakeBatch \/ HealthLaunch \/ HealthError
                 \/ HealthBatchEnd \/ \E c \in checks : HealthLeave(c)
        PROVE  Contract!Next
    <2>1. UNCHANGED <<pc, hand, dirty, pool>>
      BY <1>2 DEF HealthSnapshot, HealthTakeBatch, HealthLaunch, HealthError,
                  HealthBatchEnd, HealthLeave, baseVars, poolVars, userVars
    <2>2. jobRefs' = jobRefs \/ jobRefs' = [jobRefs EXCEPT !["health"] = {}]
      BY <1>2 DEF HealthSnapshot, HealthTakeBatch, HealthLaunch, HealthError,
                  HealthBatchEnd, HealthLeave, baseVars, poolVars, userVars
    <2>3. \A j \in Jobs, r \in Resources : r \in jobRefs'[j] => r \in jobRefs[j]
      BY <1>0, <2>2 DEF BaseTypeOK, Jobs
    <2>4. \A r \in Resources : InPool(r)' => InPool(r)
      BY <2>1 DEF InPool
    <2> QED BY <1>0, <2>1, <2>3, <2>4, JobKeepsContract, StockMember
  <1>3. ASSUME NEW item \in batch, HealthLock(item) PROVE Contract!Next
    <2>1. UNCHANGED <<pc, hand, dirty, pool>>
      BY <1>3 DEF HealthLock, poolVars, userVars
    <2>2. \A r \in Resources : InPool(r)' => InPool(r)
      BY <2>1 DEF InPool
    <2>3. \A j \in Jobs, r \in Resources : r \in jobRefs'[j] => r \in PoolStock
      <3>1. CASE jobRefs' = jobRefs
        BY <3>1, StockMember
      <3>2. CASE jobRefs' # jobRefs
        <4>1. /\ jobRefs' = [jobRefs EXCEPT !["health"] = @ \cup {item.res}]
              /\ LockSucceeds(item.res)
          BY <1>3, <3>2 DEF HealthLock
        <4>2. Owners(item.res) # {}
          BY <4>1 DEF LockSucceeds
        <4>3. item.res \in Resources => item.res \in PoolStock
          BY <4>2 DEF PoolStock
        <4> QED BY <1>0, <4>1, <4>3, StockMember DEF BaseTypeOK, Jobs
      <3> QED BY <3>1, <3>2
    <2> QED BY <1>0, <2>1, <2>2, <2>3, JobKeepsContract, StockMember
  <1>4. ASSUME NEW c \in checks, HealthErase(c) PROVE Contract!Next
    <2>1. UNCHANGED <<pc, hand, dirty, jobRefs>> /\ EraseUnsafe(c.res)
      BY <1>4 DEF HealthErase, userVars
    <2>2. \A r \in Resources : InPool(r)' => InPool(r)
      BY <1>0, <2>1, EraseKeepsOut
    <2> QED BY <1>0, <2>1, <2>2, JobKeepsContract, StockMember
  <1>5. ASSUME NEW c \in checks, HealthRevalidate(c) PROVE Contract!Next
    <2>1. UNCHANGED <<pc, hand, dirty, jobRefs>>
      BY <1>5 DEF HealthRevalidate, userVars
    <2>2. /\ DOMAIN pool' = DOMAIN pool
          /\ \A i \in DOMAIN pool : pool'[i].res = pool[i].res
      BY <1>0, <1>5, ItemType DEF HealthRevalidate, BaseTypeOK, Items
    <2>3. \A r \in Resources : InPool(r)' => InPool(r)
      BY <2>2 DEF InPool
    <2> QED BY <1>0, <2>1, <2>3, JobKeepsContract, StockMember
  <1> QED BY <1>1, <1>2, <1>3, <1>4, <1>5 DEF HealthStep, HealthNext

\* CopyIsChecked is inductive: get() finds only valid items, and nobody else borrows
\* the one it found before it is copied.
LEMMA CopyIsCheckedStep ==
  ASSUME Typed, Ownership, ValidityInv, CopyIsChecked, [Next]_vars
  PROVE  CopyIsChecked'
  <1>0. BaseTypeOK
    BY DEF Typed, TypeOK
  <1> SUFFICES ASSUME Invalidate, NEW u \in Users, pc'[u] = "copy"
               PROVE  hand'[u] \notin dirty'
    BY DEF CopyIsChecked
  <1>1. CASE GetFound(u)
    <2>1. PICK i \in DOMAIN pool : pool[i].valid /\ hand' = [hand EXCEPT ![u] = pool[i].res]
      BY <1>1 DEF GetFound, Candidates, AvailableIndices, isAvailable
    <2>2. hand'[u] = pool[i].res /\ dirty' = dirty
      BY <1>0, <1>1, <2>1 DEF GetFound, BaseTypeOK
    <2> QED BY <2>1, <2>2 DEF ValidityInv, Validity
  <1>2. CASE ~GetFound(u)
    <2>1. pc[u] = "copy" /\ hand'[u] = hand[u]
      <3>1. CASE UserStep
        BY <1>0, <1>2, <3>1
        DEF UserStep, UserNext, GetNext, GetFound, GetCopy, GetMiss, EmergencyCreate,
            EmergencyFail, EmergencyAdd, Release, GetUnpooled, ClearPool, PoolFullState,
            PoolFullStateEnd, setPopulationId, userVars, BaseTypeOK
      <3>2. CASE EnvironmentStep \/ KeeperStep
        BY <3>2
        DEF EnvironmentStep, EnvironmentNext, Dispose, Break, userVars, baseVars, KeeperStep,
            KeeperNext, KeeperCount, KeeperLaunch, KeeperError, KeeperCreate,
            KeeperCreateFails, KeeperAdd, KeeperTrim
      <3>3. CASE HealthStep \/ UNCHANGED vars
        BY <3>3
        DEF HealthStep, HealthNext, HealthSnapshot, HealthTakeBatch, HealthLock, HealthLaunch,
            HealthError, HealthPing, HealthErase, HealthRevalidate, HealthLeave,
            HealthBatchEnd, vars, userVars, baseVars
      <3> QED BY <3>1, <3>2, <3>3 DEF Next, Ended
    <2>2. hand[u] \in Resources /\ hand[u] \notin dirty /\ mutex = u
      BY <2>1 DEF Ownership, HandMatchesPc, CopyIsLocked, CopyIsChecked
    <2>3. dirty' \subseteq dirty \/ \E r \in Resources : dirty' = dirty \cup {r} /\ hand[u] # r
      <3>1. ASSUME NEW v \in Users, GetCopy(v) PROVE hand[v] # hand[u]
        BY <1>0, <2>1, <2>2, <3>1, BaseAssumption, MutexHeld
        DEF GetCopy, Ownership, HandsDistinct, HandMatchesPc, BaseTypeOK, BaseAssumption
      <3>2. ASSUME NEW v \in Users, GetCopy(v) PROVE hand[v] \in Resources
        BY <3>2 DEF GetCopy, Ownership, HandMatchesPc
      <3>3. CASE UserStep
        <4>1. ASSUME NEW v \in Users, GetCopy(v)
              PROVE  dirty' \subseteq dirty
                     \/ \E r \in Resources : dirty' = dirty \cup {r} /\ hand[u] # r
          BY <3>1, <3>2, <4>1 DEF GetCopy, Lend
        <4>2. ASSUME NEW v \in Users, EmergencyCreate(v) \/ GetUnpooled(v)
              PROVE  dirty' \subseteq dirty
                     \/ \E r \in Resources : dirty' = dirty \cup {r} /\ hand[u] # r
          BY <4>2, FreshResource DEF EmergencyCreate, GetUnpooled, Create, Lend
        <4> QED
          BY <3>3, <4>1, <4>2
          DEF UserStep, UserNext, GetNext, GetFound, GetMiss, EmergencyFail, EmergencyAdd,
              Release, ClearPool, PoolFullState, PoolFullStateEnd, setPopulationId
      <3>4. CASE EnvironmentStep \/ KeeperStep
        BY <3>4
        DEF EnvironmentStep, EnvironmentNext, Dispose, Break, baseVars, KeeperStep,
            KeeperNext, KeeperCount, KeeperLaunch, KeeperError, KeeperCreate,
            KeeperCreateFails, KeeperAdd, KeeperTrim
      <3>5. CASE HealthStep \/ UNCHANGED vars
        BY <3>5
        DEF HealthStep, HealthNext, HealthSnapshot, HealthTakeBatch, HealthLock, HealthLaunch,
            HealthError, HealthPing, HealthErase, HealthRevalidate, HealthLeave,
            HealthBatchEnd, vars, baseVars
      <3> QED BY <3>3, <3>4, <3>5 DEF Next, Ended
    <2> QED BY <2>1, <2>2, <2>3
  <1> QED BY <1>1, <1>2

\* At the start nothing is lent.
LEMMA ContractInit == Init => CopyIsChecked /\ Contract!Init
  <1> SUFFICES ASSUME Init PROVE CopyIsChecked /\ Contract!Init
    OBVIOUS
  <1>1. /\ pc = [u \in Users |-> "idle"] /\ pool = <<>> /\ dirty = {}
        /\ jobRefs = [j \in Jobs |-> {}]
    BY DEF Init, BaseInit
  <1>2. PoolStock = {}
    BY <1>1, StockMember DEF PoolStock, Owners, Holds, InPool
  <1>3. PoolLent = [u \in Users |-> None]
    BY <1>1 DEF PoolLent
  <1>4. CopyIsChecked
    BY <1>1 DEF CopyIsChecked
  <1> QED BY <1>1, <1>2, <1>3, <1>4 DEF Contract!Init, PoolStock, PoolLent

\* Every step of the pool is one of the contract, or leaves its state as it is.
LEMMA ContractStep ==
  ASSUME Typed, Ownership, ValidityInv, CopyIsChecked, [Next]_vars
  PROVE  Contract!Next \/ UNCHANGED <<PoolStock, PoolLent, dirty>>
  <1>1. CASE UNCHANGED vars
    <2>1. UNCHANGED <<pc, hand, pool, jobRefs, dirty>>
      BY <1>1 DEF vars, baseVars, poolVars, userVars
    <2> QED BY <2>1 DEF PoolStock, PoolLent, Owners, Holds, InPool
  <1> QED
    BY <1>1, ContractUserStep, ContractEnvironmentStep, ContractKeeperStep,
       ContractHealthStep
    DEF Next, Ended

\* The pool keeps its promise to its users (base.hpp), with or without its jobs: a
\* resource is lent to one call at a time, what is lent from the stock has been checked
\* since it was last lent, and what leaves the stock is in nobody's hands.
THEOREM PoolKeepsContract == Spec => KeepsContract
  <1>1. Init => CopyIsChecked /\ Contract!Init
    BY ContractInit
  <1>2. Typed /\ Ownership /\ ValidityInv /\ CopyIsChecked /\ [Next]_vars
          => CopyIsChecked' /\ [Contract!Next]_<<
               {r \in Resources : Owners(r) # {}},
               [u \in Users |-> IF pc[u] \in {"adding", "holding"} THEN hand[u] ELSE None],
               dirty>>
    BY CopyIsCheckedStep, ContractStep DEF PoolStock, PoolLent
  <1> QED
    BY <1>1, <1>2, TypedInit, TypedStep, OwnershipInit, OwnershipStep, ValidityInit,
       ValidityStep, PTL
    DEF Spec, KeepsContract, Contract!Spec, Contract!vars

-----------------------------------------------------------------------------
(* Without a health care job, only clearPool takes a used resource away.   *)

\* What is kept of the vector is kept whole.
LEMMA KeptStays ==
  ASSUME pool \in Seq(Items), NEW K, K \subseteq DOMAIN pool, KeepOnly(K), NEW i \in K,
         NEW r, pool[i].res = r
  PROVE  InPool(r)'
  <1>1. IsFiniteSet(K)
    <2>1. IsFiniteSet(1 .. Len(pool))
      BY FS_Interval
    <2> QED BY <2>1, FS_Subset
  <1>2. PICK n \in Nat : n = Cardinality(K)
    BY <1>1, FS_CardinalityType
  <1>3. PICK f \in [1 .. n -> K] :
          /\ \A a, b \in DOMAIN f : a < b => f[a] < f[b]
          /\ pool' = [a \in DOMAIN f |-> pool[f[a]]]
    BY <1>2 DEF KeepOnly
  <1>4. f \in Injection(1 .. n, K)
    <2>1. \A a, b \in 1 .. n : a # b => f[a] # f[b]
      <3> SUFFICES ASSUME NEW a \in 1 .. n, NEW b \in 1 .. n, a # b, f[a] = f[b]
                   PROVE  FALSE
        OBVIOUS
      <3>1. f[a] \in Nat /\ f[b] \in Nat
        BY <1>3
      <3> QED BY <1>3, <3>1
    <2> QED BY <1>3, <2>1 DEF Injection, IsInjective
  <1>5. f \in Surjection(1 .. n, K)
    <2>1. IsFiniteSet(1 .. n) /\ Cardinality(1 .. n) = n
      BY <1>2, FS_Interval
    <2> QED BY <1>1, <1>2, <1>4, <2>1, FS_Injection
  <1>6. PICK a \in 1 .. n : f[a] = i
    BY <1>5 DEF Surjection
  <1>7. a \in DOMAIN pool' /\ pool'[a] = pool[i]
    BY <1>3, <1>6
  <1> QED BY <1>7 DEF InPool

\* The keeper's removal spares what is used.
LEMMA TrimSparesUsed ==
  ASSUME Typed, KeeperTrim, NEW i \in DOMAIN pool, isUsed(pool[i]),
         NEW r, pool[i].res = r
  PROVE  InPool(r)'
  <1>1. PICK K : /\ K = DOMAIN pool \ (FirstPass \cup SecondPass)
                 /\ KeepOnly(K)
    BY DEF KeeperTrim
  <1>2. i \in K
    BY <1>1 DEF FirstPass, SecondPass, FirstOf, AvailableIndices, UnusedIndices, isAvailable
  <1> QED BY <1>1, <1>2, KeptStays DEF Typed, TypeOK, BaseTypeOK

\* Without a health care job, a resource in use leaves the pool only when a user clears
\* it: the keeper's removal, which works from an outdated count, spares the used ones
\* (resource_count_keeper.hpp, the two passes of std::remove_if).
THEOREM UsedAreSpared == ~EnableHealthCareJob => (Spec => UsedStaysPooled)
  <1> SUFFICES ASSUME ~EnableHealthCareJob PROVE Spec => UsedStaysPooled
    OBVIOUS
  <1>1. ASSUME Typed, [Next]_vars, NEW r \in Resources, NEW u \in Users, Holds(u, r),
               NEW i \in DOMAIN pool, pool[i].res = r
        PROVE  InPool(r)' \/ (ClearPool /\ UNCHANGED keeperVars)
    <2>0. pool \in Seq(Items)
      BY <1>1 DEF Typed, TypeOK, BaseTypeOK
    <2>1. ASSUME UNCHANGED pool PROVE InPool(r)'
      BY <1>1, <2>1 DEF InPool
    <2>2. ASSUME NEW added \in Seq(Items), pool' = pool \o added PROVE InPool(r)'
      BY <1>1, <2>0, <2>2 DEF InPool
    <2>3. CASE UserStep
      <3>1. ASSUME NEW v \in Users, GetFound(v) PROVE InPool(r)'
        <4>1. PICK k \in DOMAIN pool : Claim(k)
          BY <3>1 DEF GetFound, Candidates, AvailableIndices
        <4>2. DOMAIN pool' = DOMAIN pool /\ pool'[i].res = pool[i].res
          BY <1>1, <2>0, <4>1, ClaimType
        <4> QED BY <1>1, <4>2 DEF InPool
      <3>2. ASSUME NEW v \in Users, EmergencyAdd(v) PROVE InPool(r)'
        <4>1. CASE pool' = Append(pool, [res |-> hand[v], valid |-> ~Invalidate])
          <5>1. i \in DOMAIN pool' /\ pool'[i] = pool[i]
            BY <1>1, <2>0, <4>1
          <5> QED BY <1>1, <5>1 DEF InPool
        <4> QED BY <2>1, <3>2, <4>1 DEF EmergencyAdd
      <3> QED
        BY <1>1, <2>1, <2>3, <3>1, <3>2
        DEF UserStep, UserNext, GetNext, GetCopy, GetMiss, EmergencyCreate, EmergencyFail,
            Release, GetUnpooled, PoolFullState, PoolFullStateEnd, setPopulationId, poolVars
    <2>4. CASE KeeperStep
      <3>1. ASSUME KeeperTrim PROVE InPool(r)'
        <4>1. isUsed(pool[i])
          BY <1>1, BaseAssumption DEF isUsed, Owners, BaseAssumption
        <4> QED BY <1>1, <3>1, <4>1, TrimSparesUsed
      <3>2. ASSUME KeeperAdd, ~UNCHANGED pool PROVE InPool(r)'
        <4>1. PICK added \in Seq(Items) : pool' = pool \o added
          BY <1>1, <3>2, KeeperAddItems DEF Typed, TypeOK
        <4> QED BY <2>2, <4>1
      <3> QED
        BY <2>1, <2>4, <3>1, <3>2
        DEF KeeperStep, KeeperNext, KeeperCount, KeeperLaunch, KeeperError, KeeperCreate,
            KeeperCreateFails, baseVars, poolVars
    <2>5. CASE EnvironmentStep \/ UNCHANGED vars
      BY <2>1, <2>5
      DEF EnvironmentStep, EnvironmentNext, Dispose, Break, vars, baseVars, poolVars
    <2> QED BY <1>1, <2>3, <2>4, <2>5 DEF Next, Ended, HealthStep
  <1>2. Typed /\ [Next]_vars
          => [\A r \in Resources :
                (\E u \in Users : Holds(u, r)) /\ InPool(r) /\ ~InPool(r)'
                  => ClearPool /\ UNCHANGED keeperVars]_vars
    BY <1>1 DEF InPool
  <1> QED
    BY <1>2, TypedInit, TypedStep, PTL DEF Spec, UsedStaysPooled
=============================================================================
