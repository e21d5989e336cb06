--------------------------- MODULE DnsaPoolProofs ---------------------------
(***************************************************************************)
(* Proofs about what comes into the pool: in DnsaConnectionPool, for any   *)
(* addresses of the hostname, and in PoolPopulations, for any populations. *)
(* They rest on those about the pool: the management job is one more       *)
(* caller of clearPool.                                                    *)
(***************************************************************************)
EXTENDS DnsaConnectionPool, PoolPopulations, SharedPtrPoolProofs

-----------------------------------------------------------------------------
(* What comes into a pool.                                                 *)

\* A resource that is in the pool or on its way into it.
Arriving(r) ==
  \/ InPool(r)
  \/ \E u \in Users : pc[u] = "adding" /\ hand[u] = r
  \/ r \in jobRefs["keeper"]

LEMMA ArrivingIsOwned ==
  ASSUME NEW r \in Resources, Arriving(r)
  PROVE  ~Fresh(r)
  BY DEF Arriving, Fresh, Owners, Holds, Jobs

\* Nothing enters the pool that was not on its way and of the present population,
\* and nothing sets out but what was just created.
Arrives(r) ==
  /\ Arriving(r)' => Arriving(r) \/ (Fresh(r) /\ ~Fresh(r)')
  /\ InPool(r)' =>
       \/ InPool(r)
       \/ /\ \/ \E u \in Users : pc[u] = "adding" /\ hand[u] = r /\ seen[u] = populationId
             \/ r \in jobRefs["keeper"] /\ keeperPopulation = populationId
          /\ UNCHANGED populationId

LEMMA UserArrivals ==
  ASSUME Typed, Ownership, UserStep, NEW r \in Resources
  PROVE  Arrives(r)
  <1>t. BaseTypeOK
    BY DEF Typed, TypeOK
  <1> USE DEF BaseTypeOK
  <1>1. ASSUME NEW u \in Users, GetFound(u) PROVE Arrives(r)
    <2>1. PICK i \in DOMAIN pool : Claim(i)
      BY <1>1 DEF GetFound, Candidates, AvailableIndices
    <2>2. InPool(r)' => InPool(r)
      BY <1>t, <2>1, ClaimType DEF InPool
    <2>3. \A v \in Users : pc'[v] = "adding" => pc[v] = "adding" /\ hand'[v] = hand[v]
      BY <1>t, <1>1 DEF GetFound
    <2> QED BY <1>1, <2>2, <2>3 DEF GetFound, Arrives, Arriving
  <1>2. ASSUME NEW u \in Users,
               \/ GetCopy(u) \/ GetMiss(u) \/ EmergencyFail(u) \/ Release(u)
               \/ GetUnpooled(u) \/ PoolFullState(u) \/ PoolFullStateEnd(u)
        PROVE  Arrives(r)
    <2>1. UNCHANGED <<pool, jobRefs>>
      BY <1>2 DEF GetCopy, GetMiss, EmergencyFail, Release, GetUnpooled, PoolFullState,
                  PoolFullStateEnd, poolVars
    <2>2. \A v \in Users : pc'[v] = "adding" => pc[v] = "adding" /\ hand'[v] = hand[v]
      BY <1>t, <1>2 DEF GetCopy, GetMiss, EmergencyFail, Release, GetUnpooled,
                        PoolFullState, PoolFullStateEnd
    <2> QED BY <2>1, <2>2 DEF Arrives, Arriving, InPool
  <1>3. ASSUME NEW u \in Users, EmergencyCreate(u) PROVE Arrives(r)
    <2>1. PICK q \in Resources : Fresh(q) /\ hand' = [hand EXCEPT ![u] = q]
      BY <1>3 DEF EmergencyCreate, Create
    <2>2. UNCHANGED <<pool, jobRefs>> /\ pc' = [pc EXCEPT ![u] = "adding"]
      BY <1>3 DEF EmergencyCreate, poolVars
    <2>3. hand'[u] = q /\ \A v \in Users \ {u} : hand'[v] = hand[v] /\ pc'[v] = pc[v]
      BY <1>t, <2>1, <2>2
    <2>4. Arriving(r)' => Arriving(r) \/ r = q
      BY <2>2, <2>3 DEF Arriving, InPool
    <2>5. ~Fresh(q)'
      BY <2>3 DEF Fresh
    <2> QED BY <2>1, <2>2, <2>4, <2>5 DEF Arrives, InPool
  <1>4. ASSUME NEW u \in Users, EmergencyAdd(u) PROVE Arrives(r)
    <2> DEFINE item == [res |-> hand[u], valid |-> ~Invalidate]
    <2>1. /\ \/ pool' = Append(pool, item) /\ seen[u] = populationId
             \/ UNCHANGED pool
          /\ pc[u] = "adding"
          /\ pc' = [pc EXCEPT ![u] = "holding"]
          /\ UNCHANGED <<hand, jobRefs, populationId>>
      BY <1>4 DEF EmergencyAdd
    <2>2. item.res = hand[u]
      OBVIOUS
    <2> HIDE DEF item
    <2>3. \A k \in DOMAIN pool' :
            \/ k \in DOMAIN pool /\ pool'[k] = pool[k]
            \/ k = Len(pool) + 1 /\ pool'[k] = item /\ seen[u] = populationId
      BY <1>t, <2>1
    <2>4. InPool(r)' => InPool(r) \/ (r = hand[u] /\ seen[u] = populationId)
      BY <2>2, <2>3 DEF InPool
    <2>5. \A v \in Users : pc'[v] = "adding" => pc[v] = "adding"
      BY <1>t, <2>1
    <2> QED BY <2>1, <2>4, <2>5 DEF Arrives, Arriving
  <1>5. CASE ClearPool
    <2>1. ~InPool(r)' /\ UNCHANGED <<pc, hand>> /\ jobRefs'["keeper"] = jobRefs["keeper"]
      BY <1>t, <1>5 DEF ClearPool, InPool, userVars, Jobs
    <2> QED BY <2>1 DEF Arrives, Arriving
  <1>6. ASSUME NEW id \in PopulationIds, setPopulationId(id) PROVE Arrives(r)
    BY <1>6 DEF setPopulationId, userVars, Arrives, Arriving, InPool
  <1> QED
    BY <1>1, <1>2, <1>3, <1>4, <1>5, <1>6 DEF UserStep, UserNext, GetNext

LEMMA EnvironmentArrivals ==
  ASSUME Typed, EnvironmentStep, NEW r \in Resources
  PROVE  Arrives(r)
  <1>1. UNCHANGED <<pool, pc, hand>>
    BY DEF EnvironmentStep, EnvironmentNext, Dispose, Break, poolVars, userVars
  <1>2. jobRefs'["keeper"] = jobRefs["keeper"]
    BY DEF EnvironmentStep, EnvironmentNext, Dispose, Break, Typed, TypeOK, BaseTypeOK, Jobs
  <1> QED BY <1>1, <1>2 DEF Arrives, Arriving, InPool

LEMMA KeeperArrivals ==
  ASSUME Typed, Ownership, KeeperStep, NEW r \in Resources
  PROVE  Arrives(r)
  <1>t. BaseTypeOK
    BY DEF Typed, TypeOK
  <1>1. CASE KeeperCount \/ KeeperLaunch \/ KeeperError \/ KeeperCreateFails
    BY <1>1 DEF KeeperCount, KeeperLaunch, KeeperError, KeeperCreateFails, baseVars,
                poolVars, userVars, Arrives, Arriving, InPool
  <1>2. CASE KeeperCreate
    <2>1. PICK q \in Resources :
            Fresh(q) /\ jobRefs' = [jobRefs EXCEPT !["keeper"] = @ \cup {q}]
      BY <1>2 DEF KeeperCreate, Create
    <2>2. UNCHANGED <<pool, pc, hand>> /\ jobRefs'["keeper"] = jobRefs["keeper"] \cup {q}
      BY <1>t, <1>2, <2>1 DEF KeeperCreate, poolVars, userVars, BaseTypeOK, Jobs
    <2>3. Arriving(r)' => Arriving(r) \/ r = q
      BY <2>2 DEF Arriving, InPool
    <2>4. ~Fresh(q)'
      <3>1. "keeper" \in {j \in Jobs : q \in jobRefs'[j]}
        BY <2>2 DEF Jobs
      <3> QED BY <3>1 DEF Fresh, Owners
    <2> QED BY <2>1, <2>2, <2>3, <2>4 DEF Arrives, InPool
  <1>3. CASE KeeperAdd
    <2>1. UNCHANGED <<pc, hand>> /\ jobRefs'["keeper"] = {}
      BY <1>t, <1>3 DEF KeeperAdd, userVars, BaseTypeOK, Jobs
    <2>2. InPool(r)' =>
            InPool(r) \/ (r \in jobRefs["keeper"] /\ keeperPopulation = populationId)
      <3>0. UNCHANGED populationId /\ (~UNCHANGED pool => keeperPopulation = populationId)
        BY <1>3 DEF KeeperAdd, SamePopulation
      <3>1. CASE UNCHANGED pool
        BY <3>1 DEF InPool
      <3>2. CASE ~UNCHANGED pool
        <4>1. PICK added \in Seq(Items) :
                /\ pool' = pool \o added
                /\ \A k \in DOMAIN added : added[k].res \in jobRefs["keeper"]
          BY <1>t, <1>3, <3>2, KeeperAddItems
        <4>2. \A k \in DOMAIN pool' :
                \/ k \in DOMAIN pool /\ pool'[k] = pool[k]
                \/ /\ k - Len(pool) \in DOMAIN added
                   /\ pool'[k] = added[k - Len(pool)]
          BY <1>t, <4>1 DEF BaseTypeOK
        <4> QED BY <3>0, <3>2, <4>1, <4>2 DEF InPool
      <3> QED BY <3>1, <3>2
    <2>3. UNCHANGED populationId
      BY <1>3 DEF KeeperAdd
    <2> QED BY <2>1, <2>2, <2>3 DEF Arrives, Arriving
  <1>4. CASE KeeperTrim
    <2> DEFINE kept == DOMAIN pool \ (FirstPass \cup SecondPass)
    <2>1. KeepOnly(kept) /\ UNCHANGED <<pc, hand>>
      BY <1>4 DEF KeeperTrim, userVars
    <2>2. Shrinks
      BY <1>t, <2>1, KeepOnlyType DEF BaseTypeOK, Shrinks
    <2>3. InPool(r)' => InPool(r)
      BY <2>2, ShrinkKeepsDistinct DEF Ownership
    <2>4. jobRefs'["keeper"] = jobRefs["keeper"]
      BY <1>t, <1>4 DEF KeeperTrim, BaseTypeOK, Jobs
    <2> QED BY <2>1, <2>3, <2>4 DEF Arrives, Arriving
  <1> QED BY <1>1, <1>2, <1>3, <1>4 DEF KeeperStep, KeeperNext

LEMMA HealthArrivals ==
  ASSUME Typed, Ownership, HealthStep, NEW r \in Resources
  PROVE  Arrives(r)
  <1>t. BaseTypeOK
    BY DEF Typed, TypeOK
  <1>1. UNCHANGED <<pc, hand>>
    BY DEF HealthStep, HealthNext, HealthSnapshot, HealthTakeBatch, HealthLock,
           HealthLaunch, HealthError, HealthPing, HealthErase, HealthRevalidate,
           HealthLeave, HealthBatchEnd, baseVars, userVars
  <1>2. jobRefs'["keeper"] = jobRefs["keeper"]
    BY <1>t DEF HealthStep, HealthNext, HealthSnapshot, HealthTakeBatch, HealthLock,
           HealthLaunch, HealthError, HealthPing, HealthErase, HealthRevalidate,
           HealthLeave, HealthBatchEnd, baseVars, BaseTypeOK, Jobs
  <1>3. InPool(r)' => InPool(r)
    <2>1. ASSUME NEW c \in checks, HealthErase(c) PROVE InPool(r)' => InPool(r)
      BY <1>t, <2>1, EraseShrinks, ShrinkKeepsDistinct DEF HealthErase, Ownership
    <2>2. ASSUME NEW c \in checks, HealthRevalidate(c) PROVE InPool(r)' => InPool(r)
      <3>1. \A k \in DOMAIN pool : pool[k] \in Items
        BY <1>t, ItemType DEF BaseTypeOK
      <3> QED BY <2>2, <3>1 DEF HealthRevalidate, Items, InPool
    <2>3. ASSUME UNCHANGED pool PROVE InPool(r)' => InPool(r)
      BY <2>3 DEF InPool
    <2> QED
      BY <2>1, <2>2, <2>3
      DEF HealthStep, HealthNext, HealthSnapshot, HealthTakeBatch, HealthLock, HealthLaunch,
          HealthError, HealthPing, HealthLeave, HealthBatchEnd, baseVars, poolVars
  <1> QED BY <1>1, <1>2, <1>3 DEF Arrives, Arriving

-----------------------------------------------------------------------------
(* The DNS-aware pool.                                                     *)

\* Every step is a step of the pool, or leaves it alone.
LEMMA DnsaStepIsPoolStep == [DnsaNext]_dnsaVars => [Next]_vars
  <1> SUFFICES ASSUME [DnsaNext]_dnsaVars PROVE [Next]_vars
    OBVIOUS
  <1>1. CASE PoolStep
    BY <1>1 DEF PoolStep, InDnsaPool, Next
  <1>2. CASE DnsChange \/ DnsResolve
    BY <1>2 DEF DnsChange, DnsResolve
  <1>3. CASE DnsClear
    BY <1>3 DEF DnsClear, ClearOnChange, Next, UserStep, UserNext
  <1>4. CASE (Ended /\ UNCHANGED dnsVars) \/ UNCHANGED dnsaVars
    BY <1>4 DEF Ended, dnsaVars
  <1> QED BY <1>1, <1>2, <1>3, <1>4 DEF DnsaNext

\* So the DNS-aware pool is a pool, and has all its properties.
LEMMA DnsaIsPool == DnsaSpec => Spec
  <1>1. DnsaInit => Init
    BY DEF DnsaInit
  <1> QED BY <1>1, DnsaStepIsPoolStep, PTL DEF DnsaSpec, Spec

-----------------------------------------------------------------------------
(* Types.                                                                  *)

LEMMA DnsTypedInit == DnsaInit => DnsTypeOK
  BY DnsAssumption DEF DnsaInit, DnsTypeOK

LEMMA DnsTypedStep == DnsTypeOK /\ [DnsaNext]_dnsaVars => DnsTypeOK'
  <1> SUFFICES ASSUME DnsTypeOK, [DnsaNext]_dnsaVars PROVE DnsTypeOK'
    OBVIOUS
  <1> USE DEF DnsTypeOK
  <1>1. CASE PoolStep
    <2>1. UNCHANGED <<dns, jobVars, returned>> /\ Connect
      BY <1>1 DEF PoolStep, InDnsaPool
    <2>2. had' \in [Callers -> SUBSET Addresses]
      BY <2>1 DEF Connect
    <2>3. address' \in [Resources -> Addresses \cup {NoAddress}]
      BY <2>1 DEF Connect
    <2>4. during' \subseteq Callers /\ outside' \subseteq Resources
      BY <2>1 DEF Connect
    <2> QED BY <2>1, <2>2, <2>3, <2>4 DEF jobVars
  <1>2. CASE DnsChange
    BY <1>2 DEF DnsChange, jobVars
  <1>3. CASE DnsResolve
    BY <1>3 DEF DnsResolve
  <1>4. CASE DnsClear
    BY <1>4 DEF DnsClear, Remember
  <1>5. CASE (Ended /\ UNCHANGED dnsVars) \/ UNCHANGED dnsaVars
    BY <1>5 DEF dnsaVars, dnsVars, jobVars
  <1> QED BY <1>1, <1>2, <1>3, <1>4, <1>5 DEF DnsaNext

\* Type correctness of the DNS-aware pool.
THEOREM DnsaTypeCorrect == DnsaSpec => []DnsaTypeOK
  BY DnsTypedInit, DnsTypedStep, DnsaIsPool, TypeCorrect, PTL DEF DnsaSpec, DnsaTypeOK

-----------------------------------------------------------------------------
(* Connections to another address.                                         *)

\* While the hostname has stayed at the address the job knows, since the pool was
\* cleared because of it: what arrives leads there, or was on its way or being
\* made during the clear; and what is being made will lead there, likewise.
Current ==
  ~returned /\ dns = lastIpAddresses =>
    /\ \A r \in Resources : Arriving(r) => r \in outside \/ address[r] = dns
    /\ \A c \in Callers : c \in during \/ had[c] \subseteq {dns}

\* Only a factory that was called can take an address.
CalledOnly == \A c \in Callers : had[c] # {} => Connecting(c)

\* What arrives while the pool is cleared stays outside and is owned.
LEMMA OutsideAtClear ==
  ASSUME Typed, Ownership, DnsClear, NEW r \in Resources, Arriving(r)'
  PROVE  r \in outside'
  <1>1. /\ ~InPool(r)' /\ UNCHANGED <<pc, hand>>
        /\ jobRefs'["keeper"] = jobRefs["keeper"]
    BY DEF DnsClear, ClearOnChange, ClearPool, InPool, userVars, Typed, TypeOK, BaseTypeOK, Jobs
  <1>2. \/ \E u \in Users : pc[u] = "adding" /\ hand[u] = r
        \/ r \in jobRefs["keeper"]
    BY <1>1 DEF Arriving
  <1>3. ~InPool(r)
    BY <1>2 DEF Ownership, ArrivalsOutside
  <1>4. Owners(r) \ {"pool"} # {}
    BY <1>2, BaseAssumption DEF Owners, Holds, Jobs, BaseAssumption
  <1> QED BY <1>3, <1>4 DEF DnsClear

LEMMA CalledOnlyStep ==
  ASSUME DnsTypeOK, CalledOnly, [DnsaNext]_dnsaVars
  PROVE  CalledOnly'
  <1> SUFFICES ASSUME NEW c \in Callers, had'[c] # {} PROVE Connecting(c)'
    BY DEF CalledOnly, Callers
  <1>1. CASE PoolStep
    BY <1>1 DEF PoolStep, InDnsaPool, Connect
  <1>2. CASE DnsChange \/ DnsResolve \/ DnsClear \/ (Ended /\ UNCHANGED dnsVars)
             \/ UNCHANGED dnsaVars
    <2>1. UNCHANGED <<pc, keeperPc, need>>
      BY <1>2 DEF DnsChange, DnsResolve, DnsClear, ClearOnChange, ClearPool, Ended,
                  dnsaVars, vars, baseVars, userVars, keeperVars
    <2>2. had'[c] # {} => had[c] # {} \/ Connecting(c)
      BY <1>2 DEF DnsChange, DnsResolve, DnsClear, dnsaVars, dnsVars, DnsTypeOK
    <2> QED BY <2>1, <2>2 DEF CalledOnly, Connecting
  <1> QED BY <1>1, <1>2 DEF DnsaNext

\* A step of the pool: what sets out now comes from a factory.
LEMMA CurrentPoolStep ==
  ASSUME Typed, Ownership, DnsTypeOK, Current, PoolStep
  PROVE  Current'
  <1>1. UNCHANGED <<dns, lastIpAddresses, returned>> /\ Connect
    BY DEF PoolStep, InDnsaPool, jobVars
  <1> SUFFICES ASSUME ~returned, dns = lastIpAddresses PROVE Current'
    BY <1>1 DEF Current
  <1>2. \A c \in Callers : c \in during \/ had[c] \subseteq {dns}
    BY DEF Current
  <1>3. ASSUME NEW r \in Resources, Arriving(r)' PROVE r \in outside' \/ address'[r] = dns
    <2>1. ~Fresh(r)'
      BY <1>3 DEF Arriving, Fresh, Owners, Holds, Jobs
    <2>2. CASE Fresh(r)
      <3>1. Connected(r)
        BY <2>1, <2>2 DEF Connected
      <3>2. address'[r] \in MayReach(r)
        BY <1>1, <2>1, <2>2, <3>1 DEF Connect
      <3>3. r \in outside' <=> Owners(r)' \cap during # {}
        BY <1>1, <3>1 DEF Connect
      <3> QED BY <1>2, <3>2, <3>3 DEF MayReach
    <2>3. CASE ~Fresh(r)
      <3>1. Arriving(r)
        BY <1>3, <2>3, UserArrivals, EnvironmentArrivals, KeeperArrivals, HealthArrivals
        DEF PoolStep, InDnsaPool, Arrives
      <3>2. r \in outside \/ address[r] = dns
        BY <3>1 DEF Current
      <3>3. address'[r] = address[r] /\ (r \in outside => r \in outside')
        BY <1>1, <2>1, <2>3 DEF Connect, Connected
      <3> QED BY <3>2, <3>3
    <2> QED BY <2>2, <2>3
  <1>4. ASSUME NEW c \in Callers PROVE c \in during' \/ had'[c] \subseteq {dns}
    BY <1>1, <1>2 DEF Connect
  <1> QED BY <1>1, <1>3, <1>4 DEF Current, Callers

LEMMA CurrentStep ==
  ASSUME Typed, Ownership, DnsTypeOK, CalledOnly, Current, [DnsaNext]_dnsaVars
  PROVE  Current'
  <1>1. CASE PoolStep
    BY <1>1, CurrentPoolStep
  <1>2. CASE DnsChange
    BY <1>2 DEF DnsChange, Current, jobVars
  <1>3. CASE DnsClear
    <2>1. \A r \in Resources : Arriving(r)' => r \in outside'
      BY <1>3, OutsideAtClear
    <2>2. \A c \in Callers : c \in during' \/ had'[c] = {}
      BY <1>3 DEF DnsClear, CalledOnly
    <2> QED BY <2>1, <2>2 DEF Current, Callers
  <1>4. CASE DnsResolve \/ (Ended /\ UNCHANGED dnsVars) \/ UNCHANGED dnsaVars
    <2>1. /\ UNCHANGED <<vars, dns, address, had, lastIpAddresses, returned>>
          /\ UNCHANGED <<during, outside>>
      BY <1>4 DEF DnsResolve, Ended, jobVars, dnsVars, dnsaVars
    <2>2. \A r \in Resources : Arriving(r)' => Arriving(r)
      BY <2>1 DEF Arriving, InPool, vars, baseVars, poolVars, userVars
    <2> QED BY <2>1, <2>2 DEF Current, Callers
  <1> QED BY <1>1, <1>2, <1>3, <1>4 DEF DnsaNext

LEMMA CurrentInit == DnsaInit => Current /\ CalledOnly
  BY DnsAssumption DEF DnsaInit, Current, CalledOnly

\* A connection to another address than the hostname's is in the pool, after the
\* job has followed it there, only if it was on its way into the pool during the
\* clear, or the hostname has been away and back unnoticed since.
THEOREM StaleAreOutside == DnsaSpec => []StaleOnlyIfOutside
  <1> DEFINE Inv == Typed /\ Ownership /\ DnsTypeOK /\ CalledOnly /\ Current
  <1>1. DnsaInit => Inv
    BY TypedInit, OwnershipInit, DnsTypedInit, CurrentInit DEF DnsaInit
  <1>2. Inv /\ [DnsaNext]_dnsaVars => Inv'
    BY DnsaStepIsPoolStep, TypedStep, OwnershipStep, DnsTypedStep, CalledOnlyStep,
       CurrentStep
  <1>3. Inv => StaleOnlyIfOutside
    BY DEF StaleOnlyIfOutside, StaleInPool, Followed, Current, Arriving
  <1> QED BY <1>1, <1>2, <1>3, PTL DEF DnsaSpec
-----------------------------------------------------------------------------
(* Populations.                                                            *)

\* What is on its way comes from a factory of the population that its caller has
\* noted, or of a later one.
Populations ==
  /\ called \in [Callers -> PopulationIds]
  /\ \A c \in Callers : called[c] <= populationId
  /\ keeperPopulation <= called["keeper"]
  /\ keeperPc # "create" => jobRefs["keeper"] = {}
  /\ \A u \in Users : pc[u] = "creating" => called[u] = seen[u]
  /\ \A u \in Users : pc[u] = "adding" => born[hand[u]] = seen[u]
  /\ \A r \in jobRefs["keeper"] :
       born[r] \in PopulationIds /\ keeperPopulation <= born[r] /\ born[r] <= populationId
  /\ PopulationsDoNotMix

LEMMA PopulationsStepIsPoolStep ==
  [PopulationsNext]_<<vars, populationVars>> => [Next]_vars
  BY DEF PopulationsNext, InPopulations, Next

\* A call of get() notes the population when it calls the factory, and keeps it.
LEMMA CallKeepsPopulation ==
  ASSUME Typed, [Next]_vars, NEW u \in Users
  PROVE  /\ pc'[u] = "creating" =>
              seen'[u] = IF pc[u] = "creating" THEN seen[u] ELSE populationId'
         /\ pc'[u] = "adding" =>
              /\ seen'[u] = seen[u]
              /\ \/ pc[u] = "adding" /\ hand'[u] = hand[u]
                 \/ pc[u] = "creating" /\ \E r \in Resources : Fresh(r) /\ hand'[u] = r
  <1>t. BaseTypeOK
    BY DEF Typed, TypeOK
  <1>1. CASE UserStep
    <2>1. ASSUME NEW v \in Users,
                 \/ GetFound(v) \/ GetCopy(v) \/ EmergencyFail(v) \/ EmergencyAdd(v)
                 \/ Release(v) \/ GetUnpooled(v) \/ PoolFullState(v) \/ PoolFullStateEnd(v)
          PROVE  /\ UNCHANGED seen
                 /\ pc'[u] = "creating" => pc[u] = "creating"
                 /\ pc'[u] = "adding" => pc[u] = "adding" /\ hand'[u] = hand[u]
      BY <1>t, <2>1 DEF BaseTypeOK, GetFound, GetCopy, EmergencyFail, EmergencyAdd, Release,
                        GetUnpooled, PoolFullState, PoolFullStateEnd
    <2>2. ASSUME NEW v \in Users, GetMiss(v)
          PROVE  /\ UNCHANGED <<populationId, hand>>
                 /\ \/ u # v /\ pc'[u] = pc[u] /\ seen'[u] = seen[u]
                    \/ u = v /\ pc[u] = "idle" /\ pc'[u] = "creating"
                       /\ seen'[u] = populationId
      BY <1>t, <2>2 DEF BaseTypeOK, GetMiss, poolVars
    <2>3. ASSUME NEW v \in Users, EmergencyCreate(v)
          PROVE  /\ UNCHANGED seen
                 /\ \/ u # v /\ pc'[u] = pc[u] /\ hand'[u] = hand[u]
                    \/ /\ pc[u] = "creating" /\ pc'[u] = "adding"
                       /\ \E r \in Resources : Fresh(r) /\ hand'[u] = r
      <3>1. PICK r \in Resources : Fresh(r) /\ hand' = [hand EXCEPT ![v] = r]
        BY <2>3 DEF EmergencyCreate, Create
      <3>2. UNCHANGED seen /\ pc[v] = "creating" /\ pc' = [pc EXCEPT ![v] = "adding"]
        BY <2>3 DEF EmergencyCreate
      <3>3. CASE u # v
        BY <1>t, <3>1, <3>2, <3>3 DEF BaseTypeOK
      <3>4. CASE u = v
        BY <1>t, <3>1, <3>2, <3>4 DEF BaseTypeOK
      <3> QED BY <3>2, <3>3, <3>4
    <2>4. ASSUME ClearPool \/ \E id \in PopulationIds : setPopulationId(id)
          PROVE  UNCHANGED userVars
      BY <2>4 DEF ClearPool, setPopulationId
    <2> QED
      BY <1>1, <2>1, <2>2, <2>3, <2>4, Zenon DEF UserStep, UserNext, GetNext, userVars
  <1>2. CASE EnvironmentStep \/ KeeperStep \/ HealthStep \/ Ended \/ UNCHANGED vars
    <2>1. UNCHANGED userVars
      BY <1>2 DEF EnvironmentStep, EnvironmentNext, Dispose, Break, KeeperStep, KeeperNext,
                  KeeperCount, KeeperLaunch, KeeperError, KeeperCreate, KeeperCreateFails,
                  KeeperAdd, KeeperTrim, HealthStep, HealthNext, HealthSnapshot,
                  HealthTakeBatch, HealthLock, HealthLaunch, HealthError, HealthPing,
                  HealthErase, HealthRevalidate, HealthLeave, HealthBatchEnd, Ended,
                  vars, baseVars
    <2> QED BY <2>1 DEF userVars
  <1> QED BY <1>1, <1>2 DEF Next

\* The keeper notes the population while it has nothing, and what it gets then comes
\* from the factories it calls.
LEMMA CycleKeepsPopulation ==
  ASSUME Typed, [Next]_vars
  PROVE  /\ keeperPopulation' # keeperPopulation =>
              /\ keeperPc = "idle" /\ UNCHANGED <<jobRefs, populationId>>
              /\ keeperPopulation' = populationId
         /\ keeperPc' # "create" =>
              \/ keeperPc # "create" /\ jobRefs'["keeper"] = jobRefs["keeper"]
              \/ jobRefs'["keeper"] = {}
         /\ \A r \in jobRefs'["keeper"] \ jobRefs["keeper"] :
              r \in Resources /\ Fresh(r) /\ Connecting("keeper")
  <1>t. BaseTypeOK
    BY DEF Typed, TypeOK
  <1>1. CASE KeeperStep
    <2>1. CASE KeeperCount \/ KeeperLaunch \/ KeeperError \/ KeeperCreateFails
      BY <2>1 DEF KeeperCount, KeeperLaunch, KeeperError, KeeperCreateFails, baseVars, poolVars
    <2>2. CASE KeeperCreate
      BY <1>t, <2>2 DEF KeeperCreate, Create, BaseTypeOK, Jobs, Connecting
    <2>3. CASE KeeperAdd \/ KeeperTrim
      BY <1>t, <2>3 DEF KeeperAdd, KeeperTrim, BaseTypeOK, Jobs
    <2> QED BY <1>1, <2>1, <2>2, <2>3 DEF KeeperStep, KeeperNext
  <1>2. CASE UserStep \/ EnvironmentStep \/ HealthStep \/ Ended \/ UNCHANGED vars
    <2>1. UNCHANGED <<keeperPc, keeperPopulation>>
      BY <1>2 DEF UserStep, EnvironmentStep, HealthStep, Ended, vars, keeperVars
    <2>2. jobRefs'["keeper"] = jobRefs["keeper"]
      <3>1. CASE UserStep
        BY <1>t, <3>1
        DEF UserStep, UserNext, GetNext, GetFound, GetCopy, GetMiss, EmergencyCreate,
            EmergencyFail, EmergencyAdd, Release, GetUnpooled, PoolFullState,
            PoolFullStateEnd, ClearPool, setPopulationId, BaseTypeOK, Jobs
      <3>2. CASE EnvironmentStep
        BY <1>t, <3>2 DEF EnvironmentStep, EnvironmentNext, Dispose, Break, BaseTypeOK, Jobs
      <3>3. CASE HealthStep
        BY <1>t, <3>3
        DEF HealthStep, HealthNext, HealthSnapshot, HealthTakeBatch, HealthLock,
            HealthLaunch, HealthError, HealthPing, HealthErase, HealthRevalidate,
            HealthLeave, HealthBatchEnd, baseVars, BaseTypeOK, Jobs
      <3>4. CASE Ended \/ UNCHANGED vars
        BY <3>4 DEF Ended, vars, baseVars
      <3> QED BY <1>2, <3>1, <3>2, <3>3, <3>4
    <2> QED BY <2>1, <2>2
  <1> QED BY <1>1, <1>2 DEF Next

\* A new resource has one recipient.
LEMMA RecipientIs ==
  ASSUME Typed', Ownership', NEW r \in Resources
  PROVE  /\ \A u \in Users : pc'[u] = "adding" /\ hand'[u] = r => Recipient(r) = u
         /\ r \in jobRefs'["keeper"] => Recipient(r) = "keeper"
  <1>1. \A c \in Callers : c \in Owners(r)' <=>
          \/ c \in Users /\ Holds(c, r)'
          \/ c = "keeper" /\ r \in jobRefs'["keeper"]
    <2>1. "keeper" \notin Users /\ "pool" \notin Callers /\ Users \cap Jobs = {}
      BY BaseAssumption DEF BaseAssumption, Callers, Jobs
    <2> QED BY <2>1 DEF Owners, Callers, Jobs
  <1>2. "keeper" \notin Users /\ None \notin Resources
    BY BaseAssumption DEF BaseAssumption
  <1>3. ASSUME NEW u \in Users, pc'[u] = "adding", hand'[u] = r PROVE Recipient(r) = u
    <2>1. \A v \in Users : hand'[v] = r => v = u
      BY <1>2, <1>3 DEF Ownership, HandsDistinct
    <2>2. r \notin jobRefs'["keeper"]
      BY <1>3 DEF Ownership, ArrivalsOutside
    <2>3. \A c \in Callers : c \in Owners(r)' <=> c = u
      BY <1>1, <1>2, <1>3, <2>1, <2>2 DEF Holds
    <2> QED BY <2>3 DEF Recipient, Callers
  <1>4. ASSUME r \in jobRefs'["keeper"] PROVE Recipient(r) = "keeper"
    <2>1. \A v \in Users : hand'[v] # r
      BY <1>4 DEF Ownership, ArrivalsOutside
    <2>2. \A c \in Callers : c \in Owners(r)' <=> c = "keeper"
      BY <1>1, <1>2, <1>4, <2>1 DEF Holds
    <2> QED BY <2>2 DEF Recipient, Callers
  <1> QED BY <1>3, <1>4

LEMMA PopulationsStep ==
  ASSUME Typed, Typed', Ownership, Ownership', Populations, PopulationsNext
  PROVE  Populations'
  <1>1. /\ [Next]_vars
        /\ populationId' >= populationId
        /\ called' = [c \in Callers |->
             IF Connecting(c) /\ Connecting(c)' THEN called[c] ELSE populationId']
        /\ born' = [r \in Resources |->
             IF Fresh(r)' THEN 0
             ELSE IF Fresh(r) THEN called[Recipient(r)] ELSE born[r]]
        /\ emptied' = (populationId' = populationId /\ (emptied \/ pool' = <<>>))
    BY PopulationsStepIsPoolStep DEF PopulationsNext, InPopulations
  <1>2. /\ populationId \in PopulationIds /\ populationId' \in PopulationIds
        /\ keeperPopulation \in PopulationIds /\ keeperPopulation' \in PopulationIds
        /\ PopulationIds \subseteq Nat /\ "keeper" \in Callers /\ "keeper" \notin Users
        /\ Users \subseteq Callers
    BY PopulationAssumption, BaseAssumption
    DEF Typed, TypeOK, BaseTypeOK, KeeperTypeOK, BaseAssumption, Callers
  <1>3. called' \in [Callers -> PopulationIds]
        /\ \A c \in Callers : called[c] \in PopulationIds /\ called[c] <= called'[c]
                              /\ called'[c] <= populationId'
    <2>1. \A c \in Callers : called[c] \in PopulationIds /\ called[c] <= populationId
      BY DEF Populations
    <2>2. \A c \in Callers : called'[c] \in {called[c], populationId'}
      BY <1>1
    <2>3. DOMAIN called' = Callers /\ called' = [c \in Callers |-> called'[c]]
      BY <1>1
    <2>4. \A c \in Callers : called'[c] \in PopulationIds
      BY <1>2, <2>1, <2>2
    <2>5. ASSUME NEW c \in Callers
          PROVE  called[c] <= called'[c] /\ called'[c] <= populationId'
      <3>1. called[c] \in Nat /\ populationId \in Nat /\ populationId' \in Nat
        BY <1>2, <2>1
      <3> QED BY <1>1, <2>1, <2>2, <3>1
    <2> QED BY <2>1, <2>3, <2>4, <2>5
  <1>4. keeperPopulation' <= called'["keeper"]
    <2>1. CASE keeperPopulation' = keeperPopulation
      <3>1. /\ keeperPopulation <= called["keeper"] /\ called["keeper"] <= called'["keeper"]
            /\ {keeperPopulation, called["keeper"], called'["keeper"]} \subseteq Nat
        BY <1>2, <1>3 DEF Populations
      <3> QED BY <2>1, <3>1
    <2>2. CASE keeperPopulation' # keeperPopulation
      <3>1. keeperPc = "idle" /\ keeperPopulation' = populationId /\ UNCHANGED populationId
        BY <1>1, <2>2, CycleKeepsPopulation
      <3>2. called'["keeper"] = populationId'
        BY <1>1, <1>2, <3>1 DEF Connecting
      <3> QED BY <1>2, <3>1, <3>2
    <2> QED BY <2>1, <2>2
  <1>5. keeperPc' # "create" => jobRefs'["keeper"] = {}
    BY <1>1, CycleKeepsPopulation DEF Populations
  <1>6. ASSUME NEW u \in Users, pc'[u] = "creating" PROVE called'[u] = seen'[u]
    BY <1>1, <1>2, <1>6, CallKeepsPopulation DEF Populations, Connecting
  <1>7. ASSUME NEW u \in Users, pc'[u] = "adding" PROVE born'[hand'[u]] = seen'[u]
    <2>1. PICK r \in Resources : hand'[u] = r
      BY <1>7 DEF Ownership, HandMatchesPc
    <2>2. ~Fresh(r)' /\ born'[r] = IF Fresh(r) THEN called[Recipient(r)] ELSE born[r]
      <3>1. ~Fresh(r)'
        BY <1>7, <2>1, BaseAssumption DEF Fresh, Owners, Holds, BaseAssumption
      <3> QED BY <1>1, <3>1
    <2>3. CASE pc[u] = "adding" /\ hand[u] = r
      <3>1. ~Fresh(r)
        BY <2>3 DEF Fresh, Owners, Holds
      <3>2. seen'[u] = seen[u]
        BY <1>1, <1>7, CallKeepsPopulation
      <3> QED BY <2>1, <2>2, <2>3, <3>1, <3>2 DEF Populations
    <2>4. CASE pc[u] = "creating" /\ Fresh(r)
      <3>1. Recipient(r) = u
        BY <1>7, <2>1, RecipientIs
      <3>2. seen'[u] = seen[u]
        BY <1>1, <1>7, CallKeepsPopulation
      <3> QED BY <2>1, <2>2, <2>4, <3>1, <3>2 DEF Populations
    <2> QED BY <1>1, <1>7, <2>1, <2>3, <2>4, CallKeepsPopulation
  <1>8. ASSUME NEW r \in jobRefs'["keeper"]
        PROVE  /\ born'[r] \in PopulationIds
               /\ keeperPopulation' <= born'[r] /\ born'[r] <= populationId'
    <2>1. r \in Resources /\ ~Fresh(r)'
      <3>1. r \in Resources
        BY DEF Typed, TypeOK, BaseTypeOK, Jobs
      <3> QED BY <3>1 DEF Fresh, Owners, Jobs
    <2>2. CASE r \in jobRefs["keeper"]
      <3>1. ~Fresh(r)
        BY <2>2 DEF Fresh, Owners, Jobs
      <3>2. born'[r] = born[r]
        BY <1>1, <2>1, <3>1
      <3>3. keeperPopulation' = keeperPopulation
        BY <1>1, <2>2, CycleKeepsPopulation DEF Populations
      <3>4. /\ born[r] \in PopulationIds
            /\ keeperPopulation <= born[r] /\ born[r] <= populationId
        BY <2>2 DEF Populations
      <3>5. {born[r], populationId, populationId'} \subseteq Nat
        BY <1>2, <3>4
      <3> QED BY <1>1, <3>2, <3>3, <3>4, <3>5
    <2>3. CASE r \notin jobRefs["keeper"]
      <3>1. Fresh(r) /\ jobRefs' # jobRefs
        BY <1>1, <2>3, CycleKeepsPopulation
      <3>2. born'[r] = called["keeper"] /\ keeperPopulation' = keeperPopulation
        BY <1>1, <2>1, <3>1, RecipientIs, CycleKeepsPopulation
      <3> QED BY <1>1, <1>2, <1>3, <3>2 DEF Populations
    <2> QED BY <2>2, <2>3
  <1>9. PopulationsDoNotMix'
    <2> SUFFICES ASSUME emptied', NEW i \in DOMAIN pool'
                 PROVE  born'[pool'[i].res] = populationId'
      BY DEF PopulationsDoNotMix
    <2>1. PICK r \in Resources : pool'[i].res = r /\ InPool(r)'
      <3>1. pool' \in Seq(Items)
        BY DEF Typed, TypeOK, BaseTypeOK
      <3>2. pool'[i] \in Items
        BY <3>1, ItemType
      <3> QED BY <3>2 DEF Items, InPool
    <2>2. ~Fresh(r)'
      <3>1. "pool" \in Owners(r)'
        BY <2>1 DEF Owners
      <3> QED BY <3>1 DEF Fresh
    <2>3. populationId' = populationId /\ emptied
      <3>1. pool' # <<>>
        OBVIOUS
      <3> QED BY <1>1, <3>1
    <2>4. ASSUME ~Fresh(r) PROVE born'[r] = born[r]
      BY <1>1, <2>1, <2>2, <2>4
    <2>5. CASE InPool(r)
      <3>1. ~Fresh(r) /\ born[r] = populationId
        <4>1. "pool" \in Owners(r)
          BY <2>5 DEF Owners
        <4> QED BY <2>3, <2>5, <4>1 DEF Fresh, InPool, Populations, PopulationsDoNotMix
      <3> QED BY <2>1, <2>3, <2>4, <3>1
    <2>6. ASSUME NEW u \in Users, pc[u] = "adding", hand[u] = r, seen[u] = populationId
          PROVE  born'[r] = populationId'
      BY <2>3, <2>4, <2>6 DEF Fresh, Populations
    <2>7. CASE r \in jobRefs["keeper"] /\ keeperPopulation = populationId
      <3>1. ~Fresh(r)
        BY <2>7 DEF Fresh, Owners, Jobs
      <3>2. /\ born[r] \in PopulationIds
            /\ populationId <= born[r] /\ born[r] <= populationId
        BY <2>7 DEF Populations
      <3>3. {born[r], populationId} \subseteq Nat
        BY <1>2, <3>2
      <3> QED BY <2>1, <2>3, <2>4, <3>1, <3>2, <3>3
    <2>8. Arrives(r) \/ (InPool(r)' => InPool(r))
      <3>1. CASE UNCHANGED vars
        BY <3>1 DEF vars, baseVars, poolVars, InPool
      <3>2. CASE UserStep \/ EnvironmentStep \/ KeeperStep \/ HealthStep
        BY <2>1, <3>2, UserArrivals, EnvironmentArrivals, KeeperArrivals, HealthArrivals
      <3> QED BY <1>1, <3>1, <3>2 DEF Next, Ended
    <2> QED BY <2>1, <2>5, <2>6, <2>7, <2>8 DEF Arrives
  <1> QED
    BY <1>3, <1>4, <1>5, <1>6, <1>7, <1>8, <1>9 DEF Populations

\* Once the pool was emptied for a new population, whatever get() and the keeper had
\* begun before, no resource of an old population comes back into it.
THEOREM PopulationsStayApart == PopulationsSpec => []PopulationsDoNotMix
  <1> DEFINE Inv == Typed /\ Ownership /\ Populations
  <1>1. PopulationsInit => Inv
    <2>1. PopulationsInit => Populations
      BY BaseAssumption, PopulationAssumption
      DEF PopulationsInit, Init, BaseInit, KeeperInit, Populations, PopulationsDoNotMix,
          BaseAssumption, Callers, Jobs
    <2> QED BY <2>1, TypedInit, OwnershipInit DEF PopulationsInit
  <1>2. Inv /\ [PopulationsNext]_<<vars, populationVars>> => Inv'
    <2> SUFFICES ASSUME Inv, [PopulationsNext]_<<vars, populationVars>> PROVE Inv'
      OBVIOUS
    <2>1. Typed' /\ Ownership'
      BY PopulationsStepIsPoolStep, TypedStep, OwnershipStep
    <2>2. CASE PopulationsNext
      BY <2>1, <2>2, PopulationsStep
    <2>3. CASE UNCHANGED <<vars, populationVars>>
      BY <2>1, <2>3
      DEF Populations, PopulationsDoNotMix, vars, populationVars, baseVars, poolVars,
          userVars, keeperVars
    <2> QED BY <2>1, <2>2, <2>3
  <1>3. Inv => PopulationsDoNotMix
    BY DEF Populations
  <1> QED BY <1>1, <1>2, <1>3, PTL DEF PopulationsSpec
=============================================================================
