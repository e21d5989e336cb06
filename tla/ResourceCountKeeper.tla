------------------------- MODULE ResourceCountKeeper -------------------------
(***************************************************************************)
(* The job of shared_ptr_pool/resource_count_keeper.hpp.  It counts the    *)
(* available resources under the mutex, releases it, and acts on the count *)
(* it saw: it creates the missing resources and adds them under a second   *)
(* lock, or removes the superfluous ones under a second lock.              *)
(***************************************************************************)
EXTENDS SharedPtrPoolBase

CONSTANTS
  MinSpare, MaxSpare,      \* minSpare, maxSpare
  TerminateOnKeeperFailure \* terminateOnResourceCountKeeperFailure

ASSUME KeeperAssumption ==
  /\ MinSpare \in Nat /\ MaxSpare \in Nat
  /\ TerminateOnKeeperFailure \in BOOLEAN

VARIABLES
  keeperPc,         \* where the job is
  keeperPopulation, \* populationId at the count
  need              \* needed, then toRemove: how many to create or remove

keeperVars == <<keeperPc, keeperPopulation, need>>

KeeperInit == keeperPc = "idle" /\ keeperPopulation = 0 /\ need = 0

-----------------------------------------------------------------------------

\* One cycle's first critical section (a count within bounds changes nothing).
KeeperCount ==
  LET available == Cardinality(AvailableIndices)
  IN /\ keeperPc = "idle" /\ mutex = None
     /\ \/ /\ available < MinSpare
           /\ keeperPc' = "launch"
           /\ need' = MinSpare - available
        \/ /\ available >= MinSpare /\ available > MaxSpare
           /\ keeperPc' = "trim"
           /\ need' = available - MaxSpare
     /\ keeperPopulation' = populationId
     /\ UNCHANGED baseVars

\* factory() is called for every missing resource before any result is awaited.
KeeperLaunch ==
  /\ keeperPc = "launch"
  /\ keeperPc' = "create"
  /\ UNCHANGED <<baseVars, keeperPopulation, need>>

\* A call of factory() itself throws: only the catch around the whole loop sees
\* it, and the job's thread ends.
KeeperError ==
  /\ keeperPc = "launch"
  /\ FactoryMayFail
  /\ keeperPc' = "dead"
  /\ need' = 0
  /\ status' = IF TerminateOnKeeperFailure THEN "terminated" ELSE status
  /\ UNCHANGED <<poolVars, userVars, jobRefs, weak, dirty, broken,
                 keeperPopulation>>

\* A future delivers into temporaryPool ...
KeeperCreate ==
  /\ keeperPc = "create" /\ need > 0
  /\ \E r \in Resources :
       /\ Create(r)
       /\ dirty' = dirty \ {r}
       /\ jobRefs' = [jobRefs EXCEPT !["keeper"] = @ \cup {r}]
  /\ need' = need - 1
  /\ UNCHANGED <<poolVars, userVars, weak, status, keeperPc, keeperPopulation>>

\* ... or throws, which is ignored.
KeeperCreateFails ==
  /\ keeperPc = "create" /\ need > 0
  /\ FactoryFails
  /\ need' = need - 1
  /\ UNCHANGED <<baseVars, keeperPc, keeperPopulation>>

\* Fault: the population is not compared.
AnyPopulation == TRUE

SamePopulation == keeperPopulation = populationId

\* The second lock: temporaryPool is moved to the end of the pool (in any order:
\* its resources differ in nothing), or destroyed if the population changed.
KeeperAdd ==
  LET n == Cardinality(jobRefs["keeper"])
  IN /\ keeperPc = "create" /\ need = 0 /\ mutex = None
     /\ \/ /\ SamePopulation
           /\ \E f \in [1 .. n -> jobRefs["keeper"]] :
                /\ \A a, b \in 1 .. n : f[a] = f[b] => a = b
                /\ pool' = pool \o [k \in 1 .. n |-> [res |-> f[k], valid |-> TRUE]]
        \/ /\ ~SamePopulation
           /\ UNCHANGED pool
     /\ jobRefs' = [jobRefs EXCEPT !["keeper"] = {}]
     /\ keeperPc' = "idle"
     /\ UNCHANGED <<poolIndex, populationId, mutex, userVars, weak, dirty, broken,
                    status, keeperPopulation, need>>

-----------------------------------------------------------------------------
(* The removal: two passes of std::remove_if over the vector.              *)

\* Fault: one too few.
OneShort(S, n) == {i \in S : Cardinality({j \in S : j < i}) + 1 < n}

FirstOf(S, n) == {i \in S : Cardinality({j \in S : j < i}) < n}

\* The first pass takes the first available items, the second any unused one.
FirstPass == FirstOf(AvailableIndices, need)

\* Fault: the second pass takes used items too.
AllIndices == DOMAIN pool

UnusedIndices == {i \in DOMAIN pool : ~isUsed(pool[i])}

SecondPass ==
  FirstOf(UnusedIndices \ FirstPass, need - Cardinality(FirstPass))

\* remove_if moves the items it keeps over the ones it removes: a removed item
\* at a position below the number of those kept is overwritten, which destroys
\* its resource there and then.
OverwrittenItems ==
  LET kept1 == DOMAIN pool \ FirstPass
      kept2 == kept1 \ SecondPass
  IN {i \in FirstPass : i <= Cardinality(kept1)} \cup
     {i \in SecondPass :
        Cardinality({j \in kept1 : j <= i}) <= Cardinality(kept2)}

\* pool' is the items at the indices K, in their order.
KeepOnly(K) ==
  \E f \in [1 .. Cardinality(K) -> K] :
    /\ \A a, b \in DOMAIN f : a < b => f[a] < f[b]
    /\ pool' = [a \in DOMAIN f |-> pool[f[a]]]

\* The second lock of a cycle that found too many: the items removed and not
\* overwritten go to removePool, which a detached thread destroys.
KeeperTrim ==
  LET removed == FirstPass \cup SecondPass
      kept == DOMAIN pool \ removed
  IN /\ keeperPc = "trim" /\ mutex = None
     /\ KeepOnly(kept)
     /\ poolIndex' = ResetIndex(Cardinality(kept))
     /\ jobRefs' = [jobRefs EXCEPT !["disposer"] =
                      @ \cup {pool[i].res : i \in removed \ OverwrittenItems}]
     /\ keeperPc' = "idle"
     /\ need' = 0
     /\ UNCHANGED <<populationId, mutex, userVars, weak, dirty, broken, status,
                    keeperPopulation>>

KeeperNext ==
  \/ KeeperCount \/ KeeperLaunch \/ KeeperError \/ KeeperCreate
  \/ KeeperCreateFails \/ KeeperAdd \/ KeeperTrim

KeeperTypeOK ==
  /\ keeperPc \in {"idle", "launch", "create", "trim", "dead"}
  /\ keeperPopulation \in PopulationIds
  /\ need \in Nat
=============================================================================
