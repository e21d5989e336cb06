--------------------------- MODULE PoolPopulations ---------------------------
(***************************************************************************)
(* A pool whose user replaces its whole population: the factory is told to *)
(* make other resources, setPopulationId() gives them a number of their    *)
(* own, and the pool is emptied, by clearPool() or by its jobs.  Factories *)
(* that were called before go on meanwhile.                                *)
(***************************************************************************)
EXTENDS SharedPtrPool

\* Populations are numbered upward, so that a number says which one is meant.
ASSUME PopulationAssumption == PopulationIds \subseteq Nat

VARIABLES
  called,  \* history: the population when a caller's factory was called
  born,    \* history: the same of the factory each resource comes from
  emptied  \* history: the pool was empty some time since the last new population

populationVars == <<called, born, emptied>>

PopulationsInit ==
  /\ Init
  /\ called = [c \in Callers |-> 0]
  /\ born = [r \in Resources |-> 0]
  /\ emptied = TRUE

\* The caller that r is delivered to.
Recipient(r) == CHOOSE c \in Callers : c \in Owners(r)'

\* A step A of the pool.
InPopulations(A) ==
  /\ A
  /\ populationId' >= populationId
  /\ called' = [c \in Callers |->
                  IF Connecting(c) /\ Connecting(c)' THEN called[c] ELSE populationId']
  /\ born' = [r \in Resources |->
                IF Fresh(r)' THEN 0
                ELSE IF Fresh(r) THEN called[Recipient(r)] ELSE born[r]]
  /\ emptied' = (populationId' = populationId /\ (emptied \/ pool' = <<>>))

PopulationsNext ==
  InPopulations(UserStep \/ EnvironmentStep \/ KeeperStep \/ HealthStep \/ Ended)

PopulationsSpec == PopulationsInit /\ [][PopulationsNext]_<<vars, populationVars>>

-----------------------------------------------------------------------------

\* Once the pool was emptied for a new population, no resource of an old one comes
\* back into it: not from a get() or a keeper that called the factory before
\* (base.hpp:350, resource_count_keeper.hpp:132), nor from a user who returns it.
PopulationsDoNotMix ==
  emptied => \A i \in DOMAIN pool : born[pool[i].res] = populationId
=============================================================================
