--------------------------- MODULE MCReplacedPools ---------------------------
(* A pool whose resources are replaced, for TLC, which explores either a change *)
(* of the hostname or one of the population: each is too much with the other.   *)
EXTENDS DnsaConnectionPool, PoolPopulations

VARIABLE kind

mcVars == <<kind, dnsaVars, populationVars>>

MCInit == kind \in {"hostname", "population"} /\ DnsaInit /\ PopulationsInit

MCNext ==
  \/ kind = "hostname" /\ DnsaNext /\ UNCHANGED <<kind, populationId, populationVars>>
  \/ kind = "population" /\ PopulationsNext /\ UNCHANGED <<kind, dnsVars>>

\* Being fair to the job that follows the hostname leaves out every behaviour of the
\* other kind, which are there for a safety property.
MCFairSpec == MCInit /\ [][MCNext]_mcVars /\ DnsaFairness
=============================================================================
