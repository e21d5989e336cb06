------------------------- MODULE DnsaConnectionPool -------------------------
(***************************************************************************)
(* dnsa_connection_pool.hpp: a pool whose management job resolves the      *)
(* hostname periodically and clears the pool when the answer differs from  *)
(* the last one.                                                           *)
(*                                                                         *)
(* An address stands for the list of addresses the hostname resolves to;   *)
(* lists are compared by value.  The hostname may take any address at any  *)
(* time, a former one too.  A factory resolves the hostname itself, at a   *)
(* moment of its own between its call and the delivery of the connection.  *)
(***************************************************************************)
EXTENDS SharedPtrPool

CONSTANTS
  Addresses,  \* what the hostname can resolve to
  NoAddress   \* the empty list the job starts from

ASSUME DnsAssumption == NoAddress \notin Addresses

VARIABLES
  dns,             \* external: the address the hostname has
  address,         \* the address each resource that exists is connected to
  had,             \* the addresses of the hostname since a caller called the factory
  dnsPc,           \* where the management job is
  ipAddresses,     \* the answer it is comparing
  lastIpAddresses, \* the answer it acted on last
  returned,        \* history: the hostname came back to it since the last clear
  during,          \* history: callers whose factory ran during the last clear
  outside          \* history: resources that were outside the pool at the last
                   \* clear, or come from a factory that ran during it

jobVars == <<dnsPc, ipAddresses, lastIpAddresses>>
dnsVars == <<dns, address, had, jobVars, returned, during, outside>>
dnsaVars == <<vars, dnsVars>>

DnsaInit ==
  /\ Init
  /\ dns \in Addresses
  /\ address = [r \in Resources |-> NoAddress]
  /\ had = [c \in Callers |-> {}]
  /\ dnsPc = "idle"
  /\ ipAddresses = NoAddress /\ lastIpAddresses = NoAddress
  /\ returned = FALSE
  /\ during = {} /\ outside = {}

\* Where a connection that is delivered may lead: to an address the hostname has
\* had since the factory was called.
MayReach(r) == {dns} \cup UNION {had[c] : c \in Callers \cap Owners(r)'}

\* The user's factories, seen from outside: a call begins, goes on, or delivers.
Connect ==
  /\ had' = [c \in Callers |->
               IF ~Connecting(c)' THEN {}
               ELSE IF Connecting(c) THEN had[c] ELSE {dns}]
  /\ \E a \in Addresses :
       /\ \A r \in Resources : Connected(r) => a \in MayReach(r)
       /\ address' = [r \in Resources |-> IF Fresh(r)' THEN NoAddress
                                           ELSE IF Fresh(r) THEN a ELSE address[r]]
  /\ during' = {c \in during : Connecting(c)'}
  /\ outside' = {r \in Resources :
                   IF Connected(r) THEN Owners(r)' \cap during # {}
                                   ELSE r \in outside /\ ~Fresh(r)'}

\* A step A of the pool itself.
InDnsaPool(A) ==
  /\ A
  /\ Connect
  /\ UNCHANGED <<dns, jobVars, returned>>

PoolStep ==
  InDnsaPool(UserStep \/ EnvironmentStep \/ KeeperStep \/ HealthStep)

\* The hostname moves to another server, or back to a former one.
DnsChange ==
  \E a \in Addresses \ {dns} :
    /\ dns' = a
    /\ had' = [c \in Callers |-> IF Connecting(c) THEN had[c] \cup {a} ELSE had[c]]
    /\ returned' = (returned \/ a = lastIpAddresses)
    /\ UNCHANGED <<vars, address, jobVars, during, outside>>

\* DnsResolver::resolve answers, and the answer is not the last one.  (An equal
\* answer, and a failure, which is ignored, change nothing.)
DnsResolve ==
  /\ Running /\ dnsPc = "idle"
  /\ dns # lastIpAddresses
  /\ ipAddresses' = dns
  /\ dnsPc' = "changed"
  /\ UNCHANGED <<vars, dns, address, had, lastIpAddresses, returned, during, outside>>

\* Fault: a change is noted without clearing the pool.
NoteOnly == mutex = None /\ UNCHANGED baseVars

ClearOnChange == ClearPool

\* Fault: the answer is not remembered.
Forget == UNCHANGED lastIpAddresses

Remember == lastIpAddresses' = ipAddresses

\* clearPool(), then the answer becomes the last one.  The population number is
\* not changed.
DnsClear ==
  /\ Running /\ dnsPc = "changed"
  /\ ClearOnChange
  /\ Remember
  /\ dnsPc' = "idle"
  /\ outside' = {r \in Resources : Owners(r) \ {"pool"} # {} /\ ~InPool(r)}
  /\ during' = {c \in Callers : Connecting(c)}
  /\ returned' = FALSE
  /\ UNCHANGED <<keeperVars, healthVars, dns, address, had, ipAddresses>>

DnsaNext ==
  \/ PoolStep \/ DnsChange \/ DnsResolve \/ DnsClear
  \/ Ended /\ UNCHANGED dnsVars

DnsaSpec == DnsaInit /\ [][DnsaNext]_dnsaVars

\* Calls that have begun go on, the resolver does not fail for ever, and the job
\* gets the mutex.
DnsaFairness ==
  /\ \A u \in Users : SF_dnsaVars(InDnsaPool(CallStep(u)))
  /\ WF_dnsaVars(DnsResolve)
  /\ SF_dnsaVars(DnsClear)

DnsaFairSpec == DnsaSpec /\ DnsaFairness

DnsTypeOK ==
  /\ dns \in Addresses
  /\ address \in [Resources -> Addresses \cup {NoAddress}]
  /\ had \in [Callers -> SUBSET Addresses]
  /\ dnsPc \in {"idle", "changed"}
  /\ ipAddresses \in Addresses \cup {NoAddress}
  /\ lastIpAddresses \in Addresses \cup {NoAddress}
  /\ returned \in BOOLEAN
  /\ during \subseteq Callers
  /\ outside \subseteq Resources

DnsaTypeOK == TypeOK /\ DnsTypeOK

-----------------------------------------------------------------------------

\* The address the job acted on last is the hostname's present one.
Followed == dnsPc = "idle" /\ lastIpAddresses = dns

StaleInPool ==
  {r \in Resources : InPool(r) /\ address[r] # dns}

\* Once the job has followed a change, no connection to another address is left
\* in the pool, with two exceptions: one that was on its way into the pool during
\* the clear, and those made while the hostname was away from the address the job
\* knows and came back between two polls, which the comparison by value
\* (dnsa_connection_pool.hpp:146) cannot notice.
StaleOnlyIfOutside == Followed /\ ~returned => StaleInPool \subseteq outside

\* Once the hostname stays, the job follows it for good, whatever it has missed.
DnsFollowed == <>[][UNCHANGED dns]_dnsaVars => <>[](~Running \/ Followed)
=============================================================================
