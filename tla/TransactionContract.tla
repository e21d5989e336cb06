------------------------ MODULE TransactionContract ------------------------
(***************************************************************************)
(* What a Transaction promises about its work.  Its scope ends in order or *)
(* by an exception; the work is committed in the one case and undone in    *)
(* the other, or else is left with the server, undecided.  Only undecided  *)
(* work may be committed or undone later.                                  *)
(***************************************************************************)
CONSTANT Transactions

VARIABLES
  scope,  \* "none", "inside", "ended" (in order) or "aborted"
  fate    \* of the work: "none", "open", "committed", "undone"

contractVars == <<scope, fate>>

ContractInit ==
  /\ scope = [t \in Transactions |-> "none"]
  /\ fate = [t \in Transactions |-> "none"]

\* Work whose scope is left but which the server still has.
Undecided(t) == scope[t] \in {"ended", "aborted"} /\ fate[t] = "open"

\* Work left behind by earlier transactions may be decided by any statement.
OthersDecided(t) ==
  \A u \in Transactions \ {t} :
    fate'[u] # fate[u] => Undecided(u) /\ fate'[u] \in {"committed", "undone"}

Begin(t) ==
  /\ scope[t] = "none" /\ scope' = [scope EXCEPT ![t] = "inside"]
  /\ fate'[t] = "open"

End(t) ==
  /\ scope[t] = "inside" /\ scope' = [scope EXCEPT ![t] = "ended"]
  /\ fate'[t] \in {"committed", "open"}

Abort(t) ==
  /\ scope[t] = "inside" /\ scope' = [scope EXCEPT ![t] = "aborted"]
  /\ fate'[t] \in {"undone", "open"}

ContractNext ==
  /\ DOMAIN fate' = Transactions
  /\ \E t \in Transactions : (Begin(t) \/ End(t) \/ Abort(t)) /\ OthersDecided(t)

ContractSpec == ContractInit /\ [][ContractNext]_contractVars
=============================================================================
