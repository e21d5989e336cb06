---------------------------- MODULE MCConnection ----------------------------
(* One connection, for TLC, which explores either the objects that share its   *)
(* driver and handles or the queries and transactions on it: they have no      *)
(* state in common.                                                            *)
EXTENDS DBDriver, Transaction, TLC

VARIABLE kind

MCInit == kind \in {"driver", "session"} /\ DBDriverInit /\ SessionInit

MCNext ==
  \/ kind = "driver" /\ DBDriverNext /\ UNCHANGED <<kind, sessionVars>>
  \/ kind = "session" /\ SessionNext /\ UNCHANGED <<kind, dbVars>>

MCSpec == MCInit /\ [][MCNext]_<<kind, sessionVars, dbVars>>

\* The types of everything that the objects on a connection keep.
ConnectionTypeOK == DBDriverTypeOK /\ TransactionTypeOK

MCSymmetry == Permutations(Drivers) \cup Permutations(StmtObjects)

\* A batch of each shape: one result or two, with or without rows, and errors in
\* the first or in a later place.
MCBatches ==
  {<<"rows">>, <<"ok">>, <<"rows", "ok">>, <<"ok", "error">>, <<"error">>}
=============================================================================
