----------------------------- MODULE Transaction -----------------------------
(***************************************************************************)
(* transaction.hpp: the constructors start a transaction, the destructor   *)
(* commits it, or rolls it back when an exception passes.                  *)
(*                                                                         *)
(* The server has at most one transaction open on the connection, and      *)
(* starting another one commits it.                                        *)
(***************************************************************************)
EXTENDS Query

CONSTANTS
  MaxTransactions,  \* bound: transactions of one history
  ServerRefuses     \* whether the server may refuse COMMIT and ROLLBACK

ASSUME TransactionAssumption ==
  MaxTransactions \in Nat /\ ServerRefuses \in BOOLEAN

Transactions == 1 .. MaxTransactions

VARIABLES
  started,    \* transactions started so far; they are numbered
  open,       \* external: the server's open transaction, 0 if none
  committed,  \* external: the transactions committed
  ended,      \* history: those whose scope ended in order
  aborted     \* history: those whose scope was left by an exception

transactionVars == <<started, open, committed, ended, aborted>>
sessionVars == <<queryVars, transactionVars>>

TransactionTypeOK ==
  /\ QueryTypeOK
  /\ started \in 0 .. MaxTransactions
  /\ open \in 0 .. started
  /\ committed \subseteq 1 .. started
  /\ ended \subseteq 1 .. started
  /\ aborted \subseteq 1 .. started

SessionInit ==
  /\ QueryInit
  /\ started = 0 /\ open = 0
  /\ committed = {} /\ ended = {} /\ aborted = {}

\* The server's open transaction is committed.
CommitOpen == committed' = IF open = 0 THEN committed ELSE committed \cup {open}

\* The constructors: one statement, or two when there is an isolation level, whose
\* results are all read; START TRANSACTION commits what is open.  A user has one
\* Transaction of a connection at a time.
TransactionConstruct(isolationLevel) ==
  /\ Room /\ started < MaxTransactions
  /\ \A i \in DOMAIN scopes : scopes[i].kind # "transaction"
  /\ \E batch \in IF isolationLevel
                  THEN {<<"ok", "START">>, <<"ok", "error">>, <<"error", "START">>}
                  ELSE {<<"START">>, <<"error">>} :
       LET fails == OutOfSync \/ Contains(batch, "error")
       IN  /\ RaiseIf(fails)
           /\ UNCHANGED connectionVars
           /\ IF fails
              THEN UNCHANGED <<scopes, started, open, committed>>
              ELSE /\ Push([kind |-> "transaction", seen |-> flight, id |-> started + 1])
                   /\ started' = started + 1
                   /\ open' = started + 1
                   /\ CommitOpen
  /\ UNCHANGED <<ended, aborted>>

\* How the scope really ends, whatever the destructor makes of it.
LeaveScope ==
  IF mode = "unwinding" THEN aborted' = aborted \cup {Top.id} /\ UNCHANGED ended
  ELSE ended' = ended \cup {Top.id} /\ UNCHANGED aborted

Refusals == IF ServerRefuses THEN BOOLEAN ELSE {FALSE}

\* ~Transaction() when an exception passes: no exception of the rollback gets out.
Rollback ==
  /\ \E refusal \in Refusals :
       open' = IF OutOfSync \/ refusal THEN open ELSE 0
  /\ Calm
  /\ UNCHANGED committed

\* ~Transaction() otherwise.
Commit ==
  /\ \E refusal \in Refusals :
       LET fails == OutOfSync \/ refusal
       IN  /\ RaiseIf(fails)
           /\ IF fails THEN UNCHANGED <<open, committed>> ELSE open' = 0 /\ CommitOpen

TransactionDestroy ==
  /\ mode # "terminated" /\ scopes # <<>>
  /\ Top.kind = "transaction"
  /\ Pop
  /\ IF isNewUncaughtException(Top) THEN Rollback ELSE Commit
  /\ LeaveScope
  /\ UNCHANGED <<connectionVars, started>>

SessionNext ==
  \/ QueryStep /\ UNCHANGED transactionVars
  \/ \E isolationLevel \in BOOLEAN : TransactionConstruct(isolationLevel)
  \/ TransactionDestroy

SessionSpec == SessionInit /\ [][SessionNext]_sessionVars

-----------------------------------------------------------------------------

\* What README.md says of a transaction left by an exception: it is rolled back.
AbortedIsRolledBack == \A t \in aborted : open # t /\ t \notin committed

\* The work of the transactions is dealt with as TransactionContract says.
ScopeOf(t) ==
  IF t > started THEN "none" ELSE IF t \in ended THEN "ended"
  ELSE IF t \in aborted THEN "aborted" ELSE "inside"

FateOf(t) ==
  IF t > started THEN "none" ELSE IF open = t THEN "open"
  ELSE IF t \in committed THEN "committed" ELSE "undone"

Contract == INSTANCE TransactionContract WITH
  scope <- [t \in Transactions |-> ScopeOf(t)],
  fate <- [t \in Transactions |-> FateOf(t)]

ImplementsContract == Contract!ContractSpec
=============================================================================
