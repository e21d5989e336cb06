-------------------------------- MODULE Query --------------------------------
(***************************************************************************)
(* query.hpp, query_result.hpp, uncaught_exception_counter.hpp and the     *)
(* part of low_level/dbdriver.hpp they use: one thread works with one      *)
(* connection.                                                             *)
(*                                                                         *)
(* The C library accepts a new query only after everything the last one    *)
(* sent was read, and the classes leave that to their users: to the code   *)
(* and, when an exception passes, to the destructors.  So the model keeps  *)
(* the thread's scopes: the objects it has built, innermost last, and the  *)
(* exceptions in flight.                                                   *)
(***************************************************************************)
EXTENDS Naturals, Sequences, SequencesExt

CONSTANTS
  Batches,   \* what a user's query sends: sequences of statements
  MaxScope   \* bound: objects alive at one time

\* "rows" has a result set, "ok" has none, "error" is refused by the server.  The
\* last three are the statements of Transaction.
Statements == {"rows", "ok", "error", "START", "COMMIT", "ROLLBACK"}

ASSUME QueryAssumption ==
  /\ Batches \subseteq Seq({"rows", "ok", "error"}) \ {<<>>}
  /\ MaxScope \in Nat

VARIABLES
  status,  \* external, MYSQL::status: "ready", "result" (not fetched yet) or "use"
  more,    \* external: the results after the current one, not read yet
  scopes,  \* the live objects, innermost last
  flight,  \* std::uncaught_exceptions()
  mode,    \* "running", "unwinding" or "terminated"
  thrown   \* history: whether there ever was an exception

connectionVars == <<status, more>>
threadVars == <<flight, mode, thrown>>
queryVars == <<connectionVars, scopes, threadVars>>

Modes == {"running", "unwinding", "terminated"}

\* The objects a thread can have built.
Objects ==
  [kind : {"query"}, seen : Nat, executed : BOOLEAN]
    \cup [kind : {"result"}, stored : BOOLEAN, done : BOOLEAN]
    \cup [kind : {"guard"}] \cup [kind : {"body"}, resume : Modes]
    \cup [kind : {"transaction"}, seen : Nat, id : Nat]

QueryTypeOK ==
  /\ status \in {"ready", "result", "use"}
  /\ more \in Seq(Statements)
  /\ scopes \in Seq(Objects) /\ Len(scopes) <= MaxScope
  /\ flight \in 0 .. MaxScope + 1
  /\ mode \in Modes
  /\ thrown \in BOOLEAN

QueryInit ==
  /\ status = "ready" /\ more = <<>>
  /\ scopes = <<>>
  /\ flight = 0 /\ mode = "running" /\ thrown = FALSE

-----------------------------------------------------------------------------
(* The C library.                                                           *)

\* mysql_real_query: "commands out of sync".
OutOfSync == status # "ready" \/ more # <<>>

\* The results of a batch: the server stops at the first error.
Results(batch) ==
  LET errors == {i \in DOMAIN batch : batch[i] = "error"}
  IN  IF errors = {} THEN batch
      ELSE SubSeq(batch, 1, CHOOSE i \in errors : \A j \in errors : i <= j)

RealQueryFails(batch) == OutOfSync \/ Head(batch) = "error"

StatusAfter(result) == IF result = "rows" THEN "result" ELSE "ready"

RealQuery(batch) ==
  IF OutOfSync THEN UNCHANGED connectionVars
  ELSE status' = StatusAfter(Head(batch)) /\ more' = Tail(Results(batch))

-----------------------------------------------------------------------------
(* The thread.                                                              *)

Top == Last(scopes)
Pop == scopes' = Front(scopes)
Push(object) == scopes' = Append(scopes, object)

Room == mode = "running" /\ Len(scopes) < MaxScope

\* An exception leaves a function, or a destructor: a second one during unwinding
\* calls std::terminate.
Raise ==
  /\ thrown' = TRUE
  /\ IF mode = "unwinding" THEN mode' = "terminated" /\ UNCHANGED flight
     ELSE mode' = "unwinding" /\ flight' = flight + 1

Calm == UNCHANGED threadVars

RaiseIf(fails) == IF fails THEN Raise ELSE Calm

-----------------------------------------------------------------------------
(* The driver: hasMoreResults(), nextResult(), storeResult(), useResult().  *)

hasMoreResults == more # <<>>

\* A result that was not fetched is an error; so is an error of the server.
\* `orFail': the caller throws when there is no other result.
DriverNextResult(orFail) ==
  IF status # "ready" THEN Raise /\ UNCHANGED connectionVars
  ELSE IF ~hasMoreResults THEN RaiseIf(orFail) /\ UNCHANGED connectionVars
  ELSE /\ RaiseIf(Head(more) = "error")
       /\ status' = StatusAfter(Head(more))
       /\ more' = Tail(more)

NoResultToTake == status # "result"

DriverTake(stored) ==
  /\ status' = IF stored THEN "ready" ELSE "use"
  /\ UNCHANGED more

-----------------------------------------------------------------------------
(* Exceptions and the user's own objects.                                   *)

\* Fault: any exception in flight counts, as with std::uncaught_exception().
AnyUncaughtException(object) == flight > 0

\* UncaughtExceptionCounter: more are in flight than when the object was built.
isNewUncaughtException(object) == flight > object.seen

\* The user's code throws.
UserThrows ==
  /\ mode = "running" /\ scopes # <<>>
  /\ Raise
  /\ UNCHANGED <<connectionVars, scopes>>

\* A user's object whose destructor works with the connection too, and lets no
\* exception out.
MakeGuard ==
  /\ Room
  /\ Push([kind |-> "guard"])
  /\ UNCHANGED <<connectionVars, threadVars>>

\* The scope of the guard's destructor opens, also during unwinding.
DestroyGuard ==
  /\ Top.kind = "guard"
  /\ scopes' = [scopes EXCEPT ![Len(scopes)] = [kind |-> "body", resume |-> mode]]
  /\ mode' = "running"
  /\ UNCHANGED <<connectionVars, flight, thrown>>

\* It closes: what reached it is caught, and what was in flight before goes on.
LeaveBody ==
  /\ Top.kind = "body"
  /\ Pop
  /\ mode' = Top.resume
  /\ flight' = IF mode = "unwinding" THEN flight - 1 ELSE flight
  /\ UNCHANGED <<connectionVars, thrown>>

\* The outermost handler of the program.
Catch ==
  /\ mode = "unwinding" /\ scopes = <<>>
  /\ mode' = "running" /\ flight' = 0
  /\ UNCHANGED <<connectionVars, scopes, thrown>>

-----------------------------------------------------------------------------
(* Query                                                                    *)

IsQuery(i) == scopes[i].kind = "query"

NewQuery(executed) == [kind |-> "query", seen |-> flight, executed |-> executed]

MakeQuery ==
  /\ Room
  /\ Push(NewQuery(FALSE))
  /\ UNCHANGED <<connectionVars, threadVars>>

\* Fault: the new object does not learn that there are results to read.
MoveForgets(i) ==
  /\ Room /\ IsQuery(i)
  /\ scopes' = Append([scopes EXCEPT ![i].executed = FALSE], NewQuery(FALSE))
  /\ UNCHANGED <<connectionVars, threadVars>>

\* Query(Query&&): the counter moves along, and only the new object checks.
MoveQuery(i) ==
  /\ Room /\ IsQuery(i)
  /\ scopes' = Append([scopes EXCEPT ![i].executed = FALSE], scopes[i])
  /\ UNCHANGED <<connectionVars, threadVars>>

QueryExecute(i, batch) ==
  /\ mode = "running" /\ IsQuery(i)
  /\ RealQuery(batch)
  /\ RaiseIf(RealQueryFails(batch))
  /\ scopes' = IF RealQueryFails(batch) THEN scopes
               ELSE [scopes EXCEPT ![i].executed = TRUE]

\* nextResult() and nextResultOrFail()
NextResult(i, orFail) ==
  /\ mode = "running" /\ IsQuery(i)
  /\ UNCHANGED scopes
  /\ IF scopes[i].executed THEN DriverNextResult(orFail)
     ELSE Raise /\ UNCHANGED connectionVars

\* store() and use(): without a result to fetch they throw.
TakeResult(i, stored) ==
  /\ Room /\ IsQuery(i)
  /\ IF ~scopes[i].executed \/ NoResultToTake
     THEN Raise /\ UNCHANGED <<connectionVars, scopes>>
     ELSE /\ Calm
          /\ Push([kind |-> "result", stored |-> stored, done |-> stored])
          /\ DriverTake(stored)

\* fetchRow() of a UseQueryResult, at the end of the rows or with an error.
FetchLast(i, fails) ==
  /\ mode = "running"
  /\ scopes[i].kind = "result" /\ ~scopes[i].done
  /\ scopes' = [scopes EXCEPT ![i].done = TRUE]
  /\ status' = "ready"
  /\ RaiseIf(fails)
  /\ UNCHANGED more

\* ~Result(): the rows that were not fetched are skipped.
DestroyResult ==
  /\ Top.kind = "result"
  /\ Pop
  /\ status' = IF Top.done THEN status ELSE "ready"
  /\ Calm
  /\ UNCHANGED more

\* Fault: the destructor always checks.
AlwaysChecks == Top.executed /\ hasMoreResults

\* The check for results that were not read, when no exception passes.
UnreadResults == ~isNewUncaughtException(Top) /\ Top.executed /\ hasMoreResults

\* ~Query() throws on unread results.
DestroyQuery ==
  /\ Top.kind = "query"
  /\ Pop
  /\ RaiseIf(UnreadResults)
  /\ UNCHANGED connectionVars

\* The end of the innermost scope, in order or by an exception.
EndScope ==
  /\ mode # "terminated" /\ scopes # <<>>
  /\ DestroyQuery \/ DestroyResult \/ DestroyGuard \/ LeaveBody

QueryStep ==
  \/ UserThrows \/ MakeGuard \/ MakeQuery \/ EndScope \/ Catch
  \/ \E i \in DOMAIN scopes :
       \/ MoveQuery(i)
       \/ \E batch \in Batches : QueryExecute(i, batch)
       \/ \E choice \in BOOLEAN :
            NextResult(i, choice) \/ TakeResult(i, choice) \/ FetchLast(i, choice)

-----------------------------------------------------------------------------

\* No destructor throws while an exception unwinds the stack past it.
NeverTerminates == mode # "terminated"

\* What a query leaves unread behind the code that asked for it.  A result that was
\* taken is read to its end, also by an exception that passes; and without an
\* exception no result is left but the current one, which nobody took: the destructor
\* asks for others only (query.hpp:81), although "C API requires to read all result
\* sets" (query.hpp:80).
OnlyLastForgotten ==
  scopes = <<>> => status # "use" /\ (~thrown => more = <<>>)
=============================================================================
