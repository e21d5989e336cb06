-------------------------- MODULE TransactionProofs --------------------------
(***************************************************************************)
(* Proofs about Transaction, for any queries and any number of scopes and  *)
(* transactions.                                                           *)
(***************************************************************************)
EXTENDS Transaction, SequenceTheorems, WellFoundedInduction, TLAPS

IsTransaction(object) == object.kind = "transaction"

\* The forms of the thread's objects.  (That the count of exceptions is no less than 0
\* follows later, from the nesting of scopes.)
Forms ==
  [kind : {"query"}, seen : Int, executed : BOOLEAN]
    \cup [kind : {"result"}, stored : BOOLEAN, done : BOOLEAN]
    \cup [kind : {"guard"}] \cup [kind : {"body"}, resume : {"running", "unwinding"}]
    \cup [kind : {"transaction"}, seen : Int, id : Nat]

\* A step on the thread's other objects leaves its transactions where they are.
TransactionsStay ==
  /\ scopes' \in Seq(Forms)
  /\ \A i \in DOMAIN scopes' :
       IsTransaction(scopes'[i]) => i \in DOMAIN scopes /\ scopes[i] = scopes'[i]
  /\ \A i \in DOMAIN scopes :
       IsTransaction(scopes[i]) => i \in DOMAIN scopes' /\ scopes'[i] = scopes[i]

\* An object is built.
LEMMA PushStays ==
  ASSUME scopes \in Seq(Forms), NEW object \in Forms, ~IsTransaction(object),
         scopes' = Append(scopes, object)
  PROVE  TransactionsStay
  BY DEF TransactionsStay

\* The innermost object goes.
LEMMA PopStays ==
  ASSUME scopes \in Seq(Forms), scopes # <<>>, ~IsTransaction(Top), Pop
  PROVE  TransactionsStay
  <1>1. Len(scopes) \in Nat \ {0} /\ DOMAIN scopes = 1 .. Len(scopes)
    OBVIOUS
  <1>2. scopes' = SubSeq(scopes, 1, Len(scopes) - 1)
    BY DEF Pop, Front
  <1>3. scopes' \in Seq(Forms) /\ DOMAIN scopes' = 1 .. Len(scopes) - 1
    BY <1>1, <1>2
  <1>4. \A i \in DOMAIN scopes' : scopes'[i] = scopes[i]
    BY <1>1, <1>2, <1>3
  <1>5. ~IsTransaction(scopes[Len(scopes)])
    BY DEF Top, Last
  <1> QED BY <1>1, <1>3, <1>4, <1>5 DEF TransactionsStay

\* An object changes.
LEMMA ChangeStays ==
  ASSUME scopes \in Seq(Forms), NEW i \in DOMAIN scopes, NEW object \in Forms,
         ~IsTransaction(scopes[i]), ~IsTransaction(object),
         scopes' = [scopes EXCEPT ![i] = object]
  PROVE  TransactionsStay
  BY DEF TransactionsStay

LEMMA SameStays ==
  ASSUME scopes \in Seq(Forms), UNCHANGED scopes
  PROVE  TransactionsStay
  BY DEF TransactionsStay

\* The type of the thread's state that its steps need.
ThreadTyped == scopes \in Seq(Forms) /\ flight \in Int /\ mode \in Modes

\* An object of a kind is of the form of that kind.
LEMMA ObjectForms ==
  ASSUME NEW object \in Forms
  PROVE  /\ object.kind = "query" => object \in [kind : {"query"}, seen : Int, executed : BOOLEAN]
         /\ object.kind = "result" => object \in [kind : {"result"}, stored : BOOLEAN, done : BOOLEAN]
         /\ object.kind = "body" => object \in [kind : {"body"}, resume : {"running", "unwinding"}]
         /\ object.kind = "transaction" => object \in [kind : {"transaction"}, seen : Int, id : Nat]
  BY DEF Forms

\* An exception counts one more, or one less.
LEMMA RaiseType ==
  ASSUME ThreadTyped, Raise \/ Calm
  PROVE  flight' \in Int /\ mode' \in Modes
  BY DEF ThreadTyped, Raise, Calm, threadVars, Modes

\* A changed query is a query.
LEMMA ExecutedType ==
  ASSUME ThreadTyped, NEW i \in DOMAIN scopes, IsQuery(i), NEW b \in BOOLEAN
  PROVE  [scopes[i] EXCEPT !.executed = b] \in Forms
         /\ ~IsTransaction([scopes[i] EXCEPT !.executed = b])
  <1>1. scopes[i] \in [kind : {"query"}, seen : Int, executed : BOOLEAN]
    BY ObjectForms DEF ThreadTyped, IsQuery
  <1>2. [scopes[i] EXCEPT !.executed = b] \in [kind : {"query"}, seen : Int, executed : BOOLEAN]
    BY <1>1
  <1> QED BY <1>2 DEF Forms, IsTransaction

LEMMA QueryStepStays ==
  ASSUME ThreadTyped, QueryStep
  PROVE  TransactionsStay
  <1>t. scopes \in Seq(Forms)
    BY DEF ThreadTyped
  <1>1. CASE UserThrows \/ Catch
    BY <1>t, <1>1, SameStays DEF UserThrows, Catch
  <1>2. CASE MakeGuard \/ MakeQuery
    <2>1. [kind |-> "guard"] \in Forms /\ ~IsTransaction([kind |-> "guard"])
      BY DEF Forms, IsTransaction
    <2>2. NewQuery(FALSE) \in Forms /\ ~IsTransaction(NewQuery(FALSE))
      BY DEF ThreadTyped, NewQuery, Forms, IsTransaction
    <2> QED BY <1>t, <1>2, <2>1, <2>2, PushStays DEF MakeGuard, MakeQuery, Push
  <1>3. CASE EndScope
    <2>1. scopes # <<>>
      BY <1>3 DEF EndScope
    <2>2. CASE DestroyQuery \/ DestroyResult \/ LeaveBody
      BY <1>t, <2>1, <2>2, PopStays DEF DestroyQuery, DestroyResult, LeaveBody, IsTransaction
    <2>3. CASE DestroyGuard
      <3>1. Len(scopes) \in DOMAIN scopes
        BY <1>t, <2>1
      <3>2. [kind |-> "body", resume |-> mode] \in Forms
        BY <1>3 DEF ThreadTyped, Forms, EndScope, Modes
      <3> DEFINE body == [kind |-> "body", resume |-> mode]
      <3>3. ~IsTransaction(body) /\ ~IsTransaction(scopes[Len(scopes)])
        BY <2>3 DEF DestroyGuard, Top, Last, IsTransaction
      <3>4. scopes' = [scopes EXCEPT ![Len(scopes)] = body]
        BY <2>3 DEF DestroyGuard
      <3> HIDE DEF body
      <3>5. body \in Forms
        BY <3>2 DEF body
      <3> QED BY <1>t, <3>1, <3>3, <3>4, <3>5, ChangeStays
    <2> QED BY <1>3, <2>2, <2>3 DEF EndScope
  <1>4. ASSUME NEW i \in DOMAIN scopes, MoveQuery(i) PROVE TransactionsStay
    <2> DEFINE emptied == [scopes[i] EXCEPT !.executed = FALSE]
    <2>1. scopes' = Append([scopes EXCEPT ![i] = emptied], scopes[i])
      BY <1>t, <1>4 DEF MoveQuery
    <2>2. emptied \in Forms /\ ~IsTransaction(emptied) /\ ~IsTransaction(scopes[i])
      BY <1>4, ExecutedType DEF MoveQuery, IsQuery, IsTransaction
    <2> HIDE DEF emptied
    <2>3. scopes[i] \in Forms
      BY <1>t
    <2> QED BY <1>t, <2>1, <2>2, <2>3 DEF TransactionsStay
  <1>5. ASSUME NEW i \in DOMAIN scopes, NEW batch \in Batches, QueryExecute(i, batch)
        PROVE  TransactionsStay
    <2> DEFINE executed == [scopes[i] EXCEPT !.executed = TRUE]
    <2>1. scopes' = scopes \/ scopes' = [scopes EXCEPT ![i] = executed]
      BY <1>t, <1>5 DEF QueryExecute
    <2>2. executed \in Forms /\ ~IsTransaction(executed) /\ ~IsTransaction(scopes[i])
      BY <1>5, ExecutedType DEF QueryExecute, IsQuery, IsTransaction
    <2> HIDE DEF executed
    <2> QED BY <1>t, <2>1, <2>2, ChangeStays, SameStays
  <1>6. ASSUME NEW i \in DOMAIN scopes, NEW choice \in BOOLEAN, NextResult(i, choice)
        PROVE  TransactionsStay
    BY <1>t, <1>6, SameStays DEF NextResult
  <1>7. ASSUME NEW i \in DOMAIN scopes, NEW choice \in BOOLEAN, TakeResult(i, choice)
        PROVE  TransactionsStay
    <2> DEFINE result == [kind |-> "result", stored |-> choice, done |-> choice]
    <2>1. result \in Forms /\ ~IsTransaction(result)
      BY DEF Forms, IsTransaction
    <2>2. scopes' = scopes \/ scopes' = Append(scopes, result)
      BY <1>7 DEF TakeResult, Push
    <2> HIDE DEF result
    <2> QED BY <1>t, <2>1, <2>2, PushStays, SameStays
  <1>8. ASSUME NEW i \in DOMAIN scopes, NEW choice \in BOOLEAN, FetchLast(i, choice)
        PROVE  TransactionsStay
    <2> DEFINE done == [scopes[i] EXCEPT !.done = TRUE]
    <2>1. scopes[i] \in [kind : {"result"}, stored : BOOLEAN, done : BOOLEAN]
      BY <1>t, <1>8, ObjectForms DEF FetchLast
    <2>2. done \in [kind : {"result"}, stored : BOOLEAN, done : BOOLEAN]
      BY <2>1
    <2>3. done \in Forms /\ ~IsTransaction(done) /\ ~IsTransaction(scopes[i])
      BY <2>1, <2>2 DEF Forms, IsTransaction
    <2>4. scopes' = [scopes EXCEPT ![i] = done]
      BY <1>t, <1>8 DEF FetchLast
    <2> HIDE DEF done
    <2> QED BY <1>t, <2>3, <2>4, ChangeStays
  <1> QED
    BY <1>1, <1>2, <1>3, <1>4, <1>5, <1>6, <1>7, <1>8 DEF QueryStep

LEMMA QueryStepThread ==
  ASSUME ThreadTyped, QueryStep
  PROVE  ThreadTyped'
  <1>1. scopes' \in Seq(Forms)
    BY QueryStepStays DEF TransactionsStay
  <1>2. CASE Raise \/ Calm
    BY <1>1, <1>2, RaiseType DEF ThreadTyped
  <1>3. CASE Catch
    BY <1>1, <1>3 DEF Catch, ThreadTyped, Modes
  <1>4. CASE EndScope /\ DestroyGuard
    BY <1>1, <1>4 DEF DestroyGuard, ThreadTyped, Modes
  <1>5. CASE EndScope /\ LeaveBody
    <2>1. Top \in Forms
      BY <1>5 DEF EndScope, ThreadTyped, Top, Last
    <2>2. Top.resume \in Modes
      BY <1>5, <2>1, ObjectForms DEF LeaveBody, Modes
    <2> QED BY <1>1, <1>5, <2>2 DEF LeaveBody, ThreadTyped
  <1>6. QueryStep => Raise \/ Calm \/ Catch \/ (EndScope /\ (DestroyGuard \/ LeaveBody))
    BY DEF QueryStep, UserThrows, MakeGuard, MakeQuery, EndScope, DestroyQuery, DestroyResult,
           MoveQuery, QueryExecute, NextResult, DriverNextResult, TakeResult, FetchLast,
           RaiseIf, Calm, threadVars
  <1> QED BY <1>2, <1>3, <1>4, <1>5, <1>6

-----------------------------------------------------------------------------
(* Exceptions in flight.  A scope within the destructor of a guard may be   *)
(* left in order while an exception waits for the destructor to end.        *)

\* An exception waits for the object to end.
Waiting(object) == IF object.kind = "body" /\ object.resume = "unwinding" THEN 1 ELSE 0

\* What an object remembers of the exceptions that wait around it: a transaction how
\* many did when it was built, and a query, which may come from further out, no more.
Remembers(object, waiting) ==
  /\ IsTransaction(object) => object.seen = waiting
  /\ object.kind = "query" => object.seen \in 0 .. waiting

\* level[i] exceptions wait for the outermost i objects to end: i at most, and no fewer
\* than wait for an enclosing object.
Levels(level, objects) ==
  /\ level \in [0 .. Len(objects) -> Int]
  /\ level[0] = 0
  /\ \A i \in 0 .. Len(objects) : level[i] <= i /\ \A j \in 0 .. i : level[j] <= level[i]
  /\ \A i \in 1 .. Len(objects) :
       /\ level[i] = level[i - 1] + Waiting(objects[i])
       /\ Remembers(objects[i], level[i - 1])

\* So it is a number of exceptions.
LEMMA LevelIsNat ==
  ASSUME NEW s \in Seq(Forms), NEW level, Levels(level, s), NEW i \in 0 .. Len(s)
  PROVE  level[i] \in Nat /\ level[i] <= i
  <1>1. 0 \in 0 .. i /\ level[i] \in Int
    BY DEF Levels
  <1> QED BY <1>1 DEF Levels

\* No fewer wait than for an enclosing object.
LEMMA LevelGrows ==
  ASSUME NEW s \in Seq(Forms), NEW level, Levels(level, s),
         NEW i \in 0 .. Len(s), NEW j \in 0 .. i
  PROVE  level[j] \in Nat /\ level[j] <= level[i]
  <1>1. j \in 0 .. Len(s)
    BY LenProperties
  <1>2. level[j] \in Nat
    BY <1>1, LevelIsNat
  <1> QED BY <1>2 DEF Levels

\* All the exceptions in flight wait but the one that unwinds the stack.
InFlight(waiting) == flight = waiting + (IF mode = "unwinding" THEN 1 ELSE 0)

Nested ==
  mode # "terminated" => \E level : Levels(level, scopes) /\ InFlight(level[Len(scopes)])

LEMMA RaisedInFlight ==
  ASSUME ThreadTyped, NEW n \in Int, InFlight(n), mode \in {"running", "unwinding"},
         mode' # "terminated", Raise \/ Calm
  PROVE  InFlight(n)'
  BY DEF ThreadTyped, InFlight, Raise, Calm, threadVars

\* An object is built.
LEMMA PushLevels ==
  ASSUME NEW s \in Seq(Forms), NEW level, Levels(level, s), NEW object \in Forms,
         Remembers(object, level[Len(s)])
  PROVE  \E higher : /\ Levels(higher, Append(s, object))
                     /\ higher[Len(Append(s, object))] = level[Len(s)] + Waiting(object)
  <1> DEFINE n == Len(s)
             longer == Append(s, object)
             m == level[n] + Waiting(object)
             higher == [i \in 0 .. n + 1 |-> IF i <= n THEN level[i] ELSE m]
  <1>1. /\ n \in Nat /\ Len(longer) = n + 1 /\ longer[n + 1] = object
        /\ \A i \in 1 .. n : longer[i] = s[i]
    OBVIOUS
  <1>2. level \in [0 .. n -> Int] /\ level[0] = 0 /\ level[n] \in Int
    BY <1>1 DEF Levels
  <1>3. m \in Int /\ level[n] <= m /\ m <= level[n] + 1
    BY <1>2 DEF Waiting
  <1> HIDE DEF m
  <1>4. /\ higher \in [0 .. n + 1 -> Int] /\ higher[0] = 0 /\ higher[n + 1] = m
        /\ \A i \in 0 .. n : higher[i] = level[i]
    BY <1>1, <1>2, <1>3
  <1> HIDE DEF higher, longer
  <1>5. ASSUME NEW i \in 1 .. n + 1
        PROVE  /\ higher[i] = higher[i - 1] + Waiting(longer[i])
               /\ Remembers(longer[i], higher[i - 1])
    <2>1. CASE i = n + 1
      BY <1>1, <1>2, <1>4, <2>1 DEF m
    <2>2. CASE i # n + 1
      <3>1. i \in 1 .. n /\ i - 1 \in 0 .. n /\ i \in 0 .. n
        BY <1>1, <2>2
      <3>2. higher[i] = level[i] /\ higher[i - 1] = level[i - 1] /\ longer[i] = s[i]
        BY <1>1, <1>4, <3>1
      <3> QED BY <3>1, <3>2 DEF Levels
    <2> QED BY <2>1, <2>2
  <1>6. ASSUME NEW i \in 0 .. n + 1, NEW j \in 0 .. i
        PROVE  higher[i] <= i /\ higher[j] <= higher[i]
    <2>1. CASE i # n + 1
      <3>1. i \in 0 .. n /\ j \in 0 .. n
        BY <1>1, <2>1
      <3> QED BY <1>4, <3>1 DEF Levels
    <2>2. CASE i = n + 1
      <3>1. level[n] <= n /\ \A k \in 0 .. n : level[k] <= level[n] /\ level[k] \in Int
        <4>1. n \in 0 .. n
          BY <1>1
        <4> QED BY <4>1, LevelIsNat, LevelGrows
      <3>2. CASE j = n + 1
        BY <1>1, <1>2, <1>3, <1>4, <2>2, <3>1, <3>2
      <3>3. CASE j # n + 1
        <4>1. j \in 0 .. n
          BY <1>1, <2>2, <3>3
        <4> QED BY <1>1, <1>2, <1>3, <1>4, <2>2, <3>1, <4>1
      <3> QED BY <3>2, <3>3
    <2> QED BY <2>1, <2>2
  <1>7. Levels(higher, longer)
    BY <1>1, <1>4, <1>5, <1>6 DEF Levels
  <1> QED BY <1>1, <1>4, <1>7 DEF longer, m

\* An object changes, which nothing waits for; it remembers what it did.
LEMMA ChangeLevels ==
  ASSUME NEW s \in Seq(Forms), NEW level, Levels(level, s),
         NEW i \in DOMAIN s, NEW object \in Forms,
         s[i].kind # "body", object.kind # "body", ~IsTransaction(object),
         object.kind = "query" => s[i].kind = "query" /\ object.seen = s[i].seen
  PROVE  Levels(level, [s EXCEPT ![i] = object]) /\ Len([s EXCEPT ![i] = object]) = Len(s)
  <1> DEFINE changed == [s EXCEPT ![i] = object]
  <1>1. Len(changed) = Len(s) /\ changed[i] = object
    OBVIOUS
  <1>2. \A j \in 1 .. Len(s) : j # i => changed[j] = s[j]
    OBVIOUS
  <1> HIDE DEF changed
  <1>3. \A j \in 1 .. Len(s) : Waiting(changed[j]) = Waiting(s[j])
    BY <1>1, <1>2 DEF Waiting
  <1>4. \A j \in 1 .. Len(s) : \A w : Remembers(s[j], w) => Remembers(changed[j], w)
    BY <1>1, <1>2 DEF Remembers
  <1>5. Levels(level, changed)
    BY <1>1, <1>3, <1>4 DEF Levels
  <1> QED BY <1>1, <1>5 DEF changed

\* The innermost object goes.
LEMMA PopLevels ==
  ASSUME NEW s \in Seq(Forms), s # <<>>, NEW level, Levels(level, s)
  PROVE  \E lower : /\ Levels(lower, Front(s))
                    /\ lower[Len(Front(s))] \in Int
                    /\ level[Len(s)] = lower[Len(Front(s))] + Waiting(Last(s))
  <1> DEFINE n == Len(s)
             shorter == Front(s)
             lower == [i \in 0 .. n - 1 |-> level[i]]
  <1>1. n \in Nat \ {0}
    OBVIOUS
  <1>2. shorter = SubSeq(s, 1, n - 1) /\ Last(s) = s[n]
    BY DEF Front, Last
  <1> HIDE DEF shorter
  <1>3. Len(shorter) = n - 1 /\ \A i \in 1 .. n - 1 : shorter[i] = s[i]
    <2>1. shorter \in Seq(Forms) /\ DOMAIN shorter = 1 .. n - 1
      BY <1>1, <1>2
    <2>2. \A i \in 1 .. n - 1 : shorter[i] = s[i]
      BY <1>1, <1>2, <2>1
    <2>3. Len(shorter) = n - 1
      BY <1>1, <2>1
    <2> QED BY <2>2, <2>3
  <1>4. level \in [0 .. n -> Int] /\ level[0] = 0
    BY DEF Levels
  <1>5. /\ lower \in [0 .. n - 1 -> Int] /\ lower[0] = 0
        /\ \A i \in 0 .. n - 1 : lower[i] = level[i]
    BY <1>1, <1>4
  <1> HIDE DEF lower
  <1>6. \A i \in 1 .. n - 1 : i - 1 \in 0 .. n - 1 /\ i \in 0 .. n - 1 /\ i \in 1 .. n
    BY <1>1
  <1>7. Levels(lower, shorter)
    <2>1. \A i \in 1 .. n - 1 : /\ level[i] = level[i - 1] + Waiting(s[i])
                              /\ Remembers(s[i], level[i - 1])
      BY <1>6 DEF Levels
    <2>2. ASSUME NEW i \in 0 .. n - 1, NEW j \in 0 .. i
          PROVE  lower[i] <= i /\ lower[j] <= lower[i]
      <3>1. i \in 0 .. n /\ j \in 0 .. n - 1
        BY <1>1
      <3> QED BY <1>5, <3>1 DEF Levels
    <2> QED BY <1>3, <1>5, <1>6, <2>1, <2>2 DEF Levels
  <1>8. level[n] = level[n - 1] + Waiting(s[n]) /\ n - 1 \in 0 .. n - 1
    BY <1>1 DEF Levels
  <1>9. lower[Len(shorter)] = level[n - 1] /\ lower[Len(shorter)] \in Int
    BY <1>3, <1>5, <1>8
  <1> QED BY <1>2, <1>7, <1>8, <1>9 DEF shorter

\* The exceptions in flight are those that wait, whatever a step does.
LEMMA QueryStepNested ==
  ASSUME ThreadTyped, Nested, QueryStep
  PROVE  Nested'
  <1> SUFFICES ASSUME mode' # "terminated"
               PROVE  \E level : Levels(level, scopes') /\ InFlight(level[Len(scopes)])'
    BY DEF Nested
  <1>t. scopes \in Seq(Forms) /\ flight \in Int /\ Len(scopes) \in Nat
    BY DEF ThreadTyped
  <1>m. mode \in {"running", "unwinding"}
    BY DEF ThreadTyped, Modes, QueryStep, UserThrows, MakeGuard, MakeQuery, EndScope, Catch,
           MoveQuery, QueryExecute, NextResult, TakeResult, FetchLast, Room
  <1>0. PICK level : Levels(level, scopes) /\ InFlight(level[Len(scopes)])
    BY <1>m DEF Nested
  <1>i. level[Len(scopes)] \in Nat
    BY <1>t, <1>0, LevelIsNat
  \* The forms of a step.
  <1>1. ASSUME UNCHANGED scopes, Raise \/ Calm
        PROVE  \E l : Levels(l, scopes') /\ InFlight(l[Len(scopes)])'
    <2>1. InFlight(level[Len(scopes)])'
      BY <1>0, <1>1, <1>i, <1>m, RaisedInFlight
    <2> QED BY <1>0, <1>1, <2>1
  <1>2. ASSUME NEW object \in Forms, Remembers(object, level[Len(scopes)]),
               object.kind # "body", scopes' = Append(scopes, object), Calm
        PROVE  \E l : Levels(l, scopes') /\ InFlight(l[Len(scopes)])'
    <2>1. PICK higher : /\ Levels(higher, scopes')
                        /\ higher[Len(scopes')] = level[Len(scopes)] + Waiting(object)
      BY <1>0, <1>2, <1>t, PushLevels
    <2>2. higher[Len(scopes')] = level[Len(scopes)]
      BY <1>2, <1>i, <2>1 DEF Waiting
    <2> QED BY <1>0, <1>2, <2>1, <2>2 DEF InFlight, Calm, threadVars
  <1>3. ASSUME NEW i \in DOMAIN scopes, NEW object \in Forms, ~IsTransaction(object),
               scopes[i].kind # "body", object.kind # "body",
               object.kind = "query" => scopes[i].kind = "query" /\ object.seen = scopes[i].seen,
               scopes' = [scopes EXCEPT ![i] = object], Raise \/ Calm
        PROVE  \E l : Levels(l, scopes') /\ InFlight(l[Len(scopes)])'
    <2>1. Levels(level, scopes') /\ Len(scopes') = Len(scopes)
      BY <1>0, <1>3, <1>t, ChangeLevels
    <2>2. InFlight(level[Len(scopes)])'
      <3>1. PICK n \in Int : n = level[Len(scopes)]
        BY <1>i
      <3>2. InFlight(n)'
        BY <1>0, <1>3, <1>m, <3>1, RaisedInFlight
      <3> QED BY <2>1, <3>1, <3>2 DEF InFlight
    <2> QED BY <2>1, <2>2
  <1>4. ASSUME scopes # <<>>, Pop, Top.kind # "body", Raise \/ Calm
        PROVE  \E l : Levels(l, scopes') /\ InFlight(l[Len(scopes)])'
    <2>1. PICK lower : /\ Levels(lower, scopes')
                       /\ lower[Len(scopes')] \in Int
                       /\ level[Len(scopes)] = lower[Len(scopes')] + Waiting(Top)
      BY <1>0, <1>4, <1>t, PopLevels DEF Pop, Top
    <2>2. PICK n \in Int : n = lower[Len(scopes')]
      BY <2>1
    <2>3. InFlight(n)
      BY <1>0, <1>4, <2>1, <2>2 DEF Waiting, InFlight
    <2>4. InFlight(n)'
      BY <1>4, <1>m, <2>3, RaisedInFlight
    <2> QED BY <2>1, <2>2, <2>4 DEF InFlight
  \* The destructor of a guard starts, and an exception waits for it; it ends.
  <1>5. ASSUME scopes # <<>>, DestroyGuard
        PROVE  \E l : Levels(l, scopes') /\ InFlight(l[Len(scopes)])'
    <2> DEFINE body == [kind |-> "body", resume |-> mode]
    <2>1. PICK lower : /\ Levels(lower, Front(scopes))
                       /\ lower[Len(Front(scopes))] \in Int
                       /\ level[Len(scopes)] = lower[Len(Front(scopes))] + Waiting(Top)
      BY <1>0, <1>5, <1>t, PopLevels DEF Top
    <2>2. Front(scopes) \in Seq(Forms) /\ Len(Front(scopes)) = Len(scopes) - 1
      <3> DEFINE n == Len(scopes)
                 f == Front(scopes)
      <3>1. n \in Nat \ {0}
        BY <1>5, <1>t
      <3>2. f = SubSeq(scopes, 1, n - 1)
        BY DEF Front
      <3> HIDE DEF f
      <3>3. f \in Seq(Forms) /\ DOMAIN f = 1 .. n - 1
        BY <1>t, <3>1, <3>2
      <3>4. Len(f) = n - 1
        BY <3>1, <3>3
      <3> QED BY <3>3, <3>4 DEF f
    <2>3. body \in Forms /\ \A w : Remembers(body, w)
      BY <1>m DEF Forms, Modes, IsTransaction, Remembers
    <2>4. scopes' = Append(Front(scopes), body)
      <3> DEFINE b == body
                 f == Front(scopes)
                 n == Len(scopes)
      <3>1. n \in Nat \ {0} /\ DOMAIN scopes = 1 .. n
        BY <1>5, <1>t
      <3>2. scopes' = [scopes EXCEPT ![n] = b]
        BY <1>5 DEF DestroyGuard
      <3>3. \A i \in 1 .. n - 1 : f[i] = scopes[i]
        BY <1>t, <3>1, SubSeqProperties DEF Front
      <3>4. f \in Seq(Forms) /\ Len(f) = n - 1
        BY <2>2
      <3>5. b \in Forms
        BY <2>3
      <3> HIDE DEF b, f, n
      <3>6. scopes' \in Seq(Forms) /\ Len(scopes') = n
        BY <1>t, <3>1, <3>2, <3>5 DEF n
      <3>7. Append(f, b) \in Seq(Forms) /\ Len(Append(f, b)) = n
        BY <3>1, <3>4, <3>5
      <3>8. \A i \in 1 .. n : scopes'[i] = Append(f, b)[i]
        BY <3>1, <3>2, <3>3, <3>4, <3>5
      <3>9. scopes' = Append(f, b)
        BY <3>6, <3>7, <3>8
      <3> QED BY <3>9 DEF b, f
    <2> HIDE DEF body
    <2>5. PICK higher :
            /\ Levels(higher, scopes')
            /\ higher[Len(scopes')] = lower[Len(Front(scopes))] + Waiting(body)
      BY <2>1, <2>2, <2>3, <2>4, PushLevels
    <2>6. /\ Top.kind = "guard" /\ mode' = "running" /\ flight' = flight
          /\ Waiting(body) = IF mode = "unwinding" THEN 1 ELSE 0
      BY <1>5 DEF DestroyGuard, Waiting, body
    <2>7. InFlight(higher[Len(scopes)])'
      BY <1>0, <2>1, <2>5, <2>6 DEF InFlight, Waiting
    <2> QED BY <2>5, <2>7
  <1>6. ASSUME scopes # <<>>, LeaveBody
        PROVE  \E l : Levels(l, scopes') /\ InFlight(l[Len(scopes)])'
    <2>1. PICK lower : /\ Levels(lower, scopes')
                       /\ lower[Len(scopes')] \in Int
                       /\ level[Len(scopes)] = lower[Len(scopes')] + Waiting(Top)
      BY <1>0, <1>6, <1>t, PopLevels DEF LeaveBody, Pop, Top
    <2>2. /\ Waiting(Top) = IF mode' = "unwinding" THEN 1 ELSE 0
          /\ flight' = IF mode = "unwinding" THEN flight - 1 ELSE flight
      BY <1>6 DEF LeaveBody, Waiting
    <2>3. InFlight(lower[Len(scopes)])'
      BY <1>0, <1>t, <2>1, <2>2 DEF InFlight
    <2> QED BY <2>1, <2>3
  <1>7. ASSUME Catch
        PROVE  \E l : Levels(l, scopes') /\ InFlight(l[Len(scopes)])'
    <2>1. Len(scopes) = 0 /\ UNCHANGED scopes /\ flight' = 0 /\ mode' = "running"
      BY <1>7 DEF Catch
    <2>2. level[0] = 0
      BY <1>0 DEF Levels
    <2> QED BY <1>0, <2>1, <2>2 DEF InFlight
  \* The steps.
  <1>8. CASE UserThrows
    BY <1>1, <1>8 DEF UserThrows
  <1>9. CASE MakeGuard
    <2>1. [kind |-> "guard"] \in Forms /\ \A w : Remembers([kind |-> "guard"], w)
      BY DEF Forms, IsTransaction, Remembers
    <2> QED BY <1>2, <1>9, <2>1 DEF MakeGuard, Push, Calm
  <1>10. CASE MakeQuery
    <2>1. NewQuery(FALSE) \in Forms /\ NewQuery(FALSE).kind # "body"
      BY <1>t DEF NewQuery, Forms
    <2>2. flight = level[Len(scopes)]
      BY <1>0, <1>10, <1>i DEF MakeQuery, Room, InFlight
    <2>3. Remembers(NewQuery(FALSE), level[Len(scopes)])
      BY <1>i, <2>2 DEF NewQuery, Remembers, IsTransaction
    <2> QED BY <1>2, <1>10, <2>1, <2>3 DEF MakeQuery, Push, Calm
  <1>11. CASE EndScope
    BY <1>4, <1>5, <1>6, <1>11
    DEF EndScope, DestroyQuery, DestroyResult, RaiseIf, LeaveBody
  <1>12. ASSUME NEW i \in DOMAIN scopes, MoveQuery(i)
         PROVE  \E l : Levels(l, scopes') /\ InFlight(l[Len(scopes)])'
    <2> DEFINE emptied == [scopes[i] EXCEPT !.executed = FALSE]
               s == [scopes EXCEPT ![i] = emptied]
    <2>1. scopes' = Append(s, scopes[i])
      BY <1>t, <1>12 DEF MoveQuery
    <2>2. /\ emptied \in Forms /\ ~IsTransaction(emptied) /\ emptied.kind # "body"
          /\ scopes[i] \in Forms /\ ~IsTransaction(scopes[i]) /\ scopes[i].kind = "query"
          /\ emptied.seen = scopes[i].seen
      <3>1. scopes[i].kind = "query" /\ scopes[i] \in Forms
        BY <1>t, <1>12 DEF MoveQuery, IsQuery
      <3>2. emptied.kind = "query" /\ emptied.seen = scopes[i].seen
        BY <3>1, ObjectForms
      <3> QED BY <1>12, <3>1, <3>2, ExecutedType DEF MoveQuery, IsQuery, IsTransaction
    <2> HIDE DEF emptied
    <2>3. Levels(level, s) /\ Len(s) = Len(scopes) /\ s \in Seq(Forms)
      BY <1>0, <1>t, <2>2, ChangeLevels
    <2> HIDE DEF s
    <2>r. Remembers(scopes[i], level[Len(s)])
      <3>1. i \in 1 .. Len(scopes) /\ i - 1 \in 0 .. Len(scopes)
        BY <1>t
      <3>2. scopes[i].seen \in 0 .. level[i - 1]
        BY <1>0, <2>2, <3>1 DEF Levels, Remembers
      <3>3. level[i - 1] <= level[Len(scopes)] /\ level[i - 1] \in Nat
        <4>1. Len(scopes) \in 0 .. Len(scopes) /\ i - 1 \in 0 .. Len(scopes)
          BY <1>t, <3>1
        <4> QED BY <1>0, <1>t, <4>1, LevelGrows
      <3> QED BY <1>i, <2>2, <2>3, <3>2, <3>3 DEF Remembers
    <2>4. PICK higher : /\ Levels(higher, scopes')
                        /\ higher[Len(scopes')] = level[Len(s)] + Waiting(scopes[i])
      BY <2>1, <2>2, <2>3, <2>r, PushLevels
    <2>5. higher[Len(scopes')] = level[Len(scopes)]
      BY <1>i, <2>2, <2>3, <2>4 DEF Waiting
    <2> QED BY <1>0, <1>12, <2>4, <2>5 DEF InFlight, MoveQuery, threadVars
  <1>13. ASSUME NEW i \in DOMAIN scopes, NEW batch \in Batches, QueryExecute(i, batch)
         PROVE  \E l : Levels(l, scopes') /\ InFlight(l[Len(scopes)])'
    <2> DEFINE executed == [scopes[i] EXCEPT !.executed = TRUE]
    <2>1. /\ scopes' = scopes \/ scopes' = [scopes EXCEPT ![i] = executed]
          /\ Raise \/ Calm
      BY <1>t, <1>13 DEF QueryExecute, RaiseIf
    <2>2. scopes[i].kind = "query" /\ scopes[i] \in Forms
      BY <1>t, <1>13 DEF QueryExecute, IsQuery
    <2>3. executed \in Forms /\ ~IsTransaction(executed)
      BY <1>13, ExecutedType DEF QueryExecute
    <2>4. executed.kind = "query" /\ executed.seen = scopes[i].seen
      BY <2>2, ObjectForms
    <2> HIDE DEF executed
    <2> QED BY <1>1, <1>3, <2>1, <2>2, <2>3, <2>4
  <1>14. ASSUME NEW i \in DOMAIN scopes, NEW choice \in BOOLEAN, NextResult(i, choice)
         PROVE  \E l : Levels(l, scopes') /\ InFlight(l[Len(scopes)])'
    BY <1>1, <1>14 DEF NextResult, DriverNextResult, RaiseIf
  <1>15. ASSUME NEW i \in DOMAIN scopes, NEW choice \in BOOLEAN, TakeResult(i, choice)
         PROVE  \E l : Levels(l, scopes') /\ InFlight(l[Len(scopes)])'
    <2> DEFINE result == [kind |-> "result", stored |-> choice, done |-> choice]
    <2>1. result \in Forms /\ (\A w : Remembers(result, w)) /\ result.kind # "body"
      BY DEF Forms, IsTransaction, Remembers
    <2>2. (scopes' = scopes /\ Raise) \/ (scopes' = Append(scopes, result) /\ Calm)
      BY <1>15 DEF TakeResult, Push
    <2> HIDE DEF result
    <2> QED BY <1>1, <1>2, <2>1, <2>2
  <1>16. ASSUME NEW i \in DOMAIN scopes, NEW choice \in BOOLEAN, FetchLast(i, choice)
         PROVE  \E l : Levels(l, scopes') /\ InFlight(l[Len(scopes)])'
    <2> DEFINE done == [scopes[i] EXCEPT !.done = TRUE]
    <2>1. scopes[i] \in [kind : {"result"}, stored : BOOLEAN, done : BOOLEAN]
      BY <1>t, <1>16, ObjectForms DEF FetchLast
    <2>2. done \in [kind : {"result"}, stored : BOOLEAN, done : BOOLEAN]
      BY <2>1
    <2>3. done \in Forms /\ ~IsTransaction(done) /\ done.kind = "result" /\ scopes[i].kind # "body"
      BY <2>1, <2>2 DEF Forms, IsTransaction
    <2>4. scopes' = [scopes EXCEPT ![i] = done] /\ (Raise \/ Calm)
      BY <1>t, <1>16 DEF FetchLast, RaiseIf
    <2> HIDE DEF done
    <2> QED BY <1>3, <2>3, <2>4
  <1> QED
    BY <1>7, <1>8, <1>9, <1>10, <1>11, <1>12, <1>13, <1>14, <1>15, <1>16 DEF QueryStep

-----------------------------------------------------------------------------
(* The transactions.                                                        *)

NoneLive == \A i \in DOMAIN scopes : ~IsTransaction(scopes[i])

\* Of the transactions that were started one at most is live, the last: it is the one
\* that the server has open.  The scopes of the others are left.
LiveIsOpen ==
  /\ \A i \in DOMAIN scopes : IsTransaction(scopes[i]) =>
       /\ scopes[i].id = started /\ open = started /\ started > 0
       /\ started \notin ended \cup aborted
       /\ \A j \in DOMAIN scopes : IsTransaction(scopes[j]) => i = j
  /\ \A t \in 1 .. started : t \in ended \cup aborted \/ (t = started /\ ~NoneLive)

\* Work is open, committed or undone, and a scope is left in one way.
Partition ==
  /\ started \in 0 .. MaxTransactions /\ open \in 0 .. started
  /\ committed \subseteq 1 .. started /\ open \notin committed
  /\ ended \subseteq 1 .. started /\ aborted \subseteq 1 .. started
  /\ ended \cap aborted = {}

TransactionInv == ThreadTyped /\ Nested /\ LiveIsOpen /\ Partition

LEMMA TransactionInitInv == SessionInit => TransactionInv /\ Contract!ContractInit
  <1> SUFFICES ASSUME SessionInit PROVE TransactionInv /\ Contract!ContractInit
    OBVIOUS
  <1>1. ThreadTyped /\ LiveIsOpen /\ Partition
    BY TransactionAssumption
    DEF SessionInit, QueryInit, ThreadTyped, LiveIsOpen, Partition, Modes, NoneLive,
        TransactionAssumption
  <1>n. Nested
    <2>1. scopes = <<>> /\ Len(scopes) = 0 /\ flight = 0 /\ mode = "running"
      BY DEF SessionInit, QueryInit
    <2> DEFINE level == [i \in {0} |-> 0]
    <2>2. 0 .. Len(scopes) = {0} /\ 1 .. Len(scopes) = {}
      BY <2>1
    <2>3. Levels(level, scopes) /\ level[Len(scopes)] = 0
      BY <2>1, <2>2 DEF Levels, Remembers
    <2> QED BY <2>1, <2>3 DEF Nested, InFlight
  <1>2. \A t \in Transactions : ScopeOf(t) = "none" /\ FateOf(t) = "none"
    BY DEF SessionInit, ScopeOf, FateOf, Transactions
  <1> QED BY <1>1, <1>n, <1>2 DEF TransactionInv, Contract!ContractInit

\* A step on other objects.
LEMMA OtherStep ==
  ASSUME TransactionInv, QueryStep, UNCHANGED transactionVars
  PROVE  TransactionInv' /\ UNCHANGED <<[t \in Transactions |-> ScopeOf(t)],
                                        [t \in Transactions |-> FateOf(t)]>>
  <1>1. TransactionsStay /\ ThreadTyped' /\ Nested'
    BY QueryStepStays, QueryStepThread, QueryStepNested DEF TransactionInv
  <1>2. NoneLive' <=> NoneLive
    BY <1>1 DEF TransactionsStay, NoneLive
  <1>3. LiveIsOpen'
    BY <1>1, <1>2 DEF TransactionInv, LiveIsOpen, TransactionsStay, transactionVars
  <1>4. Partition'
    BY DEF TransactionInv, Partition, transactionVars
  <1> QED BY <1>1, <1>3, <1>4 DEF TransactionInv, ScopeOf, FateOf, transactionVars

\* What the states of scopes and of work are read from.
Scopes == [t \in Transactions |-> ScopeOf(t)]
Fates == [t \in Transactions |-> FateOf(t)]

\* An exception thrown by the constructor changes nothing else.
LEMMA ConstructFails ==
  ASSUME TransactionInv, mode = "running", Raise, UNCHANGED <<scopes, transactionVars>>
  PROVE  TransactionInv' /\ UNCHANGED <<Scopes, Fates>>
  <1>1. ThreadTyped'
    BY RaiseType DEF TransactionInv, ThreadTyped
  <1>2. LiveIsOpen' /\ Partition'
    BY DEF TransactionInv, LiveIsOpen, Partition, NoneLive, transactionVars
  <1>3. Nested'
    <2>1. PICK level : Levels(level, scopes) /\ InFlight(level[Len(scopes)])
      BY DEF TransactionInv, Nested
    <2>2. level[Len(scopes)] \in Int
      BY <2>1 DEF Levels, TransactionInv, ThreadTyped
    <2>3. mode' # "terminated" /\ ThreadTyped
      BY DEF Raise, TransactionInv
    <2>4. PICK n \in Int : n = level[Len(scopes)]
      BY <2>2
    <2>5. InFlight(n)'
      BY <2>1, <2>3, <2>4, RaisedInFlight
    <2> QED BY <2>1, <2>4, <2>5 DEF Nested, InFlight
  <1> QED
    BY <1>1, <1>2, <1>3 DEF TransactionInv, Scopes, Fates, ScopeOf, FateOf, transactionVars

\* A transaction starts when no other is live, and becomes the open one.
LEMMA ConstructSucceeds ==
  ASSUME TransactionInv, NoneLive, started < MaxTransactions, mode = "running", Calm,
         Push([kind |-> "transaction", seen |-> flight, id |-> started + 1]),
         started' = started + 1, open' = started + 1, CommitOpen,
         UNCHANGED <<ended, aborted>>
  PROVE  TransactionInv' /\ Contract!ContractNext
  <1>0. PICK t : t = started + 1
    OBVIOUS
  <1> DEFINE object == [kind |-> "transaction", seen |-> flight, id |-> t]
  <1>1. started \in Nat /\ open \in 0 .. started /\ t \in Nat /\ t \in Transactions
    BY <1>0, TransactionAssumption
    DEF TransactionInv, Partition, Transactions, TransactionAssumption
  <1>2. object \in Forms /\ IsTransaction(object) /\ object.id = t
    BY <1>1 DEF Forms, IsTransaction, TransactionInv, ThreadTyped
  <1>3. scopes' = Append(scopes, object)
    BY <1>0 DEF Push
  <1>s. object.seen = flight /\ object.kind # "body"
    OBVIOUS
  <1> HIDE DEF object
  <1>n. Nested'
    <2>0. PICK level : Levels(level, scopes) /\ InFlight(level[Len(scopes)])
      BY DEF TransactionInv, Nested
    <2>1. Levels(level, scopes) /\ flight = level[Len(scopes)]
      <3>1. Len(scopes) \in 0 .. Len(scopes)
        BY DEF TransactionInv, ThreadTyped
      <3>2. level[Len(scopes)] \in Nat
        BY <2>0, <3>1, LevelIsNat DEF TransactionInv, ThreadTyped
      <3> QED BY <2>0, <3>2 DEF InFlight
    <2>2. PICK higher : /\ Levels(higher, scopes')
                        /\ higher[Len(scopes')] = level[Len(scopes)] + Waiting(object)
      BY <1>2, <1>3, <1>s, <2>1, PushLevels
      DEF TransactionInv, ThreadTyped, Remembers, IsTransaction
    <2>3. higher[Len(scopes')] = flight
      BY <1>s, <2>1, <2>2 DEF Waiting, TransactionInv, ThreadTyped
    <2> QED BY <2>2, <2>3 DEF Nested, InFlight, Calm, threadVars, TransactionInv, ThreadTyped
  <1>4. scopes \in Seq(Forms) /\ scopes' \in Seq(Forms) /\ DOMAIN scopes' = 1 .. Len(scopes) + 1
    BY <1>2, <1>3 DEF TransactionInv, ThreadTyped
  <1>5. /\ \A i \in 1 .. Len(scopes) : scopes'[i] = scopes[i]
        /\ scopes'[Len(scopes) + 1] = object
        /\ Len(scopes) \in Nat /\ DOMAIN scopes = 1 .. Len(scopes)
    BY <1>3, <1>4
  <1>6. \A i \in DOMAIN scopes' : IsTransaction(scopes'[i]) => i = Len(scopes) + 1
    BY <1>4, <1>5 DEF NoneLive
  <1>7. ~NoneLive'
    BY <1>2, <1>4, <1>5 DEF NoneLive
  <1>8. ended \subseteq 1 .. started /\ aborted \subseteq 1 .. started
    BY DEF TransactionInv, Partition
  <1>9. LiveIsOpen'
    <2>1. t \notin ended \cup aborted
      BY <1>0, <1>1, <1>8
    <2>2. \A u \in 1 .. t : u \in ended \cup aborted \/ u = t
      BY <1>0, <1>1 DEF TransactionInv, LiveIsOpen
    <2> QED BY <1>0, <1>1, <1>2, <1>5, <1>6, <1>7, <2>1, <2>2 DEF LiveIsOpen
  <1>10. Partition'
    BY <1>1, <1>0, TransactionAssumption
    DEF TransactionInv, Partition, CommitOpen, TransactionAssumption
  <1>11. ThreadTyped'
    BY <1>4 DEF TransactionInv, ThreadTyped, Calm, threadVars
  <1>12. /\ Scopes[t] = "none"
         /\ Scopes' = [Scopes EXCEPT ![t] = "inside"]
    <2>1. ScopeOf(t) = "none" /\ ScopeOf(t)' = "inside"
      BY <1>0, <1>1, <1>8 DEF ScopeOf
    <2>2. \A u \in Transactions \ {t} : ScopeOf(u)' = ScopeOf(u)
      BY <1>0, <1>1 DEF ScopeOf, Transactions
    <2> QED BY <1>1, <2>1, <2>2 DEF Scopes
  <1>13. FateOf(t)' = "open"
    BY <1>0, <1>1 DEF FateOf
  <1>14. ASSUME NEW u \in Transactions \ {t}, FateOf(u)' # FateOf(u)
         PROVE  /\ ScopeOf(u) \in {"ended", "aborted"} /\ FateOf(u) = "open"
                /\ FateOf(u)' \in {"committed", "undone"}
    <2>1. u \in Nat /\ u # started + 1
      BY <1>0, <1>14 DEF Transactions
    <2>2. u \in 1 .. started /\ u = open /\ u \in committed'
      BY <1>0, <1>1, <1>14, <2>1 DEF FateOf, CommitOpen, Transactions
    <2>3. u \in ended \cup aborted
      BY <2>2 DEF TransactionInv, LiveIsOpen
    <2> QED BY <1>1, <2>1, <2>2, <2>3 DEF ScopeOf, FateOf
  <1>15. Contract!Begin(t) /\ Contract!OthersDecided(t)
    BY <1>1, <1>12, <1>13, <1>14
    DEF Contract!Begin, Contract!OthersDecided, Contract!Undecided, Scopes
  <1> QED
    BY <1>1, <1>n, <1>9, <1>10, <1>11, <1>15 DEF TransactionInv, Contract!ContractNext

LEMMA ConstructStep ==
  ASSUME TransactionInv, NEW isolationLevel \in BOOLEAN, TransactionConstruct(isolationLevel)
  PROVE  TransactionInv' /\ (Contract!ContractNext \/ UNCHANGED <<Scopes, Fates>>)
  <1>a. started' # started + 1 \/ started' # started
    BY DEF TransactionInv, Partition
  <1>1. CASE UNCHANGED <<scopes, started, open, committed>>
    <2>1. Raise /\ UNCHANGED <<ended, aborted>> /\ mode = "running"
      BY <1>a, <1>1 DEF TransactionConstruct, RaiseIf, Room
    <2> QED BY <1>1, <2>1, ConstructFails DEF transactionVars
  <1>2. CASE ~UNCHANGED <<scopes, started, open, committed>>
    <2>1. NoneLive
      BY DEF TransactionConstruct, NoneLive, IsTransaction
    <2> QED BY <1>2, <2>1, ConstructSucceeds DEF TransactionConstruct, RaiseIf, Room
  <1> QED BY <1>1, <1>2

-----------------------------------------------------------------------------
(* The end of a transaction.                                                *)

\* Its destructor sees a new exception just when one unwinds the stack past it: those
\* that wait for an enclosing destructor were there when it was built.
LEMMA DestructorSees ==
  ASSUME TransactionInv, TransactionDestroy
  PROVE  /\ mode = "unwinding" <=> isNewUncaughtException(Top)
         /\ \E lower : /\ Levels(lower, scopes') /\ lower[Len(scopes')] \in Int
                       /\ InFlight(lower[Len(scopes')])
  <1>1. /\ scopes \in Seq(Forms) /\ scopes # <<>> /\ flight \in Int
        /\ mode # "terminated" /\ Len(scopes) \in Nat \ {0} /\ Top = scopes[Len(scopes)]
        /\ Top.kind = "transaction" /\ scopes' = Front(scopes)
    BY DEF TransactionInv, ThreadTyped, TransactionDestroy, Top, Last, Pop
  <1>2. PICK level : Levels(level, scopes) /\ InFlight(level[Len(scopes)])
    BY <1>1 DEF TransactionInv, Nested
  <1>3. PICK lower : /\ Levels(lower, scopes') /\ lower[Len(scopes')] \in Int
                     /\ level[Len(scopes)] = lower[Len(scopes')] + Waiting(Top)
    BY <1>1, <1>2, PopLevels DEF Top
  <1>4. Waiting(Top) = 0
    BY <1>1 DEF Waiting
  <1>5. level[Len(scopes)] = lower[Len(scopes')]
    BY <1>3, <1>4
  <1>6. Len(scopes) \in 1 .. Len(scopes)
    BY <1>1
  <1>7. /\ level[Len(scopes)] = level[Len(scopes) - 1] + Waiting(Top)
        /\ Top.seen = level[Len(scopes) - 1]
    BY <1>1, <1>2, <1>6 DEF Levels, Remembers, IsTransaction
  <1>8. level[Len(scopes) - 1] \in Int
    BY <1>1, <1>2, <1>6 DEF Levels
  <1>9. Top.seen = lower[Len(scopes')]
    BY <1>4, <1>5, <1>7, <1>8
  <1> QED BY <1>1, <1>2, <1>3, <1>5, <1>9 DEF InFlight, isNewUncaughtException

\* The scope of the transaction that is live ends.
LEMMA DestroyStep ==
  ASSUME TransactionInv, TransactionDestroy
  PROVE  TransactionInv' /\ Contract!ContractNext
  <1>0. PICK t : t = Top.id
    OBVIOUS
  <1>1. /\ scopes \in Seq(Forms) /\ scopes # <<>> /\ Len(scopes) \in Nat \ {0}
        /\ Len(scopes) \in DOMAIN scopes /\ DOMAIN scopes = 1 .. Len(scopes)
        /\ Top = scopes[Len(scopes)] /\ IsTransaction(Top)
    BY DEF TransactionInv, ThreadTyped, TransactionDestroy, Top, Last, IsTransaction
  <1>2. /\ t = started /\ open = t /\ t \in 1 .. started /\ started \in Nat
        /\ t \notin ended \cup aborted
    BY <1>0, <1>1 DEF TransactionInv, LiveIsOpen, Partition
  <1>3. t \in Transactions /\ t \notin committed
    BY <1>2, TransactionAssumption
    DEF TransactionInv, Partition, Transactions, TransactionAssumption
  <1>4. scopes' \in Seq(Forms) /\ DOMAIN scopes' = 1 .. Len(scopes) - 1
        /\ \A i \in DOMAIN scopes' : scopes'[i] = scopes[i]
    <2>1. scopes' = SubSeq(scopes, 1, Len(scopes) - 1)
      BY DEF TransactionDestroy, Pop, Front
    <2>2. scopes' \in Seq(Forms) /\ DOMAIN scopes' = 1 .. Len(scopes) - 1
      BY <1>1, <2>1
    <2> QED BY <1>1, <2>1, <2>2
  <1>5. NoneLive'
    BY <1>1, <1>4 DEF NoneLive, TransactionInv, LiveIsOpen
  <1>6. /\ started' = started
        /\ \/ /\ mode = "unwinding" /\ isNewUncaughtException(Top)
              /\ aborted' = aborted \cup {t} /\ UNCHANGED ended
           \/ /\ mode # "unwinding" /\ ~isNewUncaughtException(Top)
              /\ ended' = ended \cup {t} /\ UNCHANGED aborted
    BY <1>0, DestructorSees DEF TransactionDestroy, LeaveScope
  <1>7. \/ /\ isNewUncaughtException(Top) /\ Calm
           /\ open' \in {open, 0} /\ UNCHANGED committed
        \/ /\ ~isNewUncaughtException(Top) /\ Raise
           /\ UNCHANGED <<open, committed>>
        \/ /\ ~isNewUncaughtException(Top) /\ Calm
           /\ open' = 0 /\ committed' = committed \cup {t}
    BY <1>2 DEF TransactionDestroy, Rollback, Commit, RaiseIf, CommitOpen
  <1>8. ThreadTyped'
    BY <1>4, <1>7, RaiseType DEF TransactionInv, ThreadTyped
  <1>9. Nested'
    <2> SUFFICES ASSUME mode' # "terminated" PROVE Nested'
      BY DEF Nested
    <2>1. PICK lower : /\ Levels(lower, scopes') /\ lower[Len(scopes')] \in Int
                       /\ InFlight(lower[Len(scopes')])
      BY DestructorSees
    <2>2. PICK n \in Int : n = lower[Len(scopes')]
      BY <2>1
    <2>3. mode \in {"running", "unwinding"}
      BY DEF TransactionInv, ThreadTyped, Modes, TransactionDestroy
    <2>4. InFlight(n)'
      BY <1>7, <2>1, <2>2, <2>3, RaisedInFlight DEF TransactionInv
    <2> QED BY <2>1, <2>2, <2>4 DEF Nested, InFlight
  <1>10. LiveIsOpen'
    <2>1. \A u \in 1 .. started : u \in ended \cup aborted \/ u = t
      BY <1>2 DEF TransactionInv, LiveIsOpen
    <2>2. \A u \in 1 .. started' : u \in ended' \cup aborted'
      BY <1>6, <2>1
    <2> QED BY <1>5, <2>2 DEF LiveIsOpen, NoneLive
  <1>11. Partition'
    <2>1. Partition
      BY DEF TransactionInv
    <2>2. /\ started' = started /\ started' \in 0 .. MaxTransactions
          /\ ended' \subseteq 1 .. started' /\ aborted' \subseteq 1 .. started'
          /\ ended' \cap aborted' = {}
      BY <1>2, <1>6, <2>1 DEF Partition
    <2>3. committed' \subseteq 1 .. started' /\ open' \in 0 .. started'
      <3>1. committed' = committed \/ committed' = committed \cup {t}
        BY <1>7
      <3>2. open' = open \/ open' = 0
        BY <1>7
      <3>3. open \in 0 .. started /\ committed \subseteq 1 .. started /\ 0 \in 0 .. started
        BY <1>2, <2>1 DEF Partition
      <3> QED BY <1>2, <2>2, <3>1, <3>2, <3>3
    <2>4. open' \notin committed'
      BY <1>2, <1>7, <2>1 DEF Partition
    <2> QED BY <2>2, <2>3, <2>4 DEF Partition
  <1>12. ScopeOf(t) = "inside" /\ ScopeOf(t)' = IF mode = "unwinding" THEN "aborted" ELSE "ended"
    BY <1>2, <1>6 DEF ScopeOf
  <1>13. \A u \in Transactions \ {t} : ScopeOf(u)' = ScopeOf(u)
    BY <1>6 DEF ScopeOf
  <1>14. /\ Scopes[t] = "inside"
         /\ Scopes' = [Scopes EXCEPT ![t] = IF mode = "unwinding" THEN "aborted" ELSE "ended"]
    BY <1>3, <1>12, <1>13 DEF Scopes
  <1>15. \A u \in Transactions \ {t} : FateOf(u)' = FateOf(u)
    BY <1>2, <1>6, <1>7 DEF FateOf, Transactions
  <1>16. FateOf(t)' \in IF mode = "unwinding" THEN {"undone", "open"} ELSE {"committed", "open"}
    BY <1>2, <1>3, <1>6, <1>7 DEF FateOf
  <1>17. (Contract!End(t) \/ Contract!Abort(t)) /\ Contract!OthersDecided(t)
    BY <1>3, <1>14, <1>15, <1>16
    DEF Contract!End, Contract!Abort, Contract!OthersDecided, Scopes
  <1> QED
    BY <1>3, <1>8, <1>9, <1>10, <1>11, <1>17 DEF TransactionInv, Contract!ContractNext

-----------------------------------------------------------------------------

LEMMA SessionStep ==
  ASSUME TransactionInv, [SessionNext]_sessionVars
  PROVE  TransactionInv' /\ (Contract!ContractNext \/ UNCHANGED <<Scopes, Fates>>)
  <1>1. CASE QueryStep /\ UNCHANGED transactionVars
    BY <1>1, OtherStep DEF Scopes, Fates
  <1>2. CASE \E isolationLevel \in BOOLEAN : TransactionConstruct(isolationLevel)
    BY <1>2, ConstructStep
  <1>3. CASE TransactionDestroy
    BY <1>3, DestroyStep
  <1>4. CASE UNCHANGED sessionVars
    <2>1. UNCHANGED <<scopes, flight, mode, transactionVars>>
      BY <1>4 DEF sessionVars, queryVars, threadVars
    <2>2. ThreadTyped' /\ LiveIsOpen' /\ Partition' /\ Nested'
      BY <2>1 DEF TransactionInv, ThreadTyped, LiveIsOpen, NoneLive, Partition, Nested, InFlight,
                  transactionVars
    <2> QED BY <2>1, <2>2 DEF TransactionInv, Scopes, Fates, ScopeOf, FateOf, transactionVars
  <1> QED BY <1>1, <1>2, <1>3, <1>4 DEF SessionNext

\* The objects of a thread nest: of the exceptions in flight, all but the one that
\* unwinds the stack wait for a destructor around the live scopes, and a transaction
\* counted those of its own destructor's surroundings when it was built.
THEOREM ScopesNest == SessionSpec => []TransactionInv
  <1>1. SessionInit => TransactionInv
    BY TransactionInitInv
  <1>2. TransactionInv /\ [SessionNext]_sessionVars => TransactionInv'
    BY SessionStep
  <1> QED BY <1>1, <1>2, PTL DEF SessionSpec

\* A Transaction keeps its contract, whatever the thread does with queries and
\* whatever throws (transaction.hpp): work is committed only when the scope ends in
\* order and rolled back only when an exception leaves it; otherwise the server still
\* has it, undecided.
THEOREM TransactionsKeepContract == SessionSpec => ImplementsContract
  <1>1. SessionInit => TransactionInv /\ Contract!ContractInit
    BY TransactionInitInv
  <1>2. TransactionInv /\ [SessionNext]_sessionVars
          => TransactionInv' /\ [Contract!ContractNext]_<<[t \in Transactions |-> ScopeOf(t)],
                                                          [t \in Transactions |-> FateOf(t)]>>
    BY SessionStep DEF Scopes, Fates
  <1> QED
    BY <1>1, <1>2, PTL
    DEF SessionSpec, ImplementsContract, Contract!ContractSpec, Contract!contractVars

-----------------------------------------------------------------------------
(* No destructor throws while an exception passes.                          *)

\* A query that an exception passes was there before: its destructor knows.
LEMMA QuerySees ==
  ASSUME TransactionInv, mode = "unwinding", scopes # <<>>, Top.kind = "query"
  PROVE  isNewUncaughtException(Top)
  <1>1. /\ scopes \in Seq(Forms) /\ Len(scopes) \in Nat \ {0} /\ Top = scopes[Len(scopes)]
    BY DEF TransactionInv, ThreadTyped, Top, Last
  <1>2. PICK level : Levels(level, scopes) /\ flight = level[Len(scopes)] + 1
    BY DEF TransactionInv, Nested, InFlight
  <1>3. PICK n \in Nat : n = level[Len(scopes) - 1] /\ n <= level[Len(scopes)]
    <2>1. Len(scopes) \in 0 .. Len(scopes) /\ Len(scopes) - 1 \in 0 .. Len(scopes)
      BY <1>1
    <2> QED BY <1>1, <1>2, <2>1, LevelGrows
  <1>4. Top.seen \in 0 .. n
    <2>1. Len(scopes) \in 1 .. Len(scopes)
      BY <1>1
    <2>2. Remembers(scopes[Len(scopes)], level[Len(scopes) - 1])
      BY <1>2, <2>1 DEF Levels
    <2> QED BY <1>1, <1>3, <2>2 DEF Remembers
  <1>5. level[Len(scopes)] \in Nat
    BY <1>1, <1>2, LevelIsNat
  <1> QED BY <1>2, <1>3, <1>4, <1>5 DEF isNewUncaughtException

\* So an exception during unwinding has nowhere to come from.
LEMMA NeverTerminatesStep ==
  ASSUME TransactionInv, NeverTerminates, [SessionNext]_sessionVars
  PROVE  NeverTerminates'
  <1> SUFFICES ASSUME mode' = "terminated" PROVE FALSE
    BY DEF NeverTerminates
  <1>0. mode \in {"running", "unwinding"} /\ mode' # mode
    BY DEF NeverTerminates, TransactionInv, ThreadTyped, Modes
  <1>1. ASSUME Raise \/ Calm PROVE mode = "unwinding" /\ Raise
    BY <1>0, <1>1 DEF Raise, Calm, threadVars
  <1>2. ~(scopes # <<>> /\ LeaveBody)
    <2> SUFFICES ASSUME scopes # <<>>, LeaveBody PROVE FALSE
      OBVIOUS
    <2>1. Top \in Forms
      BY DEF TransactionInv, ThreadTyped, Top, Last
    <2>2. Top.resume \in {"running", "unwinding"}
      BY <2>1, ObjectForms DEF LeaveBody
    <2> QED BY <2>2 DEF LeaveBody
  <1>3. ~(scopes # <<>> /\ DestroyQuery)
    <2> SUFFICES ASSUME scopes # <<>>, DestroyQuery PROVE FALSE
      OBVIOUS
    <2>1. mode = "unwinding" /\ ~isNewUncaughtException(Top)
      BY <1>0, <1>1 DEF DestroyQuery, RaiseIf, UnreadResults, Calm, threadVars
    <2> QED BY <2>1, QuerySees DEF DestroyQuery
  <1>4. ~TransactionDestroy
    <2> SUFFICES ASSUME TransactionDestroy PROVE FALSE
      OBVIOUS
    <2>1. mode = "unwinding" /\ ~isNewUncaughtException(Top)
      BY <1>0, <1>1 DEF TransactionDestroy, Rollback, Commit, RaiseIf, Calm, threadVars
    <2> QED BY <2>1, DestructorSees
  <1>5. mode = "running" => ~Raise
    BY <1>1
  <1> QED
    BY <1>0, <1>2, <1>3, <1>4, <1>5
    DEF SessionNext, QueryStep, UserThrows, MakeGuard, MakeQuery, EndScope, DestroyResult,
        DestroyGuard, Catch, MoveQuery, QueryExecute, NextResult, DriverNextResult, TakeResult,
        FetchLast, RaiseIf, Calm, threadVars, Room, TransactionConstruct, sessionVars,
        queryVars

\* No destructor throws while an exception unwinds the stack past it
\* (uncaught_exception_counter.hpp): a Query and a Transaction know of every exception
\* that was raised after they were built, however the scopes nest in other objects'
\* destructors and wherever a query was moved.
THEOREM NoDestructorTerminates == SessionSpec => []NeverTerminates
  <1>1. SessionInit => TransactionInv /\ NeverTerminates
    BY TransactionInitInv DEF SessionInit, QueryInit, NeverTerminates
  <1>2. TransactionInv /\ NeverTerminates /\ [SessionNext]_sessionVars
          => TransactionInv' /\ NeverTerminates'
    BY SessionStep, NeverTerminatesStep
  <1> QED BY <1>1, <1>2, PTL DEF SessionSpec

-----------------------------------------------------------------------------
(* Results that nobody read.                                                *)

\* An object that has seen no exception.
Undisturbed(object) ==
  /\ object.kind = "query" => object.seen = 0
  /\ object.kind = "body" => object.resume = "running"

IsReader(object) == object.kind = "query" /\ object.executed

\* As long as there was no exception, results to read have a query that knows of them.
ReadersKnow ==
  ~thrown =>
    /\ flight = 0 /\ mode = "running"
    /\ \A i \in DOMAIN scopes : Undisturbed(scopes[i])
    /\ more # <<>> => \E i \in DOMAIN scopes : IsReader(scopes[i])

\* Without its innermost object, which did not know of results, a thread knows as much.
LEMMA PopReaders ==
  ASSUME scopes \in Seq(Forms), scopes # <<>>, Pop
  PROVE  /\ (\A i \in DOMAIN scopes : Undisturbed(scopes[i]))
              => \A i \in DOMAIN scopes' : Undisturbed(scopes'[i])
         /\ (\E i \in DOMAIN scopes : IsReader(scopes[i])) /\ ~IsReader(Top)
              => \E i \in DOMAIN scopes' : IsReader(scopes'[i])
  <1>1. Len(scopes) \in Nat \ {0} /\ DOMAIN scopes = 1 .. Len(scopes)
    OBVIOUS
  <1>2. scopes' = SubSeq(scopes, 1, Len(scopes) - 1)
    BY DEF Pop, Front
  <1>3. scopes' \in Seq(Forms) /\ DOMAIN scopes' = 1 .. Len(scopes) - 1
    BY <1>1, <1>2
  <1>4. \A i \in 1 .. Len(scopes) - 1 : scopes'[i] = scopes[i]
    BY <1>1, <1>2, <1>3
  <1>5. \A i \in DOMAIN scopes : i \in DOMAIN scopes' \/ scopes[i] = Top
    BY <1>1, <1>3 DEF Top, Last
  <1> QED BY <1>1, <1>3, <1>4, <1>5

\* With another object it knows as much.
LEMMA PushReaders ==
  ASSUME scopes \in Seq(Forms), NEW object \in Forms, Undisturbed(object),
         scopes' = Append(scopes, object)
  PROVE  /\ (\A i \in DOMAIN scopes : Undisturbed(scopes[i]))
              => \A i \in DOMAIN scopes' : Undisturbed(scopes'[i])
         /\ (\E i \in DOMAIN scopes : IsReader(scopes[i]))
              => \E i \in DOMAIN scopes' : IsReader(scopes'[i])
  <1>1. DOMAIN scopes' = 1 .. Len(scopes) + 1 /\ scopes'[Len(scopes) + 1] = object
    OBVIOUS
  <1>2. \A i \in DOMAIN scopes : i \in DOMAIN scopes' /\ scopes'[i] = scopes[i]
    OBVIOUS
  <1>3. \A i \in DOMAIN scopes' : i \in DOMAIN scopes \/ i = Len(scopes) + 1
    OBVIOUS
  <1> QED BY <1>1, <1>2, <1>3

\* With a changed object too, if it still knows.
LEMMA ChangeReaders ==
  ASSUME scopes \in Seq(Forms), NEW i \in DOMAIN scopes, NEW object \in Forms,
         Undisturbed(scopes[i]) => Undisturbed(object),
         IsReader(scopes[i]) => IsReader(object),
         scopes' = [scopes EXCEPT ![i] = object]
  PROVE  /\ (\A j \in DOMAIN scopes : Undisturbed(scopes[j]))
              => \A j \in DOMAIN scopes' : Undisturbed(scopes'[j])
         /\ (\E j \in DOMAIN scopes : IsReader(scopes[j]))
              => \E j \in DOMAIN scopes' : IsReader(scopes'[j])
  <1>1. DOMAIN scopes' = DOMAIN scopes /\ scopes'[i] = object
    OBVIOUS
  <1>2. \A j \in DOMAIN scopes : j # i => scopes'[j] = scopes[j]
    OBVIOUS
  <1> QED BY <1>1, <1>2

\* A query that was executed or emptied is as undisturbed.
LEMMA ExecutedUndisturbed ==
  ASSUME scopes \in Seq(Forms), NEW i \in DOMAIN scopes, IsQuery(i), NEW b \in BOOLEAN
  PROVE  /\ Undisturbed(scopes[i]) => Undisturbed([scopes[i] EXCEPT !.executed = b])
         /\ [scopes[i] EXCEPT !.executed = b].kind = "query"
         /\ [scopes[i] EXCEPT !.executed = b].executed = b
  <1>1. scopes[i] \in [kind : {"query"}, seen : Int, executed : BOOLEAN]
    BY ObjectForms DEF IsQuery
  <1> QED BY <1>1 DEF Undisturbed

LEMMA ReadersQueryStep ==
  ASSUME ThreadTyped, ReadersKnow, QueryStep
  PROVE  ReadersKnow'
  <1> SUFFICES ASSUME ~thrown'
               PROVE  /\ flight' = 0 /\ mode' = "running"
                      /\ \A i \in DOMAIN scopes' : Undisturbed(scopes'[i])
                      /\ more' # <<>> => \E i \in DOMAIN scopes' : IsReader(scopes'[i])
    BY DEF ReadersKnow, Undisturbed, IsReader
  <1>r. ~Raise
    BY DEF Raise
  <1>t. scopes \in Seq(Forms)
    BY DEF ThreadTyped
  <1>0. ~thrown
    BY <1>r
    DEF QueryStep, UserThrows, MakeGuard, MakeQuery, EndScope, DestroyQuery, DestroyResult,
        DestroyGuard, LeaveBody, Catch, MoveQuery, QueryExecute, NextResult, DriverNextResult,
        TakeResult, FetchLast, RaiseIf, Calm, threadVars
  <1>1. /\ flight = 0 /\ mode = "running"
        /\ \A i \in DOMAIN scopes : Undisturbed(scopes[i])
        /\ more # <<>> => \E i \in DOMAIN scopes : IsReader(scopes[i])
    BY <1>0 DEF ReadersKnow
  <1> DEFINE Goal == /\ flight' = 0 /\ mode' = "running"
                     /\ \A i \in DOMAIN scopes' : Undisturbed(scopes'[i])
                     /\ more' # <<>> => \E i \in DOMAIN scopes' : IsReader(scopes'[i])
  <1>2. CASE UserThrows \/ Catch
    BY <1>1, <1>2, <1>r DEF UserThrows, Catch
  <1>3. CASE MakeGuard \/ MakeQuery
    <2>1. [kind |-> "guard"] \in Forms /\ Undisturbed([kind |-> "guard"])
      BY DEF Forms, Undisturbed
    <2>2. NewQuery(FALSE) \in Forms /\ Undisturbed(NewQuery(FALSE))
      BY <1>1 DEF ThreadTyped, NewQuery, Forms, Undisturbed
    <2>3. PICK object \in Forms : Undisturbed(object) /\ scopes' = Append(scopes, object)
      BY <1>3, <2>1, <2>2 DEF MakeGuard, MakeQuery, Push
    <2>4. UNCHANGED <<more, flight, mode>>
      BY <1>3 DEF MakeGuard, MakeQuery, connectionVars, threadVars
    <2> QED BY <1>1, <1>t, <2>3, <2>4, PushReaders
  <1>4. CASE EndScope
    <2>0. scopes # <<>> /\ Top \in Forms /\ Len(scopes) \in DOMAIN scopes
          /\ Top = scopes[Len(scopes)]
      BY <1>4, <1>t DEF EndScope, Top, Last
    <2>1. CASE DestroyResult
      <3>1. Pop /\ ~IsReader(Top) /\ UNCHANGED <<more, flight, mode>>
        BY <2>1 DEF DestroyResult, IsReader, Calm, threadVars
      <3> QED BY <1>1, <1>t, <2>0, <3>1, PopReaders
    <2>2. CASE DestroyGuard
      <3> DEFINE body == [kind |-> "body", resume |-> mode]
      <3>1. body \in Forms /\ Undisturbed(body) /\ ~IsReader(Top)
        BY <1>1, <2>2 DEF Forms, Undisturbed, DestroyGuard, IsReader
      <3>2. scopes' = [scopes EXCEPT ![Len(scopes)] = body]
        BY <2>2 DEF DestroyGuard
      <3>3. mode' = "running" /\ UNCHANGED <<more, flight>>
        BY <2>2 DEF DestroyGuard, connectionVars
      <3> HIDE DEF body
      <3> QED BY <1>1, <1>t, <2>0, <3>1, <3>2, <3>3, ChangeReaders
    <2>3. CASE LeaveBody
      <3>1. Pop /\ ~IsReader(Top) /\ UNCHANGED <<more, flight>> /\ mode' = Top.resume
        BY <1>1, <2>3 DEF LeaveBody, IsReader, connectionVars
      <3>2. Top.resume = "running"
        BY <1>1, <2>0, <2>3 DEF LeaveBody, Undisturbed
      <3> QED BY <1>1, <1>t, <2>0, <3>1, <3>2, PopReaders
    <2>4. CASE DestroyQuery
      <3>1. Pop /\ ~UnreadResults /\ UNCHANGED <<more, flight, mode>>
        BY <1>r, <2>4 DEF DestroyQuery, RaiseIf, Calm, threadVars, connectionVars
      <3>2. ~isNewUncaughtException(Top)
        BY <1>1, <2>0, <2>4 DEF DestroyQuery, Undisturbed, isNewUncaughtException
      <3>3. more = <<>> \/ ~IsReader(Top)
        BY <3>1, <3>2 DEF UnreadResults, hasMoreResults, IsReader
      <3> QED BY <1>1, <1>t, <2>0, <3>1, <3>3, PopReaders
    <2> QED BY <1>4, <2>1, <2>2, <2>3, <2>4 DEF EndScope
  <1>5. ASSUME NEW i \in DOMAIN scopes, MoveQuery(i) PROVE Goal
    <2> DEFINE emptied == [scopes[i] EXCEPT !.executed = FALSE]
               s == [scopes EXCEPT ![i] = emptied]
    <2>1. scopes' = Append(s, scopes[i])
      BY <1>t, <1>5 DEF MoveQuery
    <2>2. UNCHANGED <<more, flight, mode>>
      BY <1>5 DEF MoveQuery, connectionVars, threadVars
    <2>3. Undisturbed(emptied) /\ emptied \in Forms /\ scopes[i] \in Forms
      <3>1. IsQuery(i) /\ FALSE \in BOOLEAN /\ Undisturbed(scopes[i])
        BY <1>1, <1>5 DEF MoveQuery
      <3>2. Undisturbed(emptied)
        BY <1>t, <3>1, ExecutedUndisturbed
      <3>3. emptied \in Forms
        BY <3>1, ExecutedType
      <3> QED BY <1>t, <3>2, <3>3
    <2> HIDE DEF emptied
    <2>4. /\ DOMAIN scopes' = 1 .. Len(scopes) + 1 /\ scopes'[Len(scopes) + 1] = scopes[i]
          /\ scopes'[i] = emptied
          /\ \A j \in DOMAIN scopes : j # i => scopes'[j] = scopes[j]
      BY <1>t, <2>1, <2>3
    <2>5. Len(scopes) \in Nat /\ DOMAIN scopes = 1 .. Len(scopes)
      BY <1>t
    <2>6. \A j \in DOMAIN scopes' : Undisturbed(scopes'[j])
      BY <1>1, <2>3, <2>4, <2>5
    <2>7. ASSUME NEW j \in DOMAIN scopes, IsReader(scopes[j])
          PROVE  \E k \in DOMAIN scopes' : IsReader(scopes'[k])
      BY <2>4, <2>5, <2>7
    <2> QED BY <1>1, <2>2, <2>6, <2>7
  <1>6. ASSUME NEW i \in DOMAIN scopes, NEW b \in Batches, QueryExecute(i, b) PROVE Goal
    <2> DEFINE executed == [scopes[i] EXCEPT !.executed = TRUE]
    <2>1. /\ scopes' = [scopes EXCEPT ![i] = executed]
          /\ UNCHANGED <<flight, mode>>
      BY <1>t, <1>6, <1>r DEF QueryExecute, RaiseIf, Calm, threadVars
    <2>2. /\ Undisturbed(scopes[i]) => Undisturbed(executed)
          /\ IsReader(executed) /\ executed \in Forms
      BY <1>t, <1>6, ExecutedUndisturbed, ExecutedType DEF QueryExecute, IsReader
    <2> HIDE DEF executed
    <2>3. \A j \in DOMAIN scopes' : Undisturbed(scopes'[j])
      BY <1>1, <1>t, <2>1, <2>2, ChangeReaders
    <2>4. i \in DOMAIN scopes' /\ IsReader(scopes'[i])
      BY <1>t, <2>1, <2>2
    <2> QED BY <1>1, <2>1, <2>3, <2>4
  <1>7. ASSUME NEW i \in DOMAIN scopes, NEW choice \in BOOLEAN, NextResult(i, choice)
        PROVE  Goal
    <2>1. /\ UNCHANGED <<scopes, flight, mode>>
          /\ more' # <<>> => more # <<>>
      BY <1>7, <1>r
      DEF NextResult, DriverNextResult, RaiseIf, Calm, threadVars, hasMoreResults,
          connectionVars
    <2> QED BY <1>1, <2>1
  <1>8. ASSUME NEW i \in DOMAIN scopes, NEW choice \in BOOLEAN, TakeResult(i, choice)
        PROVE  Goal
    <2> DEFINE result == [kind |-> "result", stored |-> choice, done |-> choice]
    <2>1. result \in Forms /\ Undisturbed(result)
      BY DEF Forms, Undisturbed
    <2>2. scopes' = Append(scopes, result) /\ UNCHANGED <<more, flight, mode>>
      BY <1>8, <1>r DEF TakeResult, Push, Calm, threadVars, DriverTake
    <2> HIDE DEF result
    <2> QED BY <1>1, <1>t, <2>1, <2>2, PushReaders
  <1>9. ASSUME NEW i \in DOMAIN scopes, NEW choice \in BOOLEAN, FetchLast(i, choice)
        PROVE  Goal
    <2> DEFINE done == [scopes[i] EXCEPT !.done = TRUE]
    <2>1. scopes[i] \in [kind : {"result"}, stored : BOOLEAN, done : BOOLEAN]
      BY <1>t, <1>9, ObjectForms DEF FetchLast
    <2>2. done \in [kind : {"result"}, stored : BOOLEAN, done : BOOLEAN]
      BY <2>1
    <2>3. done \in Forms /\ Undisturbed(done) /\ ~IsReader(scopes[i])
      BY <2>1, <2>2 DEF Forms, Undisturbed, IsReader
    <2>4. scopes' = [scopes EXCEPT ![i] = done] /\ UNCHANGED <<more, flight, mode>>
      BY <1>t, <1>9, <1>r DEF FetchLast, RaiseIf, Calm, threadVars
    <2> HIDE DEF done
    <2> QED BY <1>1, <1>t, <2>3, <2>4, ChangeReaders
  <1> QED
    BY <1>2, <1>3, <1>4, <1>5, <1>6, <1>7, <1>8, <1>9 DEF QueryStep

\* A transaction leaves no result to read, and what it is told it does not remember.
LEMMA ReadersSessionStep ==
  ASSUME TransactionInv, ReadersKnow, [SessionNext]_sessionVars
  PROVE  ReadersKnow'
  <1>t. scopes \in Seq(Forms) /\ ThreadTyped
    BY DEF TransactionInv, ThreadTyped
  <1>1. CASE QueryStep
    BY <1>1, <1>t, ReadersQueryStep
  <1>2. ASSUME NEW isolationLevel \in BOOLEAN, TransactionConstruct(isolationLevel), ~thrown'
        PROVE  ReadersKnow'
    <2>1. ~Raise
      BY <1>2 DEF Raise
    <2>2. Calm /\ UNCHANGED connectionVars
          /\ Push([kind |-> "transaction", seen |-> flight, id |-> started + 1])
      BY <1>2, <2>1 DEF TransactionConstruct, RaiseIf
    <2> DEFINE object == [kind |-> "transaction", seen |-> flight, id |-> started + 1]
    <2>3. object \in Forms /\ Undisturbed(object)
      BY DEF TransactionInv, ThreadTyped, Partition, Forms, Undisturbed
    <2>4. scopes' = Append(scopes, object) /\ UNCHANGED <<more, flight, mode, thrown>>
      BY <2>2 DEF Push, Calm, threadVars, connectionVars
    <2> HIDE DEF object
    <2> QED BY <1>t, <2>3, <2>4, PushReaders DEF ReadersKnow, Undisturbed, IsReader
  <1>3. CASE TransactionDestroy /\ ~thrown'
    <2>1. ~Raise
      BY <1>3 DEF Raise
    <2>2. Calm /\ Pop /\ scopes # <<>> /\ ~IsReader(Top) /\ UNCHANGED connectionVars
      BY <1>3, <2>1 DEF TransactionDestroy, Rollback, Commit, RaiseIf, IsReader
    <2> QED
      BY <1>t, <2>2, PopReaders
      DEF ReadersKnow, Undisturbed, IsReader, Calm, threadVars, connectionVars
  <1>4. CASE UNCHANGED sessionVars
    BY <1>4
    DEF ReadersKnow, Undisturbed, IsReader, sessionVars, queryVars, connectionVars, threadVars
  <1>5. CASE thrown'
    BY <1>5 DEF ReadersKnow
  <1> QED BY <1>1, <1>2, <1>3, <1>4, <1>5 DEF SessionNext

\* A result whose rows are still on the wire.
IsStream(object) == object.kind = "result" /\ ~object.done

\* As long as rows are on the wire, the thread has the object that reads them.
RowsHaveReader == status = "use" => \E i \in DOMAIN scopes : IsStream(scopes[i])

LEMMA StreamStays ==
  ASSUME scopes \in Seq(Forms), \E i \in DOMAIN scopes : IsStream(scopes[i]),
         \/ scopes # <<>> /\ Pop /\ ~IsStream(Top)
         \/ \E object \in Forms : scopes' = Append(scopes, object)
         \/ \E i \in DOMAIN scopes : \E object \in Forms :
              ~IsStream(scopes[i]) /\ scopes' = [scopes EXCEPT ![i] = object]
  PROVE  \E i \in DOMAIN scopes' : IsStream(scopes'[i])
  <1>0. PICK i \in DOMAIN scopes : IsStream(scopes[i])
    OBVIOUS
  <1>1. CASE scopes # <<>> /\ Pop /\ ~IsStream(Top)
    <2>1. scopes' = SubSeq(scopes, 1, Len(scopes) - 1) /\ i # Len(scopes)
      BY <1>0, <1>1 DEF Pop, Front, Top, Last
    <2>2. i \in DOMAIN scopes' /\ scopes'[i] = scopes[i]
      BY <2>1
    <2> QED BY <1>0, <2>2
  <1>2. CASE \E object \in Forms : scopes' = Append(scopes, object)
    <2>1. i \in DOMAIN scopes' /\ scopes'[i] = scopes[i]
      BY <1>2
    <2> QED BY <1>0, <2>1
  <1>3. CASE \E k \in DOMAIN scopes : \E object \in Forms :
               ~IsStream(scopes[k]) /\ scopes' = [scopes EXCEPT ![k] = object]
    <2>1. i \in DOMAIN scopes' /\ scopes'[i] = scopes[i]
      BY <1>0, <1>3
    <2> QED BY <1>0, <2>1
  <1> QED BY <1>1, <1>2, <1>3

LEMMA RowsQueryStep ==
  ASSUME ThreadTyped, RowsHaveReader, QueryStep
  PROVE  RowsHaveReader'
  <1> SUFFICES ASSUME status' = "use"
               PROVE  \E i \in DOMAIN scopes' : IsStream(scopes'[i])
    BY DEF RowsHaveReader, IsStream
  <1>t. scopes \in Seq(Forms)
    BY DEF ThreadTyped
  <1>1. CASE UserThrows \/ Catch
    BY <1>1 DEF UserThrows, Catch, connectionVars, RowsHaveReader
  <1>2. CASE MakeGuard \/ MakeQuery
    <2>1. status = "use"
      BY <1>2 DEF MakeGuard, MakeQuery, connectionVars
    <2>2. PICK object : object \in Forms /\ scopes' = Append(scopes, object)
      <3>1. [kind |-> "guard"] \in Forms /\ NewQuery(FALSE) \in Forms
        BY DEF ThreadTyped, NewQuery, Forms
      <3> QED BY <1>2, <3>1 DEF MakeGuard, MakeQuery, Push
    <2> QED BY <1>t, <2>1, <2>2, StreamStays DEF RowsHaveReader
  <1>3. CASE EndScope
    <2>0. scopes # <<>> /\ Len(scopes) \in DOMAIN scopes /\ Top = scopes[Len(scopes)]
          /\ Top \in Forms
      BY <1>3, <1>t DEF EndScope, Top, Last
    <2>1. CASE DestroyResult
      <3>1. Pop /\ Top.kind = "result" /\ status' = IF Top.done THEN status ELSE "ready"
        BY <2>1 DEF DestroyResult
      <3>2. Top.done \in BOOLEAN
        BY <2>0, <3>1, ObjectForms
      <3>3. Top.done /\ status = "use"
        BY <3>1, <3>2
      <3> QED BY <1>t, <2>0, <3>1, <3>3, StreamStays DEF RowsHaveReader, IsStream
    <2>2. CASE DestroyGuard
      <3>1. [kind |-> "body", resume |-> mode] \in Forms
        <4>1. mode # "terminated" /\ mode \in Modes
          BY <1>3 DEF EndScope, ThreadTyped
        <4> QED BY <4>1 DEF Forms, Modes
      <3>2. /\ ~IsStream(Top) /\ status = "use"
            /\ scopes' = [scopes EXCEPT ![Len(scopes)] = [kind |-> "body", resume |-> mode]]
        BY <2>2 DEF DestroyGuard, IsStream, connectionVars
      <3> QED BY <1>t, <2>0, <3>1, <3>2, StreamStays DEF RowsHaveReader
    <2>3. CASE LeaveBody \/ DestroyQuery
      <3>1. Pop /\ ~IsStream(Top) /\ status = "use"
        BY <2>3 DEF LeaveBody, DestroyQuery, IsStream, connectionVars
      <3> QED BY <1>t, <2>0, <3>1, StreamStays DEF RowsHaveReader
    <2> QED BY <1>3, <2>1, <2>2, <2>3 DEF EndScope
  <1>4. ASSUME NEW i \in DOMAIN scopes, MoveQuery(i)
        PROVE  \E j \in DOMAIN scopes' : IsStream(scopes'[j])
    <2>1. PICK k \in DOMAIN scopes : IsStream(scopes[k])
      BY <1>4 DEF MoveQuery, connectionVars, RowsHaveReader
    <2>2. k # i
      BY <1>4, <2>1 DEF MoveQuery, IsQuery, IsStream
    <2>3. k \in DOMAIN scopes' /\ scopes'[k] = scopes[k]
      <3> DEFINE s == [scopes EXCEPT ![i].executed = FALSE]
      <3>1. s[k] = scopes[k] /\ DOMAIN s = DOMAIN scopes /\ Len(s) = Len(scopes)
        BY <1>t, <2>2
      <3>2. scopes' = Append(s, scopes[i])
        BY <1>4 DEF MoveQuery
      <3>3. s \in Seq(Forms)
        <4>1. IsQuery(i)
          BY <1>4 DEF MoveQuery
        <4>2. [scopes[i] EXCEPT !.executed = FALSE] \in Forms
          BY <4>1, ExecutedType
        <4> QED BY <1>t, <4>2
      <3> HIDE DEF s
      <3> QED BY <1>t, <3>1, <3>2, <3>3
    <2> QED BY <2>1, <2>3
  <1>5. ASSUME NEW i \in DOMAIN scopes, NEW b \in Batches, QueryExecute(i, b)
        PROVE  \E j \in DOMAIN scopes' : IsStream(scopes'[j])
    <2>1. status = "use" /\ UNCHANGED scopes
      BY <1>5 DEF QueryExecute, RealQuery, StatusAfter, RealQueryFails, OutOfSync,
                  connectionVars
    <2> QED BY <2>1 DEF RowsHaveReader
  <1>6. ASSUME NEW i \in DOMAIN scopes, NEW choice \in BOOLEAN, NextResult(i, choice)
        PROVE  \E j \in DOMAIN scopes' : IsStream(scopes'[j])
    <2>1. status = "use" /\ UNCHANGED scopes
      BY <1>6 DEF NextResult, DriverNextResult, StatusAfter, connectionVars
    <2> QED BY <2>1 DEF RowsHaveReader
  <1>7. ASSUME NEW i \in DOMAIN scopes, NEW choice \in BOOLEAN, TakeResult(i, choice)
        PROVE  \E j \in DOMAIN scopes' : IsStream(scopes'[j])
    <2>1. CASE UNCHANGED <<connectionVars, scopes>>
      BY <2>1 DEF connectionVars, RowsHaveReader
    <2>2. CASE /\ Push([kind |-> "result", stored |-> choice, done |-> choice])
               /\ DriverTake(choice)
      <3> DEFINE result == [kind |-> "result", stored |-> choice, done |-> choice]
      <3>1. IsStream(result)
        BY <2>2 DEF DriverTake, IsStream
      <3>2. scopes' = Append(scopes, result)
        BY <2>2 DEF Push
      <3> HIDE DEF result
      <3>3. Len(scopes) + 1 \in DOMAIN scopes' /\ scopes'[Len(scopes) + 1] = result
        BY <1>t, <3>2
      <3> QED BY <3>1, <3>3
    <2> QED BY <1>7, <2>1, <2>2 DEF TakeResult
  <1>8. \A i \in DOMAIN scopes : \A choice \in BOOLEAN : ~FetchLast(i, choice)
    BY DEF FetchLast
  <1> QED
    BY <1>1, <1>2, <1>3, <1>4, <1>5, <1>6, <1>7, <1>8 DEF QueryStep

LEMMA RowsSessionStep ==
  ASSUME TransactionInv, RowsHaveReader, [SessionNext]_sessionVars
  PROVE  RowsHaveReader'
  <1>t. scopes \in Seq(Forms) /\ ThreadTyped
    BY DEF TransactionInv, ThreadTyped
  <1>1. CASE QueryStep
    BY <1>1, <1>t, RowsQueryStep
  <1>2. ASSUME NEW isolationLevel \in BOOLEAN, TransactionConstruct(isolationLevel)
        PROVE  RowsHaveReader'
    <2>1. UNCHANGED status
      BY <1>2 DEF TransactionConstruct, connectionVars
    <2>2. CASE UNCHANGED scopes
      BY <2>1, <2>2 DEF RowsHaveReader
    <2>3. CASE ~UNCHANGED scopes
      <3>1. PICK object \in Forms : scopes' = Append(scopes, object)
        <4>1. [kind |-> "transaction", seen |-> flight, id |-> started + 1] \in Forms
          BY DEF TransactionInv, ThreadTyped, Partition, Forms
        <4> QED BY <1>2, <2>3, <4>1 DEF TransactionConstruct, Push
      <3> QED BY <1>t, <2>1, <3>1, StreamStays DEF RowsHaveReader, IsStream
    <2> QED BY <2>2, <2>3
  <1>3. CASE TransactionDestroy
    <2>1. UNCHANGED status /\ scopes # <<>> /\ Pop /\ ~IsStream(Top)
      BY <1>3 DEF TransactionDestroy, connectionVars, IsStream
    <2> QED BY <1>t, <2>1, StreamStays DEF RowsHaveReader, IsStream
  <1>4. CASE UNCHANGED sessionVars
    BY <1>4 DEF RowsHaveReader, IsStream, sessionVars, queryVars, connectionVars
  <1> QED BY <1>1, <1>2, <1>3, <1>4 DEF SessionNext

\* What a query leaves unread (query.hpp): a result that was taken is read to its end,
\* whatever exceptions pass, and without an exception none is left behind the code
\* that asked for it, wherever the query was moved, but one that nobody took.
THEOREM OnlyLastIsForgotten == SessionSpec => []OnlyLastForgotten
  <1> DEFINE Inv == TransactionInv /\ ReadersKnow /\ RowsHaveReader
  <1>1. SessionInit => Inv
    BY TransactionInitInv DEF SessionInit, QueryInit, ReadersKnow, RowsHaveReader
  <1>2. Inv /\ [SessionNext]_sessionVars => Inv'
    BY SessionStep, ReadersSessionStep, RowsSessionStep
  <1>3. Inv => OnlyLastForgotten
    BY DEF ReadersKnow, RowsHaveReader, OnlyLastForgotten
  <1> QED BY <1>1, <1>2, <1>3, PTL DEF SessionSpec

-----------------------------------------------------------------------------
(* The types.                                                               *)

\* A set of natural numbers has a least element.
LEMMA LeastNatural ==
  ASSUME NEW S \in SUBSET Nat, S # {}
  PROVE  \E n \in S : \A m \in S : n <= m
  <1>1. PICK n \in S : \A m \in S : <<m, n>> \notin OpToRel(<, Nat)
    BY NatLessThanWellFounded, WFMin
  <1>2. \A m \in S : <<m, n>> \in Nat \X Nat
    OBVIOUS
  <1>3. \A m \in S : ~(m < n)
    BY <1>1, <1>2 DEF OpToRel
  <1> QED BY <1>3

\* What the server answers to a batch starts with the answer to its first statement.
LEMMA ResultsType ==
  ASSUME NEW batch \in Batches
  PROVE  /\ Head(batch) \in Statements
         /\ Tail(Results(batch)) \in Seq(Statements)
  <1> DEFINE S == {"rows", "ok", "error"}
             errors == {i \in DOMAIN batch : batch[i] = "error"}
  <1>1. batch \in Seq(S) /\ batch # <<>>
    BY QueryAssumption DEF QueryAssumption
  <1>2. S \subseteq Statements
    BY DEF Statements
  <1> HIDE DEF S
  <1>3. Head(batch) \in S
    BY <1>1
  <1>4. Results(batch) \in Seq(S) /\ Results(batch) # <<>>
    <2>1. CASE errors = {}
      BY <1>1, <2>1 DEF Results
    <2>2. CASE errors # {}
      <3>1. errors \in SUBSET Nat /\ errors \subseteq DOMAIN batch
        BY <1>1
      <3>2. PICK k \in errors : k = CHOOSE i \in errors : \A j \in errors : i <= j
        BY <2>2, <3>1, LeastNatural
      <3>3. Results(batch) = SubSeq(batch, 1, k)
        BY <2>2, <3>2 DEF Results
      <3>4. k \in 1 .. Len(batch) /\ Len(batch) \in Nat
        BY <1>1, <3>1
      <3>5. SubSeq(batch, 1, k) \in Seq(S) /\ DOMAIN SubSeq(batch, 1, k) = 1 .. k
        BY <1>1, <3>4
      <3> QED BY <3>3, <3>4, <3>5
    <2> QED BY <2>1, <2>2
  <1>5. Tail(Results(batch)) \in Seq(S)
    BY <1>4
  <1> QED BY <1>2, <1>3, <1>5

\* The types that nothing else depends on.
SessionTyped ==
  /\ status \in {"ready", "result", "use"}
  /\ more \in Seq(Statements)
  /\ Len(scopes) <= MaxScope
  /\ thrown \in BOOLEAN

\* Without its last element a sequence is one shorter.
LEMMA FrontLength ==
  ASSUME NEW s \in Seq(Forms), s # <<>>
  PROVE  Len(Front(s)) = Len(s) - 1
  <1> DEFINE n == Len(s)
             f == Front(s)
  <1>1. n \in Nat \ {0}
    OBVIOUS
  <1>2. f = SubSeq(s, 1, n - 1)
    BY DEF Front
  <1> HIDE DEF f
  <1>3. f \in Seq(Forms) /\ DOMAIN f = 1 .. n - 1
    BY <1>1, <1>2
  <1>4. Len(f) = n - 1
    BY <1>1, <1>3
  <1> QED BY <1>4 DEF f

\* No step builds an object where there is no room.
LEMMA ScopesBounded ==
  ASSUME ThreadTyped, Len(scopes) <= MaxScope,
         QueryStep \/ TransactionDestroy
           \/ \E isolationLevel \in BOOLEAN : TransactionConstruct(isolationLevel)
  PROVE  Len(scopes') <= MaxScope
  <1>t. scopes \in Seq(Forms) /\ Len(scopes) \in Nat /\ MaxScope \in Nat
    BY QueryAssumption DEF ThreadTyped, QueryAssumption
  <1>1. ASSUME NEW object, Len(scopes) < MaxScope, scopes' = Append(scopes, object)
        PROVE  Len(scopes') <= MaxScope
    BY <1>t, <1>1, AppendProperties
  <1>2. ASSUME NEW object, NEW i, scopes' = [scopes EXCEPT ![i] = object]
        PROVE  Len(scopes') <= MaxScope
    BY <1>t, <1>2
  <1>3. ASSUME scopes # <<>>, Pop PROVE Len(scopes') <= MaxScope
    <2>1. Len(Front(scopes)) = Len(scopes) - 1
      BY <1>t, <1>3, FrontLength
    <2> QED BY <1>3, <1>t, <2>1 DEF Pop
  <1>4. ASSUME NEW i, MoveQuery(i) PROVE Len(scopes') <= MaxScope
    <2>1. PICK s : /\ s = [scopes EXCEPT ![i].executed = FALSE]
                   /\ scopes' = Append(s, scopes[i])
      BY <1>4 DEF MoveQuery
    <2>2. Len(s) = Len(scopes)
      BY <1>t, <2>1
    <2> QED BY <1>t, <1>4, <2>1, <2>2 DEF MoveQuery, Room
  <1> QED
    BY <1>t, <1>1, <1>2, <1>3, <1>4
    DEF QueryStep, UserThrows, MakeGuard, MakeQuery, EndScope, DestroyQuery, DestroyResult,
        DestroyGuard, LeaveBody, Catch, QueryExecute, NextResult, TakeResult, FetchLast,
        Push, Room, TransactionDestroy, TransactionConstruct

\* The connection's state keeps its types.
LEMMA SessionTypedStep ==
  ASSUME TransactionInv, SessionTyped, [SessionNext]_sessionVars
  PROVE  SessionTyped'
  <1>1. CASE UNCHANGED sessionVars
    BY <1>1 DEF SessionTyped, sessionVars, queryVars, connectionVars, threadVars
  <1>2. ASSUME NEW result \in Statements PROVE StatusAfter(result) \in {"ready", "result", "use"}
    BY DEF StatusAfter
  <1>3. ASSUME more # <<>> PROVE Head(more) \in Statements /\ Tail(more) \in Seq(Statements)
    BY <1>3 DEF SessionTyped
  <1>4. CASE SessionNext
    <2>1. Len(scopes') <= MaxScope
      BY <1>4, ScopesBounded DEF SessionNext, TransactionInv, SessionTyped
    <2>2. thrown' \in {thrown, TRUE}
      <3>1. Raise \/ Calm \/ (\E fails : RaiseIf(fails)) => thrown' \in {thrown, TRUE}
        BY DEF RaiseIf, Raise, Calm, threadVars
      <3>2. ASSUME NEW isolationLevel, TransactionConstruct(isolationLevel)
            PROVE  thrown' \in {thrown, TRUE}
        BY <3>1, <3>2 DEF TransactionConstruct
      <3>3. TransactionDestroy => thrown' \in {thrown, TRUE}
        BY <3>1 DEF TransactionDestroy, Rollback, Commit
      <3>4. EndScope => thrown' \in {thrown, TRUE}
        BY <3>1 DEF EndScope, DestroyQuery, DestroyResult, DestroyGuard, LeaveBody
      <3>5. ASSUME NEW i, NEW choice, NextResult(i, choice) \/ TakeResult(i, choice)
                                        \/ FetchLast(i, choice)
            PROVE  thrown' \in {thrown, TRUE}
        BY <3>1, <3>5 DEF NextResult, DriverNextResult, TakeResult, FetchLast
      <3>6. ASSUME NEW i, NEW batch, MoveQuery(i) \/ QueryExecute(i, batch)
            PROVE  thrown' \in {thrown, TRUE}
        BY <3>1, <3>6 DEF MoveQuery, QueryExecute, threadVars
      <3>7. UserThrows \/ MakeGuard \/ MakeQuery \/ Catch => thrown' \in {thrown, TRUE}
        BY <3>1 DEF UserThrows, MakeGuard, MakeQuery, Catch, threadVars
      <3> QED
        BY <1>4, <3>2, <3>3, <3>4, <3>5, <3>6, <3>7 DEF SessionNext, QueryStep
    <2>3. ASSUME NEW batch \in Batches, RealQuery(batch)
          PROVE  status' \in {"ready", "result", "use"} /\ more' \in Seq(Statements)
      BY <1>2, <2>3, ResultsType DEF RealQuery, SessionTyped, connectionVars
    <2>4. ASSUME NEW orFail, DriverNextResult(orFail)
          PROVE  status' \in {"ready", "result", "use"} /\ more' \in Seq(Statements)
      BY <1>2, <1>3, <2>4 DEF DriverNextResult, hasMoreResults, SessionTyped, connectionVars
    <2>5. status' \in {"ready", "result", "use"} /\ more' \in Seq(Statements)
      BY <1>4, <2>3, <2>4
      DEF SessionTyped, SessionNext, QueryStep, UserThrows, MakeGuard, MakeQuery, EndScope,
          DestroyQuery, DestroyResult, DestroyGuard, LeaveBody, Catch, MoveQuery,
          QueryExecute, NextResult, TakeResult, DriverTake, FetchLast, TransactionDestroy,
          TransactionConstruct, connectionVars
    <2> QED BY <2>1, <2>2, <2>5 DEF SessionTyped
  <1> QED BY <1>1, <1>4

\* From how scopes nest, the bounds of what is counted.
LEMMA NestedTypes ==
  ASSUME TransactionInv, NeverTerminates, SessionTyped
  PROVE  TransactionTypeOK
  <1>1. /\ scopes \in Seq(Forms) /\ Len(scopes) \in Nat /\ Len(scopes) <= MaxScope
        /\ MaxScope \in Nat /\ DOMAIN scopes = 1 .. Len(scopes)
    BY QueryAssumption DEF TransactionInv, ThreadTyped, SessionTyped, QueryAssumption
  <1>2. PICK level : Levels(level, scopes) /\ InFlight(level[Len(scopes)])
    BY DEF TransactionInv, Nested, NeverTerminates
  <1>3. flight \in 0 .. MaxScope + 1
    <2>1. level[Len(scopes)] \in Nat /\ level[Len(scopes)] <= Len(scopes)
      BY <1>1, <1>2, LevelIsNat
    <2> QED BY <1>1, <1>2, <2>1 DEF InFlight
  <1>4. ASSUME NEW i \in DOMAIN scopes PROVE scopes[i] \in Objects
    <2>1. scopes[i] \in Forms
      BY <1>1
    <2>2. level[i - 1] \in Nat /\ Remembers(scopes[i], level[i - 1])
      <3>1. i \in 1 .. Len(scopes) /\ i - 1 \in 0 .. Len(scopes)
        BY <1>1
      <3> QED BY <1>1, <1>2, <3>1, LevelIsNat DEF Levels
    <2>3. CASE scopes[i].kind = "query"
      <3>1. scopes[i] \in [kind : {"query"}, seen : Int, executed : BOOLEAN]
        BY <2>1, <2>3, ObjectForms
      <3>2. scopes[i].seen \in Nat
        BY <2>2, <2>3 DEF Remembers
      <3>3. scopes[i] \in [kind : {"query"}, seen : Nat, executed : BOOLEAN]
        BY <3>1, <3>2
      <3> QED BY <3>3 DEF Objects
    <2>4. CASE scopes[i].kind = "transaction"
      <3>1. scopes[i] \in [kind : {"transaction"}, seen : Int, id : Nat]
        BY <2>1, <2>4, ObjectForms
      <3>2. scopes[i].seen \in Nat
        BY <2>2, <2>4 DEF Remembers, IsTransaction
      <3>3. scopes[i] \in [kind : {"transaction"}, seen : Nat, id : Nat]
        BY <3>1, <3>2
      <3> QED BY <3>3 DEF Objects
    <2>5. CASE scopes[i].kind \notin {"query", "transaction"}
      BY <2>1, <2>5 DEF Forms, Objects, Modes
    <2> QED BY <2>3, <2>4, <2>5
  <1>5. scopes \in Seq(Objects)
    BY <1>1, <1>4
  <1>6. QueryTypeOK
    BY <1>1, <1>3, <1>5 DEF QueryTypeOK, SessionTyped, TransactionInv, ThreadTyped
  <1>7. Partition
    BY DEF TransactionInv
  <1> QED BY <1>6, <1>7 DEF TransactionTypeOK, Partition

\* What the types of the session follow from.
SessionInv == TransactionInv /\ NeverTerminates /\ SessionTyped

LEMMA SessionInvInit == SessionInit => SessionInv
  <1> SUFFICES ASSUME SessionInit PROVE SessionInv
    OBVIOUS
  <1>1. SessionTyped
    <2>1. more = <<>> /\ status = "ready" /\ thrown = FALSE
      BY DEF SessionInit, QueryInit
    <2>2. more \in Seq(Statements)
      BY <2>1
    <2>3. Len(scopes) = 0
      BY DEF SessionInit, QueryInit
    <2>4. Len(scopes) <= MaxScope
      BY <2>3, QueryAssumption DEF QueryAssumption
    <2>5. thrown \in BOOLEAN
      BY <2>1
    <2> QED BY <2>1, <2>2, <2>4, <2>5 DEF SessionTyped
  <1>2. NeverTerminates
    BY DEF SessionInit, QueryInit, NeverTerminates
  <1> QED BY <1>1, <1>2, TransactionInitInv DEF SessionInv

LEMMA SessionInvStep == SessionInv /\ [SessionNext]_sessionVars => SessionInv'
  BY SessionStep, NeverTerminatesStep, SessionTypedStep DEF SessionInv

\* The types of the session: at most one exception for each scope, and one more, is in
\* flight, and what an object remembers is a number of exceptions.
THEOREM SessionTypes == SessionSpec => []TransactionTypeOK
  <1>1. SessionInv => TransactionTypeOK
    BY NestedTypes DEF SessionInv
  <1> QED BY <1>1, SessionInvInit, SessionInvStep, PTL DEF SessionSpec
=============================================================================
