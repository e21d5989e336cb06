------------------------------ MODULE Nullable ------------------------------
(***************************************************************************)
(* types/nullable.hpp: a value that may be missing, in a union whose       *)
(* lifetime the class manages by hand.  Two flags say what there is:       *)
(* `engaged' (the payload was constructed) and `null' (SQL NULL).          *)
(***************************************************************************)
EXTENDS Integers

CONSTANTS
  Nullables,       \* the objects of one type Nullable<T>
  Payloads,        \* values of T: numbers, since T is ordered
  Nothing,         \* what an object without a value shows
  Unspecified,     \* the payload of a moved-from object, or of raw memory
  DisengagedPairs  \* whether two disengaged objects are swapped or assigned

ASSUME NullableAssumption ==
  /\ Payloads \subseteq Nat
  /\ {Nothing, Unspecified} \cap Payloads = {}
  /\ Nothing # Unspecified
  /\ DisengagedPairs \in BOOLEAN

VARIABLES
  trivial,  \* std::is_trivially_destructible<T>, fixed for a type
  object,   \* each object: its flags, its payload and, as a history, how many
            \* payloads were constructed in it and not destroyed
  called    \* history: the last call and its operands

nullableVars == <<trivial, object, called>>

Objects ==
  [engaged : BOOLEAN, null : BOOLEAN, payload : Payloads \cup {Unspecified}, lifetimes : Int]

NullableTypeOK ==
  /\ trivial \in BOOLEAN
  /\ object \in [Nullables -> Objects]

\* Nullable() and Nullable(DisengagedOption).
Disengaged == [engaged |-> FALSE, null |-> TRUE, payload |-> Unspecified, lifetimes |-> 0]

NullableInit ==
  /\ trivial \in BOOLEAN
  /\ object = [x \in Nullables |-> Disengaged]
  /\ called = <<"none">>

-----------------------------------------------------------------------------
(* The members that the others are made of, on the record of an object.     *)
(* The lifetime of a trivially destructible payload needs no counting.      *)

payload(x) == object[x].payload
isValid(x) == object[x].engaged /\ ~object[x].null

constructPayload(o, v) ==
  [o EXCEPT !.engaged = TRUE, !.payload = v, !.lifetimes = IF trivial THEN @ ELSE @ + 1]

destroyPayload(o) ==
  [o EXCEPT !.engaged = FALSE,
            !.payload = IF trivial THEN @ ELSE Unspecified,
            !.lifetimes = IF trivial THEN @ ELSE @ - 1]

\* Nothing at all is done to a trivially destructible payload.
destroyPayloadIfEngaged(o) == IF ~trivial /\ o.engaged THEN destroyPayload(o) ELSE o

\* Fault: a new payload is constructed over one that is alive.
AlwaysConstruct(o, v) == constructPayload(o, v)

\* The assignment of T, or the construction when there is nothing to assign to.
AssignOrConstruct(o, v) == IF o.engaged THEN [o EXCEPT !.payload = v] ELSE constructPayload(o, v)

\* The payload after it was moved from.
MovedFrom(o) == IF o.engaged /\ ~trivial THEN [o EXCEPT !.payload = Unspecified] ELSE o

\* A new object in the place of the old one, which the destructor left.
New(x) == IF trivial THEN Disengaged ELSE [Disengaged EXCEPT !.lifetimes =
                            destroyPayloadIfEngaged(object[x]).lifetimes]

\* Of two disengaged objects one is destroyed again by an assignment, and filled
\* from raw memory by a swap.
Usable(x, y) == object[x].engaged \/ object[y].engaged \/ DisengagedPairs

Calls(call, objects) == object' = objects /\ called' = call /\ UNCHANGED trivial

-----------------------------------------------------------------------------

\* Construction from a value, in place, and by makeNullable().
ConstructValue(x, v) ==
  Calls(<<"set", x, v>>,
        [object EXCEPT ![x] = [constructPayload(New(x), v) EXCEPT !.null = FALSE]])

\* operator=(U&&)
AssignValue(x, v) ==
  Calls(<<"set", x, v>>,
        [object EXCEPT ![x] = [AssignOrConstruct(@, v) EXCEPT !.null = FALSE]])

emplace(x, v) ==
  Calls(<<"set", x, v>>,
        [object EXCEPT ![x] =
           constructPayload([destroyPayloadIfEngaged(@) EXCEPT !.null = FALSE], v)])

\* operator=(DisengagedOption)
AssignDisengaged(x) ==
  Calls(<<"clear", x>>,
        [object EXCEPT ![x] = [destroyPayloadIfEngaged(@) EXCEPT !.null = TRUE]])

ConstructDisengaged(x) == Calls(<<"clear", x>>, [object EXCEPT ![x] = New(x)])

\* The copy and move constructors take both flags over.
ConstructFrom(x, other) ==
  IF other.engaged
  THEN [constructPayload(New(x), other.payload) EXCEPT !.null = other.null]
  ELSE [New(x) EXCEPT !.null = other.null]

\* Fault: the flag of SQL NULL is not copied.
AssignPayloadOnly(o, other) ==
  IF other.engaged THEN [AssignOrConstruct(o, other.payload) EXCEPT !.null = FALSE]
  ELSE [destroyPayload(o) EXCEPT !.null = TRUE]

\* operator=(const Nullable&) and operator=(Nullable&&): a disengaged object is
\* destroyed again when the other one is disengaged too.
AssignFrom(o, other) ==
  IF other.engaged THEN [AssignOrConstruct(o, other.payload) EXCEPT !.null = other.null]
  ELSE [destroyPayload(o) EXCEPT !.null = TRUE]

Copy(x, y) ==
  /\ x # y
  /\ \E copy \in {ConstructFrom(x, object[y])}
               \cup (IF trivial \/ Usable(x, y) THEN {AssignFrom(object[x], object[y])} ELSE {}) :
       Calls(<<"copy", x, y>>, [object EXCEPT ![x] = copy])

Move(x, y) ==
  /\ x # y
  /\ \E moved \in {ConstructFrom(x, object[y])}
                \cup (IF trivial \/ Usable(x, y) THEN {AssignFrom(object[x], object[y])} ELSE {}) :
       Calls(<<"move", x, y>>, [object EXCEPT ![x] = moved, ![y] = MovedFrom(@)])

disengage(x) ==
  Calls(<<"flag", x>>, [object EXCEPT ![x] = [destroyPayloadIfEngaged(@) EXCEPT !.null = FALSE]])

unsetNull(x) == Calls(<<"flag", x>>, [object EXCEPT ![x].null = FALSE])

setNull(x) == object[x].engaged /\ Calls(<<"flag", x>>, [object EXCEPT ![x].null = TRUE])

\* The second and third branch of swap(): the payload of `from' is moved into
\* `to', and destroyed.
MoveInto(to, from) ==
  [object EXCEPT
     ![to] = [constructPayload(@, payload(from)) EXCEPT !.null = object[from].null],
     ![from] = [destroyPayload(@) EXCEPT !.null = FALSE]]

swap(x, y) ==
  /\ x # y
  /\ Usable(x, y)
  /\ Calls(<<"swap", x, y>>,
       IF object[x].engaged /\ object[y].engaged
       THEN [object EXCEPT
               ![x].payload = payload(y), ![x].null = object[y].null,
               ![y].payload = payload(x), ![y].null = object[x].null]
       ELSE IF object[x].engaged THEN MoveInto(y, x) ELSE MoveInto(x, y))

\* InitializeResultItem: operator=(Nullable&&) from Nullable{inPlace}, which
\* holds T{}.
InitializeResultItem(x) ==
  \E v \in Payloads :
    Calls(<<"set", x, v>>,
          [object EXCEPT ![x] = [AssignOrConstruct(@, v) EXCEPT !.null = FALSE]])

\* A fetch writes through detail_getPayloadRef() and detail_getNullRef(), and
\* engageNullables() calls engage() unless the flag is set.  A payload that has
\* a destructor was constructed before it was bound.
Fetched(x, v) ==
  /\ trivial \/ object[x].engaged
  /\ Calls(<<"fetch", x, v>>,
       [object EXCEPT ![x] =
          IF v = Nothing THEN [@ EXCEPT !.null = TRUE]
          ELSE [@ EXCEPT !.payload = v, !.null = FALSE, !.engaged = TRUE]])

NullableNext ==
  \/ \E x \in Nullables :
       \/ AssignDisengaged(x) \/ ConstructDisengaged(x) \/ InitializeResultItem(x)
       \/ disengage(x) \/ unsetNull(x) \/ setNull(x)
       \/ \E v \in Payloads : ConstructValue(x, v) \/ AssignValue(x, v) \/ emplace(x, v)
       \/ \E v \in Payloads \cup {Nothing} : Fetched(x, v)
  \/ \E x, y \in Nullables : Copy(x, y) \/ Move(x, y) \/ swap(x, y)

NullableSpec == NullableInit /\ [][NullableNext]_nullableVars

-----------------------------------------------------------------------------
(* Observers and comparisons.  The first family compares two objects, the   *)
(* second one object with the missing value, the third one with a value.    *)
(* Every != is the negation of its ==, and > and >= turn < and <= round.    *)

\* value() throws.
ValueThrows(x) == ~isValid(x)
valueOr(x, v) == IF isValid(x) THEN payload(x) ELSE v

EqualTo(x, y) == isValid(x) = isValid(y) /\ (~isValid(x) \/ payload(x) = payload(y))

\* Fault: a missing value is less than a missing value.
LessThanNull(x, y) == ~isValid(x) \/ (isValid(y) /\ payload(x) < payload(y))

LessThan(x, y) == isValid(y) /\ (~isValid(x) \/ payload(x) < payload(y))
AtMost(x, y) == ~LessThan(y, x)

EqualToNothing(x) == ~isValid(x)
LessThanNothing(x) == FALSE
NothingLessThan(x) == isValid(x)
AtMostNothing(x) == ~isValid(x)
NothingAtMost(x) == TRUE

EqualToValue(x, v) == isValid(x) /\ payload(x) = v
LessThanValue(x, v) == ~isValid(x) \/ payload(x) < v
ValueLessThan(v, x) == isValid(x) /\ v < payload(x)
AtMostValue(x, v) == ~isValid(x) \/ ~(v < payload(x))
ValueAtMost(v, x) == isValid(x) /\ ~(payload(x) < v)

-----------------------------------------------------------------------------

\* What the object x shows.
Shows(x) == IF ValueThrows(x) THEN Nothing ELSE valueOr(x, Nothing)

Optional == INSTANCE OptionalContract WITH val <- [x \in Nullables |-> Shows(x)]

\* A Nullable shows what an optional value would show after the same calls,
\* whatever the branches of its assignments and of swap() do with the two flags.
ImplementsOptional == Optional!OptionalSpec

\* The payload of an object is constructed once before it is used and destroyed
\* once, although placement new and the destructor are called by hand.
Balanced ==
  ~trivial => \A x \in Nullables : object[x].lifetimes = IF object[x].engaged THEN 1 ELSE 0

\* The three families of operators are one order: an object without a value
\* compares as the missing value does, and one with a value as its value does.
ComparisonsAgree ==
  \A x, y \in Nullables :
    /\ ~isValid(y) =>
         /\ EqualTo(x, y) = EqualToNothing(x)
         /\ LessThan(x, y) = LessThanNothing(x)
         /\ LessThan(y, x) = NothingLessThan(x)
         /\ AtMost(x, y) = AtMostNothing(x)
         /\ AtMost(y, x) = NothingAtMost(x)
    /\ isValid(y) /\ Unspecified \notin {payload(x), payload(y)} =>
         /\ EqualTo(x, y) = EqualToValue(x, payload(y))
         /\ LessThan(x, y) = LessThanValue(x, payload(y))
         /\ LessThan(y, x) = ValueLessThan(payload(y), x)
         /\ AtMost(x, y) = AtMostValue(x, payload(y))
         /\ AtMost(y, x) = ValueAtMost(payload(y), x)
=============================================================================
