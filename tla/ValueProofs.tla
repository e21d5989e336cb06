----------------------------- MODULE ValueProofs -----------------------------
(***************************************************************************)
(* Proofs about the values that a statement or a row carries: Nullable,    *)
(* for any objects and any ordered type of values, the orders of Time, Date*)
(* and Datetime, for all values of the fields, and the converters, for     *)
(* texts of any length.                                                    *)
(***************************************************************************)
EXTENDS Nullable, Temporal, Converters, InductionOverSets

-----------------------------------------------------------------------------
(* Nullable.                                                                *)

\* An object with a value, and none.
ObjectShows(o) == IF o.engaged /\ ~o.null THEN o.payload ELSE Nothing

\* A payload is constructed.
LEMMA ConstructFields ==
  ASSUME NullableTypeOK, NEW o \in Objects, NEW v \in Payloads \cup {Unspecified}
  PROVE  /\ constructPayload(o, v) \in Objects
         /\ constructPayload(o, v).engaged = TRUE
         /\ constructPayload(o, v).null = o.null
         /\ constructPayload(o, v).payload = v
         /\ constructPayload(o, v).lifetimes = IF trivial THEN o.lifetimes ELSE o.lifetimes + 1
  <1> DEFINE l == IF trivial THEN o.lifetimes ELSE o.lifetimes + 1
  <1>1. l \in Int
    BY DEF Objects
  <1>2. constructPayload(o, v) = [o EXCEPT !.engaged = TRUE, !.payload = v, !.lifetimes = l]
    BY DEF constructPayload
  <1> HIDE DEF l
  <1>3. constructPayload(o, v) \in Objects
    BY <1>1, <1>2 DEF Objects
  <1>4. constructPayload(o, v).lifetimes = l
    BY <1>2 DEF Objects
  <1> QED BY <1>2, <1>3, <1>4 DEF Objects, l

\* A payload is destroyed, if its type has something to destroy.
LEMMA DestroyFields ==
  ASSUME NullableTypeOK, NEW o \in Objects
  PROVE  /\ destroyPayload(o) \in Objects
         /\ destroyPayload(o).engaged = FALSE
         /\ destroyPayload(o).null = o.null
         /\ destroyPayload(o).lifetimes = IF trivial THEN o.lifetimes ELSE o.lifetimes - 1
  <1> DEFINE l == IF trivial THEN o.lifetimes ELSE o.lifetimes - 1
             p == IF trivial THEN o.payload ELSE Unspecified
  <1>1. l \in Int /\ p \in Payloads \cup {Unspecified}
    BY DEF Objects
  <1>2. destroyPayload(o) = [o EXCEPT !.engaged = FALSE, !.payload = p, !.lifetimes = l]
    BY DEF destroyPayload
  <1> HIDE DEF l, p
  <1>3. destroyPayload(o) \in Objects
    BY <1>1, <1>2 DEF Objects
  <1>4. destroyPayload(o).lifetimes = l
    BY <1>2 DEF Objects
  <1> QED BY <1>2, <1>3, <1>4 DEF Objects, l

\* The members that the others are made of give objects.
LEMMA MembersType ==
  ASSUME NullableTypeOK, NEW o \in Objects, NEW v \in Payloads \cup {Unspecified}
  PROVE  /\ constructPayload(o, v) \in Objects
         /\ destroyPayload(o) \in Objects
         /\ destroyPayloadIfEngaged(o) \in Objects
         /\ AssignOrConstruct(o, v) \in Objects
         /\ MovedFrom(o) \in Objects
         /\ Disengaged \in Objects
  <1>1. constructPayload(o, v) \in Objects
    BY ConstructFields
  <1>2. destroyPayload(o) \in Objects
    BY DestroyFields
  <1>3. Disengaged \in Objects
    BY DEF Objects, Disengaged
  <1>4. MovedFrom(o) \in Objects
    BY DEF Objects, MovedFrom
  <1>5. AssignOrConstruct(o, v) \in Objects
    BY <1>1 DEF Objects, AssignOrConstruct
  <1> QED BY <1>1, <1>2, <1>3, <1>4, <1>5 DEF destroyPayloadIfEngaged

\* A new object is one, and so is a copy or an assigned one.
LEMMA CopiesType ==
  ASSUME NullableTypeOK, NEW x \in Nullables, NEW y \in Nullables
  PROVE  /\ New(x) \in Objects
         /\ ConstructFrom(x, object[y]) \in Objects
         /\ AssignFrom(object[x], object[y]) \in Objects
  <1>1. object[x] \in Objects /\ object[y] \in Objects
    BY DEF NullableTypeOK
  <1>2. object[y].payload \in Payloads \cup {Unspecified} /\ object[y].null \in BOOLEAN
    BY <1>1 DEF Objects
  <1>3. New(x) \in Objects
    <2>1. destroyPayloadIfEngaged(object[x]) \in Objects /\ Disengaged \in Objects
      BY <1>1, <1>2, MembersType
    <2> QED BY <2>1 DEF New, Objects
  <1>4. constructPayload(New(x), object[y].payload) \in Objects
    BY <1>2, <1>3, MembersType
  <1>5. /\ AssignOrConstruct(object[x], object[y].payload) \in Objects
        /\ destroyPayload(object[x]) \in Objects
    BY <1>1, <1>2, MembersType
  <1>6. ConstructFrom(x, object[y]) \in Objects
    BY <1>2, <1>3, <1>4 DEF ConstructFrom, Objects
  <1>7. AssignFrom(object[x], object[y]) \in Objects
    BY <1>2, <1>5 DEF AssignFrom, Objects
  <1> QED BY <1>3, <1>6, <1>7

-----------------------------------------------------------------------------
(* Every call is one of three forms of change.                              *)

\* The results that the calls can leave in an object x.
Given(x, v) ==
  {[constructPayload(New(x), v) EXCEPT !.null = FALSE],
   [AssignOrConstruct(object[x], v) EXCEPT !.null = FALSE],
   constructPayload([destroyPayloadIfEngaged(object[x]) EXCEPT !.null = FALSE], v)}

Emptied(x) == {[destroyPayloadIfEngaged(object[x]) EXCEPT !.null = TRUE], New(x)}

Copied(x, y) ==
  {ConstructFrom(x, object[y])}
    \cup (IF trivial \/ Usable(x, y) THEN {AssignFrom(object[x], object[y])} ELSE {})

\* A value that is given is shown.
LEMMA GivenShows ==
  ASSUME NullableTypeOK, NEW x \in Nullables, NEW v \in Payloads, NEW r \in Given(x, v)
  PROVE  r \in Objects /\ ObjectShows(r) = v /\ r.engaged
  <1>1. object[x] \in Objects /\ New(x) \in Objects
    BY CopiesType DEF NullableTypeOK
  <1>2. /\ destroyPayloadIfEngaged(object[x]) \in Objects
        /\ constructPayload(New(x), v) \in Objects
        /\ AssignOrConstruct(object[x], v) \in Objects
    BY <1>1, MembersType
  <1>3. CASE r = [constructPayload(New(x), v) EXCEPT !.null = FALSE]
    BY <1>1, <1>2, <1>3 DEF constructPayload, Objects, ObjectShows
  <1>4. CASE r = [AssignOrConstruct(object[x], v) EXCEPT !.null = FALSE]
    <2>1. /\ AssignOrConstruct(object[x], v).engaged = TRUE
          /\ AssignOrConstruct(object[x], v).payload = v
      <3>1. CASE object[x].engaged
        BY <1>1, <3>1 DEF AssignOrConstruct, Objects
      <3>2. CASE ~object[x].engaged
        BY <1>1, <3>2, ConstructFields DEF AssignOrConstruct
      <3> QED BY <3>1, <3>2
    <2> DEFINE a == AssignOrConstruct(object[x], v)
    <2> HIDE DEF a
    <2>2. a \in Objects /\ a.engaged = TRUE /\ a.payload = v /\ r = [a EXCEPT !.null = FALSE]
      BY <1>2, <1>4, <2>1 DEF a
    <2> QED BY <2>2 DEF Objects, ObjectShows
  <1>5. CASE r = constructPayload([destroyPayloadIfEngaged(object[x]) EXCEPT !.null = FALSE], v)
    <2>1. [destroyPayloadIfEngaged(object[x]) EXCEPT !.null = FALSE] \in Objects
      BY <1>2 DEF Objects
    <2>2. /\ r \in Objects /\ r.engaged = TRUE /\ r.payload = v
          /\ r.null = [destroyPayloadIfEngaged(object[x]) EXCEPT !.null = FALSE].null
      BY <1>5, <2>1, ConstructFields
    <2>3. r.null = FALSE
      BY <1>2, <2>2 DEF Objects
    <2> QED BY <2>2, <2>3 DEF ObjectShows
  <1> QED BY <1>3, <1>4, <1>5 DEF Given

\* A cleared object shows nothing.
LEMMA EmptiedShows ==
  ASSUME NullableTypeOK, NEW x \in Nullables, NEW r \in Emptied(x)
  PROVE  r \in Objects /\ ObjectShows(r) = Nothing
  <1>1. object[x] \in Objects /\ New(x) \in Objects
    BY CopiesType DEF NullableTypeOK
  <1>2. destroyPayloadIfEngaged(object[x]) \in Objects
    <2>1. object[x].payload \in Payloads \cup {Unspecified}
      BY <1>1 DEF Objects
    <2> QED BY <1>1, <2>1, MembersType
  <1>3. New(x).engaged = FALSE
    BY DEF New, Disengaged
  <1> QED BY <1>1, <1>2, <1>3 DEF Emptied, Objects, ObjectShows

\* A copy shows what the original shows.
LEMMA CopiedShows ==
  ASSUME NullableTypeOK, NEW x \in Nullables, NEW y \in Nullables, NEW r \in Copied(x, y)
  PROVE  r \in Objects /\ ObjectShows(r) = ObjectShows(object[y])
  <1>1. object[x] \in Objects /\ object[y] \in Objects /\ New(x) \in Objects
    BY CopiesType DEF NullableTypeOK
  <1>2. r \in Objects
    BY CopiesType DEF Copied
  <1>3. New(x).engaged = FALSE
    BY DEF New, Disengaged
  <1>4. object[y].payload \in Payloads \cup {Unspecified} /\ object[y].null \in BOOLEAN
    BY <1>1 DEF Objects
  <1>5. CASE r = ConstructFrom(x, object[y])
    <2>1. CASE object[y].engaged
      <3> DEFINE c == constructPayload(New(x), object[y].payload)
      <3>1. c \in Objects /\ c.engaged = TRUE /\ c.payload = object[y].payload
        BY <1>1, <1>4, ConstructFields
      <3>2. r = [c EXCEPT !.null = object[y].null]
        BY <1>5, <2>1 DEF ConstructFrom
      <3> HIDE DEF c
      <3>3. r.engaged = TRUE /\ r.payload = object[y].payload /\ r.null = object[y].null
        BY <3>1, <3>2 DEF Objects
      <3> QED BY <1>2, <2>1, <3>3 DEF ObjectShows
    <2>2. CASE ~object[y].engaged
      <3>1. r = [New(x) EXCEPT !.null = object[y].null]
        BY <1>5, <2>2 DEF ConstructFrom
      <3>2. r.engaged = FALSE
        BY <1>1, <1>3, <3>1 DEF Objects
      <3> QED BY <1>2, <2>2, <3>2 DEF ObjectShows
    <2> QED BY <2>1, <2>2
  <1>6. CASE r = AssignFrom(object[x], object[y])
    <2>1. CASE object[y].engaged
      <3> DEFINE c == AssignOrConstruct(object[x], object[y].payload)
      <3>1. c \in Objects /\ c.engaged = TRUE /\ c.payload = object[y].payload
        <4>1. PICK v \in Payloads \cup {Unspecified} : v = object[y].payload
          BY <1>4
        <4>2. PICK o \in Objects : o = object[x]
          BY <1>1
        <4>3. AssignOrConstruct(o, v) \in Objects
          BY <4>1, <4>2, MembersType
        <4>4. CASE o.engaged
          <5>1. AssignOrConstruct(o, v) = [o EXCEPT !.payload = v]
            BY <4>4 DEF AssignOrConstruct
          <5>2. /\ [o EXCEPT !.payload = v].engaged = o.engaged
                /\ [o EXCEPT !.payload = v].payload = v
            BY DEF Objects
          <5> QED BY <4>1, <4>2, <4>3, <4>4, <5>1, <5>2 DEF Objects
        <4>5. CASE ~o.engaged
          <5>1. AssignOrConstruct(o, v) = constructPayload(o, v)
            BY <4>5 DEF AssignOrConstruct
          <5>2. constructPayload(o, v).engaged = TRUE /\ constructPayload(o, v).payload = v
            BY ConstructFields
          <5> QED BY <4>1, <4>2, <4>3, <5>1, <5>2
        <4> QED BY <4>4, <4>5
      <3>2. r = [c EXCEPT !.null = object[y].null]
        BY <1>6, <2>1 DEF AssignFrom
      <3> HIDE DEF c
      <3>3. r.engaged = TRUE /\ r.payload = object[y].payload /\ r.null = object[y].null
        BY <3>1, <3>2 DEF Objects
      <3> QED BY <1>2, <2>1, <3>3 DEF ObjectShows
    <2>2. CASE ~object[y].engaged
      <3>1. r = [destroyPayload(object[x]) EXCEPT !.null = TRUE]
        BY <1>6, <2>2 DEF AssignFrom
      <3>2. r.null = TRUE
        BY <1>1, <3>1, DestroyFields DEF Objects
      <3> QED BY <1>2, <2>2, <3>2 DEF ObjectShows
    <2> QED BY <2>1, <2>2
  <1> QED BY <1>2, <1>5, <1>6 DEF Copied

-----------------------------------------------------------------------------
(* Lifetimes.                                                               *)

\* The payload of an object is alive exactly when the object is engaged.
OneLifetime(o) == o.lifetimes = IF o.engaged THEN 1 ELSE 0

\* Destroying what is engaged and constructing what is not keep the lifetimes right.
LEMMA MembersBalanced ==
  ASSUME NullableTypeOK, ~trivial, NEW o \in Objects, OneLifetime(o),
         NEW v \in Payloads \cup {Unspecified}
  PROVE  /\ OneLifetime(destroyPayloadIfEngaged(o))
         /\ ~destroyPayloadIfEngaged(o).engaged
         /\ o.engaged => OneLifetime(destroyPayload(o))
         /\ ~o.engaged => OneLifetime(constructPayload(o, v))
         /\ OneLifetime(AssignOrConstruct(o, v))
         /\ OneLifetime(MovedFrom(o))
  <1>1. ASSUME o.engaged PROVE OneLifetime(destroyPayload(o))
    <2>1. o.lifetimes = 1
      BY <1>1 DEF OneLifetime
    <2>2. destroyPayload(o).engaged = FALSE /\ destroyPayload(o).lifetimes = o.lifetimes - 1
      BY DestroyFields
    <2>3. destroyPayload(o).lifetimes = 0
      BY <2>1, <2>2
    <2> QED BY <2>2, <2>3 DEF OneLifetime
  <1>2. ASSUME ~o.engaged PROVE OneLifetime(constructPayload(o, v))
    <2>1. o.lifetimes = 0
      BY <1>2 DEF OneLifetime
    <2>2. /\ constructPayload(o, v).engaged = TRUE
          /\ constructPayload(o, v).lifetimes = o.lifetimes + 1
      BY ConstructFields
    <2>3. constructPayload(o, v).lifetimes = 1
      BY <2>1, <2>2
    <2> QED BY <2>2, <2>3 DEF OneLifetime
  <1>3. OneLifetime(destroyPayloadIfEngaged(o)) /\ ~destroyPayloadIfEngaged(o).engaged
    BY <1>1, DestroyFields DEF destroyPayloadIfEngaged
  <1>4. OneLifetime(AssignOrConstruct(o, v))
    BY <1>2 DEF AssignOrConstruct, OneLifetime, Objects
  <1>5. OneLifetime(MovedFrom(o))
    BY DEF MovedFrom, OneLifetime, Objects
  <1> QED BY <1>1, <1>2, <1>3, <1>4, <1>5

\* The flag of SQL NULL has no part in it.
LEMMA NullBalanced ==
  ASSUME NEW o \in Objects, NEW b \in BOOLEAN
  PROVE  /\ [o EXCEPT !.null = b] \in Objects
         /\ OneLifetime(o) => OneLifetime([o EXCEPT !.null = b])
         /\ [o EXCEPT !.null = b].engaged = o.engaged
         /\ [o EXCEPT !.null = b].null = b
         /\ [o EXCEPT !.null = b].payload = o.payload
  BY DEF OneLifetime, Objects

\* A new object has no payload.
LEMMA NewBalanced ==
  ASSUME NullableTypeOK, Balanced, ~trivial, NEW x \in Nullables
  PROVE  OneLifetime(New(x)) /\ ~New(x).engaged /\ New(x) \in Objects
  <1>1. object[x] \in Objects /\ OneLifetime(object[x])
    BY DEF NullableTypeOK, Balanced, OneLifetime
  <1>2. object[x].payload \in Payloads \cup {Unspecified}
    BY <1>1 DEF Objects
  <1> DEFINE d == destroyPayloadIfEngaged(object[x])
  <1>3. d \in Objects /\ OneLifetime(d) /\ ~d.engaged /\ Disengaged \in Objects
    BY <1>1, <1>2, MembersBalanced, MembersType
  <1>4. d.lifetimes = 0
    BY <1>3 DEF OneLifetime
  <1>5. New(x) = [Disengaged EXCEPT !.lifetimes = d.lifetimes]
    BY DEF New
  <1> HIDE DEF d
  <1>6. New(x) \in Objects
    BY CopiesType
  <1> QED BY <1>4, <1>5, <1>6 DEF Disengaged, OneLifetime

\* An object is destroyed if it is engaged.
LEMMA DestroyedBalanced ==
  ASSUME NullableTypeOK, Balanced, ~trivial, NEW x \in Nullables
  PROVE  /\ destroyPayloadIfEngaged(object[x]) \in Objects
         /\ OneLifetime(destroyPayloadIfEngaged(object[x]))
         /\ ~destroyPayloadIfEngaged(object[x]).engaged
  <1>1. object[x] \in Objects /\ OneLifetime(object[x])
    BY DEF NullableTypeOK, Balanced, OneLifetime
  <1>2. object[x].payload \in Payloads \cup {Unspecified}
    BY <1>1 DEF Objects
  <1> QED BY <1>1, <1>2, MembersBalanced, MembersType

\* What is given, cleared or copied has its lifetimes right.
LEMMA GivenBalanced ==
  ASSUME NullableTypeOK, Balanced, ~trivial, NEW x \in Nullables, NEW v \in Payloads,
         NEW r \in Given(x, v)
  PROVE  OneLifetime(r)
  <1> DEFINE o == object[x]
             e == destroyPayloadIfEngaged(o)
  <1>1. o \in Objects /\ OneLifetime(o)
    BY DEF NullableTypeOK, Balanced, OneLifetime
  <1>2. OneLifetime(New(x)) /\ ~New(x).engaged /\ New(x) \in Objects
    BY NewBalanced
  <1>3. e \in Objects /\ OneLifetime(e) /\ ~e.engaged
    BY DestroyedBalanced
  <1> HIDE DEF o, e
  <1>4. CASE r = [constructPayload(New(x), v) EXCEPT !.null = FALSE]
    <2>1. constructPayload(New(x), v) \in Objects /\ OneLifetime(constructPayload(New(x), v))
      BY <1>2, MembersBalanced, MembersType
    <2> QED BY <1>4, <2>1, NullBalanced
  <1>5. CASE r = [AssignOrConstruct(o, v) EXCEPT !.null = FALSE]
    <2>1. AssignOrConstruct(o, v) \in Objects /\ OneLifetime(AssignOrConstruct(o, v))
      BY <1>1, MembersBalanced, MembersType
    <2> QED BY <1>5, <2>1, NullBalanced
  <1>6. CASE r = constructPayload([e EXCEPT !.null = FALSE], v)
    <2>1. /\ [e EXCEPT !.null = FALSE] \in Objects
          /\ OneLifetime([e EXCEPT !.null = FALSE])
          /\ ~[e EXCEPT !.null = FALSE].engaged
      BY <1>3, NullBalanced
    <2> QED BY <1>6, <2>1, MembersBalanced
  <1> QED BY <1>4, <1>5, <1>6 DEF Given, o, e

LEMMA EmptiedBalanced ==
  ASSUME NullableTypeOK, Balanced, ~trivial, NEW x \in Nullables, NEW r \in Emptied(x)
  PROVE  OneLifetime(r)
  <1> DEFINE e == destroyPayloadIfEngaged(object[x])
  <1>1. e \in Objects /\ OneLifetime(e) /\ OneLifetime(New(x))
    BY DestroyedBalanced, NewBalanced
  <1> HIDE DEF e
  <1> QED BY <1>1, NullBalanced DEF Emptied, e

LEMMA CopiedBalanced ==
  ASSUME NullableTypeOK, Balanced, ~trivial, ~DisengagedPairs,
         NEW x \in Nullables, NEW y \in Nullables, NEW r \in Copied(x, y)
  PROVE  OneLifetime(r)
  <1> DEFINE o == object[x]
  <1>1. o \in Objects /\ OneLifetime(o) /\ object[y] \in Objects
    BY DEF NullableTypeOK, Balanced, OneLifetime
  <1>2. /\ o.payload \in Payloads \cup {Unspecified}
        /\ object[y].payload \in Payloads \cup {Unspecified}
        /\ object[y].null \in BOOLEAN
    BY <1>1 DEF Objects
  <1>3. OneLifetime(New(x)) /\ ~New(x).engaged /\ New(x) \in Objects
    BY NewBalanced
  <1> HIDE DEF o
  <1>4. CASE r = ConstructFrom(x, object[y])
    <2>1. /\ constructPayload(New(x), object[y].payload) \in Objects
          /\ OneLifetime(constructPayload(New(x), object[y].payload))
      BY <1>2, <1>3, MembersBalanced, MembersType
    <2> QED BY <1>2, <1>3, <1>4, <2>1, NullBalanced DEF ConstructFrom
  <1>5. CASE r = AssignFrom(o, object[y]) /\ Usable(x, y)
    <2>1. CASE object[y].engaged
      <3>1. /\ AssignOrConstruct(o, object[y].payload) \in Objects
            /\ OneLifetime(AssignOrConstruct(o, object[y].payload))
        BY <1>1, <1>2, MembersBalanced, MembersType
      <3> QED BY <1>2, <1>5, <2>1, <3>1, NullBalanced DEF AssignFrom
    <2>2. CASE ~object[y].engaged
      <3>1. o.engaged
        BY <1>5, <2>2 DEF Usable, o
      <3>2. destroyPayload(o) \in Objects /\ OneLifetime(destroyPayload(o))
        BY <1>1, <1>2, <3>1, MembersBalanced, MembersType
      <3> QED BY <1>5, <2>2, <3>2, NullBalanced DEF AssignFrom
    <2> QED BY <2>1, <2>2
  <1> QED BY <1>4, <1>5 DEF Copied, o

-----------------------------------------------------------------------------
(* Steps.                                                                   *)

\* The result of a fetch into x.
FetchedInto(x, v) ==
  IF v = Nothing THEN [object[x] EXCEPT !.null = TRUE]
  ELSE [object[x] EXCEPT !.payload = v, !.null = FALSE, !.engaged = TRUE]

\* The results of the calls that set a flag.
Flagged(x) ==
  {[destroyPayloadIfEngaged(object[x]) EXCEPT !.null = FALSE],
   [object[x] EXCEPT !.null = FALSE], [object[x] EXCEPT !.null = TRUE]}

\* A fetch shows what was in the row.
LEMMA FetchedShows ==
  ASSUME NullableTypeOK, NEW x \in Nullables, NEW v \in Payloads \cup {Nothing},
         trivial \/ object[x].engaged
  PROVE  /\ FetchedInto(x, v) \in Objects
         /\ ObjectShows(FetchedInto(x, v)) = v
         /\ ~trivial /\ Balanced => OneLifetime(FetchedInto(x, v))
  <1>1. object[x] \in Objects
    BY DEF NullableTypeOK
  <1>2. CASE v = Nothing
    <2>1. FetchedInto(x, v) = [object[x] EXCEPT !.null = TRUE]
      BY <1>2 DEF FetchedInto
    <2>2. FetchedInto(x, v) \in Objects /\ FetchedInto(x, v).null = TRUE
      BY <1>1, <2>1, NullBalanced
    <2>3. ~trivial /\ Balanced => OneLifetime(FetchedInto(x, v))
      BY <1>1, <2>1, NullBalanced DEF Balanced, OneLifetime
    <2> QED BY <1>2, <2>2, <2>3 DEF ObjectShows
  <1>3. CASE v # Nothing
    <2> DEFINE f == FetchedInto(x, v)
    <2>1. f = [object[x] EXCEPT !.payload = v, !.null = FALSE, !.engaged = TRUE]
      BY <1>3 DEF FetchedInto
    <2> HIDE DEF f
    <2>2. /\ f \in Objects
          /\ f.engaged = TRUE /\ f.null = FALSE /\ f.payload = v
          /\ f.lifetimes = object[x].lifetimes
      BY <1>1, <1>3, <2>1 DEF Objects
    <2>3. ~trivial /\ Balanced => OneLifetime(f)
      BY <2>2 DEF Balanced, OneLifetime
    <2>4. ObjectShows(f) = v
      BY <2>2 DEF ObjectShows
    <2> QED BY <2>2, <2>3, <2>4 DEF f
  <1> QED BY <1>2, <1>3

\* Setting a flag makes a value disappear or come back.
LEMMA FlaggedShows ==
  ASSUME NullableTypeOK, NEW x \in Nullables, NEW r \in Flagged(x)
  PROVE  /\ r \in Objects
         /\ ObjectShows(object[x]) # Nothing =>
              ObjectShows(r) \in {ObjectShows(object[x]), Nothing}
         /\ ObjectShows(r) \in Payloads \cup {Nothing, Unspecified}
         /\ ~trivial /\ Balanced => OneLifetime(r)
  <1>1. object[x] \in Objects /\ (~trivial /\ Balanced => OneLifetime(object[x]))
    BY DEF NullableTypeOK, Balanced, OneLifetime
  <1>2. object[x].payload \in Payloads \cup {Unspecified}
    BY <1>1 DEF Objects
  <1> DEFINE e == destroyPayloadIfEngaged(object[x])
  <1>3. e \in Objects /\ (~trivial /\ Balanced => OneLifetime(e))
    BY <1>1, <1>2, MembersType, MembersBalanced
  <1>4. e = object[x] \/ e.engaged = FALSE
    BY <1>1, DestroyFields DEF destroyPayloadIfEngaged
  <1> HIDE DEF e
  <1>5. r \in Objects /\ (~trivial /\ Balanced => OneLifetime(r))
    BY <1>1, <1>3, NullBalanced DEF Flagged, e
  <1>6. \/ r.engaged = object[x].engaged /\ r.payload = object[x].payload
        \/ r.engaged = FALSE
    <2>1. PICK o : o = object[x]
      OBVIOUS
    <2>2. PICK k, b : r = [k EXCEPT !.null = b] /\ k \in {e, o} /\ b \in BOOLEAN
      BY <2>1 DEF Flagged, e
    <2>3. k \in Objects
      BY <1>1, <1>3, <2>1, <2>2
    <2>4. [k EXCEPT !.null = b].engaged = k.engaged /\ [k EXCEPT !.null = b].payload = k.payload
      BY <2>2, <2>3, NullBalanced
    <2> QED BY <1>4, <2>1, <2>2, <2>4
  <1>7. r.payload \in Payloads \cup {Unspecified}
    BY <1>5 DEF Objects
  <1>8. /\ ObjectShows(object[x]) # Nothing =>
             ObjectShows(r) \in {ObjectShows(object[x]), Nothing}
        /\ ObjectShows(r) \in Payloads \cup {Nothing, Unspecified}
    <2>1. CASE r.engaged = FALSE
      BY <2>1 DEF ObjectShows
    <2>2. CASE r.engaged = object[x].engaged /\ r.payload = object[x].payload
      BY <1>7, <2>2 DEF ObjectShows
    <2> QED BY <1>6, <2>1, <2>2
  <1> QED BY <1>5, <1>8

\* What is left of an object that was moved from.
LEMMA MovedShows ==
  ASSUME NullableTypeOK, NEW y \in Nullables
  PROVE  /\ MovedFrom(object[y]) \in Objects
         /\ ObjectShows(MovedFrom(object[y])) \in
              {ObjectShows(object[y]),
               IF ObjectShows(object[y]) = Nothing THEN Nothing ELSE Unspecified}
         /\ ~trivial /\ Balanced => OneLifetime(MovedFrom(object[y]))
  <1>1. object[y] \in Objects /\ (~trivial /\ Balanced => OneLifetime(object[y]))
    BY DEF NullableTypeOK, Balanced, OneLifetime
  <1>2. object[y].payload \in Payloads \cup {Unspecified}
    BY <1>1 DEF Objects
  <1>3. MovedFrom(object[y]) \in Objects
    BY <1>1, <1>2, MembersType
  <1>4. ~trivial /\ Balanced => OneLifetime(MovedFrom(object[y]))
    BY <1>1, <1>2, MembersBalanced
  <1>5. CASE object[y].engaged /\ ~trivial
    <2> DEFINE m == MovedFrom(object[y])
    <2>1. m = [object[y] EXCEPT !.payload = Unspecified]
      BY <1>5 DEF MovedFrom
    <2> HIDE DEF m
    <2>2. m.engaged = object[y].engaged /\ m.null = object[y].null /\ m.payload = Unspecified
      BY <1>1, <2>1 DEF Objects
    <2>3. ObjectShows(m) = IF object[y].null THEN Nothing ELSE Unspecified
      BY <1>5, <2>2 DEF ObjectShows
    <2>4. ObjectShows(object[y]) = IF object[y].null THEN Nothing ELSE object[y].payload
      BY <1>5 DEF ObjectShows
    <2>5. object[y].payload # Nothing
      BY <1>2, NullableAssumption
    <2>6. ObjectShows(m) = IF ObjectShows(object[y]) = Nothing THEN Nothing ELSE Unspecified
      BY <2>3, <2>4, <2>5
    <2> QED BY <1>3, <1>4, <2>6 DEF m
  <1>6. CASE ~(object[y].engaged /\ ~trivial)
    <2>1. MovedFrom(object[y]) = object[y]
      BY <1>6 DEF MovedFrom
    <2> QED BY <1>3, <1>4, <2>1
  <1> QED BY <1>5, <1>6

\* The value of one object goes to one that has none.
LEMMA MoveIntoShows ==
  ASSUME NullableTypeOK, NEW to \in Nullables, NEW from \in Nullables, to # from,
         ~object[to].engaged, object[from].engaged
  PROVE  /\ MoveInto(to, from) \in [Nullables -> Objects]
         /\ \A z \in Nullables \ {to, from} : MoveInto(to, from)[z] = object[z]
         /\ ObjectShows(MoveInto(to, from)[to]) = ObjectShows(object[from])
         /\ ObjectShows(MoveInto(to, from)[from]) = ObjectShows(object[to])
         /\ ~trivial /\ Balanced =>
              OneLifetime(MoveInto(to, from)[to]) /\ OneLifetime(MoveInto(to, from)[from])
  <1> DEFINE f == object[from]
             c == constructPayload(object[to], payload(from))
             d == destroyPayload(f)
  <1>1. /\ object[to] \in Objects /\ f \in Objects
        /\ ~trivial /\ Balanced => OneLifetime(object[to]) /\ OneLifetime(f)
    BY DEF NullableTypeOK, Balanced, OneLifetime
  <1>2. f.payload \in Payloads \cup {Unspecified} /\ f.null \in BOOLEAN
    BY <1>1 DEF Objects
  <1>3. /\ c \in Objects /\ c.engaged = TRUE /\ c.payload = f.payload
        /\ ~trivial /\ Balanced => OneLifetime(c)
    BY <1>1, <1>2, ConstructFields, MembersBalanced DEF payload
  <1>4. /\ d \in Objects /\ d.engaged = FALSE
        /\ ~trivial /\ Balanced => OneLifetime(d)
    BY <1>1, <1>2, DestroyFields, MembersBalanced
  <1>5. MoveInto(to, from) =
          [object EXCEPT ![to] = [c EXCEPT !.null = f.null], ![from] = [d EXCEPT !.null = FALSE]]
    BY DEF MoveInto
  <1> HIDE DEF c, d
  <1>6. /\ [c EXCEPT !.null = f.null] \in Objects
        /\ [c EXCEPT !.null = f.null].engaged = TRUE
        /\ [c EXCEPT !.null = f.null].payload = f.payload
        /\ [c EXCEPT !.null = f.null].null = f.null
        /\ ~trivial /\ Balanced => OneLifetime([c EXCEPT !.null = f.null])
    BY <1>2, <1>3, NullBalanced
  <1>7. /\ [d EXCEPT !.null = FALSE] \in Objects
        /\ [d EXCEPT !.null = FALSE].engaged = FALSE
        /\ ~trivial /\ Balanced => OneLifetime([d EXCEPT !.null = FALSE])
    BY <1>4, NullBalanced
  <1>8. /\ MoveInto(to, from)[to] = [c EXCEPT !.null = f.null]
        /\ MoveInto(to, from)[from] = [d EXCEPT !.null = FALSE]
        /\ \A z \in Nullables \ {to, from} : MoveInto(to, from)[z] = object[z]
        /\ MoveInto(to, from) \in [Nullables -> Objects]
    BY <1>5, <1>6, <1>7 DEF NullableTypeOK
  <1>9. ObjectShows([c EXCEPT !.null = f.null]) = ObjectShows(f)
    BY <1>6 DEF ObjectShows
  <1>10. ObjectShows([d EXCEPT !.null = FALSE]) = ObjectShows(object[to])
    BY <1>7 DEF ObjectShows
  <1> QED BY <1>6, <1>7, <1>8, <1>9, <1>10

\* The payload and the flag of SQL NULL are written, and nothing else.
Written(o, p, n) == [o EXCEPT !.payload = p, !.null = n]

LEMMA WrittenFields ==
  ASSUME NEW o \in Objects, NEW p \in Payloads \cup {Unspecified},
         NEW n, n \in BOOLEAN
  PROVE  /\ Written(o, p, n) \in Objects
         /\ Written(o, p, n).engaged = o.engaged
         /\ Written(o, p, n).payload = p
         /\ Written(o, p, n).null = n
         /\ Written(o, p, n).lifetimes = o.lifetimes
  <1> DEFINE w == Written(o, p, n)
  <1>1. w \in Objects
    BY DEF Objects, Written
  <1>2. w.engaged = o.engaged /\ w.payload = p /\ w.null = n /\ w.lifetimes = o.lifetimes
    BY DEF Objects, Written
  <1> QED BY <1>1, <1>2

\* swap() of two objects of which one has a payload.
LEMMA SwapShows ==
  ASSUME NullableTypeOK, ~DisengagedPairs, NEW x \in Nullables, NEW y \in Nullables, swap(x, y)
  PROVE  /\ x # y
         /\ object' \in [Nullables -> Objects]
         /\ \A z \in Nullables \ {x, y} : object'[z] = object[z]
         /\ ObjectShows(object'[x]) = ObjectShows(object[y])
         /\ ObjectShows(object'[y]) = ObjectShows(object[x])
         /\ ~trivial /\ Balanced => OneLifetime(object'[x]) /\ OneLifetime(object'[y])
  <1>1. x # y /\ (object[x].engaged \/ object[y].engaged)
    BY DEF swap, Usable
  <1>2. CASE object[x].engaged /\ object[y].engaged
    <2>1. object' = [object EXCEPT
               ![x].payload = payload(y), ![x].null = object[y].null,
               ![y].payload = payload(x), ![y].null = object[x].null]
      BY <1>2 DEF swap, Calls
    <2>2. /\ object[x] \in Objects /\ object[y] \in Objects
          /\ payload(x) \in Payloads \cup {Unspecified}
          /\ payload(y) \in Payloads \cup {Unspecified}
          /\ object[x].null \in BOOLEAN /\ object[y].null \in BOOLEAN
          /\ object[x].engaged = TRUE /\ object[y].engaged = TRUE
      BY <1>2 DEF NullableTypeOK, Objects, payload
    <2>3. /\ object'[x] = Written(object[x], payload(y), object[y].null)
          /\ object'[y] = Written(object[y], payload(x), object[x].null)
          /\ \A z \in Nullables \ {x, y} : object'[z] = object[z]
          /\ DOMAIN object' = Nullables
      BY <1>1, <2>1 DEF NullableTypeOK, Written
    <2>4. /\ object'[x] \in Objects /\ object'[x].engaged = TRUE
          /\ object'[x].payload = payload(y) /\ object'[x].null = object[y].null
          /\ object'[x].lifetimes = object[x].lifetimes
      <3> DEFINE o == object[x]
                 p == payload(y)
                 n == object[y].null
      <3>1. o \in Objects /\ p \in Payloads \cup {Unspecified} /\ n \in BOOLEAN
        BY <2>2
      <3>2. object'[x] = Written(o, p, n) /\ o.engaged = TRUE
        BY <2>2, <2>3
      <3> HIDE DEF o, p, n
      <3>3. /\ Written(o, p, n) \in Objects
            /\ Written(o, p, n).engaged = o.engaged
            /\ Written(o, p, n).payload = p
            /\ Written(o, p, n).null = n
            /\ Written(o, p, n).lifetimes = o.lifetimes
        BY <3>1, WrittenFields
      <3> QED BY <3>2, <3>3 DEF o, p, n
    <2>5. /\ object'[y] \in Objects /\ object'[y].engaged = TRUE
          /\ object'[y].payload = payload(x) /\ object'[y].null = object[x].null
          /\ object'[y].lifetimes = object[y].lifetimes
      <3> DEFINE o == object[y]
                 p == payload(x)
                 n == object[x].null
      <3>1. o \in Objects /\ p \in Payloads \cup {Unspecified} /\ n \in BOOLEAN
        BY <2>2
      <3>2. object'[y] = Written(o, p, n) /\ o.engaged = TRUE
        BY <2>2, <2>3
      <3> HIDE DEF o, p, n
      <3>3. /\ Written(o, p, n) \in Objects
            /\ Written(o, p, n).engaged = o.engaged
            /\ Written(o, p, n).payload = p
            /\ Written(o, p, n).null = n
            /\ Written(o, p, n).lifetimes = o.lifetimes
        BY <3>1, WrittenFields
      <3> QED BY <3>2, <3>3 DEF o, p, n
    <2>6. object' \in [Nullables -> Objects]
      <3>1. \A z \in Nullables : object'[z] \in Objects
        BY <2>3, <2>4, <2>5 DEF NullableTypeOK
      <3>2. object' = [z \in Nullables |-> object'[z]]
        BY <2>1 DEF NullableTypeOK
      <3> QED BY <3>1, <3>2
    <2>7. ObjectShows(object'[x]) = ObjectShows(object[y])
      BY <1>2, <2>4 DEF ObjectShows, payload
    <2>8. ObjectShows(object'[y]) = ObjectShows(object[x])
      BY <1>2, <2>5 DEF ObjectShows, payload
    <2>9. ~trivial /\ Balanced => OneLifetime(object'[x]) /\ OneLifetime(object'[y])
      BY <1>2, <2>4, <2>5 DEF Balanced, OneLifetime
    <2> QED BY <1>1, <2>3, <2>6, <2>7, <2>8, <2>9
  <1>3. CASE object[x].engaged /\ ~object[y].engaged
    <2>1. object' = MoveInto(y, x)
      BY <1>3 DEF swap, Calls
    <2> QED BY <1>1, <1>3, <2>1, MoveIntoShows
  <1>4. CASE ~object[x].engaged
    <2>1. object' = MoveInto(x, y)
      BY <1>4 DEF swap, Calls
    <2> QED BY <1>1, <1>4, <2>1, MoveIntoShows
  <1> QED BY <1>2, <1>3, <1>4

-----------------------------------------------------------------------------
(* The step relation, and the abstract one.                                 *)

\* What all objects show.
Val == [z \in Nullables |-> Shows(z)]

LEMMA ShowsObject ==
  ASSUME NEW z \in Nullables
  PROVE  Shows(z) = ObjectShows(object[z]) /\ Val[z] = ObjectShows(object[z])
  BY DEF Shows, ValueThrows, valueOr, isValid, payload, ObjectShows, Val

\* A call that changes one object.
LEMMA OneChanged ==
  ASSUME NullableTypeOK, NEW x \in Nullables, NEW r \in Objects,
         object' = [object EXCEPT ![x] = r], UNCHANGED trivial
  PROVE  /\ NullableTypeOK'
         /\ Val' = [Val EXCEPT ![x] = ObjectShows(r)]
         /\ Balanced /\ (~trivial => OneLifetime(r)) => Balanced'
  <1>1. NullableTypeOK'
    BY DEF NullableTypeOK
  <1>2. object'[x] = r /\ \A z \in Nullables \ {x} : object'[z] = object[z]
    BY DEF NullableTypeOK
  <1>3. \A z \in Nullables : Shows(z)' = ObjectShows(object'[z])
    BY DEF Shows, ValueThrows, valueOr, isValid, payload, ObjectShows
  <1>4. Val' = [Val EXCEPT ![x] = ObjectShows(r)]
    <2>1. PICK new : new = ObjectShows(r)
      OBVIOUS
    <2>2. Shows(x)' = new
      BY <1>2, <1>3, <2>1
    <2>3. \A z \in Nullables \ {x} : Shows(z)' = Shows(z)
      BY <1>2, <1>3, ShowsObject
    <2>4. Val' = [Val EXCEPT ![x] = new]
      BY <2>2, <2>3 DEF Val
    <2> QED BY <2>1, <2>4
  <1>5. Balanced /\ (~trivial => OneLifetime(r)) => Balanced'
    BY <1>2 DEF Balanced, OneLifetime
  <1> QED BY <1>1, <1>4, <1>5

\* A call that changes two objects.
LEMMA BothChanged ==
  ASSUME NullableTypeOK, NEW x \in Nullables, NEW y \in Nullables, x # y,
         object' \in [Nullables -> Objects], UNCHANGED trivial,
         \A z \in Nullables \ {x, y} : object'[z] = object[z]
  PROVE  /\ NullableTypeOK'
         /\ Val' = [Val EXCEPT ![x] = ObjectShows(object'[x]), ![y] = ObjectShows(object'[y])]
         /\ Balanced /\ (~trivial => OneLifetime(object'[x]) /\ OneLifetime(object'[y]))
              => Balanced'
  <1>1. NullableTypeOK'
    BY DEF NullableTypeOK
  <1>2. \A z \in Nullables : Shows(z)' = ObjectShows(object'[z])
    BY DEF Shows, ValueThrows, valueOr, isValid, payload, ObjectShows
  <1>3. Val' = [Val EXCEPT ![x] = ObjectShows(object'[x]), ![y] = ObjectShows(object'[y])]
    <2>1. PICK first, second : first = ObjectShows(object'[x]) /\ second = ObjectShows(object'[y])
      OBVIOUS
    <2>2. Shows(x)' = first /\ Shows(y)' = second
      BY <1>2, <2>1
    <2>3. \A z \in Nullables \ {x, y} : Shows(z)' = Shows(z)
      BY <1>2, ShowsObject
    <2>4. Val' = [Val EXCEPT ![x] = first, ![y] = second]
      BY <2>2, <2>3 DEF Val
    <2> QED BY <2>1, <2>4
  <1>4. Balanced /\ (~trivial => OneLifetime(object'[x]) /\ OneLifetime(object'[y])) => Balanced'
    BY DEF Balanced, OneLifetime
  <1> QED BY <1>1, <1>3, <1>4

\* What a step keeps, and which steps of the abstract object it may be.
Kept == NullableTypeOK' /\ (Balanced => Balanced')

\* A call that gives x a value.
LEMMA GivenStep ==
  ASSUME NullableTypeOK, ~DisengagedPairs, NEW x \in Nullables, NEW v \in Payloads,
         NEW r \in Given(x, v), Calls(<<"set", x, v>>, [object EXCEPT ![x] = r])
  PROVE  Kept /\ Optional!Set(x, v)
  <1>1. r \in Objects /\ ObjectShows(r) = v
    BY GivenShows
  <1>2. Balanced /\ ~trivial => OneLifetime(r)
    BY GivenBalanced
  <1>3. object' = [object EXCEPT ![x] = r] /\ UNCHANGED trivial /\ called' = <<"set", x, v>>
    BY DEF Calls
  <1>4. NullableTypeOK' /\ Val' = [Val EXCEPT ![x] = v] /\ (Balanced => Balanced')
    BY <1>1, <1>2, <1>3, OneChanged
  <1> QED BY <1>3, <1>4 DEF Kept, Optional!Set, Val

\* A call that takes the value of x away.
LEMMA EmptiedStep ==
  ASSUME NullableTypeOK, ~DisengagedPairs, NEW x \in Nullables,
         NEW r \in Emptied(x), Calls(<<"clear", x>>, [object EXCEPT ![x] = r])
  PROVE  Kept /\ Optional!Clear(x)
  <1>1. r \in Objects /\ ObjectShows(r) = Nothing
    BY EmptiedShows
  <1>2. Balanced /\ ~trivial => OneLifetime(r)
    BY EmptiedBalanced
  <1>3. object' = [object EXCEPT ![x] = r] /\ UNCHANGED trivial /\ called' = <<"clear", x>>
    BY DEF Calls
  <1>4. NullableTypeOK' /\ Val' = [Val EXCEPT ![x] = Nothing] /\ (Balanced => Balanced')
    BY <1>1, <1>2, <1>3, OneChanged
  <1> QED BY <1>3, <1>4 DEF Kept, Optional!Clear, Val

\* A copy of y, and what is left of y when it was moved.
LEMMA CopiedStep ==
  ASSUME NullableTypeOK, ~DisengagedPairs, NEW x \in Nullables, NEW y \in Nullables,
         NEW r \in Copied(x, y), Calls(<<"copy", x, y>>, [object EXCEPT ![x] = r])
  PROVE  Kept /\ Optional!Copy(x, y)
  <1>1. r \in Objects /\ ObjectShows(r) = ObjectShows(object[y])
    BY CopiedShows
  <1>2. Balanced /\ ~trivial => OneLifetime(r)
    BY CopiedBalanced
  <1>3. object' = [object EXCEPT ![x] = r] /\ UNCHANGED trivial /\ called' = <<"copy", x, y>>
    BY DEF Calls
  <1>4. NullableTypeOK' /\ Val' = [Val EXCEPT ![x] = Val[y]] /\ (Balanced => Balanced')
    BY <1>1, <1>2, <1>3, OneChanged, ShowsObject
  <1> QED BY <1>3, <1>4 DEF Kept, Optional!Copy, Val

LEMMA MovedStep ==
  ASSUME NullableTypeOK, ~DisengagedPairs, NEW x \in Nullables, NEW y \in Nullables, x # y,
         NEW r \in Copied(x, y),
         Calls(<<"move", x, y>>, [object EXCEPT ![x] = r, ![y] = MovedFrom(@)])
  PROVE  Kept /\ Optional!Move(x, y)
  <1> DEFINE m == MovedFrom(object[y])
  <1>1. r \in Objects /\ ObjectShows(r) = ObjectShows(object[y])
    BY CopiedShows
  <1>2. /\ m \in Objects
        /\ ObjectShows(m) \in {Val[y], IF Val[y] = Nothing THEN Nothing ELSE Unspecified}
        /\ Balanced /\ ~trivial => OneLifetime(m)
    BY MovedShows, ShowsObject
  <1>3. Balanced /\ ~trivial => OneLifetime(r)
    BY CopiedBalanced
  <1>4. /\ object' = [object EXCEPT ![x] = r, ![y] = m]
        /\ UNCHANGED trivial
        /\ called' = <<"move", x, y>>
    BY DEF Calls, NullableTypeOK
  <1> HIDE DEF m
  <1>5. /\ object' \in [Nullables -> Objects]
        /\ object'[x] = r /\ object'[y] = m
        /\ \A z \in Nullables \ {x, y} : object'[z] = object[z]
    BY <1>1, <1>2, <1>4 DEF NullableTypeOK
  <1>6. /\ NullableTypeOK'
        /\ Val' = [Val EXCEPT ![x] = Val[y], ![y] = ObjectShows(m)]
        /\ Balanced => Balanced'
    BY <1>1, <1>2, <1>3, <1>4, <1>5, BothChanged, ShowsObject
  <1>7. Optional!Move(x, y)
    BY <1>2, <1>4, <1>6 DEF Optional!Move, Val
  <1> QED BY <1>6, <1>7 DEF Kept

\* A call that sets a flag of x.
LEMMA FlaggedStep ==
  ASSUME NullableTypeOK, NEW x \in Nullables, NEW r \in Flagged(x),
         Calls(<<"flag", x>>, [object EXCEPT ![x] = r])
  PROVE  Kept /\ Optional!Flag(x)
  <1>1. /\ r \in Objects
        /\ Val[x] # Nothing => ObjectShows(r) \in {Val[x], Nothing}
        /\ ObjectShows(r) \in Payloads \cup {Nothing, Unspecified}
        /\ ~trivial /\ Balanced => OneLifetime(r)
    BY FlaggedShows, ShowsObject
  <1>2. object' = [object EXCEPT ![x] = r] /\ UNCHANGED trivial /\ called' = <<"flag", x>>
    BY DEF Calls
  <1>3. NullableTypeOK' /\ Val' = [Val EXCEPT ![x] = ObjectShows(r)] /\ (Balanced => Balanced')
    BY <1>1, <1>2, OneChanged
  <1>4. Optional!Flag(x)
    BY <1>1, <1>2, <1>3 DEF Optional!Flag, Optional!Shown, Val
  <1> QED BY <1>3, <1>4 DEF Kept

\* A row is fetched into x.
LEMMA FetchedStep ==
  ASSUME NullableTypeOK, NEW x \in Nullables, NEW v \in Payloads \cup {Nothing}, Fetched(x, v)
  PROVE  Kept /\ Optional!Fetch(x, v)
  <1> DEFINE r == FetchedInto(x, v)
  <1>1. r \in Objects /\ ObjectShows(r) = v /\ (~trivial /\ Balanced => OneLifetime(r))
    BY FetchedShows DEF Fetched
  <1>2. object' = [object EXCEPT ![x] = r] /\ UNCHANGED trivial /\ called' = <<"fetch", x, v>>
    BY DEF Fetched, Calls, FetchedInto
  <1> HIDE DEF r
  <1>3. NullableTypeOK' /\ Val' = [Val EXCEPT ![x] = v] /\ (Balanced => Balanced')
    BY <1>1, <1>2, OneChanged
  <1> QED BY <1>2, <1>3 DEF Kept, Optional!Fetch, Val

LEMMA SwappedStep ==
  ASSUME NullableTypeOK, ~DisengagedPairs, NEW x \in Nullables, NEW y \in Nullables, swap(x, y)
  PROVE  Kept /\ Optional!Exchange(x, y)
  <1>1. /\ x # y
        /\ object' \in [Nullables -> Objects]
        /\ \A z \in Nullables \ {x, y} : object'[z] = object[z]
        /\ ObjectShows(object'[x]) = Val[y]
        /\ ObjectShows(object'[y]) = Val[x]
        /\ ~trivial /\ Balanced => OneLifetime(object'[x]) /\ OneLifetime(object'[y])
    BY SwapShows, ShowsObject
  <1>2. UNCHANGED trivial /\ called' = <<"swap", x, y>>
    BY DEF swap, Calls
  <1>3. /\ NullableTypeOK'
        /\ Val' = [Val EXCEPT ![x] = Val[y], ![y] = Val[x]]
        /\ Balanced => Balanced'
    BY <1>1, <1>2, BothChanged
  <1> QED BY <1>2, <1>3 DEF Kept, Optional!Exchange, Val

\* Every step is one of these.
LEMMA NullableStep ==
  ASSUME NullableTypeOK, ~DisengagedPairs, NullableNext
  PROVE  Kept /\ Optional!OptionalNext
  <1>1. ASSUME NEW x \in Nullables, AssignDisengaged(x) \/ ConstructDisengaged(x)
        PROVE  Kept /\ Optional!Clear(x)
    <2>1. PICK r \in Emptied(x) : Calls(<<"clear", x>>, [object EXCEPT ![x] = r])
      BY <1>1 DEF AssignDisengaged, ConstructDisengaged, Emptied
    <2> QED BY <2>1, EmptiedStep
  <1>2. ASSUME NEW x \in Nullables, disengage(x) \/ unsetNull(x) \/ setNull(x)
        PROVE  Kept /\ Optional!Flag(x)
    <2>1. PICK r \in Flagged(x) : Calls(<<"flag", x>>, [object EXCEPT ![x] = r])
      BY <1>2 DEF disengage, unsetNull, setNull, Flagged
    <2> QED BY <2>1, FlaggedStep
  <1>3. ASSUME NEW x \in Nullables, NEW v \in Payloads,
               ConstructValue(x, v) \/ AssignValue(x, v) \/ emplace(x, v)
        PROVE  Kept /\ Optional!Set(x, v)
    <2>1. PICK r \in Given(x, v) : Calls(<<"set", x, v>>, [object EXCEPT ![x] = r])
      BY <1>3 DEF ConstructValue, AssignValue, emplace, Given
    <2> QED BY <2>1, GivenStep
  <1>4. ASSUME NEW x \in Nullables, InitializeResultItem(x)
        PROVE  Kept /\ \E v \in Payloads : Optional!Set(x, v)
    <2>1. PICK v \in Payloads : AssignValue(x, v)
      BY <1>4 DEF InitializeResultItem, AssignValue
    <2> QED BY <2>1, <1>3
  <1>5. ASSUME NEW x \in Nullables, NEW y \in Nullables, Copy(x, y)
        PROVE  Kept /\ Optional!Copy(x, y)
    <2>1. PICK r \in Copied(x, y) : Calls(<<"copy", x, y>>, [object EXCEPT ![x] = r])
      BY <1>5 DEF Copy, Copied
    <2> QED BY <2>1, CopiedStep
  <1>6. ASSUME NEW x \in Nullables, NEW y \in Nullables, Move(x, y)
        PROVE  Kept /\ Optional!Move(x, y)
    <2>1. PICK r \in Copied(x, y) :
            Calls(<<"move", x, y>>, [object EXCEPT ![x] = r, ![y] = MovedFrom(@)])
      BY <1>6 DEF Move, Copied
    <2>2. x # y
      BY <1>6 DEF Move
    <2> QED BY <2>1, <2>2, MovedStep
  <1>7. CASE \E x \in Nullables :
               \/ AssignDisengaged(x) \/ ConstructDisengaged(x)
               \/ disengage(x) \/ unsetNull(x) \/ setNull(x) \/ InitializeResultItem(x)
    BY <1>1, <1>2, <1>4, <1>7 DEF Optional!OptionalNext
  <1>8. CASE \E x \in Nullables, v \in Payloads :
               ConstructValue(x, v) \/ AssignValue(x, v) \/ emplace(x, v)
    BY <1>3, <1>8 DEF Optional!OptionalNext
  <1>9. CASE \E x \in Nullables, v \in Payloads \cup {Nothing} : Fetched(x, v)
    BY <1>9, FetchedStep DEF Optional!OptionalNext
  <1>10. CASE \E x, y \in Nullables : Copy(x, y) \/ Move(x, y) \/ swap(x, y)
    BY <1>5, <1>6, <1>10, SwappedStep DEF Optional!OptionalNext
  <1> QED BY <1>7, <1>8, <1>9, <1>10 DEF NullableNext

\* The invariant of the specification.
NullableInv == NullableTypeOK /\ Balanced

LEMMA NullableInitInv ==
  ASSUME NullableInit
  PROVE  NullableInv /\ Optional!OptionalInit
  <1>1. Disengaged \in Objects
    BY DEF Objects, Disengaged
  <1>2. NullableInv
    BY <1>1 DEF NullableInv, NullableInit, NullableTypeOK, Balanced, Disengaged
  <1>3. \A z \in Nullables : Shows(z) = Nothing
    BY ShowsObject DEF NullableInit, ObjectShows, Disengaged
  <1> QED BY <1>2, <1>3 DEF NullableInit, Optional!OptionalInit

LEMMA NullableStutters ==
  ASSUME UNCHANGED nullableVars
  PROVE  /\ NullableInv => NullableInv'
         /\ UNCHANGED <<Val, called>>
  BY DEF nullableVars, NullableInv, NullableTypeOK, Balanced, Val, Shows, ValueThrows,
         valueOr, isValid, payload

LEMMA NullableInvariant ==
  ASSUME ~DisengagedPairs
  PROVE  NullableSpec => []NullableInv
  <1>1. NullableInv /\ [NullableNext]_nullableVars => NullableInv'
    BY NullableStep, NullableStutters DEF NullableInv, Kept
  <1> QED BY <1>1, NullableInitInv, PTL DEF NullableSpec

\* Every payload is constructed once before it is used and destroyed once, if no
\* call is made for two objects that are both disengaged.
THEOREM PayloadsBalanced ==
  ASSUME ~DisengagedPairs
  PROVE  NullableSpec => []Balanced
  BY NullableInvariant, PTL DEF NullableInv

\* Under the same condition a Nullable shows what an optional value would.
THEOREM NullableIsOptional ==
  ASSUME ~DisengagedPairs
  PROVE  NullableSpec => ImplementsOptional
  <1>1. NullableInit => Optional!OptionalInit
    BY NullableInitInv
  <1>2. NullableInv /\ [NullableNext]_nullableVars
          => [Optional!OptionalNext]_<<[x \in Nullables |-> Shows(x)], called>>
    BY NullableStep, NullableStutters DEF NullableInv, Val
  <1> QED BY <1>1, <1>2, NullableInvariant, PTL
        DEF NullableSpec, ImplementsOptional, Optional!OptionalSpec

\* The operators on objects, on the missing value and on values are one order.
LEMMA ComparisonsOfAnyState == ComparisonsAgree
  <1> SUFFICES ASSUME NEW x \in Nullables, NEW y \in Nullables
               PROVE  ComparisonsAgree!(x, y)
    BY DEF ComparisonsAgree
  <1>1. isValid(x) \in BOOLEAN /\ isValid(y) \in BOOLEAN
    BY DEF isValid
  <1>2. ASSUME ~isValid(y)
        PROVE  /\ EqualTo(x, y) = EqualToNothing(x)
               /\ LessThan(x, y) = LessThanNothing(x)
               /\ LessThan(y, x) = NothingLessThan(x)
               /\ AtMost(x, y) = AtMostNothing(x)
               /\ AtMost(y, x) = NothingAtMost(x)
    BY <1>1, <1>2, Zenon DEF EqualTo, EqualToNothing, LessThan, LessThanNothing,
       NothingLessThan, AtMost, AtMostNothing, NothingAtMost
  <1>3. ASSUME isValid(y), Unspecified \notin {payload(x), payload(y)}
        PROVE  /\ EqualTo(x, y) = EqualToValue(x, payload(y))
               /\ LessThan(x, y) = LessThanValue(x, payload(y))
               /\ LessThan(y, x) = ValueLessThan(payload(y), x)
               /\ AtMost(x, y) = AtMostValue(x, payload(y))
               /\ AtMost(y, x) = ValueAtMost(payload(y), x)
    BY <1>1, <1>3 DEF EqualTo, EqualToValue, LessThan, LessThanValue, ValueLessThan,
       AtMost, AtMostValue, ValueAtMost
  <1> QED BY <1>2, <1>3 DEF ComparisonsAgree

\* It is in every state, whatever the calls, the swapped pairs included.
THEOREM NullableOrder == NullableSpec => []ComparisonsAgree
  BY ComparisonsOfAnyState, PTL

\* Type correctness.
THEOREM NullableTypeCorrect ==
  ASSUME ~DisengagedPairs
  PROVE  NullableSpec => []NullableTypeOK
  BY NullableInvariant, PTL DEF NullableInv

-----------------------------------------------------------------------------
(* Time, Date and Datetime.                                                 *)

\* The comparisons of Time are one order of its fields, and ignore the sign.
THEOREM TimeOrder == \A a, b \in Times : TimesOrdered(a, b)
  <1> SUFFICES ASSUME NEW a \in Times, NEW b \in Times PROVE TimesOrdered(a, b)
    OBVIOUS
  <1>1. /\ a.hour \in Nat /\ a.minute \in Nat /\ a.second \in Nat
        /\ b.hour \in Nat /\ b.minute \in Nat /\ b.second \in Nat
    BY TemporalAssumption DEF Times
  <1>2. TimeEqual(a, b) <=> a.hour = b.hour /\ a.minute = b.minute /\ a.second = b.second
    BY DEF TimeEqual, TimeFields
  <1> QED
    BY <1>1, <1>2
    DEF TimesOrdered, OneOrder, TimeLess, TimeGreater, TimeAtMost, TimeAtLeast

\* The comparisons of Date are one order of its fields.
THEOREM DateOrder == \A a, b \in Dates : DatesOrdered(a, b)
  <1> SUFFICES ASSUME NEW a \in Dates, NEW b \in Dates PROVE DatesOrdered(a, b)
    OBVIOUS
  <1>1. /\ a.year \in Nat /\ a.month \in Nat /\ a.day \in Nat
        /\ b.year \in Nat /\ b.month \in Nat /\ b.day \in Nat
    BY TemporalAssumption DEF Dates
  <1>2. DateEqual(a, b) <=> a.year = b.year /\ a.month = b.month /\ a.day = b.day
    BY DEF DateEqual, DateFields
  <1> QED
    BY <1>1, <1>2
    DEF DatesOrdered, OneOrder, DateLess, DateGreater, DateAtMost, DateAtLeast

\* The date and the time of a Datetime are values of the other two classes.
LEMMA PartsOfDatetime ==
  ASSUME NEW a \in Datetimes
  PROVE  getDate(a) \in Dates /\ getTime(a) \in Times /\ a.fraction \in Nat
  BY TemporalAssumption DEF Datetimes, Dates, Times, getDate, getTime

\* The comparisons of Datetime, made of those of Date and of Time, are one order.
THEOREM DatetimeOrder == \A a, b \in Datetimes : DatetimesOrdered(a, b)
  <1> SUFFICES ASSUME NEW a \in Datetimes, NEW b \in Datetimes PROVE DatetimesOrdered(a, b)
    OBVIOUS
  <1> DEFINE da == getDate(a)  db == getDate(b)  ta == getTime(a)  tb == getTime(b)
  <1>1. da \in Dates /\ db \in Dates /\ ta \in Times /\ tb \in Times
    BY PartsOfDatetime
  <1>2. a.fraction \in Nat /\ b.fraction \in Nat
    BY PartsOfDatetime
  <1>3. DatesOrdered(da, db) /\ DatesOrdered(db, da)
    BY <1>1, DateOrder
  <1>4. TimesOrdered(ta, tb) /\ TimesOrdered(tb, ta)
    BY <1>1, TimeOrder
  <1>5. /\ \/ a.fraction < b.fraction /\ a.fraction # b.fraction /\ ~(a.fraction > b.fraction)
           \/ ~(a.fraction < b.fraction) /\ a.fraction = b.fraction /\ ~(a.fraction > b.fraction)
           \/ ~(a.fraction < b.fraction) /\ a.fraction # b.fraction /\ a.fraction > b.fraction
        /\ a.fraction <= b.fraction <=> a.fraction < b.fraction \/ a.fraction = b.fraction
        /\ a.fraction >= b.fraction <=> a.fraction > b.fraction \/ a.fraction = b.fraction
        /\ a.fraction > b.fraction <=> b.fraction < a.fraction
    BY <1>2
  <1>6. DateEqual(da, db) <=> DateEqual(db, da)
    BY DEF DateEqual
  <1>7. TimeEqual(ta, tb) <=> TimeEqual(tb, ta)
    BY DEF TimeEqual
  <1> HIDE DEF da, db, ta, tb
  <1> QED
    BY <1>3, <1>4, <1>5, <1>6, <1>7
    DEF DatetimesOrdered, DatetimeEqual, DatetimeLess, DatetimeGreater, DatetimeAtMost,
        DatetimeAtLeast, DatesOrdered, TimesOrdered, OneOrder, da, db, ta, tb

\* An order is transitive; for three values of each class.
THEOREM OrdersAreTransitive ==
  /\ \A a, b, c \in Times : TimeLess(a, b) /\ TimeLess(b, c) => TimeLess(a, c)
  /\ \A a, b, c \in Dates : DateLess(a, b) /\ DateLess(b, c) => DateLess(a, c)
  /\ \A a, b, c \in Datetimes :
       DatetimeLess(a, b) /\ DatetimeLess(b, c) => DatetimeLess(a, c)
  <1>1. \A x \in Times : x.hour \in Nat /\ x.minute \in Nat /\ x.second \in Nat
    BY TemporalAssumption DEF Times
  <1>2. \A x \in Dates : x.year \in Nat /\ x.month \in Nat /\ x.day \in Nat
    BY TemporalAssumption DEF Dates
  <1>3. ASSUME NEW a \in Times, NEW b \in Times, NEW c \in Times
        PROVE  /\ TimeLess(a, b) /\ TimeLess(b, c) => TimeLess(a, c)
               /\ TimeLess(a, b) /\ ~TimeGreater(b, c) => TimeLess(a, c)
               /\ ~TimeGreater(a, b) /\ TimeLess(b, c) => TimeLess(a, c)
               /\ ~TimeGreater(a, b) /\ ~TimeGreater(b, c) => ~TimeGreater(a, c)
    <2>1. /\ a.hour \in Nat /\ a.minute \in Nat /\ a.second \in Nat
          /\ b.hour \in Nat /\ b.minute \in Nat /\ b.second \in Nat
          /\ c.hour \in Nat /\ c.minute \in Nat /\ c.second \in Nat
      BY <1>1
    <2> QED BY <2>1 DEF TimeLess, TimeGreater
  <1>4. ASSUME NEW a \in Dates, NEW b \in Dates, NEW c \in Dates
        PROVE  /\ DateLess(a, b) /\ DateLess(b, c) => DateLess(a, c)
               /\ DateLess(a, b) /\ ~DateGreater(b, c) => DateLess(a, c)
               /\ ~DateGreater(a, b) /\ DateLess(b, c) => DateLess(a, c)
               /\ ~DateGreater(a, b) /\ ~DateGreater(b, c) => ~DateGreater(a, c)
    <2>1. /\ a.year \in Nat /\ a.month \in Nat /\ a.day \in Nat
          /\ b.year \in Nat /\ b.month \in Nat /\ b.day \in Nat
          /\ c.year \in Nat /\ c.month \in Nat /\ c.day \in Nat
      BY <1>2
    <2> QED BY <2>1 DEF DateLess, DateGreater
  <1>5. ASSUME NEW a \in Datetimes, NEW b \in Datetimes, NEW c \in Datetimes,
               DatetimeLess(a, b), DatetimeLess(b, c)
        PROVE  DatetimeLess(a, c)
    <2> DEFINE da == getDate(a)  db == getDate(b)  dc == getDate(c)
               ta == getTime(a)  tb == getTime(b)  tc == getTime(c)
    <2>1. /\ da \in Dates /\ db \in Dates /\ dc \in Dates
          /\ ta \in Times /\ tb \in Times /\ tc \in Times
          /\ a.fraction \in Nat /\ b.fraction \in Nat /\ c.fraction \in Nat
      BY PartsOfDatetime
    <2>2. /\ DateLess(da, db) /\ DateLess(db, dc) => DateLess(da, dc)
          /\ DateLess(da, db) /\ ~DateGreater(db, dc) => DateLess(da, dc)
          /\ ~DateGreater(da, db) /\ DateLess(db, dc) => DateLess(da, dc)
          /\ ~DateGreater(da, db) /\ ~DateGreater(db, dc) => ~DateGreater(da, dc)
      BY <2>1, <1>4
    <2>3. /\ TimeLess(ta, tb) /\ TimeLess(tb, tc) => TimeLess(ta, tc)
          /\ TimeLess(ta, tb) /\ ~TimeGreater(tb, tc) => TimeLess(ta, tc)
          /\ ~TimeGreater(ta, tb) /\ TimeLess(tb, tc) => TimeLess(ta, tc)
          /\ ~TimeGreater(ta, tb) /\ ~TimeGreater(tb, tc) => ~TimeGreater(ta, tc)
      BY <2>1, <1>3
    <2>4. a.fraction < b.fraction /\ b.fraction < c.fraction => a.fraction < c.fraction
      BY <2>1
    <2> HIDE DEF da, db, dc, ta, tb, tc
    <2> QED BY <1>5, <2>2, <2>3, <2>4 DEF DatetimeLess, da, db, dc, ta, tb, tc
  <1> QED BY <1>3, <1>4, <1>5

-----------------------------------------------------------------------------
(* The converters.                                                          *)

\* The recursion of pow() and what it computes.
LEMMA PowIsRecursive ==
  ASSUME NEW x \in Nat, NEW n \in Nat
  PROVE  \E f :
           f \in [0 .. n -> Nat] /\ f[0] = 1 /\ (\A i \in 1 .. n : f[i] = x * f[i - 1]) /\ pow(x, n) = f[n]
  <1> DEFINE step == [i \in 1 .. n |-> [v \in Nat |-> x * v]]
  <1>1. step \in [1 .. n -> [Nat -> Nat]]
    OBVIOUS
  <1>2. PICK g : g \in [0 .. n -> Nat] /\ Computes(g, 1, n, step)
    <2> HIDE DEF step
    <2>1. 1 \in Nat
      OBVIOUS
    <2> QED BY <1>1, <2>1, RecursionDefines, Zenon
  <1>3. g[0] = 1 /\ \A i \in 1 .. n : g[i] = x * g[i - 1]
    <2>1. ASSUME NEW i \in 1 .. n PROVE g[i] = x * g[i - 1]
      <3>1. g[i] = step[i][g[i - 1]]
        BY <1>2 DEF Computes
      <3>2. i - 1 \in 0 .. n
        OBVIOUS
      <3>3. g[i - 1] \in Nat
        BY <1>2, <3>2
      <3> QED BY <3>1, <3>3
    <2> QED BY <1>2, <2>1 DEF Computes
  <1>4. g = [i \in 0 .. n |-> IF i = 0 THEN 1 ELSE x * g[i - 1]]
    BY <1>2, <1>3
  <1>5. PICK f : /\ f = [i \in 0 .. n |-> IF i = 0 THEN 1 ELSE x * f[i - 1]]
                 /\ pow(x, n) = f[n]
    BY <1>4, Zenon DEF pow
  <1>6. f[0] = 1 /\ \A i \in 1 .. n : f[i] = x * f[i - 1]
    BY <1>5
  <1>7. \A i \in 0 .. n : f[i] = g[i]
    <2>1. f[0] = g[0] /\ \A i \in 1 .. n : f[i - 1] = g[i - 1] => f[i] = g[i]
      BY <1>3, <1>6
    <2> QED BY <2>1, AgreeUpTo
  <1>8. f[n] = g[n]
    BY <1>7
  <1> HIDE DEF step
  <1> QED BY <1>2, <1>3, <1>5, <1>8

LEMMA PowNext ==
  ASSUME NEW x \in Nat, NEW n \in Nat
  PROVE  pow(x, n) \in Nat /\ pow(x, n + 1) = x * pow(x, n)
  <1>1. PICK f :
          f \in [0 .. n -> Nat] /\ f[0] = 1 /\ (\A i \in 1 .. n : f[i] = x * f[i - 1]) /\ pow(x, n) = f[n]
    BY PowIsRecursive
  <1>2. PICK g :
          g \in [0 .. n + 1 -> Nat] /\ g[0] = 1 /\ (\A i \in 1 .. n + 1 : g[i] = x * g[i - 1]) /\ pow(x, n + 1) = g[n + 1]
    <2>1. n + 1 \in Nat
      OBVIOUS
    <2> QED BY <2>1, PowIsRecursive, Zenon
  <1>3. \A i \in 0 .. n : f[i] = g[i]
    <2>1. f[0] = g[0] /\ \A i \in 1 .. n : f[i - 1] = g[i - 1] => f[i] = g[i]
      BY <1>1, <1>2
    <2> QED BY <2>1, AgreeUpTo
  <1>4. g[n + 1] = x * g[(n + 1) - 1]
    BY <1>2
  <1> QED BY <1>1, <1>2, <1>3, <1>4

LEMMA PowZero ==
  ASSUME NEW x \in Nat
  PROVE  pow(x, 0) = 1
  BY PowIsRecursive

LEMMA PowPositive ==
  ASSUME NEW n \in Nat
  PROVE  pow(2, n) \in Nat \ {0}
  <1> DEFINE T == {k \in Nat : pow(2, k) \in Nat \ {0}}
  <1>1. 0 \in T
    BY PowZero
  <1>2. ASSUME NEW k \in Nat, k \in T PROVE k + 1 \in T
    BY <1>2, PowNext
  <1>3. Nat \subseteq T
    <2> HIDE DEF T
    <2> QED BY <1>1, <1>2, Induction
  <1> QED BY <1>3

\* A residue is told by a multiple of the modulus and a number below it.
LEMMA ResidueIs ==
  ASSUME NEW m \in Nat \ {0}, NEW q \in Int, NEW r \in 0 .. m - 1, NEW x, x = m * q + r
  PROVE  x % m = r
  <1> DEFINE k == x \div m
             s == x % m
  <1>1. x \in Int /\ k \in Int /\ s \in 0 .. m - 1 /\ x = m * k + s
    OBVIOUS
  <1> HIDE DEF k, s
  <1>2. m * (q - k) = s - r
    BY <1>1
  <1>3. ~(q - k >= 1)
    <2> SUFFICES ASSUME q - k >= 1 PROVE FALSE
      OBVIOUS
    <2>1. m * (q - k) >= m
      BY <1>1
    <2> QED BY <1>1, <1>2, <2>1
  <1>4. ~(q - k <= -1)
    <2> SUFFICES ASSUME q - k <= -1 PROVE FALSE
      OBVIOUS
    <2>1. m * (q - k) <= -m
      BY <1>1
    <2> QED BY <1>1, <1>2, <2>1
  <1>5. q = k
    BY <1>1, <1>3, <1>4
  <1>6. s = r
    BY <1>1, <1>5
  <1> QED BY <1>6 DEF s

LEMMA Residue ==
  ASSUME NEW m \in Nat \ {0}, NEW x \in Int
  PROVE  \E q \in Int : x = m * q + (x % m) /\ x % m \in 0 .. m - 1
  <1>1. x \div m \in Int /\ x = m * (x \div m) + (x % m) /\ x % m \in 0 .. m - 1
    OBVIOUS
  <1> QED BY <1>1, Zenon

\* What ToIntegerParserImpl adds for a digit, and what the digit adds to the value.
LEMMA AddDigit ==
  ASSUME NEW m \in Nat \ {0}, NEW value \in Nat, NEW digit \in Digits, NEW p \in Nat
  PROVE  (((value * (10 * p)) % m) + digit * (p % m)) % m = ((10 * value + digit) * p) % m
  <1> DEFINE x == value * (10 * p)
             y == (x % m) + digit * (p % m)
  <1>1. x \in Int /\ p \in Int /\ (10 * value + digit) * p = x + digit * p
    BY DEF Digits
  <1> HIDE DEF x
  <1>2. PICK a \in Int : x = m * a + (x % m) /\ x % m \in 0 .. m - 1
    BY <1>1, Residue, Zenon
  <1>3. PICK b \in Int : p = m * b + (p % m) /\ p % m \in 0 .. m - 1
    BY <1>1, Residue, Zenon
  <1>4. y \in Int
    BY <1>2, <1>3 DEF Digits
  <1>5. PICK c \in Int : y = m * c + (y % m) /\ y % m \in 0 .. m - 1
    BY <1>4, Residue
  <1> DEFINE xm == x % m
             pm == p % m
             ym == y % m
  <1>6. x + digit * p = m * (a + digit * b + c) + ym
    <2>1. x = m * a + xm /\ p = m * b + pm /\ xm + digit * pm = m * c + ym
      BY <1>2, <1>3, <1>5
    <2>2. xm \in Int /\ pm \in Int /\ ym \in Int /\ digit \in Int
      BY <1>2, <1>3, <1>5 DEF Digits
    <2> HIDE DEF xm, pm, ym
    <2>3. digit * p = digit * (m * b) + digit * pm
      BY <2>1, <2>2
    <2>4. digit * (m * b) = m * (digit * b)
      BY <2>2
    <2>5. m * (a + digit * b + c) = m * a + m * (digit * b) + m * c
      BY <2>2
    <2> QED BY <2>1, <2>2, <2>3, <2>4, <2>5
  <1>7. (x + digit * p) % m = y % m
    <2>1. a + digit * b + c \in Int
      BY DEF Digits
    <2>2. x + digit * p = m * (a + digit * b + c) + ym /\ ym \in 0 .. m - 1
      BY <1>5, <1>6
    <2> HIDE DEF y, xm, pm, ym
    <2>3. (x + digit * p) % m = ym
      BY <2>1, <2>2, ResidueIs
    <2> QED BY <2>3 DEF ym
  <1> QED BY <1>1, <1>7 DEF x

LEMMA DigitsAreCodes ==
  ASSUME NEW digit \in Digits
  PROVE  CodeOf(digit) = digit /\ digit \in Nat
  BY ConvertersAssumption DEF CodeOf, Digits

LEMMA ModulusIsNumber ==
  ASSUME NEW width \in Nat
  PROVE  Modulus(width) \in Nat \ {0}
  BY PowPositive DEF Modulus

LEMMA BaseIsNumber ==
  ASSUME NEW width \in Nat, NEW n \in Nat
  PROVE  Base(width, n) \in Nat
  <1>1. Modulus(width) \in Nat \ {0}
    BY ModulusIsNumber
  <1>2. pow(10, n) \in Nat
    BY PowNext
  <1> HIDE DEF Modulus
  <1> QED BY <1>1, <1>2 DEF Base

\* The recursion of ToIntegerParserImpl on a numeral.
LEMMA ParserIsRecursive ==
  ASSUME NEW text \in Seq(Digits), NEW width \in Nat
  PROVE  \E f : /\ f[0] = 0
                /\ \A i \in 1 .. Len(text) :
                     f[i] = (f[i - 1] + text[i] * Base(width, Len(text) - i)) % Modulus(width)
                /\ ParserImpl(text, width) = f[Len(text)]
  <1> DEFINE top == Len(text)
             m == Modulus(width)
             term(i) == CodeOf(text[i]) * Base(width, Len(text) - i)
             step == [i \in 1 .. top |-> [v \in Int |-> (v + term(i)) % m]]
  <1>1. top \in Nat /\ m \in Nat \ {0} /\ 0 \in Int
    BY ModulusIsNumber
  <1>2. ASSUME NEW i \in 1 .. top PROVE term(i) \in Int /\ CodeOf(text[i]) = text[i]
    <2>1. text[i] \in Digits /\ top - i \in Nat
      BY <1>1
    <2>2. CodeOf(text[i]) = text[i] /\ text[i] \in Nat
      BY <2>1, DigitsAreCodes
    <2>3. Base(width, top - i) \in Nat
      BY <2>1, BaseIsNumber
    <2> QED BY <2>2, <2>3
  <1> HIDE DEF top, m
  <1>3. step \in [1 .. top -> [Int -> Int]]
    <2> HIDE DEF term
    <2> QED BY <1>1, <1>2
  <1>4. PICK g : g \in [0 .. top -> Int] /\ Computes(g, 0, top, step)
    <2> HIDE DEF step
    <2> QED BY <1>1, <1>3, RecursionDefines, Zenon
  <1>5. g[0] = 0 /\ \A i \in 1 .. top : g[i] = (g[i - 1] + term(i)) % m
    <2>1. ASSUME NEW i \in 1 .. top PROVE g[i] = (g[i - 1] + term(i)) % m
      <3>1. g[i] = step[i][g[i - 1]]
        BY <1>4 DEF Computes
      <3>2. i - 1 \in 0 .. top
        BY <1>1
      <3>3. g[i - 1] \in Int
        BY <1>4, <3>2
      <3> HIDE DEF term
      <3> QED BY <3>1, <3>3
    <2> QED BY <1>4, <2>1 DEF Computes
  <1>6. g = [i \in 0 .. top |-> IF i = 0 THEN 0 ELSE (g[i - 1] + term(i)) % m]
    <2> HIDE DEF term
    <2> QED BY <1>1, <1>4, <1>5
  <1>7. PICK f : /\ f = [i \in 0 .. Len(text) |-> IF i = 0 THEN 0 ELSE (f[i - 1] + term(i)) % Modulus(width)]
                 /\ ParserImpl(text, width) = f[Len(text)]
    BY <1>6, Zenon DEF ParserImpl, top, m
  <1>8. f[0] = 0 /\ \A i \in 1 .. top : f[i] = (f[i - 1] + term(i)) % m
    <2> HIDE DEF term
    <2> QED BY <1>1, <1>7 DEF top, m
  <1> QED BY <1>2, <1>7, <1>8 DEF top, m

\* The largest number of a set.
LEMMA MaxIs ==
  ASSUME NEW S, S \subseteq Int, NEW x \in S, \A y \in S : y <= x
  PROVE  Max(S) = x
  <1>1. \E c \in S : \A y \in S : c >= y
    OBVIOUS
  <1>2. Max(S) \in S /\ \A y \in S : Max(S) >= y
    BY <1>1, Zenon DEF Max
  <1>3. Max(S) \in Int /\ Max(S) >= x /\ Max(S) <= x
    BY <1>2
  <1> QED BY <1>3

LEMMA MaxExists ==
  ASSUME NEW n \in Nat, NEW S, S \subseteq 1 .. n, S # {}
  PROVE  Max(S) \in S /\ \A y \in S : y <= Max(S)
  <1> DEFINE T == {n - y : y \in S}
  <1>1. T \subseteq Nat /\ T # {}
    <2>1. ASSUME NEW y \in S PROVE n - y \in Nat
      OBVIOUS
    <2>2. PICK y \in S : TRUE
      OBVIOUS
    <2>3. n - y \in T
      OBVIOUS
    <2> QED BY <2>1, <2>3
  <1>2. PICK t \in T : \A u \in T : t <= u
    <2> HIDE DEF T
    <2> QED BY <1>1, Smallest
  <1>3. PICK x \in S : t = n - x
    OBVIOUS
  <1>4. ASSUME NEW y \in S PROVE y <= x
    <2>1. n - y \in T
      OBVIOUS
    <2>2. n - x <= n - y
      BY <1>2, <1>3, <2>1
    <2> QED BY <2>2
  <1>5. Max(S) = x
    <2>1. S \subseteq Int /\ \A y \in S : y <= x
      BY <1>4
    <2> QED BY <2>1, MaxIs
  <1> QED BY <1>4, <1>5

\* The fold of DecimalValue, on the places of a numeral up to one of them.
LEMMA FoldExists ==
  ASSUME NEW digits, NEW top \in Nat
  PROVE  \E f : f = [s \in SUBSET (1 .. top) |->
                      IF s = {} THEN 0 ELSE 10 * f[s \ {Max(s)}] + digits[Max(s)]]
  <1> DEFINE IsFold(f, n) == f = [s \in SUBSET (1 .. n) |->
                      IF s = {} THEN 0 ELSE 10 * f[s \ {Max(s)}] + digits[Max(s)]]
             T == {n \in 0 .. top : \E f : IsFold(f, n)}
  <1>1. 0 \in T
    <2> DEFINE f == [s \in SUBSET (1 .. 0) |-> 0]
    <2>1. \A s \in SUBSET (1 .. 0) : s = {}
      OBVIOUS
    <2>2. f = [s \in SUBSET (1 .. 0) |->
                 IF s = {} THEN 0 ELSE 10 * f[s \ {Max(s)}] + digits[Max(s)]]
      BY <2>1
    <2>3. IsFold(f, 0)
      BY <2>2, Zenon
    <2> HIDE DEF f, IsFold
    <2> QED BY <2>3
  <1>2. ASSUME NEW n \in 0 .. top - 1, n \in T PROVE n + 1 \in T
    <2>1. PICK f : IsFold(f, n)
      BY <1>2
    <2> DEFINE g == [s \in SUBSET (1 .. n + 1) |->
                       IF n + 1 \in s THEN 10 * f[s \ {n + 1}] + digits[n + 1] ELSE f[s]]
               Rule(s) == IF s = {} THEN 0 ELSE 10 * g[s \ {Max(s)}] + digits[Max(s)]
    <2>2. ASSUME NEW s \in SUBSET (1 .. n + 1) PROVE g[s] = Rule(s)
      <3>1. CASE n + 1 \in s
        <4>1. Max(s) = n + 1
          <5>1. s \subseteq Int /\ \A y \in s : y <= n + 1
            OBVIOUS
          <5> QED BY <3>1, <5>1, MaxIs
        <4>2. s \ {n + 1} \in SUBSET (1 .. n + 1) /\ n + 1 \notin s \ {n + 1} /\ s # {}
          BY <3>1
        <4>3. g[s \ {n + 1}] = f[s \ {n + 1}]
          BY <4>2
        <4>4. g[s] = 10 * f[s \ {n + 1}] + digits[n + 1]
          BY <3>1
        <4> HIDE DEF g
        <4> QED BY <4>1, <4>2, <4>3, <4>4, Zenon
      <3>2. CASE n + 1 \notin s
        <4>1. s \in SUBSET (1 .. n) /\ g[s] = f[s]
          BY <3>2
        <4>2. f[s] = IF s = {} THEN 0 ELSE 10 * f[s \ {Max(s)}] + digits[Max(s)]
          BY <2>1, <4>1, Zenon
        <4>3. g[s \ {Max(s)}] = f[s \ {Max(s)}]
          BY <3>2
        <4> HIDE DEF g
        <4> QED BY <4>1, <4>2, <4>3, Zenon
      <3> QED BY <3>1, <3>2
    <2>3. g = [s \in SUBSET (1 .. n + 1) |-> g[s]]
      BY Zenon
    <2>4. IsFold(g, n + 1)
      <3> HIDE DEF g
      <3> QED BY <2>2, <2>3, Zenon
    <2> HIDE DEF g, IsFold
    <2> QED BY <2>4
  <1>3. 0 .. top \subseteq T
    <2> HIDE DEF T
    <2> QED BY <1>1, <1>2, InductionUpTo
  <1>4. top \in T
    <2> HIDE DEF T
    <2> QED BY <1>3
  <1> QED BY <1>4, Zenon

\* The decimal value of a numeral, digit by digit.
LEMMA DecimalIsRecursive ==
  ASSUME NEW digits \in Seq(Digits)
  PROVE  \E v : /\ v[0] = 0
                /\ \A i \in 1 .. Len(digits) : v[i] = 10 * v[i - 1] + digits[i]
                /\ DecimalValue(digits) = v[Len(digits)]
  <1> DEFINE top == Len(digits)
  <1>1. top \in Nat /\ DOMAIN digits = 1 .. top
    OBVIOUS
  <1> HIDE DEF top
  <1>2. \E f : f = [s \in SUBSET DOMAIN digits |->
                      IF s = {} THEN 0 ELSE 10 * f[s \ {Max(s)}] + digits[Max(s)]]
    <2>1. \E f : f = [s \in SUBSET (1 .. top) |->
                        IF s = {} THEN 0 ELSE 10 * f[s \ {Max(s)}] + digits[Max(s)]]
      BY <1>1, FoldExists, Zenon
    <2> QED BY <1>1, <2>1, Zenon
  <1>3. PICK f : /\ f = [s \in SUBSET DOMAIN digits |->
                          IF s = {} THEN 0 ELSE 10 * f[s \ {Max(s)}] + digits[Max(s)]]
                 /\ DecimalValue(digits) = f[DOMAIN digits]
    BY <1>2, Zenon DEF DecimalValue, FoldLeft, MapThenFoldSet
  <1> DEFINE v == [i \in 0 .. top |-> f[1 .. i]]
  <1>4. v[0] = 0
    <2>1. 1 .. 0 = {} /\ {} \in SUBSET DOMAIN digits /\ v[0] = f[1 .. 0]
      BY <1>1
    <2>2. f[{}] = 0
      BY <1>3, <2>1
    <2> QED BY <2>1, <2>2, Zenon
  <1>5. ASSUME NEW i \in 1 .. top PROVE v[i] = 10 * v[i - 1] + digits[i]
    <2>1. 1 .. i \in SUBSET DOMAIN digits /\ 1 .. i # {}
      BY <1>1
    <2>2. Max(1 .. i) = i
      <3>1. 1 .. i \subseteq Int /\ i \in 1 .. i /\ \A y \in 1 .. i : y <= i
        OBVIOUS
      <3> QED BY <3>1, MaxIs
    <2>3. (1 .. i) \ {i} = 1 .. i - 1
      OBVIOUS
    <2>4. f[1 .. i] = 10 * f[1 .. i - 1] + digits[i]
      BY <1>3, <2>1, <2>2, <2>3, Zenon
    <2>5. v[i] = f[1 .. i] /\ v[i - 1] = f[1 .. i - 1]
      BY <1>1
    <2> QED BY <2>4, <2>5, Zenon
  <1>6. DecimalValue(digits) = v[top]
    BY <1>1, <1>3
  <1> HIDE DEF v
  <1> QED BY <1>4, <1>5, <1>6, Zenon DEF top

\* The parser computes the decimal value modulo the type's range.
LEMMA ParserComputesValue ==
  ASSUME NEW text \in Seq(Digits), NEW width \in Nat
  PROVE  /\ ParserImpl(text, width) = DecimalValue(text) % Modulus(width)
         /\ DecimalValue(text) \in Nat
  <1> DEFINE top == Len(text)
             m == Modulus(width)
  <1>1. top \in Nat /\ m \in Nat \ {0}
    BY ModulusIsNumber
  <1>2. PICK f : /\ f[0] = 0
                 /\ \A i \in 1 .. Len(text) :
                      f[i] = (f[i - 1] + text[i] * Base(width, Len(text) - i)) % Modulus(width)
                 /\ ParserImpl(text, width) = f[Len(text)]
    BY ParserIsRecursive, Zenon
  <1>3. PICK v : /\ v[0] = 0
                 /\ \A i \in 1 .. Len(text) : v[i] = 10 * v[i - 1] + text[i]
                 /\ DecimalValue(text) = v[Len(text)]
    BY DecimalIsRecursive, Zenon
  <1> DEFINE T == {i \in 0 .. top : v[i] \in Nat /\ f[i] = (v[i] * pow(10, top - i)) % m}
  <1> HIDE DEF top, m
  <1>4. \A k \in Nat : pow(10, k) \in Nat /\ pow(10, k + 1) = 10 * pow(10, k)
    BY PowNext
  <1>5. 0 \in T
    <2>1. top - 0 \in Nat /\ 0 \in 0 .. top
      BY <1>1
    <2>2. pow(10, top - 0) \in Nat
      BY <1>4, <2>1, Zenon
    <2>3. 0 * pow(10, top - 0) = 0 /\ 0 % m = 0
      BY <1>1, <2>2
    <2> QED BY <1>2, <1>3, <2>1, <2>3
  <1>6. ASSUME NEW i \in 0 .. top - 1, i \in T PROVE i + 1 \in T
    <2> DEFINE p == pow(10, top - (i + 1))
               digit == text[i + 1]
    <2>1. i + 1 \in 1 .. top /\ (i + 1) - 1 = i /\ top - (i + 1) \in Nat
          /\ (top - (i + 1)) + 1 = top - i
      BY <1>1
    <2>2. p \in Nat /\ pow(10, top - i) = 10 * p
      BY <1>4, <2>1, Zenon
    <2>3. digit \in Digits /\ digit \in Nat
      BY <2>1 DEF top, Digits
    <2>4. v[i + 1] = 10 * v[i] + digit
      BY <1>3, <2>1 DEF top
    <2>5. f[i + 1] = (f[i] + digit * (p % m)) % m
      BY <1>2, <2>1, Zenon DEF top, m, Base
    <2>6. v[i] \in Nat /\ f[i] = (v[i] * (10 * p)) % m
      BY <1>6, <2>2
    <2> HIDE DEF p, digit
    <2>7. f[i + 1] = ((10 * v[i] + digit) * p) % m
      <3>1. (((v[i] * (10 * p)) % m) + digit * (p % m)) % m = ((10 * v[i] + digit) * p) % m
        <4> DEFINE value == v[i]
        <4>1. value \in Nat
          BY <2>6
        <4> HIDE DEF value
        <4>2. (((value * (10 * p)) % m) + digit * (p % m)) % m = ((10 * value + digit) * p) % m
          BY <1>1, <2>2, <2>3, <4>1, AddDigit
        <4> QED BY <4>2 DEF value
      <3> QED BY <2>5, <2>6, <3>1, Zenon
    <2>8. v[i + 1] \in Nat /\ i + 1 \in 0 .. top
      BY <2>1, <2>3, <2>4, <2>6
    <2> QED BY <2>4, <2>7, <2>8, Zenon DEF p
  <1>7. 0 .. top \subseteq T
    <2> HIDE DEF T
    <2> QED BY <1>1, <1>5, <1>6, InductionUpTo
  <1>8. v[top] \in Nat /\ f[top] = (v[top] * pow(10, top - top)) % m
    BY <1>1, <1>7
  <1>9. pow(10, top - top) = 1
    <2>1. top - top = 0 /\ 10 \in Nat
      BY <1>1
    <2> QED BY <2>1, PowZero, Zenon
  <1>10. v[top] * 1 = v[top]
    BY <1>8
  <1> QED BY <1>2, <1>3, <1>8, <1>9, <1>10, Zenon DEF top, m

\* A type has twice as many values as half its range.
LEMMA HalfRange ==
  ASSUME NEW width \in Widths
  PROVE  /\ Modulus(width) = 2 * pow(2, width - 1)
         /\ pow(2, width - 1) \in Nat \ {0} /\ width \in Nat /\ MaxLength(width) \in Nat
  <1>1. width \in Nat /\ width - 1 \in Nat /\ (width - 1) + 1 = width
    BY ConvertersAssumption
  <1>2. MaxLength(width) \in Nat
    BY ConvertersAssumption DEF MaxLength
  <1>3. pow(2, (width - 1) + 1) = 2 * pow(2, width - 1)
    BY <1>1, PowNext
  <1>4. pow(2, width - 1) \in Nat \ {0}
    BY <1>1, PowPositive
  <1> QED BY <1>1, <1>2, <1>3, <1>4, Zenon DEF Modulus

\* A numeral in an unsigned type, and no other text when it is validated.
LEMMA UnsignedParses ==
  ASSUME NEW text \in Seq(Characters), NEW width \in Widths, NEW validate \in BOOLEAN
  PROVE  LET unsigned == toIntegerUnsigned(text, width, validate)
         IN  /\ IsNumeral(text) =>
                  /\ DecimalValue(text) \in Nat
                  /\ IF Len(text) > MaxLength(width) THEN unsigned = Thrown
                     ELSE unsigned = DecimalValue(text) % Modulus(width)
             /\ validate /\ unsigned # Thrown => IsNumeral(text)
  <1> DEFINE top == Len(text)
             unsigned == toIntegerUnsigned(text, width, validate)
  <1>1. text # NullText
    BY ConvertersAssumption
  <1>2. top \in Nat /\ (text # <<>> <=> top # 0) /\ MaxLength(width) \in Nat
    BY HalfRange
  <1>3. CASE ~IsNumeral(text)
    <2>1. text = <<>> \/ \E i \in 1 .. top : text[i] \notin Digits
      BY <1>3 DEF IsNumeral
    <2>2. validate => unsigned = Thrown
      BY <1>2, <2>1 DEF toIntegerUnsigned
    <2> QED BY <1>3, <2>2
  <1>4. CASE IsNumeral(text)
    <2>1. text \in Seq(Digits) /\ top # 0 /\ ~\E i \in 1 .. top : text[i] \notin Digits
      BY <1>2, <1>4 DEF IsNumeral
    <2>2. /\ ParserImpl(text, width) = DecimalValue(text) % Modulus(width)
          /\ DecimalValue(text) \in Nat
      BY <2>1, HalfRange, ParserComputesValue
    <2>3. CASE top > MaxLength(width)
      <3>1. unsigned = Thrown
        BY <1>2, <2>3 DEF toIntegerUnsigned
      <3> QED BY <1>4, <2>2, <2>3, <3>1
    <2>4. CASE ~(top > MaxLength(width))
      <3>1. top \in 1 .. MaxLength(width)
        BY <1>2, <2>1, <2>4
      <3>2. unsigned = ParserImpl(text, width)
        BY <1>1, <2>1, <3>1, Zenon DEF toIntegerUnsigned
      <3> QED BY <1>4, <2>2, <2>4, <3>2
    <2> QED BY <2>3, <2>4
  <1> QED BY <1>3, <1>4

\* A number converted to the signed type and, when a sign was read, negated there.
LEMMA SignedValue ==
  ASSUME NEW width \in Widths, NEW n \in Nat
  PROVE  /\ n < pow(2, width - 1) => AsSigned(n % Modulus(width), width) = n
         /\ n <= pow(2, width - 1) =>
              Negated(n % Modulus(width), width) =
                IF width >= IntWidth /\ -n = Least(width) THEN Undefined ELSE -n
  <1> DEFINE h == pow(2, width - 1)
             m == Modulus(width)
  <1>1. h \in Nat \ {0} /\ m = 2 * h /\ m \in Nat \ {0}
    BY HalfRange
  <1>2. \A k : AsSigned(k, width) = IF k < h THEN k ELSE k - m
    BY DEF AsSigned
  <1> HIDE DEF h, m
  <1>3. ASSUME n <= h PROVE n % m = n
    <2>1. n \in 0 .. m - 1 /\ n = m * 0 + n /\ 0 \in Int
      BY <1>1, <1>3
    <2> QED BY <1>1, <2>1, ResidueIs
  <1>4. ASSUME n < h PROVE AsSigned(n % m, width) = n
    BY <1>1, <1>2, <1>3, <1>4
  <1>5. ASSUME n <= h PROVE AsSigned((-(n % m)) % m, width) = -n
    <2>1. n % m = n
      BY <1>3, <1>5
    <2>2. CASE n = 0
      <3>1. (-0) % m = 0
        BY <1>1
      <3> QED BY <1>1, <1>2, <2>1, <2>2, <3>1
    <2>3. CASE n # 0
      <3>1. (-n) % m = m - n
        <4>1. m - n \in 0 .. m - 1 /\ -n = m * (-1) + (m - n) /\ -1 \in Int
          BY <1>1, <1>5, <2>3
        <4> QED BY <1>1, <4>1, ResidueIs
      <3> QED BY <1>1, <1>2, <1>5, <2>1, <2>3, <3>1
    <2> QED BY <2>2, <2>3
  <1>6. ASSUME n <= h PROVE AsSigned(n % m, width) = -h <=> -n = -h
    BY <1>1, <1>2, <1>3, <1>6
  <1>7. ASSUME n <= h
        PROVE  Negated(n % m, width) =
                 IF width >= IntWidth /\ -n = -h THEN Undefined ELSE -n
    BY <1>5, <1>6, <1>7, Zenon DEF Negated, Least, h, m
  <1> QED BY <1>4, <1>7, Zenon DEF Least, h, m

\* Every text of a field, of any length, becomes the number it shows in a type of any
\* width, or an exception; but the text of the least value of a 32- or 64-bit type
\* makes `result * -1' overflow, which the theorem says is undefined.
THEOREM AnyTextParsesRight ==
  ASSUME NEW text \in Seq(Characters), NEW width \in Widths, NEW validate \in BOOLEAN
  PROVE  ParsesRight(text, width, validate)
  <1> DEFINE unsigned == toIntegerUnsigned(text, width, validate)
             signed == toIntegerSigned(text, width, validate)
             digits == Magnitude(text)
             below == toIntegerUnsigned(digits, width, validate)
             isNegative == text # <<>> /\ Head(text) = Minus
             value == IF digits = text THEN DecimalValue(digits) ELSE -DecimalValue(digits)
             h == pow(2, width - 1)
             m == Modulus(width)
  <1>1. text # NullText /\ Minus \notin Int /\ Letter \notin Int /\ Thrown \notin Int
    BY ConvertersAssumption
  <1>2. digits \in Seq(Characters) /\ (isNegative <=> digits # text)
    <2>1. CASE isNegative
      <3>1. Len(Tail(text)) # Len(text) /\ Tail(text) \in Seq(Characters)
        BY <2>1
      <3> QED BY <2>1, <3>1 DEF Magnitude
    <2>2. CASE ~isNegative
      BY <2>2 DEF Magnitude
    <2> QED BY <2>1, <2>2
  <1>3. /\ IsNumeral(text) =>
             /\ DecimalValue(text) \in Nat
             /\ IF Len(text) > MaxLength(width) THEN unsigned = Thrown
                ELSE unsigned = DecimalValue(text) % m
        /\ validate /\ unsigned # Thrown => IsNumeral(text)
    BY UnsignedParses
  <1>4. /\ IsNumeral(digits) =>
             /\ DecimalValue(digits) \in Nat
             /\ IF Len(digits) > MaxLength(width) THEN below = Thrown
                ELSE below = DecimalValue(digits) % m
        /\ validate /\ below # Thrown => IsNumeral(digits)
    <2> HIDE DEF digits
    <2> QED BY <1>2, UnsignedParses
  <1>5. signed = IF below = Thrown THEN Thrown
                 ELSE IF isNegative THEN Negated(below, width) ELSE AsSigned(below, width)
    BY <1>1, Zenon DEF toIntegerSigned, Magnitude
  <1>6. IsNumeral(text) => ~isNegative
    <2>1. text # <<>> => Head(text) = text[1] /\ 1 \in 1 .. Len(text)
      OBVIOUS
    <2> QED BY <1>1, <2>1 DEF IsNumeral, Digits
  <1>7. h \in Nat \ {0} /\ m \in Nat \ {0} /\ m = 2 * h /\ MaxLength(width) \in Nat
    BY HalfRange
  <1> HIDE DEF unsigned, signed, digits, below, isNegative, h, m
  <1>8. ASSUME IsNumeral(digits), Len(digits) <= MaxLength(width), -h <= value, value < h
        PROVE  signed = IF width >= IntWidth /\ value = -h THEN Undefined ELSE value
    <2>1. Len(digits) \in Nat /\ ~(Len(digits) > MaxLength(width))
      BY <1>2, <1>7, <1>8
    <2>2. below = DecimalValue(digits) % m /\ DecimalValue(digits) \in Nat /\ below # Thrown
      BY <1>1, <1>4, <1>7, <1>8, <2>1
    <2>3. CASE isNegative
      <3>1. DecimalValue(digits) <= h /\ value = -DecimalValue(digits)
        BY <1>2, <1>7, <1>8, <2>2, <2>3
      <3>2. Negated(DecimalValue(digits) % m, width) =
              IF width >= IntWidth /\ -DecimalValue(digits) = -h THEN Undefined
              ELSE -DecimalValue(digits)
        BY <2>2, <3>1, SignedValue DEF Least, h, m
      <3> QED BY <1>5, <2>2, <2>3, <3>1, <3>2, Zenon
    <2>4. CASE ~isNegative
      <3>1. DecimalValue(digits) < h /\ value = DecimalValue(digits)
        BY <1>2, <1>7, <1>8, <2>2, <2>4
      <3>2. AsSigned(DecimalValue(digits) % m, width) = DecimalValue(digits)
        BY <2>2, <3>1, SignedValue DEF h, m
      <3>3. value # -h
        BY <1>7, <2>2, <3>1
      <3> QED BY <1>5, <2>2, <2>4, <3>1, <3>2, <3>3
    <2> QED BY <2>3, <2>4
  <1>9. ASSUME IsNumeral(text), unsigned = value, value < h
        PROVE  /\ FieldTo(text, "unsigned", width) = FieldTo(text, "signed", width)
               /\ FieldTo(text, "floating", width) = text
    <2>1. digits = text /\ ~isNegative
      BY <1>2, <1>6, <1>9
    <2>2. value \in Nat
      BY <1>3, <1>9, <2>1
    <2>3. Len(text) <= MaxLength(width)
      BY <1>1, <1>3, <1>7, <1>9, <2>2
    <2>4. \A v \in BOOLEAN : toIntegerUnsigned(text, width, v) = value
      <3>1. unsigned = DecimalValue(text) % m
        BY <1>3, <1>7, <1>9, <2>3
      <3>2. \A v \in BOOLEAN : toIntegerUnsigned(text, width, v) = DecimalValue(text) % m
        BY <1>7, <1>9, <2>3, UnsignedParses DEF m
      <3> QED BY <1>9, <3>1, <3>2
    <2>5. FieldTo(text, "unsigned", width) = value
      BY <2>4 DEF FieldTo
    <2>6. AsSigned(value, width) = value
      BY <1>9 DEF AsSigned, h
    <2>7. toIntegerSigned(text, width, FALSE) = value
      <3>1. value # Thrown
        BY <1>1, <2>2
      <3>2. ~(text # <<>> /\ Head(text) = Minus)
        BY <2>1 DEF isNegative
      <3> HIDE DEF value
      <3> QED BY <1>1, <2>4, <2>6, <3>1, <3>2, Zenon DEF toIntegerSigned
    <2>8. toFloatingPoint(text) = text
      BY <1>1, <1>9 DEF toFloatingPoint, FloatPrefix, IsNumeral
    <2>9. FieldTo(text, "signed", width) = value /\ FieldTo(text, "floating", width) = text
      BY <2>7, <2>8 DEF FieldTo
    <2> QED BY <2>5, <2>9
  <1>10. ASSUME validate, signed # Thrown PROVE IsNumeral(digits)
    BY <1>4, <1>5, <1>10
  <1> QED BY <1>3, <1>8, <1>9, <1>10, Zenon DEF ParsesRight, Least, unsigned, signed, digits, h, m
=============================================================================
