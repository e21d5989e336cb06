-------------------------- MODULE OptionalContract --------------------------
(***************************************************************************)
(* What a Nullable promises whoever looks only at its value: it holds a    *)
(* value or none, and a call changes the objects it names and no other.    *)
(***************************************************************************)
CONSTANTS
  Nullables,    \* the objects
  Payloads,     \* the values of type T
  Nothing,      \* shown by an object without a value
  Unspecified   \* the value of a moved-from object

VARIABLES
  val,    \* what each object shows
  called  \* the last call: its name, its object and its other operand

Shown == Payloads \cup {Nothing, Unspecified}

OptionalInit == val = [x \in Nullables |-> Nothing] /\ called = <<"none">>

\* The object x is given a value.
Set(x, v) ==
  /\ val' = [val EXCEPT ![x] = v]
  /\ called' = <<"set", x, v>>

\* The object x loses its value.
Clear(x) ==
  /\ val' = [val EXCEPT ![x] = Nothing]
  /\ called' = <<"clear", x>>

\* x becomes what y is.
Copy(x, y) ==
  /\ val' = [val EXCEPT ![x] = val[y]]
  /\ called' = <<"copy", x, y>>

\* The same, and if y had a value it still has one, but nobody knows which.
Move(x, y) ==
  /\ \E left \in {val[y], IF val[y] = Nothing THEN Nothing ELSE Unspecified} :
       val' = [val EXCEPT ![x] = val[y], ![y] = left]
  /\ called' = <<"move", x, y>>

Exchange(x, y) ==
  /\ val' = [val EXCEPT ![x] = val[y], ![y] = val[x]]
  /\ called' = <<"swap", x, y>>

\* A row is fetched into x: the value, or nothing.
Fetch(x, v) ==
  /\ val' = [val EXCEPT ![x] = v]
  /\ called' = <<"fetch", x, v>>

\* A call that sets the flag of x: what x held may disappear or come back.
Flag(x) ==
  /\ \E v \in IF val[x] = Nothing THEN Shown ELSE {val[x], Nothing} :
       val' = [val EXCEPT ![x] = v]
  /\ called' = <<"flag", x>>

OptionalNext ==
  \/ \E x \in Nullables :
       \/ Clear(x)
       \/ Flag(x)
       \/ \E v \in Payloads : Set(x, v)
       \/ \E v \in Payloads \cup {Nothing} : Fetch(x, v)
  \/ \E x, y \in Nullables : Copy(x, y) \/ Move(x, y) \/ Exchange(x, y)

OptionalSpec == OptionalInit /\ [][OptionalNext]_<<val, called>>
=============================================================================
