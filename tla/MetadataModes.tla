--------------------------- MODULE MetadataModes ---------------------------
(***************************************************************************)
(* validate_metadata_modes.hpp, field_types.hpp, get_binding_type.hpp and  *)
(* the types that initialize_bindings.hpp gives to a binding: which column *)
(* may be read into which variable.                                        *)
(***************************************************************************)
EXTENDS Naturals

NumericTypes == {"Tiny", "Short", "Int24", "Long", "LongLong", "Float", "Double"}
TimeTypes == {"Time", "Date", "Datetime", "Timestamp", "Year"}
ByteTypes == {"String", "VarString", "Blob", "TinyBlob", "MediumBlob", "LongBlob"}
FieldTypes ==
  NumericTypes \cup TimeTypes \cup ByteTypes
    \cup {"Decimal", "NewDecimal", "Enum", "Set", "Bit", "Geometry", "Null"}

Modes == {"Disabled", "Strict", "Same", "ArithmeticPromotions", "ArithmeticConversions"}

\* Types of the server that the enumeration lacks.
OtherTypes == {"Json", "NewDate", "Varchar"}

\* toFieldType throws out_of_range.
toFieldTypeThrows(type) == type \notin FieldTypes

\* Types with one representation; every other type has a number of its own.
SameTypes == {{"Short", "Year"}, {"Int24", "Long"}, {"Datetime", "Timestamp"}, ByteTypes}
sameTypeId(from, to) == from = to \/ \E types \in SameTypes : {from, to} \subseteq types

fieldTypeHasSign(type) == type \in {"Tiny", "Short", "Int24", "Long", "LongLong"}

fieldSignsMatch(from, fromUnsigned, to, toUnsigned) ==
  fromUnsigned = toUnsigned \/ ~(fieldTypeHasSign(from) \/ fieldTypeHasSign(to))

Strict(from, fromUnsigned, to, toUnsigned) ==
  from = to /\ fieldSignsMatch(from, fromUnsigned, to, toUnsigned)

Same(from, fromUnsigned, to, toUnsigned) ==
  fieldSignsMatch(from, fromUnsigned, to, toUnsigned) /\ sameTypeId(from, to)

\* The types that the inner switch of a numeric type accepts whatever the signs,
\* and those it accepts when the signs agree.
Wider(from) ==
  CASE from = "Tiny" -> {"Short", "Int24", "Long", "LongLong", "Float", "Double"}
    [] from = "Short" -> {"Int24", "Long", "LongLong", "Float", "Double"}
    [] from \in {"Int24", "Long"} -> {"LongLong", "Double"}
    [] from = "Float" -> {"Float", "Double"}
    [] from = "Double" -> {"Double"}
    [] OTHER -> {}

AsWide(from) ==
  CASE from \in {"Tiny", "Short", "LongLong"} -> {from}
    [] from \in {"Int24", "Long"} -> {"Int24", "Long"}
    [] OTHER -> {}

\* Fault: the guard on signed to unsigned is forgotten.
PromotionsNoGuard(from, fromUnsigned, to, toUnsigned) ==
  IF from \in NumericTypes
  THEN to \in Wider(from) \/ (to \in AsWide(from) /\ fromUnsigned = toUnsigned)
  ELSE Same(from, fromUnsigned, to, toUnsigned)

ArithmeticPromotions(from, fromUnsigned, to, toUnsigned) ==
  /\ ~(~fromUnsigned /\ toUnsigned /\ fieldTypeHasSign(from) /\ fieldTypeHasSign(to))
  /\ IF from \in NumericTypes
     THEN to \in Wider(from) \/ (to \in AsWide(from) /\ fromUnsigned = toUnsigned)
     ELSE Same(from, fromUnsigned, to, toUnsigned)

\* Fault: other types are refused.
ConversionsOnlyNumeric(from, fromUnsigned, to, toUnsigned) ==
  from \in NumericTypes /\ to \in NumericTypes

ArithmeticConversions(from, fromUnsigned, to, toUnsigned) ==
  IF from \in NumericTypes
  THEN to \in NumericTypes
  ELSE Same(from, fromUnsigned, to, toUnsigned)

isCompatible(mode, from, fromUnsigned, to, toUnsigned) ==
  CASE mode = "Disabled" -> TRUE
    [] mode = "Strict" -> Strict(from, fromUnsigned, to, toUnsigned)
    [] mode = "Same" -> Same(from, fromUnsigned, to, toUnsigned)
    [] mode = "ArithmeticPromotions" ->
         ArithmeticPromotions(from, fromUnsigned, to, toUnsigned)
    [] mode = "ArithmeticConversions" ->
         ArithmeticConversions(from, fromUnsigned, to, toUnsigned)

-----------------------------------------------------------------------------
(* What a C++ variable is bound as.                                         *)

\* getBindingType: the C types, without their signs, on the platforms where int
\* has 32 bits and long has 64.
BindingType ==
  [char |-> "Tiny", short |-> "Short", int |-> "Long", long |-> "LongLong",
   longlong |-> "LongLong", float |-> "Float", double |-> "Double"]

\* The library's own types.
ClassBindingType ==
  [StringData |-> "String", DecimalData |-> "NewDecimal", BlobData |-> "Blob",
   Date |-> "Date", Time |-> "Time", Datetime |-> "Datetime", Timestamp |-> "Timestamp"]

CTypes == DOMAIN BindingType
ClassTypes == DOMAIN ClassBindingType

initializeBindingType(cType) ==
  IF cType \in CTypes THEN BindingType[cType] ELSE ClassBindingType[cType]

-----------------------------------------------------------------------------
(* Properties of any two types.                                             *)

\* Bits for the magnitude of a value as the client represents it: int for Int24
\* and Long, the mantissa for the floating point types.
Width(type) ==
  CASE type = "Tiny" -> 8 [] type = "Short" -> 16 [] type \in {"Int24", "Long"} -> 32
    [] type = "LongLong" -> 64 [] type = "Float" -> 24 [] type = "Double" -> 53

MagnitudeBits(type, unsigned) ==
  IF fieldTypeHasSign(type) /\ ~unsigned THEN Width(type) - 1 ELSE Width(type)

\* Every value of `from' is a value of `to'.
Holds(from, fromUnsigned, to, toUnsigned) ==
  /\ MagnitudeBits(from, fromUnsigned) <= MagnitudeBits(to, toUnsigned)
  /\ fieldTypeHasSign(from) /\ ~fromUnsigned => ~(fieldTypeHasSign(to) /\ toUnsigned)
  /\ from \in {"Float", "Double"} => to \in {"Float", "Double"}

\* A conversion that ArithmeticPromotions accepts between numeric types loses no
\* value: "converting to bigger type, like Short to Long".
LosesNothing(from, fromUnsigned, to, toUnsigned) ==
  {from, to} \subseteq NumericTypes
    /\ ArithmeticPromotions(from, fromUnsigned, to, toUnsigned)
    => Holds(from, fromUnsigned, to, toUnsigned)

\* A more lenient mode accepts what a stricter one accepts, though the modes have
\* tables of their own.  The one exception in the tables is a Short column read
\* as a Year, which Same accepts and the arithmetic modes do not.
Nested(from, fromUnsigned, to, toUnsigned) ==
  LET accepts(mode) == isCompatible(mode, from, fromUnsigned, to, toUnsigned)
  IN  /\ accepts("Strict") => accepts("Same")
      /\ accepts("Same") /\ ~(from = "Short" /\ to = "Year")
           => accepts("ArithmeticPromotions")
      /\ accepts("ArithmeticPromotions") => accepts("ArithmeticConversions")
      /\ accepts("ArithmeticConversions") => accepts("Disabled")
=============================================================================
