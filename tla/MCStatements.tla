---------------------------- MODULE MCStatements ----------------------------
(* Both kinds of prepared statement and the values they carry, for TLC, which  *)
(* explores one of them: they have no state in common.  One kind, "sample",    *)
(* tries the functions of Converters, Temporal and MetadataModes on one input  *)
(* at a time.                                                                  *)
EXTENDS DynamicStatement, StaticStatement, Nullable, ArrayData, Converters, Temporal, TLC

\* A Nullable and a plain integer; a column of type String is for neither of them.
CONSTANTS optional, integer, NoSample

VARIABLES
  kind,   \* what is explored
  sample  \* the input tried, or NoSample

MCInit ==
  /\ kind \in {"dynamic", "static", "nullable", "array", "sample"}
  /\ DynamicInit /\ StaticInit /\ NullableInit /\ ArrayInit /\ sample = NoSample
  \* What is fixed for a type matters to its own kind only.
  /\ kind = "dynamic" \/ validateMode = "Disabled"
  /\ kind = "static" \/ (~column /\ ~template.nullable /\ ~template.ignoreNullable)
  /\ kind = "nullable" \/ ~trivial

-----------------------------------------------------------------------------

\* Every text of up to four characters, and the boundaries of a 16-bit integer.
MCTexts ==
  BoundedSeq({Minus, Letter, 0, 2, 5, 9}, 4) \cup
    {<<6, 5, 5, 3, 5>>, <<6, 5, 5, 3, 6>>, <<9, 9, 9, 9, 9>>, <<1, 0, 0, 0, 0, 0>>,
     <<3, 2, 7, 6, 7>>, <<3, 2, 7, 6, 8>>, <<Minus, 3, 2, 7, 6, 8>>, <<Minus, 3, 2, 7, 6, 9>>,
     <<Minus, 1, 2, 8>>, <<6, Letter, 5, 3, 5>>, <<6, 5, 5, 3, Letter>>}

Samples ==
  [of : {"text"}, text : MCTexts, width : Widths, validate : BOOLEAN]
    \cup [of : {"time"}, a : Times, b : Times]
    \cup [of : {"date"}, a : Dates, b : Dates]
    \cup [of : {"datetime"}, a : Datetimes, b : Datetimes]
    \cup [of : {"types"}, from : FieldTypes, fromUnsigned : BOOLEAN,
           to : FieldTypes, toUnsigned : BOOLEAN]

Sampled(of) == sample # NoSample /\ sample.of = of

\* The texts become the numbers they show, or an exception.
NumbersParseRight ==
  Sampled("text") => ParsesRight(sample.text, sample.width, sample.validate)

\* Five hand-written comparisons of each of three classes are one order each, and
\* the parts of a Datetime make it up.
ValuesAreOrdered ==
  /\ Sampled("time") => TimesOrdered(sample.a, sample.b)
  /\ Sampled("date") => DatesOrdered(sample.a, sample.b)
  /\ Sampled("datetime") => DatetimesOrdered(sample.a, sample.b) /\ PutTogether(sample.a)

\* "Converting to bigger type" loses no value, whatever the types and signs.
PromotionsLoseNothing ==
  Sampled("types") =>
    LosesNothing(sample.from, sample.fromUnsigned, sample.to, sample.toUnsigned)

\* A more lenient mode accepts what a stricter one accepts.
ModesAreNested ==
  Sampled("types") => Nested(sample.from, sample.fromUnsigned, sample.to, sample.toUnsigned)

-----------------------------------------------------------------------------

MCNext ==
  \/ /\ kind = "dynamic" /\ DynamicNext
     /\ UNCHANGED <<kind, sample, staticVars, nullableVars, arrayVars>>
  \/ /\ kind = "static" /\ StaticNext
     /\ UNCHANGED <<kind, sample, dynamicVars, nullableVars, arrayVars>>
  \/ /\ kind = "nullable" /\ NullableNext
     /\ UNCHANGED <<kind, sample, dynamicVars, staticVars, arrayVars>>
  \/ /\ kind = "array" /\ ArrayNext
     /\ UNCHANGED <<kind, sample, dynamicVars, staticVars, nullableVars>>
  \/ /\ kind = "sample"
     /\ IF sample = NoSample THEN sample' \in Samples ELSE sample' = NoSample
     /\ UNCHANGED <<kind, dynamicVars, staticVars, nullableVars, arrayVars>>

mcVars == <<kind, sample, dynamicVars, staticVars, nullableVars, arrayVars>>

MCSpec == MCInit /\ [][MCNext]_mcVars

\* The types of everything a statement and its values keep.
ValuesTypeOK == DynamicTypeOK /\ StaticTypeOK /\ NullableTypeOK /\ ArrayTypeOK

MCSymmetry == Permutations(Slots)

MCBinding(type, nullable) ==
  [set |-> TRUE, type |-> type, unsigned |-> FALSE, nullable |-> nullable]
MCColumn(type, nullable) == [type |-> type, unsigned |-> FALSE, nullable |-> nullable]

MCVariables == {optional, integer}
MCBindingOf == [v \in MCVariables |-> MCBinding("LongLong", v = optional)]

\* No result, one result, and two of different form.
MCAnswers ==
  {<< <<>> >>,
   << <<MCColumn("Long", TRUE)>> >>,
   << <<MCColumn("Short", FALSE), MCColumn("Long", TRUE)>> >>,
   << <<MCColumn("Long", TRUE)>>, <<MCColumn("Short", FALSE), MCColumn("Long", TRUE)>> >>,
   << <<MCColumn("Short", FALSE)>>, <<MCColumn("String", TRUE)>> >>}

\* Two results of different form, described alike whenever the first one is current.
MCProcedureAnswers ==
  {<< <<MCColumn("Long", TRUE)>>, <<MCColumn("Short", FALSE), MCColumn("Long", TRUE)>> >>,
   << <<MCColumn("Long", TRUE)>>, <<MCColumn("String", TRUE)>> >>}
=============================================================================
