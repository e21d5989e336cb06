--------------------------- MODULE StatementProofs ---------------------------
(***************************************************************************)
(* Proofs about both kinds of prepared statement and the values they       *)
(* carry.                                                                  *)
(*                                                                         *)
(* The two kinds, Nullable and the arrays have no state in common, so each *)
(* has an inductive invariant of its own, and one lemma for each of its    *)
(* actions.                                                                *)
(***************************************************************************)
EXTENDS MCStatements, ValueProofs, SequenceTheorems

-----------------------------------------------------------------------------
(* The metadata modes.                                                      *)

\* A pair of types with one representation, and where they lie.
LEMMA SameTypeCases ==
  ASSUME NEW from, NEW to, sameTypeId(from, to)
  PROVE  \/ from = to
         \/ from \in {"Short", "Year"} /\ to \in {"Short", "Year"}
         \/ from \in {"Int24", "Long"} /\ to \in {"Int24", "Long"}
         \/ from \notin NumericTypes /\ to \notin NumericTypes
  <1>1. CASE from = to
    BY <1>1
  <1>2. ASSUME NEW types \in SameTypes, {from, to} \subseteq types PROVE
         \/ from \in {"Short", "Year"} /\ to \in {"Short", "Year"}
         \/ from \in {"Int24", "Long"} /\ to \in {"Int24", "Long"}
         \/ from \notin NumericTypes /\ to \notin NumericTypes
    <2>1. CASE types = {"Short", "Year"}
      BY <1>2, <2>1
    <2>2. CASE types = {"Int24", "Long"}
      BY <1>2, <2>2
    <2>3. CASE types = {"Datetime", "Timestamp"}
      BY <1>2, <2>3 DEF NumericTypes
    <2>4. CASE types = ByteTypes
      BY <1>2, <2>4 DEF NumericTypes, ByteTypes
    <2> QED BY <2>1, <2>2, <2>3, <2>4 DEF SameTypes
  <1> QED BY <1>1, <1>2 DEF sameTypeId

LEMMA PromotionsLoseNothingOfAny ==
  ASSUME NEW from, NEW to, NEW fu \in BOOLEAN, NEW tu \in BOOLEAN
  PROVE  LosesNothing(from, fu, to, tu)
  <1> SUFFICES ASSUME from \in NumericTypes, to \in NumericTypes,
                      ArithmeticPromotions(from, fu, to, tu)
               PROVE  Holds(from, fu, to, tu)
    BY DEF LosesNothing
  <1> USE DEF Holds, MagnitudeBits, Width, fieldTypeHasSign, ArithmeticPromotions, Wider, AsWide,
              NumericTypes
  <1>1. CASE from = "Tiny"
    BY <1>1
  <1>2. CASE from = "Short"
    BY <1>2
  <1>3. CASE from \in {"Int24", "Long"}
    BY <1>3
  <1>4. CASE from = "LongLong"
    BY <1>4
  <1>5. CASE from \in {"Float", "Double"}
    BY <1>5
  <1> QED BY <1>1, <1>2, <1>3, <1>4, <1>5

LEMMA SameIsPromotion ==
  ASSUME NEW from, NEW to, NEW fu \in BOOLEAN, NEW tu \in BOOLEAN,
         Same(from, fu, to, tu), ~(from = "Short" /\ to = "Year")
  PROVE  ArithmeticPromotions(from, fu, to, tu)
  <1>1. ~(~fu /\ tu /\ fieldTypeHasSign(from) /\ fieldTypeHasSign(to))
    BY DEF Same, fieldSignsMatch
  <1>2. ASSUME from \in NumericTypes
        PROVE  to \in Wider(from) \/ (to \in AsWide(from) /\ fu = tu)
    <2>1. from = to \/ (from \in {"Int24", "Long"} /\ to \in {"Int24", "Long"})
      BY <1>2, SameTypeCases DEF Same, NumericTypes
    <2>2. fieldTypeHasSign(from) => fu = tu
      BY DEF Same, fieldSignsMatch
    <2> QED BY <1>2, <2>1, <2>2 DEF NumericTypes, Wider, AsWide, fieldTypeHasSign
  <1> QED BY <1>1, <1>2 DEF ArithmeticPromotions

LEMMA NestedOfAny ==
  ASSUME NEW from, NEW to, NEW fu \in BOOLEAN, NEW tu \in BOOLEAN
  PROVE  Nested(from, fu, to, tu)
  <1>1. Strict(from, fu, to, tu) => Same(from, fu, to, tu)
    BY DEF Strict, Same, sameTypeId
  <1>2. Same(from, fu, to, tu) /\ ~(from = "Short" /\ to = "Year")
          => ArithmeticPromotions(from, fu, to, tu)
    BY SameIsPromotion
  <1>3. ArithmeticPromotions(from, fu, to, tu) => ArithmeticConversions(from, fu, to, tu)
    BY DEF ArithmeticPromotions, ArithmeticConversions, NumericTypes, Wider, AsWide
  <1> QED BY <1>1, <1>2, <1>3 DEF Nested, isCompatible

\* What StaticStatement relies on: a column that was accepted may be NULL only if the
\* variable can hold that, or if it was asked for.
LEMMA AcceptedColumn ==
  ASSUME NEW binding, NEW item, NEW mode, NEW ignoreNullable,
         mode # "Disabled",
         validateResultMetadata(<<binding>>, <<item>>, mode, "Same", ignoreNullable) = "ok"
  PROVE  ~item.nullable \/ binding.nullable \/ ignoreNullable
  <1> DEFINE outcome(i) == ValidateItem(<<binding>>[i], <<item>>[i], mode, ignoreNullable)
             bad == {i \in 1 .. Shorter(<<binding>>, <<item>>) : outcome(i) # "ok"}
  <1>1. Shorter(<<binding>>, <<item>>) = 1
    BY DEF Shorter
  <1>2. SUFFICES ASSUME outcome(1) # "ok" PROVE FALSE
    BY DEF ValidateItem
  <1>3. bad = {1}
    BY <1>1, <1>2
  <1>4. (CHOOSE i \in bad : \A j \in bad : i <= j) = 1
    <2> HIDE DEF bad
    <2> DEFINE first(i) == i \in bad /\ \A j \in bad : i <= j
    <2>1. first(1) /\ \A i : first(i) => i = 1
      BY <1>3
    <2> HIDE DEF first
    <2>2. (CHOOSE i : first(i)) = 1
      BY <2>1
    <2> QED BY <2>2 DEF first
  <1>5. validateResultMetadata(<<binding>>, <<item>>, mode, "Same", ignoreNullable) = outcome(1)
    BY <1>3, <1>4 DEF validateResultMetadata
  <1> QED BY <1>2, <1>5

-----------------------------------------------------------------------------
(* Text in an array.                                                        *)

\* The sequences of bounded length are those whose length is at most the bound.
LEMMA BoundedSequences ==
  ASSUME NEW S, NEW n \in Nat, NEW s
  PROVE  s \in BoundedSeq(S, n) <=> s \in Seq(S) /\ Len(s) <= n
  <1>1. ASSUME NEW m \in 0 .. n, s \in [1 .. m -> S] PROVE s \in Seq(S) /\ Len(s) = m
    BY <1>1
  <1>2. ASSUME s \in Seq(S), Len(s) <= n PROVE Len(s) \in 0 .. n /\ s \in [1 .. Len(s) -> S]
    BY <1>2, LenProperties
  <1> QED BY <1>1, <1>2 DEF BoundedSeq, SeqOf

\* How many of n bytes fit.
Fitting(n) == IF n <= N THEN n ELSE N

\* An object has the bytes of its text that fit, and is empty only with the text.
ShowsText(bytes, n, text) ==
  /\ Fitting(n) = Fitting(Len(text))
  /\ \A i \in 0 .. N : i < Fitting(n) => bytes[i] = text[i + 1]
  /\ n = 0 <=> text = <<>>

ArrayInv ==
  /\ ArrayTypeOK
  /\ \A o \in Arrays : ShowsText(array[o], itemsCount[o], given[o])

LEMMA ArrayBecomes ==
  ASSUME ArrayInv, NEW o \in Arrays, NEW bytes \in [0 .. N -> Chars \cup {Zero, Garbage}],
         NEW n \in 0 .. N + 1, NEW text \in Texts, ShowsText(bytes, n, text),
         Becomes(o, bytes, n, text)
  PROVE  ArrayInv'
  <1>1. ArrayTypeOK'
    BY DEF ArrayInv, ArrayTypeOK, Becomes
  <1>2. ASSUME NEW p \in Arrays PROVE ShowsText(array[p], itemsCount[p], given[p])'
    <2>1. /\ array'[p] = IF p = o THEN bytes ELSE array[p]
          /\ itemsCount'[p] = IF p = o THEN n ELSE itemsCount[p]
          /\ given'[p] = IF p = o THEN text ELSE given[p]
      BY DEF ArrayInv, ArrayTypeOK, Becomes
    <2>2. ShowsText(array'[p], itemsCount'[p], given'[p])
      BY <2>1 DEF ArrayInv
    <2> QED BY <2>2 DEF ShowsText, Fitting
  <1> QED BY <1>1, <1>2 DEF ArrayInv

LEMMA TextLengths ==
  ASSUME NEW text \in Texts
  PROVE  /\ Len(text) \in 0 .. N + 1
         /\ \A i \in 1 .. Len(text) : text[i] \in Chars
         /\ text = <<>> <=> Len(text) = 0
         /\ text \in Seq(Chars)
  <1>1. N + 1 \in Nat
    BY ArrayAssumption
  <1>2. text \in Seq(Chars) /\ Len(text) <= N + 1
    BY <1>1, BoundedSequences DEF Texts
  <1> QED BY <1>1, <1>2, LenProperties, ElementOfSeq, EmptySeq

LEMMA ArrayStep ==
  ASSUME ArrayInv, ArrayNext
  PROVE  ArrayInv'
  <1> USE ArrayAssumption
  <1> DEFINE Bytes == [0 .. N -> Chars \cup {Zero, Garbage}]
  <1>1. ASSUME NEW o \in Arrays, NEW text \in Texts, Assign(o, text) PROVE ArrayInv'
    <2> DEFINE bytes == Overwritten(Fresh, BytesOf(text), Fitting(Len(text)))
    <2>1. Fitting(Len(text)) \in 0 .. N + 1 /\ Fitting(Fitting(Len(text))) = Fitting(Len(text))
      BY TextLengths DEF Fitting
    <2>2. bytes \in Bytes
      BY TextLengths DEF Overwritten, Fresh, BytesOf, Fitting
    <2>3. ShowsText(bytes, Fitting(Len(text)), text)
      BY <2>1, TextLengths DEF ShowsText, Overwritten, BytesOf, Fitting
    <2>4. Becomes(o, bytes, Fitting(Len(text)), text)
      BY <1>1 DEF Assign, Fitting
    <2> QED BY <2>1, <2>2, <2>3, <2>4, ArrayBecomes
  <1>2. ASSUME NEW o \in Arrays, NEW text \in Texts, FromNumber(o, text) PROVE ArrayInv'
    <2> DEFINE bytes == [i \in 0 .. N |-> IF i < Len(text) THEN text[i + 1] ELSE Fresh[i]]
    <2>1. bytes \in Bytes
      BY TextLengths DEF Fresh
    <2>2. ShowsText(bytes, Len(text), text)
      BY <1>2, TextLengths DEF ShowsText, Fitting, FromNumber
    <2>3. Becomes(o, bytes, Len(text), text)
      BY <1>2 DEF FromNumber
    <2> QED BY <2>1, <2>2, <2>3, TextLengths, ArrayBecomes
  <1>3. ASSUME NEW o \in Arrays, NEW text \in Texts, FetchInto(o, text) PROVE ArrayInv'
    <2> DEFINE copied == Fitting(Len(text))
               bytes == [i \in 0 .. N |-> IF i < copied THEN text[i + 1]
                                          ELSE IF i = copied /\ copied < N THEN Zero
                                          ELSE array[o][i]]
    <2>1. bytes \in Bytes
      BY TextLengths DEF Fitting, ArrayInv, ArrayTypeOK
    <2>2. ShowsText(bytes, Len(text), text)
      BY TextLengths DEF ShowsText, Fitting
    <2>3. Becomes(o, bytes, Len(text), text)
      BY <1>3 DEF FetchInto, Fitting
    <2> QED BY <2>1, <2>2, <2>3, TextLengths, ArrayBecomes
  <1>4. ASSUME NEW o \in Arrays, NEW other \in Arrays, CopyOrMove(o, other) PROVE ArrayInv'
    <2>1. PICK memory \in {array[o], [i \in 0 .. N |-> Garbage]} :
            Becomes(o, Overwritten(memory, array[other], size(other)), size(other), given[other])
      BY <1>4 DEF CopyOrMove
    <2>2. /\ array[o] \in Bytes /\ array[other] \in Bytes
          /\ itemsCount[other] \in 0 .. N + 1 /\ given[other] \in Texts
      BY DEF ArrayInv, ArrayTypeOK
    <2>3. memory \in Bytes
      BY <2>1, <2>2
    <2>4. size(other) \in 0 .. N + 1 /\ size(other) = Fitting(itemsCount[other])
          /\ Fitting(size(other)) = size(other) /\ (size(other) = 0 <=> itemsCount[other] = 0)
      BY <2>2 DEF size, Fitting
    <2>5. Overwritten(memory, array[other], size(other)) \in Bytes
      BY <2>2, <2>3, <2>4 DEF Overwritten
    <2>6. ShowsText(Overwritten(memory, array[other], size(other)), size(other), given[other])
      <3>1. ShowsText(array[other], itemsCount[other], given[other])
        BY DEF ArrayInv
      <3> QED BY <3>1, <2>2, <2>4 DEF ShowsText, Overwritten
    <2> QED BY <2>1, <2>2, <2>4, <2>5, <2>6, ArrayBecomes
  <1> QED BY <1>1, <1>2, <1>3, <1>4 DEF ArrayNext

LEMMA ArrayInitInv ==
  ASSUME ArrayInit
  PROVE  ArrayInv
  <1> USE ArrayAssumption
  <1>1. <<>> \in Texts
    <2>1. <<>> \in Seq(Chars)
      OBVIOUS
    <2>2. N + 1 \in Nat /\ Len(<<>>) <= N + 1
      OBVIOUS
    <2> QED BY <2>1, <2>2, BoundedSequences DEF Texts
  <1>2. ArrayTypeOK
    BY <1>1 DEF ArrayInit, ArrayTypeOK, Fresh
  <1>3. ASSUME NEW o \in Arrays PROVE ShowsText(array[o], itemsCount[o], given[o])
    BY DEF ArrayInit, ShowsText, Fitting
  <1> QED BY <1>2, <1>3 DEF ArrayInv

LEMMA ArrayStutters ==
  ASSUME ArrayInv, UNCHANGED arrayVars
  PROVE  ArrayInv'
  BY DEF arrayVars, ArrayInv, ArrayTypeOK, ShowsText, Fitting

LEMMA ArrayShows ==
  ASSUME ArrayInv
  PROVE  TextIsKept
  <1> SUFFICES ASSUME NEW o \in Arrays
               PROVE  /\ getString(o) = SubSeq(given[o], 1, Fitting(Len(given[o])))
                      /\ BackThrows(o) <=> given[o] = <<>>
    BY DEF TextIsKept, Fitting
  <1> DEFINE text == given[o]  n == size(o)
  <1> USE ArrayAssumption
  <1>1. text \in Texts /\ itemsCount[o] \in 0 .. N + 1
    BY DEF ArrayInv, ArrayTypeOK
  <1>2. ShowsText(array[o], itemsCount[o], text)
    BY DEF ArrayInv
  <1>3. n = Fitting(itemsCount[o]) /\ n \in 0 .. N
    BY <1>1 DEF size, Fitting
  <1>4. n = Fitting(Len(text)) /\ n <= Len(text)
    BY <1>1, <1>2, <1>3, TextLengths DEF ShowsText, Fitting
  <1>5. \A i \in 1 .. n : array[o][i - 1] = text[i]
    BY <1>1, <1>2, <1>3 DEF ShowsText
  <1>6. \A i \in 1 .. n : text[i] \in Chars
    <2>1. \A i \in 1 .. Len(text) : text[i] \in Chars
      BY <1>1, TextLengths
    <2>2. Len(text) \in Nat
      BY <1>1, TextLengths
    <2> QED BY <1>3, <1>4, <2>1, <2>2
  <1>7. getString(o) = SubSeq(text, 1, n)
    <2>1. /\ SubSeq(text, 1, n) \in Seq(Chars) /\ Len(SubSeq(text, 1, n)) = n
          /\ \A i \in 1 .. n : SubSeq(text, 1, n)[i] = text[i]
      BY <1>3, <1>6, SubSeqProperties
    <2>2. getString(o) \in [1 .. n -> Chars]
      BY <1>5, <1>6 DEF getString
    <2>3. getString(o) \in Seq(Chars) /\ Len(getString(o)) = n
      BY <2>2, <1>3
    <2>4. \A i \in 1 .. n : getString(o)[i] = text[i]
      BY <1>5 DEF getString
    <2> QED BY <2>1, <2>3, <2>4, SeqEqual
  <1>8. BackThrows(o) <=> text = <<>>
    BY <1>1, <1>2, <1>3 DEF BackThrows, ShowsText, Fitting
  <1> QED BY <1>4, <1>7, <1>8

-----------------------------------------------------------------------------
(* The prepared statement that holds its parameter and its result.          *)

\* The object's bindings, and the library's copies, point into the object.
Pointing ==
  Exists =>
    /\ library.param \in Slots
    /\ ~moved =>
         /\ bindings[owner].result = owner /\ bindings[owner].param = owner
         /\ library.param = owner /\ library.result \in {owner, Nowhere}
         /\ updated /\ param[owner] # Null => library.ready
         /\ template.nullable => result[owner].engaged = ~disengaged

\* The helpers work on an object that is not moved and, once they read rows, bound.
Helping ==
  /\ ~Exists => sent = Nowhere /\ fetched = Nowhere /\ utility = "none"
  /\ utility # "none" => ~moved
  /\ utility = "rows" \/ (utility = "read" /\ sent # Nowhere) => library.result # Nowhere

\* The result is bound after its column was accepted, as the first description that
\* was retrieved shows it, which is right as long as the column did not change.
Accepting ==
  /\ library.result # Nowhere => validated
  /\ validated => cached # <<>>
  /\ ~Exists => cached = <<>>
  /\ ~altered =>
       /\ Exists => described = column
       /\ cached \in {<<>>, <<column>>}
       /\ validated /\ column => template.nullable \/ template.ignoreNullable
  /\ \A i \in 1 .. Len(rows) : rows[i] = Null => column

StaticInv ==
  /\ StaticTypeOK /\ rows \in Seq(Cells)
  /\ Pointing /\ Helping /\ Accepting
  /\ ResultShowsRow /\ NullIsRefused /\ ParamIsSent

Steps == {"none", "params", "execute", "rows", "read"}

LEMMA StaticStutters ==
  ASSUME StaticInv, UNCHANGED staticVars
  PROVE  StaticInv'
  BY DEF staticVars, metadataVars, StaticInv, StaticTypeOK, Pointing, Helping, Accepting, ResultShowsRow,
         NullIsRefused, ParamIsSent, ShownResult, Exists

LEMMA StaticInitInv ==
  ASSUME StaticInit
  PROVE  StaticInv
  <1>1. StaticTypeOK
    BY DEF StaticInit, StaticTypeOK, NoResult, Unbound, Params
  <1>2. rows \in Seq(Cells)
    <2>1. <<>> \in Seq(Cells)
      OBVIOUS
    <2> QED BY <2>1 DEF StaticInit
  <1>3. Pointing /\ Helping /\ Accepting /\ ResultShowsRow /\ NullIsRefused /\ ParamIsSent
    BY StaticAssumption
    DEF StaticInit, Pointing, Helping, Accepting, ResultShowsRow, NullIsRefused, ParamIsSent,
        Exists, Unbound
  <1> QED BY <1>1, <1>2, <1>3 DEF StaticInv

LEMMA AnswersAreSequences ==
  ASSUME NEW answer \in RowSequences
  PROVE  answer \in Seq(Cells) /\ DOMAIN answer = 1 .. Len(answer)
  <1>1. PICK n \in 0 .. MaxRows : answer \in [1 .. n -> Cells]
    BY DEF RowSequences
  <1>2. n \in Nat
    BY StaticAssumption
  <1> QED BY <1>1, <1>2

\* What the library sends, from an object that is not moved, is the parameter.
LEMMA SentParameter ==
  ASSUME StaticInv, Exists
  PROVE  /\ Sent \in Params \cup {Unwritten}
         /\ Sent # Nowhere
         /\ ~moved /\ updated => Sent = param[owner]
  <1>1. library.param \in Slots /\ param[library.param] \in Params
    BY DEF StaticInv, Pointing, StaticTypeOK
  <1>2. Sent \in Params \cup {Unwritten}
    BY <1>1 DEF Sent, Params
  <1>3. ~moved /\ updated => Sent = param[owner]
    BY DEF StaticInv, Pointing, Sent
  <1> QED BY <1>2, <1>3, StaticAssumption DEF Params

\* A description that was accepted is one of a column in which a NULL can be kept, or
\* may be lost.
LEMMA NotRefused ==
  ASSUME StaticTypeOK, ~Refused, ~validated, Retrieved(column) = <<column>>
  PROVE  column => template.nullable \/ template.ignoreNullable
  <1>1. validateResultMetadata(<<Binding>>, <<ColumnOf(<<column>>)>>, "ArithmeticPromotions",
                               "Same", template.ignoreNullable) = "ok"
    BY DEF Refused
  <1>2. \/ ~ColumnOf(<<column>>).nullable
        \/ Binding.nullable \/ template.ignoreNullable
    BY <1>1, AcceptedColumn
  <1> QED BY <1>2 DEF ColumnOf, Binding

\* execute(), whoever calls it.
LEMMA ExecuteKeeps ==
  ASSUME StaticInv, Exists, NEW answer \in RowSequences, execute(answer), UNCHANGED Unexecuted,
         utility' \in Steps, utility' # "none" => ~moved /\ ~Refused
  PROVE  StaticInv'
  <1>1. /\ sent' = Sent /\ fetched' = Nowhere /\ rows' = answer /\ validated' = ~Refused
        /\ described' = column /\ altered' = (altered /\ cached # <<>>)
        /\ cached' = IF validated THEN cached ELSE Retrieved(column)
        /\ UNCHANGED <<template, owner, param, result, bindings, column, updated, moved,
                       disengaged>>
    BY DEF execute, Unexecuted
  <1>2. /\ Refused => library' = library
        /\ ~Refused => library' = [library EXCEPT !.result = bindings[owner].result]
    BY DEF execute
  <1>3. /\ library \in [result : Slots \cup {Nowhere}, param : Slots \cup {Nowhere},
                        ready : BOOLEAN]
        /\ owner \in Slots /\ bindings[owner].result \in Slots \cup {Nowhere}
    BY DEF StaticInv, StaticTypeOK, Exists
  <1>4. /\ library' \in [result : Slots \cup {Nowhere}, param : Slots \cup {Nowhere},
                         ready : BOOLEAN]
        /\ library'.param = library.param /\ library'.ready = library.ready
        /\ library'.result = IF Refused THEN library.result ELSE bindings[owner].result
    BY <1>2, <1>3
  <1>5. Exists' /\ Slots \cap {Nowhere} = {}
    BY <1>1, StaticAssumption DEF Exists
  <1>6. (StaticTypeOK /\ rows \in Seq(Cells))'
    <2>1. Refused \in BOOLEAN
      BY DEF Refused
    <2>2. answer \in Seq(Cells)
      BY AnswersAreSequences
    <2>3. cached' \in {<<>>} \cup {<<nullable>> : nullable \in BOOLEAN}
      BY <1>1 DEF StaticInv, StaticTypeOK, Retrieved
    <2> QED BY <1>1, <1>4, <2>1, <2>2, <2>3, SentParameter DEF StaticInv, StaticTypeOK, Steps
  <1>7. Pointing'
    BY <1>1, <1>4, <1>5 DEF StaticInv, Pointing
  <1>8. Helping'
    BY <1>1, <1>3, <1>4, <1>5 DEF StaticInv, Pointing, Helping
  <1>9. Accepting'
    <2>1. library'.result # Nowhere => validated'
      BY <1>1, <1>4 DEF StaticInv, Accepting, Refused
    <2>2. cached' # <<>>
      BY <1>1 DEF StaticInv, Accepting, Retrieved
    <2>4. ASSUME ~altered'
          PROVE  /\ described' = column' /\ cached' = <<column>>'
                 /\ validated' /\ column' => template'.nullable \/ template'.ignoreNullable
      <3>1. cached = <<>> \/ ~altered
        BY <1>1, <2>4
      <3>2. cached \in {<<>>, <<column>>}
        BY <3>1 DEF StaticInv, Accepting
      <3>3. Retrieved(column) = <<column>>
        BY <3>2 DEF Retrieved
      <3>4. CASE ~validated
        BY <1>1, <3>3, <3>4, NotRefused DEF StaticInv
      <3>5. CASE validated
        BY <1>1, <3>1, <3>2, <3>5 DEF StaticInv, Accepting
      <3> QED BY <3>4, <3>5
    <2>3. \A i \in 1 .. Len(rows') : rows'[i] = Null => column'
      BY <1>1, AnswersAreSequences DEF execute
    <2> QED BY <1>5, <2>1, <2>2, <2>3, <2>4 DEF Accepting
  <1>10. ResultShowsRow' /\ NullIsRefused'
    BY <1>1, StaticAssumption DEF ResultShowsRow, NullIsRefused
  <1>11. ParamIsSent'
    BY <1>1, SentParameter DEF ParamIsSent
  <1> QED BY <1>6, <1>7, <1>8, <1>9, <1>10, <1>11 DEF StaticInv

\* A row is fetched, whoever fetches it.
LEMMA FetchKeeps ==
  ASSUME StaticInv, Exists, library.result # Nowhere, fetch, UNCHANGED Unfetched,
         utility' \in Steps, utility' # "none" => ~moved
  PROVE  StaticInv'
  <1>1. /\ rows # <<>> /\ rows' = Tail(rows) /\ fetched' = Head(rows)
        /\ UNCHANGED <<template, owner, param, bindings, validated, library, column, described,
                       cached, altered, sent, updated, moved, disengaged>>
    BY DEF fetch, Unfetched, metadataVars
  <1>2. /\ Head(rows) \in Cells /\ Head(rows) = rows[1] /\ Tail(rows) \in Seq(Cells)
        /\ Len(rows) \in Nat \ {0} /\ Len(Tail(rows)) = Len(rows) - 1
        /\ \A i \in 1 .. Len(Tail(rows)) : Tail(rows)[i] = rows[i + 1]
    BY <1>1, HeadTailProperties, EmptySeq DEF StaticInv
  <1>3. /\ owner \in Slots /\ library.result \in Slots
        /\ result \in [Slots -> [payload : ResultValues \cup {Unwritten},
                                 null : BOOLEAN, engaged : BOOLEAN]]
    BY DEF StaticInv, StaticTypeOK, Exists
  <1>4. result' =
          [o \in Slots |->
             IF o # library.result THEN result[o]
             ELSE [result[o] EXCEPT !.payload = IF Head(rows) = Null THEN @ ELSE Head(rows),
                                    !.null = template.nullable /\ Head(rows) = Null]]
    BY DEF fetch
  <1>5. ASSUME NEW o \in Slots
        PROVE  /\ result'[o] \in [payload : ResultValues \cup {Unwritten},
                                  null : BOOLEAN, engaged : BOOLEAN]
               /\ result'[o].engaged = result[o].engaged
               /\ o = library.result =>
                    /\ result'[o].payload =
                         IF Head(rows) = Null THEN result[o].payload ELSE Head(rows)
                    /\ result'[o].null = (template.nullable /\ Head(rows) = Null)
    <2>1. template.nullable \in BOOLEAN
      BY DEF StaticInv, StaticTypeOK
    <2>2. CASE o # library.result
      BY <1>3, <1>4, <2>2
    <2>3. CASE o = library.result
      BY <1>2, <1>3, <1>4, <2>1, <2>3 DEF Cells
    <2> QED BY <2>2, <2>3
  <1>6. result' \in [Slots -> [payload : ResultValues \cup {Unwritten},
                              null : BOOLEAN, engaged : BOOLEAN]]
    BY <1>4, <1>5
  <1>7. (StaticTypeOK /\ rows \in Seq(Cells))'
    BY <1>1, <1>2, <1>6 DEF StaticInv, StaticTypeOK, Steps
  <1>8. Exists'
    BY <1>1 DEF Exists
  <1>9. Pointing'
    BY <1>1, <1>3, <1>5 DEF StaticInv, Pointing, Exists
  <1>10. Helping'
    BY <1>1, <1>8 DEF Helping
  <1>11. Accepting'
    <2>1. \A i \in 1 .. Len(rows') : rows'[i] = Null => column'
      BY <1>1, <1>2 DEF StaticInv, Accepting
    <2> QED BY <1>1, <2>1 DEF StaticInv, Accepting, Exists
  <1>12. ResultShowsRow'
    <2> SUFFICES ASSUME ~moved, ~(template.nullable /\ disengaged),
                        template.nullable \/ Head(rows) # Null
                 PROVE  ShownResult' = Head(rows)
      BY <1>1 DEF ResultShowsRow
    <2>1. library.result = owner
      BY DEF StaticInv, Pointing
    <2>2. template.nullable => result'[owner].engaged
      BY <1>3, <1>5 DEF StaticInv, Pointing
    <2> QED BY <1>1, <1>3, <1>5, <2>1, <2>2 DEF ShownResult
  <1>13. NullIsRefused'
    <2> SUFFICES ASSUME Head(rows) = Null
                 PROVE  template.nullable \/ template.ignoreNullable \/ altered
      BY <1>1 DEF NullIsRefused
    <2> QED BY <1>2 DEF StaticInv, Accepting
  <1>14. ParamIsSent'
    BY <1>1 DEF StaticInv, ParamIsSent
  <1> QED BY <1>7, <1>9, <1>10, <1>11, <1>12, <1>13, <1>14 DEF StaticInv

\* The bindings are updated to a parameter that may have changed.
LEMMA ParamBinding ==
  ASSUME NEW b \in [result : Slots \cup {Nowhere}, param : Slots \cup {Nowhere}, ready : BOOLEAN],
         NEW o \in Slots
  PROVE  /\ initializeParamBinding(b, o)
              \in [result : Slots \cup {Nowhere}, param : Slots \cup {Nowhere}, ready : BOOLEAN]
         /\ initializeParamBinding(b, o).result = b.result
         /\ initializeParamBinding(b, o).param = o
         /\ param'[o] # Null => initializeParamBinding(b, o).ready
  <1> DEFINE set == b.ready \/ param'[o] # Null
  <1>1. set \in BOOLEAN /\ (param'[o] # Null => set)
    OBVIOUS
  <1>2. initializeParamBinding(b, o) = [b EXCEPT !.param = o, !.ready = set]
    BY DEF initializeParamBinding
  <1> HIDE DEF set
  <1> QED BY <1>1, <1>2

LEMMA UpdateKeeps ==
  ASSUME StaticInv, Exists, NEW p \in Params,
         param' \in {param, [param EXCEPT ![owner] = p]}, updateParamsBindings,
         fetched' \in {fetched, Nowhere}, utility \in {"none", "params"},
         utility' \in {"none", "execute"}, utility' # "none" => ~moved,
         UNCHANGED <<template, owner, result, validated, rows, column, metadataVars, moved,
                     disengaged>>
  PROVE  StaticInv'
  <1>1. /\ owner \in Slots /\ param \in [Slots -> Params]
        /\ bindings \in [Slots -> [result : Slots \cup {Nowhere}, param : Slots \cup {Nowhere},
                                   ready : BOOLEAN]]
        /\ library \in [result : Slots \cup {Nowhere}, param : Slots \cup {Nowhere},
                        ready : BOOLEAN]
    BY DEF StaticInv, StaticTypeOK, Exists
  <1>2. param' \in [Slots -> Params]
    BY <1>1
  <1>3. PICK b \in [result : Slots \cup {Nowhere}, param : Slots \cup {Nowhere}, ready : BOOLEAN] :
          /\ b = initializeParamBinding(bindings[owner], owner)
          /\ b.param = owner /\ b.result = bindings[owner].result
          /\ param'[owner] # Null => b.ready
    BY <1>1, ParamBinding
  <1>4. /\ bindings' = [bindings EXCEPT ![owner] = b]
        /\ library' = [library EXCEPT !.param = b.param, !.ready = b.ready]
        /\ updated' = TRUE /\ sent' = Nowhere
    BY <1>1, <1>3 DEF updateParamsBindings
  <1>5. /\ bindings' \in [Slots -> [result : Slots \cup {Nowhere}, param : Slots \cup {Nowhere},
                                    ready : BOOLEAN]]
        /\ bindings'[owner] = b
    BY <1>1, <1>4
  <1>6. /\ library' \in [result : Slots \cup {Nowhere}, param : Slots \cup {Nowhere},
                         ready : BOOLEAN]
        /\ library'.param = owner /\ library'.ready = b.ready /\ library'.result = library.result
    BY <1>1, <1>3, <1>4
  <1>7. Exists'
    BY DEF Exists
  <1>8. (StaticTypeOK /\ rows \in Seq(Cells))'
    BY <1>2, <1>4, <1>5, <1>6 DEF StaticInv, StaticTypeOK, metadataVars
  <1>9. Pointing'
    BY <1>1, <1>3, <1>4, <1>5, <1>6 DEF StaticInv, Pointing
  <1>10. Helping'
    BY <1>4, <1>6, <1>7 DEF StaticInv, Helping
  <1>11. Accepting'
    BY <1>6 DEF StaticInv, Accepting, metadataVars, Exists
  <1>12. ResultShowsRow' /\ NullIsRefused'
    <2>1. CASE fetched' = fetched
      BY <2>1 DEF StaticInv, ResultShowsRow, NullIsRefused, ShownResult, metadataVars
    <2>2. CASE fetched' = Nowhere
      BY <2>2, StaticAssumption DEF ResultShowsRow, NullIsRefused
    <2> QED BY <2>1, <2>2
  <1>13. ParamIsSent'
    BY <1>4 DEF ParamIsSent
  <1> QED BY <1>8, <1>9, <1>10, <1>11, <1>12, <1>13 DEF StaticInv

LEMMA ConstructKeeps ==
  ASSUME StaticInv, NEW o \in Slots, NEW p \in Params, NEW full \in BOOLEAN,
         Construct(o, p, full)
  PROVE  StaticInv'
  <1> DEFINE Pointers == [result : Slots \cup {Nowhere}, param : Slots \cup {Nowhere},
                          ready : BOOLEAN]
  <1>1. /\ param \in [Slots -> Params]
        /\ result \in [Slots -> [payload : ResultValues \cup {Unwritten},
                                 null : BOOLEAN, engaged : BOOLEAN]]
        /\ bindings \in [Slots -> Pointers]
        /\ template \in [nullable : BOOLEAN, ignoreNullable : BOOLEAN]
        /\ ~Exists /\ utility = "none"
    BY DEF StaticInv, StaticTypeOK, Helping, Construct
  <1>2. param' \in [Slots -> Params] /\ param'[o] = p
    BY <1>1 DEF Construct
  <1> DEFINE b == BindingsOf(o)
  <1>3. /\ b \in Pointers /\ b.result = o /\ b.param = o
        /\ param'[o] # Null => b.ready
    <2> DEFINE a == initializeParamBinding(Unbound, o)
    <2>1. Unbound \in Pointers
      BY DEF Unbound
    <2>2. /\ a \in Pointers /\ a.param = o
          /\ param'[o] # Null => a.ready
      BY <2>1, ParamBinding
    <2>3. BindingsOf(o) = [a EXCEPT !.result = o]
      BY DEF BindingsOf, initializeResultBinding
    <2> HIDE DEF a
    <2>4. /\ BindingsOf(o) \in Pointers /\ BindingsOf(o).result = o
      BY <2>2, <2>3
    <2>5. BindingsOf(o).param = a.param /\ BindingsOf(o).ready = a.ready
      BY <2>2, <2>3
    <2> QED BY <2>2, <2>4, <2>5
  <1>4. PICK r \in [payload : ResultValues \cup {Unwritten}, null : BOOLEAN, engaged : BOOLEAN] :
          result' = [result EXCEPT ![o] = r] /\ r.engaged = full
    <2> DEFINE isNull == template.nullable /\ ~full
    <2>1. isNull \in BOOLEAN
      BY <1>1
    <2>2. result' =
            [result EXCEPT ![o] = [payload |-> Unwritten, null |-> isNull, engaged |-> full]]
      BY DEF Construct
    <2> DEFINE r == [payload |-> Unwritten, null |-> isNull, engaged |-> full]
    <2> HIDE DEF isNull
    <2>3. r \in [payload : ResultValues \cup {Unwritten}, null : BOOLEAN, engaged : BOOLEAN]
          /\ r.engaged = full
      BY <2>1
    <2>4. result' = [result EXCEPT ![o] = r]
      BY <2>2
    <2> HIDE DEF r
    <2> QED BY <2>3, <2>4
  <1>5. bindings' = [bindings EXCEPT ![o] = b] /\ library' = [b EXCEPT !.result = Nowhere]
    BY DEF Construct
  <1> HIDE DEF b
  <1>6. bindings' \in [Slots -> Pointers] /\ bindings'[o] = b
    BY <1>1, <1>3, <1>5
  <1>7. /\ library' \in Pointers /\ library'.param = o /\ library'.result = Nowhere
        /\ library'.ready = b.ready
    BY <1>3, <1>5
  <1>8. /\ result' \in [Slots -> [payload : ResultValues \cup {Unwritten},
                                  null : BOOLEAN, engaged : BOOLEAN]]
        /\ result'[o].engaged = full
    BY <1>1, <1>4
  <1>9. /\ owner' = o /\ validated' = FALSE /\ rows' = <<>>
        /\ sent' = Nowhere /\ fetched' = Nowhere /\ updated' = TRUE /\ moved' = FALSE
        /\ described' = column /\ cached' = <<>> /\ altered' = FALSE /\ disengaged' = ~full
        /\ UNCHANGED <<template, column, utility>>
    BY DEF Construct
  <1>10. rows' \in Seq(Cells) /\ Len(rows') = 0
    <2>1. <<>> \in Seq(Cells)
      OBVIOUS
    <2> QED BY <1>9, <2>1
  <1>11. StaticTypeOK'
    BY <1>1, <1>2, <1>6, <1>7, <1>8, <1>9 DEF StaticInv, StaticTypeOK
  <1>12. Pointing'
    BY <1>2, <1>3, <1>6, <1>7, <1>8, <1>9 DEF Pointing
  <1>13. Helping' /\ Accepting'
    BY <1>1, <1>7, <1>9, <1>10 DEF Helping, Accepting
  <1>14. ResultShowsRow' /\ NullIsRefused' /\ ParamIsSent'
    BY <1>9, StaticAssumption DEF ResultShowsRow, NullIsRefused, ParamIsSent
  <1> QED BY <1>10, <1>11, <1>12, <1>13, <1>14 DEF StaticInv

LEMMA MoveKeeps ==
  ASSUME StaticInv, NEW o \in Slots, MoveStatement(o)
  PROVE  StaticInv'
  <1>1. owner \in Slots
    BY DEF StaticInv, StaticTypeOK, MoveStatement, Exists
  <1>2. /\ owner' = o /\ moved' = TRUE /\ fetched' = Nowhere /\ utility = "none"
        /\ UNCHANGED <<template, validated, library, rows, column, described, cached, altered,
                       sent, utility, updated, disengaged>>
    BY DEF MoveStatement, metadataVars
  <1>3. param' \in [Slots -> Params]
    BY <1>1 DEF StaticInv, StaticTypeOK, MoveStatement
  <1>4. result' \in [Slots -> [payload : ResultValues \cup {Unwritten},
                              null : BOOLEAN, engaged : BOOLEAN]]
    BY <1>1 DEF StaticInv, StaticTypeOK, MoveStatement
  <1>5. bindings' \in [Slots -> [result : Slots \cup {Nowhere}, param : Slots \cup {Nowhere},
                                ready : BOOLEAN]]
    BY <1>1 DEF StaticInv, StaticTypeOK, MoveStatement
  <1>6. (StaticTypeOK /\ rows \in Seq(Cells))'
    BY <1>2, <1>3, <1>4, <1>5 DEF StaticInv, StaticTypeOK
  <1>7. Exists /\ Exists'
    BY <1>2, StaticAssumption DEF Exists, MoveStatement
  <1>8. Pointing' /\ Helping' /\ Accepting'
    BY <1>2, <1>7 DEF StaticInv, Pointing, Helping, Accepting
  <1>9. ResultShowsRow' /\ NullIsRefused' /\ ParamIsSent'
    BY <1>2, StaticAssumption DEF ResultShowsRow, NullIsRefused, ParamIsSent
  <1> QED BY <1>6, <1>8, <1>9 DEF StaticInv

LEMMA DestroyKeeps ==
  ASSUME StaticInv, Destroy
  PROVE  StaticInv'
  <1>1. rows' \in Seq(Cells) /\ Len(rows') = 0
    <2>1. <<>> \in Seq(Cells)
      OBVIOUS
    <2> QED BY <2>1 DEF Destroy
  <1>2. StaticTypeOK'
    BY DEF StaticInv, StaticTypeOK, Destroy, Cleared, NoResult, Unbound, Params
  <1>3. ~Exists'
    BY DEF Destroy, Exists
  <1>4. Pointing' /\ Helping' /\ Accepting'
    BY <1>1, <1>3 DEF Destroy, Cleared, Unbound, Pointing, Helping, Accepting
  <1>5. ResultShowsRow' /\ NullIsRefused' /\ ParamIsSent'
    BY StaticAssumption DEF Destroy, ResultShowsRow, NullIsRefused, ParamIsSent
  <1> QED BY <1>1, <1>2, <1>4, <1>5 DEF StaticInv

LEMMA SetKeeps ==
  ASSUME StaticInv, NEW p \in Params, setParams(p)
  PROVE  StaticInv'
  <1>1. (StaticTypeOK /\ rows \in Seq(Cells))'
    BY DEF StaticInv, StaticTypeOK, setParams, metadataVars
  <1>2. Pointing' /\ Helping' /\ Accepting'
    BY DEF StaticInv, Pointing, Helping, Accepting, setParams, Exists, metadataVars
  <1>3. ResultShowsRow' /\ NullIsRefused' /\ ParamIsSent'
    BY DEF StaticInv, setParams, metadataVars, ResultShowsRow, NullIsRefused, ParamIsSent,
           ShownResult
  <1> QED BY <1>1, <1>2, <1>3 DEF StaticInv

LEMMA AlterKeeps ==
  ASSUME StaticInv, AlterColumn
  PROVE  StaticInv'
  <1>1. (StaticTypeOK /\ rows \in Seq(Cells))'
    <2>1. altered' \in BOOLEAN /\ column' \in BOOLEAN
      BY DEF AlterColumn, Exists
    <2> QED BY <2>1 DEF StaticInv, StaticTypeOK, AlterColumn
  <1>2. Len(rows') = 0
    BY DEF AlterColumn
  <1>3. Pointing' /\ Helping'
    BY DEF StaticInv, Pointing, Helping, AlterColumn, Exists
  <1>4. Accepting'
    <2>1. Exists' = Exists /\ altered' = Exists
      BY DEF AlterColumn, Exists
    <2>2. CASE Exists
      BY <1>2, <2>1, <2>2 DEF StaticInv, Accepting, AlterColumn
    <2>3. CASE ~Exists
      BY <1>2, <2>1, <2>3 DEF StaticInv, Accepting, AlterColumn
    <2> QED BY <2>2, <2>3
  <1>5. ResultShowsRow' /\ NullIsRefused' /\ ParamIsSent'
    BY StaticAssumption DEF StaticInv, AlterColumn, ResultShowsRow, NullIsRefused, ParamIsSent
  <1> QED BY <1>1, <1>3, <1>4, <1>5 DEF StaticInv

LEMMA RetrieveKeeps ==
  ASSUME StaticInv, RetrieveMetadata
  PROVE  StaticInv'
  <1>1. (StaticTypeOK /\ rows \in Seq(Cells))'
    <2>1. cached' \in {<<>>} \cup {<<nullable>> : nullable \in BOOLEAN}
      BY DEF StaticInv, StaticTypeOK, RetrieveMetadata, Retrieved
    <2> QED BY <2>1 DEF StaticInv, StaticTypeOK, RetrieveMetadata
  <1>2. Pointing' /\ Helping'
    BY DEF StaticInv, Pointing, Helping, RetrieveMetadata, Exists
  <1>3. Accepting'
    <2>1. /\ Exists /\ cached' = IF cached = <<>> THEN <<described>> ELSE cached
          /\ UNCHANGED <<owner, validated, library, rows, column, described, altered, template>>
      BY DEF RetrieveMetadata, Retrieved
    <2>2. Accepting
      BY DEF StaticInv
    <2> QED BY <2>1, <2>2 DEF Accepting, Exists
  <1>4. ResultShowsRow' /\ NullIsRefused' /\ ParamIsSent'
    BY DEF StaticInv, RetrieveMetadata, ResultShowsRow, NullIsRefused, ParamIsSent, ShownResult
  <1> QED BY <1>1, <1>2, <1>3, <1>4 DEF StaticInv

LEMMA StaticStep ==
  ASSUME StaticInv, StaticNext
  PROVE  StaticInv'
  <1>1. ASSUME UpdateParams PROVE StaticInv'
    <2>1. Null \in Params
      BY DEF Params
    <2> QED BY <1>1, <2>1, UpdateKeeps DEF UpdateParams, StaticInv, Helping
  <1>2. ASSUME UserFetch PROVE StaticInv'
    BY <1>2, FetchKeeps DEF UserFetch, Steps
  <1>3. ASSUME NEW answer \in RowSequences, UserExecute(answer) PROVE StaticInv'
    BY <1>3, ExecuteKeeps DEF UserExecute, Steps
  <1>4. ASSUME NEW answer \in RowSequences, PsExecute(answer) PROVE StaticInv'
    <2>1. Exists /\ ~moved
      BY <1>4 DEF StaticInv, Helping, PsExecute
    <2> QED BY <1>4, <2>1, ExecuteKeeps DEF PsExecute, Steps
  <1>5. ASSUME NEW answer \in RowSequences, PsReadExecute(answer) PROVE StaticInv'
    <2>1. Exists /\ ~moved
      BY <1>5 DEF StaticInv, Helping, PsReadExecute
    <2> QED BY <1>5, <2>1, ExecuteKeeps DEF PsReadExecute, Steps
  <1>6. ASSUME NEW step \in {"params", "read"}, PsStart(step) PROVE StaticInv'
    <2>1. (StaticTypeOK /\ rows \in Seq(Cells))'
      BY <1>6 DEF StaticInv, StaticTypeOK, PsStart, Unexecuted, metadataVars
    <2>2. Pointing' /\ Helping' /\ Accepting'
      BY <1>6
      DEF StaticInv, Pointing, Helping, Accepting, PsStart, Unexecuted, Exists, metadataVars
    <2>3. ResultShowsRow' /\ NullIsRefused' /\ ParamIsSent'
      BY <1>6 DEF StaticInv, PsStart, Unexecuted, ResultShowsRow, NullIsRefused, ParamIsSent,
                 ShownResult, metadataVars
    <2> QED BY <2>1, <2>2, <2>3 DEF StaticInv
  <1>7. ASSUME PsParams PROVE StaticInv'
    <2>1. Exists /\ ~moved /\ utility = "params" /\ fetched' = Nowhere
          /\ UNCHANGED <<template, owner, result, validated, rows, column, metadataVars, moved,
                         disengaged>>
      BY <1>7 DEF StaticInv, Helping, PsParams
    <2>2. ASSUME NEW p \in Params, param' = [param EXCEPT ![owner] = p], updateParamsBindings,
                 utility' = "execute"
          PROVE  StaticInv'
      BY <2>1, <2>2, UpdateKeeps
    <2>3. ASSUME UNCHANGED <<param, bindings, library, updated, sent>>, utility' = "none"
          PROVE  StaticInv'
      <3>1. (StaticTypeOK /\ rows \in Seq(Cells))'
        BY <2>1, <2>3 DEF StaticInv, StaticTypeOK, metadataVars
      <3>2. Pointing' /\ Helping' /\ Accepting'
        BY <2>1, <2>3 DEF StaticInv, Pointing, Helping, Accepting, Exists, metadataVars
      <3>3. ResultShowsRow' /\ NullIsRefused' /\ ParamIsSent'
        BY <2>1, <2>3, StaticAssumption
        DEF StaticInv, ResultShowsRow, NullIsRefused, ParamIsSent
      <3> QED BY <3>1, <3>2, <3>3 DEF StaticInv
    <2> QED BY <1>7, <2>2, <2>3 DEF PsParams
  <1>8. ASSUME UNCHANGED <<rows, result, fetched>>, UNCHANGED Unfetched, ~moved, Exists,
               utility' \in {"none", "params"}
        PROVE  StaticInv'
    <2>1. (StaticTypeOK /\ rows \in Seq(Cells))'
      BY <1>8 DEF StaticInv, StaticTypeOK, Unfetched, metadataVars
    <2>2. Pointing' /\ Helping' /\ Accepting'
      BY <1>8 DEF StaticInv, Pointing, Helping, Accepting, Unfetched, Exists, metadataVars
    <2>3. ResultShowsRow' /\ NullIsRefused' /\ ParamIsSent'
      BY <1>8 DEF StaticInv, Unfetched, ResultShowsRow, NullIsRefused, ParamIsSent, ShownResult,
                 metadataVars
    <2> QED BY <2>1, <2>2, <2>3 DEF StaticInv
  <1>9. ASSUME PsRow PROVE StaticInv'
    <2>1. Exists /\ ~moved /\ utility = "rows" /\ library.result # Nowhere
      BY <1>9 DEF StaticInv, Helping, PsRow
    <2>2. CASE rows = <<>>
      BY <1>8, <1>9, <2>1, <2>2 DEF PsRow
    <2>3. CASE rows # <<>>
      BY <1>9, <2>1, <2>3, FetchKeeps DEF PsRow, Steps
    <2> QED BY <2>2, <2>3
  <1>10. ASSUME PsReadValues PROVE StaticInv'
    <2>1. Exists /\ ~moved /\ utility' = "none" /\ library.result # Nowhere
      BY <1>10 DEF StaticInv, Helping, PsReadValues
    <2>2. CASE Len(rows) = 1
      BY <1>10, <2>1, <2>2, FetchKeeps DEF PsReadValues, Steps
    <2>3. CASE Len(rows) # 1
      BY <1>8, <1>10, <2>1, <2>3 DEF PsReadValues
    <2> QED BY <2>2, <2>3
  <1> QED BY <1>1, <1>2, <1>3, <1>4, <1>5, <1>6, <1>7, <1>9, <1>10, ConstructKeeps, MoveKeeps,
             DestroyKeeps, SetKeeps, AlterKeeps, RetrieveKeeps DEF StaticNext

-----------------------------------------------------------------------------
(* The prepared statement whose variables are bound one by one.             *)

\* What a server describes: results, each a few columns.
ResultColumns ==
  BoundedSeq([type : FieldTypes \cup OtherTypes, unsigned : BOOLEAN, nullable : BOOLEAN],
             MaxColumns)

\* A variable that is no Nullable always has a value, and the library writes to as
\* many variables as there are columns.
DynamicInv ==
  /\ DynamicTypeOK
  /\ columns \in ResultColumns /\ pending \in Seq(ResultColumns)
  /\ bound # <<>> => Len(bound) = Len(columns)
  /\ \A v \in Variables : ~IsNullable(v) => engaged[v] /\ ~null[v]
  /\ FetchShowsRow

LEMMA DynamicStutters ==
  ASSUME DynamicInv, UNCHANGED dynamicVars
  PROVE  DynamicInv'
  BY DEF dynamicVars, stmtClassVars, libraryVars, userVars, DynamicInv, DynamicTypeOK,
         FetchShowsRow, ShownBy

\* Once no row is shown there is nothing to show.
LEMMA NoRowShown ==
  ASSUME row' = <<>>
  PROVE  FetchShowsRow' /\ Len(row') <= MaxColumns
  BY DEF FetchShowsRow, MaxColumns

LEMMA Bounded ==
  ASSUME NEW S
  PROVE  /\ \A s : s \in BoundedSeq(S, MaxColumns) <=> s \in Seq(S) /\ Len(s) \in 0 .. MaxColumns
         /\ <<>> \in BoundedSeq(S, MaxColumns)
  <1>1. MaxColumns \in Nat
    BY DEF MaxColumns
  <1>2. ASSUME NEW s
        PROVE  s \in BoundedSeq(S, MaxColumns) <=> s \in Seq(S) /\ Len(s) \in 0 .. MaxColumns
    <2>1. s \in BoundedSeq(S, MaxColumns) <=> s \in Seq(S) /\ Len(s) <= MaxColumns
      BY <1>1, BoundedSequences
    <2>2. s \in Seq(S) => Len(s) \in Nat
      BY LenProperties
    <2> QED BY <1>1, <2>1, <2>2
  <1>3. <<>> \in Seq(S) /\ Len(<<>>) \in 0 .. MaxColumns
    BY <1>1
  <1> QED BY <1>2, <1>3

LEMMA DynamicInitInv ==
  ASSUME DynamicInit
  PROVE  DynamicInv
  <1>1. <<>> \in BoundedSeq(Variables \cup {Unset}, MaxColumns) /\ <<>> \in ResultColumns
    BY Bounded DEF ResultColumns
  <1>2. value \in [Variables -> Data]
    <2>1. (CHOOSE d \in Data : TRUE) \in Data
      BY DynamicAssumption
    <2> QED BY <2>1 DEF DynamicInit
  <1>3. \A v \in Variables : IsNullable(v) \in BOOLEAN
    BY DynamicAssumption DEF IsNullable
  <1>4. null \in [Variables -> BOOLEAN] /\ engaged \in [Variables -> BOOLEAN]
    BY <1>3 DEF DynamicInit
  <1>5. DynamicTypeOK
    BY <1>1, <1>2, <1>4 DEF DynamicInit, DynamicTypeOK, MaxColumns, Modes
  <1>6. pending \in Seq(ResultColumns)
    <2>1. <<>> \in Seq(ResultColumns)
      OBVIOUS
    <2> QED BY <2>1 DEF DynamicInit
  <1>7. \A v \in Variables : ~IsNullable(v) => engaged[v] /\ ~null[v]
    BY <1>3 DEF DynamicInit
  <1>8. columns \in ResultColumns /\ bound = <<>> /\ FetchShowsRow
    BY <1>1 DEF DynamicInit, FetchShowsRow
  <1> QED BY <1>5, <1>6, <1>7, <1>8 DEF DynamicInv

LEMMA ExecuteShows ==
  ASSUME DynamicInv, NEW answer \in Answers, Execute(answer)
  PROVE  DynamicInv'
  <1>1. answer \in Seq(ResultColumns) /\ answer # <<>>
    BY DynamicAssumption DEF ResultColumns
  <1>2. Head(answer) \in ResultColumns /\ Tail(answer) \in Seq(ResultColumns)
    BY <1>1, HeadTailProperties
  <1> DEFINE count == Len(Head(answer))
  <1>3. count \in 0 .. MaxColumns
    BY <1>2, Bounded DEF ResultColumns
  <1>4. resultBindings \in Seq(Variables \cup {Unset})
    BY Bounded DEF DynamicInv, DynamicTypeOK
  <1>5. resized(resultBindings, count) \in BoundedSeq(Variables \cup {Unset}, MaxColumns)
    <2>1. \A i \in 1 .. Len(resultBindings) : resultBindings[i] \in Variables \cup {Unset}
      BY <1>4, ElementOfSeq
    <2>2. resized(resultBindings, count) \in [1 .. count -> Variables \cup {Unset}]
      BY <1>3, <1>4, <2>1, LenProperties DEF resized
    <2> HIDE DEF count
    <2> QED BY <1>3, <2>2 DEF BoundedSeq, SeqOf
  <1>6. /\ columns' = Head(answer) /\ pending' = Tail(answer) /\ resultFieldCount' = count
        /\ resultBindings' \in {resultBindings, resized(resultBindings, count)}
        /\ bound' = IF count = Len(columns) THEN bound ELSE <<>>
        /\ nullableBindings' = {} /\ row' = <<>>
        /\ UNCHANGED <<validateMode, resultMetadata, outOfBounds, value, null, engaged>>
    BY DEF Execute, userVars
  <1>7. <<>> \in BoundedSeq(Variables \cup {Unset}, MaxColumns)
    BY Bounded
  <1> HIDE DEF count
  <1>8. DynamicTypeOK'
    BY <1>3, <1>5, <1>6, <1>7, NoRowShown DEF DynamicInv, DynamicTypeOK, MaxColumns
  <1>9. bound' # <<>> => Len(bound') = Len(columns')
    BY <1>6 DEF count, DynamicInv
  <1> QED BY <1>2, <1>6, <1>8, <1>9, NoRowShown DEF DynamicInv

LEMMA BindShows ==
  ASSUME DynamicInv, NEW i \in 1 .. MaxColumns, NEW v \in Variables, bindResult(i, v)
  PROVE  DynamicInv'
  <1>1. resultBindings \in Seq(Variables \cup {Unset}) /\ Len(resultBindings) \in 0 .. MaxColumns
    BY Bounded DEF DynamicInv, DynamicTypeOK
  <1>2. i \in 1 .. Len(resultBindings)
    BY <1>1, LenProperties DEF bindResult
  <1>3. /\ [resultBindings EXCEPT ![i] = v] \in Seq(Variables \cup {Unset})
        /\ Len([resultBindings EXCEPT ![i] = v]) = Len(resultBindings)
    BY <1>1, <1>2, ExceptSeq
  <1>4. resultBindings' \in BoundedSeq(Variables \cup {Unset}, MaxColumns)
    BY <1>1, <1>3, Bounded DEF bindResult
  <1>5. nullableBindings' \subseteq {w \in Variables : IsNullable(w)}
    BY DEF DynamicInv, DynamicTypeOK, bindResult
  <1>6. row' = <<>> /\ UNCHANGED <<validateMode, resultFieldCount, resultMetadata, columns, pending,
                                  bound, outOfBounds, value, null, engaged>>
    BY DEF bindResult, libraryVars, userVars
  <1>7. DynamicTypeOK'
    BY <1>4, <1>5, <1>6, NoRowShown DEF DynamicInv, DynamicTypeOK
  <1> QED BY <1>6, <1>7, NoRowShown DEF DynamicInv

LEMMA UpdateShows ==
  ASSUME DynamicInv, updateResultBindings
  PROVE  DynamicInv'
  <1>1. resultBindings \in Seq(Variables \cup {Unset}) /\ Len(resultBindings) \in 0 .. MaxColumns
    BY Bounded DEF DynamicInv, DynamicTypeOK
  <1>2. Len(columns) \in Nat /\ Len(columns) \in 0 .. MaxColumns
    BY Bounded DEF DynamicInv, ResultColumns, MaxColumns
  <1>3. /\ row' = <<>>
        /\ UNCHANGED <<validateMode, resultFieldCount, resultBindings, nullableBindings,
                       columns, pending, value, null, engaged>>
        /\ resultMetadata' \in {resultMetadata, <<getResultMetadata>>}
        /\ \/ bound' = bound
           \/ /\ Len(columns) <= Len(resultBindings)
              /\ bound' = SubSeq(resultBindings, 1, Len(columns))
    BY <1>1, <1>2 DEF updateResultBindings, userVars
  <1>4. bound' \in BoundedSeq(Variables \cup {Unset}, MaxColumns)
        /\ (bound' # <<>> => Len(bound') = Len(columns'))
    <2>1. CASE bound' = bound
      BY <1>3, <2>1 DEF DynamicInv, DynamicTypeOK
    <2>2. CASE /\ Len(columns) <= Len(resultBindings)
               /\ bound' = SubSeq(resultBindings, 1, Len(columns))
      <3>1. \A i \in 1 .. Len(columns) : resultBindings[i] \in Variables \cup {Unset}
        BY <1>1, <1>2, <2>2, ElementOfSeq
      <3>2. bound' \in Seq(Variables \cup {Unset}) /\ Len(bound') = Len(columns)
        BY <1>2, <2>2, <3>1, SubSeqProperties
      <3> QED BY <1>2, <1>3, <3>2, Bounded
    <2> QED BY <1>3, <2>1, <2>2
  <1>5. Len(resultMetadata') <= 1
    <2>1. \A x : Len(<<x>>) = 1
      OBVIOUS
    <2>2. Len(<<getResultMetadata>>) = 1 /\ Len(resultMetadata) <= 1
      BY <2>1 DEF DynamicInv, DynamicTypeOK
    <2> QED BY <1>3, <2>2
  <1>6. DynamicTypeOK'
    BY <1>3, <1>4, <1>5, NoRowShown DEF DynamicInv, DynamicTypeOK
  <1> QED BY <1>3, <1>4, <1>6, NoRowShown DEF DynamicInv

LEMMA RetrieveShows ==
  ASSUME DynamicInv, RetrieveResultMetadata
  PROVE  DynamicInv'
  <1>1. UNCHANGED <<validateMode, resultFieldCount, resultBindings, nullableBindings,
                    libraryVars, userVars, row>>
    BY DEF RetrieveResultMetadata
  <1>2. Len(resultMetadata') <= 1
    <2>1. Len(resultMetadata) <= 1
      BY DEF DynamicInv, DynamicTypeOK
    <2>2. CASE resultMetadata = <<>>
      BY <2>2 DEF RetrieveResultMetadata
    <2>3. CASE resultMetadata # <<>>
      BY <2>1, <2>3 DEF RetrieveResultMetadata
    <2> QED BY <2>2, <2>3
  <1> QED
    BY <1>1, <1>2
    DEF DynamicInv, DynamicTypeOK, libraryVars, userVars, FetchShowsRow, ShownBy

LEMMA NextResultShows ==
  ASSUME DynamicInv, nextResult
  PROVE  DynamicInv'
  <1>1. Head(pending) \in ResultColumns /\ Tail(pending) \in Seq(ResultColumns)
    BY HeadTailProperties DEF DynamicInv, nextResult
  <1>2. /\ columns' = Head(pending) /\ pending' = Tail(pending) /\ bound' = <<>> /\ row' = <<>>
        /\ UNCHANGED <<validateMode, resultFieldCount, resultBindings, nullableBindings,
                       resultMetadata, value, null, engaged>>
    BY DEF nextResult, stmtClassVars, userVars
  <1>3. <<>> \in BoundedSeq(Variables \cup {Unset}, MaxColumns)
    BY Bounded
  <1>4. DynamicTypeOK'
    BY <1>2, <1>3, NoRowShown DEF DynamicInv, DynamicTypeOK
  <1> QED BY <1>1, <1>2, <1>4, NoRowShown DEF DynamicInv

LEMMA ResetShows ==
  ASSUME DynamicInv, NEW v \in Variables, Reset(v)
  PROVE  DynamicInv'
  <1>1. /\ row' = <<>>
        /\ UNCHANGED <<validateMode, resultFieldCount, resultBindings, nullableBindings,
                       resultMetadata, columns, pending, bound, outOfBounds, value>>
        /\ null' = [null EXCEPT ![v] = TRUE] /\ engaged' = [engaged EXCEPT ![v] = FALSE]
        /\ IsNullable(v)
    BY DEF Reset, stmtClassVars, libraryVars
  <1>2. DynamicTypeOK'
    BY <1>1, NoRowShown DEF DynamicInv, DynamicTypeOK
  <1>3. \A w \in Variables : ~IsNullable(w) => engaged'[w] /\ ~null'[w]
    BY <1>1 DEF DynamicInv, DynamicTypeOK
  <1> QED BY <1>1, <1>2, <1>3, NoRowShown DEF DynamicInv

\* What one variable is written: nothing, or the cell of a column it is bound to.
LEMMA WrittenCell ==
  ASSUME DynamicInv, NEW r \in Rows, NEW v \in Variables
  PROVE  /\ WrittenBy(v, r) \in Data \cup {NULL, Unset}
         /\ \A i \in DOMAIN bound :
              bound[i] = v /\ (\A j \in DOMAIN bound \ {i} : bound[j] # v)
                => WrittenBy(v, r) = r[i] /\ r[i] \in Data \cup {NULL}
  <1> DEFINE at == {i \in DOMAIN bound : bound[i] = v}
             last(i) == i \in at /\ \A j \in at : j <= i
  <1>1. bound \in Seq(Variables \cup {Unset}) /\ Len(bound) \in 0 .. MaxColumns
    BY Bounded DEF DynamicInv, DynamicTypeOK
  <1>2. DOMAIN bound = 1 .. Len(bound)
    BY <1>1, LenProperties
  <1>3. at \subseteq 1 .. Len(bound) /\ at \subseteq {1, 2}
    BY <1>1, <1>2 DEF MaxColumns
  <1>4. \A i \in at : r[i] \in Data \cup {NULL}
    <2>1. at # {} => bound # <<>>
      BY <1>2
    <2>2. at # {} => Len(bound) = Len(columns)
      BY <2>1 DEF DynamicInv
    <2>3. r \in [1 .. Len(columns) -> Data \cup {NULL}]
      BY DEF Rows
    <2> QED BY <1>3, <2>2, <2>3
  <1> HIDE DEF at
  <1>5. WrittenBy(v, r) = IF at = {} THEN Unset ELSE r[CHOOSE i : last(i)]
    BY DEF WrittenBy, at
  <1>6. ASSUME at # {} PROVE last(CHOOSE i : last(i))
    <2>1. \E i : last(i)
      BY <1>3, <1>6
    <2> HIDE DEF last
    <2> QED BY <2>1
  <1>7. WrittenBy(v, r) \in Data \cup {NULL, Unset}
    BY <1>4, <1>5, <1>6
  <1>8. ASSUME NEW i \in DOMAIN bound, bound[i] = v, \A j \in DOMAIN bound \ {i} : bound[j] # v
        PROVE  WrittenBy(v, r) = r[i] /\ r[i] \in Data \cup {NULL}
    <2>1. at = {i}
      BY <1>8 DEF at
    <2>2. last(CHOOSE k : last(k))
      BY <1>6, <2>1
    <2>3. (CHOOSE k : last(k)) = i
      BY <2>1, <2>2
    <2> QED BY <1>4, <1>5, <2>1, <2>3
  <1> QED BY <1>7, <1>8

LEMMA FetchTypes ==
  ASSUME DynamicInv, NEW r \in Rows
  PROVE  /\ [v \in Variables |->
              IF WrittenBy(v, r) = Unset \/ ~IsNullable(v) THEN null[v] ELSE WrittenBy(v, r) = NULL]
              \in [Variables -> BOOLEAN]
         /\ [v \in Variables |->
              IF WrittenBy(v, r) \in {Unset, NULL} THEN value[v] ELSE WrittenBy(v, r)]
              \in [Variables -> Data]
         /\ r # <<>> => Len(r) = Len(columns)
         /\ Len(r) <= MaxColumns
  <1>1. ASSUME NEW v \in Variables
        PROVE  /\ (IF WrittenBy(v, r) = Unset \/ ~IsNullable(v) THEN null[v]
                   ELSE WrittenBy(v, r) = NULL) \in BOOLEAN
               /\ (IF WrittenBy(v, r) \in {Unset, NULL} THEN value[v] ELSE WrittenBy(v, r)) \in Data
    <2>1. null[v] \in BOOLEAN /\ value[v] \in Data
      BY DEF DynamicInv, DynamicTypeOK
    <2>2. WrittenBy(v, r) \in Data \cup {NULL, Unset}
      BY WrittenCell
    <2> QED BY <2>1, <2>2
  <1>2. r \in [1 .. Len(columns) -> Data \cup {NULL}] /\ Len(columns) \in 0 .. MaxColumns
    BY Bounded DEF Rows, DynamicInv, ResultColumns
  <1>3. Len(r) = Len(columns)
    BY <1>2
  <1> QED BY <1>1, <1>2, <1>3 DEF MaxColumns

LEMMA TruncatedShows ==
  ASSUME DynamicInv, NEW r \in Rows, FetchTruncated(r)
  PROVE  DynamicInv'
  <1>1. /\ row' = <<>>
        /\ UNCHANGED <<validateMode, resultFieldCount, resultBindings, nullableBindings,
                       resultMetadata, columns, pending, bound, outOfBounds, engaged>>
    BY DEF FetchTruncated, stmtClassVars, libraryVars
  <1>2. null' \in [Variables -> BOOLEAN] /\ value' \in [Variables -> Data]
    BY FetchTypes DEF FetchTruncated
  <1>3. \A w \in Variables : ~IsNullable(w) => null'[w] = null[w]
    BY DEF FetchTruncated
  <1>4. DynamicTypeOK'
    BY <1>1, <1>2, NoRowShown DEF DynamicInv, DynamicTypeOK
  <1> QED BY <1>1, <1>3, <1>4, NoRowShown DEF DynamicInv

LEMMA FetchShows ==
  ASSUME DynamicInv, NEW r \in Rows, Fetch(r)
  PROVE  DynamicInv'
  <1> DEFINE nulls == [v \in Variables |->
                         IF WrittenBy(v, r) = Unset \/ ~IsNullable(v) THEN null[v]
                         ELSE WrittenBy(v, r) = NULL]
  <1>1. /\ row' = r /\ null' = nulls /\ engaged' = engageNullables(nulls)
        /\ value' = [v \in Variables |->
                       IF WrittenBy(v, r) \in {Unset, NULL} THEN value[v] ELSE WrittenBy(v, r)]
        /\ UNCHANGED <<validateMode, resultFieldCount, resultBindings, nullableBindings,
                       resultMetadata, columns, pending, bound, outOfBounds>>
    BY DEF Fetch, stmtClassVars, libraryVars
  <1>2. /\ null' \in [Variables -> BOOLEAN] /\ value' \in [Variables -> Data]
        /\ Len(row') <= MaxColumns
    BY <1>1, FetchTypes
  <1>3. ASSUME NEW v \in Variables
        PROVE  /\ null'[v] = IF WrittenBy(v, r) = Unset \/ ~IsNullable(v) THEN null[v]
                             ELSE WrittenBy(v, r) = NULL
               /\ value'[v] = IF WrittenBy(v, r) \in {Unset, NULL} THEN value[v]
                              ELSE WrittenBy(v, r)
               /\ engaged'[v] = (engaged[v] \/ (v \in nullableBindings /\ ~null'[v]))
    BY <1>1 DEF engageNullables
  <1>4. engaged' \in [Variables -> BOOLEAN]
    <2>1. \A v \in Variables : (engaged[v] \/ (v \in nullableBindings /\ ~nulls[v])) \in BOOLEAN
      OBVIOUS
    <2> HIDE DEF nulls
    <2> QED BY <1>1, <2>1 DEF engageNullables
  <1>5. DynamicTypeOK'
    BY <1>1, <1>2, <1>4 DEF DynamicInv, DynamicTypeOK
  <1>6. \A v \in Variables : ~IsNullable(v) => engaged'[v] /\ ~null'[v]
    BY <1>3 DEF DynamicInv
  <1>7. ASSUME NEW i \in DOMAIN bound, bound[i] # Unset,
               \A j \in DOMAIN bound \ {i} : bound[j] # bound[i],
               IF IsNullable(bound[i]) THEN bound[i] \in nullableBindings ELSE r[i] # NULL
        PROVE  ShownBy(bound[i])' = r[i]
    <2> DEFINE v == bound[i]
    <2>1. v \in Variables
      <3>1. bound \in Seq(Variables \cup {Unset})
        BY Bounded DEF DynamicInv, DynamicTypeOK
      <3>2. i \in 1 .. Len(bound)
        BY <3>1, LenProperties
      <3> QED BY <1>7, <3>1, <3>2, ElementOfSeq
    <2>2. WrittenBy(v, r) = r[i] /\ r[i] \in Data \cup {NULL} /\ r[i] # Unset
      BY <1>7, <2>1, WrittenCell, DynamicAssumption
    <2>3. bound'[i] = v
      BY <1>1
    <2> HIDE DEF v
    <2>4. CASE IsNullable(v)
      BY <1>2, <1>3, <1>7, <2>1, <2>2, <2>3, <2>4 DEF ShownBy, v
    <2>5. CASE ~IsNullable(v)
      <3>1. engaged'[v] /\ ~null'[v] /\ r[i] # NULL
        BY <1>6, <1>7, <2>1, <2>5 DEF v
      <3> QED BY <1>3, <2>1, <2>2, <2>3, <3>1 DEF ShownBy
    <2> QED BY <2>4, <2>5
  <1>8. FetchShowsRow'
    BY <1>1, <1>7 DEF FetchShowsRow, IsNullable
  <1> QED BY <1>1, <1>5, <1>6, <1>8 DEF DynamicInv

LEMMA DynamicStep ==
  ASSUME DynamicInv, DynamicNext
  PROVE  DynamicInv'
  BY ExecuteShows, BindShows, RetrieveShows, UpdateShows, NextResultShows, FetchShows,
     TruncatedShows, ResetShows
  DEF DynamicNext

-----------------------------------------------------------------------------
(* All of them together.                                                    *)

StatementsInv ==
  /\ DynamicInv /\ StaticInv /\ ArrayInv
  /\ sample \in Samples \cup {NoSample}

LEMMA StatementsInitInv ==
  ASSUME MCInit
  PROVE  StatementsInv
  BY DynamicInitInv, StaticInitInv, ArrayInitInv DEF MCInit, StatementsInv

LEMMA StatementsStep ==
  ASSUME StatementsInv, [MCNext]_mcVars
  PROVE  StatementsInv'
  <1>1. DynamicInv'
    <2>1. DynamicNext \/ UNCHANGED dynamicVars
      BY DEF MCNext, mcVars
    <2> QED BY <2>1, DynamicStep, DynamicStutters DEF StatementsInv
  <1>2. StaticInv'
    <2>1. StaticNext \/ UNCHANGED staticVars
      BY DEF MCNext, mcVars
    <2> QED BY <2>1, StaticStep, StaticStutters DEF StatementsInv
  <1>3. ArrayInv'
    <2>1. ArrayNext \/ UNCHANGED arrayVars
      BY DEF MCNext, mcVars
    <2> QED BY <2>1, ArrayStep, ArrayStutters DEF StatementsInv
  <1>4. sample' \in Samples \cup {NoSample}
    BY DEF StatementsInv, MCNext, mcVars
  <1> QED BY <1>1, <1>2, <1>3, <1>4 DEF StatementsInv

LEMMA StatementsInvariant == MCSpec => []StatementsInv
  BY StatementsInitInv, StatementsStep, PTL DEF MCSpec

LEMMA NullableInvariantOfAll ==
  ASSUME ~DisengagedPairs
  PROVE  MCSpec => []NullableInv
  <1>1. MCInit => NullableInv
    BY NullableInitInv DEF MCInit
  <1>2. NullableInv /\ [MCNext]_mcVars => NullableInv'
    <2>1. [MCNext]_mcVars => NullableNext \/ UNCHANGED nullableVars
      BY DEF MCNext, mcVars
    <2> QED BY <2>1, NullableStep, NullableStutters DEF NullableInv, Kept
  <1> QED BY <1>1, <1>2, PTL DEF MCSpec

\* Type correctness of both kinds of statement, of a Nullable that is not assigned or
\* swapped while it and the other one are disengaged, and of the arrays.
THEOREM StatementTypes ==
  ASSUME ~DisengagedPairs
  PROVE  MCSpec => []ValuesTypeOK
  <1>1. StatementsInv /\ NullableInv => ValuesTypeOK
    BY DEF StatementsInv, DynamicInv, StaticInv, ArrayInv, NullableInv, ValuesTypeOK
  <1> QED BY <1>1, StatementsInvariant, NullableInvariantOfAll, PTL

\* The dynamic statement: a fetch engages and fills the variables that were bound, so
\* that they show the row whatever they held before.
THEOREM BoundVariablesShowRow == MCSpec => []FetchShowsRow
  <1>1. StatementsInv => FetchShowsRow
    BY DEF StatementsInv, DynamicInv
  <1> QED BY <1>1, StatementsInvariant, PTL

\* The static statement: getResult() shows the row that fetch() wrote through the
\* library's copy of a pointer into the object.
THEOREM OwnResultShowsRow == MCSpec => []ResultShowsRow
  <1>1. StatementsInv => ResultShowsRow
    BY DEF StatementsInv, StaticInv
  <1> QED BY <1>1, StatementsInvariant, PTL

\* The one validation of a statement refuses a column whose NULL would be lost, and
\* nothing but a change of the column gets round it.
THEOREM NullsAreRefused == MCSpec => []NullIsRefused
  <1>1. StatementsInv => NullIsRefused
    BY DEF StatementsInv, StaticInv
  <1> QED BY <1>1, StatementsInvariant, PTL

\* What the library reads through its copy of the parameter's binding is the
\* parameter, once the bindings were updated.
THEOREM ParamsAreSent == MCSpec => []ParamIsSent
  <1>1. StatementsInv => ParamIsSent
    BY DEF StatementsInv, StaticInv
  <1> QED BY <1>1, StatementsInvariant, PTL

\* Text in a fixed array: it is cut to the array on every way in, and read back.
THEOREM TextsAreKept == MCSpec => []TextIsKept
  <1>1. StatementsInv => TextIsKept
    BY ArrayShows DEF StatementsInv
  <1> QED BY <1>1, StatementsInvariant, PTL

\* The comparisons of Time, Date and Datetime are orders of the values.
THEOREM ValuesInOrder == MCSpec => []ValuesAreOrdered
  <1>1. ASSUME StatementsInv PROVE ValuesAreOrdered
    <2>1. Sampled("time") => sample.a \in Times /\ sample.b \in Times
      BY <1>1 DEF StatementsInv, Sampled, Samples
    <2>2. Sampled("date") => sample.a \in Dates /\ sample.b \in Dates
      BY <1>1 DEF StatementsInv, Sampled, Samples
    <2>3. Sampled("datetime") => sample.a \in Datetimes /\ sample.b \in Datetimes
      BY <1>1 DEF StatementsInv, Sampled, Samples
    <2>4. \A a \in Datetimes : PutTogether(a)
      BY DEF PutTogether, MakeDatetime, getDate, getTime, Datetimes, DatetimeEqual, DateEqual,
             TimeEqual, DateFields, TimeFields
    <2> QED BY <2>1, <2>2, <2>3, <2>4, TimeOrder, DateOrder, DatetimeOrder DEF ValuesAreOrdered
  <1> QED BY <1>1, StatementsInvariant, PTL

\* The tables of ArithmeticPromotions lose no value of a numeric type.
THEOREM PromotionsAreLossless == MCSpec => []PromotionsLoseNothing
  <1>1. ASSUME StatementsInv PROVE PromotionsLoseNothing
    <2>1. Sampled("types") => sample.fromUnsigned \in BOOLEAN /\ sample.toUnsigned \in BOOLEAN
      BY <1>1 DEF StatementsInv, Sampled, Samples
    <2> QED BY <2>1, PromotionsLoseNothingOfAny DEF PromotionsLoseNothing
  <1> QED BY <1>1, StatementsInvariant, PTL

\* The tables of the metadata modes agree with the order of the modes.
THEOREM ModesNest == MCSpec => []ModesAreNested
  <1>1. ASSUME StatementsInv PROVE ModesAreNested
    <2>1. Sampled("types") => sample.fromUnsigned \in BOOLEAN /\ sample.toUnsigned \in BOOLEAN
      BY <1>1 DEF StatementsInv, Sampled, Samples
    <2> QED BY <2>1, NestedOfAny DEF ModesAreNested
  <1> QED BY <1>1, StatementsInvariant, PTL

\* The texts of a field become the numbers they show.
THEOREM NumbersParse == MCSpec => []NumbersParseRight
  <1>1. \A text \in MCTexts : text \in Seq(Characters)
    <2>1. ASSUME NEW text \in BoundedSeq({Minus, Letter, 0, 2, 5, 9}, 4)
          PROVE  text \in Seq(Characters)
      <3>1. PICK n \in 0 .. 4 : text \in [1 .. n -> {Minus, Letter, 0, 2, 5, 9}]
        BY DEF BoundedSeq, SeqOf
      <3>2. {Minus, Letter, 0, 2, 5, 9} \subseteq Characters
        BY DEF Characters, Digits
      <3>3. n \in Nat /\ text \in [1 .. n -> Characters]
        BY <3>1, <3>2
      <3> QED BY <3>3
    <2>2. \A a, b, c, d, e, f \in Characters :
            {<<a, b, c, d>>, <<a, b, c, d, e>>, <<a, b, c, d, e, f>>} \subseteq Seq(Characters)
      OBVIOUS
    <2>3. {Minus, Letter, 0, 1, 2, 3, 5, 6, 7, 8, 9} \subseteq Characters
      BY DEF Characters, Digits
    <2>4. {<<6, 5, 5, 3, 5>>, <<6, 5, 5, 3, 6>>, <<9, 9, 9, 9, 9>>, <<1, 0, 0, 0, 0, 0>>,
           <<3, 2, 7, 6, 7>>, <<3, 2, 7, 6, 8>>, <<Minus, 3, 2, 7, 6, 8>>,
           <<Minus, 3, 2, 7, 6, 9>>, <<Minus, 1, 2, 8>>, <<6, Letter, 5, 3, 5>>,
           <<6, 5, 5, 3, Letter>>} \subseteq Seq(Characters)
      BY <2>2, <2>3
    <2> QED BY <2>1, <2>4, Zenon DEF MCTexts
  <1>2. ASSUME StatementsInv PROVE NumbersParseRight
    <2>1. Sampled("text") => /\ sample.text \in MCTexts /\ sample.width \in Widths
                             /\ sample.validate \in BOOLEAN
      BY <1>2 DEF StatementsInv, Sampled, Samples
    <2> QED BY <1>1, <2>1, AnyTextParsesRight DEF NumbersParseRight
  <1> QED BY <1>2, StatementsInvariant, PTL
=============================================================================
