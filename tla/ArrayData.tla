------------------------------ MODULE ArrayData ------------------------------
(***************************************************************************)
(* types/array.hpp, types/blob_data.hpp, types/string_data.hpp and         *)
(* types/decimal_data.hpp: text in a fixed array, which a statement may    *)
(* fill behind the class's back.  The array is that of a string: it has a  *)
(* byte more than the N bytes of text (TerminatingZero).                   *)
(***************************************************************************)
EXTENDS Naturals, Sequences, SequencesExt, FiniteSetsExt

CONSTANTS
  Arrays,   \* the objects
  N,        \* bytes of text; also the bound on the text lengths is N + 1
  Chars,    \* bytes that are not zero
  Zero,     \* the byte '\0'
  Garbage   \* a byte nobody has written

ASSUME ArrayAssumption == N \in Nat \ {0} /\ Zero \notin Chars /\ Garbage \notin Chars \cup {Zero}

VARIABLES
  array,       \* the bytes, from 0 to N
  itemsCount,  \* what counterRef() hands to the C library
  given        \* history: the text that each object was given last

arrayVars == <<array, itemsCount, given>>

Texts == BoundedSeq(Chars, N + 1)

ArrayTypeOK ==
  /\ array \in [Arrays -> [0 .. N -> Chars \cup {Zero, Garbage}]]
  /\ itemsCount \in [Arrays -> 0 .. N + 1]
  /\ given \in [Arrays -> Texts]

\* ArrayBase(): the first and the last byte are zeroed, the others are not set.
Fresh == [i \in 0 .. N |-> IF i \in {0, N} THEN Zero ELSE Garbage]

ArrayInit ==
  /\ array = [o \in Arrays |-> Fresh]
  /\ itemsCount = [o \in Arrays |-> 0]
  /\ given = [o \in Arrays |-> <<>>]

\* Fault: the count that the library wrote is believed.
RawSize(o) == itemsCount[o]

\* count() and size(): never more than fits, whatever a fetch reported.
size(o) == IF itemsCount[o] <= N THEN itemsCount[o] ELSE N

\* The first n bytes, and the terminator after them, copied over `bytes'.
Overwritten(bytes, source, n) ==
  [i \in 0 .. N |-> IF i < n THEN source[i] ELSE IF i = n THEN Zero ELSE bytes[i]]

BytesOf(text) == [i \in 0 .. N |-> IF i < Len(text) THEN text[i + 1] ELSE Garbage]

\* The object takes these bytes and this count, as the text it is given.
Becomes(o, bytes, n, text) ==
  /\ array' = [array EXCEPT ![o] = bytes]
  /\ itemsCount' = [itemsCount EXCEPT ![o] = n]
  /\ given' = [given EXCEPT ![o] = text]

\* Fault: a text that is too long is written past the end of the array.
AssignUncut(o, text) ==
  Becomes(o, [i \in 0 .. (IF Len(text) > N THEN Len(text) ELSE N) |->
              IF i < Len(text) THEN text[i + 1] ELSE Zero], Len(text), text)

\* The constructors from text, which BlobDataBase::assign cuts.
Assign(o, text) ==
  LET updateSize == IF Len(text) <= N THEN Len(text) ELSE N
  IN  Becomes(o, Overwritten(Fresh, BytesOf(text), updateSize), updateSize, text)

\* The copy and move assignments, and the constructors, which start from memory
\* that nobody has zeroed.
CopyOrMove(o, other) ==
  /\ o # other
  /\ \E bytes \in {array[o], [i \in 0 .. N |-> Garbage]} :
       Becomes(o, Overwritten(bytes, array[other], size(other)), size(other), given[other])

\* StringDataBase(T value) of a number whose text is `text': it throws when the
\* text does not fit, and writes no terminator.
FromNumber(o, text) ==
  /\ Len(text) \in 1 .. N
  /\ Becomes(o, [i \in 0 .. N |-> IF i < Len(text) THEN text[i + 1] ELSE Fresh[i]], Len(text), text)

\* A fetch into the bound data(), with maxSize() bytes: the C library copies what
\* fits, terminates it if there is room, and reports the whole length.
FetchInto(o, text) ==
  LET copied == IF Len(text) <= N THEN Len(text) ELSE N
  IN  Becomes(o, [i \in 0 .. N |-> IF i < copied THEN text[i + 1]
                                 ELSE IF i = copied /\ copied < N THEN Zero ELSE array[o][i]],
            Len(text), text)

ArrayNext ==
  \/ \E o \in Arrays, text \in Texts :
       Assign(o, text) \/ FromNumber(o, text) \/ FetchInto(o, text)
  \/ \E o, other \in Arrays : CopyOrMove(o, other)

ArraySpec == ArrayInit /\ [][ArrayNext]_arrayVars

\* getString() and getStringView()
getString(o) == [i \in 1 .. size(o) |-> array[o][i - 1]]

\* back() throws when the object is empty.
BackThrows(o) == size(o) = 0

\* The comparisons of two objects; those with a std::string compare alike, but
\* for operator!=(const std::string&, const BlobDataBase&), which compares with ==.
BlobEqual(o, other) == getString(o) = getString(other)

StringUnequalBlob(string, o) == string = getString(o)

-----------------------------------------------------------------------------

\* Whatever way a text came into an object, by a constructor, a copy of a copy
\* or a fetch that reported a length beyond the array, the object shows that
\* text, cut to its N bytes, and never a byte that nobody has written.
TextIsKept ==
  \A o \in Arrays :
    /\ getString(o) = SubSeq(given[o], 1, IF Len(given[o]) <= N THEN Len(given[o]) ELSE N)
    /\ BackThrows(o) <=> given[o] = <<>>
=============================================================================
