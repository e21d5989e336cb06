----------------------------- MODULE Converters -----------------------------
(***************************************************************************)
(* converters/to_integer.hpp, converters/to_floating_point.hpp,            *)
(* converters.hpp and field.hpp: the text of a field becomes a number.     *)
(*                                                                         *)
(* A text is a sequence of characters; a digit is a character 0 .. 9.      *)
(***************************************************************************)
EXTENDS Integers, Sequences, SequencesExt

CONSTANTS
  Minus,     \* the character '-'
  Letter,    \* a character that is no digit
  NullText,  \* the null pointer of a field that is NULL
  Thrown,    \* outcome: an exception
  Undefined, \* outcome: undefined behaviour
  Widths     \* the widths of the integer types

Digits == 0 .. 9
Characters == Digits \cup {Minus, Letter}

ASSUME ConvertersAssumption ==
  /\ Widths \subseteq {8, 16, 32, 64}
  /\ {Minus, Letter, Thrown, Undefined} \cap Int = {}
  /\ NullText \notin Seq(Characters)

\* 'x' - '0', what the unchecked arithmetic takes a letter for.
LetterCode == 72

CodeOf(char) == IF char = Letter THEN LetterCode ELSE IF char = Minus THEN -3 ELSE char

\* The lengths that the switch for uint8_t, uint16_t, ... has a case for.
MaxLength(width) ==
  CASE width = 8 -> 3 [] width = 16 -> 5 [] width = 32 -> 10 [] width = 64 -> 20

pow(x, n) ==
  LET power[i \in 0 .. n] == IF i = 0 THEN 1 ELSE x * power[i - 1]
  IN  power[n]

\* How many values a type has: its arithmetic is modulo this number.
Modulus(width) == pow(2, width)

\* pow(10UL, n), narrowed to the result's type.
Base(width, n) == pow(10, n) % Modulus(width)

\* ToIntegerParserImpl: from the first character on, each adds its code times
\* the power of its place, modulo the width of the type.
ParserImpl(text, width) ==
  LET result[i \in 0 .. Len(text)] ==
        IF i = 0 THEN 0
        ELSE (result[i - 1] + CodeOf(text[i]) * Base(width, Len(text) - i)) % Modulus(width)
  IN  result[Len(text)]

\* The recursion ends at length 1; with `validate' every character is checked.
toIntegerUnsigned(text, width, validate) ==
  IF text = NullText \/ Len(text) \notin 1 .. MaxLength(width) THEN Thrown
  ELSE IF validate /\ \E i \in 1 .. Len(text) : text[i] \notin Digits THEN Thrown
  ELSE ParserImpl(text, width)

\* The value of an unsigned number converted to the signed type.
AsSigned(n, width) == IF n < pow(2, width - 1) THEN n ELSE n - Modulus(width)

\* Fault: the sign is dropped.
SignDropped(text, width, validate) ==
  IF text = NullText THEN Undefined
  ELSE LET digits == IF text # <<>> /\ Head(text) = Minus THEN Tail(text) ELSE text
           result == toIntegerUnsigned(digits, width, validate)
       IN  IF result = Thrown THEN Thrown ELSE AsSigned(result, width)

\* The least value of a signed type.
Least(width) == -pow(2, width - 1)

\* `result * -1' in a type narrower than int is computed in int, where it is exact;
\* from the width of int on, the least value has no negation.
IntWidth == 32

Negated(n, width) ==
  IF width >= IntWidth /\ AsSigned(n, width) = Least(width) THEN Undefined
  ELSE AsSigned((-n) % Modulus(width), width)

\* toInteger of a signed type looks for the sign before it looks at the length,
\* so it reads through a null pointer.
toIntegerSigned(text, width, validate) ==
  IF text = NullText THEN Undefined
  ELSE LET isNegative == text # <<>> /\ Head(text) = Minus
           digits == IF isNegative THEN Tail(text) ELSE text
           result == toIntegerUnsigned(digits, width, validate)
       IN  IF result = Thrown THEN Thrown
           ELSE IF isNegative THEN Negated(result, width)
           ELSE AsSigned(result, width)

\* toFloatingPoint: strtof and the like are given the pointer only, and stop at
\* the first character that cannot be part of a number.
FloatPrefix(text) ==
  LET bad == {i \in 1 .. Len(text) : text[i] \notin Digits /\ ~(i = 1 /\ text[i] = Minus)}
  IN  IF bad = {} THEN text ELSE SubSeq(text, 1, (CHOOSE i \in bad : \A j \in bad : i <= j) - 1)

toFloatingPoint(text) ==
  IF text = NullText \/ text = <<>> THEN Thrown ELSE FloatPrefix(text)

\* Field::to<T>() for the kinds of T that have a converter.
Kinds == {"unsigned", "signed", "floating"}

FieldTo(text, kind, width) ==
  CASE kind = "unsigned" -> toIntegerUnsigned(text, width, FALSE)
    [] kind = "signed" -> toIntegerSigned(text, width, FALSE)
    [] kind = "floating" -> toFloatingPoint(text)

-----------------------------------------------------------------------------
(* Properties of a text, against the decimal value of its digits.           *)

IsNumeral(text) == text # <<>> /\ \A i \in 1 .. Len(text) : text[i] \in Digits

DecimalValue(digits) == FoldLeft(LAMBDA value, digit : 10 * value + digit, 0, digits)

Magnitude(text) == IF text # <<>> /\ Head(text) = Minus THEN Tail(text) ELSE text

\* A field of a row becomes the number it shows.  An unsigned numeral is parsed
\* to its value modulo the type's range, unless it has too many digits; every
\* value of a signed type survives, the least one of an 8- or 16-bit type too, whose
\* magnitude the type cannot hold, but not the least one of a 32- or 64-bit type,
\* whose text ends in the overflow of a negation, which is undefined; on a numeral that fits both the converters agree; and when a
\* conversion validates, nothing but a numeral becomes a number, although the
\* recursion looks at one character at a time.
ParsesRight(text, width, validate) ==
  LET unsigned == toIntegerUnsigned(text, width, validate)
      digits == Magnitude(text)
      value == IF digits = text THEN DecimalValue(digits) ELSE -DecimalValue(digits)
  IN  /\ IsNumeral(text) =>
           IF Len(text) > MaxLength(width) THEN unsigned = Thrown
           ELSE unsigned = DecimalValue(text) % Modulus(width)
      /\ /\ IsNumeral(digits) /\ Len(digits) <= MaxLength(width)
         /\ Least(width) <= value /\ value < pow(2, width - 1)
         => toIntegerSigned(text, width, validate) =
              IF width >= IntWidth /\ value = Least(width) THEN Undefined ELSE value
      /\ IsNumeral(text) /\ unsigned = value /\ value < pow(2, width - 1) =>
           /\ FieldTo(text, "unsigned", width) = FieldTo(text, "signed", width)
           /\ FieldTo(text, "floating", width) = text
      /\ validate /\ unsigned # Thrown => IsNumeral(text)
      /\ validate /\ toIntegerSigned(text, width, validate) # Thrown => IsNumeral(digits)
=============================================================================
