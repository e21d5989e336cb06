--------------------------- MODULE ConcatIterator ---------------------------
(***************************************************************************)
(* types/concat_iterator.hpp over types/special_iterator.hpp: one range    *)
(* after another one.  The ranges have f and s items; an iterator is the   *)
(* flag `first' and a position in the range it tells, from 1 to one past   *)
(* the end.                                                                *)
(***************************************************************************)
EXTENDS Naturals, Sequences

FirstTag(at) == [first |-> TRUE, at |-> at]
SecondTag(at) == [first |-> FALSE, at |-> at]

\* operator++
Next1(it, f, s) ==
  IF it.first /\ ~(it.at + 1 < f + 1) THEN SecondTag(1) ELSE [it EXCEPT !.at = @ + 1]

\* operator==: the end of the first range and the beginning of the second one are
\* told apart unless one of the ranges is empty.
Same1(a, b, f, s) ==
  IF a.first = b.first THEN a.at = b.at
  ELSE LET second == IF a.first THEN b ELSE a
           first == IF a.first THEN a ELSE b
       IN  IF f = 0 THEN second.at = 1 ELSE s = 0 /\ first.at = f + 1

\* operator*: the item of one of the ranges, as <<range, index>>.
Deref(it) == IF it.first THEN <<1, it.at>> ELSE <<2, it.at>>

\* A loop from begin() to end(), and no longer than `fuel' steps.
Visited(f, s) ==
  LET fuel == f + s + 1
      from[n \in 0 .. fuel] ==
        \* after n steps: the iterator and the items seen
        IF n = 0 THEN [it |-> FirstTag(1), seen |-> <<>>]
        ELSE LET before == from[n - 1]
             IN  IF Same1(before.it, SecondTag(s + 1), f, s) THEN before
                 ELSE [it |-> Next1(before.it, f, s),
                       seen |-> Append(before.seen, Deref(before.it))]
  IN  from[fuel].seen
=============================================================================
