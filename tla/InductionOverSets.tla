-------------------------- MODULE InductionOverSets --------------------------
(***************************************************************************)
(* Induction and recursion on the natural numbers, for the definitions of  *)
(* this project that are recursive functions.  An induction is about a set *)
(* of numbers here, and not about a predicate.                             *)
(***************************************************************************)
EXTENDS Integers, WellFoundedInduction, TLAPS

\* A set of natural numbers has a least one.
LEMMA Smallest ==
  ASSUME NEW T, T \subseteq Nat, T # {}
  PROVE  \E x \in T : \A y \in T : x <= y
  <1> DEFINE R == {pair \in Nat \X Nat : pair[1] < pair[2]}
  <1>1. IsWellFoundedOn(R, Nat)
    BY NatLessThanWellFounded DEF OpToRel
  <1>2. PICK x \in T : \A y \in T : <<y, x>> \notin R
    <2> HIDE DEF R
    <2> QED BY <1>1, WFMin
  <1>3. ASSUME NEW y \in T, y < x PROVE FALSE
    <2>1. <<y, x>> \in Nat \X Nat /\ <<y, x>>[1] = y /\ <<y, x>>[2] = x
      OBVIOUS
    <2>2. <<y, x>> \in R
      BY <2>1, <1>3
    <2> QED BY <1>2, <2>2
  <1> QED BY <1>3

\* A set with zero and the successor of each of its numbers has all of them.
LEMMA Induction ==
  ASSUME NEW T, 0 \in T, \A n \in Nat : n \in T => n + 1 \in T
  PROVE  Nat \subseteq T
  <1> SUFFICES ASSUME Nat \ T # {} PROVE FALSE
    OBVIOUS
  <1>1. PICK x \in Nat \ T : \A y \in Nat \ T : x <= y
    BY Smallest
  <1>2. x - 1 \in Nat /\ x - 1 \notin Nat \ T
    BY <1>1
  <1> QED BY <1>1, <1>2

\* The numbers below a bound are enough when nothing is said above it.
LEMMA InductionUpTo ==
  ASSUME NEW top \in Nat, NEW T, 0 \in T, \A n \in 0 .. top - 1 : n \in T => n + 1 \in T
  PROVE  0 .. top \subseteq T
  <1> DEFINE U == {n \in Nat : n <= top => n \in T}
  <1>1. 0 \in U
    OBVIOUS
  <1>2. ASSUME NEW n \in Nat, n \in U PROVE n + 1 \in U
    BY <1>2
  <1>3. Nat \subseteq U
    <2> HIDE DEF U
    <2> QED BY <1>1, <1>2, Induction
  <1> QED BY <1>3

\* The function f that starts there and makes a step at each number up to top.
Computes(f, start, top, step) ==
  f[0] = start /\ \A i \in 1 .. top : f[i] = step[i][f[i - 1]]

\* A function is defined by its value at zero and how each value follows from the
\* one before.
LEMMA RecursionDefines ==
  ASSUME NEW V, NEW start \in V, NEW top \in Nat, NEW step \in [1 .. top -> [V -> V]]
  PROVE  \E f \in [0 .. top -> V] : Computes(f, start, top, step)
  <1> DEFINE Follows(f, n) == Computes(f, start, n, step)
             T == {n \in 0 .. top : \E f \in [0 .. n -> V] : Follows(f, n)}
  <1>1. 0 \in T
    <2> DEFINE f == [i \in 0 .. 0 |-> start]
    <2>1. f \in [0 .. 0 -> V] /\ f[0] = start
      OBVIOUS
    <2>2. Follows(f, 0)
      BY <2>1 DEF Computes
    <2> HIDE DEF f, Follows
    <2> QED BY <2>1, <2>2
  <1>2. ASSUME NEW n \in 0 .. top - 1, n \in T PROVE n + 1 \in T
    <2>1. PICK f \in [0 .. n -> V] : Follows(f, n)
      BY <1>2
    <2> DEFINE g == [i \in 0 .. n + 1 |-> IF i = n + 1 THEN step[n + 1][f[n]] ELSE f[i]]
    <2>2. f[n] \in V /\ step[n + 1] \in [V -> V]
      OBVIOUS
    <2>3. g \in [0 .. n + 1 -> V]
      BY <2>2
    <2>4. g[0] = start
      BY <2>1 DEF Computes
    <2>5. ASSUME NEW i \in 1 .. n + 1 PROVE g[i] = step[i][g[i - 1]]
      <3>1. CASE i = n + 1
        BY <3>1
      <3>2. CASE i # n + 1
        <4>1. i \in 1 .. n /\ i - 1 \in 0 .. n /\ i - 1 # n + 1
          BY <3>2
        <4> QED BY <2>1, <3>2, <4>1 DEF Computes
      <3> QED BY <3>1, <3>2
    <2>6. Follows(g, n + 1)
      BY <2>4, <2>5 DEF Computes
    <2> HIDE DEF g
    <2> QED BY <2>3, <2>6
  <1>3. 0 .. top \subseteq T
    <2> HIDE DEF T
    <2> QED BY <1>1, <1>2, InductionUpTo
  <1>4. top \in T
    BY <1>3
  <1> QED BY <1>4

\* Two functions agree as far as agreement at a number implies it at the next one.
LEMMA AgreeUpTo ==
  ASSUME NEW top \in Nat, NEW f, NEW g, f[0] = g[0],
         \A i \in 1 .. top : f[i - 1] = g[i - 1] => f[i] = g[i]
  PROVE  \A i \in 0 .. top : f[i] = g[i]
  <1> DEFINE T == {i \in 0 .. top : f[i] = g[i]}
  <1>1. 0 \in T
    OBVIOUS
  <1>2. ASSUME NEW n \in 0 .. top - 1, n \in T PROVE n + 1 \in T
    <2>1. n + 1 \in 1 .. top /\ (n + 1) - 1 = n
      OBVIOUS
    <2> QED BY <1>2, <2>1
  <1>3. 0 .. top \subseteq T
    <2> HIDE DEF T
    <2> QED BY <1>1, <1>2, InductionUpTo
  <1> QED BY <1>3
=============================================================================
