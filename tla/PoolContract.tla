----------------------------- MODULE PoolContract -----------------------------
(***************************************************************************)
(* What the pool promises to its users: a resource is lent to one call at  *)
(* a time, and, where resources are invalidated on access, one that comes  *)
(* from the stock has been checked since it was last lent.                 *)
(***************************************************************************)
CONSTANTS Resources, Users, None, Invalidate

VARIABLES
  stock,     \* the resources that exist
  lent,      \* the resource each call has, or None
  unchecked  \* the resources lent at some time and not checked since

vars == <<stock, lent, unchecked>>

LentOut(r) == \E u \in Users : lent[u] = r

Init ==
  /\ stock = {}
  /\ lent = [u \in Users |-> None]
  /\ unchecked = {}

Mark(r) == unchecked' = IF Invalidate THEN unchecked \cup {r} ELSE unchecked

\* A resource created for this call.
LendNew(u, r) ==
  /\ lent[u] = None /\ r \notin stock
  /\ lent' = [lent EXCEPT ![u] = r]
  /\ stock' = stock \cup {r}
  /\ Mark(r)

LendPooled(u, r) ==
  /\ lent[u] = None /\ r \in stock /\ ~LentOut(r)
  /\ Invalidate => r \notin unchecked
  /\ lent' = [lent EXCEPT ![u] = r]
  /\ Mark(r)
  /\ UNCHANGED stock

\* A returned resource stays in the stock or, if it left it meanwhile, is gone.
Return(u) ==
  /\ lent[u] # None
  /\ lent' = [lent EXCEPT ![u] = None]
  /\ stock' \in {stock, stock \ {lent[u]}}
  /\ UNCHANGED unchecked

Stock(r) ==
  /\ r \notin stock
  /\ stock' = stock \cup {r}
  /\ unchecked' = unchecked \ {r}
  /\ UNCHANGED lent

Discard(S) ==
  /\ \A r \in S : ~LentOut(r)
  /\ stock' = stock \ S
  /\ UNCHANGED <<lent, unchecked>>

Check(r) ==
  /\ ~LentOut(r)
  /\ unchecked' = unchecked \ {r}
  /\ UNCHANGED <<stock, lent>>

Next ==
  \/ \E u \in Users : Return(u)
  \/ \E u \in Users, r \in Resources : LendNew(u, r) \/ LendPooled(u, r)
  \/ \E r \in Resources : Stock(r) \/ Check(r)
  \/ \E S \in SUBSET stock : Discard(S)

Spec == Init /\ [][Next]_vars
=============================================================================
