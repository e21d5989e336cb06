--------------------------- MODULE MCSharedPtrPool ---------------------------
(***************************************************************************)
(* Small instances of the pool for TLC.  Users are model values that no    *)
(* definition tells apart; resources are told apart by Breakable.  The     *)
(* instances with liveness properties do not use the symmetry.             *)
(***************************************************************************)
EXTENDS SharedPtrPool, TLC

Symmetry == Permutations(Users)
=============================================================================
