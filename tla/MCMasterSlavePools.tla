------------------------- MODULE MCMasterSlavePools -------------------------
(* MasterSlavePools for TLC: the memory but for the master's is interchangeable. *)
EXTENDS MasterSlavePools, TLC

MCSymmetry == Permutations(Objects \ {Master})
=============================================================================
