----------------------------- MODULE MCTabGuard -----------------------------
(* TabGuard with two tabs. *)
EXTENDS TabGuard, TLC
CONSTANTS t1, t2
MCSymmetry == Permutations(Tab)
=============================================================================
