-------------------------- MODULE MCExclusiveFile --------------------------
(* ExclusiveFile with three starts, as TLC takes it. *)
EXTENDS ExclusiveFile, TLC
CONSTANTS p1, p2, p3
MCSymmetry == Permutations(Process)
=============================================================================
