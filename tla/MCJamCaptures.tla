---------------------------- MODULE MCJamCaptures ----------------------------
(* JamCaptures for TLC: two captures, of which one may resume or review the other. *)
EXTENDS JamCaptures, TLC

CONSTANTS c1, c2
MCCap == {c1, c2}
MCSymmetry == Permutations(MCCap)
=============================================================================
