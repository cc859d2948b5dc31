----------------------------- MODULE MCDevStart -----------------------------
(* DevStart with two starts, which share a folder or not. *)
EXTENDS DevStart, TLC
CONSTANTS p1, p2, f1, f2
MCTogether == {[p \in Start |-> f1]}
MCApart == {[p \in Start |-> IF p = p1 THEN f1 ELSE f2]}
MCBoth == MCTogether \cup MCApart
=============================================================================
