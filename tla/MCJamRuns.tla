----------------------------- MODULE MCJamRuns -----------------------------
(* Instances of JamRuns: what each request names, and the symmetry of the  *)
(* safety runs (nothing orders sessions or batch ids).                     *)
EXTENDS JamRuns, TLC
CONSTANTS f1, f2
MCSame == [r \in Request |-> {f1}]
MCFrameless == [r \in Request |-> IF r = 2 THEN {} ELSE {f1}]
MCSymmetry == Permutations(Session) \cup Permutations(Batch)
=============================================================================
