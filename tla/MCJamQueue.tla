---------------------------- MODULE MCJamQueue ----------------------------
(* Model values for JamQueue: two threads on one frame, one on another and *)
(* one on the board itself, taken as each run's configuration names them.  *)
EXTENDS JamQueue, TLC

CONSTANTS t1, t2, t3, f1, f2

MCFrameOf == [t \in Thread |-> CASE t = t1 -> f1 [] t = t2 -> f2 [] OTHER -> NoFrame]
MCSameFrame == [t \in Thread |-> IF t = t3 THEN f2 ELSE f1]
MCSymmetry == Permutations(Batch)

(* Where t1 and t2 sit on one frame, they may be exchanged as well. *)
MCSameFrameSymmetry == Permutations(Batch) \cup Permutations({t1, t2})
=============================================================================
