--------------------------- MODULE ExclusiveLock ---------------------------
(***************************************************************************)
(* What a lock file promises, whatever files it is made of: one holder at  *)
(* a time.  A holder gives it back or ends without doing so; either way it *)
(* can be had again.  ExclusiveFile implements it for the lock of          *)
(* src/server/exclusive.ts (dev.lock and the slots), DevStart takes it   *)
(* as given.                                                               *)
(***************************************************************************)
CONSTANT Process
VARIABLE holders

LockInit == holders = {}
Take(p) == holders = {} /\ holders' = {p}
Leave(p) == p \in holders /\ holders' = holders \ {p}
LockNext == \E p \in Process : Take(p) \/ Leave(p)
LockSpec == LockInit /\ [][LockNext]_holders
=============================================================================
