SPECIFICATION Spec
CONSTANTS
  f1 = f1
  f2 = f2
  Request = {1, 2}
  Frame = {f1}
  FramesAsked <- MCFrameless
  Batch = {b1, b2}
  Session = {s1, s2}
  NoSession = NoSession
  Concurrency = 1
  SessionMax = 1
  Runners = {"auto", "session"}
  MaxGen = 2
  MaxMoves = 3
  MaxCrash = 1
SYMMETRY MCSymmetry
INVARIANTS
  TypeOK
  WorkersAreKnown
  OneRunner
PROPERTIES
  HandedBackStands
  OffersFit
CHECK_DEADLOCK FALSE
