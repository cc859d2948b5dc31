SPECIFICATION FairSpec
CONSTANTS
  f1 = f1
  f2 = f2
  Request = {1, 2}
  Frame = {f1}
  FramesAsked <- MCSame
  Batch = {b1, b2}
  Session = {s1, s2}
  NoSession = NoSession
  Concurrency = 1
  SessionMax = 2
  Runners = {"auto", "session"}
  MaxGen = 1
  MaxMoves = 3
  MaxCrash = 0
PROPERTIES
  RunsEnd
CHECK_DEADLOCK FALSE
