SPECIFICATION FairSpec
CONSTANTS
  t1 = t1
  t2 = t2
  t3 = t3
  f1 = f1
  f2 = f2
  NoFrame = NoFrame
  NoBatch = NoBatch
  Thread = {t1, t3}
  Frame = {f1}
  FrameOf <- MCFrameOf
  Batch = {b1, b2}
  Concurrency = 2
  MaxMembers = 2
  MaxAttempts = 2
  MaxTries = 1
  MaxOwner = 2
  MaxEarly = 0
  MaxCrash = 0
PROPERTIES
  QueuedMoves
CHECK_DEADLOCK FALSE
