SPECIFICATION Spec
CONSTANTS
  t1 = t1
  t2 = t2
  t3 = t3
  f1 = f1
  f2 = f2
  NoFrame = NoFrame
  NoBatch = NoBatch
  Thread = {t1, t2}
  Frame = {f1, f2}
  FrameOf <- MCFrameOf
  Batch = {b1, b2, b3}
  Concurrency = 2
  MaxMembers = 2
  MaxAttempts = 1
  MaxTries = 1
  MaxOwner = 2
  MaxEarly = 0
  MaxCrash = 1
SYMMETRY MCSymmetry
INVARIANTS
  NeverTwiceForOneResult
CHECK_DEADLOCK FALSE
