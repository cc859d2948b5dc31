SPECIFICATION Spec
CONSTANTS
  t1 = t1
  t2 = t2
  t3 = t3
  f1 = f1
  f2 = f2
  NoFrame = NoFrame
  NoBatch = NoBatch
  Thread = {t1, t2}
  Frame = {f1}
  FrameOf <- MCSameFrame
  Batch = {b1, b2}
  Concurrency = 2
  MaxMembers = 2
  MaxAttempts = 1
  MaxTries = 1
  MaxOwner = 2
  MaxEarly = 1
  MaxCrash = 1
SYMMETRY MCSameFrameSymmetry
INVARIANTS
  TypeOK
  FramesApart
  WorkingIsClaimed
  ClaimedIsRunning
  RepliedIsPosted
  SavedIsNotRerun
  OneQueuedPerThread
  NoAskLost
  NoAskTwice
  AskingIsUnanswered
PROPERTIES
  ResultsStand
CHECK_DEADLOCK FALSE
