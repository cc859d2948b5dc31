SPECIFICATION Spec
CONSTANTS
  c1 = c1
  c2 = c2
  None = None
  Cap <- MCCap
  MaxPage = 2
  MaxEvents = 1
  MaxStops = 1
  MaxRev = 5
SYMMETRY MCSymmetry
INVARIANTS
  TypeOK
  BoundWords
  DecidedOnce
  WordsAsSeen
  Accounted
  InRecord
PROPERTY
  RecordWaits
CHECK_DEADLOCK FALSE
