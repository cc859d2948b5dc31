SPECIFICATION Spec
CONSTANTS
  p1 = p1
  p2 = p2
  p3 = p3
  Process = {p1, p2, p3}
  Old = Old
  None = None
  Kinds = {"dev", "jam", "listen"}
  MaxReuse = 1
SYMMETRY MCSymmetry
INVARIANTS
  TypeOK
  OneHolder
  SomeoneWins
PROPERTIES
  ImplementsLock
CHECK_DEADLOCK FALSE
