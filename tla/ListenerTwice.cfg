SPECIFICATION Spec
CONSTANTS
  p1 = p1
  p2 = p2
  p3 = p3
  Process = {p1, p2, p3}
  Old = Old
  None = None
  Kinds = {"listen"}
  MaxReuse = 0
SYMMETRY MCSymmetry
INVARIANTS
  OneListener
CHECK_DEADLOCK FALSE
