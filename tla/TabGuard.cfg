SPECIFICATION Spec
CONSTANTS
  t1 = t1
  t2 = t2
  Tab = {t1, t2}
  Home = Home
  Kinds = {"close", "load"}
  Shutdowns = {"update"}
  MaxEvents = 1
SYMMETRY MCSymmetry
INVARIANTS
  TypeOK
  QuitLeavesNothing
PROPERTIES
  UnloadKeepsTab
  NothingUnasked
CHECK_DEADLOCK FALSE
