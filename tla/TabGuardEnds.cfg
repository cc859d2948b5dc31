SPECIFICATION FairSpec
CONSTANTS
  t1 = t1
  t2 = t2
  Tab = {t1, t2}
  Home = Home
  Kinds = {}
  Shutdowns = {"update"}
  MaxEvents = 0
PROPERTIES
  ShutdownEnds
CHECK_DEADLOCK FALSE
