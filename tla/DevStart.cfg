SPECIFICATION FairSpec
CONSTANTS
  p1 = p1
  p2 = p2
  f1 = f1
  f2 = f2
  Start = {p1, p2}
  Folder = {f1, f2}
  Slot = {1}
  Placements <- MCBoth
  None = None
  Other = Other
  MaxOthers = 1
  MaxRestarts = 1
INVARIANTS
  TypeOK
  ClaimsOutlastServers
  ReadyServes
  FolderTells
PROPERTIES
  NeverHangs
CHECK_DEADLOCK FALSE
