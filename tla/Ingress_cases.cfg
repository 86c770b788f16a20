SPECIFICATION FairSpec
CONSTANTS
  Settings <- Cases
  Clients = {c1, c2}
  QueueSize = 2
  None = None
  Tags = {"A", "B", "C", "D"}
  Groups <- MCGroups
  GroupOf <- MCGroupOf
  HasPath <- MCHasPath
CHECK_DEADLOCK FALSE
INVARIANTS
  EveryMessageAccounted
  OnlyTheOldestDropped
PROPERTY GapsSurface
