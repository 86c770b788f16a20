SPECIFICATION Spec
CONSTANTS
  Settings <- Breaks
  Tags = {"A", "B"}
  BatchSize = 2
  MaxRows = 1
  None = None
CHECK_DEADLOCK FALSE
INVARIANT OutageLosesNothing
