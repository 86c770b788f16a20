SPECIFICATION FairSpec
CONSTANTS
  Settings <- Outages
  Tags = {"A", "B"}
  BatchSize = 2
  MaxRows = 2
  None = None
CHECK_DEADLOCK FALSE
INVARIANTS
  StoredAsMade
  InCustody
PROPERTY EverySampleStored
