SPECIFICATION FairSpec
CONSTANTS
  Tag = {t1}
  BatchSize = 2
  MaxRows = 3
  MaxTs = 4
  MaxRuns = 2
  ReadsOvertake = FALSE
INVARIANTS
  LiveOnlyWhenDrained
  EverySampleAccounted
  BufferBounded
PROPERTIES
  FirstWriteWins
  ArchiveInOrder
  ForgottenOnlyWhenSafe
  ImplementsCustody
  RecoveryCompletes
