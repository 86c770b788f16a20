SPECIFICATION Spec
CONSTANTS
  Tag = {t1}
  BatchSize = 2
  MaxRows = 2
  MaxTs = 2
  MaxRuns = 1
  ReadsOvertake = FALSE
INVARIANT CleanStopKeepsEverything
