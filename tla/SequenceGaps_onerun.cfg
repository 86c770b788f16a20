SPECIFICATION Spec
CONSTANTS
  Tag = {t1, t2}
  BatchSize = 2
  MaxRows = 2
  MaxTs = 3
  MaxRuns = 1
  ReadsOvertake = FALSE
SYMMETRY TagSymmetry
INVARIANTS
  HolesAreExplained
  LedgerExact
