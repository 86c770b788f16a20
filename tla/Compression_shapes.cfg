SPECIFICATION Spec
CONSTANTS
  Settings <- Shapes
  MaxTime = 4
  Off = Off
CHECK_DEADLOCK FALSE
INVARIANTS
  ReconstructsWithinCompDev
  MustKeep
  NoLongGap
