SPECIFICATION FairSpec
CONSTANTS
  Settings <- Everything
  Scans = 2
  ScansPerTemp = 2
  Stagger = 2
  Settle = 1
INVARIANTS
  OnlyReadings
  NoAverageSpansAFault
PROPERTIES
  StartsStaggered
  DigitalsAgree
  PointsSettle
