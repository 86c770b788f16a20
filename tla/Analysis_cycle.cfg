SPECIFICATION FairSpec
CONSTANTS
  Settings <- Several
  Elements <- Els
  Parent <- Tree
  TagOf <- Tagged
  Inputs <- Wants
  RuleRows <- Short
  Every <- Intervals
  Lookback = 4
  Kept = 4
  MaxAge = 2
  Low = 0
  High = 3
INVARIANTS
  ExcursionsFlagged
  SilentTroubleSeen
  OnlyGoodGivesANumber
  ResultsTraceToEquation
PROPERTY EveryJobRuns
