SPECIFICATION FairSpec
CONSTANTS
  Interval = 12
  Backoffs <- MCBackoffs
  FetchTimes = {4, 30}
  DbTimes = {1}
  Pages <- MCPages
  Held = {2}
  MaxChanges = 2
  MaxStops = 1
  MaxCrashes = 1
INVARIANTS
  NothingFiresLate
  LogAddsUp
  PagesStayWhole
PROPERTY Recovers
