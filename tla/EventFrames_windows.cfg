SPECIFICATION Spec
CONSTANTS
  StartReports = {"yes", "no", "bad"}
  EndReports = {"yes", "no"}
  StartDebounce = 1
  EndDebounce = 1
  MaxDuration = 1
  Margin = 2
  Back = 1
  Orders <- BothReport
  Torn = TRUE
  Horizon = 6
  MaxLag = 0
  MaxOdd = 1
INVARIANTS
  StartIsAnEdge
  WindowsAddUp
PROPERTY OverIsOver
