SPECIFICATION FairSpec
CONSTANTS
  Evaluators = {e1, e2}
  RuleOrder <- OneRule
  RuleOf <- BadTag
  Samples = {"high", "bad"}
  Latest = {"low"}
  Files <- Listed
  Mail = TRUE
  MaxNow = 3
  MaxFailures = 1
INVARIANTS
  HeldThroughout
  RaceIsBounded
  DeliveredWasMailed
PROPERTY Settles
