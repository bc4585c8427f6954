SPECIFICATION Spec
CONSTANTS
  Actors = {p1, p2}
  Grades <- MCGrave
  Analysts = {a1, a2, a3}
  Extractors = {x1}
  MaxEvents = 1
  MaxClaims = 1
  MaxItems = 1
  MaxWithdrawals = 1
INVARIANTS TypeOK ApprovedIsApplied ApprovedWasTraced
SYMMETRY Symmetry
