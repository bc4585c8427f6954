SPECIFICATION Spec
CONSTANTS
  Actors = {p1, p2}
  Grades <- MCGrave
  Analysts = {a1, a2}
  Extractors = {x1}
  MaxEvents = 1
  MaxClaims = 1
  MaxItems = 1
  MaxWithdrawals = 0
PROPERTY DecisionsAreFinal
