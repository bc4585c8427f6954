SPECIFICATION Spec
CONSTANTS
  Actors = {p1, p2}
  Grades <- MCPlain
  Analysts = {a1}
  Extractors = {x1}
  MaxEvents = 3
  MaxClaims = 1
  MaxItems = 1
  MaxWithdrawals = 1
INVARIANT NamedAreLinked
SYMMETRY Symmetry
