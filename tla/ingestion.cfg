SPECIFICATION Spec
CONSTANTS
  Order <- SmallOrder
  Hubs <- MCHubs
  Feed <- SmallFeed
  Refused = {}
  Contents = {c1, c2}
  TextOf <- SmallTextOf
  NoText = "no text"
  NewSource = NewSource
  Sessions = {s1, s2}
  Kinds = {"job", "poll", "retry", "manual"}
  Breaker = 1
  MaxFailures = 1
  MaxDocs = 3
INVARIANTS TypeOK DuplicatesLeadToOriginal DuplicatesAreStored
           UrlsRepeatByOverlap CopiesEscapeByOverlap
PROPERTY FailuresAreVisible
SYMMETRY Symmetry
