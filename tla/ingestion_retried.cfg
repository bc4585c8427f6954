SPECIFICATION JobSpec
CONSTANTS
  Order <- SmallOrder
  Hubs <- MCHubs
  Feed <- SmallFeed
  Refused = {}
  Contents = {c1, c2}
  TextOf <- SmallTextOf
  NoText = "no text"
  NewSource = NewSource
  Sessions = {s1}
  Kinds = {"job"}
  Breaker = 1
  MaxFailures = 2
  MaxDocs = 2
PROPERTY FailedIsRetried
