SPECIFICATION JobSpec
CONSTANTS
  Order <- MCOrder
  Hubs <- MCHubs
  Feed <- MCFeed
  Refused <- MCRefused
  Contents <- MCContents
  TextOf <- MCTextOf
  NoText = "no text"
  NewSource = NewSource
  Sessions = {s1}
  Kinds = {"job"}
  Breaker = 1
  MaxFailures = 2
  MaxDocs = 3
PROPERTY EveryItemIsRecorded
