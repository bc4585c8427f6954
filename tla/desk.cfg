SPECIFICATION DeskSpec
CONSTANTS
  Pair = {p1, p2}
  Requests = {p1, p2}
  ReportIds = {"r1"}
  Texts = {"edited"}
  Cases = {"c1"}
  Sessions = {p1, p2}
  MaxBriefs = 2
  Monitors = {"m1"}
  Notifications = {p1, p2}
  Conditions <- MCConditions
  MaxReadings = 2
  MaxMessages = 1
  ImageIds = {"i1", "i2", "i3"}
  Contents = {"k1", "k2"}
  Bundles = {"b1"}
  ScenarioIds = {"s1", "s2"}
  Families = {"escalation", "containment"}
  Points = {20, 60}
  MaxUpdates = 2
  \* Issued at even odds; an edit leaves the range 0..100.
  ForecastIds = {"f1"}
  Issued = {50}
  Edited = {150}
  BucketCount = 2
  Analysts = {p1, p2}
  Scores = {20, 60}
  Threshold = 20
  Actors = {p1, p2}
  RelationTypes = {"alliance"}
  RelationScores = {30, 70}
  MaxRelationships = 2
  MaxObservations = 3
  ActorTypes = {"state", "group"}
  Names = {"mention", "near", "other"}
  Mention = "mention"
  Similarity <- MCSimilarity
  AutoThreshold = 90
  ReviewThreshold = 70
  Populations <- MCPopulations
  MaxDeletions = 2
  Hub = "hub"
  Siblings = {"p1", "p2", "p3"}
  Elsewhere = {"e1", "e2"}
  Forbidden = {"e2"}
  MaxRedirects = 5
  MaxCrawlLinks = 2
SYMMETRY Symmetry
INVARIANTS
  DeskTypeOK
  PublishedWasApproved
  AlertsAreTrue
  DuplicatesOverlap
  CarriedForward
  CalibrationIsExact
  DisagreementsAgree
  AnswersAreTrue
  CrawlIsBounded
PROPERTIES
  OnlyItsOwn
  CompletedIsWhole
  OnlyPartsGo
\* A component may be done: nothing is left to request within the bounds.
CHECK_DEADLOCK FALSE
