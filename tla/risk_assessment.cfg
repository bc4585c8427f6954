SPECIFICATION Spec
CONSTANTS
  attacks = attacks
  channels = channels
  Indicators <- MCIndicators
  Weight <- MCWeight
  Inversed <- MCInversed
  Lower <- MCLower
  Upper <- MCUpper
  Staleness <- MCStaleness
  Raws <- MCRaws
  Confidences <- MCConfidences
  SuppliedTimes <- MCSuppliedTimes
  Recommendations <- MCRecommendations
  Threshold = 15
  Tolerance = 5
  MaxObservations = 2
  MaxCalculations = 2
  MaxTime = 4
INVARIANTS TypeOK BaseIsReproducible ScoreRestsOnWhatIsKnown TrendMatchesHistory
  ShadowDiffersByAdjustment OnlyCommittedIsReviewed SilentChangesAreSmall
CHECK_DEADLOCK FALSE
