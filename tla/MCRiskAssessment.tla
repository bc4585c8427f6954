---- MODULE MCRiskAssessment ----
EXTENDS RiskAssessment, TLC
CONSTANTS attacks, channels

\* One indicator that goes stale and counts three times, one inverse that lasts.
MCIndicators == {attacks, channels}
MCWeight     == attacks :> 3 @@ channels :> 1
MCInversed    == {channels}
MCLower      == [i \in MCIndicators |-> 0]
MCUpper      == attacks :> 50 @@ channels :> 100
MCStaleness  == attacks :> 2 @@ channels :> Never
MCRaws       == {2, 70}
MCConfidences == {80}
MCSuppliedTimes == {1}
MCRecommendations == {-10, 15}
====
