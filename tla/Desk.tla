---------------------------------- MODULE Desk ----------------------------------
(***************************************************************************)
(* The components that analysts work with, and the catalogue and the       *)
(* crawler below them.  They share no state that is modelled, so a         *)
(* behaviour shows one of them, chosen at the start: what holds of every   *)
(* behaviour holds of each component by itself.  Reports is extended, the  *)
(* others are instances.                                                   *)
(***************************************************************************)
EXTENDS Reports, Integers, FiniteSets

CONSTANTS
  Cases, Sessions, MaxBriefs,                                    \* investigations
  Monitors, Notifications, Conditions, MaxReadings, MaxMessages, \* alerts
  ImageIds, Contents, Bundles,                                   \* imagery
  ScenarioIds, Families, Points, MaxUpdates,                     \* scenarios
  ForecastIds, Issued, Edited, BucketCount,                      \* forecasts
  Analysts, Scores, Threshold,                                   \* positions
  Actors,                                                        \* relationships, registry
  RelationTypes, RelationScores, MaxRelationships, MaxObservations,
  ActorTypes, Names, Mention, Similarity(_), AutoThreshold, ReviewThreshold,
  Populations, MaxDeletions,                                     \* records
  Hub, Siblings, Elsewhere, Forbidden, MaxRedirects, MaxCrawlLinks

\* Probabilities, scores and similarities are numbers, an edited probability any; what
\* is counted is finite; no disagreement is found in one score; there is something to
\* choose from where a row has a default.
ASSUME DeskAssumption ==
  /\ MaxBriefs \in Nat \ {0}
  /\ Conditions # {} /\ MaxReadings \in Nat /\ MaxMessages \in Nat
  /\ Families # {} /\ Points \subseteq Int /\ MaxUpdates \in Nat
  /\ Issued \cup Edited \subseteq Int /\ BucketCount \in Nat \ {0}
  /\ IsFiniteSet(Analysts)
  /\ Scores \subseteq Int /\ Threshold \in Nat \ {0}
  /\ RelationScores \subseteq Int /\ MaxRelationships \in Nat /\ MaxObservations \in Nat
  /\ Mention \in Names /\ \A name \in Names : Similarity(name) \in Int
  /\ IsFiniteSet(Siblings) /\ MaxRedirects \in Nat

VARIABLES
  component,
  cases, briefs, session,
  monitors, readings, notifications, evaluation, delivery,
  images, items, submission,
  scenarios, assessments, updates, scenarioClock,
  forecasts, forecastResolution, calibration,
  positions, recording,
  relationships, observations, creating, assessing, started, relationshipClock, graph, comparison,
  actors, resolution,
  population, rows, links, deleting,
  crawl, fetch, tried, requests

Inv == INSTANCE Investigations
Al == INSTANCE Alerts WITH MaxTime <- MaxReadings
Img == INSTANCE Imagery
Sc == INSTANCE Scenarios
        WITH MaxTime <- MaxUpdates, request <- updates, clock <- scenarioClock
Fc == INSTANCE Forecasts WITH resolution <- forecastResolution, report <- calibration
Pos == INSTANCE Positions
Rel == INSTANCE Relationships
         WITH Types <- RelationTypes, Scores <- RelationScores, MaxTime <- MaxObservations,
              clock <- relationshipClock
Reg == INSTANCE Registry WITH Types <- ActorTypes
Rec == INSTANCE Records
Cr == INSTANCE Crawl

CaseVars == <<cases, briefs, session>>
AlertVars == <<monitors, readings, notifications, evaluation, delivery>>
ImageVars == <<images, items, submission>>
ScenarioVars == <<scenarios, assessments, updates, scenarioClock>>
ForecastVars == <<forecasts, forecastResolution, calibration>>
PositionVars == <<positions, recording>>
RelationVars == <<relationships, observations, creating, assessing, started, relationshipClock,
              graph, comparison>>
ActorVars == <<actors, resolution>>
RecordVars == <<population, rows, links, deleting>>
CrawlVars == <<crawl, fetch, tried, requests>>

Components == {"reports", "investigations", "alerts", "imagery", "scenarios", "forecasts",
               "positions", "relationships", "registry", "records", "crawl"}

DeskInit ==
  /\ component \in Components
  /\ Init /\ Inv!Init /\ Al!Init /\ Img!Init /\ Sc!Init /\ Fc!Init
  /\ Pos!Init /\ Rel!Init /\ Reg!Init /\ Cr!Init
  /\ Rec!Init /\ (component # "records" => population = CHOOSE p \in Populations : TRUE)

\* Only one component moves.
Only(c) ==
  /\ component = c /\ UNCHANGED component
  /\ IF c = "reports" THEN TRUE ELSE UNCHANGED vars
  /\ IF c = "investigations" THEN TRUE ELSE UNCHANGED CaseVars
  /\ IF c = "alerts" THEN TRUE ELSE UNCHANGED AlertVars
  /\ IF c = "imagery" THEN TRUE ELSE UNCHANGED ImageVars
  /\ IF c = "scenarios" THEN TRUE ELSE UNCHANGED ScenarioVars
  /\ IF c = "forecasts" THEN TRUE ELSE UNCHANGED ForecastVars
  /\ IF c = "positions" THEN TRUE ELSE UNCHANGED PositionVars
  /\ IF c = "relationships" THEN TRUE ELSE UNCHANGED RelationVars
  /\ IF c = "registry" THEN TRUE ELSE UNCHANGED ActorVars
  /\ IF c = "records" THEN TRUE ELSE UNCHANGED RecordVars
  /\ IF c = "crawl" THEN TRUE ELSE UNCHANGED CrawlVars

DeskNext ==
  \/ Only("reports") /\ Next
  \/ Only("investigations") /\ Inv!Next
  \/ Only("alerts") /\ Al!Next
  \/ Only("imagery") /\ Img!Next
  \/ Only("scenarios") /\ Sc!Next
  \/ Only("forecasts") /\ Fc!Next
  \/ Only("positions") /\ Pos!Next
  \/ Only("relationships") /\ Rel!Next
  \/ Only("registry") /\ Reg!Next
  \/ Only("records") /\ Rec!Next
  \/ Only("crawl") /\ Cr!Next

deskVars == <<component, vars, CaseVars, AlertVars, ImageVars, ScenarioVars, ForecastVars, PositionVars, RelationVars,
          ActorVars, RecordVars, CrawlVars>>

DeskSpec == DeskInit /\ [][DeskNext]_deskVars

-----------------------------------------------------------------------------
\* Each component's variables keep their types, out-of-range edits, races and failed
\* transactions included.  (What does not move keeps its initial value.)
DeskTypeOK ==
  /\ component \in Components
  /\ component = "reports" => TypeOK
  /\ component = "investigations" => Inv!TypeOK
  /\ component = "alerts" => Al!TypeOK
  /\ component = "imagery" => Img!TypeOK
  /\ component = "scenarios" => Sc!TypeOK
  /\ component = "forecasts" => Fc!TypeOK
  /\ component = "positions" => Pos!TypeOK
  /\ component = "relationships" => Rel!TypeOK
  /\ component = "registry" => Reg!TypeOK
  /\ component = "records" => Rec!TypeOK
  /\ component = "crawl" => Cr!TypeOK

\* Investigations: execute_investigation stores a completed one whole or not at all.
CompletedIsWhole == Inv!CompletedIsWhole

\* Alerts: one reading that meets a condition raises one notification, and
\* _send_notification_async sends only what was stored.
AlertsAreTrue == component = "alerts" => Al!AlertsAreTrue

\* Imagery: submit_image makes two images of one content only in a race.
DuplicatesOverlap == component = "imagery" => Img!DuplicatesOverlap

\* Scenarios: an assessment that no model made repeats one that was committed.
CarriedForward == component = "scenarios" => Sc!CarriedForward

\* Forecasts: a calibration counts each resolved forecast once, as it was resolved.
CalibrationIsExact == component = "forecasts" => Fc!CalibrationIsExact

\* Positions: classify_disagreement and list_disagreements agree.
DisagreementsAgree == component = "positions" => Pos!DisagreementsAgree

\* What several reads of a table come to, an actor graph, a comparison of observations
\* or the resolution of a mention, was true of the rows that did not change meanwhile.
AnswersAreTrue ==
  /\ component = "relationships" => Rel!ReadsAreTrue
  /\ component = "registry" => Reg!LinksAreClear

\* Deletions take along only what cannot be without its whole.
OnlyPartsGo == Rec!OnlyPartsGo

\* A crawl makes a bounded number of requests and tries each discovered link once.
CrawlIsBounded == component = "crawl" => Cr!CrawlIsBounded
=================================================================================
