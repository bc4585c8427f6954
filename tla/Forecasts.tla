------------------------------- MODULE Forecasts -------------------------------
(***************************************************************************)
(* Forecasts: issue, resolution with its Brier score, edits, deletion, and *)
(* the calibration report.                                                 *)
(*                                                                         *)
(* Probabilities are per cent, and scores of them in ten thousandths, so   *)
(* that arithmetic is exact; the code's floats put some probabilities into *)
(* the bucket below with 50, 90 or 100 buckets (0.29 * 100 < 29).          *)
(***************************************************************************)
EXTENDS Integers

CONSTANTS
  ForecastIds,   \* bound: forecasts issued
  Requests,      \* bound: resolutions at once
  Issued,        \* probabilities forecasts are issued with, in 0..100
  Edited,        \* probabilities an edit sets: it has no bounds
  BucketCount    \* buckets of the report

None == "none"
NoScore == -1
Statuses == {"open", "resolved", "canceled"}
Outcomes == {"yes", "no", "ambiguous"}

VARIABLES
  forecasts,    \* the rows
  resolution,   \* requests that resolve a forecast: the columns they will write
  report        \* a calibration: what its two queries brought

vars == <<forecasts, resolution, report>>

Unused == [state |-> "unused", probability |-> 0, status |-> "open", outcome |-> None,
           brier |-> NoScore]
Deleted == [Unused EXCEPT !.state = "deleted"]

\* What a resolution leaves alone.
Keep == [status |-> "keep", outcome |-> "keep", brier |-> -2]

Quiet == [forecast |-> None, writes |-> Keep]
NoReport == [stage |-> "none", resolved |-> [f \in {} |-> 0], open |-> {}, moved |-> {}]

\* Ambiguous outcomes close a forecast without a score.
BrierScore(probability, outcome) ==
  CASE outcome = "ambiguous" -> NoScore
    [] outcome = "yes" -> (probability - 100) * (probability - 100)
    [] outcome = "no" -> probability * probability

TypeOK ==
  /\ \A f \in ForecastIds :
       LET row == forecasts[f]
       IN /\ row.state \in {"unused", "live", "deleted"}
          /\ row.probability \in Issued \cup Edited \cup {0}
          /\ row.status \in Statuses
          /\ row.outcome \in Outcomes \cup {None}
          \* A score is one of a probability the forecast has or had.
          /\ row.brier # NoScore => \E p \in Issued \cup Edited, o \in {"yes", "no"} :
                                       row.brier = BrierScore(p, o)
          /\ row.outcome = None => row.brier = NoScore
  /\ \A q \in Requests :
       resolution[q].forecast # None =>
         /\ resolution[q].forecast \in ForecastIds
         /\ resolution[q].writes.status \in {"keep", "resolved"}
         /\ resolution[q].writes.outcome \in Outcomes \cup {"keep"}
  /\ report.stage \in {"none", "half", "whole"}
  /\ DOMAIN report.resolved \cup report.open \cup report.moved \subseteq ForecastIds

Init ==
  /\ forecasts = [f \in ForecastIds |-> Unused]
  /\ resolution = [q \in Requests |-> Quiet]
  /\ report = NoReport

Live == {f \in ForecastIds : forecasts[f].state = "live"}

\* A report under way notes which forecasts change (history).
Moves(f) == report' = IF report.stage = "half" THEN [report EXCEPT !.moved = @ \cup {f}] ELSE report

-----------------------------------------------------------------------------
(* Issue, edits, deletion, resolution.                                     *)

Issue(f) ==
  /\ forecasts[f].state = "unused" /\ report.stage # "whole"
  /\ \E p \in Issued :
       forecasts' = [forecasts EXCEPT ![f] = [Unused EXCEPT !.state = "live", !.probability = p]]
  /\ Moves(f) /\ UNCHANGED resolution

\* Also after the resolution; outcome and score stay as they are.  An edit that
\* names the resolution date fails: the audit entry cannot hold a date.
Patch(f) ==
  /\ forecasts[f].state = "live" /\ report.stage # "whole"
  /\ \/ \E p \in Edited : forecasts' = [forecasts EXCEPT ![f].probability = p]
     \/ \E status \in Statuses : forecasts' = [forecasts EXCEPT ![f].status = status]
  /\ Moves(f) /\ UNCHANGED resolution

Delete(f) ==
  /\ forecasts[f].state = "live" /\ report.stage # "whole"
  /\ forecasts' = [forecasts EXCEPT ![f] = Deleted]
  /\ Moves(f) /\ UNCHANGED resolution

\* The columns of a resolution, and of them those that differ from what was read:
\* the others are not written.
Resolved(row, outcome) ==
  [status |-> "resolved", outcome |-> outcome, brier |-> BrierScore(row.probability, outcome)]
Writes(row, outcome) ==
  [c \in DOMAIN Keep |-> IF Resolved(row, outcome)[c] = row[c] THEN Keep[c]
                         ELSE Resolved(row, outcome)[c]]

\* Whatever its status: a resolved or canceled forecast is resolved again.
AskResolve(q, f) ==
  /\ resolution[q].forecast = None /\ forecasts[f].state = "live"
  /\ \E outcome \in Outcomes :
       resolution' = [resolution EXCEPT
                        ![q] = [forecast |-> f, writes |-> Writes(forecasts[f], outcome)]]
  /\ UNCHANGED <<forecasts, report>>

Resolve(q) ==
  LET f == resolution[q].forecast
      writes == resolution[q].writes
  IN /\ f # None /\ report.stage # "whole"
     /\ forecasts[f].state = "live"
     /\ forecasts' = [forecasts EXCEPT ![f] = [c \in DOMAIN Unused |->
          IF c \in DOMAIN Keep /\ writes[c] # Keep[c] THEN writes[c] ELSE @[c]]]
     /\ resolution' = [resolution EXCEPT ![q] = Quiet]
     /\ Moves(f)

\* The forecast is gone, another error, or the end of the process.
Fail(q) ==
  /\ resolution[q].forecast # None
  /\ resolution' = [resolution EXCEPT ![q] = Quiet]
  /\ UNCHANGED <<forecasts, report>>

-----------------------------------------------------------------------------
(* The calibration report.                                                 *)

ReadResolved ==
  /\ report.stage = "none"
  /\ report' = [NoReport EXCEPT !.stage = "half",
       !.resolved = [f \in {x \in Live : forecasts[x].status = "resolved"} |->
                       [outcome |-> forecasts[f].outcome, probability |-> forecasts[f].probability]]]
  /\ UNCHANGED <<forecasts, resolution>>

ReadOpen ==
  /\ report.stage = "half"
  /\ report' = [report EXCEPT !.stage = "whole",
                  !.open = {f \in Live : forecasts[f].status = "open"}]
  /\ UNCHANGED <<forecasts, resolution>>

Answer ==
  /\ report.stage = "whole"
  /\ report' = NoReport
  /\ UNCHANGED <<forecasts, resolution>>

Scorable == {f \in DOMAIN report.resolved : report.resolved[f].outcome \in {"yes", "no"}}

\* Mutant of BucketIndex: a probability at the upper end is not put into the last.
BucketIndexUnclamped(probability) == (probability * BucketCount) \div 100

\* Towards zero, and into the first or the last bucket when outside.
BucketIndex(probability) ==
  LET index == IF probability < 0 THEN 0 ELSE (probability * BucketCount) \div 100
  IN IF index >= BucketCount THEN BucketCount - 1 ELSE index

Buckets ==
  [b \in 0..BucketCount - 1 |-> {f \in Scorable : BucketIndex(report.resolved[f].probability) = b}]

Next ==
  \/ \E f \in ForecastIds : Issue(f) \/ Patch(f) \/ Delete(f)
  \/ \E q \in Requests, f \in ForecastIds : AskResolve(q, f)
  \/ \E q \in Requests : Resolve(q) \/ Fail(q)
  \/ ReadResolved \/ ReadOpen \/ Answer

Spec == Init /\ [][Next]_vars

-----------------------------------------------------------------------------
(* Properties.                                                             *)

\* The bounds of a bucket, the outer ones open to what an edit has set.
Falls(probability, b) ==
  /\ b = 0 \/ 100 * b <= probability * BucketCount
  /\ b = BucketCount - 1 \/ probability * BucketCount < 100 * (b + 1)

\* A calibration report counts each forecast that did not change while it was made
\* exactly once, and puts each that was resolved with yes or no into exactly the
\* bucket it falls in, although its two queries see two states of the table.
CalibrationIsExact ==
  report.stage = "whole" => \A f \in Live \ report.moved :
    /\ f \in DOMAIN report.resolved <=> forecasts[f].status = "resolved"
    /\ f \in report.open <=> forecasts[f].status = "open"
    /\ (forecasts[f].status = "resolved" /\ forecasts[f].outcome \in {"yes", "no"}) =>
         \A b \in 0..BucketCount - 1 : f \in Buckets[b] <=> Falls(forecasts[f].probability, b)
=============================================================================
