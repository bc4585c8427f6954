----------------------------- MODULE RiskAssessment -----------------------------
(***************************************************************************)
(* The risk engine: indicator readings recorded by requests, calculations  *)
(* of one risk at one scope by the scheduled job, the worker and the API,  *)
(* and the second model's shadow run over a large move.                    *)
(*                                                                         *)
(* A calculation is one transaction.  It fixes assessed_at, reads the      *)
(* latest reading of each indicator in a statement of its own, then the    *)
(* latest assessment, asks the model, writes its row and commits; under    *)
(* READ COMMITTED other transactions commit between any two of these.  The *)
(* shadow run has its own session and starts when the row is written, not  *)
(* when it is committed.                                                   *)
(*                                                                         *)
(* Risks and scopes share nothing, so one of each is modelled.  Normalised *)
(* values, contributions and confidences are hundredths; a value is an     *)
(* exact number of them, or rounded down.  Every step that stamps a row    *)
(* takes a tick of the clock, since stamps are microseconds.  Calculations *)
(* are numbered in the order in which they begin.                          *)
(***************************************************************************)
EXTENDS Integers, FiniteSets, Functions

CONSTANTS
  Indicators,      \* those with a weight in the risk
  Weight,          \* list_weights: indicator -> weight
  Inversed,         \* those whose direction is inverse
  Lower, Upper,    \* bounds of min_max normalisation
  Staleness,       \* staleness_hours in ticks; Never where it is null
  Raws,            \* bound: raw values requests send
  Confidences,     \* bound: confidences requests send, in hundredths
  SuppliedTimes,   \* bound: observed_at where a request names it
  Recommendations, \* recommended_adjustment of either model
  Threshold,       \* multi_model_review_score_delta_threshold
  Tolerance,       \* multi_model_review_agreement_tolerance
  MaxObservations, MaxCalculations, MaxTime \* bounds

Never == -1

ASSUME RiskAssumption ==
  /\ IsFiniteSet(Indicators) /\ Indicators # {}
  /\ Inversed \subseteq Indicators
  /\ Weight \in [Indicators -> Nat \ {0}]
  /\ Lower \in [Indicators -> Int] /\ Upper \in [Indicators -> Int]
  /\ \A i \in Indicators : Lower[i] < Upper[i]
  /\ Staleness \in [Indicators -> Nat \cup {Never}]
  /\ Raws \subseteq Int /\ Recommendations \subseteq Int
  /\ Confidences \subseteq 0..100
  /\ Threshold \in 1..100 /\ Tolerance \in 0..100
  /\ SuppliedTimes \subseteq Nat
  /\ MaxObservations \in Nat /\ MaxCalculations \in Nat /\ MaxTime \in Nat

VARIABLES
  now,
  observations, \* rows of indicator_observations
  calculation,  \* one calculate() each, and the row of risk_assessments it leaves
  review        \* the shadow run of each, and the row of model_review_results

vars == <<now, observations, calculation, review>>

Calculations == 1..MaxCalculations
NoScore == -1

\* `recorded` is history: when the row was committed.
Observation == [indicator: Indicators, at: Nat, value: 0..100, confidence: 0..100, recorded: Nat]

Stages == {"unborn", "reading", "advised", "flushed", "committed", "aborted"}
\* `unread` are the indicators still to be read; `ended` is history: when the
\* transaction committed.
CalculationType ==
  [stage: Stages, at: Nat, unread: SUBSET Indicators, readings: SUBSET observations, base: 0..100, confidence: 0..100,
   previous: {NoScore} \cup 0..100, adjustment: -10..10, final: 0..100,
   trend: {"none", "rising", "falling", "stable"}, ended: Nat]

Unborn == [stage |-> "unborn", at |-> 0, unread |-> Indicators, readings |-> {}, base |-> 0,
           confidence |-> 0, previous |-> NoScore, adjustment |-> 0, final |-> 0,
           trend |-> "none", ended |-> 0]

ReviewType == [stage: {"none", "started", "reading", "done"},
               unread: SUBSET Indicators, readings: SUBSET observations, final: 0..100, agreement: BOOLEAN]

NoReview == [stage |-> "none", unread |-> Indicators, readings |-> {}, final |-> 0, agreement |-> FALSE]

TypeOK ==
  /\ now \in 0..MaxTime
  /\ observations \subseteq Observation
  /\ calculation \in [Calculations -> CalculationType]
  /\ review \in [Calculations -> ReviewType]

Init ==
  /\ now = 0
  /\ observations = {}
  /\ calculation = [k \in Calculations |-> Unborn]
  /\ review = [k \in Calculations |-> NoReview]

--------------------------------------------------------------------------------
\* Arithmetic.

Clamp(low, high, x) == IF x < low THEN low ELSE IF x > high THEN high ELSE x
Distance(x, y) == IF x < y THEN y - x ELSE x - y

\* Python's round() of n / d, for d > 0: the nearest integer, a half to the even one.
Round(n, d) ==
  LET q == n \div d
      twice == 2 * (n % d)
  IN  IF twice < d \/ (twice = d /\ q % 2 = 0) THEN q ELSE q + 1

\* normalize_value of a min_max indicator.
Normalize(i, raw) ==
  Clamp(0, 100, (100 * (raw - Lower[i])) \div (Upper[i] - Lower[i]))

--------------------------------------------------------------------------------
\* The score of what was read, as of a time.

\* Mutant: age is counted to the present, not to the time of the assessment.
StaleByNow(o, asOf) ==
  Staleness[o.indicator] # Never /\ now - o.at > Staleness[o.indicator]

IsStale(o, asOf) ==
  Staleness[o.indicator] # Never /\ asOf - o.at > Staleness[o.indicator]

Included(readings, asOf) == {o \in readings : ~IsStale(o, asOf)}

Contribution(o) == IF o.indicator \in Inversed THEN 100 - o.value ELSE o.value

TotalWeight == SumFunction(Weight)
\* Mutant: a missing indicator counts as zero risk.
AllOfTheWeight(known) == TotalWeight

AvailableWeight(known) == SumFunction([o \in known |-> Weight[o.indicator]])

BaseScore(readings, asOf) ==
  LET known == Included(readings, asOf)
  IN  IF known = {} THEN 0
      ELSE Round(SumFunction([o \in known |-> Weight[o.indicator] * Contribution(o)]),
                 AvailableWeight(known))

\* The weighted confidence of what is known, times the share of the weight it covers.
Confidence(readings, asOf) ==
  LET known == Included(readings, asOf)
  IN  SumFunction([o \in known |-> Weight[o.indicator] * o.confidence]) \div TotalWeight

\* Mutant: the recommendation is applied as it comes.
Unclamped(recommended) == recommended

\* A recommendation out of range fails to parse, and is then no adjustment.
Adjustment(recommended) == IF recommended \in -10..10 THEN recommended ELSE 0

FinalScore(base, adjustment) == Clamp(0, 100, base + adjustment)

TrendOf(final, previous) ==
  CASE previous = NoScore         -> "none"
    [] previous # NoScore /\ final - previous > 2 -> "rising"
    [] previous # NoScore /\ final - previous < -2 -> "falling"
    [] OTHER                      -> "stable"

\* Mutant: only indicators that came or went are compared.
CameOrWent(before, after) ==
  {i \in Indicators :
     ({o \in before : o.indicator = i} = {}) # ({o \in after : o.indicator = i} = {})}

\* diff_changed_indicators with its epsilon of 0.05.
ChangedIndicators(before, after) ==
  {i \in Indicators :
     LET old == {o \in before : o.indicator = i}
         new == {o \in after : o.indicator = i}
     IN  \/ (old = {}) # (new = {})
         \/ \E o \in old, p \in new : Distance(o.value, p.value) > 5}

--------------------------------------------------------------------------------
\* Indicator readings.

\* get_latest_observation: rows of equal observed_at come in any order.
LatestObservations(i, asOf) ==
  LET candidates == {o \in observations : o.indicator = i /\ o.at <= asOf}
  IN  {o \in candidates : \A p \in candidates : p.at <= o.at}

\* What the statement may return: one of them, or no row.
Answers(i, asOf) ==
  IF LatestObservations(i, asOf) = {} THEN {{}}
  ELSE {{o} : o \in LatestObservations(i, asOf)}

RecordObservation(i, raw, confidence) ==
  /\ now < MaxTime
  /\ Cardinality(observations) < MaxObservations
  /\ now' = now + 1
  /\ \E at \in SuppliedTimes \cup {now'} :
       observations' = observations \cup
         {[indicator |-> i, at |-> at, value |-> Normalize(i, raw),
           confidence |-> confidence, recorded |-> now']}
  /\ UNCHANGED <<calculation, review>>

--------------------------------------------------------------------------------
\* A calculation.

Begin(k) ==
  /\ now < MaxTime
  /\ calculation[k].stage = "unborn"
  /\ \A j \in 1..(k - 1) : calculation[j].stage # "unborn"
  /\ now' = now + 1
  /\ calculation' = [calculation EXCEPT ![k].stage = "reading", ![k].at = now']
  /\ UNCHANGED <<observations, review>>

ReadObservation(k, i) ==
  /\ calculation[k].stage = "reading"
  /\ i \in calculation[k].unread
  /\ \E answer \in Answers(i, calculation[k].at) :
       calculation' = [calculation EXCEPT ![k].unread = @ \ {i},
                                          ![k].readings = @ \cup answer]
  /\ UNCHANGED <<now, observations, review>>

Committed == {k \in Calculations : calculation[k].stage = "committed"}

\* Mutant: the previous score is taken before adjustment.
LatestBase ==
  IF Committed = {} THEN NoScore
  ELSE calculation[CHOOSE k \in Committed :
                     \A j \in Committed : calculation[j].at <= calculation[k].at].base

\* get_latest_assessment, with no upper bound on assessed_at.
LatestScore ==
  IF Committed = {} THEN NoScore
  ELSE calculation[CHOOSE k \in Committed :
                     \A j \in Committed : calculation[j].at <= calculation[k].at].final

ReadPrevious(k) ==
  LET c == calculation[k]
  IN  /\ c.stage = "reading"
      /\ c.unread = {}
      /\ calculation' = [calculation EXCEPT
           ![k].stage = "advised",
           ![k].base = BaseScore(c.readings, c.at),
           ![k].confidence = Confidence(c.readings, c.at),
           ![k].previous = LatestScore]
      /\ UNCHANGED <<now, observations, review>>

\* should_trigger_for_risk
IsLargeMove(final, previous) ==
  previous # NoScore /\ Distance(final, previous) >= Threshold

\* The model has answered, or failed; the row is flushed and the review's task created.
Persist(k) ==
  /\ calculation[k].stage = "advised"
  /\ \E recommended \in Recommendations \cup {0} :
       LET c == calculation[k]
           adjustment == Adjustment(recommended)
           final == FinalScore(c.base, adjustment)
       IN  /\ calculation' = [calculation EXCEPT
                ![k].stage = "flushed",
                ![k].adjustment = adjustment,
                ![k].final = final,
                ![k].trend = TrendOf(final, c.previous)]
           /\ review' = [review EXCEPT ![k].stage =
                IF IsLargeMove(final, c.previous) THEN "started" ELSE @]
  /\ UNCHANGED <<now, observations>>

Commit(k) ==
  /\ calculation[k].stage = "flushed"
  /\ calculation' = [calculation EXCEPT ![k].stage = "committed", ![k].ended = now]
  /\ UNCHANGED <<now, observations, review>>

\* An error of the model or of the database, or the end of the process: nothing is kept.
Abort(k) ==
  /\ calculation[k].stage \in {"reading", "advised", "flushed"}
  /\ calculation' = [calculation EXCEPT ![k] = [Unborn EXCEPT !.stage = "aborted"]]
  /\ UNCHANGED <<now, observations, review>>

--------------------------------------------------------------------------------
\* The shadow run.

\* The worker's review_risk_assessment for an assessment named by id.  Bound: asked
\* for while there is no other review, none of which shares anything with this one.
AskReview(k) ==
  /\ calculation[k].stage = "committed"
  /\ \A j \in Calculations : review[j].stage = "none"
  /\ review' = [review EXCEPT ![k].stage = "started"]
  /\ UNCHANGED <<now, observations, calculation>>

\* Mutant: the review uses the session of the calculation.
IsWritten(k) == calculation[k].stage \in {"flushed", "committed"}

IsVisible(k) == calculation[k].stage = "committed"

\* get_assessment in the review's own session; a row it cannot see is NotFoundError,
\* which ends the task and leaves nothing.
LoadPrimary(k) ==
  /\ review[k].stage = "started"
  /\ review' = [review EXCEPT ![k].stage = IF IsVisible(k) THEN "reading" ELSE "none"]
  /\ UNCHANGED <<now, observations, calculation>>

\* Mutant: the shadow run uses the readings of the moment.
ShadowAsOfNow(k) == now

\* calculate(as_of = primary.assessed_at, persist = False)
ShadowAsOf(k) == calculation[k].at

ShadowRead(k, i) ==
  /\ review[k].stage = "reading"
  /\ i \in review[k].unread
  /\ \E answer \in Answers(i, ShadowAsOf(k)) :
       review' = [review EXCEPT ![k].unread = @ \ {i}, ![k].readings = @ \cup answer]
  /\ UNCHANGED <<now, observations, calculation>>

StoreReview(k) ==
  /\ review[k].stage = "reading"
  /\ review[k].unread = {}
  /\ \E recommended \in Recommendations \cup {0} :
       LET final == FinalScore(BaseScore(review[k].readings, ShadowAsOf(k)),
                               Adjustment(recommended))
       IN  review' = [review EXCEPT
             ![k] = [stage |-> "done", unread |-> {}, readings |-> {}, final |-> final,
                     agreement |-> Distance(calculation[k].final, final) <= Tolerance]]
  /\ UNCHANGED <<now, observations, calculation>>

ReviewFails(k) ==
  /\ review[k].stage \in {"started", "reading"}
  /\ review' = [review EXCEPT ![k] = NoReview]
  /\ UNCHANGED <<now, observations, calculation>>

--------------------------------------------------------------------------------
Next ==
  \/ \E i \in Indicators, raw \in Raws, confidence \in Confidences :
       RecordObservation(i, raw, confidence)
  \/ \E k \in Calculations :
       \/ Begin(k) \/ ReadPrevious(k) \/ Persist(k) \/ Commit(k) \/ Abort(k)
       \/ AskReview(k) \/ LoadPrimary(k) \/ StoreReview(k) \/ ReviewFails(k)
       \/ \E i \in Indicators : ReadObservation(k, i) \/ ShadowRead(k, i)

Spec == Init /\ [][Next]_vars

--------------------------------------------------------------------------------
\* Properties.

Scored(k) == calculation[k].stage \in {"advised", "flushed", "committed"}

\* A reading was recorded after the calculation had begun, for a time before that.
LateReading(k) ==
  \E o \in observations : o.recorded > calculation[k].at /\ o.at <= calculation[k].at

\* Two readings of one indicator for one time: "latest" is ambiguous.
TiedReading(k) ==
  \E o, p \in observations :
    o # p /\ o.indicator = p.indicator /\ o.at = p.at /\ o.at <= calculation[k].at

\* A base score can be computed again from the stored readings at any later time:
\* unless a reading of the past came in late, it is a score of what is in the table
\* as of assessed_at, whatever has been recorded or has gone stale since
\* (calculate, get_latest_observation, _is_stale).
BaseIsReproducible ==
  \A k \in Calculations :
    Scored(k) /\ ~LateReading(k) =>
      \E stored \in SUBSET observations :
        /\ \A i \in Indicators :
             {o \in stored : o.indicator = i} \in Answers(i, calculation[k].at)
        /\ calculation[k].base = BaseScore(stored, calculation[k].at)

\* The score lies between the lowest and the highest contribution of the indicators
\* with a fresh reading: a missing or stale one never pulls it to zero.  It costs
\* confidence instead, which cannot exceed the share of the weight that is known
\* (aggregate_contributions).
ScoreRestsOnWhatIsKnown ==
  \A k \in Calculations :
    LET c == calculation[k]
        known == Included(c.readings, c.at)
    IN  Scored(k) =>
          /\ known # {} => /\ \E o \in known : Contribution(o) <= c.base
                           /\ \E o \in known : c.base <= Contribution(o)
          /\ c.confidence * TotalWeight <= 100 * AvailableWeight(known)

\* j and k are neighbours in the history of assessments, and no transaction that
\* overlaps with k could come between them.
Follows(j, k) ==
  /\ {j, k} \subseteq Committed
  /\ calculation[j].ended < calculation[k].at
  /\ \A m \in Committed \ {j, k} :
       calculation[m].at < calculation[j].at \/ calculation[m].at > calculation[k].ended

\* The trend and the previous score shown with an assessment are those of the history
\* a reader sees: where calculations do not overlap, they compare with the assessment
\* just before it, and neither a shadow run nor an aborted calculation comes between
\* (calculate, get_latest_assessment).
TrendMatchesHistory ==
  \A j, k \in Calculations :
    Follows(j, k) =>
      /\ calculation[k].previous = calculation[j].final
      /\ calculation[k].trend = TrendOf(calculation[k].final, calculation[j].final)

\* The second model is asked about the same readings as the first, however long
\* after: the two results differ by no more than the two adjustments can
\* (review_risk_assessment with as_of = assessed_at).
ShadowDiffersByAdjustment ==
  \A k \in Calculations :
    review[k].stage = "done" /\ ~LateReading(k) /\ ~TiedReading(k) =>
      Distance(review[k].final, calculation[k].final) <= 20

\* No review is stored of an assessment that is not, or may yet not be, in the
\* database, though its task is started before the commit (_run_review).
OnlyCommittedIsReviewed ==
  \A k \in Calculations : review[k].stage = "done" => calculation[k].stage = "committed"

\* When the explanation of a change names no changed indicator, the base score has
\* moved by at most the epsilon and rounding, unless a reading went stale or a stale
\* one was replaced (diff_changed_indicators against aggregate_contributions).
SilentChangesAreSmall ==
  \A j, k \in Committed :
    LET b == calculation[j]
        c == calculation[k]
    IN  /\ ChangedIndicators(b.readings, c.readings) = {}
        /\ {o.indicator : o \in Included(b.readings, b.at)} =
             {o.indicator : o \in Included(c.readings, c.at)}
        => Distance(b.base, c.base) <= 6
================================================================================
