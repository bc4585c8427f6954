------------------------------- MODULE Scenarios -------------------------------
(***************************************************************************)
(* Scenarios of one scope, and the assessments of their probability.       *)
(*                                                                         *)
(* update_scenario notes the time, reads the latest assessment up to it,   *)
(* asks the model, and adds an assessment of that time; its transaction    *)
(* commits later.  The API and the worker update one scenario; the job     *)
(* scenario_evaluation updates all of them, whatever their status, in one  *)
(* transaction.  The status, which nothing here reads, is left out, and of *)
(* an assessment all but its range.  A simulation writes nothing.          *)
(***************************************************************************)
EXTENDS Naturals, FiniteSetsExt

CONSTANTS
  ScenarioIds,   \* bound: scenarios created
  Families,      \* scenario families
  Requests,      \* bound: requests, worker tasks and jobs at once
  Points,        \* probabilities a model proposes, in 0..100
  MaxTime        \* bound: assessments begun

VARIABLES
  scenarios,    \* the rows
  assessments,  \* committed assessments
  request,      \* transactions
  clock         \* the time of the last assessment begun; two never begin at once

vars == <<scenarios, assessments, request, clock>>

None == "none"
Unused == [state |-> "unused", family |-> CHOOSE f \in Families : TRUE]
Deleted == [Unused EXCEPT !.state = "deleted"]
Full == [low |-> 0, high |-> 100]

Ranges == {Full} \cup {r \in [low: Points, high: Points] : r.low <= r.high}
AssessmentType ==
  [scenario: ScenarioIds, at: 1..MaxTime, range: Ranges, model: BOOLEAN, first: BOOLEAN]

\* own: what the transaction has written.  previous: what it has read, a set.
Quiet == [stage |-> None, family |-> None, left |-> {}, current |-> None, at |-> 0,
          previous |-> {}, first |-> FALSE, own |-> {}]

TypeOK ==
  /\ scenarios \in [ScenarioIds -> [state: {"unused", "live", "deleted"}, family: Families]]
  /\ assessments \subseteq AssessmentType
  /\ \A a \in assessments : scenarios[a.scenario].state = "live"
  /\ \A a, b \in assessments : a.scenario = b.scenario /\ a.at = b.at => a = b
  /\ clock \in 0..MaxTime
  /\ \A q \in Requests :
       /\ request[q].stage \in {None, "creating", "walking", "begun", "read"}
       /\ request[q].left \subseteq ScenarioIds
       /\ request[q].own \subseteq AssessmentType
       /\ Cardinality(request[q].previous) <= 1

Init ==
  /\ scenarios = [s \in ScenarioIds |-> Unused]
  /\ assessments = {}
  /\ request = [q \in Requests |-> Quiet]
  /\ clock = 0

Live == {s \in ScenarioIds : scenarios[s].state = "live"}

-----------------------------------------------------------------------------
(* Creation, edits, deletion.                                              *)

\* A family the scope has already is answered with its scenario.
LookUpFamily(q, family) ==
  /\ request[q].stage = None
  /\ \A s \in Live : scenarios[s].family # family
  /\ request' = [request EXCEPT ![q] = [Quiet EXCEPT !.stage = "creating", !.family = family]]
  /\ UNCHANGED <<scenarios, assessments, clock>>

\* No constraint stands behind the look-up.
Create(q, s) ==
  /\ request[q].stage = "creating" /\ scenarios[s].state = "unused"
  /\ scenarios' = [scenarios EXCEPT ![s] = [state |-> "live", family |-> request[q].family]]
  /\ request' = [request EXCEPT ![q] = Quiet]
  /\ UNCHANGED <<assessments, clock>>

Patch(s) ==
  /\ scenarios[s].state = "live"
  /\ \E family \in Families : scenarios' = [scenarios EXCEPT ![s].family = family]
  /\ UNCHANGED <<assessments, request, clock>>

\* The assessments go with it.  A transaction that has written one keeps it.
Delete(s) ==
  /\ scenarios[s].state = "live"
  /\ \A q \in Requests : \A a \in request[q].own : a.scenario # s
  /\ scenarios' = [scenarios EXCEPT ![s] = Deleted]
  /\ assessments' = {a \in assessments : a.scenario # s}
  /\ UNCHANGED <<request, clock>>

-----------------------------------------------------------------------------
(* Updates.                                                                *)

\* One scenario, or, for the job, all there are.
Start(q) ==
  /\ request[q].stage = None
  /\ \E chosen \in {Live} \cup {{s} : s \in Live} :
       /\ chosen # {}
       /\ request' = [request EXCEPT ![q] = [Quiet EXCEPT !.stage = "walking", !.left = chosen]]
  /\ UNCHANGED <<scenarios, assessments, clock>>

\* A scenario that is gone is reported and skipped.
Begin(q, s) ==
  /\ request[q].stage = "walking" /\ s \in request[q].left
  /\ IF s \in Live
     THEN /\ clock < MaxTime /\ clock' = clock + 1
          /\ request' = [request EXCEPT ![q].stage = "begun", ![q].left = @ \ {s},
                                        ![q].current = s, ![q].at = clock + 1]
     ELSE /\ request' = [request EXCEPT ![q].left = @ \ {s}]
          /\ UNCHANGED clock
  /\ UNCHANGED <<scenarios, assessments>>

\* Mutant of Latest: whatever the scenario.
LatestOfAny(s, at) ==
  LET known == {a \in assessments : a.at <= at}
  IN {a \in known : \A b \in known : b.at <= a.at}

\* The latest assessment up to a time, of the committed ones: a transaction updates
\* a scenario once, so its own are of other scenarios.
Latest(s, at) ==
  LET known == {a \in assessments : a.scenario = s /\ a.at <= at}
  IN {a \in known : \A b \in known : b.at <= a.at}

ReadPrevious(q) ==
  LET w == request[q]
  IN /\ w.stage = "begun"
     /\ request' = [request EXCEPT ![q].stage = "read",
                      ![q].previous = Latest(w.current, w.at),
                      ![q].first = \A a \in assessments : a.scenario # w.current \/ a.at > w.at]
     /\ UNCHANGED <<scenarios, assessments, clock>>

\* The bounds a model returns, clamped (they are in 0..100) and put in order.
NormalizeProbabilityRange(low, high) == [low |-> Min({low, high}), high |-> Max({low, high})]

\* Without a provider, or when its answer is an error.
FallbackUpdate(previous) == IF previous = {} THEN Full ELSE (CHOOSE a \in previous : TRUE).range

\* What an update may add: a range that the model proposes, or what stood before.
Updates(w) ==
  LET Row(range, model) == [scenario |-> w.current, at |-> w.at, range |-> range,
                            model |-> model, first |-> w.first]
  IN {Row(NormalizeProbabilityRange(low, high), TRUE) : low, high \in Points}
       \cup {Row(FallbackUpdate(w.previous), FALSE)}

\* The transaction has written a row and goes on to what is left.
Written(w, row) == [Quiet EXCEPT !.stage = "walking", !.left = w.left, !.own = w.own \cup {row}]

Assess(q) ==
  LET w == request[q]
  IN /\ w.stage = "read" /\ w.current \in Live    \* the foreign key; else Fail
     /\ \E row \in Updates(w) : request' = [request EXCEPT ![q] = Written(w, row)]
     /\ UNCHANGED <<scenarios, assessments, clock>>

Commit(q) ==
  /\ request[q].stage = "walking" /\ request[q].left = {}
  /\ assessments' = assessments \cup request[q].own
  /\ request' = [request EXCEPT ![q] = Quiet]
  /\ UNCHANGED <<scenarios, clock>>

\* A statement or the commit fails, or the process dies.
Fail(q) ==
  /\ request[q].stage # None
  /\ request' = [request EXCEPT ![q] = Quiet]
  /\ UNCHANGED <<scenarios, assessments, clock>>

Next ==
  \/ \E q \in Requests, family \in Families : LookUpFamily(q, family)
  \/ \E q \in Requests, s \in ScenarioIds : Create(q, s) \/ Begin(q, s)
  \/ \E s \in ScenarioIds : Patch(s) \/ Delete(s)
  \/ \E q \in Requests : Start(q) \/ ReadPrevious(q) \/ Assess(q) \/ Commit(q) \/ Fail(q)

Spec == Init /\ [][Next]_vars

-----------------------------------------------------------------------------
(* Properties.                                                             *)

\* An assessment no model made invents nothing: it repeats the range of an earlier
\* one of its scenario, or, when none was committed, stands for full uncertainty;
\* also when updates overlap, end out of order, or are rolled back.
CarriedForward ==
  \A a \in assessments : ~a.model =>
    IF a.first THEN a.range = Full
    ELSE \E b \in assessments : b.scenario = a.scenario /\ b.at < a.at /\ b.range = a.range
=============================================================================
