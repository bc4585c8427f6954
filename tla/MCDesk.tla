-------------------------------- MODULE MCDesk --------------------------------
(* Desk for TLC: the values of its constants. *)
EXTENDS Desk, TLC

CONSTANT Pair   \* two of a kind: requests, sessions, notifications, analysts or actors

Symmetry == Permutations(Pair)

\* A threshold that can be read, and one that is compared in another direction and cannot.
MCConditions == {[operator |-> ">=", value |-> 1, readable |-> TRUE],
                 [operator |-> "<", value |-> 1, readable |-> FALSE]}

MCSimilarity(name) == [mention |-> 100, near |-> 96, other |-> 88][name]

R(table) == [table |-> table, n |-> 1]
Second(table) == [table |-> table, n |-> 2]

\* Documents and their evidence; actors and what names them; evidence in bundles; what
\* hangs on a report; what hangs on a scenario and on a schedule.
MCPopulations ==
  {{R("sources"), Second("sources"), R("documents"), Second("documents"), R("document_chunks"),
    R("claims"), R("claim_evidence")},
   {R("actors"), Second("actors"), R("relationships"), R("events"), R("event_actors"),
    R("actor_aliases")},
   {R("claims"), R("claim_evidence"), R("evidence_bundles"), R("evidence_bundle_items"),
    R("image_evidence"), R("evidence_bundle_imagery_items")},
   {R("reports"), R("investigations"), R("investigation_steps"), R("monitors"),
    R("notifications")},
   {R("scenarios"), R("scenario_assessments"), R("forecast_records"), R("job_schedules"),
    R("job_executions")}}
===============================================================================
