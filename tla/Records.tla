-------------------------------- MODULE Records --------------------------------
(***************************************************************************)
(* The tables, what their rows refer to, and what a deletion takes along.  *)
(*                                                                         *)
(* A row is a table and a number.  Columns are left out except references; *)
(* so are references without a foreign key (subjects of reviews, scopes).  *)
(* What follows a row's deletion is decided twice: in the models, which    *)
(* delete the rows of an owned collection one by one, and in the database. *)
(***************************************************************************)
EXTENDS FiniteSets, Naturals

CONSTANTS
  Populations,   \* sets of rows that may exist together
  MaxDeletions   \* bound: deletions under way at once

VARIABLES
  population,
  rows,       \* the rows that exist
  links,      \* their references that are set
  deleting    \* deletions that have loaded what they own and are not yet flushed

vars == <<population, rows, links, deleting>>

Reference(child, column, parent, required, rule) ==
  [child |-> child, column |-> column, parent |-> parent, required |-> required, rule |-> rule]
Part(child, column, parent) == Reference(child, column, parent, TRUE, "cascade")
Link(child, column, parent) == Reference(child, column, parent, FALSE, "set null")
Evidenced(child) == Link(child, "bundle", "evidence_bundles")

-----------------------------------------------------------------------------
(* The schema, migration by migration.                                     *)

IdentitySchema ==
  {Part("user_roles", "user", "users"), Part("user_roles", "role", "roles"),
   Part("api_keys", "user", "users")}

ActorSchema ==
  {Link("actors", "parent", "actors"), Link("actors", "country", "actors"),
   Part("actor_aliases", "actor", "actors"),
   Part("actor_leadership", "actor", "actors"), Part("actor_leadership", "person", "actors"),
   Evidenced("actor_leadership")}

DocumentSchema ==
  {Part("source_endpoints", "source", "sources"),
   Part("documents", "source", "sources"),
   Part("document_chunks", "document", "documents")}

\* Mutant of DuplicateSchema: a document takes along the duplicates that point at it.
DuplicateSchemaOwning ==
  {Reference("documents", "duplicate_of", "documents", FALSE, "cascade")}

DuplicateSchema == {Link("documents", "duplicate_of", "documents")}

EventSchema ==
  {Evidenced("events"), Link("events", "supersedes", "events"),
   Part("event_actors", "event", "events"), Part("event_actors", "actor", "actors"),
   Part("event_locations", "event", "events"), Link("event_locations", "country", "actors"),
   Part("event_impacts", "event", "events"), Evidenced("event_impacts")}

ClaimSchema ==
  {Link("claims", "claimant", "actors"), Link("claims", "subject", "actors"),
   Link("claims", "event", "events"),
   Part("claim_evidence", "claim", "claims"), Part("claim_evidence", "document", "documents"),
   Link("claim_evidence", "chunk", "document_chunks"),
   Part("evidence_bundle_items", "bundle", "evidence_bundles"),
   Part("evidence_bundle_items", "evidence", "claim_evidence")}

RelationshipSchema ==
  {Part("relationships", "source", "actors"), Part("relationships", "target", "actors"),
   Part("relationship_observations", "relationship", "relationships"),
   Evidenced("relationship_observations")}

RiskSchema ==
  {Part("indicator_observations", "indicator", "indicator_definitions"),
   Evidenced("indicator_observations"),
   Part("risk_indicator_weights", "risk", "risk_definitions"),
   Part("risk_indicator_weights", "indicator", "indicator_definitions"),
   Part("risk_assessments", "risk", "risk_definitions"), Evidenced("risk_assessments")}

ScenarioSchema ==
  {Part("scenario_assessments", "scenario", "scenarios"), Evidenced("scenario_assessments"),
   Evidenced("forecast_records")}

\* A notification's monitor is optional, and takes it along all the same.
InvestigationSchema ==
  {Link("investigations", "report", "reports"),
   Part("investigation_steps", "investigation", "investigations"),
   Reference("notifications", "monitor", "monitors", FALSE, "cascade"),
   Link("notifications", "report", "reports")}

AnalysisSchema ==
  {Link("analyst_assessments", "analyst", "users"), Evidenced("analyst_assessments"),
   Link("image_evidence", "source", "sources"), Link("image_evidence", "document", "documents"),
   Part("evidence_bundle_imagery_items", "bundle", "evidence_bundles"),
   Part("evidence_bundle_imagery_items", "image", "image_evidence")}

ScheduleSchema == {Link("job_executions", "schedule", "job_schedules")}

Schema ==
  UNION {IdentitySchema, ActorSchema, DocumentSchema, DuplicateSchema, EventSchema, ClaimSchema,
         RelationshipSchema, RiskSchema, ScenarioSchema, InvestigationSchema, AnalysisSchema,
         ScheduleSchema}

\* The collections the models own.
UserParts == {<<"users", "user_roles">>, <<"users", "api_keys">>}
ActorParts == {<<"actors", "actor_aliases">>}
SourceParts == {<<"sources", "source_endpoints">>}
DocumentParts == {<<"documents", "document_chunks">>}
EventParts ==
  {<<"events", "event_actors">>, <<"events", "event_locations">>, <<"events", "event_impacts">>}
ClaimParts == {<<"claims", "claim_evidence">>}
BundleParts == {<<"evidence_bundles", "evidence_bundle_items">>}
InvestigationParts == {<<"investigations", "investigation_steps">>}
MonitorParts == {<<"monitors", "notifications">>}
ScheduleParts == {<<"job_schedules", "job_executions">>}

Owned ==
  UNION {UserParts, ActorParts, SourceParts, DocumentParts, EventParts, ClaimParts, BundleParts,
         InvestigationParts, MonitorParts, ScheduleParts}

\* The rows a request can delete.  (Chunks go when their document is parsed again.)
Deletable == {"actors", "actor_aliases", "sources", "source_endpoints", "document_chunks",
              "claims", "claim_evidence", "scenarios", "forecast_records", "reports",
              "investigations", "monitors", "image_evidence", "job_schedules"}

-----------------------------------------------------------------------------
References(row) == {ref \in Schema : ref.child = row.table}
Of(table) == {row \in rows : row.table = table}
LinkOf(row, ref, to) == [from |-> row, ref |-> ref, to |-> to]
LinksOf(row) == UNION {{LinkOf(row, ref, to) : to \in Of(ref.parent)} : ref \in References(row)}

TypeOK ==
  /\ population \in Populations /\ rows \subseteq population
  /\ \A l \in links : l.from \in rows /\ l \in LinksOf(l.from)
  /\ \A d \in deleting : d.root \in population /\ d.loaded \subseteq population

Init ==
  /\ population \in Populations
  /\ rows = {} /\ links = {} /\ deleting = {}

\* A row's references are to rows that exist; a required one has to be.  (Ids are
\* not used again: a row that is being deleted does not come back meanwhile.  A
\* population without a parent's table stands for one whose parents are not touched.)
Insert(row) ==
  /\ row \notin rows
  /\ \A d \in deleting : row # d.root /\ row \notin d.loaded
  /\ \E chosen \in SUBSET LinksOf(row) :
       /\ \A l, m \in chosen : l.ref = m.ref => l = m
       /\ \A ref \in References(row) :
            (ref.required /\ \E p \in population : p.table = ref.parent) =>
              \E l \in chosen : l.ref = ref
       /\ links' = links \cup chosen
  /\ rows' = rows \cup {row}
  /\ UNCHANGED <<population, deleting>>

\* The session loads the collections the row owns.
RequestDelete(row) ==
  /\ row \in rows /\ row.table \in Deletable
  /\ Cardinality(deleting) < MaxDeletions /\ \A d \in deleting : d.root # row
  /\ deleting' = deleting \cup {[root |-> row,
       loaded |-> {l.from : l \in {m \in links : m.to = row /\
                                     <<row.table, m.from.table>> \in Owned}}]}
  /\ UNCHANGED <<population, rows, links>>

\* What the database deletes along with rows: the least set that has them and, with a
\* row, every row that a cascading reference of its own leads there.
Closed(set) == \A l \in links : (l.ref.rule = "cascade" /\ l.to \in set) => l.from \in set
Cascade(start) ==
  {row \in rows : \A set \in SUBSET rows : (start \subseteq set /\ Closed(set)) => row \in set}

\* What was loaded and the row itself are deleted, and the database adds its own;
\* every other reference to them is set to null.
Flush(d) ==
  LET gone == Cascade((d.loaded \cup {d.root}) \cap rows)
  IN /\ rows' = rows \ gone
     /\ links' = {l \in links : l.from \notin gone /\ l.to \notin gone}
     /\ deleting' = deleting \ {d}
     /\ UNCHANGED population

\* An error elsewhere in the transaction.
Fail(d) ==
  /\ deleting' = deleting \ {d}
  /\ UNCHANGED <<population, rows, links>>

Next ==
  \/ \E row \in population : Insert(row) \/ RequestDelete(row)
  \/ \E d \in deleting : Flush(d) \/ Fail(d)

Spec == Init /\ [][Next]_vars

-----------------------------------------------------------------------------
(* Properties.                                                             *)

\* The parts a whole takes along though they need not have one.
TakenAlong == {<<"monitors", "notifications">>, <<"job_schedules", "job_executions">>}

\* Rows go unasked only with a row they cannot be without: deleting a source, an
\* actor or an image takes neither the events and claims that mention it nor the
\* duplicates of its documents elsewhere, whatever is inserted while a deletion is
\* under way; and what stays has everything it requires.
OnlyPartsGo ==
  [][ LET gone == rows \ rows'
          asked == {d.root : d \in deleting}
      IN /\ \A row \in gone \ asked :
              \E l \in links : l.from = row /\ l.to \in gone /\
                (l.ref.required \/ <<l.to.table, row.table>> \in TakenAlong)
         /\ \A l \in links : (l.from \in rows' /\ l.ref.required) => l \in links'
    ]_vars
=============================================================================
