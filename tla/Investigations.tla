---------------------------- MODULE Investigations ----------------------------
(***************************************************************************)
(* Investigations: launch, execution, edits and deletion.                  *)
(*                                                                         *)
(* The request that launches an investigation starts its execution as a    *)
(* task on its own session, goes on to its commit, and closes the session: *)
(* the commit stores what the task has set so far, wherever it is, and     *)
(* what the task does afterwards reaches no commit.  A worker executes an  *)
(* investigation in a session of its own and commits at the end; a result  *)
(* equal to the one in the row it loaded is not written.  What was found   *)
(* is one of four findings.                                                *)
(***************************************************************************)
EXTENDS Naturals

CONSTANTS
  Cases,      \* bound: investigations
  Sessions,   \* bound: sessions that execute one at a time
  MaxBriefs   \* bound: briefs stored for one investigation

Statuses == {"pending", "running", "completed", "failed"}
Steps == 1..3   \* source_search, claim_extraction, narrative_comparison
None == "none"

\* What the queries for documents, events and claims bring, and the evidence of
\* the claims: a summary, a score and a confidence are made of it.
Findings == {"nothing", "no claims", "undisputed", "disputed"}

VARIABLES
  cases,    \* the committed rows, with their steps
  briefs,   \* committed briefs of each investigation
  session   \* executions: whose session, where they are, what they found, and the
            \* result that the row had when they loaded it

vars == <<cases, briefs, session>>

Unused == [state |-> "unused", status |-> "pending", steps |-> [k \in Steps |-> "pending"],
           output |-> None, result |-> None, linked |-> FALSE]
Deleted == [Unused EXCEPT !.state = "deleted"]

CaseType ==
  [state: {"unused", "live", "deleted"}, status: Statuses, steps: [Steps -> Statuses],
   output: Findings \cup {None}, result: Findings \cup {None, "failure"}, linked: BOOLEAN]

\* at: 0 nothing done, 1 running, 2k step k running, 2k + 1 step k completed,
\* 8 completed and a brief added, 9 the brief linked.
Last == 9
Idle == [owner |-> None, case |-> None, at |-> 0, found |-> None, loaded |-> None,
         raised |-> FALSE]

TypeOK ==
  /\ cases \in [Cases -> CaseType]
  /\ briefs \in [Cases -> 0..MaxBriefs]
  /\ \A s \in Sessions :
       /\ session[s].owner \in {None, "request", "worker"}
       /\ session[s].at \in 0..Last
       /\ session[s].found \in Findings \cup {None}
       /\ session[s].loaded \in Findings \cup {None, "failure"}
       /\ session[s].owner # None => session[s].case \in Cases
       /\ (session[s].owner # None /\ session[s].at >= 2) => session[s].found # None

Init ==
  /\ cases = [c \in Cases |-> Unused]
  /\ briefs = [c \in Cases |-> 0]
  /\ session = [s \in Sessions |-> Idle]

-----------------------------------------------------------------------------
(* What an execution has made of the row.                                  *)

StepStatus(old, k, at) ==
  IF at > 2 * k THEN "completed" ELSE IF at = 2 * k THEN "running" ELSE old

\* Mutant of CaseStatus: completed once the last step is.
CaseStatusEarly(at) ==
  IF at >= 7 THEN "completed" ELSE IF at >= 1 THEN "running" ELSE "pending"

CaseStatus(at) ==
  IF at >= 8 THEN "completed" ELSE IF at >= 1 THEN "running" ELSE "pending"

Image(row, w) ==
  [row EXCEPT !.status = CaseStatus(w.at),
              !.steps = [k \in Steps |-> StepStatus(row.steps[k], k, w.at)],
              !.output = IF w.at >= 7 THEN w.found ELSE @,
              !.result = IF w.at >= 8 /\ w.found # w.loaded THEN w.found ELSE @,
              !.linked = IF w.at >= Last THEN TRUE ELSE @]

\* An execution that raised: steps that have not ended fail with it.
Failed(row) ==
  [row EXCEPT !.status = "failed", !.result = "failure",
              !.steps = [k \in Steps |-> IF row.steps[k] \in {"pending", "running"}
                                         THEN "failed" ELSE row.steps[k]]]

Stored(row, w) == IF w.raised THEN Failed(Image(row, w)) ELSE Image(row, w)

\* The brief is in the session from step 8 on, whatever happens next.
Briefs(c, w) == briefs[c] + IF w.at >= 8 THEN 1 ELSE 0

\* An execution that has written the row holds it until its transaction ends.
Locked(c) ==
  \E s \in Sessions : session[s].owner = "worker" /\ session[s].case = c /\ session[s].at >= 1

-----------------------------------------------------------------------------
(* Executions.                                                             *)

Launch(s, c) ==
  /\ session[s].owner = None
  /\ cases[c].state = "unused"
  /\ \A z \in Sessions : session[z].case # c   \* a new id
  /\ session' = [session EXCEPT ![s] = [Idle EXCEPT !.owner = "request", !.case = c]]
  /\ UNCHANGED <<cases, briefs>>

\* It looks at no status: steps that are completed are executed again.
WorkerStarts(s, c) ==
  /\ session[s].owner = None
  /\ cases[c].state = "live" /\ briefs[c] < MaxBriefs
  /\ session' = [session EXCEPT ![s] = [Idle EXCEPT !.owner = "worker", !.case = c,
                                                    !.loaded = cases[c].result]]
  /\ UNCHANGED <<cases, briefs>>

\* The next change and its flush.  The searches lie before the first step.
Advance(s) ==
  LET w == session[s]
  IN /\ w.owner # None /\ ~w.raised /\ w.at < Last
     /\ (w.owner = "worker" /\ w.at = 0) => cases[w.case].state = "live" /\ ~Locked(w.case)
     /\ \E found \in IF w.at = 1 THEN Findings ELSE {w.found} :
          session' = [session EXCEPT ![s].at = w.at + 1, ![s].found = found]
     /\ UNCHANGED <<cases, briefs>>

\* The task and its request use one connection, which serves one statement at a
\* time: a statement of the task may be refused.
Raises(s) ==
  /\ session[s].owner = "request" /\ session[s].at \in 1..8 /\ ~session[s].raised
  /\ session' = [session EXCEPT ![s].raised = TRUE]
  /\ UNCHANGED <<cases, briefs>>

\* The request commits and closes the session: the task's later work is lost.
RequestCommits(s) ==
  LET w == session[s]
  IN /\ w.owner = "request"
     /\ cases' = [cases EXCEPT ![w.case] = Stored([Unused EXCEPT !.state = "live"], w)]
     /\ briefs' = [briefs EXCEPT ![w.case] = Briefs(w.case, w)]
     /\ session' = [session EXCEPT ![s] = Idle]

WorkerCommits(s) ==
  LET w == session[s]
  IN /\ w.owner = "worker" /\ w.at = Last /\ briefs[w.case] < MaxBriefs
     /\ cases' = [cases EXCEPT ![w.case] = Stored(cases[w.case], w)]
     /\ briefs' = [briefs EXCEPT ![w.case] = Briefs(w.case, w)]
     /\ session' = [session EXCEPT ![s] = Idle]

\* A statement fails under a worker (the flush in its handler then fails too), the
\* row is gone, the request fails, or the process dies.
Aborts(s) ==
  /\ session[s].owner # None
  /\ session' = [session EXCEPT ![s] = Idle]
  /\ UNCHANGED <<cases, briefs>>

-----------------------------------------------------------------------------
(* Edits and deletion.                                                     *)

\* Any status may be set; the steps stay as they are.
Patch(c) ==
  /\ cases[c].state = "live" /\ ~Locked(c)
  /\ \E status \in Statuses : cases' = [cases EXCEPT ![c].status = status]
  /\ UNCHANGED <<briefs, session>>

\* The steps go with it, the briefs stay.
Delete(c) ==
  /\ cases[c].state = "live" /\ ~Locked(c)
  /\ cases' = [cases EXCEPT ![c] = Deleted]
  /\ UNCHANGED <<briefs, session>>

\* The link of a deleted report is set to null.
DeleteBrief(c) ==
  /\ briefs[c] > 0 /\ ~Locked(c)
  /\ \E linked \in {FALSE, cases[c].linked} :
       /\ (briefs[c] = 1 /\ cases[c].linked) => ~linked
       /\ cases' = [cases EXCEPT ![c].linked = linked]
  /\ briefs' = [briefs EXCEPT ![c] = @ - 1]
  /\ UNCHANGED session

Next ==
  \/ \E s \in Sessions, c \in Cases : Launch(s, c) \/ WorkerStarts(s, c)
  \/ \E s \in Sessions : Advance(s) \/ Raises(s) \/ Aborts(s)
  \/ \E s \in Sessions : RequestCommits(s) \/ WorkerCommits(s)
  \/ \E c \in Cases : Patch(c) \/ Delete(c) \/ DeleteBrief(c)

Spec == Init /\ [][Next]_vars

-----------------------------------------------------------------------------
(* Properties.                                                             *)

\* Wherever a commit cuts execute_investigation off, it stores a completed
\* investigation only whole: every step completed, the brief in the same commit and
\* a result that is the one of its last step, unless another execution has
\* committed a result since this one loaded the row.  (PATCH may set any status.)
CompletedIsWhole ==
  [][\A c \in Cases, s \in Sessions :
       LET row == cases'[c]
           w == session[s]
       IN row.status = "completed" /\ cases[c].status # "completed" /\ session'[s] # w =>
            /\ w.case = c /\ \A k \in Steps : row.steps[k] = "completed"
            /\ w.loaded = cases[c].result => row.result # None /\ row.result = row.output
            /\ briefs'[c] = briefs[c] + 1]_vars
=============================================================================
