-------------------------------- MODULE Reports --------------------------------
(***************************************************************************)
(* Reports: generation, approval, rejection, publication, edits, deletion. *)
(*                                                                         *)
(* A request reads its report and writes it later; requests overlap.  The  *)
(* statement and the commit that follows it are one step: nothing but the  *)
(* audit entry lies between them, and other writers of the row wait.       *)
(* What a brief says is left out; its text is a version of it.             *)
(***************************************************************************)
EXTENDS Naturals, FiniteSets, Rows

CONSTANTS
  ReportIds,   \* bound: reports generated
  Requests,    \* bound: requests at once
  Texts        \* what an edit may replace the text with

Statuses == {"generated", "approved", "published", "rejected"}
Operations == {"approve", "reject", "publish", "edit", "set status", "delete"}
None == "none"           \* a field the request leaves out

VARIABLES
  reports,      \* the rows
  request,      \* each request: what it does, and its copy of the report
  wasApproved   \* history: reports whose status has been "approved"

vars == <<reports, request, wasApproved>>

\* What stands under "Executive assessment" when a generation is done: the model's
\* words, or the placeholder when there is no provider or its answer is an error.
Drafts(provider) == IF provider THEN {"drafted", "undrafted"} ELSE {"undrafted"}

Unused == [state |-> "unused", status |-> "generated", text |-> "undrafted",
           approvedAt |-> FALSE, publishedAt |-> FALSE]
Deleted == [Unused EXCEPT !.state = "deleted"]

Quiet == [op |-> None, report |-> None, value |-> None, copy |-> Unused]

ReportType ==
  [state: {"unused", "live", "deleted"}, status: Statuses, text: Texts \cup Drafts(TRUE),
   approvedAt: BOOLEAN, publishedAt: BOOLEAN]

TypeOK ==
  /\ reports \in [ReportIds -> ReportType]
  /\ wasApproved \subseteq ReportIds
  /\ \A q \in Requests :
       /\ request[q].op \in Operations \cup {None}
       /\ request[q].copy \in ReportType
       /\ request[q].op # None =>
            request[q].report \in ReportIds /\ request[q].copy.state = "live"

Init ==
  /\ reports = [r \in ReportIds |-> Unused]
  /\ request = [q \in Requests |-> Quiet]
  /\ wasApproved = {}

-----------------------------------------------------------------------------
(* Generation.                                                             *)

\* The API, the job daily_brief_generation and the worker all come here.  What is
\* read for the sections, and the copy in object storage, which may fail alone,
\* are left out; a brief without the scope it needs is refused.
Generate(r) ==
  /\ reports[r].state = "unused"
  /\ \E provider \in BOOLEAN : \E text \in Drafts(provider) :
       reports' = [reports EXCEPT ![r] = [Unused EXCEPT !.state = "live", !.text = text]]
  /\ UNCHANGED <<request, wasApproved>>

-----------------------------------------------------------------------------
(* Requests about one report.                                              *)

\* Mutant of MayStart: publishing tests no status.
MayStartAny(op, row) == row.state = "live"

\* Publishing alone looks at the status; approving and rejecting do not.
MayStart(op, row) ==
  /\ row.state = "live"
  /\ op = "publish" => row.status = "approved"

\* The values a request may carry.
Values(op) ==
  CASE op = "edit" -> Texts
    [] op = "set status" -> Statuses
    [] OTHER -> {None}

\* The request has read the report (and for publishing, its status).
Read(q, op, r) ==
  /\ request[q].op = None
  /\ MayStart(op, reports[r])
  /\ \E v \in Values(op) :
       request' = [request EXCEPT ![q] = [op |-> op, report |-> r, value |-> v,
                                          copy |-> reports[r]]]
  /\ UNCHANGED <<reports, wasApproved>>

\* What the request makes of its copy.
Image(op, row, value) ==
  CASE op = "approve" -> [row EXCEPT !.status = "approved", !.approvedAt = TRUE]
    [] op = "reject" -> [row EXCEPT !.status = "rejected"]
    [] op = "publish" -> [row EXCEPT !.status = "published", !.publishedAt = TRUE]
    [] op = "edit" -> Given(row, "text", value)
    [] op = "set status" -> Given(row, "status", value)
    [] op = "delete" -> Deleted

\* It writes the columns it changed and commits.
Write(q) ==
  LET w == request[q]
      row == Written(reports[w.report], w.copy, Image(w.op, w.copy, w.value))
      after == IF w.op = "delete" THEN Deleted ELSE row
  IN /\ w.op # None
     /\ reports[w.report].state = "live"
     /\ reports' = [reports EXCEPT ![w.report] = after]
     /\ wasApproved' = IF after.status = "approved"
                       THEN wasApproved \cup {w.report} ELSE wasApproved
     /\ request' = [request EXCEPT ![q] = Quiet]

\* The report is gone when the statement runs, or the request ends in another
\* error or with the process: nothing is written.
Fail(q) ==
  /\ request[q].op # None
  /\ request' = [request EXCEPT ![q] = Quiet]
  /\ UNCHANGED <<reports, wasApproved>>

Next ==
  \/ \E r \in ReportIds : Generate(r)
  \/ \E q \in Requests, op \in Operations, r \in ReportIds : Read(q, op, r)
  \/ \E q \in Requests : Write(q) \/ Fail(q)

Spec == Init /\ [][Next]_vars

-----------------------------------------------------------------------------
(* Properties.                                                             *)

\* Whatever overlaps with it, what is marked as published has been approved:
\* publish_report tests the status it read, and no other request sets
\* published_at.  (It may have been rejected since the test.)
PublishedWasApproved ==
  \A r \in ReportIds : reports[r].publishedAt => r \in wasApproved

\* A request changes only what it is about: a decision that was read before an
\* edit does not bring the old text back, and an edit undoes no decision.
OnlyItsOwn ==
  [][\A r \in ReportIds : reports[r].state = "live" /\ reports'[r].state = "live" =>
       \E op \in Operations :
         /\ reports'[r] # reports[r] =>
              \E q \in Requests : request[q].op = op /\ request[q].report = r
                                  /\ request'[q].op = None
         /\ reports'[r].text # reports[r].text => op = "edit"
         /\ reports'[r].status # reports[r].status =>
              op \in {"approve", "reject", "publish", "set status"}
         /\ reports'[r].publishedAt # reports[r].publishedAt => op = "publish"]_vars
=============================================================================
