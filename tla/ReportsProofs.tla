----------------------------- MODULE ReportsProofs -----------------------------
(* Proofs about Reports, for any reports, requests and texts.              *)
EXTENDS Reports, TLAPS

\* A row is made of its five columns.
LEMMA RowOf ==
  ASSUME NEW a \in {"unused", "live", "deleted"}, NEW b \in Statuses,
         NEW c \in Texts \cup Drafts(TRUE), NEW d \in BOOLEAN, NEW e \in BOOLEAN
  PROVE  [state |-> a, status |-> b, text |-> c, approvedAt |-> d, publishedAt |-> e]
           \in ReportType
BY DEF ReportType

\* A row's columns, whichever values two copies of it have: Written stays in the type.
LEMMA WrittenType ==
  ASSUME NEW row \in ReportType, NEW copy \in ReportType, NEW image \in ReportType
  PROVE  /\ Written(row, copy, image) \in ReportType
         /\ Written(row, copy, image).state =
              (IF image.state # copy.state THEN image.state ELSE row.state)
         /\ Written(row, copy, image).status =
              (IF image.status # copy.status THEN image.status ELSE row.status)
         /\ Written(row, copy, image).text =
              (IF image.text # copy.text THEN image.text ELSE row.text)
         /\ Written(row, copy, image).publishedAt =
              (IF image.publishedAt # copy.publishedAt THEN image.publishedAt ELSE row.publishedAt)
<1>. DEFINE st == IF image.state # copy.state THEN image.state ELSE row.state
            status == IF image.status # copy.status THEN image.status ELSE row.status
            text == IF image.text # copy.text THEN image.text ELSE row.text
            approved == IF image.approvedAt # copy.approvedAt THEN image.approvedAt
                        ELSE row.approvedAt
            published == IF image.publishedAt # copy.publishedAt THEN image.publishedAt
                         ELSE row.publishedAt
<1>1. DOMAIN row = {"state", "status", "text", "approvedAt", "publishedAt"}
  BY DEF ReportType
<1>2. Written(row, copy, image) = [state |-> st, status |-> status, text |-> text,
                                   approvedAt |-> approved, publishedAt |-> published]
  BY <1>1 DEF Written
<1>3. /\ st \in {"unused", "live", "deleted"}
      /\ status \in Statuses
      /\ text \in Texts \cup Drafts(TRUE)
      /\ approved \in BOOLEAN
      /\ published \in BOOLEAN
  BY DEF ReportType
<1>4. Written(row, copy, image) \in ReportType
  <2>. HIDE DEF st, status, text, approved, published
  <2>. QED BY <1>2, <1>3, RowOf
<1>. QED BY <1>2, <1>4

\* What a request makes of a live copy: each operation sets its own columns.
LEMMA ImageType ==
  ASSUME NEW row \in ReportType, row.state = "live",
         NEW op \in Operations, NEW value \in Values(op)
  PROVE  /\ Image(op, row, value) \in ReportType
         /\ op # "delete" => Image(op, row, value).state = "live"
         /\ op \notin {"publish", "delete"} =>
              Image(op, row, value).publishedAt = row.publishedAt
         /\ op \notin {"edit", "delete"} => Image(op, row, value).text = row.text
         /\ op \notin {"approve", "reject", "publish", "set status", "delete"} =>
              Image(op, row, value).status = row.status
         /\ op = "publish" => Image(op, row, value).status = "published"
<1>1. CASE op = "approve"
  BY <1>1 DEF Image, ReportType, Statuses
<1>2. CASE op = "reject"
  BY <1>2 DEF Image, ReportType, Statuses
<1>3. CASE op = "publish"
  BY <1>3 DEF Image, ReportType, Statuses
<1>4. CASE op = "edit"
  BY <1>4 DEF Image, ReportType, Given, Values
<1>5. CASE op = "set status"
  BY <1>5 DEF Image, ReportType, Given, Values
<1>6. CASE op = "delete"
  BY <1>6 DEF Image, ReportType, Deleted, Unused, Statuses, Drafts
<1>. QED BY <1>1, <1>2, <1>3, <1>4, <1>5, <1>6 DEF Operations

-----------------------------------------------------------------------------
(* The inductive invariant.                                                *)

RequestType == [op: Operations \cup {None}, report: ReportIds \cup {None},
                value: Texts \cup Statuses \cup {None}, copy: ReportType]

\* What a request works on is a live report's copy and a value that fits.
RequestsFit ==
  /\ request \in [Requests -> RequestType]
  /\ \A q \in Requests : request[q].op # None =>
       /\ request[q].report \in ReportIds
       /\ request[q].copy.state = "live"
       /\ request[q].value \in Values(request[q].op)

\* Whoever is about to publish has read an approved report, and approvals are noted.
ApprovalsAreNoted ==
  /\ \A r \in ReportIds : reports[r].status = "approved" => r \in wasApproved
  /\ \A q \in Requests : request[q].op = "publish" => request[q].report \in wasApproved

Stored == reports \in [ReportIds -> ReportType] /\ wasApproved \subseteq ReportIds

IInv == Stored /\ RequestsFit /\ ApprovalsAreNoted /\ PublishedWasApproved

LEMMA IInvGivesTypes == IInv => TypeOK
BY DEF IInv, TypeOK, Stored, RequestsFit, RequestType

LEMMA BlankTypes ==
  /\ Unused \in ReportType /\ Deleted \in ReportType
  /\ \A text \in Drafts(TRUE) : [Unused EXCEPT !.state = "live", !.text = text] \in ReportType
BY DEF Unused, Deleted, ReportType, Statuses, Drafts

\* There is no report and no request.
LEMMA InitIInv == Init => IInv
<1>. SUFFICES ASSUME Init PROVE IInv
  OBVIOUS
<1>1. Quiet \in RequestType
  BY BlankTypes DEF Quiet, RequestType
<1>2. Stored
  BY BlankTypes DEF Init, Stored
<1>3. RequestsFit
  BY <1>1 DEF Init, RequestsFit, Quiet
<1>4. ApprovalsAreNoted /\ PublishedWasApproved
  BY DEF Init, ApprovalsAreNoted, PublishedWasApproved, Unused, Quiet, None
<1>. QED BY <1>2, <1>3, <1>4 DEF IInv

\* A generation only adds a report that is neither approved nor published.
LEMMA GenerateKeeps ==
  ASSUME IInv, NEW r \in ReportIds, Generate(r)
  PROVE  IInv'
<1>1. PICK text \in Drafts(TRUE) :
        reports' = [reports EXCEPT ![r] = [Unused EXCEPT !.state = "live", !.text = text]]
  BY DEF Generate, Drafts
<1>. DEFINE new == [Unused EXCEPT !.state = "live", !.text = text]
<1>3. new \in ReportType /\ new.status = "generated" /\ new.publishedAt = FALSE
  BY BlankTypes DEF Unused
<1>4. UNCHANGED <<request, wasApproved>>
  BY DEF Generate
<1>. HIDE DEF new
<1>5. Stored'
  BY <1>1, <1>3, <1>4 DEF IInv, Stored, new
<1>6. RequestsFit'
  BY <1>4 DEF IInv, RequestsFit
<1>7. \A x \in ReportIds : reports'[x] = IF x = r THEN new ELSE reports[x]
  BY <1>1 DEF IInv, Stored, new
<1>8. ApprovalsAreNoted' /\ PublishedWasApproved'
  BY <1>3, <1>4, <1>7 DEF IInv, ApprovalsAreNoted, PublishedWasApproved
<1>. QED BY <1>5, <1>6, <1>8 DEF IInv

\* A request begins with a copy of what is stored; publishing, of what is approved.
LEMMA ReadKeeps ==
  ASSUME IInv, NEW q \in Requests, NEW op \in Operations, NEW r \in ReportIds, Read(q, op, r)
  PROVE  IInv'
<1>1. PICK v \in Values(op) :
        request' = [request EXCEPT ![q] = [op |-> op, report |-> r, value |-> v,
                                           copy |-> reports[r]]]
  BY DEF Read
<1>2. /\ UNCHANGED <<reports, wasApproved>>
      /\ reports[r].state = "live" /\ (op = "publish" => reports[r].status = "approved")
  BY DEF Read, MayStart
<1>. DEFINE new == [op |-> op, report |-> r, value |-> v, copy |-> reports[r]]
<1>3. v \in Texts \cup Statuses \cup {None}
  BY DEF Values, Operations
<1>4. reports[r] \in ReportType
  BY DEF IInv, Stored
<1>5. new \in RequestType
  BY <1>3, <1>4 DEF RequestType
<1>6. /\ new.op = op /\ new.report = r /\ new.value = v /\ new.copy = reports[r]
  OBVIOUS
<1>. HIDE DEF new
<1>7. request' \in [Requests -> RequestType]
  BY <1>1, <1>5 DEF IInv, RequestsFit, new
<1>8. \A p \in Requests : request'[p] = IF p = q THEN new ELSE request[p]
  BY <1>1 DEF IInv, RequestsFit, new
<1>9. RequestsFit'
  BY <1>2, <1>6, <1>7, <1>8 DEF IInv, RequestsFit
<1>10. ApprovalsAreNoted'
  BY <1>2, <1>6, <1>8 DEF IInv, ApprovalsAreNoted
<1>11. Stored' /\ PublishedWasApproved'
  BY <1>2 DEF IInv, Stored, PublishedWasApproved
<1>. QED BY <1>9, <1>10, <1>11 DEF IInv

\* A request that fails leaves everything as it was.
LEMMA FailKeeps ==
  ASSUME IInv, NEW q \in Requests, Fail(q)
  PROVE  IInv'
<1>1. request' = [request EXCEPT ![q] = Quiet] /\ UNCHANGED <<reports, wasApproved>>
  BY DEF Fail
<1>2. Quiet \in RequestType /\ Quiet.op = None
  BY BlankTypes DEF Quiet, RequestType
<1>3. /\ request' \in [Requests -> RequestType]
      /\ \A p \in Requests : request'[p] = IF p = q THEN Quiet ELSE request[p]
  BY <1>1, <1>2 DEF IInv, RequestsFit
<1>4. RequestsFit'
  BY <1>2, <1>3 DEF IInv, RequestsFit
<1>5. ApprovalsAreNoted'
  BY <1>1, <1>2, <1>3 DEF IInv, ApprovalsAreNoted, None
<1>6. Stored' /\ PublishedWasApproved'
  BY <1>1 DEF IInv, Stored, PublishedWasApproved
<1>. QED BY <1>4, <1>5, <1>6 DEF IInv

\* What a write leaves of its report, whatever others have written since it was read.
LEMMA WriteMakes ==
  ASSUME IInv, NEW q \in Requests, Write(q)
  PROVE  LET w == request[q]
             before == reports[w.report]
             after == reports'[w.report]
         IN /\ w.op \in Operations /\ w.report \in ReportIds /\ after \in ReportType
            /\ \A r \in ReportIds \ {w.report} : reports'[r] = reports[r]
            /\ wasApproved' = IF after.status = "approved" THEN wasApproved \cup {w.report}
                              ELSE wasApproved
            /\ w.op = "delete" => after = Deleted
            /\ w.op # "delete" =>
                 /\ w.op # "publish" => after.publishedAt = before.publishedAt
                 /\ w.op # "edit" => after.text = before.text
                 /\ w.op \notin {"approve", "reject", "publish", "set status"} =>
                      after.status = before.status
<1>. DEFINE w == request[q]
            image == Image(w.op, w.copy, w.value)
            row == Written(reports[w.report], w.copy, image)
<1>1. w \in RequestType /\ w.op # None
  BY DEF IInv, RequestsFit, Write
<1>2. /\ w.op \in Operations /\ w.report \in ReportIds /\ w.value \in Values(w.op)
      /\ w.copy \in ReportType /\ w.copy.state = "live"
  BY <1>1 DEF IInv, RequestsFit, RequestType
<1>3. reports[w.report] \in ReportType
  BY <1>2 DEF IInv, Stored
<1>4. /\ image \in ReportType
      /\ w.op \notin {"publish", "delete"} => image.publishedAt = w.copy.publishedAt
      /\ w.op \notin {"edit", "delete"} => image.text = w.copy.text
      /\ w.op \notin {"approve", "reject", "publish", "set status", "delete"} =>
           image.status = w.copy.status
  BY <1>2, ImageType
<1>5. /\ reports' = [reports EXCEPT ![w.report] = IF w.op = "delete" THEN Deleted ELSE row]
      /\ wasApproved' = IF (IF w.op = "delete" THEN Deleted ELSE row).status = "approved"
                        THEN wasApproved \cup {w.report} ELSE wasApproved
  BY DEF Write
<1>. HIDE DEF image, w
<1>6. /\ row \in ReportType
      /\ row.status = (IF image.status # w.copy.status THEN image.status
                       ELSE reports[w.report].status)
      /\ row.text = (IF image.text # w.copy.text THEN image.text ELSE reports[w.report].text)
      /\ row.publishedAt = (IF image.publishedAt # w.copy.publishedAt THEN image.publishedAt
                            ELSE reports[w.report].publishedAt)
  <2>1. PICK b \in ReportType : b = reports[w.report]
    BY <1>3
  <2>2. PICK c \in ReportType : c = w.copy
    BY <1>2
  <2>3. PICK i \in ReportType : i = image
    BY <1>4
  <2>4. row = Written(b, c, i)
    BY <2>1, <2>2, <2>3
  <2>5. /\ Written(b, c, i) \in ReportType
        /\ Written(b, c, i).status = (IF i.status # c.status THEN i.status ELSE b.status)
        /\ Written(b, c, i).text = (IF i.text # c.text THEN i.text ELSE b.text)
        /\ Written(b, c, i).publishedAt =
             (IF i.publishedAt # c.publishedAt THEN i.publishedAt ELSE b.publishedAt)
    BY WrittenType
  <2>. HIDE DEF row
  <2>. QED BY <2>1, <2>2, <2>3, <2>4, <2>5
<1>. HIDE DEF row
<1>7. /\ reports'[w.report] = (IF w.op = "delete" THEN Deleted ELSE row)
      /\ \A r \in ReportIds \ {w.report} : reports'[r] = reports[r]
  BY <1>2, <1>5 DEF IInv, Stored
<1>8. /\ reports'[w.report] \in ReportType
      /\ wasApproved' = IF reports'[w.report].status = "approved"
                        THEN wasApproved \cup {w.report} ELSE wasApproved
  BY <1>5, <1>6, <1>7, BlankTypes
<1>9. w.op # "delete" =>
        /\ w.op # "publish" => reports'[w.report].publishedAt = reports[w.report].publishedAt
        /\ w.op # "edit" => reports'[w.report].text = reports[w.report].text
        /\ w.op \notin {"approve", "reject", "publish", "set status"} =>
             reports'[w.report].status = reports[w.report].status
  BY <1>4, <1>6, <1>7
<1>. QED BY <1>2, <1>7, <1>8, <1>9 DEF w

\* A write keeps the invariant: only publishing sets published_at, on what was approved.
LEMMA WriteKeeps ==
  ASSUME IInv, NEW q \in Requests, Write(q)
  PROVE  IInv'
<1>. DEFINE w == request[q]
            after == reports'[w.report]
<1>1. /\ w.op \in Operations /\ w.report \in ReportIds /\ after \in ReportType
      /\ \A r \in ReportIds \ {w.report} : reports'[r] = reports[r]
      /\ wasApproved' = IF after.status = "approved" THEN wasApproved \cup {w.report}
                        ELSE wasApproved
      /\ w.op = "delete" => after = Deleted
      /\ w.op \notin {"publish", "delete"} =>
           after.publishedAt = reports[w.report].publishedAt
  BY WriteMakes
<1>2. request' = [request EXCEPT ![q] = Quiet]
  BY DEF Write
<1>3. Quiet \in RequestType /\ Quiet.op = None
  BY BlankTypes DEF Quiet, RequestType
<1>4. /\ request' \in [Requests -> RequestType]
      /\ \A p \in Requests : request'[p] = IF p = q THEN Quiet ELSE request[p]
  BY <1>2, <1>3 DEF IInv, RequestsFit
<1>5. Deleted.publishedAt = FALSE
  BY DEF Deleted, Unused
<1>6. w.op = "publish" => w.report \in wasApproved
  BY DEF IInv, ApprovalsAreNoted
<1>7. DOMAIN reports' = ReportIds /\ reports' = [r \in ReportIds |-> reports'[r]]
  BY DEF Write, IInv, Stored
<1>. HIDE DEF w
<1>8. wasApproved \subseteq wasApproved' /\ wasApproved' \subseteq ReportIds
  BY <1>1 DEF IInv, Stored
<1>9. Stored'
  <2>1. \A r \in ReportIds : reports'[r] \in ReportType
    BY <1>1 DEF IInv, Stored
  <2>. QED BY <2>1, <1>7, <1>8 DEF Stored
<1>10. RequestsFit'
  BY <1>3, <1>4 DEF IInv, RequestsFit
<1>11. ApprovalsAreNoted'
  BY <1>1, <1>3, <1>4, <1>8 DEF IInv, ApprovalsAreNoted, None
<1>12. PublishedWasApproved'
  <2>1. after.publishedAt => w.report \in wasApproved'
    BY <1>1, <1>5, <1>6, <1>8 DEF IInv, PublishedWasApproved
  <2>. QED BY <2>1, <1>1, <1>8 DEF IInv, PublishedWasApproved
<1>. QED BY <1>9, <1>10, <1>11, <1>12 DEF IInv

\* Every step keeps the invariant.
LEMMA NextKeeps == IInv /\ [Next]_vars => IInv'
<1>. SUFFICES ASSUME IInv, [Next]_vars PROVE IInv'
  OBVIOUS
<1>1. CASE \E r \in ReportIds : Generate(r)
  BY <1>1, GenerateKeeps
<1>2. CASE \E q \in Requests, op \in Operations, r \in ReportIds : Read(q, op, r)
  BY <1>2, ReadKeeps
<1>3. CASE \E q \in Requests : Write(q)
  BY <1>3, WriteKeeps
<1>4. CASE \E q \in Requests : Fail(q)
  BY <1>4, FailKeeps
<1>5. CASE UNCHANGED vars
  BY <1>5 DEF vars, IInv, Stored, RequestsFit, ApprovalsAreNoted, PublishedWasApproved
<1>. QED BY <1>1, <1>2, <1>3, <1>4, <1>5 DEF Next

-----------------------------------------------------------------------------
(* The results.                                                            *)

LEMMA AlwaysIInv == Spec => []IInv
<1>. QED BY InitIInv, NextKeeps, PTL DEF Spec

\* The rows and the requests about them keep their types.
THEOREM ReportTypes == Spec => []TypeOK
<1>. QED BY AlwaysIInv, IInvGivesTypes, PTL

\* What publish_report has made public was approved, whatever overlapped with it.
THEOREM PublishesOnlyApproved == Spec => []PublishedWasApproved
<1>1. IInv => PublishedWasApproved
  BY DEF IInv
<1>. QED BY <1>1, AlwaysIInv, PTL

\* A step changes of a report what the request that takes it is about.
LEMMA StepIsItsOwn ==
  ASSUME IInv, Next, NEW r \in ReportIds, reports[r].state = "live", reports'[r].state = "live"
  PROVE  \E op \in Operations :
           /\ reports'[r] # reports[r] =>
                \E q \in Requests : request[q].op = op /\ request[q].report = r
                                    /\ request'[q].op = None
           /\ reports'[r].text # reports[r].text => op = "edit"
           /\ reports'[r].status # reports[r].status =>
                op \in {"approve", "reject", "publish", "set status"}
           /\ reports'[r].publishedAt # reports[r].publishedAt => op = "publish"
<1>1. CASE reports'[r] = reports[r]
  BY <1>1 DEF Operations
<1>2. CASE \E q \in Requests : Write(q) /\ request[q].report = r
  <2>1. PICK q \in Requests : Write(q) /\ request[q].report = r
    BY <1>2
  <2>2. /\ request[q].op \in Operations
        /\ request[q].op = "delete" => reports'[r] = Deleted
        /\ request[q].op # "delete" =>
             /\ request[q].op # "publish" => reports'[r].publishedAt = reports[r].publishedAt
             /\ request[q].op # "edit" => reports'[r].text = reports[r].text
             /\ request[q].op \notin {"approve", "reject", "publish", "set status"} =>
                  reports'[r].status = reports[r].status
    BY <2>1, WriteMakes
  <2>3. request[q].op # "delete"
    BY <2>2 DEF Deleted, Unused
  <2>4. request'[q].op = None
    BY <2>1 DEF Write, IInv, RequestsFit, Quiet
  <2>. QED BY <2>1, <2>2, <2>3, <2>4
<1>3. CASE \E q \in Requests : Write(q) /\ request[q].report # r
  <2>1. PICK q \in Requests : Write(q) /\ request[q].report # r
    BY <1>3
  <2>2. reports'[r] = reports[r]
    BY <2>1, WriteMakes
  <2>. QED BY <2>2, <1>1
<1>4. CASE \E x \in ReportIds : Generate(x)
  <2>1. PICK x \in ReportIds : Generate(x)
    BY <1>4
  <2>2. r # x
    BY <2>1 DEF Generate
  <2>3. reports'[r] = reports[r]
    BY <2>1, <2>2 DEF Generate, IInv, Stored
  <2>. QED BY <2>3, <1>1
<1>5. CASE UNCHANGED reports
  BY <1>1, <1>5
<1>. QED BY <1>1, <1>2, <1>3, <1>4, <1>5 DEF Next, Read, Fail

\* No request brings back what another has replaced, for any number of them.
THEOREM RequestsMindTheirOwn == Spec => OnlyItsOwn
<1>1. IInv /\ [Next]_vars =>
        [\A r \in ReportIds : reports[r].state = "live" /\ reports'[r].state = "live" =>
           \E op \in Operations :
             /\ reports'[r] # reports[r] =>
                  \E q \in Requests : request[q].op = op /\ request[q].report = r
                                      /\ request'[q].op = None
             /\ reports'[r].text # reports[r].text => op = "edit"
             /\ reports'[r].status # reports[r].status =>
                  op \in {"approve", "reject", "publish", "set status"}
             /\ reports'[r].publishedAt # reports[r].publishedAt => op = "publish"]_vars
  BY StepIsItsOwn
<1>. QED BY <1>1, AlwaysIInv, PTL DEF Spec, OnlyItsOwn
================================================================================
