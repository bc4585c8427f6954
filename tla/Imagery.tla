-------------------------------- MODULE Imagery --------------------------------
(***************************************************************************)
(* Imagery evidence: submission, edits, links to bundles, deletion.        *)
(*                                                                         *)
(* A submission fetches the image, looks for its content among the         *)
(* committed rows and inserts a row.  In between it calls an object        *)
(* storage that stores nothing (put_bytes is `pass`), so that the bytes    *)
(* are gone and no state of the model stands for them.  The analysis does  *)
(* not run: neither the task it starts nor /analyze nor the worker's       *)
(* module can import what they call, so set_analysis has no caller and     *)
(* only a user changes the status.                                         *)
(***************************************************************************)
EXTENDS FiniteSets

CONSTANTS
  ImageIds,   \* bound: images
  Contents,   \* what a URL may hold
  Bundles,    \* evidence bundles
  Requests    \* bound: submissions at once

VerificationStatuses == {"unreviewed", "confirmed"}   \* two of the enumeration
None == "none"

VARIABLES
  images,       \* the rows, with the images that were committed at their look-up (history)
  items,        \* evidence_bundle_imagery_items: <<bundle, image>>
  submission    \* each submission: how far it is, what it fetched and saw

vars == <<images, items, submission>>

Unused == [state |-> "unused", content |-> None, status |-> "unreviewed", seen |-> {}]
Deleted == [Unused EXCEPT !.state = "deleted"]
Quiet == [stage |-> "none", content |-> None, seen |-> {}]

TypeOK ==
  /\ \A i \in ImageIds :
       /\ images[i].state \in {"unused", "live", "deleted"}
       /\ images[i].status \in VerificationStatuses
       /\ images[i].seen \subseteq ImageIds
       /\ images[i].state = "live" => images[i].content \in Contents
  /\ items \subseteq Bundles \X {i \in ImageIds : images[i].state = "live"}
  /\ \A q \in Requests :
       /\ submission[q].stage \in {"none", "fetched", "new"}
       /\ submission[q].stage # "none" => submission[q].content \in Contents

Init ==
  /\ images = [i \in ImageIds |-> Unused]
  /\ items = {}
  /\ submission = [q \in Requests |-> Quiet]

Live == {i \in ImageIds : images[i].state = "live"}
Fresh == {i \in ImageIds : images[i].state = "unused"}

-----------------------------------------------------------------------------
(* Submission.                                                             *)

\* The URL is permitted and the fetch succeeds.
Fetch(q, content) ==
  /\ submission[q].stage = "none"
  /\ submission' = [submission EXCEPT ![q] = [Quiet EXCEPT !.stage = "fetched",
                                                           !.content = content]]
  /\ UNCHANGED <<images, items>>

\* Mutant of SameContent: images that were reviewed are not looked at.
SameContentUnreviewed(content) ==
  {i \in Live : images[i].content = content /\ images[i].status = "unreviewed"}

SameContent(content) == {i \in Live : images[i].content = content}

\* A content that is known is answered with its image, and nothing is written.
LookUp(q) ==
  /\ submission[q].stage = "fetched"
  /\ submission' = [submission EXCEPT ![q] =
       IF SameContent(@.content) # {} THEN Quiet ELSE [@ EXCEPT !.stage = "new", !.seen = Live]]
  /\ UNCHANGED <<images, items>>

\* The row is inserted, the analysis started in vain, the request committed.
Store(q) ==
  /\ submission[q].stage = "new" /\ Fresh # {}
  /\ images' = [images EXCEPT ![CHOOSE i \in Fresh : TRUE] = [Unused EXCEPT !.state = "live",
                  !.content = submission[q].content, !.seen = submission[q].seen]]
  /\ submission' = [submission EXCEPT ![q] = Quiet]
  /\ UNCHANGED items

\* An error, or the end of the process.
Fail(q) ==
  /\ submission[q].stage # "none"
  /\ submission' = [submission EXCEPT ![q] = Quiet]
  /\ UNCHANGED <<images, items>>

-----------------------------------------------------------------------------
(* Requests about an image.                                                *)

Patch(i) ==
  /\ images[i].state = "live"
  /\ \E status \in VerificationStatuses : images' = [images EXCEPT ![i].status = status]
  /\ UNCHANGED <<items, submission>>

\* The key of a bundle's item is the pair: a second link fails.
LinkToBundle(i, b) ==
  /\ images[i].state = "live" /\ <<b, i>> \notin items
  /\ items' = items \cup {<<b, i>>}
  /\ UNCHANGED <<images, submission>>

\* Mutant of Delete: the links are not deleted with the row.
DeleteKeepsLinks(i) ==
  /\ images[i].state = "live"
  /\ images' = [images EXCEPT ![i] = Deleted]
  /\ UNCHANGED <<items, submission>>

\* The links go with the row (CASCADE).
Delete(i) ==
  /\ images[i].state = "live"
  /\ images' = [images EXCEPT ![i] = Deleted]
  /\ items' = {x \in items : x[2] # i}
  /\ UNCHANGED submission

Next ==
  \/ \E q \in Requests, content \in Contents : Fetch(q, content)
  \/ \E q \in Requests : LookUp(q) \/ Fail(q) \/ Store(q)
  \/ \E i \in ImageIds : Patch(i) \/ Delete(i) \/ \E b \in Bundles : LinkToBundle(i, b)

Spec == Init /\ [][Next]_vars

-----------------------------------------------------------------------------
(* Properties.                                                             *)

\* Only a race makes two images of one content: neither was committed when the
\* other was looked for.  (No constraint forbids the second row.)
DuplicatesOverlap ==
  \A i, j \in Live :
    i # j /\ images[i].content = images[j].content => i \notin images[j].seen
=============================================================================
