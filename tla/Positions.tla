------------------------------- MODULE Positions -------------------------------
(***************************************************************************)
(* Analysts' positions on a subject and the list of disagreements.         *)
(*                                                                         *)
(* A request looks for its analyst's row and then writes it; two requests  *)
(* of one analyst may overlap.  Only a first position is ever stored: the  *)
(* answer to a request that has changed a row reads updated_at, which the  *)
(* UPDATE has expired, and this load fails and rolls the revision back.    *)
(* Confidence, rationale and the evidence bundle are written like the      *)
(* score and are left out.                                                 *)
(***************************************************************************)
EXTENDS FiniteSetsExt, Integers

CONSTANTS
  Analysts,
  Requests,    \* bound: positions recorded at once
  Scores,      \* scores an analyst may give, in 0..100
  Threshold    \* spread of scores that counts as disagreement

None == "none"
NoScore == -1
Stances == {"supports", "disputes", None}     \* bound: two stances

VARIABLES
  positions,   \* the row of each analyst on the subject
  recording    \* each request: whose position, whether a row of it was found, and what
               \* will be written

vars == <<positions, recording>>

Absent == [state |-> "absent", stance |-> None, score |-> NoScore]
Position(stance, score) == [state |-> "stored", stance |-> stance, score |-> score]

PositionType ==
  [state: {"absent", "stored"}, stance: Stances, score: Scores \cup {NoScore}]

Quiet == [analyst |-> None, found |-> FALSE, position |-> Absent]

TypeOK ==
  /\ positions \in [Analysts -> PositionType]
  /\ \A q \in Requests :
       /\ recording[q].analyst \in Analysts \cup {None}
       /\ recording[q].found \in BOOLEAN
       /\ recording[q].position \in PositionType

Init ==
  /\ positions = [a \in Analysts |-> Absent]
  /\ recording = [q \in Requests |-> Quiet]

\* The request has looked for a row of the analyst.
Find(q, a) ==
  /\ recording[q].analyst = None
  /\ \E stance \in Stances, score \in Scores \cup {NoScore} :
       recording' = [recording EXCEPT ![q] =
         [analyst |-> a, found |-> positions[a].state = "stored",
          position |-> Position(stance, score)]]
  /\ UNCHANGED positions

\* A row that was not found is inserted, unless another request has done it since:
\* the unique constraint on subject and analyst makes this one fail.
Record(q) ==
  LET a == recording[q].analyst
  IN /\ a # None /\ ~recording[q].found
     /\ positions[a].state = "absent"
     /\ positions' = [positions EXCEPT ![a] = recording[q].position]
     /\ recording' = [recording EXCEPT ![q] = Quiet]

\* A row that was found: no column differs and nothing is written, or one does and
\* the revision is rolled back.  Or the constraint, another error, the end of the
\* process.
Leave(q) ==
  /\ recording[q].analyst # None
  /\ recording' = [recording EXCEPT ![q] = Quiet]
  /\ UNCHANGED positions

Next ==
  \/ \E q \in Requests, a \in Analysts : Find(q, a)
  \/ \E q \in Requests : Record(q) \/ Leave(q)

Spec == Init /\ [][Next]_vars

-----------------------------------------------------------------------------
(* Two tests for disagreement: in Python, and in the list's query.         *)

Stored == {a \in Analysts : positions[a].state = "stored"}
Taken == {positions[a].stance : a \in Stored} \ {None}
Scored == {a \in Stored : positions[a].score # NoScore}
Spread == LET scores == {positions[a].score : a \in Scored} IN Max(scores) - Min(scores)

ClassifyDisagreement ==
  \/ Cardinality(Taken) >= 2
  \/ Cardinality(Scored) >= 2 /\ Spread >= Threshold

\* Mutant of Listed: NULL counts as a stance of its own.
ListedWithNull ==
  \/ Cardinality({positions[a].stance : a \in Stored}) >= 2
  \/ Scored # {} /\ Spread >= Threshold

\* COUNT(DISTINCT) leaves NULL out; MAX and MIN of no score are NULL, of one score
\* they are equal, which a threshold of 0 lets through.
Listed ==
  \/ Cardinality(Taken) >= 2
  \/ Scored # {} /\ Spread >= Threshold

-----------------------------------------------------------------------------
(* Properties.                                                             *)

\* Whatever positions analysts have recorded, with or without a stance and a score,
\* the query of list_disagreements names the subject exactly when
\* classify_disagreement says there is one (for thresholds of 1 or more).
DisagreementsAgree == Listed <=> ClassifyDisagreement
=============================================================================
