----------------------------- MODULE Relationships -----------------------------
(***************************************************************************)
(* Relationships of actors: creation, dated observations, deletion with an *)
(* actor, and what is read from them: the actor graph and comparisons.     *)
(*                                                                         *)
(* Relationships are numbered in the order their transactions began, which *)
(* is the order of created_at.  One dimension stands for the eleven scores.*)
(***************************************************************************)
EXTENDS Integers, FiniteSetsExt

CONSTANTS
  Actors,
  Types,              \* relationship types
  MaxRelationships,   \* bound: creations begun
  MaxTime,            \* bound: observations begun
  Scores              \* what an analyst may score, in 0..100

NoScore == -1
DefaultWeight == 1
Ids == 1..MaxRelationships
Pairs == {{a, b} : a, b \in Actors}      \* also an actor with itself

VARIABLES
  relationships,   \* the rows
  observations,    \* of each relationship: its scores, each with its observed_at
  creating,        \* creations that found no relationship of the pair and type
  assessing,       \* observations stamped and not yet committed
  started,         \* creations begun
  clock,
  graph,           \* a graph being built, with what its edges could say (history)
  comparison       \* a comparison between its two reads, and its answer

vars == <<relationships, observations, creating, assessing, started, clock, graph, comparison>>

Unused == [state |-> "unused", pair |-> {}, type |-> "none"]
NoGraph == [stage |-> "none", todo |-> {}, edges |-> [p \in {} |-> 0], seen |-> [r \in {} |-> {}]]
NoObservation == [at |-> 0, score |-> NoScore]
NoComparison == [stage |-> "none", id |-> 0, current |-> NoObservation,
                 previous |-> NoObservation]

Live == {r \in Ids : relationships[r].state = "live"}
Observation == [at: 0..MaxTime, score: Scores \cup {NoScore}]

TypeOK ==
  /\ \A r \in Ids :
       /\ relationships[r].state \in {"unused", "live", "deleted"}
       /\ r \in Live => relationships[r].pair \in Pairs /\ relationships[r].type \in Types
       /\ observations[r] \subseteq Observation
       /\ r \notin Live => observations[r] = {}
  /\ \A c \in creating : c.id \in 1..started /\ c.pair \in Pairs /\ c.type \in Types
  /\ assessing \subseteq [id: Ids, at: 1..clock]
  /\ started \in 0..MaxRelationships /\ clock \in 0..MaxTime
  /\ graph.stage \in {"none", "building", "built"}
  /\ DOMAIN graph.edges \subseteq Pairs
  /\ comparison.stage \in {"none", "current", "answered"}
  /\ {comparison.current, comparison.previous} \subseteq Observation

Init ==
  /\ relationships = [r \in Ids |-> Unused]
  /\ observations = [r \in Ids |-> {}]
  /\ creating = {} /\ assessing = {}
  /\ started = 0 /\ clock = 0
  /\ graph = NoGraph
  /\ comparison = NoComparison

\* Mutant of Latest: the first observation.
LatestFirst(set) ==
  IF set = {} THEN NoObservation ELSE CHOOSE o \in set : \A other \in set : o.at <= other.at

\* By observed_at, descending; NoObservation when there is none.
Latest(set) ==
  IF set = {} THEN NoObservation ELSE CHOOSE o \in set : \A other \in set : other.at <= o.at

Weight(o) == IF o.score = NoScore THEN DefaultWeight ELSE o.score

-----------------------------------------------------------------------------
(* Writers.                                                                *)

\* The pair in either order.
Between(pair, type) ==
  {r \in Live : relationships[r].pair = pair /\ relationships[r].type = type}

\* A relationship of the pair and type is returned as it is: nothing is written.
BeginCreation(pair, type) ==
  /\ started < MaxRelationships
  /\ Between(pair, type) = {}
  /\ started' = started + 1
  /\ creating' = creating \cup {[id |-> started', pair |-> pair, type |-> type]}
  /\ UNCHANGED <<relationships, observations, assessing, clock, graph, comparison>>

\* No constraint keeps a second one out.
Create(c) ==
  /\ creating' = creating \ {c}
  /\ relationships' = [relationships EXCEPT ![c.id] =
       [state |-> "live", pair |-> c.pair, type |-> c.type]]
  /\ UNCHANGED <<observations, assessing, started, clock, graph, comparison>>

BeginObservation(r) ==
  /\ r \in Live /\ clock < MaxTime
  /\ clock' = clock + 1
  /\ assessing' = assessing \cup {[id |-> r, at |-> clock']}
  /\ UNCHANGED <<relationships, observations, creating, started, graph, comparison>>

\* A graph under way notes what the edges of its relationships could say.
Notes(after) ==
  IF graph.stage # "building" THEN graph
  ELSE [graph EXCEPT !.seen = [r \in DOMAIN @ |->
          @[r] \cup {Weight(o) : o \in {x \in after[r] : \A y \in after[r] : y.at <= x.at}}
               \cup IF after[r] = {} THEN {DefaultWeight} ELSE {}]]

\* Appended, and never revised; one stamped earlier may come later.
RecordObservation(a) ==
  /\ a.id \in Live
  /\ assessing' = assessing \ {a}
  /\ \E score \in Scores \cup {NoScore} :
       observations' = [observations EXCEPT ![a.id] = @ \cup {[at |-> a.at, score |-> score]}]
  /\ graph' = Notes(observations')
  /\ UNCHANGED <<relationships, creating, started, clock, comparison>>

\* The relationship is gone, another error, or the end of the process.
Fail ==
  /\ \/ \E c \in creating : creating' = creating \ {c} /\ UNCHANGED assessing
     \/ \E a \in assessing : assessing' = assessing \ {a} /\ UNCHANGED creating
  /\ UNCHANGED <<relationships, observations, started, clock, graph, comparison>>

\* The database deletes the actor's relationships, and their observations with
\* them; a creation that names the actor fails.  (The name may be used again.)
DeleteActor(actor) ==
  LET gone == {r \in Live : actor \in relationships[r].pair}
  IN /\ gone # {}
     /\ relationships' = [r \in Ids |->
          IF r \in gone THEN [relationships[r] EXCEPT !.state = "deleted"] ELSE relationships[r]]
     /\ observations' = [r \in Ids |-> IF r \in gone THEN {} ELSE observations[r]]
     /\ creating' = {c \in creating : actor \notin c.pair}
     /\ graph' = Notes(observations')
     /\ UNCHANGED <<assessing, started, clock, comparison>>

-----------------------------------------------------------------------------
(* The actor graph.                                                        *)

\* The list is newest first.  (Directions are dropped; the limit is 10,000.)
Newest(ids) == Max(ids)

List ==
  /\ graph.stage = "none" /\ comparison.stage = "none" /\ Live # {}
  /\ graph' = [NoGraph EXCEPT !.stage = "building", !.todo = Live,
       !.seen = [r \in Live |-> {Weight(Latest(observations[r]))}]]
  /\ UNCHANGED <<relationships, observations, creating, assessing, started, clock, comparison>>

\* One relationship's latest observation becomes the weight of its pair's edge; a
\* simple graph has one, so a relationship listed later takes it over.
AddEdge ==
  /\ graph.stage = "building"
  /\ LET r == Newest(graph.todo)
         weight == Weight(Latest(observations[r]))
         rest == graph.todo \ {r}
         pair == relationships[r].pair
     IN graph' = [graph EXCEPT
          !.todo = rest, !.stage = IF rest = {} THEN "built" ELSE "building",
          !.edges = [p \in DOMAIN @ \cup {pair} |->
                       IF p = pair THEN [id |-> r, weight |-> weight] ELSE @[p]]]
  /\ UNCHANGED <<relationships, observations, creating, assessing, started, clock, comparison>>

\* Centrality, a path, communities or the snapshot is computed from it.
Answer ==
  /\ graph.stage = "built"
  /\ graph' = NoGraph
  /\ UNCHANGED <<relationships, observations, creating, assessing, started, clock, comparison>>

-----------------------------------------------------------------------------
(* The comparison of a relationship's last two observations.               *)

ReadLatest(r) ==
  /\ comparison.stage = "none" /\ graph.stage = "none" /\ r \in Live
  /\ \E asOf \in 0..clock :
       LET known == {o \in observations[r] : o.at <= asOf}
       IN /\ known # {}
          /\ comparison' = [NoComparison EXCEPT !.stage = "current", !.id = r,
                                                !.current = Latest(known)]
  /\ UNCHANGED <<relationships, observations, creating, assessing, started, clock, graph>>

ReadPrevious ==
  /\ comparison.stage = "current"
  /\ comparison' = [comparison EXCEPT !.stage = "answered",
       !.previous = Latest({o \in observations[comparison.id] : o.at < comparison.current.at})]
  /\ UNCHANGED <<relationships, observations, creating, assessing, started, clock, graph>>

\* A missing score is taken as 0 now, and as unknown before.
Trend(current, previous) ==
  LET score == IF current.score = NoScore THEN 0 ELSE current.score
  IN CASE previous.score = NoScore -> "stable"
       [] previous.score # NoScore /\ score - previous.score > 2 -> "rising"
       [] previous.score # NoScore /\ score - previous.score < -2 -> "falling"
       [] OTHER -> "stable"

Compared ==
  /\ comparison.stage = "answered"
  /\ comparison' = NoComparison
  /\ UNCHANGED <<relationships, observations, creating, assessing, started, clock, graph>>

\* (What a comparison answers is looked at before anything else is written; and one
\* request reads at a time, for readers do not affect each other.)
Next ==
  \/ /\ comparison.stage # "answered"
     /\ \/ \E pair \in Pairs, type \in Types : BeginCreation(pair, type)
        \/ \E c \in creating : Create(c)
        \/ \E r \in Ids : BeginObservation(r)
        \/ \E a \in assessing : RecordObservation(a)
        \/ \E actor \in Actors : DeleteActor(actor)
        \/ Fail
  \/ List \/ AddEdge \/ Answer
  \/ \E r \in Ids : ReadLatest(r)
  \/ ReadPrevious \/ Compared

Spec == Init /\ [][Next]_vars

-----------------------------------------------------------------------------
(* Properties.                                                             *)

Listed == DOMAIN graph.seen

\* While build_actor_graph reads one relationship after the other, observations are
\* recorded and actors deleted.  Each edge of the graph it builds belongs to the
\* oldest relationship of its pair, and its weight was that relationship's at some
\* time since the list was read.
EdgesAreTrue ==
  graph.stage = "built" =>
    /\ DOMAIN graph.edges = {relationships[r].pair : r \in Listed}
    /\ \A p \in DOMAIN graph.edges :
         LET edge == graph.edges[p]
         IN /\ edge.weight \in graph.seen[edge.id]
            /\ relationships[edge.id].pair = p
            /\ \A r \in Listed : relationships[r].pair = p => edge.id <= r

\* Whatever is recorded between the two reads of a comparison, the two observations
\* are neighbours and the trend has the sign of their difference.
ComparisonsAreTrue ==
  comparison.stage = "answered" =>
    LET previous == comparison.previous
        current == comparison.current
    IN /\ previous.at < current.at
       /\ ~\E o \in observations[comparison.id] : previous.at < o.at /\ o.at < current.at
       /\ (previous.score # NoScore /\ current.score # NoScore) =>
            /\ Trend(current, previous) = "rising" => previous.score < current.score
            /\ Trend(current, previous) = "falling" => current.score < previous.score

\* What is read from relationships while they change was true.
ReadsAreTrue == EdgesAreTrue /\ ComparisonsAreTrue
=============================================================================
