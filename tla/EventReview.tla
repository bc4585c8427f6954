------------------------------- MODULE EventReview -------------------------------
(***************************************************************************)
(* Events, the claims and evidence behind them, and the review queue in    *)
(* which analysts settle what extraction declined to decide.               *)
(*                                                                         *)
(* An analyst's request reads (Ask..., LoadClaim) and then writes and      *)
(* commits: other requests commit in between, every statement sees what is *)
(* committed by then, and no row is locked by the reads.  Extraction of an *)
(* event from a document is a transaction of the same shape: it looks for  *)
(* candidate events (Lookup) and later writes (Merge, StopAtNewEvent).     *)
(* What a write meets in the database is a foreign key, a primary key or a *)
(* row that is gone; each of them rolls the transaction back.              *)
(*                                                                         *)
(* Events, claims and items are numbered in order of creation.  Event      *)
(* types are reduced to "plain" and "grave" (is_high_impact_event holds),  *)
(* every event lies in the deduplication window of every other, and every  *)
(* mention has the same role: the key (event, actor, role) only tells      *)
(* links of one role apart, and the two actors of a claim are columns that *)
(* are written alike.                                                      *)
(***************************************************************************)
EXTENDS Naturals, Sequences, FiniteSets, Functions

CONSTANTS
  Actors,      \* rows of actors
  Grades,      \* event types, by what is_high_impact_event says of them
  Analysts,    \* bound: analyst requests at once
  Extractors,  \* bound: extraction transactions at once
  MaxEvents, MaxClaims, MaxItems, \* bounds on rows
  MaxWithdrawals \* bound: deletions of actors, claims and evidence

Nobody  == "nobody"
NoClaim == "no claim"

ASSUME EventReviewAssumption ==
  /\ Nobody \notin Actors /\ NoClaim \notin Actors
  /\ Grades \subseteq {"plain", "grave"}
  /\ MaxEvents \in Nat /\ MaxClaims \in Nat /\ MaxItems \in Nat /\ MaxWithdrawals \in Nat

VARIABLES
  actors,      \* the actors that have a row
  events, claims, items,
  request,     \* what each analyst's request has read
  extraction,  \* what each extraction has read
  withdrawn

vars == <<actors, events, claims, items, request, extraction, withdrawn>>

Active == {"extracted"}       \* "assessed" is active too, and never set
Settled == {"approved", "rejected"}

\* links: rows of event_actors.  History: `named` are the actors whom the documents
\* of the event name for sure, `traced` says that a claim on it once had evidence.
EventType == [grade: Grades, status: Active \cup Settled, links: SUBSET Actors,
              named: SUBSET Actors, traced: BOOLEAN]

NewEvent(grade, named) ==
  [grade |-> grade, status |-> "extracted", links |-> {}, named |-> named, traced |-> FALSE]

\* event = 0: the claim is about no event (event_id is NULL).
Claim(event, claimant, evidence) ==
  [live |-> TRUE, event |-> event, claimant |-> claimant, evidence |-> evidence]

\* The subject of an item is an event or a claim, the other is 0.  History:
\* `approvals` are the actors of the decisions that approved it, in their order.
Item(type, event, claim) ==
  [type |-> type, status |-> "pending", event |-> event, claim |-> claim,
   choice |-> Nobody, approvals |-> <<>>]

NoRequest == [op |-> "none", item |-> 0, event |-> 0, choice |-> Nobody, loaded |-> Nobody]
NoExtraction == [on |-> FALSE, grade |-> "plain", sure |-> {}, found |-> {}, known |-> {}]

TypeOK ==
  /\ actors \subseteq Actors
  /\ Len(events) <= MaxEvents /\ Len(claims) <= MaxClaims /\ Len(items) <= MaxItems
  /\ \A e \in DOMAIN events : events[e] \in EventType
  /\ \A c \in DOMAIN claims :
       claims[c] \in [live: BOOLEAN, event: {0} \cup DOMAIN events, claimant: Actors \cup {Nobody},
                      evidence: BOOLEAN]
  /\ \A i \in DOMAIN items :
       items[i] \in [type: {"entity", "duplicate", "grave"}, status: {"pending"} \cup Settled,
                     event: {0} \cup DOMAIN events, claim: {0} \cup DOMAIN claims,
                     choice: Actors \cup {Nobody}, approvals: Seq(Actors)]
  /\ \A a \in Analysts :
       /\ request[a].op \in {"resolve", "set", "acknowledge", "dismiss"} => request[a].item \in DOMAIN items
       /\ request[a].op \in {"approve", "reject"} => request[a].event \in DOMAIN events
  /\ \A x \in Extractors : extraction[x].found \subseteq DOMAIN events
  /\ withdrawn <= MaxWithdrawals

Init ==
  /\ actors = Actors
  /\ events = <<>> /\ claims = <<>> /\ items = <<>>
  /\ request = [a \in Analysts |-> NoRequest]
  /\ extraction = [x \in Extractors |-> NoExtraction]
  /\ withdrawn = 0

-----------------------------------------------------------------------------
(* Extraction of a document: one event or none, the actors it is sure of,  *)
(* and what it mentions vaguely: an actor of the event, the claimant of    *)
(* the claim.                                                              *)

\* find_candidates: active events of the type that share a sure actor.
Candidates(grade, sure) ==
  {e \in DOMAIN events : /\ events[e].grade = grade
                         /\ events[e].status \in Active
                         /\ events[e].links \cap sure # {}}

Lookup(x, grade, sure) ==
  /\ ~extraction[x].on
  /\ LET found == Candidates(grade, sure)
     IN extraction' = [extraction EXCEPT ![x] =
          [on |-> TRUE, grade |-> grade, sure |-> sure, found |-> found,
           known |-> IF Cardinality(found) = 1
                     THEN events[CHOOSE e \in found : TRUE].links ELSE {}]]
  /\ UNCHANGED <<actors, events, claims, items, request, withdrawn>>

\* Mutant of Queued: the claim of the item is not flushed yet and has no row.
QueuedUnflushed(vague, e, c) ==
     (IF "event" \in vague THEN <<Item("entity", e, 0)>> ELSE <<>>)
  \o (IF "claim" \in vague THEN <<Item("entity", 0, c + 1)>> ELSE <<>>)

\* What the vague mentions of a document leave to the analysts.
Queued(vague, e, c) ==
     (IF "event" \in vague THEN <<Item("entity", e, 0)>> ELSE <<>>)
  \o (IF "claim" \in vague THEN <<Item("entity", 0, c)>> ELSE <<>>)

Queue(vague, e) ==
  /\ items' = items \o Queued(vague, e, Len(claims) + 1)
  /\ Len(items') <= MaxItems

\* The claim of a document, with an excerpt as evidence.  Its claimant is an actor,
\* a vague mention or left out.
Claimed(event, claimant, vague) ==
  /\ "claim" \in vague => claimant = Nobody
  /\ claimant # NoClaim => Len(claims) < MaxClaims
  /\ claims' = IF claimant = NoClaim THEN claims ELSE Append(claims, Claim(event, claimant, TRUE))

\* An event with links to the actors of one more document and, perhaps, its claim.
Extended(event, new, named, claimed) ==
  [event EXCEPT !.links = @ \cup new, !.named = @ \cup named, !.traced = @ \/ claimed]

\* The only candidate is the event of the document: links it did not have at the
\* lookup are inserted, items queued for vague mentions, and the claim made.
Merge(x, claimant, vague) ==
  LET d   == extraction[x]
      e   == CHOOSE f \in d.found : TRUE
      new == d.sure \ d.known
  IN /\ d.on
     /\ Cardinality(d.found) = 1
     /\ new \subseteq actors
     /\ new \cap events[e].links = {}
     /\ Claimed(e, claimant, vague)
     /\ events' = [events EXCEPT ![e] = Extended(@, new, d.sure, claimant # NoClaim)]
     /\ Queue(vague, e)
     /\ extraction' = [extraction EXCEPT ![x] = NoExtraction]
     /\ UNCHANGED <<actors, request, withdrawn>>

\* Otherwise the event is new, and flagged when there are several candidates.  Its
\* relationship `actors` has never been loaded: reading it raises in an AsyncSession,
\* and neither links nor the claim are written.  The news job logs the exception and
\* commits what was flushed before it; the worker's task rolls back (ExtractionAborts).
StopAtNewEvent(x) ==
  LET d       == extraction[x]
      e       == Len(events) + 1
      flagged == Cardinality(d.found) > 1
  IN /\ d.on
     /\ Cardinality(d.found) # 1
     /\ e <= MaxEvents
     /\ flagged => Len(items) < MaxItems
     /\ events' = Append(events, NewEvent(d.grade, d.sure))
     /\ items' = IF flagged THEN Append(items, Item("duplicate", e, 0)) ELSE items
     /\ extraction' = [extraction EXCEPT ![x] = NoExtraction]
     /\ UNCHANGED <<actors, claims, request, withdrawn>>

\* A document in which no event was found, or none that its claim refers to.
ClaimWithoutEvent(claimant, vague) ==
  /\ claimant # NoClaim
  /\ Claimed(0, claimant, vague)
  /\ Queue(vague, 0)
  /\ UNCHANGED <<actors, events, request, extraction, withdrawn>>

\* A link exists already, an actor is gone, or the process dies.
ExtractionAborts(x) ==
  /\ extraction[x].on
  /\ extraction' = [extraction EXCEPT ![x] = NoExtraction]
  /\ UNCHANGED <<actors, events, claims, items, request, withdrawn>>

-----------------------------------------------------------------------------
(* Analysts' decisions.                                                    *)

\* What a request has read.
Holding(a, op, item, event, choice, loaded) ==
  /\ request' = [request EXCEPT ![a] = [op |-> op, item |-> item, event |-> event,
                                        choice |-> choice, loaded |-> loaded]]
  /\ UNCHANGED <<actors, events, claims, items, extraction, withdrawn>>

Ask(a, op, item, event, choice) ==
  /\ request[a] = NoRequest
  /\ Holding(a, op, item, event, choice, Nobody)

\* _require_pending, the type of the item and the actor are checked.
AskResolve(a, i, actor) ==
  /\ items[i].status = "pending"
  /\ items[i].type = "entity"
  /\ actor \in actors
  /\ Ask(a, "resolve", i, 0, actor)

\* A later statement loads the claim, as other decisions have left it by then.
LoadClaim(a) ==
  LET i == request[a].item
      c == items[i].claim
  IN /\ request[a].op = "resolve"
     /\ c # 0
     /\ claims[c].live
     /\ Holding(a, "set", i, 0, request[a].choice, claims[c].claimant)

AskAcknowledge(a, i) ==
  /\ items[i].status = "pending"
  /\ items[i].type = "grave"
  /\ Ask(a, "acknowledge", i, 0, Nobody)

AskDismiss(a, i) ==
  /\ items[i].status = "pending"
  /\ Ask(a, "dismiss", i, 0, Nobody)

HasEvidence(e) ==
  \E c \in DOMAIN claims : claims[c].live /\ claims[c].event = e /\ claims[c].evidence

\* Mutant of AskApprove: an event is approved without evidence.
AskApproveUntraced(a, e) ==
  /\ events[e].status \notin Settled
  /\ Ask(a, "approve", 0, e, Nobody)

\* approve_event: not settled, and a claim of the event has evidence.
AskApprove(a, e) ==
  /\ events[e].status \notin Settled
  /\ HasEvidence(e)
  /\ Ask(a, "approve", 0, e, Nobody)

AskReject(a, e) ==
  /\ events[e].status \notin Settled
  /\ Ask(a, "reject", 0, e, Nobody)

Closed(i, status) ==
  items' = [items EXCEPT ![i].status = status, ![i].choice = Nobody]

Done(a) == request' = [request EXCEPT ![a] = NoRequest]

Approved(i, actor) ==
  items' = [items EXCEPT ![i].status = "approved", ![i].choice = actor,
                         ![i].approvals = Append(@, actor)]

\* add_actor: the link of the item's event is inserted, and the item approved with it.
LinkActor(a) ==
  LET i == request[a].item
      e == items[i].event
      actor == request[a].choice
  IN /\ request[a].op = "resolve"
     /\ items[i].claim = 0
     /\ actor \in actors \ events[e].links
     /\ events' = [events EXCEPT ![e].links = @ \cup {actor}]
     /\ Approved(i, actor)
     /\ Done(a)
     /\ UNCHANGED <<actors, claims, extraction, withdrawn>>

\* Mutant of SetClaimant: a claimant that another decision wrote is kept.
SetClaimantKeepsFirst(a) ==
  LET i == request[a].item
      c == items[i].claim
      actor == request[a].choice
  IN /\ request[a].op = "set"
     /\ IF request[a].loaded # Nobody
        THEN UNCHANGED claims
        ELSE /\ claims[c].live
             /\ actor \in actors
             /\ claims' = [claims EXCEPT ![c].claimant = actor]
     /\ Approved(i, actor)
     /\ Done(a)
     /\ UNCHANGED <<actors, events, extraction, withdrawn>>

\* set_actor: the claim is updated where the actor differs from the one loaded, and
\* the item approved with it.
SetClaimant(a) ==
  LET i == request[a].item
      c == items[i].claim
      actor == request[a].choice
  IN /\ request[a].op = "set"
     /\ IF actor = request[a].loaded
        THEN UNCHANGED claims
        ELSE /\ claims[c].live
             /\ actor \in actors
             /\ claims' = [claims EXCEPT ![c].claimant = actor]
     /\ Approved(i, actor)
     /\ Done(a)
     /\ UNCHANGED <<actors, events, extraction, withdrawn>>

Acknowledge(a) ==
  /\ request[a].op = "acknowledge"
  /\ Closed(request[a].item, "approved")
  /\ Done(a)
  /\ UNCHANGED <<actors, events, claims, extraction, withdrawn>>

Dismiss(a) ==
  /\ request[a].op = "dismiss"
  /\ Closed(request[a].item, "rejected")
  /\ Done(a)
  /\ UNCHANGED <<actors, events, claims, extraction, withdrawn>>

SetLifecycle(a) ==
  /\ request[a].op \in {"approve", "reject"}
  /\ events' = [events EXCEPT ![request[a].event].status =
                  IF request[a].op = "approve" THEN "approved" ELSE "rejected"]
  /\ Done(a)
  /\ UNCHANGED <<actors, claims, items, extraction, withdrawn>>

\* The actor, the claim or the link stands in the way, or the process dies.
RequestFails(a) ==
  /\ request[a] # NoRequest
  /\ Done(a)
  /\ UNCHANGED <<actors, events, claims, items, extraction, withdrawn>>

-----------------------------------------------------------------------------
(* Requests whose one write stands for the whole handler.                  *)

\* create_event: an event of a grave type is queued for review with it.
CreateEvent(grade) ==
  /\ Len(events) < MaxEvents
  /\ grade = "grave" => Len(items) < MaxItems
  /\ events' = Append(events, NewEvent(grade, {}))
  /\ items' = IF grade = "grave" THEN Append(items, Item("grave", Len(events) + 1, 0)) ELSE items
  /\ UNCHANGED <<actors, claims, request, extraction, withdrawn>>

\* add_actor fails on the primary key when the link exists.
AddActor(e, actor) ==
  /\ actor \in actors \ events[e].links
  /\ events' = [events EXCEPT ![e].links = @ \cup {actor}]
  /\ UNCHANGED <<actors, claims, items, request, extraction, withdrawn>>

CreateClaim(e, claimant) ==
  /\ Len(claims) < MaxClaims
  /\ claims' = Append(claims, Claim(e, claimant, FALSE))
  /\ UNCHANGED <<actors, events, items, request, extraction, withdrawn>>

AddEvidence(c) ==
  /\ claims[c].live
  /\ ~claims[c].evidence
  /\ claims' = [claims EXCEPT ![c].evidence = TRUE]
  /\ events' = IF claims[c].event = 0 THEN events
               ELSE [events EXCEPT ![claims[c].event].traced = TRUE]
  /\ UNCHANGED <<actors, items, request, extraction, withdrawn>>

Withdraw ==
  /\ withdrawn < MaxWithdrawals
  /\ withdrawn' = withdrawn + 1
  /\ UNCHANGED <<items, request, extraction>>

\* Its evidence goes with it (delete-orphan).
DeleteClaim(c) ==
  /\ claims[c].live
  /\ claims' = [claims EXCEPT ![c].live = FALSE, ![c].evidence = FALSE]
  /\ UNCHANGED <<actors, events>>
  /\ Withdraw

\* DELETE of the evidence, or of the source of its document (cascade).
DeleteEvidence(c) ==
  /\ claims[c].evidence
  /\ claims' = [claims EXCEPT ![c].evidence = FALSE]
  /\ UNCHANGED <<actors, events>>
  /\ Withdraw

\* Links of the actor go with it (CASCADE), claims forget it (SET NULL).
DeleteActor(actor) ==
  /\ actor \in actors
  /\ actors' = actors \ {actor}
  /\ events' = [e \in DOMAIN events |-> [events[e] EXCEPT !.links = @ \ {actor}]]
  /\ claims' = [c \in DOMAIN claims |-> IF claims[c].claimant = actor
                                        THEN [claims[c] EXCEPT !.claimant = Nobody]
                                        ELSE claims[c]]
  /\ Withdraw

-----------------------------------------------------------------------------
Extract(x) ==
  \/ \E grade \in Grades, sure \in SUBSET actors : Lookup(x, grade, sure)
  \/ \E claimant \in actors \cup {Nobody, NoClaim}, vague \in SUBSET {"event", "claim"} :
       Merge(x, claimant, vague)
  \/ StopAtNewEvent(x)
  \/ ExtractionAborts(x)

Analyse(a) ==
  \/ \E i \in DOMAIN items :
       \/ \E actor \in Actors : AskResolve(a, i, actor)
       \/ AskAcknowledge(a, i)
       \/ AskDismiss(a, i)
  \/ \E e \in DOMAIN events : AskApprove(a, e) \/ AskReject(a, e)
  \/ LoadClaim(a)
  \/ LinkActor(a)
  \/ SetClaimant(a)
  \/ Acknowledge(a)
  \/ Dismiss(a)
  \/ SetLifecycle(a)
  \/ RequestFails(a)

Edit ==
  \/ \E grade \in Grades : CreateEvent(grade)
  \/ \E e \in DOMAIN events, actor \in Actors : AddActor(e, actor)
  \/ \E claimant \in actors \cup {Nobody} :
       \/ \E e \in {0} \cup DOMAIN events : CreateClaim(e, claimant)
       \/ \E vague \in SUBSET {"claim"} : ClaimWithoutEvent(claimant, vague)
  \/ \E c \in DOMAIN claims : AddEvidence(c) \/ DeleteClaim(c) \/ DeleteEvidence(c)
  \/ \E actor \in Actors : DeleteActor(actor)

Next ==
  \/ \E x \in Extractors : Extract(x)
  \/ \E a \in Analysts : Analyse(a)
  \/ Edit

Spec == Init /\ [][Next]_vars

-----------------------------------------------------------------------------
(* Properties.                                                             *)

\* Approved items have been carried out, whichever decisions on them overlapped: as
\* long as the actors approved for an item have their rows, its event is linked to
\* each of them, and the claimant of its claim is one of them.  It is the one that
\* the item names unless three decisions overlapped.
ApprovedIsApplied ==
  \A i \in DOMAIN items :
    LET chosen == Range(items[i].approvals)
        c      == items[i].claim
    IN items[i].type = "entity" /\ items[i].status = "approved" /\ chosen \subseteq actors
       => IF c = 0
          THEN chosen \subseteq events[items[i].event].links
          ELSE claims[c].live =>
                 /\ claims[c].claimant \in chosen
                 /\ Len(items[i].approvals) <= 2 => claims[c].claimant = items[i].choice

\* "traceable evidence": an approved event has had a claim with evidence,
\* although the evidence may be withdrawn while the approval is under way.
ApprovedWasTraced == \A e \in DOMAIN events : events[e].status = "approved" => events[e].traced

\* The events of a document are stored with links to the actors that the document
\* names and the resolver is sure of.
NamedAreLinked == \A e \in DOMAIN events : events[e].named \cap actors \subseteq events[e].links

\* A settled item raises a conflict: no later decision replaces the first.
DecisionsAreFinal ==
  [][\A i \in DOMAIN items : items[i].status \in Settled =>
       items'[i].status = items[i].status /\ items'[i].choice = items[i].choice]_vars
=============================================================================
