-------------------------- MODULE EventReviewProofs ----------------------------
(***************************************************************************)
(* Three facts about the review, for any actors, analysts, extractions and *)
(* numbers of rows: an approved event was traceable when its approval      *)
(* began, approved items have been carried out, and rows keep their types. *)
(* Each has an invariant of its own (TInv, QInv, WithinBounds), the later  *)
(* ones resting on the earlier.                                            *)
(***************************************************************************)
EXTENDS EventReview, DataLemmas, FiniteSetTheorems, TLAPS

-----------------------------------------------------------------------------
(* The inductive invariant.                                                *)

RequestRow == [op: {"none", "resolve", "set", "acknowledge", "dismiss", "approve", "reject"},
               item: Nat, event: Nat, choice: Actors \cup {Nobody}, loaded: Actors \cup {Nobody}]
ClaimRow == [live: BOOLEAN, event: Nat, claimant: Actors \cup {Nobody}, evidence: BOOLEAN]

Typed ==
  /\ actors \subseteq Actors
  /\ events \in Seq(EventType) /\ claims \in Seq(ClaimRow)
  /\ request \in [Analysts -> RequestRow] /\ DOMAIN extraction = Extractors

\* An extraction found events that exist, of a type that events have.
FoundExist ==
  \A x \in Extractors : /\ extraction[x].found \subseteq DOMAIN events
                        /\ extraction[x].sure \subseteq Actors
                        /\ extraction[x].on => extraction[x].grade \in Grades

\* A claim is about an event or none, and its evidence has made the event traceable.
EvidenceTraces ==
  \A c \in DOMAIN claims :
    /\ claims[c].event \in {0} \cup DOMAIN events
    /\ claims[c].evidence /\ claims[c].event # 0 => events[claims[c].event].traced

\* Who settles an event has read it, and who is about to approve it has seen evidence.
ApprovalsTraced ==
  \A a \in Analysts :
    /\ request[a].op \in {"approve", "reject"} => request[a].event \in DOMAIN events
    /\ request[a].op = "approve" => events[request[a].event].traced

TInv == Typed /\ FoundExist /\ EvidenceTraces /\ ApprovalsTraced /\ ApprovedWasTraced

ItemRow == [type: {"entity", "duplicate", "grave"}, status: {"pending"} \cup Settled,
            event: Nat, claim: Nat, choice: Actors \cup {Nobody}, approvals: Seq(Actors)]

\* An item's subject has a row.
ItemsRefer ==
  \A i \in DOMAIN items : /\ items[i].event \in {0} \cup DOMAIN events
                          /\ items[i].claim \in {0} \cup DOMAIN claims
                          /\ items[i].claim = 0 => items[i].event \in DOMAIN events

\* Only one item can write a claim: its own.
OneItemPerClaim ==
  \A i, j \in DOMAIN items :
    i # j /\ items[i].claim # 0 => items[j].claim # items[i].claim

\* The actors of the decisions that approved an item.
Chosen(i) == Range(items[i].approvals)

\* A request under way has read an item, acknowledges no entity, and has loaded the
\* claimant that an earlier decision on its item chose, or none.
RequestsRefer ==
  \A a \in Analysts :
    /\ request[a].op \in {"resolve", "set", "acknowledge", "dismiss"} =>
         request[a].item \in DOMAIN items
    /\ request[a].op = "acknowledge" => items[request[a].item].type = "grave"
    /\ request[a].op \in {"resolve", "set"} => request[a].choice \in Actors
    /\ request[a].op = "set" =>
         /\ items[request[a].item].claim # 0
         /\ request[a].loaded # Nobody => request[a].loaded \in Chosen(request[a].item)

\* The actors approved for an event are linked to it.  The claimant of a claim is one
\* of those approved for it, and the last of the first two while they have their rows.
ItemSound(i) ==
  LET approvals == items[i].approvals
      claim == claims[items[i].claim]
  IN /\ items[i].claim = 0 => Chosen(i) \cap actors \subseteq events[items[i].event].links
     /\ items[i].claim # 0 /\ claim.claimant # Nobody => claim.claimant \in Chosen(i)
     /\ items[i].claim # 0 /\ claim.live /\ approvals # <<>> /\ Chosen(i) \subseteq actors =>
          /\ claim.claimant # Nobody
          /\ Len(approvals) <= 2 => claim.claimant = approvals[Len(approvals)]
     /\ items[i].type = "entity" /\ items[i].status = "approved" =>
          approvals # <<>> /\ items[i].choice = approvals[Len(approvals)]

QInv ==
  /\ items \in Seq(ItemRow) /\ ItemsRefer /\ OneItemPerClaim /\ RequestsRefer
  /\ \A i \in DOMAIN items : ItemSound(i)

\* There are no rows.
LEMMA InitTInv == Init => TInv
<1>. SUFFICES ASSUME Init PROVE TInv
  OBVIOUS
<1>1. Typed
  BY DEF Init, Typed, NoRequest, RequestRow
<1>2. DOMAIN events = {} /\ DOMAIN claims = {}
  BY DEF Init
<1>3. FoundExist /\ ApprovalsTraced
  BY DEF Init, FoundExist, ApprovalsTraced, NoExtraction, NoRequest
<1>. QED BY <1>1, <1>2, <1>3 DEF TInv, EvidenceTraces, ApprovedWasTraced

\* Events are added or stay, and what was traceable remains so.
EventsStay ==
  /\ events' \in Seq(EventType)
  /\ DOMAIN events \subseteq DOMAIN events'
  /\ \A e \in DOMAIN events : events[e].traced => events'[e].traced

\* What carries over once events stay: an extraction's finds and requests under way.
LEMMA FindsStay ==
  ASSUME TInv, EventsStay, UNCHANGED extraction
  PROVE  FoundExist'
BY DEF TInv, FoundExist, EventsStay

LEMMA RequestsStay ==
  ASSUME TInv, EventsStay, NEW a \in Analysts,
         UNCHANGED request \/ request' = [request EXCEPT ![a] = NoRequest]
  PROVE  ApprovalsTraced' /\ request' \in [Analysts -> RequestRow]
<1>1. request' \in [Analysts -> RequestRow]
  <2>1. NoRequest \in RequestRow
    BY DEF NoRequest, RequestRow
  <2>2. request \in [Analysts -> RequestRow]
    BY DEF TInv, Typed
  <2>. QED BY <2>1, <2>2
<1>2. \A b \in Analysts : request'[b].op \in {"approve", "reject"} => request'[b] = request[b]
  BY DEF TInv, Typed, NoRequest
<1>. QED BY <1>1, <1>2 DEF TInv, ApprovalsTraced, EventsStay

-----------------------------------------------------------------------------
(* The columns of an event that its edits change.                          *)

LEMMA LinksEdited ==
  ASSUME NEW r \in EventType, NEW A \in SUBSET Actors
  PROVE  LET t == [r EXCEPT !.links = @ \cup A]
         IN t \in EventType /\ t.status = r.status /\ t.traced = r.traced
BY DEF EventType

LEMMA StatusEdited ==
  ASSUME NEW r \in EventType, NEW status \in Settled
  PROVE  LET t == [r EXCEPT !.status = status]
         IN t \in EventType /\ t.status = status /\ t.traced = r.traced
BY DEF EventType

LEMMA TracedEdited ==
  ASSUME NEW r \in EventType
  PROVE  LET t == [r EXCEPT !.traced = TRUE]
         IN t \in EventType /\ t.status = r.status /\ t.traced = TRUE
BY DEF EventType

LEMMA ActorForgotten ==
  ASSUME NEW r \in EventType, NEW actor
  PROVE  LET t == [r EXCEPT !.links = @ \ {actor}]
         IN t \in EventType /\ t.status = r.status /\ t.traced = r.traced
BY DEF EventType

LEMMA NewEventType ==
  ASSUME NEW grade \in Grades, NEW named \in SUBSET Actors
  PROVE  /\ NewEvent(grade, named) \in EventType
         /\ NewEvent(grade, named).status = "extracted"
BY DEF NewEvent, EventType, Active

\* One event is edited, others stay.
LEMMA OneEventEdited ==
  ASSUME TInv, NEW e, NEW v, events' = [events EXCEPT ![e] = v],
         e \in DOMAIN events =>
           /\ v \in EventType /\ (events[e].traced => v.traced)
           /\ v.status = "approved" => v.traced
  PROVE  EventsStay /\ DOMAIN events' = DOMAIN events /\ ApprovedWasTraced'
<1>1. /\ events' \in Seq(EventType) /\ DOMAIN events' = DOMAIN events
      /\ \A j \in DOMAIN events : events'[j] = IF j = e THEN v ELSE events[j]
  BY RowReplaced DEF TInv, Typed
<1>. QED BY <1>1 DEF EventsStay, TInv, ApprovedWasTraced

\* A new event is not approved.
LEMMA OneEventAdded ==
  ASSUME TInv, NEW v \in EventType, v.status = "extracted", events' = Append(events, v)
  PROVE  EventsStay /\ ApprovedWasTraced'
<1>1. /\ events' \in Seq(EventType) /\ DOMAIN events' = DOMAIN events \cup {Len(events) + 1}
      /\ Len(events) + 1 \notin DOMAIN events
      /\ events'[Len(events) + 1] = v
      /\ \A j \in DOMAIN events : events'[j] = events[j]
  BY RowAdded DEF TInv, Typed
<1>. QED BY <1>1 DEF EventsStay, TInv, ApprovedWasTraced

\* The claims stay while events do.
LEMMA ClaimsStay ==
  ASSUME TInv, EventsStay, UNCHANGED claims
  PROVE  EvidenceTraces'
BY DEF TInv, EvidenceTraces, EventsStay

\* Claims lose evidence or a claimant, are about the same event and stay typed.
LEMMA ClaimsThin ==
  ASSUME TInv, EventsStay, DOMAIN claims' = DOMAIN claims,
         \A c \in DOMAIN claims : /\ claims'[c].event = claims[c].event
                                  /\ claims'[c].evidence => claims[c].evidence
  PROVE  EvidenceTraces'
BY DEF TInv, EvidenceTraces, EventsStay

\* What a step leaves alone, once it keeps the types.
LEMMA Carried ==
  ASSUME TInv, EventsStay, actors' \subseteq Actors, claims' \in Seq(ClaimRow),
         ApprovedWasTraced', EvidenceTraces',
         UNCHANGED extraction, ApprovalsTraced', request' \in [Analysts -> RequestRow]
  PROVE  TInv'
<1>1. Typed'
  BY DEF TInv, Typed, EventsStay
<1>. QED BY <1>1, FindsStay DEF TInv

-----------------------------------------------------------------------------
(* Analysts.                                                               *)

\* A request has read what is there.
LEMMA HoldingKeeps ==
  ASSUME TInv, NEW a \in Analysts, NEW op, NEW item, NEW event, NEW choice, NEW loaded,
         Holding(a, op, item, event, choice, loaded),
         [op |-> op, item |-> item, event |-> event, choice |-> choice, loaded |-> loaded]
           \in RequestRow,
         op \in {"approve", "reject"} => event \in DOMAIN events,
         op = "approve" => events[event].traced
  PROVE  TInv'
<1>1. UNCHANGED <<actors, events, claims, extraction>>
  BY DEF Holding
<1>2. PICK r \in RequestRow :
        r = [op |-> op, item |-> item, event |-> event, choice |-> choice, loaded |-> loaded]
  OBVIOUS
<1>3. request' = [request EXCEPT ![a] = r]
  BY <1>2 DEF Holding
<1>4. request' \in [Analysts -> RequestRow]
  BY <1>3 DEF TInv, Typed
<1>5. \A b \in Analysts : request'[b] = IF b = a THEN r ELSE request[b]
  BY <1>3 DEF TInv, Typed
<1>6. ApprovalsTraced'
  BY <1>1, <1>2, <1>5 DEF TInv, ApprovalsTraced
<1>7. Typed' /\ FoundExist' /\ EvidenceTraces' /\ ApprovedWasTraced'
  BY <1>1, <1>4 DEF TInv, Typed, FoundExist, EvidenceTraces, ApprovedWasTraced
<1>. QED BY <1>6, <1>7 DEF TInv

LEMMA AskItemKeeps ==
  ASSUME TInv, NEW a \in Analysts, NEW op \in {"resolve", "acknowledge", "dismiss"},
         NEW i \in Nat, NEW choice \in Actors \cup {Nobody}, Ask(a, op, i, 0, choice)
  PROVE  TInv'
<1>1. [op |-> op, item |-> i, event |-> 0, choice |-> choice, loaded |-> Nobody] \in RequestRow
  BY DEF RequestRow
<1>. QED BY <1>1, HoldingKeeps DEF Ask

LEMMA AskEventKeeps ==
  ASSUME TInv, NEW a \in Analysts, NEW op \in {"approve", "reject"}, NEW e \in DOMAIN events,
         Ask(a, op, 0, e, Nobody), op = "approve" => events[e].traced
  PROVE  TInv'
<1>1. [op |-> op, item |-> 0, event |-> e, choice |-> Nobody, loaded |-> Nobody] \in RequestRow
  BY DEF RequestRow, TInv, Typed
<1>. QED BY <1>1, HoldingKeeps DEF Ask

\* approve_event reads evidence before it writes.
LEMMA AskApproveKeeps ==
  ASSUME TInv, NEW a \in Analysts, NEW e \in DOMAIN events, AskApprove(a, e)
  PROVE  TInv'
<1>1. e # 0
  BY DEF TInv, Typed
<1>2. events[e].traced
  BY <1>1 DEF AskApprove, HasEvidence, TInv, EvidenceTraces
<1>. QED BY <1>2, AskEventKeeps DEF AskApprove

\* A request that ends without touching an event or a claim.
LEMMA EndKeeps ==
  ASSUME TInv, NEW a \in Analysts, Done(a), UNCHANGED <<actors, events, claims, extraction>>
  PROVE  TInv'
<1>1. EventsStay
  BY DEF TInv, Typed, EventsStay
<1>2. ApprovalsTraced' /\ request' \in [Analysts -> RequestRow]
  BY <1>1, RequestsStay DEF Done
<1>. QED BY <1>1, <1>2, Carried, ClaimsStay DEF TInv, Typed, ApprovedWasTraced

\* A request that goes on to load the claim of its item.
LEMMA LoadClaimKeeps ==
  ASSUME TInv, NEW a \in Analysts, LoadClaim(a),
         items[request[a].item].claim \in {0} \cup DOMAIN claims
  PROVE  TInv'
<1>1. PICK i : i = request[a].item
  OBVIOUS
<1>2. PICK c \in DOMAIN claims : c = items[i].claim
  BY <1>1 DEF LoadClaim
<1>3. request[a] \in RequestRow /\ claims[c] \in ClaimRow
  BY DEF TInv, Typed
<1>4. [op |-> "set", item |-> i, event |-> 0, choice |-> request[a].choice,
       loaded |-> claims[c].claimant] \in RequestRow
  BY <1>1, <1>3 DEF RequestRow, ClaimRow
<1>5. Holding(a, "set", i, 0, request[a].choice, claims[c].claimant)
  BY <1>1, <1>2 DEF LoadClaim
<1>. QED BY <1>4, <1>5, HoldingKeeps

\* The event of an item gets a link.
LEMMA LinkActorKeeps ==
  ASSUME TInv, NEW a \in Analysts, LinkActor(a)
  PROVE  TInv'
<1>. DEFINE actor == request[a].choice
            e == items[request[a].item].event
<1>1. actor \in Actors /\ UNCHANGED <<actors, claims, extraction>> /\ Done(a)
  BY DEF LinkActor, TInv, Typed
<1>2. events' = [events EXCEPT ![e].links = @ \cup {actor}]
  BY DEF LinkActor
<1>3. PICK v : v = [events[e] EXCEPT !.links = @ \cup {actor}]
  OBVIOUS
<1>4. events' = [events EXCEPT ![e] = v]
  BY <1>2, <1>3
<1>. HIDE DEF actor, e
<1>5. e \in DOMAIN events => events[e] \in EventType
  BY DEF TInv, Typed
<1>6. e \in DOMAIN events =>
        v \in EventType /\ v.status = events[e].status /\ v.traced = events[e].traced
  BY <1>1, <1>3, <1>5, LinksEdited
<1>7. EventsStay /\ ApprovedWasTraced'
  BY <1>4, <1>6, OneEventEdited DEF TInv, ApprovedWasTraced
<1>8. ApprovalsTraced' /\ request' \in [Analysts -> RequestRow]
  BY <1>7, <1>1, RequestsStay DEF Done
<1>. QED BY <1>1, <1>7, <1>8, Carried, ClaimsStay DEF TInv, Typed

\* The claim of an item gets a claimant, or has it.
LEMMA SetClaimantKeeps ==
  ASSUME TInv, NEW a \in Analysts, SetClaimant(a)
  PROVE  TInv'
<1>. DEFINE actor == request[a].choice
            c == items[request[a].item].claim
<1>1. UNCHANGED <<actors, events, extraction>> /\ Done(a)
  BY DEF SetClaimant
<1>2. EventsStay /\ ApprovedWasTraced'
  BY <1>1 DEF TInv, Typed, EventsStay, ApprovedWasTraced
<1>3. ApprovalsTraced' /\ request' \in [Analysts -> RequestRow]
  BY <1>2, <1>1, RequestsStay DEF Done
<1>4. CASE UNCHANGED claims
  BY <1>1, <1>2, <1>3, <1>4, Carried, ClaimsStay DEF TInv, Typed
<1>5. CASE actor \in actors /\ claims' = [claims EXCEPT ![c].claimant = actor]
  <2>1. PICK v : v = [claims[c] EXCEPT !.claimant = actor]
    OBVIOUS
  <2>2. claims' = [claims EXCEPT ![c] = v]
    BY <1>5, <2>1
  <2>3. actor \in Actors /\ (c \in DOMAIN claims => claims[c] \in ClaimRow)
    BY <1>5 DEF TInv, Typed
  <2>4. c \in DOMAIN claims =>
          v \in ClaimRow /\ v.event = claims[c].event /\ v.evidence = claims[c].evidence
    BY <2>1, <2>3 DEF ClaimRow
  <2>. HIDE DEF actor, c
  <2>5. /\ claims' \in Seq(ClaimRow) /\ DOMAIN claims' = DOMAIN claims
        /\ \A j \in DOMAIN claims : claims'[j] = IF j = c THEN v ELSE claims[j]
    BY <2>2, <2>4, RowReplaced DEF TInv, Typed
  <2>6. EvidenceTraces'
    BY <1>2, <2>4, <2>5, ClaimsThin
  <2>. QED BY <1>1, <1>2, <1>3, <2>5, <2>6, Carried DEF TInv, Typed
<1>. QED BY <1>4, <1>5 DEF SetClaimant

\* What is approved was seen to have evidence when the request read it.
LEMMA SetLifecycleKeeps ==
  ASSUME TInv, NEW a \in Analysts, SetLifecycle(a)
  PROVE  TInv'
<1>. DEFINE e == request[a].event
<1>1. UNCHANGED <<actors, claims, extraction>> /\ Done(a)
  BY DEF SetLifecycle
<1>2. PICK status : /\ status \in Settled
                    /\ status = "approved" => request[a].op = "approve"
                    /\ events' = [events EXCEPT ![e].status = status]
  BY DEF SetLifecycle, Settled
<1>3. PICK v : v = [events[e] EXCEPT !.status = status]
  OBVIOUS
<1>4. events' = [events EXCEPT ![e] = v]
  BY <1>2, <1>3
<1>5. status = "approved" => events[e].traced
  BY <1>2 DEF TInv, ApprovalsTraced
<1>. HIDE DEF e
<1>6. e \in DOMAIN events => events[e] \in EventType
  BY DEF TInv, Typed
<1>7. e \in DOMAIN events =>
        v \in EventType /\ v.status = status /\ v.traced = events[e].traced
  BY <1>2, <1>3, <1>6, StatusEdited
<1>8. EventsStay /\ ApprovedWasTraced'
  BY <1>4, <1>5, <1>7, OneEventEdited
<1>9. ApprovalsTraced' /\ request' \in [Analysts -> RequestRow]
  BY <1>8, <1>1, RequestsStay DEF Done
<1>. QED BY <1>1, <1>8, <1>9, Carried, ClaimsStay DEF TInv, Typed

-----------------------------------------------------------------------------
(* Edits.                                                                  *)

\* What an edit carries over: nobody's request or extraction is its business.
LEMMA EditCarried ==
  ASSUME TInv, EventsStay, UNCHANGED <<request, extraction>>, actors' \subseteq Actors,
         claims' \in Seq(ClaimRow), ApprovedWasTraced', EvidenceTraces'
  PROVE  TInv'
<1>1. ApprovalsTraced' /\ request' \in [Analysts -> RequestRow]
  BY DEF TInv, Typed, ApprovalsTraced, EventsStay
<1>. QED BY <1>1, Carried

\* A claim without evidence, or one whose event is traceable, is added.
LEMMA OneClaimAdded ==
  ASSUME TInv, EventsStay, NEW v \in ClaimRow, claims' = Append(claims, v),
         v.event \in {0} \cup DOMAIN events',
         v.evidence /\ v.event # 0 => events'[v.event].traced
  PROVE  claims' \in Seq(ClaimRow) /\ EvidenceTraces'
<1>1. /\ claims' \in Seq(ClaimRow) /\ DOMAIN claims' = DOMAIN claims \cup {Len(claims) + 1}
      /\ Len(claims) + 1 \notin DOMAIN claims
      /\ claims'[Len(claims) + 1] = v
      /\ \A j \in DOMAIN claims : claims'[j] = claims[j]
  BY RowAdded DEF TInv, Typed
<1>. QED BY <1>1 DEF EventsStay, TInv, EvidenceTraces

\* A claim loses its evidence, and perhaps itself.
LEMMA OneClaimThinned ==
  ASSUME TInv, UNCHANGED <<actors, events, request, extraction>>,
         NEW c \in DOMAIN claims, NEW v \in ClaimRow, claims' = [claims EXCEPT ![c] = v],
         v.event = claims[c].event, ~v.evidence
  PROVE  TInv'
<1>1. /\ claims' \in Seq(ClaimRow) /\ DOMAIN claims' = DOMAIN claims
      /\ \A j \in DOMAIN claims : claims'[j] = IF j = c THEN v ELSE claims[j]
  BY RowReplaced DEF TInv, Typed
<1>2. EventsStay /\ ApprovedWasTraced'
  BY DEF TInv, Typed, EventsStay, ApprovedWasTraced
<1>3. EvidenceTraces'
  BY <1>1, <1>2, ClaimsThin
<1>. QED BY <1>1, <1>2, <1>3, EditCarried DEF TInv, Typed

LEMMA CreateEventKeeps ==
  ASSUME TInv, NEW grade \in Grades, CreateEvent(grade)
  PROVE  TInv'
<1>1. PICK v : v = NewEvent(grade, {})
  OBVIOUS
<1>2. events' = Append(events, v) /\ UNCHANGED <<actors, claims, request, extraction>>
  BY <1>1 DEF CreateEvent
<1>3. v \in EventType /\ v.status = "extracted"
  BY <1>1, NewEventType
<1>4. EventsStay /\ ApprovedWasTraced'
  BY <1>2, <1>3, OneEventAdded
<1>. QED BY <1>2, <1>4, EditCarried, ClaimsStay DEF TInv, Typed

LEMMA AddActorKeeps ==
  ASSUME TInv, NEW e \in DOMAIN events, NEW actor \in Actors, AddActor(e, actor)
  PROVE  TInv'
<1>1. PICK v : v = [events[e] EXCEPT !.links = @ \cup {actor}]
  OBVIOUS
<1>2. events' = [events EXCEPT ![e] = v] /\ UNCHANGED <<actors, claims, request, extraction>>
  BY <1>1 DEF AddActor
<1>3. events[e] \in EventType
  BY DEF TInv, Typed
<1>4. v \in EventType /\ v.status = events[e].status /\ v.traced = events[e].traced
  BY <1>1, <1>3, LinksEdited
<1>5. EventsStay /\ ApprovedWasTraced'
  BY <1>2, <1>4, OneEventEdited DEF TInv, ApprovedWasTraced
<1>. QED BY <1>2, <1>5, EditCarried, ClaimsStay DEF TInv, Typed

LEMMA CreateClaimKeeps ==
  ASSUME TInv, NEW e \in {0} \cup DOMAIN events, NEW claimant \in actors \cup {Nobody},
         CreateClaim(e, claimant)
  PROVE  TInv'
<1>1. /\ claims' = Append(claims, Claim(e, claimant, FALSE))
      /\ UNCHANGED <<actors, events, request, extraction>>
  BY DEF CreateClaim
<1>2. EventsStay /\ ApprovedWasTraced'
  BY <1>1 DEF TInv, Typed, EventsStay, ApprovedWasTraced
<1>3. e \in Nat
  BY DEF TInv, Typed
<1>4. PICK v : v = Claim(e, claimant, FALSE)
  OBVIOUS
<1>5. v \in ClaimRow /\ v.event = e /\ ~v.evidence
  BY <1>3, <1>4 DEF Claim, ClaimRow, TInv, Typed
<1>6. claims' \in Seq(ClaimRow) /\ EvidenceTraces'
  BY <1>1, <1>2, <1>4, <1>5, OneClaimAdded
<1>. QED BY <1>1, <1>2, <1>6, EditCarried DEF TInv, Typed

\* Evidence makes its event traceable.
LEMMA AddEvidenceKeeps ==
  ASSUME TInv, NEW c \in DOMAIN claims, AddEvidence(c)
  PROVE  TInv'
<1>1. PICK e : e = claims[c].event
  OBVIOUS
<1>2. PICK w : w = [claims[c] EXCEPT !.evidence = TRUE]
  OBVIOUS
<1>3. /\ claims' = [claims EXCEPT ![c] = w]
      /\ UNCHANGED <<actors, request, extraction>>
  BY <1>1, <1>2 DEF AddEvidence
<1>4. e \in {0} \cup DOMAIN events /\ claims[c] \in ClaimRow
  BY <1>1 DEF TInv, Typed, EvidenceTraces
<1>5. w \in ClaimRow /\ w.event = e
  BY <1>1, <1>2, <1>4 DEF ClaimRow
<1>6. /\ claims' \in Seq(ClaimRow) /\ DOMAIN claims' = DOMAIN claims
      /\ \A j \in DOMAIN claims : claims'[j] = IF j = c THEN w ELSE claims[j]
  BY <1>3, <1>5, RowReplaced DEF TInv, Typed
<1>7. /\ EventsStay /\ ApprovedWasTraced'
      /\ e # 0 => events'[e].traced
  <2>1. CASE e = 0
    BY <1>1, <2>1 DEF AddEvidence, TInv, Typed, EventsStay, ApprovedWasTraced
  <2>2. CASE e # 0
    <3>1. PICK v : v = [events[e] EXCEPT !.traced = TRUE]
      OBVIOUS
    <3>2. events' = [events EXCEPT ![e] = v]
      BY <1>1, <2>2, <3>1 DEF AddEvidence
    <3>3. e \in DOMAIN events /\ events[e] \in EventType
      BY <1>4, <2>2 DEF TInv, Typed
    <3>4. v \in EventType /\ v.status = events[e].status /\ v.traced
      BY <3>1, <3>3, TracedEdited
    <3>. QED BY <3>2, <3>3, <3>4, OneEventEdited
  <2>. QED BY <2>1, <2>2
<1>8. EvidenceTraces'
  BY <1>1, <1>4, <1>5, <1>6, <1>7 DEF TInv, EvidenceTraces, EventsStay
<1>. QED BY <1>3, <1>6, <1>7, <1>8, EditCarried DEF TInv, Typed

LEMMA DeleteClaimKeeps ==
  ASSUME TInv, NEW c \in DOMAIN claims, DeleteClaim(c)
  PROVE  TInv'
<1>1. PICK v : v = [claims[c] EXCEPT !.live = FALSE, !.evidence = FALSE]
  OBVIOUS
<1>2. claims[c] \in ClaimRow
  BY DEF TInv, Typed
<1>3. v \in ClaimRow /\ v.event = claims[c].event /\ ~v.evidence
  BY <1>1, <1>2 DEF ClaimRow
<1>4. claims' = [claims EXCEPT ![c] = v] /\ UNCHANGED <<actors, events, request, extraction>>
  BY <1>1 DEF DeleteClaim, Withdraw
<1>. QED BY <1>3, <1>4, OneClaimThinned

LEMMA DeleteEvidenceKeeps ==
  ASSUME TInv, NEW c \in DOMAIN claims, DeleteEvidence(c)
  PROVE  TInv'
<1>1. PICK v : v = [claims[c] EXCEPT !.evidence = FALSE]
  OBVIOUS
<1>2. claims[c] \in ClaimRow
  BY DEF TInv, Typed
<1>3. v \in ClaimRow /\ v.event = claims[c].event /\ ~v.evidence
  BY <1>1, <1>2 DEF ClaimRow
<1>4. claims' = [claims EXCEPT ![c] = v] /\ UNCHANGED <<actors, events, request, extraction>>
  BY <1>1 DEF DeleteEvidence, Withdraw
<1>. QED BY <1>3, <1>4, OneClaimThinned

\* Every event and claim forgets the actor, and keeps what makes it traceable.
LEMMA DeleteActorKeeps ==
  ASSUME TInv, NEW actor \in Actors, DeleteActor(actor)
  PROVE  TInv'
<1>1. /\ events' = [e \in DOMAIN events |-> [events[e] EXCEPT !.links = @ \ {actor}]]
      /\ claims' = [c \in DOMAIN claims |-> IF claims[c].claimant = actor
                                            THEN [claims[c] EXCEPT !.claimant = Nobody]
                                            ELSE claims[c]]
      /\ actors' = actors \ {actor} /\ UNCHANGED <<request, extraction>>
  BY DEF DeleteActor, Withdraw
<1>2. ASSUME NEW e \in DOMAIN events
      PROVE  /\ events'[e] \in EventType
             /\ events'[e].status = events[e].status /\ events'[e].traced = events[e].traced
  <2>1. PICK r \in EventType : r = events[e]
    BY DEF TInv, Typed
  <2>2. PICK t : t = [r EXCEPT !.links = @ \ {actor}]
    OBVIOUS
  <2>3. t \in EventType /\ t.status = r.status /\ t.traced = r.traced
    BY <2>2, ActorForgotten
  <2>4. events'[e] = t
    BY <1>1, <2>1, <2>2
  <2>. QED BY <2>1, <2>3, <2>4
<1>3. events' \in Seq(EventType) /\ DOMAIN events' = DOMAIN events
  <2>1. events' = [e \in DOMAIN events |-> events'[e]]
    BY <1>1
  <2>. QED BY <1>2, <2>1, RowsOf DEF TInv, Typed
<1>4. EventsStay /\ ApprovedWasTraced'
  BY <1>2, <1>3 DEF EventsStay, TInv, ApprovedWasTraced
<1>5. ASSUME NEW c \in DOMAIN claims
      PROVE  /\ claims'[c] \in ClaimRow
             /\ claims'[c].event = claims[c].event /\ claims'[c].evidence = claims[c].evidence
  <2>1. PICK r \in ClaimRow : r = claims[c]
    BY DEF TInv, Typed
  <2>2. claims'[c] = IF r.claimant = actor THEN [r EXCEPT !.claimant = Nobody] ELSE r
    BY <1>1, <2>1
  <2>3. LET t == [r EXCEPT !.claimant = Nobody]
        IN t \in ClaimRow /\ t.event = r.event /\ t.evidence = r.evidence
    BY DEF ClaimRow
  <2>. QED BY <2>1, <2>2, <2>3
<1>6. claims' \in Seq(ClaimRow) /\ DOMAIN claims' = DOMAIN claims
  <2>1. claims' = [c \in DOMAIN claims |-> claims'[c]]
    BY <1>1
  <2>. QED BY <1>5, <2>1, RowsOf DEF TInv, Typed
<1>7. EvidenceTraces'
  BY <1>4, <1>5, <1>6, ClaimsThin
<1>. QED BY <1>1, <1>4, <1>6, <1>7, EditCarried DEF TInv, Typed

-----------------------------------------------------------------------------
(* Extraction.                                                             *)

\* What is found exists when the lookup finds it.
LEMMA LookupKeeps ==
  ASSUME TInv, NEW x \in Extractors, NEW grade \in Grades, NEW sure \in SUBSET actors,
         Lookup(x, grade, sure)
  PROVE  TInv'
<1>1. UNCHANGED <<actors, events, claims, request>>
  BY DEF Lookup
<1>2. PICK known : extraction' = [extraction EXCEPT ![x] =
        [on |-> TRUE, grade |-> grade, sure |-> sure, found |-> Candidates(grade, sure),
         known |-> known]]
  BY DEF Lookup
<1>3. Candidates(grade, sure) \subseteq DOMAIN events /\ sure \subseteq Actors
  BY DEF Candidates, TInv, Typed
<1>4. FoundExist' /\ DOMAIN extraction' = Extractors
  BY <1>1, <1>2, <1>3 DEF TInv, Typed, FoundExist
<1>5. Typed' /\ EvidenceTraces' /\ ApprovalsTraced' /\ ApprovedWasTraced'
  BY <1>1, <1>4 DEF TInv, Typed, EvidenceTraces, ApprovalsTraced, ApprovedWasTraced
<1>. QED BY <1>4, <1>5 DEF TInv

\* An extraction that ends finds nothing any more.
LEMMA ExtractionEnds ==
  ASSUME TInv, EventsStay, NEW x \in Extractors,
         extraction' = [extraction EXCEPT ![x] = NoExtraction],
         UNCHANGED <<actors, request>>, claims' \in Seq(ClaimRow),
         ApprovedWasTraced', EvidenceTraces'
  PROVE  TInv'
<1>1. FoundExist' /\ DOMAIN extraction' = Extractors
  BY DEF TInv, Typed, FoundExist, NoExtraction, EventsStay
<1>2. ApprovalsTraced'
  BY DEF TInv, ApprovalsTraced, EventsStay
<1>3. Typed'
  BY <1>1 DEF TInv, Typed, EventsStay
<1>. QED BY <1>1, <1>2, <1>3 DEF TInv

LEMMA ExtractionAbortsKeeps ==
  ASSUME TInv, NEW x \in Extractors, ExtractionAborts(x)
  PROVE  TInv'
<1>1. /\ extraction' = [extraction EXCEPT ![x] = NoExtraction]
      /\ UNCHANGED <<actors, events, claims, request>>
  BY DEF ExtractionAborts
<1>2. EventsStay /\ ApprovedWasTraced'
  BY <1>1 DEF TInv, Typed, EventsStay, ApprovedWasTraced
<1>. QED BY <1>1, <1>2, ExtractionEnds, ClaimsStay DEF TInv, Typed

\* A single candidate is one of those found.
LEMMA TheCandidate ==
  ASSUME TInv, NEW x \in Extractors, Cardinality(extraction[x].found) = 1
  PROVE  (CHOOSE f \in extraction[x].found : TRUE) \in DOMAIN events
<1>1. extraction[x].found # {}
  BY FS_EmptySet
<1>. QED BY <1>1 DEF TInv, FoundExist

\* A document may make a claim, about an event that it makes traceable or about none.
LEMMA ClaimedKeeps ==
  ASSUME TInv, EventsStay, NEW e \in {0} \cup DOMAIN events', NEW vague,
         NEW claimant \in actors \cup {Nobody, NoClaim}, Claimed(e, claimant, vague),
         claimant # NoClaim /\ e # 0 => events'[e].traced
  PROVE  claims' \in Seq(ClaimRow) /\ EvidenceTraces'
<1>1. CASE claimant # NoClaim
  <2>1. PICK v : v = Claim(e, claimant, TRUE)
    OBVIOUS
  <2>2. e \in Nat
    BY DEF EventsStay
  <2>3. v \in ClaimRow /\ v.event = e
    BY <1>1, <2>1, <2>2 DEF Claim, ClaimRow, TInv, Typed
  <2>4. claims' = Append(claims, v)
    BY <1>1, <2>1 DEF Claimed
  <2>. QED BY <1>1, <2>3, <2>4, OneClaimAdded
<1>2. CASE claimant = NoClaim
  BY <1>2, ClaimsStay DEF Claimed, TInv, Typed
<1>. QED BY <1>1, <1>2

\* A document is merged into the candidate, which keeps its links and its evidence.
LEMMA MergeExtends ==
  ASSUME TInv, NEW x \in Extractors, NEW claimant, NEW vague, Merge(x, claimant, vague)
  PROVE  \E e \in DOMAIN events, t \in EventType :
           /\ e = CHOOSE f \in extraction[x].found : TRUE
           /\ events' = [events EXCEPT ![e] = t]
           /\ t.status = events[e].status /\ events[e].links \subseteq t.links
           /\ (events[e].traced => t.traced) /\ (claimant # NoClaim => t.traced)
<1>1. PICK e \in DOMAIN events : e = CHOOSE f \in extraction[x].found : TRUE
  BY TheCandidate DEF Merge
<1>2. PICK r \in EventType : r = events[e]
  BY DEF TInv, Typed
<1>3. PICK traced \in BOOLEAN : traced = (r.traced \/ claimant # NoClaim)
  BY DEF EventType
<1>4. PICK links \in SUBSET Actors, named \in SUBSET Actors :
        /\ links = r.links \cup (extraction[x].sure \ extraction[x].known)
        /\ named = r.named \cup extraction[x].sure
  BY DEF EventType, TInv, FoundExist
<1>5. PICK t : t = [r EXCEPT !.links = links, !.named = named, !.traced = traced]
  OBVIOUS
<1>6. events' = [events EXCEPT ![e] = t]
  BY <1>1, <1>2, <1>3, <1>4, <1>5 DEF Merge, Extended
<1>7. t \in EventType /\ t.status = r.status /\ t.links = links /\ t.traced = traced
  <2>1. t.traced = traced
    BY <1>5 DEF EventType
  <2>2. t \in EventType
    BY <1>5 DEF EventType
  <2>3. t.status = r.status /\ t.links = links
    BY <1>5 DEF EventType
  <2>. QED BY <2>1, <2>2, <2>3
<1>8. (r.traced => t.traced) /\ (claimant # NoClaim => t.traced)
  BY <1>3, <1>7
<1>9. r.links \subseteq t.links
  BY <1>4, <1>7
<1>. QED BY <1>1, <1>2, <1>6, <1>7, <1>8, <1>9

LEMMA MergeKeeps ==
  ASSUME TInv, NEW x \in Extractors, NEW claimant \in actors \cup {Nobody, NoClaim},
         NEW vague, Merge(x, claimant, vague)
  PROVE  TInv'
<1>1. PICK e \in DOMAIN events, t \in EventType :
        /\ e = CHOOSE f \in extraction[x].found : TRUE
        /\ events' = [events EXCEPT ![e] = t] /\ t.status = events[e].status
        /\ (events[e].traced => t.traced) /\ (claimant # NoClaim => t.traced)
  BY MergeExtends
<1>2. Claimed(e, claimant, vague)
  BY <1>1 DEF Merge
<1>3. extraction' = [extraction EXCEPT ![x] = NoExtraction] /\ UNCHANGED <<actors, request>>
  BY DEF Merge
<1>4. EventsStay /\ DOMAIN events' = DOMAIN events /\ ApprovedWasTraced'
  BY <1>1, OneEventEdited DEF TInv, ApprovedWasTraced
<1>5. claimant # NoClaim => events'[e].traced
  BY <1>1 DEF TInv, Typed
<1>6. claims' \in Seq(ClaimRow) /\ EvidenceTraces'
  BY <1>2, <1>4, <1>5, ClaimedKeeps
<1>. QED BY <1>3, <1>4, <1>6, ExtractionEnds

LEMMA StopAtNewEventKeeps ==
  ASSUME TInv, NEW x \in Extractors, StopAtNewEvent(x)
  PROVE  TInv'
<1>1. PICK v : v = NewEvent(extraction[x].grade, extraction[x].sure)
  OBVIOUS
<1>2. /\ events' = Append(events, v)
      /\ extraction' = [extraction EXCEPT ![x] = NoExtraction]
      /\ UNCHANGED <<actors, claims, request>>
  BY <1>1 DEF StopAtNewEvent
<1>3. extraction[x].grade \in Grades /\ extraction[x].sure \in SUBSET Actors
  BY DEF StopAtNewEvent, TInv, FoundExist
<1>4. v \in EventType /\ v.status = "extracted"
  BY <1>1, <1>3, NewEventType
<1>5. EventsStay /\ ApprovedWasTraced'
  BY <1>2, <1>4, OneEventAdded
<1>. QED BY <1>2, <1>5, ExtractionEnds, ClaimsStay DEF TInv, Typed

LEMMA ClaimWithoutEventKeeps ==
  ASSUME TInv, NEW claimant \in actors \cup {Nobody}, NEW vague,
         ClaimWithoutEvent(claimant, vague)
  PROVE  TInv'
<1>1. Claimed(0, claimant, vague) /\ UNCHANGED <<actors, events, request, extraction>>
  BY DEF ClaimWithoutEvent
<1>2. EventsStay /\ ApprovedWasTraced'
  BY <1>1 DEF TInv, Typed, EventsStay, ApprovedWasTraced
<1>3. claims' \in Seq(ClaimRow) /\ EvidenceTraces'
  BY <1>1, <1>2, ClaimedKeeps
<1>. QED BY <1>1, <1>2, <1>3, EditCarried DEF TInv, Typed

-----------------------------------------------------------------------------
(* All steps.                                                              *)

LEMMA AnalyseKeeps ==
  ASSUME TInv, NEW a \in Analysts, Analyse(a), items \in Seq(ItemRow), ItemsRefer, RequestsRefer
  PROVE  TInv'
<1>1. CASE \E i \in DOMAIN items : \/ \E actor \in Actors : AskResolve(a, i, actor)
                                   \/ AskAcknowledge(a, i)
                                   \/ AskDismiss(a, i)
  BY <1>1, AskItemKeeps DEF AskResolve, AskAcknowledge, AskDismiss
<1>2. CASE \E e \in DOMAIN events : AskApprove(a, e)
  BY <1>2, AskApproveKeeps
<1>3. CASE \E e \in DOMAIN events : AskReject(a, e)
  BY <1>3, AskEventKeeps DEF AskReject
<1>4. CASE LoadClaim(a)
  <2>1. items[request[a].item].claim \in {0} \cup DOMAIN claims
    BY <1>4 DEF LoadClaim, ItemsRefer, RequestsRefer
  <2>. QED BY <1>4, <2>1, LoadClaimKeeps
<1>5. CASE LinkActor(a) \/ SetClaimant(a)
  BY <1>5, LinkActorKeeps, SetClaimantKeeps
<1>6. CASE Acknowledge(a) \/ Dismiss(a) \/ RequestFails(a)
  BY <1>6, EndKeeps DEF Acknowledge, Dismiss, RequestFails
<1>7. CASE SetLifecycle(a)
  BY <1>7, SetLifecycleKeeps
<1>. QED BY <1>1, <1>2, <1>3, <1>4, <1>5, <1>6, <1>7 DEF Analyse

LEMMA EditKeeps ==
  ASSUME TInv, Edit
  PROVE  TInv'
<1>1. CASE \E grade \in Grades : CreateEvent(grade)
  BY <1>1, CreateEventKeeps
<1>2. CASE \E e \in DOMAIN events, actor \in Actors : AddActor(e, actor)
  BY <1>2, AddActorKeeps
<1>3. CASE \E claimant \in actors \cup {Nobody} :
             \/ \E e \in {0} \cup DOMAIN events : CreateClaim(e, claimant)
             \/ \E vague \in SUBSET {"claim"} : ClaimWithoutEvent(claimant, vague)
  BY <1>3, CreateClaimKeeps, ClaimWithoutEventKeeps
<1>4. CASE \E c \in DOMAIN claims : AddEvidence(c) \/ DeleteClaim(c) \/ DeleteEvidence(c)
  BY <1>4, AddEvidenceKeeps, DeleteClaimKeeps, DeleteEvidenceKeeps
<1>5. CASE \E actor \in Actors : DeleteActor(actor)
  BY <1>5, DeleteActorKeeps
<1>. QED BY <1>1, <1>2, <1>3, <1>4, <1>5 DEF Edit

LEMMA ExtractKeeps ==
  ASSUME TInv, NEW x \in Extractors, Extract(x)
  PROVE  TInv'
<1>1. CASE \E grade \in Grades, sure \in SUBSET actors : Lookup(x, grade, sure)
  BY <1>1, LookupKeeps
<1>2. CASE \E claimant \in actors \cup {Nobody, NoClaim}, vague \in SUBSET {"event", "claim"} :
             Merge(x, claimant, vague)
  BY <1>2, MergeKeeps
<1>3. CASE StopAtNewEvent(x)
  BY <1>3, StopAtNewEventKeeps
<1>4. CASE ExtractionAborts(x)
  BY <1>4, ExtractionAbortsKeeps
<1>. QED BY <1>1, <1>2, <1>3, <1>4 DEF Extract

LEMMA NextTInv == TInv /\ QInv /\ [Next]_vars => TInv'
<1>. SUFFICES ASSUME TInv, QInv, [Next]_vars PROVE TInv'
  OBVIOUS
<1>1. ASSUME UNCHANGED vars PROVE TInv'
  BY <1>1 DEF vars, TInv, Typed, FoundExist, EvidenceTraces, ApprovalsTraced, ApprovedWasTraced
<1>. QED BY <1>1, ExtractKeeps, AnalyseKeeps, EditKeeps DEF Next, QInv

-----------------------------------------------------------------------------
(***************************************************************************)
(* That approved items have been carried out.  What keeps the queue and    *)
(* the claims together is that a claim has one item, only decisions on it  *)
(* write the claimant, and a decision that writes nothing has loaded the   *)
(* actor it chose, whom an earlier decision wrote.                         *)
(***************************************************************************)

\* What a row of items says of events, claims and actors that exist now.
LEMMA SoundIsApplied == QInv => ApprovedIsApplied
<1>. SUFFICES ASSUME QInv, NEW i \in DOMAIN items, items[i].type = "entity",
                     items[i].status = "approved", Range(items[i].approvals) \subseteq actors
              PROVE  IF items[i].claim = 0
                     THEN Range(items[i].approvals) \subseteq events[items[i].event].links
                     ELSE claims[items[i].claim].live =>
                            /\ claims[items[i].claim].claimant \in Range(items[i].approvals)
                            /\ Len(items[i].approvals) <= 2 =>
                                 claims[items[i].claim].claimant = items[i].choice
  BY DEF ApprovedIsApplied
<1>1. ItemSound(i)
  BY DEF QInv
<1>2. CASE items[i].claim = 0
  BY <1>1, <1>2 DEF ItemSound, Chosen
<1>3. CASE items[i].claim # 0
  BY <1>1, <1>3 DEF ItemSound, Chosen
<1>. QED BY <1>2, <1>3

LEMMA InitQInv == Init => QInv
<1>. SUFFICES ASSUME Init PROVE QInv
  OBVIOUS
<1>1. items \in Seq(ItemRow) /\ DOMAIN items = {}
  BY DEF Init
<1>. QED BY <1>1 DEF Init, QInv, ItemsRefer, OneItemPerClaim, RequestsRefer, NoRequest

-----------------------------------------------------------------------------
(* What keeps an approved item in force.                                   *)

\* An event keeps its links to the actors that remain.
LinksHold ==
  /\ DOMAIN events \subseteq DOMAIN events'
  /\ \A e \in DOMAIN events : events[e].links \cap actors' \subseteq events'[e].links

\* A claim keeps a claimant that remains, or forgets one that is gone.
ClaimantHolds(c) ==
  /\ claims'[c].live => claims[c].live
  /\ claims'[c].claimant \in {claims[c].claimant, Nobody}
  /\ claims[c].claimant \in actors' => claims'[c].claimant = claims[c].claimant

ClaimantsHold ==
  /\ DOMAIN claims \subseteq DOMAIN claims'
  /\ \A c \in DOMAIN claims : ClaimantHolds(c)

Holds == actors' \subseteq actors /\ LinksHold /\ ClaimantsHold

\* Row i of the items stays.
LEMMA RowStays ==
  ASSUME QInv, Holds, NEW i \in DOMAIN items, items'[i] = items[i]
  PROVE  ItemSound(i)'
<1>1. ItemSound(i)
  BY DEF QInv
<1>2. Chosen(i)' = Chosen(i)
  BY DEF Chosen
<1>3. CASE items[i].claim = 0
  <2>1. items[i].event \in DOMAIN events
    BY <1>3 DEF QInv, ItemsRefer
  <2>2. Chosen(i) \cap actors' \subseteq events'[items[i].event].links
    BY <1>1, <1>3, <2>1 DEF ItemSound, Holds, LinksHold
  <2>. QED BY <1>1, <1>2, <1>3, <2>2 DEF ItemSound
<1>4. CASE items[i].claim # 0
  <2>1. PICK c \in DOMAIN claims : c = items[i].claim
    BY <1>4 DEF QInv, ItemsRefer
  <2>2. ClaimantHolds(c) /\ actors' \subseteq actors
    BY DEF Holds, ClaimantsHold
  <2>3. claims'[c].claimant # Nobody => claims'[c].claimant \in Chosen(i)
    BY <1>1, <1>4, <2>1, <2>2 DEF ItemSound, ClaimantHolds
  <2>4. ASSUME claims'[c].live, items[i].approvals # <<>>, Chosen(i) \subseteq actors'
        PROVE  claims'[c].claimant = claims[c].claimant /\ claims[c].claimant # Nobody
    <3>1. claims[c].live /\ Chosen(i) \subseteq actors
      BY <2>2, <2>4 DEF ClaimantHolds
    <3>2. claims[c].claimant # Nobody /\ claims[c].claimant \in Chosen(i)
      BY <1>1, <1>4, <2>1, <2>4, <3>1 DEF ItemSound
    <3>. QED BY <2>2, <2>4, <3>2 DEF ClaimantHolds
  <2>5. ASSUME claims'[c].live, items[i].approvals # <<>>, Chosen(i) \subseteq actors',
               Len(items[i].approvals) <= 2
        PROVE  claims'[c].claimant = items[i].approvals[Len(items[i].approvals)]
    <3>1. claims[c].live /\ Chosen(i) \subseteq actors
      BY <2>2, <2>5 DEF ClaimantHolds
    <3>. QED BY <1>1, <1>4, <2>1, <2>4, <2>5, <3>1 DEF ItemSound
  <2>. QED BY <1>1, <1>2, <1>4, <2>1, <2>3, <2>4, <2>5 DEF ItemSound
<1>. QED BY <1>3, <1>4

\* Requests keep referring to items whose subjects stay and whose approvals grow.
ItemsGrow ==
  /\ DOMAIN items \subseteq DOMAIN items'
  /\ \A i \in DOMAIN items : /\ items'[i].type = items[i].type
                             /\ items'[i].event = items[i].event
                             /\ items'[i].claim = items[i].claim
                             /\ Chosen(i) \subseteq Chosen(i)'

LEMMA RequestsRest ==
  ASSUME TInv, QInv, ItemsGrow, NEW a, UNCHANGED request \/ Done(a)
  PROVE  RequestsRefer'
<1>1. \A b \in Analysts : request'[b] \in {request[b], NoRequest}
  BY DEF Done, TInv, Typed
<1>2. ASSUME NEW b \in Analysts, request'[b] = request[b],
             request[b].op \in {"resolve", "set", "acknowledge", "dismiss"}
      PROVE  /\ request[b].item \in DOMAIN items'
             /\ request[b].op = "acknowledge" => items'[request[b].item].type = "grave"
             /\ request[b].op \in {"resolve", "set"} => request[b].choice \in Actors
             /\ request[b].op = "set" =>
                  /\ items'[request[b].item].claim # 0
                  /\ request[b].loaded # Nobody =>
                       request[b].loaded \in Range(items'[request[b].item].approvals)
  BY <1>2 DEF QInv, RequestsRefer, ItemsGrow, Chosen
<1>. QED BY <1>1, <1>2 DEF RequestsRefer, NoRequest, Chosen

\* Nothing but rows change, and the items stay.
LEMMA ItemsStay ==
  ASSUME TInv, QInv, Holds, UNCHANGED items, RequestsRefer'
  PROVE  QInv'
<1>1. \A i \in DOMAIN items' : ItemSound(i)'
  BY RowStays
<1>2. ItemsRefer' /\ OneItemPerClaim'
  BY DEF QInv, ItemsRefer, OneItemPerClaim, Holds, LinksHold, ClaimantsHold
<1>. QED BY <1>1, <1>2 DEF QInv

\* Nothing but rows change, and a request ends or none does.
LEMMA EditKeepsItems ==
  ASSUME TInv, QInv, Holds, UNCHANGED items, NEW a, UNCHANGED request \/ Done(a)
  PROVE  QInv'
<1>1. ItemsGrow
  BY DEF ItemsGrow, Chosen
<1>. QED BY <1>1, RequestsRest, ItemsStay

\* A step that leaves actors, events and claims alone takes nothing out of force.
LEMMA AllHold ==
  ASSUME UNCHANGED <<actors, events, claims>>
  PROVE  Holds
BY DEF Holds, LinksHold, ClaimantsHold, ClaimantHolds

\* An item is closed, or approved once more.
LEMMA ItemWritten ==
  ASSUME TInv, QInv, NEW i \in DOMAIN items, NEW v \in ItemRow, items' = [items EXCEPT ![i] = v],
         v.type = items[i].type, v.event = items[i].event, v.claim = items[i].claim,
         Range(items[i].approvals) \subseteq Range(v.approvals),
         DOMAIN events \subseteq DOMAIN events', DOMAIN claims \subseteq DOMAIN claims'
  PROVE  /\ items' \in Seq(ItemRow) /\ DOMAIN items' = DOMAIN items /\ items'[i] = v
         /\ \A j \in DOMAIN items : j # i => items'[j] = items[j]
         /\ ItemsGrow /\ ItemsRefer' /\ OneItemPerClaim'
<1>1. /\ items' \in Seq(ItemRow) /\ DOMAIN items' = DOMAIN items
      /\ \A j \in DOMAIN items : items'[j] = IF j = i THEN v ELSE items[j]
  BY RowReplaced DEF QInv
<1>2. \A j \in DOMAIN items : /\ items'[j].type = items[j].type
                              /\ items'[j].event = items[j].event
                              /\ items'[j].claim = items[j].claim
  BY <1>1
<1>3. \A j \in DOMAIN items : Chosen(j) \subseteq Chosen(j)'
  BY <1>1 DEF Chosen
<1>. QED BY <1>1, <1>2, <1>3 DEF ItemsGrow, QInv, ItemsRefer, OneItemPerClaim

\* An actor is put behind the approvals of an item.
LEMMA ApprovalAdded ==
  ASSUME NEW s \in Seq(Actors), NEW actor \in Actors
  PROVE  LET t == Append(s, actor)
         IN /\ t \in Seq(Actors) /\ t # <<>> /\ Len(t) = Len(s) + 1 /\ t[Len(t)] = actor
            /\ Range(t) = Range(s) \cup {actor}
<1>. DEFINE t == Append(s, actor)
<1>1. t \in Seq(Actors) /\ Len(t) = Len(s) + 1 /\ t[Len(t)] = actor /\ Len(s) \in Nat
  OBVIOUS
<1>2. t # <<>>
  BY <1>1
<1>3. /\ DOMAIN t = DOMAIN s \cup {Len(t)}
      /\ \A k \in DOMAIN s : t[k] = s[k]
  OBVIOUS
<1>4. Range(t) = Range(s) \cup {actor}
  BY <1>1, <1>3 DEF Range
<1>. QED BY <1>1, <1>2, <1>4

-----------------------------------------------------------------------------
(* Analysts.                                                               *)

LEMMA HoldingKeepsQueue ==
  ASSUME TInv, QInv, NEW a \in Analysts, NEW op, NEW item, NEW event, NEW choice, NEW loaded,
         Holding(a, op, item, event, choice, loaded),
         op \in {"resolve", "set", "acknowledge", "dismiss"} => item \in DOMAIN items,
         op = "acknowledge" => items[item].type = "grave",
         op \in {"resolve", "set"} => choice \in Actors,
         op = "set" => items[item].claim # 0 /\ (loaded # Nobody => loaded \in Chosen(item))
  PROVE  QInv'
<1>1. UNCHANGED <<actors, events, claims, items>>
  BY DEF Holding
<1>2. PICK r : r = [op |-> op, item |-> item, event |-> event, choice |-> choice, loaded |-> loaded]
  OBVIOUS
<1>3. \A b \in Analysts : request'[b] = IF b = a THEN r ELSE request[b]
  BY <1>2 DEF Holding, TInv, Typed
<1>4. \A i \in DOMAIN items : Chosen(i)' = Chosen(i)
  BY <1>1 DEF Chosen
<1>5. ASSUME NEW b \in Analysts
      PROVE  LET q == request'[b]
             IN /\ q.op \in {"resolve", "set", "acknowledge", "dismiss"} => q.item \in DOMAIN items
                /\ q.op = "acknowledge" => items[q.item].type = "grave"
                /\ q.op \in {"resolve", "set"} => q.choice \in Actors
                /\ q.op = "set" =>
                     items[q.item].claim # 0 /\ (q.loaded # Nobody => q.loaded \in Chosen(q.item))
  <2>1. CASE b = a
    BY <2>1, <1>2, <1>3
  <2>2. CASE b # a
    BY <2>2, <1>3 DEF QInv, RequestsRefer
  <2>. QED BY <2>1, <2>2
<1>6. RequestsRefer'
  BY <1>1, <1>5 DEF RequestsRefer, Chosen
<1>. QED BY <1>1, <1>6, AllHold, ItemsStay

\* The claimant that a decision loads was written by another decision on the item.
LEMMA LoadClaimKeepsQueue ==
  ASSUME TInv, QInv, NEW a \in Analysts, LoadClaim(a)
  PROVE  QInv'
<1>1. PICK i \in DOMAIN items : i = request[a].item
  BY DEF LoadClaim, QInv, RequestsRefer
<1>2. PICK c : c = items[i].claim /\ c # 0
  BY <1>1 DEF LoadClaim
<1>3. Holding(a, "set", i, 0, request[a].choice, claims[c].claimant) /\ request[a].choice \in Actors
  BY <1>1, <1>2 DEF LoadClaim, QInv, RequestsRefer
<1>4. claims[c].claimant # Nobody => claims[c].claimant \in Chosen(i)
  BY <1>2 DEF QInv, ItemSound
<1>. QED BY <1>2, <1>3, <1>4, HoldingKeepsQueue

\* An item that names no actor it was carried out with is closed.
LEMMA CloseKeeps ==
  ASSUME TInv, QInv, NEW a \in Analysts, NEW i \in DOMAIN items, NEW status \in Settled,
         Closed(i, status), Done(a), UNCHANGED <<actors, events, claims>>,
         status = "approved" => items[i].type # "entity"
  PROVE  QInv'
<1>1. PICK v : v = [items[i] EXCEPT !.status = status, !.choice = Nobody]
  OBVIOUS
<1>2. items[i] \in ItemRow
  BY DEF QInv
<1>3. /\ v \in ItemRow /\ v.status = status /\ v.approvals = items[i].approvals
      /\ v.type = items[i].type /\ v.event = items[i].event /\ v.claim = items[i].claim
  BY <1>1, <1>2 DEF ItemRow
<1>4. items' = [items EXCEPT ![i] = v]
  BY <1>1, <1>2 DEF Closed, ItemRow
<1>5. /\ items' \in Seq(ItemRow) /\ DOMAIN items' = DOMAIN items /\ items'[i] = v
      /\ \A j \in DOMAIN items : j # i => items'[j] = items[j]
      /\ ItemsGrow /\ ItemsRefer' /\ OneItemPerClaim'
  BY <1>3, <1>4, ItemWritten
<1>6. RequestsRefer'
  BY <1>5, RequestsRest
<1>7. ItemSound(i)'
  <2>1. Chosen(i)' = Chosen(i) /\ ItemSound(i)
    BY <1>3, <1>5 DEF Chosen, QInv
  <2>. QED BY <1>3, <1>5, <2>1 DEF ItemSound
<1>8. \A j \in DOMAIN items : j # i => ItemSound(j)'
  BY <1>5, AllHold, RowStays
<1>. QED BY <1>5, <1>6, <1>7, <1>8 DEF QInv

LEMMA AcknowledgeKeepsQueue ==
  ASSUME TInv, QInv, NEW a \in Analysts, Acknowledge(a)
  PROVE  QInv'
<1>1. request[a].item \in DOMAIN items /\ items[request[a].item].type = "grave"
  BY DEF Acknowledge, QInv, RequestsRefer
<1>2. /\ Closed(request[a].item, "approved") /\ Done(a)
      /\ UNCHANGED <<actors, events, claims>>
  BY DEF Acknowledge
<1>. QED BY <1>1, <1>2, CloseKeeps DEF Settled

LEMMA DismissKeepsQueue ==
  ASSUME TInv, QInv, NEW a \in Analysts, Dismiss(a)
  PROVE  QInv'
<1>1. request[a].item \in DOMAIN items
  BY DEF Dismiss, QInv, RequestsRefer
<1>2. /\ Closed(request[a].item, "rejected") /\ Done(a)
      /\ UNCHANGED <<actors, events, claims>>
  BY DEF Dismiss
<1>. QED BY <1>1, <1>2, CloseKeeps DEF Settled

\* The row of an item that is approved with an actor.
LEMMA ItemApproved ==
  ASSUME TInv, QInv, NEW a \in Analysts, NEW i \in DOMAIN items, NEW actor \in Actors,
         Approved(i, actor), Done(a),
         DOMAIN events \subseteq DOMAIN events', DOMAIN claims \subseteq DOMAIN claims'
  PROVE  /\ items' \in Seq(ItemRow) /\ DOMAIN items' = DOMAIN items
         /\ \A j \in DOMAIN items : j # i => items'[j] = items[j]
         /\ items'[i].approvals # <<>> /\ Len(items'[i].approvals) = Len(items[i].approvals) + 1
         /\ items'[i].approvals[Len(items'[i].approvals)] = actor
         /\ Chosen(i)' = Chosen(i) \cup {actor}
         /\ items'[i].choice = actor
         /\ items'[i].event = items[i].event /\ items'[i].claim = items[i].claim
         /\ ItemsRefer' /\ OneItemPerClaim' /\ RequestsRefer'
<1>1. PICK s \in Seq(Actors) : s = items[i].approvals
  <2>1. items[i] \in ItemRow
    BY DEF QInv
  <2>. QED BY <2>1 DEF ItemRow
<1>2. PICK t : t = Append(s, actor)
  OBVIOUS
<1>3. /\ t \in Seq(Actors) /\ t # <<>> /\ Len(t) = Len(s) + 1 /\ t[Len(t)] = actor
      /\ Range(t) = Range(s) \cup {actor}
  BY <1>2, ApprovalAdded
<1>4. PICK v : v = [items[i] EXCEPT !.status = "approved", !.choice = actor, !.approvals = t]
  OBVIOUS
<1>5. items[i] \in ItemRow
  BY DEF QInv
<1>6. /\ v \in ItemRow /\ v.approvals = t /\ v.choice = actor
      /\ v.type = items[i].type /\ v.event = items[i].event /\ v.claim = items[i].claim
  BY <1>3, <1>4, <1>5 DEF ItemRow, Settled
<1>7. items' = [items EXCEPT ![i] = v]
  BY <1>1, <1>2, <1>4, <1>5 DEF Approved, ItemRow
<1>8. /\ items' \in Seq(ItemRow) /\ DOMAIN items' = DOMAIN items /\ items'[i] = v
      /\ \A j \in DOMAIN items : j # i => items'[j] = items[j]
      /\ ItemsGrow /\ ItemsRefer' /\ OneItemPerClaim'
  BY <1>1, <1>3, <1>6, <1>7, ItemWritten
<1>9. Chosen(i)' = Chosen(i) \cup {actor}
  BY <1>1, <1>3, <1>6, <1>8 DEF Chosen
<1>10. RequestsRefer'
  BY <1>8, RequestsRest
<1>. QED BY <1>1, <1>3, <1>6, <1>8, <1>9, <1>10

\* The item is approved together with its link.
LEMMA LinkActorKeepsQueue ==
  ASSUME TInv, QInv, NEW a \in Analysts, LinkActor(a)
  PROVE  QInv'
<1>1. PICK i \in DOMAIN items : i = request[a].item
  BY DEF LinkActor, QInv, RequestsRefer
<1>2. PICK actor \in Actors : actor = request[a].choice
  BY DEF LinkActor, QInv, RequestsRefer
<1>3. PICK e \in DOMAIN events : e = items[i].event
  BY <1>1 DEF LinkActor, QInv, ItemsRefer
<1>4. /\ Approved(i, actor) /\ Done(a) /\ UNCHANGED <<actors, claims>> /\ items[i].claim = 0
      /\ events' = [events EXCEPT ![e].links = @ \cup {actor}]
  BY <1>1, <1>2, <1>3 DEF LinkActor
<1>5. /\ DOMAIN events' = DOMAIN events
      /\ \A f \in DOMAIN events : events[f].links \subseteq events'[f].links
      /\ actor \in events'[e].links
  <2>1. events[e] \in EventType
    BY DEF TInv, Typed
  <2>2. events'[e].links = events[e].links \cup {actor}
    BY <1>4, <2>1 DEF EventType
  <2>3. \A f \in DOMAIN events : f # e => events'[f] = events[f]
    BY <1>4
  <2>. QED BY <1>4, <2>2, <2>3
<1>6. Holds
  BY <1>4, <1>5 DEF Holds, LinksHold, ClaimantsHold, ClaimantHolds
<1>7. /\ items' \in Seq(ItemRow) /\ DOMAIN items' = DOMAIN items
      /\ \A j \in DOMAIN items : j # i => items'[j] = items[j]
      /\ items'[i].approvals # <<>> /\ items'[i].choice = actor
      /\ items'[i].approvals[Len(items'[i].approvals)] = actor
      /\ Chosen(i)' = Chosen(i) \cup {actor}
      /\ items'[i].event = items[i].event /\ items'[i].claim = items[i].claim
      /\ ItemsRefer' /\ OneItemPerClaim' /\ RequestsRefer'
  BY <1>4, <1>5, ItemApproved
<1>8. ItemSound(i)'
  <2>1. Chosen(i) \cap actors \subseteq events[e].links
    BY <1>3, <1>4 DEF QInv, ItemSound
  <2>2. Chosen(i)' \cap actors' \subseteq events'[e].links
    BY <1>4, <1>5, <1>7, <2>1
  <2>. QED BY <1>3, <1>4, <1>7, <2>2 DEF ItemSound
<1>9. \A j \in DOMAIN items : j # i => ItemSound(j)'
  BY <1>6, <1>7, RowStays
<1>. QED BY <1>7, <1>8, <1>9 DEF QInv

\* The item is approved together with its claim: the claimant is the actor, be it
\* written or loaded, and only in the latter case may a third decision be in between.
LEMMA SetClaimantKeepsQueue ==
  ASSUME TInv, QInv, NEW a \in Analysts, SetClaimant(a)
  PROVE  QInv'
<1>1. PICK i \in DOMAIN items : i = request[a].item
  BY DEF SetClaimant, QInv, RequestsRefer
<1>2. PICK actor \in Actors : actor = request[a].choice
  BY DEF SetClaimant, QInv, RequestsRefer
<1>3. PICK c \in DOMAIN claims : c = items[i].claim /\ c # 0
  BY <1>1 DEF SetClaimant, QInv, ItemsRefer, RequestsRefer
<1>4. Approved(i, actor) /\ Done(a) /\ UNCHANGED <<actors, events>>
  BY <1>1, <1>2 DEF SetClaimant
<1>5. actor # Nobody
  BY EventReviewAssumption
<1>6. DOMAIN claims' = DOMAIN claims
  BY DEF SetClaimant
<1>7. /\ items' \in Seq(ItemRow) /\ DOMAIN items' = DOMAIN items
      /\ \A j \in DOMAIN items : j # i => items'[j] = items[j]
      /\ items'[i].approvals # <<>> /\ Len(items'[i].approvals) = Len(items[i].approvals) + 1
      /\ items'[i].approvals[Len(items'[i].approvals)] = actor
      /\ Chosen(i)' = Chosen(i) \cup {actor}
      /\ items'[i].choice = actor
      /\ items'[i].event = items[i].event /\ items'[i].claim = items[i].claim
      /\ ItemsRefer' /\ OneItemPerClaim' /\ RequestsRefer'
  BY <1>4, <1>6, ItemApproved
<1>8. CASE actor = request[a].loaded
  <2>1. UNCHANGED claims
    BY <1>2, <1>8 DEF SetClaimant
  <2>2. actor \in Chosen(i)
    BY <1>1, <1>5, <1>8 DEF SetClaimant, QInv, RequestsRefer
  <2>3. Chosen(i)' = Chosen(i)
    BY <1>7, <2>2
  <2>4. items[i].approvals \in Seq(Actors) /\ items[i].approvals # <<>>
    <3>1. items[i] \in ItemRow
      BY DEF QInv
    <3>2. items[i].approvals \in Seq(Actors)
      BY <3>1 DEF ItemRow
    <3>. QED BY <2>2, <3>2 DEF Chosen, Range
  <2>5. ASSUME claims[c].live, Chosen(i) \subseteq actors
        PROVE  claims[c].claimant # Nobody
    BY <1>3, <2>4, <2>5 DEF QInv, ItemSound
  <2>6. ASSUME claims[c].live, Chosen(i) \subseteq actors, Len(items[i].approvals) + 1 <= 2
        PROVE  claims[c].claimant = actor
    <3>1. PICK s \in Seq(Actors) : s = items[i].approvals /\ s # <<>>
      BY <2>4
    <3>2. Len(s) = 1 /\ DOMAIN s = {1}
      <4>1. Len(s) + 1 <= 2
        BY <2>6, <3>1
      <4>2. Len(s) # 0 /\ Len(s) \in Nat /\ DOMAIN s = 1 .. Len(s)
        BY <3>1
      <4>. QED BY <4>1, <4>2
    <3>3. Chosen(i) = {s[1]}
      BY <3>1, <3>2 DEF Chosen, Range
    <3>4. claims[c].claimant = s[Len(s)]
      <4>1. ItemSound(i)
        BY DEF QInv
      <4>2. Len(s) <= 2
        BY <3>2
      <4>. QED BY <1>3, <2>6, <3>1, <4>1, <4>2 DEF ItemSound
    <3>. QED BY <2>2, <3>2, <3>3, <3>4
  <2>7. claims[c].claimant # Nobody => claims[c].claimant \in Chosen(i)
    BY <1>3 DEF QInv, ItemSound
  <2>8. ItemSound(i)'
    BY <1>3, <1>4, <1>7, <2>1, <2>3, <2>5, <2>6, <2>7 DEF ItemSound
  <2>9. \A j \in DOMAIN items : j # i => ItemSound(j)'
    BY <1>4, <1>7, <2>1, AllHold, RowStays
  <2>. QED BY <1>7, <2>8, <2>9 DEF QInv
<1>9. CASE actor # request[a].loaded
  <2>1. claims' = [claims EXCEPT ![c].claimant = actor]
    BY <1>1, <1>2, <1>3, <1>9 DEF SetClaimant
  <2>2. claims[c] \in ClaimRow
    BY DEF TInv, Typed
  <2>3. claims'[c].claimant = actor /\ \A d \in DOMAIN claims : d # c => claims'[d] = claims[d]
    BY <2>1, <2>2 DEF ClaimRow
  <2>4. ItemSound(i)'
    BY <1>3, <1>5, <1>7, <2>3 DEF ItemSound
  <2>5. ASSUME NEW j \in DOMAIN items, j # i PROVE ItemSound(j)'
    <3>1. items'[j] = items[j] /\ Chosen(j)' = Chosen(j) /\ ItemSound(j)
      BY <1>7, <2>5 DEF Chosen, QInv
    <3>2. items[j].claim # 0 =>
            items[j].claim \in DOMAIN claims /\ items[j].claim # c
      BY <1>3, <2>5 DEF QInv, ItemsRefer, OneItemPerClaim
    <3>3. items[j].claim # 0 => claims'[items[j].claim] = claims[items[j].claim]
      BY <2>3, <3>2
    <3>. QED BY <1>4, <3>1, <3>3 DEF ItemSound
  <2>. QED BY <1>7, <2>4, <2>5 DEF QInv
<1>. QED BY <1>8, <1>9

\* A lifecycle changes no links.
LEMMA SetLifecycleKeepsQueue ==
  ASSUME TInv, QInv, NEW a \in Analysts, SetLifecycle(a)
  PROVE  QInv'
<1>1. UNCHANGED <<actors, claims, items>> /\ Done(a)
  BY DEF SetLifecycle
<1>2. PICK status : events' = [events EXCEPT ![request[a].event].status = status]
  BY DEF SetLifecycle
<1>3. /\ DOMAIN events' = DOMAIN events
      /\ \A e \in DOMAIN events : events'[e].links = events[e].links
  <2>1. ASSUME NEW e \in DOMAIN events PROVE events'[e].links = events[e].links
    <3>1. events[e] \in EventType
      BY DEF TInv, Typed
    <3>. QED BY <1>2, <3>1 DEF EventType
  <2>. QED BY <1>2, <2>1
<1>4. Holds
  BY <1>1, <1>3 DEF Holds, LinksHold, ClaimantsHold, ClaimantHolds
<1>. QED BY <1>1, <1>4, EditKeepsItems

LEMMA RequestFailsKeepsQueue ==
  ASSUME TInv, QInv, NEW a \in Analysts, RequestFails(a)
  PROVE  QInv'
<1>1. UNCHANGED <<actors, events, claims, items>> /\ Done(a)
  BY DEF RequestFails
<1>. QED BY <1>1, AllHold, EditKeepsItems

-----------------------------------------------------------------------------
(* Edits.                                                                  *)

\* An edit leaves items and requests alone.
LEMMA EditHolds ==
  ASSUME TInv, QInv, Holds, UNCHANGED <<items, request>>
  PROVE  QInv'
BY EditKeepsItems

\* Events keep their links, claims and actors stay.
LEMMA LinksKept ==
  ASSUME UNCHANGED actors, DOMAIN events \subseteq DOMAIN events',
         \A e \in DOMAIN events : events[e].links \subseteq events'[e].links, ClaimantsHold
  PROVE  Holds
BY DEF Holds, LinksHold

\* A claim loses evidence or itself; events and actors stay.
LEMMA OneClaimHolds ==
  ASSUME TInv, UNCHANGED <<actors, events>>, NEW c \in DOMAIN claims, NEW v,
         claims' = [claims EXCEPT ![c] = v],
         v.live => claims[c].live, v.claimant = claims[c].claimant
  PROVE  Holds
<1>1. \A d \in DOMAIN claims : claims'[d] = IF d = c THEN v ELSE claims[d]
  OBVIOUS
<1>. QED BY <1>1 DEF Holds, LinksHold, ClaimantsHold, ClaimantHolds

LEMMA AddActorKeepsQueue ==
  ASSUME TInv, QInv, NEW e \in DOMAIN events, NEW actor \in Actors, AddActor(e, actor)
  PROVE  QInv'
<1>1. /\ events' = [events EXCEPT ![e].links = @ \cup {actor}]
      /\ UNCHANGED <<actors, claims, items, request>>
  BY DEF AddActor
<1>2. events[e] \in EventType
  BY DEF TInv, Typed
<1>3. events'[e].links = events[e].links \cup {actor}
  BY <1>1, <1>2 DEF EventType
<1>4. \A f \in DOMAIN events : f # e => events'[f] = events[f]
  BY <1>1
<1>5. ClaimantsHold
  BY <1>1 DEF ClaimantsHold, ClaimantHolds
<1>6. DOMAIN events' = DOMAIN events
  BY <1>1
<1>. QED BY <1>1, <1>3, <1>4, <1>5, <1>6, LinksKept, EditHolds

\* Claims are added behind those there are.
LEMMA ClaimAddedHolds ==
  ASSUME TInv, NEW v, claims' = Append(claims, v)
  PROVE  /\ ClaimantsHold /\ Len(claims) + 1 \in DOMAIN claims' \ DOMAIN claims
         /\ claims'[Len(claims) + 1] = v
<1>1. /\ DOMAIN claims' = DOMAIN claims \cup {Len(claims) + 1}
      /\ Len(claims) + 1 \notin DOMAIN claims /\ claims'[Len(claims) + 1] = v
      /\ \A c \in DOMAIN claims : claims'[c] = claims[c]
  BY DEF TInv, Typed
<1>. QED BY <1>1 DEF ClaimantsHold, ClaimantHolds

LEMMA CreateClaimKeepsQueue ==
  ASSUME TInv, QInv, NEW e, NEW claimant, CreateClaim(e, claimant)
  PROVE  QInv'
<1>1. PICK v : v = Claim(e, claimant, FALSE)
  OBVIOUS
<1>2. claims' = Append(claims, v) /\ UNCHANGED <<actors, events, items, request>>
  BY <1>1 DEF CreateClaim
<1>3. Holds
  BY <1>2, ClaimAddedHolds DEF Holds, LinksHold
<1>. QED BY <1>2, <1>3, EditHolds

LEMMA AddEvidenceKeepsQueue ==
  ASSUME TInv, QInv, NEW c \in DOMAIN claims, AddEvidence(c)
  PROVE  QInv'
<1>1. /\ claims' = [claims EXCEPT ![c].evidence = TRUE]
      /\ UNCHANGED <<actors, items, request>>
  BY DEF AddEvidence
<1>2. PICK e : events' \in {events, [events EXCEPT ![e].traced = TRUE]}
  BY DEF AddEvidence
<1>3. /\ DOMAIN events' = DOMAIN events
      /\ \A f \in DOMAIN events : events'[f].links = events[f].links
  <2>1. ASSUME NEW f \in DOMAIN events PROVE events'[f].links = events[f].links
    <3>1. events[f] \in EventType
      BY DEF TInv, Typed
    <3>. QED BY <1>2, <3>1 DEF EventType
  <2>. QED BY <1>2, <2>1
<1>4. /\ DOMAIN claims' = DOMAIN claims
      /\ \A d \in DOMAIN claims : /\ claims'[d].live = claims[d].live
                                  /\ claims'[d].claimant = claims[d].claimant
  <2>1. ASSUME NEW d \in DOMAIN claims
        PROVE  claims'[d].live = claims[d].live /\ claims'[d].claimant = claims[d].claimant
    <3>1. claims[d] \in ClaimRow
      BY DEF TInv, Typed
    <3>. QED BY <1>1, <3>1 DEF ClaimRow
  <2>. QED BY <1>1, <2>1
<1>5. ClaimantsHold
  BY <1>4 DEF ClaimantsHold, ClaimantHolds
<1>. QED BY <1>1, <1>3, <1>5, LinksKept, EditHolds

LEMMA DeleteClaimKeepsQueue ==
  ASSUME TInv, QInv, NEW c \in DOMAIN claims, DeleteClaim(c)
  PROVE  QInv'
<1>1. PICK v : v = [claims[c] EXCEPT !.live = FALSE, !.evidence = FALSE]
  OBVIOUS
<1>2. claims[c] \in ClaimRow
  BY DEF TInv, Typed
<1>3. ~v.live /\ v.claimant = claims[c].claimant
  BY <1>1, <1>2 DEF ClaimRow
<1>4. claims' = [claims EXCEPT ![c] = v] /\ UNCHANGED <<actors, events, items, request>>
  BY <1>1 DEF DeleteClaim, Withdraw
<1>. QED BY <1>3, <1>4, OneClaimHolds, EditHolds

LEMMA DeleteEvidenceKeepsQueue ==
  ASSUME TInv, QInv, NEW c \in DOMAIN claims, DeleteEvidence(c)
  PROVE  QInv'
<1>1. PICK v : v = [claims[c] EXCEPT !.evidence = FALSE]
  OBVIOUS
<1>2. claims[c] \in ClaimRow
  BY DEF TInv, Typed
<1>3. v.live = claims[c].live /\ v.claimant = claims[c].claimant
  BY <1>1, <1>2 DEF ClaimRow
<1>4. claims' = [claims EXCEPT ![c] = v] /\ UNCHANGED <<actors, events, items, request>>
  BY <1>1 DEF DeleteEvidence, Withdraw
<1>. QED BY <1>3, <1>4, OneClaimHolds, EditHolds

\* Only what names the actor changes, and the actor has no row any more.
LEMMA DeleteActorKeepsQueue ==
  ASSUME TInv, QInv, NEW actor \in Actors, DeleteActor(actor)
  PROVE  QInv'
<1>1. /\ events' = [e \in DOMAIN events |-> [events[e] EXCEPT !.links = @ \ {actor}]]
      /\ claims' = [c \in DOMAIN claims |-> IF claims[c].claimant = actor
                                            THEN [claims[c] EXCEPT !.claimant = Nobody]
                                            ELSE claims[c]]
      /\ actors' = actors \ {actor} /\ UNCHANGED <<items, request>>
  BY DEF DeleteActor, Withdraw
<1>2. ASSUME NEW e \in DOMAIN events PROVE events'[e].links = events[e].links \ {actor}
  <2>1. PICK r \in EventType : r = events[e]
    BY DEF TInv, Typed
  <2>2. events'[e] = [r EXCEPT !.links = @ \ {actor}]
    BY <1>1, <2>1
  <2>. QED BY <2>1, <2>2 DEF EventType
<1>3. ASSUME NEW c \in DOMAIN claims PROVE ClaimantHolds(c)
  <2>1. PICK r \in ClaimRow : r = claims[c]
    BY DEF TInv, Typed
  <2>2. PICK t : t = [r EXCEPT !.claimant = Nobody]
    OBVIOUS
  <2>3. t.live = r.live /\ t.claimant = Nobody
    BY <2>2 DEF ClaimRow
  <2>4. claims'[c] = IF r.claimant = actor THEN t ELSE r
    BY <1>1, <2>1, <2>2
  <2>5. actor \notin actors'
    BY <1>1
  <2>. QED BY <2>1, <2>3, <2>4, <2>5 DEF ClaimantHolds
<1>4. DOMAIN events' = DOMAIN events /\ DOMAIN claims' = DOMAIN claims
  BY <1>1
<1>5. Holds
  BY <1>1, <1>2, <1>3, <1>4 DEF Holds, LinksHold, ClaimantsHold
<1>. QED BY <1>1, <1>5, EditHolds

-----------------------------------------------------------------------------
(* What is queued.                                                         *)

\* Rows q may be queued: pending, about rows there are, and the only ones that
\* write a claim, which is new and has no claimant.
Queueable(q) ==
  /\ q \in Seq(ItemRow)
  /\ \A k \in DOMAIN q :
       /\ q[k].status = "pending" /\ q[k].approvals = <<>>
       /\ q[k].event \in {0} \cup DOMAIN events'
       /\ q[k].claim = 0 => q[k].event \in DOMAIN events'
       /\ q[k].claim # 0 => /\ q[k].claim \in DOMAIN claims' \ DOMAIN claims
                            /\ claims'[q[k].claim].claimant = Nobody
  /\ \A k, l \in DOMAIN q : k # l /\ q[k].claim # 0 => q[l].claim # q[k].claim

\* Rows q are put behind rows p.
LEMMA Concatenated ==
  ASSUME NEW R, NEW p \in Seq(R), NEW q \in Seq(R)
  PROVE  /\ p \o q \in Seq(R)
         /\ DOMAIN p \subseteq DOMAIN (p \o q)
         /\ \A i \in DOMAIN p : (p \o q)[i] = p[i]
         /\ \A i \in DOMAIN (p \o q) \ DOMAIN p :
              i - Len(p) \in DOMAIN q /\ (p \o q)[i] = q[i - Len(p)]
OBVIOUS

LEMMA ItemsQueued ==
  ASSUME TInv, QInv, Holds, UNCHANGED request, NEW q, Queueable(q), items' = items \o q
  PROVE  QInv'
<1>1. PICK n \in Nat : n = Len(items)
  BY DEF QInv
<1>2. /\ items' \in Seq(ItemRow) /\ DOMAIN items \subseteq DOMAIN items'
      /\ \A i \in DOMAIN items : items'[i] = items[i]
      /\ \A i \in DOMAIN items' \ DOMAIN items :
           i - n \in DOMAIN q /\ items'[i] = q[i - n]
  BY <1>1, Concatenated DEF QInv, Queueable
<1>3. \A i \in DOMAIN items' \ DOMAIN items :
        /\ items'[i].status = "pending" /\ items'[i].approvals = <<>>
        /\ items'[i].event \in {0} \cup DOMAIN events'
        /\ items'[i].claim = 0 => items'[i].event \in DOMAIN events'
        /\ items'[i].claim # 0 => /\ items'[i].claim \in DOMAIN claims' \ DOMAIN claims
                                  /\ claims'[items'[i].claim].claimant = Nobody
  BY <1>2 DEF Queueable
<1>4. ASSUME NEW i \in DOMAIN items' PROVE ItemSound(i)'
  <2>1. CASE i \in DOMAIN items
    BY <1>2, <2>1, RowStays
  <2>2. CASE i \notin DOMAIN items
    <3>1. items'[i].approvals = <<>> /\ items'[i].status = "pending"
      BY <1>3, <2>2
    <3>2. Chosen(i)' = {}
      BY <3>1 DEF Chosen, Range
    <3>3. items'[i].claim # 0 => claims'[items'[i].claim].claimant = Nobody
      BY <1>3, <2>2
    <3>. QED BY <3>1, <3>2, <3>3 DEF ItemSound
  <2>. QED BY <2>1, <2>2
<1>5. ItemsRefer'
  BY <1>2, <1>3 DEF QInv, ItemsRefer, Holds, LinksHold, ClaimantsHold
<1>6. OneItemPerClaim'
  <2>. SUFFICES ASSUME NEW i \in DOMAIN items', NEW j \in DOMAIN items',
                       i # j, items'[i].claim # 0, items'[j].claim = items'[i].claim
                PROVE  FALSE
    BY DEF OneItemPerClaim
  <2>1. CASE i \in DOMAIN items /\ j \in DOMAIN items
    BY <2>1, <1>2 DEF QInv, OneItemPerClaim
  <2>2. CASE i \in DOMAIN items /\ j \notin DOMAIN items
    BY <2>2, <1>2, <1>3 DEF QInv, ItemsRefer
  <2>3. CASE i \notin DOMAIN items /\ j \in DOMAIN items
    BY <2>3, <1>2, <1>3 DEF QInv, ItemsRefer
  <2>4. CASE i \notin DOMAIN items /\ j \notin DOMAIN items
    <3>1. i \in Int /\ j \in Int
      BY <1>2
    <3>2. i - n # j - n
      BY <3>1
    <3>. QED BY <2>4, <3>2, <1>2 DEF Queueable
  <2>. QED BY <2>1, <2>2, <2>3, <2>4
<1>7. RequestsRefer'
  <2>1. ItemsGrow
    BY <1>2 DEF ItemsGrow, Chosen
  <2>. QED BY <2>1, RequestsRest
<1>. QED BY <1>2, <1>4, <1>5, <1>6, <1>7 DEF QInv

\* One more row is queued: what an event that is new has to say.
LEMMA EventItemQueued ==
  ASSUME TInv, QInv, Holds, UNCHANGED request, NEW type \in {"duplicate", "grave"},
         NEW e \in DOMAIN events', e \in Nat, items' = Append(items, Item(type, e, 0))
  PROVE  QInv'
<1>1. PICK w : w = Item(type, e, 0)
  OBVIOUS
<1>2. /\ w \in ItemRow /\ w.status = "pending" /\ w.approvals = <<>>
      /\ w.event = e /\ w.claim = 0
  BY <1>1 DEF Item, ItemRow
<1>3. Queueable(<<w>>)
  BY <1>2 DEF Queueable
<1>4. items' = items \o <<w>>
  BY <1>1 DEF QInv
<1>. QED BY <1>3, <1>4, ItemsQueued

\* A row, or none.
LEMMA RowOrNone ==
  ASSUME NEW R, NEW v \in R, NEW s, s = <<v>> \/ s = <<>>
  PROVE  s \in Seq(R) /\ Len(s) \in {0, 1} /\ \A k \in DOMAIN s : s[k] = v
<1>1. CASE s = <<v>>
  BY <1>1
<1>2. CASE s = <<>>
  BY <1>2
<1>. QED BY <1>1, <1>2

\* A vague actor of the event writes no claim, and a vague claimant writes the claim
\* of the document.
LEMMA QueuedQueueable ==
  ASSUME NEW vague, NEW e \in Nat, NEW c \in Nat, c # 0,
         "event" \in vague => e \in DOMAIN events',
         "claim" \in vague => /\ c \in DOMAIN claims' \ DOMAIN claims
                              /\ claims'[c].claimant = Nobody
  PROVE  Queueable(Queued(vague, e, c))
<1>. DEFINE E == IF "event" \in vague THEN <<Item("entity", e, 0)>> ELSE <<>>
            C == IF "claim" \in vague THEN <<Item("entity", 0, c)>> ELSE <<>>
<1>1. /\ E \in Seq(ItemRow) /\ Len(E) \in {0, 1}
      /\ \A k \in DOMAIN E : /\ E[k].status = "pending" /\ E[k].approvals = <<>>
                             /\ E[k].event = e /\ E[k].claim = 0 /\ "event" \in vague
  <2>1. PICK v : v = Item("entity", e, 0)
    OBVIOUS
  <2>2. /\ v \in ItemRow /\ v.status = "pending" /\ v.approvals = <<>>
        /\ v.event = e /\ v.claim = 0
    BY <2>1 DEF Item, ItemRow
  <2>3. (E = <<v>> /\ "event" \in vague) \/ E = <<>>
    BY <2>1
  <2>. HIDE DEF E
  <2>4. E \in Seq(ItemRow) /\ Len(E) \in {0, 1} /\ \A k \in DOMAIN E : E[k] = v
    BY <2>2, <2>3, RowOrNone
  <2>. QED BY <2>2, <2>3, <2>4
<1>2. /\ C \in Seq(ItemRow) /\ Len(C) \in {0, 1}
      /\ \A k \in DOMAIN C : /\ C[k].status = "pending" /\ C[k].approvals = <<>>
                             /\ C[k].event = 0 /\ C[k].claim = c /\ "claim" \in vague
  <2>1. PICK v : v = Item("entity", 0, c)
    OBVIOUS
  <2>2. /\ v \in ItemRow /\ v.status = "pending" /\ v.approvals = <<>>
        /\ v.event = 0 /\ v.claim = c
    BY <2>1 DEF Item, ItemRow
  <2>3. (C = <<v>> /\ "claim" \in vague) \/ C = <<>>
    BY <2>1
  <2>. HIDE DEF C
  <2>4. C \in Seq(ItemRow) /\ Len(C) \in {0, 1} /\ \A k \in DOMAIN C : C[k] = v
    BY <2>2, <2>3, RowOrNone
  <2>. QED BY <2>2, <2>3, <2>4
<1>3. Queued(vague, e, c) = E \o C
  BY DEF Queued
<1>. HIDE DEF E, C
<1>4. PICK q : q = E \o C
  OBVIOUS
<1>5. /\ q \in Seq(ItemRow) /\ Len(q) = Len(E) + Len(C)
      /\ \A k \in DOMAIN q :
           \/ k \in DOMAIN E /\ q[k] = E[k]
           \/ k \notin DOMAIN E /\ k - Len(E) \in DOMAIN C /\ q[k] = C[k - Len(E)]
  BY <1>1, <1>2, <1>4, Concatenated
<1>6. \A k, l \in DOMAIN q : k \notin DOMAIN E /\ l \notin DOMAIN E => k = l
  BY <1>1, <1>2, <1>5
<1>7. ASSUME NEW k \in DOMAIN q
      PROVE  /\ q[k].status = "pending" /\ q[k].approvals = <<>>
             /\ q[k].event \in {0} \cup DOMAIN events'
             /\ q[k].claim = 0 => q[k].event \in DOMAIN events'
             /\ q[k].claim # 0 => /\ q[k].claim \in DOMAIN claims' \ DOMAIN claims
                                  /\ claims'[q[k].claim].claimant = Nobody
                                  /\ k \notin DOMAIN E
  <2>1. CASE k \in DOMAIN E /\ q[k] = E[k]
    BY <1>1, <2>1
  <2>2. CASE k \notin DOMAIN E /\ k - Len(E) \in DOMAIN C /\ q[k] = C[k - Len(E)]
    BY <1>2, <2>2
  <2>. QED BY <1>5, <2>1, <2>2
<1>8. \A k, l \in DOMAIN q : k # l /\ q[k].claim # 0 => q[l].claim # q[k].claim
  BY <1>6, <1>7
<1>9. Queueable(q)
  BY <1>5, <1>7, <1>8 DEF Queueable
<1>. QED BY <1>3, <1>4, <1>9

\* A claim whose claimant is vague has a row by the time its item is queued, and no
\* claimant.
LEMMA ClaimedHolds ==
  ASSUME TInv, NEW e, NEW claimant, NEW vague, Claimed(e, claimant, vague)
  PROVE  /\ ClaimantsHold
         /\ "claim" \in vague => /\ Len(claims) + 1 \in DOMAIN claims' \ DOMAIN claims
                                 /\ claims'[Len(claims) + 1].claimant = Nobody
<1>1. CASE claimant = NoClaim
  BY <1>1 DEF Claimed, ClaimantsHold, ClaimantHolds, NoClaim, Nobody
<1>2. CASE claimant # NoClaim
  <2>1. PICK v : v = Claim(e, claimant, TRUE)
    OBVIOUS
  <2>2. claims' = Append(claims, v) /\ v.claimant = claimant
    BY <1>2, <2>1 DEF Claimed, Claim
  <2>. QED BY <2>2, ClaimAddedHolds DEF Claimed
<1>. QED BY <1>1, <1>2

\* What is vague in a document is queued with its claim.
LEMMA QueueKeepsQueue ==
  ASSUME TInv, QInv, NEW e \in Nat, NEW claimant, NEW vague, Claimed(e, claimant, vague),
         Queue(vague, e), UNCHANGED <<actors, request>>, LinksHold,
         "event" \in vague => e \in DOMAIN events'
  PROVE  QInv'
<1>1. PICK c \in Nat : c = Len(claims) + 1 /\ c # 0
  BY DEF TInv, Typed
<1>2. /\ ClaimantsHold
      /\ "claim" \in vague => c \in DOMAIN claims' \ DOMAIN claims /\ claims'[c].claimant = Nobody
  BY <1>1, ClaimedHolds
<1>3. Holds
  BY <1>2 DEF Holds
<1>4. PICK q : q = Queued(vague, e, c)
  OBVIOUS
<1>5. Queueable(q)
  BY <1>1, <1>2, <1>4, QueuedQueueable
<1>6. items' = items \o q
  BY <1>1, <1>4 DEF Queue
<1>. QED BY <1>3, <1>5, <1>6, ItemsQueued

LEMMA MergeKeepsQueue ==
  ASSUME TInv, QInv, NEW x \in Extractors, NEW claimant, NEW vague, Merge(x, claimant, vague)
  PROVE  QInv'
<1>1. PICK e \in DOMAIN events, t \in EventType :
        /\ e = CHOOSE f \in extraction[x].found : TRUE
        /\ events' = [events EXCEPT ![e] = t] /\ events[e].links \subseteq t.links
  BY MergeExtends
<1>2. /\ DOMAIN events' = DOMAIN events
      /\ \A f \in DOMAIN events : events'[f] = IF f = e THEN t ELSE events[f]
  BY <1>1
<1>3. LinksHold
  BY <1>1, <1>2 DEF LinksHold
<1>4. e \in Nat
  BY DEF TInv, Typed
<1>5. Claimed(e, claimant, vague) /\ Queue(vague, e) /\ UNCHANGED <<actors, request>>
  BY <1>1 DEF Merge
<1>. QED BY <1>2, <1>3, <1>4, <1>5, QueueKeepsQueue

LEMMA ClaimWithoutEventKeepsQueue ==
  ASSUME TInv, QInv, NEW claimant, NEW vague \in SUBSET {"claim"},
         ClaimWithoutEvent(claimant, vague)
  PROVE  QInv'
<1>1. Claimed(0, claimant, vague) /\ Queue(vague, 0) /\ UNCHANGED <<actors, events, request>>
  BY DEF ClaimWithoutEvent
<1>2. LinksHold
  BY <1>1 DEF LinksHold
<1>3. "event" \notin vague
  OBVIOUS
<1>. QED BY <1>1, <1>2, <1>3, QueueKeepsQueue

\* An event is added behind those there are.
LEMMA EventAddedHolds ==
  ASSUME TInv, NEW v, events' = Append(events, v), UNCHANGED <<actors, claims>>
  PROVE  Holds /\ Len(events) + 1 \in DOMAIN events' /\ Len(events) + 1 \in Nat
<1>1. /\ DOMAIN events' = DOMAIN events \cup {Len(events) + 1} /\ Len(events) + 1 \in Nat
      /\ \A e \in DOMAIN events : events'[e] = events[e]
  BY DEF TInv, Typed
<1>. QED BY <1>1 DEF Holds, LinksHold, ClaimantsHold, ClaimantHolds

\* create_event queues a grave event for review.
LEMMA CreateEventKeepsQueue ==
  ASSUME TInv, QInv, NEW grade, CreateEvent(grade)
  PROVE  QInv'
<1>1. PICK v : v = NewEvent(grade, {})
  OBVIOUS
<1>2. events' = Append(events, v) /\ UNCHANGED <<actors, claims, request>>
  BY <1>1 DEF CreateEvent
<1>3. PICK e \in DOMAIN events' : e = Len(events) + 1 /\ e \in Nat
  BY <1>2, EventAddedHolds
<1>4. Holds
  BY <1>2, EventAddedHolds
<1>5. CASE UNCHANGED items
  BY <1>2, <1>4, <1>5, EditHolds
<1>6. CASE items' = Append(items, Item("grave", e, 0))
  BY <1>2, <1>3, <1>4, <1>6, EventItemQueued
<1>. QED BY <1>3, <1>5, <1>6 DEF CreateEvent

\* A new event that could be one of several others is queued as their duplicate.
LEMMA StopAtNewEventKeepsQueue ==
  ASSUME TInv, QInv, NEW x \in Extractors, StopAtNewEvent(x)
  PROVE  QInv'
<1>1. PICK v : v = NewEvent(extraction[x].grade, extraction[x].sure)
  OBVIOUS
<1>2. events' = Append(events, v) /\ UNCHANGED <<actors, claims, request>>
  BY <1>1 DEF StopAtNewEvent
<1>3. PICK e \in DOMAIN events' : e = Len(events) + 1 /\ e \in Nat
  BY <1>2, EventAddedHolds
<1>4. Holds
  BY <1>2, EventAddedHolds
<1>5. CASE UNCHANGED items
  BY <1>2, <1>4, <1>5, EditHolds
<1>6. CASE items' = Append(items, Item("duplicate", e, 0))
  BY <1>2, <1>3, <1>4, <1>6, EventItemQueued
<1>. QED BY <1>3, <1>5, <1>6 DEF StopAtNewEvent

-----------------------------------------------------------------------------
(* All steps.                                                              *)

LEMMA ExtractKeepsQueue ==
  ASSUME TInv, QInv, NEW x \in Extractors, Extract(x)
  PROVE  QInv'
<1>1. CASE (\E grade \in Grades, sure \in SUBSET actors : Lookup(x, grade, sure))
           \/ ExtractionAborts(x)
  <2>1. UNCHANGED <<actors, events, claims, items, request>>
    BY <1>1 DEF Lookup, ExtractionAborts
  <2>. QED BY <2>1, AllHold, EditHolds
<1>2. CASE \E claimant \in actors \cup {Nobody, NoClaim}, vague \in SUBSET {"event", "claim"} :
             Merge(x, claimant, vague)
  BY <1>2, MergeKeepsQueue
<1>3. CASE StopAtNewEvent(x)
  BY <1>3, StopAtNewEventKeepsQueue
<1>. QED BY <1>1, <1>2, <1>3 DEF Extract

LEMMA AnalyseKeepsQueue ==
  ASSUME TInv, QInv, NEW a \in Analysts, Analyse(a)
  PROVE  QInv'
<1>1. CASE \E i \in DOMAIN items : \E actor \in Actors : AskResolve(a, i, actor)
  BY <1>1, HoldingKeepsQueue DEF AskResolve, Ask
<1>2. CASE \E i \in DOMAIN items : AskAcknowledge(a, i)
  BY <1>2, HoldingKeepsQueue DEF AskAcknowledge, Ask
<1>3. CASE \E i \in DOMAIN items : AskDismiss(a, i)
  BY <1>3, HoldingKeepsQueue DEF AskDismiss, Ask
<1>4. CASE \E e \in DOMAIN events : AskApprove(a, e) \/ AskReject(a, e)
  BY <1>4, HoldingKeepsQueue DEF AskApprove, AskReject, Ask
<1>5. CASE LoadClaim(a)
  BY <1>5, LoadClaimKeepsQueue
<1>6. CASE LinkActor(a) \/ SetClaimant(a)
  BY <1>6, LinkActorKeepsQueue, SetClaimantKeepsQueue
<1>7. CASE Acknowledge(a) \/ Dismiss(a)
  BY <1>7, AcknowledgeKeepsQueue, DismissKeepsQueue
<1>8. CASE SetLifecycle(a) \/ RequestFails(a)
  BY <1>8, SetLifecycleKeepsQueue, RequestFailsKeepsQueue
<1>. QED BY <1>1, <1>2, <1>3, <1>4, <1>5, <1>6, <1>7, <1>8 DEF Analyse

LEMMA EditKeepsQueue ==
  ASSUME TInv, QInv, Edit
  PROVE  QInv'
<1>1. CASE \E grade \in Grades : CreateEvent(grade)
  BY <1>1, CreateEventKeepsQueue
<1>2. CASE \E e \in DOMAIN events, actor \in Actors : AddActor(e, actor)
  BY <1>2, AddActorKeepsQueue
<1>3. CASE \E claimant \in actors \cup {Nobody} :
             \/ \E e \in {0} \cup DOMAIN events : CreateClaim(e, claimant)
             \/ \E vague \in SUBSET {"claim"} : ClaimWithoutEvent(claimant, vague)
  BY <1>3, CreateClaimKeepsQueue, ClaimWithoutEventKeepsQueue
<1>4. CASE \E c \in DOMAIN claims : AddEvidence(c) \/ DeleteClaim(c) \/ DeleteEvidence(c)
  BY <1>4, AddEvidenceKeepsQueue, DeleteClaimKeepsQueue, DeleteEvidenceKeepsQueue
<1>5. CASE \E actor \in Actors : DeleteActor(actor)
  BY <1>5, DeleteActorKeepsQueue
<1>. QED BY <1>1, <1>2, <1>3, <1>4, <1>5 DEF Edit

LEMMA NextQInv == TInv /\ QInv /\ [Next]_vars => QInv'
<1>. SUFFICES ASSUME TInv, QInv, [Next]_vars PROVE QInv'
  OBVIOUS
<1>1. ASSUME UNCHANGED vars PROVE QInv'
  <2>1. UNCHANGED <<actors, events, claims, items, request>>
    BY <1>1 DEF vars
  <2>. QED BY <2>1, AllHold, EditHolds
<1>. QED BY <1>1, ExtractKeepsQueue, AnalyseKeepsQueue, EditKeepsQueue DEF Next

-----------------------------------------------------------------------------
(* The numbers of rows, and the theorems.                                  *)

\* Numbers of rows stay within their bounds.
WithinBounds ==
  /\ Len(events) <= MaxEvents /\ Len(claims) <= MaxClaims /\ Len(items) <= MaxItems
  /\ withdrawn \in 0 .. MaxWithdrawals

LEMMA InitWithinBounds == Init => WithinBounds
BY EventReviewAssumption DEF Init, WithinBounds

\* An edited sequence is as long as it was.
LEMMA LengthKept ==
  ASSUME NEW R, NEW s \in Seq(R), NEW t \in Seq(R), DOMAIN t = DOMAIN s
  PROVE  Len(t) = Len(s)
OBVIOUS

\* Rows have their types after the step as before it.
Steps == TInv /\ QInv /\ TInv' /\ QInv' /\ WithinBounds

LEMMA EventsKept == Steps /\ DOMAIN events' = DOMAIN events => Len(events') <= MaxEvents
BY LengthKept DEF Steps, TInv, Typed, WithinBounds

LEMMA ClaimsKept == Steps /\ DOMAIN claims' = DOMAIN claims => Len(claims') <= MaxClaims
BY LengthKept DEF Steps, TInv, Typed, WithinBounds

LEMMA ItemsKept == Steps /\ DOMAIN items' = DOMAIN items => Len(items') <= MaxItems
BY LengthKept DEF Steps, QInv, WithinBounds

LEMMA RowsKept ==
  ASSUME Steps, DOMAIN events' = DOMAIN events, DOMAIN claims' = DOMAIN claims,
         DOMAIN items' = DOMAIN items, withdrawn' \in 0 .. MaxWithdrawals
  PROVE  WithinBounds'
BY EventsKept, ClaimsKept, ItemsKept DEF WithinBounds

\* Claims are added as long as there are less than MaxClaims.
LEMMA ClaimsBounded ==
  ASSUME Steps, Len(claims) < MaxClaims, NEW v, claims' = Append(claims, v)
  PROVE  Len(claims') <= MaxClaims
BY EventReviewAssumption DEF Steps, TInv, Typed

LEMMA EventsBounded ==
  ASSUME Steps, Len(events) < MaxEvents, NEW v, events' = Append(events, v)
  PROVE  Len(events') <= MaxEvents
BY EventReviewAssumption DEF Steps, TInv, Typed

LEMMA ItemsBounded ==
  ASSUME Steps, Len(items) < MaxItems, NEW v, items' = Append(items, v)
  PROVE  Len(items') <= MaxItems
BY EventReviewAssumption DEF Steps, QInv

LEMMA ClaimedBounded ==
  ASSUME Steps, NEW e, NEW claimant, NEW vague, Claimed(e, claimant, vague)
  PROVE  Len(claims') <= MaxClaims
<1>1. CASE claimant = NoClaim
  BY <1>1, ClaimsKept DEF Claimed
<1>2. CASE claimant # NoClaim
  BY <1>2, ClaimsBounded DEF Claimed
<1>. QED BY <1>1, <1>2

\* A new event may come with an item.
LEMMA NewEventBounded ==
  ASSUME Steps, NEW v, Len(events) < MaxEvents, events' = Append(events, v),
         UNCHANGED <<claims, withdrawn>>,
         UNCHANGED items \/ (Len(items) < MaxItems /\ \E w : items' = Append(items, w))
  PROVE  WithinBounds'
<1>1. Len(events') <= MaxEvents
  BY EventsBounded
<1>2. Len(claims') <= MaxClaims
  BY ClaimsKept
<1>3. Len(items') <= MaxItems
  BY ItemsKept, ItemsBounded
<1>. QED BY <1>1, <1>2, <1>3 DEF WithinBounds, Steps

LEMMA ExtractKeepsBounds ==
  ASSUME Steps, NEW x \in Extractors, Extract(x)
  PROVE  WithinBounds'
<1>1. CASE (\E grade \in Grades, sure \in SUBSET actors : Lookup(x, grade, sure))
           \/ ExtractionAborts(x)
  BY <1>1 DEF Lookup, ExtractionAborts, WithinBounds, Steps
<1>2. ASSUME NEW claimant, NEW vague, Merge(x, claimant, vague)
      PROVE  WithinBounds'
  <2>1. DOMAIN events' = DOMAIN events /\ UNCHANGED withdrawn
    BY <1>2 DEF Merge
  <2>2. Len(claims') <= MaxClaims /\ Len(items') <= MaxItems
    BY <1>2, ClaimedBounded DEF Merge, Queue
  <2>. QED BY <2>1, <2>2, EventsKept DEF WithinBounds, Steps
<1>3. CASE StopAtNewEvent(x)
  <2>1. Len(events) < MaxEvents
    BY <1>3, EventReviewAssumption DEF StopAtNewEvent, Steps, TInv, Typed
  <2>2. UNCHANGED items \/ (Len(items) < MaxItems /\ \E w : items' = Append(items, w))
    BY <1>3 DEF StopAtNewEvent
  <2>3. \E v : events' = Append(events, v)
    BY <1>3 DEF StopAtNewEvent
  <2>. QED BY <1>3, <2>1, <2>2, <2>3, NewEventBounded DEF StopAtNewEvent
<1>. QED BY <1>1, <1>2, <1>3 DEF Extract

LEMMA AnalyseKeepsBounds ==
  ASSUME Steps, NEW a \in Analysts, Analyse(a)
  PROVE  WithinBounds'
<1>1. UNCHANGED withdrawn
  BY DEF Analyse, AskResolve, AskAcknowledge, AskDismiss, AskApprove, AskReject, Ask, Holding,
         LoadClaim, LinkActor, SetClaimant, Acknowledge, Dismiss, SetLifecycle, RequestFails
<1>2. DOMAIN events' = DOMAIN events
  BY DEF Analyse, AskResolve, AskAcknowledge, AskDismiss, AskApprove, AskReject, Ask, Holding,
         LoadClaim, LinkActor, SetClaimant, Acknowledge, Dismiss, SetLifecycle, RequestFails
<1>3. DOMAIN claims' = DOMAIN claims
  BY DEF Analyse, AskResolve, AskAcknowledge, AskDismiss, AskApprove, AskReject, Ask, Holding,
         LoadClaim, LinkActor, SetClaimant, Acknowledge, Dismiss, SetLifecycle, RequestFails
<1>4. DOMAIN items' = DOMAIN items
  BY DEF Analyse, AskResolve, AskAcknowledge, AskDismiss, AskApprove, AskReject, Ask, Holding,
         LoadClaim, LinkActor, SetClaimant, Acknowledge, Dismiss, SetLifecycle, RequestFails,
         Approved, Closed
<1>. QED BY <1>1, <1>2, <1>3, <1>4, RowsKept DEF Steps, WithinBounds

LEMMA EditKeepsBounds ==
  ASSUME Steps, Edit
  PROVE  WithinBounds'
<1>1. ASSUME NEW grade, CreateEvent(grade) PROVE WithinBounds'
  <2>1. UNCHANGED items \/ (Len(items) < MaxItems /\ \E w : items' = Append(items, w))
    BY <1>1 DEF CreateEvent
  <2>2. Len(events) < MaxEvents /\ \E v : events' = Append(events, v)
    BY <1>1 DEF CreateEvent
  <2>. QED BY <1>1, <2>1, <2>2, NewEventBounded DEF CreateEvent
<1>2. ASSUME NEW e, NEW actor, AddActor(e, actor) PROVE WithinBounds'
  BY <1>2, RowsKept DEF AddActor, Steps, WithinBounds
<1>3. ASSUME NEW e, NEW claimant, CreateClaim(e, claimant) PROVE WithinBounds'
  <2>1. Len(claims') <= MaxClaims
    BY <1>3, ClaimsBounded DEF CreateClaim
  <2>. QED BY <1>3, <2>1 DEF CreateClaim, WithinBounds, Steps
<1>4. ASSUME NEW claimant, NEW vague, ClaimWithoutEvent(claimant, vague) PROVE WithinBounds'
  <2>1. Len(claims') <= MaxClaims /\ Len(items') <= MaxItems
    BY <1>4, ClaimedBounded DEF ClaimWithoutEvent, Queue
  <2>. QED BY <1>4, <2>1 DEF ClaimWithoutEvent, WithinBounds, Steps
<1>5. ASSUME NEW c, AddEvidence(c) PROVE WithinBounds'
  BY <1>5, RowsKept DEF AddEvidence, Steps, WithinBounds
<1>6. ASSUME Withdraw, DOMAIN events' = DOMAIN events, DOMAIN claims' = DOMAIN claims
      PROVE  WithinBounds'
  <2>1. withdrawn' \in 0 .. MaxWithdrawals
    BY <1>6, EventReviewAssumption DEF Withdraw, Steps, WithinBounds
  <2>. QED BY <1>6, <2>1, RowsKept DEF Withdraw
<1>7. ASSUME NEW c, DeleteClaim(c) \/ DeleteEvidence(c) PROVE WithinBounds'
  BY <1>6, <1>7 DEF DeleteClaim, DeleteEvidence
<1>8. ASSUME NEW actor, DeleteActor(actor) PROVE WithinBounds'
  BY <1>6, <1>8 DEF DeleteActor
<1>. QED BY <1>1, <1>2, <1>3, <1>4, <1>5, <1>7, <1>8 DEF Edit

LEMMA NextWithinBounds == Steps /\ [Next]_vars => WithinBounds'
<1>1. Steps /\ UNCHANGED vars => WithinBounds'
  BY DEF Steps, vars, WithinBounds
<1>. QED BY <1>1, ExtractKeepsBounds, AnalyseKeepsBounds, EditKeepsBounds DEF Next

\* "traceable evidence": an event is approved only once it has had a claim with evidence
\* (approve_event), whatever is withdrawn between the look at it and the approval.
THEOREM ApprovedIsTraced == Spec => []ApprovedWasTraced
<1>1. TInv => ApprovedWasTraced
  BY DEF TInv
<1>. QED BY <1>1, InitTInv, NextTInv, InitQInv, NextQInv, PTL DEF Spec

\* Resolutions are carried out (resolve_item): the event of an approved item is linked to
\* each of the actors approved for it, the claimant of its claim is one of them, and it is
\* the item's own unless three decisions overlapped, whatever edits, extractions and
\* deletions come in between.
THEOREM ApprovalsAreInForce == Spec => []ApprovedIsApplied
<1>. QED BY InitTInv, NextTInv, InitQInv, NextQInv, SoundIsApplied, PTL DEF Spec

\* Rows and requests have their types and refer to rows that there are.
THEOREM ReviewIsTyped == Spec => []TypeOK
<1>1. TInv /\ QInv /\ WithinBounds => TypeOK
  <2>. SUFFICES ASSUME TInv, QInv, WithinBounds PROVE TypeOK
    OBVIOUS
  <2>1. \A e \in DOMAIN events : events[e] \in EventType
    BY DEF TInv, Typed
  <2>2. ASSUME NEW c \in DOMAIN claims
        PROVE  claims[c] \in [live: BOOLEAN, event: {0} \cup DOMAIN events,
                              claimant: Actors \cup {Nobody}, evidence: BOOLEAN]
    <3>1. claims[c] \in ClaimRow /\ claims[c].event \in {0} \cup DOMAIN events
      BY DEF TInv, Typed, EvidenceTraces
    <3>. QED BY <3>1 DEF ClaimRow
  <2>3. ASSUME NEW i \in DOMAIN items
        PROVE  items[i] \in [type: {"entity", "duplicate", "grave"},
                             status: {"pending"} \cup Settled,
                             event: {0} \cup DOMAIN events, claim: {0} \cup DOMAIN claims,
                             choice: Actors \cup {Nobody}, approvals: Seq(Actors)]
    <3>1. /\ items[i] \in ItemRow /\ items[i].event \in {0} \cup DOMAIN events
          /\ items[i].claim \in {0} \cup DOMAIN claims
      BY DEF QInv, ItemsRefer
    <3>. QED BY <3>1 DEF ItemRow
  <2>4. /\ Len(events) <= MaxEvents /\ Len(claims) <= MaxClaims /\ Len(items) <= MaxItems
        /\ withdrawn <= MaxWithdrawals
    BY EventReviewAssumption DEF WithinBounds
  <2>5. \A x \in Extractors : extraction[x].found \subseteq DOMAIN events
    BY DEF TInv, FoundExist
  <2>6. \A a \in Analysts :
          /\ request[a].op \in {"resolve", "set", "acknowledge", "dismiss"} =>
               request[a].item \in DOMAIN items
          /\ request[a].op \in {"approve", "reject"} => request[a].event \in DOMAIN events
    BY DEF QInv, RequestsRefer, TInv, ApprovalsTraced
  <2>7. actors \subseteq Actors
    BY DEF TInv, Typed
  <2>. QED BY <2>1, <2>2, <2>3, <2>4, <2>5, <2>6, <2>7 DEF TypeOK
<1>2. TInv /\ QInv /\ WithinBounds /\ [Next]_vars => TInv' /\ QInv' /\ WithinBounds'
  BY NextTInv, NextQInv, NextWithinBounds DEF Steps
<1>. QED BY <1>1, <1>2, InitTInv, InitQInv, InitWithinBounds, PTL DEF Spec
================================================================================
