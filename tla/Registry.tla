------------------------------- MODULE Registry -------------------------------
(***************************************************************************)
(* The registry of actors, and the resolution of a mention in a document   *)
(* to one of them while the registry is edited.                            *)
(*                                                                         *)
(* A name is what the resolution knows of it: whether it is the mention    *)
(* (up to case) and how similar to it.  An actor has one alias at most.    *)
(***************************************************************************)
EXTENDS FiniteSetsExt, Integers

CONSTANTS
  Actors,
  Types,             \* actor types; one of them may be hinted at
  Names,
  Mention,           \* the name that is mentioned
  Similarity(_),     \* of a name to the mention, in 0..100
  AutoThreshold,
  ReviewThreshold

NoHint == "any"
AmbiguityGap == 5

VARIABLES
  actors,       \* each actor of the registry; a free id stands for any number of deleted ones
  resolution    \* the resolution under way: what it has read, and who moved meanwhile (history)

vars == <<actors, resolution>>

Free == [live |-> FALSE, name |-> Mention, type |-> NoHint, aliases |-> {}]
Idle == [stage |-> "idle", hint |-> NoHint, pool |-> {}, names |-> [a \in Actors |-> {}],
         moved |-> {}, linked |-> {}, surfaced |-> {}]

Live == {a \in Actors : actors[a].live}
Known(a) == {actors[a].name} \cup actors[a].aliases
Suits(a, hint) == hint \in {NoHint, actors[a].type}

TypeOK ==
  /\ \A a \in Actors :
       IF a \in Live
       THEN /\ actors[a].type \in Types /\ Known(a) \subseteq Names
            /\ Cardinality(actors[a].aliases) <= 1
       ELSE actors[a] = Free
  /\ resolution.stage \in {"idle", "by name", "by alias", "read", "rank", "linked", "queued"}
  /\ resolution.hint \in Types \cup {NoHint}
  /\ resolution.pool \cup resolution.moved \subseteq Actors
  /\ Cardinality(resolution.linked) = (IF resolution.stage = "linked" THEN 1 ELSE 0)
  /\ resolution.surfaced \subseteq resolution.pool

Init ==
  /\ actors = [a \in Actors |-> Free]
  /\ resolution = Idle

-----------------------------------------------------------------------------
(* Editing the registry.                                                   *)

Changed(a, row) ==
  /\ row # actors[a]
  /\ actors' = [actors EXCEPT ![a] = row]
  /\ resolution' = IF resolution.stage = "idle" THEN Idle
                   ELSE [resolution EXCEPT !.moved = @ \cup {a}]

\* (Its parent and country exist, or the request fails; nothing asks for new names.)
Create(a, name, type) ==
  /\ a \notin Live
  /\ Changed(a, [live |-> TRUE, name |-> name, type |-> type, aliases |-> {}])

\* What is left out of the request stays.
Update(a, name, type) ==
  /\ a \in Live
  /\ Changed(a, [actors[a] EXCEPT !.name = name, !.type = type])

\* Aliases go with it.
Delete(a) == a \in Live /\ Changed(a, Free)

\* Another actor may have the same.
AddAlias(a, name) ==
  /\ a \in Live /\ actors[a].aliases = {}
  /\ Changed(a, [actors[a] EXCEPT !.aliases = {name}])

\* The actor in the path exists, and need not be the alias's.
DeleteAlias(path, a) ==
  /\ {path, a} \subseteq Live
  /\ Changed(a, [actors[a] EXCEPT !.aliases = {}])

-----------------------------------------------------------------------------
(* Resolving the mention.                                                  *)

Start(hint) ==
  /\ resolution.stage = "idle"
  /\ resolution' = [Idle EXCEPT !.stage = "by name", !.hint = hint]
  /\ UNCHANGED actors

To(stage) == resolution' = [resolution EXCEPT !.stage = stage] /\ UNCHANGED actors
Linked(a) ==
  /\ resolution' = [resolution EXCEPT !.stage = "linked", !.linked = {a}, !.pool = {}]
  /\ UNCHANGED actors

\* Whoever is called like that is it, whatever its type; the first row of several.
FindByName ==
  /\ resolution.stage = "by name"
  /\ LET bearers == {a \in Live : actors[a].name = Mention}
     IN IF bearers = {} THEN To("by alias") ELSE \E a \in bearers : Linked(a)

FindByAlias ==
  /\ resolution.stage = "by alias"
  /\ LET bearers == {a \in Live : Mention \in actors[a].aliases}
     IN IF bearers = {} THEN To("read") ELSE \E a \in bearers : Linked(a)

\* The candidates and, in a statement of its own, their aliases.
ListCandidates ==
  /\ resolution.stage = "read"
  /\ resolution' = LET pool == {a \in Live : Suits(a, resolution.hint)}
                   IN [resolution EXCEPT !.stage = "rank", !.pool = pool,
                         !.names = [a \in Actors |-> IF a \in pool THEN {actors[a].name} ELSE {}]]
  /\ UNCHANGED actors

Best(names) == Max({Similarity(n) : n \in names})

\* Mutant of IsAutoResolvable: the runner-up is not looked at.
IsAutoResolvableAlone(score, pool, top) == score[top] >= AutoThreshold

IsAutoResolvable(score, pool, top) ==
  /\ score[top] >= AutoThreshold
  /\ \A other \in pool \ {top} : score[top] - score[other] >= AmbiguityGap

\* A clear favourite is linked; else a review item is queued, with the best candidates.
\* (It has five at most.  A caller that has nothing to attach an item to queues none.)
Rank ==
  /\ resolution.stage = "rank"
  /\ LET pool == resolution.pool
         score == [a \in pool |-> Best(resolution.names[a] \cup actors[a].aliases)]
         clear == {a \in pool : /\ \A other \in pool : score[other] <= score[a]
                                /\ IsAutoResolvable(score, pool, a)}
     IN IF clear # {} THEN \E a \in clear : Linked(a)
        ELSE /\ resolution' = [resolution EXCEPT !.stage = "queued",
                  !.surfaced = {a \in pool : score[a] >= ReviewThreshold}]
             /\ UNCHANGED actors

Done ==
  /\ resolution.stage \in {"linked", "queued"}
  /\ resolution' = Idle
  /\ UNCHANGED actors

\* (What a resolution comes to is looked at before anything else is edited.)
Next ==
  \/ /\ resolution.stage \notin {"linked", "queued"}
     /\ \/ \E a \in Actors, name \in Names, type \in Types :
             Create(a, name, type) \/ Update(a, name, type)
        \/ \E a \in Actors : Delete(a) \/ \E name \in Names : AddAlias(a, name)
        \/ \E path, a \in Actors : DeleteAlias(path, a)
  \/ \E hint \in Types \cup {NoHint} : Start(hint)
  \/ FindByName \/ FindByAlias \/ ListCandidates \/ Rank \/ Done

Spec == Init /\ [][Next]_vars

-----------------------------------------------------------------------------
(* Properties.                                                             *)

Still == Live \ resolution.moved
Nearness(a) == Best(Known(a))
Rivals(a) == {b \in Still \ {a} : Suits(b, resolution.hint)}

\* A mention is linked without an analyst only to an actor that bears it, or to one
\* that is close and clearly closer than every other; and is queued only if nobody
\* bears it or is clearly closest, with everyone who is close enough to choose from.
\* Actors edited between the four statements of a resolution are left aside.
LinksAreClear ==
  /\ resolution.stage = "linked" =>
       \A a \in resolution.linked \cap Still :
         \/ Mention \in Known(a)
         \/ /\ Nearness(a) >= AutoThreshold
            /\ \A b \in Still : Mention \notin Known(b)
            /\ \A b \in Rivals(a) : Nearness(a) - Nearness(b) >= AmbiguityGap
  /\ resolution.stage = "queued" =>
       /\ \A a \in Still : Mention \notin Known(a)
       /\ {a \in Still : Suits(a, resolution.hint) /\ Nearness(a) >= ReviewThreshold}
            \subseteq resolution.surfaced
       /\ resolution.moved = {} =>
            ~\E a \in Still : /\ Suits(a, resolution.hint) /\ Nearness(a) >= AutoThreshold
                              /\ \A b \in Rivals(a) : Nearness(a) - Nearness(b) >= AmbiguityGap
=============================================================================
