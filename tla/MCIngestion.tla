------------------------------ MODULE MCIngestion ------------------------------
(* Instances of Ingestion for TLC: a feed with a refused link, one without, and *)
(* an endpoint that is no feed; two contents with the same text, one without.  *)
EXTENDS Ingestion, TLC

\* In the run with overlapping sessions the two contents have one text.
Symmetry == Permutations(Sessions) \cup Permutations(Contents)

MCOrder    == <<"rss1", "hub", "rss2">>
MCHubs     == {"hub"}
MCFeed     == "rss1" :> <<"i1", "i2", "i3">> @@ "rss2" :> <<"i4">>
MCRefused  == {"i2"}
MCContents == {"c1", "c2", "c3"}
MCTextOf   == "c1" :> "t1" @@ "c2" :> "t1" @@ "c3" :> "no text"

\* One feed of one item and the hub, for the run with overlapping sessions.
SmallOrder    == <<"rss1", "hub">>
SmallFeed     == "rss1" :> <<"i1">>
SmallTextOf   == [c \in Contents |-> "t1"]
=============================================================================
