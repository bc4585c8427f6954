--------------------------------- MODULE Crawl ---------------------------------
(***************************************************************************)
(* Fetching a page through its redirects, and crawling a hub: one page     *)
(* whose links are scraped one after the other.                            *)
(*                                                                         *)
(* Servers answer as they like.  A page is its URL; what an answer holds   *)
(* is reduced to the links of a hub and to whether a page gives a text.    *)
(***************************************************************************)
EXTENDS FiniteSets, Integers

CONSTANTS
  Hub,
  Siblings,       \* URLs of the hub's domain that look like articles
  Elsewhere,      \* other URLs a server may redirect to
  Forbidden,      \* those of them the URL policy rejects
  MaxRedirects,
  MaxCrawlLinks

VARIABLES
  crawl,      \* the stage, what was discovered, what is left to scrape, the articles
  fetch,      \* the URL to ask next, and the requests that may still be made
  tried,      \* how often each page was scraped (history)
  requests    \* requests made (history)

vars == <<crawl, fetch, tried, requests>>

URLs == {Hub} \cup Siblings \cup Elsewhere
Quiet == [url |-> Hub, left |-> 0]
NoCrawl == [stage |-> "none", discovered |-> {}, todo |-> {}, articles |-> {}, page |-> Hub]

TypeOK ==
  /\ crawl.stage \in {"none", "hub", "links", "page", "done"}
  /\ crawl.todo \cup crawl.articles \subseteq crawl.discovered
  /\ crawl.discovered \subseteq Siblings /\ crawl.page \in {Hub} \cup Siblings
  /\ fetch \in [url: URLs, left: 0..MaxRedirects + 1]
  /\ tried \in [Siblings -> Nat] /\ requests \in Nat

Init ==
  /\ crawl = NoCrawl /\ fetch = Quiet
  /\ tried = [p \in Siblings |-> 0] /\ requests = 0

FetchOf(url) == fetch' = [url |-> url, left |-> MaxRedirects + 1]

\* The job of a schedule, or a preview of one page (then there is no hub before it).
Start ==
  /\ crawl.stage = "none"
  /\ crawl' = [NoCrawl EXCEPT !.stage = "hub"]
  /\ FetchOf(Hub)
  /\ UNCHANGED <<tried, requests>>

-----------------------------------------------------------------------------
(* One fetch.  Every URL is checked before it is asked for.                *)

Fetching == crawl.stage \in {"hub", "page"}
Allowed == fetch.left > 0 /\ fetch.url \notin Forbidden

\* Mutant of Hop: a redirect does not use up a request.
HopFreely(left) == left

Hop(left) == left - 1

Redirect ==
  /\ Fetching /\ Allowed
  /\ \E url \in URLs : fetch' = [url |-> url, left |-> Hop(fetch.left)]
  /\ requests' = requests + 1
  /\ UNCHANGED <<crawl, tried>>

\* A hub that cannot be fetched ends the crawl (and counts against its endpoint); a
\* page is given up.
GiveUp(made) ==
  /\ IF crawl.stage = "hub"
     THEN crawl' = NoCrawl /\ requests' = 0
     ELSE crawl' = [crawl EXCEPT !.stage = "links"] /\ requests' = requests + made
  /\ fetch' = Quiet
  /\ UNCHANGED tried

\* An error, a redirect to nowhere, a status, a type or a size that is refused.
Refuse == Fetching /\ Allowed /\ GiveUp(1)

\* Too many redirects, or a URL that is not allowed: nothing is asked.
Stop == Fetching /\ ~Allowed /\ GiveUp(0)

-----------------------------------------------------------------------------
(* The crawl.                                                              *)

\* Links of the hub's own domain, in the hub's order, until there are enough.
Discover ==
  /\ crawl.stage = "hub" /\ Allowed
  /\ \E links \in SUBSET Siblings :
       /\ Cardinality(links) <= MaxCrawlLinks
       /\ crawl' = [crawl EXCEPT !.stage = "links", !.discovered = links, !.todo = links]
  /\ requests' = requests + 1
  /\ fetch' = Quiet
  /\ UNCHANGED tried

\* In the order of a set.
Scrape(page) ==
  /\ crawl.stage = "links" /\ page \in crawl.todo
  /\ crawl' = [crawl EXCEPT !.stage = "page", !.page = page, !.todo = @ \ {page}]
  /\ tried' = [tried EXCEPT ![page] = @ + 1]
  /\ FetchOf(page)
  /\ UNCHANGED requests

\* An article needs a text of more than a hundred characters.  It keeps the URL of
\* the link, wherever the redirects led.
Extract ==
  /\ crawl.stage = "page" /\ Allowed
  /\ \E found \in {{}, {crawl.page}} :
       crawl' = [crawl EXCEPT !.stage = "links", !.articles = @ \cup found]
  /\ requests' = requests + 1
  /\ fetch' = Quiet
  /\ UNCHANGED tried

Finish ==
  /\ crawl.stage = "links" /\ crawl.todo = {}
  /\ crawl' = [crawl EXCEPT !.stage = "done"]
  /\ UNCHANGED <<fetch, tried, requests>>

Next ==
  \/ Start \/ Redirect \/ Refuse \/ Stop
  \/ Discover \/ Extract \/ Finish
  \/ \E page \in Siblings : Scrape(page)

Spec == Init /\ [][Next]_vars

-----------------------------------------------------------------------------
(* Properties.                                                             *)

\* However servers redirect and fail, a crawl makes a bounded number of requests, and
\* by its end has tried each link it discovered exactly once: neither a chain of
\* redirects nor a page that fails keeps the others from being scraped.
CrawlIsBounded ==
  /\ requests <= (MaxRedirects + 1) * (1 + Cardinality(crawl.discovered \ crawl.todo))
  /\ crawl.stage = "done" =>
       \A p \in Siblings : tried[p] = IF p \in crawl.discovered THEN 1 ELSE 0
=============================================================================
