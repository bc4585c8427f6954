------------------------------- MODULE Ingestion -------------------------------
(***************************************************************************)
(* Source collection: documents, their deduplication and the failure       *)
(* counts of feed endpoints.                                               *)
(*                                                                         *)
(* A session is one database transaction of one of its callers:            *)
(*   "job"     the scheduler's daily scraping, over every endpoint;        *)
(*   "poll"    the worker's collect_*_feeds, over every RSS endpoint;      *)
(*   "retry"   the worker's retry_failed_endpoints;                        *)
(*   "manual"  POST /sources/submit, one URL.                              *)
(* All submit items through SourceIngestionService.submit_url.  They read  *)
(* what is committed and what they wrote themselves (READ COMMITTED), and  *)
(* nothing in the schema makes a source's URL or a content hash unique.    *)
(* They differ in what an exception does: the job counts it against the    *)
(* endpoint and goes on, the others roll everything back.                  *)
(*                                                                         *)
(* An item stands for its canonical URL and external id, a content for the *)
(* bytes (and hash) a fetch returns, TextOf for extraction and the         *)
(* fingerprint.  A document's number is its UUIDv7: numbers grow with time.*)
(* missed is history: no action reads it.                                  *)
(* Deleting a source or an endpoint is not modelled.                       *)
(***************************************************************************)
EXTENDS Naturals, Sequences, FiniteSets, FiniteSetsExt

CONSTANTS
  Order,        \* the endpoints, each of a source of its own, as they are listed
  Hubs,         \* endpoints that are not RSS
  Feed,         \* the items of each RSS endpoint's feed that are looked at: the job
                \* takes the first 15, the worker takes them all
  Refused,      \* items whose link validate_url_security never lets pass
  Contents,     \* what a fetch may return
  TextOf,       \* the text extracted from a content, or NoText
  NoText,
  NewSource,    \* the source of a manual submission that names none: a new row
  Sessions,     \* bound: transactions at once
  Kinds,        \* the callers that run
  Breaker,      \* _CIRCUIT_BREAKER_FAILURE_COUNT
  MaxFailures,  \* bound on a failure count
  MaxDocs       \* bound on documents created

Endpoints == {Order[i] : i \in 1..Len(Order)}
Items == UNION {{Feed[e][i] : i \in 1..Len(Feed[e])} : e \in Endpoints \ Hubs}

ASSUME IngestionAssumption ==
  /\ Hubs \subseteq Endpoints
  /\ DOMAIN Feed = Endpoints \ Hubs
  /\ Refused \subseteq Items
  /\ DOMAIN TextOf = Contents
  /\ Kinds \subseteq {"job", "poll", "retry", "manual"}
  /\ Breaker \in Nat /\ MaxFailures \in Nat /\ MaxDocs \in Nat
  /\ Sessions \cap {"committed", "lost"} = {}
  /\ "none" \notin Contents /\ \A c \in Contents : TextOf[c] # "none"

VARIABLES
  docs,      \* rows of documents, in order of creation
  failures,  \* source_endpoints.failure_count
  session,
  missed     \* <<d, e>>: a look-up for d would have found e, which another
             \* transaction had not committed yet

vars == <<docs, failures, session, missed>>

Committed == "committed"
Lost == "lost"             \* rolled back
None == "none"             \* no content yet, no duplicate, no document

Doc(item, source, owner) ==
  [item |-> item, source |-> source, owner |-> owner,
   status |-> "pending", content |-> None, text |-> None, dup |-> 0]

\* job: the caller is the job; todo: endpoints ahead; items: what is left of the current feed; count: the
\* session's copy of the failure counts; locks: endpoint rows it has updated;
\* dirty: those whose count it has changed.
Idle == [pc |-> "idle", job |-> FALSE, todo |-> <<>>, items |-> <<>>, source |-> None,
         doc |-> 0, count |-> [e \in Endpoints |-> 0], locks |-> {}, dirty |-> {}]

TypeOK ==
  /\ Len(docs) <= MaxDocs
  /\ \A d \in DOMAIN docs :
       docs[d] \in [item: Items \cup {None}, source: Endpoints \cup {NewSource, None},
                    owner: Sessions \cup {Committed, Lost},
                    status: {"pending", "fetched", "parsed", "failed"},
                    content: Contents \cup {None},
                    text: {TextOf[c] : c \in Contents} \cup {None}, dup: 0..MaxDocs]
  /\ failures \in [Endpoints -> 0..MaxFailures]
  /\ \A s \in Sessions :
       /\ session[s].pc \in {"idle", "ready", "fetching", "parsing", "chunking"}
       /\ session[s].dirty \subseteq session[s].locks
       /\ session[s].locks \subseteq Endpoints
       /\ session[s].pc = "idle" => session[s] = Idle
       /\ session[s].pc \in {"fetching", "parsing", "chunking"} =>
            docs[session[s].doc].owner = s /\ docs[session[s].doc].item = Head(session[s].items)
  /\ missed \subseteq (DOMAIN docs) \X (DOMAIN docs)

Init ==
  /\ docs = <<>>
  /\ failures = [e \in Endpoints |-> 0]
  /\ session = [s \in Sessions |-> Idle]
  /\ missed = {}

-----------------------------------------------------------------------------
(* Transactions.                                                           *)

\* Mutant of Visible: uncommitted rows of other transactions are read.
VisibleDirty(s) == {d \in DOMAIN docs : docs[d].owner # Lost}

Visible(s) == {d \in DOMAIN docs : docs[d].owner \in {s, Committed}}

Hidden(s)  == {d \in DOMAIN docs : docs[d].owner \in Sessions \ {s}}

OfUrl(item, source) ==
  {d \in DOMAIN docs : docs[d].item = item /\ docs[d].source = source /\ source # NewSource}
OfContent(content) == {d \in DOMAIN docs : docs[d].content = content}
OfText(text)       == {d \in DOMAIN docs : docs[d].text = text}

\* Mutant of Found: a document that failed is not looked for.
FoundUnfailed(s, item) ==
  {d \in OfUrl(item, session[s].source) \cap Visible(s) : docs[d].status # "failed"}

\* What submit_url and the external id check find in the source.
Found(s, item) == OfUrl(item, session[s].source) \cap Visible(s)

\* Mutant of SameContent: the document itself is not excluded.
SameContentSelf(s, d, content) == (OfContent(content) \cap Visible(s)) \cup {d}

SameContent(s, d, content) == (OfContent(content) \cap Visible(s)) \ {d}

\* Mutant of SameText: the fingerprint is taken of the bytes.
SameTextByBytes(s, d, text) ==
  {e \in OfContent(docs[d].content) \cap Visible(s) : docs[e].text # None} \ {d}

SameText(s, d, text) == (OfText(text) \cap Visible(s)) \ {d}

\* History: a look-up for d matches es.
LooksFor(s, d, es) == missed' = missed \cup ({d} \X (es \cap Hidden(s)))

\* A row that another transaction has updated is locked until it ends.
Unlocked(s, e) == \A t \in Sessions \ {s} : e \notin session[t].locks

\* Mutant of Counted: only the reset of a count is written.
CountedResets(ses, e, n) ==
  [ses EXCEPT !.count[e] = n,
              !.locks = @ \cup {e},
              !.dirty = IF ses.count[e] # 0 /\ n = 0 THEN @ \cup {e} ELSE @]

\* mark_endpoint_success and mark_endpoint_failure write the session's copy; the
\* count is part of the UPDATE only when it changes: not when it stays at 0.
Counted(ses, e, n) ==
  [ses EXCEPT !.count[e] = n,
              !.locks = @ \cup {e},
              !.dirty = IF ses.count[e] = 0 /\ n = 0 THEN @ ELSE @ \cup {e}]

More(n) == IF n < MaxFailures THEN n + 1 ELSE n

\* Mutant of Kept: callers share one transaction.
KeptAll(ds, s) ==
  [d \in DOMAIN ds |-> IF ds[d].owner \in Sessions THEN [ds[d] EXCEPT !.owner = Committed]
                       ELSE ds[d]]

Kept(ds, s) ==
  [d \in DOMAIN ds |-> IF ds[d].owner = s THEN [ds[d] EXCEPT !.owner = Committed] ELSE ds[d]]

\* The rows the session inserted disappear.  Their numbers are spent, except that
\* those above every remaining row are used again: only the order counts.
RolledBack(ds, s) ==
  LET rest == [d \in DOMAIN ds |-> IF ds[d].owner = s THEN Doc(None, None, Lost) ELSE ds[d]]
  IN SubSeq(rest, 1, Max({0} \cup {d \in DOMAIN ds : rest[d].owner # Lost}))

\* History: what is rolled back is forgotten, its number may come again.
Forgets(s) == missed' = {m \in missed : docs[m[1]].owner # s /\ docs[m[2]].owner # s}

\* Mutant of Raise: the rest of the job's transaction is rolled back as well.
RaiseAborts(s, ds) ==
  /\ session' = [session EXCEPT ![s] = Idle]
  /\ docs' = RolledBack(ds, s)
  /\ Forgets(s)

\* An exception escapes submit_url: ds is what the session has written so far.
Raise(s, ds) ==
  IF session[s].job
  THEN /\ Unlocked(s, session[s].source)
       /\ LET e == session[s].source
          IN session' = [session EXCEPT ![s] =
               [Counted(@, e, More(@.count[e])) EXCEPT !.pc = "ready", !.items = <<>>, !.doc = 0]]
       /\ docs' = ds
       /\ UNCHANGED missed
  ELSE /\ session' = [session EXCEPT ![s] = Idle]
       /\ docs' = RolledBack(ds, s)
       /\ Forgets(s)

\* The current item is done with, and the next one's turn comes.
NextItem(s) ==
  session' = [session EXCEPT ![s].pc = "ready", ![s].items = Tail(@), ![s].doc = 0]

-----------------------------------------------------------------------------
(* The callers.                                                            *)

Failing == {e \in Endpoints : failures[e] >= 1 /\ failures[e] <= Breaker}

Listed(kind) ==
  CASE kind = "job"   -> Order
    [] kind = "poll"  -> SelectSeq(Order, LAMBDA e : e \notin Hubs)
    [] kind = "retry" -> SelectSeq(Order, LAMBDA e : e \in Failing)

Begin(s, kind) ==
  /\ session[s].pc = "idle"
  /\ session' = [session EXCEPT ![s] = [Idle EXCEPT !.pc = "ready", !.job = (kind = "job"),
                                                    !.todo = Listed(kind), !.count = failures]]
  /\ UNCHANGED <<docs, failures, missed>>

Submitted(s, item, source) ==
  /\ session[s].pc = "idle"
  /\ session' = [session EXCEPT ![s] = [Idle EXCEPT !.pc = "ready",
                                                    !.items = <<item>>, !.source = source]]
  /\ UNCHANGED <<docs, failures, missed>>

AtFeed(s, e) ==
  /\ session[s].pc = "ready"
  /\ session[s].items = <<>>
  /\ session[s].todo # <<>>
  /\ e = Head(session[s].todo)
  /\ Unlocked(s, e)

FeedFetched(s, e) ==
  /\ AtFeed(s, e)
  /\ e \notin Hubs
  /\ session' = [session EXCEPT ![s] =
       [Counted(session[s], e, 0) EXCEPT !.todo = Tail(@), !.items = Feed[e], !.source = e]]
  /\ UNCHANGED <<docs, failures, missed>>

\* The feed cannot be fetched.  The job has the same end for an endpoint that is
\* not RSS: it names an endpoint type that does not exist, and raises.
FeedFails(s, e) ==
  /\ AtFeed(s, e)
  /\ session[s].job \/ e \notin Hubs
  /\ session' = [session EXCEPT ![s] =
       [Counted(session[s], e, More(session[s].count[e])) EXCEPT !.todo = Tail(@)]]
  /\ UNCHANGED <<docs, failures, missed>>

\* The worker leaves an endpoint that is not RSS alone.
HubSkipped(s, e) ==
  /\ AtFeed(s, e)
  /\ ~session[s].job
  /\ e \in Hubs
  /\ session' = [session EXCEPT ![s].todo = Tail(@)]
  /\ UNCHANGED <<docs, failures, missed>>

-----------------------------------------------------------------------------
(* submit_url and _fetch_archive_parse.                                    *)

AtItem(s, item) ==
  /\ session[s].pc = "ready"
  /\ session[s].items # <<>>
  /\ item = Head(session[s].items)

\* The link is valid and its host resolves, or the external id is known already.
Passes(s, item) == AtItem(s, item) /\ item \notin Refused

Known(s, item) ==
  /\ Passes(s, item)
  /\ Cardinality(Found(s, item)) = 1
  /\ NextItem(s)
  /\ UNCHANGED <<docs, failures, missed>>

\* scalar_one_or_none() raises when two rows match.
Ambiguous(s, item) ==
  /\ Passes(s, item)
  /\ Cardinality(Found(s, item)) > 1
  /\ Raise(s, docs)
  /\ UNCHANGED failures

\* validate_url_security refuses the link, for good or because its host does not
\* resolve now, before its URL is looked up: no row is written.
Rejected(s, item) ==
  /\ AtItem(s, item)
  /\ Raise(s, docs)
  /\ UNCHANGED failures

Created(s, item) ==
  /\ Passes(s, item)
  /\ Found(s, item) = {}
  /\ Len(docs) < MaxDocs
  /\ docs' = Append(docs, Doc(item, session[s].source, s))
  /\ session' = [session EXCEPT ![s].pc = "fetching", ![s].doc = Len(docs) + 1]
  /\ LooksFor(s, Len(docs) + 1, OfUrl(item, session[s].source))
  /\ UNCHANGED failures

FetchFails(s) ==
  /\ session[s].pc = "fetching"
  /\ Raise(s, [docs EXCEPT ![session[s].doc].status = "failed"])
  /\ UNCHANGED failures

\* mark_fetched, and the content hash is looked up.
Fetched(s, content) ==
  LET d    == session[s].doc
      same == SameContent(s, d, content)
  IN /\ session[s].pc = "fetching"
     /\ docs' = [docs EXCEPT ![d].status = "fetched", ![d].content = content,
                             ![d].dup = IF same = {} THEN 0 ELSE Min(same)]
     /\ IF same = {} THEN session' = [session EXCEPT ![s].pc = "parsing"] ELSE NextItem(s)
     /\ LooksFor(s, d, OfContent(content))
     /\ UNCHANGED failures

\* extract_text finds no text.
Unreadable(s) ==
  /\ session[s].pc = "parsing"
  /\ TextOf[docs[session[s].doc].content] = NoText
  /\ NextItem(s)
  /\ UNCHANGED <<docs, failures, missed>>

\* mark_parsed writes the fingerprint, which was looked up before.
Parsed(s) ==
  LET d    == session[s].doc
      text == TextOf[docs[d].content]
      same == SameText(s, d, text)
  IN /\ session[s].pc = "parsing"
     /\ text # NoText
     /\ docs' = [docs EXCEPT ![d].status = "parsed", ![d].text = text,
                             ![d].dup = IF same = {} THEN 0 ELSE Min(same)]
     /\ IF same = {} THEN session' = [session EXCEPT ![s].pc = "chunking"] ELSE NextItem(s)
     /\ LooksFor(s, d, OfText(text))
     /\ UNCHANGED failures

Chunked(s) ==
  /\ session[s].pc = "chunking"
  /\ NextItem(s)
  /\ UNCHANGED <<docs, failures, missed>>

\* extract_text or chunk_text raises: the hash, and the fingerprint, stay.
ParseFails(s) ==
  /\ session[s].pc \in {"parsing", "chunking"}
  /\ Raise(s, [docs EXCEPT ![session[s].doc].status = "failed"])
  /\ UNCHANGED failures

Commit(s) ==
  /\ session[s].pc = "ready"
  /\ session[s].items = <<>> /\ session[s].todo = <<>>
  /\ docs' = Kept(docs, s)
  /\ failures' = [e \in Endpoints |-> IF e \in session[s].dirty THEN session[s].count[e]
                                      ELSE failures[e]]
  /\ session' = [session EXCEPT ![s] = Idle]
  /\ UNCHANGED missed

\* The process dies, or a later step of the transaction fails.
Aborts(s) ==
  /\ session[s].pc # "idle"
  /\ docs' = RolledBack(docs, s)
  /\ session' = [session EXCEPT ![s] = Idle]
  /\ Forgets(s)
  /\ UNCHANGED failures

-----------------------------------------------------------------------------
Collect(s) ==
  \/ \E e \in Endpoints : FeedFetched(s, e) \/ FeedFails(s, e) \/ HubSkipped(s, e)
  \/ \E item \in Items :
       Known(s, item) \/ Ambiguous(s, item) \/ Rejected(s, item) \/ Created(s, item)
  \/ FetchFails(s)
  \/ \E content \in Contents : Fetched(s, content)
  \/ Unreadable(s) \/ Parsed(s) \/ Chunked(s) \/ ParseFails(s)
  \/ Commit(s)

Next ==
  \E s \in Sessions :
    \/ \E kind \in Kinds \ {"manual"} : Begin(s, kind)
    \/ "manual" \in Kinds /\ \E item \in Items, source \in (Endpoints \ Hubs) \cup {NewSource} :
                               Submitted(s, item, source)
    \/ Collect(s)
    \/ Aborts(s)

Spec == Init /\ [][Next]_vars

\* The scheduled job alone, which nothing kills.
JobNext == \E s \in Sessions : Begin(s, "job") \/ Collect(s)

\* The job is scheduled again and again and runs to its end; a feed, the host of a
\* link that is not refused and a fetch answer at times when asked again and again.
JobFairness ==
  \A s \in Sessions :
    /\ WF_vars(Begin(s, "job"))
    /\ WF_vars(Collect(s))
    /\ \A e \in Endpoints : SF_vars(FeedFetched(s, e))
    /\ \A item \in Items : SF_vars(Known(s, item) \/ Created(s, item))
    /\ SF_vars(\E content \in Contents : Fetched(s, content))

JobSpec == Init /\ [][JobNext]_vars /\ JobFairness

-----------------------------------------------------------------------------
(* Properties.                                                             *)

Existing == {d \in DOMAIN docs : docs[d].owner # Lost}
Stored   == {d \in DOMAIN docs : docs[d].owner = Committed}

\* Following duplicate_of from any document ends at one that is no duplicate,
\* however submissions overlap: nothing is a duplicate in a circle.
DuplicatesLeadToOriginal ==
  \A D \in SUBSET Existing : (\A d \in D : docs[d].dup \in D) => D = {}

\* A stored document is a duplicate of a stored document with its bytes or its
\* text: never of one whose transaction was rolled back.
DuplicatesAreStored ==
  \A d \in Stored : docs[d].dup # 0 =>
    LET e == docs[docs[d].dup]
    IN /\ e.owner = Committed
       /\ e.content = docs[d].content \/ TextOf[e.content] = TextOf[docs[d].content]

\* "Source collection failures are visible": a job that commits leaves a failure
\* count on every endpoint that it last saw failing.
FailuresAreVisible ==
  [][\A s \in Sessions : session[s].job /\ Commit(s) =>
       \A e \in session[s].locks : session[s].count[e] > 0 => failures'[e] > 0]_vars

\* d and e were stored by transactions that overlapped: one looked for the other's
\* row, or for its content, before that was committed.
Overlapped(d, e) == <<d, e>> \in missed \/ <<e, d>> \in missed

\* "normalized canonical URL": a source has two documents for one URL only when they
\* come of submissions that overlapped, whatever else failed or was rolled back.
UrlsRepeatByOverlap ==
  \A d, e \in Stored :
    /\ d # e
    /\ docs[d].item = docs[e].item /\ docs[d].source = docs[e].source
    /\ docs[d].source # NewSource
    => Overlapped(d, e)

\* "duplicate content is recognized": two documents with the same bytes, or with the
\* same text, are both taken for originals only when their submissions overlapped.
CopiesEscapeByOverlap ==
  \A d, e \in Stored :
    /\ d # e
    /\ docs[d].dup = 0 /\ docs[e].dup = 0
    /\ \/ docs[d].content = docs[e].content /\ docs[d].content # None
       \/ docs[d].text = docs[e].text /\ docs[d].text # None
    => Overlapped(d, e)

\* The items of a feed that are not behind a link that is refused for good.
Reachable(e) == {Feed[e][i] : i \in {n \in 1..Len(Feed[e]) :
                                       \A k \in 1..n : Feed[e][k] \notin Refused}}

\* The job gets past every link that fails for now and every feed that ends in an
\* exception: each item that no refused link precedes in its feed gets a row.
EveryItemIsRecorded ==
  \A e \in Endpoints \ Hubs : \A item \in Reachable(e) :
    <>(\E d \in Stored : docs[d].item = item /\ docs[d].source = e)

Failed(n) == n \in Stored /\ docs[n].status = "failed"

\* "visible and retried": a document that could not be fetched is fetched later.
FailedIsRetried == \A n \in 1..MaxDocs : Failed(n) ~> ~Failed(n)
=============================================================================
