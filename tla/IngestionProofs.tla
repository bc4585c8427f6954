---------------------------- MODULE IngestionProofs -----------------------------
(***************************************************************************)
(* What duplicate_of leads to, which failures are counted and which        *)
(* documents are distinct, for any feeds, contents, callers and number of  *)
(* overlapping transactions, whichever of them are rolled back.            *)
(*                                                                         *)
(* DInv is about documents: one at work is its transaction's own, and      *)
(* nothing refers to it before it is done with.  TInv is about sessions:   *)
(* what an UPDATE leaves out of a locked row is a count of zero.  UInv is  *)
(* about pairs of documents, committed or not: what is alike was looked    *)
(* for by one of two overlapping transactions.                             *)
(***************************************************************************)
EXTENDS Ingestion, DataLemmas, FiniteSetTheorems, TLAPS

-----------------------------------------------------------------------------
(* Documents.                                                              *)

Sources == Endpoints \cup {NewSource, None}

Texts == {TextOf[c] : c \in Contents}

Column == [item: Items \cup {None}, source: Sources, owner: Sessions \cup {Committed, Lost},
           status: {"pending", "fetched", "parsed", "failed"}, content: Contents \cup {None},
           text: Texts \cup {None}, dup: Nat]

\* A fingerprint is that of the row's own bytes.
Row == {r \in Column : r.text = None \/ r.text = TextOf[r.content]}

Alive(ds) == {d \in DOMAIN ds : ds[d].owner # Lost}

\* The bytes or the text of two documents are the same.
Alike(d, e) == e.content = d.content \/ TextOf[e.content] = TextOf[d.content]

\* A duplicate is one of a document that its own transaction sees, and like it.
Refers(ds) ==
  \A d \in DOMAIN ds : ds[d].dup # 0 =>
    /\ ds[d].owner # Lost
    /\ ds[d].dup \in DOMAIN ds
    /\ ds[ds[d].dup].owner \in {ds[d].owner, Committed}
    /\ Alike(ds[d], ds[ds[d].dup])

\* No set of documents is closed under duplicate_of.
Rooted(ds) == \A D \in SUBSET Alive(ds) : (\A d \in D : ds[d].dup \in D) => D = {}

DocsOK(ds) == ds \in Seq(Row) /\ Refers(ds) /\ Rooted(ds)

\* What session t relies on while it works on document d.
Owns(ds, t, d) ==
  /\ d \in DOMAIN ds
  /\ ds[d].owner = t /\ ds[d].dup = 0
  /\ \A e \in DOMAIN ds : ds[e].dup # d

Fields == {"pc", "job", "todo", "items", "source", "doc", "count", "locks", "dirty"}

AtWork(ses) == ses.pc \in {"fetching", "parsing", "chunking"}

Shaped(ses) == DOMAIN ses = Fields /\ ses.source \in Sources

SessionOK(ds, t, ses) ==
  /\ Shaped(ses)
  /\ AtWork(ses) => Owns(ds, t, ses.doc)
  /\ ses.pc \in {"fetching", "parsing"} => ds[ses.doc].text = None
  /\ ses.pc \in {"parsing", "chunking"} => ds[ses.doc].content \in Contents

DInv ==
  /\ DocsOK(docs)
  /\ DOMAIN session = Sessions
  /\ \A t \in Sessions : SessionOK(docs, t, session[t])

LEMMA IdleOK == ASSUME NEW ds, NEW t PROVE SessionOK(ds, t, Idle)
BY DEF SessionOK, Shaped, Idle, Fields, AtWork, Sources

\* There are no documents.
LEMMA InitDInv == Init => DInv
<1>. SUFFICES ASSUME Init PROVE DInv
  OBVIOUS
<1>1. docs \in Seq(Row) /\ DOMAIN docs = {}
  BY DEF Init
<1>2. DocsOK(docs)
  BY <1>1 DEF DocsOK, Refers, Rooted, Alive
<1>. QED BY <1>2, IdleOK DEF DInv, Init

-----------------------------------------------------------------------------
(* What a transaction writes.                                              *)

\* Session s leaves the documents of others alone, and refers to none of them.
Spares(ds, es, s) ==
  \A t \in Sessions \ {s} : \A d \in DOMAIN ds : ds[d].owner = t =>
    /\ d \in DOMAIN es /\ es[d] = ds[d]
    /\ (\A e \in DOMAIN ds : ds[e].dup # d) => \A e \in DOMAIN es : es[e].dup # d

LEMMA SparesAll ==
  ASSUME NEW ds, NEW s PROVE Spares(ds, ds, s)
BY DEF Spares

LEMMA SparesBoth ==
  ASSUME NEW ds, NEW es, NEW fs, NEW s, Spares(ds, es, s), Spares(es, fs, s)
  PROVE  Spares(ds, fs, s)
BY DEF Spares

\* What holds of all sessions once it holds of the one that moved.
LEMMA OthersOK ==
  ASSUME DInv, NEW s \in Sessions, NEW r, session' = [session EXCEPT ![s] = r],
         DocsOK(docs'), Spares(docs, docs', s), SessionOK(docs', s, r)
  PROVE  DInv'
<1>1. DOMAIN session' = Sessions /\ \A t \in Sessions : session'[t] = IF t = s THEN r ELSE session[t]
  BY DEF DInv
<1>2. ASSUME NEW t \in Sessions, t # s PROVE SessionOK(docs', t, session[t])
  <2>1. SessionOK(docs, t, session[t])
    BY DEF DInv
  <2>2. CASE AtWork(session[t])
    <3>1. Owns(docs, t, session[t].doc)
      BY <2>1, <2>2 DEF SessionOK
    <3>2. /\ session[t].doc \in DOMAIN docs' /\ docs'[session[t].doc] = docs[session[t].doc]
          /\ \A e \in DOMAIN docs' : docs'[e].dup # session[t].doc
      BY <3>1, <1>2 DEF Spares, Owns
    <3>. QED BY <2>1, <3>1, <3>2 DEF SessionOK, Owns
  <2>3. CASE ~AtWork(session[t])
    BY <2>1, <2>3 DEF SessionOK, AtWork
  <2>. QED BY <2>2, <2>3
<1>. QED BY <1>1, <1>2 DEF DInv

\* A session that is done with its documents, or has begun none.
LEMMA RestOK ==
  ASSUME NEW ds, NEW t, NEW ses, Shaped(ses), ~AtWork(ses)
  PROVE  SessionOK(ds, t, ses)
BY DEF SessionOK, AtWork

\* A row is written for a document that nothing refers to.
LEMMA Written ==
  ASSUME NEW ds, DocsOK(ds), NEW s \in Sessions, NEW d, Owns(ds, s, d), NEW v \in Row,
         v.owner = s,
         v.dup # 0 => /\ v.dup \in DOMAIN ds \ {d}
                      /\ ds[v.dup].owner \in {s, Committed}
                      /\ Alike(v, ds[v.dup])
  PROVE  LET es == [ds EXCEPT ![d] = v] IN DocsOK(es) /\ Spares(ds, es, s)
<1>. DEFINE es == [ds EXCEPT ![d] = v]
<1>1. /\ DOMAIN es = DOMAIN ds /\ es[d] = v /\ d \in DOMAIN ds /\ d # 0
      /\ \A e \in DOMAIN ds : e # d => es[e] = ds[e]
  BY DEF Owns, DocsOK
<1>2. es \in Seq(Row)
  <2>1. es = [e \in DOMAIN ds |-> es[e]]
    OBVIOUS
  <2>2. \A e \in DOMAIN ds : es[e] \in Row
    BY <1>1 DEF DocsOK
  <2>. HIDE DEF es
  <2>. QED BY <2>1, <2>2, RowsOf DEF DocsOK
<1>. HIDE DEF es
<1>3. ds[d].owner = s /\ s # Lost /\ s # Committed /\ \A e \in DOMAIN ds : ds[e].dup # d
  BY IngestionAssumption DEF Owns, Lost, Committed
<1>4. Refers(es)
  <2>. SUFFICES ASSUME NEW e \in DOMAIN ds, es[e].dup # 0
                PROVE  /\ es[e].owner # Lost
                       /\ es[e].dup \in DOMAIN ds
                       /\ es[es[e].dup].owner \in {es[e].owner, Committed}
                       /\ Alike(es[e], es[es[e].dup])
    BY <1>1 DEF Refers
  <2>1. CASE e = d
    BY <2>1, <1>1, <1>3
  <2>2. CASE e # d
    <3>1. es[e] = ds[e] /\ ds[e].dup # d
      BY <2>2, <1>1, <1>3
    <3>. QED BY <3>1, <1>1 DEF DocsOK, Refers
  <2>. QED BY <2>1, <2>2
<1>5. Rooted(es)
  <2>. SUFFICES ASSUME NEW D \in SUBSET Alive(es), \A e \in D : es[e].dup \in D
                PROVE  D = {}
    BY DEF Rooted
  <2>1. D \subseteq DOMAIN ds
    BY <1>1 DEF Alive
  <2>2. D \ {d} \in SUBSET Alive(ds)
    BY <1>1 DEF Alive
  <2>3. \A e \in D \ {d} : ds[e].dup \in D \ {d}
    BY <2>1, <1>1, <1>3
  <2>4. D \ {d} = {}
    BY <2>2, <2>3 DEF DocsOK, Rooted
  <2>5. d \notin D
    <3>1. SUFFICES ASSUME d \in D PROVE FALSE
      OBVIOUS
    <3>2. v.dup = d
      BY <3>1, <2>4, <1>1
    <3>. QED BY <3>2, <1>1
  <2>. QED BY <2>4, <2>5
<1>6. Spares(ds, es, s)
  <2>. SUFFICES ASSUME NEW t \in Sessions \ {s}, NEW c \in DOMAIN ds, ds[c].owner = t
                PROVE  /\ c \in DOMAIN es /\ es[c] = ds[c]
                       /\ (\A e \in DOMAIN ds : ds[e].dup # c) => \A e \in DOMAIN es : es[e].dup # c
    BY DEF Spares
  <2>1. c # d /\ c # 0
    BY <1>3 DEF DocsOK
  <2>2. t # Committed
    BY IngestionAssumption DEF Committed
  <2>3. v.dup # c
    BY <2>1, <2>2
  <2>. QED BY <2>1, <2>3, <1>1
<1>. QED BY <1>2, <1>4, <1>5, <1>6 DEF DocsOK, es

\* A row is added for a document that is no duplicate yet.
LEMMA Added ==
  ASSUME NEW ds, DocsOK(ds), NEW s \in Sessions, NEW v \in Row, v.owner = s, v.dup = 0
  PROVE  LET es == Append(ds, v)
         IN DocsOK(es) /\ Spares(ds, es, s) /\ Owns(es, s, Len(ds) + 1) /\ es[Len(ds) + 1] = v
<1>. DEFINE es == Append(ds, v)
            d  == Len(ds) + 1
<1>1. /\ DOMAIN es = DOMAIN ds \cup {d} /\ es[d] = v /\ d \notin DOMAIN ds /\ d # 0
      /\ \A e \in DOMAIN ds : es[e] = ds[e]
      /\ 0 \notin DOMAIN ds
  BY DEF DocsOK
<1>2. es \in Seq(Row)
  BY DEF DocsOK
<1>. HIDE DEF es, d
<1>3. \A e \in DOMAIN ds : ds[e].dup # d
  BY <1>1 DEF DocsOK, Refers
<1>4. Refers(es)
  BY <1>1, <1>3 DEF DocsOK, Refers
<1>5. Rooted(es)
  <2>. SUFFICES ASSUME NEW D \in SUBSET Alive(es), \A e \in D : es[e].dup \in D
                PROVE  D = {}
    BY DEF Rooted
  <2>1. 0 \notin D
    BY <1>1 DEF Alive
  <2>2. d \notin D
    BY <2>1, <1>1
  <2>3. D \in SUBSET Alive(ds)
    BY <2>2, <1>1 DEF Alive
  <2>4. \A e \in D : ds[e].dup \in D
    BY <2>3, <1>1 DEF Alive
  <2>. QED BY <2>3, <2>4 DEF DocsOK, Rooted
<1>6. Spares(ds, es, s)
  BY <1>1 DEF Spares
<1>7. Owns(es, s, d)
  BY <1>1, <1>3 DEF Owns
<1>. QED BY <1>1, <1>2, <1>4, <1>5, <1>6, <1>7 DEF DocsOK, es, d

\* A transaction commits: what refers to its documents is its own.
LEMMA KeptOK ==
  ASSUME NEW ds, DocsOK(ds), NEW s \in Sessions
  PROVE  DocsOK(Kept(ds, s)) /\ Spares(ds, Kept(ds, s), s)
<1>. DEFINE es == Kept(ds, s)
<1>1. s # Lost /\ s # Committed /\ Lost # Committed
  BY IngestionAssumption DEF Lost, Committed
<1>2. DOMAIN es = DOMAIN ds
  BY DEF Kept
<1>3. ASSUME NEW d \in DOMAIN ds
      PROVE  /\ es[d] \in Row
             /\ es[d].owner = IF ds[d].owner = s THEN Committed ELSE ds[d].owner
             /\ es[d].dup = ds[d].dup /\ es[d].content = ds[d].content
             /\ ds[d].owner # s => es[d] = ds[d]
  <2>1. ds[d] \in Row
    BY DEF DocsOK
  <2>2. CASE ds[d].owner = s
    <3>1. es[d] = [ds[d] EXCEPT !.owner = Committed]
      BY <2>2 DEF Kept
    <3>. QED BY <2>1, <2>2, <3>1 DEF Row, Column
  <2>3. CASE ds[d].owner # s
    BY <2>1, <2>3 DEF Kept
  <2>. QED BY <2>2, <2>3
<1>4. es \in Seq(Row)
  <2>1. es = [d \in DOMAIN ds |-> es[d]]
    BY DEF Kept
  <2>. HIDE DEF es
  <2>. QED BY <1>3, <2>1, RowsOf DEF DocsOK
<1>. HIDE DEF es
<1>5. Refers(es)
  <2>. SUFFICES ASSUME NEW d \in DOMAIN ds, es[d].dup # 0
                PROVE  /\ es[d].owner # Lost
                       /\ es[d].dup \in DOMAIN ds
                       /\ es[es[d].dup].owner \in {es[d].owner, Committed}
                       /\ Alike(es[d], es[es[d].dup])
    BY <1>2 DEF Refers
  <2>1. PICK e : e = ds[d].dup
    OBVIOUS
  <2>2. /\ ds[d].owner # Lost /\ e \in DOMAIN ds
        /\ ds[e].owner \in {ds[d].owner, Committed} /\ Alike(ds[d], ds[e])
    BY <2>1, <1>3 DEF DocsOK, Refers
  <2>3. es[d].dup = e /\ Alike(es[d], es[e])
    BY <2>1, <2>2, <1>3 DEF Alike
  <2>. QED BY <2>2, <2>3, <1>1, <1>3
<1>6. Rooted(es)
  <2>1. Alive(es) = Alive(ds)
    BY <1>1, <1>2, <1>3 DEF Alive
  <2>2. \A d \in Alive(ds) : es[d].dup = ds[d].dup
    BY <1>3 DEF Alive
  <2>. QED BY <2>1, <2>2 DEF Rooted, DocsOK
<1>7. Spares(ds, es, s)
  BY <1>2, <1>3 DEF Spares
<1>. QED BY <1>4, <1>5, <1>6, <1>7 DEF DocsOK, es

\* The rows that remain after a rollback are those of others and of the committed.
LEMMA RolledBackRows ==
  ASSUME NEW ds \in Seq(Row), NEW s \in Sessions
  PROVE  LET es == RolledBack(ds, s)
         IN /\ es \in Seq(Row) /\ DOMAIN es \subseteq DOMAIN ds
            /\ \A d \in DOMAIN ds : ds[d].owner \notin {s, Lost} => d \in DOMAIN es
            /\ \A d \in DOMAIN es : ds[d].owner = s => es[d].owner = Lost /\ es[d].dup = 0
            /\ \A d \in DOMAIN es : ds[d].owner # s => es[d] = ds[d]
<1>. DEFINE rest == [d \in DOMAIN ds |-> IF ds[d].owner = s THEN Doc(None, None, Lost) ELSE ds[d]]
            left == {d \in DOMAIN ds : rest[d].owner # Lost}
<1>1. PICK gone : gone = Doc(None, None, Lost)
  OBVIOUS
<1>2. gone \in Row /\ gone.owner = Lost /\ gone.dup = 0
  BY <1>1 DEF Doc, Row, Column, Sources
<1>3. /\ DOMAIN rest = DOMAIN ds
      /\ \A d \in DOMAIN ds : rest[d] = IF ds[d].owner = s THEN gone ELSE ds[d]
  BY <1>1
<1>4. rest \in Seq(Row)
  <2>1. rest = [d \in DOMAIN ds |-> rest[d]]
    OBVIOUS
  <2>. HIDE DEF rest
  <2>2. \A d \in DOMAIN ds : rest[d] \in Row
    BY <1>2, <1>3
  <2>. QED BY <2>1, <2>2, RowsOf
<1>5. PICK n \in Nat : n = Len(ds) /\ DOMAIN ds = 1..n
  OBVIOUS
<1>6. PICK m : m = Max({0} \cup left)
  OBVIOUS
<1>7. RolledBack(ds, s) = SubSeq(rest, 1, m)
  BY <1>6 DEF RolledBack
<1>. HIDE DEF rest
<1>8. m \in 0..n /\ \A d \in left : d <= m
  <2>1. {0} \cup left \in SUBSET (0..n) /\ {0} \cup left # {}
    BY <1>5
  <2>. HIDE DEF left
  <2>2. m \in {0} \cup left /\ \A d \in {0} \cup left : d <= m
    BY <1>6, <2>1, GreatestOf
  <2>. QED BY <2>1, <2>2
<1>9. PICK es : es = SubSeq(rest, 1, m)
  OBVIOUS
<1>10. es \in Seq(Row) /\ DOMAIN es = 1..m /\ \A d \in 1..m : es[d] = rest[d]
  <2>1. Len(rest) = n
    BY <1>3, <1>4, <1>5
  <2>. QED BY <1>4, <1>8, <1>9, <2>1
<1>11. \A d \in DOMAIN ds : ds[d].owner \notin {s, Lost} => d \in DOMAIN es
  <2>. SUFFICES ASSUME NEW d \in DOMAIN ds, ds[d].owner \notin {s, Lost} PROVE d \in DOMAIN es
    OBVIOUS
  <2>1. d \in left
    BY <1>3
  <2>2. d \in 1..n /\ d <= m
    BY <2>1, <1>5, <1>8
  <2>. QED BY <2>2, <1>8, <1>10
<1>12. DOMAIN es \subseteq DOMAIN ds
  BY <1>5, <1>8, <1>10
<1>13. \A d \in DOMAIN es : es[d] = IF ds[d].owner = s THEN gone ELSE ds[d]
  BY <1>3, <1>10, <1>12
<1>. QED BY <1>2, <1>7, <1>9, <1>10, <1>11, <1>12, <1>13

\* A transaction is rolled back: nothing that remains refers to what it wrote.
LEMMA RolledBackOK ==
  ASSUME NEW ds, DocsOK(ds), NEW s \in Sessions
  PROVE  DocsOK(RolledBack(ds, s)) /\ Spares(ds, RolledBack(ds, s), s)
<1>1. PICK es : es = RolledBack(ds, s)
  OBVIOUS
<1>2. /\ es \in Seq(Row) /\ DOMAIN es \subseteq DOMAIN ds
      /\ \A d \in DOMAIN ds : ds[d].owner \notin {s, Lost} => d \in DOMAIN es
      /\ \A d \in DOMAIN es : ds[d].owner = s => es[d].owner = Lost /\ es[d].dup = 0
      /\ \A d \in DOMAIN es : ds[d].owner # s => es[d] = ds[d]
  BY <1>1, RolledBackRows DEF DocsOK
<1>3. s # Lost /\ s # Committed /\ Lost # Committed
  BY IngestionAssumption DEF Lost, Committed
<1>4. Refers(es)
  <2>. SUFFICES ASSUME NEW d \in DOMAIN es, es[d].dup # 0
                PROVE  /\ es[d].owner # Lost
                       /\ es[d].dup \in DOMAIN es
                       /\ es[es[d].dup].owner \in {es[d].owner, Committed}
                       /\ Alike(es[d], es[es[d].dup])
    BY DEF Refers
  <2>1. ds[d].owner # s /\ es[d] = ds[d] /\ d \in DOMAIN ds
    BY <1>2
  <2>2. PICK e : e = ds[d].dup
    OBVIOUS
  <2>3. /\ ds[d].owner # Lost /\ e \in DOMAIN ds
        /\ ds[e].owner \in {ds[d].owner, Committed} /\ Alike(ds[d], ds[e])
    BY <2>1, <2>2 DEF DocsOK, Refers
  <2>4. ds[e].owner \notin {s, Lost}
    BY <2>1, <2>3, <1>3
  <2>5. e \in DOMAIN es /\ es[e] = ds[e]
    BY <2>3, <2>4, <1>2
  <2>. QED BY <2>1, <2>2, <2>3, <2>5
<1>5. Rooted(es)
  <2>. SUFFICES ASSUME NEW D \in SUBSET Alive(es), \A d \in D : es[d].dup \in D
                PROVE  D = {}
    BY DEF Rooted
  <2>1. \A d \in Alive(es) : d \in Alive(ds) /\ es[d] = ds[d]
    BY <1>2 DEF Alive
  <2>. QED BY <2>1 DEF DocsOK, Rooted
<1>6. Spares(ds, es, s)
  <2>. SUFFICES ASSUME NEW t \in Sessions \ {s}, NEW d \in DOMAIN ds, ds[d].owner = t
                PROVE  /\ d \in DOMAIN es /\ es[d] = ds[d]
                       /\ (\A e \in DOMAIN ds : ds[e].dup # d) => \A e \in DOMAIN es : es[e].dup # d
    BY DEF Spares
  <2>1. t # Lost
    BY IngestionAssumption DEF Lost
  <2>2. d # 0
    BY DEF DocsOK
  <2>3. d \in DOMAIN es /\ es[d] = ds[d]
    BY <2>1, <1>2
  <2>4. \A e \in DOMAIN es : es[e].dup = 0 \/ es[e].dup = ds[e].dup
    BY <1>2
  <2>. QED BY <2>2, <2>3, <2>4, <1>2
<1>. QED BY <1>1, <1>2, <1>4, <1>5, <1>6 DEF DocsOK

-----------------------------------------------------------------------------
(* Sessions.                                                               *)

\* The fields that marking an endpoint leaves alone.
LEMMA CountedShaped ==
  ASSUME NEW ses, Shaped(ses), NEW e, NEW n
  PROVE  LET r == Counted(ses, e, n)
         IN Shaped(r) /\ r.pc = ses.pc /\ r.source = ses.source
BY DEF Shaped, Counted, Fields

\* A session ends its transaction or goes on to the next document.
LEMMA MovesOn ==
  ASSUME DInv, NEW s \in Sessions, NEW r, session' = [session EXCEPT ![s] = r],
         Shaped(r), ~AtWork(r), DocsOK(docs'), Spares(docs, docs', s)
  PROVE  DInv'
BY OthersOK, RestOK

\* The session turns to the next item.
LEMMA NextShaped ==
  ASSUME DInv, NEW s \in Sessions, NextItem(s)
  PROVE  \E r : session' = [session EXCEPT ![s] = r] /\ Shaped(r) /\ ~AtWork(r)
<1>1. PICK r : r = [session[s] EXCEPT !.pc = "ready", !.items = Tail(@), !.doc = 0]
  OBVIOUS
<1>2. Shaped(session[s])
  BY DEF DInv, SessionOK
<1>3. Shaped(r) /\ ~AtWork(r)
  BY <1>1, <1>2 DEF Shaped, AtWork, Fields
<1>4. session' = [session EXCEPT ![s] = r]
  BY <1>1 DEF NextItem
<1>. QED BY <1>3, <1>4

\* An exception that escapes is counted, or rolls back what was written.
LEMMA RaiseKeeps ==
  ASSUME DInv, NEW s \in Sessions, NEW ds, DocsOK(ds), Spares(docs, ds, s), Raise(s, ds)
  PROVE  DInv'
<1>1. CASE session[s].job
  <2>1. PICK c : c = Counted(session[s], session[s].source,
                             More(session[s].count[session[s].source]))
    OBVIOUS
  <2>2. Shaped(c)
    BY <2>1, CountedShaped DEF DInv, SessionOK
  <2>3. PICK r : r = [c EXCEPT !.pc = "ready", !.items = <<>>, !.doc = 0]
    OBVIOUS
  <2>4. Shaped(r) /\ ~AtWork(r)
    BY <2>2, <2>3 DEF Shaped, AtWork, Fields
  <2>5. session' = [session EXCEPT ![s] = r] /\ docs' = ds
    BY <1>1, <2>1, <2>3 DEF Raise
  <2>. QED BY <2>4, <2>5, MovesOn
<1>2. CASE ~session[s].job
  <2>1. session' = [session EXCEPT ![s] = Idle] /\ docs' = RolledBack(ds, s)
    BY <1>2 DEF Raise
  <2>2. DocsOK(docs') /\ Spares(docs, docs', s)
    BY <2>1, RolledBackOK, SparesBoth
  <2>. QED BY <2>1, <2>2, OthersOK, IdleOK
<1>. QED BY <1>1, <1>2

\* No document is written.
LEMMA DocsStay ==
  ASSUME DInv, NEW s \in Sessions, NEW r, session' = [session EXCEPT ![s] = r],
         Shaped(r), ~AtWork(r), UNCHANGED docs
  PROVE  DInv'
<1>1. DocsOK(docs') /\ Spares(docs, docs', s)
  BY SparesAll DEF DInv
<1>. QED BY <1>1, MovesOn

LEMMA BeginKeeps ==
  ASSUME DInv, NEW s \in Sessions, NEW kind, Begin(s, kind)
  PROVE  DInv'
<1>1. PICK r : r = [Idle EXCEPT !.pc = "ready", !.job = (kind = "job"),
                                !.todo = Listed(kind), !.count = failures]
  OBVIOUS
<1>2. Shaped(r) /\ ~AtWork(r)
  BY <1>1 DEF Idle, Shaped, AtWork, Fields, Sources
<1>. QED BY <1>1, <1>2, DocsStay DEF Begin

LEMMA SubmittedKeeps ==
  ASSUME DInv, NEW s \in Sessions, NEW item, NEW source \in Sources, Submitted(s, item, source)
  PROVE  DInv'
<1>1. PICK r : r = [Idle EXCEPT !.pc = "ready", !.items = <<item>>, !.source = source]
  OBVIOUS
<1>2. Shaped(r) /\ ~AtWork(r)
  BY <1>1 DEF Idle, Shaped, AtWork, Fields
<1>. QED BY <1>1, <1>2, DocsStay DEF Submitted

LEMMA FeedKeeps ==
  ASSUME DInv, NEW s \in Sessions, NEW e \in Endpoints,
         FeedFetched(s, e) \/ FeedFails(s, e) \/ HubSkipped(s, e)
  PROVE  DInv'
<1>1. Shaped(session[s]) /\ session[s].pc = "ready" /\ UNCHANGED docs
  BY DEF DInv, SessionOK, FeedFetched, FeedFails, HubSkipped, AtFeed
<1>2. CASE FeedFetched(s, e)
  <2>1. PICK c : c = Counted(session[s], e, 0)
    OBVIOUS
  <2>2. Shaped(c) /\ c.pc = "ready"
    BY <1>1, <2>1, CountedShaped
  <2>3. PICK r : r = [c EXCEPT !.todo = Tail(@), !.items = Feed[e], !.source = e]
    OBVIOUS
  <2>4. Shaped(r) /\ ~AtWork(r)
    BY <2>2, <2>3 DEF Shaped, AtWork, Fields, Sources
  <2>5. session' = [session EXCEPT ![s] = r]
    BY <1>2, <2>1, <2>3 DEF FeedFetched
  <2>. QED BY <1>1, <2>4, <2>5, DocsStay
<1>3. CASE FeedFails(s, e)
  <2>1. PICK c : c = Counted(session[s], e, More(session[s].count[e]))
    OBVIOUS
  <2>2. Shaped(c) /\ c.pc = "ready"
    BY <1>1, <2>1, CountedShaped
  <2>3. PICK r : r = [c EXCEPT !.todo = Tail(@)]
    OBVIOUS
  <2>4. Shaped(r) /\ ~AtWork(r)
    BY <2>2, <2>3 DEF Shaped, AtWork, Fields
  <2>5. session' = [session EXCEPT ![s] = r]
    BY <1>3, <2>1, <2>3 DEF FeedFails
  <2>. QED BY <1>1, <2>4, <2>5, DocsStay
<1>4. CASE HubSkipped(s, e)
  <2>1. PICK r : r = [session[s] EXCEPT !.todo = Tail(@)]
    OBVIOUS
  <2>2. Shaped(r) /\ ~AtWork(r)
    BY <1>1, <2>1 DEF Shaped, AtWork, Fields
  <2>3. session' = [session EXCEPT ![s] = r]
    BY <1>4, <2>1 DEF HubSkipped
  <2>. QED BY <1>1, <2>2, <2>3, DocsStay
<1>. QED BY <1>2, <1>3, <1>4

LEMMA KnownKeeps ==
  ASSUME DInv, NEW s \in Sessions, NextItem(s), UNCHANGED docs
  PROVE  DInv'
BY NextShaped, DocsStay

LEMMA RefusedKeeps ==
  ASSUME DInv, NEW s \in Sessions, Raise(s, docs)
  PROVE  DInv'
<1>1. DocsOK(docs) /\ Spares(docs, docs, s)
  BY SparesAll DEF DInv
<1>. QED BY <1>1, RaiseKeeps

\* The row of a new document.
LEMMA NewRow ==
  ASSUME NEW s \in Sessions, NEW item \in Items, Shaped(session[s])
  PROVE  LET v == Doc(item, session[s].source, s)
         IN /\ v \in Row /\ v.owner = s /\ v.dup = 0 /\ v.item = item
            /\ v.source = session[s].source /\ v.content = None /\ v.text = None
BY DEF Doc, Row, Column, Shaped

\* A new document is one that nothing refers to.
LEMMA CreatedKeeps ==
  ASSUME DInv, NEW s \in Sessions, NEW item \in Items, Created(s, item)
  PROVE  DInv'
<1>1. Shaped(session[s])
  BY DEF DInv, SessionOK
<1>2. PICK v : v = Doc(item, session[s].source, s)
  OBVIOUS
<1>3. v \in Row /\ v.owner = s /\ v.dup = 0 /\ v.text = None
  BY <1>1, <1>2, NewRow
<1>4. docs' = Append(docs, v)
  BY <1>2 DEF Created
<1>5. PICK d : d = Len(docs) + 1
  OBVIOUS
<1>6. DocsOK(docs') /\ Spares(docs, docs', s) /\ Owns(docs', s, d) /\ docs'[d] = v
  BY <1>3, <1>4, <1>5, Added DEF DInv
<1>7. PICK r : r = [session[s] EXCEPT !.pc = "fetching", !.doc = d]
  OBVIOUS
<1>8. Shaped(r) /\ r.doc = d
  BY <1>1, <1>7 DEF Shaped, Fields
<1>9. SessionOK(docs', s, r)
  BY <1>3, <1>6, <1>7, <1>8 DEF SessionOK, Shaped, Fields
<1>10. session' = [session EXCEPT ![s] = r]
  BY <1>5, <1>7 DEF Created
<1>. QED BY <1>6, <1>9, <1>10, OthersOK

\* What a session at work relies on.
LEMMA WorkOwns ==
  ASSUME DInv, NEW s \in Sessions, AtWork(session[s])
  PROVE  /\ DocsOK(docs) /\ Owns(docs, s, session[s].doc) /\ Shaped(session[s])
         /\ docs[session[s].doc] \in Row /\ docs[session[s].doc].owner = s
         /\ docs[session[s].doc].dup = 0
BY DEF DInv, DocsOK, SessionOK, Owns

\* What a failure writes before it is raised.
Marked(s) == [docs EXCEPT ![session[s].doc].status = "failed"]

LEMMA FailsWrites ==
  ASSUME DInv, NEW s \in Sessions, AtWork(session[s])
  PROVE  LET d  == session[s].doc
             ds == Marked(s)
         IN \E v \in Row :
              /\ ds = [docs EXCEPT ![d] = v] /\ d \in DOMAIN docs /\ docs[d].owner = s
              /\ v.owner = s /\ v.item = docs[d].item /\ v.source = docs[d].source
              /\ v.content = docs[d].content /\ v.text = docs[d].text /\ v.dup = docs[d].dup
              /\ DocsOK(ds) /\ Spares(docs, ds, s)
<1>1. PICK d : d = session[s].doc
  OBVIOUS
<1>2. /\ DocsOK(docs) /\ Owns(docs, s, d) /\ d \in DOMAIN docs
      /\ docs[d] \in Row /\ docs[d].owner = s /\ docs[d].dup = 0
  BY <1>1, WorkOwns DEF Owns
<1>3. PICK v : v = [docs[d] EXCEPT !.status = "failed"]
  OBVIOUS
<1>4. /\ v \in Row /\ v.owner = s /\ v.dup = 0 /\ v.item = docs[d].item
      /\ v.source = docs[d].source /\ v.content = docs[d].content /\ v.text = docs[d].text
  BY <1>2, <1>3 DEF Row, Column
<1>5. PICK ds : ds = [docs EXCEPT ![d] = v]
  OBVIOUS
<1>6. DocsOK(ds) /\ Spares(docs, ds, s)
  BY <1>2, <1>4, <1>5, Written
<1>7. ds = Marked(s)
  BY <1>1, <1>3, <1>5 DEF Marked
<1>. QED BY <1>1, <1>2, <1>4, <1>5, <1>6, <1>7

\* A failure before, while or after the text is extracted.
LEMMA FailsKeeps ==
  ASSUME DInv, NEW s \in Sessions, FetchFails(s) \/ ParseFails(s)
  PROVE  DInv'
<1>1. PICK ds : ds = Marked(s)
  OBVIOUS
<1>2. AtWork(session[s]) /\ Raise(s, ds)
  BY <1>1 DEF Marked, FetchFails, ParseFails, AtWork
<1>3. PICK v \in Row : /\ ds = [docs EXCEPT ![session[s].doc] = v]
                       /\ DocsOK(ds) /\ Spares(docs, ds, s)
  BY <1>1, <1>2, FailsWrites
<1>. QED BY <1>2, <1>3, RaiseKeeps

\* What a document is compared with: something its transaction sees.
LEMMA LeastSeen ==
  ASSUME DInv, NEW s \in Sessions, NEW d, NEW same \in SUBSET (Visible(s) \ {d}), same # {}
  PROVE  /\ Min(same) \in same /\ Min(same) \in Nat \ {0} /\ Min(same) \in DOMAIN docs \ {d}
         /\ docs[Min(same)].owner \in {s, Committed}
<1>1. same \in SUBSET Nat
  BY DEF Visible, DInv, DocsOK
<1>2. PICK e : e = Min(same)
  OBVIOUS
<1>3. e \in same
  BY <1>1, <1>2, LeastOf
<1>4. \A x \in DOMAIN docs : x # 0
  BY DEF DInv, DocsOK
<1>. QED BY <1>1, <1>2, <1>3, <1>4 DEF Visible

\* What Fetched writes: the document refers to the least of those with its bytes.
LEMMA FetchedWrites ==
  ASSUME DInv, NEW s \in Sessions, NEW content \in Contents, Fetched(s, content)
  PROVE  LET d == session[s].doc
         IN \E v \in Row :
              /\ docs' = [docs EXCEPT ![d] = v] /\ d \in DOMAIN docs
              /\ v.owner = s /\ v.item = docs[d].item /\ v.source = docs[d].source
              /\ v.content = content /\ v.text = None
              /\ v.dup = 0 <=> SameContent(s, d, content) = {}
              /\ DocsOK(docs') /\ Spares(docs, docs', s)
<1>1. PICK d : d = session[s].doc
  OBVIOUS
<1>2. /\ DocsOK(docs) /\ Owns(docs, s, d) /\ d \in DOMAIN docs
      /\ docs[d] \in Row /\ docs[d].owner = s /\ docs[d].dup = 0 /\ docs[d].text = None
  BY <1>1, WorkOwns DEF Fetched, AtWork, Owns, DInv, SessionOK
<1>3. PICK same : same = SameContent(s, d, content)
  OBVIOUS
<1>4. PICK dup : dup = IF same = {} THEN 0 ELSE Min(same)
  OBVIOUS
<1>5. /\ dup \in Nat /\ (dup = 0 <=> same = {})
      /\ dup # 0 => /\ dup \in DOMAIN docs \ {d} /\ docs[dup].owner \in {s, Committed}
                    /\ docs[dup].content = content
  <2>1. same \in SUBSET (Visible(s) \ {d}) /\ \A e \in same : docs[e].content = content
    BY <1>3 DEF SameContent, OfContent
  <2>2. CASE same = {}
    BY <2>2, <1>4
  <2>3. CASE same # {}
    BY <2>1, <2>3, <1>2, <1>4, LeastSeen DEF DocsOK
  <2>. QED BY <2>2, <2>3
<1>6. PICK v : v = [docs[d] EXCEPT !.status = "fetched", !.content = content, !.dup = dup]
  OBVIOUS
<1>7. /\ v \in Row /\ v.owner = s /\ v.dup = dup /\ v.content = content
      /\ v.text = None /\ v.item = docs[d].item /\ v.source = docs[d].source
  BY <1>2, <1>5, <1>6 DEF Row, Column
<1>8. docs' = [docs EXCEPT ![d] = v]
  BY <1>1, <1>3, <1>4, <1>6 DEF Fetched
<1>9. DocsOK(docs') /\ Spares(docs, docs', s)
  BY <1>2, <1>5, <1>7, <1>8, Written DEF Alike
<1>. QED BY <1>1, <1>2, <1>3, <1>5, <1>7, <1>8, <1>9

\* What Parsed writes: the document refers to the least of those with its text.
LEMMA ParsedWrites ==
  ASSUME DInv, NEW s \in Sessions, Parsed(s)
  PROVE  LET d    == session[s].doc
             text == TextOf[docs[d].content]
         IN \E v \in Row :
              /\ docs' = [docs EXCEPT ![d] = v] /\ d \in DOMAIN docs /\ docs[d].dup = 0
              /\ v.owner = s /\ v.item = docs[d].item /\ v.source = docs[d].source
              /\ v.content = docs[d].content /\ v.content \in Contents /\ v.text = text
              /\ v.dup = 0 <=> SameText(s, d, text) = {}
              /\ DocsOK(docs') /\ Spares(docs, docs', s)
<1>1. PICK d : d = session[s].doc
  OBVIOUS
<1>2. /\ DocsOK(docs) /\ Owns(docs, s, d) /\ d \in DOMAIN docs
      /\ docs[d] \in Row /\ docs[d].owner = s /\ docs[d].dup = 0 /\ docs[d].content \in Contents
  BY <1>1, WorkOwns DEF Parsed, AtWork, Owns, DInv, SessionOK
<1>3. PICK text : text = TextOf[docs[d].content]
  OBVIOUS
<1>4. PICK same : same = SameText(s, d, text)
  OBVIOUS
<1>5. PICK dup : dup = IF same = {} THEN 0 ELSE Min(same)
  OBVIOUS
<1>6. /\ dup \in Nat /\ (dup = 0 <=> same = {})
      /\ dup # 0 => /\ dup \in DOMAIN docs \ {d} /\ docs[dup].owner \in {s, Committed}
                    /\ TextOf[docs[dup].content] = text
  <2>1. text # None
    BY <1>2, <1>3, IngestionAssumption DEF None
  <2>2. ASSUME NEW e \in same
        PROVE  e \in Visible(s) \ {d} /\ TextOf[docs[e].content] = text
    <3>1. e \in Visible(s) \ {d} /\ e \in DOMAIN docs /\ docs[e].text = text
      BY <1>4 DEF SameText, OfText
    <3>2. docs[e] \in Row
      BY <1>2, <3>1 DEF DocsOK
    <3>. QED BY <2>1, <3>1, <3>2 DEF Row
  <2>3. same \in SUBSET (Visible(s) \ {d})
    BY <2>2
  <2>4. CASE same = {}
    BY <2>4, <1>5
  <2>5. CASE same # {}
    BY <1>2, <2>2, <2>3, <2>5, <1>5, LeastSeen DEF DocsOK
  <2>. QED BY <2>4, <2>5
<1>7. PICK v : v = [docs[d] EXCEPT !.status = "parsed", !.text = text, !.dup = dup]
  OBVIOUS
<1>8. /\ v \in Row /\ v.owner = s /\ v.dup = dup /\ v.content = docs[d].content
      /\ v.text = text /\ v.item = docs[d].item /\ v.source = docs[d].source
  <2>1. text \in Texts
    BY <1>2, <1>3 DEF Texts
  <2>. QED BY <1>2, <1>3, <1>6, <1>7, <2>1 DEF Row, Column
<1>9. docs' = [docs EXCEPT ![d] = v]
  BY <1>1, <1>3, <1>4, <1>5, <1>7 DEF Parsed
<1>10. DocsOK(docs') /\ Spares(docs, docs', s)
  BY <1>2, <1>3, <1>6, <1>8, <1>9, Written DEF Alike
<1>. QED BY <1>1, <1>2, <1>3, <1>4, <1>6, <1>8, <1>9, <1>10

\* A document that is no duplicate is worked on, one that is has been done with.
LEMMA WorkKeeps ==
  ASSUME DInv, NEW s \in Sessions, AtWork(session[s]), NEW pc \in {"parsing", "chunking"},
         NEW v \in Row, docs' = [docs EXCEPT ![session[s].doc] = v], v.owner = s,
         pc = "parsing" => v.text = None, v.content \in Contents,
         DocsOK(docs'), Spares(docs, docs', s),
         IF v.dup = 0 THEN session' = [session EXCEPT ![s].pc = pc] ELSE NextItem(s)
  PROVE  DInv'
<1>1. PICK d : d = session[s].doc
  OBVIOUS
<1>2. DocsOK(docs) /\ Owns(docs, s, d) /\ Shaped(session[s]) /\ d \in DOMAIN docs
  BY <1>1, WorkOwns DEF Owns
<1>3. CASE v.dup = 0
  <2>1. PICK r : r = [session[s] EXCEPT !.pc = pc]
    OBVIOUS
  <2>2. Shaped(r) /\ r.doc = d /\ r.pc = pc
    BY <1>1, <1>2, <2>1 DEF Shaped, Fields
  <2>3. session' = [session EXCEPT ![s] = r]
    BY <1>3, <2>1
  <2>4. \A e \in DOMAIN docs : docs'[e] = IF e = d THEN v ELSE docs[e]
    BY <1>1
  <2>5. d # 0 /\ DOMAIN docs' = DOMAIN docs
    BY <1>2 DEF DocsOK
  <2>6. Owns(docs', s, d)
    BY <2>4, <2>5, <1>2, <1>3 DEF Owns
  <2>7. SessionOK(docs', s, r)
    BY <1>2, <2>2, <2>4, <2>6 DEF SessionOK
  <2>. QED BY <2>3, <2>7, OthersOK
<1>4. CASE v.dup # 0
  BY <1>4, NextShaped, MovesOn
<1>. QED BY <1>3, <1>4

LEMMA FetchedKeeps ==
  ASSUME DInv, NEW s \in Sessions, NEW content \in Contents, Fetched(s, content)
  PROVE  DInv'
<1>1. PICK d : d = session[s].doc
  OBVIOUS
<1>2. PICK v \in Row :
        /\ docs' = [docs EXCEPT ![d] = v] /\ v.owner = s /\ v.content = content /\ v.text = None
        /\ v.dup = 0 <=> SameContent(s, d, content) = {}
        /\ DocsOK(docs') /\ Spares(docs, docs', s)
  BY <1>1, FetchedWrites
<1>3. AtWork(session[s]) /\ IF v.dup = 0 THEN session' = [session EXCEPT ![s].pc = "parsing"]
                            ELSE NextItem(s)
  BY <1>1, <1>2 DEF Fetched, AtWork
<1>. QED BY <1>1, <1>2, <1>3, WorkKeeps

LEMMA ParsedKeeps ==
  ASSUME DInv, NEW s \in Sessions, Parsed(s)
  PROVE  DInv'
<1>1. PICK d : d = session[s].doc
  OBVIOUS
<1>2. PICK v \in Row :
        /\ docs' = [docs EXCEPT ![d] = v] /\ v.owner = s /\ v.content \in Contents
        /\ v.dup = 0 <=> SameText(s, d, TextOf[docs[d].content]) = {}
        /\ DocsOK(docs') /\ Spares(docs, docs', s)
  BY <1>1, ParsedWrites
<1>3. AtWork(session[s]) /\ IF v.dup = 0 THEN session' = [session EXCEPT ![s].pc = "chunking"]
                            ELSE NextItem(s)
  BY <1>1, <1>2 DEF Parsed, AtWork
<1>. QED BY <1>1, <1>2, <1>3, WorkKeeps

\* A transaction ends, either way.
LEMMA EndKeeps ==
  ASSUME DInv, NEW s \in Sessions, Commit(s) \/ Aborts(s)
  PROVE  DInv'
<1>1. session' = [session EXCEPT ![s] = Idle] /\ (docs' = Kept(docs, s) \/ docs' = RolledBack(docs, s))
  BY DEF Commit, Aborts
<1>2. DocsOK(docs') /\ Spares(docs, docs', s)
  BY <1>1, KeptOK, RolledBackOK DEF DInv
<1>. QED BY <1>1, <1>2, OthersOK, IdleOK

-----------------------------------------------------------------------------
(* Types, and the failure counts.                                          *)

\* A session's copy of the counts, and which of them its UPDATEs contain: a row it has
\* locked without changing the count has a count of 0.
Counts(ses) ==
  /\ ses.count \in [Endpoints -> 0..MaxFailures]
  /\ ses.locks \in SUBSET Endpoints /\ ses.dirty \in SUBSET ses.locks
  /\ \A e \in ses.locks \ ses.dirty : ses.count[e] = 0

\* An item of the job's is one of an endpoint.
Walks(ses) ==
  /\ ses.pc \in {"idle", "ready", "fetching", "parsing", "chunking"}
  /\ ses.pc = "idle" => ses = Idle
  /\ AtWork(ses) => ses.items # <<>>
  /\ ses.job /\ ses.items # <<>> => ses.source \in Endpoints

\* The document at work is that of the first item.
Agrees(ds, ses) == AtWork(ses) => ds[ses.doc].item = Head(ses.items)

TInv ==
  /\ Len(docs) <= MaxDocs
  /\ failures \in [Endpoints -> 0..MaxFailures]
  /\ \A t \in Sessions : Counts(session[t]) /\ Walks(session[t]) /\ Agrees(docs, session[t])

LEMMA IdleCounts == Counts(Idle) /\ Walks(Idle) /\ \A ds : Agrees(ds, Idle)
BY IngestionAssumption DEF Counts, Walks, Agrees, AtWork, Idle

LEMMA InitTInv == Init => TInv
BY IdleCounts, IngestionAssumption DEF Init, TInv

\* What holds of all sessions once it holds of the one that moved, and no other's
\* document was written.
LEMMA OthersAgree ==
  ASSUME DInv, TInv, NEW s \in Sessions, NEW r, session' = [session EXCEPT ![s] = r],
         Spares(docs, docs', s), Len(docs') <= MaxDocs,
         failures' \in [Endpoints -> 0..MaxFailures],
         Counts(r), Walks(r), Agrees(docs', r)
  PROVE  TInv'
<1>1. DOMAIN session = Sessions /\ \A t \in Sessions : session'[t] = IF t = s THEN r ELSE session[t]
  BY DEF DInv
<1>2. ASSUME NEW t \in Sessions, t # s PROVE Agrees(docs', session[t])
  <2>. SUFFICES ASSUME AtWork(session[t])
                PROVE  docs'[session[t].doc].item = Head(session[t].items)
    BY DEF Agrees
  <2>1. Owns(docs, t, session[t].doc) /\ Agrees(docs, session[t])
    BY DEF DInv, SessionOK, TInv
  <2>2. docs'[session[t].doc] = docs[session[t].doc]
    BY <1>2, <2>1 DEF Spares, Owns
  <2>. QED BY <2>1, <2>2 DEF Agrees
<1>3. ASSUME NEW t \in Sessions
      PROVE  Counts(session'[t]) /\ Walks(session'[t]) /\ Agrees(docs', session'[t])
  <2>1. CASE t = s
    BY <1>1, <2>1
  <2>2. CASE t # s
    BY <1>1, <1>2, <2>2 DEF TInv
  <2>. QED BY <2>1, <2>2
<1>. QED BY <1>3 DEF TInv

\* A count is written, and is part of the UPDATE unless it was and stays 0.
LEMMA CountedCounts ==
  ASSUME NEW ses, Shaped(ses), Counts(ses), NEW e \in Endpoints, NEW n \in 0..MaxFailures
  PROVE  LET r == Counted(ses, e, n)
         IN /\ Shaped(r) /\ Counts(r)
            /\ r.pc = ses.pc /\ r.job = ses.job /\ r.items = ses.items /\ r.source = ses.source
<1>. DEFINE r == Counted(ses, e, n)
            count == [ses.count EXCEPT ![e] = n]
            locks == ses.locks \cup {e}
            dirty == IF ses.count[e] = 0 /\ n = 0 THEN ses.dirty ELSE ses.dirty \cup {e}
<1>1. r = [ses EXCEPT !.count = count, !.locks = locks, !.dirty = dirty]
  BY DEF Counted, Shaped, Fields
<1>2. /\ r.count = count /\ r.locks = locks /\ r.dirty = dirty /\ Shaped(r)
      /\ r.pc = ses.pc /\ r.job = ses.job /\ r.items = ses.items /\ r.source = ses.source
  <2>. HIDE DEF r, count, locks, dirty
  <2>. QED BY <1>1 DEF Shaped, Fields
<1>3. /\ count \in [Endpoints -> 0..MaxFailures] /\ locks \in SUBSET Endpoints
      /\ dirty \in SUBSET locks
  BY DEF Counts
<1>4. \A x \in locks \ dirty : count[x] = 0
  BY DEF Counts
<1>. QED BY <1>2, <1>3, <1>4 DEF Counts

LEMMA MoreRange ==
  ASSUME NEW n \in 0..MaxFailures PROVE More(n) \in 0..MaxFailures
BY IngestionAssumption DEF More

\* The rows that are left after a rollback are no more than there were.
LEMMA RolledBackLen ==
  ASSUME NEW ds \in Seq(Row), NEW s \in Sessions, Len(ds) <= MaxDocs
  PROVE  Len(RolledBack(ds, s)) <= MaxDocs
<1>. DEFINE es == RolledBack(ds, s)
<1>1. es \in Seq(Row) /\ DOMAIN es \subseteq DOMAIN ds
  BY RolledBackRows
<1>. HIDE DEF es
<1>2. Len(es) \in Nat /\ Len(ds) \in Nat /\ DOMAIN es = 1..Len(es) /\ DOMAIN ds = 1..Len(ds)
  BY <1>1
<1>3. Len(es) <= Len(ds)
  BY <1>1, <1>2
<1>. QED BY <1>2, <1>3, IngestionAssumption DEF es

\* An exception that escapes.
LEMMA RaiseAgrees ==
  ASSUME DInv, TInv, NEW s \in Sessions, NEW ds, DocsOK(ds), Spares(docs, ds, s),
         Len(ds) <= MaxDocs, Raise(s, ds), session[s].items # <<>>, UNCHANGED failures
  PROVE  TInv'
<1>1. CASE session[s].job
  <2>1. PICK e : e = session[s].source
    OBVIOUS
  <2>2. e \in Endpoints /\ Shaped(session[s]) /\ Counts(session[s])
    BY <1>1, <2>1 DEF TInv, Walks, DInv, SessionOK
  <2>3. More(session[s].count[e]) \in 0..MaxFailures
    BY <2>2, MoreRange DEF Counts
  <2>4. PICK c : c = Counted(session[s], e, More(session[s].count[e]))
    OBVIOUS
  <2>5. Shaped(c) /\ Counts(c)
    BY <2>2, <2>3, <2>4, CountedCounts
  <2>6. PICK r : r = [c EXCEPT !.pc = "ready", !.items = <<>>, !.doc = 0]
    OBVIOUS
  <2>7. Counts(r) /\ r.pc = "ready" /\ r.items = <<>>
    BY <2>5, <2>6 DEF Shaped, Fields, Counts
  <2>8. session' = [session EXCEPT ![s] = r] /\ docs' = ds
    BY <1>1, <2>1, <2>4, <2>6 DEF Raise
  <2>9. Walks(r) /\ Agrees(docs', r)
    BY <2>7 DEF Walks, Agrees, AtWork
  <2>. QED BY <2>7, <2>8, <2>9, OthersAgree DEF TInv
<1>2. CASE ~session[s].job
  <2>1. session' = [session EXCEPT ![s] = Idle] /\ docs' = RolledBack(ds, s)
    BY <1>2 DEF Raise
  <2>2. Spares(docs, docs', s) /\ Len(docs') <= MaxDocs
    BY <2>1, RolledBackOK, RolledBackLen, SparesBoth DEF DocsOK
  <2>. QED BY <2>1, <2>2, OthersAgree, IdleCounts DEF TInv
<1>. QED BY <1>1, <1>2

\* The session turns to the next item.
LEMMA NextAgrees ==
  ASSUME DInv, TInv, NEW s \in Sessions, NextItem(s), session[s].items # <<>>,
         Spares(docs, docs', s), Len(docs') <= MaxDocs, UNCHANGED failures
  PROVE  TInv'
<1>1. PICK r : r = [session[s] EXCEPT !.pc = "ready", !.items = Tail(@), !.doc = 0]
  OBVIOUS
<1>2. Shaped(session[s]) /\ Counts(session[s]) /\ Walks(session[s])
  BY DEF DInv, SessionOK, TInv
<1>3. Counts(r) /\ r.pc = "ready" /\ r.source = session[s].source /\ r.job = session[s].job
  BY <1>1, <1>2 DEF Counts, Shaped, Fields
<1>4. Walks(r) /\ Agrees(docs', r)
  BY <1>2, <1>3 DEF Walks, Agrees, AtWork
<1>5. session' = [session EXCEPT ![s] = r]
  BY <1>1 DEF NextItem
<1>. QED BY <1>3, <1>4, <1>5, OthersAgree DEF TInv

LEMMA BeginAgrees ==
  ASSUME DInv, TInv, NEW s \in Sessions, NEW kind, Begin(s, kind)
  PROVE  TInv'
<1>1. PICK r : r = [Idle EXCEPT !.pc = "ready", !.job = (kind = "job"),
                                !.todo = Listed(kind), !.count = failures]
  OBVIOUS
<1>2. Counts(r) /\ Walks(r) /\ Agrees(docs', r)
  BY <1>1 DEF TInv, Idle, Counts, Walks, Agrees, AtWork
<1>3. session' = [session EXCEPT ![s] = r] /\ UNCHANGED <<docs, failures>>
  BY <1>1 DEF Begin
<1>. QED BY <1>2, <1>3, OthersAgree, SparesAll DEF TInv

LEMMA SubmittedAgrees ==
  ASSUME DInv, TInv, NEW s \in Sessions, NEW item, NEW source, Submitted(s, item, source)
  PROVE  TInv'
<1>1. PICK r : r = [Idle EXCEPT !.pc = "ready", !.items = <<item>>, !.source = source]
  OBVIOUS
<1>2. Counts(r) /\ Walks(r) /\ Agrees(docs', r)
  BY <1>1, IngestionAssumption DEF Idle, Counts, Walks, Agrees, AtWork
<1>3. session' = [session EXCEPT ![s] = r] /\ UNCHANGED <<docs, failures>>
  BY <1>1 DEF Submitted
<1>. QED BY <1>2, <1>3, OthersAgree, SparesAll DEF TInv

LEMMA FeedAgrees ==
  ASSUME DInv, TInv, NEW s \in Sessions, NEW e \in Endpoints,
         FeedFetched(s, e) \/ FeedFails(s, e) \/ HubSkipped(s, e)
  PROVE  TInv'
<1>1. /\ Shaped(session[s]) /\ session[s].pc = "ready" /\ session[s].items = <<>>
      /\ UNCHANGED <<docs, failures>> /\ Counts(session[s])
  BY DEF DInv, TInv, SessionOK, FeedFetched, FeedFails, HubSkipped, AtFeed
<1>2. 0 \in 0..MaxFailures /\ More(session[s].count[e]) \in 0..MaxFailures
  <2>1. session[s].count[e] \in 0..MaxFailures
    BY <1>1 DEF Counts
  <2>. QED BY <2>1, MoreRange, IngestionAssumption
<1>3. Spares(docs, docs', s)
  BY <1>1, SparesAll
<1>4. CASE FeedFetched(s, e)
  <2>1. PICK n : n = 0
    OBVIOUS
  <2>2. PICK c : c = Counted(session[s], e, n)
    OBVIOUS
  <2>3. Shaped(c) /\ Counts(c) /\ c.pc = "ready"
    BY <1>1, <1>2, <2>1, <2>2, CountedCounts
  <2>4. PICK r : r = [c EXCEPT !.todo = Tail(@), !.items = Feed[e], !.source = e]
    OBVIOUS
  <2>5. Counts(r) /\ r.pc = "ready" /\ r.source = e
    BY <2>3, <2>4 DEF Shaped, Fields, Counts
  <2>6. Walks(r) /\ Agrees(docs', r)
    BY <2>5 DEF Walks, Agrees, AtWork
  <2>7. session' = [session EXCEPT ![s] = r]
    BY <1>4, <2>1, <2>2, <2>4 DEF FeedFetched
  <2>. QED BY <1>1, <1>3, <2>5, <2>6, <2>7, OthersAgree DEF TInv
<1>5. CASE FeedFails(s, e)
  <2>1. PICK c : c = Counted(session[s], e, More(session[s].count[e]))
    OBVIOUS
  <2>2. Shaped(c) /\ Counts(c) /\ c.pc = "ready" /\ c.items = <<>>
    BY <1>1, <1>2, <2>1, CountedCounts
  <2>3. PICK r : r = [c EXCEPT !.todo = Tail(@)]
    OBVIOUS
  <2>4. Counts(r) /\ r.pc = "ready" /\ r.items = <<>>
    BY <2>2, <2>3 DEF Shaped, Fields, Counts
  <2>5. Walks(r) /\ Agrees(docs', r)
    BY <2>4 DEF Walks, Agrees, AtWork
  <2>6. session' = [session EXCEPT ![s] = r]
    BY <1>5, <2>1, <2>3 DEF FeedFails
  <2>. QED BY <1>1, <1>3, <2>4, <2>5, <2>6, OthersAgree DEF TInv
<1>6. CASE HubSkipped(s, e)
  <2>1. PICK r : r = [session[s] EXCEPT !.todo = Tail(@)]
    OBVIOUS
  <2>2. Counts(r) /\ r.pc = "ready" /\ r.items = <<>>
    BY <1>1, <2>1 DEF Shaped, Fields, Counts
  <2>3. Walks(r) /\ Agrees(docs', r)
    BY <2>2 DEF Walks, Agrees, AtWork
  <2>4. session' = [session EXCEPT ![s] = r]
    BY <1>6, <2>1 DEF HubSkipped
  <2>. QED BY <1>1, <1>3, <2>2, <2>3, <2>4, OthersAgree DEF TInv
<1>. QED BY <1>4, <1>5, <1>6

LEMMA CreatedAgrees ==
  ASSUME DInv, TInv, NEW s \in Sessions, NEW item \in Items, Created(s, item)
  PROVE  TInv'
<1>1. Shaped(session[s]) /\ Counts(session[s]) /\ Walks(session[s]) /\ docs \in Seq(Row)
  BY DEF DInv, SessionOK, TInv, DocsOK
<1>2. PICK v : v = Doc(item, session[s].source, s)
  OBVIOUS
<1>3. v \in Row /\ v.owner = s /\ v.dup = 0 /\ v.item = item
  BY <1>1, <1>2, NewRow
<1>4. docs' = Append(docs, v) /\ UNCHANGED failures
  BY <1>2 DEF Created
<1>5. PICK d : d = Len(docs) + 1
  OBVIOUS
<1>6. Spares(docs, docs', s) /\ docs'[d] = v
  BY <1>3, <1>4, <1>5, Added DEF DInv
<1>7. Len(docs') <= MaxDocs
  BY <1>1, <1>3, <1>4, IngestionAssumption DEF Created
<1>8. PICK r : r = [session[s] EXCEPT !.pc = "fetching", !.doc = d]
  OBVIOUS
<1>9. /\ Counts(r) /\ r.pc = "fetching" /\ r.doc = d /\ r.items = session[s].items
      /\ r.job = session[s].job /\ r.source = session[s].source
  BY <1>1, <1>8 DEF Shaped, Fields, Counts
<1>10. session[s].items # <<>> /\ item = Head(session[s].items)
  BY DEF Created, Passes, AtItem
<1>11. Walks(r) /\ Agrees(docs', r)
  BY <1>1, <1>3, <1>6, <1>9, <1>10 DEF Walks, Agrees
<1>12. session' = [session EXCEPT ![s] = r]
  BY <1>5, <1>8 DEF Created
<1>. QED BY <1>4, <1>6, <1>7, <1>9, <1>11, <1>12, OthersAgree DEF TInv

\* Sequences of one domain are of one length, and writing a row leaves as many.
LEMMA SameLen ==
  ASSUME NEW ds \in Seq(Row), NEW es \in Seq(Row), DOMAIN es = DOMAIN ds
  PROVE  Len(es) = Len(ds)
<1>1. PICK m \in Nat : m = Len(es) /\ DOMAIN es = 1..m
  OBVIOUS
<1>2. PICK n \in Nat : n = Len(ds) /\ DOMAIN ds = 1..n
  OBVIOUS
<1>3. \A x \in Nat : x \in 1..m <=> x \in 1..n
  BY <1>1, <1>2
<1>4. m = n
  BY <1>3
<1>. QED BY <1>1, <1>2, <1>4

LEMMA ExceptLen ==
  ASSUME NEW ds \in Seq(Row), NEW d, NEW v, [ds EXCEPT ![d] = v] \in Seq(Row)
  PROVE  Len([ds EXCEPT ![d] = v]) = Len(ds)
<1>. DEFINE es == [ds EXCEPT ![d] = v]
<1>1. DOMAIN es = DOMAIN ds /\ es \in Seq(Row)
  OBVIOUS
<1>. HIDE DEF es
<1>2. Len(es) = Len(ds)
  BY <1>1, SameLen
<1>. QED BY <1>2 DEF es

LEMMA FailsAgrees ==
  ASSUME DInv, TInv, NEW s \in Sessions, FetchFails(s) \/ ParseFails(s)
  PROVE  TInv'
<1>1. PICK ds : ds = Marked(s)
  OBVIOUS
<1>2. AtWork(session[s]) /\ Raise(s, ds) /\ UNCHANGED failures
  BY <1>1 DEF Marked, FetchFails, ParseFails, AtWork
<1>3. PICK v \in Row : /\ ds = [docs EXCEPT ![session[s].doc] = v]
                       /\ DocsOK(ds) /\ Spares(docs, ds, s)
  BY <1>1, <1>2, FailsWrites
<1>4. Len(ds) <= MaxDocs
  BY <1>3, ExceptLen DEF DocsOK, TInv, DInv
<1>5. session[s].items # <<>>
  BY <1>2 DEF TInv, Walks
<1>. QED BY <1>2, <1>3, <1>4, <1>5, RaiseAgrees

\* The session is at work on the same document, or done with it.
LEMMA WorkAgrees ==
  ASSUME DInv, TInv, NEW s \in Sessions, AtWork(session[s]), NEW pc \in {"parsing", "chunking"},
         NEW v \in Row, docs' = [docs EXCEPT ![session[s].doc] = v],
         v.item = docs[session[s].doc].item, DocsOK(docs'), Spares(docs, docs', s),
         IF v.dup = 0 THEN session' = [session EXCEPT ![s].pc = pc] ELSE NextItem(s),
         UNCHANGED failures
  PROVE  TInv'
<1>1. PICK d : d = session[s].doc
  OBVIOUS
<1>2. /\ docs \in Seq(Row) /\ Shaped(session[s]) /\ Counts(session[s])
      /\ Walks(session[s]) /\ session[s].items # <<>>
      /\ docs[d].item = Head(session[s].items) /\ d \in DOMAIN docs
  BY <1>1, WorkOwns DEF TInv, Walks, Agrees, DInv, DocsOK, SessionOK, Owns
<1>3. Len(docs') <= MaxDocs
  BY <1>2, ExceptLen DEF DocsOK, TInv
<1>4. CASE v.dup = 0
  <2>1. PICK r : r = [session[s] EXCEPT !.pc = pc]
    OBVIOUS
  <2>2. /\ Counts(r) /\ r.doc = d /\ r.pc = pc /\ r.items = session[s].items
        /\ r.job = session[s].job /\ r.source = session[s].source
    BY <1>1, <1>2, <2>1 DEF Shaped, Fields, Counts
  <2>3. session' = [session EXCEPT ![s] = r]
    BY <1>4, <2>1
  <2>4. docs'[d].item = Head(session[s].items)
    BY <1>1, <1>2
  <2>5. Walks(r) /\ Agrees(docs', r)
    BY <1>2, <2>2, <2>4 DEF Walks, Agrees
  <2>. QED BY <1>3, <2>2, <2>3, <2>5, OthersAgree DEF TInv
<1>5. CASE v.dup # 0
  BY <1>2, <1>3, <1>5, NextAgrees
<1>. QED BY <1>4, <1>5

LEMMA FetchedAgrees ==
  ASSUME DInv, TInv, NEW s \in Sessions, NEW content \in Contents, Fetched(s, content)
  PROVE  TInv'
<1>1. PICK d : d = session[s].doc
  OBVIOUS
<1>2. PICK v \in Row :
        /\ docs' = [docs EXCEPT ![d] = v] /\ v.item = docs[d].item
        /\ v.dup = 0 <=> SameContent(s, d, content) = {}
        /\ DocsOK(docs') /\ Spares(docs, docs', s)
  BY <1>1, FetchedWrites
<1>3. /\ AtWork(session[s]) /\ UNCHANGED failures
      /\ IF v.dup = 0 THEN session' = [session EXCEPT ![s].pc = "parsing"] ELSE NextItem(s)
  BY <1>1, <1>2 DEF Fetched, AtWork
<1>. QED BY <1>1, <1>2, <1>3, WorkAgrees

LEMMA ParsedAgrees ==
  ASSUME DInv, TInv, NEW s \in Sessions, Parsed(s)
  PROVE  TInv'
<1>1. PICK d : d = session[s].doc
  OBVIOUS
<1>2. PICK v \in Row :
        /\ docs' = [docs EXCEPT ![d] = v] /\ v.item = docs[d].item
        /\ v.dup = 0 <=> SameText(s, d, TextOf[docs[d].content]) = {}
        /\ DocsOK(docs') /\ Spares(docs, docs', s)
  BY <1>1, ParsedWrites
<1>3. /\ AtWork(session[s]) /\ UNCHANGED failures
      /\ IF v.dup = 0 THEN session' = [session EXCEPT ![s].pc = "chunking"] ELSE NextItem(s)
  BY <1>1, <1>2 DEF Parsed, AtWork
<1>. QED BY <1>1, <1>2, <1>3, WorkAgrees

\* A transaction ends, either way.
LEMMA EndAgrees ==
  ASSUME DInv, TInv, NEW s \in Sessions, Commit(s) \/ Aborts(s)
  PROVE  TInv'
<1>1. /\ session' = [session EXCEPT ![s] = Idle]
      /\ docs' = Kept(docs, s) \/ docs' = RolledBack(docs, s)
  BY DEF Commit, Aborts
<1>2. Spares(docs, docs', s)
  BY <1>1, KeptOK, RolledBackOK DEF DInv
<1>3. Len(docs') <= MaxDocs
  <2>1. CASE docs' = Kept(docs, s)
    <3>1. DOMAIN docs' = DOMAIN docs /\ docs \in Seq(Row) /\ docs' \in Seq(Row)
      BY <2>1, KeptOK DEF Kept, DInv, DocsOK
    <3>. QED BY <3>1, SameLen DEF TInv
  <2>2. CASE docs' = RolledBack(docs, s)
    BY <2>2, RolledBackLen DEF TInv, DInv, DocsOK
  <2>. QED BY <1>1, <2>1, <2>2
<1>4. failures' \in [Endpoints -> 0..MaxFailures]
  <2>1. Counts(session[s]) /\ failures \in [Endpoints -> 0..MaxFailures]
    BY DEF TInv
  <2>. QED BY <2>1 DEF Commit, Aborts, Counts
<1>. QED BY <1>1, <1>2, <1>3, <1>4, OthersAgree, IdleCounts

\* Both invariants of what a transaction does, whoever's it is.
LEMMA CollectKeeps ==
  ASSUME DInv, TInv, NEW s \in Sessions, Collect(s)
  PROVE  DInv' /\ TInv'
<1>1. CASE \E e \in Endpoints : FeedFetched(s, e) \/ FeedFails(s, e) \/ HubSkipped(s, e)
  BY <1>1, FeedKeeps, FeedAgrees
<1>2. ASSUME NEW item \in Items, Known(s, item) PROVE DInv' /\ TInv'
  <2>1. NextItem(s) /\ UNCHANGED <<docs, failures>> /\ session[s].items # <<>>
    BY <1>2 DEF Known, Passes, AtItem
  <2>. QED BY <2>1, KnownKeeps, NextAgrees, SparesAll DEF TInv
<1>3. ASSUME NEW item \in Items, Ambiguous(s, item) \/ Rejected(s, item) PROVE DInv' /\ TInv'
  <2>1. Raise(s, docs) /\ UNCHANGED failures /\ session[s].items # <<>>
    BY <1>3 DEF Ambiguous, Rejected, Passes, AtItem
  <2>. QED BY <2>1, RefusedKeeps, RaiseAgrees, SparesAll DEF TInv, DInv
<1>4. ASSUME NEW item \in Items, Created(s, item) PROVE DInv' /\ TInv'
  BY <1>4, CreatedKeeps, CreatedAgrees
<1>5. CASE FetchFails(s) \/ ParseFails(s)
  BY <1>5, FailsKeeps, FailsAgrees
<1>6. ASSUME NEW content \in Contents, Fetched(s, content) PROVE DInv' /\ TInv'
  BY <1>6, FetchedKeeps, FetchedAgrees
<1>7. CASE Parsed(s) \/ Commit(s)
  BY <1>7, ParsedKeeps, ParsedAgrees, EndKeeps, EndAgrees
<1>8. CASE Unreadable(s) \/ Chunked(s)
  <2>1. NextItem(s) /\ UNCHANGED <<docs, failures>> /\ AtWork(session[s])
    BY <1>8 DEF Unreadable, Chunked, AtWork
  <2>2. session[s].items # <<>>
    BY <2>1 DEF TInv, Walks
  <2>. QED BY <2>1, <2>2, KnownKeeps, NextAgrees, SparesAll DEF TInv
<1>. QED BY <1>1, <1>2, <1>3, <1>4, <1>5, <1>6, <1>7, <1>8 DEF Collect

LEMMA NextKeeps == DInv /\ TInv /\ [Next]_vars => (DInv /\ TInv)'
<1>. SUFFICES ASSUME DInv, TInv, [Next]_vars PROVE DInv' /\ TInv'
  OBVIOUS
<1>1. ASSUME NEW s \in Sessions, NEW item \in Items, NEW source \in (Endpoints \ Hubs) \cup {NewSource},
             Submitted(s, item, source)
      PROVE  DInv' /\ TInv'
  <2>1. source \in Sources
    BY DEF Sources
  <2>. QED BY <1>1, <2>1, SubmittedKeeps, SubmittedAgrees
<1>2. ASSUME UNCHANGED vars PROVE DInv' /\ TInv'
  BY <1>2 DEF vars, DInv, TInv
<1>. QED BY <1>1, <1>2, CollectKeeps, BeginKeeps, BeginAgrees, EndKeeps, EndAgrees DEF Next

\* Following duplicate_of ends at a document that is no duplicate, for any number
\* of transactions that compare, commit and roll back at once.
THEOREM DuplicatesEnd == Spec => []DuplicatesLeadToOriginal
<1>1. DInv => DuplicatesLeadToOriginal
  <2>1. Existing = Alive(docs)
    BY DEF Existing, Alive
  <2>. QED BY <2>1 DEF DInv, DocsOK, Rooted, DuplicatesLeadToOriginal
<1>. QED BY <1>1, InitDInv, InitTInv, NextKeeps, PTL DEF Spec

\* A stored document is a duplicate only of a stored document that is like it,
\* whichever transactions are rolled back.
THEOREM DuplicatesRemain == Spec => []DuplicatesAreStored
<1>1. DInv => DuplicatesAreStored
  BY DEF DInv, DocsOK, Refers, Alike, DuplicatesAreStored, Stored
<1>. QED BY <1>1, InitDInv, InitTInv, NextKeeps, PTL DEF Spec

\* A job that commits leaves a count on every endpoint that it last saw failing: what it
\* has locked and not written is at zero (mark_endpoint_failure).
THEOREM FailuresStayVisible == Spec => FailuresAreVisible
<1>1. TInv /\ [Next]_vars =>
        [\A s \in Sessions : session[s].job /\ Commit(s) =>
           \A e \in session[s].locks : session[s].count[e] > 0 => failures'[e] > 0]_vars
  <2>. SUFFICES ASSUME TInv, NEW s \in Sessions, Commit(s), NEW e \in session[s].locks,
                       session[s].count[e] > 0
                PROVE  failures'[e] > 0
    OBVIOUS
  <2>1. e \in Endpoints /\ e \in session[s].dirty
    <3>1. Counts(session[s])
      BY DEF TInv
    <3>2. e \in Endpoints /\ (e \notin session[s].dirty => session[s].count[e] = 0)
      BY <3>1 DEF Counts
    <3>. QED BY <3>2
  <2>2. failures'[e] = session[s].count[e]
    BY <2>1 DEF Commit
  <2>. QED BY <2>2
<1>. QED BY <1>1, InitDInv, InitTInv, NextKeeps, PTL DEF Spec, FailuresAreVisible

-----------------------------------------------------------------------------
(* What look-ups missed.                                                   *)

\* A look-up for one of the two documents would have found the other.
Apart(ms, d, e) == <<d, e>> \in ms \/ <<e, d>> \in ms

SameUrl(d, e) == d.item = e.item /\ d.source = e.source /\ d.source # NewSource

\* Both are taken for originals, though they are equal.
Unrecognized(d, e) ==
  /\ d.dup = 0 /\ e.dup = 0
  /\ \/ d.content = e.content /\ d.content # None
     \/ d.text = e.text /\ d.text # None

MissedOK(ds, ms) == ms \subseteq Alive(ds) \X Alive(ds)

UInv(ds, ms) ==
  \A d, e \in Alive(ds) :
    d # e /\ (SameUrl(ds[d], ds[e]) \/ Unrecognized(ds[d], ds[e])) => Apart(ms, d, e)

HInv(ds, ms) == MissedOK(ds, ms) /\ UInv(ds, ms)

\* What a transaction does not see of the documents there are is hidden from it.
LEMMA SeenOrHidden ==
  ASSUME DInv, NEW s \in Sessions
  PROVE  Alive(docs) \subseteq Visible(s) \cup Hidden(s)
<1>1. s # Lost /\ Committed # Lost
  BY IngestionAssumption DEF Lost, Committed
<1>2. \A d \in DOMAIN docs : docs[d].owner \in Sessions \cup {Committed, Lost}
  <2>1. \A d \in DOMAIN docs : docs[d] \in Row
    BY DEF DInv, DocsOK
  <2>. QED BY <2>1 DEF Row, Column
<1>. QED BY <1>1, <1>2 DEF Visible, Hidden, Alive

\* A look-up adds what it misses: documents that are there.
LEMMA LooksAt ==
  ASSUME NEW s \in Sessions, NEW d, NEW es, LooksFor(s, d, es)
  PROVE  /\ missed' = missed \cup ({d} \X (es \cap Hidden(s)))
         /\ Hidden(s) \subseteq Alive(docs)
         /\ missed \subseteq missed'
         /\ \A e \in es \cap Hidden(s) : Apart(missed', d, e)
BY IngestionAssumption DEF LooksFor, Hidden, Alive, Lost, Apart

\* A commit leaves documents and what they missed as they were.
LEMMA KeptApart ==
  ASSUME NEW ds, DocsOK(ds), NEW s \in Sessions, NEW ms, HInv(ds, ms)
  PROVE  HInv(Kept(ds, s), ms)
<1>1. s # Lost /\ Committed # Lost
  BY IngestionAssumption DEF Lost, Committed
<1>2. PICK es : es = Kept(ds, s)
  OBVIOUS
<1>3. ASSUME NEW d \in DOMAIN ds
      PROVE  /\ es[d].item = ds[d].item /\ es[d].source = ds[d].source
             /\ es[d].content = ds[d].content /\ es[d].text = ds[d].text
             /\ es[d].dup = ds[d].dup
             /\ es[d].owner # Lost <=> ds[d].owner # Lost
  <2>1. ds[d] \in Row
    BY DEF DocsOK
  <2>2. CASE ds[d].owner = s
    <3>1. es[d] = [ds[d] EXCEPT !.owner = Committed]
      BY <1>2, <2>2 DEF Kept
    <3>. QED BY <1>1, <2>1, <2>2, <3>1 DEF Row, Column
  <2>3. CASE ds[d].owner # s
    <3>1. es[d] = ds[d]
      BY <1>2, <2>3 DEF Kept
    <3>. QED BY <3>1
  <2>. QED BY <2>2, <2>3
<1>4. Alive(es) = Alive(ds)
  <2>1. DOMAIN es = DOMAIN ds
    BY <1>2 DEF Kept
  <2>. QED BY <1>3, <2>1 DEF Alive
<1>5. UInv(es, ms)
  <2>. SUFFICES ASSUME NEW d \in Alive(ds), NEW e \in Alive(ds), d # e,
                       SameUrl(es[d], es[e]) \/ Unrecognized(es[d], es[e])
                PROVE  Apart(ms, d, e)
    BY <1>4 DEF UInv
  <2>1. d \in DOMAIN ds /\ e \in DOMAIN ds
    BY DEF Alive
  <2>2. SameUrl(ds[d], ds[e]) \/ Unrecognized(ds[d], ds[e])
    BY <1>3, <2>1 DEF SameUrl, Unrecognized
  <2>. QED BY <2>2 DEF HInv, UInv
<1>. QED BY <1>2, <1>4, <1>5 DEF HInv, MissedOK

\* A rollback takes documents away, and what was missed of them.
LEMMA RolledBackApart ==
  ASSUME NEW ds, DocsOK(ds), NEW s \in Sessions, NEW ms, HInv(ds, ms)
  PROVE  HInv(RolledBack(ds, s), {m \in ms : ds[m[1]].owner # s /\ ds[m[2]].owner # s})
<1>1. PICK es : es = RolledBack(ds, s)
  OBVIOUS
<1>2. PICK ns : ns = {m \in ms : ds[m[1]].owner # s /\ ds[m[2]].owner # s}
  OBVIOUS
<1>3. /\ DOMAIN es \subseteq DOMAIN ds
      /\ \A d \in DOMAIN ds : ds[d].owner \notin {s, Lost} => d \in DOMAIN es
      /\ \A d \in DOMAIN es : ds[d].owner = s => es[d].owner = Lost
      /\ \A d \in DOMAIN es : ds[d].owner # s => es[d] = ds[d]
  BY <1>1, RolledBackRows DEF DocsOK
<1>4. \A d \in Alive(es) : d \in Alive(ds) /\ es[d] = ds[d] /\ ds[d].owner # s
  BY <1>3 DEF Alive
<1>5. \A d \in Alive(ds) : ds[d].owner # s => d \in Alive(es)
  BY <1>3 DEF Alive
<1>6. MissedOK(es, ns)
  <2>. SUFFICES ASSUME NEW m \in ns PROVE m \in Alive(es) \X Alive(es)
    BY DEF MissedOK
  <2>1. m \in Alive(ds) \X Alive(ds) /\ ds[m[1]].owner # s /\ ds[m[2]].owner # s
    BY <1>2 DEF HInv, MissedOK
  <2>2. PICK x \in Alive(ds), y \in Alive(ds) : m = <<x, y>>
    BY <2>1
  <2>. QED BY <2>1, <2>2, <1>5
<1>7. UInv(es, ns)
  <2>. SUFFICES ASSUME NEW d \in Alive(es), NEW e \in Alive(es), d # e,
                       SameUrl(es[d], es[e]) \/ Unrecognized(es[d], es[e])
                PROVE  Apart(ns, d, e)
    BY DEF UInv
  <2>1. Apart(ms, d, e)
    BY <1>4 DEF HInv, UInv
  <2>. QED BY <1>2, <1>4, <2>1 DEF Apart
<1>. QED BY <1>1, <1>2, <1>6, <1>7 DEF HInv

\* A row is written for a document, and what is alike was missed.
LEMMA WrittenApart ==
  ASSUME NEW ds, NEW ms, HInv(ds, ms), NEW d \in Alive(ds), NEW v, v.owner # Lost,
         v.item = ds[d].item, v.source = ds[d].source,
         NEW ns, ms \subseteq ns, ns \subseteq Alive(ds) \X Alive(ds),
         \A e \in Alive(ds) \ {d} : Unrecognized(v, ds[e]) => Apart(ns, d, e)
  PROVE  HInv([ds EXCEPT ![d] = v], ns)
<1>. DEFINE es == [ds EXCEPT ![d] = v]
<1>1. /\ DOMAIN es = DOMAIN ds /\ d \in DOMAIN ds
      /\ \A e \in DOMAIN ds : es[e] = IF e = d THEN v ELSE ds[e]
  BY DEF Alive
<1>. HIDE DEF es
<1>2. Alive(es) = Alive(ds)
  BY <1>1 DEF Alive
<1>3. ASSUME NEW x \in Alive(ds), NEW y \in Alive(ds), x # y,
             SameUrl(es[x], es[y]) \/ Unrecognized(es[x], es[y])
      PROVE  Apart(ns, x, y)
  <2>1. x \in DOMAIN ds /\ y \in DOMAIN ds
    BY DEF Alive
  <2>2. CASE SameUrl(es[x], es[y])
    <3>1. SameUrl(ds[x], ds[y])
      BY <1>1, <2>1, <2>2 DEF SameUrl
    <3>2. Apart(ms, x, y)
      BY <1>3, <3>1 DEF HInv, UInv
    <3>. QED BY <3>2 DEF Apart
  <2>3. CASE Unrecognized(es[x], es[y])
    <3>1. CASE x = d
      <4>1. y \in Alive(ds) \ {d} /\ es[x] = v /\ es[y] = ds[y]
        BY <1>1, <1>3, <2>1, <3>1
      <4>. QED BY <2>3, <3>1, <4>1
    <3>2. CASE y = d
      <4>1. x \in Alive(ds) \ {d} /\ es[y] = v /\ es[x] = ds[x]
        BY <1>1, <1>3, <2>1, <3>2
      <4>2. Unrecognized(v, ds[x])
        BY <2>3, <4>1 DEF Unrecognized
      <4>3. Apart(ns, d, x)
        BY <4>1, <4>2
      <4>. QED BY <3>2, <4>3 DEF Apart
    <3>3. CASE x # d /\ y # d
      <4>1. es[x] = ds[x] /\ es[y] = ds[y]
        BY <1>1, <2>1, <3>3
      <4>2. Apart(ms, x, y)
        BY <1>3, <2>3, <4>1 DEF HInv, UInv
      <4>. QED BY <4>2 DEF Apart
    <3>. QED BY <3>1, <3>2, <3>3
  <2>. QED BY <1>3, <2>2, <2>3
<1>4. UInv(es, ns)
  BY <1>2, <1>3 DEF UInv
<1>. QED BY <1>2, <1>4 DEF HInv, MissedOK, es

\* An exception leaves what was written, or takes the transaction away.
LEMMA RaiseApart ==
  ASSUME NEW s \in Sessions, NEW ds, DocsOK(ds), HInv(ds, missed), Raise(s, ds),
         \A d \in Alive(ds) : ds[d].owner = docs[d].owner
  PROVE  HInv(docs', missed')
<1>1. CASE session[s].job
  BY <1>1 DEF Raise
<1>2. CASE ~session[s].job
  <2>1. /\ docs' = RolledBack(ds, s)
        /\ missed' = {m \in missed : docs[m[1]].owner # s /\ docs[m[2]].owner # s}
    BY <1>2 DEF Raise, Forgets
  <2>2. ASSUME NEW m \in missed
        PROVE  ds[m[1]].owner = docs[m[1]].owner /\ ds[m[2]].owner = docs[m[2]].owner
    <3>1. m \in Alive(ds) \X Alive(ds)
      BY DEF HInv, MissedOK
    <3>2. PICK x \in Alive(ds), y \in Alive(ds) : m = <<x, y>>
      BY <3>1
    <3>. QED BY <3>2
  <2>3. missed' = {m \in missed : ds[m[1]].owner # s /\ ds[m[2]].owner # s}
    BY <2>1, <2>2
  <2>. QED BY <2>1, <2>3, RolledBackApart
<1>. QED BY <1>1, <1>2

LEMMA CreatedApart ==
  ASSUME DInv, HInv(docs, missed), NEW s \in Sessions, NEW item \in Items, Created(s, item)
  PROVE  HInv(docs', missed')
<1>1. PICK v : v = Doc(item, session[s].source, s)
  OBVIOUS
<1>2. /\ v \in Row /\ v.owner = s /\ v.item = item /\ v.source = session[s].source
      /\ v.content = None /\ v.text = None
  BY <1>1, NewRow DEF DInv, SessionOK
<1>3. PICK d : d = Len(docs) + 1
  OBVIOUS
<1>4. PICK like : like = OfUrl(item, session[s].source)
  OBVIOUS
<1>5. /\ docs' = Append(docs, v) /\ docs \in Seq(Row) /\ like \cap Visible(s) = {}
      /\ LooksFor(s, d, like)
  BY <1>1, <1>3, <1>4 DEF Created, Found, DInv, DocsOK
<1>6. /\ DOMAIN docs' = DOMAIN docs \cup {d} /\ docs'[d] = v /\ d \notin DOMAIN docs
      /\ \A e \in DOMAIN docs : docs'[e] = docs[e]
  BY <1>2, <1>3, <1>5
<1>7. Alive(docs') = Alive(docs) \cup {d}
  <2>1. s # Lost
    BY IngestionAssumption DEF Lost
  <2>. QED BY <1>2, <1>6, <2>1 DEF Alive
<1>8. MissedOK(docs', missed')
  BY <1>5, <1>7, LooksAt DEF HInv, MissedOK
<1>9. ASSUME NEW e \in Alive(docs), SameUrl(v, docs[e]) \/ SameUrl(docs[e], v)
      PROVE  Apart(missed', d, e) /\ Apart(missed', e, d)
  <2>1. e \in like
    BY <1>2, <1>4, <1>9 DEF SameUrl, OfUrl, Alive
  <2>2. e \in Hidden(s)
    BY <1>5, <2>1, SeenOrHidden
  <2>3. Apart(missed', d, e)
    BY <1>5, <2>1, <2>2, LooksAt
  <2>. QED BY <2>3 DEF Apart
<1>10. \A q : ~Unrecognized(v, q) /\ ~Unrecognized(q, v)
  BY <1>2 DEF Unrecognized
<1>11. UInv(docs', missed')
  <2>. SUFFICES ASSUME NEW x \in Alive(docs'), NEW y \in Alive(docs'), x # y,
                       SameUrl(docs'[x], docs'[y]) \/ Unrecognized(docs'[x], docs'[y])
                PROVE  Apart(missed', x, y)
    BY DEF UInv
  <2>1. \A e \in Alive(docs) : docs'[e] = docs[e] /\ e # d
    BY <1>6 DEF Alive
  <2>2. CASE x = d
    BY <1>6, <1>7, <1>9, <1>10, <2>1, <2>2
  <2>3. CASE y = d
    BY <1>6, <1>7, <1>9, <1>10, <2>1, <2>3
  <2>4. CASE x # d /\ y # d
    <3>1. Apart(missed, x, y)
      BY <1>7, <2>1, <2>4 DEF HInv, UInv
    <3>. QED BY <1>5, <3>1, LooksAt DEF Apart
  <2>. QED BY <2>2, <2>3, <2>4
<1>. QED BY <1>8, <1>11 DEF HInv

LEMMA FailsApart ==
  ASSUME DInv, HInv(docs, missed), NEW s \in Sessions, FetchFails(s) \/ ParseFails(s)
  PROVE  HInv(docs', missed')
<1>1. PICK ds : ds = Marked(s)
  OBVIOUS
<1>2. AtWork(session[s]) /\ Raise(s, ds)
  BY <1>1 DEF Marked, FetchFails, ParseFails, AtWork
<1>3. PICK d : d = session[s].doc
  OBVIOUS
<1>4. PICK v \in Row :
        /\ ds = [docs EXCEPT ![d] = v] /\ d \in DOMAIN docs /\ docs[d].owner = s
        /\ v.owner = s /\ v.item = docs[d].item /\ v.source = docs[d].source
        /\ v.content = docs[d].content /\ v.text = docs[d].text /\ v.dup = docs[d].dup
        /\ DocsOK(ds)
  BY <1>1, <1>2, <1>3, FailsWrites
<1>5. d \in Alive(docs) /\ v.owner # Lost
  BY <1>4, IngestionAssumption DEF Alive, Lost
<1>6. ASSUME NEW e \in Alive(docs) \ {d}, Unrecognized(v, docs[e]) PROVE Apart(missed, d, e)
  <2>1. Unrecognized(docs[d], docs[e])
    BY <1>4, <1>6 DEF Unrecognized
  <2>. QED BY <1>5, <2>1 DEF HInv, UInv
<1>7. HInv(ds, missed)
  BY <1>4, <1>5, <1>6, WrittenApart DEF HInv, MissedOK
<1>8. \A e \in Alive(ds) : ds[e].owner = docs[e].owner
  BY <1>4 DEF Alive
<1>. QED BY <1>2, <1>4, <1>7, <1>8, RaiseApart

LEMMA FetchedApart ==
  ASSUME DInv, HInv(docs, missed), NEW s \in Sessions, NEW content \in Contents,
         Fetched(s, content)
  PROVE  HInv(docs', missed')
<1>1. PICK d : d = session[s].doc
  OBVIOUS
<1>2. PICK v \in Row :
        /\ docs' = [docs EXCEPT ![d] = v] /\ d \in DOMAIN docs /\ v.owner = s
        /\ v.item = docs[d].item /\ v.source = docs[d].source
        /\ v.content = content /\ v.text = None
        /\ v.dup = 0 <=> SameContent(s, d, content) = {}
  BY <1>1, FetchedWrites
<1>3. d \in Alive(docs) /\ v.owner # Lost
  BY <1>1, <1>2, WorkOwns, IngestionAssumption DEF Alive, Lost, Fetched, AtWork
<1>4. LooksFor(s, d, OfContent(content))
  BY <1>1 DEF Fetched
<1>5. ASSUME NEW e \in Alive(docs) \ {d}, Unrecognized(v, docs[e]) PROVE Apart(missed', d, e)
  <2>1. e \in OfContent(content) /\ v.dup = 0
    BY <1>2, <1>5 DEF Unrecognized, OfContent, Alive
  <2>2. e \in Hidden(s)
    BY <1>2, <2>1, SeenOrHidden DEF SameContent
  <2>. QED BY <1>4, <2>1, <2>2, LooksAt
<1>6. missed \subseteq missed' /\ missed' \subseteq Alive(docs) \X Alive(docs)
  BY <1>3, <1>4, LooksAt DEF HInv, MissedOK
<1>. QED BY <1>2, <1>3, <1>5, <1>6, WrittenApart

LEMMA ParsedApart ==
  ASSUME DInv, HInv(docs, missed), NEW s \in Sessions, Parsed(s)
  PROVE  HInv(docs', missed')
<1>1. PICK d : d = session[s].doc
  OBVIOUS
<1>2. PICK text : text = TextOf[docs[d].content]
  OBVIOUS
<1>3. PICK v \in Row :
        /\ docs' = [docs EXCEPT ![d] = v] /\ d \in DOMAIN docs /\ v.owner = s
        /\ v.item = docs[d].item /\ v.source = docs[d].source /\ docs[d].dup = 0
        /\ v.content = docs[d].content /\ v.text = text
        /\ v.dup = 0 <=> SameText(s, d, text) = {}
  BY <1>1, <1>2, ParsedWrites
<1>4. d \in Alive(docs) /\ v.owner # Lost
  BY <1>1, <1>3, WorkOwns, IngestionAssumption DEF Alive, Lost, Parsed, AtWork
<1>5. LooksFor(s, d, OfText(text))
  BY <1>1, <1>2 DEF Parsed
<1>6. missed \subseteq missed' /\ missed' \subseteq Alive(docs) \X Alive(docs)
  BY <1>4, <1>5, LooksAt DEF HInv, MissedOK
<1>7. ASSUME NEW e \in Alive(docs) \ {d}, Unrecognized(v, docs[e]) PROVE Apart(missed', d, e)
  <2>1. CASE v.content = docs[e].content /\ v.content # None
    <3>1. Unrecognized(docs[d], docs[e])
      BY <1>3, <1>7, <2>1 DEF Unrecognized
    <3>2. Apart(missed, d, e)
      BY <1>4, <1>7, <3>1 DEF HInv, UInv
    <3>. QED BY <1>6, <3>2 DEF Apart
  <2>2. CASE v.text = docs[e].text /\ v.text # None
    <3>1. e \in OfText(text) /\ v.dup = 0
      BY <1>3, <1>7, <2>2 DEF Unrecognized, OfText, Alive
    <3>2. e \in Hidden(s)
      BY <1>3, <3>1, SeenOrHidden DEF SameText
    <3>. QED BY <1>5, <3>1, <3>2, LooksAt
  <2>. QED BY <1>7, <2>1, <2>2 DEF Unrecognized
<1>. QED BY <1>3, <1>4, <1>6, <1>7, WrittenApart

LEMMA CollectApart ==
  ASSUME DInv, HInv(docs, missed), NEW s \in Sessions, Collect(s)
  PROVE  HInv(docs', missed')
<1>1. CASE \E e \in Endpoints : FeedFetched(s, e) \/ FeedFails(s, e) \/ HubSkipped(s, e)
  BY <1>1 DEF FeedFetched, FeedFails, HubSkipped
<1>2. CASE (\E item \in Items : Known(s, item)) \/ Unreadable(s) \/ Chunked(s)
  BY <1>2 DEF Known, Unreadable, Chunked
<1>3. CASE \E item \in Items : Ambiguous(s, item) \/ Rejected(s, item)
  BY <1>3, RaiseApart DEF Ambiguous, Rejected, DInv
<1>4. CASE \E item \in Items : Created(s, item)
  BY <1>4, CreatedApart
<1>5. CASE FetchFails(s) \/ ParseFails(s)
  BY <1>5, FailsApart
<1>6. CASE \E content \in Contents : Fetched(s, content)
  BY <1>6, FetchedApart
<1>7. CASE Parsed(s)
  BY <1>7, ParsedApart
<1>8. CASE Commit(s)
  BY <1>8, KeptApart DEF Commit, DInv
<1>. QED BY <1>1, <1>2, <1>3, <1>4, <1>5, <1>6, <1>7, <1>8 DEF Collect

LEMMA NextApart == DInv /\ HInv(docs, missed) /\ [Next]_vars => HInv(docs, missed)'
<1>1. ASSUME DInv, HInv(docs, missed), NEW s \in Sessions, Aborts(s)
      PROVE  HInv(docs', missed')
  BY <1>1, RolledBackApart DEF Aborts, Forgets, DInv
<1>2. ASSUME DInv, HInv(docs, missed), NEW s \in Sessions,
             (\E kind : Begin(s, kind)) \/ \E item, source : Submitted(s, item, source)
      PROVE  HInv(docs', missed')
  BY <1>2 DEF Begin, Submitted
<1>3. ASSUME HInv(docs, missed), UNCHANGED vars PROVE HInv(docs', missed')
  BY <1>3 DEF vars
<1>. QED BY <1>1, <1>2, <1>3, CollectApart DEF Next

\* What all the theorems on look-ups rest on.
LEMMA SpecApart == Spec => [](DInv /\ TInv /\ HInv(docs, missed))
<1>1. Init => HInv(docs, missed)
  BY DEF Init, HInv, MissedOK, UInv, Alive
<1>. QED BY <1>1, InitDInv, InitTInv, NextKeeps, NextApart, PTL DEF Spec

\* Two documents for one URL of a source come only of submissions that overlapped,
\* for any number of callers, failures and rollbacks (submit_url looks for it first).
THEOREM UrlsRepeat == Spec => []UrlsRepeatByOverlap
<1>1. HInv(docs, missed) => UrlsRepeatByOverlap
  <2>1. Stored \subseteq Alive(docs)
    BY DEF Stored, Alive, Committed, Lost
  <2>. QED BY <2>1 DEF HInv, UInv, SameUrl, Apart, Overlapped, UrlsRepeatByOverlap
<1>. QED BY <1>1, SpecApart, PTL

\* Of two documents with the same bytes or the same text, both are originals only when
\* their submissions overlapped (_fetch_archive_parse).
THEOREM CopiesEscape == Spec => []CopiesEscapeByOverlap
<1>1. HInv(docs, missed) => CopiesEscapeByOverlap
  <2>1. Stored \subseteq Alive(docs)
    BY DEF Stored, Alive, Committed, Lost
  <2>. QED BY <2>1 DEF HInv, UInv, Unrecognized, Apart, Overlapped, CopiesEscapeByOverlap
<1>. QED BY <1>1, SpecApart, PTL

\* Rows, counts and sessions have their types, and a session at work holds the document
\* of its item.
THEOREM DocumentsAreTyped == Spec => []TypeOK
<1>1. DInv /\ TInv /\ HInv(docs, missed) => TypeOK
  <2>. SUFFICES ASSUME DInv, TInv, HInv(docs, missed) PROVE TypeOK
    OBVIOUS
  <2>1. ASSUME NEW d \in DOMAIN docs
        PROVE  docs[d] \in [item: Items \cup {None}, source: Endpoints \cup {NewSource, None},
                            owner: Sessions \cup {Committed, Lost},
                            status: {"pending", "fetched", "parsed", "failed"},
                            content: Contents \cup {None},
                            text: {TextOf[c] : c \in Contents} \cup {None}, dup: 0..MaxDocs]
    <3>1. /\ docs[d] \in Row /\ docs \in Seq(Row)
          /\ docs[d].dup # 0 => docs[d].dup \in DOMAIN docs
      BY DEF DInv, DocsOK, Refers
    <3>2. Len(docs) \in Nat /\ Len(docs) <= MaxDocs /\ DOMAIN docs = 1..Len(docs)
      BY <3>1 DEF TInv
    <3>3. docs[d].dup \in 0..MaxDocs
      BY <3>1, <3>2, IngestionAssumption DEF Row, Column
    <3>. QED BY <3>1, <3>3 DEF Row, Column, Sources, Texts
  <2>2. ASSUME NEW t \in Sessions
        PROVE  /\ session[t].pc \in {"idle", "ready", "fetching", "parsing", "chunking"}
               /\ session[t].dirty \subseteq session[t].locks
               /\ session[t].locks \subseteq Endpoints
               /\ session[t].pc = "idle" => session[t] = Idle
               /\ session[t].pc \in {"fetching", "parsing", "chunking"} =>
                    docs[session[t].doc].owner = t
                      /\ docs[session[t].doc].item = Head(session[t].items)
    BY DEF TInv, Counts, Walks, Agrees, DInv, SessionOK, Owns, AtWork
  <2>3. missed \subseteq (DOMAIN docs) \X (DOMAIN docs)
    BY DEF HInv, MissedOK, Alive
  <2>. QED BY <2>1, <2>2, <2>3 DEF TypeOK, TInv
<1>. QED BY <1>1, SpecApart, PTL
================================================================================
