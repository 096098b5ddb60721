-------------------------- MODULE KnowledgeProofs --------------------------
(***************************************************************************)
(* Proofs about Knowledge, for any documents, graphs, requests and number  *)
(* of readers, whatever fails and wherever a query is cancelled: indexes   *)
(* are built once in the life of a process, and before a graph is used; no *)
(* graph holds a document of another project, and until something fails a  *)
(* document acked is in the graph of its own exactly once; and an answer   *)
(* is the neighbourhood asked for.                                         *)
(***************************************************************************)
EXTENDS Knowledge, SequenceTheorems, FiniteSetTheorems, WellFoundedInduction, TLAPS

CoroutineSteps ==
  {"idle", "use", "build", "extract", "spool", "ack", "entities", "episodes", "facts"}
Using == {"extract", "entities", "episodes", "facts"}

\* A query is a record of these fields, about a project that has a group.
IsQuery(q) ==
  /\ q = [req |-> q.req, nodes |-> q.nodes, facts |-> q.facts]
  /\ q.req \in Requests \cup {NoRequest}

\* What the documents and the queries in hand look like.
InHand ==
  /\ docs \in Seq(Documents) /\ FeedType(feed, Len(docs))
  /\ at \in [Coroutines -> CoroutineSteps]
  /\ at["ingest"] # "idle" => feed.batch # <<>>
  /\ query = [r \in Readers |-> query[r]]
  /\ \A r \in Readers : IsQuery(query[r]) /\ (at[r] # "idle" => query[r].req.project # "")

\* Whoever builds has the lock, and for a graph that nobody has built.
LockInv ==
  /\ built \in [Groups -> Nat] /\ \A g \in Groups : built[g] = IF g \in ready THEN 1 ELSE 0
  /\ \A c \in Coroutines : at[c] = "build" => holder = c /\ Group(c) \notin ready
  /\ \A c \in Coroutines : at[c] \in Using => Group(c) \in ready

KInv == InHand /\ LockInv

-----------------------------------------------------------------------------
\* The document the ingestor has in hand is a document.
LEMMA HeadTyped ==
  ASSUME InHand, feed.batch # <<>>
  PROVE  Head(feed.batch) \in 1 .. Len(docs)
<1>1. feed.batch \in Seq(1 .. feed.next) /\ feed.next \in 0 .. Len(docs) /\ Len(docs) \in Nat
  BY LenProperties DEF InHand, FeedType
<1>2. Head(feed.batch) \in 1 .. feed.next
  BY <1>1, HeadTailProperties
<1>3. QED
  BY <1>1, <1>2

\* A coroutine's graph is one of the graphs.
LEMMA GroupTyped ==
  ASSUME InHand, NEW c \in Coroutines, at[c] # "idle"
  PROVE  Group(c) \in Groups
<1>1. CASE c = "ingest"
  <2>1. Head(feed.batch) \in 1 .. Len(docs)
    BY <1>1, HeadTyped DEF InHand
  <2>2. Doc \in Documents
    BY <2>1, ElementOfSeq DEF InHand, Doc
  <2>3. ProjectOf(Doc) \in DOMAIN GroupOf
    BY <2>2, KnowledgeAssumption DEF ProjectOf
  <2>4. QED
    BY <1>1, <2>3, KnowledgeAssumption DEF Group
<1>2. CASE c # "ingest"
  <2>1. c \in Readers /\ query[c].req \in Requests \cup {NoRequest} /\ query[c].req.project # ""
    BY <1>2 DEF Coroutines, InHand, IsQuery
  <2>2. \A q \in Requests : q.project \in DOMAIN GroupOf \cup {""}
    BY KnowledgeAssumption
  <2>3. query[c].req.project \in DOMAIN GroupOf
    <3>1. NoRequest.project = ""
      BY DEF NoRequest
    <3>2. query[c].req \in Requests
      BY <2>1, <3>1
    <3>3. QED
      BY <2>1, <2>2, <3>2
  <2>4. QED
    BY <1>2, <2>3, KnowledgeAssumption DEF Group
<1>3. QED
  BY <1>1, <1>2

LEMMA KInvInit == KInit => KInv
<1> SUFFICES ASSUME KInit PROVE KInv
  OBVIOUS
<1>1. docs \in Seq(Documents) /\ Len(docs) = 0
  BY EmptySeq DEF KInit
<1>2. FeedType(feed, Len(docs))
  <2>1. feed = [next |-> 0, out |-> {}, batch |-> <<>>]
    BY DEF KInit, EmptyFeed, Feed
  <2>2. QED
    BY <1>1, <2>1, EmptySeq DEF FeedType, Feed
<1>3. \A c \in Coroutines : at[c] = "idle"
  BY DEF KInit
<1>4. at \in [Coroutines -> CoroutineSteps] /\ "ingest" \in Coroutines
  BY DEF KInit, CoroutineSteps, Coroutines
<1>5. query = [r \in Readers |-> query[r]] /\ \A r \in Readers : IsQuery(query[r])
  BY DEF KInit, IsQuery, NoQuery
<1>6. InHand
  BY <1>1, <1>2, <1>3, <1>4, <1>5 DEF InHand, Coroutines
<1>7. LockInv
  BY <1>3 DEF LockInv, KInit, Using
<1>8. QED
  BY <1>6, <1>7 DEF KInv

\* The graph of a coroutine that stays at work stays the same.
SameGroups == \A c \in Coroutines : at[c] # "idle" /\ at'[c] # "idle" => Group(c)' = Group(c)

\* Steps that neither lock nor build: who works on keeps its graph, nobody
\* begins to build, and who begins to use a graph finds it built.
LEMMA NoBuilding ==
  ASSUME KInv, InHand', SameGroups, UNCHANGED <<ready, built>>,
         NEW d \in Coroutines, \A c \in Coroutines : c # d => at'[c] = at[c],
         at'[d] # "build", at'[d] \in Using => at[d] \in Using,
         \A c \in Coroutines : c # d /\ holder = c => holder' = c
  PROVE  LockInv'
<1>1. (built \in [Groups -> Nat] /\ \A g \in Groups : built[g] = IF g \in ready THEN 1 ELSE 0)'
  BY DEF KInv, LockInv
<1>2. ASSUME NEW c \in Coroutines, at'[c] = "build"
      PROVE  holder' = c /\ Group(c)' \notin ready'
  BY <1>2 DEF KInv, LockInv, SameGroups
<1>3. ASSUME NEW c \in Coroutines, at'[c] \in Using
      PROVE  Group(c)' \in ready'
  BY <1>3 DEF KInv, LockInv, SameGroups, Using
<1>4. QED
  BY <1>1, <1>2, <1>3 DEF LockInv

-----------------------------------------------------------------------------
(* Documents and the durable. *)

\* The graph of a coroutine depends on the head of the batch, on that
\* document and on the query.
LEMMA HandsKept ==
  ASSUME InHand, UNCHANGED <<docs, feed.batch, query>>
  PROVE  SameGroups
BY DEF SameGroups, Group, Doc

\* A feed of a stream is one of a longer stream.
LEMMA FeedGrows ==
  ASSUME NEW f, NEW m \in Nat, FeedType(f, m)
  PROVE  FeedType(f, m + 1)
BY DEF FeedType

LEMMA PublishKeeps ==
  ASSUME KInv, NEW d \in Documents, Publish(d)
  PROVE  KInv' /\ SameGroups
<1>1. docs \in Seq(Documents) /\ docs' = Append(docs, d) /\ feed' = feed
  BY DEF Publish, KInv, InHand
<1>2. docs' \in Seq(Documents) /\ Len(docs') = Len(docs) + 1 /\ Len(docs) \in Nat
      /\ \A i \in 1 .. Len(docs) : docs'[i] = docs[i]
  BY <1>1, AppendProperties, LenProperties
<1>9. FeedType(feed, Len(docs'))
  BY <1>2, FeedGrows DEF KInv, InHand
<1>3. InHand'
  BY <1>1, <1>2, <1>9 DEF Publish, KInv, InHand, queue, schema
<1>4. SameGroups
  <2>1. ASSUME NEW c \in Coroutines, at[c] # "idle"
        PROVE  Group(c)' = Group(c)
    <3>1. CASE c = "ingest"
      <4>1. Head(feed.batch) \in 1 .. Len(docs)
        BY <2>1, <3>1, HeadTyped DEF KInv, InHand
      <4>2. Doc' = Doc
        BY <1>1, <1>2, <4>1 DEF Doc
      <4>3. QED
        BY <3>1, <4>2 DEF Group
    <3>2. CASE c # "ingest"
      BY <3>2 DEF Group, Publish
    <3>3. QED
      BY <3>1, <3>2
  <2>2. QED
    BY <2>1 DEF SameGroups
<1>5. LockInv'
  <2>1. UNCHANGED <<at, holder, ready, built>>
    BY DEF Publish, schema
  <2>2. QED
    BY <1>4, <2>1 DEF KInv, LockInv, SameGroups, Using
<1>6. QED
  BY <1>3, <1>4, <1>5 DEF KInv

\* What a fetch brings are documents published and not acked.
LEMMA FetchTyped ==
  ASSUME NEW len \in Nat, FeedType(feed, len), feed' \in Fetches(feed, len)
  PROVE  FeedType(feed', len)
<1>1. feed.next \in 0 .. len /\ feed.out \subseteq 1 .. feed.next
  BY DEF FeedType
<1>2. Reach(feed, len) \in feed.next .. len /\ Reach(feed, len) - feed.next \in Nat
  BY <1>1, DurableAssumption DEF Reach
<1>3. CASE feed' = Fetched(feed, len)
  <2>1. NextBatch(feed, len) \in [1 .. Reach(feed, len) - feed.next -> 1 .. Reach(feed, len)]
    BY <1>1, <1>2 DEF NextBatch
  <2>2. NextBatch(feed, len) \in Seq(1 .. Reach(feed, len))
    BY <1>2, <2>1, SeqDef
  <2>3. QED
    BY <1>1, <1>2, <1>3, <2>2 DEF FeedType, Fetched, Feed
<1>4. ASSUME NEW i \in feed.out, feed' = Feed(feed.next, feed.out, <<i>>)
      PROVE  FeedType(feed', len)
  BY <1>1, <1>4 DEF FeedType, Feed
<1>5. QED
  BY <1>3, <1>4 DEF Fetches

LEMMA AckTyped ==
  ASSUME NEW f, NEW len, FeedType(f, len), f.batch # <<>>
  PROVE  FeedType(Acked(f), len) /\ FeedType(AckLost(f), len)
<1>1. f.next \in 0 .. len /\ f.out \subseteq 1 .. f.next /\ f.batch \in Seq(1 .. f.next)
  BY DEF FeedType
<1>2. Tail(f.batch) \in Seq(1 .. f.next)
  BY <1>1, HeadTailProperties
<1>3. QED
  BY <1>1, <1>2 DEF Acked, AckLost, Feed, FeedType

LEMMA FetchKeeps ==
  ASSUME KInv, Fetch
  PROVE  KInv'
<1>1. at["ingest"] = "idle"
  BY DEF KInv, InHand, Fetch
<1>2. Len(docs) \in Nat
  BY LenProperties DEF KInv, InHand
<1>3. FeedType(feed', Len(docs))
  BY <1>2, FetchTyped DEF Fetch, KInv, InHand
<1>4. InHand'
  BY <1>1, <1>3 DEF Fetch, KInv, InHand, schema
<1>5. SameGroups
  BY <1>1 DEF SameGroups, Fetch, Group
<1>6. QED
  BY <1>1, <1>4, <1>5 DEF Fetch, schema, KInv, LockInv, SameGroups, Using

LEMMA HandleKeeps ==
  ASSUME KInv, Handle
  PROVE  KInv'
<1>1. \E s \in {"ack", "spool", "use"} : Goes("ingest", s)
  BY DEF Handle, Uses
<1>2. PICK s \in {"ack", "spool", "use"} : at' = [at EXCEPT !["ingest"] = s]
  BY <1>1 DEF Goes
<1>3. InHand'
  BY <1>2, KnowledgeAssumption DEF Handle, KInv, InHand, CoroutineSteps, Coroutines
<1>4. SameGroups
  BY DEF Handle, SameGroups, Group, Doc
<1>5. LockInv'
  BY <1>2, <1>3, <1>4, NoBuilding DEF Handle, schema, Coroutines, Using, KInv, InHand
<1>6. QED
  BY <1>3, <1>5 DEF KInv

\* Steps of the ingestor that leave its batch alone.
LEMMA IngestGoesOn ==
  ASSUME KInv, NEW s \in {"spool", "ack"}, at["ingest"] # "idle", Goes("ingest", s),
         UNCHANGED <<docs, feed, query, schema>>
  PROVE  KInv'
<1>1. at' = [at EXCEPT !["ingest"] = s]
  BY DEF Goes
<1>2. InHand'
  BY <1>1, KnowledgeAssumption DEF KInv, InHand, CoroutineSteps, Coroutines
<1>3. SameGroups
  BY DEF SameGroups, Group, Doc
<1>4. LockInv'
  BY <1>1, <1>2, <1>3, NoBuilding DEF schema, Coroutines, Using, KInv, InHand
<1>5. QED
  BY <1>2, <1>4 DEF KInv

LEMMA AckKeeps ==
  ASSUME KInv, Ack
  PROVE  KInv'
<1>1. at' = [at EXCEPT !["ingest"] = "idle"]
  BY DEF Ack, Goes
<1>2. FeedType(feed', Len(docs))
  <2>1. feed.batch # <<>> /\ (feed' = Acked(feed) \/ feed' = AckLost(feed))
    BY DEF Ack, KInv, InHand
  <2>2. FeedType(feed, Len(docs))
    BY DEF KInv, InHand
  <2>3. QED
    BY <2>1, <2>2, AckTyped
<1>3. InHand'
  BY <1>1, <1>2, KnowledgeAssumption DEF Ack, KInv, InHand, CoroutineSteps, Coroutines
<1>4. SameGroups
  BY <1>1 DEF SameGroups, Group, Ack, KInv, InHand
<1>5. LockInv'
  BY <1>1, <1>3, <1>4, NoBuilding DEF Ack, schema, Coroutines, Using, KInv, InHand
<1>6. QED
  BY <1>3, <1>5 DEF KInv

-----------------------------------------------------------------------------
(* Queries. *)

\* A reader moves on, with its query as it was or another.
LEMMA ReaderGoesOn ==
  ASSUME KInv, NEW r \in Readers, NEW s \in CoroutineSteps \ {"build"}, NEW q, IsQuery(q),
         s # "idle" => q.req.project # "",
         at[r] # "idle" /\ s # "idle" => q.req = query[r].req,
         s \in Using => at[r] \in Using,
         at' = [at EXCEPT ![r] = s], query' = [query EXCEPT ![r] = q],
         UNCHANGED <<docs, feed, ready, built>>,
         \A c \in Coroutines : c # r /\ holder = c => holder' = c
  PROVE  KInv'
<1>1. r \in Coroutines /\ r # "ingest"
  BY KnowledgeAssumption DEF Coroutines
<1>2. at'[r] = s /\ (\A c \in Coroutines : c # r => at'[c] = at[c])
      /\ at' \in [Coroutines -> CoroutineSteps]
  BY <1>1 DEF KInv, InHand
<1>3. query'[r] = q /\ (\A t \in Readers : t # r => query'[t] = query[t])
      /\ query' = [t \in Readers |-> query'[t]]
  BY DEF KInv, InHand
<1>4. at'["ingest"] = at["ingest"]
  BY <1>1, <1>2 DEF Coroutines
<1>5. \A t \in Readers : IsQuery(query'[t]) /\ (at'[t] # "idle" => query'[t].req.project # "")
  BY <1>2, <1>3 DEF KInv, InHand, Coroutines
<1>6. InHand'
  <2>1. \A t \in Readers : IsQuery(query[t])' /\ (at'[t] # "idle" => query'[t].req.project # "")
    BY <1>5 DEF IsQuery
  <2>2. QED
    BY <1>2, <1>3, <1>4, <2>1 DEF KInv, InHand
<1>7. SameGroups
  BY <1>1, <1>2, <1>3 DEF SameGroups, Group, Doc, Coroutines
<1>8. LockInv'
  BY <1>1, <1>2, <1>6, <1>7, NoBuilding
<1>9. QED
  BY <1>6, <1>8 DEF KInv

\* No query, and a query that came to its end.
LEMMA NoQueryTyped == IsQuery(NoQuery) /\ NoQuery.req = NoRequest
BY DEF NoQuery, IsQuery, NoRequest

LEMMA ReaderStops ==
  ASSUME KInv, NEW r \in Readers, at' = [at EXCEPT ![r] = "idle"],
         query' = [query EXCEPT ![r] = NoQuery], UNCHANGED <<docs, feed, ready, built>>,
         \A c \in Coroutines : c # r /\ holder = c => holder' = c
  PROVE  KInv'
BY ReaderGoesOn, NoQueryTyped DEF CoroutineSteps, Using

LEMMA QueryKeeps ==
  ASSUME KInv, NEW r \in Readers, NEW req \in Requests, QuerySubgraph(r, req)
  PROVE  KInv'
<1>1. CASE UNCHANGED <<at, query>>
  <2>1. at' = [at EXCEPT ![r] = "idle"] /\ query' = [query EXCEPT ![r] = NoQuery]
    BY <1>1 DEF QuerySubgraph, KInv, InHand, Coroutines
  <2>2. QED
    BY <2>1, ReaderStops DEF QuerySubgraph, queue, schema
<1>2. CASE req.project # "" /\ Uses(r) /\ query' = [query EXCEPT ![r] = [NoQuery EXCEPT !.req = req]]
  <2> DEFINE q == [NoQuery EXCEPT !.req = req]
  <2>1. IsQuery(q) /\ q.req = req
    BY DEF NoQuery, IsQuery
  <2>2. at[r] = "idle" /\ at' = [at EXCEPT ![r] = "use"]
    BY <1>2 DEF QuerySubgraph, Uses, Goes
  <2>3. UNCHANGED <<docs, feed, ready, built, holder>>
    BY DEF QuerySubgraph, queue, schema
  <2>4. QED
    BY <1>2, <2>1, <2>2, <2>3, ReaderGoesOn DEF CoroutineSteps, Using
<1>3. QED
  BY <1>1, <1>2 DEF QuerySubgraph

\* A reader between two reads: the request of its query stays.
LEMMA ReadKeeps ==
  ASSUME KInv, NEW r \in Readers, ReadEntities(r) \/ ReadEpisodes(r) \/ ReadFacts(r)
  PROVE  KInv'
<1>1. PICK s \in {"episodes", "facts", "idle"} : at' = [at EXCEPT ![r] = s]
  BY DEF ReadEntities, ReadEpisodes, ReadFacts, Goes
<1>2. at[r] \in {"entities", "episodes", "facts"} /\ IsQuery(query[r]) /\ query[r].req.project # ""
  BY DEF ReadEntities, ReadEpisodes, ReadFacts, KInv, InHand
<1>9. PICK a, b, c : query[r] = [req |-> a, nodes |-> b, facts |-> c]
                     /\ a \in Requests \cup {NoRequest} /\ a = query[r].req
  BY <1>2 DEF IsQuery
<1>3. PICK q : IsQuery(q) /\ q.req = query[r].req /\ query' = [query EXCEPT ![r] = q]
  <2>1. CASE ReadFacts(r)
    <3>1. \E facts : query' = [query EXCEPT ![r].facts = facts]
      BY <2>1 DEF ReadFacts
    <3>2. PICK facts : query' = [query EXCEPT ![r].facts = facts]
      BY <3>1
    <3>3. query' = [query EXCEPT ![r] = [req |-> a, nodes |-> b, facts |-> facts]]
      <4>1. query' = [query EXCEPT ![r] = [query[r] EXCEPT !.facts = facts]]
        BY <3>2
      <4>2. [query[r] EXCEPT !.facts = facts] = [req |-> a, nodes |-> b, facts |-> facts]
        BY <1>9
      <4>3. QED
        BY <4>1, <4>2
    <3>4. IsQuery([req |-> a, nodes |-> b, facts |-> facts]) /\ [req |-> a, nodes |-> b, facts |-> facts].req = a
      BY <1>9 DEF IsQuery
    <3>5. QED
      BY <1>9, <3>3, <3>4
  <2>2. CASE ReadEntities(r) \/ ReadEpisodes(r)
    <3>1. \E nodes : query' = [query EXCEPT ![r].nodes = nodes]
      BY <2>2 DEF ReadEntities, ReadEpisodes
    <3>2. PICK nodes : query' = [query EXCEPT ![r].nodes = nodes]
      BY <3>1
    <3>3. query' = [query EXCEPT ![r] = [req |-> a, nodes |-> nodes, facts |-> c]]
      <4>1. query' = [query EXCEPT ![r] = [query[r] EXCEPT !.nodes = nodes]]
        BY <3>2
      <4>2. [query[r] EXCEPT !.nodes = nodes] = [req |-> a, nodes |-> nodes, facts |-> c]
        BY <1>9
      <4>3. QED
        BY <4>1, <4>2
    <3>4. IsQuery([req |-> a, nodes |-> nodes, facts |-> c]) /\ [req |-> a, nodes |-> nodes, facts |-> c].req = a
      BY <1>9 DEF IsQuery
    <3>5. QED
      BY <1>9, <3>3, <3>4
  <2>3. QED
    BY <2>1, <2>2
<1>4. UNCHANGED <<docs, feed, ready, built, holder>>
  BY DEF ReadEntities, ReadEpisodes, ReadFacts, queue, schema
<1>5. QED
  BY <1>1, <1>2, <1>3, <1>4, ReaderGoesOn DEF CoroutineSteps, Using

LEMMA ReaderEndsKeeps ==
  ASSUME KInv, NEW r \in Readers, ReadFails(r) \/ Forget(r) \/ Deadline(r)
  PROVE  KInv'
<1>1. at' = [at EXCEPT ![r] = "idle"]
  BY DEF ReadFails, Forget, Deadline, Goes, KInv, InHand, Coroutines
<1>2. query' = [query EXCEPT ![r] = NoQuery]
  BY DEF ReadFails, Forget, Deadline
<1>3. UNCHANGED <<docs, feed, ready, built>> /\ \A c \in Coroutines : c # r /\ holder = c => holder' = c
  BY DEF ReadFails, Forget, Deadline, queue, schema
<1>4. QED
  BY <1>1, <1>2, <1>3, ReaderStops

-----------------------------------------------------------------------------
(* The lock. *)

\* A coroutine that has used or built goes on, its document or query in hand.
LEMMA StaysInHand ==
  ASSUME KInv, NEW c \in Coroutines, at[c] # "idle", NEW s \in CoroutineSteps,
         at' = [at EXCEPT ![c] = s], UNCHANGED <<docs, feed, query>>
  PROVE  InHand' /\ SameGroups
<1>1. at' \in [Coroutines -> CoroutineSteps] /\ \A d \in Coroutines : at'[d] # "idle" => at[d] # "idle"
  BY DEF KInv, InHand
<1>2. "ingest" \in Coroutines /\ Readers \subseteq Coroutines
  BY DEF Coroutines
<1>3. \A r \in Readers : IsQuery(query[r])'
  BY DEF KInv, InHand, IsQuery
<1>4. InHand'
  BY <1>1, <1>2, <1>3 DEF KInv, InHand
<1>5. SameGroups
  BY DEF SameGroups, Group, Doc
<1>6. QED
  BY <1>4, <1>5

LEMMA AfterUseTyped ==
  ASSUME NEW c
  PROVE  AfterUse(c) \in CoroutineSteps \ {"build"}
BY DEF AfterUse, CoroutineSteps

LEMMA EnsureKeeps ==
  ASSUME KInv, NEW c \in Coroutines, Ensure(c)
  PROVE  KInv'
<1>1. at[c] = "use" /\ holder = Nobody /\ UNCHANGED <<docs, feed, query, ready, built>>
  BY DEF Ensure, LockBusy, queue
<1>2. \A d \in Coroutines : at[d] # "build"
  BY <1>1, KnowledgeAssumption DEF KInv, LockInv, Coroutines, Nobody
<1>3. CASE Group(c) \in ready
  <2>1. at' = [at EXCEPT ![c] = AfterUse(c)]
    BY <1>3 DEF Ensure, Goes
  <2>2. InHand' /\ SameGroups
    BY <1>1, <2>1, StaysInHand, AfterUseTyped
  <2>3. LockInv'
    <3>1. \A d \in Coroutines : at'[d] # "build"
      BY <1>2, <2>1, AfterUseTyped DEF KInv, InHand
    <3>2. \A d \in Coroutines : at'[d] \in Using => Group(d)' \in ready'
      BY <1>1, <1>3, <2>1, <2>2 DEF KInv, InHand, LockInv, SameGroups, Using
    <3>3. QED
      BY <1>1, <3>1, <3>2 DEF KInv, LockInv
  <2>4. QED
    BY <2>2, <2>3 DEF KInv
<1>4. CASE Group(c) \notin ready
  <2>1. at' = [at EXCEPT ![c] = "build"] /\ holder' = c
    BY <1>4 DEF Ensure, Goes
  <2>2. InHand' /\ SameGroups
    BY <1>1, <2>1, StaysInHand DEF CoroutineSteps
  <2>3. LockInv'
    <3>1. \A d \in Coroutines : at'[d] = "build" => d = c
      BY <1>2, <2>1 DEF KInv, InHand
    <3>2. Group(c)' \notin ready'
      BY <1>1, <1>4, <2>1, <2>2 DEF SameGroups, KInv, InHand
    <3>3. \A d \in Coroutines : at'[d] \in Using => Group(d)' \in ready'
      BY <1>1, <2>1, <2>2 DEF KInv, InHand, LockInv, SameGroups, Using
    <3>4. QED
      BY <1>1, <2>1, <3>1, <3>2, <3>3 DEF KInv, LockInv
  <2>4. QED
    BY <2>2, <2>3 DEF KInv
<1>5. QED
  BY <1>3, <1>4

LEMMA BuildKeeps ==
  ASSUME KInv, NEW c \in Coroutines, Build(c)
  PROVE  KInv'
<1>1. at[c] = "build" /\ holder = c /\ holder' = Nobody /\ Group(c) \notin ready
  BY DEF Build, KInv, LockInv
<1>2. \A d \in Coroutines : at[d] = "build" => d = c
  BY <1>1 DEF KInv, LockInv
<1>3. UNCHANGED <<docs, feed>>
  BY DEF Build, queue
<1>4. CASE /\ ready' = ready \cup {Group(c)} /\ built' = [built EXCEPT ![Group(c)] = @ + 1]
           /\ Goes(c, AfterUse(c)) /\ UNCHANGED query
  <2>1. at' = [at EXCEPT ![c] = AfterUse(c)]
    BY <1>4 DEF Goes
  <2>2. InHand' /\ SameGroups
    BY <1>1, <1>3, <1>4, <2>1, StaysInHand, AfterUseTyped
  <2>3. Group(c) \in Groups
    BY <1>1, GroupTyped DEF KInv
  <2>4. (built \in [Groups -> Nat] /\ \A g \in Groups : built[g] = IF g \in ready THEN 1 ELSE 0)'
    BY <1>1, <1>4, <2>3 DEF KInv, LockInv
  <2>5. \A d \in Coroutines : at'[d] # "build"
    BY <1>2, <2>1, AfterUseTyped DEF KInv, InHand
  <2>6. \A d \in Coroutines : at'[d] \in Using => Group(d)' \in ready'
    <3>1. ASSUME NEW d \in Coroutines, at'[d] \in Using
          PROVE  Group(d)' = Group(d) /\ (d = c \/ at[d] \in Using)
      BY <1>1, <2>1, <2>2, <3>1 DEF KInv, InHand, SameGroups, Using
    <3>2. QED
      BY <1>4, <3>1 DEF KInv, LockInv
  <2>7. QED
    BY <2>2, <2>4, <2>5, <2>6 DEF KInv, LockInv
<1>5. CASE FailsUse(c) /\ UNCHANGED <<ready, built>>
  <2>1. CASE c = "ingest"
    <3>1. at' = [at EXCEPT ![c] = "spool"] /\ UNCHANGED query
      BY <1>5, <2>1 DEF FailsUse, Goes
    <3>2. InHand' /\ SameGroups
      BY <1>1, <1>3, <3>1, StaysInHand DEF CoroutineSteps
    <3>3. LockInv'
      BY <1>1, <1>5, <3>1, <3>2, NoBuilding DEF KInv, InHand, Using
    <3>4. QED
      BY <3>2, <3>3 DEF KInv
  <2>2. CASE c # "ingest"
    <3>1. c \in Readers /\ at' = [at EXCEPT ![c] = "idle"] /\ query' = [query EXCEPT ![c] = NoQuery]
      BY <1>5, <2>2 DEF FailsUse, Goes, Coroutines
    <3>2. QED
      BY <1>1, <1>3, <1>5, <3>1, ReaderStops
  <2>3. QED
    BY <2>1, <2>2
<1>6. QED
  BY <1>4, <1>5 DEF Build

LEMMA CrashKeeps ==
  ASSUME KInv, CrashGraph
  PROVE  KInv'
<1>1. \A c \in Coroutines : at'[c] = "idle"
  BY DEF CrashGraph
<1>2. at' \in [Coroutines -> CoroutineSteps] /\ "ingest" \in Coroutines /\ Readers \subseteq Coroutines
  BY DEF CrashGraph, CoroutineSteps, Coroutines
<1>3. FeedType(feed', Len(docs))
  <2>1. FeedType(feed, Len(docs)) /\ feed' = Dropped(feed)
    BY DEF CrashGraph, KInv, InHand
  <2>2. QED
    BY <2>1, EmptySeq DEF Dropped, Feed, FeedType
<1>4. query' = [r \in Readers |-> query'[r]] /\ \A r \in Readers : query'[r] = NoQuery
  BY DEF CrashGraph
<1>5. InHand'
  <2>1. \A r \in Readers : IsQuery(query[r])'
    BY <1>4, NoQueryTyped DEF IsQuery
  <2>2. docs' \in Seq(Documents) /\ docs' = docs
    BY DEF CrashGraph, KInv, InHand
  <2>3. QED
    BY <1>1, <1>2, <1>3, <1>4, <2>1, <2>2 DEF InHand
<1>6. LockInv'
  BY <1>1 DEF CrashGraph, LockInv, Using
<1>7. QED
  BY <1>5, <1>6 DEF KInv

LEMMA NothingKeeps ==
  ASSUME KInv, UNCHANGED <<docs, feed, at, query, holder, ready, built>>
  PROVE  KInv'
<1>1. \A c \in Coroutines : Group(c)' = Group(c)
  BY DEF Group, Doc
<1>2. \A r \in Readers : IsQuery(query[r])'
  BY DEF KInv, InHand, IsQuery
<1>3. InHand'
  BY <1>2 DEF KInv, InHand
<1>4. LockInv'
  BY <1>1 DEF KInv, LockInv
<1>5. QED
  BY <1>3, <1>4 DEF KInv

-----------------------------------------------------------------------------
LEMMA KInvNext ==
  ASSUME KInv, [KNext]_kvars
  PROVE  KInv'
<1>1. ASSUME NEW d \in Documents, Publish(d) \/ UpsertNode(d)
      PROVE  KInv'
  BY <1>1, PublishKeeps DEF UpsertNode
<1>2. ASSUME NEW c \in Coroutines, Ensure(c) \/ Build(c)
      PROVE  KInv'
  BY <1>2, EnsureKeeps, BuildKeeps
<1>3. CASE Ingest
  <2>1. ASSUME NEW f \in Extractions, AddEpisode(f)
        PROVE  KInv'
    <3>1. at["ingest"] # "idle" /\ Goes("ingest", "spool") /\ UNCHANGED <<docs, feed, query, schema>>
      BY <2>1 DEF AddEpisode
    <3>2. QED
      BY <3>1, IngestGoesOn
  <2>2. CASE Spool
    <3>1. at["ingest"] # "idle" /\ Goes("ingest", "ack") /\ UNCHANGED <<docs, feed, query, schema>>
      BY <2>2 DEF Spool
    <3>2. QED
      BY <3>1, IngestGoesOn
  <2>3. QED
    BY <1>3, <2>1, <2>2, FetchKeeps, HandleKeeps, AckKeeps DEF Ingest
<1>4. ASSUME NEW r \in Readers, Reads(r)
      PROVE  KInv'
  BY <1>4, QueryKeeps, ReadKeeps, ReaderEndsKeeps DEF Reads
<1>5. CASE CrashGraph
  BY <1>5, CrashKeeps
<1>6. CASE StartGraph \/ UNCHANGED kvars
  BY <1>6, NothingKeeps DEF StartGraph, kvars, queue, schema
<1>7. QED
  BY <1>1, <1>2, <1>3, <1>4, <1>5, <1>6 DEF KNext

THEOREM KInvHolds == KSpec => []KInv
BY KInvInit, KInvNext, PTL DEF KSpec

\* However ingestion and queries interleave at the schema lock, and wherever
\* a query is cancelled, a process builds the indexes of a graph at most once,
\* and no coroutine reads or writes a graph without them
\* (ensure_database_initialized).
THEOREM IndexesComeOnceAndFirst == KSpec => []IndexedOnceBeforeUse
<1>1. KInv => IndexedOnceBeforeUse
  BY DEF KInv, LockInv, IndexedOnceBeforeUse, Using
<1>2. QED
  BY <1>1, KInvHolds, PTL
-----------------------------------------------------------------------------
(* A document is in its graph once.                                        *)

\* The graph of a document's project.
Own(i) == GroupOf[ProjectOf(docs[i])]
InGraph(i) == \E k \in DOMAIN graph[Own(i)].episodes : graph[Own(i)].episodes[k] = i

\* Every episode is a published document, in the graph of its project.
Placed ==
  /\ graph = [g \in Groups |-> graph[g]] /\ faults \in Nat
  /\ \A g \in Groups :
       /\ graph[g].episodes \in Seq(1 .. Len(docs))
       /\ \A k \in 1 .. Len(graph[g].episodes) : Own(graph[g].episodes[k]) = g

\* What was handled, or cannot be parsed.
Over == seen \cup {i \in 1 .. Len(docs) : ~docs[i].parses}

\* Where the ingestor is with its document, while nothing failed.
AtWork ==
  /\ at["ingest"] = "spool" /\ Doc.text => InGraph(Head(feed.batch))
  /\ at["ingest"] = "ack" => Head(feed.batch) \in Over
  /\ at["ingest"] \in {"use", "build", "extract"} => Head(feed.batch) \notin seen /\ Doc.parses

\* No graph has a document twice; what was handled is there, if it has a text,
\* and nothing else is but the document about to be written down as handled.
KeptOnce ==
  /\ seen \subseteq 1 .. Len(docs)
  /\ \A g \in Groups : \A k, l \in 1 .. Len(graph[g].episodes) :
       graph[g].episodes[k] = graph[g].episodes[l] => k = l
  /\ \A i \in 1 .. Len(docs) :
       /\ i \in seen /\ docs[i].text => InGraph(i)
       /\ InGraph(i) => i \in seen \/ (at["ingest"] = "spool" /\ i = Head(feed.batch))
       /\ InGraph(i) => docs[i].parses

QuietIngest ==
  faults = 0 => engine # "idle" /\ AtWork /\ KeptOnce /\ Settled(feed) \subseteq Over

OnceInv == Placed /\ QuietIngest

\* A published document's project has a graph.
LEMMA OwnTyped ==
  ASSUME InHand, NEW i \in 1 .. Len(docs)
  PROVE  Own(i) \in Groups
<1>1. docs[i] \in Documents
  BY ElementOfSeq DEF InHand
<1>2. ProjectOf(docs[i]) \in DOMAIN GroupOf
  BY <1>1, KnowledgeAssumption DEF ProjectOf
<1>3. QED
  BY <1>2, KnowledgeAssumption DEF Own

LEMMA OnceInit == KInit => OnceInv
<1> SUFFICES ASSUME KInit PROVE OnceInv
  OBVIOUS
<1>1. docs = <<>> /\ Len(docs) = 0 /\ faults = 0 /\ seen = {} /\ at["ingest"] = "idle"
  BY DEF KInit, Coroutines
<1>2. graph = [g \in Groups |-> EmptyGraph] /\ \A g \in Groups : graph[g].episodes = <<>>
  BY DEF KInit, EmptyGraph
<1>3. \A g \in Groups : graph[g].episodes \in Seq(1 .. Len(docs)) /\ Len(graph[g].episodes) = 0
  BY <1>2, EmptySeq
<1>4. Placed
  BY <1>1, <1>2, <1>3 DEF Placed
<1>5. Settled(feed) = {}
  BY DEF KInit, EmptyFeed, Feed, Settled
<1>6. QuietIngest
  BY <1>1, <1>3, <1>5 DEF QuietIngest, AtWork, KeptOnce, KInit
<1>7. QED
  BY <1>4, <1>6 DEF OnceInv

\* What fails is no longer quiet.
LEMMA FailedIsNotQuiet ==
  ASSUME OnceInv, Fault
  PROVE  faults' \in Nat /\ QuietIngest'
BY DEF OnceInv, Placed, Fault, QuietIngest

\* Steps that leave the documents and the graphs alone.
LEMMA PlacedStays ==
  ASSUME Placed, UNCHANGED <<docs, graph>>, faults' \in Nat
  PROVE  Placed'
BY DEF Placed, Own

LEMMA InGraphStays ==
  ASSUME NEW i, UNCHANGED <<docs, graph>>
  PROVE  InGraph(i)' <=> InGraph(i)
BY DEF InGraph, Own

\* Nothing of the documents handled changes, unless one was about to be
\* written down.
LEMMA KeptStays ==
  ASSUME KeptOnce, UNCHANGED <<docs, graph, seen>>,
         at["ingest"] = "spool" => at'["ingest"] = "spool" /\ feed' = feed
  PROVE  KeptOnce'
<1>1. \A i \in 1 .. Len(docs) : InGraph(i)' <=> InGraph(i)
  BY InGraphStays
<1>2. QED
  BY <1>1 DEF KeptOnce

\* The ingestor as it was, and the engine one that keeps documents.
LEMMA OnceStays ==
  ASSUME OnceInv, UNCHANGED <<docs, feed, seen, graph, faults>>, at'["ingest"] = at["ingest"],
         engine' = engine \/ engine' # "idle"
  PROVE  OnceInv'
<1>1. Placed'
  BY PlacedStays DEF OnceInv, Placed
<1>2. ASSUME faults' = 0
      PROVE  engine' # "idle" /\ AtWork' /\ KeptOnce' /\ Settled(feed)' \subseteq Over'
  <2>1. engine # "idle" /\ AtWork /\ KeptOnce /\ Settled(feed) \subseteq Over
    BY <1>2 DEF OnceInv, QuietIngest
  <2>2. KeptOnce'
    BY <2>1, KeptStays
  <2>3. InGraph(Head(feed.batch))' <=> InGraph(Head(feed.batch))
    BY DEF InGraph, Own
  <2>4. AtWork'
    BY <2>1, <2>3 DEF AtWork, Doc, Over
  <2>5. QED
    BY <2>1, <2>2, <2>4 DEF Over
<1>3. QED
  BY <1>1, <1>2 DEF OnceInv, QuietIngest

\* A step that may fail, beside the ingestor.
LEMMA OnceFails ==
  ASSUME OnceInv, UNCHANGED <<docs, graph>>, Fault
  PROVE  OnceInv'
BY FailedIsNotQuiet, PlacedStays DEF OnceInv

\* A document published is in no graph, and changes no other.
LEMMA PublishOnce ==
  ASSUME KInv, OnceInv, NEW d \in Documents, Publish(d)
  PROVE  OnceInv'
<1>1. docs \in Seq(Documents) /\ docs' = Append(docs, d)
  BY DEF Publish, KInv, InHand
<1>2. Len(docs') = Len(docs) + 1 /\ Len(docs) \in Nat /\ \A i \in 1 .. Len(docs) : docs'[i] = docs[i]
  BY <1>1, AppendProperties, LenProperties
<1>3. UNCHANGED <<feed, seen, engine, at, graph, faults>>
  BY DEF Publish
<1>4. \A i \in 1 .. Len(docs) : Own(i)' = Own(i)
  BY <1>2 DEF Own
<1>5. \A g \in Groups : /\ graph[g].episodes \in Seq(1 .. Len(docs))
                        /\ Len(graph[g].episodes) \in Nat
                        /\ \A k \in 1 .. Len(graph[g].episodes) : graph[g].episodes[k] \in 1 .. Len(docs)
  BY ElementOfSeq, LenProperties DEF OnceInv, Placed
<1>6. Placed'
  <2>1. \A g \in Groups : graph[g].episodes \in Seq(1 .. Len(docs'))
    <3>1. 1 .. Len(docs) \subseteq 1 .. Len(docs')
      BY <1>2
    <3>2. QED
      BY <1>5, <3>1, SeqDef
  <2>2. \A g \in Groups : \A k \in 1 .. Len(graph[g].episodes) : Own(graph[g].episodes[k])' = g
    BY <1>3, <1>4, <1>5 DEF OnceInv, Placed, Own
  <2>3. QED
    BY <1>3, <2>1, <2>2 DEF OnceInv, Placed
<1>7. ASSUME faults' = 0
      PROVE  engine' # "idle" /\ AtWork' /\ KeptOnce' /\ Settled(feed)' \subseteq Over'
  <2>1. engine # "idle" /\ AtWork /\ KeptOnce /\ Settled(feed) \subseteq Over
    BY <1>3, <1>7 DEF OnceInv, QuietIngest
  <2>2. \A i \in 1 .. Len(docs) : InGraph(i)' <=> InGraph(i)
    BY <1>3, <1>4 DEF InGraph
  <2>3. at["ingest"] # "idle" => Head(feed.batch) \in 1 .. Len(docs)
    BY HeadTyped DEF KInv, InHand
  <2>4. AtWork'
    BY <1>2, <1>3, <2>1, <2>2, <2>3 DEF AtWork, Doc, Over
  <2>5. ASSUME NEW n \in 1 .. Len(docs'), n = Len(docs) + 1
        PROVE  ~InGraph(n)'
    <3>1. ASSUME NEW g \in Groups, NEW k \in DOMAIN graph[g].episodes, graph[g].episodes[k] = n
          PROVE  FALSE
      <4>1. DOMAIN graph[g].episodes = 1 .. Len(graph[g].episodes)
        BY LenProperties DEF OnceInv, Placed
      <4>2. QED
        BY <1>2, <1>5, <2>5, <3>1, <4>1
    <3>2. docs'[n] = d
      BY <1>1, <2>5, AppendProperties
    <3>5. ProjectOf(d) \in DOMAIN GroupOf
      <4>1. \A e \in Documents : e.project \in DOMAIN GroupOf \cup {""}
        BY KnowledgeAssumption
      <4>2. QED
        BY <4>1, KnowledgeAssumption DEF ProjectOf
    <3>3. Own(n)' \in Groups
      BY <3>2, <3>5, KnowledgeAssumption DEF Own
    <3>4. QED
      BY <1>3, <3>1, <3>3 DEF InGraph
  <2>6. KeptOnce'
    <3>1. \A i \in 1 .. Len(docs') : i \in 1 .. Len(docs) \/ (i = Len(docs) + 1 /\ i \notin seen)
      BY <1>2, <2>1 DEF KeptOnce
    <3>2. \A i \in 1 .. Len(docs') : i \in seen' /\ docs'[i].text => InGraph(i)'
      BY <1>2, <1>3, <2>1, <2>2, <3>1 DEF KeptOnce
    <3>3. \A i \in 1 .. Len(docs') :
            InGraph(i)' => i \in seen' \/ (at'["ingest"] = "spool" /\ i = Head(feed'.batch))
      BY <1>3, <2>1, <2>2, <2>5, <3>1 DEF KeptOnce
    <3>4. (seen \subseteq 1 .. Len(docs))'
      BY <1>2, <1>3, <2>1 DEF KeptOnce
    <3>6. \A i \in 1 .. Len(docs') : InGraph(i)' => docs'[i].parses
      BY <1>2, <2>1, <2>2, <2>5, <3>1 DEF KeptOnce
    <3>5. QED
      BY <1>3, <2>1, <3>2, <3>3, <3>4, <3>6 DEF KeptOnce
  <2>7. Over \subseteq Over'
    BY <1>2, <1>3 DEF Over
  <2>8. QED
    BY <1>3, <2>1, <2>4, <2>6, <2>7
<1>8. QED
  BY <1>3, <1>6, <1>7 DEF OnceInv, QuietIngest

-----------------------------------------------------------------------------
(* What the ingestor does with its document. *)

LEMMA FetchOnce ==
  ASSUME KInv, OnceInv, Fetch
  PROVE  OnceInv'
<1>1. at["ingest"] = "idle" /\ UNCHANGED <<docs, seen, engine, at, graph, faults>>
  BY DEF KInv, InHand, Fetch
<1>2. Settled(feed)' = Settled(feed)
  <2>1. Len(docs) \in Nat /\ FeedType(feed, Len(docs)) /\ feed' \in Fetches(feed, Len(docs))
    BY LenProperties DEF KInv, InHand, Fetch
  <2>2. CASE feed' = Fetched(feed, Len(docs))
    <3>1. feed'.next = Reach(feed, Len(docs)) /\ Reach(feed, Len(docs)) \in feed.next .. Len(docs)
          /\ feed'.out = feed.out \cup (feed.next + 1 .. Reach(feed, Len(docs)))
          /\ feed.next \in Nat
      BY <2>1, <2>2, DurableAssumption DEF Fetched, Feed, Reach, FeedType
    <3>2. QED
      BY <3>1 DEF Settled
  <2>3. CASE \E i \in feed.out : feed' = Feed(feed.next, feed.out, <<i>>)
    BY <2>3 DEF Feed, Settled
  <2>4. QED
    BY <2>1, <2>2, <2>3 DEF Fetches
<1>3. Placed'
  BY <1>1, PlacedStays DEF OnceInv, Placed
<1>4. ASSUME faults' = 0
      PROVE  engine' # "idle" /\ AtWork' /\ KeptOnce' /\ Settled(feed)' \subseteq Over'
  BY <1>1, <1>2, <1>4, KeptStays DEF OnceInv, QuietIngest, AtWork, Over
<1>5. QED
  BY <1>3, <1>4 DEF OnceInv, QuietIngest

\* The ingestor goes on with its document, which is not written down yet.
LEMMA WorksOn ==
  ASSUME OnceInv, UNCHANGED <<docs, feed, seen, graph, engine, faults>>, NEW s,
         at' = [at EXCEPT !["ingest"] = s], "ingest" \in DOMAIN at,
         at["ingest"] # "spool",
         faults = 0 /\ s = "spool" => ~Doc.text,
         faults = 0 /\ s = "ack" => Head(feed.batch) \in Over,
         faults = 0 /\ s \in {"use", "build", "extract"} => Head(feed.batch) \notin seen /\ Doc.parses
  PROVE  OnceInv'
<1>1. Placed'
  BY PlacedStays DEF OnceInv, Placed
<1>2. ASSUME faults' = 0
      PROVE  engine' # "idle" /\ AtWork' /\ KeptOnce' /\ Settled(feed)' \subseteq Over'
  <2>1. engine # "idle" /\ AtWork /\ KeptOnce /\ Settled(feed) \subseteq Over
    BY <1>2 DEF OnceInv, QuietIngest
  <2>2. KeptOnce'
    BY <2>1, KeptStays
  <2>3. AtWork'
    BY <1>2 DEF AtWork, Doc, Over
  <2>4. QED
    BY <2>1, <2>2, <2>3 DEF Over
<1>3. QED
  BY <1>1, <1>2 DEF OnceInv, QuietIngest

LEMMA HandleOnce ==
  ASSUME KInv, OnceInv, Handle
  PROVE  OnceInv'
<1>1. at["ingest"] = "idle" /\ UNCHANGED <<docs, feed, seen, graph, engine, faults>>
      /\ "ingest" \in DOMAIN at
  BY DEF Handle, KInv, InHand, Coroutines
<1>2. faults = 0 => engine # "idle"
  BY DEF OnceInv, QuietIngest
<1>3. CASE OnlyAcked
  <2>1. at' = [at EXCEPT !["ingest"] = "ack"]
    BY <1>3 DEF Handle, Goes
  <2>3. Head(feed.batch) \in 1 .. Len(docs)
    BY HeadTyped DEF Handle, KInv, InHand
  <2>4. Head(feed.batch) \in Over
    BY <1>3, <2>3 DEF OnlyAcked, Over, Doc
  <2>2. QED
    BY <1>1, <1>3, <2>1, <2>4, WorksOn
<1>4. CASE ~OnlyAcked /\ (engine = "idle" \/ ~Doc.text)
  <2>1. got' = TRUE
    BY <1>4 DEF Handle
  <2>2. at' = [at EXCEPT !["ingest"] = "spool"]
    BY <1>4, <2>1 DEF Handle, Goes
  <2>3. QED
    BY <1>1, <1>2, <1>4, <2>2, WorksOn
<1>5. CASE ~OnlyAcked /\ ~(engine = "idle" \/ ~Doc.text)
  <2>1. got' = FALSE
    BY <1>5 DEF Handle
  <2>2. at' = [at EXCEPT !["ingest"] = "use"]
    BY <1>5, <2>1 DEF Handle, Goes, Uses
  <2>3. QED
    BY <1>1, <1>5, <2>2, WorksOn DEF OnlyAcked
<1>6. QED
  BY <1>3, <1>4, <1>5

\* A graph is used, and its indexes are built, before a document is extracted.
LEMMA LockOnce ==
  ASSUME KInv, OnceInv, NEW c \in Coroutines, Ensure(c) \/ Build(c)
  PROVE  OnceInv'
<1>1. UNCHANGED <<docs, feed, seen, graph, engine>> /\ at[c] \in {"use", "build"}
  BY DEF Ensure, Build, queue
<1>2. CASE Fault
  BY <1>1, <1>2, OnceFails
<1>3. CASE UNCHANGED faults /\ \E s \in {"build", AfterUse(c)} : at' = [at EXCEPT ![c] = s]
  <2>1. PICK s \in {"build", AfterUse(c)} : at' = [at EXCEPT ![c] = s]
    BY <1>3
  <2>2. CASE c = "ingest"
    <3>1. s \in {"build", "extract"} /\ c \in DOMAIN at
      BY <2>2 DEF AfterUse, KInv, InHand
    <3>2. faults = 0 => Head(feed.batch) \notin seen /\ Doc.parses
      BY <1>1, <2>2 DEF OnceInv, QuietIngest, AtWork
    <3>3. QED
      BY <1>1, <1>3, <2>1, <2>2, <3>1, <3>2, WorksOn
  <2>3. CASE c # "ingest"
    <3>1. at'["ingest"] = at["ingest"]
      BY <2>1, <2>3 DEF KInv, InHand, Coroutines
    <3>2. QED
      BY <1>1, <1>3, <3>1, OnceStays
  <2>4. QED
    BY <2>2, <2>3
<1>4. QED
  BY <1>2, <1>3 DEF Ensure, Build, Goes, NoFault

LEMMA AckOnce ==
  ASSUME KInv, OnceInv, Ack
  PROVE  OnceInv'
<1>1. at["ingest"] = "ack" /\ at'["ingest"] = "idle" /\ UNCHANGED <<docs, seen, graph, engine, faults>>
  BY DEF Ack, Goes, KInv, InHand, Coroutines
<1>2. Settled(feed)' \subseteq Settled(feed) \cup {Head(feed.batch)}
  BY DEF Ack, Acked, AckLost, Feed, Settled
<1>3. Placed'
  BY <1>1, PlacedStays DEF OnceInv, Placed
<1>4. ASSUME faults' = 0
      PROVE  engine' # "idle" /\ AtWork' /\ KeptOnce' /\ Settled(feed)' \subseteq Over'
  <2>1. engine # "idle" /\ AtWork /\ KeptOnce /\ Settled(feed) \subseteq Over
    BY <1>1, <1>4 DEF OnceInv, QuietIngest
  <2>2. KeptOnce'
    BY <1>1, <2>1, KeptStays
  <2>3. AtWork'
    BY <1>1 DEF AtWork
  <2>4. Settled(feed)' \subseteq Over'
    BY <1>1, <1>2, <2>1 DEF AtWork, Over
  <2>5. QED
    BY <1>1, <2>1, <2>2, <2>3, <2>4
<1>5. QED
  BY <1>3, <1>4 DEF OnceInv, QuietIngest

LEMMA SpoolOnce ==
  ASSUME KInv, OnceInv, Spool
  PROVE  OnceInv'
<1>1. at["ingest"] = "spool" /\ at'["ingest"] = "ack" /\ UNCHANGED <<docs, feed, graph, engine, faults>>
      /\ seen' = seen \cup {Head(feed.batch)}
  BY DEF Spool, Goes, KInv, InHand, Coroutines
<1>2. Head(feed.batch) \in 1 .. Len(docs)
  BY <1>1, HeadTyped DEF KInv, InHand
<1>3. Placed'
  BY <1>1, PlacedStays DEF OnceInv, Placed
<1>4. ASSUME faults' = 0
      PROVE  engine' # "idle" /\ AtWork' /\ KeptOnce' /\ Settled(feed)' \subseteq Over'
  <2>1. engine # "idle" /\ AtWork /\ KeptOnce /\ Settled(feed) \subseteq Over
    BY <1>1, <1>4 DEF OnceInv, QuietIngest
  <2>2. KeptOnce'
    <3>1. \A i \in 1 .. Len(docs) : InGraph(i)' <=> InGraph(i)
      BY <1>1, InGraphStays
    <3>2. docs[Head(feed.batch)].text => InGraph(Head(feed.batch))
      BY <1>1, <2>1 DEF AtWork, Doc
    <3>3. QED
      BY <1>1, <1>2, <2>1, <3>1, <3>2 DEF KeptOnce
  <2>3. AtWork' /\ Settled(feed)' \subseteq Over'
    BY <1>1, <1>2, <2>1 DEF AtWork, Settled, Over
  <2>4. QED
    BY <1>1, <2>1, <2>2, <2>3
<1>5. QED
  BY <1>3, <1>4 DEF OnceInv, QuietIngest

\* add_episode appends to the graph of the document's project.
LEMMA EpisodeAdded ==
  ASSUME KInv, OnceInv, at["ingest"] = "extract", NEW found,
         graph' = [graph EXCEPT ![Group("ingest")] = Extracted(@, Head(feed.batch), found)]
  PROVE  /\ Head(feed.batch) \in 1 .. Len(docs) /\ Own(Head(feed.batch)) \in Groups
         /\ graph' = [g \in Groups |-> graph'[g]]
         /\ \A g \in Groups : graph'[g].episodes =
              IF g = Own(Head(feed.batch)) THEN Append(graph[g].episodes, Head(feed.batch))
              ELSE graph[g].episodes
<1>1. Head(feed.batch) \in 1 .. Len(docs)
  BY HeadTyped DEF KInv, InHand
<1>2. Group("ingest") = Own(Head(feed.batch))
  BY DEF Group, Own, Doc
<1>3. Group("ingest") \in Groups
  BY GroupTyped DEF KInv, Coroutines
<1>4. graph' = [g \in Groups |-> graph'[g]]
  BY DEF OnceInv, Placed
<1>5. ASSUME NEW g \in Groups
      PROVE  graph'[g].episodes =
               IF g = Own(Head(feed.batch)) THEN Append(graph[g].episodes, Head(feed.batch))
               ELSE graph[g].episodes
  <2>1. CASE g = Group("ingest")
    <3>1. graph'[g] = Extracted(graph[g], Head(feed.batch), found)
      BY <1>3, <2>1 DEF OnceInv, Placed
    <3>2. QED
      BY <1>2, <2>1, <3>1 DEF Extracted
  <2>2. CASE g # Group("ingest")
    BY <1>2, <2>2 DEF OnceInv, Placed
  <2>3. QED
    BY <2>1, <2>2
<1>6. QED
  BY <1>1, <1>2, <1>3, <1>4, <1>5

\* One episode more: it is the last of its graph, the others are where they
\* were.
EpisodeIsLast(g, i, own) ==
  /\ Len(graph[g].episodes) \in Nat
  /\ g # own => Len(graph'[g].episodes) = Len(graph[g].episodes)
  /\ g = own => Len(graph'[g].episodes) = Len(graph[g].episodes) + 1
  /\ graph'[g].episodes \in Seq(1 .. Len(docs))
  /\ DOMAIN graph[g].episodes = 1 .. Len(graph[g].episodes)
  /\ DOMAIN graph'[g].episodes = 1 .. Len(graph'[g].episodes)
  /\ \A k \in 1 .. Len(graph[g].episodes) : /\ graph'[g].episodes[k] = graph[g].episodes[k]
                                            /\ graph[g].episodes[k] \in 1 .. Len(docs)
  /\ g = own => graph'[g].episodes[Len(graph[g].episodes) + 1] = i

LEMMA OldStays ==
  ASSUME NEW g, NEW i, NEW own, EpisodeIsLast(g, i, own), NEW k \in DOMAIN graph[g].episodes
  PROVE  /\ k \in DOMAIN graph'[g].episodes
         /\ graph'[g].episodes[k] = graph[g].episodes[k]
<1>1. PICK n : n = Len(graph[g].episodes)
  OBVIOUS
<1>2. PICK m : m = Len(graph'[g].episodes)
  OBVIOUS
<1>3. k \in 1 .. n /\ n \in Nat /\ (m = n \/ m = n + 1)
  BY <1>1, <1>2 DEF EpisodeIsLast
<1>4. k \in 1 .. m
  BY <1>3
<1>5. QED
  BY <1>1, <1>2, <1>3, <1>4 DEF EpisodeIsLast

LEMMA OldOrLast ==
  ASSUME NEW g, NEW i, NEW own, EpisodeIsLast(g, i, own), NEW k \in DOMAIN graph'[g].episodes
  PROVE  \/ k \in DOMAIN graph[g].episodes /\ graph[g].episodes[k] = graph'[g].episodes[k]
         \/ g = own /\ k = Len(graph[g].episodes) + 1 /\ graph'[g].episodes[k] = i
<1>1. CASE g = own
  <2>1. k \in 1 .. Len(graph[g].episodes) + 1 /\ Len(graph[g].episodes) \in Nat
    BY <1>1 DEF EpisodeIsLast
  <2>2. k \in 1 .. Len(graph[g].episodes) \/ k = Len(graph[g].episodes) + 1
    BY <2>1
  <2>3. QED
    BY <1>1, <2>2 DEF EpisodeIsLast
<1>2. CASE g # own
  BY <1>2 DEF EpisodeIsLast
<1>3. QED
  BY <1>1, <1>2

LEMMA EpisodesAfter ==
  ASSUME OnceInv, NEW i \in 1 .. Len(docs), NEW h, NEW g \in Groups,
         graph'[g].episodes = IF g = h THEN Append(graph[g].episodes, i) ELSE graph[g].episodes
  PROVE  EpisodeIsLast(g, i, h)
<1>1. graph[g].episodes \in Seq(1 .. Len(docs))
  BY DEF OnceInv, Placed
<1>2. Len(graph[g].episodes) \in Nat /\ DOMAIN graph[g].episodes = 1 .. Len(graph[g].episodes)
      /\ \A k \in 1 .. Len(graph[g].episodes) : graph[g].episodes[k] \in 1 .. Len(docs)
  BY <1>1, LenProperties, ElementOfSeq
<1>3. CASE g = h
  <2>1. graph'[g].episodes = Append(graph[g].episodes, i)
    BY <1>3
  <2>2. /\ Append(graph[g].episodes, i) \in Seq(1 .. Len(docs))
        /\ Len(Append(graph[g].episodes, i)) = Len(graph[g].episodes) + 1
        /\ \A k \in 1 .. Len(graph[g].episodes) : Append(graph[g].episodes, i)[k] = graph[g].episodes[k]
        /\ Append(graph[g].episodes, i)[Len(graph[g].episodes) + 1] = i
    BY <1>1, AppendProperties
  <2>3. DOMAIN Append(graph[g].episodes, i) = 1 .. Len(Append(graph[g].episodes, i))
    BY <2>2, LenProperties
  <2>4. QED
    BY <1>2, <1>3, <2>1, <2>2, <2>3 DEF EpisodeIsLast
<1>4. CASE g # h
  BY <1>1, <1>2, <1>4 DEF EpisodeIsLast
<1>5. QED
  BY <1>3, <1>4

\* A document extracted was in no graph, and is in its own now.
LEMMA ExtractOnce ==
  ASSUME KInv, OnceInv, at["ingest"] = "extract", NEW found, Goes("ingest", "spool"),
         graph' = [graph EXCEPT ![Group("ingest")] = Extracted(@, Head(feed.batch), found)],
         UNCHANGED <<docs, feed, seen, engine>>, faults' \in Nat, faults' = 0 => faults = 0
  PROVE  OnceInv'
<1>0. PICK h : h = Head(feed.batch)
  OBVIOUS
<1>1. h \in 1 .. Len(docs) /\ Own(h) \in Groups /\ graph' = [g \in Groups |-> graph'[g]]
      /\ \A g \in Groups : EpisodeIsLast(g, h, Own(h))
  BY <1>0, EpisodeAdded, EpisodesAfter
<1>2. \A i : Own(i)' = Own(i)
  BY DEF Own
<1>3. Placed'
  <2>1. ASSUME NEW g \in Groups, NEW k \in 1 .. Len(graph'[g].episodes)
        PROVE  Own(graph'[g].episodes[k]) = g
    <3>9. EpisodeIsLast(g, h, Own(h))
      BY <1>1
    <3>1. CASE k \in 1 .. Len(graph[g].episodes)
      <4>1. graph'[g].episodes[k] = graph[g].episodes[k]
        BY <3>1, <3>9 DEF EpisodeIsLast
      <4>2. Own(graph[g].episodes[k]) = g
        BY <3>1 DEF OnceInv, Placed
      <4>3. QED
        BY <4>1, <4>2
    <3>2. CASE k \notin 1 .. Len(graph[g].episodes)
      BY <2>1, <3>2, <3>9 DEF EpisodeIsLast
    <3>3. QED
      BY <3>1, <3>2
  <2>2. \A g \in Groups : graph'[g].episodes \in Seq(1 .. Len(docs))
    BY <1>1 DEF EpisodeIsLast
  <2>3. \A g \in Groups : \A k \in 1 .. Len(graph'[g].episodes) : Own(graph[g].episodes[k])' = g
    BY <2>1 DEF Own
  <2>4. QED
    BY <1>1, <2>2, <2>3 DEF Placed
<1>4. ASSUME faults' = 0
      PROVE  engine' # "idle" /\ AtWork' /\ KeptOnce' /\ Settled(feed)' \subseteq Over'
  <2>1. engine # "idle" /\ AtWork /\ KeptOnce /\ Settled(feed) \subseteq Over
    BY <1>4 DEF OnceInv, QuietIngest
  <2>2. h \notin seen /\ ~InGraph(h)
    BY <1>0, <1>1, <2>1 DEF AtWork, KeptOnce
  <2>3. at'["ingest"] = "spool"
    BY DEF Goes, KInv, InHand, Coroutines
  <2>4. InGraph(h)'
    <3>9. EpisodeIsLast(Own(h), h, Own(h))
      BY <1>1
    <3>1. Len(graph[Own(h)].episodes) + 1 \in DOMAIN graph'[Own(h)].episodes
          /\ graph'[Own(h)].episodes[Len(graph[Own(h)].episodes) + 1] = h
      BY <3>9 DEF EpisodeIsLast
    <3>2. QED
      BY <3>1 DEF InGraph, Own
  <2>5. \A i \in 1 .. Len(docs) : InGraph(i) => InGraph(i)'
    <3>1. ASSUME NEW i \in 1 .. Len(docs), InGraph(i)
          PROVE  InGraph(i)'
      <4>1. Own(i) \in Groups
        BY OwnTyped DEF KInv
      <4>2. PICK k \in DOMAIN graph[Own(i)].episodes : graph[Own(i)].episodes[k] = i
        BY <3>1 DEF InGraph
      <4>9. EpisodeIsLast(Own(i), h, Own(h))
        BY <1>1, <4>1
      <4>3. k \in DOMAIN graph'[Own(i)].episodes /\ graph'[Own(i)].episodes[k] = i
        BY <4>2, <4>9, OldStays
      <4>4. QED
        BY <4>3 DEF InGraph, Own
    <3>2. QED
      BY <3>1
  <2>6. \A i \in 1 .. Len(docs) : InGraph(i)' => InGraph(i) \/ i = h
    <3>1. ASSUME NEW i \in 1 .. Len(docs), InGraph(i)', i # h
          PROVE  InGraph(i)
      <4>1. Own(i) \in Groups
        BY OwnTyped DEF KInv
      <4>2. PICK k \in DOMAIN graph'[Own(i)].episodes : graph'[Own(i)].episodes[k] = i
        BY <3>1 DEF InGraph, Own
      <4>9. EpisodeIsLast(Own(i), h, Own(h))
        BY <1>1, <4>1
      <4>3. k \in DOMAIN graph[Own(i)].episodes /\ graph[Own(i)].episodes[k] = i
        BY <3>1, <4>2, <4>9, OldOrLast
      <4>4. QED
        BY <4>3 DEF InGraph
    <3>2. QED
      BY <3>1
  <2>7. ASSUME NEW g \in Groups, NEW k \in 1 .. Len(graph'[g].episodes),
               NEW l \in 1 .. Len(graph'[g].episodes),
               graph'[g].episodes[k] = graph'[g].episodes[l]
        PROVE  k = l
    <3>9. EpisodeIsLast(g, h, Own(h))
      BY <1>1
    <3>1. \A m \in 1 .. Len(graph[g].episodes) : graph[g].episodes[m] # h \/ g # Own(h)
      BY <2>2, <3>9 DEF InGraph, EpisodeIsLast
    <3>2. CASE k \in 1 .. Len(graph[g].episodes) /\ l \in 1 .. Len(graph[g].episodes)
      <4>1. graph[g].episodes[k] = graph[g].episodes[l]
        BY <2>7, <3>2, <3>9 DEF EpisodeIsLast
      <4>2. QED
        BY <2>1, <3>2, <4>1 DEF KeptOnce
    <3>3. CASE k \notin 1 .. Len(graph[g].episodes) \/ l \notin 1 .. Len(graph[g].episodes)
      <4>1. DOMAIN graph[g].episodes = 1 .. Len(graph[g].episodes)
            /\ DOMAIN graph'[g].episodes = 1 .. Len(graph'[g].episodes)
        BY <3>9 DEF EpisodeIsLast
      <4>2. \A m \in DOMAIN graph'[g].episodes :
              \/ m \in DOMAIN graph[g].episodes /\ graph[g].episodes[m] = graph'[g].episodes[m]
              \/ g = Own(h) /\ m = Len(graph[g].episodes) + 1 /\ graph'[g].episodes[m] = h
        BY <3>9, OldOrLast
      <4>3. QED
        BY <2>7, <3>1, <3>3, <4>1, <4>2
    <3>4. QED
      BY <3>2, <3>3
  <2>11. docs[h].parses
    BY <1>0, <2>1 DEF AtWork, Doc
  <2>8. KeptOnce'
    BY <1>0, <2>1, <2>3, <2>4, <2>5, <2>6, <2>7, <2>11 DEF KeptOnce
  <2>9. AtWork' /\ Settled(feed)' \subseteq Over'
    <3>1. InGraph(Head(feed.batch))'
      BY <1>0, <2>4 DEF InGraph, Own
    <3>2. QED
      BY <2>1, <2>3, <3>1 DEF AtWork, Settled, Over
  <2>10. QED
    BY <2>1, <2>8, <2>9
<1>5. QED
  BY <1>3, <1>4 DEF OnceInv, QuietIngest

LEMMA AddEpisodeOnce ==
  ASSUME KInv, OnceInv, NEW found \in Extractions, AddEpisode(found)
  PROVE  OnceInv'
<1>1. at["ingest"] = "extract" /\ Goes("ingest", "spool") /\ UNCHANGED <<docs, feed, seen, engine>>
  BY DEF AddEpisode
<1>2. (faults' \in Nat /\ faults' = faults) \/ Fault
  BY DEF AddEpisode, NoFault, OnceInv, Placed
<1>3. CASE graph' = [graph EXCEPT ![Group("ingest")] = Extracted(@, Head(feed.batch), found)]
  <2>1. faults' \in Nat /\ (faults' = 0 => faults = 0)
    BY <1>2 DEF Fault, OnceInv, Placed
  <2>2. QED
    BY <1>1, <1>3, <2>1, ExtractOnce
<1>4. CASE graph' = graph /\ Fault
  BY <1>1, <1>4, OnceFails
<1>5. QED
  BY <1>3, <1>4 DEF AddEpisode

LEMMA ReaderOnce ==
  ASSUME KInv, OnceInv, NEW r \in Readers, Reads(r)
  PROVE  OnceInv'
<1>1. UNCHANGED <<docs, feed, seen, graph, engine>>
  BY DEF Reads, QuerySubgraph, ReadFails, ReadEntities, ReadEpisodes, ReadFacts, Forget, Deadline,
         queue
<1>2. UNCHANGED faults \/ Fault
  BY DEF Reads, QuerySubgraph, ReadFails, ReadEntities, ReadEpisodes, ReadFacts, Forget, Deadline
<1>3. at'["ingest"] = at["ingest"]
  <2>1. r \in Coroutines /\ "ingest" \in Coroutines /\ r # "ingest"
    BY KnowledgeAssumption DEF Coroutines
  <2>2. \E s : at' = [at EXCEPT ![r] = s]
    <3>1. at = [at EXCEPT ![r] = at[r]]
      BY <2>1 DEF KInv, InHand
    <3>2. QED
      BY <3>1 DEF Reads, QuerySubgraph, Uses, ReadFails, ReadEntities, ReadEpisodes, ReadFacts,
                  Forget, Deadline, Goes
  <2>3. QED
    BY <2>1, <2>2 DEF KInv, InHand
<1>4. QED
  BY <1>1, <1>2, <1>3, OnceStays, OnceFails

LEMMA ProcessOnce ==
  ASSUME OnceInv, CrashGraph \/ StartGraph
  PROVE  OnceInv'
<1>1. CASE Fault
  BY <1>1, OnceFails DEF CrashGraph, StartGraph, queue
<1>2. CASE StartGraph /\ NoFault /\ engine' = "graphiti"
  BY <1>2, OnceStays DEF StartGraph, NoFault, queue
<1>3. QED
  BY <1>1, <1>2 DEF CrashGraph, StartGraph

LEMMA OnceNext ==
  ASSUME KInv, OnceInv, [KNext]_kvars
  PROVE  OnceInv'
<1>1. ASSUME NEW d \in Documents, Publish(d) \/ UpsertNode(d)
      PROVE  OnceInv'
  BY <1>1, PublishOnce DEF UpsertNode
<1>2. ASSUME NEW c \in Coroutines, Ensure(c) \/ Build(c)
      PROVE  OnceInv'
  BY <1>2, LockOnce
<1>3. CASE Ingest
  BY <1>3, FetchOnce, HandleOnce, AddEpisodeOnce, SpoolOnce, AckOnce DEF Ingest
<1>4. ASSUME NEW r \in Readers, Reads(r)
      PROVE  OnceInv'
  BY <1>4, ReaderOnce
<1>5. CASE CrashGraph \/ StartGraph
  BY <1>5, ProcessOnce
<1>6. CASE UNCHANGED kvars
  BY <1>6, OnceStays DEF kvars, queue
<1>7. QED
  BY <1>1, <1>2, <1>3, <1>4, <1>5, <1>6 DEF KNext

-----------------------------------------------------------------------------
\* How often a number is in a sequence that has it once at most.
LEMMA CountsOnce ==
  ASSUME NEW s, NEW i, NEW k \in DOMAIN s, s[k] = i,
         \A l \in DOMAIN s : s[l] = i => l = k
  PROVE  Cardinality({l \in DOMAIN s : s[l] = i}) = 1
<1>1. {l \in DOMAIN s : s[l] = i} = {k}
  OBVIOUS
<1>2. QED
  BY <1>1, FS_Singleton

LEMMA CountsNone ==
  ASSUME NEW s, NEW i, \A l \in DOMAIN s : s[l] # i
  PROVE  Cardinality({l \in DOMAIN s : s[l] = i}) = 0
<1>1. {l \in DOMAIN s : s[l] = i} = {}
  OBVIOUS
<1>2. QED
  BY <1>1, FS_EmptySet

\* While nothing fails every document that was acked is in the graph of its
\* project exactly once, if it parses and has a text, however often it is
\* delivered, and never if it does not parse; and whatever fails, no graph holds a document of another project (handle,
\* write_spool and _seen of the ingestor).
THEOREM DocumentsAreKeptOnce == KSpec => []QuietDocumentIsOnce
<1>1. ASSUME KInv, OnceInv
      PROVE  QuietDocumentIsOnce
  <2>1. docs \in Seq(Documents) /\ DOMAIN docs = 1 .. Len(docs)
    BY <1>1, LenProperties DEF KInv, InHand
  <2>2. ASSUME NEW g \in Groups
        PROVE  DOMAIN graph[g].episodes = 1 .. Len(graph[g].episodes)
    BY <1>1, LenProperties DEF OnceInv, Placed
  <2>3. ASSUME NEW i \in DOMAIN docs, NEW g \in Groups, g # Own(i)
        PROVE  Copies(g, i) = 0
    <3>1. \A k \in DOMAIN graph[g].episodes : graph[g].episodes[k] # i
      BY <1>1, <2>2, <2>3 DEF OnceInv, Placed
    <3>2. QED
      BY <3>1, CountsNone DEF Copies
  <2>4. ASSUME NEW i \in DOMAIN docs, NEW g \in Groups, faults = 0,
               NEW k \in DOMAIN graph[g].episodes, graph[g].episodes[k] = i
        PROVE  Copies(g, i) = 1
    <3>1. \A l \in DOMAIN graph[g].episodes : graph[g].episodes[l] = i => l = k
      BY <1>1, <2>2, <2>4 DEF OnceInv, QuietIngest, KeptOnce
    <3>2. QED
      BY <2>4, <3>1, CountsOnce DEF Copies
  <2>5. ASSUME NEW i \in DOMAIN docs, NEW g \in Groups, faults = 0
        PROVE  Copies(g, i) <= (IF docs[i].parses THEN 1 ELSE 0)
    <3>1. CASE \E k \in DOMAIN graph[g].episodes : graph[g].episodes[k] = i
      <4>1. Copies(g, i) = 1
        BY <2>4, <2>5, <3>1
      <4>2. g = Own(i)
        BY <1>1, <2>2, <3>1 DEF OnceInv, Placed
      <4>3. InGraph(i)
        BY <3>1, <4>2 DEF InGraph
      <4>4. docs[i].parses
        BY <1>1, <2>1, <2>5, <4>3 DEF OnceInv, QuietIngest, KeptOnce
      <4>5. QED
        BY <4>1, <4>4
    <3>2. CASE \A k \in DOMAIN graph[g].episodes : graph[g].episodes[k] # i
      <4>1. Copies(g, i) = 0
        BY <3>2, CountsNone DEF Copies
      <4>2. QED
        BY <4>1
    <3>3. QED
      BY <3>1, <3>2
  <2>6. ASSUME NEW i \in DOMAIN docs, faults = 0, i \in Settled(feed), docs[i].text, docs[i].parses
        PROVE  Copies(Own(i), i) = 1
    <3>1. InGraph(i)
      BY <1>1, <2>1, <2>6 DEF OnceInv, QuietIngest, KeptOnce, Over
    <3>2. Own(i) \in Groups
      BY <1>1, <2>1, OwnTyped DEF KInv
    <3>3. QED
      BY <2>4, <2>6, <3>1, <3>2 DEF InGraph
  <2>7. QED
    BY <2>3, <2>5, <2>6 DEF QuietDocumentIsOnce, Own
<1>2. KSpec => []OnceInv
  BY KInvHolds, OnceInit, OnceNext, PTL DEF KSpec
<1>3. QED
  BY <1>1, <1>2, KInvHolds, PTL

-----------------------------------------------------------------------------
(* Induction, from the least element of a set of numbers. *)

LEMMA LeastNumber ==
  ASSUME NEW T \in SUBSET Nat, T # {}
  PROVE  \E n \in T : \A m \in T : n <= m
<1> DEFINE R == {p \in Nat \X Nat : p[1] < p[2]}
<1>1. IsWellFoundedOn(R, Nat)
  BY NatLessThanWellFounded DEF OpToRel
<1>2. \E n \in T : \A m \in T : <<m, n>> \notin R
  <2> HIDE DEF R
  <2>1. QED
    BY <1>1, WFMin
<1>3. PICK n \in T : \A m \in T : <<m, n>> \notin R
  BY <1>2
<1>4. \A m \in T : m \in Nat /\ n \in Nat /\ ~(m < n)
  BY <1>3
<1>5. QED
  BY <1>4

LEMMA Induction ==
  ASSUME NEW T \in SUBSET Nat, 0 \in T, \A n \in T : n + 1 \in T
  PROVE  T = Nat
<1>1. SUFFICES ASSUME Nat \ T # {} PROVE FALSE
  OBVIOUS
<1>2. PICK n \in Nat \ T : \A m \in Nat \ T : n <= m
  BY <1>1, LeastNumber
<1>3. n # 0 /\ n - 1 \in Nat
  BY <1>2
<1>4. n - 1 \in T
  BY <1>2, <1>3
<1>5. QED
  BY <1>3, <1>4

-----------------------------------------------------------------------------
(* Answers are balls: what a breadth-first search from the seeds reaches.  *)

\* The closure the search of Around comes to, up to the nth hop.
Wider(facts, S) == S \cup UNION {Neighbours(facts, x) : x \in S}
IsReached(r, starts, facts, n) ==
  r = [i \in 0 .. n |-> IF i = 0 THEN starts ELSE Wider(facts, r[i - 1])]

\* search of Around, up to the nth hop.
IsSearch(s, starts, facts, n) ==
  s = [i \in 0 .. n |-> IF i = 0 THEN Search(starts, starts) ELSE Hop(facts, s[i - 1])]

LEMMA SearchExists ==
  ASSUME NEW starts, NEW facts, NEW hops \in Nat
  PROVE  \E s : IsSearch(s, starts, facts, hops) /\ Around(starts, facts, hops) = s[hops].chosen
<1> DEFINE T == {n \in Nat : \E s : IsSearch(s, starts, facts, n)}
<1>1. 0 \in T
  <2>1. IsSearch([i \in 0 .. 0 |-> Search(starts, starts)], starts, facts, 0)
    BY DEF IsSearch
  <2>2. QED
    BY <2>1
<1>2. ASSUME NEW n \in T
      PROVE  n + 1 \in T
  <2>1. PICK s : IsSearch(s, starts, facts, n)
    OBVIOUS
  <2> DEFINE g == [i \in 0 .. n + 1 |-> IF i <= n THEN s[i] ELSE Hop(facts, s[n])]
  <2>2. IsSearch(g, starts, facts, n + 1)
    BY <2>1 DEF IsSearch
  <2>3. QED
    BY <2>2
<1>3. T = Nat
  <2> HIDE DEF T
  <2>1. T \in SUBSET Nat
    BY DEF T
  <2>2. QED
    BY <1>1, <1>2, <2>1, Induction
<1>4. \E s : IsSearch(s, starts, facts, hops)
  BY <1>3
<1>5. Around(starts, facts, hops) = (CHOOSE s : IsSearch(s, starts, facts, hops))[hops].chosen
  BY DEF Around, IsSearch
<1>6. QED
  BY <1>4, <1>5

\* The neighbours of the nodes that are not of the last step are chosen.
SearchedAround(facts, s) ==
  /\ s = Search(s.chosen, s.frontier) /\ s.frontier \subseteq s.chosen
  /\ \A x \in s.chosen \ s.frontier : Neighbours(facts, x) \subseteq s.chosen

LEMMA StepIs ==
  ASSUME NEW facts, NEW s, NEW n
  PROVE  n \in Step(facts, s) <=> n \notin s.chosen /\ \E x \in s.frontier : n \in Neighbours(facts, x)
BY DEF Step

\* So a step of the search finds what a step from all chosen nodes would.
LEMMA HopWidens ==
  ASSUME NEW facts, NEW s, SearchedAround(facts, s)
  PROVE  SearchedAround(facts, Hop(facts, s)) /\ Hop(facts, s).chosen = Wider(facts, s.chosen)
<1> DEFINE c == s.chosen
           f == s.frontier
<1>1. PICK step : step = Step(facts, s)
  OBVIOUS
<1>2. f \subseteq c /\ \A x \in c \ f : \A n \in Neighbours(facts, x) : n \in c
  BY DEF SearchedAround
<1>3. Wider(facts, c) = c \cup step
  <2>1. \A n : n \in Wider(facts, c) <=> n \in c \/ \E x \in c : n \in Neighbours(facts, x)
    BY DEF Wider
  <2>2. \A n : n \in step <=> n \notin c /\ \E x \in f : n \in Neighbours(facts, x)
    BY <1>1, StepIs
  <2>3. PICK w : w = Wider(facts, c)
    OBVIOUS
  <2> HIDE DEF c, f
  <2>4. w = c \cup step
    BY <1>2, <2>1, <2>2, <2>3
  <2>5. QED
    BY <2>3, <2>4
<1>4. CASE step = {}
  <2>1. Hop(facts, s) = s
    BY <1>1, <1>4 DEF Hop
  <2>2. QED
    BY <1>3, <1>4, <2>1
<1>5. CASE step # {}
  <2>1. Hop(facts, s) = Search(c \cup step, step)
    BY <1>1, <1>5 DEF Hop
  <2>2. \A x \in (c \cup step) \ step : Neighbours(facts, x) \subseteq c \cup step
    <3>1. \A x \in c : Neighbours(facts, x) \subseteq Wider(facts, c)
      BY DEF Wider
    <3> HIDE DEF c
    <3>2. QED
      BY <1>3, <3>1
  <2>3. PICK t : t = Search(c \cup step, step)
    OBVIOUS
  <2>4. t.chosen = c \cup step /\ t.frontier = step
    BY <2>3 DEF Search
  <2>5. SearchedAround(facts, t)
    BY <2>2, <2>3, <2>4 DEF SearchedAround
  <2>6. QED
    BY <1>3, <2>1, <2>3, <2>4, <2>5
<1>6. QED
  BY <1>4, <1>5

LEMMA ReachedExists ==
  ASSUME NEW starts, NEW facts, NEW hops \in Nat
  PROVE  \E r : IsReached(r, starts, facts, hops) /\ Around(starts, facts, hops) = r[hops]
<1>1. PICK s : IsSearch(s, starts, facts, hops) /\ Around(starts, facts, hops) = s[hops].chosen
  BY SearchExists
<1>2. s[0] = Search(starts, starts) /\ \A k \in Nat : k + 1 <= hops => s[k + 1] = Hop(facts, s[k])
  BY <1>1 DEF IsSearch
<1>3. SearchedAround(facts, s[0]) /\ s[0].chosen = starts
  BY <1>2 DEF SearchedAround, Search
<1> DEFINE T == {k \in Nat : k <= hops => SearchedAround(facts, s[k])}
<1>4. T = Nat
  <2>1. 0 \in T
    BY <1>3
  <2>2. ASSUME NEW k \in T
        PROVE  k + 1 \in T
    <3>1. SUFFICES ASSUME k + 1 <= hops PROVE SearchedAround(facts, s[k + 1])
      OBVIOUS
    <3>2. SearchedAround(facts, s[k]) /\ s[k + 1] = Hop(facts, s[k])
      BY <1>2, <3>1
    <3>3. QED
      BY <3>2, HopWidens
  <2> HIDE DEF T
  <2>3. T \in SUBSET Nat
    BY DEF T
  <2>4. QED
    BY <2>1, <2>2, <2>3, Induction
<1>5. \A k \in Nat : k + 1 <= hops => s[k + 1].chosen = Wider(facts, s[k].chosen)
  <2>1. ASSUME NEW k \in Nat, k + 1 <= hops
        PROVE  s[k + 1].chosen = Wider(facts, s[k].chosen)
    <3>1. SearchedAround(facts, s[k]) /\ s[k + 1] = Hop(facts, s[k])
      <4>1. k \in T /\ k <= hops
        BY <1>4, <2>1
      <4>2. QED
        BY <1>2, <2>1, <4>1
    <3>2. QED
      BY <3>1, HopWidens
  <2>2. QED
    BY <2>1
<1> HIDE DEF T
<1>6. PICK r : r = [i \in 0 .. hops |-> s[i].chosen]
  OBVIOUS
<1>7. r[hops] = Around(starts, facts, hops)
  BY <1>1, <1>6
<1>8. \A i \in 0 .. hops : r[i] = (IF i = 0 THEN starts ELSE Wider(facts, r[i - 1]))
  <2>1. r[0] = starts
    BY <1>3, <1>6
  <2>2. ASSUME NEW i \in 1 .. hops
        PROVE  r[i] = Wider(facts, r[i - 1])
    <3>1. i - 1 \in Nat /\ (i - 1) + 1 = i /\ i <= hops /\ i \in 0 .. hops /\ i - 1 \in 0 .. hops
      OBVIOUS
    <3>2. s[i].chosen = Wider(facts, s[i - 1].chosen)
      BY <1>5, <3>1
    <3>3. QED
      BY <1>6, <3>1, <3>2
  <2>3. QED
    BY <2>1, <2>2
<1>9. IsReached(r, starts, facts, hops)
  BY <1>6, <1>8 DEF IsReached
<1>10. QED
  BY <1>7, <1>9

\* A path of one hop more.
Linked(facts, m, n) == m = n \/ <<m, n>> \in facts \/ <<n, m>> \in facts

LEMMA LeadsNowhere ==
  ASSUME NEW facts, NEW nodes, NEW from, NEW to
  PROVE  Leads(facts, nodes, 0, from, to) <=> from = to /\ to \in nodes
<1>1. ASSUME from = to, to \in nodes
      PROVE  Leads(facts, nodes, 0, from, to)
  <2>1. PICK path : path = [i \in 0 .. 0 |-> to]
    OBVIOUS
  <2>2. path \in [0 .. 0 -> nodes] /\ path[0] = from /\ path[0] = to
    BY <1>1, <2>1
  <2>3. QED
    BY <2>2 DEF Leads
<1>2. QED
  BY <1>1 DEF Leads

LEMMA LeadsFurther ==
  ASSUME NEW facts, NEW nodes, NEW k \in Nat, NEW from, NEW to
  PROVE  Leads(facts, nodes, k + 1, from, to)
           <=> to \in nodes /\ \E m \in nodes : Leads(facts, nodes, k, from, m) /\ Linked(facts, m, to)
<1>1. ASSUME NEW path \in [0 .. k + 1 -> nodes], path[0] = from, path[k + 1] = to,
             \A i \in 1 .. k + 1 : Linked(facts, path[i - 1], path[i])
      PROVE  to \in nodes /\ \E m \in nodes : Leads(facts, nodes, k, from, m) /\ Linked(facts, m, to)
  <2> DEFINE p == [i \in 0 .. k |-> path[i]]
  <2>1. p \in [0 .. k -> nodes] /\ p[0] = from /\ p[k] = path[k]
        /\ \A i \in 1 .. k : Linked(facts, p[i - 1], p[i])
    <3>1. \A i \in 0 .. k : i \in 0 .. k + 1
      OBVIOUS
    <3>2. \A i \in 1 .. k : i - 1 \in 0 .. k /\ i \in 0 .. k /\ i \in 1 .. k + 1
      OBVIOUS
    <3>3. 0 \in 0 .. k /\ k \in 0 .. k
      OBVIOUS
    <3>4. QED
      BY <1>1, <3>1, <3>2, <3>3
  <2>2. Leads(facts, nodes, k, from, path[k])
    <3> HIDE DEF p
    <3>1. QED
      BY <2>1 DEF Leads, Linked
  <2>3. k \in 0 .. k + 1 /\ k + 1 \in 0 .. k + 1 /\ k + 1 \in 1 .. k + 1 /\ (k + 1) - 1 = k
    OBVIOUS
  <2>4. path[k] \in nodes /\ to \in nodes /\ Linked(facts, path[k], to)
    BY <1>1, <2>3
  <2>5. QED
    BY <2>2, <2>4
<1>2. ASSUME to \in nodes, NEW m \in nodes, Linked(facts, m, to), NEW path \in [0 .. k -> nodes],
             path[0] = from, path[k] = m, \A i \in 1 .. k : Linked(facts, path[i - 1], path[i])
      PROVE  Leads(facts, nodes, k + 1, from, to)
  <2> DEFINE p == [i \in 0 .. k + 1 |-> IF i <= k THEN path[i] ELSE to]
  <2>1. p \in [0 .. k + 1 -> nodes] /\ p[0] = from /\ p[k + 1] = to
    BY <1>2
  <2>2. ASSUME NEW i \in 1 .. k + 1
        PROVE  Linked(facts, p[i - 1], p[i])
    <3>1. CASE i \in 1 .. k
      BY <1>2, <3>1
    <3>2. CASE i = k + 1
      BY <1>2, <3>2
    <3>3. QED
      BY <3>1, <3>2
  <2> HIDE DEF p
  <2>3. QED
    BY <2>1, <2>2 DEF Leads, Linked
<1>3. QED
  <2>1. Leads(facts, nodes, k + 1, from, to)
          => to \in nodes /\ \E m \in nodes : Leads(facts, nodes, k, from, m) /\ Linked(facts, m, to)
    BY <1>1 DEF Leads, Linked
  <2>2. ASSUME to \in nodes, NEW m \in nodes, Leads(facts, nodes, k, from, m), Linked(facts, m, to)
        PROVE  Leads(facts, nodes, k + 1, from, to)
    <3>1. PICK path \in [0 .. k -> nodes] :
            path[0] = from /\ path[k] = m /\ \A i \in 1 .. k : Linked(facts, path[i - 1], path[i])
      BY <2>2 DEF Leads, Linked
    <3>2. QED
      BY <1>2, <2>2, <3>1
  <2>3. QED
    BY <2>1, <2>2

Within(facts, nodes) == {f \in facts : {f[1], f[2]} \subseteq nodes}
Ball(facts, nodes, hops, starts) == {n \in nodes : \E s \in starts : Leads(facts, nodes, hops, s, n)}

LEMMA AroundIsLeads ==
  ASSUME NEW all \in SUBSET (Concepts \X Concepts), NEW nodes, NEW starts \in SUBSET nodes,
         NEW hops \in Nat
  PROVE  Around(starts, Within(all, nodes), hops) = Ball(all, nodes, hops, starts)
<1> DEFINE among == Within(all, nodes)
           Reached(k) == Ball(all, nodes, k, starts)
<1>1. PICK r : IsReached(r, starts, among, hops) /\ Around(starts, among, hops) = r[hops]
  <2> HIDE DEF among
  <2>1. QED
    BY ReachedExists
<1>2. \A m \in nodes : \A n : n \in Neighbours(among, m)
        <=> n \in nodes /\ (<<m, n>> \in all \/ <<n, m>> \in all)
  BY DEF Neighbours, Adjacent, Within
<1>3. r[0] = Reached(0)
  <2>1. r[0] = starts
    BY <1>1 DEF IsReached
  <2>2. QED
    BY <2>1, LeadsNowhere DEF Ball
<1>4. ASSUME NEW k \in Nat, k + 1 <= hops, r[k] = Reached(k)
      PROVE  r[k + 1] = Reached(k + 1)
  <2>1. r[k + 1] = Wider(among, r[k])
    <3> HIDE DEF among, Reached
    <3>1. k + 1 \in 0 .. hops /\ k + 1 # 0 /\ (k + 1) - 1 = k
      BY <1>4
    <3>2. QED
      BY <1>1, <3>1 DEF IsReached
  <2> HIDE DEF among
  <2>2. \A n : n \in r[k + 1] <=> n \in nodes /\ \E m \in r[k] : Linked(all, m, n)
    <3>1. \A m \in r[k] : m \in nodes
      BY <1>4 DEF Ball
    <3>2. \A n : n \in r[k + 1] <=> n \in r[k] \/ \E m \in r[k] : n \in Neighbours(among, m)
      BY <2>1 DEF Wider
    <3>3. QED
      BY <1>2, <3>1, <3>2 DEF Linked
  <2>3. \A n : n \in r[k + 1] <=> n \in nodes /\ \E s \in starts : \E m \in nodes :
                 Leads(all, nodes, k, s, m) /\ Linked(all, m, n)
    BY <1>4, <2>2 DEF Ball
  <2>4. \A s, n : Leads(all, nodes, k + 1, s, n) <=> n \in nodes /\ \E m \in nodes :
                 Leads(all, nodes, k, s, m) /\ Linked(all, m, n)
    BY LeadsFurther
  <2>5. QED
    BY <2>3, <2>4 DEF Ball
<1> DEFINE T == {k \in Nat : k <= hops => r[k] = Reached(k)}
<1>5. T = Nat
  <2>1. 0 \in T /\ \A k \in T : k + 1 \in T
    BY <1>3, <1>4
  <2> HIDE DEF T
  <2>2. T \in SUBSET Nat
    BY DEF T
  <2>3. QED
    BY <2>1, <2>2, Induction
<1>6. r[hops] = Reached(hops)
  BY <1>5
<1>7. QED
  BY <1>1, <1>6

\* The least of two numbers.
LEMMA MinOfTwo ==
  ASSUME NEW m \in Nat, NEW n \in Nat
  PROVE  Min({m, n}) = IF m <= n THEN m ELSE n
BY DEF Min

\* What is chosen, and what is kept of it, is a ball.
LEMMA AnswersSound ==
  ASSUME NEW q, IsQuery(q), IsFiniteSet(q.nodes), q.facts \in SUBSET (Concepts \X Concepts),
         NEW a \in Answers(q.req, q.nodes, q.facts)
  PROVE  AnswerIsTheBall(q, a)
<1> DEFINE limit == Or(q.req.cap, DefaultNodes)
           hops == Or(q.req.depth, DefaultDepth)
           starts == Starts(q.req, q.nodes)
           ball == IF Whole(q.req) THEN q.nodes
                   ELSE Ball(q.facts, q.nodes, hops, q.req.seeds \cap q.nodes)
<1>1. limit \in Nat /\ hops \in Nat
  <2>1. q.req.depth \in Int /\ q.req.cap \in Int
    <3>1. \A x \in Requests : x.depth \in Int /\ x.cap \in Int
      BY KnowledgeAssumption
    <3>2. NoRequest.depth \in Int /\ NoRequest.cap \in Int
      BY DEF NoRequest
    <3>3. q.req \in Requests \cup {NoRequest}
      BY DEF IsQuery
    <3>4. QED
      BY <3>1, <3>2, <3>3
  <2>2. DefaultNodes \in Nat /\ DefaultDepth \in Nat
    BY KnowledgeAssumption
  <2>3. \A v \in Int, d \in Nat : Or(v, d) \in Nat
    BY DEF Or
  <2>4. QED
    BY <2>1, <2>2, <2>3
<1>2. Chosen(q.req, q.nodes, q.facts) = ball
  <2>1. starts \in SUBSET q.nodes /\ starts = q.req.seeds \cap q.nodes
    BY DEF Starts
  <2> HIDE DEF hops
  <2> HIDE DEF starts
  <2>2. Around(starts, Within(q.facts, q.nodes), hops) = Ball(q.facts, q.nodes, hops, starts)
    BY <1>1, <2>1, AroundIsLeads
  <2>3. QED
    BY <2>1, <2>2 DEF Chosen, hops, starts, Within
<1> HIDE DEF limit, hops
<1>3. IsFiniteSet(ball) /\ Cardinality(ball) \in Nat /\ ball \subseteq q.nodes
  <2>1. ball \subseteq q.nodes
    BY DEF Ball
  <2> HIDE DEF ball
  <2>2. QED
    BY <2>1, FS_Subset, FS_CardinalityType
<1>4. PICK kept \in Capped(q.req, q.nodes, q.facts) :
        a.nodes = kept /\ a.facts \subseteq FactsAmong(q.facts, kept)
  <2>1. PICK kept \in Capped(q.req, q.nodes, q.facts) :
          \E n : \E some \in kSubset(n, FactsAmong(q.facts, kept)) :
            a = [kind |-> "graph", nodes |-> kept, facts |-> some]
    BY DEF Answers
  <2>2. QED
    BY <2>1 DEF kSubset
<1> HIDE DEF ball
<1>5. CASE Cardinality(ball) <= limit
  <2>1. kept = ball
    BY <1>2, <1>4, <1>5 DEF Capped, limit
  <2>2. Cardinality(kept) = Min({limit, Cardinality(ball)})
    BY <1>1, <1>3, <1>5, <2>1, MinOfTwo
  <2>3. QED
    BY <1>4, <2>1, <2>2 DEF AnswerIsTheBall, FactsAmong, Ball, ball, limit, hops
<1>6. CASE ~(Cardinality(ball) <= limit)
  <2>1. kept \in SUBSET ball /\ Cardinality(kept) = limit
        /\ \A n \in kept : \A m \in ball \ kept : ~Ranks(q.req, starts, m, n)
    BY <1>2, <1>4, <1>6 DEF Capped, limit, kSubset
  <2>2. Cardinality(kept) = Min({limit, Cardinality(ball)})
    BY <1>1, <1>3, <1>6, <2>1, MinOfTwo
  <2>3. q.req.seeds \cap ball \subseteq kept \/ Whole(q.req) \/ kept \subseteq q.req.seeds
    <3>1. ASSUME NEW m \in q.req.seeds \cap ball, m \notin kept, ~Whole(q.req), NEW n \in kept
          PROVE  n \in q.req.seeds
      <4>1. ~Ranks(q.req, starts, m, n) /\ m \in starts
        BY <1>3, <2>1, <3>1 DEF Starts
      <4>2. QED
        BY <3>1, <4>1 DEF Ranks, Starts
    <3>2. QED
      BY <3>1
  <2>4. QED
    BY <1>4, <2>1, <2>2, <2>3 DEF AnswerIsTheBall, FactsAmong, Ball, ball, limit, hops
<1>7. QED
  BY <1>5, <1>6

\* What a graph holds was extracted.
GraphsTyped ==
  /\ graph = [g \in Groups |-> graph[g]]
  /\ \A g \in Groups : /\ graph[g].episodes \in Seq(Nat) /\ graph[g].concepts \subseteq Concepts
                       /\ graph[g].facts \subseteq Concepts \X Concepts

\* A reader at step s with query q and answer a: what it has read so far, and
\* what it answered was made of it.
Sound(s, q, a) ==
  /\ IsFiniteSet(q.nodes) /\ q.facts \subseteq Concepts \X Concepts
  /\ s # "idle" => a.kind # "graph"
  /\ a.kind = "graph" /\ q # NoQuery => a \in Answers(q.req, q.nodes, q.facts)

ReadersSound ==
  /\ answer = [r \in Readers |-> answer[r]]
  /\ \A r \in Readers : Sound(at[r], query[r], answer[r])

BallInv == GraphsTyped /\ ReadersSound

LEMMA NoQuerySound ==
  ASSUME NEW a
  PROVE  Sound("idle", NoQuery, a)
<1>1. NoQuery.nodes = {} /\ NoQuery.facts = {}
  BY DEF NoQuery
<1>2. QED
  BY <1>1, FS_EmptySet DEF Sound

LEMMA BallInit == KInit => BallInv
<1> SUFFICES ASSUME KInit PROVE BallInv
  OBVIOUS
<1>1. GraphsTyped
  BY EmptySeq DEF KInit, EmptyGraph, GraphsTyped
<1>2. \A r \in Readers : at[r] = "idle" /\ query[r] = NoQuery
  BY DEF KInit, Coroutines
<1>3. ReadersSound
  BY <1>2, NoQuerySound DEF KInit, ReadersSound
<1>4. QED
  BY <1>1, <1>3 DEF BallInv

\* One reader moves, or none.
LEMMA ReaderSound ==
  ASSUME KInv, BallInv, UNCHANGED graph, NEW r \in Readers,
         NEW s, at' = [at EXCEPT ![r] = s],
         NEW q, query' = [query EXCEPT ![r] = q],
         NEW a, answer' = [answer EXCEPT ![r] = a],
         Sound(s, q, a)
  PROVE  BallInv'
<1>1. at'[r] = s /\ query'[r] = q /\ answer'[r] = a
      /\ \A t \in Readers \ {r} : at'[t] = at[t] /\ query'[t] = query[t] /\ answer'[t] = answer[t]
  BY DEF KInv, InHand, Coroutines, BallInv, ReadersSound
<1>2. \A t \in Readers : Sound(at'[t], query'[t], answer'[t])
  BY <1>1 DEF BallInv, ReadersSound
<1>3. answer' = [t \in Readers |-> answer'[t]]
  BY DEF BallInv, ReadersSound
<1>4. \A t \in Readers : Sound(at[t], query[t], answer[t])'
  BY <1>2 DEF Sound, Answers, Capped, Chosen
<1>5. QED
  BY <1>3, <1>4 DEF BallInv, ReadersSound, GraphsTyped

LEMMA ReadersStay ==
  ASSUME BallInv, UNCHANGED <<query, answer>>, \A r \in Readers : at'[r] = at[r], GraphsTyped'
  PROVE  BallInv'
<1>1. \A r \in Readers : Sound(at[r], query[r], answer[r])'
  BY DEF BallInv, ReadersSound, Sound
<1>2. QED
  BY <1>1 DEF BallInv, ReadersSound

\* A reader that is at work goes on, its query as it was.
LEMMA WorksOnSound ==
  ASSUME KInv, BallInv, NEW r \in Readers, at[r] # "idle", UNCHANGED <<graph, query, answer>>,
         NEW s, at' = [at EXCEPT ![r] = s]
  PROVE  BallInv'
<1>1. query' = [query EXCEPT ![r] = query[r]] /\ answer' = [answer EXCEPT ![r] = answer[r]]
  BY DEF KInv, InHand, BallInv, ReadersSound
<1>2. PICK q, a : q = query[r] /\ a = answer[r]
  OBVIOUS
<1>3. Sound(s, q, a)
  BY <1>2 DEF BallInv, ReadersSound, Sound
<1>4. QED
  BY <1>1, <1>2, <1>3, ReaderSound

LEMMA ReaderStopsSound ==
  ASSUME KInv, BallInv, NEW r \in Readers, UNCHANGED graph, at' = [at EXCEPT ![r] = "idle"],
         query' = [query EXCEPT ![r] = NoQuery], NEW a, answer' = [answer EXCEPT ![r] = a]
  PROVE  BallInv'
BY NoQuerySound, ReaderSound

LEMMA QueryBall ==
  ASSUME KInv, BallInv, NEW r \in Readers, NEW req \in Requests, QuerySubgraph(r, req)
  PROVE  BallInv'
<1>1. CASE answer' = [answer EXCEPT ![r] = Nothing] /\ UNCHANGED <<at, query>>
  <2>1. at' = [at EXCEPT ![r] = "idle"] /\ query' = [query EXCEPT ![r] = NoQuery] /\ UNCHANGED graph
    BY <1>1 DEF QuerySubgraph, KInv, InHand, Coroutines
  <2>2. QED
    BY <1>1, <2>1, ReaderStopsSound
<1>2. CASE /\ Uses(r) /\ query' = [query EXCEPT ![r] = [NoQuery EXCEPT !.req = req]]
           /\ answer' = [answer EXCEPT ![r] = NoAnswer]
  <2>1. PICK q : q = [NoQuery EXCEPT !.req = req]
    OBVIOUS
  <2>2. q.nodes = {} /\ q.facts = {}
    BY <2>1 DEF NoQuery
  <2>3. Sound("use", q, NoAnswer)
    BY <2>2, FS_EmptySet DEF Sound, NoAnswer
  <2>4. at' = [at EXCEPT ![r] = "use"] /\ query' = [query EXCEPT ![r] = q] /\ UNCHANGED graph
    BY <1>2, <2>1 DEF QuerySubgraph, Uses, Goes
  <2>5. QED
    BY <1>2, <2>3, <2>4, ReaderSound
<1>3. QED
  BY <1>1, <1>2 DEF QuerySubgraph

\* Episodes are finitely many nodes.
LEMMA EpisodesFinite ==
  ASSUME NEW e \in Seq(Nat)
  PROVE  IsFiniteSet({Episode(i) : i \in DOMAIN e})
<1>1. DOMAIN e = 1 .. Len(e) /\ Len(e) \in Nat
  BY LenProperties
<1>2. {Episode(i) : i \in DOMAIN e} \subseteq 101 .. 100 + Len(e)
  BY <1>1 DEF Episode
<1>3. IsFiniteSet(101 .. 100 + Len(e))
  BY <1>1, FS_Interval
<1>4. QED
  BY <1>2, <1>3, FS_Subset

LEMMA ReadBall ==
  ASSUME KInv, BallInv, NEW r \in Readers, ReadEntities(r) \/ ReadEpisodes(r) \/ ReadFacts(r)
  PROVE  BallInv'
<1>1. PICK a, b, c : query[r] = [req |-> a, nodes |-> b, facts |-> c]
  <2>1. IsQuery(query[r])
    BY DEF KInv, InHand
  <2>2. QED
    BY <2>1 DEF IsQuery
<1>2. PICK g \in Groups : g = Group(r)
  <2>1. r \in Coroutines /\ at[r] # "idle"
    BY DEF ReadEntities, ReadEpisodes, ReadFacts, Coroutines
  <2>2. QED
    BY <2>1, GroupTyped DEF KInv
<1>3. /\ graph[g].episodes \in Seq(Nat) /\ graph[g].concepts \subseteq Concepts
      /\ graph[g].facts \subseteq Concepts \X Concepts /\ UNCHANGED graph
  BY DEF BallInv, GraphsTyped, ReadEntities, ReadEpisodes, ReadFacts
<1>4. IsFiniteSet(b) /\ c \subseteq Concepts \X Concepts
      /\ (at[r] # "idle" => answer[r].kind # "graph")
  BY <1>1 DEF BallInv, ReadersSound, Sound
<1>5. PICK old : old = answer[r] /\ answer = [answer EXCEPT ![r] = old]
  BY DEF BallInv, ReadersSound
<1>6. CASE ReadEntities(r)
  <2>1. at' = [at EXCEPT ![r] = "episodes"] /\ answer' = answer /\ at[r] # "idle"
        /\ query' = [query EXCEPT ![r].nodes = graph[g].concepts]
    BY <1>2, <1>6 DEF ReadEntities, Goes
  <2>2. PICK q : q = [req |-> a, nodes |-> graph[g].concepts, facts |-> c]
    OBVIOUS
  <2>3. query' = [query EXCEPT ![r] = q]
    <3>1. query' = [query EXCEPT ![r] = [query[r] EXCEPT !.nodes = graph[g].concepts]]
      BY <2>1
    <3>2. [query[r] EXCEPT !.nodes = graph[g].concepts] = q
      BY <1>1, <2>2
    <3>3. QED
      BY <3>1, <3>2
  <2>4. IsFiniteSet(graph[g].concepts)
    <3>1. IsFiniteSet(1 .. 99)
      <4>1. \A n \in Nat : IsFiniteSet(1 .. n)
        BY FS_Interval
      <4>2. 99 \in Nat
        OBVIOUS
      <4>3. QED
        BY <4>1, <4>2
    <3>2. graph[g].concepts \subseteq 1 .. 99
      BY <1>3, KnowledgeAssumption
    <3>3. QED
      BY <3>1, <3>2, FS_Subset
  <2>5. Sound("episodes", q, old)
    BY <1>4, <1>5, <2>1, <2>2, <2>4 DEF Sound
  <2>6. QED
    BY <1>3, <1>5, <2>1, <2>3, <2>5, ReaderSound
<1>7. CASE ReadEpisodes(r)
  <2>1. PICK more : more = b \cup {Episode(i) : i \in DOMAIN graph[g].episodes}
    OBVIOUS
  <2>2. at' = [at EXCEPT ![r] = "facts"] /\ answer' = answer /\ at[r] # "idle"
        /\ query' = [query EXCEPT ![r].nodes = more]
    BY <1>1, <1>2, <1>7, <2>1 DEF ReadEpisodes, Goes
  <2>3. PICK q : q = [req |-> a, nodes |-> more, facts |-> c]
    OBVIOUS
  <2>4. query' = [query EXCEPT ![r] = q]
    <3>1. query' = [query EXCEPT ![r] = [query[r] EXCEPT !.nodes = more]]
      BY <2>2
    <3>2. [query[r] EXCEPT !.nodes = more] = q
      BY <1>1, <2>3
    <3>3. QED
      BY <3>1, <3>2
  <2>5. IsFiniteSet(more)
    BY <1>3, <1>4, <2>1, EpisodesFinite, FS_Union
  <2>6. Sound("facts", q, old)
    BY <1>4, <1>5, <2>2, <2>3, <2>5 DEF Sound
  <2>7. QED
    BY <1>3, <1>5, <2>2, <2>4, <2>6, ReaderSound
<1>8. CASE ReadFacts(r)
  <2>1. at' = [at EXCEPT ![r] = "idle"] /\ query' = [query EXCEPT ![r].facts = graph[g].facts]
    BY <1>2, <1>8 DEF ReadFacts, Goes
  <2>2. PICK new \in Answers(query[r].req, query[r].nodes, graph[g].facts) :
          answer' = [answer EXCEPT ![r] = new]
    BY <1>2, <1>8 DEF ReadFacts
  <2>3. PICK q : q = [req |-> a, nodes |-> b, facts |-> graph[g].facts]
    OBVIOUS
  <2>4. query' = [query EXCEPT ![r] = q]
    <3>1. query' = [query EXCEPT ![r] = [query[r] EXCEPT !.facts = graph[g].facts]]
      BY <2>1
    <3>2. [query[r] EXCEPT !.facts = graph[g].facts] = q
      BY <1>1, <2>3
    <3>3. QED
      BY <3>1, <3>2
  <2>5. q.req = query[r].req /\ q.nodes = query[r].nodes /\ q.facts = graph[g].facts
    BY <1>1, <2>3
  <2>6. Sound("idle", q, new)
    BY <1>1, <1>3, <1>4, <2>2, <2>5 DEF Sound
  <2>7. QED
    BY <1>3, <2>1, <2>2, <2>4, <2>6, ReaderSound
<1>9. QED
  BY <1>6, <1>7, <1>8

LEMMA ReaderBall ==
  ASSUME KInv, BallInv, NEW r \in Readers, Reads(r)
  PROVE  BallInv'
<1>1. ASSUME ReadFails(r) \/ Forget(r) \/ Deadline(r)
      PROVE  BallInv'
  <2>1. UNCHANGED graph /\ query' = [query EXCEPT ![r] = NoQuery]
    BY <1>1 DEF ReadFails, Forget, Deadline
  <2>2. at' = [at EXCEPT ![r] = "idle"]
    BY <1>1 DEF ReadFails, Forget, Deadline, Goes, KInv, InHand, Coroutines
  <2>3. \E a : answer' = [answer EXCEPT ![r] = a]
    BY <1>1 DEF ReadFails, Forget, Deadline
  <2>4. QED
    BY <2>1, <2>2, <2>3, ReaderStopsSound
<1>2. QED
  BY <1>1, QueryBall, ReadBall DEF Reads

LEMMA LockBall ==
  ASSUME KInv, BallInv, NEW c \in Coroutines, Ensure(c) \/ Build(c)
  PROVE  BallInv'
<1>1. at[c] # "idle" /\ UNCHANGED graph /\ GraphsTyped'
  BY DEF Ensure, Build, BallInv, GraphsTyped
<1>2. CASE c = "ingest"
  <2>1. UNCHANGED <<query, answer>> /\ \E s : at' = [at EXCEPT !["ingest"] = s]
    BY <1>2 DEF Ensure, Build, FailsUse, Goes
  <2>2. \A r \in Readers : at'[r] = at[r]
    BY <2>1, KnowledgeAssumption DEF KInv, InHand, Coroutines
  <2>3. QED
    BY <1>1, <2>1, <2>2, ReadersStay
<1>3. CASE c \in Readers
  <2>1. c # "ingest"
    BY <1>3, KnowledgeAssumption
  <2>2. CASE UNCHANGED <<query, answer>> /\ \E s : at' = [at EXCEPT ![c] = s]
    BY <1>1, <1>3, <2>2, WorksOnSound
  <2>3. CASE FailsUse(c)
    BY <1>1, <1>3, <2>1, <2>3, ReaderStopsSound DEF FailsUse, Goes
  <2>4. QED
    BY <2>2, <2>3 DEF Ensure, Build, Goes
<1>4. QED
  BY <1>2, <1>3 DEF Coroutines

LEMMA IngestBall ==
  ASSUME KInv, BallInv, Ingest
  PROVE  BallInv'
<1>1. UNCHANGED <<query, answer>>
  BY DEF Ingest, Fetch, Handle, AddEpisode, Spool, Ack
<1>2. \A r \in Readers : at'[r] = at[r]
  <2>1. UNCHANGED at \/ \E s : at' = [at EXCEPT !["ingest"] = s]
    BY DEF Ingest, Fetch, Handle, AddEpisode, Spool, Ack, Goes, Uses
  <2>2. QED
    BY <2>1, KnowledgeAssumption DEF KInv, InHand, Coroutines
<1>3. ASSUME NEW found \in Extractions, AddEpisode(found)
      PROVE  GraphsTyped'
  <2>1. PICK g \in Groups : g = Group("ingest")
    BY <1>3, GroupTyped DEF AddEpisode, KInv, Coroutines
  <2>2. PICK i \in Nat : i = Head(feed.batch)
    <3>1. feed.batch # <<>>
      BY <1>3 DEF AddEpisode, KInv, InHand
    <3>2. QED
      BY <3>1, HeadTyped DEF KInv
  <2> DEFINE more == Extracted(graph[g], i, found)
  <2>3. UNCHANGED graph \/ graph' = [graph EXCEPT ![g] = more]
    BY <1>3, <2>1, <2>2 DEF AddEpisode
  <2>4. found \subseteq Concepts \X Concepts
    BY KnowledgeAssumption
  <2>5. more.episodes \in Seq(Nat) /\ more.concepts \subseteq Concepts /\ more.facts \subseteq Concepts \X Concepts
    <3>1. graph[g].episodes \in Seq(Nat) /\ graph[g].concepts \subseteq Concepts
          /\ graph[g].facts \subseteq Concepts \X Concepts
      BY DEF BallInv, GraphsTyped
    <3>2. Append(graph[g].episodes, i) \in Seq(Nat)
      BY <3>1, AppendProperties
    <3>3. {f[1] : f \in found} \subseteq Concepts /\ {f[2] : f \in found} \subseteq Concepts
      BY <2>4
    <3>4. QED
      BY <2>4, <3>1, <3>2, <3>3 DEF Extracted
  <2> HIDE DEF more
  <2>6. QED
    BY <2>3, <2>5 DEF BallInv, GraphsTyped
<1>4. ASSUME UNCHANGED graph
      PROVE  GraphsTyped'
  BY <1>4 DEF BallInv, GraphsTyped
<1>5. GraphsTyped'
  BY <1>3, <1>4 DEF Ingest, Fetch, Handle, Spool, Ack
<1>6. QED
  BY <1>1, <1>2, <1>5, ReadersStay

LEMMA BallNext ==
  ASSUME KInv, BallInv, [KNext]_kvars
  PROVE  BallInv'
<1>1. ASSUME NEW c \in Coroutines, Ensure(c) \/ Build(c)
      PROVE  BallInv'
  BY <1>1, LockBall
<1>2. ASSUME NEW r \in Readers, Reads(r)
      PROVE  BallInv'
  BY <1>2, ReaderBall
<1>3. CASE CrashGraph
  <2>1. GraphsTyped'
    BY <1>3 DEF CrashGraph, BallInv, GraphsTyped
  <2>2. answer' = [r \in Readers |-> NoAnswer]
        /\ \A r \in Readers : at'[r] = "idle" /\ query'[r] = NoQuery
    BY <1>3 DEF CrashGraph, Coroutines
  <2>3. \A r \in Readers : Sound(at'[r], query'[r], answer'[r])
    BY <2>2, NoQuerySound
  <2>4. \A r \in Readers : Sound(at[r], query[r], answer[r])'
    BY <2>3 DEF Sound, Answers, Capped, Chosen
  <2>5. QED
    BY <2>1, <2>2, <2>4 DEF BallInv, ReadersSound
<1>4. CASE StartGraph \/ UNCHANGED kvars \/ \E d \in Documents : Publish(d) \/ UpsertNode(d)
  <2>1. UNCHANGED <<at, graph, query, answer>>
    BY <1>4 DEF StartGraph, kvars, UpsertNode, Publish
  <2>2. GraphsTyped'
    BY <2>1 DEF BallInv, GraphsTyped
  <2>3. QED
    BY <2>1, <2>2, ReadersStay
<1>5. QED
  BY <1>1, <1>2, <1>3, <1>4, IngestBall DEF KNext

\* Whatever is ingested between the three reads of a query, its answer is the
\* nodes a path of at most depth facts leads to from a seed, the cap apart, and
\* no fact of it ends outside (select_subgraph, to_subgraph).
THEOREM AnswersAreAlwaysBalls == KSpec => []AnswersAreBalls
<1>1. KSpec => []BallInv
  BY KInvHolds, BallInit, BallNext, PTL DEF KSpec
<1>2. ASSUME KInv, BallInv
      PROVE  AnswersAreBalls
  <2>1. ASSUME NEW r \in Readers, query[r] # NoQuery, answer[r].kind = "graph"
        PROVE  AnswerIsTheBall(query[r], answer[r])
    <3>1. PICK q, a : q = query[r] /\ a = answer[r]
      OBVIOUS
    <3>2. IsQuery(q) /\ Sound(at[r], q, a)
      BY <1>2, <3>1 DEF KInv, InHand, BallInv, ReadersSound
    <3>3. AnswerIsTheBall(q, a)
      BY <2>1, <3>1, <3>2, AnswersSound DEF Sound
    <3>4. QED
      BY <3>1, <3>3
  <2>2. QED
    BY <2>1 DEF AnswersAreBalls
<1>3. QED
  BY <1>1, <1>2, KInvHolds, PTL
============================================================================
