------------------------------ MODULE Knowledge ------------------------------
(***************************************************************************)
(* The graph service, services/graph: the ingestor that hands each         *)
(* document of MEMORY to Graphiti, the queries that read a project's graph *)
(* beside it, and the lock under which either builds a graph's indexes     *)
(* before its first use.  Ingestor and queries are coroutines of one       *)
(* process: they interleave at each await, and a query is cancelled where  *)
(* it stands when the deadline of its caller passes.                       *)
(*                                                                         *)
(* Simplifications: a document is its project, whether it has a text, and  *)
(* whether its message can be parsed;                                      *)
(* a concept is a number, which also orders the names and the ids.  What   *)
(* Graphiti extracts from a text is one of a few sets of facts; that it    *)
(* may invalidate an older fact is left out.                               *)
(***************************************************************************)
EXTENDS Integers, Durable, FiniteSets, FiniteSetsExt, SequencesExt

CONSTANTS
  Documents,    \* bound: documents published: [project, text, parses]
  Groups, GroupOf,  \* group_id of a project
  Concepts,     \* bound: entities a text may mention
  Extractions,  \* bound: sets of facts <<from, to>> extracted from a text
  Requests,     \* bound: queries: [project, seeds, depth, cap]
  Readers,      \* bound: queries in flight
  DefaultDepth, DefaultNodes, EdgeFloor,  \* 4, 200, 400
  MaxDocs,      \* bound: documents published
  MaxFaults     \* bound: crashes, failed calls and deadlines together

ASSUME KnowledgeAssumption ==
  /\ \A d \in Documents : d.text \in BOOLEAN /\ d.parses \in BOOLEAN
  /\ \A d \in Documents \cup Requests : d.project \in DOMAIN GroupOf \cup {""}
  /\ \A q \in Requests : {q.depth, q.cap} \subseteq Int
  /\ {"ingest", "nobody"} \cap Readers = {}
  /\ GroupOf \in [DOMAIN GroupOf -> Groups] /\ "default" \in DOMAIN GroupOf
  /\ Concepts \subseteq 1 .. 99 /\ Extractions \subseteq SUBSET (Concepts \X Concepts)
  /\ {DefaultDepth, DefaultNodes, EdgeFloor, MaxDocs, MaxFaults} \subseteq Nat

VARIABLES
  docs,     \* memory.write.document: the documents published
  feed,     \* the durable graph-ingest
  engine,   \* what open_engine returned; "down" while the service is
  at,       \* where each coroutine is
  got,      \* the ingestor: whether its document was extracted
  seen,     \* _seen
  spool,    \* documents.jsonl
  holder,   \* who holds _schema_lock
  ready,    \* _ready_databases
  built,    \* how often this process built the indexes of a graph
  graph,    \* FalkorDB: what each graph holds
  query,    \* a reader's request, and what it has read
  answer,   \* what the reader's caller got
  faults

queue == <<docs, feed, seen, spool, got>>
schema == <<holder, ready, built>>
kvars == <<queue, engine, at, schema, graph, query, answer, faults>>

Coroutines == Readers \cup {"ingest"}
Nobody == "nobody"
EmptyGraph == [episodes |-> <<>>, concepts |-> {}, facts |-> {}]
NoRequest == [project |-> "", seeds |-> {}, depth |-> 0, cap |-> 0]
NoQuery == [req |-> NoRequest, nodes |-> {}, facts |-> {}]
NoAnswer == [kind |-> "none", nodes |-> {}, facts |-> {}]
Nothing == [kind |-> "empty", nodes |-> {}, facts |-> {}]

(* A port nobody listens on, no key or model, no library or a store that   *)
(* does not open give the engine that keeps nothing.                       *)
OpenGraphiti(settings, imports) == IF settings /\ imports THEN "graphiti" ELSE "idle"
OpenEngine(port, settings, imports, opens) ==
  IF port /\ opens THEN OpenGraphiti(settings, imports) ELSE "idle"

KInit ==
  /\ docs = <<>> /\ feed = EmptyFeed /\ seen = {} /\ spool = <<>> /\ got = FALSE
  /\ engine = "down" /\ at = [c \in Coroutines |-> "idle"] /\ faults = 0
  /\ holder = Nobody /\ ready = {} /\ built = [g \in Groups |-> 0]
  /\ graph = [g \in Groups |-> EmptyGraph]
  /\ query = [r \in Readers |-> NoQuery] /\ answer = [r \in Readers |-> NoAnswer]

Up == engine # "down"
Fault == faults < MaxFaults /\ faults' = faults + 1
NoFault == faults' = faults
Goes(c, step) == at' = [at EXCEPT ![c] = step]

(* Uploads go to the stream directly; UpsertNode publishes a node that     *)
(* names its project and has a text, and answers the same when it did not. *)
Publish(d) ==
  /\ Len(docs) < MaxDocs /\ docs' = Append(docs, d)
  /\ UNCHANGED <<feed, seen, spool, got, engine, at, schema, graph, query, answer, faults>>
UpsertNode(d) == Up /\ d.project # "" /\ d.text /\ d.parses /\ Publish(d)

(***************************************************************************)
(* The indexes of a graph, built once under the lock all clones share.     *)
(***************************************************************************)
ProjectOf(d) == IF d.project = "" THEN "default" ELSE d.project
Doc == docs[Head(feed.batch)]
Group(c) == GroupOf[IF c = "ingest" THEN ProjectOf(Doc) ELSE query[c].req.project]
Uses(c) == Goes(c, "use")
AfterUse(c) == IF c = "ingest" THEN "extract" ELSE "entities"

LockIgnored(c) == FALSE
LockBusy(c) == holder # Nobody

Ensure(c) ==
  /\ at[c] = "use" /\ ~LockBusy(c)
  /\ IF Group(c) \in ready
     THEN Goes(c, AfterUse(c)) /\ UNCHANGED holder
     ELSE Goes(c, "build") /\ holder' = c
  /\ UNCHANGED <<queue, engine, ready, built, graph, query, answer, faults>>

(* An error of the build: the ingestor gives the document up, a query      *)
(* answers with nothing.                                                   *)
FailsUse(c) ==
  IF c = "ingest" THEN Goes(c, "spool") /\ UNCHANGED <<query, answer>>
  ELSE /\ Goes(c, "idle") /\ answer' = [answer EXCEPT ![c] = Nothing]
       /\ query' = [query EXCEPT ![c] = NoQuery]

Build(c) ==
  /\ at[c] = "build" /\ holder' = Nobody
  /\ \/ /\ ready' = ready \cup {Group(c)} /\ built' = [built EXCEPT ![Group(c)] = @ + 1]
        /\ Goes(c, AfterUse(c)) /\ NoFault /\ UNCHANGED <<query, answer>>
     \/ Fault /\ FailsUse(c) /\ UNCHANGED <<ready, built>>
  /\ UNCHANGED <<queue, engine, graph>>

(***************************************************************************)
(* The ingestor.                                                           *)
(***************************************************************************)
Fetch ==
  /\ Up /\ feed.batch = <<>> /\ feed' \in Fetches(feed, Len(docs))
  /\ UNCHANGED <<docs, seen, spool, got, engine, at, schema, graph, query, answer, faults>>

(* A message that cannot be parsed, or a document of this run that came    *)
(* before, is only acked.  The idle engine and a document without a text   *)
(* have nothing to extract, and succeed.                                   *)
OnlyAcked == ~Doc.parses \/ Head(feed.batch) \in seen

Handle ==
  /\ Up /\ feed.batch # <<>> /\ at["ingest"] = "idle"
  /\ got' = (~OnlyAcked /\ (engine = "idle" \/ ~Doc.text))
  /\ IF OnlyAcked THEN Goes("ingest", "ack")
     ELSE IF got' THEN Goes("ingest", "spool") ELSE Uses("ingest")
  /\ UNCHANGED <<docs, feed, seen, spool, engine, schema, graph, query, answer, faults>>

(* add_episode keeps the text as an episode and adds the facts found in    *)
(* it.  It may have written what it raises for.                            *)
Extracted(g, i, found) ==
  [episodes |-> Append(g.episodes, i),
   concepts |-> g.concepts \cup {f[1] : f \in found} \cup {f[2] : f \in found},
   facts |-> g.facts \cup found]

AddEpisode(found) ==
  /\ at["ingest"] = "extract"
  /\ LET written == [graph EXCEPT ![Group("ingest")] = Extracted(@, Head(feed.batch), found)] IN
       \/ graph' = written /\ got' = TRUE /\ NoFault
       \/ graph' \in {graph, written} /\ got' = FALSE /\ Fault
  /\ Goes("ingest", "spool")
  /\ UNCHANGED <<docs, feed, seen, spool, engine, schema, query, answer>>

(* Extracted or not, the document is written down as handled. *)
ForgetsSeen ==
  /\ at["ingest"] = "spool"
  /\ spool' = Append(spool, Head(feed.batch)) /\ Goes("ingest", "ack")
  /\ UNCHANGED <<docs, feed, seen, got, engine, schema, graph, query, answer, faults>>
Spool ==
  /\ at["ingest"] = "spool"
  /\ spool' = Append(spool, Head(feed.batch)) /\ seen' = seen \cup {Head(feed.batch)}
  /\ Goes("ingest", "ack")
  /\ UNCHANGED <<docs, feed, got, engine, schema, graph, query, answer, faults>>

Ack ==
  /\ at["ingest"] = "ack" /\ Goes("ingest", "idle")
  /\ feed' \in {Acked(feed), AckLost(feed)}
  /\ UNCHANGED <<docs, seen, spool, got, engine, schema, graph, query, answer, faults>>

(***************************************************************************)
(* select_subgraph and to_subgraph over rows of nodes and of facts.        *)
(***************************************************************************)
Episode(i) == 100 + i
IsEpisode(n) == n > 100
Root == 0

Adjacent(facts, n) == {m \in Concepts : <<n, m>> \in facts \/ <<m, n>> \in facts}
OneWay(facts, n) == {m \in Concepts : <<n, m>> \in facts}
Neighbours(facts, n) == Adjacent(facts, n)

(* The search goes on from the nodes of its last step only, and is over    *)
(* when a step finds no new node: later steps change nothing.              *)
Search(chosen, frontier) == [chosen |-> chosen, frontier |-> frontier]
Step(facts, s) == (UNION {Neighbours(facts, n) : n \in s.frontier}) \ s.chosen
Hop(facts, s) ==
  IF Step(facts, s) = {} THEN s
  ELSE Search(s.chosen \cup Step(facts, s), Step(facts, s))

Around(starts, facts, hops) ==
  LET search[i \in 0 .. hops] ==
        IF i = 0 THEN Search(starts, starts) ELSE Hop(facts, search[i - 1])
  IN search[hops].chosen

Or(value, default) == IF value > 0 THEN value ELSE default
Whole(req) == Root \in req.seeds \/ req.seeds = {}
Starts(req, nodes) == req.seeds \cap nodes

Chosen(req, nodes, facts) ==
  IF Whole(req) THEN nodes
  ELSE Around(Starts(req, nodes), {f \in facts : {f[1], f[2]} \subseteq nodes}, Or(req.depth, DefaultDepth))

(* Beyond the cap, episodes go before concepts in the answer for a whole   *)
(* graph, and the starts, in no order, before the others in one around     *)
(* them.                                                                   *)
Ranks(req, starts, m, n) ==
  IF Whole(req)
  THEN IF IsEpisode(m) = IsEpisode(n) THEN m < n ELSE IsEpisode(m)
  ELSE (m \in starts /\ n \notin starts) \/ ({m, n} \cap starts = {} /\ m < n)

Capped(req, nodes, facts) ==
  LET chosen == Chosen(req, nodes, facts)
      limit == Or(req.cap, DefaultNodes)
  IN IF Cardinality(chosen) <= limit THEN {chosen}
     ELSE {kept \in kSubset(limit, chosen) :
             \A n \in kept : \A m \in chosen \ kept : ~Ranks(req, Starts(req, nodes), m, n)}

FactsAmong(facts, kept) == {f \in facts : {f[1], f[2]} \subseteq kept /\ f[1] # f[2]}

(* Of the facts among the nodes kept, as many as the limit of edges allows. *)
Answers(req, nodes, facts) ==
  UNION {LET among == FactsAmong(facts, kept)
             most == Max({EdgeFloor, 4 * Or(req.cap, DefaultNodes)})
         IN {[kind |-> "graph", nodes |-> kept, facts |-> some] :
               some \in kSubset(Min({most, Cardinality(among)}), among)} :
         kept \in Capped(req, nodes, facts)}

(***************************************************************************)
(* Queries.                                                                *)
(***************************************************************************)
QuerySubgraph(r, req) ==
  /\ Up /\ at[r] = "idle" /\ query[r] = NoQuery
  /\ IF engine = "idle" \/ req.project = ""
     THEN answer' = [answer EXCEPT ![r] = Nothing] /\ UNCHANGED <<at, query>>
     ELSE /\ Uses(r) /\ query' = [query EXCEPT ![r] = [NoQuery EXCEPT !.req = req]]
          /\ answer' = [answer EXCEPT ![r] = NoAnswer]
  /\ UNCHANGED <<queue, engine, schema, graph, faults>>

(* Three reads of the graph, an await each; an error of one is an answer   *)
(* with nothing in it.                                                     *)
ReadFails(r) ==
  /\ at[r] \in {"entities", "episodes", "facts"} /\ Fault
  /\ Goes(r, "idle") /\ query' = [query EXCEPT ![r] = NoQuery]
  /\ answer' = [answer EXCEPT ![r] = Nothing]
  /\ UNCHANGED <<queue, engine, schema, graph>>

ReadEntities(r) ==
  /\ at[r] = "entities" /\ Goes(r, "episodes")
  /\ query' = [query EXCEPT ![r].nodes = graph[Group(r)].concepts]
  /\ UNCHANGED <<queue, engine, schema, graph, answer, faults>>

ReadEpisodes(r) ==
  /\ at[r] = "episodes" /\ Goes(r, "facts")
  /\ query' = [query EXCEPT ![r].nodes =
                 @ \cup {Episode(i) : i \in DOMAIN graph[Group(r)].episodes}]
  /\ UNCHANGED <<queue, engine, schema, graph, answer, faults>>

ReadFacts(r) ==
  /\ at[r] = "facts" /\ Goes(r, "idle")
  /\ query' = [query EXCEPT ![r].facts = graph[Group(r)].facts]
  /\ \E a \in Answers(query[r].req, query[r].nodes, graph[Group(r)].facts) :
       answer' = [answer EXCEPT ![r] = a]
  /\ UNCHANGED <<queue, engine, schema, graph, faults>>

Forget(r) ==
  /\ at[r] = "idle" /\ query[r] # NoQuery
  /\ query' = [query EXCEPT ![r] = NoQuery] /\ answer' = [answer EXCEPT ![r] = NoAnswer]
  /\ UNCHANGED <<queue, engine, at, schema, graph, faults>>

(* The caller's deadline: the client answers with nothing, or raises when  *)
(* strict; the server cancels the coroutine, which gives the lock up.      *)
Deadline(r) ==
  /\ at[r] # "idle" /\ Fault
  /\ Goes(r, "idle") /\ query' = [query EXCEPT ![r] = NoQuery]
  /\ answer' \in {[answer EXCEPT ![r] = a] : a \in {Nothing, [Nothing EXCEPT !.kind = "error"]}}
  /\ holder' = IF holder = r THEN Nobody ELSE holder
  /\ UNCHANGED <<queue, engine, ready, built, graph>>

(***************************************************************************)
(* The process.                                                            *)
(***************************************************************************)
CrashGraph ==
  /\ Up /\ Fault /\ engine' = "down"
  /\ feed' = Dropped(feed) /\ seen' = {} /\ got' = FALSE
  /\ at' = [c \in Coroutines |-> "idle"] /\ holder' = Nobody /\ ready' = {}
  /\ built' = [g \in Groups |-> 0]
  /\ query' = [r \in Readers |-> NoQuery] /\ answer' = [r \in Readers |-> NoAnswer]
  /\ UNCHANGED <<docs, spool, graph>>

StartGraph ==
  /\ ~Up
  /\ \E port, settings, imports, opens \in BOOLEAN :
       /\ engine' = OpenEngine(port, settings, imports, opens)
       /\ IF engine' = "graphiti" THEN NoFault ELSE Fault
  /\ UNCHANGED <<queue, at, schema, graph, query, answer>>

Ingest == Fetch \/ Handle \/ (\E f \in Extractions : AddEpisode(f)) \/ Spool \/ Ack
Reads(r) ==
  \/ \E req \in Requests : QuerySubgraph(r, req)
  \/ ReadFails(r) \/ ReadEntities(r) \/ ReadEpisodes(r) \/ ReadFacts(r) \/ Forget(r)
  \/ Deadline(r)

KNext ==
  \/ \E d \in Documents : Publish(d) \/ UpsertNode(d)
  \/ \E c \in Coroutines : Ensure(c) \/ Build(c)
  \/ Ingest \/ (\E r \in Readers : Reads(r))
  \/ CrashGraph \/ StartGraph

KSpec == KInit /\ [][KNext]_kvars

(***************************************************************************)
(* While nothing but acks is lost every document acked is in the graph of  *)
(* its project exactly once, if it parses and has a text, however often it *)
(* comes, and never if not; and no graph ever holds a document of another  *)
(* project.                                                                *)
(***************************************************************************)
Copies(g, i) == Cardinality({k \in DOMAIN graph[g].episodes : graph[g].episodes[k] = i})
QuietDocumentIsOnce ==
  \A i \in DOMAIN docs : \A g \in Groups :
    /\ g # GroupOf[ProjectOf(docs[i])] => Copies(g, i) = 0
    /\ faults = 0 => Copies(g, i) <= (IF docs[i].parses THEN 1 ELSE 0)
    /\ faults = 0 /\ i \in Settled(feed) /\ docs[i].parses /\ docs[i].text
       /\ g = GroupOf[ProjectOf(docs[i])]
         => Copies(g, i) = 1

(***************************************************************************)
(* However ingestion and queries interleave, and wherever a query is       *)
(* cancelled, a process builds the indexes of a graph once at most, and    *)
(* nobody reads or writes a graph before they are there.                   *)
(***************************************************************************)
IndexedOnceBeforeUse ==
  /\ \A g \in Groups : built[g] <= 1
  /\ \A c \in Coroutines :
       at[c] \in {"extract", "entities", "episodes", "facts"} => Group(c) \in ready

(***************************************************************************)
(* Answers are made of three reads with documents coming in between.  One  *)
(* holds a fact only between two different nodes it holds itself, no more  *)
(* nodes than asked for, and, where the cap is not reached, the nodes some *)
(* path of at most depth facts leads to from a seed, and only these.       *)
(***************************************************************************)
Leads(facts, nodes, hops, from, to) ==
  \E path \in [0 .. hops -> nodes] :
    /\ path[0] = from /\ path[hops] = to
    /\ \A i \in 1 .. hops : \/ path[i - 1] = path[i]
                            \/ <<path[i - 1], path[i]>> \in facts
                            \/ <<path[i], path[i - 1]>> \in facts

AnswerIsTheBall(q, a) ==
  LET limit == Or(q.req.cap, DefaultNodes)
      hops == Or(q.req.depth, DefaultDepth)
      ball == IF Whole(q.req) THEN q.nodes
              ELSE {n \in q.nodes : \E s \in q.req.seeds \cap q.nodes :
                                      Leads(q.facts, q.nodes, hops, s, n)}
  IN /\ \A f \in a.facts : f[1] # f[2] /\ {f[1], f[2]} \subseteq a.nodes
     /\ a.nodes \subseteq ball
     /\ Cardinality(a.nodes) = Min({limit, Cardinality(ball)})
     /\ a.nodes \in {{}, ball} \/ q.req.seeds \cap ball \subseteq a.nodes
        \/ Whole(q.req) \/ a.nodes \subseteq q.req.seeds

AnswersAreBalls ==
  \A r \in Readers : query[r] # NoQuery /\ answer[r].kind = "graph"
                       => AnswerIsTheBall(query[r], answer[r])
=============================================================================
