---------------------------- MODULE MemoryService ----------------------------
(***************************************************************************)
(* The memory service, services/memory: the distiller that turns a closed  *)
(* session into one episode for each agent of it, the write consumer that  *)
(* stores the episodes, and what the recall responder and the graph view   *)
(* answer from them.  One process runs all three; it may crash and be      *)
(* started again, and then the distiller replays the SESSIONS stream, as   *)
(* far as its fetches go, before its durable goes on where it was.         *)
(*                                                                         *)
(* Simplifications: a message has a text and is the number it has in its   *)
(* session; a line is a message with its speaker.  Scores are left out: a  *)
(* search ranks the points in any order.                                   *)
(***************************************************************************)
EXTENDS Durable, FiniteSets, SequencesExt

CONSTANTS
  Sessions, Agents, Projects,
  Members,      \* the agents of a session, in the order of its opened event
  ProjectOf,    \* the swarm_id of a session
  Requests,     \* bound: recall requests tried
  Stable,       \* role, rule and principle rows an agent has; external
  BackendName,  \* MEMORY_BACKEND
  MaxMessages,  \* bound: messages of a session
  MaxLines,     \* _MAX_LINES
  NodeCap,      \* _NODE_CAP
  MaxFaults     \* bound: crashes, lost acks and failed calls together

ASSUME MemoryAssumption ==
  /\ Members \in [Sessions -> Seq(Agents)] /\ ProjectOf \in [Sessions -> Projects]
  /\ Stable \in [Agents -> Nat]
  /\ MaxMessages \in [Sessions -> Nat] /\ MaxLines \in Nat
  /\ NodeCap \in Nat \ {0}
  /\ Requests \subseteq [agent : Agents, project : Projects \cup {""}, query : BOOLEAN,
                         topK : Nat, depth : {"full", "principles", "episodes"}]
  /\ MaxFaults \in Nat

VARIABLES
  stream,   \* SESSIONS: the events of all sessions
  feed,     \* the durable memory-distiller: next, out (delivered, not acked), batch
  known,    \* sessions of _participants
  lines,    \* _lines
  fan,      \* agents the closed event at hand has still to be published to
  closing,  \* whether a closed event is at hand
  writes,   \* MEMORY: the episodes published
  wfeed,    \* the durable memory-write-episode
  at,       \* where the write consumer is with the head of its batch
  seen,     \* _seen
  spool,    \* episodes.jsonl: the writes in it
  rows,     \* agent_memory: the write an (agent, session) row comes from; 0: no row
  points,   \* the same of the vectors
  unstored, \* writes handled without being stored, as the log says
  backend,  \* what build_backend returned; "down" while the service is
  faults    \* faults so far

dvars == <<feed, known, lines, fan, closing>>
wvars == <<wfeed, at, seen, spool, rows, points, unstored>>
mvars == <<stream, writes, dvars, wvars, backend, faults>>

Keys == Agents \X Sessions
Nothing == [s \in Sessions |-> <<>>]

(* build_backend: what is not canned needs its stores, and has to open. *)
BuildBackend(name, reachable, opens) ==
  IF name = "canned" \/ (name \in {"agent", "mem0", "graphiti"} /\ reachable /\ opens)
  THEN name ELSE "degraded"

MInit ==
  /\ stream = <<>> /\ writes = <<>> /\ faults = 0
  /\ feed = EmptyFeed /\ known = {} /\ lines = Nothing /\ fan = <<>> /\ closing = FALSE
  /\ wfeed = EmptyFeed /\ at = "idle" /\ seen = {} /\ spool = <<>>
  /\ rows = [k \in Keys |-> 0] /\ points = [k \in Keys |-> 0]
  /\ unstored = {}
  /\ \E r, o \in BOOLEAN : backend = BuildBackend(BackendName, r, o)

Up == backend # "down"
MayFail == faults < MaxFaults
Fault == MayFail /\ faults' = faults + 1
NoFault == faults' = faults

(***************************************************************************)
(* The sessions, as their actors publish them.                             *)
(***************************************************************************)
Says(s) == {i \in DOMAIN stream : stream[i].session = s /\ stream[i].kind = "message"}
Happened(s, kind) == \E i \in DOMAIN stream : stream[i].session = s /\ stream[i].kind = kind

Emit(s, kind, n) ==
  /\ stream' = Append(stream, [session |-> s, kind |-> kind, n |-> n])
  /\ UNCHANGED <<writes, dvars, wvars, backend, faults>>

Open(s) == ~Happened(s, "opened") /\ Emit(s, "opened", 0)
Say(s) ==
  /\ Happened(s, "opened") /\ ~Happened(s, "closed")
  /\ Cardinality(Says(s)) < MaxMessages[s] /\ Emit(s, "message", Cardinality(Says(s)) + 1)
Close(s) == Happened(s, "opened") /\ ~Happened(s, "closed") /\ Emit(s, "closed", 0)

(***************************************************************************)
(* The distiller.                                                          *)
(***************************************************************************)
Holds(participants, bucket) == [known |-> participants, lines |-> bucket]

ApplyRoster(m, e) ==
  CASE e.kind = "opened" -> Holds(m.known \cup {e.session}, m.lines)
    [] e.kind = "closed" ->
         Holds(m.known \ {e.session}, [m.lines EXCEPT ![e.session] = <<>>])
    [] OTHER -> m

Full(bucket) == Len(bucket) >= MaxLines

Note(m, e) ==
  IF e.kind = "message" /\ e.session \in m.known /\ ~Full(m.lines[e.session])
  THEN Holds(m.known, [m.lines EXCEPT ![e.session] = Append(@, e.n)]) ELSE m

Remember(m, e) == Note(ApplyRoster(m, e), e)
Holding == Holds(known, lines)
Event == stream[Head(feed.batch)]

FetchSessions ==
  /\ Up /\ feed.batch = <<>>
  /\ feed' \in Fetches(feed, Len(stream))
  /\ UNCHANGED <<stream, writes, known, lines, fan, closing, wvars, backend, faults>>

EventDone ==
  /\ LET m == Remember(Holding, Event) IN known' = m.known /\ lines' = m.lines
  /\ \/ feed' = Acked(feed) /\ NoFault
     \/ feed' = AckLost(feed) /\ Fault

Handle ==
  /\ Up /\ feed.batch # <<>> /\ Event.kind # "closed"
  /\ EventDone
  /\ UNCHANGED <<stream, writes, fan, closing, wvars, backend>>

FirstAgent(s) == SubSeq(Members[s], 1, 1)
FanOut(s) == IF s \in known /\ lines[s] # <<>> THEN Members[s] ELSE <<>>

(* A closed event: the agents known for its session are published to, one  *)
(* await each; without a line there is nothing to publish.                 *)
Distill ==
  /\ Up /\ feed.batch # <<>> /\ Event.kind = "closed" /\ ~closing
  /\ closing' = TRUE
  /\ fan' = FanOut(Event.session)
  /\ UNCHANGED <<stream, writes, feed, known, lines, wvars, backend, faults>>

Publish ==
  /\ Up /\ closing /\ fan # <<>>
  /\ fan' = Tail(fan)
  /\ \/ /\ writes' = Append(writes, [agent |-> Head(fan), session |-> Event.session,
                                     project |-> ProjectOf[Event.session],
                                     lines |-> lines[Event.session]])
        /\ NoFault
     \/ writes' = writes /\ Fault
  /\ UNCHANGED <<stream, feed, known, lines, closing, wvars, backend>>

Closed ==
  /\ Up /\ closing /\ fan = <<>>
  /\ closing' = FALSE /\ EventDone
  /\ UNCHANGED <<stream, writes, fan, wvars, backend>>

(***************************************************************************)
(* The write consumer and the store of the agent backend.                  *)
(***************************************************************************)
Write == Head(wfeed.batch)
Key(i) == <<writes[i].agent, writes[i].session>>

FetchWrites ==
  /\ Up /\ wfeed.batch = <<>>
  /\ wfeed' \in Fetches(wfeed, Len(writes))
  /\ UNCHANGED <<stream, writes, dvars, at, seen, spool, rows, points, unstored, backend, faults>>

InFile(w) == w \in Range(spool)
Came(w) == w \in seen

(* A write of this run that came before is only acked; a new one is        *)
(* spooled, and stored if there is a backend that stores.                  *)
Spool ==
  /\ Up /\ wfeed.batch # <<>> /\ at = "idle"
  /\ IF Came(Write)
     THEN at' = "ack" /\ UNCHANGED <<seen, spool, unstored>>
     ELSE /\ spool' = Append(spool, Write) /\ seen' = seen \cup {Write}
          /\ IF backend = "agent" THEN at' = "row" /\ UNCHANGED unstored
             ELSE at' = "ack" /\ unstored' = unstored \cup {Write}
  /\ UNCHANGED <<stream, writes, dvars, wfeed, rows, points, backend, faults>>

AfterStore(step) == IF step = "row" THEN "vector" ELSE "ack"
GoesOn(step) == AfterStore(step)
AfterFailure(step) == "ack"

(* _write_sync: the row, then the vector; an error of either is logged,    *)
(* and the write is acked all the same.                                    *)
Store ==
  /\ Up /\ at \in {"row", "vector"}
  /\ \/ /\ IF at = "row"
           THEN rows' = [rows EXCEPT ![Key(Write)] = Write] /\ UNCHANGED points
           ELSE points' = [points EXCEPT ![Key(Write)] = Write] /\ UNCHANGED rows
        /\ at' = AfterStore(at) /\ NoFault /\ UNCHANGED unstored
     \/ /\ Fault /\ at' = AfterFailure(at) /\ unstored' = unstored \cup {Write}
        /\ UNCHANGED <<rows, points>>
  /\ UNCHANGED <<stream, writes, dvars, wfeed, seen, spool, backend>>

ForgetsAck ==
  /\ Up /\ at = "ack" /\ at' = "idle" /\ wfeed' = AckLost(wfeed)
  /\ UNCHANGED <<stream, writes, dvars, seen, spool, rows, points, unstored, backend, faults>>
AckWrite ==
  /\ Up /\ at = "ack"
  /\ at' = "idle"
  /\ \/ wfeed' = Acked(wfeed) /\ NoFault
     \/ wfeed' = AckLost(wfeed) /\ Fault
  /\ UNCHANGED <<stream, writes, dvars, seen, spool, rows, points, unstored, backend>>

(***************************************************************************)
(* The process.  _recover_participants replays the stream from its start,  *)
(* until a fetch brings nothing: that is its end, or a fetch that failed   *)
(* or took too long.                                                       *)
(***************************************************************************)
Crash ==
  /\ Up /\ Fault
  /\ backend' = "down"
  /\ known' = {} /\ lines' = Nothing /\ fan' = <<>> /\ closing' = FALSE
  /\ feed' = Dropped(feed)
  /\ wfeed' = Dropped(wfeed) /\ at' = "idle" /\ seen' = {}
  /\ UNCHANGED <<stream, writes, spool, rows, points, unstored>>

Replayed(n) ==
  LET upTo[i \in 0 .. n] ==
        IF i = 0 THEN Holds({}, Nothing) ELSE Remember(upTo[i - 1], stream[i])
  IN upTo[n]

Start ==
  /\ ~Up
  /\ \E r, o \in BOOLEAN : backend' = BuildBackend(BackendName, r, o)
  /\ \E n \in 0 .. Len(stream) :
       /\ known' = Replayed(n).known /\ lines' = Replayed(n).lines
       /\ IF n = Len(stream) THEN NoFault ELSE Fault
  /\ UNCHANGED <<stream, writes, feed, fan, closing, wvars>>

Distiller == FetchSessions \/ Handle \/ Distill \/ Publish \/ Closed
Writer == FetchWrites \/ Spool \/ Store \/ AckWrite
Talk == \E s \in Sessions : Open(s) \/ Say(s) \/ Close(s)

MNext == Talk \/ Distiller \/ Writer \/ Crash \/ Start

MSpec == MInit /\ [][MNext]_mvars

(* Both consumers loop for ever while the process is up; nothing starts it *)
(* again but whoever runs it.                                              *)
MFairSpec == MSpec /\ WF_mvars(Distiller) /\ WF_mvars(Writer)

(***************************************************************************)
(* What is answered from the store.  A request: [agent, project ("" for    *)
(* none), query (whether there is a query text), topK, depth].             *)
(***************************************************************************)
Episode(k, i) == [kind |-> "episode", agent |-> k[1], session |-> k[2], write |-> i]
Principle(a, n) == [kind |-> "principle", agent |-> a, session |-> "", write |-> n]

AnyAgent(hit, req) == req.project = "" \/ writes[hit.write].project = req.project
Fits(hit, req) ==
  hit.agent = req.agent /\ (req.project = "" \/ writes[hit.write].project = req.project)

Stored(table) == {Episode(k, table[k]) : k \in {k2 \in Keys : table[k2] # 0}}
Limit(req) == IF req.topK = 0 THEN 5 ELSE req.topK
First(n, items) == SubSeq(items, 1, IF n < Len(items) THEN n ELSE Len(items))

(* _recall_sync: the points that fit, ranked, or the rows that do, in their *)
(* order, behind the agent's rows of other kinds.                           *)
Table(req) == IF req.query THEN points ELSE rows
Fitting(req) == {h \in Stored(Table(req)) : Fits(h, req)}
Found(req, ranking) == IF req.query THEN First(Limit(req), ranking) ELSE ranking
StableOf(req) == [n \in 1 .. Stable[req.agent] |-> Principle(req.agent, n)]

Assemble(req, others, episodes) ==
  First(Limit(req), (IF req.depth = "episodes" THEN <<>> ELSE others)
                    \o (IF req.depth = "principles" THEN <<>> ELSE episodes))

Canned(req) ==
  Assemble(req, [n \in 1 .. 3 |-> Principle(req.agent, n)],
           <<[kind |-> "episode", agent |-> req.agent, session |-> "", write |-> 0]>>)

(* RecallResponder: an agent backend that fails is answered for by canned. *)
Reply(req, ranking, fails) ==
  IF backend = "agent" /\ ~fails
  THEN [items |-> Assemble(req, StableOf(req), Found(req, ranking)), degraded |-> FALSE]
  ELSE [items |-> Canned(req), degraded |-> backend # "canned"]

(* graph_view: the agent, and an edge to each episode that has its node. *)
RowsOf(a) == {it \in Stored(rows) : it.agent = a}
GraphView(a, order) ==
  LET shown == First(NodeCap - 1, order)
  IN [nodes |-> {<<a>>} \cup {<<a, shown[i].session>> : i \in DOMAIN shown},
      edges |-> {<<a, shown[i].session>> : i \in DOMAIN shown}]

(***************************************************************************)
(* Properties.                                                             *)
(***************************************************************************)
(* The variables have their types; a batch is of messages not acked yet;   *)
(* lines are held of known sessions only, and never beyond the cap.        *)
MemoryTypeOK ==
  /\ FeedType(feed, Len(stream)) /\ FeedType(wfeed, Len(writes))
  /\ \A f \in {feed, wfeed} : Range(f.batch) \subseteq f.out
  /\ known \subseteq Sessions /\ lines \in [Sessions -> Seq(Nat)]
  /\ \A s \in Sessions : Len(lines[s]) <= (IF s \in known THEN MaxLines ELSE 0)
  /\ fan \in Seq(Agents) /\ closing \in BOOLEAN
  /\ at \in {"idle", "row", "vector", "ack"} /\ seen \subseteq 1 .. Len(writes)
  /\ unstored \subseteq 1 .. Len(writes)
  /\ spool \in Seq(1 .. Len(writes))
  /\ rows \in [Keys -> 0 .. Len(writes)] /\ points \in [Keys -> 0 .. Len(writes)]
  /\ backend \in {"down", "degraded", BackendName} /\ faults \in 0 .. MaxFaults

(* While nothing failed, the episode of each agent is the transcript: all  *)
(* lines of its session in order, up to the cap, once, and only when the   *)
(* session has closed; and no agent is left out once the close is handled. *)
FirstLines(n) == [i \in 1 .. (IF n < MaxLines THEN n ELSE MaxLines) |-> i]
Transcript(s) == FirstLines(Cardinality(Says(s)))
EpisodesOf(a, s) == {i \in DOMAIN writes : writes[i].agent = a /\ writes[i].session = s}
CloseHandled(s) ==
  \E i \in Settled(feed) : stream[i].session = s /\ stream[i].kind = "closed"
IsTranscript(i) == /\ Happened(writes[i].session, "closed")
                   /\ writes[i].lines = Transcript(writes[i].session)
QuietEpisodeIsTranscript ==
  faults = 0 =>
    /\ \A i \in DOMAIN writes : IsTranscript(i)
    /\ \A s \in Sessions : CloseHandled(s) /\ Transcript(s) # <<>> =>
         \A a \in Range(Members[s]) : Cardinality(EpisodesOf(a, s)) = 1

(* Each vector has its row, whatever failed between the two writes. *)
EveryPointHasItsRow == \A k \in Keys : points[k] # 0 => rows[k] # 0

(* An answer that is not marked degraded, unless canned answers were asked *)
(* for, has no episode but the agent's own of the project asked for, of    *)
(* sessions that it took part in and that have closed, and has them all    *)
(* when there is room; its graph shows no other.                           *)
Own(a, p, table) ==
  {h \in Stored(table) : /\ h.agent = a /\ a \in Range(Members[h.session])
                        /\ Happened(h.session, "closed")
                        /\ (p = "" \/ ProjectOf[h.session] = p)}
OwnAnswer(req, reply) ==
  LET own == Own(req.agent, req.project, Table(req))
      episodes == {it \in Range(reply.items) : it.kind = "episode"}
      room == Cardinality(own) + (IF req.depth = "full" THEN Stable[req.agent] ELSE 0)
  IN /\ Len(reply.items) <= Limit(req)
     /\ ~reply.degraded /\ backend # "canned" =>
          /\ episodes \subseteq own
          /\ req.depth # "principles" /\ room <= Limit(req) => episodes = own
OwnGraph(a, view) ==
  \A edge \in view.edges : edge[1] = a /\ a \in Range(Members[edge[2]])
AnswersAreOwn ==
  \A req \in Requests :
    /\ \A ranking \in SetToSeqs(Fitting(req)) : OwnAnswer(req, Reply(req, ranking, FALSE))
    /\ \A order \in SetToSeqs(RowsOf(req.agent)) : OwnGraph(req.agent, GraphView(req.agent, order))

(* No episode leaves the queue unnoticed: one that is acked is in the      *)
(* spool, and has its row and its vector unless the log says that it was   *)
(* not stored, through crashes between the spool, the two writes and the   *)
(* ack, after which the same write comes again to a process without memory *)
(* of it.                                                                  *)
IsStored(i) == rows[Key(i)] # 0 /\ points[Key(i)] # 0
AckedIsStoredOrLogged ==
  \A i \in Settled(wfeed) : i \in Range(spool) /\ (IsStored(i) \/ i \in unstored)

(* If the process is always up again, every episode published is acked in  *)
(* the end, across crashes and lost acks; with AckedIsStoredOrLogged, it   *)
(* is then in the store, or lost with a line in the log.                   *)
EveryWriteSettles ==
  []<>Up => \A i \in 1 .. Cardinality(Keys) : i \in DOMAIN writes ~> i \in Settled(wfeed)

(* "The episode is the sentence-by-sentence record of this session." *)
EpisodeIsTheTranscript == \A i \in DOMAIN writes : IsTranscript(i)
==============================================================================
