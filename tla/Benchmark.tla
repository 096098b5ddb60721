------------------------------ MODULE Benchmark ------------------------------
(***************************************************************************)
(* The memory benchmark, loop_mem_benchmark: for each memory, one          *)
(* conversation after another is stored and its questions are put to the   *)
(* same ReAct loop; what its first search returned is scored, and the      *)
(* systems are compared.                                                   *)
(*                                                                         *)
(* Simplifications: a chunk is [convo, id, norms, rels]: the entities and  *)
(* the relations the extractor finds in it.  A query is the set of norms   *)
(* in it; a distance is a rank.  Rates are sums over the same questions,   *)
(* recall counted in parts of Unit.  The kuzu-memory library answers with  *)
(* any chunks it stores; vector_rag is not in the repository.              *)
(***************************************************************************)
EXTENDS Naturals, Sequences, FiniteSets, SequencesExt, FiniteSetsExt, Lists

CONSTANTS
  Samples,     \* the data file: [sessions, qa] of each conversation, in order
  Categories,  \* categories asked for; keys of CATEGORY_NAMES
  Systems,     \* the systems, in the order of the report
  K,           \* k
  MaxSteps,    \* max_steps
  Idf,         \* weights of the degrees 0, 1, ..., decreasing
  MaxDegree,   \* _EXPAND_MAX_DEGREE
  Unit,        \* parts of a question's recall
  Window       \* bound: chunks in an answer of the kuzu-memory library

\* The turns of a conversation: <<session, turn>>, as the file lists them.
Turns(c) == UNION {{i} \X DOMAIN Samples[c].sessions[i].turns : i \in DOMAIN Samples[c].sessions}
TurnAt(c, p) == Samples[c].sessions[p[1]].turns[p[2]]

ASSUME BenchmarkAssumption ==
  /\ K \in Nat \ {0} /\ MaxSteps \in Nat \ {0} /\ Unit \in Nat \ {0} /\ Window \in Nat
  /\ MaxDegree \in Nat /\ Categories \subseteq 1 .. 5
  /\ Systems \in Seq({"kuzu_memory", "graph_kuzu", "poincare"}) \ {<<>>} /\ IsInjective(Systems)
  /\ Idf \in Seq(Nat) \ {<<>>} /\ \A d \in DOMAIN Idf : Idf[d] <= Idf[1]
  /\ Samples \in Seq(Range(Samples)) \ {<<>>}

\* A session is numbered once, and a turn named once, in a conversation.
ASSUME SamplesAssumption ==
  \A c \in DOMAIN Samples :
    LET sessions == Samples[c].sessions
    IN /\ sessions \in Seq(Range(sessions)) /\ Samples[c].qa \in Seq(Range(Samples[c].qa))
       /\ \A i \in DOMAIN sessions :
            /\ sessions[i].number \in Nat /\ sessions[i].turns \in Seq(Range(sessions[i].turns))
            /\ \A j \in DOMAIN sessions : sessions[i].number = sessions[j].number => i = j
       /\ \A p \in Turns(c) :
            /\ IsFiniteSet(TurnAt(c, p).norms)
            /\ \A q \in Turns(c) : TurnAt(c, p).id = TurnAt(c, q).id => p = q

VARIABLES
  mode,    \* client_mode
  system,  \* the system at work
  convo,   \* its conversation at work
  asking,  \* the question at work; 0: the conversation is not stored yet
  memory,  \* what the memory holds
  agent,   \* the ReAct loop of the question: its round, and the first hits
  rows,    \* per_question_rows
  report   \* the comparison of the first system with the last; <<>>: none yet

bvars == <<mode, system, convo, asking, memory, agent, rows, report>>

(***************************************************************************)
(* The data set: sessions sorted by number, questions that keep evidence.  *)
(***************************************************************************)
Earlier(c, p, q) ==
  LET m == Samples[c].sessions[p[1]].number
      n == Samples[c].sessions[q[1]].number
  IN m < n \/ (m = n /\ p[2] < q[2])
Chunk(c, t) == [convo |-> c, id |-> t.id, norms |-> t.norms, rels |-> t.rels]
Chunks(c) ==
  LET order == Arranged(Turns(c), {p \in Turns(c) \X Turns(c) : Earlier(c, p[1], p[2])})
  IN [n \in DOMAIN order |-> Chunk(c, TurnAt(c, order[n]))]
Ids(c) == {TurnAt(c, p).id : p \in Turns(c)}
Gold(c, q) == q.evidence \cap Ids(c)
Questions(c) ==
  Keep(Samples[c].qa, {q \in Range(Samples[c].qa) : q.category \in Categories /\ Gold(c, q) # {}})

(***************************************************************************)
(* The memories.  chunks: what is stored; pending: added and not flushed;  *)
(* norms: radii that clear has put aside.                                  *)
(***************************************************************************)
NewMemory == [chunks |-> <<>>, pending |-> <<>>, stash |-> <<>>]
Flushed(m) == [chunks |-> m.chunks \o m.pending, pending |-> <<>>, stash |-> m.stash]
Stashed(m) == m.stash \o Flushed(m).chunks
Cleared(m) == [NewMemory EXCEPT !.stash = Stashed(m)]
ForgetsToClear(m, c) == Flushed([m EXCEPT !.pending = Chunks(c)])
Ingested(m, c) == Flushed([Cleared(m) EXCEPT !.pending = Chunks(c)])

Norms(m) == UNION {m.chunks[i].norms : i \in DOMAIN m.chunks}
Mentions(m, norm) == {i \in DOMAIN m.chunks : norm \in m.chunks[i].norms}
Degree(m, norm) == Cardinality(Mentions(m, norm))
Related(m, a, b) == \E i \in DOMAIN m.chunks : {<<a, b>>, <<b, a>>} \cap m.chunks[i].rels # {}

Top(s) == SubSeq(s, 1, IF K < Len(s) THEN K ELSE Len(s))

(* _rank: an utterance scores for each seed it mentions, and less for each *)
(* neighbour of a seed; equal scores keep the order of the conversation.   *)
(* A sum of weights is the size of a set that has as many pairs as weigh.  *)
Weight(m, i, norms) ==
  Cardinality({p \in (norms \cap m.chunks[i].norms) \X (1 .. Idf[1]) :
                 p[2] <= Idf[Degree(m, p[1]) + 1]})
Found(m, norms) == UNION {Mentions(m, n) : n \in norms}
Ranked(m, seeds, hops) ==
  LET found == Found(m, seeds \cup hops)
      score == [i \in found |-> 100 * Weight(m, i, seeds) + 35 * Weight(m, i, hops)]
      order == Arranged(found, {p \in found \X found :
                 score[p[1]] > score[p[2]] \/ (score[p[1]] = score[p[2]] /\ p[1] < p[2])})
  IN Top([n \in DOMAIN order |-> m.chunks[order[n]]])

(* GraphMemory: mentions of the seeds, and of what is one RELATES hop from *)
(* them; a hub is neither the end nor the start of a hop.                  *)
Small(m, n) == Degree(m, n) > 0 /\ Degree(m, n) <= MaxDegree
GraphHits(m, query) ==
  LET seeds == query \cap Norms(m)
  IN Ranked(m, seeds, {n \in Norms(m) \ seeds :
       Small(m, n) /\ \E s \in seeds : Small(m, s) /\ Related(m, s, n)})

(* PoincareMemory: every chunk, in an order of distance. *)
BallHits(m) == {Top(order) : order \in SetToSeqs(Range(m.chunks))}

(* KuzuOpenMemory: the library's list, each chunk once. *)
Once(s) ==
  LET first == Keep([i \in DOMAIN s |-> i], {i \in DOMAIN s : \A j \in 1 .. i - 1 : s[j] # s[i]})
  IN [n \in DOMAIN first |-> s[first[n]]]
LibraryHits(m) ==
  {Top(Once(s)) : s \in UNION {[1 .. n -> Range(m.chunks)] : n \in 0 .. Window}}

Hits(m, query) ==
  CASE Systems[system] = "graph_kuzu" -> {GraphHits(m, query)}
    [] Systems[system] = "poincare" -> BallHits(m)
    [] OTHER -> LibraryHits(m)

(***************************************************************************)
(* The run.                                                                *)
(***************************************************************************)
NewAgent == [round |-> 0, searched |-> FALSE, hits |-> <<>>]

BInit ==
  /\ mode \in {"offline", "llm"}
  /\ system = 1 /\ convo = 1 /\ asking = 0
  /\ memory = NewMemory /\ agent = NewAgent /\ rows = <<>> /\ report = <<>>

Ingest ==
  /\ system <= Len(Systems) /\ convo <= Len(Samples) /\ asking = 0
  /\ memory' = Ingested(memory, convo)
  /\ asking' = 1 /\ agent' = NewAgent
  /\ UNCHANGED <<mode, system, convo, rows, report>>

Asked == asking > 0 /\ asking <= Len(Questions(convo))

(* What the client may reply: the offline one searches once, then answers. *)
Replies ==
  IF mode = "llm" THEN {"search", "answer", "unknown"}
  ELSE IF agent.searched THEN {"answer"} ELSE {"search"}

Search ==
  /\ Asked /\ agent.round < MaxSteps /\ "search" \in Replies
  /\ \E query \in SUBSET Norms(memory) : \E hits \in Hits(memory, query) :
       agent' = [round |-> agent.round + 1, searched |-> TRUE,
                 hits |-> IF agent.searched THEN agent.hits ELSE hits]
  /\ UNCHANGED <<mode, system, convo, asking, memory, rows, report>>

UnknownAction ==
  /\ Asked /\ agent.round < MaxSteps /\ "unknown" \in Replies
  /\ agent' = [agent EXCEPT !.round = agent.round + 1]
  /\ UNCHANGED <<mode, system, convo, asking, memory, rows, report>>

(* The loop ends with a final answer or at its last step: the row. *)
Answer ==
  /\ Asked
  /\ agent.round = MaxSteps \/ "answer" \in Replies
  /\ LET q == Questions(convo)[asking]
         ids == {agent.hits[i].id : i \in DOMAIN agent.hits}
         gold == Gold(convo, q)
     IN rows' = Append(rows,
          [system |-> Systems[system], qid |-> <<convo, asking>>, category |-> q.category,
           hits |-> agent.hits, hit |-> IF ids \cap gold # {} THEN 1 ELSE 0,
           recall |-> (Unit * Cardinality(ids \cap gold)) \div Cardinality(gold),
           oracle |-> (Unit * (IF K < Cardinality(gold) THEN K ELSE Cardinality(gold)))
                        \div Cardinality(gold)])
  /\ asking' = asking + 1 /\ agent' = NewAgent
  /\ UNCHANGED <<mode, system, convo, memory, report>>

NextConversation ==
  /\ asking > Len(Questions(convo)) /\ convo < Len(Samples)
  /\ convo' = convo + 1 /\ asking' = 0
  /\ UNCHANGED <<mode, system, memory, agent, rows, report>>

(* A system is done: its memory is dropped, and the next one begins. *)
NextSystem ==
  /\ asking > Len(Questions(convo)) /\ convo = Len(Samples) /\ system < Len(Systems)
  /\ system' = system + 1 /\ convo' = 1 /\ asking' = 0 /\ memory' = NewMemory
  /\ UNCHANGED <<mode, agent, rows, report>>

(***************************************************************************)
(* The comparison.                                                         *)
(***************************************************************************)
RowsOf(name) == {i \in DOMAIN rows : rows[i].system = name}
Hit(name) == Cardinality({i \in RowsOf(name) : rows[i].hit = 1})
Recall(name) == Cardinality({p \in RowsOf(name) \X (1 .. Unit) : p[2] <= rows[p[1]].recall})
Categorised(name) == {i \in RowsOf(name) : rows[i].category \in 1 .. 5}

Winner(l, r) ==
  CASE Hit(r) > Hit(l) /\ Recall(r) >= Recall(l) -> r
    [] Hit(l) > Hit(r) /\ Recall(l) >= Recall(r) -> l
    [] Recall(r) > Recall(l) /\ Hit(r) >= Hit(l) -> r
    [] Recall(l) > Recall(r) /\ Hit(l) >= Hit(r) -> l
    [] OTHER -> "mixed"

NotWorse(a, b) == a.hit >= b.hit
Better(a, b) == a.hit > b.hit
OnlyLeft(l, r) ==
  Cardinality({p \in RowsOf(l) \X RowsOf(r) :
                 rows[p[1]].qid = rows[p[2]].qid /\ Better(rows[p[1]], rows[p[2]])})

Compare ==
  /\ asking > Len(Questions(convo)) /\ convo = Len(Samples) /\ system = Len(Systems)
  /\ report = <<>>
  /\ LET l == Systems[1] r == Systems[Len(Systems)]
     IN report' = <<[left |-> l, right |-> r, winner |-> Winner(l, r),
                     leftOnly |-> OnlyLeft(l, r), rightOnly |-> OnlyLeft(r, l),
                     radius |-> Stashed(memory)]>>
  /\ UNCHANGED <<mode, system, convo, asking, memory, agent, rows>>

BNext == Ingest \/ Search \/ UnknownAction \/ Answer \/ NextConversation
         \/ NextSystem \/ Compare \/ (report # <<>> /\ UNCHANGED bvars)

BSpec == BInit /\ [][BNext]_bvars

(***************************************************************************)
(* Properties.                                                             *)
(***************************************************************************)

(* Scores are of the conversation that is asked about: no system answers   *)
(* from turns of an earlier one, whose ids are the same; no more than K    *)
(* hits, each once, so that recall never beats the oracle's.               *)
ScoresAreFair ==
  \A i \in DOMAIN rows :
    /\ \A j \in DOMAIN rows[i].hits : rows[i].hits[j].convo = rows[i].qid[1]
    /\ Cardinality(Range(rows[i].hits)) = Len(rows[i].hits)
    /\ rows[i].recall <= rows[i].oracle

(* The report explains itself: each system answered every question once,   *)
(* in the same order; the categories leave no question out; the examples'  *)
(* counts differ by what the hits differ; and a winner is nowhere behind.  *)
Mine(name) == Keep(rows, {row \in Range(rows) : row.system = name})
Asks(name) == [i \in DOMAIN Mine(name) |-> Mine(name)[i].qid]
ReportIsSound ==
  report # <<>> =>
    LET r == Head(report) IN
    /\ \A name \in Range(Systems) :
         Asks(name) = Asks(Systems[1]) /\ Categorised(name) = RowsOf(name)
    /\ Hit(r.left) + r.rightOnly = Hit(r.right) + r.leftOnly
    /\ r.leftOnly + r.rightOnly <= Len(Asks(r.left))
    /\ r.winner # "mixed" =>
         \A name \in {r.left, r.right} :
           Hit(r.winner) >= Hit(name) /\ Recall(r.winner) >= Recall(name)
==============================================================================
