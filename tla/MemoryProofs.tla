---------------------------- MODULE MemoryProofs ----------------------------
(***************************************************************************)
(* Proofs about MemoryService, for any sessions, agents and requests: a    *)
(* vector has its row whatever fails, an episode that left the queue is in *)
(* the store unless the log says that it is not, and until something fails *)
(* an episode is the transcript of its session and no agent is left out;   *)
(* and what is recalled of an agent is its own.                            *)
(***************************************************************************)
EXTENDS MemoryService, FiniteSetTheorems, SequenceTheorems, WellFoundedInduction, TLAPS

Kinds == {"opened", "message", "closed"}
Events == [session : Sessions, kind : Kinds, n : Nat]
Episodes == [agent : Agents, session : Sessions, project : Projects, lines : Seq(Nat)]
Held == [known : SUBSET Sessions, lines : [Sessions -> Seq(Nat)]]

\* A closed event is at hand until it is done.
ClosingOne == closing => feed.batch # <<>> /\ Event.kind = "closed"

\* Types, and what is at hand where.
MTypeInv ==
  /\ stream \in Seq(Events) /\ writes \in Seq(Episodes)
  /\ FeedType(feed, Len(stream)) /\ FeedType(wfeed, Len(writes))
  /\ known \subseteq Sessions /\ lines \in [Sessions -> Seq(Nat)]
  /\ fan \in Seq(Agents) /\ closing \in BOOLEAN /\ ClosingOne
  /\ at \in {"idle", "row", "vector", "ack"} /\ (at # "idle" => wfeed.batch # <<>>)
  /\ rows \in [Keys -> Nat] /\ points \in [Keys -> Nat] /\ faults \in Nat

\* The vector about to be written has its row, as those written have.
RowInv ==
  /\ at = "vector" => rows[Key(Write)] # 0
  /\ EveryPointHasItsRow

MemInv == MTypeInv /\ RowInv

-----------------------------------------------------------------------------
(* Induction, from the least element of a set of numbers. *)

LEMMA LeastNumber ==
  ASSUME NEW T \in SUBSET Nat, T # {}
  PROVE  \E n \in T : \A m \in T : n <= m
<1> DEFINE R == {p \in Nat \X Nat : p[1] < p[2]}
<1>1. IsWellFoundedOn(R, Nat)
  BY NatLessThanWellFounded DEF OpToRel
<1>2. \E n \in T : \A m \in T : <<m, n>> \notin R
  <2> HIDE DEF R
  <2>1. QED
    BY <1>1, WFMin
<1>3. PICK n \in T : \A m \in T : <<m, n>> \notin R
  BY <1>2
<1>4. \A m \in T : m \in Nat /\ n \in Nat /\ ~(m < n)
  BY <1>3
<1>5. QED
  BY <1>4

LEMMA Induction ==
  ASSUME NEW T \in SUBSET Nat, 0 \in T, \A n \in T : n + 1 \in T
  PROVE  T = Nat
<1>1. SUFFICES ASSUME Nat \ T # {} PROVE FALSE
  OBVIOUS
<1>2. PICK n \in Nat \ T : \A m \in Nat \ T : n <= m
  BY <1>1, LeastNumber
<1>3. n # 0 /\ n - 1 \in Nat
  BY <1>2
<1>4. n - 1 \in T
  BY <1>2, <1>3
<1>5. QED
  BY <1>3, <1>4

-----------------------------------------------------------------------------
(* What is replayed. *)

LEMMA RememberTyped ==
  ASSUME NEW m \in Held, NEW e \in Events
  PROVE  Remember(m, e) \in Held
<1>1. m.known \in SUBSET Sessions /\ m.lines \in [Sessions -> Seq(Nat)]
      /\ e.session \in Sessions /\ e.n \in Nat /\ e.kind \in Kinds
  BY DEF Held, Events
<1>2. \A S \in SUBSET Sessions : \A f \in [Sessions -> Seq(Nat)] : Holds(S, f) \in Held
  BY DEF Held, Holds
<1>3. [m.lines EXCEPT ![e.session] = <<>>] \in [Sessions -> Seq(Nat)]
  BY <1>1, EmptySeq
<1>4. ApplyRoster(m, e) \in Held
  BY <1>1, <1>2, <1>3 DEF ApplyRoster, Kinds
<1>5. PICK r \in Held : r = ApplyRoster(m, e)
  BY <1>4
<1>6. r.known \in SUBSET Sessions /\ r.lines \in [Sessions -> Seq(Nat)]
  BY DEF Held
<1>7. [r.lines EXCEPT ![e.session] = Append(@, e.n)] \in [Sessions -> Seq(Nat)]
  BY <1>1, <1>6, AppendProperties
<1>8. Note(r, e) \in Held
  BY <1>2, <1>6, <1>7 DEF Note
<1>9. QED
  BY <1>5, <1>8 DEF Remember

\* upTo of Replayed(n).
IsReplay(f, n) ==
  f = [i \in 0 .. n |-> IF i = 0 THEN Holds({}, Nothing) ELSE Remember(f[i - 1], stream[i])]

LEMMA ReplayTyped ==
  ASSUME stream \in Seq(Events), NEW k \in 0 .. Len(stream)
  PROVE  Replayed(k) \in Held
<1> DEFINE T == {n \in Nat : \E f : IsReplay(f, n)}
<1>1. 0 \in T
  <2>1. IsReplay([i \in 0 .. 0 |-> Holds({}, Nothing)], 0)
    BY DEF IsReplay
  <2>2. QED
    BY <2>1
<1>2. ASSUME NEW n \in T
      PROVE  n + 1 \in T
  <2>1. PICK f : IsReplay(f, n)
    OBVIOUS
  <2> DEFINE g == [i \in 0 .. n + 1 |-> IF i <= n THEN f[i] ELSE Remember(f[n], stream[n + 1])]
  <2>2. IsReplay(g, n + 1)
    BY <2>1 DEF IsReplay
  <2>3. QED
    BY <2>2
<1>3. Len(stream) \in Nat /\ \A i \in 1 .. Len(stream) : stream[i] \in Events
  BY LenProperties, ElementOfSeq
<1>4. k \in Nat /\ k <= Len(stream) /\ \E f : IsReplay(f, k)
  <2>1. T = Nat
    <3> HIDE DEF T
    <3>1. T \in SUBSET Nat
      BY DEF T
    <3>2. QED
      BY <1>1, <1>2, <3>1, Induction
  <2>2. k \in Nat /\ k <= Len(stream)
    BY <1>3
  <2>3. k \in T
    BY <2>1, <2>2
  <2>4. QED
    BY <2>2, <2>3
<1>5. PICK f : IsReplay(f, k) /\ Replayed(k) = f[k]
  <2>1. Replayed(k) = (CHOOSE f : IsReplay(f, k))[k]
    BY DEF Replayed, IsReplay
  <2>2. QED
    BY <1>4, <2>1
<1> DEFINE U == {n \in Nat : n <= k => f[n] \in Held}
<1>6. 0 \in U
  <2>1. f[0] = Holds({}, Nothing)
    BY <1>4, <1>5 DEF IsReplay
  <2>2. Holds({}, Nothing) \in Held
    BY EmptySeq DEF Holds, Nothing, Held
  <2>3. QED
    BY <2>1, <2>2
<1>7. ASSUME NEW n \in U
      PROVE  n + 1 \in U
  <2>1. SUFFICES ASSUME n + 1 <= k PROVE f[n + 1] \in Held
    OBVIOUS
  <2>2. f[n] \in Held /\ stream[n + 1] \in Events
    BY <1>3, <1>4, <2>1
  <2>3. f[n + 1] = Remember(f[n], stream[n + 1])
    BY <1>4, <1>5, <2>1 DEF IsReplay
  <2>4. QED
    BY <2>2, <2>3, RememberTyped
<1>8. U = Nat
  <2> HIDE DEF U
  <2>1. U \in SUBSET Nat
    BY DEF U
  <2>2. QED
    BY <1>6, <1>7, <2>1, Induction
<1>9. QED
  BY <1>4, <1>5, <1>8

-----------------------------------------------------------------------------
(* The durables. *)

\* A feed of a stream is one of a longer stream.
LEMMA FeedGrows ==
  ASSUME NEW f, NEW m \in Nat, FeedType(f, m)
  PROVE  FeedType(f, m + 1)
BY DEF FeedType

\* What a fetch brings are documents published and not acked.
LEMMA FetchTyped ==
  ASSUME NEW len \in Nat, NEW f, FeedType(f, len), NEW g \in Fetches(f, len)
  PROVE  FeedType(g, len)
<1>1. f.next \in 0 .. len /\ f.out \subseteq 1 .. f.next
  BY DEF FeedType
<1>2. Reach(f, len) \in f.next .. len /\ Reach(f, len) - f.next \in Nat
  BY <1>1, DurableAssumption DEF Reach
<1>3. CASE g = Fetched(f, len)
  <2>1. NextBatch(f, len) \in [1 .. Reach(f, len) - f.next -> 1 .. Reach(f, len)]
    BY <1>1, <1>2 DEF NextBatch
  <2>2. NextBatch(f, len) \in Seq(1 .. Reach(f, len))
    BY <1>2, <2>1, SeqDef
  <2>3. QED
    BY <1>1, <1>2, <1>3, <2>2 DEF FeedType, Fetched, Feed
<1>4. ASSUME NEW i \in f.out, g = Feed(f.next, f.out, <<i>>)
      PROVE  FeedType(g, len)
  BY <1>1, <1>4 DEF FeedType, Feed
<1>5. QED
  BY <1>3, <1>4 DEF Fetches

LEMMA AckTyped ==
  ASSUME NEW f, NEW len, FeedType(f, len), f.batch # <<>>
  PROVE  FeedType(Acked(f), len) /\ FeedType(AckLost(f), len)
<1>1. f.next \in 0 .. len /\ f.out \subseteq 1 .. f.next /\ f.batch \in Seq(1 .. f.next)
  BY DEF FeedType
<1>2. Tail(f.batch) \in Seq(1 .. f.next)
  BY <1>1, HeadTailProperties
<1>3. QED
  BY <1>1, <1>2 DEF Acked, AckLost, Feed, FeedType

-----------------------------------------------------------------------------
(* Types, and rows before vectors. *)

LEMMA MemInit == MInit => MemInv
<1> SUFFICES ASSUME MInit PROVE MemInv
  OBVIOUS
<1>1. stream = <<>> /\ writes = <<>> /\ Len(stream) = 0 /\ Len(writes) = 0 /\ fan = <<>>
      /\ stream \in Seq(Events) /\ writes \in Seq(Episodes) /\ fan \in Seq(Agents)
  BY EmptySeq DEF MInit
<1>2. FeedType(EmptyFeed, 0)
  <2>1. EmptyFeed = [next |-> 0, out |-> {}, batch |-> <<>>]
    BY DEF EmptyFeed, Feed
  <2>2. QED
    BY <2>1, EmptySeq DEF FeedType, Feed
<1>3. lines \in [Sessions -> Seq(Nat)]
  BY EmptySeq DEF MInit, Nothing
<1>4. MTypeInv
  BY <1>1, <1>2, <1>3 DEF MInit, MTypeInv, ClosingOne
<1>5. RowInv
  BY DEF MInit, RowInv, EveryPointHasItsRow
<1>6. QED
  BY <1>4, <1>5 DEF MemInv

\* The event, the write and the row at hand.
LEMMA EventTyped ==
  ASSUME MTypeInv, feed.batch # <<>>
  PROVE  Head(feed.batch) \in 1 .. Len(stream) /\ Event \in Events
<1>1. feed.batch \in Seq(1 .. feed.next) /\ feed.next \in 0 .. Len(stream) /\ Len(stream) \in Nat
  BY LenProperties DEF MTypeInv, FeedType
<1>2. Head(feed.batch) \in 1 .. Len(stream)
  BY <1>1, HeadTailProperties
<1>3. QED
  BY <1>2, ElementOfSeq DEF MTypeInv, Event

LEMMA WriteTyped ==
  ASSUME MTypeInv, wfeed.batch # <<>>
  PROVE  Write \in 1 .. Len(writes) /\ Write # 0 /\ Key(Write) \in Keys
<1>1. wfeed.batch \in Seq(1 .. wfeed.next) /\ wfeed.next \in 0 .. Len(writes) /\ Len(writes) \in Nat
  BY LenProperties DEF MTypeInv, FeedType
<1>2. Write \in 1 .. Len(writes)
  BY <1>1, HeadTailProperties DEF Write
<1>3. writes[Write] \in Episodes
  BY <1>2, ElementOfSeq DEF MTypeInv
<1>4. QED
  BY <1>2, <1>3 DEF Key, Keys, Episodes

\* Steps that leave the store alone keep rows before vectors.
LEMMA RowsStay ==
  ASSUME MemInv, UNCHANGED <<rows, points>>,
         at' = "vector" => at = "vector" /\ UNCHANGED <<wfeed, writes>>
  PROVE  RowInv'
<1>1. EveryPointHasItsRow'
  BY DEF MemInv, RowInv, EveryPointHasItsRow
<1>2. at' = "vector" => (rows[Key(Write)] # 0)'
  BY DEF MemInv, RowInv, Key, Write
<1>3. QED
  BY <1>1, <1>2 DEF RowInv

LEMMA EmitKeeps ==
  ASSUME MemInv, NEW s \in Sessions, NEW kind \in Kinds, NEW n \in Nat, Emit(s, kind, n)
  PROVE  MemInv'
<1> DEFINE e == [session |-> s, kind |-> kind, n |-> n]
<1>1. stream \in Seq(Events) /\ e \in Events /\ stream' = Append(stream, e)
  BY DEF MemInv, MTypeInv, Emit, Events
<1>2. stream' \in Seq(Events) /\ Len(stream') = Len(stream) + 1 /\ Len(stream) \in Nat
  BY <1>1, AppendProperties, LenProperties
<1>3. UNCHANGED <<writes, feed, known, lines, fan, closing, wfeed, at, seen, spool, rows, points, faults>>
  BY DEF Emit, dvars, wvars
<1>4. FeedType(feed', Len(stream'))
  BY <1>2, <1>3, FeedGrows DEF MemInv, MTypeInv
<1>5. feed.batch # <<>> => Event' = Event
  <2>1. ASSUME feed.batch # <<>>
        PROVE  Event' = Event
    <3>1. Head(feed.batch) \in 1 .. Len(stream)
      BY <2>1, EventTyped DEF MemInv
    <3>2. stream'[Head(feed.batch)] = stream[Head(feed.batch)]
      BY <1>1, <3>1, AppendProperties
    <3>3. QED
      BY <1>3, <3>2 DEF Event
  <2>2. QED
    BY <2>1
<1>6. MTypeInv'
  BY <1>2, <1>3, <1>4, <1>5 DEF MemInv, MTypeInv, ClosingOne
<1>7. QED
  BY <1>3, <1>6, RowsStay DEF MemInv

LEMMA TalkKeeps ==
  ASSUME MemInv, Talk
  PROVE  MemInv'
<1>1. PICK s \in Sessions : Open(s) \/ Say(s) \/ Close(s)
  BY DEF Talk
<1>2. Cardinality(Says(s)) \in Nat
  <2>1. IsFiniteSet(1 .. Len(stream)) /\ DOMAIN stream = 1 .. Len(stream)
    <3>1. stream \in Seq(Events)
      BY DEF MemInv, MTypeInv
    <3>2. QED
      BY <3>1, FS_Interval, LenProperties
  <2>2. QED
    BY <2>1, FS_Subset, FS_CardinalityType DEF Says
<1>3. PICK kind \in Kinds, n \in Nat : Emit(s, kind, n)
  BY <1>1, <1>2 DEF Open, Say, Close, Kinds
<1>4. QED
  BY <1>3, EmitKeeps

LEMMA EventDoneTyped ==
  ASSUME MTypeInv, feed.batch # <<>>, EventDone
  PROVE  /\ FeedType(feed', Len(stream)) /\ faults' \in Nat
         /\ known' \subseteq Sessions /\ lines' \in [Sessions -> Seq(Nat)]
<1>1. Holding \in Held
  BY DEF MTypeInv, Holding, Holds, Held
<1>2. Remember(Holding, Event) \in Held
  BY <1>1, EventTyped, RememberTyped
<1>3. FeedType(feed', Len(stream))
  BY AckTyped DEF EventDone, MTypeInv
<1>4. faults' \in Nat
  BY DEF EventDone, NoFault, Fault, MTypeInv
<1>5. QED
  BY <1>2, <1>3, <1>4 DEF EventDone, Held

LEMMA DistillerKeeps ==
  ASSUME MemInv, Distiller
  PROVE  MemInv'
<1>1. CASE FetchSessions
  <2>1. Len(stream) \in Nat /\ ~closing
    BY <1>1, LenProperties DEF FetchSessions, MemInv, MTypeInv, ClosingOne
  <2>2. FeedType(feed', Len(stream))
    BY <1>1, <2>1, FetchTyped DEF FetchSessions, MemInv, MTypeInv
  <2>3. MTypeInv'
    BY <1>1, <2>1, <2>2 DEF FetchSessions, MemInv, MTypeInv, ClosingOne, Event, wvars
  <2>4. QED
    BY <1>1, <2>3, RowsStay DEF FetchSessions, MemInv, wvars
<1>2. CASE Handle
  <2>1. MTypeInv'
    <3>1. UNCHANGED <<stream, writes, fan, wfeed, at, rows, points>> /\ feed.batch # <<>> /\ EventDone
      BY <1>2 DEF Handle, wvars
    <3>2. ~closing /\ ~closing'
      BY <1>2 DEF Handle, MemInv, MTypeInv, ClosingOne
    <3>3. QED
      BY <1>2, <3>1, <3>2, EventDoneTyped DEF Handle, MemInv, MTypeInv, ClosingOne
  <2>2. QED
    BY <1>2, <2>1, RowsStay DEF Handle, MemInv, wvars
<1>3. CASE Distill
  <2>1. fan' \in Seq(Agents)
    <3>1. Event.session \in Sessions
      BY <1>3, EventTyped DEF Distill, MemInv, Events
    <3>2. QED
      BY <1>3, <3>1, MemoryAssumption, EmptySeq DEF Distill, FanOut
  <2>2. MTypeInv'
    BY <1>3, <2>1 DEF Distill, MemInv, MTypeInv, ClosingOne, Event, wvars
  <2>3. QED
    BY <1>3, <2>2, RowsStay DEF Distill, MemInv, wvars
<1>4. CASE Publish
  <2>1. UNCHANGED <<stream, feed, known, lines, closing, wvars>>
    BY <1>4 DEF Publish
  <2>2. fan \in Seq(Agents) /\ fan # <<>> /\ fan' = Tail(fan) /\ feed.batch # <<>>
    BY <1>4 DEF Publish, MemInv, MTypeInv, ClosingOne
  <2>3. fan' \in Seq(Agents) /\ Head(fan) \in Agents
    BY <2>2, HeadTailProperties
  <2>4. Event \in Events
    BY <2>2, EventTyped DEF MemInv
  <2> DEFINE w == [agent |-> Head(fan), session |-> Event.session,
                   project |-> ProjectOf[Event.session], lines |-> lines[Event.session]]
  <2>5. w \in Episodes
    BY <2>3, <2>4, MemoryAssumption DEF Episodes, Events, MemInv, MTypeInv
  <2>6. (writes' = Append(writes, w) \/ writes' = writes) /\ faults' \in Nat
    BY <1>4 DEF Publish, NoFault, Fault, MemInv, MTypeInv
  <2> HIDE DEF w
  <2>7. writes' \in Seq(Episodes) /\ Len(writes) \in Nat
        /\ (Len(writes') = Len(writes) \/ Len(writes') = Len(writes) + 1)
    <3>1. writes \in Seq(Episodes)
      BY DEF MemInv, MTypeInv
    <3>2. QED
      BY <2>5, <2>6, <3>1, AppendProperties, LenProperties
  <2>8. FeedType(wfeed, Len(writes'))
    BY <2>7, FeedGrows DEF MemInv, MTypeInv
  <2>9. MTypeInv'
    BY <2>1, <2>2, <2>3, <2>6, <2>7, <2>8 DEF MemInv, MTypeInv, ClosingOne, Event, wvars
  <2>10. RowInv'
    <3>1. EveryPointHasItsRow'
      BY <2>1 DEF MemInv, RowInv, EveryPointHasItsRow, wvars
    <3>2. ASSUME at = "vector"
          PROVE  rows'[Key(Write)'] # 0
      <4>1. Write \in 1 .. Len(writes)
        BY <3>2, WriteTyped DEF MemInv, MTypeInv
      <4>2. writes'[Write] = writes[Write]
        BY <2>5, <2>6, <4>1, AppendProperties DEF MemInv, MTypeInv
      <4>3. Key(Write)' = Key(Write)
        BY <2>1, <4>2 DEF Key, Write, wvars
      <4>4. QED
        BY <2>1, <3>2, <4>3 DEF MemInv, RowInv, wvars
    <3>3. QED
      BY <2>1, <3>1, <3>2 DEF RowInv, wvars
  <2>11. QED
    BY <2>9, <2>10 DEF MemInv
<1>5. CASE Closed
  <2>1. feed.batch # <<>>
    BY <1>5 DEF Closed, MemInv, MTypeInv, ClosingOne
  <2>2. MTypeInv'
    BY <1>5, <2>1, EventDoneTyped DEF Closed, MemInv, MTypeInv, ClosingOne, Event, wvars
  <2>3. QED
    BY <1>5, <2>2, RowsStay DEF Closed, MemInv, wvars
<1>6. QED
  BY <1>1, <1>2, <1>3, <1>4, <1>5 DEF Distiller

LEMMA WriterKeeps ==
  ASSUME MemInv, Writer
  PROVE  MemInv'
<1>1. CASE FetchWrites
  <2>1. Len(writes) \in Nat /\ at = "idle"
    BY <1>1, LenProperties DEF FetchWrites, MemInv, MTypeInv
  <2>2. FeedType(wfeed', Len(writes))
    BY <1>1, <2>1, FetchTyped DEF FetchWrites, MemInv, MTypeInv
  <2>3. MTypeInv'
    BY <1>1, <2>1, <2>2 DEF FetchWrites, MemInv, MTypeInv, ClosingOne, Event, dvars
  <2>4. QED
    BY <1>1, <2>1, <2>3, RowsStay DEF FetchWrites, MemInv
<1>2. CASE Spool
  <2>1. at' \in {"row", "ack"}
    BY <1>2 DEF Spool
  <2>2. MTypeInv'
    BY <1>2, <2>1 DEF Spool, MemInv, MTypeInv, ClosingOne, Event, dvars
  <2>3. QED
    BY <1>2, <2>1, <2>2, RowsStay DEF Spool, MemInv
<1>3. CASE Store
  <2>1. Write \in Nat \ {0} /\ Key(Write) \in Keys /\ UNCHANGED <<writes, wfeed>>
    BY <1>3, WriteTyped DEF Store, MemInv, MTypeInv
  <2>2. Key(Write)' = Key(Write)
    BY <2>1 DEF Key, Write
  <2>3. CASE at = "row" /\ rows' = [rows EXCEPT ![Key(Write)] = Write] /\ UNCHANGED points
             /\ at' = "vector" /\ NoFault
    <3>1. MTypeInv'
      BY <1>3, <2>1, <2>3 DEF Store, MemInv, MTypeInv, ClosingOne, Event, dvars, NoFault
    <3>2. rows'[Key(Write)] # 0 /\ \A k \in Keys : rows[k] # 0 => rows'[k] # 0
      BY <2>1, <2>3 DEF MemInv, MTypeInv
    <3>3. RowInv'
      BY <2>2, <2>3, <3>2 DEF MemInv, RowInv, EveryPointHasItsRow
    <3>4. QED
      BY <3>1, <3>3 DEF MemInv
  <2>4. CASE at = "vector" /\ points' = [points EXCEPT ![Key(Write)] = Write] /\ UNCHANGED rows
             /\ at' = "ack" /\ NoFault
    <3>1. MTypeInv'
      BY <1>3, <2>1, <2>4 DEF Store, MemInv, MTypeInv, ClosingOne, Event, dvars, NoFault
    <3>2. RowInv'
      BY <2>1, <2>4 DEF MemInv, MTypeInv, RowInv, EveryPointHasItsRow
    <3>3. QED
      BY <3>1, <3>2 DEF MemInv
  <2>5. CASE Fault /\ at' = "ack" /\ UNCHANGED <<rows, points>>
    <3>1. MTypeInv'
      BY <1>3, <2>5 DEF Store, MemInv, MTypeInv, ClosingOne, Event, dvars, Fault
    <3>2. QED
      BY <2>5, <3>1, RowsStay DEF MemInv
  <2>6. QED
    BY <1>3, <2>3, <2>4, <2>5 DEF Store, AfterStore, AfterFailure
<1>4. CASE AckWrite
  <2>1. FeedType(wfeed', Len(writes)) /\ faults' \in Nat
    BY <1>4, AckTyped DEF AckWrite, MemInv, MTypeInv, NoFault, Fault
  <2>2. MTypeInv'
    BY <1>4, <2>1 DEF AckWrite, MemInv, MTypeInv, ClosingOne, Event, dvars
  <2>3. QED
    BY <1>4, <2>2, RowsStay DEF AckWrite, MemInv
<1>5. QED
  BY <1>1, <1>2, <1>3, <1>4 DEF Writer

LEMMA ProcessKeeps ==
  ASSUME MemInv, Crash \/ Start
  PROVE  MemInv'
<1>1. CASE Crash
  <2>1. FeedType(feed', Len(stream)) /\ FeedType(wfeed', Len(writes))
    BY <1>1, EmptySeq DEF Crash, MemInv, MTypeInv, Dropped, Feed, FeedType
  <2>2. lines' \in [Sessions -> Seq(Nat)] /\ fan' \in Seq(Agents)
    BY <1>1, EmptySeq DEF Crash, Nothing
  <2>3. UNCHANGED <<stream, writes, rows, points>> /\ at' = "idle" /\ closing' = FALSE
        /\ known' = {} /\ faults' \in Nat
    BY <1>1 DEF Crash, MemInv, MTypeInv, Fault
  <2>5. MTypeInv'
    <3>1. ClosingOne'
      BY <2>3 DEF ClosingOne
    <3>2. QED
      BY <2>1, <2>2, <2>3, <3>1 DEF MemInv, MTypeInv
  <2>4. QED
    BY <1>1, <2>5, RowsStay DEF Crash, MemInv
<1>2. CASE Start
  <2>1. \A n \in 0 .. Len(stream) : Replayed(n) \in Held
    BY ReplayTyped DEF MemInv, MTypeInv
  <2>2. known' \subseteq Sessions /\ lines' \in [Sessions -> Seq(Nat)] /\ faults' \in Nat
    BY <1>2, <2>1 DEF Start, Held, NoFault, Fault, MemInv, MTypeInv
  <2>3. MTypeInv'
    BY <1>2, <2>2 DEF Start, MemInv, MTypeInv, ClosingOne, Event, wvars
  <2>4. QED
    BY <1>2, <2>3, RowsStay DEF Start, MemInv, wvars
<1>3. QED
  BY <1>1, <1>2

LEMMA MemNext ==
  ASSUME MemInv, [MNext]_mvars
  PROVE  MemInv'
<1>1. CASE UNCHANGED mvars
  <2>1. MTypeInv'
    BY <1>1 DEF mvars, dvars, wvars, ClosingOne, Event, MemInv, MTypeInv
  <2>2. QED
    BY <1>1, <2>1, RowsStay DEF mvars, wvars, MemInv
<1>2. QED
  BY <1>1, TalkKeeps, DistillerKeeps, WriterKeeps, ProcessKeeps DEF MNext

THEOREM MemInvHolds == MSpec => []MemInv
BY MemInit, MemNext, PTL DEF MSpec

\* Whatever fails between the two writes of an episode, or between them and
\* its ack, no vector is without its row (_write_sync of the agent backend).
THEOREM RowsComeBeforeVectors == MSpec => []EveryPointHasItsRow
<1>1. MemInv => EveryPointHasItsRow
  BY DEF MemInv, RowInv
<1>2. QED
  BY <1>1, MemInvHolds, PTL


-----------------------------------------------------------------------------
(* What left the queue. *)

Secure(i) == IsStored(i) \/ i \in unstored

\* What this run of the process has seen is in the spool, and stored or in
\* the log but for the one at hand; so is what was acked.
SeenInv ==
  /\ seen \subseteq 1 .. Len(writes) /\ seen \subseteq Range(spool) /\ spool \in Seq(Nat)
  /\ \A i \in seen : Secure(i) \/ (at \in {"row", "vector"} /\ i = Write)
  /\ at # "idle" => Write \in seen
AckedInv == \A i \in Settled(wfeed) : i \in Range(spool) /\ Secure(i)
HandledInv == SeenInv /\ AckedInv

\* Nothing is taken out of the spool, the tables or the log.
Growing ==
  /\ Range(spool) \subseteq Range(spool') /\ spool' \in Seq(Nat)
  /\ unstored \subseteq unstored'
  /\ \A k \in Keys : (rows[k] # 0 => rows'[k] # 0) /\ (points[k] # 0 => points'[k] # 0)
  /\ \A i \in 1 .. Len(writes) : writes'[i] = writes[i]
  /\ Len(writes) \in Nat /\ Len(writes') \in Nat /\ Len(writes) <= Len(writes')

LEMMA SecureStays ==
  ASSUME MTypeInv, Growing, NEW i \in 1 .. Len(writes), Secure(i)
  PROVE  Secure(i)'
<1>1. writes[i] \in Episodes /\ writes'[i] = writes[i]
  BY ElementOfSeq DEF MTypeInv, Growing
<1>2. Key(i) \in Keys /\ Key(i)' = <<writes'[i].agent, writes'[i].session>>
  BY <1>1 DEF Key, Keys, Episodes
<1>3. PICK k \in Keys : k = Key(i) /\ k = Key(i)'
  BY <1>1, <1>2 DEF Key
<1>4. IsStored(i) => IsStored(i)'
  BY <1>3 DEF IsStored, Growing
<1>5. QED
  BY <1>4 DEF Secure, Growing

LEMMA SettledWritten ==
  ASSUME MTypeInv
  PROVE  Settled(wfeed) \subseteq 1 .. Len(writes)
<1>1. wfeed.next \in 0 .. Len(writes) /\ Len(writes) \in Nat
  BY LenProperties DEF MTypeInv, FeedType
<1>2. QED
  BY <1>1 DEF Settled

LEMMA AckedStays ==
  ASSUME MTypeInv, HandledInv, Growing, Settled(wfeed') \subseteq Settled(wfeed)
  PROVE  AckedInv'
<1>1. SUFFICES ASSUME NEW i \in Settled(wfeed')
               PROVE  i \in Range(spool') /\ Secure(i)'
  BY DEF AckedInv, Settled
<1>2. i \in Settled(wfeed) /\ i \in 1 .. Len(writes)
  BY <1>1, SettledWritten
<1>3. i \in Range(spool) /\ Secure(i)
  BY <1>2 DEF HandledInv, AckedInv
<1>4. QED
  BY <1>2, <1>3, SecureStays DEF Growing

LEMMA SeenStays ==
  ASSUME MTypeInv, HandledInv, Growing, UNCHANGED <<seen, at, wfeed>>
  PROVE  SeenInv'
<1>1. seen \subseteq 1 .. Len(writes) /\ seen \subseteq Range(spool)
      /\ (\A i \in seen : Secure(i) \/ (at \in {"row", "vector"} /\ i = Write))
      /\ (at # "idle" => Write \in seen)
  BY DEF HandledInv, SeenInv
<1>2. \A i \in seen : Secure(i) => Secure(i)'
  BY <1>1, SecureStays
<1>3. Write' = Write
  BY DEF Write
<1>4. seen' \subseteq 1 .. Len(writes') /\ seen' \subseteq Range(spool') /\ spool' \in Seq(Nat)
  BY <1>1 DEF Growing
<1>5. \A i \in seen' : Secure(i)' \/ (at' \in {"row", "vector"} /\ i = Write')
  BY <1>1, <1>2, <1>3
<1>6. QED
  BY <1>1, <1>3, <1>4, <1>5 DEF SeenInv

\* Steps that leave the write consumer and its store alone.
LEMMA HandledStays ==
  ASSUME MTypeInv, HandledInv, UNCHANGED wvars,
         UNCHANGED writes \/ \E e \in Episodes : writes' = Append(writes, e)
  PROVE  HandledInv'
<1>1. Growing
  <2>1. writes \in Seq(Episodes) /\ Len(writes) \in Nat /\ spool \in Seq(Nat)
    BY LenProperties DEF MTypeInv, HandledInv, SeenInv
  <2>2. (\A i \in 1 .. Len(writes) : writes'[i] = writes[i])
        /\ Len(writes') \in Nat /\ Len(writes) <= Len(writes')
    <3>1. CASE UNCHANGED writes
      BY <2>1, <3>1
    <3>2. ASSUME NEW e \in Episodes, writes' = Append(writes, e)
          PROVE  /\ Len(writes') \in Nat /\ Len(writes) <= Len(writes')
                 /\ \A i \in 1 .. Len(writes) : writes'[i] = writes[i]
      <4>1. Len(writes') = Len(writes) + 1
            /\ \A i \in 1 .. Len(writes) : writes'[i] = writes[i]
        BY <2>1, <3>2, AppendProperties
      <4>2. QED
        BY <2>1, <4>1
    <3>3. QED
      BY <3>1, <3>2
  <2>3. UNCHANGED <<spool, rows, points, unstored>>
    BY DEF wvars
  <2>4. QED
    BY <2>1, <2>2, <2>3 DEF Growing
<1>2. AckedInv'
  BY <1>1, AckedStays DEF wvars
<1>3. SeenInv'
  BY <1>1, SeenStays DEF wvars
<1>4. QED
  BY <1>2, <1>3 DEF HandledInv

LEMMA SpoolHandles ==
  ASSUME MemInv, HandledInv, Spool
  PROVE  HandledInv'
<1>1. MTypeInv /\ Write \in 1 .. Len(writes) /\ Len(writes) \in Nat /\ spool \in Seq(Nat)
      /\ UNCHANGED <<writes, wfeed, rows, points>> /\ at = "idle" /\ Write' = Write
  BY WriteTyped, LenProperties DEF MemInv, MTypeInv, HandledInv, SeenInv, Spool, Write
<1>2. SeenInv
  BY DEF HandledInv
<1>3. CASE Came(Write)
  <2>1. UNCHANGED <<seen, spool, unstored>> /\ at' = "ack"
    BY <1>3 DEF Spool
  <2>2. Growing
    BY <1>1, <2>1 DEF Growing
  <2>3. AckedInv'
    BY <1>1, <2>2, AckedStays
  <2>4. \A i \in seen : i \in 1 .. Len(writes) /\ Secure(i) /\ Secure(i)'
    BY <1>1, <1>2, <2>2, SecureStays DEF SeenInv
  <2>5. SeenInv'
    BY <1>1, <1>2, <1>3, <2>1, <2>4 DEF SeenInv, Came
  <2>6. QED
    BY <2>3, <2>5 DEF HandledInv
<1>4. CASE ~Came(Write)
  <2>1. spool' = Append(spool, Write) /\ seen' = seen \cup {Write}
        /\ (\/ at' = "row" /\ UNCHANGED unstored
            \/ at' = "ack" /\ unstored' = unstored \cup {Write})
    BY <1>4 DEF Spool
  <2>2. Write \in Nat
    BY <1>1
  <2>3. spool' \in Seq(Nat) /\ Range(spool') = Range(spool) \cup {Write}
    <3>1. PICK w \in Nat : w = Write
      BY <2>2
    <3>2. Append(spool, w) \in Seq(Nat) /\ Len(Append(spool, w)) = Len(spool) + 1
          /\ (\A i \in 1 .. Len(spool) : Append(spool, w)[i] = spool[i])
          /\ Append(spool, w)[Len(spool) + 1] = w /\ Len(spool) \in Nat
      BY <1>1, AppendProperties, LenProperties
    <3>3. DOMAIN spool = 1 .. Len(spool) /\ DOMAIN Append(spool, w) = 1 .. Len(spool) + 1
      BY <1>1, <3>2, LenProperties
    <3>4. Range(Append(spool, w)) = Range(spool) \cup {w}
      BY <3>2, <3>3 DEF Range
    <3>5. QED
      BY <2>1, <3>1, <3>2, <3>4
  <2>4. Growing
    BY <1>1, <2>1, <2>3 DEF Growing
  <2>5. AckedInv'
    BY <1>1, <2>4, AckedStays
  <2>6. \A i \in seen : i \in 1 .. Len(writes) /\ Secure(i) /\ Secure(i)'
    BY <1>1, <1>2, <2>4, SecureStays DEF SeenInv
  <2>7. Secure(Write)' \/ at' = "row"
    BY <1>1, <2>1 DEF Secure
  <2>8. SeenInv'
    <3>1. seen' \subseteq 1 .. Len(writes') /\ seen' \subseteq Range(spool')
      BY <1>1, <1>2, <2>1, <2>3 DEF SeenInv
    <3>2. \A i \in seen' : Secure(i)' \/ (at' \in {"row", "vector"} /\ i = Write')
      <4>1. SUFFICES ASSUME NEW i \in seen, TRUE
                     PROVE  Secure(i)'
        <5>1. Secure(Write)' \/ (at' \in {"row", "vector"} /\ Write = Write')
          BY <1>1, <2>7
        <5>2. PICK w : w = Write /\ w = Write'
          BY <1>1
        <5>3. Secure(w)' \/ (at' \in {"row", "vector"} /\ w = Write')
          BY <1>1, <2>1, <2>7, <5>2 DEF Secure
        <5>4. QED
          BY <2>1, <5>2, <5>3, <2>6
      <4>2. QED
        BY <2>6
    <3>3. QED
      BY <1>1, <2>1, <2>3, <3>1, <3>2 DEF SeenInv
  <2>9. QED
    BY <2>5, <2>8 DEF HandledInv
<1>5. QED
  BY <1>3, <1>4

LEMMA StoreHandles ==
  ASSUME MemInv, HandledInv, Store
  PROVE  HandledInv'
<1>1. MTypeInv /\ Write \in 1 .. Len(writes) /\ Write # 0 /\ Key(Write) \in Keys
      /\ Len(writes) \in Nat /\ spool \in Seq(Nat)
      /\ UNCHANGED <<writes, wfeed, seen, spool>> /\ Write' = Write
      /\ rows \in [Keys -> Nat] /\ points \in [Keys -> Nat]
  BY WriteTyped, LenProperties DEF MemInv, MTypeInv, HandledInv, SeenInv, Store, Write
<1>2. SeenInv /\ at \in {"row", "vector"}
  BY DEF HandledInv, Store
<1>3. /\ rows' = rows \/ rows' = [rows EXCEPT ![Key(Write)] = Write]
      /\ points' = points \/ points' = [points EXCEPT ![Key(Write)] = Write]
      /\ unstored \subseteq unstored'
  BY DEF Store
<1>4. Growing
  <2>1. \A k \in Keys : (rows[k] # 0 => rows'[k] # 0) /\ (points[k] # 0 => points'[k] # 0)
    BY <1>1, <1>3
  <2>2. QED
    BY <1>1, <1>3, <2>1 DEF Growing
<1>5. AckedInv'
  BY <1>1, <1>4, AckedStays
<1>6. at' = "vector" \/ (at' = "ack" /\ Secure(Write)')
  <2>1. CASE at = "row" /\ at' = AfterStore(at)
    BY <2>1 DEF AfterStore
  <2>2. CASE at = "vector" /\ at' = AfterStore(at)
             /\ points' = [points EXCEPT ![Key(Write)] = Write] /\ UNCHANGED rows
    <3>1. rows[Key(Write)] # 0
      BY <2>2 DEF MemInv, RowInv
    <3>0. PICK w : w = Write
      OBVIOUS
    <3>2. PICK k \in Keys : w = Write /\ k = Key(Write)
      BY <1>1, <3>0
    <3>3. Key(w)' = k /\ rows'[k] # 0 /\ points'[k] # 0
      BY <1>1, <2>2, <3>1, <3>2 DEF Key
    <3>4. Secure(w)'
      BY <3>3 DEF Secure, IsStored
    <3>5. Secure(Write)'
      BY <1>1, <3>2, <3>4 DEF Secure, IsStored, Key
    <3>6. QED
      BY <2>2, <3>5 DEF AfterStore
  <2>3. CASE at' = AfterFailure(at) /\ unstored' = unstored \cup {Write}
    BY <1>1, <2>3 DEF AfterFailure, Secure
  <2>4. QED
    BY <1>2, <2>1, <2>2, <2>3 DEF Store
<1>7. \A i \in seen : Secure(i)' \/ (at' \in {"row", "vector"} /\ i = Write')
  <2>1. SUFFICES ASSUME NEW i \in seen
                 PROVE  Secure(i)' \/ (at' \in {"row", "vector"} /\ i = Write')
    OBVIOUS
  <2>2. CASE i = Write
    BY <1>1, <1>6, <2>2 DEF Secure, IsStored, Key
  <2>3. CASE i # Write
    <3>1. Secure(i) /\ i \in 1 .. Len(writes)
      BY <1>2, <2>3 DEF SeenInv
    <3>2. QED
      BY <1>1, <1>4, <3>1, SecureStays
  <2>4. QED
    BY <2>2, <2>3
<1>8. SeenInv'
  BY <1>1, <1>2, <1>7 DEF SeenInv
<1>9. QED
  BY <1>5, <1>8 DEF HandledInv

LEMMA AckHandles ==
  ASSUME MemInv, HandledInv, AckWrite
  PROVE  HandledInv'
<1>1. MTypeInv /\ SeenInv /\ AckedInv /\ at = "ack" /\ at' = "idle"
      /\ UNCHANGED <<writes, seen, spool, rows, points, unstored>>
      /\ (wfeed' = Acked(wfeed) \/ wfeed' = AckLost(wfeed))
  BY DEF MemInv, HandledInv, AckWrite
<1>2. \A i : Secure(i)' = Secure(i)
  BY <1>1 DEF Secure, IsStored, Key
<1>3. \A i \in seen : Secure(i) /\ i \in Range(spool)
  BY <1>1 DEF SeenInv
<1>4. SeenInv'
  BY <1>1, <1>2, <1>3 DEF SeenInv
<1>5. Write \in seen
  BY <1>1 DEF SeenInv
<1>6. Settled(wfeed)' \subseteq Settled(wfeed) \cup {Write}
  BY <1>1 DEF Settled, Acked, AckLost, Feed, Write
<1>7. AckedInv'
  BY <1>1, <1>2, <1>3, <1>5, <1>6 DEF AckedInv
<1>8. QED
  BY <1>4, <1>7 DEF HandledInv

LEMMA FetchHandles ==
  ASSUME MemInv, HandledInv, FetchWrites
  PROVE  HandledInv'
<1>1. MTypeInv /\ SeenInv /\ at = "idle" /\ Len(writes) \in Nat /\ wfeed.next \in 0 .. Len(writes)
      /\ UNCHANGED <<writes, at, seen, spool, rows, points, unstored>>
      /\ wfeed' \in Fetches(wfeed, Len(writes))
  BY LenProperties DEF MemInv, MTypeInv, FeedType, HandledInv, FetchWrites
<1>2. \A i : Secure(i)' = Secure(i)
  BY <1>1 DEF Secure, IsStored, Key
<1>3. SeenInv'
  BY <1>1, <1>2 DEF SeenInv
<1>4. Settled(wfeed)' \subseteq Settled(wfeed)
  <2>1. CASE wfeed' = Fetched(wfeed, Len(writes))
    BY <1>1, <2>1, DurableAssumption DEF Settled, Fetched, Feed, Reach
  <2>2. ASSUME NEW i \in wfeed.out, wfeed' = Feed(wfeed.next, wfeed.out, <<i>>)
        PROVE  Settled(wfeed)' \subseteq Settled(wfeed)
    BY <2>2 DEF Settled, Feed
  <2>3. QED
    BY <1>1, <2>1, <2>2 DEF Fetches
<1>5. AckedInv'
  BY <1>1, <1>2, <1>4 DEF AckedInv, HandledInv
<1>6. QED
  BY <1>3, <1>5 DEF HandledInv

LEMMA CrashHandles ==
  ASSUME MemInv, HandledInv, Crash
  PROVE  HandledInv'
<1>1. SeenInv /\ AckedInv /\ wfeed' = Dropped(wfeed) /\ at' = "idle" /\ seen' = {}
      /\ UNCHANGED <<writes, spool, rows, points, unstored>>
  BY DEF HandledInv, Crash
<1>2. \A i : Secure(i)' = Secure(i)
  BY <1>1 DEF Secure, IsStored, Key
<1>3. Settled(wfeed)' = Settled(wfeed)
  BY <1>1 DEF Settled, Dropped, Feed
<1>4. QED
  BY <1>1, <1>2, <1>3 DEF HandledInv, SeenInv, AckedInv

LEMMA PublishWrites ==
  ASSUME MTypeInv, Publish
  PROVE  UNCHANGED writes \/ \E e \in Episodes : writes' = Append(writes, e)
<1>1. feed.batch # <<>> /\ Event \in Events /\ fan \in Seq(Agents) /\ fan # <<>>
  BY EventTyped DEF MTypeInv, ClosingOne, Publish
<1>2. Head(fan) \in Agents /\ Event.session \in Sessions /\ lines[Event.session] \in Seq(Nat)
      /\ ProjectOf[Event.session] \in Projects
  BY <1>1, HeadTailProperties, MemoryAssumption DEF MTypeInv, Events
<1>3. [agent |-> Head(fan), session |-> Event.session, project |-> ProjectOf[Event.session],
       lines |-> lines[Event.session]] \in Episodes
  BY <1>2 DEF Episodes
<1>4. QED
  BY <1>3 DEF Publish

LEMMA HandledNext ==
  ASSUME MemInv, HandledInv, [MNext]_mvars
  PROVE  HandledInv'
<1>1. MTypeInv
  BY DEF MemInv
<1>2. CASE Publish
  <2>1. UNCHANGED wvars
    BY <1>2 DEF Publish
  <2>2. QED
    BY <1>1, <1>2, <2>1, PublishWrites, HandledStays
<1>3. CASE Talk \/ FetchSessions \/ Handle \/ Distill \/ Closed \/ Start \/ UNCHANGED mvars
  <2>1. UNCHANGED wvars /\ UNCHANGED writes
    BY <1>3 DEF Talk, Open, Say, Close, Emit, FetchSessions, Handle, Distill, Closed, Start, mvars
  <2>2. QED
    BY <1>1, <2>1, HandledStays
<1>4. QED
  BY <1>2, <1>3, SpoolHandles, StoreHandles, AckHandles, FetchHandles, CrashHandles
     DEF MNext, Distiller, Writer

LEMMA HandledInit ==
  ASSUME MInit
  PROVE  HandledInv
<1>1. spool = <<>> /\ seen = {} /\ at = "idle" /\ wfeed = EmptyFeed
  BY DEF MInit
<1>2. Settled(wfeed) = {}
  BY <1>1 DEF Settled, EmptyFeed, Feed
<1>3. QED
  BY <1>1, <1>2, EmptySeq DEF HandledInv, SeenInv, AckedInv

(* No episode leaves the queue of the write consumer unnoticed: one that   *)
(* is acked is in the spool, and has its row and its vector unless the log *)
(* says that it was not stored (server.py and agent_backend.py).           *)
THEOREM AckedIsAlwaysStoredOrLogged == MSpec => []AckedIsStoredOrLogged
<1>1. HandledInv => AckedIsStoredOrLogged
  BY DEF HandledInv, AckedInv, Secure, AckedIsStoredOrLogged
<1>2. QED
  BY <1>1, HandledInit, HandledNext, MemInvHolds, PTL DEF MSpec

-----------------------------------------------------------------------------
(* Episodes are transcripts. *)

\* Who opens a session names an agent once.
MembersOnce ==
  \A s \in Sessions : \A j, k \in DOMAIN Members[s] : Members[s][j] = Members[s][k] => j = k

\* What the first p events say of a session.
SaysBefore(s, p) == {i \in 1 .. p : stream[i].session = s /\ stream[i].kind = "message"}
NumBefore(s, p) == Cardinality(SaysBefore(s, p))
Before(s, kind, p) == \E i \in 1 .. p : stream[i].session = s /\ stream[i].kind = kind

\* A session is opened once, before its messages, which are numbered; it is
\* closed once, and nothing follows.
Follows(e, p) ==
  /\ e.kind = "message" => e.n = NumBefore(e.session, p) + 1
  /\ Before(e.session, "opened", p) <=> e.kind # "opened"
  /\ ~Before(e.session, "closed", p)
SessionsWellFormed == \A i \in 1 .. Len(stream) : Follows(stream[i], i - 1)

\* What the distiller holds once the first p events are done.
HeldAt(k, l, p) ==
  \A s \in Sessions :
    /\ s \in k <=> Before(s, "opened", p) /\ ~Before(s, "closed", p)
    /\ l[s] = IF s \in k THEN FirstLines(NumBefore(s, p)) ELSE <<>>

\* The durable brings the events in order, each once, and those that are not
\* acked are in hand.
Done == feed.next - Len(feed.batch)
InOrder ==
  /\ Done \in Nat /\ feed.out = Done + 1 .. feed.next
  /\ \A k \in 1 .. Len(feed.batch) : feed.batch[k] = Done + k

\* Who has an episode: the members of a session whose close is done, and of
\* the one being closed those that are not in fan any more.
Told(a, s) == \E i \in 1 .. Len(writes) : writes[i].agent = a /\ writes[i].session = s
ToldOnce ==
  /\ \A i \in 1 .. Len(writes) : IsTranscript(i)
  /\ \A i, j \in 1 .. Len(writes) :
       writes[i].agent = writes[j].agent /\ writes[i].session = writes[j].session => i = j
ToldClosed ==
  /\ \A i \in 1 .. Len(writes) :
       \/ Before(writes[i].session, "closed", Done)
       \/ closing /\ writes[i].session = Event.session /\ writes[i].agent \notin Range(fan)
  /\ \A s \in Sessions : \A a \in Range(Members[s]) :
       Before(s, "closed", Done) /\ Transcript(s) # <<>> => Told(a, s)

\* An agent in fan is there once; the members that are not have been told.
Fanned ==
  /\ ~closing => fan = <<>>
  /\ \A j, k \in DOMAIN fan : fan[j] = fan[k] => j = k
  /\ closing => \A a \in Range(Members[Event.session]) :
       Transcript(Event.session) # <<>> => a \in Range(fan) \/ Told(a, Event.session)

Quiet ==
  backend # "down" /\ InOrder /\ HeldAt(known, lines, Done) /\ ToldOnce /\ ToldClosed /\ Fanned

QuietInv == SessionsWellFormed /\ (faults = 0 => Quiet)

-----------------------------------------------------------------------------
(* Counting messages. *)

LEMMA NumBeforeTyped ==
  ASSUME NEW p \in Nat, NEW s
  PROVE  IsFiniteSet(SaysBefore(s, p)) /\ NumBefore(s, p) \in Nat
<1>1. IsFiniteSet(1 .. p)
  BY FS_Interval
<1>2. IsFiniteSet(SaysBefore(s, p))
  BY <1>1, FS_Subset DEF SaysBefore
<1>3. QED
  BY <1>2, FS_CardinalityType DEF NumBefore

\* One event more.
LEMMA OneMore ==
  ASSUME NEW p \in Nat, NEW s
  PROVE  /\ NumBefore(s, p + 1) =
              NumBefore(s, p)
              + (IF stream[p + 1].session = s /\ stream[p + 1].kind = "message" THEN 1 ELSE 0)
         /\ \A kind : Before(s, kind, p + 1)
              <=> Before(s, kind, p) \/ (stream[p + 1].session = s /\ stream[p + 1].kind = kind)
<1>1. 1 .. p + 1 = (1 .. p) \cup {p + 1} /\ p + 1 \notin 1 .. p
  OBVIOUS
<1>2. \A kind : Before(s, kind, p + 1)
        <=> Before(s, kind, p) \/ (stream[p + 1].session = s /\ stream[p + 1].kind = kind)
  BY <1>1 DEF Before
<1>3. CASE stream[p + 1].session = s /\ stream[p + 1].kind = "message"
  <2>1. SaysBefore(s, p + 1) = SaysBefore(s, p) \cup {p + 1} /\ p + 1 \notin SaysBefore(s, p)
    BY <1>1, <1>3 DEF SaysBefore
  <2>2. NumBefore(s, p + 1) = NumBefore(s, p) + 1
    BY <2>1, NumBeforeTyped, FS_AddElement DEF NumBefore
  <2>3. QED
    BY <1>2, <1>3, <2>2
<1>4. CASE ~(stream[p + 1].session = s /\ stream[p + 1].kind = "message")
  <2>1. SaysBefore(s, p + 1) = SaysBefore(s, p)
    BY <1>1, <1>4 DEF SaysBefore
  <2>2. NumBefore(s, p + 1) = NumBefore(s, p) + 0
    BY <2>1, NumBeforeTyped DEF NumBefore
  <2>3. QED
    BY <1>2, <1>4, <2>2
<1>5. QED
  BY <1>3, <1>4

\* All events are those before the end.
LEMMA AllBefore ==
  ASSUME stream \in Seq(Events), NEW s
  PROVE  /\ Cardinality(Says(s)) = NumBefore(s, Len(stream))
         /\ \A kind : Happened(s, kind) <=> Before(s, kind, Len(stream))
<1>1. DOMAIN stream = 1 .. Len(stream)
  BY LenProperties
<1>2. QED
  BY <1>1 DEF Says, SaysBefore, NumBefore, Happened, Before

\* The first events of a stream that grows are those it had.
LEMMA PrefixStays ==
  ASSUME stream \in Seq(Events), NEW e \in Events, stream' = Append(stream, e),
         NEW p \in 0 .. Len(stream), NEW s
  PROVE  /\ NumBefore(s, p)' = NumBefore(s, p)
         /\ \A kind : Before(s, kind, p)' <=> Before(s, kind, p)
<1>1. \A i \in 1 .. p : stream'[i] = stream[i]
  BY AppendProperties, LenProperties
<1>2. SaysBefore(s, p)' = SaysBefore(s, p)
  BY <1>1 DEF SaysBefore
<1>3. QED
  BY <1>1, <1>2 DEF NumBefore, Before

\* A message of a session that is closed comes before its close.
LEMMA NothingFollows ==
  ASSUME stream \in Seq(Events), SessionsWellFormed, NEW p \in 1 .. Len(stream),
         stream[p].kind = "closed"
  PROVE  Cardinality(Says(stream[p].session)) = NumBefore(stream[p].session, p - 1)
<1>1. ASSUME NEW i \in 1 .. Len(stream), stream[i].session = stream[p].session, stream[i].kind = "message"
      PROVE  i \in 1 .. p - 1
  <2>1. Len(stream) \in Nat
    BY LenProperties
  <2>2. CASE i > p
    <3>1. Before(stream[i].session, "closed", i - 1)
      BY <1>1, <2>1, <2>2 DEF Before
    <3>2. QED
      BY <3>1 DEF SessionsWellFormed, Follows
  <2>3. i # p
    BY <1>1
  <2>4. QED
    BY <2>1, <2>2, <2>3
<1>2. Says(stream[p].session) = SaysBefore(stream[p].session, p - 1)
  <2>1. DOMAIN stream = 1 .. Len(stream) /\ Len(stream) \in Nat
    BY LenProperties
  <2>2. QED
    BY <1>1, <2>1 DEF Says, SaysBefore
<1>3. QED
  BY <1>2 DEF NumBefore

\* The first lines, of one message more.
LEMMA FirstLinesNext ==
  ASSUME NEW c \in Nat
  PROVE  FirstLines(c + 1) =
           IF Full(FirstLines(c)) THEN FirstLines(c) ELSE Append(FirstLines(c), c + 1)
<1>1. MaxLines \in Nat
  BY MemoryAssumption
<1>2. FirstLines(c) \in Seq(Nat) /\ Len(FirstLines(c)) = IF c < MaxLines THEN c ELSE MaxLines
  BY <1>1 DEF FirstLines
<1>3. CASE c < MaxLines
  <2>1. ~Full(FirstLines(c))
    BY <1>1, <1>2, <1>3 DEF Full
  <2>2. FirstLines(c) = [i \in 1 .. c |-> i] /\ FirstLines(c + 1) = [i \in 1 .. c + 1 |-> i]
    BY <1>1, <1>3 DEF FirstLines
  <2>3. Append(FirstLines(c), c + 1) = [i \in 1 .. c + 1 |-> i]
    BY <1>2, <1>3, <2>2
  <2>4. QED
    BY <2>1, <2>2, <2>3
<1>4. CASE ~(c < MaxLines)
  <2>1. Full(FirstLines(c))
    BY <1>1, <1>2, <1>4 DEF Full
  <2>2. FirstLines(c + 1) = FirstLines(c)
    BY <1>1, <1>4 DEF FirstLines
  <2>3. QED
    BY <2>1, <2>2
<1>5. QED
  BY <1>3, <1>4

LEMMA NoLines == FirstLines(0) = <<>>
<1>1. (IF 0 < MaxLines THEN 0 ELSE MaxLines) = 0
  <2>1. MaxLines \in Nat
    BY MemoryAssumption
  <2>2. QED
    BY <2>1
<1>2. FirstLines(0) = [i \in 1 .. 0 |-> i]
  BY <1>1 DEF FirstLines
<1>3. QED
  BY <1>2

-----------------------------------------------------------------------------
(* What the distiller holds follows the events it has done. *)

LEMMA NoneBeforeOpened ==
  ASSUME stream \in Seq(Events), SessionsWellFormed, NEW p \in 0 .. Len(stream), NEW s,
         ~Before(s, "opened", p)
  PROVE  NumBefore(s, p) = 0
<1>1. Len(stream) \in Nat
  BY LenProperties
<1>2. SaysBefore(s, p) = {}
  <2>1. ASSUME NEW i \in 1 .. p, stream[i].session = s, stream[i].kind = "message"
        PROVE  FALSE
    <3>1. i \in 1 .. Len(stream)
      BY <1>1
    <3>2. Before(s, "opened", i - 1)
      BY <2>1, <3>1 DEF SessionsWellFormed, Follows
    <3>3. QED
      BY <1>1, <3>2 DEF Before
  <2>2. QED
    BY <2>1 DEF SaysBefore
<1>3. QED
  BY <1>2, FS_EmptySet DEF NumBefore

LEMMA RememberAt ==
  ASSUME stream \in Seq(Events), SessionsWellFormed, NEW p \in 0 .. Len(stream) - 1,
         NEW k \in SUBSET Sessions, NEW l \in [Sessions -> Seq(Nat)], HeldAt(k, l, p),
         NEW m, m = Remember(Holds(k, l), stream[p + 1])
  PROVE  HeldAt(m.known, m.lines, p + 1)
<1>1. Len(stream) \in Nat /\ p \in Nat /\ p \in 0 .. Len(stream) /\ p + 1 \in 1 .. Len(stream)
  BY LenProperties
<1>2. PICK e \in Events : e = stream[p + 1]
  BY <1>1, ElementOfSeq
<1>3. PICK t \in Sessions : t = e.session
  BY DEF Events
<1>4. Follows(e, p)
  <2>1. (p + 1) - 1 = p
    BY <1>1
  <2>2. QED
    BY <1>1, <1>2, <2>1 DEF SessionsWellFormed
<1>5. \A s : /\ NumBefore(s, p + 1) = NumBefore(s, p) + (IF t = s /\ e.kind = "message" THEN 1 ELSE 0)
             /\ NumBefore(s, p) \in Nat
             /\ Before(s, "opened", p + 1) <=> Before(s, "opened", p) \/ (t = s /\ e.kind = "opened")
             /\ Before(s, "closed", p + 1) <=> Before(s, "closed", p) \/ (t = s /\ e.kind = "closed")
  BY <1>1, <1>2, <1>3, OneMore, NumBeforeTyped
<1>6. /\ e.kind = "message" => e.n = NumBefore(t, p) + 1
      /\ Before(t, "opened", p) <=> e.kind # "opened"
      /\ ~Before(t, "closed", p)
  BY <1>3, <1>4 DEF Follows
<1>7. \A s \in Sessions :
        /\ s \in k <=> Before(s, "opened", p) /\ ~Before(s, "closed", p)
        /\ l[s] = IF s \in k THEN FirstLines(NumBefore(s, p)) ELSE <<>>
  BY DEF HeldAt
<1>8. m = Remember(Holds(k, l), e) /\ \A a, b : Holds(a, b).known = a /\ Holds(a, b).lines = b
  BY <1>2 DEF Holds
<1>9. CASE e.kind = "opened"
  <2>1. m = Holds(k \cup {t}, l)
    BY <1>3, <1>8, <1>9 DEF Remember, ApplyRoster, Note
  <2>2. t \notin k /\ l[t] = <<>> /\ NumBefore(t, p) = 0
    BY <1>1, <1>6, <1>7, <1>9, NoneBeforeOpened
  <2>3. m.known = k \cup {t} /\ m.lines = l
    BY <1>8, <2>1
  <2>4. ASSUME NEW s \in Sessions
        PROVE  /\ s \in m.known <=> Before(s, "opened", p + 1) /\ ~Before(s, "closed", p + 1)
               /\ m.lines[s] = IF s \in m.known THEN FirstLines(NumBefore(s, p + 1)) ELSE <<>>
    <3>1. CASE s = t
      BY <1>5, <1>6, <1>9, <2>2, <2>3, <3>1, NoLines
    <3>2. CASE s # t
      BY <1>5, <1>7, <1>9, <2>3, <3>2
    <3>3. QED
      BY <3>1, <3>2
  <2>5. QED
    BY <2>4 DEF HeldAt
<1>10. CASE e.kind = "closed"
  <2>1. m = Holds(k \ {t}, [l EXCEPT ![t] = <<>>])
    BY <1>3, <1>8, <1>10 DEF Remember, ApplyRoster, Note
  <2>2. m.known = k \ {t} /\ m.lines[t] = <<>> /\ \A s \in Sessions \ {t} : m.lines[s] = l[s]
    <3>1. m.known = k \ {t} /\ m.lines = [l EXCEPT ![t] = <<>>]
      BY <1>8, <2>1
    <3>2. QED
      BY <3>1
  <2>3. ASSUME NEW s \in Sessions
        PROVE  /\ s \in m.known <=> Before(s, "opened", p + 1) /\ ~Before(s, "closed", p + 1)
               /\ m.lines[s] = IF s \in m.known THEN FirstLines(NumBefore(s, p + 1)) ELSE <<>>
    <3>1. CASE s = t
      BY <1>5, <1>10, <2>2, <3>1
    <3>2. CASE s # t
      BY <1>5, <1>7, <1>10, <2>2, <3>2
    <3>3. QED
      BY <3>1, <3>2
  <2>4. QED
    BY <2>3 DEF HeldAt
<1>11. CASE e.kind = "message"
  <2>1. t \in k /\ l[t] = FirstLines(NumBefore(t, p)) /\ e.n = NumBefore(t, p) + 1
    BY <1>6, <1>7, <1>11
  <2>2. m = Note(Holds(k, l), e)
    BY <1>8, <1>11 DEF Remember, ApplyRoster
  <2>3. m = IF Full(l[t]) THEN Holds(k, l) ELSE Holds(k, [l EXCEPT ![t] = Append(@, e.n)])
    BY <1>3, <1>8, <1>11, <2>1, <2>2 DEF Note
  <2>4. m.known = k /\ m.lines[t] = FirstLines(NumBefore(t, p) + 1)
        /\ \A s \in Sessions \ {t} : m.lines[s] = l[s]
    <3>1. NumBefore(t, p) \in Nat
      BY <1>5
    <3>2. CASE Full(l[t])
      <4>1. m.known = k /\ m.lines = l
        BY <1>8, <2>3, <3>2
      <4>2. FirstLines(NumBefore(t, p) + 1) = l[t]
        BY <2>1, <3>1, <3>2, FirstLinesNext
      <4>3. QED
        BY <4>1, <4>2
    <3>3. CASE ~Full(l[t])
      <4>1. m.known = k /\ m.lines = [l EXCEPT ![t] = Append(@, e.n)]
        BY <1>8, <2>3, <3>3
      <4>2. FirstLines(NumBefore(t, p) + 1) = Append(l[t], e.n)
        BY <2>1, <3>1, <3>3, FirstLinesNext
      <4>3. QED
        BY <4>1, <4>2
    <3>4. QED
      BY <3>2, <3>3
  <2>5. ASSUME NEW s \in Sessions
        PROVE  /\ s \in m.known <=> Before(s, "opened", p + 1) /\ ~Before(s, "closed", p + 1)
               /\ m.lines[s] = IF s \in m.known THEN FirstLines(NumBefore(s, p + 1)) ELSE <<>>
    <3>1. CASE s = t
      BY <1>5, <1>6, <1>11, <2>1, <2>4, <3>1
    <3>2. CASE s # t
      <4>1. NumBefore(s, p + 1) = NumBefore(s, p)
        BY <1>5, <3>2
      <4>2. QED
        BY <1>5, <1>7, <1>11, <2>4, <3>2, <4>1
    <3>3. QED
      BY <3>1, <3>2
  <2>6. QED
    BY <2>5 DEF HeldAt
<1>12. QED
  BY <1>9, <1>10, <1>11 DEF Events, Kinds

-----------------------------------------------------------------------------
(* The sessions go on. *)

\* How far the distiller is, and what it has at hand.
LEMMA DoneTyped ==
  ASSUME MTypeInv, InOrder
  PROVE  /\ Done \in 0 .. Len(stream) /\ Len(stream) \in Nat /\ feed.next = Done + Len(feed.batch)
         /\ Len(feed.batch) \in Nat
         /\ feed.batch # <<>> =>
              /\ Head(feed.batch) = Done + 1 /\ Done + 1 \in 1 .. Len(stream) /\ Done + 1 <= feed.next
              /\ Event = stream[Done + 1] /\ Event \in Events
<1>1. feed.batch \in Seq(1 .. feed.next) /\ feed.next \in 0 .. Len(stream) /\ stream \in Seq(Events)
  BY DEF MTypeInv, FeedType
<1>2. Len(feed.batch) \in Nat /\ Len(stream) \in Nat
  BY <1>1, LenProperties
<1>3. Done \in 0 .. Len(stream) /\ feed.next = Done + Len(feed.batch)
  BY <1>1, <1>2 DEF Done, InOrder
<1>4. ASSUME feed.batch # <<>>
      PROVE  Head(feed.batch) = Done + 1 /\ Len(feed.batch) > 0
  <2>1. Len(feed.batch) > 0 /\ Head(feed.batch) = feed.batch[1]
    BY <1>1, <1>4, EmptySeq
  <2>2. QED
    BY <1>2, <2>1 DEF InOrder
<1>5. QED
  BY <1>1, <1>2, <1>3, <1>4, EventTyped DEF Event

\* An event is published that may follow.
LEMMA EmitFollows ==
  ASSUME MTypeInv, QuietInv, NEW s \in Sessions, NEW kind \in Kinds, NEW n \in Nat,
         Emit(s, kind, n), Follows([session |-> s, kind |-> kind, n |-> n], Len(stream)),
         MTypeInv'
  PROVE  QuietInv'
<1> DEFINE e == [session |-> s, kind |-> kind, n |-> n]
<1>1. stream \in Seq(Events) /\ e \in Events /\ stream' = Append(stream, e) /\ Len(stream) \in Nat
  BY LenProperties DEF MTypeInv, Emit, Events
<1>2. stream' \in Seq(Events) /\ Len(stream') = Len(stream) + 1 /\ stream'[Len(stream) + 1] = e
      /\ \A i \in 1 .. Len(stream) : stream'[i] = stream[i]
  BY <1>1, AppendProperties
<1>3. UNCHANGED <<writes, feed, known, lines, fan, closing, backend, faults>>
  BY DEF Emit, dvars
<1>4. \A p \in 0 .. Len(stream) : \A t : NumBefore(t, p)' = NumBefore(t, p)
        /\ \A k : Before(t, k, p)' <=> Before(t, k, p)
  <2> HIDE DEF e
  <2>1. QED
    BY <1>1, PrefixStays
<1>5. SessionsWellFormed'
  <2>1. ASSUME NEW i \in 1 .. Len(stream')
        PROVE  Follows(stream[i], i - 1)'
    <3>1. CASE i \in 1 .. Len(stream)
      <4>1. i - 1 \in 0 .. Len(stream) /\ stream'[i] = stream[i] /\ Follows(stream[i], i - 1)
        BY <1>1, <1>2, <3>1 DEF QuietInv, SessionsWellFormed
      <4>2. QED
        BY <1>4, <4>1 DEF Follows
    <3>2. CASE i = Len(stream) + 1
      <4>1. i - 1 = Len(stream) /\ Len(stream) \in 0 .. Len(stream) /\ stream'[i] = e
        BY <1>1, <1>2, <3>2
      <4>2. Follows(e, Len(stream))
        OBVIOUS
      <4> HIDE DEF e
      <4>3. QED
        BY <1>4, <4>1, <4>2 DEF Follows
    <3>3. QED
      BY <1>1, <1>2, <3>1, <3>2
  <2>2. QED
    BY <2>1 DEF SessionsWellFormed
<1>6. ASSUME faults = 0
      PROVE  Quiet'
  <2>1. backend # "down" /\ InOrder /\ HeldAt(known, lines, Done) /\ ToldOnce /\ ToldClosed /\ Fanned
    BY <1>6 DEF QuietInv, Quiet
  <2>2. Done \in 0 .. Len(stream) /\ Done' = Done
    BY <1>3, <2>1, DoneTyped DEF Done
  <2>11. DOMAIN stream = 1 .. Len(stream) /\ DOMAIN stream' = 1 .. Len(stream')
    BY <1>1, <1>2, LenProperties
  <2>12. \A t, k : Before(t, k, Done)' <=> Before(t, k, Done)
    BY <1>2, <2>2 DEF Before
  <2>3. \A t : Happened(t, "closed") => Happened(t, "closed")' /\ Transcript(t)' = Transcript(t)
    <3>1. ASSUME NEW t, Happened(t, "closed")
          PROVE  Happened(t, "closed")' /\ Transcript(t)' = Transcript(t)
      <4>1. Before(t, "closed", Len(stream)) /\ Happened(t, "closed")'
        BY <1>1, <1>2, <2>11, <3>1 DEF Before, Happened
      <4>2. t # s
        BY <4>1 DEF Follows
      <4>3. Says(t)' = Says(t)
        BY <1>1, <1>2, <2>11, <4>2 DEF Says
      <4>4. QED
        BY <4>1, <4>3 DEF Transcript
    <3>2. QED
      BY <3>1
  <2>4. \A t \in Sessions : Before(t, "closed", Done) => Happened(t, "closed")
    BY <1>1, <2>2, <2>11 DEF Before, Happened
  <2>5. closing => feed.batch # <<>> /\ Event' = Event /\ Happened(Event.session, "closed")
    BY <1>1, <1>2, <1>3, EventTyped, LenProperties DEF MTypeInv, ClosingOne, Event, Happened
  <2>6. ToldOnce'
    BY <1>3, <2>1, <2>3 DEF ToldOnce, IsTranscript
  <2>7. ToldClosed'
    <3>1. \A i \in 1 .. Len(writes) :
            \/ Before(writes[i].session, "closed", Done)
            \/ closing /\ writes[i].session = Event.session /\ writes[i].agent \notin Range(fan)
      BY <2>1 DEF ToldClosed
    <3>2. ASSUME NEW i \in 1 .. Len(writes')
          PROVE  (\/ Before(writes[i].session, "closed", Done)
                  \/ closing /\ writes[i].session = Event.session /\ writes[i].agent \notin Range(fan))'
      <4>1. PICK t : t = writes[i].session
        OBVIOUS
      <4>2. CASE Before(t, "closed", Done)
        <5>1. Before(t, "closed", Done)'
          BY <2>12, <4>2
        <5>2. QED
          BY <1>3, <4>1, <5>1 DEF Before
      <4>3. CASE closing /\ writes[i].session = Event.session /\ writes[i].agent \notin Range(fan)
        BY <1>3, <2>5, <4>3
      <4>4. QED
        BY <1>3, <3>1, <4>1, <4>2, <4>3
    <3>3. ASSUME NEW t \in Sessions, NEW a \in Range(Members[t]),
                 Before(t, "closed", Done)', Transcript(t)' # <<>>
          PROVE  Told(a, t)'
      <4>1. Before(t, "closed", Done)
        BY <2>12, <3>3
      <4>2. Transcript(t) # <<>>
        BY <2>3, <2>4, <3>3, <4>1
      <4>3. Told(a, t)
        BY <2>1, <4>1, <4>2 DEF ToldClosed
      <4>4. QED
        BY <1>3, <4>3 DEF Told
    <3>4. QED
      BY <3>2, <3>3 DEF ToldClosed
  <2>8. Fanned'
    BY <1>3, <2>1, <2>3, <2>5 DEF Fanned, Told
  <2>9. HeldAt(known, lines, Done)' /\ InOrder'
    BY <1>3, <1>4, <2>1, <2>2 DEF HeldAt, InOrder
  <2>10. QED
    BY <1>3, <2>1, <2>6, <2>7, <2>8, <2>9 DEF Quiet
<1>7. QED
  BY <1>3, <1>5, <1>6 DEF QuietInv

LEMMA TalkQuiet ==
  ASSUME MTypeInv, QuietInv, Talk, MTypeInv'
  PROVE  QuietInv'
<1>1. PICK s \in Sessions : Open(s) \/ Say(s) \/ Close(s)
  BY DEF Talk
<1>2. stream \in Seq(Events) /\ Len(stream) \in Nat
  BY LenProperties DEF MTypeInv
<1>3. /\ Cardinality(Says(s)) = NumBefore(s, Len(stream)) /\ Cardinality(Says(s)) \in Nat
      /\ \A kind : Happened(s, kind) <=> Before(s, kind, Len(stream))
  BY <1>2, AllBefore, NumBeforeTyped
<1>4. Before(s, "closed", Len(stream)) => Before(s, "opened", Len(stream))
  <2>1. ASSUME NEW i \in 1 .. Len(stream), stream[i].session = s, stream[i].kind = "closed"
        PROVE  Before(s, "opened", Len(stream))
    <3>1. Before(s, "opened", i - 1)
      BY <2>1 DEF QuietInv, SessionsWellFormed, Follows
    <3>2. QED
      BY <1>2, <3>1 DEF Before
  <2>2. QED
    BY <2>1 DEF Before
<1>5. PICK kind \in Kinds, n \in Nat :
        Emit(s, kind, n) /\ Follows([session |-> s, kind |-> kind, n |-> n], Len(stream))
  <2>1. CASE Open(s)
    BY <1>3, <1>4, <2>1 DEF Open, Kinds, Follows
  <2>2. CASE Say(s)
    BY <1>3, <2>2 DEF Say, Kinds, Follows
  <2>3. CASE Close(s)
    BY <1>3, <2>3 DEF Close, Kinds, Follows
  <2>4. QED
    BY <1>1, <2>1, <2>2, <2>3
<1>6. QED
  BY <1>5, EmitFollows

-----------------------------------------------------------------------------
(* The distiller. *)

LEMMA SameStream ==
  ASSUME UNCHANGED stream
  PROVE  /\ SessionsWellFormed' <=> SessionsWellFormed
         /\ \A s, kind, p : Before(s, kind, p)' <=> Before(s, kind, p)
         /\ \A s, p : NumBefore(s, p)' = NumBefore(s, p)
         /\ \A s, kind : Happened(s, kind)' <=> Happened(s, kind)
         /\ \A s : Transcript(s)' = Transcript(s)
<1>1. \A s, kind, p : Before(s, kind, p)' <=> Before(s, kind, p)
  BY DEF Before
<1>2. \A s, p : NumBefore(s, p)' = NumBefore(s, p)
  BY DEF NumBefore, SaysBefore
<1>3. SessionsWellFormed' <=> SessionsWellFormed
  BY DEF SessionsWellFormed, Follows, Before, NumBefore, SaysBefore
<1>4. \A s, kind : Happened(s, kind)' <=> Happened(s, kind)
  BY DEF Happened
<1>5. \A s : Transcript(s)' = Transcript(s)
  BY DEF Transcript, Says
<1>6. QED
  BY <1>1, <1>2, <1>3, <1>4, <1>5

\* Steps that do no event.
LEMMA SameDone ==
  ASSUME Quiet, UNCHANGED <<stream, writes, known, lines, fan, closing, backend>>,
         InOrder', Done' = Done, closing => Event' = Event
  PROVE  Quiet'
<1>1. HeldAt(known, lines, Done)'
  <2>1. \A s : SaysBefore(s, Done)' = SaysBefore(s, Done)
    BY DEF SaysBefore
  <2>2. \A s : NumBefore(s, Done)' = NumBefore(s, Done)
    BY <2>1 DEF NumBefore
  <2>3. \A s, kind : Before(s, kind, Done)' <=> Before(s, kind, Done)
    BY DEF Before
  <2>4. QED
    BY <2>2, <2>3 DEF Quiet, HeldAt
<1>2. ToldOnce'
  <2>1. \A i \in 1 .. Len(writes) : IsTranscript(i)' <=> IsTranscript(i)
    BY DEF IsTranscript, Happened, Transcript, Says
  <2>2. QED
    BY <2>1 DEF Quiet, ToldOnce
<1>3. \A s : Transcript(s)' = Transcript(s)
  BY SameStream
<1>4. \A a, s : Told(a, s)' <=> Told(a, s)
  BY DEF Told
<1>5. ToldClosed'
  <2>1. \A s : Before(s, "closed", Done)' <=> Before(s, "closed", Done)
    BY DEF Before
  <2>2. \A i \in 1 .. Len(writes) :
          Before(writes[i].session, "closed", Done)' <=> Before(writes[i].session, "closed", Done)
    BY DEF Before
  <2>3. QED
    BY <1>3, <1>4, <2>1, <2>2 DEF Quiet, ToldClosed
<1>6. Fanned'
  <2>1. closing => Event'.session = Event.session
    OBVIOUS
  <2>2. QED
    BY <1>3, <1>4, <2>1 DEF Quiet, Fanned
<1>7. QED
  BY <1>1, <1>2, <1>5, <1>6 DEF Quiet

\* The write consumer touches nothing of it.
LEMMA QuietStays ==
  ASSUME QuietInv, UNCHANGED <<stream, writes, dvars, backend>>, faults' = 0 => faults = 0
  PROVE  QuietInv'
<1>1. UNCHANGED <<stream, writes, feed, known, lines, fan, closing, backend>> /\ Done' = Done
  BY DEF dvars, Done
<1>2. SessionsWellFormed'
  BY <1>1, SameStream DEF QuietInv
<1>3. ASSUME Quiet
      PROVE  Quiet'
  <2>1. InOrder' /\ Event' = Event
    BY <1>1, <1>3 DEF Quiet, InOrder, Event
  <2>2. QED
    BY <1>1, <1>3, <2>1, SameDone
<1>4. QED
  BY <1>2, <1>3 DEF QuietInv

\* An event that is done: the next one is at hand, and what is held is what
\* the stream says so far.
LEMMA DoneQuiet ==
  ASSUME MTypeInv, SessionsWellFormed, InOrder, HeldAt(known, lines, Done),
         feed.batch # <<>>, EventDone, UNCHANGED stream, faults = 0, faults' = 0
  PROVE  InOrder' /\ Done' = Done + 1 /\ HeldAt(known, lines, Done)'
<1>1. feed' = Acked(feed)
  BY DEF EventDone, Fault
<1>2. /\ Done \in Nat /\ Done \in 0 .. Len(stream) - 1 /\ feed.next = Done + Len(feed.batch)
      /\ Len(feed.batch) \in Nat /\ Head(feed.batch) = Done + 1 /\ Event = stream[Done + 1]
  BY DoneTyped
<1>3. /\ feed.batch \in Seq(1 .. feed.next) /\ Len(Tail(feed.batch)) = Len(feed.batch) - 1
      /\ \A k \in 1 .. Len(feed.batch) - 1 : Tail(feed.batch)[k] = feed.batch[k + 1]
  <2>1. feed.batch \in Seq(1 .. feed.next)
    BY DEF MTypeInv, FeedType
  <2>2. QED
    BY <2>1, HeadTailProperties
<1>4. feed'.next = feed.next /\ feed'.batch = Tail(feed.batch) /\ feed'.out = feed.out \ {Done + 1}
  BY <1>1, <1>2 DEF Acked, Feed
<1>5. Done' = Done + 1
  BY <1>2, <1>3, <1>4 DEF Done
<1>6. InOrder'
  BY <1>2, <1>3, <1>4, <1>5 DEF InOrder
<1>7. HeldAt(known', lines', Done + 1)
  <2>1. PICK m : m = Remember(Holding, Event)
    OBVIOUS
  <2>2. known' = m.known /\ lines' = m.lines /\ m = Remember(Holds(known, lines), stream[Done + 1])
    BY <1>2, <2>1 DEF EventDone, Holding
  <2>3. stream \in Seq(Events) /\ known \in SUBSET Sessions /\ lines \in [Sessions -> Seq(Nat)]
    BY DEF MTypeInv
  <2>4. HeldAt(m.known, m.lines, Done + 1)
    BY <1>2, <2>2, <2>3, RememberAt
  <2>5. QED
    BY <2>2, <2>4
<1>8. HeldAt(known, lines, Done)'
  <2>1. \A s : SaysBefore(s, Done)' = SaysBefore(s, Done + 1)
    BY <1>5 DEF SaysBefore
  <2>2. \A s : NumBefore(s, Done)' = NumBefore(s, Done + 1)
    BY <2>1 DEF NumBefore
  <2>3. \A s, kind : Before(s, kind, Done)' <=> Before(s, kind, Done + 1)
    BY <1>5 DEF Before
  <2>4. QED
    BY <1>7, <2>2, <2>3 DEF HeldAt
<1>9. QED
  BY <1>5, <1>6, <1>8

\* The session of a closed event at hand is open until the event is done.
LEMMA ClosingNow ==
  ASSUME MTypeInv, SessionsWellFormed, InOrder, HeldAt(known, lines, Done),
         feed.batch # <<>>, Event.kind = "closed"
  PROVE  /\ Event.session \in known /\ lines[Event.session] = Transcript(Event.session)
         /\ Happened(Event.session, "closed") /\ ~Before(Event.session, "closed", Done)
         /\ Event.session \in Sessions
<1>1. /\ Done + 1 \in 1 .. Len(stream) /\ (Done + 1) - 1 = Done /\ Event = stream[Done + 1]
      /\ Event \in Events /\ stream \in Seq(Events) /\ Len(stream) \in Nat
  BY DoneTyped DEF MTypeInv
<1>2. PICK e \in Events : e = Event
  BY <1>1
<1>3. PICK p \in 1 .. Len(stream) : p = Done + 1
  BY <1>1
<1>4. Follows(stream[p], p - 1) /\ stream[p] = e
  BY <1>1, <1>2, <1>3 DEF SessionsWellFormed
<1>5. Before(e.session, "opened", Done) /\ ~Before(e.session, "closed", Done)
  BY <1>1, <1>2, <1>3, <1>4 DEF Follows
<1>6. e.session \in known /\ lines[e.session] = FirstLines(NumBefore(e.session, Done)) /\ e.session \in Sessions
  BY <1>5 DEF HeldAt, Events
<1>7. Cardinality(Says(e.session)) = NumBefore(e.session, Done)
  BY <1>1, <1>2, <1>3, <1>4, NothingFollows
<1>8. Happened(e.session, "closed")
  <2>1. DOMAIN stream = 1 .. Len(stream)
    BY <1>1, LenProperties
  <2>2. QED
    BY <1>2, <1>4, <2>1 DEF Happened
<1>9. QED
  BY <1>2, <1>5, <1>6, <1>7, <1>8 DEF Transcript

LEMMA FetchQuiet ==
  ASSUME MTypeInv, QuietInv, FetchSessions
  PROVE  QuietInv'
<1>1. UNCHANGED <<stream, writes, known, lines, fan, closing, backend, faults>> /\ feed.batch = <<>>
  BY DEF FetchSessions
<1>2. SessionsWellFormed' /\ ~closing
  BY <1>1, SameStream DEF QuietInv, MTypeInv, ClosingOne
<1>3. ASSUME Quiet
      PROVE  Quiet'
  <2>1. Done = feed.next /\ Done \in 0 .. Len(stream) /\ feed.out = {} /\ Len(stream) \in Nat
    <3>1. Done \in 0 .. Len(stream) /\ feed.next = Done + Len(feed.batch) /\ Len(feed.batch) = 0
          /\ Len(stream) \in Nat
      BY <1>1, <1>3, DoneTyped DEF Quiet
    <3>2. QED
      BY <1>3, <3>1 DEF Quiet, InOrder
  <2>2. feed.next # Len(stream) /\ feed' = Fetched(feed, Len(stream))
    BY <2>1 DEF FetchSessions, Fetches
  <2> DEFINE r == Reach(feed, Len(stream))
  <2>3. r \in Nat /\ r - Done \in Nat
    BY <2>1, DurableAssumption DEF Reach
  <2> HIDE DEF r
  <2>4. feed'.next = r /\ feed'.out = Done + 1 .. r /\ feed'.batch = [i \in 1 .. r - Done |-> Done + i]
    BY <2>1, <2>2 DEF Fetched, Feed, NextBatch, r
  <2>5. Len(feed'.batch) = r - Done
    BY <2>3, <2>4
  <2>6. Done' = Done
    BY <2>1, <2>3, <2>4, <2>5 DEF Done
  <2>7. InOrder'
    BY <2>1, <2>3, <2>4, <2>5, <2>6 DEF InOrder
  <2>8. QED
    BY <1>1, <1>2, <1>3, <2>6, <2>7, SameDone
<1>4. QED
  BY <1>1, <1>2, <1>3 DEF QuietInv

\* An event that is done, and is not the close of a session some of whose
\* agents have still to be told.
LEMMA AdvanceQuiet ==
  ASSUME MTypeInv, QuietInv, feed.batch # <<>>, EventDone,
         UNCHANGED <<stream, writes, fan, backend>>, ~closing', fan = <<>>,
         Event.kind = "closed" <=> closing, faults' = 0
  PROVE  QuietInv'
<1>1. faults = 0
  BY DEF EventDone, NoFault, Fault, MTypeInv
<1>2. Quiet /\ SessionsWellFormed /\ SessionsWellFormed'
  BY <1>1, SameStream DEF QuietInv
<1>3. InOrder' /\ Done' = Done + 1 /\ HeldAt(known, lines, Done)'
  BY <1>1, <1>2, DoneQuiet DEF Quiet
<1>4. Done \in Nat /\ Event = stream[Done + 1]
  BY <1>2, DoneTyped DEF Quiet
<1>5. \A s : Before(s, "closed", Done)'
        <=> Before(s, "closed", Done) \/ (Event.session = s /\ closing)
  <2>1. \A s : Before(s, "closed", Done)' <=> Before(s, "closed", Done + 1)
    BY <1>3 DEF Before
  <2>2. \A s : Before(s, "closed", Done + 1)
          <=> Before(s, "closed", Done) \/ (Event.session = s /\ Event.kind = "closed")
    BY <1>4, OneMore
  <2>3. QED
    BY <2>1, <2>2
<1>6. ToldOnce'
  <2>1. \A i \in 1 .. Len(writes) : IsTranscript(i)' <=> IsTranscript(i)
    BY DEF IsTranscript, Happened, Transcript, Says
  <2>2. QED
    BY <1>2, <2>1 DEF Quiet, ToldOnce
<1>7. \A a, s : Told(a, s)' <=> Told(a, s)
  BY DEF Told
<1>8. \A s : Transcript(s)' = Transcript(s)
  BY SameStream
<1>9. ToldClosed'
  <2>1. ASSUME NEW i \in 1 .. Len(writes)
        PROVE  Before(writes[i].session, "closed", Done)'
    <3>1. PICK t : t = writes[i].session
      OBVIOUS
    <3>2. Before(t, "closed", Done) \/ (Event.session = t /\ closing)
      BY <1>2, <3>1 DEF Quiet, ToldClosed
    <3>3. Before(t, "closed", Done)'
      BY <1>5, <3>2
    <3>4. QED
      BY <3>1, <3>3 DEF Before
  <2>2. ASSUME NEW s \in Sessions, NEW a \in Range(Members[s]),
               Before(s, "closed", Done)', Transcript(s)' # <<>>
        PROVE  Told(a, s)'
    <3>1. Transcript(s) # <<>>
      BY <1>8, <2>2
    <3>2. CASE Before(s, "closed", Done)
      BY <1>2, <1>7, <3>1, <3>2 DEF Quiet, ToldClosed
    <3>3. CASE Event.session = s /\ closing
      <4>1. a \notin Range(fan)
        BY DEF Range
      <4>2. Told(a, s)
        BY <1>2, <3>1, <3>3, <4>1 DEF Quiet, Fanned
      <4>3. QED
        BY <1>7, <4>2
    <3>4. QED
      BY <1>5, <2>2, <3>2, <3>3
  <2>3. QED
    BY <2>1, <2>2 DEF ToldClosed
<1>10. Fanned'
  BY DEF Fanned
<1>11. QED
  BY <1>2, <1>3, <1>6, <1>9, <1>10 DEF QuietInv, Quiet

LEMMA HandleQuiet ==
  ASSUME MTypeInv, QuietInv, Handle \/ Closed
  PROVE  QuietInv'
<1>1. feed.batch # <<>> /\ EventDone /\ UNCHANGED <<stream, writes, fan, backend>>
      /\ (Event.kind = "closed" <=> closing) /\ ~closing' /\ (closing => fan = <<>>)
  BY DEF Handle, Closed, MTypeInv, ClosingOne
<1>2. SessionsWellFormed'
  BY <1>1, SameStream DEF QuietInv
<1>3. ASSUME faults' = 0
      PROVE  QuietInv'
  <2>1. faults = 0
    BY <1>1, <1>3 DEF EventDone, NoFault, Fault, MTypeInv
  <2>2. fan = <<>>
    BY <1>1, <2>1 DEF QuietInv, Quiet, Fanned
  <2>3. QED
    BY <1>1, <1>3, <2>2, AdvanceQuiet
<1>4. QED
  BY <1>2, <1>3 DEF QuietInv

LEMMA DistillQuiet ==
  ASSUME MTypeInv, QuietInv, Distill, MembersOnce
  PROVE  QuietInv'
<1>1. /\ UNCHANGED <<stream, writes, feed, known, lines, backend, faults>>
      /\ feed.batch # <<>> /\ Event.kind = "closed" /\ ~closing /\ closing' /\ fan' = FanOut(Event.session)
  BY DEF Distill
<1>2. SessionsWellFormed' /\ SessionsWellFormed
  BY <1>1, SameStream DEF QuietInv
<1>3. ASSUME Quiet
      PROVE  Quiet'
  <2>1. Done' = Done /\ Event' = Event /\ InOrder'
    BY <1>1, <1>3 DEF Done, Event, Quiet, InOrder
  <2>2. HeldAt(known, lines, Done)'
    <3>1. \A s : SaysBefore(s, Done)' = SaysBefore(s, Done)
      BY <1>1, <2>1 DEF SaysBefore
    <3>2. \A s : NumBefore(s, Done)' = NumBefore(s, Done)
      BY <3>1 DEF NumBefore
    <3>3. \A s, kind : Before(s, kind, Done)' <=> Before(s, kind, Done)
      BY <1>1, <2>1 DEF Before
    <3>4. QED
      BY <1>1, <1>3, <3>2, <3>3 DEF Quiet, HeldAt
  <2>3. ToldOnce'
    <3>1. \A i \in 1 .. Len(writes) : IsTranscript(i)' <=> IsTranscript(i)
      BY <1>1 DEF IsTranscript, Happened, Transcript, Says
    <3>2. QED
      BY <1>1, <1>3, <3>1 DEF Quiet, ToldOnce
  <2>4. \A s : Transcript(s)' = Transcript(s)
    BY <1>1, SameStream
  <2>5. \A a, s : Told(a, s)' <=> Told(a, s)
    BY <1>1 DEF Told
  <2>6. ToldClosed'
    <3>1. \A s : Before(s, "closed", Done)' <=> Before(s, "closed", Done)
      BY <1>1, <2>1 DEF Before
    <3>2. \A i \in 1 .. Len(writes) :
            Before(writes[i].session, "closed", Done)' <=> Before(writes[i].session, "closed", Done)
      BY <1>1, <2>1 DEF Before
    <3>3. \A i \in 1 .. Len(writes) : Before(writes[i].session, "closed", Done)
      BY <1>1, <1>3 DEF Quiet, ToldClosed
    <3>4. QED
      BY <1>1, <1>3, <2>4, <2>5, <3>1, <3>2, <3>3 DEF Quiet, ToldClosed
  <2>7. Fanned'
    <3>1. PICK t \in Sessions : t = Event.session /\ t \in known /\ lines[t] = Transcript(t)
      BY <1>1, <1>2, <1>3, ClosingNow DEF Quiet
    <3>2. fan' = Members[t] \/ fan' = <<>>
      BY <1>1, <3>1 DEF FanOut
    <3>3. Transcript(t) # <<>> => fan' = Members[t]
      BY <1>1, <3>1 DEF FanOut
    <3>4. \A j, k \in DOMAIN fan' : fan'[j] = fan'[k] => j = k
      BY <3>2 DEF MembersOnce
    <3>5. \A a \in Range(Members[t]) : Transcript(t)' # <<>> => a \in Range(fan')
      BY <2>4, <3>3
    <3>6. Event'.session = t
      BY <2>1, <3>1
    <3>7. \A a \in Range(Members[Event'.session]) : Transcript(Event.session)' # <<>> => a \in Range(fan')
      BY <3>5, <3>6 DEF Transcript, Says
    <3>8. QED
      BY <1>1, <3>4, <3>7 DEF Fanned
  <2>8. QED
    BY <1>1, <1>3, <2>1, <2>2, <2>3, <2>6, <2>7 DEF Quiet
<1>4. QED
  BY <1>1, <1>2, <1>3 DEF QuietInv

\* The head of what is told each once is not in the tail.
LEMMA HeadIsGone ==
  ASSUME NEW f \in Seq(Agents), f # <<>>, \A j, k \in DOMAIN f : f[j] = f[k] => j = k
  PROVE  /\ Head(f) \in Range(f) /\ Head(f) \notin Range(Tail(f))
         /\ \A a : a \in Range(f) <=> a = Head(f) \/ a \in Range(Tail(f))
         /\ \A j, k \in DOMAIN Tail(f) : Tail(f)[j] = Tail(f)[k] => j = k
<1>1. /\ Head(f) = f[1] /\ Len(f) \in Nat /\ Len(f) > 0 /\ DOMAIN f = 1 .. Len(f)
      /\ Tail(f) \in Seq(Agents) /\ Len(Tail(f)) = Len(f) - 1
      /\ \A k \in 1 .. Len(f) - 1 : Tail(f)[k] = f[k + 1]
  BY HeadTailProperties, LenProperties, EmptySeq
<1>2. DOMAIN Tail(f) = 1 .. Len(f) - 1
  BY <1>1, LenProperties
<1>3. 1 \in DOMAIN f /\ \A k \in DOMAIN Tail(f) : k + 1 \in DOMAIN f /\ k + 1 # 1
  BY <1>1, <1>2
<1>4. Head(f) \in Range(f) /\ Head(f) \notin Range(Tail(f))
  BY <1>1, <1>2, <1>3 DEF Range
<1>5. ASSUME NEW a
      PROVE  a \in Range(f) <=> a = Head(f) \/ a \in Range(Tail(f))
  <2>1. ASSUME a \in Range(f), a # Head(f)
        PROVE  a \in Range(Tail(f))
    <3>1. PICK k \in DOMAIN f : f[k] = a
      BY <2>1 DEF Range
    <3>2. k - 1 \in DOMAIN Tail(f) /\ Tail(f)[k - 1] = a
      BY <1>1, <1>2, <2>1, <3>1
    <3>3. QED
      BY <3>2 DEF Range
  <2>2. ASSUME a \in Range(Tail(f))
        PROVE  a \in Range(f)
    BY <1>1, <1>2, <1>3, <2>2 DEF Range
  <2>3. QED
    BY <1>4, <2>1, <2>2
<1>6. \A j, k \in DOMAIN Tail(f) : Tail(f)[j] = Tail(f)[k] => j = k
  BY <1>1, <1>2, <1>3
<1>7. QED
  BY <1>4, <1>5, <1>6

LEMMA PublishQuiet ==
  ASSUME MTypeInv, QuietInv, Publish
  PROVE  QuietInv'
<1>1. UNCHANGED <<stream, feed, known, lines, closing, backend>> /\ closing /\ fan # <<>>
      /\ fan' = Tail(fan) /\ feed.batch # <<>> /\ Event.kind = "closed"
  BY DEF Publish, MTypeInv, ClosingOne
<1>2. SessionsWellFormed' /\ SessionsWellFormed
  BY <1>1, SameStream DEF QuietInv
<1>3. ASSUME faults' = 0
      PROVE  Quiet'
  <2> DEFINE w == [agent |-> Head(fan), session |-> Event.session,
                   project |-> ProjectOf[Event.session], lines |-> lines[Event.session]]
  <2>1. writes' = Append(writes, w) /\ faults = 0
    BY <1>3 DEF Publish, NoFault, Fault, MTypeInv
  <2>2. Quiet
    BY <2>1 DEF QuietInv
  <2>3. PICK t \in Sessions : /\ t = Event.session /\ lines[t] = Transcript(t) /\ Happened(t, "closed")
                              /\ ~Before(t, "closed", Done)
    BY <1>1, <1>2, <2>2, ClosingNow DEF Quiet
  <2>4. fan \in Seq(Agents) /\ \A j, k \in DOMAIN fan : fan[j] = fan[k] => j = k
    BY <2>2 DEF MTypeInv, Quiet, Fanned
  <2>5. PICK h \in Agents : h = Head(fan)
    BY <1>1, <2>4, HeadTailProperties
  <2>6. /\ h \in Range(fan) /\ h \notin Range(fan')
        /\ \A a : a \in Range(fan) <=> a = h \/ a \in Range(fan')
        /\ \A j, k \in DOMAIN fan' : fan'[j] = fan'[k] => j = k
    BY <1>1, <2>4, <2>5, HeadIsGone
  <2>7. w.agent = h /\ w.session = t /\ w.lines = Transcript(t) /\ w \in Episodes
    <3>1. w.agent = h /\ w.session = t /\ w.lines = Transcript(t)
      BY <2>3, <2>5
    <3>2. w \in Episodes
      BY <2>3, <2>5, MemoryAssumption DEF Episodes, MTypeInv
    <3>3. QED
      BY <3>1, <3>2
  <2> HIDE DEF w
  <2> DEFINE l == Len(writes)
  <2>8. l \in Nat /\ Len(writes') = l + 1 /\ writes'[l + 1] = w
        /\ \A i \in 1 .. l : writes'[i] = writes[i]
    <3>1. writes \in Seq(Episodes)
      BY DEF MTypeInv
    <3>2. QED
      BY <2>1, <2>7, <3>1, AppendProperties, LenProperties
  <2>9. \A i \in 1 .. l + 1 : i \in 1 .. l \/ i = l + 1
    BY <2>8
  <2> HIDE DEF l
  <2>10. Done' = Done /\ Event' = Event /\ InOrder'
    BY <1>1, <2>2 DEF Done, Event, Quiet, InOrder
  <2>11. HeldAt(known, lines, Done)'
    <3>1. \A s : SaysBefore(s, Done)' = SaysBefore(s, Done)
      BY <1>1, <2>10 DEF SaysBefore
    <3>2. \A s : NumBefore(s, Done)' = NumBefore(s, Done)
      BY <3>1 DEF NumBefore
    <3>3. \A s, kind : Before(s, kind, Done)' <=> Before(s, kind, Done)
      BY <1>1, <2>10 DEF Before
    <3>4. QED
      BY <1>1, <2>2, <3>2, <3>3 DEF Quiet, HeldAt
  <2>12. \A i \in 1 .. l : \/ Before(writes[i].session, "closed", Done)
                           \/ writes[i].session = t /\ writes[i].agent \notin Range(fan)
    BY <2>2, <2>3 DEF Quiet, ToldClosed, l
  <2>13. \A i \in 1 .. l : ~(writes[i].agent = h /\ writes[i].session = t)
    <3>1. ASSUME NEW i \in 1 .. l, writes[i].agent = h, writes[i].session = t
          PROVE  FALSE
      <4>1. ~Before(writes[i].session, "closed", Done)
        BY <2>3, <3>1
      <4>2. QED
        BY <2>6, <2>12, <3>1, <4>1
    <3>2. QED
      BY <3>1
  <2>14. ToldOnce'
    <3>1. ASSUME NEW i \in 1 .. l + 1
          PROVE  IsTranscript(i)'
      <4>1. Happened(writes'[i].session, "closed") /\ writes'[i].lines = Transcript(writes'[i].session)
        <5>1. CASE i \in 1 .. l
          BY <2>2, <2>8, <5>1 DEF Quiet, ToldOnce, IsTranscript, l
        <5>2. CASE i = l + 1
          BY <2>3, <2>7, <2>8, <5>2
        <5>3. QED
          BY <2>9, <5>1, <5>2
      <4>2. QED
        BY <1>1, <4>1 DEF IsTranscript, Happened, Transcript, Says
    <3>2. \A i, j \in 1 .. l + 1 :
            writes'[i].agent = writes'[j].agent /\ writes'[i].session = writes'[j].session => i = j
      <4>1. \A i, j \in 1 .. l :
              writes[i].agent = writes[j].agent /\ writes[i].session = writes[j].session => i = j
        BY <2>2 DEF Quiet, ToldOnce, l
      <4>2. QED
        BY <2>7, <2>8, <2>9, <2>13, <4>1
    <3>3. QED
      BY <2>8, <3>1, <3>2 DEF ToldOnce
  <2>15. \A a, s : Told(a, s)' <=> Told(a, s) \/ (a = h /\ s = t)
    <3>1. ASSUME NEW a, NEW s
          PROVE  Told(a, s)' <=> Told(a, s) \/ (a = h /\ s = t)
      <4>1. Told(a, s)' <=> \E i \in 1 .. l + 1 : writes'[i].agent = a /\ writes'[i].session = s
        BY <2>8 DEF Told
      <4>2. Told(a, s) <=> \E i \in 1 .. l : writes[i].agent = a /\ writes[i].session = s
        BY DEF Told, l
      <4>3. l + 1 \in 1 .. l + 1 /\ \A i \in 1 .. l : i \in 1 .. l + 1
        BY <2>8
      <4>4. QED
        BY <2>7, <2>8, <2>9, <4>1, <4>2, <4>3
    <3>2. QED
      BY <3>1
  <2>16. \A s : Transcript(s)' = Transcript(s)
    BY <1>1, SameStream
  <2>17. ToldClosed'
    <3>1. ASSUME NEW i \in 1 .. l + 1
          PROVE  (\/ Before(writes[i].session, "closed", Done)
                  \/ closing /\ writes[i].session = Event.session /\ writes[i].agent \notin Range(fan))'
      <4>1. CASE i \in 1 .. l
        <5>1. CASE Before(writes[i].session, "closed", Done)
          BY <1>1, <2>8, <2>10, <4>1, <5>1 DEF Before
        <5>2. CASE writes[i].session = t /\ writes[i].agent \notin Range(fan)
          BY <1>1, <2>3, <2>6, <2>8, <2>10, <4>1, <5>2
        <5>3. QED
          BY <2>12, <4>1, <5>1, <5>2
      <4>2. CASE i = l + 1
        BY <1>1, <2>3, <2>6, <2>7, <2>8, <2>10, <4>2
      <4>3. QED
        BY <2>9, <4>1, <4>2
    <3>2. \A s : Before(s, "closed", Done)' <=> Before(s, "closed", Done)
      BY <1>1, <2>10 DEF Before
    <3>3. \A s \in Sessions : \A a \in Range(Members[s]) :
            Before(s, "closed", Done)' /\ Transcript(s)' # <<>> => Told(a, s)'
      BY <2>2, <2>15, <2>16, <3>2 DEF Quiet, ToldClosed
    <3>4. QED
      BY <2>8, <3>1, <3>3 DEF ToldClosed
  <2>18. Fanned'
    <3>1. ASSUME NEW a \in Range(Members[t]), Transcript(t)' # <<>>
          PROVE  a \in Range(fan') \/ Told(a, t)'
      <4>1. Transcript(t) # <<>>
        BY <2>16, <3>1
      <4>2. a \in Range(fan) \/ Told(a, t)
        BY <1>1, <2>2, <2>3, <4>1 DEF Quiet, Fanned
      <4>3. QED
        BY <2>6, <2>15, <4>2
    <3>2. Event'.session = t
      BY <2>3, <2>10
    <3>3. \A a \in Range(Members[Event'.session]) :
            Transcript(Event.session)' # <<>> => a \in Range(fan') \/ Told(a, Event.session)'
      BY <3>1, <3>2 DEF Transcript, Says, Told
    <3>4. QED
      BY <1>1, <2>6, <3>3 DEF Fanned
  <2>19. QED
    BY <1>1, <2>2, <2>10, <2>11, <2>14, <2>17, <2>18 DEF Quiet
<1>4. QED
  BY <1>2, <1>3 DEF QuietInv

-----------------------------------------------------------------------------
(* The theorem. *)

LEMMA QuietInit ==
  ASSUME MInit
  PROVE  QuietInv
<1>1. stream = <<>> /\ writes = <<>> /\ Len(stream) = 0 /\ Len(writes) = 0
      /\ feed.next = 0 /\ feed.out = {} /\ feed.batch = <<>>
      /\ known = {} /\ fan = <<>> /\ ~closing /\ lines = Nothing
  BY DEF MInit, EmptyFeed, Feed
<1>2. Done = 0 /\ Len(feed.batch) = 0
  <2>1. Len(feed.batch) = 0
    BY <1>1
  <2>2. \A m, n : m = 0 /\ n = 0 => m - n = 0
    OBVIOUS
  <2>3. QED
    BY <1>1, <2>1, <2>2 DEF Done
<1>3. SessionsWellFormed
  BY <1>1 DEF SessionsWellFormed
<1>4. InOrder /\ ToldOnce
  BY <1>1, <1>2 DEF InOrder, ToldOnce
<1>5. \A s, kind : ~Before(s, kind, Done)
  BY <1>2 DEF Before
<1>6. HeldAt(known, lines, Done)
  BY <1>1, <1>5 DEF HeldAt, Nothing
<1>7. ToldClosed /\ Fanned
  BY <1>1, <1>5 DEF ToldClosed, Fanned
<1>8. backend # "down"
  BY DEF MInit, BuildBackend
<1>9. QED
  BY <1>3, <1>4, <1>6, <1>7, <1>8 DEF QuietInv, Quiet

LEMMA QuietNext ==
  ASSUME MemInv, MemInv', QuietInv, [MNext]_mvars, MembersOnce
  PROVE  QuietInv'
<1>1. MTypeInv /\ MTypeInv' /\ faults \in Nat
  BY DEF MemInv, MTypeInv
<1>2. CASE Talk
  BY <1>1, <1>2, TalkQuiet
<1>3. CASE Distiller
  BY <1>1, <1>3, FetchQuiet, HandleQuiet, DistillQuiet, PublishQuiet DEF Distiller
<1>4. CASE Writer
  <2>1. UNCHANGED <<stream, writes, dvars, backend>> /\ (faults' = 0 => faults = 0)
    BY <1>1, <1>4 DEF Writer, FetchWrites, Spool, Store, AckWrite, NoFault, Fault
  <2>2. QED
    BY <2>1, QuietStays
<1>5. CASE Crash \/ Start
  <2>1. UNCHANGED stream /\ (faults' = 0 => FALSE)
    <3>1. CASE Crash
      BY <1>1, <3>1 DEF Crash, Fault
    <3>2. CASE Start
      BY <1>1, <3>2 DEF Start, Fault, NoFault, QuietInv, Quiet, Up
    <3>3. QED
      BY <1>5, <3>1, <3>2
  <2>2. QED
    BY <2>1, SameStream DEF QuietInv
<1>6. CASE UNCHANGED mvars
  BY <1>6, QuietStays DEF mvars
<1>7. QED
  BY <1>2, <1>3, <1>4, <1>5, <1>6 DEF MNext

LEMMA QuietSays ==
  ASSUME MemInv, QuietInv
  PROVE  QuietEpisodeIsTranscript
<1>1. SUFFICES ASSUME faults = 0
               PROVE  /\ \A i \in DOMAIN writes : IsTranscript(i)
                      /\ \A s \in Sessions : CloseHandled(s) /\ Transcript(s) # <<>> =>
                           \A a \in Range(Members[s]) : Cardinality(EpisodesOf(a, s)) = 1
  BY DEF QuietEpisodeIsTranscript
<1>2. Quiet /\ MTypeInv
  BY <1>1 DEF QuietInv, MemInv
<1>3. DOMAIN writes = 1 .. Len(writes)
  BY <1>2, LenProperties DEF MTypeInv
<1>4. \A i \in DOMAIN writes : IsTranscript(i)
  BY <1>2, <1>3 DEF Quiet, ToldOnce
<1>5. ASSUME NEW s \in Sessions, CloseHandled(s), Transcript(s) # <<>>, NEW a \in Range(Members[s])
      PROVE  Cardinality(EpisodesOf(a, s)) = 1
  <2>1. Done \in Nat /\ feed.out = Done + 1 .. feed.next
    BY <1>2 DEF Quiet, InOrder
  <2>2. Settled(feed) \subseteq 1 .. Done
    <3>1. feed.next \in Nat
      BY <1>2, LenProperties DEF MTypeInv, FeedType
    <3>2. QED
      BY <2>1, <3>1 DEF Settled
  <2>3. Before(s, "closed", Done)
    BY <1>5, <2>2 DEF CloseHandled, Before
  <2>4. PICK i \in 1 .. Len(writes) : writes[i].agent = a /\ writes[i].session = s
    BY <1>2, <1>5, <2>3 DEF Quiet, ToldClosed, Told
  <2>5. EpisodesOf(a, s) = {i}
    BY <1>2, <1>3, <2>4 DEF Quiet, ToldOnce, EpisodesOf
  <2>6. QED
    BY <2>5, FS_Singleton
<1>6. QED
  BY <1>4, <1>5

\* As long as nothing failed, an episode is all its session said, in order and
\* up to the cap, and each agent of a session whose close the distiller has
\* done has one (Distiller.run, _note and _distill).
THEOREM EpisodesAreTranscripts == ASSUME MembersOnce PROVE MSpec => []QuietEpisodeIsTranscript
<1>1. MInit => QuietInv
  BY QuietInit
<1>2. MemInv /\ MemInv' /\ QuietInv /\ [MNext]_mvars => QuietInv'
  BY QuietNext
<1>3. MSpec => []QuietInv
  BY <1>1, <1>2, MemInvHolds, PTL DEF MSpec
<1>4. MemInv /\ QuietInv => QuietEpisodeIsTranscript
  BY QuietSays
<1>5. QED
  BY <1>3, <1>4, MemInvHolds, PTL

-----------------------------------------------------------------------------
(* What is stored, and where. *)

\* What is written is of an agent of a session that has closed, and what is
\* stored is where it belongs.
OfItsSession(w) ==
  /\ w.agent \in Range(Members[w.session]) /\ w.project = ProjectOf[w.session]
  /\ Happened(w.session, "closed")
WrittenOwn == \A i \in 1 .. Len(writes) : OfItsSession(writes[i])
FanOwn == closing => Range(fan) \subseteq Range(Members[Event.session])
Kept(table) == \A k \in Keys : table[k] # 0 => table[k] \in 1 .. Len(writes) /\ Key(table[k]) = k

StoreInv == WrittenOwn /\ FanOwn /\ Kept(rows) /\ Kept(points)

LEMMA StoreInit ==
  ASSUME MInit
  PROVE  StoreInv
<1>1. writes = <<>> /\ Len(writes) = 0 /\ ~closing
      /\ \A k \in Keys : rows[k] = 0 /\ points[k] = 0
  BY DEF MInit
<1>2. QED
  BY <1>1 DEF StoreInv, WrittenOwn, FanOwn, Kept

\* Events are never taken back.
LEMMA StreamGrows ==
  ASSUME MTypeInv, Talk
  PROVE  /\ \A s, kind : Happened(s, kind) => Happened(s, kind)'
         /\ closing => Event' = Event
         /\ UNCHANGED <<writes, closing, fan, rows, points>>
<1>1. UNCHANGED <<writes, closing, fan, feed, rows, points>> /\ \E e : stream' = Append(stream, e)
  BY DEF Talk, Open, Say, Close, Emit, dvars, wvars
<1>2. PICK e : stream' = Append(stream, e)
  BY <1>1
<1>3. DOMAIN stream = 1 .. Len(stream) /\ Len(stream) \in Nat
  BY LenProperties DEF MTypeInv
<1>4. DOMAIN stream \subseteq DOMAIN stream' /\ \A i \in DOMAIN stream : stream'[i] = stream[i]
  BY <1>2, <1>3 DEF MTypeInv
<1>5. ASSUME closing
      PROVE  Event' = Event
  <2>1. Head(feed.batch) \in DOMAIN stream
    BY <1>3, <1>5, EventTyped DEF MTypeInv, ClosingOne
  <2>2. QED
    BY <1>1, <1>4, <2>1 DEF Event
<1>6. QED
  BY <1>1, <1>4, <1>5 DEF Happened

\* Steps that publish no episode and store none.
LEMMA StoreStays ==
  ASSUME StoreInv, UNCHANGED <<writes, rows, points>>,
         \A s, kind : Happened(s, kind) => Happened(s, kind)',
         closing' => closing /\ Event' = Event /\ fan' = fan
  PROVE  StoreInv'
<1>1. WrittenOwn'
  BY DEF StoreInv, WrittenOwn, OfItsSession
<1>2. FanOwn'
  BY DEF StoreInv, FanOwn
<1>3. Kept(rows)' /\ Kept(points)'
  BY DEF StoreInv, Kept, Key
<1>4. QED
  BY <1>1, <1>2, <1>3 DEF StoreInv

\* The tail of what is fanned out is a part of it.
LEMMA TailOf ==
  ASSUME NEW f \in Seq(Agents), f # <<>>
  PROVE  Head(f) \in Range(f) /\ Range(Tail(f)) \subseteq Range(f)
<1>1. /\ Head(f) = f[1] /\ Len(f) \in Nat /\ Len(f) > 0 /\ DOMAIN f = 1 .. Len(f)
      /\ Tail(f) \in Seq(Agents) /\ Len(Tail(f)) = Len(f) - 1
      /\ \A k \in 1 .. Len(f) - 1 : Tail(f)[k] = f[k + 1]
  BY HeadTailProperties, LenProperties, EmptySeq
<1>2. DOMAIN Tail(f) = 1 .. Len(f) - 1
  BY <1>1, LenProperties
<1>3. 1 \in DOMAIN f /\ \A k \in DOMAIN Tail(f) : k + 1 \in DOMAIN f
  BY <1>1, <1>2
<1>4. QED
  BY <1>1, <1>2, <1>3 DEF Range

LEMMA PublishStores ==
  ASSUME MTypeInv, StoreInv, Publish
  PROVE  StoreInv'
<1>1. UNCHANGED <<stream, feed, closing, rows, points>> /\ closing /\ fan # <<>> /\ fan' = Tail(fan)
      /\ feed.batch # <<>> /\ Event.kind = "closed" /\ fan \in Seq(Agents)
  BY DEF Publish, MTypeInv, ClosingOne, wvars
<1>2. PICK t \in Sessions : t = Event.session
  BY <1>1, EventTyped DEF Events
<1>3. Happened(t, "closed")
  <2>1. Head(feed.batch) \in DOMAIN stream
    BY <1>1, EventTyped, LenProperties DEF MTypeInv
  <2>2. QED
    BY <1>1, <1>2, <2>1 DEF Happened, Event
<1>4. PICK h \in Agents : h = Head(fan) /\ h \in Range(Members[t])
  <2>1. Head(fan) \in Agents
    BY <1>1, HeadTailProperties
  <2>2. Head(fan) \in Range(Members[t])
    BY <1>1, <1>2, TailOf DEF StoreInv, FanOwn
  <2>3. QED
    BY <2>1, <2>2
<1>5. FanOwn'
  BY <1>1, TailOf DEF StoreInv, FanOwn, Event
<1> DEFINE w == [agent |-> Head(fan), session |-> Event.session,
                 project |-> ProjectOf[Event.session], lines |-> lines[Event.session]]
<1>6. w.agent = h /\ w.session = t /\ w.project = ProjectOf[t]
  BY <1>2, <1>4
<1>7. w \in Episodes
  BY <1>2, <1>4, MemoryAssumption DEF Episodes, MTypeInv
<1>8. writes' = Append(writes, w) \/ writes' = writes
  BY DEF Publish
<1> HIDE DEF w
<1>9. OfItsSession(w)
  BY <1>3, <1>4, <1>6 DEF OfItsSession
<1> DEFINE l == Len(writes)
<1>10. /\ l \in Nat /\ Len(writes') \in {l, l + 1} /\ \A i \in 1 .. l : writes'[i] = writes[i]
       /\ Len(writes') = l + 1 => writes'[l + 1] = w
  <2>1. writes \in Seq(Episodes)
    BY DEF MTypeInv
  <2>2. QED
    BY <1>7, <1>8, <2>1, AppendProperties, LenProperties
<1>11. WrittenOwn'
  <2>1. ASSUME NEW i \in 1 .. Len(writes')
        PROVE  OfItsSession(writes'[i])
    <3>1. i \in 1 .. l \/ (i = l + 1 /\ Len(writes') = l + 1)
      BY <1>10
    <3>2. QED
      BY <1>9, <1>10, <3>1 DEF StoreInv, WrittenOwn
  <2>2. \A s, kind : Happened(s, kind)' <=> Happened(s, kind)
    BY <1>1 DEF Happened
  <2>3. QED
    BY <2>1, <2>2 DEF WrittenOwn, OfItsSession
<1>12. Kept(rows)' /\ Kept(points)'
  BY <1>1, <1>10 DEF StoreInv, Kept, Key
<1>13. QED
  BY <1>5, <1>11, <1>12 DEF StoreInv

LEMMA PutWhereItBelongs ==
  ASSUME NEW table \in [Keys -> Nat], Kept(table), NEW i \in 1 .. Len(writes), Key(i) \in Keys,
         NEW put, put = table \/ put = [table EXCEPT ![Key(i)] = i]
  PROVE  Kept(put)
<1>1. CASE put = table
  BY <1>1
<1>2. CASE put = [table EXCEPT ![Key(i)] = i]
  <2>1. \A k \in Keys : put[k] = IF k = Key(i) THEN i ELSE table[k]
    BY <1>2
  <2>2. QED
    BY <2>1 DEF Kept
<1>3. QED
  BY <1>1, <1>2

LEMMA StoreStores ==
  ASSUME MTypeInv, StoreInv, Store
  PROVE  StoreInv'
<1>1. wfeed.batch # <<>> /\ UNCHANGED <<stream, writes, feed, fan, closing>>
      /\ rows \in [Keys -> Nat] /\ points \in [Keys -> Nat]
  BY DEF Store, MTypeInv, dvars
<1>2. PICK i \in 1 .. Len(writes) : i = Write /\ Key(i) \in Keys
  BY <1>1, WriteTyped
<1>3. /\ rows' = rows \/ rows' = [rows EXCEPT ![Key(i)] = i]
      /\ points' = points \/ points' = [points EXCEPT ![Key(i)] = i]
  BY <1>2 DEF Store
<1>4. Kept(rows') /\ Kept(points')
  BY <1>1, <1>2, <1>3, PutWhereItBelongs DEF StoreInv
<1>5. Kept(rows)' /\ Kept(points)'
  BY <1>1, <1>4 DEF Kept, Key
<1>6. WrittenOwn' /\ FanOwn'
  BY <1>1 DEF StoreInv, WrittenOwn, OfItsSession, Happened, FanOwn, Event
<1>7. QED
  BY <1>5, <1>6 DEF StoreInv

LEMMA StoreNext ==
  ASSUME MemInv, StoreInv, [MNext]_mvars
  PROVE  StoreInv'
<1>1. MTypeInv
  BY DEF MemInv
<1>2. CASE Talk
  BY <1>1, <1>2, StreamGrows, StoreStays
<1>3. CASE Publish
  BY <1>1, <1>3, PublishStores
<1>4. CASE Store
  BY <1>1, <1>4, StoreStores
<1>5. CASE Distill
  <2>1. UNCHANGED <<stream, writes, feed, rows, points>> /\ fan' = FanOut(Event.session) /\ Event' = Event
    BY <1>5 DEF Distill, Event, wvars
  <2>2. Range(fan') \subseteq Range(Members[Event.session])
    BY <2>1 DEF FanOut, Range
  <2>3. QED
    BY <2>1, <2>2 DEF StoreInv, WrittenOwn, OfItsSession, Happened, FanOwn, Kept, Key
<1>6. CASE FetchSessions \/ Handle \/ Closed \/ Crash
  <2>1. UNCHANGED <<stream, writes, rows, points>> /\ ~closing'
    BY <1>1, <1>6 DEF FetchSessions, Handle, Closed, Crash, MTypeInv, ClosingOne, wvars
  <2>2. QED
    BY <2>1, StoreStays DEF Happened
<1>7. CASE FetchWrites \/ Spool \/ AckWrite \/ Start \/ UNCHANGED mvars
  <2>1. UNCHANGED <<stream, writes, rows, points, closing, fan, feed>>
    BY <1>7 DEF FetchWrites, Spool, AckWrite, Start, mvars, dvars, wvars
  <2>2. QED
    BY <2>1, StoreStays DEF Happened, Event
<1>8. QED
  BY <1>2, <1>3, <1>4, <1>5, <1>6, <1>7 DEF MNext, Distiller, Writer

LEMMA StoreInvHolds == MSpec => []StoreInv
BY StoreInit, StoreNext, MemInvHolds, PTL DEF MSpec

-----------------------------------------------------------------------------
(* Sequences of what is answered. *)

LEMMA Ranked ==
  ASSUME NEW S, IsFiniteSet(S), NEW order \in SetToSeqs(S)
  PROVE  order \in Seq(S) /\ Len(order) = Cardinality(S) /\ Range(order) = S
<1> DEFINE D == 1 .. Cardinality(S)
<1>1. order \in [D -> S] /\ \A i, j \in D : i # j => order[i] # order[j]
  BY DEF SetToSeqs
<1>2. Cardinality(S) \in Nat
  BY FS_CardinalityType
<1>3. Cardinality(D) = Cardinality(S)
  BY <1>2, FS_Interval
<1>4. order \in Surjection(D, S)
  <2>1. order \in Injection(D, S)
    BY <1>1 DEF Injection, IsInjective
  <2>2. QED
    BY <1>3, <2>1, FS_Injection
<1>5. Range(order) = S
  BY <1>1, <1>4 DEF Surjection, Range
<1>6. order \in Seq(S) /\ Len(order) = Cardinality(S)
  <2>1. order \in Seq(S)
    BY <1>1, <1>2, SeqDef
  <2>2. QED
    BY <1>1, <1>2, <2>1, LenProperties
<1>7. QED
  BY <1>5, <1>6

LEMMA FirstOf ==
  ASSUME NEW S, NEW items \in Seq(S), NEW n \in Nat
  PROVE  /\ First(n, items) \in Seq(S) /\ Len(First(n, items)) <= n
         /\ Range(First(n, items)) \subseteq Range(items)
         /\ Len(items) <= n => First(n, items) = items
<1>1. Len(items) \in Nat /\ DOMAIN items = 1 .. Len(items) /\ \A i \in 1 .. Len(items) : items[i] \in S
  BY LenProperties, ElementOfSeq
<1>2. PICK m \in Nat : m <= Len(items) /\ m <= n /\ m = IF n < Len(items) THEN n ELSE Len(items)
  <2>1. \A l \in Nat : \E m \in Nat : m <= l /\ m <= n /\ m = IF n < l THEN n ELSE l
    OBVIOUS
  <2>2. QED
    BY <1>1, <2>1
<1>3. m \in Int /\ 1 \in Int /\ m - 1 + 1 = m /\ \A i \in 1 .. m : i \in 1 .. Len(items) /\ items[i] \in S
  <2>1. \A k, l \in Nat : k <= l => k \in Int /\ k - 1 + 1 = k /\ \A i \in 1 .. k : i \in 1 .. l
    OBVIOUS
  <2>2. m - 1 + 1 = m /\ \A i \in 1 .. m : i \in 1 .. Len(items)
    BY <1>1, <1>2, <2>1
  <2>3. \A i \in 1 .. m : items[i] \in S
    BY <1>1, <2>2
  <2>4. m \in Int
    BY <1>2
  <2>5. QED
    BY <2>2, <2>3, <2>4
<1>4. First(n, items) = SubSeq(items, 1, m)
  BY <1>2 DEF First
<1>5. /\ SubSeq(items, 1, m) \in Seq(S) /\ Len(SubSeq(items, 1, m)) = m
      /\ \A i \in 1 .. m : SubSeq(items, 1, m)[i] = items[i]
  <2>1. /\ SubSeq(items, 1, m) \in Seq(S)
        /\ Len(SubSeq(items, 1, m)) = IF 1 <= m THEN m - 1 + 1 ELSE 0
        /\ \A i \in 1 .. m - 1 + 1 : SubSeq(items, 1, m)[i] = items[1 + i - 1]
    BY <1>3, SubSeqProperties
  <2>2. QED
    BY <1>2, <1>3, <2>1
<1>6. DOMAIN SubSeq(items, 1, m) = 1 .. m
  BY <1>5, LenProperties
<1>7. PICK u : u = SubSeq(items, 1, m)
  OBVIOUS
<1>8. Range(u) \subseteq Range(items)
  BY <1>1, <1>3, <1>5, <1>6, <1>7 DEF Range
<1>9. ASSUME Len(items) <= n
      PROVE  u = items
  <2>1. \A l \in Nat : l <= n => (IF n < l THEN n ELSE l) = l
    OBVIOUS
  <2>2. m = Len(items)
    BY <1>1, <1>2, <1>9, <2>1
  <2>3. QED
    BY <1>7, <2>2, SubSeqFull
<1>10. QED
  BY <1>2, <1>4, <1>5, <1>7, <1>8, <1>9

LEMMA BothRanges ==
  ASSUME NEW S, NEW s \in Seq(S), NEW t \in Seq(S)
  PROVE  /\ s \o t \in Seq(S) /\ Len(s \o t) = Len(s) + Len(t)
         /\ Range(s \o t) = Range(s) \cup Range(t)
<1>1. /\ s \o t \in Seq(S) /\ Len(s \o t) = Len(s) + Len(t)
      /\ \A i \in 1 .. Len(s) + Len(t) : (s \o t)[i] = IF i <= Len(s) THEN s[i] ELSE t[i - Len(s)]
  BY ConcatProperties
<1>2. /\ Len(s) \in Nat /\ Len(t) \in Nat /\ DOMAIN s = 1 .. Len(s) /\ DOMAIN t = 1 .. Len(t)
      /\ DOMAIN (s \o t) = 1 .. Len(s) + Len(t)
  BY <1>1, LenProperties
<1>3. PICK u : u = s \o t
  OBVIOUS
<1>4. ASSUME NEW x \in Range(u)
      PROVE  x \in Range(s) \cup Range(t)
  <2>1. PICK i \in 1 .. Len(s) + Len(t) : u[i] = x
    BY <1>2, <1>3 DEF Range
  <2>2. CASE i <= Len(s)
    BY <1>1, <1>2, <1>3, <2>1, <2>2 DEF Range
  <2>3. CASE ~(i <= Len(s))
    <3>1. i - Len(s) \in DOMAIN t /\ x = t[i - Len(s)]
      BY <1>1, <1>2, <1>3, <2>1, <2>3
    <3>2. QED
      BY <3>1 DEF Range
  <2>4. QED
    BY <2>2, <2>3
<1>5. Range(s) \subseteq Range(u)
  <2>1. \A i \in DOMAIN s : i \in DOMAIN u /\ u[i] = s[i]
    BY <1>1, <1>2, <1>3
  <2>2. QED
    BY <2>1 DEF Range
<1>6. Range(t) \subseteq Range(u)
  <2>1. \A i \in DOMAIN t : i + Len(s) \in DOMAIN u /\ u[i + Len(s)] = t[i]
    BY <1>1, <1>2, <1>3
  <2>2. QED
    BY <2>1 DEF Range
<1>7. Range(u) = Range(s) \cup Range(t)
  BY <1>4, <1>5, <1>6
<1>8. QED
  BY <1>1, <1>3, <1>7

-----------------------------------------------------------------------------
(* Answers are the agent's own. *)

Items == [kind : {"episode", "principle"}, agent : Agents, session : Sessions \cup {""}, write : Nat]

\* What is stored is of a write, of its agent and of its session.
LEMMA StoredOf ==
  ASSUME MTypeInv, WrittenOwn, NEW table, Kept(table), NEW h \in Stored(table)
  PROVE  /\ h.write \in 1 .. Len(writes) /\ writes[h.write].project = ProjectOf[h.session]
         /\ h.kind = "episode" /\ h.agent \in Range(Members[h.session])
         /\ Happened(h.session, "closed") /\ h \in Items
<1>1. PICK k \in Keys : table[k] # 0 /\ h = Episode(k, table[k])
  BY DEF Stored
<1>2. PICK a \in Agents, s \in Sessions : k = <<a, s>>
  BY DEF Keys
<1>3. PICK i \in 1 .. Len(writes) : i = table[k] /\ Key(i) = k
  BY <1>1 DEF Kept
<1>4. h = [kind |-> "episode", agent |-> a, session |-> s, write |-> i]
  BY <1>1, <1>2, <1>3 DEF Episode
<1>5. writes[i].agent = a /\ writes[i].session = s
  BY <1>2, <1>3 DEF Key
<1>6. OfItsSession(writes[i])
  BY DEF WrittenOwn
<1>7. Len(writes) \in Nat
  BY LenProperties DEF MTypeInv
<1>8. h \in Items
  <2>1. i \in Nat
    BY <1>3, <1>7
  <2>2. QED
    BY <1>2, <1>4, <2>1 DEF Items
<1>9. h.kind = "episode" /\ h.agent = a /\ h.session = s /\ h.write = i
  BY <1>4
<1>10. QED
  BY <1>5, <1>6, <1>8, <1>9 DEF OfItsSession

LEMMA StoredFinite ==
  ASSUME MTypeInv, NEW table, Kept(table)
  PROVE  IsFiniteSet(Stored(table))
<1> DEFINE D == {i \in 1 .. Len(writes) : Key(i) \in Keys /\ table[Key(i)] = i}
           f == [i \in D |-> Episode(Key(i), i)]
<1>1. Len(writes) \in Nat
  BY LenProperties DEF MTypeInv
<1>2. IsFiniteSet(D)
  <2>1. IsFiniteSet(1 .. Len(writes))
    BY <1>1, FS_Interval
  <2>2. QED
    BY <2>1, FS_Subset
<1>3. f \in [D -> Stored(table)]
  <2>1. ASSUME NEW i \in D
        PROVE  Episode(Key(i), i) \in Stored(table)
    <3>1. PICK k \in Keys : k = Key(i) /\ table[k] = i /\ i # 0
      BY <1>1
    <3>2. QED
      BY <3>1 DEF Stored
  <2>2. QED
    BY <2>1
<1>4. ASSUME NEW h \in Stored(table)
      PROVE  \E i \in D : f[i] = h
  <2>1. PICK k \in Keys : table[k] # 0 /\ h = Episode(k, table[k])
    BY DEF Stored
  <2>2. table[k] \in D /\ Key(table[k]) = k
    BY <2>1 DEF Kept
  <2>3. QED
    BY <2>1, <2>2
<1>5. f \in Surjection(D, Stored(table))
  BY <1>3, <1>4 DEF Surjection
<1> HIDE DEF D, f
<1>6. QED
  BY <1>2, <1>5, FS_Surjection

LEMMA TablesKept ==
  ASSUME MemInv, StoreInv
  PROVE  MTypeInv /\ WrittenOwn /\ Kept(rows) /\ \A req : Kept(Table(req))
BY DEF MemInv, StoreInv, Table

LEMMA FittingIsOwn ==
  ASSUME MemInv, StoreInv, NEW req \in Requests
  PROVE  Fitting(req) = Own(req.agent, req.project, Table(req))
<1>1. ASSUME NEW h \in Stored(Table(req))
      PROVE  Fits(h, req) <=> /\ h.agent = req.agent /\ req.agent \in Range(Members[h.session])
                              /\ Happened(h.session, "closed")
                              /\ (req.project = "" \/ ProjectOf[h.session] = req.project)
  BY <1>1, TablesKept, StoredOf DEF Fits
<1>2. QED
  BY <1>1 DEF Fitting, Own

\* The agent's answer, from a store with nothing amiss.
LEMMA AnswerFromMemory ==
  ASSUME MemInv, StoreInv, NEW req \in Requests, NEW own, own = Own(req.agent, req.project, Table(req)),
         NEW ranking \in SetToSeqs(own),
         NEW items, items = Assemble(req, StableOf(req), Found(req, ranking)),
         NEW episodes, episodes = {it \in Range(items) : it.kind = "episode"}
  PROVE  /\ Len(items) <= Limit(req) /\ episodes \subseteq own
         /\ req.depth # "principles"
            /\ Cardinality(own) + (IF req.depth = "full" THEN Stable[req.agent] ELSE 0) <= Limit(req)
            => episodes = own
<1>1. /\ req.agent \in Agents /\ req.depth \in {"full", "principles", "episodes"} /\ Limit(req) \in Nat
      /\ Stable[req.agent] \in Nat
  BY MemoryAssumption DEF Limit
<1>2. PICK n \in Nat, c \in Nat : n = Limit(req) /\ c = Stable[req.agent]
  BY <1>1
<1>3. IsFiniteSet(own) /\ own \subseteq Items /\ \A h \in own : h.kind = "episode"
  <2>1. own \subseteq Stored(Table(req))
    BY DEF Own
  <2>2. QED
    BY <2>1, TablesKept, StoredOf, StoredFinite, FS_Subset
<1>4. ranking \in Seq(own) /\ Len(ranking) = Cardinality(own) /\ Range(ranking) = own
  BY <1>3, Ranked
<1>5. ranking \in Seq(Items) /\ Cardinality(own) \in Nat
  <2>1. \A i \in 1 .. Len(ranking) : ranking[i] \in Items
    BY <1>3, <1>4, ElementOfSeq
  <2>2. QED
    BY <1>3, <1>4, <2>1, IsASeq, FS_CardinalityType
<1>6. PICK found : found = Found(req, ranking)
  OBVIOUS
<1>7. /\ found \in Seq(Items) /\ Range(found) \subseteq own
      /\ Cardinality(own) <= n => found = ranking
  BY <1>2, <1>4, <1>5, <1>6, FirstOf DEF Found
<1>8. PICK stable : stable = StableOf(req)
  OBVIOUS
<1>9. stable \in Seq(Items) /\ Len(stable) = c /\ \A it \in Range(stable) : it.kind = "principle"
  <2>1. stable = [k \in 1 .. c |-> Principle(req.agent, k)]
    BY <1>2, <1>8 DEF StableOf
  <2>2. \A k \in 1 .. c : stable[k] \in Items /\ stable[k].kind = "principle"
    <3>1. ASSUME NEW k \in 1 .. c
          PROVE  stable[k] \in Items /\ stable[k].kind = "principle"
      <4>1. stable[k] = [kind |-> "principle", agent |-> req.agent, session |-> "", write |-> k]
        BY <2>1 DEF Principle
      <4>2. k \in Nat
        BY <1>2
      <4>3. PICK a \in Agents : a = req.agent
        BY <1>1
      <4>4. stable[k].kind = "principle"
        <5>1. \A none : [kind |-> "principle", agent |-> req.agent, session |-> none, write |-> k].kind
                         = "principle"
          OBVIOUS
        <5>2. QED
          BY <4>1, <5>1, Zenon
      <4>5. [kind |-> "principle", agent |-> a, session |-> "", write |-> k] \in Items
        BY <4>2 DEF Items
      <4>6. QED
        BY <4>1, <4>3, <4>4, <4>5
    <3>2. QED
      BY <3>1
  <2>3. stable \in Seq(Items)
    BY <2>1, <2>2, SeqDef
  <2>4. QED
    BY <2>1, <2>2, <2>3, LenProperties DEF Range
<1>10. PICK A \in Seq(Items), B \in Seq(Items) :
         /\ A = (IF req.depth = "episodes" THEN <<>> ELSE stable)
         /\ B = (IF req.depth = "principles" THEN <<>> ELSE found)
  BY <1>7, <1>9, EmptySeq
<1>11. items = First(n, A \o B)
  BY <1>2, <1>6, <1>8, <1>10 DEF Assemble
<1>12. /\ A \o B \in Seq(Items) /\ Len(A \o B) = Len(A) + Len(B)
       /\ Range(A \o B) = Range(A) \cup Range(B)
  BY BothRanges
<1>13. /\ Len(items) <= n /\ Range(items) \subseteq Range(A) \cup Range(B)
       /\ Len(A) + Len(B) <= n => Range(items) = Range(A) \cup Range(B)
  BY <1>11, <1>12, FirstOf
<1>14. /\ \A it \in Range(A) : it.kind = "principle"
       /\ Range(B) \subseteq own /\ (req.depth # "principles" => B = found)
  <2>1. Range(<<>>) = {}
    BY DEF Range
  <2>2. QED
    BY <1>7, <1>9, <1>10, <2>1
<1>15. episodes \subseteq own
  BY <1>13, <1>14
<1>16. ASSUME req.depth # "principles",
              Cardinality(own) + (IF req.depth = "full" THEN Stable[req.agent] ELSE 0) <= Limit(req)
       PROVE  episodes = own
  <2>1. Len(A) = (IF req.depth = "full" THEN c ELSE 0)
    BY <1>1, <1>9, <1>10, <1>16, EmptySeq
  <2>2. Cardinality(own) <= n /\ Len(A) + Cardinality(own) <= n
    BY <1>2, <1>5, <1>16, <2>1
  <2>3. B = ranking
    BY <1>7, <1>14, <1>16, <2>2
  <2>4. Range(items) = Range(A) \cup own
    BY <1>4, <1>13, <2>2, <2>3
  <2>5. own \subseteq episodes
    BY <1>3, <2>4
  <2>6. QED
    BY <1>15, <2>5
<1>17. QED
  BY <1>2, <1>13, <1>15, <1>16

\* Canned items are no more than were asked for.
LEMMA CannedFits ==
  ASSUME NEW req \in Requests
  PROVE  Len(Canned(req)) <= Limit(req)
<1>1. req.agent \in Agents /\ Limit(req) \in Nat
  BY MemoryAssumption DEF Limit
<1> DEFINE S == {Principle(req.agent, 1), Principle(req.agent, 2), Principle(req.agent, 3),
                 [kind |-> "episode", agent |-> req.agent, session |-> "", write |-> 0]}
<1>2. PICK A \in Seq(S) : A = IF req.depth = "episodes" THEN <<>>
                              ELSE [n \in 1 .. 3 |-> Principle(req.agent, n)]
  <2>1. [n \in 1 .. 3 |-> Principle(req.agent, n)] \in [1 .. 3 -> S]
    <3>1. \A n \in 1 .. 3 : n = 1 \/ n = 2 \/ n = 3
      OBVIOUS
    <3>2. QED
      BY <3>1
  <2>2. [n \in 1 .. 3 |-> Principle(req.agent, n)] \in Seq(S)
    BY <2>1, SeqDef
  <2>3. QED
    BY <2>2, EmptySeq
<1>3. PICK B \in Seq(S) : B = IF req.depth = "principles" THEN <<>>
                ELSE <<[kind |-> "episode", agent |-> req.agent, session |-> "", write |-> 0]>>
  <2>1. \A it \in S : <<it>> \in Seq(S)
    <3> HIDE DEF S
    <3>1. QED
      OBVIOUS
  <2>2. QED
    BY <2>1, EmptySeq
<1> HIDE DEF S
<1>4. Canned(req) = First(Limit(req), A \o B)
  BY <1>2, <1>3 DEF Canned, Assemble
<1>5. QED
  BY <1>1, <1>4, BothRanges, FirstOf

\* What the graph shows of an agent.
LEMMA GraphIsOwn ==
  ASSUME MemInv, StoreInv, NEW a, NEW order \in SetToSeqs(RowsOf(a)),
         NEW edge \in GraphView(a, order).edges
  PROVE  edge[1] = a /\ a \in Range(Members[edge[2]])
<1>1. RowsOf(a) \subseteq Stored(rows) /\ \A h \in RowsOf(a) : h.agent = a
  BY DEF RowsOf
<1>2. IsFiniteSet(RowsOf(a))
  BY <1>1, TablesKept, StoredFinite, FS_Subset
<1>3. order \in Seq(RowsOf(a)) /\ NodeCap - 1 \in Nat
  <2>1. NodeCap \in Nat /\ NodeCap # 0
    BY MemoryAssumption
  <2>2. NodeCap - 1 \in Nat
    BY <2>1
  <2>3. QED
    BY <1>2, <2>2, Ranked
<1>4. PICK shown \in Seq(RowsOf(a)) : shown = First(NodeCap - 1, order)
  BY <1>3, FirstOf
<1>5. edge \in {<<a, shown[i].session>> : i \in DOMAIN shown}
  BY <1>4 DEF GraphView
<1>6. PICK i \in 1 .. Len(shown) : edge = <<a, shown[i].session>>
  BY <1>5, LenProperties
<1>7. shown[i] \in RowsOf(a)
  BY ElementOfSeq
<1>8. QED
  BY <1>1, <1>6, <1>7, TablesKept, StoredOf

LEMMA StoreAnswers ==
  ASSUME MemInv, StoreInv
  PROVE  AnswersAreOwn
<1>1. ASSUME NEW req \in Requests, NEW ranking \in SetToSeqs(Fitting(req))
      PROVE  OwnAnswer(req, Reply(req, ranking, FALSE))
  <2>1. CASE backend = "agent"
    <3>1. PICK own : own = Own(req.agent, req.project, Table(req)) /\ ranking \in SetToSeqs(own)
      BY <1>1, FittingIsOwn
    <3>2. PICK items : items = Assemble(req, StableOf(req), Found(req, ranking))
      OBVIOUS
    <3>3. PICK episodes : episodes = {it \in Range(items) : it.kind = "episode"}
      OBVIOUS
    <3>4. /\ Len(items) <= Limit(req) /\ episodes \subseteq own
          /\ req.depth # "principles"
             /\ Cardinality(own) + (IF req.depth = "full" THEN Stable[req.agent] ELSE 0) <= Limit(req)
             => episodes = own
      BY <3>1, <3>2, <3>3, AnswerFromMemory
    <3>5. PICK reply : reply = Reply(req, ranking, FALSE)
      OBVIOUS
    <3>6. reply = [items |-> items, degraded |-> FALSE]
      BY <2>1, <3>2, <3>5 DEF Reply
    <3>7. reply.items = items
      BY <3>6
    <3>8. OwnAnswer(req, reply)
      BY <3>1, <3>3, <3>4, <3>7 DEF OwnAnswer
    <3>9. QED
      BY <3>5, <3>8
  <2>2. CASE backend # "agent"
    <3>1. PICK reply : reply = Reply(req, ranking, FALSE)
      OBVIOUS
    <3>2. reply = [items |-> Canned(req), degraded |-> backend # "canned"]
      BY <2>2, <3>1 DEF Reply
    <3>3. reply.items = Canned(req) /\ (backend # "canned" => reply.degraded)
      <4>1. CASE backend = "canned"
        BY <3>2, <4>1
      <4>2. CASE backend # "canned"
        <5>1. reply = [items |-> Canned(req), degraded |-> TRUE]
          BY <3>2, <4>2
        <5>2. QED
          BY <5>1
      <4>3. QED
        BY <4>1, <4>2
    <3>4. OwnAnswer(req, reply)
      BY <3>3, CannedFits DEF OwnAnswer
    <3>5. QED
      BY <3>1, <3>4
  <2>3. QED
    BY <2>1, <2>2
<1>2. ASSUME NEW req \in Requests, NEW order \in SetToSeqs(RowsOf(req.agent))
      PROVE  OwnGraph(req.agent, GraphView(req.agent, order))
  BY GraphIsOwn DEF OwnGraph
<1>3. QED
  BY <1>1, <1>2 DEF AnswersAreOwn

\* Whatever crashed, was lost or failed, an agent is answered, unless the
\* answer says degraded, with no episode but its own of the project asked for,
\* and with all of them when there is room (AgentBackend._recall_sync,
\* RecallResponder, graph_view).
THEOREM AnswersAreAlwaysOwn == MSpec => []AnswersAreOwn
<1>1. MemInv /\ StoreInv => AnswersAreOwn
  BY StoreAnswers
<1>2. QED
  BY <1>1, MemInvHolds, StoreInvHolds, PTL
=============================================================================
