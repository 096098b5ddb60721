------------------------- MODULE ControlPlaneProofs -------------------------
(***************************************************************************)
(* Proofs about the control plane around the sessions' actors, each for    *)
(* any value of its constants and whatever fails.                          *)
(* LiveHub: no agent is left thinking with nothing to do, and the counters *)
(* of the hub say of an agent what its tasks say.  Gateway: an answer has  *)
(* seen its question and is given once, and a delegation does not wake its *)
(* caller; the parts of its invariant are about values (ss: the sessions,  *)
(* ks: the keys, fl: the flights, cl: the requests), before a step or      *)
(* after it.  Conversation: what the stream of a session promises; through *)
(* SessionIsConversation these are facts about Session.                    *)
(***************************************************************************)
EXTENDS LiveHub, Gateway, Conversation, FiniteSetTheorems, SequenceTheorems, TLAPS

(***************************************************************************)
(* The live hub.                                                           *)
(***************************************************************************)
\* What ties an agent's counter i and presence p to its n tracked tasks.
Honest(i, p, n) ==
  /\ i \in Nat /\ n \in Nat
  /\ p = "thinking" => i > 0
  /\ i <= n
  /\ i = n => (n > 0 <=> p = "thinking")

NumTracked(a) == Cardinality(Tracked(a))

HubInv ==
  /\ HubTypeOK
  /\ IsFiniteSet(tasks)
  /\ tasks \subseteq triggered \union {enqueueing}
  /\ \A a \in Agents : Honest(inflight[a], presence[a], NumTracked(a))

-----------------------------------------------------------------------------
(* Counting an agent's tasks.                                              *)

\* The tasks of an agent are finitely many, and none only if their number is 0.
LEMMA TrackedFinite ==
  ASSUME IsFiniteSet(tasks), NEW a
  PROVE  /\ IsFiniteSet(Tracked(a))
         /\ NumTracked(a) \in Nat
         /\ NumTracked(a) = 0 <=> Tracked(a) = {}
<1>1. Tracked(a) \subseteq tasks
  BY DEF Tracked
<1>2. IsFiniteSet(Tracked(a))
  BY <1>1, FS_Subset
<1>3. QED
  BY <1>2, FS_CardinalityType, FS_EmptySet DEF NumTracked

\* A new task counts for its agent and for nobody else.
LEMMA TrackCounts ==
  ASSUME IsFiniteSet(tasks), NEW t, t \notin tasks, tasks' = tasks \union {t}
  PROVE  /\ IsFiniteSet(tasks')
         /\ \A a : (NumTracked(a))' = IF a = AgentOf[t] THEN NumTracked(a) + 1 ELSE NumTracked(a)
<1>1. IsFiniteSet(tasks')
  BY FS_AddElement
<1>2. ASSUME NEW a, a = AgentOf[t]
      PROVE  (NumTracked(a))' = NumTracked(a) + 1
  <2>1. (Tracked(a))' = Tracked(a) \union {t} /\ t \notin Tracked(a)
    BY <1>2 DEF Tracked
  <2>2. QED
    BY <2>1, TrackedFinite, FS_AddElement DEF NumTracked
<1>3. ASSUME NEW a, a # AgentOf[t]
      PROVE  (NumTracked(a))' = NumTracked(a)
  <2>1. (Tracked(a))' = Tracked(a)
    BY <1>3 DEF Tracked
  <2>2. QED
    BY <2>1 DEF NumTracked
<1>4. QED
  BY <1>1, <1>2, <1>3

\* A finished task no longer does.
LEMMA FinishCounts ==
  ASSUME IsFiniteSet(tasks), NEW t \in tasks, tasks' = tasks \ {t}
  PROVE  /\ IsFiniteSet(tasks')
         /\ \A a : (NumTracked(a))' = IF a = AgentOf[t] THEN NumTracked(a) - 1 ELSE NumTracked(a)
<1>1. IsFiniteSet(tasks')
  BY FS_RemoveElement
<1>2. ASSUME NEW a, a = AgentOf[t]
      PROVE  (NumTracked(a))' = NumTracked(a) - 1
  <2>1. (Tracked(a))' = Tracked(a) \ {t} /\ t \in Tracked(a)
    BY <1>2 DEF Tracked
  <2>2. QED
    BY <2>1, TrackedFinite, FS_RemoveElement DEF NumTracked
<1>3. ASSUME NEW a, a # AgentOf[t]
      PROVE  (NumTracked(a))' = NumTracked(a)
  <2>1. (Tracked(a))' = Tracked(a)
    BY <1>3 DEF Tracked
  <2>2. QED
    BY <2>1 DEF NumTracked
<1>4. QED
  BY <1>1, <1>2, <1>3

-----------------------------------------------------------------------------
(* The steps.                                                              *)

\* The buffer of a new subscription.
LEMMA EmptyBuffer == <<>> \in Seq(Frame) /\ Len(<<>>) <= BufferSize
BY HubAssumption

LEMMA HubInvInit == HInit => HubInv
<1> SUFFICES ASSUME HInit PROVE HubInv
  OBVIOUS
<1>1. HubTypeOK
  <2>1. buffer \in Seq(Frame) /\ Len(buffer) <= BufferSize
    BY EmptyBuffer DEF HInit
  <2>2. QED
    BY <2>1 DEF HInit, HubTypeOK, States
<1>2. IsFiniteSet(tasks)
  BY FS_EmptySet DEF HInit
<1>3. \A a \in Agents : NumTracked(a) = 0
  BY <1>2, TrackedFinite DEF HInit, Tracked
<1>4. \A a \in Agents : Honest(inflight[a], presence[a], NumTracked(a))
  BY <1>3 DEF HInit, Honest
<1>5. QED
  BY <1>1, <1>2, <1>4 DEF HubInv, HInit

\* A frame to send is a frame.
LEMMA FramesTyped ==
  ASSUME HubTypeOK, NEW g \in Goroutines, NEW a \in Agents, NEW s \in States, WillSend(g, a, s)
  PROVE  frames' \in [Goroutines -> {NoFrame} \union Frame]
BY DEF HubTypeOK, WillSend, Frame

\* Nothing but the frames and the browser changes.
LEMMA CountersStay ==
  ASSUME HubInv, UNCHANGED <<tasks, inflight, presence, queued, enqueueing>>, HubTypeOK'
  PROVE  HubInv'
BY DEF HubInv, NumTracked, Tracked, queued

LEMMA TrackKeeps ==
  ASSUME HubInv, NEW t \in Tasks, Track(t)
  PROVE  HubInv'
<1> DEFINE a == AgentOf[t]
<1>1. a \in Agents /\ t # NoTask
  BY HubAssumption
<1>2. /\ enqueueing = NoTask /\ t \notin triggered
      /\ tasks' = tasks \union {t}
      /\ inflight' = [inflight EXCEPT ![a] = @ + 1]
      /\ presence' = [presence EXCEPT ![a] = "thinking"]
      /\ WillSend("trigger", a, "thinking")
      /\ enqueueing' = t
      /\ UNCHANGED <<queued, browser>>
  BY DEF Track
<1>3. t \notin tasks /\ NoTask \notin tasks
  BY <1>1, <1>2, HubAssumption DEF HubInv, HubTypeOK
<1>4. /\ IsFiniteSet(tasks')
      /\ \A b : (NumTracked(b))' = IF b = a THEN NumTracked(b) + 1 ELSE NumTracked(b)
  BY <1>2, <1>3, TrackCounts DEF HubInv
<1>5. frames' \in [Goroutines -> {NoFrame} \union Frame]
  BY <1>1, <1>2, FramesTyped DEF HubInv, Goroutines, States
<1>6. HubTypeOK'
  BY <1>1, <1>2, <1>5 DEF HubInv, HubTypeOK, States, queued, browser
<1>7. ASSUME NEW b \in Agents
      PROVE  Honest(inflight'[b], presence'[b], (NumTracked(b))')
  <2>1. Honest(inflight[b], presence[b], NumTracked(b))
    BY DEF HubInv
  <2>2. CASE b = a
    <3>1. inflight'[b] = inflight[b] + 1 /\ presence'[b] = "thinking"
      BY <1>2, <2>2 DEF HubInv, HubTypeOK
    <3>2. QED
      BY <1>4, <2>1, <2>2, <3>1 DEF Honest
  <2>3. CASE b # a
    <3>1. inflight'[b] = inflight[b] /\ presence'[b] = presence[b]
      BY <1>2, <2>3 DEF HubInv, HubTypeOK
    <3>2. QED
      BY <1>4, <2>1, <2>3, <3>1
  <2>4. QED
    BY <2>2, <2>3
<1>8. QED
  BY <1>2, <1>3, <1>4, <1>6, <1>7 DEF HubInv, queued

\* Finish changes the hub and at most its goroutine's frame, and keeps the
\* counters honest.
LEMMA FinishKeeps ==
  ASSUME HubInv, NEW t \in Tasks, NEW g \in Goroutines, Finish(t, g)
  PROVE  /\ tasks' \subseteq tasks \ {t} /\ IsFiniteSet(tasks')
         /\ inflight' \in [Agents -> Nat] /\ presence' \in [Agents -> States]
         /\ frames' \in [Goroutines -> {NoFrame} \union Frame]
         /\ \A b \in Agents : Honest(inflight'[b], presence'[b], (NumTracked(b))')
<1>1. CASE t \notin tasks
  BY <1>1 DEF Finish, hubState, HubInv, HubTypeOK, NumTracked, Tracked
<1>2. CASE t \in tasks
  <2> DEFINE a == AgentOf[t]
             left == IF inflight[a] > 0 THEN inflight[a] - 1 ELSE 0
             idle == left = 0 /\ presence[a] = "thinking"
  <2>1. a \in Agents /\ inflight[a] \in Nat /\ left \in Nat
    BY HubAssumption DEF HubInv, HubTypeOK
  <2>2. /\ tasks' = tasks \ {t}
        /\ inflight' = [inflight EXCEPT ![a] = left]
        /\ presence' = IF idle THEN [presence EXCEPT ![a] = "online"] ELSE presence
        /\ IF idle THEN WillSend(g, a, "online") ELSE UNCHANGED frames
    BY <1>2 DEF Finish
  <2>3. /\ IsFiniteSet(tasks')
        /\ \A b : (NumTracked(b))' = IF b = a THEN NumTracked(b) - 1 ELSE NumTracked(b)
    BY <1>2, <2>2, FinishCounts DEF HubInv
  <2>4. frames' \in [Goroutines -> {NoFrame} \union Frame]
    BY <2>1, <2>2, FramesTyped DEF HubInv, HubTypeOK, States
  <2>5. inflight' \in [Agents -> Nat] /\ presence' \in [Agents -> States]
    BY <2>1, <2>2 DEF HubInv, HubTypeOK, States
  <2>6. ASSUME NEW b \in Agents
        PROVE  Honest(inflight'[b], presence'[b], (NumTracked(b))')
    <3>1. Honest(inflight[b], presence[b], NumTracked(b))
      BY DEF HubInv
    <3>2. CASE b = a
      <4>1. inflight'[b] = left /\ presence'[b] = IF idle THEN "online" ELSE presence[b]
        BY <2>1, <2>2, <3>2 DEF HubInv, HubTypeOK
      <4>2. NumTracked(b) > 0
        <5>1. t \in Tracked(b)
          BY <1>2, <3>2 DEF Tracked
        <5>2. QED
          BY <5>1, TrackedFinite DEF HubInv
      <4>3. QED
        BY <2>1, <2>3, <3>1, <3>2, <4>1, <4>2 DEF Honest
    <3>3. CASE b # a
      <4>1. inflight'[b] = inflight[b] /\ presence'[b] = presence[b]
        BY <2>2, <3>3 DEF HubInv, HubTypeOK
      <4>2. QED
        BY <2>3, <3>1, <3>3, <4>1
    <3>4. QED
      BY <3>2, <3>3
  <2>7. QED
    BY <2>2, <2>3, <2>4, <2>5, <2>6
<1>3. QED
  BY <1>1, <1>2

LEMMA EnqueueKeeps ==
  ASSUME HubInv, Enqueue
  PROVE  HubInv'
<1>0. enqueueing \in Tasks /\ enqueueing' = NoTask /\ UNCHANGED browser
  BY DEF Enqueue, HubInv, HubTypeOK
<1>1. CASE /\ published' = published \union {enqueueing}
           /\ triggered' = triggered \union {enqueueing}
           /\ UNCHANGED <<hubState, frames>>
  <2>1. HubTypeOK'
    BY <1>0, <1>1 DEF HubInv, HubTypeOK, browser, hubState
  <2>2. QED
    BY <1>0, <1>1, <2>1 DEF HubInv, hubState, NumTracked, Tracked
<1>2. CASE /\ published' \in {published, published \union {enqueueing}}
           /\ UNCHANGED triggered
           /\ Finish(enqueueing, "trigger")
  <2>1. /\ tasks' \subseteq tasks \ {enqueueing} /\ IsFiniteSet(tasks')
        /\ inflight' \in [Agents -> Nat] /\ presence' \in [Agents -> States]
        /\ frames' \in [Goroutines -> {NoFrame} \union Frame]
        /\ \A b \in Agents : Honest(inflight'[b], presence'[b], (NumTracked(b))')
    BY <1>0, <1>2, FinishKeeps DEF Goroutines
  <2>2. HubTypeOK'
    BY <1>0, <1>2, <2>1 DEF HubInv, HubTypeOK, browser
  <2>3. QED
    BY <1>0, <1>2, <2>1, <2>2 DEF HubInv
<1>3. QED
  BY <1>1, <1>2 DEF Enqueue

LEMMA ResultKeeps ==
  ASSUME HubInv, NEW t \in Tasks, Result(t)
  PROVE  HubInv'
<1>1. Finish(t, "results") /\ UNCHANGED <<enqueueing, queued, browser>>
  BY DEF Result
<1>2. /\ tasks' \subseteq tasks \ {t} /\ IsFiniteSet(tasks')
      /\ inflight' \in [Agents -> Nat] /\ presence' \in [Agents -> States]
      /\ frames' \in [Goroutines -> {NoFrame} \union Frame]
      /\ \A b \in Agents : Honest(inflight'[b], presence'[b], (NumTracked(b))')
  BY <1>1, FinishKeeps DEF Goroutines
<1>3. HubTypeOK'
  BY <1>1, <1>2 DEF HubInv, HubTypeOK, browser, queued
<1>4. QED
  BY <1>1, <1>2, <1>3 DEF HubInv, queued

LEMMA SetPresenceKeeps ==
  ASSUME HubInv, NEW a \in Agents, NEW s \in {"online", "offline"}, SetPresence(a, s)
  PROVE  HubInv'
<1> DEFINE shown == IF s = "online" /\ inflight[a] > 0 THEN "thinking" ELSE s
<1>1. /\ presence' = [presence EXCEPT ![a] = shown]
      /\ WillSend("presence", a, shown)
      /\ inflight' = IF s = "offline" THEN [inflight EXCEPT ![a] = 0] ELSE inflight
      /\ UNCHANGED <<tasks, enqueueing, queued, browser>>
  BY DEF SetPresence
<1>2. shown \in States
  BY DEF States
<1>3. frames' \in [Goroutines -> {NoFrame} \union Frame]
  BY <1>1, <1>2, FramesTyped DEF HubInv, Goroutines
<1>4. HubTypeOK'
  BY <1>1, <1>2, <1>3 DEF HubInv, HubTypeOK, browser, queued
<1>5. ASSUME NEW b \in Agents
      PROVE  Honest(inflight'[b], presence'[b], (NumTracked(b))')
  <2>1. Honest(inflight[b], presence[b], NumTracked(b)) /\ (NumTracked(b))' = NumTracked(b)
    BY <1>1 DEF HubInv, NumTracked, Tracked
  <2>2. CASE b = a
    <3>1. /\ presence'[b] = shown
          /\ inflight'[b] = IF s = "offline" THEN 0 ELSE inflight[b]
      BY <1>1, <2>2 DEF HubInv, HubTypeOK
    <3>2. QED
      BY <2>1, <2>2, <3>1 DEF Honest
  <2>3. CASE b # a
    BY <1>1, <2>1, <2>3 DEF HubInv, HubTypeOK
  <2>4. QED
    BY <2>2, <2>3
<1>6. QED
  BY <1>1, <1>4, <1>5 DEF HubInv, queued

\* Frames and the browser leave the hub alone.
LEMMA BrowserKeeps ==
  ASSUME HubInv,
         \/ \E g \in Goroutines : Broadcast(g)
         \/ Subscribe \/ Unsubscribe \/ ShowFrame
         \/ \E a \in Agents : ReadState(a)
  PROVE  HubInv'
<1>1. CASE \E g \in Goroutines : Broadcast(g)
  <2> PICK g \in Goroutines : Broadcast(g)
    BY <1>1
  <2>1. frames[g] \in Frame /\ frames' \in [Goroutines -> {NoFrame} \union Frame]
    BY DEF Broadcast, Free, HubInv, HubTypeOK
  <2>2. buffer' \in Seq(Frame) /\ Len(buffer') <= BufferSize
    <3>1. CASE watching /\ Len(buffer) < BufferSize
      <4>1. buffer' = Append(buffer, frames[g]) /\ buffer \in Seq(Frame)
        BY <3>1 DEF Broadcast, HubInv, HubTypeOK
      <4>2. QED
        BY <2>1, <3>1, <4>1, HubAssumption
    <3>2. CASE ~(watching /\ Len(buffer) < BufferSize)
      BY <3>2 DEF Broadcast, HubInv, HubTypeOK
    <3>3. QED
      BY <3>1, <3>2
  <2>3. HubTypeOK'
    BY <2>1, <2>2 DEF Broadcast, HubInv, HubTypeOK, hubState, queued
  <2>4. QED
    BY <2>3, CountersStay DEF Broadcast, hubState
<1>2. CASE Subscribe
  <2>1. HubTypeOK'
    BY <1>2, EmptyBuffer DEF Subscribe, HubInv, HubTypeOK, hubState, queued
  <2>2. QED
    BY <1>2, <2>1, CountersStay DEF Subscribe, hubState
<1>3. CASE Unsubscribe
  <2>1. HubTypeOK'
    BY <1>3, EmptyBuffer DEF Unsubscribe, HubInv, HubTypeOK, hubState, queued
  <2>2. QED
    BY <1>3, <2>1, CountersStay DEF Unsubscribe, hubState
<1>4. CASE ShowFrame
  <2>1. /\ buffer \in Seq(Frame) /\ buffer # <<>> /\ Len(buffer) <= BufferSize
        /\ buffer' = Tail(buffer)
        /\ screen' = [screen EXCEPT ![Head(buffer).agent] = Head(buffer).state]
        /\ UNCHANGED <<hubState, frames, enqueueing, queued, watching, toShow>>
    BY <1>4 DEF ShowFrame, HubInv, HubTypeOK
  <2>2. Tail(buffer) \in Seq(Frame) /\ Len(Tail(buffer)) <= BufferSize /\ Head(buffer) \in Frame
    BY <2>1, HubAssumption
  <2>3. screen' \in [Agents -> States]
    BY <2>1, <2>2 DEF Frame, HubInv, HubTypeOK
  <2>4. HubTypeOK'
    BY <2>1, <2>2, <2>3 DEF HubInv, HubTypeOK, hubState, queued
  <2>5. QED
    BY <2>1, <2>4, CountersStay DEF hubState
<1>5. CASE \E a \in Agents : ReadState(a)
  <2> PICK a \in Agents : ReadState(a)
    BY <1>5
  <2>1. presence[a] \in States /\ WillSend("ws", a, presence[a])
    BY DEF ReadState, HubInv, HubTypeOK
  <2>2. frames' \in [Goroutines -> {NoFrame} \union Frame]
    BY <2>1, FramesTyped DEF HubInv, Goroutines
  <2>3. HubTypeOK'
    BY <2>2 DEF ReadState, HubInv, HubTypeOK, hubState, queued
  <2>4. QED
    BY <2>3, CountersStay DEF ReadState, hubState
<1>6. QED
  BY <1>1, <1>2, <1>3, <1>4, <1>5

LEMMA HubInvStep ==
  ASSUME HubInv, [HNext]_hvars
  PROVE  HubInv'
<1>1. CASE UNCHANGED hvars
  <2>1. HubTypeOK'
    BY <1>1 DEF hvars, hubState, browser, queued, HubInv, HubTypeOK
  <2>2. QED
    BY <1>1, <2>1, CountersStay DEF hvars, hubState
<1>2. QED
  BY <1>1, TrackKeeps, ResultKeeps, EnqueueKeeps, SetPresenceKeeps, BrowserKeeps DEF HNext

\* The invariant holds in every behaviour of the hub.
THEOREM HubInvHolds == HSpec => []HubInv
<1>1. HInit => HubInv
  BY HubInvInit
<1>2. HubInv /\ [HNext]_hvars => HubInv'
  BY HubInvStep
<1>3. QED
  BY <1>1, <1>2, PTL DEF HSpec

\* The hub's tables have their types; no counter goes below zero.
THEOREM HubTypeCorrect == HSpec => []HubTypeOK
<1>1. HubInv => HubTypeOK
  BY DEF HubInv
<1>2. QED
  BY <1>1, HubInvHolds, PTL

\* A thinking agent has counted work, and no more than tracked tasks (Track,
\* Finish, SetPresence), for any number of tasks and interleavings of goroutines.
THEOREM ThinkingAlwaysHasATask == HSpec => []ThinkingHasATask
<1>1. HubInv => ThinkingHasATask
  BY DEF HubInv, ThinkingHasATask, Honest, NumTracked
<1>2. QED
  BY <1>1, HubInvHolds, PTL

\* While an agent's counter agrees with its tasks, it thinks exactly when it
\* has one.
THEOREM CountedAlwaysThinks == HSpec => []CountedIsThinking
<1>1. HubInv => CountedIsThinking
  <2> SUFFICES ASSUME HubInv, NEW a \in Agents, inflight[a] = NumTracked(a)
               PROVE  Tracked(a) # {} <=> presence[a] = "thinking"
    BY DEF CountedIsThinking, NumTracked
  <2>1. NumTracked(a) \in Nat /\ (NumTracked(a) = 0 <=> Tracked(a) = {})
    BY TrackedFinite DEF HubInv
  <2>2. Honest(inflight[a], presence[a], NumTracked(a))
    BY DEF HubInv
  <2>3. QED
    BY <2>1, <2>2 DEF Honest
<1>2. QED
  BY <1>1, HubInvHolds, PTL

-----------------------------------------------------------------------------
(***************************************************************************)
(* The gateway.                                                            *)
(***************************************************************************)
Names == {User, Lead} \cup {Asker(k) : k \in Keys} \cup {Asked(k) : k \in Keys}
Messages == [from : Names, replyTo : Nat, seen : Nat]
Sessions == [key : Keys, people : Names \X Names, actor : {"live", "mute", "gone"},
             log : Seq(Messages)]
Positions == [session : Nat, n : Nat]
Jobs == [session : Nat, n : Nat, agent : Names, seen : Nat]
Requests == [at : {"idle", "reserve", "lookup", "open", "store", "append", "wait", "answered"},
             key : Keys \cup {<<>>}, session : Nat, asked : Nat, reply : Nat]

GatewayTypeOK ==
  /\ keys \in [Keys -> Nat] /\ sessions \in Seq(Sessions) /\ errors \in Nat
  /\ news \in Seq(Positions) /\ hand \in Jobs \cup {Nothing} /\ jobs \subseteq Jobs
  /\ client \in [Clients -> Requests]

\* A session is between its asker and the one asked; what answers a message
\* was run with that message in its history.
Answer(s, m) == m.replyTo # 0 => m.seen >= m.replyTo
GoodSession(s) ==
  /\ s.people \in {<<Asker(s.key), Asked(s.key)>>, <<Asked(s.key), Asker(s.key)>>}
  /\ \A i \in DOMAIN s.log : Answer(s, s.log[i])
GoodSessions(ss) == \A r \in DOMAIN ss : GoodSession(ss[r])

\* A message of a stream; a task for one, and for whom.
IsSaid(ss, r, n) == r \in DOMAIN ss /\ n \in DOMAIN ss[r].log
IsFor(ss, j) ==
  /\ IsSaid(ss, j.session, j.n) /\ j.seen >= j.n
  /\ j.agent # User /\ j.agent \in {Asker(ss[j.session].key), Asked(ss[j.session].key)}

\* After a read that failed, a pair may have left a session.  There only may
\* the caller be woken; what others say in reply, they were asked.
Left(ss, ks, er, r) == er # 0 /\ IsSpoke(ss[r].key) /\ ks[ss[r].key] # r
NotWoken(ss, ks, er, j) ==
  ss[j.session].actor # "gone" /\ IsSpoke(ss[j.session].key)
    => j.agent # Asker(ss[j.session].key) \/ Left(ss, ks, er, j.session)
FromAsked(ss, ks, er, r, m) ==
  m.replyTo # 0 => m.from = Asked(ss[r].key) \/ Left(ss, ks, er, r)
RepliesOK(ss, ks, er) ==
  \A r \in DOMAIN ss : \A i \in DOMAIN ss[r].log : FromAsked(ss, ks, er, r, ss[r].log[i])
WorkInv ==
  /\ \A i \in DOMAIN news : IsSaid(sessions, news[i].session, news[i].n)
  /\ hand # Nothing => IsFor(sessions, hand)
  /\ \A j \in jobs : IsFor(sessions, j) /\ NotWoken(sessions, keys, errors, j)

\* What a request has found out is of its key; a session that it has still to
\* store is empty, and nobody else has it.
Has(g) == g.at \in {"store", "append", "wait", "answered"}
Waits(g) == g.at \in {"wait", "answered"}
Own(ss, ks, g) ==
  /\ g.at # "idle" => g.key \in Keys
  /\ Has(g) => g.session \in DOMAIN ss /\ ss[g.session].key = g.key
  /\ g.at = "store" => ss[g.session].log = <<>> /\ \A k \in Keys : ks[k] # g.session
  /\ Waits(g) => /\ IsSaid(ss, g.session, g.asked)
                 /\ ss[g.session].log[g.asked].from = Asker(g.key)
  /\ g.at = "answered" => /\ IsSaid(ss, g.session, g.reply)
                          /\ ss[g.session].log[g.reply].replyTo = g.asked
                          /\ ss[g.session].log[g.reply].from = Asked(g.key)

\* A request that is on its way to a coworker has reserved it, opens a session
\* only where there is none to be read, and waits in that of the pair.
Holds(g) ==
  g.at \in {"lookup", "open", "store", "append", "wait", "answered"} /\ IsSpoke(g.key)
Opens(g) == g.at \in {"open", "store"} /\ IsSpoke(g.key)
Sits(g) == g.at \in {"append", "wait"} /\ IsSpoke(g.key)
Reserved(ss, ks, fl, er, g) ==
  /\ g.at = "reserve" => IsSpoke(g.key)
  /\ Holds(g) => Asked(g.key) \in fl
  /\ Opens(g) => er # 0 \/ ks[g.key] = 0 \/ ss[ks[g.key]].actor = "gone"
  /\ Sits(g) => ss[g.session].actor = "gone" \/ ks[g.key] = g.session

Apart(g, h) ==
  /\ g.at = "store" /\ Has(h) => h.session # g.session
  /\ Waits(g) /\ Waits(h) /\ g.session = h.session => g.asked # h.asked
  /\ Holds(g) /\ Holds(h) => Asked(g.key) # Asked(h.key)

ClientsOK(ss, ks, fl, er, cl) ==
  \A c \in Clients : /\ Own(ss, ks, cl[c]) /\ Reserved(ss, ks, fl, er, cl[c])
                     /\ \A d \in Clients \ {c} : Apart(cl[c], cl[d])

\* Where every read succeeded, a spoke session that answers is the one of its
\* key, or about to be; a deletion has found all but the latter.
KeysOK(ss, ks) == \A k \in Keys : ks[k] # 0 => ks[k] \in DOMAIN ss /\ ss[ks[k]].key = k
Stores(g, r) == g.at = "store" /\ g.session = r
Spoke(ss, r) == IsSpoke(ss[r].key) /\ ss[r].actor # "gone"
SpokesOK(ss, ks, er, cl) ==
  er = 0 =>
    \A r \in DOMAIN ss : Spoke(ss, r) => ks[ss[r].key] = r \/ \E c \in Clients : Stores(cl[c], r)
FoundOK(ss, cl, found) ==
  found # NotDeleting =>
    /\ \A r \in found : r \in DOMAIN ss /\ ss[r].actor # "gone"
    /\ \A r \in DOMAIN ss : Spoke(ss, r) => r \in found \/ \E c \in Clients : Stores(cl[c], r)

GwInv ==
  /\ GatewayTypeOK /\ GoodSessions(sessions) /\ WorkInv
  /\ ClientsOK(sessions, keys, flights, errors, client)
  /\ KeysOK(sessions, keys) /\ SpokesOK(sessions, keys, errors, client)
  /\ FoundOK(sessions, client, forgetting) /\ RepliesOK(sessions, keys, errors)

-----------------------------------------------------------------------------
(* Keys. *)

LEMMA KeyKinds ==
  /\ Home \in Keys /\ ~IsSpoke(Home) /\ Asker(Home) = User /\ Asked(Home) = Lead
  /\ \A k \in Keys : Asker(k) \in Names /\ Asked(k) \in Names
  /\ \A k \in Keys : IsSpoke(k) => k \in Delegations /\ Asker(k) = k[2] /\ Asked(k) = k[3]
  /\ \A k \in Keys : ~IsSpoke(k) => Asker(k) = User
  /\ <<>> \notin Keys /\ ~IsSpoke(<<>>)
<1>1. Home \in Posts /\ Len(Home) = 2 /\ Home[2] = Lead
  BY GatewayAssumption DEF Home
<1>2. Home \notin Delegations
  BY <1>1, GatewayAssumption
<1>3. Len(<<>>) = 0
  BY EmptySeq
<1>4. <<>> \notin Posts /\ <<>> \notin Delegations
  BY <1>3, GatewayAssumption
<1>5. QED
  BY <1>1, <1>2, <1>4 DEF Keys, IsSpoke, Asker, Asked, Names

-----------------------------------------------------------------------------
(* Sessions only grow. *)

Grows(ss, tt) ==
  /\ DOMAIN ss \subseteq DOMAIN tt
  /\ \A r \in DOMAIN ss :
       /\ tt[r].key = ss[r].key /\ (ss[r].actor = "gone" => tt[r].actor = "gone")
       /\ DOMAIN ss[r].log \subseteq DOMAIN tt[r].log
       /\ \A i \in DOMAIN ss[r].log : tt[r].log[i] = ss[r].log[i]

LEMMA SameGrows ==
  ASSUME NEW ss
  PROVE  Grows(ss, ss)
BY DEF Grows

Opened(ss, k) == Append(ss, NewSession(k, <<Asker(k), Asked(k)>>))

\* tt is ss and one more session, empty and of this key.
OneMore(ss, tt, k) ==
  LET n == Len(ss) + 1 IN
  /\ Len(ss) \in Nat /\ DOMAIN tt = DOMAIN ss \cup {n} /\ n \notin DOMAIN ss
  /\ tt[n].key = k /\ tt[n].log = <<>>
  /\ \A r \in DOMAIN ss : tt[r] = ss[r]

LEMMA OpenGrows ==
  ASSUME NEW ss \in Seq(Sessions), GoodSessions(ss), NEW k \in Keys, NEW tt, tt = Opened(ss, k)
  PROVE  /\ tt \in Seq(Sessions) /\ GoodSessions(tt) /\ Grows(ss, tt)
         /\ OneMore(ss, tt, k)
<1> DEFINE s == NewSession(k, <<Asker(k), Asked(k)>>)
<1>1. s.key = k /\ s.people = <<Asker(k), Asked(k)>> /\ s.actor = "live" /\ s.log = <<>>
  BY DEF NewSession
<1>2. <<Asker(k), Asked(k)>> \in Names \X Names
  BY KeyKinds
<1>3. <<>> \in Seq(Messages) /\ DOMAIN <<>> = {}
  BY EmptySeq
<1>4. s \in Sessions
  BY <1>2, <1>3 DEF NewSession, Sessions
<1>5. GoodSession(s)
  BY <1>1, <1>3 DEF GoodSession
<1> HIDE DEF s
<1>6. tt = Append(ss, s)
  BY DEF s, Opened
<1>7. /\ tt \in Seq(Sessions) /\ Len(ss) \in Nat /\ DOMAIN ss = 1 .. Len(ss)
      /\ DOMAIN tt = 1 .. Len(ss) + 1 /\ tt[Len(ss) + 1] = s
      /\ \A r \in 1 .. Len(ss) : tt[r] = ss[r]
  BY <1>4, <1>6, AppendProperties, LenProperties
<1>8. QED
  BY <1>1, <1>5, <1>7 DEF GoodSessions, Grows, OneMore

SaidIn(ss, r, m) == [ss EXCEPT ![r] = [ss[r] EXCEPT !.log = Append(ss[r].log, m)]]

LEMMA SayGrows ==
  ASSUME NEW ss \in Seq(Sessions), GoodSessions(ss), NEW r \in DOMAIN ss, NEW m \in Messages,
         Answer(ss[r], m), NEW tt, tt = SaidIn(ss, r, m)
  PROVE  /\ tt \in Seq(Sessions) /\ GoodSessions(tt) /\ Grows(ss, tt) /\ DOMAIN tt = DOMAIN ss
         /\ Len(ss[r].log) \in Nat /\ DOMAIN ss[r].log = 1 .. Len(ss[r].log)
         /\ tt[r].log[Len(ss[r].log) + 1] = m /\ IsSaid(tt, r, Len(ss[r].log) + 1)
         /\ \A i \in DOMAIN tt[r].log : IsSaid(ss, r, i) \/ tt[r].log[i] = m
         /\ \A q \in DOMAIN ss : tt[q].actor = ss[q].actor /\ tt[q].key = ss[q].key
         /\ \A q \in DOMAIN ss \ {r} : tt[q] = ss[q]
<1> DEFINE s == ss[r]
           log == Append(s.log, m)
           t == [s EXCEPT !.log = log]
<1>0. DOMAIN ss = 1 .. Len(ss) /\ Len(ss) \in Nat
  BY LenProperties
<1>1. s \in Sessions /\ s.log \in Seq(Messages) /\ GoodSession(s)
  <2>1. s \in Sessions
    BY <1>0, ElementOfSeq
  <2>2. QED
    BY <2>1 DEF GoodSessions, Sessions
<1>2. /\ log \in Seq(Messages) /\ Len(s.log) \in Nat /\ DOMAIN s.log = 1 .. Len(s.log)
      /\ DOMAIN log = 1 .. Len(s.log) + 1 /\ log[Len(s.log) + 1] = m
      /\ \A i \in 1 .. Len(s.log) : log[i] = s.log[i]
  BY <1>1, AppendProperties, LenProperties
<1>3. tt = [ss EXCEPT ![r] = t]
  BY DEF SaidIn
<1> HIDE DEF log
<1>4. t \in Sessions /\ t.log = log /\ t.key = s.key /\ t.actor = s.actor /\ t.people = s.people
  BY <1>1, <1>2 DEF Sessions
<1>5. GoodSession(t)
  BY <1>1, <1>2, <1>4 DEF GoodSession, Answer
<1> HIDE DEF t
<1>5a. /\ t.key = ss[r].key /\ t.actor = ss[r].actor
       /\ DOMAIN ss[r].log \subseteq DOMAIN t.log
       /\ \A i \in DOMAIN ss[r].log : t.log[i] = ss[r].log[i]
  BY <1>2, <1>4
<1>6. DOMAIN tt = DOMAIN ss /\ tt[r] = t /\ (\A q \in DOMAIN ss \ {r} : tt[q] = ss[q])
  BY <1>3
<1>7. tt \in Seq(Sessions)
  <2>1. r \in 1 .. Len(ss)
    BY <1>0
  <2>2. [ss EXCEPT ![r] = t] \in Seq(Sessions)
    BY <1>4, <2>1, ExceptSeq
  <2>3. QED
    BY <1>3, <2>2
<1>8. GoodSessions(tt)
  BY <1>5, <1>6 DEF GoodSessions
<1>9. Grows(ss, tt)
  <2>1. ASSUME NEW q \in DOMAIN ss
        PROVE  /\ tt[q].key = ss[q].key /\ (ss[q].actor = "gone" => tt[q].actor = "gone")
               /\ DOMAIN ss[q].log \subseteq DOMAIN tt[q].log
               /\ \A i \in DOMAIN ss[q].log : tt[q].log[i] = ss[q].log[i]
    <3>1. CASE q = r
      BY <1>5a, <1>6, <3>1
    <3>2. CASE q # r
      BY <1>6, <3>2
    <3>3. QED
      BY <3>1, <3>2
  <2>2. QED
    BY <1>6, <2>1 DEF Grows
<1>10. tt[r].log[Len(ss[r].log) + 1] = m /\ IsSaid(tt, r, Len(ss[r].log) + 1)
  <2>1. tt[r].log = log
    BY <1>4, <1>6
  <2>2. Len(ss[r].log) + 1 \in DOMAIN log /\ log[Len(ss[r].log) + 1] = m
    BY <1>2
  <2>3. r \in DOMAIN tt
    BY <1>6
  <2>4. QED
    BY <2>1, <2>2, <2>3 DEF IsSaid
<1>10a. \A i \in DOMAIN tt[r].log : IsSaid(ss, r, i) \/ tt[r].log[i] = m
  <2>1. tt[r].log = log
    BY <1>4, <1>6
  <2>2. PICK n \in Nat : n = Len(s.log)
    BY <1>2
  <2>3. \A i \in 1 .. n + 1 : i \in 1 .. n \/ i = n + 1
    OBVIOUS
  <2>4. QED
    BY <1>2, <2>1, <2>2, <2>3 DEF IsSaid
<1>11. \A q \in DOMAIN ss : tt[q].actor = ss[q].actor /\ tt[q].key = ss[q].key
  <2>1. ASSUME NEW q \in DOMAIN ss
        PROVE  tt[q].actor = ss[q].actor /\ tt[q].key = ss[q].key
    BY <1>5a, <1>6
  <2>2. QED
    BY <2>1
<1>12. QED
  BY <1>2, <1>6, <1>7, <1>8, <1>9, <1>10, <1>10a, <1>11

Became(ss, found, state) ==
  [s \in DOMAIN ss |-> IF s \in found THEN [ss[s] EXCEPT !.actor = state] ELSE ss[s]]

LEMMA BecomeGrows ==
  ASSUME NEW ss \in Seq(Sessions), GoodSessions(ss), NEW found,
         NEW state \in {"live", "mute", "gone"},
         state = "gone" \/ \A r \in found : ss[r].actor # "gone",
         NEW tt, tt = Became(ss, found, state)
  PROVE  /\ tt \in Seq(Sessions) /\ GoodSessions(tt) /\ Grows(ss, tt) /\ DOMAIN tt = DOMAIN ss
         /\ \A r \in DOMAIN ss : /\ tt[r].log = ss[r].log /\ tt[r].key = ss[r].key
                                 /\ tt[r].actor = IF r \in found THEN state ELSE ss[r].actor
<1>1. ASSUME NEW r \in DOMAIN ss
      PROVE  /\ tt[r] \in Sessions /\ tt[r].log = ss[r].log /\ tt[r].key = ss[r].key
             /\ tt[r].people = ss[r].people
             /\ tt[r].actor = IF r \in found THEN state ELSE ss[r].actor
  <2>1. ss[r] \in Sessions
    BY ElementOfSeq
  <2>2. tt[r] = IF r \in found THEN [ss[r] EXCEPT !.actor = state] ELSE ss[r]
    BY DEF Became
  <2>3. QED
    BY <2>1, <2>2 DEF Sessions
<1>2. DOMAIN tt = DOMAIN ss /\ DOMAIN ss = 1 .. Len(ss) /\ Len(ss) \in Nat
  BY LenProperties DEF Became
<1>3. tt \in [1 .. Len(ss) -> Sessions]
  BY <1>1, <1>2 DEF Became
<1>4. tt \in Seq(Sessions)
  BY <1>2, <1>3, SeqDef
<1>5. GoodSessions(tt)
  BY <1>1, <1>2 DEF GoodSessions, GoodSession, Answer
<1>6. Grows(ss, tt)
  BY <1>1, <1>2 DEF Grows
<1>7. QED
  BY <1>1, <1>2, <1>4, <1>5, <1>6

LEMMA SaidGrows ==
  ASSUME NEW ss, NEW tt, Grows(ss, tt), NEW r, NEW n, IsSaid(ss, r, n)
  PROVE  IsSaid(tt, r, n) /\ tt[r].log[n] = ss[r].log[n] /\ tt[r].key = ss[r].key
BY DEF Grows, IsSaid

LEMMA ForGrows ==
  ASSUME NEW ss, NEW tt, Grows(ss, tt), NEW ks, NEW er, NEW j, IsFor(ss, j)
  PROVE  IsFor(tt, j) /\ (NotWoken(ss, ks, er, j) => NotWoken(tt, ks, er, j))
<1>1. IsSaid(tt, j.session, j.n) /\ tt[j.session].key = ss[j.session].key
  BY SaidGrows DEF IsFor
<1>2. IsFor(tt, j)
  BY <1>1 DEF IsFor
<1>3. tt[j.session].actor # "gone" => ss[j.session].actor # "gone"
  BY DEF Grows, IsFor, IsSaid
<1>4. QED
  BY <1>1, <1>2, <1>3 DEF NotWoken, Left

\* What was said stays, and what is said in addition is fine.
LEMMA RepliesGrow ==
  ASSUME NEW ss, NEW tt, Grows(ss, tt), NEW ks, NEW er, RepliesOK(ss, ks, er),
         \A r \in DOMAIN tt : \A i \in DOMAIN tt[r].log :
           IsSaid(ss, r, i) \/ FromAsked(tt, ks, er, r, tt[r].log[i])
  PROVE  RepliesOK(tt, ks, er)
<1>1. ASSUME NEW r, NEW i, IsSaid(ss, r, i)
      PROVE  FromAsked(tt, ks, er, r, tt[r].log[i])
  <2>1. tt[r].log[i] = ss[r].log[i] /\ tt[r].key = ss[r].key
    BY <1>1, SaidGrows
  <2>2. FromAsked(ss, ks, er, r, ss[r].log[i])
    BY <1>1 DEF RepliesOK, IsSaid
  <2>3. QED
    BY <2>1, <2>2 DEF FromAsked, Left
<1>2. QED
  BY <1>1 DEF RepliesOK

LEMMA KeysGrow ==
  ASSUME NEW ss, NEW tt, Grows(ss, tt), NEW ks, KeysOK(ss, ks)
  PROVE  KeysOK(tt, ks)
BY DEF Grows, KeysOK

-----------------------------------------------------------------------------
(* A request that a step leaves where it is. *)

Kept(tt, js, gl, fr, g) ==
  /\ g.at = "store" => tt[g.session].log = <<>> /\ \A k \in Keys : js[k] # g.session
  /\ Holds(g) => Asked(g.key) \in gl
  /\ Opens(g) => fr # 0 \/ js[g.key] = 0 \/ tt[js[g.key]].actor = "gone"
  /\ Sits(g) => tt[g.session].actor = "gone" \/ js[g.key] = g.session

LEMMA KeptIsFine ==
  ASSUME NEW ss, NEW tt, Grows(ss, tt), NEW ks, NEW js, NEW fl, NEW gl, NEW er, NEW fr, NEW g,
         Own(ss, ks, g), Reserved(ss, ks, fl, er, g), Kept(tt, js, gl, fr, g)
  PROVE  Own(tt, js, g) /\ Reserved(tt, js, gl, fr, g)
<1>1. Has(g) => g.session \in DOMAIN tt /\ tt[g.session].key = g.key
  BY DEF Own, Grows
<1>2. Waits(g) => /\ IsSaid(tt, g.session, g.asked)
                  /\ tt[g.session].log[g.asked].from = Asker(g.key)
  BY SaidGrows DEF Own
<1>3. g.at = "answered" => /\ IsSaid(tt, g.session, g.reply)
                           /\ tt[g.session].log[g.reply].replyTo = g.asked
                           /\ tt[g.session].log[g.reply].from = Asked(g.key)
  BY SaidGrows DEF Own
<1>4. Own(tt, js, g)
  BY <1>1, <1>2, <1>3 DEF Own, Kept
<1>5. QED
  BY <1>4 DEF Reserved, Kept

LEMMA KeptBySessions ==
  ASSUME NEW ss, NEW tt, Grows(ss, tt), NEW ks, NEW fl, NEW gl, NEW er, NEW fr, NEW g,
         er # 0 => fr # 0, KeysOK(ss, ks),
         Own(ss, ks, g), Reserved(ss, ks, fl, er, g),
         g.at = "store" => tt[g.session].log = ss[g.session].log,
         Holds(g) => Asked(g.key) \in gl
  PROVE  Kept(tt, ks, gl, fr, g)
<1>1. Opens(g) => g.key \in Keys
  BY DEF Opens, Own
<1>2. Opens(g) => fr # 0 \/ ks[g.key] = 0 \/ tt[ks[g.key]].actor = "gone"
  BY <1>1 DEF Grows, Reserved, KeysOK
<1>3. Sits(g) => tt[g.session].actor = "gone" \/ ks[g.key] = g.session
  BY DEF Grows, Reserved, Sits, Own, Has
<1>4. QED
  BY <1>2, <1>3 DEF Kept, Own

\* All stay, or all but one.
LEMMA AllKept ==
  ASSUME NEW ss, NEW tt, Grows(ss, tt), NEW ks, NEW js, NEW fl, NEW gl, NEW er, NEW fr, NEW cl,
         ClientsOK(ss, ks, fl, er, cl), \A d \in Clients : Kept(tt, js, gl, fr, cl[d])
  PROVE  ClientsOK(tt, js, gl, fr, cl)
<1>1. ASSUME NEW d \in Clients
      PROVE  Own(tt, js, cl[d]) /\ Reserved(tt, js, gl, fr, cl[d])
  BY KeptIsFine DEF ClientsOK
<1>2. QED
  BY <1>1 DEF ClientsOK

LEMMA OneMoved ==
  ASSUME NEW ss, NEW tt, Grows(ss, tt), NEW ks, NEW js, NEW fl, NEW gl, NEW er, NEW fr,
         NEW cl \in [Clients -> Requests], NEW c \in Clients, NEW q,
         ClientsOK(ss, ks, fl, er, cl), Own(tt, js, q), Reserved(tt, js, gl, fr, q),
         \A d \in Clients \ {c} : Kept(tt, js, gl, fr, cl[d]) /\ Apart(q, cl[d]) /\ Apart(cl[d], q),
         NEW dl, dl = [cl EXCEPT ![c] = q]
  PROVE  ClientsOK(tt, js, gl, fr, dl)
<1>1. dl[c] = q /\ \A d \in Clients \ {c} : dl[d] = cl[d]
  OBVIOUS
<1>2. ASSUME NEW d \in Clients \ {c}
      PROVE  Own(tt, js, cl[d]) /\ Reserved(tt, js, gl, fr, cl[d])
  BY <1>2, KeptIsFine DEF ClientsOK
<1>3. ASSUME NEW d \in Clients, NEW e \in Clients \ {d}
      PROVE  Apart(dl[d], dl[e])
  <2>1. CASE d = c
    BY <1>1, <2>1
  <2>2. CASE d # c /\ e = c
    BY <1>1, <2>2
  <2>3. CASE d # c /\ e # c
    BY <1>1, <2>3 DEF ClientsOK
  <2>4. QED
    BY <2>1, <2>2, <2>3
<1>4. QED
  BY <1>1, <1>2, <1>3 DEF ClientsOK

\* The sessions about to be stored remain so, unless it is the one that moves.
LEMMA StoresKept ==
  ASSUME NEW cl \in [Clients -> Requests], NEW c \in Clients, NEW q, NEW dl,
         dl = [cl EXCEPT ![c] = q], NEW r, NEW d \in Clients, Stores(cl[d], r), ~Stores(cl[c], r)
  PROVE  \E e \in Clients : Stores(dl[e], r)
<1>1. d # c /\ dl[d] = cl[d]
  OBVIOUS
<1>2. QED
  BY <1>1

\* Where only requests and the log of a session change.
LEMMA SpokesKept ==
  ASSUME NEW ss, NEW tt, Grows(ss, tt), DOMAIN tt = DOMAIN ss, NEW ks, NEW cl, NEW dl,
         NEW er, NEW fr, er # 0 => fr # 0,
         \A r \in DOMAIN ss : (\E d \in Clients : Stores(cl[d], r)) => \E d \in Clients : Stores(dl[d], r)
  PROVE  /\ SpokesOK(ss, ks, er, cl) => SpokesOK(tt, ks, fr, dl)
         /\ \A found : (\A r \in found \cap DOMAIN ss : tt[r].actor = ss[r].actor)
                       /\ FoundOK(ss, cl, found) => FoundOK(tt, dl, found)
<1>1. ASSUME NEW r \in DOMAIN ss
      PROVE  Spoke(tt, r) => Spoke(ss, r) /\ tt[r].key = ss[r].key
  BY DEF Spoke, Grows
<1>2. SpokesOK(ss, ks, er, cl) => SpokesOK(tt, ks, fr, dl)
  BY <1>1 DEF SpokesOK
<1>3. ASSUME NEW found, \A r \in found \cap DOMAIN ss : tt[r].actor = ss[r].actor,
             FoundOK(ss, cl, found)
      PROVE  FoundOK(tt, dl, found)
  BY <1>1, <1>3 DEF FoundOK
<1>4. QED
  BY <1>2, <1>3

-----------------------------------------------------------------------------
(* Steps of a request that change nothing but where it is. *)

LEMMA IdleFine ==
  /\ Idle \in Requests /\ Idle.at = "idle" /\ Idle.key = <<>>
  /\ \A r : ~Stores(Idle, r)
  /\ \A ss, ks, fl, er : Own(ss, ks, Idle) /\ Reserved(ss, ks, fl, er, Idle)
  /\ \A h : Apart(Idle, h) /\ Apart(h, Idle)
<1>1. Idle.at = "idle" /\ Idle.key = <<>> /\ Idle \in Requests
  BY DEF Idle, Requests
<1> HIDE DEF Idle
<1>2. ~Has(Idle) /\ ~Waits(Idle) /\ ~Holds(Idle) /\ ~Opens(Idle) /\ ~Sits(Idle)
  BY <1>1 DEF Has, Waits, Holds, Opens, Sits
<1>3. \A ss, ks, fl, er : Own(ss, ks, Idle) /\ Reserved(ss, ks, fl, er, Idle)
  BY <1>1, <1>2 DEF Own, Reserved
<1>4. QED
  BY <1>1, <1>2, <1>3 DEF Apart, Stores

LEMMA OnlyClient ==
  ASSUME GwInv, NEW c \in Clients, NEW q \in Requests, client' = [client EXCEPT ![c] = q],
         client[c].at # "store", UNCHANGED <<keys, sessions, work, forgetting>>,
         errors' = errors \/ (errors' \in Nat /\ errors' # 0),
         Own(sessions, keys, q), Reserved(sessions, keys, flights', errors', q),
         \A d \in Clients \ {c} : /\ Apart(q, client[d]) /\ Apart(client[d], q)
                                  /\ Holds(client[d]) => Asked(client[d].key) \in flights'
  PROVE  GwInv'
<1>1. UNCHANGED <<keys, sessions, news, hand, jobs, forgetting>>
  BY DEF work
<1>2. client \in [Clients -> Requests] /\ GatewayTypeOK'
  BY <1>1 DEF GwInv, GatewayTypeOK
<1>3. GoodSessions(sessions)' /\ WorkInv' /\ KeysOK(sessions, keys)' /\ RepliesOK(sessions, keys, errors)'
  <2>1. \A j \in jobs : NotWoken(sessions, keys, errors, j) => NotWoken(sessions, keys, errors', j)
    BY DEF NotWoken, Left
  <2>2. RepliesOK(sessions, keys, errors')
    BY DEF GwInv, RepliesOK, FromAsked, Left
  <2>3. QED
    BY <1>1, <2>1, <2>2 DEF GwInv, WorkInv
<1>4. ClientsOK(sessions, keys, flights', errors', client')
  <2>1. ASSUME NEW d \in Clients \ {c}
        PROVE  Kept(sessions, keys, flights', errors', client[d])
    BY SameGrows, KeptBySessions DEF GwInv, ClientsOK
  <2>2. QED
    BY <1>2, <2>1, SameGrows, OneMoved DEF GwInv
<1>5. \A r \in DOMAIN sessions : (\E d \in Clients : Stores(client[d], r))
                                 => \E d \in Clients : Stores(client'[d], r)
  <2>1. ASSUME NEW r \in DOMAIN sessions, NEW d \in Clients, Stores(client[d], r)
        PROVE  \E e \in Clients : Stores(client'[e], r)
    <3>1. ~Stores(client[c], r)
      BY DEF Stores
    <3>2. QED
      BY <1>2, <2>1, <3>1, StoresKept
  <2>2. QED
    BY <2>1
<1>6. SpokesOK(sessions, keys, errors', client') /\ FoundOK(sessions, client', forgetting)
  BY <1>5, SameGrows, SpokesKept DEF GwInv
<1>7. QED
  BY <1>1, <1>2, <1>3, <1>4, <1>6 DEF GwInv

\* The release of the flight at the end of a request is of its own coworker.
LEMMA EndsFine ==
  ASSUME GwInv, NEW c \in Clients, Ends(c), IsSpoke(client[c].key) => Holds(client[c])
  PROVE  /\ \A d \in Clients \ {c} : Holds(client[d]) => Asked(client[d].key) \in flights'
         /\ client' = [client EXCEPT ![c] = Idle]
<1>1. ASSUME NEW d \in Clients \ {c}, Holds(client[d])
      PROVE  Asked(client[d].key) \in flights'
  <2>1. Asked(client[d].key) \in flights
    BY <1>1 DEF GwInv, ClientsOK, Reserved
  <2>2. IsSpoke(client[c].key) => Asked(client[d].key) # Asked(client[c].key)
    BY <1>1 DEF GwInv, ClientsOK, Apart
  <2>3. QED
    BY <2>1, <2>2 DEF Ends
<1>2. QED
  BY <1>1 DEF Ends

LEMMA RequestStep ==
  ASSUME GwInv, NEW c \in Clients, NEW key \in Keys, Request(c, key)
  PROVE  GwInv'
<1> DEFINE q == [Idle EXCEPT !.key = key, !.at = IF IsSpoke(key) THEN "reserve" ELSE "lookup"]
<1>1. /\ q.key = key /\ q.at = (IF IsSpoke(key) THEN "reserve" ELSE "lookup") /\ q \in Requests
  BY DEF Idle, Requests
<1>2. client' = [client EXCEPT ![c] = q]
  BY DEF Request
<1> HIDE DEF q
<1>3. ~Has(q) /\ ~Waits(q) /\ ~Holds(q) /\ ~Opens(q) /\ ~Sits(q)
  BY <1>1 DEF Has, Waits, Holds, Opens, Sits
<1>4. Own(sessions, keys, q) /\ Reserved(sessions, keys, flights', errors', q)
  BY <1>1, <1>3 DEF Own, Reserved
<1>5. \A d \in Clients \ {c} : /\ Apart(q, client[d]) /\ Apart(client[d], q)
                               /\ Holds(client[d]) => Asked(client[d].key) \in flights'
  <2>1. flights' = flights
    BY DEF Request, server
  <2>2. \A d \in Clients : Holds(client[d]) => Asked(client[d].key) \in flights
    BY DEF GwInv, ClientsOK, Reserved
  <2>3. \A d \in Clients : Apart(q, client[d]) /\ Apart(client[d], q)
    BY <1>1, <1>3 DEF Apart
  <2>4. QED
    BY <2>1, <2>2, <2>3
<1>6. client[c].at # "store" /\ UNCHANGED <<keys, errors, sessions, work, forgetting>>
  BY DEF Request, server, project
<1>7. QED
  BY <1>1, <1>2, <1>4, <1>5, <1>6, OnlyClient

LEMMA ReserveStep ==
  ASSUME GwInv, NEW c \in Clients, Reserve(c)
  PROVE  GwInv'
<1>1. client[c].at = "reserve" /\ IsSpoke(client[c].key) /\ client[c].key \in Keys
  BY DEF GwInv, ClientsOK, Reserved, Own, Reserve
<1>2. UNCHANGED <<keys, errors, sessions, work, forgetting>>
  BY DEF Reserve, project
<1>3. \A d \in Clients : Holds(client[d]) => Asked(client[d].key) \in flights
  BY DEF GwInv, ClientsOK, Reserved
<1>4. CASE Busy(Asked(client[c].key))
  <2>1. client' = [client EXCEPT ![c] = Idle] /\ flights' = flights
    BY <1>4 DEF Reserve
  <2>2. QED
    BY <1>1, <1>2, <1>3, <2>1, IdleFine, OnlyClient
<1>5. CASE ~Busy(Asked(client[c].key))
  <2> DEFINE q == [client[c] EXCEPT !.at = "lookup"]
  <2>1. client[c] \in Requests
    BY DEF GwInv, GatewayTypeOK
  <2>2. q \in Requests /\ q.at = "lookup" /\ q.key = client[c].key
    BY <2>1 DEF Requests
  <2>3. client' = [client EXCEPT ![c] = q] /\ flights' = flights \cup {Asked(client[c].key)}
    BY <1>5 DEF Reserve, Goes
  <2> HIDE DEF q
  <2>4. ~Has(q) /\ ~Waits(q) /\ ~Opens(q) /\ ~Sits(q)
    BY <2>2 DEF Has, Waits, Opens, Sits
  <2>5. Own(sessions, keys, q) /\ Reserved(sessions, keys, flights', errors', q)
    BY <1>1, <2>2, <2>3, <2>4 DEF Own, Reserved
  <2>6. \A d \in Clients \ {c} : Holds(client[d]) => Asked(client[d].key) # Asked(q.key)
    BY <1>3, <1>5, <2>2 DEF Busy
  <2>7. \A d \in Clients \ {c} : Apart(q, client[d]) /\ Apart(client[d], q)
    BY <2>2, <2>4, <2>6 DEF Apart
  <2>8. QED
    BY <1>1, <1>2, <1>3, <2>2, <2>3, <2>5, <2>7, OnlyClient
<1>6. QED
  BY <1>4, <1>5

LEMMA LookUpStep ==
  ASSUME GwInv, NEW c \in Clients, LookUp(c)
  PROVE  GwInv'
<1> DEFINE g == client[c]
           s == keys[g.key]
<1>1. g.at = "lookup" /\ g.key \in Keys /\ g \in Requests /\ s \in Nat
  BY DEF GwInv, ClientsOK, Own, LookUp, GatewayTypeOK
<1>2. UNCHANGED <<keys, sessions, work, forgetting>> /\ flights' = flights
  BY DEF LookUp
<1>3. \A d \in Clients : Holds(client[d]) => Asked(client[d].key) \in flights
  BY DEF GwInv, ClientsOK, Reserved
<1>4. \A d \in Clients \ {c} : Apart(g, client[d]) /\ Apart(client[d], g)
  BY DEF GwInv, ClientsOK
<1>5. ASSUME s # 0, errors' = errors,
             client' = [client EXCEPT ![c] = [g EXCEPT !.at = "append", !.session = s]]
      PROVE  GwInv'
  <2> DEFINE q == [g EXCEPT !.at = "append", !.session = s]
  <2>1. q \in Requests /\ q.at = "append" /\ q.key = g.key /\ q.session = s
    BY <1>1 DEF Requests
  <2>2. client' = [client EXCEPT ![c] = q]
    BY <1>5
  <2> HIDE DEF q
  <2>3. Has(q) /\ ~Waits(q) /\ ~Opens(q) /\ (Holds(q) <=> Holds(g))
    BY <1>1, <2>1 DEF Has, Waits, Opens, Holds
  <2>4. s \in DOMAIN sessions /\ sessions[s].key = g.key
    BY <1>1, <1>5 DEF GwInv, KeysOK
  <2>5. Own(sessions, keys, q)
    BY <1>1, <2>1, <2>3, <2>4 DEF Own
  <2>6. Reserved(sessions, keys, flights', errors', q)
    BY <1>2, <1>3, <2>1, <2>3 DEF Reserved
  <2>7. ASSUME NEW d \in Clients \ {c}
        PROVE  Apart(q, client[d]) /\ Apart(client[d], q)
    <3>1. client[d].at = "store" => client[d].session # s
      BY <1>1 DEF GwInv, ClientsOK, Own
    <3>2. QED
      BY <1>4, <2>1, <2>3, <3>1 DEF Apart
  <2>8. QED
    BY <1>1, <1>2, <1>3, <1>5, <2>1, <2>2, <2>5, <2>6, <2>7, OnlyClient
<1>6. ASSUME Goes(c, "open"), errors' = errors \/ (errors' \in Nat /\ errors' # 0),
             IsSpoke(g.key) => errors' # 0 \/ s = 0 \/ ~Answers(s)
      PROVE  GwInv'
  <2> DEFINE q == [g EXCEPT !.at = "open"]
  <2>1. q \in Requests /\ q.at = "open" /\ q.key = g.key
    BY <1>1 DEF Requests
  <2>2. client' = [client EXCEPT ![c] = q]
    BY <1>6 DEF Goes
  <2> HIDE DEF q
  <2>3. ~Has(q) /\ ~Waits(q) /\ ~Sits(q) /\ (Holds(q) <=> Holds(g))
    BY <1>1, <2>1 DEF Has, Waits, Holds, Sits
  <2>4. Own(sessions, keys, q)
    BY <1>1, <2>1, <2>3 DEF Own
  <2>5. Reserved(sessions, keys, flights', errors', q)
    BY <1>2, <1>3, <1>6, <2>1, <2>3 DEF Reserved, Opens, Answers
  <2>6. \A d \in Clients \ {c} : Apart(q, client[d]) /\ Apart(client[d], q)
    BY <1>4, <2>1, <2>3 DEF Apart
  <2>7. QED
    BY <1>1, <1>2, <1>3, <1>6, <2>1, <2>2, <2>4, <2>5, <2>6, OnlyClient
<1>7. errors \in Nat
  BY DEF GwInv, GatewayTypeOK
<1>8. CASE s = 0 /\ Goes(c, "open") /\ errors' = errors
  BY <1>6, <1>8
<1>9. CASE ~Answers(s) /\ Goes(c, "open") /\ errors' = errors
  BY <1>6, <1>9
<1>10. CASE errors' = errors + 1 /\ Goes(c, "open")
  BY <1>6, <1>7, <1>10
<1>11. QED
  BY <1>5, <1>8, <1>9, <1>10 DEF LookUp

LEMMA WaitReplyStep ==
  ASSUME GwInv, NEW c \in Clients, WaitReply(c)
  PROVE  GwInv'
<1> DEFINE g == client[c]
<1>1. /\ g.at = "wait" /\ g.key \in Keys /\ g \in Requests
      /\ Own(sessions, keys, g) /\ Reserved(sessions, keys, flights, errors, g)
  BY DEF GwInv, ClientsOK, Own, WaitReply, GatewayTypeOK
<1>2. UNCHANGED <<keys, errors, sessions, work, forgetting>> /\ flights' = flights
  BY DEF WaitReply, server, project
<1>3. \A d \in Clients : Holds(client[d]) => Asked(client[d].key) \in flights
  BY DEF GwInv, ClientsOK, Reserved
<1>4. \A d \in Clients \ {c} : Apart(g, client[d]) /\ Apart(client[d], g)
  BY DEF GwInv, ClientsOK
<1>5. PICK i \in DOMAIN sessions[g.session].log :
         /\ sessions[g.session].log[i].replyTo = g.asked
         /\ client' = [client EXCEPT ![c] = [g EXCEPT !.at = "answered", !.reply = i]]
  BY DEF WaitReply, IsReply
<1>6. g.session \in DOMAIN sessions /\ sessions[g.session].log \in Seq(Messages)
  <2>1. g.session \in DOMAIN sessions
    BY <1>1 DEF Own, Has
  <2>2. sessions[g.session] \in Sessions
    BY <2>1, ElementOfSeq, LenProperties DEF GwInv, GatewayTypeOK
  <2>3. QED
    BY <2>1, <2>2 DEF Sessions
<1>7. i \in Nat
  BY <1>6, LenProperties
<1> DEFINE q == [g EXCEPT !.at = "answered", !.reply = i]
<1>8. /\ q \in Requests /\ q.at = "answered" /\ q.key = g.key /\ q.session = g.session
      /\ q.asked = g.asked /\ q.reply = i
  BY <1>1, <1>7 DEF Requests
<1>9. client' = [client EXCEPT ![c] = q]
  BY <1>5
<1> HIDE DEF q
<1>10. Has(g) /\ Waits(g) /\ Has(q) /\ Waits(q) /\ ~Opens(q) /\ (Holds(q) <=> Holds(g))
  BY <1>1, <1>8 DEF Has, Waits, Opens, Holds
<1>10a. sessions[g.session].log[i].from = Asked(g.key)
  <2>1. g.asked # 0
    BY <1>1, <1>6, <1>10, LenProperties DEF Own, IsSaid
  <2>2. /\ FromAsked(sessions, keys, errors, g.session, sessions[g.session].log[i])
        /\ sessions[g.session].key = g.key
    BY <1>1, <1>5, <1>6, <1>10 DEF GwInv, RepliesOK, Own
  <2>3. IsSpoke(g.key) => keys[g.key] = g.session
    BY <1>1 DEF WaitReply, Answers, Reserved, Sits
  <2>4. CASE IsSpoke(g.key)
    BY <1>5, <2>1, <2>2, <2>3, <2>4 DEF FromAsked, Left
  <2>5. CASE ~IsSpoke(g.key)
    BY <1>5, <2>1, <2>2, <2>5 DEF FromAsked, Left
  <2>6. QED
    BY <2>4, <2>5
<1>11. Own(sessions, keys, q)
  BY <1>1, <1>5, <1>6, <1>8, <1>10, <1>10a DEF Own, IsSaid
<1>12. Reserved(sessions, keys, flights', errors', q)
  BY <1>2, <1>3, <1>8, <1>10 DEF Reserved, Sits
<1>13. \A d \in Clients \ {c} : Apart(q, client[d]) /\ Apart(client[d], q)
  BY <1>1, <1>4, <1>8, <1>10 DEF Apart
<1>14. QED
  BY <1>1, <1>2, <1>3, <1>8, <1>9, <1>11, <1>12, <1>13, OnlyClient

LEMMA RespondStep ==
  ASSUME GwInv, NEW c \in Clients, Respond(c)
  PROVE  GwInv'
<1>1. client[c].at \in {"open", "wait", "answered"} /\ Ends(c)
  BY DEF Respond
<1>2. UNCHANGED <<keys, errors, sessions, work, forgetting>>
  BY DEF Respond, project
<1>3. IsSpoke(client[c].key) => Holds(client[c])
  BY <1>1 DEF Holds
<1>4. QED
  BY <1>1, <1>2, <1>3, EndsFine, IdleFine, OnlyClient

-----------------------------------------------------------------------------
(* Steps that open, store and append. *)

\* What is in the stream is of the types, whatever is appended elsewhere.
LEMMA WorkKept ==
  ASSUME GwInv, Grows(sessions, sessions'), UNCHANGED <<keys, errors, hand, jobs>>,
         \A i \in DOMAIN news' : IsSaid(sessions', news'[i].session, news'[i].n)
  PROVE  WorkInv'
<1>1. hand # Nothing => IsFor(sessions', hand)
  BY ForGrows DEF GwInv, WorkInv
<1>2. \A j \in jobs : IsFor(sessions', j) /\ NotWoken(sessions', keys, errors, j)
  BY ForGrows DEF GwInv, WorkInv
<1>3. QED
  BY <1>1, <1>2 DEF WorkInv

LEMMA NewsKept ==
  ASSUME GwInv, Grows(sessions, sessions')
  PROVE  \A i \in DOMAIN news : IsSaid(sessions', news[i].session, news[i].n)
BY SaidGrows DEF GwInv, WorkInv

LEMMA OpenSessionStep ==
  ASSUME GwInv, NEW c \in Clients, OpenSession(c)
  PROVE  GwInv'
<1> DEFINE g == client[c]
           n == Len(sessions) + 1
<1>1. /\ g.at = "open" /\ g.key \in Keys /\ g \in Requests /\ client \in [Clients -> Requests]
      /\ Own(sessions, keys, g) /\ Reserved(sessions, keys, flights, errors, g)
  BY DEF GwInv, ClientsOK, Own, OpenSession, GatewayTypeOK
<1>2. /\ keys' = keys /\ flights' = flights /\ news' = news /\ hand' = hand /\ jobs' = jobs
      /\ forgetting' = forgetting /\ errors' = errors
  BY DEF OpenSession, server, project, work
<1>3. sessions' = Opened(sessions, g.key)
  BY DEF OpenSession, Opened
<1>4. /\ sessions' \in Seq(Sessions) /\ GoodSessions(sessions') /\ Grows(sessions, sessions')
      /\ Len(sessions) \in Nat /\ DOMAIN sessions' = DOMAIN sessions \cup {n}
      /\ n \notin DOMAIN sessions /\ sessions'[n].key = g.key /\ sessions'[n].log = <<>>
      /\ \A r \in DOMAIN sessions : sessions'[r] = sessions[r]
  <2>1. sessions \in Seq(Sessions) /\ GoodSessions(sessions)
    BY DEF GwInv, GatewayTypeOK
  <2>2. PICK k \in Keys : k = g.key
    BY <1>1
  <2>3. sessions' = Opened(sessions, k)
    BY <1>3, <2>2
  <2>4. /\ sessions' \in Seq(Sessions) /\ GoodSessions(sessions') /\ Grows(sessions, sessions')
        /\ OneMore(sessions, sessions', k)
    BY <2>1, <2>3, OpenGrows
  <2>5. QED
    BY <2>2, <2>4 DEF OneMore
<1>4a. n \in Nat
  BY <1>4
<1> DEFINE q == [g EXCEPT !.at = "store", !.session = n]
<1>5. q \in Requests /\ q.at = "store" /\ q.key = g.key /\ q.session = n
  <2> HIDE DEF n
  <2>1. QED
    BY <1>1, <1>4a DEF Requests
<1>6. client' = [client EXCEPT ![c] = q]
  BY DEF OpenSession
<1> HIDE DEF q
<1>7. Has(q) /\ ~Waits(q) /\ ~Sits(q) /\ (Holds(q) <=> Holds(g)) /\ (Opens(q) <=> Opens(g))
  BY <1>1, <1>5 DEF Has, Waits, Holds, Opens, Sits
<1>8. GatewayTypeOK'
  BY <1>1, <1>2, <1>4, <1>5, <1>6 DEF GwInv, GatewayTypeOK
<1>9. WorkInv' /\ KeysOK(sessions', keys)
  BY <1>2, <1>4, NewsKept, WorkKept, KeysGrow DEF GwInv
<1>10. \A k \in Keys : keys[k] # n
  <2>1. n # 0
    BY <1>4
  <2>2. QED
    BY <1>4, <2>1 DEF GwInv, KeysOK
<1>11. ClientsOK(sessions', keys, flights, errors, client')
  <2>1. Own(sessions', keys, q)
    BY <1>1, <1>4, <1>5, <1>7, <1>10 DEF Own
  <2>2. Kept(sessions', keys, flights, errors, g)
    BY <1>1, <1>4, KeptBySessions DEF GwInv, Reserved
  <2>3. Reserved(sessions', keys, flights, errors, q)
    BY <1>5, <1>7, <2>2 DEF Reserved, Kept
  <2>4. ASSUME NEW d \in Clients \ {c}
        PROVE  Kept(sessions', keys, flights, errors, client[d])
    <3>1. Own(sessions, keys, client[d]) /\ Reserved(sessions, keys, flights, errors, client[d])
      BY DEF GwInv, ClientsOK
    <3>2. client[d].at = "store" => sessions'[client[d].session].log = sessions[client[d].session].log
      BY <1>4, <3>1 DEF Own, Has
    <3>3. QED
      BY <1>4, <3>1, <3>2, KeptBySessions DEF GwInv, Reserved
  <2>5. ASSUME NEW d \in Clients \ {c}
        PROVE  Apart(q, client[d]) /\ Apart(client[d], q)
    <3>1. Apart(g, client[d]) /\ Apart(client[d], g)
      BY DEF GwInv, ClientsOK
    <3>2. Has(client[d]) => client[d].session # n
      BY <1>4 DEF GwInv, ClientsOK, Own
    <3>3. client[d].at = "store" => Has(client[d])
      BY DEF Has
    <3>4. QED
      BY <1>5, <1>7, <3>1, <3>2, <3>3 DEF Apart
  <2>6. QED
    BY <1>1, <1>4, <1>6, <2>1, <2>3, <2>4, <2>5, OneMoved DEF GwInv
<1>12. \A r \in DOMAIN sessions :
          (\E d \in Clients : Stores(client[d], r)) => \E d \in Clients : Stores(client'[d], r)
  BY <1>1, <1>6, StoresKept DEF Stores
<1>13. client'[c] = q
  BY <1>1, <1>6
<1>14. Stores(client'[c], n)
  BY <1>5, <1>13 DEF Stores
<1>15. SpokesOK(sessions', keys, errors, client')
  BY <1>4, <1>12, <1>14 DEF GwInv, SpokesOK, Spoke
<1>16. FoundOK(sessions', client', forgetting)
  BY <1>4, <1>12, <1>14 DEF GwInv, FoundOK, Spoke
<1>17. RepliesOK(sessions', keys, errors)
  <2>1. ASSUME NEW r \in DOMAIN sessions', NEW i \in DOMAIN sessions'[r].log
        PROVE  IsSaid(sessions, r, i)
    <3>1. r # n
      BY <1>4, <2>1, EmptySeq
    <3>2. QED
      BY <1>4, <2>1, <3>1 DEF IsSaid
  <2>2. QED
    BY <1>4, <2>1, RepliesGrow DEF GwInv
<1>18. QED
  BY <1>2, <1>4, <1>8, <1>9, <1>11, <1>15, <1>16, <1>17 DEF GwInv

LEMMA StoreKeyStep ==
  ASSUME GwInv, NEW c \in Clients, StoreKey(c)
  PROVE  GwInv'
<1> DEFINE g == client[c]
<1>1. /\ g.at = "store" /\ g.key \in Keys /\ g \in Requests /\ client \in [Clients -> Requests]
      /\ Own(sessions, keys, g) /\ Reserved(sessions, keys, flights, errors, g)
      /\ keys \in [Keys -> Nat] /\ forgetting = NotDeleting
  BY DEF GwInv, ClientsOK, Own, StoreKey, GatewayTypeOK, Unlocked
<1>2. /\ sessions' = sessions /\ news' = news /\ hand' = hand
      /\ jobs' = jobs /\ forgetting' = forgetting /\ errors' = errors
  BY DEF StoreKey, project, work
<1>3. /\ g.session \in DOMAIN sessions /\ sessions[g.session].key = g.key
      /\ sessions[g.session].log = <<>>
  BY <1>1 DEF Own, Has
<1>4. g.session \in Nat /\ g.session # 0
  BY <1>3, LenProperties DEF GwInv, GatewayTypeOK
<1>5. /\ keys' \in [Keys -> Nat] /\ keys'[g.key] = g.session
      /\ \A k \in Keys \ {g.key} : keys'[k] = keys[k]
  BY <1>1, <1>4 DEF StoreKey
<1> DEFINE sent == [g EXCEPT !.at = "append"]
<1>6. sent \in Requests /\ sent.at = "append" /\ sent.key = g.key /\ sent.session = g.session
  BY <1>1 DEF Requests
<1>7. (client' = [client EXCEPT ![c] = sent] /\ flights' = flights) \/ Ends(c)
  BY DEF StoreKey, Goes
<1> HIDE DEF sent
<1>7a. /\ Has(g) /\ Has(sent) /\ ~Waits(sent) /\ ~Opens(sent)
       /\ (Holds(sent) <=> Holds(g)) /\ (Opens(g) <=> IsSpoke(g.key)) /\ (Holds(g) <=> IsSpoke(g.key))
  BY <1>1, <1>6 DEF Has, Waits, Holds, Opens
<1>7b. Own(sessions, keys', sent)
  BY <1>1, <1>3, <1>6, <1>7a DEF Own
<1>7c. Reserved(sessions, keys', flights, errors, sent)
  BY <1>1, <1>5, <1>6, <1>7a DEF Reserved
<1>7d. \A d \in Clients \ {c} : Holds(client[d]) => Asked(client[d].key) \in flights
  BY DEF GwInv, ClientsOK, Reserved
<1>7e. ASSUME NEW d \in Clients \ {c}
       PROVE  Apart(sent, client[d]) /\ Apart(client[d], sent)
  <2>1. Apart(g, client[d]) /\ Apart(client[d], g)
    BY DEF GwInv, ClientsOK
  <2>2. QED
    BY <1>1, <1>6, <1>7a, <2>1 DEF Apart, Waits
\* Sent or ended, the request is fine where it is.
<1>8. PICK q \in Requests :
        /\ client' = [client EXCEPT ![c] = q]
        /\ Own(sessions, keys', q) /\ Reserved(sessions, keys', flights', errors, q)
        /\ \A d \in Clients \ {c} : /\ Apart(q, client[d]) /\ Apart(client[d], q)
                                    /\ Holds(client[d]) => Asked(client[d].key) \in flights'
  <2>1. CASE client' = [client EXCEPT ![c] = sent] /\ flights' = flights
    BY <1>6, <1>7b, <1>7c, <1>7d, <1>7e, <2>1
  <2>2. CASE Ends(c)
    BY <1>7a, <2>2, EndsFine, IdleFine
  <2>3. QED
    BY <1>7, <2>1, <2>2
<1>8a. \A r \in DOMAIN sessions : \A i \in DOMAIN sessions[r].log : r # g.session
  BY <1>3, EmptySeq
\* A session that was left is so still.
<1>8b. ASSUME NEW r \in DOMAIN sessions, r # g.session
       PROVE  Left(sessions, keys, errors, r) => Left(sessions, keys', errors, r)
  <2>1. sessions[r].key \in Keys
    <3>1. sessions \in Seq(Sessions)
      BY DEF GwInv, GatewayTypeOK
    <3>2. r \in 1 .. Len(sessions) /\ Len(sessions) \in Nat
      BY <3>1, LenProperties
    <3>3. sessions[r] \in Sessions
      BY <3>1, <3>2, ElementOfSeq
    <3>4. QED
      BY <3>3 DEF Sessions
  <2>2. QED
    BY <1>5, <1>8b, <2>1 DEF Left
<1>8c. RepliesOK(sessions, keys', errors)
  BY <1>8a, <1>8b DEF GwInv, RepliesOK, FromAsked
<1>9. GatewayTypeOK' /\ WorkInv' /\ GoodSessions(sessions)'
  <2>1. GatewayTypeOK'
    BY <1>1, <1>2, <1>5, <1>8 DEF GwInv, GatewayTypeOK
  <2>2. ASSUME NEW j \in jobs
        PROVE  IsFor(sessions, j) /\ NotWoken(sessions, keys', errors, j)
    <3>1. IsFor(sessions, j) /\ NotWoken(sessions, keys, errors, j)
      BY DEF GwInv, WorkInv
    <3>2. j.session \in DOMAIN sessions /\ j.session # g.session
      BY <1>8a, <3>1 DEF IsFor, IsSaid
    <3>3. QED
      BY <1>8b, <3>1, <3>2 DEF NotWoken
  <2>3. QED
    BY <1>2, <2>1, <2>2 DEF GwInv, WorkInv
<1>10. KeysOK(sessions, keys')
  BY <1>3, <1>5 DEF GwInv, KeysOK
<1>11. ClientsOK(sessions, keys', flights', errors, client')
  <2>3. ASSUME NEW d \in Clients \ {c}
        PROVE  Kept(sessions, keys', flights', errors, client[d])
    <3>1. /\ Own(sessions, keys, client[d]) /\ Reserved(sessions, keys, flights, errors, client[d])
          /\ Apart(g, client[d]) /\ Apart(client[d], g)
      BY DEF GwInv, ClientsOK
    <3>3. client[d].at = "store" => g.session # client[d].session
      BY <1>7a, <3>1 DEF Apart
    <3>4. client[d].at = "store" => /\ sessions[client[d].session].log = <<>>
                                    /\ \A k \in Keys : keys'[k] # client[d].session
      BY <1>5, <3>1, <3>3 DEF Own
    <3>5. Opens(client[d]) => Holds(client[d]) /\ client[d].key \in Keys
      BY <3>1 DEF Opens, Holds, Own
    <3>5a. Sits(client[d]) => Holds(client[d]) /\ client[d].key \in Keys
      BY <3>1 DEF Sits, Holds, Own
    <3>6. Opens(client[d]) \/ Sits(client[d]) => client[d].key # g.key
      BY <1>7a, <3>1, <3>5, <3>5a DEF Apart, Opens, Sits
    <3>7. Opens(client[d]) => errors # 0 \/ keys'[client[d].key] = 0
                                \/ sessions[keys'[client[d].key]].actor = "gone"
      BY <1>5, <3>1, <3>5, <3>6 DEF Reserved
    <3>8. Sits(client[d]) => sessions[client[d].session].actor = "gone"
                             \/ keys'[client[d].key] = client[d].session
      <4>1. Sits(client[d]) => keys'[client[d].key] = keys[client[d].key]
        BY <1>5, <3>5a, <3>6
      <4>2. QED
        BY <3>1, <4>1 DEF Reserved
    <3>9. Holds(client[d]) => Asked(client[d].key) \in flights'
      BY <1>8
    <3>10. QED
      BY <3>4, <3>7, <3>8, <3>9 DEF Kept
  <2>4. QED
    BY <1>1, <1>8, <2>3, SameGrows, OneMoved DEF GwInv
<1>12. SpokesOK(sessions, keys', errors, client')
  <2>1. ASSUME NEW r \in DOMAIN sessions, Spoke(sessions, r), errors = 0
        PROVE  keys'[sessions[r].key] = r \/ \E d \in Clients : Stores(client'[d], r)
    <3>1. r # 0 /\ sessions[r].key \in Keys
      <4>1. sessions \in Seq(Sessions)
        BY DEF GwInv, GatewayTypeOK
      <4>2. r \in 1 .. Len(sessions) /\ Len(sessions) \in Nat
        BY <4>1, LenProperties
      <4>3. sessions[r] \in Sessions
        BY <4>1, <4>2, ElementOfSeq
      <4>4. QED
        BY <4>2, <4>3 DEF Sessions
    <3>2. CASE keys[sessions[r].key] = r
      <4>1. sessions[r].key # g.key
        BY <1>1, <1>7a, <2>1, <3>1, <3>2 DEF Reserved, Spoke
      <4>2. QED
        BY <1>5, <3>1, <3>2, <4>1
    <3>3. CASE r = g.session
      BY <1>3, <1>5, <3>3
    <3>4. CASE keys[sessions[r].key] # r /\ r # g.session
      <4>1. PICK d \in Clients : Stores(client[d], r)
        BY <2>1, <3>4 DEF GwInv, SpokesOK
      <4>2. ~Stores(client[c], r)
        BY <3>4 DEF Stores
      <4>3. QED
        BY <1>1, <1>8, <4>1, <4>2, StoresKept
    <3>5. QED
      BY <3>2, <3>3, <3>4
  <2>2. QED
    BY <2>1 DEF SpokesOK
<1>13. FoundOK(sessions, client', forgetting)
  BY <1>1 DEF FoundOK
<1>14. QED
  BY <1>2, <1>8c, <1>9, <1>10, <1>11, <1>12, <1>13 DEF GwInv

LEMMA Numbers ==
  ASSUME NEW x \in Nat
  PROVE  x + 1 \in Nat /\ x + 1 \notin 1 .. x /\ (x % 2 = 0 \/ x % 2 = 1)
OBVIOUS

\* A message at the end of a session.
LEMMA Append1Fine ==
  ASSUME GwInv, NEW s \in DOMAIN sessions, NEW m \in Messages, Answer(sessions[s], m),
         FromAsked(sessions, keys, errors, s, m), Append1(s, m)
  PROVE  /\ sessions' \in Seq(Sessions) /\ GoodSessions(sessions') /\ Grows(sessions, sessions')
         /\ DOMAIN sessions' = DOMAIN sessions /\ news' \in Seq(Positions)
         /\ Len(sessions[s].log) \in Nat /\ DOMAIN sessions[s].log = 1 .. Len(sessions[s].log)
         /\ sessions'[s].log[Len(sessions[s].log) + 1] = m
         /\ IsSaid(sessions', s, Len(sessions[s].log) + 1)
         /\ \A r \in DOMAIN sessions : sessions'[r].actor = sessions[r].actor
                                       /\ sessions'[r].key = sessions[r].key
         /\ \A r \in DOMAIN sessions \ {s} : sessions'[r] = sessions[r]
         /\ \A i \in DOMAIN news' : IsSaid(sessions', news'[i].session, news'[i].n)
         /\ RepliesOK(sessions', keys, errors)
<1> DEFINE n == Len(sessions[s].log) + 1
           p == [session |-> s, n |-> n]
<1>1. sessions' = SaidIn(sessions, s, m) /\ news' = Append(news, p)
  BY DEF Append1, SaidIn
<1>2. /\ sessions' \in Seq(Sessions) /\ GoodSessions(sessions') /\ Grows(sessions, sessions')
      /\ DOMAIN sessions' = DOMAIN sessions
      /\ Len(sessions[s].log) \in Nat /\ DOMAIN sessions[s].log = 1 .. Len(sessions[s].log)
      /\ sessions'[s].log[n] = m /\ IsSaid(sessions', s, n)
      /\ \A i \in DOMAIN sessions'[s].log : IsSaid(sessions, s, i) \/ sessions'[s].log[i] = m
      /\ \A r \in DOMAIN sessions : sessions'[r].actor = sessions[r].actor
                                    /\ sessions'[r].key = sessions[r].key
      /\ \A r \in DOMAIN sessions \ {s} : sessions'[r] = sessions[r]
  <2>1. sessions \in Seq(Sessions) /\ GoodSessions(sessions)
    BY DEF GwInv, GatewayTypeOK
  <2>2. QED
    BY <1>1, <2>1, SayGrows
<1>3. s \in Nat
  BY LenProperties DEF GwInv, GatewayTypeOK
<1>4. p \in Positions /\ p.session = s /\ p.n = n
  BY <1>2, <1>3 DEF Positions
<1> HIDE DEF p
<1>5. news \in Seq(Positions)
  BY DEF GwInv, GatewayTypeOK
<1>6. /\ news' \in Seq(Positions) /\ DOMAIN news = 1 .. Len(news) /\ DOMAIN news' = 1 .. Len(news) + 1
      /\ news'[Len(news) + 1] = p /\ \A i \in 1 .. Len(news) : news'[i] = news[i]
  BY <1>1, <1>4, <1>5, AppendProperties, LenProperties
<1>7. \A i \in DOMAIN news' : IsSaid(sessions', news'[i].session, news'[i].n)
  <2>1. \A i \in DOMAIN news : IsSaid(sessions', news[i].session, news[i].n)
    BY <1>2, NewsKept
  <2>2. ASSUME NEW i \in 1 .. Len(news) + 1
        PROVE  IsSaid(sessions', news'[i].session, news'[i].n)
    <3>1. CASE i = Len(news) + 1
      BY <1>2, <1>4, <1>6, <3>1
    <3>2. CASE i # Len(news) + 1
      <4>1. Len(news) \in Nat
        BY <1>5, LenProperties
      <4>2. i \in 1 .. Len(news)
        BY <3>2, <4>1
      <4>3. QED
        BY <1>6, <2>1, <4>2
    <3>3. QED
      BY <3>1, <3>2
  <2>3. QED
    BY <1>6, <2>2
<1>8. RepliesOK(sessions', keys, errors)
  <2>1. ASSUME NEW r \in DOMAIN sessions', NEW i \in DOMAIN sessions'[r].log
        PROVE  IsSaid(sessions, r, i) \/ FromAsked(sessions', keys, errors, r, sessions'[r].log[i])
    <3>1. CASE r = s
      <4>1. FromAsked(sessions', keys, errors, s, m)
        BY <1>2 DEF FromAsked, Left
      <4>2. QED
        BY <1>2, <2>1, <3>1, <4>1
    <3>2. CASE r # s
      BY <1>2, <2>1, <3>2 DEF IsSaid
    <3>3. QED
      BY <3>1, <3>2
  <2>2. QED
    BY <1>2, <2>1, RepliesGrow DEF GwInv
<1>9. QED
  BY <1>2, <1>6, <1>7, <1>8

LEMMA OthersKept ==
  ASSUME GwInv, NEW tt, Grows(sessions, tt), NEW d \in Clients,
         client[d].at = "store" =>
           tt[client[d].session].log = sessions[client[d].session].log
  PROVE  Kept(tt, keys, flights, errors, client[d])
<1>1. /\ KeysOK(sessions, keys) /\ Own(sessions, keys, client[d])
      /\ Reserved(sessions, keys, flights, errors, client[d])
  BY DEF GwInv, ClientsOK
<1>2. Holds(client[d]) => Asked(client[d].key) \in flights
  BY <1>1 DEF Reserved
<1>3. QED
  BY <1>1, <1>2, KeptBySessions

LEMMA AppendMessageStep ==
  ASSUME GwInv, NEW c \in Clients, AppendMessage(c)
  PROVE  GwInv'
<1> DEFINE g == client[c]
           s == g.session
           n == Len(sessions[s].log) + 1
           m == Message(Asker(g.key), 0, 0)
<1>1. /\ g.at = "append" /\ g.key \in Keys /\ g \in Requests /\ client \in [Clients -> Requests]
      /\ Own(sessions, keys, g) /\ Reserved(sessions, keys, flights, errors, g)
  BY DEF GwInv, ClientsOK, Own, AppendMessage, GatewayTypeOK
<1>2. /\ keys' = keys /\ hand' = hand /\ jobs' = jobs /\ forgetting' = forgetting
      /\ errors' = errors
  BY DEF AppendMessage, project
<1>3. Has(g) /\ s \in DOMAIN sessions /\ sessions[s].key = g.key
  BY <1>1 DEF Has, Own
<1>4. CASE sessions[s].actor = "live" /\ ExpectedSpeaker(sessions[s]) = Asker(g.key)
  <2> DEFINE q == [g EXCEPT !.at = "wait", !.asked = n]
  <2>1. Append1(s, m) /\ flights' = flights /\ client' = [client EXCEPT ![c] = q]
    BY <1>4 DEF AppendMessage
  <2>2. /\ m \in Messages /\ m.from = Asker(g.key) /\ Answer(sessions[s], m)
        /\ FromAsked(sessions, keys, errors, s, m)
    BY <1>1, KeyKinds DEF Message, Messages, Answer, FromAsked
  <2> HIDE DEF m
  <2>3. /\ sessions' \in Seq(Sessions) /\ GoodSessions(sessions') /\ Grows(sessions, sessions')
        /\ DOMAIN sessions' = DOMAIN sessions /\ news' \in Seq(Positions)
        /\ Len(sessions[s].log) \in Nat /\ DOMAIN sessions[s].log = 1 .. Len(sessions[s].log)
        /\ sessions'[s].log[n] = m /\ IsSaid(sessions', s, n)
        /\ \A r \in DOMAIN sessions : sessions'[r].actor = sessions[r].actor
                                      /\ sessions'[r].key = sessions[r].key
        /\ \A r \in DOMAIN sessions \ {s} : sessions'[r] = sessions[r]
        /\ \A i \in DOMAIN news' : IsSaid(sessions', news'[i].session, news'[i].n)
        /\ RepliesOK(sessions', keys, errors)
    BY <1>3, <2>1, <2>2, Append1Fine
  <2>4. n \in Nat /\ n \notin DOMAIN sessions[s].log
    <3>1. Len(sessions[s].log) \in Nat /\ DOMAIN sessions[s].log = 1 .. Len(sessions[s].log)
      BY <2>3
    <3>2. QED
      BY <3>1, Numbers
  <2> HIDE DEF n
  <2>5. /\ q \in Requests /\ q.at = "wait" /\ q.key = g.key /\ q.session = s /\ q.asked = n
    BY <1>1, <2>4 DEF Requests
  <2> HIDE DEF q
  <2>6. Has(q) /\ Waits(q) /\ ~Opens(q) /\ (Holds(q) <=> Holds(g)) /\ (Sits(q) <=> Sits(g))
    BY <1>1, <2>5 DEF Has, Waits, Opens, Holds, Sits
  <2>7. GatewayTypeOK' /\ WorkInv' /\ KeysOK(sessions', keys)
    <3>1. GatewayTypeOK'
      BY <1>1, <1>2, <2>1, <2>3, <2>5 DEF GwInv, GatewayTypeOK
    <3>2. WorkInv'
      BY <1>2, <2>3, WorkKept
    <3>3. QED
      BY <2>3, <3>1, <3>2, KeysGrow DEF GwInv
  <2>8. Own(sessions', keys, q)
    BY <1>1, <1>3, <2>2, <2>3, <2>5, <2>6 DEF Own
  <2>9. Reserved(sessions', keys, flights, errors, q)
    BY <1>1, <1>3, <2>3, <2>5, <2>6 DEF Reserved
  <2>10. ASSUME NEW d \in Clients \ {c}
         PROVE  /\ Kept(sessions', keys, flights, errors, client[d])
                /\ Apart(q, client[d]) /\ Apart(client[d], q)
    <3>1. /\ Own(sessions, keys, client[d]) /\ Apart(g, client[d]) /\ Apart(client[d], g)
      BY DEF GwInv, ClientsOK
    <3>2. client[d].at = "store" => Has(client[d])
      BY DEF Has
    <3>3. client[d].at = "store" =>
            sessions'[client[d].session].log = sessions[client[d].session].log
      BY <1>3, <2>3, <3>1, <3>2 DEF Apart, Own
    <3>4. Kept(sessions', keys, flights, errors, client[d])
      BY <2>3, <3>3, OthersKept
    <3>5. Waits(client[d]) /\ client[d].session = s => client[d].asked # n
      BY <2>4, <3>1 DEF Own, IsSaid
    <3>6. QED
      BY <1>3, <2>5, <2>6, <3>1, <3>4, <3>5 DEF Apart
  <2>11. ClientsOK(sessions', keys, flights, errors, client')
    BY <1>1, <2>1, <2>3, <2>8, <2>9, <2>10, OneMoved DEF GwInv
  <2>12. \A r \in DOMAIN sessions :
           (\E d \in Clients : Stores(client[d], r)) => \E d \in Clients : Stores(client'[d], r)
    BY <1>1, <2>1, StoresKept DEF Stores
  <2>13. SpokesOK(sessions', keys, errors, client') /\ FoundOK(sessions', client', forgetting)
    BY <2>3, <2>12, SpokesKept DEF GwInv
  <2>14. QED
    BY <1>2, <2>1, <2>3, <2>7, <2>11, <2>13 DEF GwInv
<1>5. CASE ~(sessions[s].actor = "live" /\ ExpectedSpeaker(sessions[s]) = Asker(g.key))
  <2>1. Ends(c) /\ UNCHANGED <<sessions, news>>
    BY <1>5 DEF AppendMessage
  <2>2. UNCHANGED <<keys, errors, sessions, work, forgetting>>
    BY <1>2, <2>1 DEF work
  <2>3. IsSpoke(g.key) => Holds(g)
    BY <1>1 DEF Holds
  <2>4. QED
    BY <1>1, <2>1, <2>2, <2>3, EndsFine, IdleFine, OnlyClient
<1>6. QED
  BY <1>4, <1>5

-----------------------------------------------------------------------------
(* Deletion. *)

LEMMA ActorsChange ==
  ASSUME GwInv, NEW found, NEW state \in {"live", "mute", "gone"},
         state = "gone" \/ \A r \in found : sessions[r].actor # "gone",
         sessions' = Became(sessions, found, state),
         UNCHANGED <<keys, errors, flights, work, client>>
  PROVE  /\ GatewayTypeOK' /\ GoodSessions(sessions)' /\ WorkInv'
         /\ ClientsOK(sessions, keys, flights, errors, client)' /\ KeysOK(sessions, keys)'
         /\ SpokesOK(sessions, keys, errors, client)' /\ RepliesOK(sessions, keys, errors)'
         /\ DOMAIN sessions' = DOMAIN sessions
         /\ \A r \in DOMAIN sessions :
              /\ sessions'[r].key = sessions[r].key
              /\ sessions'[r].actor = IF r \in found THEN state ELSE sessions[r].actor
<1>1. sessions \in Seq(Sessions) /\ GoodSessions(sessions)
  BY DEF GwInv, GatewayTypeOK
<1>2. /\ sessions' \in Seq(Sessions) /\ GoodSessions(sessions') /\ Grows(sessions, sessions')
      /\ DOMAIN sessions' = DOMAIN sessions
      /\ \A r \in DOMAIN sessions :
           /\ sessions'[r].log = sessions[r].log /\ sessions'[r].key = sessions[r].key
           /\ sessions'[r].actor = IF r \in found THEN state ELSE sessions[r].actor
  BY <1>1, BecomeGrows
<1>3. /\ keys' = keys /\ flights' = flights /\ news' = news /\ hand' = hand /\ jobs' = jobs
      /\ client' = client /\ errors' = errors
  BY DEF work
<1>4. GatewayTypeOK'
  BY <1>2, <1>3 DEF GwInv, GatewayTypeOK
<1>5. WorkInv'
  BY <1>2, <1>3, NewsKept, WorkKept
<1>6. KeysOK(sessions', keys)
  BY <1>2, KeysGrow DEF GwInv
<1>7. ASSUME NEW d \in Clients
      PROVE  Kept(sessions', keys, flights, errors, client[d])
  <2>1. client[d].at = "store" => sessions'[client[d].session].log = sessions[client[d].session].log
    BY <1>2 DEF GwInv, ClientsOK, Own, Has
  <2>2. QED
    BY <1>2, <2>1, OthersKept
<1>8. ClientsOK(sessions', keys, flights, errors, client)
  BY <1>2, <1>7, AllKept DEF GwInv
<1>9. SpokesOK(sessions', keys, errors, client)
  BY <1>2, SpokesKept DEF GwInv
<1>10. RepliesOK(sessions', keys, errors)
  BY <1>2, RepliesGrow DEF GwInv, IsSaid
<1>11. QED
  BY <1>2, <1>3, <1>4, <1>5, <1>6, <1>8, <1>9, <1>10

LEMMA DeleteProjectStep ==
  ASSUME GwInv, DeleteProject
  PROVE  GwInv'
<1>1. /\ keys' = keys /\ flights' = flights /\ sessions' = sessions /\ news' = news
      /\ hand' = hand /\ jobs' = jobs /\ client' = client /\ errors' = errors
      /\ forgetting' = {s \in DOMAIN sessions : Answers(s)}
  BY DEF DeleteProject, work
<1>2. FoundOK(sessions, client, forgetting')
  BY <1>1 DEF FoundOK, Answers, Spoke
<1>3. GatewayTypeOK' /\ WorkInv'
  BY <1>1 DEF GwInv, GatewayTypeOK, WorkInv
<1>4. QED
  BY <1>1, <1>2, <1>3 DEF GwInv

LEMMA DropStep ==
  ASSUME GwInv, NEW s \in forgetting, Drop(s)
  PROVE  GwInv'
<1>1. /\ sessions' = Became(sessions, {s}, "mute") /\ sessions[s].actor = "live"
      /\ UNCHANGED <<keys, errors, flights, work, client>> /\ forgetting' = forgetting
  BY DEF Drop, Becomes, Became, server, project
<1>2. \A r \in {s} : sessions[r].actor # "gone"
  BY <1>1
<1>3. /\ GatewayTypeOK' /\ GoodSessions(sessions)' /\ WorkInv'
      /\ ClientsOK(sessions, keys, flights, errors, client)' /\ KeysOK(sessions, keys)'
      /\ SpokesOK(sessions, keys, errors, client)' /\ RepliesOK(sessions, keys, errors)'
      /\ DOMAIN sessions' = DOMAIN sessions
      /\ \A r \in DOMAIN sessions :
           /\ sessions'[r].key = sessions[r].key
           /\ sessions'[r].actor = IF r \in {s} THEN "mute" ELSE sessions[r].actor
  BY <1>1, <1>2, ActorsChange
<1>4. FoundOK(sessions', client, forgetting)
  <2>1. \A r \in DOMAIN sessions : Spoke(sessions', r) <=> Spoke(sessions, r)
    BY <1>1, <1>3 DEF Spoke
  <2>2. \A r \in DOMAIN sessions : sessions'[r].actor # "gone" <=> sessions[r].actor # "gone"
    BY <1>1, <1>3
  <2>3. QED
    BY <1>3, <2>1, <2>2 DEF GwInv, FoundOK
<1>5. QED
  BY <1>1, <1>3, <1>4 DEF GwInv

LEMMA DeleteFailsStep ==
  ASSUME GwInv, DeleteFails
  PROVE  GwInv'
<1>1. UNCHANGED <<keys, errors, flights, work, client>> /\ forgetting' = NotDeleting
  BY DEF DeleteFails
<1>2. forgetting # NotDeleting
  BY DEF DeleteFails, Unlocked
<1>3. \A r \in forgetting : r \in DOMAIN sessions /\ sessions[r].actor # "gone"
  BY <1>2 DEF GwInv, FoundOK
<1>4. FoundOK(sessions', client', forgetting')
  BY <1>1 DEF FoundOK
<1>5. CASE UNCHANGED sessions
  BY <1>1, <1>4, <1>5 DEF GwInv, GatewayTypeOK, WorkInv, work
<1>6. CASE Becomes(forgetting, "live")
  <2>1. sessions' = Became(sessions, forgetting, "live")
    BY <1>6 DEF Becomes, Became
  <2>2. QED
    BY <1>1, <1>3, <1>4, <2>1, ActorsChange DEF GwInv
<1>7. CASE Becomes(forgetting, "gone")
  <2>1. sessions' = Became(sessions, forgetting, "gone")
    BY <1>7 DEF Becomes, Became
  <2>2. QED
    BY <1>1, <1>4, <2>1, ActorsChange DEF GwInv
<1>8. QED
  BY <1>5, <1>6, <1>7 DEF DeleteFails

LEMMA ForgottenStep ==
  ASSUME GwInv, Forgotten
  PROVE  GwInv'
<1>1. /\ sessions' = Became(sessions, forgetting, "gone") /\ keys' = [k \in Keys |-> 0]
      /\ forgetting' = NotDeleting /\ forgetting # NotDeleting
      /\ news' \in {news, <<>>} /\ jobs' \in {jobs, {}}
      /\ hand' = hand /\ flights' = flights /\ client' = client /\ errors' = errors
  BY DEF Forgotten, Becomes, Became, Unlocked
<1>2. sessions \in Seq(Sessions) /\ GoodSessions(sessions)
  BY DEF GwInv, GatewayTypeOK
<1>3. /\ sessions' \in Seq(Sessions) /\ GoodSessions(sessions') /\ Grows(sessions, sessions')
      /\ DOMAIN sessions' = DOMAIN sessions
      /\ \A r \in DOMAIN sessions :
           /\ sessions'[r].log = sessions[r].log /\ sessions'[r].key = sessions[r].key
           /\ sessions'[r].actor = IF r \in forgetting THEN "gone" ELSE sessions[r].actor
  BY <1>1, <1>2, BecomeGrows
<1>3a. \A r \in DOMAIN sessions' : keys'[sessions'[r].key] # r
  <2>1. ASSUME NEW r \in DOMAIN sessions'
        PROVE  r # 0 /\ sessions'[r].key \in Keys
    <3>1. r \in 1 .. Len(sessions') /\ Len(sessions') \in Nat
      BY <1>3, LenProperties
    <3>2. sessions'[r] \in Sessions
      BY <1>3, <3>1, ElementOfSeq
    <3>3. QED
      BY <3>1, <3>2 DEF Sessions
  <2>2. QED
    BY <1>1, <2>1
<1>4. keys' \in [Keys -> Nat] /\ \A k \in Keys : keys'[k] = 0
  BY <1>1
<1>5. news' \in Seq(Positions) /\ \A i \in DOMAIN news' : i \in DOMAIN news /\ news'[i] = news[i]
  <2>1. <<>> \in Seq(Positions) /\ DOMAIN <<>> = {}
    BY EmptySeq
  <2>2. news \in Seq(Positions)
    BY DEF GwInv, GatewayTypeOK
  <2>3. QED
    BY <1>1, <2>1, <2>2
<1>6. GatewayTypeOK'
  BY <1>1, <1>3, <1>4, <1>5 DEF GwInv, GatewayTypeOK
<1>7. WorkInv'
  <2>1. \A i \in DOMAIN news' : IsSaid(sessions', news'[i].session, news'[i].n)
    BY <1>3, <1>5, NewsKept
  <2>2. hand # Nothing => IsFor(sessions', hand)
    BY <1>3, ForGrows DEF GwInv, WorkInv
  <2>3. ASSUME NEW j \in jobs
        PROVE  IsFor(sessions', j) /\ NotWoken(sessions', keys', errors, j)
    <3>1. IsFor(sessions', j) /\ NotWoken(sessions', keys, errors, j)
      BY <1>3, ForGrows DEF GwInv, WorkInv
    <3>2. j.session \in DOMAIN sessions'
      BY <3>1 DEF IsFor, IsSaid
    <3>3. Left(sessions', keys, errors, j.session) => Left(sessions', keys', errors, j.session)
      BY <1>3a, <3>2 DEF Left
    <3>4. QED
      BY <3>1, <3>3 DEF NotWoken
  <2>4. \A j \in jobs' : IsFor(sessions', j) /\ NotWoken(sessions', keys', errors, j)
    BY <1>1, <2>3
  <2>5. QED
    BY <1>1, <2>1, <2>2, <2>4 DEF WorkInv
<1>8. KeysOK(sessions', keys')
  BY <1>4 DEF KeysOK
<1>9. ASSUME NEW d \in Clients
      PROVE  Kept(sessions', keys', flights, errors, client[d])
  <2>1. Own(sessions, keys, client[d]) /\ Reserved(sessions, keys, flights, errors, client[d])
    BY DEF GwInv, ClientsOK
  <2>2. client[d].at = "store" => client[d].session \in DOMAIN sessions /\ client[d].session # 0
    <3>1. DOMAIN sessions = 1 .. Len(sessions) /\ Len(sessions) \in Nat
      BY <1>2, LenProperties
    <3>2. client[d].at = "store" => client[d].session \in DOMAIN sessions
      BY <2>1 DEF Own, Has
    <3>3. QED
      BY <3>1, <3>2
  <2>3. client[d].at = "store" => sessions'[client[d].session].log = <<>>
    BY <1>3, <2>1, <2>2 DEF Own
  <2>4. Opens(client[d]) => client[d].key \in Keys
    BY <2>1 DEF Own, Opens
  <2>5. Sits(client[d]) => sessions'[client[d].session].actor = "gone"
    <3>1. SUFFICES ASSUME Sits(client[d]), sessions[client[d].session].actor # "gone"
                   PROVE  sessions'[client[d].session].actor = "gone"
      BY <1>3, <2>1 DEF Sits, Own, Has
    <3>2. Has(client[d]) /\ client[d].at # "store" /\ Spoke(sessions, client[d].session)
          /\ client[d].session \in DOMAIN sessions
      BY <2>1, <3>1 DEF Sits, Own, Has, Spoke
    <3>3. ASSUME NEW e \in Clients
          PROVE  ~Stores(client[e], client[d].session)
      BY <3>2 DEF GwInv, ClientsOK, Apart, Stores
    <3>4. client[d].session \in forgetting
      BY <1>1, <3>2, <3>3 DEF GwInv, FoundOK
    <3>5. QED
      BY <1>3, <3>2, <3>4
  <2>6. QED
    BY <1>4, <2>1, <2>2, <2>3, <2>4, <2>5 DEF Kept, Reserved
<1>10. ClientsOK(sessions', keys', flights, errors, client)
  BY <1>3, <1>9, AllKept DEF GwInv
<1>11. SpokesOK(sessions', keys', errors, client)
  BY <1>1, <1>3 DEF GwInv, FoundOK, SpokesOK, Spoke
<1>12. FoundOK(sessions', client', forgetting')
  BY <1>1 DEF FoundOK
<1>13. RepliesOK(sessions', keys', errors)
  <2>1. RepliesOK(sessions', keys, errors)
    BY <1>3, RepliesGrow DEF GwInv, IsSaid
  <2>2. QED
    BY <1>3a, <2>1 DEF RepliesOK, FromAsked, Left
<1>14. QED
  BY <1>1, <1>3, <1>6, <1>7, <1>8, <1>10, <1>11, <1>12, <1>13 DEF GwInv

-----------------------------------------------------------------------------
(* The dispatcher and the workers. *)

\* Where nothing but the work changes.
LEMMA OnlyWork ==
  ASSUME GwInv, UNCHANGED <<server, sessions, client>>, WorkInv',
         news' \in Seq(Positions), hand' \in Jobs \cup {Nothing}, jobs' \subseteq Jobs
  PROVE  GwInv'
<1>1. /\ keys' = keys /\ flights' = flights /\ sessions' = sessions /\ client' = client
      /\ forgetting' = forgetting /\ errors' = errors
  BY DEF server, project
<1>2. QED
  BY <1>1 DEF GwInv, GatewayTypeOK

LEMMA SpeakerIsOfTheSession ==
  ASSUME NEW s \in Sessions, GoodSession(s)
  PROVE  ExpectedSpeaker(s) \in {Asker(s.key), Asked(s.key)} /\ ExpectedSpeaker(s) \in Names /\ Len(s.log) \in Nat
<1>1. Len(s.log) \in Nat
  <2>1. s.log \in Seq(Messages)
    BY DEF Sessions
  <2>2. QED
    BY <2>1, LenProperties
<1> DEFINE n == Len(s.log) % 2
<1>2. n = 0 \/ n = 1
  BY <1>1, Numbers
<1>3. ExpectedSpeaker(s) = s.people[n + 1]
  BY DEF ExpectedSpeaker
<1> HIDE DEF n
<1>4. ExpectedSpeaker(s) = s.people[1] \/ ExpectedSpeaker(s) = s.people[2]
  BY <1>2, <1>3
<1>5. s.people = <<Asker(s.key), Asked(s.key)>> \/ s.people = <<Asked(s.key), Asker(s.key)>>
  BY DEF GoodSession
<1>6. ExpectedSpeaker(s) \in {Asker(s.key), Asked(s.key)}
  BY <1>4, <1>5
<1>7. s.key \in Keys
  BY DEF Sessions
<1>8. QED
  BY <1>1, <1>6, <1>7, KeyKinds

LEMMA TriggerReadStep ==
  ASSUME GwInv, TriggerRead
  PROVE  GwInv'
<1> DEFINE p == Head(news)
           s == sessions[p.session]
<1>1. news # <<>> /\ news \in Seq(Positions) /\ news' = Tail(news) /\ jobs' = jobs
      /\ UNCHANGED <<server, sessions, client>>
  BY DEF TriggerRead, GwInv, GatewayTypeOK
<1>2. /\ news' \in Seq(Positions) /\ DOMAIN news = 1 .. Len(news) /\ p = news[1] /\ 1 \in DOMAIN news
      /\ \A i \in DOMAIN news' : i + 1 \in DOMAIN news /\ news'[i] = news[i + 1]
  <2>1. Len(news) \in Nat /\ DOMAIN news = 1 .. Len(news) /\ Len(news) # 0
    BY <1>1, EmptySeq, LenProperties
  <2>2. /\ Tail(news) \in Seq(Positions) /\ Len(Tail(news)) = Len(news) - 1 /\ p = news[1]
        /\ \A i \in 1 .. Len(Tail(news)) : Tail(news)[i] = news[i + 1]
    BY <1>1, HeadTailProperties
  <2>3. DOMAIN Tail(news) = 1 .. Len(news) - 1
    BY <2>2, LenProperties
  <2>4. QED
    BY <1>1, <2>1, <2>2, <2>3
<1>3. p \in Positions /\ IsSaid(sessions, p.session, p.n)
  <2>1. IsSaid(sessions, p.session, p.n)
    BY <1>2 DEF GwInv, WorkInv
  <2>2. QED
    BY <1>1, <1>2, <2>1, ElementOfSeq
<1>4. sessions' = sessions /\ \A i \in DOMAIN news' : IsSaid(sessions, news'[i].session, news'[i].n)
  BY <1>1, <1>2 DEF GwInv, WorkInv
<1>5. s \in Sessions /\ GoodSession(s) /\ p.session \in DOMAIN sessions /\ p.n \in DOMAIN s.log
  <2>1. sessions \in Seq(Sessions) /\ GoodSessions(sessions)
    BY DEF GwInv, GatewayTypeOK
  <2>2. p.session \in DOMAIN sessions /\ p.n \in DOMAIN s.log
    BY <1>3 DEF IsSaid
  <2>3. p.session \in 1 .. Len(sessions)
    BY <2>1, <2>2, LenProperties
  <2>4. QED
    BY <2>1, <2>2, <2>3, ElementOfSeq DEF GoodSessions
<1>6. p.n <= Len(s.log)
  <2>1. s.log \in Seq(Messages)
    BY <1>5 DEF Sessions
  <2>2. DOMAIN s.log = 1 .. Len(s.log) /\ Len(s.log) \in Nat
    BY <2>1, LenProperties
  <2>3. QED
    BY <1>5, <2>2
<1> DEFINE h == [session |-> p.session, n |-> p.n, agent |-> ExpectedSpeaker(s), seen |-> Len(s.log)]
<1>7. (hand' = h /\ ExpectedSpeaker(s) # User) \/ hand' = Nothing
  BY DEF TriggerRead
<1>8. h \in Jobs
  BY <1>3, <1>5, SpeakerIsOfTheSession DEF Jobs, Positions
<1>9. ExpectedSpeaker(s) # User => IsFor(sessions, h)
  BY <1>3, <1>5, <1>6, SpeakerIsOfTheSession DEF IsFor
<1> HIDE DEF h
<1>10. hand' \in Jobs \cup {Nothing} /\ (hand' # Nothing => IsFor(sessions, hand'))
  BY <1>7, <1>8, <1>9
<1>11. jobs' \subseteq Jobs /\ \A j \in jobs' : IsFor(sessions, j) /\ NotWoken(sessions, keys, errors, j)
  BY <1>1 DEF GwInv, WorkInv, GatewayTypeOK
<1>12. WorkInv'
  <2>1. keys' = keys /\ errors' = errors
    BY <1>1 DEF server, project
  <2>2. QED
    BY <1>4, <1>10, <1>11, <2>1 DEF WorkInv
<1>13. QED
  BY <1>1, <1>2, <1>10, <1>11, <1>12, OnlyWork

LEMMA TriggerEnqueueStep ==
  ASSUME GwInv, TriggerEnqueue
  PROVE  GwInv'
<1>1. /\ hand # Nothing /\ hand' = Nothing /\ news' = news
      /\ UNCHANGED <<server, sessions, client>>
  BY DEF TriggerEnqueue
<1>2. hand \in Jobs /\ IsFor(sessions, hand)
  BY <1>1 DEF GwInv, GatewayTypeOK, WorkInv
<1> DEFINE s == hand.session
           k == sessions[s].key
<1>3. s \in DOMAIN sessions /\ hand.n \in DOMAIN sessions[s].log
  BY <1>2 DEF IsFor, IsSaid
<1>4. \A c \in Clients : ~Stores(client[c], s)
  <2>1. DOMAIN <<>> = {}
    OBVIOUS
  <2>2. QED
    BY <1>3, <2>1 DEF GwInv, ClientsOK, Own, Stores
<1>5. ~SkipSpokeCaller(s, hand.agent) => NotWoken(sessions, keys, errors, hand)
  <2>1. ASSUME Spoke(sessions, s), hand.agent = Asker(k), ~Left(sessions, keys, errors, s)
        PROVE  SkipSpokeCaller(s, hand.agent)
    <3>1. keys[k] = s
      BY <1>3, <1>4, <2>1 DEF GwInv, SpokesOK, Left, Spoke
    <3>2. k \in Delegations /\ hand.agent = k[2]
      BY <2>1 DEF Spoke, IsSpoke, Asker
    <3>3. QED
      BY <3>1, <3>2 DEF SkipSpokeCaller
  <2>2. QED
    BY <2>1 DEF NotWoken, Spoke
<1>6. jobs' \subseteq Jobs /\ \A j \in jobs' : IsFor(sessions, j) /\ NotWoken(sessions, keys, errors, j)
  <2>1. jobs \subseteq Jobs /\ \A j \in jobs : IsFor(sessions, j) /\ NotWoken(sessions, keys, errors, j)
    BY DEF GwInv, GatewayTypeOK, WorkInv
  <2>2. jobs' = IF SkipSpokeCaller(s, hand.agent) THEN jobs ELSE jobs \cup {hand}
    BY DEF TriggerEnqueue
  <2>3. QED
    BY <1>2, <1>5, <2>1, <2>2
<1>7. sessions' = sessions /\ keys' = keys /\ errors' = errors
  BY <1>1 DEF server, project
<1>8. WorkInv'
  BY <1>1, <1>6, <1>7 DEF GwInv, WorkInv
<1>9. QED
  BY <1>1, <1>6, <1>8, OnlyWork DEF GwInv, GatewayTypeOK

LEMMA RunEndsStep ==
  ASSUME GwInv, NEW j \in jobs, RunEnds(j)
  PROVE  GwInv'
<1> DEFINE s == sessions[j.session]
           m == Message(j.agent, j.n, j.seen)
<1>1. /\ keys' = keys /\ flights' = flights /\ forgetting' = forgetting /\ hand' = hand
      /\ client' = client /\ jobs' = jobs \ {j} /\ errors' = errors
  BY DEF RunEnds, server, project
<1>2. j \in Jobs /\ IsFor(sessions, j) /\ NotWoken(sessions, keys, errors, j)
  BY DEF GwInv, GatewayTypeOK, WorkInv
<1>3. j.session \in DOMAIN sessions /\ j.n \in DOMAIN s.log
  BY <1>2 DEF IsFor, IsSaid
<1>4. ASSUME UNCHANGED <<sessions, news>>
      PROVE  GwInv'
  <2>1. WorkInv' /\ jobs' \subseteq Jobs
    BY <1>1, <1>4 DEF GwInv, WorkInv, GatewayTypeOK
  <2>2. QED
    BY <1>1, <1>4, <2>1 DEF GwInv, GatewayTypeOK
<1>5. ASSUME s.actor = "live", Append1(j.session, m)
      PROVE  GwInv'
  <2>1. m \in Messages /\ Answer(s, m) /\ FromAsked(sessions, keys, errors, j.session, m)
    <3>1. m.from = j.agent /\ m.replyTo = j.n /\ m.seen = j.seen /\ m \in Messages
      BY <1>2 DEF Message, Messages, Jobs
    <3>2. s.key \in Keys
      <4>1. sessions \in Seq(Sessions)
        BY DEF GwInv, GatewayTypeOK
      <4>2. j.session \in 1 .. Len(sessions)
        BY <1>3, <4>1, LenProperties
      <4>3. s \in Sessions
        BY <4>1, <4>2, ElementOfSeq
      <4>4. QED
        BY <4>3 DEF Sessions
    <3>3. j.agent # Asker(s.key) \/ Left(sessions, keys, errors, j.session)
      BY <1>2, <1>5, <3>2, KeyKinds DEF NotWoken, IsFor
    <3>4. Answer(s, m)
      BY <1>2, <3>1 DEF Answer, IsFor
    <3>5. m.from = Asked(s.key) \/ Left(sessions, keys, errors, j.session)
      BY <1>2, <3>1, <3>3 DEF IsFor
    <3>6. FromAsked(sessions, keys, errors, j.session, m)
      BY <3>5 DEF FromAsked
    <3>7. QED
      BY <3>1, <3>4, <3>6
  <2> HIDE DEF m
  <2>2. /\ sessions' \in Seq(Sessions) /\ GoodSessions(sessions') /\ Grows(sessions, sessions')
        /\ DOMAIN sessions' = DOMAIN sessions /\ news' \in Seq(Positions)
        /\ \A r \in DOMAIN sessions : sessions'[r].actor = sessions[r].actor
                                      /\ sessions'[r].key = sessions[r].key
        /\ \A r \in DOMAIN sessions \ {j.session} : sessions'[r] = sessions[r]
        /\ \A i \in DOMAIN news' : IsSaid(sessions', news'[i].session, news'[i].n)
        /\ RepliesOK(sessions', keys, errors)
    BY <1>3, <1>5, <2>1, Append1Fine
  <2>3. GatewayTypeOK'
    BY <1>1, <2>2 DEF GwInv, GatewayTypeOK
  <2>4. WorkInv'
    <3>1. hand # Nothing => IsFor(sessions', hand)
      BY <2>2, ForGrows DEF GwInv, WorkInv
    <3>2. \A i \in jobs : IsFor(sessions', i) /\ NotWoken(sessions', keys, errors, i)
      BY <2>2, ForGrows DEF GwInv, WorkInv
    <3>3. QED
      BY <1>1, <2>2, <3>1, <3>2 DEF WorkInv
  <2>5. ASSUME NEW d \in Clients
        PROVE  Kept(sessions', keys, flights, errors, client[d])
    <3>1. DOMAIN <<>> = {}
      OBVIOUS
    <3>2. Own(sessions, keys, client[d])
      BY DEF GwInv, ClientsOK
    <3>3. client[d].at = "store" => client[d].session \in DOMAIN sessions \ {j.session}
      BY <1>3, <3>1, <3>2 DEF Own, Has
    <3>4. QED
      BY <2>2, <3>3, OthersKept
  <2>6. ClientsOK(sessions', keys, flights, errors, client)
    BY <2>2, <2>5, AllKept DEF GwInv
  <2>7. KeysOK(sessions', keys)
    BY <2>2, KeysGrow DEF GwInv
  <2>8. SpokesOK(sessions', keys, errors, client) /\ FoundOK(sessions', client, forgetting)
    BY <2>2, SpokesKept DEF GwInv
  <2>9. QED
    BY <1>1, <2>2, <2>3, <2>4, <2>6, <2>7, <2>8 DEF GwInv
<1>6. QED
  BY <1>4, <1>5 DEF RunEnds

-----------------------------------------------------------------------------
LEMMA GwInvInit ==
  ASSUME GInit
  PROVE  GwInv
<1> DEFINE m == Message(Lead, 0, 0)
           log == <<m>>
           s == [NewSession(Home, <<Lead, User>>) EXCEPT !.log = log]
<1>1. /\ keys = [k \in Keys |-> IF k = Home THEN 1 ELSE 0] /\ flights = {}
      /\ forgetting = NotDeleting /\ sessions = <<s>> /\ hand = Nothing /\ jobs = {}
      /\ news = <<[session |-> 1, n |-> 1]>> /\ client = [c \in Clients |-> Idle] /\ errors = 0
  BY DEF GInit
<1>2. m \in Messages /\ m.replyTo = 0
  BY DEF Message, Messages, Names
<1> HIDE DEF m
<1>3. log \in Seq(Messages) /\ DOMAIN log = {1} /\ log[1] = m
  BY <1>2
<1> HIDE DEF log
<1>4. s.key = Home /\ s.people = <<Lead, User>> /\ s.actor = "live" /\ s.log = log
  BY DEF NewSession
<1>5. s \in Sessions
  BY <1>3, KeyKinds DEF NewSession, Sessions, Names
<1>6. GoodSession(s)
  BY <1>2, <1>3, <1>4, KeyKinds DEF GoodSession, Answer
<1> HIDE DEF s
<1>7. sessions \in Seq(Sessions) /\ DOMAIN sessions = {1} /\ sessions[1] = s
  BY <1>1, <1>5
<1>8. news \in Seq(Positions) /\ DOMAIN news = {1} /\ news[1].session = 1 /\ news[1].n = 1
  BY <1>1 DEF Positions
<1>9. client \in [Clients -> Requests] /\ \A c \in Clients : client[c] = Idle
  BY <1>1, IdleFine
<1>10. keys \in [Keys -> Nat] /\ \A k \in Keys : keys[k] = IF k = Home THEN 1 ELSE 0
  BY <1>1
<1>11. GatewayTypeOK
  BY <1>1, <1>7, <1>8, <1>9, <1>10 DEF GatewayTypeOK
<1>12. GoodSessions(sessions) /\ KeysOK(sessions, keys)
  BY <1>4, <1>6, <1>7, <1>10 DEF GoodSessions, KeysOK
<1>13. WorkInv
  BY <1>1, <1>3, <1>4, <1>7, <1>8 DEF WorkInv, IsSaid
<1>14. ClientsOK(sessions, keys, flights, errors, client)
  BY <1>9, IdleFine DEF ClientsOK
<1>15. SpokesOK(sessions, keys, errors, client) /\ FoundOK(sessions, client, forgetting)
  BY <1>1, <1>4, <1>7, KeyKinds DEF SpokesOK, FoundOK, Spoke
<1>16. RepliesOK(sessions, keys, errors)
  BY <1>2, <1>3, <1>4, <1>7 DEF RepliesOK, FromAsked
<1>17. QED
  BY <1>11, <1>12, <1>13, <1>14, <1>15, <1>16 DEF GwInv

LEMMA GwInvNext ==
  ASSUME GwInv, [GNext]_gvars
  PROVE  GwInv'
<1>1. ASSUME NEW c \in Clients, Serve(c)
      PROVE  GwInv'
  BY <1>1, RequestStep, ReserveStep, LookUpStep, OpenSessionStep, StoreKeyStep,
     AppendMessageStep, WaitReplyStep, RespondStep DEF Serve
<1>2. CASE UNCHANGED gvars
  BY <1>2 DEF gvars, server, project, work, GwInv, GatewayTypeOK, WorkInv
<1>3. QED
  BY <1>1, <1>2, DeleteProjectStep, DropStep, DeleteFailsStep, ForgottenStep,
     TriggerReadStep, TriggerEnqueueStep, RunEndsStep DEF GNext

THEOREM GwInvHolds == GSpec => []GwInv
BY GwInvInit, GwInvNext, PTL DEF GSpec

\* Requests that time out, are repeated, meet or outlive their project are
\* never given somebody else's answer, nor one from before their question
\* (postMessage, delegate, waitReplyFor).
THEOREM AnswersSawTheirQuestion == GSpec => []AnswersHaveSeenTheirQuestion
<1>1. ASSUME GwInv
      PROVE  AnswersHaveSeenTheirQuestion
  <2>1. ASSUME NEW c \in Clients, client[c].at = "answered"
        PROVE  LET g == client[c]
                   s == sessions[g.session]
                   m == s.log[g.reply]
               IN /\ s.key = g.key /\ m.from = Asked(g.key)
                  /\ s.log[g.asked].from = Asker(g.key) /\ m.seen >= g.asked
                  /\ \A d \in Clients \ {c} : client[d].at = "answered" =>
                       <<client[d].session, client[d].reply>> # <<g.session, g.reply>>
    <3> DEFINE g == client[c]
               s == sessions[g.session]
               m == s.log[g.reply]
    <3>1. Own(sessions, keys, g) /\ Has(g) /\ Waits(g)
      BY <1>1, <2>1 DEF GwInv, ClientsOK, Has, Waits
    <3>2. /\ g.session \in DOMAIN sessions /\ s.key = g.key /\ s.log[g.asked].from = Asker(g.key)
          /\ g.asked \in DOMAIN s.log /\ g.reply \in DOMAIN s.log /\ m.replyTo = g.asked
      BY <2>1, <3>1 DEF Own, IsSaid
    <3>3. g.asked # 0
      <4>1. sessions \in Seq(Sessions)
        BY <1>1 DEF GwInv, GatewayTypeOK
      <4>2. g.session \in 1 .. Len(sessions)
        BY <3>2, <4>1, LenProperties
      <4>3. s \in Sessions
        BY <4>1, <4>2, ElementOfSeq
      <4>4. s.log \in Seq(Messages)
        BY <4>3 DEF Sessions
      <4>5. DOMAIN s.log = 1 .. Len(s.log) /\ Len(s.log) \in Nat
        BY <4>4, LenProperties
      <4>6. QED
        BY <3>2, <4>5
    <3>4. m.seen >= g.asked /\ m.from = Asked(g.key)
      BY <1>1, <2>1, <3>1, <3>2, <3>3 DEF GwInv, GoodSessions, GoodSession, Answer, Own
    <3>5. ASSUME NEW d \in Clients \ {c}, client[d].at = "answered",
                 client[d].session = g.session, client[d].reply = g.reply
          PROVE  FALSE
      <4>1. Own(sessions, keys, client[d]) /\ Waits(client[d]) /\ Apart(g, client[d])
        BY <1>1, <3>5 DEF GwInv, ClientsOK, Waits
      <4>2. m.replyTo = client[d].asked
        BY <3>5, <4>1 DEF Own
      <4>3. QED
        BY <3>1, <3>2, <3>5, <4>1, <4>2 DEF Apart
    <3>6. QED
      BY <3>2, <3>4, <3>5
  <2>2. QED
    BY <2>1 DEF AnswersHaveSeenTheirQuestion
<1>2. QED
  BY <1>1, GwInvHolds, PTL

\* No task is ever published for the caller of a delegation, who is waiting
\* in its own, in the session of the pair (SkipSpokeCaller), and the pair has
\* one session as long as none of its reads failed (spokeSession).
THEOREM CallersAreNeverWoken == GSpec => []CallersAreNotWoken
<1>1. GwInv => CallersAreNotWoken
  BY DEF GwInv, WorkInv, NotWoken, Left, Woken, CallersAreNotWoken
<1>2. QED
  BY <1>1, GwInvHolds, PTL

(***************************************************************************)
(* The conversation.                                                       *)
(***************************************************************************)
ConversationInv == ConversationOK /\ TurnsAreSpoken /\ IdsAreUnique

\* Every turn taken was spoken in, by its owner under STRICT, and an id stands
\* for one message: the promise a session's stream keeps to its readers.
THEOREM ConversationHolds == CSpec => []ConversationInv
<1> USE DEF ConversationInv, ConversationOK, TurnsAreSpoken, IdsAreUnique
<1>1. CInit => ConversationInv
  BY DEF CInit
<1>2. ConversationInv /\ [CNext]_cvars => ConversationInv'
  <2> SUFFICES ASSUME ConversationInv, [CNext]_cvars PROVE ConversationInv'
    OBVIOUS
  <2>1. ASSUME NEW id \in Ids, NEW p \in Speakers, Say(id, p)
        PROVE  ConversationInv'
    <3> DEFINE m0 == [id |-> id, from |-> p, turn |-> turn]
    <3>1. /\ said' = said \union {m0} /\ turn' = turn /\ phase' = phase
          /\ m0 \in [id : Ids, from : Speakers, turn : Nat]
          /\ m0.turn = turn /\ m0.id = id /\ m0.from = p
      BY <2>1 DEF Say
    <3> HIDE DEF m0
    <3>2. ConversationOK'
      BY <3>1
    <3>3. TurnsAreSpoken'
      <4>1. \A t \in 0 .. (turn' - 1) : \E m \in said' : m.turn = t
        BY <3>1
      <4>2. ASSUME NEW m \in said'
            PROVE  m.turn <= turn' /\ (Strict => m.from = Owner(m.turn))
        BY <2>1, <3>1, <4>2 DEF Say
      <4>3. QED
        BY <4>1, <4>2 DEF Owner
    <3>4. IdsAreUnique'
      BY <2>1, <3>1 DEF Say
    <3>5. QED
      BY <3>2, <3>3, <3>4
  <2>2. CASE Pass
    <3>1. ConversationOK' /\ IdsAreUnique'
      BY <2>2 DEF Pass
    <3>2. \A t \in 0 .. (turn' - 1) : \E m \in said' : m.turn = t
      BY <2>2 DEF Pass
    <3>3. \A m \in said' : m.turn <= turn' /\ (Strict => m.from = Owner(m.turn))
      BY <2>2 DEF Pass
    <3>4. QED
      BY <3>1, <3>2, <3>3 DEF Owner
  <2>3. CASE RunOut \/ End \/ UNCHANGED cvars
    BY <2>3 DEF RunOut, End, cvars, Owner
  <2>4. QED
    BY <2>1, <2>2, <2>3 DEF CNext
<1>3. QED
  BY <1>1, <1>2, PTL DEF CSpec
=============================================================================
