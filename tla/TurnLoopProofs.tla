--------------------------- MODULE TurnLoopProofs ---------------------------
(***************************************************************************)
(* Proofs about TurnLoop.  Every step of the loop is a step of its session *)
(* or leaves the session alone, so what SessionProofs shows of a session   *)
(* holds under the dispatcher too.  On top of that: replies are caused and  *)
(* no turn of an agent is passed over.                                     *)
(***************************************************************************)
EXTENDS TurnLoop, SessionProofs

\* One step of the loop is a session step or none at all.
LEMMA LoopStepIsSessionStep ==
  ASSUME [LoopNext]_allVars
  PROVE  [Next]_vars
<1>1. ASSUME NEW id \in UserIds, NEW p \in Callers, CallerSays(id, p)
      PROVE  [Next]_vars
  BY <1>1, IdsAssumption, CallersAssumption DEF CallerSays, Next
<1>2. CASE SessionStep
  BY <1>2 DEF SessionStep, Next
<1>3. CASE ActorCrash
  BY <1>3 DEF ActorCrash, Next
<1>4. CASE (\E i \in 1 .. MaxLog : TriggerDeliver(i)) \/ TriggerRead \/ TriggerReadFails
           \/ TriggerEnqueue \/ TriggerAck
  BY <1>4 DEF TriggerDeliver, TriggerRead, TriggerReadFails, TriggerEnqueue, TriggerAck
<1>5. CASE (\E j \in Jobs : RunEnds(j)) \/ RuntimeStart
  BY <1>5 DEF RunEnds, RuntimeStart
<1>6. ASSUME NEW r \in Jobs, OnTaskResult(r)
      PROVE  [Next]_vars
  <2>1. ReplyId(r.id) \in Ids /\ r.agent \in People
    BY IdsAssumption, CallersAssumption DEF Jobs
  <2>2. QED
    BY <1>6, <2>1 DEF OnTaskResult, Next
<1>7. CASE RuntimeCrash
  BY <1>7 DEF RuntimeCrash, Next
<1>8. CASE UNCHANGED allVars
  BY <1>8 DEF allVars
<1>9. QED
  BY <1>1, <1>2, <1>3, <1>4, <1>5, <1>6, <1>7, <1>8 DEF LoopNext

\* Every behaviour of the loop is a behaviour of its session: the dispatcher,
\* the workers and the restarts add nothing Session does not allow, so all that
\* is proved of Session (no duplicate, turns in order, replay) holds here.
THEOREM LoopDrivesSession == LoopSpec => Spec
<1>1. LoopInit => Init
  BY DEF LoopInit
<1>2. [LoopNext]_allVars => [Next]_vars
  BY LoopStepIsSessionStep
<1>3. QED
  BY <1>1, <1>2, PTL DEF LoopSpec, Spec

-----------------------------------------------------------------------------
(* Replies are caused.                                                     *)

\* What the dispatcher holds is about messages of the stream.
AboutMessages ==
  /\ again \subseteq MessagesIn(log)
  /\ trigger # NoTrigger => trigger.pos \in MessagesIn(log)
  /\ \A j \in jobs : j.id \in MessagesIn(log)
  /\ results \subseteq jobs

\* RepliesAreCaused without its last part, which is NoDuplicateMessage.
Caused ==
  \A k \in MessagesIn(log), i \in 1 .. MaxLog :
    log[k].id = ReplyId(i) =>
      /\ i < k
      /\ log[i].kind = "message"
      /\ [id |-> i, agent |-> log[k].from] \in jobs

LoopInv == LoopTypeOK /\ AboutMessages /\ Caused

\* What the loop may do to the stream in one step: nothing, an event that is
\* no message, a caller's message, or the reply a result in hand asks for.
Grows ==
  \/ log' = log
  \/ \E e \in Events :
       /\ log' = Append(log, e)
       /\ \/ e.kind # "message"
          \/ e.id \in UserIds
          \/ \E r \in results : e.id = ReplyId(r.id) /\ e.from = r.agent

LEMMA AppendGrows ==
  ASSUME IInv, NEW id \in Ids, NEW p \in People, AppendMessage(id, p)
  PROVE  \/ log' = log
         \/ \E e \in Events : /\ log' = Append(log, e)
                             /\ e.kind = "message" /\ e.id = id /\ e.from = p
<1>1. Said(id, p, mem.turn) \in Events
  BY DEF IInv, TypeOK, Said, Events
<1>2. log' = log \/ log' = Append(log, Said(id, p, mem.turn))
  BY DEF AppendMessage, Publish
<1>3. QED
  BY <1>1, <1>2 DEF Said

LEMMA LoopGrows ==
  ASSUME IInv, LoopTypeOK, [LoopNext]_allVars
  PROVE  Grows
<1>1. ASSUME NEW id \in UserIds, NEW p \in Callers, CallerSays(id, p)
      PROVE  Grows
  <2>1. id \in Ids /\ p \in People
    BY IdsAssumption, CallersAssumption
  <2>2. AppendMessage(id, p) \/ RetryAppend(id)
    BY <1>1 DEF CallerSays
  <2>3. QED
    BY <2>1, <2>2, AppendGrows DEF Grows, RetryAppend
<1>2. CASE SessionStep
  <2>1. TurnTo(mem.turn + 1) \in Events /\ TurnTo(mem.turn + 1).kind # "message"
    BY DEF IInv, TypeOK, TurnTo, Events
  <2>2. /\ Suspended \in Events /\ Suspended.kind # "message"
        /\ Closed \in Events /\ Closed.kind # "message"
    BY DEF Suspended, Closed, Events
  <2>3. log' \in {log, Append(log, TurnTo(mem.turn + 1)), Append(log, Suspended),
                  Append(log, Closed)}
    BY <1>2 DEF SessionStep, AdvanceTurn, Suspend, Close, IdleClose, Recover, Publish
  <2>4. QED
    BY <2>1, <2>2, <2>3 DEF Grows
<1>3. CASE ActorCrash
  BY <1>3 DEF ActorCrash, Crash, Grows
<1>4. CASE (\E i \in 1 .. MaxLog : TriggerDeliver(i)) \/ TriggerRead \/ TriggerReadFails
           \/ TriggerEnqueue \/ TriggerAck
  BY <1>4 DEF TriggerDeliver, TriggerRead, TriggerReadFails, TriggerEnqueue, TriggerAck, vars, Grows
<1>5. CASE (\E j \in Jobs : RunEnds(j)) \/ RuntimeStart \/ UNCHANGED allVars
  BY <1>5 DEF RunEnds, RuntimeStart, allVars, vars, Grows
<1>6. ASSUME NEW r \in Jobs, OnTaskResult(r)
      PROVE  Grows
  <2>1. ReplyId(r.id) \in Ids /\ r.agent \in People
    BY IdsAssumption, CallersAssumption DEF Jobs
  <2>2. CASE AppendMessage(ReplyId(r.id), r.agent)
    BY <1>6, <2>1, <2>2, AppendGrows DEF OnTaskResult, Grows
  <2>3. CASE RetryAppend(ReplyId(r.id)) \/ UNCHANGED vars
    BY <2>3 DEF RetryAppend, vars, Grows
  <2>4. QED
    BY <1>6, <2>2, <2>3 DEF OnTaskResult
<1>7. CASE RuntimeCrash
  BY <1>7 DEF RuntimeCrash, Crash, vars, Grows
<1>8. QED
  BY <1>1, <1>2, <1>3, <1>4, <1>5, <1>6, <1>7 DEF LoopNext

\* The stream keeps what it has, and what is new stands at its end.
LEMMA GrowthFacts ==
  ASSUME log \in Seq(Events), Grows
  PROVE  /\ MessagesIn(log) \subseteq MessagesIn(log')
         /\ \A i \in MessagesIn(log) : log'[i] = log[i]
         /\ \A k \in MessagesIn(log') :
              \/ k \in MessagesIn(log)
              \/ /\ \A i \in MessagesIn(log) : i < k
                 /\ \/ log'[k].id \in UserIds
                    \/ \E r \in results :
                         log'[k].id = ReplyId(r.id) /\ log'[k].from = r.agent
<1>1. CASE log' = log
  BY <1>1
<1>2. CASE log' # log
  <2>1. PICK e \in Events :
          /\ log' = Append(log, e)
          /\ \/ e.kind # "message"
             \/ e.id \in UserIds
             \/ \E r \in results : e.id = ReplyId(r.id) /\ e.from = r.agent
    BY <1>2 DEF Grows
  <2>2. /\ Len(log) \in Nat
        /\ DOMAIN log = 1 .. Len(log) /\ DOMAIN log' = 1 .. (Len(log) + 1)
        /\ \A i \in 1 .. Len(log) : log'[i] = log[i]
        /\ log'[Len(log) + 1] = e
    BY <2>1, AppendFacts
  <2>3. QED
    BY <2>1, <2>2 DEF MessagesIn
<1>3. QED
  BY <1>1, <1>2

-----------------------------------------------------------------------------
(* Every step keeps the invariant.                                         *)

LEMMA JobsOnlyGrow ==
  ASSUME [LoopNext]_allVars
  PROVE  jobs \subseteq jobs'
BY DEF LoopNext, allVars, loopVars, dispatcherVars, CallerSays, SessionStep, ActorCrash,
       TriggerDeliver, TriggerRead, TriggerReadFails, TriggerEnqueue, TriggerAck, RunEnds,
       OnTaskResult, RuntimeCrash, RuntimeStart

LEMMA CausedKeeps ==
  ASSUME log \in Seq(Events), LoopInv, Grows, jobs \subseteq jobs'
  PROVE  Caused'
<1> SUFFICES ASSUME NEW k \in MessagesIn(log'), NEW i \in 1 .. MaxLog,
                    log'[k].id = ReplyId(i)
             PROVE  /\ i < k
                    /\ log'[i].kind = "message"
                    /\ [id |-> i, agent |-> log'[k].from] \in jobs'
  BY DEF Caused
<1> USE DEF LoopInv
<1>1. CASE k \in MessagesIn(log)
  <2>1. log'[k] = log[k]
    BY <1>1, GrowthFacts
  <2>2. /\ i < k
        /\ log[i].kind = "message"
        /\ [id |-> i, agent |-> log[k].from] \in jobs
    BY <1>1, <2>1 DEF Caused
  <2>3. i \in MessagesIn(log)
    BY <1>1, <2>2, LoopAssumption DEF MessagesIn
  <2>4. log'[i] = log[i]
    BY <2>3, GrowthFacts
  <2>5. QED
    BY <2>1, <2>2, <2>4
<1>2. CASE k \notin MessagesIn(log)
  <2>1. ReplyId(i) \notin UserIds
    BY IdsAssumption
  <2>2. PICK r \in results : log'[k].id = ReplyId(r.id) /\ log'[k].from = r.agent
    BY <1>2, <2>1, GrowthFacts
  <2>3. r.id = i
    <3>1. ReplyId(r.id).task = ReplyId(i).task
      BY <2>2
    <3>2. QED
      BY <3>1 DEF ReplyId
  <2>4. r \in jobs /\ r = [id |-> i, agent |-> log'[k].from]
    BY <2>2, <2>3 DEF LoopTypeOK, AboutMessages, Jobs
  <2>5. i \in MessagesIn(log)
    BY <2>3, <2>4 DEF AboutMessages
  <2>6. i < k /\ log'[i] = log[i]
    BY <1>2, <2>5, GrowthFacts
  <2>7. QED
    BY <2>4, <2>5, <2>6 DEF MessagesIn
<1>3. QED
  BY <1>1, <1>2

\* The dispatcher's part: types, and that it only holds messages of the stream.
DispatcherInv == LoopTypeOK /\ AboutMessages

\* A step that leaves the dispatcher alone, whatever happens to the stream.
LEMMA DispatcherIdle ==
  ASSUME log \in Seq(Events), DispatcherInv, Grows, UNCHANGED dispatcherVars,
         crashes' \in 0 .. MaxCrashes
  PROVE  DispatcherInv'
<1>1. MessagesIn(log) \subseteq MessagesIn(log')
  BY GrowthFacts
<1>2. LoopTypeOK'
  BY DEF DispatcherInv, LoopTypeOK, dispatcherVars
<1>3. AboutMessages'
  BY <1>1 DEF DispatcherInv, AboutMessages, dispatcherVars
<1>4. QED
  BY <1>2, <1>3 DEF DispatcherInv

LEMMA TriggerDeliverKeeps ==
  ASSUME DispatcherInv, NEW i \in 1 .. MaxLog, TriggerDeliver(i)
  PROVE  DispatcherInv'
<1> USE DEF TriggerDeliver, DispatcherInv
<1>1. log' = log /\ UNCHANGED <<alive, jobs, queue, results, silent, triggered, crashes>>
  BY DEF vars
<1>2. /\ i \in MessagesIn(log)
      /\ cursor' \in Nat
      /\ again' \subseteq again
  BY DEF Deliver, NextDelivery, AboutMessages, LoopTypeOK
<1>3. trigger' = [step |-> "delivered", pos |-> i]
  OBVIOUS
<1>4. LoopTypeOK'
  BY <1>1, <1>2, <1>3 DEF LoopTypeOK
<1>5. AboutMessages'
  BY <1>1, <1>2, <1>3 DEF AboutMessages
<1>6. QED
  BY <1>4, <1>5

\* A delivery in hand is about a message, whatever step it is at.
LEMMA InHandIsMessage ==
  ASSUME DispatcherInv, trigger # NoTrigger
  PROVE  trigger.pos \in 1 .. MaxLog /\ trigger.pos \in MessagesIn(log)
<1>1. trigger \in [step : {"delivered", "acking"}, pos : 1 .. MaxLog]
                 \union [step : {"read"}, pos : 1 .. MaxLog, agent : Agents]
  BY DEF DispatcherInv, LoopTypeOK
<1>2. trigger.pos \in 1 .. MaxLog
  BY <1>1
<1>3. QED
  BY <1>2 DEF DispatcherInv, AboutMessages

LEMMA TriggerReadKeeps ==
  ASSUME DispatcherInv, TriggerRead \/ TriggerReadFails
  PROVE  DispatcherInv'
<1> USE DEF TriggerRead, TriggerReadFails, DispatcherInv
<1>1. /\ log' = log
      /\ UNCHANGED <<alive, cursor, jobs, queue, results, silent, triggered, crashes>>
  BY DEF vars
<1>2. trigger # NoTrigger
  BY DEF NoTrigger
<1>3. trigger.pos \in 1 .. MaxLog /\ trigger.pos \in MessagesIn(log)
  BY <1>2, InHandIsMessage
<1>4. PICK p \in 1 .. MaxLog : p = trigger.pos /\ p \in MessagesIn(log)
  BY <1>3
<1>5. \/ trigger' = NoTrigger
      \/ trigger' = [step |-> "acking", pos |-> p]
      \/ /\ NextSpeaker(p) \in Agents
         /\ trigger' = [step |-> "read", pos |-> p, agent |-> NextSpeaker(p)]
  BY <1>4 DEF Due, Nak
<1>6. again' \subseteq again \union {p}
  BY <1>4 DEF Nak
<1>7. LoopTypeOK'
  BY <1>1, <1>5, <1>6 DEF LoopTypeOK
<1>8. AboutMessages'
  BY <1>1, <1>4, <1>5, <1>6 DEF AboutMessages
<1>9. QED
  BY <1>7, <1>8

LEMMA TriggerEnqueueKeeps ==
  ASSUME DispatcherInv, TriggerEnqueue
  PROVE  DispatcherInv'
<1> USE DEF TriggerEnqueue, DispatcherInv
<1>1. /\ log' = log
      /\ UNCHANGED <<alive, cursor, results, silent, crashes>>
  BY DEF vars
<1>2. trigger # NoTrigger
  BY DEF NoTrigger
<1>3. /\ trigger \in [step : {"read"}, pos : 1 .. MaxLog, agent : Agents]
      /\ trigger.pos \in 1 .. MaxLog /\ trigger.agent \in Agents
      /\ trigger.pos \in MessagesIn(log)
  BY <1>2 DEF LoopTypeOK, AboutMessages
<1>4. TriggeredJob \in Jobs /\ TriggeredJob.id = trigger.pos
  BY <1>3 DEF TriggeredJob, Jobs
<1>5. /\ jobs \subseteq jobs' /\ jobs' \subseteq jobs \union {TriggeredJob}
      /\ queue' \subseteq jobs'
  BY DEF LoopTypeOK
<1>6. /\ again' \subseteq again \union {trigger.pos}
      /\ triggered' \subseteq triggered \union {trigger.pos}
  BY DEF Nak
<1>7. trigger' = NoTrigger \/ trigger' = [step |-> "acking", pos |-> trigger.pos]
  BY DEF Nak, ToAck
<1>8. \/ trigger' = NoTrigger
      \/ /\ trigger' \in [step : {"delivered", "acking"}, pos : 1 .. MaxLog]
         /\ trigger'.pos = trigger.pos
  BY <1>3, <1>7
<1>9. LoopTypeOK'
  BY <1>1, <1>3, <1>4, <1>5, <1>6, <1>8 DEF LoopTypeOK
<1>10. AboutMessages'
  BY <1>1, <1>3, <1>4, <1>5, <1>6, <1>8 DEF AboutMessages
<1>11. QED
  BY <1>9, <1>10

LEMMA TriggerAckKeeps ==
  ASSUME DispatcherInv, TriggerAck
  PROVE  DispatcherInv'
<1> USE DEF TriggerAck, DispatcherInv
<1>1. /\ log' = log /\ trigger' = NoTrigger
      /\ UNCHANGED <<alive, cursor, triggered, jobs, queue, results, silent, crashes>>
  BY DEF vars
<1>2. trigger # NoTrigger
  BY DEF NoTrigger
<1>3. trigger.pos \in 1 .. MaxLog /\ trigger.pos \in MessagesIn(log)
  BY <1>2, InHandIsMessage
<1>4. again' \subseteq again \union {trigger.pos}
  OBVIOUS
<1>5. LoopTypeOK'
  BY <1>1, <1>3, <1>4 DEF LoopTypeOK
<1>6. AboutMessages'
  BY <1>1, <1>3, <1>4 DEF AboutMessages
<1>7. QED
  BY <1>5, <1>6

LEMMA RuntimeCrashKeeps ==
  ASSUME DispatcherInv, RuntimeCrash
  PROVE  DispatcherInv'
<1> USE DEF RuntimeCrash, DispatcherInv
<1>1. log' = log
  BY DEF Crash, vars
<1>2. trigger # NoTrigger =>
        trigger.pos \in 1 .. MaxLog /\ trigger.pos \in MessagesIn(log)
  BY InHandIsMessage
<1>3. /\ again' \subseteq again \union (IF trigger = NoTrigger THEN {} ELSE {trigger.pos})
      /\ crashes' \in 0 .. MaxCrashes
      /\ silent' \subseteq jobs
  BY LoopAssumption DEF LoopTypeOK, AboutMessages
<1>4. LoopTypeOK'
  BY <1>2, <1>3 DEF LoopTypeOK
<1>5. AboutMessages'
  BY <1>1, <1>2, <1>3 DEF AboutMessages
<1>6. QED
  BY <1>4, <1>5

LEMMA DispatcherKeeps ==
  ASSUME log \in Seq(Events), DispatcherInv, Grows, [LoopNext]_allVars
  PROVE  DispatcherInv'
<1>1. CASE (\E id \in UserIds, p \in Callers : CallerSays(id, p)) \/ SessionStep
           \/ UNCHANGED allVars
  <2>1. UNCHANGED dispatcherVars /\ crashes' = crashes
    BY <1>1 DEF CallerSays, SessionStep, allVars, loopVars
  <2>2. QED
    BY <2>1, DispatcherIdle DEF DispatcherInv, LoopTypeOK
<1>2. CASE ActorCrash
  <2>1. UNCHANGED dispatcherVars /\ crashes' \in 0 .. MaxCrashes
    BY <1>2, LoopAssumption DEF ActorCrash, DispatcherInv, LoopTypeOK
  <2>2. QED
    BY <2>1, DispatcherIdle
<1>3. CASE (\E i \in 1 .. MaxLog : TriggerDeliver(i)) \/ TriggerRead \/ TriggerReadFails
  BY <1>3, TriggerDeliverKeeps, TriggerReadKeeps
<1>4. CASE TriggerEnqueue
  BY <1>4, TriggerEnqueueKeeps
<1>5. CASE TriggerAck
  BY <1>5, TriggerAckKeeps
<1>6. CASE \E j \in Jobs : RunEnds(j)
  BY <1>6 DEF RunEnds, Silent, vars, DispatcherInv, LoopTypeOK, AboutMessages
<1>7. ASSUME NEW r \in Jobs, OnTaskResult(r)
      PROVE  DispatcherInv'
  <2>1. MessagesIn(log) \subseteq MessagesIn(log')
    BY GrowthFacts
  <2>2. QED
    BY <1>7, <2>1 DEF OnTaskResult, DispatcherInv, LoopTypeOK, AboutMessages
<1>8. CASE RuntimeCrash
  BY <1>8, RuntimeCrashKeeps
<1>9. CASE RuntimeStart
  BY <1>9 DEF RuntimeStart, vars, DispatcherInv, LoopTypeOK, AboutMessages
<1>10. QED
  BY <1>1, <1>2, <1>3, <1>4, <1>5, <1>6, <1>7, <1>8, <1>9 DEF LoopNext

LEMMA LoopInvHolds ==
  ASSUME "stored" \notin PublishFaults
  PROVE  LoopSpec => [](IInv /\ LoopInv)
<1>1. LoopInit => IInv /\ LoopInv
  <2> SUFFICES ASSUME LoopInit PROVE IInv /\ LoopInv
    OBVIOUS
  <2>1. IInv
    BY InitIInv DEF LoopInit
  <2>2. MessagesIn(log) = {}
    BY DEF LoopInit, Init, MessagesIn, Opened
  <2>3. QED
    BY <2>1, <2>2, LoopAssumption
       DEF LoopInit, LoopInv, LoopTypeOK, AboutMessages, Caused
<1>2. IInv /\ LoopInv /\ [LoopNext]_allVars => (IInv /\ LoopInv)'
  <2> SUFFICES ASSUME IInv, LoopInv, [LoopNext]_allVars
               PROVE  IInv' /\ LoopInv'
    OBVIOUS
  <2>1. IInv'
    BY LoopStepIsSessionStep, NextKeeps
  <2>2. Grows
    BY LoopGrows DEF LoopInv
  <2>3. log \in Seq(Events)
    BY DEF IInv, TypeOK
  <2>4. Caused'
    BY <2>2, <2>3, CausedKeeps, JobsOnlyGrow
  <2>5. DispatcherInv'
    BY <2>2, <2>3, DispatcherKeeps DEF LoopInv, DispatcherInv
  <2>6. QED
    BY <2>1, <2>4, <2>5 DEF LoopInv, DispatcherInv
<1>3. QED
  BY <1>1, <1>2, PTL DEF LoopSpec

\* Type correctness of the dispatcher's part.
THEOREM LoopTypeCorrect ==
  ASSUME "stored" \notin PublishFaults
  PROVE  LoopSpec => []LoopTypeOK
<1>1. LoopInv => LoopTypeOK
  BY DEF LoopInv
<1>2. QED
  BY <1>1, LoopInvHolds, PTL

\* A reply is caused by a message before it and a task sent for that message,
\* comes from that task's agent, and is the only one: through any number of
\* naks, redeliveries, double runs and crashes (trigger, onTaskResult).
THEOREM RepliesAlwaysCaused ==
  ASSUME "stored" \notin PublishFaults
  PROVE  LoopSpec => []RepliesAreCaused
<1>1. IInv /\ LoopInv => RepliesAreCaused
  BY DEF IInv, StreamInv, NoDuplicateMessage, LoopInv, Caused, RepliesAreCaused
<1>2. QED
  BY <1>1, LoopInvHolds, PTL
-----------------------------------------------------------------------------
(* No turn of an agent is passed over.                                     *)

\* A turn stands right after the message that ends the turn before it.
TurnsFollow ==
  \A t \in TurnsIn(log) :
    /\ t - 1 \in MessagesIn(log)
    /\ log[t - 1].turn + 1 = log[t].turn

\* The dispatcher has yet to read a snapshot for message i.
Undecided(i) ==
  i > cursor \/ i \in again \/ (trigger.step = "delivered" /\ trigger.pos = i)

\* The message of an append in progress is the last event of the stream, and
\* the dispatcher has decided nothing about it: snapshots wait for the append.
PendingIsLast ==
  /\ cursor <= Len(log)
  /\ pc = "advance" =>
       /\ Len(log) \in MessagesIn(log)
       /\ log[Len(log)].turn = ReplayTurn(log)
       /\ Undecided(Len(log))

HasJob(i) == \E j \in jobs : j.id = i

\* What this process takes for enqueued was published.
TriggeredHaveJobs == \A i \in triggered : HasJob(i)

\* The dispatcher has not lost message i: it is still to be delivered, in its
\* hands, or its task was published.
InHand(i) ==
  Undecided(i) \/ (trigger.step = "read" /\ trigger.pos = i) \/ HasJob(i)

\* It is an agent's turn, and the session goes on.
AgentIsDue ==
  /\ Strict
  /\ ReplayState(log) = "open"
  /\ ReplayTurn(log) > 0
  /\ ~(MaxTurns > 0 /\ ReplayTurn(log) >= MaxTurns)
  /\ SpeakerAt(ReplayTurn(log)) \in Agents

\* Then the message that brought the turn about is in hand.
DueIsInHand ==
  AgentIsDue => \A t \in TurnsIn(log) : log[t].turn = ReplayTurn(log) => InHand(t - 1)

HandInv ==
  /\ TurnsFollow
  /\ PendingIsLast
  /\ TriggeredHaveJobs
  /\ DueIsInHand

\* What one step of the actor does to its stream, with the step of the append
\* it belongs to.
LEMMA StepShape ==
  ASSUME "stored" \notin PublishFaults, IInv, [Next]_vars
  PROVE  \/ log' = log /\ (pc' = "advance" => pc = "advance")
         \/ \E e \in Events :
              /\ Legal(log, e)
              /\ log' = Append(log, e)
              /\ e.kind = "turn" => pc = "advance"
              /\ pc' = "advance" => e.kind = "message"
<1>1. ASSUME NEW e \in Events, NEW o \in Outcomes, Legal(log, e), Publish(e, o)
      PROVE  \/ o = "ok" /\ Legal(log, e) /\ log' = Append(log, e)
             \/ o = "lost" /\ log' = log
  BY <1>1, FaultAssumption DEF Outcomes, Publish
<1>2. ASSUME NEW id \in Ids, NEW p \in People, AppendMessage(id, p)
      PROVE  \/ log' = log /\ pc' = "idle"
             \/ \E e \in Events : Legal(log, e) /\ log' = Append(log, e) /\ e.kind = "message"
  <2>1. /\ Said(id, p, mem.turn) \in Events /\ Legal(log, Said(id, p, mem.turn))
        /\ Said(id, p, mem.turn).kind = "message"
    BY <1>2, SaidIsLegal DEF AppendMessage, Said
  <2>2. PICK o \in Outcomes : /\ Publish(Said(id, p, mem.turn), o)
                              /\ pc' = IF o = "ok" THEN "advance" ELSE "idle"
    BY <1>2 DEF AppendMessage
  <2>3. QED
    BY <1>1, <2>1, <2>2
<1>3. CASE AdvanceTurn
  <2>1. /\ TurnTo(mem.turn + 1) \in Events /\ Legal(log, TurnTo(mem.turn + 1))
        /\ pc = "advance" /\ pc' # "advance"
    BY <1>3, TurnIsLegal DEF AdvanceTurn
  <2>2. PICK o \in Outcomes : Publish(TurnTo(mem.turn + 1), o)
    BY <1>3 DEF AdvanceTurn
  <2>3. QED
    BY <1>1, <2>1, <2>2
<1>4. CASE Suspend
  <2>1. /\ Suspended \in Events /\ Legal(log, Suspended)
        /\ pc' = "idle" /\ Suspended.kind = "suspended"
    BY <1>4, SuspendedIsLegal DEF Suspend, Suspended
  <2>2. PICK o \in Outcomes : Publish(Suspended, o)
    BY <1>4 DEF Suspend
  <2>3. QED
    BY <1>1, <2>1, <2>2
<1>5. CASE Close \/ IdleClose
  <2>1. pc' = "idle" /\ Closed.kind = "closed"
    BY <1>5 DEF Close, IdleClose, Closed, Ready
  <2>2. CASE mem.state # "closed"
    <3>1. Closed \in Events /\ Legal(log, Closed)
      BY <1>5, <2>2, ClosedIsLegal DEF Close, IdleClose, Ready
    <3>2. PICK o \in Outcomes : Publish(Closed, o)
      BY <1>5, <2>2 DEF Close, IdleClose
    <3>3. QED
      BY <1>1, <2>1, <3>1, <3>2
  <2>3. CASE mem.state = "closed"
    BY <1>5, <2>1, <2>3 DEF Close, IdleClose
  <2>4. QED
    BY <2>2, <2>3
<1>6. CASE (\E id \in Ids : RetryAppend(id)) \/ Crash \/ Recover \/ UNCHANGED vars
  BY <1>6 DEF RetryAppend, Crash, Recover, vars
<1>7. QED
  BY <1>2, <1>3, <1>4, <1>5, <1>6 DEF Next

\* A stream that grows while the consumer stays where it is.
LEMMA GrowingKeepsOrder ==
  ASSUME IInv, TurnsFollow, PendingIsLast, cursor \in Nat,
         UNCHANGED <<cursor, again, trigger>>,
         NEW e \in Events, Legal(log, e), log' = Append(log, e),
         e.kind = "turn" => pc = "advance",
         pc' = "advance" => e.kind = "message"
  PROVE  TurnsFollow' /\ PendingIsLast'
<1> DEFINE n == Len(log) + 1
           T == ReplayTurn(log)
<1>1. /\ Len(log) \in Nat /\ Len(log') = n
      /\ MessagesIn(log) \subseteq 1 .. Len(log) /\ TurnsIn(log) \subseteq 1 .. Len(log)
      /\ \A i \in 1 .. Len(log) : log'[i] = log[i]
      /\ log'[n] = e
      /\ MessagesIn(log') = IF e.kind = "message" THEN MessagesIn(log) \union {n}
                            ELSE MessagesIn(log)
      /\ TurnsIn(log') = IF e.kind = "turn" THEN TurnsIn(log) \union {n} ELSE TurnsIn(log)
      /\ ReplayTurn(log') = IF e.kind = "turn" THEN e.turn ELSE T
  BY AppendedStream, AppendFacts DEF IInv, TypeOK, StreamInv
<1>2. PendingIsLast'
  BY <1>1 DEF PendingIsLast, Undecided, Legal
<1>3. ASSUME NEW t \in TurnsIn(log')
      PROVE  t - 1 \in MessagesIn(log') /\ log'[t - 1].turn + 1 = log'[t].turn
  <2>1. CASE t \in TurnsIn(log)
    BY <1>1, <2>1 DEF TurnsFollow
  <2>2. CASE t \notin TurnsIn(log)
    <3>1. t = n /\ e.kind = "turn" /\ e.turn = T + 1
      BY <1>1, <2>2 DEF Legal
    <3>2. Len(log) \in MessagesIn(log) /\ log[Len(log)].turn = T
      BY <3>1 DEF PendingIsLast
    <3>3. t - 1 = Len(log) /\ log'[t] = e
      BY <1>1, <3>1
    <3>4. QED
      BY <1>1, <3>1, <3>2, <3>3
  <2>3. QED
    BY <2>1, <2>2
<1>4. QED
  BY <1>2, <1>3 DEF TurnsFollow

\* It keeps the message in hand too: a turn that comes is one whose message
\* nobody was shown yet.
LEMMA GrowingKeepsHand ==
  ASSUME IInv, LoopTypeOK, HandInv, UNCHANGED <<cursor, again, trigger, jobs>>,
         NEW e \in Events, Legal(log, e), log' = Append(log, e),
         e.kind = "turn" => pc = "advance"
  PROVE  DueIsInHand'
<1> DEFINE n == Len(log) + 1
           T == ReplayTurn(log)
<1> SUFFICES ASSUME AgentIsDue', NEW t \in TurnsIn(log'), log'[t].turn = ReplayTurn(log')
             PROVE  InHand(t - 1)'
  BY DEF DueIsInHand, InHand, Undecided, HasJob
<1>1. /\ Len(log) \in Nat
      /\ TurnsIn(log) \subseteq 1 .. Len(log)
      /\ \A i \in 1 .. Len(log) : log'[i] = log[i]
      /\ log'[n] = e
      /\ TurnsIn(log') = IF e.kind = "turn" THEN TurnsIn(log) \union {n} ELSE TurnsIn(log)
      /\ ReplayState(log') = IF e.kind \in StateKinds THEN StateAfter(e.kind)
                             ELSE ReplayState(log)
      /\ ReplayTurn(log') = IF e.kind = "turn" THEN e.turn ELSE T
  BY AppendedStream DEF IInv, TypeOK, StreamInv
<1>2. \A i : InHand(i) => InHand(i)'
  BY DEF InHand, Undecided, HasJob
<1>3. CASE e.kind = "turn"
  <2>1. \A s \in TurnsIn(log) : log[s].turn <= T /\ log[s].turn \in Nat
    BY TurnWasPublished DEF IInv, StreamInv, NothingAhead
  <2>2. e.turn = T + 1 /\ T \in Nat
    BY <1>3, TurnWasPublished DEF Legal
  <2>3. t = n
    BY <1>1, <1>3, <2>1, <2>2
  <2>4. t - 1 = Len(log) /\ Undecided(Len(log))
    BY <1>1, <1>3, <2>3 DEF HandInv, PendingIsLast
  <2>5. Undecided(t - 1)'
    BY <2>4 DEF Undecided
  <2>6. QED
    BY <2>5 DEF InHand
<1>4. CASE e.kind # "turn"
  <2>1. ReplayState(log) = "open" /\ ReplayTurn(log') = T /\ ReplayState(log') = "open"
    BY <1>1, <1>4 DEF AgentIsDue, Legal, StateKinds, StateAfter
  <2>2. AgentIsDue
    BY <2>1 DEF AgentIsDue, SpeakerAt
  <2>3. t \in TurnsIn(log) /\ log[t].turn = T
    BY <1>1, <1>4
  <2>4. QED
    BY <1>2, <2>2, <2>3 DEF HandInv, DueIsInHand
<1>5. QED
  BY <1>3, <1>4

\* A step that leaves the stream where it is.
LEMMA StandingKeepsOrder ==
  ASSUME TurnsFollow, PendingIsLast, log' = log, cursor' \in Nat,
         pc' = "advance" => pc = "advance",
         \A i \in MessagesIn(log) : pc = "advance" /\ Undecided(i) => Undecided(i)',
         cursor' <= Len(log)
  PROVE  TurnsFollow' /\ PendingIsLast'
<1>1. TurnsFollow'
  BY DEF TurnsFollow
<1>2. PendingIsLast'
  BY DEF PendingIsLast
<1>3. QED
  BY <1>1, <1>2

LEMMA StandingKeepsHand ==
  ASSUME HandInv, log' = log,
         AgentIsDue => \A i \in MessagesIn(log) : InHand(i) => InHand(i)'
  PROVE  DueIsInHand'
<1> SUFFICES ASSUME AgentIsDue', NEW t \in TurnsIn(log'), log'[t].turn = ReplayTurn(log')
             PROVE  InHand(t - 1)'
  BY DEF DueIsInHand, InHand, Undecided, HasJob
<1>1. AgentIsDue /\ t \in TurnsIn(log) /\ log[t].turn = ReplayTurn(log)
  BY DEF AgentIsDue, SpeakerAt
<1>2. t - 1 \in MessagesIn(log) /\ InHand(t - 1)
  BY <1>1 DEF HandInv, TurnsFollow, DueIsInHand
<1>3. QED
  BY <1>1, <1>2

\* The session moves, or a result does: the dispatcher holds what it held.
LEMMA HandAside ==
  ASSUME "stored" \notin PublishFaults, IInv, LoopTypeOK, HandInv, [Next]_vars,
         UNCHANGED <<cursor, again, trigger, triggered, jobs>>
  PROVE  HandInv'
<1>1. cursor \in Nat
  BY DEF LoopTypeOK
<1>2. TriggeredHaveJobs'
  BY DEF HandInv, TriggeredHaveJobs, HasJob
<1>3. CASE log' = log /\ (pc' = "advance" => pc = "advance")
  <2>1. TurnsFollow' /\ PendingIsLast'
    BY <1>1, <1>3, StandingKeepsOrder DEF HandInv, PendingIsLast, Undecided
  <2>2. DueIsInHand'
    BY <1>3, StandingKeepsHand DEF InHand, Undecided, HasJob
  <2>3. QED
    BY <1>2, <2>1, <2>2 DEF HandInv
<1>4. ASSUME NEW e \in Events, Legal(log, e), log' = Append(log, e),
             e.kind = "turn" => pc = "advance", pc' = "advance" => e.kind = "message"
      PROVE  HandInv'
  <2>1. TurnsFollow' /\ PendingIsLast'
    BY <1>1, <1>4, GrowingKeepsOrder DEF HandInv
  <2>2. DueIsInHand'
    BY <1>4, GrowingKeepsHand
  <2>3. QED
    BY <1>2, <2>1, <2>2 DEF HandInv
<1>5. QED
  BY <1>3, <1>4, StepShape

\* Delivery: a message before the one delivered is not in hand as undelivered,
\* and the one delivered is undecided still.
LEMMA HandDeliver ==
  ASSUME IInv, LoopInv, HandInv, NEW i \in 1 .. MaxLog, TriggerDeliver(i)
  PROVE  HandInv'
<1> USE DEF TriggerDeliver
<1>1. /\ log' = log /\ pc' = pc /\ UNCHANGED <<triggered, jobs>>
      /\ trigger = NoTrigger /\ trigger'.step = "delivered" /\ trigger'.pos = i
  BY DEF vars
<1>2. i \in MessagesIn(log)
  BY DEF Deliver, NextDelivery, LoopInv, AboutMessages
<1>3. i <= Len(log) /\ Len(log) \in Nat
  BY <1>2 DEF MessagesIn, IInv, TypeOK
<1>4. cursor' \in Nat /\ cursor' <= Len(log)
  BY <1>2, <1>3 DEF Deliver, NextDelivery, HandInv, PendingIsLast, LoopInv, LoopTypeOK
<1>5. ASSUME NEW m \in MessagesIn(log), Undecided(m)
      PROVE  Undecided(m)'
  <2>1. m \in Nat /\ i \in Nat
    BY <1>2, <1>3 DEF MessagesIn, IInv, TypeOK
  <2>2. m > cursor \/ m \in again
    BY <1>1, <1>5 DEF Undecided, NoTrigger
  <2>3. QED
    BY <1>1, <2>1, <2>2 DEF Undecided, Deliver, NextDelivery
<1>6. TurnsFollow' /\ PendingIsLast'
  BY <1>1, <1>4, <1>5, StandingKeepsOrder DEF HandInv
<1>7. TriggeredHaveJobs'
  BY <1>1 DEF HandInv, TriggeredHaveJobs, HasJob
<1>8. \A m \in MessagesIn(log) : InHand(m) => InHand(m)'
  BY <1>1, <1>5 DEF InHand, HasJob, NoTrigger
<1>9. DueIsInHand'
  BY <1>1, <1>8, StandingKeepsHand
<1>10. QED
  BY <1>6, <1>7, <1>9 DEF HandInv

\* The snapshot: if an agent is due, the message goes on to an enqueue.  It is
\* taken between two commands, so that no turn is on its way.
LEMMA HandRead ==
  ASSUME IInv, LoopInv, HandInv, TriggerRead
  PROVE  HandInv'
<1> USE DEF TriggerRead
<1>1. /\ log' = log /\ pc' = "idle" /\ pc = "idle" /\ up
      /\ UNCHANGED <<cursor, again, triggered, jobs>>
  BY DEF vars, Ready
<1>2. cursor' \in Nat /\ cursor' <= Len(log)
  BY <1>1 DEF LoopInv, LoopTypeOK, HandInv, PendingIsLast
<1>3. TurnsFollow' /\ PendingIsLast'
  BY <1>1, <1>2, StandingKeepsOrder DEF HandInv
<1>4. TriggeredHaveJobs'
  BY <1>1 DEF HandInv, TriggeredHaveJobs, HasJob
<1>5. AgentIsDue => Due(trigger.pos)
  BY <1>1, MemoryFields DEF IInv, AgentIsDue, Due, NextSpeaker
<1>6. AgentIsDue => trigger'.step = "read" /\ trigger'.pos = trigger.pos
  BY <1>5
<1>7. AgentIsDue => \A m \in MessagesIn(log) : InHand(m) => InHand(m)'
  BY <1>1, <1>6 DEF InHand, Undecided, HasJob
<1>8. DueIsInHand'
  BY <1>1, <1>7, StandingKeepsHand
<1>9. QED
  BY <1>3, <1>4, <1>8 DEF HandInv

\* No snapshot: the message will come again.
LEMMA HandReadFails ==
  ASSUME IInv, LoopInv, HandInv, TriggerReadFails
  PROVE  HandInv'
<1> USE DEF TriggerReadFails
<1>1. /\ log' = log /\ pc' = pc /\ trigger.step = "delivered"
      /\ again' = again \union {trigger.pos}
      /\ UNCHANGED <<cursor, triggered, jobs>>
  BY DEF vars, Nak
<1>2. cursor' \in Nat /\ cursor' <= Len(log)
  BY <1>1 DEF LoopInv, LoopTypeOK, HandInv, PendingIsLast
<1>3. \A m : Undecided(m) => Undecided(m)'
  BY <1>1 DEF Undecided
<1>4. TurnsFollow' /\ PendingIsLast'
  BY <1>1, <1>2, <1>3, StandingKeepsOrder DEF HandInv
<1>5. TriggeredHaveJobs'
  BY <1>1 DEF HandInv, TriggeredHaveJobs, HasJob
<1>6. \A m : InHand(m) => InHand(m)'
  BY <1>1, <1>3 DEF InHand, HasJob
<1>7. QED
  BY <1>1, <1>4, <1>5, <1>6, StandingKeepsHand DEF HandInv

\* The enqueue: the task is published and remembered, or the message is nacked.
LEMMA HandEnqueue ==
  ASSUME IInv, LoopInv, HandInv, TriggerEnqueue
  PROVE  HandInv'
<1> USE DEF TriggerEnqueue
<1>1. log' = log /\ pc' = pc /\ cursor' = cursor /\ trigger.step = "read"
  BY DEF vars
<1>2. cursor \in Nat /\ cursor <= Len(log)
  BY DEF LoopInv, LoopTypeOK, HandInv, PendingIsLast
<1>3. TriggeredJob.id = trigger.pos
  BY DEF TriggeredJob
<1>4. again \subseteq again' /\ jobs \subseteq jobs'
  BY DEF Nak
<1>5. \A x : HasJob(x) => HasJob(x)'
  BY <1>4 DEF HasJob
<1>6. \A x : Undecided(x) => Undecided(x)'
  BY <1>1, <1>4 DEF Undecided
<1>7. TurnsFollow' /\ PendingIsLast'
  BY <1>1, <1>2, <1>6, StandingKeepsOrder DEF HandInv
<1>. PICK p : p = trigger.pos
  OBVIOUS
<1>8. /\ HasJob(p)' \/ p \in again'
      /\ triggered' \subseteq triggered \union {p}
      /\ p \in triggered' => HasJob(p)'
  <2>1. CASE p \in triggered
    BY <1>5, <2>1 DEF HandInv, TriggeredHaveJobs
  <2>2. CASE p \notin triggered
    <3>1. PICK o \in Outcomes :
            /\ jobs' = jobs \union (IF o = "lost" THEN {} ELSE {TriggeredJob})
            /\ IF o = "ok"
                 THEN triggered' = triggered \union {p}
                 ELSE triggered' = triggered /\ again' = again \union {p}
      BY <2>2 DEF Nak
    <3>2. CASE o = "ok"
      <4>1. TriggeredJob \in jobs'
        BY <3>1, <3>2
      <4>2. HasJob(p)'
        BY <1>3, <4>1 DEF HasJob
      <4>3. QED
        BY <3>1, <3>2, <4>2
    <3>3. CASE o # "ok"
      BY <2>2, <3>1, <3>3
    <3>4. QED
      BY <3>2, <3>3
  <2>3. QED
    BY <2>1, <2>2
<1>9. TriggeredHaveJobs'
  <2> SUFFICES ASSUME NEW x \in triggered' PROVE HasJob(x)'
    BY DEF TriggeredHaveJobs
  <2>1. CASE x = p
    BY <1>8, <2>1
  <2>2. CASE x # p
    <3>1. HasJob(x)
      BY <1>8, <2>2 DEF HandInv, TriggeredHaveJobs
    <3>2. QED
      BY <1>5, <3>1
  <2>3. QED
    BY <2>1, <2>2
<1>10. ASSUME NEW x, InHand(x)
       PROVE  InHand(x)'
  <2>1. CASE Undecided(x) \/ HasJob(x)
    BY <1>5, <1>6, <2>1 DEF InHand
  <2>2. CASE x = p
    BY <1>8, <2>2 DEF InHand, Undecided
  <2>3. QED
    BY <1>10, <2>1, <2>2 DEF InHand
<1>11. QED
  BY <1>1, <1>7, <1>9, <1>10, StandingKeepsHand DEF HandInv

LEMMA HandAck ==
  ASSUME IInv, LoopInv, HandInv, TriggerAck
  PROVE  HandInv'
<1> USE DEF TriggerAck
<1>1. /\ log' = log /\ pc' = pc /\ trigger.step = "acking" /\ again \subseteq again'
      /\ UNCHANGED <<cursor, triggered, jobs>>
  BY DEF vars
<1>2. cursor \in Nat /\ cursor <= Len(log)
  BY DEF LoopInv, LoopTypeOK, HandInv, PendingIsLast
<1>3. \A x : Undecided(x) => Undecided(x)'
  BY <1>1 DEF Undecided
<1>4. TurnsFollow' /\ PendingIsLast'
  BY <1>1, <1>2, <1>3, StandingKeepsOrder DEF HandInv
<1>5. TriggeredHaveJobs'
  BY <1>1 DEF HandInv, TriggeredHaveJobs, HasJob
<1>6. \A x : InHand(x) => InHand(x)'
  BY <1>1, <1>3 DEF InHand, HasJob
<1>7. QED
  BY <1>1, <1>4, <1>5, <1>6, StandingKeepsHand DEF HandInv

\* A crash hands back what was in hand: it was never acked.
LEMMA HandCrash ==
  ASSUME IInv, LoopInv, HandInv, RuntimeCrash
  PROVE  HandInv'
<1> USE DEF RuntimeCrash
<1>1. /\ log' = log /\ (pc' = "advance" => pc = "advance")
      /\ trigger' = NoTrigger /\ triggered' = {}
      /\ again' = IF trigger = NoTrigger THEN again ELSE again \union {trigger.pos}
      /\ UNCHANGED <<cursor, jobs>>
  BY DEF Crash, vars
<1>2. cursor \in Nat /\ cursor <= Len(log)
  BY DEF LoopInv, LoopTypeOK, HandInv, PendingIsLast
<1>3. \A x : Undecided(x) => Undecided(x)'
  BY <1>1 DEF Undecided, NoTrigger
<1>4. TurnsFollow' /\ PendingIsLast'
  BY <1>1, <1>2, <1>3, StandingKeepsOrder DEF HandInv
<1>5. TriggeredHaveJobs'
  BY <1>1 DEF TriggeredHaveJobs
<1>6. \A x : InHand(x) => InHand(x)'
  BY <1>1, <1>3 DEF InHand, Undecided, HasJob, NoTrigger
<1>7. QED
  BY <1>1, <1>4, <1>5, <1>6, StandingKeepsHand DEF HandInv

LEMMA HandKeeps ==
  ASSUME "stored" \notin PublishFaults, IInv, LoopInv, HandInv, [LoopNext]_allVars
  PROVE  HandInv'
<1>1. [Next]_vars /\ LoopTypeOK
  BY LoopStepIsSessionStep DEF LoopInv
<1>2. CASE (\E id \in UserIds, p \in Callers : CallerSays(id, p)) \/ SessionStep
           \/ ActorCrash \/ (\E j \in Jobs : RunEnds(j))
           \/ (\E r \in Jobs : OnTaskResult(r)) \/ RuntimeStart \/ UNCHANGED allVars
  <2>1. UNCHANGED <<cursor, again, trigger, triggered, jobs>>
    BY <1>2 DEF CallerSays, SessionStep, ActorCrash, RunEnds, OnTaskResult,
       RuntimeStart, allVars, loopVars, dispatcherVars
  <2>2. QED
    BY <1>1, <2>1, HandAside
<1>3. CASE (\E i \in 1 .. MaxLog : TriggerDeliver(i)) \/ TriggerRead \/ TriggerReadFails
  BY <1>3, HandDeliver, HandRead, HandReadFails
<1>4. CASE TriggerEnqueue
  BY <1>4, HandEnqueue
<1>5. CASE TriggerAck
  BY <1>5, HandAck
<1>6. CASE RuntimeCrash
  BY <1>6, HandCrash
<1>7. QED
  BY <1>2, <1>3, <1>4, <1>5, <1>6 DEF LoopNext

LEMMA InitHand == LoopInit => HandInv
<1> SUFFICES ASSUME LoopInit PROVE HandInv
  OBVIOUS
<1>1. TurnsIn(log) = {} /\ Len(log) = 1
  BY DEF LoopInit, Init, TurnsIn, Opened
<1>2. QED
  BY <1>1 DEF LoopInit, Init, HandInv, TurnsFollow, PendingIsLast, TriggeredHaveJobs,
     DueIsInHand

\* Once the dispatcher has dealt with every message and it is an agent's turn,
\* a task was published for the message of the turn before: no nak, lost ack,
\* redelivery or crash makes it pass over the message that matters.
THEOREM TurnsAreNotPassedOver ==
  ASSUME "stored" \notin PublishFaults
  PROVE  LoopSpec => []TurnHasATask
<1>1. LoopSpec => []HandInv
  <2>1. HandInv /\ IInv /\ LoopInv /\ [LoopNext]_allVars => HandInv'
    BY HandKeeps
  <2>2. QED
    BY <2>1, InitHand, LoopInvHolds, PTL DEF LoopSpec
<1>2. IInv /\ LoopInv /\ HandInv => TurnHasATask
  <2> SUFFICES ASSUME IInv, LoopInv, HandInv, Dispatched, AgentIsDue
               PROVE  \E j \in jobs : log[j.id].turn + 1 = ReplayTurn(log)
    BY DEF TurnHasATask, AgentIsDue
  <2>1. PICK t \in TurnsIn(log) : log[t].turn = ReplayTurn(log)
    BY TurnWasPublished DEF AgentIsDue
  <2>2. /\ t - 1 \in MessagesIn(log) /\ InHand(t - 1)
        /\ log[t - 1].turn + 1 = ReplayTurn(log)
    BY <2>1 DEF HandInv, TurnsFollow, DueIsInHand
  <2>3. t - 1 \in Nat /\ cursor \in Nat /\ t - 1 <= cursor
    BY <2>2 DEF Dispatched, MessagesIn, IInv, TypeOK, LoopInv, LoopTypeOK
  <2>4. HasJob(t - 1)
    BY <2>2, <2>3 DEF InHand, Undecided, Dispatched, NoTrigger
  <2>5. QED
    BY <2>2, <2>4 DEF HasJob
<1>3. QED
  BY <1>1, <1>2, LoopInvHolds, PTL
=============================================================================
