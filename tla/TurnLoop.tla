------------------------------ MODULE TurnLoop ------------------------------
(***************************************************************************)
(* The turn loop: a message in a session becomes a task for the agent that *)
(* speaks next, the task's result becomes a message, and so on             *)
(* (internal/dispatcher/dispatcher.go over Session and the task queue).    *)
(*                                                                         *)
(* The module composes Session with the dispatcher's two subscriptions,    *)
(* the durable consumer of the SESSIONS stream (acks, naks, redelivery)    *)
(* and the core NATS subscription to results (no redelivery).  The workers *)
(* appear as TaskService promises them: once a job is sent, a run of it    *)
(* can end, any number of times.                                           *)
(*                                                                         *)
(* A message is named by its position in the stream, and the client id of  *)
(* a reply by the position it replies to ("task:t_<message>").  What goes  *)
(* into a task beside its agent (recall, knowledge, model, budget) changes *)
(* no state here.  Events that are no message are acked on delivery.       *)
(***************************************************************************)
EXTENDS Session, FiniteSets

CONSTANTS
  UserIds,      \* the client ids used by callers of the API
  Callers,      \* the participants whose messages come through the API
  Agents,       \* the participants the registry knows and nobody skips
  MaxLog,       \* bound: positions that can be replied to
  MaxCrashes,   \* bound: crashes of the actor and of the process
  MaxSilent     \* bound: tasks with a run that ends FAILED or CANCELLED

ReplyId(i) == [task |-> i]

ASSUME IdsAssumption ==
  UserIds \subseteq Ids /\ \A i \in 1 .. MaxLog : ReplyId(i) \in Ids \ UserIds
ASSUME CallersAssumption == Callers \subseteq People /\ Agents \subseteq People
ASSUME LoopAssumption ==
  /\ MaxLog \in Nat /\ MaxCrashes \in Nat
  /\ MaxSilent \in Nat

VARIABLES
  alive,      \* the runtime process is running
  cursor,     \* the durable consumer has delivered the stream up to here
  again,      \* delivered, not acked: to be delivered again
  trigger,    \* the delivery in the dispatcher's hands, and how far it is
  triggered,  \* triggered: the messages this process enqueued a task for
  jobs,       \* the tasks ever published: [id, agent]
  queue,      \* those no worker has acked
  results,    \* completed results on their way to the runtime
  silent,     \* jobs a run of which ended and left the runtime no message
  crashes     \* crashes so far

dispatcherVars == <<alive, cursor, again, trigger, triggered, jobs, queue,
                    results, silent>>
loopVars == <<dispatcherVars, crashes>>
allVars == <<vars, loopVars>>

Jobs == [id : 1 .. MaxLog, agent : Agents]
NoTrigger == [step |-> "none"]

LoopInit ==
  /\ Init
  /\ alive = TRUE
  /\ cursor = 0
  /\ again = {}
  /\ trigger = NoTrigger
  /\ triggered = {}
  /\ jobs = {}
  /\ queue = {}
  /\ results = {}
  /\ silent = {}
  /\ crashes = 0

-----------------------------------------------------------------------------
(* The session, driven by its callers.                                     *)

\* AppendMessage through the API, for a caller that may be repeating itself.
CallerSays(id, p) ==
  /\ alive
  /\ AppendMessage(id, p) \/ RetryAppend(id)
  /\ UNCHANGED loopVars

\* What the actor does without the dispatcher.
SessionStep ==
  /\ alive
  /\ AdvanceTurn \/ Suspend \/ Close \/ IdleClose \/ Recover
  /\ UNCHANGED loopVars

\* The actor panics; the process goes on.
ActorCrash ==
  /\ alive
  /\ crashes < MaxCrashes
  /\ crashes' = crashes + 1
  /\ Crash
  /\ UNCHANGED dispatcherVars

-----------------------------------------------------------------------------
(* onSessionEvent and trigger.                                             *)

\* Position i is the next message the stream delivers for the first time.
NextDelivery(i) ==
  /\ i \in MessagesIn(log)
  /\ i > cursor
  /\ \A j \in MessagesIn(log) : j > cursor => i <= j

\* Taking delivery of i: the durable consumer moves on, in order; what was
\* nacked or never acked comes back whenever it likes.
Deliver(i) ==
  \/ NextDelivery(i) /\ cursor' = i /\ again' = again
  \/ i \in again /\ cursor' = cursor /\ again' = again \ {i}

\* Mutant: the speaker of the turn that is over.
NextSpeakerSame(i) ==
  IF Strict
    THEN SpeakerAt(mem.turn + 1)
    ELSE IF log[i].from = Participants[1] THEN Participants[2] ELSE Participants[1]

\* nextSpeaker, on the snapshot the actor gives.
NextSpeaker(i) ==
  IF Strict
    THEN SpeakerAt(mem.turn)
    ELSE IF log[i].from = Participants[1] THEN Participants[2] ELSE Participants[1]

\* The conditions on which trigger goes on to enqueue a task.
Due(i) ==
  /\ mem.state = "open"
  /\ ~(MaxTurns > 0 /\ mem.turn >= MaxTurns)
  /\ NextSpeaker(i) \in Agents

\* onSessionEvent begins with message i, whatever the actor is doing.
TriggerDeliver(i) ==
  /\ alive
  /\ trigger = NoTrigger
  /\ i <= MaxLog
  /\ Deliver(i)
  /\ trigger' = [step |-> "delivered", pos |-> i]
  /\ UNCHANGED <<vars, alive, triggered, jobs, queue, results, silent, crashes>>

\* trigger's snapshot, which the actor answers between two commands: a message
\* nobody is due to answer goes to its ack.
TriggerRead ==
  /\ alive
  /\ trigger.step = "delivered"
  /\ Ready
  /\ LET i == trigger.pos IN
       trigger' = IF Due(i) THEN [step |-> "read", pos |-> i, agent |-> NextSpeaker(i)]
                            ELSE [step |-> "acking", pos |-> i]
  /\ UNCHANGED <<vars, alive, cursor, again, triggered, jobs, queue, results, silent,
                 crashes>>

Nak == trigger' = NoTrigger /\ again' = again \union {trigger.pos}

\* The snapshot fails or takes too long: nacked.
TriggerReadFails ==
  /\ alive
  /\ trigger.step = "delivered"
  /\ PublishFaults # {}
  /\ Nak
  /\ UNCHANGED <<vars, alive, cursor, triggered, jobs, queue, results, silent, crashes>>

TriggeredJob == [id |-> trigger.pos, agent |-> trigger.agent]
ToAck == trigger' = [step |-> "acking", pos |-> trigger.pos]

\* Mutant: a failed publish is acked.
TriggerEnqueueAcked ==
  /\ alive
  /\ trigger.step = "read"
  /\ IF trigger.pos \in triggered
       THEN UNCHANGED <<triggered, jobs, queue>>
       ELSE \E o \in Outcomes :
              /\ LET new == IF o = "lost" THEN {} ELSE {TriggeredJob} IN
                   jobs' = jobs \union new /\ queue' = queue \union new
              /\ triggered' = IF o = "ok" THEN triggered \union {trigger.pos} ELSE triggered
  /\ ToAck
  /\ UNCHANGED <<vars, alive, cursor, again, results, silent, crashes>>

\* Mutant: every agent of the session gets the task.
TriggerEnqueueAll ==
  /\ alive
  /\ trigger.step = "read"
  /\ trigger.pos \notin triggered
  /\ LET new == [id : {trigger.pos}, agent : Agents] IN
       jobs' = jobs \union new /\ queue' = queue \union new
  /\ triggered' = triggered \union {trigger.pos}
  /\ ToAck
  /\ UNCHANGED <<vars, alive, cursor, again, results, silent, crashes>>

\* trigger after its calls to memory and graph: enqueue unless this process
\* did so already; a failed publish is nacked.
TriggerEnqueue ==
  /\ alive
  /\ trigger.step = "read"
  /\ IF trigger.pos \in triggered
       THEN ToAck /\ UNCHANGED <<again, triggered, jobs, queue>>
       ELSE \E o \in Outcomes :
              /\ LET new == IF o = "lost" THEN {} ELSE {TriggeredJob} IN
                   jobs' = jobs \union new /\ queue' = queue \union new
              /\ IF o = "ok"
                   THEN /\ triggered' = triggered \union {trigger.pos}
                        /\ ToAck /\ again' = again
                   ELSE triggered' = triggered /\ Nak
  /\ UNCHANGED <<vars, alive, cursor, results, silent, crashes>>

\* The ack, which the connection may lose.
TriggerAck ==
  /\ alive
  /\ trigger.step = "acking"
  /\ trigger' = NoTrigger
  /\ \/ again' = again
     \/ PublishFaults # {} /\ again' = again \union {trigger.pos}
  /\ UNCHANGED <<vars, alive, cursor, triggered, jobs, queue, results, silent, crashes>>

-----------------------------------------------------------------------------
(* Results.                                                                *)

Silent(j) == silent' = silent \union {j} /\ results' = results

\* A run of job j ends.  A completed result goes to whoever is subscribed now; a
\* FAILED or CANCELLED one makes no message in onTaskResult, and a cancelled run
\* need not send any.  The worker acks the job, if it gets so far.
RunEnds(j) ==
  /\ j \in jobs
  /\ queue' \in {queue, queue \ {j}}
  /\ \/ alive /\ results' = results \union {j} /\ silent' = silent
     \/ (~alive \/ Cardinality(silent \union {j}) <= MaxSilent) /\ Silent(j)
  /\ UNCHANGED <<vars, alive, cursor, again, trigger, triggered, jobs, crashes>>

\* The actor's answers to an append it does not carry out.
Rejected(id, p) ==
  \/ mem.state # "open"
  \/ id \notin mem.messages /\ Strict /\ p # SpeakerAt(mem.turn)

\* onTaskResult: the reply is appended under the task's client id; an error is
\* logged and the result is gone.
OnTaskResult(r) ==
  /\ alive
  /\ r \in results
  /\ results' = results \ {r}
  /\ \/ AppendMessage(ReplyId(r.id), r.agent)
     \/ RetryAppend(ReplyId(r.id))
     \/ Ready /\ Rejected(ReplyId(r.id), r.agent) /\ UNCHANGED vars
  /\ UNCHANGED <<alive, cursor, again, trigger, triggered, jobs, queue, silent, crashes>>

-----------------------------------------------------------------------------

\* The runtime process dies: the actor, the trigger in hand (never acked), the
\* triggered table and the results it had received.
RuntimeCrash ==
  /\ CanCrash
  /\ alive
  /\ crashes < MaxCrashes
  /\ crashes' = crashes + 1
  /\ alive' = FALSE
  /\ IF up THEN Crash ELSE UNCHANGED vars
  /\ again' = IF trigger = NoTrigger THEN again ELSE again \union {trigger.pos}
  /\ trigger' = NoTrigger
  /\ triggered' = {}
  /\ results' = {}
  /\ silent' = silent \union results
  /\ UNCHANGED <<cursor, jobs, queue>>

\* cmd/runtime starts again; sessions are recovered when they are asked for.
RuntimeStart ==
  /\ ~alive
  /\ alive' = TRUE
  /\ UNCHANGED <<vars, cursor, again, trigger, triggered, jobs, queue, results, silent,
                 crashes>>

LoopNext ==
  \/ \E id \in UserIds, p \in Callers : CallerSays(id, p)
  \/ SessionStep
  \/ ActorCrash
  \/ \E i \in 1 .. MaxLog : TriggerDeliver(i)
  \/ TriggerRead
  \/ TriggerReadFails
  \/ TriggerEnqueue
  \/ TriggerAck
  \/ \E j \in Jobs : RunEnds(j)
  \/ \E r \in Jobs : OnTaskResult(r)
  \/ RuntimeCrash
  \/ RuntimeStart

LoopSpec == LoopInit /\ [][LoopNext]_allVars

\* The runtime's goroutines run while it is up (nobody has to start it again);
\* deliveries come in; a job leaves the queue (Worker's EveryTaskEnds) by a run
\* of it that ends, with a message or without.
LoopFairness ==
  /\ WF_allVars(alive /\ (AdvanceTurn \/ Suspend \/ Recover) /\ UNCHANGED loopVars)
  /\ WF_allVars(\E i \in 1 .. MaxLog : TriggerDeliver(i))
  /\ WF_allVars(TriggerRead)
  /\ WF_allVars(TriggerEnqueue)
  /\ WF_allVars(TriggerAck)
  /\ WF_allVars(\E j \in queue : RunEnds(j) /\ queue' = queue \ {j})
  /\ \A i \in 1 .. MaxLog : WF_allVars(\E r \in results : r.id = i /\ OnTaskResult(r))

LoopFairSpec == LoopSpec /\ LoopFairness

-----------------------------------------------------------------------------
(* Properties.                                                             *)

\* The type invariant of the dispatcher's part.
LoopTypeOK ==
  /\ alive \in BOOLEAN
  /\ cursor \in Nat
  /\ again \subseteq 1 .. MaxLog
  /\ trigger \in {NoTrigger}
                 \union [step : {"delivered", "acking"}, pos : 1 .. MaxLog]
                 \union [step : {"read"}, pos : 1 .. MaxLog, agent : Agents]
  /\ triggered \subseteq 1 .. MaxLog
  /\ jobs \subseteq Jobs
  /\ queue \subseteq jobs
  /\ results \subseteq Jobs /\ silent \subseteq jobs
  /\ crashes \in 0 .. MaxCrashes

\* A reply in the stream stands after the message it replies to, comes from an
\* agent that a task was sent to for that message, and is the only one for it:
\* through naks, redeliveries, double runs and crashes.
RepliesAreCaused ==
  \A k \in MessagesIn(log) : \A i \in 1 .. MaxLog :
    log[k].id = ReplyId(i) =>
      /\ i < k
      /\ log[i].kind = "message"
      /\ [id |-> i, agent |-> log[k].from] \in jobs
      /\ \A l \in MessagesIn(log) : log[l].id = ReplyId(i) => l = k

\* Everything the dispatcher was sent is dealt with.
Dispatched ==
  trigger = NoTrigger /\ again = {} /\ \A i \in MessagesIn(log) : i <= cursor

\* When the dispatcher has dealt with every message and it is an agent's turn,
\* a task was published for a message of the turn before: no nak, redelivery
\* or crash makes the dispatcher pass over the message that matters.
TurnHasATask ==
  /\ Strict /\ Dispatched /\ pc = "idle"
  /\ ReplayState(log) = "open"
  /\ ReplayTurn(log) > 0
  /\ ~(MaxTurns > 0 /\ ReplayTurn(log) >= MaxTurns)
  /\ SpeakerAt(ReplayTurn(log)) \in Agents
  => \E j \in jobs : log[j.id].turn + 1 = ReplayTurn(log)

\* A completed result that is still wanted comes from the participant whose
\* turn it is (onTaskResult: ErrNotYourTurn should not happen).
NoReplyOutOfTurn ==
  \A r \in results :
    Ready /\ mem.state = "open" /\ ReplyId(r.id) \notin mem.messages
      => r.agent = SpeakerAt(mem.turn)

\* One agent at a time: at most one task is out that has no reply yet.
OneTaskAtATime ==
  \A j, k \in jobs :
    (\A i \in MessagesIn(log) : log[i].id \notin {ReplyId(j.id), ReplyId(k.id)}) => j = k

\* It is turn t, an agent's.
WaitsForAgent(t) ==
  /\ ReplayState(log) = "open"
  /\ ReplayTurn(log) = t
  /\ SpeakerAt(t) \in Agents

\* Turn t's agent was asked, and a run of its task left no message (FAILED,
\* CANCELLED, or the runtime was down: onTaskResult's gap).
WentSilent(t) ==
  \E j \in silent : j.agent = SpeakerAt(t) /\ log[j.id].turn \in {t - 1, t}

LastTurn == IF MaxTurns > 0 THEN MaxTurns - 1 ELSE MaxLog

=============================================================================
