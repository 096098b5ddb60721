------------------------------ MODULE LiveHub ------------------------------
(***************************************************************************)
(* Presence: the hub that knows which agent is thinking, and one browser   *)
(* that watches it (internal/live/hub.go; its callers in dispatcher.go and *)
(* ws.go).                                                                 *)
(*                                                                         *)
(* Three goroutines change the hub: the dispatcher's trigger (Track, and   *)
(* Finish when the enqueue fails), its results (Finish) and the gateway's  *)
(* presence subscription (SetPresence).  Each changes the state under the  *)
(* lock and broadcasts the frame after it, under the lock again, so frames *)
(* of two goroutines can cross.  A fourth, serveWS, sends a browser that   *)
(* has subscribed the states it reads.                                     *)
(*                                                                         *)
(* Simplifications: the browser watches every agent, and frames other than *)
(* presence frames, which only compete for the buffer, are left out.       *)
(***************************************************************************)
EXTENDS Naturals, Sequences, FiniteSets

CONSTANTS
  Agents, Tasks,
  AgentOf,        \* the agent of a task
  BufferSize,     \* bound: the buffer of a subscription (64 in the code)
  CanGoOffline,   \* workers announce that they stop (WORKER_AGENTS mode)
  CanFail         \* an enqueue may fail

NoTask == [task |-> "none"]

ASSUME HubAssumption ==
  /\ NoTask \notin Tasks
  /\ AgentOf \in [Tasks -> Agents]
  /\ BufferSize \in Nat \ {0}
  /\ CanGoOffline \in BOOLEAN /\ CanFail \in BOOLEAN

VARIABLES
  tasks,      \* tasks: those tracked
  inflight,   \* inflight: agent -> counter
  presence,   \* presence: agent -> state
  frames,     \* goroutine -> its frame still to be broadcast
  enqueueing, \* the task the trigger has tracked and not yet enqueued
  published,  \* tasks in the queue or past it: their results may come
  triggered,  \* tasks whose publish was acknowledged: the trigger is done with them
  watching,   \* the browser is subscribed
  toShow,     \* agents whose state serveWS has still to read
  buffer,     \* the subscription's channel
  screen      \* agent -> the state the browser shows

hubState == <<tasks, inflight, presence>>
browser  == <<watching, toShow, buffer, screen>>
queued   == <<published, triggered>>
hvars    == <<hubState, frames, enqueueing, queued, browser>>

States == {"online", "offline", "thinking"}
Goroutines == {"trigger", "results", "presence", "ws"}
Frame == [agent : Agents, state : States]
NoFrame == [state |-> "none"]

Tracked(a) == {t \in tasks : AgentOf[t] = a}

HInit ==
  /\ tasks = {} /\ published = {} /\ triggered = {}
  /\ inflight = [a \in Agents |-> 0]
  /\ presence = [a \in Agents |-> "offline"]
  /\ frames = [g \in Goroutines |-> NoFrame]
  /\ enqueueing = NoTask
  /\ watching = FALSE /\ toShow = {} /\ buffer = <<>>
  /\ screen = [a \in Agents |-> "offline"]

Free(g) == frames[g] = NoFrame
WillSend(g, a, s) == frames' = [frames EXCEPT ![g] = [agent |-> a, state |-> s]]

-----------------------------------------------------------------------------
\* Track, before the task is enqueued.
Track(t) ==
  /\ enqueueing = NoTask /\ Free("trigger")
  /\ t \notin triggered
  /\ tasks' = tasks \union {t}
  /\ inflight' = [inflight EXCEPT ![AgentOf[t]] = @ + 1]
  /\ presence' = [presence EXCEPT ![AgentOf[t]] = "thinking"]
  /\ WillSend("trigger", AgentOf[t], "thinking")
  /\ enqueueing' = t
  /\ UNCHANGED <<queued, browser>>

\* Mutant: the agent is left thinking.
FinishThinking(t, g) ==
  IF t \notin tasks THEN UNCHANGED <<hubState, frames>>
  ELSE /\ tasks' = tasks \ {t}
       /\ inflight' = [inflight EXCEPT ![AgentOf[t]] = IF @ > 0 THEN @ - 1 ELSE 0]
       /\ UNCHANGED <<presence, frames>>

\* Finish, in goroutine g; a task that is not tracked is no business of it.
Finish(t, g) ==
  IF t \notin tasks THEN UNCHANGED <<hubState, frames>>
  ELSE LET a == AgentOf[t]
           left == IF inflight[a] > 0 THEN inflight[a] - 1 ELSE 0
           idle == left = 0 /\ presence[a] = "thinking"
       IN /\ tasks' = tasks \ {t}
          /\ inflight' = [inflight EXCEPT ![a] = left]
          /\ presence' = IF idle THEN [presence EXCEPT ![a] = "online"] ELSE presence
          /\ IF idle THEN WillSend(g, a, "online") ELSE UNCHANGED frames

\* trigger goes on after Track has broadcast: the publish works, or it fails, the
\* hub is told and the event will come again.  A publish that failed for the
\* dispatcher may be in the queue all the same.
Enqueue ==
  /\ enqueueing # NoTask /\ Free("trigger")
  /\ enqueueing' = NoTask
  /\ \/ /\ published' = published \union {enqueueing}
        /\ triggered' = triggered \union {enqueueing}
        /\ UNCHANGED <<hubState, frames>>
     \/ /\ CanFail
        /\ published' \in {published, published \union {enqueueing}}
        /\ UNCHANGED triggered
        /\ Finish(enqueueing, "trigger")
  /\ UNCHANGED browser

\* onTaskResult: a task's result, which need not be its first one.
Result(t) ==
  /\ Free("results")
  /\ t \in published
  /\ Finish(t, "results")
  /\ UNCHANGED <<enqueueing, queued, browser>>

\* Mutant: an agent at work is set online.
SetPresenceAnyway(a, s) ==
  /\ Free("presence")
  /\ s = "offline" => CanGoOffline
  /\ presence' = [presence EXCEPT ![a] = s]
  /\ WillSend("presence", a, s)
  /\ inflight' = IF s = "offline" THEN [inflight EXCEPT ![a] = 0] ELSE inflight
  /\ UNCHANGED <<tasks, enqueueing, queued, browser>>

\* SetPresence: an agent at work is not set online; one that goes offline has
\* no work counted any more, though its tasks stay tracked.
SetPresence(a, s) ==
  /\ Free("presence")
  /\ s = "offline" => CanGoOffline
  /\ LET shown == IF s = "online" /\ inflight[a] > 0 THEN "thinking" ELSE s IN
       /\ presence' = [presence EXCEPT ![a] = shown]
       /\ WillSend("presence", a, shown)
  /\ inflight' = IF s = "offline" THEN [inflight EXCEPT ![a] = 0] ELSE inflight
  /\ UNCHANGED <<tasks, enqueueing, queued, browser>>

\* broadcast, under the lock again, and push: a full buffer loses the frame.
Broadcast(g) ==
  /\ ~Free(g)
  /\ frames' = [frames EXCEPT ![g] = NoFrame]
  /\ buffer' = IF watching /\ Len(buffer) < BufferSize
                 THEN Append(buffer, frames[g]) ELSE buffer
  /\ UNCHANGED <<hubState, enqueueing, queued, watching, toShow, screen>>

\* serveWS: subscribe first, then send every agent's state through the same
\* channel; a state read here can be old when it is sent.
Subscribe ==
  /\ ~watching
  /\ watching' = TRUE /\ toShow' = Agents /\ buffer' = <<>>
  /\ UNCHANGED <<hubState, frames, enqueueing, queued, screen>>

ReadState(a) ==
  /\ a \in toShow /\ Free("ws")
  /\ toShow' = toShow \ {a}
  /\ WillSend("ws", a, presence[a])
  /\ UNCHANGED <<hubState, enqueueing, queued, watching, buffer, screen>>

ShowFrame ==
  /\ buffer # <<>>
  /\ buffer' = Tail(buffer)
  /\ screen' = [screen EXCEPT ![Head(buffer).agent] = Head(buffer).state]
  /\ UNCHANGED <<hubState, frames, enqueueing, queued, watching, toShow>>

Unsubscribe ==
  /\ watching
  /\ watching' = FALSE /\ toShow' = {} /\ buffer' = <<>>
  /\ frames' = [frames EXCEPT !["ws"] = NoFrame]
  /\ UNCHANGED <<hubState, enqueueing, queued, screen>>

HNext ==
  \/ \E t \in Tasks : Track(t) \/ Result(t)
  \/ Enqueue
  \/ \E a \in Agents, s \in {"online", "offline"} : SetPresence(a, s)
  \/ \E g \in Goroutines : Broadcast(g)
  \/ Subscribe \/ Unsubscribe \/ ShowFrame
  \/ \E a \in Agents : ReadState(a)

HSpec == HInit /\ [][HNext]_hvars

-----------------------------------------------------------------------------
(* Properties.                                                             *)

\* The type invariant.
HubTypeOK ==
  /\ tasks \subseteq Tasks
  /\ published \subseteq Tasks /\ triggered \subseteq published
  /\ inflight \in [Agents -> Nat]
  /\ presence \in [Agents -> States]
  /\ frames \in [Goroutines -> {NoFrame} \union Frame]
  /\ enqueueing \in {NoTask} \union Tasks
  /\ watching \in BOOLEAN /\ toShow \subseteq Agents
  /\ buffer \in Seq(Frame) /\ Len(buffer) <= BufferSize
  /\ screen \in [Agents -> States]

\* An agent is shown thinking only while a task of its is tracked, and never
\* counts more than are: with the Finish of each of them it stops, whatever
\* came twice, failed to be queued or was counted before it went offline.  (Of
\* a task that sends no result Finish does not come, and the agent thinks on.)
ThinkingHasATask ==
  \A a \in Agents :
    /\ presence[a] = "thinking" => inflight[a] > 0
    /\ inflight[a] <= Cardinality(Tracked(a))

\* While the counter of an agent agrees with its tracked tasks, it is shown to
\* be thinking exactly when it has one: through results, second results, failed
\* enqueues and repeated online announcements.  An offline announcement is what
\* makes them disagree, until all of the agent's tasks are done.
CountedIsThinking ==
  \A a \in Agents : inflight[a] = Cardinality(Tracked(a)) =>
    (Tracked(a) # {} <=> presence[a] = "thinking")

\* When nothing is on its way the browser shows what the hub knows.
ScreenIsCurrent ==
  watching /\ toShow = {} /\ buffer = <<>> /\ (\A g \in Goroutines : Free(g))
    => screen = presence
=============================================================================
