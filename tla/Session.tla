------------------------------ MODULE Session ------------------------------
(***************************************************************************)
(* One session of the runtime: the actor that is the only writer of the    *)
(* session's event stream (internal/session/actor.go), the SESSIONS stream *)
(* it writes, and the recovery that rebuilds the actor from that stream    *)
(* (internal/session/manager.go).                                          *)
(*                                                                         *)
(* Commands go through the actor's mailbox one at a time, but an append is *)
(* up to three publishes (message, turn, suspension).  Each publish is a   *)
(* step of its own here: the process can die between two of them, and the  *)
(* consumers of the stream see what lies between.                          *)
(*                                                                         *)
(* Simplifications: a message is its id, its author and its turn; a call   *)
(* the actor answers with an error changes nothing and is no action; the   *)
(* module starts where OpenSession has returned; recovery reads the whole  *)
(* stream (a short fetch is discussed in the README).                      *)
(***************************************************************************)
EXTENDS Naturals, Sequences

CONSTANTS
  Ids,            \* the client message ids callers may use
  Participants,   \* the two participants, in order
  Strict,         \* turn_taking: TRUE for STRICT, FALSE for FREE
  MaxTurns,       \* max_turns of the policy, 0 for no limit
  IdleTimeout,    \* whether idle_timeout_ms is positive
  PublishFaults,  \* how a publish may fail: a subset of {"lost", "stored"}
  CanCrash        \* whether the actor (or its process) may die

ASSUME ParticipantsAssumption == DOMAIN Participants = {1, 2}
ASSUME PolicyAssumption ==
  Strict \in BOOLEAN /\ MaxTurns \in Nat /\ IdleTimeout \in BOOLEAN
ASSUME FaultAssumption ==
  PublishFaults \subseteq {"lost", "stored"} /\ CanCrash \in BOOLEAN

VARIABLES
  log,        \* the session's events in the SESSIONS stream, oldest first
  up,         \* the manager has an actor for this session
  mem,        \* the actor's state: [state, turn, messages]
  pc,         \* where the actor is in an append: idle, advance, suspend
  pending,    \* the ids of the append in progress, {} when there is none
  idleTimer,  \* the idle timer can still fire
  accepted    \* the ids some caller was told are appended

vars == <<log, up, mem, pc, pending, idleTimer, accepted>>

-----------------------------------------------------------------------------
(* Events and what they do to the actor's state.                           *)

People == {Participants[1], Participants[2]}
SpeakerAt(t) == Participants[(t % 2) + 1]

Opened         == [kind |-> "opened"]
Said(id, p, t) == [kind |-> "message", id |-> id, from |-> p, turn |-> t]
TurnTo(t)      == [kind |-> "turn", turn |-> t]
Suspended      == [kind |-> "suspended"]
Closed         == [kind |-> "closed"]

Events ==
  {Opened, Suspended, Closed}
    \union [kind : {"message"}, id : Ids, from : People, turn : Nat]
    \union [kind : {"turn"}, turn : Nat]

StateKinds == {"opened", "suspended", "closed"}
StateAfter(kind) == IF kind = "opened" THEN "open" ELSE kind

Blank == [state |-> "none", turn |-> 0, messages |-> {}]

\* applyEvent: the one function that changes the actor's state, on the live
\* path and in a replay.
Applied(m, e) ==
  [state    |-> IF e.kind \in StateKinds THEN StateAfter(e.kind) ELSE m.state,
   turn     |-> IF e.kind = "turn" THEN e.turn ELSE m.turn,
   messages |-> IF e.kind = "message" THEN m.messages \union {e.id} ELSE m.messages]

\* i is the last position of l with an event of these kinds, 0 if there is none.
IsLast(l, kinds, i) ==
  /\ i \in 0 .. Len(l)
  /\ i > 0 => l[i].kind \in kinds
  /\ \A j \in (i + 1) .. Len(l) : l[j].kind \notin kinds

Last(l, kinds) == CHOOSE i \in 0 .. Len(l) : IsLast(l, kinds, i)

ReplayState(l) ==
  LET i == Last(l, StateKinds) IN IF i = 0 THEN "none" ELSE StateAfter(l[i].kind)

ReplayTurn(l) ==
  LET i == Last(l, {"turn"}) IN IF i = 0 THEN 0 ELSE l[i].turn

MessagesIn(l) == {i \in DOMAIN l : l[i].kind = "message"}
TurnsIn(l)    == {i \in DOMAIN l : l[i].kind = "turn"}

\* What applying every event of l in order leaves: each field is written last
\* by the last event of its kind.  SessionProofs shows it to be the fold.
Replay(l) ==
  [state    |-> ReplayState(l),
   turn     |-> ReplayTurn(l),
   messages |-> {l[i].id : i \in MessagesIn(l)}]

\* replay: the events of the stream from its first, each applied to what the
\* ones before it left.
Folded(l) ==
  LET folded[i \in 0 .. Len(l)] ==
        IF i = 0 THEN Blank ELSE Applied(folded[i - 1], l[i])
  IN folded[Len(l)]

-----------------------------------------------------------------------------
Init ==
  /\ log = <<Opened>>
  /\ up = TRUE
  /\ mem = Applied(Blank, Opened)
  /\ pc = "idle"
  /\ pending = {}
  /\ idleTimer = IdleTimeout
  /\ accepted = {}

\* A publish to JetStream, then applyEvent.  It fails with nothing stored
\* ("lost"), or fails at the caller after the server stored it ("stored").
Outcomes == {"ok"} \union PublishFaults

Publish(e, outcome) ==
  /\ log' = IF outcome = "lost" THEN log ELSE Append(log, e)
  /\ mem' = IF outcome = "ok" THEN Applied(mem, e) ELSE mem

Ready == up /\ pc = "idle"

\* Mutant: no look at the dedup table.
AppendMessageTwice(id, p) ==
  /\ Ready
  /\ mem.state = "open"
  /\ Strict => p = SpeakerAt(mem.turn)
  /\ \E o \in Outcomes :
       /\ Publish(Said(id, p, mem.turn), o)
       /\ pc' = IF o = "ok" THEN "advance" ELSE "idle"
       /\ pending' = IF o = "ok" THEN {id} ELSE {}
  /\ UNCHANGED <<up, idleTimer, accepted>>

\* Mutant: no look at whose turn it is.
AppendMessageAnyone(id, p) ==
  /\ Ready
  /\ mem.state = "open"
  /\ id \notin mem.messages
  /\ \E o \in Outcomes :
       /\ Publish(Said(id, p, mem.turn), o)
       /\ pc' = IF o = "ok" THEN "advance" ELSE "idle"
       /\ pending' = IF o = "ok" THEN {id} ELSE {}
  /\ UNCHANGED <<up, idleTimer, accepted>>

\* Mutant: the caller is answered before the turn is advanced.
AppendMessageEarly(id, p) ==
  /\ Ready
  /\ mem.state = "open"
  /\ id \notin mem.messages
  /\ Strict => p = SpeakerAt(mem.turn)
  /\ \E o \in Outcomes :
       /\ Publish(Said(id, p, mem.turn), o)
       /\ pc' = IF o = "ok" THEN "advance" ELSE "idle"
       /\ pending' = IF o = "ok" THEN {id} ELSE {}
       /\ accepted' = IF o = "ok" THEN accepted \union {id} ELSE accepted
  /\ UNCHANGED <<up, idleTimer>>

\* append, up to the publish of MessageAppended.
AppendMessage(id, p) ==
  /\ Ready
  /\ mem.state = "open"
  /\ id \notin mem.messages
  /\ Strict => p = SpeakerAt(mem.turn)
  /\ \E o \in Outcomes :
       /\ Publish(Said(id, p, mem.turn), o)
       /\ pc' = IF o = "ok" THEN "advance" ELSE "idle"
       /\ pending' = IF o = "ok" THEN {id} ELSE {}
  /\ UNCHANGED <<up, idleTimer, accepted>>

\* append, when the id is already in the dedup table: the original message is
\* returned before the turn policy is looked at.
RetryAppend(id) ==
  /\ Ready
  /\ mem.state = "open"
  /\ id \in mem.messages
  /\ accepted' = accepted \union {id}
  /\ UNCHANGED <<log, up, mem, pc, pending, idleTimer>>

\* Mutant: the session is suspended one turn early.
AdvanceTurnEarly ==
  /\ up
  /\ pc = "advance"
  /\ \E o \in Outcomes :
       /\ Publish(TurnTo(mem.turn + 1), o)
       /\ IF o = "ok" /\ MaxTurns > 0 /\ mem.turn + 2 >= MaxTurns
            THEN pc' = "suspend" /\ UNCHANGED <<pending, accepted>>
            ELSE /\ pc' = "idle"
                 /\ pending' = {}
                 /\ accepted' = IF o = "ok" THEN accepted \union pending ELSE accepted
  /\ UNCHANGED <<up, idleTimer>>

\* Mutant: the session is suspended one turn late.
AdvanceTurnLate ==
  /\ up
  /\ pc = "advance"
  /\ \E o \in Outcomes :
       /\ Publish(TurnTo(mem.turn + 1), o)
       /\ IF o = "ok" /\ MaxTurns > 0 /\ mem.turn + 1 > MaxTurns
            THEN pc' = "suspend" /\ UNCHANGED <<pending, accepted>>
            ELSE /\ pc' = "idle"
                 /\ pending' = {}
                 /\ accepted' = IF o = "ok" THEN accepted \union pending ELSE accepted
  /\ UNCHANGED <<up, idleTimer>>

\* append, the publish of TurnAdvanced; its error goes to the caller.
AdvanceTurn ==
  /\ up
  /\ pc = "advance"
  /\ \E o \in Outcomes :
       /\ Publish(TurnTo(mem.turn + 1), o)
       /\ IF o = "ok" /\ MaxTurns > 0 /\ mem.turn + 1 >= MaxTurns
            THEN pc' = "suspend" /\ UNCHANGED <<pending, accepted>>
            ELSE /\ pc' = "idle"
                 /\ pending' = {}
                 /\ accepted' = IF o = "ok" THEN accepted \union pending ELSE accepted
  /\ UNCHANGED <<up, idleTimer>>

\* append, the publish of Suspended once max_turns is used up; its error is
\* dropped and the caller gets the message either way.
Suspend ==
  /\ up
  /\ pc = "suspend"
  /\ \E o \in Outcomes : Publish(Suspended, o)
  /\ pc' = "idle"
  /\ pending' = {}
  /\ accepted' = accepted \union pending
  /\ UNCHANGED <<up, idleTimer>>

\* close, called for CloseSession.
Close ==
  /\ Ready
  /\ mem.state # "closed"
  /\ \E o \in Outcomes : Publish(Closed, o)
  /\ UNCHANGED <<up, pc, pending, idleTimer, accepted>>

\* Mutant: a suspended session is left alone.
IdleCloseOpen ==
  /\ Ready
  /\ idleTimer
  /\ idleTimer' = FALSE
  /\ IF mem.state # "open"
       THEN UNCHANGED <<log, mem>>
       ELSE \E o \in Outcomes : Publish(Closed, o)
  /\ UNCHANGED <<up, pc, pending, accepted>>

\* run, the idle timer's branch: one shot, whatever the close returns.
IdleClose ==
  /\ Ready
  /\ idleTimer
  /\ idleTimer' = FALSE
  /\ IF mem.state = "closed"
       THEN UNCHANGED <<log, mem>>
       ELSE \E o \in Outcomes : Publish(Closed, o)
  /\ UNCHANGED <<up, pc, pending, accepted>>

\* A panic in the actor (run's recover, Manager.remove) or a crash of the
\* process: everything in memory goes, the stream stays.
Crash ==
  /\ CanCrash
  /\ up
  /\ up' = FALSE
  /\ mem' = Blank
  /\ pc' = "idle"
  /\ pending' = {}
  /\ idleTimer' = FALSE
  /\ UNCHANGED <<log, accepted>>

\* Mutant: the actor is rebuilt without its history.
RecoverFresh ==
  /\ ~up
  /\ up' = TRUE
  /\ mem' = Applied(Blank, Opened)
  /\ idleTimer' = IdleTimeout
  /\ UNCHANGED <<log, pc, pending, accepted>>

\* getOrRecover and replay, on the next call that names this session.
Recover ==
  /\ ~up
  /\ up' = TRUE
  /\ mem' = Replay(log)
  /\ idleTimer' = IdleTimeout
  /\ UNCHANGED <<log, pc, pending, accepted>>

Next ==
  \/ \E id \in Ids, p \in People : AppendMessage(id, p)
  \/ \E id \in Ids : RetryAppend(id)
  \/ AdvanceTurn
  \/ Suspend
  \/ Close
  \/ IdleClose
  \/ Crash
  \/ Recover

Spec == Init /\ [][Next]_vars

\* The actor's goroutine keeps running and Go's timers fire.  Callers owe
\* nothing: no fairness on their commands, on a crash or on a recovery.
Fairness == WF_vars(AdvanceTurn) /\ WF_vars(Suspend) /\ WF_vars(IdleClose)
FairSpec == Spec /\ Fairness

-----------------------------------------------------------------------------
(* Properties.                                                             *)

\* The type invariant.
TypeOK ==
  /\ log \in Seq(Events)
  /\ up \in BOOLEAN
  /\ mem \in [state : {"none", "open", "suspended", "closed"},
              turn : Nat, messages : SUBSET Ids]
  /\ pc \in {"idle", "advance", "suspend"}
  /\ pending \in SUBSET Ids
  /\ idleTimer \in BOOLEAN
  /\ accepted \in SUBSET Ids

\* The stream is the source of truth: whenever an actor is running, its state
\* is the fold of the stream, also between the publishes of one append.
MemoryIsReplay == up => mem = Replay(log)

\* No client message id is in the stream twice, however often its caller
\* retries and wherever the actor died (append's dedup table).  Fails when a
\* publish is stored and reported as failed: the dedup table misses it then.
NoDuplicateMessage ==
  \A i, j \in MessagesIn(log) : log[i].id = log[j].id => i = j

\* Turn numbers in the stream only grow, each by one, across crashes too.
TurnsCountUp ==
  \A i, j \in TurnsIn(log) :
    i < j => /\ log[i].turn < log[j].turn
             /\ (\A k \in TurnsIn(log) : ~(i < k /\ k < j)) => log[j].turn = log[i].turn + 1

\* A message carries the turn that was current where it stands in the stream,
\* and under STRICT its author is the participant that turn belongs to.
MessageAtItsTurn ==
  \A i \in MessagesIn(log) :
    /\ \A j \in TurnsIn(log) : (j < i) <=> (log[j].turn <= log[i].turn)
    /\ Strict => log[i].from = SpeakerAt(log[i].turn)

\* Closing is final in the stream: nothing follows a Closed event, and after
\* a suspension only a Closed event does.
ClosedIsFinal ==
  \A i, j \in DOMAIN log :
    i < j => /\ log[i].kind # "closed"
             /\ log[i].kind = "suspended" => log[j].kind = "closed"

\* The stream is one conversation, through retries, lost publishes and crashes:
\* turns count up, messages stand at their turn, nothing follows a close.
StreamWellFormed == TurnsCountUp /\ MessageAtItsTurn /\ ClosedIsFinal

\* What a caller was told is appended is in the stream, and stays there.
AcceptedIsStored ==
  \A id \in accepted : \E i \in MessagesIn(log) : log[i].id = id

\* Where the message of this id stands in the stream.
Copies(id) == {i \in MessagesIn(log) : log[i].id = id}

\* However publishes fail, those included that were stored, and wherever the
\* actor dies: once a caller was told that its message is appended, the message
\* is in the stream and is not stored again, whoever repeats it (append's dedup
\* table and replay).
AcceptedIsNotRepeated ==
  [][\A id \in accepted : Copies(id) # {} /\ Copies(id)' = Copies(id)]_vars

\* At most one message per turn, so that each is answered before the next, and
\* none after max_turns.  Holds while every publish works and nothing crashes.
OneMessagePerTurn ==
  /\ \A i, j \in MessagesIn(log) : log[i].turn = log[j].turn => i = j
  /\ MaxTurns > 0 => \A i \in TurnsIn(log) : log[i].turn <= MaxTurns

\* The message of this id is in the stream, and so is a later turn.
MovedPast(id) ==
  \E i \in MessagesIn(log) :
    log[i].id = id /\ \E j \in TurnsIn(log) : log[j].turn > log[i].turn

\* A caller that was told a message is appended can rely on the turn having
\* moved past it (the comment on append's dedup).  Holds without faults.
AcceptedMovedTheTurn == \A id \in accepted : MovedPast(id)

\* A session with an idle timeout is closed in the end, suspended or not.
IdleSessionCloses ==
  <>(\E i \in DOMAIN log : log[i].kind = "closed")

\* What a reader of the stream sees is a Conversation: every step of the actor,
\* the faults included, is a step of that specification or leaves it alone.
SaidIn(l) ==
  {[id |-> l[i].id, from |-> l[i].from, turn |-> l[i].turn] : i \in MessagesIn(l)}

C == INSTANCE Conversation
       WITH phase <- ReplayState(log), turn <- ReplayTurn(log), said <- SaidIn(log)

ImplementsConversation == C!CSpec

-----------------------------------------------------------------------------
(* The inductive invariant behind the safety properties, in parts.         *)

\* Both searches of Replay find something (proved along the stream's growth).
LastsExist(l) ==
  /\ \E i \in 0 .. Len(l) : IsLast(l, StateKinds, i)
  /\ \E i \in 0 .. Len(l) : IsLast(l, {"turn"}, i)

\* No event of a later phase is in the stream before the phase is reached.
PhasesInOrder(l) ==
  /\ ReplayState(l) \in {"open", "suspended", "closed"}
  /\ ReplayState(l) # "closed" => \A i \in DOMAIN l : l[i].kind # "closed"
  /\ ReplayState(l) = "open" => \A i \in DOMAIN l : l[i].kind # "suspended"

\* Nothing in the stream is ahead of the turn it replays to.
NothingAhead(l) ==
  \A i \in MessagesIn(l) \union TurnsIn(l) : l[i].turn <= ReplayTurn(l)

\* An append in progress is one of a live actor on an open session: its
\* message is in the stream, and its turn is too before a suspension.
AppendInProgress ==
  pc # "idle" =>
    /\ up
    /\ ReplayState(log) = "open"
    /\ pending \subseteq Replay(log).messages
    /\ pc = "advance" => \E i \in MessagesIn(log) : log[i].turn = ReplayTurn(log)
    /\ pc = "suspend" => MaxTurns > 0 /\ ReplayTurn(log) >= MaxTurns

StreamInv ==
  /\ LastsExist(log)
  /\ PhasesInOrder(log)
  /\ NothingAhead(log)
  /\ NoDuplicateMessage
  /\ TurnsCountUp
  /\ MessageAtItsTurn
  /\ ClosedIsFinal

IInv ==
  /\ TypeOK
  /\ StreamInv
  /\ MemoryIsReplay
  /\ AppendInProgress
  /\ AcceptedIsStored

\* What may be appended to a stream l: the guards of the actor, read off the
\* stream instead of the actor's memory.
Legal(l, e) ==
  \/ /\ e.kind = "message"
     /\ ReplayState(l) = "open"
     /\ \A i \in MessagesIn(l) : l[i].id # e.id
     /\ e.turn = ReplayTurn(l)
     /\ Strict => e.from = SpeakerAt(e.turn)
  \/ /\ e.kind = "turn"
     /\ ReplayState(l) = "open"
     /\ e.turn = ReplayTurn(l) + 1
     /\ \E i \in MessagesIn(l) : l[i].turn = ReplayTurn(l)
  \/ /\ e.kind = "suspended"
     /\ ReplayState(l) = "open"
     /\ MaxTurns > 0
     /\ ReplayTurn(l) >= MaxTurns
  \/ /\ e.kind = "closed"
     /\ ReplayState(l) # "closed"

-----------------------------------------------------------------------------
(* What holds on top of it while every publish works and nothing crashes.  *)

NothingFails == PublishFaults = {} /\ ~CanCrash

\* Unless the actor stands between a message and the turn after it, nobody has
\* spoken yet in the turn of an open session.
TurnIsFresh ==
  ReplayState(log) = "open" /\ pc # "advance" =>
    \A i \in MessagesIn(log) : log[i].turn < ReplayTurn(log)

\* An open session has turns left, unless it is about to be suspended.
TurnsAreLeft ==
  MaxTurns > 0 =>
    /\ ReplayTurn(log) <= MaxTurns
    /\ ReplayState(log) = "open" /\ pc # "suspend" => ReplayTurn(log) < MaxTurns

QuietInv ==
  /\ up
  /\ TurnIsFresh
  /\ TurnsAreLeft
  /\ OneMessagePerTurn
  /\ AcceptedMovedTheTurn
=============================================================================
