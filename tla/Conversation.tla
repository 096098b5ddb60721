---------------------------- MODULE Conversation ----------------------------
(***************************************************************************)
(* What a session promises to everyone who reads its stream, with no actor *)
(* and no bus: two participants speak in turns, a message is said once,    *)
(* the turn moves only past a turn somebody spoke in, and the conversation *)
(* goes from open to suspended to closed and never back.  Session is shown *)
(* to implement it.                                                        *)
(***************************************************************************)
EXTENDS Naturals

CONSTANTS Ids, Participants, Strict, MaxTurns

VARIABLES
  phase,   \* "open", "suspended" or "closed"
  turn,    \* the number of turns taken
  said     \* the messages: [id, from, turn]

cvars == <<phase, turn, said>>

Speakers == {Participants[1], Participants[2]}
Owner(t) == Participants[(t % 2) + 1]

CInit ==
  /\ phase = "open"
  /\ turn = 0
  /\ said = {}

\* A participant says something new; under STRICT only on its own turn.
Say(id, p) ==
  /\ phase = "open"
  /\ \A m \in said : m.id # id
  /\ Strict => p = Owner(turn)
  /\ said' = said \union {[id |-> id, from |-> p, turn |-> turn]}
  /\ UNCHANGED <<phase, turn>>

\* The turn passes on once somebody has spoken in it.
Pass ==
  /\ phase = "open"
  /\ \E m \in said : m.turn = turn
  /\ turn' = turn + 1
  /\ UNCHANGED <<phase, said>>

\* The turns are used up.
RunOut ==
  /\ phase = "open"
  /\ MaxTurns > 0
  /\ turn >= MaxTurns
  /\ phase' = "suspended"
  /\ UNCHANGED <<turn, said>>

End ==
  /\ phase # "closed"
  /\ phase' = "closed"
  /\ UNCHANGED <<turn, said>>

CNext ==
  \/ \E id \in Ids, p \in Speakers : Say(id, p)
  \/ Pass
  \/ RunOut
  \/ End

CSpec == CInit /\ [][CNext]_cvars

-----------------------------------------------------------------------------
\* The type invariant of the conversation.
ConversationOK ==
  /\ phase \in {"open", "suspended", "closed"}
  /\ turn \in Nat
  /\ said \subseteq [id : Ids, from : Speakers, turn : Nat]

\* Every turn taken so far was spoken in, no turn ahead of the current one
\* was, and under STRICT only by the participant that owned it.
TurnsAreSpoken ==
  /\ \A t \in 0 .. (turn - 1) : \E m \in said : m.turn = t
  /\ \A m \in said : m.turn <= turn /\ (Strict => m.from = Owner(m.turn))

\* A message id stands for one message.
IdsAreUnique == \A m, n \in said : m.id = n.id => m = n
=============================================================================
