----------------------------- MODULE MCTurnLoop -----------------------------
(* TurnLoop for TLC: a chat of a user and an agent, and a relay of two.    *)
EXTENDS TurnLoop

CONSTANTS user, agent, ideator, reviewer
Chat == <<user, agent>>
Relay == <<ideator, reviewer>>
MCIds == UserIds \union {ReplyId(i) : i \in 1 .. MaxLog}
=============================================================================
