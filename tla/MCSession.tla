----------------------------- MODULE MCSession -----------------------------
(***************************************************************************)
(* Session for TLC: the two participants, and a bound on the stream.       *)
(***************************************************************************)
EXTENDS Session

CONSTANTS user, agent
MCParticipants == <<user, agent>>

\* Bound of the runs in which a failed publish may have been stored.
ShortLog == Len(log) <= 6
=============================================================================
