---------------------------- MODULE TaskService ----------------------------
(***************************************************************************)
(* What the task queue and its workers promise the dispatcher: at-least-   *)
(* once.  A run ends only for a job that was sent, and a job leaves the    *)
(* queue only after some run with its task id has ended.  Worker is shown  *)
(* to implement it, and TurnLoop relies on nothing more.                   *)
(***************************************************************************)
CONSTANT Jobs   \* records with a field id, the task id

VARIABLES
  sent,    \* the jobs ever published to the queue
  queue,   \* those the queue still keeps
  ended    \* the task ids some run has ended for

svars == <<sent, queue, ended>>

SInit == sent = {} /\ queue = {} /\ ended = {}

Send(j) ==
  /\ sent' = sent \union {j}
  /\ queue' = queue \union {j}
  /\ UNCHANGED ended

\* A run ends.  It may be the second one of its task, and its job may have
\* left the queue already; a cancelled one takes its job along.
End(j) ==
  /\ j \in sent
  /\ ended' = ended \union {j.id}
  /\ queue' \in {queue, queue \ {j}}
  /\ UNCHANGED sent

Settle(j) ==
  /\ j \in queue
  /\ j.id \in ended
  /\ queue' = queue \ {j}
  /\ UNCHANGED <<sent, ended>>

SNext == \E j \in Jobs : Send(j) \/ End(j) \/ Settle(j)

SSpec == SInit /\ [][SNext]_svars
=============================================================================
