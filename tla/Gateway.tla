------------------------------ MODULE Gateway ------------------------------
(***************************************************************************)
(* The gateway's requests that open sessions and wait for agents: messages *)
(* of the user (postMessage), delegations (delegate) and the deletion of   *)
(* the project they belong to (deleteProject, Manager.ForgetSwarm).        *)
(*                                                                         *)
(* Each request is a goroutine; what it keeps in the server's tables is    *)
(* under s.mu, and calls to the session manager are not, except those of   *)
(* deleteProject.  The dispatcher and the workers are in it as far as a    *)
(* request can tell: a message is triggered for whose turn it is, and a    *)
(* run of the task ends with a reply or without one.                       *)
(*                                                                         *)
(* Simplifications: one project; sessions without faults, whose turn is    *)
(* the number of their messages (all are STRICT and without max_turns).    *)
(* CancelTask only makes a run end without a reply, which it may anyway.   *)
(***************************************************************************)
EXTENDS Naturals, Sequences

CONSTANTS
  User, Lead,
  Posts,        \* keys of chats a user writes in: <<chat, agent>>
  Delegations,  \* keys of spoke sessions: <<"spoke", from, coworker>>
  Clients,      \* bound: requests at a time
  MaxSessions,  \* bound: sessions opened
  MaxSaid,      \* bound: messages of all sessions
  MaxDeletes,   \* bound: deletions tried
  MaxErrors     \* bound: sessions that could not be read

Home == <<Lead, Lead>>  \* the chat that announcePlan opens
Keys == Posts \cup Delegations

ASSUME GatewayAssumption ==
  /\ Home \in Posts /\ \A k \in Posts : Len(k) = 2 /\ k[2] # User
  /\ \A k \in Delegations : k[1] = "spoke" /\ Len(k) = 3 /\ k[2] # k[3]
  /\ MaxSessions \in Nat \ {0} /\ MaxSaid \in Nat \ {0} /\ MaxDeletes \in Nat
  /\ MaxErrors \in Nat

VARIABLES
  exists,      \* the project is in s.projects
  keys,        \* s.sessions: key -> session; 0: no such key
  flights,     \* s.inflight: coworkers with a delegation in flight
  deletes,     \* deletions tried
  errors,      \* sessions that could not be read
  forgetting,  \* sessions of the deletion at hand, which holds s.mu
  sessions,    \* the sessions opened: key, people, actor, log
  news,        \* messages the dispatcher has still to look at
  hand,        \* the message it looks at, with the next speaker it read
  jobs,        \* tasks published and not ended
  client       \* where each request is, and the reply it was given

project == <<exists, forgetting, deletes, errors>>
server == <<project, keys, flights>>
work == <<news, hand, jobs>>
gvars == <<server, sessions, work, client>>

Nothing == [session |-> 0]
NotDeleting == {0}
Unlocked == forgetting = NotDeleting
Idle == [at |-> "idle", key |-> <<>>, session |-> 0, asked |-> 0, reply |-> 0]

IsSpoke(key) == key \in Delegations
Asker(key) == IF IsSpoke(key) THEN key[2] ELSE User
Asked(key) == IF IsSpoke(key) THEN key[3] ELSE key[2]

(* An actor is live, mute (dropped: it answers, and appends nothing), or   *)
(* gone from the manager and the stream.                                   *)
NewSession(key, people) ==
  [key |-> key, people |-> people, actor |-> "live", log |-> <<>>]
Answers(s) == sessions[s].actor # "gone"
ExpectedSpeaker(s) == s.people[(Len(s.log) % 2) + 1]
Message(from, to, seen) == [from |-> from, replyTo |-> to, seen |-> seen]
Said == LET n[i \in 0 .. Len(sessions)] ==
              IF i = 0 THEN 0 ELSE n[i - 1] + Len(sessions[i].log)
        IN n[Len(sessions)]

(* createProject and announcePlan: the lead speaks first. *)
GInit ==
  /\ exists = TRUE /\ flights = {} /\ forgetting = NotDeleting /\ deletes = 0 /\ errors = 0
  /\ keys = [k \in Keys |-> IF k = Home THEN 1 ELSE 0]
  /\ sessions = <<[NewSession(Home, <<Lead, User>>) EXCEPT !.log = <<Message(Lead, 0, 0)>>]>>
  /\ news = <<[session |-> 1, n |-> 1]>> /\ hand = Nothing /\ jobs = {}
  /\ client = [c \in Clients |-> Idle]

(***************************************************************************)
(* A request.                                                              *)
(***************************************************************************)
Goes(c, at) == client' = [client EXCEPT ![c] = [@ EXCEPT !.at = at]]

(* The deferred release of s.inflight comes with the end of the request. *)
Ends(c) ==
  /\ client' = [client EXCEPT ![c] = Idle]
  /\ flights' = IF IsSpoke(client[c].key) THEN flights \ {Asked(client[c].key)} ELSE flights

(* sendTarget, and what delegate reads of the project. *)
Request(c, key) ==
  /\ client[c].at = "idle" /\ Unlocked /\ exists
  /\ client' = [client EXCEPT ![c] = [Idle EXCEPT !.key = key,
                                        !.at = IF IsSpoke(key) THEN "reserve" ELSE "lookup"]]
  /\ UNCHANGED <<server, sessions, work>>

NeverBusy(coworker) == FALSE
Busy(coworker) == coworker \in flights

Reserve(c) ==
  LET coworker == Asked(client[c].key) IN
  /\ client[c].at = "reserve" /\ Unlocked
  /\ IF Busy(coworker)
     THEN client' = [client EXCEPT ![c] = Idle] /\ UNCHANGED flights
     ELSE Goes(c, "lookup") /\ flights' = flights \cup {coworker}
  /\ UNCHANGED <<project, keys, sessions, work>>

(* ensureSession takes the key's session as it is, spokeSession only if it *)
(* can read it and it is open.  Nobody closes such a session; after a crash*)
(* of its actor or of the process, a read replays it, and may fail.        *)
LookUp(c) ==
  LET s == keys[client[c].key] IN
  /\ client[c].at = "lookup" /\ Unlocked
  /\ \/ /\ s # 0 /\ (IsSpoke(client[c].key) => Answers(s))
        /\ client' = [client EXCEPT ![c] = [@ EXCEPT !.at = "append", !.session = s]]
        /\ UNCHANGED errors
     \/ s = 0 /\ Goes(c, "open") /\ UNCHANGED errors
     \/ s # 0 /\ ~Answers(s) /\ IsSpoke(client[c].key) /\ Goes(c, "open") /\ UNCHANGED errors
     \/ /\ s # 0 /\ IsSpoke(client[c].key) /\ errors < MaxErrors
        /\ errors' = errors + 1 /\ Goes(c, "open")
  /\ UNCHANGED <<exists, forgetting, deletes, keys, flights, sessions, work>>

OpenSession(c) ==
  LET key == client[c].key IN
  /\ client[c].at = "open" /\ Len(sessions) < MaxSessions
  /\ sessions' = Append(sessions, NewSession(key, <<Asker(key), Asked(key)>>))
  /\ client' = [client EXCEPT ![c] = [@ EXCEPT !.at = "store", !.session = Len(sessions) + 1]]
  /\ UNCHANGED <<server, work>>

(* A save that fails ends the request; the table keeps the session. *)
StoreKey(c) ==
  /\ client[c].at = "store" /\ Unlocked
  /\ keys' = [keys EXCEPT ![client[c].key] = client[c].session]
  /\ (Goes(c, "append") /\ UNCHANGED flights) \/ Ends(c)
  /\ UNCHANGED <<project, sessions, work>>

(* Manager.AppendMessage: refused out of turn and where there is no actor. *)
Append1(s, m) ==
  /\ sessions' = [sessions EXCEPT ![s] = [sessions[s] EXCEPT !.log = Append(sessions[s].log, m)]]
  /\ news' = Append(news, [session |-> s, n |-> Len(sessions[s].log) + 1])

AppendMessage(c) ==
  LET s == client[c].session
      n == Len(sessions[s].log) + 1
      from == Asker(client[c].key)
  IN /\ client[c].at = "append" /\ Said < MaxSaid
     /\ IF sessions[s].actor = "live" /\ ExpectedSpeaker(sessions[s]) = from
        THEN /\ Append1(s, Message(from, 0, 0))
             /\ client' = [client EXCEPT ![c] = [@ EXCEPT !.at = "wait", !.asked = n]]
             /\ UNCHANGED flights
        ELSE Ends(c) /\ UNCHANGED <<sessions, news>>
     /\ UNCHANGED <<project, keys, hand, jobs>>

(* waitReplyFor. *)
AnyReply(m, n) == m.from # User
IsReply(m, n) == m.replyTo = n /\ m.from # User

WaitReply(c) ==
  LET s == client[c].session
      n == client[c].asked
      replies == {i \in DOMAIN sessions[s].log : IsReply(sessions[s].log[i], n)}
  IN /\ client[c].at = "wait" /\ Answers(s)
     /\ \E i \in replies :
          /\ \A j \in replies : i <= j
          /\ client' = [client EXCEPT ![c] = [@ EXCEPT !.at = "answered", !.reply = i]]
     /\ UNCHANGED <<server, sessions, work>>

(* The answer is written, or the time limit is reached, the session gone,  *)
(* the caller has hung up.                                                 *)
Respond(c) ==
  /\ client[c].at \in {"open", "wait", "answered"} /\ Ends(c)
  /\ UNCHANGED <<project, keys, sessions, work>>

(***************************************************************************)
(* deleteProject holds s.mu while the manager drops, one by one, the       *)
(* actors it found; then they and their events are gone.  It fails when    *)
(* its caller hangs up in between, or when a stream is not to be had after *)
(* that: the project and its keys stay.  (A purge that fails leaves the    *)
(* sessions as they were: replay brings them back.)                        *)
(***************************************************************************)
DeleteProject ==
  /\ exists /\ Unlocked /\ deletes < MaxDeletes /\ deletes' = deletes + 1
  /\ forgetting' = {s \in DOMAIN sessions : Answers(s)}
  /\ UNCHANGED <<exists, errors, keys, flights, sessions, work, client>>

Becomes(found, state) ==
  sessions' = [s \in DOMAIN sessions |->
                 IF s \in found THEN [sessions[s] EXCEPT !.actor = state] ELSE sessions[s]]

Drop(s) ==
  /\ ~Unlocked /\ s \in forgetting /\ sessions[s].actor = "live"
  /\ Becomes({s}, "mute")
  /\ UNCHANGED <<server, work, client>>

DeleteFails ==
  /\ ~Unlocked /\ forgetting' = NotDeleting
  /\ \/ UNCHANGED sessions
     \/ Becomes(forgetting, "live") \/ Becomes(forgetting, "gone")
  /\ UNCHANGED <<exists, deletes, errors, keys, flights, work, client>>

Forgotten ==
  /\ ~Unlocked /\ \A s \in forgetting : sessions[s].actor = "mute"
  /\ forgetting' = NotDeleting /\ Becomes(forgetting, "gone")
  /\ exists' = FALSE /\ keys' = [k \in Keys |-> 0]
  /\ news' \in {news, <<>>} /\ jobs' \in {jobs, {}}
  /\ UNCHANGED <<deletes, errors, flights, hand, client>>

(***************************************************************************)
(* The dispatcher and the workers.                                         *)
(***************************************************************************)
TriggerRead ==
  /\ hand = Nothing /\ news # <<>>
  /\ LET s == sessions[Head(news).session] IN
     hand' = IF Answers(Head(news).session) /\ ExpectedSpeaker(s) # User
             THEN [session |-> Head(news).session, n |-> Head(news).n,
                   agent |-> ExpectedSpeaker(s), seen |-> Len(s.log)]
             ELSE Nothing
  /\ news' = Tail(news)
  /\ UNCHANGED <<server, sessions, jobs, client>>

(* The caller of a spoke session waits in its request. *)
SkipSpokeCaller(s, a) == \E k \in Delegations : keys[k] = s /\ k[2] = a

TriggerEnqueue ==
  /\ hand # Nothing /\ Unlocked
  /\ jobs' = IF SkipSpokeCaller(hand.session, hand.agent) THEN jobs ELSE jobs \cup {hand}
  /\ hand' = Nothing
  /\ UNCHANGED <<server, sessions, news, client>>

(* A run that failed, ran out of its budget or was cancelled says nothing. *)
RunEnds(j) ==
  LET s == sessions[j.session] IN
  /\ jobs' = jobs \ {j} /\ Said < MaxSaid
  /\ \/ s.actor = "live" /\ ExpectedSpeaker(s) = j.agent /\ Append1(j.session, Message(j.agent, j.n, j.seen))
     \/ UNCHANGED <<sessions, news>>
  /\ UNCHANGED <<server, hand, client>>

Serve(c) ==
  \/ \E k \in Keys : Request(c, k)
  \/ Reserve(c) \/ LookUp(c) \/ OpenSession(c) \/ StoreKey(c) \/ AppendMessage(c)
  \/ WaitReply(c) \/ Respond(c)

GNext ==
  \/ \E c \in Clients : Serve(c)
  \/ DeleteProject \/ (\E s \in forgetting : Drop(s)) \/ DeleteFails \/ Forgotten
  \/ TriggerRead \/ TriggerEnqueue \/ \E j \in jobs : RunEnds(j)

GSpec == GInit /\ [][GNext]_gvars

(***************************************************************************)
(* Properties.                                                             *)
(***************************************************************************)

(* What a request is given was said by the agent it asked, in the session  *)
(* opened for its chat or its pair, by a run that had the question before  *)
(* it; and nobody else is given the same reply.  So it stays when requests *)
(* time out, their answers come late, and the next ones wait in the same   *)
(* session, or two requests open two sessions for one chat.                *)
AnswersHaveSeenTheirQuestion ==
  \A c \in Clients : client[c].at = "answered" =>
    LET g == client[c]
        s == sessions[g.session]
        m == s.log[g.reply]
    IN /\ s.key = g.key /\ m.from = Asked(g.key)
       /\ s.log[g.asked].from = Asker(g.key) /\ m.seen >= g.asked
       /\ \A d \in Clients \ {c} : client[d].at = "answered" =>
            <<client[d].session, client[d].reply>> # <<g.session, g.reply>>

(* The reply of a coworker gives the turn back to the caller, who is still *)
(* in its own task.  No task is published for it while the session is      *)
(* there and its pair's, whatever requests time out and open sessions in   *)
(* between; and a pair leaves a session only after it could not be read.   *)
Woken(j) ==
  LET s == sessions[j.session]
  IN s.actor # "gone" /\ IsSpoke(s.key) /\ j.agent = Asker(s.key)
CallersAreNotWoken ==
  \A j \in jobs : Woken(j) => errors # 0 /\ keys[sessions[j.session].key] # j.session

(* "The turn goes back to the caller, who is still in the HTTP request of  *)
(* delegate; queued again, both would run" (SkipSpokeCaller): a caller     *)
(* with a request for its coworker under way has no task of a session of   *)
(* the two.  It does not hold of a session that was left: the coworker     *)
(* answers there late, and the caller's task is queued.                    *)
WaitingCallersAreNotQueued ==
  \A j \in jobs : \A c \in Clients :
    Woken(j) => client[c].at = "idle" \/ client[c].key # sessions[j.session].key

(* "The only session of a chat": two requests may open two. *)
OneSessionPerChat ==
  \A r, s \in DOMAIN sessions : sessions[r].actor = "live" /\ sessions[s].actor = "live"
                                /\ sessions[r].key = sessions[s].key => r = s
=============================================================================
