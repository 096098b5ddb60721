------------------------------ MODULE Reasoning ------------------------------
(***************************************************************************)
(* One task of an agent: the reason-act-observe loop of                    *)
(* services/worker/graph.py, the coworker's loop it runs inside a          *)
(* delegate call, and what both share with the gateway and the user: the   *)
(* project's steps, its report, and the files uploaded meanwhile.          *)
(*                                                                         *)
(* There are two frames.  "main" is the loop of the task's agent, which    *)
(* is the ORCHESTRATOR or a WORKER; "co" is _coworker_loop, live while     *)
(* main waits for its delegate call.                                       *)
(*                                                                         *)
(* Simplifications: a model's reply is a text or a batch of calls; what it *)
(* says is left out.  Uploaded files and versions of the graph are         *)
(* counted.  A stream that ends without one event is not modelled.  The    *)
(* deck is left out: a project needs a report, under whatever name.        *)
(***************************************************************************)
EXTENDS Naturals, Sequences, SequencesExt

CONSTANTS
  Limit,       \* _MAX_TOOL_ROUNDS, _MAX_ORCH_ROUNDS
  Slack,       \* what range(limit + 6) allows beyond the limit
  MaxExtra,    \* rounds that _keep_going may add
  KgReads,     \* kg_left after an upload
  DataRounds,  \* rounds in which an answer without data is refused
  NSteps,      \* steps of the project
  Kinds,       \* kinds of agent the task may be for
  MaxBatch,    \* bound: calls in one reply
  MaxUploads,  \* bound: files the user uploads
  HasDeadline  \* whether the task's deadline_ms may pass

ASSUME ReasoningAssumption ==
  /\ Limit \in Nat \ {0} /\ Slack \in Nat /\ MaxExtra \in 0 .. Slack
  /\ KgReads \in Nat /\ DataRounds \in Nat /\ NSteps \in Nat \ {0}
  /\ MaxBatch \in Nat \ {0} /\ MaxUploads \in Nat /\ HasDeadline \in BOOLEAN
  /\ Kinds \subseteq {"ORCHESTRATOR", "WORKER"}

VARIABLES
  kind,      \* held["kind"]
  steps,     \* the gateway's steps of the project
  report,    \* "stored"; "no"; "lost" if the project was closed when it went
  uploads,   \* files uploaded so far
  graph,     \* version of the knowledge graph; 0: no nodes yet
  expired,   \* the deadline has passed
  held,      \* held: the worker's copy of the steps, and asked
  frame,     \* the two loops
  bag,       \* what each loop has seen of the uploads
  outcome,   \* what main's loop ended with
  published  \* the frames of the task, and the episode

env == <<uploads, graph, expired>>
project == <<steps, report>>
rvars == <<kind, steps, report, uploads, graph, expired, held, frame, bag,
           outcome, published>>

Frames == {"main", "co"}
Steps == 1 .. NSteps
StepStates == {"pending", "active", "done", "failed"}
Tools == {"delegate", "advance", "ledger", "plan", "ask_user", "write_report",
          "write_file", "data", "other"}

(* What a toolbox of each frame answers with more than "No tool named". *)
Offered(f) ==
  IF f = "main" /\ kind = "ORCHESTRATOR"
  THEN {"delegate", "advance", "ledger", "plan", "ask_user", "write_report",
        "write_file", "other"}
  ELSE {"data", "advance", "write_file", "other"}

Orch(f) == f = "main" /\ kind = "ORCHESTRATOR"

NewFrame(at) == [at |-> at, round |-> 0, span |-> Limit, tools |-> FALSE,
                 data |-> FALSE, todo |-> <<>>, asked |-> FALSE,
                 closing |-> "no", unread |-> FALSE]
NewBag(n) == [knew |-> n, seen |-> n, text |-> 0, left |-> 0, told |-> FALSE, extra |-> 0]

RInit ==
  /\ kind \in Kinds
  /\ \E i \in Steps : steps = [j \in Steps |-> IF j < i THEN "done"
                                ELSE IF j = i THEN "active" ELSE "pending"]
  /\ report = "no" /\ uploads = 0 /\ graph = 0 /\ expired = FALSE
  /\ held = [steps |-> steps, asked |-> FALSE]
  /\ frame = [f \in Frames |-> NewFrame(IF f = "main" THEN "round" ELSE "off")]
  /\ bag = [f \in Frames |-> NewBag(0)]
  /\ outcome = "none"
  /\ published = [text |-> FALSE, last |-> "none", episode |-> FALSE]

(***************************************************************************)
(* The gateway's half: applyStep, updateStep and deliverablesReady.        *)
(***************************************************************************)
AllDone(s) == \A i \in Steps : s[i] = "done"

ApplyStep(s, i, state) ==
  LET next == [s EXCEPT ![i] = state]
      pending == {j \in Steps : next[j] = "pending"}
  IN IF state # "done" \/ pending = {} \/ \E j \in Steps : next[j] = "active"
     THEN next
     ELSE [next EXCEPT ![CHOOSE j \in pending : \A k \in pending : j <= k] = "active"]

RefusedNever(next) == FALSE
Ready == report = "stored"
Refused(next) == AllDone(next) /\ ~Ready

(***************************************************************************)
(* Uploads.  A look at the project and at the graph may fail; the graph    *)
(* may reach version now while _poll_graph sleeps, which it does once an   *)
(* upload; whether it sleeps or asks once is not told apart.               *)
(***************************************************************************)
Looks == [listed : BOOLEAN, base : BOOLEAN, later : BOOLEAN, now : graph .. uploads]

MayRead(b) == b.left > 0
ToldAgain(b, fresh) == b
ToldOnce(b, fresh) == [b EXCEPT !.told = IF fresh THEN @ ELSE TRUE]

NoteUploads(b, wait, look) ==
  LET fresh == look.listed /\ uploads > b.seen
      met == IF fresh
             THEN [b EXCEPT !.seen = uploads, !.text = IF look.base THEN graph ELSE 0,
                            !.left = KgReads, !.told = FALSE]
             ELSE b
      text == IF look.later THEN look.now ELSE 0
      Result(bag1, note) == [bag |-> bag1, note |-> note]
  IN IF (fresh /\ ~wait) \/ ~MayRead(met) THEN Result(met, fresh)
     ELSE IF text \notin {0, met.text}
       THEN Result([met EXCEPT !.text = text, !.left = 0], TRUE)
     ELSE IF wait
       THEN Result(ToldOnce(met, fresh), fresh \/ ~met.told)
     ELSE Result([met EXCEPT !.left = @ - 1], FALSE)

LeftInBatch(todo) == todo
Answered(todo) == Tail(todo)

Resumed(g) == [g EXCEPT !.at = "tools", !.todo = Answered(@)]

(* The loop ends with out; a coworker's hands its text to main's call. *)
Leave(f, g, out) ==
  IF f = "main"
  THEN /\ frame' = [frame EXCEPT !["main"] = [g EXCEPT !.at = "end"]]
       /\ outcome' = out
  ELSE /\ frame' = [frame EXCEPT !["co"] = [g EXCEPT !.at = "off"],
                                 !["main"] = Resumed(frame["main"])]
       /\ outcome' = outcome

NextRound(f, g) ==
  /\ frame' = [frame EXCEPT ![f] = [g EXCEPT !.at = "round", !.round = @ + 1]]
  /\ outcome' = outcome

MayExtend(b) == b.extra < MaxExtra

SameSpan(g) == g.span
SpanAfterNote(g) == IF g.round + 1 >= g.span THEN g.span + 1 ELSE g.span

(* _keep_going: before an answer ends the loop, a late upload buys a round. *)
KeepGoingOr(f, g, out) ==
  \E look \in Looks :
    LET n == NoteUploads(bag[f], TRUE, look)
    IN IF ~MayExtend(bag[f])
       THEN Leave(f, g, out) /\ UNCHANGED <<bag, graph>>
       ELSE /\ graph' = look.now
            /\ IF n.note
               THEN /\ bag' = [bag EXCEPT ![f] = [n.bag EXCEPT !.extra = @ + 1]]
                    /\ NextRound(f, [g EXCEPT !.unread = TRUE,
                                           !.span = SpanAfterNote(g)])
               ELSE /\ bag' = [bag EXCEPT ![f] = n.bag]
                    /\ Leave(f, g, out)

(***************************************************************************)
(* The loop.                                                               *)
(***************************************************************************)
OrchCanStop == held.asked \/ AllDone(held.steps)

(* The head of a round, up to the model call. *)
BeginRound(f) ==
  LET g == frame[f] IN
  /\ g.at = "round"
  /\ IF g.round >= g.span \/ g.round >= Limit + Slack
     THEN /\ Leave(f, g, IF ~Orch(f) THEN "stopped"
                         ELSE IF OrchCanStop THEN "ready" ELSE "forced")
          /\ UNCHANGED bag
     ELSE IF expired THEN Leave(f, g, "budget") /\ UNCHANGED bag
     ELSE \E look \in Looks :
            LET n == NoteUploads(bag[f], FALSE, look) IN
            /\ look.now = graph
            /\ bag' = [bag EXCEPT ![f] = n.bag]
            /\ frame' = [frame EXCEPT ![f] = [g EXCEPT !.at = "model", !.unread = @ \/ n.note]]
            /\ UNCHANGED outcome
  /\ UNCHANGED <<kind, project, env, held, published>>

(* The deadline stops a stream at its next event; an error ends the loop. *)
ModelStops(f) ==
  /\ frame[f].at \in {"model", "follow", "again"}
  /\ \/ expired /\ Leave(f, frame[f], "budget")
     \/ Leave(f, frame[f], "error")
  /\ UNCHANGED <<kind, project, env, held, bag, published>>

Batches(f) == UNION {[1 .. n -> Offered(f)] : n \in 1 .. MaxBatch}

(* A reply with calls, native or written into the text, or an @mention. *)
ModelCalls(f) ==
  LET g == frame[f] IN
  /\ g.at = "model" /\ ~expired
  /\ \E calls \in Batches(f) :
       frame' = [frame EXCEPT ![f] = [g EXCEPT
         !.at = "tools", !.todo = calls, !.asked = FALSE, !.unread = FALSE,
         !.closing = IF ~Orch(f) /\ g.tools /\ g.round = Limit - 1
                     THEN "closing" ELSE "no",
         !.tools = TRUE]]
  /\ UNCHANGED <<kind, project, env, held, bag, outcome, published>>

(* A reply without calls. *)
Nudged(f) ==
  IF Orch(f) THEN ~OrchCanStop /\ frame[f].round # Limit - 1
             ELSE ~frame[f].data /\ frame[f].round < DataRounds

ModelSpeaks(f) ==
  LET g == [frame[f] EXCEPT !.unread = FALSE] IN
  /\ frame[f].at = "model" /\ ~expired
  /\ IF Nudged(f)
     THEN NextRound(f, g) /\ UNCHANGED <<bag, graph>>
     ELSE KeepGoingOr(f, g, IF Orch(f) /\ ~OrchCanStop THEN "forced" ELSE "reply")
  /\ UNCHANGED <<kind, project, uploads, expired, held, published>>

(***************************************************************************)
(* The tools, one call of the batch at a time.                             *)
(***************************************************************************)
Calling(f, names) ==
  frame[f].at = "tools" /\ frame[f].todo # <<>> /\ Head(frame[f].todo) \in names

CallEnds(f, asked) ==
  LET g == frame[f] IN
  frame' = [frame EXCEPT ![f] = [g EXCEPT !.todo = Tail(@), !.asked = @ \/ asked,
                           !.data = @ \/ (Head(g.todo) = "data" /\ g.closing # "extra")]]

(* advance: the gateway refuses to finish a project without its report;    *)
(* main remembers the steps it answers with, by the name the model used.   *)
Advance(f) ==
  /\ Calling(f, {"advance", "ledger", "plan"})
  /\ \E i \in Steps, state \in StepStates :
       LET next == ApplyStep(steps, i, state) IN
       IF Refused(next)
       THEN UNCHANGED <<steps, held>>
       ELSE /\ steps' = next
            /\ held' = IF f = "main" /\ Head(frame[f].todo) \in {"advance", "plan"}
                       THEN [held EXCEPT !.steps = next] ELSE held
  /\ CallEnds(f, FALSE)
  /\ UNCHANGED <<kind, report, env, bag, outcome, published>>

AskUser ==
  /\ Calling("main", {"ask_user"})
  /\ held' = [held EXCEPT !.asked = TRUE]
  /\ CallEnds("main", TRUE)
  /\ UNCHANGED <<kind, project, env, bag, outcome, published>>

WriteReport ==
  /\ Calling("main", {"write_report"})
  /\ report' = "stored"
  /\ CallEnds("main", FALSE)
  /\ UNCHANGED <<kind, steps, env, held, bag, outcome, published>>

(* A draft is stored at the gateway as well, in the place of what has its  *)
(* name, were it the only report.                                          *)
Closed == AllDone(steps) \/ AllDone(held.steps)
Replaced == IF ~Ready THEN report ELSE IF Closed THEN "lost" ELSE "no"

WriteFile(f) ==
  /\ Calling(f, {"write_file"})
  /\ report' = Replaced
  /\ CallEnds(f, FALSE)
  /\ UNCHANGED <<kind, steps, env, held, bag, outcome, published>>

(* Data tools and the rest, and every call that fails or is refused. *)
OtherCall(f) ==
  /\ Calling(f, Tools)
  /\ CallEnds(f, FALSE)
  /\ UNCHANGED <<kind, project, env, held, bag, outcome, published>>

(* run_coworker reads the project again: its bag knows the files of now. *)
Delegate ==
  /\ Calling("main", {"delegate"})
  /\ frame' = [frame EXCEPT !["main"] = [@ EXCEPT !.at = "wait"], !["co"] = NewFrame("round")]
  /\ bag' = [bag EXCEPT !["co"] = NewBag(uploads)]
  /\ UNCHANGED <<kind, project, env, held, outcome, published>>

(* Every call has its note: an accepted question ends main's loop, the     *)
(* closing round asks once more, other rounds go on.                       *)
EndBatch(f) ==
  LET g == frame[f] IN
  /\ g.at = "tools" /\ g.todo = <<>>
  /\ IF g.asked THEN KeepGoingOr(f, g, "asked")
     ELSE /\ UNCHANGED <<bag, graph>>
          /\ IF f = "main" /\ g.closing # "no"
             THEN /\ frame' = [frame EXCEPT ![f] = [g EXCEPT !.at =
                                 IF g.closing = "closing" THEN "follow" ELSE "again"]]
                  /\ UNCHANGED outcome
             ELSE NextRound(f, g)
  /\ UNCHANGED <<kind, project, uploads, expired, held, published>>

(* The closing round: one more sentence, and one more after any calls. *)
FollowUp ==
  LET g == frame["main"] IN
  /\ g.at \in {"follow", "again"} /\ ~expired
  /\ \/ /\ g.at = "follow"
        /\ \E calls \in Batches("main") :
             frame' = [frame EXCEPT !["main"] =
                         [g EXCEPT !.at = "tools", !.todo = calls, !.closing = "extra"]]
        /\ UNCHANGED <<bag, graph, outcome>>
     \/ KeepGoingOr("main", [g EXCEPT !.unread = FALSE], "reply")
  /\ UNCHANGED <<kind, project, uploads, expired, held, published>>

(* The chunks of the text, finalize's last frame, and the runner's episode. *)
Finalize ==
  LET failed == outcome \in {"budget", "error"} IN
  /\ frame["main"].at = "end" /\ published.last = "none"
  /\ published' = [text |-> ~failed, last |-> IF failed THEN "error" ELSE "usage",
                   episode |-> ~failed]
  /\ UNCHANGED <<kind, project, env, held, frame, bag, outcome>>

Upload ==
  /\ uploads < MaxUploads /\ frame["main"].at # "end"
  /\ uploads' = uploads + 1
  /\ UNCHANGED <<kind, project, graph, expired, held, frame, bag, outcome, published>>

Extract ==
  /\ graph < uploads /\ graph' = graph + 1
  /\ UNCHANGED <<kind, project, uploads, expired, held, frame, bag, outcome, published>>

Expire ==
  /\ HasDeadline /\ ~expired /\ frame["main"].at # "end"
  /\ expired' = TRUE
  /\ UNCHANGED <<kind, project, uploads, graph, held, frame, bag, outcome, published>>

Loop(f) ==
  \/ BeginRound(f) \/ ModelStops(f) \/ ModelCalls(f) \/ ModelSpeaks(f)
  \/ Advance(f) \/ WriteFile(f) \/ OtherCall(f) \/ EndBatch(f)

Run == Loop("main") \/ Loop("co") \/ AskUser \/ WriteReport \/ Delegate
       \/ FollowUp \/ Finalize

RDone == published.last # "none" /\ UNCHANGED rvars

RNext == Run \/ Upload \/ Extract \/ Expire \/ RDone

RSpec == RInit /\ [][RNext]_rvars

(* The worker's coroutine keeps running: every call it awaits has a timeout. *)
RFairSpec == RSpec /\ WF_rvars(Run)

(***************************************************************************)
(* Properties.                                                             *)
(***************************************************************************)

(* The types of the two loops and of what they share. *)
FrameType ==
  [at : {"off", "round", "model", "tools", "wait", "follow", "again", "end"},
   round : Nat, span : Nat, tools : BOOLEAN, data : BOOLEAN, todo : Seq(Tools),
   asked : BOOLEAN, closing : {"no", "closing", "extra"}, unread : BOOLEAN]
BagType == [knew : Nat, seen : Nat, text : Nat, left : Nat, told : BOOLEAN, extra : Nat]
Outcomes == {"none", "reply", "asked", "forced", "ready", "stopped", "budget", "error"}

ReasoningTypeOK ==
  /\ kind \in {"ORCHESTRATOR", "WORKER"}
  /\ steps \in [Steps -> StepStates] /\ report \in {"no", "stored", "lost"}
  /\ uploads \in Nat /\ graph \in 0 .. uploads /\ expired \in BOOLEAN
  /\ held \in [steps : [Steps -> StepStates], asked : BOOLEAN]
  /\ frame \in [Frames -> FrameType] /\ bag \in [Frames -> BagType]
  /\ outcome \in Outcomes
  /\ published \in [text : BOOLEAN, last : {"none", "usage", "error"},
                    episode : BOOLEAN]

(* The note of an uploaded file, and of the graph it changed, is always    *)
(* read by one more model call before the loop ends with an answer: the    *)
(* span moves when the note comes in the last round.                       *)
Answers == {"reply", "asked", "forced", "ready", "stopped"}
EveryNoteIsRead == outcome \in Answers => ~frame["main"].unread

(* Rounds beyond the limit are paid for by uploads.  Each of them follows  *)
(* a note that _keep_going found; there are no more than its bound, and    *)
(* range(limit + 6) never cuts the loop short; and a loop finds at most    *)
(* three such notes for a file it did not begin with: that it is there,    *)
(* that the graph has nothing new yet, and what the graph has of it.       *)
RoundsArePaidFor ==
  \A f \in Frames :
    /\ frame[f].round <= Limit + bag[f].extra
    /\ frame[f].span <= Limit + bag[f].extra /\ bag[f].extra <= MaxExtra
    /\ bag[f].extra <= 3 * (bag[f].seen - bag[f].knew)

(* At most limit rounds of tools (contracts.md:120, cited at graph.py:60). *)
ToolsWithinTheLimit == \A f \in Frames : frame[f].at = "tools" => frame[f].round < Limit

(* A lead that ends its turn on a plain reply without a question has seen  *)
(* every step done, and then the gateway has held the report: no           *)
(* interleaving of coworkers, refusals and drafts lets a project close     *)
(* without it, and if it has gone, a draft took its place after that.      *)
ClosedProjectHasItsReport ==
  /\ Closed => report # "no"
  /\ outcome \in {"reply", "ready"} /\ kind = "ORCHESTRATOR" /\ ~held.asked => report # "no"

(* A lead's turn ends, if it did not ask, with its report stored           *)
(* (rules/work.md:7).                                                      *)
FinishedTurnHasItsReport ==
  outcome \in {"reply", "ready"} /\ kind = "ORCHESTRATOR" /\ ~held.asked => Ready

(* Every task ends with its last frame, whatever the coworkers, the        *)
(* uploads and the refusals in between.                                    *)
TurnEnds == <>(published.last # "none")

(* The question the loop makes up names a step that is still open. *)
ForcedAskNamesAnOpenStep == outcome = "forced" => ~AllDone(steps)

(* A plain reply does not finish the turn of an open project. *)
PlainReplyMeansDone ==
  outcome = "reply" /\ kind = "ORCHESTRATOR" => AllDone(held.steps)
==============================================================================
