------------------------------- MODULE Worker -------------------------------
(***************************************************************************)
(* The TASKS work queue and one worker process consuming it                *)
(* (services/worker/consumer.py, runner.py).                               *)
(*                                                                         *)
(* The worker is one asyncio loop: it fetches a batch, and starts a        *)
(* handler for each message of the batch when the semaphore lets it.  A    *)
(* step of this module is what runs between two awaits.  A job is a        *)
(* message of the stream, one publish of a task: [id, copy].               *)
(*                                                                         *)
(* Simplifications: what a run computes is left out; a run ends by         *)
(* publishing a result, by an exception, or cancelled.  Messages the       *)
(* worker cannot parse are acked and change nothing else.  A batch is a    *)
(* set: the order in which its messages start is free.                     *)
(***************************************************************************)
EXTENDS Naturals, FiniteSets

CONSTANTS
  TaskIds,       \* the task ids
  MaxCopies,     \* bound: publishes of a task id (a dispatcher retries)
  Concurrency,   \* WORKER_CONCURRENCY
  MaxRaises,     \* bound: runs that fail before their result is published
  MaxCrashes,    \* bound: crashes of the process
  CanExpire,     \* whether the server's ack_wait may run out
  CanCancel      \* whether somebody cancels tasks

ASSUME BoundsAssumption ==
  /\ MaxCopies \in [TaskIds -> Nat \ {0}] /\ Concurrency \in Nat \ {0}
  /\ MaxRaises \in Nat /\ MaxCrashes \in Nat
  /\ CanExpire \in BOOLEAN /\ CanCancel \in BOOLEAN

VARIABLES
  sent,      \* the jobs ever published
  queue,     \* the jobs not acked: the work-queue stream
  out,       \* jobs delivered and not redelivered before ack_wait runs out
  batch,     \* jobs fetched that wait for the semaphore
  slots,     \* the handlers: Idle, or the job and how far it is
  running,   \* _running: task id -> the handler on_cancel would cancel
  seen,      \* _seen
  runs,      \* task id -> the runs this process has begun for it
  results,   \* task id -> the number of results published
  ended,     \* task ids some run has ended for, by a result or cancelled
  raises, crashes

wvars == <<sent, queue, out, batch, slots, running, seen, runs, results, ended,
           raises, crashes>>

Jobs == UNION {[id : {t}, copy : 1 .. MaxCopies[t]] : t \in TaskIds}
Slots == 1 .. Concurrency
Idle == [step |-> "idle"]
NoHandler == 0

Handles(s, j) == slots[s] # Idle /\ slots[s].job = j
Runs(s, t) == slots[s].step = "running" /\ slots[s].job.id = t

WInit ==
  /\ sent = {} /\ queue = {} /\ out = {} /\ batch = {}
  /\ slots = [s \in Slots |-> Idle]
  /\ running = [t \in TaskIds |-> NoHandler]
  /\ seen = {}
  /\ runs = [t \in TaskIds |-> 0]
  /\ results = [t \in TaskIds |-> 0]
  /\ ended = {}
  /\ raises = 0 /\ crashes = 0

-----------------------------------------------------------------------------
\* The dispatcher publishes a task, perhaps not for the first time.
Enqueue(j) ==
  /\ j \notin sent
  /\ \A k \in 1 .. (j.copy - 1) : [id |-> j.id, copy |-> k] \in sent
  /\ sent' = sent \union {j}
  /\ queue' = queue \union {j}
  /\ UNCHANGED <<out, batch, slots, running, seen, runs, results, ended, raises, crashes>>

\* _loop fetches, up to as many messages as it has handlers, once every
\* message of the batch before has been started.
Fetch(b) ==
  /\ batch = {}
  /\ b # {}
  /\ b \subseteq queue \ out
  /\ Cardinality(b) <= Concurrency
  /\ batch' = b
  /\ out' = out \union b
  /\ UNCHANGED <<sent, queue, slots, running, seen, runs, results, ended, raises, crashes>>

\* Mutant: a duplicate or finished job is nacked.
AckAsNak(j) == queue' = queue /\ out' = out \ {j}

Ack(j) == queue' = queue \ {j} /\ out' = out \ {j}

\* Mutant: the ack comes before the run.
StartAcked(j, s) ==
  /\ j \in batch
  /\ slots[s] = Idle
  /\ batch' = batch \ {j}
  /\ Ack(j)
  /\ IF j.id \in seen
       THEN UNCHANGED <<slots, running, runs>>
       ELSE /\ slots' = [slots EXCEPT ![s] = [step |-> "running", job |-> j]]
            /\ running' = [running EXCEPT ![j.id] = s]
            /\ runs' = [runs EXCEPT ![j.id] = @ + 1]
  /\ UNCHANGED <<sent, seen, results, ended, raises, crashes>>

\* Mutant: the handler is not registered for cancellation.
StartUnregistered(j, s) ==
  /\ j \in batch
  /\ slots[s] = Idle
  /\ batch' = batch \ {j}
  /\ IF j.id \in seen
       THEN Ack(j) /\ UNCHANGED <<slots, runs>>
       ELSE /\ slots' = [slots EXCEPT ![s] = [step |-> "running", job |-> j]]
            /\ runs' = [runs EXCEPT ![j.id] = @ + 1]
            /\ UNCHANGED <<queue, out>>
  /\ UNCHANGED <<sent, running, seen, results, ended, raises, crashes>>

\* _handle up to its run.  A task id in _seen is acked and not run.
Start(j, s) ==
  /\ j \in batch
  /\ slots[s] = Idle
  /\ batch' = batch \ {j}
  /\ IF j.id \in seen
       THEN Ack(j) /\ UNCHANGED <<slots, running, runs>>
       ELSE /\ slots' = [slots EXCEPT ![s] = [step |-> "running", job |-> j]]
            /\ running' = [running EXCEPT ![j.id] = s]
            /\ runs' = [runs EXCEPT ![j.id] = @ + 1]
            /\ UNCHANGED <<queue, out>>
  /\ UNCHANGED <<sent, seen, results, ended, raises, crashes>>

\* What every way out of the run does: drop the task from _running, whichever
\* handler is registered there.
Unregister(s) == running' = [running EXCEPT ![slots[s].job.id] = NoHandler]

\* runner.run returns: the result is published.
Return(s) ==
  /\ slots[s].step = "running"
  /\ LET t == slots[s].job.id IN
       /\ results' = [results EXCEPT ![t] = @ + 1]
       /\ ended' = ended \union {t}
  /\ slots' = [slots EXCEPT ![s].step = "settling"]
  /\ Unregister(s)
  /\ UNCHANGED <<sent, queue, out, batch, seen, runs, raises, crashes>>

\* Mutant: the task id is not remembered.
FinishForgotten(s) ==
  /\ slots[s].step = "settling"
  /\ Ack(slots[s].job)
  /\ slots' = [slots EXCEPT ![s] = Idle]
  /\ UNCHANGED <<sent, batch, running, seen, runs, results, ended, raises, crashes>>

\* _handle after its run: _seen, then the ack.
Finish(s) ==
  /\ slots[s].step = "settling"
  /\ seen' = seen \union {slots[s].job.id}
  /\ Ack(slots[s].job)
  /\ slots' = [slots EXCEPT ![s] = Idle]
  /\ UNCHANGED <<sent, batch, running, runs, results, ended, raises, crashes>>

\* Mutant: a run that raises is acked.
RaiseAcked(s) ==
  /\ raises < MaxRaises
  /\ slots[s].step = "running"
  /\ raises' = raises + 1
  /\ Ack(slots[s].job)
  /\ Unregister(s)
  /\ slots' = [slots EXCEPT ![s] = Idle]
  /\ UNCHANGED <<sent, batch, seen, runs, results, ended, crashes>>

\* The run raises before its result is out: nak, the server redelivers.
Raise(s) ==
  /\ raises < MaxRaises
  /\ slots[s].step = "running"
  /\ raises' = raises + 1
  /\ out' = out \ {slots[s].job}
  /\ Unregister(s)
  /\ slots' = [slots EXCEPT ![s] = Idle]
  /\ UNCHANGED <<sent, queue, batch, seen, runs, results, ended, crashes>>

\* _on_cancel and the CancelledError it makes _handle see: acked, no result.
Cancel(t) ==
  /\ CanCancel
  /\ running[t] # NoHandler
  /\ LET s == running[t] IN
       /\ Ack(slots[s].job)
       /\ ended' = ended \union {t}
       /\ Unregister(s)
       /\ slots' = [slots EXCEPT ![s] = Idle]
  /\ UNCHANGED <<sent, batch, seen, runs, results, raises, crashes>>

\* ack_wait runs out at the server.  Handlers send in_progress for their job;
\* nobody does for a job that waits in the batch or died with a process.
Expire(j) ==
  /\ CanExpire
  /\ j \in out
  /\ \A s \in Slots : ~Handles(s, j)
  /\ out' = out \ {j}
  /\ UNCHANGED <<sent, queue, batch, slots, running, seen, runs, results, ended, raises, crashes>>

\* The process dies and a new one starts: its memory is empty.
Crash ==
  /\ crashes < MaxCrashes
  /\ crashes' = crashes + 1
  /\ batch' = {}
  /\ slots' = [s \in Slots |-> Idle]
  /\ running' = [t \in TaskIds |-> NoHandler]
  /\ seen' = {}
  /\ runs' = [t \in TaskIds |-> 0]
  /\ UNCHANGED <<sent, queue, out, results, ended, raises>>

Handler(s) == (\E j \in Jobs : Start(j, s)) \/ Return(s) \/ Finish(s)

WNext ==
  \/ \E j \in Jobs : Enqueue(j) \/ Expire(j)
  \/ \E b \in SUBSET queue : Fetch(b)
  \/ \E s \in Slots : Handler(s) \/ Raise(s)
  \/ \E t \in TaskIds : Cancel(t)
  \/ Crash

WSpec == WInit /\ [][WNext]_wvars

\* The event loop runs what is ready, a run ends (its deadline and its cap of
\* tool rounds see to that), and the server's timer fires.
WFairness ==
  /\ WF_wvars(\E b \in SUBSET queue : Fetch(b))
  /\ WF_wvars(\E j \in Jobs : Expire(j))
  /\ \A s \in Slots : WF_wvars(Handler(s))

WFairSpec == WSpec /\ WFairness

-----------------------------------------------------------------------------
(* Properties.                                                             *)

\* The type invariant.
WorkerTypeOK ==
  /\ sent \subseteq Jobs /\ queue \subseteq sent /\ out \subseteq sent
  /\ batch \subseteq sent
  /\ slots \in [Slots -> {Idle} \union [step : {"running", "settling"}, job : Jobs]]
  /\ running \in [TaskIds -> {NoHandler} \union Slots]
  /\ seen \subseteq TaskIds /\ ended \subseteq TaskIds
  /\ runs \in [TaskIds -> Nat] /\ results \in [TaskIds -> Nat]
  /\ raises \in 0 .. MaxRaises /\ crashes \in 0 .. MaxCrashes

\* No job leaves the queue before a run of its task has ended: a crash at any
\* await loses no task (the ack comes after the result).
NoTaskLost == \A j \in sent \ queue : j.id \in ended

\* A cancellation stops a handler that is running its task, never one past its
\* run or on another task, and a task on its first run in this process is found:
\* only a second delivery of it can hide a run from _on_cancel.
CancelFindsTheRun ==
  \A t \in TaskIds :
    /\ running[t] # NoHandler => Runs(running[t], t)
    /\ runs[t] = 1 => \A s \in Slots : Runs(s, t) => running[t] = s

\* However often a task is published, redelivered, cancelled or fails, a process
\* publishes at most one result of it for each handler (_seen ends it then).
ResultsAreFew ==
  \A t \in TaskIds : results[t] <= Concurrency * (crashes + 1)

\* Every handler that runs a task is the one a cancellation would reach
\* (TaskCancel: stop the inference that is still running).  Fails with two
\* handlers: the second delivery takes the first one's place in _running.
CancelReachesTheRun ==
  \A t \in TaskIds, s \in Slots : Runs(s, t) => running[t] = s

\* While no process died and no run raised, one result of a task is published,
\* _seen stopping its other deliveries.  Fails with two handlers: _seen is read
\* before the run and written after it.
ResultComesOnce ==
  crashes = 0 /\ raises = 0 => \A t \in TaskIds : results[t] <= 1

\* A task that has ended, by a result or cancelled, is not begun again while
\* the process lives (the ack of a cancelled one keeps it from coming again).
\* Fails with one handler: a delivery that waited in the batch is not acked.
EndedIsOver ==
  [][crashes' = crashes => \A t \in ended : runs'[t] = runs[t]]_wvars

\* Every task published is run to an end and leaves the queue, through any
\* bounded number of failed runs and of crashes.
EveryTaskEnds == \A j \in Jobs : j \in sent ~> j \notin queue

\* The worker and the queue keep the at-least-once promise.
S == INSTANCE TaskService
ImplementsTaskService == S!SSpec
=============================================================================
