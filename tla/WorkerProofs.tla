---------------------------- MODULE WorkerProofs ----------------------------
(***************************************************************************)
(* Proofs about Worker, for every set of tasks, every number of handlers   *)
(* and any pattern of redeliveries, failed runs, crashes and               *)
(* cancellations: no task is lost, and the worker keeps the promise of     *)
(* TaskService on which TurnLoop relies; a task's first run in a process   *)
(* is found by a cancellation; and its results are no more than handlers.  *)
(***************************************************************************)
EXTENDS Worker, FiniteSetTheorems, TLAPS

\* What the process remembers is true: a task in _seen has ended, so has that
\* of a handler about to ack, and _running names a handler that runs the task.
MemoryIsHonest ==
  /\ seen \subseteq ended
  /\ \A s \in Slots : slots[s].step = "settling" => slots[s].job.id \in ended
  /\ \A s \in Slots : slots[s] # Idle => slots[s].job \in sent
  /\ \A t \in TaskIds : running[t] # NoHandler => Runs(running[t], t)

WorkerInv == WorkerTypeOK /\ MemoryIsHonest /\ NoTaskLost

LEMMA WorkerInvInit == WInit => WorkerInv
BY BoundsAssumption
   DEF WInit, WorkerInv, WorkerTypeOK, MemoryIsHonest, NoTaskLost, Slots, Idle, NoHandler, Runs, Jobs

\* A busy handler is running or settling a job.
LEMMA HandlerFacts ==
  ASSUME WorkerTypeOK, NEW s \in Slots
  PROVE  /\ slots[s] = Idle \/ (slots[s].step \in {"running", "settling"} /\ slots[s].job \in Jobs)
         /\ Idle.step = "idle"
         /\ slots[s].step \in {"running", "settling"} => slots[s] # Idle
         /\ \A j \in Jobs : j.id \in TaskIds
         /\ s # NoHandler
BY BoundsAssumption DEF WorkerTypeOK, Idle, Jobs, Slots, NoHandler

\* The part of the queue: publishing, fetching and redelivery.
LEMMA QueueKeeps ==
  ASSUME WorkerInv,
         \/ \E j \in Jobs : Enqueue(j) \/ Expire(j)
         \/ \E b \in SUBSET queue : Fetch(b)
  PROVE  WorkerInv'
<1>1. CASE \E j \in Jobs : Enqueue(j)
  BY <1>1 DEF Enqueue, WorkerInv, WorkerTypeOK, MemoryIsHonest, NoTaskLost, Runs
<1>2. CASE \E j \in Jobs : Expire(j)
  BY <1>2 DEF Expire, WorkerInv, WorkerTypeOK, MemoryIsHonest, NoTaskLost, Runs
<1>3. CASE \E b \in SUBSET queue : Fetch(b)
  BY <1>3 DEF Fetch, WorkerInv, WorkerTypeOK, MemoryIsHonest, NoTaskLost, Runs
<1>4. QED
  BY <1>1, <1>2, <1>3

\* A handler starts: a job whose task was seen is acked, any other is run.
LEMMA StartKeeps ==
  ASSUME WorkerInv, NEW j \in Jobs, NEW s \in Slots, Start(j, s)
  PROVE  WorkerInv'
<1>1. CASE j.id \in seen
  BY <1>1 DEF Start, Ack, WorkerInv, WorkerTypeOK, MemoryIsHonest, NoTaskLost, Runs
<1>2. CASE j.id \notin seen
  <2>0. /\ slots' = [slots EXCEPT ![s] = [step |-> "running", job |-> j]]
        /\ running' = [running EXCEPT ![j.id] = s]
        /\ runs' = [runs EXCEPT ![j.id] = @ + 1]
        /\ UNCHANGED <<queue, out, sent, seen, results, ended, raises, crashes>>
        /\ batch' = batch \ {j} /\ j \in sent /\ slots[s] = Idle
        /\ j.id \in TaskIds
    BY <1>2, HandlerFacts DEF Start, WorkerInv, WorkerTypeOK
  <2>1. WorkerTypeOK'
    BY <2>0 DEF WorkerInv, WorkerTypeOK
  <2>2. MemoryIsHonest'
    <3>1. \A r \in Slots : r # s => slots'[r] = slots[r]
      BY <2>0 DEF WorkerInv, WorkerTypeOK
    <3>2. slots'[s] = [step |-> "running", job |-> j]
      BY <2>0 DEF WorkerInv, WorkerTypeOK
    <3>3. \A t \in TaskIds : t # j.id => running'[t] = running[t]
      BY <2>0 DEF WorkerInv, WorkerTypeOK
    <3>4. running'[j.id] = s
      BY <2>0 DEF WorkerInv, WorkerTypeOK
    <3>5. \A t \in TaskIds : running[t] # NoHandler => running[t] # s
      BY <2>0, HandlerFacts DEF WorkerInv, MemoryIsHonest, Runs, Idle
    <3>6. \A t \in TaskIds : running[t] # NoHandler => running[t] \in Slots
      BY DEF WorkerInv, WorkerTypeOK
    <3>8. \A t \in TaskIds : running'[t] # NoHandler => Runs(running[t], t)'
      <4> TAKE t \in TaskIds
      <4>1. CASE t = j.id
        BY <4>1, <3>4, <3>2 DEF Runs
      <4>2. CASE t # j.id
        BY <4>2, <3>1, <3>3, <3>5, <3>6 DEF WorkerInv, MemoryIsHonest, Runs
      <4>3. QED
        BY <4>1, <4>2
    <3>9. \A r \in Slots : slots'[r] # Idle => slots'[r].job \in sent'
      BY <2>0, <3>1, <3>2 DEF WorkerInv, MemoryIsHonest
    <3>10. \A r \in Slots : slots'[r].step = "settling" => slots'[r].job.id \in ended'
      BY <2>0, <3>1, <3>2 DEF WorkerInv, MemoryIsHonest
    <3>11. QED
      BY <2>0, <3>8, <3>9, <3>10 DEF WorkerInv, MemoryIsHonest
  <2>3. NoTaskLost'
    BY <2>0 DEF WorkerInv, NoTaskLost
  <2>4. QED
    BY <2>1, <2>2, <2>3 DEF WorkerInv
<1>3. QED
  BY <1>1, <1>2

\* A handler that leaves its run: nobody else is registered in its place.
LEMMA Unregistered ==
  ASSUME WorkerInv, NEW s \in Slots, slots[s].step = "running", Unregister(s)
  PROVE  /\ running' \in [TaskIds -> {NoHandler} \union Slots]
         /\ \A t \in TaskIds : running'[t] # NoHandler =>
              /\ running'[t] = running[t]
              /\ running[t] \in Slots \ {s}
              /\ Runs(running[t], t)
<1>1. slots[s].job \in Jobs /\ slots[s].job.id \in TaskIds
  BY HandlerFacts DEF WorkerInv
<1>2. running' = [running EXCEPT ![slots[s].job.id] = NoHandler]
  BY DEF Unregister
<1>3. running \in [TaskIds -> {NoHandler} \union Slots]
  BY DEF WorkerInv, WorkerTypeOK
<1>4. ASSUME NEW t \in TaskIds, running'[t] # NoHandler
      PROVE  /\ running'[t] = running[t]
             /\ running[t] \in Slots \ {s}
             /\ Runs(running[t], t)
  <2>1. t # slots[s].job.id /\ running'[t] = running[t]
    BY <1>1, <1>2, <1>3, <1>4
  <2>2. Runs(running[t], t)
    BY <1>4, <2>1 DEF WorkerInv, MemoryIsHonest
  <2>3. QED
    BY <1>3, <1>4, <2>1, <2>2 DEF Runs
<1>5. QED
  BY <1>1, <1>2, <1>3, <1>4

\* The result is published: the task has ended, and the handler is about to ack.
LEMMA ReturnKeeps ==
  ASSUME WorkerInv, NEW s \in Slots, Return(s)
  PROVE  WorkerInv'
<1> DEFINE j == slots[s].job
<1>1. /\ slots[s].step = "running" /\ Unregister(s)
      /\ results' = [results EXCEPT ![j.id] = @ + 1]
      /\ ended' = ended \union {j.id}
      /\ slots' = [slots EXCEPT ![s].step = "settling"]
      /\ UNCHANGED <<sent, queue, out, batch, seen, runs, raises, crashes>>
  BY DEF Return
<1>2. j \in Jobs /\ j.id \in TaskIds /\ j \in sent
  BY <1>1, HandlerFacts DEF WorkerInv, MemoryIsHonest
<1>3. slots[s] = [step |-> "running", job |-> j]
  <2>1. slots[s] \in {Idle} \union [step : {"running", "settling"}, job : Jobs]
    BY DEF WorkerInv, WorkerTypeOK
  <2>2. slots[s] # Idle
    BY <1>1, HandlerFacts DEF WorkerInv
  <2>3. slots[s] = [step |-> slots[s].step, job |-> slots[s].job]
    BY <2>1, <2>2
  <2>4. QED
    BY <1>1, <2>3
<1>4. slots' = [slots EXCEPT ![s] = [step |-> "settling", job |-> j]]
  <2>1. slots' = [slots EXCEPT ![s] = [slots[s] EXCEPT !.step = "settling"]]
    BY <1>1 DEF WorkerInv, WorkerTypeOK
  <2>2. [slots[s] EXCEPT !.step = "settling"] = [step |-> "settling", job |-> j]
    BY <1>3
  <2>3. QED
    BY <2>1, <2>2
<1>5. \A r \in Slots : slots'[r] = IF r = s THEN [step |-> "settling", job |-> j] ELSE slots[r]
  BY <1>4 DEF WorkerInv, WorkerTypeOK
<1>6. /\ running' \in [TaskIds -> {NoHandler} \union Slots]
      /\ \A t \in TaskIds : running'[t] # NoHandler =>
           running'[t] = running[t] /\ running[t] \in Slots \ {s} /\ Runs(running[t], t)
  BY <1>1, Unregistered
<1>7. slots' \in [Slots -> {Idle} \union [step : {"running", "settling"}, job : Jobs]]
  BY <1>2, <1>4 DEF WorkerInv, WorkerTypeOK
<1>8. results' \in [TaskIds -> Nat]
  BY <1>1, <1>2 DEF WorkerInv, WorkerTypeOK
<1>9. WorkerTypeOK'
  BY <1>1, <1>2, <1>6, <1>7, <1>8 DEF WorkerInv, WorkerTypeOK
<1>10. MemoryIsHonest'
  <2>1. \A t \in TaskIds : running'[t] # NoHandler => Runs(running[t], t)'
    BY <1>5, <1>6 DEF Runs
  <2>2. \A r \in Slots : slots'[r].step = "settling" => slots'[r].job.id \in ended'
    BY <1>1, <1>5 DEF WorkerInv, MemoryIsHonest
  <2>3. \A r \in Slots : slots'[r] # Idle => slots'[r].job \in sent'
    BY <1>1, <1>2, <1>5 DEF WorkerInv, MemoryIsHonest
  <2>4. QED
    BY <1>1, <2>1, <2>2, <2>3 DEF WorkerInv, MemoryIsHonest
<1>11. NoTaskLost'
  BY <1>1 DEF WorkerInv, NoTaskLost
<1>12. QED
  BY <1>9, <1>10, <1>11 DEF WorkerInv

\* A handler lets go of its slot.
LEMMA SlotFreed ==
  ASSUME WorkerInv, NEW s \in Slots, slots' = [slots EXCEPT ![s] = Idle]
  PROVE  /\ slots' \in [Slots -> {Idle} \union [step : {"running", "settling"}, job : Jobs]]
         /\ \A r \in Slots : slots'[r] = IF r = s THEN Idle ELSE slots[r]
BY DEF WorkerInv, WorkerTypeOK

\* The task id is remembered and the job acked.
LEMMA FinishKeeps ==
  ASSUME WorkerInv, NEW s \in Slots, Finish(s)
  PROVE  WorkerInv'
<1> DEFINE j == slots[s].job
<1>1. /\ slots[s].step = "settling"
      /\ seen' = seen \union {j.id}
      /\ queue' = queue \ {j} /\ out' = out \ {j}
      /\ slots' = [slots EXCEPT ![s] = Idle]
      /\ UNCHANGED <<sent, batch, running, runs, results, ended, raises, crashes>>
  BY DEF Finish, Ack
<1>2. j \in Jobs /\ j.id \in TaskIds /\ j.id \in ended
  BY <1>1, HandlerFacts DEF WorkerInv, MemoryIsHonest
<1>3. /\ slots' \in [Slots -> {Idle} \union [step : {"running", "settling"}, job : Jobs]]
      /\ \A r \in Slots : slots'[r] = IF r = s THEN Idle ELSE slots[r]
  BY <1>1, SlotFreed
<1>4. WorkerTypeOK'
  BY <1>1, <1>2, <1>3 DEF WorkerInv, WorkerTypeOK
<1>5. MemoryIsHonest'
  <2>1. \A t \in TaskIds : running'[t] # NoHandler => Runs(running[t], t)'
    BY <1>1, <1>3, HandlerFacts DEF WorkerInv, MemoryIsHonest, WorkerTypeOK, Runs
  <2>2. \A r \in Slots : slots'[r].step = "settling" => slots'[r].job.id \in ended'
    BY <1>1, <1>3 DEF WorkerInv, MemoryIsHonest, Idle
  <2>3. \A r \in Slots : slots'[r] # Idle => slots'[r].job \in sent'
    BY <1>1, <1>3 DEF WorkerInv, MemoryIsHonest
  <2>4. QED
    BY <1>1, <1>2, <2>1, <2>2, <2>3 DEF WorkerInv, MemoryIsHonest
<1>6. NoTaskLost'
  BY <1>1, <1>2 DEF WorkerInv, NoTaskLost
<1>7. QED
  BY <1>4, <1>5, <1>6 DEF WorkerInv

\* The run fails: its job is delivered again.
LEMMA RaiseKeeps ==
  ASSUME WorkerInv, NEW s \in Slots, Raise(s)
  PROVE  WorkerInv'
<1>1. /\ slots[s].step = "running" /\ Unregister(s)
      /\ raises < MaxRaises /\ raises' = raises + 1
      /\ out' = out \ {slots[s].job}
      /\ slots' = [slots EXCEPT ![s] = Idle]
      /\ UNCHANGED <<sent, queue, batch, seen, runs, results, ended, crashes>>
  BY DEF Raise
<1>2. /\ running' \in [TaskIds -> {NoHandler} \union Slots]
      /\ \A t \in TaskIds : running'[t] # NoHandler =>
           running'[t] = running[t] /\ running[t] \in Slots \ {s} /\ Runs(running[t], t)
  BY <1>1, Unregistered
<1>3. /\ slots' \in [Slots -> {Idle} \union [step : {"running", "settling"}, job : Jobs]]
      /\ \A r \in Slots : slots'[r] = IF r = s THEN Idle ELSE slots[r]
  BY <1>1, SlotFreed
<1>4. WorkerTypeOK'
  BY <1>1, <1>2, <1>3, BoundsAssumption DEF WorkerInv, WorkerTypeOK
<1>5. MemoryIsHonest'
  <2>1. \A t \in TaskIds : running'[t] # NoHandler => Runs(running[t], t)'
    BY <1>2, <1>3 DEF Runs
  <2>2. \A r \in Slots : slots'[r].step = "settling" => slots'[r].job.id \in ended'
    BY <1>1, <1>3 DEF WorkerInv, MemoryIsHonest, Idle
  <2>3. \A r \in Slots : slots'[r] # Idle => slots'[r].job \in sent'
    BY <1>1, <1>3 DEF WorkerInv, MemoryIsHonest
  <2>4. QED
    BY <1>1, <2>1, <2>2, <2>3 DEF WorkerInv, MemoryIsHonest
<1>6. NoTaskLost'
  BY <1>1 DEF WorkerInv, NoTaskLost
<1>7. QED
  BY <1>4, <1>5, <1>6 DEF WorkerInv

\* The handler _running names is cancelled: its run ends and its job is acked.
LEMMA CancelKeeps ==
  ASSUME WorkerInv, NEW t \in TaskIds, Cancel(t)
  PROVE  WorkerInv'
<1> DEFINE s == running[t]
           j == slots[s].job
<1>1. s \in Slots /\ slots[s].step = "running" /\ j.id = t
  BY DEF Cancel, WorkerInv, WorkerTypeOK, MemoryIsHonest, Runs
<1>2. /\ Unregister(s)
      /\ queue' = queue \ {j} /\ out' = out \ {j}
      /\ ended' = ended \union {t}
      /\ slots' = [slots EXCEPT ![s] = Idle]
      /\ UNCHANGED <<sent, batch, seen, runs, results, raises, crashes>>
  BY DEF Cancel, Ack
<1>3. /\ running' \in [TaskIds -> {NoHandler} \union Slots]
      /\ \A u \in TaskIds : running'[u] # NoHandler =>
           running'[u] = running[u] /\ running[u] \in Slots \ {s} /\ Runs(running[u], u)
  BY <1>1, <1>2, Unregistered
<1>4. /\ slots' \in [Slots -> {Idle} \union [step : {"running", "settling"}, job : Jobs]]
      /\ \A r \in Slots : slots'[r] = IF r = s THEN Idle ELSE slots[r]
  BY <1>1, <1>2, SlotFreed
<1>5. WorkerTypeOK'
  BY <1>2, <1>3, <1>4 DEF WorkerInv, WorkerTypeOK
<1>6. MemoryIsHonest'
  <2>1. \A u \in TaskIds : running'[u] # NoHandler => Runs(running[u], u)'
    BY <1>3, <1>4 DEF Runs
  <2>2. \A r \in Slots : slots'[r].step = "settling" => slots'[r].job.id \in ended'
    BY <1>2, <1>4 DEF WorkerInv, MemoryIsHonest, Idle
  <2>3. \A r \in Slots : slots'[r] # Idle => slots'[r].job \in sent'
    BY <1>2, <1>4 DEF WorkerInv, MemoryIsHonest
  <2>4. QED
    BY <1>2, <2>1, <2>2, <2>3 DEF WorkerInv, MemoryIsHonest
<1>7. NoTaskLost'
  BY <1>1, <1>2 DEF WorkerInv, NoTaskLost
<1>8. QED
  BY <1>5, <1>6, <1>7 DEF WorkerInv

\* The process dies: it forgets, the queue does not.
LEMMA CrashKeeps ==
  ASSUME WorkerInv, Crash
  PROVE  WorkerInv'
BY BoundsAssumption
   DEF Crash, WorkerInv, WorkerTypeOK, MemoryIsHonest, NoTaskLost, Runs, Idle, NoHandler

LEMMA WorkerInvStep ==
  ASSUME WorkerInv, [WNext]_wvars
  PROVE  WorkerInv'
<1>1. CASE UNCHANGED wvars
  BY <1>1 DEF wvars, WorkerInv, WorkerTypeOK, MemoryIsHonest, NoTaskLost, Runs
<1>2. CASE \E s \in Slots : Handler(s)
  BY <1>2, StartKeeps, ReturnKeeps, FinishKeeps DEF Handler
<1>3. QED
  BY <1>1, <1>2, QueueKeeps, RaiseKeeps, CancelKeeps, CrashKeeps DEF WNext

\* The invariant holds in every behaviour of the worker.
THEOREM WorkerInvHolds == WSpec => []WorkerInv
<1>1. WInit => WorkerInv
  BY WorkerInvInit
<1>2. WorkerInv /\ [WNext]_wvars => WorkerInv'
  BY WorkerInvStep
<1>3. QED
  BY <1>1, <1>2, PTL DEF WSpec

\* The worker's state has its type throughout (consumer.py's tables and the
\* queue), for any number of tasks and handlers.
THEOREM WorkerTypeCorrect == WSpec => []WorkerTypeOK
<1>1. WorkerInv => WorkerTypeOK
  BY DEF WorkerInv
<1>2. QED
  BY <1>1, WorkerInvHolds, PTL

\* No job leaves the queue before a run of its task has ended, wherever the
\* process dies and however often the server delivers the job.
THEOREM NoTaskIsEverLost == WSpec => []NoTaskLost
<1>1. WorkerInv => NoTaskLost
  BY DEF WorkerInv
<1>2. QED
  BY <1>1, WorkerInvHolds, PTL

-----------------------------------------------------------------------------
(* The worker implements TaskService.                                      *)

\* Every step of the worker is a step of TaskService or leaves it alone: an ack
\* is a Settle of a task that has ended, or an End together with the run.
LEMMA WorkerStepIsService ==
  ASSUME WorkerInv, [WNext]_wvars
  PROVE  [S!SNext]_(S!svars)
<1>1. CASE \E j \in Jobs : Enqueue(j)
  BY <1>1 DEF Enqueue, S!SNext, S!Send
<1>2. CASE \E j \in Jobs : Expire(j)
  BY <1>2 DEF Expire, S!svars
<1>3. CASE \E b \in SUBSET queue : Fetch(b)
  BY <1>3 DEF Fetch, S!svars
<1>4. CASE \E j \in Jobs, s \in Slots : Start(j, s)
  <2> PICK j \in Jobs, s \in Slots : Start(j, s)
    BY <1>4
  <2>1. CASE j.id \in seen /\ j \in queue
    <3>1. S!Settle(j)
      BY <2>1 DEF Start, Ack, S!Settle, WorkerInv, MemoryIsHonest
    <3>2. QED
      BY <3>1 DEF S!SNext
  <2>2. CASE ~(j.id \in seen /\ j \in queue)
    BY <2>2 DEF Start, Ack, S!svars
  <2>3. QED
    BY <2>1, <2>2
<1>5. CASE \E s \in Slots : Return(s)
  <2> PICK s \in Slots : Return(s)
    BY <1>5
  <2>1. slots[s].job \in Jobs /\ slots[s].job \in sent
    BY HandlerFacts DEF Return, WorkerInv, MemoryIsHonest
  <2>2. S!End(slots[s].job)
    BY <2>1 DEF Return, S!End
  <2>3. QED
    BY <2>1, <2>2 DEF S!SNext
<1>6. CASE \E s \in Slots : Finish(s)
  <2> PICK s \in Slots : Finish(s)
    BY <1>6
  <2> DEFINE j == slots[s].job
  <2>1. j \in Jobs /\ j.id \in ended
    BY HandlerFacts DEF Finish, WorkerInv, MemoryIsHonest
  <2>2. queue' = queue \ {j} /\ UNCHANGED <<sent, ended>>
    BY DEF Finish, Ack
  <2>3. CASE j \in queue
    BY <2>1, <2>2, <2>3 DEF S!SNext, S!Settle
  <2>4. CASE j \notin queue
    BY <2>2, <2>4 DEF S!svars
  <2>5. QED
    BY <2>3, <2>4
<1>7. CASE \E s \in Slots : Raise(s)
  BY <1>7 DEF Raise, S!svars
<1>8. CASE \E t \in TaskIds : Cancel(t)
  <2> PICK t \in TaskIds : Cancel(t)
    BY <1>8
  <2> DEFINE s == running[t]
             j == slots[s].job
  <2>1. s \in Slots /\ slots[s].step = "running" /\ j.id = t
    BY DEF Cancel, WorkerInv, WorkerTypeOK, MemoryIsHonest, Runs
  <2>2. j \in Jobs /\ j \in sent
    BY <2>1, HandlerFacts DEF WorkerInv, MemoryIsHonest
  <2>3. queue' = queue \ {j} /\ ended' = ended \union {j.id} /\ UNCHANGED sent
    BY <2>1 DEF Cancel, Ack
  <2>4. S!End(j)
    BY <2>2, <2>3 DEF S!End
  <2>5. QED
    BY <2>2, <2>4 DEF S!SNext
<1>9. CASE Crash
  BY <1>9 DEF Crash, S!svars
<1>10. CASE UNCHANGED wvars
  BY <1>10 DEF wvars, S!svars
<1>11. QED
  BY <1>1, <1>2, <1>3, <1>4, <1>5, <1>6, <1>7, <1>8, <1>9, <1>10 DEF WNext, Handler

\* The queue and its worker keep the at-least-once promise the dispatcher's
\* model relies on.
THEOREM WorkerIsTaskService == WSpec => ImplementsTaskService
<1>1. WInit => S!SInit
  BY DEF WInit, S!SInit
<1>2. WorkerInv /\ [WNext]_wvars => [S!SNext]_(S!svars)
  BY WorkerStepIsService
<1>3. QED
  BY <1>1, <1>2, WorkerInvHolds, PTL DEF WSpec, ImplementsTaskService, S!SSpec
-----------------------------------------------------------------------------
(* Cancellation.                                                           *)

\* A task that was not begun in this process is run by nobody, and one begun
\* once is run by the handler that _running has.
FirstRunsAreFound ==
  \A t \in TaskIds, s \in Slots :
    Runs(s, t) => runs[t] # 0 /\ (runs[t] = 1 => running[t] = s)

LEMMA FirstStart ==
  ASSUME WorkerInv, FirstRunsAreFound, NEW j \in Jobs, NEW s \in Slots, Start(j, s)
  PROVE  FirstRunsAreFound'
<1>1. CASE j.id \in seen
  BY <1>1 DEF Start, FirstRunsAreFound, Runs
<1>2. CASE j.id \notin seen
  <2>1. /\ \A r \in Slots : slots'[r] = IF r = s THEN [step |-> "running", job |-> j] ELSE slots[r]
        /\ \A t \in TaskIds : running'[t] = IF t = j.id THEN s ELSE running[t]
        /\ \A t \in TaskIds : runs'[t] = IF t = j.id THEN runs[t] + 1 ELSE runs[t]
        /\ \A t \in TaskIds : runs[t] \in Nat
        /\ j.id \in TaskIds
    BY <1>2, HandlerFacts DEF Start, WorkerInv, WorkerTypeOK
  <2> SUFFICES ASSUME NEW t \in TaskIds, NEW r \in Slots, Runs(r, t)'
               PROVE  runs'[t] # 0 /\ (runs'[t] = 1 => running'[t] = r)
    BY DEF FirstRunsAreFound, Runs
  <2>2. CASE r = s
    <3>1. t = j.id
      BY <2>1, <2>2 DEF Runs
    <3>2. QED
      BY <2>1, <2>2, <3>1
  <2>3. CASE r # s
    <3>1. Runs(r, t)
      BY <2>1, <2>3 DEF Runs
    <3>2. runs[t] # 0 /\ (runs[t] = 1 => running[t] = r)
      BY <3>1 DEF FirstRunsAreFound
    <3>3. QED
      BY <2>1, <3>2
  <2>4. QED
    BY <2>2, <2>3
<1>3. QED
  BY <1>1, <1>2

\* A handler that leaves its run takes the task out of _running: if this was its
\* only run, nobody else runs it.
LEMMA FirstLeft ==
  ASSUME WorkerInv, FirstRunsAreFound, NEW s \in Slots, slots[s].step = "running",
         Unregister(s), runs' = runs,
         \A r \in Slots : r # s => slots'[r] = slots[r], slots'[s].step # "running"
  PROVE  FirstRunsAreFound'
<1>1. slots[s].job.id \in TaskIds /\ running \in [TaskIds -> {NoHandler} \union Slots]
  BY HandlerFacts DEF WorkerInv, WorkerTypeOK
<1>2. \A t \in TaskIds : t # slots[s].job.id => running'[t] = running[t]
  BY <1>1 DEF Unregister
<1> SUFFICES ASSUME NEW t \in TaskIds, NEW r \in Slots, Runs(r, t)'
             PROVE  runs[t] # 0 /\ (runs[t] = 1 => running'[t] = r)
  BY DEF FirstRunsAreFound, Runs
<1>3. r # s /\ Runs(r, t)
  BY DEF Runs
<1>4. runs[t] # 0 /\ (runs[t] = 1 => running[t] = r)
  BY <1>3 DEF FirstRunsAreFound
<1>5. runs[t] = 1 => t # slots[s].job.id
  <2>1. SUFFICES ASSUME runs[t] = 1, t = slots[s].job.id PROVE FALSE
    OBVIOUS
  <2>2. running[t] = s
    BY <2>1 DEF FirstRunsAreFound, Runs
  <2>3. QED
    BY <1>3, <1>4, <2>1, <2>2
<1>6. QED
  BY <1>2, <1>4, <1>5

LEMMA FirstKeeps ==
  ASSUME WorkerInv, FirstRunsAreFound, [WNext]_wvars
  PROVE  FirstRunsAreFound'
<1>1. CASE \E s \in Slots : Return(s)
  <2> PICK s \in Slots : Return(s)
    BY <1>1
  <2>1. slots[s].step = "running" /\ slots[s] # Idle
    BY HandlerFacts DEF Return, WorkerInv
  <2>2. slots[s] \in [step : {"running", "settling"}, job : Jobs]
    BY <2>1 DEF WorkerInv, WorkerTypeOK
  <2>3. slots'[s].step = "settling" /\ \A r \in Slots : r # s => slots'[r] = slots[r]
    BY <2>2 DEF Return, WorkerInv, WorkerTypeOK
  <2>4. QED
    BY <2>1, <2>3, FirstLeft DEF Return
<1>2. CASE \E s \in Slots : Raise(s)
  <2> PICK s \in Slots : Raise(s)
    BY <1>2
  <2>1. slots[s].step = "running" /\ Unregister(s) /\ runs' = runs
    BY DEF Raise
  <2>2. \A r \in Slots : slots'[r] = IF r = s THEN Idle ELSE slots[r]
    BY SlotFreed DEF Raise
  <2>3. slots'[s].step # "running" /\ \A r \in Slots : r # s => slots'[r] = slots[r]
    BY <2>2 DEF Idle
  <2>4. QED
    BY <2>1, <2>3, FirstLeft
<1>3. CASE \E t \in TaskIds : Cancel(t)
  <2> PICK t \in TaskIds : Cancel(t)
    BY <1>3
  <2>1. running[t] \in Slots /\ slots[running[t]].step = "running"
    BY DEF Cancel, WorkerInv, WorkerTypeOK, MemoryIsHonest, Runs
  <2>2. QED
    BY <2>1, SlotFreed, FirstLeft DEF Cancel, Idle
<1>4. CASE \E s \in Slots : Finish(s)
  <2> PICK s \in Slots : Finish(s)
    BY <1>4
  <2>1. \A r \in Slots : slots'[r] = IF r = s THEN Idle ELSE slots[r]
    BY SlotFreed DEF Finish
  <2>2. \A t \in TaskIds, r \in Slots : Runs(r, t)' => Runs(r, t)
    BY <2>1 DEF Runs, Idle
  <2>3. UNCHANGED <<running, runs>>
    BY DEF Finish
  <2>4. QED
    BY <2>2, <2>3 DEF FirstRunsAreFound
<1>5. CASE \E j \in Jobs, s \in Slots : Start(j, s)
  BY <1>5, FirstStart
<1>6. CASE \/ \E j \in Jobs : Enqueue(j) \/ Expire(j)
           \/ \E b \in SUBSET queue : Fetch(b)
           \/ UNCHANGED wvars
  BY <1>6 DEF Enqueue, Expire, Fetch, wvars, FirstRunsAreFound, Runs
<1>7. CASE Crash
  BY <1>7 DEF Crash, FirstRunsAreFound, Runs, Idle
<1>8. QED
  BY <1>1, <1>2, <1>3, <1>4, <1>5, <1>6, <1>7 DEF WNext, Handler

LEMMA FirstInit == WInit => FirstRunsAreFound
BY DEF WInit, FirstRunsAreFound, Runs, Idle

\* However many handlers there are: a cancellation stops a run of its task and
\* nothing else, and finds a task on its first run (_running, _on_cancel).
THEOREM CancelsFindTheRun == WSpec => []CancelFindsTheRun
<1>1. WorkerInv /\ FirstRunsAreFound => CancelFindsTheRun
  BY DEF WorkerInv, MemoryIsHonest, FirstRunsAreFound, CancelFindsTheRun
<1>2. WorkerInv /\ FirstRunsAreFound /\ [WNext]_wvars => FirstRunsAreFound'
  BY FirstKeeps
<1>3. QED
  BY <1>1, <1>2, FirstInit, WorkerInvHolds, PTL DEF WSpec

-----------------------------------------------------------------------------
(* The results of a task.                                                  *)

Settles(s, t) == slots[s].step = "settling" /\ slots[s].job.id = t

Running(t)  == {s \in Slots : Runs(s, t)}
Settling(t) == {s \in Slots : Settles(s, t)}

\* What earlier processes may have published, and what this one may.
Past == Concurrency * crashes

\* Until a task is in _seen, each of its results in this process is one of a
\* handler that still settles; from then on only those that run it can add one.
FewForTask(t) ==
  IF t \in seen THEN results[t] + Cardinality(Running(t)) <= Past + Concurrency
                ELSE results[t] <= Past + Cardinality(Settling(t))

FewInv == \A t \in TaskIds : FewForTask(t)

LEMMA PastFacts ==
  ASSUME WorkerInv
  PROVE  Past \in Nat /\ Concurrency \in Nat /\ Concurrency * (crashes + 1) = Past + Concurrency
<1>1. crashes \in Nat /\ Concurrency \in Nat
  BY BoundsAssumption DEF WorkerInv, WorkerTypeOK
<1>2. \A a, b \in Nat : a * (b + 1) = a * b + a /\ a * b \in Nat
  OBVIOUS
<1>3. QED
  BY <1>1, <1>2 DEF Past

LEMMA SlotsCount == IsFiniteSet(Slots) /\ Cardinality(Slots) = Concurrency
<1>1. Concurrency \in Nat
  BY BoundsAssumption
<1>2. 1 \in Int /\ Concurrency \in Int
  BY <1>1
<1>3. Cardinality(1 .. Concurrency) = IF 1 > Concurrency THEN 0 ELSE Concurrency - 1 + 1
  BY <1>2, FS_Interval
<1>4. IsFiniteSet(1 .. Concurrency)
  BY <1>2, FS_Interval
<1>5. QED
  BY <1>1, <1>3, <1>4, BoundsAssumption DEF Slots

\* Handlers of a task are counted, and no more than there are.
LEMMA HandlersCount ==
  ASSUME NEW t
  PROVE  /\ IsFiniteSet(Running(t)) /\ IsFiniteSet(Settling(t))
         /\ Cardinality(Running(t)) \in Nat /\ Cardinality(Settling(t)) \in Nat
         /\ Cardinality(Settling(t)) + Cardinality(Running(t)) <= Concurrency
<1>1. Running(t) \subseteq Slots /\ Settling(t) \subseteq Slots
  BY DEF Running, Settling
<1>2. Running(t) \cap Settling(t) = {}
  BY DEF Running, Settling, Runs, Settles
<1>3. IsFiniteSet(Running(t)) /\ IsFiniteSet(Settling(t))
  BY <1>1, SlotsCount, FS_Subset
<1>4. Cardinality(Running(t)) \in Nat /\ Cardinality(Settling(t)) \in Nat
  BY <1>3, FS_CardinalityType
<1>5. IsFiniteSet(Settling(t) \union Running(t))
      /\ Cardinality(Settling(t) \union Running(t)) = Cardinality(Settling(t)) + Cardinality(Running(t))
  <2>1. Settling(t) \cap Running(t) = {}
    BY <1>2
  <2>2. Cardinality(Settling(t) \cap Running(t)) = 0
    BY <2>1, FS_EmptySet
  <2>3. Cardinality(Settling(t) \union Running(t)) = Cardinality(Settling(t)) + Cardinality(Running(t))
          - Cardinality(Settling(t) \cap Running(t))
    BY <1>3, FS_Union
  <2>4. IsFiniteSet(Settling(t) \union Running(t))
    BY <1>3, FS_Union
  <2>5. QED
    BY <1>4, <2>2, <2>3, <2>4
<1>6. Settling(t) \union Running(t) \subseteq Slots
  BY <1>1
<1>7. Cardinality(Settling(t) \union Running(t)) <= Cardinality(Slots)
  BY <1>6, SlotsCount, FS_Subset
<1>8. QED
  BY <1>3, <1>4, <1>5, <1>7, SlotsCount

\* What the steps do to the handlers of a task: the same, or one fewer or more.
LEMMA SameHandlers ==
  ASSUME UNCHANGED <<slots, seen, results, crashes>>, FewInv
  PROVE  FewInv'
BY DEF FewInv, FewForTask, Running, Settling, Runs, Settles, Past

\* A handler that begins a run: of a task that is not in _seen.
LEMMA FewStart ==
  ASSUME WorkerInv, FewInv, NEW j \in Jobs, NEW s \in Slots, Start(j, s)
  PROVE  FewInv'
<1>1. CASE j.id \in seen
  BY <1>1, SameHandlers DEF Start
<1>2. CASE j.id \notin seen
  <2>1. /\ \A r \in Slots : slots'[r] = IF r = s THEN [step |-> "running", job |-> j] ELSE slots[r]
        /\ slots[s] = Idle /\ UNCHANGED <<seen, results, crashes>>
    BY <1>2 DEF Start, WorkerInv, WorkerTypeOK
  <2>2. \A t \in TaskIds : Settling(t)' = Settling(t)
    BY <2>1 DEF Settling, Settles, Idle
  <2>3. \A t \in TaskIds : t # j.id => Running(t)' = Running(t)
    BY <2>1 DEF Running, Runs, Idle
  <2>4. Past' = Past
    BY <2>1 DEF Past
  <2>5. ASSUME NEW t \in TaskIds PROVE FewForTask(t)'
    <3>1. FewForTask(t)
      BY DEF FewInv
    <3>2. CASE t \in seen
      <4>1. Running(t)' = Running(t)
        BY <1>2, <2>3, <3>2
      <4>2. QED
        BY <2>1, <2>4, <3>1, <3>2, <4>1 DEF FewForTask
    <3>3. CASE t \notin seen
      <4>1. Settling(t)' = Settling(t)
        BY <2>2
      <4>2. QED
        BY <2>1, <2>4, <3>1, <3>3, <4>1 DEF FewForTask
    <3>4. QED
      BY <3>2, <3>3
  <2>6. QED
    BY <2>5 DEF FewInv
<1>3. QED
  BY <1>1, <1>2

\* A result is published: one handler fewer runs the task and one more settles.
LEMMA FewReturn ==
  ASSUME WorkerInv, FewInv, NEW s \in Slots, Return(s)
  PROVE  FewInv'
<1>1. PICK u \in TaskIds : u = slots[s].job.id
  BY HandlerFacts DEF Return, WorkerInv
<1>2. slots[s].step = "running" /\ slots[s] \in [step : {"running", "settling"}, job : Jobs]
  BY HandlerFacts DEF Return, WorkerInv, WorkerTypeOK
<1>3. /\ \A r \in Slots : r # s => slots'[r] = slots[r]
      /\ slots'[s].step = "settling" /\ slots'[s].job = slots[s].job
      /\ \A t \in TaskIds : results'[t] = IF t = u THEN results[t] + 1 ELSE results[t]
      /\ \A t \in TaskIds : results[t] \in Nat
      /\ seen' = seen /\ Past' = Past
  BY <1>1, <1>2 DEF Return, WorkerInv, WorkerTypeOK, Past
<1>4. \A t \in TaskIds : t # u => Running(t)' = Running(t) /\ Settling(t)' = Settling(t)
  BY <1>1, <1>2, <1>3 DEF Running, Settling, Runs, Settles
<1>5. s \in Running(u) /\ Running(u)' = Running(u) \ {s}
  BY <1>1, <1>2, <1>3 DEF Running, Runs
<1>6. s \notin Settling(u) /\ Settling(u)' = Settling(u) \union {s}
  BY <1>1, <1>2, <1>3 DEF Settling, Settles
<1>7. Cardinality(Running(u)') = Cardinality(Running(u)) - 1
  BY <1>5, HandlersCount, FS_RemoveElement
<1>8. Cardinality(Settling(u)') = Cardinality(Settling(u)) + 1
  BY <1>6, HandlersCount, FS_AddElement
<1>9. FewForTask(u)'
  <2>1. FewForTask(u) /\ Past \in Nat /\ Concurrency \in Nat
    BY PastFacts DEF FewInv
  <2>2. PICK a \in Nat : a = Cardinality(Running(u))
    BY HandlersCount
  <2>3. PICK b \in Nat : b = Cardinality(Settling(u))
    BY HandlersCount
  <2>4. CASE u \in seen
    <3>1. results[u] + a <= Past + Concurrency
      BY <2>1, <2>2, <2>4 DEF FewForTask
    <3>2. results'[u] + Cardinality(Running(u)') <= Past' + Concurrency
      BY <1>3, <1>7, <2>1, <2>2, <3>1
    <3>3. QED
      BY <1>3, <2>4, <3>2 DEF FewForTask
  <2>5. CASE u \notin seen
    <3>1. results[u] <= Past + b
      BY <2>1, <2>3, <2>5 DEF FewForTask
    <3>2. results'[u] <= Past' + Cardinality(Settling(u)')
      BY <1>3, <1>8, <2>1, <2>3, <3>1
    <3>3. QED
      BY <1>3, <2>5, <3>2 DEF FewForTask
  <2>6. QED
    BY <2>4, <2>5
<1>10. ASSUME NEW t \in TaskIds, t # u PROVE FewForTask(t)'
  <2>1. Running(t)' = Running(t) /\ Settling(t)' = Settling(t) /\ results'[t] = results[t]
    BY <1>3, <1>4, <1>10
  <2>2. QED
    BY <1>3, <2>1 DEF FewInv, FewForTask
<1>11. QED
  BY <1>9, <1>10 DEF FewInv

\* The task enters _seen: what settled or runs is no more than the handlers.
LEMMA FewFinish ==
  ASSUME WorkerInv, FewInv, NEW s \in Slots, Finish(s)
  PROVE  FewInv'
<1>1. PICK u \in TaskIds : u = slots[s].job.id
  BY HandlerFacts DEF Finish, WorkerInv
<1>2. /\ \A r \in Slots : slots'[r] = IF r = s THEN Idle ELSE slots[r]
      /\ slots[s].step = "settling"
  BY SlotFreed DEF Finish
<1>3. seen' = seen \union {u} /\ results' = results /\ Past' = Past
  BY <1>1 DEF Finish, Past
<1>4. \A t \in TaskIds : Running(t)' = Running(t)
  BY <1>2 DEF Running, Runs, Idle
<1>5. \A t \in TaskIds : t # u => Settling(t)' = Settling(t)
  BY <1>1, <1>2 DEF Settling, Settles, Idle
<1>6. ASSUME NEW t \in TaskIds PROVE FewForTask(t)'
  <2>1. FewForTask(t) /\ Running(t)' = Running(t)
    BY <1>4 DEF FewInv
  <2>2. CASE t = u /\ t \notin seen
    <3>1. results[t] <= Past + Cardinality(Settling(t))
      BY <2>1, <2>2 DEF FewForTask
    <3>2. results[t] \in Nat /\ Past \in Nat /\ Concurrency \in Nat
      BY PastFacts DEF WorkerInv, WorkerTypeOK
    <3>3. PICK a \in Nat : a = Cardinality(Running(t))
      BY HandlersCount
    <3>4. PICK b \in Nat : b = Cardinality(Settling(t))
      BY HandlersCount
    <3>5. b + a <= Concurrency
      BY <3>3, <3>4, HandlersCount
    <3>6. results[t] + a <= Past + Concurrency
      BY <3>1, <3>2, <3>4, <3>5
    <3>7. QED
      BY <1>3, <2>1, <2>2, <3>3, <3>6 DEF FewForTask
  <2>3. CASE t \in seen
    BY <1>3, <2>1, <2>3 DEF FewForTask
  <2>4. CASE t # u /\ t \notin seen
    <3>1. Settling(t)' = Settling(t)
      BY <1>5, <2>4
    <3>2. QED
      BY <1>3, <2>1, <2>4, <3>1 DEF FewForTask
  <2>5. QED
    BY <2>2, <2>3, <2>4
<1>7. QED
  BY <1>6 DEF FewInv

\* A run that ends without a result.
LEMMA FewStopped ==
  ASSUME WorkerInv, FewInv, NEW s \in Slots, slots[s].step = "running",
         slots' = [slots EXCEPT ![s] = Idle], UNCHANGED <<seen, results, crashes>>
  PROVE  FewInv'
<1>1. \A r \in Slots : slots'[r] = IF r = s THEN Idle ELSE slots[r]
  BY SlotFreed
<1>2. \A t \in TaskIds : Running(t)' \subseteq Running(t) /\ Settling(t)' = Settling(t)
  BY <1>1 DEF Running, Settling, Runs, Settles, Idle
<1>3. ASSUME NEW t \in TaskIds PROVE FewForTask(t)'
  <2>1. FewForTask(t) /\ Past' = Past /\ Past \in Nat /\ Concurrency \in Nat /\ results[t] \in Nat
    BY PastFacts DEF FewInv, Past, WorkerInv, WorkerTypeOK
  <2>2. PICK a \in Nat : a = Cardinality(Running(t))
    BY HandlersCount
  <2>3. PICK R : R = Running(t)'
    OBVIOUS
  <2>4. R \subseteq Running(t)
    BY <1>2, <2>3
  <2>5. Cardinality(R) \in Nat /\ Cardinality(R) <= a
    BY <2>2, <2>4, HandlersCount, FS_Subset, FS_CardinalityType
  <2>6. CASE t \in seen
    <3>1. results[t] + a <= Past + Concurrency
      BY <2>1, <2>2, <2>6 DEF FewForTask
    <3>2. results[t] + Cardinality(R) <= Past + Concurrency
      BY <2>1, <2>2, <2>5, <3>1
    <3>3. QED
      BY <2>1, <2>3, <2>6, <3>2 DEF FewForTask
  <2>7. CASE t \notin seen
    <3>1. Settling(t)' = Settling(t)
      BY <1>2
    <3>2. QED
      BY <2>1, <2>7, <3>1 DEF FewForTask
  <2>8. QED
    BY <2>6, <2>7
<1>4. QED
  BY <1>3 DEF FewInv

\* A result per handler at the most, in either case.
LEMMA FewIsFew ==
  ASSUME WorkerInv, FewInv, NEW t \in TaskIds
  PROVE  results[t] <= Past + Concurrency
<1>1. FewForTask(t) /\ Past \in Nat /\ Concurrency \in Nat /\ results[t] \in Nat
  BY PastFacts DEF FewInv, WorkerInv, WorkerTypeOK
<1>2. PICK a \in Nat : a = Cardinality(Running(t))
  BY HandlersCount
<1>3. PICK b \in Nat : b = Cardinality(Settling(t))
  BY HandlersCount
<1>4. b + a <= Concurrency
  BY <1>2, <1>3, HandlersCount
<1>5. (t \in seen /\ results[t] + a <= Past + Concurrency) \/ results[t] <= Past + b
  BY <1>1, <1>2, <1>3 DEF FewForTask
<1>6. QED
  BY <1>1, <1>4, <1>5

LEMMA FewCrash ==
  ASSUME WorkerInv, FewInv, Crash
  PROVE  FewInv'
<1>1. crashes' = crashes + 1 /\ seen' = {} /\ results' = results
  BY DEF Crash
<1>2. Past' = Past + Concurrency
  BY <1>1, PastFacts DEF Past
<1>3. ASSUME NEW t \in TaskIds PROVE FewForTask(t)'
  <2>1. results[t] <= Past + Concurrency
    BY FewIsFew
  <2>2. \A s \in Slots : slots'[s] = Idle
    BY DEF Crash
  <2>3. Settling(t)' = {}
    BY <2>2 DEF Settling, Settles, Idle
  <2>4. Cardinality(Settling(t)') = 0
    BY <2>3, FS_EmptySet
  <2>5. Past + Concurrency \in Nat
    BY PastFacts
  <2>6. QED
    BY <1>1, <1>2, <2>1, <2>4, <2>5 DEF FewForTask, WorkerInv, WorkerTypeOK
<1>4. QED
  BY <1>3 DEF FewInv

LEMMA FewKeeps ==
  ASSUME WorkerInv, FewInv, [WNext]_wvars
  PROVE  FewInv'
<1>1. CASE \E s \in Slots : Raise(s)
  BY <1>1, FewStopped DEF Raise
<1>2. CASE \E t \in TaskIds : Cancel(t)
  <2> PICK t \in TaskIds : Cancel(t)
    BY <1>2
  <2>1. running[t] \in Slots /\ slots[running[t]].step = "running"
    BY DEF Cancel, WorkerInv, WorkerTypeOK, MemoryIsHonest, Runs
  <2>2. QED
    BY <2>1, FewStopped DEF Cancel
<1>3. CASE \/ \E j \in Jobs : Enqueue(j) \/ Expire(j)
           \/ \E b \in SUBSET queue : Fetch(b)
           \/ UNCHANGED wvars
  BY <1>3, SameHandlers DEF Enqueue, Expire, Fetch, wvars
<1>4. QED
  BY <1>1, <1>2, <1>3, FewStart, FewReturn, FewFinish, FewCrash DEF WNext, Handler

LEMMA FewInit == WInit => FewInv
<1> SUFFICES ASSUME WInit, NEW t \in TaskIds PROVE FewForTask(t)
  BY DEF FewInv
<1>1. Settling(t) = {}
  BY DEF WInit, Settling, Settles, Idle
<1>2. Cardinality(Settling(t)) = 0
  BY <1>1, FS_EmptySet
<1>3. Past = 0
  BY BoundsAssumption DEF WInit, Past
<1>4. QED
  BY <1>2, <1>3 DEF WInit, FewForTask

\* However often a task is published, redelivered, cancelled or fails: a process
\* publishes at most one result of it for each handler (_seen).
THEOREM ResultsAreAlwaysFew == WSpec => []ResultsAreFew
<1>1. WorkerInv /\ FewInv => ResultsAreFew
  BY FewIsFew, PastFacts DEF ResultsAreFew
<1>2. WorkerInv /\ FewInv /\ [WNext]_wvars => FewInv'
  BY FewKeeps
<1>3. QED
  BY <1>1, <1>2, FewInit, WorkerInvHolds, PTL DEF WSpec
=============================================================================
