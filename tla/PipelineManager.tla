--------------------------- MODULE PipelineManager ---------------------------
(***************************************************************************)
(* The post-processing queue of src/src/pipeline/manager.go over the       *)
(* SQLite table of src/src/pipeline/store.go.                              *)
(*                                                                         *)
(* A recorded file becomes a task: a row of pipeline_tasks.  Goroutines    *)
(* that run scheduleNextTasks (the poll loop and the one-shot "kick" of    *)
(* every EnqueueTask and RetryTask) take pending rows and start one worker *)
(* goroutine for each; runningTasks maps a task to the cancel function of  *)
(* its worker.  API requests cancel, retry, delete and clear tasks.  The   *)
(* table survives the process, everything else is lost with it.            *)
(*                                                                         *)
(* One action is one critical section: what runs under m.mu, one SQL       *)
(* statement, or the code between two of them.                             *)
(***************************************************************************)
EXTENDS Integers, FiniteSets

CONSTANTS
    Tasks,          \* identifiers of the tasks ever enqueued
    Size,           \* total_file_size of every task
    Poll,           \* the goroutine of pollLoop
    Kicks,          \* goroutines of `go m.scheduleNextTasks()`; bounds how many run at once
    Workers,        \* goroutines of executeTask; bounds how many run at once
    Clients,        \* goroutines serving API requests; bounds how many run at once
    MaxConcurrent,  \* config.MaxConcurrent
    StoreFaults,    \* whether an UPDATE of a live store may fail (busy, disk full)
    StagePanics,    \* whether a stage may panic
    Budget,         \* bounds the retries, shutdowns and crashes of a behaviour
    NoTask, NoWorker

Sched == {Poll} \cup Kicks

ASSUME ConstantsAssumption ==
    /\ IsFiniteSet(Tasks)
    /\ Size \in [Tasks -> Nat]
    /\ Poll \notin Kicks
    /\ MaxConcurrent \in Nat \ {0}   \* NewManager replaces what is <= 0
    /\ StoreFaults \in BOOLEAN
    /\ StagePanics \in BOOLEAN
    /\ Budget \in Nat
    /\ NoTask \notin Tasks
    /\ NoWorker \notin Workers

VARIABLES
    \* the SQLite table
    row,        \* row[t]: the status column of task t, or that there is no row
    \* the process
    phase,      \* "down", "up", "closing" (m.ctx cancelled), "closed" (store closed)
    running,    \* runningTasks: the worker whose cancel function is registered for t
    \* goroutines in scheduleNextTasks / startTask
    spc, slots, batch, started,
    \* goroutines in executeTask
    wpc, wtask, result,
    cancelled,  \* the workers whose own context has been cancelled
    \* goroutines in CancelTask, RetryTask, DeleteTask
    cpc, ctask, seen,
    budget

schedVars  == <<spc, slots, batch, started>>
workerVars == <<wpc, wtask, result, cancelled>>
clientVars == <<cpc, ctask, seen>>
vars == <<row, phase, running, schedVars, workerVars, clientVars, budget>>

Final  == {"completed", "failed", "cancelled"}
Status == {"pending", "running"} \cup Final
Gone   == {"absent", "deleted"}

TypeOK ==
    /\ row \in [Tasks -> Status \cup Gone]
    /\ phase \in {"down", "up", "closing", "closed"}
    /\ running \in [Tasks -> Workers \cup {NoWorker}]
    /\ spc \in [Sched -> {"idle", "count", "query", "take", "mark", "exited"}]
    /\ slots \in [Sched -> Int]
    /\ batch \in [Sched -> SUBSET Tasks]
    /\ started \in [Sched -> Workers \cup {NoWorker}]
    /\ wpc \in [Workers -> {"none", "starting", "stages", "save", "release"}]
    /\ wtask \in [Workers -> Tasks \cup {NoTask}]
    /\ result \in [Workers -> Final]
    /\ cancelled \subseteq Workers
    /\ cpc \in [Clients -> {"idle", "cancel_lookup", "cancel_write",
                            "retry_write", "delete_write"}]
    /\ ctask \in [Clients -> Tasks \cup {NoTask}]
    /\ seen \in [Clients -> Status \cup Gone]
    /\ budget \in 0..Budget

------------------------------------------------------------------------------
(* The table *)

Pending == {t \in Tasks : row[t] = "pending"}

\* The rows GetPendingTasks(limit) returns: the smallest files first; ties are
\* broken by creation time, here in any way.
PendingBatches(limit) ==
    {B \in SUBSET Pending :
        /\ Cardinality(B) = IF Cardinality(Pending) < limit
                            THEN Cardinality(Pending) ELSE limit
        /\ \A t \in B, u \in Pending \ B : Size[t] <= Size[u]}

\* Mutant: UpdateTask as INSERT OR REPLACE.
Upserted(t, status) == [row EXCEPT ![t] = status]

\* UPDATE ... WHERE id = t: the row as the statement leaves it.  It changes
\* nothing when the row was deleted.
Updated(t, status) ==
    [row EXCEPT ![t] = IF row[t] \in Gone THEN @ ELSE status]

\* Mutant: nothing is reset.
ResetForgotten == row

\* ResetRunningTasks: what a dead process left running is pending again.
ResetRunningTasks == [t \in Tasks |-> IF row[t] = "running" THEN "pending" ELSE row[t]]

\* UpdateTask under a context.  A cancelled context (or a store already closed)
\* makes it fail before the statement runs; every caller but RetryTask and
\* CancelTask only logs the error.
Update(t, status, alive) ==
    IF ~alive
    THEN UNCHANGED row
    ELSE \/ row' = Updated(t, status)
         \/ StoreFaults /\ UNCHANGED row

------------------------------------------------------------------------------
(* scheduleNextTasks and startTask *)

\* The ticker of pollLoop fires.
PollTick ==
    /\ phase \in {"up", "closing"}
    /\ spc[Poll] = "idle"
    /\ spc' = [spc EXCEPT ![Poll] = "count"]
    /\ UNCHANGED <<row, phase, running, slots, batch, started, workerVars, clientVars, budget>>

\* pollLoop sees m.ctx.Done() and returns.
PollExit ==
    /\ phase = "closing"
    /\ spc[Poll] = "idle"
    /\ spc' = [spc EXCEPT ![Poll] = "exited"]
    /\ UNCHANGED <<row, phase, running, slots, batch, started, workerVars, clientVars, budget>>

AvailableSlots == MaxConcurrent - Cardinality({t \in Tasks : running[t] # NoWorker})

\* Under m.mu.RLock: count the free slots, give up when there is none.
SchedCount(s) ==
    /\ spc[s] = "count"
    /\ spc' = [spc EXCEPT ![s] = IF AvailableSlots <= 0 THEN "idle" ELSE "query"]
    /\ slots' = [slots EXCEPT ![s] = IF AvailableSlots <= 0 THEN 0 ELSE AvailableSlots]
    /\ UNCHANGED <<row, phase, running, batch, started, workerVars, clientVars, budget>>

\* GetPendingTasks(m.ctx, availableSlots), m.mu released in between.
SchedQuery(s) ==
    /\ spc[s] = "query"
    /\ IF phase = "up"
       THEN \E B \in PendingBatches(slots[s]) :
                /\ batch' = [batch EXCEPT ![s] = B]
                /\ spc' = [spc EXCEPT ![s] = IF B = {} THEN "idle" ELSE "take"]
       ELSE /\ spc' = [spc EXCEPT ![s] = "idle"]
            /\ UNCHANGED batch
    /\ slots' = [slots EXCEPT ![s] = 0]
    /\ UNCHANGED <<row, phase, running, started, workerVars, clientVars, budget>>

\* The next task of the batch, in the order of the query.
IsNext(t, B) == t \in B /\ \A u \in B : Size[t] <= Size[u]

\* Mutant: trust the row, which is marked only after the unlock.
MarkedRunning(t) == row[t] = "running"

\* Whether startTask finds the task in runningTasks.
Registered(t) == running[t] # NoWorker

\* startTask, the section under m.mu: skip a task that is registered already,
\* else register the cancel function of its worker-to-be.
StartRegister(s, t) ==
    /\ spc[s] = "take"
    /\ IsNext(t, batch[s])
    /\ batch' = [batch EXCEPT ![s] = @ \ {t}]
    /\ \/ /\ Registered(t)
          /\ spc' = [spc EXCEPT ![s] = IF batch[s] = {t} THEN "idle" ELSE "take"]
          /\ UNCHANGED <<running, started, workerVars>>
       \/ /\ ~Registered(t)
          /\ \E w \in Workers :
                /\ wpc[w] = "none"
                /\ running' = [running EXCEPT ![t] = w]
                /\ wpc' = [wpc EXCEPT ![w] = "starting"]
                /\ wtask' = [wtask EXCEPT ![w] = t]
                /\ started' = [started EXCEPT ![s] = w]
          /\ spc' = [spc EXCEPT ![s] = "mark"]
          /\ UNCHANGED <<result, cancelled>>
    /\ UNCHANGED <<row, phase, slots, clientVars, budget>>

\* startTask after the unlock: MarkStarted, UpdateTask(m.ctx), spawn executeTask.
\* The task is the snapshot the query returned, whatever became of the row.
StartMark(s) ==
    /\ spc[s] = "mark"
    /\ LET w == started[s] IN
        /\ Update(wtask[w], "running", phase = "up")
        /\ wpc' = [wpc EXCEPT ![w] = "stages"]
    /\ started' = [started EXCEPT ![s] = NoWorker]
    /\ spc' = [spc EXCEPT ![s] = IF batch[s] = {} THEN "idle" ELSE "take"]
    /\ UNCHANGED <<phase, running, slots, batch, wtask, result, cancelled, clientVars, budget>>

------------------------------------------------------------------------------
(* executeTask *)

\* The worker's context: its own cancel function or the manager's.
ContextDone(w) == w \in cancelled \/ phase # "up"

\* A stage reports progress: the whole row, status "running", is written again
\* under the worker's context.
WorkerProgress(w) ==
    /\ wpc[w] = "stages"
    /\ Update(wtask[w], "running", ~ContextDone(w))
    /\ UNCHANGED <<phase, running, schedVars, workerVars, clientVars, budget>>

\* Mutant: a successful task keeps the status of its start.
WorkerResultUnmarked(w) ==
    /\ wpc[w] = "stages"
    /\ \E r \in {"running", IF ContextDone(w) THEN "cancelled" ELSE "failed"} :
            result' = [result EXCEPT ![w] = r]
    /\ wpc' = [wpc EXCEPT ![w] = "save"]
    /\ UNCHANGED <<row, phase, running, schedVars, wtask, cancelled, clientVars, budget>>

\* Mutant: an error returns before the final UpdateTask.
WorkerResultEarlyReturn(w) ==
    /\ wpc[w] = "stages"
    /\ \/ result' = [result EXCEPT ![w] = "completed"] /\ wpc' = [wpc EXCEPT ![w] = "save"]
       \/ result' = [result EXCEPT ![w] = "failed"] /\ wpc' = [wpc EXCEPT ![w] = "release"]
    /\ UNCHANGED <<row, phase, running, schedVars, wtask, cancelled, clientVars, budget>>

\* executor.Execute returns.  An error counts as a cancellation when the context
\* is done; stages that ignore the context may still succeed after a cancel.
WorkerResult(w) ==
    /\ wpc[w] = "stages"
    /\ \E r \in {"completed", IF ContextDone(w) THEN "cancelled" ELSE "failed"} :
            result' = [result EXCEPT ![w] = r]
    /\ wpc' = [wpc EXCEPT ![w] = "save"]
    /\ UNCHANGED <<row, phase, running, schedVars, wtask, cancelled, clientVars, budget>>

\* A stage panics: the deferred delete runs, Recover ends the goroutine, and the
\* row is not written any more.
WorkerPanic(w) ==
    /\ StagePanics
    /\ wpc[w] = "stages"
    /\ wpc' = [wpc EXCEPT ![w] = "release"]
    /\ UNCHANGED <<row, phase, running, schedVars, wtask, result, cancelled, clientVars, budget>>

\* Mutant: the final UpdateTask under the context CancelTask cancels.
WorkerSaveOwnContext(w) ==
    /\ wpc[w] = "save"
    /\ Update(wtask[w], result[w], ~ContextDone(w))
    /\ wpc' = [wpc EXCEPT ![w] = "release"]
    /\ UNCHANGED <<phase, running, schedVars, wtask, result, cancelled, clientVars, budget>>

\* The final UpdateTask(m.ctx).
WorkerSave(w) ==
    /\ wpc[w] = "save"
    /\ Update(wtask[w], result[w], phase = "up")
    /\ wpc' = [wpc EXCEPT ![w] = "release"]
    /\ UNCHANGED <<phase, running, schedVars, wtask, result, cancelled, clientVars, budget>>

\* Mutant: the deferred delete is missing.
StillRegistered(w) == running

Unregistered(w) == [running EXCEPT ![wtask[w]] = NoWorker]

\* The deferred delete(m.runningTasks, task.ID), then wg.Done.
WorkerRelease(w) ==
    /\ wpc[w] = "release"
    /\ running' = Unregistered(w)
    /\ wpc' = [wpc EXCEPT ![w] = "none"]
    /\ wtask' = [wtask EXCEPT ![w] = NoTask]
    /\ cancelled' = cancelled \ {w}
    /\ result' = [result EXCEPT ![w] = "failed"]   \* the local of a goroutine that is gone
    /\ UNCHANGED <<row, phase, schedVars, clientVars, budget>>

------------------------------------------------------------------------------
(* EnqueueTask and the API *)

\* A kick goroutine is spawned; Kicks bounds how many are in flight.
Kick == \E k \in Kicks :
            /\ spc[k] = "idle"
            /\ spc' = [spc EXCEPT ![k] = "count"]

\* EnqueueTask (and EnqueueRecordingTask): INSERT, then kick the scheduler.
Enqueue(t) ==
    /\ phase = "up"
    /\ row[t] = "absent"
    /\ row' = [row EXCEPT ![t] = "pending"]
    /\ Kick
    /\ UNCHANGED <<phase, running, slots, batch, started, workerVars, clientVars, budget>>

Reply(c) ==
    /\ cpc' = [cpc EXCEPT ![c] = "idle"]
    /\ ctask' = [ctask EXCEPT ![c] = NoTask]
    /\ seen' = [seen EXCEPT ![c] = "absent"]

\* A request for an existing task begins and reaches its step `next`; GetTask
\* fails under a cancelled context and for a row that does not exist.
Request(c, t, next) ==
    /\ cpc[c] = "idle"
    /\ phase = "up"
    /\ row[t] \notin Gone
    /\ cpc' = [cpc EXCEPT ![c] = next]
    /\ ctask' = [ctask EXCEPT ![c] = t]
    /\ seen' = [seen EXCEPT ![c] = row[t]]

\* CancelTask: GetTask takes a snapshot of the row.
CancelRead(c, t) ==
    /\ Request(c, t, "cancel_lookup")
    /\ UNCHANGED <<row, phase, running, schedVars, workerVars, budget>>

\* Mutant: the entry of a cancelled worker is deleted at once.
CancelLookupForgets(c) ==
    /\ cpc[c] = "cancel_lookup"
    /\ LET w == running[ctask[c]] IN
        /\ w # NoWorker
        /\ cancelled' = cancelled \cup {w}
        /\ running' = [running EXCEPT ![ctask[c]] = NoWorker]
    /\ Reply(c)
    /\ UNCHANGED <<row, phase, schedVars, wpc, wtask, result, budget>>

\* CancelTask under m.mu: a registered worker is cancelled; else the snapshot
\* decides whether the row has to be written.
CancelLookup(c) ==
    /\ cpc[c] = "cancel_lookup"
    /\ LET w == running[ctask[c]] IN
       \/ /\ w # NoWorker
          /\ cancelled' = cancelled \cup {w}
          /\ Reply(c)
       \/ /\ w = NoWorker
          /\ seen[c] = "pending"
          /\ cpc' = [cpc EXCEPT ![c] = "cancel_write"]
          /\ UNCHANGED <<cancelled, ctask, seen>>
       \/ /\ w = NoWorker
          /\ seen[c] # "pending"
          /\ Reply(c)
          /\ UNCHANGED cancelled
    /\ UNCHANGED <<row, phase, running, schedVars, wpc, wtask, result, budget>>

\* CancelTask: MarkCancelled on the snapshot, UpdateTask.
CancelWrite(c) ==
    /\ cpc[c] = "cancel_write"
    /\ Update(ctask[c], "cancelled", phase = "up")
    /\ Reply(c)
    /\ UNCHANGED <<phase, running, schedVars, workerVars, budget>>

\* RetryTask: only what was read as failed or cancelled goes on.
RetryRead(c, t) ==
    /\ row[t] \in {"failed", "cancelled"}
    /\ budget > 0
    /\ Request(c, t, "retry_write")
    /\ budget' = budget - 1
    /\ UNCHANGED <<row, phase, running, schedVars, workerVars>>

\* RetryTask: reset to pending, UpdateTask; on success kick the scheduler.
RetryWrite(c) ==
    /\ cpc[c] = "retry_write"
    /\ \/ /\ phase = "up"
          /\ row' = Updated(ctask[c], "pending")
          /\ Kick
       \/ /\ phase # "up" \/ StoreFaults
          /\ UNCHANGED <<row, spc>>
    /\ Reply(c)
    /\ UNCHANGED <<phase, running, slots, batch, started, workerVars, budget>>

\* DeleteTask under m.mu.RLock: refuse when a worker is registered.
DeleteCheck(c, t) ==
    /\ running[t] = NoWorker
    /\ Request(c, t, "delete_write")
    /\ UNCHANGED <<row, phase, running, schedVars, workerVars, budget>>

DeleteWrite(c) ==
    /\ cpc[c] = "delete_write"
    /\ Update(ctask[c], "deleted", phase = "up")
    /\ Reply(c)
    /\ UNCHANGED <<phase, running, schedVars, workerVars, budget>>

\* ClearCompletedTasks: one DELETE ... WHERE status = 'completed'.
ClearCompleted ==
    /\ phase = "up"
    /\ \E t \in Tasks : row[t] = "completed"
    /\ row' = [t \in Tasks |-> IF row[t] = "completed" THEN "deleted" ELSE row[t]]
    /\ UNCHANGED <<phase, running, schedVars, workerVars, clientVars, budget>>

------------------------------------------------------------------------------
(* The life of the process *)

\* Start: ResetRunningTasks, then spawn pollLoop, which schedules at once.
Start ==
    /\ phase = "down"
    /\ row' = ResetRunningTasks
    /\ phase' = "up"
    /\ spc' = [spc EXCEPT ![Poll] = "count"]
    /\ UNCHANGED <<running, slots, batch, started, workerVars, clientVars, budget>>

\* Close: cancel m.ctx, stop the ticker.
CloseCancel ==
    /\ phase = "up"
    /\ budget > 0
    /\ budget' = budget - 1
    /\ phase' = "closing"
    /\ UNCHANGED <<row, running, schedVars, workerVars, clientVars>>

\* Close: wg.Wait() returned (pollLoop and every spawned worker are done; a
\* worker not spawned yet is not counted), the store is closed.
CloseDone ==
    /\ phase = "closing"
    /\ spc[Poll] = "exited"
    /\ \A w \in Workers : wpc[w] \in {"none", "starting"}
    /\ phase' = "closed"
    /\ UNCHANGED <<row, running, schedVars, workerVars, clientVars, budget>>

\* The process ends: a crash while it is up, or main returning at any time
\* after the shutdown began.
ProcessExit ==
    /\ phase # "down"
    /\ IF phase = "up" THEN budget > 0 /\ budget' = budget - 1 ELSE UNCHANGED budget
    /\ phase' = "down"
    /\ running' = [t \in Tasks |-> NoWorker]
    /\ spc' = [s \in Sched |-> "idle"]
    /\ slots' = [s \in Sched |-> 0]
    /\ batch' = [s \in Sched |-> {}]
    /\ started' = [s \in Sched |-> NoWorker]
    /\ wpc' = [w \in Workers |-> "none"]
    /\ wtask' = [w \in Workers |-> NoTask]
    /\ result' = [w \in Workers |-> "failed"]
    /\ cancelled' = {}
    /\ cpc' = [c \in Clients |-> "idle"]
    /\ ctask' = [c \in Clients |-> NoTask]
    /\ seen' = [c \in Clients |-> "absent"]
    /\ UNCHANGED row

------------------------------------------------------------------------------
Init ==
    /\ row = [t \in Tasks |-> "absent"]
    /\ phase = "down"
    /\ running = [t \in Tasks |-> NoWorker]
    /\ spc = [s \in Sched |-> "idle"]
    /\ slots = [s \in Sched |-> 0]
    /\ batch = [s \in Sched |-> {}]
    /\ started = [s \in Sched |-> NoWorker]
    /\ wpc = [w \in Workers |-> "none"]
    /\ wtask = [w \in Workers |-> NoTask]
    /\ result = [w \in Workers |-> "failed"]
    /\ cancelled = {}
    /\ cpc = [c \in Clients |-> "idle"]
    /\ ctask = [c \in Clients |-> NoTask]
    /\ seen = [c \in Clients |-> "absent"]
    /\ budget = Budget

SchedStep(s) ==
    \/ SchedCount(s)
    \/ SchedQuery(s)
    \/ \E t \in Tasks : StartRegister(s, t)
    \/ StartMark(s)

WorkerStep(w) == WorkerResult(w) \/ WorkerSave(w) \/ WorkerRelease(w)

ClientStep(c) ==
    \/ \E t \in Tasks : CancelRead(c, t) \/ RetryRead(c, t) \/ DeleteCheck(c, t)
    \/ CancelLookup(c)
    \/ CancelWrite(c)
    \/ RetryWrite(c)
    \/ DeleteWrite(c)

Next ==
    \/ PollTick
    \/ PollExit
    \/ \E s \in Sched : SchedStep(s)
    \/ \E w \in Workers : WorkerProgress(w) \/ WorkerPanic(w) \/ WorkerStep(w)
    \/ \E t \in Tasks : Enqueue(t)
    \/ \E c \in Clients : ClientStep(c)
    \/ ClearCompleted
    \/ Start
    \/ CloseCancel
    \/ CloseDone
    \/ ProcessExit

Spec == Init /\ [][Next]_vars

\* Goroutines are scheduled, the ticker ticks, a stage command ends, and a
\* process that was shut down is started again.
Fairness ==
    /\ WF_vars(PollTick)
    /\ \A s \in Sched : WF_vars(SchedStep(s))
    /\ \A w \in Workers : WF_vars(WorkerStep(w))
    /\ WF_vars(phase # "up" /\ ProcessExit)
    /\ WF_vars(Start)

FairSpec == Spec /\ Fairness

------------------------------------------------------------------------------
(* Properties *)

\* No task is executed by two workers at once, however many goroutines schedule
\* and whatever became of the row meanwhile (startTask's check under m.mu).
SingleExecutor ==
    \A v, w \in Workers :
        (v # w /\ wpc[v] # "none" /\ wpc[w] # "none") => wtask[v] # wtask[w]

\* runningTasks holds exactly the live workers: an entry without a worker would
\* hold a slot forever, a worker without an entry could not be cancelled and its
\* row could be deleted under it (startTask, the deferred delete of executeTask).
RegistryExact ==
    /\ \A w \in Workers : wpc[w] # "none" => running[wtask[w]] = w
    /\ \A t \in Tasks : running[t] # NoWorker =>
            wpc[running[t]] # "none" /\ wtask[running[t]] = t

\* While the process runs, the store works and no stage panics, a row that says
\* "running" has a worker that will still write its outcome: nothing is left to be
\* found by ResetRunningTasks only (the order of UpdateTask and delete in executeTask).
NoOrphanRow ==
    (phase = "up" /\ ~StoreFaults /\ ~StagePanics) =>
        \A t \in Tasks : row[t] = "running" =>
            \E w \in Workers : wtask[w] = t /\ wpc[w] \in {"stages", "save"}

\* A deleted row stays deleted: no late write of a worker, a cancel or a retry
\* that still holds the task brings it back (UPDATE ... WHERE id, never an upsert).
DeletedIsFinal ==
    [][\A t \in Tasks : row[t] = "deleted" => row'[t] = "deleted"]_vars

\* Every task handed to the queue is eventually settled, through cancellations,
\* retries, shutdowns and crashes: none is lost, none runs forever.
EverySettles ==
    \A t \in Tasks :
        (row[t] \in {"pending", "running"}) ~> (row[t] \in Final \cup {"deleted"})

\* The queue keeps the promise of TaskLease: whatever the goroutines interleave and
\* whenever the process ends, only the one worker of a submitted task ever writes that
\* it runs, completed or failed, and a restart finds nothing leased (startTask,
\* executeTask, the requests of the API and ResetRunningTasks together).
Lease == INSTANCE TaskLease WITH status <- row, holder <- running
ImplementsTaskLease == Lease!Spec

\* manager.go:34 calls MaxConcurrent the maximum number of concurrent tasks.
ConcurrencyLimit ==
    Cardinality({t \in Tasks : running[t] # NoWorker}) <= MaxConcurrent

\* manager.go:372 "a running task cannot be deleted": no row disappears while a
\* worker is in the stages of its task.
NoDeleteWhileRunning ==
    [][\A t \in Tasks, w \in Workers :
        (wpc[w] = "stages" /\ wtask[w] = t) => row'[t] # "deleted" \/ row[t] = "deleted"]_vars
=============================================================================
