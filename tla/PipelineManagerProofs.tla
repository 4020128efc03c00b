------------------------ MODULE PipelineManagerProofs ------------------------
(***************************************************************************)
(* What PipelineManager guarantees for every number of tasks, schedulers,  *)
(* workers and clients, with a store that may fail and processes that may  *)
(* end at any step: a task has at most one worker, runningTasks is exactly *)
(* the set of workers, no row says "running" without a worker, and a row   *)
(* that was deleted does not come back.                                    *)
(***************************************************************************)
EXTENDS PipelineManager, FiniteSetTheorems, TLAPS

\* A request under way is about a task.
RequestsHaveTasks == \A c \in Clients : cpc[c] # "idle" => ctask[c] \in Tasks

\* A worker has a task, and it is the one registered for it.
WorkersRegistered ==
    \A w \in Workers : wpc[w] # "none" => wtask[w] \in Tasks /\ running[wtask[w]] = w

\* An entry of runningTasks belongs to a worker of that task.
EntriesHaveWorkers ==
    \A t \in Tasks : running[t] # NoWorker =>
        wpc[running[t]] # "none" /\ wtask[running[t]] = t

\* A goroutine between registering a task and spawning its worker holds that
\* worker, and no other goroutine holds it.
MarksHoldWorkers ==
    /\ \A s \in Sched : spc[s] = "mark" =>
            started[s] \in Workers /\ wpc[started[s]] = "starting"
    /\ \A r, s \in Sched : r # s /\ spc[r] = "mark" /\ spc[s] = "mark"
            => started[r] # started[s]

IInv ==
    /\ TypeOK
    /\ RequestsHaveTasks
    /\ WorkersRegistered
    /\ EntriesHaveWorkers
    /\ MarksHoldWorkers
    /\ NoOrphanRow

LEMMA SlotsAreIntegers == AvailableSlots \in Int
<1> DEFINE R == {t \in Tasks : running[t] # NoWorker}
<1>1. IsFiniteSet(R)
  BY ConstantsAssumption, FS_Subset
<1>2. Cardinality(R) \in Nat
  BY <1>1, FS_CardinalityType
<1> QED BY <1>2, ConstantsAssumption DEF AvailableSlots

\* Whatever GetPendingTasks returns is a set of tasks.
LEMMA BatchesAreTasks ==
    ASSUME NEW limit, NEW B \in PendingBatches(limit)
    PROVE  B \subseteq Tasks
BY DEF PendingBatches, Pending

LEMMA InitIInv == Init => IInv
BY ConstantsAssumption
   DEF Init, IInv, TypeOK, RequestsHaveTasks, WorkersRegistered, EntriesHaveWorkers,
       MarksHoldWorkers, NoOrphanRow, Status, Final, Gone, Sched

\* Every step keeps the invariant.
LEMMA NextIInv == IInv /\ [Next]_vars => IInv'
<1> SUFFICES ASSUME IInv, [Next]_vars
             PROVE  IInv'
  OBVIOUS
<1> USE ConstantsAssumption
    DEF IInv, TypeOK, RequestsHaveTasks, WorkersRegistered, EntriesHaveWorkers,
        MarksHoldWorkers, NoOrphanRow, Status, Final, Gone, Sched,
        schedVars, workerVars, clientVars
<1>1. CASE PollTick
  BY <1>1 DEF PollTick
<1>2. CASE PollExit
  BY <1>2 DEF PollExit
<1>3. ASSUME NEW s \in Sched, SchedStep(s)
      PROVE  IInv'
  <2>1. CASE SchedCount(s)
    BY <2>1, SlotsAreIntegers DEF SchedCount
  <2>2. CASE SchedQuery(s)
    <3>1. CASE phase # "up"
      BY <2>2, <3>1 DEF SchedQuery
    <3>2. CASE phase = "up"
      <4>1. PICK B \in PendingBatches(slots[s]) :
              /\ batch' = [batch EXCEPT ![s] = B]
              /\ spc' = [spc EXCEPT ![s] = IF B = {} THEN "idle" ELSE "take"]
        BY <2>2, <3>2 DEF SchedQuery
      <4>2. B \subseteq Tasks
        BY <4>1, BatchesAreTasks
      <4> QED BY <2>2, <4>1, <4>2 DEF SchedQuery
    <3> QED BY <3>1, <3>2
  <2>3. ASSUME NEW t \in Tasks, StartRegister(s, t)
        PROVE  IInv'
    <3>1. CASE running[t] # NoWorker
      BY <2>3, <3>1 DEF StartRegister, IsNext, Registered
    <3>2. CASE running[t] = NoWorker
      <4>1. PICK w \in Workers :
              /\ wpc[w] = "none"
              /\ running' = [running EXCEPT ![t] = w]
              /\ wpc' = [wpc EXCEPT ![w] = "starting"]
              /\ wtask' = [wtask EXCEPT ![w] = t]
              /\ started' = [started EXCEPT ![s] = w]
        BY <2>3, <3>2 DEF StartRegister, Registered
      <4>2. /\ spc' = [spc EXCEPT ![s] = "mark"]
            /\ batch' = [batch EXCEPT ![s] = @ \ {t}]
            /\ UNCHANGED <<row, phase, slots, result, cancelled, cpc, ctask, seen, budget>>
        BY <2>3, <3>2 DEF StartRegister, Registered
      <4>3. TypeOK' /\ RequestsHaveTasks'
        BY <4>1, <4>2
      <4>4. WorkersRegistered' /\ EntriesHaveWorkers'
        BY <3>2, <4>1, <4>2
      \* w had no worker running, so no goroutine in "mark" held it
      <4>5. MarksHoldWorkers'
        BY <4>1, <4>2
      <4>6. NoOrphanRow'
        BY <4>1, <4>2
      <4> QED BY <4>3, <4>4, <4>5, <4>6
    <3> QED BY <3>1, <3>2
  <2>4. CASE StartMark(s)
    BY <2>4 DEF StartMark, Update, Updated
  <2> QED BY <1>3, <2>1, <2>2, <2>3, <2>4 DEF SchedStep
<1>4. ASSUME NEW w \in Workers, WorkerProgress(w) \/ WorkerPanic(w) \/ WorkerStep(w)
      PROVE  IInv'
  <2>1. CASE WorkerProgress(w)
    BY <2>1 DEF WorkerProgress, Update, Updated, ContextDone
  <2>2. CASE WorkerResult(w)
    BY <2>2 DEF WorkerResult
  <2>3. CASE WorkerSave(w)
    BY <2>3 DEF WorkerSave, Update, Updated
  \* the row was written before: an orphan cannot appear when the entry goes
  <2>4. CASE WorkerRelease(w)
    BY <2>4 DEF WorkerRelease, Unregistered
  <2>5. CASE WorkerPanic(w)
    BY <2>5 DEF WorkerPanic
  <2> QED BY <1>4, <2>1, <2>2, <2>3, <2>4, <2>5 DEF WorkerStep
<1>5. ASSUME NEW t \in Tasks, Enqueue(t)
      PROVE  IInv'
  BY <1>5 DEF Enqueue, Kick
<1>6. ASSUME NEW c \in Clients, ClientStep(c)
      PROVE  IInv'
  <2>1. ASSUME NEW t \in Tasks, CancelRead(c, t) \/ RetryRead(c, t) \/ DeleteCheck(c, t)
        PROVE  IInv'
    BY <2>1 DEF CancelRead, RetryRead, DeleteCheck, Request
  <2>2. CASE CancelLookup(c)
    BY <2>2 DEF CancelLookup, Reply
  <2>3. CASE CancelWrite(c)
    BY <2>3 DEF CancelWrite, Update, Updated, Reply
  <2>4. CASE RetryWrite(c)
    BY <2>4 DEF RetryWrite, Updated, Kick, Reply
  <2>5. CASE DeleteWrite(c)
    BY <2>5 DEF DeleteWrite, Update, Updated, Reply
  <2> QED BY <1>6, <2>1, <2>2, <2>3, <2>4, <2>5 DEF ClientStep
<1>7. CASE ClearCompleted
  BY <1>7 DEF ClearCompleted
<1>8. CASE Start
  BY <1>8 DEF Start, ResetRunningTasks
<1>9. CASE CloseCancel
  BY <1>9 DEF CloseCancel
<1>10. CASE CloseDone
  BY <1>10 DEF CloseDone
<1>11. CASE ProcessExit
  BY <1>11 DEF ProcessExit
<1>12. CASE UNCHANGED vars
  BY <1>12 DEF vars
<1> QED
  BY <1>1, <1>2, <1>3, <1>4, <1>5, <1>6, <1>7, <1>8, <1>9, <1>10, <1>11, <1>12 DEF Next

LEMMA Invariance == Spec => []IInv
BY InitIInv, NextIInv, PTL DEF Spec

------------------------------------------------------------------------------
\* Every variable keeps its type, whatever the store and the process do.
THEOREM TypeCorrect == Spec => []TypeOK
<1>1. IInv => TypeOK
  BY DEF IInv
<1> QED BY <1>1, Invariance, PTL

\* No task is ever executed by two workers (startTask registers under m.mu before
\* it spawns, executeTask unregisters after its last write).
THEOREM SingleExecutorHolds == Spec => []SingleExecutor
<1>1. IInv => SingleExecutor
  BY DEF IInv, WorkersRegistered, SingleExecutor
<1> QED BY <1>1, Invariance, PTL

\* runningTasks and the workers agree in every state.
THEOREM RegistryIsExact == Spec => []RegistryExact
<1>1. IInv => RegistryExact
  BY DEF IInv, WorkersRegistered, EntriesHaveWorkers, RegistryExact
<1> QED BY <1>1, Invariance, PTL

\* With a store that works and stages that do not panic, only a shutdown or a crash
\* leaves a row "running" that no worker will settle.
THEOREM NoRowIsOrphaned == Spec => []NoOrphanRow
<1>1. IInv => NoOrphanRow
  BY DEF IInv
<1> QED BY <1>1, Invariance, PTL

\* No step brings a deleted row back, in particular no write of a goroutine that
\* read the task before it was deleted.
THEOREM DeletedRowsStayDeleted == Spec => DeletedIsFinal
<1>1. IInv /\ [Next]_vars =>
        [\A t \in Tasks : row[t] = "deleted" => row'[t] = "deleted"]_vars
  <2> SUFFICES ASSUME IInv, Next, NEW t \in Tasks, row[t] = "deleted"
               PROVE  row'[t] = "deleted"
    OBVIOUS
  <2> USE DEF IInv, TypeOK, Status, Final, Gone
  <2>1. CASE row' = row
    BY <2>1
  <2>2. ASSUME NEW u, NEW status, NEW alive, Update(u, status, alive)
        PROVE  row'[t] = "deleted"
    BY <2>2 DEF Update, Updated
  <2>3. ASSUME NEW s \in Sched, SchedStep(s)
        PROVE  row'[t] = "deleted"
    BY <2>1, <2>2, <2>3 DEF SchedStep, SchedCount, SchedQuery, StartRegister, StartMark
  <2>4. ASSUME NEW w \in Workers, WorkerProgress(w) \/ WorkerPanic(w) \/ WorkerStep(w)
        PROVE  row'[t] = "deleted"
    BY <2>1, <2>2, <2>4
       DEF WorkerStep, WorkerProgress, WorkerPanic, WorkerResult, WorkerSave, WorkerRelease
  <2>5. ASSUME NEW c \in Clients, ClientStep(c)
        PROVE  row'[t] = "deleted"
    BY <2>1, <2>2, <2>5
       DEF ClientStep, CancelRead, RetryRead, DeleteCheck, CancelLookup, CancelWrite,
           RetryWrite, DeleteWrite, Updated
  <2>6. ASSUME NEW u \in Tasks, Enqueue(u)
        PROVE  row'[t] = "deleted"
    BY <2>6 DEF Enqueue
  <2>7. CASE ClearCompleted \/ Start
    BY <2>7 DEF ClearCompleted, Start, ResetRunningTasks
  <2>8. CASE PollTick \/ PollExit \/ CloseCancel \/ CloseDone \/ ProcessExit
    BY <2>1, <2>8 DEF PollTick, PollExit, CloseCancel, CloseDone, ProcessExit
  <2> QED BY <2>3, <2>4, <2>5, <2>6, <2>7, <2>8 DEF Next
<1> QED BY <1>1, Invariance, PTL DEF Spec, DeletedIsFinal

------------------------------------------------------------------------------
(* The refinement of TaskLease *)

\* No goroutine survives the process.
DownIsIdle ==
    phase = "down" =>
        /\ \A s \in Sched : spc[s] = "idle"
        /\ \A w \in Workers : wpc[w] = "none"
        /\ \A c \in Clients : cpc[c] = "idle"

\* What a query returned had been submitted.
BatchesSubmitted == \A s \in Sched : \A t \in batch[s] : row[t] # "absent"

LInv == IInv /\ DownIsIdle /\ BatchesSubmitted

\* A task that was submitted stays submitted.
LEMMA SubmittedForGood ==
    ASSUME TypeOK, [Next]_vars, NEW t \in Tasks, row[t] # "absent"
    PROVE  row'[t] # "absent"
<1> USE DEF TypeOK, Status, Final, Gone
<1>1. ASSUME NEW u, NEW status \in Status \cup {"deleted"}, NEW alive,
             Update(u, status, alive)
      PROVE  row'[t] # "absent"
  BY <1>1 DEF Update, Updated
<1>2. ASSUME NEW s \in Sched, SchedStep(s)
      PROVE  row'[t] # "absent"
  BY <1>1, <1>2 DEF SchedStep, SchedCount, SchedQuery, StartRegister, StartMark
<1>3. ASSUME NEW w \in Workers, WorkerProgress(w) \/ WorkerPanic(w) \/ WorkerStep(w)
      PROVE  row'[t] # "absent"
  <2>1. result[w] \in Status
    OBVIOUS
  <2> QED BY <1>1, <1>3, <2>1
     DEF WorkerStep, WorkerProgress, WorkerPanic, WorkerResult, WorkerSave, WorkerRelease
<1>4. ASSUME NEW c \in Clients, ClientStep(c)
      PROVE  row'[t] # "absent"
  BY <1>1, <1>4
     DEF ClientStep, CancelRead, RetryRead, DeleteCheck, CancelLookup, CancelWrite,
         RetryWrite, DeleteWrite, Updated
<1>5. ASSUME NEW u \in Tasks, Enqueue(u)
      PROVE  row'[t] # "absent"
  BY <1>5 DEF Enqueue
<1>6. CASE ClearCompleted \/ Start
  BY <1>6 DEF ClearCompleted, Start, ResetRunningTasks
<1>7. CASE PollTick \/ PollExit \/ CloseCancel \/ CloseDone \/ ProcessExit \/ UNCHANGED vars
  BY <1>7 DEF PollTick, PollExit, CloseCancel, CloseDone, ProcessExit, vars
<1> QED BY <1>2, <1>3, <1>4, <1>5, <1>6, <1>7 DEF Next

LEMMA InitLInv == Init => LInv
BY InitIInv DEF Init, LInv, DownIsIdle, BatchesSubmitted

\* Every step keeps the two facts the refinement needs besides IInv.
LEMMA NextLInv == LInv /\ [Next]_vars => LInv'
<1> SUFFICES ASSUME LInv, [Next]_vars
             PROVE  DownIsIdle' /\ BatchesSubmitted'
  BY NextIInv DEF LInv
<1>1. TypeOK /\ ConstantsAssumption
  BY ConstantsAssumption DEF LInv, IInv
<1>2. \A t \in Tasks : row[t] # "absent" => row'[t] # "absent"
  BY <1>1, SubmittedForGood
<1>3. DownIsIdle'
  <2> USE <1>1 DEF LInv, DownIsIdle, TypeOK, Sched, schedVars, workerVars, clientVars
  <2>1. ASSUME NEW s \in Sched, SchedStep(s)
        PROVE  DownIsIdle'
    BY <2>1 DEF SchedStep, SchedCount, SchedQuery, StartRegister, StartMark,
                IInv, MarksHoldWorkers
  <2>2. ASSUME NEW w \in Workers, WorkerProgress(w) \/ WorkerPanic(w) \/ WorkerStep(w)
        PROVE  DownIsIdle'
    BY <2>2 DEF WorkerStep, WorkerProgress, WorkerPanic, WorkerResult, WorkerSave,
                WorkerRelease
  <2>3. ASSUME NEW c \in Clients, ClientStep(c)
        PROVE  DownIsIdle'
    BY <2>3 DEF ClientStep, CancelRead, RetryRead, DeleteCheck, CancelLookup, CancelWrite,
                RetryWrite, DeleteWrite, Request, Reply, Kick
  <2>4. CASE ClearCompleted \/ Start \/ \E t \in Tasks : Enqueue(t)
    BY <2>4 DEF ClearCompleted, Start, Enqueue, Kick
  <2>5. CASE PollTick \/ PollExit \/ CloseCancel \/ CloseDone \/ ProcessExit
    BY <2>5 DEF PollTick, PollExit, CloseCancel, CloseDone, ProcessExit
  <2>6. CASE UNCHANGED vars
    BY <2>6 DEF vars
  <2> QED BY <2>1, <2>2, <2>3, <2>4, <2>5, <2>6 DEF Next
<1>4. BatchesSubmitted'
  <2> USE <1>1, <1>2 DEF LInv, BatchesSubmitted, TypeOK
  <2>1. CASE batch' = batch
    BY <2>1
  <2>2. ASSUME NEW s \in Sched, SchedQuery(s)
        PROVE  BatchesSubmitted'
    <3>1. CASE phase # "up"
      BY <2>1, <2>2, <3>1 DEF SchedQuery
    <3>2. CASE phase = "up"
      <4>1. PICK B \in PendingBatches(slots[s]) : batch' = [batch EXCEPT ![s] = B]
        BY <2>2, <3>2 DEF SchedQuery
      <4>2. row' = row /\ \A t \in B : t \in Tasks /\ row[t] = "pending"
        BY <2>2, <4>1 DEF SchedQuery, PendingBatches, Pending
      <4> QED BY <4>1, <4>2
    <3> QED BY <3>1, <3>2
  <2>3. ASSUME NEW s \in Sched, NEW t \in Tasks, StartRegister(s, t)
        PROVE  BatchesSubmitted'
    BY <2>3 DEF StartRegister
  <2>4. ASSUME NEW s \in Sched, SchedStep(s)
        PROVE  BatchesSubmitted'
    BY <2>1, <2>2, <2>3, <2>4 DEF SchedStep, SchedCount, StartMark
  <2>5. ASSUME NEW w \in Workers, WorkerProgress(w) \/ WorkerPanic(w) \/ WorkerStep(w)
        PROVE  batch' = batch
    BY <2>5 DEF WorkerStep, WorkerProgress, WorkerPanic, WorkerResult, WorkerSave,
                WorkerRelease, schedVars
  <2>6. ASSUME NEW c \in Clients, ClientStep(c)
        PROVE  batch' = batch
    BY <2>6 DEF ClientStep, CancelRead, RetryRead, DeleteCheck, CancelLookup, CancelWrite,
                RetryWrite, DeleteWrite, schedVars
  <2>7. CASE ProcessExit
    BY <2>7 DEF ProcessExit
  <2>8. CASE \/ PollTick \/ PollExit \/ CloseCancel \/ CloseDone \/ ClearCompleted
             \/ Start \/ UNCHANGED vars \/ \E t \in Tasks : Enqueue(t)
    BY <2>1, <2>8 DEF PollTick, PollExit, CloseCancel, CloseDone, ClearCompleted, Start,
                      Enqueue, vars, schedVars
  <2> QED BY <2>1, <2>4, <2>5, <2>6, <2>7, <2>8 DEF Next
<1> QED BY <1>3, <1>4

LEMMA LeaseInvariance == Spec => []LInv
BY InitLInv, NextLInv, PTL DEF Spec

\* A write to the row of a leased task is a report of its holder, or nothing.
LEMMA WritesAreReports ==
    ASSUME TypeOK, UNCHANGED running,
           NEW t \in Tasks, running[t] # NoWorker,
           NEW s \in {"running"} \cup Final, NEW alive, Update(t, s, alive)
    PROVE  [Lease!Next]_(Lease!vars)
<1>1. CASE row' = row
  BY <1>1 DEF Lease!vars
<1>2. CASE row[t] \in Status /\ row' = [row EXCEPT ![t] = s]
  <2>1. Lease!Report(t)
    BY <1>2 DEF Lease!Report, Lease!Known, Lease!Outcomes, Status, Final
  <2> QED BY <2>1 DEF Lease!Next
<1> QED BY <1>1, <1>2 DEF Update, Updated, TypeOK, Status, Gone

\* Every step of the queue is a step of TaskLease or leaves it alone.
LEMMA StepsAreLeaseSteps ==
    LInv /\ LInv' /\ [Next]_vars => [Lease!Next]_(Lease!vars)
<1> SUFFICES ASSUME LInv, LInv', [Next]_vars
             PROVE  [Lease!Next]_(Lease!vars)
  OBVIOUS
<1> USE ConstantsAssumption
    DEF LInv, IInv, TypeOK, RequestsHaveTasks, WorkersRegistered, EntriesHaveWorkers,
        MarksHoldWorkers
<1>1. CASE UNCHANGED <<row, running>>
  BY <1>1 DEF Lease!vars
<1>2. ASSUME NEW s \in Sched, NEW t \in Tasks, StartRegister(s, t), running' # running
      PROVE  [Lease!Next]_(Lease!vars)
  <2>1. PICK w \in Workers : wpc[w] = "none" /\ running' = [running EXCEPT ![t] = w]
    BY <1>2 DEF StartRegister
  <2>2. row' = row /\ running[t] = NoWorker /\ t \in batch[s]
    BY <1>2 DEF StartRegister, Registered, IsNext
  <2>3. Lease!Grant(t, w)
    BY <2>1, <2>2 DEF Lease!Grant, BatchesSubmitted
  <2> QED BY <2>3 DEF Lease!Next
<1>3. ASSUME NEW s \in Sched, SchedStep(s)
      PROVE  [Lease!Next]_(Lease!vars)
  <2>1. CASE StartMark(s)
    <3>1. /\ wtask[started[s]] \in Tasks
          /\ running[wtask[started[s]]] # NoWorker
          /\ Update(wtask[started[s]], "running", phase = "up")
          /\ UNCHANGED running
      BY <2>1 DEF StartMark
    <3> QED BY <3>1, WritesAreReports
  <2> QED BY <1>1, <1>2, <1>3, <2>1 DEF SchedStep, SchedCount, SchedQuery, StartRegister
<1>4. ASSUME NEW w \in Workers, WorkerProgress(w) \/ WorkerPanic(w) \/ WorkerStep(w)
      PROVE  [Lease!Next]_(Lease!vars)
  <2>1. ASSUME wpc[w] # "none"
        PROVE  wtask[w] \in Tasks /\ running[wtask[w]] = w /\ w # NoWorker
    BY <2>1
  <2>2. CASE WorkerProgress(w)
    <3>1. /\ wpc[w] # "none" /\ UNCHANGED running
          /\ Update(wtask[w], "running", ~ContextDone(w))
      BY <2>2 DEF WorkerProgress
    <3> QED BY <2>1, <3>1, WritesAreReports
  <2>3. CASE WorkerSave(w)
    <3>1. /\ wpc[w] # "none" /\ UNCHANGED running
          /\ Update(wtask[w], result[w], phase = "up") /\ result[w] \in Final
      BY <2>3 DEF WorkerSave
    <3> QED BY <2>1, <3>1, WritesAreReports
  <2>4. CASE WorkerRelease(w)
    <3>1. Lease!Return(wtask[w])
      BY <2>1, <2>4 DEF WorkerRelease, Unregistered, Lease!Return
    <3> QED BY <2>1, <2>4, <3>1 DEF Lease!Next, WorkerRelease
  <2> QED BY <1>1, <1>4, <2>2, <2>3, <2>4 DEF WorkerStep, WorkerPanic, WorkerResult
<1>5. ASSUME NEW t \in Tasks, UNCHANGED running, row[t] \in Status,
             NEW s \in {"cancelled", "pending"}, row' = [row EXCEPT ![t] = s]
      PROVE  [Lease!Next]_(Lease!vars)
  <2>1. Lease!Request(t)
    BY <1>5 DEF Lease!Request, Lease!Known, Lease!Outcomes, Status, Final
  <2> QED BY <2>1 DEF Lease!Next
<1>6. ASSUME NEW T \in SUBSET Tasks, UNCHANGED running,
             \A t \in T : row[t] # "absent",
             row' = [t \in Tasks |-> IF t \in T THEN "deleted" ELSE row[t]]
      PROVE  [Lease!Next]_(Lease!vars)
  <2>1. Lease!Discard(T)
    BY <1>6 DEF Lease!Discard
  <2> QED BY <2>1 DEF Lease!Next
<1>7. ASSUME NEW c \in Clients, ClientStep(c)
      PROVE  [Lease!Next]_(Lease!vars)
  <2>1. CASE CancelWrite(c)
    <3>1. ctask[c] \in Tasks /\ UNCHANGED running
          /\ (row' = row \/ row' = Updated(ctask[c], "cancelled"))
      BY <2>1 DEF CancelWrite, Update
    <3> QED BY <1>1, <1>5, <3>1 DEF Updated, Gone
  <2>2. CASE RetryWrite(c)
    <3>1. ctask[c] \in Tasks /\ UNCHANGED running
          /\ (row' = row \/ row' = Updated(ctask[c], "pending"))
      BY <2>2 DEF RetryWrite
    <3> QED BY <1>1, <1>5, <3>1 DEF Updated, Gone
  <2>3. CASE DeleteWrite(c)
    <3>1. ctask[c] \in Tasks /\ UNCHANGED running
          /\ (row' = row \/ row' = Updated(ctask[c], "deleted"))
      BY <2>3 DEF DeleteWrite, Update
    <3>2. CASE row[ctask[c]] \in Status
                /\ row' = [row EXCEPT ![ctask[c]] = "deleted"]
      <4>1. row' = [t \in Tasks |-> IF t \in {ctask[c]} THEN "deleted" ELSE row[t]]
        BY <3>1, <3>2
      <4>2. row[ctask[c]] # "absent"
        BY <3>2 DEF Status, Final
      <4>3. {ctask[c]} \in SUBSET Tasks /\ \A t \in {ctask[c]} : row[t] # "absent"
        BY <3>1, <4>2
      <4>4. UNCHANGED running
        BY <3>1
      <4> HIDE DEF LInv
      <4> QED BY <1>6, <4>1, <4>3, <4>4
    <3> QED BY <1>1, <3>1, <3>2 DEF Updated, Gone
  <2> QED BY <1>1, <1>7, <2>1, <2>2, <2>3
          DEF ClientStep, CancelRead, RetryRead, DeleteCheck, CancelLookup
<1>8. CASE ClearCompleted
  <2>1. row' = [t \in Tasks |->
                  IF t \in {u \in Tasks : row[u] = "completed"} THEN "deleted" ELSE row[t]]
    BY <1>8 DEF ClearCompleted
  <2> QED BY <1>6, <1>8, <2>1 DEF ClearCompleted
<1>9. ASSUME NEW t \in Tasks, Enqueue(t)
      PROVE  [Lease!Next]_(Lease!vars)
  <2>1. Lease!Submit(t)
    BY <1>9 DEF Enqueue, Lease!Submit, workerVars
  <2> QED BY <2>1 DEF Lease!Next
<1>10. CASE Start
  <2>1. Lease!Recover
    BY <1>10 DEF Start, ResetRunningTasks, Lease!Recover, DownIsIdle
  <2> QED BY <2>1 DEF Lease!Next
<1>11. CASE ProcessExit
  <2>1. Lease!Crash
    BY <1>11 DEF ProcessExit, Lease!Crash
  <2> QED BY <2>1 DEF Lease!Next
<1>12. CASE PollTick \/ PollExit \/ CloseCancel \/ CloseDone \/ UNCHANGED vars
  BY <1>1, <1>12 DEF PollTick, PollExit, CloseCancel, CloseDone, vars
<1> QED
  BY <1>3, <1>4, <1>7, <1>8, <1>9, <1>10, <1>11, <1>12 DEF Next

\* The queue implements TaskLease, for any number of tasks, goroutines and requests,
\* with failing writes, panics, shutdowns and crashes at any step.
THEOREM QueueIsALease == Spec => ImplementsTaskLease
<1>1. Init => Lease!Init
  BY DEF Init, Lease!Init
<1> QED
  BY <1>1, LeaseInvariance, StepsAreLeaseSteps, PTL
     DEF Spec, ImplementsTaskLease, Lease!Spec
=============================================================================
