------------------------------- MODULE TaskLease -------------------------------
(***************************************************************************)
(* What the post-processing queue promises, without its goroutines: a task *)
(* that was submitted is leased to at most one worker, a worker holds at   *)
(* most one lease, only the holder of a lease reports that a task runs,    *)
(* completed or failed, a discarded task is never heard of again, and the  *)
(* end of the process returns every lease.                                 *)
(***************************************************************************)
CONSTANTS Tasks, Workers, NoWorker

VARIABLES
    status,     \* what is known of a task
    holder      \* the worker a task is leased to

vars == <<status, holder>>

Outcomes == {"completed", "failed", "cancelled"}
Known == {"pending", "running"} \cup Outcomes

Init ==
    /\ status = [t \in Tasks |-> "absent"]
    /\ holder = [t \in Tasks |-> NoWorker]

Submit(t) ==
    /\ status[t] = "absent"
    /\ status' = [status EXCEPT ![t] = "pending"]
    /\ UNCHANGED holder

\* A task that exists, or that was discarded while it waited, is given to a worker
\* that has none.
Grant(t, w) ==
    /\ status[t] # "absent"
    /\ holder[t] = NoWorker
    /\ \A u \in Tasks : holder[u] # w
    /\ holder' = [holder EXCEPT ![t] = w]
    /\ UNCHANGED status

\* Only the holder knows how the task is doing.
Report(t) ==
    /\ holder[t] # NoWorker
    /\ status[t] \in Known
    /\ \E s \in {"running"} \cup Outcomes : status' = [status EXCEPT ![t] = s]
    /\ UNCHANGED holder

\* A request withdraws or resubmits a task, whoever holds it.
Request(t) ==
    /\ status[t] \in Known
    /\ \E s \in {"cancelled", "pending"} : status' = [status EXCEPT ![t] = s]
    /\ UNCHANGED holder

Discard(T) ==
    /\ \A t \in T : status[t] # "absent"
    /\ status' = [t \in Tasks |-> IF t \in T THEN "deleted" ELSE status[t]]
    /\ UNCHANGED holder

Return(t) ==
    /\ holder[t] # NoWorker
    /\ holder' = [holder EXCEPT ![t] = NoWorker]
    /\ UNCHANGED status

Crash ==
    /\ holder' = [t \in Tasks |-> NoWorker]
    /\ UNCHANGED status

\* Nobody holds a task: what was running waits again.
Recover ==
    /\ \A t \in Tasks : holder[t] = NoWorker
    /\ status' = [t \in Tasks |-> IF status[t] = "running" THEN "pending" ELSE status[t]]
    /\ UNCHANGED holder

Next ==
    \/ \E t \in Tasks : Submit(t) \/ Report(t) \/ Request(t) \/ Return(t)
    \/ \E t \in Tasks, w \in Workers : Grant(t, w)
    \/ \E T \in SUBSET Tasks : Discard(T)
    \/ Crash
    \/ Recover

Spec == Init /\ [][Next]_vars
=============================================================================
