--------------------------- MODULE RecorderManager ---------------------------
(***************************************************************************)
(* The recorder manager of src/src/recorders/manager.go and the recorders  *)
(* of src/src/recorders/recorder.go that it owns, for one live room (every *)
(* operation touches the entry of one room only).                          *)
(*                                                                         *)
(* savers holds the room's recorder.  A recorder runs a goroutine that     *)
(* records segment files until it is closed and then sends one summary of  *)
(* its files.  A segment restart swaps the recorder under the lock and     *)
(* then, outside it, closes the old one and hands its files to the new.    *)
(* Event handlers, API requests and the cronRestart chain that every       *)
(* recorder brings with it all run concurrently.                           *)
(*                                                                         *)
(* One action is one critical section of m.lock, of recordedFilesMu, or    *)
(* one step of a recorder's goroutine between them.                        *)
(***************************************************************************)
EXTENDS Integers, FiniteSets, Sequences

CONSTANTS
    MaxRecs,    \* bounds the recorders created in a behaviour
    Handlers,   \* goroutines of event handlers and API requests; bounds how many run at once
    Splitting,  \* whether VideoSplitStrategies.MaxDuration is set
    Panics,     \* whether tryRecord may panic (run() recovers and returns)
    NoRec

Recs  == 1..MaxRecs          \* recorders, and the cronRestart chain started with each
Procs == Handlers \cup Recs  \* who may call RestartRecorder

ASSUME ConstantsAssumption ==
    /\ MaxRecs \in Nat
    /\ IsFiniteSet(Handlers)
    /\ Handlers \cap Recs = {}
    /\ Splitting \in BOOLEAN
    /\ Panics \in BOOLEAN
    /\ NoRec \notin Recs

VARIABLES
    \* manager
    savers,     \* savers[room], or NoRec
    restarting, \* restartingCount
    created,    \* how many recorders were created; the next one is created + 1
    \* recorders
    state,      \* begin, pending and running are one: they pass under m.lock
    run,        \* where the goroutine of run() is
    files,      \* recordedFiles; the segment of recorder r is called r
    recorded,   \* recorders whose segment is complete and accumulated
    suppress,   \* recorders with suppressSummary set
    aged,       \* recorders that reached MaxDuration
    \* callers
    pc, old, new, carried,
    \* observers of the notifications
    sent,       \* sent[r]: the summary recorder r sent
    skipped,    \* segments whose hand-over was skipped with a warning
    late        \* segments handed to a recorder that nobody reads any more

managerVars  == <<savers, restarting, created>>
recorderVars == <<state, run, files, recorded, suppress, aged>>
callerVars   == <<pc, old, new, carried>>
observerVars == <<sent, skipped, late>>
vars == <<managerVars, recorderVars, callerVars, observerVars>>

\* The steps of RestartRecorder after the lock is released.
Restart == {"suppress", "close", "wait", "check", "handover", "uncount"}

TypeOK ==
    /\ savers \in Recs \cup {NoRec}
    /\ restarting \in Int
    /\ created \in 0..MaxRecs
    /\ state \in [Recs -> {"none", "running", "stopped"}]
    /\ run \in [Recs -> {"none", "loop", "summary", "exit", "done"}]
    /\ files \in [Recs -> Seq(Recs)]
    /\ recorded \subseteq Recs
    /\ suppress \subseteq Recs
    /\ aged \subseteq Recs
    /\ pc \in [Procs -> {"idle", "add", "remove_has", "remove", "restart_has",
                         "timer", "swap"} \cup Restart]
    /\ old \in [Procs -> Recs \cup {NoRec}]
    /\ new \in [Procs -> Recs \cup {NoRec}]
    /\ carried \in [Procs -> Seq(Recs)]
    /\ sent \in [Recs -> Seq(Recs)]
    /\ skipped \subseteq Recs
    /\ late \subseteq Recs

Elements(seq) == {seq[i] : i \in 1..Len(seq)}

------------------------------------------------------------------------------
(* The manager: what happens under m.lock *)

Goto(p, next) == pc' = [pc EXCEPT ![p] = next]

Return(p) ==
    /\ Goto(p, "idle")
    /\ old' = [old EXCEPT ![p] = NoRec]
    /\ new' = [new EXCEPT ![p] = NoRec]
    /\ carried' = [carried EXCEPT ![p] = <<>>]

\* addRecorderLocked for a free entry: create, store, Start (which spawns run()).
\* MaxRecs bounds the recorders of a behaviour.
CreateRecorder ==
    /\ created < MaxRecs
    /\ created' = created + 1
    /\ savers' = created + 1
    /\ state' = [state EXCEPT ![created + 1] = "running"]
    /\ run' = [run EXCEPT ![created + 1] = "loop"]

\* Mutant: only the first recorder gets a chain, as if the chain outlived its restart.
CronOfFirst(r, pcs) == IF Splitting /\ savers = NoRec THEN [pcs EXCEPT ![r] = "timer"] ELSE pcs

\* The cronRestart goroutine addRecorderLocked spawns, if segments are split.
CronOf(r, pcs) == IF Splitting THEN [pcs EXCEPT ![r] = "timer"] ELSE pcs

\* Mutant: Close makes the recorder startable again.
ClosedReset(r) == [state EXCEPT ![r] = "begin"]

\* recorder.Close: CAS to stopped, close(stop), stop the parser; once only.
Closed(r) == [state EXCEPT ![r] = "stopped"]

\* AddRecorder (LiveStart, or the API).
Add(h) ==
    /\ pc[h] = "add"
    /\ \/ /\ savers # NoRec      \* ErrRecorderExist
          /\ Goto(h, "idle")
          /\ UNCHANGED <<managerVars, state, run>>
       \/ /\ savers = NoRec
          /\ CreateRecorder
          /\ pc' = CronOf(created + 1, [pc EXCEPT ![h] = "idle"])
          /\ UNCHANGED restarting
    /\ UNCHANGED <<files, recorded, suppress, aged, old, new, carried, observerVars>>

\* HasRecorder, a critical section of its own before RemoveRecorder.
RemoveHas(h) ==
    /\ pc[h] = "remove_has"
    /\ Goto(h, IF savers = NoRec THEN "idle" ELSE "remove")
    /\ UNCHANGED <<managerVars, recorderVars, old, new, carried, observerVars>>

\* RemoveRecorder (LiveEnd, ListenStop, or the API): close and delete.
Remove(h) ==
    /\ pc[h] = "remove"
    /\ \/ /\ savers = NoRec      \* ErrRecorderNotExist
          /\ UNCHANGED <<savers, state>>
       \/ /\ savers # NoRec
          /\ state' = Closed(savers)
          /\ savers' = NoRec
    /\ Goto(h, "idle")
    /\ UNCHANGED <<restarting, created, run, files, recorded, suppress, aged,
                   old, new, carried, observerVars>>

\* HasRecorder before RestartRecorder (RoomNameChanged, or a stream switch).
RestartHas(h) ==
    /\ pc[h] = "restart_has"
    /\ Goto(h, IF savers = NoRec THEN "idle" ELSE "swap")
    /\ UNCHANGED <<managerVars, recorderVars, old, new, carried, observerVars>>

\* Mutant: a recorder that is too young ends the chain.
CronCheckOnce(r) ==
    /\ pc[r] = "timer"
    /\ Goto(r, IF savers # NoRec /\ savers \in aged THEN "swap" ELSE "idle")
    /\ UNCHANGED <<managerVars, recorderVars, old, new, carried, observerVars>>

\* cronRestart: fires for the room's current recorder.  The chain ends when there
\* is none, and re-arms its 15 second timer (no step) while it is too young.
CronCheck(r) ==
    /\ pc[r] = "timer"
    /\ \/ /\ savers = NoRec
          /\ Goto(r, "idle")
       \/ /\ savers \in aged
          /\ Goto(r, "swap")
    /\ UNCHANGED <<managerVars, recorderVars, old, new, carried, observerVars>>

\* Mutant: HasRecorder was true, so the entry is not checked again under the lock.
SwapUnchecked(p) ==
    /\ pc[p] = "swap"
    /\ CreateRecorder
    /\ restarting' = restarting + 1
    /\ old' = [old EXCEPT ![p] = savers]
    /\ new' = [new EXCEPT ![p] = created + 1]
    /\ pc' = CronOf(created + 1, [pc EXCEPT ![p] = IF savers = NoRec THEN "uncount" ELSE "suppress"])
    /\ UNCHANGED <<files, recorded, suppress, aged, carried, observerVars>>

\* RestartRecorder under m.lock: take the old recorder out, put a new one in,
\* count the restart.
Swap(p) ==
    /\ pc[p] = "swap"
    /\ \/ /\ savers = NoRec      \* ErrRecorderNotExist
          /\ Goto(p, "idle")
          /\ UNCHANGED <<managerVars, state, run, old, new>>
       \/ /\ savers # NoRec
          /\ CreateRecorder
          /\ restarting' = restarting + 1
          /\ old' = [old EXCEPT ![p] = savers]
          /\ new' = [new EXCEPT ![p] = created + 1]
          /\ pc' = CronOf(created + 1, [pc EXCEPT ![p] = "suppress"])
    /\ UNCHANGED <<files, recorded, suppress, aged, carried, observerVars>>

------------------------------------------------------------------------------
(* RestartRecorder after the unlock: CloseForRestart and the hand-over *)

\* CloseForRestart: suppressSummary = true under recordedFilesMu.
RestartSuppress(p) ==
    /\ pc[p] = "suppress"
    /\ suppress' = suppress \cup {old[p]}
    /\ Goto(p, "close")
    /\ UNCHANGED <<managerVars, state, run, files, recorded, aged,
                   old, new, carried, observerVars>>

\* Mutant: the old recorder is not closed.
RestartCloseSkipped(p) ==
    /\ pc[p] = "close"
    /\ Goto(p, "wait")
    /\ UNCHANGED <<managerVars, recorderVars, old, new, carried, observerVars>>

\* CloseForRestart: Close.
RestartClose(p) ==
    /\ pc[p] = "close"
    /\ state' = Closed(old[p])
    /\ Goto(p, "wait")
    /\ UNCHANGED <<managerVars, run, files, recorded, suppress, aged,
                   old, new, carried, observerVars>>

\* CloseForRestart: <-r.done, then the accumulated files.
RestartTake(p) ==
    /\ pc[p] = "wait"
    /\ run[old[p]] = "done"
    /\ carried' = [carried EXCEPT ![p] = files[old[p]]]
    /\ Goto(p, IF files[old[p]] = <<>> THEN "uncount" ELSE "check")
    /\ UNCHANGED <<managerVars, recorderVars, old, new, observerVars>>

\* Under m.lock.RLock: is the new recorder still the room's?  If not, the files
\* are skipped with a warning.
RestartCheck(p) ==
    /\ pc[p] = "check"
    /\ IF savers = new[p]
       THEN /\ Goto(p, "handover")
            /\ UNCHANGED <<carried, skipped>>
       ELSE /\ Goto(p, "uncount")
            /\ skipped' = skipped \cup Elements(carried[p])
            /\ carried' = [carried EXCEPT ![p] = <<>>]
    /\ UNCHANGED <<managerVars, recorderVars, old, new, sent, late>>

\* A restart still has to take the files of r.
ToBeTaken(r) == \E p \in Procs : pc[p] \in {"suppress", "close", "wait"} /\ old[p] = r

\* Mutants: the old files replace the new recorder's, or follow them.
HandedOverReplacing(p) == carried[p]
HandedOverLast(p) == files[new[p]] \o carried[p]

\* SetInitialRecordedFiles: the old files come first.
HandedOver(p) == carried[p] \o files[new[p]]

\* SetInitialRecordedFiles, called with m.lock released.
RestartHandover(p) ==
    /\ pc[p] = "handover"
    /\ files' = [files EXCEPT ![new[p]] = HandedOver(p)]
    /\ late' = IF run[new[p]] \in {"exit", "done"} /\ ~ToBeTaken(new[p])
               THEN late \cup Elements(carried[p]) ELSE late
    /\ carried' = [carried EXCEPT ![p] = <<>>]
    /\ Goto(p, "uncount")
    /\ UNCHANGED <<managerVars, state, run, recorded, suppress, aged,
                   old, new, sent, skipped>>

\* The deferred restartingCount.Add(-1).
RestartDone(p) ==
    /\ pc[p] = "uncount"
    /\ restarting' = restarting - 1
    /\ Return(p)
    /\ UNCHANGED <<savers, created, recorderVars, observerVars>>

------------------------------------------------------------------------------
(* A recorder's goroutine *)

\* tryRecord completes a segment: accumulateRecordedFiles.  This may be after
\* Close, for the segment the parser was stopped in.  One segment per recorder.
RunSegment(r) ==
    /\ run[r] = "loop"
    /\ r \notin recorded
    /\ files' = [files EXCEPT ![r] = Append(@, r)]
    /\ recorded' = recorded \cup {r}
    /\ UNCHANGED <<managerVars, state, run, suppress, aged, callerVars, observerVars>>

\* A panic of tryRecord is recovered: the goroutine ends without a Close.
RunPanic(r) ==
    /\ Panics
    /\ run[r] = "loop"
    /\ run' = [run EXCEPT ![r] = "summary"]
    /\ UNCHANGED <<managerVars, state, files, recorded, suppress, aged, callerVars, observerVars>>

\* The loop sees r.stop.
RunLeave(r) ==
    /\ run[r] = "loop"
    /\ state[r] = "stopped"
    /\ run' = [run EXCEPT ![r] = "summary"]
    /\ UNCHANGED <<managerVars, state, files, recorded, suppress, aged, callerVars, observerVars>>

\* The deferred sendAccumulatedSummary, under recordedFilesMu.
RunSummary(r) ==
    /\ run[r] = "summary"
    /\ run' = [run EXCEPT ![r] = "exit"]
    /\ sent' = IF r \in suppress THEN sent ELSE [sent EXCEPT ![r] = files[r]]
    /\ UNCHANGED <<managerVars, state, files, recorded, suppress, aged, callerVars, skipped, late>>

\* Mutant: the return for suppressed summaries comes before close(r.done).
RunDoneUnlessSuppressed(r) ==
    /\ run[r] = "exit"
    /\ r \notin suppress
    /\ run' = [run EXCEPT ![r] = "done"]
    /\ UNCHANGED <<managerVars, state, files, recorded, suppress, aged, callerVars, observerVars>>

\* The deferred close(r.done).
RunDone(r) ==
    /\ run[r] = "exit"
    /\ run' = [run EXCEPT ![r] = "done"]
    /\ UNCHANGED <<managerVars, state, files, recorded, suppress, aged, callerVars, observerVars>>

\* Time passes: a recorder reaches MaxDuration, older ones before younger ones.
Age(r) ==
    /\ Splitting
    /\ r <= created
    /\ aged = 1..(r - 1)
    /\ aged' = 1..r
    /\ UNCHANGED <<managerVars, state, run, files, recorded, suppress, callerVars, observerVars>>

------------------------------------------------------------------------------
(* Requests, and the shutdown *)

Begin(h, op) ==
    /\ pc[h] = "idle"
    /\ Goto(h, op)
    /\ UNCHANGED <<managerVars, recorderVars, old, new, carried, observerVars>>

\* manager.Close: close and delete every recorder under m.lock.
Shutdown ==
    /\ savers # NoRec
    /\ state' = Closed(savers)
    /\ savers' = NoRec
    /\ UNCHANGED <<restarting, created, run, files, recorded, suppress, aged,
                   callerVars, observerVars>>

------------------------------------------------------------------------------
Init ==
    /\ savers = NoRec
    /\ restarting = 0
    /\ created = 0
    /\ state = [r \in Recs |-> "none"]
    /\ run = [r \in Recs |-> "none"]
    /\ files = [r \in Recs |-> <<>>]
    /\ recorded = {} /\ suppress = {} /\ aged = {}
    /\ pc = [p \in Procs |-> "idle"]
    /\ old = [p \in Procs |-> NoRec]
    /\ new = [p \in Procs |-> NoRec]
    /\ carried = [p \in Procs |-> <<>>]
    /\ sent = [r \in Recs |-> <<>>]
    /\ skipped = {} /\ late = {}

RestartStep(p) ==
    \/ Swap(p)
    \/ RestartSuppress(p)
    \/ RestartClose(p)
    \/ RestartTake(p)
    \/ RestartCheck(p)
    \/ RestartHandover(p)
    \/ RestartDone(p)

HandlerStep(h) == Add(h) \/ RemoveHas(h) \/ Remove(h) \/ RestartHas(h)

RunStep(r) == RunSegment(r) \/ RunLeave(r) \/ RunSummary(r) \/ RunDone(r)

ManagerNext ==
    \/ \E p \in Procs : RestartStep(p)
    \/ \E h \in Handlers : HandlerStep(h)
    \/ \E r \in Recs : CronCheck(r) \/ RunStep(r) \/ RunPanic(r) \/ Age(r)

Next ==
    \/ ManagerNext
    \/ \E h \in Handlers, op \in {"add", "remove_has", "restart_has"} : Begin(h, op)
    \/ Shutdown

Spec == Init /\ [][Next]_vars

\* Goroutines are scheduled, timers fire, and a stopped parser returns.
Fairness ==
    /\ \A p \in Procs : WF_vars(RestartStep(p))
    /\ \A h \in Handlers : WF_vars(HandlerStep(h))
    /\ \A r \in Recs : WF_vars(RunStep(r)) /\ WF_vars(CronCheck(r))

FairSpec == Spec /\ Fairness

------------------------------------------------------------------------------
(* Properties *)

\* Mutant: only the map is counted.
ActiveCountOfMap == IF savers = NoRec THEN 0 ELSE 1

\* GetActiveRecordingsCount, for this room.
ActiveCount == (IF savers = NoRec THEN 0 ELSE 1) + restarting

\* The recorders that still record: not closed, or closed by a restart that still
\* waits for the last segment.
Active == {r \in Recs :
    \/ state[r] = "running"
    \/ \E p \in Procs : pc[p] \in Restart /\ old[p] = r /\ run[r] # "done"}

\* The comment on restartingCount: whatever restarts and removals overlap, the
\* count never misses a recorder that is still at work.
ActiveNeverMissed == Cardinality(Active) <= ActiveCount

\* No recorder is leaked: one that was not closed is the room's, or a restart is
\* about to close it; and no two restarts close the same one.
NoLeakedRecorder ==
    /\ \A r \in Recs : state[r] = "running" =>
            \/ savers = r
            \/ \E p \in Procs : pc[p] \in {"suppress", "close"} /\ old[p] = r
    /\ \A p, q \in Procs :
            (p # q /\ pc[p] \in Restart /\ pc[q] \in Restart) => old[p] # old[q]

\* The segments a recorder still has to report: in its list with its summary
\* unsent, or suppressed and not yet taken by the restart.
Unreported(r) ==
    IF run[r] \in {"loop", "summary"} \/ ToBeTaken(r)
    THEN Elements(files[r]) ELSE {}

\* Every complete segment is in a recorder's list, on its way to the next
\* recorder, in a summary, or in one of the two sets of losses below: restarts
\* lose nothing anywhere else.
SegmentsAccounted ==
    \A f \in recorded :
        \/ \E r \in Recs : f \in Unreported(r) \/ f \in Elements(sent[r])
        \/ \E p \in Procs : f \in Elements(carried[p])
        \/ f \in skipped \cup late

\* Within a summary the segments are in recording order, without duplicates, and
\* no segment is in two summaries: a restart neither sends its own summary nor
\* lets a list be handed over twice.
SummariesOrdered ==
    /\ \A r \in Recs : \A i, j \in 1..Len(sent[r]) : i < j => sent[r][i] < sent[r][j]
    /\ \A r, q \in Recs : r # q => Elements(sent[r]) \cap Elements(sent[q]) = {}

\* A restart always ends: waiting for the old recorder's goroutine, it holds no
\* lock that the goroutine, or whoever stops it, needs.
RestartsEnd == \A p \in Procs : (pc[p] \in Restart) ~> (pc[p] \notin Restart)

\* A closed recorder's goroutine ends.
ClosedRecordersEnd == \A r \in Recs : (state[r] = "stopped") ~> (run[r] = "done")

\* manager.go:235 confirms the new recorder "under the lock" so that the old
\* files reach a recorder that will report them; a miss is to be logged.
NoSilentLoss == late = {}

\* While segments are split, the room's recorder has its own cronRestart chain
\* running, whatever other chains ended or restarted it meanwhile: no sequence of
\* removals and restarts leaves a recording that is never split again.
SplitChainAlive ==
    (Splitting /\ savers # NoRec) => pc[savers] \in {"timer", "swap"}

\* A recorder that reached MaxDuration does not stay the room's recorder.
\* (The last recorder of the bound cannot be replaced.)
LongRecordingsSplit ==
    \A r \in 1..(MaxRecs - 1) : (savers = r /\ r \in aged) ~> (savers # r)
=============================================================================
