---------------------------- MODULE RoomLifecycle ----------------------------
(***************************************************************************)
(* One live room from end to end: the listeners of src/src/listeners that  *)
(* poll the platform, the event dispatcher of src/src/pkg/events and the   *)
(* recorder manager (RecorderManager) that its events drive.               *)
(*                                                                         *)
(* DispatchEvent spawns a goroutine per event, so a handler runs at any    *)
(* time after its event and events may overtake one another.  A listener   *)
(* that is closed may still be inside GetInfo or processInfo.              *)
(***************************************************************************)
EXTENDS RecorderManager

CONSTANTS
    MaxListeners,  \* bounds the listeners started in a behaviour
    Prompt,        \* whether a handler reaches the manager's lock before the next event
    Interrupts,    \* whether a listener may be stopped with an answer in hand
    OtherEnds      \* whether recordings also end by the API or by the stream source

Listeners == 1..MaxListeners

ASSUME LifecycleAssumption ==
    /\ MaxListeners \in Nat
    /\ Prompt \in BOOLEAN
    /\ Interrupts \in BOOLEAN
    /\ OtherEnds \in BOOLEAN

VARIABLES
    lstate,   \* "none", "running" (the entry of the listener manager), "stopped"
    lpc,      \* where the goroutine of refresh() and run() is
    linfo,    \* the answer it loaded last: "offline", "live", "renamed" (live, other name)
    lstatus,  \* status.roomStatus
    ended     \* whether the API or the stream source ended the recording of this broadcast

listenerVars  == <<lstate, lpc, linfo, lstatus, ended>>
lifecycleVars == <<vars, listenerVars>>

LifecycleTypeOK ==
    /\ TypeOK
    /\ lstate \in [Listeners -> {"none", "running", "stopped"}]
    /\ lpc \in [Listeners -> {"none", "refresh", "fetch", "process", "ended"}]
    /\ linfo \in [Listeners -> {"offline", "live", "renamed"}]
    /\ lstatus \in [Listeners -> BOOLEAN]
    /\ ended \in BOOLEAN

------------------------------------------------------------------------------
(* Events *)

\* A handler that has not reached its critical section yet.
Early == {"add", "remove_has", "remove", "restart_has", "swap"}

\* DispatchEvent: a goroutine that will run the recorder manager's handler.
Dispatch(op) ==
    /\ Prompt => \A h \in Handlers : pc[h] \notin Early
    /\ \E h \in Handlers : Begin(h, op)

------------------------------------------------------------------------------
(* Listeners *)

Monitored == \E l \in Listeners : lstate[l] = "running"

\* AddListener: newListener, Start (ListenStart changes no state).
AddListener(l) ==
    /\ ~Monitored
    /\ lstate[l] = "none"
    /\ \A k \in 1..(l - 1) : lstate[k] = "stopped"
    /\ lstate' = [lstate EXCEPT ![l] = "running"]
    /\ lpc' = [lpc EXCEPT ![l] = "refresh"]
    /\ UNCHANGED <<vars, linfo, lstatus, ended>>

\* RemoveListener: Close dispatches ListenStop and cancels the run loop.
RemoveListener(l) ==
    /\ lstate[l] = "running"
    /\ Interrupts \/ lpc[l] = "fetch"
    /\ lstate' = [lstate EXCEPT ![l] = "stopped"]
    /\ Dispatch("remove_has")
    /\ UNCHANGED <<lpc, linfo, lstatus, ended>>

\* GetInfo of the first refresh takes no context and may outlive Close;
\* GetInfoWithInterval gives up once runCtx is cancelled.
LoadInfo(l) ==
    /\ \/ lpc[l] = "refresh"
       \/ lpc[l] = "fetch" /\ lstate[l] = "running"
    /\ \E info \in {"offline", "live", "renamed"} : linfo' = [linfo EXCEPT ![l] = info]
    /\ lpc' = [lpc EXCEPT ![l] = "process"]
    /\ UNCHANGED <<vars, lstate, lstatus, ended>>

\* The first refresh fails; run() starts polling.
RefreshFailed(l) ==
    /\ lpc[l] = "refresh"
    /\ lpc' = [lpc EXCEPT ![l] = "fetch"]
    /\ UNCHANGED <<vars, lstate, linfo, lstatus, ended>>

\* Mutant: a changed name is taken for the end of the broadcast.
DiffMixed(was, info) ==
    CASE ~was /\ info # "offline" -> "add"
      [] was /\ info # "live"     -> "remove_has"
      [] OTHER                    -> "none"

\* status.Diff, and what the recorder manager does for the event of the outcome.
Diff(was, info) ==
    CASE ~was /\ info # "offline" -> "add"          \* LiveStart
      [] was /\ info = "offline"  -> "remove_has"   \* LiveEnd
      [] was /\ info = "renamed"  -> "restart_has"  \* RoomNameChanged
      [] OTHER                    -> "none"

\* processInfo: Diff against the stored status, dispatch, store the new status
\* (deferred, so on the early return for an ignored rename too).
ProcessInfo(l) ==
    /\ lpc[l] = "process"
    /\ LET event == Diff(lstatus[l], linfo[l]) IN
       \/ event # "none" /\ Dispatch(event)
       \* nothing changed, or a rename without VideoSplitStrategies.OnRoomNameChanged
       \/ event \in {"none", "restart_has"} /\ UNCHANGED vars
    /\ lstatus' = [lstatus EXCEPT ![l] = linfo[l] # "offline"]
    /\ ended' = (ended /\ Diff(lstatus[l], linfo[l]) # "add")
    /\ lpc' = [lpc EXCEPT ![l] = "fetch"]
    /\ UNCHANGED <<lstate, linfo>>

\* run() sees l.stop, or its cancelled context.
ListenerExit(l) ==
    /\ lstate[l] = "stopped"
    /\ lpc[l] = "fetch"
    /\ lpc' = [lpc EXCEPT ![l] = "ended"]
    /\ UNCHANGED <<vars, lstate, linfo, lstatus, ended>>

------------------------------------------------------------------------------
(* Other ways to start and to end a recording *)

\* POST start-recording: monitored, live by the cached answer, not recording.
StartRecording ==
    /\ \E l \in Listeners : lstate[l] = "running" /\ linfo[l] # "offline"
    /\ savers = NoRec
    /\ Dispatch("add")
    /\ UNCHANGED listenerVars

\* POST stop-recording.
StopRecording ==
    /\ OtherEnds
    /\ savers # NoRec
    /\ Dispatch("remove_has")
    /\ ended' = TRUE
    /\ UNCHANGED <<lstate, lpc, linfo, lstatus>>

\* stopRetryForExplicitOffline: a recorder is told that the room is offline.
RunOffline(r) ==
    /\ OtherEnds
    /\ run[r] = "loop"
    /\ Dispatch("remove_has")
    /\ ended' = TRUE
    /\ UNCHANGED <<lstate, lpc, linfo, lstatus>>

------------------------------------------------------------------------------
LifecycleInit ==
    /\ Init
    /\ lstate = [l \in Listeners |-> "none"]
    /\ lpc = [l \in Listeners |-> "none"]
    /\ linfo = [l \in Listeners |-> "offline"]
    /\ lstatus = [l \in Listeners |-> FALSE]
    /\ ended = FALSE

LifecycleNext ==
    \/ ManagerNext /\ UNCHANGED listenerVars
    \/ \E l \in Listeners :
        \/ AddListener(l)
        \/ RemoveListener(l)
        \/ LoadInfo(l)
        \/ RefreshFailed(l)
        \/ ProcessInfo(l)
        \/ ListenerExit(l)
    \/ \E r \in Recs : RunOffline(r)
    \/ StartRecording
    \/ StopRecording

LifecycleSpec == LifecycleInit /\ [][LifecycleNext]_lifecycleVars

------------------------------------------------------------------------------
(* Properties *)

\* Nothing is under way: every event has been handled, every answer processed.
Quiet ==
    /\ \A h \in Handlers : pc[h] = "idle"
    /\ \A l \in Listeners : lpc[l] # "process"

\* A recorder never survives the monitoring of its room, or its room's going
\* offline, however LiveEnd and ListenStop overlap with the restarts of cron chains
\* and renames: the zombie recorder of recorders/manager_test.go:153.
NoZombieRecorder ==
    (Quiet /\ \A l \in Listeners : lstate[l] = "running" => ~lstatus[l]) => savers = NoRec

\* A monitored room that its listener holds for live is being recorded: no restart
\* and no late removal of an earlier recording takes the recorder away for good.
\* (A recording that was ended by the API or the stream source stays ended.)
NoMissedLive ==
    (Quiet /\ ~ended /\ \E l \in Listeners : lstate[l] = "running" /\ lstatus[l])
        => savers # NoRec

\* docs/API.md:148 "Stop listen and record live by id": when the listener is gone
\* and its ListenStop was handled, nothing records the room.
StopStopsRecording == (Quiet /\ ~Monitored) => savers = NoRec
=============================================================================
