------------------------------ MODULE LiveState ------------------------------
(***************************************************************************)
(* The persisted live state of src/src/livestate for one room: its row of  *)
(* live_rooms (is_recording, last_heartbeat), its live_sessions, and the   *)
(* manager that writes them from events.                                   *)
(*                                                                         *)
(* Every event is handled in a goroutine of its own, several statements    *)
(* long; the heartbeat loop and API requests write concurrently; the       *)
(* process may end between any two statements, also while it recovers.     *)
(* The recorder manager is reduced to what it dispatches.                  *)
(***************************************************************************)
EXTENDS Integers, Sequences

CONSTANTS
    Handlers,     \* goroutines handling events; bounds how many run at once
    Orders,       \* whether events are handled in order: TRUE, FALSE or both
    MaxSessions,  \* bounds the sessions of a behaviour
    MaxTime,      \* bounds the clock
    MaxRestarts,  \* bounds the segment restarts of a behaviour
    MaxExits      \* bounds the ends of the process

ASSUME ConstantsAssumption ==
    /\ Orders \subseteq BOOLEAN
    /\ {MaxSessions, MaxRestarts, MaxExits} \subseteq Nat /\ MaxTime \in Nat \ {0}

VARIABLES
    \* the database
    isRecording,    \* live_rooms.is_recording
    heartbeat,      \* live_rooms.last_heartbeat; 0: never
    sessions,       \* live_sessions, in order of insertion; end 0: open
    \* the process
    phase,          \* "down", "recovering", "up", "closing"
    recovery,       \* the next statement of RecoverFromCrash
    recordingRooms, \* whether the room is in the manager's recordingRooms
    beat,           \* the time of the heartbeat loop if its snapshot has the room, else 0
    hpc,            \* the next step of each event handler
    now,            \* the time a handler read, while it still has to write it
    user,           \* the next step of a stop-listening request
    \* what drives it
    monitored,      \* whether the room has a listener
    live,           \* the listener's status
    recorder,       \* whether the room has a recorder
    replaced,       \* recorders a restart has replaced and not yet closed
    inOrder,        \* whether an event is handled before the next one is dispatched; constant
    restarts, exits, clock,
    interrupted     \* sessions that were open when a recording process ended

dbVars      == <<isRecording, heartbeat, sessions>>
processVars == <<phase, recovery, recordingRooms, beat, hpc, now, user>>
roomVars    == <<monitored, live, recorder, replaced>>
boundVars   == <<restarts, exits, clock>>
vars == <<dbVars, processVars, roomVars, inOrder, boundVars, interrupted>>

Time     == 0..MaxTime
Session  == [start : Time, end : Time, reason : {"", "normal", "user_stop", "crash"}]
HandlerSteps == {"idle", "live_upsert", "live_session", "live_record", "end_session", "remove",
                 "rec_flag", "rec_status", "rec_heartbeat", "stop_flag", "stop_status"}

TypeOK ==
    /\ isRecording \in BOOLEAN
    /\ heartbeat \in Time
    /\ sessions \in Seq(Session)
    /\ phase \in {"down", "recovering", "up", "closing"}
    /\ recovery \in {"none", "sessions", "status"}
    /\ recordingRooms \in BOOLEAN
    /\ beat \in Time
    /\ hpc \in [Handlers -> HandlerSteps]
    /\ now \in [Handlers -> Time]
    /\ user \in {"idle", "end"}
    /\ monitored \in BOOLEAN /\ live \in BOOLEAN /\ recorder \in BOOLEAN
    /\ replaced \in 0..MaxRestarts
    /\ restarts \in 0..MaxRestarts /\ exits \in 0..MaxExits /\ clock \in 1..MaxTime
    /\ inOrder \in Orders
    /\ interrupted \subseteq 1..MaxSessions

------------------------------------------------------------------------------
(* The store *)

\* Mutant: UPDATE live_sessions without AND end_time = 0.
EndedAnyway(at, why) ==
    [i \in DOMAIN sessions |-> [sessions[i] EXCEPT !.end = at, !.reason = why]]

\* EndSession, EndSessionByHeartbeat: every open session of the room.
Ended(at, why) ==
    [i \in DOMAIN sessions |->
        IF sessions[i].end = 0 THEN [sessions[i] EXCEPT !.end = at, !.reason = why]
                               ELSE sessions[i]]

Open == {i \in DOMAIN sessions : sessions[i].end = 0}

------------------------------------------------------------------------------
(* Events *)

Idle == \A h \in Handlers : hpc[h] = "idle"

Running == phase \in {"up", "closing"}

\* DispatchEvent from outside the handlers.
Dispatch(step) ==
    /\ phase = "up"
    /\ inOrder => Idle /\ user = "idle"
    /\ \E h \in Handlers : hpc[h] = "idle" /\ hpc' = [hpc EXCEPT ![h] = step]

\* A handler ends its last step by dispatching an event; the goroutine of the
\* event takes its place.
Become(h, step) == hpc' = [hpc EXCEPT ![h] = step]

\* The listener reports LiveStart, LiveEnd.
GoLive ==
    /\ monitored /\ ~live
    /\ live' = TRUE
    /\ Dispatch("live_upsert")
    /\ UNCHANGED <<dbVars, phase, recovery, recordingRooms, beat, now, user, monitored,
                   recorder, replaced, boundVars, interrupted>>

GoOffline ==
    /\ monitored /\ live
    /\ live' = FALSE
    /\ Dispatch("end_session")
    /\ UNCHANGED <<dbVars, phase, recovery, recordingRooms, beat, now, user, monitored,
                   recorder, replaced, boundVars, interrupted>>

\* stopRetryForExplicitOffline: the stream source tells a recorder that the room is
\* offline, and the recorder dispatches LiveEnd; the listener's status stays.
RecorderOffline ==
    /\ recorder \/ replaced > 0
    /\ Dispatch("end_session")
    /\ UNCHANGED <<dbVars, phase, recovery, recordingRooms, beat, now, user, roomVars,
                   boundVars, interrupted>>

\* The stop action of the API: RemoveListener (ListenStop), then OnUserStopMonitoring.
StopListening ==
    /\ monitored
    /\ user = "idle"
    /\ monitored' = FALSE /\ live' = FALSE
    /\ user' = "end"
    /\ Dispatch("remove")
    /\ UNCHANGED <<dbVars, phase, recovery, recordingRooms, beat, now, recorder, replaced,
                   boundVars, interrupted>>

UserEnd ==
    /\ user = "end"
    /\ sessions' = Ended(clock, "user_stop")
    /\ user' = "idle"
    /\ UNCHANGED <<isRecording, heartbeat, phase, recovery, recordingRooms, beat, hpc,
                   now, roomVars, boundVars, interrupted>>

StartListening ==
    /\ phase = "up" /\ ~monitored
    /\ monitored' = TRUE
    /\ UNCHANGED <<dbVars, processVars, live, recorder, replaced, boundVars, interrupted>>

\* RestartRecorder: the new recorder starts (RecorderStart) before the old one is closed.
RestartSwap ==
    /\ recorder
    /\ restarts < MaxRestarts
    /\ restarts' = restarts + 1
    /\ replaced' = replaced + 1
    /\ Dispatch("rec_flag")
    /\ UNCHANGED <<dbVars, phase, recovery, recordingRooms, beat, now, user, monitored,
                   live, recorder, exits, clock, interrupted>>

\* CloseForRestart: Close of the old recorder (RecorderStop).
RestartClose ==
    /\ replaced > 0
    /\ replaced' = replaced - 1
    /\ Dispatch("stop_flag")
    /\ UNCHANGED <<dbVars, phase, recovery, recordingRooms, beat, now, user, monitored,
                   live, recorder, boundVars, interrupted>>

------------------------------------------------------------------------------
(* Handlers; livestate registers before the recorder manager, so for LiveStart *)
(* and LiveEnd it runs first, in the same goroutine                            *)

\* OnLiveStart: UpsertLiveRoom with a fresh LiveRoom, which resets is_recording.
LiveUpsert(h) ==
    /\ hpc[h] = "live_upsert"
    /\ isRecording' = FALSE
    /\ now' = [now EXCEPT ![h] = clock]
    /\ Become(h, "live_session")
    /\ UNCHANGED <<heartbeat, sessions, phase, recovery, recordingRooms, beat, user,
                   roomVars, boundVars, interrupted>>

\* OnLiveStart: StartSession.
LiveSession(h) ==
    /\ hpc[h] = "live_session"
    /\ Len(sessions) < MaxSessions
    /\ sessions' = Append(sessions, [start |-> now[h], end |-> 0, reason |-> ""])
    /\ now' = [now EXCEPT ![h] = 0]
    /\ Become(h, "live_record")
    /\ UNCHANGED <<isRecording, heartbeat, phase, recovery, recordingRooms, beat, user,
                   roomVars, boundVars, interrupted>>

\* The recorder manager's LiveStart: AddRecorder, RecorderStart.  Nothing keeps it
\* from adding a recorder while the process is closing.
LiveRecord(h) ==
    /\ hpc[h] = "live_record"
    /\ Become(h, IF recorder THEN "idle" ELSE "rec_flag")
    /\ recorder' = TRUE
    /\ UNCHANGED <<dbVars, phase, recovery, recordingRooms, beat, now, user, monitored,
                   live, replaced, boundVars, interrupted>>

\* OnLiveEnd: EndSession (UpdateLiveEndTime, right before it, is left out).
EndSession(h) ==
    /\ hpc[h] = "end_session"
    /\ sessions' = Ended(clock, "normal")
    /\ Become(h, "remove")
    /\ UNCHANGED <<isRecording, heartbeat, phase, recovery, recordingRooms, beat, now,
                   user, roomVars, boundVars, interrupted>>

\* The recorder manager's LiveEnd and ListenStop: RemoveRecorder, RecorderStop.
Remove(h) ==
    /\ hpc[h] = "remove"
    /\ recorder' = FALSE
    /\ Become(h, IF recorder THEN "stop_flag" ELSE "idle")
    /\ UNCHANGED <<dbVars, phase, recovery, recordingRooms, beat, now, user, monitored,
                   live, replaced, boundVars, interrupted>>

\* OnRecordingStart: the map under m.mu, SetRecordingStatus, UpdateHeartbeat.
RecFlag(h) ==
    /\ hpc[h] = "rec_flag"
    /\ recordingRooms' = TRUE
    /\ Become(h, "rec_status")
    /\ UNCHANGED <<dbVars, phase, recovery, beat, now, user, roomVars, boundVars,
                   interrupted>>

RecStatus(h) ==
    /\ hpc[h] = "rec_status"
    /\ isRecording' = TRUE
    /\ now' = [now EXCEPT ![h] = clock]
    /\ Become(h, "rec_heartbeat")
    /\ UNCHANGED <<heartbeat, sessions, phase, recovery, recordingRooms, beat, user,
                   roomVars, boundVars, interrupted>>

\* Mutant: the time the next heartbeat is due.
RecHeartbeatDue(h) ==
    /\ hpc[h] = "rec_heartbeat"
    /\ heartbeat' = now[h] + 1 + 1
    /\ now' = [now EXCEPT ![h] = 0]
    /\ Become(h, "idle")
    /\ UNCHANGED <<isRecording, sessions, phase, recovery, recordingRooms, beat, user,
                   roomVars, boundVars, interrupted>>

RecHeartbeat(h) ==
    /\ hpc[h] = "rec_heartbeat"
    /\ heartbeat' = now[h]
    /\ now' = [now EXCEPT ![h] = 0]
    /\ Become(h, "idle")
    /\ UNCHANGED <<isRecording, sessions, phase, recovery, recordingRooms, beat, user,
                   roomVars, boundVars, interrupted>>

\* OnRecordingStop: the map under m.mu, SetRecordingStatus.
StopFlag(h) ==
    /\ hpc[h] = "stop_flag"
    /\ recordingRooms' = FALSE
    /\ Become(h, "stop_status")
    /\ UNCHANGED <<dbVars, phase, recovery, beat, now, user, roomVars, boundVars,
                   interrupted>>

\* Mutant: the map is cleared, the row is not.
StopStatusForgotten(h) ==
    /\ hpc[h] = "stop_status"
    /\ Become(h, "idle")
    /\ UNCHANGED <<dbVars, phase, recovery, recordingRooms, beat, now, user, roomVars,
                   boundVars, interrupted>>

StopStatus(h) ==
    /\ hpc[h] = "stop_status"
    /\ isRecording' = FALSE
    /\ Become(h, "idle")
    /\ UNCHANGED <<heartbeat, sessions, phase, recovery, recordingRooms, beat, now, user,
                   roomVars, boundVars, interrupted>>

------------------------------------------------------------------------------
(* The heartbeat loop *)

\* updateHeartbeats: the snapshot under m.mu.RLock and the time ...
BeatSnapshot ==
    /\ Running
    /\ beat = 0 /\ recordingRooms
    /\ beat' = clock
    /\ UNCHANGED <<dbVars, phase, recovery, recordingRooms, hpc, now, user, roomVars,
                   boundVars, interrupted>>

\* ... and UpdateHeartbeat after the unlock.
BeatWrite ==
    /\ beat # 0
    /\ beat' = 0
    /\ heartbeat' = beat
    /\ UNCHANGED <<isRecording, sessions, phase, recovery, recordingRooms, hpc, now, user,
                   roomVars, boundVars, interrupted>>

------------------------------------------------------------------------------
(* The life of the process *)

\* The shutdown: RecorderManager.Close closes the recorder (RecorderStop); how much
\* its handler still writes before livestate's Close depends on the scheduler.
Shutdown ==
    /\ phase = "up"
    /\ inOrder => Idle
    /\ phase' = "closing"
    /\ monitored' = FALSE /\ live' = FALSE /\ recorder' = FALSE
    /\ IF recorder
       THEN \E h \in Handlers : hpc[h] = "idle" /\ Become(h, "stop_flag")
       ELSE UNCHANGED hpc
    /\ UNCHANGED <<dbVars, recovery, recordingRooms, beat, now, user, replaced, boundVars,
                   interrupted>>

\* The process is gone: a crash, or the end of a shutdown (Close of the manager
\* cancels m.ctx, after which no statement runs any more).
ProcessExit ==
    /\ phase # "down"
    /\ exits < MaxExits
    /\ exits' = exits + 1
    /\ phase' = "down"
    /\ recovery' = "none"
    /\ recordingRooms' = FALSE /\ beat' = 0
    /\ hpc' = [h \in Handlers |-> "idle"] /\ now' = [h \in Handlers |-> 0] /\ user' = "idle"
    /\ monitored' = FALSE /\ live' = FALSE /\ recorder' = FALSE
    /\ replaced' = 0
    /\ interrupted' = IF isRecording THEN interrupted \cup Open ELSE interrupted
    /\ UNCHANGED <<dbVars, restarts, clock>>

\* Start: RecoverFromCrash looks for is_recording = 1.
Start ==
    /\ phase = "down"
    /\ IF isRecording
       THEN phase' = "recovering" /\ recovery' = "sessions" /\ UNCHANGED monitored
       ELSE phase' = "up" /\ recovery' = "none" /\ monitored' = TRUE
    /\ UNCHANGED <<dbVars, recordingRooms, beat, hpc, now, user, live, recorder, replaced,
                   boundVars, interrupted>>

\* Mutant: without the case of a room that has no heartbeat yet.
RecoverSessionsAtHeartbeat ==
    /\ recovery = "sessions"
    /\ sessions' = Ended(heartbeat, "crash")
    /\ recovery' = "status"
    /\ UNCHANGED <<isRecording, heartbeat, phase, recordingRooms, beat, hpc, now, user,
                   roomVars, boundVars, interrupted>>

\* RecoverFromCrash: EndSessionByHeartbeat; without a heartbeat the current time.
RecoverSessions ==
    /\ recovery = "sessions"
    /\ sessions' = Ended(IF heartbeat = 0 THEN clock ELSE heartbeat, "crash")
    /\ recovery' = "status"
    /\ UNCHANGED <<isRecording, heartbeat, phase, recordingRooms, beat, hpc, now, user,
                   roomVars, boundVars, interrupted>>

\* RecoverFromCrash: SetRecordingStatus(false), and the start goes on.
RecoverStatus ==
    /\ recovery = "status"
    /\ isRecording' = FALSE
    /\ recovery' = "none"
    /\ phase' = "up"
    /\ monitored' = TRUE
    /\ UNCHANGED <<heartbeat, sessions, recordingRooms, beat, hpc, now, user, live,
                   recorder, replaced, boundVars, interrupted>>

Tick ==
    /\ clock < MaxTime
    /\ clock' = clock + 1
    /\ UNCHANGED <<dbVars, processVars, roomVars, restarts, exits, interrupted>>

------------------------------------------------------------------------------
Init ==
    /\ isRecording = FALSE /\ heartbeat = 0 /\ sessions = <<>>
    /\ phase = "down" /\ recovery = "none"
    /\ recordingRooms = FALSE /\ beat = 0
    /\ hpc = [h \in Handlers |-> "idle"] /\ now = [h \in Handlers |-> 0] /\ user = "idle"
    /\ monitored = FALSE /\ live = FALSE /\ recorder = FALSE /\ replaced = 0
    /\ inOrder \in Orders
    /\ restarts = 0 /\ exits = 0 /\ clock = 1
    /\ interrupted = {}

HandlerStep(h) ==
    \/ LiveUpsert(h) \/ LiveSession(h) \/ LiveRecord(h)
    \/ EndSession(h) \/ Remove(h)
    \/ RecFlag(h) \/ RecStatus(h) \/ RecHeartbeat(h)
    \/ StopFlag(h) \/ StopStatus(h)

Next ==
    /\ \/ GoLive \/ GoOffline \/ RecorderOffline
       \/ StopListening \/ UserEnd \/ StartListening
       \/ RestartSwap \/ RestartClose
       \/ \E h \in Handlers : HandlerStep(h)
       \/ BeatSnapshot \/ BeatWrite
       \/ Shutdown \/ ProcessExit \/ Start \/ RecoverSessions \/ RecoverStatus
       \/ Tick
    /\ UNCHANGED inOrder

Spec == Init /\ [][Next]_vars

------------------------------------------------------------------------------
(* Properties *)

\* The first end of a session is its end: a LiveEnd the recorder dispatched after
\* the listener's, a user stop after a LiveEnd, or a recovery that is repeated after
\* a crash of the recovery, rewrites neither the time nor the reason.
SessionsEndOnce ==
    [][\A i \in DOMAIN sessions :
        sessions[i].end # 0 => i \in DOMAIN sessions' /\ sessions'[i] = sessions[i]]_vars

\* A process that comes up has closed the sessions a recording process left open,
\* even when earlier attempts to recover crashed half way: is_recording is the
\* only trace of them, so it is cleared last.
InterruptedSessionsClosed == phase = "up" => interrupted \cap Open = {}

\* Nothing is under way.
Settled == phase = "up" /\ Idle /\ user = "idle" /\ replaced = 0

\* When the events are handled in order and nothing was restarted, map, row and
\* recorder agree, whatever stops, crashes and recoveries came before.
RecordingStateAgrees ==
    Settled /\ inOrder /\ restarts = 0 => isRecording = recorder /\ recordingRooms = recorder

\* manager.go:23 recordingRooms: the rooms being recorded now; manager.go:70: the
\* heartbeat of every room being recorded is updated.
HeartbeatWhileRecording == (Settled /\ recorder) => recordingRooms
=============================================================================
