---------------------------- MODULE LiveStateProofs ----------------------------
(***************************************************************************)
(* What the persisted live state promises for every number of handlers,    *)
(* sessions, restarts and ends of the process, in whatever order events    *)
(* are handled: a session ends once, and no session that a recording       *)
(* process left open outlives the next start. While the events of a room   *)
(* are handled in their order, the flag in its row, the map of rooms that  *)
(* record and the recorder agree whenever no handler is at work.           *)
(***************************************************************************)
EXTENDS LiveState, SequenceTheorems, TLAPS

LEMMA TimeStarts == MaxTime \in Nat \ {0} /\ 0 \in Time /\ 1 \in Time
BY ConstantsAssumption DEF ConstantsAssumption, Time

\* A handler, the heartbeat loop or a request may write only while the process runs; what
\* they write is a time that has come.
RowTypes ==
    /\ sessions \in Seq(Session) /\ isRecording \in BOOLEAN /\ heartbeat \in Time
    /\ clock \in Time \ {0} /\ beat \in Time
    /\ now \in [Handlers -> Time] /\ hpc \in [Handlers -> HandlerSteps]
    /\ phase \in {"down", "recovering", "up", "closing"}
    /\ ~Running => Idle /\ user = "idle"
    /\ recovery \in {"none", "sessions", "status"}
    /\ recovery # "none" <=> phase = "recovering"

(***************************************************************************)
(* As long as a session that was interrupted is open, the process has not  *)
(* come up, the row still says "recording", and the recovery under way has *)
(* not passed the sessions: that is why it clears the row last.            *)
(***************************************************************************)
TraceKept ==
    interrupted \cap Open # {} =>
        ~Running /\ isRecording /\ recovery # "status"

StateIInv == RowTypes /\ interrupted \subseteq DOMAIN sessions /\ TraceKept

LEMMA StateInit == Init => StateIInv
<1> SUFFICES ASSUME Init
             PROVE  StateIInv
    OBVIOUS
<1>1. RowTypes
  <2>1. sessions \in Seq(Session)
    BY EmptySeq DEF Init
  <2>2. phase = "down" /\ recovery = "none" /\ hpc = [h \in Handlers |-> "idle"] /\ user = "idle"
    BY DEF Init
  <2>3. isRecording \in BOOLEAN
    BY DEF Init
  <2>4. heartbeat \in Time /\ clock \in Time \ {0} /\ beat \in Time /\ now \in [Handlers -> Time]
    BY TimeStarts DEF Init
  <2> QED BY <2>1, <2>2, <2>3, <2>4 DEF RowTypes, Running, Idle, HandlerSteps
<1>2. interrupted = {}
  BY DEF Init
<1> QED BY <1>1, <1>2 DEF StateIInv, TraceKept

\* Ending the open sessions leaves a list of the same sessions, all of them closed.
LEMMA EndedClosesAll ==
    ASSUME sessions \in Seq(Session), NEW at \in Time \ {0},
           NEW why \in {"normal", "user_stop", "crash"}
    PROVE  /\ Ended(at, why) \in Seq(Session)
           /\ DOMAIN Ended(at, why) = DOMAIN sessions
           /\ \A i \in DOMAIN sessions : Ended(at, why)[i].end # 0
           /\ \A i \in DOMAIN sessions :
                sessions[i].end # 0 => Ended(at, why)[i] = sessions[i]
<1> DEFINE ended(i) == IF sessions[i].end = 0
                       THEN [sessions[i] EXCEPT !.end = at, !.reason = why]
                       ELSE sessions[i]
<1>1. DOMAIN sessions = 1 .. Len(sessions) /\ Len(sessions) \in Nat
  OBVIOUS
<1>2. \A i \in DOMAIN sessions : sessions[i] \in Session
  OBVIOUS
<1>3. \A i \in DOMAIN sessions : ended(i) \in Session /\ ended(i).end # 0
  BY <1>2 DEF Session
<1>4. Ended(at, why) = [i \in 1 .. Len(sessions) |-> ended(i)]
  BY <1>1 DEF Ended
<1>5. Ended(at, why) \in Seq(Session)
  <2> HIDE DEF ended
  <2>1. Ended(at, why) \in [1 .. Len(sessions) -> Session]
    BY <1>1, <1>3, <1>4
  <2> QED BY <1>1, <2>1, SeqDef
<1>6. DOMAIN Ended(at, why) = DOMAIN sessions
  BY <1>1, <1>4
<1>7. \A i \in DOMAIN sessions : Ended(at, why)[i] = ended(i)
  BY <1>1, <1>4
<1>8. \A i \in DOMAIN sessions : sessions[i].end # 0 => ended(i) = sessions[i]
  OBVIOUS
<1> HIDE DEF ended
<1> QED BY <1>3, <1>5, <1>6, <1>7, <1>8

\* A step that writes neither a session nor the row, in a process that runs before and
\* after it or does not.
LEMMA StateQuietStep ==
    ASSUME StateIInv, RowTypes', UNCHANGED <<sessions, interrupted>>,
           Running' = Running,
           ~Running => UNCHANGED <<isRecording, recovery>>
    PROVE  StateIInv'
<1>1. Open' = Open
  BY DEF Open
<1> QED BY <1>1 DEF StateIInv, TraceKept

\* All open sessions are closed.
LEMMA StateCloseStep ==
    ASSUME StateIInv, RowTypes', NEW at \in Time \ {0},
           NEW why \in {"normal", "user_stop", "crash"},
           sessions' = Ended(at, why), UNCHANGED interrupted
    PROVE  StateIInv'
<1>1. Open' = {} /\ DOMAIN sessions' = DOMAIN sessions
  BY EndedClosesAll DEF StateIInv, RowTypes, Open
<1> QED BY <1>1 DEF StateIInv, TraceKept

LEMMA StateNext == StateIInv /\ [Next]_vars => StateIInv'
<1> SUFFICES ASSUME StateIInv, [Next]_vars
             PROVE  StateIInv'
    OBVIOUS
<1> USE DEF Become, dbVars, processVars, roomVars, boundVars
<1>1. RowTypes
  BY DEF StateIInv
\* The events: the process is up, and one handler starts.
<1>2. CASE GoLive \/ GoOffline \/ RecorderOffline \/ StopListening \/ RestartSwap \/ RestartClose
  <2>1. PICK step \in {"live_upsert", "end_session", "remove", "rec_flag", "stop_flag"} :
            Dispatch(step)
    BY <1>2 DEF GoLive, GoOffline, RecorderOffline, StopListening, RestartSwap, RestartClose
  <2>2. /\ UNCHANGED <<dbVars, phase, recovery, beat, now, clock, interrupted>>
        /\ phase = "up" /\ hpc' \in [Handlers -> HandlerSteps]
    BY <1>1, <1>2, <2>1 DEF GoLive, GoOffline, RecorderOffline, StopListening, RestartSwap,
            RestartClose, Dispatch, RowTypes, HandlerSteps
  <2>3. RowTypes'
    BY <1>1, <2>2 DEF RowTypes, Running
  <2> QED BY <2>2, <2>3, StateQuietStep DEF Running
<1>3. CASE UserEnd
  <2>1. RowTypes' /\ sessions' = Ended(clock, "user_stop") /\ UNCHANGED interrupted
    BY <1>1, <1>3, EndedClosesAll DEF UserEnd, RowTypes, Running, Idle
  <2> QED BY <1>1, <2>1, StateCloseStep DEF RowTypes
<1>4. CASE StartListening
  <2>1. UNCHANGED <<dbVars, processVars, clock, interrupted>>
    BY <1>4 DEF StartListening
  <2>2. RowTypes'
    BY <1>1, <2>1 DEF RowTypes, Running, Idle
  <2> QED BY <2>1, <2>2, StateQuietStep DEF Running
<1>5. ASSUME NEW h \in Handlers, HandlerStep(h)
      PROVE  StateIInv'
  <2>1. Running
    BY <1>1, <1>5 DEF RowTypes, Idle, HandlerStep, LiveUpsert, LiveSession, LiveRecord,
            EndSession, Remove, RecFlag, RecStatus, RecHeartbeat, StopFlag, StopStatus
  <2>2. /\ UNCHANGED <<phase, recovery, beat, user, clock, interrupted>>
        /\ hpc' \in [Handlers -> HandlerSteps] /\ now' \in [Handlers -> Time]
        /\ isRecording' \in BOOLEAN /\ heartbeat' \in Time
    <3>1. CASE LiveUpsert(h) \/ LiveSession(h) \/ LiveRecord(h)
      <4>1. hpc' \in [Handlers -> HandlerSteps]
        BY <1>1, <3>1 DEF RowTypes, LiveUpsert, LiveSession, LiveRecord, HandlerSteps
      <4>2. /\ UNCHANGED <<phase, recovery, beat, user, clock, interrupted, heartbeat>>
            /\ isRecording' = FALSE \/ isRecording' = isRecording
        BY <3>1 DEF LiveUpsert, LiveSession, LiveRecord
      <4>3. \/ now' = now
            \/ now' = [now EXCEPT ![h] = clock]
            \/ now' = [now EXCEPT ![h] = 0]
        BY <3>1 DEF LiveUpsert, LiveSession, LiveRecord
      <4>4. now' \in [Handlers -> Time]
        BY <1>1, <4>3, TimeStarts DEF RowTypes
      <4> QED BY <1>1, <4>1, <4>2, <4>4 DEF RowTypes
    <3>2. CASE EndSession(h) \/ Remove(h)
      BY <1>1, <3>2 DEF RowTypes, EndSession, Remove, HandlerSteps
    <3>3. CASE RecFlag(h) \/ RecStatus(h) \/ RecHeartbeat(h)
      <4>1. hpc' \in [Handlers -> HandlerSteps]
        BY <1>1, <3>3 DEF RowTypes, RecFlag, RecStatus, RecHeartbeat, HandlerSteps
      <4>2. /\ UNCHANGED <<phase, recovery, beat, user, clock, interrupted>>
            /\ isRecording' = TRUE \/ isRecording' = isRecording
        BY <3>3 DEF RecFlag, RecStatus, RecHeartbeat
      <4>3. now' \in [Handlers -> Time] /\ heartbeat' \in Time
        BY <1>1, <3>3, TimeStarts DEF RowTypes, RecFlag, RecStatus, RecHeartbeat
      <4> QED BY <1>1, <4>1, <4>2, <4>3 DEF RowTypes
    <3>4. CASE StopFlag(h) \/ StopStatus(h)
      BY <1>1, <3>4 DEF RowTypes, StopFlag, StopStatus, HandlerSteps
    <3> QED BY <1>5, <3>1, <3>2, <3>3, <3>4 DEF HandlerStep
  <2>3. sessions' \in Seq(Session) => RowTypes'
    BY <1>1, <2>1, <2>2 DEF RowTypes, Running
  <2>4. CASE LiveSession(h)
    <3> DEFINE row == [start |-> now[h], end |-> 0, reason |-> ""]
    <3>1. row \in Session
      BY <1>1, TimeStarts DEF RowTypes, Session
    <3>2. sessions' = Append(sessions, row) /\ sessions \in Seq(Session)
      BY <1>1, <2>4 DEF LiveSession, RowTypes
    <3> HIDE DEF row
    <3>3. /\ sessions' \in Seq(Session) /\ DOMAIN sessions \subseteq DOMAIN sessions'
          /\ \A i \in DOMAIN sessions : sessions'[i] = sessions[i]
      BY <3>1, <3>2
    <3>4. interrupted' \cap Open' \subseteq interrupted \cap Open
      BY <2>2, <3>3 DEF StateIInv, Open
    <3> QED BY <2>1, <2>2, <2>3, <3>3, <3>4 DEF StateIInv, TraceKept, Running
  <2>5. CASE EndSession(h)
    <3>1. sessions' = Ended(clock, "normal")
      BY <2>5 DEF EndSession
    <3>2. RowTypes'
      BY <1>1, <2>3, <3>1, EndedClosesAll DEF RowTypes
    <3> QED BY <1>1, <2>2, <3>1, <3>2, StateCloseStep DEF RowTypes
  <2>6. CASE UNCHANGED sessions
    BY <1>1, <2>1, <2>2, <2>3, <2>6, StateQuietStep DEF RowTypes, Running
  <2>7. LiveSession(h) \/ EndSession(h) \/ UNCHANGED sessions
    BY <1>5 DEF HandlerStep, LiveUpsert, LiveRecord, Remove, RecFlag, RecStatus, RecHeartbeat,
            StopFlag, StopStatus
  <2> QED BY <2>4, <2>5, <2>6, <2>7
<1>6. CASE BeatSnapshot \/ BeatWrite
  <2>1. /\ UNCHANGED <<sessions, isRecording, phase, recovery, hpc, now, user, clock, interrupted>>
        /\ beat' \in Time /\ heartbeat' \in Time
    BY <1>1, <1>6, TimeStarts DEF BeatSnapshot, BeatWrite, RowTypes
  <2>2. RowTypes'
    BY <1>1, <2>1 DEF RowTypes, Running, Idle
  <2> QED BY <2>1, <2>2, StateQuietStep DEF Running
<1>7. CASE Shutdown
  <2>1. /\ UNCHANGED <<dbVars, recovery, beat, now, user, clock, interrupted>>
        /\ phase = "up" /\ phase' = "closing" /\ hpc' \in [Handlers -> HandlerSteps]
    BY <1>1, <1>7 DEF Shutdown, RowTypes, HandlerSteps
  <2>2. RowTypes'
    BY <1>1, <2>1 DEF RowTypes, Running
  <2> QED BY <2>1, <2>2, StateQuietStep DEF Running
\* The trace of an interrupted session: the row of a process that ends while it records.
<1>8. CASE ProcessExit
  <2>1. /\ UNCHANGED <<isRecording, heartbeat, sessions, clock>> /\ phase' = "down"
        /\ recovery' = "none" /\ beat' = 0 /\ user' = "idle"
        /\ hpc' = [h \in Handlers |-> "idle"] /\ now' = [h \in Handlers |-> 0]
        /\ interrupted' = IF isRecording THEN interrupted \cup Open ELSE interrupted
    BY <1>8 DEF ProcessExit
  <2>2. RowTypes'
    BY <1>1, <2>1, TimeStarts DEF RowTypes, Running, Idle, HandlerSteps
  <2>3. Open' = Open /\ Open \subseteq DOMAIN sessions
    BY <2>1 DEF Open
  <2> QED BY <2>1, <2>2, <2>3 DEF StateIInv, TraceKept, Running
<1>9. CASE Start
  <2>1. /\ UNCHANGED <<dbVars, beat, hpc, now, user, clock, interrupted>>
        /\ phase = "down"
        /\ IF isRecording THEN phase' = "recovering" /\ recovery' = "sessions"
                          ELSE phase' = "up" /\ recovery' = "none"
    BY <1>9 DEF Start
  <2>2. RowTypes'
    BY <1>1, <2>1 DEF RowTypes, Running, Idle
  <2>3. Open' = Open
    BY <2>1 DEF Open
  <2> QED BY <2>1, <2>2, <2>3 DEF StateIInv, TraceKept, Running
<1>10. CASE RecoverSessions
  <2> DEFINE at == IF heartbeat = 0 THEN clock ELSE heartbeat
  <2>1. /\ UNCHANGED <<isRecording, heartbeat, phase, beat, hpc, now, user, clock, interrupted>>
        /\ recovery = "sessions" /\ recovery' = "status" /\ sessions' = Ended(at, "crash")
    BY <1>10 DEF RecoverSessions
  <2>2. at \in Time \ {0}
    BY <1>1 DEF RowTypes
  <2> HIDE DEF at
  <2>3. RowTypes'
    BY <1>1, <2>1, <2>2, EndedClosesAll DEF RowTypes, Running, Idle
  <2> QED BY <2>1, <2>2, <2>3, StateCloseStep
<1>11. CASE RecoverStatus
  <2>1. /\ UNCHANGED <<heartbeat, sessions, beat, hpc, now, user, clock, interrupted>>
        /\ recovery = "status" /\ recovery' = "none" /\ phase' = "up" /\ isRecording' = FALSE
    BY <1>11 DEF RecoverStatus
  <2>2. RowTypes'
    BY <1>1, <2>1 DEF RowTypes, Running, Idle
  <2>3. Open' = Open
    BY <2>1 DEF Open
  <2> QED BY <2>1, <2>2, <2>3 DEF StateIInv, TraceKept
<1>12. CASE Tick
  <2>1. UNCHANGED <<dbVars, processVars, interrupted>> /\ clock' = clock + 1 /\ clock < MaxTime
    BY <1>12 DEF Tick
  <2>3. clock' \in Time \ {0}
    BY <1>1, <2>1, TimeStarts DEF RowTypes, Time
  <2>2. RowTypes'
    BY <1>1, <2>1, <2>3 DEF RowTypes, Running, Idle
  <2> QED BY <2>1, <2>2, StateQuietStep DEF Running
<1>13. CASE UNCHANGED vars
  <2>1. UNCHANGED <<dbVars, processVars, clock, interrupted>>
    BY <1>13 DEF vars
  <2>2. RowTypes'
    BY <1>1, <2>1 DEF RowTypes, Running, Idle
  <2> QED BY <2>1, <2>2, StateQuietStep DEF Running
<1> QED BY <1>2, <1>3, <1>4, <1>5, <1>6, <1>7, <1>8, <1>9, <1>10, <1>11, <1>12, <1>13 DEF Next

(***************************************************************************)
(* A process that is up has closed every session an earlier one was        *)
(* recording, however often it died while it recovered (RecoverFromCrash). *)
(***************************************************************************)
THEOREM NoSessionLeftOpen == Spec => []InterruptedSessionsClosed
<1>1. StateIInv => InterruptedSessionsClosed
  BY DEF StateIInv, TraceKept, InterruptedSessionsClosed, Running
<1> QED BY <1>1, StateInit, StateNext, PTL DEF Spec

\* Who writes sessions.
LEMMA SessionWriters ==
    ASSUME [Next]_vars
    PROVE  \/ UNCHANGED sessions
           \/ \E h \in Handlers : LiveSession(h)
           \/ \E h \in Handlers : EndSession(h)
           \/ UserEnd \/ RecoverSessions
BY DEF Next, vars, dbVars, GoLive, GoOffline, RecorderOffline, StopListening, StartListening,
       RestartSwap, RestartClose, HandlerStep, LiveUpsert, LiveRecord, Remove, RecFlag,
       RecStatus, RecHeartbeat, StopFlag, StopStatus, BeatSnapshot, BeatWrite, Shutdown,
       ProcessExit, Start, RecoverStatus, Tick

\* What a step does to a session that has ended: nothing.
LEMMA EndedStays ==
    StateIInv /\ [Next]_vars =>
        \A i \in DOMAIN sessions :
            sessions[i].end # 0 => i \in DOMAIN sessions' /\ sessions'[i] = sessions[i]
<1> SUFFICES ASSUME StateIInv, [Next]_vars, NEW i \in DOMAIN sessions, sessions[i].end # 0
             PROVE  i \in DOMAIN sessions' /\ sessions'[i] = sessions[i]
    OBVIOUS
<1>1. RowTypes
  BY DEF StateIInv
<1>2. ASSUME NEW at \in Time \ {0}, NEW why \in {"normal", "user_stop", "crash"},
             sessions' = Ended(at, why)
      PROVE  i \in DOMAIN sessions' /\ sessions'[i] = sessions[i]
  BY <1>1, <1>2, EndedClosesAll DEF RowTypes
<1>3. ASSUME NEW h \in Handlers, LiveSession(h)
      PROVE  i \in DOMAIN sessions' /\ sessions'[i] = sessions[i]
  <2> DEFINE row == [start |-> now[h], end |-> 0, reason |-> ""]
  <2>1. row \in Session
    BY <1>1, TimeStarts DEF RowTypes, Session
  <2>2. sessions' = Append(sessions, row) /\ sessions \in Seq(Session)
    BY <1>1, <1>3 DEF LiveSession, RowTypes
  <2> HIDE DEF row
  <2> QED BY <2>1, <2>2
<1>5. CASE UserEnd
  BY <1>1, <1>2, <1>5 DEF UserEnd, RowTypes
<1>6. CASE RecoverSessions
  BY <1>1, <1>2, <1>6 DEF RecoverSessions, RowTypes
<1>7. ASSUME NEW h \in Handlers, EndSession(h)
      PROVE  i \in DOMAIN sessions' /\ sessions'[i] = sessions[i]
  BY <1>1, <1>2, <1>7 DEF EndSession, RowTypes
<1> QED BY <1>3, <1>5, <1>6, <1>7, SessionWriters

(***************************************************************************)
(* The first end of a session is its end, whoever else ends it once more   *)
(* (EndSession, EndSessionByHeartbeat).                                    *)
(***************************************************************************)
THEOREM SessionsKeepTheirEnd == Spec => SessionsEndOnce
BY StateInit, StateNext, EndedStays, PTL DEF Spec, SessionsEndOnce

------------------------------------------------------------------------------
(* Map, row and recorder, when the events are handled in order *)

\* What the bounds of a behaviour count.
Bounds ==
    /\ restarts \in 0..MaxRestarts /\ replaced \in 0..restarts /\ exits \in 0..MaxExits
    /\ Len(sessions) <= MaxSessions /\ inOrder \in Orders
    /\ user \in {"idle", "end"}
    /\ {recordingRooms, monitored, live, recorder} \subseteq BOOLEAN

LEMMA Counts == {MaxSessions, MaxRestarts, MaxExits} \subseteq Nat
BY ConstantsAssumption DEF ConstantsAssumption

LEMMA EndedKeepsLength ==
    ASSUME sessions \in Seq(Session), NEW at \in Time \ {0},
           NEW why \in {"normal", "user_stop", "crash"}
    PROVE  Len(Ended(at, why)) = Len(sessions)
<1>1. Ended(at, why) \in Seq(Session) /\ DOMAIN Ended(at, why) = DOMAIN sessions
  BY EndedClosesAll
<1>2. PICK e \in Seq(Session) : e = Ended(at, why)
  BY <1>1
<1>3. /\ DOMAIN e = 1..Len(e) /\ Len(e) \in Nat
      /\ DOMAIN sessions = 1..Len(sessions) /\ Len(sessions) \in Nat
  OBVIOUS
<1>4. \A n, m \in Nat : 1..n = 1..m => n = m
  <2>1. SUFFICES ASSUME NEW n \in Nat, NEW m \in Nat, 1..n = 1..m, n # m
                 PROVE  FALSE
    OBVIOUS
  <2>2. n \in 1..n \/ n = 0
    OBVIOUS
  <2>3. m \in 1..m \/ m = 0
    OBVIOUS
  <2> QED BY <2>1, <2>2, <2>3
<1>5. 1..Len(e) = 1..Len(sessions)
  BY <1>1, <1>2, <1>3
<1> QED BY <1>2, <1>3, <1>4, <1>5

LEMMA BoundsNext == StateIInv /\ Bounds /\ [Next]_vars => Bounds'
<1> SUFFICES ASSUME StateIInv, Bounds, [Next]_vars
             PROVE  Bounds'
    OBVIOUS
<1> USE DEF dbVars, processVars, roomVars, boundVars
<1>0. RowTypes /\ {MaxSessions, MaxRestarts, MaxExits} \subseteq Nat
  BY Counts DEF StateIInv
<1>1. inOrder' \in Orders
  BY DEF Bounds, Next, vars
<1>2. /\ user' \in {"idle", "end"}
      /\ {recordingRooms', monitored', live', recorder'} \subseteq BOOLEAN
  <2>1. ASSUME NEW h \in Handlers, HandlerStep(h)
        PROVE  /\ user' \in {"idle", "end"}
               /\ {recordingRooms', monitored', live', recorder'} \subseteq BOOLEAN
    BY <2>1 DEF Bounds, HandlerStep, LiveUpsert, LiveSession, LiveRecord,
            EndSession, Remove, RecFlag, RecStatus, RecHeartbeat, StopFlag, StopStatus
  <2>2. CASE GoLive \/ GoOffline \/ RecorderOffline \/ StopListening \/ UserEnd \/ StartListening
             \/ RestartSwap \/ RestartClose
    BY <2>2 DEF Bounds, GoLive, GoOffline, RecorderOffline, StopListening, UserEnd, StartListening,
            RestartSwap, RestartClose
  <2>3. CASE BeatSnapshot \/ BeatWrite \/ Tick \/ UNCHANGED vars
    BY <2>3 DEF Bounds, BeatSnapshot, BeatWrite, Tick, vars
  <2>4. CASE Shutdown \/ ProcessExit \/ Start \/ RecoverSessions \/ RecoverStatus
    BY <2>4 DEF Bounds, Shutdown, ProcessExit, Start, RecoverSessions, RecoverStatus
  <2> QED BY <2>1, <2>2, <2>3, <2>4 DEF Next
<1>3. /\ restarts' \in 0..MaxRestarts /\ replaced' \in 0..restarts' /\ exits' \in 0..MaxExits
  <2>1. CASE RestartSwap \/ RestartClose
    BY <1>0, <2>1 DEF Bounds, RestartSwap, RestartClose
  <2>2. CASE ProcessExit
    BY <1>0, <2>2 DEF Bounds, ProcessExit
  <2>3. CASE UNCHANGED <<restarts, replaced, exits>>
    BY <2>3 DEF Bounds
  <2>4. ASSUME NEW h \in Handlers, HandlerStep(h)
        PROVE  UNCHANGED <<restarts, replaced, exits>>
    BY <2>4 DEF HandlerStep, LiveUpsert, LiveSession, LiveRecord,
            EndSession, Remove, RecFlag, RecStatus, RecHeartbeat, StopFlag, StopStatus
  <2>5. CASE GoLive \/ GoOffline \/ RecorderOffline \/ StopListening \/ UserEnd \/ StartListening
             \/ BeatSnapshot \/ BeatWrite \/ Tick \/ UNCHANGED vars
             \/ Shutdown \/ Start \/ RecoverSessions \/ RecoverStatus
    <3>1. UNCHANGED <<restarts, replaced, exits>>
      BY <2>5 DEF GoLive, GoOffline, RecorderOffline, StopListening, UserEnd, StartListening,
              BeatSnapshot, BeatWrite, Tick, vars, Shutdown, Start, RecoverSessions, RecoverStatus
    <3> QED BY <2>3, <3>1
  <2> QED BY <2>1, <2>2, <2>3, <2>4, <2>5 DEF Next
<1>4. Len(sessions') <= MaxSessions
  <2>1. ASSUME NEW at \in Time \ {0}, NEW why \in {"normal", "user_stop", "crash"},
               sessions' = Ended(at, why)
        PROVE  Len(sessions') <= MaxSessions
    BY <1>0, <2>1, EndedKeepsLength DEF RowTypes, Bounds
  <2>2. ASSUME NEW h \in Handlers, LiveSession(h)
        PROVE  Len(sessions') <= MaxSessions
    <3>1. PICK row : sessions' = Append(sessions, row) /\ Len(sessions) < MaxSessions
      BY <2>2 DEF LiveSession
    <3>2. Len(sessions') = Len(sessions) + 1 /\ Len(sessions) \in Nat
      BY <1>0, <3>1 DEF RowTypes
    <3> QED BY <1>0, <3>1, <3>2
  <2>3. CASE UserEnd
    BY <1>0, <2>1, <2>3 DEF UserEnd, RowTypes
  <2>4. CASE RecoverSessions
    <3> DEFINE at == IF heartbeat = 0 THEN clock ELSE heartbeat
    <3>1. at \in Time \ {0} /\ sessions' = Ended(at, "crash")
      BY <1>0, <2>4 DEF RecoverSessions, RowTypes
    <3> QED BY <2>1, <3>1
  <2>5. ASSUME NEW h \in Handlers, EndSession(h)
        PROVE  Len(sessions') <= MaxSessions
    BY <1>0, <2>1, <2>5 DEF EndSession, RowTypes
  <2> QED BY <2>2, <2>3, <2>4, <2>5, SessionWriters DEF Bounds
<1> QED BY <1>1, <1>2, <1>3, <1>4 DEF Bounds

Agree == (isRecording <=> recorder) /\ (recordingRooms <=> recorder)

(***************************************************************************)
(* One handler at a time, and what each step of it leaves for the next:    *)
(* a room goes live while nothing records it, the map is set before the    *)
(* row and cleared before it.  A process that is down or recovers records  *)
(* nothing; what one that closes leaves in the row, the recovery clears.   *)
(***************************************************************************)
StepByStep ==
    /\ phase \in {"down", "recovering"} => ~recorder /\ ~recordingRooms
    /\ inOrder /\ restarts = 0 /\ phase = "up" =>
        /\ \A h, g \in Handlers : hpc[h] # "idle" /\ hpc[g] # "idle" => h = g
        /\ Idle => Agree /\ (recorder => live)
        /\ \A h \in Handlers :
            /\ hpc[h] \in {"live_upsert", "live_session", "live_record"} =>
                  ~recorder /\ ~isRecording /\ ~recordingRooms /\ live
            /\ hpc[h] \in {"end_session", "remove"} => Agree
            /\ hpc[h] \in {"rec_flag", "rec_status", "rec_heartbeat"} =>
                  /\ recorder /\ live
                  /\ recordingRooms <=> hpc[h] # "rec_flag"
                  /\ isRecording <=> hpc[h] = "rec_heartbeat"
            /\ hpc[h] \in {"stop_flag", "stop_status"} =>
                  /\ ~recorder /\ isRecording
                  /\ recordingRooms <=> hpc[h] = "stop_flag"

LEMMA StepByStepNext == StateIInv /\ Bounds /\ StepByStep /\ [Next]_vars => StepByStep'
<1> SUFFICES ASSUME StateIInv, Bounds, StepByStep, [Next]_vars
             PROVE  StepByStep'
    OBVIOUS
<1> USE DEF dbVars, processVars, roomVars, boundVars
<1>1. /\ hpc \in [Handlers -> HandlerSteps]
      /\ {isRecording, recordingRooms, recorder, live} \subseteq BOOLEAN
      /\ ~Running => Idle /\ recovery \in {"none", "sessions", "status"}
      /\ restarts \in Nat /\ replaced \in 0..restarts
      /\ recovery # "none" => phase = "recovering"
      /\ phase \in {"down", "recovering", "up", "closing"}
  BY Counts DEF StateIInv, RowTypes, Bounds
<1>2. CASE GoLive \/ GoOffline \/ RecorderOffline \/ StopListening
  <2>1. /\ UNCHANGED <<isRecording, recordingRooms, recorder, restarts, phase, inOrder>>
        /\ phase = "up"
        /\ \E step \in {"live_upsert", "end_session", "remove"} :
              Dispatch(step) /\ (step = "live_upsert" => live' /\ ~live)
    BY <1>2 DEF GoLive, GoOffline, RecorderOffline, StopListening, Dispatch, Next, vars
  <2>2. PICK step \in {"live_upsert", "end_session", "remove"}, g \in Handlers :
           /\ inOrder => Idle
           /\ hpc[g] = "idle" /\ hpc' = [hpc EXCEPT ![g] = step]
           /\ step = "live_upsert" => live' /\ ~live
    BY <2>1 DEF Dispatch
  <2>3. \A h \in Handlers : hpc'[h] = IF h = g THEN step ELSE hpc[h]
    BY <1>1, <2>2
  <2>4. ~Idle'
    BY <2>2, <2>3 DEF Idle
  <2> QED BY <1>1, <2>1, <2>2, <2>3, <2>4 DEF StepByStep, Agree, Idle
<1>3. CASE RestartSwap \/ RestartClose
  <2>1. restarts' # 0 \/ restarts # 0
    BY <1>1, <1>3 DEF RestartSwap, RestartClose
  <2>2. restarts' # 0 /\ phase' = "up"
    BY <1>1, <1>3, <2>1 DEF RestartSwap, RestartClose, Dispatch
  <2> QED BY <2>2 DEF StepByStep
<1>4. CASE UserEnd \/ StartListening \/ BeatSnapshot \/ BeatWrite \/ Tick \/ UNCHANGED vars \/
             RecoverSessions
  <2>1. UNCHANGED <<isRecording, recordingRooms, recorder, live, hpc, restarts, phase, inOrder>>
    BY <1>4 DEF UserEnd, StartListening, BeatSnapshot, BeatWrite, Tick, vars, RecoverSessions, Next
  <2> QED BY <2>1 DEF StepByStep, Agree, Idle
<1>5. ASSUME NEW h \in Handlers, HandlerStep(h)
      PROVE  StepByStep'
  <2>1. /\ UNCHANGED <<live, restarts, phase, inOrder>> /\ hpc[h] # "idle"
        /\ phase \in {"up", "closing"}
        /\ hpc' = [hpc EXCEPT ![h] = hpc'[h]]
    <3>1. UNCHANGED <<live, restarts, phase>> /\ hpc[h] # "idle"
      BY <1>5 DEF HandlerStep, LiveUpsert, LiveSession, LiveRecord,
            EndSession, Remove, RecFlag, RecStatus, RecHeartbeat, StopFlag, StopStatus
    <3>2. PICK step : Become(h, step)
      BY <1>5 DEF HandlerStep, LiveUpsert, LiveSession, LiveRecord,
            EndSession, Remove, RecFlag, RecStatus, RecHeartbeat, StopFlag, StopStatus
    <3>3. hpc' = [hpc EXCEPT ![h] = step] /\ hpc'[h] = step
      BY <1>1, <3>2 DEF Become
    <3>4. UNCHANGED inOrder
      BY DEF Next, vars
    <3>5. phase \in {"up", "closing"}
      BY <1>1, <3>1 DEF Idle, Running
    <3> QED BY <3>1, <3>3, <3>4, <3>5
  <2>2. SUFFICES ASSUME inOrder, restarts = 0, phase = "up"
                 PROVE  StepByStep'
    BY <2>1 DEF StepByStep
  <2>3. \A g \in Handlers : g # h => hpc[g] = "idle" /\ hpc'[g] = "idle"
    BY <1>1, <2>1, <2>2 DEF StepByStep
  <2>4. SUFFICES /\ hpc'[h] = "idle" => Agree' /\ (recorder' => live')
                 /\ hpc'[h] \in {"live_upsert", "live_session", "live_record"} =>
                       ~recorder' /\ ~isRecording' /\ ~recordingRooms' /\ live'
                 /\ hpc'[h] \in {"end_session", "remove"} => Agree'
                 /\ hpc'[h] \in {"rec_flag", "rec_status", "rec_heartbeat"} =>
                       /\ recorder' /\ live'
                       /\ recordingRooms' <=> hpc'[h] # "rec_flag"
                       /\ isRecording' <=> hpc'[h] = "rec_heartbeat"
                 /\ hpc'[h] \in {"stop_flag", "stop_status"} =>
                       /\ ~recorder' /\ isRecording'
                       /\ recordingRooms' <=> hpc'[h] = "stop_flag"
    BY <2>1, <2>2, <2>3 DEF StepByStep, Idle
  <2>5. /\ hpc[h] \in {"live_upsert", "live_session", "live_record"} =>
              ~recorder /\ ~isRecording /\ ~recordingRooms /\ live
        /\ hpc[h] \in {"end_session", "remove"} => Agree
        /\ hpc[h] \in {"rec_flag", "rec_status", "rec_heartbeat"} =>
              /\ recorder /\ live
              /\ recordingRooms <=> hpc[h] # "rec_flag"
              /\ isRecording <=> hpc[h] = "rec_heartbeat"
        /\ hpc[h] \in {"stop_flag", "stop_status"} =>
              /\ ~recorder /\ isRecording
              /\ recordingRooms <=> hpc[h] = "stop_flag"
    BY <2>2 DEF StepByStep
  <2>6. CASE LiveUpsert(h) \/ LiveSession(h) \/ LiveRecord(h)
    <3>1. CASE LiveUpsert(h)
      BY <1>1, <2>1, <2>5, <3>1 DEF LiveUpsert, Become
    <3>2. CASE LiveSession(h)
      <4>1. /\ hpc[h] = "live_session" /\ hpc'[h] = "live_record"
            /\ UNCHANGED <<isRecording, recordingRooms, recorder>>
        BY <1>1, <3>2 DEF LiveSession, Become
      <4> QED BY <2>1, <2>5, <4>1
    <3>3. CASE LiveRecord(h)
      <4>1. ~recorder /\ ~isRecording /\ ~recordingRooms /\ live
        BY <2>5, <3>3 DEF LiveRecord
      <4>2. hpc'[h] = "rec_flag" /\ recorder' /\ UNCHANGED <<isRecording, recordingRooms>>
        BY <1>1, <3>3, <4>1 DEF LiveRecord, Become
      <4> QED BY <2>1, <4>1, <4>2
    <3> QED BY <2>6, <3>1, <3>2, <3>3
  <2>7. CASE EndSession(h) \/ Remove(h)
    BY <1>1, <2>1, <2>5, <2>7 DEF EndSession, Remove, Become, Agree
  <2>8. CASE RecFlag(h) \/ RecStatus(h) \/ RecHeartbeat(h)
    BY <1>1, <2>1, <2>5, <2>8 DEF RecFlag, RecStatus, RecHeartbeat, Become, Agree
  <2>9. CASE StopFlag(h) \/ StopStatus(h)
    BY <1>1, <2>1, <2>5, <2>9 DEF StopFlag, StopStatus, Become, Agree
  <2> QED BY <1>5, <2>6, <2>7, <2>8, <2>9 DEF HandlerStep
<1>6. CASE Shutdown \/ ProcessExit
  BY <1>6 DEF Shutdown, ProcessExit, StepByStep
<1>7. CASE Start \/ RecoverStatus
  <2>1. /\ UNCHANGED <<recordingRooms, recorder, live, hpc, restarts, inOrder>>
        /\ phase \in {"down", "recovering"} /\ Idle
        /\ phase' = "up" => ~isRecording'
        /\ phase' \in {"recovering", "up"}
    BY <1>1, <1>7 DEF Start, RecoverStatus, Next, vars, Running
  <2>2. \A h \in Handlers : hpc'[h] = "idle"
    BY <2>1 DEF Idle
  <2> QED BY <1>1, <2>1, <2>2 DEF StepByStep, Agree
<1> QED BY <1>2, <1>3, <1>4, <1>5, <1>6, <1>7 DEF Next

LEMMA InOrderInvariance == Spec => [](StateIInv /\ Bounds /\ StepByStep)
<1>1. Init => Bounds /\ StepByStep
  <2>1. Init => Bounds
    <3> SUFFICES ASSUME Init PROVE Bounds
        OBVIOUS
    <3>1. Len(sessions) = 0
      BY DEF Init
    <3>2. 0 \in 0..MaxRestarts /\ 0 \in 0..MaxExits /\ 0 \in 0..0 /\ 0 <= MaxSessions
      BY Counts
    <3>3. /\ restarts = 0 /\ replaced = 0 /\ exits = 0 /\ inOrder \in Orders /\ user = "idle"
          /\ recordingRooms = FALSE /\ monitored = FALSE /\ live = FALSE /\ recorder = FALSE
      BY DEF Init
    <3> QED BY <3>1, <3>2, <3>3 DEF Bounds
  <2>2. Init => StepByStep
    BY DEF Init, StepByStep
  <2> QED BY <2>1, <2>2
<1> QED BY <1>1, StateInit, StateNext, BoundsNext, StepByStepNext, PTL DEF Spec

(***************************************************************************)
(* When the events are handled in order and nothing was restarted, the map *)
(* of the manager, the row of the database and the recorders agree at rest *)
(* whatever stops, crashes and recoveries came before (OnRecordingStart,   *)
(* OnRecordingStop, RecoverFromCrash).                                     *)
(***************************************************************************)
THEOREM StateFollowsRecorder == Spec => []RecordingStateAgrees
<1>1. StateIInv /\ Bounds /\ StepByStep => RecordingStateAgrees
  BY DEF StateIInv, RowTypes, Bounds, StepByStep, Agree, RecordingStateAgrees, Settled
<1> QED BY <1>1, InOrderInvariance, PTL

\* Every variable keeps its type: every time that is written has come.
THEOREM StateTypes == Spec => []TypeOK
<1>1. StateIInv /\ Bounds => TypeOK
  <2> SUFFICES ASSUME StateIInv, Bounds PROVE TypeOK
      OBVIOUS
  <2>1. interrupted \subseteq 1..MaxSessions
    BY Counts DEF StateIInv, RowTypes, Bounds
  <2>2. clock \in 1..MaxTime
    BY TimeStarts DEF StateIInv, RowTypes, Time
  <2>3. replaced \in 0..MaxRestarts
    BY Counts DEF Bounds
  <2> QED BY <2>1, <2>2, <2>3 DEF StateIInv, RowTypes, Bounds, TypeOK
<1> QED BY <1>1, InOrderInvariance, PTL
=============================================================================
