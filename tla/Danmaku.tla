-------------------------------- MODULE Danmaku --------------------------------
(***************************************************************************)
(* The recording of a room's comments, src/src/recorders/danmaku: the      *)
(* WebSocket client of Douyin with its reader, its reconnections and its   *)
(* heartbeat, the recorder around it, and the subtitle writer, which gives *)
(* every scrolling comment a lane of the screen.                           *)
(*                                                                         *)
(* Times are ticks from now on.  The client of Bilibili is a library.      *)
(***************************************************************************)
EXTENDS Integers, FiniteSets

CONSTANTS
    MaxReconnect,   \* maxReconnect, 5 in the code
    Lanes,          \* laneNum
    Durations,      \* how long a comment scrolls, by its length
    Dials           \* bounds the connections the client opens

LaneIds == 0..(Lanes - 1)
Longest == CHOOSE d \in Durations : \A e \in Durations : e <= d

VARIABLES
    \* the recorder and its client
    recording,      \* DouyinDanmakuRecorder.running
    stopping,       \* pc of Stop, which holds the recorder's lock until it returns
    running,        \* DouyinClient.running
    done,           \* whether the client's done channel is closed
    cancelled,      \* the context of the attempt: tryCancel
    reader, retries,\* the reader goroutine: pc, reconnectCount
    heart,          \* whether the heartbeat goroutine lives
    conn, open,     \* the client's connection; the connections that are open
    dialled,        \* connections opened so far
    \* the subtitle writer
    fileClosed,
    laneLast,       \* when a lane is free again
    nextLane,
    showing         \* history: the comments on the screen, <<lane, ticks left>>

clientVars == <<running, done, reader, retries, heart, conn, open, dialled>>
writerVars == <<fileClosed, laneLast, nextLane, showing>>
danmakuVars == <<recording, stopping, cancelled, clientVars, writerVars>>

Init ==
    /\ recording = TRUE /\ stopping = "no" /\ running = TRUE
    /\ done = FALSE /\ cancelled = FALSE
    /\ reader = "top" /\ retries = 0 /\ heart = TRUE
    /\ conn = 1 /\ open = {1} /\ dialled = 1
    /\ fileClosed = FALSE
    /\ laneLast = [l \in LaneIds |-> 0] /\ nextLane = 0 /\ showing = {}

\* Mutant: only Stop ends the goroutines.
OverDone == done

\* What every wait of the goroutines looks at.
Over == cancelled \/ done

------------------------------------------------------------------------------
(* The subtitle writer *)

FreeLanes == {l \in LaneIds : laneLast[l] <= 0}

\* The lanes in the order in which assignLane tries them.
Distance(l) == (l + Lanes - nextLane) % Lanes

\* Mutant: the lane after the last one, free or not.
NextLane == nextLane

\* The first free lane from nextLane on; the one that is free first when none is.
AssignLane ==
    IF FreeLanes # {}
    THEN CHOOSE l \in FreeLanes : \A m \in FreeLanes : Distance(l) <= Distance(m)
    ELSE CHOOSE l \in LaneIds : \A m \in LaneIds :
            laneLast[l] < laneLast[m] \/ (laneLast[l] = laneLast[m] /\ l <= m)

\* AddDanmaku, AddGift: nothing once the file is closed.
AddComment(d) ==
    /\ ~fileClosed
    /\ laneLast' = [laneLast EXCEPT ![AssignLane] = d]
    /\ nextLane' = (AssignLane + 1) % Lanes
    /\ showing' = showing \cup {<<AssignLane, d>>}
    /\ UNCHANGED fileClosed

Tick ==
    /\ showing # {}
    /\ laneLast' = [l \in LaneIds |-> IF laneLast[l] > 0 THEN laneLast[l] - 1 ELSE 0]
    /\ showing' = {<<c[1], c[2] - 1>> : c \in {s \in showing : s[2] > 1}}
    /\ UNCHANGED <<recording, stopping, cancelled, clientVars, fileClosed, nextLane>>

------------------------------------------------------------------------------
(* The reader and the heartbeat *)

\* The reader is gone, and with it "running": Stop will find nothing to stop.
ReaderGone ==
    /\ reader' = "ended" /\ running' = FALSE

ReaderTop ==
    /\ reader = "top"
    /\ \/ Over /\ ReaderGone
       \/ ~Over /\ reader' = "read" /\ UNCHANGED running
    /\ UNCHANGED <<recording, stopping, cancelled, done, retries, heart, conn, open, dialled, writerVars>>

\* A message: a comment is written while the recorder runs, under its lock.
Receive ==
    /\ reader = "read" /\ conn \in open /\ stopping # "locked"
    /\ \/ recording /\ \E d \in Durations : AddComment(d)
       \/ UNCHANGED writerVars
    /\ reader' = IF Over THEN "top" ELSE "read"
    /\ UNCHANGED <<recording, stopping, cancelled, running, done, retries, heart, conn, open, dialled>>

\* Mutant: one reconnection too many.
RetryOnceMore ==
    /\ reader = "read"
    /\ \/ Over /\ ReaderGone /\ UNCHANGED retries
       \/ /\ ~Over /\ retries <= MaxReconnect
          /\ retries' = retries + 1 /\ reader' = "wait" /\ UNCHANGED running
       \/ ~Over /\ retries > MaxReconnect /\ ReaderGone /\ UNCHANGED retries
    /\ UNCHANGED <<recording, stopping, cancelled, done, heart, conn, open, dialled, writerVars>>

\* The connection breaks, times out, or has been closed; or the server closes it.
ReadFails ==
    /\ reader = "read"
    /\ \/ Over /\ ReaderGone /\ UNCHANGED retries
       \/ conn \in open /\ ReaderGone /\ UNCHANGED retries
       \/ /\ ~Over /\ retries < MaxReconnect
          /\ retries' = retries + 1 /\ reader' = "wait" /\ UNCHANGED running
       \/ ~Over /\ retries = MaxReconnect /\ ReaderGone /\ UNCHANGED retries
    /\ UNCHANGED <<recording, stopping, cancelled, done, heart, conn, open, dialled, writerVars>>

\* The pause before the next connection, which may fail.
Reconnect ==
    /\ reader = "wait"
    /\ \/ Over /\ ReaderGone /\ UNCHANGED <<open, dialled>>
       \/ ~Over /\ reader' = "top" /\ UNCHANGED <<running, open, dialled>>
       \/ /\ ~Over /\ dialled < Dials
          /\ dialled' = dialled + 1 /\ open' = open \cup {dialled'}
          /\ reader' = "dialled" /\ UNCHANGED running
    /\ UNCHANGED <<recording, stopping, cancelled, done, retries, heart, conn, writerVars>>

\* Under the client's lock; a Stop that came during the handshake has closed the old
\* connection, and nobody will close this one.
Install ==
    /\ reader = "dialled"
    /\ open' = open \ {conn} /\ conn' = dialled
    /\ retries' = 0 /\ reader' = "top"
    /\ UNCHANGED <<recording, stopping, cancelled, running, done, heart, dialled, writerVars>>

HeartbeatEnds ==
    /\ heart /\ Over
    /\ heart' = FALSE
    /\ UNCHANGED <<recording, stopping, cancelled, running, done, reader, retries, conn, open, dialled, writerVars>>

------------------------------------------------------------------------------
(* Stop, by the attempt, by Close, or by both *)

Stop ==
    /\ stopping = "no"
    /\ stopping' = "locked" /\ recording' = FALSE
    /\ UNCHANGED <<cancelled, clientVars, writerVars>>

\* DouyinClient.Stop does nothing to a client whose reader has given up.
StopRunning == open' = open \ {conn} /\ done' = TRUE

StopClient ==
    /\ stopping = "locked"
    /\ IF running THEN StopRunning ELSE UNCHANGED <<open, done>>
    /\ running' = FALSE
    /\ fileClosed' = TRUE
    /\ stopping' = "stopped"
    /\ UNCHANGED <<recording, cancelled, reader, retries, heart, conn, dialled, laneLast, nextLane, showing>>

\* tryCancel, after the attempt has stopped its danmaku.
Cancel ==
    /\ stopping = "stopped" /\ ~cancelled
    /\ cancelled' = TRUE
    /\ UNCHANGED <<recording, stopping, clientVars, writerVars>>

Reader == ReaderTop \/ Receive \/ ReadFails \/ Reconnect \/ Install

Next == Reader \/ HeartbeatEnds \/ Stop \/ StopClient \/ Cancel \/ Tick

\* A read ends within its deadline; the attempt cancels its context after Stop.
Fairness ==
    /\ WF_danmakuVars(ReaderTop \/ ReadFails \/ Reconnect \/ Install)
    /\ WF_danmakuVars(HeartbeatEnds) /\ WF_danmakuVars(StopClient) /\ WF_danmakuVars(Cancel)

Spec == Init /\ [][Next]_danmakuVars /\ Fairness

------------------------------------------------------------------------------
(* Properties *)

DanmakuTypeOK ==
    /\ reader \in {"top", "read", "wait", "dialled", "ended"} /\ retries \in 0..MaxReconnect
    /\ conn \in 1..Dials /\ open \subseteq 1..Dials /\ conn <= dialled
    /\ laneLast \in [LaneIds -> 0..Longest] /\ nextLane \in LaneIds
    /\ showing \subseteq LaneIds \X (1..Longest)

\* A stopped client ends both its goroutines, whether Stop finds it reading, waiting to
\* reconnect, in a handshake or given up (Stop, readLoopWithReconnect, heartbeatLoop).
StoppedClientEnds == (stopping = "stopped") ~> (reader = "ended" /\ ~heart)

\* A comment is put into a lane where another one still scrolls only when every lane is
\* taken (assignLane, AddDanmaku, AddGift).
LanesShared ==
    [][\A d \in Durations :
            AddComment(d) /\ (\E s \in showing : s[1] = AssignLane)
                => \A l \in LaneIds : \E s \in showing : s[1] = l]_danmakuVars
=============================================================================
