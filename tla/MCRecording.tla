----------------------------- MODULE MCRecording -----------------------------
(***************************************************************************)
(* Instances for TLC of the parts a recording is made of, which share no   *)
(* state: the run loop of a recorder, the danmaku client beside it, the    *)
(* probe in front of its downloader, and the feed that carries its log to  *)
(* browsers.  A behaviour is one of one part (chosen at the start); the    *)
(* others stay in one of their initial states.                             *)
(***************************************************************************)
EXTENDS Integers, Sequences

CONSTANTS
    Attempts, Kinds,                                    \* SegmentRecorder
    MaxReconnect, Lanes, Durations, Dials,              \* Danmaku
    Clients, MaxProbeTags, StreamLength, Length,        \* StreamProbe
    Connections, Capacity, Size, MaxBytes, MaxPending   \* LiveFeed

ASSUME RecordingAssumption ==
    /\ Attempts \in Nat
    /\ Lanes \in Nat \ {0} /\ Durations \subseteq Nat \ {0}
    /\ Size \in Nat \ {0}

VARIABLES
    part,
    \* SegmentRecorder
    closed, closing, pc, try, parser, path, danmaku, files, posted, kind, down, stopAsked,
    video, comments, watch,
    \* Danmaku
    recording, stopping, running, done, cancelled, reader, retries, heart, conn, open, dialled,
    fileClosed, laneLast, nextLane, showing,
    \* StreamProbe
    phase, position, buffered, found, isFLV, upstream, connected, client, got, lines, packets,
    \* LiveFeed
    logged, buf, writePos, full, callbacks, clients, channel, queue, hubClosed, handler, hungUp,
    panicked

Seg == INSTANCE SegmentRecorder
Dan == INSTANCE Danmaku
Pro == INSTANCE StreamProbe
Feed == INSTANCE LiveFeed

segments == <<closed, closing, pc, try, parser, path, danmaku, files, posted, kind, down,
              stopAsked, video, comments, watch>>
danmakus == <<recording, stopping, running, done, cancelled, reader, retries, heart, conn, open,
              dialled, fileClosed, laneLast, nextLane, showing>>
probes == <<phase, position, buffered, found, isFLV, upstream, connected, client, got, lines,
            packets>>
feeds == <<logged, buf, writePos, full, callbacks, clients, channel, queue, hubClosed, handler,
           hungUp, panicked>>

mcVars == <<part, segments, danmakus, probes, feeds>>

MCInit ==
    /\ part \in {"segments", "danmaku", "probe", "feed"}
    /\ Seg!Init
    /\ part # "segments" => \A i \in Seg!Tries : kind[i] = CHOOSE k \in Kinds : TRUE
    /\ Dan!Init
    /\ Pro!Init
    /\ part # "probe" => lines = <<>> /\ packets = <<>>
    /\ Feed!Init

On(p, A) == part = p /\ A /\ UNCHANGED part

MCNext ==
    \/ On("segments", Seg!Next) /\ UNCHANGED <<danmakus, probes, feeds>>
    \/ On("danmaku", Dan!Next) /\ UNCHANGED <<segments, probes, feeds>>
    \/ On("probe", Pro!Next) /\ UNCHANGED <<segments, danmakus, feeds>>
    \/ On("feed", Feed!Next) /\ UNCHANGED <<segments, danmakus, probes>>

\* The fairness of each part, which only the part that runs can owe.
Fair(p, A) == part = p /\ A

MCFairness ==
    /\ WF_segments(Fair("segments", Seg!Run)) /\ WF_segments(Fair("segments", Seg!CloseParser))
    /\ WF_segments(Fair("segments", Seg!CloseDanmaku))
    /\ \A i \in 1 .. Attempts :
        /\ WF_segments(Fair("segments", Seg!WatchdogFires(i)))
        /\ WF_segments(Fair("segments", i \in stopAsked /\ Seg!EndDownload(i)))
    /\ WF_danmakus(Fair("danmaku", Dan!ReaderTop \/ Dan!ReadFails \/ Dan!Reconnect \/ Dan!Install))
    /\ WF_danmakus(Fair("danmaku", Dan!HeartbeatEnds)) /\ WF_danmakus(Fair("danmaku", Dan!StopClient))
    /\ WF_danmakus(Fair("danmaku", Dan!Cancel))
    /\ WF_probes(Fair("probe", Pro!Cleanup))
    /\ \A c \in Clients : WF_probes(Fair("probe", Pro!RequestEnds(c)))
    /\ \A c \in Connections :
        WF_feeds(Fair("feed", Feed!Handle(c))) /\ SF_feeds(Fair("feed", Feed!HubDone(c)))

MCSpec == MCInit /\ [][MCNext]_mcVars /\ MCFairness
-----------------------------------------------------------------------------
(* Close ends whatever it closes, wherever in its work it comes: the run       *)
(* goroutine of a recorder, both goroutines of a danmaku client, the client of *)
(* a probe, every handler of the hub (recorder.Close, DouyinClient.Stop,       *)
(* StreamProbe.Stop, SSEHub.Close).                                            *)
ClosingEnds ==
    /\ part = "segments" => Seg!CloseEndsRecording
    /\ part = "danmaku" => Dan!StoppedClientEnds
    /\ part = "probe" => Pro!ClientsLetGo
    /\ part = "feed" => Feed!CloseEndsHandlers

(* No download and no danmaku client outlives its attempt (tryRecord). *)
NothingLeftRunning == part = "segments" => Seg!NothingLeftRunning

(* What was written is in the summary however the attempt ended (tryRecord). *)
RecordedIsSummed == part = "segments" => Seg!RecordedIsSummed

(* Comments overlap only when every lane is taken (assignLane). *)
LanesShared == Dan!LanesShared

(* What passes through is passed on without a gap: the downloader gets the   *)
(* whole stream from the probe (handleStreamRequest), and a room's log       *)
(* buffer is the end of its log (ringBuffer).                                *)
NothingSkipped ==
    /\ part = "probe" => Pro!StreamIsWhole
    /\ part = "feed" => Feed!BufferIsTail

(* A playlist loses the preloading segments with their tags, and nothing     *)
(* else (RewritePlaylist); the resolution is found exactly when the segment  *)
(* shows it (parseTSData).                                                   *)
HlsIsRead == part = "probe" => Pro!RewriteIsFilter /\ Pro!ResolutionFound

(* No channel of the hub is used after it is closed (SSEHub). *)
NoClosedChannelUsed == part = "feed" => Feed!NoClosedChannelUsed
=============================================================================
