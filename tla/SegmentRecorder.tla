---------------------------- MODULE SegmentRecorder ----------------------------
(***************************************************************************)
(* One recorder from the inside: tryRecord and run of                      *)
(* src/src/recorders/recorder.go, the watchdog run starts for every        *)
(* attempt, Close, and the three downloaders behind parser.Parser          *)
(* (src/src/pkg/parser).  RecorderManager.tla sees only that a recorder    *)
(* produces files until it is closed; here is how.                         *)
(*                                                                         *)
(* The run goroutine, the watchdogs and the goroutine that calls Close     *)
(* share the parser, the danmaku client and the file path under locks each *)
(* takes for one access; every such access is a step.                      *)
(***************************************************************************)
EXTENDS Integers, FiniteSets

CONSTANTS
    Attempts,       \* bounds the attempts of the run loop
    Kinds           \* the downloaders in use: ffmpeg, recorder (BililiveRecorder), native

Tries == 1..Attempts

VARIABLES
    \* the recorder
    closed,     \* state = stopped; then close(r.stop)
    closing,    \* pc of the goroutine that calls Close
    pc, try,    \* of the run goroutine: where it is, its attempt
    parser,     \* r.parser: the attempt that set it, 0 is nil
    path,       \* whether currentFilePath is set
    danmaku,    \* r.danmakuRec: the attempt that started it, 0 is nil
    files,      \* recordedFiles, a set of <<attempt, what>>
    posted,     \* the attempts whose video was handed to post-processing
    \* what an attempt made
    kind,       \* the parser it built
    down,       \* its download: none, running, ended, failed
    stopAsked,  \* the parsers whose Stop was called
    video,      \* the attempts whose download has written data
    comments,   \* the attempts whose danmaku client is connected
    watch       \* the watchdog of an attempt: none, waiting, firing

recVars  == <<closed, closing, parser, path, danmaku>>
doneVars == <<files, posted>>
tryVars  == <<kind, down, stopAsked, video, comments>>
segVars  == <<recVars, pc, try, doneVars, tryVars, watch>>

Init ==
    /\ closed = FALSE /\ closing = "no"
    /\ pc = "loop" /\ try = 0
    /\ parser = 0 /\ path = FALSE /\ danmaku = 0
    /\ files = {} /\ posted = {}
    /\ kind \in [Tries -> Kinds]
    /\ down = [i \in Tries |-> "none"]
    /\ stopAsked = {} /\ video = {} /\ comments = {}
    /\ watch = [i \in Tries |-> "none"]

Go(l) == pc' = l

------------------------------------------------------------------------------
(* The downloaders *)

\* Stop of a parser, 0 for none: remembered, whether or not the download runs.
Stopped(i) == IF i = 0 THEN stopAsked ELSE stopAsked \cup {i}

\* ffmpeg refuses to start once stopped; BililiveRecorder starts and is told to quit;
\* the native parser looks at its stop channel between two tags.
StartDownload(i) ==
    down' = [down EXCEPT ![i] = IF kind[i] = "ffmpeg" /\ i \in stopAsked THEN "failed" ELSE "running"]

\* The stream delivers data; the file exists from then on.
Write(i) ==
    /\ down[i] = "running" /\ i \notin video
    /\ video' = video \cup {i}
    /\ UNCHANGED <<recVars, pc, try, doneVars, kind, down, stopAsked, comments, watch>>

\* The stream ends, breaks, or its codec parameters change; or a stopped download obeys.
EndDownload(i) ==
    /\ down[i] = "running"
    /\ \E how \in {"ended", "failed"} : down' = [down EXCEPT ![i] = how]
    /\ UNCHANGED <<recVars, pc, try, doneVars, kind, stopAsked, video, comments, watch>>

------------------------------------------------------------------------------
(* run and tryRecord *)

\* The loop: stop, or look at the disk and wait, or begin an attempt with its watchdog.
Loop ==
    /\ pc = "loop"
    /\ \/ closed /\ Go("done") /\ UNCHANGED <<try, watch>>
       \/ ~closed /\ Go("disk") /\ UNCHANGED <<try, watch>>
       \/ /\ ~closed /\ try < Attempts
          /\ try' = try + 1
          /\ watch' = [watch EXCEPT ![try'] = "waiting"]
          /\ Go("resolve")
    /\ UNCHANGED <<recVars, doneVars, tryVars>>

\* Every wait of the loop ends with its timer or with the recorder.
WaitEnds ==
    /\ pc \in {"disk", "gap"}
    /\ Go(IF closed THEN "done" ELSE "loop")
    /\ UNCHANGED <<recVars, try, doneVars, tryVars, watch>>

\* The attempt returns: tryCancel ends its watchdog, its probe and its danmaku client.
Return ==
    /\ Go("gap")
    /\ watch' = [watch EXCEPT ![try] = "none"]

\* The streams are resolved, the output directory made, the probe proxy started; or one
\* of it fails: no stream yet, the platform says offline, no directory, no such parser.
Resolve ==
    /\ pc = "resolve"
    /\ \/ Return
       \/ Go("set_parser") /\ UNCHANGED watch
    /\ UNCHANGED <<recVars, try, doneVars, tryVars>>

\* Mutant: a parser set after Close is not stopped.
SetOnly(p) == stopAsked' = Stopped(parser)

\* setAndCloseParser, under parserLock: the old parser is stopped, and the new one too
\* when the recorder has been closed meanwhile.
SetAndClose(p) ==
    stopAsked' = IF closed /\ p # 0 THEN Stopped(parser) \cup {p} ELSE Stopped(parser)

SetParser ==
    /\ pc = "set_parser"
    /\ SetAndClose(try)
    /\ parser' = try
    /\ Go("danmaku")
    /\ UNCHANGED <<closed, closing, path, danmaku, try, doneVars, kind, down, video, comments, watch>>

\* The danmaku client of the attempt replaces the one before, which is stopped; it may
\* fail to start.  When danmaku are switched off there is none from here on.
StartDanmaku ==
    /\ pc = "danmaku"
    /\ \/ danmaku' = try /\ comments' = (comments \cup {try}) \ {danmaku}
       \/ UNCHANGED <<danmaku, comments>>
       \/ danmaku' = 0 /\ comments' = comments \ {danmaku}
    /\ path' = TRUE
    /\ Go("start")
    /\ UNCHANGED <<closed, closing, parser, try, doneVars, kind, down, stopAsked, video, watch>>

\* r.parser is read without the lock: a watchdog may have cleared it, and then the
\* goroutine panics and the loop is over.
ParseLiveStream ==
    /\ pc = "start"
    /\ \/ parser = 0 /\ Go("panicked") /\ UNCHANGED down
       \/ parser # 0 /\ Go("parse") /\ StartDownload(parser)
    /\ UNCHANGED <<recVars, try, doneVars, kind, stopAsked, video, comments, watch>>

ParseReturns ==
    /\ pc = "parse" /\ down[try] \in {"ended", "failed"}
    /\ path' = FALSE
    /\ Go("stop_danmaku")
    /\ UNCHANGED <<closed, closing, parser, danmaku, try, doneVars, tryVars, watch>>

\* Mutant: an attempt that failed leaves its danmaku client to the next one.
LeaveDanmaku ==
    /\ pc = "stop_danmaku"
    /\ comments' = IF down[try] = "failed" THEN comments ELSE comments \ {danmaku}
    /\ files' \in IF danmaku = 0 THEN {files} ELSE {files, files \cup {<<danmaku, "danmaku">>}}
    /\ Go("post")
    /\ UNCHANGED <<recVars, try, posted, kind, down, stopAsked, video, watch>>

\* The danmaku file joins the summary when there is one.
StopDanmaku ==
    /\ pc = "stop_danmaku"
    /\ comments' = comments \ {danmaku}
    /\ files' \in IF danmaku = 0 THEN {files} ELSE {files, files \cup {<<danmaku, "danmaku">>}}
    /\ Go("post")
    /\ UNCHANGED <<recVars, try, posted, kind, down, stopAsked, video, watch>>

\* Mutant: whatever went wrong, a download that failed is not post-processed.
LeaveOnError(i) == down[i] = "failed"

\* After an error only a file of the expected name counts: BililiveRecorder numbers its
\* files (_PART000) and leaves none of that name.
LeaveBehind(i) == down[i] = "failed" /\ (i \notin video \/ kind[i] = "recorder")

\* Nothing was written; or the custom command is configured, which knows no parts.
FoundNothing(i) == i \notin video \/ kind[i] = "recorder"

\* The files are looked for, join the summary and go to the custom command or to the
\* pipeline, which may refuse them or have no stage for them.
PostProcess ==
    /\ pc = "post"
    /\ \/ LeaveBehind(try) /\ UNCHANGED doneVars
       \/ ~LeaveBehind(try) /\ FoundNothing(try) /\ UNCHANGED doneVars
       \/ /\ ~LeaveBehind(try) /\ try \in video
          /\ files' = files \cup {<<try, "video">>}
          /\ posted' \in {posted, posted \cup {try}}
    /\ Return
    /\ UNCHANGED <<recVars, try, tryVars>>

------------------------------------------------------------------------------
(* The watchdog of an attempt, and Close *)

\* IsRecording: a file has been named and has data.
IsRecording == path /\ try \in video

\* Two minutes have passed and nothing is recorded yet.
WatchdogExpires(i) ==
    /\ watch[i] = "waiting" /\ ~IsRecording
    /\ watch' = [watch EXCEPT ![i] = "firing"]
    /\ UNCHANGED <<recVars, pc, try, doneVars, tryVars>>

\* setAndCloseParser(nil), whatever has happened since it looked.
WatchdogFires(i) ==
    /\ watch[i] = "firing"
    /\ SetAndClose(0)
    /\ parser' = 0
    /\ watch' = [watch EXCEPT ![i] = "none"]
    /\ UNCHANGED <<closed, closing, path, danmaku, pc, try, doneVars, kind, down, video, comments>>

Close ==
    /\ closing = "no"
    /\ closed' = TRUE /\ closing' = "parser"
    /\ UNCHANGED <<parser, path, danmaku, pc, try, doneVars, tryVars, watch>>

CloseParser ==
    /\ closing = "parser"
    /\ stopAsked' = Stopped(parser)
    /\ closing' = "danmaku"
    /\ UNCHANGED <<closed, parser, path, danmaku, pc, try, doneVars, kind, down, video, comments, watch>>

CloseDanmaku ==
    /\ closing = "danmaku"
    /\ comments' = comments \ {danmaku}
    /\ closing' = "done"
    /\ UNCHANGED <<closed, parser, path, danmaku, pc, try, doneVars, kind, down, stopAsked, video, watch>>

Run == Loop \/ WaitEnds \/ Resolve \/ SetParser \/ StartDanmaku \/ ParseLiveStream
          \/ ParseReturns \/ StopDanmaku \/ PostProcess

Next ==
    \/ Run
    \/ \E i \in Tries : Write(i) \/ EndDownload(i) \/ WatchdogExpires(i) \/ WatchdogFires(i)
    \/ Close \/ CloseParser \/ CloseDanmaku

\* A stopped download ends; the goroutines run.  A stream need not end by itself.
Fairness ==
    /\ WF_segVars(Run) /\ WF_segVars(CloseParser) /\ WF_segVars(CloseDanmaku)
    /\ \A i \in Tries : WF_segVars(WatchdogFires(i)) /\ WF_segVars(i \in stopAsked /\ EndDownload(i))

Spec == Init /\ [][Next]_segVars /\ Fairness

------------------------------------------------------------------------------
(* Properties *)

SegmentTypeOK ==
    /\ closed \in BOOLEAN /\ closing \in {"no", "parser", "danmaku", "done"}
    /\ pc \in {"loop", "disk", "gap", "resolve", "set_parser", "danmaku", "start", "parse",
               "stop_danmaku", "post", "done", "panicked"}
    /\ try \in 0..Attempts /\ parser \in 0..Attempts /\ danmaku \in 0..Attempts
    /\ files \subseteq Tries \X {"video", "danmaku"} /\ posted \subseteq Tries
    /\ watch \in [Tries -> {"none", "waiting", "firing"}]

\* A recorder that is closed stops recording: wherever in an attempt the Close comes, the
\* run goroutine ends, though the stream goes on (Close, setAndCloseParser, and Stop
\* before or after ParseLiveStream of every downloader).
CloseEndsRecording == closed ~> pc \in {"done", "panicked"}

\* Between two attempts, and after the last, no download and no danmaku client is left
\* over: each attempt cleans up behind itself, however the watchdog and Close interfere.
NothingLeftRunning ==
    pc \in {"loop", "disk", "gap", "resolve", "set_parser", "done"} =>
        /\ comments = {}
        /\ \A i \in Tries : down[i] # "running"

\* What ffmpeg or the native parser has written before its attempt ended in whatever way
\* is in the summary (recorder.go:622).
RecordedIsSummed ==
    \A i \in video : (kind[i] # "recorder" /\ (try > i \/ pc \in {"gap", "done"}))
        => <<i, "video">> \in files

\* recorder.go:622 "when the stream ends abnormally, as long as a file was produced it is
\* still post-processed": whatever the downloader.
RecordedIsNeverForgotten ==
    \A i \in video : (try > i \/ pc \in {"gap", "done"}) => <<i, "video">> \in files
=============================================================================
