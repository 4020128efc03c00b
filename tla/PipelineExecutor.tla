-------------------------- MODULE PipelineExecutor --------------------------
(* What one post-processing task does to the files of a recording             *)
(* (src/src/pipeline/executor.go, config.go and stages/): the stages the      *)
(* legacy OnRecordFinished options turn into, each stage file by file and     *)
(* disk operation by disk operation, the upload to the cloud, the publication *)
(* on Bilibili, and what a cancellation, a restart of the program and a retry *)
(* of the task do to files earlier stages have already replaced or deleted.   *)
(*                                                                            *)
(* A file is a base name, an extension and a tag: "" for a finished file,     *)
(* "tmp" for the .converting_, .burning_, .repairing_ and .fix_p files a tool *)
(* writes, "bak" for the backup of a repair.  The base name <<r, 0>> is the   *)
(* whole recording r, <<r, 1>> and <<r, 2>> its parts after a split.          *)
EXTENDS Naturals, Sequences, FiniteSets, SequencesExt

CONSTANTS Recordings,   \* the files the recorder hands to the task
          OptionSets,   \* the options a task may have been created from
          Storages,     \* the storages of cloud_upload
          Concurrency,  \* max_concurrent_uploads
          MaxRuns       \* bound: executions of the task

VARIABLES options,      \* the options of this task
          disk,         \* the files in the recording directory
          remote,       \* <<file, storage>> uploaded
          article,      \* the parts of the recordings in submitted articles
          status,       \* pending, running, completed, failed, cancelled
          stage,        \* loop index of Execute; 0 before the first stage
          files,        \* the file list the current stage reads
          at,           \* where the stage is: start, files, publish, upload
          todo,         \* files (upload: indices) not yet looked at
          output,       \* its output so far (upload: indices kept)
          ops,          \* disk operations left for the current file
          sending,      \* indices of the files being uploaded
          waiting,      \* the file found on disk that waits for an upload slot
          errors,       \* the upload stage has a failed target
          failures,     \* stages that failed with continue_on_failure
          cancelled,    \* CancelTask was called during this execution
          runs          \* executions so far

execVars == <<options, disk, remote, article, status, stage, files, at, todo, output,
              ops, sending, waiting, errors, failures, cancelled, runs>>

VideoExts == {"flv", "ts", "mp4", "mkv", "burned.mkv"}
File(base, ext) == [base |-> base, ext |-> ext, tag |-> ""]
Tagged(f, tag) == [f EXCEPT !.tag = tag]
IsVideo(f) == f.ext \in VideoExts
With(f, ext) == File(f.base, ext)

(* The parts of a recording a video file holds.                               *)
Parts == Recordings \X {1, 2}
Covers(f) == IF f.base[2] = 0 THEN {f.base[1]} \X {1, 2} ELSE {f.base}

------------------------------------------------------------------------------
(* The stages of a task: the legacy options in their fixed order, convert_ts  *)
(* and repair_ts put in by the recorder, or the single stage of a batch burn. *)

When(c, s) == IF c THEN <<s>> ELSE <<>>
ConvertLegacyConfig(o) ==
    When(o.mp4, "convert_mp4") \o When(o.burn, "burn_subtitles") \o
    When(o.cover, "extract_cover") \o When(o.publish, "bili_publish") \o
    When(o.upload, "cloud_upload")
TsStages(o) ==
    When(o.saveTs /\ o.ext = "flv", "convert_ts") \o
    When(o.saveTs \/ o.ext = "ts", "repair_ts")
Pipeline(o) ==
    IF o.batch THEN <<"burn_subtitles">>
    ELSE When(o.fix, "fix_flv") \o TsStages(o) \o ConvertLegacyConfig(o)

ShouldContinueOnFailure(s) == s \in {"repair_ts", "bili_publish", "cloud_upload"}

Initial == SetToSeq({File(<<r, 0>>, options.ext) : r \in Recordings})

Init ==
    /\ options \in OptionSets
    /\ disk = {File(<<r, 0>>, options.ext) : r \in Recordings} \cup
              (IF options.burn \/ options.batch
               THEN {File(<<r, 0>>, "ass") : r \in Recordings} ELSE {})
    /\ remote = {} /\ article = {}
    /\ status = "pending" /\ stage = 0 /\ files = Initial
    /\ at = "start" /\ todo = <<>> /\ output = <<>> /\ ops = <<>>
    /\ sending = {} /\ waiting = 0 /\ errors = FALSE
    /\ failures = {} /\ cancelled = FALSE /\ runs = 0

Name == Pipeline(options)[stage]
At(p) == status = "running" /\ at = p

------------------------------------------------------------------------------
(* Execute: the loop over the stages.                                         *)

Reset == /\ at' = "start" /\ todo' = <<>> /\ output' = <<>> /\ ops' = <<>>
         /\ sending' = {} /\ waiting' = 0 /\ errors' = FALSE

(* The next stage reads list; after the last one the task is settled.         *)
Advance(list, failed) ==
    LET last == stage = Len(Pipeline(options)) IN
    /\ failures' = failures \cup failed
    /\ Reset
    /\ files' = list
    /\ IF last \/ cancelled
       THEN /\ status' = IF cancelled /\ (~last \/ failures' # {}) THEN "cancelled"
                         ELSE IF failures' # {} THEN "failed" ELSE "completed"
            /\ stage' = stage
       ELSE /\ stage' = stage + 1
            /\ UNCHANGED status
    
StageDone(list) == Advance(list, {})

(* Mutant: a stage that may fail is forgotten once it has failed.             *)
ForgetFailure == Advance(files, {})

(* A failed stage ends the task, or leaves its input to the next one.         *)
StageFailed ==
    IF ShouldContinueOnFailure(Name)
    THEN Advance(files, {Name})
    ELSE /\ status' = IF cancelled THEN "cancelled" ELSE "failed"
         /\ Reset
         /\ UNCHANGED <<stage, files, failures>>

Execute ==
    /\ status = "pending" /\ runs < MaxRuns
    /\ status' = "running" /\ stage' = 1 /\ runs' = runs + 1
    /\ files' = Initial /\ failures' = {} /\ cancelled' = FALSE
    /\ Reset
    /\ UNCHANGED <<options, disk, remote, article>>

(* The stage looks at its input: an empty list goes through untouched, and    *)
(* so does one without a video on the disk when the stage publishes.          *)
Phase == CASE Name = "cloud_upload" -> "upload"
           [] Name = "bili_publish" -> "publish"
           [] OTHER -> "files"
Existing == {f \in Range(files) : IsVideo(f) /\ f \in disk}

BeginStage ==
    /\ At("start")
    /\ IF files = <<>> \/ (Name = "bili_publish" /\ Existing = {})
       THEN StageDone(files)
       ELSE /\ at' = Phase
            /\ todo' = CASE Phase = "upload" -> [i \in DOMAIN files |-> i]
                         [] Phase = "files" -> files
                         [] OTHER -> <<>>
            /\ output' = IF Name = "extract_cover" THEN files ELSE <<>>
            /\ UNCHANGED <<status, stage, files, ops, sending, waiting, errors, failures>>
    /\ UNCHANGED <<options, disk, remote, article, cancelled, runs>>

------------------------------------------------------------------------------
(* Disk operations.  write and move give the stage up when they fail          *)
(* (hard), a failed remove is only logged.                                    *)

Write(f) == [do |-> "write", from |-> f, to |-> f, hard |-> TRUE]
Move(f, g, hard) == [do |-> "move", from |-> f, to |-> g, hard |-> hard]
Unlink(f) == [do |-> "remove", from |-> f, to |-> f, hard |-> FALSE]

Apply(op) == CASE op.do = "write" -> disk \cup {op.to}
               [] op.do = "move" -> IF op.from \in disk
                                    THEN (disk \ {op.from}) \cup {op.to} ELSE disk
               [] op.do = "remove" -> disk \ {op.from}

(* Mutant: the source goes before the result has its name.                    *)
ConvertInPlace(f, g, gone) ==
    SetToSeq({Unlink(x) : x \in gone \ {g}}) \o
    <<Write(Tagged(g, "tmp")), Move(Tagged(g, "tmp"), g, TRUE)>>

(* ffmpeg writes a temporary file, which is renamed before the source goes.   *)
Convert(f, g, gone) ==
    LET temp == Tagged(g, "tmp") IN
    <<Write(temp), Move(temp, g, TRUE)>> \o SetToSeq({Unlink(x) : x \in gone \ {g}})

(* The original of a repair is renamed, replaced and only then removed.       *)
Repair(f) ==
    LET temp == Tagged(f, "tmp")
        backup == Tagged(f, "bak")
    IN  <<Write(temp), Move(f, backup, TRUE), Move(temp, f, TRUE), Unlink(backup)>>

(* bililive-recorder writes the fixed parts; the original is removed, then    *)
(* the parts take their final names, and a failed rename goes unnoticed.      *)
Fixed(f, n) == IF n = 1 THEN <<f>>
               ELSE [i \in 1..n |-> File(<<f.base[1], i>>, f.ext)]
Fix(f, n) ==
    LET parts == Fixed(f, n)
        temps == [i \in 1..n |-> Tagged(parts[i], "tmp")]
    IN  [i \in 1..n |-> Write(temps[i])] \o <<Unlink(f)>> \o
        [i \in 1..n |-> Move(temps[i], parts[i], FALSE)]

------------------------------------------------------------------------------
(* The stages that take the files one by one.                                 *)

Ass(f) == With(f, "ass")
Burned(f) == IF f.ext = "mkv" THEN With(f, "burned.mkv") ELSE With(f, "mkv")

(* The files a stage leaves alone.                                            *)
PassesThrough(f) ==
    \/ ~IsVideo(f)
    \/ Name = "fix_flv" /\ f.ext # "flv"
    \/ Name = "repair_ts" /\ f.ext # "ts"
    \/ f \in disk /\ \/ Name = "convert_mp4" /\ f.ext = "mp4"
                     \/ Name = "convert_ts" /\ f.ext = "ts"
                     \/ Name = "burn_subtitles" /\ Ass(f) \notin disk

Rest == /\ todo' = Tail(todo)
        /\ UNCHANGED <<options, disk, remote, article, status, stage, files, at, sending,
                       waiting, errors, failures, cancelled, runs>>

Current(f) == At("files") /\ ops = <<>> /\ todo # <<>> /\ f = Head(todo)

PassFile ==
    /\ \E f \in Range(files) : Current(f) /\ PassesThrough(f)
    /\ output' = IF Name = "extract_cover" THEN output ELSE Append(output, Head(todo))
    /\ Rest /\ UNCHANGED ops

(* A missing file is only logged; repair_ts alone fails on it.                *)
MissingFile ==
    /\ \E f \in Range(files) : Current(f) /\ ~PassesThrough(f) /\ f \notin disk
    /\ IF Name = "repair_ts"
       THEN /\ StageFailed
            /\ UNCHANGED <<options, disk, remote, article, cancelled, runs>>
       ELSE Rest /\ UNCHANGED <<output, ops>>

(* What the stage makes of a file it works on: its operations and outputs.    *)
Work(f) ==
    CASE Name = "fix_flv" -> {[ops |-> Fix(f, n), out |-> Fixed(f, n)] : n \in 1..2}
                             \cup {[ops |-> <<>>, out |-> <<f>>]}
      [] Name = "convert_mp4" ->
           {[ops |-> Convert(f, With(f, "mp4"), IF options.deleteSource THEN {f} ELSE {}),
             out |-> <<With(f, "mp4")>> \o When(~options.deleteSource, f)]}
      [] Name = "convert_ts" ->
           {[ops |-> Convert(f, With(f, "ts"), {f}), out |-> <<With(f, "ts")>>]}
      [] Name = "repair_ts" -> {[ops |-> Repair(f), out |-> <<f>>]}
      [] OTHER ->
           {[ops |-> Convert(f, Burned(f), (IF options.burnDeleteAss THEN {Ass(f)} ELSE {})
                                      \cup (IF options.burnDeleteSource THEN {f} ELSE {})),
             out |-> <<Burned(f)>>]}

WorkOnFile ==
    \E f \in Range(files) :
        /\ Current(f) /\ ~PassesThrough(f) /\ f \in disk /\ Name # "extract_cover"
        /\ \E w \in Work(f) : ops' = w.ops /\ output' = output \o w.out
        /\ Rest

(* One frame becomes the cover next to the video; a failure is only logged.   *)
Cover(f) == With(f, "jpg")

ExtractCover ==
    \E f \in Range(files), ok \in BOOLEAN :
        /\ Current(f) /\ IsVideo(f) /\ f \in disk /\ Name = "extract_cover"
        /\ cancelled => ~ok
        /\ disk' = IF ok THEN disk \cup {Cover(f)} ELSE disk
        /\ output' = IF ok THEN Append(output, Cover(f)) ELSE output
        /\ todo' = Tail(todo)
        /\ UNCHANGED <<options, remote, article, status, stage, files, at, ops, sending,
                       waiting, errors, failures, cancelled, runs>>

Operate ==
    /\ ops # <<>>
    /\ ~(cancelled /\ Head(ops).do = "write")
    /\ disk' = Apply(Head(ops))
    /\ ops' = Tail(ops)
    /\ UNCHANGED <<options, remote, article, status, stage, files, at, todo, output, sending,
                   waiting, errors, failures, cancelled, runs>>

(* The temporary file goes; a repair puts its backup back, if it can.         *)
OperationFails ==
    /\ ops # <<>> /\ status = "running"
    /\ LET op == Head(ops)
           temps == {f \in disk : f.tag = "tmp" /\ \E x \in Range(ops) : f \in {x.from, x.to}}
           cleaned == disk \ temps
           backups == {f \in cleaned : /\ Name = "repair_ts" /\ f.tag = "bak"
                                     /\ op.to = Tagged(f, "")}
       IN  IF op.hard
           THEN /\ disk' \in {cleaned, (cleaned \ backups) \cup {Tagged(f, "") : f \in backups}}
                /\ StageFailed
           ELSE /\ ops' = Tail(ops)
                /\ UNCHANGED <<disk, status, stage, files, at, todo, output, sending,
                               waiting, errors, failures>>
    /\ UNCHANGED <<options, remote, article, cancelled, runs>>

EndStage ==
    /\ At("files") /\ ops = <<>> /\ todo = <<>>
    /\ StageDone(output)
    /\ UNCHANGED <<options, disk, remote, article, cancelled, runs>>

------------------------------------------------------------------------------
(* bili_publish: one article with every video found on the disk; afterwards   *)
(* the videos go, if the options say so, and the input goes on unchanged.     *)

Published == article \cup UNION {Covers(f) : f \in Existing}

Publish ==
    /\ At("publish") /\ output = <<>> /\ ~cancelled
    /\ article' = Published
    /\ output' = files
    /\ ops' = IF options.publishDelete
              THEN SetToSeq({Unlink(f) : f \in Existing}) ELSE <<>>
    /\ UNCHANGED <<options, disk, remote, status, stage, files, at, todo, sending, waiting,
                   errors, failures, cancelled, runs>>

(* It fails before the article is submitted, or the answer of add/v3 is lost. *)
PublishFails ==
    /\ At("publish") /\ output = <<>>
    /\ article' \in {article, Published}
    /\ StageFailed
    /\ UNCHANGED <<options, disk, remote, cancelled, runs>>

EndPublish ==
    /\ At("publish") /\ output # <<>> /\ ops = <<>>
    /\ StageDone(files)
    /\ UNCHANGED <<options, disk, remote, article, cancelled, runs>>

------------------------------------------------------------------------------
(* cloud_upload: goroutines behind a semaphore; the file is looked up before  *)
(* it waits for a slot.                                                       *)

(* Login failed: the stage fails before any file is looked at.                *)
LoginFails ==
    /\ At("upload") /\ Len(todo) = Len(files)
    /\ StageFailed
    /\ UNCHANGED <<options, disk, remote, article, cancelled, runs>>

PickFile ==
    /\ At("upload") /\ waiting = 0
    /\ \E k \in DOMAIN todo :
          /\ todo' = RemoveAt(todo, k)
          /\ waiting' = IF files[todo[k]] \in disk THEN todo[k] ELSE 0
    /\ UNCHANGED <<options, disk, remote, article, status, stage, files, at, output, ops,
                   sending, errors, failures, cancelled, runs>>

(* Mutant: one upload too many.                                               *)
AcquireAny ==
    /\ waiting # 0 /\ Cardinality(sending) <= Concurrency
    /\ sending' = sending \cup {waiting}
    /\ waiting' = 0
    /\ UNCHANGED <<options, disk, remote, article, status, stage, files, at, todo, output,
                   ops, errors, failures, cancelled, runs>>

AcquireSlot ==
    /\ waiting # 0 /\ Cardinality(sending) < Concurrency
    /\ sending' = sending \cup {waiting}
    /\ waiting' = 0
    /\ UNCHANGED <<options, disk, remote, article, status, stage, files, at, todo, output,
                   ops, errors, failures, cancelled, runs>>

(* Every storage in turn; the local file goes when each has it.               *)
Upload(i) ==
    /\ i \in sending
    /\ \E reached \in SUBSET Storages, removed \in BOOLEAN :
          /\ (files[i] \notin disk \/ cancelled) => reached = {}
          /\ removed => reached = Storages /\ options.uploadDelete
          /\ remote' = remote \cup ({files[i]} \X reached)
          /\ errors' = (errors \/ reached # Storages)
          /\ disk' = IF removed THEN disk \ {files[i]} ELSE disk
          /\ output' = IF removed THEN output ELSE Append(output, i)
    /\ sending' = sending \ {i}
    /\ UNCHANGED <<options, article, status, stage, files, at, todo, ops, waiting, failures,
                   cancelled, runs>>

(* The output is put back into the order of the input.                        *)
Kept == SetToSortSeq(Range(output), <)

EndUpload ==
    /\ At("upload") /\ todo = <<>> /\ sending = {} /\ waiting = 0
    /\ IF errors
       THEN StageFailed
       ELSE StageDone([k \in DOMAIN Kept |-> files[Kept[k]]])
    /\ UNCHANGED <<options, disk, remote, article, cancelled, runs>>

------------------------------------------------------------------------------
(* Around the task: CancelTask, a restart of the program, RetryTask.          *)

Cancel ==
    /\ status = "running" /\ ~cancelled
    /\ cancelled' = TRUE
    /\ UNCHANGED <<options, disk, remote, article, status, stage, files, at, todo, output,
                   ops, sending, waiting, errors, failures, runs>>

Again ==
    /\ runs < MaxRuns
    /\ status' = "pending"
    /\ stage' = 0 /\ files' = Initial /\ failures' = {} /\ cancelled' = FALSE
    /\ Reset
    /\ UNCHANGED <<options, disk, remote, article, runs>>

Restart == status = "running" /\ Again
RetryTask == status \in {"failed", "cancelled"} /\ Again

Next ==
    \/ Execute \/ BeginStage \/ PassFile \/ MissingFile \/ WorkOnFile \/ ExtractCover
    \/ Operate \/ OperationFails \/ EndStage
    \/ Publish \/ PublishFails \/ EndPublish
    \/ LoginFails \/ PickFile \/ AcquireSlot
    \/ \E i \in sending : Upload(i)
    \/ EndUpload \/ Cancel \/ Restart \/ RetryTask

Spec == Init /\ [][Next]_execVars

------------------------------------------------------------------------------
ExecTypeOK ==
    /\ options \in OptionSets
    /\ status \in {"pending", "running", "completed", "failed", "cancelled"}
    /\ at \in {"start", "files", "publish", "upload"}
    /\ article \subseteq Parts
    /\ Cardinality(sending) <= Concurrency
    /\ failures \subseteq Range(Pipeline(options))
    /\ runs \in 0..MaxRuns

(* Whatever fails, is cancelled, interrupted and retried, and whatever the    *)
(* options delete: every part of every recording is still in a video on the   *)
(* disk (if only in a temporary file or a backup), in an article, or on every *)
(* storage.  This is the order of write, rename and remove in the stages      *)
(* (convert_mp4.go:127-166, repair_ts.go:172-191, extract_cover.go:300-319).  *)
NothingLost ==
    \A p \in Parts :
        \/ p \in article
        \/ \E f \in disk : IsVideo(f) /\ p \in Covers(f)
        \/ \A s \in Storages : \E x \in remote : x[2] = s /\ IsVideo(x[1]) /\ p \in Covers(x[1])

(* A task that completes at its first execution, without the FLV fix (whose   *)
(* failed rename goes unnoticed), has brought every recording to every        *)
(* storage and into an article, where its options ask for that: no stage      *)
(* before it dropped a video and no failed target was reported as a success.  *)
FirstRunDelivers ==
    status = "completed" /\ runs = 1 /\ ~options.fix =>
        /\ options.upload /\ ~options.publishDelete =>
              \A p \in Parts, s \in Storages :
                  \E x \in remote : x[2] = s /\ IsVideo(x[1]) /\ p \in Covers(x[1])
        /\ options.publish => article = Parts

(* config.go:140 and bili_publish.go:23: the publication runs before the      *)
(* upload so that it is done before the upload deletes the local file.        *)
PublishedBeforeDeleted ==
    options.publish =>
        \A p \in Parts : p \in article \/ \E f \in disk : IsVideo(f) /\ p \in Covers(f)
=============================================================================
