------------------------------- MODULE MCServer --------------------------------
(***************************************************************************)
(* Instances for TLC of the parts of the server of which safety is checked *)
(* only, and which share no state: the registry of rooms, the requests to  *)
(* a platform, the configuration, a post-processing task, a database, the  *)
(* statistics and the sessions of players.                                 *)
(* A behaviour is one of one part (chosen at the start); the others stay   *)
(* in one of their initial states.                                         *)
(***************************************************************************)
EXTENDS Integers, Sequences, FiniteSets

CONSTANTS
    Rooms, Custom, Callers, Objects,                                \* RoomRegistry
    Interval, Jitter, Gaps, Generations, Changes,                   \* Requests
    Requests, Kinds, MaxRetries, Crashes,                           \* ConfigStore
    Recordings, OptionSets, Storages, Concurrency, MaxRuns,         \* PipelineExecutor
    Migrators, Settings, Latest, Times, MaxBackupCount, MaxRows, MaxCrashes, \* Migration
    StatRooms, MaxTime, MaxRequests, MaxBytes, Gap, Bucket, Retention, \* Statistics
    Tokens, Players, MaxSessions, SessionTTL, CacheTTL, MaxStreams  \* Playback

\* The sizes of the code are positive, a limiter may have no limit, and the writers outside the
\* lock of the configuration are no requests.
ASSUME ServerAssumption ==
    /\ IsFiniteSet(Rooms) /\ Cardinality(Rooms) <= Objects /\ Objects \in Nat
    /\ Gaps \subseteq Nat /\ Generations \in Nat \ {0}
    /\ \E n \in Gaps : n > 0 /\ \A m \in Gaps : m <= n
    /\ Requests \cap {"raw", "save", "free", "down"} = {}
    /\ Settings \subseteq {"critical", "normal"} /\ Times \subseteq Nat \ {0}
    /\ Latest \in Nat /\ MaxRows \in Nat
    /\ Bucket \in Nat \ {0} /\ MaxSessions \in Nat \ {0} /\ SessionTTL \in Nat

VARIABLES
    part,
    \* RoomRegistry
    cfg, made, finished, asked, initLoop, lives, listeners, running, cb, handlerPc, handlerOp,
    target, flag, overlapped,
    \* Requests
    limiter, gap, last, requestPc, asks, lim, need, timer, waiters, answered, live, since,
    panicky, shutdown, changes, sent,
    \* ConfigStore
    op, room, mem, version, cfgDisk, file, updateMu, updatePc, seen, seenVersion, written, tries,
    truncated, cfgCrashes, outside, failed, overtaken,
    \* PipelineExecutor
    options, disk, remote, article, status, stage, taskFiles, at, todo, output, ops, sending,
    waiting, errors, failures, cancelled, runs,
    \* Migration
    setting, db, backups, lock, migrator, path, committed, crashes,
    \* Statistics
    now, requested, tracking, statuses, recording, total, inFile, lastBytes, lastCollect, samples,
    everWritten, counted, fellBack,
    \* Playback
    sessions, format, idle, cached, age, resolveMu, issued, revoked, playerPc, token, wanted,
    forced, using, segment, refusedAt

Plain == [ext |-> "flv", batch |-> FALSE, fix |-> FALSE, saveTs |-> FALSE, mp4 |-> FALSE,
          deleteSource |-> FALSE, burn |-> FALSE, burnDeleteAss |-> FALSE,
          burnDeleteSource |-> FALSE, cover |-> FALSE, publish |-> FALSE,
          publishDelete |-> FALSE, upload |-> FALSE, uploadDelete |-> FALSE]

\* The options that delete what others still need, and both containers.
TaskOptions ==
    {[Plain EXCEPT !.mp4 = TRUE, !.deleteSource = TRUE, !.publish = TRUE, !.upload = TRUE,
                   !.uploadDelete = TRUE],
     [Plain EXCEPT !.mp4 = TRUE, !.burn = TRUE, !.burnDeleteAss = TRUE, !.upload = TRUE,
                   !.uploadDelete = TRUE],
     [Plain EXCEPT !.fix = TRUE, !.saveTs = TRUE],
     [Plain EXCEPT !.ext = "ts", !.cover = TRUE, !.publish = TRUE, !.publishDelete = TRUE],
     [Plain EXCEPT !.ext = "mkv", !.batch = TRUE, !.burnDeleteSource = TRUE,
                   !.burnDeleteAss = TRUE]}

Reg == INSTANCE RoomRegistry WITH
        Handlers <- Callers, savers <- listeners, pc <- handlerPc, op <- handlerOp
Req == INSTANCE Requests WITH pc <- requestPc, target <- asks
Cfg == INSTANCE ConfigStore WITH
        disk <- cfgDisk, lock <- updateMu, pc <- updatePc, new <- written, crashes <- cfgCrashes
Exec == INSTANCE PipelineExecutor WITH files <- taskFiles
Mig == INSTANCE Migration WITH written <- committed
Stat == INSTANCE Statistics WITH Rooms <- StatRooms, file <- inFile, written <- everWritten
Play == INSTANCE Playback WITH pc <- playerPc, kind <- wanted, target <- segment

\* The recorder hands over videos, and creates no task without a stage (recorder.go:758);
\* a batch burn is created with that stage alone (pipeline_handler.go:254).
ASSUME TaskAssumption ==
    /\ IsFiniteSet(Recordings)
    /\ \A o \in OptionSets : /\ o.ext \in Exec!VideoExts /\ Exec!Pipeline(o) # <<>>
                             /\ o.batch => ~o.publish /\ ~o.upload

registry == <<cfg, made, finished, asked, initLoop, lives, listeners, running, cb, handlerPc,
              handlerOp, target, flag, overlapped>>
asking == <<limiter, gap, last, requestPc, asks, lim, need, timer, waiters, answered, live,
            since, panicky, shutdown, changes, sent>>
configs == <<op, room, mem, version, cfgDisk, file, updateMu, updatePc, seen, seenVersion,
             written, tries, truncated, cfgCrashes, outside, failed, overtaken>>
tasks == <<options, disk, remote, article, status, stage, taskFiles, at, todo, output, ops,
           sending, waiting, errors, failures, cancelled, runs>>
databases == <<setting, db, backups, lock, migrator, path, committed, crashes>>
statistics == <<now, requested, tracking, statuses, recording, total, inFile, lastBytes,
                lastCollect, samples, everWritten, counted, fellBack>>
players == <<sessions, format, idle, cached, age, resolveMu, issued, revoked, playerPc, token,
             wanted, forced, using, segment, refusedAt>>

mcVars == <<part, registry, asking, configs, tasks, databases, statistics, players>>

MCInit ==
    /\ part \in {"registry", "requests", "config", "task", "database", "noted", "sampled", "players"}
    /\ Reg!Init
    /\ part # "registry" => cfg = [r \in Rooms |-> "absent"]
    /\ Req!Init
    /\ part # "requests" => limiter = 1 /\ panicky = {}
    /\ Cfg!Init
    /\ part # "config" => \A q \in Requests : op[q] = (CHOOSE k \in Kinds : TRUE)
                                              /\ room[q] = (CHOOSE r \in Rooms : TRUE)
    /\ Exec!Init
    /\ part # "task" => options = CHOOSE o \in OptionSets : TRUE
    /\ Mig!Init
    /\ part # "database" => setting = (CHOOSE s \in Settings : TRUE) /\ db = Mig!NoFile
    /\ Stat!Init
    /\ Play!Init

On(p, A) == part = p /\ A /\ UNCHANGED part

MCNext ==
    \/ /\ \/ On("registry", Reg!Next) /\ UNCHANGED <<asking, configs, tasks, databases>>
          \/ On("requests", Req!Next) /\ UNCHANGED <<registry, configs, tasks, databases>>
          \/ On("config", Cfg!Next) /\ UNCHANGED <<registry, asking, tasks, databases>>
          \/ On("task", Exec!Next) /\ UNCHANGED <<registry, asking, configs, databases>>
          \/ On("database", Mig!Next) /\ UNCHANGED <<registry, asking, configs, tasks>>
       /\ UNCHANGED <<statistics, players>>
    \/ /\ \/ On("noted", Stat!RequestNext) /\ UNCHANGED players
          \/ On("sampled", Stat!ByteNext) /\ UNCHANGED players
          \/ On("players", Play!Next) /\ UNCHANGED statistics
       /\ UNCHANGED <<registry, asking, configs, tasks, databases>>

MCSpec == MCInit /\ [][MCNext]_mcVars
-----------------------------------------------------------------------------
(* A listener that runs is in the hands of the manager, and configuration,   *)
(* map and listeners agree (replaceListener, addLiveImpl, removeLiveImpl).   *)
RegistryHolds == part = "registry" => Reg!NoLostListener /\ Reg!RoomsAgree

(* Two requests of a platform are sent at least its limit apart              *)
(* (WaitForPlatformWithContext).                                             *)
RequestsApart == Req!RequestsApart

(* An update removes nothing but what it was asked to (updateWithRetryImpl). *)
EditsSurvive == Cfg!EditsSurvive

(* Whatever fails, is cancelled or crashes, nothing is lost: every part of   *)
(* every recording is somewhere (the stages of a task), every row the        *)
(* program committed is in the database or in the backup a recovery restores *)
(* (Run, CheckAndRecover), and the configuration in force is in the file     *)
(* while everybody saves under the lock (updateCASImpl).                     *)
NothingLost ==
    /\ part = "task" => Exec!NothingLost
    /\ part = "database" => Mig!RowsAreSomewhere
    /\ part = "config" => Cfg!LockedSavesAgree

(* What is reported done is done: a task that completes at once has          *)
(* delivered (Execute), a database handed to the program is whole (Run).     *)
DoneIsWhole ==
    /\ part = "task" => Exec!FirstRunDelivers
    /\ part = "database" => Mig!OpenedIsWhole

(* What a view shows is what happened: its segments are the longest runs of  *)
(* requests that fared alike (buildSegments), no byte is in two speeds       *)
(* (collectRecordStats), and totals and speeds of an interval are those of   *)
(* its samples (aggregateStats).                                             *)
StatisticsFair ==
    /\ part = "noted" => Stat!SegmentsAreRuns
    /\ part = "sampled" => Stat!CountedOnce /\ Stat!IntervalsAreFair

(* The session that leaves a full map is the one used least recently         *)
(* (removeOldestSessionLocked).                                              *)
LeastUsedGoes == Play!LeastUsedGoes
=============================================================================
