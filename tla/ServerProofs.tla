------------------------------ MODULE ServerProofs ------------------------------
(***************************************************************************)
(* What the parts of the server guarantee side by side, for all sizes,     *)
(* limits, rooms, requests and players. What ConfigStoreProofs and         *)
(* RequestsProofs prove of their modules holds of the instances here; the  *)
(* sessions of players, the registry of rooms, the migration of a database,*)
(* the stages of a task and the statistics are proved here.                *)
(*                                                                         *)
(* The parts share nothing but the requests of the panel, so each has an   *)
(* invariant of its own (ServerIInv), which the steps of the others leave  *)
(* alone.                                                                  *)
(***************************************************************************)
EXTENDS MCServer, FiniteSetTheorems, WellFoundedInduction, TLAPS

CfgP == INSTANCE ConfigStoreProofs WITH
        disk <- cfgDisk, lock <- updateMu, pc <- updatePc, new <- written, crashes <- cfgCrashes
ReqP == INSTANCE RequestsProofs WITH pc <- requestPc, target <- asks

------------------------------------------------------------------------------
(* Sessions of players *)

LEMMA Sizes == MaxSessions \in Nat \ {0} /\ SessionTTL \in Nat
BY ServerAssumption DEF ServerAssumption

\* A token enters the map once: its format is known from then on.
MapIInv ==
    /\ IsFiniteSet(sessions) /\ sessions \subseteq Tokens
    /\ Cardinality(sessions) <= MaxSessions
    /\ idle \in [Tokens -> Nat]
    /\ format \in [Tokens -> Play!Formats \cup {"none"}]
    /\ \A t \in sessions : format[t] # "none"

\* The instance has a copy of the operator of the library.
LEMMA SameSize == ASSUME NEW S PROVE Play!Cardinality(S) = Cardinality(S)
BY DEF Play!Cardinality, Cardinality

LEMMA MapInit == Play!Init => MapIInv
<1> SUFFICES ASSUME Play!Init
             PROVE  MapIInv
    OBVIOUS
<1>1. IsFiniteSet({}) /\ Cardinality({}) = 0
  BY FS_EmptySet
<1> QED BY <1>1, Sizes DEF Play!Init, MapIInv

\* The sweep of expired sessions leaves a part of the map.
LEMMA UnexpiredIsSmaller ==
    ASSUME MapIInv
    PROVE  /\ IsFiniteSet(Play!Unexpired) /\ Play!Unexpired \subseteq sessions
           /\ Cardinality(Play!Unexpired) \in Nat /\ Cardinality(Play!Unexpired) <= MaxSessions
           /\ \A t \in sessions \ Play!Unexpired : idle[t] > SessionTTL
<1>1. Play!Unexpired \subseteq sessions
  BY DEF Play!Unexpired
<1>2. IsFiniteSet(Play!Unexpired) /\ Cardinality(Play!Unexpired) <= Cardinality(sessions)
  BY <1>1, FS_Subset DEF MapIInv
<1>3. Cardinality(Play!Unexpired) \in Nat /\ Cardinality(sessions) \in Nat
  BY <1>2, FS_CardinalityType DEF MapIInv
<1>4. \A t \in sessions \ Play!Unexpired : idle[t] > SessionTTL
  BY Sizes DEF Play!Unexpired, MapIInv
<1> QED BY <1>1, <1>2, <1>3, <1>4, Sizes DEF MapIInv

\* What is kept when a session joins: all, or all but one that nobody has used for longer
\* than any other, and then the map is full again.
LEMMA KeptWhenFull ==
    ASSUME MapIInv, NEW kept \in Play!RemoveOldest(Play!Unexpired),
           NEW t \in Tokens, t \notin sessions
    PROVE  /\ kept \subseteq Play!Unexpired
           /\ IsFiniteSet(kept \cup {t}) /\ Cardinality(kept \cup {t}) <= MaxSessions
           /\ \A o \in Play!Unexpired \ kept :
                /\ Cardinality(kept \cup {t}) = MaxSessions
                /\ \A other \in kept : idle[other] <= idle[o]
<1> DEFINE n == Cardinality(Play!Unexpired)
<1>1. /\ IsFiniteSet(Play!Unexpired) /\ Play!Unexpired \subseteq sessions
      /\ n \in Nat /\ n <= MaxSessions
  BY UnexpiredIsSmaller
<1>2. CASE n < MaxSessions
  <2>1. kept = Play!Unexpired
    BY <1>2, SameSize DEF Play!RemoveOldest
  <2>2. IsFiniteSet(kept \cup {t}) /\ Cardinality(kept \cup {t}) = n + 1
    BY <1>1, <2>1, FS_AddElement
  <2> QED BY <1>1, <1>2, <2>1, <2>2, Sizes
<1>3. CASE ~(n < MaxSessions)
  <2>1. PICK o \in {o \in Play!Unexpired : \A s \in Play!Unexpired : idle[s] <= idle[o]} :
            kept = Play!Unexpired \ {o}
    BY <1>3, SameSize DEF Play!RemoveOldest
  <2>2. IsFiniteSet(kept) /\ Cardinality(kept) = n - 1
    BY <1>1, <2>1, FS_RemoveElement
  <2>3. t \notin kept
    BY <1>1, <2>1
  <2>4. IsFiniteSet(kept \cup {t}) /\ Cardinality(kept \cup {t}) = Cardinality(kept) + 1
    BY <2>2, <2>3, FS_AddElement
  <2>5. Cardinality(kept \cup {t}) = MaxSessions
    BY <1>1, <1>3, <2>2, <2>4, Sizes
  <2>6. MaxSessions <= MaxSessions
    BY Sizes
  <2>7. kept \subseteq Play!Unexpired /\ \A other \in kept : idle[other] <= idle[o]
    BY <2>1
  <2>8. \A s \in Play!Unexpired \ kept : s = o
    BY <2>1
  <2> QED BY <2>4, <2>5, <2>6, <2>7, <2>8
<1> QED BY <1>2, <1>3

\* Every step of a player or of the clock keeps the map within its limit.
LEMMA MapNext == MapIInv /\ [Play!Next]_(Play!playbackVars) => MapIInv'
<1> SUFFICES ASSUME MapIInv, [Play!Next]_(Play!playbackVars)
             PROVE  MapIInv'
    OBVIOUS
<1>1. ASSUME NEW t \in Tokens, Play!Create(t)
      PROVE  MapIInv'
  <2>1. PICK f \in Play!Formats, kept \in Play!RemoveOldest(Play!Unexpired) :
            format' = [format EXCEPT ![t] = f] /\ sessions' = kept \cup {t}
    BY <1>1 DEF Play!Create
  <2>2. t \notin sessions /\ UNCHANGED idle
    BY <1>1 DEF Play!Create, MapIInv
  <2>3. kept \subseteq Play!Unexpired /\ IsFiniteSet(sessions')
        /\ Cardinality(sessions') <= MaxSessions
    BY <2>1, <2>2, KeptWhenFull
  <2>4. f # "none"
    BY DEF Play!Formats
  <2> QED BY <2>1, <2>2, <2>3, <2>4, UnexpiredIsSmaller DEF MapIInv
<1>2. ASSUME NEW p \in Players, NEW t \in Tokens, NEW k \in {"flv", "playlist", "media"},
             Play!Play(p, t, k)
      PROVE  MapIInv'
  <2>1. UNCHANGED format /\ sessions' = Play!Unexpired /\ idle' \in [Tokens -> Nat]
    BY <1>2 DEF Play!Play, MapIInv
  <2> QED BY <2>1, UnexpiredIsSmaller DEF MapIInv
<1>3. CASE Play!Tick
  <2>1. idle' \in [Tokens -> Nat]
    BY <1>3 DEF Play!Tick, Play!Older, MapIInv
  <2> QED BY <1>3, <2>1 DEF Play!Tick, MapIInv
<1>4. CASE UNCHANGED <<sessions, idle, format>>
  BY <1>4 DEF MapIInv
<1>5. \/ UNCHANGED <<sessions, idle, format>> \/ Play!Tick
      \/ \E t \in Tokens : Play!Create(t)
      \/ \E p \in Players, t \in Tokens, k \in {"flv", "playlist", "media"} : Play!Play(p, t, k)
  BY DEF Play!Next, Play!playbackVars, Play!sessionVars, Play!GetStream, Play!Resolve,
    Play!Refused, Play!Accepted, Play!CopyEnds, Play!Revoke
<1> QED BY <1>1, <1>2, <1>3, <1>4, <1>5

\* A session that leaves the map while another joins was used least recently.
LEMMA LeastUsedStep ==
    MapIInv /\ [Play!Next]_(Play!playbackVars) =>
        \A t \in sessions \ sessions' :
            \/ idle[t] > SessionTTL
            \/ Play!Cardinality(sessions') = MaxSessions
               /\ \A other \in sessions \cap sessions' : idle[other] <= idle[t]
<1> SUFFICES ASSUME MapIInv, [Play!Next]_(Play!playbackVars),
                    NEW t \in sessions, t \notin sessions', ~(idle[t] > SessionTTL)
             PROVE  /\ Play!Cardinality(sessions') = MaxSessions
                    /\ \A other \in sessions \cap sessions' : idle[other] <= idle[t]
    OBVIOUS
<1>1. t \in Play!Unexpired
  BY UnexpiredIsSmaller
<1>2. PICK s \in Tokens : Play!Create(s)
  BY <1>1 DEF Play!Next, Play!playbackVars, Play!sessionVars, Play!Play, Play!GetStream,
    Play!Resolve, Play!Refused, Play!Accepted,
      Play!CopyEnds, Play!Revoke, Play!Tick
<1>3. PICK kept \in Play!RemoveOldest(Play!Unexpired) : sessions' = kept \cup {s}
  BY <1>2 DEF Play!Create
<1>4. s \notin sessions
  BY <1>2 DEF Play!Create, MapIInv
<1> QED BY <1>1, <1>3, <1>4, KeptWhenFull, SameSize

------------------------------------------------------------------------------
(* Migration of a database *)

\* One process migrates; what the names and bounds of the instance are.
OneProcess == \E p : Migrators = {p}

\* A moment names one backup, and is none of the marks of a missing lock.
DatabaseAssumption ==
    /\ Settings \subseteq {"critical", "normal"}
    /\ Times \cap {Mig!NoPath, Mig!NoLock, Mig!TornLock} = {}
    /\ Latest \in Nat /\ MaxRows \in Nat

\* Where a process that opens a database may be.
States == {"down", "check", "run", "backup", "backup_copy", "lock", "lock_write", "up", "step",
           "release", "open", "failed"} \cup Mig!Restoring \cup Mig!Copying \cup Mig!Restored

Files == [file : {"none", "torn", "whole"}, version : Nat, dirty : BOOLEAN, rows : Nat]

DbTypes ==
    /\ setting \in Settings
    /\ committed \in Nat
    /\ lock \in Times \cup {Mig!NoLock, Mig!TornLock}
    /\ migrator \in [Migrators -> States]
    /\ path \in [Migrators -> Times \cup {Mig!NoPath}]
    /\ db \in Files /\ backups \in [Times -> Files]

\* The file holds all rows, or was never made.
Safe == Mig!Holds(db) \/ (committed = 0 /\ db.file = "none")

\* The backup of this name may be used: there is none, or it holds all rows.
Usable(t) == backups[t].file = "none" \/ Mig!Holds(backups[t])

(***************************************************************************)
(* A lock file that can be read names a backup that is gone or holds all   *)
(* rows; only then may the database be away, and no row is added while     *)
(* there is a lock.                                                        *)
(***************************************************************************)
LockNamesBackup ==
    /\ lock \in Times => Usable(lock)
    /\ ~Safe => lock \in Times /\ Mig!Holds(backups[lock])

\* Where a process is tells what it has made sure of.
StateKnows == \A p \in Migrators :
    LET here == migrator[p]
    IN  /\ here \in {"backup", "backup_copy", "lock", "lock_write", "up", "step", "release", "open"}
                => Mig!Holds(db)
        /\ here \in {"release", "open"} => db.version = Latest /\ ~db.dirty
        /\ here \in {"backup", "backup_copy", "lock", "open"} => lock = Mig!NoLock
        /\ here \in {"backup_copy", "lock", "lock_write"} => path[p] \in Times
        /\ here \in {"lock", "lock_write"} => Usable(path[p])
        /\ here \in {"up", "step", "release"} => (IF Mig!Backs THEN lock = path[p] /\ lock \in Times
                                                         ELSE lock = Mig!NoLock)
        /\ here \in Mig!Restoring \cup Mig!Copying => lock = path[p] /\ lock \in Times
        /\ here \in Mig!Copying => Mig!Holds(backups[lock])
        /\ here \in Mig!Restored => Safe

\* A schema that is not critical is never locked, backed up or restored.
NormalIsPlain ==
    setting = "normal" =>
        /\ lock = Mig!NoLock
        /\ \A p \in Migrators : migrator[p] \notin {"backup", "backup_copy", "lock", "lock_write"}
                                                    \cup Mig!Restoring \cup Mig!Copying \cup
                                                      Mig!Restored

MigIInv == DbTypes /\ LockNamesBackup /\ StateKnows /\ NormalIsPlain

\* A file that is missing or torn has no rows.
LEMMA FileTypes == /\ Mig!NoFile \in Files /\ Mig!NoFile.file = "none" /\ Mig!NoFile.rows = 0
                   /\ Mig!NewFile \in Files /\ Mig!NewFile.file = "whole" /\ Mig!NewFile.rows = 0
                   /\ Mig!TornFile \in Files /\ Mig!TornFile.file = "torn"
BY DEF Mig!NoFile, Mig!NewFile, Mig!TornFile, Files

LEMMA InitMigIInv == DatabaseAssumption /\ Mig!Init => MigIInv
<1> SUFFICES ASSUME DatabaseAssumption, Mig!Init PROVE MigIInv
  OBVIOUS
<1>1. /\ setting \in Settings /\ lock = Mig!NoLock /\ committed = db.rows
      /\ migrator = [p \in Migrators |-> "down"]
      /\ path = [p \in Migrators |-> Mig!NoPath]
      /\ backups = [t \in Times |-> Mig!NoFile]
  BY DEF Mig!Init
<1>2. db \in Files /\ (db.file = "whole" \/ (db.file = "none" /\ db.rows = 0))
  <2>1. CASE db = Mig!NoFile
    BY <2>1, FileTypes
  <2>2. ASSUME NEW v \in 1 .. Latest, NEW n \in 0 .. MaxRows,
               db = [Mig!NewFile EXCEPT !.version = v, !.rows = n]
        PROVE  db \in Files /\ db.file = "whole"
    <3>1. db = [file |-> "whole", version |-> v, dirty |-> FALSE, rows |-> n]
      BY <2>2 DEF Mig!NewFile, Mig!NoFile
    <3>2. v \in Nat /\ n \in Nat
      BY DEF DatabaseAssumption
    <3> QED BY <3>1, <3>2 DEF Files
  <2> QED BY <2>1, <2>2 DEF Mig!Init
<1>3. DbTypes
  BY <1>1, <1>2, FileTypes DEF DbTypes, States, Files
<1>4. LockNamesBackup /\ StateKnows /\ NormalIsPlain
  BY <1>1, <1>2 DEF LockNamesBackup, StateKnows, NormalIsPlain, Safe, Mig!Holds, Mig!Restoring,
    Mig!Copying,
                    Mig!Restored, DatabaseAssumption
<1> QED BY <1>3, <1>4 DEF MigIInv

LEMMA CleanupKeeps ==
    ASSUME NEW kept \in [Times -> Files]
    PROVE  /\ Mig!Cleanup(kept) \in [Times -> Files]
           /\ \A t \in Times : Mig!Cleanup(kept)[t] = kept[t] \/ Mig!Cleanup(kept)[t] = Mig!NoFile
BY FileTypes DEF Mig!Cleanup

LEMMA NextMigIInv == DatabaseAssumption /\ OneProcess /\ MigIInv /\
  [Mig!Next]_(Mig!migrationVars) => MigIInv'
<1> SUFFICES ASSUME DatabaseAssumption, OneProcess, MigIInv, [Mig!Next]_(Mig!migrationVars)
               PROVE MigIInv'
  OBVIOUS
<1>0. PICK p : Migrators = {p}
  BY DEF OneProcess
<1> USE <1>0, FileTypes DEF MigIInv, DatabaseAssumption, DbTypes, States, LockNamesBackup,
      StateKnows,
        NormalIsPlain, Safe, Usable, Mig!Holds, Mig!Restoring, Mig!Copying, Mig!Restored,
          Mig!Backs, Mig!IsLocked,
        Mig!Release, Mig!Goto
<1>1. CASE UNCHANGED Mig!migrationVars
  BY <1>1 DEF Mig!migrationVars
<1>2. CASE Mig!CheckAndRecover(p)
  BY <1>2 DEF Mig!CheckAndRecover
<1>3. CASE Mig!RemoveDatabase(p)
  BY <1>3 DEF Mig!RemoveDatabase
<1>4. CASE Mig!StartCopy(p)
  BY <1>4 DEF Mig!StartCopy
<1>5. CASE Mig!EndCopy(p)
  BY <1>5 DEF Mig!EndCopy
<1>6. CASE Mig!ReleaseAfter(p)
  BY <1>6 DEF Mig!ReleaseAfter
<1>7. CASE Mig!Run(p)
  BY <1>7 DEF Mig!Run
<1>8. CASE Mig!StartBackup(p)
  BY <1>8 DEF Mig!StartBackup
<1>9. CASE Mig!EndBackup(p)
  <2>1. /\ migrator[p] = "backup_copy" /\ migrator' = [migrator EXCEPT ![p] = "lock"]
        /\ backups' = Mig!Cleanup([backups EXCEPT ![path[p]] = db])
        /\ UNCHANGED <<setting, db, lock, path, committed>>
    BY <1>9 DEF Mig!EndBackup
  <2>2. [backups EXCEPT ![path[p]] = db] \in [Times -> Files]
    OBVIOUS
  <2>3. backups' \in [Times -> Files]
        /\ (backups'[path[p]] = db \/ backups'[path[p]] = Mig!NoFile)
    BY <2>1, <2>2, CleanupKeeps
  <2>4. lock = Mig!NoLock /\ Mig!Holds(db)
    BY <2>1
  <2> QED BY <2>1, <2>3, <2>4
<1>10. CASE Mig!Acquire(p)
  BY <1>10 DEF Mig!Acquire
<1>11. CASE Mig!WriteLock(p)
  BY <1>11 DEF Mig!WriteLock
<1>12. CASE Mig!Up(p)
  <2>1. CASE db.dirty \/ db.version = Latest
    BY <1>12, <2>1 DEF Mig!Up
  <2>2. CASE ~db.dirty /\ db.version # Latest
    <3>1. /\ migrator[p] = "up" /\ migrator' = [migrator EXCEPT ![p] = "step"]
          /\ db' = [db EXCEPT !.version = @ + 1, !.dirty = TRUE]
          /\ UNCHANGED <<setting, backups, lock, path, committed>>
      BY <1>12, <2>2 DEF Mig!Up
    <3>2. db' = [file |-> db.file, version |-> db.version + 1, dirty |-> TRUE, rows |-> db.rows]
      BY <3>1 DEF Files
    <3>3. db' \in Files /\ db'.file = db.file /\ db'.rows = db.rows
      BY <3>2 DEF Files
    <3> QED BY <3>1, <3>3
  <2> QED BY <2>1, <2>2
<1>13. CASE Mig!Step(p)
  <2>1. CASE db' = [db EXCEPT !.dirty = FALSE] /\ migrator' = [migrator EXCEPT ![p] = "up"]
    <3>1. db' \in Files /\ db'.file = db.file /\ db'.rows = db.rows
      BY <2>1 DEF Files
    <3>2. migrator[p] = "step" /\ UNCHANGED <<setting, backups, lock, path, committed>>
      BY <1>13 DEF Mig!Step
    <3> QED BY <2>1, <3>1, <3>2
  <2>2. CASE UNCHANGED db
             /\ migrator' = [migrator EXCEPT ![p] = IF Mig!Backs THEN "rollback" ELSE "failed"]
    BY <1>13, <2>2 DEF Mig!Step
  <2> QED BY <1>13, <2>1, <2>2 DEF Mig!Step
<1>14. CASE Mig!Finish(p)
  BY <1>14 DEF Mig!Finish
<1>15. CASE Mig!AddRow(p)
  BY <1>15 DEF Mig!AddRow, Files
<1>16. CASE Mig!Start(p) \/ Mig!Crash(p)
  BY <1>16 DEF Mig!Start, Mig!Crash
<1> QED BY <1>1, <1>2, <1>3, <1>4, <1>5, <1>6, <1>7, <1>8, <1>9, <1>10, <1>11, <1>12, <1>13,
           <1>14, <1>15, <1>16 DEF Mig!Next

------------------------------------------------------------------------------
(* The modules that are proved about on their own *)

\* An instance of a module and the instance of its proofs are the same specification.
LEMMA SameConfigs ==
    /\ Cfg!Init => CfgP!Init
    /\ [Cfg!Next]_(Cfg!cfgVars) => [CfgP!Next]_(CfgP!cfgVars)
<1>1. Cfg!Init => CfgP!Init
  BY DEF
     Cfg!Init, Cfg!Start, Cfg!Writers, CfgP!Init, CfgP!Start, CfgP!Writers
<1>2. [Cfg!Next]_(Cfg!cfgVars) => [CfgP!Next]_(CfgP!cfgVars)
  BY DEF
     Cfg!Next, Cfg!cfgVars, Cfg!Snapshot, Cfg!Conflict, Cfg!Mutate, Cfg!Publish, Cfg!Writers,
     Cfg!Open, Cfg!Write, Cfg!PutConfig, Cfg!GetRawConfig, Cfg!PutRawConfig, Cfg!ApplyRaw,
     Cfg!Crash, Cfg!Restart, Cfg!memVars, Cfg!diskVars, Cfg!historyVars, Cfg!Go, Cfg!Forget,
     Cfg!Refused, Cfg!Clone, Cfg!MayBeInvalid, Cfg!Apply, Cfg!Start, Cfg!Saved, Cfg!EditsRoom,
     Cfg!Default, Cfg!RemoveRoom, Cfg!Switch, Cfg!RoomOptions, Cfg!Setting, Cfg!Platform,
     Cfg!Cookie, Cfg!Keep, CfgP!Next, CfgP!cfgVars, CfgP!Snapshot, CfgP!Conflict, CfgP!Mutate,
     CfgP!Publish, CfgP!Writers, CfgP!Open, CfgP!Write, CfgP!PutConfig, CfgP!GetRawConfig,
     CfgP!PutRawConfig, CfgP!ApplyRaw, CfgP!Crash, CfgP!Restart, CfgP!memVars, CfgP!diskVars,
     CfgP!historyVars, CfgP!Go, CfgP!Forget, CfgP!Refused, CfgP!Clone, CfgP!MayBeInvalid,
     CfgP!Apply, CfgP!Start, CfgP!Saved, CfgP!EditsRoom, CfgP!Default, CfgP!RemoveRoom,
     CfgP!Switch, CfgP!RoomOptions, CfgP!Setting, CfgP!Platform, CfgP!Cookie, CfgP!Keep
<1> QED BY <1>1, <1>2

LEMMA SameRequests ==
    /\ Req!Init => ReqP!Init
    /\ [Req!Next]_(Req!vars) => [ReqP!Next]_(ReqP!vars)
<1>1. Req!Init => ReqP!Init
  BY DEF
     Req!Init, Req!LongAgo, Req!Procs, Req!Home, ReqP!Init, ReqP!LongAgo, ReqP!Procs, ReqP!Home
<1>2. [Req!Next]_(Req!vars) => [ReqP!Next]_(ReqP!vars)
  BY DEF
     Req!Next, Req!vars, Req!Procs, Req!RequestStep, Req!Panic, Req!Ask, Req!ForceRefresh,
     Req!Wait, Req!CancelWait, Req!EndWait, Req!SchedulerStep, Req!SchedulerExit,
     Req!SetPlatformLimit, Req!Tick, Req!Shutdown, Req!limVars, Req!reqVars, Req!waitVars,
     Req!Lookup, Req!Reserve, Req!SlotEnds, Req!Send, Req!Answer, Req!Notify, Req!Stamp,
     Req!Return, Req!Larger, Req!Schedule, Req!WakeUp, Req!LongAgo, Req!Due, Req!Abandon,
     Req!NextSlot, Req!Deliver, Req!Home, Req!Recheck, ReqP!Next, ReqP!vars, ReqP!Procs,
     ReqP!RequestStep, ReqP!Panic, ReqP!Ask, ReqP!ForceRefresh, ReqP!Wait, ReqP!CancelWait,
     ReqP!EndWait, ReqP!SchedulerStep, ReqP!SchedulerExit, ReqP!SetPlatformLimit, ReqP!Tick,
     ReqP!Shutdown, ReqP!limVars, ReqP!reqVars, ReqP!waitVars, ReqP!Lookup, ReqP!Reserve,
     ReqP!SlotEnds, ReqP!Send, ReqP!Answer, ReqP!Notify, ReqP!Stamp, ReqP!Return, ReqP!Larger,
     ReqP!Schedule, ReqP!WakeUp, ReqP!LongAgo, ReqP!Due, ReqP!Abandon, ReqP!NextSlot, ReqP!Deliver,
     ReqP!Home, ReqP!Recheck
<1> QED BY <1>1, <1>2

\* What the proofs of the two modules assume.
LEMMA ConfigAssumption == CfgP!NamesApart
BY ServerAssumption DEF ServerAssumption, CfgP!NamesApart

LEMMA RequestsAssumption == ReqP!LimitsAssumption
BY ServerAssumption DEF ServerAssumption, ReqP!LimitsAssumption

LEMMA EditsStep ==
    CfgP!CfgIInv /\ [Cfg!Next]_(Cfg!cfgVars) =>
        \A e \in mem.edits :
            \/ e \in mem'.edits
            \/ Cfg!EditsRoom(e) /\ room[e] \notin mem'.rooms
            \/ updatePc["raw"] = "edited" /\ updatePc'["raw"] = "apply"
            \/ updateMu = "down"
            \/ overtaken /\ mem'.text < mem.text
BY ConfigAssumption, SameConfigs, CfgP!CfgStep DEF Cfg!EditsRoom, CfgP!EditsRoom

\* A request that is sent through a limiter is sent no earlier than its turn.
LEMMA SentStep ==
    ReqP!ReqIInv =>
        \A g \in Req!Procs : (requestPc[g] = "send" /\ requestPc'[g] = "sent" /\ lim[g] # 0)
            => sent[lim[g]] >= need[g]
BY RequestsAssumption, ReqP!SentInTime DEF Req!Procs, ReqP!Procs

------------------------------------------------------------------------------
(* The registry of rooms *)

\* The instance has a copy of the operator of the library.
LEMMA SameRegistrySize == ASSUME NEW S PROVE Reg!Cardinality(S) = Cardinality(S)
BY DEF Reg!Cardinality, Cardinality

LEMMA RegistrySizes == IsFiniteSet(Rooms) /\ Cardinality(Rooms) <= Objects /\ Objects \in Nat
BY ServerAssumption DEF ServerAssumption

\* The objects of rooms: those made to initialize, and the real ones that replace them.
Known == Reg!Made \cup {Reg!Real(i) : i \in Reg!Made}
\* Where a request of the panel is.
Labels == {"idle", "first", "second", "third"}

\* The map and the listener manager keep an object under its own room and key; an object is
\* initialized only after its platform has answered.
RegTypes ==
    /\ cfg \in [Rooms -> {"absent", "idle", "listening"}]
    /\ made \in Seq(Rooms) /\ Len(made) <= Objects
    /\ lives \in [Rooms \X Reg!Keys -> Known \cup {0}]
    /\ listeners \in [Rooms \X Reg!Keys -> Known \cup {0}]
    /\ \A p \in Rooms \X Reg!Keys : (lives[p] # 0 => Reg!At(lives[p]) = p) /\
         (listeners[p] # 0 => Reg!At(listeners[p]) = p)
    /\ running \subseteq Known /\ finished \subseteq Reg!Made /\ asked \subseteq Reg!Made
    /\ asked \cap finished = {}
    /\ cb \in [1..Objects -> {"no", "replace", "config", "listen", "done", "panicked"}]
    /\ \A i \in 1..Objects : cb[i] # "no" => i \in finished
    /\ handlerPc \in [Callers -> Labels]
    /\ handlerOp \in [Callers -> {"add", "remove", "start", "stop"}]
    /\ target \in [Callers -> Known \cup {0}]
    /\ \A h \in Callers : handlerPc[h] # "idle" => target[h] # 0
    /\ flag \in [Callers -> SUBSET {"listen", "append"}]

\* No listener runs out of the hands of the manager, whatever room it is of, unless its
\* identity was found anew.
Held == \A o \in running : Reg!RoomOf(o) \notin Custom => listeners[Reg!At(o)] = o

\* Where a room without an identity of its own is kept: under its URL.
Url(r) == <<r, "url">>
\* The initialization of an object of this room has panicked on the way.
Panicked(r) == \E i \in Reg!Made : made[i] = r /\ cb[i] = "panicked"
\* An initialization of this room has put its object into the map and has not looked the room
\* up in the configuration yet, or has panicked because it was gone.
Late(r) == \E i \in Reg!Made : made[i] = r /\ cb[i] \in {"config", "panicked"}

\* At rest: a configured room is in the map, and listens as its configuration says; a room that
\* was removed is in the map at most while it is initialized.
Settled(r) ==
    /\ cfg[r] # "absent" => lives[Url(r)] # 0
    /\ cfg[r] = "absent" /\ lives[Url(r)] # 0 => Late(r)
    /\ listeners[Url(r)] # 0 <=> cfg[r] = "listening"

\* What the steps that a request has taken so far have made of its room: an addition appends to
\* the configuration last, a removal takes the listener first and the configuration last, a
\* switch turns the listener before it is written down.
Midway(h, r) ==
    /\ handlerPc[h] = "first" =>
          /\ Settled(r)
          /\ handlerOp[h] = "add" => ("append" \in flag[h] <=> cfg[r] = "absent")
          /\ handlerOp[h] \in {"start", "stop"} => cfg[r] # "absent"
    /\ handlerOp[h] = "add" /\ handlerPc[h] \in {"second", "third"} =>
          /\ "append" \in flag[h] /\ cfg[r] = "absent" /\ lives[Url(r)] # 0
          /\ listeners[Url(r)] # 0 <=> handlerPc[h] = "third" /\ "listen" \in flag[h]
    /\ handlerOp[h] = "remove" /\ handlerPc[h] \in {"second", "third"} =>
          listeners[Url(r)] = 0 /\ (handlerPc[h] = "third" => lives[Url(r)] = 0)
    /\ handlerOp[h] \in {"start", "stop"} /\ handlerPc[h] = "second" =>
          /\ cfg[r] # "absent" /\ lives[Url(r)] # 0
          /\ listeners[Url(r)] # 0 <=> handlerOp[h] = "start"
    /\ handlerOp[h] \in {"start", "stop"} => handlerPc[h] # "third"

RoomOK(r) ==
    /\ \A h, g \in Reg!Working(r) : h = g
    /\ ~Panicked(r) => /\ Reg!Working(r) = {} => Settled(r)
                       /\ \A h \in Reg!Working(r) : Midway(h, r)

\* The rooms that are left out are those that two requests have changed at a time (the history
\* overlapped), where there is no agreement, and those that take on an identity of their own.
RegIInv == RegTypes /\ Held /\ \A r \in Rooms \ (Custom \cup overlapped) : RoomOK(r)

\* An object keeps its room and its key; a room without an identity of its own has one place.
LEMMA Places ==
    ASSUME RegTypes
    PROVE  /\ \A i \in Reg!Made :
                 /\ i \in 1..Objects /\ made[i] \in Rooms /\ Reg!RoomOf(i) = made[i]
                 /\ Reg!At(i) = Url(made[i]) /\ i \in Known /\ i # 0
                 /\ Reg!RoomOf(Reg!Real(i)) = made[i] /\ Reg!Real(i) \in Known /\ Reg!Real(i) # 0
                 /\ Reg!At(Reg!Real(i)) = <<made[i], Reg!FinalKey(made[i])>>
           /\ \A o \in Known : /\ Reg!RoomOf(o) \in Rooms /\ o # 0
                               /\ Reg!At(o) = <<Reg!RoomOf(o), Reg!Key(o)>>
                               /\ Reg!At(o) \in Rooms \X Reg!Keys
                               /\ Reg!RoomOf(o) \notin Custom => Reg!At(o) = Url(Reg!RoomOf(o))
<1>0. Objects \in Nat /\ Len(made) \in Nat /\ Len(made) <= Objects
  BY RegistrySizes DEF RegTypes
<1>1. ASSUME NEW i \in Reg!Made
      PROVE  /\ i \in 1..Objects /\ made[i] \in Rooms /\ Reg!RoomOf(i) = made[i]
             /\ Reg!At(i) = Url(made[i]) /\ i \in Known /\ i # 0
             /\ Reg!RoomOf(Reg!Real(i)) = made[i] /\ Reg!Real(i) \in Known /\ Reg!Real(i) # 0
             /\ Reg!At(Reg!Real(i)) = <<made[i], Reg!FinalKey(made[i])>>
  <2>1. i \in Nat /\ i >= 1 /\ i <= Len(made) /\ ~(i > Objects)
    BY <1>0 DEF Reg!Made
  <2>2. /\ Reg!Real(i) > Objects /\ Reg!Real(i) - Objects = i /\ Reg!Real(i) # 0 /\ i # 0
        /\ i \in 1..Objects
    BY <1>0, <2>1 DEF Reg!Real
  <2>3. made[i] \in Rooms
    BY <2>1 DEF RegTypes, Reg!Made
  <2>4. Reg!RoomOf(i) = made[i] /\ Reg!RoomOf(Reg!Real(i)) = made[i]
    BY <2>1, <2>2 DEF Reg!RoomOf
  <2>5. Reg!Key(i) = "url" /\ Reg!Key(Reg!Real(i)) = Reg!FinalKey(made[i])
    BY <2>1, <2>2, <2>4 DEF Reg!Key
  <2>6. i \in Known /\ Reg!Real(i) \in Known
    BY DEF Known
  <2> QED BY <2>2, <2>3, <2>4, <2>5, <2>6 DEF Reg!At, Url
<1>2. ASSUME NEW o \in Known
      PROVE  /\ Reg!RoomOf(o) \in Rooms /\ o # 0
             /\ Reg!At(o) = <<Reg!RoomOf(o), Reg!Key(o)>> /\ Reg!At(o) \in Rooms \X Reg!Keys
             /\ Reg!RoomOf(o) \notin Custom => Reg!At(o) = Url(Reg!RoomOf(o))
  <2>1. Reg!At(o) = <<Reg!RoomOf(o), Reg!Key(o)>>
    BY DEF Reg!At
  <2>2. PICK i \in Reg!Made : o = i \/ o = Reg!Real(i)
    BY DEF Known
  <2>3. Reg!RoomOf(o) = made[i] /\ made[i] \in Rooms /\ o # 0
    BY <1>1, <2>2
  <2>4. Reg!At(o) = Url(made[i]) \/ Reg!At(o) = <<made[i], Reg!FinalKey(made[i])>>
    BY <1>1, <2>2
  <2>5. /\ Reg!FinalKey(made[i]) \in Reg!Keys /\ "url" \in Reg!Keys
        /\ (made[i] \notin Custom => Reg!FinalKey(made[i]) = "url")
    BY DEF Reg!FinalKey, Reg!Keys
  <2> QED BY <2>1, <2>3, <2>4, <2>5 DEF Url
<1> QED BY <1>1, <1>2

\* A room that a step does not touch stays as it is.
LEMMA RoomStays ==
    ASSUME NEW r, RoomOK(r), cfg'[r] = cfg[r],
           lives'[Url(r)] # 0 <=> lives[Url(r)] # 0, listeners'[Url(r)] # 0 <=>
             listeners[Url(r)] # 0,
           Reg!Working(r)' = Reg!Working(r),
           \A h \in Reg!Working(r) : handlerPc'[h] = handlerPc[h] /\
             handlerOp'[h] = handlerOp[h] /\ flag'[h] = flag[h],
           Panicked(r) => Panicked(r)', Late(r) => Late(r)'
    PROVE  RoomOK(r)'
<1>1. Settled(r) => Settled(r)'
  BY DEF Settled, Url
<1>2. ASSUME NEW h \in Reg!Working(r), Midway(h, r)
      PROVE  Midway(h, r)'
  BY <1>1, <1>2 DEF Midway, Url
<1> QED BY <1>1, <1>2 DEF RoomOK

\* A step of request h changes nothing of other rooms than its own.
LEMMA RequestStep ==
    ASSUME RegIInv, NEW h \in Callers, handlerPc[h] # "idle", NEW l \in Labels, Reg!To(h, l),
           UNCHANGED <<made, finished, asked, cb, overlapped>>,
           cfg' \in [Rooms -> {"absent", "idle", "listening"}],
           lives' \in [Rooms \X Reg!Keys -> Known \cup {0}],
             listeners' \in [Rooms \X Reg!Keys -> Known \cup {0}],
           \A p \in Rooms \X Reg!Keys : (lives'[p] # 0 => Reg!At(lives'[p]) = p) /\
             (listeners'[p] # 0 => Reg!At(listeners'[p]) = p),
           running' \subseteq Known, Held',
           \A r \in Rooms \ {Reg!RoomOf(target[h])} :
              /\ cfg'[r] = cfg[r] /\ lives'[Url(r)] = lives[Url(r)]
              /\ listeners'[Url(r)] = listeners[Url(r)],
           ASSUME NEW r \in Rooms \ Custom, r = Reg!RoomOf(target[h]), target[h] \in Known,
                  Midway(h, r), ~Panicked(r), Reg!At(target[h]) = Url(r)
           PROVE  IF l = "idle" THEN Settled(r)' ELSE Midway(h, r)'
    PROVE  RegIInv'
<1> DEFINE q == Reg!RoomOf(target[h])
<1>1. /\ handlerPc' = [handlerPc EXCEPT ![h] = l]
      /\ handlerOp' = IF l = "idle" THEN [handlerOp EXCEPT ![h] = "add"] ELSE handlerOp
      /\ target' = IF l = "idle" THEN [target EXCEPT ![h] = 0] ELSE target
      /\ flag' = IF l = "idle" THEN [flag EXCEPT ![h] = {}] ELSE flag
  BY DEF Reg!To
<1>2. RegTypes'
  <2>1. /\ handlerPc' \in [Callers -> Labels]
        /\ handlerOp' \in [Callers -> {"add", "remove", "start", "stop"}]
        /\ target' \in [Callers -> Known \cup {0}]
        /\ flag' \in [Callers -> SUBSET {"listen", "append"}]
        /\ \A g \in Callers : handlerPc'[g] # "idle" => target'[g] # 0
    BY <1>1 DEF RegIInv, RegTypes, Labels
  <2>2. Known' = Known /\ Reg!Made' = Reg!Made /\ (\A o : Reg!At(o)' = Reg!At(o))
    BY DEF Known, Reg!Made, Reg!Real, Reg!At, Reg!RoomOf, Reg!Key, Reg!FinalKey
  <2> QED BY <2>1, <2>2 DEF RegIInv, RegTypes
<1>3. \A g \in Callers : g # h => handlerPc'[g] = handlerPc[g] /\ handlerOp'[g] = handlerOp[g] /\
        target'[g] = target[g] /\ flag'[g] = flag[g]
  BY <1>1 DEF RegIInv, RegTypes
<1>4. /\ handlerPc'[h] = l
      /\ (l # "idle" => handlerOp'[h] = handlerOp[h] /\ target'[h] = target[h] /\
           flag'[h] = flag[h])
  BY <1>1 DEF RegIInv, RegTypes
<1>5. \A o : Reg!RoomOf(o)' = Reg!RoomOf(o)
  BY DEF Reg!RoomOf
<1>6. \A r : (Panicked(r)' <=> Panicked(r)) /\ (Late(r)' <=> Late(r))
  BY DEF Panicked, Late, Reg!Made
<1>7. ASSUME NEW r \in Rooms \ (Custom \cup overlapped), r # q
      PROVE  RoomOK(r)'
  <2>1. Reg!Working(r)' = Reg!Working(r) /\ h \notin Reg!Working(r)
    BY <1>3, <1>4, <1>5, <1>7 DEF Reg!Working
  <2>2. RoomOK(r)
    BY DEF RegIInv
  <2>3. \A g \in Reg!Working(r) : g \in Callers /\ g # h
    BY <2>1 DEF Reg!Working
  <2> QED BY <1>3, <1>6, <1>7, <2>1, <2>2, <2>3, RoomStays
<1>8. ASSUME NEW r \in Rooms \ (Custom \cup overlapped), r = q
      PROVE  RoomOK(r)'
  <2>1. h \in Reg!Working(r) /\ RoomOK(r)
    BY <1>8 DEF Reg!Working, RegIInv
  <2>2. Reg!Working(r)' = IF l = "idle" THEN {} ELSE {h}
    <3>1. \A g \in Callers : g \in Reg!Working(r) => g = h
      BY <2>1 DEF RoomOK
    <3> QED BY <1>3, <1>4, <1>5, <1>8, <3>1 DEF Reg!Working
  <2>3. CASE Panicked(r)
    BY <1>6, <2>2, <2>3 DEF RoomOK
  <2>4. CASE ~Panicked(r)
    <3>1. target[h] \in Known
      BY DEF RegIInv, RegTypes
    <3>2. Reg!At(target[h]) = Url(r)
      BY <1>8, <3>1, Places DEF RegIInv
    <3>3. Midway(h, r)
      BY <2>1, <2>4 DEF RoomOK
    <3>4. IF l = "idle" THEN Settled(r)' ELSE Midway(h, r)'
      BY <1>8, <2>4, <3>1, <3>2, <3>3
    <3> QED BY <2>2, <3>4 DEF RoomOK
  <2> QED BY <2>3, <2>4
<1> QED BY <1>2, <1>7, <1>8 DEF RegIInv

\* A request begins, with a new object or with one there was.
LEMMA RequestBegins ==
    ASSUME RegIInv, NEW h \in Callers, NEW o, NEW r \in Rooms,
           NEW name \in {"add", "remove", "start", "stop"}, NEW f \in SUBSET {"listen", "append"},
           Reg!Begin(h, o, r, name, f),
           UNCHANGED <<cfg, finished, asked, lives, listeners, running, cb>>,
           made' \in Seq(Rooms), Len(made') <= Objects,
           \A i \in Reg!Made : i \in Reg!Made' /\ made'[i] = made[i],
           \A i \in Reg!Made' : i \notin Reg!Made => cb[i] = "no",
           o \in Known', Reg!RoomOf(o)' = r,
           name = "add" => ("append" \in f <=> cfg[r] = "absent"),
           name \in {"start", "stop"} => cfg[r] # "absent"
    PROVE  RegIInv'
<1>0. Objects \in Nat /\ Len(made) \in Nat /\ Len(made) <= Objects
  BY RegistrySizes DEF RegIInv, RegTypes
<1>12. Reg!RoomOf(target[h])' = r /\ target'[h] = o
  <2>1. target'[h] = o
    BY DEF Reg!Begin, RegIInv, RegTypes
  <2> QED BY <2>1 DEF Reg!RoomOf
<1>1. \A p \in Known : p \in Known' /\ Reg!RoomOf(p)' = Reg!RoomOf(p) /\ Reg!At(p)' = Reg!At(p)
  <2>1. ASSUME NEW i \in Reg!Made
        PROVE  /\ i \in Known' /\ Reg!RoomOf(i)' = Reg!RoomOf(i) /\ Reg!At(i)' = Reg!At(i)
               /\ Reg!Real(i) \in Known' /\ Reg!RoomOf(Reg!Real(i))' = Reg!RoomOf(Reg!Real(i))
               /\ Reg!At(Reg!Real(i))' = Reg!At(Reg!Real(i))
    <3>1. i \in Nat /\ ~(i > Objects) /\ Reg!Real(i) > Objects /\ Reg!Real(i) - Objects = i
      BY <1>0 DEF Reg!Made, Reg!Real
    <3>2. Reg!RoomOf(i)' = Reg!RoomOf(i) /\ Reg!RoomOf(Reg!Real(i))' = Reg!RoomOf(Reg!Real(i))
      BY <3>1 DEF Reg!RoomOf
    <3>3. i \in Known' /\ Reg!Real(i) \in Known'
      BY DEF Known, Reg!Real
    <3> QED BY <3>2, <3>3 DEF Reg!At, Reg!Key, Reg!FinalKey
  <2> QED BY <2>1 DEF Known
<1>2. o # 0
  <2>1. PICK i \in Reg!Made' : o = i \/ o = Reg!Real(i)
    BY DEF Known, Reg!Real
  <2>2. i \in Nat /\ i >= 1
    BY RegistrySizes DEF Reg!Made
  <2> QED BY <1>0, <2>1, <2>2 DEF Reg!Real
<1>3. /\ handlerPc[h] = "idle" /\ handlerPc' = [handlerPc EXCEPT ![h] = "first"]
      /\ handlerOp' = [handlerOp EXCEPT ![h] = name]
      /\ target' = [target EXCEPT ![h] = o] /\ flag' = [flag EXCEPT ![h] = f]
      /\ overlapped' = overlapped \cup (IF Reg!Working(r) = {} THEN {} ELSE {r})
  BY DEF Reg!Begin
<1>4. RegTypes'
  <2>1. /\ handlerPc' \in [Callers -> Labels]
        /\ handlerOp' \in [Callers -> {"add", "remove", "start", "stop"}]
        /\ flag' \in [Callers -> SUBSET {"listen", "append"}]
    BY <1>3 DEF RegIInv, RegTypes, Labels
  <2>2. /\ target' \in [Callers -> Known' \cup {0}]
        /\ \A g \in Callers : handlerPc'[g] # "idle" => target'[g] # 0
    BY <1>1, <1>2, <1>3 DEF RegIInv, RegTypes
  <2>3. /\ lives' \in [Rooms \X Reg!Keys -> Known' \cup {0}]
        /\ listeners' \in [Rooms \X Reg!Keys -> Known' \cup {0}]
    BY <1>1 DEF RegIInv, RegTypes
  <2>4. \A p \in Rooms \X Reg!Keys : (lives'[p] # 0 => Reg!At(lives[p])' = p) /\
          (listeners'[p] # 0 => Reg!At(listeners[p])' = p)
    BY <1>1 DEF RegIInv, RegTypes
  <2>5. running' \subseteq Known' /\ finished' \subseteq Reg!Made' /\ asked' \subseteq Reg!Made'
    BY <1>1 DEF RegIInv, RegTypes
  <2>6. /\ cfg' \in [Rooms -> {"absent", "idle", "listening"}]
        /\ asked' \cap finished' = {}
        /\ cb' \in [1..Objects -> {"no", "replace", "config", "listen", "done", "panicked"}]
        /\ \A i \in 1..Objects : cb'[i] # "no" => i \in finished'
    BY DEF RegIInv, RegTypes
  <2> QED BY <2>1, <2>2, <2>3, <2>4, <2>5, <2>6 DEF RegTypes
<1>5. Held'
  BY <1>1 DEF Held, RegIInv, RegTypes
<1>6. \A g \in Callers : g # h => handlerPc'[g] = handlerPc[g] /\ handlerOp'[g] = handlerOp[g] /\
        target'[g] = target[g] /\ flag'[g] = flag[g]
  BY <1>3 DEF RegIInv, RegTypes
<1>7. handlerPc'[h] = "first" /\ handlerOp'[h] = name /\ target'[h] = o /\ flag'[h] = f
  BY <1>3 DEF RegIInv, RegTypes
<1>8. \A q : (Panicked(q)' <=> Panicked(q)) /\ (Late(q)' <=> Late(q))
  BY DEF Panicked, Late
<1>9. \A g \in Callers : g # h /\ handlerPc[g] # "idle" =>
        Reg!RoomOf(target[g])' = Reg!RoomOf(target[g])
  <2>1. SUFFICES ASSUME NEW g \in Callers, g # h, handlerPc[g] # "idle"
                 PROVE  Reg!RoomOf(target[g])' = Reg!RoomOf(target[g])
    OBVIOUS
  <2>2. target[g] \in Known /\ target'[g] = target[g]
    BY <1>6, <2>1 DEF RegIInv, RegTypes
  <2>3. Reg!RoomOf(target[g])' = made'[IF target'[g] > Objects THEN target'[g] - Objects
          ELSE target'[g]]
    BY DEF Reg!RoomOf
  <2>4. PICK p : p = target[g]
    OBVIOUS
  <2>5. p \in Known /\ Reg!RoomOf(p)' = Reg!RoomOf(p)
    BY <1>1, <2>2, <2>4
  <2> QED BY <2>2, <2>3, <2>4, <2>5 DEF Reg!RoomOf
<1>10. ASSUME NEW q \in Rooms \ (Custom \cup overlapped'), q # r
       PROVE  RoomOK(q)'
  <2>1. Reg!Working(q)' = Reg!Working(q) /\ \A g \in Reg!Working(q) : g \in Callers /\ g # h
    BY <1>3, <1>6, <1>7, <1>9, <1>10, <1>12 DEF Reg!Working
  <2>2. RoomOK(q)
    BY <1>3 DEF RegIInv
  <2> QED BY <1>6, <1>8, <2>1, <2>2, RoomStays
<1>11. ASSUME r \notin Custom \cup overlapped'
       PROVE  RoomOK(r)'
  <2>1. Reg!Working(r) = {} /\ RoomOK(r)
    BY <1>3, <1>11 DEF RegIInv
  <2>2. Reg!Working(r)' = {h}
    BY <1>6, <1>7, <1>9, <1>12, <2>1 DEF Reg!Working
  <2>3. ~Panicked(r) => Settled(r)'
    BY <1>8, <2>1 DEF RoomOK, Settled
  <2>4. ~Panicked(r) => Midway(h, r)'
    BY <1>7, <2>3 DEF Midway
  <2> QED BY <1>8, <2>2, <2>4 DEF RoomOK
<1> QED BY <1>4, <1>5, <1>10, <1>11 DEF RegIInv

\* addLive, removeLive, start and stop of the panel begin.
LEMMA Begins ==
    ASSUME RegIInv, NEW h \in Callers,
           \/ \E r \in Rooms : Reg!AskAdd(h, r)
           \/ \E p \in Rooms \X Reg!Keys, name \in {"remove", "start", "stop"} :
                Reg!AskOther(h, p, name)
    PROVE  RegIInv'
<1>0. Objects \in Nat /\ Len(made) \in Nat /\ made \in Seq(Rooms)
  BY RegistrySizes DEF RegIInv, RegTypes
<1>1. ASSUME NEW r \in Rooms, Reg!AskAdd(h, r)
      PROVE  RegIInv'
  <2>1. PICK listen \in SUBSET {"listen"} :
             Reg!Begin(h, Len(made'), r, "add", listen \cup (IF cfg[r] = "absent" THEN {"append"}
               ELSE {}))
    BY <1>1 DEF Reg!AskAdd
  <2>2. made' = Append(made, r) /\ Len(made) < Objects
    BY <1>1 DEF Reg!AskAdd
  <2>3. /\ made' \in Seq(Rooms) /\ Len(made') = Len(made) + 1 /\ Len(made') <= Objects
        /\ \A i \in Reg!Made : i \in Reg!Made' /\ made'[i] = made[i]
        /\ made'[Len(made')] = r
    BY <1>0, <2>2 DEF Reg!Made
  <2>4. \A i \in Reg!Made' : i \notin Reg!Made => cb[i] = "no"
    BY <1>0, <2>3 DEF Reg!Made, RegIInv, RegTypes
  <2>5. Len(made') \in Known'
    BY <1>0, <2>3 DEF Reg!Made, Known
  <2>7. UNCHANGED <<cfg, finished, asked, lives, listeners, running, cb>>
    BY <1>1 DEF Reg!AskAdd
  <2> DEFINE f == listen \cup (IF cfg[r] = "absent" THEN {"append"} ELSE {})
  <2>8. f \in SUBSET {"listen", "append"} /\ ("append" \in f <=> cfg[r] = "absent")
    OBVIOUS
  <2>9. Reg!Begin(h, Len(made'), r, "add", f)
    BY <2>1
  <2>10. PICK n : n = Len(made')
    OBVIOUS
  <2> HIDE DEF f
  <2>11. Reg!RoomOf(n)' = r /\ n \in Known'
    BY <1>0, <2>3, <2>5, <2>10 DEF Reg!RoomOf
  <2> QED BY <2>3, <2>4, <2>7, <2>8, <2>9, <2>10, <2>11, RequestBegins
<1>2. ASSUME NEW p \in Rooms \X Reg!Keys, NEW name \in {"remove", "start", "stop"},
        Reg!AskOther(h, p, name)
      PROVE  RegIInv'
  <2>1. /\ Reg!Begin(h, lives[p], p[1], name, {}) /\ lives[p] # 0
        /\ (name # "remove" => cfg[p[1]] # "absent")
    BY <1>2 DEF Reg!AskOther
  <2>2. lives[p] \in Known /\ Reg!At(lives[p]) = p
    BY <2>1 DEF RegIInv, RegTypes
  <2>3. Reg!RoomOf(lives[p]) = p[1] /\ p[1] \in Rooms
    BY <2>2 DEF Reg!At
  <2>4. UNCHANGED <<cfg, made, finished, asked, lives, listeners, running, cb>>
    BY <1>2 DEF Reg!AskOther
  <2>5. made' \in Seq(Rooms) /\ Len(made') <= Objects
    BY <2>4 DEF RegIInv, RegTypes
  <2>6. \A i \in Reg!Made : i \in Reg!Made' /\ made'[i] = made[i]
    BY <2>4 DEF Reg!Made
  <2>7. \A i \in Reg!Made' : i \notin Reg!Made => cb[i] = "no"
    BY <2>4 DEF Reg!Made
  <2>8. PICK o : o = lives[p]
    OBVIOUS
  <2>9. o \in Known' /\ Reg!RoomOf(o)' = p[1]
    BY <2>2, <2>3, <2>4, <2>8 DEF Known, Reg!Made, Reg!RoomOf, Reg!Real
  <2> QED BY <2>1, <2>3, <2>4, <2>5, <2>6, <2>7, <2>8, <2>9, RequestBegins
<1> QED BY <1>1, <1>2

\* What a request under way is about.
LEMMA AtWork ==
    ASSUME RegTypes, NEW h \in Callers, handlerPc[h] # "idle"
    PROVE  /\ target[h] \in Known /\ Reg!RoomOf(target[h]) \in Rooms
           /\ Reg!At(target[h]) = <<Reg!RoomOf(target[h]), Reg!Key(target[h])>>
           /\ Reg!At(target[h]) \in Rooms \X Reg!Keys
           /\ Reg!RoomOf(target[h]) \notin Custom => Reg!At(target[h]) = Url(Reg!RoomOf(target[h]))
           /\ \A r \in Rooms \ {Reg!RoomOf(target[h])} : Url(r) \in Rooms \X Reg!Keys /\
                Url(r) # Reg!At(target[h])
<1>1. target[h] \in Known
  BY DEF RegTypes
<1>2. /\ Reg!RoomOf(target[h]) \in Rooms
      /\ Reg!At(target[h]) = <<Reg!RoomOf(target[h]), Reg!Key(target[h])>>
      /\ Reg!At(target[h]) \in Rooms \X Reg!Keys
      /\ Reg!RoomOf(target[h]) \notin Custom => Reg!At(target[h]) = Url(Reg!RoomOf(target[h]))
  BY <1>1, Places
<1> QED BY <1>1, <1>2 DEF Url, Reg!Keys

\* The listener manager keeps what runs in its hands.
LEMMA ManagerHolds ==
    ASSUME RegTypes, Held, NEW o \in Known,
           Reg!AddListener(o) \/ Reg!RemoveListener(o)
    PROVE  /\ listeners' \in [Rooms \X Reg!Keys -> Known \cup {0}]
           /\ \A p \in Rooms \X Reg!Keys : listeners'[p] # 0 => Reg!At(listeners'[p]) = p
           /\ running' \subseteq Known
           /\ \A p \in Rooms \X Reg!Keys : p # Reg!At(o) => listeners'[p] = listeners[p]
           /\ Reg!AddListener(o) => listeners'[Reg!At(o)] # 0
           /\ Reg!RemoveListener(o) => listeners'[Reg!At(o)] = 0
           /\ UNCHANGED made => Held'
<1>0. Reg!At(o) \in Rooms \X Reg!Keys /\ o # 0
  BY Places
<1>1. /\ listeners \in [Rooms \X Reg!Keys -> Known \cup {0}] /\ running \subseteq Known
      /\ \A p \in Rooms \X Reg!Keys : listeners[p] # 0 => Reg!At(listeners[p]) = p
  BY DEF RegTypes
<1>2. ASSUME UNCHANGED made
      PROVE  \A p : Reg!RoomOf(p)' = Reg!RoomOf(p) /\ Reg!At(p)' = Reg!At(p)
  BY <1>2 DEF Reg!RoomOf, Reg!At, Reg!Key, Reg!FinalKey
<1>3. CASE /\ UNCHANGED <<listeners, running>> /\ (Reg!AddListener(o) => Reg!HasListener(o))
           /\ (Reg!RemoveListener(o) => ~Reg!HasListener(o))
  <2>1. UNCHANGED made => Held'
    BY <1>2, <1>3 DEF Held
  <2> QED BY <1>0, <1>1, <1>3, <2>1 DEF Reg!HasListener
<1>4. CASE Reg!StartListener(o) /\ ~Reg!HasListener(o)
  <2>1. /\ listeners' = [listeners EXCEPT ![Reg!At(o)] = o] /\ running' = running \cup {o}
        /\ listeners[Reg!At(o)] = 0
    BY <1>4 DEF Reg!StartListener, Reg!HasListener
  <2>2. /\ listeners'[Reg!At(o)] = o
        /\ \A p \in Rooms \X Reg!Keys : p # Reg!At(o) => listeners'[p] = listeners[p]
    BY <1>0, <1>1, <2>1
  <2>3. listeners' \in [Rooms \X Reg!Keys -> Known \cup {0}]
    BY <1>1, <2>1
  <2>4. ~Reg!RemoveListener(o)
    <3>1. Reg!RemoveListener(o) => UNCHANGED listeners
      BY <1>4 DEF Reg!RemoveListener
    <3> QED BY <1>0, <2>1, <2>2, <3>1
  <2>5. ASSUME UNCHANGED made, NEW q \in running', Reg!RoomOf(q) \notin Custom
        PROVE  listeners'[Reg!At(q)] = q
    <3>1. CASE q = o
      BY <2>2, <3>1
    <3>2. CASE q \in running
      <4>1. listeners[Reg!At(q)] = q /\ Reg!At(q) \in Rooms \X Reg!Keys /\ q # 0
        BY <1>1, <2>5, <3>2, Places DEF Held
      <4> QED BY <2>1, <2>2, <4>1
    <3> QED BY <2>1, <3>1, <3>2
  <2>6. UNCHANGED made => Held'
    BY <1>2, <2>5 DEF Held
  <2> QED BY <1>0, <1>1, <2>1, <2>2, <2>3, <2>4, <2>6
<1>5. CASE Reg!CloseListener(o) /\ Reg!HasListener(o)
  <2>1. /\ listeners' = [listeners EXCEPT ![Reg!At(o)] = 0]
        /\ running' = running \ {listeners[Reg!At(o)]} /\ listeners[Reg!At(o)] # 0
    BY <1>5 DEF Reg!CloseListener, Reg!HasListener
  <2>2. /\ listeners'[Reg!At(o)] = 0
        /\ \A p \in Rooms \X Reg!Keys : p # Reg!At(o) => listeners'[p] = listeners[p]
    BY <1>0, <1>1, <2>1
  <2>3. listeners' \in [Rooms \X Reg!Keys -> Known \cup {0}]
    BY <1>1, <2>1
  <2>4. ~Reg!AddListener(o)
    <3>1. Reg!AddListener(o) => UNCHANGED listeners
      BY <1>5 DEF Reg!AddListener
    <3> QED BY <1>0, <2>1, <2>2, <3>1
  <2>5. ASSUME UNCHANGED made, NEW q \in running', Reg!RoomOf(q) \notin Custom
        PROVE  listeners'[Reg!At(q)] = q
    <3>1. listeners[Reg!At(q)] = q /\ Reg!At(q) \in Rooms \X Reg!Keys /\ q # listeners[Reg!At(o)]
      BY <1>1, <2>1, <2>5, Places DEF Held
    <3> QED BY <2>2, <3>1
  <2>6. UNCHANGED made => Held'
    BY <1>2, <2>5 DEF Held
  <2> QED BY <1>0, <1>1, <2>1, <2>2, <2>3, <2>4, <2>6
<1>6. CASE Reg!AddListener(o) /\ Reg!HasListener(o)
  <2>1. UNCHANGED <<listeners, running>>
    BY <1>6 DEF Reg!AddListener
  <2>2. ~Reg!RemoveListener(o)
    <3>1. Reg!RemoveListener(o) => listeners'[Reg!At(o)] = 0
      BY <1>0, <1>1, <1>6 DEF Reg!RemoveListener, Reg!CloseListener
    <3> QED BY <1>6, <2>1, <3>1 DEF Reg!HasListener
  <2> QED BY <1>3, <1>6, <2>1, <2>2
<1>7. CASE Reg!RemoveListener(o) /\ ~Reg!HasListener(o)
  <2>1. UNCHANGED <<listeners, running>>
    BY <1>7 DEF Reg!RemoveListener
  <2>2. ~Reg!AddListener(o)
    <3>1. Reg!AddListener(o) => listeners'[Reg!At(o)] = o
      BY <1>0, <1>1, <1>7 DEF Reg!AddListener, Reg!StartListener
    <3> QED BY <1>0, <1>7, <2>1, <3>1 DEF Reg!HasListener
  <2> QED BY <1>3, <1>7, <2>1, <2>2
<1> QED BY <1>4, <1>5, <1>6, <1>7 DEF Reg!AddListener, Reg!RemoveListener

\* The steps of addLiveImpl.
LEMMA AddSteps ==
    ASSUME RegIInv, NEW h \in Callers,
           Reg!SetIfAbsent(h) \/ Reg!AddListens(h) \/ Reg!AppendLiveRoom(h)
    PROVE  RegIInv'
<1>0. /\ RegTypes /\ Held /\ handlerPc[h] # "idle" /\ handlerOp[h] = "add"
      /\ cfg \in [Rooms -> {"absent", "idle", "listening"}]
      /\ lives \in [Rooms \X Reg!Keys -> Known \cup {0}]
      /\ listeners \in [Rooms \X Reg!Keys -> Known \cup {0}]
      /\ \A p \in Rooms \X Reg!Keys : (lives[p] # 0 => Reg!At(lives[p]) = p) /\
           (listeners[p] # 0 => Reg!At(listeners[p]) = p)
      /\ running \subseteq Known
  BY DEF RegIInv, RegTypes, Reg!SetIfAbsent, Reg!AddListens, Reg!AppendLiveRoom, Reg!Doing
<1> DEFINE o == target[h]
           q == Reg!RoomOf(o)
<1>1. /\ o \in Known /\ q \in Rooms /\ o # 0
      /\ Reg!At(o) = <<q, Reg!Key(o)>> /\ Reg!At(o) \in Rooms \X Reg!Keys
      /\ q \notin Custom => Reg!At(o) = Url(q)
      /\ \A r \in Rooms \ {q} : Url(r) \in Rooms \X Reg!Keys /\ Url(r) # Reg!At(o)
  BY <1>0, AtWork, Places
<1> HIDE DEF o
<1>2. ASSUME Reg!SetIfAbsent(h), lives[Reg!At(o)] = 0
      PROVE  RegIInv'
  <2>1. /\ lives' = [lives EXCEPT ![Reg!At(o)] = o] /\ Reg!To(h, "second") /\ handlerPc[h] = "first"
        /\ UNCHANGED <<cfg, made, finished, asked, initLoop, listeners, running, cb, overlapped>>
    BY <1>2 DEF Reg!SetIfAbsent, Reg!Doing, o
  <2>2. lives' \in [Rooms \X Reg!Keys -> Known \cup {0}]
    BY <1>0, <1>1, <2>1
  <2>3. \A p \in Rooms \X Reg!Keys : lives'[p] # 0 => Reg!At(lives'[p]) = p
    BY <1>0, <1>1, <2>1
  <2>4. \A r \in Rooms \ {q} : lives'[Url(r)] = lives[Url(r)]
    BY <1>0, <1>1, <2>1
  <2>5. ASSUME NEW r \in Rooms \ Custom, r = Reg!RoomOf(target[h]), target[h] \in Known,
               Midway(h, r), ~Panicked(r), Reg!At(target[h]) = Url(r)
        PROVE  Midway(h, r)'
    <3>1. /\ lives[Url(r)] = 0 /\ lives'[Url(r)] # 0 /\ handlerOp'[h] = "add"
          /\ handlerPc'[h] = "second" /\ flag'[h] = flag[h]
      BY <1>0, <1>1, <1>2, <2>1, <2>5 DEF Reg!To, o, RegTypes
    <3>2. Settled(r) /\ ("append" \in flag[h] <=> cfg[r] = "absent")
      BY <1>0, <2>1, <2>5 DEF Midway
    <3>3. cfg[r] = "absent" /\ listeners[Url(r)] = 0
      BY <3>1, <3>2 DEF Settled
    <3> QED BY <2>1, <3>1, <3>2, <3>3 DEF Midway
  <2>6. Held' /\ "second" \in Labels
    BY <1>0, <2>1 DEF Held, Reg!At, Reg!RoomOf, Reg!Key, Reg!FinalKey, Labels
  <2> QED BY <1>0, <2>1, <2>2, <2>3, <2>4, <2>5, <2>6, RequestStep DEF o
<1>3. ASSUME Reg!SetIfAbsent(h), lives[Reg!At(o)] # 0
      PROVE  RegIInv'
  <2>1. /\ UNCHANGED lives /\ Reg!To(h, "idle") /\ handlerPc[h] = "first"
        /\ UNCHANGED <<cfg, made, finished, asked, initLoop, listeners, running, cb, overlapped>>
    BY <1>3 DEF Reg!SetIfAbsent, Reg!Doing, o
  <2>2. Held' /\ "idle" \in Labels
    BY <1>0, <2>1 DEF Held, Reg!At, Reg!RoomOf, Reg!Key, Reg!FinalKey, Labels
  <2>3. ASSUME NEW r \in Rooms \ Custom, r = Reg!RoomOf(target[h]), target[h] \in Known,
               Midway(h, r), ~Panicked(r), Reg!At(target[h]) = Url(r)
        PROVE  Settled(r)'
    <3>1. Settled(r)
      BY <2>1, <2>3 DEF Midway
    <3> QED BY <2>1, <3>1 DEF Settled, Url, Late, Reg!Made
  <2> QED BY <1>0, <2>1, <2>2, <2>3, RequestStep
<1>4. ASSUME Reg!AddListens(h), NEW l \in Labels, l = IF "append" \in flag[h] THEN "third"
        ELSE "idle"
      PROVE  RegIInv'
  <2>1. /\ Reg!To(h, l) /\ handlerPc[h] = "second"
        /\ IF "listen" \in flag[h] THEN Reg!AddListener(o) ELSE UNCHANGED <<listeners, running>>
        /\ UNCHANGED <<cfg, made, finished, asked, initLoop, lives, cb, overlapped>>
    BY <1>4 DEF Reg!AddListens, Reg!Doing, o
  <2>2. /\ listeners' \in [Rooms \X Reg!Keys -> Known \cup {0}] /\ running' \subseteq Known /\ Held'
        /\ \A p \in Rooms \X Reg!Keys : listeners'[p] # 0 => Reg!At(listeners'[p]) = p
        /\ \A p \in Rooms \X Reg!Keys : p # Reg!At(o) => listeners'[p] = listeners[p]
        /\ "listen" \in flag[h] => listeners'[Reg!At(o)] # 0
        /\ "listen" \notin flag[h] => listeners'[Reg!At(o)] = listeners[Reg!At(o)]
    <3>1. CASE "listen" \in flag[h]
      BY <1>0, <1>1, <2>1, <3>1, ManagerHolds
    <3>2. CASE "listen" \notin flag[h]
      <4>1. Held'
        BY <1>0, <2>1, <3>2 DEF Held, Reg!At, Reg!RoomOf, Reg!Key, Reg!FinalKey
      <4> QED BY <1>0, <2>1, <3>2, <4>1
    <3> QED BY <3>1, <3>2
  <2>3. \A r \in Rooms \ {q} : listeners'[Url(r)] = listeners[Url(r)]
    BY <1>1, <2>2
  <2>4. ASSUME NEW r \in Rooms \ Custom, r = Reg!RoomOf(target[h]), target[h] \in Known,
               Midway(h, r), ~Panicked(r), Reg!At(target[h]) = Url(r)
        PROVE  IF l = "idle" THEN Settled(r)' ELSE Midway(h, r)'
    <3>1. /\ "append" \in flag[h] /\ cfg[r] = "absent" /\ lives[Url(r)] # 0
          /\ listeners[Url(r)] = 0
      BY <1>0, <2>1, <2>4 DEF Midway
    <3>2. l = "third" /\ handlerOp'[h] = "add" /\ handlerPc'[h] = "third" /\ flag'[h] = flag[h]
      BY <1>0, <1>4, <2>1, <3>1 DEF Reg!To, RegTypes
    <3>3. Reg!At(o) = Url(r)
      BY <2>4 DEF o
    <3>4. listeners'[Url(r)] # 0 <=> "listen" \in flag[h]
      BY <2>2, <3>1, <3>3
    <3> QED BY <2>1, <3>1, <3>2, <3>4 DEF Midway
  <2> QED BY <1>0, <2>1, <2>2, <2>3, <2>4, RequestStep DEF o
<1>5. ASSUME Reg!AppendLiveRoom(h)
      PROVE  RegIInv'
  <2>1. /\ Reg!To(h, "idle") /\ handlerPc[h] = "third"
        /\ cfg' = [cfg EXCEPT ![q] = IF "listen" \in flag[h] THEN "listening" ELSE "idle"]
        /\ UNCHANGED <<made, finished, asked, initLoop, lives, listeners, running, cb, overlapped>>
    BY <1>5 DEF Reg!AppendLiveRoom, Reg!Doing, o
  <2>2. Held' /\ "idle" \in Labels
    BY <1>0, <2>1 DEF Held, Reg!At, Reg!RoomOf, Reg!Key, Reg!FinalKey, Labels
  <2>3. /\ cfg' \in [Rooms -> {"absent", "idle", "listening"}]
        /\ \A r \in Rooms \ {q} : cfg'[r] = cfg[r]
    BY <1>0, <2>1
  <2>4. ASSUME NEW r \in Rooms \ Custom, r = Reg!RoomOf(target[h]), target[h] \in Known,
               Midway(h, r), ~Panicked(r), Reg!At(target[h]) = Url(r)
        PROVE  Settled(r)'
    <3>1. /\ lives[Url(r)] # 0
          /\ listeners[Url(r)] # 0 <=> "listen" \in flag[h]
      BY <1>0, <2>1, <2>4 DEF Midway
    <3>2. cfg'[r] = IF "listen" \in flag[h] THEN "listening" ELSE "idle"
      BY <1>0, <2>1, <2>4 DEF o
    <3> QED BY <2>1, <3>1, <3>2 DEF Settled
  <2> QED BY <1>0, <2>1, <2>2, <2>3, <2>4, RequestStep DEF o
<1> QED
  <2>1. Reg!AddListens(h) => RegIInv'
    BY <1>4 DEF Labels
  <2> QED BY <1>2, <1>3, <1>5, <2>1

\* The steps of removeLiveImpl: the listener, the map, the configuration.
LEMMA RemoveSteps ==
    ASSUME RegIInv, NEW h \in Callers,
           Reg!RemoveListens(h) \/ Reg!RemoveLive(h) \/ Reg!RemoveLiveRoomByUrl(h)
    PROVE  RegIInv'
<1>0. /\ RegTypes /\ Held /\ handlerPc[h] # "idle" /\ handlerOp[h] = "remove"
      /\ cfg \in [Rooms -> {"absent", "idle", "listening"}]
      /\ lives \in [Rooms \X Reg!Keys -> Known \cup {0}]
      /\ listeners \in [Rooms \X Reg!Keys -> Known \cup {0}]
      /\ \A p \in Rooms \X Reg!Keys : (lives[p] # 0 => Reg!At(lives[p]) = p) /\
           (listeners[p] # 0 => Reg!At(listeners[p]) = p)
      /\ running \subseteq Known
  BY DEF RegIInv, RegTypes, Reg!RemoveListens, Reg!RemoveLive, Reg!RemoveLiveRoomByUrl, Reg!Doing
<1> DEFINE o == target[h]
           q == Reg!RoomOf(o)
<1>1. /\ o \in Known /\ q \in Rooms /\ o # 0
      /\ Reg!At(o) = <<q, Reg!Key(o)>> /\ Reg!At(o) \in Rooms \X Reg!Keys
      /\ q \notin Custom => Reg!At(o) = Url(q)
      /\ \A r \in Rooms \ {q} : Url(r) \in Rooms \X Reg!Keys /\ Url(r) # Reg!At(o)
  BY <1>0, AtWork, Places
<1> HIDE DEF o
<1>2. ASSUME Reg!RemoveListens(h)
      PROVE  RegIInv'
  <2>1. /\ Reg!To(h, "second") /\ handlerPc[h] = "first" /\ Reg!RemoveListener(o)
        /\ UNCHANGED <<cfg, made, finished, asked, initLoop, lives, cb, overlapped>>
    BY <1>2 DEF Reg!RemoveListens, Reg!Doing, o
  <2>2. /\ listeners' \in [Rooms \X Reg!Keys -> Known \cup {0}] /\ running' \subseteq Known /\ Held'
        /\ \A p \in Rooms \X Reg!Keys : listeners'[p] # 0 => Reg!At(listeners'[p]) = p
        /\ \A p \in Rooms \X Reg!Keys : p # Reg!At(o) => listeners'[p] = listeners[p]
        /\ listeners'[Reg!At(o)] = 0
    BY <1>0, <1>1, <2>1, ManagerHolds
  <2>3. \A r \in Rooms \ {q} : listeners'[Url(r)] = listeners[Url(r)]
    BY <1>1, <2>2
  <2>4. ASSUME NEW r \in Rooms \ Custom, r = Reg!RoomOf(target[h]), target[h] \in Known,
               Midway(h, r), ~Panicked(r), Reg!At(target[h]) = Url(r)
        PROVE  Midway(h, r)'
    <3>1. handlerOp'[h] = "remove" /\ handlerPc'[h] = "second" /\ listeners'[Url(r)] = 0
      BY <1>0, <2>1, <2>2, <2>4 DEF Reg!To, RegTypes, o
    <3> QED BY <3>1 DEF Midway
  <2>5. "second" \in Labels
    BY DEF Labels
  <2> QED BY <1>0, <2>1, <2>2, <2>3, <2>4, <2>5, RequestStep DEF o
<1>3. ASSUME Reg!RemoveLive(h)
      PROVE  RegIInv'
  <2>1. /\ Reg!To(h, "third") /\ handlerPc[h] = "second" /\ lives' = [lives EXCEPT ![Reg!At(o)] = 0]
        /\ UNCHANGED <<cfg, made, finished, asked, initLoop, listeners, running, cb, overlapped>>
    BY <1>3 DEF Reg!RemoveLive, Reg!Doing, o
  <2>2. /\ lives' \in [Rooms \X Reg!Keys -> Known \cup {0}]
        /\ \A p \in Rooms \X Reg!Keys : lives'[p] # 0 => Reg!At(lives'[p]) = p
        /\ \A p \in Rooms \X Reg!Keys : p # Reg!At(o) => lives'[p] = lives[p]
        /\ lives'[Reg!At(o)] = 0
    BY <1>0, <1>1, <2>1
  <2>3. \A r \in Rooms \ {q} : lives'[Url(r)] = lives[Url(r)]
    BY <1>1, <2>2
  <2>4. ASSUME NEW r \in Rooms \ Custom, r = Reg!RoomOf(target[h]), target[h] \in Known,
               Midway(h, r), ~Panicked(r), Reg!At(target[h]) = Url(r)
        PROVE  Midway(h, r)'
    <3>1. handlerOp'[h] = "remove" /\ handlerPc'[h] = "third" /\ lives'[Url(r)] = 0
      BY <1>0, <2>1, <2>2, <2>4 DEF Reg!To, RegTypes, o
    <3>2. listeners[Url(r)] = 0
      BY <1>0, <2>1, <2>4 DEF Midway
    <3> QED BY <2>1, <3>1, <3>2 DEF Midway
  <2>5. "third" \in Labels /\ Held'
    BY <1>0, <2>1 DEF Labels, Held, Reg!At, Reg!RoomOf, Reg!Key, Reg!FinalKey
  <2> QED BY <1>0, <2>1, <2>2, <2>3, <2>4, <2>5, RequestStep DEF o
<1>4. ASSUME Reg!RemoveLiveRoomByUrl(h)
      PROVE  RegIInv'
  <2>1. /\ Reg!To(h, "idle") /\ handlerPc[h] = "third" /\ cfg' = [cfg EXCEPT ![q] = "absent"]
        /\ UNCHANGED <<made, finished, asked, initLoop, lives, listeners, running, cb, overlapped>>
    BY <1>4 DEF Reg!RemoveLiveRoomByUrl, Reg!Doing, o
  <2>2. /\ cfg' \in [Rooms -> {"absent", "idle", "listening"}]
        /\ \A r \in Rooms \ {q} : cfg'[r] = cfg[r]
    BY <1>0, <2>1
  <2>3. ASSUME NEW r \in Rooms \ Custom, r = Reg!RoomOf(target[h]), target[h] \in Known,
               Midway(h, r), ~Panicked(r), Reg!At(target[h]) = Url(r)
        PROVE  Settled(r)'
    <3>1. listeners[Url(r)] = 0 /\ lives[Url(r)] = 0
      BY <1>0, <2>1, <2>3 DEF Midway
    <3>2. cfg'[r] = "absent"
      BY <1>0, <2>1, <2>3 DEF o
    <3> QED BY <2>1, <3>1, <3>2 DEF Settled
  <2>4. "idle" \in Labels /\ Held'
    BY <1>0, <2>1 DEF Labels, Held, Reg!At, Reg!RoomOf, Reg!Key, Reg!FinalKey
  <2> QED BY <1>0, <2>1, <2>2, <2>3, <2>4, RequestStep DEF o
<1> QED BY <1>2, <1>3, <1>4

\* The steps of startListening and stopListening.
LEMMA ListeningSteps ==
    ASSUME RegIInv, NEW h \in Callers,
           Reg!StartListening(h) \/ Reg!StopListening(h) \/ Reg!SetListening(h)
    PROVE  RegIInv'
<1>0. /\ RegTypes /\ Held /\ handlerPc[h] # "idle" /\ handlerOp[h] \in {"start", "stop"}
      /\ cfg \in [Rooms -> {"absent", "idle", "listening"}]
      /\ lives \in [Rooms \X Reg!Keys -> Known \cup {0}]
      /\ listeners \in [Rooms \X Reg!Keys -> Known \cup {0}]
      /\ \A p \in Rooms \X Reg!Keys : (lives[p] # 0 => Reg!At(lives[p]) = p) /\
           (listeners[p] # 0 => Reg!At(listeners[p]) = p)
      /\ running \subseteq Known
  BY DEF RegIInv, RegTypes, Reg!StartListening, Reg!StopListening, Reg!SetListening, Reg!Doing
<1> DEFINE o == target[h]
           q == Reg!RoomOf(o)
<1>1. /\ o \in Known /\ q \in Rooms /\ o # 0
      /\ Reg!At(o) = <<q, Reg!Key(o)>> /\ Reg!At(o) \in Rooms \X Reg!Keys
      /\ q \notin Custom => Reg!At(o) = Url(q)
      /\ \A r \in Rooms \ {q} : Url(r) \in Rooms \X Reg!Keys /\ Url(r) # Reg!At(o)
  BY <1>0, AtWork, Places
<1> HIDE DEF o
<1>2. ASSUME Reg!StartListening(h) \/ Reg!StopListening(h), NEW l \in Labels,
             l = IF handlerOp[h] = "start" <=> Reg!HasListener(o) THEN "idle" ELSE "second"
      PROVE  RegIInv'
  <2>1. /\ Reg!To(h, l) /\ handlerPc[h] = "first"
        /\ handlerOp[h] = "start" => Reg!AddListener(o)
        /\ handlerOp[h] = "stop" => Reg!RemoveListener(o)
        /\ UNCHANGED <<cfg, made, finished, asked, initLoop, lives, cb, overlapped>>
    BY <1>0, <1>2 DEF Reg!StartListening, Reg!StopListening, Reg!Doing, o
  <2>2. /\ listeners' \in [Rooms \X Reg!Keys -> Known \cup {0}] /\ running' \subseteq Known /\ Held'
        /\ \A p \in Rooms \X Reg!Keys : listeners'[p] # 0 => Reg!At(listeners'[p]) = p
        /\ \A p \in Rooms \X Reg!Keys : p # Reg!At(o) => listeners'[p] = listeners[p]
        /\ listeners'[Reg!At(o)] # 0 <=> handlerOp[h] = "start"
    <3>1. Reg!AddListener(o) \/ Reg!RemoveListener(o)
      BY <1>0, <2>1
    <3> QED BY <1>0, <1>1, <2>1, <3>1, ManagerHolds
  <2>3. \A r \in Rooms \ {q} : listeners'[Url(r)] = listeners[Url(r)]
    BY <1>1, <2>2
  <2>4. ASSUME NEW r \in Rooms \ Custom, r = Reg!RoomOf(target[h]), target[h] \in Known,
               Midway(h, r), ~Panicked(r), Reg!At(target[h]) = Url(r)
        PROVE  IF l = "idle" THEN Settled(r)' ELSE Midway(h, r)'
    <3>0. Settled(r) /\ cfg[r] # "absent"
      BY <1>0, <2>1, <2>4 DEF Midway
    <3>1. Settled(r) /\ cfg[r] # "absent" /\ lives[Url(r)] # 0 /\ Reg!At(o) = Url(r)
      BY <2>4, <3>0 DEF Settled, o
    <3>2. listeners'[Url(r)] # 0 <=> handlerOp[h] = "start"
      BY <2>2, <3>1
    <3>3. CASE l = "idle"
      <4>1. listeners'[Url(r)] # 0 <=> listeners[Url(r)] # 0
        BY <1>2, <3>1, <3>2, <3>3 DEF Reg!HasListener
      <4> QED BY <2>1, <3>1, <3>3, <4>1 DEF Settled
    <3>4. CASE l = "second"
      <4>1. handlerOp'[h] = handlerOp[h] /\ handlerPc'[h] = "second"
        BY <1>0, <2>1, <3>4 DEF Reg!To, RegTypes
      <4> QED BY <1>0, <2>1, <3>1, <3>2, <3>4, <4>1 DEF Midway
    <3> QED BY <1>2, <3>3, <3>4
  <2> QED BY <1>0, <2>1, <2>2, <2>3, <2>4, RequestStep DEF o
<1>3. ASSUME Reg!SetListening(h)
      PROVE  RegIInv'
  <2>1. /\ Reg!To(h, "idle") /\ handlerPc[h] = "second"
        /\ cfg' = [cfg EXCEPT ![q] = IF @ = "absent" THEN @ ELSE IF handlerOp[h] = "start"
             THEN "listening" ELSE "idle"]
        /\ UNCHANGED <<made, finished, asked, initLoop, lives, listeners, running, cb, overlapped>>
    BY <1>3 DEF Reg!SetListening, o
  <2>2. /\ cfg' \in [Rooms -> {"absent", "idle", "listening"}]
        /\ \A r \in Rooms \ {q} : cfg'[r] = cfg[r]
    BY <1>0, <2>1
  <2>3. ASSUME NEW r \in Rooms \ Custom, r = Reg!RoomOf(target[h]), target[h] \in Known,
               Midway(h, r), ~Panicked(r), Reg!At(target[h]) = Url(r)
        PROVE  Settled(r)'
    <3>1. /\ cfg[r] # "absent" /\ lives[Url(r)] # 0
          /\ listeners[Url(r)] # 0 <=> handlerOp[h] = "start"
      BY <1>0, <2>1, <2>3 DEF Midway
    <3>2. cfg'[r] = IF handlerOp[h] = "start" THEN "listening" ELSE "idle"
      BY <1>0, <2>1, <2>3, <3>1 DEF o
    <3> QED BY <2>1, <3>1, <3>2 DEF Settled
  <2>4. "idle" \in Labels /\ Held'
    BY <1>0, <2>1 DEF Labels, Held, Reg!At, Reg!RoomOf, Reg!Key, Reg!FinalKey
  <2> QED BY <1>0, <2>1, <2>2, <2>3, <2>4, RequestStep DEF o
<1> QED
  <2>1. Reg!StartListening(h) \/ Reg!StopListening(h) => RegIInv'
    BY <1>2 DEF Labels
  <2> QED BY <1>3, <2>1

\* A step of an initialization: what it leaves alone of the rooms.
LEMMA InitializationStep ==
    ASSUME RegIInv, UNCHANGED <<cfg, made, Reg!requestVars>>
    PROVE  /\ \A o : Reg!RoomOf(o)' = Reg!RoomOf(o) /\ Reg!At(o)' = Reg!At(o)
           /\ Known' = Known /\ Reg!Made' = Reg!Made
           /\ \A r : Reg!Working(r)' = Reg!Working(r)
           /\ \A r, h : handlerPc'[h] = handlerPc[h] /\ handlerOp'[h] = handlerOp[h] /\
                flag'[h] = flag[h]
<1>1. \A o : Reg!RoomOf(o)' = Reg!RoomOf(o) /\ Reg!At(o)' = Reg!At(o)
  BY DEF Reg!RoomOf, Reg!At, Reg!Key, Reg!FinalKey
<1>2. Known' = Known /\ Reg!Made' = Reg!Made
  BY DEF Known, Reg!Made, Reg!Real
<1>3. \A r : Reg!Working(r)' = Reg!Working(r)
  BY <1>1 DEF Reg!Working, Reg!requestVars, Reg!RoomOf
<1> QED BY <1>1, <1>2, <1>3 DEF Reg!requestVars

\* The platform of an object is asked and answers.
LEMMA Asking ==
    ASSUME RegIInv, NEW i \in Reg!Made, Reg!Ask(i) \/ Reg!AnswerFails(i) \/ Reg!Answer(i)
    PROVE  RegIInv'
<1>1. /\ UNCHANGED <<cfg, made, Reg!requestVars>>
      /\ UNCHANGED <<lives, listeners, running, overlapped>>
      /\ RegTypes /\ Held /\ i \in 1..Objects
  BY Places DEF Reg!Ask, Reg!AnswerFails, Reg!Answer, RegIInv
<1>2. /\ \A o : Reg!RoomOf(o)' = Reg!RoomOf(o) /\ Reg!At(o)' = Reg!At(o)
      /\ Known' = Known /\ Reg!Made' = Reg!Made
      /\ \A r : Reg!Working(r)' = Reg!Working(r)
      /\ \A h : handlerPc'[h] = handlerPc[h] /\ handlerOp'[h] = handlerOp[h] /\ flag'[h] = flag[h]
  BY <1>1, InitializationStep
<1>3. /\ \A j \in 1..Objects : cb'[j] = cb[j] \/ (j = i /\ cb[i] = "no" /\ cb'[i] = "replace")
      /\ cb' \in [1..Objects -> {"no", "replace", "config", "listen", "done", "panicked"}]
      /\ \A j \in 1..Objects : cb'[j] # "no" => j \in finished'
      /\ finished' \subseteq Reg!Made /\ asked' \subseteq Reg!Made /\ asked' \cap finished' = {}
  <2>1. CASE Reg!Ask(i) \/ Reg!AnswerFails(i)
    <3>1. /\ UNCHANGED <<cb, finished>>
          /\ asked' = asked \ {i} \/ (i \notin finished /\ asked' = asked \cup {i})
      BY <2>1 DEF Reg!Ask, Reg!AnswerFails
    <3>2. \A j \in 1..Objects : cb'[j] = cb[j]
      BY <3>1
    <3>3. /\ cb \in [1..Objects -> {"no", "replace", "config", "listen", "done", "panicked"}]
          /\ \A j \in 1..Objects : cb[j] # "no" => j \in finished
          /\ finished \subseteq Reg!Made /\ asked \subseteq Reg!Made /\ asked \cap finished = {}
      BY <1>1 DEF RegTypes
    <3>4. asked' \subseteq Reg!Made /\ asked' \cap finished = {}
      BY <3>1, <3>3
    <3> QED BY <3>1, <3>2, <3>3, <3>4
  <2>2. CASE Reg!Answer(i)
    <3>1. /\ i \in asked /\ asked' = asked \ {i} /\ finished' = finished \cup {i}
          /\ cb' = [cb EXCEPT ![i] = "replace"]
      BY <2>2 DEF Reg!Answer
    <3>2. i \notin finished /\ cb[i] = "no"
      BY <1>1, <3>1 DEF RegTypes
    <3> QED BY <1>1, <3>1, <3>2 DEF RegTypes
  <2> QED BY <2>1, <2>2
<1>4. RegTypes'
  BY <1>1, <1>2, <1>3 DEF RegTypes, Reg!requestVars
<1>5. Held'
  BY <1>1, <1>2 DEF Held
<1>6. \A r : (Panicked(r) => Panicked(r)') /\ (Late(r) => Late(r)')
  BY <1>1, <1>2, <1>3, Places DEF Panicked, Late
<1>7. ASSUME NEW r \in Rooms \ (Custom \cup overlapped)
      PROVE  RoomOK(r)'
  BY <1>1, <1>2, <1>6, RoomStays DEF RegIInv
<1> QED BY <1>1, <1>4, <1>5, <1>7 DEF RegIInv

\* The handler of RoomInitializingFinished puts the real object in the place of the other.
LEMMA Replacing ==
    ASSUME RegIInv, NEW i \in Reg!Made, Reg!ReplaceKey(i)
    PROVE  RegIInv'
<1>1. /\ UNCHANGED <<cfg, made, Reg!requestVars>>
      /\ UNCHANGED <<finished, asked, listeners, running>>
      /\ cb[i] = "replace" /\ cb' = [cb EXCEPT ![i] = "config"]
      /\ lives' = [[lives EXCEPT ![Reg!At(i)] = 0] EXCEPT ![Reg!At(Reg!Real(i))] = Reg!Real(i)]
      /\ overlapped' = overlapped \cup {r \in Rooms : r = Reg!RoomOf(i) /\
           \E h \in Reg!Working(r) : handlerOp[h] = "remove"}
      /\ RegTypes /\ Held /\ i \in 1..Objects
  BY Places DEF Reg!ReplaceKey, RegIInv
<1>2. /\ \A o : Reg!RoomOf(o)' = Reg!RoomOf(o) /\ Reg!At(o)' = Reg!At(o)
      /\ Known' = Known /\ Reg!Made' = Reg!Made
      /\ \A r : Reg!Working(r)' = Reg!Working(r)
      /\ \A h : handlerPc'[h] = handlerPc[h] /\ handlerOp'[h] = handlerOp[h] /\ flag'[h] = flag[h]
  BY <1>1, InitializationStep
<1>3. /\ Reg!RoomOf(i) \in Rooms /\ Reg!At(i) = Url(Reg!RoomOf(i)) /\ made[i] = Reg!RoomOf(i)
      /\ Reg!Real(i) \in Known /\ Reg!Real(i) # 0
      /\ Reg!At(i) \in Rooms \X Reg!Keys /\ Reg!At(Reg!Real(i)) \in Rooms \X Reg!Keys
      /\ Reg!RoomOf(i) \notin Custom => Reg!At(Reg!Real(i)) = Url(Reg!RoomOf(i))
      /\ \A r \in Rooms \ {Reg!RoomOf(i)} : Url(r) # Reg!At(i) /\ Url(r) # Reg!At(Reg!Real(i)) /\
           Url(r) \in Rooms \X Reg!Keys
  <2>1. /\ Reg!RoomOf(i) \in Rooms /\ Reg!At(i) = Url(Reg!RoomOf(i)) /\ made[i] = Reg!RoomOf(i)
        /\ Reg!Real(i) \in Known /\ Reg!Real(i) # 0 /\ i \in Known
        /\ Reg!At(Reg!Real(i)) = <<made[i], Reg!FinalKey(made[i])>>
    BY <1>1, Places
  <2>2. /\ Reg!RoomOf(i) \notin Custom => Reg!At(Reg!Real(i)) = Url(Reg!RoomOf(i))
        /\ Reg!At(i) \in Rooms \X Reg!Keys /\ Reg!At(Reg!Real(i)) \in Rooms \X Reg!Keys
    BY <2>1 DEF Reg!FinalKey, Url, Reg!Keys
  <2>3. \A r \in Rooms \ {Reg!RoomOf(i)} : Url(r) # Reg!At(i) /\ Url(r) # Reg!At(Reg!Real(i)) /\
          Url(r) \in Rooms \X Reg!Keys
    BY <2>1 DEF Url, Reg!Keys
  <2> QED BY <2>1, <2>2, <2>3
<1>4. cb \in [1..Objects -> {"no", "replace", "config", "listen", "done", "panicked"}]
  BY <1>1 DEF RegTypes
<1>5. /\ cb' \in [1..Objects -> {"no", "replace", "config", "listen", "done", "panicked"}]
      /\ cb'[i] = "config" /\ \A j \in 1..Objects : j # i => cb'[j] = cb[j]
  BY <1>1, <1>4
<1>6. \A p \in Rooms \X Reg!Keys : lives'[p] = IF p = Reg!At(Reg!Real(i)) THEN Reg!Real(i)
        ELSE IF p = Reg!At(i) THEN 0 ELSE lives[p]
  BY <1>1, <1>3 DEF RegTypes
<1>7. lives' \in [Rooms \X Reg!Keys -> Known \cup {0}]
  BY <1>1, <1>3 DEF RegTypes
<1>8. RegTypes'
  <2>1. \A p \in Rooms \X Reg!Keys : lives'[p] # 0 => Reg!At(lives'[p]) = p
    BY <1>1, <1>6 DEF RegTypes
  <2>2. \A p \in Rooms \X Reg!Keys : (lives'[p] # 0 => Reg!At(lives[p])' = p) /\
          (listeners'[p] # 0 => Reg!At(listeners[p])' = p)
    <3>1. \A p \in Rooms \X Reg!Keys : listeners'[p] # 0 => Reg!At(listeners'[p]) = p
      BY <1>1 DEF RegTypes
    <3> QED BY <1>1, <2>1, <3>1 DEF Reg!At, Reg!RoomOf, Reg!Key, Reg!FinalKey
  <2> QED BY <1>1, <1>2, <1>4, <1>5, <1>7, <2>2 DEF RegTypes, Reg!requestVars
<1>9. Held'
  BY <1>1, <1>2 DEF Held
<1>10. \A r : (Panicked(r) <=> Panicked(r)') /\ (Late(r) => Late(r)')
  BY <1>1, <1>2, <1>5, Places DEF Panicked, Late
<1>11. ASSUME NEW r \in Rooms \ (Custom \cup overlapped), r # Reg!RoomOf(i)
       PROVE  RoomOK(r)'
  <2>1. lives'[Url(r)] = lives[Url(r)]
    BY <1>3, <1>6, <1>11
  <2> QED BY <1>1, <1>2, <1>10, <2>1, RoomStays DEF RegIInv
<1>12. ASSUME NEW r \in Rooms \ (Custom \cup overlapped'), r = Reg!RoomOf(i)
       PROVE  RoomOK(r)'
  <2>1. RoomOK(r) /\ \A h \in Reg!Working(r) : handlerOp[h] # "remove" /\ h \in Callers
    BY <1>1, <1>12 DEF RegIInv, Reg!Working
  <2>2. lives'[Url(r)] # 0
    BY <1>3, <1>6, <1>12
  <2>3. Late(r)'
    BY <1>2, <1>3, <1>5, <1>12, <1>1 DEF Late
  <2>4. Settled(r) => Settled(r)'
    BY <1>1, <2>2, <2>3 DEF Settled
  <2>5. ASSUME NEW h \in Reg!Working(r), Midway(h, r)
        PROVE  Midway(h, r)'
    BY <1>1, <1>2, <2>1, <2>2, <2>4, <2>5 DEF Midway
  <2> QED BY <1>2, <1>10, <2>1, <2>4, <2>5 DEF RoomOK
<1> QED
  <2>1. \A r \in Rooms \ (Custom \cup overlapped') : r \in Rooms \ (Custom \cup overlapped)
    BY <1>1
  <2> QED BY <1>8, <1>9, <1>11, <1>12, <2>1 DEF RegIInv

\* The handler looks the room up in the configuration, and panics when it is gone.
LEMMA LookingUp ==
    ASSUME RegIInv, NEW i \in Reg!Made, Reg!LookUpRoom(i)
    PROVE  RegIInv'
<1>1. /\ UNCHANGED <<cfg, made, Reg!requestVars>>
      /\ UNCHANGED <<finished, asked, lives, listeners, running, overlapped>>
      /\ cb[i] = "config" /\ RegTypes /\ Held /\ i \in 1..Objects
      /\ cb' = [cb EXCEPT ![i] = CASE cfg[Reg!RoomOf(i)] = "absent"    -> "panicked"
                                   [] cfg[Reg!RoomOf(i)] = "listening" -> "listen"
                                   [] OTHER           -> "done"]
  BY Places DEF Reg!LookUpRoom, RegIInv
<1>2. /\ \A o : Reg!RoomOf(o)' = Reg!RoomOf(o) /\ Reg!At(o)' = Reg!At(o)
      /\ Known' = Known /\ Reg!Made' = Reg!Made
      /\ \A r : Reg!Working(r)' = Reg!Working(r)
      /\ \A h : handlerPc'[h] = handlerPc[h] /\ handlerOp'[h] = handlerOp[h] /\ flag'[h] = flag[h]
  BY <1>1, InitializationStep
<1>3. made[i] = Reg!RoomOf(i) /\ Reg!RoomOf(i) \in Rooms
  BY <1>1, Places
<1>4. cb \in [1..Objects -> {"no", "replace", "config", "listen", "done", "panicked"}]
  BY <1>1 DEF RegTypes
<1>5. /\ cb' \in [1..Objects -> {"no", "replace", "config", "listen", "done", "panicked"}]
      /\ \A j \in 1..Objects : j # i => cb'[j] = cb[j]
      /\ cfg[Reg!RoomOf(i)] = "absent" => cb'[i] = "panicked"
      /\ cfg[Reg!RoomOf(i)] # "absent" => cb'[i] \in {"listen", "done"}
  <2>1. PICK c \in {"panicked", "listen", "done"} :
           /\ cb' = [cb EXCEPT ![i] = c]
           /\ cfg[Reg!RoomOf(i)] = "absent" => c = "panicked"
           /\ cfg[Reg!RoomOf(i)] # "absent" => c \in {"listen", "done"}
    BY <1>1
  <2> QED BY <1>1, <1>4, <2>1
<1>6. RegTypes'
  BY <1>1, <1>2, <1>4, <1>5 DEF RegTypes, Reg!requestVars
<1>7. Held'
  BY <1>1, <1>2 DEF Held
<1>8. \A r : r # Reg!RoomOf(i) => (Panicked(r) <=> Panicked(r)') /\ (Late(r) <=> Late(r)')
  BY <1>1, <1>2, <1>3, <1>5, Places DEF Panicked, Late
<1>9. ASSUME NEW r \in Rooms \ (Custom \cup overlapped)
      PROVE  RoomOK(r)'
  <2>1. RoomOK(r)
    BY DEF RegIInv
  <2>2. CASE r # Reg!RoomOf(i)
    BY <1>1, <1>2, <1>8, <2>1, <2>2, RoomStays
  <2>3. CASE r = Reg!RoomOf(i) /\ cfg[r] = "absent"
    <3>1. Panicked(r)'
      BY <1>1, <1>2, <1>3, <1>5, <2>3 DEF Panicked
    <3> QED BY <1>2, <2>1, <3>1 DEF RoomOK
  <2>4. CASE r = Reg!RoomOf(i) /\ cfg[r] # "absent"
    <3>1. Panicked(r)' <=> Panicked(r)
      BY <1>1, <1>2, <1>3, <1>5, <2>4, Places DEF Panicked
    <3>2. Settled(r) => Settled(r)'
      BY <1>1, <2>4 DEF Settled
    <3>3. ASSUME NEW h \in Reg!Working(r), Midway(h, r)
          PROVE  Midway(h, r)'
      BY <1>1, <1>2, <3>2, <3>3 DEF Midway
    <3> QED BY <1>2, <2>1, <3>1, <3>2, <3>3 DEF RoomOK
  <2> QED BY <2>2, <2>3, <2>4
<1> QED BY <1>1, <1>6, <1>7, <1>9 DEF RegIInv

\* The handler turns the listener over to the real object.
LEMMA Relistening ==
    ASSUME RegIInv, NEW i \in Reg!Made, Reg!Relisten(i)
    PROVE  RegIInv'
<1>1. /\ UNCHANGED <<cfg, made, Reg!requestVars>>
      /\ UNCHANGED <<finished, asked, lives, overlapped>>
      /\ cb[i] = "listen" /\ cb' = [cb EXCEPT ![i] = "done"] /\ Reg!ReplaceListener(i)
      /\ RegTypes /\ Held /\ i \in 1..Objects
  BY Places DEF Reg!Relisten, RegIInv
<1>2. /\ \A o : Reg!RoomOf(o)' = Reg!RoomOf(o) /\ Reg!At(o)' = Reg!At(o)
      /\ Known' = Known /\ Reg!Made' = Reg!Made
      /\ \A r : Reg!Working(r)' = Reg!Working(r)
      /\ \A h : handlerPc'[h] = handlerPc[h] /\ handlerOp'[h] = handlerOp[h] /\ flag'[h] = flag[h]
  BY <1>1, InitializationStep
<1>3. /\ Reg!RoomOf(i) \in Rooms /\ Reg!At(i) = Url(Reg!RoomOf(i)) /\ made[i] = Reg!RoomOf(i)
      /\ Reg!Real(i) \in Known /\ Reg!Real(i) # 0 /\ Reg!RoomOf(Reg!Real(i)) = Reg!RoomOf(i)
      /\ Reg!At(i) \in Rooms \X Reg!Keys /\ Reg!At(Reg!Real(i)) \in Rooms \X Reg!Keys
      /\ Reg!At(Reg!Real(i))[1] = Reg!RoomOf(i)
      /\ Reg!RoomOf(i) \notin Custom => Reg!At(Reg!Real(i)) = Url(Reg!RoomOf(i))
      /\ \A r \in Rooms \ {Reg!RoomOf(i)} : Url(r) # Reg!At(i) /\ Url(r) # Reg!At(Reg!Real(i)) /\
           Url(r) \in Rooms \X Reg!Keys
  <2>1. /\ Reg!RoomOf(i) \in Rooms /\ Reg!At(i) = Url(Reg!RoomOf(i)) /\ made[i] = Reg!RoomOf(i)
        /\ Reg!Real(i) \in Known /\ Reg!Real(i) # 0 /\ i \in Known
        /\ Reg!RoomOf(Reg!Real(i)) = Reg!RoomOf(i)
        /\ Reg!At(Reg!Real(i)) = <<made[i], Reg!FinalKey(made[i])>>
    BY <1>1, Places
  <2>2. /\ Reg!RoomOf(i) \notin Custom => Reg!At(Reg!Real(i)) = Url(Reg!RoomOf(i))
        /\ Reg!At(i) \in Rooms \X Reg!Keys /\ Reg!At(Reg!Real(i)) \in Rooms \X Reg!Keys
    BY <2>1 DEF Reg!FinalKey, Url, Reg!Keys
  <2>3. \A r \in Rooms \ {Reg!RoomOf(i)} : Url(r) # Reg!At(i) /\ Url(r) # Reg!At(Reg!Real(i)) /\
          Url(r) \in Rooms \X Reg!Keys
    BY <2>1 DEF Url, Reg!Keys
  <2> QED BY <2>1, <2>2, <2>3
<1>4. /\ cb' \in [1..Objects -> {"no", "replace", "config", "listen", "done", "panicked"}]
      /\ \A j \in 1..Objects : cb'[j] # "no" => j \in finished'
  BY <1>1 DEF RegTypes
<1>5. \A r : (Panicked(r) <=> Panicked(r)') /\ (Late(r) <=> Late(r)')
  <2>1. \A j \in 1..Objects : cb'[j] = cb[j] \/ (j = i /\ cb[j] = "listen" /\ cb'[j] = "done")
    BY <1>1 DEF RegTypes
  <2> QED BY <1>1, <1>2, <2>1, Places DEF Panicked, Late
<1>6. CASE ~Reg!HasListener(i)
  <2>1. UNCHANGED <<listeners, running>>
    BY <1>1, <1>6 DEF Reg!ReplaceListener
  <2>2. RegTypes' /\ Held'
    <3>1. \A p \in Rooms \X Reg!Keys : (lives'[p] # 0 => Reg!At(lives[p])' = p) /\
            (listeners'[p] # 0 => Reg!At(listeners[p])' = p)
      BY <1>1, <2>1 DEF RegTypes, Reg!At, Reg!RoomOf, Reg!Key, Reg!FinalKey
    <3> QED BY <1>1, <1>2, <1>4, <2>1, <3>1 DEF RegTypes, Held, Reg!requestVars
  <2>3. ASSUME NEW r \in Rooms \ (Custom \cup overlapped)
        PROVE  RoomOK(r)'
    BY <1>1, <1>2, <1>5, <2>1, RoomStays DEF RegIInv
  <2> QED BY <1>1, <2>2, <2>3 DEF RegIInv
<1>7. CASE Reg!HasListener(i)
  <2>1. /\ listeners' = [[listeners EXCEPT ![Reg!At(i)] = 0] EXCEPT ![Reg!At(Reg!Real(i))] =
             Reg!Real(i)]
        /\ running' = (running \ {listeners[Reg!At(i)]}) \cup {Reg!Real(i)}
        /\ listeners[Reg!At(i)] # 0
    BY <1>1, <1>7 DEF Reg!ReplaceListener, Reg!HasListener
  <2>2. /\ listeners' \in [Rooms \X Reg!Keys -> Known \cup {0}]
        /\ \A p \in Rooms \X Reg!Keys : listeners'[p] = IF p = Reg!At(Reg!Real(i))
             THEN Reg!Real(i) ELSE IF p = Reg!At(i) THEN 0 ELSE listeners[p]
    BY <1>1, <1>3, <2>1 DEF RegTypes
  <2>3. \A p \in Rooms \X Reg!Keys : listeners'[p] # 0 => Reg!At(listeners'[p]) = p
    BY <1>1, <2>2 DEF RegTypes
  <2>4. RegTypes'
    <3>1. \A p \in Rooms \X Reg!Keys : (lives'[p] # 0 => Reg!At(lives[p])' = p) /\
            (listeners'[p] # 0 => Reg!At(listeners[p])' = p)
      BY <1>1, <2>3 DEF RegTypes, Reg!At, Reg!RoomOf, Reg!Key, Reg!FinalKey
    <3>2. running' \subseteq Known
      BY <1>1, <1>3, <2>1 DEF RegTypes
    <3> QED BY <1>1, <1>2, <1>4, <2>2, <3>1, <3>2 DEF RegTypes, Reg!requestVars
  <2>5. ASSUME NEW o \in running', Reg!RoomOf(o) \notin Custom
        PROVE  listeners'[Reg!At(o)] = o
    <3>1. CASE o = Reg!Real(i)
      BY <1>3, <2>2, <3>1
    <3>2. CASE o \in running /\ o # listeners[Reg!At(i)]
      <4>1. /\ o \in Known /\ listeners[Reg!At(o)] = o /\ Reg!At(o) = Url(Reg!RoomOf(o))
            /\ Reg!At(o) \in Rooms \X Reg!Keys /\ Reg!RoomOf(o) \in Rooms
        BY <1>1, <2>5, <3>2, Places DEF RegTypes, Held
      <4>2. Reg!RoomOf(o) # Reg!RoomOf(i)
        BY <1>3, <3>2, <4>1
      <4> QED BY <1>3, <2>2, <4>1, <4>2
    <3> QED BY <2>1, <2>5, <3>1, <3>2
  <2>6. Held'
    BY <1>2, <2>5 DEF Held
  <2>7. ASSUME NEW r \in Rooms \ (Custom \cup overlapped)
        PROVE  RoomOK(r)'
    <3>1. listeners'[Url(r)] # 0 <=> listeners[Url(r)] # 0
      BY <1>3, <2>1, <2>2
    <3> QED BY <1>1, <1>2, <1>5, <3>1, RoomStays DEF RegIInv
  <2> QED BY <1>1, <2>4, <2>6, <2>7 DEF RegIInv
<1> QED BY <1>6, <1>7

\* At the start-up every configured room has one object, and no room has two.
LEMMA RegInit == ASSUME Reg!Init PROVE RegIInv
<1> DEFINE there == {r \in Rooms : cfg[r] # "absent"}
           n == Cardinality(there)
<1>0. cfg \in [Rooms -> {"absent", "idle", "listening"}]
  BY DEF Reg!Init
<1>1. /\ made \in [1..n -> there] /\ {made[i] : i \in Reg!Made} = there
      /\ lives = [p \in Rooms \X Reg!Keys |-> IF p[1] \in there /\ p[2] = "url"
           THEN CHOOSE i \in Reg!Made : made[i] = p[1] ELSE 0]
      /\ running = {i \in Reg!Made : cfg[made[i]] = "listening"}
      /\ listeners = [p \in Rooms \X Reg!Keys |-> IF lives[p] \in running THEN lives[p] ELSE 0]
  BY SameRegistrySize DEF Reg!Init
<1>2. /\ finished = {} /\ asked = {} /\ cb = [i \in 1..Objects |-> "no"]
      /\ handlerPc = [h \in Callers |-> "idle"] /\ handlerOp = [h \in Callers |-> "add"]
      /\ target = [h \in Callers |-> 0] /\ flag = [h \in Callers |-> {}]
  BY DEF Reg!Init
<1>3. IsFiniteSet(there) /\ n \in Nat /\ n <= Objects /\ Objects \in Nat
  <2>1. /\ there \in SUBSET Rooms /\ IsFiniteSet(Rooms) /\ Cardinality(Rooms) <= Objects
        /\ Objects \in Nat
    BY RegistrySizes
  <2>2. IsFiniteSet(there) /\ Cardinality(there) <= Cardinality(Rooms)
    BY <2>1, FS_Subset
  <2>3. Cardinality(there) \in Nat /\ Cardinality(Rooms) \in Nat
    BY <2>1, <2>2, FS_CardinalityType
  <2> QED BY <2>1, <2>2, <2>3
<1>4. IsFiniteSet(1..n) /\ Cardinality(1..n) = n
  BY <1>3, FS_Interval
<1> HIDE DEF there, n
<1>5. made \in Seq(Rooms) /\ Len(made) = n /\ Reg!Made = 1..n
  <2>1. made \in [1..n -> Rooms]
    BY <1>1 DEF there
  <2>2. made \in Seq(Rooms)
    BY <1>3, <2>1
  <2> QED BY <1>1, <1>3, <2>2 DEF Reg!Made
<1>6. \A i, j \in Reg!Made : made[i] = made[j] => i = j
  <2>1. made \in Surjection(1..n, there)
    <3>1. \A r \in there : \E i \in 1..n : made[i] = r
      BY <1>1, <1>5
    <3> QED BY <1>1, <3>1 DEF Surjection
  <2>2. made \in Injection(1..n, there)
    <3>1. Cardinality(1..n) = Cardinality(there)
      BY <1>4 DEF n
    <3> QED BY <1>4, <2>1, <3>1, FS_SurjSameCardinalityImpliesInj
  <2> QED BY <2>2, <1>1, <1>5 DEF Injection, IsInjective
<1>7. \A i \in Reg!Made :
         /\ i \in Nat /\ i # 0 /\ ~(i > Objects) /\ Reg!RoomOf(i) = made[i] /\ made[i] \in there
         /\ Reg!At(i) = Url(made[i]) /\ made[i] \in Rooms
  <2>1. SUFFICES ASSUME NEW i \in Reg!Made
                 PROVE  /\ i \in Nat /\ i # 0 /\ ~(i > Objects) /\ Reg!RoomOf(i) = made[i]
                        /\ made[i] \in there
                        /\ Reg!At(i) = Url(made[i]) /\ made[i] \in Rooms
    OBVIOUS
  <2>2. i \in Nat /\ i # 0 /\ ~(i > Objects)
    BY <1>3, <1>5
  <2>3. Reg!RoomOf(i) = made[i] /\ made[i] \in there
    BY <1>1, <1>5, <2>2 DEF Reg!RoomOf
  <2> QED BY <2>2, <2>3 DEF Reg!At, Reg!Key, Url, there
<1>8. \A r \in Rooms : lives[Url(r)] = IF r \in there THEN CHOOSE i \in Reg!Made : made[i] = r
        ELSE 0
  <2>1. SUFFICES ASSUME NEW r \in Rooms
                 PROVE  lives[Url(r)] = IF r \in there THEN CHOOSE i \in Reg!Made : made[i] = r
                          ELSE 0
    OBVIOUS
  <2>2. Url(r) \in Rooms \X Reg!Keys /\ Url(r)[1] = r /\ Url(r)[2] = "url"
    BY DEF Url, Reg!Keys
  <2>3. lives[Url(r)] = IF Url(r)[1] \in there /\ Url(r)[2] = "url"
          THEN CHOOSE i \in Reg!Made : made[i] = Url(r)[1] ELSE 0
    BY <1>1, <2>2
  <2>4. (CHOOSE i \in Reg!Made : made[i] = Url(r)[1]) = (CHOOSE i \in Reg!Made : made[i] = r)
    BY <2>2
  <2> HIDE DEF Reg!Made
  <2> QED BY <2>2, <2>3, <2>4
<1>9. \A r \in there : lives[Url(r)] \in Reg!Made /\ made[lives[Url(r)]] = r
  <2>1. SUFFICES ASSUME NEW r \in there PROVE lives[Url(r)] \in Reg!Made /\ made[lives[Url(r)]] = r
    OBVIOUS
  <2>2. \E i \in Reg!Made : made[i] = r
    BY <1>1
  <2> QED BY <1>8, <2>2 DEF there
<1>10. \A p \in Rooms \X Reg!Keys : lives[p] # 0 => p[1] \in there /\ p = Url(p[1]) /\
         lives[p] \in Reg!Made /\ made[lives[p]] = p[1]
  <2>1. SUFFICES ASSUME NEW p \in Rooms \X Reg!Keys, lives[p] # 0
                 PROVE  /\ p[1] \in there /\ p = Url(p[1]) /\ lives[p] \in Reg!Made
                        /\ made[lives[p]] = p[1]
    OBVIOUS
  <2>2. p[1] \in there /\ p[2] = "url"
    BY <1>1, <2>1
  <2>3. p = Url(p[1])
    BY <2>2 DEF Url
  <2> QED BY <1>9, <2>2, <2>3
<1>11. \A p \in Rooms \X Reg!Keys : listeners[p] = IF lives[p] \in running THEN lives[p] ELSE 0
  BY <1>1
<1>12. RegTypes
  <2>1. /\ lives \in [Rooms \X Reg!Keys -> Known \cup {0}]
        /\ listeners \in [Rooms \X Reg!Keys -> Known \cup {0}]
    <3>1. \A p \in Rooms \X Reg!Keys : lives[p] \in Known \cup {0}
      BY <1>10 DEF Known
    <3>2. \A p \in Rooms \X Reg!Keys : listeners[p] \in Known \cup {0}
      BY <1>11, <3>1
    <3> QED BY <1>1, <3>1, <3>2
  <2>2. \A p \in Rooms \X Reg!Keys : (lives[p] # 0 => Reg!At(lives[p]) = p) /\
          (listeners[p] # 0 => Reg!At(listeners[p]) = p)
    BY <1>7, <1>10, <1>11
  <2>3. running \subseteq Known
    BY <1>1 DEF Known
  <2> QED BY <1>0, <1>2, <1>3, <1>5, <2>1, <2>2, <2>3 DEF RegTypes, Labels
<1>13. Held
  <2>1. SUFFICES ASSUME NEW i \in running PROVE listeners[Reg!At(i)] = i
    BY DEF Held
  <2>2. i \in Reg!Made /\ Reg!At(i) = Url(made[i]) /\ made[i] \in there /\ made[i] \in Rooms
    BY <1>1, <1>7
  <2>3. lives[Reg!At(i)] = i
    BY <1>6, <1>9, <2>2
  <2>4. Reg!At(i) \in Rooms \X Reg!Keys
    BY <2>2 DEF Url, Reg!Keys
  <2> QED BY <1>11, <2>3, <2>4
<1>14. ASSUME NEW r \in Rooms PROVE RoomOK(r)
  <2>1. Reg!Working(r) = {}
    BY <1>2 DEF Reg!Working
  <2>2. cfg[r] # "absent" <=> r \in there
    BY DEF there
  <2>3. r \in there => lives[Url(r)] \in Reg!Made /\ made[lives[Url(r)]] = r /\ lives[Url(r)] # 0
    BY <1>7, <1>9
  <2>4. r \notin there => lives[Url(r)] = 0
    BY <1>8
  <2>5. listeners[Url(r)] = IF lives[Url(r)] \in running THEN lives[Url(r)] ELSE 0
    BY <1>11 DEF Url, Reg!Keys
  <2>6. listeners[Url(r)] # 0 <=> cfg[r] = "listening"
    <3>1. 0 \notin running
      BY <1>1, <1>7
    <3> QED BY <1>1, <2>2, <2>3, <2>4, <2>5, <3>1
  <2> QED BY <2>1, <2>2, <2>3, <2>4, <2>6 DEF RoomOK, Settled
<1> QED BY <1>12, <1>13, <1>14 DEF RegIInv

LEMMA RegStep == ASSUME RegIInv, [Reg!Next]_(Reg!registryVars) PROVE RegIInv'
<1>1. CASE UNCHANGED Reg!registryVars
  <2>1. /\ UNCHANGED <<cfg, made, Reg!requestVars>>
        /\ UNCHANGED <<finished, asked, lives, listeners, running, cb, overlapped>>
    BY <1>1 DEF Reg!registryVars
  <2>2. /\ \A o : Reg!RoomOf(o)' = Reg!RoomOf(o) /\ Reg!At(o)' = Reg!At(o)
        /\ Known' = Known /\ Reg!Made' = Reg!Made
        /\ \A r : Reg!Working(r)' = Reg!Working(r)
        /\ \A r, h : handlerPc'[h] = handlerPc[h] /\ handlerOp'[h] = handlerOp[h] /\
             flag'[h] = flag[h]
    BY <2>1, InitializationStep
  <2>3. RegTypes' /\ Held'
    <3>1. \A p \in Rooms \X Reg!Keys : (lives'[p] # 0 => Reg!At(lives[p])' = p) /\
            (listeners'[p] # 0 => Reg!At(listeners[p])' = p)
      BY <2>1 DEF RegTypes, Reg!At, Reg!RoomOf, Reg!Key, Reg!FinalKey, RegIInv
    <3> QED BY <2>1, <2>2, <3>1 DEF RegTypes, Held, RegIInv, Reg!requestVars
  <2>4. \A r : (Panicked(r) <=> Panicked(r)') /\ (Late(r) <=> Late(r)')
    BY <2>1, <2>2 DEF Panicked, Late
  <2>5. ASSUME NEW r \in Rooms \ (Custom \cup overlapped)
        PROVE  RoomOK(r)'
    BY <2>1, <2>2, <2>4, RoomStays DEF RegIInv
  <2> QED BY <2>1, <2>3, <2>5 DEF RegIInv
<1>2. CASE Reg!Next
  <2>1. ASSUME NEW i \in Reg!Made, Reg!Ask(i) \/ Reg!AnswerFails(i) \/ Reg!Answer(i) \/
          Reg!ReplaceKey(i) \/ Reg!LookUpRoom(i) \/ Reg!Relisten(i)
        PROVE  RegIInv'
    BY <2>1, Asking, Replacing, LookingUp, Relistening
  <2>2. ASSUME NEW h \in Callers,
               \/ \E r \in Rooms : Reg!AskAdd(h, r)
               \/ \E p \in Rooms \X Reg!Keys, name \in {"remove", "start", "stop"} :
                    Reg!AskOther(h, p, name)
        PROVE  RegIInv'
    BY <2>2, Begins
  <2>3. ASSUME NEW h \in Callers,
               \/ Reg!SetIfAbsent(h) \/ Reg!AddListens(h) \/ Reg!AppendLiveRoom(h)
               \/ Reg!RemoveListens(h) \/ Reg!RemoveLive(h) \/ Reg!RemoveLiveRoomByUrl(h)
               \/ Reg!StartListening(h) \/ Reg!StopListening(h) \/ Reg!SetListening(h)
        PROVE  RegIInv'
    BY <2>3, AddSteps, RemoveSteps, ListeningSteps
  <2> QED BY <1>2, <2>1, <2>2, <2>3 DEF Reg!Next
<1> QED BY <1>1, <1>2

\* The invariant is what the property says of rooms at rest.
LEMMA Agreement == ASSUME RegIInv PROVE Reg!NoLostListener /\ Reg!RoomsAgree
<1>1. Reg!NoLostListener
  BY DEF Reg!NoLostListener, RegIInv, Held
<1>2. ASSUME \A h \in Callers : handlerPc[h] = "idle", \A i \in Reg!Made :
        cb[i] \in {"no", "done", "panicked"},
             NEW r \in Rooms \ (Custom \cup overlapped), \A i \in Reg!Made : made[i] = r =>
               cb[i] # "panicked"
      PROVE  /\ lives[<<r, "url">>] # 0 <=> cfg[r] # "absent"
             /\ listeners[<<r, "url">>] # 0 <=> cfg[r] = "listening"
  <2>1. ~Panicked(r) /\ ~Late(r) /\ Reg!Working(r) = {}
    BY <1>2 DEF Panicked, Late, Reg!Working
  <2>2. Settled(r)
    BY <2>1 DEF RegIInv, RoomOK
  <2> QED BY <2>1, <2>2 DEF Settled, Url
<1> QED BY <1>1, <1>2 DEF Reg!RoomsAgree

------------------------------------------------------------------------------
(* The files of a task *)

Suffixes == Exec!VideoExts \cup {"ass", "jpg"}
AnyFile == [base : Recordings \X {0, 1, 2}, ext : Suffixes, tag : {"", "tmp", "bak"}]
Named == {f \in AnyFile : f.tag = ""}

\* A tag changes neither what a file holds nor whether it is a video.
LEMMA Tags ==
    ASSUME NEW f \in AnyFile, NEW tag \in {"", "tmp", "bak"}
    PROVE  /\ Exec!Tagged(f, tag) \in AnyFile
           /\ Exec!Tagged(f, tag).base = f.base /\ Exec!Tagged(f, tag).ext = f.ext
           /\ Exec!Tagged(f, tag).tag = tag
           /\ Exec!Covers(Exec!Tagged(f, tag)) = Exec!Covers(f)
           /\ Exec!IsVideo(Exec!Tagged(f, tag)) <=> Exec!IsVideo(f)
<1>1. /\ Exec!Tagged(f, tag) \in AnyFile
      /\ Exec!Tagged(f, tag).base = f.base /\ Exec!Tagged(f, tag).ext = f.ext
      /\ Exec!Tagged(f, tag).tag = tag
  BY DEF Exec!Tagged, AnyFile
<1> QED BY <1>1 DEF Exec!Covers, Exec!IsVideo

\* What a file holds depends on its base name only.
LEMMA SameBase ==
    ASSUME NEW f, NEW g, f.base = g.base
    PROVE  Exec!Covers(f) = Exec!Covers(g)
BY DEF Exec!Covers

\* A file without a tag.
LEMMA FileNamed ==
    ASSUME NEW b \in Recordings \X {0, 1, 2}, NEW e \in Suffixes
    PROVE  /\ Exec!File(b, e) \in Named
           /\ Exec!File(b, e).base = b /\ Exec!File(b, e).ext = e /\ Exec!File(b, e).tag = ""
           /\ Exec!IsVideo(Exec!File(b, e)) <=> e \in Exec!VideoExts
<1>1. /\ Exec!File(b, e) \in Named
      /\ Exec!File(b, e).base = b /\ Exec!File(b, e).ext = e /\ Exec!File(b, e).tag = ""
  BY DEF Exec!File, Named, AnyFile
<1> QED BY <1>1 DEF Exec!IsVideo

\* A whole recording and its parts.
LEMMA WholeAndParts ==
    ASSUME NEW f \in AnyFile, NEW r \in Recordings, f.base[1] = r,
           f.base = <<r, f.base[2]>>
    PROVE  /\ f.base[2] = 0 => Exec!Covers(f) = {<<r, 1>>, <<r, 2>>}
           /\ f.base[2] # 0 => Exec!Covers(f) = {<<r, f.base[2]>>}
<1>1. {f.base[1]} \X {1, 2} = {<<r, 1>>, <<r, 2>>}
  OBVIOUS
<1> QED BY <1>1 DEF Exec!Covers

\* The sequence of a finite set lists its elements.
LEMMA Listed ==
    ASSUME NEW S, IsFiniteSet(S)
    PROVE  /\ Exec!SetToSeq(S) \in Seq(S)
           /\ Exec!Range(Exec!SetToSeq(S)) \subseteq S
<1> DEFINE n == Cardinality(S)
<1>1. n \in Nat /\ ExistsBijection(1..n, S)
  BY FS_CardinalityType
<1>2. PICK b : b \in Bijection(1..n, S)
  BY <1>1 DEF ExistsBijection
<1>3. b \in [1..n -> S] /\ \A x, y \in 1..n : b[x] = b[y] => x = y
  BY <1>2 DEF Bijection, Injection, IsInjective
<1>4. Exec!IsInjective(b)
  BY <1>3 DEF Exec!IsInjective
<1>5. Exec!Cardinality(S) = n
  BY DEF Exec!Cardinality, Cardinality
<1>6. Exec!SetToSeq(S) \in [1..n -> S]
  BY <1>3, <1>4, <1>5 DEF Exec!SetToSeq
<1>7. Exec!SetToSeq(S) \in Seq(S)
  BY <1>1, <1>6
<1> QED BY <1>6, <1>7 DEF Exec!Range

------------------------------------------------------------------------------
(* The operations that are left, and the disk they find *)

Replace(f, g) == Exec!Move(f, g, TRUE)
Rename(f, g) == Exec!Move(f, g, FALSE)
Removals == {Exec!Unlink(f) : f \in AnyFile}
Renames == {Rename(Exec!Tagged(f, "tmp"), f) : f \in Named}

\* The second set of files holds what the first does, unless it is published.
Keeps(d, e) ==
    \A f \in d : Exec!IsVideo(f) => \A p \in Exec!Covers(f) :
        p \in article \/ \E g \in e : Exec!IsVideo(g) /\ p \in Exec!Covers(g)

\* What is removed is published, or in a video that stays.
Deleting(s, d) ==
    /\ s \in Seq(Removals)
    /\ \A o \in Exec!Range(s) : Exec!IsVideo(o.from) => \A p \in Exec!Covers(o.from) :
          \/ p \in article
          \/ \E g \in d : /\ Exec!IsVideo(g) /\ p \in Exec!Covers(g)
                          /\ \A q \in Exec!Range(s) : q.from # g

Moving(s) == s \in Seq(Renames)

\* The source is on the disk until the result g has its name, and g is not removed.
ConvertingTo(s, d, g, rest) ==
    /\ Exec!IsVideo(g)
    /\ \E f \in d : f.tag = "" /\ Exec!IsVideo(f) /\ f.base = g.base
    /\ \A o \in Exec!Range(rest) : o.from # g /\ o.from.base = g.base /\ o.from.tag = ""
    /\ \/ s = <<Exec!Write(Exec!Tagged(g, "tmp")), Replace(Exec!Tagged(g, "tmp"), g)>>
              \o rest
       \/ s = <<Replace(Exec!Tagged(g, "tmp"), g)>> \o rest
          /\ Exec!Tagged(g, "tmp") \in d
Converting(s, d) == \E g \in Named, rest \in Seq(Removals) : ConvertingTo(s, d, g, rest)

\* The original is on the disk under its name or as the backup.
RepairingOf(s, d, f, t, b) ==
    /\ Exec!IsVideo(f)
    /\ \/ /\ s = <<Exec!Write(t), Replace(f, b), Replace(t, f), Exec!Unlink(b)>>
          /\ f \in d
       \/ /\ s = <<Replace(f, b), Replace(t, f), Exec!Unlink(b)>>
          /\ f \in d /\ t \in d
       \/ s = <<Replace(t, f), Exec!Unlink(b)>> /\ b \in d /\ t \in d
Repairing(s, d) ==
    \E f \in Named : RepairingOf(s, d, f, Exec!Tagged(f, "tmp"), Exec!Tagged(f, "bak"))

\* The original is on the disk until every part is.
Whole(f) == f.tag = "" /\ f.base[2] = 0 /\ Exec!IsVideo(f)
Part(f, i) == Exec!File(<<f.base[1], i>>, f.ext)
FixingWhole(s, d, f, t) ==
    \/ s = <<Exec!Write(t), Exec!Unlink(f), Rename(t, f)>>
    \/ s = <<Exec!Unlink(f), Rename(t, f)>> /\ t \in d
FixingParts(s, d, f, p1, p2, t1, t2) ==
    \/ s = <<Exec!Write(t1), Exec!Write(t2), Exec!Unlink(f), Rename(t1, p1),
             Rename(t2, p2)>>
    \/ /\ s = <<Exec!Write(t2), Exec!Unlink(f), Rename(t1, p1),
                Rename(t2, p2)>>
       /\ t1 \in d
    \/ /\ s = <<Exec!Unlink(f), Rename(t1, p1), Rename(t2, p2)>>
       /\ t1 \in d /\ t2 \in d
Fixing(s, d) ==
    \E f \in d : /\ Whole(f)
                 /\ \/ FixingWhole(s, d, f, Exec!Tagged(f, "tmp"))
                    \/ FixingParts(s, d, f, Part(f, 1), Part(f, 2),
                                   Exec!Tagged(Part(f, 1), "tmp"), Exec!Tagged(Part(f, 2), "tmp"))

Careful(s, d) == \/ Deleting(s, d) \/ Moving(s) \/ Converting(s, d) \/ Repairing(s, d)
                 \/ Fixing(s, d)

\* What is left of the operations is part of them.
LEMMA Rests ==
    ASSUME NEW S, NEW s \in Seq(S), s # <<>>
    PROVE  /\ Head(s) \in Exec!Range(s) /\ Head(s) \in S
           /\ Tail(s) \in Seq(S) /\ Exec!Range(Tail(s)) \subseteq Exec!Range(s)
<1>1. Len(s) \in Nat /\ Len(s) >= 1 /\ DOMAIN s = 1..Len(s) /\ s \in [1..Len(s) -> S]
  OBVIOUS
<1>2. Head(s) = s[1] /\ Head(s) \in S
  BY <1>1
<1>3. Tail(s) \in Seq(S) /\ DOMAIN Tail(s) = 1..(Len(s) - 1)
      /\ \A i \in 1..(Len(s) - 1) : Tail(s)[i] = s[i + 1]
  BY <1>1
<1>4. \A i \in 1..(Len(s) - 1) : i + 1 \in 1..Len(s)
  BY <1>1
<1> QED BY <1>1, <1>2, <1>3, <1>4 DEF Exec!Range

LEMMA Prefixed ==
    ASSUME NEW S, NEW s \in Seq(S), NEW a
    PROVE  /\ <<a>> \o s # <<>> /\ Head(<<a>> \o s) = a /\ Tail(<<a>> \o s) = s
           /\ Exec!Range(<<a>> \o s) = {a} \cup Exec!Range(s) /\ <<a>> \o s \in Seq(S \cup {a})
<1> DEFINE q == <<a>> \o s
<1>1. Len(s) \in Nat /\ DOMAIN s = 1..Len(s) /\ Len(q) = Len(s) + 1 /\ DOMAIN q = 1..(Len(s) + 1)
  OBVIOUS
<1>2. q[1] = a /\ \A i \in 1..Len(s) : q[i + 1] = s[i]
  BY <1>1
<1>3. q # <<>> /\ Head(q) = a
  BY <1>1, <1>2
<1>4. q \in Seq(S \cup {a})
  OBVIOUS
<1>5. Tail(q) \in Seq(S \cup {a}) /\ Len(Tail(q)) = Len(s)
      /\ \A i \in 1..Len(s) : Tail(q)[i] = q[i + 1]
  BY <1>1, <1>4
<1>6. Tail(q) = s
  BY <1>2, <1>5
<1>7. \A i \in 1..(Len(s) + 1) : i = 1 \/ i - 1 \in 1..Len(s)
  BY <1>1
<1>8. Exec!Range(q) = {a} \cup Exec!Range(s)
  <2>1. \A x \in Exec!Range(q) : x \in {a} \cup Exec!Range(s)
    BY <1>1, <1>2, <1>7 DEF Exec!Range
  <2>2. ASSUME NEW i \in 1..Len(s) PROVE s[i] \in Exec!Range(q)
    <3>1. i + 1 \in DOMAIN q /\ q[i + 1] = s[i]
      BY <1>1, <1>2
    <3> QED BY <3>1 DEF Exec!Range
  <2>3. a \in Exec!Range(q)
    BY <1>1, <1>2 DEF Exec!Range
  <2> QED BY <1>1, <2>1, <2>2, <2>3 DEF Exec!Range
<1> QED BY <1>3, <1>4, <1>6, <1>8

LEMMA TwoPrefixed ==
    ASSUME NEW S, NEW s \in Seq(S), NEW a, NEW b
    PROVE  <<a, b>> \o s = <<a>> \o (<<b>> \o s)
<1>1. <<a, b>> \o s \in Seq(S \cup {a, b}) /\ <<b>> \o s \in Seq(S \cup {a, b})
  OBVIOUS
<1>2. <<a>> \o (<<b>> \o s) \in Seq(S \cup {a, b})
  BY <1>1
<1>3. Len(<<a, b>> \o s) = Len(s) + 2 /\ Len(<<a>> \o (<<b>> \o s)) = Len(s) + 2
  BY <1>1
<1>4. \A i \in 1..(Len(s) + 2) : (<<a, b>> \o s)[i] = (<<a>> \o (<<b>> \o s))[i]
  BY <1>1
<1>5. /\ <<a, b>> \o s \in [1..(Len(s) + 2) -> S \cup {a, b}]
      /\ <<a>> \o (<<b>> \o s) \in [1..(Len(s) + 2) -> S \cup {a, b}]
  <2>1. \A X : \A q \in Seq(X) : q \in [1..Len(q) -> X]
    OBVIOUS
  <2>2. /\ <<a, b>> \o s \in [1..Len(<<a, b>> \o s) -> S \cup {a, b}]
        /\ <<a>> \o (<<b>> \o s) \in [1..Len(<<a>> \o (<<b>> \o s)) -> S \cup {a, b}]
    BY <1>1, <1>2, <2>1, Zenon
  <2> QED BY <1>3, <2>2, Zenon
<1> QED BY <1>4, <1>5

LEMMA KeepsMore ==
    ASSUME NEW d, NEW e, d \subseteq e
    PROVE  Keeps(d, e)
BY DEF Keeps

\* What is kept by two steps is kept by both.
LEMMA KeepsThrough ==
    ASSUME NEW d, NEW e, NEW c, Keeps(d, e), Keeps(e, c)
    PROVE  Keeps(d, c)
BY DEF Keeps

\* A file may go when another of the same base stays.
LEMMA KeepsWithout ==
    ASSUME NEW d, NEW e, NEW f, NEW g \in e, d \ {f} \subseteq e,
           Exec!IsVideo(f) => Exec!IsVideo(g), f.base = g.base
    PROVE  Keeps(d, e)
<1>1. Exec!Covers(f) = Exec!Covers(g)
  BY SameBase
<1> QED BY <1>1 DEF Keeps
\* The next operation is done, fails and is passed over, or fails and ends the stage.
Temps == {f \in disk : f.tag = "tmp" /\ \E x \in Exec!Range(ops) : f \in {x.from, x.to}}
Harmless ==
    /\ Exec!Apply(Head(ops)) \subseteq AnyFile
    /\ Keeps(disk, Exec!Apply(Head(ops)))
    /\ Careful(Tail(ops), Exec!Apply(Head(ops)))
    /\ ~Head(ops).hard => Careful(Tail(ops), disk)
    /\ Head(ops).hard => Keeps(disk, disk \ Temps)

LEMMA Written ==
    \A f :
           /\ Exec!Apply(Exec!Write(f)) = disk \cup {f}
           /\ Exec!Write(f).from = f /\ Exec!Write(f).to = f /\ Exec!Write(f).hard = TRUE
BY DEF Exec!Apply, Exec!Write

LEMMA Unlinked ==
    \A f :
           /\ Exec!Apply(Exec!Unlink(f)) = disk \ {f}
           /\ Exec!Unlink(f).from = f /\ Exec!Unlink(f).to = f /\ Exec!Unlink(f).hard = FALSE
BY DEF Exec!Apply, Exec!Unlink

LEMMA Replaced ==
    \A f, g :
           /\ f \in disk => Exec!Apply(Replace(f, g)) = (disk \ {f}) \cup {g}
           /\ f \notin disk => Exec!Apply(Replace(f, g)) = disk
           /\ Replace(f, g).from = f /\ Replace(f, g).to = g
           /\ Replace(f, g).hard = TRUE
BY DEF Exec!Apply, Exec!Move, Replace

LEMMA Renamed ==
    \A f, g :
           /\ f \in disk => Exec!Apply(Rename(f, g)) = (disk \ {f}) \cup {g}
           /\ f \notin disk => Exec!Apply(Rename(f, g)) = disk
           /\ Rename(f, g).from = f /\ Rename(f, g).to = g
           /\ Rename(f, g).hard = FALSE
BY DEF Exec!Apply, Exec!Move, Rename

LEMMA DeletingIsHarmless ==
    ASSUME disk \subseteq AnyFile, Deleting(ops, disk), ops # <<>>
    PROVE  Harmless
<1>1. /\ Head(ops) \in Exec!Range(ops) /\ Head(ops) \in Removals
      /\ Tail(ops) \in Seq(Removals) /\ Exec!Range(Tail(ops)) \subseteq Exec!Range(ops)
  BY Rests DEF Deleting
<1>2. PICK f \in AnyFile : Head(ops) = Exec!Unlink(f)
  BY <1>1 DEF Removals
<1>3. Exec!Apply(Head(ops)) = disk \ {f} /\ Head(ops).from = f /\ Head(ops).hard = FALSE
  BY <1>2, Unlinked
<1>4. Keeps(disk, disk \ {f})
  BY <1>1, <1>3 DEF Keeps, Deleting
<1>5. Deleting(Tail(ops), disk \ {f})
  BY <1>1, <1>3 DEF Deleting
<1>6. Deleting(Tail(ops), disk)
  BY <1>1 DEF Deleting
<1> QED BY <1>3, <1>4, <1>5, <1>6 DEF Harmless, Careful

LEMMA MovingIsHarmless ==
    ASSUME disk \subseteq AnyFile, Moving(ops), ops # <<>>
    PROVE  Harmless
<1>1. Head(ops) \in Renames /\ Tail(ops) \in Seq(Renames)
  BY Rests DEF Moving
<1>2. PICK f \in Named : Head(ops) = Rename(Exec!Tagged(f, "tmp"), f)
  BY <1>1 DEF Renames
<1> DEFINE t == Exec!Tagged(f, "tmp")
<1>3. f \in AnyFile /\ t.base = f.base /\ t.ext = f.ext /\ t \in AnyFile
  BY Tags DEF Named
<1>4. Head(ops).hard = FALSE
  BY <1>2, Renamed
<1>5. Exec!Apply(Head(ops)) = (disk \ {t}) \cup {f} \/ Exec!Apply(Head(ops)) = disk
  BY <1>2, Renamed
<1>6. Keeps(disk, (disk \ {t}) \cup {f}) /\ Keeps(disk, disk)
  <2>1. Exec!IsVideo(t) => Exec!IsVideo(f)
    BY <1>3 DEF Exec!IsVideo
  <2>2. Keeps(disk, (disk \ {t}) \cup {f})
    <3>1. f \in (disk \ {t}) \cup {f} /\ disk \ {t} \subseteq (disk \ {t}) \cup {f}
      OBVIOUS
    <3> QED BY <1>3, <2>1, <3>1, KeepsWithout
  <2> QED BY <2>2, KeepsMore
<1> QED BY <1>1, <1>3, <1>4, <1>5, <1>6 DEF Harmless, Careful, Moving

LEMMA ConvertingIsHarmless ==
    ASSUME disk \subseteq AnyFile, Converting(ops, disk), ops # <<>>
    PROVE  Harmless
<1>1. PICK g \in Named, rest \in Seq(Removals) : ConvertingTo(ops, disk, g, rest)
  BY DEF Converting
<1> DEFINE t == Exec!Tagged(g, "tmp")
           move == <<Replace(t, g)>> \o rest
<1>2. /\ g \in AnyFile /\ g.tag = "" /\ t \in AnyFile /\ t.base = g.base /\ t.tag = "tmp"
      /\ Exec!IsVideo(t) /\ Exec!IsVideo(g)
  BY <1>1, Tags DEF Named, ConvertingTo
<1>3. PICK f \in disk : f.tag = "" /\ Exec!IsVideo(f) /\ f.base = g.base
  BY <1>1 DEF ConvertingTo
<1>4. \A o \in Exec!Range(rest) :
          /\ o.from # g /\ o.from.base = g.base /\ o.from.tag = ""
          /\ o.to = o.from
  <2>1. \A o \in Exec!Range(rest) : o \in Removals
    BY DEF Exec!Range
  <2>2. \A o \in Removals : o.to = o.from
    <3>1. SUFFICES ASSUME NEW x \in AnyFile PROVE Exec!Unlink(x).to = Exec!Unlink(x).from
      BY DEF Removals
    <3> QED BY Unlinked
  <2> QED BY <1>1, <2>1, <2>2 DEF ConvertingTo
<1>5. Keeps(disk, disk \ Temps)
  <2>1. ASSUME NEW x \in Temps PROVE x = t
    <3>1. PICK o \in Exec!Range(ops) : x.tag = "tmp" /\ x \in {o.from, o.to}
      BY <2>1 DEF Temps
    <3>2. Exec!Range(ops) \subseteq {Exec!Write(t), Replace(t, g)} \cup Exec!Range(rest)
      <4>1. Exec!Range(move) = {Replace(t, g)} \cup Exec!Range(rest)
        BY Prefixed
      <4>2. <<Exec!Write(t), Replace(t, g)>> \o rest = <<Exec!Write(t)>> \o move
        BY TwoPrefixed
      <4>3. move \in Seq(Removals \cup {Replace(t, g)})
        BY Prefixed
      <4>4. Exec!Range(<<Exec!Write(t)>> \o move) = {Exec!Write(t)} \cup Exec!Range(move)
        BY <4>3, Prefixed
      <4> QED BY <1>1, <4>1, <4>2, <4>4 DEF ConvertingTo
    <3>3. x \in {t, g} \/ x.tag = ""
      <4>1. CASE o = Exec!Write(t)
        BY <3>1, <4>1, Written
      <4>2. CASE o = Replace(t, g)
        BY <3>1, <4>2, Replaced
      <4>3. CASE o \in Exec!Range(rest)
        BY <1>4, <3>1, <4>3
      <4> QED BY <3>1, <3>2, <4>1, <4>2, <4>3
    <3> QED BY <1>2, <3>1, <3>3
  <2>2. f \in disk \ Temps
    BY <1>3 DEF Temps
  <2>3. disk \ {t} \subseteq disk \ Temps
    BY <2>1
  <2>4. f.base = t.base
    BY <1>2, <1>3
  <2> QED BY <1>3, <2>2, <2>3, <2>4, KeepsWithout
<1>6. CASE ops = <<Exec!Write(t), Replace(t, g)>> \o rest
  <2>1. move \in Seq(Removals \cup {Replace(t, g)})
    BY Prefixed
  <2>2. ops = <<Exec!Write(t)>> \o move
    BY <1>6, TwoPrefixed
  <2> HIDE DEF move
  <2>3. Head(ops) = Exec!Write(t) /\ Tail(ops) = move
    BY <2>1, <2>2, Prefixed
  <2>4. Exec!Apply(Head(ops)) = disk \cup {t} /\ Head(ops).hard = TRUE
    BY <2>3, Written
  <2>5. ConvertingTo(Tail(ops), disk \cup {t}, g, rest)
    BY <1>1, <2>3 DEF ConvertingTo, move
  <2>6. Careful(Tail(ops), disk \cup {t})
    BY <2>5 DEF Careful, Converting
  <2>7. Keeps(disk, disk \cup {t})
    BY KeepsMore
  <2> QED BY <1>2, <1>5, <2>4, <2>6, <2>7 DEF Harmless
<1>7. CASE ops = move /\ t \in disk
  <2>1. Head(ops) = Replace(t, g) /\ Tail(ops) = rest
    BY <1>7, Prefixed
  <2>2. Exec!Apply(Head(ops)) = (disk \ {t}) \cup {g} /\ Head(ops).hard = TRUE
    BY <1>7, <2>1, Replaced
  <2>3. Keeps(disk, (disk \ {t}) \cup {g})
    <3>1. g \in (disk \ {t}) \cup {g} /\ disk \ {t} \subseteq (disk \ {t}) \cup {g}
      OBVIOUS
    <3> QED BY <1>2, <3>1, KeepsWithout
  <2>4. Deleting(rest, (disk \ {t}) \cup {g})
    <3>1. ASSUME NEW o \in Exec!Range(rest) PROVE Exec!Covers(o.from) = Exec!Covers(g)
      BY <1>4, SameBase
    <3> QED BY <1>2, <1>4, <3>1 DEF Deleting
  <2> QED BY <1>2, <1>5, <2>1, <2>2, <2>3, <2>4 DEF Harmless, Careful
<1> QED BY <1>1, <1>6, <1>7 DEF ConvertingTo

LEMMA RepairingIsHarmless ==
    ASSUME disk \subseteq AnyFile, Repairing(ops, disk), ops # <<>>
    PROVE  Harmless
<1>1. PICK f \in Named : RepairingOf(ops, disk, f, Exec!Tagged(f, "tmp"), Exec!Tagged(f, "bak"))
  BY DEF Repairing
<1> DEFINE t == Exec!Tagged(f, "tmp")
           b == Exec!Tagged(f, "bak")
<1>2. /\ f \in AnyFile /\ t \in AnyFile /\ b \in AnyFile
      /\ t.base = f.base /\ b.base = f.base /\ f.tag = "" /\ t.tag = "tmp" /\ b.tag = "bak"
      /\ Exec!IsVideo(f) /\ Exec!IsVideo(t) /\ Exec!IsVideo(b)
  BY <1>1, Tags DEF Named, RepairingOf
<1>3. RepairingOf(ops, disk, f, t, b)
  BY <1>1
<1> HIDE DEF t, b
<1>4. f # t /\ f # b /\ t # b
  BY <1>2
<1>5. CASE ops = <<Exec!Write(t), Replace(f, b), Replace(t, f), Exec!Unlink(b)>> /\ f \in disk
  <2>1. /\ Head(ops) = Exec!Write(t)
        /\ Tail(ops) = <<Replace(f, b), Replace(t, f), Exec!Unlink(b)>>
    BY <1>5
  <2>2. Exec!Apply(Head(ops)) = disk \cup {t} /\ Head(ops).hard = TRUE
    BY <2>1, Written
  <2>3. RepairingOf(Tail(ops), disk \cup {t}, f, t, b)
    BY <1>2, <1>5, <2>1 DEF RepairingOf
  <2>4. Careful(Tail(ops), disk \cup {t})
    BY <2>3 DEF Careful, Repairing, t, b
  <2>5. Exec!Range(ops) = {Exec!Write(t), Replace(f, b), Replace(t, f), Exec!Unlink(b)}
    BY <1>5 DEF Exec!Range
  <2>6. Temps \subseteq {t}
    <3>1. \A x \in Exec!Range(ops) : x.from \in {f, t, b} /\ x.to \in {f, t, b}
      BY <2>5, Written, Replaced, Unlinked
    <3> QED BY <1>2, <3>1 DEF Temps
  <2>7. Keeps(disk, disk \ Temps)
    <3>1. f \in disk \ Temps /\ disk \ {t} \subseteq disk \ Temps
      BY <1>4, <1>5, <2>6
    <3> QED BY <1>2, <3>1, KeepsWithout
  <2>8. Keeps(disk, disk \cup {t})
    BY KeepsMore
  <2> QED BY <1>2, <2>2, <2>4, <2>7, <2>8 DEF Harmless
<1>6. CASE ops = <<Replace(f, b), Replace(t, f), Exec!Unlink(b)>> /\ f \in disk /\ t \in disk
  <2>1. /\ Head(ops) = Replace(f, b)
        /\ Tail(ops) = <<Replace(t, f), Exec!Unlink(b)>>
    BY <1>6
  <2>2. Exec!Apply(Head(ops)) = (disk \ {f}) \cup {b} /\ Head(ops).hard = TRUE
    BY <1>6, <2>1, Replaced
  <2>3. RepairingOf(Tail(ops), (disk \ {f}) \cup {b}, f, t, b)
    BY <1>2, <1>4, <1>6, <2>1 DEF RepairingOf
  <2>4. Careful(Tail(ops), (disk \ {f}) \cup {b})
    BY <2>3 DEF Careful, Repairing, t, b
  <2>5. Exec!Range(ops) = {Replace(f, b), Replace(t, f), Exec!Unlink(b)}
    BY <1>6 DEF Exec!Range
  <2>6. Temps \subseteq {t}
    <3>1. \A x \in Exec!Range(ops) : x.from \in {f, t, b} /\ x.to \in {f, t, b}
      BY <2>5, Replaced, Unlinked
    <3> QED BY <1>2, <3>1 DEF Temps
  <2>7. Keeps(disk, disk \ Temps)
    <3>1. f \in disk \ Temps /\ disk \ {t} \subseteq disk \ Temps
      BY <1>4, <1>6, <2>6
    <3> QED BY <1>2, <3>1, KeepsWithout
  <2>8. Keeps(disk, (disk \ {f}) \cup {b})
    <3>1. b \in (disk \ {f}) \cup {b} /\ disk \ {f} \subseteq (disk \ {f}) \cup {b}
      OBVIOUS
    <3> QED BY <1>2, <3>1, KeepsWithout
  <2> QED BY <1>2, <2>2, <2>4, <2>7, <2>8 DEF Harmless
<1>7. CASE ops = <<Replace(t, f), Exec!Unlink(b)>> /\ b \in disk /\ t \in disk
  <2>1. Head(ops) = Replace(t, f) /\ Tail(ops) = <<Exec!Unlink(b)>>
    BY <1>7
  <2>2. Exec!Apply(Head(ops)) = (disk \ {t}) \cup {f} /\ Head(ops).hard = TRUE
    BY <1>7, <2>1, Replaced
  <2>3. Deleting(<<Exec!Unlink(b)>>, (disk \ {t}) \cup {f})
    <3>1. Exec!Range(<<Exec!Unlink(b)>>) = {Exec!Unlink(b)}
      BY DEF Exec!Range
    <3>4. Exec!Unlink(b).from = b
      BY Unlinked
    <3>2. Exec!Covers(b) = Exec!Covers(f)
      BY <1>2, SameBase
    <3>3. Exec!Unlink(b) \in Removals
      BY <1>2 DEF Removals
    <3>5. <<Exec!Unlink(b)>> \in Seq(Removals)
      BY <3>3
    <3>6. f \in (disk \ {t}) \cup {f}
      OBVIOUS
    <3> QED BY <1>2, <1>4, <3>1, <3>2, <3>4, <3>5, <3>6 DEF Deleting
  <2>4. Exec!Range(ops) = {Replace(t, f), Exec!Unlink(b)}
    BY <1>7 DEF Exec!Range
  <2>5. Temps \subseteq {t}
    <3>1. \A x \in Exec!Range(ops) : x.from \in {f, t, b} /\ x.to \in {f, t, b}
      BY <2>4, Replaced, Unlinked
    <3> QED BY <1>2, <3>1 DEF Temps
  <2>6. Keeps(disk, disk \ Temps)
    <3>1. b \in disk \ Temps /\ disk \ {t} \subseteq disk \ Temps
      BY <1>4, <1>7, <2>5
    <3> QED BY <1>2, <3>1, KeepsWithout
  <2>7. Keeps(disk, (disk \ {t}) \cup {f})
    <3>1. f \in (disk \ {t}) \cup {f} /\ disk \ {t} \subseteq (disk \ {t}) \cup {f}
      OBVIOUS
    <3> QED BY <1>2, <3>1, KeepsWithout
  <2> QED BY <1>2, <2>1, <2>2, <2>3, <2>6, <2>7 DEF Harmless, Careful
<1> QED BY <1>3, <1>5, <1>6, <1>7 DEF RepairingOf

\* The temporary files of a fix hold no more than the original, and together as much.
LEMMA Fixes ==
    ASSUME NEW f \in AnyFile, Whole(f)
    PROVE  LET p1 == Part(f, 1)
               p2 == Part(f, 2)
               t1 == Exec!Tagged(p1, "tmp")
               t2 == Exec!Tagged(p2, "tmp")
               t == Exec!Tagged(f, "tmp")
           IN  /\ f \in Named /\ p1 \in Named /\ p2 \in Named
               /\ t \in AnyFile /\ t1 \in AnyFile /\ t2 \in AnyFile
               /\ t.tag = "tmp" /\ t1.tag = "tmp" /\ t2.tag = "tmp"
               /\ t.base = f.base /\ Exec!IsVideo(t) /\ Exec!IsVideo(t1) /\ Exec!IsVideo(t2)
               /\ Exec!Covers(t) = Exec!Covers(f)
               /\ Exec!Covers(f) = Exec!Covers(t1) \cup Exec!Covers(t2)
<1> DEFINE p1 == Part(f, 1)
           p2 == Part(f, 2)
<1>1. PICK r \in Recordings, i \in {0, 1, 2} : f.base = <<r, i>>
  <2>1. f.base \in Recordings \X {0, 1, 2}
    BY DEF AnyFile
  <2> QED BY <2>1
<1>2. f.base[1] = r /\ f.base[2] = i /\ i = 0 /\ f \in Named /\ f.ext \in Suffixes
      /\ f.ext \in Exec!VideoExts
  <2>1. f.base[1] = r /\ f.base[2] = i
    BY <1>1
  <2>2. i = 0 /\ f \in Named /\ f.ext \in Exec!VideoExts
    BY <2>1 DEF Whole, Named, Exec!IsVideo
  <2> QED BY <2>1, <2>2 DEF Suffixes
<1>3. /\ p1 \in Named /\ p1.base = <<r, 1>> /\ Exec!IsVideo(p1)
      /\ p2 \in Named /\ p2.base = <<r, 2>> /\ Exec!IsVideo(p2)
  BY <1>2, FileNamed DEF Part
<1>4. p1 \in AnyFile /\ p2 \in AnyFile
  BY <1>3 DEF Named
<1>5. /\ Exec!Covers(f) = {<<r, 1>>, <<r, 2>>}
      /\ Exec!Covers(p1) = {<<r, 1>>} /\ Exec!Covers(p2) = {<<r, 2>>}
  BY <1>1, <1>2, <1>3, <1>4, WholeAndParts
<1> HIDE DEF p1, p2
<1>6. /\ Exec!Covers(Exec!Tagged(f, "tmp")) = Exec!Covers(f)
      /\ Exec!Covers(Exec!Tagged(p1, "tmp")) = Exec!Covers(p1)
      /\ Exec!Covers(Exec!Tagged(p2, "tmp")) = Exec!Covers(p2)
  BY <1>4, Tags
<1>7. /\ \A x \in {f, p1, p2} : /\ Exec!Tagged(x, "tmp") \in AnyFile
                               /\ Exec!Tagged(x, "tmp").tag = "tmp"
                               /\ Exec!IsVideo(Exec!Tagged(x, "tmp"))
      /\ Exec!Tagged(f, "tmp").base = f.base
  <2>1. Exec!IsVideo(f)
    BY DEF Whole
  <2>2. \A x \in AnyFile : /\ Exec!Tagged(x, "tmp") \in AnyFile
                            /\ Exec!Tagged(x, "tmp").tag = "tmp"
                            /\ Exec!Tagged(x, "tmp").base = x.base
                            /\ Exec!IsVideo(Exec!Tagged(x, "tmp")) <=> Exec!IsVideo(x)
    BY Tags
  <2> QED BY <1>3, <1>4, <2>1, <2>2
<1>8. Exec!Covers(f) = Exec!Covers(Exec!Tagged(p1, "tmp")) \cup Exec!Covers(Exec!Tagged(p2, "tmp"))
  BY <1>5, <1>6
<1> QED BY <1>2, <1>3, <1>6, <1>7, <1>8 DEF p1, p2

LEMMA FixingIsHarmless ==
    ASSUME disk \subseteq AnyFile, Fixing(ops, disk), ops # <<>>
    PROVE  Harmless
<1>1. PICK f \in disk : /\ Whole(f)
                 /\ \/ FixingWhole(ops, disk, f, Exec!Tagged(f, "tmp"))
                    \/ FixingParts(ops, disk, f, Part(f, 1), Part(f, 2),
                                   Exec!Tagged(Part(f, 1), "tmp"), Exec!Tagged(Part(f, 2), "tmp"))
  BY DEF Fixing
<1> DEFINE p1 == Part(f, 1)
           p2 == Part(f, 2)
           t == Exec!Tagged(f, "tmp")
           t1 == Exec!Tagged(p1, "tmp")
           t2 == Exec!Tagged(p2, "tmp")
<1>2. f \in AnyFile
  OBVIOUS
<1>3. /\ f \in Named /\ p1 \in Named /\ p2 \in Named
      /\ t \in AnyFile /\ t1 \in AnyFile /\ t2 \in AnyFile
      /\ t.tag = "tmp" /\ t1.tag = "tmp" /\ t2.tag = "tmp"
      /\ t.base = f.base /\ Exec!IsVideo(t) /\ Exec!IsVideo(t1) /\ Exec!IsVideo(t2)
      /\ Exec!Covers(t) = Exec!Covers(f)
      /\ Exec!Covers(f) = Exec!Covers(t1) \cup Exec!Covers(t2)
  BY <1>1, <1>2, Fixes
<1>4. Rename(t, f) \in Renames /\ Rename(t1, p1) \in Renames /\ Rename(t2, p2) \in Renames
  BY <1>3 DEF Renames
<1>5. f.tag = "" /\ f # t /\ f # t1 /\ f # t2 /\ Exec!IsVideo(f)
  BY <1>1, <1>3 DEF Named, Whole
<1>6. FixingWhole(ops, disk, f, t) \/ FixingParts(ops, disk, f, p1, p2, t1, t2)
  BY <1>1
<1>7. ASSUME NEW x \in {t, t1, t2}, Keeps(disk, disk \cup {x}),
             \/ FixingWhole(Tail(ops), disk \cup {x}, f, t)
             \/ FixingParts(Tail(ops), disk \cup {x}, f, p1, p2, t1, t2)
      PROVE  Careful(Tail(ops), disk \cup {x})
  <2>1. f \in disk \cup {x}
    OBVIOUS
  <2> QED BY <1>1, <1>7, <2>1 DEF Careful, Fixing
<1> HIDE DEF p1, p2, t, t1, t2
\* A part is written, or cannot be written and the temporary files go.
<1>8. ASSUME NEW x \in {t, t1, t2}, Head(ops) = Exec!Write(x),
             \A o \in Exec!Range(ops) : \A y \in {o.from, o.to} : y \in {f, p1, p2, t, t1, t2},
             \/ FixingWhole(Tail(ops), disk \cup {x}, f, t)
             \/ FixingParts(Tail(ops), disk \cup {x}, f, p1, p2, t1, t2)
      PROVE  Harmless
  <2>1. Exec!Apply(Head(ops)) = disk \cup {x} /\ Head(ops).hard = TRUE
    BY <1>8, Written
  <2>2. Keeps(disk, disk \cup {x})
    BY KeepsMore
  <2>3. Careful(Tail(ops), disk \cup {x})
    BY <1>7, <1>8, <2>2
  <2>4. Temps \subseteq {t, t1, t2}
    BY <1>3, <1>5, <1>8 DEF Temps, Named
  <2>5. Keeps(disk, disk \ Temps)
    <3>1. f \in disk \ Temps
      BY <1>5, <2>4
    <3>2. \A y \in {t, t1, t2} : \A p \in Exec!Covers(y) : p \in Exec!Covers(f)
      BY <1>3
    <3> QED BY <1>5, <2>4, <3>1, <3>2 DEF Keeps
  <2>6. disk \cup {x} \subseteq AnyFile
    BY <1>3
  <2> QED BY <2>1, <2>2, <2>3, <2>5, <2>6 DEF Harmless
\* The original goes, or stays with the renames left.
<1>9. ASSUME Head(ops) = Exec!Unlink(f), Tail(ops) \in Seq(Renames),
             t \in disk \/ {t1, t2} \subseteq disk
      PROVE  Harmless
  <2>1. Exec!Apply(Head(ops)) = disk \ {f} /\ Head(ops).hard = FALSE
    BY <1>9, Unlinked
  <2>2. Keeps(disk, disk \ {f})
    <3>1. \A p \in Exec!Covers(f) : \E g \in disk \ {f} : Exec!IsVideo(g) /\ p \in Exec!Covers(g)
      BY <1>3, <1>5, <1>9
    <3> QED BY <3>1 DEF Keeps
  <2>3. Moving(Tail(ops))
    BY <1>9 DEF Moving
  <2> QED BY <2>1, <2>2, <2>3 DEF Harmless, Careful
<1>10. CASE FixingWhole(ops, disk, f, t)
  <2>1. CASE ops = <<Exec!Write(t), Exec!Unlink(f), Rename(t, f)>>
    <3>1. Head(ops) = Exec!Write(t) /\ Tail(ops) = <<Exec!Unlink(f), Rename(t, f)>>
      BY <2>1
    <3>2. Exec!Range(ops) = {Exec!Write(t), Exec!Unlink(f), Rename(t, f)}
      BY <2>1 DEF Exec!Range
    <3>3. \A o \in Exec!Range(ops) : \A y \in {o.from, o.to} : y \in {f, p1, p2, t, t1, t2}
      BY <3>2, Written, Unlinked, Renamed
    <3>4. FixingWhole(Tail(ops), disk \cup {t}, f, t)
      BY <3>1 DEF FixingWhole
    <3> QED BY <1>8, <3>1, <3>3, <3>4
  <2>2. CASE ops = <<Exec!Unlink(f), Rename(t, f)>> /\ t \in disk
    <3>1. Head(ops) = Exec!Unlink(f) /\ Tail(ops) = <<Rename(t, f)>>
      BY <2>2
    <3>2. <<Rename(t, f)>> \in Seq(Renames)
      BY <1>4
    <3> QED BY <1>9, <2>2, <3>1, <3>2
  <2> QED BY <1>10, <2>1, <2>2 DEF FixingWhole
<1>11. CASE FixingParts(ops, disk, f, p1, p2, t1, t2)
  <2>1. CASE ops = <<Exec!Write(t1), Exec!Write(t2), Exec!Unlink(f), Rename(t1, p1),
               Rename(t2, p2)>>
    <3>1. /\ Head(ops) = Exec!Write(t1)
          /\ Tail(ops) = <<Exec!Write(t2), Exec!Unlink(f), Rename(t1, p1), Rename(t2, p2)>>
      BY <2>1
    <3>2. Exec!Range(ops) = {Exec!Write(t1), Exec!Write(t2), Exec!Unlink(f), Rename(t1, p1),
                             Rename(t2, p2)}
      BY <2>1 DEF Exec!Range
    <3>3. \A o \in Exec!Range(ops) : \A y \in {o.from, o.to} : y \in {f, p1, p2, t, t1, t2}
      BY <3>2, Written, Unlinked, Renamed
    <3>4. FixingParts(Tail(ops), disk \cup {t1}, f, p1, p2, t1, t2)
      BY <3>1 DEF FixingParts
    <3> QED BY <1>8, <3>1, <3>3, <3>4
  <2>2. CASE /\ ops = <<Exec!Write(t2), Exec!Unlink(f), Rename(t1, p1), Rename(t2, p2)>>
             /\ t1 \in disk
    <3>1. /\ Head(ops) = Exec!Write(t2)
          /\ Tail(ops) = <<Exec!Unlink(f), Rename(t1, p1), Rename(t2, p2)>>
      BY <2>2
    <3>2. Exec!Range(ops) = {Exec!Write(t2), Exec!Unlink(f), Rename(t1, p1), Rename(t2, p2)}
      BY <2>2 DEF Exec!Range
    <3>3. \A o \in Exec!Range(ops) : \A y \in {o.from, o.to} : y \in {f, p1, p2, t, t1, t2}
      BY <3>2, Written, Unlinked, Renamed
    <3>4. FixingParts(Tail(ops), disk \cup {t2}, f, p1, p2, t1, t2)
      BY <2>2, <3>1 DEF FixingParts
    <3> QED BY <1>8, <3>1, <3>3, <3>4
  <2>3. CASE /\ ops = <<Exec!Unlink(f), Rename(t1, p1), Rename(t2, p2)>>
             /\ t1 \in disk /\ t2 \in disk
    <3>1. Head(ops) = Exec!Unlink(f) /\ Tail(ops) = <<Rename(t1, p1), Rename(t2, p2)>>
      BY <2>3
    <3>2. <<Rename(t1, p1), Rename(t2, p2)>> \in Seq(Renames)
      BY <1>4
    <3> QED BY <1>9, <2>3, <3>1, <3>2
  <2> QED BY <1>11, <2>1, <2>2, <2>3 DEF FixingParts
<1> QED BY <1>6, <1>10, <1>11

LEMMA CarefulIsHarmless ==
    ASSUME disk \subseteq AnyFile, Careful(ops, disk), ops # <<>>
    PROVE  Harmless
BY DeletingIsHarmless, MovingIsHarmless, ConvertingIsHarmless, RepairingIsHarmless,
   FixingIsHarmless DEF Careful

------------------------------------------------------------------------------
(* The stages of a task *)

LEMMA Optional ==
    ASSUME NEW c, NEW x
    PROVE  Exec!When(c, x) = <<x>> \/ Exec!When(c, x) = <<>>
BY DEF Exec!When

\* The FLV fix is the first stage, the upload the last.
LEMMA StageOrder ==
    ASSUME NEW o
    PROVE  /\ Len(Exec!Pipeline(o)) \in Nat
           /\ Exec!Pipeline(o) # <<>> => Len(Exec!Pipeline(o)) # 0
           /\ \A k \in 1..Len(Exec!Pipeline(o)) :
                /\ Exec!Pipeline(o)[k] = "fix_flv" => k = 1
                /\ Exec!Pipeline(o)[k] = "cloud_upload" => k = Len(Exec!Pipeline(o))
<1> DEFINE Others == {"convert_ts", "repair_ts", "convert_mp4", "burn_subtitles", "extract_cover",
                      "bili_publish"}
           Names == Others \cup {"fix_flv", "cloud_upload"}
           fix == Exec!When(o.fix, "fix_flv")
           ts == Exec!TsStages(o)
           front == Exec!When(o.mp4, "convert_mp4") \o Exec!When(o.burn, "burn_subtitles") \o
                    Exec!When(o.cover, "extract_cover") \o Exec!When(o.publish, "bili_publish")
           upload == Exec!When(o.upload, "cloud_upload")
<1>1. ts \in Seq(Others)
  <2> DEFINE a == Exec!When(o.saveTs /\ o.ext = "flv", "convert_ts")
             b == Exec!When(o.saveTs \/ o.ext = "ts", "repair_ts")
  <2>1. a \in Seq(Others)
    <3>1. a = <<"convert_ts">> \/ a = <<>>
      BY Optional
    <3>2. <<"convert_ts">> \in Seq(Others) /\ <<>> \in Seq(Others)
      OBVIOUS
    <3> HIDE DEF a, Others
    <3> QED BY <3>1, <3>2
  <2>2. b \in Seq(Others)
    <3>1. b = <<"repair_ts">> \/ b = <<>>
      BY Optional
    <3>2. <<"repair_ts">> \in Seq(Others) /\ <<>> \in Seq(Others)
      OBVIOUS
    <3> HIDE DEF b, Others
    <3> QED BY <3>1, <3>2
  <2>3. ts = a \o b
    BY DEF Exec!TsStages
  <2> HIDE DEF a, b, ts
  <2> QED BY <2>1, <2>2, <2>3
<1>2. front \in Seq(Others)
  <2>1. ASSUME NEW c, NEW x \in Others PROVE Exec!When(c, x) \in Seq(Others)
    <3>1. Exec!When(c, x) = <<x>> \/ Exec!When(c, x) = <<>>
      BY Optional
    <3>2. <<x>> \in Seq(Others) /\ <<>> \in Seq(Others)
      BY <2>1
    <3> HIDE DEF Others
    <3> QED BY <3>1, <3>2
  <2> DEFINE a == Exec!When(o.mp4, "convert_mp4")
             b == Exec!When(o.burn, "burn_subtitles")
             d == Exec!When(o.cover, "extract_cover")
             e == Exec!When(o.publish, "bili_publish")
  <2>2. a \in Seq(Others) /\ b \in Seq(Others) /\ d \in Seq(Others) /\ e \in Seq(Others)
    <3>1. /\ "convert_mp4" \in Others /\ "burn_subtitles" \in Others
          /\ "extract_cover" \in Others /\ "bili_publish" \in Others
      OBVIOUS
    <3> QED BY <2>1, <3>1
  <2> HIDE DEF a, b, d, e
  <2>3. a \o b \o d \o e \in Seq(Others)
    BY <2>2
  <2> QED BY <2>3 DEF a, b, d, e
<1>3. fix = <<"fix_flv">> \/ fix = <<>>
  BY Optional
<1>4. upload = <<"cloud_upload">> \/ upload = <<>>
  BY Optional
<1>5. Exec!Pipeline(o) = <<"burn_subtitles">> \/ Exec!Pipeline(o) = (fix \o ts) \o (front \o upload)
  BY DEF Exec!Pipeline, Exec!ConvertLegacyConfig
<1>8. "fix_flv" \notin Others /\ "cloud_upload" \notin Others /\ Others \subseteq Names
      /\ "fix_flv" \in Names /\ "cloud_upload" \in Names
  OBVIOUS
<1> HIDE DEF fix, ts, front, upload, Others, Names
<1> DEFINE p == (fix \o ts) \o (front \o upload)
<1>6. CASE Exec!Pipeline(o) = <<"burn_subtitles">>
  <2>1. Len(<<"burn_subtitles">>) = 1 /\ <<"burn_subtitles">>[1] = "burn_subtitles"
    OBVIOUS
  <2>2. \A k \in 1..1 : k = 1
    OBVIOUS
  <2> QED BY <1>6, <2>1, <2>2
<1>7. CASE Exec!Pipeline(o) = p
  <2>1. /\ fix \in Seq(Names) /\ ts \in Seq(Names) /\ front \in Seq(Names)
        /\ upload \in Seq(Names)
    <3>1. <<"fix_flv">> \in Seq(Names) /\ <<"cloud_upload">> \in Seq(Names) /\ <<>> \in Seq(Names)
      BY <1>8
    <3>2. ASSUME NEW q \in Seq(Others) PROVE q \in Seq(Names)
      BY <1>8
    <3> QED BY <1>1, <1>2, <1>3, <1>4, <3>1, <3>2
  <2>2. p \in Seq(Names) /\ Len(p) = Len(fix) + Len(ts) + Len(front) + Len(upload)
    BY <2>1
  <2>3. ASSUME NEW k \in 1..Len(p)
        PROVE  \/ k <= Len(fix) /\ p[k] = fix[k]
               \/ p[k] \in Others
               \/ k > Len(fix) + Len(ts) + Len(front)
                  /\ p[k] = upload[k - (Len(fix) + Len(ts) + Len(front))]
    <3> DEFINE u == fix \o ts
               v == front \o upload
    <3>1. /\ u \in Seq(Names) /\ Len(u) = Len(fix) + Len(ts)
          /\ v \in Seq(Names) /\ Len(v) = Len(front) + Len(upload)
      BY <2>1
    <3>2. /\ k <= Len(u) => p[k] = u[k]
          /\ k > Len(u) => p[k] = v[k - Len(u)]
      BY <2>2, <3>1
    <3>3. \A i \in 1..Len(u) : /\ i <= Len(fix) => u[i] = fix[i]
                              /\ i > Len(fix) => u[i] = ts[i - Len(fix)] /\
                                   i - Len(fix) \in 1..Len(ts)
      BY <2>1, <3>1
    <3>4. \A i \in 1..Len(v) : /\ i <= Len(front) => v[i] = front[i]
                              /\ i > Len(front) => v[i] = upload[i - Len(front)]
      BY <2>1, <3>1
    <3>5. /\ \A i \in 1..Len(ts) : ts[i] \in Others
          /\ \A i \in 1..Len(front) : front[i] \in Others
      BY <1>1, <1>2
    <3>6. CASE k <= Len(u)
      BY <2>1, <3>1, <3>2, <3>3, <3>5, <3>6
    <3>7. CASE k > Len(u)
      <4>1. k - Len(u) \in 1..Len(v)
        BY <2>1, <2>2, <3>1, <3>7
      <4>2. CASE k - Len(u) <= Len(front)
        <5>1. p[k] = front[k - Len(u)] /\ k - Len(u) \in 1..Len(front)
          BY <2>1, <3>1, <3>2, <3>4, <3>7, <4>1, <4>2
        <5> QED BY <3>5, <5>1
      <4>3. CASE k - Len(u) > Len(front)
        BY <2>1, <3>1, <3>2, <3>4, <3>7, <4>1, <4>3
      <4> QED BY <2>1, <3>1, <4>1, <4>2, <4>3
    <3> QED BY <2>1, <3>1, <3>6, <3>7
  <2> HIDE DEF p
  <2>4. ASSUME NEW k \in 1..Len(p)
        PROVE  /\ p[k] = "fix_flv" => k = 1
               /\ p[k] = "cloud_upload" => k = Len(p)
    <3>1. CASE k <= Len(fix) /\ p[k] = fix[k]
      BY <1>3, <2>2, <3>1
    <3>2. CASE p[k] \in Others
      BY <1>8, <3>2
    <3>3. CASE k > Len(fix) + Len(ts) + Len(front)
               /\ p[k] = upload[k - (Len(fix) + Len(ts) + Len(front))]
      <4>1. Len(upload) = 1 /\ k = Len(p) /\ p[k] = "cloud_upload"
        <5>1. upload # <<>>
          BY <2>1, <2>2, <3>3
        <5>2. upload = <<"cloud_upload">> /\ Len(upload) = 1
          BY <1>4, <5>1
        <5>3. k - (Len(fix) + Len(ts) + Len(front)) = 1 /\ k = Len(p)
          BY <2>1, <2>2, <3>3, <5>2
        <5> QED BY <3>3, <5>2, <5>3
      <4> QED BY <4>1
    <3> QED BY <2>3, <3>1, <3>2, <3>3
  <2> QED BY <1>7, <2>2, <2>4
<1> QED BY <1>5, <1>6, <1>7

------------------------------------------------------------------------------
(* Where a task is *)

Stages == Len(Exec!Pipeline(options))

\* A task that runs is at a stage it has, with named files in hand; operations are left only
\* inside a stage that works file by file or publishes, and slots are taken only by uploads,
\* which come last.
FlowIInv ==
    /\ options \in OptionSets /\ disk \subseteq AnyFile
    /\ status # "running" => at = "start"
    /\ status = "running" => /\ stage \in 1..Stages
                             /\ taskFiles \in Seq(Named)
                             /\ stage = 1 => taskFiles = Exec!Initial
    /\ at = "files" => todo \in Seq(Named) /\ output \in Seq(Named)
    /\ at = "upload" => stage = Stages
    /\ ops # <<>> => at \in {"files", "publish"}
    /\ at # "upload" => sending = {} /\ waiting = 0

LEMMA TaskHolds ==
    /\ IsFiniteSet(Recordings)
    /\ \A o \in OptionSets : o.ext \in Exec!VideoExts /\ Len(Exec!Pipeline(o)) \in Nat \ {0}
                             /\ o.ext \in Suffixes
<1>1. /\ IsFiniteSet(Recordings)
      /\ \A o \in OptionSets : o.ext \in Exec!VideoExts /\ Exec!Pipeline(o) # <<>>
  BY TaskAssumption DEF TaskAssumption
<1>2. \A o : /\ Len(Exec!Pipeline(o)) \in Nat
             /\ Exec!Pipeline(o) # <<>> => Len(Exec!Pipeline(o)) # 0
  BY StageOrder
<1> QED BY <1>1, <1>2 DEF Suffixes

\* The files of the recorder are the whole recordings.
LEMMA Initially ==
    ASSUME options \in OptionSets
    PROVE  /\ Exec!Initial \in Seq(Named)
           /\ \A f \in Exec!Range(Exec!Initial) : f \in Named /\ Whole(f)
           /\ \A r \in Recordings : /\ Exec!File(<<r, 0>>, options.ext) \in Named
                                     /\ Whole(Exec!File(<<r, 0>>, options.ext))
<1> DEFINE whole(r) == Exec!File(<<r, 0>>, options.ext)
           S == {whole(r) : r \in Recordings}
<1>1. ASSUME NEW r \in Recordings PROVE whole(r) \in Named /\ Whole(whole(r))
  <2>1. /\ whole(r) \in Named /\ whole(r).base = <<r, 0>> /\ whole(r).tag = ""
        /\ Exec!IsVideo(whole(r))
    BY TaskHolds, FileNamed
  <2> HIDE DEF whole
  <2>2. whole(r).base[2] = 0
    <3>1. <<r, 0>>[2] = 0
      OBVIOUS
    <3> QED BY <2>1, <3>1, Zenon
  <2> QED BY <2>1, <2>2 DEF Whole
<1>2. IsFiniteSet(S)
  <2> HIDE DEF whole
  <2> DEFINE each == [r \in Recordings |-> whole(r)]
  <2>1. each \in [Recordings -> S] /\ \A x \in S : \E r \in Recordings : each[r] = x
    OBVIOUS
  <2>2. each \in Surjection(Recordings, S)
    BY <2>1 DEF Surjection
  <2> QED BY <2>2, TaskHolds, FS_Surjection
<1>3. Exec!SetToSeq(S) \in Seq(S) /\ Exec!Range(Exec!SetToSeq(S)) \subseteq S
  BY <1>2, Listed
<1>4. Exec!Initial = Exec!SetToSeq(S)
  BY DEF Exec!Initial
<1>5. S \subseteq Named /\ \A f \in S : Whole(f)
  BY <1>1
<1> HIDE DEF S
<1>6. Exec!SetToSeq(S) \in Seq(Named)
  BY <1>3, <1>5
<1> QED BY <1>1, <1>3, <1>4, <1>5, <1>6

\* A task begins with the recordings whole.
LEMMA InitTask == ASSUME Exec!Init PROVE FlowIInv /\ Careful(ops, disk) /\ Exec!NothingLost
<1>1. /\ options \in OptionSets /\ status = "pending" /\ at = "start" /\ ops = <<>>
      /\ sending = {} /\ waiting = 0
  BY DEF Exec!Init
<1>2. disk \subseteq AnyFile
  <2>1. \A r \in Recordings : Exec!File(<<r, 0>>, "ass") \in Named
    BY FileNamed DEF Suffixes
  <2> QED BY <1>1, <2>1, Initially DEF Exec!Init, Named
<1>3. Careful(ops, disk)
  BY <1>1 DEF Careful, Moving
<1>4. Exec!NothingLost
  <2>1. SUFFICES ASSUME NEW p \in Exec!Parts
                 PROVE  \E f \in disk : Exec!IsVideo(f) /\ p \in Exec!Covers(f)
    BY DEF Exec!NothingLost
  <2>2. p \in Recordings \X {1, 2}
    BY DEF Exec!Parts
  <2>3. PICK r \in Recordings, i \in {1, 2} : p = <<r, i>>
    BY <2>2
  <2> DEFINE f == Exec!File(<<r, 0>>, options.ext)
  <2>4. f \in disk
    BY DEF Exec!Init
  <2>5. f \in Named /\ Whole(f) /\ f.base = <<r, 0>>
    BY <1>1, Initially DEF Exec!File
  <2>6. Exec!Covers(f) = {<<r, 1>>, <<r, 2>>}
    <3> HIDE DEF f
    <3>1. f \in AnyFile /\ f.base[1] = r /\ f.base[2] = 0 /\ f.base = <<r, f.base[2]>>
      <4>1. <<r, 0>>[1] = r /\ <<r, 0>>[2] = 0
        OBVIOUS
      <4>2. f \in AnyFile
        BY <2>5 DEF Named
      <4>3. f.base[1] = r /\ f.base[2] = 0
        BY <2>5, <4>1, Zenon
      <4> QED BY <2>5, <4>2, <4>3, Zenon
    <3> QED BY <3>1, WholeAndParts
  <2> QED BY <2>3, <2>4, <2>5, <2>6 DEF Whole
<1> QED BY <1>1, <1>2, <1>3, <1>4 DEF FlowIInv

\* A stage ends: the next one starts on named files, or the task is settled.
LEMMA Advances ==
    ASSUME FlowIInv, status = "running", NEW list, NEW missed, Exec!Advance(list, missed),
           list \in Seq(Named) \/ stage = Stages,
           options' = options, disk' \subseteq AnyFile
    PROVE  FlowIInv' /\ ops' = <<>>
<1>1. /\ at' = "start" /\ todo' = <<>> /\ output' = <<>> /\ ops' = <<>>
      /\ sending' = {} /\ waiting' = 0 /\ taskFiles' = list
  BY DEF Exec!Advance, Exec!Reset
<1>2. Stages' = Stages /\ Stages \in Nat
  BY TaskHolds DEF Stages, FlowIInv
<1>3. CASE stage = Stages \/ cancelled
  <2>1. status' # "running"
    BY <1>3 DEF Exec!Advance, Stages
  <2> QED BY <1>1, <2>1 DEF FlowIInv
<1>4. CASE ~(stage = Stages \/ cancelled)
  <2>1. stage' = stage + 1 /\ list \in Seq(Named)
    BY <1>4 DEF Exec!Advance, Stages
  <2>2. stage' \in 1..Stages /\ stage' # 1
    BY <1>2, <1>4, <2>1 DEF FlowIInv
  <2> QED BY <1>1, <1>2, <2>1, <2>2 DEF FlowIInv
<1> QED BY <1>3, <1>4

LEMMA Fails ==
    ASSUME FlowIInv, status = "running", Exec!StageFailed, options' = options,
           disk' \subseteq AnyFile
    PROVE  FlowIInv' /\ ops' = <<>>
<1>1. CASE Exec!ShouldContinueOnFailure(Exec!Name)
  <2>1. Exec!Advance(taskFiles, {Exec!Name})
    BY <1>1 DEF Exec!StageFailed
  <2>2. taskFiles \in Seq(Named)
    BY DEF FlowIInv
  <2> QED BY <2>1, <2>2, Advances
<1>2. CASE ~Exec!ShouldContinueOnFailure(Exec!Name)
  <2>1. status' # "running" /\ Exec!Reset
    BY <1>2 DEF Exec!StageFailed
  <2> QED BY <2>1 DEF Exec!Reset, FlowIInv
<1> QED BY <1>1, <1>2

\* Only the operations of a stage, a cover and an upload touch the disk.
LEMMA Untouched ==
    ASSUME Careful(ops, disk), Exec!NothingLost, UNCHANGED <<disk, remote>>,
           article \subseteq article', ops' = <<>> \/ (ops' = ops /\ article' = article)
    PROVE  Careful(ops, disk)' /\ Exec!NothingLost'
<1>1. Exec!NothingLost'
  BY DEF Exec!NothingLost
<1>2. CASE ops' = <<>>
  BY <1>1, <1>2 DEF Careful, Moving
<1>3. CASE ops' = ops /\ article' = article
  BY <1>1, <1>3 DEF Careful, Moving, Deleting, Converting, ConvertingTo, Repairing, RepairingOf,
                    Fixing, FixingWhole, FixingParts
<1> QED BY <1>2, <1>3

TaskIInv == FlowIInv /\ Careful(ops, disk) /\ Exec!NothingLost

LEMMA FilesInHand ==
    ASSUME FlowIInv, status = "running"
    PROVE  /\ \A f \in Exec!Range(taskFiles) : f \in Named
           /\ at = "files" /\ todo # <<>> => /\ Head(todo) \in Named /\ Tail(todo) \in Seq(Named)
                                            /\ Append(output, Head(todo)) \in Seq(Named)
<1>1. taskFiles \in Seq(Named)
  BY DEF FlowIInv
<1>2. \A f \in Exec!Range(taskFiles) : f \in Named
  BY <1>1 DEF Exec!Range
<1>3. ASSUME at = "files", todo # <<>>
      PROVE  /\ Head(todo) \in Named /\ Tail(todo) \in Seq(Named)
             /\ Append(output, Head(todo)) \in Seq(Named)
  <2>1. todo \in Seq(Named) /\ output \in Seq(Named)
    BY <1>3 DEF FlowIInv
  <2>2. Head(todo) \in Named /\ Tail(todo) \in Seq(Named)
    BY <1>3, <2>1
  <2> QED BY <2>1, <2>2
<1> QED BY <1>2, <1>3

\* Steps around the stages: they leave the disk alone and end or start a stage.
LEMMA FlowSteps ==
    ASSUME TaskIInv,
           \/ Exec!Execute \/ Exec!BeginStage \/ Exec!PassFile \/ Exec!MissingFile
           \/ Exec!EndStage \/ Exec!PublishFails \/ Exec!EndPublish \/ Exec!LoginFails
           \/ Exec!PickFile \/ Exec!AcquireSlot \/ Exec!EndUpload \/ Exec!Cancel
           \/ Exec!Restart \/ Exec!RetryTask
    PROVE  TaskIInv'
<1>0. FlowIInv /\ Careful(ops, disk) /\ Exec!NothingLost /\ disk \subseteq AnyFile
      /\ options \in OptionSets
  BY DEF TaskIInv, FlowIInv
<1>1. ASSUME FlowIInv', UNCHANGED <<disk, remote>>, article \subseteq article',
             ops' = <<>> \/ (ops' = ops /\ article' = article)
      PROVE  TaskIInv'
  BY <1>0, <1>1, Untouched DEF TaskIInv
<1>2. ASSUME UNCHANGED <<options, disk, remote>>, article \subseteq article', status = "running",
             \/ Exec!StageFailed
             \/ \E list : Exec!StageDone(list) /\ (list \in Seq(Named) \/ stage = Stages)
      PROVE  TaskIInv'
  <2>1. CASE Exec!StageFailed
    BY <1>0, <1>1, <1>2, <2>1, Fails
  <2>2. ASSUME NEW list, Exec!StageDone(list), list \in Seq(Named) \/ stage = Stages
        PROVE  TaskIInv'
    <3>1. Exec!Advance(list, {})
      BY <2>2 DEF Exec!StageDone
    <3> QED BY <1>0, <1>1, <1>2, <2>2, <3>1, Advances
  <2> QED BY <1>2, <2>1, <2>2
<1>3. CASE Exec!Execute
  <2>1. /\ status' = "running" /\ stage' = 1 /\ taskFiles' = Exec!Initial /\ at' = "start"
        /\ ops' = <<>> /\ sending' = {} /\ waiting' = 0
        /\ UNCHANGED <<options, disk, remote, article>>
    BY <1>3 DEF Exec!Execute, Exec!Reset
  <2>2. /\ Exec!Initial' = Exec!Initial /\ Exec!Initial \in Seq(Named)
        /\ Stages' = Stages /\ Stages \in Nat \ {0}
    BY <1>0, <2>1, Initially, TaskHolds DEF Exec!Initial, Stages
  <2>3. 1 \in 1..Stages
    BY <2>2
  <2>4. FlowIInv'
    BY <1>0, <2>1, <2>2, <2>3 DEF FlowIInv
  <2> QED BY <1>1, <2>1, <2>4
<1>4. CASE Exec!BeginStage
  <2>1. /\ status = "running" /\ at = "start" /\ taskFiles \in Seq(Named) /\ ops = <<>>
        /\ UNCHANGED <<options, disk, remote, article>>
    BY <1>0, <1>4 DEF Exec!BeginStage, Exec!At, FlowIInv
  <2>2. CASE Exec!StageDone(taskFiles)
    BY <1>2, <2>1, <2>2
  <2>3. CASE ~Exec!StageDone(taskFiles)
    <3>1. /\ at' = Exec!Phase
          /\ Exec!Phase = "files" => todo' = taskFiles
          /\ output' = taskFiles \/ output' = <<>>
          /\ UNCHANGED <<status, stage, taskFiles, ops, sending, waiting>>
      BY <1>4, <2>3 DEF Exec!BeginStage, Exec!Phase
    <3>2. Exec!Phase = "upload" => stage = Stages
      <4>1. Exec!Phase = "upload" => Exec!Name = "cloud_upload"
        BY DEF Exec!Phase
      <4>2. stage \in 1..Len(Exec!Pipeline(options))
        BY <1>0, <2>1 DEF FlowIInv, Stages
      <4> QED BY <4>1, <4>2, StageOrder DEF Exec!Name, Stages
    <3>3. Stages' = Stages /\ Exec!Initial' = Exec!Initial
      BY <2>1 DEF Stages, Exec!Initial
    <3>4. <<>> \in Seq(Named)
      OBVIOUS
    <3>5. FlowIInv'
      BY <1>0, <2>1, <3>1, <3>2, <3>3, <3>4 DEF FlowIInv
    <3> QED BY <1>1, <2>1, <3>1, <3>5
  <2> QED BY <2>2, <2>3
<1>5. CASE Exec!PassFile
  <2>1. /\ status = "running" /\ at = "files" /\ todo # <<>> /\ ops' = ops
        /\ todo' = Tail(todo) /\ output' \in {output, Append(output, Head(todo))}
        /\ UNCHANGED <<options, disk, remote, article, status, stage, taskFiles, at, sending,
                       waiting>>
    BY <1>5 DEF Exec!PassFile, Exec!Current, Exec!At, Exec!Rest
  <2>2. Stages' = Stages /\ Exec!Initial' = Exec!Initial
    BY <2>1 DEF Stages, Exec!Initial
  <2>3. FlowIInv'
    BY <1>0, <2>1, <2>2, FilesInHand DEF FlowIInv
  <2> QED BY <1>1, <2>1, <2>3
<1>6. CASE Exec!MissingFile
  <2>1. /\ status = "running" /\ at = "files" /\ todo # <<>> /\ ops = <<>>
        /\ UNCHANGED <<options, disk, remote, article>>
    BY <1>6 DEF Exec!MissingFile, Exec!Current, Exec!At, Exec!Rest
  <2>2. CASE Exec!StageFailed
    BY <1>2, <2>1, <2>2
  <2>3. CASE ~Exec!StageFailed
    <3>1. /\ todo' = Tail(todo) /\ output' = output /\ ops' = ops
          /\ UNCHANGED <<status, stage, taskFiles, at, sending, waiting>>
      BY <1>6, <2>3 DEF Exec!MissingFile, Exec!Rest
    <3>2. Stages' = Stages /\ Exec!Initial' = Exec!Initial
      BY <2>1 DEF Stages, Exec!Initial
    <3>3. FlowIInv'
      BY <1>0, <2>1, <3>1, <3>2, FilesInHand DEF FlowIInv
    <3> QED BY <1>1, <2>1, <3>1, <3>3
  <2> QED BY <2>2, <2>3
<1>7. CASE Exec!EndStage
  <2>1. /\ status = "running" /\ at = "files" /\ output \in Seq(Named) /\ Exec!StageDone(output)
        /\ UNCHANGED <<options, disk, remote, article>>
    BY <1>0, <1>7 DEF Exec!EndStage, Exec!At, FlowIInv
  <2> QED BY <1>2, <2>1
<1>8. CASE Exec!PublishFails
  <2>1. /\ status = "running" /\ article \subseteq article' /\ Exec!StageFailed
        /\ UNCHANGED <<options, disk, remote>>
    BY <1>8 DEF Exec!PublishFails, Exec!At, Exec!Published
  <2> QED BY <1>2, <2>1
<1>9. CASE Exec!EndPublish
  <2>1. /\ status = "running" /\ taskFiles \in Seq(Named) /\ Exec!StageDone(taskFiles)
        /\ UNCHANGED <<options, disk, remote, article>>
    BY <1>0, <1>9 DEF Exec!EndPublish, Exec!At, FlowIInv
  <2> QED BY <1>2, <2>1
<1>10. CASE Exec!LoginFails
  <2>1. /\ status = "running" /\ Exec!StageFailed
        /\ UNCHANGED <<options, disk, remote, article>>
    BY <1>10 DEF Exec!LoginFails, Exec!At
  <2> QED BY <1>2, <2>1
<1>11. CASE Exec!PickFile \/ Exec!AcquireSlot
  <2>1. /\ at = "upload"
        /\ UNCHANGED <<options, disk, remote, article, status, stage, taskFiles, at, ops>>
    BY <1>0, <1>11 DEF Exec!PickFile, Exec!AcquireSlot, Exec!At, FlowIInv
  <2>2. Stages' = Stages /\ Exec!Initial' = Exec!Initial
    BY <2>1 DEF Stages, Exec!Initial
  <2>3. FlowIInv'
    BY <1>0, <2>1, <2>2 DEF FlowIInv
  <2> QED BY <1>1, <2>1, <2>3
<1>12. CASE Exec!EndUpload
  <2>1. /\ status = "running" /\ stage = Stages
        /\ Exec!StageFailed \/ \E list : Exec!StageDone(list)
        /\ UNCHANGED <<options, disk, remote, article>>
    BY <1>0, <1>12 DEF Exec!EndUpload, Exec!At, FlowIInv
  <2> QED BY <1>2, <2>1
<1>13. CASE Exec!Cancel
  <2>1. UNCHANGED <<options, disk, remote, article, status, stage, taskFiles, at, todo, output, ops,
                    sending, waiting>>
    BY <1>13 DEF Exec!Cancel
  <2>2. Stages' = Stages /\ Exec!Initial' = Exec!Initial
    BY <2>1 DEF Stages, Exec!Initial
  <2>3. FlowIInv'
    BY <1>0, <2>1, <2>2 DEF FlowIInv
  <2> QED BY <1>1, <2>1, <2>3
<1>14. CASE Exec!Restart \/ Exec!RetryTask
  <2>1. /\ status' = "pending" /\ at' = "start" /\ ops' = <<>> /\ sending' = {} /\ waiting' = 0
        /\ UNCHANGED <<options, disk, remote, article>>
    BY <1>14 DEF Exec!Restart, Exec!RetryTask, Exec!Again, Exec!Reset
  <2>2. FlowIInv'
    BY <1>0, <2>1 DEF FlowIInv
  <2> QED BY <1>1, <2>1, <2>2
<1> QED BY <1>3, <1>4, <1>5, <1>6, <1>7, <1>8, <1>9, <1>10, <1>11, <1>12, <1>13, <1>14

\* A conversion writes beside the source, then removes no more than the source and its danmaku.
LEMMA Converts ==
    ASSUME NEW f \in disk, f \in Named, Exec!IsVideo(f), NEW ext \in Exec!VideoExts,
           NEW gone \in SUBSET {f, Exec!Ass(f)}
    PROVE  /\ Exec!With(f, ext) \in Named
           /\ Careful(Exec!Convert(f, Exec!With(f, ext), gone), disk)
<1> DEFINE g == Exec!With(f, ext)
           a == Exec!Ass(f)
           S == {Exec!Unlink(x) : x \in gone \ {g}}
           rest == Exec!SetToSeq(S)
<1>1. f \in AnyFile /\ f.tag = "" /\ f.base \in Recordings \X {0, 1, 2}
  BY DEF Named, AnyFile
<1>2. ext \in Suffixes /\ "ass" \in Suffixes
  BY DEF Suffixes
<1>3. g \in Named /\ g.base = f.base /\ Exec!IsVideo(g)
  BY <1>1, <1>2, FileNamed DEF Exec!With
<1>4. a \in Named /\ a.base = f.base
  BY <1>1, <1>2, FileNamed DEF Exec!With, Exec!Ass
<1>5. \A x \in gone : x \in AnyFile /\ x.base = g.base /\ x.tag = ""
  BY <1>1, <1>3, <1>4 DEF Named
<1> HIDE DEF g, a
<1>6. IsFiniteSet(S)
  <2>1. S \subseteq {Exec!Unlink(f)} \cup {Exec!Unlink(a)}
    BY DEF a
  <2>2. IsFiniteSet({Exec!Unlink(f)} \cup {Exec!Unlink(a)})
    BY FS_Singleton, FS_AddElement
  <2> HIDE DEF S
  <2> QED BY <2>1, <2>2, FS_Subset
<1>7. S \subseteq Removals
  BY <1>5 DEF Removals
<1>8. \A o \in S : o.from # g /\ o.from.base = g.base /\ o.from.tag = ""
  <2>1. SUFFICES ASSUME NEW x \in gone, x # g
                 PROVE  /\ Exec!Unlink(x).from # g /\ Exec!Unlink(x).from.base = g.base
                        /\ Exec!Unlink(x).from.tag = ""
    OBVIOUS
  <2> QED BY <1>5, <2>1, Unlinked
<1> HIDE DEF S
<1>9. rest \in Seq(S) /\ Exec!Range(rest) \subseteq S
  BY <1>6, Listed
<1>10. rest \in Seq(Removals)
  BY <1>7, <1>9
<1>11. Exec!Convert(f, g, gone)
         = <<Exec!Write(Exec!Tagged(g, "tmp")), Replace(Exec!Tagged(g, "tmp"), g)>> \o rest
  BY DEF Exec!Convert, Replace, S
<1> HIDE DEF rest
<1>12. ConvertingTo(Exec!Convert(f, g, gone), disk, g, rest)
  BY <1>1, <1>3, <1>8, <1>9, <1>11 DEF ConvertingTo
<1> QED BY <1>3, <1>10, <1>12 DEF Careful, Converting, g

\* The files a stage leaves are named files.
LEMMA Lists ==
    /\ \A x, y, z : (<<x>> \o <<y>>) \o <<z>> = <<x, y, z>>
    /\ \A v, w, x, y, z : (<<v, w>> \o <<x>>) \o <<y, z>> = <<v, w, x, y, z>>
<1>1. ASSUME NEW x, NEW y, NEW z PROVE (<<x>> \o <<y>>) \o <<z>> = <<x, y, z>>
  <2> DEFINE S == {x, y, z}
             l == <<x>>
             m == <<y>>
             r == <<z>>
             u == l \o m
             q == u \o r
  <2>1. /\ l \in Seq(S) /\ m \in Seq(S) /\ r \in Seq(S)
        /\ Len(l) = 1 /\ Len(m) = 1 /\ Len(r) = 1
        /\ l[1] = x /\ m[1] = y /\ r[1] = z
    OBVIOUS
  <2> HIDE DEF S, l, m, r
  <2>4. /\ u \in Seq(S) /\ Len(u) = 2
        /\ u[1] = x /\ u[2] = y
    <3>4. l \in Seq(S) /\ m \in Seq(S)
      BY <2>1
    <3>1. /\ l \o m \in Seq(S) /\ Len(l \o m) = Len(l) + Len(m)
          /\ \A i \in 1..Len(l) : (l \o m)[i] = l[i]
          /\ \A i \in 1..Len(m) : (l \o m)[Len(l) + i] = m[i]
      BY <3>4
    <3>2. /\ u \in Seq(S) /\ Len(u) = 2
          /\ \A i \in 1..1 : u[i] = l[i]
          /\ \A i \in 1..1 : u[1 + i] = m[i]
      BY <2>1, <3>1 DEF u
    <3>3. /\ u[1] = l[1]
          /\ u[1 + 1] = m[1]
      <4> HIDE DEF u
      <4> QED BY <3>2
    <3> HIDE DEF u
    <3> QED BY <2>1, <3>2, <3>3
  <2> HIDE DEF u
  <2>2. /\ q \in Seq(S) /\ Len(q) = 3
        /\ q[1] = x /\ q[2] = y /\ q[3] = z
    <3>4. u \in Seq(S) /\ r \in Seq(S)
      BY <2>1, <2>4
    <3>1. /\ u \o r \in Seq(S) /\ Len(u \o r) = Len(u) + Len(r)
          /\ \A i \in 1..Len(u) : (u \o r)[i] = u[i]
          /\ \A i \in 1..Len(r) : (u \o r)[Len(u) + i] = r[i]
      BY <3>4
    <3>2. /\ q \in Seq(S) /\ Len(q) = 3
          /\ \A i \in 1..2 : q[i] = u[i]
          /\ \A i \in 1..1 : q[2 + i] = r[i]
      BY <2>1, <2>4, <3>1 DEF q
    <3>3. /\ q[1] = u[1] /\ q[2] = u[2]
          /\ q[2 + 1] = r[1]
      <4> HIDE DEF q
      <4> QED BY <3>2
    <3> HIDE DEF q
    <3> QED BY <2>1, <2>4, <3>2, <3>3
  <2> HIDE DEF q
  <2>3. q = <<x, y, z>>
    BY <2>2
  <2> QED BY <2>3 DEF q, u, l, m, r
<1>2. ASSUME NEW v, NEW w, NEW x, NEW y, NEW z
      PROVE  (<<v, w>> \o <<x>>) \o <<y, z>> = <<v, w, x, y, z>>
  <2> DEFINE S == {v, w, x, y, z}
             l == <<v, w>>
             m == <<x>>
             r == <<y, z>>
             u == l \o m
             q == u \o r
  <2>1. /\ l \in Seq(S) /\ m \in Seq(S) /\ r \in Seq(S)
        /\ Len(l) = 2 /\ Len(m) = 1 /\ Len(r) = 2
        /\ l[1] = v /\ l[2] = w /\ m[1] = x /\ r[1] = y /\ r[2] = z
    OBVIOUS
  <2> HIDE DEF S, l, m, r
  <2>4. /\ u \in Seq(S) /\ Len(u) = 3
        /\ u[1] = v /\ u[2] = w /\ u[3] = x
    <3>4. l \in Seq(S) /\ m \in Seq(S)
      BY <2>1
    <3>1. /\ l \o m \in Seq(S) /\ Len(l \o m) = Len(l) + Len(m)
          /\ \A i \in 1..Len(l) : (l \o m)[i] = l[i]
          /\ \A i \in 1..Len(m) : (l \o m)[Len(l) + i] = m[i]
      BY <3>4
    <3>2. /\ u \in Seq(S) /\ Len(u) = 3
          /\ \A i \in 1..2 : u[i] = l[i]
          /\ \A i \in 1..1 : u[2 + i] = m[i]
      BY <2>1, <3>1 DEF u
    <3>3. /\ u[1] = l[1] /\ u[2] = l[2]
          /\ u[2 + 1] = m[1]
      <4> HIDE DEF u
      <4> QED BY <3>2
    <3> HIDE DEF u
    <3> QED BY <2>1, <3>2, <3>3
  <2> HIDE DEF u
  <2>2. /\ q \in Seq(S) /\ Len(q) = 5
        /\ q[1] = v /\ q[2] = w /\ q[3] = x /\ q[4] = y /\ q[5] = z
    <3>4. u \in Seq(S) /\ r \in Seq(S)
      BY <2>1, <2>4
    <3>1. /\ u \o r \in Seq(S) /\ Len(u \o r) = Len(u) + Len(r)
          /\ \A i \in 1..Len(u) : (u \o r)[i] = u[i]
          /\ \A i \in 1..Len(r) : (u \o r)[Len(u) + i] = r[i]
      BY <3>4
    <3>2. /\ q \in Seq(S) /\ Len(q) = 5
          /\ \A i \in 1..3 : q[i] = u[i]
          /\ \A i \in 1..2 : q[3 + i] = r[i]
      BY <2>1, <2>4, <3>1 DEF q
    <3>3. /\ q[1] = u[1] /\ q[2] = u[2] /\ q[3] = u[3]
          /\ q[3 + 1] = r[1] /\ q[3 + 2] = r[2]
      <4> HIDE DEF q
      <4> QED BY <3>2
    <3> HIDE DEF q
    <3> QED BY <2>1, <2>4, <3>2, <3>3
  <2> HIDE DEF q
  <2>3. q = <<v, w, x, y, z>>
    BY <2>2
  <2> QED BY <2>3 DEF q, u, l, m, r
<1> QED BY <1>1, <1>2, Zenon

\* The parts of a fixed recording hold what the recording held.
LEMMA FixedParts ==
    ASSUME NEW f \in disk, Whole(f), f \in Named, NEW n \in 1..2
    PROVE  Exec!Fixed(f, n) \in Seq(Named) /\ Careful(Exec!Fix(f, n), disk)
<1> DEFINE p1 == Part(f, 1)
           p2 == Part(f, 2)
           t == Exec!Tagged(f, "tmp")
           t1 == Exec!Tagged(p1, "tmp")
           t2 == Exec!Tagged(p2, "tmp")
           parts == Exec!Fixed(f, n)
           temps == [i \in 1..n |-> Exec!Tagged(parts[i], "tmp")]
           writes == [i \in 1..n |-> Exec!Write(temps[i])]
           moves == [i \in 1..n |-> Exec!Move(temps[i], parts[i], FALSE)]
<1>1. p1 \in Named /\ p2 \in Named /\ f \in Named
  BY Fixes DEF Named
<1>2. Exec!Fix(f, n) = (writes \o <<Exec!Unlink(f)>>) \o moves
  BY DEF Exec!Fix
<1>3. moves = [i \in 1..n |-> Rename(temps[i], parts[i])]
  BY DEF Rename
<1> HIDE DEF writes, moves, temps, parts, p1, p2
<1>4. CASE n = 1
  <2>1. parts = <<f>>
    BY <1>4 DEF Exec!Fixed, parts
  <2>2. temps = <<t>>
    BY <1>4, <2>1 DEF temps
  <2>3. writes = <<Exec!Write(t)>>
    BY <1>4, <2>2 DEF writes
  <2>4. moves = <<Rename(t, f)>>
    BY <1>3, <1>4, <2>1, <2>2
  <2>5. Exec!Fix(f, n) = <<Exec!Write(t), Exec!Unlink(f), Rename(t, f)>>
    BY <1>2, <2>3, <2>4, Lists
  <2>6. FixingWhole(Exec!Fix(f, n), disk, f, t)
    BY <2>5 DEF FixingWhole
  <2>7. parts \in Seq(Named)
    BY <1>1, <2>1
  <2> QED BY <2>6, <2>7 DEF Careful, Fixing, parts
<1>5. CASE n = 2
  <2>1. parts = <<p1, p2>>
    BY <1>5 DEF Exec!Fixed, Part, parts, p1, p2
  <2>2. temps = <<t1, t2>>
    BY <1>5, <2>1 DEF temps
  <2>3. writes = <<Exec!Write(t1), Exec!Write(t2)>>
    BY <1>5, <2>2 DEF writes
  <2>4. moves = <<Rename(t1, p1), Rename(t2, p2)>>
    BY <1>3, <1>5, <2>1, <2>2
  <2>5. Exec!Fix(f, n) = <<Exec!Write(t1), Exec!Write(t2), Exec!Unlink(f), Rename(t1, p1),
                           Rename(t2, p2)>>
    BY <1>2, <2>3, <2>4, Lists
  <2>6. FixingParts(Exec!Fix(f, n), disk, f, p1, p2, t1, t2)
    BY <2>5 DEF FixingParts
  <2>7. parts \in Seq(Named)
    BY <1>1, <2>1
  <2> QED BY <2>6, <2>7 DEF Careful, Fixing, parts, p1, p2
<1> QED BY <1>4, <1>5

\* Whatever the stage, the operations on a file are careful and lead to named files.
LEMMA Works ==
    ASSUME FlowIInv, status = "running", NEW f \in Exec!Range(taskFiles), f \in disk,
           ~Exec!PassesThrough(f), NEW w \in Exec!Work(f)
    PROVE  w.out \in Seq(Named) /\ Careful(w.ops, disk)
<1>1. f \in Named /\ Exec!IsVideo(f)
  BY FilesInHand DEF Exec!PassesThrough
<1>2. CASE Exec!Name = "fix_flv"
  <2>1. Whole(f)
    <3>1. stage \in 1..Len(Exec!Pipeline(options)) /\ options \in OptionSets
          /\ (stage = 1 => taskFiles = Exec!Initial)
      BY DEF FlowIInv, Stages
    <3>2. taskFiles = Exec!Initial
      BY <1>2, <3>1, StageOrder DEF Exec!Name
    <3> QED BY <3>1, <3>2, Initially
  <2>2. \/ \E n \in 1..2 : w = [ops |-> Exec!Fix(f, n), out |-> Exec!Fixed(f, n)]
        \/ w = [ops |-> <<>>, out |-> <<f>>]
    BY <1>2 DEF Exec!Work
  <2>3. CASE w = [ops |-> <<>>, out |-> <<f>>]
    <3>1. w.ops = <<>> /\ w.out = <<f>>
      BY <2>3
    <3> QED BY <1>1, <3>1 DEF Careful, Moving
  <2>4. ASSUME NEW n \in 1..2, w = [ops |-> Exec!Fix(f, n), out |-> Exec!Fixed(f, n)]
        PROVE  w.out \in Seq(Named) /\ Careful(w.ops, disk)
    <3>1. w.ops = Exec!Fix(f, n) /\ w.out = Exec!Fixed(f, n)
      BY <2>4
    <3> QED BY <1>1, <2>1, <3>1, FixedParts
  <2> QED BY <2>2, <2>3, <2>4
<1>3. CASE Exec!Name = "convert_mp4"
  <2> DEFINE gone == IF options.deleteSource THEN {f} ELSE {}
  <2>1. /\ w.ops = Exec!Convert(f, Exec!With(f, "mp4"), gone)
        /\ w.out = <<Exec!With(f, "mp4")>> \o Exec!When(~options.deleteSource, f)
    BY <1>3 DEF Exec!Work
  <2>2. "mp4" \in Exec!VideoExts /\ gone \in SUBSET {f, Exec!Ass(f)}
    BY DEF Exec!VideoExts
  <2> HIDE DEF gone
  <2>3. Exec!With(f, "mp4") \in Named /\ Careful(w.ops, disk)
    BY <1>1, <2>1, <2>2, Converts
  <2>4. Exec!When(~options.deleteSource, f) \in Seq(Named)
    <3>1. Exec!When(~options.deleteSource, f) = <<f>> \/ Exec!When(~options.deleteSource, f) = <<>>
      BY Optional
    <3>2. <<f>> \in Seq(Named) /\ <<>> \in Seq(Named)
      BY <1>1
    <3> QED BY <3>1, <3>2, Zenon
  <2>5. <<Exec!With(f, "mp4")>> \in Seq(Named)
    BY <2>3
  <2> QED BY <2>1, <2>3, <2>4, <2>5
<1>4. CASE Exec!Name = "convert_ts"
  <2>1. w.ops = Exec!Convert(f, Exec!With(f, "ts"), {f}) /\ w.out = <<Exec!With(f, "ts")>>
    BY <1>4 DEF Exec!Work
  <2>2. "ts" \in Exec!VideoExts /\ {f} \in SUBSET {f, Exec!Ass(f)}
    BY DEF Exec!VideoExts
  <2>3. Exec!With(f, "ts") \in Named /\ Careful(w.ops, disk)
    BY <1>1, <2>1, <2>2, Converts
  <2> QED BY <2>1, <2>3
<1>5. CASE Exec!Name = "repair_ts"
  <2>1. w.ops = Exec!Repair(f) /\ w.out = <<f>>
    BY <1>5 DEF Exec!Work
  <2>2. RepairingOf(w.ops, disk, f, Exec!Tagged(f, "tmp"), Exec!Tagged(f, "bak"))
    BY <1>1, <2>1 DEF RepairingOf, Exec!Repair, Replace
  <2> QED BY <1>1, <2>1, <2>2 DEF Careful, Repairing
<1>6. CASE Exec!Name \notin {"fix_flv", "convert_mp4", "convert_ts", "repair_ts"}
  <2> DEFINE gone == (IF options.burnDeleteAss THEN {Exec!Ass(f)} ELSE {})
                     \cup (IF options.burnDeleteSource THEN {f} ELSE {})
  <2>1. w.ops = Exec!Convert(f, Exec!Burned(f), gone) /\ w.out = <<Exec!Burned(f)>>
    BY <1>6 DEF Exec!Work
  <2>2. gone \in SUBSET {f, Exec!Ass(f)}
    OBVIOUS
  <2> HIDE DEF gone
  <2>3. PICK ext \in Exec!VideoExts : Exec!Burned(f) = Exec!With(f, ext)
    BY DEF Exec!Burned, Exec!VideoExts
  <2>4. Exec!Burned(f) \in Named /\ Careful(w.ops, disk)
    BY <1>1, <2>1, <2>2, <2>3, Converts
  <2> QED BY <2>1, <2>4
<1> QED BY <1>2, <1>3, <1>4, <1>5, <1>6

\* A disk that keeps what was there loses nothing.
LEMMA KeptIsNotLost ==
    ASSUME Exec!NothingLost, Keeps(disk, disk'), article' = article, remote \subseteq remote'
    PROVE  Exec!NothingLost'
<1> SUFFICES ASSUME NEW p \in Exec!Parts
             PROVE  \/ p \in article
                    \/ \E f \in disk' : Exec!IsVideo(f) /\ p \in Exec!Covers(f)
                    \/ \A s \in Storages : \E x \in remote' :
                         x[2] = s /\ Exec!IsVideo(x[1]) /\ p \in Exec!Covers(x[1])
    BY DEF Exec!NothingLost
<1>1. CASE \E f \in disk : Exec!IsVideo(f) /\ p \in Exec!Covers(f)
  BY <1>1 DEF Keeps
<1>2. CASE ~\E f \in disk : Exec!IsVideo(f) /\ p \in Exec!Covers(f)
  BY <1>2 DEF Exec!NothingLost
<1> QED BY <1>1, <1>2

LEMMA CarefulNext ==
    ASSUME article' = article
    PROVE  Careful(ops, disk)' <=> Careful(ops', disk')
BY DEF Careful, Deleting, Moving, Converting, ConvertingTo, Repairing, RepairingOf, Fixing,
       FixingWhole, FixingParts

LEMMA Working == ASSUME TaskIInv, Exec!WorkOnFile PROVE TaskIInv'
<1>1. FlowIInv /\ Exec!NothingLost
  BY DEF TaskIInv
<1>2. PICK f \in Exec!Range(taskFiles) :
          /\ Exec!Current(f) /\ ~Exec!PassesThrough(f) /\ f \in disk
          /\ \E w \in Exec!Work(f) : ops' = w.ops /\ output' = output \o w.out
          /\ Exec!Rest
  BY DEF Exec!WorkOnFile
<1>3. PICK w \in Exec!Work(f) : ops' = w.ops /\ output' = output \o w.out
  BY <1>2
<1>4. /\ status = "running" /\ at = "files" /\ todo # <<>> /\ todo' = Tail(todo)
      /\ UNCHANGED <<options, disk, remote, article, status, stage, taskFiles, at, sending,
           waiting>>
  BY <1>2 DEF Exec!Current, Exec!At, Exec!Rest
<1>5. w.out \in Seq(Named) /\ Careful(w.ops, disk)
  BY <1>1, <1>2, <1>4, Works
<1>6. output' \in Seq(Named) /\ todo' \in Seq(Named)
  <2>1. output \in Seq(Named)
    BY <1>1, <1>4 DEF FlowIInv
  <2> QED BY <1>1, <1>3, <1>4, <1>5, <2>1, FilesInHand
<1>7. Stages' = Stages /\ Exec!Initial' = Exec!Initial
  BY <1>4 DEF Stages, Exec!Initial
<1>8. FlowIInv'
  BY <1>1, <1>4, <1>6, <1>7 DEF FlowIInv
<1>9. Careful(ops, disk)'
  BY <1>3, <1>4, <1>5, CarefulNext
<1>10. Exec!NothingLost'
  BY <1>1, <1>4 DEF Exec!NothingLost
<1> QED BY <1>8, <1>9, <1>10 DEF TaskIInv

LEMMA Covering == ASSUME TaskIInv, Exec!ExtractCover PROVE TaskIInv'
<1>1. FlowIInv /\ Exec!NothingLost
  BY DEF TaskIInv
<1>2. PICK f \in Exec!Range(taskFiles), ok \in BOOLEAN :
          /\ Exec!Current(f)
          /\ disk' = IF ok THEN disk \cup {Exec!Cover(f)} ELSE disk
          /\ output' = IF ok THEN Append(output, Exec!Cover(f)) ELSE output
          /\ todo' = Tail(todo)
          /\ UNCHANGED <<options, remote, article, status, stage, taskFiles, at, ops, sending,
               waiting>>
  BY DEF Exec!ExtractCover
<1>3. status = "running" /\ at = "files" /\ todo # <<>> /\ ops = <<>>
  BY <1>2 DEF Exec!Current, Exec!At
<1>4. Exec!Cover(f) \in Named /\ Exec!Cover(f) \in AnyFile
  <2>1. f.base \in Recordings \X {0, 1, 2} /\ "jpg" \in Suffixes
    BY <1>1, <1>3, FilesInHand DEF Named, AnyFile, Suffixes
  <2>2. Exec!Cover(f) \in Named
    BY <2>1, FileNamed DEF Exec!Cover, Exec!With
  <2> QED BY <2>2 DEF Named
<1>5. output' \in Seq(Named) /\ todo' \in Seq(Named)
  <2>1. output \in Seq(Named)
    BY <1>1, <1>3 DEF FlowIInv
  <2>2. Append(output, Exec!Cover(f)) \in Seq(Named)
    BY <1>4, <2>1
  <2> QED BY <1>1, <1>2, <1>3, <2>1, <2>2, FilesInHand
<1>6. Stages' = Stages /\ Exec!Initial' = Exec!Initial
  BY <1>2 DEF Stages, Exec!Initial
<1>7. FlowIInv'
  BY <1>1, <1>2, <1>3, <1>4, <1>5, <1>6 DEF FlowIInv
<1>8. Careful(ops, disk)'
  BY <1>2, <1>3 DEF Careful, Moving
<1>9. Exec!NothingLost'
  <2>1. disk \subseteq disk'
    BY <1>2
  <2>2. Keeps(disk, disk')
    BY <2>1 DEF Keeps
  <2> QED BY <1>1, <1>2, <2>2, KeptIsNotLost
<1> QED BY <1>7, <1>8, <1>9 DEF TaskIInv

LEMMA Operating == ASSUME TaskIInv, Exec!Operate PROVE TaskIInv'
<1>1. /\ FlowIInv /\ Exec!NothingLost /\ Harmless /\ ops # <<>>
      /\ disk' = Exec!Apply(Head(ops)) /\ ops' = Tail(ops)
      /\ UNCHANGED <<options, remote, article, status, stage, taskFiles, at, todo, output, sending,
                     waiting>>
  BY CarefulIsHarmless DEF Exec!Operate, TaskIInv, FlowIInv
<1>2. disk' \subseteq AnyFile /\ Keeps(disk, disk') /\ Careful(ops', disk')
  BY <1>1 DEF Harmless
<1>3. Stages' = Stages /\ Exec!Initial' = Exec!Initial
  BY <1>1 DEF Stages, Exec!Initial
<1>4. FlowIInv'
  BY <1>1, <1>2, <1>3 DEF FlowIInv
<1>5. Careful(ops, disk)'
  BY <1>1, <1>2, CarefulNext
<1>6. Exec!NothingLost'
  BY <1>1, <1>2, KeptIsNotLost
<1> QED BY <1>4, <1>5, <1>6 DEF TaskIInv

\* The file a backup was made of.
Untagged(f) == Exec!Tagged(f, "")

\* An operation fails: what it began is cleaned up, or it is passed over.
LEMMA OperationFailing == ASSUME TaskIInv, Exec!OperationFails PROVE TaskIInv'
<1>1. /\ FlowIInv /\ Exec!NothingLost /\ Harmless /\ ops # <<>> /\ status = "running"
      /\ disk \subseteq AnyFile
      /\ UNCHANGED <<options, remote, article>>
  BY CarefulIsHarmless DEF Exec!OperationFails, TaskIInv, FlowIInv
<1>2. CASE Head(ops).hard
  <2> DEFINE cleaned == disk \ Temps
             saved == {f \in cleaned : /\ Exec!Name = "repair_ts" /\ f.tag = "bak"
                                        /\ Head(ops).to = Exec!Tagged(f, "")}
             restored == (cleaned \ saved) \cup {Exec!Tagged(f, "") : f \in saved}
  <2>1. disk' \in {cleaned, restored} /\ Exec!StageFailed
    BY <1>2 DEF Exec!OperationFails, Temps
  <2>2. Keeps(disk, cleaned) /\ cleaned \subseteq AnyFile
    BY <1>1, <1>2 DEF Harmless
  <2> HIDE DEF cleaned
  <2>3. Keeps(cleaned, restored) /\ restored \subseteq AnyFile
    <3>1. \A f \in saved : Exec!Tagged(f, "") \in AnyFile
      BY <2>2, Tags
    <3>2. \A f \in saved : /\ Exec!Covers(Exec!Tagged(f, "")) = Exec!Covers(f)
                           /\ Exec!IsVideo(Exec!Tagged(f, "")) <=> Exec!IsVideo(f)
      BY <2>2, Tags
    <3>3. restored = (cleaned \ saved) \cup {Untagged(f) : f \in saved}
      BY DEF Untagged
    <3>4. \A f \in saved : Untagged(f) \in AnyFile
      BY <3>1, Zenon DEF Untagged
    <3>5. \A f \in saved : /\ Exec!Covers(Untagged(f)) = Exec!Covers(f)
                           /\ Exec!IsVideo(Untagged(f)) <=> Exec!IsVideo(f)
      BY <3>2, Zenon DEF Untagged
    <3> HIDE DEF restored, saved
    <3>6. ASSUME NEW g \in restored
          PROVE  g \in AnyFile
      <4>1. g \in cleaned \/ \E f \in saved : g = Untagged(f)
        BY <3>3
      <4> QED BY <2>2, <4>1, <3>4
    <3>7. \A f \in cleaned : f \in restored \/ (f \in saved /\ Untagged(f) \in restored)
      BY <3>3
    <3> QED BY <3>5, <3>6, <3>7 DEF Keeps
  <2>4. Keeps(disk, restored)
    BY <2>2, <2>3, KeepsThrough
  <2>5. Keeps(disk, disk') /\ disk' \subseteq AnyFile
    BY <2>1, <2>2, <2>3, <2>4
  <2>6. FlowIInv' /\ ops' = <<>>
    BY <1>1, <2>1, <2>5, Fails
  <2>7. Exec!NothingLost'
    BY <1>1, <2>5, KeptIsNotLost
  <2> QED BY <2>6, <2>7 DEF TaskIInv, Careful, Moving
<1>3. CASE ~Head(ops).hard
  <2>1. /\ ops' = Tail(ops)
        /\ UNCHANGED <<disk, status, stage, taskFiles, at, todo, output, sending, waiting>>
    BY <1>3 DEF Exec!OperationFails
  <2>2. Careful(ops', disk')
    BY <1>1, <1>3, <2>1 DEF Harmless
  <2>3. Careful(ops, disk)'
    BY <1>1, <2>2, CarefulNext
  <2>4. Stages' = Stages /\ Exec!Initial' = Exec!Initial
    BY <1>1, <2>1 DEF Stages, Exec!Initial
  <2>5. FlowIInv'
    BY <1>1, <2>1, <2>4 DEF FlowIInv
  <2>6. Exec!NothingLost'
    BY <1>1, <2>1 DEF Exec!NothingLost
  <2> QED BY <2>3, <2>5, <2>6 DEF TaskIInv
<1> QED BY <1>2, <1>3

LEMMA Publishing == ASSUME TaskIInv, Exec!Publish PROVE TaskIInv'
<1>1. /\ FlowIInv /\ Exec!NothingLost /\ disk \subseteq AnyFile
      /\ status = "running" /\ at = "publish" /\ article' = Exec!Published
      /\ UNCHANGED <<options, disk, remote, status, stage, taskFiles, at, todo, sending, waiting>>
      /\ ops' = IF options.publishDelete
                THEN Exec!SetToSeq({Exec!Unlink(f) : f \in Exec!Existing}) ELSE <<>>
  BY DEF Exec!Publish, Exec!At, TaskIInv, FlowIInv
<1> DEFINE S == {Exec!Unlink(f) : f \in Exec!Existing}
<1>2. article \subseteq article' /\ \A f \in Exec!Existing : Exec!Covers(f) \subseteq article'
  BY <1>1 DEF Exec!Published
<1>3. IsFiniteSet(S)
  <2>1. taskFiles \in Seq(Named) /\ Exec!Existing \subseteq Exec!Range(taskFiles)
    BY <1>1 DEF FlowIInv, Exec!Existing
  <2>2. Len(taskFiles) \in Nat /\ DOMAIN taskFiles = 1..Len(taskFiles)
    BY <2>1
  <2> DEFINE all == {Exec!Unlink(f) : f \in Exec!Range(taskFiles)}
             each == [i \in 1..Len(taskFiles) |-> Exec!Unlink(taskFiles[i])]
  <2>3. /\ each \in [1..Len(taskFiles) -> all]
        /\ \A x \in all : \E i \in 1..Len(taskFiles) : each[i] = x
    BY <2>2 DEF Exec!Range
  <2>4. each \in Surjection(1..Len(taskFiles), all)
    BY <2>3 DEF Surjection
  <2>5. IsFiniteSet(1..Len(taskFiles))
    BY <2>2, FS_Interval
  <2>6. IsFiniteSet(all)
    BY <2>4, <2>5, FS_Surjection
  <2>7. S \subseteq all
    BY <2>1
  <2> HIDE DEF S, all
  <2> QED BY <2>6, <2>7, FS_Subset
<1>4. Exec!SetToSeq(S) \in Seq(S) /\ Exec!Range(Exec!SetToSeq(S)) \subseteq S
  <2> HIDE DEF S
  <2> QED BY <1>3, Listed
<1>5. S \subseteq Removals
  BY <1>1 DEF Exec!Existing, Removals
<1>6. \A o \in S : Exec!Covers(o.from) \subseteq article'
  <2>1. SUFFICES ASSUME NEW f \in Exec!Existing
                   PROVE Exec!Covers(Exec!Unlink(f).from) \subseteq article'
    OBVIOUS
  <2> QED BY <1>2, Unlinked
<1> HIDE DEF S
<1>7. Careful(ops, disk)'
  <2>1. CASE ops' = <<>>
    BY <2>1 DEF Careful, Moving
  <2>2. CASE ops' = Exec!SetToSeq(S)
    <3>1. ops' \in Seq(Removals) /\ Exec!Range(ops') \subseteq S
      BY <1>4, <1>5, <2>2
    <3>2. Deleting(ops, disk)'
      BY <1>6, <3>1 DEF Deleting, Removals
    <3> QED BY <3>2 DEF Careful
  <2> QED BY <1>1, <2>1, <2>2 DEF S
<1>8. Stages' = Stages /\ Exec!Initial' = Exec!Initial
  BY <1>1 DEF Stages, Exec!Initial
<1>9. FlowIInv'
  BY <1>1, <1>8 DEF FlowIInv
<1>10. Exec!NothingLost'
  BY <1>1, <1>2 DEF Exec!NothingLost
<1> QED BY <1>7, <1>9, <1>10 DEF TaskIInv

LEMMA Uploading == ASSUME TaskIInv, NEW i \in sending, Exec!Upload(i) PROVE TaskIInv'
<1>1. FlowIInv /\ Exec!NothingLost /\ at = "upload" /\ ops = <<>>
  BY DEF TaskIInv, FlowIInv
<1>2. PICK reached \in SUBSET Storages, removed \in BOOLEAN :
          /\ removed => reached = Storages
          /\ remote' = remote \cup ({taskFiles[i]} \X reached)
          /\ disk' = IF removed THEN disk \ {taskFiles[i]} ELSE disk
          /\ UNCHANGED <<options, article, status, stage, taskFiles, at, ops>>
  BY DEF Exec!Upload
<1>3. Stages' = Stages /\ Exec!Initial' = Exec!Initial
  BY <1>2 DEF Stages, Exec!Initial
<1>4. FlowIInv'
  BY <1>1, <1>2, <1>3 DEF FlowIInv
<1>5. Careful(ops, disk)'
  BY <1>1, <1>2 DEF Careful, Moving
<1>6. Exec!NothingLost'
  <2>1. CASE ~removed
    BY <1>1, <1>2, <2>1 DEF Exec!NothingLost
  <2>2. CASE removed
    <3>1. SUFFICES ASSUME NEW p \in Exec!Parts
             PROVE  \/ p \in article
                    \/ \E f \in disk' : Exec!IsVideo(f) /\ p \in Exec!Covers(f)
                    \/ \A s \in Storages : \E x \in remote' :
                         x[2] = s /\ Exec!IsVideo(x[1]) /\ p \in Exec!Covers(x[1])
      BY <1>2 DEF Exec!NothingLost
    <3>2. disk' = disk \ {taskFiles[i]} /\ remote' = remote \cup ({taskFiles[i]} \X Storages)
      BY <1>2, <2>2
    <3>3. CASE Exec!IsVideo(taskFiles[i]) /\ p \in Exec!Covers(taskFiles[i])
      <4>1. ASSUME NEW s \in Storages
            PROVE  \E x \in remote' : x[2] = s /\ Exec!IsVideo(x[1]) /\ p \in Exec!Covers(x[1])
        <5>1. <<taskFiles[i], s>> \in remote'
          BY <3>2
        <5>2. <<taskFiles[i], s>>[1] = taskFiles[i] /\ <<taskFiles[i], s>>[2] = s
          OBVIOUS
        <5> QED BY <3>3, <5>1, <5>2, Zenon
      <4> QED BY <4>1
    <3>4. CASE ~(Exec!IsVideo(taskFiles[i]) /\ p \in Exec!Covers(taskFiles[i]))
      BY <1>1, <3>2, <3>4 DEF Exec!NothingLost
    <3> QED BY <3>3, <3>4
  <2> QED BY <2>1, <2>2
<1> QED BY <1>4, <1>5, <1>6 DEF TaskIInv

\* No step of a task, of whatever stages and at whatever failure, loses a recording.
LEMMA NextTask == TaskIInv /\ [Exec!Next]_(Exec!execVars) => TaskIInv'
<1> SUFFICES ASSUME TaskIInv, [Exec!Next]_(Exec!execVars) PROVE TaskIInv'
    OBVIOUS
<1>1. CASE UNCHANGED Exec!execVars
  <2>1. UNCHANGED <<options, disk, remote, article, status, stage, taskFiles, at, todo, output, ops,
                    sending, waiting>>
    BY <1>1 DEF Exec!execVars
  <2>2. Stages' = Stages /\ Exec!Initial' = Exec!Initial
    BY <2>1 DEF Stages, Exec!Initial
  <2>3. FlowIInv'
    BY <2>1, <2>2 DEF FlowIInv, TaskIInv
  <2> QED BY <2>1, <2>3, Untouched DEF TaskIInv
<1>2. CASE Exec!Next
  BY <1>2, FlowSteps, Working, Covering, Operating, OperationFailing, Publishing, Uploading
     DEF Exec!Next
<1> QED BY <1>1, <1>2

------------------------------------------------------------------------------
(* What a task that succeeds at once has delivered *)

DiskOp == [do : {"write", "move", "remove"}, from : AnyFile, to : AnyFile, hard : BOOLEAN]

Takes(o, f)  == o.do # "write" /\ o.from = f
Writes(o, f) == o.do = "write" /\ o.hard /\ o.to = f
Brings(o, f) == o.do = "move" /\ o.hard /\ o.to = f

\* None of the operations between two takes f away.
Between(f, s, i, k) == \A j \in 1..Len(s) : i < j /\ j < k => ~Takes(s[j], f)

\* f is on the disk when operation k is reached.
There(f, s, d, k) ==
    \/ f \in d /\ Between(f, s, 0, k)
    \/ \E i \in 1..Len(s) : i < k /\ Writes(s[i], f) /\ Between(f, s, i, k)

\* f is on the disk after the operations s, unless one that matters fails.
Comes(f, s, d) ==
    \/ f \in d /\ Between(f, s, 0, Len(s) + 1)
    \/ \E k \in 1..Len(s) : /\ Brings(s[k], f) /\ Between(f, s, k, Len(s) + 1)
                            /\ There(s[k].from, s, d, k)

\* The first operation and the others.
LEMMA Shifted ==
    \A s \in Seq(DiskOp) : s # <<>> =>
        /\ Len(s) \in Nat /\ Len(Tail(s)) = Len(s) - 1 /\ Head(s) = s[1]
        /\ Tail(s) \in Seq(DiskOp) /\ Head(s) \in DiskOp
        /\ \A j \in 1..(Len(s) - 1) : Tail(s)[j] = s[j + 1] /\ j + 1 \in 1..Len(s)
OBVIOUS

\* What no operation takes away is not taken away by those after the first.
LEMMA BetweenNext ==
    \A s \in Seq(DiskOp) : s # <<>> =>
        \A f : \A i, k \in Nat : Between(f, s, i, k) =>
            /\ i = 0 => Between(f, Tail(s), 0, k - 1)
            /\ i # 0 => Between(f, Tail(s), i - 1, k - 1)
<1> SUFFICES ASSUME NEW s \in Seq(DiskOp), s # <<>>, NEW f, NEW i \in Nat, NEW k \in Nat,
                    Between(f, s, i, k)
             PROVE  /\ i = 0 => Between(f, Tail(s), 0, k - 1)
                    /\ i # 0 => Between(f, Tail(s), i - 1, k - 1)
    OBVIOUS
<1>1. /\ Len(s) \in Nat /\ Len(Tail(s)) = Len(s) - 1
      /\ \A j \in 1..(Len(s) - 1) : Tail(s)[j] = s[j + 1] /\ j + 1 \in 1..Len(s)
  BY Shifted
<1> QED BY <1>1 DEF Between

\* What comes still comes after the first operation, done or passed over.
LEMMA ComesNext ==
    \A s \in Seq(DiskOp) : s # <<>> => \A f, d, e :
        /\ Comes(f, s, d)
        /\ \A g : g \in d /\ ~Takes(Head(s), g) => g \in e
        /\ \A g : Writes(Head(s), g) => g \in e
        /\ \A g : Brings(Head(s), g) /\ Head(s).from \in d => g \in e
        => Comes(f, Tail(s), e)
<1> SUFFICES ASSUME NEW s \in Seq(DiskOp), s # <<>>, NEW f, NEW d, NEW e, Comes(f, s, d),
                    \A g : g \in d /\ ~Takes(Head(s), g) => g \in e,
                    \A g : Writes(Head(s), g) => g \in e,
                    \A g : Brings(Head(s), g) /\ Head(s).from \in d => g \in e
             PROVE  Comes(f, Tail(s), e)
    OBVIOUS
<1>1. /\ Len(s) \in Nat \ {0} /\ Len(Tail(s)) = Len(s) - 1 /\ Head(s) = s[1]
      /\ \A j \in 1..(Len(s) - 1) : Tail(s)[j] = s[j + 1]
      /\ \A j \in 1..Len(s) : j # 1 => j - 1 \in 1..(Len(s) - 1) /\ s[j] = Tail(s)[j - 1]
  <2>1. /\ Len(s) \in Nat /\ Len(Tail(s)) = Len(s) - 1 /\ Head(s) = s[1]
        /\ \A j \in 1..(Len(s) - 1) : Tail(s)[j] = s[j + 1]
    BY Shifted
  <2>2. Len(s) # 0
    OBVIOUS
  <2> QED BY <2>1, <2>2
<1>2. CASE f \in d /\ Between(f, s, 0, Len(s) + 1)
  <2>1. Between(f, Tail(s), 0, Len(Tail(s)) + 1)
    BY <1>1, <1>2, BetweenNext
  <2>2. f \in e
    BY <1>1, <1>2 DEF Between
  <2> QED BY <2>1, <2>2 DEF Comes
<1>3. ASSUME NEW k \in 1..Len(s), Brings(s[k], f), Between(f, s, k, Len(s) + 1),
             There(s[k].from, s, d, k)
      PROVE  Comes(f, Tail(s), e)
  <2>1. Between(f, Tail(s), k - 1, Len(Tail(s)) + 1)
    BY <1>1, <1>3, BetweenNext
  <2>2. CASE k = 1
    <3>1. s[k].from \in d
      BY <1>3, <2>2 DEF There
    <3>2. f \in e
      BY <1>1, <1>3, <2>2, <3>1
    <3> QED BY <2>1, <2>2, <3>2 DEF Comes
  <2>3. CASE k # 1
    <3> DEFINE t == s[k].from
    <3>1. k - 1 \in 1..Len(Tail(s)) /\ Tail(s)[k - 1] = s[k]
      BY <1>1, <2>3
    <3>2. There(t, Tail(s), e, k - 1)
      <4> HIDE DEF t
      <4>1. CASE t \in d /\ Between(t, s, 0, k)
        <5>1. Between(t, Tail(s), 0, k - 1)
          BY <1>1, <4>1, BetweenNext
        <5>2. t \in e
          BY <1>1, <2>3, <4>1 DEF Between
        <5> QED BY <5>1, <5>2 DEF There
      <4>2. ASSUME NEW i \in 1..Len(s), i < k, Writes(s[i], t), Between(t, s, i, k)
            PROVE  There(t, Tail(s), e, k - 1)
        <5>1. Between(t, Tail(s), i - 1, k - 1)
          BY <1>1, <4>2, BetweenNext
        <5>2. CASE i = 1
          <6>1. t \in e
            BY <1>1, <4>2, <5>2
          <6> QED BY <5>1, <5>2, <6>1 DEF There
        <5>3. CASE i # 1
          <6>1. i - 1 \in 1..Len(Tail(s)) /\ i - 1 < k - 1 /\ Writes(Tail(s)[i - 1], t)
            BY <1>1, <4>2, <5>3
          <6> QED BY <5>1, <6>1 DEF There
        <5> QED BY <5>2, <5>3
      <4> QED BY <1>3, <4>1, <4>2 DEF There, t
    <3> QED BY <1>3, <2>1, <3>1, <3>2 DEF Comes
  <2> QED BY <2>2, <2>3
<1> QED BY <1>2, <1>3 DEF Comes

\* The operations of the stages; the first writes, the second renames.
LEMMA OfWrite ==
    \A f : /\ Exec!Write(f).do = "write" /\ Exec!Write(f).to = f /\ Writes(Exec!Write(f), f)
           /\ f \in AnyFile => Exec!Write(f) \in DiskOp
<1>1. \A f : Exec!Write(f).do = "write" /\ Exec!Write(f).to = f /\ Exec!Write(f).hard = TRUE
  BY DEF Exec!Write
<1>2. \A f \in AnyFile : Exec!Write(f) \in DiskOp
  <2> HIDE DEF AnyFile
  <2> QED BY DEF Exec!Write, DiskOp
<1> QED BY <1>1, <1>2 DEF Writes

LEMMA OfReplace ==
    \A f, g : /\ Replace(f, g).do = "move" /\ Replace(f, g).from = f /\ Brings(Replace(f, g), g)
              /\ Replace(f, g).hard
              /\ f \in AnyFile /\ g \in AnyFile => Replace(f, g) \in DiskOp
<1>1. \A f, g : /\ Replace(f, g).do = "move" /\ Replace(f, g).from = f
                /\ Replace(f, g).to = g /\ Replace(f, g).hard = TRUE
  BY DEF Replace, Exec!Move
<1>2. \A f, g \in AnyFile : Replace(f, g) \in DiskOp
  <2> HIDE DEF AnyFile
  <2> QED BY DEF Replace, Exec!Move, DiskOp
<1> QED BY <1>1, <1>2 DEF Brings

LEMMA OfUnlink ==
    \A f : /\ Exec!Unlink(f).do = "remove" /\ Exec!Unlink(f).from = f
           /\ f \in AnyFile => Exec!Unlink(f) \in DiskOp
<1>1. \A f : Exec!Unlink(f).do = "remove" /\ Exec!Unlink(f).from = f
  BY DEF Exec!Unlink
<1>2. \A f \in AnyFile : Exec!Unlink(f) \in DiskOp
  <2> HIDE DEF AnyFile
  <2> QED BY DEF Exec!Unlink, DiskOp
<1> QED BY <1>1, <1>2

\* What the operations on f make of it: a video of the same recording comes, and no other
\* video is taken away.
Makes(f, s, out) ==
    /\ s \in Seq(DiskOp) /\ \A o \in Exec!Range(s) : o.do # "remove" => o.hard
    /\ \A h \in Named : Exec!IsVideo(h) /\ h # f => Between(h, s, 0, Len(s) + 1)
    /\ \E g \in Exec!Range(out) :
          g \in Named /\ Exec!IsVideo(g) /\ g.base = f.base /\ Comes(g, s, disk)

\* The result of a conversion takes its name before the source goes.
LEMMA ConvertMakes ==
    \A f \in Named : \A ext \in Exec!VideoExts : \A gone \in SUBSET {f, Exec!Ass(f)} :
        Exec!IsVideo(f) =>
            \A out : Exec!With(f, ext) \in Exec!Range(out) =>
                Makes(f, Exec!Convert(f, Exec!With(f, ext), gone), out)
<1> SUFFICES ASSUME NEW f \in Named, NEW ext \in Exec!VideoExts,
                    NEW gone \in SUBSET {f, Exec!Ass(f)}, Exec!IsVideo(f),
                    NEW out, Exec!With(f, ext) \in Exec!Range(out)
             PROVE  Makes(f, Exec!Convert(f, Exec!With(f, ext), gone), out)
    OBVIOUS
<1> DEFINE g == Exec!With(f, ext)
           t == Exec!Tagged(g, "tmp")
           S == {Exec!Unlink(x) : x \in gone \ {g}}
           rest == Exec!SetToSeq(S)
           c == <<Exec!Write(t), Replace(t, g)>> \o rest
<1>1. f.tag = "" /\ f \in AnyFile /\ f.base \in Recordings \X {0, 1, 2}
  BY DEF Named, AnyFile
<1>2. ext \in Suffixes /\ "ass" \in Suffixes
  BY DEF Suffixes
<1>3. g \in Named /\ g.base = f.base /\ Exec!IsVideo(g)
  BY <1>1, <1>2, FileNamed DEF Exec!With
<1>4. Exec!Ass(f) \in Named /\ ~Exec!IsVideo(Exec!Ass(f))
  <2>1. "ass" \notin Exec!VideoExts
    BY DEF Exec!VideoExts
  <2>2. Exec!Ass(f) = Exec!File(f.base, "ass")
    BY DEF Exec!With, Exec!Ass
  <2>3. Exec!File(f.base, "ass") \in Named /\ ~Exec!IsVideo(Exec!File(f.base, "ass"))
    BY <1>1, <1>2, <2>1, FileNamed
  <2> QED BY <2>2, <2>3, Zenon
<1>5. g \in AnyFile /\ t \in AnyFile /\ t.tag = "tmp"
  BY <1>3, Tags DEF Named
<1> HIDE DEF g, t
<1>6. IsFiniteSet(S)
  <2>1. S \subseteq {Exec!Unlink(f)} \cup {Exec!Unlink(Exec!Ass(f))}
    OBVIOUS
  <2>2. IsFiniteSet({Exec!Unlink(f)} \cup {Exec!Unlink(Exec!Ass(f))})
    BY FS_Singleton, FS_AddElement
  <2> HIDE DEF S
  <2> QED BY <2>1, <2>2, FS_Subset
<1>7. \A o \in S : /\ o \in DiskOp /\ o.do = "remove" /\ o.from # g
                   /\ \A h \in Named : Exec!IsVideo(h) /\ h # f => o.from # h
  <2>1. SUFFICES ASSUME NEW x \in gone, x # g
                 PROVE  /\ Exec!Unlink(x) \in DiskOp /\ Exec!Unlink(x).do = "remove"
                        /\ Exec!Unlink(x).from = x /\ x \in {f, Exec!Ass(f)}
    BY <1>4
  <2>2. x \in AnyFile
    BY <1>1, <1>4, <2>1 DEF Named
  <2> QED BY <2>1, <2>2, OfUnlink
<1> HIDE DEF S
<1>8. rest \in Seq(S)
  BY <1>6, Listed
<1>9. Exec!Convert(f, g, gone) = c
  BY DEF Exec!Convert, Replace, S, t
<1> HIDE DEF rest
<1>10. /\ Exec!Write(t) \in DiskOp /\ Replace(t, g) \in DiskOp
       /\ Exec!Write(t).do = "write" /\ Writes(Exec!Write(t), t)
       /\ Replace(t, g).do = "move" /\ Brings(Replace(t, g), g) /\ Replace(t, g).from = t
  BY <1>5, OfWrite, OfReplace
<1>11. /\ Len(rest) \in Nat /\ c \in Seq(DiskOp) /\ Len(c) = Len(rest) + 2
       /\ c[1] = Exec!Write(t) /\ c[2] = Replace(t, g)
       /\ \A j \in 1..Len(c) : j > 2 => c[j] \in S
  <2>1. rest \in Seq(DiskOp) /\ Len(rest) \in Nat
    BY <1>7, <1>8
  <2>2. c \in Seq(DiskOp) /\ Len(c) = Len(rest) + 2
    BY <1>10, <2>1
  <2>3. c[1] = Exec!Write(t) /\ c[2] = Replace(t, g)
    BY <2>1
  <2>4. \A j \in 1..Len(c) : j > 2 => c[j] = rest[j - 2] /\ j - 2 \in 1..Len(rest)
    BY <2>1, <2>2
  <2> QED BY <1>8, <2>1, <2>2, <2>3, <2>4
<1> HIDE DEF c
<1>12. \A j \in 1..Len(c) : j = 1 \/ j = 2 \/ j > 2
  BY <1>11
<1>13. \A o \in Exec!Range(c) : o.do # "remove" => o.hard
  <2>1. \A j \in 1..Len(c) : c[j].do # "remove" => c[j].hard
    BY <1>7, <1>10, <1>11, <1>12 DEF Writes, Brings
  <2>2. DOMAIN c = 1..Len(c)
    BY <1>11
  <2> QED BY <2>1, <2>2 DEF Exec!Range
<1>14. ASSUME NEW h \in Named, Exec!IsVideo(h), h # f
       PROVE  Between(h, c, 0, Len(c) + 1)
  <2>1. h # t
    BY <1>5, <1>14 DEF Named
  <2> QED BY <1>7, <1>10, <1>11, <1>12, <1>14, <2>1 DEF Between, Takes
<1>15. Comes(g, c, disk)
  <2>1. There(t, c, disk, 2)
    <3>1. 1 \in 1..Len(c) /\ 1 < 2 /\ Writes(c[1], t)
      BY <1>10, <1>11
    <3>2. Between(t, c, 1, 2)
      BY <1>11 DEF Between
    <3> QED BY <3>1, <3>2 DEF There
  <2>2. Between(g, c, 2, Len(c) + 1)
    BY <1>7, <1>11 DEF Between, Takes
  <2>3. 2 \in 1..Len(c) /\ Brings(c[2], g) /\ c[2].from = t
    BY <1>10, <1>11
  <2> QED BY <2>1, <2>2, <2>3 DEF Comes
<1>16. g \in Exec!Range(out)
  BY DEF g
<1>17. Makes(f, c, out)
  BY <1>3, <1>11, <1>13, <1>14, <1>15, <1>16 DEF Makes
<1> QED BY <1>9, <1>17 DEF g

\* A repaired file takes the name of the original before the backup goes.
LEMMA RepairMakes ==
    \A f \in Named : Exec!IsVideo(f) => Makes(f, Exec!Repair(f), <<f>>)
<1> SUFFICES ASSUME NEW f \in Named, Exec!IsVideo(f) PROVE Makes(f, Exec!Repair(f), <<f>>)
    OBVIOUS
<1> DEFINE t == Exec!Tagged(f, "tmp")
           b == Exec!Tagged(f, "bak")
           c == <<Exec!Write(t), Replace(f, b), Replace(t, f), Exec!Unlink(b)>>
<1>1. Exec!Repair(f) = c
  BY DEF Exec!Repair, Replace
<1>2. /\ f \in AnyFile /\ t \in AnyFile /\ b \in AnyFile
      /\ f.tag = "" /\ t.tag = "tmp" /\ b.tag = "bak"
  BY Tags DEF Named
<1> HIDE DEF t, b
<1>3. /\ Exec!Write(t) \in DiskOp /\ Replace(f, b) \in DiskOp /\ Replace(t, f) \in DiskOp
      /\ Exec!Unlink(b) \in DiskOp
      /\ Exec!Write(t).do = "write" /\ Writes(Exec!Write(t), t)
      /\ Replace(f, b).do = "move" /\ Replace(f, b).hard /\ Replace(f, b).from = f
      /\ Replace(t, f).do = "move" /\ Brings(Replace(t, f), f) /\ Replace(t, f).from = t
      /\ Exec!Unlink(b).do = "remove" /\ Exec!Unlink(b).from = b
  BY <1>2, OfWrite, OfReplace, OfUnlink
<1>4. /\ c \in Seq(DiskOp) /\ Len(c) = 4 /\ DOMAIN c = 1..4
      /\ c[1] = Exec!Write(t) /\ c[2] = Replace(f, b) /\ c[3] = Replace(t, f)
      /\ c[4] = Exec!Unlink(b)
  BY <1>3
<1> HIDE DEF c
<1>5. \A j \in 1..4 : j = 1 \/ j = 2 \/ j = 3 \/ j = 4
  OBVIOUS
<1>6. \A o \in Exec!Range(c) : o.do # "remove" => o.hard
  <2>1. \A j \in 1..4 : c[j].do # "remove" => c[j].hard
    BY <1>3, <1>4, <1>5 DEF Writes, Brings
  <2> QED BY <1>4, <2>1 DEF Exec!Range
<1>7. ASSUME NEW h \in Named, Exec!IsVideo(h), h # f
      PROVE  Between(h, c, 0, Len(c) + 1)
  <2>1. h # t /\ h # b
    BY <1>2, <1>7 DEF Named
  <2> QED BY <1>3, <1>4, <1>5, <1>7, <2>1 DEF Between, Takes
<1>8. Comes(f, c, disk)
  <2>1. There(t, c, disk, 3)
    <3>1. Between(t, c, 1, 3)
      <4>1. f # t
        BY <1>2
      <4> QED BY <1>3, <1>4, <4>1 DEF Between, Takes
    <3> QED BY <1>3, <1>4, <3>1 DEF There
  <2>2. Between(f, c, 3, Len(c) + 1)
    <3>1. f # b
      BY <1>2
    <3> QED BY <1>3, <1>4, <3>1 DEF Between, Takes
  <2>3. 3 \in 1..Len(c) /\ Brings(c[3], f) /\ c[3].from = t
    BY <1>3, <1>4
  <2> QED BY <2>1, <2>2, <2>3 DEF Comes
<1>9. f \in Exec!Range(<<f>>)
  BY DEF Exec!Range
<1> QED BY <1>1, <1>4, <1>6, <1>7, <1>8, <1>9 DEF Makes

------------------------------------------------------------------------------
(* The stages the options ask for *)

\* The elements of two sequences, one after the other.
LEMMA Joined ==
    \A N : \A s, t \in Seq(N) :
        /\ s \o t \in Seq(N)
        /\ \A x : x \in Exec!Range(s \o t) <=> x \in Exec!Range(s) \/ x \in Exec!Range(t)
        /\ t # <<>> => s \o t # <<>> /\ (s \o t)[Len(s \o t)] = t[Len(t)]
<1> SUFFICES ASSUME NEW N, NEW s \in Seq(N), NEW t \in Seq(N)
             PROVE  /\ s \o t \in Seq(N)
                    /\ \A x : x \in Exec!Range(s \o t) <=>
                                x \in Exec!Range(s) \/ x \in Exec!Range(t)
                    /\ t # <<>> => s \o t # <<>> /\ (s \o t)[Len(s \o t)] = t[Len(t)]
    OBVIOUS
<1> DEFINE u == s \o t
<1>1. /\ u \in Seq(N) /\ Len(u) = Len(s) + Len(t) /\ Len(s) \in Nat /\ Len(t) \in Nat
      /\ \A k \in 1..Len(s) : u[k] = s[k] /\ k \in 1..Len(u)
      /\ \A k \in 1..Len(t) : u[Len(s) + k] = t[k] /\ Len(s) + k \in 1..Len(u)
      /\ DOMAIN u = 1..Len(u) /\ DOMAIN s = 1..Len(s) /\ DOMAIN t = 1..Len(t)
      /\ t # <<>> => Len(t) # 0
  OBVIOUS
<1>2. \A k \in 1..Len(u) : k \in 1..Len(s) \/ k - Len(s) \in 1..Len(t)
  BY <1>1
<1> HIDE DEF u
<1>3. ASSUME NEW x PROVE x \in Exec!Range(u) <=> x \in Exec!Range(s) \/ x \in Exec!Range(t)
  <2>1. ASSUME NEW k \in 1..Len(u), x = u[k]
        PROVE  x \in Exec!Range(s) \/ x \in Exec!Range(t)
    <3>1. CASE k \in 1..Len(s)
      BY <1>1, <2>1, <3>1 DEF Exec!Range
    <3>2. CASE k - Len(s) \in 1..Len(t)
      <4>1. Len(s) + (k - Len(s)) = k
        BY <1>1, <2>1
      <4>2. x = t[k - Len(s)]
        BY <1>1, <2>1, <3>2, <4>1
      <4> QED BY <1>1, <3>2, <4>2 DEF Exec!Range
    <3> QED BY <1>2, <2>1, <3>1, <3>2
  <2>2. x \in Exec!Range(s) => x \in Exec!Range(u)
    BY <1>1 DEF Exec!Range
  <2>3. x \in Exec!Range(t) => x \in Exec!Range(u)
    BY <1>1 DEF Exec!Range
  <2> QED BY <1>1, <2>1, <2>2, <2>3 DEF Exec!Range
<1>4. ASSUME t # <<>> PROVE u # <<>> /\ u[Len(u)] = t[Len(t)]
  <2>1. Len(t) \in 1..Len(t) /\ Len(u) # 0
    BY <1>1, <1>4
  <2>2. u # <<>>
    BY <2>1
  <2> QED BY <1>1, <2>1, <2>2
<1> QED BY <1>1, <1>3, <1>4 DEF u

StageNames == {"fix_flv", "convert_ts", "repair_ts", "convert_mp4", "burn_subtitles",
               "extract_cover", "bili_publish", "cloud_upload"}

\* A stage is in the pipeline if its option is set.
LEMMA Chosen ==
    \A c : \A x \in StageNames :
        /\ Exec!When(c, x) \in Seq(StageNames)
        /\ \A y \in Exec!Range(Exec!When(c, x)) : y = x
        /\ c => /\ x \in Exec!Range(Exec!When(c, x)) /\ Exec!When(c, x) # <<>>
                /\ Exec!When(c, x)[Len(Exec!When(c, x))] = x
        /\ ~c => Exec!Range(Exec!When(c, x)) = {}
<1> SUFFICES ASSUME NEW c, NEW x \in StageNames
             PROVE  /\ Exec!When(c, x) \in Seq(StageNames)
                    /\ \A y \in Exec!Range(Exec!When(c, x)) : y = x
                    /\ c => /\ x \in Exec!Range(Exec!When(c, x)) /\ Exec!When(c, x) # <<>>
                            /\ Exec!When(c, x)[Len(Exec!When(c, x))] = x
                    /\ ~c => Exec!Range(Exec!When(c, x)) = {}
    OBVIOUS
<1> HIDE DEF StageNames
<1>1. /\ <<x>> \in Seq(StageNames) /\ Exec!Range(<<x>>) = {x} /\ <<x>> # <<>>
      /\ <<x>>[Len(<<x>>)] = x
      /\ <<>> \in Seq(StageNames) /\ Exec!Range(<<>>) = {}
  BY DEF Exec!Range
<1>2. /\ c => Exec!When(c, x) = <<x>>
      /\ ~c => Exec!When(c, x) = <<>>
  BY DEF Exec!When
<1>3. CASE c
  BY <1>1, <1>2, <1>3
<1>4. CASE ~c
  BY <1>1, <1>2, <1>4
<1> QED BY <1>3, <1>4

\* The upload is the last stage, the publication is one of them, and so is the FLV fix only
\* when it was asked for.
LEMMA AskedFor ==
    \A o \in OptionSets :
        /\ o.upload => Exec!Pipeline(o)[Len(Exec!Pipeline(o))] = "cloud_upload"
        /\ o.publish => \E k \in 1..Len(Exec!Pipeline(o)) : Exec!Pipeline(o)[k] = "bili_publish"
        /\ ~o.fix => \A k \in 1..Len(Exec!Pipeline(o)) : Exec!Pipeline(o)[k] # "fix_flv"
<1> SUFFICES ASSUME NEW o \in OptionSets
             PROVE  /\ o.upload => Exec!Pipeline(o)[Len(Exec!Pipeline(o))] = "cloud_upload"
                    /\ o.publish => \E k \in 1..Len(Exec!Pipeline(o)) :
                                       Exec!Pipeline(o)[k] = "bili_publish"
                    /\ ~o.fix => \A k \in 1..Len(Exec!Pipeline(o)) :
                                    Exec!Pipeline(o)[k] # "fix_flv"
    OBVIOUS
<1>1. CASE o.batch
  <2>1. Exec!Pipeline(o) = <<"burn_subtitles">>
    BY <1>1 DEF Exec!Pipeline
  <2>2. ~o.upload /\ ~o.publish
    BY <1>1, TaskAssumption, Zenon DEF TaskAssumption
  <2>3. Len(<<"burn_subtitles">>) = 1 /\ \A k \in 1..1 : <<"burn_subtitles">>[k] # "fix_flv"
    OBVIOUS
  <2> QED BY <2>1, <2>2, <2>3
<1>2. CASE ~o.batch
  <2> DEFINE fix == Exec!When(o.fix, "fix_flv")
             a == Exec!When(o.saveTs /\ o.ext = "flv", "convert_ts")
             b == Exec!When(o.saveTs \/ o.ext = "ts", "repair_ts")
             c1 == Exec!When(o.mp4, "convert_mp4")
             c2 == Exec!When(o.burn, "burn_subtitles")
             c3 == Exec!When(o.cover, "extract_cover")
             c4 == Exec!When(o.publish, "bili_publish")
             c5 == Exec!When(o.upload, "cloud_upload")
             ts == a \o b
             head == fix \o ts
             d2 == c1 \o c2
             d3 == d2 \o c3
             d4 == d3 \o c4
             d5 == d4 \o c5
             p == head \o d5
  <2>1. Exec!Pipeline(o) = p
    BY <1>2 DEF Exec!Pipeline, Exec!ConvertLegacyConfig, Exec!TsStages
  <2> HIDE DEF ts, head, d2, d3, d4, d5, p
  <2>2. /\ "fix_flv" \in StageNames /\ "convert_ts" \in StageNames /\ "repair_ts" \in StageNames
        /\ "convert_mp4" \in StageNames /\ "burn_subtitles" \in StageNames
        /\ "extract_cover" \in StageNames /\ "bili_publish" \in StageNames
        /\ "cloud_upload" \in StageNames
    BY DEF StageNames
  <2>3. /\ fix \in Seq(StageNames) /\ a \in Seq(StageNames) /\ b \in Seq(StageNames)
        /\ c1 \in Seq(StageNames) /\ c2 \in Seq(StageNames) /\ c3 \in Seq(StageNames)
        /\ c4 \in Seq(StageNames) /\ c5 \in Seq(StageNames)
    BY <2>2, Chosen
  <2>4. /\ o.publish => "bili_publish" \in Exec!Range(c4)
        /\ o.upload => c5 # <<>> /\ c5[Len(c5)] = "cloud_upload"
    BY <2>2, Chosen
  <2>5. ~o.fix => /\ "fix_flv" \notin Exec!Range(fix) /\ "fix_flv" \notin Exec!Range(a)
                  /\ "fix_flv" \notin Exec!Range(b) /\ "fix_flv" \notin Exec!Range(c1)
                  /\ "fix_flv" \notin Exec!Range(c2) /\ "fix_flv" \notin Exec!Range(c3)
                  /\ "fix_flv" \notin Exec!Range(c4) /\ "fix_flv" \notin Exec!Range(c5)
    BY <2>2, Chosen
  <2> HIDE DEF fix, a, b, c1, c2, c3, c4, c5
  <2>6. ts \in Seq(StageNames) /\ d2 \in Seq(StageNames)
    BY <2>3, Joined DEF ts, d2
  <2>7. head \in Seq(StageNames) /\ d3 \in Seq(StageNames)
    BY <2>3, <2>6, Joined DEF head, d3
  <2>8. d4 \in Seq(StageNames)
    BY <2>3, <2>7, Joined DEF d4
  <2>9. d5 \in Seq(StageNames)
    BY <2>3, <2>8, Joined DEF d5
  <2>10. p \in Seq(StageNames)
    BY <2>7, <2>9, Joined DEF p
  <2>11. ASSUME NEW x
         PROVE  /\ x \in Exec!Range(ts) <=> x \in Exec!Range(a) \/ x \in Exec!Range(b)
                /\ x \in Exec!Range(head) <=> x \in Exec!Range(fix) \/ x \in Exec!Range(ts)
                /\ x \in Exec!Range(d2) <=> x \in Exec!Range(c1) \/ x \in Exec!Range(c2)
                /\ x \in Exec!Range(d3) <=> x \in Exec!Range(d2) \/ x \in Exec!Range(c3)
                /\ x \in Exec!Range(d4) <=> x \in Exec!Range(d3) \/ x \in Exec!Range(c4)
                /\ x \in Exec!Range(d5) <=> x \in Exec!Range(d4) \/ x \in Exec!Range(c5)
                /\ x \in Exec!Range(p) <=> x \in Exec!Range(head) \/ x \in Exec!Range(d5)
    <3>1. x \in Exec!Range(ts) <=> x \in Exec!Range(a) \/ x \in Exec!Range(b)
      BY <2>3, <2>6, <2>7, <2>8, <2>9, Joined DEF ts
    <3>2. x \in Exec!Range(head) <=> x \in Exec!Range(fix) \/ x \in Exec!Range(ts)
      BY <2>3, <2>6, <2>7, <2>8, <2>9, Joined DEF head
    <3>3. x \in Exec!Range(d2) <=> x \in Exec!Range(c1) \/ x \in Exec!Range(c2)
      BY <2>3, <2>6, <2>7, <2>8, <2>9, Joined DEF d2
    <3>4. x \in Exec!Range(d3) <=> x \in Exec!Range(d2) \/ x \in Exec!Range(c3)
      BY <2>3, <2>6, <2>7, <2>8, <2>9, Joined DEF d3
    <3>5. x \in Exec!Range(d4) <=> x \in Exec!Range(d3) \/ x \in Exec!Range(c4)
      BY <2>3, <2>6, <2>7, <2>8, <2>9, Joined DEF d4
    <3>6. x \in Exec!Range(d5) <=> x \in Exec!Range(d4) \/ x \in Exec!Range(c5)
      BY <2>3, <2>6, <2>7, <2>8, <2>9, Joined DEF d5
    <3>7. x \in Exec!Range(p) <=> x \in Exec!Range(head) \/ x \in Exec!Range(d5)
      BY <2>3, <2>6, <2>7, <2>8, <2>9, Joined DEF p
    <3> QED BY <3>1, <3>2, <3>3, <3>4, <3>5, <3>6, <3>7
  <2>12. o.upload => p[Len(p)] = "cloud_upload"
    <3>1. c5 # <<>> => d5 # <<>> /\ d5[Len(d5)] = c5[Len(c5)]
      BY <2>3, <2>8, Joined DEF d5
    <3>2. d5 # <<>> => p[Len(p)] = d5[Len(d5)]
      BY <2>7, <2>9, Joined DEF p
    <3> QED BY <2>4, <3>1, <3>2
  <2>13. o.publish => "bili_publish" \in Exec!Range(p)
    BY <2>4, <2>11
  <2>14. ~o.fix => "fix_flv" \notin Exec!Range(p)
    BY <2>5, <2>11
  <2>15. Exec!Range(p) = {p[k] : k \in 1..Len(p)}
    BY <2>10 DEF Exec!Range
  <2> QED BY <2>1, <2>12, <2>13, <2>14, <2>15
<1> QED BY <1>1, <1>2

------------------------------------------------------------------------------
(* What has arrived when nothing failed *)

\* The first execution, without the FLV fix, and no stage of it has failed.
Straight == runs = 1 /\ ~options.fix /\ failures = {}

Of(r, f) == Exec!IsVideo(f) /\ f.base = <<r, 0>>

\* Every recording is in a submitted article.
Before(k) == \E j \in 1..(k - 1) : Exec!Pipeline(options)[j] = "bili_publish"
Passed == Before(stage) \/ (at = "publish" /\ output # <<>>)

\* A video of the recording r is on the list and on the disk; is or comes there; was uploaded.
Ready(r, list) == \E f \in Exec!Range(list) : Of(r, f) /\ f \in disk
InHand == Exec!Range(output) \cup (IF Exec!Name = "extract_cover" THEN {} ELSE Exec!Range(todo))
Ahead(r) == \E f \in InHand : Of(r, f) /\ Comes(f, ops, disk)
Stored(r, f) == Of(r, f) /\ \A s \in Storages : <<f, s>> \in remote
Arrived(r) == \E f \in Named : Stored(r, f)
Queued(r, i) == /\ Of(r, taskFiles[i]) /\ taskFiles[i] \in disk
                /\ i \in Exec!Range(todo) \/ i \in sending \/ i = waiting
Sent(r) == errors \/ Arrived(r) \/ \E i \in 1..Len(taskFiles) : Queued(r, i)

Available(r) == /\ at \in {"start", "publish"} => Ready(r, taskFiles)
                /\ at = "files" => Ahead(r)
                /\ at = "upload" => Sent(r)

Delivered ==
    /\ options.upload /\ ~options.publishDelete => \A r \in Recordings : Arrived(r)
    /\ options.publish => Exec!Parts \subseteq article

Place ==
    /\ at \in {"start", "files", "publish", "upload"}
    /\ at = "publish" => /\ Exec!Name = "bili_publish" /\ taskFiles # <<>>
                         /\ ops = <<>> \/ (options.publishDelete /\ output # <<>>)
    /\ at = "upload" => Exec!Name = "cloud_upload" /\ todo \in Seq(Nat)
    /\ at = "files" => Exec!Name \notin {"bili_publish", "cloud_upload"}
    /\ article \subseteq Exec!Parts
    /\ runs \in Nat
    /\ runs = 0 => /\ status = "pending"
                   /\ \A r \in Recordings : Exec!File(<<r, 0>>, options.ext) \in disk
    /\ status = "completed" => failures = {}

\* The operations left are known, and a failure of what is no removal ends the stage.
Sure == at = "files" => /\ ops \in Seq(DiskOp)
                        /\ \A o \in Exec!Range(ops) : o.do # "remove" => o.hard

Deliver ==
    Straight =>
        /\ status = "running" => /\ Passed => Exec!Parts \subseteq article
                                 /\ \/ Passed /\ options.publishDelete
                                    \/ \A r \in Recordings : Available(r)
                                 /\ Sure
        /\ status = "completed" => Delivered

DoneIInv == TaskIInv /\ Place /\ Deliver

\* A sequence without one of its indices has the others.
LEMMA Picked ==
    \A s \in Seq(Nat) : \A k \in 1..Len(s) :
        /\ Exec!RemoveAt(s, k) \in Seq(Nat)
        /\ \A j \in 1..Len(s) : j # k => s[j] \in Exec!Range(Exec!RemoveAt(s, k))
<1> SUFFICES ASSUME NEW s \in Seq(Nat), NEW k \in 1..Len(s)
             PROVE  /\ Exec!RemoveAt(s, k) \in Seq(Nat)
                    /\ \A j \in 1..Len(s) : j # k => s[j] \in Exec!Range(Exec!RemoveAt(s, k))
    OBVIOUS
<1> DEFINE a == SubSeq(s, 1, k - 1)
           b == SubSeq(s, k + 1, Len(s))
<1>1. Exec!RemoveAt(s, k) = a \o b
  BY DEF Exec!RemoveAt
<1>2. /\ Len(s) \in Nat
      /\ a \in Seq(Nat) /\ Len(a) = k - 1 /\ \A j \in 1..(k - 1) : a[j] = s[j]
      /\ b \in Seq(Nat) /\ Len(b) = Len(s) - k /\ \A j \in 1..(Len(s) - k) : b[j] = s[k + j]
  OBVIOUS
<1> HIDE DEF a, b
<1>3. ASSUME NEW j \in 1..Len(s), j # k PROVE s[j] \in Exec!Range(a) \/ s[j] \in Exec!Range(b)
  <2>1. CASE j < k
    <3>1. j \in 1..(k - 1) /\ DOMAIN a = 1..(k - 1)
      BY <1>2, <2>1
    <3> QED BY <1>2, <3>1 DEF Exec!Range
  <2>2. CASE j > k
    <3>1. j - k \in 1..(Len(s) - k) /\ DOMAIN b = 1..(Len(s) - k) /\ k + (j - k) = j
      BY <1>2, <2>2
    <3>2. b[j - k] = s[j]
      BY <1>2, <3>1
    <3> QED BY <3>1, <3>2 DEF Exec!Range
  <2> QED BY <1>3, <2>1, <2>2
<1>4. /\ a \o b \in Seq(Nat)
      /\ \A x : x \in Exec!Range(a \o b) <=> x \in Exec!Range(a) \/ x \in Exec!Range(b)
  BY <1>2, Joined
<1> QED BY <1>1, <1>3, <1>4

\* The sequence of a finite set lists all of it.
LEMMA ListedAll ==
    ASSUME NEW S, IsFiniteSet(S)
    PROVE  S \subseteq Exec!Range(Exec!SetToSeq(S))
<1> DEFINE n == Cardinality(S)
           c == Exec!SetToSeq(S)
<1>1. n \in Nat /\ ExistsBijection(1..n, S)
  BY FS_CardinalityType
<1>2. PICK b : b \in Bijection(1..n, S)
  BY <1>1 DEF ExistsBijection
<1>3. b \in [1..n -> S] /\ \A x, y \in 1..n : b[x] = b[y] => x = y
  BY <1>2 DEF Bijection, Injection, IsInjective
<1>4. Exec!IsInjective(b)
  BY <1>3 DEF Exec!IsInjective
<1>5. Exec!Cardinality(S) = n
  BY DEF Exec!Cardinality, Cardinality
<1>6. c \in [1..n -> S] /\ Exec!IsInjective(c)
  BY <1>3, <1>4, <1>5 DEF Exec!SetToSeq
<1> HIDE DEF n, c
<1>7. c \in Surjection(1..n, S)
  <2>1. c \in Injection(1..n, S)
    BY <1>6 DEF Injection, IsInjective, Exec!IsInjective
  <2>2. IsFiniteSet(1..n) /\ Cardinality(1..n) = n
    BY <1>1, FS_Interval
  <2>3. Cardinality(1..n) = Cardinality(S)
    BY <2>2 DEF n
  <2> QED BY <2>1, <2>2, <2>3, FS_Injection
<1>8. DOMAIN c = 1..n /\ \A x \in S : \E i \in 1..n : c[i] = x
  BY <1>6, <1>7 DEF Surjection
<1> QED BY <1>8 DEF Exec!Range, c

\* A stage ends well: the next one finds what it left, or the task has delivered.
LEMMA EndsWell ==
    ASSUME DoneIInv, status = "running", NEW list, Exec!StageDone(list),
           UNCHANGED <<options, disk, remote, article, runs>>,
           Straight => /\ Before(stage + 1) => Exec!Parts \subseteq article
                       /\ \/ stage = Stages
                          \/ Before(stage + 1) /\ options.publishDelete
                          \/ \A r \in Recordings : Ready(r, list)
                       /\ stage = Stages => Delivered
    PROVE  Place' /\ Deliver'
<1>1. /\ at' = "start" /\ taskFiles' = list /\ failures' = failures
      /\ UNCHANGED <<options, disk, remote, article, runs>>
  BY DEF Exec!StageDone, Exec!Advance, Exec!Reset
<1>2. runs # 0 /\ Place
  BY DEF DoneIInv, Place
<1>3. Straight' <=> Straight
  BY <1>1 DEF Straight
<1>4. CASE stage = Stages \/ cancelled
  <2>1. status' # "running" /\ (status' = "completed" => stage = Stages /\ failures = {})
    BY <1>1, <1>4 DEF Exec!StageDone, Exec!Advance, Stages
  <2>2. Delivered' <=> Delivered
    BY <1>1 DEF Delivered, Arrived, Stored, Of
  <2>3. Place'
    BY <1>1, <1>2, <2>1 DEF Place
  <2>4. Deliver'
    BY <1>3, <2>1, <2>2 DEF Deliver
  <2> QED BY <2>3, <2>4
<1>5. CASE ~(stage = Stages \/ cancelled)
  <2>1. status' = "running" /\ stage' = stage + 1
    BY <1>5 DEF Exec!StageDone, Exec!Advance, Stages
  <2>2. Passed' <=> Before(stage + 1)
    BY <1>1, <2>1 DEF Passed, Before
  <2>3. \A r \in Recordings : Ready(r, list) => Available(r)'
    BY <1>1 DEF Available, Ready, Of
  <2>4. Place'
    BY <1>1, <1>2, <2>1 DEF Place
  <2>5. Sure'
    BY <1>1 DEF Sure
  <2>6. Deliver'
    BY <1>1, <1>3, <1>5, <2>1, <2>2, <2>3, <2>5 DEF Deliver
  <2> QED BY <2>4, <2>6
<1> QED BY <1>4, <1>5

\* After a failed stage the execution is no longer one without failures.
LEMMA EndsBadly ==
    ASSUME DoneIInv, status = "running", Exec!StageFailed, UNCHANGED <<options, runs>>,
           article' \subseteq Exec!Parts
    PROVE  Place' /\ Deliver'
<1>1. /\ at' = "start" /\ runs \in Nat /\ runs # 0 /\ UNCHANGED <<options, runs>>
      /\ Exec!Parts' = Exec!Parts
  BY DEF Exec!StageFailed, Exec!Advance, Exec!Reset, DoneIInv, Place, Exec!Parts
<1>2. /\ status' = "completed" => failures' = {}
      /\ failures' # {} \/ status' \in {"failed", "cancelled"}
  <2>1. CASE Exec!ShouldContinueOnFailure(Exec!Name)
    <3>1. Exec!Advance(taskFiles, {Exec!Name})
      BY <2>1 DEF Exec!StageFailed
    <3>2. failures' # {} /\ (status' = "completed" => failures' = {})
      BY <3>1 DEF Exec!Advance
    <3> QED BY <3>2
  <2>2. CASE ~Exec!ShouldContinueOnFailure(Exec!Name)
    BY <2>2 DEF Exec!StageFailed
  <2> QED BY <2>1, <2>2
<1>3. Place'
  BY <1>1, <1>2 DEF Place
<1>4. Deliver'
  BY <1>2 DEF Deliver, Straight
<1> QED BY <1>3, <1>4

\* A step within a stage that takes the files one by one.
LEMMA FilesGoOn ==
    ASSUME DoneIInv, status = "running", at = "files",
           UNCHANGED <<options, article, status, stage, taskFiles, at, failures, runs>>,
           Straight /\ Sure => Sure' /\ \A r \in Recordings : Ahead(r) => Ahead(r)'
    PROVE  Place' /\ Deliver'
<1>1. Place /\ Deliver /\ runs # 0
  BY DEF DoneIInv, Place
<1>2. Exec!Name' = Exec!Name
  BY DEF Exec!Name
<1>3. Place'
  BY <1>1, <1>2 DEF Place
<1>4. (Straight' <=> Straight) /\ (Passed' <=> Passed)
  BY DEF Straight, Passed, Before
<1>5. \A r \in Recordings : /\ Available(r) <=> Ahead(r)
                            /\ Available(r)' <=> Ahead(r)'
  BY DEF Available
<1>6. Deliver'
  BY <1>1, <1>4, <1>5 DEF Deliver
<1> QED BY <1>3, <1>6

\* A step within an upload.
LEMMA UploadGoesOn ==
    ASSUME DoneIInv, status = "running", at = "upload", todo' \in Seq(Nat),
           UNCHANGED <<options, article, status, stage, taskFiles, at, failures, runs>>,
           Straight => \A r \in Recordings : Sent(r) => Sent(r)'
    PROVE  Place' /\ Deliver'
<1>1. Place /\ Deliver /\ runs # 0
  BY DEF DoneIInv, Place
<1>2. Exec!Name' = Exec!Name
  BY DEF Exec!Name
<1>3. Place'
  BY <1>1, <1>2 DEF Place
<1>4. (Straight' <=> Straight) /\ (Passed' <=> Passed) /\ Sure'
  BY DEF Straight, Passed, Before, Sure
<1>5. \A r \in Recordings : /\ Available(r) <=> Sent(r)
                            /\ Available(r)' <=> Sent(r)'
  BY DEF Available
<1>6. Deliver'
  BY <1>1, <1>4, <1>5 DEF Deliver
<1> QED BY <1>3, <1>6

\* A list is its head and the others.
LEMMA HeadFirst ==
    \A s \in Seq(Named) : s # <<>> =>
        /\ Tail(s) \in Seq(Named)
        /\ \A x : x \in Exec!Range(s) <=> x = Head(s) \/ x \in Exec!Range(Tail(s))
<1> SUFFICES ASSUME NEW s \in Seq(Named), s # <<>>
             PROVE  /\ Tail(s) \in Seq(Named)
                    /\ \A x : x \in Exec!Range(s) <=> x = Head(s) \/ x \in Exec!Range(Tail(s))
    OBVIOUS
<1> DEFINE h == Head(s)
           t == Tail(s)
<1>1. /\ t \in Seq(Named) /\ <<h>> \in Seq(Named) /\ s = <<h>> \o t /\ Exec!Range(<<h>>) = {h}
  <2>1. h \in Named /\ t \in Seq(Named)
    OBVIOUS
  <2>2. <<h>> \in Seq(Named) /\ s = <<h>> \o t
    BY <2>1
  <2>3. Exec!Range(<<h>>) = {h}
    BY DEF Exec!Range
  <2> QED BY <2>1, <2>2, <2>3
<1> HIDE DEF h, t
<1>2. \A x : x \in Exec!Range(<<h>> \o t) <=> x \in Exec!Range(<<h>>) \/ x \in Exec!Range(t)
  BY <1>1, Joined
<1> QED BY <1>1, <1>2 DEF h, t

\* What is on a list after a file was put on it.
LEMMA Appended ==
    \A s \in Seq(Named) : \A x \in Named :
        \A y : y \in Exec!Range(Append(s, x)) <=> y = x \/ y \in Exec!Range(s)
<1> SUFFICES ASSUME NEW s \in Seq(Named), NEW x \in Named
             PROVE  \A y : y \in Exec!Range(Append(s, x)) <=> y = x \/ y \in Exec!Range(s)
    OBVIOUS
<1>1. <<x>> \in Seq(Named) /\ Append(s, x) = s \o <<x>>
  OBVIOUS
<1>2. Exec!Range(<<x>>) = {x}
  BY DEF Exec!Range
<1>3. \A y : y \in Exec!Range(s \o <<x>>) <=> y \in Exec!Range(s) \/ y \in Exec!Range(<<x>>)
  BY <1>1, Joined
<1> QED BY <1>1, <1>2, <1>3

\* Without operations, what comes is there.
LEMMA AtRest == \A f, d : Comes(f, <<>>, d) <=> f \in d
BY DEF Comes, Between

\* What is known of a task that runs.
LEMMA Running ==
    ASSUME DoneIInv, status = "running"
    PROVE  /\ options \in OptionSets /\ Stages \in Nat \ {0} /\ stage \in 1..Stages
           /\ Stages = Len(Exec!Pipeline(options))
           /\ taskFiles \in Seq(Named) /\ Len(taskFiles) \in Nat
           /\ DOMAIN taskFiles = 1..Len(taskFiles)
           /\ at \notin {"files", "publish"} => ops = <<>>
           /\ runs \in Nat /\ runs # 0
           /\ \A k \in 1..Stages : Exec!Pipeline(options)[k] = "cloud_upload" => k = Stages
<1>1. FlowIInv /\ Place
  BY DEF DoneIInv, TaskIInv
<1>2. options \in OptionSets /\ stage \in 1..Stages /\ taskFiles \in Seq(Named)
      /\ (ops # <<>> => at \in {"files", "publish"})
  BY <1>1 DEF FlowIInv
<1>3. Stages \in Nat \ {0} /\ Stages = Len(Exec!Pipeline(options))
  BY <1>2, TaskHolds DEF Stages
<1>4. \A k \in 1..Stages : Exec!Pipeline(options)[k] = "cloud_upload" => k = Stages
  BY <1>3, StageOrder
<1>5. Len(taskFiles) \in Nat /\ DOMAIN taskFiles = 1..Len(taskFiles)
  BY <1>2
<1> QED BY <1>1, <1>2, <1>3, <1>4, <1>5 DEF Place

\* The stage looks at its input (Execute of the stages).
LEMMA Looked == ASSUME DoneIInv, Exec!BeginStage PROVE Place' /\ Deliver'
<1>1. /\ status = "running" /\ at = "start" /\ Place /\ Deliver
      /\ UNCHANGED <<options, disk, remote, article, cancelled, runs>>
  BY DEF Exec!BeginStage, Exec!At, DoneIInv
<1>2. /\ taskFiles \in Seq(Named) /\ Len(taskFiles) \in Nat /\ DOMAIN taskFiles = 1..Len(taskFiles)
      /\ ops = <<>> /\ stage \in 1..Stages /\ Stages \in Nat /\ runs # 0
  BY <1>1, Running
<1>3. Passed <=> Before(stage)
  BY <1>1 DEF Passed
<1>4. Straight => /\ Before(stage) => Exec!Parts \subseteq article
                  /\ \/ Before(stage) /\ options.publishDelete
                     \/ \A r \in Recordings : Ready(r, taskFiles)
  BY <1>1, <1>3 DEF Deliver, Available
<1>5. CASE taskFiles = <<>> \/ (Exec!Name = "bili_publish" /\ Exec!Existing = {})
  <2>1. Exec!StageDone(taskFiles)
    BY <1>5 DEF Exec!BeginStage
  <2>2. \A r \in Recordings : ~Ready(r, taskFiles)
    BY <1>5 DEF Ready, Of, Exec!Existing, Exec!Range
  <2>3. Before(stage) => Before(stage + 1)
    BY <1>2 DEF Before
  <2>4. Straight => Recordings = {} \/ (Before(stage) /\ options.publishDelete)
    BY <1>4, <2>2
  <2>5. Recordings = {} => Exec!Parts = {}
    BY DEF Exec!Parts
  <2>6. Straight => Exec!Parts \subseteq article
    BY <1>4, <2>4, <2>5
  <2>7. Straight => Delivered
    BY <2>4, <2>6 DEF Delivered
  <2>8. Straight => \/ Before(stage + 1) /\ options.publishDelete
                    \/ \A r \in Recordings : Ready(r, taskFiles)
    BY <2>3, <2>4
  <2> QED BY <1>1, <2>1, <2>6, <2>7, <2>8, EndsWell
<1>6. CASE ~(taskFiles = <<>> \/ (Exec!Name = "bili_publish" /\ Exec!Existing = {}))
  <2>1. /\ at' = Exec!Phase /\ UNCHANGED <<status, stage, taskFiles, ops, failures>>
        /\ output' = IF Exec!Name = "extract_cover" THEN taskFiles ELSE <<>>
        /\ Exec!Phase = "upload" => todo' = [i \in DOMAIN taskFiles |-> i]
        /\ Exec!Phase = "files" => todo' = taskFiles
    BY <1>6 DEF Exec!BeginStage
  <2>2. \/ Exec!Name = "cloud_upload" /\ Exec!Phase = "upload"
        \/ Exec!Name = "bili_publish" /\ Exec!Phase = "publish"
        \/ Exec!Name \notin {"cloud_upload", "bili_publish"} /\ Exec!Phase = "files"
    BY DEF Exec!Phase
  <2>3. Exec!Name' = Exec!Name
    BY <1>1, <2>1 DEF Exec!Name
  <2>4. Exec!Phase = "upload" =>
            /\ todo' \in Seq(Nat)
            /\ \A i \in 1..Len(taskFiles) : i \in Exec!Range(todo')
    BY <1>2, <2>1 DEF Exec!Range
  <2>5. Place'
    BY <1>1, <1>2, <1>6, <2>1, <2>2, <2>3, <2>4 DEF Place
  <2>6. Passed' <=> Before(stage)
    BY <1>1, <2>1, <2>2 DEF Passed, Before
  <2>7. Straight' <=> Straight
    BY <1>1, <2>1 DEF Straight
  <2>8. ASSUME NEW r \in Recordings, Ready(r, taskFiles) PROVE Available(r)'
    <3>1. PICK f \in Exec!Range(taskFiles) : Of(r, f) /\ f \in disk
      BY <2>8 DEF Ready
    <3>2. CASE Exec!Phase = "publish"
      BY <1>1, <2>1, <3>1, <3>2 DEF Available, Ready, Of
    <3>3. CASE Exec!Phase = "files"
      <4>1. f \in InHand'
        <5>1. CASE Exec!Name = "extract_cover"
          BY <2>1, <3>1, <5>1 DEF InHand
        <5>2. CASE Exec!Name # "extract_cover"
          BY <2>1, <2>3, <3>1, <3>3, <5>2 DEF InHand
        <5> QED BY <5>1, <5>2
      <4>2. Comes(f, ops', disk')
        BY <1>1, <1>2, <2>1, <3>1, AtRest
      <4>3. Ahead(r)'
        BY <3>1, <4>1, <4>2 DEF Ahead, Of
      <4> QED BY <2>1, <3>3, <4>3 DEF Available
    <3>4. CASE Exec!Phase = "upload"
      <4>1. PICK i \in 1..Len(taskFiles) : f = taskFiles[i]
        BY <1>2, <3>1 DEF Exec!Range
      <4>2. Queued(r, i)'
        BY <1>1, <2>1, <2>4, <3>1, <3>4, <4>1 DEF Queued, Of
      <4>3. Sent(r)'
        BY <2>1, <4>1, <4>2 DEF Sent
      <4> QED BY <2>1, <3>4, <4>3 DEF Available
    <3> QED BY <2>2, <3>2, <3>3, <3>4
  <2>9. Sure'
    BY <1>2, <2>1 DEF Sure, Exec!Range
  <2>10. Deliver'
    BY <1>1, <1>4, <2>1, <2>6, <2>7, <2>8, <2>9 DEF Deliver
  <2> QED BY <2>5, <2>10
<1> QED BY <1>5, <1>6

------------------------------------------------------------------------------
(* The stages that take the files one by one *)

\* Every stage but the FLV fix makes a video of a video.
LEMMA WorkMakes ==
    ASSUME NEW f \in Named, Exec!IsVideo(f), NEW w \in Exec!Work(f), Exec!Name # "fix_flv"
    PROVE  Makes(f, w.ops, w.out)
<1>1. f.base \in Recordings \X {0, 1, 2}
  BY DEF Named, AnyFile
<1>2. CASE Exec!Name = "convert_mp4"
  <2> DEFINE gone == IF options.deleteSource THEN {f} ELSE {}
             more == Exec!When(~options.deleteSource, f)
             g == Exec!With(f, "mp4")
  <2>1. w.ops = Exec!Convert(f, g, gone) /\ w.out = <<g>> \o more
    BY <1>2 DEF Exec!Work
  <2>2. "mp4" \in Exec!VideoExts /\ "mp4" \in Suffixes /\ gone \in SUBSET {f, Exec!Ass(f)}
    BY DEF Exec!VideoExts, Suffixes
  <2>3. g \in Named
    BY <1>1, <2>2, FileNamed DEF Exec!With
  <2>4. more \in Seq(Named)
    <3>1. more = <<f>> \/ more = <<>>
      BY Optional
    <3>2. <<f>> \in Seq(Named) /\ <<>> \in Seq(Named)
      OBVIOUS
    <3> QED BY <3>1, <3>2, Zenon
  <2> HIDE DEF gone, more
  <2>5. g \in Exec!Range(<<g>> \o more)
    <3> HIDE DEF g
    <3>1. <<g>> \in Seq(Named) /\ g \in Exec!Range(<<g>>)
      BY <2>3 DEF Exec!Range
    <3> QED BY <2>4, <3>1, Joined
  <2> QED BY <2>1, <2>2, <2>5, ConvertMakes
<1>3. CASE Exec!Name = "convert_ts"
  <2>1. w.ops = Exec!Convert(f, Exec!With(f, "ts"), {f}) /\ w.out = <<Exec!With(f, "ts")>>
    BY <1>3 DEF Exec!Work
  <2>2. "ts" \in Exec!VideoExts /\ {f} \in SUBSET {f, Exec!Ass(f)}
    BY DEF Exec!VideoExts
  <2>3. Exec!With(f, "ts") \in Exec!Range(<<Exec!With(f, "ts")>>)
    BY DEF Exec!Range
  <2> QED BY <2>1, <2>2, <2>3, ConvertMakes
<1>4. CASE Exec!Name = "repair_ts"
  <2>1. w.ops = Exec!Repair(f) /\ w.out = <<f>>
    BY <1>4 DEF Exec!Work
  <2> QED BY <2>1, RepairMakes
<1>5. CASE Exec!Name \notin {"fix_flv", "convert_mp4", "convert_ts", "repair_ts"}
  <2> DEFINE gone == (IF options.burnDeleteAss THEN {Exec!Ass(f)} ELSE {})
                     \cup (IF options.burnDeleteSource THEN {f} ELSE {})
  <2>1. w.ops = Exec!Convert(f, Exec!Burned(f), gone) /\ w.out = <<Exec!Burned(f)>>
    BY <1>5 DEF Exec!Work
  <2>2. gone \in SUBSET {f, Exec!Ass(f)}
    OBVIOUS
  <2> HIDE DEF gone
  <2>3. PICK ext \in Exec!VideoExts : Exec!Burned(f) = Exec!With(f, ext)
    BY DEF Exec!Burned, Exec!VideoExts
  <2>4. Exec!With(f, ext) \in Exec!Range(<<Exec!With(f, ext)>>)
    BY DEF Exec!Range
  <2> QED BY <2>1, <2>2, <2>3, <2>4, ConvertMakes
<1> QED BY <1>2, <1>3, <1>4, <1>5

\* The file at the head of the list is taken when no operation is left.
LEMMA Taking ==
    ASSUME DoneIInv, NEW f, Exec!Current(f)
    PROVE  /\ status = "running" /\ at = "files" /\ ops = <<>> /\ f = Head(todo) /\ f \in Named
           /\ todo \in Seq(Named) /\ Tail(todo) \in Seq(Named) /\ output \in Seq(Named)
           /\ \A x : x \in Exec!Range(todo) <=> x = f \/ x \in Exec!Range(Tail(todo))
           /\ \A y : y \in Exec!Range(Append(output, f)) <=> y = f \/ y \in Exec!Range(output)
           /\ \A r \in Recordings : Ahead(r) <=> \E h \in InHand : Of(r, h) /\ h \in disk
           /\ \A h \in InHand : h \in Named
<1>1. status = "running" /\ at = "files" /\ ops = <<>> /\ todo # <<>> /\ f = Head(todo)
  BY DEF Exec!Current, Exec!At
<1>2. todo \in Seq(Named) /\ output \in Seq(Named)
  BY <1>1 DEF DoneIInv, TaskIInv, FlowIInv
<1>3. f \in Named
  BY <1>1, <1>2
<1>4. \A h \in InHand : h \in Named
  BY <1>2 DEF InHand, Exec!Range
<1>5. \A r \in Recordings : Ahead(r) <=> \E h \in InHand : Of(r, h) /\ h \in disk
  BY <1>1, AtRest DEF Ahead
<1>6. \A y : y \in Exec!Range(Append(output, f)) <=> y = f \/ y \in Exec!Range(output)
  BY <1>2, <1>3, Appended
<1>7. /\ Tail(todo) \in Seq(Named)
      /\ \A x : x \in Exec!Range(todo) <=> x = f \/ x \in Exec!Range(Tail(todo))
  BY <1>1, <1>2, HeadFirst
<1> QED BY <1>1, <1>2, <1>3, <1>4, <1>5, <1>6, <1>7

\* A file the stage leaves alone is passed on.
LEMMA Passes == ASSUME DoneIInv, Exec!PassFile PROVE Place' /\ Deliver'
<1>1. PICK f \in Exec!Range(taskFiles) : Exec!Current(f) /\ Exec!PassesThrough(f)
  BY DEF Exec!PassFile
<1>2. /\ output' = IF Exec!Name = "extract_cover" THEN output ELSE Append(output, f)
      /\ todo' = Tail(todo) /\ ops' = ops
      /\ UNCHANGED <<options, disk, article, status, stage, taskFiles, at, failures, runs>>
  BY <1>1 DEF Exec!PassFile, Exec!Rest, Exec!Current
<1>3. Exec!Name' = Exec!Name
  BY <1>2 DEF Exec!Name
<1>4. \A h \in InHand : h \in InHand'
  BY <1>1, <1>2, <1>3, Taking DEF InHand
<1>5. \A r \in Recordings : Ahead(r) => Ahead(r)'
  BY <1>2, <1>4 DEF Ahead, Of
<1>6. Sure => Sure'
  BY <1>2 DEF Sure
<1>7. status = "running" /\ at = "files"
  BY <1>1, Taking
<1> QED BY <1>2, <1>5, <1>6, <1>7, FilesGoOn

\* A file that is missing was not the one that is on the disk.
LEMMA Misses == ASSUME DoneIInv, Exec!MissingFile PROVE Place' /\ Deliver'
<1>1. PICK f \in Exec!Range(taskFiles) :
          Exec!Current(f) /\ ~Exec!PassesThrough(f) /\ f \notin disk
  BY DEF Exec!MissingFile
<1>2. status = "running" /\ at = "files"
  BY <1>1, Taking
<1>3. CASE Exec!Name = "repair_ts"
  <2>1. Exec!StageFailed /\ UNCHANGED <<options, article, runs>>
    BY <1>3 DEF Exec!MissingFile
  <2>2. article' \subseteq Exec!Parts
    BY <2>1 DEF DoneIInv, Place
  <2> QED BY <1>2, <2>1, <2>2, EndsBadly
<1>4. CASE Exec!Name # "repair_ts"
  <2>1. /\ output' = output /\ todo' = Tail(todo) /\ ops' = ops
        /\ UNCHANGED <<options, disk, article, status, stage, taskFiles, at, failures, runs>>
    BY <1>4 DEF Exec!MissingFile, Exec!Rest
  <2>2. Exec!Name' = Exec!Name
    BY <2>1 DEF Exec!Name
  <2>3. \A h \in InHand : h \in disk => h \in InHand'
    BY <1>1, <2>1, <2>2, Taking DEF InHand
  <2>4. \A r \in Recordings : Ahead(r) => Ahead(r)'
    <3>1. \A r \in Recordings : Ahead(r) <=> \E h \in InHand : Of(r, h) /\ h \in disk
      BY <1>1, Taking
    <3>2. \A h : h \in disk => Comes(h, ops', disk')
      BY <1>1, <2>1, Taking, AtRest
    <3> QED BY <2>3, <3>1, <3>2 DEF Ahead, Of
  <2>5. Sure => Sure'
    BY <2>1 DEF Sure
  <2> QED BY <1>2, <2>1, <2>4, <2>5, FilesGoOn
<1> QED BY <1>3, <1>4

\* What the stage makes of a file takes its place.
LEMMA Worked == ASSUME DoneIInv, Exec!WorkOnFile PROVE Place' /\ Deliver'
<1>1. PICK f \in Exec!Range(taskFiles) :
          /\ Exec!Current(f) /\ ~Exec!PassesThrough(f) /\ f \in disk
          /\ Exec!Name # "extract_cover"
          /\ \E w \in Exec!Work(f) : ops' = w.ops /\ output' = output \o w.out
          /\ Exec!Rest
  BY DEF Exec!WorkOnFile
<1>2. PICK w \in Exec!Work(f) : ops' = w.ops /\ output' = output \o w.out
  BY <1>1
<1>3. /\ todo' = Tail(todo)
      /\ UNCHANGED <<options, disk, article, status, stage, taskFiles, at, failures, runs>>
  BY <1>1 DEF Exec!Rest
<1>4. status = "running" /\ at = "files" /\ f \in Named /\ Exec!IsVideo(f)
  BY <1>1, Taking DEF Exec!PassesThrough
<1>5. Exec!Name' = Exec!Name
  BY <1>3 DEF Exec!Name
<1>6. ASSUME Straight
      PROVE  Sure' /\ \A r \in Recordings : Ahead(r) => Ahead(r)'
  <2>1. Exec!Name # "fix_flv"
    <3>1. options \in OptionSets /\ ~options.fix /\ stage \in 1..Len(Exec!Pipeline(options))
      BY <1>4, <1>6, Running DEF Straight
    <3> QED BY <3>1, AskedFor DEF Exec!Name
  <2>2. Makes(f, w.ops, w.out)
    BY <1>4, <2>1, WorkMakes
  <2>3. w.out \in Seq(Named) /\ output \in Seq(Named)
    <3>1. FlowIInv
      BY DEF DoneIInv, TaskIInv
    <3> QED BY <1>1, <1>4, <3>1, Taking, Works
  <2>4. \A x : x \in Exec!Range(output') <=> x \in Exec!Range(output) \/ x \in Exec!Range(w.out)
    BY <1>2, <2>3, Joined
  <2>5. InHand' = Exec!Range(output') \cup Exec!Range(Tail(todo))
    BY <1>1, <1>3, <1>5 DEF InHand
  <2>6. \A h : h \in InHand <=> \/ h \in Exec!Range(output) \/ h = f
                                \/ h \in Exec!Range(Tail(todo))
    BY <1>1, Taking DEF InHand
  <2>7. PICK g \in Exec!Range(w.out) :
            g \in Named /\ Exec!IsVideo(g) /\ g.base = f.base /\ Comes(g, w.ops, disk)
    BY <2>2 DEF Makes
  <2>8. ASSUME NEW r \in Recordings, Ahead(r) PROVE Ahead(r)'
    <3>1. PICK h \in InHand : Of(r, h) /\ h \in disk /\ h \in Named
      BY <1>1, <2>8, Taking
    <3>2. CASE h = f
      <4>1. Of(r, g) /\ g \in InHand'
        BY <2>4, <2>5, <2>7, <3>1, <3>2 DEF Of
      <4> QED BY <1>2, <1>3, <2>7, <4>1 DEF Ahead, Of
    <3>3. CASE h # f
      <4>1. Comes(h, w.ops, disk)
        BY <2>2, <3>1, <3>3 DEF Makes, Comes, Of
      <4>2. h \in InHand'
        BY <2>4, <2>5, <2>6, <3>1, <3>3
      <4> QED BY <1>2, <1>3, <3>1, <4>1, <4>2 DEF Ahead, Of
    <3> QED BY <3>2, <3>3
  <2>9. Sure'
    BY <1>2, <2>2 DEF Sure, Makes
  <2> QED BY <2>8, <2>9
<1> QED BY <1>3, <1>4, <1>6, FilesGoOn

\* A cover takes nothing away.
LEMMA Covered == ASSUME DoneIInv, Exec!ExtractCover PROVE Place' /\ Deliver'
<1>1. PICK f \in Exec!Range(taskFiles), ok \in BOOLEAN :
          /\ Exec!Current(f) /\ Exec!Name = "extract_cover"
          /\ disk' = IF ok THEN disk \cup {Exec!Cover(f)} ELSE disk
          /\ output' = IF ok THEN Append(output, Exec!Cover(f)) ELSE output
          /\ UNCHANGED <<options, article, status, stage, taskFiles, at, ops, failures, runs>>
  BY DEF Exec!ExtractCover
<1>2. status = "running" /\ at = "files" /\ output \in Seq(Named) /\ f \in Named
  BY <1>1, Taking
<1>3. Exec!Cover(f) \in Named
  <2>1. f.base \in Recordings \X {0, 1, 2} /\ "jpg" \in Suffixes
    BY <1>2 DEF Named, AnyFile, Suffixes
  <2> QED BY <2>1, FileNamed DEF Exec!Cover, Exec!With
<1>4. Exec!Name' = Exec!Name
  BY <1>1 DEF Exec!Name
<1>5. \A h \in InHand : h \in InHand'
  <2>1. \A h : h \in Exec!Range(Append(output, Exec!Cover(f))) <=>
                  h = Exec!Cover(f) \/ h \in Exec!Range(output)
    BY <1>2, <1>3, Appended
  <2> QED BY <1>1, <1>4, <2>1 DEF InHand
<1>6. \A r \in Recordings : Ahead(r) => Ahead(r)'
  <2>1. \A r \in Recordings : Ahead(r) <=> \E h \in InHand : Of(r, h) /\ h \in disk
    BY <1>1, Taking
  <2>2. \A h : h \in disk => Comes(h, ops', disk')
    BY <1>1, Taking, AtRest
  <2> QED BY <1>5, <2>1, <2>2 DEF Ahead, Of
<1>7. Sure => Sure'
  BY <1>1 DEF Sure
<1> QED BY <1>1, <1>2, <1>6, <1>7, FilesGoOn

\* Operations that do not end the stage bring what they bring.
LEMMA OneLess ==
    ASSUME DoneIInv, status = "running", at = "files", ops # <<>>, ops' = Tail(ops),
           UNCHANGED <<options, article, status, stage, taskFiles, at, todo, output, failures,
                       runs>>,
           Sure => /\ \A g : g \in disk /\ ~Takes(Head(ops), g) => g \in disk'
                   /\ \A g : Writes(Head(ops), g) => g \in disk'
                   /\ \A g : Brings(Head(ops), g) /\ Head(ops).from \in disk => g \in disk'
    PROVE  Place' /\ Deliver'
<1>1. InHand' = InHand
  BY DEF InHand, Exec!Name
<1>2. ASSUME Sure, NEW r \in Recordings, Ahead(r) PROVE Ahead(r)'
  <2>1. PICK h \in InHand : Of(r, h) /\ Comes(h, ops, disk)
    BY <1>2 DEF Ahead
  <2>2. ops \in Seq(DiskOp)
    BY <1>2 DEF Sure
  <2>3. Comes(h, Tail(ops), disk')
    BY <1>2, <2>1, <2>2, ComesNext
  <2> QED BY <1>1, <2>1, <2>3 DEF Ahead, Of
<1>3. ASSUME Sure PROVE Sure'
  <2>1. ops \in Seq(DiskOp) /\ \A o \in Exec!Range(ops) : o.do # "remove" => o.hard
    BY <1>3 DEF Sure
  <2>2. /\ Len(ops) \in Nat /\ Len(Tail(ops)) = Len(ops) - 1 /\ Tail(ops) \in Seq(DiskOp)
        /\ \A j \in 1..(Len(ops) - 1) : Tail(ops)[j] = ops[j + 1] /\ j + 1 \in 1..Len(ops)
    BY <2>1, Shifted
  <2>3. DOMAIN Tail(ops) = 1..(Len(ops) - 1) /\ DOMAIN ops = 1..Len(ops)
    BY <2>1, <2>2
  <2>4. \A o \in Exec!Range(Tail(ops)) : o \in Exec!Range(ops)
    BY <2>2, <2>3 DEF Exec!Range
  <2> QED BY <2>1, <2>2, <2>4 DEF Sure
<1> QED BY <1>2, <1>3, FilesGoOn

\* The videos go after the article has them.
LEMMA Removing ==
    ASSUME DoneIInv, status = "running", at = "publish", ops # <<>>,
           UNCHANGED <<options, article, status, stage, taskFiles, at, output, failures, runs>>
    PROVE  Place' /\ Deliver'
<1>1. /\ Place /\ Deliver /\ runs # 0
      /\ Exec!Name = "bili_publish" /\ options.publishDelete /\ output # <<>>
  BY DEF DoneIInv, Place
<1>2. Exec!Name' = Exec!Name
  BY DEF Exec!Name
<1>3. Place'
  BY <1>1, <1>2 DEF Place
<1>4. (Straight' <=> Straight) /\ Passed /\ Passed' /\ Sure'
  BY <1>1 DEF Straight, Passed, Before, Sure
<1>5. Deliver'
  BY <1>1, <1>4 DEF Deliver
<1> QED BY <1>3, <1>5

\* Operations are left in the stages that have them only.
LEMMA InStage ==
    ASSUME DoneIInv, ops # <<>>
    PROVE  status = "running" /\ at \in {"files", "publish"}
BY DEF DoneIInv, TaskIInv, FlowIInv

\* The next operation is done.
LEMMA Operated == ASSUME DoneIInv, Exec!Operate PROVE Place' /\ Deliver'
<1>1. /\ ops # <<>> /\ ops' = Tail(ops) /\ disk' = Exec!Apply(Head(ops))
      /\ UNCHANGED <<options, article, status, stage, taskFiles, at, todo, output, failures, runs>>
  BY DEF Exec!Operate
<1>2. status = "running" /\ at \in {"files", "publish"}
  BY <1>1, InStage
<1>3. CASE at = "files"
  <2>1. ASSUME Sure
        PROVE  /\ \A g : g \in disk /\ ~Takes(Head(ops), g) => g \in disk'
               /\ \A g : Writes(Head(ops), g) => g \in disk'
               /\ \A g : Brings(Head(ops), g) /\ Head(ops).from \in disk => g \in disk'
    <3>1. Head(ops) \in DiskOp
      BY <1>1, <1>3, <2>1, Shifted DEF Sure
    <3>2. Head(ops).do \in {"write", "move", "remove"}
      BY <3>1 DEF DiskOp
    <3> QED BY <1>1, <3>2 DEF Exec!Apply, Takes, Writes, Brings
  <2> QED BY <1>1, <1>2, <1>3, <2>1, OneLess
<1>4. CASE at = "publish"
  BY <1>1, <1>2, <1>4, Removing
<1> QED BY <1>2, <1>3, <1>4

\* The next operation fails.
LEMMA OperationMissed == ASSUME DoneIInv, Exec!OperationFails PROVE Place' /\ Deliver'
<1>1. ops # <<>> /\ status = "running" /\ UNCHANGED <<options, article, runs>>
  BY DEF Exec!OperationFails
<1>2. CASE Head(ops).hard
  <2>1. Exec!StageFailed
    BY <1>2 DEF Exec!OperationFails
  <2>2. article' \subseteq Exec!Parts
    BY <1>1 DEF DoneIInv, Place
  <2> QED BY <1>1, <2>1, <2>2, EndsBadly
<1>3. CASE ~Head(ops).hard
  <2>1. /\ ops' = Tail(ops)
        /\ UNCHANGED <<disk, status, stage, taskFiles, at, todo, output, failures>>
    BY <1>3 DEF Exec!OperationFails
  <2>2. CASE at = "files"
    <3>1. \A g : ~Writes(Head(ops), g) /\ ~Brings(Head(ops), g)
      BY <1>3 DEF Writes, Brings
    <3> QED BY <1>1, <2>1, <2>2, <3>1, OneLess
  <2>3. CASE at = "publish"
    BY <1>1, <2>1, <2>3, Removing
  <2> QED BY <1>1, <2>2, <2>3, InStage
<1> QED BY <1>2, <1>3

\* What a task must deliver after its last stage.
LEMMA AtTheEnd ==
    ASSUME DoneIInv, status = "running", stage = Stages,
           Exec!Name # "bili_publish" => (Passed => Exec!Parts \subseteq article),
           Exec!Name = "bili_publish" => Exec!Parts \subseteq article,
           Exec!Name = "cloud_upload" => \/ options.publishDelete
                                          \/ \A r \in Recordings : Arrived(r)
    PROVE  Delivered
<1>1. /\ options \in OptionSets /\ Stages \in Nat \ {0} /\ Stages = Len(Exec!Pipeline(options))
  BY Running
<1>2. Exec!Name = Exec!Pipeline(options)[Len(Exec!Pipeline(options))]
  BY <1>1 DEF Exec!Name
<1>3. options.upload => Exec!Name = "cloud_upload"
  BY <1>1, <1>2, AskedFor
<1>4. ASSUME options.publish PROVE Exec!Parts \subseteq article
  <2>1. PICK k \in 1..Stages : Exec!Pipeline(options)[k] = "bili_publish"
    BY <1>1, <1>4, AskedFor
  <2>2. CASE k = stage
    BY <2>1, <2>2 DEF Exec!Name
  <2>3. CASE k # stage
    <3>1. k \in 1..(stage - 1)
      BY <1>1, <2>1, <2>3
    <3>2. Passed
      BY <2>1, <3>1 DEF Passed, Before
    <3> QED BY <3>2
  <2> QED BY <2>2, <2>3
<1> QED BY <1>3, <1>4 DEF Delivered

\* A stage that publishes nothing changes nothing about the publication.
LEMMA NotPublished ==
    ASSUME DoneIInv, status = "running", at # "publish", Exec!Name # "bili_publish"
    PROVE  Before(stage + 1) <=> Passed
<1>1. stage \in 1..Stages /\ Stages \in Nat
  BY Running
<1>2. Exec!Pipeline(options)[stage] # "bili_publish"
  BY DEF Exec!Name
<1>3. Passed <=> Before(stage)
  BY DEF Passed
<1>4. \A j \in 1..stage : j = stage \/ j \in 1..(stage - 1)
  BY <1>1
<1>5. stage + 1 - 1 = stage
  BY <1>1
<1> QED BY <1>1, <1>2, <1>3, <1>4, <1>5 DEF Before

\* The next stage reads what the stage made.
LEMMA StageWorked == ASSUME DoneIInv, Exec!EndStage PROVE Place' /\ Deliver'
<1>1. /\ status = "running" /\ at = "files" /\ ops = <<>> /\ todo = <<>>
      /\ Exec!StageDone(output) /\ UNCHANGED <<options, disk, remote, article, runs>>
  BY DEF Exec!EndStage, Exec!At
<1>2. Place /\ Deliver /\ Exec!Name \notin {"bili_publish", "cloud_upload"}
  BY <1>1 DEF DoneIInv, Place
<1>3. stage \in 1..Stages /\ Stages \in Nat
  BY <1>1, Running
<1>4. Before(stage + 1) <=> Passed
  BY <1>1, <1>2, NotPublished
<1>5. \A r \in Recordings : Available(r) => Ready(r, output)
  <2>1. \A h : h \in InHand => h \in Exec!Range(output)
    BY <1>1 DEF InHand, Exec!Range
  <2> QED BY <1>1, <2>1, AtRest DEF Available, Ahead, Ready
<1>6. Straight => /\ Passed => Exec!Parts \subseteq article
                  /\ \/ Passed /\ options.publishDelete
                     \/ \A r \in Recordings : Ready(r, output)
  BY <1>1, <1>2, <1>5 DEF Deliver
<1>7. Straight /\ stage = Stages => Delivered
  BY <1>1, <1>2, <1>6, AtTheEnd
<1> QED BY <1>1, <1>4, <1>6, <1>7, EndsWell

------------------------------------------------------------------------------
(* The publication and the upload *)

\* A whole recording holds both its parts.
LEMMA WholeCovers ==
    \A f : \A r : f.base = <<r, 0>> => Exec!Covers(f) = {<<r, 1>>, <<r, 2>>}
<1> SUFFICES ASSUME NEW f, NEW r, f.base = <<r, 0>>
             PROVE  Exec!Covers(f) = {<<r, 1>>, <<r, 2>>}
    OBVIOUS
<1>1. f.base[1] = r /\ f.base[2] = 0
  <2>1. <<r, 0>>[1] = r /\ <<r, 0>>[2] = 0
    OBVIOUS
  <2> QED BY <2>1, Zenon
<1>2. {f.base[1]} \X {1, 2} = {<<r, 1>>, <<r, 2>>}
  BY <1>1
<1> QED BY <1>1, <1>2 DEF Exec!Covers

\* A file holds parts of the recordings.
LEMMA NamedCovers == \A f \in Named : Exec!Covers(f) \subseteq Exec!Parts
<1> SUFFICES ASSUME NEW f \in Named PROVE Exec!Covers(f) \subseteq Exec!Parts
    OBVIOUS
<1>1. PICK r \in Recordings, i \in {0, 1, 2} : f.base = <<r, i>>
  <2>1. f.base \in Recordings \X {0, 1, 2}
    BY DEF Named, AnyFile
  <2> QED BY <2>1
<1>2. <<r, i>>[1] = r /\ <<r, i>>[2] = i
  OBVIOUS
<1>3. CASE i = 0
  <2>1. Exec!Covers(f) = {<<r, 1>>, <<r, 2>>}
    BY <1>1, <1>3, WholeCovers
  <2> QED BY <2>1 DEF Exec!Parts
<1>4. CASE i # 0
  <2>1. f.base[2] # 0
    BY <1>1, <1>2, <1>4, Zenon
  <2>2. Exec!Covers(f) = {<<r, i>>}
    BY <1>1, <2>1 DEF Exec!Covers
  <2> QED BY <1>4, <2>2 DEF Exec!Parts
<1> QED BY <1>3, <1>4

\* The article has every video that is there.
LEMMA InArticle ==
    ASSUME DoneIInv, status = "running"
    PROVE  /\ Exec!Published \subseteq Exec!Parts /\ article \subseteq Exec!Published
           /\ (\A r \in Recordings : Ready(r, taskFiles)) => Exec!Parts \subseteq Exec!Published
<1>1. article \subseteq Exec!Parts /\ FlowIInv
  BY DEF DoneIInv, Place, TaskIInv
<1>2. \A f \in Exec!Existing : f \in Named
  BY <1>1, FilesInHand DEF Exec!Existing
<1>3. \A f \in Exec!Existing : Exec!Covers(f) \subseteq Exec!Parts
  BY <1>2, NamedCovers
<1>4. Exec!Published \subseteq Exec!Parts /\ article \subseteq Exec!Published
  BY <1>1, <1>3 DEF Exec!Published
<1>5. ASSUME \A r \in Recordings : Ready(r, taskFiles), NEW p \in Exec!Parts
      PROVE  p \in Exec!Published
  <2>1. PICK r \in Recordings, i \in {1, 2} : p = <<r, i>>
    BY DEF Exec!Parts
  <2>2. PICK f \in Exec!Range(taskFiles) : Of(r, f) /\ f \in disk
    BY <1>5 DEF Ready
  <2>3. f \in Exec!Existing /\ Exec!Covers(f) = {<<r, 1>>, <<r, 2>>}
    BY <2>2, WholeCovers DEF Exec!Existing, Of
  <2>4. p \in Exec!Covers(f)
    BY <2>1, <2>3
  <2> QED BY <2>3, <2>4 DEF Exec!Published
<1> QED BY <1>4, <1>5

\* The article is submitted before a video goes.
LEMMA Submitted == ASSUME DoneIInv, Exec!Publish PROVE Place' /\ Deliver'
<1>1. /\ status = "running" /\ at = "publish" /\ output = <<>>
      /\ article' = Exec!Published /\ output' = taskFiles
      /\ ops' = IF options.publishDelete
                THEN Exec!SetToSeq({Exec!Unlink(f) : f \in Exec!Existing}) ELSE <<>>
      /\ UNCHANGED <<options, disk, status, stage, taskFiles, at, failures, runs>>
  BY DEF Exec!Publish, Exec!At
<1>2. /\ Place /\ Deliver /\ runs # 0 /\ Exec!Name = "bili_publish" /\ taskFiles # <<>>
  BY <1>1 DEF DoneIInv, Place
<1>3. Exec!Name' = Exec!Name /\ Exec!Parts' = Exec!Parts
  BY <1>1 DEF Exec!Name, Exec!Parts
<1>4. Exec!Published \subseteq Exec!Parts
  BY <1>1, InArticle
<1>5. options.publishDelete \/ ops' = <<>>
  BY <1>1
<1>6. Place'
  BY <1>1, <1>2, <1>3, <1>4, <1>5 DEF Place
<1>7. (Straight' <=> Straight) /\ Passed'
  BY <1>1, <1>2 DEF Straight, Passed
<1>8. ASSUME Straight
      PROVE  /\ Exec!Parts \subseteq Exec!Published
             /\ options.publishDelete \/ \A r \in Recordings : Ready(r, taskFiles)
  <2>1. /\ Passed => Exec!Parts \subseteq article
        /\ \/ Passed /\ options.publishDelete
           \/ \A r \in Recordings : Available(r)
    BY <1>1, <1>2, <1>8 DEF Deliver
  <2>2. \A r \in Recordings : Available(r) => Ready(r, taskFiles)
    BY <1>1 DEF Available
  <2> QED BY <1>1, <2>1, <2>2, InArticle
<1>9. \A r \in Recordings : Ready(r, taskFiles) => Available(r)'
  BY <1>1 DEF Available, Ready, Of
<1>10. Sure'
  BY <1>1 DEF Sure
<1>11. Deliver'
  BY <1>1, <1>3, <1>7, <1>8, <1>9, <1>10 DEF Deliver
<1> QED BY <1>6, <1>11

\* After the publication the files go on.
LEMMA StagePublished == ASSUME DoneIInv, Exec!EndPublish PROVE Place' /\ Deliver'
<1>1. /\ status = "running" /\ at = "publish" /\ output # <<>>
      /\ Exec!StageDone(taskFiles) /\ UNCHANGED <<options, disk, remote, article, runs>>
  BY DEF Exec!EndPublish, Exec!At
<1>2. Place /\ Deliver /\ Exec!Name = "bili_publish" /\ Passed
  BY <1>1 DEF DoneIInv, Place, Passed
<1>3. stage \in 1..Stages /\ Stages \in Nat
  BY <1>1, Running
<1>4. Before(stage + 1)
  BY <1>2, <1>3 DEF Before, Exec!Name
<1>5. \A r \in Recordings : Available(r) => Ready(r, taskFiles)
  BY <1>1 DEF Available
<1>6. Straight => /\ Exec!Parts \subseteq article
                  /\ \/ options.publishDelete
                     \/ \A r \in Recordings : Ready(r, taskFiles)
  BY <1>1, <1>2, <1>5 DEF Deliver
<1>7. Straight /\ stage = Stages => Delivered
  BY <1>1, <1>2, <1>6, AtTheEnd
<1> QED BY <1>1, <1>4, <1>6, <1>7, EndsWell

\* A file that is there waits for its slot.
LEMMA Found == ASSUME DoneIInv, Exec!PickFile PROVE Place' /\ Deliver'
<1>1. PICK k \in DOMAIN todo :
          /\ todo' = Exec!RemoveAt(todo, k)
          /\ waiting' = IF taskFiles[todo[k]] \in disk THEN todo[k] ELSE 0
  BY DEF Exec!PickFile
<1>2. /\ status = "running" /\ at = "upload" /\ waiting = 0
      /\ UNCHANGED <<options, disk, remote, article, status, stage, taskFiles, at, sending,
                     errors, failures, runs>>
  BY DEF Exec!PickFile, Exec!At
<1>3. todo \in Seq(Nat)
  BY <1>2 DEF DoneIInv, Place
<1>4. k \in 1..Len(todo) /\ DOMAIN todo = 1..Len(todo)
  BY <1>1, <1>3
<1>5. /\ todo' \in Seq(Nat)
      /\ \A j \in 1..Len(todo) : j # k => todo[j] \in Exec!Range(todo')
  BY <1>1, <1>3, <1>4, Picked
<1>6. ASSUME NEW r \in Recordings, Sent(r) PROVE Sent(r)'
  <2>1. CASE errors \/ Arrived(r)
    BY <1>2, <2>1 DEF Sent, Arrived, Stored, Of
  <2>2. ASSUME NEW i \in 1..Len(taskFiles), Queued(r, i) PROVE Sent(r)'
    <3>1. Of(r, taskFiles[i]) /\ taskFiles[i] \in disk /\ i # waiting
      BY <1>2, <2>2 DEF Queued
    <3>2. i \in Exec!Range(todo') \/ i \in sending' \/ i = waiting'
      <4>1. CASE i \in sending
        BY <1>2, <4>1
      <4>2. CASE i \in Exec!Range(todo)
        <5>1. PICK j \in 1..Len(todo) : i = todo[j]
          BY <1>4, <4>2 DEF Exec!Range
        <5>2. CASE j = k
          BY <1>1, <3>1, <5>1, <5>2
        <5>3. CASE j # k
          BY <1>5, <5>1, <5>3
        <5> QED BY <5>2, <5>3
      <4> QED BY <2>2, <3>1, <4>1, <4>2 DEF Queued
    <3>3. Queued(r, i)'
      BY <1>2, <3>1, <3>2 DEF Queued, Of
    <3> QED BY <1>2, <3>3 DEF Sent
  <2> QED BY <1>6, <2>1, <2>2 DEF Sent
<1> QED BY <1>2, <1>5, <1>6, UploadGoesOn

\* A file that waited is sent.
LEMMA Acquired == ASSUME DoneIInv, Exec!AcquireSlot PROVE Place' /\ Deliver'
<1>1. /\ waiting # 0 /\ sending' = sending \cup {waiting} /\ waiting' = 0
      /\ UNCHANGED <<options, disk, remote, article, status, stage, taskFiles, at, todo,
                     errors, failures, runs>>
  BY DEF Exec!AcquireSlot
<1>2. status = "running" /\ at = "upload"
  BY <1>1 DEF DoneIInv, TaskIInv, FlowIInv
<1>3. todo' \in Seq(Nat)
  BY <1>1, <1>2 DEF DoneIInv, Place
<1>4. ASSUME NEW r \in Recordings, Sent(r) PROVE Sent(r)'
  <2>1. CASE errors \/ Arrived(r)
    BY <1>1, <2>1 DEF Sent, Arrived, Stored, Of
  <2>2. ASSUME NEW i \in 1..Len(taskFiles), Queued(r, i) PROVE Sent(r)'
    <3>1. Queued(r, i)'
      BY <1>1, <2>2 DEF Queued, Of
    <3> QED BY <1>1, <3>1 DEF Sent
  <2> QED BY <1>4, <2>1, <2>2 DEF Sent
<1> QED BY <1>1, <1>2, <1>3, <1>4, UploadGoesOn

\* A file goes when every storage has it.
LEMMA Uploaded == ASSUME DoneIInv, NEW j \in sending, Exec!Upload(j) PROVE Place' /\ Deliver'
<1>1. PICK reached \in SUBSET Storages, removed \in BOOLEAN :
          /\ removed => reached = Storages
          /\ remote' = remote \cup ({taskFiles[j]} \X reached)
          /\ errors' = (errors \/ reached # Storages)
          /\ disk' = IF removed THEN disk \ {taskFiles[j]} ELSE disk
  BY DEF Exec!Upload
<1>2. /\ sending' = sending \ {j}
      /\ UNCHANGED <<options, article, status, stage, taskFiles, at, todo, waiting, failures, runs>>
  BY DEF Exec!Upload
<1>3. status = "running" /\ at = "upload" /\ FlowIInv
  BY DEF DoneIInv, TaskIInv, FlowIInv
<1>4. todo' \in Seq(Nat)
  BY <1>2, <1>3 DEF DoneIInv, Place
<1>5. remote \subseteq remote'
  BY <1>1
<1>6. ASSUME NEW r \in Recordings, Sent(r) PROVE Sent(r)'
  <2>1. CASE errors
    BY <1>1, <2>1 DEF Sent
  <2>2. CASE Arrived(r)
    <3>1. Arrived(r)'
      BY <1>5, <2>2 DEF Arrived, Stored, Of
    <3> QED BY <3>1 DEF Sent
  <2>3. ASSUME NEW i \in 1..Len(taskFiles), Queued(r, i) PROVE Sent(r)'
    <3>1. Of(r, taskFiles[i]) /\ taskFiles[i] \in disk
      BY <2>3 DEF Queued
    <3>2. CASE reached # Storages
      BY <1>1, <3>2 DEF Sent
    <3>3. CASE reached = Storages /\ taskFiles[i] = taskFiles[j]
      <4>1. taskFiles[i] \in Named
        BY <1>3 DEF FlowIInv
      <4>2. \A s \in Storages : <<taskFiles[i], s>> \in remote'
        BY <1>1, <3>3
      <4>3. Arrived(r)'
        BY <3>1, <4>1, <4>2 DEF Arrived, Stored, Of
      <4> QED BY <4>3 DEF Sent
    <3>4. CASE taskFiles[i] # taskFiles[j]
      <4>1. i # j /\ taskFiles[i] \in disk'
        BY <1>1, <3>1, <3>4
      <4>2. Queued(r, i)'
        BY <1>2, <2>3, <3>1, <4>1 DEF Queued, Of
      <4> QED BY <1>2, <4>2 DEF Sent
    <3> QED BY <3>2, <3>3, <3>4
  <2> QED BY <1>6, <2>1, <2>2, <2>3 DEF Sent
<1> QED BY <1>2, <1>3, <1>4, <1>6, UploadGoesOn

\* Without an error, everything has been sent.
LEMMA StageUploaded == ASSUME DoneIInv, Exec!EndUpload PROVE Place' /\ Deliver'
<1>1. /\ status = "running" /\ at = "upload" /\ todo = <<>> /\ sending = {} /\ waiting = 0
      /\ UNCHANGED <<options, disk, remote, article, runs>>
  BY DEF Exec!EndUpload, Exec!At
<1>2. /\ Place /\ Deliver /\ Exec!Name = "cloud_upload" /\ stage = Stages
  BY <1>1 DEF DoneIInv, Place, TaskIInv, FlowIInv
<1>3. CASE errors
  <2>1. Exec!StageFailed
    BY <1>3 DEF Exec!EndUpload
  <2>2. article' \subseteq Exec!Parts
    BY <1>1, <1>2 DEF Place
  <2> QED BY <1>1, <2>1, <2>2, EndsBadly
<1>4. CASE ~errors
  <2>1. PICK list : Exec!StageDone(list)
    BY <1>4 DEF Exec!EndUpload
  <2>2. \A r \in Recordings : Available(r) => Arrived(r)
    <3>1. \A r : \A i \in 1..Len(taskFiles) : ~Queued(r, i)
      BY <1>1 DEF Queued, Exec!Range
    <3> QED BY <1>1, <1>4, <3>1 DEF Available, Sent
  <2>3. Straight => /\ Passed => Exec!Parts \subseteq article
                    /\ \/ Passed /\ options.publishDelete
                       \/ \A r \in Recordings : Arrived(r)
    BY <1>1, <1>2, <2>2 DEF Deliver
  <2>4. Before(stage + 1) <=> Passed
    BY <1>1, <1>2, NotPublished
  <2>5. Straight => Delivered
    BY <1>1, <1>2, <2>3, AtTheEnd
  <2> QED BY <1>1, <1>2, <2>1, <2>3, <2>4, <2>5, EndsWell
<1> QED BY <1>3, <1>4

------------------------------------------------------------------------------
(* The task as a whole *)

\* The recorder hands over every recording.
LEMMA HandedOver ==
    ASSUME options \in OptionSets, NEW r \in Recordings
    PROVE  /\ Exec!File(<<r, 0>>, options.ext) \in Exec!Range(Exec!Initial)
           /\ Of(r, Exec!File(<<r, 0>>, options.ext))
<1> DEFINE whole(q) == Exec!File(<<q, 0>>, options.ext)
           S == {whole(q) : q \in Recordings}
<1>1. IsFiniteSet(S)
  <2> HIDE DEF whole
  <2> DEFINE each == [q \in Recordings |-> whole(q)]
  <2>1. each \in [Recordings -> S] /\ \A x \in S : \E q \in Recordings : each[q] = x
    OBVIOUS
  <2>2. each \in Surjection(Recordings, S)
    BY <2>1 DEF Surjection
  <2> QED BY <2>2, TaskHolds, FS_Surjection
<1>2. Exec!Initial = Exec!SetToSeq(S)
  BY DEF Exec!Initial
<1>3. whole(r) \in S
  OBVIOUS
<1>4. Of(r, whole(r))
  BY TaskHolds, FileNamed DEF Of
<1> HIDE DEF S
<1> QED BY <1>1, <1>2, <1>3, <1>4, ListedAll

\* The first execution finds the recordings on the disk.
LEMMA Executed == ASSUME DoneIInv, Exec!Execute PROVE Place' /\ Deliver'
<1>1. /\ status' = "running" /\ stage' = 1 /\ runs' = runs + 1 /\ at' = "start"
      /\ taskFiles' = Exec!Initial /\ failures' = {} /\ UNCHANGED <<options, disk, article>>
  BY DEF Exec!Execute, Exec!Reset
<1>2. Place /\ options \in OptionSets /\ runs \in Nat
  BY DEF DoneIInv, TaskIInv, FlowIInv, Place
<1>3. runs' \in Nat /\ runs' # 0 /\ (runs' = 1 => runs = 0)
  BY <1>1, <1>2
<1>4. Place'
  BY <1>1, <1>2, <1>3 DEF Place, Exec!Parts
<1>5. ~Passed' /\ Sure'
  BY <1>1 DEF Passed, Before, Sure
<1>6. ASSUME Straight', NEW r \in Recordings PROVE Available(r)'
  <2>1. Exec!File(<<r, 0>>, options.ext) \in disk
    BY <1>1, <1>2, <1>3, <1>6 DEF Straight, Place
  <2>2. Ready(r, taskFiles)'
    BY <1>1, <1>2, <2>1, HandedOver DEF Ready, Of
  <2> QED BY <1>1, <2>2 DEF Available
<1>7. Deliver'
  BY <1>1, <1>5, <1>6 DEF Deliver
<1> QED BY <1>4, <1>7

\* A task that is cancelled, restarted or retried.
LEMMA Stopped ==
    ASSUME DoneIInv, Exec!Cancel \/ Exec!Restart \/ Exec!RetryTask
    PROVE  Place' /\ Deliver'
<1>1. Place /\ Deliver
  BY DEF DoneIInv
<1>2. CASE Exec!Cancel
  <2>1. UNCHANGED <<options, disk, remote, article, status, stage, taskFiles, at, todo, output,
                    ops, sending, waiting, errors, failures, runs>>
    BY <1>2 DEF Exec!Cancel
  <2>2. Exec!Name' = Exec!Name
    BY <2>1 DEF Exec!Name
  <2>3. Place'
    BY <1>1, <2>1, <2>2 DEF Place, Exec!Parts
  <2>4. Deliver'
    BY <1>1, <2>1, <2>2
       DEF Deliver, Straight, Passed, Before, Available, Ready, Ahead, InHand, Sent, Arrived,
           Queued, Stored, Of, Sure, Delivered
  <2> QED BY <2>3, <2>4
<1>3. CASE Exec!Restart \/ Exec!RetryTask
  <2>1. /\ status # "pending" /\ status' = "pending" /\ at' = "start" /\ failures' = {}
        /\ UNCHANGED <<options, disk, article, runs>>
    BY <1>3 DEF Exec!Restart, Exec!RetryTask, Exec!Again, Exec!Reset
  <2>2. Place'
    BY <1>1, <2>1 DEF Place, Exec!Parts
  <2>3. Deliver'
    BY <2>1 DEF Deliver
  <2> QED BY <2>2, <2>3
<1> QED BY <1>2, <1>3

\* The steps of the other parts.
LEMMA Standing == ASSUME DoneIInv, UNCHANGED Exec!execVars PROVE Place' /\ Deliver'
<1>1. /\ Place /\ Deliver
      /\ UNCHANGED <<options, disk, remote, article, status, stage, taskFiles, at, todo, output,
                     ops, sending, waiting, errors, failures, runs>>
  BY DEF DoneIInv, Exec!execVars
<1>2. Exec!Name' = Exec!Name
  BY <1>1 DEF Exec!Name
<1>3. Place'
  BY <1>1, <1>2 DEF Place, Exec!Parts
<1>4. Deliver'
  BY <1>1, <1>2
     DEF Deliver, Straight, Passed, Before, Available, Ready, Ahead, InHand, Sent, Arrived,
         Queued, Stored, Of, Sure, Delivered
<1> QED BY <1>3, <1>4

\* A login or a publication fails.
LEMMA FailedAtOnce ==
    ASSUME DoneIInv, Exec!PublishFails \/ Exec!LoginFails
    PROVE  Place' /\ Deliver'
<1>1. /\ status = "running" /\ Exec!StageFailed /\ UNCHANGED <<options, runs>>
      /\ article' \in {article, Exec!Published}
  BY DEF Exec!PublishFails, Exec!LoginFails, Exec!At
<1>2. article' \subseteq Exec!Parts
  BY <1>1, InArticle DEF DoneIInv, Place
<1> QED BY <1>1, <1>2, EndsBadly

\* A task begins with the recordings on the disk.
LEMMA DoneInit == ASSUME Exec!Init PROVE DoneIInv
<1>1. TaskIInv
  BY InitTask DEF TaskIInv
<1>2. Place
  BY DEF Exec!Init, Place, Exec!Parts
<1>3. Deliver
  BY DEF Exec!Init, Deliver
<1> QED BY <1>1, <1>2, <1>3 DEF DoneIInv

\* Every step of a task keeps what it has to deliver.
LEMMA DoneNext == DoneIInv /\ [Exec!Next]_(Exec!execVars) => DoneIInv'
<1> SUFFICES ASSUME DoneIInv, [Exec!Next]_(Exec!execVars) PROVE DoneIInv'
    OBVIOUS
<1>1. TaskIInv'
  BY NextTask DEF DoneIInv
<1>2. CASE UNCHANGED Exec!execVars
  BY <1>1, <1>2, Standing DEF DoneIInv
<1>3. CASE Exec!Next
  <2>1. Place' /\ Deliver'
    BY <1>3, Executed, Looked, Passes, Misses, Worked, Covered, Operated, OperationMissed,
       StageWorked, Submitted, FailedAtOnce, StagePublished, Found, Acquired, Uploaded,
       StageUploaded, Stopped
       DEF Exec!Next
  <2> QED BY <1>1, <2>1 DEF DoneIInv
<1> QED BY <1>2, <1>3

\* What the property says of a task that succeeded at once.
LEMMA WhatIsDone == DoneIInv => Exec!FirstRunDelivers
<1> SUFFICES ASSUME DoneIInv, status = "completed", runs = 1, ~options.fix
             PROVE  /\ options.upload /\ ~options.publishDelete =>
                          \A p \in Exec!Parts, s \in Storages :
                              \E x \in remote : /\ x[2] = s /\ Exec!IsVideo(x[1])
                                                /\ p \in Exec!Covers(x[1])
                    /\ options.publish => article = Exec!Parts
    BY DEF Exec!FirstRunDelivers
<1>1. Delivered /\ article \subseteq Exec!Parts
  BY DEF DoneIInv, Place, Deliver, Straight
<1>2. options.publish => article = Exec!Parts
  BY <1>1 DEF Delivered
<1>3. ASSUME options.upload, ~options.publishDelete, NEW p \in Exec!Parts, NEW s \in Storages
      PROVE  \E x \in remote : /\ x[2] = s /\ Exec!IsVideo(x[1])
                               /\ p \in Exec!Covers(x[1])
  <2>1. PICK r \in Recordings, i \in {1, 2} : p = <<r, i>>
    BY DEF Exec!Parts
  <2>2. PICK f \in Named : Of(r, f) /\ <<f, s>> \in remote
    BY <1>1, <1>3 DEF Delivered, Arrived, Stored
  <2>3. Exec!Covers(f) = {<<r, 1>>, <<r, 2>>}
    BY <2>2, WholeCovers DEF Of
  <2>4. p \in Exec!Covers(f) /\ Exec!IsVideo(f)
    BY <2>1, <2>2, <2>3 DEF Of
  <2>5. <<f, s>>[1] = f /\ <<f, s>>[2] = s
    OBVIOUS
  <2> QED BY <2>2, <2>4, <2>5, Zenon
<1> QED BY <1>2, <1>3

------------------------------------------------------------------------------
(* Counting: proofs over data of any length rest on the least number of which they fail *)

\* A set of numbers has a least one.
LEMMA LeastNumber ==
    ASSUME NEW T \in SUBSET Nat, T # {}
    PROVE  \E x \in T : \A y \in T : x <= y
<1>1. PICK x \in T : \A y \in T : ~(<<y, x>> \in OpToRel(<, Nat))
  BY WFMin, NatLessThanWellFounded, Zenon
<1>2. \A y \in T : ~(y < x)
  BY <1>1 DEF OpToRel
<1> QED BY <1>2

\* What holds of 0, and of every number if of the one before it, holds of all.
LEMMA CountingUp ==
    ASSUME NEW N \in Nat, NEW S, 0 \in S, \A n \in 1..N : n - 1 \in S => n \in S
    PROVE  \A n \in 0..N : n \in S
<1> SUFFICES ASSUME (0..N) \ S # {}
             PROVE  FALSE
    OBVIOUS
<1>1. PICK x \in (0..N) \ S : \A y \in (0..N) \ S : x <= y
  <2>1. (0..N) \ S \in SUBSET Nat
    OBVIOUS
  <2> QED BY <2>1, LeastNumber
<1>2. x \in 1..N /\ x - 1 \in 0..N /\ ~(x <= x - 1)
  BY <1>1
<1>3. x - 1 \in S
  BY <1>1, <1>2
<1> QED BY <1>1, <1>2, <1>3

\* f is what the first N steps make of base.
Follows(f, N, base, step) == f[0] = base /\ \A n \in 1..N : f[n] = step[<<f[n - 1], n>>]

\* A function defined by recursion over what is read exists, and has the type of its steps.
LEMMA RecursionExists ==
    \A N \in Nat : \A T : \A base \in T, step \in [T \X (1..N) -> T] :
        \E f \in [0..N -> T] : Follows(f, N, base, step)
<1> TAKE N \in Nat
<1> TAKE T
<1> TAKE base \in T, step \in [T \X (1..N) -> T]
<1> DEFINE S == {n \in 0..N : \E f \in [0..n -> T] :
                    f[0] = base /\ \A i \in 1..n : f[i] = step[<<f[i - 1], i>>]}
<1>1. 0 \in S
  <2> DEFINE f == [i \in 0..0 |-> base]
  <2>1. f \in [0..0 -> T] /\ f[0] = base /\ 1..0 = {} /\ 0 \in 0..N
    OBVIOUS
  <2> HIDE DEF f
  <2> QED BY <2>1
<1>2. ASSUME NEW n \in 1..N, n - 1 \in S
      PROVE  n \in S
  <2>1. PICK f \in [0..n - 1 -> T] :
            f[0] = base /\ \A i \in 1..n - 1 : f[i] = step[<<f[i - 1], i>>]
    BY <1>2
  <2>2. step[<<f[n - 1], n>>] \in T
    BY <2>1
  <2> DEFINE g == [i \in 0..n |-> IF i = n THEN step[<<f[n - 1], n>>] ELSE f[i]]
  <2>3. g \in [0..n -> T] /\ g[0] = base
    BY <2>1, <2>2
  <2>4. \A i \in 0..n - 1 : g[i] = f[i]
    OBVIOUS
  <2>5. \A i \in 1..n : g[i] = step[<<g[i - 1], i>>]
    <3> TAKE i \in 1..n
    <3>1. g[i - 1] = f[i - 1]
      BY <2>4
    <3>2. CASE i = n
      BY <3>1, <3>2
    <3>3. CASE i # n
      <4>1. i \in 1..n - 1
        BY <3>3
      <4> QED BY <2>1, <2>4, <3>1, <4>1
    <3> QED BY <3>2, <3>3
  <2> HIDE DEF g
  <2>6. n \in 0..N
    OBVIOUS
  <2> QED BY <2>3, <2>5, <2>6
<1>3. N \in S
  <2> HIDE DEF S
  <2> QED BY <1>1, <1>2, CountingUp
<1> QED BY <1>3 DEF Follows

------------------------------------------------------------------------------
(* The segments of requests *)

\* What a segment over these rows can be.
SegmentsOf(rows) ==
    [start : {rows[i].at : i \in 1..Len(rows)}, end : {rows[i].at : i \in 1..Len(rows)},
     ok : {rows[i].ok : i \in 1..Len(rows)}, count : Nat]

\* A row that continues the last segment moves its end and counts; another begins a segment.
LEMMA ExtendedIs ==
    ASSUME NEW rows, NEW n \in 1..Len(rows), NEW segs \in Seq(SegmentsOf(rows))
    PROVE  /\ Stat!Extended(segs, rows[n]) \in Seq(SegmentsOf(rows))
           /\ LET m == Len(segs)
                  new == Stat!Extended(segs, rows[n])
              IN  IF m > 0 /\ Stat!Continues(segs[m], rows[n])
                  THEN /\ Len(new) = m /\ \A k \in 1..m - 1 : new[k] = segs[k]
                       /\ new[m] = [start |-> segs[m].start, end |-> rows[n].at,
                                    ok |-> segs[m].ok, count |-> segs[m].count + 1]
                  ELSE /\ Len(new) = m + 1 /\ \A k \in 1..m : new[k] = segs[k]
                       /\ new[m + 1] = [start |-> rows[n].at, end |-> rows[n].at,
                                        ok |-> rows[n].ok, count |-> 1]
<1> DEFINE m == Len(segs)
           new == Stat!Extended(segs, rows[n])
           R == SegmentsOf(rows)
<1>1. m \in Nat /\ (m > 0 <=> segs # <<>>) /\ \A k \in 1..m : segs[k] \in R
  OBVIOUS
<1>2. CASE m > 0 /\ Stat!Continues(segs[m], rows[n])
  <2> DEFINE longer == [start |-> segs[m].start, end |-> rows[n].at, ok |-> segs[m].ok,
                        count |-> segs[m].count + 1]
  <2>1. m \in 1..m /\ segs[m] \in R
    BY <1>1, <1>2
  <2> DEFINE A == {rows[i].at : i \in 1..Len(rows)}
             B == {rows[i].ok : i \in 1..Len(rows)}
  <2>a. rows[n].at \in A
    OBVIOUS
  <2>b. R = [start : A, end : A, ok : B, count : Nat]
    BY DEF SegmentsOf
  <2>c. /\ segs[m].start \in A /\ segs[m].ok \in B /\ segs[m].count \in Nat
        /\ \A e : [[segs[m] EXCEPT !.end = e] EXCEPT !.count = segs[m].count + 1]
                = [start |-> segs[m].start, end |-> e, ok |-> segs[m].ok,
                   count |-> segs[m].count + 1]
    <3> HIDE DEF A, B, R
    <3>1. PICK x \in [start : A, end : A, ok : B, count : Nat] : x = segs[m]
      BY <2>1, <2>b
    <3> HIDE DEF m
    <3>2. x.start \in A /\ x.ok \in B /\ x.count \in Nat
      OBVIOUS
    <3>3. ASSUME NEW e, NEW c
          PROVE  [[x EXCEPT !.end = e] EXCEPT !.count = c]
                    = [start |-> x.start, end |-> e, ok |-> x.ok, count |-> c]
      <4>1. [x EXCEPT !.end = e] = [start |-> x.start, end |-> e, ok |-> x.ok, count |-> x.count]
        OBVIOUS
      <4>2. ASSUME NEW y, y = [start |-> x.start, end |-> e, ok |-> x.ok, count |-> x.count]
            PROVE  [y EXCEPT !.count = c]
                    = [start |-> x.start, end |-> e, ok |-> x.ok, count |-> c]
        BY <4>2
      <4> QED BY <4>1, <4>2
    <3> QED BY <3>1, <3>2, <3>3, Zenon
  <2>2. longer \in R
    <3>0. segs[m].count \in Nat
      BY <2>c, Zenon
    <3>1. segs[m].count + 1 \in Nat
      BY <3>0
    <3>2. longer \in [start : A, end : A, ok : B, count : Nat]
      <4> HIDE DEF A, B, R, m
      <4> QED BY <2>a, <2>c, <3>1
    <3> QED BY <2>b, <3>2, Zenon
  <2>3. new = [segs EXCEPT ![m] = longer]
    <3>1. [[segs[m] EXCEPT !.end = rows[n].at] EXCEPT !.count = segs[m].count + 1] = longer
      BY <2>c
    <3> QED BY <1>1, <1>2, <2>1, <3>1 DEF Stat!Extended, SegmentsOf
  <2> HIDE DEF longer
  <2>4. new \in Seq(R) /\ Len(new) = m /\ new[m] = longer /\ \A k \in 1..m - 1 : new[k] = segs[k]
    <3> HIDE DEF new, R
    <3> QED BY <1>1, <2>1, <2>2, <2>3
  <2> QED BY <1>2, <2>4 DEF longer
<1>3. CASE ~(m > 0 /\ Stat!Continues(segs[m], rows[n]))
  <2>1. new = Append(segs, Stat!Segment(rows[n]))
    BY <1>1, <1>3 DEF Stat!Extended
  <2>2. Stat!Segment(rows[n]) \in R
    BY DEF Stat!Segment, SegmentsOf
  <2>3. /\ new \in Seq(R) /\ Len(new) = m + 1 /\ new[m + 1] = Stat!Segment(rows[n])
        /\ \A k \in 1..m : new[k] = segs[k]
    <3> HIDE DEF new, R
    <3> QED BY <1>1, <2>1, <2>2
  <2> QED BY <1>3, <2>3 DEF Stat!Segment
<1> QED BY <1>2, <1>3

\* The segments are what the rows do one after the other (buildSegments).
LEMMA SegmentsSteps ==
    ASSUME NEW X, NEW rows \in Seq(X)
    PROVE  \E s \in [0..Len(rows) -> Seq(SegmentsOf(rows))] :
                /\ s[0] = <<>> /\ Stat!BuildSegments(rows) = s[Len(rows)]
                /\ \A n \in 1..Len(rows) : s[n] = Stat!Extended(s[n - 1], rows[n])
<1> DEFINE N == Len(rows)
           T == Seq(SegmentsOf(rows))
           step == [x \in T \X (1..N) |-> Stat!Extended(x[1], rows[x[2]])]
           Eqn(s) == s = [n \in 0..N |-> IF n = 0 THEN <<>>
                                         ELSE Stat!Extended(s[n - 1], rows[n])]
<1>1. N \in Nat /\ <<>> \in T
  OBVIOUS
<1>2. \A old \in T : \A n \in 1..N : Stat!Extended(old, rows[n]) \in T
  BY ExtendedIs
<1>3. step \in [T \X (1..N) -> T]
  <2> HIDE DEF T, N
  <2> QED BY <1>2
<1>4. \A x \in T, n \in 1..N : step[<<x, n>>] = Stat!Extended(x, rows[n])
  <2> HIDE DEF T, N
  <2> QED OBVIOUS
<1>5. \E s : Eqn(s)
  <2> HIDE DEF step, N, T
  <2>1. PICK f \in [0..N -> T] : Follows(f, N, <<>>, step)
    BY <1>1, <1>3, RecursionExists, Zenon
  <2>2. f[0] = <<>> /\ \A n \in 1..N : f[n] = step[<<f[n - 1], n>>]
    BY <2>1 DEF Follows
  <2>3. \A n \in 1..N : n - 1 \in 0..N /\ f[n - 1] \in T
    BY <1>1, <2>1
  <2>4. \A n \in 1..N : f[n] = Stat!Extended(f[n - 1], rows[n])
    BY <1>4, <2>2, <2>3
  <2>5. f = [n \in 0..N |-> IF n = 0 THEN <<>> ELSE Stat!Extended(f[n - 1], rows[n])]
    BY <1>1, <2>2, <2>4
  <2> QED BY <2>5, Zenon
<1> DEFINE q == CHOOSE s : Eqn(s)
<1>6. Eqn(q)
  BY <1>5, Zenon
<1>7. Stat!BuildSegments(rows) = q[N]
  BY Zenon DEF Stat!BuildSegments
<1>8. /\ q[0] = <<>> /\ q = [n \in 0..N |-> q[n]]
      /\ \A n \in 1..N : q[n] = Stat!Extended(q[n - 1], rows[n])
  <2> HIDE DEF q, N
  <2>1. q = [n \in 0..N |-> IF n = 0 THEN <<>> ELSE Stat!Extended(q[n - 1], rows[n])]
    BY <1>6, Zenon
  <2>2. \A n \in 0..N : q[n] = IF n = 0 THEN <<>> ELSE Stat!Extended(q[n - 1], rows[n])
    BY <2>1, Zenon
  <2>3. q = [n \in 0..N |-> q[n]]
    BY <2>1, <2>2, Zenon
  <2>4. 0 \in 0..N /\ \A n \in 1..N : n \in 0..N /\ n # 0
    BY <1>1
  <2> QED BY <2>2, <2>3, <2>4, Zenon
<1> DEFINE S == {k \in 0..N : q[k] \in T}
<1>9. \A n \in 0..N : n \in S
  <2> HIDE DEF q, N, T
  <2>1. 0 \in S
    BY <1>1, <1>8
  <2>2. ASSUME NEW n \in 1..N, n - 1 \in S
        PROVE  n \in S
    <3>1. n \in 0..N /\ q[n - 1] \in T
      BY <1>1, <2>2
    <3>2. q[n] \in T
      BY <1>2, <1>8, <3>1, Zenon
    <3> QED BY <3>1, <3>2
  <2> HIDE DEF S
  <2> QED BY <1>1, <2>1, <2>2, CountingUp
<1>10. q \in [0..N -> T]
  <2> HIDE DEF q, N, T
  <2> QED BY <1>8, <1>9
<1> HIDE DEF q
<1> QED BY <1>7, <1>8, <1>10

\* The first n rows are cut into segments: st is where each begins, seg the one of each row.
Cut(rows, n, segs, m, st, seg) ==
    /\ m = Len(segs) /\ st \in [1..m + 1 -> 1..n + 1] /\ seg \in [1..n -> 1..m]
    /\ st[1] = 1 /\ st[m + 1] = n + 1
    /\ \A k \in 1..m : st[k] < st[k + 1]
    /\ \A k \in 1..m : segs[k] = [start |-> rows[st[k]].at, end |-> rows[st[k + 1] - 1].at,
                                  ok |-> rows[st[k]].ok, count |-> st[k + 1] - st[k]]
    /\ \A k \in 1..m : k < m => ~Stat!Together(rows, st[k + 1] - 1)
    /\ \A i \in 1..n : \A k \in 1..m : st[k] <= i /\ i < st[k + 1] <=> seg[i] = k
    /\ \A i \in 1..n : rows[i].ok = rows[st[seg[i]]].ok
    /\ \A i \in 1..n : i + 1 < st[seg[i] + 1] => Stat!Together(rows, i)

\* A row more is cut as well.
LEMMA OneMoreCut ==
    ASSUME NEW X, NEW rows \in Seq(X), NEW n \in 1..Len(rows),
           NEW segs \in Seq(SegmentsOf(rows)), NEW m, NEW st, NEW seg,
           Cut(rows, n - 1, segs, m, st, seg)
    PROVE  \E m2, st2, seg2 : Cut(rows, n, Stat!Extended(segs, rows[n]), m2, st2, seg2)
<1> DEFINE new == Stat!Extended(segs, rows[n])
<1>0. m = Len(segs) /\ m \in Nat /\ n \in Nat /\ n >= 1 /\ (n - 1) + 1 = n /\ (n + 1) - 1 = n
      /\ (m + 1) + 1 = m + 2 /\ (n + 1) - n = 1
  <2>1. m = Len(segs)
    BY DEF Cut
  <2> QED BY <2>1
<1>1. st \in [1..m + 1 -> 1..n] /\ seg \in [1..n - 1 -> 1..m] /\ st[1] = 1 /\ st[m + 1] = n
  BY <1>0 DEF Cut
<1>2. \A k \in 1..m : st[k] < st[k + 1]
  BY DEF Cut
<1>3. \A k \in 1..m : segs[k] = [start |-> rows[st[k]].at, end |-> rows[st[k + 1] - 1].at,
                                ok |-> rows[st[k]].ok, count |-> st[k + 1] - st[k]]
  BY DEF Cut
<1>4. \A k \in 1..m : k < m => ~Stat!Together(rows, st[k + 1] - 1)
  BY DEF Cut
<1>5. \A i \in 1..n - 1 : \A k \in 1..m : st[k] <= i /\ i < st[k + 1] <=> seg[i] = k
  BY DEF Cut
<1>6. \A i \in 1..n - 1 : rows[i].ok = rows[st[seg[i]]].ok
  BY DEF Cut
<1>7. \A i \in 1..n - 1 : i + 1 < st[seg[i] + 1] => Stat!Together(rows, i)
  BY DEF Cut
<1>8. m > 0 /\ Stat!Continues(segs[m], rows[n]) =>
        /\ Len(new) = m /\ \A k \in 1..m - 1 : new[k] = segs[k]
        /\ new[m] = [start |-> segs[m].start, end |-> rows[n].at,
                     ok |-> segs[m].ok, count |-> segs[m].count + 1]
  BY <1>0, ExtendedIs
<1>9. ~(m > 0 /\ Stat!Continues(segs[m], rows[n])) =>
        /\ Len(new) = m + 1 /\ \A k \in 1..m : new[k] = segs[k]
        /\ new[m + 1] = [start |-> rows[n].at, end |-> rows[n].at, ok |-> rows[n].ok,
                         count |-> 1]
  <2>1. CASE m > 0 /\ Stat!Continues(segs[m], rows[n])
    BY <2>1
  <2>2. CASE ~(m > 0 /\ Stat!Continues(segs[m], rows[n]))
    <3>1. /\ Len(new) = Len(segs) + 1 /\ \A k \in 1..Len(segs) : new[k] = segs[k]
          /\ new[Len(segs) + 1] = [start |-> rows[n].at, end |-> rows[n].at, ok |-> rows[n].ok,
                                   count |-> 1]
      <4>1. ~(Len(segs) > 0 /\ Stat!Continues(segs[Len(segs)], rows[n]))
        BY <1>0, <2>2
      <4> QED BY <4>1, ExtendedIs, Zenon
    <3> QED BY <1>0, <3>1, Zenon
  <2> QED BY <2>1, <2>2
<1> HIDE DEF new
<1>10. \A k \in 1..m + 1 : st[k] \in Nat /\ st[k] >= 1 /\ st[k] <= n
  <2> TAKE k \in 1..m + 1
  <2>1. st[k] \in 1..n
    BY <1>1
  <2> QED BY <1>0, <2>1
<1>11. \A i \in 1..n - 1 : seg[i] \in 1..m /\ seg[i] + 1 \in 1..m + 1
  <2> TAKE i \in 1..n - 1
  <2>1. seg[i] \in 1..m
    BY <1>1
  <2> QED BY <1>0, <2>1
\* The last segment and the row before.
<1>12. ASSUME m > 0
       PROVE  /\ n - 1 \in 1..n - 1 /\ st[m] <= n - 1 /\ seg[n - 1] = m
              /\ segs[m] = [start |-> rows[st[m]].at, end |-> rows[n - 1].at,
                            ok |-> rows[st[m]].ok, count |-> n - st[m]]
              /\ rows[n - 1].ok = rows[st[m]].ok
  <2>1. m \in 1..m /\ m + 1 \in 1..m + 1 /\ m \in 1..m + 1
    BY <1>0, <1>12
  <2>2. st[m] < n /\ st[m] >= 1 /\ st[m] \in Nat
    BY <1>1, <1>2, <1>10, <2>1
  <2>3. n - 1 \in 1..n - 1 /\ st[m] <= n - 1 /\ n - 1 < n
    BY <1>0, <2>2
  <2>4. seg[n - 1] = m
    BY <1>1, <1>5, <2>1, <2>3
  <2>5. segs[m] = [start |-> rows[st[m]].at, end |-> rows[n - 1].at,
                   ok |-> rows[st[m]].ok, count |-> n - st[m]]
    BY <1>1, <1>3, <2>1, Zenon
  <2>6. rows[n - 1].ok = rows[st[m]].ok
    BY <1>6, <2>3, <2>4
  <2> QED BY <2>3, <2>4, <2>5, <2>6
<1>13. ASSUME m > 0
       PROVE  /\ segs[m].start = rows[st[m]].at /\ segs[m].ok = rows[st[m]].ok
              /\ segs[m].count = n - st[m]
              /\ Stat!Continues(segs[m], rows[n]) <=> Stat!Together(rows, n - 1)
  <2>1. segs[m].start = rows[st[m]].at /\ segs[m].ok = rows[st[m]].ok
        /\ segs[m].count = n - st[m] /\ segs[m].end = rows[n - 1].at
        /\ rows[n - 1].ok = rows[st[m]].ok
    BY <1>12, <1>13
  <2> QED BY <1>0, <2>1, Zenon DEF Stat!Continues, Stat!Together
<1>14. CASE m > 0 /\ Stat!Continues(segs[m], rows[n])
  <2> DEFINE st2 == [k \in 1..m + 1 |-> IF k = m + 1 THEN n + 1 ELSE st[k]]
             seg2 == [i \in 1..n |-> IF i = n THEN m ELSE seg[i]]
  <2>1. st2 \in [1..m + 1 -> 1..n + 1] /\ seg2 \in [1..n -> 1..m]
    <3>1. \A k \in 1..m + 1 : st2[k] \in 1..n + 1
      BY <1>0, <1>10
    <3>2. \A i \in 1..n : seg2[i] \in 1..m
      BY <1>0, <1>11, <1>14
    <3> QED BY <3>1, <3>2
  <2>2. st2[m + 1] = n + 1 /\ (\A k \in 1..m : st2[k] = st[k]) /\ st2[1] = 1
    BY <1>0, <1>1, <1>14
  <2>3. seg2[n] = m /\ \A i \in 1..n - 1 : seg2[i] = seg[i]
    BY <1>0
  <2>4. m \in 1..m /\ m \in 1..m + 1
    BY <1>0, <1>14
  <2> HIDE DEF st2, seg2
  <2>5. ASSUME NEW k \in 1..m
        PROVE  st2[k] < st2[k + 1]
    <3>1. CASE k = m
      BY <1>0, <1>10, <2>2, <2>4, <3>1
    <3>2. CASE k # m
      <4>1. k + 1 \in 1..m
        BY <1>0, <3>2
      <4> QED BY <1>2, <2>2, <4>1
    <3> QED BY <3>1, <3>2
  <2>6. ASSUME NEW k \in 1..m
        PROVE  new[k] = [start |-> rows[st2[k]].at, end |-> rows[st2[k + 1] - 1].at,
                         ok |-> rows[st2[k]].ok, count |-> st2[k + 1] - st2[k]]
    <3>1. CASE k = m
      <4>1. st2[k] = st[m] /\ st2[k + 1] = n + 1
        BY <2>2, <2>4, <3>1
      <4>2. segs[m].count + 1 = (n + 1) - st[m]
        <5>1. segs[m].count = n - st[m] /\ st[m] \in Nat
          BY <1>10, <1>13, <1>14, <2>4, Zenon
        <5> QED BY <1>0, <5>1
      <4>3. segs[m].start = rows[st[m]].at /\ segs[m].ok = rows[st[m]].ok
        BY <1>13, <1>14
      <4> QED BY <1>0, <1>8, <1>14, <3>1, <4>1, <4>2, <4>3, Zenon
    <3>2. CASE k # m
      <4>1. k \in 1..m - 1 /\ k + 1 \in 1..m
        BY <1>0, <3>2
      <4> QED BY <1>3, <1>8, <1>14, <2>2, <4>1, Zenon
    <3> QED BY <3>1, <3>2
  <2>7. ASSUME NEW k \in 1..m, k < m
        PROVE  ~Stat!Together(rows, st2[k + 1] - 1)
    <3>1. k + 1 \in 1..m
      BY <1>0, <2>7
    <3> QED BY <1>4, <2>2, <2>7, <3>1, Zenon
  <2>8. ASSUME NEW i \in 1..n, NEW k \in 1..m
        PROVE  st2[k] <= i /\ i < st2[k + 1] <=> seg2[i] = k
    <3>1. CASE i = n
      <4>1. CASE k = m
        BY <1>0, <1>10, <2>2, <2>3, <2>4, <3>1, <4>1
      <4>2. CASE k # m
        <5>1. k + 1 \in 1..m /\ k + 1 \in 1..m + 1
          BY <1>0, <4>2
        <5>2. st2[k + 1] \in Nat /\ st2[k + 1] <= n
          BY <1>10, <2>2, <5>1, Zenon
        <5>3. ~(n < st2[k + 1]) /\ seg2[n] # k
          BY <1>0, <2>3, <4>2, <5>2
        <5> QED BY <3>1, <5>3
      <4> QED BY <4>1, <4>2
    <3>2. CASE i # n
      <4>1. i \in 1..n - 1 /\ i < n /\ i < n + 1
        BY <1>0, <3>2
      <4>2. i < st2[k + 1] <=> i < st[k + 1]
        <5>1. CASE k = m
          BY <1>1, <2>2, <4>1, <5>1
        <5>2. CASE k # m
          <6>1. k + 1 \in 1..m
            BY <1>0, <5>2
          <6> QED BY <2>2, <6>1
        <5> QED BY <5>1, <5>2
      <4> QED BY <1>5, <2>2, <2>3, <4>1, <4>2
    <3> QED BY <3>1, <3>2
  <2>9. ASSUME NEW i \in 1..n
        PROVE  /\ rows[i].ok = rows[st2[seg2[i]]].ok
               /\ i + 1 < st2[seg2[i] + 1] => Stat!Together(rows, i)
    <3>1. CASE i = n
      <4>1. rows[n].ok = rows[st[m]].ok
        BY <1>13, <1>14, Zenon DEF Stat!Continues
      <4>2. ~(n + 1 < n + 1)
        BY <1>0
      <4> QED BY <2>2, <2>3, <2>4, <3>1, <4>1, <4>2, Zenon
    <3>2. CASE i # n
      <4>1. i \in 1..n - 1 /\ seg2[i] = seg[i] /\ seg[i] \in 1..m
        BY <1>0, <1>11, <2>3, <3>2
      <4>2. ASSUME i + 1 < st2[seg[i] + 1]
            PROVE  Stat!Together(rows, i)
        <5>1. CASE seg[i] = m
          <6>1. i + 1 < n \/ i = n - 1
            BY <1>0, <4>1
          <6> QED BY <1>1, <1>7, <1>13, <1>14, <4>1, <5>1, <6>1
        <5>2. CASE seg[i] # m
          <6>1. seg[i] + 1 \in 1..m
            BY <1>0, <4>1, <5>2
          <6> QED BY <1>7, <2>2, <4>1, <4>2, <6>1
        <5> QED BY <5>1, <5>2
      <4> QED BY <1>6, <2>2, <4>1, <4>2, Zenon
    <3> QED BY <3>1, <3>2
  <2>10. Cut(rows, n, new, m, st2, seg2)
    BY <1>8, <1>14, <2>1, <2>2, <2>5, <2>6, <2>7, <2>8, <2>9, Zenon DEF Cut
  <2> QED BY <2>10, Zenon DEF new
<1>15. CASE ~(m > 0 /\ Stat!Continues(segs[m], rows[n]))
  <2> DEFINE st2 == [k \in 1..m + 2 |-> IF k = m + 2 THEN n + 1 ELSE st[k]]
             seg2 == [i \in 1..n |-> IF i = n THEN m + 1 ELSE seg[i]]
  <2>1. st2 \in [1..m + 2 -> 1..n + 1] /\ seg2 \in [1..n -> 1..m + 1]
    <3>1. \A k \in 1..m + 2 : st2[k] \in 1..n + 1
      BY <1>0, <1>10
    <3>2. \A i \in 1..n : seg2[i] \in 1..m + 1
      BY <1>0, <1>11
    <3> QED BY <3>1, <3>2
  <2>2. /\ st2[m + 2] = n + 1 /\ (\A k \in 1..m + 1 : st2[k] = st[k]) /\ st2[1] = 1
        /\ st2[m + 1] = n
    BY <1>0, <1>1
  <2>3. seg2[n] = m + 1 /\ \A i \in 1..n - 1 : seg2[i] = seg[i]
    BY <1>0
  <2>4. \A k \in 1..m + 1 : k # m + 1 => k \in 1..m /\ k + 1 \in 1..m + 1
    BY <1>0
  <2> HIDE DEF st2, seg2
  <2>5. ASSUME NEW k \in 1..m + 1
        PROVE  st2[k] < st2[k + 1]
    <3>1. CASE k = m + 1
      BY <1>0, <2>2, <3>1
    <3>2. CASE k # m + 1
      BY <1>2, <2>2, <2>4, <3>2
    <3> QED BY <3>1, <3>2
  <2>6. ASSUME NEW k \in 1..m + 1
        PROVE  new[k] = [start |-> rows[st2[k]].at, end |-> rows[st2[k + 1] - 1].at,
                         ok |-> rows[st2[k]].ok, count |-> st2[k + 1] - st2[k]]
    <3>1. CASE k = m + 1
      BY <1>0, <1>9, <1>15, <2>2, <3>1, Zenon
    <3>2. CASE k # m + 1
      BY <1>3, <1>9, <1>15, <2>2, <2>4, <3>2, Zenon
    <3> QED BY <3>1, <3>2
  <2>7. ASSUME NEW k \in 1..m + 1, k < m + 1
        PROVE  ~Stat!Together(rows, st2[k + 1] - 1)
    <3>1. k \in 1..m /\ k + 1 \in 1..m + 1
      BY <1>0, <2>7
    <3>2. CASE k = m
      <4>1. m > 0 /\ st2[k + 1] = n
        BY <1>0, <2>2, <3>1, <3>2
      <4> QED BY <1>13, <1>15, <4>1, Zenon
    <3>3. CASE k # m
      <4>1. k < m
        BY <1>0, <3>1, <3>3
      <4> QED BY <1>4, <2>2, <3>1, <4>1, Zenon
    <3> QED BY <3>2, <3>3
  <2>8. ASSUME NEW i \in 1..n, NEW k \in 1..m + 1
        PROVE  st2[k] <= i /\ i < st2[k + 1] <=> seg2[i] = k
    <3>1. CASE i = n
      <4>1. CASE k = m + 1
        BY <1>0, <2>2, <2>3, <3>1, <4>1
      <4>2. CASE k # m + 1
        BY <1>0, <1>10, <2>2, <2>3, <2>4, <3>1, <4>2
      <4> QED BY <4>1, <4>2
    <3>2. CASE i # n
      <4>1. i \in 1..n - 1 /\ ~(n <= i) /\ seg[i] \in 1..m /\ seg[i] # m + 1
        BY <1>0, <1>11, <3>2
      <4>2. CASE k = m + 1
        BY <2>2, <2>3, <4>1, <4>2
      <4>3. CASE k # m + 1
        BY <1>5, <2>2, <2>3, <2>4, <4>1, <4>3
      <4> QED BY <4>2, <4>3
    <3> QED BY <3>1, <3>2
  <2>9. ASSUME NEW i \in 1..n
        PROVE  /\ rows[i].ok = rows[st2[seg2[i]]].ok
               /\ i + 1 < st2[seg2[i] + 1] => Stat!Together(rows, i)
    <3>1. CASE i = n
      <4>1. ~(n + 1 < n + 1)
        BY <1>0
      <4> QED BY <1>0, <2>2, <2>3, <3>1, <4>1, Zenon
    <3>2. CASE i # n
      <4>1. i \in 1..n - 1 /\ seg2[i] = seg[i] /\ seg[i] \in 1..m + 1 /\ seg[i] + 1 \in 1..m + 1
        BY <1>0, <1>11, <2>3, <3>2
      <4> QED BY <1>6, <1>7, <2>2, <4>1, Zenon
    <3> QED BY <3>1, <3>2
  <2>10. Cut(rows, n, new, m + 1, st2, seg2)
    BY <1>0, <1>9, <1>15, <2>1, <2>2, <2>5, <2>6, <2>7, <2>8, <2>9, Zenon DEF Cut
  <2> QED BY <2>10, Zenon DEF new
<1> QED BY <1>14, <1>15

\* The segments of rows cut them all.
LEMMA SegmentsCut ==
    ASSUME NEW X, NEW rows \in Seq(X)
    PROVE  \E m, st, seg : Cut(rows, Len(rows), Stat!BuildSegments(rows), m, st, seg)
<1> DEFINE N == Len(rows)
           T == Seq(SegmentsOf(rows))
<1>1. PICK s \in [0..N -> T] :
            /\ s[0] = <<>> /\ Stat!BuildSegments(rows) = s[N]
            /\ \A n \in 1..N : s[n] = Stat!Extended(s[n - 1], rows[n])
  BY SegmentsSteps
<1>2. N \in Nat /\ 0 \in 0..N /\ N \in 0..N /\ \A n \in 1..N : n - 1 \in 0..N /\ n \in 0..N
  OBVIOUS
<1> DEFINE S == {n \in 0..N : \E m, st, seg : Cut(rows, n, s[n], m, st, seg)}
<1>3. 0 \in S
  <2> DEFINE st == [k \in 1..1 |-> 1]
             seg == [i \in 1..0 |-> 1]
  <2>1. Cut(rows, 0, <<>>, 0, st, seg)
    BY DEF Cut
  <2> HIDE DEF st, seg
  <2>2. \E m, st2, seg2 : Cut(rows, 0, s[0], m, st2, seg2)
    BY <1>1, <2>1, Zenon
  <2> QED BY <1>2, <2>2
<1>4. ASSUME NEW n \in 1..N, n - 1 \in S
      PROVE  n \in S
  <2>1. PICK m, st, seg : Cut(rows, n - 1, s[n - 1], m, st, seg)
    BY <1>4
  <2>2. s[n - 1] \in T
    BY <1>1, <1>2
  <2>3. \E m2, st2, seg2 : Cut(rows, n, Stat!Extended(s[n - 1], rows[n]), m2, st2, seg2)
    BY <2>1, <2>2, OneMoreCut
  <2>4. s[n] = Stat!Extended(s[n - 1], rows[n])
    BY <1>1, Zenon
  <2>5. \E m2, st2, seg2 : Cut(rows, n, s[n], m2, st2, seg2)
    BY <2>3, <2>4, Zenon
  <2> HIDE DEF N
  <2> QED BY <1>2, <2>5, Zenon
<1>5. N \in S
  <2> HIDE DEF S, N
  <2> QED BY <1>2, <1>3, <1>4, CountingUp
<1> QED BY <1>1, <1>5

\* The instance has a copy of the operator of the library.
LEMMA SameCount == ASSUME NEW S PROVE Stat!Cardinality(S) = Cardinality(S)
BY DEF Stat!Cardinality, Cardinality

\* Rows are cut where the longest runs end.
LEMMA CutsAreRuns ==
    ASSUME NEW X, NEW rows \in Seq(X), NEW segs, NEW m, NEW st, NEW seg,
           Cut(rows, Len(rows), segs, m, st, seg), m \in Nat
    PROVE  Stat!Runs(rows) = {<<st[k], st[k + 1] - 1>> : k \in 1..m}
<1> DEFINE N == Len(rows)
<1>0. N \in Nat
  OBVIOUS
<1> HIDE DEF N
<1>1. st \in [1..m + 1 -> 1..N + 1] /\ seg \in [1..N -> 1..m] /\ st[1] = 1 /\ st[m + 1] = N + 1
  BY DEF Cut, N
<1>2. \A k \in 1..m : st[k] < st[k + 1]
  BY DEF Cut
<1>4. \A k \in 1..m : k < m => ~Stat!Together(rows, st[k + 1] - 1)
  BY DEF Cut
<1>5. \A i \in 1..N : \A k \in 1..m : st[k] <= i /\ i < st[k + 1] <=> seg[i] = k
  BY DEF Cut, N
<1>7. \A i \in 1..N : i + 1 < st[seg[i] + 1] => Stat!Together(rows, i)
  BY DEF Cut, N
<1>8. \A k \in 1..m : /\ st[k] \in 1..N /\ st[k + 1] \in 1..N + 1 /\ st[k + 1] - 1 \in 1..N
                      /\ st[k] <= st[k + 1] - 1
  <2> TAKE k \in 1..m
  <2>1. k \in 1..m + 1 /\ k + 1 \in 1..m + 1
    OBVIOUS
  <2>2. st[k] \in 1..N + 1 /\ st[k + 1] \in 1..N + 1
    BY <1>1, <2>1
  <2> QED BY <1>0, <1>2, <2>2
\* A cut is the end of a run.
<1>9. ASSUME NEW k \in 1..m
      PROVE  <<st[k], st[k + 1] - 1>> \in Stat!Runs(rows)
  <2>1. ASSUME NEW i \in st[k] .. (st[k + 1] - 1) - 1
        PROVE  Stat!Together(rows, i)
    <3>1. i \in 1..N /\ st[k] <= i /\ i < st[k + 1] /\ i + 1 < st[k + 1]
      BY <1>0, <1>8
    <3>2. seg[i] = k
      BY <1>5, <3>1
    <3> QED BY <1>7, <3>1, <3>2
  <2>2. st[k] > 1 => ~Stat!Together(rows, st[k] - 1)
    <3>1. CASE k = 1
      BY <1>1, <3>1
    <3>2. CASE k # 1
      <4>1. k - 1 \in 1..m /\ k - 1 < m /\ (k - 1) + 1 = k
        BY <3>2
      <4> QED BY <1>4, <4>1
    <3> QED BY <3>1, <3>2
  <2>3. st[k + 1] - 1 < N => ~Stat!Together(rows, st[k + 1] - 1)
    <3>1. CASE k = m
      BY <1>0, <1>1, <3>1
    <3>2. CASE k # m
      BY <1>4, <3>2
    <3> QED BY <3>1, <3>2
  <2> DEFINE run == <<st[k], st[k + 1] - 1>>
  <2>4. run \in (1..N) \X (1..N) /\ run[1] = st[k] /\ run[2] = st[k + 1] - 1
    BY <1>8
  <2> HIDE DEF run
  <2>5. /\ run[1] <= run[2] /\ \A i \in run[1] .. run[2] - 1 : Stat!Together(rows, i)
        /\ run[1] > 1 => ~Stat!Together(rows, run[1] - 1)
        /\ run[2] < N => ~Stat!Together(rows, run[2])
    BY <1>8, <2>1, <2>2, <2>3, <2>4
  <2>6. run \in Stat!Runs(rows)
    BY <2>4, <2>5, Zenon DEF Stat!Runs, N
  <2> QED BY <2>6 DEF run
\* A run begins and ends with a segment.
<1>10. ASSUME NEW run \in Stat!Runs(rows)
       PROVE  \E k \in 1..m : run = <<st[k], st[k + 1] - 1>>
  <2>1. /\ run \in (1..N) \X (1..N) /\ run[1] <= run[2]
        /\ \A i \in run[1] .. run[2] - 1 : Stat!Together(rows, i)
        /\ run[1] > 1 => ~Stat!Together(rows, run[1] - 1)
        /\ run[2] < N => ~Stat!Together(rows, run[2])
    BY Zenon DEF Stat!Runs, N
  <2> DEFINE a == run[1]
             b == run[2]
             k == seg[a]
  <2>2. a \in 1..N /\ b \in 1..N /\ run = <<a, b>> /\ a <= b
    BY <2>1
  <2>3. k \in 1..m
    BY <1>1, <2>2
  <2>4. st[k] <= a /\ a < st[k + 1]
    BY <1>5, <2>2, <2>3
  <2>a. /\ \A i \in a .. b - 1 : Stat!Together(rows, i)
        /\ a > 1 => ~Stat!Together(rows, a - 1)
        /\ b < N => ~Stat!Together(rows, b)
    BY <2>1
  <2> HIDE DEF a, b, k
  <2>5. st[k] = a
    <3> SUFFICES ASSUME st[k] < a
                 PROVE  FALSE
      BY <1>8, <2>2, <2>3, <2>4
    <3>1. a - 1 \in 1..N /\ st[k] <= a - 1 /\ a - 1 < st[k + 1] /\ (a - 1) + 1 < st[k + 1] /\ a > 1
      BY <1>0, <1>8, <2>2, <2>3, <2>4
    <3>2. seg[a - 1] = k
      BY <1>5, <2>3, <3>1
    <3> QED BY <1>7, <2>a, <3>1, <3>2
  <2>6. b < st[k + 1]
    <3> SUFFICES ASSUME ~(b < st[k + 1])
                 PROVE  FALSE
      OBVIOUS
    <3>1. st[k + 1] - 1 \in a .. b - 1 /\ st[k + 1] - 1 < N
      BY <1>0, <1>8, <2>2, <2>3, <2>4
    <3>2. k < m
      <4> SUFFICES ASSUME k = m
                   PROVE  FALSE
        BY <2>3
      <4> QED BY <1>0, <1>1, <3>1
    <3> QED BY <1>4, <2>3, <2>a, <3>1, <3>2
  <2>7. b = st[k + 1] - 1
    <3>0. b \in Nat /\ st[k + 1] \in Nat
      BY <1>0, <1>8, <2>2, <2>3
    <3> SUFFICES ASSUME b < st[k + 1] - 1
                 PROVE  FALSE
      BY <2>6, <3>0
    <3>1. b < N /\ st[k] <= b /\ b + 1 < st[k + 1]
      BY <1>0, <1>8, <2>2, <2>3, <2>5
    <3>2. seg[b] = k
      BY <1>5, <2>2, <2>3, <2>6, <3>1
    <3> QED BY <1>7, <2>2, <2>a, <3>1, <3>2
  <2> QED BY <2>2, <2>3, <2>5, <2>7
<1> QED BY <1>9, <1>10

\* What a view shows: the longest runs of the rows.
LEMMA ViewShowsRuns ==
    ASSUME NEW X, NEW rows \in Seq(X)
    PROVE  LET segments == Stat!BuildSegments(rows) longest == Stat!Runs(rows)
           IN  /\ Len(segments) = Stat!Cardinality(longest)
               /\ \A run \in longest : \E k \in 1 .. Len(segments) :
                    segments[k] = [start |-> rows[run[1]].at, end |-> rows[run[2]].at,
                                   ok |-> rows[run[1]].ok, count |-> run[2] - run[1] + 1]
<1> DEFINE segments == Stat!BuildSegments(rows)
           N == Len(rows)
<1>1. PICK m, st, seg : Cut(rows, N, segments, m, st, seg)
  BY SegmentsCut
<1>2. m \in Nat /\ m = Len(segments) /\ N \in Nat
  <2>1. \E s \in [0..N -> Seq(SegmentsOf(rows))] : segments = s[N]
    BY SegmentsSteps, Zenon
  <2>2. N \in 0..N
    OBVIOUS
  <2>3. segments \in Seq(SegmentsOf(rows))
    BY <2>1, <2>2
  <2>4. m = Len(segments)
    BY <1>1 DEF Cut
  <2> HIDE DEF segments
  <2> QED BY <2>3, <2>4
<1> DEFINE R == {<<st[k], st[k + 1] - 1>> : k \in 1..m}
<1>3. Stat!Runs(rows) = R
  BY <1>1, <1>2, CutsAreRuns
<1> HIDE DEF N, segments
<1>4. st \in [1..m + 1 -> 1..N + 1] /\ \A k \in 1..m : st[k] < st[k + 1]
  BY <1>1 DEF Cut
<1>5. \A i \in 1..N : \A k \in 1..m : st[k] <= i /\ i < st[k + 1] <=> seg[i] = k
  BY <1>1 DEF Cut
<1>6. \A k \in 1..m : segments[k] =
        [start |-> rows[st[k]].at, end |-> rows[st[k + 1] - 1].at,
         ok |-> rows[st[k]].ok, count |-> st[k + 1] - st[k]]
  BY <1>1 DEF Cut
<1>7. \A k \in 1..m : /\ st[k] \in 1..N /\ st[k + 1] \in Nat /\ seg[st[k]] = k
                      /\ (st[k + 1] - 1) - st[k] + 1 = st[k + 1] - st[k]
  <2> TAKE k \in 1..m
  <2>1. k \in 1..m + 1 /\ k + 1 \in 1..m + 1
    BY <1>2
  <2>2. st[k] \in 1..N + 1 /\ st[k + 1] \in 1..N + 1 /\ st[k] < st[k + 1]
    BY <1>4, <2>1
  <2> QED BY <1>2, <1>5, <2>2
<1>8. Cardinality(R) = m
  <2> DEFINE f == [k \in 1..m |-> <<st[k], st[k + 1] - 1>>]
  <2>1. f \in Surjection(1..m, R)
    BY DEF Surjection
  <2>2. f \in Injection(1..m, R)
    <3>1. f \in [1..m -> R]
      OBVIOUS
    <3>2. ASSUME NEW x \in 1..m, NEW y \in 1..m, f[x] = f[y]
          PROVE  x = y
      <4>1. st[x] = st[y]
        BY <3>2
      <4> HIDE DEF f
      <4> QED BY <1>7, <4>1
    <3> HIDE DEF f, R
    <3> QED BY <3>1, <3>2 DEF Injection, IsInjective
  <2>3. IsFiniteSet(1..m) /\ Cardinality(1..m) = m
    <3>1. m \in Nat
      BY <1>2
    <3>2. ASSUME NEW k \in Nat
          PROVE  IsFiniteSet(1..k) /\ Cardinality(1..k) = k
      BY FS_Interval
    <3> QED BY <3>1, <3>2, Zenon
  <2> HIDE DEF f, R
  <2> QED BY <2>1, <2>2, <2>3, FS_Surjection
<1>9. Len(segments) = Stat!Cardinality(Stat!Runs(rows))
  BY <1>2, <1>3, <1>8, SameCount
<1>10. ASSUME NEW run \in Stat!Runs(rows)
       PROVE  \E k \in 1 .. Len(segments) :
                segments[k] = [start |-> rows[run[1]].at, end |-> rows[run[2]].at,
                               ok |-> rows[run[1]].ok, count |-> run[2] - run[1] + 1]
  <2>1. PICK k \in 1..m : run = <<st[k], st[k + 1] - 1>>
    BY <1>3
  <2>2. run[1] = st[k] /\ run[2] = st[k + 1] - 1
    BY <2>1
  <2>3. run[2] - run[1] + 1 = st[k + 1] - st[k]
    BY <1>7, <2>2
  <2>4. segments[k] = [start |-> rows[run[1]].at, end |-> rows[run[2]].at,
                       ok |-> rows[run[1]].ok, count |-> run[2] - run[1] + 1]
    BY <1>6, <2>2, <2>3, Zenon
  <2> QED BY <1>2, <2>4, Zenon
<1> QED BY <1>9, <1>10 DEF segments

\* Rows in order are a sequence of their set, each once.
LEMMA RowsInOrder ==
    ASSUME NEW Q, IsFiniteSet(Q), NEW rows \in Stat!InOrder(Q)
    PROVE  /\ rows \in Seq(Q) /\ \A i \in 1..Len(rows) - 1 : rows[i].at <= rows[i + 1].at
           /\ \A q \in Q : \E i \in 1..Len(rows) : rows[i] = q
<1> DEFINE n == Stat!Cardinality(Q)
<1>1. n = Cardinality(Q) /\ n \in Nat
  BY SameCount, FS_CardinalityType
<1>2. rows \in Stat!SetToSeqs(Q) /\ \A i \in 1..Len(rows) - 1 : rows[i].at <= rows[i + 1].at
  BY DEF Stat!InOrder
<1>3. rows \in [1..n -> Q] /\ \A i, j \in 1..n : i # j => rows[i] # rows[j]
  BY <1>2 DEF Stat!SetToSeqs
<1> HIDE DEF n
<1>4. rows \in Seq(Q) /\ Len(rows) = n
  BY <1>1, <1>3
<1>5. rows \in Injection(1..n, Q)
  BY <1>3, Zenon DEF Injection, IsInjective
<1>6. IsFiniteSet(1..n) /\ Cardinality(1..n) = n
  BY <1>1, FS_Interval
<1>7. rows \in Surjection(1..n, Q)
  BY <1>1, <1>5, <1>6, FS_Injection
<1>8. \A q \in Q : \E i \in 1..n : rows[i] = q
  BY <1>7 DEF Surjection
<1> QED BY <1>2, <1>4, <1>8

\* Whatever rows there are, the segments of a view are their longest runs.
LEMMA ViewsAreRuns == IsFiniteSet(statuses) => Stat!SegmentsAreRuns
<1> SUFFICES ASSUME IsFiniteSet(statuses),
                    NEW rooms \in {StatRooms} \cup {{r} : r \in StatRooms}, NEW from \in 1..now,
                    NEW rows \in Stat!InOrder(Stat!Viewed(rooms, from, now))
             PROVE  LET segments == Stat!BuildSegments(rows) longest == Stat!Runs(rows)
                    IN  /\ Len(segments) = Stat!Cardinality(longest)
                        /\ \A run \in longest : \E k \in 1 .. Len(segments) :
                            segments[k] =
                                [start |-> rows[run[1]].at, end |-> rows[run[2]].at,
                                 ok |-> rows[run[1]].ok, count |-> run[2] - run[1] + 1]
  BY Zenon DEF Stat!SegmentsAreRuns
<1>1. IsFiniteSet(Stat!Viewed(rooms, from, now))
  <2>1. Stat!Viewed(rooms, from, now) \subseteq statuses
    BY DEF Stat!Viewed
  <2> QED BY <2>1, FS_Subset
<1>2. rows \in Seq(Stat!Viewed(rooms, from, now))
  BY <1>1, RowsInOrder
<1> QED BY <1>2, ViewShowsRuns, Zenon

------------------------------------------------------------------------------
(* The bytes of a room *)

LEMMA BucketIsPositive == Bucket \in Nat \ {0}
BY ServerAssumption DEF ServerAssumption

\* A quotient is a number, and stands for no more than what was divided.
LEMMA Quotients ==
    ASSUME NEW d \in Nat, NEW e \in Nat \ {0}
    PROVE  d \div e \in Nat /\ (d \div e) * e \in Nat /\ (d \div e) * e <= d
<1>1. e > 0
  OBVIOUS
<1>2. d \div e \in Nat /\ e * (d \div e) <= d
  BY <1>1
<1>3. \A q \in Nat : q * e = e * q /\ q * e \in Nat
  OBVIOUS
<1> QED BY <1>2, <1>3

\* What the views are taken of.
TakenIInv ==
    /\ now \in Nat /\ lastCollect \in Nat
    /\ IsFiniteSet(recording) /\ recording \subseteq StatRooms
    /\ IsFiniteSet(tracking) /\ IsFiniteSet(statuses) /\ IsFiniteSet(samples)
    /\ \A s \in samples : s.at \in Nat /\ s.bytes \in Nat /\ s.speed \in Nat
    /\ total \in [StatRooms -> Nat] /\ inFile \in [StatRooms -> Nat]
    /\ everWritten \in [StatRooms -> Nat] /\ counted \in [StatRooms -> Nat]
    /\ lastBytes \in [StatRooms -> Nat \cup {-1}]
    /\ \A r \in StatRooms : inFile[r] <= total[r]

\* Counted, and written but not counted yet: what the parser has beyond the last sample, or
\* all of it if the last sample is of a recording before.
Accounted(r) ==
    IF lastBytes[r] = -1 THEN counted[r] = 0 /\ total[r] <= everWritten[r]
    ELSE IF lastBytes[r] <= total[r]
         THEN counted[r] + (total[r] - lastBytes[r]) <= everWritten[r]
         ELSE counted[r] + total[r] <= everWritten[r]

CountIInv == \A r \in StatRooms \ fellBack : Accounted(r)

StatIInv == TakenIInv /\ CountIInv

LEMMA StatStart == Stat!Init => StatIInv
<1> SUFFICES ASSUME Stat!Init
             PROVE  StatIInv
    OBVIOUS
<1>1. IsFiniteSet({})
  BY FS_EmptySet
<1>2. TakenIInv
  BY <1>1 DEF Stat!Init, TakenIInv
<1>3. CountIInv
  BY DEF Stat!Init, CountIInv, Accounted
<1> QED BY <1>2, <1>3 DEF StatIInv

\* Requests are noted one at a time, and rows are deleted.
LEMMA NotedStep ==
    ASSUME StatIInv, Stat!RequestNext
    PROVE  StatIInv'
<1>1. TakenIInv /\ CountIInv
  BY DEF StatIInv
<1>2. CASE Stat!Tick
  <2>1. CountIInv'
    BY <1>1, <1>2 DEF Stat!Tick, Stat!byteVars, CountIInv, Accounted
  <2>2. TakenIInv'
    BY <1>1, <1>2 DEF Stat!Tick, Stat!byteVars, Stat!requestVars, TakenIInv
  <2> QED BY <2>1, <2>2 DEF StatIInv
<1>3. CASE Stat!Cleanup
  <2>1. CountIInv'
    BY <1>1, <1>3 DEF Stat!Cleanup, CountIInv, Accounted
  <2>2. samples' \subseteq samples /\ statuses' \subseteq statuses
    BY <1>3 DEF Stat!Cleanup
  <2>3. IsFiniteSet(samples') /\ IsFiniteSet(statuses')
    BY <1>1, <2>2, FS_Subset DEF TakenIInv
  <2>4. TakenIInv'
    BY <1>1, <1>3, <2>2, <2>3 DEF Stat!Cleanup, TakenIInv
  <2> QED BY <2>1, <2>4 DEF StatIInv
<1>4. ASSUME NEW r \in StatRooms, NEW ok \in BOOLEAN, Stat!Track(r, ok)
      PROVE  StatIInv'
  <2>1. CountIInv'
    BY <1>1, <1>4 DEF Stat!Track, Stat!byteVars, CountIInv, Accounted
  <2>2. IsFiniteSet(tracking')
    BY <1>1, <1>4, FS_AddElement DEF Stat!Track, TakenIInv
  <2>3. TakenIInv'
    BY <1>1, <1>4, <2>2 DEF Stat!Track, Stat!byteVars, TakenIInv
  <2> QED BY <2>1, <2>3 DEF StatIInv
<1>5. ASSUME NEW g \in tracking, Stat!TakeTime(g)
      PROVE  StatIInv'
  <2>1. CountIInv'
    BY <1>1, <1>5 DEF Stat!TakeTime, Stat!byteVars, CountIInv, Accounted
  <2>2. IsFiniteSet(tracking')
    BY <1>1, <1>5, FS_AddElement, FS_RemoveElement DEF Stat!TakeTime, TakenIInv
  <2>3. TakenIInv'
    BY <1>1, <1>5, <2>2 DEF Stat!TakeTime, Stat!byteVars, TakenIInv
  <2> QED BY <2>1, <2>3 DEF StatIInv
<1>6. ASSUME NEW g \in tracking, Stat!SaveRequestStatus(g)
      PROVE  StatIInv'
  <2>1. CountIInv'
    BY <1>1, <1>6 DEF Stat!SaveRequestStatus, Stat!byteVars, CountIInv, Accounted
  <2>2. IsFiniteSet(tracking')
    BY <1>1, <1>6, FS_RemoveElement DEF Stat!SaveRequestStatus, TakenIInv
  <2>3. IsFiniteSet(statuses')
    BY <1>1, <1>6, FS_AddElement DEF Stat!SaveRequestStatus, TakenIInv
  <2>4. TakenIInv'
    BY <1>1, <1>6, <2>2, <2>3 DEF Stat!SaveRequestStatus, Stat!byteVars, TakenIInv
  <2> QED BY <2>1, <2>4 DEF StatIInv
<1> QED BY <1>2, <1>3, <1>4, <1>5, <1>6 DEF Stat!RequestNext

\* A room that the collector sees: what it has counted was written before.
LEMMA CollectCounts ==
    ASSUME TakenIInv, CountIInv, NEW r \in StatRooms, r \notin fellBack, NEW current \in Nat,
           current <= total[r], lastBytes[r] <= total[r] => ~(current < lastBytes[r]),
           NEW e \in Nat \ {0}
    PROVE  LET more == (Stat!Delta(r, current) \div e) * e
           IN  /\ more \in Nat /\ Stat!Delta(r, current) \div e \in Nat
               /\ counted[r] + more + (total[r] - current) <= everWritten[r]
               /\ lastBytes[r] = -1 => counted[r] + more = 0
<1> DEFINE delta == Stat!Delta(r, current)
           more == (delta \div e) * e
<1>1. /\ total[r] \in Nat /\ counted[r] \in Nat /\ everWritten[r] \in Nat
      /\ lastBytes[r] \in Nat \cup {-1}
  BY DEF TakenIInv
<1>2. delta = IF lastBytes[r] # -1 /\ current > lastBytes[r] THEN current - lastBytes[r] ELSE 0
  BY DEF Stat!Delta
<1> HIDE DEF delta
<1>3. delta \in Nat
  BY <1>1, <1>2
<1>4. delta \div e \in Nat /\ more \in Nat /\ more <= delta
  BY <1>3, Quotients
<1> HIDE DEF more
<1>5. Accounted(r)
  BY DEF CountIInv
<1>6. counted[r] + more + (total[r] - current) <= everWritten[r]
  BY <1>1, <1>2, <1>3, <1>4, <1>5 DEF Accounted
<1>7. lastBytes[r] = -1 => counted[r] + more = 0
  BY <1>1, <1>2, <1>4, <1>5 DEF Accounted
<1> QED BY <1>4, <1>6, <1>7 DEF more, delta

\* The collector takes a sample of every recorder.
LEMMA CollectStep ==
    ASSUME StatIInv, Stat!Collect
    PROVE  StatIInv'
<1>1. TakenIInv /\ CountIInv
  BY DEF StatIInv
<1>2. PICK silent \in SUBSET recording, saved \in BOOLEAN :
        LET current == [r \in recording |-> IF r \in silent \/ total[r] = 0 THEN inFile[r]
                                            ELSE total[r]]
            speed == [r \in recording |-> Stat!Delta(r, current[r]) \div (now - lastCollect)]
        IN  /\ lastBytes' = [r \in StatRooms |-> IF r \in recording THEN current[r]
                                                 ELSE lastBytes[r]]
            /\ counted' = [r \in StatRooms |-> counted[r] + IF r \in recording
                                              THEN speed[r] * (now - lastCollect) ELSE 0]
            /\ samples' = IF saved
                          THEN samples \cup {[at |-> now, room |-> r, speed |-> speed[r],
                                              bytes |-> current[r]] :
                                             r \in {r \in recording : speed[r] > 0}}
                          ELSE samples
            /\ fellBack' = fellBack \cup {r \in silent : current[r] < lastBytes[r]
                                                         /\ lastBytes[r] <= total[r]}
  BY Zenon DEF Stat!Collect
<1> DEFINE current == [r \in recording |-> IF r \in silent \/ total[r] = 0 THEN inFile[r]
                                           ELSE total[r]]
           e == now - lastCollect
           speed == [r \in recording |-> Stat!Delta(r, current[r]) \div e]
           Seen == {r \in recording : speed[r] > 0}
           new == {[at |-> now, room |-> r, speed |-> speed[r], bytes |-> current[r]] : r \in Seen}
<1>3. lastBytes' = [r \in StatRooms |-> IF r \in recording THEN current[r] ELSE lastBytes[r]]
  BY <1>2, Zenon
<1>4. counted' = [r \in StatRooms |-> counted[r] + IF r \in recording THEN speed[r] * e ELSE 0]
  BY <1>2, Zenon
<1>5. samples' = samples \cup new \/ samples' = samples
  BY <1>2, Zenon
<1>6. fellBack' = fellBack \cup {r \in silent : current[r] < lastBytes[r]
                                               /\ lastBytes[r] <= total[r]}
  BY <1>2, Zenon
<1>7. /\ now > lastCollect /\ lastCollect' = now
      /\ UNCHANGED <<now, requested, tracking, statuses, recording, total, inFile, everWritten>>
  BY DEF Stat!Collect, Stat!requestVars
<1>8. \A r \in recording : /\ r \in StatRooms
                           /\ total[r] \in Nat /\ inFile[r] \in Nat /\ inFile[r] <= total[r]
  BY <1>1 DEF TakenIInv
<1>9. ASSUME NEW r \in recording
      PROVE  /\ current[r] \in Nat /\ current[r] <= total[r] /\ speed[r] \in Nat
             /\ e \in Nat \ {0} /\ speed[r] = Stat!Delta(r, current[r]) \div e
             /\ speed[r] * e \in Nat
             /\ r \notin silent => ~(current[r] < total[r])
  <2>1. e \in Nat \ {0}
    BY <1>1, <1>7 DEF TakenIInv
  <2>2. current[r] = IF r \in silent \/ total[r] = 0 THEN inFile[r] ELSE total[r]
    OBVIOUS
  <2>3. speed[r] = Stat!Delta(r, current[r]) \div e
    OBVIOUS
  <2> HIDE DEF current, speed, e
  <2>4. /\ current[r] \in Nat /\ current[r] <= total[r]
        /\ r \notin silent => ~(current[r] < total[r])
    BY <1>8, <2>2
  <2>5. lastBytes[r] \in Nat \cup {-1}
    BY <1>1, <1>8 DEF TakenIInv
  <2>6. Stat!Delta(r, current[r]) \in Nat
    BY <2>4, <2>5 DEF Stat!Delta
  <2> QED BY <2>1, <2>3, <2>4, <2>6, Quotients
<1> HIDE DEF current, speed, e
<1>10. CountIInv'
  <2> SUFFICES ASSUME NEW r \in StatRooms, r \notin fellBack'
               PROVE  Accounted(r)'
    BY DEF CountIInv
  <2>1. r \notin fellBack
    BY <1>6
  <2>2. CASE r \in recording
    <3>1. lastBytes'[r] = current[r] /\ counted'[r] = counted[r] + speed[r] * e
      BY <1>3, <1>4, <2>2
    <3>2. lastBytes[r] <= total[r] => ~(current[r] < lastBytes[r])
      <4>1. CASE r \in silent
        BY <1>6, <4>1
      <4>2. CASE r \notin silent
        <5>1. lastBytes[r] \in Nat \cup {-1} /\ total[r] \in Nat
          BY <1>1 DEF TakenIInv
        <5> QED BY <1>9, <2>2, <4>2, <5>1
      <4> QED BY <4>1, <4>2
    <3>3. counted[r] + speed[r] * e + (total[r] - current[r]) <= everWritten[r]
      BY <1>1, <1>9, <2>1, <2>2, <3>2, CollectCounts
    <3>4. current[r] # -1 /\ current[r] <= total[r]
      BY <1>9, <2>2
    <3> QED BY <1>7, <3>1, <3>3, <3>4 DEF Accounted
  <2>3. CASE r \notin recording
    <3>1. lastBytes'[r] = lastBytes[r] /\ counted'[r] = counted[r] + 0
      BY <1>3, <1>4, <2>3
    <3>2. counted[r] + 0 = counted[r]
      BY <1>1 DEF TakenIInv
    <3>3. Accounted(r)
      BY <1>1, <2>1 DEF CountIInv
    <3> QED BY <1>7, <3>1, <3>2, <3>3 DEF Accounted
  <2> QED BY <2>2, <2>3
<1>11. IsFiniteSet(new) /\ \A s \in new : s.at \in Nat /\ s.bytes \in Nat /\ s.speed \in Nat
  <2> DEFINE f == [r \in Seen |-> [at |-> now, room |-> r, speed |-> speed[r],
                                   bytes |-> current[r]]]
  <2>1. f \in Surjection(Seen, new)
    BY DEF Surjection
  <2>2. IsFiniteSet(Seen)
    <3>1. Seen \subseteq recording /\ IsFiniteSet(recording)
      BY <1>1 DEF TakenIInv
    <3> QED BY <3>1, FS_Subset
  <2>3. ASSUME NEW s \in new
        PROVE  s.at \in Nat /\ s.bytes \in Nat /\ s.speed \in Nat
    <3>1. PICK r \in Seen : s = [at |-> now, room |-> r, speed |-> speed[r],
                                 bytes |-> current[r]]
      OBVIOUS
    <3>2. now \in Nat /\ speed[r] \in Nat /\ current[r] \in Nat
      BY <1>1, <1>9 DEF TakenIInv
    <3> QED BY <3>1, <3>2
  <2>4. IsFiniteSet(new)
    <3> HIDE DEF f, new, Seen
    <3> QED BY <2>1, <2>2, FS_Surjection
  <2> QED BY <2>3, <2>4
<1> HIDE DEF new
<1>12. TakenIInv'
  <2>1. IsFiniteSet(samples')
    <3>1. IsFiniteSet(samples)
      BY <1>1 DEF TakenIInv
    <3> QED BY <1>5, <1>11, <3>1, FS_Union
  <2>2. \A s \in samples' : s.at \in Nat /\ s.bytes \in Nat /\ s.speed \in Nat
    BY <1>1, <1>5, <1>11 DEF TakenIInv
  <2>3. lastBytes' \in [StatRooms -> Nat \cup {-1}]
    BY <1>1, <1>3, <1>9 DEF TakenIInv
  <2>4. counted' \in [StatRooms -> Nat]
    <3>1. \A r \in StatRooms : counted[r] \in Nat
      BY <1>1 DEF TakenIInv
    <3>2. \A r \in StatRooms : (IF r \in recording THEN speed[r] * e ELSE 0) \in Nat
      BY <1>9
    <3>3. \A r \in StatRooms : counted[r] + (IF r \in recording THEN speed[r] * e ELSE 0) \in Nat
      BY <3>1, <3>2
    <3> QED BY <1>4, <3>3
  <2> QED BY <1>1, <1>7, <2>1, <2>2, <2>3, <2>4 DEF TakenIInv
<1> QED BY <1>10, <1>12 DEF StatIInv

\* Recorders write, and the collector counts.
LEMMA ByteStep ==
    ASSUME StatIInv, Stat!ByteNext
    PROVE  StatIInv'
<1>1. TakenIInv /\ CountIInv
  BY DEF StatIInv
<1>2. \A r \in StatRooms : /\ total[r] \in Nat /\ inFile[r] \in Nat /\ everWritten[r] \in Nat
                           /\ counted[r] \in Nat /\ lastBytes[r] \in Nat \cup {-1}
                           /\ r \notin fellBack => Accounted(r)
  BY <1>1 DEF TakenIInv, CountIInv
<1>3. CASE Stat!Tick \/ Stat!Cleanup
  BY <1>3, NotedStep DEF Stat!RequestNext
<1>4. CASE Stat!Collect
  BY <1>4, CollectStep
<1>5. ASSUME NEW r \in StatRooms, Stat!Record(r)
      PROVE  StatIInv'
  <2>1. /\ recording' = recording \cup {r}
        /\ total' = [total EXCEPT ![r] = 0] /\ inFile' = [inFile EXCEPT ![r] = 0]
        /\ UNCHANGED <<now, requested, tracking, statuses, lastBytes, lastCollect, samples,
                       everWritten, counted, fellBack>>
    BY <1>5 DEF Stat!Record, Stat!requestVars
  <2>2. IsFiniteSet(recording')
    BY <1>1, <2>1, FS_AddElement DEF TakenIInv
  <2>3. TakenIInv'
    BY <1>1, <2>1, <2>2 DEF TakenIInv
  <2>4. CountIInv'
    <3> SUFFICES ASSUME NEW q \in StatRooms, q \notin fellBack'
                 PROVE  Accounted(q)'
      BY DEF CountIInv
    <3>1. total'[q] = IF q = r THEN 0 ELSE total[q]
      BY <1>1, <2>1 DEF TakenIInv
    <3>2. Accounted(q)
      BY <1>2, <2>1
    <3> QED BY <1>2, <2>1, <3>1, <3>2 DEF Accounted
  <2> QED BY <2>3, <2>4 DEF StatIInv
<1>6. ASSUME NEW r \in StatRooms, Stat!Write(r)
      PROVE  StatIInv'
  <2>1. /\ total' = [total EXCEPT ![r] = @ + 1]
        /\ everWritten' = [everWritten EXCEPT ![r] = @ + 1]
        /\ UNCHANGED <<now, requested, tracking, statuses, recording, inFile, lastBytes,
                       lastCollect, samples, counted, fellBack>>
    BY <1>6 DEF Stat!Write, Stat!requestVars
  <2>2. TakenIInv'
    BY <1>1, <2>1 DEF TakenIInv
  <2>3. CountIInv'
    <3> SUFFICES ASSUME NEW q \in StatRooms, q \notin fellBack'
                 PROVE  Accounted(q)'
      BY DEF CountIInv
    <3>1. /\ total'[q] = IF q = r THEN total[q] + 1 ELSE total[q]
          /\ everWritten'[q] = IF q = r THEN everWritten[q] + 1 ELSE everWritten[q]
      BY <1>1, <2>1 DEF TakenIInv
    <3>2. Accounted(q)
      BY <1>2, <2>1
    <3> QED BY <1>2, <2>1, <3>1, <3>2 DEF Accounted
  <2> QED BY <2>2, <2>3 DEF StatIInv
<1>7. ASSUME NEW r \in StatRooms, Stat!Flush(r)
      PROVE  StatIInv'
  <2>1. /\ inFile' = [inFile EXCEPT ![r] = total[r]]
        /\ UNCHANGED <<now, requested, tracking, statuses, recording, total, lastBytes,
                       lastCollect, samples, everWritten, counted, fellBack>>
    BY <1>7 DEF Stat!Flush, Stat!requestVars
  <2>2. TakenIInv'
    BY <1>1, <2>1 DEF TakenIInv
  <2>3. CountIInv'
    BY <1>1, <2>1 DEF CountIInv, Accounted
  <2> QED BY <2>2, <2>3 DEF StatIInv
<1>8. ASSUME NEW r \in StatRooms, Stat!EndRecord(r)
      PROVE  StatIInv'
  <2>1. /\ recording' = recording \ {r}
        /\ UNCHANGED <<now, requested, tracking, statuses, total, inFile, lastBytes,
                       lastCollect, samples, everWritten, counted, fellBack>>
    BY <1>8 DEF Stat!EndRecord, Stat!requestVars
  <2>2. IsFiniteSet(recording') /\ recording' \subseteq StatRooms
    BY <1>1, <2>1, FS_RemoveElement DEF TakenIInv
  <2>3. TakenIInv'
    BY <1>1, <2>1, <2>2 DEF TakenIInv
  <2>4. CountIInv'
    BY <1>1, <2>1 DEF CountIInv, Accounted
  <2> QED BY <2>3, <2>4 DEF StatIInv
<1> QED BY <1>3, <1>4, <1>5, <1>6, <1>7, <1>8 DEF Stat!ByteNext

\* Every step of the statistics keeps what the views are taken of.
LEMMA StatStep ==
    ASSUME StatIInv, [Stat!Next]_(Stat!statVars)
    PROVE  StatIInv'
<1>1. CASE UNCHANGED Stat!statVars
  <2>1. /\ UNCHANGED <<now, requested, tracking, statuses>>
        /\ UNCHANGED <<recording, total, inFile, lastBytes, lastCollect, samples, everWritten,
                       counted, fellBack>>
    BY <1>1 DEF Stat!statVars, Stat!requestVars, Stat!byteVars
  <2>2. TakenIInv'
    BY <2>1 DEF StatIInv, TakenIInv
  <2>3. CountIInv'
    BY <2>1 DEF StatIInv, CountIInv, Accounted
  <2> QED BY <2>2, <2>3 DEF StatIInv
<1> QED BY <1>1, NotedStep, ByteStep DEF Stat!Next

\* No byte is counted twice.
LEMMA BytesCountOnce == StatIInv => Stat!CountedOnce
<1> SUFFICES ASSUME StatIInv, NEW r \in StatRooms, r \notin fellBack
             PROVE  counted[r] <= everWritten[r]
  BY DEF Stat!CountedOnce
<1>1. Accounted(r)
  BY DEF StatIInv, CountIInv
<1>2. /\ total[r] \in Nat /\ everWritten[r] \in Nat /\ counted[r] \in Nat
      /\ lastBytes[r] \in Nat \cup {-1}
  BY DEF StatIInv, TakenIInv
<1> QED BY <1>1, <1>2 DEF Accounted

------------------------------------------------------------------------------
(* The intervals of samples *)

\* A number is in the interval its quotient names.
LEMMA Quotient ==
    ASSUME NEW d \in Nat, NEW e \in Nat \ {0}, NEW k \in Int
    PROVE  d \div e = k <=> k * e <= d /\ d <= k * e + e - 1
<1>1. e > 0 /\ k * e \in Int /\ k * e = e * k
  OBVIOUS
<1>2. e * (d \div e) <= d /\ d < e * (d \div e) + e /\ d \div e \in Nat
  BY <1>1
<1>3. d \div e = k <=> e * k <= d /\ d <= e * k + (e - 1)
  BY <1>1
<1> QED BY <1>1, <1>3

\* A mean lies between what bounds all that was added.
LEMMA MeanBetween ==
    ASSUME NEW d \in Nat, NEW e \in Nat \ {0}, NEW lo \in Nat, NEW hi \in Nat,
           lo * e <= d, d <= hi * e
    PROVE  d \div e \in lo..hi
<1>1. e > 0
  OBVIOUS
<1> QED BY <1>1

\* Numbers of which each is at most the next are in order.
LEMMA Ascending ==
    ASSUME NEW N \in Nat, NEW f, \A i \in 1..N : f[i] \in Nat,
           \A i \in 1..N - 1 : f[i] <= f[i + 1]
    PROVE  \A j \in 1..N : \A i \in 1..j : f[i] <= f[j]
<1> DEFINE S == {j \in 0..N : \A i \in 1..j : f[i] <= f[j]}
<1>1. 0 \in S
  OBVIOUS
<1>2. ASSUME NEW j \in 1..N, j - 1 \in S
      PROVE  j \in S
  <2>1. ASSUME NEW i \in 1..j
        PROVE  f[i] <= f[j]
    <3>1. f[i] \in Nat /\ f[j] \in Nat
      OBVIOUS
    <3>2. CASE i = j
      BY <3>1, <3>2
    <3>3. CASE i # j
      <4>1. j - 1 \in 1..N - 1 /\ i \in 1..j - 1 /\ (j - 1) + 1 = j /\ j - 1 \in 1..N
        BY <3>3
      <4>2. f[i] <= f[j - 1] /\ f[j - 1] <= f[j] /\ f[j - 1] \in Nat
        BY <1>2, <4>1
      <4> QED BY <3>1, <4>2
    <3> QED BY <3>2, <3>3
  <2> QED BY <2>1
<1>3. \A j \in 0..N : j \in S
  <2> HIDE DEF S
  <2> QED BY <1>1, <1>2, CountingUp
<1>4. \A j \in 1..N : j \in S
  <2>1. \A j \in 1..N : j \in 0..N
    OBVIOUS
  <2> QED BY <1>3, <2>1
<1> QED BY <1>4

\* What the rows of a key can add up to.
Sums == [count : Nat, speedSum : Nat, totalBytes : Nat]

\* s is what the rows sum up to, one after the other.
SumsUp(rows, key, s) ==
    /\ s \in [0..Len(rows) -> Sums]
    /\ s[0] = [count |-> 0, speedSum |-> 0, totalBytes |-> 0]
    /\ Stat!Group(rows, key) = s[Len(rows)]
    /\ \A n \in 1..Len(rows) :
        s[n] = IF Stat!GroupKey(rows[n]) = key THEN Stat!Added(s[n - 1], rows[n]) ELSE s[n - 1]

\* The sums are what the rows do one after the other (aggregateStats).
LEMMA GroupSteps ==
    ASSUME NEW X, NEW rows \in Seq(X), NEW key,
           \A i \in 1..Len(rows) : rows[i].speed \in Nat /\ rows[i].bytes \in Nat
    PROVE  \E s : SumsUp(rows, key, s)
<1> DEFINE N == Len(rows)
           none == [count |-> 0, speedSum |-> 0, totalBytes |-> 0]
           Next(old, n) == IF Stat!GroupKey(rows[n]) = key THEN Stat!Added(old, rows[n]) ELSE old
           step == [x \in Sums \X (1..N) |-> Next(x[1], x[2])]
           Eqn(s) == s = [n \in 0..N |-> IF n = 0 THEN none ELSE Next(s[n - 1], n)]
<1>1. N \in Nat /\ none \in Sums
  BY DEF Sums
<1>2. \A old \in Sums : \A n \in 1..N : Next(old, n) \in Sums
  <2> SUFFICES ASSUME NEW old \in Sums, NEW n \in 1..N
               PROVE  Stat!Added(old, rows[n]) \in Sums
    OBVIOUS
  <2>1. old.count + 1 \in Nat /\ old.speedSum + rows[n].speed \in Nat /\ rows[n].bytes \in Nat
    BY DEF Sums
  <2> QED BY <2>1 DEF Stat!Added, Stat!LastBytes, Sums
<1> HIDE DEF none, Next
<1>3. step \in [Sums \X (1..N) -> Sums]
  <2> HIDE DEF N
  <2> QED BY <1>2
<1>4. \A x \in Sums, n \in 1..N : step[<<x, n>>] = Next(x, n)
  <2> HIDE DEF N
  <2> QED OBVIOUS
<1>5. \E s : Eqn(s)
  <2> HIDE DEF step, N
  <2>1. PICK f \in [0..N -> Sums] : Follows(f, N, none, step)
    BY <1>1, <1>3, RecursionExists, Zenon
  <2>2. f[0] = none /\ \A n \in 1..N : f[n] = step[<<f[n - 1], n>>]
    BY <2>1 DEF Follows
  <2>3. \A n \in 1..N : n - 1 \in 0..N /\ f[n - 1] \in Sums
    BY <1>1, <2>1
  <2>4. \A n \in 1..N : f[n] = Next(f[n - 1], n)
    BY <1>4, <2>2, <2>3
  <2>5. f = [n \in 0..N |-> IF n = 0 THEN none ELSE Next(f[n - 1], n)]
    BY <1>1, <2>2, <2>4
  <2> QED BY <2>5, Zenon
<1> DEFINE q == CHOOSE s : Eqn(s)
<1>6. Eqn(q)
  BY <1>5, Zenon
<1>7. Stat!Group(rows, key) = q[N]
  BY Zenon DEF Stat!Group, none, Next
<1>8. /\ q[0] = none /\ q = [n \in 0..N |-> q[n]]
      /\ \A n \in 1..N : q[n] = Next(q[n - 1], n)
  <2> HIDE DEF q, N
  <2>1. q = [n \in 0..N |-> IF n = 0 THEN none ELSE Next(q[n - 1], n)]
    BY <1>6, Zenon
  <2>2. \A n \in 0..N : q[n] = IF n = 0 THEN none ELSE Next(q[n - 1], n)
    BY <2>1, Zenon
  <2>3. q = [n \in 0..N |-> q[n]]
    BY <2>1, <2>2, Zenon
  <2>4. 0 \in 0..N /\ \A n \in 1..N : n \in 0..N /\ n # 0
    BY <1>1
  <2> QED BY <2>2, <2>3, <2>4, Zenon
<1> DEFINE S == {k \in 0..N : q[k] \in Sums}
<1>9. \A n \in 0..N : n \in S
  <2> HIDE DEF q, N
  <2>1. 0 \in S
    BY <1>1, <1>8
  <2>2. ASSUME NEW n \in 1..N, n - 1 \in S
        PROVE  n \in S
    <3>1. n \in 0..N /\ q[n - 1] \in Sums
      BY <1>1, <2>2
    <3>2. q[n] \in Sums
      BY <1>2, <1>8, <3>1, Zenon
    <3> QED BY <3>1, <3>2
  <2> HIDE DEF S
  <2> QED BY <1>1, <2>1, <2>2, CountingUp
<1>10. q \in [0..N -> Sums]
  <2> HIDE DEF q, N
  <2> QED BY <1>8, <1>9
<1> HIDE DEF q
<1>11. SumsUp(rows, key, q)
  BY <1>7, <1>8, <1>10 DEF none, Next, SumsUp
<1> QED BY <1>11

\* The sums of the first n rows: none of a key without rows; otherwise the total is the last
\* row's, and the speeds add up to no less than as many of the lowest, no more than of the
\* highest.
Summed(rows, key, n, sum) ==
    LET own == {i \in 1..n : Stat!GroupKey(rows[i]) = key}
    IN  \/ own = {} /\ sum.count = 0 /\ sum.speedSum = 0
        \/ /\ sum.count > 0
           /\ \E l \in own : sum.totalBytes = rows[l].bytes /\ \A i \in own : i <= l
           /\ \E lo \in own : rows[lo].speed * sum.count <= sum.speedSum
           /\ \E hi \in own : sum.speedSum <= rows[hi].speed * sum.count

\* A row more keeps the sums of its key so.
LEMMA OneMoreSummed ==
    ASSUME NEW rows, NEW key, NEW n \in Nat \ {0}, NEW sum \in Sums,
           \A i \in 1..n : rows[i].speed \in Nat,
           Summed(rows, key, n - 1, sum)
    PROVE  Summed(rows, key, n, IF Stat!GroupKey(rows[n]) = key THEN Stat!Added(sum, rows[n])
                                ELSE sum)
<1> DEFINE old == {i \in 1..n - 1 : Stat!GroupKey(rows[i]) = key}
           own == {i \in 1..n : Stat!GroupKey(rows[i]) = key}
<1>1. CASE Stat!GroupKey(rows[n]) # key
  <2>1. own = old
    BY <1>1
  <2> QED BY <1>1, <2>1, Zenon DEF Summed
<1>2. CASE Stat!GroupKey(rows[n]) = key
  <2> DEFINE new == Stat!Added(sum, rows[n])
             s == rows[n].speed
             c == sum.count
  <2>1. own = old \cup {n} /\ \A i \in own : i <= n
    BY <1>2
  <2>2. new.count = c + 1 /\ new.speedSum = sum.speedSum + s /\ new.totalBytes = rows[n].bytes
    BY DEF Stat!Added, Stat!LastBytes
  <2>3. c \in Nat /\ sum.speedSum \in Nat /\ s \in Nat
    BY DEF Sums
  <2>4. \A i \in old : rows[i].speed \in Nat
    OBVIOUS
  <2>5. \/ old = {} /\ c = 0 /\ sum.speedSum = 0
        \/ /\ c > 0
           /\ \E lo \in old : rows[lo].speed * c <= sum.speedSum
           /\ \E hi \in old : sum.speedSum <= rows[hi].speed * c
    BY DEF Summed
  <2> HIDE DEF new, c, s, old, own
  \* As many of a speed, and one more.
  <2>6. \A v \in Nat : v * c \in Nat /\ v * (c + 1) = v * c + v
    BY <2>3
  <2>7. \A v \in Nat : v <= s => v * c <= s * c
    BY <2>3
  <2>8. \A v \in Nat : s <= v => s * c <= v * c
    BY <2>3
  <2>9. \E lo \in own : rows[lo].speed * (c + 1) <= sum.speedSum + s
    <3>1. CASE old = {} /\ c = 0 /\ sum.speedSum = 0
      <4>1. s * (c + 1) <= sum.speedSum + s
        BY <2>3, <3>1
      <4> QED BY <2>1, <4>1 DEF s
    <3>2. CASE \E lo \in old : rows[lo].speed * c <= sum.speedSum
      <4>1. PICK lo \in old : rows[lo].speed * c <= sum.speedSum
        BY <3>2
      <4> DEFINE v == rows[lo].speed
      <4>2. v \in Nat /\ v * c <= sum.speedSum
        BY <2>4, <4>1
      <4>3. lo \in own /\ n \in own
        BY <2>1
      <4> HIDE DEF v
      <4>4. CASE v <= s
        <5>1. v * (c + 1) <= sum.speedSum + s
          BY <2>3, <2>6, <4>2, <4>4
        <5> QED BY <4>3, <5>1 DEF v
      <4>5. CASE ~(v <= s)
        <5>1. s <= v
          BY <2>3, <4>2, <4>5
        <5>2. s * c <= v * c
          BY <2>8, <4>2, <5>1
        <5>3. s * (c + 1) = s * c + s /\ s * c \in Nat /\ v * c \in Nat
          BY <2>3, <2>6, <4>2
        <5>4. s * (c + 1) <= sum.speedSum + s
          BY <2>3, <4>2, <5>2, <5>3
        <5> QED BY <4>3, <5>4 DEF s
      <4> QED BY <4>4, <4>5
    <3> QED BY <2>5, <3>1, <3>2
  <2>10. \E hi \in own : sum.speedSum + s <= rows[hi].speed * (c + 1)
    <3>1. CASE old = {} /\ c = 0 /\ sum.speedSum = 0
      <4>1. sum.speedSum + s <= s * (c + 1)
        BY <2>3, <3>1
      <4> QED BY <2>1, <4>1 DEF s
    <3>2. CASE \E hi \in old : sum.speedSum <= rows[hi].speed * c
      <4>1. PICK hi \in old : sum.speedSum <= rows[hi].speed * c
        BY <3>2
      <4> DEFINE v == rows[hi].speed
      <4>2. v \in Nat /\ sum.speedSum <= v * c
        BY <2>4, <4>1
      <4>3. hi \in own /\ n \in own
        BY <2>1
      <4> HIDE DEF v
      <4>4. CASE s <= v
        <5>1. sum.speedSum + s <= v * (c + 1)
          BY <2>3, <2>6, <4>2, <4>4
        <5> QED BY <4>3, <5>1 DEF v
      <4>5. CASE ~(s <= v)
        <5>1. v <= s
          BY <2>3, <4>2, <4>5
        <5>2. v * c <= s * c
          BY <2>7, <4>2, <5>1
        <5>3. s * (c + 1) = s * c + s /\ s * c \in Nat /\ v * c \in Nat
          BY <2>3, <2>6, <4>2
        <5>4. sum.speedSum + s <= s * (c + 1)
          BY <2>3, <4>2, <5>2, <5>3
        <5> QED BY <4>3, <5>4 DEF s
      <4> QED BY <4>4, <4>5
    <3> QED BY <2>5, <3>1, <3>2
  <2>11. new.count > 0
    BY <2>2, <2>3
  <2>12. \E l \in own : new.totalBytes = rows[l].bytes /\ \A i \in own : i <= l
    BY <2>1, <2>2
  <2>13. /\ \E lo \in own : rows[lo].speed * new.count <= new.speedSum
         /\ \E hi \in own : new.speedSum <= rows[hi].speed * new.count
    BY <2>2, <2>9, <2>10, Zenon
  <2>14. Summed(rows, key, n, new)
    BY <2>11, <2>12, <2>13, Zenon DEF Summed, own
  <2> QED BY <1>2, <2>14, Zenon DEF new
<1> QED BY <1>1, <1>2

\* What a group of rows in order sums up to is fair.
LEMMA GroupIsSummed ==
    ASSUME NEW X, NEW rows \in Seq(X), NEW key,
           \A i \in 1..Len(rows) : rows[i].speed \in Nat /\ rows[i].bytes \in Nat
    PROVE  /\ Stat!Group(rows, key) \in Sums
           /\ Summed(rows, key, Len(rows), Stat!Group(rows, key))
<1> DEFINE N == Len(rows)
<1>0. PICK s : SumsUp(rows, key, s)
  BY GroupSteps, Zenon
<1>1. /\ s \in [0..N -> Sums] /\ s[0] = [count |-> 0, speedSum |-> 0, totalBytes |-> 0]
      /\ Stat!Group(rows, key) = s[N]
      /\ \A n \in 1..N :
            s[n] = IF Stat!GroupKey(rows[n]) = key THEN Stat!Added(s[n - 1], rows[n])
                   ELSE s[n - 1]
  BY <1>0, Zenon DEF SumsUp
<1>2. N \in Nat /\ 0 \in 0..N /\ N \in 0..N
      /\ \A n \in 1..N : n - 1 \in 0..N /\ n \in 0..N /\ n \in Nat \ {0}
                         /\ \A i \in 1..n : i \in 1..N
  OBVIOUS
<1> HIDE DEF N
<1> DEFINE S == {n \in 0..N : Summed(rows, key, n, s[n])}
<1>3. 0 \in S
  BY <1>1, <1>2 DEF Summed
<1>4. ASSUME NEW n \in 1..N, n - 1 \in S
      PROVE  n \in S
  <2>1. Summed(rows, key, n - 1, s[n - 1]) /\ s[n - 1] \in Sums
    BY <1>1, <1>2, <1>4
  <2>2. \A i \in 1..n : rows[i].speed \in Nat
    BY <1>2 DEF N
  <2>3. Summed(rows, key, n, IF Stat!GroupKey(rows[n]) = key THEN Stat!Added(s[n - 1], rows[n])
                             ELSE s[n - 1])
    BY <1>2, <2>1, <2>2, OneMoreSummed
  <2>4. Summed(rows, key, n, s[n])
    BY <1>1, <2>3, Zenon
  <2> QED BY <1>2, <2>4
<1>5. N \in S
  <2> HIDE DEF S
  <2> QED BY <1>2, <1>3, <1>4, CountingUp
<1> QED BY <1>1, <1>2, <1>5 DEF N

\* The totals and speeds of an interval are those of its samples.
LEMMA SamplesAreFair == StatIInv => Stat!IntervalsAreFair
<1> SUFFICES ASSUME StatIInv, NEW rows \in Stat!InOrder(samples),
                    NEW a \in Stat!AggregateStats(rows)
             PROVE  LET own == {s \in samples : s.room = a.room
                                                /\ s.at \in a.at .. a.at + Bucket - 1}
                    IN  /\ \E s \in own : s.bytes = a.bytes /\ \A other \in own : other.at <= s.at
                        /\ \E low, high \in own : a.speed \in low.speed .. high.speed
  BY Zenon DEF Stat!IntervalsAreFair
<1> DEFINE N == Len(rows)
           own == {s \in samples : s.room = a.room /\ s.at \in a.at .. a.at + Bucket - 1}
<1>1. /\ IsFiniteSet(samples)
      /\ \A s \in samples : s.at \in Nat /\ s.bytes \in Nat /\ s.speed \in Nat
  BY DEF StatIInv, TakenIInv
<1>2. /\ rows \in Seq(samples) /\ \A i \in 1..N - 1 : rows[i].at <= rows[i + 1].at
      /\ \A s \in samples : \E i \in 1..N : rows[i] = s
  BY <1>1, RowsInOrder
<1>3. N \in Nat /\ \A i \in 1..N : /\ rows[i] \in samples
                                   /\ rows[i].at \in Nat /\ rows[i].bytes \in Nat
                                   /\ rows[i].speed \in Nat
  BY <1>1, <1>2
<1>4. PICK key \in {Stat!GroupKey(row) : row \in Stat!ToSet(rows)} :
        a = [at |-> key[2] * Bucket, room |-> key[1], bytes |-> Stat!Group(rows, key).totalBytes,
             speed |-> Stat!Group(rows, key).speedSum \div Stat!Group(rows, key).count]
  BY DEF Stat!AggregateStats
<1>5. PICK j \in 1..N : key = Stat!GroupKey(rows[j])
  BY <1>2, <1>4 DEF Stat!ToSet
<1> HIDE DEF N
<1> DEFINE k == key[2]
           sum == Stat!Group(rows, key)
<1>6. key = <<rows[j].room, rows[j].at \div Bucket>> /\ key[1] = rows[j].room
      /\ k = rows[j].at \div Bucket
  BY <1>5 DEF Stat!GroupKey
<1>7. k \in Int
  BY <1>3, <1>6, BucketIsPositive, Quotients
<1>8. sum \in Sums /\ Summed(rows, key, N, sum)
  BY <1>2, <1>3, GroupIsSummed DEF N
<1>9. /\ a.room = key[1] /\ a.at = k * Bucket /\ a.bytes = sum.totalBytes
      /\ a.speed = sum.speedSum \div sum.count
  BY <1>4
<1> HIDE DEF sum, k
\* The samples of the interval are the rows of the key.
<1>10. \A i \in 1..N : Stat!GroupKey(rows[i]) = key <=> rows[i] \in own
  <2> TAKE i \in 1..N
  <2>1. Stat!GroupKey(rows[i]) = <<rows[i].room, rows[i].at \div Bucket>>
    BY DEF Stat!GroupKey
  <2>2. Stat!GroupKey(rows[i]) = key <=> rows[i].room = key[1] /\ rows[i].at \div Bucket = k
    BY <1>6, <2>1
  <2>3. rows[i].at \div Bucket = k
            <=> k * Bucket <= rows[i].at /\ rows[i].at <= k * Bucket + Bucket - 1
    BY <1>3, <1>7, BucketIsPositive, Quotient
  <2>4. k * Bucket \in Int /\ Bucket \in Int
    BY <1>7, BucketIsPositive
  <2>5. rows[i].at \div Bucket = k <=> rows[i].at \in a.at .. a.at + Bucket - 1
    <3> DEFINE b == k * Bucket
    <3>1. b \in Int /\ a.at = b /\ rows[i].at \in Nat
      BY <1>3, <1>9, <2>4
    <3>2. rows[i].at \div Bucket = k <=> b <= rows[i].at /\ rows[i].at <= b + Bucket - 1
      BY <2>3
    <3> HIDE DEF b
    <3>3. rows[i].at \in b .. b + Bucket - 1 <=> b <= rows[i].at /\ rows[i].at <= b + Bucket - 1
      BY <2>4, <3>1
    <3> QED BY <3>1, <3>2, <3>3, Zenon
  <2> QED BY <1>3, <1>9, <2>2, <2>5
<1> DEFINE ours == {i \in 1..N : Stat!GroupKey(rows[i]) = key}
<1>11. j \in ours
  BY <1>5
<1>12. /\ sum.count > 0
       /\ \E l \in ours : sum.totalBytes = rows[l].bytes /\ \A i \in ours : i <= l
       /\ \E lo \in ours : rows[lo].speed * sum.count <= sum.speedSum
       /\ \E hi \in ours : sum.speedSum <= rows[hi].speed * sum.count
  BY <1>8, <1>11 DEF Summed
<1>13. \A i \in ours : i \in 1..N /\ rows[i] \in own
  BY <1>10
<1>14. \A s \in own : \E i \in ours : rows[i] = s
  <2> TAKE s \in own
  <2>1. PICK i \in 1..N : rows[i] = s
    BY <1>2 DEF N
  <2> QED BY <1>10, <2>1
<1> HIDE DEF own, ours
<1>15. \E s \in own : s.bytes = a.bytes /\ \A other \in own : other.at <= s.at
  <2>1. PICK l \in ours : sum.totalBytes = rows[l].bytes /\ \A i \in ours : i <= l
    BY <1>12
  <2>2. \A i \in 1..l : rows[i].at <= rows[l].at
    <3> DEFINE f == [i \in 1..N |-> rows[i].at]
    <3>1. (\A i \in 1..N : f[i] \in Nat) /\ \A i \in 1..N - 1 : f[i] <= f[i + 1]
      <4>1. \A i \in 1..N : f[i] = rows[i].at
        OBVIOUS
      <4>2. \A i \in 1..N - 1 : i \in 1..N /\ i + 1 \in 1..N
        BY <1>3
      <4> HIDE DEF f
      <4> QED BY <1>2, <1>3, <4>1, <4>2 DEF N
    <3>2. \A n \in 1..N : \A i \in 1..n : f[i] <= f[n]
      <4> HIDE DEF f
      <4> QED BY <1>3, <3>1, Ascending
    <3>3. l \in 1..N /\ \A i \in 1..l : i \in 1..N
      BY <1>3, <1>13
    <3>4. \A i \in 1..N : f[i] = rows[i].at
      OBVIOUS
    <3> HIDE DEF f
    <3> QED BY <3>2, <3>3, <3>4
  <2>3. ASSUME NEW other \in own
        PROVE  other.at <= rows[l].at
    <3>1. PICK i \in ours : rows[i] = other
      BY <1>14
    <3>2. i \in 1..l
      BY <1>3, <1>13, <2>1, <3>1
    <3> QED BY <2>2, <3>1, <3>2
  <2> QED BY <1>9, <1>13, <2>1, <2>3
<1>16. \E low, high \in own : a.speed \in low.speed .. high.speed
  <2>1. PICK lo \in ours : rows[lo].speed * sum.count <= sum.speedSum
    BY <1>12
  <2>2. PICK hi \in ours : sum.speedSum <= rows[hi].speed * sum.count
    BY <1>12
  <2>3. /\ sum.count \in Nat \ {0} /\ sum.speedSum \in Nat
        /\ rows[lo].speed \in Nat /\ rows[hi].speed \in Nat
    BY <1>3, <1>8, <1>12, <1>13 DEF Sums
  <2>4. sum.speedSum \div sum.count \in rows[lo].speed .. rows[hi].speed
    BY <2>1, <2>2, <2>3, MeanBetween
  <2> QED BY <1>9, <1>13, <2>4
<1> QED BY <1>15, <1>16 DEF own

\* What the views show is fair.
LEMMA ViewsAreFair == StatIInv => StatisticsFair
BY ViewsAreRuns, BytesCountOnce, SamplesAreFair DEF StatisticsFair, StatIInv, TakenIInv

------------------------------------------------------------------------------
(* The parts together: the others stay where they are *)

ServerIInv == /\ CfgP!CfgIInv /\ CfgP!SavedIInv /\ ReqP!ReqIInv /\ MapIInv /\ RegIInv /\ DoneIInv
              /\ StatIInv

LEMMA PartsStep ==
    [MCNext]_mcVars =>
        /\ [Cfg!Next]_(Cfg!cfgVars) /\ [Req!Next]_(Req!vars) /\ [Play!Next]_(Play!playbackVars)
        /\ [Mig!Next]_(Mig!migrationVars) /\ [Reg!Next]_(Reg!registryVars)
        /\ [Exec!Next]_(Exec!execVars) /\ [Stat!Next]_(Stat!statVars)
<1> SUFFICES ASSUME [MCNext]_mcVars
             PROVE  /\ [Cfg!Next]_(Cfg!cfgVars) /\ [Req!Next]_(Req!vars)
                    /\ [Play!Next]_(Play!playbackVars) /\ [Mig!Next]_(Mig!migrationVars)
                    /\ [Reg!Next]_(Reg!registryVars) /\ [Exec!Next]_(Exec!execVars)
                    /\ [Stat!Next]_(Stat!statVars)
    OBVIOUS
<1>1. [Cfg!Next]_(Cfg!cfgVars)
  BY DEF MCNext, On, mcVars, configs, Cfg!cfgVars, Cfg!memVars, Cfg!diskVars, Cfg!historyVars
<1>2. [Req!Next]_(Req!vars)
  BY DEF MCNext, On, mcVars, asking, Req!vars, Req!limVars, Req!reqVars, Req!waitVars
<1>3. [Play!Next]_(Play!playbackVars)
  BY DEF MCNext, On, mcVars, players, Play!playbackVars, Play!sessionVars, Play!platformVars,
         Play!playerVars
<1>4. [Mig!Next]_(Mig!migrationVars)
  BY DEF MCNext, On, mcVars, databases, Mig!migrationVars
<1>5. [Reg!Next]_(Reg!registryVars)
  BY DEF MCNext, On, mcVars, registry, Reg!registryVars, Reg!requestVars
<1>6. [Exec!Next]_(Exec!execVars)
  BY DEF MCNext, On, mcVars, tasks, Exec!execVars
<1>7. [Stat!Next]_(Stat!statVars)
  BY DEF MCNext, On, mcVars, statistics, Stat!statVars, Stat!requestVars, Stat!byteVars,
         Stat!Next
<1> QED BY <1>1, <1>2, <1>3, <1>4, <1>5, <1>6, <1>7

\* The invariant of each part holds throughout.
LEMMA ServerInvariance == MCSpec => []ServerIInv
<1>1. MCInit => ServerIInv
  <2> SUFFICES ASSUME MCInit PROVE ServerIInv
    OBVIOUS
  <2>1. CfgP!CfgIInv /\ CfgP!SavedIInv
    BY ConfigAssumption, SameConfigs, CfgP!CfgInit, CfgP!SavedInit DEF MCInit
  <2>2. ReqP!ReqIInv /\ MapIInv /\ RegIInv
    BY RequestsAssumption, SameRequests, ReqP!ReqInit, MapInit, RegInit DEF MCInit
  <2>3. DoneIInv
    BY DoneInit DEF MCInit
  <2>4. StatIInv
    BY StatStart DEF MCInit
  <2> QED BY <2>1, <2>2, <2>3, <2>4 DEF ServerIInv
<1>2. ServerIInv /\ [MCNext]_mcVars => ServerIInv'
  <2> SUFFICES ASSUME ServerIInv, [MCNext]_mcVars PROVE ServerIInv'
    OBVIOUS
  <2>1. (CfgP!CfgIInv /\ CfgP!SavedIInv)'
    BY ConfigAssumption, SameConfigs, CfgP!CfgNext, CfgP!SavedNext, PartsStep DEF ServerIInv
  <2>2. ReqP!ReqIInv' /\ MapIInv' /\ RegIInv'
    BY RequestsAssumption, SameRequests, ReqP!ReqNext, MapNext, RegStep, PartsStep
       DEF ServerIInv
  <2>3. DoneIInv'
    BY DoneNext, PartsStep DEF ServerIInv
  <2>4. StatIInv'
    BY StatStep, PartsStep DEF ServerIInv
  <2> QED BY <2>1, <2>2, <2>3, <2>4 DEF ServerIInv
<1> QED BY <1>1, <1>2, PTL DEF MCSpec

\* An update leaves what others have set in force, whatever the other parts do
\* (updateWithRetryImpl, updateCASImpl).
THEOREM UpdatesKeepEdits == MCSpec => EditsSurvive
<1>1. ServerIInv => CfgP!CfgIInv
  BY DEF ServerIInv
<1> QED BY <1>1, ServerInvariance, PartsStep, EditsStep, PTL
      DEF MCSpec, EditsSurvive, Cfg!EditsSurvive

\* Two requests through one limiter are sent at least its interval apart
\* (WaitForPlatformWithContext).
THEOREM LimitHolds == MCSpec => RequestsApart
<1>1. ServerIInv => ReqP!ReqIInv
  BY DEF ServerIInv
<1> QED BY <1>1, ServerInvariance, SentStep, PTL DEF MCSpec, RequestsApart, Req!RequestsApart

\* The session that makes room is the one used least recently, and none leaves a map that has
\* room (Create, cleanupExpiredLocked, removeOldestSessionLocked).
THEOREM OldestMakesRoom == MCSpec => LeastUsedGoes
<1>1. ServerIInv => MapIInv
  BY DEF ServerIInv
<1> QED BY <1>1, ServerInvariance, PartsStep, LeastUsedStep, PTL
      DEF MCSpec, LeastUsedGoes, Play!LeastUsedGoes

\* However requests and initializations fall, no second listener of a room runs out of the
\* manager's hands, and what the configuration, the map and the listeners say of a room agrees
\* once the room is at rest (addLiveImpl, removeLiveImpl, parseLiveAction, registryListener).
THEOREM RegistryAgrees == MCSpec => []RegistryHolds
<1>1. ServerIInv => RegistryHolds
  BY Agreement DEF ServerIInv, RegistryHolds
<1> QED BY <1>1, ServerInvariance, PTL

(***************************************************************************)
(* What a view shows is what happened: however late and out of order the   *)
(* requests were noted, its segments are the longest runs of requests that *)
(* fared alike (buildSegments); over all recordings of a room no byte is   *)
(* in two speeds while its parser answers (collectRecordStats); the total  *)
(* of an interval is its latest sample's, the speed between its lowest and *)
(* its highest (aggregateStats).                                           *)
(***************************************************************************)
THEOREM ViewsShowWhatHappened == MCSpec => []StatisticsFair
<1>1. ServerIInv => StatisticsFair
  BY ViewsAreFair DEF ServerIInv
<1> QED BY <1>1, ServerInvariance, PTL

LEMMA DatabaseHolds == DatabaseAssumption
BY ServerAssumption DEF ServerAssumption, DatabaseAssumption, Mig!NoPath, Mig!NoLock, Mig!TornLock

LEMMA MigInvariance == ASSUME OneProcess PROVE MCSpec => []MigIInv
<1>1. MCInit => MigIInv
  BY InitMigIInv, DatabaseHolds DEF MCInit
<1>2. MigIInv /\ [MCNext]_mcVars => MigIInv'
  BY NextMigIInv, PartsStep, DatabaseHolds
<1> QED BY <1>1, <1>2, PTL DEF MCSpec

(***************************************************************************)
(* Between any two writes of a recovery, a backup or a migration, the rows *)
(* of a critical schema are in the database or in the backup the lock file *)
(* names (Run, CheckAndRecover, RestoreBackup), for any number of crashes. *)
(***************************************************************************)
THEOREM NoRowIsLost == OneProcess /\ MCSpec => []Mig!RowsAreSomewhere
<1> SUFFICES ASSUME OneProcess PROVE MCSpec => []Mig!RowsAreSomewhere
  OBVIOUS
<1>1. MigIInv => Mig!RowsAreSomewhere
  BY DEF MigIInv, LockNamesBackup, Safe, Mig!RowsAreSomewhere
<1> QED BY <1>1, MigInvariance, PTL

(***************************************************************************)
(* A store that opens has all its rows and the last version, and no step   *)
(* of its migration was left undone, however often it crashed before.      *)
(***************************************************************************)
THEOREM OpenedStoreIsWhole == OneProcess /\ MCSpec => []Mig!OpenedIsWhole
<1> SUFFICES ASSUME OneProcess PROVE MCSpec => []Mig!OpenedIsWhole
  OBVIOUS
<1>1. MigIInv => Mig!OpenedIsWhole
  BY DEF MigIInv, StateKnows, Mig!OpenedIsWhole
<1> QED BY <1>1, MigInvariance, PTL

\* The property of the saves as this module names it.
LEMMA SavesHold == CfgP!CfgIInv /\ CfgP!SavedIInv => Cfg!LockedSavesAgree
BY ConfigAssumption, CfgP!SavedAgrees
   DEF Cfg!LockedSavesAgree, Cfg!Quiet, Cfg!Writers, CfgP!LockedSavesAgree, CfgP!Quiet, CfgP!Writers

(***************************************************************************)
(* Nothing that was recorded, stored or set is lost on the way: a part of  *)
(* a recording is published or in a video on the disk at every step of a   *)
(* task, whatever its stages, wherever it fails, is cancelled or runs      *)
(* again (Execute, the stages); the rows of a critical schema are in the   *)
(* database or in its backup (Run); memory and file agree when nobody has  *)
(* saved outside the lock (updateCASImpl).                                 *)
(***************************************************************************)
THEOREM NothingIsLost == OneProcess /\ MCSpec => []NothingLost
<1> SUFFICES ASSUME OneProcess PROVE MCSpec => []NothingLost
  OBVIOUS
<1>1. ServerIInv => Exec!NothingLost /\ Cfg!LockedSavesAgree
  BY SavesHold DEF ServerIInv, DoneIInv, TaskIInv
<1>2. MigIInv => Mig!RowsAreSomewhere
  BY DEF MigIInv, LockNamesBackup, Safe, Mig!RowsAreSomewhere
<1>3. ServerIInv /\ MigIInv => NothingLost
  BY <1>1, <1>2 DEF NothingLost
<1> QED BY <1>3, ServerInvariance, MigInvariance, PTL

(***************************************************************************)
(* What is reported done is done: a task that completes at its first       *)
(* execution, without the FLV fix, has every recording in an article and   *)
(* on every storage it was asked to bring it to, whatever its stages and   *)
(* whatever operation failed or file went missing on the way (Execute, the *)
(* stages); a store that opens is whole (Run).                             *)
(***************************************************************************)
THEOREM DoneHasDelivered == OneProcess /\ MCSpec => []DoneIsWhole
<1> SUFFICES ASSUME OneProcess PROVE MCSpec => []DoneIsWhole
  OBVIOUS
<1>1. ServerIInv => Exec!FirstRunDelivers
  BY WhatIsDone DEF ServerIInv
<1>2. MigIInv => Mig!OpenedIsWhole
  BY DEF MigIInv, StateKnows, Mig!OpenedIsWhole
<1>3. ServerIInv /\ MigIInv => DoneIsWhole
  BY <1>1, <1>2 DEF DoneIsWhole
<1> QED BY <1>3, ServerInvariance, MigInvariance, PTL
=============================================================================
