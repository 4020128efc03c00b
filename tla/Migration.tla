------------------------------- MODULE Migration -------------------------------
(***************************************************************************)
(* Opening a database of the program, src/src/pkg/migration, as            *)
(* livestate.NewSQLiteStore, iostats.NewSQLiteStore and MigrateDatabase    *)
(* do it: recover from a migration that did not end (CheckAndRecover),     *)
(* then Run - back the file up, take the lock file, migrate step by step,  *)
(* go back to the backup when a step fails.                                *)
(*                                                                         *)
(* Files outlive a crash as they were left, half-written ones included.    *)
(* golang-migrate and SQLite are external: a step marks the database       *)
(* dirty, runs its SQL in a transaction, and marks it clean.               *)
(***************************************************************************)
EXTENDS Integers, FiniteSets

CONSTANTS
    Migrators,      \* processes that open the database
    Settings,       \* of "critical", "normal" (no backup), "forced" (normal, ForceBackup)
    Latest,         \* the newest migration
    Times,          \* names a backup can get, from 1: the second it was made in
    MaxBackupCount,
    MaxRows,        \* bounds the rows of the database
    MaxCrashes      \* bounds the crashes

VARIABLES
    setting,        \* of the database's schema
    db,             \* the database file
    backups,        \* the backup files, by name
    lock,           \* the lock file
    migrator,       \* what each process does
    path,           \* the backup it made or restores
    written,        \* history: rows the program has committed, before or now
    crashes

migrationVars == <<setting, db, backups, lock, migrator, path, written, crashes>>

NoPath == 0
NoLock == 0                     \* no file; else the backup it names
TornLock == -1                  \* created, not yet written

NoFile == [file |-> "none", version |-> 0, dirty |-> FALSE, rows |-> 0]
TornFile == [NoFile EXCEPT !.file = "torn"]
NewFile == [NoFile EXCEPT !.file = "whole"]

Init ==
    /\ setting \in Settings
    /\ \/ db = NoFile
       \/ \E v \in 1 .. Latest, n \in 0 .. MaxRows :
            db = [NewFile EXCEPT !.version = v, !.rows = n]
    /\ backups = [t \in Times |-> NoFile]
    /\ lock = NoLock
    /\ migrator = [p \in Migrators |-> "down"]
    /\ path = [p \in Migrators |-> NoPath]
    /\ written = db.rows /\ crashes = 0

Goto(p, at) == migrator' = [migrator EXCEPT ![p] = at]

\* shouldBackup.
Backs == setting \in {"critical", "forced"}

(***************************************************************************)
(* LockManager: an existing file is a lock; what it holds may be unread-   *)
(* able.                                                                   *)
(***************************************************************************)
IsLocked == lock # NoLock

Release == lock' = NoLock

(***************************************************************************)
(* CheckAndRecover.  An error is logged; Run then finds the lock.          *)
(***************************************************************************)
CheckAndReleaseFirst(p) ==
    /\ migrator[p] = "check"
    /\ IF ~IsLocked \/ lock = TornLock
       THEN Goto(p, "run") /\ UNCHANGED <<lock, path>>
       ELSE /\ path' = [path EXCEPT ![p] = lock]
            /\ Goto(p, IF setting = "critical" THEN "recover" ELSE "run")
            /\ Release
    /\ UNCHANGED <<setting, db, backups, written, crashes>>

CheckAndRecover(p) ==
    /\ migrator[p] = "check"
    /\ IF ~IsLocked \/ lock = TornLock
       THEN Goto(p, "run") /\ UNCHANGED <<lock, path>>
       ELSE IF setting = "critical"
       THEN /\ path' = [path EXCEPT ![p] = lock]
            /\ Goto(p, "recover")
            /\ UNCHANGED lock
       ELSE Release /\ Goto(p, "run") /\ UNCHANGED path
    /\ UNCHANGED <<setting, db, backups, written, crashes>>

(***************************************************************************)
(* RestoreBackup, of CheckAndRecover ("recover") or of a Run that failed   *)
(* ("rollback"): nothing without the backup, else remove the database and  *)
(* copy.                                                                   *)
(***************************************************************************)
Restoring == {"recover", "rollback"}
Copying == {"recover_copy", "rollback_copy"}
Restored == {"recovered", "rolled_back"}

RemoveDatabase(p) ==
    /\ migrator[p] \in Restoring
    /\ IF backups[path[p]].file = "none"
       THEN /\ Goto(p, IF migrator[p] = "recover" THEN "run" ELSE "rolled_back")
            /\ UNCHANGED db
       ELSE /\ db' = NoFile
            /\ Goto(p, IF migrator[p] = "recover" THEN "recover_copy" ELSE "rollback_copy")
    /\ UNCHANGED <<setting, backups, lock, path, written, crashes>>

StartCopy(p) ==
    /\ migrator[p] \in Copying /\ db.file = "none"
    /\ db' = TornFile
    /\ UNCHANGED <<setting, backups, lock, migrator, path, written, crashes>>

EndCopy(p) ==
    /\ migrator[p] \in Copying /\ db.file # "none"
    /\ db' = backups[path[p]]
    /\ Goto(p, IF migrator[p] = "recover_copy" THEN "recovered" ELSE "rolled_back")
    /\ UNCHANGED <<setting, backups, lock, path, written, crashes>>

\* CheckAndRecover goes on with Run; a Run that failed ends (its deferred Release).
ReleaseAfter(p) ==
    /\ migrator[p] \in Restored
    /\ Release
    /\ Goto(p, IF migrator[p] = "recovered" THEN "run" ELSE "failed")
    /\ path' = [path EXCEPT ![p] = NoPath]
    /\ UNCHANGED <<setting, db, backups, written, crashes>>

(***************************************************************************)
(* Run.  Opening a missing file makes one, with an empty schema_migrations *)
(* table; a torn one is no database.                                       *)
(***************************************************************************)
Run(p) ==
    /\ migrator[p] = "run"
    /\ IF IsLocked \/ db.file = "torn"
       THEN Goto(p, "failed") /\ UNCHANGED db
       ELSE /\ db' = IF db.file = "none" THEN NewFile ELSE db
            /\ Goto(p, IF Backs THEN "backup" ELSE "up")
    /\ UNCHANGED <<setting, backups, lock, path, written, crashes>>

\* The newest by name; the one just made need not be among them: the clock may go back.
Cleanup(made) ==
    LET Newer(t) == {u \in Times : u > t /\ made[u].file # "none"}
    IN  [t \in Times |-> IF Cardinality(Newer(t)) >= MaxBackupCount THEN NoFile ELSE made[t]]

StartBackup(p) ==
    /\ migrator[p] = "backup"
    /\ \E now \in Times :
        /\ path' = [path EXCEPT ![p] = now]
        /\ backups' = [backups EXCEPT ![now] = TornFile]
    /\ Goto(p, "backup_copy")
    /\ UNCHANGED <<setting, db, lock, written, crashes>>

EndBackup(p) ==
    /\ migrator[p] = "backup_copy"
    /\ backups' = Cleanup([backups EXCEPT ![path[p]] = db])
    /\ Goto(p, "lock")
    /\ UNCHANGED <<setting, db, lock, path, written, crashes>>

\* LockManager.Acquire: os.WriteFile creates, then writes.
Acquire(p) ==
    /\ migrator[p] = "lock"
    /\ IF IsLocked
       THEN /\ backups' = [backups EXCEPT ![path[p]] = NoFile]
            /\ Goto(p, "failed")
            /\ UNCHANGED lock
       ELSE /\ lock' = TornLock
            /\ Goto(p, "lock_write")
            /\ UNCHANGED backups
    /\ UNCHANGED <<setting, db, path, written, crashes>>

WriteLock(p) ==
    /\ migrator[p] = "lock_write"
    /\ lock' = path[p]
    /\ Goto(p, "up")
    /\ UNCHANGED <<setting, db, backups, path, written, crashes>>

(***************************************************************************)
(* migrate.Up: refuses a dirty database; then step after step.             *)
(***************************************************************************)
Up(p) ==
    /\ migrator[p] = "up"
    /\ IF db.file # "whole" \/ db.dirty
       THEN Goto(p, IF Backs THEN "rollback" ELSE "failed") /\ UNCHANGED db
       ELSE IF db.version = Latest
       THEN Goto(p, "release") /\ UNCHANGED db
       ELSE /\ db' = [db EXCEPT !.version = @ + 1, !.dirty = TRUE]
            /\ Goto(p, "step")
    /\ UNCHANGED <<setting, backups, lock, path, written, crashes>>

StepErrorForgotten(p) ==
    /\ migrator[p] = "step"
    /\ \/ db' = [db EXCEPT !.dirty = FALSE] /\ Goto(p, "up")
       \/ UNCHANGED db /\ Goto(p, "release")
    /\ UNCHANGED <<setting, backups, lock, path, written, crashes>>

Step(p) ==
    /\ migrator[p] = "step"
    /\ \/ /\ db' = [db EXCEPT !.dirty = FALSE]
          /\ Goto(p, "up")
       \/ /\ Goto(p, IF Backs THEN "rollback" ELSE "failed")
          /\ UNCHANGED db
    /\ UNCHANGED <<setting, backups, lock, path, written, crashes>>

\* The deferred Release of a Run that succeeded; the store is open.
Finish(p) ==
    /\ migrator[p] = "release"
    /\ IF Backs THEN Release ELSE UNCHANGED lock
    /\ path' = [path EXCEPT ![p] = NoPath]
    /\ Goto(p, "open")
    /\ UNCHANGED <<setting, db, backups, written, crashes>>

(***************************************************************************)
(* The program uses the store, ends or crashes, and starts again.  A store *)
(* that failed to open is done without until then.                         *)
(***************************************************************************)
AddRow(p) ==
    /\ migrator[p] = "open" /\ written < MaxRows
    /\ db' = [db EXCEPT !.rows = @ + 1]
    /\ written' = written + 1
    /\ UNCHANGED <<setting, backups, lock, migrator, path, crashes>>

Start(p) ==
    /\ migrator[p] = "down"
    /\ Goto(p, "check")
    /\ UNCHANGED <<setting, db, backups, lock, path, written, crashes>>

Crash(p) ==
    /\ migrator[p] # "down" /\ crashes < MaxCrashes
    /\ Goto(p, "down")
    /\ path' = [path EXCEPT ![p] = NoPath]
    /\ crashes' = crashes + 1
    /\ UNCHANGED <<setting, db, backups, lock, written>>

Next == \E p \in Migrators :
    \/ CheckAndRecover(p) \/ RemoveDatabase(p) \/ StartCopy(p) \/ EndCopy(p) \/ ReleaseAfter(p)
    \/ Run(p) \/ StartBackup(p) \/ EndBackup(p) \/ Acquire(p) \/ WriteLock(p)
    \/ Up(p) \/ Step(p) \/ Finish(p) \/ AddRow(p) \/ Start(p) \/ Crash(p)

Spec == Init /\ [][Next]_migrationVars

-----------------------------------------------------------------------------
MigrationTypeOK ==
    /\ setting \in Settings
    /\ \A f \in {db} \cup {backups[t] : t \in Times} :
        /\ f.file \in {"none", "torn", "whole"} /\ f.version \in 0 .. Latest
        /\ f.dirty \in BOOLEAN /\ f.rows \in 0 .. MaxRows
    /\ lock \in Times \cup {NoLock, TornLock}
    /\ \A p \in Migrators : path[p] \in Times \cup {NoPath}

(***************************************************************************)
(* A critical database is never the only copy of what was committed, and   *)
(* lost: at every moment, between any two writes to disk of a recovery or  *)
(* a rollback, the file or the backup the lock file names is whole and     *)
(* holds every committed row.                                              *)
(***************************************************************************)
Holds(f) == f.file = "whole" /\ f.rows = written

RowsAreSomewhere ==
    setting = "critical" =>
        \/ Holds(db)
        \/ written = 0 /\ db.file = "none"
        \/ lock \in Times /\ Holds(backups[lock])

(***************************************************************************)
(* Whatever crashed or failed before, a store that opened is migrated to   *)
(* the last version, by steps that all completed, and has all its rows.    *)
(***************************************************************************)
OpenedIsWhole ==
    \A p \in Migrators : migrator[p] = "open" => Holds(db) /\ db.version = Latest /\ ~db.dirty

(***************************************************************************)
(* doc.go: the lock file keeps migrations of one database from running at  *)
(* the same time.                                                          *)
(***************************************************************************)
OneMigration ==
    \A p, q \in Migrators :
        {migrator[p], migrator[q]} \subseteq {"up", "step"} => p = q
=============================================================================
