------------------------------ MODULE ConfigStore ------------------------------
(***************************************************************************)
(* The global configuration: src/src/configs and the handlers of           *)
(* src/src/servers that change it.                                         *)
(*                                                                         *)
(* A published configuration is replaced, never changed.  An update clones *)
(* it under a lock, applies its edit to the clone, writes the clone to the *)
(* file and publishes it; it has looked at the version before, and starts  *)
(* over when the version has changed since.  Three requests write the file *)
(* outside that lock: PUT config, PUT of the raw text, which also          *)
(* publishes outside it, and PUT of a cookie, which saves a second time.   *)
(*                                                                         *)
(* os.WriteFile truncates and then writes: two steps, between which the    *)
(* process may die and another writer may write.                           *)
(***************************************************************************)
EXTENDS Integers, FiniteSets

CONSTANTS
    Rooms,
    Requests,       \* the updates that are asked for
    Kinds,          \* what they edit: append, remove, switch, room, setting, platform,
                    \* cookie (which is saved twice), login
    MaxRetries,     \* conflicts after which an update gives up, 3 in the code
    Crashes         \* bounds the ends of the process

VARIABLES
    op, room,       \* of a request: what it edits
    mem, version,   \* the published configuration and its version
    disk, file,     \* the file: the configuration it holds, when it is "whole", not "empty"
                    \* or "mixed"
    lock,           \* updateMu: the request that holds it
    pc,
    seen, seenVersion,  \* the snapshot an update has looked at, until its edit is made
    new,            \* the configuration a writer writes or publishes, Start otherwise
    tries,
    truncated,      \* the writers between the truncation and the write
    crashes,
    outside,        \* history: whether the file was ever written outside the lock
    failed,         \* history: whether a write has failed or the process has died
    overtaken       \* history: whether the raw text was published under an update's lock

Writers == Requests \cup {"raw", "save"}

memVars  == <<mem, version>>
diskVars == <<disk, file>>
historyVars == <<outside, failed, overtaken>>
cfgVars == <<op, room, memVars, diskVars, lock, pc, seen, seenVersion, new, tries, truncated,
             crashes, historyVars>>

\* What the edits leave in a configuration: its rooms, the requests whose switch, room
\* option, setting or cookie it holds, and the PUTs of raw text it comes from.
Default == [rooms |-> {}, edits |-> {}, text |-> 0]
Start   == [rooms |-> Rooms, edits |-> {}, text |-> 0]

Init ==
    /\ op \in [Requests -> Kinds] /\ room \in [Requests -> Rooms]
    /\ mem = Start /\ version = 0 /\ disk = Start /\ file = "whole"
    /\ lock = "free"
    /\ pc = [w \in Writers |-> "idle"]
    /\ seen = [q \in Requests |-> Start] /\ seenVersion = [q \in Requests |-> 0]
    /\ new = [w \in Writers |-> Start]
    /\ tries = [q \in Requests |-> 0]
    /\ truncated = {}
    /\ crashes = 0 /\ outside = FALSE /\ failed = FALSE /\ overtaken = FALSE

Go(w, l) == pc' = [pc EXCEPT ![w] = l]

------------------------------------------------------------------------------
(* The edits *)

EditsRoom(q) == op[q] \in {"append", "remove", "switch", "room"}

\* A room's options can be changed only while the room exists.
Refused(q, c) == op[q] = "room" /\ room[q] \notin c.rooms

\* Verify and the validation of the danmaku parameters may refuse the outcome.
MayBeInvalid(q) == op[q] \in {"room", "setting", "platform"}

Keep(q, c) == [c EXCEPT !.edits = @ \cup {q}]

\* SetLiveRoomListening and the other switches do nothing to a room that is gone.
Switch(q, c) == IF room[q] \in c.rooms THEN Keep(q, c) ELSE c

\* Mutant: what was set for a room outlives the room.
RemoveRoomOnly(q, c) == [c EXCEPT !.rooms = @ \ {room[q]}]

\* RemoveLiveRoomByUrl: the options of a room are in its entry.
RemoveRoom(q, c) ==
    [c EXCEPT !.rooms = @ \ {room[q]}, !.edits = {e \in @ : ~EditsRoom(e) \/ room[e] # room[q]}]

RoomOptions(q, c) == Keep(q, c)     \* applyOverridableConfigUpdates
Setting(q, c)     == Keep(q, c)     \* applyConfigUpdates
Platform(q, c)    == Keep(q, c)     \* updatePlatformConfig
Cookie(q, c)      == Keep(q, c)     \* SetCookie, and the login that obtains one

Apply(q, c) ==
    CASE op[q] = "append"   -> [c EXCEPT !.rooms = @ \cup {room[q]}]
      [] op[q] = "remove"   -> RemoveRoom(q, c)
      [] op[q] = "switch"   -> Switch(q, c)
      [] op[q] = "room"     -> RoomOptions(q, c)
      [] op[q] = "setting"  -> Setting(q, c)
      [] op[q] = "platform" -> Platform(q, c)
      [] OTHER              -> Cookie(q, c)

------------------------------------------------------------------------------
(* UpdateWithRetry *)

Snapshot(q) ==
    /\ pc[q] = "idle"
    /\ seen' = [seen EXCEPT ![q] = mem] /\ seenVersion' = [seenVersion EXCEPT ![q] = version]
    /\ Go(q, "cas")
    /\ UNCHANGED <<op, room, memVars, diskVars, lock, new, tries, truncated, crashes,
                   historyVars>>

\* Mutant: the edit is applied to the snapshot, whose version has been checked.
CloneSnapshot(q) == seen[q]

\* CloneConfigShallow, under the lock.
Clone(q) == mem

Forget(q) == seen' = [seen EXCEPT ![q] = Start]

Conflict(q) ==
    /\ pc[q] = "cas" /\ lock = "free" /\ version # seenVersion[q]
    /\ IF tries[q] = MaxRetries THEN Go(q, "error") ELSE Go(q, "idle")
    /\ tries' = [tries EXCEPT ![q] = IF @ = MaxRetries THEN @ ELSE @ + 1]
    /\ Forget(q)
    /\ UNCHANGED <<op, room, memVars, diskVars, lock, seenVersion, new, truncated, crashes,
                   historyVars>>

Mutate(q) ==
    /\ pc[q] = "cas" /\ lock = "free" /\ version = seenVersion[q]
    /\ \/ /\ Refused(q, Clone(q)) \/ MayBeInvalid(q)
          /\ Go(q, "error") /\ UNCHANGED <<lock, new>>
       \/ /\ ~Refused(q, Clone(q))
          /\ new' = [new EXCEPT ![q] = Apply(q, Clone(q))]
          /\ lock' = q
          /\ Go(q, "open")
    /\ Forget(q)
    /\ UNCHANGED <<op, room, memVars, diskVars, seenVersion, tries, truncated, crashes,
                   historyVars>>

Publish(q) ==
    /\ pc[q] = "publish"
    /\ mem' = new[q] /\ version' = seenVersion[q] + 1
    /\ new' = IF op[q] = "cookie" THEN new ELSE [new EXCEPT ![q] = Start]
    /\ lock' = "free"
    /\ Go(q, IF op[q] = "cookie" THEN "again" ELSE "ok")
    /\ UNCHANGED <<op, room, diskVars, seen, seenVersion, tries, truncated, crashes, historyVars>>

------------------------------------------------------------------------------
(* Marshal: os.WriteFile, by an update under the lock and by three requests without *)

Open(w) ==
    /\ pc[w] \in {"open", "again"}
    /\ \/ /\ file' = "empty" /\ truncated' = truncated \cup {w}
          /\ Go(w, IF pc[w] = "open" THEN "write" ELSE "rewrite")
          /\ UNCHANGED <<lock, failed>>
       \/ /\ UNCHANGED <<file, truncated>>
          /\ failed' = TRUE
          /\ Go(w, IF pc[w] = "open" /\ w \in Requests THEN "error" ELSE "ok")
          /\ lock' = IF lock = w THEN "free" ELSE lock
    /\ outside' = (outside \/ lock # w)
    /\ UNCHANGED <<op, room, memVars, disk, seen, seenVersion, new, tries, crashes, overtaken>>

\* Mutant: an update saves what is published, not what it is about to publish.
SavePublished(w) == mem

Saved(w) == new[w]

\* Where two writers overlap, the longer text shows behind the shorter one.
Write(w) ==
    /\ pc[w] \in {"write", "rewrite"}
    /\ disk' = Saved(w)
    /\ file' \in {"whole"} \cup (IF truncated = {w} /\ file = "empty" THEN {} ELSE {"mixed"})
    /\ truncated' = truncated \ {w}
    /\ new' = IF lock = w THEN new ELSE [new EXCEPT ![w] = Start]
    /\ Go(w, IF lock = w THEN "publish" ELSE "ok")
    /\ UNCHANGED <<op, room, memVars, lock, seen, seenVersion, tries, crashes, historyVars>>

\* putConfig: the published configuration, as it is.
PutConfig ==
    /\ pc["save"] = "idle"
    /\ new' = [new EXCEPT !["save"] = mem]
    /\ Go("save", "open")
    /\ UNCHANGED <<op, room, memVars, diskVars, lock, seen, seenVersion, tries, truncated,
                   crashes, historyVars>>

\* getRawConfig: the text somebody edits and puts back; it may leave rooms out.
GetRawConfig ==
    /\ pc["raw"] = "idle"
    /\ \E keep \in SUBSET mem.rooms :
          new' = [new EXCEPT !["raw"] =
                    [rooms |-> keep, text |-> mem.text + 1,
                     edits |-> {e \in mem.edits : EditsRoom(e) => room[e] \in keep}]]
    /\ Go("raw", "edited")
    /\ UNCHANGED <<op, room, memVars, diskVars, lock, seen, seenVersion, tries, truncated,
                   crashes, historyVars>>

\* putRawConfig: published at once, without the lock; a parsed text has no version.
PutRawConfig ==
    /\ pc["raw"] = "edited"
    /\ mem' = new["raw"] /\ version' = 0
    /\ Go("raw", "apply")
    /\ overtaken' = (lock \in Requests)
    /\ UNCHANGED <<op, room, diskVars, lock, seen, seenVersion, new, tries, truncated, crashes,
                   outside, failed>>

\* applyLiveRoomsByConfig may fail half-way: then the text is not saved.
ApplyRaw ==
    /\ pc["raw"] = "apply"
    /\ \/ Go("raw", "open") /\ UNCHANGED failed
       \/ Go("raw", "error") /\ failed' = TRUE
    /\ UNCHANGED <<op, room, memVars, diskVars, lock, seen, seenVersion, new, tries,
                   truncated, crashes, outside, overtaken>>

------------------------------------------------------------------------------
(* The process ends and starts again *)

Crash ==
    /\ crashes < Crashes /\ crashes' = crashes + 1
    /\ pc' = [w \in Writers |-> IF pc[w] \in {"ok", "error"} THEN pc[w] ELSE "lost"]
    /\ lock' = "down" /\ truncated' = {} /\ failed' = TRUE
    /\ seen' = [q \in Requests |-> Start] /\ new' = [w \in Writers |-> Start]
    /\ UNCHANGED <<op, room, memVars, diskVars, seenVersion, tries, outside, overtaken>>

\* NewConfigWithFile: an empty file is the default configuration, which is saved back;
\* a mixed one may be refused, and then the process does not start.
Restart ==
    /\ lock = "down"
    /\ file # "mixed"
    /\ mem' = IF file = "empty" THEN Default ELSE disk
    /\ disk' = mem' /\ file' = "whole" /\ version' = 0
    /\ lock' = "free"
    /\ pc' = [w \in Writers |-> IF w \in Requests /\ pc[w] = "lost" THEN "idle" ELSE pc[w]]
    /\ UNCHANGED <<op, room, seen, seenVersion, new, tries, truncated, crashes, historyVars>>

Next ==
    \/ \E q \in Requests : Snapshot(q) \/ Conflict(q) \/ Mutate(q) \/ Publish(q)
    \/ \E w \in Writers : Open(w) \/ Write(w)
    \/ PutConfig \/ GetRawConfig \/ PutRawConfig \/ ApplyRaw
    \/ Crash \/ Restart

Spec == Init /\ [][Next]_cfgVars

------------------------------------------------------------------------------
(* Properties *)

IsConfig(c) ==
    /\ DOMAIN c = {"rooms", "edits", "text"}
    /\ c.rooms \subseteq Rooms /\ c.edits \subseteq Requests /\ c.text \in 0..1

ConfigTypeOK ==
    /\ IsConfig(mem) /\ IsConfig(disk) /\ \A w \in Writers : IsConfig(new[w])
    /\ file \in {"whole", "empty", "mixed"}
    /\ lock \in Requests \cup {"free", "down"}
    /\ \A q \in Requests : tries[q] \in 0..MaxRetries
    /\ \A e \in mem.edits : EditsRoom(e) => room[e] \in mem.rooms

\* An update takes away nothing but what it was asked to remove: whatever the order of
\* the snapshots, the version checks and a raw text that resets the version, an edit
\* leaves the published configuration only with its room, by a raw text or with the
\* process (updateWithRetryImpl, updateCASImpl, CloneConfigShallow) - or with a raw text
\* that was published under an update's lock, and that this update takes back.
EditsSurvive ==
    [][\A e \in mem.edits :
            \/ e \in mem'.edits
            \/ EditsRoom(e) /\ room[e] \notin mem'.rooms
            \/ pc["raw"] = "edited" /\ pc'["raw"] = "apply"
            \/ lock = "down"
            \/ overtaken /\ mem'.text < mem.text]_cfgVars

Quiet == \A w \in Writers : pc[w] \in {"idle", "ok", "error"}

\* As long as nobody saves outside the lock and no write fails, memory and file agree
\* whenever no request is under way (updateCASImpl saves before it publishes).
LockedSavesAgree ==
    (Quiet /\ lock = "free" /\ ~outside /\ ~failed /\ pc["raw"] = "idle") =>
        file = "whole" /\ disk = mem

\* configs/config.go:568 "Update ... safely updates the global configuration and persists
\* it to the file": an edit that was answered OK and is in force is in the file, when no
\* request is under way and nothing has failed.
UpdatesPersisted ==
    (Quiet /\ lock = "free" /\ ~failed) =>
        \A q \in mem.edits : pc[q] = "ok" => file = "whole" /\ q \in disk.edits
=============================================================================
