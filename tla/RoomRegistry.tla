------------------------------ MODULE RoomRegistry ------------------------------
(***************************************************************************)
(* Which rooms there are, in three places: the configuration, the map of   *)
(* rooms (src/src/instance/live_map.go) and the listeners                  *)
(* (src/src/listeners/manager.go), kept together by the handlers of        *)
(* src/src/servers/handler.go, a step at a time and without a lock of      *)
(* their own.                                                              *)
(*                                                                         *)
(* A room starts as an InitializingLive.  The first answer of its platform *)
(* finishes it: an event handler puts the real room in its place, under    *)
(* the id the platform gave it where the platform gives one, looks the     *)
(* room up in the configuration and replaces its listener.  The handler    *)
(* runs in a goroutine of the dispatcher: nothing waits for it.            *)
(***************************************************************************)
EXTENDS Integers, FiniteSets, Sequences

CONSTANTS
    Rooms,
    Custom,         \* the rooms whose platform gives them an id of its own
    Handlers,       \* the requests of the API that may be under way at a time
    Objects         \* bounds the InitializingLives that are made

VARIABLES
    cfg,            \* the configuration: "absent", "idle" or "listening"
    made,           \* the sequence of rooms InitializingLives were made for
    finished,       \* those whose platform has answered
    asked,          \* those whose platform is being asked
    initLoop,       \* those the loop of the start-up asks until they have finished
    lives,          \* by room and key, the object in the map
    savers,         \* by room and key, the object whose listener the manager holds
    running,        \* the objects whose listener runs
    cb,             \* the handler of RoomInitializingFinished, by object
    pc, op, target, flag,   \* of a request: flag holds "listen" or "append" or both
    overlapped      \* history: rooms that two requests have changed at a time, or that
                    \* were initialized while they were removed

requestVars == <<pc, op, target, flag>>
registryVars == <<cfg, made, finished, asked, initLoop, lives, savers, running, cb,
                  requestVars, overlapped>>

\* Object i and the real room behind it, Real(i).
Real(i)   == i + Objects
Made      == 1..Len(made)
RoomOf(o) == made[IF o > Objects THEN o - Objects ELSE o]

\* The ids: hashed from the URL, or given by the platform.
Keys     == {"url", "own"}
FinalKey(r) == IF r \in Custom THEN "own" ELSE "url"
Key(o)   == IF o > Objects THEN FinalKey(RoomOf(o)) ELSE "url"
At(o)    == <<RoomOf(o), Key(o)>>

\* The start-up: every configured room gets its object, a listener if it is listened to,
\* and the loop that initializes it otherwise.
Init ==
    /\ cfg \in [Rooms -> {"absent", "idle", "listening"}]
    /\ LET there == {r \in Rooms : cfg[r] # "absent"} IN
       /\ made \in [1..Cardinality(there) -> there] /\ {made[i] : i \in Made} = there
       /\ lives = [p \in Rooms \X Keys |-> IF p[1] \in there /\ p[2] = "url" THEN CHOOSE i \in Made : made[i] = p[1] ELSE 0]
    /\ running = {i \in Made : cfg[made[i]] = "listening"}
    /\ initLoop = Made \ running
    /\ savers = [p \in Rooms \X Keys |-> IF lives[p] \in running THEN lives[p] ELSE 0]
    /\ finished = {} /\ asked = {}
    /\ cb = [i \in 1..Objects |-> "no"]
    /\ pc = [h \in Handlers |-> "idle"] /\ op = [h \in Handlers |-> "add"]
    /\ target = [h \in Handlers |-> 0] /\ flag = [h \in Handlers |-> {}]
    /\ overlapped = {}

------------------------------------------------------------------------------
(* The listener manager *)

HasListener(o) == savers[At(o)] # 0

StartListener(o) ==
    /\ savers' = [savers EXCEPT ![At(o)] = o] /\ running' = running \cup {o}

CloseListener(o) ==
    /\ running' = running \ {savers[At(o)]} /\ savers' = [savers EXCEPT ![At(o)] = 0]

AddListener(o) ==
    IF HasListener(o) THEN UNCHANGED <<savers, running>> ELSE StartListener(o)

RemoveListener(o) ==
    IF HasListener(o) THEN CloseListener(o) ELSE UNCHANGED <<savers, running>>

\* Mutant: the listener that is replaced is not closed.
ForgetOld(i) ==
    IF HasListener(i)
    THEN /\ savers' = [[savers EXCEPT ![At(i)] = 0] EXCEPT ![At(Real(i))] = Real(i)]
         /\ running' = running \cup {Real(i)}
    ELSE UNCHANGED <<savers, running>>

\* Mutant: a room that is listened to gets its listener, whether it had one or not.
ListenAnyway(i) ==
    /\ savers' = [[savers EXCEPT ![At(i)] = 0] EXCEPT ![At(Real(i))] = Real(i)]
    /\ running' = (running \ {savers[At(i)]}) \cup {Real(i)}

\* replaceListener: closes the listener under the old id, and no other.
ReplaceListener(i) ==
    IF HasListener(i)
    THEN /\ savers' = [[savers EXCEPT ![At(i)] = 0] EXCEPT ![At(Real(i))] = Real(i)]
         /\ running' = (running \ {savers[At(i)]}) \cup {Real(i)}
    ELSE UNCHANGED <<savers, running>>

------------------------------------------------------------------------------
(* Initialization *)

Working(r) == {h \in Handlers : pc[h] # "idle" /\ RoomOf(target[h]) = r}

\* InitializingLive.GetInfo, asked by a listener, by the start-up and by the API.
Ask(i) ==
    /\ i \notin finished \cup asked
    /\ i \in running \cup initLoop \/ lives[At(i)] = i
    /\ asked' = asked \cup {i}
    /\ UNCHANGED <<cfg, made, finished, initLoop, lives, savers, running, cb, requestVars, overlapped>>

AnswerFails(i) ==
    /\ i \in asked /\ asked' = asked \ {i}
    /\ UNCHANGED <<cfg, made, finished, initLoop, lives, savers, running, cb, requestVars, overlapped>>

\* Mutant: an answer is taken for the next one too.
AnswerStays(i) ==
    /\ i \in asked /\ UNCHANGED asked
    /\ finished' = finished \cup {i} /\ initLoop' = initLoop \ {i}
    /\ cb' = [cb EXCEPT ![i] = "replace"]
    /\ UNCHANGED <<cfg, made, lives, savers, running, requestVars, overlapped>>

Answer(i) ==
    /\ i \in asked /\ asked' = asked \ {i}
    /\ finished' = finished \cup {i} /\ initLoop' = initLoop \ {i}
    /\ cb' = [cb EXCEPT ![i] = "replace"]
    /\ UNCHANGED <<cfg, made, lives, savers, running, requestVars, overlapped>>

ReplaceKey(i) ==
    /\ cb[i] = "replace" /\ cb' = [cb EXCEPT ![i] = "config"]
    /\ lives' = [[lives EXCEPT ![At(i)] = 0] EXCEPT ![At(Real(i))] = Real(i)]
    /\ overlapped' = overlapped \cup
          {r \in Rooms : r = RoomOf(i) /\ \E h \in Working(r) : op[h] = "remove"}
    /\ UNCHANGED <<cfg, made, finished, asked, initLoop, savers, running, requestVars>>

LookUpRoom(i) ==
    /\ cb[i] = "config"
    /\ LET c == cfg[RoomOf(i)] IN
       cb' = [cb EXCEPT ![i] = CASE c = "absent"    -> "panicked"
                                 [] c = "listening" -> "listen"
                                 [] OTHER           -> "done"]
    /\ UNCHANGED <<cfg, made, finished, asked, initLoop, lives, savers, running, requestVars, overlapped>>

Relisten(i) ==
    /\ cb[i] = "listen" /\ cb' = [cb EXCEPT ![i] = "done"]
    /\ ReplaceListener(i)
    /\ UNCHANGED <<cfg, made, finished, asked, initLoop, lives, requestVars, overlapped>>

------------------------------------------------------------------------------
(* The requests *)

Begin(h, o, r, name, f) ==
    /\ pc[h] = "idle" /\ pc' = [pc EXCEPT ![h] = "first"]
    /\ op' = [op EXCEPT ![h] = name]
    /\ target' = [target EXCEPT ![h] = o]
    /\ flag' = [flag EXCEPT ![h] = f]
    /\ overlapped' = overlapped \cup (IF Working(r) = {} THEN {} ELSE {r})

\* A request that has ended leaves nothing behind.
To(h, l) ==
    LET kept(f, none) == IF l = "idle" THEN [f EXCEPT ![h] = none] ELSE f IN
    /\ pc' = [pc EXCEPT ![h] = l]
    /\ op' = kept(op, "add") /\ target' = kept(target, 0) /\ flag' = kept(flag, {})

\* addLiveImpl up to NewInitializing.
AskAdd(h, r) ==
    /\ Len(made) < Objects
    /\ made' = Append(made, r)
    /\ \E listen \in SUBSET {"listen"} :
          Begin(h, Len(made'), r, "add", listen \cup (IF cfg[r] = "absent" THEN {"append"} ELSE {}))
    /\ UNCHANGED <<cfg, finished, asked, initLoop, lives, savers, running, cb>>

\* parseLiveAction and removeLive: the room by its id; a start or stop also needs it
\* to be configured.
AskOther(h, p, name) ==
    /\ lives[p] # 0
    /\ name # "remove" => cfg[p[1]] # "absent"
    /\ Begin(h, lives[p], p[1], name, {})
    /\ UNCHANGED <<cfg, made, finished, asked, initLoop, lives, savers, running, cb>>

Doing(h, name, l) == pc[h] = l /\ op[h] = name

SetIfAbsent(h) ==
    /\ Doing(h, "add", "first")
    /\ LET o == target[h] IN
       IF lives[At(o)] = 0
       THEN lives' = [lives EXCEPT ![At(o)] = o] /\ To(h, "second")
       ELSE UNCHANGED lives /\ To(h, "idle")
    /\ UNCHANGED <<cfg, made, finished, asked, initLoop, savers, running, cb, overlapped>>

AddListens(h) ==
    /\ Doing(h, "add", "second")
    /\ IF "listen" \in flag[h] THEN AddListener(target[h]) ELSE UNCHANGED <<savers, running>>
    /\ To(h, IF "append" \in flag[h] THEN "third" ELSE "idle")
    /\ UNCHANGED <<cfg, made, finished, asked, initLoop, lives, cb, overlapped>>

AppendLiveRoom(h) ==
    /\ Doing(h, "add", "third") /\ To(h, "idle")
    /\ cfg' = [cfg EXCEPT ![RoomOf(target[h])] = IF "listen" \in flag[h] THEN "listening" ELSE "idle"]
    /\ UNCHANGED <<made, finished, asked, initLoop, lives, savers, running, cb, overlapped>>

\* removeLiveImpl: the listener, the map, the configuration.
RemoveListens(h) ==
    /\ Doing(h, "remove", "first") /\ To(h, "second")
    /\ RemoveListener(target[h])
    /\ UNCHANGED <<cfg, made, finished, asked, initLoop, lives, cb, overlapped>>

RemoveLive(h) ==
    /\ Doing(h, "remove", "second") /\ To(h, "third")
    /\ lives' = [lives EXCEPT ![At(target[h])] = 0]
    /\ UNCHANGED <<cfg, made, finished, asked, initLoop, savers, running, cb, overlapped>>

RemoveLiveRoomByUrl(h) ==
    /\ Doing(h, "remove", "third") /\ To(h, "idle")
    /\ cfg' = [cfg EXCEPT ![RoomOf(target[h])] = "absent"]
    /\ UNCHANGED <<made, finished, asked, initLoop, lives, savers, running, cb, overlapped>>

\* A start refuses a room that has a listener, a stop one that has none.
StartListening(h) ==
    /\ Doing(h, "start", "first") /\ AddListener(target[h])
    /\ To(h, IF HasListener(target[h]) THEN "idle" ELSE "second")
    /\ UNCHANGED <<cfg, made, finished, asked, initLoop, lives, cb, overlapped>>

StopListening(h) ==
    /\ Doing(h, "stop", "first") /\ RemoveListener(target[h])
    /\ To(h, IF HasListener(target[h]) THEN "second" ELSE "idle")
    /\ UNCHANGED <<cfg, made, finished, asked, initLoop, lives, cb, overlapped>>

\* SetLiveRoomListening does nothing to a room that is gone.
SetListening(h) ==
    /\ pc[h] = "second" /\ op[h] \in {"start", "stop"} /\ To(h, "idle")
    /\ LET r == RoomOf(target[h]) IN
       cfg' = [cfg EXCEPT ![r] = IF @ = "absent" THEN @ ELSE IF op[h] = "start" THEN "listening" ELSE "idle"]
    /\ UNCHANGED <<made, finished, asked, initLoop, lives, savers, running, cb, overlapped>>

Next ==
    \/ \E i \in Made : Ask(i) \/ AnswerFails(i) \/ Answer(i) \/ ReplaceKey(i) \/ LookUpRoom(i) \/ Relisten(i)
    \/ \E h \in Handlers :
          \/ \E r \in Rooms : AskAdd(h, r)
          \/ \E p \in Rooms \X Keys, name \in {"remove", "start", "stop"} : AskOther(h, p, name)
          \/ SetIfAbsent(h) \/ AddListens(h) \/ AppendLiveRoom(h)
          \/ RemoveListens(h) \/ RemoveLive(h) \/ RemoveLiveRoomByUrl(h)
          \/ StartListening(h) \/ StopListening(h) \/ SetListening(h)

Spec == Init /\ [][Next]_registryVars

------------------------------------------------------------------------------
(* Properties *)

RegistryTypeOK ==
    /\ cfg \in [Rooms -> {"absent", "idle", "listening"}]
    /\ Len(made) \in 0..Objects
    /\ \A p \in Rooms \X Keys : \A o \in {lives[p], savers[p]} \ {0} : At(o) = p
    /\ asked \cap finished = {}

\* A listener that runs is in the hands of the manager, which can close it: however the
\* requests and the initialization of a room fall, no second listener of the room is left
\* behind (AddListener, RemoveListener and replaceListener work under the manager's lock).
\* Not so where the platform gives the id: adding such a room again puts a second
\* InitializingLive in the map, and its listener replaces one that is not closed.
NoLostListener ==
    \A o \in running : RoomOf(o) \notin Custom => savers[At(o)] = o

\* When nothing is under way, configuration, map and listeners agree on every room that
\* no two requests changed at a time and that was not removed while it was initialized:
\* it is in the map exactly when it is configured, and has a listener exactly when the
\* configuration listens to it (addLiveImpl, removeLiveImpl,
\* parseLiveAction, registryListener).
RoomsAgree ==
    (\A h \in Handlers : pc[h] = "idle") /\ (\A i \in Made : cb[i] \in {"no", "done", "panicked"}) =>
        \A r \in Rooms \ (Custom \cup overlapped) :
            (\A i \in Made : made[i] = r => cb[i] # "panicked") =>
                /\ lives[<<r, "url">>] # 0 <=> cfg[r] # "absent"
                /\ savers[<<r, "url">>] # 0 <=> cfg[r] = "listening"

\* listeners/manager.go:66-73: the handler of a finished initialization panics when the
\* room is not in the configuration, as if that could not be.
InitFindsRoom == \A i \in Made : cb[i] # "panicked"
=============================================================================
