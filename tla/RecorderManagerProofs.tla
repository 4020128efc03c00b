------------------------ MODULE RecorderManagerProofs ------------------------
(***************************************************************************)
(* What RecorderManager guarantees for every number of recorders, event    *)
(* handlers, API requests and cron chains that restart and remove a room's *)
(* recorder concurrently: no recorder is leaked, the count of active       *)
(* recordings misses none, the room's recorder can always be split, every  *)
(* segment is accounted for, and summaries are in order; and what follows  *)
(* for a room with its listeners (RoomLifecycle): it is recorded when it   *)
(* is live and not recorded otherwise.                                     *)
(*                                                                         *)
(* The invariant orders recorders by creation.  The room's recorder is the *)
(* youngest, and a restart holds one older than that: hence the swap of    *)
(* the youngest never takes a recorder that another restart holds, and     *)
(* files are handed from each recorder to the next one only.               *)
(***************************************************************************)
EXTENDS RoomLifecycle, FiniteSetTheorems, TLAPS

Restarting == {p \in Procs : pc[p] \in Restart}

\* What was not created yet has no state, no goroutine and no cron chain.
FreshUntouched ==
    \A r \in Recs : r > created => state[r] = "none" /\ run[r] = "none" /\ pc[r] = "idle"

\* The room's recorder is the youngest.
SaverIsYoungest == savers # NoRec => savers = created

\* A restart holds two recorders, and the old one is not the youngest.
RestartsHold ==
    \A p \in Restarting :
        /\ old[p] \in 1..(created - 1)
        /\ new[p] \in 1..created

\* Every running recorder is the room's, or a restart will close it.
RunningOwned ==
    \A r \in Recs : state[r] = "running" =>
        \/ savers = r
        \/ \E p \in Procs : pc[p] \in {"suppress", "close"} /\ old[p] = r

OldDistinct == \A p, q \in Restarting : p # q => old[p] # old[q]

CountExact == restarting = Cardinality(Restarting)

IInv ==
    /\ TypeOK
    /\ FreshUntouched
    /\ SaverIsYoungest
    /\ RestartsHold
    /\ RunningOwned
    /\ OldDistinct
    /\ CountExact
    /\ SplitChainAlive

LEMMA RestartingFinite == IsFiniteSet(Restarting)
<1>1. IsFiniteSet(Recs)
  BY ConstantsAssumption, FS_Interval DEF Recs
<1>2. IsFiniteSet(Handlers \cup Recs)
  BY <1>1, ConstantsAssumption, FS_Union
<1> QED BY <1>2, FS_Subset DEF Restarting, Procs

LEMMA InitIInv == Init => IInv
<1> SUFFICES ASSUME Init PROVE IInv
  OBVIOUS
<1> USE ConstantsAssumption DEF Init
<1>1. TypeOK
  BY DEF TypeOK, Recs, Procs
<1>2. Restarting = {}
  BY DEF Restarting, Restart
<1>3. CountExact
  BY <1>2, FS_EmptySet DEF CountExact
<1>4. FreshUntouched /\ SaverIsYoungest /\ RunningOwned /\ SplitChainAlive
  BY DEF FreshUntouched, SaverIsYoungest, RunningOwned, SplitChainAlive, Recs, Procs
<1> QED BY <1>1, <1>2, <1>3, <1>4 DEF IInv, RestartsHold, OldDistinct

------------------------------------------------------------------------------
(* Types *)

LEMMA ElementsType == ASSUME NEW seq \in Seq(Recs) PROVE Elements(seq) \subseteq Recs
BY DEF Elements

LEMMA NextTypeOK == TypeOK /\ RestartsHold /\ [Next]_vars => TypeOK'
<1> SUFFICES ASSUME TypeOK, RestartsHold, [Next]_vars PROVE TypeOK'
  OBVIOUS
<1> USE DEF TypeOK, Restart, managerVars, recorderVars, callerVars, observerVars
<1>1. created \in Int /\ (created < MaxRecs => created + 1 \in Recs) /\ Recs \subseteq Procs
      /\ Handlers \subseteq Procs
  BY ConstantsAssumption DEF Recs, Procs
<1>2. \A p \in Procs : pc[p] \in Restart => old[p] \in Recs /\ new[p] \in Recs
  BY ConstantsAssumption DEF RestartsHold, Restarting, Recs
<1>a. ASSUME CreateRecorder
      PROVE  /\ created' \in 0..MaxRecs
             /\ savers' \in Recs \cup {NoRec}
             /\ state' \in [Recs -> {"none", "running", "stopped"}]
             /\ run' \in [Recs -> {"none", "loop", "summary", "exit", "done"}]
  BY <1>1, <1>a, ConstantsAssumption DEF CreateRecorder
<1>3. ASSUME NEW p \in Procs, RestartStep(p)
      PROVE  TypeOK'
  <2>1. CASE Swap(p)
    <3>1. CASE savers = NoRec
      BY <2>1, <3>1 DEF Swap, Goto
    <3>2. CASE savers # NoRec
      <4>1. CreateRecorder /\ created + 1 \in Recs
        BY <1>1, <2>1, <3>2 DEF Swap, CreateRecorder
      <4>a. /\ restarting' = restarting + 1
            /\ old' = [old EXCEPT ![p] = savers]
            /\ new' = [new EXCEPT ![p] = created + 1]
            /\ pc' = CronOf(created + 1, [pc EXCEPT ![p] = "suppress"])
        BY <2>1, <3>2 DEF Swap
      <4>2. pc' \in [Procs -> {"idle", "add", "remove_has", "remove", "restart_has",
                              "timer", "swap"} \cup Restart]
        BY <4>a DEF CronOf
      <4>3. /\ restarting' \in Int
            /\ old' \in [Procs -> Recs \cup {NoRec}]
            /\ new' \in [Procs -> Recs \cup {NoRec}]
        BY <4>1, <4>a
      <4>4. UNCHANGED <<files, recorded, suppress, aged, carried, sent, skipped, late>>
        BY <2>1 DEF Swap
      <4> QED BY <1>a, <4>1, <4>2, <4>3, <4>4
    <3> QED BY <3>1, <3>2
  <2>2. CASE RestartSuppress(p)
    BY <1>2, <2>2 DEF RestartSuppress, Goto
  <2>3. CASE RestartClose(p)
    BY <1>2, <2>3 DEF RestartClose, Closed, Goto
  <2>4. CASE RestartTake(p)
    BY <1>2, <2>4 DEF RestartTake, Goto
  <2>5. CASE RestartCheck(p)
    <3>1. Elements(carried[p]) \subseteq Recs
      BY ElementsType
    <3>2. CASE savers = new[p]
      BY <2>5, <3>2 DEF RestartCheck, Goto
    <3>3. CASE savers # new[p]
      <4>1. skipped' = skipped \cup Elements(carried[p])
            /\ carried' = [carried EXCEPT ![p] = <<>>]
            /\ pc' = [pc EXCEPT ![p] = "uncount"]
        BY <2>5, <3>3 DEF RestartCheck, Goto
      <4>2. skipped' \subseteq Recs
        BY <3>1, <4>1
      <4>3. UNCHANGED <<managerVars, recorderVars, old, new, sent, late>>
        BY <2>5 DEF RestartCheck
      <4> QED BY <4>1, <4>2, <4>3
    <3> QED BY <3>2, <3>3
  <2>6. CASE RestartHandover(p)
    <3>1. HandedOver(p) \in Seq(Recs)
      BY <1>2, <2>6 DEF HandedOver, RestartHandover
    <3>2. Elements(carried[p]) \subseteq Recs
      BY ElementsType
    <3> QED BY <1>2, <2>6, <3>1, <3>2 DEF RestartHandover, Goto
  <2>7. CASE RestartDone(p)
    BY <2>7 DEF RestartDone, Return, Goto
  <2> QED BY <1>3, <2>1, <2>2, <2>3, <2>4, <2>5, <2>6, <2>7 DEF RestartStep
<1>4. ASSUME NEW h \in Handlers, HandlerStep(h)
      PROVE  TypeOK'
  <2>1. CASE Add(h) /\ savers # NoRec
    BY <2>1 DEF Add, Goto
  <2>2. CASE Add(h) /\ savers = NoRec
    <3>1. pc' \in [Procs -> {"idle", "add", "remove_has", "remove", "restart_has",
                            "timer", "swap"} \cup Restart]
      BY <2>2 DEF Add, CronOf
    <3>2. CreateRecorder /\ UNCHANGED <<restarting, files, recorded, suppress, aged,
                                        old, new, carried, sent, skipped, late>>
      BY <2>2 DEF Add
    <3> QED BY <1>a, <3>1, <3>2
  <2>3. CASE RemoveHas(h)
    BY <2>3 DEF RemoveHas, Goto
  <2>4. CASE Remove(h)
    BY <2>4 DEF Remove, Closed, Goto
  <2>5. CASE RestartHas(h)
    BY <2>5 DEF RestartHas, Goto
  <2> QED BY <1>4, <2>1, <2>2, <2>3, <2>4, <2>5 DEF HandlerStep
<1>5. ASSUME NEW r \in Recs, CronCheck(r) \/ RunStep(r) \/ RunPanic(r) \/ Age(r)
      PROVE  TypeOK'
  <2>1. CASE CronCheck(r)
    BY <1>1, <2>1 DEF CronCheck, Goto
  <2>2. CASE RunStep(r) \/ RunPanic(r)
    <3>1. CASE RunSegment(r)
      BY <3>1 DEF RunSegment
    <3>2. CASE RunLeave(r)
      BY <3>2 DEF RunLeave
    <3>3. CASE RunSummary(r)
      BY <3>3 DEF RunSummary
    <3>4. CASE RunDone(r)
      BY <3>4 DEF RunDone
    <3>5. CASE RunPanic(r)
      BY <3>5 DEF RunPanic
    <3> QED BY <2>2, <3>1, <3>2, <3>3, <3>4, <3>5 DEF RunStep
  <2>3. CASE Age(r)
    BY <2>3 DEF Age, Recs
  <2> QED BY <1>5, <2>1, <2>2, <2>3
<1>6. ASSUME NEW h \in Handlers, NEW op \in {"add", "remove_has", "restart_has"}, Begin(h, op)
      PROVE  TypeOK'
  BY <1>1, <1>6 DEF Begin, Goto
<1>7. CASE Shutdown
  BY <1>7 DEF Shutdown, Closed
<1>8. CASE UNCHANGED vars
  BY <1>8 DEF vars
<1> QED BY <1>3, <1>4, <1>5, <1>6, <1>7, <1>8 DEF Next, ManagerNext

------------------------------------------------------------------------------
(* Who holds which recorder *)

\* The invariant without the counter, and the types it needs.
Holding ==
    /\ FreshUntouched
    /\ SaverIsYoungest
    /\ RestartsHold
    /\ RunningOwned
    /\ OldDistinct
    /\ SplitChainAlive

HoldingTypes ==
    /\ savers \in Recs \cup {NoRec}
    /\ created \in 0..MaxRecs
    /\ state \in [Recs -> {"none", "running", "stopped"}]
    /\ run \in [Recs -> {"none", "loop", "summary", "exit", "done"}]
    /\ pc \in [Procs -> {"idle", "add", "remove_has", "remove", "restart_has",
                         "timer", "swap"} \cup Restart]
    /\ old \in [Procs -> Recs \cup {NoRec}]
    /\ new \in [Procs -> Recs \cup {NoRec}]

\* A recorder is created: the next one, untouched so far, and so is its cron chain.
LEMMA NextIsFresh ==
    ASSUME HoldingTypes, FreshUntouched, created < MaxRecs
    PROVE  /\ created + 1 \in Recs
           /\ created + 1 \in Procs
           /\ created + 1 # NoRec
           /\ pc[created + 1] = "idle"
BY ConstantsAssumption DEF HoldingTypes, FreshUntouched, Recs, Procs

\* One process moves on and holds on to what it holds; all else stays.
LEMMA MoveHolding ==
    ASSUME Holding, HoldingTypes, NEW p \in Procs, NEW next,
           pc' = [pc EXCEPT ![p] = next],
           UNCHANGED <<savers, created, state, run, old, new>>,
           next \in Restart => pc[p] \in Restart,
           pc[p] \in {"suppress", "close"} => next \in {"suppress", "close"},
           p \in Recs /\ p > created => next = "idle",
           Splitting /\ savers # NoRec /\ p = savers => next \in {"timer", "swap"}
    PROVE  Holding'
<1> USE DEF Holding, HoldingTypes, Restart
<1>1. \A q \in Procs : pc'[q] = IF q = p THEN next ELSE pc[q]
  OBVIOUS
<1>2. FreshUntouched' /\ SaverIsYoungest'
  BY <1>1 DEF FreshUntouched, SaverIsYoungest, Recs, Procs
<1>3. \A q \in Procs : pc'[q] \in Restart => pc[q] \in Restart
  BY <1>1
<1>4. RestartsHold' /\ OldDistinct'
  BY <1>3 DEF RestartsHold, OldDistinct, Restarting
<1>5. RunningOwned'
  BY <1>1 DEF RunningOwned
<1>6. SplitChainAlive'
  BY <1>1 DEF SplitChainAlive, Recs, Procs
<1> QED BY <1>2, <1>4, <1>5, <1>6

LEMMA RestartHolding ==
    ASSUME Holding, HoldingTypes, NEW p \in Procs, RestartStep(p)
    PROVE  Holding'
<1> USE DEF Holding, HoldingTypes, FreshUntouched, SaverIsYoungest, RestartsHold, RunningOwned,
            OldDistinct, SplitChainAlive, Restarting, Restart,
            managerVars, recorderVars, callerVars, observerVars
<1>1. CASE Swap(p) /\ savers = NoRec
  <2>1. /\ pc[p] = "swap"
        /\ pc' = [pc EXCEPT ![p] = "idle"]
        /\ UNCHANGED <<savers, created, state, run, old, new>>
    BY <1>1 DEF Swap, Goto
  <2> QED BY <1>1, <2>1, MoveHolding
<1>2. CASE Swap(p) /\ savers # NoRec
  <2>1. /\ created < MaxRecs
        /\ created' = created + 1
        /\ savers' = created + 1
        /\ state' = [state EXCEPT ![created + 1] = "running"]
        /\ run' = [run EXCEPT ![created + 1] = "loop"]
        /\ old' = [old EXCEPT ![p] = savers]
        /\ new' = [new EXCEPT ![p] = created + 1]
        /\ pc' = CronOf(created + 1, [pc EXCEPT ![p] = "suppress"])
        /\ pc[p] = "swap"
    BY <1>2 DEF Swap, CreateRecorder
  <2>2. created + 1 \in Recs /\ created + 1 \in Procs /\ created + 1 # NoRec
        /\ pc[created + 1] = "idle"
    BY <2>1, NextIsFresh
  <2>3. p # created + 1
    BY <2>1, <2>2
  <2>4. /\ pc'[p] = "suppress"
        /\ Splitting => pc'[created + 1] = "timer"
        /\ pc'[created + 1] \in {"idle", "timer"}
        /\ \A q \in Procs : q # p /\ q # created + 1 => pc'[q] = pc[q]
    BY <2>1, <2>2, <2>3 DEF CronOf
  <2>5. savers = created
    BY <1>2
  <2>6. FreshUntouched'
    <3> SUFFICES ASSUME NEW r \in Recs, r > created'
                 PROVE  state'[r] = "none" /\ run'[r] = "none" /\ pc'[r] = "idle"
      OBVIOUS
    <3>1. r \in Int /\ created \in Int /\ r \in Procs
      BY ConstantsAssumption DEF Recs, Procs
    <3>2. r # created + 1 /\ r > created
      BY <2>1, <3>1
    <3>3. r # p
      BY <2>1, <3>2
    <3> QED BY <2>1, <2>4, <3>1, <3>2, <3>3
  <2>7. RestartsHold'
    <3> SUFFICES ASSUME NEW q \in Procs, pc'[q] \in Restart
                 PROVE  old'[q] \in 1..(created' - 1) /\ new'[q] \in 1..created'
      OBVIOUS
    <3>1. created \in Int /\ (created > 0)
      BY <1>2, <2>5, ConstantsAssumption DEF Recs
    <3>2. CASE q = p
      BY <2>1, <2>5, <3>1, <3>2
    <3>3. CASE q # p
      <4>1. pc[q] \in Restart
        BY <2>4, <3>3
      <4> QED BY <2>1, <3>1, <3>3, <4>1
    <3> QED BY <3>2, <3>3
  <2>8. RunningOwned'
    <3> SUFFICES ASSUME NEW r \in Recs, state'[r] = "running", savers' # r
                 PROVE  \E q \in Procs : pc'[q] \in {"suppress", "close"} /\ old'[q] = r
      OBVIOUS
    <3>1. state[r] = "running"
      BY <2>1
    <3>2. CASE savers = r
      BY <2>1, <2>4, <3>2
    <3>3. CASE savers # r
      <4>1. PICK q \in Procs : pc[q] \in {"suppress", "close"} /\ old[q] = r
        BY <3>1, <3>3
      <4>2. q # p /\ q # created + 1
        BY <2>1, <2>2, <4>1
      <4> QED BY <2>1, <2>4, <4>1, <4>2
    <3> QED BY <3>2, <3>3
  \* the other restarts hold recorders older than the one taken here
  <2>9. OldDistinct'
    <3> SUFFICES ASSUME NEW q1 \in Restarting', NEW q2 \in Restarting', q1 # q2
                 PROVE  old'[q1] # old'[q2]
      OBVIOUS
    <3>1. \A q \in Restarting' : q # p => q \in Restarting /\ old'[q] = old[q] /\ old[q] # savers
      <4> SUFFICES ASSUME NEW q \in Procs, pc'[q] \in Restart, q # p
                   PROVE  pc[q] \in Restart /\ old'[q] = old[q] /\ old[q] # savers
        OBVIOUS
      <4>1. pc[q] \in Restart
        BY <2>4
      <4>2. old[q] \in 1..(created - 1) /\ created \in Int
        BY <4>1, ConstantsAssumption
      <4> QED BY <2>1, <2>5, <4>1, <4>2
    <3>2. old'[p] = savers
      BY <2>1
    <3> QED BY <3>1, <3>2
  <2>10. SaverIsYoungest' /\ SplitChainAlive'
    BY <2>1, <2>4
  <2> QED BY <2>6, <2>7, <2>8, <2>9, <2>10
<1>3. CASE RestartSuppress(p)
  BY <1>3 DEF RestartSuppress, Goto
<1>4. CASE RestartClose(p)
  <2>1. /\ pc[p] = "close"
        /\ state' = [state EXCEPT ![old[p]] = "stopped"]
        /\ pc' = [pc EXCEPT ![p] = "wait"]
        /\ UNCHANGED <<savers, created, run, old, new>>
    BY <1>4 DEF RestartClose, Closed, Goto
  <2>2. old[p] \in Recs /\ old[p] <= created
    BY <2>1, ConstantsAssumption DEF Recs
  <2>3. FreshUntouched' /\ SaverIsYoungest' /\ RestartsHold' /\ OldDistinct' /\ SplitChainAlive'
    BY <2>1, <2>2 DEF Recs
  <2>4. RunningOwned'
    BY <2>1, <2>2
  <2> QED BY <2>3, <2>4
<1>5. CASE RestartTake(p)
  BY <1>5 DEF RestartTake, Goto
<1>6. CASE RestartCheck(p)
  <2>1. /\ pc[p] = "check"
        /\ \/ pc' = [pc EXCEPT ![p] = "handover"]
           \/ pc' = [pc EXCEPT ![p] = "uncount"]
        /\ UNCHANGED <<savers, created, state, run, old, new>>
    BY <1>6 DEF RestartCheck, Goto
  <2>2. ~(p \in Recs /\ p > created) /\ ~(Splitting /\ savers # NoRec /\ p = savers)
    BY <2>1
  <2> QED BY <2>1, <2>2, MoveHolding
<1>7. CASE RestartHandover(p)
  BY <1>7 DEF RestartHandover, Goto
<1>8. CASE RestartDone(p)
  BY <1>8 DEF RestartDone, Return, Goto
<1> QED BY <1>1, <1>2, <1>3, <1>4, <1>5, <1>6, <1>7, <1>8 DEF RestartStep

LEMMA HandlerHolding ==
    ASSUME Holding, HoldingTypes, NEW h \in Handlers, HandlerStep(h)
    PROVE  Holding'
<1>h. h \in Procs /\ h \notin Recs
  BY ConstantsAssumption DEF Procs
<1> USE DEF managerVars, recorderVars, callerVars, observerVars
<1>1. CASE Add(h) /\ savers # NoRec
  <2>1. /\ pc[h] = "add" /\ pc' = [pc EXCEPT ![h] = "idle"]
        /\ UNCHANGED <<savers, created, state, run, old, new>>
    BY <1>1 DEF Add, Goto
  <2> QED BY <1>1, <1>h, <2>1, MoveHolding DEF Restart, HoldingTypes
<1>2. CASE Add(h) /\ savers = NoRec
  <2>1. /\ created < MaxRecs
        /\ created' = created + 1
        /\ savers' = created + 1
        /\ state' = [state EXCEPT ![created + 1] = "running"]
        /\ run' = [run EXCEPT ![created + 1] = "loop"]
        /\ pc' = CronOf(created + 1, [pc EXCEPT ![h] = "idle"])
        /\ pc[h] = "add"
        /\ UNCHANGED <<old, new>>
    BY <1>2 DEF Add, CreateRecorder
  <2>2. created + 1 \in Recs /\ created + 1 \in Procs /\ created + 1 # NoRec
        /\ pc[created + 1] = "idle"
    BY <2>1, NextIsFresh DEF Holding
  <2>3. h # created + 1
    BY <1>h, <2>2
  <2>4. /\ pc'[h] = "idle"
        /\ Splitting => pc'[created + 1] = "timer"
        /\ pc'[created + 1] \in {"idle", "timer"}
        /\ \A q \in Procs : q # h /\ q # created + 1 => pc'[q] = pc[q]
    BY <1>h, <2>1, <2>2, <2>3 DEF CronOf, HoldingTypes
  <2>5. \A q \in Procs : pc'[q] \in Restart => pc[q] \in Restart
    BY <2>4 DEF Restart
  <2>6. FreshUntouched'
    <3> SUFFICES ASSUME NEW r \in Recs, r > created'
                 PROVE  state'[r] = "none" /\ run'[r] = "none" /\ pc'[r] = "idle"
      BY DEF FreshUntouched
    <3>1. r \in Int /\ created \in Int /\ r \in Procs
      BY ConstantsAssumption DEF Recs, Procs, HoldingTypes
    <3>2. r # created + 1 /\ r > created
      BY <2>1, <3>1
    <3> QED BY <1>h, <2>1, <2>4, <3>1, <3>2 DEF Holding, HoldingTypes, FreshUntouched
  <2>7. RestartsHold' /\ OldDistinct'
    <3>1. created \in Int
      BY ConstantsAssumption DEF HoldingTypes
    <3>2. ASSUME NEW q \in Procs, pc'[q] \in Restart
          PROVE  old'[q] \in 1..(created' - 1) /\ new'[q] \in 1..created'
      <4>1. old[q] \in 1..(created - 1) /\ new[q] \in 1..created
        BY <2>5, <3>2 DEF Holding, RestartsHold, Restarting
      <4> QED BY <2>1, <3>1, <4>1
    <3>3. OldDistinct'
      BY <2>1, <2>5 DEF Holding, OldDistinct, Restarting
    <3> QED BY <3>2, <3>3 DEF RestartsHold, Restarting
  <2>8. RunningOwned'
    <3> SUFFICES ASSUME NEW r \in Recs, state'[r] = "running", savers' # r
                 PROVE  \E q \in Procs : pc'[q] \in {"suppress", "close"} /\ old'[q] = r
      BY DEF RunningOwned
    <3>1. state[r] = "running" /\ savers # r
      BY <1>2, <2>1, ConstantsAssumption DEF HoldingTypes
    <3>2. PICK q \in Procs : pc[q] \in {"suppress", "close"} /\ old[q] = r
      BY <3>1 DEF Holding, RunningOwned
    <3> QED BY <2>1, <2>2, <2>4, <3>2
  <2>9. SaverIsYoungest' /\ SplitChainAlive'
    BY <2>1, <2>4 DEF SaverIsYoungest, SplitChainAlive
  <2> QED BY <2>6, <2>7, <2>8, <2>9 DEF Holding
<1>3. CASE RemoveHas(h)
  <2>1. /\ pc[h] = "remove_has"
        /\ pc' = [pc EXCEPT ![h] = IF savers = NoRec THEN "idle" ELSE "remove"]
        /\ UNCHANGED <<savers, created, state, run, old, new>>
    BY <1>3 DEF RemoveHas, Goto
  <2> QED BY <1>h, <2>1, MoveHolding DEF Restart, HoldingTypes
<1>4. CASE Remove(h)
  <2>1. /\ pc[h] = "remove" /\ pc' = [pc EXCEPT ![h] = "idle"]
        /\ savers' = NoRec
        /\ state' = IF savers = NoRec THEN state ELSE [state EXCEPT ![savers] = "stopped"]
        /\ UNCHANGED <<created, run, old, new>>
    BY <1>4 DEF Remove, Closed, Goto
  <2>2. \A q \in Procs : q # h => pc'[q] = pc[q]
    BY <2>1 DEF HoldingTypes
  <2>3. \A q \in Procs : pc'[q] \in Restart => pc[q] \in Restart
    BY <2>1 DEF HoldingTypes, Restart
  <2>4. FreshUntouched'
    BY <1>h, <2>1, <2>2, ConstantsAssumption
       DEF Holding, HoldingTypes, FreshUntouched, SaverIsYoungest, Recs, Procs
  <2>5. RunningOwned'
    BY <2>1, <2>2 DEF Holding, HoldingTypes, RunningOwned
  <2>6. RestartsHold' /\ OldDistinct'
    BY <2>1, <2>3 DEF Holding, RestartsHold, OldDistinct, Restarting
  <2> QED BY <2>1, <2>4, <2>5, <2>6 DEF Holding, SaverIsYoungest, SplitChainAlive
<1>5. CASE RestartHas(h)
  <2>1. /\ pc[h] = "restart_has"
        /\ pc' = [pc EXCEPT ![h] = IF savers = NoRec THEN "idle" ELSE "swap"]
        /\ UNCHANGED <<savers, created, state, run, old, new>>
    BY <1>5 DEF RestartHas, Goto
  <2> QED BY <1>h, <2>1, MoveHolding DEF Restart, HoldingTypes
<1> QED BY <1>1, <1>2, <1>3, <1>4, <1>5 DEF HandlerStep

\* The goroutines of a recorder, and time.
LEMMA RecorderHolding ==
    ASSUME Holding, HoldingTypes, NEW r \in Recs, CronCheck(r) \/ RunStep(r) \/ RunPanic(r) \/
      Age(r)
    PROVE  Holding'
<1> USE DEF managerVars, recorderVars, callerVars, observerVars
<1>1. CASE CronCheck(r)
  <2>1. /\ pc[r] = "timer" /\ r \in Procs
        /\ \/ savers = NoRec /\ pc' = [pc EXCEPT ![r] = "idle"]
           \/ pc' = [pc EXCEPT ![r] = "swap"]
        /\ UNCHANGED <<savers, created, state, run, old, new>>
    BY <1>1 DEF CronCheck, Goto, Procs
  <2>2. ~(r > created)
    BY <2>1 DEF Holding, FreshUntouched
  <2> QED BY <2>1, <2>2, MoveHolding DEF Restart
<1>2. CASE RunStep(r) \/ RunPanic(r)
  <2>1. /\ run[r] # "none"
        /\ run' \in [Recs -> {"none", "loop", "summary", "exit", "done"}]
        /\ \A q \in Recs : q # r => run'[q] = run[q]
        /\ UNCHANGED <<savers, created, state, pc, old, new>>
    BY <1>2 DEF RunStep, RunPanic, RunSegment, RunLeave, RunSummary, RunDone, HoldingTypes
  <2>2. FreshUntouched'
    BY <2>1 DEF Holding, FreshUntouched
  <2> QED BY <2>1, <2>2 DEF Holding, SaverIsYoungest, RestartsHold, RunningOwned, OldDistinct,
                            SplitChainAlive, Restarting
<1>3. CASE Age(r)
  <2>1. UNCHANGED <<savers, created, state, run, pc, old, new>>
    BY <1>3 DEF Age
  <2> QED BY <2>1 DEF Holding, FreshUntouched, SaverIsYoungest, RestartsHold, RunningOwned,
                      OldDistinct, SplitChainAlive, Restarting
<1> QED BY <1>1, <1>2, <1>3

LEMMA NextHolding == TypeOK /\ Holding /\ [Next]_vars => Holding'
<1> SUFFICES ASSUME TypeOK, Holding, [Next]_vars PROVE Holding'
  OBVIOUS
<1>1. HoldingTypes
  BY DEF TypeOK, HoldingTypes
<1>2. ASSUME NEW h \in Handlers, NEW op \in {"add", "remove_has", "restart_has"}, Begin(h, op)
      PROVE  Holding'
  <2>1. /\ pc[h] = "idle" /\ pc' = [pc EXCEPT ![h] = op]
        /\ UNCHANGED <<savers, created, state, run, old, new>>
    BY <1>2 DEF Begin, Goto, managerVars, recorderVars, observerVars
  <2>2. h \in Procs /\ h \notin Recs
    BY ConstantsAssumption DEF Procs
  <2>3. ~(Splitting /\ savers # NoRec /\ h = savers)
    BY <1>1, <2>2 DEF HoldingTypes
  <2> QED BY <1>1, <2>1, <2>2, <2>3, MoveHolding DEF Restart
<1>3. CASE Shutdown
  <2>1. /\ savers # NoRec /\ savers' = NoRec
        /\ state' = [state EXCEPT ![savers] = "stopped"]
        /\ UNCHANGED <<created, run, pc, old, new>>
    BY <1>3 DEF Shutdown, Closed, callerVars
  <2>2. FreshUntouched' /\ RunningOwned'
    BY <1>1, <2>1, ConstantsAssumption
       DEF Holding, HoldingTypes, FreshUntouched, SaverIsYoungest, RunningOwned, Recs
  <2> QED BY <2>1, <2>2 DEF Holding, SaverIsYoungest, RestartsHold, OldDistinct,
                            SplitChainAlive, Restarting
<1>4. CASE UNCHANGED vars
  BY <1>4 DEF vars, managerVars, recorderVars, callerVars, Holding, FreshUntouched,
              SaverIsYoungest, RestartsHold, RunningOwned, OldDistinct, SplitChainAlive, Restarting
<1> QED BY <1>1, <1>2, <1>3, <1>4, RestartHolding, HandlerHolding, RecorderHolding
        DEF Next, ManagerNext

------------------------------------------------------------------------------
(* The counter *)

LEMMA NextCount == TypeOK /\ Holding /\ CountExact /\ [Next]_vars => CountExact'
<1> SUFFICES ASSUME TypeOK, Holding, CountExact, [Next]_vars PROVE CountExact'
  OBVIOUS
<1>0. HoldingTypes
  BY DEF TypeOK, HoldingTypes
<1> USE DEF Restarting, Restart, managerVars, recorderVars, callerVars, observerVars
<1>1. ASSUME Restarting' = Restarting, restarting' = restarting
      PROVE  CountExact'
  BY <1>1 DEF CountExact
<1>2. ASSUME NEW p \in Procs, RestartStep(p)
      PROVE  CountExact'
  <2>1. CASE Swap(p) /\ savers = NoRec
    <3>1. pc[p] = "swap" /\ pc' = [pc EXCEPT ![p] = "idle"] /\ restarting' = restarting
      BY <2>1 DEF Swap, Goto
    <3>2. Restarting' = Restarting
      BY <1>0, <3>1 DEF HoldingTypes
    <3> QED BY <1>1, <3>1, <3>2
  <2>2. CASE Swap(p) /\ savers # NoRec
    <3>1. /\ created < MaxRecs
          /\ pc[p] = "swap"
          /\ restarting' = restarting + 1
          /\ pc' = CronOf(created + 1, [pc EXCEPT ![p] = "suppress"])
      BY <2>2 DEF Swap, CreateRecorder
    <3>2. created + 1 \in Procs /\ pc[created + 1] = "idle"
      BY <1>0, <3>1, NextIsFresh DEF Holding
    <3>3. \A q \in Procs : pc'[q] \in Restart <=> (pc[q] \in Restart \/ q = p)
      BY <1>0, <3>1, <3>2 DEF CronOf, HoldingTypes
    <3>4. Restarting' = Restarting \cup {p} /\ p \notin Restarting
      BY <3>1, <3>3
    <3>5. Cardinality(Restarting') = Cardinality(Restarting) + 1
      BY <3>4, RestartingFinite, FS_AddElement
    <3> QED BY <3>1, <3>5 DEF CountExact
  <2>3. CASE RestartDone(p)
    <3>1. /\ pc[p] = "uncount"
          /\ restarting' = restarting - 1
          /\ pc' = [pc EXCEPT ![p] = "idle"]
      BY <2>3 DEF RestartDone, Return, Goto
    <3>2. Restarting' = Restarting \ {p} /\ p \in Restarting
      BY <1>0, <3>1 DEF HoldingTypes
    <3>3. Cardinality(Restarting') = Cardinality(Restarting) - 1
      BY <3>2, RestartingFinite, FS_RemoveElement
    <3> QED BY <3>1, <3>3 DEF CountExact
  <2>4. CASE RestartSuppress(p) \/ RestartClose(p) \/ RestartTake(p) \/ RestartCheck(p)
             \/ RestartHandover(p)
    <3>1. /\ pc[p] \in Restart /\ restarting' = restarting
          /\ \E next \in Restart : pc' = [pc EXCEPT ![p] = next]
      BY <2>4 DEF RestartSuppress, RestartClose, RestartTake, RestartCheck, RestartHandover, Goto
    <3>2. Restarting' = Restarting
      BY <1>0, <3>1 DEF HoldingTypes
    <3> QED BY <1>1, <3>1, <3>2
  <2> QED BY <1>2, <2>1, <2>2, <2>3, <2>4 DEF RestartStep
<1>3. ASSUME NEW h \in Handlers, HandlerStep(h)
      PROVE  CountExact'
  <2>1. CASE Add(h) /\ savers = NoRec
    <3>1. /\ created < MaxRecs
          /\ pc[h] = "add"
          /\ restarting' = restarting
          /\ pc' = CronOf(created + 1, [pc EXCEPT ![h] = "idle"])
      BY <2>1 DEF Add, CreateRecorder
    <3>2. created + 1 \in Procs /\ pc[created + 1] = "idle" /\ h \in Procs
      BY <1>0, <3>1, NextIsFresh DEF Holding, Procs
    <3>3. \A q \in Procs : pc'[q] \in Restart <=> pc[q] \in Restart
      BY <1>0, <3>1, <3>2 DEF CronOf, HoldingTypes
    <3> QED BY <1>1, <3>1, <3>3
  <2>2. CASE (Add(h) /\ savers # NoRec) \/ RemoveHas(h) \/ Remove(h) \/ RestartHas(h)
    <3>1. /\ pc[h] \notin Restart /\ restarting' = restarting /\ h \in Procs
          /\ \E next \in {"idle", "remove", "swap"} : pc' = [pc EXCEPT ![h] = next]
      BY <2>2 DEF Add, RemoveHas, Remove, RestartHas, Goto, Procs
    <3>2. Restarting' = Restarting
      BY <1>0, <3>1 DEF HoldingTypes
    <3> QED BY <1>1, <3>1, <3>2
  <2> QED BY <1>3, <2>1, <2>2 DEF HandlerStep
<1>4. ASSUME NEW r \in Recs, CronCheck(r) \/ RunStep(r) \/ RunPanic(r) \/ Age(r)
      PROVE  CountExact'
  <2>1. CASE CronCheck(r)
    <3>1. /\ pc[r] = "timer" /\ restarting' = restarting /\ r \in Procs
          /\ \E next \in {"idle", "swap"} : pc' = [pc EXCEPT ![r] = next]
      BY <2>1 DEF CronCheck, Goto, Procs
    <3>2. Restarting' = Restarting
      BY <1>0, <3>1 DEF HoldingTypes
    <3> QED BY <1>1, <3>1, <3>2
  <2>2. CASE RunStep(r) \/ RunPanic(r) \/ Age(r)
    <3>1. pc' = pc /\ restarting' = restarting
      BY <2>2 DEF RunStep, RunPanic, RunSegment, RunLeave, RunSummary, RunDone, Age
    <3> QED BY <1>1, <3>1
  <2> QED BY <1>4, <2>1, <2>2
<1>5. ASSUME NEW h \in Handlers, NEW op \in {"add", "remove_has", "restart_has"}, Begin(h, op)
      PROVE  CountExact'
  <2>1. pc[h] = "idle" /\ pc' = [pc EXCEPT ![h] = op] /\ restarting' = restarting /\ h \in Procs
    BY <1>5 DEF Begin, Goto, Procs
  <2>2. Restarting' = Restarting
    BY <1>0, <2>1 DEF HoldingTypes
  <2> QED BY <1>1, <2>1, <2>2
<1>6. CASE Shutdown \/ UNCHANGED vars
  BY <1>1, <1>6 DEF Shutdown, vars
<1> QED BY <1>2, <1>3, <1>4, <1>5, <1>6 DEF Next, ManagerNext

LEMMA Invariance == Spec => []IInv
<1>1. IInv /\ [Next]_vars => IInv'
  BY NextTypeOK, NextHolding, NextCount DEF IInv, Holding
<1> QED BY <1>1, InitIInv, PTL DEF Spec

------------------------------------------------------------------------------
\* Every variable keeps its type, whatever overlaps.
THEOREM TypeCorrect == Spec => []TypeOK
<1>1. IInv => TypeOK
  BY DEF IInv
<1> QED BY <1>1, Invariance, PTL

\* No recorder is leaked and none is closed by two restarts, however restarts,
\* removals and the shutdown overlap (RestartRecorder swaps under one hold of m.lock).
THEOREM NoRecorderIsLeaked == Spec => []NoLeakedRecorder
<1>1. IInv => NoLeakedRecorder
  BY DEF IInv, RunningOwned, OldDistinct, Restarting, NoLeakedRecorder
<1> QED BY <1>1, Invariance, PTL

\* Whatever chains ended meanwhile, the room's recorder has its own chain waiting.
THEOREM SplitChainStaysAlive == Spec => []SplitChainAlive
<1>1. IInv => SplitChainAlive
  BY DEF IInv
<1> QED BY <1>1, Invariance, PTL

\* The recorders at work are the room's and those that restarts hold.
LEMMA ActiveIsCounted == IInv => ActiveNeverMissed
<1> SUFFICES ASSUME IInv PROVE Cardinality(Active) <= ActiveCount
  BY DEF ActiveNeverMissed
<1> DEFINE f == [p \in Restarting |-> old[p]]
           Olds == {old[p] : p \in Restarting}
<1>1. f \in Surjection(Restarting, Olds)
  BY DEF Surjection
<1>2. IsFiniteSet(Olds) /\ Cardinality(Olds) <= Cardinality(Restarting)
  BY <1>1, RestartingFinite, FS_Surjection
<1>3. /\ Cardinality(Restarting) \in Nat /\ Cardinality(Olds) \in Nat
      /\ restarting = Cardinality(Restarting)
  BY <1>2, RestartingFinite, FS_CardinalityType DEF IInv, CountExact
<1>4. Active \subseteq Olds \cup {savers}
  BY DEF Active, IInv, RunningOwned, Restarting, Restart
<1>5. CASE savers = NoRec
  <2>1. Active \subseteq Olds
    BY <1>4, <1>5, ConstantsAssumption DEF Active
  <2>2. Cardinality(Active) <= Cardinality(Olds)
    BY <1>2, <2>1, FS_Subset
  <2>3. Cardinality(Active) \in Nat
    BY <1>2, <2>1, FS_Subset, FS_CardinalityType
  <2> QED BY <1>2, <1>3, <1>5, <2>2, <2>3 DEF ActiveCount
<1>6. CASE savers # NoRec
  <2>1. IsFiniteSet(Olds \cup {savers}) /\ Cardinality(Olds \cup {savers}) <= Cardinality(Olds) + 1
    BY <1>2, <1>3, FS_AddElement
  <2>2. Cardinality(Active) <= Cardinality(Olds \cup {savers})
    BY <1>4, <2>1, FS_Subset
  <2>3. Cardinality(Active) \in Nat /\ Cardinality(Olds \cup {savers}) \in Nat
    BY <1>4, <2>1, FS_Subset, FS_CardinalityType
  <2> QED BY <1>2, <1>3, <1>6, <2>1, <2>2, <2>3 DEF ActiveCount
<1> QED BY <1>5, <1>6

\* GetActiveRecordingsCount never misses a recorder at work, with any number of
\* restarts in flight: the claim of the comment on restartingCount.
THEOREM ActiveRecordersAreCounted == Spec => []ActiveNeverMissed
BY ActiveIsCounted, Invariance, PTL
------------------------------------------------------------------------------
(* Where the segments are *)

(***************************************************************************)
(* A recorder that has not sent its summary has sent nothing; one that     *)
(* was told not to send it is waited for, until its files are taken; only  *)
(* a restart between taking and handing over carries files.  Hence neither *)
(* a summary nor the files of a restart overwrite what they held before.   *)
(***************************************************************************)
SegIInv ==
    /\ SegmentsAccounted
    /\ \A r \in Recs : run[r] \in {"none", "loop", "summary"} => sent[r] = <<>>
    /\ \A r \in suppress : run[r] # "done" => ToBeTaken(r)
    /\ \A p \in Procs : pc[p] \notin {"check", "handover"} => carried[p] = <<>>
    /\ \A r \in 1..created : run[r] # "none"

LEMMA ElementsOfEmpty == Elements(<<>>) = {}
BY DEF Elements

LEMMA ElementsOfAppend ==
    ASSUME NEW seq \in Seq(Recs), NEW r \in Recs
    PROVE  Elements(Append(seq, r)) = Elements(seq) \cup {r}
BY DEF Elements

LEMMA ElementsOfConcat ==
    ASSUME NEW seq \in Seq(Recs), NEW tail \in Seq(Recs)
    PROVE  Elements(seq \o tail) = Elements(seq) \cup Elements(tail)
<1>1. Elements(seq \o tail) \subseteq Elements(seq) \cup Elements(tail)
  BY DEF Elements
<1>2. Elements(seq) \subseteq Elements(seq \o tail)
  BY DEF Elements
<1>3. ASSUME NEW i \in 1..Len(tail)
      PROVE  tail[i] \in Elements(seq \o tail)
  <2>1. (seq \o tail)[Len(seq) + i] = tail[i] /\ Len(seq) + i \in 1..Len(seq \o tail)
    OBVIOUS
  <2> QED BY <2>1 DEF Elements
<1> QED BY <1>1, <1>2, <1>3 DEF Elements

LEMMA InitSegIInv == Init => SegIInv
BY ConstantsAssumption DEF Init, SegIInv, SegmentsAccounted, Recs, Procs

\* A step that leaves the files where they are, and whose recorders stay unreported and
\* are still waited for.
LEMMA MoveSegments ==
    ASSUME TypeOK, SegIInv, UNCHANGED <<files, recorded, sent, carried, skipped, late, suppress>>,
           \A r \in Recs : run[r] \in {"loop", "summary"} => run'[r] \in {"loop", "summary"},
           \A r \in Recs : run'[r] \in {"none", "loop", "summary"}
                                => run[r] \in {"none", "loop", "summary"},
           \A r \in Recs : run'[r] # "done" => run[r] # "done",
           \A r \in Recs : ToBeTaken(r) => ToBeTaken(r)',
           \A p \in Procs : pc'[p] \notin {"check", "handover"} =>
                                pc[p] \notin {"check", "handover"},
           \A r \in 1..created' : run'[r] # "none"
    PROVE  SegIInv'
<1>1. \A r \in Recs : Unreported(r) \subseteq Unreported(r)'
  BY DEF Unreported
<1>2. SegmentsAccounted'
  BY <1>1 DEF SegmentsAccounted, SegIInv
<1> QED BY <1>2 DEF SegIInv, TypeOK

LEMMA NextSegments == IInv /\ SegIInv /\ [Next]_vars => SegIInv'
<1> SUFFICES ASSUME IInv, SegIInv, [Next]_vars PROVE SegIInv'
  OBVIOUS
<1>0. TypeOK /\ HoldingTypes /\ Recs \subseteq Procs /\ Handlers \subseteq Procs
  BY DEF IInv, TypeOK, HoldingTypes, Procs
<1>1. ASSUME CreateRecorder
      PROVE  /\ created + 1 \in Recs /\ created + 1 \in Procs
             /\ pc[created + 1] = "idle" /\ run[created + 1] = "none"
             /\ \A r \in Recs : run'[r] = IF r = created + 1 THEN "loop" ELSE run[r]
             /\ \A r \in 1..created' : run'[r] # "none"
  <2>1. created < MaxRecs /\ created' = created + 1
        /\ run' = [run EXCEPT ![created + 1] = "loop"]
    BY <1>1 DEF CreateRecorder
  <2>2. created + 1 \in Recs /\ created + 1 \in Procs /\ pc[created + 1] = "idle"
    BY <1>0, <2>1, NextIsFresh DEF IInv
  <2>3. run[created + 1] = "none"
    BY <1>0, <2>2 DEF IInv, FreshUntouched, HoldingTypes
  <2> QED BY <1>0, <2>1, <2>2, <2>3 DEF SegIInv, HoldingTypes, Recs
<1>2. ASSUME NEW p \in Procs, RestartStep(p)
      PROVE  SegIInv'
  <2>1. CASE Swap(p) /\ savers # NoRec
    <3>1. /\ pc[p] = "swap"
          /\ CreateRecorder
          /\ old' = [old EXCEPT ![p] = savers]
          /\ pc' = CronOf(created + 1, [pc EXCEPT ![p] = "suppress"])
          /\ UNCHANGED <<files, recorded, suppress, carried, sent, skipped, late>>
      BY <2>1 DEF Swap, observerVars
    <3>2. \A q \in Procs : pc'[q] # pc[q] => \/ q = p /\ pc'[q] = "suppress"
                                             \/ q = created + 1 /\ pc'[q] = "timer"
      BY <1>0, <1>1, <3>1 DEF CronOf, HoldingTypes
    <3>3. \A r \in Recs : ToBeTaken(r) => ToBeTaken(r)'
      BY <1>0, <1>1, <3>1, <3>2 DEF ToBeTaken, HoldingTypes
    <3>4. \A q \in Procs : pc'[q] \notin {"check", "handover"} => pc[q] \notin {"check", "handover"}
      BY <1>1, <3>1, <3>2
    <3> QED BY <1>0, <1>1, <3>1, <3>3, <3>4, MoveSegments
  <2>2. CASE (Swap(p) /\ savers = NoRec) \/ RestartClose(p) \/ RestartDone(p)
    <3>1. /\ UNCHANGED <<created, run, files, recorded, suppress, sent, skipped, late>>
          /\ \/ pc[p] = "swap" /\ pc' = [pc EXCEPT ![p] = "idle"] /\ UNCHANGED <<old, carried>>
             \/ pc[p] = "close" /\ pc' = [pc EXCEPT ![p] = "wait"] /\ UNCHANGED <<old, carried>>
             \/ /\ pc[p] = "uncount" /\ pc' = [pc EXCEPT ![p] = "idle"]
                /\ old' = [old EXCEPT ![p] = NoRec] /\ carried' = [carried EXCEPT ![p] = <<>>]
      BY <2>2 DEF Swap, RestartClose, RestartDone, Return, Goto, managerVars, recorderVars,
        observerVars
    <3>2. carried' = carried
      <4>1. pc[p] = "uncount" => carried[p] = <<>>
        BY DEF SegIInv
      <4> QED BY <1>0, <3>1, <4>1 DEF TypeOK
    <3>3. \A r \in Recs : ToBeTaken(r) => ToBeTaken(r)'
      BY <1>0, <3>1 DEF ToBeTaken, HoldingTypes
    <3>4. \A q \in Procs : pc'[q] \notin {"check", "handover"} => pc[q] \notin {"check", "handover"}
      BY <1>0, <3>1 DEF HoldingTypes
    <3>5. \A r \in 1..created' : run'[r] # "none"
      BY <3>1 DEF SegIInv
    <3> QED BY <1>0, <3>1, <3>2, <3>3, <3>4, <3>5, MoveSegments
  <2>3. CASE RestartSuppress(p)
    <3>1. /\ pc[p] = "suppress" /\ pc' = [pc EXCEPT ![p] = "close"]
          /\ suppress' = suppress \cup {old[p]}
          /\ UNCHANGED <<created, run, files, recorded, old, carried, sent, skipped, late>>
      BY <2>3 DEF RestartSuppress, Goto, managerVars, observerVars
    <3>2. \A r \in Recs : ToBeTaken(r) => ToBeTaken(r)'
      BY <1>0, <3>1 DEF ToBeTaken, HoldingTypes
    <3>3. ToBeTaken(old[p])'
      BY <1>0, <3>1 DEF ToBeTaken, HoldingTypes
    <3>4. SegmentsAccounted'
      BY <3>1, <3>2 DEF SegIInv, SegmentsAccounted, Unreported
    <3>5. \A r \in suppress' : run'[r] # "done" => ToBeTaken(r)'
      BY <1>0, <3>1, <3>2, <3>3 DEF SegIInv, TypeOK
    <3> QED BY <1>0, <3>1, <3>4, <3>5 DEF SegIInv, HoldingTypes
  <2>4. CASE RestartTake(p)
    <3>1. /\ pc[p] = "wait" /\ run[old[p]] = "done"
          /\ carried' = [carried EXCEPT ![p] = files[old[p]]]
          /\ pc' = [pc EXCEPT ![p] = IF files[old[p]] = <<>> THEN "uncount" ELSE "check"]
          /\ UNCHANGED <<created, run, files, recorded, suppress, old, sent, skipped, late>>
      BY <2>4 DEF RestartTake, Goto, managerVars, recorderVars, observerVars
    <3>2. carried[p] = <<>> /\ carried'[p] = files[old[p]]
          /\ \A q \in Procs : q # p => carried'[q] = carried[q] /\ pc'[q] = pc[q]
      BY <1>0, <3>1 DEF SegIInv, TypeOK
    <3>3. \A r \in Recs : r # old[p] /\ ToBeTaken(r) => ToBeTaken(r)'
      BY <3>1, <3>2 DEF ToBeTaken
    <3>4. \A r \in Recs : r # old[p] => Unreported(r) \subseteq Unreported(r)'
      BY <3>1, <3>3 DEF Unreported
    <3>5. Unreported(old[p]) \subseteq Elements(carried'[p])
      BY <3>1, <3>2, ElementsOfEmpty DEF Unreported
    <3>6. SegmentsAccounted'
      BY <3>1, <3>2, <3>4, <3>5, ElementsOfEmpty DEF SegIInv, SegmentsAccounted
    <3>7. \A q \in Procs : pc'[q] \notin {"check", "handover"} => carried'[q] = <<>>
      BY <1>0, <3>1, <3>2 DEF SegIInv, HoldingTypes
    <3>8. \A r \in suppress' : run'[r] # "done" => ToBeTaken(r)'
      BY <1>0, <3>1, <3>3 DEF SegIInv, TypeOK
    <3> QED BY <3>1, <3>6, <3>7, <3>8 DEF SegIInv
  <2>5. CASE RestartCheck(p) /\ savers = new[p]
    <3>1. /\ pc[p] = "check" /\ pc' = [pc EXCEPT ![p] = "handover"]
          /\ UNCHANGED <<created, run, files, recorded, suppress, old, carried, sent, skipped,
               late>>
      BY <2>5 DEF RestartCheck, Goto, managerVars, recorderVars
    <3>2. \A r \in Recs : ToBeTaken(r) => ToBeTaken(r)'
      BY <1>0, <3>1 DEF ToBeTaken, HoldingTypes
    <3>3. \A q \in Procs : pc'[q] \notin {"check", "handover"} => pc[q] \notin {"check", "handover"}
      BY <1>0, <3>1 DEF HoldingTypes
    <3>4. \A r \in 1..created' : run'[r] # "none"
      BY <3>1 DEF SegIInv
    <3> QED BY <1>0, <3>1, <3>2, <3>3, <3>4, MoveSegments
  <2>6. CASE RestartCheck(p) /\ savers # new[p]
    <3>1. /\ pc[p] = "check" /\ pc' = [pc EXCEPT ![p] = "uncount"]
          /\ skipped' = skipped \cup Elements(carried[p])
          /\ carried' = [carried EXCEPT ![p] = <<>>]
          /\ UNCHANGED <<created, run, files, recorded, suppress, old, sent, late>>
      BY <2>6 DEF RestartCheck, Goto, managerVars, recorderVars
    <3>2. \A r \in Recs : ToBeTaken(r) => ToBeTaken(r)'
      BY <1>0, <3>1 DEF ToBeTaken, HoldingTypes
    <3>3. \A r \in Recs : Unreported(r) \subseteq Unreported(r)'
      BY <3>1, <3>2 DEF Unreported
    <3>4. \A q \in Procs : Elements(carried[q]) \subseteq Elements(carried'[q]) \cup skipped'
      BY <1>0, <3>1 DEF TypeOK
    <3>5. SegmentsAccounted'
      BY <3>1, <3>3, <3>4 DEF SegIInv, SegmentsAccounted
    <3>6. \A q \in Procs : pc'[q] \notin {"check", "handover"} => carried'[q] = <<>>
      BY <1>0, <3>1 DEF SegIInv, TypeOK
    <3>7. \A r \in suppress' : run'[r] # "done" => ToBeTaken(r)'
      BY <1>0, <3>1, <3>2 DEF SegIInv, TypeOK
    <3> QED BY <3>1, <3>5, <3>6, <3>7 DEF SegIInv
  <2>7. CASE RestartHandover(p)
    <3>0. PICK n : n = new[p]
      OBVIOUS
    <3>1. /\ pc[p] = "handover" /\ pc' = [pc EXCEPT ![p] = "uncount"]
          /\ files' = [files EXCEPT ![n] = carried[p] \o files[n]]
          /\ late' = IF run[n] \in {"exit", "done"} /\ ~ToBeTaken(n)
                     THEN late \cup Elements(carried[p]) ELSE late
          /\ carried' = [carried EXCEPT ![p] = <<>>]
          /\ UNCHANGED <<created, run, recorded, suppress, old, sent, skipped>>
      BY <2>7, <3>0 DEF RestartHandover, HandedOver, Goto, managerVars
    <3>2. n \in Recs /\ n \in 1..created
      BY <1>0, <3>0, <3>1, ConstantsAssumption
         DEF IInv, RestartsHold, Restarting, Restart, HoldingTypes, Recs
    <3>3. run[n] # "none" /\ run[n] \in {"none", "loop", "summary", "exit", "done"}
      BY <1>0, <3>2 DEF SegIInv, HoldingTypes
    <3>4. files'[n] = carried[p] \o files[n] /\ \A r \in Recs : r # n => files'[r] = files[r]
      BY <1>0, <3>1, <3>2 DEF TypeOK
    <3>5. Elements(files'[n]) = Elements(carried[p]) \cup Elements(files[n])
      BY <1>0, <3>2, <3>4, ElementsOfConcat DEF TypeOK
    <3>6. \A r \in Recs : ToBeTaken(r) => ToBeTaken(r)'
      BY <1>0, <3>1 DEF ToBeTaken, HoldingTypes
    <3>7. \A r \in Recs : Elements(files[r]) \subseteq Elements(files'[r])
      BY <3>4, <3>5
    <3>8. \A r \in Recs : Unreported(r) \subseteq Unreported(r)'
      BY <3>1, <3>6, <3>7 DEF Unreported
    <3>9. Elements(carried[p]) \subseteq Unreported(n)' \cup late'
      <4>1. CASE run[n] \in {"exit", "done"} /\ ~ToBeTaken(n)
        BY <3>1, <4>1
      <4>2. CASE ~(run[n] \in {"exit", "done"} /\ ~ToBeTaken(n))
        <5>1. run[n] \in {"loop", "summary"} \/ ToBeTaken(n)'
          BY <3>2, <3>3, <3>6, <4>2
        <5>2. Unreported(n)' = Elements(files'[n])
          BY <3>1, <5>1 DEF Unreported
        <5> QED BY <3>5, <5>2
      <4> QED BY <4>1, <4>2
    <3>10. \A q \in Procs : q # p => carried'[q] = carried[q]
      BY <3>1
    <3>11. late \subseteq late'
      BY <3>1
    <3>12. SegmentsAccounted'
      BY <3>1, <3>2, <3>8, <3>9, <3>10, <3>11 DEF SegIInv, SegmentsAccounted
    <3>13. \A q \in Procs : pc'[q] \notin {"check", "handover"} => carried'[q] = <<>>
      BY <1>0, <3>1 DEF SegIInv, TypeOK
    <3>14. \A r \in suppress' : run'[r] # "done" => ToBeTaken(r)'
      BY <1>0, <3>1, <3>6 DEF SegIInv, TypeOK
    <3> QED BY <3>1, <3>12, <3>13, <3>14 DEF SegIInv
  <2> QED BY <1>2, <2>1, <2>2, <2>3, <2>4, <2>5, <2>6, <2>7 DEF RestartStep
<1>3. ASSUME NEW h \in Handlers, HandlerStep(h)
      PROVE  SegIInv'
  <2>1. CASE Add(h) /\ savers = NoRec
    <3>1. /\ pc[h] = "add"
          /\ CreateRecorder
          /\ pc' = CronOf(created + 1, [pc EXCEPT ![h] = "idle"])
          /\ UNCHANGED <<files, recorded, suppress, old, carried, sent, skipped, late>>
      BY <2>1 DEF Add, observerVars
    <3>2. \A q \in Procs : pc'[q] # pc[q] => \/ q = h /\ pc'[q] = "idle"
                                             \/ q = created + 1 /\ pc'[q] = "timer"
      BY <1>0, <1>1, <3>1 DEF CronOf, HoldingTypes
    <3>3. \A r \in Recs : ToBeTaken(r) => ToBeTaken(r)'
      BY <1>0, <1>1, <3>1, <3>2 DEF ToBeTaken, HoldingTypes
    <3>4. \A q \in Procs : pc'[q] \notin {"check", "handover"} => pc[q] \notin {"check", "handover"}
      BY <1>1, <3>1, <3>2
    <3> QED BY <1>0, <1>1, <3>1, <3>3, <3>4, MoveSegments
  <2>2. CASE (Add(h) /\ savers # NoRec) \/ RemoveHas(h) \/ Remove(h) \/ RestartHas(h)
    <3>1. /\ UNCHANGED <<created, run, files, recorded, suppress, old, carried, sent, skipped,
               late>>
          /\ pc[h] \in {"add", "remove_has", "remove", "restart_has"}
          /\ \E next \in {"idle", "remove", "swap"} : pc' = [pc EXCEPT ![h] = next]
      BY <2>2 DEF Add, RemoveHas, Remove, RestartHas, Goto, managerVars, recorderVars, observerVars
    <3>2. \A r \in Recs : ToBeTaken(r) => ToBeTaken(r)'
      BY <1>0, <3>1 DEF ToBeTaken, HoldingTypes
    <3>3. \A q \in Procs : pc'[q] \notin {"check", "handover"} => pc[q] \notin {"check", "handover"}
      BY <1>0, <3>1 DEF HoldingTypes
    <3>4. \A r \in 1..created' : run'[r] # "none"
      BY <3>1 DEF SegIInv
    <3> QED BY <1>0, <3>1, <3>2, <3>3, <3>4, MoveSegments
  <2> QED BY <1>3, <2>1, <2>2 DEF HandlerStep
<1>4. ASSUME NEW q \in Procs, NEW next \in {"idle", "swap", "add", "remove_has", "restart_has"},
             pc[q] \in {"idle", "timer"}, pc' = [pc EXCEPT ![q] = next],
             UNCHANGED <<created, run, files, recorded, suppress, old, carried, sent, skipped,
               late>>
      PROVE  SegIInv'
  <2>1. \A r \in Recs : ToBeTaken(r) => ToBeTaken(r)'
    BY <1>0, <1>4 DEF ToBeTaken, HoldingTypes
  <2>2. \A p \in Procs : pc'[p] \notin {"check", "handover"} => pc[p] \notin {"check", "handover"}
    BY <1>0, <1>4 DEF HoldingTypes
  <2>3. \A r \in 1..created' : run'[r] # "none"
    BY <1>4 DEF SegIInv
  <2> QED BY <1>0, <1>4, <2>1, <2>2, <2>3, MoveSegments
<1>5. ASSUME NEW r \in Recs, CronCheck(r) \/ RunStep(r) \/ RunPanic(r) \/ Age(r)
      PROVE  SegIInv'
  <2>1. CASE CronCheck(r)
    BY <1>0, <1>4, <2>1 DEF CronCheck, Goto, managerVars, recorderVars, observerVars
  <2>2. CASE RunSegment(r)
    <3>1. /\ run[r] = "loop"
          /\ files' = [files EXCEPT ![r] = Append(@, r)]
          /\ recorded' = recorded \cup {r}
          /\ UNCHANGED <<created, run, suppress, pc, old, carried, sent, skipped, late>>
      BY <2>2 DEF RunSegment, managerVars, callerVars, observerVars
    <3>2. files'[r] = Append(files[r], r) /\ \A q \in Recs : q # r => files'[q] = files[q]
      BY <1>0, <3>1 DEF TypeOK
    <3>3. Elements(files'[r]) = Elements(files[r]) \cup {r}
      BY <1>0, <3>2, ElementsOfAppend DEF TypeOK
    <3>4. \A q \in Recs : ToBeTaken(q)' = ToBeTaken(q)
      BY <3>1 DEF ToBeTaken
    <3>5. \A q \in Recs : Unreported(q) \subseteq Unreported(q)'
      BY <3>1, <3>2, <3>3, <3>4 DEF Unreported
    <3>6. r \in Unreported(r)'
      BY <3>1, <3>3 DEF Unreported
    <3>7. SegmentsAccounted'
      BY <3>1, <3>5, <3>6 DEF SegIInv, SegmentsAccounted
    <3> QED BY <1>0, <3>1, <3>4, <3>7 DEF SegIInv, TypeOK
  <2>3. CASE RunSummary(r)
    <3>1. /\ run[r] = "summary"
          /\ run' = [run EXCEPT ![r] = "exit"]
          /\ sent' = IF r \in suppress THEN sent ELSE [sent EXCEPT ![r] = files[r]]
          /\ UNCHANGED <<created, files, recorded, suppress, pc, old, carried, skipped, late>>
      BY <2>3 DEF RunSummary, managerVars, callerVars
    <3>2. run'[r] = "exit" /\ \A q \in Recs : q # r => run'[q] = run[q] /\ sent'[q] = sent[q]
      BY <1>0, <3>1 DEF TypeOK
    <3>3. \A q \in Recs : ToBeTaken(q)' = ToBeTaken(q)
      BY <3>1 DEF ToBeTaken
    <3>4. \A q \in Recs : q # r => Unreported(q)' = Unreported(q)
      BY <3>1, <3>2, <3>3 DEF Unreported
    <3>5. Unreported(r) \subseteq Unreported(r)' \cup Elements(sent'[r])
      <4>1. CASE r \in suppress
        <5>1. ToBeTaken(r)
          BY <3>1, <4>1 DEF SegIInv
        <5> QED BY <3>1, <3>3, <5>1 DEF Unreported
      <4>2. CASE r \notin suppress
        BY <1>0, <3>1, <4>2 DEF Unreported, TypeOK
      <4> QED BY <4>1, <4>2
    <3>6. \A q \in Recs : Elements(sent[q]) \subseteq Elements(sent'[q])
      BY <3>1, <3>2, ElementsOfEmpty DEF SegIInv
    <3>7. SegmentsAccounted'
      BY <3>1, <3>4, <3>5, <3>6 DEF SegIInv, SegmentsAccounted
    <3>8. \A q \in suppress' : run'[q] # "done" => ToBeTaken(q)'
      BY <1>0, <3>1, <3>2, <3>3 DEF SegIInv, TypeOK
    <3>9. \A q \in 1..created' : run'[q] # "none"
      BY <1>0, <3>1 DEF SegIInv, TypeOK
    <3>10. \A q \in Recs : run'[q] \in {"none", "loop", "summary"} => sent'[q] = <<>>
      BY <3>1, <3>2 DEF SegIInv
    <3> QED BY <3>1, <3>7, <3>8, <3>9, <3>10 DEF SegIInv
  <2>4. CASE RunLeave(r) \/ RunPanic(r) \/ RunDone(r) \/ Age(r)
    <3>1. /\ UNCHANGED <<created, files, recorded, suppress, pc, old, carried, sent, skipped, late>>
          /\ \/ run' = run
             \/ run[r] = "loop" /\ run' = [run EXCEPT ![r] = "summary"]
             \/ run[r] = "exit" /\ run' = [run EXCEPT ![r] = "done"]
      BY <2>4 DEF RunLeave, RunPanic, RunDone, Age, managerVars, callerVars, observerVars
    <3>2. \A q \in Recs : ToBeTaken(q) => ToBeTaken(q)'
      BY <3>1 DEF ToBeTaken
    <3>3. \A q \in 1..created' : run'[q] # "none"
      <4>1. /\ run \in [Recs -> {"none", "loop", "summary", "exit", "done"}]
            /\ \A q \in 1..created : run[q] # "none"
        BY <1>0 DEF SegIInv, TypeOK
      <4>2. 1..created \subseteq Recs
        BY <1>0, ConstantsAssumption DEF TypeOK, Recs
      <4> QED BY <3>1, <4>1, <4>2
    <3>4. \A q \in Recs : \/ run'[q] = run[q]
                          \/ run[q] = "loop" /\ run'[q] = "summary"
                          \/ run[q] = "exit" /\ run'[q] = "done"
      BY <1>0, <3>1 DEF TypeOK
    <3> QED BY <1>0, <3>1, <3>2, <3>3, <3>4, MoveSegments
  <2> QED BY <1>5, <2>1, <2>2, <2>3, <2>4 DEF RunStep
<1>6. ASSUME NEW h \in Handlers, NEW op \in {"add", "remove_has", "restart_has"}, Begin(h, op)
      PROVE  SegIInv'
  BY <1>0, <1>4, <1>6 DEF Begin, Goto, managerVars, recorderVars, observerVars
<1>7. CASE Shutdown \/ UNCHANGED vars
  <2>1. UNCHANGED <<created, run, files, recorded, suppress, pc, old, carried, sent, skipped, late>>
    BY <1>7 DEF Shutdown, vars, managerVars, recorderVars, callerVars, observerVars
  <2>2. \A q \in Recs : ToBeTaken(q) => ToBeTaken(q)'
    BY <2>1 DEF ToBeTaken
  <2>3. \A r \in 1..created' : run'[r] # "none"
    BY <2>1 DEF SegIInv
  <2> QED BY <1>0, <2>1, <2>2, <2>3, MoveSegments
<1> QED BY <1>2, <1>3, <1>5, <1>6, <1>7 DEF Next, ManagerNext

\* Every complete segment is listed, on its way, in a summary, or among the losses
\* that are named: no order of restarts, removals and panics loses one elsewhere.
THEOREM SegmentsAreAccounted == Spec => []SegmentsAccounted
<1>1. SegIInv => SegmentsAccounted
  BY DEF SegIInv
<1> QED BY <1>1, InitSegIInv, NextSegments, Invariance, PTL DEF Spec

------------------------------------------------------------------------------
(* The order of summaries, when tryRecord does not panic *)

Increasing(seq) == \A i, j \in 1..Len(seq) : i < j => seq[i] < seq[j]

\* A recorder that a restart is about to close still runs, and so has sent nothing; hence
\* it sends nothing once its summary is suppressed. A panic ends a goroutine before its
\* recorder is closed, and lets both happen.
RunsIInv ==
    /\ savers # NoRec => state[savers] = "running"
    /\ \A r \in Recs : state[r] = "running" => run[r] = "loop"
    /\ \A p \in Restarting : new[p] = old[p] + 1
    /\ \A p \in Procs : pc[p] \in {"suppress", "close"} => state[old[p]] = "running"
    /\ \A p \in Procs : pc[p] \in {"close", "wait"} => old[p] \in suppress
    /\ \A r \in suppress : sent[r] = <<>>

\* A restart that has not handed over.
Before == Restart \ {"uncount"}

\* A list has the segments of older recorders before those of its own, and a recorder that
\* waits for the hand-over has no other segment than its own.
InOrder ==
    /\ \A r \in Recs : Increasing(files[r]) /\ Elements(files[r]) \subseteq 1..r
    /\ \A p \in Procs : /\ Increasing(carried[p])
                        /\ carried[p] # <<>> => Elements(carried[p]) \subseteq 1..old[p]
    /\ \A r \in Recs : Increasing(sent[r])
    /\ \A p \in Procs : pc[p] \in Before => Elements(files[new[p]]) \subseteq {new[p]}
    /\ \A r \in Recs : r > created => files[r] = <<>>

\* Only complete segments are listed.
Complete ==
    /\ \A r \in Recs : Elements(files[r]) \subseteq recorded
    /\ \A p \in Procs : Elements(carried[p]) \subseteq recorded
    /\ \A r \in Recs : Elements(sent[r]) \subseteq recorded

\* Where a complete segment may be: in a list that is still to be reported, on its way with
\* a restart, or in a summary.
Places == ({"list", "summary"} \X Recs) \cup ({"way"} \X Procs)

contents ==
    [x \in Places |->
        IF x[1] = "list" THEN Unreported(x[2])
        ELSE IF x[1] = "summary" THEN Elements(sent[x[2]]) ELSE Elements(carried[x[2]])]

\* A segment is at one place.
Disjoint(held) == \A x, y \in Places : x # y => held[x] \cap held[y] = {}

Once == Disjoint(contents)

SumIInv == RunsIInv /\ InOrder /\ Complete /\ Once

LEMMA IncreasingAppend ==
    ASSUME NEW seq \in Seq(Recs), NEW r \in Recs, Increasing(seq), Elements(seq) \subseteq 1..r,
           r \notin Elements(seq)
    PROVE  Increasing(Append(seq, r))
<1>1. \A i \in 1..Len(seq) : seq[i] \in Elements(seq) /\ seq[i] < r
  BY DEF Elements, Recs
<1> QED BY <1>1 DEF Increasing, Recs

LEMMA IncreasingConcat ==
    ASSUME NEW s \in Seq(Recs), NEW t \in Seq(Recs), Increasing(s), Increasing(t),
           \A a \in Elements(s), b \in Elements(t) : a < b
    PROVE  Increasing(s \o t)
<1> SUFFICES ASSUME NEW i \in 1..Len(s \o t), NEW j \in 1..Len(s \o t), i < j
             PROVE  (s \o t)[i] < (s \o t)[j]
    BY DEF Increasing
<1>1. i \in 1..(Len(s) + Len(t)) /\ j \in 1..(Len(s) + Len(t))
  OBVIOUS
<1>2. CASE j <= Len(s)
  BY <1>1, <1>2 DEF Increasing
<1>3. CASE i > Len(s)
  <2>1. i - Len(s) \in 1..Len(t) /\ j - Len(s) \in 1..Len(t) /\ i - Len(s) < j - Len(s)
    BY <1>1, <1>3
  <2> QED BY <1>1, <1>3, <2>1 DEF Increasing
<1>4. CASE i <= Len(s) /\ j > Len(s)
  <2>1. s[i] \in Elements(s) /\ t[j - Len(s)] \in Elements(t)
    BY <1>1, <1>4 DEF Elements
  <2> QED BY <1>1, <1>4, <2>1
<1> QED BY <1>1, <1>2, <1>3, <1>4

LEMMA InitSumIInv == Init => SumIInv
<1> SUFFICES ASSUME Init PROVE SumIInv
  OBVIOUS
<1>1. \A p \in Procs : carried[p] = <<>> /\ pc[p] = "idle"
  BY DEF Init
<1>2. \A r \in Recs : files[r] = <<>> /\ sent[r] = <<>> /\ state[r] = "none" /\ run[r] = "none"
  BY DEF Init
<1>3. Increasing(<<>>)
  BY DEF Increasing
<1>4. savers = NoRec /\ suppress = {} /\ Restarting = {}
  BY <1>1 DEF Init, Restarting, Restart
<1>5. RunsIInv /\ InOrder /\ Complete
  BY <1>1, <1>2, <1>3, <1>4, ElementsOfEmpty DEF RunsIInv, InOrder, Complete, Before, Restart
<1>6. \A x \in Places : contents[x] = {}
  BY <1>1, <1>2, ElementsOfEmpty DEF contents, Places, Unreported
<1> QED BY <1>5, <1>6 DEF SumIInv, Once, Disjoint

LEMMA NextRuns == ~Panics /\ IInv /\ SegIInv /\ RunsIInv /\ [Next]_vars => RunsIInv'
<1> SUFFICES ASSUME ~Panics, IInv, SegIInv, RunsIInv, [Next]_vars PROVE RunsIInv'
  OBVIOUS
<1>0. TypeOK /\ HoldingTypes /\ Recs \subseteq Procs /\ Handlers \subseteq Procs
  BY DEF IInv, TypeOK, HoldingTypes, Procs
<1>1. ASSUME CreateRecorder
      PROVE  /\ created + 1 \in Recs /\ created + 1 \in Procs /\ created + 1 # NoRec
             /\ pc[created + 1] = "idle" /\ savers' = created + 1 /\ created' = created + 1
             /\ \A r \in Recs : run'[r] = IF r = created + 1 THEN "loop" ELSE run[r]
             /\ \A r \in Recs : state'[r] = IF r = created + 1 THEN "running" ELSE state[r]
  <2>1. created < MaxRecs /\ created' = created + 1 /\ savers' = created + 1
        /\ run' = [run EXCEPT ![created + 1] = "loop"]
        /\ state' = [state EXCEPT ![created + 1] = "running"]
    BY <1>1 DEF CreateRecorder
  <2>2. /\ created + 1 \in Recs /\ created + 1 \in Procs /\ created + 1 # NoRec
        /\ pc[created + 1] = "idle"
    BY <1>0, <2>1, NextIsFresh DEF IInv
  <2> QED BY <1>0, <2>1, <2>2 DEF HoldingTypes
\* a recorder that a restart holds is an older one, and not that of another restart
<1>2. /\ \A p \in Restarting : old[p] \in Recs /\ old[p] # created + 1 /\ old[p] # created
      /\ \A p, q \in Restarting : p # q => old[p] # old[q]
  <2>1. \A p \in Restarting : old[p] \in 1..(created - 1) /\ created \in 0..MaxRecs
    BY <1>0 DEF IInv, RestartsHold, HoldingTypes
  <2>2. MaxRecs \in Nat
    BY ConstantsAssumption
  <2>3. \A p \in Restarting : old[p] \in Recs /\ old[p] # created + 1 /\ old[p] # created
    BY <2>1, <2>2 DEF Recs
  <2> QED BY <2>3 DEF IInv, OldDistinct
<1>3. savers # NoRec => savers = created
  BY DEF IInv, SaverIsYoungest
<1> USE DEF Restarting, Restart
<1>4. ASSUME NEW p \in Procs, RestartStep(p)
      PROVE  RunsIInv'
  <2>1. CASE Swap(p) /\ savers # NoRec
    <3>1. /\ pc[p] = "swap" /\ CreateRecorder
          /\ old' = [old EXCEPT ![p] = savers]
          /\ new' = [new EXCEPT ![p] = created + 1]
          /\ pc' = CronOf(created + 1, [pc EXCEPT ![p] = "suppress"])
          /\ UNCHANGED <<suppress, sent>>
      BY <2>1 DEF Swap, observerVars
    <3>2. /\ pc'[p] = "suppress" /\ old'[p] = created /\ new'[p] = created + 1
          /\ pc'[created + 1] \in {"idle", "timer"} /\ p # created + 1
          /\ \A q \in Procs : q # p => old'[q] = old[q] /\ new'[q] = new[q]
          /\ \A q \in Procs : q # p /\ q # created + 1 => pc'[q] = pc[q]
      BY <1>0, <1>1, <1>3, <2>1, <3>1 DEF CronOf, HoldingTypes
    <3>3. created \in Recs /\ created \in Int /\ state[created] = "running" /\ created # created + 1
      BY <1>0, <1>3, <2>1 DEF RunsIInv, HoldingTypes, Recs
    <3>4. \A q \in Procs : pc'[q] \in Restart => q = p \/ (pc[q] = pc'[q] /\ q # created + 1)
      BY <3>2
    <3>5. \A q \in Procs : pc'[q] \in {"suppress", "close"} => state'[old'[q]] = "running"
      <4> SUFFICES ASSUME NEW q \in Procs, pc'[q] \in {"suppress", "close"}
                   PROVE  state'[old'[q]] = "running"
        OBVIOUS
      <4>1. CASE q = p
        BY <1>1, <3>1, <3>2, <3>3, <4>1
      <4>2. CASE q # p
        <5>1. pc[q] \in {"suppress", "close"} /\ old'[q] = old[q] /\ old[q] \in Recs
              /\ old[q] # created + 1 /\ state[old[q]] = "running"
          BY <1>2, <3>2, <3>4, <4>2 DEF RunsIInv
        <5> QED BY <1>1, <3>1, <5>1
      <4> QED BY <4>1, <4>2
    <3>6. \A q \in Restarting' : new'[q] = old'[q] + 1
      BY <3>2, <3>4 DEF RunsIInv
    <3>7. \A q \in Procs : pc'[q] \in {"close", "wait"} => old'[q] \in suppress'
      <4>1. \A q \in Procs : pc'[q] \in {"close", "wait"}
                => q # p /\ pc[q] \in {"close", "wait"} /\ old'[q] = old[q]
        BY <3>2, <3>4
      <4>2. suppress' = suppress
        BY <3>1
      <4> QED BY <4>1, <4>2 DEF RunsIInv
    <3>8. savers' # NoRec => state'[savers'] = "running"
      BY <1>1, <3>1
    <3>9. \A r \in Recs : state'[r] = "running" => run'[r] = "loop"
      BY <1>1, <3>1 DEF RunsIInv
    <3> QED BY <3>1, <3>5, <3>6, <3>7, <3>8, <3>9 DEF RunsIInv
  <2>2. CASE (Swap(p) /\ savers = NoRec) \/ RestartDone(p)
    <3>1. /\ UNCHANGED <<savers, state, run, suppress, sent>>
          /\ pc' = [pc EXCEPT ![p] = "idle"]
          /\ \A q \in Procs : q # p => old'[q] = old[q] /\ new'[q] = new[q]
      BY <1>0, <2>2 DEF Swap, RestartDone, Return, Goto, managerVars, recorderVars, observerVars,
         HoldingTypes
    <3>2. pc'[p] = "idle" /\ \A q \in Procs : q # p => pc'[q] = pc[q]
      BY <1>0, <3>1 DEF HoldingTypes
    <3> QED BY <3>1, <3>2 DEF RunsIInv
  <2>3. CASE RestartSuppress(p)
    <3>1. /\ pc[p] = "suppress" /\ pc' = [pc EXCEPT ![p] = "close"]
          /\ suppress' = suppress \cup {old[p]}
          /\ UNCHANGED <<savers, state, run, old, new, sent>>
      BY <2>3 DEF RestartSuppress, Goto, managerVars, observerVars
    <3>2. pc'[p] = "close" /\ \A q \in Procs : q # p => pc'[q] = pc[q]
      BY <1>0, <3>1 DEF HoldingTypes
    <3>3. sent[old[p]] = <<>>
      <4>1. old[p] \in Recs /\ state[old[p]] = "running"
        BY <1>2, <3>1 DEF RunsIInv
      <4>2. run[old[p]] = "loop"
        BY <4>1 DEF RunsIInv
      <4> QED BY <4>1, <4>2 DEF SegIInv
    <3> QED BY <3>1, <3>2, <3>3 DEF RunsIInv
  <2>4. CASE RestartClose(p)
    <3>1. /\ pc[p] = "close" /\ pc' = [pc EXCEPT ![p] = "wait"]
          /\ state' = [state EXCEPT ![old[p]] = "stopped"]
          /\ UNCHANGED <<savers, run, suppress, old, new, sent>>
      BY <2>4 DEF RestartClose, Closed, Goto, managerVars, observerVars
    <3>2. pc'[p] = "wait" /\ \A q \in Procs : q # p => pc'[q] = pc[q]
      BY <1>0, <3>1 DEF HoldingTypes
    <3>3. old[p] \in Recs /\ old[p] # created /\ \A q \in Procs : pc[q] \in Restart /\ q # p
            => old[q] # old[p]
      BY <1>2, <3>1
    <3>4. \A r \in Recs : state'[r] = IF r = old[p] THEN "stopped" ELSE state[r]
      BY <1>0, <3>1, <3>3 DEF HoldingTypes
    <3>5. \A q \in Procs : pc[q] \in Restart => old[q] \in Recs
      BY <1>2
    <3>6. savers' # NoRec => state'[savers'] = "running"
      BY <1>0, <1>3, <3>1, <3>3, <3>4 DEF RunsIInv, HoldingTypes
    <3>7. \A q \in Procs : pc'[q] \in {"suppress", "close"} => state'[old'[q]] = "running"
      BY <3>1, <3>2, <3>3, <3>4, <3>5 DEF RunsIInv
    <3> QED BY <3>1, <3>2, <3>4, <3>6, <3>7 DEF RunsIInv
  <2>5. CASE RestartTake(p) \/ RestartCheck(p) \/ RestartHandover(p)
    <3>1. /\ pc[p] \in {"wait", "check", "handover"}
          /\ \E next \in {"uncount", "check", "handover"} : pc' = [pc EXCEPT ![p] = next]
          /\ UNCHANGED <<savers, state, run, suppress, old, new, sent>>
      BY <2>5 DEF RestartTake, RestartCheck, RestartHandover, Goto, managerVars, recorderVars,
         observerVars
    <3>2. pc'[p] \in {"uncount", "check", "handover"} /\ \A q \in Procs : q # p => pc'[q] = pc[q]
      BY <1>0, <3>1 DEF HoldingTypes
    <3> QED BY <3>1, <3>2 DEF RunsIInv
  <2> QED BY <1>4, <2>1, <2>2, <2>3, <2>4, <2>5 DEF RestartStep
<1>5. ASSUME NEW q \in Procs,
             pc[q] \notin Restart /\ (pc' = pc \/ \E next : next \notin Restart
                                                    /\ pc' = [pc EXCEPT ![q] = next]),
             UNCHANGED <<suppress, old, new, sent>>,
             \/ UNCHANGED <<savers, state, run>>
             \/ savers' = NoRec /\ savers # NoRec /\ state' = Closed(savers) /\ run' = run
      PROVE  RunsIInv'
  <2>1. \A p \in Procs : pc'[p] \in Restart => pc[p] \in Restart /\ pc'[p] = pc[p]
    BY <1>0, <1>5 DEF HoldingTypes
  <2>2. \A p \in Procs : pc[p] \in Restart => old[p] \in Recs /\ old[p] # created
    BY <1>2
  <2>3. \A r \in Recs : state'[r] # state[r] => savers # NoRec /\ r = created /\
          state'[r] = "stopped"
    BY <1>0, <1>3, <1>5 DEF Closed, HoldingTypes
  <2>4. savers' # NoRec => savers' = savers /\ state' = state
    BY <1>5
  <2>5. \A p \in Procs : pc'[p] \in {"suppress", "close"} => state'[old'[p]] = "running"
    BY <1>5, <2>1, <2>2, <2>3 DEF RunsIInv
  <2>6. \A r \in Recs : state'[r] = "running" => run'[r] = "loop"
    BY <1>5, <2>3 DEF RunsIInv
  <2> QED BY <1>5, <2>1, <2>4, <2>5, <2>6 DEF RunsIInv
<1>6. ASSUME NEW h \in Handlers, HandlerStep(h)
      PROVE  RunsIInv'
  <2>1. CASE Add(h) /\ savers = NoRec
    <3>1. /\ pc[h] = "add" /\ CreateRecorder
          /\ pc' = CronOf(created + 1, [pc EXCEPT ![h] = "idle"])
          /\ UNCHANGED <<suppress, old, new, sent>>
      BY <2>1 DEF Add, observerVars
    <3>2. \A q \in Procs : pc'[q] \in Restart => pc[q] \in Restart /\ pc'[q] = pc[q]
      BY <1>0, <1>1, <3>1 DEF CronOf, HoldingTypes
    <3>3. \A q \in Procs : pc[q] \in Restart => old[q] \in Recs /\ old[q] # created + 1
      BY <1>2
    <3>4. \A q \in Procs : pc'[q] \in {"suppress", "close"} => state'[old'[q]] = "running"
      <4>1. \A r \in Recs : r # created + 1 => state'[r] = state[r]
        BY <1>1, <3>1
      <4>2. old' = old
        BY <3>1
      <4> QED BY <3>2, <3>3, <4>1, <4>2 DEF RunsIInv
    <3>5. \A q \in Restarting' : new'[q] = old'[q] + 1
      BY <3>1, <3>2 DEF RunsIInv
    <3>6. \A q \in Procs : pc'[q] \in {"close", "wait"} => old'[q] \in suppress'
      BY <3>1, <3>2 DEF RunsIInv
    <3>7. \A r \in Recs : state'[r] = "running" => run'[r] = "loop"
      BY <1>1, <3>1 DEF RunsIInv
    <3> QED BY <1>1, <3>1, <3>4, <3>5, <3>6, <3>7 DEF RunsIInv
  <2>2. CASE (Add(h) /\ savers # NoRec) \/ RemoveHas(h) \/ Remove(h) \/ RestartHas(h)
    <3>1. /\ pc[h] \in {"add", "remove_has", "remove", "restart_has"}
          /\ \E next \in {"idle", "remove", "swap"} : pc' = [pc EXCEPT ![h] = next]
          /\ UNCHANGED <<suppress, old, new, sent>>
          /\ \/ UNCHANGED <<savers, state, run>>
             \/ savers' = NoRec /\ savers # NoRec /\ state' = Closed(savers) /\ run' = run
      BY <2>2 DEF Add, RemoveHas, Remove, RestartHas, Goto, managerVars, recorderVars, observerVars
    <3> QED BY <1>0, <1>5, <3>1
  <2> QED BY <1>6, <2>1, <2>2 DEF HandlerStep
<1>7. ASSUME NEW r \in Recs, CronCheck(r) \/ RunStep(r) \/ RunPanic(r) \/ Age(r)
      PROVE  RunsIInv'
  <2>1. CASE CronCheck(r)
    <3>1. /\ pc[r] = "timer" /\ \E next \in {"idle", "swap"} : pc' = [pc EXCEPT ![r] = next]
          /\ UNCHANGED <<savers, state, run, suppress, old, new, sent>>
      BY <2>1 DEF CronCheck, Goto, managerVars, recorderVars, observerVars
    <3> QED BY <1>0, <1>5, <3>1
  <2>2. CASE RunSegment(r) \/ Age(r)
    <3>1. UNCHANGED <<savers, state, run, suppress, pc, old, new, sent>>
      BY <2>2 DEF RunSegment, Age, managerVars, callerVars, observerVars
    <3> QED BY <3>1 DEF RunsIInv
  <2>3. CASE RunLeave(r) \/ RunSummary(r) \/ RunDone(r)
    <3>1. /\ run[r] # "loop" \/ state[r] = "stopped"
          /\ \E next \in {"summary", "exit", "done"} : run' = [run EXCEPT ![r] = next]
          /\ sent' = sent \/ (r \notin suppress /\ sent' = [sent EXCEPT ![r] = files[r]])
          /\ UNCHANGED <<savers, state, suppress, pc, old, new>>
      BY <2>3 DEF RunLeave, RunSummary, RunDone, managerVars, callerVars, observerVars
    <3>2. state[r] # "running"
      BY <3>1 DEF RunsIInv
    <3>3. \A q \in Recs : q # r => run'[q] = run[q]
      BY <1>0, <3>1 DEF HoldingTypes
    <3>4. \A q \in suppress : sent'[q] = sent[q]
      BY <1>0, <3>1 DEF TypeOK
    <3> QED BY <3>1, <3>2, <3>3, <3>4 DEF RunsIInv
  <2>4. ~RunPanic(r)
    BY DEF RunPanic
  <2> QED BY <1>7, <2>1, <2>2, <2>3, <2>4 DEF RunStep
<1>8. ASSUME NEW h \in Handlers, NEW op \in {"add", "remove_has", "restart_has"}, Begin(h, op)
      PROVE  RunsIInv'
  <2>1. /\ pc[h] = "idle" /\ pc' = [pc EXCEPT ![h] = op]
        /\ UNCHANGED <<savers, state, run, suppress, old, new, sent>>
    BY <1>8 DEF Begin, Goto, managerVars, recorderVars, observerVars
  <2> QED BY <1>0, <1>5, <2>1
<1>9. CASE Shutdown
  <2>1. /\ savers # NoRec /\ state' = Closed(savers) /\ savers' = NoRec
        /\ UNCHANGED <<run, suppress, pc, old, new, sent>>
    BY <1>9 DEF Shutdown, callerVars, observerVars
  <2>2. \A r \in Recs : state'[r] = "running" => state[r] = "running" /\ r # savers
    BY <1>0, <2>1 DEF Closed, HoldingTypes
  <2>3. \A q \in Procs : pc[q] \in {"suppress", "close"} => state'[old[q]] = state[old[q]]
    BY <1>0, <1>2, <1>3, <2>1 DEF Closed, HoldingTypes
  <2> QED BY <2>1, <2>2, <2>3 DEF RunsIInv
<1>10. CASE UNCHANGED vars
  <2>1. UNCHANGED <<savers, state, run, suppress, pc, old, new, sent>>
    BY <1>10 DEF vars, managerVars, recorderVars, callerVars, observerVars
  <2> QED BY <2>1 DEF RunsIInv
<1> QED BY <1>4, <1>6, <1>7, <1>8, <1>9, <1>10 DEF Next, ManagerNext

\* The kinds of step a segment sees. Live recorders still have their list to report.
Live(r) == run[r] \in {"loop", "summary"} \/ ToBeTaken(r)

\* The lists stay as they are, and what a restart carries stays or is skipped.
Keeps ==
    /\ UNCHANGED <<files, recorded, sent>>
    /\ \A r \in Recs : Live(r)' => Live(r) \/ files[r] = <<>>
    /\ \A p \in Procs : carried'[p] \in {carried[p], <<>>}

\* The list of a recorder moves to the restart that waited for it.
Takes(p) ==
    /\ UNCHANGED <<files, recorded, sent, old>> /\ old[p] \in Recs
    /\ Live(old[p]) /\ ~Live(old[p])'
    /\ \A r \in Recs : r # old[p] => Live(r)' = Live(r)
    /\ carried[p] = <<>> /\ carried'[p] = files[old[p]]
    /\ \A q \in Procs : q # p => carried'[q] = carried[q]

\* What a restart carries moves to the head of the new recorder's list.
HandsOver(p) ==
    /\ pc[p] \in Before /\ pc'[p] \notin Before /\ new[p] \in 1..created
    /\ UNCHANGED <<created, recorded, sent, old, new>>
    /\ files'[new[p]] = carried[p] \o files[new[p]]
    /\ \A r \in Recs : r # new[p] => files'[r] = files[r]
    /\ \A r \in Recs : Live(r)' = Live(r)
    /\ carried'[p] = <<>>
    /\ \A q \in Procs : q # p => carried'[q] = carried[q] /\ pc'[q] = pc[q]

\* A segment is complete.
Completes(r) ==
    /\ r \notin recorded /\ r \in 1..created /\ recorded' = recorded \cup {r}
    /\ files'[r] = Append(files[r], r)
    /\ \A q \in Recs : q # r => files'[q] = files[q]
    /\ \A q \in Recs : Live(q)' = Live(q)
    /\ UNCHANGED <<created, sent, callerVars>>

\* The list of a recorder becomes its summary.
Sends(r) ==
    /\ UNCHANGED <<created, files, recorded, callerVars>>
    /\ Live(r) /\ ~Live(r)'
    /\ \A q \in Recs : q # r => Live(q)' = Live(q)
    /\ sent[r] = <<>> /\ sent'[r] = files[r]
    /\ \A q \in Recs : q # r => sent'[q] = sent[q]

\* In every step, a restart keeps the recorders it holds, and one that starts has a new
\* recorder with an empty list.
RestartsKept ==
    /\ created' \in Int /\ created <= created'
    /\ \A p \in Procs : carried'[p] # <<>> => old'[p] = old[p]
    /\ \A p \in Procs : pc'[p] \in Before =>
            \/ pc[p] \in Before /\ new'[p] = new[p]
            \/ new'[p] \in Recs /\ new'[p] > created /\ files' = files

Kinds ==
    \/ Keeps
    \/ \E p \in Procs : Takes(p) \/ HandsOver(p)
    \/ \E r \in Recs : Completes(r) \/ Sends(r)

LEMMA StillDisjoint ==
    ASSUME NEW held, NEW next, NEW from \in Places, NEW to \in Places, Disjoint(held),
           \A x \in Places : x # to => next[x] \subseteq held[x],
           next[to] \subseteq held[to] \cup held[from],
           to # from => next[from] = {}
    PROVE  Disjoint(next)
<1> SUFFICES ASSUME NEW x \in Places, NEW y \in Places, x # y, NEW f \in next[x], f \in next[y]
             PROVE  FALSE
  BY DEF Disjoint
<1>1. CASE x # to /\ y # to
  BY <1>1 DEF Disjoint
<1>2. CASE x = to
  BY <1>2 DEF Disjoint
<1>3. CASE y = to
  BY <1>3 DEF Disjoint
<1> QED BY <1>1, <1>2, <1>3

LEMMA NextComplete ==
    ASSUME TypeOK, RestartsHold, InOrder, Complete, RestartsKept, Kinds
    PROVE  Complete'
<1>1. CASE Keeps
  BY <1>1, ElementsOfEmpty DEF Keeps, Complete
<1>2. ASSUME NEW p \in Procs, Takes(p)
      PROVE  Complete'
  <2>1. \A q \in Procs : Elements(carried'[q]) \subseteq recorded
    BY <1>2 DEF Takes, Complete, TypeOK
  <2> QED BY <1>2, <2>1 DEF Takes, Complete
<1>3. ASSUME NEW p \in Procs, HandsOver(p)
      PROVE  Complete'
  <2>1. new[p] \in Recs
    BY <1>3, ConstantsAssumption DEF HandsOver, TypeOK, Recs
  <2>2. Elements(files'[new[p]]) = Elements(carried[p]) \cup Elements(files[new[p]])
    BY <1>3, <2>1, ElementsOfConcat DEF HandsOver, TypeOK
  <2>3. \A r \in Recs : Elements(files'[r]) \subseteq recorded
    BY <1>3, <2>1, <2>2 DEF HandsOver, Complete
  <2>4. \A q \in Procs : Elements(carried'[q]) \subseteq recorded
    BY <1>3, ElementsOfEmpty DEF HandsOver, Complete
  <2> QED BY <1>3, <2>3, <2>4 DEF HandsOver, Complete
<1>4. ASSUME NEW r \in Recs, Completes(r)
      PROVE  Complete'
  <2>1. Elements(files'[r]) = Elements(files[r]) \cup {r}
    BY <1>4, ElementsOfAppend DEF Completes, TypeOK
  <2> QED BY <1>4, <2>1 DEF Completes, Complete, callerVars
<1>5. ASSUME NEW r \in Recs, Sends(r)
      PROVE  Complete'
  BY <1>5 DEF Sends, Complete, callerVars
<1> QED BY <1>1, <1>2, <1>3, <1>4, <1>5 DEF Kinds

LEMMA NextOnce ==
    ASSUME TypeOK, RestartsHold, Complete, Once, RestartsKept, Kinds
    PROVE  Once'
<1> USE DEF Once
<1>1. /\ \A r \in Recs : <<"list", r>> \in Places /\ contents[<<"list", r>>] = Unreported(r)
                            /\ contents'[<<"list", r>>] = Unreported(r)'
      /\ \A r \in Recs : <<"summary", r>> \in Places
                            /\ contents[<<"summary", r>>] = Elements(sent[r])
                            /\ contents'[<<"summary", r>>] = Elements(sent'[r])
      /\ \A p \in Procs : <<"way", p>> \in Places
                            /\ contents[<<"way", p>>] = Elements(carried[p])
                            /\ contents'[<<"way", p>>] = Elements(carried'[p])
  BY DEF contents, Places
<1>2. \A x \in Places : \/ \E r \in Recs : x = <<"list", r>> \/ x = <<"summary", r>>
                        \/ \E p \in Procs : x = <<"way", p>>
  BY DEF Places
<1>3. \A r \in Recs : Unreported(r) = (IF Live(r) THEN Elements(files[r]) ELSE {})
                   /\ Unreported(r)' = (IF Live(r)' THEN Elements(files'[r]) ELSE {})
  BY DEF Unreported, Live
<1>4. ASSUME NEW next, next = contents', NEW from \in Places, NEW to \in Places,
             \A x \in Places : x # to => next[x] \subseteq contents[x],
             next[to] \subseteq contents[to] \cup contents[from],
             to # from => next[from] = {}
      PROVE  Disjoint(contents)'
  <2>1. Disjoint(next)
    BY <1>4, StillDisjoint
  <2> QED BY <1>4, <2>1 DEF Disjoint
<1>5. CASE Keeps
  <2>1. \A x \in Places : contents'[x] \subseteq contents[x]
    <3>1. \A r \in Recs : Unreported(r)' \subseteq Unreported(r)
      BY <1>3, <1>5, ElementsOfEmpty DEF Keeps
    <3>2. \A p \in Procs : Elements(carried'[p]) \subseteq Elements(carried[p])
      BY <1>5, ElementsOfEmpty DEF Keeps
    <3>3. sent' = sent
      BY <1>5 DEF Keeps
    <3> QED BY <1>1, <1>2, <3>1, <3>2, <3>3
  <2> QED BY <2>1 DEF Disjoint
<1>6. ASSUME NEW p \in Procs, Takes(p)
      PROVE  Once'
  <2>0. PICK o \in Recs : o = old[p]
    BY <1>6 DEF Takes
  <2>1. \A r \in Recs : r # o => Unreported(r)' = Unreported(r)
    BY <1>3, <1>6, <2>0 DEF Takes
  <2>2. Unreported(o)' = {} /\ Elements(carried'[p]) = Unreported(o)
    BY <1>3, <1>6, <2>0 DEF Takes
  <2>3. sent' = sent /\ \A q \in Procs : q # p => carried'[q] = carried[q]
    BY <1>6 DEF Takes
  <2>4. \A x \in Places : x # <<"way", p>> => contents'[x] \subseteq contents[x]
    BY <1>1, <1>2, <2>1, <2>2, <2>3
  <2>5. contents'[<<"way", p>>] \subseteq contents[<<"list", o>>]
        /\ contents'[<<"list", o>>] = {}
    BY <1>1, <2>2
  <2> QED BY <1>1, <1>4, <2>4, <2>5
<1>7. ASSUME NEW p \in Procs, HandsOver(p)
      PROVE  Once'
  <2>0. PICK n : n = new[p]
    OBVIOUS
  <2>1. n \in Recs
    BY <1>7, <2>0, ConstantsAssumption DEF HandsOver, TypeOK, Recs
  <2>2. Elements(files'[n]) = Elements(carried[p]) \cup Elements(files[n])
    <3>1. files'[n] = carried[p] \o files[n]
      BY <1>7, <2>0 DEF HandsOver
    <3> QED BY <2>1, <3>1, ElementsOfConcat DEF TypeOK
  <2>3. \A r \in Recs : r # n => Unreported(r)' = Unreported(r)
    BY <1>3, <1>7, <2>0 DEF HandsOver
  <2>4. Unreported(n)' \subseteq Unreported(n) \cup Elements(carried[p])
    BY <1>3, <1>7, <2>1, <2>2 DEF HandsOver
  <2>5. sent' = sent /\ Elements(carried'[p]) = {}
        /\ \A q \in Procs : q # p => carried'[q] = carried[q]
    BY <1>7, ElementsOfEmpty DEF HandsOver
  <2>6. \A x \in Places : x # <<"list", n>> => contents'[x] \subseteq contents[x]
    BY <1>1, <1>2, <2>3, <2>5
  <2>7. contents'[<<"list", n>>] \subseteq contents[<<"list", n>>] \cup contents[<<"way", p>>]
        /\ contents'[<<"way", p>>] = {}
    BY <1>1, <2>1, <2>4, <2>5
  <2> QED BY <1>1, <1>4, <2>1, <2>6, <2>7
<1>8. ASSUME NEW r \in Recs, Sends(r)
      PROVE  Once'
  <2>1. Unreported(r)' = {} /\ Elements(sent'[r]) = Unreported(r)
    BY <1>3, <1>8 DEF Sends
  <2>2. \A q \in Recs : q # r => Unreported(q)' = Unreported(q) /\ sent'[q] = sent[q]
    BY <1>3, <1>8 DEF Sends
  <2>3. carried' = carried
    BY <1>8 DEF Sends, callerVars
  <2>4. \A x \in Places : x # <<"summary", r>> => contents'[x] \subseteq contents[x]
    BY <1>1, <1>2, <2>1, <2>2, <2>3
  <2>5. contents'[<<"summary", r>>] \subseteq contents[<<"list", r>>]
        /\ contents'[<<"list", r>>] = {}
    BY <1>1, <2>1
  <2> QED BY <1>1, <1>4, <2>4, <2>5
<1>9. ASSUME NEW r \in Recs, Completes(r)
      PROVE  Once'
  <2>1. Elements(files'[r]) = Elements(files[r]) \cup {r}
    BY <1>9, ElementsOfAppend DEF Completes, TypeOK
  <2>2. \A q \in Recs : Unreported(q)' \subseteq Unreported(q) \cup (IF q = r THEN {r} ELSE {})
    BY <1>3, <1>9, <2>1 DEF Completes
  <2>3. sent' = sent /\ carried' = carried
    BY <1>9 DEF Completes, callerVars
  <2>4. \A x \in Places : contents'[x] \subseteq
                            contents[x] \cup (IF x = <<"list", r>> THEN {r} ELSE {})
    BY <1>1, <1>2, <2>2, <2>3
  <2>5. \A x \in Places : r \notin contents[x]
    <3>1. r \notin recorded
      BY <1>9 DEF Completes
    <3>2. \A q \in Recs : Unreported(q) \subseteq recorded /\ Elements(sent[q]) \subseteq recorded
      BY <1>3 DEF Complete
    <3>3. \A q \in Procs : Elements(carried[q]) \subseteq recorded
      BY DEF Complete
    <3> QED BY <1>1, <1>2, <3>1, <3>2, <3>3
  <2> QED BY <2>4, <2>5 DEF Disjoint
<1> QED BY <1>5, <1>6, <1>7, <1>8, <1>9 DEF Kinds

LEMMA NextInOrder ==
    ASSUME TypeOK, TypeOK', RestartsHold, OldDistinct, RunsIInv, InOrder, Complete,
           RestartsKept, Kinds
    PROVE  InOrder'
<1>1. /\ created \in Int /\ created' \in Int /\ created <= created' /\ Recs \subseteq Int
      /\ MaxRecs \in Nat /\ Increasing(<<>>)
  BY ConstantsAssumption DEF RestartsKept, TypeOK, Recs, Increasing
<1>2. \A p \in Procs : pc[p] \in Before => old[p] \in Recs /\ new[p] \in Recs
                                           /\ old[p] \in Int /\ new[p] = old[p] + 1
  <2>1. \A p \in Procs : pc[p] \in Before => p \in Restarting
    BY DEF Before, Restarting
  <2>2. \A p \in Restarting : old[p] \in 1..(created - 1) /\ new[p] \in 1..created
                             /\ new[p] = old[p] + 1
    BY DEF RestartsHold, RunsIInv
  <2>3. created <= MaxRecs
    BY <1>1 DEF TypeOK
  <2> QED BY <1>1, <2>1, <2>2, <2>3 DEF Recs
<1>3. \A p, q \in Procs : pc[p] \in Before /\ pc[q] \in Before /\ p # q => new[p] # new[q]
  BY <1>2 DEF OldDistinct, Restarting, Before
\* a step that leaves the lists alone
<1>4. ASSUME files' = files,
             \A r \in Recs : Increasing(sent'[r]),
             \A p \in Procs : carried'[p] \in {carried[p], <<>>}
                              \/ (old[p] \in Recs /\ carried'[p] = files[old[p]])
      PROVE  InOrder'
  <2>1. \A p \in Procs : /\ Increasing(carried'[p])
                         /\ carried'[p] # <<>> => Elements(carried'[p]) \subseteq 1..old'[p]
    BY <1>1, <1>4 DEF InOrder, RestartsKept
  <2>2. ASSUME NEW p \in Procs, pc'[p] \in Before
        PROVE  Elements(files'[new'[p]]) \subseteq {new'[p]}
    <3>1. CASE pc[p] \in Before /\ new'[p] = new[p]
      BY <1>4, <3>1 DEF InOrder
    <3>2. CASE new'[p] \in Recs /\ new'[p] > created
      BY <1>4, <3>2, ElementsOfEmpty DEF InOrder
    <3> QED BY <2>2, <3>1, <3>2 DEF RestartsKept
  <2>3. \A r \in Recs : r > created' => files'[r] = <<>>
    BY <1>1, <1>4 DEF InOrder
  <2> QED BY <1>4, <2>1, <2>2, <2>3 DEF InOrder
<1>5. CASE Keeps
  BY <1>4, <1>5 DEF Keeps, InOrder
<1>6. ASSUME NEW p \in Procs, Takes(p)
      PROVE  InOrder'
  <2>1. \A q \in Procs : carried'[q] \in {carried[q], <<>>}
                              \/ (old[q] \in Recs /\ carried'[q] = files[old[q]])
    BY <1>6 DEF Takes
  <2> QED BY <1>4, <1>6, <2>1 DEF Takes, InOrder
<1>7. ASSUME NEW r \in Recs, Sends(r)
      PROVE  InOrder'
  BY <1>4, <1>7 DEF Sends, InOrder, callerVars
<1>8. ASSUME NEW p \in Procs, HandsOver(p)
      PROVE  InOrder'
  <2>0. PICK n \in Recs : n = new[p]
    BY <1>2, <1>8 DEF HandsOver
  <2>1. files'[n] = carried[p] \o files[n] /\ \A r \in Recs : r # n => files'[r] = files[r]
    BY <1>8, <2>0 DEF HandsOver
  <2>2. Elements(files[n]) \subseteq {n} /\ Increasing(files[n]) /\ Increasing(carried[p])
    BY <1>8, <2>0 DEF HandsOver, InOrder
  <2>3. Elements(carried[p]) \subseteq 1..(n - 1)
    <3>1. CASE carried[p] = <<>>
      BY <3>1, ElementsOfEmpty
    <3>2. CASE carried[p] # <<>>
      BY <1>2, <1>8, <2>0, <3>2 DEF HandsOver, InOrder
    <3> QED BY <3>1, <3>2
  <2>4. carried[p] \in Seq(Recs) /\ files[n] \in Seq(Recs)
    BY DEF TypeOK
  <2>5. Increasing(files'[n])
    <3>1. \A a \in Elements(carried[p]), b \in Elements(files[n]) : a < b
      BY <1>1, <2>2, <2>3
    <3>2. Increasing(carried[p] \o files[n])
      BY <2>2, <2>4, <3>1, IncreasingConcat
    <3> QED BY <2>1, <3>2
  <2>6. Elements(files'[n]) \subseteq 1..n
    <3>1. Elements(files'[n]) = Elements(carried[p]) \cup Elements(files[n])
      BY <2>1, <2>4, ElementsOfConcat
    <3>2. n \in 1..n /\ 1..(n - 1) \subseteq 1..n
      BY <1>1 DEF Recs
    <3> QED BY <2>2, <2>3, <3>1, <3>2
  <2>7. \A r \in Recs : Increasing(files'[r]) /\ Elements(files'[r]) \subseteq 1..r
    BY <2>1, <2>5, <2>6 DEF InOrder
  <2>8. \A q \in Procs : /\ Increasing(carried'[q])
                         /\ carried'[q] # <<>> => Elements(carried'[q]) \subseteq 1..old'[q]
    BY <1>1, <1>8 DEF HandsOver, InOrder
  <2>9. ASSUME NEW q \in Procs, pc'[q] \in Before
        PROVE  Elements(files'[new'[q]]) \subseteq {new'[q]}
    <3>1. q # p /\ pc[q] \in Before /\ new'[q] = new[q] /\ pc[p] \in Before
      BY <1>8, <2>9 DEF HandsOver
    <3>2. new[q] \in Recs /\ new[q] # n
      BY <1>2, <1>3, <2>0, <3>1
    <3> QED BY <2>1, <3>1, <3>2 DEF InOrder
  <2>10. \A r \in Recs : r > created' => files'[r] = <<>>
    BY <1>1, <1>8, <2>0, <2>1 DEF HandsOver, InOrder
  <2>11. \A r \in Recs : Increasing(sent'[r])
    BY <1>8 DEF HandsOver, InOrder
  <2> QED BY <2>7, <2>8, <2>9, <2>10, <2>11 DEF InOrder
<1>9. ASSUME NEW r \in Recs, Completes(r)
      PROVE  InOrder'
  <2>1. files'[r] = Append(files[r], r) /\ \A q \in Recs : q # r => files'[q] = files[q]
    BY <1>9 DEF Completes
  <2>2. files[r] \in Seq(Recs) /\ Increasing(files[r]) /\ Elements(files[r]) \subseteq 1..r
    BY DEF InOrder, TypeOK
  <2>3. Elements(files'[r]) = Elements(files[r]) \cup {r}
    BY <2>1, <2>2, ElementsOfAppend
  <2>4. Increasing(files'[r])
    <3>1. r \notin Elements(files[r])
      BY <1>9 DEF Completes, Complete
    <3> QED BY <2>1, <2>2, <3>1, IncreasingAppend
  <2>5. \A q \in Recs : Increasing(files'[q]) /\ Elements(files'[q]) \subseteq 1..q
    <3>1. r \in 1..r
      BY <1>1 DEF Recs
    <3> QED BY <2>1, <2>2, <2>3, <2>4, <3>1 DEF InOrder
  <2>6. UNCHANGED <<created, sent, pc, old, new, carried>>
    BY <1>9 DEF Completes, callerVars
  <2>7. ASSUME NEW q \in Procs, pc[q] \in Before
        PROVE  Elements(files'[new[q]]) \subseteq {new[q]}
    <3>1. new[q] \in Recs /\ Elements(files[new[q]]) \subseteq {new[q]}
      BY <1>2, <2>7 DEF InOrder
    <3> QED BY <2>1, <2>3, <3>1
  <2>8. \A q \in Recs : q > created => files'[q] = <<>>
    BY <1>1, <1>9, <2>1 DEF Completes, InOrder
  <2> QED BY <2>5, <2>6, <2>7, <2>8 DEF InOrder
<1> QED BY <1>5, <1>6, <1>7, <1>8, <1>9 DEF Kinds

LEMMA NextKinds ==
    ASSUME ~Panics, IInv, SegIInv, RunsIInv, InOrder, [Next]_vars
    PROVE  RestartsKept /\ Kinds
<1>0. TypeOK /\ HoldingTypes /\ Recs \subseteq Procs /\ Handlers \subseteq Procs
      /\ created \in Int
  BY DEF IInv, TypeOK, HoldingTypes, Procs
<1>1. \A p \in Procs : pc[p] \notin {"check", "handover"} => carried[p] = <<>>
  BY DEF SegIInv
\* a new recorder
<1>2. ASSUME CreateRecorder
      PROVE  /\ created + 1 \in Recs /\ created + 1 \in Procs /\ created' = created + 1
             /\ pc[created + 1] = "idle" /\ files[created + 1] = <<>>
             /\ \A r \in Recs : run'[r] = IF r = created + 1 THEN "loop" ELSE run[r]
  <2>1. created < MaxRecs /\ created' = created + 1 /\ run' = [run EXCEPT ![created + 1] = "loop"]
    BY <1>2 DEF CreateRecorder
  <2>2. created + 1 \in Recs /\ created + 1 \in Procs /\ pc[created + 1] = "idle"
    BY <1>0, <2>1, NextIsFresh DEF IInv
  <2>3. files[created + 1] = <<>>
    BY <1>0, <2>2 DEF InOrder
  <2> QED BY <1>0, <2>1, <2>2, <2>3 DEF HoldingTypes
\* a step of one caller, which neither takes nor hands over
<1>3. ASSUME NEW q \in Procs, NEW next, pc' = [pc EXCEPT ![q] = next], created' = created,
             \A p \in Procs : p # q => old'[p] = old[p] /\ new'[p] = new[p]
                                    /\ carried'[p] = carried[p],
             carried'[q] \in {carried[q], <<>>}, carried'[q] # <<>> => old'[q] = old[q],
             next \in Before => pc[q] \in Before /\ new'[q] = new[q]
      PROVE  /\ RestartsKept
             /\ \A p \in Procs : carried'[p] \in {carried[p], <<>>}
  <2>1. pc'[q] = next /\ \A p \in Procs : p # q => pc'[p] = pc[p]
    BY <1>0, <1>3 DEF HoldingTypes
  <2> QED BY <1>0, <1>3, <2>1 DEF RestartsKept
\* a step that changes no caller
<1>4. ASSUME UNCHANGED <<created, callerVars>>
      PROVE  RestartsKept /\ \A r \in Recs : ToBeTaken(r)' = ToBeTaken(r)
  BY <1>0, <1>4 DEF RestartsKept, callerVars, ToBeTaken
<1>5. ASSUME NEW p \in Procs, RestartStep(p)
      PROVE  RestartsKept /\ Kinds
  <2>1. CASE Swap(p) /\ savers # NoRec
    <3>1. /\ pc[p] = "swap" /\ CreateRecorder
          /\ old' = [old EXCEPT ![p] = savers]
          /\ new' = [new EXCEPT ![p] = created + 1]
          /\ pc' = CronOf(created + 1, [pc EXCEPT ![p] = "suppress"])
          /\ UNCHANGED <<files, recorded, carried, sent>>
      BY <2>1 DEF Swap, observerVars
    <3>2. /\ p # created + 1 /\ pc'[created + 1] \in {"idle", "timer"}
          /\ \A q \in Procs : q # p => old'[q] = old[q] /\ new'[q] = new[q]
          /\ \A q \in Procs : q # p /\ q # created + 1 => pc'[q] = pc[q]
          /\ new'[p] = created + 1 /\ old'[p] = savers
      BY <1>0, <1>2, <3>1 DEF CronOf, HoldingTypes
    <3>3. RestartsKept
      <4>1. \A q \in Procs : carried'[q] # <<>> => old'[q] = old[q]
        BY <1>1, <3>1, <3>2
      <4>2. \A q \in Procs : pc'[q] \in Before =>
                \/ pc[q] \in Before /\ new'[q] = new[q]
                \/ new'[q] \in Recs /\ new'[q] > created /\ files' = files
        <5> SUFFICES ASSUME NEW q \in Procs, pc'[q] \in Before, q # p
                     PROVE  pc[q] \in Before /\ new'[q] = new[q]
          BY <1>0, <1>2, <3>1, <3>2
        <5> QED BY <3>2 DEF Before, Restart
      <4>3. created' \in Int /\ created <= created'
        BY <1>0, <1>2, <3>1
      <4> QED BY <4>1, <4>2, <4>3 DEF RestartsKept
    <3>4. \A r \in Recs : Live(r)' => Live(r) \/ files[r] = <<>>
      <4> SUFFICES ASSUME NEW r \in Recs, Live(r)', r # created + 1
                   PROVE  Live(r)
        BY <1>2, <3>1
      <4>1. CASE run'[r] \in {"loop", "summary"}
        BY <1>2, <3>1, <4>1 DEF Live
      <4>2. CASE r = savers
        BY <2>1, <4>2 DEF RunsIInv, Live
      <4>3. CASE ToBeTaken(r)' /\ r # savers
        BY <3>2, <4>3 DEF ToBeTaken, Live
      <4> QED BY <4>1, <4>2, <4>3 DEF Live
    <3> QED BY <3>1, <3>3, <3>4 DEF Kinds, Keeps
  <2>2. CASE \/ Swap(p) /\ savers = NoRec
             \/ RestartSuppress(p) \/ RestartClose(p) \/ RestartDone(p)
             \/ RestartCheck(p)
    <3>1. /\ UNCHANGED <<created, run, files, recorded, sent>>
          /\ \/ pc[p] = "swap" /\ pc' = [pc EXCEPT ![p] = "idle"] /\ UNCHANGED <<old, new, carried>>
             \/ /\ pc[p] = "suppress" /\ pc' = [pc EXCEPT ![p] = "close"]
                /\ UNCHANGED <<old, new, carried>>
             \/ /\ pc[p] = "close" /\ pc' = [pc EXCEPT ![p] = "wait"]
                /\ UNCHANGED <<old, new, carried>>
             \/ /\ pc[p] = "uncount" /\ pc' = [pc EXCEPT ![p] = "idle"]
                /\ old' = [old EXCEPT ![p] = NoRec] /\ carried' = [carried EXCEPT ![p] = <<>>]
                /\ new' = [new EXCEPT ![p] = NoRec]
             \/ /\ pc[p] = "check" /\ pc' = [pc EXCEPT ![p] = "handover"]
                /\ UNCHANGED <<old, new, carried>>
             \/ /\ pc[p] = "check" /\ pc' = [pc EXCEPT ![p] = "uncount"]
                /\ carried' = [carried EXCEPT ![p] = <<>>] /\ UNCHANGED <<old, new>>
      BY <2>2 DEF Swap, RestartSuppress, RestartClose, RestartDone, RestartCheck, Return, Goto,
         managerVars, recorderVars, observerVars
    <3>2. RestartsKept /\ \A q \in Procs : carried'[q] \in {carried[q], <<>>}
      <4>1. PICK next \in {"idle", "close", "wait", "handover", "uncount"} :
                 /\ pc' = [pc EXCEPT ![p] = next]
                 /\ next \in Before => pc[p] \in Before /\ new'[p] = new[p]
        BY <3>1 DEF Before, Restart
      <4>2. /\ \A q \in Procs : q # p => old'[q] = old[q] /\ new'[q] = new[q]
                                        /\ carried'[q] = carried[q]
            /\ carried'[p] \in {carried[p], <<>>} /\ (carried'[p] # <<>> => old'[p] = old[p])
        BY <1>0, <3>1 DEF TypeOK, HoldingTypes
      <4> QED BY <1>3, <3>1, <4>1, <4>2
    <3>3. \A r \in Recs : ToBeTaken(r)' => ToBeTaken(r)
      BY <1>0, <3>1 DEF ToBeTaken, HoldingTypes
    <3>4. \A r \in Recs : Live(r)' => Live(r)
      BY <3>1, <3>3 DEF Live
    <3> QED BY <3>1, <3>2, <3>4 DEF Kinds, Keeps
  <2>3. CASE RestartTake(p)
    <3>0. PICK o : o = old[p]
      OBVIOUS
    <3>1. /\ pc[p] = "wait" /\ run[o] = "done"
          /\ carried' = [carried EXCEPT ![p] = files[o]]
          /\ \E next \in {"uncount", "check"} : pc' = [pc EXCEPT ![p] = next]
          /\ UNCHANGED <<created, run, files, recorded, old, new, sent>>
      BY <2>3, <3>0 DEF RestartTake, Goto, managerVars, recorderVars, observerVars
    <3>2. o \in Recs /\ \A q \in Procs : q # p /\ pc[q] \in Restart => old[q] # o
      <4>1. p \in Restarting
        BY <3>1 DEF Restarting, Restart
      <4>2. o \in 1..(created - 1) /\ created \in 0..MaxRecs /\ MaxRecs \in Nat
        BY <1>0, <3>0, <4>1, ConstantsAssumption DEF IInv, RestartsHold, HoldingTypes
      <4>3. \A q \in Restarting : q # p => old[q] # old[p]
        BY <4>1 DEF IInv, OldDistinct
      <4> QED BY <3>0, <4>2, <4>3 DEF Restarting, Recs
    <3>3. /\ pc'[p] \in {"uncount", "check"} /\ carried[p] = <<>> /\ carried'[p] = files[o]
          /\ \A q \in Procs : q # p => pc'[q] = pc[q] /\ carried'[q] = carried[q]
      BY <1>0, <1>1, <3>1 DEF TypeOK, HoldingTypes
    <3>4. ToBeTaken(o) /\ ~ToBeTaken(o)'
      BY <3>0, <3>1, <3>2, <3>3 DEF ToBeTaken, Restart
    <3>5. \A r \in Recs : r # o => ToBeTaken(r)' = ToBeTaken(r)
      BY <3>0, <3>1, <3>3 DEF ToBeTaken
    <3>6. Live(o) /\ ~Live(o)' /\ \A r \in Recs : r # o => Live(r)' = Live(r)
      BY <3>1, <3>4, <3>5 DEF Live
    <3>7. RestartsKept
      BY <1>0, <3>1, <3>3 DEF RestartsKept, Before, Restart
    <3>8. Takes(p)
      BY <3>0, <3>1, <3>2, <3>3, <3>6 DEF Takes
    <3> QED BY <3>7, <3>8 DEF Kinds
  <2>4. CASE RestartHandover(p)
    <3>0. PICK n : n = new[p]
      OBVIOUS
    <3>1. /\ pc[p] = "handover" /\ pc' = [pc EXCEPT ![p] = "uncount"]
          /\ files' = [files EXCEPT ![n] = carried[p] \o files[n]]
          /\ carried' = [carried EXCEPT ![p] = <<>>]
          /\ UNCHANGED <<created, run, recorded, old, new, sent>>
      BY <2>4, <3>0 DEF RestartHandover, HandedOver, Goto, managerVars
    <3>2. n \in 1..created /\ n \in Recs
      BY <1>0, <3>0, <3>1, ConstantsAssumption
         DEF IInv, RestartsHold, Restarting, Restart, HoldingTypes, Recs
    <3>3. /\ files'[n] = carried[p] \o files[n] /\ \A r \in Recs : r # n => files'[r] = files[r]
          /\ pc'[p] = "uncount" /\ carried'[p] = <<>>
          /\ \A q \in Procs : q # p => pc'[q] = pc[q] /\ carried'[q] = carried[q]
      BY <1>0, <3>1, <3>2 DEF TypeOK, HoldingTypes
    <3>4. \A r \in Recs : ToBeTaken(r)' = ToBeTaken(r)
      BY <3>1, <3>3 DEF ToBeTaken
    <3>5. \A r \in Recs : Live(r)' = Live(r)
      BY <3>1, <3>4 DEF Live
    <3>6. pc[p] \in Before /\ pc'[p] \notin Before
      BY <3>1, <3>3 DEF Before, Restart
    <3>7. HandsOver(p)
      BY <3>0, <3>1, <3>2, <3>3, <3>5, <3>6 DEF HandsOver
    <3>8. RestartsKept
      <4>1. \A q \in Procs : pc'[q] \in Before => pc[q] \in Before /\ new'[q] = new[q]
        BY <3>1, <3>3, <3>6
      <4>2. old' = old /\ created' = created
        BY <3>1
      <4> QED BY <1>0, <4>1, <4>2 DEF RestartsKept
    <3> QED BY <3>7, <3>8 DEF Kinds
  <2> QED BY <1>5, <2>1, <2>2, <2>3, <2>4 DEF RestartStep
\* a caller that holds no restart moves on
<1>6. ASSUME NEW q \in Procs, NEW next, next \notin Restart, pc[q] \notin Restart,
             pc' = [pc EXCEPT ![q] = next],
             UNCHANGED <<created, run, files, recorded, old, new, carried, sent>>
      PROVE  RestartsKept /\ Kinds
  <2>1. RestartsKept /\ \A p \in Procs : carried'[p] \in {carried[p], <<>>}
    BY <1>3, <1>6 DEF Before
  <2>2. \A r \in Recs : ToBeTaken(r)' => ToBeTaken(r)
    BY <1>0, <1>6 DEF ToBeTaken, HoldingTypes, Restart
  <2>3. \A r \in Recs : Live(r)' => Live(r)
    BY <1>6, <2>2 DEF Live
  <2> QED BY <1>6, <2>1, <2>3 DEF Kinds, Keeps
<1>7. ASSUME NEW h \in Handlers, HandlerStep(h)
      PROVE  RestartsKept /\ Kinds
  <2>1. CASE Add(h) /\ savers = NoRec
    <3>1. /\ pc[h] = "add" /\ CreateRecorder
          /\ pc' = CronOf(created + 1, [pc EXCEPT ![h] = "idle"])
          /\ UNCHANGED <<files, recorded, old, new, carried, sent>>
      BY <2>1 DEF Add, observerVars
    <3>2. \A q \in Procs : pc'[q] = pc[q] \/ pc'[q] \in {"idle", "timer"}
      BY <1>0, <1>2, <3>1 DEF CronOf, HoldingTypes
    <3>3. \A r \in Recs : ToBeTaken(r)' => ToBeTaken(r)
      BY <3>1, <3>2 DEF ToBeTaken
    <3>4. \A r \in Recs : Live(r)' => Live(r) \/ files[r] = <<>>
      BY <1>2, <3>1, <3>3 DEF Live
    <3>5. RestartsKept
      <4>1. created' \in Int /\ created <= created'
        BY <1>0, <1>2, <3>1
      <4>2. \A q \in Procs : pc'[q] \in Before => pc[q] \in Before /\ new'[q] = new[q]
        BY <3>1, <3>2 DEF Before, Restart
      <4>3. old' = old
        BY <3>1
      <4> QED BY <4>1, <4>2, <4>3 DEF RestartsKept
    <3> QED BY <3>1, <3>4, <3>5 DEF Kinds, Keeps
  <2>2. CASE (Add(h) /\ savers # NoRec) \/ RemoveHas(h) \/ Remove(h) \/ RestartHas(h)
    <3>1. /\ UNCHANGED <<created, run, files, recorded, old, new, carried, sent>>
          /\ pc[h] \in {"add", "remove_has", "remove", "restart_has"}
          /\ \E next \in {"idle", "remove", "swap"} : pc' = [pc EXCEPT ![h] = next]
      BY <2>2 DEF Add, RemoveHas, Remove, RestartHas, Goto, managerVars, recorderVars, observerVars
    <3> QED BY <1>0, <1>6, <3>1 DEF Restart
  <2> QED BY <1>7, <2>1, <2>2 DEF HandlerStep
<1>8. ASSUME NEW r \in Recs, CronCheck(r) \/ RunStep(r) \/ RunPanic(r) \/ Age(r)
      PROVE  RestartsKept /\ Kinds
  <2>1. CASE CronCheck(r)
    <3>1. /\ UNCHANGED <<created, run, files, recorded, old, new, carried, sent>>
          /\ pc[r] = "timer" /\ \E next \in {"idle", "swap"} : pc' = [pc EXCEPT ![r] = next]
      BY <2>1 DEF CronCheck, Goto, managerVars, recorderVars, observerVars
    <3> QED BY <1>0, <1>6, <3>1 DEF Restart
  <2>2. CASE RunSegment(r)
    <3>1. /\ run[r] = "loop" /\ r \notin recorded /\ recorded' = recorded \cup {r}
          /\ files' = [files EXCEPT ![r] = Append(@, r)]
          /\ UNCHANGED <<created, run, sent, callerVars>>
      BY <2>2 DEF RunSegment, managerVars, observerVars
    <3>2. files'[r] = Append(files[r], r) /\ \A q \in Recs : q # r => files'[q] = files[q]
      BY <1>0, <3>1 DEF TypeOK
    <3>3. r \in 1..created
      BY <1>0, <3>1 DEF IInv, FreshUntouched, Recs
    <3>4. RestartsKept /\ \A q \in Recs : Live(q)' = Live(q)
      BY <1>4, <3>1 DEF Live
    <3>5. Completes(r)
      BY <3>1, <3>2, <3>3, <3>4 DEF Completes
    <3> QED BY <3>4, <3>5 DEF Kinds
  <2>3. CASE RunSummary(r) /\ r \notin suppress
    <3>1. /\ run[r] = "summary"
          /\ run' = [run EXCEPT ![r] = "exit"]
          /\ sent' = [sent EXCEPT ![r] = files[r]]
          /\ UNCHANGED <<created, files, recorded, callerVars>>
      BY <2>3 DEF RunSummary, managerVars
    <3>2. /\ run'[r] = "exit" /\ sent[r] = <<>> /\ sent'[r] = files[r]
          /\ \A q \in Recs : q # r => run'[q] = run[q] /\ sent'[q] = sent[q]
      BY <1>0, <3>1 DEF TypeOK, SegIInv
    <3>3. ~ToBeTaken(r)
      <4> SUFFICES ASSUME NEW p \in Procs, pc[p] \in {"suppress", "close", "wait"}, old[p] = r
                   PROVE  FALSE
        BY DEF ToBeTaken
      <4>1. CASE pc[p] = "suppress"
        BY <3>1, <4>1 DEF RunsIInv
      <4>2. CASE pc[p] \in {"close", "wait"}
        BY <2>3, <4>2 DEF RunsIInv
      <4> QED BY <4>1, <4>2
    <3>4. RestartsKept /\ \A q \in Recs : ToBeTaken(q)' = ToBeTaken(q)
      BY <1>4, <3>1
    <3>5. Live(r) /\ ~Live(r)' /\ \A q \in Recs : q # r => Live(q)' = Live(q)
      BY <3>1, <3>2, <3>3, <3>4 DEF Live
    <3>6. Sends(r)
      BY <3>1, <3>2, <3>5 DEF Sends
    <3> QED BY <3>4, <3>6 DEF Kinds
  <2>4. CASE (RunSummary(r) /\ r \in suppress) \/ RunLeave(r) \/ RunDone(r) \/ Age(r)
    <3>1. /\ UNCHANGED <<created, files, recorded, sent, callerVars>>
          /\ \/ run' = run
             \/ run[r] = "loop" /\ run' = [run EXCEPT ![r] = "summary"]
             \/ run[r] \in {"summary", "exit"}
                /\ \E next \in {"exit", "done"} : run' = [run EXCEPT ![r] = next]
      BY <2>4 DEF RunSummary, RunLeave, RunDone, Age, managerVars, observerVars
    <3>2. RestartsKept /\ \A q \in Recs : ToBeTaken(q)' = ToBeTaken(q)
      BY <1>4, <3>1
    <3>3. \A q \in Recs : run'[q] \in {"loop", "summary"} => run[q] \in {"loop", "summary"}
      BY <1>0, <3>1 DEF TypeOK
    <3>4. \A q \in Recs : Live(q)' => Live(q)
      BY <3>2, <3>3 DEF Live
    <3> QED BY <3>1, <3>2, <3>4 DEF Kinds, Keeps, callerVars
  <2>5. ~RunPanic(r)
    BY DEF RunPanic
  <2> QED BY <1>8, <2>1, <2>2, <2>3, <2>4, <2>5 DEF RunStep
<1>9. ASSUME NEW h \in Handlers, NEW op \in {"add", "remove_has", "restart_has"}, Begin(h, op)
      PROVE  RestartsKept /\ Kinds
  <2>1. /\ UNCHANGED <<created, run, files, recorded, old, new, carried, sent>>
        /\ pc[h] = "idle" /\ pc' = [pc EXCEPT ![h] = op]
    BY <1>9 DEF Begin, Goto, managerVars, recorderVars, observerVars
  <2> QED BY <1>0, <1>6, <2>1 DEF Restart
<1>10. CASE Shutdown \/ UNCHANGED vars
  <2>1. UNCHANGED <<created, run, files, recorded, sent, callerVars>>
    BY <1>10 DEF Shutdown, vars, managerVars, recorderVars, observerVars
  <2>2. RestartsKept /\ \A r \in Recs : Live(r)' = Live(r)
    BY <1>4, <2>1 DEF Live
  <2> QED BY <2>1, <2>2 DEF Kinds, Keeps, callerVars
<1> QED BY <1>5, <1>7, <1>8, <1>9, <1>10 DEF Next, ManagerNext

\* A summary has its segments in recording order and without duplicates, and no segment is in
\* two summaries, as long as tryRecord does not panic: a panicked recorder sends its summary,
\* and the restart that replaces it afterwards hands over the same list again.
THEOREM SummariesInOrder == ~Panics /\ Spec => []SummariesOrdered
<1> SUFFICES ASSUME ~Panics PROVE Spec => []SummariesOrdered
  OBVIOUS
<1>1. IInv /\ IInv' /\ SegIInv /\ SumIInv /\ [Next]_vars => SumIInv'
  <2> SUFFICES ASSUME IInv, IInv', SegIInv, SumIInv, [Next]_vars PROVE SumIInv'
    OBVIOUS
  <2>1. RunsIInv'
    BY NextRuns DEF SumIInv
  <2>2. RestartsKept /\ Kinds
    BY NextKinds DEF SumIInv
  <2> QED BY <2>1, <2>2, NextInOrder, NextComplete, NextOnce DEF SumIInv, IInv
<1>2. SumIInv => SummariesOrdered
  <2> SUFFICES ASSUME SumIInv PROVE SummariesOrdered
    OBVIOUS
  <2>1. \A r \in Recs : <<"summary", r>> \in Places
                        /\ contents[<<"summary", r>>] = Elements(sent[r])
    BY DEF contents, Places
  <2>2. \A r, q \in Recs : r # q => Elements(sent[r]) \cap Elements(sent[q]) = {}
    BY <2>1 DEF SumIInv, Once, Disjoint
  <2> QED BY <2>2 DEF SumIInv, InOrder, Increasing, SummariesOrdered
<1> QED BY <1>1, <1>2, InitSumIInv, InitSegIInv, NextSegments, Invariance, PTL DEF Spec

------------------------------------------------------------------------------
(* One room from end to end *)

\* Seen from the recorder manager, the listeners and the requests of RoomLifecycle are
\* callers like any other: whatever the manager guarantees, it guarantees there.
THEOREM LifecycleUsesManager == LifecycleSpec => Spec
<1>1. LifecycleInit => Init
  BY DEF LifecycleInit
<1>2. [LifecycleNext]_lifecycleVars => [Next]_vars
  <2>1. ASSUME NEW op, op \in {"add", "remove_has", "restart_has"}, Dispatch(op)
        PROVE  Next
    BY <2>1 DEF Dispatch, Next
  <2>2. ASSUME NEW l \in Listeners, ProcessInfo(l)
        PROVE  [Next]_vars
    <3>1. PICK op : /\ op = Diff(lstatus[l], linfo[l])
                    /\ (op # "none" /\ Dispatch(op)) \/ UNCHANGED vars
      BY <2>2 DEF ProcessInfo
    <3>2. op \in {"add", "remove_has", "restart_has", "none"}
      BY <3>1 DEF Diff
    <3> QED BY <2>1, <3>1, <3>2
  <2>3. ASSUME LifecycleNext
        PROVE  [Next]_vars
    BY <2>1, <2>2, <2>3 DEF LifecycleNext, Next, AddListener, RemoveListener, LoadInfo,
       RefreshFailed, ListenerExit, StartRecording, StopRecording, RunOffline
  <2> QED BY <2>3 DEF lifecycleVars
<1> QED BY <1>1, <1>2, PTL DEF LifecycleSpec, Spec

\* Where a listener's goroutine is, and what it then knows. Unless a listener is interrupted,
\* it is stopped with no answer in hand.
ListenersHold ==
    /\ \A l, k \in Listeners : lstate[l] = "running" /\ lstate[k] = "running" => l = k
    /\ \A l \in Listeners :
        /\ lstate[l] = "none" => lpc[l] = "none"
        /\ lstate[l] = "running" => lpc[l] \in {"refresh", "fetch", "process"}
        /\ lstate[l] = "stopped" => lpc[l] \in {"fetch", "ended"}
        /\ lpc[l] \in {"none", "refresh"} => ~lstatus[l] /\ linfo[l] = "offline"
        /\ lpc[l] = "fetch" => (lstatus[l] <=> linfo[l] # "offline")

\* Handlers reach the manager's lock one at a time.
OneEarly == \A h, g \in Handlers : pc[h] \in Early /\ pc[g] \in Early => h = g

\* A listener that holds the room for live, or is about to.
Hot(l) == lstate[l] = "running" /\ (lstatus[l] \/ (lpc[l] = "process" /\ linfo[l] # "offline"))

Removing == \E h \in Handlers : pc[h] \in {"remove_has", "remove"}
Adding   == \E h \in Handlers : pc[h] = "add"

\* What is not to be recorded is not, or is being removed.
EndsFollow == (\A l \in Listeners : ~Hot(l)) => Removing \/ (savers = NoRec /\ ~Adding)

\* What is to be recorded is, or is being added.
StartsFollow ==
    (~ended /\ \E l \in Listeners : lstate[l] = "running" /\ lstatus[l])
        => Adding \/ (savers # NoRec /\ ~Removing)

LifeTypes ==
    /\ lstate \in [Listeners -> {"none", "running", "stopped"}]
    /\ lpc \in [Listeners -> {"none", "refresh", "fetch", "process", "ended"}]
    /\ linfo \in [Listeners -> {"offline", "live", "renamed"}]
    /\ lstatus \in [Listeners -> BOOLEAN]
    /\ ended \in BOOLEAN

LifeIInv == LifeTypes /\ ListenersHold /\ OneEarly /\ EndsFollow /\ StartsFollow

LEMMA InitLife == LifecycleInit => LifeIInv
<1> SUFFICES ASSUME LifecycleInit PROVE LifeIInv
  OBVIOUS
<1>1. \A h \in Handlers : pc[h] = "idle"
  BY DEF LifecycleInit, Init, Procs
<1>2. savers = NoRec
  BY DEF LifecycleInit, Init
<1> QED BY <1>1, <1>2 DEF LifecycleInit, LifeIInv, LifeTypes, ListenersHold, OneEarly, EndsFollow,
           StartsFollow, Adding, Early

\* What a step of the manager does to the events that are under way.
Settles ==
    /\ \A h \in Handlers : pc'[h] \in Early => pc[h] \in Early
    /\ Adding' => Adding
    /\ Removing' => Removing
    /\ Adding => Adding' \/ savers' # NoRec
    /\ Removing => Removing' \/ savers' = NoRec
    /\ savers = NoRec => Adding \/ savers' = NoRec
    /\ savers # NoRec => Removing \/ savers' # NoRec

\* Of the event handlers, at most q moves.
Only(q, next) == pc'[q] = next /\ \A h \in Handlers : h # q => pc'[h] = pc[h]

LEMMA ManagerSettles ==
    ASSUME IInv, ManagerNext
    PROVE  Settles
<1>0. HoldingTypes /\ Recs \subseteq Procs /\ Handlers \subseteq Procs /\ Handlers \cap Recs = {}
  BY ConstantsAssumption DEF IInv, TypeOK, HoldingTypes, Procs
<1>1. ASSUME CreateRecorder
      PROVE  savers' # NoRec /\ created + 1 \in Recs /\ pc[created + 1] = "idle"
  <2>1. created < MaxRecs /\ savers' = created + 1
    BY <1>1 DEF CreateRecorder
  <2>2. created + 1 \in Recs /\ pc[created + 1] = "idle"
    BY <1>0, <2>1, NextIsFresh DEF IInv
  <2> QED BY <2>1, <2>2, ConstantsAssumption
<1>2. ASSUME NEW q \in Procs, NEW next, NEW r \in Recs, r # q,
             pc' = CronOf(r, [pc EXCEPT ![q] = next])
      PROVE  Only(q, next)
  BY <1>0, <1>2 DEF CronOf, HoldingTypes, Only
<1>3. ASSUME NEW q \in Procs, NEW next, pc' = [pc EXCEPT ![q] = next]
      PROVE  Only(q, next)
  BY <1>0, <1>3 DEF HoldingTypes, Only
\* a caller that has nothing to add or to remove
<1>4. ASSUME NEW q \in Procs, NEW next, Only(q, next), next \in Early => pc[q] \in Early,
             pc[q] \notin {"add", "remove_has", "remove"},
             next \notin {"add", "remove_has", "remove"},
             savers' = savers \/ (savers # NoRec /\ savers' # NoRec)
      PROVE  Settles
  <2>1. \A h \in Handlers : pc'[h] \in Early => pc[h] \in Early
    BY <1>4 DEF Only
  <2>2. Adding' <=> Adding
    BY <1>4 DEF Adding, Only
  <2>3. Removing' <=> Removing
    BY <1>4 DEF Removing, Only
  <2> QED BY <1>4, <2>1, <2>2, <2>3 DEF Settles
\* a handler that adds, removes, or finds a recorder to remove
<1>5. ASSUME NEW h \in Handlers, NEW next, Only(h, next),
             \/ pc[h] = "add" /\ next = "idle" /\ savers' # NoRec
             \/ pc[h] \in {"remove_has", "remove"} /\ next = "idle" /\ savers' = NoRec
             \/ pc[h] = "remove_has" /\ next = "remove" /\ savers' = savers
      PROVE  Settles
  <2>1. \A g \in Handlers : pc'[g] \in Early => pc[g] \in Early
    BY <1>5 DEF Only, Early
  <2>2. Adding' => Adding
    BY <1>5 DEF Adding, Only
  <2>3. Removing' => Removing
    BY <1>5 DEF Removing, Only
  <2>4. Adding => Adding' \/ savers' # NoRec
    BY <1>5 DEF Adding, Only
  <2>5. Removing => Removing' \/ savers' = NoRec
    BY <1>5 DEF Removing, Only
  <2>6. /\ (savers = NoRec => Adding \/ savers' = NoRec)
        /\ (savers # NoRec => Removing \/ savers' # NoRec)
    BY <1>5 DEF Adding, Removing
  <2> QED BY <2>1, <2>2, <2>3, <2>4, <2>5, <2>6 DEF Settles
<1>6. ASSUME NEW p \in Procs, RestartStep(p)
      PROVE  Settles
  <2>1. CASE Swap(p) /\ savers # NoRec
    <3>1. /\ pc[p] = "swap" /\ CreateRecorder
          /\ pc' = CronOf(created + 1, [pc EXCEPT ![p] = "suppress"])
      BY <2>1 DEF Swap
    <3>2. Only(p, "suppress") /\ savers' # NoRec
      BY <1>1, <1>2, <3>1
    <3> QED BY <1>4, <2>1, <3>1, <3>2 DEF Early
  <2>2. CASE (Swap(p) /\ savers = NoRec) \/ RestartSuppress(p) \/ RestartClose(p) \/ RestartTake(p)
             \/ RestartCheck(p) \/ RestartHandover(p) \/ RestartDone(p)
    <3>1. /\ savers' = savers /\ pc[p] \in Restart \cup {"swap"}
          /\ \E next \in {"idle", "close", "wait", "uncount", "check", "handover"} :
                pc' = [pc EXCEPT ![p] = next]
      BY <2>2 DEF Swap, RestartSuppress, RestartClose, RestartTake, RestartCheck, RestartHandover,
         RestartDone, Return, Goto, Restart, managerVars
    <3>2. PICK next \in {"idle", "close", "wait", "uncount", "check", "handover"} : Only(p, next)
      BY <1>3, <3>1
    <3> QED BY <1>4, <3>1, <3>2 DEF Early, Restart
  <2> QED BY <1>6, <2>1, <2>2 DEF RestartStep
<1>7. ASSUME NEW h \in Handlers, HandlerStep(h)
      PROVE  Settles
  <2>1. CASE Add(h)
    <3>1. CASE savers = NoRec
      <4>1. pc[h] = "add" /\ CreateRecorder
            /\ pc' = CronOf(created + 1, [pc EXCEPT ![h] = "idle"])
        BY <2>1, <3>1 DEF Add
      <4>2. Only(h, "idle") /\ savers' # NoRec
        BY <1>0, <1>1, <1>2, <4>1
      <4> QED BY <1>5, <4>1, <4>2
    <3>2. CASE savers # NoRec
      <4>1. pc[h] = "add" /\ pc' = [pc EXCEPT ![h] = "idle"] /\ savers' = savers
        BY <2>1, <3>2 DEF Add, Goto, managerVars
      <4> QED BY <1>0, <1>3, <1>5, <3>2, <4>1
    <3> QED BY <3>1, <3>2
  <2>2. CASE RemoveHas(h)
    <3>1. /\ pc[h] = "remove_has" /\ savers' = savers
          /\ pc' = [pc EXCEPT ![h] = IF savers = NoRec THEN "idle" ELSE "remove"]
      BY <2>2 DEF RemoveHas, Goto, managerVars
    <3>2. Only(h, IF savers = NoRec THEN "idle" ELSE "remove")
      BY <1>0, <1>3, <3>1
    <3>3. CASE savers = NoRec
      BY <1>5, <3>1, <3>2, <3>3
    <3>4. CASE savers # NoRec
      BY <1>5, <3>1, <3>2, <3>4
    <3> QED BY <3>3, <3>4
  <2>3. CASE Remove(h)
    <3>1. pc[h] = "remove" /\ pc' = [pc EXCEPT ![h] = "idle"] /\ savers' = NoRec
      BY <2>3 DEF Remove, Goto
    <3> QED BY <1>0, <1>3, <1>5, <3>1
  <2>4. CASE RestartHas(h)
    <3>1. /\ pc[h] = "restart_has" /\ savers' = savers
          /\ \E next \in {"idle", "swap"} : pc' = [pc EXCEPT ![h] = next]
      BY <2>4 DEF RestartHas, Goto, managerVars
    <3> QED BY <1>0, <1>3, <1>4, <3>1 DEF Early
  <2> QED BY <1>7, <2>1, <2>2, <2>3, <2>4 DEF HandlerStep
<1>8. ASSUME NEW r \in Recs, CronCheck(r)
      PROVE  Settles
  <2>1. /\ pc[r] = "timer" /\ savers' = savers
        /\ \E next \in {"idle", "swap"} : pc' = [pc EXCEPT ![r] = next]
    BY <1>8 DEF CronCheck, Goto, managerVars
  <2>2. \A h \in Handlers : pc'[h] = pc[h]
    BY <1>0, <2>1 DEF HoldingTypes
  <2> QED BY <2>1, <2>2 DEF Settles, Adding, Removing
<1>9. ASSUME NEW r \in Recs, RunStep(r) \/ RunPanic(r) \/ Age(r)
      PROVE  Settles
  <2>1. pc' = pc /\ savers' = savers
    BY <1>9 DEF RunStep, RunSegment, RunLeave, RunSummary, RunDone, RunPanic, Age, managerVars,
       callerVars
  <2> QED BY <2>1 DEF Settles, Adding, Removing
<1> QED BY <1>6, <1>7, <1>8, <1>9 DEF ManagerNext

LEMMA OneDispatched ==
    ASSUME HoldingTypes, Prompt, NEW op \in {"add", "remove_has", "restart_has"}, Dispatch(op)
    PROVE  /\ ~Adding /\ ~Removing /\ OneEarly' /\ savers' = savers
           /\ Adding' <=> op = "add"
           /\ Removing' <=> op = "remove_has"
<1>1. PICK h \in Handlers : /\ pc' = [pc EXCEPT ![h] = op] /\ savers' = savers
                            /\ \A g \in Handlers : pc[g] \notin Early
  BY DEF Dispatch, Begin, Goto, managerVars
<1>2. pc'[h] = op /\ \A g \in Handlers : g # h => pc'[g] = pc[g]
  BY <1>1 DEF HoldingTypes, Procs
<1>3. \A g \in Handlers : g # h => pc'[g] \notin Early
  BY <1>1, <1>2
<1> QED BY <1>1, <1>2, <1>3 DEF OneEarly, Adding, Removing, Early

LEMMA NextLife ==
    ASSUME Prompt, ~Interrupts, IInv, LifeIInv, [LifecycleNext]_lifecycleVars
    PROVE  LifeIInv'
<1>0. LifeTypes /\ ListenersHold /\ OneEarly /\ EndsFollow /\ StartsFollow /\ HoldingTypes
  BY DEF LifeIInv, IInv, TypeOK, HoldingTypes
<1>1. Adding /\ Removing => FALSE
  BY <1>0 DEF OneEarly, Adding, Removing, Early
\* a step of one listener
<1>2. ASSUME NEW l \in Listeners,
             \A k \in Listeners : k # l => /\ lstate'[k] = lstate[k] /\ lpc'[k] = lpc[k]
                                           /\ linfo'[k] = linfo[k] /\ (lstatus'[k] <=> lstatus[k]),
             lstate'[l] = "running" => \A k \in Listeners : k # l => lstate[k] # "running",
             lstate'[l] # "none",
             lstate'[l] = "running" => lpc'[l] \in {"refresh", "fetch", "process"},
             lstate'[l] = "stopped" => lpc'[l] \in {"fetch", "ended"},
             lpc'[l] \in {"none", "refresh"} => ~lstatus'[l] /\ linfo'[l] = "offline",
             lpc'[l] = "fetch" => (lstatus'[l] <=> linfo'[l] # "offline")
      PROVE  ListenersHold' /\ \A k \in Listeners : k # l => (Hot(k)' <=> Hot(k))
  <2>1. \A j, k \in Listeners : lstate'[j] = "running" /\ lstate'[k] = "running" => j = k
    BY <1>0, <1>2 DEF ListenersHold
  <2>2. ASSUME NEW k \in Listeners
        PROVE  /\ lstate'[k] = "none" => lpc'[k] = "none"
               /\ lstate'[k] = "running" => lpc'[k] \in {"refresh", "fetch", "process"}
               /\ lstate'[k] = "stopped" => lpc'[k] \in {"fetch", "ended"}
               /\ lpc'[k] \in {"none", "refresh"} => ~lstatus'[k] /\ linfo'[k] = "offline"
               /\ lpc'[k] = "fetch" => (lstatus'[k] <=> linfo'[k] # "offline")
    <3>1. CASE k = l
      BY <1>2, <3>1
    <3>2. CASE k # l
      BY <1>0, <1>2, <3>2 DEF ListenersHold
    <3> QED BY <3>1, <3>2
  <2>3. ListenersHold'
    BY <2>1, <2>2 DEF ListenersHold
  <2> QED BY <1>2, <2>3 DEF Hot
<1>3. \A l \in Listeners : lstatus[l] \in BOOLEAN /\ linfo[l] \in {"offline", "live", "renamed"}
  BY <1>0 DEF LifeTypes
<1>4. ASSUME UNCHANGED vars
      PROVE  OneEarly' /\ savers' = savers /\ (Adding' <=> Adding) /\ (Removing' <=> Removing)
  BY <1>0, <1>4 DEF vars, managerVars, callerVars, OneEarly, Adding, Removing
<1>5. CASE ManagerNext /\ UNCHANGED listenerVars
  <2>1. Settles
    BY <1>5, ManagerSettles
  <2>2. OneEarly'
    BY <1>0, <2>1 DEF Settles, OneEarly
  <2>3. LifeTypes' /\ ListenersHold' /\ \A l \in Listeners : Hot(l)' <=> Hot(l)
    BY <1>0, <1>5 DEF listenerVars, LifeTypes, ListenersHold, Hot
  <2>4. EndsFollow'
    BY <1>0, <1>1, <2>1, <2>3 DEF Settles, EndsFollow
  <2>5. StartsFollow'
    BY <1>0, <1>1, <1>5, <2>1 DEF Settles, StartsFollow, listenerVars
  <2> QED BY <2>2, <2>3, <2>4, <2>5 DEF LifeIInv
<1>6. ASSUME NEW l \in Listeners, AddListener(l)
      PROVE  LifeIInv'
  <2>1. /\ \A k \in Listeners : lstate[k] # "running"
        /\ lstate[l] = "none" /\ ended' = ended
        /\ lstate' = [lstate EXCEPT ![l] = "running"] /\ lpc' = [lpc EXCEPT ![l] = "refresh"]
        /\ linfo' = linfo /\ lstatus' = lstatus /\ UNCHANGED vars
    BY <1>6 DEF AddListener, Monitored
  <2>2. lpc[l] = "none" /\ ~lstatus[l] /\ linfo[l] = "offline"
    BY <1>0, <2>1 DEF ListenersHold
  <2>3. /\ LifeTypes' /\ ~lstatus'[l] /\ linfo'[l] = "offline"
        /\ lstate'[l] = "running" /\ lpc'[l] = "refresh"
        /\ \A k \in Listeners : k # l => lstate'[k] = lstate[k] /\ lpc'[k] = lpc[k]
    BY <1>0, <2>1, <2>2 DEF LifeTypes
  <2>7. ListenersHold'
    BY <1>2, <2>1, <2>3
  <2>4. \A k \in Listeners : ~Hot(k)
    BY <2>1 DEF Hot
  <2>5. EndsFollow'
    BY <1>0, <1>4, <2>1, <2>4 DEF EndsFollow
  <2>6. StartsFollow'
    BY <2>1, <2>3 DEF StartsFollow
  <2> QED BY <1>4, <2>1, <2>3, <2>5, <2>6, <2>7 DEF LifeIInv
<1>7. ASSUME NEW l \in Listeners, RemoveListener(l)
      PROVE  LifeIInv'
  <2>1. /\ lstate[l] = "running" /\ lpc[l] = "fetch" /\ Dispatch("remove_has")
        /\ lstate' = [lstate EXCEPT ![l] = "stopped"]
        /\ UNCHANGED <<lpc, linfo, lstatus, ended>>
    BY <1>7 DEF RemoveListener
  <2>2. lstatus[l] <=> linfo[l] # "offline"
    BY <1>0, <2>1 DEF ListenersHold
  <2>3. /\ LifeTypes' /\ lstate'[l] = "stopped"
        /\ \A k \in Listeners : k # l => lstate'[k] = lstate[k]
    BY <1>0, <2>1 DEF LifeTypes
  <2>6. ListenersHold'
    BY <1>2, <2>1, <2>2, <2>3
  <2>4. \A k \in Listeners : lstate'[k] # "running"
    BY <1>0, <2>1, <2>3 DEF ListenersHold
  <2>5. OneEarly' /\ Removing'
    BY <1>0, <2>1, OneDispatched
  <2> QED BY <2>3, <2>4, <2>5, <2>6 DEF LifeIInv, EndsFollow, StartsFollow
<1>8. ASSUME NEW l \in Listeners, LoadInfo(l)
      PROVE  LifeIInv'
  <2>1. PICK info \in {"offline", "live", "renamed"} : linfo' = [linfo EXCEPT ![l] = info]
    BY <1>8 DEF LoadInfo
  <2>2. /\ lpc[l] = "refresh" \/ (lpc[l] = "fetch" /\ lstate[l] = "running")
        /\ lpc' = [lpc EXCEPT ![l] = "process"]
        /\ UNCHANGED <<vars, lstate, lstatus, ended>>
    BY <1>8 DEF LoadInfo
  <2>3. lstate[l] = "running" /\ \A k \in Listeners : k # l => lstate[k] # "running"
    BY <1>0, <2>2 DEF ListenersHold, LifeTypes
  <2>4. /\ LifeTypes' /\ lpc'[l] = "process"
        /\ \A k \in Listeners : k # l => lpc'[k] = lpc[k] /\ linfo'[k] = linfo[k]
    BY <1>0, <2>1, <2>2 DEF LifeTypes
  <2>8. ListenersHold' /\ \A k \in Listeners : k # l => (Hot(k)' <=> Hot(k))
    BY <1>2, <2>2, <2>3, <2>4
  <2>5. \A k \in Listeners : Hot(k) => Hot(k)'
    BY <2>2, <2>3, <2>8 DEF Hot
  <2>6. EndsFollow'
    BY <1>0, <1>4, <2>2, <2>5 DEF EndsFollow
  <2>7. StartsFollow'
    BY <1>0, <1>4, <2>2 DEF StartsFollow
  <2> QED BY <1>4, <2>2, <2>4, <2>6, <2>7, <2>8 DEF LifeIInv
<1>9. ASSUME NEW l \in Listeners, RefreshFailed(l) \/ ListenerExit(l)
      PROVE  LifeIInv'
  <2>1. PICK at \in {"fetch", "ended"} : lpc' = [lpc EXCEPT ![l] = at]
             /\ \/ at = "fetch" /\ lpc[l] = "refresh"
                \/ at = "ended" /\ lpc[l] = "fetch" /\ lstate[l] = "stopped"
    BY <1>9 DEF RefreshFailed, ListenerExit
  <2>2. UNCHANGED <<vars, lstate, linfo, lstatus, ended>>
    BY <1>9 DEF RefreshFailed, ListenerExit
  <2>3. \/ at = "fetch" /\ lstate[l] = "running" /\ ~lstatus[l] /\ linfo[l] = "offline"
        \/ at = "ended" /\ lstate[l] = "stopped"
    BY <1>0, <2>1 DEF ListenersHold, LifeTypes
  <2>4. lstate[l] = "running" => \A k \in Listeners : k # l => lstate[k] # "running"
    BY <1>0 DEF ListenersHold
  <2>5. LifeTypes' /\ ListenersHold' /\ \A k \in Listeners : k # l => (Hot(k)' <=> Hot(k))
    <3>1. /\ LifeTypes' /\ lpc'[l] = at
          /\ \A k \in Listeners : k # l => lpc'[k] = lpc[k]
      BY <1>0, <2>1, <2>2 DEF LifeTypes
    <3> QED BY <1>2, <2>2, <2>3, <2>4, <3>1
  <2>6. \A k \in Listeners : Hot(k) => Hot(k)'
    BY <2>2, <2>3, <2>5 DEF Hot
  <2>7. EndsFollow'
    BY <1>0, <1>4, <2>2, <2>6 DEF EndsFollow
  <2>8. StartsFollow'
    BY <1>0, <1>4, <2>2 DEF StartsFollow
  <2> QED BY <1>4, <2>2, <2>5, <2>7, <2>8 DEF LifeIInv
<1>10. ASSUME NEW l \in Listeners, ProcessInfo(l)
       PROVE  LifeIInv'
  <2>1. PICK event : event = Diff(lstatus[l], linfo[l])
    OBVIOUS
  <2>2. /\ lpc[l] = "process" /\ lpc' = [lpc EXCEPT ![l] = "fetch"]
        /\ lstatus' = [lstatus EXCEPT ![l] = linfo[l] # "offline"]
        /\ ended' = (ended /\ event # "add")
        /\ UNCHANGED <<lstate, linfo>>
        /\ (event # "none" /\ Dispatch(event)) \/ (event \in {"none", "restart_has"} /\
             UNCHANGED vars)
    BY <1>10, <2>1 DEF ProcessInfo
  <2>3. lstate[l] = "running" /\ \A k \in Listeners : k # l => lstate[k] # "running"
    BY <1>0, <2>2 DEF ListenersHold, LifeTypes
  <2>4. /\ LifeTypes' /\ ListenersHold' /\ lstate'[l] = "running" /\ lpc'[l] = "fetch"
        /\ (lstatus'[l] <=> linfo[l] # "offline")
        /\ \A k \in Listeners : k # l => lstate'[k] = lstate[k] /\ (Hot(k)' <=> Hot(k))
    <3>1. /\ LifeTypes' /\ lpc'[l] = "fetch" /\ (lstatus'[l] <=> linfo[l] # "offline")
          /\ \A k \in Listeners : k # l => lpc'[k] = lpc[k] /\ (lstatus'[k] <=> lstatus[k])
      BY <1>0, <2>2 DEF LifeTypes
    <3> QED BY <1>2, <2>2, <2>3, <3>1
  <2>5. /\ event = "add" <=> (~lstatus[l] /\ linfo[l] # "offline")
        /\ event = "remove_has" <=> (lstatus[l] /\ linfo[l] = "offline")
        /\ event \in {"none", "add", "remove_has", "restart_has"}
    BY <2>1 DEF Diff
  <2>6. CASE event = "remove_has"
    <3>1. OneEarly' /\ Removing'
      BY <1>0, <2>2, <2>6, OneDispatched
    <3>2. \A k \in Listeners : lstate'[k] = "running" => ~lstatus'[k]
      BY <2>3, <2>4, <2>5, <2>6
    <3> QED BY <2>4, <3>1, <3>2 DEF LifeIInv, EndsFollow, StartsFollow
  <2>7. CASE event = "add"
    <3>1. OneEarly' /\ Adding'
      BY <1>0, <2>2, <2>7, OneDispatched
    <3>2. Hot(l)'
      BY <2>4, <2>5, <2>7 DEF Hot
    <3> QED BY <2>4, <3>1, <3>2 DEF LifeIInv, EndsFollow, StartsFollow
  <2>8. CASE event \in {"none", "restart_has"}
    <3>1. lstatus'[l] <=> lstatus[l]
      <4>1. lstatus[l] \in BOOLEAN
        BY <1>3
      <4> QED BY <2>4, <2>5, <2>8, <4>1
    <3>2. (ended' <=> ended) /\ \A k \in Listeners : Hot(k)' <=> Hot(k)
      BY <1>3, <2>2, <2>3, <2>4, <2>8, <3>1 DEF Hot
    <3>3. OneEarly' /\ savers' = savers /\ (Adding' <=> Adding) /\ (Removing' <=> Removing)
      <4>1. CASE UNCHANGED vars
        BY <1>4, <4>1
      <4>2. CASE event = "restart_has" /\ Dispatch(event)
        BY <1>0, <4>2, OneDispatched
      <4> QED BY <2>2, <2>8, <4>1, <4>2
    <3>4. \A k \in Listeners : lstate'[k] = "running" /\ lstatus'[k]
                                => lstate[k] = "running" /\ lstatus[k]
      BY <2>3, <2>4, <3>1
    <3>5. EndsFollow'
      BY <1>0, <3>2, <3>3 DEF EndsFollow
    <3>6. StartsFollow'
      BY <1>0, <3>2, <3>3, <3>4 DEF StartsFollow
    <3> QED BY <2>4, <3>3, <3>5, <3>6 DEF LifeIInv
  <2> QED BY <2>5, <2>6, <2>7, <2>8
<1>11. CASE StopRecording \/ \E r \in Recs : RunOffline(r)
  <2>1. Dispatch("remove_has") /\ ended' = TRUE /\ UNCHANGED <<lstate, lpc, linfo, lstatus>>
    BY <1>11 DEF StopRecording, RunOffline
  <2>2. OneEarly' /\ Removing'
    BY <1>0, <2>1, OneDispatched
  <2>3. LifeTypes' /\ ListenersHold'
    BY <1>0, <2>1 DEF LifeTypes, ListenersHold
  <2> QED BY <2>1, <2>2, <2>3 DEF LifeIInv, EndsFollow, StartsFollow
<1>12. CASE StartRecording
  <2>1. PICK l \in Listeners : lstate[l] = "running" /\ linfo[l] # "offline"
    BY <1>12 DEF StartRecording
  <2>2. Dispatch("add") /\ UNCHANGED <<lstate, lpc, linfo, lstatus, ended>>
    BY <1>12 DEF StartRecording, listenerVars
  <2>3. Hot(l)
    BY <1>0, <2>1 DEF ListenersHold, Hot
  <2>4. OneEarly' /\ Adding'
    BY <1>0, <2>2, OneDispatched
  <2>5. LifeTypes' /\ ListenersHold' /\ Hot(l)'
    BY <1>0, <2>2, <2>3 DEF LifeTypes, ListenersHold, Hot
  <2> QED BY <2>4, <2>5 DEF LifeIInv, EndsFollow, StartsFollow
<1>13. CASE UNCHANGED lifecycleVars
  <2>1. UNCHANGED vars /\ UNCHANGED <<lstate, lpc, linfo, lstatus, ended>>
    BY <1>13 DEF lifecycleVars, listenerVars
  <2>2. LifeTypes' /\ ListenersHold' /\ \A l \in Listeners : Hot(l)' <=> Hot(l)
    BY <1>0, <2>1 DEF LifeTypes, ListenersHold, Hot
  <2> QED BY <1>0, <1>4, <2>1, <2>2 DEF LifeIInv, EndsFollow, StartsFollow
<1> QED BY <1>5, <1>6, <1>7, <1>8, <1>9, <1>10, <1>11, <1>12, <1>13 DEF LifecycleNext

LEMMA LifeInvariance == Prompt /\ ~Interrupts /\ LifecycleSpec => []LifeIInv
<1> SUFFICES ASSUME Prompt, ~Interrupts PROVE LifecycleSpec => []LifeIInv
  OBVIOUS
<1>1. IInv /\ LifeIInv /\ [LifecycleNext]_lifecycleVars => LifeIInv'
  BY NextLife
<1> QED BY <1>1, InitLife, LifecycleUsesManager, Invariance, PTL DEF LifecycleSpec

\* A recorder never survives the monitoring of its room or its room's going offline, for
\* any number of handlers, cron chains and listeners, if handlers keep up with the events
\* and listeners are not interrupted with an answer in hand.
THEOREM NoRecorderSurvives == Prompt /\ ~Interrupts /\ LifecycleSpec => []NoZombieRecorder
<1>1. LifeIInv => NoZombieRecorder
  BY DEF LifeIInv, EndsFollow, Hot, Removing, NoZombieRecorder, Quiet
<1> QED BY <1>1, LifeInvariance, PTL

\* A room that its listener holds for live is recorded, whatever restarts and removals of
\* earlier recordings overlap with its LiveStart, under the same two conditions.
THEOREM LiveIsRecorded == Prompt /\ ~Interrupts /\ LifecycleSpec => []NoMissedLive
<1>1. LifeIInv => NoMissedLive
  BY DEF LifeIInv, StartsFollow, Adding, NoMissedLive, Quiet
<1> QED BY <1>1, LifeInvariance, PTL
=============================================================================
