--------------------------- MODULE ConfigStoreProofs ---------------------------
(***************************************************************************)
(* What updateWithRetryImpl guarantees for every number of requests, rooms *)
(* and retries, while others write the file and publish a raw text outside *)
(* its lock and the process may end at any step: an update takes nothing   *)
(* away that was set by another.                                           *)
(***************************************************************************)
EXTENDS ConfigStore, TLAPS

\* The writers outside the lock, and what the lock is without a holder, are no requests.
NamesApart == Requests \cap {"raw", "save", "free", "down"} = {}

Config == [rooms : SUBSET Rooms, edits : SUBSET Requests, text : Nat]

Labels == {"idle", "cas", "open", "write", "publish", "again", "rewrite", "edited", "apply", "ok",
           "error", "lost"}

\* Between its clone and its end, an update holds the lock.
Updating(q) == pc[q] \in {"open", "write", "publish"}

\* What d leaves out of c is a room's that d does not have.
Carries(d, c) ==
    \A e \in c.edits : e \in d.edits \/ (EditsRoom(e) /\ room[e] \notin d.rooms)

CfgTypes ==
    /\ mem \in Config /\ disk \in Config /\ new \in [Writers -> Config]
    /\ seen \in [Requests -> Config]
    /\ room \in [Requests -> Rooms] /\ op \in [Requests -> Kinds]
    /\ pc \in [Writers -> Labels]

\* One request updates at a time, and none while the process is down.
Locked == lock \in Requests \cup {"free", "down"} /\ \A q \in Requests : Updating(q) <=> lock = q

\* Until a raw text is published, every configuration comes from none.
OneText ==
    /\ pc["raw"] = "edited" => new["raw"].text = 1
    /\ pc["raw"] \in {"idle", "edited"} =>
        mem.text = 0 /\ disk.text = 0 /\ \A w \in Writers \ {"raw"} : new[w].text = 0

\* What an update is about to publish carries on what is published, unless a raw text
\* was published after its clone.
Current ==
    \A q \in Requests : Updating(q) => Carries(new[q], mem) \/ (overtaken /\ new[q].text < mem.text)

CfgIInv == CfgTypes /\ Locked /\ OneText /\ Current

LEMMA StartIsConfig == Start \in Config /\ Start.text = 0 /\ Default \in Config
BY DEF Start, Default, Config

LEMMA CfgInit == NamesApart /\ Init => CfgIInv
<1> SUFFICES ASSUME NamesApart, Init
             PROVE  CfgIInv
    OBVIOUS
<1>1. CfgTypes
  BY StartIsConfig DEF Init, CfgTypes, Labels
<1>2. Locked /\ Current
  BY DEF Init, Locked, Current, Updating, Writers, NamesApart
<1>3. OneText
  BY StartIsConfig DEF Init, OneText, Writers
<1> QED BY <1>1, <1>2, <1>3 DEF CfgIInv

\* An edit of q carries on the configuration it is applied to.
LEMMA ApplyCarries ==
    ASSUME CfgTypes, NEW q \in Requests, NEW c \in Config
    PROVE  /\ Apply(q, c) \in Config
           /\ Apply(q, c).text = c.text
           /\ Carries(Apply(q, c), c)
<1>1. CASE op[q] = "append"
  BY <1>1 DEF Apply, Config, Carries, CfgTypes
<1>2. CASE op[q] = "remove"
  BY <1>2 DEF Apply, RemoveRoom, Config, Carries, CfgTypes
<1>3. CASE op[q] = "switch"
  BY <1>3 DEF Apply, Switch, Keep, Config, Carries, CfgTypes
<1>4. CASE op[q] \notin {"append", "remove", "switch"}
  BY <1>4 DEF Apply, RoomOptions, Setting, Platform, Cookie, Keep, Config, Carries, CfgTypes
<1> QED BY <1>1, <1>2, <1>3, <1>4

\* A step that changes neither a published nor a prepared configuration, and starts no
\* update, keeps the invariant.
LEMMA CfgQuietStep ==
    ASSUME CfgIInv, UNCHANGED <<op, room, memVars, disk, new, lock, overtaken>>,
           seen' \in [Requests -> Config], pc' \in [Writers -> Labels],
           \A q \in Requests : Updating(q)' <=> Updating(q),
           pc'["raw"] \in {"idle", "edited"} => pc'["raw"] = pc["raw"]
    PROVE  CfgIInv'
<1>1. CfgTypes' /\ Locked' /\ OneText'
  BY DEF CfgIInv, CfgTypes, Locked, OneText, memVars
<1>2. Current'
  BY DEF CfgIInv, Current, Carries, EditsRoom, memVars
<1> QED BY <1>1, <1>2 DEF CfgIInv

LEMMA CfgNext == NamesApart /\ CfgIInv /\ [Next]_cfgVars => CfgIInv'
<1> SUFFICES ASSUME NamesApart, CfgIInv, [Next]_cfgVars
             PROVE  CfgIInv'
    OBVIOUS
<1>1. ASSUME NEW q \in Requests, Snapshot(q)
      PROVE  CfgIInv'
  <2>1. UNCHANGED <<op, room, memVars, disk, new, lock, overtaken>>
        /\ seen' \in [Requests -> Config] /\ pc' \in [Writers -> Labels]
    BY <1>1 DEF Snapshot, Go, diskVars, CfgIInv, CfgTypes, Labels, memVars, historyVars
  <2>2. \A r \in Writers : pc'[r] = pc[r] \/ (r = q /\ pc[r] = "idle" /\ pc'[r] = "cas")
    BY <1>1 DEF Snapshot, Go, CfgIInv, CfgTypes
  <2> QED BY <2>1, <2>2, CfgQuietStep DEF Updating, NamesApart, Writers
<1>2. ASSUME NEW q \in Requests, Conflict(q)
      PROVE  CfgIInv'
  <2>1. UNCHANGED <<op, room, memVars, disk, new, lock, overtaken>>
        /\ seen' \in [Requests -> Config] /\ pc' \in [Writers -> Labels]
    BY <1>2, StartIsConfig DEF Conflict, Forget, Go, diskVars, CfgIInv, CfgTypes, Labels, memVars,
           historyVars
  <2>2. \A r \in Writers : pc'[r] = pc[r]
                           \/ (r = q /\ pc[r] = "cas" /\ pc'[r] \in {"error", "idle"})
    BY <1>2 DEF Conflict, Go, CfgIInv, CfgTypes
  <2> QED BY <2>1, <2>2, CfgQuietStep DEF Updating, NamesApart, Writers
<1>3. ASSUME NEW q \in Requests, Mutate(q)
      PROVE  CfgIInv'
  <2> DEFINE d == Apply(q, mem)
  <2>0. /\ UNCHANGED <<op, room, memVars, disk, overtaken>> /\ seen' \in [Requests -> Config]
        /\ lock = "free"
    BY <1>3, StartIsConfig DEF Mutate, Forget, diskVars, memVars, historyVars, CfgIInv, CfgTypes
  <2>1. CASE UNCHANGED <<lock, new>> /\ Go(q, "error")
    <3>1. pc' \in [Writers -> Labels]
      BY <2>1 DEF Go, CfgIInv, CfgTypes, Labels
    <3>2. \A r \in Writers : pc'[r] = pc[r] \/ (r = q /\ pc[r] = "cas" /\ pc'[r] = "error")
      BY <1>3, <2>1 DEF Mutate, Go, CfgIInv, CfgTypes
    <3> QED BY <2>0, <2>1, <3>1, <3>2, CfgQuietStep DEF Updating, NamesApart, Writers
  <2>2. CASE new' = [new EXCEPT ![q] = d] /\ lock' = q /\ Go(q, "open")
    <3>1. d \in Config /\ d.text = mem.text /\ Carries(d, mem)
      BY ApplyCarries DEF CfgIInv, CfgTypes
    <3>2. pc' \in [Writers -> Labels] /\ new' \in [Writers -> Config]
      BY <2>2, <3>1 DEF Go, CfgIInv, CfgTypes, Labels, Writers
    <3>3. q \in Writers /\ q # "raw" /\ \A r \in Requests : ~Updating(r)
      BY <2>0 DEF Writers, NamesApart, CfgIInv, Locked
    <3>4. CfgTypes'
      BY <2>0, <3>2 DEF CfgIInv, CfgTypes, memVars
    <3>5. \A r \in Writers \ {q} : pc'[r] = pc[r] /\ new'[r] = new[r]
      BY <2>2 DEF Go, CfgIInv, CfgTypes
    <3>6. new'[q] = d
      BY <2>2, <3>3 DEF CfgIInv, CfgTypes
    <3>7. Locked'
      <4>1. pc'[q] = "open"
        BY <2>2, <3>3 DEF Go, CfgIInv, CfgTypes
      <4> QED BY <2>2, <3>3, <3>5, <4>1 DEF Locked, Updating, Writers
    <3>8. OneText'
      BY <2>0, <3>1, <3>3, <3>5, <3>6 DEF OneText, CfgIInv, memVars, Writers
    <3>9. Current'
      <4>1. Carries(new[q], mem)'
        BY <2>0, <3>1, <3>6 DEF Carries, EditsRoom, memVars
      <4> QED BY <4>1, <3>3, <3>5 DEF Current, Updating, Writers
    <3> QED BY <3>4, <3>7, <3>8, <3>9 DEF CfgIInv
  <2> QED BY <1>3, <2>1, <2>2 DEF Mutate, Clone
<1>4. ASSUME NEW q \in Requests, Publish(q)
      PROVE  CfgIInv'
  <2>1. /\ UNCHANGED <<op, room, disk, seen, overtaken>> /\ mem' = new[q] /\ lock' = "free"
        /\ pc[q] = "publish" /\ lock = q /\ q \in Writers /\ q # "raw"
    BY <1>4 DEF Publish, diskVars, historyVars, CfgIInv, Locked, Updating, Writers, NamesApart
  <2>2. pc' \in [Writers -> Labels] /\ new' \in [Writers -> Config] /\ mem' \in Config
    <3>1. pc' \in [Writers -> Labels]
      BY <1>4 DEF Publish, Go, CfgIInv, CfgTypes, Labels
    <3>2. new' \in [Writers -> Config]
      BY <1>4, StartIsConfig DEF Publish, CfgIInv, CfgTypes
    <3>3. mem' \in Config
      BY <2>1 DEF CfgIInv, CfgTypes
    <3> QED BY <3>1, <3>2, <3>3
  <2>3. /\ pc'[q] \in {"again", "ok"}
        /\ \A r \in Writers \ {q} : pc'[r] = pc[r]
    BY <1>4, <2>1 DEF Publish, Go, CfgIInv, CfgTypes
  <2>4. \A r \in Writers : new'[r] \in {new[r], Start} /\ (r # q => new'[r] = new[r])
    BY <1>4 DEF Publish, CfgIInv, CfgTypes
  <2>5. \A r \in Requests : ~Updating(r)'
    BY <2>1, <2>3 DEF CfgIInv, Locked, Updating, Writers
  <2>6. OneText'
    BY <2>1, <2>3, <2>4, StartIsConfig DEF CfgIInv, OneText, Writers
  <2> QED BY <2>1, <2>2, <2>5, <2>6 DEF CfgIInv, CfgTypes, Locked, Current, NamesApart
<1>5. ASSUME NEW w \in Writers, Open(w)
      PROVE  CfgIInv'
  <2>1. UNCHANGED <<op, room, memVars, disk, seen, new, overtaken>> /\ pc[w] \in {"open", "again"}
    BY <1>5 DEF Open, memVars
  <2>2. pc' \in [Writers -> Labels]
        /\ \A r \in Writers : pc'[r] = pc[r]
                              \/ (r = w /\ pc'[r] = "write" /\ pc[r] = "open" /\ lock' = lock)
                              \/ (r = w /\ pc'[r] \in {"rewrite", "error", "ok"})
    BY <1>5 DEF Open, Go, CfgIInv, CfgTypes, Labels
  <2>3. \A r \in Requests : Updating(r)' => Updating(r)
    BY <2>2 DEF Updating, Writers
  <2>4. Locked'
    <3>1. CASE lock = w
      <4>1. w \in Requests /\ Updating(w) /\ pc[w] = "open"
        BY <2>1, <3>1 DEF CfgIInv, Locked, Updating, Writers, NamesApart
      <4> QED BY <1>5, <2>2, <3>1, <4>1
              DEF Open, Go, Updating, CfgIInv, Locked, Writers, CfgTypes, NamesApart
    <3>2. CASE lock # w
      <4>1. lock' = lock
        BY <1>5, <3>2 DEF Open
      <4>2. w \in Requests => ~Updating(w)
        BY <3>2 DEF CfgIInv, Locked
      <4> QED BY <2>2, <4>1, <4>2 DEF Updating, CfgIInv, Locked, Writers
    <3> QED BY <3>1, <3>2
  <2>5. CfgTypes'
    BY <2>1, <2>2 DEF CfgIInv, CfgTypes, memVars
  <2>6. OneText'
    BY <2>1, <2>2 DEF CfgIInv, OneText, Writers, memVars
  <2>7. Current'
    BY <2>1, <2>3 DEF CfgIInv, Current, Carries, EditsRoom, memVars
  <2> QED BY <2>4, <2>5, <2>6, <2>7 DEF CfgIInv
<1>6. ASSUME NEW w \in Writers, Write(w)
      PROVE  CfgIInv'
  <2>1. /\ UNCHANGED <<op, room, memVars, seen, lock, overtaken>> /\ disk' = new[w]
        /\ pc[w] \in {"write", "rewrite"}
    BY <1>6 DEF Write, Saved, memVars, historyVars
  <2>2. pc' \in [Writers -> Labels] /\ new' \in [Writers -> Config]
    BY <1>6, StartIsConfig DEF Write, Go, CfgIInv, CfgTypes, Labels
  <2>3. \A r \in Writers : pc'[r] = pc[r] \/ (r = w /\ pc'[r] = "ok" /\ lock # w)
                           \/ (r = w /\ pc'[r] = "publish" /\ lock = w)
    BY <1>6 DEF Write, Go, CfgIInv, CfgTypes
  <2>4. \A r \in Writers : new'[r] = new[r] \/ (r = w /\ new'[r] = Start /\ lock # w)
    BY <1>6 DEF Write, CfgIInv, CfgTypes
  <2>5. \A r \in Requests : Updating(r)' <=> Updating(r)
    BY <2>1, <2>3 DEF Updating, CfgIInv, Locked, Writers
  <2>6. CfgTypes' /\ Locked'
    BY <2>1, <2>2, <2>5 DEF CfgIInv, CfgTypes, Locked, memVars
  <2>7. OneText'
    BY <2>1, <2>3, <2>4, StartIsConfig DEF CfgIInv, OneText, Writers, memVars
  <2>8. Current'
    <3>1. \A r \in Requests : Updating(r) => new'[r] = new[r]
      BY <2>4 DEF CfgIInv, Locked, Writers
    <3> QED BY <2>1, <2>5, <3>1 DEF CfgIInv, Current, Carries, EditsRoom, memVars
  <2> QED BY <2>6, <2>7, <2>8 DEF CfgIInv
<1>7. CASE PutConfig
  <2>1. UNCHANGED <<op, room, memVars, disk, seen, lock, overtaken>> /\ pc["save"] = "idle"
    BY <1>7 DEF PutConfig, memVars, diskVars, historyVars
  <2>2. pc' \in [Writers -> Labels] /\ new' \in [Writers -> Config]
    BY <1>7 DEF PutConfig, Go, CfgIInv, CfgTypes, Labels, Writers
  <2>3. \A r \in Writers \ {"save"} : pc'[r] = pc[r] /\ new'[r] = new[r]
    BY <1>7 DEF PutConfig, Go, CfgIInv, CfgTypes
  <2>4. new'["save"] = mem
    BY <1>7 DEF PutConfig, CfgIInv, CfgTypes, Writers
  <2>5. \A r \in Requests : r \in Writers \ {"save"}
    BY DEF Writers, NamesApart
  <2>6. CfgTypes' /\ Locked'
    BY <2>1, <2>2, <2>3, <2>5 DEF CfgIInv, CfgTypes, Locked, Updating, memVars
  <2>7. OneText'
    BY <2>1, <2>3, <2>4 DEF CfgIInv, OneText, memVars, Writers
  <2>8. Current'
    BY <2>1, <2>3, <2>5 DEF CfgIInv, Current, Updating, Carries, EditsRoom, memVars
  <2> QED BY <2>6, <2>7, <2>8 DEF CfgIInv
<1>8. CASE GetRawConfig
  <2>1. UNCHANGED <<op, room, memVars, disk, seen, lock, overtaken>> /\ pc["raw"] = "idle"
    BY <1>8 DEF GetRawConfig, memVars, diskVars, historyVars
  <2>2. PICK keep \in SUBSET mem.rooms :
          new' = [new EXCEPT !["raw"] =
                    [rooms |-> keep, text |-> mem.text + 1,
                     edits |-> {e \in mem.edits : EditsRoom(e) => room[e] \in keep}]]
    BY <1>8 DEF GetRawConfig
  <2>3. pc' \in [Writers -> Labels]
    BY <1>8 DEF GetRawConfig, Go, CfgIInv, CfgTypes, Labels
  <2>4. new' \in [Writers -> Config] /\ new'["raw"].text = mem.text + 1
    <3>1. [rooms |-> keep, text |-> mem.text + 1,
           edits |-> {e \in mem.edits : EditsRoom(e) => room[e] \in keep}] \in Config
      BY DEF CfgIInv, CfgTypes, Config
    <3> QED BY <2>2, <3>1 DEF CfgIInv, CfgTypes, Writers
  <2>5. \A r \in Writers \ {"raw"} : pc'[r] = pc[r] /\ new'[r] = new[r]
    BY <1>8, <2>2 DEF GetRawConfig, Go, CfgIInv, CfgTypes
  <2>6. \A r \in Requests : r \in Writers \ {"raw"}
    BY DEF Writers, NamesApart
  <2>7. CfgTypes' /\ Locked'
    BY <2>1, <2>3, <2>4, <2>5, <2>6 DEF CfgIInv, CfgTypes, Locked, Updating, memVars
  <2>8. OneText'
    BY <2>1, <2>4, <2>5 DEF CfgIInv, OneText, memVars
  <2>9. Current'
    BY <2>1, <2>5, <2>6 DEF CfgIInv, Current, Updating, Carries, EditsRoom, memVars
  <2> QED BY <2>7, <2>8, <2>9 DEF CfgIInv
<1>9. CASE PutRawConfig
  <2>1. /\ UNCHANGED <<op, room, disk, seen, new, lock>> /\ mem' = new["raw"]
        /\ pc["raw"] = "edited" /\ (lock \in Requests => overtaken')
    BY <1>9 DEF PutRawConfig, diskVars
  <2>2. pc' \in [Writers -> Labels] /\ pc'["raw"] = "apply"
    BY <1>9 DEF PutRawConfig, Go, CfgIInv, CfgTypes, Labels, Writers
  <2>3. \A r \in Writers \ {"raw"} : pc'[r] = pc[r]
    BY <1>9 DEF PutRawConfig, Go, CfgIInv, CfgTypes
  <2>4. \A r \in Requests : r \in Writers \ {"raw"}
    BY DEF Writers, NamesApart
  <2>5. CfgTypes' /\ Locked'
    BY <2>1, <2>2, <2>3, <2>4 DEF CfgIInv, CfgTypes, Locked, Updating, Writers
  <2>6. OneText'
    BY <2>2 DEF OneText
  <2>7. ASSUME NEW q \in Requests, Updating(q)'
        PROVE  overtaken' /\ new'[q].text < mem'.text
    <3>1. lock = q
      BY <2>1, <2>5, <2>7 DEF Locked
    <3>2. new[q].text = 0 /\ new["raw"].text = 1
      BY <2>1, <2>4 DEF CfgIInv, OneText
    <3> QED BY <2>1, <3>1, <3>2
  <2> QED BY <2>5, <2>6, <2>7 DEF CfgIInv, Current
<1>10. CASE ApplyRaw
  <2>1. UNCHANGED <<op, room, memVars, disk, new, lock, seen, overtaken>>
        /\ pc' \in [Writers -> Labels]
    BY <1>10 DEF ApplyRaw, Go, memVars, historyVars, diskVars, CfgIInv, CfgTypes, Labels
  <2>2. \A r \in Writers : pc'[r] = pc[r] \/ (r = "raw" /\ pc'[r] \in {"open", "error"})
    BY <1>10 DEF ApplyRaw, Go, CfgIInv, CfgTypes
  <2>3. \A r \in Requests : Updating(r)' <=> Updating(r)
    BY <2>2 DEF Updating, NamesApart, Writers
  <2> QED BY <2>1, <2>2, <2>3, CfgQuietStep DEF CfgIInv, CfgTypes, Writers
<1>11. CASE Crash
  <2>1. /\ UNCHANGED <<op, room, memVars, disk, overtaken>> /\ lock' = "down"
        /\ seen' \in [Requests -> Config] /\ new' \in [Writers -> Config]
    BY <1>11, StartIsConfig DEF Crash, memVars, diskVars
  <2>2. pc' \in [Writers -> Labels] /\ \A r \in Writers : pc'[r] \in {"ok", "error", "lost"}
    BY <1>11 DEF Crash, Labels
  <2>3. CfgTypes' /\ Locked'
    BY <2>1, <2>2 DEF CfgIInv, CfgTypes, Locked, Updating, memVars, Writers, NamesApart
  <2>4. OneText' /\ Current'
    BY <2>2 DEF OneText, Current, Updating, Writers
  <2> QED BY <2>3, <2>4 DEF CfgIInv
<1>12. CASE Restart
  <2>1. /\ UNCHANGED <<op, room, seen, new, overtaken>> /\ lock = "down" /\ lock' = "free"
        /\ mem' \in {Default, disk} /\ disk' = mem'
    BY <1>12 DEF Restart, historyVars
  <2>2. pc' \in [Writers -> Labels]
    BY <1>12 DEF Restart, CfgIInv, CfgTypes, Labels
  <2>3. \A r \in Writers : pc'[r] = pc[r] \/ (r \in Requests /\ pc'[r] = "idle")
    BY <1>12 DEF Restart, CfgIInv, CfgTypes
  <2>4. \A r \in Requests : ~Updating(r)'
    BY <2>1, <2>3 DEF CfgIInv, Locked, Updating, Writers, NamesApart
  <2>5. CfgTypes' /\ Locked' /\ Current'
    BY <2>1, <2>2, <2>4, StartIsConfig DEF CfgIInv, CfgTypes, Locked, Current, NamesApart
  <2>6. OneText'
    BY <2>1, <2>3 DEF CfgIInv, OneText, Default, Writers, NamesApart
  <2> QED BY <2>5, <2>6 DEF CfgIInv
<1>13. CASE UNCHANGED cfgVars
  <2>1. UNCHANGED <<op, room, memVars, disk, new, lock, seen, pc, overtaken>>
    BY <1>13 DEF cfgVars, memVars, diskVars, historyVars
  <2> QED BY <2>1, CfgQuietStep DEF CfgIInv, CfgTypes, Updating
<1> QED BY <1>1, <1>2, <1>3, <1>4, <1>5, <1>6, <1>7, <1>8, <1>9, <1>10, <1>11, <1>12, <1>13
        DEF Next

\* What a step may take out of the published configuration.
LEMMA CfgStep ==
    NamesApart /\ CfgIInv /\ [Next]_cfgVars =>
        \A e \in mem.edits :
            \/ e \in mem'.edits
            \/ EditsRoom(e) /\ room[e] \notin mem'.rooms
            \/ pc["raw"] = "edited" /\ pc'["raw"] = "apply"
            \/ lock = "down"
            \/ overtaken /\ mem'.text < mem.text
<1> SUFFICES ASSUME NamesApart, CfgIInv, [Next]_cfgVars, NEW e \in mem.edits
             PROVE  \/ e \in mem'.edits
                    \/ EditsRoom(e) /\ room[e] \notin mem'.rooms
                    \/ pc["raw"] = "edited" /\ pc'["raw"] = "apply"
                    \/ lock = "down"
                    \/ overtaken /\ mem'.text < mem.text
    OBVIOUS
<1>1. ASSUME NEW q \in Requests, Publish(q)
      PROVE  (overtaken /\ mem'.text < mem.text) \/ Carries(mem', mem)
  BY <1>1 DEF Publish, CfgIInv, Current, Updating
<1>2. CASE PutRawConfig
  BY <1>2 DEF PutRawConfig, Go, CfgIInv, CfgTypes, Writers
<1>3. CASE mem' = mem
  BY <1>3
<1>4. CASE Restart
  BY <1>4 DEF Restart
<1>5. \/ mem' = mem \/ PutRawConfig \/ Restart
      \/ \E q \in Requests : Publish(q)
  BY DEF Next, cfgVars, memVars, Snapshot, Conflict, Mutate, Open, Write, PutConfig,
         GetRawConfig, ApplyRaw, Crash
<1> QED BY <1>1, <1>2, <1>3, <1>4, <1>5 DEF Carries

(***************************************************************************)
(* An update leaves what others have set in force (updateWithRetryImpl,    *)
(* updateCASImpl), for any number of requests, conflicts and ends of the   *)
(* process.                                                                *)
(***************************************************************************)
THEOREM UpdatesKeepEdits == NamesApart /\ Spec => EditsSurvive
<1> SUFFICES ASSUME NamesApart
             PROVE  Spec => EditsSurvive
    OBVIOUS
<1>1. NamesApart /\ Init => CfgIInv
  BY CfgInit
<1> QED BY <1>1, CfgNext, CfgStep, PTL DEF Spec, EditsSurvive
------------------------------------------------------------------------------
(* Memory and file *)

\* So far nobody has saved outside the lock, no write has failed and no raw text is in force.
Undisturbed == ~outside /\ ~failed /\ pc["raw"] \in {"idle", "edited"}

\* Only the holder of the lock writes: the file is cut only under it, it holds what the
\* holder is about to publish once it is written, and what is published otherwise.
InStep ==
    /\ truncated = {q \in Requests : pc[q] = "write"}
    /\ \A w \in Writers : pc[w] # "rewrite" /\ (pc[w] = "write" => w \in Requests)
    /\ (\A q \in Requests : pc[q] # "write") => file = "whole"
    /\ (\A q \in Requests : pc[q] \notin {"write", "publish"}) => disk = mem
    /\ \A q \in Requests : /\ pc[q] = "write" => file = "empty"
                           /\ pc[q] = "publish" => disk = new[q]

SavedIInv == (lock = "down" => failed) /\ (Undisturbed => InStep)

LEMMA SavedInit == NamesApart /\ Init => SavedIInv
BY DEF Init, SavedIInv, Undisturbed, InStep, Writers

\* The process goes down by a failure only.
LEMMA DownIsFailure ==
    NamesApart /\ (lock = "down" => failed) /\ [Next]_cfgVars => (lock' = "down" => failed')
BY DEF NamesApart, Next, cfgVars, historyVars, Snapshot, Conflict, Mutate, Publish, Open, Write,
       PutConfig, GetRawConfig, PutRawConfig, ApplyRaw, Crash, Restart

\* A step that writes nothing and moves no request to or from its save keeps the invariant.
LEMMA SavedQuietStep ==
    ASSUME Undisturbed => InStep, Undisturbed' => Undisturbed,
           UNCHANGED <<mem, disk, file, truncated>>,
           \A w \in Writers :
             pc'[w] = pc[w] \/ ({pc[w], pc'[w]} \cap {"write", "rewrite", "publish"} = {}),
           \A q \in Requests : pc[q] = "publish" => new'[q] = new[q]
    PROVE  Undisturbed' => InStep'
<1>1. \A q \in Requests : q \in Writers
  BY DEF Writers
<1> QED BY <1>1 DEF InStep

LEMMA SavedNext == NamesApart /\ CfgIInv /\ SavedIInv /\ [Next]_cfgVars => SavedIInv'
<1> SUFFICES ASSUME NamesApart, CfgIInv, SavedIInv, [Next]_cfgVars
             PROVE  SavedIInv'
    OBVIOUS
<1>0. /\ \A q \in Requests : q \in Writers \ {"raw", "save"}
      /\ "raw" \in Writers /\ "save" \in Writers
      /\ pc \in [Writers -> Labels] /\ new \in [Writers -> Config]
  BY DEF Writers, NamesApart, CfgIInv, CfgTypes
<1> SUFFICES Undisturbed' => InStep'
    BY DownIsFailure DEF SavedIInv
<1>1. ASSUME NEW q \in Requests, Snapshot(q) \/ Conflict(q)
      PROVE  Undisturbed' => InStep'
  <2>1. UNCHANGED <<mem, disk, file, truncated, new, outside, failed>>
    BY <1>1 DEF Snapshot, Conflict, memVars, diskVars, historyVars
  <2>2. \A r \in Writers : pc'[r] = pc[r] \/ (r = q /\ pc[r] \in {"idle", "cas"}
                                              /\ pc'[r] \in {"idle", "cas", "error"})
    BY <1>0, <1>1 DEF Snapshot, Conflict, Go
  <2> QED BY <1>0, <2>1, <2>2, SavedQuietStep DEF Undisturbed, SavedIInv
<1>2. ASSUME NEW q \in Requests, Mutate(q)
      PROVE  Undisturbed' => InStep'
  <2>1. UNCHANGED <<mem, disk, file, truncated, outside, failed>> /\ pc[q] = "cas"
    BY <1>2 DEF Mutate, memVars, diskVars, historyVars
  <2>2. \A r \in Writers : pc'[r] = pc[r] \/ (r = q /\ pc'[r] \in {"open", "error"})
    BY <1>0, <1>2 DEF Mutate, Go
  <2>3. \A r \in Requests : pc[r] = "publish" => new'[r] = new[r]
    BY <1>0, <1>2, <2>1 DEF Mutate
  <2> QED BY <1>0, <2>1, <2>2, <2>3, SavedQuietStep DEF Undisturbed, SavedIInv
<1>3. ASSUME NEW q \in Requests, Publish(q)
      PROVE  Undisturbed' => InStep'
  <2>1. /\ UNCHANGED <<disk, file, truncated, outside, failed>> /\ mem' = new[q]
        /\ pc[q] = "publish" /\ lock = q
    BY <1>3 DEF Publish, diskVars, historyVars, CfgIInv, Locked, Updating
  <2>2. /\ pc'[q] \in {"again", "ok"}
        /\ \A r \in Writers \ {q} : pc'[r] = pc[r]
    BY <1>0, <1>3 DEF Publish, Go
  <2>3. \A r \in Requests \ {q} : pc[r] \notin {"open", "write", "publish"}
    BY <2>1 DEF CfgIInv, Locked, Updating
  <2>4. Undisturbed' => Undisturbed
    BY <1>0, <2>1, <2>2 DEF Undisturbed
  <2>5. ASSUME Undisturbed
        PROVE  InStep'
    <3>1. disk = new[q] /\ file = "whole" /\ truncated = {}
      BY <2>1, <2>3, <2>5 DEF SavedIInv, InStep
    <3>2. \A r \in Requests : pc'[r] \notin {"write", "publish"}
      BY <1>0, <2>2, <2>3
    <3>3. \A w \in Writers : pc'[w] # "rewrite" /\ (pc'[w] = "write" => w \in Requests)
      BY <2>2, <2>5 DEF SavedIInv, InStep
    <3> QED BY <2>1, <3>1, <3>2, <3>3 DEF InStep
  <2> QED BY <2>4, <2>5
<1>4. ASSUME NEW w \in Writers, Open(w)
      PROVE  Undisturbed' => InStep'
  <2>1. /\ UNCHANGED <<mem, disk, new>> /\ pc[w] \in {"open", "again"}
        /\ outside' = (outside \/ lock # w)
    BY <1>4 DEF Open, memVars
  <2>2. SUFFICES ASSUME Undisturbed'
                 PROVE  InStep'
    OBVIOUS
  <2>3. lock = w /\ w \in Requests /\ pc[w] = "open" /\ ~outside
    BY <2>1, <2>2 DEF Undisturbed, CfgIInv, Locked, Updating, NamesApart, Writers
  <2>4. /\ file' = "empty" /\ truncated' = truncated \cup {w} /\ Go(w, "write")
        /\ UNCHANGED failed
    BY <1>4, <2>2, <2>3 DEF Open, Undisturbed
  <2>5. pc'[w] = "write" /\ \A r \in Writers \ {w} : pc'[r] = pc[r]
    BY <1>0, <2>4 DEF Go
  <2>6. Undisturbed
    BY <1>0, <2>2, <2>3, <2>4, <2>5 DEF Undisturbed
  <2>7. \A r \in Requests \ {w} : pc[r] \notin {"open", "write", "publish"}
    BY <2>3 DEF CfgIInv, Locked, Updating
  <2>8. truncated = {}
    BY <2>3, <2>6, <2>7 DEF SavedIInv, InStep
  <2>9. truncated' = {q \in Requests : pc'[q] = "write"}
    BY <1>0, <2>3, <2>4, <2>5, <2>7, <2>8
  <2> QED BY <1>0, <2>3, <2>4, <2>5, <2>6, <2>7, <2>9 DEF SavedIInv, InStep
<1>5. ASSUME NEW w \in Writers, Write(w)
      PROVE  Undisturbed' => InStep'
  <2>1. UNCHANGED <<mem, lock, outside, failed>> /\ disk' = new[w] /\ pc[w] \in {"write", "rewrite"}
    BY <1>5 DEF Write, Saved, memVars, historyVars
  <2>2. \A r \in Writers \ {w} : pc'[r] = pc[r]
    BY <1>0, <1>5 DEF Write, Go
  <2>3. SUFFICES ASSUME Undisturbed'
                 PROVE  InStep'
    OBVIOUS
  <2>4. Undisturbed
    <3>1. CASE w = "raw"
      <4>1. pc'[w] \in {"publish", "ok"}
        BY <1>0, <1>5 DEF Write, Go
      <4> QED BY <2>3, <3>1, <4>1 DEF Undisturbed
    <3> QED BY <1>0, <2>1, <2>2, <2>3, <3>1 DEF Undisturbed
  <2>5. w \in Requests /\ pc[w] = "write" /\ lock = w
    BY <2>1, <2>4 DEF SavedIInv, InStep, CfgIInv, Locked, Updating
  <2>6. \A r \in Requests \ {w} : pc[r] \notin {"open", "write", "publish"}
    BY <2>5 DEF CfgIInv, Locked, Updating
  <2>7. truncated = {w} /\ file = "empty"
    BY <2>4, <2>5, <2>6 DEF SavedIInv, InStep
  <2>8. file' = "whole" /\ truncated' = {} /\ new' = new /\ pc'[w] = "publish"
    BY <1>0, <1>5, <2>5, <2>7 DEF Write, Go
  <2>9. truncated' = {q \in Requests : pc'[q] = "write"}
    BY <1>0, <2>2, <2>6, <2>8
  <2> QED BY <1>0, <2>1, <2>2, <2>4, <2>5, <2>6, <2>8, <2>9 DEF SavedIInv, InStep
<1>6. CASE PutConfig \/ GetRawConfig
  <2>1. UNCHANGED <<mem, disk, file, truncated, outside, failed>>
    BY <1>6 DEF PutConfig, GetRawConfig, memVars, diskVars, historyVars
  <2>2. \A r \in Writers : pc'[r] = pc[r] \/ (r \in {"raw", "save"} /\ pc[r] = "idle"
                                              /\ pc'[r] \in {"open", "edited"})
    BY <1>0, <1>6 DEF PutConfig, GetRawConfig, Go
  <2>3. \A r \in Requests : new'[r] = new[r]
    BY <1>0, <1>6 DEF PutConfig, GetRawConfig
  <2> QED BY <1>0, <2>1, <2>2, <2>3, SavedQuietStep DEF Undisturbed, SavedIInv
<1>7. CASE PutRawConfig \/ ApplyRaw
  <2>1. /\ pc'["raw"] \in {"apply", "open", "error"}
    BY <1>0, <1>7 DEF PutRawConfig, ApplyRaw, Go
  <2> QED BY <2>1 DEF Undisturbed
<1>8. CASE Crash
  BY <1>8 DEF Crash, Undisturbed
<1>9. CASE Restart
  BY <1>9 DEF Restart, historyVars, SavedIInv, Undisturbed
<1>10. CASE UNCHANGED cfgVars
  BY <1>10 DEF cfgVars, memVars, diskVars, historyVars, SavedIInv, Undisturbed, InStep
<1> QED BY <1>1, <1>2, <1>3, <1>4, <1>5, <1>6, <1>7, <1>8, <1>9, <1>10 DEF Next

LEMMA SavedAgrees == NamesApart /\ CfgIInv /\ SavedIInv => LockedSavesAgree
<1> SUFFICES ASSUME NamesApart, CfgIInv, SavedIInv,
                    lock = "free", ~outside, ~failed, pc["raw"] = "idle"
             PROVE  file = "whole" /\ disk = mem
    BY DEF LockedSavesAgree
<1>1. \A q \in Requests : pc[q] \notin {"write", "publish"}
  BY DEF CfgIInv, Locked, Updating, NamesApart
<1> QED BY <1>1 DEF SavedIInv, Undisturbed, InStep

(***************************************************************************)
(* An update saves before it publishes, and under the lock under which it  *)
(* was made (updateCASImpl): as long as nobody saves outside the lock and  *)
(* no write fails, memory and file agree whenever no request is under way, *)
(* for any number of requests and ends of the process.                     *)
(***************************************************************************)
THEOREM SavesAgree == NamesApart /\ Spec => []LockedSavesAgree
<1> SUFFICES ASSUME NamesApart
             PROVE  Spec => []LockedSavesAgree
    OBVIOUS
<1>1. NamesApart /\ Init => CfgIInv /\ SavedIInv
  BY CfgInit, SavedInit
<1>2. CfgIInv /\ SavedIInv /\ [Next]_cfgVars => (CfgIInv /\ SavedIInv)'
  BY CfgNext, SavedNext
<1>3. CfgIInv /\ SavedIInv => LockedSavesAgree
  BY SavedAgrees
<1> QED BY <1>1, <1>2, <1>3, PTL DEF Spec
=============================================================================
