----------------------------- MODULE RequestsProofs -----------------------------
(***************************************************************************)
(* What the limiter of a platform guarantees for every number of rooms and *)
(* callers, every limit and however limits are changed, removed and forced *)
(* while requests wait: two requests through one limiter are sent at least *)
(* its interval apart.                                                     *)
(***************************************************************************)
EXTENDS Requests, TLAPS

\* There is a largest limit, and some limit is none.
LimitsAssumption ==
    /\ Gaps \subseteq Nat /\ Generations \in Nat \ {0}
    /\ \E n \in Gaps : n > 0 /\ \A m \in Gaps : m <= n

Limiters == 1 .. Generations

Labels == {"unstarted", "dead", "check", "sleep", "idle", "waiting", "lookup", "reserve", "slot",
           "send", "sent", "notify", "notify_error", "stamp"}

ReqTypes ==
    /\ limiter \in 0 .. Generations
    /\ gap \in [Limiters -> Gaps \ {0}] /\ last \in [Limiters -> Int]
    /\ sent \in [Limiters -> 0 .. LongAgo]
    /\ pc \in [Procs -> Labels]
    /\ lim \in [Procs -> 0 .. Generations]
    /\ need \in [Procs -> Nat] /\ timer \in [Procs -> Nat]

\* g has a slot and has not used it yet.
Pending(g) == pc[g] \in {"slot", "send"} /\ lim[g] # 0

\* A slot is not after the one given out last, is as far from the last request as its
\* interval asks, and a request that is about to go out uses it now.
Slots ==
    \A g \in Procs : Pending(g) =>
        /\ timer[g] <= last[lim[g]]
        /\ need[g] \in 1 .. LongAgo
        /\ timer[g] + sent[lim[g]] >= need[g]
        /\ pc[g] = "send" => timer[g] = 0

\* Two slots of a limiter are as far apart as the later one asks.
SlotsApart ==
    \A g, h \in Procs : (g # h /\ Pending(g) /\ Pending(h) /\ lim[g] = lim[h]) =>
        timer[h] >= timer[g] + need[h] \/ timer[g] >= timer[h] + need[g]

\* No request went out after the slot given out last, and who reserves has a limiter.
LastIsLast ==
    /\ \A i \in Limiters : last[i] + sent[i] >= 0
    /\ \A g \in Procs : pc[g] \in {"reserve", "slot"} => lim[g] # 0

ReqIInv == ReqTypes /\ Slots /\ SlotsApart /\ LastIsLast

LEMMA LongestLimit ==
    ASSUME LimitsAssumption
    PROVE  LongAgo \in Nat \ {0} /\ LongAgo \in Gaps /\ \A m \in Gaps : m <= LongAgo
<1>1. PICK n \in Gaps : n > 0 /\ \A m \in Gaps : m <= n
  BY DEF LimitsAssumption
<1>2. LongAgo \in Gaps /\ \A m \in Gaps : m <= LongAgo
  BY <1>1, Zenon DEF LongAgo
<1> QED BY <1>1, <1>2 DEF LimitsAssumption

LEMMA ReqInit == LimitsAssumption /\ Init => ReqIInv
<1> SUFFICES ASSUME LimitsAssumption, Init
             PROVE  ReqIInv
    OBVIOUS
<1>1. ReqTypes
  BY LongestLimit DEF Init, ReqTypes, Labels, Limiters, LimitsAssumption
<1>2. \A g \in Procs : ~Pending(g)
  BY DEF Init, Pending
<1>3. LastIsLast
  BY LongestLimit DEF Init, LastIsLast, Limiters
<1> QED BY <1>1, <1>2, <1>3 DEF ReqIInv, Slots, SlotsApart

\* A step that gives out no slot, sends nothing through a limiter and lets no time pass.
LEMMA ReqQuietStep ==
    ASSUME ReqIInv, ReqTypes', sent' = sent,
           \A i \in Limiters : last'[i] >= last[i],
           \A g \in Procs : pc'[g] \in {"reserve", "slot"} => lim'[g] # 0,
           \A g \in Procs : Pending(g)' =>
                /\ Pending(g) /\ lim'[g] = lim[g] /\ need'[g] = need[g]
                /\ timer'[g] = timer[g] /\ (pc'[g] = "send" => timer[g] = 0)
    PROVE  ReqIInv'
<1>1. LastIsLast'
  <2>1. ASSUME NEW i \in Limiters
        PROVE  last'[i] + sent'[i] >= 0
    <3>1. last[i] + sent[i] >= 0 /\ last'[i] >= last[i] /\ sent'[i] = sent[i]
      BY DEF ReqIInv, LastIsLast
    <3>2. last[i] \in Int /\ last'[i] \in Int /\ sent[i] \in Int
      BY DEF ReqIInv, ReqTypes
    <3> QED BY <3>1, <3>2
  <2> QED BY <2>1 DEF LastIsLast
<1>2. Slots'
  <2> SUFFICES ASSUME NEW g \in Procs, Pending(g)'
               PROVE  /\ timer'[g] <= last'[lim'[g]]
                      /\ need'[g] \in 1 .. LongAgo
                      /\ timer'[g] + sent'[lim'[g]] >= need'[g]
                      /\ pc'[g] = "send" => timer'[g] = 0
      BY DEF Slots
  <2>1. /\ Pending(g) /\ lim'[g] = lim[g] /\ need'[g] = need[g]
        /\ timer'[g] = timer[g] /\ (pc'[g] = "send" => timer[g] = 0)
    OBVIOUS
  <2>2. lim[g] \in Limiters
    BY <2>1 DEF Pending, ReqIInv, ReqTypes, Limiters
  <2> QED BY <2>1, <2>2 DEF ReqIInv, ReqTypes, Slots
<1>3. SlotsApart'
  BY DEF ReqIInv, SlotsApart
<1> QED BY <1>1, <1>2, <1>3 DEF ReqIInv

\* One goroutine moves, and neither reserves nor sends.
LEMMA ReqOneMoves ==
    ASSUME LimitsAssumption, ReqIInv, UNCHANGED <<limVars, sent>>,
           NEW g \in Procs, NEW l \in Labels \ {"reserve", "slot", "send"},
           pc' = [pc EXCEPT ![g] = l],
           lim' = lim \/ lim' = [lim EXCEPT ![g] = 0],
           need' = need \/ need' = [need EXCEPT ![g] = 0],
           timer' = timer \/ (\E t \in Nat : timer' = [timer EXCEPT ![g] = t])
    PROVE  ReqIInv'
<1>1. /\ pc' \in [Procs -> Labels] /\ pc'[g] = l
      /\ \A h \in Procs \ {g} : pc'[h] = pc[h]
  BY DEF ReqIInv, ReqTypes
<1>2. lim' \in [Procs -> 0 .. Generations] /\ \A h \in Procs \ {g} : lim'[h] = lim[h]
  BY DEF ReqIInv, ReqTypes, LimitsAssumption
<1>3. need' \in [Procs -> Nat] /\ \A h \in Procs \ {g} : need'[h] = need[h]
  BY DEF ReqIInv, ReqTypes
<1>4. timer' \in [Procs -> Nat] /\ \A h \in Procs \ {g} : timer'[h] = timer[h]
  BY DEF ReqIInv, ReqTypes
<1>5. ReqTypes'
  BY <1>1, <1>2, <1>3, <1>4 DEF ReqIInv, ReqTypes, limVars
<1>6. \A i \in Limiters : last'[i] >= last[i]
  BY DEF ReqIInv, ReqTypes, limVars
<1>7. \A h \in Procs : pc'[h] \in {"reserve", "slot"} => lim'[h] # 0
  BY <1>1, <1>2 DEF ReqIInv, LastIsLast
<1>8. \A h \in Procs : Pending(h)' =>
            /\ Pending(h) /\ lim'[h] = lim[h] /\ need'[h] = need[h]
            /\ timer'[h] = timer[h] /\ (pc'[h] = "send" => timer[h] = 0)
  BY <1>1, <1>2, <1>3, <1>4 DEF Pending, ReqIInv, Slots
<1> QED BY <1>5, <1>6, <1>7, <1>8, ReqQuietStep

\* A slot is given out: behind every slot that is not used yet.
LEMMA ReserveKeeps ==
    ASSUME LimitsAssumption, ReqIInv, NEW g \in Procs, Reserve(g)
    PROVE  ReqIInv'
<1> DEFINE i == lim[g]
           slot == NextSlot(i)
<1>1. i \in Limiters /\ ReqTypes
  BY DEF Reserve, ReqIInv, LastIsLast, ReqTypes, Limiters
<1>2. CASE shutdown /\ Abandon(g) /\ UNCHANGED <<last, timer>>
  <2> DEFINE l == IF g \in Rooms THEN "check" ELSE "idle"
  <2>1. UNCHANGED <<limVars, sent, timer>>
    BY <1>2 DEF Reserve, limVars
  <2>2. /\ pc' = [pc EXCEPT ![g] = l]
        /\ lim' = [lim EXCEPT ![g] = 0] /\ need' = [need EXCEPT ![g] = 0]
    BY <1>2 DEF Abandon, Return
  <2>3. l \in {"check", "idle"}
    OBVIOUS
  <2> HIDE DEF l
  <2> QED BY <2>1, <2>2, <2>3, ReqOneMoves DEF Labels
<1>3. CASE /\ last' = [last EXCEPT ![i] = slot] /\ timer' = [timer EXCEPT ![g] = slot]
           /\ pc' = [pc EXCEPT ![g] = IF slot > 0 THEN "slot" ELSE "send"]
           /\ need' = [need EXCEPT ![g] = gap[i]] /\ UNCHANGED <<target, lim>>
  <2>1. /\ gap[i] \in 1 .. LongAgo /\ last[i] \in Int
        /\ sent[i] \in Nat /\ last[i] + sent[i] >= 0
    <3>1. gap[i] \in Gaps \ {0} /\ last[i] \in Int /\ sent[i] \in 0 .. LongAgo
      BY <1>1 DEF ReqTypes
    <3>2. last[i] + sent[i] >= 0
      BY <1>1 DEF ReqIInv, LastIsLast
    <3>3. LongAgo \in Nat /\ Gaps \subseteq Nat /\ \A m \in Gaps : m <= LongAgo
      BY LongestLimit DEF LimitsAssumption
    <3>4. gap[i] \in Nat \ {0} /\ gap[i] <= LongAgo
      BY <3>1, <3>3
    <3> QED BY <3>1, <3>2, <3>3, <3>4
  <2>2. slot \in Nat /\ slot >= last[i] + gap[i]
    BY <2>1 DEF NextSlot, Larger
  <2> HIDE DEF slot
  <2>3. /\ UNCHANGED <<limiter, gap, sent, lim>>
        /\ \A h \in Procs \ {g} : UNCHANGED <<pc[h], need[h], timer[h]>>
        /\ \A j \in Limiters \ {i} : last'[j] = last[j]
        /\ last'[i] = slot /\ timer'[g] = slot /\ need'[g] = gap[i]
        /\ pc'[g] = IF slot > 0 THEN "slot" ELSE "send"
    BY <1>1, <1>3 DEF Reserve, ReqTypes
  <2>4. ReqTypes'
    BY <1>1, <1>3, <2>1, <2>2, <2>3 DEF ReqTypes, Labels
  <2>5. LastIsLast'
    <3>1. \A j \in Limiters : last'[j] + sent'[j] >= 0
      BY <1>1, <2>1, <2>2, <2>3 DEF LastIsLast, ReqIInv
    <3>2. \A h \in Procs : pc'[h] \in {"reserve", "slot"} => lim'[h] # 0
      BY <1>1, <2>3 DEF LastIsLast, ReqIInv, Limiters
    <3> QED BY <3>1, <3>2 DEF LastIsLast
  <2>6. \A h \in Procs \ {g} : Pending(h)' => Pending(h) /\ lim[h] \in Limiters
    BY <1>1, <2>3 DEF Pending, ReqTypes, Limiters
  <2>7. Slots'
    <3>1. ASSUME NEW h \in Procs \ {g}, Pending(h)'
          PROVE  /\ timer'[h] <= last'[lim'[h]] /\ need'[h] \in 1 .. LongAgo
                 /\ timer'[h] + sent'[lim'[h]] >= need'[h]
                 /\ pc'[h] = "send" => timer'[h] = 0
      BY <1>1, <2>1, <2>2, <2>3, <2>6, <3>1 DEF ReqIInv, Slots, ReqTypes
    <3>2. /\ timer'[g] <= last'[lim'[g]] /\ need'[g] \in 1 .. LongAgo
          /\ timer'[g] + sent'[lim'[g]] >= need'[g]
          /\ pc'[g] = "send" => timer'[g] = 0
      BY <2>1, <2>2, <2>3
    <3> QED BY <3>1, <3>2 DEF Slots
  <2>8. SlotsApart'
    <3>1. ASSUME NEW h \in Procs \ {g}, Pending(h)', lim'[h] = i
          PROVE  timer'[g] >= timer'[h] + need'[g]
      BY <1>1, <2>1, <2>2, <2>3, <2>6, <3>1 DEF ReqIInv, Slots, ReqTypes
    <3>2. ASSUME NEW h \in Procs \ {g}, NEW k \in Procs \ {g}, h # k,
                 Pending(h)', Pending(k)', lim'[h] = lim'[k]
          PROVE  timer'[k] >= timer'[h] + need'[k] \/ timer'[h] >= timer'[k] + need'[h]
      BY <2>3, <2>6, <3>2 DEF ReqIInv, SlotsApart
    <3> QED BY <2>3, <3>1, <3>2 DEF SlotsApart
  <2> QED BY <2>4, <2>5, <2>7, <2>8 DEF ReqIInv
<1> QED BY <1>2, <1>3 DEF Reserve

\* A request goes out: the slots of its limiter that are left are an interval away.
LEMMA SendKeeps ==
    ASSUME LimitsAssumption, ReqIInv, NEW g \in Procs, Send(g)
    PROVE  ReqIInv'
<1>1. /\ UNCHANGED <<limVars, timer>> /\ pc[g] = "send"
      /\ pc' = [pc EXCEPT ![g] = "sent"]
      /\ sent' = IF lim[g] = 0 THEN sent ELSE [sent EXCEPT ![lim[g]] = 0]
      /\ lim' = [lim EXCEPT ![g] = 0] /\ need' = [need EXCEPT ![g] = 0]
  BY DEF Send
<1>2. CASE lim[g] = 0
  BY <1>1, <1>2, ReqOneMoves DEF Labels
<1>3. CASE lim[g] # 0
  <2> DEFINE i == lim[g]
  <2>1. i \in Limiters /\ Pending(g) /\ timer[g] = 0 /\ last[i] >= 0 /\ need[g] >= 1
    <3>1. i \in Limiters /\ Pending(g)
      BY <1>1, <1>3 DEF Pending, ReqIInv, ReqTypes, Limiters
    <3> QED BY <1>1, <3>1, LongestLimit DEF ReqIInv, Slots, ReqTypes
  <2>2. /\ sent' \in [Limiters -> 0 .. LongAgo] /\ sent'[i] = 0
        /\ \A j \in Limiters \ {i} : sent'[j] = sent[j]
    BY <1>1, <1>3, <2>1, LongestLimit DEF ReqIInv, ReqTypes
  <2>3. /\ pc' \in [Procs -> Labels] /\ lim' \in [Procs -> 0 .. Generations]
        /\ need' \in [Procs -> Nat] /\ pc'[g] = "sent"
        /\ \A h \in Procs \ {g} : pc'[h] = pc[h] /\ lim'[h] = lim[h] /\ need'[h] = need[h]
    BY <1>1 DEF ReqIInv, ReqTypes, Labels, LimitsAssumption
  <2>4. ReqTypes'
    BY <1>1, <2>2, <2>3 DEF ReqIInv, ReqTypes, limVars
  <2>5. LastIsLast'
    <3>1. \A j \in Limiters : last'[j] + sent'[j] >= 0
      BY <1>1, <2>1, <2>2 DEF ReqIInv, LastIsLast, limVars, ReqTypes
    <3>2. \A h \in Procs : pc'[h] \in {"reserve", "slot"} => lim'[h] # 0
      BY <2>3 DEF ReqIInv, LastIsLast
    <3> QED BY <3>1, <3>2 DEF LastIsLast
  <2>6. \A h \in Procs : Pending(h)' => h # g /\ Pending(h) /\ lim[h] \in Limiters
    BY <2>3 DEF Pending, ReqIInv, ReqTypes, Limiters
  <2>7. Slots'
    <3> SUFFICES ASSUME NEW h \in Procs, Pending(h)'
                 PROVE  /\ timer'[h] <= last'[lim'[h]] /\ need'[h] \in 1 .. LongAgo
                        /\ timer'[h] + sent'[lim'[h]] >= need'[h]
                        /\ pc'[h] = "send" => timer'[h] = 0
        BY DEF Slots
    <3>1. /\ timer[h] <= last[lim[h]] /\ need[h] \in 1 .. LongAgo
          /\ timer[h] + sent[lim[h]] >= need[h] /\ (pc[h] = "send" => timer[h] = 0)
      BY <2>6 DEF ReqIInv, Slots
    <3>2. lim[h] = i => timer[h] >= need[h]
      <4>1. lim[h] = i => timer[h] >= timer[g] + need[h] \/ timer[g] >= timer[h] + need[g]
        BY <2>1, <2>6 DEF ReqIInv, SlotsApart
      <4>2. timer[h] \in Nat /\ need[h] \in Nat /\ need[g] \in Nat
        BY DEF ReqIInv, ReqTypes
      <4> QED BY <2>1, <4>1, <4>2
    <3>3. timer[h] \in Nat /\ h # g /\ lim[h] \in Limiters
      BY <2>6 DEF ReqIInv, ReqTypes
    <3> QED BY <1>1, <2>2, <2>3, <3>1, <3>2, <3>3 DEF limVars
  <2>8. SlotsApart'
    BY <1>1, <2>3, <2>6 DEF ReqIInv, SlotsApart
  <2> QED BY <2>4, <2>5, <2>7, <2>8 DEF ReqIInv
<1> QED BY <1>2, <1>3

\* Time passes: for the slots to come and since the requests gone alike.
LEMMA TickKeeps ==
    ASSUME LimitsAssumption, ReqIInv, Tick
    PROVE  ReqIInv'
<1>1. /\ UNCHANGED <<limiter, gap, pc, lim, need>>
      /\ timer' = [g \in Procs |-> IF timer[g] > 0 THEN timer[g] - 1 ELSE 0]
      /\ last' = [i \in Limiters |-> Larger(last[i] - 1, -LongAgo)]
      /\ sent' = [i \in Limiters |-> IF sent[i] < LongAgo THEN sent[i] + 1 ELSE sent[i]]
      /\ \A g \in Procs : ~Due(g)
  BY DEF Tick, Limiters
<1>2. LongAgo \in Nat \ {0}
  BY LongestLimit
<1>3. ReqTypes'
  <2>1. timer' \in [Procs -> Nat]
    BY <1>1 DEF ReqIInv, ReqTypes
  <2>2. last' \in [Limiters -> Int]
    BY <1>1, <1>2 DEF ReqIInv, ReqTypes, Larger
  <2>3. sent' \in [Limiters -> 0 .. LongAgo]
    BY <1>1, <1>2 DEF ReqIInv, ReqTypes
  <2> QED BY <1>1, <2>1, <2>2, <2>3 DEF ReqIInv, ReqTypes
<1>4. ASSUME NEW i \in Limiters
      PROVE  /\ last[i] \in Int /\ sent[i] \in 0 .. LongAgo /\ last[i] + sent[i] >= 0
             /\ last'[i] = Larger(last[i] - 1, -LongAgo)
             /\ sent'[i] = IF sent[i] < LongAgo THEN sent[i] + 1 ELSE sent[i]
  BY <1>1 DEF ReqIInv, ReqTypes, LastIsLast
<1>5. ASSUME NEW g \in Procs, Pending(g)'
      PROVE  /\ Pending(g) /\ pc[g] = "slot" /\ timer[g] \in Nat \ {0}
             /\ timer'[g] = timer[g] - 1 /\ lim[g] \in Limiters
             /\ timer[g] <= last[lim[g]] /\ need[g] \in 1 .. LongAgo
             /\ timer[g] + sent[lim[g]] >= need[g]
  <2>1. Pending(g)
    BY <1>1, <1>5 DEF Pending
  <2>2. pc[g] = "slot" /\ timer[g] \in Nat \ {0} /\ lim[g] \in Limiters
    BY <1>1, <2>1 DEF Pending, Due, ReqIInv, ReqTypes, Limiters
  <2>3. timer'[g] = timer[g] - 1
    BY <1>1, <2>2
  <2> QED BY <2>1, <2>2, <2>3 DEF ReqIInv, Slots
<1>6. LastIsLast'
  <2>1. \A i \in Limiters : last'[i] + sent'[i] >= 0
    BY <1>2, <1>4 DEF Larger
  <2> QED BY <1>1, <2>1 DEF LastIsLast, ReqIInv
<1>7. Slots'
  <2> SUFFICES ASSUME NEW g \in Procs, Pending(g)'
               PROVE  /\ timer'[g] <= last'[lim'[g]] /\ need'[g] \in 1 .. LongAgo
                      /\ timer'[g] + sent'[lim'[g]] >= need'[g]
                      /\ pc'[g] = "send" => timer'[g] = 0
      BY DEF Slots
  <2>1. lim[g] \in Limiters /\ timer'[g] = timer[g] - 1 /\ timer[g] \in Nat \ {0}
        /\ timer[g] <= last[lim[g]] /\ need[g] \in 1 .. LongAgo
        /\ timer[g] + sent[lim[g]] >= need[g] /\ pc[g] = "slot"
    BY <1>5
  <2> QED BY <1>1, <1>2, <1>4, <2>1 DEF Larger
<1>8. SlotsApart'
  <2> SUFFICES ASSUME NEW g \in Procs, NEW h \in Procs, g # h, Pending(g)', Pending(h)',
                      lim'[g] = lim'[h]
               PROVE  timer'[h] >= timer'[g] + need'[h] \/ timer'[g] >= timer'[h] + need'[g]
      BY DEF SlotsApart
  <2>1. timer[h] >= timer[g] + need[h] \/ timer[g] >= timer[h] + need[g]
    BY <1>1, <1>5 DEF ReqIInv, SlotsApart
  <2>2. /\ timer'[g] = timer[g] - 1 /\ timer'[h] = timer[h] - 1
        /\ timer[g] \in Nat /\ timer[h] \in Nat /\ need[g] \in Int /\ need[h] \in Int
    BY <1>5
  <2> QED BY <1>1, <2>1, <2>2
<1> QED BY <1>3, <1>6, <1>7, <1>8 DEF ReqIInv

\* The steps of a request before it reserves and after it is sent.
LEMMA RequestKeeps ==
    ASSUME LimitsAssumption, ReqIInv, NEW g \in Procs, RequestStep(g)
    PROVE  ReqIInv'
<1> USE DEF Labels
<1>1. CASE Lookup(g)
  <2>1. /\ UNCHANGED <<limVars, need, timer, sent>> /\ lim' = [lim EXCEPT ![g] = limiter]
        /\ pc' = [pc EXCEPT ![g] = IF limiter = 0 THEN "send" ELSE "reserve"]
    BY <1>1 DEF Lookup
  <2>2. /\ lim' \in [Procs -> 0 .. Generations] /\ lim'[g] = limiter
        /\ \A h \in Procs \ {g} : lim'[h] = lim[h] /\ pc'[h] = pc[h]
        /\ pc'[g] = IF limiter = 0 THEN "send" ELSE "reserve"
        /\ pc' \in [Procs -> Labels]
    BY <2>1 DEF ReqIInv, ReqTypes
  <2>3. ReqTypes'
    BY <2>1, <2>2 DEF ReqIInv, ReqTypes, limVars
  <2>4. \A i \in Limiters : last'[i] >= last[i]
    BY <2>1 DEF ReqIInv, ReqTypes, limVars
  <2>5. \A h \in Procs : pc'[h] \in {"reserve", "slot"} => lim'[h] # 0
    BY <2>2 DEF ReqIInv, LastIsLast
  <2>6. \A h \in Procs : Pending(h)' => h # g /\ Pending(h)
    BY <2>2 DEF Pending
  <2> QED BY <2>1, <2>2, <2>3, <2>4, <2>5, <2>6, ReqQuietStep DEF ReqIInv, Slots
<1>2. CASE Reserve(g)
  BY <1>2, ReserveKeeps
<1>3. CASE SlotEnds(g)
  <2>1. UNCHANGED <<limVars, sent>> /\ timer' = [timer EXCEPT ![g] = 0]
    BY <1>3 DEF SlotEnds
  <2>2. CASE /\ timer[g] = 0 /\ pc' = [pc EXCEPT ![g] = "send"] /\ pc[g] = "slot"
             /\ UNCHANGED <<lim, need>>
    <3>1. /\ timer' = timer /\ pc' \in [Procs -> Labels] /\ pc'[g] = "send"
          /\ \A h \in Procs \ {g} : pc'[h] = pc[h]
      BY <2>1, <2>2 DEF ReqIInv, ReqTypes
    <3>2. ReqTypes'
      BY <2>1, <2>2, <3>1 DEF ReqIInv, ReqTypes, limVars
    <3>3. \A i \in Limiters : last'[i] >= last[i]
      BY <2>1 DEF ReqIInv, ReqTypes, limVars
    <3>4. \A h \in Procs : pc'[h] \in {"reserve", "slot"} => lim'[h] # 0
      BY <2>2, <3>1 DEF ReqIInv, LastIsLast
    <3>5. \A h \in Procs : Pending(h)' => Pending(h) /\ (pc'[h] = "send" => timer[h] = 0)
      BY <2>2, <3>1 DEF Pending, ReqIInv, Slots
    <3> QED BY <2>1, <2>2, <3>1, <3>2, <3>3, <3>4, <3>5, ReqQuietStep
  <2>3. CASE Abandon(g)
    <3> DEFINE l == IF g \in Rooms THEN "check" ELSE "idle"
    <3>1. /\ pc' = [pc EXCEPT ![g] = l]
          /\ lim' = [lim EXCEPT ![g] = 0] /\ need' = [need EXCEPT ![g] = 0]
      BY <2>3 DEF Abandon, Return
    <3>2. l \in Labels \ {"reserve", "slot", "send"}
      OBVIOUS
    <3> HIDE DEF l
    <3> QED BY <2>1, <3>1, <3>2, ReqOneMoves
  <2> QED BY <1>3, <2>2, <2>3 DEF SlotEnds
<1>4. CASE Send(g)
  BY <1>4, SendKeeps
<1>5. CASE Answer(g)
  BY <1>5, ReqOneMoves DEF Answer, reqVars
<1>6. CASE Notify(g) \/ Stamp(g)
  <2>1. /\ UNCHANGED <<limVars, lim, need, timer, sent>>
        /\ \/ pc' = [pc EXCEPT ![g] = "stamp"]
           \/ pc' = [pc EXCEPT ![g] = "check"]
           \/ pc' = [pc EXCEPT ![g] = "idle"]
    BY <1>6 DEF Notify, Stamp, Return
  <2> QED BY <2>1, ReqOneMoves
<1> QED BY <1>1, <1>2, <1>3, <1>4, <1>5, <1>6 DEF RequestStep

LEMMA ReqNext == LimitsAssumption /\ ReqIInv /\ [Next]_vars => ReqIInv'
<1> SUFFICES ASSUME LimitsAssumption, ReqIInv, [Next]_vars
             PROVE  ReqIInv'
    OBVIOUS
<1> USE DEF Labels
<1>1. ASSUME NEW g \in Procs, RequestStep(g)
      PROVE  ReqIInv'
  BY <1>1, RequestKeeps
<1>2. ASSUME NEW g \in Procs, Panic(g)
      PROVE  ReqIInv'
  <2>1. /\ UNCHANGED <<limVars, lim, need, timer, sent>>
        /\ \/ pc' = [pc EXCEPT ![g] = "dead"]
           \/ pc' = [pc EXCEPT ![g] = "idle"]
    BY <1>2 DEF Panic, Return
  <2> QED BY <2>1, ReqOneMoves
<1>3. ASSUME NEW c \in Callers, NEW r \in Rooms, Ask(c, r)
      PROVE  ReqIInv'
  <2>1. c \in Procs
    BY DEF Procs
  <2> QED BY <1>3, <2>1, ReqOneMoves DEF Ask
<1>4. ASSUME NEW c \in Callers, NEW r \in Rooms, ForceRefresh(c, r)
      PROVE  ReqIInv'
  <2>1. /\ UNCHANGED <<limiter, gap, lim, need, timer, sent>>
        /\ last' = IF limiter = 0 THEN last ELSE [last EXCEPT ![limiter] = Larger(@, 0)]
        /\ pc' = [pc EXCEPT ![c] = "lookup"] /\ c \in Procs
    BY <1>4 DEF ForceRefresh, Procs
  <2>2. /\ last' \in [Limiters -> Int]
        /\ \A i \in Limiters : last'[i] >= last[i]
    <3>1. last \in [Limiters -> Int] /\ \A i \in Limiters : last[i] \in Int
      BY DEF ReqIInv, ReqTypes
    <3>2. CASE limiter = 0
      BY <2>1, <3>1, <3>2
    <3>3. CASE limiter # 0
      <4>1. limiter \in Limiters
        BY <3>3, LimitsAssumption DEF ReqIInv, ReqTypes, Limiters
      <4>2. last' = [last EXCEPT ![limiter] = Larger(last[limiter], 0)]
        BY <2>1, <3>3
      <4>3. Larger(last[limiter], 0) \in Int /\ Larger(last[limiter], 0) >= last[limiter]
        BY <3>1, <4>1 DEF Larger
      <4> QED BY <3>1, <4>1, <4>2, <4>3
    <3> QED BY <3>2, <3>3
  <2>3. /\ pc' \in [Procs -> Labels] /\ pc'[c] = "lookup"
        /\ \A h \in Procs \ {c} : pc'[h] = pc[h]
    BY <2>1 DEF ReqIInv, ReqTypes
  <2>4. ReqTypes'
    BY <2>1, <2>2, <2>3 DEF ReqIInv, ReqTypes
  <2>5. \A h \in Procs : pc'[h] \in {"reserve", "slot"} => lim'[h] # 0
    BY <2>1, <2>3 DEF ReqIInv, LastIsLast
  <2>6. \A h \in Procs : Pending(h)' => Pending(h) /\ pc'[h] = pc[h]
    BY <2>1, <2>3 DEF Pending
  <2> QED BY <2>1, <2>2, <2>4, <2>5, <2>6, ReqQuietStep DEF ReqIInv, Slots
<1>5. ASSUME NEW c \in Callers, NEW r \in Rooms, Wait(c, r)
      PROVE  ReqIInv'
  <2>1. /\ UNCHANGED <<limVars, lim, need, timer, sent>> /\ c \in Procs /\ r \in Procs
        /\ pc' = [pc EXCEPT ![c] = "waiting", ![r] = IF @ = "unstarted" THEN "check" ELSE @]
    BY <1>5 DEF Wait, Procs
  <2>2. /\ pc' \in [Procs -> Labels]
        /\ \A h \in Procs : pc'[h] = pc[h] \/ pc'[h] \in {"waiting", "check"}
    BY <2>1 DEF ReqIInv, ReqTypes
  <2>3. ReqTypes'
    BY <2>1, <2>2 DEF ReqIInv, ReqTypes, limVars
  <2>4. \A i \in Limiters : last'[i] >= last[i]
    BY <2>1 DEF ReqIInv, ReqTypes, limVars
  <2>5. \A h \in Procs : pc'[h] \in {"reserve", "slot"} => lim'[h] # 0
    BY <2>1, <2>2 DEF ReqIInv, LastIsLast
  <2>6. \A h \in Procs : Pending(h)' => Pending(h) /\ pc'[h] = pc[h]
    BY <2>1, <2>2 DEF Pending
  <2> QED BY <2>1, <2>3, <2>4, <2>5, <2>6, ReqQuietStep DEF ReqIInv, Slots
<1>6. ASSUME NEW c \in Callers, CancelWait(c)
      PROVE  ReqIInv'
  <2>1. UNCHANGED <<limVars, pc, lim, need, timer, sent>>
    BY <1>6 DEF CancelWait, reqVars
  <2> QED BY <2>1 DEF ReqIInv, ReqTypes, Slots, SlotsApart, LastIsLast, Pending, limVars
<1>7. ASSUME NEW c \in Callers, EndWait(c)
      PROVE  ReqIInv'
  <2>1. /\ UNCHANGED <<limVars, lim, need, timer, sent>> /\ c \in Procs
        /\ \/ pc' = [pc EXCEPT ![c] = "check"]
           \/ pc' = [pc EXCEPT ![c] = "idle"]
    BY <1>7 DEF EndWait, Return, Procs
  <2> QED BY <2>1, ReqOneMoves
<1>8. ASSUME NEW r \in Rooms, SchedulerStep(r) \/ SchedulerExit(r)
      PROVE  ReqIInv'
  <2>1. /\ UNCHANGED <<limVars, lim, need, sent>> /\ r \in Procs
        /\ timer' = timer \/ \E t \in Int : timer' = [timer EXCEPT ![r] = t]
        /\ \/ pc' = [pc EXCEPT ![r] = "check"] \/ pc' = [pc EXCEPT ![r] = "lookup"]
           \/ pc' = [pc EXCEPT ![r] = "sleep"] \/ pc' = [pc EXCEPT ![r] = "dead"]
    BY <1>8 DEF SchedulerStep, Schedule, WakeUp, Recheck, SchedulerExit, Procs, reqVars
  <2>2. timer' = timer \/ \E t \in Nat : timer' = [timer EXCEPT ![r] = t]
    BY <1>8 DEF SchedulerStep, Schedule, WakeUp, SchedulerExit, reqVars
  <2> QED BY <2>1, <2>2, ReqOneMoves
<1>9. ASSUME NEW n \in Gaps, SetPlatformLimit(n)
      PROVE  ReqIInv'
  <2>1. UNCHANGED <<last, pc, lim, need, timer, sent>>
    BY <1>9 DEF SetPlatformLimit, reqVars
  <2>2. limiter' \in 0 .. Generations /\ gap' \in [Limiters -> Gaps \ {0}]
    <3>1. n \in Nat
      BY DEF LimitsAssumption
    <3>2. CASE n = 0
      BY <1>9, <3>2 DEF SetPlatformLimit, ReqIInv, ReqTypes, LimitsAssumption
    <3>3. CASE n > 0 /\ limiter # 0
      BY <1>9, <3>3 DEF SetPlatformLimit, ReqIInv, ReqTypes
    <3>4. CASE n > 0 /\ limiter = 0
      <4>1. PICK i \in 2 .. Generations : limiter' = i /\ gap' = [gap EXCEPT ![i] = n]
        BY <1>9, <3>4 DEF SetPlatformLimit
      <4> QED BY <3>4, <4>1 DEF ReqIInv, ReqTypes, Limiters, LimitsAssumption
    <3> QED BY <3>1, <3>2, <3>3, <3>4
  <2> QED BY <2>1, <2>2 DEF ReqIInv, ReqTypes, Slots, SlotsApart, LastIsLast, Pending
<1>10. CASE Tick
  BY <1>10, TickKeeps
<1>11. CASE Shutdown \/ UNCHANGED vars
  <2>1. UNCHANGED <<limVars, pc, lim, need, timer, sent>>
    BY <1>11 DEF Shutdown, vars, reqVars
  <2> QED BY <2>1 DEF ReqIInv, ReqTypes, Slots, SlotsApart, LastIsLast, Pending, limVars
<1> QED BY <1>1, <1>2, <1>3, <1>4, <1>5, <1>6, <1>7, <1>8, <1>9, <1>10, <1>11
        DEF Next

\* A request that goes out finds its interval passed.
LEMMA SentInTime ==
    LimitsAssumption /\ ReqIInv =>
        \A g \in Procs : (pc[g] = "send" /\ pc'[g] = "sent" /\ lim[g] # 0)
            => sent[lim[g]] >= need[g]
<1> SUFFICES ASSUME LimitsAssumption, ReqIInv, NEW g \in Procs, pc[g] = "send", lim[g] # 0
             PROVE  sent[lim[g]] >= need[g]
    OBVIOUS
<1>1. lim[g] \in Limiters /\ Pending(g)
  BY DEF Pending, ReqIInv, ReqTypes, Limiters
<1>2. timer[g] = 0 /\ timer[g] + sent[lim[g]] >= need[g]
  BY <1>1 DEF ReqIInv, Slots
<1> QED BY <1>1, <1>2, LongestLimit DEF ReqIInv, ReqTypes

(***************************************************************************)
(* Two requests that pass through one limiter are sent at least the        *)
(* interval apart the later one was given, for any number of rooms and     *)
(* callers (WaitForPlatformWithContext).                                   *)
(***************************************************************************)
THEOREM LimitHolds == LimitsAssumption /\ Spec => RequestsApart
<1> SUFFICES ASSUME LimitsAssumption
             PROVE  Spec => RequestsApart
    OBVIOUS
<1>1. Init => ReqIInv
  BY ReqInit
<1>2. ReqIInv /\ [Next]_vars => ReqIInv'
  BY ReqNext
<1> QED BY <1>1, <1>2, SentInTime, PTL DEF Spec, RequestsApart
=================================================================================
