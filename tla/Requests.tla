------------------------------- MODULE Requests --------------------------------
(***************************************************************************)
(* How the rooms of one platform are polled: WrappedLive of                *)
(* src/src/live/lives.go over src/src/pkg/ratelimit/ratelimit.go.          *)
(*                                                                         *)
(* A caller of GetInfoWithInterval waits in a list for the next answer of  *)
(* its room; one scheduler goroutine per room, started by the first        *)
(* caller, asks the platform when the room's interval has passed and       *)
(* somebody waits.  A caller of GetInfo (the API, a listener's first       *)
(* refresh) asks at once.  Either way the request first reserves a slot of *)
(* the platform's limiter, and its answer goes to everybody who waits.     *)
(*                                                                         *)
(* Times are ticks relative to now, so that the clock needs no bound.      *)
(* Timers fire and a slot is used within the tick in which they are due.   *)
(***************************************************************************)
EXTENDS Integers, FiniteSets

CONSTANTS
    Rooms,
    Callers,    \* goroutines that ask; bounds how many do so at once
    Interval,   \* ticks between two requests of a scheduler (getConfiguredInterval)
    Jitter,     \* the most a scheduler waits when its interval has passed already
    Gaps,       \* the limits a configuration sets; 0 means none
    Generations,\* bounds the limiter objects ever created for the platform
    Changes     \* bounds the changes of the limit and the forced refreshes

LongAgo == CHOOSE n \in Gaps : \A m \in Gaps : m <= n
Procs == Rooms \cup Callers     \* the scheduler of a room bears its name

VARIABLES
    \* the limiter of the platform
    limiter,    \* the object in the map, 0 when there is none
    gap, last,  \* of every limiter object: minInterval, lastAccess - now
    \* the requests
    pc,         \* of every goroutine
    target,     \* the room it asks for
    lim, need,  \* until it is sent: the limiter looked up, its interval when reserved
    timer,      \* ticks until its slot, or until the scheduler wakes up
    \* the waiting callers
    waiters,    \* the list of a room
    answered,   \* the callers whose channel holds an answer
    live,       \* the callers whose context is not cancelled
    \* a room
    since,      \* ticks since lastRequestAt, at most Interval
    panicky,    \* whether its adapter may panic: it does not change
    \* the process
    shutdown, changes,
    sent        \* history: ticks since a request went out through a limiter

limVars  == <<limiter, gap, last>>
reqVars  == <<target, lim, need, timer>>
waitVars == <<waiters, answered, live>>
vars == <<limVars, pc, reqVars, waitVars, since, panicky, shutdown, changes, sent>>

Home == [g \in Procs |-> IF g \in Rooms THEN g ELSE CHOOSE r \in Rooms : TRUE]

Init ==
    /\ limiter \in {0, 1}
    /\ gap = [i \in 1..Generations |-> LongAgo]
    /\ last = [i \in 1..Generations |-> -LongAgo]
    /\ pc = [g \in Procs |-> IF g \in Rooms THEN "unstarted" ELSE "idle"]
    /\ target = Home
    /\ lim = [g \in Procs |-> 0] /\ need = [g \in Procs |-> 0]
    /\ timer = [g \in Procs |-> 0]
    /\ waiters = [r \in Rooms |-> {}]
    /\ answered = {}
    /\ live = Callers
    /\ since = [r \in Rooms |-> Interval]
    /\ panicky \in SUBSET Rooms
    /\ shutdown = FALSE
    /\ changes = Changes
    /\ sent = [i \in 1..Generations |-> LongAgo]

------------------------------------------------------------------------------
(* The limiter *)

Larger(a, b) == IF a > b THEN a ELSE b

\* SetPlatformLimit and RemovePlatformLimit, when the configuration changes.
SetPlatformLimit(n) ==
    /\ changes > 0 /\ changes' = changes - 1
    /\ \/ /\ n = 0
          /\ limiter' = 0 /\ UNCHANGED <<gap, last>>
       \/ /\ n > 0 /\ limiter # 0
          /\ gap' = [gap EXCEPT ![limiter] = n] /\ UNCHANGED <<limiter, last>>
       \/ /\ n > 0 /\ limiter = 0
          /\ \E i \in 2..Generations :
                /\ sent[i] = LongAgo /\ last[i] = -LongAgo
                /\ \A g \in Procs : lim[g] # i
                /\ limiter' = i
                /\ gap' = [gap EXCEPT ![i] = n] /\ UNCHANGED last
    /\ UNCHANGED <<pc, reqVars, waitVars, since, panicky, shutdown, sent>>

\* Mutant: the slot of a request is the present, whoever has reserved the next one.
SlotNow(i) == 0

\* The slot the next request through limiter i gets: now, or the interval after the
\* slot given out last.
NextSlot(i) == Larger(0, last[i] + gap[i])

------------------------------------------------------------------------------
(* GetInfo: by a scheduler, by the API, or by a listener *)

Return(g) ==
    /\ pc' = [pc EXCEPT ![g] = IF g \in Rooms THEN "check" ELSE "idle"]
    /\ target' = [target EXCEPT ![g] = Home[g]]

\* The context is done before the slot: the request is given up, nobody is told.
Abandon(g) ==
    /\ Return(g)
    /\ lim' = [lim EXCEPT ![g] = 0] /\ need' = [need EXCEPT ![g] = 0]

\* WaitForPlatformWithContext: look the limiter up, under the map's lock.
Lookup(g) ==
    /\ pc[g] = "lookup"
    /\ lim' = [lim EXCEPT ![g] = limiter]
    /\ pc' = [pc EXCEPT ![g] = IF limiter = 0 THEN "send" ELSE "reserve"]
    /\ UNCHANGED <<limVars, target, need, timer, waitVars, since, panicky, shutdown, changes, sent>>

\* Under the limiter's lock: reserve a slot, unless the process is shutting down.
Reserve(g) ==
    /\ pc[g] = "reserve"
    /\ \/ /\ shutdown
          /\ Abandon(g)
          /\ UNCHANGED <<last, timer>>
       \/ /\ ~shutdown
          /\ LET slot == NextSlot(lim[g]) IN
                /\ last' = [last EXCEPT ![lim[g]] = slot]
                /\ timer' = [timer EXCEPT ![g] = slot]
                /\ pc' = [pc EXCEPT ![g] = IF slot > 0 THEN "slot" ELSE "send"]
          /\ need' = [need EXCEPT ![g] = gap[lim[g]]]
          /\ UNCHANGED <<target, lim>>
    /\ UNCHANGED <<limiter, gap, waitVars, since, panicky, shutdown, changes, sent>>

\* The slot comes, or the shutdown: then the slot is lost and nobody is notified.
SlotEnds(g) ==
    /\ pc[g] = "slot"
    /\ \/ timer[g] = 0 /\ pc' = [pc EXCEPT ![g] = "send"] /\ UNCHANGED <<target, lim, need>>
       \/ shutdown /\ Abandon(g)
    /\ timer' = [timer EXCEPT ![g] = 0]
    /\ UNCHANGED <<limVars, waitVars, since, panicky, shutdown, changes, sent>>

\* The request goes out.
Send(g) ==
    /\ pc[g] = "send"
    /\ pc' = [pc EXCEPT ![g] = "sent"]
    /\ sent' = IF lim[g] = 0 THEN sent ELSE [sent EXCEPT ![lim[g]] = 0]
    /\ lim' = [lim EXCEPT ![g] = 0] /\ need' = [need EXCEPT ![g] = 0]
    /\ UNCHANGED <<limVars, target, timer, waitVars, since, panicky, shutdown, changes>>

\* The platform answers, or the request fails.
Answer(g) ==
    /\ pc[g] = "sent"
    /\ \E a \in {"notify", "notify_error"} : pc' = [pc EXCEPT ![g] = a]
    /\ UNCHANGED <<limVars, reqVars, waitVars, since, panicky, shutdown, changes, sent>>

\* The adapter panics.  A scheduler is gone for good: schedulerOnce has fired.
Panic(g) ==
    /\ pc[g] = "sent" /\ target[g] \in panicky
    /\ IF g \in Rooms THEN pc' = [pc EXCEPT ![g] = "dead"] /\ UNCHANGED target ELSE Return(g)
    /\ UNCHANGED <<limVars, lim, need, timer, waitVars, since, panicky, shutdown, changes, sent>>

\* Mutant: the error of a request is not passed on, the list is cleared all the same.
NotifyOnSuccess(g) == answered \cup {c \in waiters[target[g]] : pc[g] = "notify"}

\* The channels have room for the one answer they ever get.
Deliver(g) == answered \cup waiters[target[g]]

\* notifyWaiters: the list is taken and cleared under the lock, every channel gets
\* the answer or the error.
Notify(g) ==
    /\ pc[g] \in {"notify", "notify_error"}
    /\ answered' = Deliver(g)
    /\ waiters' = [waiters EXCEPT ![target[g]] = {}]
    /\ IF pc[g] = "notify" THEN pc' = [pc EXCEPT ![g] = "stamp"] /\ UNCHANGED target ELSE Return(g)
    /\ UNCHANGED <<limVars, lim, need, timer, live, since, panicky, shutdown, changes, sent>>

\* lastRequestAt, after a success only.
Stamp(g) ==
    /\ pc[g] = "stamp"
    /\ since' = [since EXCEPT ![target[g]] = 0]
    /\ Return(g)
    /\ UNCHANGED <<limVars, lim, need, timer, waitVars, panicky, shutdown, changes, sent>>

------------------------------------------------------------------------------
(* The callers *)

\* GetInfo.
Ask(c, r) ==
    /\ pc[c] = "idle"
    /\ pc' = [pc EXCEPT ![c] = "lookup"]
    /\ target' = [target EXCEPT ![c] = r]
    /\ UNCHANGED <<limVars, lim, need, timer, waitVars, since, panicky, shutdown, changes, sent>>

\* forceRefresh: ForceAccess, then GetInfo.
ForceRefresh(c, r) ==
    /\ pc[c] = "idle"
    /\ changes > 0 /\ changes' = changes - 1
    /\ last' = IF limiter = 0 THEN last ELSE [last EXCEPT ![limiter] = Larger(@, 0)]
    /\ pc' = [pc EXCEPT ![c] = "lookup"]
    /\ target' = [target EXCEPT ![c] = r]
    /\ UNCHANGED <<limiter, gap, lim, need, timer, waitVars, since, panicky, shutdown, sent>>

\* GetInfoWithInterval: start the scheduler once, join the list, wait.
Wait(c, r) ==
    /\ pc[c] = "idle" /\ ~shutdown
    /\ pc' = [pc EXCEPT ![c] = "waiting", ![r] = IF @ = "unstarted" THEN "check" ELSE @]
    /\ target' = [target EXCEPT ![c] = r]
    /\ waiters' = [waiters EXCEPT ![r] = @ \cup {c}]
    /\ UNCHANGED <<limVars, lim, need, timer, answered, live, since, panicky, shutdown, changes, sent>>

\* The caller's own context is cancelled: its listener was stopped.
CancelWait(c) ==
    /\ pc[c] = "waiting" /\ c \in live
    /\ live' = live \ {c}
    /\ UNCHANGED <<limVars, pc, reqVars, waiters, answered, since, panicky, shutdown, changes, sent>>

\* The answer arrives, or the context is done: removeWaiter.
EndWait(c) ==
    /\ pc[c] = "waiting"
    /\ c \in answered \/ c \notin live \/ shutdown
    /\ waiters' = [waiters EXCEPT ![target[c]] = @ \ {c}]
    /\ answered' = answered \ {c}
    /\ live' = live \cup {c}
    /\ Return(c)
    /\ UNCHANGED <<limVars, lim, need, timer, since, panicky, shutdown, changes, sent>>

------------------------------------------------------------------------------
(* runScheduler *)

\* Somebody waits: sleep until the interval has passed, or for a jitter when it has.
Schedule(r) ==
    /\ pc[r] = "check"
    /\ waiters[r] # {}
    /\ \E t \in 0..Larger(Jitter, Interval) :
        /\ IF since[r] < Interval THEN t = Interval - since[r] ELSE t <= Jitter
        /\ timer' = [timer EXCEPT ![r] = t]
    /\ pc' = [pc EXCEPT ![r] = "sleep"]
    /\ UNCHANGED <<limVars, target, lim, need, waitVars, since, panicky, shutdown, changes, sent>>

\* Mutant: a scheduler that finds nobody waiting any more ends.
IdleExits(r) == pc' = [pc EXCEPT ![r] = IF waiters[r] = {} THEN "dead" ELSE "lookup"]

\* Those who waited may have left meanwhile.
Recheck(r) == pc' = [pc EXCEPT ![r] = IF waiters[r] = {} THEN "check" ELSE "lookup"]

WakeUp(r) ==
    /\ pc[r] = "sleep" /\ timer[r] = 0
    /\ Recheck(r)
    /\ UNCHANGED <<limVars, reqVars, waitVars, since, panicky, shutdown, changes, sent>>

SchedulerExit(r) ==
    /\ shutdown /\ pc[r] \in {"check", "sleep"}
    /\ pc' = [pc EXCEPT ![r] = "dead"]
    /\ timer' = [timer EXCEPT ![r] = 0]
    /\ UNCHANGED <<limVars, target, lim, need, waitVars, since, panicky, shutdown, changes, sent>>

------------------------------------------------------------------------------
\* Nothing is due: a tick passes.
Due(g) == (pc[g] \in {"slot", "sleep"} /\ timer[g] = 0) \/ (pc[g] = "send" /\ lim[g] # 0)

Tick ==
    /\ \A g \in Procs : ~Due(g)
    /\ timer' = [g \in Procs |-> IF timer[g] > 0 THEN timer[g] - 1 ELSE 0]
    /\ last' = [i \in 1..Generations |-> Larger(last[i] - 1, -LongAgo)]
    /\ since' = [r \in Rooms |-> IF since[r] < Interval THEN since[r] + 1 ELSE since[r]]
    /\ sent' = [i \in 1..Generations |-> IF sent[i] < LongAgo THEN sent[i] + 1 ELSE sent[i]]
    /\ UNCHANGED <<limiter, gap, pc, target, lim, need, waitVars, panicky, shutdown, changes>>

\* rootCancel: every context is derived from the root context.
Shutdown ==
    /\ ~shutdown /\ shutdown' = TRUE
    /\ UNCHANGED <<limVars, pc, reqVars, waitVars, since, panicky, changes, sent>>

RequestStep(g) ==
    Lookup(g) \/ Reserve(g) \/ SlotEnds(g) \/ Send(g) \/ Answer(g)
        \/ Notify(g) \/ Stamp(g)

SchedulerStep(r) == Schedule(r) \/ WakeUp(r)

Next ==
    \/ \E g \in Procs : RequestStep(g) \/ Panic(g)
    \/ \E c \in Callers, r \in Rooms : Ask(c, r) \/ ForceRefresh(c, r) \/ Wait(c, r)
    \/ \E c \in Callers : CancelWait(c) \/ EndWait(c)
    \/ \E r \in Rooms : SchedulerStep(r) \/ SchedulerExit(r)
    \/ \E n \in Gaps : SetPlatformLimit(n)
    \/ Tick
    \/ Shutdown

\* Goroutines run, requests return and timers fire; nobody has to ask, to cancel or to
\* change the configuration.
Fairness ==
    /\ WF_vars(Tick)
    /\ \A g \in Procs : WF_vars(RequestStep(g))
    /\ \A r \in Rooms : WF_vars(SchedulerStep(r))
    /\ \A c \in Callers : WF_vars(EndWait(c))

Spec == Init /\ [][Next]_vars /\ Fairness

------------------------------------------------------------------------------
(* Properties *)

TypeOK ==
    /\ limiter \in 0..Generations
    /\ gap \in [1..Generations -> Gaps] /\ last \in [1..Generations -> Int]
    /\ pc \in [Procs -> {"unstarted", "dead", "check", "sleep", "idle", "waiting", "lookup",
                         "reserve", "slot", "send", "sent", "notify", "notify_error",
                         "stamp"}]
    /\ target \in [Procs -> Rooms]
    /\ timer \in [Procs -> Nat]
    /\ waiters \in [Rooms -> SUBSET Callers]
    /\ since \in [Rooms -> 0..Interval]

\* Two requests that pass through the same limiter are sent at least the interval
\* apart that was in force when the later one reserved its slot, whoever sends them
\* and however the limit changes or is forced in between (WaitForPlatformWithContext
\* reserves under the lock and waits outside it).
RequestsApart ==
    [][\A g \in Procs : (pc[g] = "send" /\ pc'[g] = "sent" /\ lim[g] # 0)
            => sent[lim[g]] >= need[g]]_vars

\* Nobody is forgotten: a caller without an answer is in the list of its room, and a
\* scheduler serves that list, or its adapter has panicked, or the process ends
\* (notifyWaiters clears the list, removeWaiter edits it, runScheduler re-reads it).
NobodyForgotten ==
    \A c \in Callers : (pc[c] = "waiting" /\ c \notin answered) =>
        /\ c \in waiters[target[c]]
        /\ shutdown \/ target[c] \in panicky \/ pc[target[c]] \notin {"unstarted", "dead"}

\* Who waits gets an answer or is cancelled, though the platform is limited and the
\* adapter of another of its rooms panics (runScheduler, notifyWaiters).
WaitersServed ==
    \A c \in Callers, r \in Rooms :
        (pc[c] = "waiting" /\ target[c] = r /\ r \notin panicky) ~> (pc[c] # "waiting")

\* handler.go:626 "force refresh: ignore the platform's limit, get the newest
\* information at once": the request of a forced refresh waits for no slot.
ForcedAtOnce ==
    [][\A c \in Callers, r \in Rooms : (ForceRefresh(c, r) /\ limiter # 0) =>
            last'[limiter] + gap[limiter] <= 0]_vars
=============================================================================
