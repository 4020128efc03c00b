------------------------------ MODULE MCPolling ------------------------------
(***************************************************************************)
(* Instances for TLC of the parts that ask a platform about its rooms,     *)
(* which share no state: the schedulers and the rate limiter, the adapters *)
(* of the platforms, the login of SOOP, and the players of rooms.  A       *)
(* behaviour is one of one part (chosen at the start); the others stay in  *)
(* one of their initial states.                                            *)
(***************************************************************************)
EXTENDS Integers, Sequences

CONSTANTS
    Rooms, Callers, Interval, Jitter, Gaps, Generations, Changes,   \* Requests
    Platforms,                                                      \* Platforms
    SoopRooms, MaxLogins, Losses,                                   \* SoopLogin
    Tokens, Players, MaxSessions, SessionTTL, CacheTTL, MaxStreams  \* Playback

ASSUME PollingAssumption ==
    /\ Platforms \subseteq {"bilibili", "douyu", "huya", "douyin", "kuaishou", "acfun", "huajiao",
                            "cc", "qq", "openrec", "zhanqi", "yizhibo", "hongdoufm", "weibolive",
                            "missevan", "lang", "xiaohongshu", "twitch", "yy"}

VARIABLES
    part,
    \* Requests
    limiter, gap, last, pc, target, lim, need, timer, waiters, answered, live, since, panicky,
    shutdown, changes, sent,
    \* Platforms
    platform, truth, want, scope, clear, broken, method, idKnown, kind, step, heard, misread,
    extraLost, result, picked,
    \* SoopLogin
    credentials, stored, good, issued, verified, flight, room, requests, losses, unsaved,
    \* Playback
    sessions, format, idle, cached, age, resolveMu, streams, revoked, playerPc, token, wanted,
    forced, using, segment, refusedAt

Req == INSTANCE Requests
Plat == INSTANCE Platforms
Soop == INSTANCE SoopLogin
Play == INSTANCE Playback WITH
            issued <- streams, pc <- playerPc, kind <- wanted, target <- segment

schedulers == <<limiter, gap, last, pc, target, lim, need, timer, waiters, answered, live, since,
                panicky, shutdown, changes, sent>>
adapters == <<platform, truth, want, scope, clear, broken, method, idKnown, kind, step, heard,
              misread, extraLost, result, picked>>
logins == <<credentials, stored, good, issued, verified, flight, room, requests, losses, unsaved>>
watching == <<sessions, format, idle, cached, age, resolveMu, streams, revoked, playerPc, token,
              wanted, forced, using, segment, refusedAt>>

mcVars == <<part, schedulers, adapters, logins, watching>>

MCInit ==
    /\ part \in {"requests", "platforms", "soop", "players"}
    /\ Req!Init
    /\ part # "requests" => panicky = {}
    /\ Plat!Init
    /\ part # "platforms" => /\ platform = "huya" /\ truth = "live" /\ want = "none" /\ scope = "room"
                             /\ clear /\ broken = {}
    /\ Soop!Init
    /\ part # "soop" => credentials /\ stored = 0
    /\ Play!Init

On(p, A) == part = p /\ A /\ UNCHANGED part

MCNext ==
    \/ On("requests", Req!Next) /\ UNCHANGED <<adapters, logins, watching>>
    \/ On("platforms", Plat!Next) /\ UNCHANGED <<schedulers, logins, watching>>
    \/ On("soop", Soop!Next) /\ UNCHANGED <<schedulers, adapters, watching>>
    \/ On("players", Play!Next) /\ UNCHANGED <<schedulers, adapters, logins>>

\* The fairness of each part, which only the part that runs can owe.
Fair(p, A) == part = p /\ A

MCFairness ==
    /\ WF_schedulers(Fair("requests", Req!Tick))
    /\ \A g \in Rooms \cup Callers : WF_schedulers(Fair("requests", Req!RequestStep(g)))
    /\ \A r \in Rooms : WF_schedulers(Fair("requests", Req!SchedulerStep(r)))
    /\ \A c \in Callers : WF_schedulers(Fair("requests", Req!EndWait(c)))
    /\ SF_adapters(Fair("platforms", Plat!StartPoll("info")))
    /\ SF_adapters(Fair("platforms", Plat!StartPoll("streams")))
    /\ WF_adapters(Fair("platforms", \E f \in Plat!Faults : Plat!Answer(f)))
    /\ \A r \in SoopRooms : WF_logins(Fair("soop", Soop!Poll(r)))
    /\ WF_logins(Fair("soop", Soop!Login))
    /\ \A p \in Players :
        /\ SF_watching(Fair("players", Play!GetStream(p)))
        /\ WF_watching(Fair("players", Play!Resolve(p)))
        /\ WF_watching(Fair("players", Play!Refused(p) \/ Play!Accepted(p)))

MCSpec == MCInit /\ [][MCNext]_mcVars /\ MCFairness

-----------------------------------------------------------------------------
(* Whoever asks is answered: who waits for a room is answered or cancelled     *)
(* (runScheduler), Huya's adapter finds the way that works                     *)
(* (getInfoMethodIndex), no poll of a SOOP room waits for ever                 *)
(* (loginAndGetCookieWithSingleflight), and so for players (getStream).        *)
EverybodyAnswered ==
    /\ part = "requests" => Req!WaitersServed
    /\ part = "platforms" => Plat!HuyaAnswers
    /\ part = "soop" => Soop!PollsEnd
    /\ part = "players" => Play!PlayersAnswered

(* What an adapter reports of a room is what the platform said in that poll   *)
(* (GetInfo).                                                                 *)
ReportsWhatItHeard == part = "platforms" => Plat!ReportsWhatItHeard

(* One gets what one asked for: the stream the room prefers is recorded when  *)
(* there is one (SelectPreferredStream), a player gets the format its address *)
(* names (getStream).                                                         *)
AskedForIsGot ==
    /\ part = "platforms" => Plat!PreferenceKept
    /\ part = "players" => Play!FormatKept

(* Who was refused asks again with something new: the cookie of the login all *)
(* rooms share (tryAutoLogin), a stream issued since (openUpstream).          *)
RetryIsNew ==
    /\ part = "soop" => Soop!LoginsShared /\ Soop!RetryHasNewCookie
    /\ part = "players" => Play!RetryIsFresh
=============================================================================
