------------------------------- MODULE SoopLogin -------------------------------
(***************************************************************************)
(* Polling rooms of SOOP, which show some streams to visitors that are     *)
(* logged in only (src/src/live/sooplive, the handlers of                  *)
(* src/src/servers/cookie_handler.go).                                     *)
(*                                                                         *)
(* A cookie is the number of the login that gave it, 0 is none.  A room    *)
(* keeps a cookie of its own (runtimeCookie) before the one saved in the   *)
(* configuration.  A poll reads the page, checks the cookie (with a cache  *)
(* that answers for two minutes), logs in when the cookie is no longer     *)
(* good and there are credentials, asks for the channel, and once more     *)
(* after logging in when it is told to.  Rooms share one login request.    *)
(***************************************************************************)
EXTENDS Naturals, FiniteSets

CONSTANTS
    SoopRooms,
    MaxLogins,      \* bound on the cookies given out
    Losses          \* bound on the requests lost

VARIABLES
    credentials,    \* the configuration has an account
    stored,         \* the cookie in the configuration
    good,           \* the cookies the platform still honours
    issued,         \* the logins so far
    verified,       \* what the cache says of a cookie: "login", "visitor", or nothing ("none")
    flight,         \* the rooms that wait for the login request, {} when there is none
    room,           \* per room: pc, runtime cookie, ignoreStored, the cookies checked, sent and refused, result
    requests,       \* login requests of polls that are under way
    losses,         \* requests lost so far
    unsaved         \* history: a new cookie could not be saved

soopVars == <<credentials, stored, good, issued, verified, flight, room, requests, losses, unsaved>>

Cookies == 0..MaxLogins

Init ==
    /\ credentials \in BOOLEAN
    /\ stored \in {0, 1} /\ issued = stored /\ good = 0..stored \ {0}
    /\ verified = [k \in Cookies |-> "none"]
    /\ flight = {} /\ requests = 0 /\ losses = 0 /\ unsaved = FALSE
    /\ room = [r \in SoopRooms |->
                [pc |-> "idle", runtime |-> 0, ignoreStored |-> FALSE, checked |-> 0, sent |-> 0, refused |-> 0, result |-> "none"]]

\* getPrimaryCookieString: the cookie that is checked.
PrimaryCookie(r) == IF room[r].runtime # 0 THEN room[r].runtime ELSE stored

\* getCookieMap: the cookie that is sent.
CookieSent(r) ==
    IF room[r].ignoreStored /\ room[r].runtime = 0 THEN 0 ELSE PrimaryCookie(r)

End(r, result) == room' = [room EXCEPT ![r].pc = "idle", ![r].sent = 0, ![r].refused = 0, ![r].result = result]

Lost == losses < Losses /\ losses' = losses + 1

------------------------------------------------------------------------------
(* A poll: GetInfo *)

\* fetchPageMeta.  The page may say that the room has ended.
FetchPageMeta(r) ==
    /\ room[r].pc = "idle"
    /\ \/ /\ room' = [room EXCEPT ![r].pc = "check", ![r].result = "none"]
          /\ UNCHANGED losses
       \/ End(r, "offline") /\ UNCHANGED losses
       \/ End(r, "error") /\ Lost
    /\ UNCHANGED <<credentials, stored, good, issued, verified, flight, requests, unsaved>>

\* Mutant: every room sends its own login request.
StartOwnLogin(r) == flight' = flight \cup {r} /\ requests' = requests + 1

\* tryAutoLogin with singleflight: the first starts a request, the others wait for it.
StartLogin(r) ==
    /\ flight' = flight \cup {r}
    /\ requests' = IF flight = {} THEN requests + 1 ELSE requests

\* What tryVerifyAndReloginIfNeeded makes of the cookie: not there, a "login", a "visitor"'s,
\* or one that could not be verified ("unknown").
Decide(r, v) ==
    IF v \in {"none", "visitor"} /\ credentials
    THEN /\ room' = [room EXCEPT ![r].pc = "login", ![r].checked = 0, ![r].ignoreStored = IF v = "none" THEN @ ELSE FALSE]
         /\ StartLogin(r)
    ELSE /\ room' = [room EXCEPT ![r].pc = "send", ![r].checked = 0, ![r].ignoreStored = (v = "visitor")]
         /\ UNCHANGED <<flight, requests>>

\* Without a cookie, or with one the cache knows.
Precheck(r) ==
    LET k == PrimaryCookie(r) IN
    /\ room[r].pc = "check"
    /\ IF k # 0 /\ verified[k] = "none" THEN room' = [room EXCEPT ![r].pc = "verify", ![r].checked = k] /\ UNCHANGED <<flight, requests>>
       ELSE Decide(r, verified[k])
    /\ UNCHANGED <<credentials, stored, good, issued, verified, losses, unsaved>>

\* verifyCookieWithCache of the cookie read before: the answer is kept.
VerifyCookie(r) ==
    LET k == room[r].checked
        answer == IF k \in good THEN "login" ELSE "visitor"
    IN
    /\ room[r].pc = "verify"
    /\ \/ verified' = [verified EXCEPT ![k] = answer] /\ Decide(r, answer) /\ UNCHANGED losses
       \/ Decide(r, "unknown") /\ Lost /\ UNCHANGED verified
    /\ UNCHANGED <<credentials, stored, good, issued, unsaved>>

\* A verification is forgotten after two minutes.
VerificationExpires(k) ==
    /\ verified[k] # "none" /\ verified' = [verified EXCEPT ![k] = "none"]
    /\ UNCHANGED <<credentials, stored, good, issued, flight, room, requests, losses, unsaved>>

\* fetchChannelInfo with the cookies of this moment.
SendChannel(r) ==
    /\ room[r].pc = "send"
    /\ room' = [room EXCEPT ![r].pc = IF room[r].refused = 0 THEN "channel" ELSE "retry", ![r].sent = CookieSent(r)]
    /\ UNCHANGED <<credentials, stored, good, issued, verified, flight, requests, losses, unsaved>>

\* The first answer; channelResultLogin leads to a login, and to an error without an account.
\* The room is refused to a visitor; the number of the refused cookie is kept plus one.
ChannelInfo(r) ==
    /\ room[r].pc = "channel"
    /\ \/ /\ End(r, "live") /\ (room[r].sent \in good)
          /\ UNCHANGED <<flight, requests, losses>>
       \/ /\ room[r].sent \notin good
          /\ IF credentials
             THEN /\ room' = [room EXCEPT ![r].pc = "relogin", ![r].sent = 0, ![r].refused = room[r].sent + 1]
                  /\ StartLogin(r)
             ELSE End(r, "error") /\ UNCHANGED <<flight, requests>>
          /\ UNCHANGED losses
       \/ End(r, "offline") /\ UNCHANGED <<flight, requests, losses>>       \* blocked, or no longer on the air
       \/ End(r, "error") /\ Lost /\ UNCHANGED <<flight, requests>>
    /\ UNCHANGED <<credentials, stored, good, issued, verified, unsaved>>

\* The answer to the second request is taken as it is: whatever is not OK is a room that
\* is offline.
RetriedChannelInfo(r) ==
    /\ room[r].pc = "retry"
    /\ \/ End(r, IF room[r].sent \in good THEN "live" ELSE "offline") /\ UNCHANGED losses
       \/ End(r, "error") /\ Lost
    /\ UNCHANGED <<credentials, stored, good, issued, verified, flight, requests, unsaved>>

------------------------------------------------------------------------------
(* The login of the polls *)

\* Mutant: a room that has a cookie of its own keeps it.
KeepCookie(old, k) ==
    [old EXCEPT !.pc = "send", !.runtime = IF @ = 0 THEN k ELSE @, !.ignoreStored = FALSE]

\* persistCookie and setRuntimeState of a room the login has answered.
TakeCookie(old, k) == [old EXCEPT !.pc = "send", !.runtime = k, !.ignoreStored = FALSE]

\* LoginAndGetCookie, for every room that waits; saving the cookie may fail.
LoginAndGetCookie ==
    /\ flight # {} /\ issued < MaxLogins
    /\ issued' = issued + 1 /\ good' = good \cup {issued'}
    /\ \/ stored' = issued' /\ UNCHANGED <<losses, unsaved>>
       \/ unsaved' = TRUE /\ Lost /\ UNCHANGED stored
    /\ room' = [r \in SoopRooms |-> IF r \in flight THEN TakeCookie(room[r], issued') ELSE room[r]]
    /\ flight' = {} /\ requests' = requests - 1
    /\ UNCHANGED <<credentials, verified>>

\* Mutant: only one of the rooms that wait is told.
OnlyOne == {CHOOSE r \in flight : TRUE}

\* The rooms told that the login has failed.
Told == flight

\* A failed login before the first request leaves the room a visitor, one after it ends the poll.
LoginFails ==
    /\ flight # {} /\ (Lost \/ (issued = MaxLogins /\ UNCHANGED losses))
    /\ room' = [r \in SoopRooms |->
         IF r \notin Told THEN room[r]
         ELSE IF room[r].pc = "relogin" THEN [room[r] EXCEPT !.pc = "idle", !.sent = 0, !.refused = 0, !.result = "error"]
         ELSE IF PrimaryCookie(r) = 0 THEN [room[r] EXCEPT !.pc = "send"]
         ELSE [room[r] EXCEPT !.pc = "send", !.runtime = 0, !.ignoreStored = TRUE]]
    /\ flight' = {} /\ requests' = requests - 1
    /\ UNCHANGED <<credentials, stored, good, issued, verified, unsaved>>

------------------------------------------------------------------------------
(* The platform and the panel *)

\* The platform ends a session.
CookieExpires(k) ==
    /\ k \in good /\ good' = good \ {k}
    /\ UNCHANGED <<credentials, stored, issued, verified, flight, room, requests, losses, unsaved>>

\* applyCookiesToLives: every room forgets its own cookie.
ResetRooms == room' = [r \in SoopRooms |-> [room[r] EXCEPT !.runtime = 0, !.ignoreStored = FALSE]]

\* clearSoopLiveAuthConfig
ClearSoopLiveAuthConfig ==
    /\ (credentials \/ stored # 0)
    /\ credentials' = FALSE /\ stored' = 0 /\ ResetRooms
    /\ UNCHANGED <<good, issued, verified, flight, requests, losses, unsaved>>

\* loginSoopLive, with or without saving the account.
LoginSoopLive ==
    /\ issued < MaxLogins
    /\ issued' = issued + 1 /\ good' = good \cup {issued'} /\ stored' = issued'
    /\ credentials' \in BOOLEAN /\ ResetRooms
    /\ UNCHANGED <<verified, flight, requests, losses, unsaved>>

Poll(r) == \/ FetchPageMeta(r) \/ Precheck(r) \/ VerifyCookie(r) \/ SendChannel(r)
           \/ ChannelInfo(r) \/ RetriedChannelInfo(r)

Login == LoginAndGetCookie \/ LoginFails

Next == \/ \E r \in SoopRooms : Poll(r)
        \/ Login
        \/ \E k \in Cookies \ {0} : VerificationExpires(k) \/ CookieExpires(k)
        \/ ClearSoopLiveAuthConfig \/ LoginSoopLive

\* Every room is polled again and again, every request ends.
Fairness == (\A r \in SoopRooms : WF_soopVars(Poll(r))) /\ WF_soopVars(Login)

Spec == Init /\ [][Next]_soopVars /\ Fairness

------------------------------------------------------------------------------
(* Properties *)

SoopTypeOK ==
    /\ credentials \in BOOLEAN /\ stored \in 0..issued /\ issued \in Cookies /\ good \subseteq 1..issued
    /\ verified \in [Cookies -> {"none", "login", "visitor"}]
    /\ flight \subseteq {r \in SoopRooms : room[r].pc \in {"login", "relogin"}}
    /\ \A r \in SoopRooms : room[r].runtime \in 0..issued /\ room[r].sent \in 0..issued

\* However many rooms find at the same moment that the session has ended, their polls
\* have one login request under way (loginAndGetCookieWithSingleflight).
LoginsShared == requests = (IF flight = {} THEN 0 ELSE 1)

\* The request repeated after a login does not carry the cookie that has just been
\* refused, unless the new one could not be saved (resolveChannelInfo, tryAutoLogin).
RetryHasNewCookie ==
    \A r \in SoopRooms : room[r].pc = "retry" /\ ~unsaved => room[r].sent = 0 \/ room[r].sent + 1 # room[r].refused

\* A poll always comes to its end: no room waits for a login that has ended
\* (loginAndGetCookieWithSingleflight).
PollsEnd == \A r \in SoopRooms : room[r].pc # "idle" ~> room[r].pc = "idle"

\* GetInfo returns an error when the login is no longer good, and does not report the
\* room as offline (the comment in GetInfo of sooplive.go).
ExpiredIsAnError ==
    [][\A r \in SoopRooms : RetriedChannelInfo(r) /\ room[r].sent \notin good => room[r]'.result # "offline"]_soopVars
=============================================================================
