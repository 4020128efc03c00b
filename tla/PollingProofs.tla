----------------------------- MODULE PollingProofs -----------------------------
(***************************************************************************)
(* What polling and playing promise for any number of rooms, logins,       *)
(* streams and players: a poll reports what it heard, the stream that was  *)
(* asked for is the one that is taken, and whoever was refused retries     *)
(* with something new.                                                     *)
(*                                                                         *)
(* The login, the adapters and the players are apart, and each has its     *)
(* invariant (LoginIInv, AdapterIInv, WatchIInv). The numbers of cookies   *)
(* and of streams only grow; they are what tells an old one from a new     *)
(* one.                                                                    *)
(***************************************************************************)
EXTENDS MCPolling, TLAPS

------------------------------------------------------------------------------
(* The login of SOOP *)

\* The state of the poll of a room.
RoomState == [pc : {"idle", "check", "verify", "login", "relogin", "send", "channel", "retry"},
              runtime : Nat, ignoreStored : BOOLEAN, checked : Nat, sent : Nat, refused : Nat,
              result : {"none", "error", "offline", "live"}]

\* Nobody sends a cookie that is not issued yet. A room that was refused a cookie holds, when
\* it sends again, none that was issued before the refusal: the login it waited for replaced
\* them (or the new cookie could not be saved).
RoomOK(s) ==
    /\ s.runtime <= issued /\ s.sent <= issued /\ s.refused <= issued + 1
    /\ s.pc \in {"idle", "check", "verify", "login", "channel"} => s.refused = 0
    /\ s.pc = "send" /\ s.refused # 0 /\ ~unsaved =>
        /\ s.runtime # 0 => s.runtime >= s.refused
        /\ stored # 0 => stored >= s.refused
    /\ s.pc = "retry" /\ ~unsaved => s.sent = 0 \/ s.sent >= s.refused

\* The rooms that wait are those whose poll is in the login, and one request is under way for
\* all of them.
LoginIInv ==
    /\ stored \in Nat /\ issued \in Nat /\ stored <= issued
    /\ room \in [SoopRooms -> RoomState]
    /\ flight \subseteq {r \in SoopRooms : room[r].pc \in {"login", "relogin"}}
    /\ requests = IF flight = {} THEN 0 ELSE 1
    /\ \A r \in SoopRooms : RoomOK(room[r])

LEMMA LoginStart == Soop!Init => LoginIInv
<1> SUFFICES ASSUME Soop!Init
             PROVE  LoginIInv
    OBVIOUS
<1>1. /\ stored \in {0, 1} /\ issued = stored /\ flight = {} /\ requests = 0
      /\ room = [r \in SoopRooms |->
                  [pc |-> "idle", runtime |-> 0, ignoreStored |-> FALSE, checked |-> 0, sent |-> 0,
                   refused |-> 0, result |-> "none"]]
  BY DEF Soop!Init
<1> QED BY <1>1 DEF LoginIInv, RoomState, RoomOK

\* A step of the poll of room r that neither joins nor ends a login.
LEMMA QuietPoll ==
    ASSUME LoginIInv, NEW r \in SoopRooms, NEW new \in RoomState,
           room' = [room EXCEPT ![r] = new],
             UNCHANGED <<stored, issued, unsaved, flight, requests>>,
           room[r].pc \notin {"login", "relogin"}, RoomOK(new)
    PROVE  LoginIInv'
<1>1. /\ room' \in [SoopRooms -> RoomState]
      /\ \A q \in SoopRooms : room'[q] = IF q = r THEN new ELSE room[q]
  BY DEF LoginIInv
<1>2. r \notin flight
  BY DEF LoginIInv
<1>3. (\A q \in SoopRooms : RoomOK(room[q]))'
  BY <1>1 DEF LoginIInv, RoomOK
<1> QED BY <1>1, <1>2, <1>3 DEF LoginIInv

\* Room r joins the login.
LEMMA JoinLogin ==
    ASSUME LoginIInv, NEW r \in SoopRooms, NEW new \in RoomState,
           room' = [room EXCEPT ![r] = new], UNCHANGED <<stored, issued, unsaved>>,
           Soop!StartLogin(r), new.pc \in {"login", "relogin"}, RoomOK(new)
    PROVE  LoginIInv'
<1>1. /\ room' \in [SoopRooms -> RoomState]
      /\ \A q \in SoopRooms : room'[q] = IF q = r THEN new ELSE room[q]
  BY DEF LoginIInv
<1>2. (\A q \in SoopRooms : RoomOK(room[q]))'
  BY <1>1 DEF LoginIInv, RoomOK
<1>3. flight' \subseteq {q \in SoopRooms : room'[q].pc \in {"login", "relogin"}}
  BY <1>1 DEF LoginIInv, Soop!StartLogin
<1>4. requests' = 1 /\ flight' # {}
  BY DEF LoginIInv, Soop!StartLogin
<1> QED BY <1>1, <1>2, <1>3, <1>4 DEF LoginIInv

\* What the check of a cookie has found decides whether it is sent or the room joins the login.
LEMMA Decides ==
    ASSUME LoginIInv, NEW r \in SoopRooms, NEW v, Soop!Decide(r, v),
           room[r].pc \in {"check", "verify"}, UNCHANGED <<stored, issued, unsaved>>
    PROVE  LoginIInv'
<1>1. room[r] \in RoomState /\ room[r].refused = 0 /\ RoomOK(room[r])
  BY DEF LoginIInv, RoomOK
<1>2. CASE v \in {"none", "visitor"} /\ credentials
  <2>1. PICK new \in RoomState :
            /\ room' = [room EXCEPT ![r] = new] /\ new.pc = "login" /\ new.refused = 0
            /\ new.runtime = room[r].runtime /\ new.sent = room[r].sent
    <3> DEFINE new == [room[r] EXCEPT !.pc = "login", !.checked = 0,
                          !.ignoreStored = IF v = "none" THEN @ ELSE FALSE]
    <3>1. new \in RoomState /\ new.pc = "login" /\ new.refused = 0
          /\ new.runtime = room[r].runtime /\ new.sent = room[r].sent
      BY <1>1 DEF RoomState
    <3>2. room' = [room EXCEPT ![r] = new]
      BY <1>2 DEF Soop!Decide, LoginIInv, RoomState
    <3> QED BY <3>1, <3>2
  <2>2. RoomOK(new) /\ Soop!StartLogin(r)
    BY <1>1, <1>2, <2>1 DEF RoomOK, Soop!Decide
  <2> QED BY <2>1, <2>2, JoinLogin
<1>3. CASE ~(v \in {"none", "visitor"} /\ credentials)
  <2>1. PICK new \in RoomState :
            /\ room' = [room EXCEPT ![r] = new] /\ new.pc = "send" /\ new.refused = 0
            /\ new.runtime = room[r].runtime /\ new.sent = room[r].sent
    <3> DEFINE new == [room[r] EXCEPT !.pc = "send", !.checked = 0,
          !.ignoreStored = (v = "visitor")]
    <3>1. new \in RoomState /\ new.pc = "send" /\ new.refused = 0
          /\ new.runtime = room[r].runtime /\ new.sent = room[r].sent
      BY <1>1 DEF RoomState
    <3>2. room' = [room EXCEPT ![r] = new]
      BY <1>3 DEF Soop!Decide, LoginIInv, RoomState
    <3> QED BY <3>1, <3>2
  <2>2. RoomOK(new) /\ UNCHANGED <<flight, requests>>
    BY <1>1, <1>3, <2>1 DEF RoomOK, Soop!Decide
  <2> QED BY <2>1, <2>2, QuietPoll
<1> QED BY <1>2, <1>3

\* Every step of a poll, with a login under way or not.
LEMMA PollStep ==
    ASSUME LoginIInv, NEW r \in SoopRooms, Soop!Poll(r)
    PROVE  LoginIInv'
<1>1. UNCHANGED <<stored, issued, unsaved>> /\ room[r] \in RoomState /\ RoomOK(room[r])
      /\ issued \in Nat /\ stored \in Nat /\ stored <= issued
  BY DEF LoginIInv, Soop!Poll, Soop!FetchPageMeta, Soop!Precheck, Soop!VerifyCookie,
     Soop!SendChannel, Soop!ChannelInfo, Soop!RetriedChannelInfo
\* The end of a poll.
<1>2. ASSUME NEW answer \in {"error", "offline", "live"}, Soop!End(r, answer),
             UNCHANGED <<flight, requests>>, room[r].pc \notin {"login", "relogin"}
      PROVE  LoginIInv'
  <2>1. PICK new \in RoomState :
            /\ room' = [room EXCEPT ![r] = new] /\ new.pc = "idle" /\ new.refused = 0
            /\ new.runtime = room[r].runtime /\ new.sent = 0
    <3> DEFINE new == [room[r] EXCEPT !.pc = "idle", !.sent = 0, !.refused = 0, !.result = answer]
    <3>1. new \in RoomState /\ new.pc = "idle" /\ new.refused = 0
          /\ new.runtime = room[r].runtime /\ new.sent = 0
      BY <1>1 DEF RoomState
    <3>2. room' = [room EXCEPT ![r] = new]
      BY <1>2 DEF Soop!End, LoginIInv, RoomState
    <3> QED BY <3>1, <3>2
  <2>2. RoomOK(new)
    BY <1>1, <2>1 DEF RoomOK, RoomState
  <2> QED BY <1>1, <1>2, <2>1, <2>2, QuietPoll
<1>3. CASE Soop!FetchPageMeta(r)
  <2>1. CASE room' = [room EXCEPT ![r].pc = "check", ![r].result = "none"]
    <3> DEFINE new == [room[r] EXCEPT !.pc = "check", !.result = "none"]
    <3>1. new \in RoomState /\ new.pc = "check" /\ new.refused = room[r].refused
          /\ new.runtime = room[r].runtime /\ new.sent = room[r].sent
      BY <1>1 DEF RoomState
    <3>2. room' = [room EXCEPT ![r] = new] /\ room[r].pc = "idle" /\ UNCHANGED <<flight, requests>>
      BY <1>3, <2>1 DEF Soop!FetchPageMeta, LoginIInv, RoomState
    <3> HIDE DEF new
    <3>3. RoomOK(new)
      BY <1>1, <3>1, <3>2 DEF RoomOK
    <3> QED BY <1>1, <3>1, <3>2, <3>3, QuietPoll
  <2>2. CASE Soop!End(r, "offline") \/ Soop!End(r, "error")
    BY <1>2, <1>3, <2>2 DEF Soop!FetchPageMeta
  <2> QED BY <1>3, <2>1, <2>2 DEF Soop!FetchPageMeta
<1>4. CASE Soop!Precheck(r)
  <2> DEFINE k == Soop!PrimaryCookie(r)
  <2>1. CASE k # 0 /\ verified[k] = "none"
    <3> DEFINE new == [room[r] EXCEPT !.pc = "verify", !.checked = k]
    <3>1. k \in Nat
      BY <1>1 DEF Soop!PrimaryCookie, RoomState
    <3>2. new \in RoomState /\ new.pc = "verify" /\ new.refused = room[r].refused
          /\ new.runtime = room[r].runtime /\ new.sent = room[r].sent
      BY <1>1, <3>1 DEF RoomState
    <3>3. room' = [room EXCEPT ![r].pc = "verify", ![r].checked = k]
          /\ room[r].pc = "check" /\ UNCHANGED <<flight, requests>>
      BY <1>4, <2>1 DEF Soop!Precheck
    <3>4. room' = [room EXCEPT ![r] = new]
      BY <3>3 DEF LoginIInv, RoomState
    <3> HIDE DEF new
    <3>5. RoomOK(new)
      BY <1>1, <3>2, <3>3 DEF RoomOK
    <3> QED BY <1>1, <3>2, <3>3, <3>4, <3>5, QuietPoll
  <2>2. CASE ~(k # 0 /\ verified[k] = "none")
    <3>1. Soop!Decide(r, verified[k]) /\ room[r].pc = "check"
      BY <1>4, <2>2 DEF Soop!Precheck
    <3> QED BY <1>1, <3>1, Decides
  <2> QED BY <2>1, <2>2
<1>5. CASE Soop!VerifyCookie(r)
  <2>1. room[r].pc = "verify" /\ \E v \in {"login", "visitor", "unknown"} : Soop!Decide(r, v)
    BY <1>5 DEF Soop!VerifyCookie
  <2> QED BY <1>1, <2>1, Decides
\* The cookie sent after a login is the one of that login, or a later one.
<1>6. CASE Soop!SendChannel(r)
  <2> DEFINE cookie == Soop!CookieSent(r)
             new == [room[r] EXCEPT !.pc = IF room[r].refused = 0 THEN "channel" ELSE "retry",
                                    !.sent = cookie]
  <2>1. cookie \in Nat /\ cookie <= issued /\ cookie \in {0, room[r].runtime, stored}
    BY <1>1 DEF Soop!CookieSent, Soop!PrimaryCookie, RoomState, RoomOK
  <2>2. room' = [room EXCEPT ![r].pc = IF room[r].refused = 0 THEN "channel" ELSE "retry",
                             ![r].sent = cookie]
        /\ room[r].pc = "send" /\ UNCHANGED <<flight, requests>>
    BY <1>6 DEF Soop!SendChannel
  <2>3. room' = [room EXCEPT ![r] = new]
    BY <2>2 DEF LoginIInv, RoomState
  <2> HIDE DEF cookie
  <2>4. new \in RoomState /\ new.pc = (IF room[r].refused = 0 THEN "channel" ELSE "retry")
        /\ new.refused = room[r].refused /\ new.runtime = room[r].runtime /\ new.sent = cookie
    BY <1>1, <2>1 DEF RoomState
  <2> HIDE DEF new
  <2>5. RoomOK(new)
    BY <1>1, <2>1, <2>2, <2>4 DEF RoomOK, RoomState
  <2> QED BY <1>1, <2>2, <2>3, <2>4, <2>5, QuietPoll
<1>7. CASE Soop!ChannelInfo(r)
  <2>1. CASE room' = [room EXCEPT ![r].pc = "relogin", ![r].sent = 0,
               ![r].refused = room[r].sent + 1]
             /\ Soop!StartLogin(r)
    <3>0. PICK n \in Nat : n = room[r].sent + 1
      BY <1>1 DEF RoomState
    <3> DEFINE new == [room[r] EXCEPT !.pc = "relogin", !.sent = 0, !.refused = n]
    <3>1. new \in RoomState /\ new.pc = "relogin" /\ new.refused = n
          /\ new.runtime = room[r].runtime /\ new.sent = 0
      BY <1>1 DEF RoomState
    <3>2. room' = [room EXCEPT ![r] = new]
      BY <2>1, <3>0 DEF LoginIInv, RoomState
    <3> HIDE DEF new
    <3>3. RoomOK(new)
      BY <1>1, <3>0, <3>1 DEF RoomOK, RoomState
    <3> QED BY <1>1, <2>1, <3>1, <3>2, <3>3, JoinLogin
  <2>2. CASE \E answer \in {"error", "offline", "live"} :
                Soop!End(r, answer) /\ UNCHANGED <<flight, requests>>
    BY <1>2, <1>7, <2>2 DEF Soop!ChannelInfo
  <2> QED BY <1>7, <2>1, <2>2 DEF Soop!ChannelInfo
<1>8. CASE Soop!RetriedChannelInfo(r)
  <2>1. \E answer \in {"error", "offline", "live"} : Soop!End(r, answer)
    BY <1>8 DEF Soop!RetriedChannelInfo
  <2> QED BY <1>2, <1>8, <2>1 DEF Soop!RetriedChannelInfo
<1> QED BY <1>3, <1>4, <1>5, <1>6, <1>7, <1>8 DEF Soop!Poll

\* A login gives a cookie that no room has been refused with.
LEMMA LoggedIn ==
    ASSUME LoginIInv, Soop!LoginAndGetCookie
    PROVE  LoginIInv'
<1>1. /\ issued' = issued + 1 /\ flight' = {} /\ requests' = requests - 1 /\ flight # {}
      /\ stored' = issued' \/ (unsaved' = TRUE /\ stored' = stored)
      /\ room' = [r \in SoopRooms |-> IF r \in flight THEN Soop!TakeCookie(room[r], issued')
           ELSE room[r]]
  BY DEF Soop!LoginAndGetCookie
<1>2. requests' = 0 /\ issued' \in Nat /\ stored' \in Nat /\ stored' <= issued'
  BY <1>1 DEF LoginIInv
<1>3. unsaved' \/ (stored' = issued' /\ (unsaved' <=> unsaved))
  BY DEF Soop!LoginAndGetCookie
<1>4. ASSUME NEW r \in SoopRooms
      PROVE  room'[r] \in RoomState /\ RoomOK(room[r])'
  <2>1. room[r] \in RoomState /\ RoomOK(room[r])
    BY DEF LoginIInv
  <2>2. CASE r \notin flight
    <3>1. room'[r] = room[r]
      BY <1>1, <2>2
    <3> QED BY <1>1, <1>2, <1>3, <2>1, <3>1 DEF RoomOK, RoomState, LoginIInv
  <2>3. CASE r \in flight
    <3>1. PICK k \in Nat : k = issued'
      BY <1>2
    <3>2. room'[r] = [room[r] EXCEPT !.pc = "send", !.runtime = k, !.ignoreStored = FALSE]
      BY <1>1, <2>3, <3>1 DEF Soop!TakeCookie
    <3>3. /\ room'[r] \in RoomState /\ room'[r].pc = "send" /\ room'[r].runtime = k
          /\ room'[r].sent = room[r].sent /\ room'[r].refused = room[r].refused
      BY <2>1, <3>2 DEF RoomState
    <3> QED BY <1>1, <1>2, <1>3, <2>1, <3>1, <3>3 DEF RoomOK, RoomState, LoginIInv
  <2> QED BY <2>2, <2>3
<1>5. room' \in [SoopRooms -> RoomState]
  <2>1. DOMAIN room' = SoopRooms /\ room' = [r \in SoopRooms |-> room'[r]]
    BY <1>1
  <2> QED BY <1>4, <2>1
<1> QED BY <1>1, <1>2, <1>4, <1>5 DEF LoginIInv

\* A login that fails lets the rooms that have been refused go.
LEMMA LoginFailed ==
    ASSUME LoginIInv, Soop!LoginFails
    PROVE  LoginIInv'
<1>1. /\ flight' = {} /\ requests' = requests - 1 /\ flight # {}
      /\ UNCHANGED <<stored, issued, unsaved>>
  BY DEF Soop!LoginFails
<1>2. requests' = 0 /\ issued' \in Nat /\ stored' \in Nat /\ stored' <= issued'
  BY <1>1 DEF LoginIInv
<1> DEFINE refusal(r) == [room[r] EXCEPT !.pc = "idle", !.sent = 0, !.refused = 0,
      !.result = "error"]
           visit(r) == [room[r] EXCEPT !.pc = "send"]
           forget(r) == [room[r] EXCEPT !.pc = "send", !.runtime = 0, !.ignoreStored = TRUE]
<1>3. /\ DOMAIN room' = SoopRooms /\ room' = [r \in SoopRooms |-> room'[r]]
      /\ \A r \in SoopRooms :
            room'[r] = IF r \notin flight THEN room[r]
                       ELSE IF room[r].pc = "relogin" THEN refusal(r)
                       ELSE IF Soop!PrimaryCookie(r) = 0 THEN visit(r) ELSE forget(r)
  BY Zenon DEF Soop!LoginFails, Soop!Told
<1>4. ASSUME NEW r \in SoopRooms
      PROVE  room'[r] \in RoomState /\ RoomOK(room[r])'
  <2>1. room[r] \in RoomState /\ RoomOK(room[r])
    BY DEF LoginIInv
  <2>2. CASE r \notin flight
    <3>1. room'[r] = room[r]
      BY <1>3, <2>2
    <3> QED BY <1>1, <2>1, <3>1 DEF RoomOK
  <2>3. CASE r \in flight /\ room[r].pc = "relogin"
    <3>1. room'[r] = refusal(r)
      BY <1>3, <2>3
    <3>2. /\ refusal(r) \in RoomState /\ refusal(r).pc = "idle"
          /\ refusal(r).runtime = room[r].runtime /\ refusal(r).sent = 0 /\ refusal(r).refused = 0
      BY <2>1 DEF RoomState
    <3>3. /\ room'[r] \in RoomState /\ room'[r].pc = "idle" /\ room'[r].runtime = room[r].runtime
          /\ room'[r].sent = 0 /\ room'[r].refused = 0
      BY <3>1, <3>2
    <3> QED BY <1>1, <1>2, <2>1, <3>3 DEF RoomOK
  <2>4. CASE r \in flight /\ room[r].pc # "relogin"
    <3>1. room[r].pc = "login"
      BY <2>4 DEF LoginIInv
    <3>2. room'[r] = visit(r) \/ room'[r] = forget(r)
      BY <1>3, <2>4
    <3>3. /\ visit(r) \in RoomState /\ visit(r).pc = "send" /\ visit(r).runtime = room[r].runtime
          /\ visit(r).sent = room[r].sent /\ visit(r).refused = room[r].refused
      BY <2>1 DEF RoomState
    <3>4. /\ forget(r) \in RoomState /\ forget(r).pc = "send" /\ forget(r).runtime = 0
          /\ forget(r).sent = room[r].sent /\ forget(r).refused = room[r].refused
      BY <2>1 DEF RoomState
    <3>5. /\ room'[r] \in RoomState /\ room'[r].pc = "send"
          /\ room'[r].runtime \in {0, room[r].runtime}
          /\ room'[r].sent = room[r].sent /\ room'[r].refused = room[r].refused
      BY <3>2, <3>3, <3>4
    <3> QED BY <1>1, <1>2, <2>1, <3>1, <3>5 DEF RoomOK
  <2> QED BY <2>2, <2>3, <2>4
<1>5. room' \in [SoopRooms -> RoomState]
  BY <1>3, <1>4
<1> QED BY <1>1, <1>2, <1>4, <1>5 DEF LoginIInv

\* The panel takes the cookie of every room, and saves a new one or none.
LEMMA RoomsReset ==
    ASSUME LoginIInv, Soop!ClearSoopLiveAuthConfig \/ Soop!LoginSoopLive
    PROVE  LoginIInv'
<1>1. /\ UNCHANGED <<flight, requests, unsaved>>
      /\ issued' \in Nat /\ issued' >= issued /\ stored' \in Nat /\ stored' <= issued'
      /\ stored' = 0 \/ stored' = issued + 1
  BY DEF Soop!ClearSoopLiveAuthConfig, Soop!LoginSoopLive, LoginIInv
<1>2. room' = [r \in SoopRooms |-> [room[r] EXCEPT !.runtime = 0, !.ignoreStored = FALSE]]
  BY DEF Soop!ClearSoopLiveAuthConfig, Soop!LoginSoopLive, Soop!ResetRooms
<1>3. ASSUME NEW r \in SoopRooms
      PROVE  room'[r] \in RoomState /\ room'[r].pc = room[r].pc /\ RoomOK(room[r])'
  <2>1. room[r] \in RoomState /\ RoomOK(room[r]) /\ issued \in Nat
    BY DEF LoginIInv
  <2>2. /\ room'[r] \in RoomState /\ room'[r].pc = room[r].pc /\ room'[r].runtime = 0
        /\ room'[r].sent = room[r].sent /\ room'[r].refused = room[r].refused
    BY <1>2, <2>1 DEF RoomState
  <2> QED BY <1>1, <2>1, <2>2 DEF RoomOK, RoomState
<1>4. room' \in [SoopRooms -> RoomState]
  <2>1. DOMAIN room' = SoopRooms /\ room' = [r \in SoopRooms |-> room'[r]]
    BY <1>2
  <2> QED BY <1>3, <2>1
<1> QED BY <1>1, <1>3, <1>4 DEF LoginIInv

LEMMA LoginStep == LoginIInv /\ [Soop!Next]_(Soop!soopVars) => LoginIInv'
<1> SUFFICES ASSUME LoginIInv, [Soop!Next]_(Soop!soopVars)
             PROVE  LoginIInv'
    OBVIOUS
<1>1. CASE UNCHANGED <<stored, issued, flight, room, requests, unsaved>>
  BY <1>1 DEF LoginIInv, RoomOK
<1>2. \/ UNCHANGED <<stored, issued, flight, room, requests, unsaved>>
      \/ \E r \in SoopRooms : Soop!Poll(r)
      \/ Soop!LoginAndGetCookie \/ Soop!LoginFails
      \/ Soop!ClearSoopLiveAuthConfig \/ Soop!LoginSoopLive
  BY DEF Soop!Next, Soop!soopVars, Soop!Login, Soop!VerificationExpires, Soop!CookieExpires
<1> QED BY <1>1, <1>2, PollStep, LoggedIn, LoginFailed, RoomsReset

------------------------------------------------------------------------------
(* The adapters of the platforms *)

\* One of the requests of p asks for the state; its answer is checked.
AsksForState(s, p) ==
    s.what = "state" => /\ {"status", "code"} \subseteq s.checks
                        /\ p \in Plat!Strict => "shape" \in s.checks

\* What InfoAsks says of the requests asks of a platform p.
AsksWell(asks, p) ==
    /\ \A n \in 1..Len(asks) : AsksForState(asks[n], p)
    /\ \E n \in 1..Len(asks) : asks[n].what = "state"
    /\ Len(asks) \in Nat \ {0} /\ (asks[1].what = "id" => Len(asks) # 1)

\* The requests of an adapter that asks once.
LEMMA OneRequest ==
    ASSUME NEW p, NEW checks, {"status", "code"} \subseteq checks,
           p \in Plat!Strict => "shape" \in checks
    PROVE  AsksWell(<<Plat!State(checks)>>, p)
<1>1. Plat!State(checks).what = "state" /\ Plat!State(checks).checks = checks
  BY DEF Plat!State
<1> QED BY <1>1 DEF AsksWell, AsksForState

\* The adapters that are not lenient look at what came of the request for the state.
LEMMA InfoAsks ==
    ASSUME platform \in Platforms, platform \notin Plat!Lenient,
           method \in [info : 1..2, streams : 1..2]
    PROVE  AsksWell(Plat!Requests(platform)["info"], platform)
<1> DEFINE asks == Plat!Requests(platform)["info"]
<1>1. CASE platform = "bilibili"
  <2>1. asks = <<Plat!Id({"status", "code"}), Plat!State({"status", "code"}),
          Plat!Name({"status", "code"})>>
    BY <1>1 DEF Plat!Requests, Plat!Adapter, Plat!BilibiliInfo
  <2> HIDE DEF asks
  <2>2. AsksWell(asks, platform)
    BY <1>1, <2>1 DEF AsksWell, AsksForState, Plat!Id, Plat!State, Plat!Name, Plat!Strict
  <2> QED BY <2>2 DEF asks
<1>2. CASE platform = "huya"
  <2>1. CASE method.info = 1
    <3>1. asks = <<Plat!Name({"status", "code"}), Plat!State(Plat!All)>>
      BY <1>2, <2>1 DEF Plat!Requests, Plat!Adapter, Plat!Huya, Plat!HuyaMethods, Plat!HuyaXingXiu
    <3> HIDE DEF asks
    <3>2. AsksWell(asks, platform)
      BY <3>1 DEF AsksWell, AsksForState, Plat!Name, Plat!State, Plat!All
    <3> QED BY <3>2 DEF asks
  <2>2. CASE method.info = 2
    <3>1. asks = <<Plat!State(Plat!All)>>
      BY <1>2, <2>2 DEF Plat!Requests, Plat!Adapter, Plat!Huya, Plat!HuyaMethods, Plat!HuyaLol
    <3> QED BY <3>1, OneRequest DEF Plat!All
  <2> QED BY <2>1, <2>2
<1>3. CASE platform \in {"cc", "qq", "openrec", "yizhibo", "hongdoufm", "twitch"}
  <2>1. asks = <<Plat!State(Plat!All)>>
    BY <1>3 DEF Plat!Requests, Plat!Adapter, Plat!Cc, Plat!Qq, Plat!Openrec, Plat!Yizhibo,
      Plat!Hongdoufm, Plat!Twitch
  <2> QED BY <2>1, OneRequest DEF Plat!All
<1>4. CASE platform \in {"zhanqi", "weibolive", "missevan", "lang"}
  <2>1. asks = <<Plat!State({"status", "code"})>>
    BY <1>4 DEF Plat!Requests, Plat!Adapter, Plat!Zhanqi, Plat!Weibolive, Plat!Missevan, Plat!Lang
  <2> QED BY <1>4, <2>1, OneRequest DEF Plat!Strict
<1>5. CASE platform = "yy"
  <2>1. asks = <<Plat!State({"status", "code"}), Plat!Name({"status"})>>
    BY <1>5 DEF Plat!Requests, Plat!Adapter, Plat!Yy
  <2> HIDE DEF asks
  <2>2. AsksWell(asks, platform)
    BY <1>5, <2>1 DEF AsksWell, AsksForState, Plat!State, Plat!Name, Plat!Strict
  <2> QED BY <2>2 DEF asks
<1>6. platform \in {"bilibili", "huya", "cc", "qq", "openrec", "yizhibo", "hongdoufm", "twitch",
        "zhanqi",
                    "weibolive", "missevan", "lang", "yy"}
  BY PollingAssumption DEF PollingAssumption, Plat!Lenient
<1> QED BY <1>1, <1>2, <1>3, <1>4, <1>5, <1>6

\* What the requests of a poll that have been answered have said.
Said(n) ==
    Plat!Requests(platform)["info"][n].what = "state" =>
        heard # {} \/ (misread /\ platform \notin Plat!Strict)

\* A poll that is not lenient gets past a request for the state only with what that request
\* said; no result is older than its poll.
AdapterIInv ==
    /\ platform \in Platforms /\ want \in {"none", "best", "low"}
    /\ kind \in {"info", "streams"} /\ method \in [info : 1..2, streams : 1..2]
    /\ heard \in {{}, {"live"}, {"offline"}} /\ truth \in {"live", "offline"}
    /\ step \in Nat
    /\ step # 0 => result = "none"
    /\ step # 0 /\ kind = "info" /\ platform \notin Plat!Lenient =>
        /\ step <= Len(Plat!Requests(platform)["info"])
        /\ \A n \in 1..(step - 1) : Said(n)
    /\ Plat!ReportsWhatItHeard
    /\ Plat!PreferenceKept

LEMMA AdapterStart == Plat!Init => AdapterIInv
BY DEF Plat!Init, AdapterIInv, Plat!ReportsWhatItHeard, Plat!PreferenceKept

\* A new poll has heard nothing and has no result.
LEMMA PollStarts ==
    ASSUME AdapterIInv, NEW k \in {"info", "streams"}, Plat!StartPoll(k)
    PROVE  AdapterIInv'
<1>1. /\ UNCHANGED <<platform, truth, want, scope, method>>
      /\ kind' = k /\ step' \in {1, 2} /\ heard' = {} /\ result' = "none"
      /\ step' = 2 => Plat!Requests(platform)[k][1].what = "id"
  BY DEF Plat!StartPoll, Plat!First
<1>2. Plat!ReportsWhatItHeard' /\ Plat!PreferenceKept'
  BY <1>1 DEF Plat!ReportsWhatItHeard, Plat!PreferenceKept
<1>3. Plat!Requests(platform)' = Plat!Requests(platform)
  BY <1>1 DEF Plat!Requests, Plat!DouyuStreams, Plat!DouyuExtra, Plat!Huya
<1>4. ASSUME kind' = "info", platform \notin Plat!Lenient
      PROVE  /\ step' <= Len(Plat!Requests(platform)["info"])
             /\ \A n \in 1..(step' - 1) : Said(n)'
  <2> DEFINE asks == Plat!Requests(platform)["info"]
  <2>1. Len(asks) \in Nat \ {0} /\ (asks[1].what = "id" => Len(asks) # 1)
    BY <1>4, InfoAsks DEF AdapterIInv, AsksWell
  <2> HIDE DEF asks
  <2>2. step' = 1 \/ (step' = 2 /\ asks[1].what = "id")
    BY <1>1, <1>4 DEF asks
  <2>3. step' <= Len(asks)
    <3>1. PICK n \in Nat : n = Len(asks)
      BY <2>1
    <3> QED BY <2>1, <2>2, <3>1
  <2>4. ASSUME NEW n \in 1..(step' - 1)
        PROVE  Said(n)'
    <3>1. n = 1 /\ step' = 2
      <4>1. CASE step' = 1
        BY <2>4, <4>1
      <4>2. CASE step' = 2
        BY <2>4, <4>2
      <4> QED BY <2>2, <4>1, <4>2
    <3>2. asks[n].what # "state"
      BY <2>2, <3>1
    <3> QED BY <1>1, <1>3, <3>2 DEF Said, asks
  <2> QED BY <2>3, <2>4 DEF asks
<1>5. step' \in Nat
  BY <1>1
<1> QED BY <1>1, <1>2, <1>3, <1>4, <1>5 DEF AdapterIInv

\* The stream that is picked, of those that have a URL.
LEMMA PreferredIsPicked ==
    ASSUME want \in {"none", "best", "low"}, UNCHANGED <<platform, want, scope>>,
           platform \in {"bilibili", "douyu"}, scope = "room", want # "none", ~extraLost'
    PROVE  Plat!SelectPreferredStream(Plat!Loaded(platform)') = want
<1>1. CASE platform = "bilibili"
  BY <1>1 DEF Plat!SelectPreferredStream, Plat!Loaded, Plat!BilibiliLoads
<1>2. CASE platform = "douyu"
  <2>1. Plat!Loaded(platform)' = Plat!DouyuLoads'
    BY <1>2 DEF Plat!Loaded
  <2>2. want = "low" => Plat!DouyuExtra' # <<>>
    BY DEF Plat!DouyuExtra
  <2>3. want \in Plat!DouyuLoads'
    BY <2>2 DEF Plat!DouyuLoads
  <2> QED BY <2>1, <2>3 DEF Plat!SelectPreferredStream
<1> QED BY <1>1, <1>2

\* The end of a poll.
LEMMA PollEnds ==
    ASSUME AdapterIInv, NEW r, NEW q, NEW unread, Plat!End(r, q, unread),
           UNCHANGED <<platform, truth, want, scope, kind>>, heard' \in {{}, {"live"}, {"offline"}},
           Plat!ReportsWhatItHeard', Plat!PreferenceKept'
    PROVE  AdapterIInv'
<1>1. step' = 0
  BY DEF Plat!End
<1>2. method' \in [info : 1..2, streams : 1..2]
  BY DEF AdapterIInv, Plat!End, Plat!Rotate, Plat!NextMethod
<1> QED BY <1>1, <1>2 DEF AdapterIInv

\* The answer to a request: the poll goes on, reports, or fails.
LEMMA AnswerStep ==
    ASSUME AdapterIInv, NEW f \in Plat!Faults, Plat!Answer(f)
    PROVE  AdapterIInv'
<1> DEFINE asks == Plat!Requests(platform)[kind]
           s == asks[step]
           failed == s # Plat!Extra /\ (f = "lost" \/ f \in s.checks)
<1>1. /\ step # 0 /\ UNCHANGED <<platform, truth, want, scope, kind>>
      /\ heard' = IF f = "none" /\ s.what \in {"state", "play"} THEN {truth} ELSE heard
      /\ misread' <=> (misread \/ f = "shape")
      /\ IF failed THEN Plat!End("error", "none", kind = "info" /\ step = 1 /\ f # "shape")
         ELSE IF step = Len(asks) \/ (kind = "streams" /\ heard' = {"offline"}) THEN Plat!Outcome(s)
         ELSE step' = step + 1 /\ UNCHANGED <<method, result, picked>>
  BY DEF Plat!Answer
<1>2. heard' \in {{}, {"live"}, {"offline"}} /\ (heard # {} => heard' # {})
  BY <1>1 DEF AdapterIInv
<1>3. CASE failed
  <2>1. Plat!End("error", "none", kind = "info" /\ step = 1 /\ f # "shape")
    BY <1>1, <1>3
  <2>2. Plat!ReportsWhatItHeard' /\ Plat!PreferenceKept'
    BY <2>1 DEF Plat!End, Plat!ReportsWhatItHeard, Plat!PreferenceKept
  <2> QED BY <1>1, <1>2, <2>1, <2>2, PollEnds
\* A request for the state that has not failed has said what it is, or was misread.
<1>4. ASSUME ~failed, kind = "info", platform \notin Plat!Lenient, NEW n \in 1..step,
        n <= Len(asks),
             asks[n].what = "state"
      PROVE  heard' # {} \/ (misread' /\ platform \notin Plat!Strict)
  <2>0. step \in Nat /\ step # 0 /\ n \in Int
    BY <1>1 DEF AdapterIInv
  <2>1. CASE n # step
    <3>1. n \in 1..(step - 1)
      BY <2>0, <2>1
    <3>2. Said(n)
      BY <1>1, <1>4, <3>1 DEF AdapterIInv
    <3> QED BY <1>1, <1>2, <1>4, <3>2 DEF Said
  <2>2. CASE n = step
    <3>1. AsksForState(s, platform)
      BY <1>4, <2>2, InfoAsks DEF AdapterIInv, AsksWell
    <3>2. s.what = "state" /\ s # Plat!Extra
      BY <1>4, <2>2 DEF Plat!Extra
    <3>3. f # "lost" /\ f \notin s.checks
      BY <1>4, <3>2
    <3>4. CASE f = "none"
      BY <1>1, <3>2, <3>4
    <3>5. CASE f # "none"
      <4>1. f = "shape" /\ platform \notin Plat!Strict
        BY <3>1, <3>2, <3>3, <3>5 DEF AsksForState, Plat!Faults
      <4> QED BY <1>1, <4>1
    <3> QED BY <3>4, <3>5
  <2> QED BY <2>1, <2>2
<1>5. CASE ~failed /\ Plat!Outcome(s) /\ kind = "info"
           /\ step = Len(asks)
  <2> DEFINE said == IF heard' = {} THEN Plat!Absent(platform)
                     ELSE IF "offline" \in heard' THEN "offline" ELSE "live"
  <2>1. Plat!End(said, "none", FALSE)
    BY <1>5 DEF Plat!Outcome
  <2>2. said \in {"live", "offline"} /\ (heard' # {} => heard' = {said})
    BY <1>2 DEF Plat!Absent
  <2>3. ASSUME platform \notin Plat!Lenient
        PROVE  heard' # {} \/ (misread' /\ platform \notin Plat!Strict)
    <3>1. PICK n \in 1..Len(asks) : asks[n].what = "state"
      BY <1>5, <2>3, InfoAsks DEF AdapterIInv, AsksWell
    <3>2. n \in 1..step /\ n <= Len(asks)
      BY <1>5, <3>1 DEF AdapterIInv
    <3> QED BY <1>4, <1>5, <2>3, <3>1, <3>2
  <2>4. result' = said
    BY <2>1 DEF Plat!End
  <2>5. Plat!ReportsWhatItHeard'
    BY <1>1, <2>2, <2>3, <2>4 DEF Plat!ReportsWhatItHeard
  <2>6. Plat!PreferenceKept'
    BY <2>2, <2>4 DEF Plat!PreferenceKept
  <2> QED BY <1>1, <1>2, <2>1, <2>5, <2>6, PollEnds
<1>6. CASE ~failed /\ Plat!Outcome(s) /\ kind = "streams"
  <2>1. CASE Plat!End("streams", Plat!SelectPreferredStream(Plat!Loaded(platform)'), FALSE)
    <3>1. result' = "streams" /\ picked' = Plat!SelectPreferredStream(Plat!Loaded(platform)')
      BY <2>1 DEF Plat!End
    <3>2. Plat!ReportsWhatItHeard'
      BY <3>1 DEF Plat!ReportsWhatItHeard
    <3>3. Plat!PreferenceKept'
      BY <1>1, <3>1, PreferredIsPicked DEF Plat!PreferenceKept, AdapterIInv
    <3> QED BY <1>1, <1>2, <2>1, <3>2, <3>3, PollEnds
  <2>2. CASE Plat!End("ErrLiveOffline", "none", FALSE) /\ "offline" \in heard'
    <3>1. result' = "ErrLiveOffline" /\ heard' = {"offline"}
      BY <1>2, <2>2 DEF Plat!End
    <3>2. Plat!ReportsWhatItHeard' /\ Plat!PreferenceKept'
      BY <3>1 DEF Plat!ReportsWhatItHeard, Plat!PreferenceKept
    <3> QED BY <1>1, <1>2, <2>2, <3>2, PollEnds
  <2>3. CASE Plat!End("streams", "blank", FALSE) /\ Plat!Blank(platform)
    <3>1. result' = "streams" /\ platform' \notin {"bilibili", "douyu"}
      BY <1>1, <2>3 DEF Plat!End, Plat!Blank
    <3>2. Plat!ReportsWhatItHeard' /\ Plat!PreferenceKept'
      BY <3>1 DEF Plat!ReportsWhatItHeard, Plat!PreferenceKept
    <3> QED BY <1>1, <1>2, <2>3, <3>2, PollEnds
  <2>4. CASE Plat!End("error", "none", FALSE)
    <3>1. Plat!ReportsWhatItHeard' /\ Plat!PreferenceKept'
      BY <2>4 DEF Plat!End, Plat!ReportsWhatItHeard, Plat!PreferenceKept
    <3> QED BY <1>1, <1>2, <2>4, <3>1, PollEnds
  <2> QED BY <1>6, <2>1, <2>2, <2>3, <2>4 DEF Plat!Outcome
<1>7. CASE ~failed /\ step' = step + 1 /\ UNCHANGED <<method, result, picked>>
           /\ step # Len(asks)
  <2>1. result' = "none" /\ step' \in Nat /\ step \in Nat
    BY <1>1, <1>7 DEF AdapterIInv
  <2>2. Plat!ReportsWhatItHeard' /\ Plat!PreferenceKept'
    BY <2>1 DEF Plat!ReportsWhatItHeard, Plat!PreferenceKept
  <2>3. ASSUME kind = "info", platform \notin Plat!Lenient, NEW n \in 1..step
        PROVE  Said(n)'
    <3>1. (Plat!Requests(platform)' = Plat!Requests(platform))
      BY <1>1, <1>7 DEF Plat!Requests, Plat!DouyuStreams, Plat!DouyuExtra, Plat!Huya
    <3>2. asks[n].what = "state" => heard' # {} \/ (misread' /\ platform \notin Plat!Strict)
      <4>1. CASE n # step
        <5>1. n \in 1..(step - 1)
          BY <2>1, <4>1
        <5>2. Said(n)
          BY <1>1, <2>3, <5>1 DEF AdapterIInv
        <5> QED BY <1>1, <1>2, <2>3, <5>2 DEF Said
      <4>2. CASE n = step
        <5>1. step <= Len(asks)
          BY <1>1, <2>3 DEF AdapterIInv
        <5> QED BY <1>4, <1>7, <2>1, <2>3, <4>2, <5>1
      <4> QED BY <4>1, <4>2
    <3> QED BY <1>1, <2>3, <3>1, <3>2 DEF Said
  <2>4. (Plat!Requests(platform)' = Plat!Requests(platform))
    BY <1>1, <1>7 DEF Plat!Requests, Plat!DouyuStreams, Plat!DouyuExtra, Plat!Huya
  <2>5. ASSUME kind = "info", platform \notin Plat!Lenient
        PROVE  step + 1 <= Len(asks)
    <3>1. step <= Len(asks) /\ Len(asks) \in Nat
      BY <1>1, <2>5, InfoAsks DEF AdapterIInv, AsksWell
    <3> QED BY <1>7, <2>1, <3>1
  <2>6. step' - 1 = step
    BY <1>7, <2>1
  <2> QED BY <1>1, <1>2, <1>7, <2>1, <2>2, <2>3, <2>4, <2>5, <2>6 DEF AdapterIInv
<1> QED BY <1>1, <1>3, <1>5, <1>6, <1>7 DEF AdapterIInv

LEMMA AdapterStep == AdapterIInv /\ [Plat!Next]_(Plat!platformVars) => AdapterIInv'
<1> SUFFICES ASSUME AdapterIInv, [Plat!Next]_(Plat!platformVars)
             PROVE  AdapterIInv'
    OBVIOUS
<1>1. CASE UNCHANGED <<platform, want, scope, method, kind, step, heard, misread, extraLost,
             result, picked>>
           /\ truth' \in {"live", "offline"}
  <2>1. Plat!ReportsWhatItHeard' /\ Plat!PreferenceKept'
    BY <1>1 DEF Plat!ReportsWhatItHeard, Plat!PreferenceKept, AdapterIInv
  <2>2. Plat!Requests(platform)' = Plat!Requests(platform)
    BY <1>1 DEF Plat!Requests, Plat!DouyuStreams, Plat!DouyuExtra, Plat!Huya
  <2>3. \A n : Said(n)' <=> Said(n)
    BY <1>1, <2>2 DEF Said
  <2> QED BY <1>1, <2>1, <2>2, <2>3 DEF AdapterIInv
<1>2. CASE Plat!Turn
  BY <1>1, <1>2 DEF Plat!Turn
<1>3. CASE UNCHANGED Plat!platformVars
  BY <1>1, <1>3 DEF Plat!platformVars, AdapterIInv
<1> QED BY <1>2, <1>3, PollStarts, AnswerStep DEF Plat!Next

------------------------------------------------------------------------------
(* Players *)

\* The stream s, if there is one, is of the format that the address t names.
Named(s, t) == s # 0 => /\ t \in Tokens /\ s <= Len(streams)
                        /\ streams[s] = format[t]

\* Player p uses what its address names; once refused, a stream issued since.
PlayerOK(p) ==
    /\ Named(using[p], token[p])
    /\ playerPc[p] \in {"idle", "lock", "resolve"} => using[p] = 0
    /\ playerPc[p] = "idle" => ~forced[p]
    /\ playerPc[p] \in {"lock", "resolve", "request"} => token[p] \in Tokens
    /\ playerPc[p] \in {"lock", "resolve"} /\ forced[p] => refusedAt[p] <= Len(streams)
    /\ playerPc[p] = "request" /\ forced[p] => using[p] > refusedAt[p]

\* What is cached for a session, and what a player uses, are streams of the format the address
\* names. A stream is known by its number.
WatchIInv ==
    /\ streams \in Seq(Play!Formats)
    /\ format \in [Tokens -> Play!Formats \cup {"none"}]
    /\ cached \in [Tokens -> Nat]
    /\ token \in [Players -> Tokens \cup {Play!NoToken}]
    /\ playerPc \in [Players -> {"idle", "lock", "resolve", "request", "copy"}]
    /\ using \in [Players -> Nat] /\ refusedAt \in [Players -> Nat]
    /\ forced \in [Players -> BOOLEAN]
    /\ \A t \in Tokens : Named(cached[t], t)
    /\ \A p \in Players : PlayerOK(p)

LEMMA WatchStart == Play!Init => WatchIInv
<1> SUFFICES ASSUME Play!Init
             PROVE  WatchIInv
    OBVIOUS
<1>1. /\ streams = <<>> /\ format = [t \in Tokens |-> "none"] /\ cached = [t \in Tokens |-> 0]
      /\ token = [p \in Players |-> Play!NoToken] /\ playerPc = [p \in Players |-> "idle"]
      /\ using = [p \in Players |-> 0] /\ refusedAt = [p \in Players |-> 0]
      /\ forced = [p \in Players |-> FALSE]
  BY DEF Play!Init
<1> QED BY <1>1 DEF WatchIInv, Named, PlayerOK

\* A stream keeps its number when another is issued.
LEMMA StreamIssued ==
    ASSUME NEW f \in Play!Formats, streams \in Seq(Play!Formats), streams' = Append(streams, f)
    PROVE  /\ streams' \in Seq(Play!Formats) /\ Len(streams') = Len(streams) + 1
           /\ Len(streams) \in Nat
           /\ \A s \in 1..Len(streams) : streams'[s] = streams[s]
           /\ streams'[Len(streams) + 1] = f
OBVIOUS

\* What is cached or used stays so when streams are issued and sessions are made.
LEMMA NamedStays ==
    ASSUME streams \in Seq(Play!Formats), NEW s \in Nat, NEW t, Named(s, t),
           streams' = streams \/ \E f \in Play!Formats : streams' = Append(streams, f),
           t \in Tokens /\ format[t] # "none" => format'[t] = format[t]
    PROVE  Named(s, t)'
<1> SUFFICES ASSUME s # 0
             PROVE  t \in Tokens /\ s <= Len(streams') /\ streams'[s] = format'[t]
    BY DEF Named
<1>1. t \in Tokens /\ s \in 1..Len(streams) /\ streams[s] = format[t] /\ streams[s] # "none"
  BY DEF Named, Play!Formats
<1>2. s <= Len(streams') /\ streams'[s] = streams[s]
  <2>1. CASE streams' = streams
    BY <1>1, <2>1
  <2>2. ASSUME NEW f \in Play!Formats, streams' = Append(streams, f)
        PROVE  s <= Len(streams') /\ streams'[s] = streams[s]
    <3>1. Len(streams') = Len(streams) + 1 /\ Len(streams) \in Nat /\ streams'[s] = streams[s]
      BY <1>1, <2>2, StreamIssued
    <3> QED BY <1>1, <3>1
  <2> QED BY <2>1, <2>2
<1> QED BY <1>1, <1>2

\* A player that does not move.
LEMMA PlayerStays ==
    ASSUME WatchIInv, NEW p \in Players,
           streams' = streams \/ \E f \in Play!Formats : streams' = Append(streams, f),
           \A t \in Tokens : format[t] # "none" => format'[t] = format[t],
           token'[p] = token[p], playerPc'[p] = playerPc[p], using'[p] = using[p],
           refusedAt'[p] = refusedAt[p], forced'[p] <=> forced[p]
    PROVE  PlayerOK(p)'
<1>1. streams \in Seq(Play!Formats) /\ using[p] \in Nat /\ refusedAt[p] \in Nat /\ PlayerOK(p)
  BY DEF WatchIInv
<1>2. PICK s \in Nat : s = using[p]
  BY <1>1
<1>3. PICK t : t = token[p]
  OBVIOUS
<1>4. Named(s, t)
  BY <1>1, <1>2, <1>3 DEF PlayerOK
<1>5. Named(s, t)'
  BY <1>1, <1>4, NamedStays
<1>6. (Named(using[p], token[p]))'
  BY <1>2, <1>3, <1>5 DEF Named
<1>7. Len(streams) \in Nat /\ Len(streams') \in Nat /\ Len(streams) <= Len(streams')
  BY <1>1, StreamIssued
<1> QED BY <1>1, <1>6, <1>7 DEF PlayerOK

\* A step of one player, which issues no stream.
LEMMA OnePlayer ==
    ASSUME WatchIInv, NEW p \in Players, UNCHANGED <<streams, format, cached>>,
           token' \in [Players -> Tokens \cup {Play!NoToken}],
           playerPc' \in [Players -> {"idle", "lock", "resolve", "request", "copy"}],
           using' \in [Players -> Nat], refusedAt' \in [Players -> Nat],
             forced' \in [Players -> BOOLEAN],
           \A q \in Players : q # p =>
                token'[q] = token[q] /\ playerPc'[q] = playerPc[q] /\ using'[q] = using[q]
                /\ refusedAt'[q] = refusedAt[q] /\ forced'[q] = forced[q],
           PlayerOK(p)'
    PROVE  WatchIInv'
<1>1. ASSUME NEW q \in Players
      PROVE  PlayerOK(q)'
  BY PlayerStays
<1>2. (\A t \in Tokens : Named(cached[t], t))'
  BY DEF WatchIInv, Named
<1> QED BY <1>1, <1>2 DEF WatchIInv

LEMMA AnsweredTypes ==
    ASSUME WatchIInv, NEW p \in Players, Play!Answered(p)
    PROVE  /\ token' \in [Players -> Tokens \cup {Play!NoToken}]
           /\ playerPc' \in [Players -> {"idle", "lock", "resolve", "request", "copy"}]
           /\ using' \in [Players -> Nat] /\ refusedAt' \in [Players -> Nat]
           /\ forced' \in [Players -> BOOLEAN]
           /\ \A q \in Players : q # p =>
                token'[q] = token[q] /\ playerPc'[q] = playerPc[q] /\ using'[q] = using[q]
                /\ refusedAt'[q] = refusedAt[q] /\ forced'[q] = forced[q]
           /\ PlayerOK(p)'
<1>1. /\ token' = [token EXCEPT ![p] = Play!NoToken] /\ playerPc' = [playerPc EXCEPT ![p] = "idle"]
      /\ using' = [using EXCEPT ![p] = 0] /\ refusedAt' = [refusedAt EXCEPT ![p] = 0]
      /\ forced' = [forced EXCEPT ![p] = FALSE]
  BY DEF Play!Answered
<1>2. using'[p] = 0 /\ playerPc'[p] = "idle" /\ ~forced'[p]
  BY <1>1 DEF WatchIInv
<1>3. PlayerOK(p)'
  BY <1>2 DEF PlayerOK, Named
<1> QED BY <1>1, <1>3 DEF WatchIInv

\* A player is answered, and no stream is issued.
LEMMA AnsweredStep ==
    ASSUME WatchIInv, NEW p \in Players, Play!Answered(p), UNCHANGED <<streams, format, cached>>
    PROVE  WatchIInv'
BY AnsweredTypes, OnePlayer

LEMMA SessionMade ==
    ASSUME WatchIInv, NEW t \in Tokens, Play!Create(t)
    PROVE  WatchIInv'
<1>1. PICK f \in Play!Formats : streams' = Append(streams, f) /\ format' = [format EXCEPT ![t] = f]
  BY DEF Play!Create
<1>2. format[t] = "none" /\ cached' = [cached EXCEPT ![t] = Len(streams) + 1]
      /\ UNCHANGED <<token, playerPc, using, refusedAt, forced>>
  BY DEF Play!Create, Play!playerVars
<1>3. streams \in Seq(Play!Formats) /\ Len(streams) \in Nat
  BY DEF WatchIInv
<1>4. format' \in [Tokens -> Play!Formats \cup {"none"}] /\ format'[t] = f
      /\ \A u \in Tokens : format[u] # "none" => format'[u] = format[u]
  BY <1>1, <1>2 DEF WatchIInv
<1>5. /\ streams' \in Seq(Play!Formats) /\ Len(streams') = Len(streams) + 1
      /\ streams'[Len(streams) + 1] = f
  BY <1>1, <1>3, StreamIssued
<1>6. ASSUME NEW u \in Tokens
      PROVE  cached'[u] \in Nat /\ (Named(cached[u], u))'
  <2>1. CASE u = t
    <3>1. PICK n \in Nat : n = Len(streams) + 1
      BY <1>3
    <3>2. cached'[u] = n
      BY <1>2, <2>1, <3>1 DEF WatchIInv
    <3> QED BY <1>3, <1>4, <1>5, <2>1, <3>1, <3>2 DEF Named
  <2>2. CASE u # t
    <3>1. cached'[u] = cached[u] /\ cached[u] \in Nat /\ Named(cached[u], u)
      BY <1>2, <2>2 DEF WatchIInv
    <3>2. PICK s \in Nat : s = cached[u]
      BY <3>1
    <3>3. Named(s, u)'
      BY <1>1, <1>3, <1>4, <3>1, <3>2, NamedStays
    <3> QED BY <3>1, <3>2, <3>3 DEF Named
  <2> QED BY <2>1, <2>2
<1>7. cached' \in [Tokens -> Nat]
  <2>1. cached' = [u \in Tokens |-> cached'[u]]
    BY <1>2 DEF WatchIInv
  <2> QED BY <1>6, <2>1
<1>8. ASSUME NEW q \in Players
      PROVE  PlayerOK(q)'
  BY <1>1, <1>2, <1>4, PlayerStays
<1> QED BY <1>2, <1>4, <1>5, <1>6, <1>7, <1>8 DEF WatchIInv

LEMMA PlayerAsks ==
    ASSUME WatchIInv, NEW p \in Players, NEW t \in Tokens, NEW k, Play!Play(p, t, k)
    PROVE  WatchIInv'
<1>1. UNCHANGED <<streams, format, cached, using, refusedAt, forced>> /\ playerPc[p] = "idle"
  BY DEF Play!Play, Play!platformVars
<1>2. CASE UNCHANGED <<playerPc, token>>
  <2>1. PlayerOK(p)'
    BY <1>1, <1>2, PlayerStays
  <2> QED BY <1>1, <1>2, <2>1, OnePlayer DEF WatchIInv
<1>3. CASE playerPc' = [playerPc EXCEPT ![p] = "lock"] /\ token' = [token EXCEPT ![p] = t]
  <2>1. /\ playerPc'[p] = "lock" /\ token'[p] = t /\ using'[p] = 0 /\ ~forced'[p]
    BY <1>1, <1>3 DEF WatchIInv, PlayerOK
  <2>2. PlayerOK(p)'
    BY <2>1 DEF PlayerOK, Named
  <2> QED BY <1>1, <1>3, <2>2, OnePlayer DEF WatchIInv
<1> QED BY <1>2, <1>3 DEF Play!Play

LEMMA StreamTaken ==
    ASSUME WatchIInv, NEW p \in Players, Play!GetStream(p)
    PROVE  WatchIInv'
<1>1. UNCHANGED <<streams, format, cached, token, refusedAt, forced>> /\ playerPc[p] = "lock"
  BY DEF Play!GetStream, Play!platformVars
<1>2. token[p] \in Tokens /\ using[p] = 0 /\ PlayerOK(p)
  BY <1>1 DEF WatchIInv, PlayerOK
<1>3. CASE Play!Fresh(p) /\ using' = [using EXCEPT ![p] = cached[token[p]]]
           /\ playerPc' = [playerPc EXCEPT ![p] = "request"]
  <2>1. ~forced[p]
    BY <1>3 DEF Play!Fresh
  <2>2. PICK n \in Nat : n = cached[token[p]] /\ Named(n, token[p])
    BY <1>2 DEF WatchIInv
  <2>3. using'[p] = n /\ playerPc'[p] = "request" /\ using' \in [Players -> Nat]
    BY <1>3, <2>2 DEF WatchIInv
  <2>4. PlayerOK(p)'
    BY <1>1, <1>2, <2>1, <2>2, <2>3 DEF PlayerOK, Named
  <2> QED BY <1>1, <1>3, <2>3, <2>4, OnePlayer DEF WatchIInv
<1>4. CASE UNCHANGED using /\ playerPc' = [playerPc EXCEPT ![p] = "resolve"]
  <2>1. playerPc'[p] = "resolve"
    BY <1>4 DEF WatchIInv
  <2>2. PlayerOK(p)'
    BY <1>1, <1>2, <1>4, <2>1 DEF PlayerOK, Named
  <2> QED BY <1>1, <1>4, <2>2, OnePlayer DEF WatchIInv
<1> QED BY <1>3, <1>4 DEF Play!GetStream

\* The platform has issued a stream; the player takes it, or gets an error.
LEMMA StreamResolved ==
    ASSUME WatchIInv, NEW p \in Players, Play!Resolve(p)
    PROVE  WatchIInv'
<1>1. UNCHANGED format /\ playerPc[p] = "resolve"
  BY DEF Play!Resolve
<1>2. /\ token[p] \in Tokens /\ PlayerOK(p) /\ streams \in Seq(Play!Formats) /\ Len(streams) \in Nat
      /\ format \in [Tokens -> Play!Formats \cup {"none"}]
  BY <1>1 DEF WatchIInv, PlayerOK
<1>3. CASE Play!Answered(p) /\ UNCHANGED <<cached, streams>>
  BY <1>1, <1>3, AnsweredStep
<1>4. ASSUME NEW f \in Play!Formats, streams' = Append(streams, f), Play!Remember(p, f)
      PROVE  WatchIInv'
  <2>1. /\ streams' \in Seq(Play!Formats) /\ Len(streams') = Len(streams) + 1
        /\ streams'[Len(streams) + 1] = f
    BY <1>2, <1>4, StreamIssued
  <2>2. \A t \in Tokens : format'[t] = format[t]
    BY <1>1
  <2>3. CASE f # format[token[p]]
    <3>1. Play!Answered(p) /\ UNCHANGED cached
      BY <1>4, <2>3 DEF Play!Remember, Play!ResolveFails
    <3>2. ASSUME NEW q \in Players
          PROVE  PlayerOK(q)'
      BY <1>4, <2>2, <3>1, <3>2, AnsweredTypes, PlayerStays
    <3>3. ASSUME NEW t \in Tokens
          PROVE  (Named(cached[t], t))'
      <4>1. cached[t] \in Nat /\ Named(cached[t], t)
        BY DEF WatchIInv
      <4>2. PICK s \in Nat : s = cached[t]
        BY <4>1
      <4>3. Named(s, t)'
        BY <1>2, <1>4, <2>2, <4>1, <4>2, NamedStays
      <4> QED BY <3>1, <4>2, <4>3 DEF Named
    <3> QED BY <1>1, <2>1, <3>1, <3>2, <3>3, AnsweredTypes DEF WatchIInv
  <2>4. CASE f = format[token[p]]
    <3>0. PICK n \in Nat : n = Len(streams) + 1
      BY <1>2
    <3>1. /\ cached' = [cached EXCEPT ![token[p]] = n] /\ using' = [using EXCEPT ![p] = n]
          /\ playerPc' = [playerPc EXCEPT ![p] = "request"]
          /\ UNCHANGED <<token, forced, refusedAt>>
      BY <1>4, <2>4, <3>0 DEF Play!Remember
    <3>2. /\ cached' \in [Tokens -> Nat] /\ using' \in [Players -> Nat]
          /\ playerPc' \in [Players -> {"idle", "lock", "resolve", "request", "copy"}]
          /\ using'[p] = n /\ playerPc'[p] = "request"
      BY <3>1 DEF WatchIInv
    <3>3. ASSUME NEW t \in Tokens
          PROVE  (Named(cached[t], t))'
      <4>1. CASE t = token[p]
        <5>1. cached'[t] = n
          BY <3>1, <4>1 DEF WatchIInv
        <5> QED BY <1>1, <2>1, <2>4, <3>0, <4>1, <5>1 DEF Named
      <4>2. CASE t # token[p]
        <5>1. cached'[t] = cached[t] /\ cached[t] \in Nat /\ Named(cached[t], t)
          BY <3>1, <4>2 DEF WatchIInv
        <5>2. PICK s \in Nat : s = cached[t]
          BY <5>1
        <5>3. Named(s, t)'
          BY <1>2, <1>4, <2>2, <5>1, <5>2, NamedStays
        <5> QED BY <5>1, <5>2, <5>3 DEF Named
      <4> QED BY <4>1, <4>2
    <3>4. ASSUME NEW q \in Players
          PROVE  PlayerOK(q)'
      <4>1. CASE q # p
        <5>1. using'[q] = using[q] /\ playerPc'[q] = playerPc[q]
          BY <3>1, <4>1 DEF WatchIInv
        <5> QED BY <1>4, <2>2, <3>1, <5>1, PlayerStays
      <4>2. CASE q = p
        <5>1. (Named(using[p], token[p]))'
          BY <1>1, <1>2, <2>1, <2>4, <3>0, <3>1, <3>2 DEF Named
        <5>2. forced[p] => n > refusedAt[p]
          BY <1>1, <1>2, <3>0 DEF PlayerOK, WatchIInv
        <5> QED BY <1>2, <3>1, <3>2, <4>2, <5>1, <5>2 DEF PlayerOK
      <4> QED BY <4>1, <4>2
    <3> QED BY <1>1, <2>1, <3>1, <3>2, <3>3, <3>4 DEF WatchIInv
  <2> QED BY <2>3, <2>4
<1> QED BY <1>3, <1>4 DEF Play!Resolve, Play!ResolveFails

LEMMA StreamRefused ==
    ASSUME WatchIInv, NEW p \in Players, Play!Refused(p)
    PROVE  WatchIInv'
<1>1. UNCHANGED <<streams, format, cached>> /\ playerPc[p] = "request"
  BY DEF Play!Refused, Play!sessionVars, Play!platformVars
<1>2. CASE Play!Answered(p)
  BY <1>1, <1>2, AnsweredStep
<1>3. CASE ~Play!Answered(p)
  <2>0. PICK n \in Nat : n = Len(streams)
    BY DEF WatchIInv
  <2>1. /\ forced' = [forced EXCEPT ![p] = TRUE] /\ refusedAt' = [refusedAt EXCEPT ![p] = n]
        /\ using' = [using EXCEPT ![p] = 0] /\ playerPc' = [playerPc EXCEPT ![p] = "lock"]
        /\ UNCHANGED token
    BY <1>3, <2>0 DEF Play!Refused
  <2>2. token[p] \in Tokens
    BY <1>1 DEF WatchIInv, PlayerOK
  <2>3. using'[p] = 0 /\ playerPc'[p] = "lock" /\ refusedAt'[p] = n
    BY <2>1 DEF WatchIInv
  <2>4. PlayerOK(p)'
    BY <1>1, <2>0, <2>1, <2>2, <2>3 DEF PlayerOK, Named
  <2> QED BY <1>1, <2>1, <2>4, OnePlayer DEF WatchIInv
<1> QED BY <1>2, <1>3

LEMMA StreamAccepted ==
    ASSUME WatchIInv, NEW p \in Players, Play!Accepted(p) \/ Play!CopyEnds(p)
    PROVE  WatchIInv'
<1>1. UNCHANGED <<streams, format, cached>>
  BY DEF Play!Accepted, Play!CopyEnds, Play!sessionVars, Play!platformVars
<1>2. CASE Play!Answered(p)
  BY <1>1, <1>2, AnsweredStep
<1>3. CASE /\ playerPc' = [playerPc EXCEPT ![p] = "copy"]
           /\ UNCHANGED <<token, forced, using, refusedAt>>
  <2>1. playerPc'[p] = "copy" /\ PlayerOK(p)
    BY <1>3 DEF WatchIInv
  <2>2. PlayerOK(p)'
    BY <1>1, <1>3, <2>1 DEF PlayerOK, Named
  <2> QED BY <1>1, <1>3, <2>2, OnePlayer DEF WatchIInv
<1> QED BY <1>2, <1>3 DEF Play!Accepted, Play!CopyEnds

LEMMA WatchStep == WatchIInv /\ [Play!Next]_(Play!playbackVars) => WatchIInv'
<1> SUFFICES ASSUME WatchIInv, [Play!Next]_(Play!playbackVars)
             PROVE  WatchIInv'
    OBVIOUS
<1>1. CASE UNCHANGED <<streams, format, cached, token, playerPc, using, refusedAt, forced>>
  BY <1>1 DEF WatchIInv, Named, PlayerOK
<1>2. CASE Play!Tick \/ (\E s \in Play!Streams : Play!Revoke(s)) \/ UNCHANGED Play!playbackVars
  BY <1>1, <1>2 DEF Play!Tick, Play!Revoke, Play!playbackVars, Play!sessionVars, Play!platformVars,
     Play!playerVars
<1> QED BY <1>2, SessionMade, PlayerAsks, StreamTaken, StreamResolved, StreamRefused, StreamAccepted
    DEF Play!Next

------------------------------------------------------------------------------
(* The parts together: the others stay where they are *)

PollingIInv == LoginIInv /\ AdapterIInv /\ WatchIInv

LEMMA PollingStart == MCInit => PollingIInv
BY LoginStart, AdapterStart, WatchStart DEF MCInit, PollingIInv

LEMMA PollingStep == PollingIInv /\ [MCNext]_mcVars => PollingIInv'
<1> SUFFICES ASSUME PollingIInv, [MCNext]_mcVars
             PROVE  PollingIInv'
    OBVIOUS
<1>1. [Soop!Next]_(Soop!soopVars)
  BY DEF MCNext, On, mcVars, logins, Soop!soopVars
<1>2. [Plat!Next]_(Plat!platformVars)
  BY DEF MCNext, On, mcVars, adapters, Plat!platformVars
<1>3. [Play!Next]_(Play!playbackVars)
  BY DEF MCNext, On, mcVars, watching, Play!playbackVars, Play!sessionVars, Play!platformVars,
     Play!playerVars
<1> QED BY <1>1, <1>2, <1>3, LoginStep, AdapterStep, WatchStep DEF PollingIInv

\* The invariant of each part holds throughout.
LEMMA PollingInvariance == MCSpec => []PollingIInv
BY PollingStart, PollingStep, PTL DEF MCSpec

\* What a poll reports of a room is what the platform has said in that very poll, whatever is lost,
\* refused or misread (GetInfo of the adapters under live).
THEOREM ReportsAreHeard == MCSpec => []ReportsWhatItHeard
<1>1. PollingIInv => ReportsWhatItHeard
  BY DEF PollingIInv, AdapterIInv, ReportsWhatItHeard
<1> QED BY <1>1, PollingInvariance, PTL

\* The stream a room prefers is recorded when there is one, and a player gets the format its address
\* names, whichever streams are issued and whoever resolves (SelectPreferredStream, getStream).
THEOREM ChoiceIsKept == MCSpec => []AskedForIsGot
<1>1. PollingIInv => Plat!PreferenceKept
  BY DEF PollingIInv, AdapterIInv
<1>2. PollingIInv => Play!FormatKept
  BY DEF PollingIInv, WatchIInv, PlayerOK, Named, Play!FormatKept
<1>3. PollingIInv => AskedForIsGot
  BY <1>1, <1>2 DEF AskedForIsGot
<1> QED BY <1>3, PollingInvariance, PTL

\* However many rooms find that the session has ended, one login request is under way, and who was
\* refused asks again with a cookie or a stream issued since (tryAutoLogin,
\* loginAndGetCookieWithSingleflight, openUpstream).
THEOREM RetriesAreNew == MCSpec => []RetryIsNew
<1>1. PollingIInv => Soop!LoginsShared
  BY DEF PollingIInv, LoginIInv, Soop!LoginsShared
<1>2. PollingIInv => Soop!RetryHasNewCookie
  <2> SUFFICES ASSUME PollingIInv, NEW r \in SoopRooms, room[r].pc = "retry", ~unsaved
               PROVE  room[r].sent = 0 \/ room[r].sent + 1 # room[r].refused
      BY DEF Soop!RetryHasNewCookie
  <2>1. room[r] \in RoomState /\ RoomOK(room[r])
    BY DEF PollingIInv, LoginIInv
  <2> QED BY <2>1 DEF RoomState, RoomOK
<1>3. PollingIInv => Play!RetryIsFresh
  BY DEF PollingIInv, WatchIInv, PlayerOK, Play!RetryIsFresh
<1>4. PollingIInv => RetryIsNew
  BY <1>1, <1>2, <1>3 DEF RetryIsNew
<1> QED BY <1>4, PollingInvariance, PTL
=============================================================================
