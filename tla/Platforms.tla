------------------------------- MODULE Platforms -------------------------------
(***************************************************************************)
(* The platform adapters under src/src/live: what GetInfo and the stream   *)
(* functions make of what the platform answers, and the stream             *)
(* live/stream_resolver.go picks.                                          *)
(*                                                                         *)
(* An adapter asks one page or interface after the other.  A request is    *)
(* lost, answers with a status other than 200, refuses in a readable way   *)
(* ("code"), answers something that does not have the fields looked for    *)
(* ("shape": a captcha, a new layout), or answers.  Each request names     *)
(* what the adapter looks at before it reads the field; a field that is    *)
(* not there reads as empty.  (SOOP, which logs in, is in SoopLogin.)      *)
(***************************************************************************)
EXTENDS Naturals, Sequences, FiniteSets

CONSTANT Platforms      \* the adapters of a run

VARIABLES
    platform,
    truth,          \* the room: "live" or "offline"
    want, scope,    \* the quality the configuration prefers, for the "room" or for "all"
    clear,          \* whether the platform answers, but for the method that is broken
    broken,         \* huya: the methods that no longer work
    method,         \* huya: which method the next GetInfo and the next GetStreamInfos use
    idKnown,        \* the room number has been found and is kept
    kind, step,     \* the poll under way, and its next request; 0 when there is none
    heard,          \* what the requests of the poll have said of the room
    misread,        \* history: an answer of the poll did not have the fields
    extraLost,      \* history: the preferred stream could not be loaded
    result,         \* what the last poll has reported
    picked          \* the quality of the stream picked, "none" when there is none

platformVars == <<platform, truth, want, scope, clear, broken, method, idKnown, kind, step, heard,
                  misread, extraLost, result, picked>>

Faults == {"none", "lost", "status", "code", "shape"}

Id(checks)    == [what |-> "id",    checks |-> checks]
State(checks) == [what |-> "state", checks |-> checks]
Name(checks)  == [what |-> "name",  checks |-> checks]
Play(checks)  == [what |-> "play",  checks |-> checks]
Made          == [what |-> "made",  checks |-> {}]      \* a URL made without asking
Extra         == [what |-> "extra", checks |-> {}]      \* a further quality; failing does not matter

All == {"status", "code", "shape"}

Adapter(info, streams) == [info |-> info, streams |-> streams]

------------------------------------------------------------------------------
(* GetInfo, GetStreamInfos and GetStreamUrls of the adapters *)

\* Mutant: a refused room request is read like any other.
BilibiliTrusting == <<Id({"status", "code"}), State({"status"}), Name({"status", "code"})>>

BilibiliInfo    == <<Id({"status", "code"}), State({"status", "code"}), Name({"status", "code"})>>
BilibiliStreams == <<Id({"status", "code"}), Play({"status"})>>

\* Douyu asks again for the stream the room prefers, and for no other preference.
DouyuExtra   == IF want = "low" /\ scope = "room" THEN <<Extra>> ELSE <<>>
DouyuInfo    == <<Id(All), State({"status"})>>
DouyuStreams == <<Id(All), Name({"status", "shape"}), Play({"status", "code"})>> \o DouyuExtra

\* Huya's two ways to read a room and its streams.
HuyaXingXiu == Adapter(<<Name({"status", "code"}), State(All)>>, <<Name({"status"}), Play(All)>>)
HuyaLol     == Adapter(<<State(All)>>, <<Play(All)>>)
HuyaMethods == <<HuyaXingXiu, HuyaLol>>
Huya        == Adapter(HuyaMethods[method.info].info, HuyaMethods[method.streams].streams)

\* Douyin's companion server (btools) stands between the adapter and the platform.
DouyinRequests == <<Id({"status", "shape"}), State({"status", "shape"})>>
Douyin      == Adapter(DouyinRequests, <<Id({"status", "shape"}), Play({"status", "shape"})>>)

Kuaishou    == Adapter(<<State({"status", "shape"})>>, <<Play({"status", "shape"})>>)
Acfun       == Adapter(<<State({"status"})>>, <<Name({"status"}), Play(All)>>)
Huajiao     == Adapter(<<Id({"status", "shape"}), Name({"status", "code"}), State({})>>,
                       <<Id({"status", "shape"}), State(All), Play({"code"})>>)
Cc          == Adapter(<<State(All)>>, <<Name(All), Play({"status"})>>)
Qq          == Adapter(<<State(All)>>, <<Play({"status", "shape"})>>)
Openrec     == Adapter(<<State(All)>>, <<Play({"status"})>>)
Zhanqi      == Adapter(<<State({"status", "code"})>>, <<Play({"status", "code"})>>)
Yizhibo     == Adapter(<<State(All)>>, <<Play({})>>)
Hongdoufm   == Adapter(<<State(All)>>, <<Play({"status", "code"})>>)
Weibolive   == Adapter(<<State({"status", "code"})>>, <<Play({"status", "code"})>>)
Missevan    == Adapter(<<State({"status", "code"})>>, <<Play({"status", "code"})>>)
Lang        == Adapter(<<State({"status", "code"})>>, <<Play({"status", "code"})>>)
Xiaohongshu == Adapter(<<Name({"status", "code"}), State({"status"})>>, <<Made>>)
Twitch      == Adapter(<<State(All)>>, <<Name(All), Play({"status", "shape"})>>)
Yy          == Adapter(<<State({"status", "code"}), Name({"status"})>>, <<Play({"status", "shape"})>>)

\* XiaoHongShu looks for the words of a room that has ended, the others for those of one
\* that is live.
Absent(p) == IF p = "xiaohongshu" THEN "live" ELSE "offline"

\* Adapters that make a URL of the field they look for whether or not it is there.
Blank(p) == p \in {"huajiao", "cc", "qq", "openrec", "zhanqi", "yizhibo", "hongdoufm", "weibolive", "missevan", "yy", "douyin"}

Requests(p) ==
    CASE p = "bilibili"  -> Adapter(BilibiliInfo, BilibiliStreams)
      [] p = "douyu"     -> Adapter(DouyuInfo, DouyuStreams)
      [] p = "huya"      -> Huya        [] p = "douyin"    -> Douyin
      [] p = "kuaishou"  -> Kuaishou    [] p = "acfun"     -> Acfun
      [] p = "huajiao"   -> Huajiao     [] p = "cc"        -> Cc
      [] p = "qq"        -> Qq          [] p = "openrec"   -> Openrec
      [] p = "zhanqi"    -> Zhanqi      [] p = "yizhibo"   -> Yizhibo
      [] p = "hongdoufm" -> Hongdoufm   [] p = "weibolive" -> Weibolive
      [] p = "missevan"  -> Missevan    [] p = "lang"      -> Lang
      [] p = "yy"        -> Yy          [] p = "twitch"    -> Twitch
      [] OTHER           -> Xiaohongshu

------------------------------------------------------------------------------
(* Which stream is recorded *)

\* Bilibili is asked for the quality that is preferred, whoever prefers it.
BilibiliLoads == IF want = "none" THEN "best" ELSE want
DouyuLoads    == {"best"} \cup (IF DouyuExtra # <<>> /\ ~extraLost THEN {"low"} ELSE {})

\* The streams listed that have a URL; the others hold a place in the list.
Loaded(p) ==
    CASE p = "bilibili" -> {BilibiliLoads} [] p = "douyu" -> DouyuLoads [] OTHER -> {"best"}

\* Mutant: the first stream with a URL, whatever is preferred.
FirstStream(loaded) == "best"

\* SelectPreferredStream: the preferred one if it has a URL, otherwise the first that has.
SelectPreferredStream(loaded) ==
    IF want \in loaded THEN want ELSE IF "best" \in loaded THEN "best" ELSE "low"

------------------------------------------------------------------------------
(* A poll *)

KeepsId(p) == p \in {"bilibili", "douyu", "huajiao", "douyin"}

Init ==
    /\ platform \in Platforms /\ truth \in {"live", "offline"}
    /\ want \in {"none", "best", "low"} /\ scope \in {"room", "all"}
    /\ clear \in BOOLEAN
    /\ broken \in IF platform = "huya" THEN {{}, {1}, {2}} ELSE {{}}
    /\ method = [info |-> 1, streams |-> 1]
    /\ idKnown = FALSE
    /\ kind = "info" /\ step = 0
    /\ heard = {} /\ misread = FALSE /\ extraLost = FALSE
    /\ result = "none" /\ picked = "none"

\* A room number that is known is not asked for again.
First(k) == IF idKnown /\ Requests(platform)[k][1].what = "id" THEN 2 ELSE 1

StartPoll(k) ==
    /\ step = 0
    /\ kind' = k /\ step' = First(k)
    /\ heard' = {} /\ misread' = FALSE /\ extraLost' = FALSE /\ result' = "none" /\ picked' = "none"
    /\ UNCHANGED <<platform, truth, want, scope, clear, broken, method, idKnown>>

\* Mutant: the index does not start over.
NextIndex == [method EXCEPT ![kind] = @ + 1]

\* Huya takes its methods in turn, whatever comes of them.
NextMethod == [method EXCEPT ![kind] = 3 - @]

\* Mutant: the next method is tried only once this one has worked.
StayOnFailure == IF result' = "error" THEN method ELSE NextMethod

Rotate == NextMethod

\* A page that was not read ends the poll before a method is chosen.
End(r, q, unread) ==
    /\ step' = 0 /\ result' = r /\ picked' = q
    /\ method' = IF platform = "huya" /\ ~unread THEN Rotate ELSE method

BrokenMethod == platform = "huya" /\ method[kind] \in broken /\ step = Len(Requests(platform)[kind])

Fault(s, f) ==
    /\ s = Made => f = "none"
    /\ BrokenMethod => f = "shape"
    /\ clear /\ ~BrokenMethod => f = "none"

\* What the last answer of a poll comes to.
Outcome(s) ==
    IF kind = "info"
    THEN End(IF heard' = {} THEN Absent(platform)
             ELSE IF "offline" \in heard' THEN "offline" ELSE "live", "none", FALSE)
    ELSE IF "live" \in heard' \/ s = Made THEN End("streams", SelectPreferredStream(Loaded(platform)'), FALSE)
    ELSE IF platform = "douyu" /\ "offline" \in heard' THEN End("ErrLiveOffline", "none", FALSE)
    ELSE IF Blank(platform) /\ s.what = "play" THEN End("streams", "blank", FALSE)
    ELSE End("error", "none", FALSE)

Answer(f) ==
    /\ step # 0
    /\ UNCHANGED <<platform, truth, want, scope, clear, broken, kind>>
    /\ LET s == Requests(platform)[kind][step]
           failed == s # Extra /\ (f = "lost" \/ f \in s.checks)
       IN
       /\ Fault(s, f)
       /\ heard' = IF f = "none" /\ s.what \in {"state", "play"} THEN {truth} ELSE heard
       /\ misread' = (misread \/ f = "shape")
       /\ extraLost' = (extraLost \/ (s = Extra /\ f # "none"))
       /\ idKnown' = (idKnown \/ (s.what = "id" /\ f = "none" /\ KeepsId(platform)))
       /\ IF failed THEN End("error", "none", kind = "info" /\ step = 1 /\ f # "shape")
          ELSE IF step = Len(Requests(platform)[kind]) \/ (kind = "streams" /\ heard' = {"offline"}) THEN Outcome(s)
          ELSE step' = step + 1 /\ UNCHANGED <<method, result, picked>>

\* The streamer starts and ends, between two requests of a poll as well.
Turn ==
    /\ truth' = IF truth = "live" THEN "offline" ELSE "live"
    /\ UNCHANGED <<platform, want, scope, clear, broken, method, idKnown, kind, step, heard, misread,
                   extraLost, result, picked>>

Next == \/ \E k \in {"info", "streams"} : StartPoll(k)
        \/ \E f \in Faults : Answer(f)
        \/ Turn

\* The scheduler polls every room it listens to again and again; every request ends.
Fairness == /\ SF_platformVars(StartPoll("info")) /\ SF_platformVars(StartPoll("streams"))
            /\ WF_platformVars(\E f \in Faults : Answer(f))

Spec == Init /\ [][Next]_platformVars /\ Fairness

------------------------------------------------------------------------------
(* Properties *)

PlatformTypeOK ==
    /\ method \in [info : 1..2, streams : 1..2]
    /\ step \in 0..Len(Requests(platform)[kind])
    /\ result \in {"none", "error", "live", "offline", "streams", "ErrLiveOffline"}
    /\ picked \in {"none", "best", "low", "blank"} /\ (picked # "none") = (result = "streams")
    /\ idKnown => KeepsId(platform)

\* The adapters that notice a page without the fields they look for.
Strict == {"huya", "cc", "qq", "openrec", "yizhibo", "hongdoufm", "twitch"}

\* Those that do not look at refusals, or at the words of one page only.
Lenient == {"acfun", "huajiao", "kuaishou", "douyu", "douyin", "xiaohongshu"}

\* A room is reported live or offline, and a recording ended with ErrLiveOffline, only
\* because the platform said so in the very poll: a request that is lost or refused, or a
\* room number that has been kept, never turns into a room that is offline.  Two kinds of
\* adapters do less: a page without the fields passes for an offline room where the
\* adapter is not strict, and some do not look at refusals (GetInfo of the packages
\* under src/src/live).
ReportsWhatItHeard ==
    /\ result = "ErrLiveOffline" => heard = {"offline"}
    /\ result \in {"live", "offline"} /\ platform \notin Lenient =>
        heard = {result} \/ (misread /\ platform \notin Strict)

\* When the platform has the streams and the room prefers one of them, that one is
\* recorded unless the request for it failed, though the list also has places for
\* streams without a URL (GetStreamInfos of bilibili and douyu, SelectPreferredStream).
PreferenceKept ==
    result = "streams" /\ platform \in {"bilibili", "douyu"} /\ scope = "room" /\ want # "none" /\ ~extraLost =>
        picked = want

\* As long as one of Huya's two ways to read a room works and the platform answers, the
\* room is reported again and again, and its streams whenever they are asked for
\* (getInfoMethodIndex, getStreamInfosMethodIndex).
HuyaAnswers ==
    platform = "huya" /\ clear => []<>(result \in {"live", "offline"})
=============================================================================
