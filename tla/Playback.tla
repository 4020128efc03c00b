-------------------------------- MODULE Playback --------------------------------
(***************************************************************************)
(* Watching a room in a player: the sessions of src/src/playback and the   *)
(* handlers that create and serve them (servers/playback_handler.go).      *)
(*                                                                         *)
(* A session keeps one local address for streams whose own addresses are   *)
(* short-lived: it remembers the stream it resolved last, and resolves     *)
(* again when that is old, or when the platform refuses it.  The map of    *)
(* sessions has its lock, the cached stream of a session another           *)
(* (resolveMu), which is held while the platform is asked; a request goes  *)
(* on with a session that has left the map.                                *)
(*                                                                         *)
(* A stream is the number it was issued under; times are ticks ago.        *)
(***************************************************************************)
EXTENDS Integers, Sequences, FiniteSets

CONSTANTS
    Tokens,
    Players,        \* requests that may be under way at a time
    MaxSessions,    \* maxPlaybackSessions, 128 in the code
    SessionTTL, CacheTTL,
    MaxStreams      \* bounds the streams the platform issues

VARIABLES
    sessions,       \* the tokens in the map
    format, idle,   \* of a session: its format, ticks since lastAccessAt
    cached, age,    \* cachedStream, ticks since cachedResolveAt
    resolveMu,      \* the player that holds it, or NoPlayer
    issued,         \* the formats of the streams issued
    revoked,        \* the streams the platform refuses by now
    pc, token, kind,\* of a player: where it is, what it asks for
    forced,         \* whether it has been refused once
    using, target,  \* the stream it resolved; the stream its media segment is of
    refusedAt       \* history: how many streams had been issued when it was refused

sessionVars  == <<sessions, format, idle, cached, age, resolveMu>>
platformVars == <<issued, revoked>>
playerVars   == <<pc, token, kind, forced, using, target, refusedAt>>
playbackVars == <<sessionVars, platformVars, playerVars>>

Formats  == {"flv", "hls"}
NoPlayer == "nobody"
NoToken  == "none"
Streams  == 1 .. Len(issued)

Init ==
    /\ sessions = {}
    /\ format = [t \in Tokens |-> "none"] /\ idle = [t \in Tokens |-> 0]
    /\ cached = [t \in Tokens |-> 0] /\ age = [t \in Tokens |-> 0]
    /\ resolveMu = [t \in Tokens |-> NoPlayer]
    /\ issued = <<>> /\ revoked = {}
    /\ pc = [p \in Players |-> "idle"] /\ token = [p \in Players |-> NoToken]
    /\ kind = [p \in Players |-> "none"] /\ forced = [p \in Players |-> FALSE]
    /\ using = [p \in Players |-> 0] /\ target = [p \in Players |-> 0]
    /\ refusedAt = [p \in Players |-> 0]

-----------------------------------------------------------------------------
(* The map of sessions *)

\* cleanupExpiredLocked.
Unexpired == {t \in sessions : idle[t] <= SessionTTL}

\* Mutant: the session that was used last goes.
RemoveNewest(S) ==
    IF Cardinality(S) < MaxSessions THEN {S}
    ELSE {S \ {o} : o \in {o \in S : \A t \in S : idle[o] <= idle[t]}}

\* removeOldestSessionLocked: of sessions used at the same time, any.
RemoveOldest(S) ==
    IF Cardinality(S) < MaxSessions THEN {S}
    ELSE {S \ {o} : o \in {o \in S : \A t \in S : idle[t] <= idle[o]}}

\* createPlayback and Create: the stream is resolved before the session exists; one that
\* cannot be resolved or proxied makes none.
Create(t) ==
    /\ format[t] = "none" /\ Len(issued) < MaxStreams
    /\ \E f \in Formats, kept \in RemoveOldest(Unexpired) :
        /\ issued' = Append(issued, f)
        /\ format' = [format EXCEPT ![t] = f]
        /\ sessions' = kept \cup {t}
    /\ cached' = [cached EXCEPT ![t] = Len(issued) + 1]
    /\ UNCHANGED <<idle, age, resolveMu, revoked, playerVars>>

Serves(k) == IF k = "flv" THEN "flv" ELSE "hls"

\* ProxyFLV, ProxyHLSPlaylist, ProxyHLSMedia: getSession, and the format of the address.
\* Its reference names a segment of a stream that a playlist named before.
Play(p, t, k) ==
    /\ pc[p] = "idle" /\ format[t] # "none"
    /\ sessions' = Unexpired
    /\ IF t \in Unexpired
       THEN /\ idle' = [idle EXCEPT ![t] = 0]
            /\ IF format[t] = Serves(k)
               THEN /\ pc' = [pc EXCEPT ![p] = "lock"]
                    /\ token' = [token EXCEPT ![p] = t] /\ kind' = [kind EXCEPT ![p] = k]
                    /\ \E s \in IF k = "media" THEN {s \in Streams : issued[s] = "hls"} ELSE {0} :
                          target' = [target EXCEPT ![p] = s]
               ELSE UNCHANGED <<pc, token, kind, target>>
       ELSE UNCHANGED <<idle, pc, token, kind, target>>
    /\ UNCHANGED <<format, cached, age, resolveMu, platformVars, forced, using, refusedAt>>

-----------------------------------------------------------------------------
(* A request *)

\* The request is answered, with a stream, the platform's refusal or an error.
Answered(p) ==
    /\ pc' = [pc EXCEPT ![p] = "idle"] /\ token' = [token EXCEPT ![p] = NoToken]
    /\ kind' = [kind EXCEPT ![p] = "none"] /\ forced' = [forced EXCEPT ![p] = FALSE]
    /\ using' = [using EXCEPT ![p] = 0] /\ target' = [target EXCEPT ![p] = 0]
    /\ refusedAt' = [refusedAt EXCEPT ![p] = 0]

\* Mutant: whoever resolved within the TTL, even for a request that was refused.
FreshAnyway(p) == age[token[p]] < CacheTTL

Fresh(p) == ~forced[p] /\ age[token[p]] < CacheTTL

\* getStream, until the platform is asked.
GetStream(p) ==
    /\ pc[p] = "lock" /\ resolveMu[token[p]] = NoPlayer
    /\ IF Fresh(p)
       THEN /\ using' = [using EXCEPT ![p] = cached[token[p]]]
            /\ pc' = [pc EXCEPT ![p] = "request"] /\ UNCHANGED resolveMu
       ELSE /\ resolveMu' = [resolveMu EXCEPT ![token[p]] = p]
            /\ pc' = [pc EXCEPT ![p] = "resolve"] /\ UNCHANGED using
    /\ UNCHANGED <<sessions, format, idle, cached, age, platformVars, token, kind, forced,
                   target, refusedAt>>

Unlock(p) == resolveMu' = [resolveMu EXCEPT ![token[p]] = NoPlayer]

\* Mutant: the lock is kept when the resolution has failed.
FailLocked(p) == Answered(p) /\ UNCHANGED resolveMu

\* An error leaves the cached stream as it was.
ResolveFails(p) == Answered(p) /\ Unlock(p)

\* Mutant: the stream is cached before its format is looked at.
RememberFirst(p, f) ==
    /\ cached' = [cached EXCEPT ![token[p]] = Len(issued) + 1]
    /\ age' = [age EXCEPT ![token[p]] = 0]
    /\ IF f = format[token[p]]
       THEN /\ using' = [using EXCEPT ![p] = Len(issued) + 1]
            /\ pc' = [pc EXCEPT ![p] = "request"]
            /\ Unlock(p) /\ UNCHANGED <<token, kind, forced, target, refusedAt>>
       ELSE ResolveFails(p)

\* A stream of another format is an error: the address of the session names the format.
Remember(p, f) ==
    IF f = format[token[p]]
    THEN /\ cached' = [cached EXCEPT ![token[p]] = Len(issued) + 1]
         /\ age' = [age EXCEPT ![token[p]] = 0]
         /\ using' = [using EXCEPT ![p] = Len(issued) + 1]
         /\ pc' = [pc EXCEPT ![p] = "request"]
         /\ Unlock(p) /\ UNCHANGED <<token, kind, forced, target, refusedAt>>
    ELSE ResolveFails(p) /\ UNCHANGED <<cached, age>>

\* The platform answers, or does not.  The player may have left: nobody stops this.
Resolve(p) ==
    /\ pc[p] = "resolve"
    /\ \/ /\ Len(issued) < MaxStreams
          /\ \E f \in Formats : issued' = Append(issued, f) /\ Remember(p, f)
       \/ /\ ResolveFails(p) /\ UNCHANGED <<cached, age, issued>>
    /\ UNCHANGED <<sessions, format, idle, revoked>>

Asked(p) == IF kind[p] = "media" THEN target[p] ELSE using[p]

\* openUpstream, openTargetWithRetry: a refusal is answered by one more attempt, with a
\* stream resolved anew; a media segment keeps its own address.
Refused(p) ==
    /\ pc[p] = "request" /\ Asked(p) \in revoked
    /\ IF forced[p]
       THEN Answered(p)
       ELSE /\ forced' = [forced EXCEPT ![p] = TRUE]
            /\ refusedAt' = [refusedAt EXCEPT ![p] = Len(issued)]
            /\ using' = [using EXCEPT ![p] = 0]
            /\ pc' = [pc EXCEPT ![p] = "lock"]
            /\ UNCHANGED <<token, kind, target>>
    /\ UNCHANGED <<sessionVars, platformVars>>

\* The platform accepts: a playlist is rewritten and a segment copied; so is an FLV
\* stream, until it ends or the player leaves.  Or the platform fails.
Accepted(p) ==
    /\ pc[p] = "request" /\ Asked(p) \notin revoked
    /\ \/ pc' = [pc EXCEPT ![p] = "copy"]
          /\ UNCHANGED <<token, kind, forced, using, target, refusedAt>>
       \/ Answered(p)
    /\ UNCHANGED <<sessionVars, platformVars>>

CopyEnds(p) == pc[p] = "copy" /\ Answered(p) /\ UNCHANGED <<sessionVars, platformVars>>

-----------------------------------------------------------------------------
Revoke(s) ==
    /\ s \notin revoked /\ revoked' = revoked \cup {s}
    /\ UNCHANGED <<sessionVars, issued, playerVars>>

Older(n, most) == IF n > most THEN n ELSE n + 1

Tick ==
    /\ idle' = [t \in Tokens |-> IF t \in sessions THEN Older(idle[t], SessionTTL) ELSE 0]
    /\ age' = [t \in Tokens |-> IF cached[t] = 0 THEN 0 ELSE Older(age[t], CacheTTL - 1)]
    /\ UNCHANGED <<sessions, format, cached, resolveMu, platformVars, playerVars>>

Next ==
    \/ \E t \in Tokens : Create(t)
    \/ \E p \in Players, t \in Tokens, k \in {"flv", "playlist", "media"} : Play(p, t, k)
    \/ \E p \in Players : GetStream(p) \/ Resolve(p) \/ Refused(p) \/ Accepted(p) \/ CopyEnds(p)
    \/ \E s \in Streams : Revoke(s)
    \/ Tick

\* Requests of the platform return, and a mutex is not withheld for ever from one that
\* waits; a stream may be watched for ever.
Fairness ==
    \A p \in Players :
        /\ SF_playbackVars(GetStream(p))
        /\ WF_playbackVars(Resolve(p)) /\ WF_playbackVars(Refused(p) \/ Accepted(p))

Spec == Init /\ [][Next]_playbackVars /\ Fairness

-----------------------------------------------------------------------------
(* Properties *)

PlaybackTypeOK ==
    /\ sessions \subseteq Tokens /\ Cardinality(sessions) <= MaxSessions
    /\ format \in [Tokens -> Formats \cup {"none"}]
    /\ idle \in [Tokens -> 0 .. SessionTTL + 1] /\ age \in [Tokens -> 0 .. CacheTTL]
    /\ cached \in [Tokens -> {0} \cup Streams]
    /\ resolveMu \in [Tokens -> Players \cup {NoPlayer}]
    /\ pc \in [Players -> {"idle", "lock", "resolve", "request", "copy"}]

\* A session leaves the map for one of two reasons: nobody has used it for a day, or the
\* map is full and nobody has used any other for longer (Create, cleanupExpiredLocked,
\* removeOldestSessionLocked, getSession).
LeastUsedGoes ==
    [][\A t \in sessions \ sessions' :
        \/ idle[t] > SessionTTL
        \/ Cardinality(sessions') = MaxSessions
           /\ \A other \in sessions \cap sessions' : idle[other] <= idle[t]]_playbackVars

\* What is sent to a player through an address is of the format the address names,
\* whatever the platform issues meanwhile and whoever resolves (getStream).
FormatKept ==
    /\ \A p \in Players : using[p] # 0 => issued[using[p]] = format[token[p]]
    /\ \A t \in Tokens : cached[t] # 0 => issued[cached[t]] = format[t]

\* A request that was refused asks again with a stream issued after the refusal, also
\* when another request of the session has resolved in between (openUpstream,
\* openTargetWithRetry).
RetryIsFresh ==
    \A p \in Players : pc[p] = "request" /\ forced[p] => using[p] > refusedAt[p]

\* A request that waits for the stream of its session gets an answer, however the
\* resolutions of others end and whether their players have left (getStream).
PlayersAnswered ==
    \A p \in Players : pc[p] = "lock" ~> pc[p] \in {"idle", "copy"}
=============================================================================
