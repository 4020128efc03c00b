------------------------------ MODULE StreamProbe ------------------------------
(***************************************************************************)
(* Between the platform and the downloader.  For an FLV stream the probe   *)
(* (src/src/pkg/streamprobe/probe.go, flv_parser.go) reads the first tags  *)
(* itself, keeps what it has read, and then hands everything to the one    *)
(* client of its local server.  For an HLS stream of SOOP the playlist is  *)
(* rewritten without its preloading segments (src/src/pkg/hlsproxy), and   *)
(* the first segment is read on the side (hls_parser.go).                  *)
(*                                                                         *)
(* A stream is a sequence of pieces: the FLV header and tags, counted from *)
(* 1.  The kind of a tag is chosen when it is read.                        *)
(***************************************************************************)
EXTENDS Naturals, Sequences, FiniteSets

CONSTANTS
    Clients,        \* downloaders that connect to the local server
    MaxProbeTags,   \* maxProbeTags
    StreamLength,   \* bound on the pieces of a stream
    Length          \* bound on the lines of a playlist and the packets of a segment

VARIABLES
    phase,          \* "hls", "new", "probing", "serving", "stopping", "stopped" or "failed"
    position,       \* the pieces read from the platform
    buffered,       \* the pieces kept by the probe
    found,          \* what the tags have told: "script", "video", "audio"
    isFLV,          \* the stream begins with an FLV header
    upstream,       \* "open", "ended" or "closed"
    connected,      \* a client has been let in
    client,         \* per client: "new", "refused", "buffer", "forward" or "done"
    got,            \* the pieces each client has received
    lines,          \* the playlist of an HLS stream
    packets         \* the first segment of an HLS stream

probeVars == <<phase, position, buffered, found, isFLV, upstream, connected, client, got, lines, packets>>

------------------------------------------------------------------------------
(* hlsproxy: RewritePlaylist *)

\* Lines: a tag of the next segment ("extinf"), another tag ("key"), a "segment", a "preload".
Lines == {"extinf", "key", "segment", "preload"}

\* Mutant: the tags of a dropped segment are kept for the next one.
KeepPending(pending) == pending

DropPending(pending) == <<>>

\* The lines kept, by number, and those that wait for the segment they belong to; what the
\* next line does to them.
Reading(old, line, n) ==
    CASE line = "extinf"  -> [old EXCEPT !.pending = Append(@, n)]
      [] line = "preload" -> [old EXCEPT !.pending = DropPending(@)]
      [] OTHER -> [output |-> Append(old.output \o old.pending, n), pending |-> <<>>]

Rewriting(content) ==
    LET r[n \in 0..Len(content)] == IF n = 0 THEN [output |-> <<>>, pending |-> <<>>]
                                    ELSE Reading(r[n - 1], content[n], n)
    IN r[Len(content)]

RewritePlaylist(content) == Rewriting(content).output \o Rewriting(content).pending

------------------------------------------------------------------------------
(* hls_parser: parseTSData *)

\* Packets: the tables "pat" and "pmt", the "sps" of the video, other video, and noise
\* that does not begin with the sync byte.
Packets == {"pat", "pmt", "sps", "slice", "noise"}

Synced(data) == {n \in 1..Len(data) : \A i \in 1..n : data[i] # "noise"}

\* Mutant: the tables may come in any order.
AnyOrder(data) == IF \E i, j \in Synced(data) : data[i] = "pat" /\ data[j] = "pmt" THEN "pmt" ELSE "none"

\* The first pass: the programme table counts once the association table has named it.
Table(before, packet) ==
    CASE packet = "pat" /\ before = "none" -> "pat"
      [] packet = "pmt" /\ before = "pat" -> "pmt"
      [] OTHER -> before

Tables(data) ==
    LET pass[n \in 0..Len(data)] == IF n = 0 THEN "none"
                                    ELSE IF n \in Synced(data) THEN Table(pass[n - 1], data[n])
                                    ELSE pass[n - 1]
    IN pass[Len(data)]

\* The second pass reads the video, from the beginning.
ParseTSData(data) ==
    CASE Tables(data) = "none" -> "error"
      [] Tables(data) = "pat"  -> "unsupported"
      [] OTHER -> IF \E n \in Synced(data) : data[n] = "sps" THEN "resolution" ELSE "unsupported"

------------------------------------------------------------------------------
(* probe: the FLV stream *)

UpTo(S, n) == UNION {[1..k -> S] : k \in 0..n}

Init ==
    /\ \/ lines \in UpTo(Lines, Length) /\ packets = <<>>
       \/ packets \in UpTo(Packets, Length) /\ lines = <<>>
    /\ phase = IF lines = <<>> /\ packets = <<>> THEN "new" ELSE "hls"
    /\ position = 0 /\ buffered = 0 /\ found = {} /\ isFLV = TRUE
    /\ upstream = "open" /\ connected = FALSE
    /\ client = [c \in Clients |-> "new"] /\ got = [c \in Clients |-> <<>>]

media == <<lines, packets>>

\* Start: connectUpstream, and the header.  What is not FLV is not kept.
ConnectUpstream ==
    /\ phase = "new"
    /\ \/ phase' = "failed" /\ upstream' = "closed" /\ UNCHANGED <<position, buffered, isFLV>>
       \/ phase' = "probing" /\ position' = 1 /\ buffered' = 1 /\ UNCHANGED <<isFLV, upstream>>
       \/ phase' = "serving" /\ position' = 1 /\ isFLV' = FALSE /\ UNCHANGED <<buffered, upstream>>
       \/ phase' = "serving" /\ upstream' = "ended" /\ UNCHANGED <<position, buffered, isFLV>>
    /\ UNCHANGED <<found, connected, client, got, media>>

\* parseVideoTag, parseEnhancedVideoTag, parseScriptTag, parseAudioTag: what a tag tells.
\* A frame without the sequence header tells nothing.
Told(tag) == IF tag = "frame" THEN {} ELSE {tag}

\* parseFLVStreamInfo: a tag is read and kept, until everything is known.
ProbeTag(tag) ==
    /\ phase = "probing" /\ position < StreamLength
    /\ position' = position + 1 /\ buffered' = buffered + 1
    /\ found' = found \cup Told(tag)
    /\ phase' = IF found' = {"script", "video", "audio"} \/ buffered' = MaxProbeTags + 1 THEN "serving" ELSE phase
    /\ UNCHANGED <<isFLV, upstream, connected, client, got, media>>

\* The stream ends while it is probed: what has been read is kept.  A connection that
\* breaks loses it.
ProbeEnds ==
    /\ phase = "probing"
    /\ phase' = "serving" /\ upstream' = "ended" /\ buffered' \in {0, buffered}
    /\ UNCHANGED <<position, found, isFLV, connected, client, got, media>>

\* Mutant: every client is let in.
LetIn == TRUE

\* The first client wins.
CompareAndSwap == ~connected

\* handleStreamRequest
HandleStreamRequest(c) ==
    /\ phase = "serving" /\ client[c] = "new"
    /\ client' = [client EXCEPT ![c] = IF CompareAndSwap THEN "buffer" ELSE "refused"]
    /\ connected' = TRUE
    /\ UNCHANGED <<phase, position, buffered, found, isFLV, upstream, got, media>>

WriteBuffered(c) ==
    /\ client[c] = "buffer"
    /\ got' = [got EXCEPT ![c] = [i \in 1..buffered |-> i]]
    /\ client' = [client EXCEPT ![c] = "forward"]
    /\ UNCHANGED <<phase, position, buffered, found, isFLV, upstream, connected, media>>

\* A piece of the open stream goes to the client that reads it.
Forward(c) ==
    /\ client[c] = "forward" /\ upstream = "open" /\ position < StreamLength
    /\ position' = position + 1 /\ got' = [got EXCEPT ![c] = Append(@, position')]
    /\ UNCHANGED <<phase, buffered, found, isFLV, upstream, connected, client, media>>

\* Mutant: only the client ends its request.
OnlyClient(c) == FALSE

\* The stream is over, or Stop has cancelled it.
StreamOver(c) == upstream # "open" \/ phase = "stopping"

\* The request ends with the stream, with Stop, or because the client goes.
RequestEnds(c) ==
    /\ client[c] \in {"buffer", "forward"} /\ StreamOver(c)
    /\ client' = [client EXCEPT ![c] = "done"]
    /\ UNCHANGED <<phase, position, buffered, found, isFLV, upstream, connected, got, media>>

ClientLeaves(c) ==
    /\ client[c] \in {"buffer", "forward"} /\ client' = [client EXCEPT ![c] = "done"]
    /\ UNCHANGED <<phase, position, buffered, found, isFLV, upstream, connected, got, media>>

UpstreamEnds ==
    /\ phase = "serving" /\ upstream = "open" /\ upstream' = "ended"
    /\ UNCHANGED <<phase, position, buffered, found, isFLV, connected, client, got, media>>

\* Stop cancels first; cleanup waits for the clients, at most two seconds, closes the
\* connection and waits for the server.
Stop ==
    /\ phase = "serving" /\ phase' = "stopping"
    /\ UNCHANGED <<position, buffered, found, isFLV, upstream, connected, client, got, media>>

Cleanup ==
    /\ phase = "stopping" /\ phase' = "stopped" /\ upstream' = "closed"
    /\ UNCHANGED <<position, buffered, found, isFLV, connected, client, got, media>>

Serve(c) == HandleStreamRequest(c) \/ WriteBuffered(c) \/ Forward(c)

Next == \/ ConnectUpstream \/ \E t \in {"script", "video", "audio", "frame"} : ProbeTag(t)
        \/ ProbeEnds \/ UpstreamEnds \/ Stop \/ Cleanup
        \/ \E c \in Clients : Serve(c) \/ RequestEnds(c) \/ ClientLeaves(c)

Fairness == WF_probeVars(Cleanup) /\ \A c \in Clients : WF_probeVars(RequestEnds(c))

Spec == Init /\ [][Next]_probeVars /\ Fairness

------------------------------------------------------------------------------
(* Properties *)

ProbeTypeOK ==
    /\ phase \in {"hls", "new", "probing", "serving", "stopping", "stopped", "failed"}
    /\ buffered <= position /\ buffered <= MaxProbeTags + 1 /\ position <= StreamLength
    /\ \A c \in Clients : Len(got[c]) <= position

\* The downloader receives the stream from its first piece and without a gap, whatever
\* the probe has read before and whoever else connects, if the stream is FLV and the
\* connection did not break while it was probed (the comment of handleStreamRequest).
StreamIsWhole ==
    isFLV /\ (buffered > 0 \/ upstream # "ended") =>
        \A c \in Clients : \A i \in 1..Len(got[c]) : got[c][i] = i

\* A probe that is stopped lets its client go: tryRecord returns (Stop, cleanup).
ClientsLetGo == \A c \in Clients : phase = "stopping" ~> client[c] \notin {"buffer", "forward"}

\* A rewritten playlist has lost the preloading segments and the tags right before them,
\* and nothing else, in the same order (RewritePlaylist).
RewriteIsFilter ==
    LET dropped(n) == \E m \in n..Len(lines) : lines[m] = "preload" /\ \A i \in n..m - 1 : lines[i] = "extinf"
        kept == RewritePlaylist(lines)
    IN
    /\ {kept[i] : i \in 1..Len(kept)} = {n \in 1..Len(lines) : ~dropped(n)}
    /\ \A i \in 1..Len(kept) - 1 : kept[i] < kept[i + 1]

\* The resolution is found in a segment exactly when the tables come in order and the
\* parameters of the video come anywhere, before anything that is not in sync
\* (parseTSData).
ResolutionFound ==
    ParseTSData(packets) = "resolution" <=>
        \E i, j, k \in Synced(packets) :
            i < j /\ packets[i] = "pat" /\ packets[j] = "pmt" /\ packets[k] = "sps"
=============================================================================
