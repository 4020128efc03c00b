------------------------------- MODULE FlvProxy --------------------------------
(***************************************************************************)
(* The local proxy between ffmpeg and an FLV stream that is to cut the     *)
(* recording at a key frame, src/src/pkg/flvproxy/proxy.go.  ffmpeg asks   *)
(* for the stream; the handler connects to the platform, answers 200,      *)
(* takes the connection over (http.Hijacker), to be able to close it, and  *)
(* forwards the stream tag by tag.                                         *)
(*                                                                         *)
(* What net/http does to a ResponseWriter whose connection was taken over  *)
(* is external: every later Write returns ErrHijacked.                     *)
(***************************************************************************)
EXTENDS Integers, Sequences

CONSTANTS
    MinInterval,    \* minSegmentInterval, in tags
    Requests        \* bounds the segments asked for

Tags == {"header", "key", "inter"}     \* AVC sequence header, key frame, other

VARIABLES
    handler,        \* pc of handleStream
    hijacked,       \* whether its connection was taken over
    activeConn,     \* whether the proxy knows the connection
    connOpen,       \* whether ffmpeg's connection is open
    upstream,       \* the tag read from the platform, or none
    headers,        \* avcHeaderCount
    pending,        \* pendingSegment
    sinceSegment,   \* tags since lastSegmentAt
    sent,           \* the last thing ffmpeg has received
    closed, asked

proxyVars == <<handler, hijacked, activeConn, connOpen, upstream, headers, pending, sinceSegment,
               sent, closed, asked>>

Init ==
    /\ handler = "accept" /\ hijacked = FALSE /\ activeConn = FALSE /\ connOpen = TRUE
    /\ upstream = "none" /\ headers = 0 /\ pending = FALSE /\ sinceSegment = MinInterval
    /\ sent = "nothing" /\ closed = FALSE /\ asked = 0

\* net/http: a Write of the handler reaches ffmpeg unless the connection was taken over.
WriteFails == hijacked \/ ~connOpen

\* handleStream up to the loop: the upstream may refuse; then 502.
Accept ==
    /\ handler = "accept" /\ ~closed
    /\ \/ handler' = "hijack"
       \/ handler' = "end"
    /\ UNCHANGED <<hijacked, activeConn, connOpen, upstream, headers, pending, sinceSegment, sent, closed, asked>>

Hijack ==
    /\ handler = "hijack"
    /\ hijacked' = TRUE /\ activeConn' = TRUE
    /\ headers' = 0
    /\ handler' = "flv_header"
    /\ UNCHANGED <<connOpen, upstream, pending, sinceSegment, sent, closed, asked>>

\* The handler returns and forgets the connection; it does not close one it took over.
Leave ==
    /\ handler' = "end"
    /\ activeConn' = FALSE
    /\ connOpen' = (connOpen /\ hijacked)

ForwardHeader ==
    /\ handler = "flv_header"
    /\ \/ WriteFails /\ Leave /\ UNCHANGED sent
       \/ ~WriteFails /\ sent' = "flv_header" /\ handler' = "read" /\ UNCHANGED <<activeConn, connOpen>>
    /\ UNCHANGED <<hijacked, upstream, headers, pending, sinceSegment, closed, asked>>

\* checkVideoTag: a second sequence header asks for a segment, a key frame makes it.
ReadTag ==
    /\ handler = "read"
    /\ \E t \in Tags :
        /\ upstream' = t
        /\ headers' = IF t = "header" /\ headers < 2 THEN headers + 1 ELSE headers
        /\ pending' = CASE t = "header" -> pending \/ headers' > 1
                        [] t = "key"    -> FALSE
                        [] OTHER        -> pending
        /\ handler' = IF t = "key" /\ pending THEN "cut" ELSE "forward"
        /\ sinceSegment' = IF t = "key" /\ pending THEN 0
                           ELSE IF sinceSegment < MinInterval THEN sinceSegment + 1 ELSE sinceSegment
    /\ UNCHANGED <<hijacked, activeConn, connOpen, sent, closed, asked>>

Forward ==
    /\ handler = "forward"
    /\ \/ WriteFails /\ Leave /\ UNCHANGED sent
       \/ ~WriteFails /\ sent' = upstream /\ handler' = "read" /\ UNCHANGED <<activeConn, connOpen>>
    /\ UNCHANGED <<hijacked, upstream, headers, pending, sinceSegment, closed, asked>>

\* ErrSegmentRequired: the tag is still forwarded, then the connection is closed.
Cut ==
    /\ handler = "cut"
    /\ sent' = IF WriteFails THEN sent ELSE upstream
    /\ handler' = "end" /\ activeConn' = FALSE /\ connOpen' = FALSE
    /\ UNCHANGED <<hijacked, upstream, headers, pending, sinceSegment, closed, asked>>

\* RequestSegment, from the recorder: refused shortly after a segment.
RequestSegment ==
    /\ asked < Requests /\ asked' = asked + 1
    /\ pending' = (pending \/ sinceSegment >= MinInterval)
    /\ UNCHANGED <<handler, hijacked, activeConn, connOpen, upstream, headers, sinceSegment, sent, closed>>

\* Close, when the parser is stopped: only a connection the proxy still knows is closed.
Close ==
    /\ ~closed /\ closed' = TRUE
    /\ connOpen' = (connOpen /\ ~activeConn /\ handler # "accept")
    /\ UNCHANGED <<handler, hijacked, activeConn, upstream, headers, pending, sinceSegment, sent, asked>>

Handle == Accept \/ Hijack \/ ForwardHeader \/ ReadTag \/ Forward \/ Cut

Next == Handle \/ RequestSegment \/ Close

\* The handler runs.
Spec == Init /\ [][Next]_proxyVars /\ WF_proxyVars(Handle)

\* flvproxy/proxy.go:200 "parse and forward the FLV stream": a stream that the platform
\* delivers reaches ffmpeg while the proxy is not closed.
StreamReachesFfmpeg == (handler = "flv_header") ~> (sent # "nothing" \/ closed)
=============================================================================
