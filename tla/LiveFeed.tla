-------------------------------- MODULE LiveFeed --------------------------------
(***************************************************************************)
(* What a room's log lines and events go through to a browser: the ring    *)
(* buffer and the callback of LiveLogger, src/src/pkg/livelogger, and the  *)
(* hub of server-sent events, src/src/servers/sse.go, with a handler per   *)
(* connection.                                                             *)
(*                                                                         *)
(* A broadcast runs in a goroutine of its own under the hub's read lock,   *)
(* connections come and go at any time, and Server.Close closes the hub    *)
(* while handlers and broadcasts are under way.                            *)
(*                                                                         *)
(* A byte of the log is its position in all that was logged.               *)
(***************************************************************************)
EXTENDS Integers

CONSTANTS
    Connections,    \* browsers' connections
    Capacity,       \* of a client's channel (100)
    Size,           \* of the ring buffer, in bytes
    MaxBytes,       \* bounds what is logged
    MaxPending      \* bounds the broadcasts under way

VARIABLES
    \* LiveLogger
    logged,         \* history: bytes logged so far
    buf,            \* ringBuffer.buf, 0 where nothing was written
    writePos, full,
    callbacks,      \* broadcasts whose goroutine has not run yet
    \* SSEHub
    clients,        \* the connections whose channel the hub knows
    channel,        \* each connection's channel: "none", "open" or "closed"
    queue,          \* the number of messages in it
    hubClosed,      \* closed, with closeCh
    handler,        \* pc of each sseHandler
    hungUp,         \* connections whose browser has gone
    panicked        \* a send on, or a close of, a closed channel

logVars == <<logged, buf, writePos, full>>
hubVars == <<clients, channel, queue, hubClosed, handler, hungUp, panicked>>
feedVars == <<logVars, callbacks, hubVars>>

Init ==
    /\ logged = 0 /\ buf = [i \in 0 .. Size - 1 |-> 0] /\ writePos = 0 /\ full = FALSE
    /\ callbacks = 0
    /\ clients = {}
    /\ channel = [c \in Connections |-> "none"]
    /\ queue = [c \in Connections |-> 0]
    /\ hubClosed = FALSE
    /\ handler = [c \in Connections |-> "none"]
    /\ hungUp = {} /\ panicked = FALSE

(***************************************************************************)
(* ringBuffer.Write of the n bytes after those logged, and String.         *)
(***************************************************************************)
WriteLarge(n) ==
    /\ buf' = [i \in 0 .. Size - 1 |-> logged + n - Size + i + 1]
    /\ writePos' = 0 /\ full' = TRUE

\* as if a buffer filled to its last byte were not full
WriteExactlyFits(n) ==
    LET offset(i) == (i - writePos + Size) % Size
        end == writePos + n
    IN  /\ buf' = [i \in 0 .. Size - 1 |->
                     IF offset(i) < n THEN logged + offset(i) + 1 ELSE buf[i]]
        /\ writePos' = IF end < Size THEN end ELSE end - Size
        /\ full' = (full \/ end > Size)

WriteWraps(n) ==
    LET offset(i) == (i - writePos + Size) % Size
        end == writePos + n
    IN  /\ buf' = [i \in 0 .. Size - 1 |->
                     IF offset(i) < n THEN logged + offset(i) + 1 ELSE buf[i]]
        /\ writePos' = IF end < Size THEN end ELSE end - Size
        /\ full' = (full \/ end >= Size)

RingWrite(n) == IF n >= Size THEN WriteLarge(n) ELSE WriteWraps(n)

RingString ==
    IF full THEN [k \in 1 .. Size |-> buf[(writePos + k - 1) % Size]]
            ELSE [k \in 1 .. writePos |-> buf[k - 1]]

\* LiveLogHook.Fire, writeToBuffer: under the logger's lock; the callback in a goroutine.
Log(n) ==
    /\ logged + n <= MaxBytes /\ callbacks < MaxPending
    /\ RingWrite(n)
    /\ logged' = logged + n
    /\ callbacks' = callbacks + 1
    /\ UNCHANGED hubVars

(***************************************************************************)
(* The hub.  Broadcast skips a client whose channel is full.               *)
(***************************************************************************)
Broadcast ==
    /\ queue' = [c \in Connections |->
                   IF c \in clients /\ queue[c] < Capacity THEN queue[c] + 1 ELSE queue[c]]
    /\ panicked' = (panicked \/ \E c \in clients : channel[c] = "closed")
    /\ UNCHANGED <<clients, channel, hubClosed, handler, hungUp>>

Callback ==
    /\ callbacks > 0 /\ callbacks' = callbacks - 1
    /\ Broadcast
    /\ UNCHANGED logVars

\* An event of the dispatcher or a callback of the scheduler, in a goroutine as well.
Notify ==
    /\ callbacks < MaxPending
    /\ callbacks' = callbacks + 1
    /\ UNCHANGED <<logVars, hubVars>>

CloseKeepsClients ==
    /\ ~hubClosed
    /\ hubClosed' = TRUE
    /\ channel' = [c \in Connections |-> IF c \in clients THEN "closed" ELSE channel[c]]
    /\ UNCHANGED <<logVars, callbacks, clients, queue, handler, hungUp, panicked>>

\* SSEHub.Close, of Server.Close.
Close ==
    /\ ~hubClosed
    /\ hubClosed' = TRUE
    /\ channel' = [c \in Connections |-> IF c \in clients THEN "closed" ELSE channel[c]]
    /\ clients' = {}
    /\ UNCHANGED <<logVars, callbacks, queue, handler, hungUp, panicked>>

RemoveClient(c) ==
    IF c \in clients
    THEN /\ clients' = clients \ {c}
         /\ panicked' = (panicked \/ channel[c] = "closed")
         /\ channel' = [channel EXCEPT ![c] = "closed"]
    ELSE UNCHANGED <<clients, panicked, channel>>

(***************************************************************************)
(* sseHandler of connection c.  Its select takes any case that is ready;   *)
(* a heartbeat changes nothing, and writing to a browser that has gone     *)
(* returns an error it does not look at.                                   *)
(***************************************************************************)
Connect(c) ==
    /\ handler[c] = "none"
    /\ channel' = [channel EXCEPT ![c] = "open"]
    /\ handler' = [handler EXCEPT ![c] = "add"]
    /\ UNCHANGED <<logVars, callbacks, clients, queue, hubClosed, hungUp, panicked>>

AddClient(c) ==
    /\ handler[c] = "add"
    /\ clients' = clients \cup {c}
    /\ handler' = [handler EXCEPT ![c] = "select"]
    /\ UNCHANGED <<logVars, callbacks, channel, queue, hubClosed, hungUp, panicked>>

Ends(c) == handler' = [handler EXCEPT ![c] = "ended"]

BrowserGone(c) ==
    /\ handler[c] = "select" /\ c \in hungUp
    /\ RemoveClient(c)
    /\ Ends(c)
    /\ UNCHANGED <<logVars, callbacks, queue, hubClosed, hungUp>>

NotTold(c) == FALSE /\ UNCHANGED feedVars

HubDone(c) ==
    /\ handler[c] = "select" /\ hubClosed
    /\ Ends(c)
    /\ UNCHANGED <<logVars, callbacks, clients, channel, queue, hubClosed, hungUp, panicked>>

Receive(c) ==
    /\ handler[c] = "select"
    /\ IF queue[c] > 0
       THEN queue' = [queue EXCEPT ![c] = @ - 1] /\ UNCHANGED handler
       ELSE channel[c] = "closed" /\ Ends(c) /\ UNCHANGED queue
    /\ UNCHANGED <<logVars, callbacks, clients, channel, hubClosed, hungUp, panicked>>

HangUp(c) ==
    /\ handler[c] \in {"add", "select"} /\ c \notin hungUp
    /\ hungUp' = hungUp \cup {c}
    /\ UNCHANGED <<logVars, callbacks, clients, channel, queue, hubClosed, handler, panicked>>

Handle(c) == AddClient(c) \/ BrowserGone(c) \/ HubDone(c) \/ Receive(c)

Next ==
    \/ \E n \in 1 .. Size + 1 : Log(n)
    \/ Notify \/ Callback
    \/ Close
    \/ \E c \in Connections : Connect(c) \/ Handle(c) \/ HangUp(c)

\* Handlers run; a select chooses among its ready cases at random, so that a case
\* that stays ready is taken in the end.
Fairness == \A c \in Connections : WF_feedVars(Handle(c)) /\ SF_feedVars(HubDone(c))

Spec == Init /\ [][Next]_feedVars /\ Fairness

-----------------------------------------------------------------------------
FeedTypeOK ==
    /\ writePos \in 0 .. Size - 1 /\ full \in BOOLEAN
    /\ queue \in [Connections -> 0 .. Capacity] /\ clients \subseteq Connections
    /\ handler \in [Connections -> {"none", "add", "select", "ended"}]

(***************************************************************************)
(* The buffer a room's log is read from (getLiveLogs) is the end of what   *)
(* was logged, in order, and all of it up to the buffer's size - however   *)
(* the writes fall on the buffer's end.                                    *)
(***************************************************************************)
BufferIsTail ==
    LET kept == IF logged < Size THEN logged ELSE Size
    IN  RingString = [k \in 1 .. kept |-> logged - kept + k]

(***************************************************************************)
(* However connecting, hanging up, broadcasting and closing the hub fall   *)
(* together, no channel is closed twice and nothing is sent on a closed    *)
(* one: either panics, in a goroutine that only reports it.                *)
(***************************************************************************)
NoClosedChannelUsed == ~panicked

(***************************************************************************)
(* Closing the hub ends every handler, those that joined after it closed   *)
(* included, so that shutting the HTTP server down need not wait for them. *)
(***************************************************************************)
CloseEndsHandlers == \A c \in Connections :
    hubClosed /\ handler[c] # "none" ~> handler[c] = "ended"
=============================================================================
