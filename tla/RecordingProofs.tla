---------------------------- MODULE RecordingProofs ----------------------------
(***************************************************************************)
(* What a recording guarantees for any number of attempts, browsers,       *)
(* clients and lanes, and for a log buffer of any size: the attempts of a  *)
(* recorder clean up after themselves, the probe and the room log pass on  *)
(* what they take, playlists and segments of any length are read rightly,  *)
(* no channel of the event hub is used after it is closed, and danmaku     *)
(* share the lanes.                                                        *)
(*                                                                         *)
(* The four parts run side by side and share nothing, so each has an       *)
(* invariant of its own (SegIInv, FeedIInv with BufIInv, ProbeIInv with    *)
(* MediaIInv, LaneIInv), which the steps of the others leave alone.        *)
(***************************************************************************)
EXTENDS MCRecording, WellFoundedInduction, TLAPS

\* The types of a recorder and its attempts.
SegTypes ==
    /\ try \in 0 .. Attempts /\ parser \in 0 .. Attempts /\ danmaku \in 0 .. Attempts
    /\ down \in [Seg!Tries -> {"none", "running", "ended", "failed"}]
    /\ comments \subseteq Seg!Tries /\ video \subseteq Seg!Tries

\* Where the goroutine is when no attempt downloads.
Between == {"loop", "disk", "gap", "resolve", "set_parser", "done"}

\* What an attempt has under way belongs to it: a download runs only while its parser does, and
\* a danmaku client is the last attempt's, which stopped it before it ended.
SegInside ==
    /\ danmaku <= try
    /\ pc \in {"danmaku", "start"} => try # 0 /\ parser \in {0, try}
    /\ pc \in {"resolve", "set_parser", "parse", "stop_danmaku", "post"} => try # 0
    /\ pc \in {"resolve", "set_parser", "danmaku"} => danmaku < try
    /\ comments \subseteq {danmaku}
    /\ pc \in Between \cup {"danmaku", "post"} => comments = {}
    /\ \A i \in Seg!Tries : down[i] = "running" => i = try /\ pc = "parse"

\* What ffmpeg or the native parser has written is in the list of files once its attempt is
\* past post-processing.
SegSummed ==
    \A i \in video : kind[i] # "recorder" =>
        /\ i <= try
        /\ <<i, "video">> \in files \/ (i = try /\ pc \in {"parse", "stop_danmaku", "post"})

SegIInv == SegTypes /\ SegInside /\ SegSummed

LEMMA SegStart == Seg!Init => SegIInv
BY RecordingAssumption DEF RecordingAssumption, Seg!Init, SegIInv, SegTypes, SegInside, SegSummed,
  Seg!Tries

LEMMA SegStep == SegIInv /\ [Seg!Next]_(Seg!segVars) => SegIInv'
<1> SUFFICES ASSUME SegIInv, [Seg!Next]_(Seg!segVars)
             PROVE  SegIInv'
    OBVIOUS
<1>0. Attempts \in Nat
  BY RecordingAssumption DEF RecordingAssumption
<1> USE <1>0 DEF SegIInv, SegTypes, SegInside, SegSummed, Between, Seg!Tries,
        Seg!Go, Seg!recVars, Seg!doneVars, Seg!tryVars
<1>1. CASE Seg!Loop
  <2>1. UNCHANGED <<parser, danmaku, files, kind, down, video, comments>>
    BY <1>1 DEF Seg!Loop
  <2>2. CASE pc = "loop" /\ pc' \in {"done", "disk"} /\ try' = try
    BY <2>1, <2>2
  <2>3. CASE pc = "loop" /\ pc' = "resolve" /\ try' = try + 1 /\ try < Attempts
    <3>1. SegTypes'
      BY <2>1, <2>3
    <3>2. SegInside'
      <4>1. \A i \in Seg!Tries : down[i] # "running"
        BY <2>3
      <4>2. comments = {} /\ danmaku < try'
        BY <2>3
      <4> QED BY <2>1, <2>3, <4>1, <4>2
    <3>3. \A i \in video : kind[i] # "recorder" => i <= try /\ <<i, "video">> \in files
      BY <2>3
    <3>4. ASSUME NEW i \in video, kind[i] # "recorder"
          PROVE  i <= try'
      <4>1. i \in Seg!Tries
        BY <3>4
      <4>2. try \in Nat
        OBVIOUS
      <4>3. i <= try
        BY <3>3, <3>4
      <4> QED BY <2>3, <4>1, <4>2, <4>3
    <3>5. SegSummed'
      BY <2>1, <3>3, <3>4
    <3> QED BY <3>1, <3>2, <3>5
  <2> QED BY <1>1, <2>2, <2>3 DEF Seg!Loop
<1>2. CASE Seg!WaitEnds
  BY <1>2 DEF Seg!WaitEnds
<1>3. CASE Seg!Resolve
  BY <1>3 DEF Seg!Resolve, Seg!Return
<1>4. CASE Seg!SetParser
  BY <1>4 DEF Seg!SetParser
<1>5. CASE Seg!StartDanmaku
  <2>1. UNCHANGED <<parser, try, files, kind, down, video>>
        /\ pc = "danmaku" /\ pc' = "start"
    BY <1>5 DEF Seg!StartDanmaku
  <2>2. comments' \subseteq {danmaku'} /\ danmaku' \in {danmaku, 0, try}
    BY <1>5 DEF Seg!StartDanmaku
  <2>3. comments' \subseteq comments \cup {try} /\ try \in Seg!Tries
    BY <1>5 DEF Seg!StartDanmaku
  <2>4. SegTypes'
    BY <2>1, <2>2, <2>3
  <2>5. SegInside'
    <3>1. \A i \in Seg!Tries : down[i] # "running"
      BY <2>1
    <3>2. danmaku' <= try /\ try # 0 /\ parser \in {0, try}
      BY <2>1, <2>2
    <3> QED BY <2>1, <2>2, <3>1, <3>2
  <2> QED BY <2>1, <2>4, <2>5
<1>6. CASE Seg!ParseLiveStream
  BY <1>6 DEF Seg!ParseLiveStream, Seg!StartDownload
<1>7. CASE Seg!ParseReturns
  BY <1>7 DEF Seg!ParseReturns
<1>8. CASE Seg!StopDanmaku
  BY <1>8 DEF Seg!StopDanmaku
<1>9. CASE Seg!PostProcess
  BY <1>9 DEF Seg!PostProcess, Seg!Return, Seg!LeaveBehind, Seg!FoundNothing
<1>10. ASSUME NEW i \in Seg!Tries, Seg!Write(i)
       PROVE  SegIInv'
  BY <1>10 DEF Seg!Write
<1>11. ASSUME NEW i \in Seg!Tries, Seg!EndDownload(i)
       PROVE  SegIInv'
  <2>1. UNCHANGED <<parser, try, danmaku, comments, files, kind, video, pc>>
    BY <1>11 DEF Seg!EndDownload
  <2>2. PICK how \in {"ended", "failed"} : down' = [down EXCEPT ![i] = how]
    BY <1>11 DEF Seg!EndDownload
  <2>3. /\ down' \in [Seg!Tries -> {"none", "running", "ended", "failed"}]
        /\ \A j \in Seg!Tries : down'[j] = "running" => down[j] = "running"
    BY <2>2
  <2> QED BY <2>1, <2>3
<1>12. ASSUME NEW i \in Seg!Tries, Seg!WatchdogExpires(i)
       PROVE  SegIInv'
  BY <1>12 DEF Seg!WatchdogExpires
<1>13. ASSUME NEW i \in Seg!Tries, Seg!WatchdogFires(i)
       PROVE  SegIInv'
  BY <1>13 DEF Seg!WatchdogFires
<1>14. CASE Seg!Close \/ Seg!CloseParser \/ Seg!CloseDanmaku
  BY <1>14 DEF Seg!Close, Seg!CloseParser, Seg!CloseDanmaku
<1>15. CASE UNCHANGED Seg!segVars
  BY <1>15 DEF Seg!segVars
<1> QED BY <1>1, <1>2, <1>3, <1>4, <1>5, <1>6, <1>7, <1>8, <1>9, <1>10, <1>11, <1>12, <1>13,
           <1>14, <1>15
        DEF Seg!Next, Seg!Run
------------------------------------------------------------------------------
(* The feed *)

\* A client is in the map of the hub exactly as long as its channel is open, and only its
\* handler, which has added it, takes it out.
FeedIInv ==
    /\ clients \subseteq Connections
    /\ channel \in [Connections -> {"none", "open", "closed"}]
    /\ handler \in [Connections -> {"none", "add", "select", "ended"}]
    /\ \A c \in clients : channel[c] = "open" /\ handler[c] \in {"select", "ended"}
    /\ \A c \in Connections : handler[c] = "add" => channel[c] = "open"
    /\ panicked = FALSE

LEMMA FeedInit == Feed!Init => FeedIInv
BY DEF Feed!Init, FeedIInv

\* Taking a client off the map closes its channel, and does so once.
LEMMA RemoveOnce ==
    ASSUME FeedIInv, NEW c \in Connections, handler[c] = "select",
           Feed!RemoveClient(c), Feed!Ends(c)
    PROVE  FeedIInv'
<1>1. CASE c \in clients
  BY <1>1 DEF Feed!RemoveClient, Feed!Ends, FeedIInv
<1>2. CASE c \notin clients
  BY <1>2 DEF Feed!RemoveClient, Feed!Ends, FeedIInv
<1> QED BY <1>1, <1>2

LEMMA FeedStep == FeedIInv /\ [Feed!Next]_(Feed!feedVars) => FeedIInv'
<1> SUFFICES ASSUME FeedIInv, [Feed!Next]_(Feed!feedVars)
             PROVE  FeedIInv'
    OBVIOUS
<1>1. ASSUME NEW n \in 1 .. Size + 1, Feed!Log(n)
      PROVE  FeedIInv'
  BY <1>1 DEF Feed!Log, FeedIInv, Feed!hubVars
<1>2. CASE Feed!Notify
  BY <1>2 DEF Feed!Notify, FeedIInv, Feed!hubVars
<1>3. CASE Feed!Callback
  BY <1>3 DEF Feed!Callback, Feed!Broadcast, FeedIInv
<1>4. CASE Feed!Close
  BY <1>4 DEF Feed!Close, FeedIInv
<1>5. ASSUME NEW c \in Connections, Feed!Connect(c)
      PROVE  FeedIInv'
  BY <1>5 DEF Feed!Connect, FeedIInv
<1>6. ASSUME NEW c \in Connections, Feed!Handle(c)
      PROVE  FeedIInv'
  <2>1. CASE Feed!AddClient(c)
    BY <2>1 DEF Feed!AddClient, FeedIInv
  <2>2. CASE Feed!BrowserGone(c)
    BY <2>2, RemoveOnce DEF Feed!BrowserGone
  <2>3. CASE Feed!HubDone(c)
    BY <2>3 DEF Feed!HubDone, Feed!Ends, FeedIInv
  <2>4. CASE Feed!Receive(c)
    BY <2>4 DEF Feed!Receive, Feed!Ends, FeedIInv
  <2> QED BY <1>6, <2>1, <2>2, <2>3, <2>4 DEF Feed!Handle
<1>7. ASSUME NEW c \in Connections, Feed!HangUp(c)
      PROVE  FeedIInv'
  BY <1>7 DEF Feed!HangUp, FeedIInv
<1>8. CASE UNCHANGED Feed!feedVars
  BY <1>8 DEF Feed!feedVars, Feed!hubVars, FeedIInv
<1> QED BY <1>1, <1>2, <1>3, <1>4, <1>5, <1>6, <1>7, <1>8 DEF Feed!Next

\* Within one turn of the buffer the remainder is a subtraction.
LEMMA OneTurn ==
    ASSUME NEW x \in 0 .. 2 * Size - 1
    PROVE  x % Size = IF x < Size THEN x ELSE x - Size
<1> USE RecordingAssumption DEF RecordingAssumption
<1>1. Size \in Nat /\ Size > 0
  OBVIOUS
<1>2. CASE x < Size
  BY <1>1, <1>2
<1>3. CASE x >= Size
  <2>1. x = Size * 1 + (x - Size) /\ x - Size \in 0 .. Size - 1
    BY <1>1, <1>3
  <2> QED BY <1>1, <1>3, <2>1
<1> QED BY <1>2, <1>3

\* What the ring buffer holds where, before and after it is full: the write position divides
\* the newest bytes from those of the turn before.
BufIInv ==
    /\ logged \in Nat /\ writePos \in 0 .. Size - 1
    /\ buf \in [0 .. Size - 1 -> Int]
    /\ ~full => /\ logged = writePos
                /\ \A j \in 0 .. writePos - 1 : buf[j] = j + 1
    /\ full => /\ logged >= Size
               /\ \A j \in 0 .. writePos - 1 : buf[j] = logged - writePos + j + 1
               /\ \A j \in writePos .. Size - 1 : buf[j] = logged - Size - writePos + j + 1

LEMMA BufStart == Feed!Init => BufIInv
<1> SUFFICES ASSUME Feed!Init
             PROVE  BufIInv
    OBVIOUS
<1>1. Size \in Nat /\ Size > 0
  BY RecordingAssumption DEF RecordingAssumption
<1>2. logged = 0 /\ buf = [i \in 0 .. Size - 1 |-> 0] /\ writePos = 0 /\ full = FALSE
  BY DEF Feed!Init
<1> QED BY <1>1, <1>2 DEF BufIInv

LEMMA BufStep == BufIInv /\ [Feed!Next]_(Feed!feedVars) => BufIInv'
<1> SUFFICES ASSUME BufIInv, [Feed!Next]_(Feed!feedVars)
             PROVE  BufIInv'
    OBVIOUS
<1>0. Size \in Nat /\ Size > 0
  BY RecordingAssumption DEF RecordingAssumption
<1>1. ASSUME NEW n \in 1 .. Size + 1, Feed!Log(n)
      PROVE  BufIInv'
  <2>1. CASE n >= Size
    <3>1. /\ buf' = [i \in 0 .. Size - 1 |-> logged + n - Size + i + 1]
          /\ writePos' = 0 /\ full' = TRUE /\ logged' = logged + n
      BY <1>1, <2>1 DEF Feed!Log, Feed!RingWrite, Feed!WriteLarge
    <3> QED BY <1>0, <2>1, <3>1 DEF BufIInv
  <2>2. CASE n < Size
    <3> DEFINE offset(i) == IF i >= writePos THEN i - writePos ELSE i - writePos + Size
    <3>0. Feed!WriteWraps(n) /\ logged' = logged + n
      BY <1>0, <1>1, <2>2 DEF Feed!Log, Feed!RingWrite
    <3>10. writePos \in Int /\ n \in Int
      BY <1>0 DEF BufIInv
    <3>7. buf' = [i \in 0 .. Size - 1 |->
                    IF (i - writePos + Size) % Size < n
                    THEN logged + ((i - writePos + Size) % Size) + 1 ELSE buf[i]]
      BY <3>0, Zenon DEF Feed!WriteWraps
    <3>1. /\ writePos + n < Size => writePos' = writePos + n
          /\ ~(writePos + n < Size) => writePos' = writePos + n - Size
      BY <1>0, <3>0, <3>10 DEF Feed!WriteWraps
    <3>9. full' <=> (full \/ writePos + n >= Size)
      BY <3>0 DEF Feed!WriteWraps
    <3>2. ASSUME NEW i \in 0 .. Size - 1
          PROVE  (i - writePos + Size) % Size = offset(i)
      <4>1. i - writePos + Size \in 0 .. 2 * Size - 1
        BY <1>0 DEF BufIInv
      <4> QED BY <1>0, <4>1, OneTurn DEF BufIInv
    <3>3. ASSUME NEW i \in 0 .. Size - 1
          PROVE  buf'[i] = IF offset(i) < n THEN logged + offset(i) + 1 ELSE buf[i]
      <4>1. (i - writePos + Size) % Size = offset(i)
        BY <3>2
      <4>2. buf'[i] = IF (i - writePos + Size) % Size < n
                      THEN logged + ((i - writePos + Size) % Size) + 1 ELSE buf[i]
        BY <3>7
      <4> HIDE DEF offset
      <4> QED BY <4>1, <4>2
    <3>4. buf' \in [0 .. Size - 1 -> Int]
      BY <1>0, <3>7, <3>2, <3>3 DEF BufIInv
    <3>5. CASE writePos + n < Size
      <4>1. writePos' = writePos + n /\ (full' <=> full)
        BY <1>0, <3>1, <3>5, <3>9 DEF BufIInv
      <4>2. \A j \in 0 .. writePos - 1 : buf'[j] = buf[j]
        BY <1>0, <3>3, <3>5 DEF BufIInv
      <4>3. \A j \in writePos .. writePos' - 1 : buf'[j] = logged' - writePos' + j + 1
        BY <1>0, <3>0, <3>3, <3>5, <4>1 DEF BufIInv
      <4>4. \A j \in writePos' .. Size - 1 : buf'[j] = buf[j]
        BY <1>0, <3>3, <3>5, <4>1 DEF BufIInv
      <4> HIDE DEF offset
      <4>5. logged' \in Nat /\ writePos' \in 0 .. Size - 1 /\ (full => logged' >= Size)
        BY <1>0, <2>2, <3>0, <3>5, <4>1 DEF BufIInv
      <4>6. CASE full
        <5>1. \A j \in 0 .. writePos - 1 : buf'[j] = logged' - writePos' + j + 1
          BY <1>0, <3>0, <4>1, <4>2, <4>6 DEF BufIInv
        <5>2. \A j \in writePos' .. Size - 1 : buf'[j] = logged' - Size - writePos' + j + 1
          BY <1>0, <3>0, <4>1, <4>4, <4>6 DEF BufIInv
        <5>3. \A j \in 0 .. writePos' - 1 : buf'[j] = logged' - writePos' + j + 1
          BY <1>0, <4>1, <4>3, <5>1 DEF BufIInv
        <5> QED BY <3>4, <4>1, <4>5, <4>6, <5>2, <5>3 DEF BufIInv
      <4>7. CASE ~full
        <5>1. logged = writePos /\ logged' = writePos'
          BY <3>0, <4>1, <4>7 DEF BufIInv
        <5>2. \A j \in 0 .. writePos - 1 : buf'[j] = j + 1
          BY <1>0, <4>2, <4>7 DEF BufIInv
        <5>3. ASSUME NEW j \in writePos .. writePos' - 1
              PROVE  buf'[j] = j + 1
          <6>1. buf'[j] = logged' - writePos' + j + 1
            BY <4>3
          <6>2. logged' \in Int /\ writePos' \in Int
            BY <4>5
          <6>3. j \in Int
            BY <3>10, <6>2
          <6>4. logged' = writePos + n /\ writePos' = writePos + n
            BY <3>0, <4>1, <4>7 DEF BufIInv
          <6> QED BY <3>10, <6>1, <6>3, <6>4
        <5>4. \A j \in 0 .. writePos' - 1 : buf'[j] = j + 1
          BY <1>0, <4>1, <5>2, <5>3 DEF BufIInv
        <5> QED BY <3>4, <4>1, <4>5, <4>7, <5>1, <5>4 DEF BufIInv
      <4> QED BY <4>6, <4>7
    <3>6. CASE writePos + n >= Size
      <4>1. writePos' = writePos + n - Size /\ full'
        BY <1>0, <3>1, <3>6, <3>9 DEF BufIInv
      <4>2. \A j \in 0 .. writePos' - 1 : buf'[j] = logged' - writePos' + j + 1
        BY <1>0, <2>2, <3>0, <3>3, <3>6, <4>1 DEF BufIInv
      <4>3. \A j \in writePos' .. writePos - 1 : buf'[j] = buf[j]
        BY <1>0, <3>3, <3>6, <4>1 DEF BufIInv
      <4>4. \A j \in writePos .. Size - 1 : buf'[j] = logged + (j - writePos) + 1
        BY <1>0, <3>3, <3>6, <4>1 DEF BufIInv
      <4> HIDE DEF offset
      <4>5. logged' \in Nat /\ logged' >= Size /\ writePos' \in 0 .. Size - 1
        BY <1>0, <2>2, <3>0, <3>1, <3>6, <4>1 DEF BufIInv
      <4>6. \A j \in 0 .. writePos - 1 : buf[j] = logged - writePos + j + 1
        BY <1>0 DEF BufIInv
      <4>7. \A j \in writePos' .. Size - 1 : buf'[j] = logged' - Size - writePos' + j + 1
        BY <1>0, <2>2, <3>0, <3>6, <4>1, <4>3, <4>4, <4>6 DEF BufIInv
      <4> QED BY <3>4, <4>1, <4>2, <4>5, <4>7 DEF BufIInv
    <3> HIDE DEF offset
    <3> QED BY <1>0, <3>5, <3>6, <3>10
  <2> QED BY <1>0, <2>1, <2>2
<1>2. CASE UNCHANGED Feed!logVars
  BY <1>2 DEF Feed!logVars, BufIInv
<1> QED BY <1>1, <1>2 DEF Feed!Next, Feed!feedVars, Feed!Notify, Feed!Callback, Feed!Close,
        Feed!Connect, Feed!Handle, Feed!AddClient, Feed!BrowserGone, Feed!HubDone, Feed!Receive,
        Feed!HangUp

\* Read from the write position on, the buffer gives the last Size bytes of the log.
LEMMA TailKept == BufIInv => Feed!BufferIsTail
<1> SUFFICES ASSUME BufIInv
             PROVE  Feed!BufferIsTail
    OBVIOUS
<1>0. Size \in Nat /\ Size > 0
  BY RecordingAssumption DEF RecordingAssumption
<1>1. CASE full
  <2>1. ASSUME NEW k \in 1 .. Size
        PROVE  buf[(writePos + k - 1) % Size] = logged - Size + k
    <3>1. PICK x : x = writePos + k - 1
      OBVIOUS
    <3>2. x \in 0 .. 2 * Size - 1
      BY <1>0, <3>1 DEF BufIInv
    <3>3. x % Size = IF x < Size THEN x ELSE x - Size
      BY <3>2, OneTurn
    <3>4. CASE x < Size
      <4>1. x \in writePos .. Size - 1
        BY <1>0, <3>1, <3>4 DEF BufIInv
      <4>2. buf[x] = logged - Size - writePos + x + 1
        BY <1>1, <4>1 DEF BufIInv
      <4>3. x % Size = x
        BY <3>3, <3>4
      <4> QED BY <1>0, <3>1, <4>2, <4>3 DEF BufIInv
    <3>5. CASE ~(x < Size)
      <4>1. x - Size \in 0 .. writePos - 1
        BY <1>0, <3>1, <3>2, <3>5 DEF BufIInv
      <4>2. buf[x - Size] = logged - writePos + (x - Size) + 1
        BY <1>1, <4>1 DEF BufIInv
      <4>3. x % Size = x - Size
        BY <3>3, <3>5
      <4> QED BY <1>0, <3>1, <4>2, <4>3 DEF BufIInv
    <3> QED BY <3>4, <3>5
  <2>2. Feed!RingString = [k \in 1 .. Size |-> logged - Size + k]
    BY <1>1, <2>1 DEF Feed!RingString
  <2>3. (IF logged < Size THEN logged ELSE Size) = Size
    BY <1>0, <1>1 DEF BufIInv
  <2> QED BY <2>2, <2>3 DEF Feed!BufferIsTail
<1>2. CASE ~full
  <2>1. Feed!RingString = [k \in 1 .. writePos |-> buf[k - 1]]
    BY <1>2 DEF Feed!RingString
  <2>2. \A k \in 1 .. writePos : buf[k - 1] = k
    BY <1>0, <1>2 DEF BufIInv
  <2>3. (IF logged < Size THEN logged ELSE Size) = writePos /\ logged = writePos
    BY <1>0, <1>2 DEF BufIInv
  <2>4. \A k \in 1 .. writePos : logged - writePos + k = k
    BY <1>0, <2>3 DEF BufIInv
  <2> QED BY <2>1, <2>2, <2>3, <2>4 DEF Feed!BufferIsTail
<1> QED BY <1>1, <1>2
------------------------------------------------------------------------------
(* The probe *)

\* A client that the probe has let in.
LetInOnce == {"buffer", "forward", "done"}

\* One client is let in. Until it has the header that the probe kept, nothing is read from the
\* platform; from then on it has received all that was read.
ProbeIInv ==
    /\ position \in Nat /\ buffered \in Nat
    /\ client \in [Clients -> {"new", "refused"} \cup LetInOnce]
    /\ got \in [Clients -> Seq(Nat)]
    /\ \A c, d \in Clients : client[c] \in LetInOnce /\ client[d] \in LetInOnce => c = d
    /\ \A c \in Clients : client[c] \in LetInOnce => connected
    /\ phase \in {"new", "probing"} => ~connected
    /\ phase = "new" => position = 0 /\ buffered = 0
    /\ isFLV => \A c \in Clients : \A i \in 1 .. Len(got[c]) : got[c][i] = i
    /\ isFLV /\ upstream = "open" =>
        /\ ~connected => position = buffered
        /\ \A c \in Clients : client[c] = "buffer" => position = buffered
        /\ \A c \in Clients : client[c] = "forward" => Len(got[c]) = position

LEMMA ProbeStart == Pro!Init => ProbeIInv
<1> SUFFICES ASSUME Pro!Init
             PROVE  ProbeIInv
    OBVIOUS
<1>1. /\ client = [c \in Clients |-> "new"] /\ got = [c \in Clients |-> <<>>]
      /\ position = 0 /\ buffered = 0 /\ connected = FALSE
  BY DEF Pro!Init
<1>2. <<>> \in Seq(Nat) /\ Len(<<>>) = 0
  OBVIOUS
<1> QED BY <1>1, <1>2 DEF ProbeIInv, LetInOnce

LEMMA ProbeStep == ProbeIInv /\ [Pro!Next]_(Pro!probeVars) => ProbeIInv'
<1> SUFFICES ASSUME ProbeIInv, [Pro!Next]_(Pro!probeVars)
             PROVE  ProbeIInv'
    OBVIOUS
<1> USE DEF ProbeIInv, LetInOnce
<1>1. CASE Pro!ConnectUpstream
  BY <1>1 DEF Pro!ConnectUpstream
<1>2. ASSUME NEW t \in {"script", "video", "audio", "frame"}, Pro!ProbeTag(t)
      PROVE  ProbeIInv'
  BY <1>2 DEF Pro!ProbeTag
<1>3. CASE Pro!ProbeEnds
  BY <1>3 DEF Pro!ProbeEnds
<1>4. CASE Pro!UpstreamEnds \/ Pro!Stop \/ Pro!Cleanup
  BY <1>4 DEF Pro!UpstreamEnds, Pro!Stop, Pro!Cleanup
<1>5. ASSUME NEW c \in Clients, Pro!HandleStreamRequest(c)
      PROVE  ProbeIInv'
  BY <1>5 DEF Pro!HandleStreamRequest, Pro!CompareAndSwap
<1>6. ASSUME NEW c \in Clients, Pro!WriteBuffered(c)
      PROVE  ProbeIInv'
  <2> DEFINE kept == [i \in 1 .. buffered |-> i]
  <2>1. kept \in Seq(Nat) /\ Len(kept) = buffered /\ \A i \in 1 .. buffered : kept[i] = i
    OBVIOUS
  <2>2. /\ client[c] = "buffer" /\ got' = [got EXCEPT ![c] = kept]
        /\ client' = [client EXCEPT ![c] = "forward"]
        /\ UNCHANGED <<phase, position, buffered, isFLV, upstream, connected>>
    BY <1>6 DEF Pro!WriteBuffered
  <2> HIDE DEF kept
  <2>3. got' \in [Clients -> Seq(Nat)]
    BY <2>1, <2>2
  <2>4. \A d \in Clients : got'[d] = IF d = c THEN kept ELSE got[d]
    BY <2>2
  <2>5. \A d \in Clients : client'[d] = IF d = c THEN "forward" ELSE client[d]
    BY <2>2
  <2> QED BY <2>1, <2>2, <2>3, <2>4, <2>5
<1>7. ASSUME NEW c \in Clients, Pro!Forward(c)
      PROVE  ProbeIInv'
  <2>1. /\ client[c] = "forward" /\ upstream = "open" /\ position' = position + 1
        /\ got' = [got EXCEPT ![c] = Append(got[c], position')]
        /\ UNCHANGED <<phase, buffered, isFLV, upstream, connected, client>>
    BY <1>7 DEF Pro!Forward
  <2>2. PICK longer : longer = Append(got[c], position')
    OBVIOUS
  <2>3. /\ longer \in Seq(Nat) /\ Len(longer) = Len(got[c]) + 1
        /\ \A i \in 1 .. Len(got[c]) : longer[i] = got[c][i]
        /\ longer[Len(got[c]) + 1] = position'
    BY <2>1, <2>2
  <2>4. /\ got' \in [Clients -> Seq(Nat)]
        /\ \A d \in Clients : got'[d] = IF d = c THEN longer ELSE got[d]
    BY <2>1, <2>2, <2>3
  <2>5. ASSUME isFLV
        PROVE  Len(longer) = position' /\ \A i \in 1 .. Len(longer) : longer[i] = i
    <3>1. /\ Len(got[c]) = position /\ position \in Nat
          /\ \A i \in 1 .. Len(got[c]) : got[c][i] = i
      BY <2>1, <2>5
    <3>2. Len(longer) = position + 1 /\ longer[position + 1] = position + 1
          /\ \A i \in 1 .. position : longer[i] = i
      BY <2>1, <2>3, <3>1
    <3> QED BY <2>1, <3>1, <3>2
  <2> QED BY <2>1, <2>3, <2>4, <2>5
<1>8. ASSUME NEW c \in Clients, Pro!RequestEnds(c) \/ Pro!ClientLeaves(c)
      PROVE  ProbeIInv'
  <2>1. /\ client[c] \in LetInOnce /\ client' = [client EXCEPT ![c] = "done"]
        /\ UNCHANGED <<phase, position, buffered, isFLV, upstream, connected, got>>
    BY <1>8 DEF Pro!RequestEnds, Pro!ClientLeaves
  <2>2. \A d \in Clients : client'[d] = IF d = c THEN "done" ELSE client[d]
    BY <2>1
  <2> QED BY <2>1, <2>2
<1>9. CASE UNCHANGED Pro!probeVars
  BY <1>9 DEF Pro!probeVars
<1> QED BY <1>1, <1>2, <1>3, <1>4, <1>5, <1>6, <1>7, <1>8, <1>9 DEF Pro!Next, Pro!Serve

------------------------------------------------------------------------------
(* Counting: proofs over data of any length rest on the least number of which they fail *)

\* A set of numbers has a least one.
LEMMA LeastNumber ==
    ASSUME NEW T \in SUBSET Nat, T # {}
    PROVE  \E x \in T : \A y \in T : x <= y
<1>1. PICK x \in T : \A y \in T : ~(<<y, x>> \in OpToRel(<, Nat))
  BY WFMin, NatLessThanWellFounded, Zenon
<1>2. \A y \in T : ~(y < x)
  BY <1>1 DEF OpToRel
<1> QED BY <1>2

\* What holds of 0, and of every number if of the one before it, holds of all.
LEMMA CountingUp ==
    ASSUME NEW N \in Nat, NEW S, 0 \in S, \A n \in 1..N : n - 1 \in S => n \in S
    PROVE  \A n \in 0..N : n \in S
<1> SUFFICES ASSUME (0..N) \ S # {}
             PROVE  FALSE
    OBVIOUS
<1>1. PICK x \in (0..N) \ S : \A y \in (0..N) \ S : x <= y
  <2>1. (0..N) \ S \in SUBSET Nat
    OBVIOUS
  <2> QED BY <2>1, LeastNumber
<1>2. x \in 1..N /\ x - 1 \in 0..N /\ ~(x <= x - 1)
  BY <1>1
<1>3. x - 1 \in S
  BY <1>1, <1>2
<1> QED BY <1>1, <1>2, <1>3

\* f is what the first N steps make of base.
Follows(f, N, base, step) == f[0] = base /\ \A n \in 1..N : f[n] = step[<<f[n - 1], n>>]

\* A function defined by recursion over what is read exists, and has the type of its steps.
LEMMA RecursionExists ==
    \A N \in Nat : \A T : \A base \in T, step \in [T \X (1..N) -> T] :
        \E f \in [0..N -> T] : Follows(f, N, base, step)
<1> TAKE N \in Nat
<1> TAKE T
<1> TAKE base \in T, step \in [T \X (1..N) -> T]
<1> DEFINE S == {n \in 0..N : \E f \in [0..n -> T] :
                    f[0] = base /\ \A i \in 1..n : f[i] = step[<<f[i - 1], i>>]}
<1>1. 0 \in S
  <2> DEFINE f == [i \in 0..0 |-> base]
  <2>1. f \in [0..0 -> T] /\ f[0] = base /\ 1..0 = {} /\ 0 \in 0..N
    OBVIOUS
  <2> HIDE DEF f
  <2> QED BY <2>1
<1>2. ASSUME NEW n \in 1..N, n - 1 \in S
      PROVE  n \in S
  <2>1. PICK f \in [0..n - 1 -> T] :
            f[0] = base /\ \A i \in 1..n - 1 : f[i] = step[<<f[i - 1], i>>]
    BY <1>2
  <2>2. step[<<f[n - 1], n>>] \in T
    BY <2>1
  <2> DEFINE g == [i \in 0..n |-> IF i = n THEN step[<<f[n - 1], n>>] ELSE f[i]]
  <2>3. g \in [0..n -> T] /\ g[0] = base
    BY <2>1, <2>2
  <2>4. \A i \in 0..n - 1 : g[i] = f[i]
    OBVIOUS
  <2>5. \A i \in 1..n : g[i] = step[<<g[i - 1], i>>]
    <3> TAKE i \in 1..n
    <3>1. g[i - 1] = f[i - 1]
      BY <2>4
    <3>2. CASE i = n
      BY <3>1, <3>2
    <3>3. CASE i # n
      <4>1. i \in 1..n - 1
        BY <3>3
      <4> QED BY <2>1, <2>4, <3>1, <4>1
    <3> QED BY <3>2, <3>3
  <2> HIDE DEF g
  <2>6. n \in 0..N
    OBVIOUS
  <2> QED BY <2>3, <2>5, <2>6
<1>3. N \in S
  <2> HIDE DEF S
  <2> QED BY <1>1, <1>2, CountingUp
<1> QED BY <1>3 DEF Follows

------------------------------------------------------------------------------
(* What the probe makes of a playlist and of a segment *)

\* The rewriting of a playlist is what its lines do one after the other (RewritePlaylist).
LEMMA RewritingSteps ==
    ASSUME NEW content \in Seq(Pro!Lines)
    PROVE  \E r \in [0..Len(content) -> [output : Seq(Nat), pending : Seq(Nat)]] :
                /\ r[0] = [output |-> <<>>, pending |-> <<>>]
                /\ \A n \in 1..Len(content) : r[n] = Pro!Reading(r[n - 1], content[n], n)
                /\ Pro!Rewriting(content) = r[Len(content)]
<1> DEFINE N == Len(content)
           T == [output : Seq(Nat), pending : Seq(Nat)]
           base == [output |-> <<>>, pending |-> <<>>]
           step == [x \in T \X (1..N) |-> Pro!Reading(x[1], content[x[2]], x[2])]
           Eqn(r) == r = [n \in 0..N |-> IF n = 0 THEN base
                                         ELSE Pro!Reading(r[n - 1], content[n], n)]
<1>1. N \in Nat /\ base \in T
  OBVIOUS
<1>2. \A old \in T, n \in Nat : \A line : Pro!Reading(old, line, n) \in T
  <2> TAKE old \in T, n \in Nat
  <2> TAKE line
  <2>1. old.output \in Seq(Nat) /\ old.pending \in Seq(Nat)
    OBVIOUS
  <2>2. /\ Append(old.pending, n) \in Seq(Nat) /\ <<>> \in Seq(Nat)
        /\ Append(old.output \o old.pending, n) \in Seq(Nat)
    BY <2>1
  <2>3. \A p \in Seq(Nat) : [old EXCEPT !.pending = p] \in T
    BY <2>1
  <2> HIDE DEF T
  <2>4. \A p \in Seq(Nat), o \in Seq(Nat) : [output |-> o, pending |-> p] \in T
    BY DEF T
  <2> QED BY <2>2, <2>3, <2>4, Zenon DEF Pro!Reading, Pro!DropPending
<1>3. step \in [T \X (1..N) -> T]
  <2>1. ASSUME NEW x \in T \X (1..N)
        PROVE  Pro!Reading(x[1], content[x[2]], x[2]) \in T
    <3>1. x[1] \in T /\ x[2] \in Nat
      BY <1>1, <2>1
    <3> HIDE DEF T
    <3> QED BY <1>2, <3>1, Zenon
  <2> HIDE DEF T, N
  <2> QED BY <2>1, Zenon DEF step
<1>4. \A x \in T, n \in 1..N : step[<<x, n>>] = Pro!Reading(x, content[n], n)
  OBVIOUS
<1>5. \E r : Eqn(r) /\ r \in [0..N -> T]
  <2> HIDE DEF step, base, T, N
  <2>0. PICK f \in [0..N -> T] : Follows(f, N, base, step)
    BY <1>1, <1>3, RecursionExists, Zenon
  <2>1. f[0] = base /\ \A n \in 1..N : f[n] = step[<<f[n - 1], n>>]
    BY <2>0 DEF Follows
  <2>2. \A n \in 1..N : n - 1 \in 0..N /\ f[n - 1] \in T
    BY <1>1, <2>1
  <2>3. \A n \in 1..N : f[n] = Pro!Reading(f[n - 1], content[n], n)
    BY <1>4, <2>1, <2>2
  <2>4. f = [n \in 0..N |-> IF n = 0 THEN base ELSE Pro!Reading(f[n - 1], content[n], n)]
    BY <1>1, <2>1, <2>3
  <2> QED BY <2>1, <2>4
<1> DEFINE q == CHOOSE r : Eqn(r)
<1>6. Eqn(q)
  BY <1>5, Zenon
<1>7. Pro!Rewriting(content) = q[N]
  BY Zenon DEF Pro!Rewriting
<1>8. /\ q[0] = base /\ q = [n \in 0..N |-> q[n]]
      /\ \A n \in 1..N : q[n] = Pro!Reading(q[n - 1], content[n], n)
  <2> HIDE DEF q, base, N
  <2>1. q = [n \in 0..N |-> IF n = 0 THEN base ELSE Pro!Reading(q[n - 1], content[n], n)]
    BY <1>6
  <2>2. \A n \in 0..N : q[n] = IF n = 0 THEN base ELSE Pro!Reading(q[n - 1], content[n], n)
    BY <2>1, Zenon
  <2>3. q = [n \in 0..N |-> q[n]]
    BY <2>1, <2>2, Zenon
  <2>4. 0 \in 0..N /\ \A n \in 1..N : n \in 0..N /\ n # 0
    BY <1>1
  <2> QED BY <2>2, <2>3, <2>4, Zenon
<1>9. \A n \in 0..N : n \in {k \in 0..N : q[k] \in T}
  <2> DEFINE S == {k \in 0..N : q[k] \in T}
  <2> HIDE DEF q, base, N, T
  <2>1. 0 \in S
    BY <1>1, <1>8
  <2>2. ASSUME NEW n \in 1..N, n - 1 \in S
        PROVE  n \in S
    <3>1. n \in 0..N /\ n \in Nat /\ q[n - 1] \in T
      BY <1>1, <2>2
    <3>2. q[n] \in T
      BY <1>2, <1>8, <3>1, Zenon
    <3> QED BY <3>1, <3>2
  <2> HIDE DEF S
  <2>3. \A n \in 0..N : n \in S
    BY <1>1, <2>1, <2>2, CountingUp
  <2> QED BY <2>3 DEF S
<1>10. q \in [0..N -> T]
  <2> HIDE DEF q, base, N, T
  <2> QED BY <1>8, <1>9
<1> HIDE DEF q
<1> QED BY <1>7, <1>8, <1>10

\* Line i waits for its segment after line n: only tags of segments have come since.
Waits(content, n, i) == \A j \in i..n : content[j] = "extinf"

\* Line i belongs to a preloading segment that has come by line n.
Dropped(content, n, i) ==
    \E m \in i..n : content[m] = "preload" /\ \A j \in i..m - 1 : content[j] = "extinf"

Numbers(s) == {s[i] : i \in 1..Len(s)}

Ascending(s) == \A i \in 1..Len(s) - 1 : s[i] < s[i + 1]

\* After n lines: what is kept, in order, is what has not been dropped, and the lines that wait
\* come last.
ReadWell(content, n, r) ==
    /\ Ascending(r.output \o r.pending)
    /\ Numbers(r.output) = {i \in 1..n : ~Dropped(content, n, i) /\ ~Waits(content, n, i)}
    /\ Numbers(r.pending) = {i \in 1..n : Waits(content, n, i)}

\* A line that waits has not been dropped; what one more line changes of both.
LEMMA OneMoreLine ==
    ASSUME NEW content \in Seq(Pro!Lines), NEW n \in 1..Len(content), NEW i \in 1..n
    PROVE  /\ Waits(content, n, i) <=> content[n] = "extinf" /\ (i = n \/ Waits(content, n - 1, i))
           /\ Dropped(content, n, i) <=>
                \/ (i < n /\ Dropped(content, n - 1, i))
                \/ content[n] = "preload" /\ (i = n \/ Waits(content, n - 1, i))
           /\ Waits(content, n, i) => ~Dropped(content, n, i)
<1>1. n \in Nat /\ i \in Nat /\ i <= n
  OBVIOUS
<1>2. i..n = (i..n - 1) \cup {n}
  BY <1>1
<1>3. Waits(content, n, i) <=> content[n] = "extinf" /\ (i = n \/ Waits(content, n - 1, i))
  BY <1>1, <1>2 DEF Waits
<1>4. Waits(content, n - 1, i) <=> \A j \in i..n - 1 : content[j] = "extinf"
  BY DEF Waits
<1>5. ASSUME Dropped(content, n, i), content[n] # "preload" \/ ~Waits(content, n - 1, i)
      PROVE  i < n /\ Dropped(content, n - 1, i)
  <2>1. PICK m \in i..n :
            content[m] = "preload" /\ \A j \in i..m - 1 : content[j] = "extinf"
    BY <1>5 DEF Dropped
  <2>2. m # n
    BY <1>4, <1>5, <2>1
  <2>3. m \in i..n - 1 /\ i < n
    BY <1>1, <2>1, <2>2
  <2> QED BY <1>1, <2>1, <2>3 DEF Dropped
<1>6. ASSUME i < n, Dropped(content, n - 1, i)
      PROVE  Dropped(content, n, i)
  BY <1>2, <1>6 DEF Dropped
<1>7. ASSUME content[n] = "preload", i = n \/ Waits(content, n - 1, i)
      PROVE  Dropped(content, n, i)
  <2>1. n \in i..n /\ \A j \in i..n - 1 : content[j] = "extinf"
    BY <1>1, <1>4, <1>7
  <2> QED BY <1>7, <2>1 DEF Dropped
<1>8. Waits(content, n, i) => ~Dropped(content, n, i)
  BY DEF Waits, Dropped
<1> QED BY <1>3, <1>5, <1>6, <1>7, <1>8

\* A number more at the end of a sequence.
LEMMA Appended ==
    ASSUME NEW s \in Seq(Nat), NEW x \in Nat
    PROVE  /\ Append(s, x) \in Seq(Nat) /\ Numbers(Append(s, x)) = Numbers(s) \cup {x}
           /\ Ascending(s) /\ (\A y \in Numbers(s) : y < x) => Ascending(Append(s, x))
<1>1. Append(s, x) \in Seq(Nat) /\ Len(Append(s, x)) = Len(s) + 1 /\ Len(s) \in Nat
  OBVIOUS
<1>2. /\ Append(s, x)[Len(s) + 1] = x
      /\ \A i \in 1..Len(s) : Append(s, x)[i] = s[i]
  OBVIOUS
<1>3. Numbers(Append(s, x)) = Numbers(s) \cup {x}
  BY <1>1, <1>2 DEF Numbers
<1>4. ASSUME Ascending(s), \A y \in Numbers(s) : y < x, NEW i \in 1..Len(s)
      PROVE  Append(s, x)[i] < Append(s, x)[i + 1]
  <2>1. CASE i = Len(s)
    BY <1>1, <1>2, <1>4, <2>1 DEF Numbers
  <2>2. CASE i # Len(s)
    <3>1. i \in 1..Len(s) - 1 /\ i + 1 \in 1..Len(s)
      BY <1>1, <2>2
    <3> QED BY <1>2, <1>4, <3>1 DEF Ascending
  <2> QED BY <2>1, <2>2
<1>5. Ascending(s) /\ (\A y \in Numbers(s) : y < x) => Ascending(Append(s, x))
  BY <1>1, <1>4 DEF Ascending
<1> QED BY <1>1, <1>3, <1>5

\* Two sequences one after the other.
LEMMA Joined ==
    ASSUME NEW s \in Seq(Nat), NEW t \in Seq(Nat)
    PROVE  /\ s \o t \in Seq(Nat) /\ Numbers(s \o t) = Numbers(s) \cup Numbers(t)
           /\ Ascending(s \o t) => Ascending(s)
           /\ s \o <<>> = s /\ \A x \in Nat : s \o Append(t, x) = Append(s \o t, x)
<1>1. /\ s \o t \in Seq(Nat) /\ Len(s \o t) = Len(s) + Len(t) /\ Len(s) \in Nat /\ Len(t) \in Nat
      /\ \A i \in 1..Len(s) : (s \o t)[i] = s[i]
      /\ \A i \in 1..Len(t) : (s \o t)[Len(s) + i] = t[i]
  OBVIOUS
<1>2. \A i \in 1..Len(s \o t) :
        i \in 1..Len(s) \/ (i - Len(s) \in 1..Len(t) /\ (s \o t)[i] = t[i - Len(s)])
  <2> TAKE i \in 1..Len(s \o t)
  <2> SUFFICES ASSUME i \notin 1..Len(s)
               PROVE  i - Len(s) \in 1..Len(t) /\ (s \o t)[i] = t[i - Len(s)]
      OBVIOUS
  <2>1. i - Len(s) \in 1..Len(t) /\ Len(s) + (i - Len(s)) = i
    BY <1>1
  <2> QED BY <1>1, <2>1
<1>3. Numbers(s \o t) \subseteq Numbers(s) \cup Numbers(t)
  BY <1>1, <1>2 DEF Numbers
<1>4. \A i \in 1..Len(s) : i \in 1..Len(s \o t)
  BY <1>1
<1>5. \A i \in 1..Len(t) : Len(s) + i \in 1..Len(s \o t)
  BY <1>1
<1>6. Numbers(s) \cup Numbers(t) \subseteq Numbers(s \o t)
  BY <1>1, <1>4, <1>5 DEF Numbers
<1>7. ASSUME Ascending(s \o t)
      PROVE  Ascending(s)
  <2>1. \A i \in 1..Len(s) - 1 :
          i \in 1..Len(s \o t) - 1 /\ i \in 1..Len(s) /\ i + 1 \in 1..Len(s)
    BY <1>1
  <2> QED BY <1>1, <1>7, <2>1 DEF Ascending
<1>8. s \o <<>> = s
  OBVIOUS
<1>9. \A x \in Nat : s \o Append(t, x) = Append(s \o t, x)
  OBVIOUS
<1> QED BY <1>1, <1>3, <1>6, <1>7, <1>8, <1>9

\* A line more is read well.
LEMMA OneMoreRead ==
    ASSUME NEW content \in Seq(Pro!Lines), NEW n \in 1..Len(content),
           NEW r \in [output : Seq(Nat), pending : Seq(Nat)], ReadWell(content, n - 1, r)
    PROVE  ReadWell(content, n, Pro!Reading(r, content[n], n))
<1> DEFINE out == r.output
           pend == r.pending
           line == content[n]
           new == Pro!Reading(r, line, n)
<1>1. out \in Seq(Nat) /\ pend \in Seq(Nat) /\ n \in Nat /\ n - 1 \in Nat
  OBVIOUS
<1>2. /\ Ascending(out \o pend)
      /\ Numbers(out) = {i \in 1..n - 1 : ~Dropped(content, n - 1, i) /\ ~Waits(content, n - 1, i)}
      /\ Numbers(pend) = {i \in 1..n - 1 : Waits(content, n - 1, i)}
  BY DEF ReadWell
<1>3. /\ \A y \in Numbers(out \o pend) : y < n
      /\ out \o pend \in Seq(Nat) /\ Numbers(out \o pend) = Numbers(out) \cup Numbers(pend)
      /\ out \o Append(pend, n) = Append(out \o pend, n)
  <2>1. /\ out \o pend \in Seq(Nat) /\ Numbers(out \o pend) = Numbers(out) \cup Numbers(pend)
        /\ out \o Append(pend, n) = Append(out \o pend, n)
    <3> HIDE DEF out, pend
    <3> QED BY <1>1, Joined
  <2>2. \A y \in Numbers(out) \cup Numbers(pend) : y < n
    BY <1>1, <1>2
  <2> QED BY <2>1, <2>2
<1>4. \A i \in 1..n - 1 : i \in 1..n /\ i < n
  BY <1>1
<1>5. n \in 1..n /\ n \notin 1..n - 1 /\ \A i \in 1..n : i = n \/ i \in 1..n - 1
  BY <1>1
<1>6. \A i \in 1..n - 1 : Waits(content, n - 1, i) => ~Dropped(content, n - 1, i)
  BY DEF Waits, Dropped
<1>7. \A i \in 1..n :
        /\ Waits(content, n, i) <=> line = "extinf" /\ (i = n \/ Waits(content, n - 1, i))
        /\ Dropped(content, n, i) <=>
                \/ (i < n /\ Dropped(content, n - 1, i))
                \/ (line = "preload" /\ (i = n \/ Waits(content, n - 1, i)))
  BY OneMoreLine
<1>8. CASE line = "extinf"
  <2>1. new.output = out /\ new.pending = Append(pend, n)
    BY <1>8 DEF Pro!Reading
  <2>2. Ascending(Append(out \o pend, n)) /\ Numbers(Append(pend, n)) = Numbers(pend) \cup {n}
    <3> HIDE DEF out, pend
    <3> QED BY <1>1, <1>2, <1>3, Appended
  <2>3. Ascending(new.output \o new.pending)
    BY <1>3, <2>1, <2>2
  <2>4. Numbers(new.output) = {i \in 1..n : ~Dropped(content, n, i) /\ ~Waits(content, n, i)}
    BY <1>2, <1>4, <1>5, <1>7, <1>8, <2>1
  <2>5. Numbers(new.pending) = {i \in 1..n : Waits(content, n, i)}
    BY <1>2, <1>4, <1>5, <1>7, <1>8, <2>1, <2>2
  <2> QED BY <2>3, <2>4, <2>5 DEF ReadWell
<1>9. CASE line = "preload"
  <2>1. new.output = out /\ new.pending = <<>>
    BY <1>9 DEF Pro!Reading, Pro!DropPending
  <2>2. Ascending(new.output \o new.pending)
    BY <1>1, <1>2, <2>1, Joined
  <2>3. Numbers(new.output) = {i \in 1..n : ~Dropped(content, n, i) /\ ~Waits(content, n, i)}
    BY <1>2, <1>4, <1>5, <1>7, <1>9, <2>1
  <2>4. Numbers(new.pending) = {i \in 1..n : Waits(content, n, i)}
    <3>1. Numbers(<<>>) = {}
      BY DEF Numbers
    <3> QED BY <1>7, <1>9, <2>1, <3>1
  <2> QED BY <2>2, <2>3, <2>4 DEF ReadWell
<1>10. CASE line # "extinf" /\ line # "preload"
  <2>1. new.output = Append(out \o pend, n) /\ new.pending = <<>>
    BY <1>10 DEF Pro!Reading
  <2>2. /\ Ascending(Append(out \o pend, n)) /\ Append(out \o pend, n) \in Seq(Nat)
        /\ Numbers(Append(out \o pend, n)) = Numbers(out) \cup Numbers(pend) \cup {n}
    <3> HIDE DEF out, pend
    <3> QED BY <1>1, <1>2, <1>3, Appended
  <2>3. Ascending(new.output \o new.pending)
    BY <2>1, <2>2, Joined
  <2>4. Numbers(new.output) = {i \in 1..n : ~Dropped(content, n, i) /\ ~Waits(content, n, i)}
    BY <1>2, <1>4, <1>5, <1>6, <1>7, <1>10, <2>1, <2>2
  <2>5. Numbers(new.pending) = {i \in 1..n : Waits(content, n, i)}
    <3>1. Numbers(<<>>) = {}
      BY DEF Numbers
    <3> QED BY <1>7, <1>10, <2>1, <3>1
  <2> QED BY <2>3, <2>4, <2>5 DEF ReadWell
<1> QED BY <1>8, <1>9, <1>10

\* A rewritten playlist has lost the preloading segments with their tags, and nothing else.
LEMMA RewrittenIsFiltered == lines \in Seq(Pro!Lines) => Pro!RewriteIsFilter
<1> SUFFICES ASSUME lines \in Seq(Pro!Lines)
             PROVE  Pro!RewriteIsFilter
    OBVIOUS
<1> DEFINE N == Len(lines)
           T == [output : Seq(Nat), pending : Seq(Nat)]
<1>1. N \in Nat
  OBVIOUS
<1>2. PICK r \in [0..N -> T] :
        /\ r[0] = [output |-> <<>>, pending |-> <<>>]
        /\ \A n \in 1..N : r[n] = Pro!Reading(r[n - 1], lines[n], n)
        /\ Pro!Rewriting(lines) = r[N]
  BY RewritingSteps
<1> DEFINE S == {n \in 0..N : ReadWell(lines, n, r[n])}
<1>3. 0 \in S
  <2>1. Numbers(<<>>) = {} /\ Ascending(<<>> \o <<>>)
    BY DEF Numbers, Ascending
  <2>2. ReadWell(lines, 0, r[0])
    <3>1. r[0].output = <<>> /\ r[0].pending = <<>> /\ 1..0 = {}
      BY <1>2
    <3> QED BY <2>1, <3>1 DEF ReadWell
  <2> QED BY <1>1, <2>2
<1>4. ASSUME NEW n \in 1..N, n - 1 \in S
      PROVE  n \in S
  <2>1. n \in 0..N /\ n - 1 \in 0..N /\ r[n - 1] \in T /\ ReadWell(lines, n - 1, r[n - 1])
    BY <1>1, <1>2, <1>4
  <2>2. ReadWell(lines, n, Pro!Reading(r[n - 1], lines[n], n))
    <3> HIDE DEF S
    <3> QED BY <2>1, OneMoreRead
  <2> QED BY <1>2, <2>1, <2>2
<1>5. ReadWell(lines, N, r[N]) /\ r[N] \in T
  <2> HIDE DEF S, N
  <2>1. \A n \in 0..N : n \in S
    BY <1>1, <1>3, <1>4, CountingUp
  <2>2. N \in 0..N
    BY <1>1
  <2> QED BY <1>2, <2>1, <2>2 DEF S
<1> DEFINE kept == Pro!RewritePlaylist(lines)
           out == r[N].output
           pend == r[N].pending
<1>6. kept = out \o pend
  BY <1>2 DEF Pro!RewritePlaylist
<1>7. out \in Seq(Nat) /\ pend \in Seq(Nat)
  BY <1>5
<1>8. Numbers(kept) = Numbers(out) \cup Numbers(pend) /\ Ascending(kept)
  <2> HIDE DEF out, pend, kept
  <2>1. Ascending(out \o pend)
    BY <1>5 DEF ReadWell, out, pend
  <2> QED BY <1>6, <1>7, <2>1, Joined
<1>9. Numbers(kept) = {n \in 1..N : ~Dropped(lines, N, n)}
  <2>1. \A n \in 1..N : Waits(lines, N, n) => ~Dropped(lines, N, n)
    BY DEF Waits, Dropped
  <2> HIDE DEF kept
  <2> QED BY <1>5, <1>8, <2>1 DEF ReadWell
<1> HIDE DEF kept
<1> QED BY <1>8, <1>9 DEF Pro!RewriteIsFilter, Numbers, Ascending, Dropped, kept

TableStates == {"none", "pat", "pmt"}

\* The state of the tables after n packets.
TableAt(data, before, n) == IF n \in Pro!Synced(data) THEN Pro!Table(before, data[n]) ELSE before

\* The first pass over a segment is what its packets do one after the other (parseTSData).
LEMMA TablesSteps ==
    ASSUME NEW data \in Seq(Pro!Packets)
    PROVE  \E p \in [0..Len(data) -> TableStates] :
                /\ p[0] = "none" /\ Pro!Tables(data) = p[Len(data)]
                /\ \A n \in 1..Len(data) : p[n] = TableAt(data, p[n - 1], n)
<1> DEFINE N == Len(data)
           step == [x \in TableStates \X (1..N) |-> TableAt(data, x[1], x[2])]
           Eqn(p) == p = [n \in 0..N |-> IF n = 0 THEN "none"
                                         ELSE IF n \in Pro!Synced(data)
                                              THEN Pro!Table(p[n - 1], data[n])
                                              ELSE p[n - 1]]
<1>1. N \in Nat /\ "none" \in TableStates
  BY DEF TableStates
<1>2. \A old \in TableStates : \A n : TableAt(data, old, n) \in TableStates
  BY DEF TableAt, Pro!Table, TableStates
<1>3. step \in [TableStates \X (1..N) -> TableStates]
  BY <1>2
<1>4. \A x \in TableStates, n \in 1..N : step[<<x, n>>] = TableAt(data, x, n)
  OBVIOUS
<1>5. \E p : Eqn(p)
  <2> HIDE DEF step, N
  <2>1. PICK f \in [0..N -> TableStates] : Follows(f, N, "none", step)
    BY <1>1, <1>3, RecursionExists, Zenon
  <2>2. f[0] = "none" /\ \A n \in 1..N : f[n] = step[<<f[n - 1], n>>]
    BY <2>1 DEF Follows
  <2>3. \A n \in 1..N : n - 1 \in 0..N /\ f[n - 1] \in TableStates
    BY <1>1, <2>1
  <2>4. \A n \in 1..N : f[n] = TableAt(data, f[n - 1], n)
    BY <1>4, <2>2, <2>3
  <2>5. f = [n \in 0..N |-> IF n = 0 THEN "none" ELSE TableAt(data, f[n - 1], n)]
    BY <1>1, <2>2, <2>4
  <2> QED BY <2>5, Zenon DEF TableAt
<1> DEFINE q == CHOOSE p : Eqn(p)
<1>6. Eqn(q)
  BY <1>5, Zenon
<1>7. Pro!Tables(data) = q[N]
  BY Zenon DEF Pro!Tables
<1>8. /\ q[0] = "none" /\ q = [n \in 0..N |-> q[n]]
      /\ \A n \in 1..N : q[n] = TableAt(data, q[n - 1], n)
  <2> HIDE DEF q, N
  <2>1. q = [n \in 0..N |-> IF n = 0 THEN "none" ELSE TableAt(data, q[n - 1], n)]
    BY <1>6, Zenon DEF TableAt
  <2>2. \A n \in 0..N : q[n] = IF n = 0 THEN "none" ELSE TableAt(data, q[n - 1], n)
    BY <2>1, Zenon
  <2>3. q = [n \in 0..N |-> q[n]]
    BY <2>1, <2>2, Zenon
  <2>4. 0 \in 0..N /\ \A n \in 1..N : n \in 0..N /\ n # 0
    BY <1>1
  <2> QED BY <2>2, <2>3, <2>4, Zenon
<1> DEFINE S == {k \in 0..N : q[k] \in TableStates}
<1>9. \A n \in 0..N : n \in S
  <2> HIDE DEF q, N
  <2>1. 0 \in S
    BY <1>1, <1>8
  <2>2. ASSUME NEW n \in 1..N, n - 1 \in S
        PROVE  n \in S
    <3>1. n \in 0..N /\ q[n - 1] \in TableStates
      BY <1>1, <2>2
    <3>2. q[n] \in TableStates
      BY <1>2, <1>8, <3>1, Zenon
    <3> QED BY <3>1, <3>2
  <2> HIDE DEF S
  <2> QED BY <1>1, <2>1, <2>2, CountingUp
<1>10. q \in [0..N -> TableStates]
  <2> HIDE DEF q, N
  <2> QED BY <1>8, <1>9
<1> HIDE DEF q
<1> QED BY <1>7, <1>8, <1>10

\* Both tables have been read in order by packet n; an association table has.
Both(data, n) ==
    \E i, j \in Pro!Synced(data) : i < j /\ j <= n /\ data[i] = "pat" /\ data[j] = "pmt"
Associated(data, n) == \E i \in Pro!Synced(data) : i <= n /\ data[i] = "pat"

TablesSeen(data, n, t) == (t = "none" <=> ~Associated(data, n)) /\ (t = "pmt" <=> Both(data, n))

LEMMA OneMorePacket ==
    ASSUME NEW data \in Seq(Pro!Packets), NEW n \in 1..Len(data), NEW t \in TableStates,
           TablesSeen(data, n - 1, t)
    PROVE  TablesSeen(data, n, TableAt(data, t, n))
<1>1. /\ \A i \in Pro!Synced(data) : i \in Int /\ (i <= n <=> i <= n - 1 \/ i = n)
      /\ \A i \in Pro!Synced(data) : i < n <=> i <= n - 1
  BY DEF Pro!Synced
<1>2. Associated(data, n) <=>
        Associated(data, n - 1) \/ (n \in Pro!Synced(data) /\ data[n] = "pat")
  BY <1>1 DEF Associated
<1>3. Both(data, n) <=>
        Both(data, n - 1)
        \/ (n \in Pro!Synced(data) /\ data[n] = "pmt" /\ Associated(data, n - 1))
  BY <1>1 DEF Both, Associated
<1>4. Both(data, n - 1) => Associated(data, n - 1)
  BY <1>1 DEF Both, Associated
<1>5. t = "none" \/ t = "pat" \/ t = "pmt"
  BY DEF TableStates
<1> QED BY <1>2, <1>3, <1>4, <1>5 DEF TablesSeen, TableAt, Pro!Table

\* The resolution is found exactly when the tables come in order and the video tells it.
LEMMA ResolutionIsFound == packets \in Seq(Pro!Packets) => Pro!ResolutionFound
<1> SUFFICES ASSUME packets \in Seq(Pro!Packets)
             PROVE  Pro!ResolutionFound
    OBVIOUS
<1> DEFINE N == Len(packets)
<1>1. N \in Nat
  OBVIOUS
<1>2. PICK p \in [0..N -> TableStates] :
        /\ p[0] = "none" /\ Pro!Tables(packets) = p[N]
        /\ \A n \in 1..N : p[n] = TableAt(packets, p[n - 1], n)
  BY TablesSteps
<1> DEFINE S == {n \in 0..N : TablesSeen(packets, n, p[n])}
<1>3. 0 \in S
  <2>1. \A i \in Pro!Synced(packets) : i \in Int /\ ~(i <= 0)
    BY DEF Pro!Synced
  <2> QED BY <1>1, <1>2, <2>1 DEF TablesSeen, Associated, Both
<1>4. ASSUME NEW n \in 1..N, n - 1 \in S
      PROVE  n \in S
  <2>1. /\ n \in 0..N /\ n - 1 \in 0..N /\ p[n - 1] \in TableStates
        /\ TablesSeen(packets, n - 1, p[n - 1])
    BY <1>1, <1>2, <1>4
  <2>2. TablesSeen(packets, n, TableAt(packets, p[n - 1], n))
    <3> HIDE DEF S
    <3> QED BY <2>1, OneMorePacket
  <2> QED BY <1>2, <2>1, <2>2
<1>5. TablesSeen(packets, N, p[N]) /\ p[N] \in TableStates
  <2> HIDE DEF S, N
  <2>1. \A n \in 0..N : n \in S
    BY <1>1, <1>3, <1>4, CountingUp
  <2>2. N \in 0..N
    BY <1>1
  <2> QED BY <1>2, <2>1, <2>2 DEF S
<1>6. Both(packets, N) <=> \E i, j \in Pro!Synced(packets) :
                                i < j /\ packets[i] = "pat" /\ packets[j] = "pmt"
  BY DEF Both, Pro!Synced
<1>7. Pro!ParseTSData(packets) = "resolution" <=>
        p[N] = "pmt" /\ \E k \in Pro!Synced(packets) : packets[k] = "sps"
  BY <1>2, <1>5 DEF Pro!ParseTSData, TableStates
<1> QED BY <1>5, <1>6, <1>7 DEF TablesSeen, Pro!ResolutionFound

MediaIInv == lines \in Seq(Pro!Lines) /\ packets \in Seq(Pro!Packets)

LEMMA MediaStart == Pro!Init => MediaIInv
<1>1. \A T, n : Pro!UpTo(T, n) \subseteq Seq(T)
  BY DEF Pro!UpTo
<1>2. <<>> \in Seq(Pro!Lines) /\ <<>> \in Seq(Pro!Packets)
  OBVIOUS
<1> QED BY <1>1, <1>2 DEF Pro!Init, MediaIInv

LEMMA MediaStep == MediaIInv /\ [Pro!Next]_(Pro!probeVars) => MediaIInv'
<1>1. [Pro!Next]_(Pro!probeVars) => UNCHANGED <<lines, packets>>
  BY DEF Pro!Next, Pro!Serve, Pro!ConnectUpstream, Pro!ProbeTag, Pro!ProbeEnds, Pro!UpstreamEnds,
         Pro!Stop, Pro!Cleanup, Pro!HandleStreamRequest, Pro!WriteBuffered, Pro!Forward,
         Pro!RequestEnds, Pro!ClientLeaves, Pro!media, Pro!probeVars
<1> QED BY <1>1 DEF MediaIInv

------------------------------------------------------------------------------
(* The subtitle writer *)

LaneTypes == laneLast \in [Dan!LaneIds -> Nat] /\ nextLane \in Dan!LaneIds

\* assignLane gives a free lane when there is one, and else the one that is free first.
LEMMA LaneAssigned ==
    ASSUME LaneTypes
    PROVE  /\ Dan!AssignLane \in Dan!LaneIds
           /\ Dan!FreeLanes # {} => Dan!AssignLane \in Dan!FreeLanes
           /\ Dan!FreeLanes = {} =>
                \A m \in Dan!LaneIds : laneLast[Dan!AssignLane] <= laneLast[m]
<1>0. Lanes \in Nat /\ Lanes > 0
  BY RecordingAssumption DEF RecordingAssumption
<1>1. CASE Dan!FreeLanes # {}
  <2>1. \A l \in Dan!FreeLanes : l \in Dan!LaneIds /\ Dan!Distance(l) \in Nat
    BY <1>0 DEF Dan!FreeLanes, Dan!Distance, Dan!LaneIds, LaneTypes
  <2>2. PICK x \in {Dan!Distance(l) : l \in Dan!FreeLanes} :
            \A y \in {Dan!Distance(l) : l \in Dan!FreeLanes} : x <= y
    BY <1>1, <2>1, LeastNumber
  <2>3. PICK l \in Dan!FreeLanes : x = Dan!Distance(l)
    BY <2>2
  <2>4. \A m \in Dan!FreeLanes : Dan!Distance(l) <= Dan!Distance(m)
    BY <2>2, <2>3
  <2>5. Dan!AssignLane \in Dan!FreeLanes
    BY <1>1, <2>4 DEF Dan!AssignLane
  <2> QED BY <1>1, <2>1, <2>5
<1>2. CASE Dan!FreeLanes = {}
  <2>1. PICK x \in {laneLast[l] : l \in Dan!LaneIds} : \A y \in {laneLast[l] : l \in Dan!LaneIds}
          : x <= y
    <3>1. {laneLast[l] : l \in Dan!LaneIds} \in SUBSET Nat /\ 0 \in Dan!LaneIds
      BY <1>0 DEF LaneTypes, Dan!LaneIds
    <3> QED BY <3>1, LeastNumber
  <2>2. PICK l \in {k \in Dan!LaneIds : laneLast[k] = x} :
            \A m \in {k \in Dan!LaneIds : laneLast[k] = x} : l <= m
    <3>1. {k \in Dan!LaneIds : laneLast[k] = x} \in SUBSET Nat
      BY <1>0 DEF Dan!LaneIds
    <3>2. {k \in Dan!LaneIds : laneLast[k] = x} # {}
      BY <2>1
    <3> QED BY <3>1, <3>2, LeastNumber
  <2>3. \A m \in Dan!LaneIds : laneLast[l] < laneLast[m] \/ (laneLast[l] = laneLast[m] /\ l <= m)
    BY <2>1, <2>2 DEF LaneTypes
  <2>4. /\ Dan!AssignLane \in Dan!LaneIds
        /\ \A m \in Dan!LaneIds :
            laneLast[Dan!AssignLane] < laneLast[m]
            \/ (laneLast[Dan!AssignLane] = laneLast[m] /\ Dan!AssignLane <= m)
    BY <1>2, <2>2, <2>3 DEF Dan!AssignLane
  <2> QED BY <1>2, <2>4 DEF LaneTypes
<1> QED BY <1>1, <1>2

\* A lane in use shows the comment it waits for. A comment that outlasts its lane was put on
\* top of a longer one when every lane was taken, so each lane shows one that lasts as long.
LaneIInv ==
    /\ LaneTypes
    /\ showing \subseteq Dan!LaneIds \X (Nat \ {0})
    /\ \A l \in Dan!LaneIds : laneLast[l] > 0 => <<l, laneLast[l]>> \in showing
    /\ \A s \in showing : s[2] > laneLast[s[1]] =>
            \A l \in Dan!LaneIds : \E t \in showing : t[1] = l /\ t[2] >= s[2]

LEMMA LaneStart == Dan!Init => LaneIInv
<1> SUFFICES ASSUME Dan!Init
             PROVE  LaneIInv
    OBVIOUS
<1>0. Lanes \in Nat /\ Lanes > 0
  BY RecordingAssumption DEF RecordingAssumption
<1>1. laneLast = [l \in Dan!LaneIds |-> 0] /\ nextLane = 0 /\ showing = {}
  BY DEF Dan!Init
<1> QED BY <1>0, <1>1 DEF LaneIInv, LaneTypes, Dan!LaneIds

\* A comment goes to a lane in use only when all are, and then to the one that is free first.
LEMMA CommentAdded ==
    ASSUME LaneIInv, NEW d \in Durations, Dan!AddComment(d)
    PROVE  /\ LaneIInv'
           /\ (\E s \in showing : s[1] = Dan!AssignLane)
                => \A l \in Dan!LaneIds : \E s \in showing : s[1] = l
<1>0. Lanes \in Nat /\ Lanes > 0 /\ d \in Nat /\ d > 0
  BY RecordingAssumption DEF RecordingAssumption
<1>1. PICK a : a = Dan!AssignLane
  OBVIOUS
<1>2. /\ a \in Dan!LaneIds
      /\ Dan!FreeLanes # {} => a \in Dan!FreeLanes
      /\ Dan!FreeLanes = {} => \A m \in Dan!LaneIds : laneLast[a] <= laneLast[m]
  BY <1>1, LaneAssigned DEF LaneIInv
<1>3. /\ laneLast' = [laneLast EXCEPT ![a] = d] /\ nextLane' = (a + 1) % Lanes
      /\ showing' = showing \cup {<<a, d>>}
  BY <1>1 DEF Dan!AddComment
<1>4. \A s \in showing : s[1] \in Dan!LaneIds /\ s[2] \in Nat /\ s[2] > 0 /\ s = <<s[1], s[2]>>
  BY DEF LaneIInv
<1>5. \A l \in Dan!LaneIds : laneLast[l] \in Nat
  BY DEF LaneIInv, LaneTypes
\* What still shows on the chosen lane also shows, as long, on every other one.
<1>6. ASSUME NEW s \in showing, s[1] = a
      PROVE  \A l \in Dan!LaneIds : \E t \in showing : t[1] = l /\ t[2] >= s[2]
  <2>1. CASE s[2] > laneLast[a]
    BY <1>6, <2>1 DEF LaneIInv
  <2>2. CASE s[2] <= laneLast[a]
    <3>1. Dan!FreeLanes = {}
      BY <1>2, <1>4, <1>5, <2>2 DEF Dan!FreeLanes
    <3>2. ASSUME NEW l \in Dan!LaneIds
          PROVE  \E t \in showing : t[1] = l /\ t[2] >= s[2]
      <4>1. laneLast[l] >= s[2] /\ laneLast[l] > 0
        BY <1>2, <1>4, <1>5, <2>2, <3>1
      <4>2. <<l, laneLast[l]>> \in showing
        BY <4>1 DEF LaneIInv
      <4> QED BY <4>1, <4>2
    <3> QED BY <3>2
  <2> QED BY <1>2, <1>4, <1>5, <2>1, <2>2
<1>7. LaneTypes' /\ \A l \in Dan!LaneIds : laneLast'[l] = IF l = a THEN d ELSE laneLast[l]
  BY <1>0, <1>2, <1>3 DEF LaneIInv, LaneTypes, Dan!LaneIds
<1>8. showing' \subseteq Dan!LaneIds \X (Nat \ {0})
  BY <1>0, <1>2, <1>3 DEF LaneIInv
<1>9. ASSUME NEW l \in Dan!LaneIds, laneLast'[l] > 0
      PROVE  <<l, laneLast'[l]>> \in showing'
  BY <1>3, <1>7, <1>9 DEF LaneIInv
<1>10. ASSUME NEW s \in showing', s[2] > laneLast'[s[1]]
       PROVE  \A l \in Dan!LaneIds : \E t \in showing' : t[1] = l /\ t[2] >= s[2]
  <2>1. s \in showing
    BY <1>0, <1>2, <1>3, <1>7, <1>10
  <2>2. CASE s[1] = a
    BY <1>3, <1>6, <2>1, <2>2
  <2>3. CASE s[1] # a
    <3>1. s[2] > laneLast[s[1]]
      BY <1>4, <1>7, <1>10, <2>1, <2>3
    <3> QED BY <1>3, <2>1, <3>1 DEF LaneIInv
  <2> QED BY <2>2, <2>3
<1>11. (\E s \in showing : s[1] = a) => \A l \in Dan!LaneIds : \E s \in showing : s[1] = l
  BY <1>6
<1> QED BY <1>1, <1>7, <1>8, <1>9, <1>10, <1>11 DEF LaneIInv

LEMMA LaneStep == LaneIInv /\ [Dan!Next]_(Dan!danmakuVars) => LaneIInv'
<1> SUFFICES ASSUME LaneIInv, [Dan!Next]_(Dan!danmakuVars)
             PROVE  LaneIInv'
    OBVIOUS
<1>1. CASE UNCHANGED <<laneLast, nextLane, showing>>
  BY <1>1 DEF LaneIInv, LaneTypes
<1>2. CASE Dan!Receive
  BY <1>1, <1>2, CommentAdded DEF Dan!Receive, Dan!writerVars
<1>3. CASE Dan!Tick
  <2>1. /\ laneLast' = [l \in Dan!LaneIds |-> IF laneLast[l] > 0 THEN laneLast[l] - 1 ELSE 0]
        /\ showing' = {<<c[1], c[2] - 1>> : c \in {s \in showing : s[2] > 1}}
        /\ nextLane' = nextLane
    BY <1>3 DEF Dan!Tick
  <2>2. \A s \in showing : s[1] \in Dan!LaneIds /\ s[2] \in Nat /\ s[2] > 0
    BY DEF LaneIInv
  <2>3. LaneTypes' /\ \A l \in Dan!LaneIds :
            laneLast[l] \in Nat /\ laneLast'[l] = IF laneLast[l] > 0 THEN laneLast[l] - 1 ELSE 0
    BY <2>1 DEF LaneIInv, LaneTypes
  <2>4. showing' \subseteq Dan!LaneIds \X (Nat \ {0})
    BY <2>1, <2>2
  <2>5. ASSUME NEW s \in showing, s[2] > 1
        PROVE  <<s[1], s[2] - 1>> \in showing'
    BY <2>1, <2>5
  <2>6. ASSUME NEW l \in Dan!LaneIds, laneLast'[l] > 0
        PROVE  <<l, laneLast'[l]>> \in showing'
    <3>1. laneLast[l] > 1 /\ laneLast'[l] = laneLast[l] - 1
      BY <2>3, <2>6
    <3>2. <<l, laneLast[l]>> \in showing
      BY <2>3, <3>1 DEF LaneIInv
    <3> QED BY <2>5, <3>1, <3>2
  <2>7. ASSUME NEW s \in showing', s[2] > laneLast'[s[1]], NEW l \in Dan!LaneIds
        PROVE  \E t \in showing' : t[1] = l /\ t[2] >= s[2]
    <3>1. PICK c \in showing : c[2] > 1 /\ s = <<c[1], c[2] - 1>>
      BY <2>1
    <3>2. c[2] > laneLast[c[1]]
      BY <2>2, <2>3, <2>7, <3>1
    <3>3. PICK t \in showing : t[1] = l /\ t[2] >= c[2]
      BY <3>2 DEF LaneIInv
    <3>4. <<t[1], t[2] - 1>> \in showing' /\ t[2] - 1 >= c[2] - 1
      BY <2>2, <2>5, <3>1, <3>3
    <3> QED BY <3>1, <3>3, <3>4
  <2> QED BY <2>3, <2>4, <2>6, <2>7 DEF LaneIInv
<1>4. Dan!Receive \/ Dan!Tick \/ UNCHANGED <<laneLast, nextLane, showing>>
  BY DEF Dan!Next, Dan!Reader, Dan!ReaderTop, Dan!ReadFails, Dan!Reconnect, Dan!Install,
         Dan!HeartbeatEnds, Dan!Stop, Dan!StopClient, Dan!Cancel, Dan!writerVars, Dan!danmakuVars
<1> QED BY <1>1, <1>2, <1>3, <1>4
------------------------------------------------------------------------------
(* The parts together *)

RecordingIInv == SegIInv /\ FeedIInv /\ BufIInv /\ ProbeIInv /\ MediaIInv /\ LaneIInv

LEMMA RecordingStart == MCInit => RecordingIInv
BY SegStart, FeedInit, BufStart, ProbeStart, MediaStart, LaneStart DEF MCInit, RecordingIInv

\* A step of one part leaves the others alone.
LEMMA RecordingStep == RecordingIInv /\ [MCNext]_mcVars => RecordingIInv'
<1> SUFFICES ASSUME RecordingIInv, [MCNext]_mcVars
             PROVE  RecordingIInv'
    OBVIOUS
<1>1. [Seg!Next]_(Seg!segVars)
  BY DEF MCNext, mcVars, On, segments, Seg!segVars, Seg!recVars, Seg!doneVars, Seg!tryVars
<1>2. [Dan!Next]_(Dan!danmakuVars)
  BY DEF MCNext, mcVars, On, danmakus, Dan!danmakuVars, Dan!clientVars, Dan!writerVars
<1>3. [Pro!Next]_(Pro!probeVars)
  BY DEF MCNext, mcVars, On, probes, Pro!probeVars
<1>4. [Feed!Next]_(Feed!feedVars)
  BY DEF MCNext, mcVars, On, feeds, Feed!feedVars, Feed!logVars, Feed!hubVars
<1> QED BY <1>1, <1>2, <1>3, <1>4, SegStep, FeedStep, BufStep, ProbeStep,
        MediaStep, LaneStep
        DEF RecordingIInv

\* The invariant of each part holds throughout.
LEMMA RecordingInvariance == MCSpec => []RecordingIInv
BY RecordingStart, RecordingStep, PTL DEF MCSpec

\* Between two attempts of tryRecord nothing of the last one is left running: no download, no
\* danmaku client, however the attempt ended.
THEOREM AttemptsCleanUp == MCSpec => []NothingLeftRunning
<1>1. RecordingIInv => NothingLeftRunning
  BY DEF RecordingIInv, SegIInv, SegInside, Between, NothingLeftRunning, Seg!NothingLeftRunning
<1> QED BY <1>1, RecordingInvariance, PTL

\* Whatever ffmpeg or the native parser has written is in the list that the summary is made of
\* once the next attempt has begun or the recorder is done (recordedFiles in tryRecord,
\* recorder.go:622), however its attempt ended.
THEOREM VideosAreSummed == MCSpec => []RecordedIsSummed
<1>1. RecordingIInv => RecordedIsSummed
  <2> SUFFICES ASSUME RecordingIInv, NEW i \in video, kind[i] # "recorder",
                      try > i \/ pc \in {"gap", "done"}
               PROVE  <<i, "video">> \in files
      BY DEF RecordedIsSummed, Seg!RecordedIsSummed
  <2>1. try \in Int /\ i \in Int
    BY RecordingAssumption DEF RecordingAssumption, RecordingIInv, SegIInv, SegTypes, Seg!Tries
  <2> QED BY <2>1 DEF RecordingIInv, SegIInv, SegSummed
<1> QED BY <1>1, RecordingInvariance, PTL

\* The client of the probe gets every piece of an FLV stream from the first on
\* (handleStreamRequest), and the log buffer holds the last bytes logged in their order,
\* whichever sizes are written (ringBuffer.Write).
THEOREM WholeOnTheWay == MCSpec => []NothingSkipped
<1>1. RecordingIInv => NothingSkipped
  BY TailKept DEF RecordingIInv, ProbeIInv, NothingSkipped, Pro!StreamIsWhole
<1> QED BY <1>1, RecordingInvariance, PTL

\* Every playlist, of whatever length, loses the preloading segments with their tags and nothing
\* else (RewritePlaylist), and the resolution of a segment is found exactly when the tables come
\* in order and the parameters of the video come at all (parseTSData).
THEOREM PlaylistsAreRead == MCSpec => []HlsIsRead
<1>1. RecordingIInv => HlsIsRead
  BY RewrittenIsFiltered, ResolutionIsFound DEF RecordingIInv, MediaIInv, HlsIsRead
<1> QED BY <1>1, RecordingInvariance, PTL

\* SSEHub never sends on a closed channel and closes none twice, however browsers connect and
\* hang up while the hub broadcasts and closes.
THEOREM ChannelsSafe == MCSpec => []NoClosedChannelUsed
<1>1. RecordingIInv => NoClosedChannelUsed
  BY DEF RecordingIInv, FeedIInv, NoClosedChannelUsed, Feed!NoClosedChannelUsed
<1> QED BY <1>1, RecordingInvariance, PTL

\* Two comments share a lane only when every lane shows one (assignLane).
THEOREM LanesAreShared == MCSpec => LanesShared
<1>1. ASSUME RecordingIInv
      PROVE  \A d \in Durations :
                Dan!AddComment(d) /\ (\E s \in showing : s[1] = Dan!AssignLane)
                    => \A l \in Dan!LaneIds : \E s \in showing : s[1] = l
  BY <1>1, CommentAdded DEF RecordingIInv
<1> QED BY <1>1, RecordingInvariance, PTL DEF LanesShared, Dan!LanesShared
=============================================================================
