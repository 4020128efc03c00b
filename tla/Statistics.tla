------------------------------- MODULE Statistics -------------------------------
(***************************************************************************)
(* The statistics of the requests to the platforms and of what is written  *)
(* to disk: src/src/pkg/iostats (the tracker of requests, the collector,   *)
(* the store and its queries) and servers/iostats_handler.go.              *)
(*                                                                         *)
(* Every request is noted by a goroutine of its own, which takes the time  *)
(* and inserts a row some time later; the collector samples how much every *)
(* recorder has written.  The queries are operators on the rows.  Rows of  *)
(* one time come out of the database in any order.                         *)
(***************************************************************************)
EXTENDS Integers, Sequences, FiniteSets, SequencesExt

CONSTANTS
    Rooms,
    MaxTime, MaxRequests, MaxBytes, \* bound the clock, the requests, the bytes written
    Gap,            \* what separates two segments, 2 minutes in the code
    Bucket,         \* the interval of an aggregation, a minute or an hour
    Retention       \* RetentionDays

VARIABLES
    now,
    requested,      \* how many requests have been noted
    tracking,       \* the goroutines that note them; at is 0 until the time is taken
    statuses,       \* the rows of request_status
    recording,      \* the rooms with a recorder
    total, file,    \* what its parser has written, and what of it is in the file
    lastBytes,      \* lastRecordBytes; -1: no entry
    lastCollect,    \* lastCollectTime
    samples,        \* the rows of io_stats of the rooms
    written,        \* history: the bytes ever written of a room
    counted,        \* history: the bytes the collector's speeds stand for
    fellBack        \* history: the rooms sampled by their file after their parser had answered

requestVars == <<requested, tracking, statuses>>
byteVars    == <<recording, total, file, lastBytes, lastCollect, samples, written, counted,
                 fellBack>>
statVars    == <<now, requestVars, byteVars>>

Init ==
    /\ now = 1 /\ requested = 0 /\ tracking = {} /\ statuses = {}
    /\ recording = {} /\ total = [r \in Rooms |-> 0] /\ file = [r \in Rooms |-> 0]
    /\ lastBytes = [r \in Rooms |-> -1] /\ lastCollect = 1 /\ samples = {}
    /\ written = [r \in Rooms |-> 0] /\ counted = [r \in Rooms |-> 0] /\ fellBack = {}

Tick == now < MaxTime /\ now' = now + 1 /\ UNCHANGED <<requestVars, byteVars>>

-----------------------------------------------------------------------------
(* Requests *)

\* TrackRequestSuccess, TrackRequestFailure.
Track(r, ok) ==
    /\ requested < MaxRequests /\ requested' = requested + 1
    /\ tracking' = tracking \cup {[id |-> requested', room |-> r, ok |-> ok, at |-> 0]}
    /\ UNCHANGED <<now, statuses, byteVars>>

\* record takes the time, then SaveRequestStatus inserts; after its time-out there is no row.
TakeTime(g) ==
    /\ g.at = 0 /\ tracking' = (tracking \ {g}) \cup {[g EXCEPT !.at = now]}
    /\ UNCHANGED <<now, requested, statuses, byteVars>>

SaveRequestStatus(g) ==
    /\ g.at # 0 /\ tracking' = tracking \ {g}
    /\ statuses' \in {statuses \cup {g}, statuses}
    /\ UNCHANGED <<now, requested, byteVars>>

InOrder(rows) == {s \in SetToSeqs(rows) : \A i \in 1 .. Len(s) - 1 : s[i].at <= s[i + 1].at}

Segment(row) == [start |-> row.at, end |-> row.at, ok |-> row.ok, count |-> 1]

\* Mutant: the gap is measured from the start of the segment.
ContinuesStart(segment, row) == segment.ok = row.ok /\ row.at - segment.start < Gap

Continues(segment, row) == segment.ok = row.ok /\ row.at - segment.end < Gap

\* A row continues the last segment or begins the next one.
Extended(segments, row) ==
    IF segments # <<>> /\ Continues(segments[Len(segments)], row)
    THEN [segments EXCEPT ![Len(segments)].end = row.at, ![Len(segments)].count = @ + 1]
    ELSE Append(segments, Segment(row))

BuildSegments(rows) ==
    LET after[n \in 0 .. Len(rows)] == IF n = 0 THEN <<>> ELSE Extended(after[n - 1], rows[n])
    IN after[Len(rows)]

\* QueryRequestStatus and QueryRequestStatusSegments: all rooms as one, or every room for
\* itself; the rows between two times.
Viewed(rooms, from, to) == {g \in statuses : g.room \in rooms /\ g.at \in from .. to}

-----------------------------------------------------------------------------
(* Bytes written *)

\* A recorder starts, as a rule after another of the room; it writes, and its file follows.
Record(r) ==
    /\ r \notin recording /\ recording' = recording \cup {r}
    /\ total' = [total EXCEPT ![r] = 0] /\ file' = [file EXCEPT ![r] = 0]
    /\ UNCHANGED <<now, requestVars, lastBytes, lastCollect, samples, written, counted, fellBack>>

Write(r) ==
    /\ r \in recording /\ written[r] < MaxBytes
    /\ total' = [total EXCEPT ![r] = @ + 1] /\ written' = [written EXCEPT ![r] = @ + 1]
    /\ UNCHANGED <<now, requestVars, recording, file, lastBytes, lastCollect, samples, counted,
                   fellBack>>

Flush(r) ==
    /\ r \in recording /\ file' = [file EXCEPT ![r] = total[r]]
    /\ UNCHANGED <<now, requestVars, recording, total, lastBytes, lastCollect, samples, written,
                   counted, fellBack>>

EndRecord(r) ==
    /\ r \in recording /\ recording' = recording \ {r}
    /\ UNCHANGED <<now, requestVars, total, file, lastBytes, lastCollect, samples, written,
                   counted, fellBack>>

\* Mutant: any difference is a speed.
AnyDelta(r, current) ==
    IF lastBytes[r] = -1 THEN 0
    ELSE IF current > lastBytes[r] THEN current - lastBytes[r] ELSE lastBytes[r] - current

\* What was written since the last sample; less than the last sample means a new recorder.
Delta(r, current) ==
    IF lastBytes[r] # -1 /\ current > lastBytes[r] THEN current - lastBytes[r] ELSE 0

\* collectRecordStats and SaveIOStats, which inserts all rows or none.  A parser that does
\* not answer leaves the size of the file.  A room that wrote nothing gets no row.
Collect ==
    /\ now > lastCollect /\ lastCollect' = now
    /\ \E silent \in SUBSET recording, saved \in BOOLEAN :
        LET current == [r \in recording |-> IF r \in silent \/ total[r] = 0 THEN file[r]
                                            ELSE total[r]]
            speed == [r \in recording |-> Delta(r, current[r]) \div (now - lastCollect)]
        IN  /\ lastBytes' = [r \in Rooms |-> IF r \in recording THEN current[r] ELSE lastBytes[r]]
            /\ counted' = [r \in Rooms |-> counted[r] + IF r \in recording
                                                       THEN speed[r] * (now - lastCollect) ELSE 0]
            /\ samples' = IF saved
                          THEN samples \cup {[at |-> now, room |-> r, speed |-> speed[r],
                                              bytes |-> current[r]] :
                                             r \in {r \in recording : speed[r] > 0}}
                          ELSE samples
            /\ fellBack' = fellBack \cup {r \in silent : current[r] < lastBytes[r]
                                                         /\ lastBytes[r] <= total[r]}
    /\ UNCHANGED <<now, requestVars, recording, total, file, written>>

\* The interval and the room of a row.
GroupKey(row) == <<row.room, row.at \div Bucket>>

\* Mutant: the total is the first of the interval.
FirstBytes(group, row) == IF group.count = 0 THEN row.bytes ELSE group.totalBytes

LastBytes(group, row) == row.bytes

Added(group, row) ==
    [count |-> group.count + 1, speedSum |-> group.speedSum + row.speed,
     totalBytes |-> LastBytes(group, row)]

\* What the rows of a key add up to, read in order.
Group(rows, key) ==
    LET after[n \in 0 .. Len(rows)] ==
            IF n = 0 THEN [count |-> 0, speedSum |-> 0, totalBytes |-> 0]
            ELSE IF GroupKey(rows[n]) = key THEN Added(after[n - 1], rows[n]) ELSE after[n - 1]
    IN after[Len(rows)]

\* aggregateStats: the mean speed, and the total that comes last.
AggregateStats(rows) ==
    {LET group == Group(rows, key)
     IN  [at |-> key[2] * Bucket, room |-> key[1], bytes |-> group.totalBytes,
          speed |-> group.speedSum \div group.count]
     : key \in {GroupKey(row) : row \in ToSet(rows)}}

-----------------------------------------------------------------------------
\* doCleanup: the tables one after the other, the first error ends it.
Cleanup ==
    /\ \E s \in {samples, {s \in samples : s.at >= now - Retention}} :
        /\ samples' = s
        /\ \/ s = {s0 \in samples : s0.at >= now - Retention}
              /\ statuses' = {g \in statuses : g.at >= now - Retention}
           \/ UNCHANGED statuses
    /\ UNCHANGED <<now, requested, tracking, recording, total, file, lastBytes, lastCollect,
                   written, counted, fellBack>>

\* Requests and bytes share the clock, the cleanup and nothing else.
RequestNext ==
    \/ Tick \/ Cleanup
    \/ \E r \in Rooms, ok \in BOOLEAN : Track(r, ok)
    \/ \E g \in tracking : TakeTime(g) \/ SaveRequestStatus(g)

ByteNext ==
    \/ Tick \/ Cleanup \/ Collect
    \/ \E r \in Rooms : Record(r) \/ Write(r) \/ Flush(r) \/ EndRecord(r)

Next == RequestNext \/ ByteNext

Spec == Init /\ [][Next]_statVars

-----------------------------------------------------------------------------
(* Properties *)

StatisticsTypeOK ==
    /\ now \in 1 .. MaxTime /\ requested \in 0 .. MaxRequests
    /\ \A g \in tracking \cup statuses : g.room \in Rooms /\ g.ok \in BOOLEAN /\ g.at \in 0 .. now
    /\ recording \subseteq Rooms
    /\ \A r \in Rooms : file[r] <= total[r] /\ lastBytes[r] \in -1 .. MaxBytes

\* The runs of the rows: equal outcomes with less than Gap between neighbours, that cannot
\* be longer.
Together(rows, i) == rows[i].ok = rows[i + 1].ok /\ rows[i + 1].at - rows[i].at < Gap
Runs(rows) ==
    {run \in (1 .. Len(rows)) \X (1 .. Len(rows)) :
        /\ run[1] <= run[2] /\ \A i \in run[1] .. run[2] - 1 : Together(rows, i)
        /\ run[1] > 1 => ~Together(rows, run[1] - 1)
        /\ run[2] < Len(rows) => ~Together(rows, run[2])}

\* However late and out of order the requests were noted, the segments a view shows are the
\* longest runs of requests that fared alike (buildSegments): every request is in one, none
\* stands for requests that fared otherwise or for a silence of Gap.
SegmentsAreRuns ==
    \A rooms \in {Rooms} \cup {{r} : r \in Rooms}, from \in 1 .. now :
        \A rows \in InOrder(Viewed(rooms, from, now)) :
            LET segments == BuildSegments(rows) runs == Runs(rows)
            IN  /\ Len(segments) = Cardinality(runs)
                /\ \A run \in runs : \E k \in 1 .. Len(segments) :
                    segments[k] = [start |-> rows[run[1]].at, end |-> rows[run[2]].at,
                                   ok |-> rows[run[1]].ok, count |-> run[2] - run[1] + 1]

\* No byte is in two speeds, over all recordings of a room, while its parser answers
\* (collectRecordStats).
CountedOnce == \A r \in Rooms \ fellBack : counted[r] <= written[r]

\* A room's total in an interval is the one of its latest sample in it, and its speed lies
\* between the lowest and the highest (aggregateStats).
IntervalsAreFair ==
    \A rows \in InOrder(samples) : \A a \in AggregateStats(rows) :
        LET own == {s \in samples : s.room = a.room /\ s.at \in a.at .. a.at + Bucket - 1}
        IN  /\ \E s \in own : s.bytes = a.bytes /\ \A other \in own : other.at <= s.at
            /\ \E low, high \in own : a.speed \in low.speed .. high.speed
=============================================================================
