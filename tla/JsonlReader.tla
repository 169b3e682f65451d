---------------------------- MODULE JsonlReader -----------------------------
(***************************************************************************)
(* The read side of package jsonl (src/jsonl/reader.go, filter.go,          *)
(* retain.go): DecodeTailDays over tailLines, DecodeSince and               *)
(* DecodeSinceSampled over ScanSince, and CleanOlderThan, each run against  *)
(* the daily files of a Store that goes on writing.  Readers take no lock   *)
(* of the Store and see whatever bytes it has flushed so far.               *)
(*                                                                          *)
(* A record is the line <<r, r>> and a newline; its timestamp field lies in *)
(* the first byte.  A line that lost its second byte, or ran together with  *)
(* the next one after a crash, does not decode, yet its field can be read.  *)
(***************************************************************************)
EXTENDS Integers, Sequences, FiniteSets, SequencesExt

CONSTANTS
    DayLen,     \* units of time in a day
    MaxTime,    \* bound: the last unit of time
    MaxRec,     \* bound: records written
    ChunkSize,  \* bytes tailLines reads at once (32 KiB)
    MaxDays,    \* bound: days DecodeTailDays goes back, and retainDays
    MaxLimit,   \* bound: limit and sampleSize
    TooLong,    \* records whose line exceeds the scanner's 1 MB
    Skews       \* how many days time.Local may be ahead of the Store's zone

ASSUME ReaderAssumption ==
    /\ {MaxTime, MaxRec, MaxDays, MaxLimit} \subseteq Nat
    /\ {DayLen, ChunkSize} \subseteq Nat \ {0} /\ Skews \subseteq {-1, 0, 1}

Newline == 0
Recs    == 1 .. MaxRec
Day(t)  == t \div DayLen
Days    == 0 .. Day(MaxTime)
Bytes(r) == <<r, r, Newline>>

VARIABLES
    clock,   \* now, in the Store's zone
    file,    \* per day: the bytes flushed to its file
    rec,     \* records the Store has begun to write
    ts,      \* per record: its timestamp
    wpos,    \* bytes of record rec that are flushed; 0 between records
    wday,    \* the day whose file the Store has open
    deleted, \* days whose file was removed
    job,     \* the call: its kind and arguments
    pc,      \* "idle", "open", "chunk", "scan", "clean", "done", "failed"
    today,   \* the day of the call's time.Now(); the last day of ScanSince
    at,      \* the day the call has come to
    pos,     \* tailLines: pos
    carry,   \* tailLines: carry
    result,  \* tailLines: result
    out,     \* decoded records, in the order of the result
    kept,    \* DecodeSinceSampled: buckets
    failed,  \* CleanOlderThan: days whose file could not be removed
    seen     \* history: the bytes the call has been given, file by file

storeVars == <<file, rec, ts, wpos, wday>>
tailVars  == <<pos, carry, result>>
callVars  == <<job, today>>
vars == <<clock, storeVars, deleted, callVars, pc, at, tailVars, out, kept, failed, seen>>

NoJob   == [kind |-> "none"]
NoLine  == <<>>

Init ==
    /\ clock = 0 /\ file = [d \in Days |-> <<>>] /\ rec = 0 /\ ts = [r \in Recs |-> 0]
    /\ wpos = 0 /\ wday = 0 /\ deleted = {}
    /\ job = NoJob /\ pc = "idle" /\ today = 0 /\ at = 0
    /\ pos = 0 /\ carry = <<>> /\ result = <<>> /\ out = <<>>
    /\ kept = <<>> /\ failed = {} /\ seen = [d \in Days |-> <<>>]

-----------------------------------------------------------------------------
(* The Store.                                                                *)

\* Bound: a behaviour ends with the call.
Running == pc \notin {"done", "failed"}

\* A record stamped now or a little earlier goes to today's file; its bytes are
\* flushed one after the other.
WriteRecord ==
    /\ Running /\ wpos = 0 /\ rec < MaxRec
    /\ rec' = rec + 1 /\ wpos' = 1 /\ wday' = Day(clock)
    /\ \E t \in {clock - 1, clock} \cap Nat : ts' = [ts EXCEPT ![rec + 1] = t]
    /\ file' = [file EXCEPT ![Day(clock)] = Append(@, rec + 1)]
    /\ UNCHANGED <<clock, deleted, callVars, pc, at, tailVars, out, kept, failed, seen>>

WriteByte ==
    /\ Running /\ wpos \in 1 .. 2
    /\ wpos' = (wpos + 1) % 3
    /\ file' = [file EXCEPT ![wday] = Append(@, Bytes(rec)[wpos + 1])]
    /\ UNCHANGED <<clock, rec, ts, wday, deleted, callVars, pc, at, tailVars, out, kept, failed, seen>>

\* The process dies between two flushes and is started again.
Crash ==
    /\ Running /\ wpos \in 1 .. 2 /\ wpos' = 0
    /\ UNCHANGED <<clock, file, rec, ts, wday, deleted, callVars, pc, at, tailVars, out, kept, failed, seen>>

Tick ==
    /\ Running /\ clock < MaxTime /\ clock' = clock + 1
    /\ UNCHANGED <<storeVars, deleted, callVars, pc, at, tailVars, out, kept, failed, seen>>

-----------------------------------------------------------------------------
(* Lines.                                                                    *)

Lines     == Seq(Nat)
Full      == {l \in Lines : l # <<>>}
Decodable == {l \in Lines : Len(l) = 2 /\ l[1] = l[2]}
Stamp(line) == ts[line[1]]

\* The members of L in s, in order.
Filter(s, L) ==
    LET some[n \in 0 .. Len(s)] ==
            IF n = 0 THEN <<>>
            ELSE IF s[n] \in L THEN Append(some[n - 1], s[n]) ELSE some[n - 1]
    IN  some[Len(s)]

\* A byte more: a newline begins a line, any other byte belongs to the line begun last.
Fed(lines, b) ==
    IF b = Newline THEN <<NoLine>> \o lines
    ELSE IF lines = <<>> THEN lines ELSE [lines EXCEPT ![1] = Append(@, b)]

\* The lines of data behind each newline, the last one first.
LinesAfter(data) ==
    LET lines[n \in 0 .. Len(data)] == IF n = 0 THEN <<>> ELSE Fed(lines[n - 1], data[n])
    IN  lines[Len(data)]

\* What is before the first newline.
FirstPart(data) ==
    LET i == SelectInSeq(data, LAMBDA b : b = Newline) IN IF i = 0 THEN data ELSE SubSeq(data, 1, i - 1)

\* bufio.Scanner: the lines of a file, empty ones left out; what follows the
\* last newline is one too.
Scanned(data) == Filter(Reverse(LinesAfter(<<Newline>> \o data)), Full)

Take(s, n) == SubSeq(s, 1, IF Len(s) < n THEN Len(s) ELSE n)

\* The records of the lines that decode.
Decoded(lines) ==
    LET good == Filter(lines, Decodable) IN [k \in DOMAIN good |-> good[k][1]]

\* The lines that pass the caller's filter on their bytes.
Passing == {l \in Full : job.only = {} \/ l[1] \in job.only}

-----------------------------------------------------------------------------
(* DecodeTailDays and tailLines.                                             *)

Start(j, p) ==
    /\ pc = "idle" /\ job' = j /\ today' = Day(clock) /\ at' = Day(clock) /\ pc' = p
    /\ UNCHANGED <<clock, storeVars, deleted, tailVars, out, kept, failed, seen>>

StartTail ==
    \E n \in 1 .. MaxLimit, d \in 1 .. MaxDays, o \in {{}, {r \in Recs : r % 2 = 1}} :
        Start([kind |-> "tail", limit |-> n, days |-> d, only |-> o], "open")

\* How many lines tailLines is asked for: limit - len(out).
Wanted == job.limit - Len(out)

\* The loop goes on to one more day (bound: there is none before day 0).
OneMore == today - at < job.days /\ Wanted > 0 /\ at >= 0

\* The loop over the days ends, or the next file is opened and its size taken.
TailOpen ==
    /\ pc = "open"
    /\ pc' = IF OneMore THEN "chunk" ELSE "done"
    /\ pos' = IF OneMore THEN Len(file[at]) ELSE 0
    /\ seen' = IF OneMore THEN [seen EXCEPT ![at] = file[at]] ELSE seen
    /\ carry' = <<>> /\ result' = <<>>
    /\ UNCHANGED <<clock, storeVars, deleted, callVars, at, out, kept, failed>>

\* A slip: the part of a line before the block border is dropped.
CarriedNothing(merged) == <<>>

\* carry: what is before the first newline, for the next block.
Carried(merged) == FirstPart(merged)

\* One block from the end: its lines are split off, the rest is carried to the
\* next one, or is the first line of the file.
TailChunk ==
    /\ pc = "chunk" /\ pos > 0 /\ Len(result) < Wanted
    /\ LET from   == IF pos < ChunkSize THEN 0 ELSE pos - ChunkSize
           merged == SubSeq(file[at], from + 1, pos) \o carry
           lines  == Filter(LinesAfter(merged), Passing)
           rest   == Carried(merged)
           first  == IF from = 0 /\ rest \in Passing THEN <<rest>> ELSE <<>>
       IN  /\ result' = Take(result \o lines \o first, Wanted)
           /\ carry' = rest
           /\ pos' = from
    /\ UNCHANGED <<clock, storeVars, deleted, callVars, pc, at, out, kept, failed, seen>>

\* A slip: the lines of an older file are put in front.
TailDecodeFront ==
    /\ pc = "chunk" /\ (pos = 0 \/ Len(result) >= Wanted)
    /\ out' = Decoded(result) \o out
    /\ at' = at - 1 /\ pc' = "open"
    /\ UNCHANGED <<clock, storeVars, deleted, callVars, tailVars, kept, failed, seen>>

\* The lines of a file are decoded; on to the day before.
TailDecode ==
    /\ pc = "chunk" /\ (pos = 0 \/ Len(result) >= Wanted)
    /\ out' = out \o Decoded(result)
    /\ at' = at - 1 /\ pc' = "open"
    /\ UNCHANGED <<clock, storeVars, deleted, callVars, tailVars, kept, failed, seen>>

-----------------------------------------------------------------------------
(* ScanSince, DecodeSince and DecodeSinceSampled.                            *)

\* A slip: the first day is the one after the cutoff.
FirstDayLate(cutoff) == Day(cutoff) + 1

\* daysInRange: from the day of the cutoff to today, or the cutoff's day alone
\* when that is still to come.
FirstDay(cutoff) == Day(cutoff)
LastDay(cutoff)  == Day(IF cutoff > clock THEN cutoff ELSE clock)

\* History: the records on disk, newline included, when the call begins.
Whole == UNION {ToSet(Decoded(Tail(LinesAfter(<<Newline>> \o file[d])))) : d \in Days}

\* size = 0 is DecodeSince.
StartSince ==
    /\ pc = "idle" /\ pc' = "scan"
    /\ \E c \in 0 .. MaxTime, n \in 0 .. MaxLimit :
         /\ job' = [kind |-> "since", cutoff |-> c, size |-> n, now |-> clock, whole |-> Whole]
         /\ at' = FirstDay(c) /\ today' = LastDay(c)
    /\ UNCHANGED <<clock, storeVars, deleted, tailVars, out, kept, failed, seen>>

\* bucketSeconds, rounded up, and the bucket of a timestamp; the last bucket
\* takes what is later than the call.
BucketSeconds ==
    LET window == IF job.now > job.cutoff THEN job.now - job.cutoff ELSE 1
    IN  (window + job.size - 1) \div job.size
Bucket(t) ==
    LET b == (t - job.cutoff) \div BucketSeconds
    IN  IF b > job.size - 1 THEN job.size - 1 ELSE b

\* A slip: a bucket keeps its first line.
SampleFirst(buckets, line) ==
    LET b == Bucket(Stamp(line)) IN
    IF buckets[b] # NoLine THEN buckets ELSE [buckets EXCEPT ![b] = line]

\* A bucket keeps the last line that is not older than what it has.
Sample(buckets, line) ==
    LET b == Bucket(Stamp(line)) IN
    IF buckets[b] # NoLine /\ Stamp(buckets[b]) > Stamp(line)
    THEN buckets ELSE [buckets EXCEPT ![b] = line]

NoBuckets == [b \in 0 .. job.size - 1 |-> NoLine]

\* The buckets when the lines have been added one after the other.
Sampled(buckets, lines) ==
    LET after[n \in 0 .. Len(lines)] ==
            IF n = 0 THEN buckets ELSE Sample(after[n - 1], lines[n])
    IN  after[Len(lines)]

\* The lines not older than the cutoff.
Since == {l \in Full : Stamp(l) >= job.cutoff}

\* ScanFile on the next day's file.  A line beyond the scanner's buffer ends the
\* whole call with an error, after the lines before it.
ScanFile ==
    /\ pc = "scan" /\ at <= today
    /\ LET lines == Scanned(file[at])
           long  == SelectInSeq(lines, LAMBDA l : ToSet(l) \cap TooLong # {})
           since == Filter(IF long = 0 THEN lines ELSE SubSeq(lines, 1, long - 1), Since)
       IN  /\ out' = IF job.size = 0 THEN out \o Decoded(since) ELSE out
           /\ kept' = IF job.size = 0 THEN kept
                      ELSE Sampled(IF kept = <<>> THEN NoBuckets ELSE kept, since)
           /\ IF long = 0 THEN at' = at + 1 /\ UNCHANGED pc
                          ELSE pc' = "failed" /\ UNCHANGED at
    /\ seen' = [seen EXCEPT ![at] = file[at]]
    /\ UNCHANGED <<clock, storeVars, deleted, callVars, tailVars, failed>>

\* The buckets from the oldest to the newest; what does not decode is dropped.
ScanDone ==
    /\ pc = "scan" /\ at > today /\ pc' = "done"
    /\ out' = IF job.size = 0 \/ kept = <<>> THEN out
              ELSE Decoded([k \in 1 .. job.size |-> kept[k - 1]])
    /\ UNCHANGED <<clock, storeVars, deleted, callVars, at, tailVars, kept, failed, seen>>

\* A file cannot be opened or read: the call returns the error, and what it has
\* found in other files is not used.
ReadFails ==
    /\ \/ pc = "open" /\ OneMore
       \/ pc = "chunk" /\ pos > 0 /\ Len(result) < Wanted
       \/ pc = "scan" /\ at <= today
    /\ pc' = "failed"
    /\ UNCHANGED <<clock, storeVars, deleted, callVars, at, tailVars, out, kept, failed, seen>>

-----------------------------------------------------------------------------
(* CleanOlderThan.                                                           *)

\* A slip: the day of the cutoff is counted from tomorrow.
ExpiredEarly(n, skew, prefixed) ==
    {d \in Days : prefixed /\ file[d] # <<>> /\ d <= Day(clock) + 1 + skew - n}

\* The files the call will remove: cutoffDate is taken in time.Local, the Store's
\* dates in its own zone; the glob matches no file of a Store that has a
\* separator and no prefix.
Expired(n, skew, prefixed) ==
    {d \in Days : prefixed /\ file[d] # <<>> /\ d <= Day(clock) + skew - n}

StartClean ==
    \E n \in 1 .. MaxDays, k \in Skews, p \in BOOLEAN :
        Start([kind |-> "clean", retain |-> n, skew |-> k, prefixed |-> p,
               list |-> Expired(n, k, p)], "clean")

\* os.Remove fails; the call goes on.
RemoveFails ==
    /\ pc = "clean" /\ \E d \in job.list \ (deleted \cup failed) : failed' = failed \cup {d}
    /\ UNCHANGED <<clock, storeVars, deleted, callVars, pc, at, tailVars, out, kept, seen>>

RemoveFile ==
    /\ pc = "clean" /\ \E d \in job.list \ (deleted \cup failed) : deleted' = deleted \cup {d}
    /\ UNCHANGED <<clock, storeVars, callVars, pc, at, tailVars, out, kept, failed, seen>>

CleanDone ==
    /\ pc = "clean" /\ job.list \subseteq deleted \cup failed /\ pc' = "done"
    /\ UNCHANGED <<clock, storeVars, deleted, callVars, at, tailVars, out, kept, failed, seen>>

-----------------------------------------------------------------------------
Next ==
    \/ WriteRecord \/ WriteByte \/ Crash \/ Tick
    \/ StartTail \/ TailOpen \/ TailChunk \/ TailDecode
    \/ StartSince \/ ScanFile \/ ScanDone \/ ReadFails
    \/ StartClean \/ RemoveFails \/ RemoveFile \/ CleanDone

Spec == Init /\ [][Next]_vars

-----------------------------------------------------------------------------
(* tailLines reads blocks from the end and ScanFile reads forward: they      *)
(* agree on what the lines of a file are, whatever the block borders, with   *)
(* or without a final newline, and while the Store appends.                  *)
TailIsScan ==
    pc = "chunk" /\ (pos = 0 \/ Len(result) >= Wanted) =>
        result = Take(Filter(Reverse(Scanned(seen[at])), Passing), Wanted)

\* The records of the days DecodeTailDays went through, the newest first.
Newest ==
    FlattenSeq([k \in 1 .. today - at |->
        Decoded(Filter(Reverse(Scanned(seen[today - k + 1])), Passing))])

\* The lines read that do not decode.
Undecodable ==
    (UNION {ToSet(Scanned(seen[d])) : d \in Days}) \ Decodable

(* DecodeTailDays' comment: the N most recent records across days.  It holds *)
(* as long as every line read decodes.  A torn line uses up one of the lines *)
(* asked of its file: the call goes on to the day before and leaves out an   *)
(* older record of the same day.                                             *)
NewestUnlessTorn ==
    job.kind = "tail" /\ pc = "done" /\ Undecodable = {} => out = Take(Newest, job.limit)

(* DecodeSince finds every record that was on disk when it began and is not  *)
(* older than the cutoff, and returns them in the order they were written:   *)
(* a record is filed under the day of its writing, which daysInRange covers. *)
SinceComplete ==
    job.kind = "since" /\ pc = "done" /\ job.size = 0 =>
        /\ \A r \in job.whole : ts[r] >= job.cutoff => r \in ToSet(out)
        /\ \A i, j \in DOMAIN out : i < j => out[i] < out[j]

(* DecodeSinceSampled returns at most sampleSize records, from old to new,   *)
(* and one not older for every record found, unless a line that does not     *)
(* decode has taken its bucket.                                              *)
SampledSound ==
    job.kind = "since" /\ pc = "done" /\ job.size > 0 =>
        /\ Len(out) <= job.size
        /\ \A i, j \in DOMAIN out : i < j => ts[out[i]] < ts[out[j]]
        /\ \A r \in job.whole : ts[r] >= job.cutoff =>
             LET Beats(t) == Bucket(t) = Bucket(ts[r]) /\ t >= ts[r]
             IN  \/ \E i \in DOMAIN out : Beats(ts[out[i]])
                 \/ \E l \in Undecodable : Stamp(l) >= job.cutoff /\ Beats(Stamp(l))

(* CleanOlderThan goes on after an error: when it returns, every file of a   *)
(* named Store that is retainDays old is gone or its removal failed.  It     *)
(* takes no record stamped within the retainDays days by time.Local, whether *)
(* flushed before the call or while it works through its list, and not the   *)
(* file of the day if the days kept outnumber the days time.Local is ahead.  *)
(* The file the Store has open is not spared: with retainDays = 1 yesterday's *)
(* is removed just after midnight, with what the Store flushes to it later.  *)
RetentionSound ==
    job.kind = "clean" =>
        /\ pc = "done" /\ job.prefixed =>
             \A d \in Days : d + job.retain <= today + job.skew /\ d < today /\ file[d] # <<>>
                             => d \in deleted \cup failed
        /\ \A d \in deleted : \A l \in ToSet(Scanned(file[d])) : \A r \in ToSet(l) :
             Day(ts[r]) + job.retain <= today + job.skew
        /\ job.retain > job.skew => Day(clock) \notin deleted
=============================================================================
