----------------------------- MODULE JsonlStore -----------------------------
(***************************************************************************)
(* The write side of package jsonl (src/jsonl/store.go): one Store that     *)
(* appends marshalled lines to a file per day through an optional           *)
(* bufio.Writer, synchronously or through a channel drained by one worker   *)
(* goroutine, with a periodic flush, rotation at midnight and Close.        *)
(*                                                                         *)
(* A line is LineLen bytes <<r, 1>> .. <<r, LineLen>>; the last one is the  *)
(* newline.  Every critical section of s.mu is one action.  The process may *)
(* crash and be restarted on the same directory, and writes, flushes and    *)
(* opens may fail.                                                          *)
(***************************************************************************)
EXTENDS Naturals, Sequences, FiniteSets

CONSTANTS
    Closers,       \* goroutines that may call Close, once each
    LineLen,       \* length of a line in bytes
    BufSize,       \* options.bufSize; 0 is direct writing
    AsyncSizes,    \* values of options.asyncSize a Store may be made with
    FlushTicks,    \* options.flushInterval > 0
    LateAppends,   \* callers may still call Append once Close was called
    MaxRec,        \* bound: records appended
    MaxDay,        \* bound: days
    MaxFault,      \* bound: failing file operations
    MaxCrash       \* bound: crashes of the process

ASSUME StoreAssumption ==
    /\ LineLen \in Nat \ {0}
    /\ BufSize \in Nat /\ AsyncSizes \subseteq Nat
    /\ MaxRec \in Nat /\ MaxDay \in Nat \ {0}
    /\ MaxFault \in Nat /\ MaxCrash \in Nat
    /\ FlushTicks \in BOOLEAN /\ LateAppends \in BOOLEAN

Days == 1..MaxDay
Recs == 1..MaxRec
Byte == Recs \X (1..LineLen)

\* json.Marshal(v) followed by '\n'.
Line(r) == [i \in 1..LineLen |-> <<r, i>>]

VARIABLES
    asyncSize, \* options.asyncSize; 0 is synchronous mode
    day,       \* the date Today() returns
    disk,      \* [Days -> Seq(Byte)] the files, by date
    file,      \* s.file with s.date: the date of the open file, 0 for nil
    buf,       \* bytes s.bw will write at its next Flush
    bwErr,     \* s.bw has met a write error, which it keeps
    faults,    \* failed file operations so far
    ch,        \* s.ch
    chClosed,
    worker,    \* runAsync: "select", "write", "stop", "done"; "none" in sync mode
    line,      \* the record runAsync received and has not written yet
    flusher,   \* runFlusher: "run", "done"; "none" when it was not started
    stopped,   \* s.stopped is closed
    once,      \* s.stopOnce: "new", "running", "done"
    closer,    \* [Closers -> {"idle", "wait", "lock", "done"}]
    panicked,  \* a send on the closed channel killed the process
    nextRec,   \* records are numbered in the order of the Append calls
    crashes,
    acked,     \* history: records whose Append returned nil
    sealed,    \* history: acked when Close was first called
    stream,    \* history: [Days -> Seq(Byte)] lines accepted, by file
    writeDay   \* history: [Recs -> 0 .. MaxDay] date at which the line was written

fileVars  == <<disk, file, buf, bwErr, faults, stream, writeDay>>
chanVars  == <<ch, chClosed>>
workVars  == <<worker, line>>
closeVars == <<flusher, stopped, once, closer, panicked>>
envVars   == <<asyncSize, day, crashes>>
appVars   == <<nextRec, acked, sealed>>
vars      == <<fileVars, chanVars, workVars, closeVars, envVars, appVars>>

\* The background goroutine New starts: the worker or the flusher, never both.
NewWorker  == IF asyncSize > 0 THEN "select" ELSE "none"
NewFlusher == IF BufSize > 0 /\ FlushTicks /\ asyncSize = 0 THEN "run" ELSE "none"

Init ==
    /\ asyncSize \in AsyncSizes
    /\ file = 0 /\ buf = <<>> /\ bwErr = FALSE
    /\ ch = <<>> /\ chClosed = FALSE
    /\ worker = NewWorker /\ line = 0 /\ flusher = NewFlusher
    /\ stopped = FALSE /\ once = "new" /\ panicked = FALSE
    /\ closer = [c \in Closers |-> "idle"]
    /\ day = 1 /\ disk = [d \in Days |-> <<>>]
    /\ nextRec = 1 /\ faults = 0 /\ crashes = 0
    /\ acked = {} /\ sealed = {}
    /\ stream = [d \in Days |-> <<>>] /\ writeDay = [r \in Recs |-> 0]

-----------------------------------------------------------------------------
(* Outcomes of a file operation: n bytes reach the file; a fault lets only a *)
(* proper prefix through; bufio refuses to write after a fault.              *)
Results      == {"ok", "fault", "refused"}
Done(n)      == [n |-> n, res |-> "ok"]
Fault(n)     == [n |-> n, res |-> "fault"]
Refused      == [n |-> 0, res |-> "refused"]
FileWrite(n) == {Done(n)} \union {Fault(k) : k \in 0..(n - 1)}
FileOpen     == {Done(0), Fault(0)}
Bad(o)       == IF o.res = "fault" THEN 1 ELSE 0

\* bufio.Writer.Flush; nothing happens when bw is nil, empty or has failed before.
FlushOutcomes == IF buf = <<>> THEN {Done(0)} ELSE FileWrite(Len(buf))

(* bufio.Writer.Write of a line behind n buffered bytes: how many bytes of   *)
(* the two leave the buffer.  A line that does not fit fills the buffer and  *)
(* flushes it; what is larger than the whole buffer goes out directly.       *)
Overflow(n) ==
    IF n + LineLen <= BufSize THEN 0
    ELSE IF n = 0 \/ n + LineLen > 2 * BufSize THEN n + LineLen
    ELSE BufSize

WriteOutcomes(n, err) ==
    IF err THEN {Refused}
    ELSE IF Overflow(n) = 0 THEN {Done(0)} ELSE FileWrite(Overflow(n))

\* A slip: the open file is kept whatever its date.
IsCurrentAnyDate == file # 0

\* ensureFileLocked: is the open file the one of today?
IsCurrent == file # 0 /\ file = day

(* writeLocked: rotate if the open file is not today's (the error of that    *)
(* flush is dropped), open today's file, write the line.  A failed write     *)
(* leaves bw with a sticky error and nothing that could still be flushed.    *)
WriteLocked(r, res) ==
    LET keep == IF IsCurrent THEN buf ELSE <<>>
        all  == keep \o Line(r)
        into == IF IsCurrent THEN file ELSE day
    IN  \E fl \in IF IsCurrent THEN {Done(0)} ELSE FlushOutcomes,
           op \in IF IsCurrent THEN {Done(0)} ELSE FileOpen :
        \E wr \in IF op.res = "ok" THEN WriteOutcomes(Len(keep), IsCurrent /\ bwErr)
                 ELSE {Refused} :
          LET rotated(d) == IF d = file THEN SubSeq(buf, 1, fl.n) ELSE <<>>
              written(d) == IF d = into THEN SubSeq(all, 1, wr.n) ELSE <<>>
          IN  /\ res = wr.res
              /\ faults' = faults + Bad(fl) + Bad(op) + Bad(wr)
              /\ faults' <= MaxFault
              /\ disk' = [d \in Days |-> (disk[d] \o rotated(d)) \o written(d)]
              /\ file' = IF op.res = "ok" THEN into ELSE 0
              /\ buf' = IF res = "ok" THEN SubSeq(all, wr.n + 1, Len(all)) ELSE <<>>
              /\ bwErr' = (op.res = "ok" /\ BufSize > 0 /\ res # "ok")
              /\ stream' = IF res = "ok" THEN [stream EXCEPT ![into] = @ \o Line(r)] ELSE stream
              /\ writeDay' = [writeDay EXCEPT ![r] = day]

\* A slip: the buffer is emptied although the write failed silently half way.
FlushHalf ==
    /\ disk' = [d \in Days |-> disk[d] \o IF d = file THEN SubSeq(buf, 1, 1) ELSE <<>>]
    /\ buf' = <<>> /\ UNCHANGED <<faults, bwErr, stream, writeDay>>

\* s.bw.Flush() under the lock.
FlushLocked ==
    \E fl \in FlushOutcomes :
      /\ faults' = faults + Bad(fl) /\ faults' <= MaxFault
      /\ disk' = [d \in Days |-> disk[d] \o IF d = file THEN SubSeq(buf, 1, fl.n) ELSE <<>>]
      /\ buf' = <<>>
      /\ bwErr' = (bwErr \/ fl.res # "ok")
      /\ UNCHANGED <<stream, writeDay>>

-----------------------------------------------------------------------------
MayAppend == ~panicked /\ nextRec <= MaxRec /\ (LateAppends \/ once = "new")

\* Append without a channel: the line is written under the lock.
AppendSync ==
    /\ MayAppend /\ asyncSize = 0
    /\ nextRec' = nextRec + 1
    /\ \E res \in Results :
         /\ WriteLocked(nextRec, res)
         /\ acked' = IF res = "ok" THEN acked \union {nextRec} ELSE acked
    /\ UNCHANGED <<chanVars, workVars, closeVars, envVars, sealed>>

\* Append with a channel: a send that never blocks.
AppendAsync ==
    /\ MayAppend /\ asyncSize > 0 /\ ~chClosed
    /\ nextRec' = nextRec + 1
    /\ IF Len(ch) < asyncSize
       THEN ch' = Append(ch, nextRec) /\ acked' = acked \union {nextRec}
       ELSE UNCHANGED <<ch, acked>>
    /\ UNCHANGED <<fileVars, chClosed, workVars, closeVars, envVars, sealed>>

\* Append after close(s.ch): the send panics.
AppendPanics ==
    /\ MayAppend /\ asyncSize > 0 /\ chClosed
    /\ panicked' = TRUE
    /\ UNCHANGED <<fileVars, chanVars, workVars, flusher, stopped, once, closer, envVars,
                   appVars>>

\* Flush, called by the program.
Flush ==
    /\ ~panicked /\ FlushLocked
    /\ UNCHANGED <<file, chanVars, workVars, closeVars, envVars, appVars>>

\* A slip: nothing calls Flush in synchronous mode.
NoFlusherTick == FALSE

\* runFlusher: the ticker case and the stopped case of its select.
FlusherTick == flusher = "run" /\ Flush

FlusherExit ==
    /\ ~panicked /\ flusher = "run" /\ stopped
    /\ flusher' = "done"
    /\ UNCHANGED <<fileVars, chanVars, workVars, stopped, once, closer, panicked, envVars,
                   appVars>>

\* runAsync: receive a line.
WorkerReceive ==
    /\ ~panicked /\ worker = "select" /\ ch # <<>>
    /\ line' = Head(ch) /\ ch' = Tail(ch) /\ worker' = "write"
    /\ UNCHANGED <<fileVars, chClosed, closeVars, envVars, appVars>>

\* runAsync: write the line; an error is only logged.
WorkerWrite ==
    /\ ~panicked /\ worker = "write"
    /\ \E res \in Results : WriteLocked(line, res)
    /\ line' = 0 /\ worker' = "select"
    /\ UNCHANGED <<chanVars, closeVars, envVars, appVars>>

\* runAsync: the ticker case.
WorkerTick == worker = "select" /\ FlushTicks /\ BufSize > 0 /\ Flush

\* A slip: the worker leaves as soon as the channel is closed.
WorkerDrainedEarly == worker = "select" /\ chClosed

\* runAsync: the receive reports a closed channel only once it is drained.
WorkerDrained == worker = "select" /\ chClosed /\ ch = <<>>

\* runAsync then flushes ...
WorkerFlush ==
    /\ ~panicked /\ WorkerDrained
    /\ FlushLocked /\ worker' = "stop"
    /\ UNCHANGED <<file, line, chanVars, closeVars, envVars, appVars>>

\* A slip: the worker returns without close(s.stopped).
WorkerStopSilent ==
    /\ ~panicked /\ worker = "stop" /\ worker' = "done"
    /\ UNCHANGED <<fileVars, chanVars, line, closeVars, envVars, appVars>>

\* ... and closes s.stopped.
WorkerStop ==
    /\ ~panicked /\ worker = "stop"
    /\ worker' = "done" /\ stopped' = TRUE
    /\ UNCHANGED <<fileVars, chanVars, line, flusher, once, closer, panicked, envVars,
                   appVars>>

\* Close, stopOnce: the first caller stops the background goroutine; a caller that
\* finds the Once running blocks until it is done.
CloseOnce(c) ==
    /\ ~panicked /\ closer[c] = "idle" /\ once # "running"
    /\ IF once = "new" /\ asyncSize > 0
       THEN /\ chClosed' = TRUE /\ once' = "running" /\ UNCHANGED stopped
            /\ closer' = [closer EXCEPT ![c] = "wait"]
       ELSE /\ stopped' = TRUE /\ once' = "done" /\ UNCHANGED chClosed
            /\ closer' = [closer EXCEPT ![c] = "lock"]
    /\ sealed' = IF once = "new" THEN acked ELSE sealed
    /\ UNCHANGED <<fileVars, ch, workVars, flusher, panicked, envVars, nextRec, acked>>

\* Close: <-s.stopped.
CloseWaited(c) ==
    /\ ~panicked /\ closer[c] = "wait" /\ stopped
    /\ once' = "done" /\ closer' = [closer EXCEPT ![c] = "lock"]
    /\ UNCHANGED <<fileVars, chanVars, workVars, flusher, stopped, panicked, envVars,
                   appVars>>

\* A slip: Close forgets to flush before it drops the writer.
CloseUnflushed(c) ==
    /\ ~panicked /\ closer[c] = "lock"
    /\ file' = 0 /\ buf' = <<>> /\ bwErr' = FALSE
    /\ closer' = [closer EXCEPT ![c] = "done"]
    /\ UNCHANGED <<disk, faults, stream, writeDay, chanVars, workVars, flusher, stopped,
                   once, panicked, envVars, appVars>>

\* Close: flush, then drop the writer and the file, under the lock.
CloseLocked(c) ==
    /\ ~panicked /\ closer[c] = "lock"
    /\ \E fl \in FlushOutcomes :
         /\ faults' = faults + Bad(fl) /\ faults' <= MaxFault
         /\ disk' = [d \in Days |-> disk[d] \o IF d = file THEN SubSeq(buf, 1, fl.n)
                                                ELSE <<>>]
    /\ file' = 0 /\ buf' = <<>> /\ bwErr' = FALSE
    /\ closer' = [closer EXCEPT ![c] = "done"]
    /\ UNCHANGED <<stream, writeDay, chanVars, workVars, flusher, stopped, once, panicked,
                   envVars, appVars>>

\* The clock passes midnight.
NextDay ==
    /\ day < MaxDay /\ day' = day + 1
    /\ UNCHANGED <<fileVars, chanVars, workVars, closeVars, asyncSize, crashes, appVars>>

\* The process dies, or has panicked, and is restarted on the same directory.
Crash ==
    /\ crashes < MaxCrash /\ crashes' = crashes + 1
    /\ file' = 0 /\ buf' = <<>> /\ bwErr' = FALSE
    /\ ch' = <<>> /\ chClosed' = FALSE
    /\ worker' = NewWorker /\ line' = 0 /\ flusher' = NewFlusher
    /\ stopped' = FALSE /\ once' = "new" /\ panicked' = FALSE
    /\ closer' = [c \in Closers |-> "idle"]
    /\ UNCHANGED <<asyncSize, day, disk, faults, stream, writeDay, appVars>>

Next ==
    \/ AppendSync \/ AppendAsync \/ AppendPanics
    \/ Flush \/ FlusherTick \/ FlusherExit
    \/ WorkerReceive \/ WorkerWrite \/ WorkerTick \/ WorkerFlush \/ WorkerStop
    \/ \E c \in Closers : CloseOnce(c) \/ CloseWaited(c) \/ CloseLocked(c)
    \/ NextDay \/ Crash

Spec == Init /\ [][Next]_vars

(* The background goroutines and a Close under way are scheduled and tickers *)
(* fire; nobody has to call Append, Flush or Close.                          *)
Fairness ==
    /\ WF_vars(FlusherTick) /\ WF_vars(FlusherExit)
    /\ WF_vars(WorkerReceive \/ WorkerWrite) /\ WF_vars(WorkerTick)
    /\ WF_vars(WorkerFlush) /\ WF_vars(WorkerStop)
    /\ \A c \in Closers : WF_vars(CloseWaited(c)) /\ WF_vars(CloseLocked(c))

FairSpec == Spec /\ Fairness

-----------------------------------------------------------------------------
(* Type correctness of the Store, the goroutines and the history; the worker *)
(* writes only lines it has received, and the channel keeps its capacity.    *)
TypeOK ==
    /\ asyncSize \in AsyncSizes /\ day \in Days /\ file \in 0..MaxDay
    /\ disk \in [Days -> Seq(Byte)] /\ stream \in [Days -> Seq(Byte)]
    /\ buf \in Seq(Byte) /\ bwErr \in BOOLEAN
    /\ faults \in 0..MaxFault /\ crashes \in 0..MaxCrash
    /\ ch \in Seq(Recs) /\ Len(ch) <= asyncSize /\ chClosed \in BOOLEAN
    /\ worker \in {"none", "select", "write", "stop", "done"} /\ line \in 0..MaxRec
    /\ worker = "write" => line # 0
    /\ flusher \in {"none", "run", "done"} /\ stopped \in BOOLEAN
    /\ once \in {"new", "running", "done"}
    /\ closer \in [Closers -> {"idle", "wait", "lock", "done"}]
    /\ panicked \in BOOLEAN
    /\ nextRec \in 1..(MaxRec + 1)
    /\ acked \subseteq Recs /\ sealed \subseteq Recs
    /\ writeDay \in [Recs -> 0..MaxDay]

Healthy == faults = 0 /\ crashes = 0

\* The bytes of s.bw that belong to the file of day d.
Pending(d) == IF d = file THEN buf ELSE <<>>

(* As long as no file operation failed and the process did not crash, each   *)
(* day's file followed by what bufio still holds for it is exactly the lines *)
(* writeLocked accepted for that day, whole, once and in order: across       *)
(* overflow flushes, ticker flushes, rotation at midnight, Close and an      *)
(* Append that reopens the file after Close.                                 *)
NothingLost ==
    Healthy => \A d \in Days : disk[d] \o Pending(d) = stream[d]

BytesOf(r, s) == {i \in DOMAIN s : s[i][1] = r}

(* A line that was written while Today() returned d is never found in, nor   *)
(* buffered for, the file of another day: the rotation of ensureFileLocked   *)
(* comes before the write even when the date changes with bytes in bufio.    *)
InRightFile ==
    \A r \in Recs, d \in Days :
        BytesOf(r, disk[d]) # {} \/ BytesOf(r, Pending(d)) # {} => writeDay[r] = d

OnDisk(r) == \E d \in Days : Cardinality(BytesOf(r, disk[d])) = LineLen

(* Once some Close has returned, every record whose Append had returned nil  *)
(* before the first Close began is on disk, whoever closed first and         *)
(* whatever was still in the channel, in the worker's hands or in bufio,     *)
(* unless a write failed.                                                    *)
ClosedMeansDurable ==
    Healthy /\ (\E c \in Closers : closer[c] = "done") => \A r \in sealed : OnDisk(r)

\* A reader finds line r: all of it, behind a newline or the start of the file.
Readable(r) ==
    \E d \in Days : \E i \in 1..(Len(disk[d]) + 1 - LineLen) :
        /\ i = 1 \/ disk[d][i - 1][2] = LineLen
        /\ SubSeq(disk[d], i, i + LineLen - 1) = Line(r)

InBuffer(r) == \E i \in DOMAIN buf : buf[i] = <<r, LineLen>>

\* Lines of which a full buffer holds at least one byte, and the line glued to a torn one.
LossPerFault == ((BufSize + LineLen - 1) \div LineLen) + 1

(* In synchronous mode a failed write, a failed flush or a crash costs at    *)
(* most the acknowledged lines that were in bufio and the one line that is   *)
(* later appended behind a torn line; the damage never spreads further,      *)
(* because bufio refuses every write after the failed one.                   *)
LossBounded ==
    asyncSize = 0 =>
        Cardinality({r \in acked : ~InBuffer(r) /\ ~Readable(r)})
            <= LossPerFault * (faults + crashes)

(* Every record acknowledged before Close is called eventually reaches the   *)
(* disk: the ticker of runFlusher or runAsync, or Close, flushes it, unless  *)
(* a file operation fails or the process dies.                               *)
AckedReachDisk ==
    \A r \in Recs :
        (r \in acked /\ once = "new" /\ Healthy) ~> (OnDisk(r) \/ ~Healthy \/ panicked)

(* Every Close that was called returns as long as the process lives: the     *)
(* worker drains the channel and signals s.stopped even when writes fail.    *)
CloseReturns ==
    \A c \in Closers :
        closer[c] \in {"wait", "lock"} ~> (closer[c] \in {"done", "idle"} \/ panicked)
=============================================================================
