-------------------------- MODULE JsonlStoreProofs --------------------------
(* Proofs about JsonlStore, for every line length, buffer size, channel      *)
(* capacity and number of days, records and closers: type correctness; that  *)
(* without a failing file operation or a crash no byte is lost, doubled or   *)
(* reordered on its way through bufio, flushes, rotation and Close; that     *)
(* every line stays in the file of its day; that Close is durable; and what  *)
(* a failure or a crash can cost at most.                                    *)
EXTENDS JsonlStore, SequenceTheorems, FunctionTheorems, FiniteSetTheorems, TLAPS

\* A write error that bufio remembers was a failed file operation.
ErrInv == bwErr => faults > 0

IInv == TypeOK /\ ErrInv /\ NothingLost

\* The part of the type invariant writes and flushes can disturb.
FileTypes ==
    /\ file \in 0..MaxDay /\ faults \in 0..MaxFault /\ bwErr \in BOOLEAN
    /\ disk \in [Days -> Seq(Byte)] /\ stream \in [Days -> Seq(Byte)]
    /\ buf \in Seq(Byte) /\ writeDay \in [Recs -> 0..MaxDay]

\* What a step of the file owes the invariant.
FileStep ==
    /\ FileTypes' /\ faults' >= faults
    /\ ErrInv => ErrInv'
    /\ ErrInv /\ faults' = 0 /\ (\A d \in Days : disk[d] \o Pending(d) = stream[d])
         => \A d \in Days : disk'[d] \o Pending(d)' = stream'[d]

-----------------------------------------------------------------------------
(* A line is a sequence of LineLen bytes.                                    *)
LEMMA LineIsSeq ==
    ASSUME NEW r \in Recs
    PROVE  Line(r) \in Seq(Byte) /\ Len(Line(r)) = LineLen
<1>1. Line(r) \in [1..LineLen -> Byte]
    BY DEF Line, Byte
<1>2. Line(r) \in Seq(Byte)
    BY <1>1, SeqDef, StoreAssumption
<1>3. QED
    BY <1>1, <1>2, LenProperties, StoreAssumption

(* A sequence cut in two is the two pieces together.                         *)
LEMMA Cut ==
    ASSUME NEW s \in Seq(Byte), NEW n \in 0..Len(s)
    PROVE  /\ SubSeq(s, 1, n) \in Seq(Byte) /\ SubSeq(s, n + 1, Len(s)) \in Seq(Byte)
           /\ SubSeq(s, 1, n) \o SubSeq(s, n + 1, Len(s)) = s
<1>1. Len(s) \in Nat /\ \A i \in 1..Len(s) : s[i] \in Byte
    BY LenProperties, ElementOfSeq
<1>2. SubSeq(s, 1, n) \in Seq(Byte) /\ SubSeq(s, n + 1, Len(s)) \in Seq(Byte)
    BY <1>1, SubSeqProperties
<1>3. 1 \in 1..(Len(s) + 1) /\ n \in (1 - 1)..Len(s) /\ Len(s) \in n..Len(s)
    BY <1>1
<1>4. SubSeq(s, 1, n) \o SubSeq(s, n + 1, Len(s)) = SubSeq(s, 1, Len(s))
    BY <1>3, ConcatAdjacentSubSeq
<1>5. SubSeq(s, 1, Len(s)) = s
    BY SubSeqFull
<1>6. QED
    BY <1>2, <1>4, <1>5

(* Concatenation of byte sequences is associative.                           *)
LEMMA Associative ==
    ASSUME NEW x \in Seq(Byte), NEW y \in Seq(Byte), NEW z \in Seq(Byte)
    PROVE  (x \o y) \o z = x \o (y \o z)
BY ConcatAssociative, SMT

(* Whatever prefix of "buffer and line" leaves the buffer, the file and the  *)
(* rest of the buffer together are the old file, the old buffer and the line. *)
LEMMA CutBehind ==
    ASSUME NEW m \in Seq(Byte), NEW k \in Seq(Byte), NEW l \in Seq(Byte),
           NEW n \in 0..Len(k \o l)
    PROVE  (m \o SubSeq(k \o l, 1, n)) \o SubSeq(k \o l, n + 1, Len(k \o l))
               = (m \o k) \o l
<1> DEFINE kl == k \o l
           a  == SubSeq(kl, 1, n)
           b  == SubSeq(kl, n + 1, Len(kl))
<1>1. kl \in Seq(Byte) /\ n \in 0..Len(kl)
    BY ConcatProperties
<1>0. \A x, y, z \in Seq(Byte) : (x \o y) \o z = x \o (y \o z)
    BY Associative
<1>2. m \o kl = (m \o k) \o l
    BY <1>0
<1> HIDE DEF kl
<1>3. a \in Seq(Byte) /\ b \in Seq(Byte) /\ a \o b = kl
    BY <1>1, Cut
<1> HIDE DEF a, b
<1>4. (m \o a) \o b = m \o (a \o b)
    BY <1>0, <1>3, ConcatAssociative, ZenonT(40)
<1>5. QED
    BY <1>2, <1>3, <1>4 DEF a, b, kl

(* What every outcome of a file operation of n bytes has.                    *)
Outcome(o, n) ==
    /\ o.n \in 0..n /\ o.res \in Results
    /\ o.res = "ok" \/ o.res = "fault" => Bad(o) = IF o.res = "ok" THEN 0 ELSE 1
    /\ Bad(o) \in {0, 1}

(* A write lets at most n bytes through, and all of them unless it faults.   *)
LEMMA FileWriteFacts ==
    ASSUME NEW n \in Nat, NEW o \in FileWrite(n)
    PROVE  Outcome(o, n) /\ o.res \in {"ok", "fault"} /\ (o.res = "ok" => o.n = n)
BY DEF FileWrite, Done, Fault, Outcome, Results, Bad

(* A flush writes what is buffered.                                          *)
LEMMA FlushFacts ==
    ASSUME buf \in Seq(Byte), NEW o \in FlushOutcomes
    PROVE  /\ Outcome(o, Len(buf)) /\ o.res \in {"ok", "fault"}
           /\ o.res = "ok" => o.n = Len(buf)
<1>1. Len(buf) \in Nat /\ Len(<<>>) = 0
    BY LenProperties, EmptySeq
<1>2. CASE buf = <<>>
    BY <1>1, <1>2 DEF FlushOutcomes, Done, Outcome, Results, Bad
<1>3. CASE buf # <<>>
    BY <1>1, <1>3, FileWriteFacts DEF FlushOutcomes
<1>4. QED
    BY <1>2, <1>3

(* A buffered write lets a prefix of the buffer and the line through, and    *)
(* fails only by a fault or because bufio has failed before.                 *)
LEMMA WriteFacts ==
    ASSUME NEW n \in Nat, NEW err \in BOOLEAN, NEW o \in WriteOutcomes(n, err)
    PROVE  Outcome(o, n + LineLen) /\ (o.res = "refused" => err)
<1>1. Overflow(n) \in 0..(n + LineLen)
    BY StoreAssumption DEF Overflow
<1>2. CASE err
    BY <1>2, StoreAssumption DEF WriteOutcomes, Refused, Outcome, Results, Bad
<1>3. CASE ~err /\ Overflow(n) = 0
    BY <1>3, StoreAssumption DEF WriteOutcomes, Done, Outcome, Results, Bad
<1>4. CASE ~err /\ Overflow(n) # 0
  <2>1. o \in FileWrite(Overflow(n))
      BY <1>4 DEF WriteOutcomes
  <2>2. Outcome(o, Overflow(n)) /\ o.res \in {"ok", "fault"}
      BY <1>1, <2>1, FileWriteFacts
  <2>3. QED
      BY <1>1, <2>2, StoreAssumption DEF Outcome
<1>5. QED
    BY <1>2, <1>3, <1>4

(* Flushing the buffer behind its file keeps file and buffer together equal  *)
(* to the stream, for the file that is open and for the others.              *)
LEMMA Flushed ==
    ASSUME FileTypes, NEW fl \in FlushOutcomes, NEW d \in Days
    PROVE  LET out == disk[d] \o IF d = file THEN SubSeq(buf, 1, fl.n) ELSE <<>>
           IN  /\ out \in Seq(Byte)
               /\ fl.res = "ok" => out = disk[d] \o Pending(d)
<1>1. disk[d] \in Seq(Byte) /\ buf \in Seq(Byte) /\ <<>> \in Seq(Byte) /\ Len(buf) \in Nat
    BY EmptySeq, LenProperties DEF FileTypes
<1>2. fl.n \in 0..Len(buf) /\ (fl.res = "ok" => fl.n = Len(buf))
    BY <1>1, FlushFacts DEF Outcome
<1>3. SubSeq(buf, 1, fl.n) \in Seq(Byte) /\ SubSeq(buf, 1, Len(buf)) = buf
    BY <1>1, <1>2, Cut, SubSeqFull
<1>4. QED
    BY <1>1, <1>2, <1>3, ConcatProperties DEF Pending

(* writeLocked owes the invariant what FileStep says, whether today's file   *)
(* is open, or has to be opened behind a rotation.                           *)
LEMMA WriteStep ==
    ASSUME FileTypes, day \in Days, NEW r \in Recs, NEW res \in Results,
           WriteLocked(r, res)
    PROVE  FileStep
<1> DEFINE keep == IF IsCurrent THEN buf ELSE <<>>
           all  == keep \o Line(r)
           into == IF IsCurrent THEN file ELSE day
<1>1. PICK fl \in IF IsCurrent THEN {Done(0)} ELSE FlushOutcomes,
           op \in IF IsCurrent THEN {Done(0)} ELSE FileOpen :
        \E wr \in IF op.res = "ok" THEN WriteOutcomes(Len(keep), IsCurrent /\ bwErr)
                 ELSE {Refused} :
          LET rotated(d) == IF d = file THEN SubSeq(buf, 1, fl.n) ELSE <<>>
              written(d) == IF d = into THEN SubSeq(all, 1, wr.n) ELSE <<>>
          IN  /\ res = wr.res
              /\ faults' = faults + Bad(fl) + Bad(op) + Bad(wr)
              /\ faults' <= MaxFault
              /\ disk' = [d \in Days |-> (disk[d] \o rotated(d)) \o written(d)]
              /\ file' = IF op.res = "ok" THEN into ELSE 0
              /\ buf' = IF res = "ok" THEN SubSeq(all, wr.n + 1, Len(all)) ELSE <<>>
              /\ bwErr' = (op.res = "ok" /\ BufSize > 0 /\ res # "ok")
              /\ stream' = IF res = "ok" THEN [stream EXCEPT ![into] = @ \o Line(r)] ELSE stream
              /\ writeDay' = [writeDay EXCEPT ![r] = day]
    BY DEF WriteLocked
<1>2. PICK wr \in IF op.res = "ok" THEN WriteOutcomes(Len(keep), IsCurrent /\ bwErr)
                 ELSE {Refused} :
        LET rotated(d) == IF d = file THEN SubSeq(buf, 1, fl.n) ELSE <<>>
            written(d) == IF d = into THEN SubSeq(all, 1, wr.n) ELSE <<>>
        IN  /\ res = wr.res
            /\ faults' = faults + Bad(fl) + Bad(op) + Bad(wr)
            /\ faults' <= MaxFault
            /\ disk' = [d \in Days |-> (disk[d] \o rotated(d)) \o written(d)]
            /\ file' = IF op.res = "ok" THEN into ELSE 0
            /\ buf' = IF res = "ok" THEN SubSeq(all, wr.n + 1, Len(all)) ELSE <<>>
            /\ bwErr' = (op.res = "ok" /\ BufSize > 0 /\ res # "ok")
            /\ stream' = IF res = "ok" THEN [stream EXCEPT ![into] = @ \o Line(r)] ELSE stream
            /\ writeDay' = [writeDay EXCEPT ![r] = day]
    BY <1>1
<1> DEFINE mid(d) == disk[d] \o IF d = file THEN SubSeq(buf, 1, fl.n) ELSE <<>>
<1>a. disk' = [d \in Days |-> mid(d) \o IF d = into THEN SubSeq(all, 1, wr.n) ELSE <<>>]
    BY <1>2
<1>b. faults' = faults + Bad(fl) + Bad(op) + Bad(wr) /\ faults' <= MaxFault
    BY <1>2
<1>c. /\ res = wr.res
      /\ file' = IF op.res = "ok" THEN into ELSE 0
      /\ bwErr' = (op.res = "ok" /\ BufSize > 0 /\ res # "ok")
    BY <1>2
<1>d. buf' = IF res = "ok" THEN SubSeq(all, wr.n + 1, Len(all)) ELSE <<>>
    BY <1>2
<1>e. /\ stream' = IF res = "ok" THEN [stream EXCEPT ![into] = @ \o Line(r)] ELSE stream
      /\ writeDay' = [writeDay EXCEPT ![r] = day]
    BY <1>2
<1>3. /\ keep \in Seq(Byte) /\ Len(keep) \in Nat /\ Line(r) \in Seq(Byte)
      /\ Len(Line(r)) = LineLen /\ into \in Days /\ <<>> \in Seq(Byte)
    BY LineIsSeq, LenProperties, EmptySeq, StoreAssumption DEF FileTypes, IsCurrent
<1>4. /\ fl.res \in {"ok", "fault"} /\ Bad(fl) \in {0, 1} /\ (Bad(fl) = 0 => fl.res = "ok")
      /\ IsCurrent => fl.n = 0
      /\ ~IsCurrent => fl \in FlushOutcomes
  <2>1. CASE IsCurrent
      BY <2>1 DEF Done, Bad
  <2>2. CASE ~IsCurrent
      BY <2>2, FlushFacts DEF FileTypes, Outcome
  <2>3. QED
      BY <2>1, <2>2
<1>5. Bad(op) \in {0, 1} /\ (Bad(op) = 0 => op.res = "ok")
    BY DEF Done, Fault, FileOpen, Bad
<1>6. \A d \in Days : mid(d) \in Seq(Byte)
  <2>1. CASE IsCurrent
    <3>1. \A d \in Days : disk[d] \in Seq(Byte) /\ disk[d] \o <<>> = disk[d]
        BY ConcatEmptySeq DEF FileTypes
    <3>2. SubSeq(buf, 1, 0) = <<>>
        BY SubSeqEmpty
    <3>3. QED
        BY <1>4, <2>1, <3>1, <3>2
  <2>2. CASE ~IsCurrent
      BY <1>4, <2>2, Flushed
  <2>3. QED
      BY <2>1, <2>2
<1>7. ASSUME \A d \in Days : disk[d] \o Pending(d) = stream[d], fl.res = "ok",
             NEW d \in Days
      PROVE  mid(d) \o (IF d = into THEN keep ELSE <<>>) = stream[d]
  <2>1. CASE IsCurrent
    <3>1. disk[d] \in Seq(Byte) /\ disk[d] \o <<>> = disk[d]
        BY ConcatEmptySeq DEF FileTypes
    <3>2. SubSeq(buf, 1, 0) = <<>>
        BY SubSeqEmpty
    <3>3. mid(d) = disk[d]
        BY <1>4, <2>1, <3>1, <3>2
    <3>4. QED
        BY <1>7, <2>1, <3>3 DEF Pending
  <2>2. CASE ~IsCurrent
    <3>1. mid(d) = stream[d]
        BY <1>4, <1>7, <2>2, Flushed
    <3>2. stream[d] \o <<>> = stream[d]
        BY ConcatEmptySeq DEF FileTypes
    <3>3. QED
        BY <2>2, <3>1, <3>2
  <2>3. QED
      BY <2>1, <2>2
<1>8. all \in Seq(Byte) /\ Len(all) = Len(keep) + LineLen
  <2> HIDE DEF keep
  <2>1. QED
      BY <1>3, ConcatProperties
<1> HIDE DEF mid, into, keep
<1>9. /\ wr.n \in 0..Len(all) /\ wr.res \in Results /\ Bad(wr) \in {0, 1}
      /\ Bad(wr) = 0 /\ wr.res # "ok" => op.res # "ok" \/ bwErr
  <2>1. CASE op.res = "ok"
    <3>1. (IsCurrent /\ bwErr) \in BOOLEAN
        BY DEF IsCurrent
    <3>2. Outcome(wr, Len(keep) + LineLen) /\ (wr.res = "refused" => IsCurrent /\ bwErr)
        BY <1>2, <1>3, <2>1, <3>1, WriteFacts
    <3>3. QED
        BY <1>8, <3>2 DEF Outcome, Results, Bad
  <2>2. CASE op.res # "ok"
      BY <1>2, <1>3, <1>8, <2>2, StoreAssumption DEF Refused, Results, Bad
  <2>3. QED
      BY <2>1, <2>2
<1>10. /\ SubSeq(all, 1, wr.n) \in Seq(Byte) /\ SubSeq(all, wr.n + 1, Len(all)) \in Seq(Byte)
  <2> HIDE DEF all
  <2>1. QED
      BY <1>8, <1>9, Cut
<1>11. FileTypes'
  <2>1. disk' \in [Days -> Seq(Byte)]
    <3> HIDE DEF all
    <3>1. \A d \in Days : mid(d) \o (IF d = into THEN SubSeq(all, 1, wr.n) ELSE <<>>)
                            \in Seq(Byte)
        BY <1>3, <1>6, <1>10, ConcatProperties
    <3>2. QED
        BY <1>a, <3>1
  <2>2. stream' \in [Days -> Seq(Byte)]
    <3>1. stream[into] \o Line(r) \in Seq(Byte)
        BY <1>3, ConcatProperties DEF FileTypes
    <3>2. QED
        BY <1>e, <1>3, <3>1 DEF FileTypes
  <2>3. buf' \in Seq(Byte)
      BY <1>d, <1>3, <1>10
  <2>4. faults' \in 0..MaxFault /\ file' \in 0..MaxDay
    <3>1. faults' \in Nat
        BY <1>b, <1>4, <1>5, <1>9 DEF FileTypes
    <3>2. file' \in 0..MaxDay
        BY <1>c, <1>3, StoreAssumption DEF Days
    <3>3. QED
        BY <1>b, <3>1, <3>2, StoreAssumption
  <2>5. bwErr' \in BOOLEAN
      BY <1>c
  <2>6. writeDay' \in [Recs -> 0..MaxDay]
      BY <1>e, StoreAssumption DEF FileTypes, Days
  <2>7. QED
      BY <2>1, <2>2, <2>3, <2>4, <2>5, <2>6 DEF FileTypes
<1>12. faults' >= faults /\ (ErrInv => ErrInv')
    BY <1>b, <1>c, <1>4, <1>5, <1>9, StoreAssumption, SMTT(30) DEF FileTypes, ErrInv
<1>13. ASSUME ErrInv, faults' = 0, \A d \in Days : disk[d] \o Pending(d) = stream[d],
              NEW d \in Days
       PROVE  disk'[d] \o Pending(d)' = stream'[d]
  <2>1. fl.res = "ok" /\ op.res = "ok" /\ wr.res = "ok"
    <3>1. Bad(fl) \in Nat /\ Bad(op) \in Nat /\ Bad(wr) \in Nat
        BY <1>4, <1>5, <1>9
    <3>2. faults \in Nat
        BY DEF FileTypes
    <3>3. Bad(fl) = 0 /\ Bad(op) = 0 /\ Bad(wr) = 0 /\ faults = 0
        BY <1>b, <1>13, <3>1, <3>2
    <3>4. ~bwErr
        BY <1>13, <3>3 DEF ErrInv
    <3>5. fl.res = "ok" /\ op.res = "ok"
        BY <1>4, <1>5, <3>3
    <3>6. QED
        BY <1>9, <3>3, <3>4, <3>5
  <2>2. mid(d) \o (IF d = into THEN keep ELSE <<>>) = stream[d]
      BY <1>7, <1>13, <2>1
  <2>3. CASE d = into
    <3>1. /\ disk'[d] = mid(d) \o SubSeq(all, 1, wr.n)
          /\ Pending(d)' = SubSeq(all, wr.n + 1, Len(all))
          /\ stream'[d] = stream[d] \o Line(r)
        BY <1>a, <1>c, <1>d, <1>e, <2>1, <2>3 DEF Pending, FileTypes
    <3>2. disk'[d] \o Pending(d)' = (mid(d) \o keep) \o Line(r)
      <4>1. PICK m, k, l, n : m = mid(d) /\ k = keep /\ l = Line(r) /\ n = wr.n
          OBVIOUS
      <4>2. m \in Seq(Byte) /\ k \in Seq(Byte) /\ l \in Seq(Byte) /\ n \in 0..Len(k \o l)
          BY <1>3, <1>6, <1>9, <4>1
      <4>3. (m \o SubSeq(k \o l, 1, n)) \o SubSeq(k \o l, n + 1, Len(k \o l)) = (m \o k) \o l
          BY <4>2, CutBehind, ZenonT(40)
      <4>4. QED
          BY <3>1, <4>1, <4>3
    <3>3. QED
        BY <2>2, <2>3, <3>1, <3>2
  <2>4. CASE d # into
    <3>1. disk'[d] = mid(d) \o <<>> /\ Pending(d)' = <<>> /\ stream'[d] = stream[d]
        BY <1>a, <1>c, <1>d, <1>e, <1>3, <2>1, <2>4 DEF Pending, FileTypes
    <3>2. mid(d) \o <<>> = stream[d]
        BY <2>2, <2>4
    <3>3. stream[d] \o <<>> = stream[d]
        BY ConcatEmptySeq DEF FileTypes
    <3>4. QED
        BY <3>1, <3>2, <3>3
  <2>5. QED
      BY <2>3, <2>4
<1>14. QED
    BY <1>11, <1>12, <1>13 DEF FileStep

(* What flushes have in common: the buffer goes behind the open file, the    *)
(* writer is kept or dropped.                                                *)
LEMMA FlushStep ==
    ASSUME FileTypes, NEW fl \in FlushOutcomes,
           faults' = faults + Bad(fl), faults' <= MaxFault,
           disk' = [d \in Days |-> disk[d] \o IF d = file THEN SubSeq(buf, 1, fl.n) ELSE <<>>],
           buf' = <<>>, stream' = stream, writeDay' = writeDay, file' \in {0, file},
           bwErr' \in BOOLEAN, bwErr' => bwErr \/ fl.res # "ok"
    PROVE  FileStep
<1>1. fl.res \in {"ok", "fault"} /\ Bad(fl) \in {0, 1} /\ (Bad(fl) = 0 => fl.res = "ok")
    BY FlushFacts DEF FileTypes, Outcome
<1>2. FileTypes'
  <2>1. disk' \in [Days -> Seq(Byte)]
      BY Flushed
  <2>2. faults' \in Nat
      BY <1>1 DEF FileTypes
  <2>3. QED
      BY <2>1, <2>2, EmptySeq, StoreAssumption DEF FileTypes
<1>3. faults' >= faults /\ (ErrInv => ErrInv')
    BY <1>1 DEF FileTypes, ErrInv
<1>4. ASSUME ErrInv, faults' = 0, \A d \in Days : disk[d] \o Pending(d) = stream[d],
             NEW d \in Days
      PROVE  disk'[d] \o Pending(d)' = stream'[d]
  <2>1. fl.res = "ok"
      BY <1>1, <1>4 DEF FileTypes
  <2>2. disk'[d] = stream[d] /\ Pending(d)' = <<>>
      BY <1>4, <2>1, Flushed DEF Pending
  <2>3. stream[d] \o <<>> = stream[d]
      BY ConcatEmptySeq DEF FileTypes
  <2>4. QED
      BY <2>2, <2>3
<1>5. QED
    BY <1>2, <1>3, <1>4 DEF FileStep

(* The Flush of the Store.                                                   *)
LEMMA FlushLockedStep ==
    ASSUME FileTypes, FlushLocked, file' = file
    PROVE  FileStep
<1>1. PICK fl \in FlushOutcomes :
        /\ faults' = faults + Bad(fl) /\ faults' <= MaxFault
        /\ disk' = [d \in Days |-> disk[d] \o IF d = file THEN SubSeq(buf, 1, fl.n) ELSE <<>>]
        /\ buf' = <<>>
        /\ bwErr' = (bwErr \/ fl.res # "ok")
        /\ UNCHANGED <<stream, writeDay>>
    BY DEF FlushLocked
<1>2. bwErr' \in BOOLEAN /\ (bwErr' => bwErr \/ fl.res # "ok")
    BY <1>1 DEF FileTypes
<1>3. QED
    BY <1>1, <1>2, FlushStep

(* A step that leaves the files and the writer alone.                        *)
LEMMA IdleStep ==
    ASSUME FileTypes, UNCHANGED fileVars
    PROVE  FileStep
BY DEF FileTypes, fileVars, FileStep, ErrInv, Pending

\* The rest of the type invariant.
RestTypes ==
    /\ asyncSize \in AsyncSizes /\ day \in Days /\ crashes \in 0..MaxCrash
    /\ ch \in Seq(Recs) /\ Len(ch) <= asyncSize /\ chClosed \in BOOLEAN
    /\ worker \in {"none", "select", "write", "stop", "done"} /\ line \in 0..MaxRec
    /\ worker = "write" => line # 0
    /\ flusher \in {"none", "run", "done"} /\ stopped \in BOOLEAN
    /\ once \in {"new", "running", "done"}
    /\ closer \in [Closers -> {"idle", "wait", "lock", "done"}]
    /\ panicked \in BOOLEAN
    /\ nextRec \in 1..(MaxRec + 1)
    /\ acked \subseteq Recs /\ sealed \subseteq Recs

(* A Store keeps the mode it was made with.                                  *)
LEMMA SameMode == [Next]_vars => asyncSize' = asyncSize
BY DEF Next, vars, envVars, AppendSync, AppendAsync, AppendPanics, Flush, FlusherTick, FlusherExit,
   WorkerReceive, WorkerWrite, WorkerTick, WorkerFlush, WorkerStop, CloseOnce, CloseWaited,
   CloseLocked, NextDay, Crash

(* The type invariant is that of the file and that of the rest.              *)
LEMMA TypeParts == TypeOK <=> FileTypes /\ RestTypes
BY DEF TypeOK, FileTypes, RestTypes

(* The invariant holds initially.                                            *)
LEMMA InitInv == Init => IInv
<1> SUFFICES ASSUME Init PROVE IInv
    OBVIOUS
<1>1. <<>> \in Seq(Byte) /\ <<>> \in Seq(Recs) /\ Len(<<>>) = 0
    BY EmptySeq
<1>2. TypeOK
  <2>1. FileTypes
    <3>1. bwErr \in BOOLEAN
        BY DEF Init
    <3>2. file \in 0..MaxDay /\ faults \in 0..MaxFault /\ writeDay \in [Recs -> 0..MaxDay]
        BY StoreAssumption DEF Init
    <3>3. /\ disk \in [Days -> Seq(Byte)] /\ stream \in [Days -> Seq(Byte)]
          /\ buf \in Seq(Byte)
        BY <1>1 DEF Init
    <3>4. QED
        BY <3>1, <3>2, <3>3 DEF FileTypes
  <2>2. NewWorker \in {"none", "select"} /\ NewFlusher \in {"none", "run"}
      BY DEF NewWorker, NewFlusher
  <2>3. RestTypes
    <3>1. /\ chClosed \in BOOLEAN /\ stopped \in BOOLEAN /\ panicked \in BOOLEAN
          /\ acked \subseteq Recs /\ sealed \subseteq Recs
        BY DEF Init
    <3>2. /\ day \in Days /\ crashes \in 0..MaxCrash /\ nextRec \in 1..(MaxRec + 1)
          /\ line \in 0..MaxRec
        BY StoreAssumption DEF Init, Days
    <3>3. asyncSize \in AsyncSizes /\ ch \in Seq(Recs) /\ Len(ch) <= asyncSize
        BY <1>1, StoreAssumption DEF Init
    <3>4. /\ worker \in {"none", "select"} /\ flusher \in {"none", "run"}
          /\ once \in {"new", "running", "done"}
          /\ closer \in [Closers -> {"idle", "wait", "lock", "done"}]
        BY <2>2 DEF Init
    <3>5. QED
        BY <3>1, <3>2, <3>3, <3>4 DEF RestTypes
  <2>4. QED
      BY <2>1, <2>3, TypeParts
<1>3. \A d \in Days : disk[d] \o Pending(d) = stream[d]
  <2>1. <<>> \o <<>> = <<>>
      BY <1>1, ConcatEmptySeq
  <2>2. QED
      BY <2>1 DEF Init, Pending
<1>4. QED
    BY <1>2, <1>3 DEF IInv, ErrInv, NothingLost, Init

(* A step of the file that keeps the rest well typed and does not crash      *)
(* keeps the invariant.                                                      *)
LEMMA FileStepKeeps ==
    ASSUME IInv, FileStep, RestTypes', crashes' = crashes
    PROVE  IInv'
<1>1. TypeOK'
    BY TypeParts, PTL DEF FileStep
<1>2. ErrInv'
    BY DEF IInv, FileStep
<1>3. ASSUME Healthy'
      PROVE  \A d \in Days : disk'[d] \o Pending(d)' = stream'[d]
  <2>1. faults \in Nat /\ faults' \in Nat /\ faults' >= faults /\ faults' = 0 /\ crashes = 0
      BY <1>3 DEF IInv, TypeOK, FileStep, FileTypes, Healthy
  <2>2. Healthy
      BY <2>1 DEF Healthy
  <2>3. QED
      BY <2>1, <2>2 DEF IInv, NothingLost, FileStep
<1>4. NothingLost'
    BY <1>3 DEF NothingLost
<1>5. QED
    BY <1>1, <1>2, <1>4 DEF IInv

(* Every step keeps the invariant.                                           *)
LEMMA NextInv == IInv /\ [Next]_vars => IInv'
<1> SUFFICES ASSUME IInv, [Next]_vars PROVE IInv'
    OBVIOUS
<1>1. FileTypes /\ RestTypes
    BY TypeParts DEF IInv
<1>2. nextRec \in Nat /\ (nextRec <= MaxRec => nextRec \in Recs)
    BY <1>1, StoreAssumption DEF RestTypes, Recs
<1>3. CASE AppendSync
  <2>1. PICK res \in Results :
          /\ WriteLocked(nextRec, res)
          /\ acked' = IF res = "ok" THEN acked \union {nextRec} ELSE acked
      BY <1>3 DEF AppendSync
  <2>2. nextRec <= MaxRec /\ nextRec' = nextRec + 1
        /\ UNCHANGED <<chanVars, workVars, closeVars, envVars, sealed>>
      BY <1>3 DEF AppendSync, MayAppend
  <2>3. FileStep
      BY <1>1, <1>2, <2>1, <2>2, WriteStep DEF RestTypes
  <2>4. RestTypes' /\ crashes' = crashes
      BY <1>1, <1>2, <2>1, <2>2, StoreAssumption
         DEF RestTypes, chanVars, workVars, closeVars, envVars
  <2>5. QED
      BY <2>3, <2>4, FileStepKeeps
<1>4. CASE AppendAsync
  <2>1. ch' \in Seq(Recs) /\ Len(ch') <= asyncSize
    <3>1. /\ nextRec \in Recs /\ ch \in Seq(Recs) /\ Len(ch) \in Nat /\ Len(ch) <= asyncSize
          /\ ch' = IF Len(ch) < asyncSize THEN Append(ch, nextRec) ELSE ch
        BY <1>1, <1>2, <1>4, LenProperties DEF AppendAsync, MayAppend, RestTypes
    <3>2. Append(ch, nextRec) \in Seq(Recs) /\ Len(Append(ch, nextRec)) = Len(ch) + 1
        BY <3>1, AppendProperties
    <3>3. asyncSize \in Nat
        BY <1>1, StoreAssumption DEF RestTypes
    <3>4. QED
        BY <3>1, <3>2, <3>3
  <2>2. RestTypes' /\ crashes' = crashes
      BY <1>1, <1>2, <1>4, <2>1, StoreAssumption
         DEF AppendAsync, MayAppend, RestTypes, workVars, closeVars, envVars
  <2>3. QED
      BY <1>1, <1>4, <2>2, IdleStep, FileStepKeeps DEF AppendAsync
<1>5. CASE AppendPanics
  <2>1. RestTypes' /\ crashes' = crashes
      BY <1>1, <1>5 DEF AppendPanics, RestTypes, chanVars, workVars, envVars, appVars
  <2>2. QED
      BY <1>1, <1>5, <2>1, IdleStep, FileStepKeeps DEF AppendPanics
<1>6. ASSUME Flush PROVE IInv'
  <2>1. FileStep
      BY <1>1, <1>6, FlushLockedStep DEF Flush
  <2>2. RestTypes' /\ crashes' = crashes
      BY <1>1, <1>6 DEF Flush, RestTypes, chanVars, workVars, closeVars, envVars, appVars
  <2>3. QED
      BY <2>1, <2>2, FileStepKeeps
<1>7. CASE FlusherTick
    BY <1>6, <1>7 DEF FlusherTick
<1>8. CASE FlusherExit
  <2>1. RestTypes' /\ crashes' = crashes
      BY <1>1, <1>8 DEF FlusherExit, RestTypes, chanVars, workVars, envVars, appVars
  <2>2. QED
      BY <1>1, <1>8, <2>1, IdleStep, FileStepKeeps DEF FlusherExit
<1>9. CASE WorkerReceive
  <2>1. line' \in Recs /\ ch' \in Seq(Recs) /\ Len(ch') <= asyncSize
      BY <1>1, <1>9, HeadTailProperties, LenProperties, StoreAssumption
         DEF WorkerReceive, RestTypes
  <2>2. RestTypes' /\ crashes' = crashes
      BY <1>1, <1>9, <2>1, StoreAssumption
         DEF WorkerReceive, RestTypes, Recs, closeVars, envVars, appVars
  <2>3. QED
      BY <1>1, <1>9, <2>2, IdleStep, FileStepKeeps DEF WorkerReceive
<1>10. CASE WorkerWrite
  <2>1. line \in Recs
      BY <1>1, <1>10, StoreAssumption DEF WorkerWrite, RestTypes, Recs
  <2>2. FileStep
      BY <1>1, <1>10, <2>1, WriteStep DEF WorkerWrite, RestTypes
  <2>3. RestTypes' /\ crashes' = crashes
      BY <1>1, <1>10, StoreAssumption
         DEF WorkerWrite, RestTypes, chanVars, closeVars, envVars, appVars
  <2>4. QED
      BY <2>2, <2>3, FileStepKeeps
<1>11. CASE WorkerTick
    BY <1>6, <1>11 DEF WorkerTick
<1>12. CASE WorkerFlush
  <2>1. FileStep
      BY <1>1, <1>12, FlushLockedStep DEF WorkerFlush
  <2>2. RestTypes' /\ crashes' = crashes
      BY <1>1, <1>12 DEF WorkerFlush, RestTypes, chanVars, closeVars, envVars, appVars
  <2>3. QED
      BY <2>1, <2>2, FileStepKeeps
<1>13. CASE WorkerStop
  <2>1. RestTypes' /\ crashes' = crashes
      BY <1>1, <1>13 DEF WorkerStop, RestTypes, chanVars, envVars, appVars
  <2>2. QED
      BY <1>1, <1>13, <2>1, IdleStep, FileStepKeeps DEF WorkerStop
<1>14. ASSUME NEW c \in Closers, CloseOnce(c) PROVE IInv'
  <2>1. RestTypes' /\ crashes' = crashes
      BY <1>1, <1>14 DEF CloseOnce, RestTypes, workVars, envVars
  <2>2. QED
      BY <1>1, <1>14, <2>1, IdleStep, FileStepKeeps DEF CloseOnce
<1>15. ASSUME NEW c \in Closers, CloseWaited(c) PROVE IInv'
  <2>1. RestTypes' /\ crashes' = crashes
      BY <1>1, <1>15 DEF CloseWaited, RestTypes, chanVars, workVars, envVars, appVars
  <2>2. QED
      BY <1>1, <1>15, <2>1, IdleStep, FileStepKeeps DEF CloseWaited
<1>16. ASSUME NEW c \in Closers, CloseLocked(c) PROVE IInv'
  <2>1. PICK fl \in FlushOutcomes :
          /\ faults' = faults + Bad(fl) /\ faults' <= MaxFault
          /\ disk' = [d \in Days |-> disk[d] \o IF d = file THEN SubSeq(buf, 1, fl.n)
                                                 ELSE <<>>]
      BY <1>16 DEF CloseLocked
  <2>2. FileStep
      BY <1>1, <1>16, <2>1, FlushStep DEF CloseLocked
  <2>3. RestTypes' /\ crashes' = crashes
      BY <1>1, <1>16 DEF CloseLocked, RestTypes, chanVars, workVars, envVars, appVars
  <2>4. QED
      BY <2>2, <2>3, FileStepKeeps
<1>17. CASE NextDay
  <2>1. RestTypes' /\ crashes' = crashes
      BY <1>1, <1>17, StoreAssumption
         DEF NextDay, RestTypes, Days, chanVars, workVars, closeVars, appVars
  <2>2. QED
      BY <1>1, <1>17, <2>1, IdleStep, FileStepKeeps DEF NextDay
<1>18. CASE Crash
  <2>1. <<>> \in Seq(Byte) /\ <<>> \in Seq(Recs) /\ Len(<<>>) = 0
      BY EmptySeq
  <2>2. FileTypes' /\ ErrInv'
    <3>1. bwErr' = FALSE /\ file' = 0 /\ buf' = <<>>
          /\ UNCHANGED <<disk, faults, stream, writeDay>>
        BY <1>18 DEF Crash
    <3>2. bwErr' \in BOOLEAN /\ ErrInv'
        BY <3>1 DEF ErrInv
    <3>3. file' \in 0..MaxDay /\ buf' \in Seq(Byte)
        BY <2>1, <3>1, StoreAssumption
    <3>4. QED
        BY <1>1, <3>1, <3>2, <3>3 DEF FileTypes
  <2>3. NewWorker \in {"none", "select"} /\ NewFlusher \in {"none", "run"}
      BY DEF NewWorker, NewFlusher
  <2>4. RestTypes'
    <3>1. /\ chClosed' \in BOOLEAN /\ stopped' \in BOOLEAN /\ panicked' \in BOOLEAN
        BY <1>18 DEF Crash
    <3>2. /\ day' \in Days /\ crashes' \in 0..MaxCrash /\ line' \in 0..MaxRec
          /\ nextRec' \in 1..(MaxRec + 1) /\ acked' \subseteq Recs /\ sealed' \subseteq Recs
        BY <1>1, <1>18, StoreAssumption DEF Crash, RestTypes, appVars
    <3>3. asyncSize' \in AsyncSizes /\ ch' \in Seq(Recs) /\ Len(ch') <= asyncSize'
        BY <1>1, <1>18, <2>1, StoreAssumption DEF Crash, RestTypes
    <3>4. /\ worker' \in {"none", "select"} /\ flusher' \in {"none", "run"}
          /\ once' \in {"new", "running", "done"}
          /\ closer' \in [Closers -> {"idle", "wait", "lock", "done"}]
        BY <1>18, <2>3 DEF Crash
    <3>5. QED
        BY <3>1, <3>2, <3>3, <3>4 DEF RestTypes
  <2>5. crashes' > 0
      BY <1>1, <1>18 DEF Crash, RestTypes
  <2>6. QED
    <3>1. TypeOK'
        BY <2>2, <2>4, TypeParts, PTL
    <3>2. NothingLost'
        BY <2>5 DEF NothingLost, Healthy
    <3>3. QED
        BY <2>2, <3>1, <3>2 DEF IInv
<1>19. CASE UNCHANGED vars
  <2>1. RestTypes' /\ crashes' = crashes
      BY <1>1, <1>19 DEF vars, RestTypes, chanVars, workVars, closeVars, envVars, appVars
  <2>2. QED
      BY <1>1, <1>19, <2>1, IdleStep, FileStepKeeps DEF vars
<1>20. QED
    BY <1>3, <1>4, <1>5, <1>6, <1>7, <1>8, <1>9, <1>10, <1>11, <1>12, <1>13, <1>14, <1>15,
       <1>16, <1>17, <1>18, <1>19 DEF Next

-----------------------------------------------------------------------------
(* The inductive invariant holds in every state of the Store.                *)
THEOREM Invariant == Spec => []IInv
<1>1. Init => IInv
    BY InitInv
<1>2. IInv /\ [Next]_vars => IInv'
    BY NextInv
<1>3. QED
    BY <1>1, <1>2, PTL DEF Spec

(* The Store, its goroutines and its channel keep their types and the        *)
(* channel its capacity.                                                     *)
THEOREM TypeCorrect == Spec => []TypeOK
<1>1. IInv => TypeOK
    BY DEF IInv
<1>2. QED
    BY <1>1, Invariant, PTL

(* As long as nothing fails, no byte that writeLocked accepted is lost,      *)
(* doubled, reordered or put into another day's file on its way through      *)
(* bufio, flushes, rotation, Close and reopening.                            *)
THEOREM NoByteLost == Spec => []NothingLost
<1>1. IInv => NothingLost
    BY DEF IInv
<1>2. QED
    BY <1>1, Invariant, PTL

-----------------------------------------------------------------------------
(* Every line in the file of its day.                                        *)

\* Every byte of s is of a line of the set R.
From(s, R) == \A i \in 1..Len(s) : s[i][1] \in R

\* The lines written on day d.
Of(d) == {r \in Recs : writeDay[r] = d}

\* The files, the buffer and the history hold only lines of their day.
Sorted ==
    \A d \in Days : From(disk[d], Of(d)) /\ From(Pending(d), Of(d)) /\ From(stream[d], Of(d))

\* A line not yet appended, in the channel or in the worker's hands is unwritten, and
\* no line is in two of these places.
Fresh ==
    /\ \A r \in Recs : r >= nextRec => writeDay[r] = 0
    /\ \A i \in 1..Len(ch) : writeDay[ch[i]] = 0 /\ ch[i] < nextRec /\ ch[i] # line
    /\ \A i, j \in 1..Len(ch) : i # j => ch[i] # ch[j]
    /\ line # 0 => writeDay[line] = 0 /\ line < nextRec

(* What is cut out of, put together from or counts as a line's bytes.        *)
LEMMA FromParts ==
    ASSUME NEW R
    PROVE  /\ From(<<>>, R)
           /\ \A s, t \in Seq(Byte) : From(s, R) /\ From(t, R) => From(s \o t, R)
           /\ \A s \in Seq(Byte) : \A n \in 0..Len(s) :
                From(s, R) => From(SubSeq(s, 1, n), R) /\ From(SubSeq(s, n + 1, Len(s)), R)
           /\ \A r \in R : From(Line(r), R)
<1>1. From(<<>>, R)
    BY EmptySeq DEF From
<1>2. ASSUME NEW s \in Seq(Byte), NEW t \in Seq(Byte), From(s, R), From(t, R)
      PROVE  From(s \o t, R)
    BY <1>2, ConcatProperties, LenProperties DEF From
<1>3. ASSUME NEW s \in Seq(Byte), NEW n \in 0..Len(s), From(s, R)
      PROVE  From(SubSeq(s, 1, n), R) /\ From(SubSeq(s, n + 1, Len(s)), R)
  <2>1. Len(s) \in Nat /\ \A i \in 1..Len(s) : s[i] \in Byte
      BY LenProperties, ElementOfSeq
  <2>2. /\ Len(SubSeq(s, 1, n)) = n /\ \A i \in 1..n : SubSeq(s, 1, n)[i] = s[i]
        /\ Len(SubSeq(s, n + 1, Len(s))) = Len(s) - n
        /\ \A i \in 1..(Len(s) - n) : SubSeq(s, n + 1, Len(s))[i] = s[n + i]
      BY <2>1, SubSeqProperties
  <2>3. QED
      BY <1>3, <2>1, <2>2 DEF From
<1>4. ASSUME NEW r \in R
      PROVE  From(Line(r), R)
  <2>1. Line(r) = [i \in 1..LineLen |-> <<r, i>>] /\ LineLen \in Nat
      BY StoreAssumption DEF Line
  <2>2. Len(Line(r)) = LineLen
      BY <2>1
  <2>3. QED
      BY <2>1, <2>2 DEF From
<1>5. QED
    BY <1>1, <1>2, <1>3, <1>4

(* What From says of a larger set.                                           *)
LEMMA FromMore ==
    ASSUME NEW R, NEW Q, R \subseteq Q, NEW s, From(s, R)
    PROVE  From(s, Q)
BY DEF From

\* What writeLocked does with a line: f is flushed into the file that is open, k stays in
\* the buffer, and n bytes of k and the line go to today's file.
Shape(r, res, f, k, n) ==
    /\ \E m \in 0..Len(buf) : f = SubSeq(buf, 1, m)
    /\ k = <<>> \/ (k = buf /\ file = day)
    /\ n \in 0..Len(k \o Line(r))
    /\ disk' = [d \in Days |-> (disk[d] \o IF d = file THEN f ELSE <<>>)
                                 \o IF d = day THEN SubSeq(k \o Line(r), 1, n) ELSE <<>>]
    /\ file' \in {0, day}
    /\ buf' = <<>> \/ (file' = day /\ buf' = SubSeq(k \o Line(r), n + 1, Len(k \o Line(r))))
    /\ stream' = IF res = "ok" THEN [stream EXCEPT ![day] = @ \o Line(r)] ELSE stream
    /\ writeDay' = [writeDay EXCEPT ![r] = day]
    /\ ErrInv /\ faults' = 0 => res = "ok"

\* What that costs: x, y and z are the failures of the flush, the open and the write.
Price(r, res, f, k, n) ==
    /\ IF IsCurrent THEN k = buf /\ f = <<>> ELSE k = <<>>
    /\ res = "ok" => file' = day /\ (Len(k) <= BufSize => Len(k) + LineLen - n <= BufSize)
    /\ res = "ok" => buf' = SubSeq(k \o Line(r), n + 1, Len(k \o Line(r)))
    /\ res # "ok" => buf' = <<>>
    /\ res = "refused" => n = 0 /\ (k = <<>> \/ bwErr)
    /\ bwErr' => buf' = <<>>
    /\ \E x, y, z \in {0, 1} : /\ faults' = faults + x + y + z
                               /\ x = 0 /\ ~IsCurrent => f = buf
                               /\ res = "fault" => z = 1

(* A buffered write that succeeds leaves no more than the buffer holds.      *)
LEMMA WriteFits ==
    ASSUME NEW n \in Nat, NEW err, NEW o \in WriteOutcomes(n, err), o.res = "ok",
           n <= BufSize
    PROVE  n + LineLen - o.n <= BufSize
<1>1. ~err
    BY DEF WriteOutcomes, Refused
<1>2. Overflow(n) \in Nat /\ n + LineLen - Overflow(n) <= BufSize
    BY StoreAssumption DEF Overflow
<1>3. o.n = Overflow(n)
    BY <1>1, <1>2, FileWriteFacts DEF WriteOutcomes, Done
<1>4. QED
    BY <1>2, <1>3

(* Every way through writeLocked has that shape and that price, and a write  *)
(* fails only by a fault now or earlier.                                     *)
LEMMA WriteShape ==
    ASSUME FileTypes, day \in Days, NEW r \in Recs, NEW res \in Results,
           WriteLocked(r, res)
    PROVE  \E f \in Seq(Byte), k \in Seq(Byte), n \in Nat :
               Shape(r, res, f, k, n) /\ Price(r, res, f, k, n)
<1> DEFINE keep == IF IsCurrent THEN buf ELSE <<>>
           all  == keep \o Line(r)
           into == IF IsCurrent THEN file ELSE day
<1>1. PICK fl \in IF IsCurrent THEN {Done(0)} ELSE FlushOutcomes,
           op \in IF IsCurrent THEN {Done(0)} ELSE FileOpen :
        \E wr \in IF op.res = "ok" THEN WriteOutcomes(Len(keep), IsCurrent /\ bwErr)
                 ELSE {Refused} :
          LET rotated(d) == IF d = file THEN SubSeq(buf, 1, fl.n) ELSE <<>>
              written(d) == IF d = into THEN SubSeq(all, 1, wr.n) ELSE <<>>
          IN  /\ res = wr.res
              /\ faults' = faults + Bad(fl) + Bad(op) + Bad(wr)
              /\ faults' <= MaxFault
              /\ disk' = [d \in Days |-> (disk[d] \o rotated(d)) \o written(d)]
              /\ file' = IF op.res = "ok" THEN into ELSE 0
              /\ buf' = IF res = "ok" THEN SubSeq(all, wr.n + 1, Len(all)) ELSE <<>>
              /\ bwErr' = (op.res = "ok" /\ BufSize > 0 /\ res # "ok")
              /\ stream' = IF res = "ok" THEN [stream EXCEPT ![into] = @ \o Line(r)] ELSE stream
              /\ writeDay' = [writeDay EXCEPT ![r] = day]
    BY DEF WriteLocked
<1>2. PICK wr \in IF op.res = "ok" THEN WriteOutcomes(Len(keep), IsCurrent /\ bwErr)
                 ELSE {Refused} :
        LET rotated(d) == IF d = file THEN SubSeq(buf, 1, fl.n) ELSE <<>>
            written(d) == IF d = into THEN SubSeq(all, 1, wr.n) ELSE <<>>
        IN  /\ res = wr.res
            /\ faults' = faults + Bad(fl) + Bad(op) + Bad(wr)
            /\ faults' <= MaxFault
            /\ disk' = [d \in Days |-> (disk[d] \o rotated(d)) \o written(d)]
            /\ file' = IF op.res = "ok" THEN into ELSE 0
            /\ buf' = IF res = "ok" THEN SubSeq(all, wr.n + 1, Len(all)) ELSE <<>>
            /\ bwErr' = (op.res = "ok" /\ BufSize > 0 /\ res # "ok")
            /\ stream' = IF res = "ok" THEN [stream EXCEPT ![into] = @ \o Line(r)] ELSE stream
            /\ writeDay' = [writeDay EXCEPT ![r] = day]
    BY <1>1
<1> DEFINE f == SubSeq(buf, 1, fl.n)
<1>a. /\ res = wr.res /\ faults' = faults + Bad(fl) + Bad(op) + Bad(wr)
      /\ file' = IF op.res = "ok" THEN into ELSE 0
      /\ buf' = IF res = "ok" THEN SubSeq(all, wr.n + 1, Len(all)) ELSE <<>>
    BY <1>2
<1>b. /\ stream' = IF res = "ok" THEN [stream EXCEPT ![into] = @ \o Line(r)] ELSE stream
      /\ writeDay' = [writeDay EXCEPT ![r] = day]
    BY <1>2
<1>c. disk' = [d \in Days |-> (disk[d] \o IF d = file THEN f ELSE <<>>)
                                \o IF d = into THEN SubSeq(all, 1, wr.n) ELSE <<>>]
    BY <1>2
<1>3. /\ buf \in Seq(Byte) /\ Len(buf) \in Nat /\ keep \in Seq(Byte) /\ Len(keep) \in Nat
      /\ Line(r) \in Seq(Byte) /\ Len(Line(r)) = LineLen /\ into = day
      /\ keep = <<>> \/ (keep = buf /\ file = day)
    BY LineIsSeq, LenProperties, EmptySeq, StoreAssumption DEF FileTypes, IsCurrent
<1>4. fl.n \in 0..Len(buf) /\ Bad(fl) \in {0, 1}
  <2>1. CASE IsCurrent
      BY <1>3, <2>1 DEF Done, Bad
  <2>2. CASE ~IsCurrent
      BY <1>3, <2>2, FlushFacts DEF Outcome
  <2>3. QED
      BY <2>1, <2>2
<1>5. Bad(op) \in {0, 1} /\ (Bad(op) = 0 => op.res = "ok")
    BY DEF Done, Fault, FileOpen, Bad
<1>6. all \in Seq(Byte) /\ Len(all) = Len(keep) + LineLen
  <2> HIDE DEF keep
  <2>1. QED
      BY <1>3, ConcatProperties
<1> HIDE DEF into, keep
<1>7. /\ wr.n \in 0..Len(all) /\ Bad(wr) \in {0, 1}
      /\ Bad(wr) = 0 /\ wr.res # "ok" => op.res # "ok" \/ bwErr
      /\ wr.res = "ok" => op.res = "ok"
  <2>1. CASE op.res = "ok"
    <3>1. (IsCurrent /\ bwErr) \in BOOLEAN
        BY DEF IsCurrent
    <3>2. Outcome(wr, Len(keep) + LineLen) /\ (wr.res = "refused" => IsCurrent /\ bwErr)
        BY <1>2, <1>3, <2>1, <3>1, WriteFacts
    <3>3. QED
        BY <1>6, <2>1, <3>2 DEF Outcome, Results, Bad
  <2>2. CASE op.res # "ok"
    <3>1. wr.n = 0 /\ wr.res = "refused"
        BY <1>2, <2>2 DEF Refused
    <3>2. Len(all) \in Nat
        BY <1>3, <1>6, StoreAssumption
    <3> HIDE DEF all
    <3>3. QED
        BY <2>2, <3>1, <3>2 DEF Bad
  <2>3. QED
      BY <2>1, <2>2
<1>8. ErrInv /\ faults' = 0 => res = "ok"
  <2> SUFFICES ASSUME ErrInv, faults' = 0
               PROVE  res = "ok"
      OBVIOUS
  <2>1. faults = 0 /\ Bad(op) = 0 /\ Bad(wr) = 0
    <3>1. Bad(fl) \in Nat /\ Bad(op) \in Nat /\ Bad(wr) \in Nat
        BY <1>4, <1>5, <1>7
    <3>2. faults \in Nat
        BY DEF FileTypes
    <3>3. faults + Bad(fl) + Bad(op) + Bad(wr) = 0
        BY <1>a
    <3>4. QED
        BY <3>1, <3>2, <3>3
  <2>2. ~bwErr
      BY <2>1 DEF ErrInv
  <2>3. QED
      BY <1>a, <1>5, <1>7, <2>1, <2>2
<1>9. f \in Seq(Byte)
    BY <1>3, <1>4, Cut
<1>10. buf' = <<>> \/ (file' = day /\ buf' = SubSeq(all, wr.n + 1, Len(all)))
    BY <1>a, <1>3, <1>7
<1>11. Shape(r, res, f, keep, wr.n)
  <2>1. \E m \in 0..Len(buf) : f = SubSeq(buf, 1, m)
      BY <1>4
  <2> HIDE DEF f
  <2>2. file' \in {0, day}
      BY <1>a, <1>3
  <2>3. disk' = [d \in Days |-> (disk[d] \o IF d = file THEN f ELSE <<>>)
                             \o IF d = day THEN SubSeq(keep \o Line(r), 1, wr.n) ELSE <<>>]
      BY <1>c, <1>3
  <2>4. stream' = IF res = "ok" THEN [stream EXCEPT ![day] = @ \o Line(r)] ELSE stream
      BY <1>b, <1>3
  <2>5. QED
      BY <1>b, <1>3, <1>7, <1>8, <1>10, <2>1, <2>2, <2>3, <2>4 DEF Shape
<1>12. Price(r, res, f, keep, wr.n)
  <2>1. IF IsCurrent THEN keep = buf /\ f = <<>> ELSE keep = <<>>
    <3>1. SubSeq(buf, 1, 0) = <<>>
        BY SubSeqEmpty
    <3>2. QED
        BY <3>1 DEF keep, Done
  <2>2. op.res = "ok" => wr \in WriteOutcomes(Len(keep), IsCurrent /\ bwErr)
      BY <1>2
  <2>3. res = "ok" => /\ file' = day
                      /\ Len(keep) <= BufSize => Len(keep) + LineLen - wr.n <= BufSize
    <3>1. CASE res = "ok"
      <4>1. wr.res = "ok" /\ op.res = "ok" /\ file' = day
          BY <1>a, <1>3, <1>7, <3>1
      <4>2. QED
          BY <1>3, <2>2, <4>1, WriteFits
    <3>2. QED
        BY <3>1
  <2>4. IF res = "ok" THEN buf' = SubSeq(all, wr.n + 1, Len(all)) ELSE buf' = <<>>
      BY <1>a
  <2>5. res = "refused" => wr.n = 0 /\ (keep = <<>> \/ bwErr)
    <3>1. CASE op.res = "ok" /\ res = "refused"
      <4>1. Outcome(wr, Len(keep) + LineLen) /\ IsCurrent /\ bwErr
        <5>1. (IsCurrent /\ bwErr) \in BOOLEAN
            BY DEF IsCurrent
        <5>2. QED
            BY <1>a, <1>3, <2>2, <3>1, <5>1, WriteFacts
      <4>2. wr = Refused
          BY <2>2, <3>1, <4>1 DEF WriteOutcomes
      <4>3. QED
          BY <4>1, <4>2 DEF Refused
    <3>2. CASE op.res # "ok"
      <4>1. wr = Refused /\ ~IsCurrent
          BY <1>2, <3>2 DEF Done
      <4>2. QED
          BY <2>1, <4>1 DEF Refused
    <3>3. QED
        BY <3>1, <3>2
  <2>6. bwErr' => buf' = <<>>
    <3>1. bwErr' => res # "ok"
        BY <1>2
    <3>2. QED
        BY <2>4, <3>1
  <2>7. Bad(fl) = 0 /\ ~IsCurrent => f = buf
    <3>1. CASE ~IsCurrent
      <4>1. fl \in FlushOutcomes
          BY <3>1
      <4>2. Outcome(fl, Len(buf)) /\ fl.res \in {"ok", "fault"}
            /\ (fl.res = "ok" => fl.n = Len(buf))
          BY <1>3, <4>1, FlushFacts
      <4>3. Bad(fl) = 0 => fl.n = Len(buf)
          BY <4>2 DEF Bad
      <4>4. SubSeq(buf, 1, Len(buf)) = buf
          BY <1>3, SubSeqFull
      <4>5. QED
          BY <4>3, <4>4
    <3>2. QED
        BY <3>1
  <2>8. res = "fault" => Bad(wr) = 1
      BY <1>a DEF Bad
  <2> HIDE DEF f
  <2>9. QED
      BY <1>a, <1>4, <1>5, <1>7, <2>1, <2>3, <2>4, <2>5, <2>6, <2>7, <2>8 DEF Price
<1>13. wr.n \in Nat
    BY <1>6, <1>7, <1>3, StoreAssumption
<1>14. QED
    BY <1>3, <1>9, <1>11, <1>12, <1>13

(* A fresh line goes to today's file and buffer only, and what rotation      *)
(* flushes goes to the file of the day it was buffered on.                   *)
LEMMA WriteSorts ==
    ASSUME FileTypes, day \in Days, Sorted, NEW r \in Recs, writeDay[r] = 0,
           NEW res \in Results, WriteLocked(r, res)
    PROVE  Sorted'
<1>1. PICK f \in Seq(Byte), k \in Seq(Byte), n \in Nat : Shape(r, res, f, k, n)
    BY WriteShape
<1> DEFINE R(d) == Of(d)
           Q(d) == {q \in Recs : writeDay'[q] = d}
           all == k \o Line(r)
<1>2. \A d \in Days : R(d) \subseteq Q(d)
    BY <1>1, StoreAssumption DEF Shape, Of, FileTypes, Days
<1>3. r \in Q(day) /\ \A d \in Days : Of(d)' = Q(d)
    BY <1>1 DEF Shape, Of, FileTypes
<1> HIDE DEF R, Q
<1>4. \A d \in Days : From(disk[d], Q(d)) /\ From(Pending(d), Q(d)) /\ From(stream[d], Q(d))
    BY <1>2, FromMore DEF Sorted, R
<1>5. /\ \A d \in Days : disk[d] \in Seq(Byte) /\ stream[d] \in Seq(Byte)
      /\ buf \in Seq(Byte) /\ Line(r) \in Seq(Byte) /\ <<>> \in Seq(Byte)
    BY LineIsSeq, EmptySeq DEF FileTypes
<1>6. all \in Seq(Byte) /\ From(all, Q(day))
  <2>1. From(k, Q(day))
    <3>1. k = <<>> \/ (k = buf /\ file = day)
        BY <1>1 DEF Shape
    <3>2. file = day => From(buf, Q(day))
        BY <1>4 DEF Pending
    <3>3. QED
        BY <3>1, <3>2, FromParts
  <2>2. From(Line(r), Q(day))
      BY <1>3, FromParts
  <2>3. QED
      BY <1>5, <2>1, <2>2, FromParts, ConcatProperties
<1>7. n \in 0..Len(all)
    BY <1>1 DEF Shape
<1> HIDE DEF all
<1>8. /\ From(SubSeq(all, 1, n), Q(day)) /\ From(SubSeq(all, n + 1, Len(all)), Q(day))
      /\ SubSeq(all, 1, n) \in Seq(Byte)
    BY <1>6, <1>7, FromParts, Cut
<1>9. ASSUME NEW d \in Days PROVE From(disk'[d], Q(d))
  <2> DEFINE a == IF d = file THEN f ELSE <<>>
             b == IF d = day THEN SubSeq(all, 1, n) ELSE <<>>
  <2>1. disk'[d] = (disk[d] \o a) \o b
      BY <1>1 DEF Shape, all
  <2>2. a \in Seq(Byte) /\ From(a, Q(d))
    <3>1. CASE d = file
      <4>1. PICK m \in 0..Len(buf) : f = SubSeq(buf, 1, m)
          BY <1>1 DEF Shape
      <4>2. From(buf, Q(d))
          BY <1>4, <3>1 DEF Pending
      <4>3. From(SubSeq(buf, 1, m), Q(d))
          BY <1>5, <4>2, FromParts
      <4>4. QED
          BY <3>1, <4>1, <4>3
    <3>2. CASE d # file
        BY <1>5, <3>2, FromParts
    <3>3. QED
        BY <3>1, <3>2
  <2>3. b \in Seq(Byte) /\ From(b, Q(d))
      BY <1>5, <1>8, FromParts
  <2> HIDE DEF a, b
  <2>4. disk[d] \o a \in Seq(Byte) /\ From(disk[d] \o a, Q(d))
      BY <1>4, <1>5, <2>2, FromParts, ConcatProperties
  <2>5. From((disk[d] \o a) \o b, Q(d))
      BY <2>3, <2>4, FromParts
  <2>6. QED
      BY <2>1, <2>5
<1>10. ASSUME NEW d \in Days PROVE From(Pending(d)', Q(d))
  <2>1. /\ buf' = <<>> \/ (file' = day /\ buf' = SubSeq(all, n + 1, Len(all)))
        /\ Pending(d)' = IF d = file' THEN buf' ELSE <<>>
      BY <1>1 DEF Shape, all, Pending
  <2>2. From(<<>>, Q(d))
      BY FromParts
  <2>3. QED
      BY <1>8, <2>1, <2>2
<1>11. ASSUME NEW d \in Days PROVE From(stream'[d], Q(d))
  <2>1. stream' = IF res = "ok" THEN [stream EXCEPT ![day] = @ \o Line(r)] ELSE stream
      BY <1>1 DEF Shape
  <2>2. From(Line(r), Q(day))
      BY <1>3, FromParts
  <2>3. From(stream[day] \o Line(r), Q(day))
      BY <1>4, <1>5, <2>2, FromParts
  <2>4. stream'[d] = IF res = "ok" /\ d = day THEN stream[day] \o Line(r) ELSE stream[d]
      BY <2>1 DEF FileTypes
  <2>5. QED
      BY <1>4, <2>3, <2>4
<1>12. QED
    BY <1>3, <1>9, <1>10, <1>11 DEF Sorted

(* A flush puts what is buffered for a day into the file of that day.        *)
LEMMA FlushSorts ==
    ASSUME FileTypes, Sorted, NEW fl \in FlushOutcomes,
           disk' = [d \in Days |-> disk[d] \o IF d = file THEN SubSeq(buf, 1, fl.n) ELSE <<>>],
           buf' = <<>>, stream' = stream, writeDay' = writeDay
    PROVE  Sorted'
<1>1. fl.n \in 0..Len(buf) /\ buf \in Seq(Byte) /\ <<>> \in Seq(Byte)
    BY FlushFacts, EmptySeq DEF FileTypes, Outcome
<1>2. SubSeq(buf, 1, fl.n) \in Seq(Byte)
    BY <1>1, Cut
<1>3. ASSUME NEW d \in Days
      PROVE  From(disk'[d], Of(d)) /\ From(Pending(d)', Of(d))
  <2> DEFINE a == IF d = file THEN SubSeq(buf, 1, fl.n) ELSE <<>>
             R == Of(d)
  <2>1. From(disk[d], R) /\ From(Pending(d), R) /\ disk[d] \in Seq(Byte)
      BY DEF Sorted, FileTypes
  <2> HIDE DEF R
  <2>2. d = file => From(SubSeq(buf, 1, fl.n), R)
      BY <1>1, <2>1, FromParts DEF Pending
  <2>3. a \in Seq(Byte) /\ From(a, R)
      BY <1>1, <1>2, <2>2, FromParts
  <2>4. disk'[d] = disk[d] \o a /\ Pending(d)' = <<>>
      BY DEF Pending
  <2> HIDE DEF a
  <2>5. From(disk[d] \o a, R) /\ From(<<>>, R)
      BY <2>1, <2>3, FromParts
  <2>6. QED
      BY <2>4, <2>5 DEF R
<1>4. \A d \in Days : Of(d)' = Of(d)
    BY DEF Of
<1>5. QED
    BY <1>3, <1>4 DEF Sorted

\* What keeps every line in the file of its day.
SortInv == IInv /\ Sorted /\ Fresh

(* Only writeLocked changes the date a line was written, and only of its line. *)
LEMMA WriteStamps ==
    ASSUME NEW r, NEW res, WriteLocked(r, res)
    PROVE  writeDay' = [writeDay EXCEPT ![r] = day]
BY DEF WriteLocked

(* A step that leaves the files and the writer alone leaves them sorted.     *)
LEMMA IdleSorts ==
    ASSUME Sorted, UNCHANGED fileVars
    PROVE  Sorted'
BY DEF Sorted, Pending, Of, fileVars

(* A step that appends, receives and writes nothing.                         *)
LEMMA IdleFresh ==
    ASSUME Fresh, UNCHANGED <<nextRec, writeDay, ch, line>>
    PROVE  Fresh'
BY DEF Fresh

(* FlushLocked keeps the lines sorted.                                       *)
LEMMA FlushLockedSorts ==
    ASSUME FileTypes, Sorted, FlushLocked
    PROVE  Sorted' /\ writeDay' = writeDay
<1>1. PICK fl \in FlushOutcomes :
        /\ disk' = [d \in Days |-> disk[d] \o IF d = file THEN SubSeq(buf, 1, fl.n) ELSE <<>>]
        /\ buf' = <<>>
        /\ UNCHANGED <<stream, writeDay>>
    BY DEF FlushLocked
<1>2. QED
    BY <1>1, FlushSorts

(* Initially nothing is written.                                             *)
LEMMA InitSort == Init => Sorted /\ Fresh
<1> SUFFICES ASSUME Init PROVE Sorted /\ Fresh
    OBVIOUS
<1>1. Len(<<>>) = 0
    BY EmptySeq
<1>2. \A d \in Days : From(<<>>, Of(d))
    BY <1>1 DEF From
<1>3. Sorted
    BY <1>2 DEF Init, Sorted, Pending
<1>4. Fresh
    BY <1>1 DEF Init, Fresh
<1>5. QED
    BY <1>3, <1>4

(* Every step keeps the lines sorted and the unwritten lines apart.          *)
LEMMA NextSort == SortInv /\ [Next]_vars => Sorted' /\ Fresh'
<1> SUFFICES ASSUME SortInv, [Next]_vars PROVE Sorted' /\ Fresh'
    OBVIOUS
<1>1. FileTypes /\ RestTypes /\ Sorted /\ Fresh
    BY TypeParts DEF SortInv, IInv
<1>2. /\ nextRec \in Nat /\ (nextRec <= MaxRec => nextRec \in Recs) /\ day \in Days
      /\ ch \in Seq(Recs) /\ Len(ch) \in Nat /\ \A i \in 1..Len(ch) : ch[i] \in Recs
      /\ Recs \subseteq Nat \ {0} /\ writeDay \in [Recs -> 0..MaxDay]
    BY <1>1, LenProperties, ElementOfSeq, StoreAssumption, SMTT(30) DEF RestTypes, FileTypes, Recs
<1>3. CASE AppendSync
  <2>1. PICK res \in Results : WriteLocked(nextRec, res)
      BY <1>3 DEF AppendSync
  <2>2. nextRec \in Recs /\ nextRec' = nextRec + 1 /\ ch' = ch /\ line' = line
      BY <1>2, <1>3 DEF AppendSync, MayAppend, chanVars, workVars
  <2>3. writeDay[nextRec] = 0
      BY <1>1, <1>2, <2>2 DEF Fresh
  <2>4. Sorted'
      BY <1>1, <1>2, <2>1, <2>2, <2>3, WriteSorts
  <2>5. writeDay' = [writeDay EXCEPT ![nextRec] = day]
      BY <2>1, WriteStamps
  <2>6. Fresh'
      BY <1>1, <1>2, <2>2, <2>5, StoreAssumption, SMTT(30) DEF Fresh, RestTypes, Recs
  <2>7. QED
      BY <2>4, <2>6
<1>4. CASE AppendAsync
  <2>1. /\ nextRec \in Recs /\ nextRec' = nextRec + 1 /\ line' = line /\ writeDay' = writeDay
        /\ ch' = ch \/ ch' = Append(ch, nextRec)
      BY <1>2, <1>4 DEF AppendAsync, MayAppend, fileVars, workVars
  <2>2. ASSUME ch' = ch PROVE Fresh'
    <3>1. \A r \in Recs : r >= nextRec' => r >= nextRec
        BY <1>2, <2>1
    <3>2. \A i \in 1..Len(ch) : ch[i] < nextRec => ch[i] < nextRec'
        BY <1>2, <2>1, SMTT(30)
    <3>3. line < nextRec => line < nextRec'
        BY <1>1, <1>2, <2>1, StoreAssumption DEF RestTypes
    <3>4. QED
        BY <1>1, <2>1, <2>2, <3>1, <3>2, <3>3 DEF Fresh
  <2>3. ASSUME ch' = Append(ch, nextRec) PROVE Fresh'
    <3>1. /\ Len(ch') = Len(ch) + 1 /\ ch'[Len(ch) + 1] = nextRec
          /\ \A i \in 1..Len(ch) : ch'[i] = ch[i]
        BY <1>2, <2>1, <2>3, AppendProperties
    <3>2. \A r \in Recs : r >= nextRec' => writeDay'[r] = 0
        BY <1>1, <1>2, <2>1 DEF Fresh
    <3>3. \A i \in 1..Len(ch') : i \in 1..Len(ch) \/ i = Len(ch) + 1
        BY <1>2, <3>1
    <3>4. line # nextRec /\ writeDay[nextRec] = 0
        BY <1>1, <1>2, <2>1 DEF Fresh
    <3>5. ASSUME NEW i \in 1..Len(ch')
          PROVE  writeDay'[ch'[i]] = 0 /\ ch'[i] < nextRec' /\ ch'[i] # line'
      <4>1. CASE i \in 1..Len(ch)
        <5>1. ch'[i] = ch[i] /\ ch[i] \in Nat
            BY <1>2, <3>1, <4>1
        <5>2. writeDay[ch[i]] = 0 /\ ch[i] < nextRec /\ ch[i] # line
            BY <1>1, <4>1 DEF Fresh
        <5>3. QED
            BY <1>2, <2>1, <5>1, <5>2
      <4>2. CASE i = Len(ch) + 1
          BY <1>2, <2>1, <3>1, <3>4, <4>2
      <4>3. QED
          BY <3>3, <4>1, <4>2
    <3>6. \A i \in 1..Len(ch) : ch[i] # nextRec
        BY <1>1, <1>2 DEF Fresh
    <3>7. \A i, j \in 1..Len(ch') : i # j => ch'[i] # ch'[j]
        BY <1>1, <1>2, <3>1, <3>3, <3>6 DEF Fresh
    <3>8. line' # 0 => writeDay'[line'] = 0 /\ line' < nextRec'
        BY <1>1, <1>2, <2>1, StoreAssumption DEF Fresh, RestTypes
    <3>9. QED
        BY <3>2, <3>5, <3>7, <3>8 DEF Fresh
  <2>4. Sorted'
      BY <1>1, <1>4, IdleSorts DEF AppendAsync
  <2>5. Fresh'
      BY <2>1, <2>2, <2>3
  <2>6. QED
      BY <2>4, <2>5
<1>5. CASE AppendPanics
    BY <1>1, <1>5, IdleSorts, IdleFresh DEF AppendPanics, fileVars, chanVars, workVars, appVars
<1>6. ASSUME Flush PROVE Sorted' /\ Fresh'
    BY <1>1, <1>6, FlushLockedSorts, IdleFresh DEF Flush, chanVars, workVars, appVars
<1>7. CASE FlusherTick
    BY <1>6, <1>7 DEF FlusherTick
<1>8. CASE FlusherExit
    BY <1>1, <1>8, IdleSorts, IdleFresh DEF FlusherExit, fileVars, chanVars, workVars, appVars
<1>9. CASE WorkerReceive
  <2>1. /\ line' = Head(ch) /\ ch' = Tail(ch) /\ nextRec' = nextRec /\ writeDay' = writeDay
        /\ ch # <<>>
      BY <1>9 DEF WorkerReceive, fileVars, appVars
  <2>2. /\ Len(ch) >= 1 /\ Head(ch) = ch[1] /\ Len(ch') = Len(ch) - 1
        /\ \A i \in 1..Len(ch') : ch'[i] = ch[i + 1]
      BY <1>2, <2>1, HeadTailProperties, EmptySeq
  <2>3. Fresh'
      BY <1>1, <1>2, <2>1, <2>2 DEF Fresh
  <2>4. QED
      BY <1>1, <1>9, <2>3, IdleSorts DEF WorkerReceive
<1>10. CASE WorkerWrite
  <2>1. PICK res \in Results : WriteLocked(line, res)
      BY <1>10 DEF WorkerWrite
  <2>2. line \in Recs /\ line' = 0 /\ ch' = ch /\ nextRec' = nextRec
      BY <1>1, <1>10, StoreAssumption DEF WorkerWrite, RestTypes, Recs, chanVars, appVars
  <2>3. writeDay[line] = 0 /\ line < nextRec
      BY <1>1, <1>2, <2>2 DEF Fresh
  <2>4. Sorted'
      BY <1>1, <1>2, <2>1, <2>2, <2>3, WriteSorts
  <2>5. writeDay' = [writeDay EXCEPT ![line] = day]
      BY <2>1, WriteStamps
  <2>6. \A q \in Recs : q # line => writeDay'[q] = writeDay[q]
      BY <1>2, <2>5
  <2>7. Fresh'
    <3>1. \A q \in Recs : q >= nextRec => q # line
        BY <1>2, <2>2, <2>3
    <3>2. \A i \in 1..Len(ch) : writeDay'[ch[i]] = 0 /\ ch[i] < nextRec /\ ch[i] # 0
        BY <1>1, <1>2, <2>6 DEF Fresh
    <3>3. \A q \in Recs : q >= nextRec => writeDay'[q] = 0
        BY <1>1, <2>6, <3>1 DEF Fresh
    <3>4. QED
        BY <1>1, <2>2, <3>2, <3>3 DEF Fresh
  <2>8. QED
      BY <2>4, <2>7
<1>11. CASE WorkerTick
    BY <1>6, <1>11 DEF WorkerTick
<1>12. CASE WorkerFlush
    BY <1>1, <1>12, FlushLockedSorts, IdleFresh DEF WorkerFlush, chanVars, appVars
<1>13. CASE WorkerStop
    BY <1>1, <1>13, IdleSorts, IdleFresh DEF WorkerStop, fileVars, chanVars, appVars
<1>14. ASSUME NEW c \in Closers, CloseOnce(c) PROVE Sorted' /\ Fresh'
    BY <1>1, <1>14, IdleSorts, IdleFresh DEF CloseOnce, fileVars, workVars
<1>15. ASSUME NEW c \in Closers, CloseWaited(c) PROVE Sorted' /\ Fresh'
    BY <1>1, <1>15, IdleSorts, IdleFresh DEF CloseWaited, fileVars, chanVars, workVars, appVars
<1>16. ASSUME NEW c \in Closers, CloseLocked(c) PROVE Sorted' /\ Fresh'
  <2>1. PICK fl \in FlushOutcomes :
          disk' = [d \in Days |-> disk[d] \o IF d = file THEN SubSeq(buf, 1, fl.n) ELSE <<>>]
      BY <1>16 DEF CloseLocked
  <2>2. /\ buf' = <<>> /\ stream' = stream /\ writeDay' = writeDay
        /\ UNCHANGED <<nextRec, writeDay, ch, line>>
      BY <1>16 DEF CloseLocked, chanVars, workVars, appVars
  <2>3. QED
      BY <1>1, <2>1, <2>2, FlushSorts, IdleFresh
<1>17. CASE NextDay
    BY <1>1, <1>17, IdleSorts, IdleFresh DEF NextDay, fileVars, chanVars, workVars, appVars
<1>18. CASE Crash
  <2>1. /\ buf' = <<>> /\ ch' = <<>> /\ line' = 0 /\ Len(<<>>) = 0
        /\ UNCHANGED <<disk, stream, writeDay, nextRec>>
      BY <1>18, EmptySeq DEF Crash, appVars
  <2>2. Fresh'
      BY <1>1, <2>1 DEF Fresh
  <2>3. \A d \in Days : From(<<>>, Of(d))
      BY <2>1 DEF From
  <2>4. \A d \in Days : Of(d)' = Of(d) /\ Pending(d)' = <<>>
      BY <2>1 DEF Of, Pending
  <2>5. Sorted'
      BY <1>1, <2>1, <2>3, <2>4 DEF Sorted
  <2>6. QED
      BY <2>2, <2>5
<1>19. CASE UNCHANGED vars
    BY <1>1, <1>19, IdleSorts, IdleFresh DEF vars, fileVars, chanVars, workVars, appVars
<1>20. QED
    BY <1>3, <1>4, <1>5, <1>6, <1>7, <1>8, <1>9, <1>10, <1>11, <1>12, <1>13, <1>14, <1>15,
       <1>16, <1>17, <1>18, <1>19 DEF Next

(* The lines stay sorted in every state of the Store.                        *)
THEOREM SortInvariant == Spec => []SortInv
<1>1. Init => SortInv
    BY InitInv, InitSort DEF SortInv
<1>2. SortInv /\ [Next]_vars => SortInv'
    BY NextInv, NextSort DEF SortInv
<1>3. QED
    BY <1>1, <1>2, PTL DEF Spec

(* No line is ever found in, or buffered for, the file of another day than   *)
(* the one writeLocked wrote it on, whatever fails and however often the     *)
(* process is restarted.                                                     *)
THEOREM LinesInRightFile == Spec => []InRightFile
<1>1. SortInv => InRightFile
  <2> SUFFICES ASSUME SortInv, NEW r \in Recs, NEW d \in Days,
                      BytesOf(r, disk[d]) # {} \/ BytesOf(r, Pending(d)) # {}
               PROVE  writeDay[r] = d
      BY DEF InRightFile
  <2>1. disk[d] \in Seq(Byte) /\ Pending(d) \in Seq(Byte)
      BY EmptySeq DEF SortInv, IInv, TypeOK, Pending
  <2>2. DOMAIN disk[d] = 1..Len(disk[d]) /\ DOMAIN Pending(d) = 1..Len(Pending(d))
      BY <2>1, LenProperties
  <2>3. r \in Of(d)
      BY <2>2 DEF BytesOf, SortInv, Sorted, From
  <2>4. QED
      BY <2>3 DEF Of
<1>2. QED
    BY <1>1, SortInvariant, PTL

-----------------------------------------------------------------------------
(* Close makes everything durable that was acknowledged before it.           *)

\* The shutdown protocol of Close, stopOnce and the background goroutine.
Shutdown ==
    /\ sealed \subseteq acked
    /\ asyncSize = 0 => ch = <<>> /\ worker = "none"
    /\ worker # "write" => line = 0
    /\ worker \in {"stop", "done"} => ch = <<>> /\ chClosed
    /\ stopped /\ asyncSize > 0 => worker = "done"
    /\ once = "done" => stopped
    /\ \A c \in Closers : /\ closer[c] # "idle" => once # "new"
                          /\ closer[c] \in {"lock", "done"} => stopped

\* The bytes of r in s are a run of LineLen that ends at n or before.
Run(r, s, n) == \E i \in Nat : i + LineLen <= n /\ BytesOf(r, s) = (i + 1)..(i + LineLen)

\* writeLocked accepted all of line r; all of it has also left the buffer.
Landed(r) == \E d \in Days : Run(r, stream[d], Len(stream[d]))
Settled(r) == \E d \in Days : Run(r, stream[d], Len(disk[d]))

\* Line r is still in the channel or in the worker's hands.
Held(r) == r = line \/ \E i \in 1..Len(ch) : ch[i] = r

\* Of a healthy Store: what was acknowledged is under way or has landed, and what was
\* acknowledged before Close is in the files once a Close has returned.
Tracked == \A r \in acked : Held(r) \/ Landed(r)
Closed  == (\E c \in Closers : closer[c] = "done") => \A r \in sealed : Settled(r)

Durable == Healthy => Tracked /\ Closed

(* A line adds its own bytes, in one run, and no byte of another line.       *)
LEMMA LineBytes ==
    ASSUME NEW s \in Seq(Byte), NEW r \in Recs
    PROVE  /\ \A q \in Recs : q # r => BytesOf(q, s \o Line(r)) = BytesOf(q, s)
           /\ BytesOf(r, s) = {} => BytesOf(r, s \o Line(r)) = (Len(s) + 1)..(Len(s) + LineLen)
           /\ Len(s \o Line(r)) = Len(s) + LineLen
<1> DEFINE l == Line(r)
           t == s \o l
<1>1. /\ l \in Seq(Byte) /\ Len(l) = LineLen /\ Len(s) \in Nat /\ LineLen \in Nat \ {0}
      /\ \A i \in 1..LineLen : l[i][1] = r
    BY LineIsSeq, LenProperties, StoreAssumption DEF Line
<1>2. /\ t \in Seq(Byte) /\ Len(t) = Len(s) + LineLen
      /\ \A i \in 1..(Len(s) + LineLen) : t[i] = IF i <= Len(s) THEN s[i] ELSE l[i - Len(s)]
  <2> HIDE DEF l
  <2>1. QED
      BY <1>1, ConcatProperties
<1>3. DOMAIN s = 1..Len(s) /\ DOMAIN t = 1..(Len(s) + LineLen)
  <2> HIDE DEF t
  <2>1. QED
      BY <1>2, LenProperties
<1> HIDE DEF t, l
<1>4. \A i \in 1..(Len(s) + LineLen) : i > Len(s) => t[i][1] = r
  <2> TAKE i \in 1..(Len(s) + LineLen)
  <2> HAVE i > Len(s)
  <2>1. i - Len(s) \in 1..LineLen /\ ~(i <= Len(s))
      BY <1>1
  <2>2. t[i] = l[i - Len(s)]
      BY <1>2, <2>1
  <2>3. QED
      BY <1>1, <2>1, <2>2
<1>5. \A i \in 1..Len(s) : t[i] = s[i] /\ i \in 1..(Len(s) + LineLen)
    BY <1>1, <1>2
<1>6. ASSUME NEW q \in Recs, q # r
      PROVE  BytesOf(q, t) = BytesOf(q, s)
    BY <1>1, <1>3, <1>4, <1>5, <1>6 DEF BytesOf
<1>7. ASSUME BytesOf(r, s) = {}
      PROVE  BytesOf(r, t) = (Len(s) + 1)..(Len(s) + LineLen)
  <2>1. \A i \in 1..Len(s) : t[i][1] # r
      BY <1>3, <1>5, <1>7 DEF BytesOf
  <2>2. \A i \in 1..(Len(s) + LineLen) : t[i][1] = r <=> i > Len(s)
      BY <1>1, <1>4, <2>1
  <2>3. QED
      BY <1>1, <1>3, <2>2 DEF BytesOf
<1>8. QED
    BY <1>2, <1>6, <1>7 DEF t, l

(* A line whose run ends within the first part of a sequence is whole there. *)
LEMMA RunInPrefix ==
    ASSUME NEW s \in Seq(Byte), NEW p \in Seq(Byte), NEW r \in Recs, Run(r, s \o p, Len(s))
    PROVE  Cardinality(BytesOf(r, s)) = LineLen
<1> DEFINE t == s \o p
<1>1. /\ t \in Seq(Byte) /\ Len(t) = Len(s) + Len(p) /\ Len(s) \in Nat /\ Len(p) \in Nat
      /\ \A i \in 1..Len(s) : t[i] = s[i]
    BY ConcatProperties, LenProperties
<1>2. DOMAIN s = 1..Len(s) /\ DOMAIN t = 1..Len(t)
  <2> HIDE DEF t
  <2>1. QED
      BY <1>1, LenProperties
<1>3. PICK i \in Nat : i + LineLen <= Len(s) /\ BytesOf(r, t) = (i + 1)..(i + LineLen)
    BY DEF Run
<1> HIDE DEF t
<1>4. BytesOf(r, s) = (i + 1)..(i + LineLen)
  <2>1. \A j \in (i + 1)..(i + LineLen) : j \in 1..Len(s) /\ j \in 1..Len(t)
      BY <1>1, <1>3, StoreAssumption
  <2>2. \A j \in 1..Len(s) : j \in 1..Len(t)
      BY <1>1
  <2>3. QED
      BY <1>1, <1>2, <1>3, <2>1, <2>2 DEF BytesOf
<1>5. Cardinality((i + 1)..(i + LineLen)) = LineLen
    BY FS_Interval, StoreAssumption
<1>6. QED
    BY <1>4, <1>5

(* A line with bytes in the history was written.                             *)
LEMMA RunWritten ==
    ASSUME FileTypes, Sorted, NEW r \in Recs, NEW d \in Days, BytesOf(r, stream[d]) # {}
    PROVE  writeDay[r] # 0
<1>1. stream[d] \in Seq(Byte) /\ DOMAIN stream[d] = 1..Len(stream[d]) /\ d # 0
    BY LenProperties DEF FileTypes, Days
<1>2. PICK i \in 1..Len(stream[d]) : stream[d][i][1] = r
    BY <1>1 DEF BytesOf
<1>3. r \in Of(d)
    BY <1>2 DEF Sorted, From
<1>4. QED
    BY <1>1, <1>3 DEF Of

(* A run has bytes.                                                          *)
LEMMA RunHasBytes ==
    ASSUME NEW r, NEW s, NEW n, Run(r, s, n)
    PROVE  BytesOf(r, s) # {}
<1>1. PICK i \in Nat : BytesOf(r, s) = (i + 1)..(i + LineLen)
    BY DEF Run
<1>2. i + 1 \in (i + 1)..(i + LineLen)
    BY StoreAssumption
<1>3. QED
    BY <1>1, <1>2

\* No step loses what has landed or has left the buffer.
Keeps == \A q \in Recs : (Landed(q) => Landed(q)') /\ (Settled(q) => Settled(q)')

(* What is appended to a file leaves it no shorter.                          *)
LEMMA Longer ==
    ASSUME NEW s \in Seq(Byte), NEW a \in Seq(Byte), NEW b \in Seq(Byte)
    PROVE  Len((s \o a) \o b) \in Nat /\ Len((s \o a) \o b) >= Len(s) /\ Len(s \o a) >= Len(s)
<1>1. s \o a \in Seq(Byte) /\ Len(s \o a) = Len(s) + Len(a)
    BY ConcatProperties
<1>2. Len((s \o a) \o b) = Len(s \o a) + Len(b)
    BY <1>1, ConcatProperties
<1>3. Len(s) \in Nat /\ Len(a) \in Nat /\ Len(b) \in Nat
    BY LenProperties
<1>4. QED
    BY <1>1, <1>2, <1>3

(* Files that grow keep what is in them.                                     *)
LEMMA GrownKeeps ==
    ASSUME FileTypes, stream' = stream,
           \A d \in Days : Len(disk'[d]) \in Nat /\ Len(disk'[d]) >= Len(disk[d])
    PROVE  Keeps
<1>1. ASSUME NEW q \in Recs, Settled(q)
      PROVE  Settled(q)'
  <2>1. PICK d \in Days : Run(q, stream[d], Len(disk[d]))
      BY <1>1 DEF Settled
  <2>2. PICK i \in Nat :
          i + LineLen <= Len(disk[d]) /\ BytesOf(q, stream[d]) = (i + 1)..(i + LineLen)
      BY <2>1 DEF Run
  <2>3. Len(disk[d]) \in Nat
      BY LenProperties DEF FileTypes
  <2>4. i + LineLen <= Len(disk'[d])
      BY <2>2, <2>3, StoreAssumption
  <2>5. Run(q, stream'[d], Len(disk'[d]))
      BY <2>2, <2>4 DEF Run
  <2>6. QED
      BY <2>5 DEF Settled
<1>2. ASSUME NEW q \in Recs, Landed(q)
      PROVE  Landed(q)'
    BY <1>2 DEF Landed
<1>3. QED
    BY <1>1, <1>2 DEF Keeps

(* An accepted line lands whole, and the lines before it stay where they are. *)
LEMMA WriteLands ==
    ASSUME FileTypes, day \in Days, Sorted, NEW r \in Recs, writeDay[r] = 0,
           NEW res \in Results, WriteLocked(r, res)
    PROVE  /\ Keeps
           /\ res = "ok" => Landed(r)'
           /\ ErrInv /\ faults' = 0 => res = "ok"
<1>1. PICK f \in Seq(Byte), k \in Seq(Byte), n \in Nat : Shape(r, res, f, k, n)
    BY WriteShape
<1>2. /\ \A d \in Days : disk[d] \in Seq(Byte) /\ stream[d] \in Seq(Byte)
      /\ Line(r) \in Seq(Byte) /\ <<>> \in Seq(Byte) /\ LineLen \in Nat
    BY LineIsSeq, EmptySeq, StoreAssumption DEF FileTypes
<1>3. ASSUME NEW d \in Days
      PROVE  Len(disk'[d]) \in Nat /\ Len(disk'[d]) >= Len(disk[d])
  <2> DEFINE a == IF d = file THEN f ELSE <<>>
             b == IF d = day THEN SubSeq(k \o Line(r), 1, n) ELSE <<>>
  <2>1. disk'[d] = (disk[d] \o a) \o b
      BY <1>1 DEF Shape
  <2>2. a \in Seq(Byte)
      BY <1>2
  <2>3. b \in Seq(Byte)
    <3>1. k \o Line(r) \in Seq(Byte) /\ n \in 0..Len(k \o Line(r))
        BY <1>1, <1>2, ConcatProperties DEF Shape
    <3>2. SubSeq(k \o Line(r), 1, n) \in Seq(Byte)
        BY <3>1, Cut
    <3>3. QED
        BY <1>2, <3>2
  <2> HIDE DEF a, b
  <2>4. QED
      BY <1>2, <2>1, <2>2, <2>3, Longer
<1>4. CASE res # "ok"
  <2>1. stream' = stream
      BY <1>1, <1>4 DEF Shape
  <2>2. Keeps
      BY <1>3, <2>1, GrownKeeps
  <2>3. QED
      BY <1>1, <1>4, <2>2 DEF Shape
<1>5. CASE res = "ok"
  <2> DEFINE S(d) == stream'[d]
  <2>1. \A d \in Days : S(d) = IF d = day THEN stream[d] \o Line(r) ELSE stream[d]
      BY <1>1, <1>5 DEF Shape, FileTypes
  <2> HIDE DEF S
  <2>2. ASSUME NEW d \in Days, NEW q \in Recs, BytesOf(q, stream[d]) # {}
        PROVE  BytesOf(q, S(d)) = BytesOf(q, stream[d])
    <3>1. q # r
        BY <2>2, RunWritten
    <3>2. BytesOf(q, stream[d] \o Line(r)) = BytesOf(q, stream[d])
        BY <1>2, <3>1, LineBytes
    <3>3. QED
        BY <2>1, <3>2
  <2>3. ASSUME NEW d \in Days
        PROVE  Len(S(d)) \in Nat /\ Len(S(d)) >= Len(stream[d]) /\ Len(stream[d]) \in Nat
    <3>1. Len(stream[d]) \in Nat /\ Len(stream[d] \o Line(r)) = Len(stream[d]) + LineLen
        BY <1>2, LenProperties, LineBytes
    <3>2. S(d) = stream[d] \o Line(r) \/ S(d) = stream[d]
        BY <2>1
    <3>3. Len(S(d)) = Len(stream[d]) + LineLen \/ Len(S(d)) = Len(stream[d])
        BY <3>1, <3>2
    <3> DEFINE x == Len(stream[d])
               y == Len(S(d))
    <3>4. x \in Nat /\ (y = x + LineLen \/ y = x)
        BY <3>1, <3>3
    <3> HIDE DEF x, y
    <3>5. y \in Nat /\ y >= x
        BY <1>2, <3>4
    <3>6. QED
        BY <3>4, <3>5 DEF x, y
  <2>4. ASSUME NEW q \in Recs, NEW d \in Days, NEW m \in Nat, NEW j \in Nat, j >= m,
               Run(q, stream[d], m)
        PROVE  Run(q, S(d), j)
    <3>1. PICK i \in Nat :
            i + LineLen <= m /\ BytesOf(q, stream[d]) = (i + 1)..(i + LineLen)
        BY <2>4 DEF Run
    <3>2. BytesOf(q, S(d)) = BytesOf(q, stream[d])
        BY <2>2, <2>4, RunHasBytes
    <3>3. i + LineLen <= j
        BY <1>2, <2>4, <3>1
    <3>4. QED
        BY <3>1, <3>2, <3>3 DEF Run
  <2>5. Keeps
    <3>1. ASSUME NEW q \in Recs, Landed(q) PROVE Landed(q)'
        BY <2>3, <2>4, <3>1 DEF Landed, S
    <3>2. ASSUME NEW q \in Recs, Settled(q) PROVE Settled(q)'
      <4>1. PICK d \in Days : Run(q, stream[d], Len(disk[d]))
          BY <3>2 DEF Settled
      <4>2. Len(disk[d]) \in Nat
          BY <1>2, LenProperties
      <4>3. Run(q, S(d), Len(disk'[d]))
          BY <1>3, <2>4, <4>1, <4>2
      <4>4. QED
          BY <4>3 DEF Settled, S
    <3>3. QED
        BY <3>1, <3>2 DEF Keeps
  <2>6. Landed(r)'
    <3>1. BytesOf(r, stream[day]) = {}
        BY RunWritten
    <3>2. BytesOf(r, S(day)) = (Len(stream[day]) + 1)..(Len(stream[day]) + LineLen)
        BY <1>2, <2>1, <3>1, LineBytes, ZenonT(40)
    <3>3. Len(S(day)) = Len(stream[day]) + LineLen /\ Len(stream[day]) \in Nat
        BY <1>2, <2>1, <2>3, LineBytes
    <3>4. Run(r, S(day), Len(S(day)))
        BY <1>2, <3>2, <3>3 DEF Run
    <3>5. QED
        BY <3>4 DEF Landed, S
  <2>7. QED
      BY <1>5, <2>5, <2>6
<1>6. QED
    BY <1>4, <1>5

(* A flush only moves bytes to the file.                                     *)
LEMMA FlushLands ==
    ASSUME FileTypes, NEW fl \in FlushOutcomes, stream' = stream,
           disk' = [d \in Days |-> disk[d] \o IF d = file THEN SubSeq(buf, 1, fl.n) ELSE <<>>]
    PROVE  Keeps
<1>1. fl.n \in 0..Len(buf) /\ buf \in Seq(Byte) /\ <<>> \in Seq(Byte)
    BY FlushFacts, EmptySeq DEF FileTypes, Outcome
<1>2. SubSeq(buf, 1, fl.n) \in Seq(Byte)
    BY <1>1, Cut
<1>3. ASSUME NEW d \in Days
      PROVE  Len(disk'[d]) \in Nat /\ Len(disk'[d]) >= Len(disk[d])
  <2> DEFINE a == IF d = file THEN SubSeq(buf, 1, fl.n) ELSE <<>>
  <2>1. disk'[d] = disk[d] \o a /\ a \in Seq(Byte) /\ disk[d] \in Seq(Byte)
      BY <1>1, <1>2 DEF FileTypes
  <2> HIDE DEF a
  <2>2. disk[d] \o a \in Seq(Byte) /\ Len(disk[d] \o a) >= Len(disk[d])
      BY <2>1, Longer, ConcatProperties
  <2>3. QED
      BY <2>1, <2>2, LenProperties
<1>4. QED
    BY <1>3, GrownKeeps

\* What makes the Store durable once Close has returned.
DurableInv == SortInv /\ Shutdown /\ Durable

(* Initially Close has not been called and nothing was acknowledged.         *)
LEMMA InitDurable == Init => Shutdown /\ Durable
BY EmptySeq DEF Init, Shutdown, Durable, Tracked, Closed, NewWorker

(* Every step follows the shutdown protocol.                                 *)
LEMMA NextShutdown == TypeOK /\ Shutdown /\ [Next]_vars => Shutdown'
<1> SUFFICES ASSUME TypeOK, Shutdown, [Next]_vars PROVE Shutdown'
    OBVIOUS
<1>m. asyncSize' = asyncSize /\ asyncSize \in Nat
    BY SameMode, StoreAssumption DEF TypeOK
<1> USE <1>m
<1>1. CASE AppendSync
    BY <1>1 DEF AppendSync, Shutdown, TypeOK, chanVars, workVars, closeVars
<1>2. CASE AppendAsync
    BY <1>2 DEF AppendAsync, Shutdown, TypeOK, workVars, closeVars
<1>3. CASE AppendPanics
    BY <1>3 DEF AppendPanics, Shutdown, chanVars, workVars, appVars
<1>4. ASSUME Flush PROVE Shutdown'
    BY <1>4 DEF Flush, Shutdown, chanVars, workVars, closeVars, appVars
<1>5. CASE FlusherTick
    BY <1>4, <1>5 DEF FlusherTick
<1>6. CASE FlusherExit
    BY <1>6 DEF FlusherExit, Shutdown, chanVars, workVars, appVars
<1>7. CASE WorkerReceive
    BY <1>7 DEF WorkerReceive, Shutdown, TypeOK, closeVars, appVars
<1>8. CASE WorkerWrite
    BY <1>8 DEF WorkerWrite, Shutdown, TypeOK, chanVars, closeVars, appVars
<1>9. CASE WorkerTick
    BY <1>4, <1>9 DEF WorkerTick
<1>10. CASE WorkerFlush
    BY <1>10 DEF WorkerFlush, WorkerDrained, Shutdown, TypeOK, chanVars, closeVars, appVars
<1>11. CASE WorkerStop
    BY <1>11 DEF WorkerStop, Shutdown, TypeOK, chanVars, appVars
<1>12. ASSUME NEW c \in Closers, CloseOnce(c) PROVE Shutdown'
    BY <1>12 DEF CloseOnce, Shutdown, TypeOK, workVars
<1>13. ASSUME NEW c \in Closers, CloseWaited(c) PROVE Shutdown'
    BY <1>13 DEF CloseWaited, Shutdown, TypeOK, chanVars, workVars, appVars
<1>14. ASSUME NEW c \in Closers, CloseLocked(c) PROVE Shutdown'
    BY <1>14 DEF CloseLocked, Shutdown, TypeOK, chanVars, workVars, appVars
<1>15. CASE NextDay
    BY <1>15 DEF NextDay, Shutdown, chanVars, workVars, closeVars, appVars
<1>16. CASE Crash
    BY <1>16 DEF Crash, Shutdown, NewWorker, appVars
<1>17. CASE UNCHANGED vars
    BY <1>17 DEF vars, Shutdown, chanVars, workVars, closeVars, appVars
<1>18. QED
    BY <1>1, <1>2, <1>3, <1>4, <1>5, <1>6, <1>7, <1>8, <1>9, <1>10, <1>11, <1>12, <1>13,
       <1>14, <1>15, <1>16, <1>17 DEF Next

(* A step that keeps what has landed and touches neither the queue nor the   *)
(* closers keeps both.                                                       *)
LEMMA QuietStep ==
    ASSUME TypeOK, Keeps, Tracked, Closed,
           UNCHANGED <<acked, sealed, ch, line>>,
           (\E c \in Closers : closer'[c] = "done") => \E c \in Closers : closer[c] = "done"
    PROVE  Tracked' /\ Closed'
BY DEF TypeOK, Keeps, Tracked, Closed, Held

(* A step that leaves the files alone keeps what has landed.                 *)
LEMMA IdleKeeps ==
    ASSUME UNCHANGED fileVars
    PROVE  Keeps
BY DEF Keeps, Landed, Settled, fileVars

(* A flush under the lock keeps what has landed.                             *)
LEMMA FlushLockedKeeps ==
    ASSUME FileTypes, FlushLocked
    PROVE  Keeps
<1>1. PICK fl \in FlushOutcomes :
        /\ disk' = [d \in Days |-> disk[d] \o IF d = file THEN SubSeq(buf, 1, fl.n) ELSE <<>>]
        /\ UNCHANGED <<stream, writeDay>>
    BY DEF FlushLocked
<1>2. QED
    BY <1>1, FlushLands

(* Faults and crashes are never forgotten.                                   *)
LEMMA HealthStep == TypeOK /\ [Next]_vars /\ Healthy' => Healthy /\ ~Crash
<1> SUFFICES ASSUME TypeOK, [Next]_vars, Healthy' PROVE Healthy /\ ~Crash
    OBVIOUS
<1>1. crashes \in Nat /\ faults \in Nat /\ crashes' = 0 /\ faults' = 0
    BY DEF TypeOK, Healthy
<1>2. ~Crash
    BY <1>1 DEF Crash
<1>3. FileTypes /\ RestTypes
    BY TypeParts
<1>4. ASSUME NEW fl \in FlushOutcomes, faults' = faults + Bad(fl) PROVE faults = 0
  <2>1. Bad(fl) \in {0, 1}
      BY <1>3, FlushFacts DEF FileTypes, Outcome
  <2>2. QED
      BY <1>1, <1>4, <2>1
<1>5. FlushLocked => faults = 0
    BY <1>4 DEF FlushLocked
<1>6. ASSUME NEW r \in Recs, NEW res \in Results, WriteLocked(r, res) PROVE faults = 0
  <2>1. FileStep
      BY <1>3, <1>6, WriteStep DEF RestTypes
  <2>2. QED
      BY <1>1, <2>1 DEF FileStep
<1>7. faults = 0
  <2>1. CASE AppendSync
    <3>1. nextRec \in Recs
        BY <1>3, <2>1, StoreAssumption DEF AppendSync, MayAppend, RestTypes, Recs
    <3>2. QED
        BY <1>6, <2>1, <3>1 DEF AppendSync
  <2>2. CASE WorkerWrite
    <3>1. line \in Recs
        BY <1>3, <2>2, StoreAssumption DEF WorkerWrite, RestTypes, Recs
    <3>2. QED
        BY <1>6, <2>2, <3>1 DEF WorkerWrite
  <2>3. CASE Flush \/ FlusherTick \/ WorkerTick \/ WorkerFlush
      BY <1>5, <2>3 DEF Flush, FlusherTick, WorkerTick, WorkerFlush
  <2>4. ASSUME NEW c \in Closers, CloseLocked(c) PROVE faults = 0
      BY <1>4, <2>4 DEF CloseLocked
  <2>5. CASE \/ AppendAsync \/ AppendPanics \/ FlusherExit \/ WorkerReceive \/ WorkerStop
             \/ NextDay \/ UNCHANGED vars
      BY <1>1, <2>5 DEF AppendAsync, AppendPanics, FlusherExit, WorkerReceive, WorkerStop,
                        NextDay, fileVars, vars
  <2>6. ASSUME NEW c \in Closers, CloseOnce(c) \/ CloseWaited(c) PROVE faults = 0
      BY <1>1, <2>6 DEF CloseOnce, CloseWaited, fileVars
  <2>7. QED
      BY <1>2, <2>1, <2>2, <2>3, <2>4, <2>5, <2>6 DEF Next
<1>8. crashes = 0
  <2>1. CASE NextDay
      BY <1>1, <2>1 DEF NextDay
  <2>2. CASE ~NextDay
      BY <1>1, <1>2, <2>2
         DEF Next, AppendSync, AppendAsync, AppendPanics, Flush, FlusherTick, FlusherExit,
             WorkerReceive, WorkerWrite, WorkerTick, WorkerFlush, WorkerStop, CloseOnce,
             CloseWaited, CloseLocked, envVars, vars
  <2>3. QED
      BY <2>1, <2>2
<1>9. QED
    BY <1>2, <1>7, <1>8 DEF Healthy

(* Every step of a healthy Store keeps both.                                 *)
LEMMA NextDurable == DurableInv /\ [Next]_vars => Durable'
<1> SUFFICES ASSUME DurableInv, [Next]_vars, Healthy' PROVE Tracked' /\ Closed'
    BY DEF Durable
<1>1. /\ TypeOK /\ FileTypes /\ RestTypes /\ Sorted /\ Fresh /\ ErrInv /\ Shutdown
      /\ Healthy /\ ~Crash
    BY TypeParts, HealthStep DEF DurableInv, SortInv, IInv
<1>2. Tracked /\ Closed
    BY <1>1 DEF DurableInv, Durable
<1>3. /\ day \in Days /\ faults' = 0 /\ nextRec \in Nat
      /\ nextRec <= MaxRec => nextRec \in Recs /\ writeDay[nextRec] = 0
    BY <1>1, StoreAssumption DEF RestTypes, Recs, Healthy, Fresh
<1>4. CASE AppendSync
  <2>1. PICK res \in Results :
          /\ WriteLocked(nextRec, res)
          /\ acked' = IF res = "ok" THEN acked \union {nextRec} ELSE acked
      BY <1>4 DEF AppendSync
  <2>2. nextRec \in Recs /\ writeDay[nextRec] = 0 /\ UNCHANGED <<ch, line, sealed, closer>>
      BY <1>3, <1>4 DEF AppendSync, MayAppend, chanVars, workVars, closeVars
  <2>3. PICK q \in Recs : q = nextRec
      BY <2>2
  <2>4. Keeps /\ (res = "ok" => Landed(q)')
      BY <1>1, <1>3, <2>1, <2>2, <2>3, WriteLands
  <2>5. acked' = IF res = "ok" THEN acked \union {q} ELSE acked
      BY <2>1, <2>3
  <2>6. QED
      BY <1>1, <1>2, <2>2, <2>4, <2>5 DEF TypeOK, Keeps, Tracked, Closed, Held
<1>5. CASE AppendAsync
  <2>1. /\ nextRec \in Recs /\ UNCHANGED <<line, sealed, closer>> /\ Keeps
        /\ \/ UNCHANGED <<ch, acked>>
           \/ ch' = Append(ch, nextRec) /\ acked' = acked \union {nextRec}
      BY <1>3, <1>5, IdleKeeps DEF AppendAsync, MayAppend, workVars, closeVars
  <2>2. CASE UNCHANGED <<ch, acked>>
      BY <1>1, <1>2, <2>1, <2>2, QuietStep
  <2>3. CASE ch' = Append(ch, nextRec) /\ acked' = acked \union {nextRec}
    <3>1. /\ Len(ch) \in Nat /\ Len(ch') = Len(ch) + 1 /\ ch'[Len(ch) + 1] = nextRec
          /\ \A i \in 1..Len(ch) : ch'[i] = ch[i]
        BY <1>1, <2>1, <2>3, AppendProperties, LenProperties DEF TypeOK
    <3>2. \A r \in acked : Held(r) => Held(r)'
        BY <2>1, <3>1 DEF Held
    <3>3. PICK q \in Recs : q = nextRec
        BY <2>1
    <3>4. Held(q)'
      <4>1. Len(ch) + 1 \in 1..Len(ch') /\ ch'[Len(ch) + 1] = q
          BY <3>1, <3>3
      <4>2. QED
          BY <4>1 DEF Held
    <3>5. QED
        BY <1>1, <1>2, <2>1, <2>3, <3>2, <3>3, <3>4 DEF TypeOK, Keeps, Tracked, Closed
  <2>4. QED
      BY <2>1, <2>2, <2>3
<1>6. CASE AppendPanics
    BY <1>1, <1>2, <1>6, QuietStep, IdleKeeps DEF AppendPanics, chanVars, workVars, appVars
<1>7. ASSUME Flush PROVE Tracked' /\ Closed'
    BY <1>1, <1>2, <1>7, QuietStep, FlushLockedKeeps
       DEF Flush, chanVars, workVars, closeVars, appVars
<1>8. CASE FlusherTick
    BY <1>7, <1>8 DEF FlusherTick
<1>9. CASE FlusherExit
    BY <1>1, <1>2, <1>9, QuietStep, IdleKeeps DEF FlusherExit, chanVars, workVars, appVars
<1>10. CASE WorkerReceive
  <2>1. /\ UNCHANGED <<sealed, acked, closer>> /\ Keeps /\ line = 0
        /\ line' = Head(ch) /\ ch' = Tail(ch) /\ ch # <<>>
      BY <1>1, <1>10, IdleKeeps DEF WorkerReceive, Shutdown, closeVars, appVars
  <2>2. /\ Len(ch) \in Nat /\ Head(ch) = ch[1] /\ Len(ch') = Len(ch) - 1
        /\ \A i \in 1..Len(ch') : ch'[i] = ch[i + 1]
      BY <1>1, <2>1, HeadTailProperties, LenProperties DEF TypeOK
  <2>3. ASSUME NEW r \in acked, Held(r) PROVE Held(r)'
    <3>1. r # 0
        BY <1>1 DEF TypeOK, Recs
    <3>2. PICK i \in 1..Len(ch) : ch[i] = r
        BY <2>1, <2>3, <3>1 DEF Held
    <3>3. CASE i = 1
        BY <2>1, <2>2, <3>2, <3>3 DEF Held
    <3>4. CASE i # 1
      <4>1. i - 1 \in 1..Len(ch') /\ ch'[i - 1] = r
          BY <2>2, <3>2, <3>4
      <4>2. QED
          BY <4>1 DEF Held
    <3>5. QED
        BY <3>3, <3>4
  <2>4. QED
      BY <1>1, <1>2, <2>1, <2>3 DEF TypeOK, Keeps, Tracked, Closed
<1>11. CASE WorkerWrite
  <2>1. PICK res \in Results : WriteLocked(line, res)
      BY <1>11 DEF WorkerWrite
  <2>2. line \in Recs /\ writeDay[line] = 0 /\ UNCHANGED <<acked, sealed, closer, ch>>
      BY <1>1, <1>11, StoreAssumption
         DEF WorkerWrite, RestTypes, Recs, Fresh, chanVars, closeVars, appVars
  <2>3. PICK q \in Recs : q = line
      BY <2>2
  <2>4. Keeps /\ Landed(q)'
      BY <1>1, <1>3, <2>1, <2>2, <2>3, WriteLands
  <2>5. QED
      BY <1>1, <1>2, <2>2, <2>3, <2>4 DEF TypeOK, Keeps, Tracked, Closed, Held
<1>12. CASE WorkerTick
    BY <1>7, <1>12 DEF WorkerTick
<1>13. CASE WorkerFlush
    BY <1>1, <1>2, <1>13, QuietStep, FlushLockedKeeps
       DEF WorkerFlush, chanVars, closeVars, appVars
<1>14. CASE WorkerStop
    BY <1>1, <1>2, <1>14, QuietStep, IdleKeeps DEF WorkerStop, chanVars, appVars
<1>15. ASSUME NEW c \in Closers, CloseOnce(c) PROVE Tracked' /\ Closed'
  <2>1. Keeps /\ UNCHANGED <<acked, ch, line>>
      BY <1>15, IdleKeeps DEF CloseOnce, workVars
  <2>2. \A e \in Closers : closer'[e] = "done" => closer[e] = "done" /\ once # "new"
      BY <1>1, <1>15 DEF CloseOnce, TypeOK, Shutdown
  <2>3. once # "new" => sealed' = sealed
      BY <1>15 DEF CloseOnce
  <2>4. QED
      BY <1>1, <1>2, <2>1, <2>2, <2>3 DEF TypeOK, Keeps, Tracked, Closed, Held
<1>16. ASSUME NEW c \in Closers, CloseWaited(c) PROVE Tracked' /\ Closed'
  <2>1. \A e \in Closers : closer'[e] = "done" => closer[e] = "done"
      BY <1>1, <1>16 DEF CloseWaited, TypeOK
  <2>2. QED
      BY <1>1, <1>2, <1>16, <2>1, QuietStep, IdleKeeps
         DEF CloseWaited, chanVars, workVars, appVars
<1>17. ASSUME NEW c \in Closers, CloseLocked(c) PROVE Tracked' /\ Closed'
  <2>1. PICK fl \in FlushOutcomes :
          disk' = [d \in Days |-> disk[d] \o IF d = file THEN SubSeq(buf, 1, fl.n) ELSE <<>>]
      BY <1>17 DEF CloseLocked
  <2>2. /\ stream' = stream /\ buf' = <<>> /\ closer[c] = "lock"
        /\ UNCHANGED <<acked, sealed, ch, line>>
      BY <1>17 DEF CloseLocked, chanVars, workVars, appVars
  <2>3. Keeps
      BY <1>1, <2>1, <2>2, FlushLands
  <2>4. Tracked'
      BY <1>1, <1>2, <2>2, <2>3 DEF TypeOK, Keeps, Tracked, Held
  <2>5. ch = <<>> /\ line = 0
      BY <1>1, <2>2, StoreAssumption DEF Shutdown, TypeOK
  <2>6. \A r \in sealed : Landed(r)'
    <3>1. \A r \in acked : ~Held(r)
        BY <1>1, <2>5, EmptySeq DEF Held, TypeOK, Recs
    <3>2. QED
        BY <1>1, <1>2, <2>3, <3>1 DEF Tracked, Keeps, Shutdown, TypeOK
  <2>7. \A d \in Days : disk'[d] = stream'[d]
    <3>1. IInv'
        BY NextInv DEF DurableInv, SortInv
    <3>2. \A d \in Days : disk'[d] \o <<>> = stream'[d]
        BY <2>2, <3>1 DEF IInv, NothingLost, Pending
    <3>3. \A d \in Days : disk'[d] \in Seq(Byte)
        BY <3>1 DEF IInv, TypeOK
    <3>4. QED
        BY <3>2, <3>3, ConcatEmptySeq
  <2>8. Closed'
      BY <2>2, <2>6, <2>7 DEF Closed, Landed, Settled
  <2>9. QED
      BY <2>4, <2>8
<1>18. CASE NextDay
    BY <1>1, <1>2, <1>18, QuietStep, IdleKeeps
       DEF NextDay, chanVars, workVars, closeVars, appVars
<1>19. CASE UNCHANGED vars
    BY <1>1, <1>2, <1>19, QuietStep, IdleKeeps
       DEF vars, chanVars, workVars, closeVars, appVars
<1>20. QED
    BY <1>1, <1>4, <1>5, <1>6, <1>7, <1>8, <1>9, <1>10, <1>11, <1>12, <1>13, <1>14, <1>15,
       <1>16, <1>17, <1>18, <1>19 DEF Next

(* In every state acknowledged lines are tracked and Close kept its promise. *)
THEOREM DurableInvariant == Spec => []DurableInv
<1>1. Init => DurableInv
    BY InitInv, InitSort, InitDurable DEF DurableInv, SortInv
<1>2. DurableInv /\ [Next]_vars => DurableInv'
    BY NextInv, NextSort, NextShutdown, NextDurable DEF DurableInv, SortInv, IInv
<1>3. QED
    BY <1>1, <1>2, PTL DEF Spec

(* Once some Close has returned and nothing failed, every line that Append   *)
(* had acknowledged before the first Close is on disk in full, for every     *)
(* channel capacity, buffer size and number of closers.                      *)
THEOREM CloseIsDurable == Spec => []ClosedMeansDurable
<1>1. DurableInv => ClosedMeansDurable
  <2> SUFFICES ASSUME DurableInv, Healthy, \E c \in Closers : closer[c] = "done",
                      NEW r \in sealed
               PROVE  OnDisk(r)
      BY DEF ClosedMeansDurable
  <2>1. TypeOK /\ NothingLost /\ r \in Recs
      BY DEF DurableInv, SortInv, IInv, TypeOK
  <2>2. PICK d \in Days : Run(r, stream[d], Len(disk[d]))
      BY DEF DurableInv, Durable, Closed, Settled
  <2>3. /\ disk[d] \in Seq(Byte) /\ Pending(d) \in Seq(Byte)
        /\ disk[d] \o Pending(d) = stream[d]
      BY <2>1, EmptySeq DEF TypeOK, NothingLost, Pending
  <2>4. Cardinality(BytesOf(r, disk[d])) = LineLen
      BY <2>1, <2>2, <2>3, RunInPrefix
  <2>5. QED
      BY <2>4 DEF OnDisk
<1>2. QED
    BY <1>1, DurableInvariant, PTL

-----------------------------------------------------------------------------
(* What failures and crashes cost in synchronous mode.                       *)

\* Readable, of one file.
ReadableIn(r, s) ==
    \E i \in 1..(Len(s) + 1 - LineLen) :
        /\ i = 1 \/ s[i - 1][2] = LineLen
        /\ SubSeq(s, i, i + LineLen - 1) = Line(r)

\* A file whose last line has no newline.
Torn(s) == s # <<>> /\ s[Len(s)][2] # LineLen

\* The lines of A that no file of w holds, and the files that will spoil the next line.
Doomed(w, A) == {r \in A : \A d \in Days : ~ReadableIn(r, w[d])}
TornFiles(w) == {d \in Days : Torn(w[d])}
Cost(w, A)   == Cardinality(Doomed(w, A)) + Cardinality(TornFiles(w))

\* Every newline in s is a whole number of lines before the end of s.
Lined(s) == \A j \in 1..Len(s) : s[j][2] = LineLen => \E k \in Nat : Len(s) - j = k * LineLen

\* The files as they will be after the next flush.
Files == [d \in Days |-> disk[d] \o Pending(d)]

\* The buffer keeps its size and holds whole lines but for the first; a failed one is empty.
Buffered == Len(buf) <= BufSize /\ Lined(buf) /\ (bwErr => buf = <<>>)

\* Each failure and each crash pays for LossPerFault lines.
Budget == asyncSize = 0 => Cost(Files, acked) <= LossPerFault * (faults + crashes)

\* The lines of A that end in s.
Ends(s, A) == {r \in A : \E j \in 1..Len(s) : s[j] = <<r, LineLen>>}

(* Lines a full buffer can hold the end of.                                  *)
LEMMA BufferLines ==
    /\ LossPerFault \in Nat /\ LossPerFault - 1 \in Nat
    /\ (LossPerFault - 1) * LineLen >= BufSize
<1>1. LineLen \in Nat \ {0} /\ BufSize \in Nat
    BY StoreAssumption
<1> DEFINE k == (BufSize + LineLen - 1) \div LineLen
<1>2. k \in Nat /\ k * LineLen >= BufSize
    BY <1>1
<1>3. QED
    BY <1>2 DEF LossPerFault

(* A product grows with its first factor.                                    *)
LEMMA LessFactor ==
    ASSUME NEW j \in Nat, NEW k \in Nat, NEW n \in Nat, j * n < k * n
    PROVE  j < k
OBVIOUS

(* Multiples, step by step.                                                  *)
LEMMA OneMore ==
    ASSUME NEW j \in Nat, NEW k \in Nat, NEW n \in Nat
    PROVE  /\ j * (n + 0) = j * n /\ j * (n + 1) = j * n + j /\ j * n \in Nat
           /\ (k + 1) * n = k * n + n
OBVIOUS

(* A buffer holds the ends of at most so many lines.                         *)
LEMMA EndsBound ==
    ASSUME NEW s \in Seq(Byte), Lined(s), Len(s) <= BufSize, NEW A \in SUBSET Recs
    PROVE  IsFiniteSet(Ends(s, A)) /\ Cardinality(Ends(s, A)) <= LossPerFault - 1
<1> DEFINE K == LossPerFault - 1
           S == 0..(K - 1)
           f == [k \in S |-> s[Len(s) - k * LineLen][1]]
           T == {f[k] : k \in S}
<1>1. K \in Nat /\ K * LineLen >= BufSize /\ Len(s) \in Nat /\ LineLen \in Nat /\ BufSize \in Nat
    BY BufferLines, LenProperties, StoreAssumption
<1> HIDE DEF K
<1>2. IsFiniteSet(S) /\ Cardinality(S) = K
  <2>1. 0 \in Int /\ K - 1 \in Int
      BY <1>1
  <2>2. /\ IsFiniteSet(0..(K - 1))
        /\ Cardinality(0..(K - 1)) = IF 0 > K - 1 THEN 0 ELSE (K - 1) - 0 + 1
      BY <2>1, FS_Interval
  <2>3. (IF 0 > K - 1 THEN 0 ELSE (K - 1) - 0 + 1) = K
      BY <1>1
  <2>4. QED
      BY <2>2, <2>3
<1>3. Ends(s, A) \subseteq T
  <2> SUFFICES ASSUME NEW r \in Ends(s, A) PROVE r \in T
      OBVIOUS
  <2>1. PICK j \in 1..Len(s) : s[j] = <<r, LineLen>>
      BY DEF Ends
  <2>2. PICK k \in Nat : Len(s) - j = k * LineLen
      BY <2>1 DEF Lined
  <2>3. k * LineLen < K * LineLen /\ j = Len(s) - k * LineLen
    <3>1. PICK x \in Nat : x = k * LineLen
        BY <1>1
    <3>2. PICK y \in Nat : y = K * LineLen
        BY <1>1
    <3>3. x < y /\ j = Len(s) - x
        BY <1>1, <2>2, <3>1, <3>2
    <3>4. QED
        BY <3>1, <3>2, <3>3
  <2>4. k < K
      BY <1>1, <2>3, LessFactor
  <2>5. k \in S
      BY <1>1, <2>4
  <2>6. f[k] = r
      BY <2>1, <2>3, <2>5
  <2>7. QED
      BY <2>5, <2>6
<1>4. f \in Surjection(S, T)
  <2> HIDE DEF S
  <2>1. f \in [S -> T] /\ \A t \in T : \E k \in S : f[k] = t
      OBVIOUS
  <2> HIDE DEF f, T
  <2>2. QED
      BY <2>1, Fun_IsSurj
<1> HIDE DEF S, f, T
<1>5. IsFiniteSet(T) /\ Cardinality(T) <= Cardinality(S)
    BY <1>2, <1>4, FS_Surjection
<1>6. IsFiniteSet(Ends(s, A)) /\ Cardinality(Ends(s, A)) <= Cardinality(T)
    BY <1>3, <1>5, FS_Subset
<1>7. Cardinality(Ends(s, A)) \in Nat /\ Cardinality(T) \in Nat
    BY <1>5, <1>6, FS_CardinalityType
<1>8. QED
    BY <1>1, <1>2, <1>5, <1>6, <1>7 DEF K

(* Whatever replaces what follows a part of a file, a line that was readable *)
(* is still readable or ended in what was replaced.                          *)
LEMMA ReadSplit ==
    ASSUME NEW s \in Seq(Byte), NEW t \in Seq(Byte), NEW u \in Seq(Byte), NEW r \in Recs,
           ReadableIn(r, s \o t)
    PROVE  ReadableIn(r, s \o u) \/ \E j \in 1..Len(t) : t[j] = <<r, LineLen>>
<1> DEFINE w == s \o t
           v == s \o u
<1>1. /\ w \in Seq(Byte) /\ Len(w) = Len(s) + Len(t)
      /\ v \in Seq(Byte) /\ Len(v) = Len(s) + Len(u)
      /\ \A i \in 1..(Len(s) + Len(t)) : w[i] = IF i <= Len(s) THEN s[i] ELSE t[i - Len(s)]
      /\ \A i \in 1..(Len(s) + Len(u)) : v[i] = IF i <= Len(s) THEN s[i] ELSE u[i - Len(s)]
    BY ConcatProperties
<1>2. Len(s) \in Nat /\ Len(t) \in Nat /\ Len(u) \in Nat /\ LineLen \in Nat \ {0}
    BY LenProperties, StoreAssumption
<1>3. PICK i \in 1..(Len(w) + 1 - LineLen) :
        /\ i = 1 \/ w[i - 1][2] = LineLen
        /\ SubSeq(w, i, i + LineLen - 1) = Line(r)
    BY DEF ReadableIn
<1> DEFINE e == i + LineLen - 1
<1>4. e \in 1..Len(w) /\ i \in 1..Len(w) /\ i <= e
    BY <1>1, <1>2, <1>3
<1>5. CASE e <= Len(s)
  <2>1. e \in 1..Len(s) /\ i \in 1..Len(s) /\ i \in 1..(Len(v) + 1 - LineLen)
      BY <1>1, <1>2, <1>4, <1>5
  <2>2. SubSeq(w, i, e) = SubSeq(s, i, e) /\ SubSeq(v, i, e) = SubSeq(s, i, e)
    <3> HIDE DEF e
    <3>1. QED
        BY <2>1, SubSeqOfConcat1
  <2> HIDE DEF w, v
  <2>3. i # 1 => w[i - 1] = v[i - 1]
    <3>1. i # 1 => /\ i - 1 \in 1..(Len(s) + Len(t)) /\ i - 1 \in 1..(Len(s) + Len(u))
                   /\ i - 1 <= Len(s)
        BY <1>2, <2>1
    <3>2. QED
        BY <1>1, <3>1
  <2>4. SubSeq(v, i, i + LineLen - 1) = Line(r)
      BY <1>3, <2>2
  <2>5. ReadableIn(r, v)
      BY <1>3, <2>1, <2>3, <2>4 DEF ReadableIn
  <2>6. QED
      BY <2>5 DEF v
<1>6. CASE e > Len(s)
  <2> DEFINE j == e - Len(s)
  <2>1. j \in 1..Len(t) /\ w[e] = t[j]
      BY <1>1, <1>2, <1>4, <1>6
  <2>2. SubSeq(w, i, e)[LineLen] = w[e]
    <3> HIDE DEF w
    <3>1. Len(w) \in Nat /\ \A k \in 1..Len(w) : w[k] \in Byte
        BY <1>1, LenProperties, ElementOfSeq
    <3>2. \A k \in 1..(e - i + 1) : SubSeq(w, i, e)[k] = w[i + k - 1]
      <4> HIDE DEF e
      <4>1. \A k \in i..e : w[k] \in Byte
          BY <1>4, <3>1
      <4>2. i \in Int /\ e \in Int
          BY <1>4
      <4>3. QED
          BY <1>1, <1>4, <3>1, <4>1, <4>2, SubSeqProperties
    <3>3. LineLen \in 1..(e - i + 1) /\ i + LineLen - 1 = e
        BY <1>2, <1>3
    <3>4. QED
        BY <3>2, <3>3
  <2>3. Line(r)[LineLen] = <<r, LineLen>>
      BY <1>2 DEF Line
  <2>4. QED
      BY <1>3, <2>1, <2>2, <2>3
<1>7. QED
    BY <1>2, <1>3, <1>5, <1>6

(* The same, for all at once.                                                *)
LEMMA ReadKept ==
    \A r \in Recs : \A s, t, u \in Seq(Byte) :
        ReadableIn(r, s \o t) =>
            ReadableIn(r, s \o u) \/ \E j \in 1..Len(t) : t[j] = <<r, LineLen>>
BY ReadSplit, ZenonT(40)

(* Files that grow stay readable.                                            *)
LEMMA ReadMore ==
    ASSUME NEW s \in Seq(Byte), NEW u \in Seq(Byte), NEW r \in Recs, ReadableIn(r, s)
    PROVE  ReadableIn(r, s \o u)
<1>1. <<>> \in Seq(Byte) /\ s \o <<>> = s /\ Len(<<>>) = 0
    BY EmptySeq, ConcatEmptySeq
<1>2. PICK t \in Seq(Byte) : t = <<>>
    BY <1>1
<1>3. ReadableIn(r, s \o t) /\ Len(t) = 0
    BY <1>1, <1>2
<1>4. ReadableIn(r, s \o u) \/ \E j \in 1..Len(t) : t[j] = <<r, LineLen>>
    BY <1>3, ReadSplit, ZenonT(40)
<1>5. QED
    BY <1>3, <1>4

(* A line written behind a newline is readable, and ends with a newline.     *)
LEMMA ReadNew ==
    ASSUME NEW s \in Seq(Byte), NEW r \in Recs
    PROVE  /\ ~Torn(s) => ReadableIn(r, s \o Line(r))
           /\ ~Torn(s \o Line(r))
<1> DEFINE l == Line(r)
           w == s \o l
<1>1. /\ l \in Seq(Byte) /\ Len(l) = LineLen /\ Len(s) \in Nat /\ LineLen \in Nat \ {0}
      /\ l[LineLen] = <<r, LineLen>>
    BY LineIsSeq, LenProperties, StoreAssumption DEF Line
<1> HIDE DEF l
<1>2. /\ w \in Seq(Byte) /\ Len(w) = Len(s) + LineLen
      /\ \A i \in 1..(Len(s) + LineLen) : w[i] = IF i <= Len(s) THEN s[i] ELSE l[i - Len(s)]
    BY <1>1, ConcatProperties
<1>3. ~Torn(w)
  <2>1. w[Len(s) + LineLen] = l[LineLen]
      BY <1>1, <1>2
  <2>2. QED
      BY <1>1, <1>2, <2>1 DEF Torn
<1>4. ASSUME ~Torn(s) PROVE ReadableIn(r, w)
  <2> DEFINE i == Len(s) + 1
  <2>1. i \in 1..(Len(w) + 1 - LineLen)
      BY <1>1, <1>2
  <2>2. i = 1 \/ w[i - 1][2] = LineLen
    <3>1. CASE Len(s) = 0
        BY <3>1
    <3>2. CASE Len(s) # 0
      <4>1. s # <<>> /\ s[Len(s)][2] = LineLen
          BY <1>4, <3>2, EmptySeq DEF Torn
      <4>2. w[Len(s)] = s[Len(s)]
          BY <1>1, <1>2, <3>2
      <4>3. i - 1 = Len(s)
          BY <1>1
      <4>4. QED
          BY <4>1, <4>2, <4>3
    <3>3. QED
        BY <3>1, <3>2
  <2>3. SubSeq(w, i, i + LineLen - 1) = l
    <3>1. i \in Len(s) + 1..Len(s) + Len(l) /\ i + LineLen - 1 \in Len(s) + 1..Len(s) + Len(l)
        BY <1>1
    <3>2. SubSeq(w, i, i + LineLen - 1) = SubSeq(l, i - Len(s), (i + LineLen - 1) - Len(s))
      <4>1. PICK a, b \in Len(s) + 1..Len(s) + Len(l) : a = i /\ b = i + LineLen - 1
          BY <3>1, Zenon
      <4>2. SubSeq(s \o l, a, b) = SubSeq(l, a - Len(s), b - Len(s))
          BY <1>1, SubSeqOfConcat2, Zenon
      <4>3. QED
          BY <4>1, <4>2
    <3>3. i - Len(s) = 1 /\ (i + LineLen - 1) - Len(s) = Len(l)
        BY <1>1
    <3>4. QED
        BY <1>1, <3>2, <3>3, SubSeqFull
  <2>4. QED
      BY <2>1, <2>2, <2>3 DEF ReadableIn, l
<1>5. QED
    BY <1>3, <1>4 DEF l

(* What the cost counts is finite.                                           *)
LEMMA CostType ==
    ASSUME NEW w, NEW A \in SUBSET Recs
    PROVE  /\ IsFiniteSet(Doomed(w, A)) /\ Cardinality(Doomed(w, A)) \in Nat
           /\ IsFiniteSet(TornFiles(w)) /\ Cardinality(TornFiles(w)) \in Nat
           /\ Cost(w, A) \in Nat
<1>1. IsFiniteSet(Recs) /\ IsFiniteSet(Days)
    BY FS_Interval, StoreAssumption DEF Recs, Days
<1>2. Doomed(w, A) \subseteq Recs /\ TornFiles(w) \subseteq Days
    BY DEF Doomed, TornFiles
<1>3. IsFiniteSet(Doomed(w, A)) /\ IsFiniteSet(TornFiles(w))
    BY <1>1, <1>2, FS_Subset
<1>4. Cardinality(Doomed(w, A)) \in Nat /\ Cardinality(TornFiles(w)) \in Nat
    BY <1>3, FS_CardinalityType
<1>5. QED
    BY <1>3, <1>4 DEF Cost

(* An accepted line costs nothing, unless a torn line was before it: then    *)
(* the line is spoilt but the file is whole again.                           *)
LEMMA AcceptCost ==
    ASSUME NEW w \in [Days -> Seq(Byte)], NEW A \in SUBSET Recs, NEW r \in Recs,
           NEW e \in Days
    PROVE  Cost([w EXCEPT ![e] = @ \o Line(r)], A \union {r}) <= Cost(w, A)
<1> DEFINE v == [w EXCEPT ![e] = @ \o Line(r)]
           B == A \union {r}
           D == Doomed(w, A)
           T == TornFiles(w)
<1>1. /\ v[e] = w[e] \o Line(r) /\ \A d \in Days : d # e => v[d] = w[d]
      /\ w[e] \in Seq(Byte) /\ Line(r) \in Seq(Byte) /\ B \in SUBSET Recs
    BY LineIsSeq
<1> HIDE DEF v
<1>2. ASSUME NEW q \in Recs, NEW d \in Days, ReadableIn(q, w[d]) PROVE ReadableIn(q, v[d])
    BY <1>1, <1>2, ReadMore
<1>3. Doomed(v, B) \subseteq D \union {r}
    BY <1>2 DEF Doomed
<1>4. ~Torn(w[e]) => Doomed(v, B) \subseteq D
  <2>1. ~Torn(w[e]) => ReadableIn(r, v[e])
      BY <1>1, ReadNew
  <2>2. QED
      BY <1>3, <2>1 DEF Doomed
<1>5. TornFiles(v) \subseteq T \ {e}
  <2>1. ~Torn(v[e])
      BY <1>1, ReadNew
  <2>2. QED
      BY <1>1, <2>1 DEF TornFiles
<1>6. Torn(w[e]) <=> e \in T
    BY DEF TornFiles
<1> DEFINE d0 == Cardinality(D)
           t0 == Cardinality(T)
           d1 == Cardinality(Doomed(v, B))
           t1 == Cardinality(TornFiles(v))
<1>7. /\ IsFiniteSet(D) /\ d0 \in Nat /\ IsFiniteSet(T) /\ t0 \in Nat
      /\ d1 \in Nat /\ t1 \in Nat
    BY <1>1, CostType
<1> HIDE DEF D, T, B
<1>8. d1 <= d0 + 1
  <2>1. IsFiniteSet(D \union {r}) /\ Cardinality(D \union {r}) \in {d0, d0 + 1}
      BY <1>7, FS_AddElement
  <2>2. d1 <= Cardinality(D \union {r})
      BY <1>3, <2>1, FS_Subset
  <2>3. QED
      BY <1>7, <2>1, <2>2
<1>9. e \notin T => d1 <= d0
    BY <1>4, <1>6, <1>7, FS_Subset
<1>10. t1 <= IF e \in T THEN t0 - 1 ELSE t0
  <2>1. IsFiniteSet(T \ {e}) /\ Cardinality(T \ {e}) = IF e \in T THEN t0 - 1 ELSE t0
      BY <1>7, FS_RemoveElement
  <2>2. t1 <= Cardinality(T \ {e})
      BY <1>5, <2>1, FS_Subset
  <2>3. QED
      BY <2>1, <2>2
<1> HIDE DEF d0, t0, d1, t1
<1>11. d1 + t1 <= d0 + t0
    BY <1>7, <1>8, <1>9, <1>10
<1>12. QED
    BY <1>11 DEF Cost, d0, t0, d1, t1, D, T, B, v

(* A failed write, a failed flush or a crash costs at most the lines that    *)
(* end in the buffer and, if it tears a line, the one behind it.             *)
LEMMA LossCost ==
    ASSUME NEW w \in [Days -> Seq(Byte)], NEW v, NEW A \in SUBSET Recs, NEW e \in Days,
           \A d \in Days : d # e => v[d] = w[d],
           NEW s \in Seq(Byte), NEW t \in Seq(Byte), NEW u \in Seq(Byte),
           w[e] = s \o t, v[e] = s \o u, Lined(t), Len(t) <= BufSize
    PROVE  Cost(v, A) <= Cost(w, A) + LossPerFault
<1> DEFINE D == Doomed(w, A)
           T == TornFiles(w)
           E == Ends(t, A)
<1>1. Doomed(v, A) \subseteq D \union E
  <2> SUFFICES ASSUME NEW r \in Doomed(v, A), r \notin D PROVE r \in E
      OBVIOUS
  <2>1. r \in A /\ r \in Recs /\ \A d \in Days : ~ReadableIn(r, v[d])
      BY DEF Doomed
  <2>2. ReadableIn(r, w[e])
      BY <2>1 DEF Doomed
  <2>3. ReadableIn(r, s \o t) /\ ~ReadableIn(r, s \o u)
      BY <2>1, <2>2
  <2>4. \E j \in 1..Len(t) : t[j] = <<r, LineLen>>
      BY <2>1, <2>3, ReadKept, Zenon
  <2>5. QED
      BY <2>1, <2>4 DEF Ends
<1>2. TornFiles(v) \subseteq T \union {e}
    BY DEF TornFiles
<1> DEFINE d0 == Cardinality(D)
           t0 == Cardinality(T)
           d1 == Cardinality(Doomed(v, A))
           t1 == Cardinality(TornFiles(v))
           n  == Cardinality(E)
<1>3. /\ IsFiniteSet(D) /\ d0 \in Nat /\ IsFiniteSet(T) /\ t0 \in Nat
      /\ d1 \in Nat /\ t1 \in Nat
    BY CostType
<1>4. IsFiniteSet(E) /\ n <= LossPerFault - 1 /\ n \in Nat
    BY EndsBound, FS_CardinalityType
<1> HIDE DEF D, T, E
<1>5. d1 <= d0 + n
  <2>1. /\ IsFiniteSet(D \union E) /\ IsFiniteSet(D \cap E)
        /\ Cardinality(D \union E) = d0 + n - Cardinality(D \cap E)
      BY <1>3, <1>4, FS_Union, FS_Intersection
  <2>2. Cardinality(D \cap E) \in Nat
      BY <2>1, FS_CardinalityType
  <2>3. d1 <= Cardinality(D \union E)
      BY <1>1, <2>1, FS_Subset
  <2>4. QED
      BY <1>3, <1>4, <2>1, <2>2, <2>3
<1>6. t1 <= t0 + 1
  <2>1. IsFiniteSet(T \union {e}) /\ Cardinality(T \union {e}) \in {t0, t0 + 1}
      BY <1>3, FS_AddElement
  <2>2. t1 <= Cardinality(T \union {e})
      BY <1>2, <2>1, FS_Subset
  <2>3. QED
      BY <1>3, <2>1, <2>2
<1>7. LossPerFault \in Nat
    BY BufferLines
<1> HIDE DEF d0, t0, d1, t1, n
<1>8. d1 + t1 <= d0 + t0 + LossPerFault
    BY <1>3, <1>4, <1>5, <1>6, <1>7
<1>9. QED
    BY <1>8 DEF Cost, d0, t0, d1, t1, D, T

(* What the buffer keeps of a line behind it.                                *)
LEMMA BufferStep ==
    ASSUME NEW k \in Seq(Byte), NEW r \in Recs, Lined(k), NEW n \in 0..Len(k \o Line(r))
    PROVE  Lined(SubSeq(k \o Line(r), n + 1, Len(k \o Line(r))))
<1> DEFINE l == Line(r)
           a == k \o l
           b == SubSeq(a, n + 1, Len(a))
<1>1. /\ l \in Seq(Byte) /\ Len(l) = LineLen /\ Len(k) \in Nat /\ LineLen \in Nat \ {0}
      /\ \A i \in 1..LineLen : l[i][2] = i
    BY LineIsSeq, LenProperties, StoreAssumption DEF Line
<1> HIDE DEF l
<1>2. /\ a \in Seq(Byte) /\ Len(a) = Len(k) + LineLen
      /\ \A i \in 1..(Len(k) + LineLen) : a[i] = IF i <= Len(k) THEN k[i] ELSE l[i - Len(k)]
    BY <1>1, ConcatProperties
<1>3. n \in 0..Len(a) /\ Len(a) \in Nat
    BY <1>1, <1>2 DEF l
<1> HIDE DEF a
<1>4. /\ Len(b) = Len(a) - n /\ Len(b) \in Nat
      /\ \A i \in 1..(Len(a) - n) : b[i] = a[n + i]
  <2>1. \A i \in 1..Len(a) : a[i] \in Byte
      BY <1>2, ElementOfSeq
  <2>2. QED
      BY <1>2, <1>3, <2>1, SubSeqProperties
<1> HIDE DEF b
<1>5. ASSUME NEW j \in 1..Len(b), b[j][2] = LineLen
      PROVE  \E m \in Nat : Len(b) - j = m * LineLen
  <2>1. /\ n + j \in 1..(Len(k) + LineLen) /\ a[n + j][2] = LineLen
        /\ Len(b) - j = Len(k) + LineLen - (n + j)
      BY <1>1, <1>2, <1>3, <1>4, <1>5
  <2>2. PICK i \in 1..(Len(k) + LineLen) : i = n + j
      BY <2>1
  <2>3. CASE i <= Len(k)
    <3>1. i \in 1..Len(k) /\ k[i][2] = LineLen
        BY <1>1, <1>2, <2>1, <2>2, <2>3, SMTT(30)
    <3>2. PICK m \in Nat : Len(k) - i = m * LineLen
        BY <3>1 DEF Lined
    <3>3. (m + 1) * LineLen = m * LineLen + LineLen
        BY <1>1, OneMore
    <3>4. Len(b) - j = (m + 1) * LineLen
      <4>1. PICK x \in Nat : x = m * LineLen
          BY <1>1
      <4>2. Len(b) - j = x + LineLen
          BY <1>1, <2>1, <2>2, <3>2, <4>1
      <4>3. QED
          BY <3>3, <4>1, <4>2
    <3>5. QED
        BY <3>4
  <2>4. CASE i > Len(k)
    <3>1. i - Len(k) \in 1..LineLen /\ l[i - Len(k)][2] = LineLen
        BY <1>1, <1>2, <2>1, <2>2, <2>4
    <3>2. i - Len(k) = LineLen
        BY <1>1, <3>1
    <3>3. Len(b) - j = 0 /\ 0 * LineLen = 0
        BY <1>1, <2>1, <2>2, <3>2
    <3>4. QED
        BY <3>3
  <2>5. QED
      BY <1>1, <2>3, <2>4
<1>6. QED
    BY <1>5 DEF Lined, b, a, l

(* Failures are paid for one by one.                                         *)
LEMMA PriceSum ==
    ASSUME NEW a \in Nat, NEW b \in Nat, NEW c \in Nat, NEW m \in Nat,
           NEW x \in {0, 1}, NEW y \in {0, 1}, NEW z \in {0, 1},
           b <= a + m * x, c <= b + m * z
    PROVE  c <= a + m * (x + y + z)
<1>1. m * 0 = 0 /\ m * 1 = m /\ m * 2 = m + m /\ m * 3 = m + m + m
    OBVIOUS
<1>2. CASE x = 0
    BY <1>1, <1>2
<1>3. CASE x = 1
    BY <1>1, <1>3
<1>4. QED
    BY <1>2, <1>3

(* writeLocked spoils at most LossPerFault lines for each operation that     *)
(* fails, and none otherwise.                                                *)
LEMMA WriteCost ==
    ASSUME FileTypes, Buffered, day \in Days, NEW r \in Recs, NEW res \in Results,
           NEW A \in SUBSET Recs, WriteLocked(r, res)
    PROVE  /\ Buffered'
           /\ \E n \in Nat : /\ faults' = faults + n
                             /\ Cost(Files', IF res = "ok" THEN A \union {r} ELSE A)
                                    <= Cost(Files, A) + LossPerFault * n
<1>1. PICK f \in Seq(Byte), k \in Seq(Byte), n \in Nat :
        Shape(r, res, f, k, n) /\ Price(r, res, f, k, n)
    BY WriteShape
<1> DEFINE l == Line(r)
           all == k \o l
<1>2. /\ \A d \in Days : disk[d] \in Seq(Byte)
      /\ buf \in Seq(Byte) /\ l \in Seq(Byte) /\ <<>> \in Seq(Byte) /\ Len(<<>>) = 0
      /\ Len(l) = LineLen /\ Len(k) \in Nat /\ LineLen \in Nat /\ BufSize \in Nat
    BY LineIsSeq, EmptySeq, LenProperties, StoreAssumption DEF FileTypes
<1>3. Lined(<<>>)
    BY <1>2 DEF Lined
<1>4. Lined(k) /\ Len(k) <= BufSize
    BY <1>1, <1>2, <1>3 DEF Price, Buffered
<1>5. n \in 0..Len(all)
    BY <1>1 DEF Shape
<1> HIDE DEF l
<1>6. all \in Seq(Byte) /\ Len(all) = Len(k) + LineLen
    BY <1>2, ConcatProperties
<1>a. ASSUME NEW m \in Seq(Byte)
      PROVE  (m \o SubSeq(all, 1, n)) \o SubSeq(all, n + 1, Len(all)) = (m \o k) \o l
  <2>1. PICK j : j = l
      OBVIOUS
  <2>2. j \in Seq(Byte) /\ n \in 0..Len(k \o j)
      BY <1>2, <1>5, <2>1
  <2>3. (m \o SubSeq(k \o j, 1, n)) \o SubSeq(k \o j, n + 1, Len(k \o j)) = (m \o k) \o j
      BY <2>2, CutBehind, ZenonT(40)
  <2>4. QED
      BY <2>1, <2>3
<1>7. Buffered'
  <2>1. IF res = "ok" THEN buf' = SubSeq(all, n + 1, Len(all)) ELSE buf' = <<>>
      BY <1>1 DEF Price, l
  <2>2. bwErr' => buf' = <<>>
      BY <1>1 DEF Price
  <2>3. CASE res = "ok"
    <3>1. Lined(SubSeq(all, n + 1, Len(all)))
        BY <1>4, <1>5, BufferStep DEF l
    <3>2. Len(SubSeq(all, n + 1, Len(all))) = Len(all) - n
      <4> HIDE DEF all
      <4>1. Len(all) \in Nat /\ \A i \in 1..Len(all) : all[i] \in Byte
          BY <1>6, LenProperties, ElementOfSeq
      <4>2. QED
          BY <1>5, <1>6, <4>1, SubSeqProperties
    <3>3. Len(k) + LineLen - n <= BufSize
        BY <1>1, <1>4, <2>3 DEF Price
    <3>4. QED
      <4>1. PICK b : b = SubSeq(all, n + 1, Len(all))
          OBVIOUS
      <4>2. Len(b) <= BufSize /\ Lined(b) /\ buf' = b
        <5>1. Len(b) = Len(all) - n /\ Lined(b) /\ buf' = b
            BY <2>1, <2>3, <3>1, <3>2, <4>1
        <5> HIDE DEF all
        <5>2. Len(b) <= BufSize
            BY <1>2, <1>6, <3>3, <5>1
        <5>3. QED
            BY <5>1, <5>2
      <4>3. QED
          BY <2>2, <4>2 DEF Buffered
  <2>4. CASE res # "ok"
      BY <1>2, <1>3, <2>1, <2>2, <2>4 DEF Buffered
  <2>5. QED
      BY <2>3, <2>4
<1> DEFINE mid == [d \in Days |-> disk[d] \o IF d = file THEN f ELSE <<>>]
           N   == [d \in Days |-> mid[d] \o IF d = day THEN k ELSE <<>>]
           B   == IF res = "ok" THEN A \union {r} ELSE A
<1>8. mid \in [Days -> Seq(Byte)]
    BY <1>2, ConcatProperties
<1>9. \A d \in Days : mid[d] \o <<>> = mid[d] /\ disk[d] \o <<>> = disk[d]
    BY <1>2, <1>8, ConcatEmptySeq
<1>10. /\ Files \in [Days -> Seq(Byte)]
       /\ \A d \in Days : Files[d] = disk[d] \o IF d = file THEN buf ELSE <<>>
    BY <1>2, ConcatProperties DEF Files, Pending
<1>11. \A d \in Days : mid[d] = disk[d] \o IF d = file THEN f ELSE <<>>
    OBVIOUS
<1> HIDE DEF mid
<1>12. N \in [Days -> Seq(Byte)]
    BY <1>2, <1>8, ConcatProperties
<1>13. PICK x \in {0, 1}, y \in {0, 1}, z \in {0, 1} :
         /\ faults' = faults + x + y + z
         /\ x = 0 /\ ~IsCurrent => f = buf
         /\ res = "fault" => z = 1
    BY <1>1 DEF Price
<1>14. LossPerFault \in Nat /\ LossPerFault * 0 = 0 /\ LossPerFault * 1 = LossPerFault
    BY BufferLines, OneMore
<1>15. Cost(Files, A) \in Nat /\ Cost(N, A) \in Nat /\ Cost(Files', B) \in Nat
    BY CostType
<1>16. Cost(N, A) <= Cost(Files, A) + LossPerFault * x
  <2>1. CASE IsCurrent \/ x = 0 \/ file \notin Days
    <3>1. \A d \in Days : N[d] = Files[d]
      <4>1. CASE IsCurrent
        <5>1. k = buf /\ f = <<>> /\ file = day
            BY <1>1, <4>1 DEF Price, IsCurrent
        <5>2. QED
            BY <1>9, <1>10, <1>11, <5>1
      <4>2. CASE ~IsCurrent
        <5>1. k = <<>>
            BY <1>1, <4>2 DEF Price
        <5>2. \A d \in Days : N[d] = mid[d]
            BY <1>9, <5>1
        <5>3. \A d \in Days : mid[d] = Files[d]
            BY <1>10, <1>11, <1>13, <2>1, <4>2
        <5>4. QED
            BY <5>2, <5>3
      <4>3. QED
          BY <4>1, <4>2
    <3>2. N = Files
      <4> HIDE DEF N
      <4>1. QED
          BY <1>10, <1>12, <3>1
    <3>3. LossPerFault * x \in Nat
        BY <1>14
    <3> HIDE DEF N
    <3>4. Cost(N, A) = Cost(Files, A)
        BY <3>2
    <3>5. QED
        BY <1>15, <3>3, <3>4
  <2>2. CASE ~IsCurrent /\ x = 1 /\ file \in Days
    <3>1. k = <<>>
        BY <1>1, <2>2 DEF Price
    <3>2. \A d \in Days : N[d] = mid[d]
        BY <1>9, <3>1
    <3> HIDE DEF N
    <3>3. PICK e \in Days : e = file
        BY <2>2
    <3>4. /\ Files[e] = disk[e] \o buf /\ N[e] = disk[e] \o f
          /\ \A d \in Days : d # e => N[d] = Files[d]
        BY <1>10, <1>11, <3>2, <3>3
    <3>5. Lined(buf) /\ Len(buf) <= BufSize /\ disk[e] \in Seq(Byte)
        BY <1>2 DEF Buffered
    <3>6. Cost(N, A) <= Cost(Files, A) + LossPerFault
        BY <1>2, <1>10, <3>4, <3>5, LossCost
    <3>7. QED
        BY <1>14, <2>2, <3>6
  <2>3. QED
      BY <1>13, <2>1, <2>2
<1>17. Cost(Files', B) <= Cost(N, A) + LossPerFault * z
  <2>1. /\ \A d \in Days : disk'[d] = mid[d] \o IF d = day THEN SubSeq(all, 1, n) ELSE <<>>
        /\ \A d \in Days : Files'[d] = disk'[d] \o IF d = file' THEN buf' ELSE <<>>
        /\ Files' = [d \in Days |-> Files'[d]]
      BY <1>1, <1>11 DEF Shape, Files, Pending, l
  <2>2. SubSeq(all, 1, n) \in Seq(Byte)
    <3> HIDE DEF all
    <3>1. QED
        BY <1>5, <1>6, Cut
  <2>3. PICK e \in Days : e = day
      OBVIOUS
  <2>4. N[e] = mid[e] \o k /\ \A d \in Days : d # e => N[d] = mid[d]
      BY <1>9, <2>3
  <2>5. \A d \in Days : disk'[d] \in Seq(Byte) /\ disk'[d] \o <<>> = disk'[d]
    <3>1. \A d \in Days : disk'[d] \in Seq(Byte)
      <4> SUFFICES ASSUME NEW d \in Days PROVE disk'[d] \in Seq(Byte)
          OBVIOUS
      <4>1. PICK a \in Seq(Byte) : disk'[d] = mid[d] \o a
          BY <1>2, <2>1, <2>2
      <4>2. mid[d] \in Seq(Byte)
          BY <1>8
      <4>3. QED
          BY <4>1, <4>2, ConcatProperties
    <3>2. QED
        BY <3>1, ConcatEmptySeq
  <2>6. \A d \in Days : d # e => disk'[d] = mid[d]
      BY <1>9, <2>1, <2>3
  <2>7. disk'[e] = mid[e] \o SubSeq(all, 1, n)
      BY <2>1, <2>3
  <2> HIDE DEF N
  <2>8. CASE res = "ok"
    <3>1. file' = e /\ buf' = SubSeq(all, n + 1, Len(all))
        BY <1>1, <2>3, <2>8 DEF Price, l
    <3>2. Files'[e] = N[e] \o l
      <4>1. mid[e] \in Seq(Byte)
          BY <1>8
      <4>2. (mid[e] \o SubSeq(all, 1, n)) \o SubSeq(all, n + 1, Len(all)) = (mid[e] \o k) \o l
          BY <1>a, <4>1
      <4>3. QED
          BY <2>1, <2>4, <2>7, <3>1, <4>2
    <3>3. \A d \in Days : d # e => Files'[d] = N[d]
        BY <2>1, <2>4, <2>5, <2>6, <3>1
    <3>4. Files' = [N EXCEPT ![e] = @ \o l]
        BY <1>12, <2>1, <3>2, <3>3
    <3>5. Cost([N EXCEPT ![e] = @ \o Line(r)], A \union {r}) <= Cost(N, A)
        BY <1>12, AcceptCost
    <3>6. Cost(Files', B) <= Cost(N, A) /\ LossPerFault * z \in Nat
        BY <1>14, <2>8, <3>4, <3>5 DEF l
    <3>7. QED
        BY <1>15, <3>6
  <2>9. CASE res # "ok"
    <3>1. buf' = <<>>
        BY <1>1, <2>9 DEF Price
    <3>2. \A d \in Days : Files'[d] = disk'[d]
        BY <2>1, <2>5, <3>1
    <3>3. \A d \in Days : d # e => Files'[d] = N[d]
        BY <2>4, <2>6, <3>2
    <3>4. CASE res = "refused"
      <4>1. n = 0 /\ k = <<>>
          BY <1>1, <3>4 DEF Price, Buffered
      <4>2. SubSeq(all, 1, 0) = <<>>
          BY SubSeqEmpty
      <4>3. Files'[e] = N[e]
          BY <2>4, <2>7, <3>2, <4>1, <4>2
      <4>4. Files' = N
          BY <1>12, <2>1, <3>3, <4>3
      <4>5. LossPerFault * z \in Nat
          BY <1>14
      <4>6. QED
          BY <1>15, <2>9, <4>4, <4>5
    <3>5. CASE res = "fault"
      <4>1. Files'[e] = mid[e] \o SubSeq(all, 1, n) /\ N[e] = mid[e] \o k
          BY <2>4, <2>7, <3>2
      <4>2. Cost(Files', A) <= Cost(N, A) + LossPerFault
        <5>1. PICK v, m, u : v = Files' /\ m = mid[e] /\ u = SubSeq(all, 1, n)
            OBVIOUS
        <5>2. /\ \A d \in Days : d # e => v[d] = N[d]
              /\ N[e] = m \o k /\ v[e] = m \o u /\ m \in Seq(Byte) /\ u \in Seq(Byte)
            BY <1>8, <2>2, <3>3, <4>1, <5>1
        <5>3. Cost(v, A) <= Cost(N, A) + LossPerFault
            BY <1>4, <1>12, <5>2, LossCost
        <5>4. QED
            BY <5>1, <5>3
      <4>3. QED
          BY <1>13, <1>14, <2>9, <3>5, <4>2
    <3>6. QED
        BY <2>9, <3>4, <3>5 DEF Results
  <2>10. QED
      BY <2>8, <2>9
<1>18. faults' = faults + (x + y + z) /\ x + y + z \in Nat
    BY <1>13 DEF FileTypes
<1>19. Cost(Files', B) <= Cost(Files, A) + LossPerFault * (x + y + z)
  <2> HIDE DEF N, B
  <2>1. QED
      BY <1>14, <1>15, <1>16, <1>17, PriceSum
<1>20. QED
    BY <1>7, <1>18, <1>19

(* Emptying the buffer costs nothing when all of it reaches the file, and    *)
(* at most LossPerFault lines otherwise.                                     *)
LEMMA DropCost ==
    ASSUME FileTypes, Buffered, NEW A \in SUBSET Recs, NEW f \in Seq(Byte), buf' = <<>>,
           disk' = [d \in Days |-> disk[d] \o IF d = file THEN f ELSE <<>>]
    PROVE  /\ Cost(Files', A) <= Cost(Files, A) + LossPerFault
           /\ f = buf => Cost(Files', A) = Cost(Files, A)
<1>1. /\ \A d \in Days : disk[d] \in Seq(Byte) /\ disk[d] \o <<>> = disk[d]
      /\ buf \in Seq(Byte) /\ <<>> \in Seq(Byte)
    BY EmptySeq, ConcatEmptySeq DEF FileTypes
<1>2. /\ Files \in [Days -> Seq(Byte)]
      /\ \A d \in Days : Files[d] = disk[d] \o IF d = file THEN buf ELSE <<>>
    BY <1>1, ConcatProperties DEF Files, Pending
<1>3. /\ Files' = [d \in Days |-> Files'[d]]
      /\ \A d \in Days : Files'[d] = disk[d] \o IF d = file THEN f ELSE <<>>
  <2>1. \A d \in Days : disk'[d] \in Seq(Byte) /\ Pending(d)' = <<>>
    <3> SUFFICES ASSUME NEW d \in Days PROVE disk'[d] \in Seq(Byte) /\ Pending(d)' = <<>>
        OBVIOUS
    <3>1. PICK a \in Seq(Byte) : disk'[d] = disk[d] \o a
        BY <1>1
    <3>2. disk[d] \o a \in Seq(Byte)
        BY <1>1, ConcatProperties
    <3>3. QED
        BY <3>1, <3>2 DEF Pending
  <2>2. Files' = [d \in Days |-> disk'[d] \o Pending(d)']
      BY DEF Files
  <2>3. \A d \in Days : Files'[d] = disk'[d]
      BY <2>1, <2>2, ConcatEmptySeq
  <2>4. QED
      BY <2>2, <2>3
<1>4. Cost(Files, A) \in Nat /\ Cost(Files', A) \in Nat /\ LossPerFault \in Nat
    BY CostType, BufferLines
<1>5. ASSUME \A d \in Days : Files'[d] = Files[d]
      PROVE  Cost(Files', A) = Cost(Files, A)
  <2>1. Files' = Files
      BY <1>2, <1>3, <1>5
  <2>2. QED
      BY <2>1
<1>6. f = buf => Cost(Files', A) = Cost(Files, A)
    BY <1>2, <1>3, <1>5
<1>7. CASE file \notin Days
  <2>1. Cost(Files', A) = Cost(Files, A)
      BY <1>2, <1>3, <1>5, <1>7
  <2>2. QED
      BY <1>4, <1>6, <2>1
<1>8. CASE file \in Days
  <2>1. PICK e, v : e = file /\ v = Files'
      OBVIOUS
  <2>2. /\ e \in Days /\ disk[e] \in Seq(Byte) /\ Files[e] = disk[e] \o buf
        /\ v[e] = disk[e] \o f /\ \A d \in Days : d # e => v[d] = Files[d]
      BY <1>1, <1>2, <1>3, <1>8, <2>1
  <2>3. Lined(buf) /\ Len(buf) <= BufSize
      BY DEF Buffered
  <2>4. Cost(v, A) <= Cost(Files, A) + LossPerFault
      BY <1>1, <1>2, <2>2, <2>3, LossCost
  <2>5. QED
      BY <1>6, <2>1, <2>4
<1>9. QED
    BY <1>7, <1>8

(* A flush costs at most LossPerFault lines, and nothing unless it fails.    *)
LEMMA FlushCost ==
    ASSUME FileTypes, Buffered, NEW A \in SUBSET Recs, NEW fl \in FlushOutcomes, buf' = <<>>,
           faults' = faults + Bad(fl),
           disk' = [d \in Days |-> disk[d] \o IF d = file THEN SubSeq(buf, 1, fl.n) ELSE <<>>]
    PROVE  \E n \in Nat : /\ faults' = faults + n
                          /\ Cost(Files', A) <= Cost(Files, A) + LossPerFault * n
<1>1. /\ buf \in Seq(Byte) /\ fl.n \in 0..Len(buf) /\ Bad(fl) \in {0, 1}
      /\ Bad(fl) = 0 => fl.n = Len(buf)
    BY FlushFacts DEF FileTypes, Outcome
<1>2. SubSeq(buf, 1, fl.n) \in Seq(Byte) /\ SubSeq(buf, 1, Len(buf)) = buf
    BY <1>1, Cut, SubSeqFull
<1>3. PICK f \in Seq(Byte) : f = SubSeq(buf, 1, fl.n)
    BY <1>2
<1>4. /\ Cost(Files', A) <= Cost(Files, A) + LossPerFault
      /\ f = buf => Cost(Files', A) = Cost(Files, A)
    BY <1>3, DropCost
<1>5. /\ LossPerFault \in Nat /\ LossPerFault * 0 = 0 /\ LossPerFault * 1 = LossPerFault
      /\ Cost(Files, A) \in Nat
    BY BufferLines, OneMore, CostType
<1>6. CASE Bad(fl) = 0
  <2>1. Cost(Files', A) <= Cost(Files, A) + LossPerFault * 0
      BY <1>1, <1>2, <1>3, <1>4, <1>5, <1>6
  <2>2. QED
      BY <1>6, <2>1
<1>7. CASE Bad(fl) = 1
    BY <1>4, <1>5, <1>7
<1>8. QED
    BY <1>1, <1>6, <1>7

\* What bounds the loss.
LossInv == IInv /\ Shutdown /\ Buffered /\ Budget

(* What a step may spend.                                                    *)
LEMMA Spend ==
    ASSUME NEW m \in Nat, NEW a \in Nat, NEW b \in Nat, NEW n \in Nat, NEW c0 \in Nat,
           NEW c1 \in Nat, c0 <= m * (a + b), c1 <= c0 + m * n
    PROVE  c1 <= m * ((a + n) + b) /\ c1 <= m * (a + (b + n))
<1>1. m * ((a + n) + b) = m * (a + b) + m * n /\ m * (a + (b + n)) = m * (a + b) + m * n
    OBVIOUS
<1>2. m * (a + b) \in Nat /\ m * n \in Nat
    OBVIOUS
<1> DEFINE x == m * (a + b)
           y == m * n
<1>3. x \in Nat /\ y \in Nat /\ c0 <= x /\ c1 <= c0 + y
    BY <1>2
<1> HIDE DEF x, y
<1>4. c1 <= x + y
    BY <1>3
<1>5. QED
    BY <1>1, <1>4 DEF x, y

(* A step that pays for what it loses keeps within the budget.               *)
LEMMA Pays ==
    ASSUME TypeOK, Budget, acked' \in SUBSET Recs, crashes' = crashes,
           asyncSize' = asyncSize,
           asyncSize = 0 =>
             \E n \in Nat : /\ faults' = faults + n
                            /\ Cost(Files', acked') <= Cost(Files, acked) + LossPerFault * n
    PROVE  Budget'
<1> SUFFICES ASSUME asyncSize = 0
             PROVE  Cost(Files', acked') <= LossPerFault * (faults' + crashes')
    BY DEF Budget
<1>1. PICK n \in Nat : /\ faults' = faults + n
                       /\ Cost(Files', acked') <= Cost(Files, acked) + LossPerFault * n
    OBVIOUS
<1>2. /\ LossPerFault \in Nat /\ faults \in Nat /\ crashes \in Nat
      /\ Cost(Files, acked) \in Nat /\ Cost(Files', acked') \in Nat
    BY BufferLines, CostType DEF TypeOK
<1>3. Cost(Files, acked) <= LossPerFault * (faults + crashes)
    BY DEF Budget
<1>4. Cost(Files', acked') <= LossPerFault * ((faults + n) + crashes)
    BY <1>1, <1>2, <1>3, Spend
<1>5. QED
    BY <1>1, <1>4

(* A step that leaves the files, the writer and the acknowledged lines alone. *)
LEMMA IdlePays ==
    ASSUME Buffered, Budget, UNCHANGED fileVars, UNCHANGED <<asyncSize, acked, crashes>>
    PROVE  Buffered' /\ Budget'
<1>1. Buffered'
    BY DEF Buffered, Lined, fileVars
<1>2. Files' = Files
    BY DEF Files, Pending, fileVars
<1>3. QED
    BY <1>1, <1>2 DEF Budget, fileVars

(* Flushes keep the buffer in shape and within the budget.                   *)
LEMMA FlushPays ==
    ASSUME LossInv, NEW fl \in FlushOutcomes, buf' = <<>>, acked' = acked, crashes' = crashes,
           asyncSize' = asyncSize, faults' = faults + Bad(fl),
           disk' = [d \in Days |-> disk[d] \o IF d = file THEN SubSeq(buf, 1, fl.n) ELSE <<>>]
    PROVE  Buffered' /\ Budget'
<1>1. TypeOK /\ FileTypes /\ Buffered /\ Budget /\ acked \in SUBSET Recs
    BY TypeParts DEF LossInv, IInv, TypeOK
<1>2. \E n \in Nat : /\ faults' = faults + n
                     /\ Cost(Files', acked) <= Cost(Files, acked) + LossPerFault * n
    BY <1>1, FlushCost
<1>3. Budget'
    BY <1>1, <1>2, Pays
<1>4. Buffered'
    BY EmptySeq, StoreAssumption DEF Buffered, Lined
<1>5. QED
    BY <1>3, <1>4

(* So does Flush under the lock.                                             *)
LEMMA FlushLockedPays ==
    ASSUME LossInv, FlushLocked, UNCHANGED <<asyncSize, acked, crashes>>
    PROVE  Buffered' /\ Budget'
<1>1. PICK fl \in FlushOutcomes :
        /\ faults' = faults + Bad(fl)
        /\ disk' = [d \in Days |-> disk[d] \o IF d = file THEN SubSeq(buf, 1, fl.n) ELSE <<>>]
        /\ buf' = <<>>
    BY DEF FlushLocked
<1>2. QED
    BY <1>1, FlushPays

(* Initially nothing is lost.                                                *)
LEMMA InitLoss == Init => LossInv
<1> SUFFICES ASSUME Init PROVE LossInv
    OBVIOUS
<1>1. IInv /\ Shutdown
    BY InitInv, InitDurable
<1>2. Buffered
    BY EmptySeq, StoreAssumption DEF Init, Buffered, Lined
<1>3. \A d \in Days : Files[d] = <<>>
    BY EmptySeq, ConcatEmptySeq DEF Init, Files, Pending
<1>4. Doomed(Files, acked) = {} /\ TornFiles(Files) = {}
    BY <1>3 DEF Init, Doomed, TornFiles, Torn
<1>5. Cost(Files, acked) = 0
    BY <1>4, FS_EmptySet DEF Cost
<1>6. LossPerFault * (faults + crashes) = 0
    BY BufferLines, OneMore DEF Init
<1>7. QED
    BY <1>1, <1>2, <1>5, <1>6 DEF LossInv, Budget

(* Every step pays for what it loses.                                        *)
LEMMA NextLoss == LossInv /\ [Next]_vars => Buffered' /\ Budget'
<1> SUFFICES ASSUME LossInv, [Next]_vars PROVE Buffered' /\ Budget'
    OBVIOUS
<1>1. /\ TypeOK /\ FileTypes /\ RestTypes /\ Shutdown /\ Buffered /\ Budget
      /\ day \in Days /\ acked \in SUBSET Recs
    BY TypeParts DEF LossInv, IInv, TypeOK
<1>2. nextRec \in Nat /\ (nextRec <= MaxRec => nextRec \in Recs)
    BY <1>1, StoreAssumption DEF RestTypes, Recs
<1>m. asyncSize' = asyncSize /\ asyncSize \in Nat
    BY <1>1, SameMode, StoreAssumption DEF TypeOK
<1> USE <1>m
<1>3. CASE AppendSync
  <2>1. PICK res \in Results :
          /\ WriteLocked(nextRec, res)
          /\ acked' = IF res = "ok" THEN acked \union {nextRec} ELSE acked
      BY <1>3 DEF AppendSync
  <2>2. nextRec \in Recs /\ crashes' = crashes
      BY <1>2, <1>3 DEF AppendSync, MayAppend, envVars
  <2>3. /\ Buffered'
        /\ \E n \in Nat : /\ faults' = faults + n
                          /\ Cost(Files', acked') <= Cost(Files, acked) + LossPerFault * n
      BY <1>1, <2>1, <2>2, WriteCost
  <2>4. acked' \in SUBSET Recs
      BY <1>1, <2>1, <2>2
  <2>5. QED
      BY <1>1, <2>2, <2>3, <2>4, Pays
<1>4. CASE AppendAsync
  <2>1. asyncSize # 0 /\ UNCHANGED fileVars
      BY <1>4, StoreAssumption DEF AppendAsync
  <2>2. QED
      BY <1>1, <2>1 DEF Buffered, Lined, Budget, fileVars
<1>5. CASE AppendPanics
    BY <1>1, <1>5, IdlePays DEF AppendPanics, appVars, envVars
<1>6. ASSUME Flush PROVE Buffered' /\ Budget'
    BY <1>6, FlushLockedPays DEF Flush, envVars, appVars
<1>7. CASE FlusherTick
    BY <1>6, <1>7 DEF FlusherTick
<1>8. CASE FlusherExit
    BY <1>1, <1>8, IdlePays DEF FlusherExit, appVars, envVars
<1>9. CASE WorkerReceive
    BY <1>1, <1>9, IdlePays DEF WorkerReceive, appVars, envVars
<1>10. CASE WorkerWrite
  <2>1. PICK res \in Results : WriteLocked(line, res)
      BY <1>10 DEF WorkerWrite
  <2>2. line \in Recs /\ asyncSize # 0
      BY <1>1, <1>10, StoreAssumption DEF WorkerWrite, RestTypes, Recs, Shutdown
  <2>3. Buffered'
      BY <1>1, <2>1, <2>2, WriteCost
  <2>4. QED
      BY <2>2, <2>3 DEF Budget
<1>11. CASE WorkerTick
    BY <1>6, <1>11 DEF WorkerTick
<1>12. CASE WorkerFlush
    BY <1>12, FlushLockedPays DEF WorkerFlush, envVars, appVars
<1>13. CASE WorkerStop
    BY <1>1, <1>13, IdlePays DEF WorkerStop, appVars, envVars
<1>14. ASSUME NEW c \in Closers, CloseOnce(c) PROVE Buffered' /\ Budget'
    BY <1>1, <1>14, IdlePays DEF CloseOnce, envVars
<1>15. ASSUME NEW c \in Closers, CloseWaited(c) PROVE Buffered' /\ Budget'
    BY <1>1, <1>15, IdlePays DEF CloseWaited, appVars, envVars
<1>16. ASSUME NEW c \in Closers, CloseLocked(c) PROVE Buffered' /\ Budget'
  <2>1. PICK fl \in FlushOutcomes :
          /\ faults' = faults + Bad(fl)
          /\ disk' = [d \in Days |-> disk[d] \o IF d = file THEN SubSeq(buf, 1, fl.n)
                                                 ELSE <<>>]
      BY <1>16 DEF CloseLocked
  <2>2. QED
      BY <1>16, <2>1, FlushPays DEF CloseLocked, envVars, appVars
<1>17. CASE NextDay
    BY <1>1, <1>17, IdlePays DEF NextDay, appVars
<1>18. CASE Crash
  <2>1. /\ buf' = <<>> /\ crashes' = crashes + 1 /\ faults' = faults /\ acked' = acked
        /\ disk' = disk
      BY <1>18 DEF Crash, appVars
  <2>2. Buffered'
      BY <2>1, EmptySeq, StoreAssumption DEF Buffered, Lined
  <2>3. disk' = [d \in Days |-> disk[d] \o IF d = file THEN <<>> ELSE <<>>]
    <3>1. \A d \in Days : disk[d] \o <<>> = disk[d]
        BY <1>1, ConcatEmptySeq DEF FileTypes
    <3>2. disk = [d \in Days |-> disk[d]]
        BY <1>1 DEF FileTypes
    <3>3. QED
        BY <2>1, <3>1, <3>2
  <2>4. Cost(Files', acked) <= Cost(Files, acked) + LossPerFault
      BY <1>1, <2>1, <2>3, DropCost, EmptySeq
  <2>5. /\ LossPerFault \in Nat /\ LossPerFault * 1 = LossPerFault /\ faults \in Nat
        /\ crashes \in Nat /\ Cost(Files, acked) \in Nat /\ Cost(Files', acked) \in Nat
      BY <1>1, BufferLines, OneMore, CostType DEF TypeOK
  <2>6. ASSUME asyncSize = 0
        PROVE  Cost(Files', acked) <= LossPerFault * (faults + (crashes + 1))
    <3>1. Cost(Files, acked) <= LossPerFault * (faults + crashes)
        BY <1>1, <2>6 DEF Budget
    <3>2. Cost(Files', acked) <= Cost(Files, acked) + LossPerFault * 1
        BY <2>4, <2>5
    <3>3. QED
        BY <2>5, <3>1, <3>2, Spend
  <2>7. Budget'
      BY <2>1, <2>6 DEF Budget
  <2>8. QED
      BY <2>2, <2>7
<1>19. CASE UNCHANGED vars
    BY <1>1, <1>19, IdlePays DEF vars, appVars, envVars
<1>20. QED
    BY <1>3, <1>4, <1>5, <1>6, <1>7, <1>8, <1>9, <1>10, <1>11, <1>12, <1>13, <1>14, <1>15,
       <1>16, <1>17, <1>18, <1>19 DEF Next

(* The loss stays within the budget in every state of the Store.             *)
THEOREM LossInvariant == Spec => []LossInv
<1>1. LossInv /\ [Next]_vars => LossInv'
    BY NextInv, NextShutdown, NextLoss DEF LossInv, IInv
<1>2. QED
    BY <1>1, InitLoss, PTL DEF Spec

(* In synchronous mode every failed operation and every crash costs at most  *)
(* the acknowledged lines that end in the buffer and one line glued to a     *)
(* torn one, whatever happens before and after, for every line length and    *)
(* buffer size.                                                              *)
THEOREM LossIsBounded == Spec => []LossBounded
<1>1. LossInv => LossBounded
  <2> SUFFICES ASSUME LossInv, asyncSize = 0
               PROVE  Cardinality({r \in acked : ~InBuffer(r) /\ ~Readable(r)})
                          <= LossPerFault * (faults + crashes)
      BY DEF LossBounded
  <2> DEFINE L == {r \in acked : ~InBuffer(r) /\ ~Readable(r)}
  <2>1. TypeOK /\ acked \in SUBSET Recs /\ buf \in Seq(Byte) /\ <<>> \in Seq(Byte)
      BY EmptySeq DEF LossInv, IInv, TypeOK
  <2>2. L \subseteq Doomed(Files, acked)
    <3> SUFFICES ASSUME NEW r \in acked, ~InBuffer(r), ~Readable(r), NEW d \in Days,
                        ReadableIn(r, Files[d])
                 PROVE  FALSE
        BY DEF Doomed
    <3>1. /\ disk[d] \in Seq(Byte) /\ disk[d] \o <<>> = disk[d] /\ r \in Recs
          /\ Pending(d) \in Seq(Byte) /\ Files[d] = disk[d] \o Pending(d)
        BY <2>1, ConcatEmptySeq DEF TypeOK, Pending, Files
    <3>2. ~ReadableIn(r, disk[d] \o <<>>)
        BY <3>1 DEF Readable, ReadableIn
    <3>3. ReadableIn(r, disk[d] \o Pending(d))
        BY <3>1
    <3>4. \E j \in 1..Len(Pending(d)) : Pending(d)[j] = <<r, LineLen>>
        BY <2>1, <3>1, <3>2, <3>3, ReadKept, Zenon
    <3>5. d = file
      <4>1. d # file => Len(Pending(d)) = 0
          BY EmptySeq DEF Pending
      <4>2. QED
          BY <3>4, <4>1
    <3>6. Pending(d) = buf /\ DOMAIN buf = 1..Len(buf)
        BY <2>1, <3>5, LenProperties DEF Pending
    <3>7. QED
        BY <3>4, <3>6 DEF InBuffer
  <2>3. /\ IsFiniteSet(Doomed(Files, acked)) /\ Cardinality(Doomed(Files, acked)) \in Nat
        /\ Cardinality(TornFiles(Files)) \in Nat
      BY <2>1, CostType
  <2> HIDE DEF L
  <2>4. /\ Cardinality(L) <= Cardinality(Doomed(Files, acked))
        /\ IsFiniteSet(L) /\ Cardinality(L) \in Nat
      BY <2>2, <2>3, FS_Subset, FS_CardinalityType
  <2>5. Cardinality(L) <= Cost(Files, acked)
      BY <2>3, <2>4 DEF Cost
  <2>6. Cost(Files, acked) <= LossPerFault * (faults + crashes)
      BY DEF LossInv, Budget
  <2>7. /\ Cost(Files, acked) \in Nat
        /\ LossPerFault * (faults + crashes) \in Nat
    <3>1. LossPerFault \in Nat /\ faults + crashes \in Nat
        BY <2>1, BufferLines DEF TypeOK
    <3>2. QED
        BY <2>1, <3>1, CostType, OneMore
  <2>8. Cardinality(L) <= LossPerFault * (faults + crashes)
      BY <2>4, <2>5, <2>6, <2>7
  <2>9. QED
      BY <2>8 DEF L
<1>2. QED
    BY <1>1, LossInvariant, PTL
=============================================================================
