------------------------- MODULE JsonlReaderProofs --------------------------
(***************************************************************************)
(* What CleanOlderThan removes and what DecodeTailDays, DecodeSince and     *)
(* DecodeSinceSampled return, proved for every length of a day, block size, *)
(* limit, cutoff, sample size and filter, and any number of records.        *)
(*                                                                          *)
(* CleanOlderThan takes its list of files once and then works through it    *)
(* while the Store writes on and the clock passes midnight, so the list is  *)
(* stale when it is used.  The proof says why no young record goes: a day   *)
(* before the call never gets a first byte again, a listed day is beyond    *)
(* the retention, and no record is filed before its timestamp's day.        *)
(*                                                                          *)
(* tailLines reads a file in blocks from its end.  Between two blocks it    *)
(* has the lines behind the first newline it has met, and carries the bytes *)
(* before it: HalfRead says that these, put behind the bytes not yet read,  *)
(* still have the lines of the whole file.  A block keeps it (BlockSplit),  *)
(* so the lines are those ScanFile finds, whatever the borders cut through. *)
(*                                                                          *)
(* DecodeSince scans the days from the cutoff on while the Store appends.   *)
(* A record is filed under the day of its writing, never one before its     *)
(* timestamp, and records rise through a file and from file to file         *)
(* (Ordered).  So a record asked for is found already or is due in a file   *)
(* not yet scanned, and what is found rises too (Gathered).  A sample has   *)
(* in each bucket a line of that bucket and none newer was met (Sampling).  *)
(***************************************************************************)
EXTENDS JsonlReader, SequenceTheorems, WellFoundedInduction, TLAPS

\* The Store: the file of the record being written has its first byte already.
Writer ==
    /\ clock \in 0 .. MaxTime /\ rec \in Nat /\ wpos \in 0 .. 2 /\ wday \in Days
    /\ file \in [Days -> Seq(Nat)]
    /\ wpos # 0 => file[wday] # <<>>

\* A call began at some time that has passed, and none has removed a file before
\* it began.
Began ==
    /\ today \in Nat /\ (job.kind # "since" => today <= Day(clock))
    /\ pc = "idle" => deleted = {}

\* The list of CleanOlderThan: it has only days beyond the retention, it still
\* has all of them that lie before the call's day, and no other file is removed.
Listed ==
    job.kind = "clean" =>
        /\ pc \in {"clean", "done"} /\ job.retain \in Nat /\ job.skew \in Int
        /\ \A d \in job.list : d \in Days /\ d <= today + job.skew - job.retain
        /\ deleted \subseteq job.list
        /\ job.prefixed => \A d \in Days :
             d + job.retain <= today + job.skew /\ d < today /\ file[d] # <<>> => d \in job.list
        /\ pc = "done" => job.list \subseteq deleted \cup failed

RetentionInv == Writer /\ Began /\ Listed

-----------------------------------------------------------------------------
(* Dates.                                                                    *)

\* The date of a time on the clock is one of the days there are files for.
LEMMA DayOfClock ==
    ASSUME NEW t \in 0 .. MaxTime PROVE Day(t) \in Days
<1>1. /\ DayLen \in Nat \ {0} /\ MaxTime \in Nat
      BY ReaderAssumption
<1>2. \A m \in Nat, n \in Nat \ {0} : \A u \in 0 .. m : u \div n \in 0 .. (m \div n)
      OBVIOUS
<1>3. QED BY <1>1, <1>2 DEF Day, Days

\* A later time has no earlier date.
LEMMA DayGrows ==
    ASSUME NEW t \in 0 .. MaxTime PROVE Day(t) <= Day(t + 1)
<1>1. DayLen \in Nat \ {0} /\ MaxTime \in Nat
      BY ReaderAssumption
<1>2. \A n \in Nat \ {0}, u \in Nat : u \div n <= (u + 1) \div n
      OBVIOUS
<1>3. QED BY <1>1, <1>2 DEF Day

\* Dates follow times.
LEMMA DayFollows ==
    ASSUME NEW s \in Nat, NEW t \in Nat, s <= t
    PROVE  Day(s) \in Nat /\ Day(t) \in Nat /\ Day(s) <= Day(t)
<1>1. \A n \in Nat \ {0}, m \in Nat : \A u \in 0 .. m : m \div n \in Nat /\ u \div n \in 0 .. (m \div n)
    OBVIOUS
<1>2. DayLen \in Nat \ {0} /\ s \in 0 .. t
    BY ReaderAssumption
<1>3. t \div DayLen \in Nat /\ s \div DayLen \in 0 .. (t \div DayLen)
    BY <1>1, <1>2
<1>4. QED
    BY <1>3 DEF Day

\* Dates are numbers.
LEMMA DaysAreNumbers == Days \subseteq Nat
<1>1. \A m \in Nat, n \in Nat \ {0} : m \div n \in Nat
      OBVIOUS
<1>2. QED BY <1>1, ReaderAssumption DEF Days, Day

\* A byte appended to a day's file leaves every file a sequence of bytes, and this
\* one not empty.
LEMMA AppendedTo ==
    ASSUME NEW f \in [Days -> Seq(Nat)], NEW d \in Days, NEW b \in Nat
    PROVE  LET g == [f EXCEPT ![d] = Append(@, b)]
           IN  g \in [Days -> Seq(Nat)] /\ g[d] # <<>>
<1> DEFINE s == Append(f[d], b)
<1>1. f[d] \in Seq(Nat)
      OBVIOUS
<1>2. s \in Seq(Nat) /\ Len(s) = Len(f[d]) + 1 /\ Len(f[d]) \in Nat
      BY <1>1
<1>3. s # <<>>
      BY <1>2, SMTT(30)
<1> HIDE DEF s
<1>4. [f EXCEPT ![d] = s] \in [Days -> Seq(Nat)] /\ [f EXCEPT ![d] = s][d] = s
      BY <1>2
<1>5. QED BY <1>3, <1>4 DEF s

-----------------------------------------------------------------------------
(* The invariant holds at the start and is kept by every step.               *)

LEMMA RetentionInit == Init => RetentionInv
<1> SUFFICES ASSUME Init PROVE RetentionInv
    OBVIOUS
<1>1. /\ clock \in 0 .. MaxTime
      BY ReaderAssumption DEF Init
<1>2. Day(0) = 0 /\ 0 \in Days
  <2>1. \A n \in Nat \ {0} : 0 \div n = 0
        OBVIOUS
  <2>2. Day(0) = 0
        BY <2>1, ReaderAssumption DEF Day
  <2>3. QED BY <2>2, DayOfClock, ReaderAssumption
<1>3. Writer
      BY <1>1, <1>2 DEF Init, Writer
<1>4. Began /\ Listed
      BY <1>2 DEF Init, Began, Listed, NoJob
<1>5. QED BY <1>3, <1>4 DEF RetentionInv

\* The Store's steps leave the call alone.
LEMMA StoreKeeps ==
    ASSUME RetentionInv, WriteRecord \/ WriteByte
    PROVE  RetentionInv'
<1> USE DEF RetentionInv
<1>1. /\ Days \subseteq Nat /\ Day(clock) \in Days
      BY DaysAreNumbers, DayOfClock DEF Writer
<1>2. UNCHANGED <<clock, deleted, job, today, pc, failed>>
      BY DEF WriteRecord, WriteByte, callVars
<1>3. Began'
      BY <1>2 DEF Began, Day
<1>4. /\ Writer'
      /\ job.kind # "since" => \A d \in Days : d < today => (file'[d] = <<>> <=> file[d] = <<>>)
  <2>1. CASE WriteRecord
    <3>1. /\ rec' \in Nat /\ wpos' = 1 /\ wday' = Day(clock)
          /\ file' = [file EXCEPT ![Day(clock)] = Append(@, rec + 1)]
          BY <2>1 DEF WriteRecord, Writer
    <3>2. file' \in [Days -> Seq(Nat)] /\ file'[Day(clock)] # <<>>
      <4>1. rec + 1 \in Nat
            BY DEF Writer
      <4>2. PICK b \in Nat : file' = [file EXCEPT ![Day(clock)] = Append(@, b)]
            BY <3>1, <4>1, Zenon
      <4>3. QED BY <4>2, <1>1, AppendedTo DEF Writer
    <3>3. job.kind # "since" => \A d \in Days : d < today => file'[d] = file[d]
          BY <3>1, <1>1 DEF Writer, Began
    <3>4. Writer'
          BY <3>1, <3>2, <1>1, <1>2, SMTT(30) DEF Writer
    <3>5. QED BY <3>3, <3>4, Zenon
  <2>2. CASE WriteByte
    <3>1. /\ wpos \in 1 .. 2 /\ wpos' = (wpos + 1) % 3 /\ UNCHANGED <<rec, wday>>
          /\ file' = [file EXCEPT ![wday] = Append(@, Bytes(rec)[wpos + 1])]
          BY <2>2 DEF WriteByte
    <3>2. Bytes(rec)[wpos + 1] \in Nat /\ wpos' \in 0 .. 2
          BY <3>1 DEF Writer, Bytes, Newline
    <3>3. PICK b \in Nat : file' = [file EXCEPT ![wday] = Append(@, b)]
          BY <3>1, <3>2
    <3>4. file' \in [Days -> Seq(Nat)] /\ file'[wday] # <<>>
          BY <3>3, AppendedTo DEF Writer
    <3>5. \A d \in Days : file'[d] = <<>> <=> file[d] = <<>>
          BY <3>1, <3>3, <3>4 DEF Writer
    <3>6. QED BY <3>1, <3>2, <3>4, <3>5, <1>2 DEF Writer
  <2>3. QED BY <2>1, <2>2
<1>5. Listed'
      BY <1>2, <1>4 DEF Listed
<1>6. QED BY <1>3, <1>4, <1>5

\* The steps that change no file and neither begin nor work on a removal.
LEMMA OthersKeep ==
    ASSUME RetentionInv,
           \/ Crash \/ Tick \/ TailOpen \/ TailChunk \/ TailDecode
           \/ ScanFile \/ ScanDone \/ ReadFails \/ UNCHANGED vars
    PROVE  RetentionInv'
<1> USE DEF RetentionInv
<1>1. UNCHANGED <<file, rec, wday, deleted, job, today, failed>>
      BY DEF Crash, Tick, TailOpen, TailChunk, TailDecode, ScanFile, ScanDone, ReadFails,
             vars, storeVars, callVars
<1>2. /\ wpos' \in {0, wpos}
      /\ clock' \in 0 .. MaxTime /\ Day(clock) <= Day(clock')
  <2>1. CASE Tick
        BY <2>1, DayGrows, ReaderAssumption DEF Tick, Writer, storeVars
  <2>2. CASE ~Tick
    <3>1. clock' = clock /\ wpos' \in {0, wpos}
          BY <2>2 DEF Crash, TailOpen, TailChunk, TailDecode, ScanFile, ScanDone, ReadFails, vars, storeVars
    <3>2. Day(clock) \in Nat
          BY DayOfClock, DaysAreNumbers DEF Writer
    <3>3. QED BY <3>1, <3>2 DEF Writer
  <2>3. QED BY <2>1, <2>2
<1>3. /\ pc' = "idle" => pc = "idle"
      /\ pc \in {"clean", "done"} => pc' = pc
      BY DEF Crash, Tick, TailOpen, TailChunk, TailDecode, ScanFile, ScanDone, ReadFails, vars
<1>4. Writer'
      BY <1>1, <1>2 DEF Writer
<1>5. Began'
  <2>1. Day(clock) \in Nat /\ Day(clock') \in Nat
        BY <1>2, DayOfClock, DaysAreNumbers DEF Writer
  <2>2. job'.kind # "since" => today' <= Day(clock')
        BY <2>1, <1>1, <1>2 DEF Began
  <2>3. Day(clock)' = Day(clock')
        BY DEF Day
  <2>4. QED BY <2>2, <2>3, <1>1, <1>3 DEF Began
<1>6. Listed'
      BY <1>1, <1>3 DEF Listed
<1>7. QED BY <1>4, <1>5, <1>6

\* DecodeTailDays and DecodeSince begin.
LEMMA ReadersKeep ==
    ASSUME RetentionInv, StartTail \/ StartSince
    PROVE  RetentionInv'
<1> USE DEF RetentionInv
<1>1. /\ UNCHANGED <<clock, file, rec, wpos, wday, deleted>>
      /\ pc' # "idle" /\ job'.kind # "clean"
      BY DEF StartTail, StartSince, Start, storeVars
<1>2. Day(clock) \in Nat /\ Day(clock)' = Day(clock)
      BY <1>1, DayOfClock, DaysAreNumbers DEF Writer, Day
<1>3. today' \in Nat /\ (job'.kind # "since" => today' <= Day(clock))
  <2>1. CASE StartTail
      BY <1>2, <2>1 DEF StartTail, Start
  <2>2. CASE StartSince
    <3>1. PICK c \in 0 .. MaxTime : today' = LastDay(c) /\ job'.kind = "since"
        BY <2>2 DEF StartSince
    <3>2. QED BY <3>1, DayOfClock, DaysAreNumbers DEF LastDay, Writer
  <2>3. QED BY <2>1, <2>2
<1>4. QED BY <1>1, <1>2, <1>3 DEF Writer, Began, Listed

\* CleanOlderThan takes its list.
LEMMA CleanBegins ==
    ASSUME RetentionInv, StartClean
    PROVE  RetentionInv'
<1> USE DEF RetentionInv
<1>1. PICK n \in 1 .. MaxDays, k \in Skews, p \in BOOLEAN :
        Start([kind |-> "clean", retain |-> n, skew |-> k, prefixed |-> p,
               list |-> Expired(n, k, p)], "clean")
      BY DEF StartClean
<1>2. /\ UNCHANGED <<clock, file, rec, wpos, wday, deleted>>
      /\ today' = Day(clock) /\ pc' = "clean" /\ pc = "idle"
      /\ job' = [kind |-> "clean", retain |-> n, skew |-> k, prefixed |-> p,
                 list |-> Expired(n, k, p)]
      BY <1>1 DEF Start, storeVars
<1>3. /\ Day(clock) \in Nat /\ Day(clock)' = Day(clock) /\ Days \subseteq Nat
      /\ n \in Nat /\ k \in Int
      BY <1>2, DayOfClock, DaysAreNumbers, ReaderAssumption, SMTT(30) DEF Writer, Day
<1>4. Writer' /\ Began'
      BY <1>2, <1>3 DEF Writer, Began
<1>5. deleted = {}
      BY <1>2 DEF Began
<1>6. /\ job'.kind = "clean" /\ job'.retain = n /\ job'.skew = k /\ job'.prefixed = p
      /\ job'.list = Expired(n, k, p)
      BY <1>2
<1>7. \A d : d \in Expired(n, k, p) <=>
             d \in Days /\ p /\ file[d] # <<>> /\ d <= Day(clock) + k - n
      BY DEF Expired
<1>8. \A d \in Days : d + n <= Day(clock) + k => d <= Day(clock) + k - n
      BY <1>3
<1>9. Listed'
      BY <1>2, <1>3, <1>5, <1>6, <1>7, <1>8 DEF Listed
<1>10. QED BY <1>4, <1>9

\* CleanOlderThan works through its list.
LEMMA CleanKeeps ==
    ASSUME RetentionInv, RemoveFails \/ RemoveFile \/ CleanDone
    PROVE  RetentionInv'
<1> USE DEF RetentionInv
<1>1. UNCHANGED <<clock, file, rec, wpos, wday, job, today>> /\ pc = "clean"
      /\ pc' \in {"clean", "done"}
      BY DEF RemoveFails, RemoveFile, CleanDone, storeVars, callVars
<1>2. Writer' /\ Began'
      BY <1>1 DEF Writer, Began, Day
<1>3. ASSUME job.kind = "clean" PROVE deleted' \subseteq job.list
      BY <1>3 DEF Listed, RemoveFails, RemoveFile, CleanDone
<1>4. pc' = "done" => job'.list \subseteq deleted' \cup failed'
      BY <1>1 DEF RemoveFails, RemoveFile, CleanDone, callVars
<1>5. Listed'
      BY <1>1, <1>3, <1>4 DEF Listed
<1>6. QED BY <1>2, <1>5

-----------------------------------------------------------------------------
\* What the list of CleanOlderThan and the days it may remove have to do with
\* each other holds throughout, whatever the Store and the clock do meanwhile.
THEOREM RetentionInvariant == Spec => []RetentionInv
<1>1. RetentionInv /\ [Next]_vars => RetentionInv'
      BY StoreKeeps, OthersKeep, ReadersKeep, CleanBegins, CleanKeeps DEF Next
<1>2. QED BY RetentionInit, <1>1, PTL DEF Spec

-----------------------------------------------------------------------------
(* Induction over data.  The library states it for an operator, which the    *)
(* provers cannot be given; here it is stated for a set, and a recursive     *)
(* function is shown to be the one fold of its steps.                        *)

\* A set of numbers that is not empty has a least member.
LEMMA Least ==
    ASSUME NEW T \in SUBSET Nat, T # {}
    PROVE  \E m \in T : \A k \in T : m <= k
<1> DEFINE R == OpToRel(<, Nat)
<1>1. IsWellFoundedOn(R, Nat)
    BY NatLessThanWellFounded, Zenon
<1>2. \A x, y \in Nat : y < x => <<y, x>> \in R
    BY DEF OpToRel
<1> HIDE DEF R
<1>3. PICK x \in T : \A y \in T : ~ (<<y, x>> \in R)
    BY <1>1, WFMin, Zenon
<1>4. \A y \in T : ~(y < x)
    BY <1>2, <1>3
<1>5. QED
    BY <1>4

\* Induction on numbers; P is a set, since the provers cannot be given an
\* operator.
LEMMA NatSteps ==
    ASSUME NEW P, 0 \in P, \A n \in Nat : n \in P => n + 1 \in P
    PROVE  Nat \subseteq P
<1> SUFFICES ASSUME Nat \ P # {} PROVE FALSE
    OBVIOUS
<1>1. PICK m \in Nat \ P : \A k \in Nat \ P : m <= k
    BY Least
<1>2. m # 0 /\ m - 1 \in Nat /\ m - 1 \in P
    BY <1>1
<1>3. (m - 1) + 1 \in P
    BY <1>2
<1>4. QED
    BY <1>3

\* Induction on sequences, from the empty one and by appending.
LEMMA SeqSteps ==
    ASSUME NEW S, NEW P, <<>> \in P,
           \A s \in Seq(S) : \A e \in S : s \in P => Append(s, e) \in P
    PROVE  Seq(S) \subseteq P
<1> DEFINE N == {n \in Nat : \A s \in Seq(S) : Len(s) = n => s \in P}
<1>1. 0 \in N
  <2>1. \A s \in Seq(S) : Len(s) = 0 => s = <<>>
      BY EmptySeq
  <2>2. QED
      BY <2>1
<1>2. ASSUME NEW n \in Nat, n \in N PROVE n + 1 \in N
  <2> SUFFICES ASSUME NEW s \in Seq(S), Len(s) = n + 1 PROVE s \in P
      OBVIOUS
  <2>1. PICK t \in Seq(S), e \in S : s = Append(t, e)
    <3>1. s # <<>>
        BY EmptySeq
    <3>2. QED
        BY <3>1, SequenceEmptyOrAppend
  <2>2. Len(t) = n
      BY <2>1, AppendProperties, LenProperties
  <2>3. QED
      BY <1>2, <2>1, <2>2
<1> HIDE DEF N
<1>3. Nat \subseteq N
    BY <1>1, <1>2, NatSteps
<1>4. QED
    BY <1>3, LenProperties DEF N

\* f starts with base and goes on by the steps of g, N of them.
IsFold(f, N, V, base, g) ==
    f \in [0 .. N -> V] /\ f[0] = base /\ \A n \in 1 .. N : f[n] = g[f[n - 1]][n]

\* A fold of N steps exists when every step stays within V.
LEMMA RecExists ==
    ASSUME NEW N \in Nat, NEW V, NEW base \in V,
           NEW g, \A v \in V, n \in 1 .. N : g[v][n] \in V
    PROVE  \E f : IsFold(f, N, V, base, g)
<1> DEFINE P == {k \in Nat : k <= N => \E f : IsFold(f, k, V, base, g)}
<1>1. 0 \in P
  <2>1. IsFold([i \in 0 .. 0 |-> base], 0, V, base, g)
      BY DEF IsFold
  <2>2. QED
      BY <2>1
<1>2. ASSUME NEW k \in Nat, k \in P PROVE k + 1 \in P
  <2> SUFFICES ASSUME k + 1 <= N PROVE \E f : IsFold(f, k + 1, V, base, g)
      OBVIOUS
  <2>1. PICK f : IsFold(f, k, V, base, g)
      BY <1>2
  <2>2. PICK w \in V : w = g[f[k]][k + 1]
      BY <2>1 DEF IsFold
  <2> DEFINE h == [i \in 0 .. k + 1 |-> IF i = k + 1 THEN w ELSE f[i]]
  <2>3. h \in [0 .. k + 1 -> V] /\ h[0] = base
      BY <2>1 DEF IsFold
  <2>4. ASSUME NEW n \in 1 .. k + 1 PROVE h[n] = g[h[n - 1]][n]
    <3>1. CASE n = k + 1
        BY <2>2, <3>1
    <3>2. CASE n # k + 1
        BY <2>1, <3>2 DEF IsFold
    <3>3. QED
        BY <3>1, <3>2
  <2> HIDE DEF h
  <2>5. QED
      BY <2>3, <2>4 DEF IsFold
<1> HIDE DEF P
<1>3. N \in P
    BY <1>1, <1>2, NatSteps
<1>4. QED
    BY <1>3 DEF P

\* The same, where the values of h are not known to be in V.
GoesBy(h, N, V, base, g) ==
    h[0] = base /\ \A n \in 1 .. N : h[n - 1] \in V => h[n] = g[h[n - 1]][n]

\* There is only one.
LEMMA RecSame ==
    ASSUME NEW N \in Nat, NEW V, NEW base, NEW g, NEW f, NEW h,
           IsFold(f, N, V, base, g), GoesBy(h, N, V, base, g)
    PROVE  h[N] = f[N]
<1> DEFINE P == {n \in Nat : n <= N => f[n] = h[n]}
<1>1. 0 \in P
    BY DEF IsFold, GoesBy
<1>2. ASSUME NEW n \in Nat, n \in P PROVE n + 1 \in P
  <2> SUFFICES ASSUME n + 1 <= N PROVE f[n + 1] = h[n + 1]
      OBVIOUS
  <2>1. n + 1 \in 1 .. N /\ (n + 1) - 1 = n /\ f[n] = h[n]
      BY <1>2
  <2>2. f[n + 1] = g[f[n]][n + 1] /\ f[n] \in V
      BY <2>1 DEF IsFold
  <2>3. QED
      BY <2>1, <2>2 DEF GoesBy
<1> HIDE DEF P
<1>3. Nat \subseteq P
    BY <1>1, <1>2, NatSteps
<1>4. QED
    BY <1>3 DEF P

-----------------------------------------------------------------------------
(* Filter.                                                                   *)

\* One step of Filter.
FilterStep(S, s, L) ==
    [v \in Seq(S) |-> [n \in 1 .. Len(s) |-> IF s[n] \in L THEN Append(v, s[n]) ELSE v]]

\* Filter is the fold of its steps.
LEMMA FilterFold ==
    ASSUME NEW S, NEW s \in Seq(S), NEW L
    PROVE  \E f : /\ IsFold(f, Len(s), Seq(S), <<>>, FilterStep(S, s, L))
                  /\ Filter(s, L) = f[Len(s)]
<1> DEFINE N == Len(s)
           B(f, n) == IF n = 0 THEN <<>>
                      ELSE IF s[n] \in L THEN Append(f[n - 1], s[n]) ELSE f[n - 1]
           E(f) == f = [n \in 0 .. N |-> B(f, n)]
<1>1. N \in Nat /\ <<>> \in Seq(S)
    BY LenProperties
<1>2. PICK g : g = FilterStep(S, s, L)
    OBVIOUS
<1>3. \A v \in Seq(S) : \A n \in 1 .. N :
         g[v][n] = IF s[n] \in L THEN Append(v, s[n]) ELSE v
    BY <1>2 DEF FilterStep
<1>4. \A v \in Seq(S), n \in 1 .. N : g[v][n] \in Seq(S)
  <2>1. \A n \in 1 .. N : s[n] \in S
      BY ElementOfSeq
  <2>2. \A v \in Seq(S), n \in 1 .. N : Append(v, s[n]) \in Seq(S)
      BY <2>1, AppendProperties
  <2>3. QED
      BY <1>3, <2>2, Zenon
<1>5. Filter(s, L) = (CHOOSE h : E(h))[N]
    BY DEF Filter
<1> HIDE DEF N
<1>6. PICK f : IsFold(f, N, Seq(S), <<>>, g)
    BY <1>1, <1>4, RecExists, Zenon
<1>7. ASSUME NEW n \in 0 .. N PROVE f[n] = B(f, n)
  <2>1. CASE n = 0
      BY <1>6, <2>1 DEF IsFold
  <2>2. CASE n # 0
    <3>1. n \in 1 .. N /\ n - 1 \in 0 .. N
        BY <1>1, <2>2
    <3>2. f[n - 1] \in Seq(S) /\ f[n] = g[f[n - 1]][n]
        BY <1>6, <3>1 DEF IsFold
    <3>3. f[n] = IF s[n] \in L THEN Append(f[n - 1], s[n]) ELSE f[n - 1]
        BY <1>3, <3>1, <3>2, Zenon
    <3>4. QED
        BY <2>2, <3>3, Zenon
  <2>3. QED
      BY <2>1, <2>2
<1> HIDE DEF B
<1>8. E(f)
  <2>1. f \in [0 .. N -> Seq(S)]
      BY <1>6 DEF IsFold
  <2>2. QED
      BY <1>7, <2>1
<1>9. E(CHOOSE h : E(h))
    BY <1>8, Zenon
<1>10. PICK h : h = (CHOOSE q : E(q))
    OBVIOUS
<1>11. h = [n \in 0 .. N |-> B(h, n)] /\ Filter(s, L) = h[N]
    BY <1>5, <1>9, <1>10, Zenon
<1>12. \A n \in 0 .. N : h[n] = B(h, n)
    BY <1>11, Zenon
<1>13. h[0] = <<>>
    BY <1>1, <1>12 DEF B
<1>14. \A n \in 1 .. N : h[n - 1] \in Seq(S) => h[n] = g[h[n - 1]][n]
  <2> TAKE n \in 1 .. N
  <2> HAVE h[n - 1] \in Seq(S)
  <2>1. n \in 0 .. N /\ n # 0
      BY <1>1
  <2>2. h[n] = IF s[n] \in L THEN Append(h[n - 1], s[n]) ELSE h[n - 1]
      BY <2>1, <1>12, Zenon DEF B
  <2>3. PICK v \in Seq(S) : v = h[n - 1]
      OBVIOUS
  <2>4. g[v][n] = IF s[n] \in L THEN Append(v, s[n]) ELSE v
      BY <1>3
  <2>5. QED
      BY <2>2, <2>3, <2>4, Zenon
<1>15. GoesBy(h, N, Seq(S), <<>>, g)
    BY <1>13, <1>14, Zenon DEF GoesBy
<1>16. Filter(s, L) = f[N]
  <2>1. PICK V, e : V = Seq(S) /\ e = <<>>
      OBVIOUS
  <2>2. IsFold(f, N, V, e, g) /\ GoesBy(h, N, V, e, g)
      BY <1>6, <1>15, <2>1, Zenon
  <2>3. h[N] = f[N]
      BY <1>1, <2>2, RecSame
  <2>4. QED
      BY <1>11, <2>3, Zenon
<1>17. QED
    BY <1>2, <1>6, <1>16, Zenon DEF N

\* Filter of no lines.
LEMMA FilterEmpty ==
    ASSUME NEW L PROVE Filter(<<>>, L) = <<>>
<1>1. <<>> \in Seq({}) /\ Len(<<>>) = 0
    OBVIOUS
<1>2. PICK f : /\ IsFold(f, 0, Seq({}), <<>>, FilterStep({}, <<>>, L))
               /\ Filter(<<>>, L) = f[0]
    BY <1>1, FilterFold
<1>3. QED
    BY <1>2 DEF IsFold

\* Filter, one member more.
LEMMA FilterAppend ==
    ASSUME NEW S, NEW s \in Seq(S), NEW e \in S, NEW L
    PROVE  /\ Filter(s, L) \in Seq(S)
           /\ e \in L => Filter(Append(s, e), L) = Append(Filter(s, L), e)
           /\ e \notin L => Filter(Append(s, e), L) = Filter(s, L)
<1>1. PICK N \in Nat, t \in Seq(S) :
        /\ N = Len(s) /\ t = Append(s, e) /\ Len(t) = N + 1
        /\ \A n \in 1 .. N : t[n] = s[n]
        /\ t[N + 1] = e
  <2>1. /\ Append(s, e) \in Seq(S) /\ Len(Append(s, e)) = Len(s) + 1 /\ Len(s) \in Nat
        /\ \A n \in 1 .. Len(s) : Append(s, e)[n] = s[n]
        /\ Append(s, e)[Len(s) + 1] = e
      BY LenProperties, AppendProperties
  <2>2. QED
      BY <2>1, Zenon
<1> DEFINE g == FilterStep(S, s, L)
           k == FilterStep(S, t, L)
<1>2. PICK f : IsFold(f, N, Seq(S), <<>>, g) /\ Filter(s, L) = f[N]
    BY <1>1, FilterFold, Zenon
<1>3. PICK h : IsFold(h, N + 1, Seq(S), <<>>, k) /\ Filter(t, L) = h[N + 1]
    BY <1>1, FilterFold, ZenonT(40)
<1>4. \A v \in Seq(S) : \A n \in 1 .. N : k[v][n] = g[v][n]
  <2>1. \A v \in Seq(S) : \A n \in 1 .. N :
           g[v][n] = IF s[n] \in L THEN Append(v, s[n]) ELSE v
      BY <1>1 DEF FilterStep
  <2>2. \A v \in Seq(S) : \A n \in 1 .. N :
           k[v][n] = IF t[n] \in L THEN Append(v, t[n]) ELSE v
      BY <1>1 DEF FilterStep
  <2>3. QED
      BY <2>1, <2>2, <1>1
<1>5. \A v \in Seq(S) : k[v][N + 1] = IF e \in L THEN Append(v, e) ELSE v
    BY <1>1 DEF FilterStep
<1> HIDE DEF g, k
<1>6. /\ h \in [0 .. N + 1 -> Seq(S)] /\ h[0] = <<>>
      /\ \A n \in 1 .. N + 1 : h[n] = k[h[n - 1]][n]
    BY <1>3 DEF IsFold
<1>7. \A n \in 1 .. N : h[n - 1] \in Seq(S) => h[n] = g[h[n - 1]][n]
  <2> TAKE n \in 1 .. N
  <2> HAVE h[n - 1] \in Seq(S)
  <2>1. h[n] = k[h[n - 1]][n]
      BY <1>6
  <2>2. k[h[n - 1]][n] = g[h[n - 1]][n]
      BY <1>4
  <2>3. QED
      BY <2>1, <2>2
<1>8. GoesBy(h, N, Seq(S), <<>>, g)
    BY <1>6, <1>7, Zenon DEF GoesBy
<1>9. h[N] = Filter(s, L) /\ h[N] \in Seq(S)
  <2>1. h[N] = f[N]
      BY <1>2, <1>8, RecSame
  <2>2. QED
      BY <1>2, <1>6, <2>1
<1>10. N + 1 \in 1 .. N + 1 /\ (N + 1) - 1 = N
    OBVIOUS
<1>11. h[N + 1] = k[h[N]][N + 1]
    BY <1>6, <1>10
<1>12. QED
    BY <1>1, <1>3, <1>5, <1>9, <1>11, Zenon

-----------------------------------------------------------------------------
(* LinesAfter.                                                               *)

\* Feeding a byte to lines gives lines.
LEMMA FedType ==
    ASSUME NEW ll \in Seq(Lines), NEW b \in Nat
    PROVE  Fed(ll, b) \in Seq(Lines)
<1>1. CASE b = Newline
  <2>1. <<NoLine>> \in Seq(Lines)
      BY DEF NoLine, Lines
  <2>2. QED
      BY <1>1, <2>1, ConcatProperties DEF Fed
<1>2. CASE b # Newline /\ ll = <<>>
    BY <1>2, Zenon DEF Fed
<1>3. CASE b # Newline /\ ll # <<>>
  <2>1. ll[1] \in Lines /\ Len(ll) \in Nat /\ 1 \in 1 .. Len(ll)
      BY <1>3, EmptySeq, ElementOfSeq, LenProperties
  <2>2. Append(ll[1], b) \in Lines
      BY <2>1, AppendProperties DEF Lines
  <2>3. PICK l \in Lines : l = Append(ll[1], b)
      BY <2>2
  <2>4. [ll EXCEPT ![1] = l] \in Seq(Lines)
      BY <2>1, ExceptSeq
  <2>5. QED
      BY <1>3, <2>3, <2>4, Zenon DEF Fed
<1>4. QED
    BY <1>1, <1>2, <1>3

\* One step of LinesAfter.
FedStep(data) ==
    [v \in Seq(Lines) |-> [n \in 1 .. Len(data) |-> Fed(v, data[n])]]

\* LinesAfter is the fold of its steps.
LEMMA LinesFold ==
    ASSUME NEW data \in Lines
    PROVE  \E f : /\ IsFold(f, Len(data), Seq(Lines), <<>>, FedStep(data))
                  /\ LinesAfter(data) = f[Len(data)]
<1> DEFINE N == Len(data)
           B(f, n) == IF n = 0 THEN <<>> ELSE Fed(f[n - 1], data[n])
           E(f) == f = [n \in 0 .. N |-> B(f, n)]
<1>1. N \in Nat /\ <<>> \in Seq(Lines)
    BY LenProperties DEF Lines
<1>2. PICK g : g = FedStep(data)
    OBVIOUS
<1>3. \A v \in Seq(Lines) : \A n \in 1 .. N : g[v][n] = Fed(v, data[n])
    BY <1>2 DEF FedStep
<1>4. \A v \in Seq(Lines), n \in 1 .. N : g[v][n] \in Seq(Lines)
  <2>1. \A n \in 1 .. N : data[n] \in Nat
      BY ElementOfSeq DEF Lines
  <2>2. \A v \in Seq(Lines), n \in 1 .. N : Fed(v, data[n]) \in Seq(Lines)
      BY <2>1, FedType
  <2>3. QED
      BY <1>3, <2>2, Zenon
<1>5. LinesAfter(data) = (CHOOSE h : E(h))[N]
    BY DEF LinesAfter
<1> HIDE DEF N
<1>6. PICK f : IsFold(f, N, Seq(Lines), <<>>, g)
    BY <1>1, <1>4, RecExists, Zenon
<1>7. ASSUME NEW n \in 0 .. N PROVE f[n] = B(f, n)
  <2>1. CASE n = 0
      BY <1>6, <2>1 DEF IsFold
  <2>2. CASE n # 0
    <3>1. n \in 1 .. N /\ n - 1 \in 0 .. N
        BY <1>1, <2>2
    <3>2. f[n - 1] \in Seq(Lines) /\ f[n] = g[f[n - 1]][n]
        BY <1>6, <3>1 DEF IsFold
    <3>3. f[n] = Fed(f[n - 1], data[n])
        BY <1>3, <3>1, <3>2, Zenon
    <3>4. QED
        BY <2>2, <3>3, Zenon
  <2>3. QED
      BY <2>1, <2>2
<1> HIDE DEF B
<1>8. E(f)
  <2>1. f \in [0 .. N -> Seq(Lines)]
      BY <1>6 DEF IsFold
  <2>2. QED
      BY <1>7, <2>1
<1>9. E(CHOOSE h : E(h))
    BY <1>8, Zenon
<1>10. PICK h : h = (CHOOSE q : E(q))
    OBVIOUS
<1>11. h = [n \in 0 .. N |-> B(h, n)] /\ LinesAfter(data) = h[N]
    BY <1>5, <1>9, <1>10, Zenon
<1>12. \A n \in 0 .. N : h[n] = B(h, n)
    BY <1>11, Zenon
<1>13. h[0] = <<>>
    BY <1>1, <1>12 DEF B
<1>14. \A n \in 1 .. N : h[n - 1] \in Seq(Lines) => h[n] = g[h[n - 1]][n]
  <2> TAKE n \in 1 .. N
  <2> HAVE h[n - 1] \in Seq(Lines)
  <2>1. n \in 0 .. N /\ n # 0
      BY <1>1
  <2>2. h[n] = Fed(h[n - 1], data[n])
      BY <2>1, <1>12, Zenon DEF B
  <2>3. PICK v \in Seq(Lines) : v = h[n - 1]
      OBVIOUS
  <2>4. g[v][n] = Fed(v, data[n])
      BY <1>3
  <2>5. QED
      BY <2>2, <2>3, <2>4, Zenon
<1>15. GoesBy(h, N, Seq(Lines), <<>>, g)
    BY <1>13, <1>14, Zenon DEF GoesBy
<1>16. LinesAfter(data) = f[N]
  <2>1. PICK V, e : V = Seq(Lines) /\ e = <<>>
      OBVIOUS
  <2>2. IsFold(f, N, V, e, g) /\ GoesBy(h, N, V, e, g)
      BY <1>6, <1>15, <2>1, Zenon
  <2>3. h[N] = f[N]
      BY <1>1, <2>2, RecSame
  <2>4. QED
      BY <1>11, <2>3, Zenon
<1>17. QED
    BY <1>2, <1>6, <1>16, Zenon DEF N

\* No bytes, no lines.
LEMMA LinesEmpty == LinesAfter(<<>>) = <<>>
<1>1. <<>> \in Lines /\ Len(<<>>) = 0
    BY DEF Lines
<1>2. PICK f : /\ IsFold(f, 0, Seq(Lines), <<>>, FedStep(<<>>))
               /\ LinesAfter(<<>>) = f[0]
    BY <1>1, LinesFold
<1>3. QED
    BY <1>2 DEF IsFold

\* LinesAfter, one byte more.
LEMMA LinesAppend ==
    ASSUME NEW s \in Lines, NEW e \in Nat
    PROVE  /\ LinesAfter(s) \in Seq(Lines)
           /\ LinesAfter(Append(s, e)) = Fed(LinesAfter(s), e)
<1>1. PICK N \in Nat, t \in Lines :
        /\ N = Len(s) /\ t = Append(s, e) /\ Len(t) = N + 1
        /\ \A n \in 1 .. N : t[n] = s[n]
        /\ t[N + 1] = e
  <2>1. /\ Append(s, e) \in Lines /\ Len(Append(s, e)) = Len(s) + 1 /\ Len(s) \in Nat
        /\ \A n \in 1 .. Len(s) : Append(s, e)[n] = s[n]
        /\ Append(s, e)[Len(s) + 1] = e
      BY LenProperties, AppendProperties DEF Lines
  <2>2. QED
      BY <2>1, Zenon
<1> DEFINE g == FedStep(s)
           k == FedStep(t)
<1>2. PICK f : IsFold(f, N, Seq(Lines), <<>>, g) /\ LinesAfter(s) = f[N]
    BY <1>1, LinesFold, Zenon
<1>3. PICK h : IsFold(h, N + 1, Seq(Lines), <<>>, k) /\ LinesAfter(t) = h[N + 1]
    BY <1>1, LinesFold, Zenon
<1>4. \A v \in Seq(Lines) : \A n \in 1 .. N : k[v][n] = g[v][n]
  <2>1. \A v \in Seq(Lines) : \A n \in 1 .. N : g[v][n] = Fed(v, s[n])
      BY <1>1 DEF FedStep
  <2>2. \A v \in Seq(Lines) : \A n \in 1 .. N : k[v][n] = Fed(v, t[n])
      BY <1>1 DEF FedStep
  <2>3. QED
      BY <2>1, <2>2, <1>1
<1>5. \A v \in Seq(Lines) : k[v][N + 1] = Fed(v, e)
    BY <1>1 DEF FedStep
<1> HIDE DEF g, k
<1>6. /\ h \in [0 .. N + 1 -> Seq(Lines)] /\ h[0] = <<>>
      /\ \A n \in 1 .. N + 1 : h[n] = k[h[n - 1]][n]
    BY <1>3 DEF IsFold
<1>7. \A n \in 1 .. N : h[n - 1] \in Seq(Lines) => h[n] = g[h[n - 1]][n]
  <2> TAKE n \in 1 .. N
  <2> HAVE h[n - 1] \in Seq(Lines)
  <2>1. h[n] = k[h[n - 1]][n]
      BY <1>6
  <2>2. k[h[n - 1]][n] = g[h[n - 1]][n]
      BY <1>4
  <2>3. QED
      BY <2>1, <2>2
<1>8. GoesBy(h, N, Seq(Lines), <<>>, g)
    BY <1>6, <1>7, Zenon DEF GoesBy
<1>9. h[N] = LinesAfter(s) /\ h[N] \in Seq(Lines)
  <2>1. h[N] = f[N]
      BY <1>2, <1>8, RecSame
  <2>2. QED
      BY <1>2, <1>6, <2>1
<1>10. N + 1 \in 1 .. N + 1 /\ (N + 1) - 1 = N
    OBVIOUS
<1>11. h[N + 1] = k[h[N]][N + 1]
    BY <1>6, <1>10
<1>12. QED
    BY <1>1, <1>3, <1>5, <1>9, <1>11, Zenon

-----------------------------------------------------------------------------
(* Filter and Reverse.                                                       *)

\* Filter gives a sequence over the same set.
LEMMA FilterType ==
    ASSUME NEW S, NEW s \in Seq(S), NEW L
    PROVE  Filter(s, L) \in Seq(S)
<1>1. CASE S = {}
  <2>1. s = <<>>
      BY <1>1, EmptySeq, ElementOfSeq, LenProperties
  <2>2. QED
      BY <2>1, FilterEmpty, EmptySeq
<1>2. CASE S # {}
    BY <1>2, FilterAppend
<1>3. QED
    BY <1>1, <1>2

\* Associativity in the form the inductions use.
LEMMA ConcatAppend ==
    ASSUME NEW S, NEW s \in Seq(S), NEW t \in Seq(S), NEW e \in S
    PROVE  /\ s \o Append(t, e) = Append(s \o t, e)
           /\ Append(s, e) \o t = s \o (<<e>> \o t)
<1>1. /\ <<e>> \in Seq(S) /\ s \o t \in Seq(S)
      /\ Append(t, e) = t \o <<e>> /\ Append(s, e) = s \o <<e>>
    BY AppendIsConcat, ConcatProperties
<1>2. Append(s \o t, e) = (s \o t) \o <<e>>
    BY <1>1, AppendIsConcat
<1>3. QED
    BY <1>1, <1>2, ConcatAssociative

\* A member of L that is appended passes.
LEMMA FilterIn ==
    ASSUME NEW S, NEW s \in Seq(S), NEW e \in S, NEW L, e \in L
    PROVE  Filter(Append(s, e), L) = Append(Filter(s, L), e)
    BY FilterAppend

\* Any other does not.
LEMMA FilterOut ==
    ASSUME NEW S, NEW s \in Seq(S), NEW e \in S, NEW L, e \notin L
    PROVE  Filter(Append(s, e), L) = Filter(s, L)
    BY FilterAppend

\* Filter of two parts.
LEMMA FilterConcat ==
    ASSUME NEW S, NEW L, NEW a \in Seq(S), NEW b \in Seq(S)
    PROVE  Filter(a \o b, L) = Filter(a, L) \o Filter(b, L)
<1> DEFINE P == {s \in Seq(S) : Filter(a \o s, L) = Filter(a, L) \o Filter(s, L)}
<1>1. <<>> \in P
  <2>1. <<>> \in Seq(S) /\ a \o <<>> = a /\ Filter(a, L) \o <<>> = Filter(a, L)
      BY EmptySeq, ConcatEmptySeq, FilterType
  <2>2. QED
      BY <2>1, FilterEmpty
<1>2. ASSUME NEW s \in Seq(S), NEW e \in S, s \in P PROVE Append(s, e) \in P
  <2>1. PICK w \in Seq(S) : w = a \o s
      BY ConcatProperties
  <2>2. Append(s, e) \in Seq(S) /\ a \o Append(s, e) = Append(w, e)
      BY <2>1, AppendProperties, ConcatAppend
  <2>3. PICK u \in Seq(S), v \in Seq(S) : u = Filter(a, L) /\ v = Filter(s, L)
      BY FilterType
  <2>4. Filter(w, L) = u \o v
      BY <1>2, <2>1, <2>3
  <2> HIDE DEF P
  <2>5. Filter(Append(w, e), L) = u \o Filter(Append(s, e), L)
    <3>1. CASE e \in L
      <4>1. Filter(Append(w, e), L) = Append(Filter(w, L), e) /\ Filter(Append(s, e), L) = Append(v, e)
          BY <2>3, <3>1, FilterIn
      <4>2. u \o Append(v, e) = Append(u \o v, e)
          BY ConcatAppend, SMTT(30)
      <4>3. QED
          BY <2>4, <4>1, <4>2
    <3>2. CASE e \notin L
      <4>1. Filter(Append(w, e), L) = u \o v /\ Filter(Append(s, e), L) = v
          BY <2>3, <2>4, <3>2, FilterOut
      <4>2. QED
          BY <4>1
    <3>3. QED
        BY <3>1, <3>2
  <2>6. QED
      BY <2>2, <2>3, <2>5 DEF P
<1> HIDE DEF P
<1>3. Seq(S) \subseteq P
    BY <1>1, <1>2, SeqSteps
<1>4. QED
    BY <1>3 DEF P

\* Filter of one member.
LEMMA FilterOne ==
    ASSUME NEW e, NEW L
    PROVE  Filter(<<e>>, L) = IF e \in L THEN <<e>> ELSE <<>>
<1>1. <<>> \in Seq({e}) /\ e \in {e} /\ Append(<<>>, e) = <<e>>
    OBVIOUS
<1>2. PICK s \in Seq({e}) : s = <<>>
    BY <1>1
<1>3. (e \in L => Filter(Append(s, e), L) = Append(Filter(s, L), e)) /\ (e \notin L => Filter(Append(s, e), L) = Filter(s, L))
    BY FilterAppend, SMTT(30)
<1>4. Filter(<<e>>, L) = IF e \in L THEN Append(<<>>, e) ELSE <<>>
    BY <1>1, <1>2, <1>3, FilterEmpty, Zenon
<1>5. QED
    BY <1>1, <1>4, Zenon

\* Reverse, one member more.
LEMMA ReverseAppend ==
    ASSUME NEW S, NEW s \in Seq(S), NEW e \in S
    PROVE  Reverse(s) \in Seq(S) /\ Reverse(Append(s, e)) = <<e>> \o Reverse(s)
<1>1. PICK N \in Nat, t \in Seq(S) :
        /\ N = Len(s) /\ t = Append(s, e) /\ Len(t) = N + 1
        /\ \A n \in 1 .. N : t[n] = s[n]
        /\ t[N + 1] = e
  <2>1. /\ Append(s, e) \in Seq(S) /\ Len(Append(s, e)) = Len(s) + 1 /\ Len(s) \in Nat
        /\ \A n \in 1 .. Len(s) : Append(s, e)[n] = s[n]
        /\ Append(s, e)[Len(s) + 1] = e
      BY LenProperties, AppendProperties
  <2>2. QED
      BY <2>1, Zenon
<1>2. \A n \in 1 .. N : s[n] \in S
    BY <1>1, ElementOfSeq
<1> DEFINE r == Reverse(s)
           q == Reverse(t)
<1>3. r \in Seq(S) /\ Len(r) = N /\ \A i \in 1 .. N : r[i] = s[N - i + 1]
    BY <1>1, <1>2 DEF Reverse
<1>4. q \in Seq(S) /\ Len(q) = N + 1 /\ \A i \in 1 .. N + 1 : q[i] = t[N + 1 - i + 1]
    BY <1>1, <1>2 DEF Reverse
<1> HIDE DEF r, q
<1>5. PICK w \in Seq(S) : /\ w = <<e>> \o r /\ Len(w) = 1 + N
                          /\ \A i \in 1 .. N + 1 : w[i] = IF i = 1 THEN e ELSE r[i - 1]
  <2>1. <<e>> \in Seq(S) /\ Len(<<e>>) = 1 /\ <<e>>[1] = e
      OBVIOUS
  <2>2. PICK o \in Seq(S) : o = <<e>>
      BY <2>1
  <2>3. /\ o \o r \in Seq(S) /\ Len(o \o r) = 1 + N
        /\ \A i \in 1 .. 1 + N : (o \o r)[i] = IF i <= 1 THEN o[i] ELSE r[i - 1]
      BY <1>3, <2>1, <2>2, ConcatProperties
  <2>4. \A i \in 1 .. N + 1 : (o \o r)[i] = IF i = 1 THEN e ELSE r[i - 1]
      BY <2>1, <2>2, <2>3
  <2>5. QED
      BY <2>2, <2>3, <2>4, Zenon
<1>6. \A i \in 1 .. N + 1 : q[i] = w[i]
  <2> TAKE i \in 1 .. N + 1
  <2>1. CASE i = 1
      BY <1>1, <1>4, <1>5, <2>1
  <2>2. CASE i # 1
    <3>1. i - 1 \in 1 .. N /\ N - (i - 1) + 1 = N + 1 - i + 1 /\ N + 1 - i + 1 \in 1 .. N
        BY <2>2
    <3>2. w[i] = r[i - 1] /\ r[i - 1] = s[N + 1 - i + 1]
        BY <1>3, <1>5, <2>2, <3>1
    <3>3. QED
        BY <1>1, <1>4, <3>1, <3>2
  <2>3. QED
      BY <2>1, <2>2
<1>7. q = w
    BY <1>4, <1>5, <1>6, SeqEqual
<1>8. QED
    BY <1>1, <1>3, <1>5, <1>7 DEF r, q

\* Reverse of nothing.
LEMMA ReverseEmpty == Reverse(<<>>) = <<>>
    BY DEF Reverse

\* Reverse keeps the set and the length.
LEMMA ReverseType ==
    ASSUME NEW S, NEW s \in Seq(S)
    PROVE  Reverse(s) \in Seq(S) /\ Len(Reverse(s)) = Len(s)
<1>1. PICK N \in Nat : N = Len(s)
    BY LenProperties
<1>2. \A n \in 1 .. N : s[n] \in S
    BY <1>1, ElementOfSeq
<1>3. QED
    BY <1>1, <1>2 DEF Reverse

\* Reverse is its own inverse.
LEMMA ReverseTwice ==
    ASSUME NEW S, NEW s \in Seq(S)
    PROVE  Reverse(Reverse(s)) = s
<1>1. PICK N \in Nat : N = Len(s)
    BY LenProperties
<1>2. PICK r \in Seq(S) : r = Reverse(s) /\ Len(r) = N /\ \A i \in 1 .. N : r[i] = s[N - i + 1]
  <2>1. \A i \in 1 .. N : Reverse(s)[i] = s[N - i + 1]
      BY <1>1 DEF Reverse
  <2>2. QED
      BY <1>1, <2>1, ReverseType
<1>3. PICK q \in Seq(S) : q = Reverse(r) /\ Len(q) = N /\ \A i \in 1 .. N : q[i] = r[N - i + 1]
  <2>1. \A i \in 1 .. N : Reverse(r)[i] = r[N - i + 1]
      BY <1>2 DEF Reverse
  <2>2. QED
      BY <1>2, <2>1, ReverseType
<1>4. \A i \in 1 .. N : q[i] = s[i]
  <2> TAKE i \in 1 .. N
  <2>1. N - i + 1 \in 1 .. N /\ N - (N - i + 1) + 1 = i
      OBVIOUS
  <2>2. q[i] = r[N - i + 1] /\ r[N - i + 1] = s[N - (N - i + 1) + 1]
      BY <1>2, <1>3, <2>1
  <2>3. QED
      BY <2>1, <2>2
<1>5. QED
    BY <1>1, <1>2, <1>3, <1>4, SeqEqual

\* Filter and Reverse commute.
LEMMA FilterReverse ==
    ASSUME NEW S, NEW L, NEW s \in Seq(S)
    PROVE  Filter(Reverse(s), L) = Reverse(Filter(s, L))
<1> DEFINE P == {t \in Seq(S) : Filter(Reverse(t), L) = Reverse(Filter(t, L))}
<1>1. <<>> \in P
    BY EmptySeq, FilterEmpty, ReverseEmpty
<1>2. ASSUME NEW t \in Seq(S), NEW e \in S, t \in P PROVE Append(t, e) \in P
  <2>1. Append(t, e) \in Seq(S)
      BY AppendProperties
  <2>2. PICK f \in Seq(S) : f = Filter(t, L)
      BY FilterType
  <2>3. Filter(Reverse(t), L) = Reverse(f)
      BY <1>2, <2>2
  <2>4. PICK r \in Seq(S) : r = Reverse(t) /\ Reverse(Append(t, e)) = <<e>> \o r
      BY ReverseAppend
  <2>5. PICK rf \in Seq(S) : rf = Reverse(f) /\ Reverse(Append(f, e)) = <<e>> \o rf
      BY ReverseAppend
  <2>6. <<>> \o rf = rf
      BY ConcatEmptySeq
  <2>7. Filter(<<e>> \o r, L) = Filter(<<e>>, L) \o rf
    <3>1. PICK o \in Seq(S) : o = <<e>>
      <4>1. <<e>> \in Seq(S)
          OBVIOUS
      <4>2. QED
          BY <4>1, Zenon
    <3>2. Filter(o \o r, L) = Filter(o, L) \o Filter(r, L)
        BY FilterConcat
    <3>3. QED
        BY <2>3, <2>4, <2>5, <3>1, <3>2, Zenon
  <2>8. CASE e \in L
    <3>1. Filter(<<e>>, L) = <<e>> /\ Filter(Append(t, e), L) = Append(f, e)
        BY <2>2, <2>8, FilterOne, FilterIn, SMTT(30)
    <3>2. QED
        BY <2>1, <2>4, <2>5, <2>7, <3>1
  <2>9. CASE e \notin L
    <3>1. Filter(<<e>>, L) = <<>> /\ Filter(Append(t, e), L) = f
        BY <2>2, <2>9, FilterOne, FilterOut
    <3>2. QED
        BY <2>1, <2>4, <2>5, <2>6, <2>7, <3>1
  <2>10. QED
      BY <2>8, <2>9
<1> HIDE DEF P
<1>3. Seq(S) \subseteq P
    BY <1>1, <1>2, SeqSteps
<1>4. QED
    BY <1>3 DEF P

\* The narrower of two filters decides.
LEMMA FilterTwice ==
    ASSUME NEW S, NEW M, NEW L, L \subseteq M, NEW s \in Seq(S)
    PROVE  Filter(Filter(s, M), L) = Filter(s, L)
<1> DEFINE P == {t \in Seq(S) : Filter(Filter(t, M), L) = Filter(t, L)}
<1>1. <<>> \in P
    BY EmptySeq, FilterEmpty
<1>2. ASSUME NEW t \in Seq(S), NEW e \in S, t \in P PROVE Append(t, e) \in P
  <2>1. Append(t, e) \in Seq(S)
      BY AppendProperties
  <2>2. PICK f \in Seq(S) : f = Filter(t, M)
      BY FilterType
  <2>3. Filter(f, L) = Filter(t, L)
      BY <1>2, <2>2
  <2> HIDE DEF P
  <2>4. CASE e \in L
    <3>1. e \in M
        BY <2>4
    <3>2. Filter(Append(t, e), M) = Append(f, e) /\ Filter(Append(t, e), L) = Append(Filter(t, L), e)
        BY <2>2, <2>4, <3>1, FilterIn
    <3>3. Filter(Append(f, e), L) = Append(Filter(f, L), e)
        BY <2>4, FilterIn
    <3>4. QED
        BY <2>1, <2>3, <3>2, <3>3 DEF P
  <2>5. CASE e \notin L
    <3>1. Filter(Append(t, e), L) = Filter(t, L) /\ Filter(Append(f, e), L) = Filter(f, L)
        BY <2>5, FilterOut
    <3>2. Filter(Append(t, e), M) \in {f, Append(f, e)}
      <4>1. CASE e \in M
          BY <2>2, <4>1, FilterIn
      <4>2. CASE e \notin M
          BY <2>2, <4>2, FilterOut
      <4>3. QED
          BY <4>1, <4>2
    <3>3. QED
        BY <2>1, <2>3, <3>1, <3>2 DEF P
  <2>6. QED
      BY <2>4, <2>5
<1> HIDE DEF P
<1>3. Seq(S) \subseteq P
    BY <1>1, <1>2, SeqSteps
<1>4. QED
    BY <1>3 DEF P

-----------------------------------------------------------------------------
(* The lines of two parts of a file.                                         *)

\* The place of the first newline.
LEMMA FirstNewline ==
    ASSUME NEW d \in Lines, NEW i \in 1 .. Len(d), d[i] = Newline
    PROVE  \E k \in 1 .. i : /\ d[k] = Newline /\ \A j \in 1 .. k - 1 : d[j] # Newline
                             /\ FirstPart(d) = SubSeq(d, 1, k - 1)
<1>1. Len(d) \in Nat
    BY LenProperties DEF Lines
<1>2. PICK I : I = {n \in 1 .. Len(d) : d[n] = Newline}
    OBVIOUS
<1>3. i \in I /\ I \subseteq Nat
    BY <1>1, <1>2
<1>4. PICK m \in I : \A n \in I : m <= n
    BY <1>3, Least
<1>5. Min(I) \in I /\ \A n \in I : Min(I) <= n
    BY <1>4, Zenon DEF Min
<1>6. SelectInSeq(d, LAMBDA b : b = Newline) = Min(I)
    BY <1>2, <1>3 DEF SelectInSeq
<1>7. PICK k : k = Min(I)
    OBVIOUS
<1>8. k \in 1 .. Len(d) /\ d[k] = Newline /\ k <= i /\ \A n \in I : k <= n
    BY <1>2, <1>3, <1>5, <1>7
<1>9. FirstPart(d) = SubSeq(d, 1, k - 1)
  <2>1. k # 0
      BY <1>8
  <2>2. QED
      BY <1>6, <1>7, <2>1, Zenon DEF FirstPart
<1>10. \A j \in 1 .. k - 1 : d[j] # Newline
    BY <1>1, <1>2, <1>8
<1>11. k \in 1 .. i
    BY <1>1, <1>8
<1>12. QED
    BY <1>8, <1>9, <1>10, <1>11, Zenon

\* Bytes without a newline are all before the first one.
LEMMA NoNewline ==
    ASSUME NEW d \in Lines, \A n \in 1 .. Len(d) : d[n] # Newline
    PROVE  FirstPart(d) = d
<1>1. PICK I : I = {n \in 1 .. Len(d) : d[n] = Newline}
    OBVIOUS
<1>2. I = {}
    BY <1>1
<1>3. SelectInSeq(d, LAMBDA b : b = Newline) = 0
    BY <1>1, <1>2 DEF SelectInSeq
<1>4. QED
    BY <1>3 DEF FirstPart

\* No newline, no line.
LEMMA NoLines ==
    ASSUME NEW d \in Lines
    PROVE  LinesAfter(d) = <<>> <=> \A n \in 1 .. Len(d) : d[n] # Newline
<1> DEFINE P == {s \in Seq(Nat) : LinesAfter(s) = <<>> <=> \A n \in 1 .. Len(s) : s[n] # Newline}
<1>1. <<>> \in P
    BY LinesEmpty
<1>2. ASSUME NEW s \in Seq(Nat), NEW e \in Nat, s \in P PROVE Append(s, e) \in P
  <2>1. PICK t \in Seq(Nat) : /\ t = Append(s, e) /\ Len(t) = Len(s) + 1 /\ Len(s) \in Nat
                              /\ \A n \in 1 .. Len(s) : t[n] = s[n]
                              /\ t[Len(s) + 1] = e
      BY LenProperties, AppendProperties, ZenonT(40)
  <2>2. PICK ll \in Seq(Lines) : ll = LinesAfter(s) /\ LinesAfter(t) = Fed(ll, e)
      BY <2>1, LinesAppend DEF Lines
  <2>3. ll = <<>> <=> \A n \in 1 .. Len(s) : s[n] # Newline
      BY <1>2, <2>2
  <2>4. Fed(ll, e) = <<>> <=> ll = <<>> /\ e # Newline
    <3>1. CASE e = Newline
      <4>1. <<NoLine>> \in Seq(Lines) /\ <<NoLine>> # <<>>
          BY DEF Lines, NoLine
      <4>2. <<NoLine>> \o ll # <<>>
          BY <4>1, ConcatEqualIffEmpty
      <4>3. QED
          BY <3>1, <4>2 DEF Fed
    <3>2. CASE e # Newline /\ ll = <<>>
        BY <3>2 DEF Fed
    <3>3. CASE e # Newline /\ ll # <<>>
      <4>1. Len(ll) \in Nat \ {0} /\ DOMAIN ll = 1 .. Len(ll)
          BY <3>3, EmptySeq, LenProperties
      <4>2. DOMAIN Fed(ll, e) = 1 .. Len(ll)
          BY <3>3, <4>1 DEF Fed
      <4>3. 1 \in DOMAIN Fed(ll, e)
          BY <4>1, <4>2
      <4>4. QED
          BY <3>3, <4>3
    <3>4. QED
        BY <3>1, <3>2, <3>3
  <2>5. (\A n \in 1 .. Len(t) : t[n] # Newline) <=>
        (\A n \in 1 .. Len(s) : s[n] # Newline) /\ e # Newline
      BY <2>1
  <2>6. QED
      BY <2>1, <2>2, <2>3, <2>4, <2>5
<1> HIDE DEF P
<1>3. Seq(Nat) \subseteq P
    BY <1>1, <1>2, SeqSteps
<1>4. QED
    BY <1>3 DEF P, Lines

\* What is before the first newline stays when a byte is appended.
LEMMA FirstPartAppend ==
    ASSUME NEW d \in Lines, NEW b \in Nat, LinesAfter(d) # <<>>
    PROVE  FirstPart(Append(d, b)) = FirstPart(d)
<1>1. PICK i \in 1 .. Len(d) : d[i] = Newline
    BY NoLines
<1>2. PICK t \in Lines : /\ t = Append(d, b) /\ Len(t) = Len(d) + 1 /\ Len(d) \in Nat
                         /\ \A n \in 1 .. Len(d) : t[n] = d[n]
  <2>1. /\ Append(d, b) \in Lines /\ Len(Append(d, b)) = Len(d) + 1 /\ Len(d) \in Nat
        /\ \A n \in 1 .. Len(d) : Append(d, b)[n] = d[n]
      BY LenProperties, AppendProperties DEF Lines
  <2>2. QED
      BY <2>1, Zenon
<1>3. PICK k \in 1 .. i : /\ d[k] = Newline /\ \A j \in 1 .. k - 1 : d[j] # Newline
                          /\ FirstPart(d) = SubSeq(d, 1, k - 1)
    BY <1>1, FirstNewline
<1>4. i \in 1 .. Len(t) /\ t[i] = Newline
    BY <1>1, <1>2
<1>5. PICK m \in 1 .. i : /\ t[m] = Newline /\ \A j \in 1 .. m - 1 : t[j] # Newline
                          /\ FirstPart(t) = SubSeq(t, 1, m - 1)
    BY <1>4, FirstNewline
<1>6. m = k
    BY <1>1, <1>2, <1>3, <1>5
<1>7. SubSeq(t, 1, k - 1) = SubSeq(d, 1, k - 1)
  <2>1. \A n \in 1 .. k - 1 : d[n] \in Nat /\ t[n] = d[n]
    <3> TAKE n \in 1 .. k - 1
    <3>1. n \in 1 .. Len(d)
        BY <1>2
    <3>2. QED
        BY <1>2, <3>1, ElementOfSeq DEF Lines
  <2>2. QED
      BY <2>1
<1>8. QED
    BY <1>2, <1>3, <1>5, <1>6, <1>7

\* It has no newline.
LEMMA FirstPartType ==
    ASSUME NEW d \in Lines
    PROVE  FirstPart(d) \in Lines /\ LinesAfter(FirstPart(d)) = <<>>
<1>1. CASE \A n \in 1 .. Len(d) : d[n] # Newline
    BY <1>1, NoNewline, NoLines
<1>2. CASE \E i \in 1 .. Len(d) : d[i] = Newline
  <2>1. PICK i \in 1 .. Len(d) : d[i] = Newline
      BY <1>2
  <2>2. PICK k \in 1 .. i : /\ d[k] = Newline /\ \A j \in 1 .. k - 1 : d[j] # Newline
                            /\ FirstPart(d) = SubSeq(d, 1, k - 1)
      BY <2>1, FirstNewline
  <2>3. Len(d) \in Nat /\ \A n \in 1 .. k - 1 : d[n] \in Nat
      BY <2>1, <2>2, LenProperties, ElementOfSeq DEF Lines
  <2>4. PICK s \in Lines : s = SubSeq(d, 1, k - 1) /\ Len(s) = k - 1 /\ \A n \in 1 .. k - 1 : s[n] = d[n]
    <3>1. PICK c \in Nat : c = k - 1
        BY <2>2
    <3>2. /\ SubSeq(d, 1, c) \in Lines /\ Len(SubSeq(d, 1, c)) = c
          /\ \A n \in 1 .. c : SubSeq(d, 1, c)[n] = d[n]
        BY <2>3, <3>1 DEF Lines
    <3>3. QED
        BY <3>1, <3>2, Zenon
  <2>5. LinesAfter(s) = <<>>
      BY <2>2, <2>4, NoLines
  <2>6. QED
      BY <2>2, <2>4, <2>5
<1>3. QED
    BY <1>1, <1>2

\* Changing the first member of two parts changes the first part.
LEMMA ExceptConcat ==
    ASSUME NEW S, NEW a \in Seq(S), NEW r \in Seq(S), a # <<>>, NEW l \in S
    PROVE  [a \o r EXCEPT ![1] = l] = [a EXCEPT ![1] = l] \o r
<1>1. PICK A \in Nat \ {0}, R \in Nat : A = Len(a) /\ R = Len(r)
    BY EmptySeq, LenProperties
<1>2. PICK x \in Seq(S) : x = a \o r /\ Len(x) = A + R
    BY <1>1, ConcatProperties
<1>3. \A i \in 1 .. A + R : x[i] = IF i <= A THEN a[i] ELSE r[i - A]
    BY <1>1, <1>2, ConcatProperties
<1>4. 1 \in 1 .. A /\ 1 \in 1 .. A + R
    OBVIOUS
<1>5. PICK y : y = [x EXCEPT ![1] = l]
    OBVIOUS
<1>6. /\ y \in Seq(S) /\ Len(y) = A + R
      /\ \A i \in 1 .. A + R : y[i] = IF i = 1 THEN l ELSE x[i]
  <2>1. PICK M \in Nat : M = A + R /\ Len(x) = M /\ 1 \in 1 .. M
      BY <1>2, <1>4
  <2>2. y \in Seq(S) /\ Len(y) = M /\ \A i \in 1 .. M : y[i] = IF i = 1 THEN l ELSE x[i]
      BY <1>5, <2>1, ExceptSeq
  <2>3. QED
      BY <2>1, <2>2, Zenon
<1>7. PICK c : c = [a EXCEPT ![1] = l]
    OBVIOUS
<1>71. /\ c \in Seq(S) /\ Len(c) = A
       /\ \A i \in 1 .. A : c[i] = IF i = 1 THEN l ELSE a[i]
    BY <1>1, <1>4, <1>7, ExceptSeq
<1>8. PICK z : z = c \o r
    OBVIOUS
<1>9. /\ z \in Seq(S) /\ Len(z) = A + R
      /\ \A i \in 1 .. A + R : z[i] = IF i <= A THEN c[i] ELSE r[i - A]
  <2>1. c \in Seq(S) /\ Len(c) = A
      BY <1>71
  <2>2. /\ c \o r \in Seq(S) /\ Len(c \o r) = Len(c) + Len(r)
        /\ \A i \in 1 .. Len(c) + Len(r) : (c \o r)[i] = IF i <= Len(c) THEN c[i] ELSE r[i - Len(c)]
      BY <2>1, ConcatProperties
  <2>3. QED
      BY <1>1, <1>8, <2>1, <2>2, Zenon
<1>10. ASSUME NEW i \in 1 .. A + R PROVE y[i] = z[i]
  <2>1. CASE i = 1
    <3>1. i <= A /\ i \in 1 .. A
        BY <2>1
    <3>2. QED
        BY <1>6, <1>71, <1>9, <2>1, <3>1
  <2>2. CASE i # 1 /\ i <= A
    <3>1. i \in 1 .. A
        BY <2>2
    <3>2. QED
        BY <1>3, <1>6, <1>71, <1>9, <2>2, <3>1, SMTT(30)
  <2>3. CASE i # 1 /\ ~(i <= A)
      BY <1>3, <1>6, <1>9, <2>3
  <2>4. QED
      BY <2>1, <2>2, <2>3
<1>11. y = z
  <2>1. Len(y) = Len(z) /\ \A i \in 1 .. Len(y) : y[i] = z[i]
      BY <1>6, <1>9, <1>10, Zenon
  <2>2. y \in Seq(S) /\ z \in Seq(S)
      BY <1>6, <1>9, Zenon
  <2>3. QED
      BY <2>1, <2>2, SeqEqual
<1>12. QED
    BY <1>2, <1>5, <1>7, <1>8, <1>11, Zenon

\* A byte fed to lines that have begun leaves the earlier ones.
LEMMA FedConcat ==
    ASSUME NEW a \in Seq(Lines), NEW r \in Seq(Lines), NEW b \in Nat, a # <<>>
    PROVE  Fed(a \o r, b) = Fed(a, b) \o r
<1>1. a \o r \in Seq(Lines) /\ a \o r # <<>>
    BY ConcatProperties, ConcatEqualIffEmpty
<1>2. CASE b = Newline
  <2>1. <<NoLine>> \in Seq(Lines)
      BY DEF NoLine, Lines
  <2>2. <<NoLine>> \o (a \o r) = (<<NoLine>> \o a) \o r
      BY <2>1, ConcatAssociative
  <2>3. QED
      BY <1>2, <2>2, Zenon DEF Fed
<1>3. CASE b # Newline
  <2>1. 1 \in 1 .. Len(a) /\ Len(a) \in Nat /\ Len(r) \in Nat /\ a[1] \in Lines
      BY EmptySeq, LenProperties, ElementOfSeq
  <2>2. PICK l \in Lines : l = Append(a[1], b)
      BY <2>1, AppendProperties DEF Lines
  <2>3. PICK x \in Seq(Lines) : x = a \o r /\ x # <<>>
      BY <1>1
  <2>4. x[1] = a[1]
      BY <2>1, <2>3, ConcatProperties
  <2>5. Fed(x, b) = [x EXCEPT ![1] = l]
      BY <1>3, <2>2, <2>3, <2>4, Zenon DEF Fed
  <2>6. Fed(a, b) = [a EXCEPT ![1] = l]
      BY <1>3, <2>2, Zenon DEF Fed
  <2>7. [a \o r EXCEPT ![1] = l] = [a EXCEPT ![1] = l] \o r
      BY ExceptConcat
  <2>8. QED
      BY <2>3, <2>5, <2>6, <2>7, Zenon
<1>4. QED
    BY <1>2, <1>3

\* The lines of two pieces of a file: those behind the newlines of the second
\* one come first, and what it has before its first newline ends the last line
\* of the first one.
LEMMA LinesConcat ==
    ASSUME NEW u \in Lines, NEW v \in Lines
    PROVE  LinesAfter(u \o v) = LinesAfter(v) \o LinesAfter(u \o FirstPart(v))
<1> DEFINE P == {s \in Seq(Nat) : LinesAfter(u \o s) = LinesAfter(s) \o LinesAfter(u \o FirstPart(s))}
<1>0. \A s \in Lines : LinesAfter(s) \in Seq(Lines)
    BY LinesAppend
<1>1. <<>> \in P
  <2>1. <<>> \in Lines /\ <<>> \in Seq(Nat) /\ u \o <<>> = u /\ FirstPart(<<>>) = <<>>
    <3>1. <<>> \in Lines /\ <<>> \in Seq(Nat) /\ u \o <<>> = u
        BY ConcatEmptySeq DEF Lines
    <3>2. \A n \in 1 .. Len(<<>>) : <<>>[n] # Newline
        OBVIOUS
    <3>3. QED
        BY <3>1, <3>2, NoNewline
  <2>2. <<>> \o LinesAfter(u) = LinesAfter(u)
      BY <1>0, ConcatEmptySeq
  <2>3. QED
      BY <2>1, <2>2, LinesEmpty
<1>2. ASSUME NEW s \in Seq(Nat), NEW e \in Nat, s \in P PROVE Append(s, e) \in P
  <2>1. PICK t \in Lines : t = Append(s, e)
      BY AppendProperties DEF Lines
  <2>2. PICK us \in Lines : us = u \o s /\ u \o t = Append(us, e)
    <3>1. u \o s \in Lines
        BY ConcatProperties DEF Lines
    <3>2. u \o Append(s, e) = Append(u \o s, e)
        BY ConcatAppend DEF Lines
    <3>3. QED
        BY <2>1, <3>1, <3>2, Zenon
  <2>3. s \in Lines
      BY DEF Lines
  <2>4. PICK A \in Seq(Lines) : A = LinesAfter(s) /\ LinesAfter(t) = Fed(A, e)
      BY <2>1, <2>3, LinesAppend
  <2>5. PICK p \in Lines : p = FirstPart(s)
      BY <2>3, FirstPartType
  <2>6. PICK R \in Seq(Lines) : R = LinesAfter(u \o p)
    <3>1. u \o p \in Lines
        BY ConcatProperties DEF Lines
    <3>2. QED
        BY <1>0, <3>1
  <2>7. LinesAfter(us) = A \o R
      BY <1>2, <2>2, <2>4, <2>5, <2>6
  <2>8. LinesAfter(u \o t) = Fed(A \o R, e)
      BY <2>2, <2>7, LinesAppend
  <2> HIDE DEF P
  <2>9. LinesAfter(u \o t) = LinesAfter(t) \o LinesAfter(u \o FirstPart(t))
    <3>1. CASE A # <<>>
      <4>1. FirstPart(t) = p
          BY <2>1, <2>3, <2>4, <2>5, <3>1, FirstPartAppend
      <4>2. Fed(A \o R, e) = Fed(A, e) \o R
          BY <3>1, FedConcat
      <4>3. QED
          BY <2>4, <2>6, <2>8, <4>1, <4>2, Zenon
    <3>2. CASE A = <<>>
      <4>1. \A n \in 1 .. Len(s) : s[n] # Newline
          BY <2>3, <2>4, <3>2, NoLines
      <4>2. p = s /\ A \o R = R
          BY <2>3, <2>5, <3>2, <4>1, NoNewline, ConcatEmptySeq
      <4>3. CASE e = Newline
        <5>1. FirstPart(t) = s
          <6>1. /\ Len(t) = Len(s) + 1 /\ Len(s) \in Nat /\ t[Len(s) + 1] = e
                /\ \A n \in 1 .. Len(s) : t[n] = s[n]
              BY <2>1, LenProperties, AppendProperties
          <6>2. PICK i \in 1 .. Len(t) : i = Len(s) + 1 /\ t[i] = Newline
            <7>1. Len(s) + 1 \in 1 .. Len(t)
                BY <6>1
            <7>2. QED
                BY <4>3, <6>1, <7>1, Zenon
          <6>3. PICK k \in 1 .. i : /\ t[k] = Newline
                                    /\ FirstPart(t) = SubSeq(t, 1, k - 1)
              BY <6>2, FirstNewline
          <6>4. k = Len(s) + 1 /\ k - 1 = Len(s)
            <7>1. \A n \in 1 .. Len(s) : t[n] # Newline
                BY <4>1, <6>1
            <7>2. k \notin 1 .. Len(s)
                BY <6>3, <7>1
            <7>3. QED
                BY <6>1, <6>2, <7>2
          <6>5. SubSeq(t, 1, Len(s)) = s
            <7>1. \A n \in 1 .. Len(s) : t[n] = s[n] /\ s[n] \in Nat
                BY <6>1, ElementOfSeq
            <7>2. QED
                BY <6>1, <7>1
          <6>6. QED
              BY <6>3, <6>4, <6>5, Zenon
        <5>2. Fed(A, e) = <<NoLine>> /\ Fed(R, e) = <<NoLine>> \o R
          <6>1. <<NoLine>> \in Seq({NoLine})
              OBVIOUS
          <6>2. <<NoLine>> \o <<>> = <<NoLine>>
              BY <6>1, ConcatEmptySeq
          <6>3. QED
              BY <3>2, <4>3, <6>2, Zenon DEF Fed
        <5>3. QED
            BY <2>4, <2>6, <2>8, <4>2, <5>1, <5>2, Zenon
      <4>4. CASE e # Newline
        <5>1. FirstPart(t) = t
          <6>1. LinesAfter(t) = <<>>
              BY <2>4, <3>2, <4>4 DEF Fed
          <6>2. QED
              BY <6>1, NoLines, NoNewline
        <5>2. PICK q \in Seq(Lines) : q = LinesAfter(u \o t)
          <6>1. u \o t \in Lines
              BY ConcatProperties DEF Lines
          <6>2. QED
              BY <1>0, <6>1
        <5>3. LinesAfter(t) = <<>> /\ <<>> \o q = q
            BY <2>4, <3>2, <4>4, ConcatEmptySeq DEF Fed
        <5>4. QED
            BY <5>1, <5>2, <5>3, Zenon
      <4>5. QED
          BY <4>3, <4>4
    <3>3. QED
        BY <3>1, <3>2
  <2>10. QED
      BY <2>1, <2>9 DEF P, Lines
<1> HIDE DEF P
<1>3. Seq(Nat) \subseteq P
    BY <1>1, <1>2, SeqSteps
<1>4. QED
    BY <1>3 DEF P, Lines

-----------------------------------------------------------------------------
(* The lines of a file from its end, and Take.                               *)

\* The lines of a file that are in L, the newest first.
NewFirst(data, L) == Filter(LinesAfter(<<Newline>> \o data), L)

\* Bytes without a newline are one line.
LEMMA OneLine ==
    ASSUME NEW w \in Lines, LinesAfter(w) = <<>>
    PROVE  LinesAfter(<<Newline>> \o w) = <<w>>
<1> DEFINE P == {s \in Seq(Nat) : LinesAfter(s) = <<>> => LinesAfter(<<Newline>> \o s) = <<s>>}
<1>0. PICK nl \in Lines : nl = <<Newline>> /\ LinesAfter(nl) = <<NoLine>>
  <2>1. <<>> \in Lines /\ Newline \in Nat /\ <<Newline>> \in Lines /\ Append(<<>>, Newline) = <<Newline>>
      BY DEF Lines, Newline
  <2>2. LinesAfter(Append(<<>>, Newline)) = Fed(LinesAfter(<<>>), Newline)
      BY <2>1, LinesAppend
  <2>3. <<NoLine>> \in Seq({NoLine})
      OBVIOUS
  <2>4. <<NoLine>> \o <<>> = <<NoLine>>
      BY <2>3, ConcatEmptySeq
  <2>5. Fed(<<>>, Newline) = <<NoLine>>
      BY <2>4 DEF Fed
  <2>6. QED
      BY <2>1, <2>2, <2>5, LinesEmpty, Zenon
<1>1. <<>> \in P
  <2>1. nl \o <<>> = nl /\ <<>> \in Seq(Nat)
      BY ConcatEmptySeq DEF Lines
  <2>2. QED
      BY <1>0, <2>1 DEF NoLine
<1>2. ASSUME NEW s \in Seq(Nat), NEW e \in Nat, s \in P PROVE Append(s, e) \in P
  <2> SUFFICES ASSUME LinesAfter(Append(s, e)) = <<>>
               PROVE  LinesAfter(<<Newline>> \o Append(s, e)) = <<Append(s, e)>>
      BY AppendProperties
  <2>1. PICK t \in Lines : t = Append(s, e)
      BY AppendProperties DEF Lines
  <2>2. \A n \in 1 .. Len(t) : t[n] # Newline
      BY <2>1, NoLines
  <2>3. /\ Len(t) = Len(s) + 1 /\ Len(s) \in Nat /\ t[Len(s) + 1] = e
        /\ \A n \in 1 .. Len(s) : t[n] = s[n]
      BY <2>1, LenProperties, AppendProperties
  <2>4. e # Newline /\ \A n \in 1 .. Len(s) : s[n] # Newline
      BY <2>2, <2>3
  <2>5. LinesAfter(s) = <<>>
      BY <2>4, NoLines DEF Lines
  <2>6. LinesAfter(nl \o s) = <<s>>
      BY <1>0, <1>2, <2>5
  <2>7. nl \o Append(s, e) = Append(nl \o s, e) /\ nl \o s \in Lines
      BY ConcatAppend, ConcatProperties, SMTT(30) DEF Lines
  <2>8. LinesAfter(Append(nl \o s, e)) = Fed(<<s>>, e)
      BY <2>6, <2>7, LinesAppend
  <2>9. Fed(<<s>>, e) = <<Append(s, e)>>
    <3>1. PICK o : o = <<s>>
        OBVIOUS
    <3>2. o # <<>> /\ o[1] = s
        BY <3>1
    <3>3. [o EXCEPT ![1] = t] = <<t>>
        BY <3>1
    <3>4. Fed(o, e) = [o EXCEPT ![1] = t]
        BY <2>1, <2>4, <3>2, Zenon DEF Fed
    <3>5. QED
        BY <2>1, <3>1, <3>3, <3>4, Zenon
  <2>10. QED
      BY <1>0, <2>7, <2>8, <2>9, Zenon
<1> HIDE DEF P
<1>3. Seq(Nat) \subseteq P
    BY <1>1, <1>2, SeqSteps
<1>4. QED
    BY <1>3 DEF P, Lines

\* LinesAfter gives lines.
LEMMA LinesType ==
    ASSUME NEW d \in Lines
    PROVE  /\ <<Newline>> \in Lines /\ <<Newline>> \o d \in Lines
           /\ LinesAfter(d) \in Seq(Lines) /\ LinesAfter(<<Newline>> \o d) \in Seq(Lines)
<1>1. \A s \in Lines : LinesAfter(s) \in Seq(Lines)
    BY LinesAppend
<1>2. <<Newline>> \in Lines
    BY DEF Lines, Newline
<1>3. <<Newline>> \o d \in Lines
    BY <1>2, ConcatProperties DEF Lines
<1>4. QED
    BY <1>1, <1>2, <1>3

\* What ScanFile finds, newest first, is NewFirst.
LEMMA NewestLines ==
    ASSUME NEW d \in Lines, NEW L, L \subseteq Full
    PROVE  Filter(Reverse(Scanned(d)), L) = NewFirst(d, L)
<1>1. PICK x \in Seq(Lines) : x = LinesAfter(<<Newline>> \o d)
    BY LinesType
<1>2. PICK r \in Seq(Lines) : r = Reverse(x) /\ Reverse(r) = x
    BY ReverseType, ReverseTwice
<1>3. Scanned(d) = Filter(r, Full)
    BY <1>1, <1>2, Zenon DEF Scanned
<1>4. Reverse(Filter(r, Full)) = Filter(x, Full)
    BY <1>2, FilterReverse
<1>5. Filter(Filter(x, Full), L) = Filter(x, L)
    BY FilterTwice
<1>6. QED
    BY <1>1, <1>3, <1>4, <1>5, Zenon DEF NewFirst

\* Concatenation of bytes associates.
LEMMA LinesAssociate ==
    ASSUME NEW a \in Lines, NEW b \in Lines, NEW c \in Lines
    PROVE  (a \o b) \o c = a \o (b \o c)
    BY ConcatAssociative DEF Lines

\* The lines of a file are those of its last block and those of the rest with
\* what the block carries over.
LEMMA BlockSplit ==
    ASSUME NEW x \in Lines, NEW m \in Lines, NEW L
    PROVE  NewFirst(x \o m, L) = Filter(LinesAfter(m), L) \o NewFirst(x \o FirstPart(m), L)
<1>1. PICK nl \in Lines : nl = <<Newline>>
    BY LinesType
<1>2. PICK p \in Lines : p = FirstPart(m)
    BY FirstPartType
<1>3. PICK y \in Lines : y = nl \o x
    BY ConcatProperties DEF Lines
<1>4. y \o m = nl \o (x \o m) /\ y \o p = nl \o (x \o p)
  <2>1. (nl \o x) \o m = nl \o (x \o m)
      BY LinesAssociate, SMTT(30)
  <2>2. (nl \o x) \o p = nl \o (x \o p)
      BY LinesAssociate, SMTT(30)
  <2>3. QED
      BY <1>3, <2>1, <2>2, Zenon
<1>5. LinesAfter(y \o m) = LinesAfter(m) \o LinesAfter(y \o p)
    BY <1>2, LinesConcat
<1>6. PICK a \in Seq(Lines), b \in Seq(Lines) : a = LinesAfter(m) /\ b = LinesAfter(y \o p)
  <2>1. y \o p \in Lines
      BY ConcatProperties DEF Lines
  <2>2. QED
      BY <2>1, LinesType
<1>7. Filter(a \o b, L) = Filter(a, L) \o Filter(b, L)
    BY FilterConcat
<1>8. QED
    BY <1>1, <1>2, <1>4, <1>5, <1>6, <1>7, Zenon DEF NewFirst

\* The first block of a file has its first line.
LEMMA FirstBlock ==
    ASSUME NEW p \in Lines, LinesAfter(p) = <<>>, NEW L
    PROVE  NewFirst(p, L) = IF p \in L THEN <<p>> ELSE <<>>
<1>1. LinesAfter(<<Newline>> \o p) = <<p>>
    BY OneLine
<1>2. QED
    BY <1>1, FilterOne, Zenon DEF NewFirst

\* The beginning of two parts is the first.
LEMMA ConcatFront ==
    ASSUME NEW S, NEW x \in Seq(S), NEW y \in Seq(S)
    PROVE  Len(x \o y) = Len(x) + Len(y) /\ \A i \in 1 .. Len(x) : (x \o y)[i] = x[i]
<1>1. Len(x) \in Nat /\ Len(y) \in Nat
    BY LenProperties
<1>2. /\ Len(x \o y) = Len(x) + Len(y)
      /\ \A i \in 1 .. Len(x) + Len(y) : (x \o y)[i] = IF i <= Len(x) THEN x[i] ELSE y[i - Len(x)]
    BY ConcatProperties
<1>3. \A i \in 1 .. Len(x) : i \in 1 .. Len(x) + Len(y) /\ i <= Len(x)
    BY <1>1
<1>4. QED
    BY <1>2, <1>3, Zenon

\* Take gives the first n members, or all.
LEMMA TakeType ==
    ASSUME NEW S, NEW s \in Seq(S), NEW n \in Nat
    PROVE  /\ Take(s, n) \in Seq(S)
           /\ Len(Take(s, n)) = IF Len(s) < n THEN Len(s) ELSE n
           /\ \A i \in 1 .. Len(Take(s, n)) : Take(s, n)[i] = s[i]
<1>1. PICK m \in Nat : m = (IF Len(s) < n THEN Len(s) ELSE n) /\ m <= Len(s) /\ Len(s) \in Nat
    BY LenProperties
<1>2. \A i \in 1 .. m : s[i] \in S
    BY <1>1, ElementOfSeq
<1>3. /\ SubSeq(s, 1, m) \in Seq(S) /\ Len(SubSeq(s, 1, m)) = m
      /\ \A i \in 1 .. m : SubSeq(s, 1, m)[i] = s[i]
    BY <1>2
<1>4. Take(s, n) = SubSeq(s, 1, m)
    BY <1>1 DEF Take
<1>5. QED
    BY <1>1, <1>3, <1>4, Zenon

\* Take of a short sequence.
LEMMA TakeShort ==
    ASSUME NEW S, NEW s \in Seq(S), NEW n \in Nat, Len(s) <= n
    PROVE  Take(s, n) = s
<1>1. PICK t \in Seq(S) : t = Take(s, n)
    BY TakeType
<1>2. Len(t) = Len(s) /\ \A i \in 1 .. Len(t) : t[i] = s[i]
  <2>1. Len(t) = IF Len(s) < n THEN Len(s) ELSE n
      BY <1>1, TakeType, Zenon
  <2>2. \A i \in 1 .. Len(t) : t[i] = s[i]
      BY <1>1, TakeType, Zenon
  <2>3. QED
      BY <2>1, <2>2, LenProperties
<1>3. QED
    BY <1>1, <1>2, SeqEqual

\* What is taken of the front is the same whatever was cut off beyond it.
LEMMA TakeTake ==
    ASSUME NEW S, NEW x \in Seq(S), NEW y \in Seq(S), NEW n \in Nat
    PROVE  Take(Take(x, n) \o y, n) = Take(x \o y, n)
<1>1. CASE Len(x) <= n
    BY <1>1, TakeShort
<1>2. CASE ~(Len(x) <= n)
  <2>1. PICK X \in Nat, Y \in Nat : X = Len(x) /\ Y = Len(y) /\ X > n
      BY <1>2, LenProperties
  <2>2. PICK t \in Seq(S) : t = Take(x, n) /\ Len(t) = n /\ \A i \in 1 .. n : t[i] = x[i]
    <3>1. Len(Take(x, n)) = IF X < n THEN X ELSE n
        BY <2>1, TakeType, Zenon
    <3>2. Len(Take(x, n)) = n
        BY <2>1, <3>1
    <3>3. Take(x, n) \in Seq(S) /\ \A i \in 1 .. Len(Take(x, n)) : Take(x, n)[i] = x[i]
        BY TakeType, Zenon
    <3>4. QED
        BY <3>2, <3>3, Zenon
  <2>3. PICK a \in Seq(S), b \in Seq(S) : a = t \o y /\ b = x \o y
      BY ConcatProperties
  <2>4. /\ Len(a) = n + Y /\ Len(b) = X + Y
        /\ \A i \in 1 .. n : a[i] = t[i] /\ b[i] = x[i]
    <3>1. Len(t \o y) = n + Y /\ \A i \in 1 .. n : (t \o y)[i] = t[i]
        BY <2>1, <2>2, ConcatFront, ZenonT(40)
    <3>2. Len(x \o y) = X + Y /\ \A i \in 1 .. X : (x \o y)[i] = x[i]
        BY <2>1, ConcatFront
    <3>3. \A i \in 1 .. n : i \in 1 .. X
        BY <2>1
    <3>4. QED
        BY <2>3, <3>1, <3>2, <3>3, Zenon
  <2>5. PICK c \in Seq(S) : c = Take(a, n) /\ Len(c) = n /\ \A i \in 1 .. n : c[i] = a[i]
    <3>1. Len(Take(a, n)) = IF Len(a) < n THEN Len(a) ELSE n
        BY TakeType, Zenon
    <3>2. Len(Take(a, n)) = n
        BY <2>1, <2>4, <3>1
    <3>3. Take(a, n) \in Seq(S) /\ \A i \in 1 .. Len(Take(a, n)) : Take(a, n)[i] = a[i]
        BY TakeType, Zenon
    <3>4. QED
        BY <3>2, <3>3, Zenon
  <2>6. PICK d \in Seq(S) : d = Take(b, n) /\ Len(d) = n /\ \A i \in 1 .. n : d[i] = b[i]
    <3>1. Len(Take(b, n)) = IF Len(b) < n THEN Len(b) ELSE n
        BY TakeType, Zenon
    <3>2. Len(Take(b, n)) = n
        BY <2>1, <2>4, <3>1
    <3>3. Take(b, n) \in Seq(S) /\ \A i \in 1 .. Len(Take(b, n)) : Take(b, n)[i] = b[i]
        BY TakeType, Zenon
    <3>4. QED
        BY <3>2, <3>3, Zenon
  <2>7. \A i \in 1 .. Len(c) : c[i] = d[i]
      BY <2>2, <2>4, <2>5, <2>6, ZenonT(40)
  <2>8. c = d
      BY <2>5, <2>6, <2>7, SeqEqual
  <2>9. QED
      BY <2>2, <2>3, <2>5, <2>6, <2>8, Zenon
<1>3. QED
    BY <1>1, <1>2

\* Take of a part that is long enough.
LEMMA TakeFull ==
    ASSUME NEW S, NEW x \in Seq(S), NEW y \in Seq(S), NEW n \in Nat, Len(x) = n
    PROVE  Take(x \o y, n) = x
<1>1. PICK X \in Nat, Y \in Nat : X = Len(x) /\ Y = Len(y) /\ X = n
    BY LenProperties
<1>2. PICK b \in Seq(S) : b = x \o y
    BY ConcatProperties
<1>3. Len(b) = X + Y /\ \A i \in 1 .. X : b[i] = x[i]
  <2>1. Len(x \o y) = X + Y /\ \A i \in 1 .. X : (x \o y)[i] = x[i]
      BY <1>1, ConcatFront
  <2>2. QED
      BY <1>2, <2>1, Zenon
<1>4. Len(Take(b, n)) = IF Len(b) < n THEN Len(b) ELSE n
    BY TakeType, Zenon
<1>5. PICK d : d = Take(b, n)
    OBVIOUS
<1>6. d \in Seq(S) /\ \A i \in 1 .. Len(d) : d[i] = b[i]
    BY <1>5, TakeType, Zenon
<1>7. Len(d) = n
    BY <1>1, <1>3, <1>4, <1>5
<1>8. d = x
    BY <1>1, <1>3, <1>6, <1>7, SeqEqual
<1>9. QED
    BY <1>2, <1>5, <1>8, Zenon

-----------------------------------------------------------------------------
(* Decoded.                                                                  *)

\* What Filter lets through is in L.
LEMMA FilterInto ==
    ASSUME NEW S, NEW L, NEW s \in Seq(S)
    PROVE  Filter(s, L) \in Seq(S \cap L)
<1> DEFINE P == {t \in Seq(S) : Filter(t, L) \in Seq(S \cap L)}
<1>1. <<>> \in P
    BY EmptySeq, FilterEmpty
<1>2. ASSUME NEW t \in Seq(S), NEW e \in S, t \in P PROVE Append(t, e) \in P
  <2>1. PICK f \in Seq(S \cap L) : f = Filter(t, L)
      BY <1>2
  <2>2. Append(t, e) \in Seq(S)
      BY AppendProperties
  <2> HIDE DEF P
  <2>3. CASE e \in L
    <3>1. Filter(Append(t, e), L) = Append(f, e)
        BY <2>1, <2>3, FilterIn
    <3>2. e \in S \cap L
        BY <2>3
    <3>3. Append(f, e) \in Seq(S \cap L)
        BY <3>2, AppendProperties
    <3>4. QED
        BY <2>2, <3>1, <3>3 DEF P
  <2>4. CASE e \notin L
    <3>1. Filter(Append(t, e), L) = f
        BY <2>1, <2>4, FilterOut
    <3>2. QED
        BY <2>2, <3>1 DEF P
  <2>5. QED
      BY <2>3, <2>4
<1> HIDE DEF P
<1>3. Seq(S) \subseteq P
    BY <1>1, <1>2, SeqSteps
<1>4. QED
    BY <1>3 DEF P

\* Filter leaves a sequence over L alone.
LEMMA FilterAll ==
    ASSUME NEW L, NEW s \in Seq(L)
    PROVE  Filter(s, L) = s
<1> DEFINE P == {t \in Seq(L) : Filter(t, L) = t}
<1>1. <<>> \in P
    BY EmptySeq, FilterEmpty
<1>2. ASSUME NEW t \in Seq(L), NEW e \in L, t \in P PROVE Append(t, e) \in P
  <2>1. Append(t, e) \in Seq(L)
      BY AppendProperties
  <2>2. Filter(Append(t, e), L) = Append(t, e)
      BY <1>2, FilterIn
  <2>3. QED
      BY <2>1, <2>2
<1> HIDE DEF P
<1>3. Seq(L) \subseteq P
    BY <1>1, <1>2, SeqSteps
<1>4. QED
    BY <1>3 DEF P

\* Decoded gives records.
LEMMA DecodedType ==
    ASSUME NEW ll \in Seq(Lines)
    PROVE  Decoded(ll) \in Seq(Nat)
<1>1. PICK g \in Seq(Lines \cap Decodable) : g = Filter(ll, Decodable)
    BY FilterInto
<1>2. Len(g) \in Nat /\ DOMAIN g = 1 .. Len(g)
    BY LenProperties
<1>3. \A k \in 1 .. Len(g) : g[k][1] \in Nat
  <2> TAKE k \in 1 .. Len(g)
  <2>1. g[k] \in Lines /\ g[k] \in Decodable
      BY ElementOfSeq
  <2>2. PICK l \in Seq(Nat) : l = g[k] /\ Len(l) = 2
      BY <2>1 DEF Decodable, Lines
  <2>3. l[1] \in Nat
      BY <2>2, ElementOfSeq
  <2>4. QED
      BY <2>2, <2>3
<1>4. Decoded(ll) = [k \in 1 .. Len(g) |-> g[k][1]]
    BY <1>1, <1>2, Zenon DEF Decoded
<1>5. QED
    BY <1>2, <1>3, <1>4

\* Of lines that decode, every one gives a record.
LEMMA DecodedAll ==
    ASSUME NEW ll \in Seq(Decodable)
    PROVE  /\ Decoded(ll) \in Seq(Nat) /\ Len(Decoded(ll)) = Len(ll)
           /\ \A k \in 1 .. Len(ll) : Decoded(ll)[k] = ll[k][1]
<1>1. Filter(ll, Decodable) = ll
    BY FilterAll
<1>2. Len(ll) \in Nat /\ DOMAIN ll = 1 .. Len(ll)
    BY LenProperties
<1>3. Decoded(ll) = [k \in 1 .. Len(ll) |-> ll[k][1]]
    BY <1>1, <1>2, Zenon DEF Decoded
<1>4. ll \in Seq(Lines)
  <2>1. Decodable \subseteq Lines
      BY DEF Decodable
  <2>2. QED
      BY <2>1, SeqMonotonic
<1>5. Decoded(ll) \in Seq(Nat)
    BY <1>4, DecodedType
<1>6. PICK d \in Seq(Nat) : d = Decoded(ll)
    BY <1>5
<1>7. DOMAIN d = 1 .. Len(ll) /\ \A k \in 1 .. Len(ll) : d[k] = ll[k][1]
    BY <1>3, <1>6
<1>8. DOMAIN d = 1 .. Len(d) /\ Len(d) \in Nat
    BY LenProperties
<1>9. Len(d) = Len(ll)
    BY <1>2, <1>7, <1>8
<1>10. QED
    BY <1>6, <1>7, <1>9, Zenon

\* Decoding and taking commute on lines that decode.
LEMMA DecodedTake ==
    ASSUME NEW ll \in Seq(Decodable), NEW n \in Nat
    PROVE  Decoded(Take(ll, n)) = Take(Decoded(ll), n)
<1>1. PICK t : t = Take(ll, n)
    OBVIOUS
<1>2. t \in Seq(Decodable) /\ \A i \in 1 .. Len(t) : t[i] = ll[i]
    BY <1>1, TakeType, Zenon
<1>3. Len(t) = IF Len(ll) < n THEN Len(ll) ELSE n
    BY <1>1, TakeType, Zenon
<1>4. PICK a : a = Decoded(t)
    OBVIOUS
<1>5. a \in Seq(Nat) /\ Len(a) = Len(t) /\ \A k \in 1 .. Len(t) : a[k] = t[k][1]
    BY <1>2, <1>4, DecodedAll, Zenon
<1>6. PICK b : b = Decoded(ll)
    OBVIOUS
<1>7. b \in Seq(Nat) /\ Len(b) = Len(ll) /\ \A k \in 1 .. Len(ll) : b[k] = ll[k][1]
    BY <1>6, DecodedAll, Zenon
<1>8. PICK c : c = Take(b, n)
    OBVIOUS
<1>9. c \in Seq(Nat) /\ \A i \in 1 .. Len(c) : c[i] = b[i]
    BY <1>7, <1>8, TakeType, Zenon
<1>10. Len(c) = IF Len(b) < n THEN Len(b) ELSE n
    BY <1>7, <1>8, TakeType, Zenon
<1>11. Len(c) = Len(a)
    BY <1>3, <1>5, <1>7, <1>10
<1>12. \A k \in 1 .. Len(a) : k \in 1 .. Len(t) /\ k \in 1 .. Len(ll) /\ k \in 1 .. Len(c)
    BY <1>3, <1>5, <1>11, LenProperties
<1>13. ASSUME NEW k \in 1 .. Len(a) PROVE a[k] = c[k]
  <2>1. k \in 1 .. Len(t) /\ k \in 1 .. Len(ll) /\ k \in 1 .. Len(c)
      BY <1>12
  <2>2. a[k] = t[k][1] /\ t[k] = ll[k]
      BY <1>2, <1>5, <2>1, Zenon
  <2>3. c[k] = b[k] /\ b[k] = ll[k][1]
      BY <1>7, <1>9, <2>1, Zenon
  <2>4. QED
      BY <2>2, <2>3, Zenon
<1>14. a = c
    BY <1>5, <1>9, <1>11, <1>13, SeqEqual
<1>15. QED
    BY <1>1, <1>4, <1>6, <1>8, <1>14, Zenon

\* Taking more than the first part.
LEMMA TakeConcat ==
    ASSUME NEW S, NEW x \in Seq(S), NEW y \in Seq(S), NEW n \in Nat, Len(x) <= n
    PROVE  Take(x \o y, n) = x \o Take(y, n - Len(x))
<1>1. PICK X \in Nat, Y \in Nat, m \in Nat : X = Len(x) /\ Y = Len(y) /\ m = n - X /\ n = X + m
    BY LenProperties
<1>2. PICK t : t = Take(y, m)
    OBVIOUS
<1>3. t \in Seq(S) /\ \A i \in 1 .. Len(t) : t[i] = y[i]
    BY <1>2, TakeType, Zenon
<1>4. Len(t) = IF Y < m THEN Y ELSE m
    BY <1>1, <1>2, TakeType, Zenon
<1>5. PICK b : b = x \o y
    OBVIOUS
<1>6. /\ b \in Seq(S) /\ Len(b) = X + Y
      /\ \A i \in 1 .. X + Y : b[i] = IF i <= X THEN x[i] ELSE y[i - X]
  <2>1. /\ x \o y \in Seq(S) /\ Len(x \o y) = Len(x) + Len(y)
        /\ \A i \in 1 .. Len(x) + Len(y) : (x \o y)[i] = IF i <= Len(x) THEN x[i] ELSE y[i - Len(x)]
      BY ConcatProperties
  <2>2. QED
      BY <1>1, <1>5, <2>1, Zenon
<1>7. PICK c : c = x \o t
    OBVIOUS
<1>8. /\ c \in Seq(S) /\ Len(c) = X + Len(t)
      /\ \A i \in 1 .. X + Len(t) : c[i] = IF i <= X THEN x[i] ELSE t[i - X]
  <2>1. /\ x \o t \in Seq(S) /\ Len(x \o t) = Len(x) + Len(t)
        /\ \A i \in 1 .. Len(x) + Len(t) : (x \o t)[i] = IF i <= Len(x) THEN x[i] ELSE t[i - Len(x)]
      BY <1>3, ConcatProperties
  <2>2. QED
      BY <1>1, <1>7, <2>1, Zenon
<1>9. PICK d : d = Take(b, n)
    OBVIOUS
<1>10. d \in Seq(S) /\ \A i \in 1 .. Len(d) : d[i] = b[i]
    BY <1>6, <1>9, TakeType, Zenon
<1>11. Len(d) = IF Len(b) < n THEN Len(b) ELSE n
    BY <1>6, <1>9, TakeType, Zenon
<1>12. Len(d) = X + Len(t) /\ Len(t) \in Nat /\ Len(t) <= Y
    BY <1>1, <1>4, <1>6, <1>11
<1>13. ASSUME NEW i \in 1 .. Len(d) PROVE d[i] = c[i]
  <2>1. d[i] = b[i] /\ i \in 1 .. X + Y
      BY <1>10, <1>12
  <2>2. CASE i <= X
      BY <1>6, <1>8, <1>12, <2>1, <2>2
  <2>3. CASE ~(i <= X)
    <3>1. i - X \in 1 .. Len(t)
        BY <1>12, <2>3
    <3>2. t[i - X] = y[i - X]
        BY <1>3, <3>1
    <3>3. QED
        BY <1>6, <1>8, <1>12, <2>1, <2>3, <3>2
  <2>4. QED
      BY <2>2, <2>3
<1>14. d = c
    BY <1>8, <1>10, <1>12, <1>13, SeqEqual
<1>15. QED
    BY <1>1, <1>2, <1>5, <1>7, <1>9, <1>14, Zenon

\* The members of a sequence.
LEMMA SeqOfMembers ==
    ASSUME NEW S, NEW s \in Seq(S), NEW T, ToSet(s) \subseteq T
    PROVE  s \in Seq(T)
<1>1. Len(s) \in Nat /\ DOMAIN s = 1 .. Len(s) /\ s = [i \in 1 .. Len(s) |-> s[i]]
    BY LenProperties
<1>2. \A i \in 1 .. Len(s) : s[i] \in T
    BY <1>1 DEF ToSet
<1>3. s \in [1 .. Len(s) -> T]
    BY <1>1, <1>2
<1>4. QED
    BY <1>1, <1>3, SeqDef

-----------------------------------------------------------------------------
(* FlattenSeq.                                                               *)

\* One step of FlattenSeq.
FlattenStep(S, ss) ==
    [v \in Seq(S) |-> [n \in 1 .. Len(ss) - 1 |-> v \o ss[n + 1]]]

\* FlattenSeq is the fold of its steps.
LEMMA FlattenFold ==
    ASSUME NEW S, NEW ss \in Seq(Seq(S)), NEW N \in Nat, Len(ss) = N + 1
    PROVE  \E f : /\ IsFold(f, N, Seq(S), ss[1], FlattenStep(S, ss))
                  /\ FlattenSeq(ss) = f[N]
<1> DEFINE B(f, i) == IF i = 1 THEN ss[i] ELSE f[i - 1] \o ss[i]
           E(f) == f = [i \in 1 .. N + 1 |-> B(f, i)]
<1>1. /\ \A i \in 1 .. N + 1 : ss[i] \in Seq(S)
      /\ 1 \in 1 .. N + 1 /\ N + 1 \in 1 .. N + 1 /\ N + 1 # 0 /\ (N + 1) - 1 = N
    BY ElementOfSeq
<1>2. PICK g : g = FlattenStep(S, ss)
    OBVIOUS
<1>3. \A v \in Seq(S) : \A n \in 1 .. N : g[v][n] = v \o ss[n + 1]
    BY <1>1, <1>2 DEF FlattenStep
<1>4. \A v \in Seq(S), n \in 1 .. N : g[v][n] \in Seq(S)
  <2>1. \A n \in 1 .. N : ss[n + 1] \in Seq(S)
      BY <1>1
  <2>2. \A v \in Seq(S), n \in 1 .. N : v \o ss[n + 1] \in Seq(S)
      BY <2>1, ConcatProperties
  <2>3. QED
      BY <1>3, <2>2, Zenon
<1>5. FlattenSeq(ss) = (CHOOSE h : E(h))[N + 1]
    BY <1>1 DEF FlattenSeq
<1>6. PICK base \in Seq(S) : base = ss[1]
    BY <1>1
<1>7. PICK f : IsFold(f, N, Seq(S), base, g)
    BY <1>4, RecExists, Zenon
<1>8. /\ f \in [0 .. N -> Seq(S)] /\ f[0] = ss[1]
      /\ \A n \in 1 .. N : f[n] = f[n - 1] \o ss[n + 1]
  <2>1. f \in [0 .. N -> Seq(S)] /\ f[0] = ss[1] /\ \A n \in 1 .. N : f[n] = g[f[n - 1]][n]
      BY <1>6, <1>7 DEF IsFold
  <2>2. ASSUME NEW n \in 1 .. N PROVE f[n] = f[n - 1] \o ss[n + 1]
    <3>1. f[n - 1] \in Seq(S)
        BY <2>1
    <3>2. PICK v \in Seq(S) : v = f[n - 1]
        BY <3>1
    <3>3. g[v][n] = v \o ss[n + 1]
        BY <1>3
    <3>4. f[n] = g[v][n]
        BY <2>1, <3>2
    <3>5. QED
        BY <3>2, <3>3, <3>4, Zenon
  <2>3. QED
      BY <2>1, <2>2
<1>9. PICK k : k = [i \in 1 .. N + 1 |-> f[i - 1]]
    OBVIOUS
<1>10. ASSUME NEW i \in 1 .. N + 1 PROVE k[i] = B(k, i)
  <2>1. CASE i = 1
      BY <1>8, <1>9, <2>1
  <2>2. CASE i # 1
    <3>1. i - 1 \in 1 .. N /\ i - 1 \in 1 .. N + 1 /\ (i - 1) + 1 = i
        BY <2>2
    <3>2. k[i] = f[i - 1] /\ k[i - 1] = f[(i - 1) - 1]
        BY <1>9, <3>1
    <3>3. f[i - 1] = f[(i - 1) - 1] \o ss[(i - 1) + 1]
        BY <1>8, <3>1
    <3>4. k[i] = k[i - 1] \o ss[i]
        BY <3>1, <3>2, <3>3
    <3>5. QED
        BY <2>2, <3>4, Zenon
  <2>3. QED
      BY <2>1, <2>2
<1> HIDE DEF B
<1>11. E(k)
    BY <1>9, <1>10
<1>12. E(CHOOSE h : E(h))
    BY <1>11, Zenon
<1>13. PICK h : h = (CHOOSE q : E(q))
    OBVIOUS
<1>14. h = [i \in 1 .. N + 1 |-> B(h, i)] /\ FlattenSeq(ss) = h[N + 1]
    BY <1>5, <1>12, <1>13, Zenon
<1>15. \A i \in 1 .. N + 1 : h[i] = B(h, i)
    BY <1>14, Zenon
<1>16. PICK q : q = [n \in 0 .. N |-> h[n + 1]]
    OBVIOUS
<1>17. q[0] = base
    BY <1>1, <1>6, <1>15, <1>16 DEF B
<1>18. \A n \in 1 .. N : q[n - 1] \in Seq(S) => q[n] = g[q[n - 1]][n]
  <2> TAKE n \in 1 .. N
  <2> HAVE q[n - 1] \in Seq(S)
  <2>1. n + 1 \in 1 .. N + 1 /\ n + 1 # 1 /\ (n + 1) - 1 = n
      OBVIOUS
  <2>2. h[n + 1] = h[n] \o ss[n + 1]
    <3>1. h[n + 1] = B(h, n + 1)
        BY <1>15, <2>1
    <3>2. QED
        BY <2>1, <3>1 DEF B
  <2>3. q[n] = h[n + 1] /\ q[n - 1] = h[n]
      BY <1>16
  <2>4. PICK v \in Seq(S) : v = q[n - 1]
      OBVIOUS
  <2>5. g[v][n] = v \o ss[n + 1]
      BY <1>3
  <2>6. QED
      BY <2>2, <2>3, <2>4, <2>5, Zenon
<1>19. GoesBy(q, N, Seq(S), base, g)
    BY <1>17, <1>18, Zenon DEF GoesBy
<1>20. q[N] = f[N]
    BY <1>7, <1>19, RecSame
<1>21. q[N] = h[N + 1]
    BY <1>16
<1>22. QED
    BY <1>2, <1>6, <1>7, <1>14, <1>20, <1>21, Zenon

\* Flattening nothing.
LEMMA FlattenEmpty == FlattenSeq(<<>>) = <<>>
    BY DEF FlattenSeq

\* FlattenSeq, one list more.
LEMMA FlattenAppend ==
    ASSUME NEW S, NEW ss \in Seq(Seq(S)), NEW s \in Seq(S)
    PROVE  /\ FlattenSeq(ss) \in Seq(S)
           /\ FlattenSeq(Append(ss, s)) = FlattenSeq(ss) \o s
<1>1. PICK N \in Nat, tt \in Seq(Seq(S)) :
        /\ N = Len(ss) /\ tt = Append(ss, s) /\ Len(tt) = N + 1
        /\ \A n \in 1 .. N : tt[n] = ss[n]
        /\ tt[N + 1] = s
  <2>1. /\ Append(ss, s) \in Seq(Seq(S)) /\ Len(Append(ss, s)) = Len(ss) + 1 /\ Len(ss) \in Nat
        /\ \A n \in 1 .. Len(ss) : Append(ss, s)[n] = ss[n]
        /\ Append(ss, s)[Len(ss) + 1] = s
      BY LenProperties, AppendProperties
  <2>2. QED
      BY <2>1, Zenon
<1> DEFINE g == FlattenStep(S, ss)
           k == FlattenStep(S, tt)
<1>2. PICK h : IsFold(h, N, Seq(S), tt[1], k) /\ FlattenSeq(tt) = h[N]
    BY <1>1, FlattenFold, Zenon
<1>3. CASE N = 0
  <2>1. ss = <<>> /\ FlattenSeq(tt) = s
      BY <1>1, <1>2, <1>3, EmptySeq DEF IsFold
  <2>2. <<>> \o s = s /\ <<>> \in Seq(S)
      BY ConcatEmptySeq
  <2>3. QED
      BY <1>1, <2>1, <2>2, FlattenEmpty
<1>4. CASE N # 0
  <2>1. PICK M \in Nat : N = M + 1 /\ N - 1 = M
      BY <1>4
  <2>2. PICK f : IsFold(f, M, Seq(S), ss[1], g) /\ FlattenSeq(ss) = f[M]
    <3>1. Len(ss) = M + 1
        BY <1>1, <2>1
    <3>2. QED
        BY <3>1, FlattenFold, Zenon
  <2>3. tt[1] = ss[1]
      BY <1>1, <1>4
  <2>4. \A v \in Seq(S) : \A n \in 1 .. M : k[v][n] = g[v][n]
    <3>1. \A v \in Seq(S) : \A n \in 1 .. M : g[v][n] = v \o ss[n + 1]
        BY <1>1, <2>1 DEF FlattenStep
    <3>2. \A v \in Seq(S) : \A n \in 1 .. M : k[v][n] = v \o tt[n + 1]
      <4>1. \A n \in 1 .. M : n \in 1 .. Len(tt) - 1
          BY <1>1, <2>1
      <4>2. QED
          BY <4>1 DEF FlattenStep
    <3>3. \A n \in 1 .. M : tt[n + 1] = ss[n + 1]
        BY <1>1, <2>1
    <3>4. QED
        BY <3>1, <3>2, <3>3, ZenonT(40)
  <2>5. \A v \in Seq(S) : k[v][N] = v \o s
      BY <1>1, <1>4, SMTT(30) DEF FlattenStep
  <2> HIDE DEF g, k
  <2>6. /\ h \in [0 .. N -> Seq(S)] /\ h[0] = tt[1]
        /\ \A n \in 1 .. N : h[n] = k[h[n - 1]][n]
      BY <1>2 DEF IsFold
  <2>7. \A n \in 1 .. M : h[n - 1] \in Seq(S) => h[n] = g[h[n - 1]][n]
    <3> TAKE n \in 1 .. M
    <3> HAVE h[n - 1] \in Seq(S)
    <3>1. n \in 1 .. N
        BY <2>1
    <3>2. h[n] = k[h[n - 1]][n]
        BY <2>6, <3>1
    <3>3. k[h[n - 1]][n] = g[h[n - 1]][n]
        BY <2>4
    <3>4. QED
        BY <3>2, <3>3
  <2>8. GoesBy(h, M, Seq(S), ss[1], g)
      BY <2>3, <2>6, <2>7, Zenon DEF GoesBy
  <2>9. h[M] = FlattenSeq(ss) /\ h[M] \in Seq(S)
    <3>1. h[M] = f[M]
        BY <2>2, <2>8, RecSame
    <3>2. QED
        BY <2>1, <2>2, <2>6, <3>1
  <2>10. h[N] = k[h[M]][N]
      BY <2>1, <2>6
  <2>11. QED
      BY <1>1, <1>2, <2>5, <2>9, <2>10, Zenon
<1>5. QED
    BY <1>3, <1>4

-----------------------------------------------------------------------------
(* tailLines: what it has found and what it carries, block by block.         *)

\* tailLines has read the bytes of data behind p: r has the lines it has found
\* and c the beginning of a line.
HalfRead(data, p, c, r, L, w) ==
    /\ p \in 0 .. Len(data) /\ c \in Lines /\ r \in Seq(Lines) /\ Len(r) <= w
    /\ p = 0 => r = Take(NewFirst(data, L), w)
    /\ p # 0 => Take(NewFirst(data, L), w) = Take(r \o NewFirst(SubSeq(data, 1, p) \o c, L), w)

\* NewFirst gives lines.
LEMMA NewFirstType ==
    ASSUME NEW d \in Lines, NEW L
    PROVE  NewFirst(d, L) \in Seq(Lines)
    BY LinesType, FilterType DEF NewFirst

\* Concatenation of lists of lines associates.
LEMMA ListsAssociate ==
    ASSUME NEW a \in Seq(Lines), NEW b \in Seq(Lines), NEW c \in Seq(Lines)
    PROVE  a \o (b \o c) = (a \o b) \o c
    BY ConcatAssociative, SMTT(30)

\* A block of bytes y before c, in the order tailLines finds its lines.
LEMMA BlockTaken ==
    ASSUME NEW x \in Lines, NEW y \in Lines, NEW c \in Lines, NEW r \in Seq(Lines), NEW L
    PROVE  r \o NewFirst((x \o y) \o c, L) =
             (r \o Filter(LinesAfter(y \o c), L)) \o NewFirst(x \o FirstPart(y \o c), L)
<1>1. PICK m \in Lines : m = y \o c
    BY ConcatProperties DEF Lines
<1>2. (x \o y) \o c = x \o m
  <2>1. (x \o y) \o c = x \o (y \o c)
      BY LinesAssociate, SMTT(30)
  <2>2. QED
      BY <1>1, <2>1, Zenon
<1>3. PICK rest \in Lines : rest = FirstPart(m)
    BY FirstPartType
<1>4. PICK a \in Seq(Lines) : a = Filter(LinesAfter(m), L)
    BY LinesType, FilterType
<1>5. PICK b \in Seq(Lines) : b = NewFirst(x \o rest, L)
  <2>1. x \o rest \in Lines
      BY ConcatProperties DEF Lines
  <2>2. QED
      BY <2>1, NewFirstType
<1>6. NewFirst(x \o m, L) = a \o b
  <2>1. NewFirst(x \o m, L) = Filter(LinesAfter(m), L) \o NewFirst(x \o FirstPart(m), L)
      BY BlockSplit
  <2>2. QED
      BY <1>3, <1>4, <1>5, <2>1, Zenon
<1>7. r \o (a \o b) = (r \o a) \o b
    BY ListsAssociate
<1>8. QED
    BY <1>1, <1>2, <1>3, <1>4, <1>5, <1>6, <1>7, Zenon

\* tailLines before its first block.
LEMMA ReadStarts ==
    ASSUME NEW d \in Lines, NEW L, L \subseteq Full, NEW w \in Nat
    PROVE  HalfRead(d, Len(d), <<>>, <<>>, L, w)
<1>1. Len(d) \in Nat
    BY LenProperties DEF Lines
<1>2. <<>> \in Lines /\ <<>> \in Seq(Lines) /\ Len(<<>>) = 0
    BY DEF Lines
<1>3. ASSUME Len(d) = 0 PROVE <<>> = Take(NewFirst(d, L), w)
  <2>1. d = <<>>
      BY <1>3, EmptySeq DEF Lines
  <2>2. <<>> \notin L
      BY DEF Full
  <2>3. NewFirst(d, L) = <<>>
    <3>1. NewFirst(<<>>, L) = IF <<>> \in L THEN <<<<>>>> ELSE <<>>
        BY <1>2, LinesEmpty, FirstBlock, Zenon
    <3>2. QED
        BY <2>1, <2>2, <3>1, Zenon
  <2>4. Take(<<>>, w) = <<>>
    <3>1. PICK e \in Seq(Lines) : e = <<>>
        BY <1>2
    <3>2. Len(e) <= w
        BY <3>1
    <3>3. QED
        BY <3>1, <3>2, TakeShort
  <2>5. QED
      BY <2>3, <2>4
<1>4. SubSeq(d, 1, Len(d)) \o <<>> = d
  <2>1. SubSeq(d, 1, Len(d)) = d
      BY SubSeqFull DEF Lines
  <2>2. d \o <<>> = d
      BY ConcatEmptySeq DEF Lines
  <2>3. QED
      BY <2>1, <2>2
<1>5. <<>> \o NewFirst(d, L) = NewFirst(d, L)
    BY NewFirstType, ConcatEmptySeq
<1>6. 0 <= w /\ Len(d) \in 0 .. Len(d)
    BY <1>1
<1>7. QED
    BY <1>2, <1>3, <1>4, <1>5, <1>6, Zenon DEF HalfRead

\* One block more.
LEMMA ReadGoesOn ==
    ASSUME NEW d \in Lines, NEW L, NEW w \in Nat, NEW p, NEW c, NEW r,
           NEW from
    PROVE  LET merged == SubSeq(d, from + 1, p) \o c
               rest   == FirstPart(merged)
               first  == IF from = 0 /\ rest \in L THEN <<rest>> ELSE <<>>
           IN  HalfRead(d, p, c, r, L, w) /\ p # 0 /\ from \in 0 .. p - 1 =>
               HalfRead(d, from, rest, Take((r \o Filter(LinesAfter(merged), L)) \o first, w), L, w)
<1>0. SUFFICES ASSUME HalfRead(d, p, c, r, L, w), p # 0, from \in 0 .. p - 1
               PROVE  LET merged == SubSeq(d, from + 1, p) \o c
                          rest   == FirstPart(merged)
                          first  == IF from = 0 /\ rest \in L THEN <<rest>> ELSE <<>>
                      IN  HalfRead(d, from, rest, Take((r \o Filter(LinesAfter(merged), L)) \o first, w), L, w)
    BY Zenon
<1>1. /\ p \in 1 .. Len(d) /\ Len(d) \in Nat /\ c \in Lines /\ r \in Seq(Lines)
      /\ Take(NewFirst(d, L), w) = Take(r \o NewFirst(SubSeq(d, 1, p) \o c, L), w)
    BY <1>0, LenProperties DEF HalfRead, Lines
<1>2. from \in Nat /\ from < p /\ from \in 0 .. Len(d)
    BY <1>0, <1>1
<1>3. \A i \in 1 .. p : d[i] \in Nat
    BY <1>1, ElementOfSeq DEF Lines
<1>4. PICK x \in Lines : x = SubSeq(d, 1, from)
  <2>1. \A i \in 1 .. from : d[i] \in Nat
      BY <1>1, <1>2, <1>3
  <2>2. SubSeq(d, 1, from) \in Seq(Nat)
      BY <1>2, <2>1
  <2>3. QED
      BY <2>2, Zenon DEF Lines
<1>5. PICK y \in Lines : y = SubSeq(d, from + 1, p)
  <2>1. \A i \in from + 1 .. p : d[i] \in Nat
      BY <1>1, <1>2, <1>3
  <2>2. from + 1 \in Int /\ p \in Int
      BY <1>1, <1>2
  <2>3. SubSeq(d, from + 1, p) \in Seq(Nat)
      BY <2>1, <2>2, SubSeqProperties
  <2>4. QED
      BY <2>3, Zenon DEF Lines
<1>6. SubSeq(d, 1, p) = x \o y
  <2>1. /\ d \in Seq(Nat) /\ 1 \in 1 .. Len(d) + 1 /\ from \in 1 - 1 .. Len(d) /\ p \in from .. Len(d)
      BY <1>1, <1>2 DEF Lines
  <2>2. SubSeq(d, 1, from) \o SubSeq(d, from + 1, p) = SubSeq(d, 1, p)
      BY <2>1, ConcatAdjacentSubSeq
  <2>3. QED
      BY <1>4, <1>5, <2>2
<1>7. r \o NewFirst((x \o y) \o c, L) =
           (r \o Filter(LinesAfter(y \o c), L)) \o NewFirst(x \o FirstPart(y \o c), L)
  <2>1. PICK cc \in Lines : cc = c
      BY <1>1
  <2>2. PICK rr \in Seq(Lines) : rr = r
      BY <1>1
  <2>3. rr \o NewFirst((x \o y) \o cc, L) =
           (rr \o Filter(LinesAfter(y \o cc), L)) \o NewFirst(x \o FirstPart(y \o cc), L)
      BY BlockTaken
  <2>4. QED
      BY <2>1, <2>2, <2>3, Zenon
<1>8. PICK m \in Lines : m = y \o c
    BY <1>1, ConcatProperties DEF Lines
<1>9. PICK rest \in Lines : rest = FirstPart(m) /\ LinesAfter(rest) = <<>>
    BY FirstPartType
<1>10. PICK a \in Seq(Lines) : a = Filter(LinesAfter(m), L)
    BY LinesType, FilterType
<1>11. PICK b \in Seq(Lines) : b = NewFirst(x \o rest, L)
  <2>1. x \o rest \in Lines
      BY ConcatProperties DEF Lines
  <2>2. QED
      BY <2>1, NewFirstType
<1>13. PICK ra \in Seq(Lines) : ra = r \o a
    BY <1>1, ConcatProperties
<1>14. Take(NewFirst(d, L), w) = Take(ra \o b, w)
  <2>2. r \o NewFirst(SubSeq(d, 1, p) \o c, L) = ra \o b
      BY <1>6, <1>8, <1>7, <1>9, <1>10, <1>11, <1>13, Zenon
  <2>3. QED
      BY <1>1, <2>2, Zenon
<1> DEFINE first == IF from = 0 /\ rest \in L THEN <<rest>> ELSE <<>>
<1>15. /\ first \in Seq(Lines)
       /\ from = 0 => first = b
       /\ from # 0 => first = <<>>
  <2>1. CASE from = 0
    <3>1. x = <<>> /\ x \o rest = rest
      <4>1. x = <<>>
          BY <1>4, <2>1
      <4>2. QED
          BY <4>1, ConcatEmptySeq DEF Lines
    <3>2. NewFirst(rest, L) = IF rest \in L THEN <<rest>> ELSE <<>>
        BY <1>9, FirstBlock, Zenon
    <3>3. first = IF rest \in L THEN <<rest>> ELSE <<>>
        BY <2>1, Zenon
    <3>4. first = b
        BY <1>11, <3>1, <3>2, <3>3, Zenon
    <3>5. QED
        BY <2>1, <3>4
  <2>2. CASE from # 0
      BY <2>2
  <2>3. QED
      BY <2>1, <2>2
<1> HIDE DEF first
<1>16. PICK t \in Seq(Lines) : t = Take(ra \o first, w) /\ Len(t) <= w
  <2>1. PICK rf \in Seq(Lines) : rf = ra \o first
      BY <1>15, ConcatProperties
  <2>2. Take(rf, w) \in Seq(Lines)
      BY TakeType, Zenon
  <2>3. Len(Take(rf, w)) = IF Len(rf) < w THEN Len(rf) ELSE w
      BY TakeType, Zenon
  <2>4. Len(Take(rf, w)) <= w
      BY <2>3, LenProperties
  <2>5. QED
      BY <2>1, <2>2, <2>4, Zenon
<1>17. from = 0 => t = Take(NewFirst(d, L), w)
    BY <1>14, <1>15, <1>16, Zenon
<1>18. from # 0 => Take(NewFirst(d, L), w) = Take(t \o NewFirst(SubSeq(d, 1, from) \o rest, L), w)
  <2> SUFFICES ASSUME from # 0 PROVE Take(ra \o b, w) = Take(t \o b, w)
      BY <1>4, <1>11, <1>14, Zenon
  <2>1. ra \o <<>> = ra
      BY ConcatEmptySeq
  <2>2. t = Take(ra, w)
      BY <1>15, <1>16, <2>1, Zenon
  <2>3. QED
      BY <2>2, TakeTake, Zenon
<1>19. HalfRead(d, from, rest, t, L, w)
    BY <1>2, <1>16, <1>17, <1>18, Zenon DEF HalfRead
<1>20. QED
    BY <1>5, <1>8, <1>9, <1>10, <1>13, <1>16, <1>19, Zenon DEF first

\* tailLines when it returns.
LEMMA ReadEnds ==
    ASSUME NEW d \in Lines, NEW L, NEW w \in Nat, NEW p, NEW c, NEW r,
           HalfRead(d, p, c, r, L, w), p = 0 \/ Len(r) >= w
    PROVE  r = Take(NewFirst(d, L), w)
<1>1. CASE p = 0
    BY <1>1, Zenon DEF HalfRead
<1>2. CASE p # 0
  <2>1. /\ p \in 1 .. Len(d) /\ Len(d) \in Nat /\ c \in Lines /\ r \in Seq(Lines) /\ Len(r) = w
        /\ Take(NewFirst(d, L), w) = Take(r \o NewFirst(SubSeq(d, 1, p) \o c, L), w)
      BY <1>2, LenProperties DEF HalfRead, Lines
  <2>2. \A i \in 1 .. p : d[i] \in Nat
      BY <2>1, ElementOfSeq DEF Lines
  <2>3. SubSeq(d, 1, p) \o c \in Lines
    <3>1. SubSeq(d, 1, p) \in Seq(Nat)
        BY <2>1, <2>2
    <3>2. QED
        BY <2>1, <3>1, ConcatProperties DEF Lines
  <2>4. PICK b \in Seq(Lines) : b = NewFirst(SubSeq(d, 1, p) \o c, L)
      BY <2>3, NewFirstType
  <2>5. Take(r \o b, w) = r
      BY <2>1, TakeFull
  <2>6. QED
      BY <2>1, <2>4, <2>5, Zenon
<1>3. QED
    BY <1>1, <1>2

\* all has the first n of the records old and those of the lines of d in L.
Brings(d, L, n, old, all) == all = Take(old \o Decoded(NewFirst(d, L)), n)

\* A file whose lines all decode adds the newest of its records that are wanted.
LEMMA DayAdded ==
    ASSUME NEW d \in Lines, NEW L, L \subseteq Full, ToSet(Scanned(d)) \subseteq Decodable,
           NEW n \in Nat, NEW old \in Seq(Nat), NEW new \in Seq(Nat), new = Take(old, n), Len(new) < n,
           NEW r, r = Take(NewFirst(d, L), n - Len(new)), NEW all, all = new \o Decoded(r)
    PROVE  Brings(d, L, n, old, all)
<1>1. Scanned(d) \in Seq(Lines)
  <2>1. PICK x \in Seq(Lines) : x = LinesAfter(<<Newline>> \o d)
      BY LinesType
  <2>2. Reverse(x) \in Seq(Lines)
      BY ReverseType
  <2>3. QED
      BY <2>1, <2>2, FilterType DEF Scanned
<1>2. Scanned(d) \in Seq(Decodable)
    BY <1>1, SeqOfMembers
<1>3. PICK x \in Seq(Decodable) : x = NewFirst(d, L)
  <2>1. Reverse(Scanned(d)) \in Seq(Decodable)
      BY <1>2, ReverseType
  <2>2. Filter(Reverse(Scanned(d)), L) \in Seq(Decodable)
      BY <2>1, FilterType
  <2>3. QED
      BY <2>2, NewestLines
<1>4. PICK m \in Nat : m = n - Len(new)
  <2>1. Len(new) \in Nat
      BY LenProperties
  <2>2. n - Len(new) \in Nat
      BY <2>1
  <2>3. QED
      BY <2>2, Zenon
<1>5. Decoded(r) = Take(Decoded(x), m)
    BY <1>3, <1>4, DecodedTake
<1>6. PICK y \in Seq(Nat) : y = Decoded(x)
    BY <1>3, DecodedAll
<1>7. new = old
  <2>1. Len(new) = IF Len(old) < n THEN Len(old) ELSE n
      BY TakeType, ZenonT(40)
  <2>2. Len(old) <= n
      BY <2>1, LenProperties
  <2>3. QED
      BY <2>2, TakeShort
<1>8. Take(new \o y, n) = new \o Take(y, n - Len(new))
  <2>1. Len(new) <= n
      BY LenProperties
  <2>2. QED
      BY <2>1, TakeConcat
<1>9. QED
    BY <1>3, <1>4, <1>5, <1>6, <1>7, <1>8, Zenon DEF Brings

-----------------------------------------------------------------------------
(* DecodeTailDays: its invariant, and the Store that appends meanwhile.      *)

\* The bytes a call was given of a file are still its first ones.
Seen ==
    /\ seen \in [Days -> Lines]
    /\ \A d \in Days : /\ Len(seen[d]) <= Len(file[d])
                       /\ \A i \in 1 .. Len(seen[d]) : file[d][i] = seen[d][i]

\* The call that is made, step by step.
Called ==
    /\ pc = "idle" => job = NoJob /\ out = <<>> /\ kept = <<>>
    /\ pc \in {"open", "chunk"} => job.kind = "tail"
    /\ pc = "scan" => job.kind = "since"
    /\ pc = "clean" => job.kind = "clean"

\* tailLines.
Tailed ==
    pc = "chunk" =>
        /\ at \in Days /\ Wanted \in Nat \ {0}
        /\ HalfRead(seen[at], pos, carry, result, Passing, Wanted)

\* Every line of the files DecodeTailDays went through decodes.
Intact == \A d \in at + 1 .. today : ToSet(Scanned(seen[d])) \subseteq Decodable

\* DecodeTailDays between two files.
Visited ==
    job.kind = "tail" =>
        /\ pc \in {"open", "chunk", "done", "failed"}
        /\ job.limit \in Nat /\ today \in Days /\ at \in -1 .. today /\ out \in Seq(Nat)
        /\ Intact => out = Take(Newest, job.limit)

\* All of it.
TailInv == Seen /\ Called /\ Tailed /\ Visited

\* The caller's filter passes no empty line.
LEMMA PassingFull == Passing \subseteq Full
    BY DEF Passing

\* There is a file for every earlier day.
LEMMA EarlierDay ==
    ASSUME NEW d \in Days, NEW e \in 0 .. d PROVE e \in Days
<1>1. Day(MaxTime) \in Nat
  <2>1. \A m \in Nat, n \in Nat \ {0} : m \div n \in Nat
      OBVIOUS
  <2>2. QED
      BY <2>1, ReaderAssumption DEF Day
<1>2. QED
    BY <1>1 DEF Days

\* A function on nothing is the empty list.
LEMMA EmptyList ==
    ASSUME NEW f, DOMAIN f = {}, f = [k \in DOMAIN f |-> f[k]]
    PROVE  f \in Seq({}) /\ f = <<>>
<1>1. 1 .. 0 = {}
    OBVIOUS
<1>2. f \in [1 .. 0 -> {}]
    BY <1>1
<1>3. f \in Seq({}) /\ Len(f) = 0
    BY <1>2
<1>4. QED
    BY <1>3, EmptySeq

\* Files only grow.
Grown ==
    \A d \in Days : /\ file'[d] \in Lines /\ Len(file[d]) <= Len(file'[d])
                    /\ \A i \in 1 .. Len(file[d]) : file'[d][i] = file[d][i]

\* What was read stays true of files that only grow.
LEMMA SeenGrown ==
    ASSUME Writer, Seen, Grown, UNCHANGED seen
    PROVE  Seen'
<1>1. seen' \in [Days -> Lines]
    BY DEF Seen
<1>2. ASSUME NEW d \in Days
      PROVE  /\ Len(seen'[d]) <= Len(file'[d])
             /\ \A i \in 1 .. Len(seen'[d]) : file'[d][i] = seen'[d][i]
  <2>1. PICK s \in Lines, f \in Lines, g \in Lines : s = seen[d] /\ f = file[d] /\ g = file'[d]
      BY DEF Seen, Writer, Grown, Lines
  <2>2. Len(s) \in Nat /\ Len(f) \in Nat /\ Len(g) \in Nat
      BY LenProperties DEF Lines
  <2>3. /\ Len(s) <= Len(f) /\ \A i \in 1 .. Len(s) : f[i] = s[i]
        /\ Len(f) <= Len(g) /\ \A i \in 1 .. Len(f) : g[i] = f[i]
      BY <2>1, Zenon DEF Seen, Grown
  <2>4. Len(s) <= Len(g) /\ \A i \in 1 .. Len(s) : g[i] = s[i]
      BY <2>2, <2>3
  <2>5. QED
      BY <2>1, <2>4
<1>3. QED
    BY <1>1, <1>2, Zenon DEF Seen

\* Appending a byte.
LEMMA AppendGrows ==
    ASSUME Writer, NEW d \in Days, NEW b \in Nat, file' = [file EXCEPT ![d] = Append(@, b)]
    PROVE  Grown
<1>1. file \in [Days -> Lines]
    BY DEF Writer, Lines
<1>2. ASSUME NEW e \in Days
      PROVE  /\ file'[e] \in Lines /\ Len(file[e]) <= Len(file'[e])
             /\ \A i \in 1 .. Len(file[e]) : file'[e][i] = file[e][i]
  <2>1. PICK f \in Lines : f = file[e] /\ Len(f) \in Nat
      BY <1>1, LenProperties DEF Lines
  <2>2. CASE e = d
    <3>1. file'[e] = Append(f, b)
        BY <1>1, <2>1, <2>2
    <3>2. /\ Append(f, b) \in Lines /\ Len(Append(f, b)) = Len(f) + 1
          /\ \A i \in 1 .. Len(f) : Append(f, b)[i] = f[i]
        BY AppendProperties DEF Lines
    <3>3. Len(f) <= Len(f) + 1
        BY <2>1
    <3>4. QED
        BY <2>1, <3>1, <3>2, <3>3
  <2>3. CASE e # d
    <3>1. file'[e] = f
        BY <1>1, <2>1, <2>3
    <3>2. Len(f) <= Len(f)
        BY <2>1
    <3>3. QED
        BY <2>1, <3>1, <3>2
  <2>4. QED
      BY <2>2, <2>3
<1>3. QED
    BY <1>2 DEF Grown

\* Doing nothing.
LEMMA SameGrows == ASSUME Writer, UNCHANGED file PROVE Grown
<1>1. ASSUME NEW d \in Days PROVE file[d] \in Lines /\ Len(file[d]) <= Len(file[d])
    BY LenProperties DEF Writer, Lines
<1>2. QED
    BY <1>1 DEF Grown

\* The Store appends a byte to a file.
LEMMA StoreAppends ==
    ASSUME Writer, WriteRecord \/ WriteByte
    PROVE  \E d \in Days, b \in Nat : file' = [file EXCEPT ![d] = Append(@, b)]
<1>1. CASE WriteRecord
  <2>1. Day(clock) \in Days /\ rec + 1 \in Nat
      BY DayOfClock DEF Writer
  <2>2. file' = [file EXCEPT ![Day(clock)] = Append(@, rec + 1)]
      BY <1>1 DEF WriteRecord
  <2>3. QED
      BY <2>1, <2>2, Zenon
<1>2. CASE WriteByte
  <2>1. wday \in Days /\ Bytes(rec)[wpos + 1] \in Nat
      BY <1>2 DEF WriteByte, Writer, Bytes, Newline
  <2>2. file' = [file EXCEPT ![wday] = Append(@, Bytes(rec)[wpos + 1])]
      BY <1>2 DEF WriteByte
  <2>3. QED
      BY <2>1, <2>2, Zenon
<1>3. QED
    BY <1>1, <1>2

\* The Store only appends.
LEMMA StoreGrows ==
    ASSUME Writer, WriteRecord \/ WriteByte
    PROVE  Grown
<1>1. PICK d \in Days, b \in Nat : file' = [file EXCEPT ![d] = Append(@, b)]
    BY StoreAppends
<1>2. QED
    BY <1>1, AppendGrows

\* What does not touch the call leaves what is known of it.
LEMMA CallKept ==
    ASSUME Called, Tailed, Visited, UNCHANGED <<job, pc, today, at, pos, carry, result, out, kept, seen>>
    PROVE  Called' /\ Tailed' /\ Visited'
<1>1. Called'
    BY DEF Called, NoJob
<1>2. Passing' = Passing
    BY DEF Passing
<1>3. Wanted' = Wanted
    BY DEF Wanted
<1>4. Tailed'
    BY <1>2, <1>3, Zenon DEF Tailed
<1>5. Newest' = Newest
    BY <1>2, Zenon DEF Newest
<1>6. Intact' = Intact
    BY Zenon DEF Intact
<1>7. Visited'
    BY <1>5, <1>6, Zenon DEF Visited
<1>8. QED
    BY <1>1, <1>4, <1>7

\* The invariant of DecodeTailDays holds at the start.
LEMMA TailInit == Init => TailInv
<1> SUFFICES ASSUME Init PROVE TailInv
    OBVIOUS
<1>1. /\ seen = [d \in Days |-> <<>>] /\ file = [d \in Days |-> <<>>] /\ pc = "idle"
      /\ job = NoJob /\ out = <<>> /\ kept = <<>>
    BY DEF Init
<1>2. job.kind # "tail"
    BY <1>1 DEF NoJob
<1>3. Seen
    BY <1>1 DEF Seen, Lines
<1>4. Called
    BY <1>1 DEF Called
<1>5. Tailed
    BY <1>1 DEF Tailed
<1>6. Visited
    BY <1>2 DEF Visited
<1>7. QED
    BY <1>3, <1>4, <1>5, <1>6 DEF TailInv

\* DecodeTailDays begins.
LEMMA TailBegins ==
    ASSUME RetentionInv, TailInv, StartTail
    PROVE  TailInv'
<1> USE DEF RetentionInv, TailInv
<1>1. PICK n \in 1 .. MaxLimit, k \in 1 .. MaxDays, o \in {{}, {r \in Recs : r % 2 = 1}} :
        Start([kind |-> "tail", limit |-> n, days |-> k, only |-> o], "open")
    BY DEF StartTail
<1>2. /\ pc = "idle" /\ pc' = "open" /\ today' = Day(clock) /\ at' = Day(clock)
      /\ UNCHANGED <<file, out, kept, seen>>
      /\ job' = [kind |-> "tail", limit |-> n, days |-> k, only |-> o]
    BY <1>1 DEF Start, storeVars
<1>3. job'.kind = "tail" /\ job'.limit = n /\ n \in Nat
    BY <1>2, ReaderAssumption
<1>4. Seen'
    BY <1>2, SameGrows, SeenGrown
<1>5. Called'
    BY <1>2, <1>3 DEF Called
<1>6. Tailed'
    BY <1>2 DEF Tailed
<1>7. Day(clock) \in Days /\ Day(clock) \in Nat
    BY DayOfClock, DaysAreNumbers DEF Writer
<1>8. Newest' = <<>>
  <2>1. today' - at' = 0
      BY <1>2, <1>7
  <2>2. 1 .. today' - at' = {}
      BY <2>1
  <2>3. PICK f : f = [i \in 1 .. today' - at' |->
                       Decoded(Filter(Reverse(Scanned(seen'[today' - i + 1])), Passing'))]
      OBVIOUS
  <2>4. f \in Seq({}) /\ f = <<>>
      BY <2>2, <2>3, EmptyList
  <2>5. Newest' = FlattenSeq(f)
      BY <2>3, Zenon DEF Newest
  <2>6. QED
      BY <2>4, <2>5, FlattenEmpty
<1>9. out' = Take(<<>>, n)
  <2>1. PICK e \in Seq(Nat) : e = <<>>
      BY EmptySeq
  <2>2. Take(e, n) = e
    <3>1. Len(e) <= n
        BY <1>3, <2>1
    <3>2. QED
        BY <1>3, <3>1, TakeShort
  <2>3. out' = <<>>
      BY <1>2 DEF Called
  <2>4. QED
      BY <2>1, <2>2, <2>3
<1>10. out' \in Seq(Nat)
    BY <1>2 DEF Called
<1>11. Visited'
    BY <1>2, <1>3, <1>7, <1>8, <1>9, <1>10 DEF Visited
<1>12. QED
    BY <1>4, <1>5, <1>6, <1>11

\* The other calls begin, go on and end.
LEMMA OthersCall ==
    ASSUME RetentionInv, TailInv,
           StartSince \/ ScanFile \/ ScanDone \/ StartClean \/ RemoveFails \/ RemoveFile \/ CleanDone
    PROVE  Called' /\ Tailed' /\ Visited'
<1> USE DEF RetentionInv, TailInv
<1>1. CASE StartSince \/ StartClean
  <2>1. pc' \in {"scan", "clean"} /\ job'.kind = (IF pc' = "scan" THEN "since" ELSE "clean")
      BY <1>1 DEF StartSince, StartClean, Start
  <2>2. QED
      BY <2>1 DEF Called, Tailed, Visited
<1>2. CASE ScanFile \/ ScanDone \/ RemoveFails \/ RemoveFile \/ CleanDone
  <2>1. job' = job /\ pc \in {"scan", "clean"} /\ pc' \in {pc, "done", "failed"}
      BY <1>2 DEF ScanFile, ScanDone, RemoveFails, RemoveFile, CleanDone, callVars
  <2>2. QED
      BY <2>1 DEF Called, Tailed, Visited
<1>3. QED
    BY <1>1, <1>2

\* A file is opened.
LEMMA TailOpens ==
    ASSUME RetentionInv, TailInv, TailOpen
    PROVE  TailInv'
<1> USE DEF RetentionInv, TailInv
<1>1. /\ pc = "open" /\ UNCHANGED <<file, job, today, at, out, kept>>
      /\ job.kind = "tail" /\ job'.kind = "tail" /\ job'.limit = job.limit
    BY DEF TailOpen, storeVars, callVars, Called
<1>2. /\ job.limit \in Nat /\ today \in Days /\ at \in -1 .. today /\ out \in Seq(Nat) /\ Len(out) \in Nat
      /\ Days \subseteq Nat
    BY <1>1, DaysAreNumbers, LenProperties DEF Visited
<1>3. Passing' = Passing /\ Wanted' = Wanted
    BY <1>1 DEF Passing, Wanted
<1>4. CASE OneMore
  <2>1. /\ pc' = "chunk" /\ pos' = Len(file[at]) /\ seen' = [seen EXCEPT ![at] = file[at]]
        /\ carry' = <<>> /\ result' = <<>>
      BY <1>4 DEF TailOpen
  <2>2. at \in Days /\ Wanted \in Nat \ {0}
    <3>1. at >= 0 /\ Wanted > 0
        BY <1>4 DEF OneMore
    <3>2. Wanted \in Int
        BY <1>2 DEF Wanted
    <3>3. QED
        BY <1>2, <3>1, <3>2, EarlierDay
  <2>3. PICK f \in Lines : f = file[at]
      BY <2>2 DEF Writer, Lines
  <2>4. seen' \in [Days -> Lines] /\ seen'[at] = f /\ \A d \in Days : d # at => seen'[d] = seen[d]
      BY <2>1, <2>2, <2>3 DEF Seen
  <2>5. Seen'
    <3>1. ASSUME NEW d \in Days
          PROVE  /\ Len(seen'[d]) <= Len(file'[d])
                 /\ \A i \in 1 .. Len(seen'[d]) : file'[d][i] = seen'[d][i]
      <4>1. CASE d = at
        <5>1. seen'[d] = f /\ file'[d] = f /\ Len(f) <= Len(f)
            BY <1>1, <2>3, <2>4, <4>1, LenProperties DEF Lines
        <5>2. QED
            BY <5>1
      <4>2. CASE d # at
        <5>1. seen'[d] = seen[d] /\ file'[d] = file[d]
            BY <1>1, <2>4, <4>2
        <5>2. QED
            BY <5>1 DEF Seen
      <4>3. QED
          BY <4>1, <4>2
    <3>2. QED
        BY <2>4, <3>1, Zenon DEF Seen
  <2>6. Called'
      BY <1>1, <2>1 DEF Called
  <2>7. Tailed'
    <3>1. HalfRead(f, Len(f), <<>>, <<>>, Passing, Wanted)
        BY <2>2, PassingFull, ReadStarts
    <3>2. HalfRead(seen'[at], pos', carry', result', Passing, Wanted)
        BY <2>1, <2>3, <2>4, <3>1, Zenon
    <3>3. QED
        BY <1>1, <1>3, <2>2, <3>2, Zenon DEF Tailed
  <2>8. \A d \in at + 1 .. today : d \in Days /\ seen'[d] = seen[d]
    <3> TAKE d \in at + 1 .. today
    <3>1. d \in 0 .. today /\ d # at
        BY <1>2, <2>2
    <3>2. d \in Days
        BY <1>2, <3>1, EarlierDay
    <3>3. QED
        BY <2>4, <3>1, <3>2
  <2>9. Newest' = Newest
    <3>1. \A k \in 1 .. today - at : today - k + 1 \in at + 1 .. today
        BY <1>2
    <3>2. \A k \in 1 .. today - at : seen'[today - k + 1] = seen[today - k + 1]
        BY <2>8, <3>1
    <3>3. [k \in 1 .. today - at |-> Decoded(Filter(Reverse(Scanned(seen'[today - k + 1])), Passing))] =
          [k \in 1 .. today - at |-> Decoded(Filter(Reverse(Scanned(seen[today - k + 1])), Passing))]
        BY <3>2, Zenon
    <3>4. QED
        BY <1>1, <1>3, <3>3, Zenon DEF Newest
  <2>10. Intact' = Intact
      BY <1>1, <2>8 DEF Intact
  <2>11. Visited'
      BY <1>1, <1>2, <2>1, <2>9, <2>10 DEF Visited
  <2>12. QED
      BY <2>5, <2>6, <2>7, <2>11
<1>5. CASE ~OneMore
  <2>1. pc' = "done" /\ seen' = seen
      BY <1>5 DEF TailOpen
  <2>2. Seen'
      BY <1>1, <2>1, SameGrows, SeenGrown
  <2>3. Called' /\ Tailed'
      BY <2>1 DEF Called, Tailed
  <2>4. Newest' = Newest
      BY <1>1, <1>3, <2>1, Zenon DEF Newest
  <2>5. Intact' = Intact
      BY <1>1, <2>1, Zenon DEF Intact
  <2>6. Visited'
      BY <1>1, <2>1, <2>4, <2>5 DEF Visited
  <2>7. QED
      BY <2>2, <2>3, <2>6
<1>6. QED
    BY <1>4, <1>5

-----------------------------------------------------------------------------
(* The steps of DecodeTailDays.                                              *)

\* The part of a file that has been read is still what was read.
LEMMA SeenPart ==
    ASSUME Writer, Seen, NEW d \in Days, NEW m \in Nat, NEW n \in Nat, n <= Len(seen[d])
    PROVE  SubSeq(file[d], m + 1, n) = SubSeq(seen[d], m + 1, n)
<1>1. PICK s \in Lines, f \in Lines : s = seen[d] /\ f = file[d]
    BY DEF Seen, Writer, Lines
<1>2. /\ Len(s) \in Nat /\ Len(f) \in Nat /\ Len(s) <= Len(f)
      /\ \A i \in 1 .. Len(s) : f[i] = s[i]
  <2>1. Len(s) <= Len(f) /\ \A i \in 1 .. Len(s) : f[i] = s[i]
      BY <1>1, Zenon DEF Seen
  <2>2. QED
      BY <2>1, LenProperties DEF Lines
<1>3. \A i \in m + 1 .. n : f[i] = s[i] /\ s[i] \in Nat
  <2> TAKE i \in m + 1 .. n
  <2>1. i \in 1 .. Len(s)
      BY <1>1, <1>2
  <2>2. QED
      BY <1>2, <2>1, ElementOfSeq DEF Lines
<1>4. SubSeq(f, m + 1, n) = SubSeq(s, m + 1, n)
    BY <1>3
<1>5. QED
    BY <1>1, <1>4

\* A block is read.
LEMMA ChunkKeeps ==
    ASSUME RetentionInv, TailInv, TailChunk
    PROVE  TailInv'
<1> USE DEF RetentionInv, TailInv
<1>1. /\ pc = "chunk" /\ UNCHANGED <<file, job, today, pc, at, out, kept, seen>>
      /\ pos > 0
    BY DEF TailChunk, storeVars, callVars
<1>2. /\ at \in Days /\ Wanted \in Nat \ {0} /\ pos \in 0 .. Len(seen[at])
      /\ HalfRead(seen[at], pos, carry, result, Passing, Wanted)
    BY <1>1 DEF Tailed, HalfRead
<1>3. Passing' = Passing /\ Wanted' = Wanted
    BY <1>1 DEF Passing, Wanted
<1>a. seen[at] \in Lines /\ Wanted \in Nat
    BY <1>2 DEF Seen
<1>b. PICK d \in Lines : d = seen[at]
    BY <1>a, Zenon
<1>c. PICK w \in Nat : w = Wanted
    BY <1>a, Zenon
<1>d. PICK L : L = Passing
    OBVIOUS
<1>e. PICK p : p = pos
    OBVIOUS
<1>f. PICK c : c = carry
    OBVIOUS
<1>g. PICK r : r = result
    OBVIOUS
<1>4. d = seen[at] /\ L = Passing /\ w = Wanted /\ p = pos /\ c = carry /\ r = result
    BY <1>b, <1>c, <1>d, <1>e, <1>f, <1>g, Zenon
<1>5. PICK from : from = IF pos < ChunkSize THEN 0 ELSE pos - ChunkSize
    OBVIOUS
<1>6. p \in Nat \ {0} /\ from \in 0 .. p - 1 /\ p <= Len(d)
  <2>1. ChunkSize \in Nat \ {0} /\ Len(d) \in Nat
      BY ReaderAssumption, LenProperties DEF Lines
  <2>2. QED
      BY <1>1, <1>2, <1>4, <1>5, <2>1
<1>7. PICK merged : merged = SubSeq(d, from + 1, p) \o c
    OBVIOUS
<1>8. merged = SubSeq(file[at], from + 1, pos) \o carry
  <2>1. SubSeq(file[at], from + 1, pos) = SubSeq(seen[at], from + 1, pos)
      BY <1>2, <1>4, <1>6, SeenPart
  <2>2. QED
      BY <1>4, <1>7, <2>1, Zenon
<1>9. PICK first : first = IF from = 0 /\ FirstPart(merged) \in L THEN <<FirstPart(merged)>> ELSE <<>>
    OBVIOUS
<1>10. /\ pos' = from /\ carry' = FirstPart(merged)
       /\ result' = Take((r \o Filter(LinesAfter(merged), L)) \o first, w)
  <2>1. /\ result' = Take((result \o Filter(LinesAfter(merged), Passing)) \o
                          (IF from = 0 /\ Carried(merged) \in Passing THEN <<Carried(merged)>> ELSE <<>>), Wanted)
        /\ carry' = Carried(merged) /\ pos' = from
      BY <1>5, <1>8, Zenon DEF TailChunk
  <2>2. Carried(merged) = FirstPart(merged)
      BY DEF Carried
  <2>3. QED
      BY <1>4, <1>9, <2>1, <2>2, Zenon
<1>11. HalfRead(d, p, c, r, L, w)
    BY <1>2, <1>4, Zenon
<1>12. HalfRead(d, from, FirstPart(merged), Take((r \o Filter(LinesAfter(merged), L)) \o first, w), L, w)
    BY <1>6, <1>7, <1>9, <1>11, ReadGoesOn, Zenon
<1>13. HalfRead(seen[at], pos', carry', result', Passing, Wanted)
    BY <1>4, <1>10, <1>12, Zenon
<1>14. Tailed'
    BY <1>1, <1>2, <1>3, <1>13, Zenon DEF Tailed
<1>15. Seen'
    BY <1>1, SameGrows, SeenGrown
<1>16. Called'
    BY <1>1, Zenon DEF Called
<1>17. Newest' = Newest
    BY <1>1, <1>3, Zenon DEF Newest
<1>18. Intact' = Intact
    BY <1>1, Zenon DEF Intact
<1>19. Visited'
    BY <1>1, <1>17, <1>18, Zenon DEF Visited
<1>20. QED
    BY <1>14, <1>15, <1>16, <1>19

\* The lines of a file when tailLines returns.
LEMMA TailResult ==
    ASSUME TailInv, pc = "chunk", pos = 0 \/ Len(result) >= Wanted
    PROVE  /\ at \in Days /\ seen[at] \in Lines /\ Wanted \in Nat \ {0}
           /\ result = Take(NewFirst(seen[at], Passing), Wanted)
<1>1. /\ at \in Days /\ Wanted \in Nat \ {0} /\ seen[at] \in Lines
      /\ HalfRead(seen[at], pos, carry, result, Passing, Wanted)
    BY DEF TailInv, Tailed, Seen
<1>2. result = Take(NewFirst(seen[at], Passing), Wanted)
    BY <1>1, ReadEnds
<1>3. QED
    BY <1>1, <1>2

\* One day more.
LEMMA FlattenMore ==
    ASSUME NEW n \in Nat, NEW s, NEW t,
           s \in [1 .. n -> Seq(Nat)], t \in [1 .. n + 1 -> Seq(Nat)],
           \A k \in 1 .. n : s[k] = t[k]
    PROVE  FlattenSeq(s) \in Seq(Nat) /\ FlattenSeq(t) = FlattenSeq(s) \o t[n + 1]
<1>3. s \in Seq(Seq(Nat)) /\ Len(s) = n
    OBVIOUS
<1>4. t \in Seq(Seq(Nat)) /\ Len(t) = n + 1
    OBVIOUS
<1>5. PICK e \in Seq(Nat) : e = t[n + 1]
    OBVIOUS
<1>6. t = Append(s, e)
  <2>1. PICK u : u = Append(s, e)
      OBVIOUS
  <2>2. /\ u \in Seq(Seq(Nat)) /\ Len(u) = n + 1 /\ u[n + 1] = e
        /\ \A k \in 1 .. n : u[k] = s[k]
      BY <1>3, <2>1, AppendProperties
  <2>3. ASSUME NEW k \in 1 .. n + 1 PROVE t[k] = u[k]
    <3>1. CASE k = n + 1
        BY <1>5, <2>2, <3>1, Zenon
    <3>2. CASE k # n + 1
      <4>1. k \in 1 .. n
          BY <3>2
      <4>2. QED
          BY <2>2, <4>1, Zenon
    <3>3. QED
        BY <3>1, <3>2
  <2>4. QED
      BY <1>4, <2>1, <2>2, <2>3, SeqEqual
<1>7. FlattenSeq(s) \in Seq(Nat) /\ FlattenSeq(Append(s, e)) = FlattenSeq(s) \o e
    BY <1>3, FlattenAppend
<1>8. QED
    BY <1>5, <1>6, <1>7, Zenon

\* The records of a file.
LEMMA DayRecords ==
    ASSUME NEW d \in Lines, NEW L, L \subseteq Full
    PROVE  Decoded(Filter(Reverse(Scanned(d)), L)) \in Seq(Nat)
<1>1. Filter(Reverse(Scanned(d)), L) \in Seq(Lines)
    BY NewestLines, NewFirstType
<1>2. QED
    BY <1>1, DecodedType

\* The records of a file are added; on to the day before.
LEMMA DecodeKeeps ==
    ASSUME RetentionInv, TailInv, TailDecode
    PROVE  TailInv'
<1> USE DEF RetentionInv, TailInv
<1>1. /\ pc = "chunk" /\ (pos = 0 \/ Len(result) >= Wanted)
      /\ out' = out \o Decoded(result) /\ at' = at - 1 /\ pc' = "open"
      /\ UNCHANGED <<file, job, today, kept, seen>> /\ job.kind = "tail"
    BY DEF TailDecode, storeVars, callVars, Called
<1>2. /\ at \in Days /\ seen[at] \in Lines /\ Wanted \in Nat \ {0}
      /\ result = Take(NewFirst(seen[at], Passing), Wanted)
    BY <1>1, TailResult
<1>3. /\ job.limit \in Nat /\ today \in Days /\ at \in -1 .. today /\ out \in Seq(Nat)
      /\ Intact => out = Take(Newest, job.limit)
      /\ today \in Nat /\ at \in Nat /\ Len(out) \in Nat
    BY <1>1, <1>2, DaysAreNumbers, LenProperties DEF Visited
<1>4. Seen'
    BY <1>1, SameGrows, SeenGrown
<1>5. Called' /\ Tailed'
    BY <1>1 DEF Called, Tailed
<1>6. out' \in Seq(Nat)
  <2>1. NewFirst(seen[at], Passing) \in Seq(Lines)
      BY <1>2, NewFirstType
  <2>2. result \in Seq(Lines)
      BY <1>2, <2>1, TakeType
  <2>3. Decoded(result) \in Seq(Nat)
      BY <2>2, DecodedType
  <2>4. QED
      BY <1>1, <1>3, <2>3, ConcatProperties
<1>7. Passing' = Passing
    BY <1>1 DEF Passing
<1>8. PICK n \in Nat : n = today - at /\ today - at' = n + 1 /\ today - (n + 1) + 1 = at
    BY <1>1, <1>3
<1>9. PICK s, t :
        /\ s = [k \in 1 .. n |-> Decoded(Filter(Reverse(Scanned(seen[today - k + 1])), Passing))]
        /\ t = [k \in 1 .. n + 1 |-> Decoded(Filter(Reverse(Scanned(seen[today - k + 1])), Passing))]
    OBVIOUS
<1>10. Newest = FlattenSeq(s) /\ Newest' = FlattenSeq(t)
    BY <1>1, <1>7, <1>8, <1>9, Zenon DEF Newest
<1>11. \A k \in 1 .. n + 1 : Decoded(Filter(Reverse(Scanned(seen[today - k + 1])), Passing)) \in Seq(Nat)
  <2> TAKE k \in 1 .. n + 1
  <2>1. today - k + 1 \in 0 .. today
      BY <1>3, <1>8
  <2>2. today - k + 1 \in Days
      BY <1>3, <2>1, EarlierDay
  <2>3. seen[today - k + 1] \in Lines
      BY <2>2 DEF Seen
  <2>4. QED
      BY <2>3, PassingFull, DayRecords
<1>12. /\ s \in [1 .. n -> Seq(Nat)] /\ t \in [1 .. n + 1 -> Seq(Nat)]
       /\ \A k \in 1 .. n : s[k] = t[k]
    BY <1>9, <1>11
<1>13. t[n + 1] = Decoded(NewFirst(seen[at], Passing))
  <2>1. t[n + 1] = Decoded(Filter(Reverse(Scanned(seen[today - (n + 1) + 1])), Passing))
      BY <1>9
  <2>2. Filter(Reverse(Scanned(seen[at])), Passing) = NewFirst(seen[at], Passing)
      BY <1>2, PassingFull, NewestLines
  <2>3. QED
      BY <1>8, <2>1, <2>2, Zenon
<1>14. Newest \in Seq(Nat) /\ Newest' = Newest \o Decoded(NewFirst(seen[at], Passing))
    BY <1>10, <1>12, <1>13, FlattenMore
<1>15. ASSUME Intact' PROVE out' = Take(Newest', job.limit)
  <2>1. \A d \in at .. today : ToSet(Scanned(seen[d])) \subseteq Decodable
    <3>1. \A d \in (at - 1) + 1 .. today : ToSet(Scanned(seen[d])) \subseteq Decodable
        BY <1>1, <1>15, Zenon DEF Intact
    <3>2. (at - 1) + 1 = at
        BY <1>3
    <3>3. QED
        BY <3>1, <3>2
  <2>2. Intact /\ ToSet(Scanned(seen[at])) \subseteq Decodable
      BY <1>3, <2>1 DEF Intact
  <2>3. out = Take(Newest, job.limit) /\ Wanted = job.limit - Len(out) /\ Len(out) < job.limit
      BY <1>2, <1>3, <2>2 DEF Wanted
  <2>a. PICK d \in Lines : d = seen[at]
      BY <1>2, Zenon
  <2>b. PICK L : L = Passing
      OBVIOUS
  <2>c. PICK k \in Nat : k = job.limit
      BY <1>3, Zenon
  <2>d. PICK old \in Seq(Nat) : old = Newest
      BY <1>14, Zenon
  <2>e. PICK new \in Seq(Nat) : new = out
      BY <1>3, Zenon
  <2>f. PICK r : r = result
      OBVIOUS
  <2>4. /\ d = seen[at] /\ L = Passing /\ k = job.limit /\ old = Newest /\ new = out /\ r = result
      BY <2>a, <2>b, <2>c, <2>d, <2>e, <2>f, Zenon
  <2>5. /\ L \subseteq Full /\ ToSet(Scanned(d)) \subseteq Decodable /\ new = Take(old, k) /\ Len(new) < k
        /\ r = Take(NewFirst(d, L), k - Len(new))
      BY <1>2, <2>2, <2>3, <2>4, PassingFull
  <2>6. new \o Decoded(r) = Take(old \o Decoded(NewFirst(d, L)), k)
    <3>1. L \subseteq Full
        BY <2>5
    <3>2. ToSet(Scanned(d)) \subseteq Decodable
        BY <2>5
    <3>3. new = Take(old, k)
        BY <2>5
    <3>4. Len(new) < k
        BY <2>5
    <3>5. r = Take(NewFirst(d, L), k - Len(new))
        BY <2>5
    <3>6. PICK all : all = new \o Decoded(r)
        OBVIOUS
    <3>7. Brings(d, L, k, old, all)
        BY <3>1, <3>2, <3>3, <3>4, <3>5, <3>6, DayAdded
    <3>8. QED
        BY <3>6, <3>7, Zenon DEF Brings
  <2>7. QED
      BY <1>1, <1>14, <2>4, <2>6, Zenon
<1>16. Visited'
    BY <1>1, <1>3, <1>6, <1>15 DEF Visited
<1>17. QED
    BY <1>4, <1>5, <1>16

-----------------------------------------------------------------------------
(* The theorems about it.                                                    *)

\* ScanFile is given the bytes a file has.
LEMMA ScanSees ==
    ASSUME Writer, Seen, ScanFile
    PROVE  Seen'
<1>1. file' = file /\ seen' = [seen EXCEPT ![at] = file[at]] /\ file \in [Days -> Lines]
    BY DEF ScanFile, storeVars, Writer, Lines
<1>2. seen' \in [Days -> Lines]
    BY <1>1 DEF Seen
<1>3. ASSUME NEW d \in Days
      PROVE  /\ Len(seen'[d]) <= Len(file'[d])
             /\ \A i \in 1 .. Len(seen'[d]) : file'[d][i] = seen'[d][i]
  <2>1. CASE d = at
    <3>1. seen'[d] = file[d] /\ file'[d] = file[d]
        BY <1>1, <2>1 DEF Seen
    <3>2. file[d] \in Seq(Nat) /\ Len(file[d]) \in Nat
        BY <1>1, LenProperties DEF Lines
    <3>3. QED
        BY <3>1, <3>2
  <2>2. CASE d # at
    <3>1. seen'[d] = seen[d] /\ file'[d] = file[d]
        BY <1>1, <2>2 DEF Seen
    <3>2. QED
        BY <3>1 DEF Seen
  <2>3. QED
      BY <2>1, <2>2
<1>4. QED
    BY <1>2, <1>3, Zenon DEF Seen

\* A call that fails keeps what it has found.
LEMMA FailKeeps ==
    ASSUME Writer, TailInv, ReadFails
    PROVE  TailInv'
<1>1. pc' = "failed" /\ UNCHANGED <<file, job, today, at, pos, carry, result, out, kept, seen>>
    BY DEF ReadFails, storeVars, callVars, tailVars
<1>2. Called' /\ Tailed'
    BY <1>1 DEF Called, Tailed
<1>3. Seen'
    BY <1>1, SameGrows, SeenGrown DEF TailInv
<1>4. Passing' = Passing
    BY <1>1 DEF Passing
<1>5. Newest' = Newest
    BY <1>1, <1>4, Zenon DEF Newest
<1>6. Intact' = Intact
    BY <1>1, Zenon DEF Intact
<1>7. Visited'
    BY <1>1, <1>5, <1>6 DEF TailInv, Visited
<1>8. QED
    BY <1>2, <1>3, <1>7 DEF TailInv

\* Every step keeps what is known of a call of DecodeTailDays.
LEMMA TailNext == RetentionInv /\ TailInv /\ [Next]_vars => TailInv'
<1>0. SUFFICES ASSUME RetentionInv, TailInv, [Next]_vars PROVE TailInv'
    OBVIOUS
<1>i. Writer /\ Seen /\ Called /\ Tailed /\ Visited
    BY <1>0 DEF RetentionInv, TailInv
<1>1. CASE WriteRecord \/ WriteByte
  <2>1. UNCHANGED <<job, pc, today, at, pos, carry, result, out, kept, seen>>
      BY <1>1 DEF WriteRecord, WriteByte, callVars, tailVars
  <2>2. Seen'
      BY <1>1, <1>i, <2>1, StoreGrows, SeenGrown
  <2>3. QED
      BY <1>i, <2>1, <2>2, CallKept DEF TailInv
<1>2. CASE Crash \/ Tick \/ UNCHANGED vars
  <2>1. UNCHANGED <<file, job, pc, today, at, pos, carry, result, out, kept, seen>>
      BY <1>2 DEF Crash, Tick, vars, storeVars, callVars, tailVars
  <2>2. Seen'
      BY <1>i, <2>1, SameGrows, SeenGrown
  <2>3. QED
      BY <1>i, <2>1, <2>2, CallKept DEF TailInv
<1>3. CASE StartTail
    BY <1>0, <1>3, TailBegins
<1>4. CASE TailOpen
    BY <1>0, <1>4, TailOpens
<1>5. CASE TailChunk
    BY <1>0, <1>5, ChunkKeeps
<1>6. CASE TailDecode
    BY <1>0, <1>6, DecodeKeeps
<1>7. CASE StartSince \/ ScanFile \/ ScanDone \/ StartClean \/ RemoveFails \/ RemoveFile \/ CleanDone
  <2>1. Called' /\ Tailed' /\ Visited'
      BY <1>0, <1>7, OthersCall
  <2>2. CASE ScanFile
      BY <1>i, <2>1, <2>2, ScanSees DEF TailInv
  <2>3. CASE ~ScanFile
    <3>1. UNCHANGED <<file, seen>>
        BY <1>7, <2>3 DEF StartSince, ScanDone, StartClean, Start, RemoveFails, RemoveFile, CleanDone, storeVars
    <3>2. Seen'
        BY <1>i, <3>1, SameGrows, SeenGrown
    <3>3. QED
        BY <2>1, <3>2 DEF TailInv
  <2>4. QED
      BY <2>2, <2>3
<1>8. CASE ReadFails
    BY <1>0, <1>i, <1>8, FailKeeps
<1>9. QED
    BY <1>0, <1>1, <1>2, <1>3, <1>4, <1>5, <1>6, <1>7, <1>8 DEF Next

\* What a call of DecodeTailDays has read and what it has made of it go together
\* at every step, whatever the Store appends meanwhile.
THEOREM TailInvariant == Spec => []TailInv
<1>1. Init => TailInv
    BY TailInit
<1>2. QED
    BY <1>1, TailNext, RetentionInvariant, PTL DEF Spec

\* tailLines, reading blocks from the end, finds the lines ScanFile finds.
THEOREM TailAgreesWithScan == Spec => []TailIsScan
<1>1. TailInv => TailIsScan
  <2>1. SUFFICES ASSUME TailInv, pc = "chunk", pos = 0 \/ Len(result) >= Wanted
                 PROVE  result = Take(Filter(Reverse(Scanned(seen[at])), Passing), Wanted)
      BY DEF TailIsScan
  <2>2. seen[at] \in Lines /\ result = Take(NewFirst(seen[at], Passing), Wanted)
      BY <2>1, TailResult
  <2>3. Filter(Reverse(Scanned(seen[at])), Passing) = NewFirst(seen[at], Passing)
      BY <2>2, PassingFull, NewestLines
  <2>4. QED
      BY <2>2, <2>3, Zenon
<1>2. QED
    BY <1>1, TailInvariant, PTL

\* DecodeTailDays returns the newest records unless a line does not decode.
THEOREM NewestFound == Spec => []NewestUnlessTorn
<1>1. TailInv => NewestUnlessTorn
  <2>1. SUFFICES ASSUME TailInv, job.kind = "tail", pc = "done", Undecodable = {}
                 PROVE  out = Take(Newest, job.limit)
      BY DEF NewestUnlessTorn
  <2>2. /\ today \in Days /\ at \in -1 .. today
        /\ Intact => out = Take(Newest, job.limit)
      BY <2>1 DEF TailInv, Visited
  <2>3. ASSUME NEW d \in at + 1 .. today PROVE ToSet(Scanned(seen[d])) \subseteq Decodable
    <3>1. d \in 0 .. today
        BY <2>2, DaysAreNumbers
    <3>2. d \in Days
        BY <2>2, <3>1, EarlierDay
    <3>3. ASSUME NEW l \in ToSet(Scanned(seen[d])) PROVE l \in Decodable
      <4>1. \E S \in {ToSet(Scanned(seen[e])) : e \in Days} : l \in S
          BY <3>2, <3>3, Zenon
      <4>2. l \in UNION {ToSet(Scanned(seen[e])) : e \in Days}
          BY <4>1, Zenon
      <4>3. PICK U : U = UNION {ToSet(Scanned(seen[e])) : e \in Days}
          OBVIOUS
      <4>4. U \ Decodable = {}
          BY <2>1, <4>3, Zenon DEF Undecodable
      <4>5. QED
          BY <4>2, <4>3, <4>4
    <3>4. QED
        BY <3>3, Zenon
  <2>4. QED
      BY <2>2, <2>3, Zenon DEF Intact
<1>2. QED
    BY <1>1, TailInvariant, PTL

-----------------------------------------------------------------------------
(* The members of a sequence and the order of them.                          *)

\* The members of a sequence, one more.
LEMMA SetAppend ==
    ASSUME NEW S, NEW s \in Seq(S), NEW e \in S
    PROVE  ToSet(Append(s, e)) = ToSet(s) \cup {e}
<1>1. PICK N \in Nat, t \in Seq(S) :
        /\ N = Len(s) /\ t = Append(s, e) /\ Len(t) = N + 1
        /\ \A n \in 1 .. N : t[n] = s[n]
        /\ t[N + 1] = e
  <2>1. /\ Append(s, e) \in Seq(S) /\ Len(Append(s, e)) = Len(s) + 1 /\ Len(s) \in Nat
        /\ \A n \in 1 .. Len(s) : Append(s, e)[n] = s[n]
        /\ Append(s, e)[Len(s) + 1] = e
      BY LenProperties, AppendProperties
  <2>2. QED
      BY <2>1, Zenon
<1>2. DOMAIN s = 1 .. N /\ DOMAIN t = 1 .. N + 1
    BY <1>1, LenProperties
<1>3. ToSet(t) = ToSet(s) \cup {e}
    BY <1>1, <1>2 DEF ToSet
<1>4. QED
    BY <1>1, <1>3, Zenon

\* The members of a sequence are in its set.
LEMMA SetType ==
    ASSUME NEW S, NEW s \in Seq(S)
    PROVE  ToSet(s) \subseteq S /\ ToSet(s) = {s[i] : i \in 1 .. Len(s)}
<1>1. DOMAIN s = 1 .. Len(s) /\ \A i \in 1 .. Len(s) : s[i] \in S
    BY LenProperties, ElementOfSeq
<1>2. QED
    BY <1>1 DEF ToSet

\* The empty sequence has no member.
LEMMA SetEmpty == ToSet(<<>>) = {}
    BY DEF ToSet

\* What Filter keeps.
LEMMA FilterMembers ==
    ASSUME NEW S, NEW L, NEW s \in Seq(S)
    PROVE  ToSet(Filter(s, L)) = ToSet(s) \cap L
<1> DEFINE P == {t \in Seq(S) : ToSet(Filter(t, L)) = ToSet(t) \cap L}
<1>1. <<>> \in P
    BY EmptySeq, FilterEmpty, SetEmpty
<1>2. ASSUME NEW t \in Seq(S), NEW e \in S, t \in P PROVE Append(t, e) \in P
  <2>1. Append(t, e) \in Seq(S)
      BY AppendProperties
  <2>2. PICK f \in Seq(S) : f = Filter(t, L)
      BY FilterType
  <2>3. ToSet(f) = ToSet(t) \cap L
      BY <1>2, <2>2
  <2>4. ToSet(Append(t, e)) = ToSet(t) \cup {e} /\ ToSet(Append(f, e)) = ToSet(f) \cup {e}
      BY SetAppend
  <2> HIDE DEF P
  <2>5. CASE e \in L
    <3>1. Filter(Append(t, e), L) = Append(f, e)
        BY <2>2, <2>5, FilterIn
    <3>2. ToSet(Filter(Append(t, e), L)) = ToSet(Append(t, e)) \cap L
        BY <2>3, <2>4, <2>5, <3>1
    <3>3. QED
        BY <2>1, <3>2 DEF P
  <2>6. CASE e \notin L
    <3>1. Filter(Append(t, e), L) = f
        BY <2>2, <2>6, FilterOut
    <3>2. ToSet(Filter(Append(t, e), L)) = ToSet(Append(t, e)) \cap L
        BY <2>3, <2>4, <2>6, <3>1
    <3>3. QED
        BY <2>1, <3>2 DEF P
  <2>7. QED
      BY <2>5, <2>6
<1> HIDE DEF P
<1>3. Seq(S) \subseteq P
    BY <1>1, <1>2, SeqSteps
<1>4. QED
    BY <1>3 DEF P

\* Filter makes nothing longer.
LEMMA FilterShort ==
    ASSUME NEW S, NEW L, NEW s \in Seq(S)
    PROVE  Len(Filter(s, L)) <= Len(s)
<1> DEFINE P == {t \in Seq(S) : Len(Filter(t, L)) <= Len(t)}
<1>1. <<>> \in P
    BY EmptySeq, FilterEmpty
<1>2. ASSUME NEW t \in Seq(S), NEW e \in S, t \in P PROVE Append(t, e) \in P
  <2>1. Append(t, e) \in Seq(S) /\ Len(Append(t, e)) = Len(t) + 1 /\ Len(t) \in Nat
      BY AppendProperties, LenProperties
  <2>2. PICK f \in Seq(S) : f = Filter(t, L)
      BY FilterType
  <2>3. Len(f) <= Len(t)
      BY <1>2, <2>2
  <2>4. Len(Append(f, e)) = Len(f) + 1 /\ Len(f) \in Nat
      BY AppendProperties, LenProperties
  <2> HIDE DEF P
  <2>5. CASE e \in L
    <3>1. Filter(Append(t, e), L) = Append(f, e)
        BY <2>2, <2>5, FilterIn
    <3>2. QED
        BY <2>1, <2>3, <2>4, <3>1 DEF P
  <2>6. CASE e \notin L
    <3>1. Filter(Append(t, e), L) = f
        BY <2>2, <2>6, FilterOut
    <3>2. QED
        BY <2>1, <2>3, <2>4, <3>1 DEF P
  <2>7. QED
      BY <2>5, <2>6
<1> HIDE DEF P
<1>3. Seq(S) \subseteq P
    BY <1>1, <1>2, SeqSteps
<1>4. QED
    BY <1>3 DEF P

\* Every member of s is related by R to every later one.
Pairwise(s, R) == \A j \in 1 .. Len(s) : \A i \in 1 .. j - 1 : <<s[i], s[j]>> \in R

\* One more member.
LEMMA PairwiseAppend ==
    ASSUME NEW S, NEW R, NEW s \in Seq(S), NEW e \in S
    PROVE  Pairwise(Append(s, e), R) <=> Pairwise(s, R) /\ \A x \in ToSet(s) : <<x, e>> \in R
<1>1. PICK N \in Nat, t \in Seq(S) :
        /\ N = Len(s) /\ t = Append(s, e) /\ Len(t) = N + 1
        /\ \A n \in 1 .. N : t[n] = s[n]
        /\ t[N + 1] = e
  <2>1. /\ Append(s, e) \in Seq(S) /\ Len(Append(s, e)) = Len(s) + 1 /\ Len(s) \in Nat
        /\ \A n \in 1 .. Len(s) : Append(s, e)[n] = s[n]
        /\ Append(s, e)[Len(s) + 1] = e
      BY LenProperties, AppendProperties
  <2>2. QED
      BY <2>1, Zenon
<1>2. ToSet(s) = {s[i] : i \in 1 .. N}
    BY <1>1, SetType
<1>3. ASSUME Pairwise(t, R) PROVE Pairwise(s, R) /\ \A x \in ToSet(s) : <<x, e>> \in R
  <2>1. \A i \in 1 .. N : <<t[i], t[N + 1]>> \in R
      BY <1>1, <1>3 DEF Pairwise
  <2>2. \A i \in 1 .. N : <<s[i], e>> \in R
      BY <1>1, <2>1
  <2>3. \A j \in 1 .. N : \A i \in 1 .. j - 1 : <<t[i], t[j]>> \in R
      BY <1>1, <1>3 DEF Pairwise
  <2>4. \A j \in 1 .. N : \A i \in 1 .. j - 1 : <<s[i], s[j]>> \in R
      BY <1>1, <2>3
  <2>5. QED
      BY <1>1, <1>2, <2>2, <2>4, Zenon DEF Pairwise
<1>4. ASSUME Pairwise(s, R), \A x \in ToSet(s) : <<x, e>> \in R PROVE Pairwise(t, R)
  <2>1. \A i \in 1 .. N : <<s[i], e>> \in R
      BY <1>2, <1>4
  <2>2. ASSUME NEW j \in 1 .. N + 1, NEW i \in 1 .. j - 1 PROVE <<t[i], t[j]>> \in R
    <3>1. CASE j = N + 1
        BY <1>1, <2>1, <3>1
    <3>2. CASE j # N + 1
      <4>1. j \in 1 .. N /\ i \in 1 .. N
          BY <3>2
      <4>2. <<s[i], s[j]>> \in R
          BY <1>1, <1>4, <4>1 DEF Pairwise
      <4>3. QED
          BY <1>1, <4>1, <4>2
    <3>3. QED
        BY <3>1, <3>2
  <2>3. QED
      BY <1>1, <2>2 DEF Pairwise
<1>5. QED
    BY <1>1, <1>3, <1>4, Zenon

\* Filter keeps the order.
LEMMA FilterPairwise ==
    ASSUME NEW S, NEW L, NEW R, NEW s \in Seq(S)
    PROVE  Pairwise(s, R) => Pairwise(Filter(s, L), R)
<1> DEFINE P == {t \in Seq(S) : Pairwise(t, R) => Pairwise(Filter(t, L), R)}
<1>1. <<>> \in P
    BY EmptySeq, FilterEmpty
<1>2. ASSUME NEW t \in Seq(S), NEW e \in S, t \in P PROVE Append(t, e) \in P
  <2>1. Append(t, e) \in Seq(S)
      BY AppendProperties
  <2>2. PICK f \in Seq(S) : f = Filter(t, L)
      BY FilterType
  <2>3. Pairwise(t, R) => Pairwise(f, R)
      BY <1>2, <2>2
  <2>4. ToSet(f) \subseteq ToSet(t)
      BY <2>2, FilterMembers
  <2>5. Pairwise(Append(t, e), R) <=> Pairwise(t, R) /\ \A x \in ToSet(t) : <<x, e>> \in R
      BY PairwiseAppend
  <2>6. Pairwise(Append(f, e), R) <=> Pairwise(f, R) /\ \A x \in ToSet(f) : <<x, e>> \in R
      BY PairwiseAppend
  <2> HIDE DEF P
  <2>7. Filter(Append(t, e), L) = Append(f, e) \/ Filter(Append(t, e), L) = f
    <3>1. CASE e \in L
        BY <2>2, <3>1, FilterIn
    <3>2. CASE e \notin L
        BY <2>2, <3>2, FilterOut
    <3>3. QED
        BY <3>1, <3>2
  <2>8. Pairwise(Append(t, e), R) => Pairwise(Filter(Append(t, e), L), R)
      BY <2>3, <2>4, <2>5, <2>6, <2>7, Zenon
  <2>9. QED
      BY <2>1, <2>8 DEF P
<1> HIDE DEF P
<1>3. Seq(S) \subseteq P
    BY <1>1, <1>2, SeqSteps
<1>4. QED
    BY <1>3 DEF P

-----------------------------------------------------------------------------
(* The records of a file rise from line to line.                             *)

\* One member in front.
LEMMA InFront ==
    ASSUME NEW S, NEW s \in Seq(S), NEW e \in S
    PROVE  /\ Len(<<e>> \o s) = Len(s) + 1 /\ (<<e>> \o s)[1] = e
           /\ \A i \in 2 .. Len(s) + 1 : (<<e>> \o s)[i] = s[i - 1]
<1>1. <<e>> \in Seq(S) /\ Len(<<e>>) = 1 /\ <<e>>[1] = e
    OBVIOUS
<1>2. PICK o \in Seq(S) : o = <<e>>
    BY <1>1
<1>3. PICK N \in Nat : N = Len(s)
    BY LenProperties
<1>4. /\ Len(o \o s) = 1 + N
      /\ \A i \in 1 .. 1 + N : (o \o s)[i] = IF i <= 1 THEN o[i] ELSE s[i - 1]
    BY <1>1, <1>2, <1>3, ConcatProperties
<1>5. (o \o s)[1] = e /\ \A i \in 2 .. N + 1 : (o \o s)[i] = s[i - 1]
    BY <1>1, <1>2, <1>3, <1>4
<1>6. 1 + N = N + 1
    OBVIOUS
<1>7. QED
    BY <1>2, <1>3, <1>4, <1>5, <1>6, Zenon

\* A newline begins a line.
LEMMA FedNewline ==
    ASSUME NEW ll \in Seq(Lines), NEW b, b = Newline
    PROVE  /\ Len(Fed(ll, b)) = Len(ll) + 1 /\ Fed(ll, b)[1] = NoLine
           /\ \A i \in 2 .. Len(ll) + 1 : Fed(ll, b)[i] = ll[i - 1]
<1>1. PICK e \in Lines : e = NoLine
  <2>1. NoLine \in Lines
      BY DEF NoLine, Lines
  <2>2. QED
      BY <2>1, Zenon
<1>2. /\ Len(<<e>> \o ll) = Len(ll) + 1 /\ (<<e>> \o ll)[1] = e
      /\ \A i \in 2 .. Len(ll) + 1 : (<<e>> \o ll)[i] = ll[i - 1]
    BY InFront
<1>3. Fed(ll, b) = <<e>> \o ll
    BY <1>1, Zenon DEF Fed
<1>4. QED
    BY <1>1, <1>2, <1>3, Zenon

\* Any other byte goes to the line begun last.
LEMMA FedByte ==
    ASSUME NEW ll \in Seq(Lines), ll # <<>>, NEW b \in Nat, b # Newline
    PROVE  /\ Len(Fed(ll, b)) = Len(ll) /\ Fed(ll, b)[1] = Append(ll[1], b)
           /\ \A i \in 2 .. Len(ll) : Fed(ll, b)[i] = ll[i]
<1>1. PICK l : l = Append(ll[1], b)
    OBVIOUS
<1>2. Fed(ll, b) = [ll EXCEPT ![1] = l]
    BY <1>1, Zenon DEF Fed
<1>3. Len(ll) \in Nat /\ 1 \in 1 .. Len(ll) /\ DOMAIN ll = 1 .. Len(ll)
    BY EmptySeq, LenProperties
<1>4. ll[1] \in Lines
    BY <1>3, ElementOfSeq
<1>5. l \in Lines
    BY <1>1, <1>4, AppendProperties DEF Lines
<1>6. PICK t : t = [ll EXCEPT ![1] = l] /\ t \in Seq(Lines) /\ Len(t) = Len(ll)
  <2>1. [ll EXCEPT ![1] = l] \in Seq(Lines) /\ Len([ll EXCEPT ![1] = l]) = Len(ll)
      BY <1>3, <1>5, ExceptSeq
  <2>2. QED
      BY <2>1, Zenon
<1>7. t[1] = l /\ \A i \in 2 .. Len(ll) : t[i] = ll[i]
    BY <1>3, <1>6
<1>8. QED
    BY <1>1, <1>2, <1>6, <1>7, Zenon

\* The records that have a byte in some of the lines.
Held(ll) == UNION {ToSet(ll[i]) : i \in 1 .. Len(ll)}

\* A record in a line, the newest line first, comes after those of every earlier
\* line, and is one of the first m.
Rising(ll, m) ==
    /\ ll \in Seq(Lines) /\ ll # <<>>
    /\ \A i \in 1 .. Len(ll) : \A a \in ToSet(ll[i]) : a \in 1 .. m
    /\ \A i \in 1 .. Len(ll) : \A j \in i + 1 .. Len(ll) :
         \A a \in ToSet(ll[i]), b \in ToSet(ll[j]) : b < a

\* Record m is in the last line only.
Closed(ll, m) == \A i \in 2 .. Len(ll) : \A a \in ToSet(ll[i]) : a < m

\* A newline.
LEMMA RisingNewline ==
    ASSUME NEW ll, NEW m \in Nat, Rising(ll, m), NEW b, b = Newline
    PROVE  Rising(Fed(ll, b), m) /\ Held(Fed(ll, b)) = Held(ll)
<1>1. PICK N \in Nat, t \in {Fed(ll, b)} : /\ N = Len(ll) /\ Len(t) = N + 1 /\ t[1] = NoLine
                                       /\ \A i \in 2 .. N + 1 : t[i] = ll[i - 1]
  <2>1. ll \in Seq(Lines)
      BY DEF Rising
  <2>2. /\ Len(Fed(ll, b)) = Len(ll) + 1 /\ Fed(ll, b)[1] = NoLine
        /\ \A i \in 2 .. Len(ll) + 1 : Fed(ll, b)[i] = ll[i - 1]
      BY <2>1, FedNewline
  <2>3. Len(ll) \in Nat
      BY <2>1, LenProperties
  <2>4. QED
      BY <2>2, <2>3, Zenon
<1>2. ToSet(t[1]) = {}
    BY <1>1, SetEmpty DEF NoLine
<1>3. t \in Seq(Lines) /\ t # <<>>
  <2>1. Fed(ll, b) \in Seq(Lines)
      BY FedType DEF Rising, Newline
  <2>2. QED
      BY <1>1, <2>1, EmptySeq
<1>4. \A i \in 2 .. N + 1 : i - 1 \in 1 .. N /\ ToSet(t[i]) = ToSet(ll[i - 1])
    BY <1>1
<1>5. ASSUME NEW i \in 1 .. N + 1, NEW a \in ToSet(t[i]) PROVE a \in 1 .. m /\ i # 1
  <2>1. i # 1
      BY <1>2, <1>5
  <2>2. i \in 2 .. N + 1
      BY <2>1
  <2>3. QED
      BY <1>1, <1>4, <1>5, <2>1, <2>2 DEF Rising
<1>6. ASSUME NEW i \in 1 .. N + 1, NEW j \in i + 1 .. N + 1, NEW a \in ToSet(t[i]), NEW c \in ToSet(t[j])
      PROVE  c < a
  <2>1. i # 1
      BY <1>5
  <2>2. i \in 2 .. N + 1 /\ j \in 2 .. N + 1 /\ i - 1 \in 1 .. N /\ j - 1 \in (i - 1) + 1 .. N
      BY <2>1
  <2>3. a \in ToSet(ll[i - 1]) /\ c \in ToSet(ll[j - 1])
      BY <1>4, <2>2
  <2>4. QED
      BY <1>1, <2>2, <2>3 DEF Rising
<1>7. Rising(t, m)
    BY <1>1, <1>3, <1>5, <1>6 DEF Rising
<1>8. ASSUME NEW a PROVE a \in Held(t) <=> a \in Held(ll)
  <2>1. a \in Held(t) <=> \E i \in 1 .. N + 1 : a \in ToSet(t[i])
      BY <1>1 DEF Held
  <2>2. a \in Held(ll) <=> \E i \in 1 .. N : a \in ToSet(ll[i])
      BY <1>1 DEF Held
  <2>3. ASSUME NEW i \in 1 .. N + 1, a \in ToSet(t[i]) PROVE \E k \in 1 .. N : a \in ToSet(ll[k])
    <3>1. i # 1
        BY <1>2, <2>3
    <3>2. i \in 2 .. N + 1
        BY <3>1
    <3>3. QED
        BY <1>4, <2>3, <3>2
  <2>4. ASSUME NEW i \in 1 .. N, a \in ToSet(ll[i]) PROVE \E k \in 1 .. N + 1 : a \in ToSet(t[k])
    <3>1. i + 1 \in 2 .. N + 1 /\ i + 1 \in 1 .. N + 1 /\ (i + 1) - 1 = i
        OBVIOUS
    <3>2. ToSet(t[i + 1]) = ToSet(ll[i])
        BY <1>4, <3>1
    <3>3. QED
        BY <2>4, <3>1, <3>2
  <2>5. QED
      BY <2>1, <2>2, <2>3, <2>4, Zenon
<1>9. QED
    BY <1>1, <1>7, <1>8

\* A byte of the newest record.
LEMMA RisingByte ==
    ASSUME NEW ll, NEW m \in Nat, Rising(ll, m), NEW b \in Nat \ {0}, m <= b, Closed(ll, b)
    PROVE  /\ Rising(Fed(ll, b), b) /\ Closed(Fed(ll, b), b)
           /\ Held(Fed(ll, b)) = Held(ll) \cup {b}
<1>1. ll \in Seq(Lines) /\ ll # <<>> /\ b # Newline
    BY DEF Rising, Newline
<1>2. PICK N \in Nat, t \in {Fed(ll, b)} : /\ N = Len(ll) /\ Len(t) = N /\ t[1] = Append(ll[1], b)
                                       /\ \A i \in 2 .. N : t[i] = ll[i]
  <2>1. /\ Len(Fed(ll, b)) = Len(ll) /\ Fed(ll, b)[1] = Append(ll[1], b)
        /\ \A i \in 2 .. Len(ll) : Fed(ll, b)[i] = ll[i]
      BY <1>1, FedByte
  <2>2. Len(ll) \in Nat
      BY <1>1, LenProperties
  <2>3. QED
      BY <2>1, <2>2, Zenon
<1>3. t \in Seq(Lines) /\ N # 0 /\ t # <<>>
    BY <1>1, <1>2, FedType, EmptySeq
<1>4. ToSet(t[1]) = ToSet(ll[1]) \cup {b}
  <2>1. PICK l \in Seq(Nat) : l = ll[1]
      BY <1>1, <1>2, <1>3, ElementOfSeq DEF Lines
  <2>2. ToSet(Append(l, b)) = ToSet(l) \cup {b}
      BY SetAppend
  <2>3. QED
      BY <1>2, <2>1, <2>2, Zenon
<1>5. /\ \A i \in 1 .. N : \A a \in ToSet(ll[i]) : a \in 1 .. m
      /\ \A i \in 1 .. N : \A j \in i + 1 .. N : \A a \in ToSet(ll[i]), c \in ToSet(ll[j]) : c < a
      /\ \A i \in 2 .. N : \A a \in ToSet(ll[i]) : a < b
    BY <1>2, Zenon DEF Rising, Closed
<1>6. \A i \in 1 .. N : \A a \in ToSet(t[i]) : a \in ToSet(ll[i]) \/ (i = 1 /\ a = b)
  <2> TAKE i \in 1 .. N
  <2>1. CASE i = 1
      BY <1>4, <2>1
  <2>2. CASE i # 1
    <3>1. i \in 2 .. N
        BY <2>2
    <3>2. QED
        BY <1>2, <3>1
  <2>3. QED
      BY <2>1, <2>2
<1>7. \A i \in 1 .. N : \A a \in ToSet(t[i]) : a \in 1 .. b
    BY <1>5, <1>6
<1>8. ASSUME NEW i \in 1 .. N, NEW j \in i + 1 .. N, NEW a \in ToSet(t[i]), NEW c \in ToSet(t[j])
      PROVE  c < a
  <2>1. j \in 1 .. N /\ j \in 2 .. N /\ j # 1
      OBVIOUS
  <2>2. c \in ToSet(ll[j])
      BY <1>6, <2>1
  <2>3. CASE a \in ToSet(ll[i])
      BY <1>5, <2>2, <2>3
  <2>4. CASE i = 1 /\ a = b
      BY <1>5, <2>1, <2>2, <2>4
  <2>5. QED
      BY <1>6, <2>3, <2>4
<1>9. Rising(t, b)
    BY <1>2, <1>3, <1>7, <1>8 DEF Rising
<1>10. Closed(t, b)
    BY <1>2, <1>5 DEF Closed
<1>11. ASSUME NEW a PROVE a \in Held(t) <=> a \in Held(ll) \cup {b}
  <2>1. a \in Held(t) <=> \E i \in 1 .. N : a \in ToSet(t[i])
      BY <1>2 DEF Held
  <2>2. a \in Held(ll) <=> \E i \in 1 .. N : a \in ToSet(ll[i])
      BY <1>2 DEF Held
  <2>3. \A i \in 1 .. N : ToSet(ll[i]) \subseteq ToSet(t[i])
    <3> TAKE i \in 1 .. N
    <3>1. CASE i = 1
        BY <1>4, <3>1
    <3>2. CASE i # 1
      <4>1. i \in 2 .. N
          BY <3>2
      <4>2. QED
          BY <1>2, <4>1
    <3>3. QED
        BY <3>1, <3>2
  <2>4. 1 \in 1 .. N /\ b \in ToSet(t[1])
      BY <1>3, <1>4
  <2>5. QED
      BY <1>6, <2>1, <2>2, <2>3, <2>4
<1>12. QED
    BY <1>2, <1>9, <1>10, <1>11

\* More records.
LEMMA RisingMore ==
    ASSUME NEW ll, NEW m \in Nat, Rising(ll, m), NEW b \in Nat, m <= b
    PROVE  Rising(ll, b) /\ (m < b => Closed(ll, b)) /\ \A a \in Held(ll) : a \in 1 .. m
<1>1. /\ ll \in Seq(Lines) /\ ll # <<>>
      /\ \A i \in 1 .. Len(ll) : \A a \in ToSet(ll[i]) : a \in 1 .. m
      /\ \A i \in 1 .. Len(ll) : \A j \in i + 1 .. Len(ll) :
           \A a \in ToSet(ll[i]), c \in ToSet(ll[j]) : c < a
    BY Zenon DEF Rising
<1>2. \A i \in 1 .. Len(ll) : \A a \in ToSet(ll[i]) : a \in 1 .. b /\ (m < b => a < b)
  <2>1. \A a \in 1 .. m : a \in 1 .. b /\ (m < b => a < b)
      OBVIOUS
  <2>2. QED
      BY <1>1, <2>1, Zenon
<1>3. Rising(ll, b)
    BY <1>1, <1>2 DEF Rising
<1>4. m < b => Closed(ll, b)
  <2>1. \A i \in 2 .. Len(ll) : i \in 1 .. Len(ll)
      BY <1>1, LenProperties
  <2>2. QED
      BY <1>2, <2>1 DEF Closed
<1>5. \A a \in Held(ll) : a \in 1 .. m
    BY <1>1 DEF Held
<1>6. QED
    BY <1>3, <1>4, <1>5

-----------------------------------------------------------------------------
(* The files of the Store: records are in the order of writing, within a file *)
(* and from day to day.                                                      *)

\* The lines of a file, the newest first, empty ones and the one begun last included.
Made(u) == LinesAfter(<<Newline>> \o u)

\* The records in the files are in the order of their writing, from line to line
\* and from day to day, and not filed under a day before their timestamp's; the
\* record being written is the newest and in the last line of its file.
Ordered ==
    /\ ts \in [Recs -> Nat] /\ rec <= MaxRec /\ wday <= Day(clock)
    /\ \A d \in Days : d > wday => file[d] = <<>>
    /\ \A d \in Days : Rising(Made(file[d]), rec)
    /\ \A d \in Days : \A a \in Held(Made(file[d])) : Day(ts[a]) <= d
    /\ \A d, e \in Days : d < e => \A a \in Held(Made(file[d])), b \in Held(Made(file[e])) : a < b
    /\ wpos # 0 => rec \in Held(Made(file[wday])) /\ Closed(Made(file[wday]), rec)

\* One byte more.
LEMMA MadeAppend ==
    ASSUME NEW u \in Lines, NEW b \in Nat
    PROVE  Made(u) \in Seq(Lines) /\ Made(Append(u, b)) = Fed(Made(u), b)
<1>1. <<Newline>> \in Lines
    BY LinesType
<1>2. PICK n \in Lines : n = <<Newline>>
    BY <1>1, Zenon
<1>3. n \o Append(u, b) = Append(n \o u, b)
    BY ConcatAppend DEF Lines
<1>4. PICK v \in Lines : v = n \o u
    BY ConcatProperties DEF Lines
<1>5. LinesAfter(v) \in Seq(Lines) /\ LinesAfter(Append(v, b)) = Fed(LinesAfter(v), b)
    BY LinesAppend
<1>6. QED
    BY <1>2, <1>3, <1>4, <1>5, Zenon DEF Made

\* An empty file.
LEMMA MadeEmpty ==
    ASSUME NEW m \in Nat
    PROVE  Rising(Made(<<>>), m) /\ Held(Made(<<>>)) = {}
<1>1. PICK e \in Lines : e = <<>>
  <2>1. <<>> \in Lines
      BY DEF Lines
  <2>2. QED
      BY <2>1, Zenon
<1>2. Made(e) = <<e>>
  <2>1. LinesAfter(e) = <<>>
      BY <1>1, LinesEmpty
  <2>2. LinesAfter(<<Newline>> \o e) = <<e>>
      BY <2>1, OneLine
  <2>3. QED
      BY <2>2, Zenon DEF Made
<1>3. PICK o : o = <<e>>
    OBVIOUS
<1>4. o \in Seq(Lines) /\ Len(o) = 1 /\ o[1] = e
    BY <1>3
<1>5. ToSet(o[1]) = {}
    BY <1>1, <1>4, SetEmpty
<1>6. \A i \in 1 .. Len(o) : ToSet(o[i]) = {}
    BY <1>4, <1>5
<1>7. o # <<>>
    BY <1>4, EmptySeq
<1>8. Rising(o, m) /\ Held(o) = {}
    BY <1>4, <1>6, <1>7 DEF Rising, Held
<1>9. QED
    BY <1>1, <1>2, <1>3, <1>8, Zenon

\* The files are in order at the start.
LEMMA OrderInit == Init => Ordered
<1>0. SUFFICES ASSUME Init PROVE Ordered
    OBVIOUS
<1>1. /\ ts = [r \in Recs |-> 0] /\ rec = 0 /\ wday = 0 /\ clock = 0 /\ wpos = 0
      /\ file = [d \in Days |-> <<>>]
    BY <1>0 DEF Init
<1>2. Day(0) \in Nat
    BY DayOfClock, DaysAreNumbers, ReaderAssumption
<1>3. \A d \in Days : file[d] = <<>>
    BY <1>1
<1>4. \A d \in Days : Rising(Made(file[d]), 0) /\ Held(Made(file[d])) = {}
  <2>1. Rising(Made(<<>>), 0) /\ Held(Made(<<>>)) = {}
      BY MadeEmpty
  <2>2. QED
      BY <1>3, <2>1, Zenon
<1>5. 0 <= MaxRec /\ 0 <= Day(0)
    BY <1>2, ReaderAssumption
<1>6. ts \in [Recs -> Nat]
    BY <1>1
<1>7. QED
    BY <1>1, <1>3, <1>4, <1>5, <1>6, Zenon DEF Ordered

\* A record is begun.
LEMMA OrderBegins ==
    ASSUME Writer, Ordered, WriteRecord
    PROVE  Ordered'
<1>1. /\ rec < MaxRec /\ rec' = rec + 1 /\ wpos' = 1 /\ wday' = Day(clock) /\ clock' = clock
      /\ file' = [file EXCEPT ![Day(clock)] = Append(@, rec + 1)]
    BY DEF WriteRecord
<1>2. PICK t \in {clock - 1, clock} \cap Nat : ts' = [ts EXCEPT ![rec + 1] = t]
    BY DEF WriteRecord
<1>3. PICK e \in Days : e = Day(clock)
    BY DayOfClock DEF Writer
<1>4. rec \in Nat /\ MaxRec \in Nat /\ wday \in Nat /\ e \in Nat /\ wday <= e /\ Days \subseteq Nat
    BY <1>3, DaysAreNumbers, ReaderAssumption DEF Writer, Ordered
<1>5. PICK b \in Nat \ {0} : b = rec + 1
    BY <1>4
<1>6. b \in Recs /\ rec <= b /\ rec < b /\ b <= MaxRec
    BY <1>1, <1>4, <1>5 DEF Recs
<1>7. ts' \in [Recs -> Nat] /\ ts'[b] = t /\ \A a \in Recs : a # b => ts'[a] = ts[a]
    BY <1>2, <1>5, <1>6 DEF Ordered
<1>8. PICK u \in Lines : u = file[e] /\ file'[e] = Append(u, b) /\ \A d \in Days : d # e => file'[d] = file[d]
    BY <1>1, <1>3, <1>5 DEF Writer, Lines
<1>9. \A d \in Days : Rising(Made(file[d]), rec) /\ Rising(Made(file[d]), b)
                      /\ Closed(Made(file[d]), b) /\ \A a \in Held(Made(file[d])) : a \in 1 .. rec
  <2> TAKE d \in Days
  <2>1. Rising(Made(file[d]), rec)
      BY DEF Ordered
  <2>2. QED
      BY <1>4, <1>6, <2>1, RisingMore
<1>10. /\ Rising(Made(file'[e]), b) /\ Closed(Made(file'[e]), b)
       /\ Held(Made(file'[e])) = Held(Made(file[e])) \cup {b}
  <2>1. PICK ll : ll = Made(u)
      OBVIOUS
  <2>2. Rising(ll, rec) /\ Closed(ll, b)
      BY <1>8, <1>9, <2>1, Zenon
  <2>3. Rising(Fed(ll, b), b) /\ Closed(Fed(ll, b), b) /\ Held(Fed(ll, b)) = Held(ll) \cup {b}
      BY <1>4, <1>6, <2>2, RisingByte
  <2>4. Made(Append(u, b)) = Fed(Made(u), b)
      BY MadeAppend
  <2>5. QED
      BY <1>8, <2>1, <2>3, <2>4, Zenon
<1>11. \A d \in Days : Rising(Made(file'[d]), b)
    BY <1>8, <1>9, <1>10, Zenon
<1>12. \A d \in Days : \A a \in Held(Made(file'[d])) : a \in Held(Made(file[d])) \/ (d = e /\ a = b)
    BY <1>8, <1>10
<1>13. Day(t) <= e
  <2>1. CASE t = clock
      BY <1>3, <1>4, <2>1
  <2>2. CASE t = clock - 1
    <3>1. t \in 0 .. MaxTime /\ t + 1 = clock
        BY <2>2, ReaderAssumption DEF Writer
    <3>2. Day(t) <= Day(t + 1)
        BY <3>1, DayGrows
    <3>3. QED
        BY <1>3, <3>1, <3>2
  <2>3. QED
      BY <2>1, <2>2
<1>14. ASSUME NEW d \in Days, NEW a \in Held(Made(file'[d])) PROVE Day(ts'[a]) <= d
  <2>1. CASE d = e /\ a = b
      BY <1>7, <1>13, <2>1
  <2>2. CASE a \in Held(Made(file[d]))
    <3>1. a \in 1 .. rec
        BY <1>9, <2>2
    <3>2. a \in Recs /\ a # b
        BY <1>4, <1>5, <1>6, <3>1 DEF Recs
    <3>3. ts'[a] = ts[a] /\ Day(ts[a]) <= d
        BY <1>7, <2>2, <3>2 DEF Ordered
    <3>4. QED
        BY <3>3
  <2>3. QED
      BY <1>12, <2>1, <2>2
<1>15. ASSUME NEW d \in Days, NEW f \in Days, d < f,
              NEW a \in Held(Made(file'[d])), NEW c \in Held(Made(file'[f]))
       PROVE  a < c
  <2>1. CASE f = e /\ c = b
    <3>1. d # e
        BY <1>4, <1>15, <2>1
    <3>2. a \in 1 .. rec
        BY <1>9, <1>12, <3>1
    <3>3. QED
        BY <1>4, <1>6, <2>1, <3>2
  <2>2. CASE c \in Held(Made(file[f])) /\ a \in Held(Made(file[d]))
      BY <1>15, <2>2 DEF Ordered
  <2>3. CASE c \in Held(Made(file[f])) /\ d = e
    <3>1. f > wday
        BY <1>4, <1>15, <2>3
    <3>2. file[f] = <<>>
        BY <3>1 DEF Ordered
    <3>3. Held(Made(file[f])) = {}
        BY <1>4, <3>2, MadeEmpty
    <3>4. QED
        BY <2>3, <3>3
  <2>4. QED
      BY <1>12, <2>1, <2>2, <2>3
<1>16. \A d \in Days : d > e => file'[d] = <<>>
  <2> SUFFICES ASSUME NEW d \in Days, d > e PROVE file'[d] = <<>>
      OBVIOUS
  <2>1. d > wday /\ d # e
      BY <1>4
  <2>2. QED
      BY <1>8, <2>1 DEF Ordered
<1>17. Day(clock)' = e /\ wday' = e /\ rec' = b /\ e <= e
    BY <1>1, <1>3, <1>4, <1>5 DEF Day
<1>18. b \in Held(Made(file'[e]))
    BY <1>10
<1>19. ts' \in [Recs -> Nat] /\ rec' <= MaxRec /\ wday' <= Day(clock)'
    BY <1>6, <1>7, <1>17
<1>20. QED
    BY <1>10, <1>11, <1>14, <1>15, <1>16, <1>17, <1>18, <1>19, Zenon DEF Ordered

\* Another byte of it.
LEMMA OrderGoesOn ==
    ASSUME Writer, Ordered, WriteByte
    PROVE  Ordered'
<1>1. /\ wpos \in 1 .. 2 /\ wpos' = (wpos + 1) % 3 /\ UNCHANGED <<clock, rec, ts, wday>>
      /\ file' = [file EXCEPT ![wday] = Append(@, Bytes(rec)[wpos + 1])]
    BY DEF WriteByte
<1>2. PICK b \in {rec, Newline} : b = Bytes(rec)[wpos + 1] /\ (wpos' # 0 => b = rec)
    BY <1>1 DEF Bytes
<1>3. rec \in Nat /\ wday \in Days /\ rec \in Held(Made(file[wday])) /\ Closed(Made(file[wday]), rec)
    BY <1>1 DEF Writer, Ordered
<1>4. PICK u \in Lines : u = file[wday] /\ file'[wday] = Append(u, b) /\ \A d \in Days : d # wday => file'[d] = file[d]
    BY <1>1, <1>2, <1>3 DEF Writer, Lines
<1>5. PICK ll : ll = Made(u)
    OBVIOUS
<1>6. Rising(ll, rec) /\ Closed(ll, rec) /\ rec \in Held(ll)
    BY <1>3, <1>4, <1>5 DEF Ordered
<1>7. rec \in Nat \ {0}
    BY <1>3, <1>6, RisingMore
<1>8. Rising(Fed(ll, b), rec) /\ Held(Fed(ll, b)) = Held(ll) /\ (wpos' # 0 => Closed(Fed(ll, b), rec))
  <2>1. CASE b = Newline
    <3>1. wpos' = 0
        BY <1>2, <1>7, <2>1 DEF Newline
    <3>2. QED
        BY <1>3, <1>6, <2>1, <3>1, RisingNewline
  <2>2. CASE b = rec
    <3>1. rec <= rec
        BY <1>3
    <3>2. /\ Rising(Fed(ll, rec), rec) /\ Closed(Fed(ll, rec), rec)
          /\ Held(Fed(ll, rec)) = Held(ll) \cup {rec}
        BY <1>6, <1>7, <3>1, RisingByte
    <3>3. QED
        BY <1>6, <2>2, <3>2
  <2>3. QED
      BY <1>2, <2>1, <2>2
<1>9. Made(file'[wday]) = Fed(ll, b)
  <2>1. b \in Nat
      BY <1>2, <1>3 DEF Newline
  <2>2. Made(Append(u, b)) = Fed(Made(u), b)
      BY <2>1, MadeAppend
  <2>3. QED
      BY <1>4, <1>5, <2>2, Zenon
<1>10. \A d \in Days : Rising(Made(file'[d]), rec) /\ Held(Made(file'[d])) = Held(Made(file[d]))
  <2> TAKE d \in Days
  <2>1. CASE d = wday
      BY <1>4, <1>5, <1>8, <1>9, <2>1, Zenon
  <2>2. CASE d # wday
      BY <1>4, <2>2 DEF Ordered
  <2>3. QED
      BY <2>1, <2>2
<1>11. Day(clock)' = Day(clock)
    BY <1>1 DEF Day
<1>12. \A d \in Days : d > wday => file'[d] = <<>>
  <2> SUFFICES ASSUME NEW d \in Days, d > wday PROVE file'[d] = <<>>
      OBVIOUS
  <2>1. d # wday
      BY <1>3, DaysAreNumbers
  <2>2. QED
      BY <1>4, <2>1 DEF Ordered
<1>13. wpos' # 0 => rec \in Held(Made(file'[wday])) /\ Closed(Made(file'[wday]), rec)
    BY <1>6, <1>8, <1>9, Zenon
<1>14. rec' = rec /\ wday' = wday /\ ts' = ts
    BY <1>1
<1>15. QED
    BY <1>10, <1>11, <1>12, <1>13, <1>14, Zenon DEF Ordered

\* What the Store has no part in.
LEMMA OrderStays ==
    ASSUME Writer, Ordered, UNCHANGED <<file, rec, ts, wday>>, wpos' \in {0, wpos},
           Day(clock) <= Day(clock'), clock' \in 0 .. MaxTime
    PROVE  Ordered'
<1>1. wday <= Day(clock')
  <2>1. Day(clock) \in Nat /\ Day(clock') \in Nat /\ wday \in Nat
      BY DayOfClock, DaysAreNumbers DEF Writer
  <2>2. QED
      BY <2>1 DEF Ordered
<1>2. Day(clock)' = Day(clock')
    BY DEF Day
<1>3. /\ \A d \in Days : d > wday => file'[d] = <<>>
      /\ \A d \in Days : Rising(Made(file'[d]), rec)
      /\ \A d \in Days : \A a \in Held(Made(file'[d])) : Day(ts'[a]) <= d
      /\ \A d, e \in Days : d < e => \A a \in Held(Made(file'[d])), b \in Held(Made(file'[e])) : a < b
      /\ ts' \in [Recs -> Nat] /\ rec' <= MaxRec
    BY Zenon DEF Ordered
<1>4. wpos' # 0 => rec \in Held(Made(file'[wday])) /\ Closed(Made(file'[wday]), rec)
    BY DEF Ordered
<1>5. QED
    BY <1>1, <1>2, <1>3, <1>4, Zenon DEF Ordered

\* Every step keeps the order.
LEMMA OrderNext == RetentionInv /\ Ordered /\ [Next]_vars => Ordered'
<1>0. SUFFICES ASSUME RetentionInv, Ordered, [Next]_vars PROVE Ordered'
    OBVIOUS
<1>1. Writer
    BY <1>0 DEF RetentionInv
<1>2. CASE WriteRecord
    BY <1>0, <1>1, <1>2, OrderBegins
<1>3. CASE WriteByte
    BY <1>0, <1>1, <1>3, OrderGoesOn
<1>4. CASE ~WriteRecord /\ ~WriteByte
  <2>1. UNCHANGED <<file, rec, ts, wday>> /\ wpos' \in {0, wpos}
      BY <1>0, <1>4 DEF Next, Crash, Tick, StartTail, StartSince, StartClean, Start, TailOpen, TailChunk,
           TailDecode, ScanFile, ScanDone, ReadFails, RemoveFails, RemoveFile, CleanDone, vars, storeVars
  <2>2. Day(clock) <= Day(clock') /\ clock' \in 0 .. MaxTime
    <3>1. CASE Tick
        BY <1>1, <3>1, DayGrows, ReaderAssumption DEF Tick, Writer
    <3>2. CASE ~Tick
      <4>1. clock' = clock
          BY <1>0, <1>4, <3>2 DEF Next, Crash, StartTail, StartSince, StartClean, Start, TailOpen, TailChunk,
               TailDecode, ScanFile, ScanDone, ReadFails, RemoveFails, RemoveFile, CleanDone, vars
      <4>2. Day(clock) \in Nat
          BY <1>1, DayOfClock, DaysAreNumbers DEF Writer
      <4>3. QED
          BY <1>1, <4>1, <4>2 DEF Writer
    <3>3. QED
        BY <3>1, <3>2
  <2>3. QED
      BY <1>0, <1>1, <2>1, <2>2, OrderStays
<1>5. QED
    BY <1>2, <1>3, <1>4

\* The files are in order throughout.
THEOREM StoreInOrder == Spec => []Ordered
    BY OrderInit, OrderNext, RetentionInvariant, PTL DEF Spec

-----------------------------------------------------------------------------
(* What a scan finds, and the records a file keeps.                          *)

\* Lines whose records come before those of other lines.
Before == {p \in Lines \X Lines : \A a \in ToSet(p[1]), b \in ToSet(p[2]) : a < b}

\* The lines of a file in the order of the file.
LEMMA MadePairs ==
    ASSUME NEW ll, NEW m, Rising(ll, m)
    PROVE  Pairwise(Reverse(ll), Before)
<1>1. /\ ll \in Seq(Lines)
      /\ \A i \in 1 .. Len(ll) : \A j \in i + 1 .. Len(ll) :
           \A a \in ToSet(ll[i]), b \in ToSet(ll[j]) : b < a
    BY DEF Rising
<1>2. PICK N \in Nat : N = Len(ll)
    BY <1>1, LenProperties
<1>3. PICK r : r = Reverse(ll)
    OBVIOUS
<1>4. Len(r) = N /\ \A i \in 1 .. N : r[i] = ll[N - i + 1]
  <2>1. \A i \in 1 .. N : Reverse(ll)[i] = ll[N - i + 1]
      BY <1>1, <1>2 DEF Reverse
  <2>2. Len(Reverse(ll)) = Len(ll)
      BY <1>1, ReverseType
  <2>3. QED
      BY <1>2, <1>3, <2>1, <2>2
<1>5. ASSUME NEW j \in 1 .. N, NEW i \in 1 .. j - 1 PROVE <<r[i], r[j]>> \in Before
  <2>1. /\ i \in 1 .. N /\ N - j + 1 \in 1 .. N /\ N - i + 1 \in 1 .. N
        /\ N - i + 1 \in (N - j + 1) + 1 .. N
      OBVIOUS
  <2>2. PICK x, y : x = ll[N - i + 1] /\ y = ll[N - j + 1]
      OBVIOUS
  <2>3. x \in Lines /\ y \in Lines
      BY <1>1, <1>2, <2>1, <2>2, ElementOfSeq
  <2>4. \A a \in ToSet(y), b \in ToSet(x) : b < a
      BY <1>1, <1>2, <2>1, <2>2
  <2>5. <<x, y>> \in Before
      BY <2>3, <2>4 DEF Before
  <2>6. r[i] = x /\ r[j] = y
      BY <1>4, <2>1, <2>2
  <2>7. QED
      BY <2>5, <2>6
<1>6. QED
    BY <1>3, <1>4, <1>5 DEF Pairwise

\* Reverse has the same members.
LEMMA ReverseMembers ==
    ASSUME NEW S, NEW s \in Seq(S)
    PROVE  ToSet(Reverse(s)) = ToSet(s)
<1>1. PICK N \in Nat : N = Len(s)
    BY LenProperties
<1>2. PICK r \in Seq(S) : r = Reverse(s) /\ Len(r) = N /\ \A i \in 1 .. N : r[i] = s[N - i + 1]
  <2>1. \A i \in 1 .. N : Reverse(s)[i] = s[N - i + 1]
      BY <1>1 DEF Reverse
  <2>2. QED
      BY <1>1, <2>1, ReverseType
<1>3. ToSet(s) = {s[i] : i \in 1 .. N}
    BY <1>1, SetType
<1>4. ToSet(r) = {r[i] : i \in 1 .. N}
    BY <1>2, SetType
<1>5. \A i \in 1 .. N : N - i + 1 \in 1 .. N /\ r[N - i + 1] = s[i] /\ s[N - i + 1] = r[i]
  <2> TAKE i \in 1 .. N
  <2>1. N - i + 1 \in 1 .. N /\ N - (N - i + 1) + 1 = i
      OBVIOUS
  <2>2. QED
      BY <1>2, <2>1
<1>6. ToSet(r) = ToSet(s)
    BY <1>3, <1>4, <1>5, SMTT(30)
<1>7. QED
    BY <1>2, <1>6

\* The lines ScanFile finds, and their order.
LEMMA ScanOrdered ==
    ASSUME NEW u, NEW m, Rising(Made(u), m)
    PROVE  /\ Scanned(u) \in Seq(Lines) /\ Pairwise(Scanned(u), Before)
           /\ ToSet(Scanned(u)) = ToSet(Made(u)) \cap Full
<1>1. PICK ll \in Seq(Lines) : ll = Made(u)
    BY DEF Rising
<1>2. Pairwise(Reverse(ll), Before)
    BY <1>1, MadePairs
<1>3. PICK r \in Seq(Lines) : r = Reverse(ll) /\ ToSet(r) = ToSet(ll)
    BY ReverseType, ReverseMembers
<1>4. Scanned(u) = Filter(r, Full)
    BY <1>1, <1>3, Zenon DEF Scanned, Made
<1>5. Pairwise(r, Before)
    BY <1>2, <1>3
<1>6. Filter(r, Full) \in Seq(Lines)
    BY FilterType
<1>7. Pairwise(Filter(r, Full), Before)
    BY <1>5, FilterPairwise
<1>8. ToSet(Filter(r, Full)) = ToSet(r) \cap Full
    BY FilterMembers
<1>9. QED
    BY <1>1, <1>3, <1>4, <1>6, <1>7, <1>8, Zenon

\* CleanOlderThan leaves no file beyond the retention but the ones whose removal
\* failed, takes no record stamped within the retention, and never the file of
\* the day when the retention outweighs the offset of time.Local, for every
\* length of a day, retention and offset.
THEOREM RetentionIsSound == Spec => []RetentionSound
<1>1. RetentionInv /\ Ordered => RetentionSound
  <2> SUFFICES ASSUME RetentionInv, Ordered, job.kind = "clean" PROVE RetentionSound
      BY DEF RetentionSound
  <2> USE DEF RetentionInv
  <2>1. ASSUME pc = "done", job.prefixed, NEW d \in Days,
               d + job.retain <= today + job.skew, d < today, file[d] # <<>>
        PROVE  d \in deleted \cup failed
        BY <2>1 DEF Listed
  <2>2. /\ job.retain \in Nat /\ job.skew \in Int /\ today \in Nat /\ today <= Day(clock)
        /\ Days \subseteq Nat /\ Day(clock) \in Nat
        /\ \A d \in deleted : d \in Days /\ d <= today + job.skew - job.retain
        BY DayOfClock, DaysAreNumbers DEF Listed, Writer, Began
  <2>3. ASSUME NEW d \in deleted, NEW l \in ToSet(Scanned(file[d])), NEW r \in ToSet(l)
        PROVE  Day(ts[r]) + job.retain <= today + job.skew
    <3>1. d \in Days /\ Rising(Made(file[d]), rec) /\ rec \in Nat
        BY <2>2 DEF Ordered, Writer
    <3>2. l \in ToSet(Made(file[d]))
        BY <2>3, <3>1, ScanOrdered
    <3>3. PICK i \in 1 .. Len(Made(file[d])) : l = Made(file[d])[i]
        BY <3>1, <3>2, SetType DEF Rising
    <3>4. r \in Held(Made(file[d])) /\ r \in 1 .. rec
        BY <2>3, <3>1, <3>3 DEF Held, Rising
    <3>5. r \in Recs /\ ts[r] \in Nat /\ Day(ts[r]) <= d
      <4>1. r \in Recs
          BY <3>1, <3>4, ReaderAssumption DEF Ordered, Recs
      <4>2. QED
          BY <3>1, <3>4, <4>1 DEF Ordered
    <3>6. Day(ts[r]) \in Nat
        BY <3>5, DayFollows
    <3>7. QED
        BY <2>2, <3>1, <3>5, <3>6
  <2>4. ASSUME job.retain > job.skew, Day(clock) \in deleted
        PROVE  FALSE
      BY <2>2, <2>4
  <2>5. QED BY <2>1, <2>3, <2>4 DEF RetentionSound
<1>2. QED BY <1>1, RetentionInvariant, StoreInOrder, PTL

\* The records decoded of lines in order.
LEMMA DecodedRises ==
    ASSUME NEW ll \in Seq(Lines), Pairwise(ll, Before)
    PROVE  \A j \in 1 .. Len(Decoded(ll)) : \A i \in 1 .. j - 1 : Decoded(ll)[i] < Decoded(ll)[j]
<1>1. PICK good : good = Filter(ll, Decodable)
    OBVIOUS
<1>2. good \in Seq(Lines \cap Decodable) /\ Pairwise(good, Before)
    BY <1>1, FilterInto, FilterPairwise
<1>3. DOMAIN good = 1 .. Len(good) /\ Len(good) \in Nat
    BY <1>2, LenProperties
<1>4. PICK d : d = [k \in 1 .. Len(good) |-> good[k][1]]
    OBVIOUS
<1>5. Decoded(ll) = d
    BY <1>1, <1>3, <1>4, Zenon DEF Decoded
<1>6. Len(d) = Len(good)
    BY <1>3, <1>4
<1>7. \A k \in 1 .. Len(good) : good[k] \in Lines /\ Len(good[k]) = 2
    BY <1>2, ElementOfSeq DEF Decodable
<1>8. \A k \in 1 .. Len(good) : d[k] = good[k][1] /\ d[k] \in ToSet(good[k])
  <2> TAKE k \in 1 .. Len(good)
  <2>1. PICK l \in Seq(Nat) : l = good[k] /\ Len(l) = 2
      BY <1>7 DEF Lines
  <2>2. 1 \in DOMAIN l
      BY <2>1
  <2>3. l[1] \in ToSet(l)
      BY <2>2 DEF ToSet
  <2>4. QED
      BY <1>4, <2>1, <2>3
<1>9. ASSUME NEW j \in 1 .. Len(d), NEW i \in 1 .. j - 1 PROVE d[i] < d[j]
  <2>1. j \in 1 .. Len(good) /\ i \in 1 .. Len(good)
      BY <1>3, <1>6
  <2>2. <<good[i], good[j]>> \in Before
      BY <1>2, <2>1 DEF Pairwise
  <2>3. \A a \in ToSet(good[i]), b \in ToSet(good[j]) : a < b
      BY <2>2 DEF Before
  <2>4. QED
      BY <1>8, <2>1, <2>3
<1>10. QED
    BY <1>5, <1>9

\* The records decoded of some lines.
LEMMA DecodedMembers ==
    ASSUME NEW ll \in Seq(Lines), NEW r
    PROVE  r \in ToSet(Decoded(ll)) <=> \E l \in ToSet(ll) : l \in Decodable /\ l[1] = r
<1>1. PICK good : good = Filter(ll, Decodable)
    OBVIOUS
<1>2. good \in Seq(Lines) /\ ToSet(good) = ToSet(ll) \cap Decodable
    BY <1>1, FilterType, FilterMembers
<1>3. DOMAIN good = 1 .. Len(good) /\ Len(good) \in Nat
    BY <1>2, LenProperties
<1>4. PICK d : d = [k \in 1 .. Len(good) |-> good[k][1]]
    OBVIOUS
<1>5. Decoded(ll) = d
    BY <1>1, <1>3, <1>4, Zenon DEF Decoded
<1>6. ToSet(d) = {good[k][1] : k \in 1 .. Len(good)}
    BY <1>4 DEF ToSet
<1>7. ToSet(good) = {good[k] : k \in 1 .. Len(good)}
    BY <1>2, SetType
<1>8. r \in ToSet(d) <=> \E l \in ToSet(good) : l[1] = r
    BY <1>6, <1>7
<1>9. QED
    BY <1>2, <1>5, <1>8

\* The records a file has with their newline.
WholeIn(u) == ToSet(Decoded(Tail(Made(u))))

\* They are lines of the file, other than the one begun last.
LEMMA WholeLines ==
    ASSUME NEW u \in Lines, Made(u) # <<>>, NEW r
    PROVE  r \in WholeIn(u) <=> \E i \in 2 .. Len(Made(u)) : Made(u)[i] \in Decodable /\ Made(u)[i][1] = r
<1>1. Made(u) \in Seq(Lines)
    BY MadeAppend
<1>2. PICK ll \in Seq(Lines) : ll = Made(u) /\ ll # <<>>
    BY <1>1
<1>3. PICK N \in Nat : N = Len(ll)
    BY LenProperties
<1>4. PICK t \in Seq(Lines) : t = Tail(ll) /\ Len(t) = N - 1 /\ \A i \in 1 .. N - 1 : t[i] = ll[i + 1]
  <2>1. Tail(ll) \in Seq(Lines) /\ Len(Tail(ll)) = Len(ll) - 1 /\ \A i \in 1 .. Len(Tail(ll)) : Tail(ll)[i] = ll[i + 1]
      BY <1>2, HeadTailProperties
  <2>2. QED
      BY <1>3, <2>1, Zenon
<1>5. ToSet(t) = {t[i] : i \in 1 .. N - 1}
  <2>1. ToSet(t) = {t[i] : i \in 1 .. Len(t)}
      BY SetType
  <2>2. QED
      BY <1>4, <2>1, Zenon
<1>6. r \in ToSet(Decoded(t)) <=> \E l \in ToSet(t) : l \in Decodable /\ l[1] = r
    BY DecodedMembers
<1>7. (\E l \in ToSet(t) : l \in Decodable /\ l[1] = r) <=>
      \E i \in 1 .. N - 1 : t[i] \in Decodable /\ t[i][1] = r
    BY <1>5
<1>8. ASSUME NEW i \in 1 .. N - 1, t[i] \in Decodable, t[i][1] = r
      PROVE  \E k \in 2 .. N : ll[k] \in Decodable /\ ll[k][1] = r
  <2>1. i + 1 \in 2 .. N /\ t[i] = ll[i + 1]
      BY <1>4
  <2>2. QED
      BY <1>8, <2>1
<1>9. ASSUME NEW k \in 2 .. N, ll[k] \in Decodable, ll[k][1] = r
      PROVE  \E i \in 1 .. N - 1 : t[i] \in Decodable /\ t[i][1] = r
  <2>1. k - 1 \in 1 .. N - 1 /\ (k - 1) + 1 = k
      OBVIOUS
  <2>2. t[k - 1] = ll[k]
      BY <1>4, <2>1
  <2>3. QED
      BY <1>9, <2>1, <2>2
<1>10. QED
    BY <1>2, <1>3, <1>4, <1>6, <1>7, <1>8, <1>9, Zenon DEF WholeIn

\* Lines stay lines when a byte is added.
LEMMA FedKeeps ==
    ASSUME NEW ll \in Seq(Lines), ll # <<>>, NEW b \in Nat
    PROVE  /\ Fed(ll, b) # <<>>
           /\ \A i \in 1 .. Len(ll) : \E k \in 1 .. Len(Fed(ll, b)) : ToSet(ll[i]) \subseteq ToSet(Fed(ll, b)[k])
           /\ \A i \in 2 .. Len(ll) : \E k \in 2 .. Len(Fed(ll, b)) : Fed(ll, b)[k] = ll[i]
<1>1. PICK N \in Nat \ {0} : N = Len(ll)
    BY LenProperties, EmptySeq
<1>2. PICK t : t = Fed(ll, b)
    OBVIOUS
<1>3. CASE b = Newline
  <2>1. Len(t) = N + 1 /\ \A i \in 2 .. N + 1 : t[i] = ll[i - 1]
      BY <1>1, <1>2, <1>3, FedNewline
  <2>2. \A i \in 1 .. N : i + 1 \in 2 .. N + 1 /\ i + 1 \in 1 .. N + 1 /\ t[i + 1] = ll[i]
    <3> TAKE i \in 1 .. N
    <3>1. i + 1 \in 2 .. N + 1 /\ (i + 1) - 1 = i
        OBVIOUS
    <3>2. QED
        BY <2>1, <3>1
  <2>3. t # <<>>
    <3>1. t \in Seq(Lines)
        BY <1>2, FedType
    <3>2. QED
        BY <2>1, <3>1, EmptySeq
  <2>4. \A i \in 2 .. N : i \in 1 .. N
      OBVIOUS
  <2>5. QED
      BY <1>1, <1>2, <2>1, <2>2, <2>3, <2>4
<1>4. CASE b # Newline
  <2>1. Len(t) = N /\ t[1] = Append(ll[1], b) /\ \A i \in 2 .. N : t[i] = ll[i]
      BY <1>1, <1>2, <1>4, FedByte
  <2>2. ToSet(ll[1]) \subseteq ToSet(t[1])
    <3>1. PICK l \in Seq(Nat) : l = ll[1]
        BY <1>1, ElementOfSeq DEF Lines
    <3>2. ToSet(Append(l, b)) = ToSet(l) \cup {b}
        BY SetAppend
    <3>3. QED
        BY <2>1, <3>1, <3>2
  <2>3. t # <<>>
    <3>1. t \in Seq(Lines)
        BY <1>2, FedType
    <3>2. QED
        BY <2>1, <3>1, EmptySeq
  <2>4. \A i \in 1 .. N : ToSet(ll[i]) \subseteq ToSet(t[i])
    <3> TAKE i \in 1 .. N
    <3>1. CASE i = 1
        BY <2>2, <3>1
    <3>2. CASE i # 1
      <4>1. i \in 2 .. N
          BY <3>2
      <4>2. QED
          BY <2>1, <4>1
    <3>3. QED
        BY <3>1, <3>2
  <2>5. QED
      BY <1>1, <1>2, <2>1, <2>3, <2>4
<1>5. QED
    BY <1>3, <1>4

\* What a file has, it has when a byte is added.
LEMMA WholeStays ==
    ASSUME NEW u \in Lines, Made(u) # <<>>, NEW b \in Nat
    PROVE  /\ WholeIn(u) \subseteq WholeIn(Append(u, b))
           /\ Held(Made(u)) \subseteq Held(Made(Append(u, b)))
<1>1. Made(u) \in Seq(Lines) /\ Made(Append(u, b)) = Fed(Made(u), b)
    BY MadeAppend
<1>2. PICK ll \in Seq(Lines) : ll = Made(u) /\ ll # <<>>
    BY <1>1
<1>3. PICK v \in Lines : v = Append(u, b)
    BY AppendProperties DEF Lines
<1>4. PICK t : t = Fed(ll, b) /\ t = Made(v)
    BY <1>1, <1>2, <1>3, Zenon
<1>5. /\ t # <<>>
      /\ \A i \in 1 .. Len(ll) : \E k \in 1 .. Len(t) : ToSet(ll[i]) \subseteq ToSet(t[k])
      /\ \A i \in 2 .. Len(ll) : \E k \in 2 .. Len(t) : t[k] = ll[i]
  <2>1. /\ Fed(ll, b) # <<>>
        /\ \A i \in 1 .. Len(ll) : \E k \in 1 .. Len(Fed(ll, b)) : ToSet(ll[i]) \subseteq ToSet(Fed(ll, b)[k])
        /\ \A i \in 2 .. Len(ll) : \E k \in 2 .. Len(Fed(ll, b)) : Fed(ll, b)[k] = ll[i]
      BY <1>2, FedKeeps
  <2>2. QED
      BY <1>4, <2>1, Zenon
<1>6. ASSUME NEW r \in WholeIn(u) PROVE r \in WholeIn(v)
  <2>1. PICK i \in 2 .. Len(ll) : ll[i] \in Decodable /\ ll[i][1] = r
      BY <1>2, WholeLines
  <2>2. PICK k \in 2 .. Len(t) : t[k] = ll[i]
      BY <1>5
  <2>3. Made(v) # <<>> /\ k \in 2 .. Len(Made(v)) /\ Made(v)[k] \in Decodable /\ Made(v)[k][1] = r
      BY <1>4, <1>5, <2>1, <2>2, Zenon
  <2>4. QED
      BY <2>3, WholeLines
<1>7. Held(ll) \subseteq Held(t)
    BY <1>5, SMTT(30) DEF Held
<1>8. QED
    BY <1>2, <1>3, <1>4, <1>6, <1>7, Zenon

-----------------------------------------------------------------------------
(* What a scan adds to the records found.                                    *)

\* Every member is smaller than the later ones.
Rises(s) == \A j \in 1 .. Len(s) : \A i \in 1 .. j - 1 : s[i] < s[j]

\* Two rising parts.
LEMMA RisesOn ==
    ASSUME NEW x \in Seq(Nat), NEW y \in Seq(Nat), Rises(x), Rises(y),
           \A a \in ToSet(x), b \in ToSet(y) : a < b
    PROVE  x \o y \in Seq(Nat) /\ Rises(x \o y) /\ ToSet(x \o y) = ToSet(x) \cup ToSet(y)
<1>1. PICK M \in Nat, N \in Nat : M = Len(x) /\ N = Len(y)
    BY LenProperties
<1>2. PICK z : z = x \o y
    OBVIOUS
<1>3. /\ z \in Seq(Nat) /\ Len(z) = M + N
      /\ \A i \in 1 .. M + N : z[i] = IF i <= M THEN x[i] ELSE y[i - M]
    BY <1>1, <1>2, ConcatProperties
<1>4. /\ ToSet(x) = {x[i] : i \in 1 .. M} /\ ToSet(y) = {y[i] : i \in 1 .. N}
      /\ ToSet(z) = {z[i] : i \in 1 .. M + N}
    BY <1>1, <1>3, SetType
<1>5. \A i \in 1 .. M : i \in 1 .. M + N /\ z[i] = x[i]
    BY <1>3
<1>6. \A i \in 1 .. N : i + M \in 1 .. M + N /\ z[i + M] = y[i]
  <2> TAKE i \in 1 .. N
  <2>1. i + M \in 1 .. M + N /\ ~(i + M <= M) /\ (i + M) - M = i
      OBVIOUS
  <2>2. QED
      BY <1>3, <2>1
<1>7. \A i \in 1 .. M + N : i \in 1 .. M \/ (i - M \in 1 .. N /\ (i - M) + M = i)
    OBVIOUS
<1>8. ToSet(z) = ToSet(x) \cup ToSet(y)
  <2>1. ASSUME NEW i \in 1 .. M + N PROVE z[i] \in ToSet(x) \cup ToSet(y)
    <3>1. CASE i \in 1 .. M
        BY <1>4, <1>5, <3>1
    <3>2. CASE i - M \in 1 .. N /\ (i - M) + M = i
        BY <1>4, <1>6, <3>2
    <3>3. QED
        BY <1>7, <3>1, <3>2
  <2>2. ToSet(x) \subseteq ToSet(z)
      BY <1>4, <1>5
  <2>3. ToSet(y) \subseteq ToSet(z)
      BY <1>4, <1>6
  <2>4. QED
      BY <1>4, <2>1, <2>2, <2>3
<1>9. ASSUME NEW j \in 1 .. M + N, NEW i \in 1 .. j - 1 PROVE z[i] < z[j]
  <2>1. CASE j \in 1 .. M
    <3>1. i \in 1 .. M
        BY <2>1
    <3>2. x[i] < x[j]
        BY <1>1, <2>1 DEF Rises
    <3>3. QED
        BY <1>5, <2>1, <3>1, <3>2
  <2>2. CASE i \in 1 .. M /\ j - M \in 1 .. N /\ (j - M) + M = j
    <3>1. x[i] \in ToSet(x) /\ y[j - M] \in ToSet(y)
        BY <1>4, <2>2
    <3>2. z[i] = x[i] /\ z[j] = y[j - M]
        BY <1>5, <1>6, <2>2
    <3>3. QED
        BY <3>1, <3>2
  <2>3. CASE i - M \in 1 .. N /\ (i - M) + M = i /\ j - M \in 1 .. N /\ (j - M) + M = j
    <3>1. i - M \in 1 .. (j - M) - 1
        BY <2>3
    <3>2. y[i - M] < y[j - M]
        BY <1>1, <2>3, <3>1 DEF Rises
    <3>3. z[i] = y[i - M] /\ z[j] = y[j - M]
        BY <1>6, <2>3
    <3>4. QED
        BY <3>2, <3>3
  <2>4. i \in 1 .. M + N
      OBVIOUS
  <2>5. QED
      BY <1>7, <2>1, <2>2, <2>3, <2>4
<1>10. Rises(z)
    BY <1>3, <1>9 DEF Rises
<1>11. QED
    BY <1>2, <1>3, <1>8, <1>10, Zenon

\* The first byte of a line that decodes.
LEMMA RecordHeld ==
    ASSUME NEW ll \in Seq(Lines), NEW i \in 1 .. Len(ll), ll[i] \in Decodable
    PROVE  ll[i][1] \in Held(ll) /\ ll[i] \in Full /\ ll[i] \in ToSet(ll)
<1>1. PICK l \in Seq(Nat) : l = ll[i] /\ Len(l) = 2
    BY DEF Decodable, Lines
<1>2. 1 \in DOMAIN l /\ l # <<>>
    BY <1>1
<1>3. l[1] \in ToSet(l)
    BY <1>2 DEF ToSet
<1>4. l \in Full
    BY <1>2 DEF Full, Lines
<1>5. l[1] \in Held(ll)
    BY <1>1, <1>3 DEF Held
<1>6. ll[i] \in ToSet(ll)
    BY SetType
<1>7. QED
    BY <1>1, <1>4, <1>5, <1>6

\* What a scan of a file adds to the records of DecodeSince: L are the lines that pass.
LEMMA ScanAdds ==
    ASSUME NEW u \in Lines, NEW m \in Nat, Rising(Made(u), m), NEW L, NEW new,
           new = Decoded(Filter(Scanned(u), L))
    PROVE  /\ new \in Seq(Nat) /\ Rises(new) /\ ToSet(new) \subseteq Held(Made(u))
           /\ \A r \in WholeIn(u) : (\A l \in Full : l[1] = r => l \in L) => r \in ToSet(new)
<1>1. PICK s \in Seq(Lines) : s = Scanned(u) /\ Pairwise(s, Before) /\ ToSet(s) = ToSet(Made(u)) \cap Full
    BY ScanOrdered
<1>2. PICK f : f = Filter(s, L)
    OBVIOUS
<1>3. f \in Seq(Lines) /\ Pairwise(f, Before) /\ ToSet(f) = ToSet(s) \cap L
    BY <1>1, <1>2, FilterType, FilterPairwise, FilterMembers
<1>4. new = Decoded(f)
    BY <1>1, <1>2
<1>5. new \in Seq(Nat)
    BY <1>3, <1>4, DecodedType
<1>6. Rises(new)
  <2>1. \A j \in 1 .. Len(Decoded(f)) : \A i \in 1 .. j - 1 : Decoded(f)[i] < Decoded(f)[j]
      BY <1>3, DecodedRises
  <2>2. QED
      BY <1>4, <2>1, Zenon DEF Rises
<1>7. PICK ll \in Seq(Lines) : ll = Made(u) /\ ll # <<>>
    BY DEF Rising
<1>8. ToSet(ll) = {ll[i] : i \in 1 .. Len(ll)} /\ Len(ll) \in Nat
    BY SetType, LenProperties
<1>9. ASSUME NEW r \in ToSet(new) PROVE r \in Held(Made(u))
  <2>1. PICK l \in ToSet(f) : l \in Decodable /\ l[1] = r
      BY <1>3, <1>4, DecodedMembers
  <2>2. l \in ToSet(ll)
      BY <1>1, <1>3, <1>7
  <2>3. PICK i \in 1 .. Len(ll) : ll[i] = l
      BY <1>8, <2>2
  <2>4. QED
      BY <1>7, <2>1, <2>3, RecordHeld
<1>10. ASSUME NEW r \in WholeIn(u), \A l \in Full : l[1] = r => l \in L PROVE r \in ToSet(new)
  <2>1. PICK i \in 2 .. Len(ll) : ll[i] \in Decodable /\ ll[i][1] = r
      BY <1>7, WholeLines
  <2>2. i \in 1 .. Len(ll)
      BY <1>8
  <2>3. ll[i] \in Full /\ ll[i] \in ToSet(ll)
      BY <2>1, <2>2, RecordHeld
  <2>4. ll[i] \in L
      BY <1>10, <2>1, <2>3
  <2>5. ll[i] \in ToSet(f)
      BY <1>1, <1>3, <1>7, <2>3, <2>4
  <2>6. QED
      BY <1>3, <1>4, <2>1, <2>5, DecodedMembers
<1>11. QED
    BY <1>5, <1>6, <1>9, <1>10

\* A whole record is one of the file's.
LEMMA WholeHeld ==
    ASSUME NEW u \in Lines, NEW m \in Nat, Rising(Made(u), m)
    PROVE  WholeIn(u) \subseteq Held(Made(u)) /\ WholeIn(u) \subseteq 1 .. m
<1>1. PICK ll \in Seq(Lines) : ll = Made(u) /\ ll # <<>> /\ Len(ll) \in Nat
    BY LenProperties DEF Rising
<1>2. ASSUME NEW r \in WholeIn(u) PROVE r \in Held(ll)
  <2>1. PICK i \in 2 .. Len(ll) : ll[i] \in Decodable /\ ll[i][1] = r
      BY <1>1, WholeLines
  <2>2. i \in 1 .. Len(ll)
      BY <1>1
  <2>3. QED
      BY <2>1, <2>2, RecordHeld
<1>3. m <= m
    OBVIOUS
<1>4. \A a \in Held(Made(u)) : a \in 1 .. m
    BY <1>3, RisingMore
<1>5. QED
    BY <1>1, <1>2, <1>4

-----------------------------------------------------------------------------
(* DecodeSince: its invariant and its steps.                                 *)

\* The files still have what they had.
Remains ==
    \A d \in Days : /\ WholeIn(file[d]) \subseteq WholeIn(file'[d])
                    /\ Held(Made(file[d])) \subseteq Held(Made(file'[d]))

\* A record of job.whole in a file the call has still to scan.
Due(r) == pc = "scan" /\ \E d \in at .. today : r \in WholeIn(file[d])

\* DecodeSince and DecodeSinceSampled: the call's arguments and the day it has come to.
Asked ==
    job.kind = "since" =>
        /\ pc \in {"scan", "done", "failed"}
        /\ job.cutoff \in Nat /\ job.size \in Nat /\ job.now \in Nat
        /\ today \in Days /\ at \in 0 .. today + 1
        /\ pc = "done" => at = today + 1
        /\ job.whole \subseteq 1 .. rec

\* DecodeSince: every record asked for is found or due, and those found come
\* from the days that were scanned, in order.
Gathered ==
    job.kind = "since" /\ pc # "failed" /\ job.size = 0 =>
        /\ out \in Seq(Nat) /\ Rises(out)
        /\ \A r \in job.whole : ts[r] >= job.cutoff => r \in ToSet(out) \/ Due(r)
        /\ \A a \in ToSet(out) : \E d \in Days : d < at /\ a \in Held(Made(file[d]))

\* Nothing is taken out of the files.
LEMMA FilesRemain ==
    ASSUME Writer, Ordered, WriteRecord \/ WriteByte \/ UNCHANGED file
    PROVE  Remains
<1>1. CASE WriteRecord \/ WriteByte
  <2>1. PICK e \in Days, b \in Nat : file' = [file EXCEPT ![e] = Append(@, b)]
      BY <1>1, StoreAppends
  <2>2. ASSUME NEW d \in Days
        PROVE  /\ WholeIn(file[d]) \subseteq WholeIn(file'[d])
               /\ Held(Made(file[d])) \subseteq Held(Made(file'[d]))
    <3>1. CASE d = e
      <4>1. PICK u \in Lines : u = file[d] /\ file'[d] = Append(u, b)
          BY <2>1, <3>1 DEF Writer, Lines
      <4>2. Made(u) # <<>>
          BY <4>1 DEF Ordered, Rising
      <4>3. WholeIn(u) \subseteq WholeIn(Append(u, b)) /\ Held(Made(u)) \subseteq Held(Made(Append(u, b)))
          BY <4>2, WholeStays
      <4>4. QED
          BY <4>1, <4>3, Zenon
    <3>2. CASE d # e
      <4>1. file'[d] = file[d]
          BY <2>1, <3>2 DEF Writer
      <4>2. QED
          BY <4>1
    <3>3. QED
        BY <3>1, <3>2
  <2>3. QED
      BY <2>2 DEF Remains
<1>2. CASE UNCHANGED file
    BY <1>2, Zenon DEF Remains
<1>3. QED
    BY <1>1, <1>2

\* What the Store does between two steps of the call.
LEMMA GatheredStays ==
    ASSUME Asked, Gathered, Remains, UNCHANGED <<job, pc, today, at, out>>,
           rec \in Nat, rec' \in Nat, rec <= rec', \A r \in 1 .. rec : ts'[r] = ts[r]
    PROVE  Asked' /\ Gathered'
<1>1. Asked'
  <2>1. 1 .. rec \subseteq 1 .. rec'
      OBVIOUS
  <2>2. QED
      BY <2>1 DEF Asked
<1>2. ASSUME job.kind = "since", pc # "failed", job.size = 0
      PROVE  /\ out' \in Seq(Nat) /\ Rises(out')
             /\ \A r \in job.whole : ts'[r] >= job.cutoff => r \in ToSet(out') \/ Due(r)'
             /\ \A a \in ToSet(out') : \E d \in Days : d < at' /\ a \in Held(Made(file'[d]))
  <2>1. /\ out \in Seq(Nat) /\ Rises(out)
        /\ \A r \in job.whole : ts[r] >= job.cutoff => r \in ToSet(out) \/ Due(r)
        /\ \A a \in ToSet(out) : \E d \in Days : d < at /\ a \in Held(Made(file[d]))
      BY <1>2 DEF Gathered
  <2>2. today \in Days /\ at \in 0 .. today + 1 /\ job.whole \subseteq 1 .. rec /\ today \in Nat
      BY <1>2, DaysAreNumbers DEF Asked
  <2>3. ASSUME NEW r \in job.whole, Due(r) PROVE Due(r)'
    <3>1. PICK d \in at .. today : pc = "scan" /\ r \in WholeIn(file[d])
        BY <2>3 DEF Due
    <3>2. d \in 0 .. today
        BY <2>2
    <3>3. d \in Days
        BY <2>2, <3>2, EarlierDay
    <3>4. r \in WholeIn(file'[d])
        BY <3>1, <3>3 DEF Remains
    <3>5. QED
        BY <3>1, <3>4 DEF Due
  <2>4. \A r \in job.whole : ts'[r] >= job.cutoff => r \in ToSet(out') \/ Due(r)'
    <3> SUFFICES ASSUME NEW r \in job.whole, ts'[r] >= job.cutoff, r \notin ToSet(out) PROVE Due(r)'
        BY Zenon
    <3>1. ts'[r] = ts[r]
        BY <2>2
    <3>2. Due(r)
        BY <2>1, <3>1
    <3>3. QED
        BY <2>3, <3>2
  <2>5. \A a \in ToSet(out') : \E d \in Days : d < at' /\ a \in Held(Made(file'[d]))
    <3> SUFFICES ASSUME NEW a \in ToSet(out) PROVE \E d \in Days : d < at /\ a \in Held(Made(file'[d]))
        BY Zenon
    <3>1. PICK d \in Days : d < at /\ a \in Held(Made(file[d]))
        BY <2>1
    <3>2. a \in Held(Made(file'[d]))
        BY <3>1 DEF Remains
    <3>3. QED
        BY <3>1, <3>2
  <2>6. QED
      BY <2>1, <2>4, <2>5
<1>3. Gathered'
    BY <1>2, Zenon DEF Gathered
<1>4. QED
    BY <1>1, <1>3

\* A record on disk that is not older than the cutoff lies in the range of days.
LEMMA InRange ==
    ASSUME Writer, Ordered, NEW c \in Nat, NEW r \in Whole
    PROVE  /\ r \in 1 .. rec
           /\ ts[r] >= c => \E d \in Day(c) .. Day(clock) : r \in WholeIn(file[d])
<1>1. PICK d \in Days : r \in WholeIn(file[d])
  <2>1. \E S \in {ToSet(Decoded(Tail(LinesAfter(<<Newline>> \o file[d])))) : d \in Days} : r \in S
      BY DEF Whole
  <2>2. QED
      BY <2>1 DEF WholeIn, Made
<1>2. PICK u \in Lines : u = file[d]
    BY DEF Writer, Lines
<1>3. Rising(Made(u), rec) /\ rec \in Nat /\ r \in WholeIn(u)
    BY <1>1, <1>2 DEF Ordered, Writer
<1>4. r \in Held(Made(u)) /\ r \in 1 .. rec
    BY <1>3, WholeHeld
<1>5. r \in Recs /\ ts[r] \in Nat /\ Day(ts[r]) <= d
  <2>1. r \in Recs
      BY <1>3, <1>4, ReaderAssumption DEF Recs, Ordered
  <2>2. QED
      BY <1>2, <1>4, <2>1 DEF Ordered
<1>6. d \in Nat /\ wday \in Nat /\ Day(clock) \in Nat /\ wday <= Day(clock)
    BY DaysAreNumbers, DayOfClock DEF Writer, Ordered
<1>7. d <= Day(clock)
  <2> SUFFICES ASSUME d > Day(clock) PROVE FALSE
      BY <1>6
  <2>1. d > wday
      BY <1>6
  <2>2. u = <<>>
      BY <1>2, <2>1 DEF Ordered
  <2>3. Held(Made(u)) = {}
      BY <1>3, <2>2, MadeEmpty
  <2>4. QED
      BY <1>4, <2>3
<1>8. ASSUME ts[r] >= c PROVE d \in Day(c) .. Day(clock)
  <2>1. c <= ts[r]
      BY <1>5, <1>8
  <2>2. Day(c) \in Nat /\ Day(ts[r]) \in Nat /\ Day(c) <= Day(ts[r])
      BY <1>5, <2>1, DayFollows
  <2>3. QED
      BY <1>5, <1>6, <1>7, <2>2
<1>9. QED
    BY <1>1, <1>4, <1>8

\* The range of days reaches to today and to the day of the cutoff.
LEMMA LastOfRange ==
    ASSUME clock \in 0 .. MaxTime, NEW c \in 0 .. MaxTime
    PROVE  /\ LastDay(c) \in Days /\ LastDay(c) \in Nat /\ Day(clock) \in Nat /\ Day(c) \in Nat
           /\ Day(c) <= LastDay(c) /\ Day(clock) <= LastDay(c)
<1>1. clock \in Nat /\ c \in Nat
    OBVIOUS
<1>2. CASE c > clock
  <2>1. LastDay(c) = Day(c)
      BY <1>2 DEF LastDay
  <2>2. Day(clock) \in Nat /\ Day(c) \in Nat /\ Day(clock) <= Day(c)
      BY <1>1, <1>2, DayFollows
  <2>3. QED
      BY <2>1, <2>2, DayOfClock
<1>3. CASE ~(c > clock)
  <2>1. LastDay(c) = Day(clock)
      BY <1>3 DEF LastDay
  <2>2. Day(clock) \in Nat /\ Day(c) \in Nat /\ Day(c) <= Day(clock)
      BY <1>1, <1>3, DayFollows
  <2>3. QED
      BY <2>1, <2>2, DayOfClock
<1>4. QED
    BY <1>2, <1>3

\* DecodeSince begins.
LEMMA SinceBegins ==
    ASSUME Writer, Ordered, Called, StartSince
    PROVE  Asked' /\ Gathered'
<1>1. PICK c \in 0 .. MaxTime, n \in 0 .. MaxLimit :
        /\ job' = [kind |-> "since", cutoff |-> c, size |-> n, now |-> clock, whole |-> Whole]
        /\ at' = Day(c) /\ today' = LastDay(c)
    BY DEF StartSince, FirstDay
<1>2. /\ pc = "idle" /\ pc' = "scan"
      /\ UNCHANGED <<clock, file, rec, ts, out>> /\ out = <<>>
    BY DEF StartSince, storeVars, Called
<1>3. /\ job'.kind = "since" /\ job'.cutoff = c /\ job'.size = n /\ job'.now = clock /\ job'.whole = Whole
    BY <1>1
<1>4. clock \in Nat /\ c \in Nat /\ n \in Nat
    BY <1>1, ReaderAssumption DEF Writer
<1>5. /\ today' \in Days /\ Day(clock) \in Nat /\ Day(c) \in Nat
      /\ today' \in Nat /\ Day(c) <= today' /\ Day(clock) <= today'
    BY <1>1, LastOfRange DEF Writer
<1>6. Asked'
  <2>1. Whole \subseteq 1 .. rec
      BY <1>4, InRange
  <2>2. at' \in 0 .. today' + 1
      BY <1>1, <1>2, <1>5
  <2>3. QED
      BY <1>2, <1>3, <1>4, <1>5, <2>1, <2>2 DEF Asked
<1>7. ASSUME NEW r \in Whole, ts[r] >= c PROVE Due(r)'
  <2>1. PICK d \in Day(c) .. Day(clock) : r \in WholeIn(file[d])
      BY <1>4, <1>7, InRange
  <2>2. QED
      BY <1>1, <1>2, <1>5, <2>1 DEF Due
<1>8. Gathered'
  <2>1. out' \in Seq(Nat) /\ Rises(out') /\ ToSet(out') = {}
      BY <1>2, SetEmpty DEF Rises
  <2>2. \A r \in job'.whole : ts'[r] >= job'.cutoff => r \in ToSet(out') \/ Due(r)'
      BY <1>2, <1>3, <1>7
  <2>3. QED
      BY <2>1, <2>2 DEF Gathered
<1>9. QED
    BY <1>6, <1>8

\* DecodeSince goes through a file.
LEMMA SinceScans ==
    ASSUME Writer, Ordered, Asked, Gathered, Called, ScanFile
    PROVE  Asked' /\ Gathered'
<1>1. /\ pc = "scan" /\ job.kind = "since" /\ at <= today /\ UNCHANGED <<file, rec, ts, job, today>>
      /\ \/ pc' = "scan" /\ at' = at + 1
         \/ pc' = "failed" /\ at' = at
    BY DEF ScanFile, storeVars, callVars, Called
<1>2. /\ job.cutoff \in Nat /\ job.size \in Nat /\ job.now \in Nat
      /\ today \in Days /\ at \in 0 .. today + 1 /\ job.whole \subseteq 1 .. rec /\ today \in Nat /\ at \in Nat
  <2>1. /\ job.cutoff \in Nat /\ job.size \in Nat /\ job.now \in Nat
        /\ today \in Days /\ at \in 0 .. today + 1 /\ job.whole \subseteq 1 .. rec
      BY <1>1, Zenon DEF Asked
  <2>2. today \in Nat
      BY <2>1, DaysAreNumbers
  <2>3. at \in Nat
      BY <2>1, <2>2
  <2>4. QED
      BY <2>1, <2>2, <2>3, Zenon
<1>3. Asked'
  <2>1. at' \in 0 .. today + 1
      BY <1>1, <1>2
  <2>2. QED
      BY <1>1, <1>2, <2>1 DEF Asked
<1>4. ASSUME pc' # "failed", job.size = 0
      PROVE  /\ out' \in Seq(Nat) /\ Rises(out')
             /\ \A r \in job.whole : ts[r] >= job.cutoff => r \in ToSet(out') \/ Due(r)'
             /\ \A a \in ToSet(out') : \E d \in Days : d < at' /\ a \in Held(Made(file[d]))
  <2>1. at \in Days /\ at' = at + 1 /\ pc' = "scan"
    <3>1. at \in 0 .. today
        BY <1>1, <1>2
    <3>2. QED
        BY <1>1, <1>2, <1>4, <3>1, EarlierDay
  <2>2. PICK new : new = Decoded(Filter(Scanned(file[at]), Since))
      OBVIOUS
  <2>3. out' = out \o new
      BY <1>4, <2>2 DEF ScanFile
  <2>4. PICK u \in Lines : u = file[at]
      BY <2>1 DEF Writer, Lines
  <2>5. rec \in Nat /\ Rising(Made(u), rec)
      BY <2>1, <2>4 DEF Writer, Ordered
  <2>6. /\ new \in Seq(Nat) /\ Rises(new) /\ ToSet(new) \subseteq Held(Made(u))
        /\ \A r \in WholeIn(u) : (\A l \in Full : l[1] = r => l \in Since) => r \in ToSet(new)
      BY <2>2, <2>4, <2>5, ScanAdds
  <2>7. /\ out \in Seq(Nat) /\ Rises(out)
        /\ \A r \in job.whole : ts[r] >= job.cutoff => r \in ToSet(out) \/ Due(r)
        /\ \A a \in ToSet(out) : \E d \in Days : d < at /\ a \in Held(Made(file[d]))
      BY <1>1, <1>4 DEF Gathered
  <2>8. \A a \in ToSet(out), b \in ToSet(new) : a < b
    <3> TAKE a \in ToSet(out), b \in ToSet(new)
    <3>1. PICK d \in Days : d < at /\ a \in Held(Made(file[d]))
        BY <2>7
    <3>2. b \in Held(Made(file[at]))
        BY <2>4, <2>6
    <3>3. QED
        BY <2>1, <3>1, <3>2 DEF Ordered
  <2>9. out' \in Seq(Nat) /\ Rises(out') /\ ToSet(out') = ToSet(out) \cup ToSet(new)
      BY <2>3, <2>6, <2>7, <2>8, RisesOn
  <2>10. ASSUME NEW r \in job.whole, ts[r] >= job.cutoff PROVE r \in ToSet(out') \/ Due(r)'
    <3>1. CASE r \in ToSet(out)
        BY <2>9, <3>1
    <3>2. CASE Due(r)
      <4>1. PICK d \in at .. today : r \in WholeIn(file[d])
          BY <3>2 DEF Due
      <4>2. CASE d = at
        <5>1. \A l \in Full : l[1] = r => l \in Since
            BY <2>10 DEF Since, Stamp
        <5>2. r \in ToSet(new)
            BY <2>4, <2>6, <4>1, <4>2, <5>1
        <5>3. QED
            BY <2>9, <5>2
      <4>3. CASE d # at
        <5>1. d \in at' .. today'
            BY <1>1, <1>2, <2>1, <4>3
        <5>2. QED
            BY <1>1, <2>1, <4>1, <5>1 DEF Due
      <4>4. QED
          BY <4>2, <4>3
    <3>3. QED
        BY <2>7, <2>10, <3>1, <3>2
  <2>11. ASSUME NEW a \in ToSet(out') PROVE \E d \in Days : d < at' /\ a \in Held(Made(file[d]))
    <3>1. CASE a \in ToSet(out)
      <4>1. PICK d \in Days : d < at /\ a \in Held(Made(file[d]))
          BY <2>7, <3>1
      <4>2. d < at'
          BY <1>2, <2>1, <4>1, DaysAreNumbers
      <4>3. QED
          BY <4>1, <4>2
    <3>2. CASE a \in ToSet(new)
      <4>1. a \in Held(Made(file[at])) /\ at < at'
          BY <1>2, <2>1, <2>4, <2>6, <3>2
      <4>2. QED
          BY <2>1, <4>1
    <3>3. QED
        BY <2>9, <3>1, <3>2
  <2>12. QED
      BY <2>9, <2>10, <2>11
<1>5. Gathered'
    BY <1>1, <1>4, Zenon DEF Gathered
<1>6. QED
    BY <1>3, <1>5

\* The last file is done.
LEMMA SinceEnds ==
    ASSUME Asked, Gathered, Called, ScanDone
    PROVE  Asked' /\ Gathered'
<1>1. /\ pc = "scan" /\ job.kind = "since" /\ at > today /\ pc' = "done" /\ UNCHANGED <<file, rec, ts, job, today, at>>
      /\ job.size = 0 => out' = out
    BY DEF ScanDone, storeVars, callVars, Called
<1>a. today \in Days /\ at \in 0 .. today + 1
    BY <1>1, Zenon DEF Asked
<1>b. at = today + 1 /\ at .. today = {}
    BY <1>1, <1>a, DaysAreNumbers
<1>2. Asked'
    BY <1>1, <1>b, Zenon DEF Asked
<1>3. \A r : ~Due(r)
    BY <1>b DEF Due
<1>4. Gathered'
    BY <1>1, <1>3 DEF Gathered
<1>5. QED
    BY <1>2, <1>4

-----------------------------------------------------------------------------
(* The buckets of DecodeSinceSampled, and Sampled as the fold of its steps.  *)

\* The arguments of DecodeSinceSampled.
SampleArgs == job.cutoff \in Nat /\ job.now \in Nat /\ job.size \in Nat \ {0}

\* A bucket spans some time.
LEMMA BucketWidth == ASSUME SampleArgs PROVE BucketSeconds \in Nat \ {0}
<1>1. PICK w \in Nat \ {0} : w = IF job.now > job.cutoff THEN job.now - job.cutoff ELSE 1
    BY DEF SampleArgs
<1>2. PICK n \in Nat \ {0} : n = job.size
    BY DEF SampleArgs
<1>3. \A m \in Nat \ {0}, v \in Nat \ {0} : (v + m - 1) \div m \in Nat \ {0}
    OBVIOUS
<1>4. (w + n - 1) \div n \in Nat \ {0}
    BY <1>3
<1>5. QED
    BY <1>1, <1>2, <1>4 DEF BucketSeconds

\* Every timestamp from the cutoff on has a bucket, a later one no earlier bucket.
LEMMA BucketGrows ==
    ASSUME SampleArgs, NEW s \in Nat, NEW t \in Nat, job.cutoff <= s, s <= t
    PROVE  Bucket(s) \in 0 .. job.size - 1 /\ Bucket(t) \in 0 .. job.size - 1 /\ Bucket(s) <= Bucket(t)
<1>1. PICK n \in Nat \ {0}, c \in Nat, w \in Nat \ {0} : n = job.size /\ c = job.cutoff /\ w = BucketSeconds
    BY BucketWidth DEF SampleArgs
<1>2. PICK x \in Nat, y \in Nat : x = s - c /\ y = t - c /\ x <= y
    BY <1>1
<1>3. \A m \in Nat \ {0}, v \in Nat : \A u \in 0 .. v : v \div m \in Nat /\ u \div m \in 0 .. (v \div m)
    OBVIOUS
<1>4. x \in 0 .. y
    BY <1>2
<1>5. PICK a \in Nat, b \in Nat : a = x \div w /\ b = y \div w /\ a <= b
    BY <1>3, <1>4
<1>6. Bucket(s) = (IF a > n - 1 THEN n - 1 ELSE a) /\ Bucket(t) = (IF b > n - 1 THEN n - 1 ELSE b)
    BY <1>1, <1>2, <1>5, Zenon DEF Bucket
<1>7. QED
    BY <1>1, <1>5, <1>6

\* The lines that can be sampled, and the buckets of them.
Samples == {l \in Full : l[1] \in 1 .. rec /\ Stamp(l) >= job.cutoff}
\* The buckets of them.
Buckets == [0 .. job.size - 1 -> Samples \cup {NoLine}]

\* One step of Sampled.
SampleStep(lines) == [v \in Buckets |-> [n \in 1 .. Len(lines) |-> Sample(v, lines[n])]]

\* Sampling a line gives buckets.
LEMMA SampleType ==
    ASSUME NEW v \in Buckets, NEW l \in Samples
    PROVE  Sample(v, l) \in Buckets
<1>1. PICK b : b = Bucket(Stamp(l))
    OBVIOUS
<1>2. PICK D, T : D = 0 .. job.size - 1 /\ T = Samples \cup {NoLine}
    OBVIOUS
<1>3. v \in [D -> T] /\ l \in T
    BY <1>2 DEF Buckets
<1>4. [v EXCEPT ![b] = l] \in [D -> T]
    BY <1>3
<1>5. Sample(v, l) = v \/ Sample(v, l) = [v EXCEPT ![b] = l]
    BY <1>1, Zenon DEF Sample
<1>6. Buckets = [D -> T]
    BY <1>2, Zenon DEF Buckets
<1>7. QED
    BY <1>3, <1>4, <1>5, <1>6

\* Sampled is the fold of its steps.
LEMMA SampledFold ==
    ASSUME NEW v0 \in Buckets, NEW s \in Seq(Samples)
    PROVE  \E f : /\ IsFold(f, Len(s), Buckets, v0, SampleStep(s))
                  /\ Sampled(v0, s) = f[Len(s)]
<1> DEFINE N == Len(s)
           B(f, n) == IF n = 0 THEN v0 ELSE Sample(f[n - 1], s[n])
           E(f) == f = [n \in 0 .. N |-> B(f, n)]
<1>1. N \in Nat
    BY LenProperties
<1>2. PICK g : g = SampleStep(s)
    OBVIOUS
<1>3. \A v \in Buckets : \A n \in 1 .. N : g[v][n] = Sample(v, s[n])
    BY <1>2 DEF SampleStep
<1>4. \A v \in Buckets, n \in 1 .. N : g[v][n] \in Buckets
  <2>1. \A n \in 1 .. N : s[n] \in Samples
      BY ElementOfSeq
  <2>2. \A v \in Buckets, n \in 1 .. N : Sample(v, s[n]) \in Buckets
      BY <2>1, SampleType
  <2>3. QED
      BY <1>3, <2>2, Zenon
<1>5. Sampled(v0, s) = (CHOOSE q : E(q))[N]
    BY DEF Sampled
<1> HIDE DEF N
<1>6. PICK f : IsFold(f, N, Buckets, v0, g)
    BY <1>1, <1>4, RecExists, Zenon
<1>7. ASSUME NEW n \in 0 .. N PROVE f[n] = B(f, n)
  <2>1. CASE n = 0
      BY <1>6, <2>1 DEF IsFold
  <2>2. CASE n # 0
    <3>1. n \in 1 .. N /\ n - 1 \in 0 .. N
        BY <1>1, <2>2
    <3>2. f[n - 1] \in Buckets /\ f[n] = g[f[n - 1]][n]
        BY <1>6, <3>1 DEF IsFold
    <3>3. f[n] = Sample(f[n - 1], s[n])
        BY <1>3, <3>1, <3>2, Zenon
    <3>4. QED
        BY <2>2, <3>3, Zenon
  <2>3. QED
      BY <2>1, <2>2
<1> HIDE DEF B
<1>8. E(f)
  <2>1. f \in [0 .. N -> Buckets]
      BY <1>6 DEF IsFold
  <2>2. QED
      BY <1>7, <2>1
<1>9. E(CHOOSE q : E(q))
    BY <1>8, Zenon
<1>10. PICK h : h = (CHOOSE q : E(q))
    OBVIOUS
<1>11. h = [n \in 0 .. N |-> B(h, n)] /\ Sampled(v0, s) = h[N]
    BY <1>5, <1>9, <1>10, Zenon
<1>12. \A n \in 0 .. N : h[n] = B(h, n)
    BY <1>11, Zenon
<1>13. h[0] = v0
    BY <1>1, <1>12 DEF B
<1>14. \A n \in 1 .. N : h[n - 1] \in Buckets => h[n] = g[h[n - 1]][n]
  <2> TAKE n \in 1 .. N
  <2> HAVE h[n - 1] \in Buckets
  <2>1. n \in 0 .. N /\ n # 0
      BY <1>1
  <2>2. h[n] = Sample(h[n - 1], s[n])
      BY <2>1, <1>12, Zenon DEF B
  <2>3. PICK v \in Buckets : v = h[n - 1]
      OBVIOUS
  <2>4. g[v][n] = Sample(v, s[n])
      BY <1>3
  <2>5. QED
      BY <2>2, <2>3, <2>4, Zenon
<1>15. GoesBy(h, N, Buckets, v0, g)
    BY <1>13, <1>14, Zenon DEF GoesBy
<1>16. Sampled(v0, s) = f[N]
  <2>1. PICK V : V = Buckets
      OBVIOUS
  <2>2. IsFold(f, N, V, v0, g) /\ GoesBy(h, N, V, v0, g)
      BY <1>6, <1>15, <2>1, Zenon
  <2>3. h[N] = f[N]
      BY <1>1, <2>2, RecSame
  <2>4. QED
      BY <1>11, <2>3, Zenon
<1>17. QED
    BY <1>2, <1>6, <1>16, Zenon DEF N

\* No lines.
LEMMA SampledEmpty ==
    ASSUME NEW v \in Buckets PROVE Sampled(v, <<>>) = v
<1>1. <<>> \in Seq(Samples) /\ Len(<<>>) = 0
    OBVIOUS
<1>2. PICK f : IsFold(f, 0, Buckets, v, SampleStep(<<>>)) /\ Sampled(v, <<>>) = f[0]
    BY <1>1, SampledFold
<1>3. QED
    BY <1>2 DEF IsFold

\* One line more.
LEMMA SampledAppend ==
    ASSUME NEW v0 \in Buckets, NEW s \in Seq(Samples), NEW e \in Samples
    PROVE  /\ Sampled(v0, s) \in Buckets
           /\ Sampled(v0, Append(s, e)) = Sample(Sampled(v0, s), e)
<1>1. PICK N \in Nat, t \in Seq(Samples) :
        /\ N = Len(s) /\ t = Append(s, e) /\ Len(t) = N + 1
        /\ \A n \in 1 .. N : t[n] = s[n]
        /\ t[N + 1] = e
  <2>1. /\ Append(s, e) \in Seq(Samples) /\ Len(Append(s, e)) = Len(s) + 1 /\ Len(s) \in Nat
        /\ \A n \in 1 .. Len(s) : Append(s, e)[n] = s[n]
        /\ Append(s, e)[Len(s) + 1] = e
      BY LenProperties, AppendProperties
  <2>2. QED
      BY <2>1, Zenon
<1> DEFINE g == SampleStep(s)
           k == SampleStep(t)
<1>2. PICK f : IsFold(f, N, Buckets, v0, g) /\ Sampled(v0, s) = f[N]
    BY <1>1, SampledFold, Zenon
<1>3. PICK h : IsFold(h, N + 1, Buckets, v0, k) /\ Sampled(v0, t) = h[N + 1]
    BY <1>1, SampledFold, Zenon
<1>4. \A v \in Buckets : \A n \in 1 .. N : k[v][n] = g[v][n]
  <2>1. \A v \in Buckets : \A n \in 1 .. N : g[v][n] = Sample(v, s[n])
      BY <1>1 DEF SampleStep
  <2>2. \A v \in Buckets : \A n \in 1 .. N : k[v][n] = Sample(v, t[n])
      BY <1>1 DEF SampleStep
  <2>3. QED
      BY <2>1, <2>2, <1>1
<1>5. \A v \in Buckets : k[v][N + 1] = Sample(v, e)
    BY <1>1 DEF SampleStep
<1> HIDE DEF g, k
<1>6. /\ h \in [0 .. N + 1 -> Buckets] /\ h[0] = v0
      /\ \A n \in 1 .. N + 1 : h[n] = k[h[n - 1]][n]
    BY <1>3 DEF IsFold
<1>7. \A n \in 1 .. N : h[n - 1] \in Buckets => h[n] = g[h[n - 1]][n]
  <2> TAKE n \in 1 .. N
  <2> HAVE h[n - 1] \in Buckets
  <2>1. h[n] = k[h[n - 1]][n]
      BY <1>6
  <2>2. k[h[n - 1]][n] = g[h[n - 1]][n]
      BY <1>4
  <2>3. QED
      BY <2>1, <2>2
<1>8. GoesBy(h, N, Buckets, v0, g)
    BY <1>6, <1>7, Zenon DEF GoesBy
<1>9. h[N] = Sampled(v0, s) /\ h[N] \in Buckets
  <2>1. PICK V : V = Buckets
      OBVIOUS
  <2>2. IsFold(f, N, V, v0, g) /\ GoesBy(h, N, V, v0, g)
      BY <1>2, <1>8, <2>1, Zenon
  <2>3. h[N] = f[N]
      BY <1>1, <2>2, RecSame
  <2>4. QED
      BY <1>2, <1>6, <2>3
<1>10. N + 1 \in 1 .. N + 1 /\ (N + 1) - 1 = N
    OBVIOUS
<1>11. h[N + 1] = k[h[N]][N + 1]
    BY <1>6, <1>10
<1>12. QED
    BY <1>1, <1>3, <1>5, <1>9, <1>11, Zenon

-----------------------------------------------------------------------------
(* What the lines of a file make of the buckets.                             *)

\* What a sample needs: arguments, and a timestamp of every record written.
Stamped == SampleArgs /\ ts \in [Recs -> Nat] /\ rec \in Nat /\ rec <= MaxRec

\* Bucket b has a line that is not older than t.
Beaten(k, b, t) == k[b] # NoLine /\ Stamp(k[b]) >= t

\* The buckets k that the lines of s make of the buckets v: a bucket has its old
\* line or a line of s that belongs there, and one not older for every line.
Best(k, v, s) ==
    /\ \A b \in 0 .. job.size - 1 : k[b] = v[b] \/ (k[b] \in ToSet(s) /\ Bucket(Stamp(k[b])) = b)
    /\ \A l \in ToSet(s) : Beaten(k, Bucket(Stamp(l)), Stamp(l))
    /\ \A b \in 0 .. job.size - 1 : v[b] # NoLine => Beaten(k, b, Stamp(v[b]))

\* A line that can be sampled has a timestamp and a bucket.
LEMMA SampleStamp ==
    ASSUME Stamped, NEW l \in Samples
    PROVE  l # NoLine /\ Stamp(l) \in Nat /\ Stamp(l) >= job.cutoff /\ Bucket(Stamp(l)) \in 0 .. job.size - 1
<1>1. l \in Full /\ l[1] \in 1 .. rec /\ Stamp(l) >= job.cutoff
    BY DEF Samples
<1>2. l[1] \in Recs
    BY <1>1, ReaderAssumption DEF Recs, Stamped
<1>3. Stamp(l) \in Nat
    BY <1>2 DEF Stamp, Stamped
<1>4. SampleArgs /\ job.cutoff \in Nat
    BY DEF Stamped, SampleArgs
<1>5. job.cutoff <= Stamp(l) /\ Stamp(l) <= Stamp(l)
    BY <1>1, <1>3, <1>4
<1>6. Bucket(Stamp(l)) \in 0 .. job.size - 1
    BY <1>3, <1>4, <1>5, BucketGrows
<1>7. QED
    BY <1>1, <1>3, <1>6 DEF Full, NoLine

\* One line.
LEMMA SampleBest ==
    ASSUME Stamped, NEW v \in Buckets, NEW l \in Samples
    PROVE  /\ \A b \in 0 .. job.size - 1 : Sample(v, l)[b] = v[b] \/ (Sample(v, l)[b] = l /\ Bucket(Stamp(l)) = b)
           /\ Beaten(Sample(v, l), Bucket(Stamp(l)), Stamp(l))
           /\ \A b \in 0 .. job.size - 1 : v[b] # NoLine => Beaten(Sample(v, l), b, Stamp(v[b]))
<1>1. PICK e : e = Bucket(Stamp(l))
    OBVIOUS
<1>2. l # NoLine /\ Stamp(l) \in Nat /\ e \in 0 .. job.size - 1
    BY <1>1, SampleStamp
<1>3. \A b \in 0 .. job.size - 1 : v[b] # NoLine => Stamp(v[b]) \in Nat
  <2> TAKE b \in 0 .. job.size - 1
  <2> HAVE v[b] # NoLine
  <2>1. v[b] \in Samples
      BY DEF Buckets
  <2>2. QED
      BY <2>1, SampleStamp
<1>4. DOMAIN v = 0 .. job.size - 1
    BY DEF Buckets
<1>5. CASE v[e] # NoLine /\ Stamp(v[e]) > Stamp(l)
  <2>1. Sample(v, l) = v
      BY <1>1, <1>5, Zenon DEF Sample
  <2>2. Stamp(v[e]) \in Nat
      BY <1>2, <1>3, <1>5
  <2>3. Stamp(v[e]) >= Stamp(l)
      BY <1>2, <1>5, <2>2
  <2>4. \A b \in 0 .. job.size - 1 : v[b] # NoLine => Stamp(v[b]) >= Stamp(v[b])
      BY <1>3
  <2>5. QED
      BY <1>1, <1>5, <2>1, <2>3, <2>4, Zenon DEF Beaten
<1>6. CASE ~(v[e] # NoLine /\ Stamp(v[e]) > Stamp(l))
  <2>1. PICK k : k = [v EXCEPT ![e] = l]
      OBVIOUS
  <2>2. Sample(v, l) = k
      BY <1>1, <1>6, <2>1, Zenon DEF Sample
  <2>3. k[e] = l /\ \A b \in 0 .. job.size - 1 : b # e => k[b] = v[b]
      BY <1>2, <1>4, <2>1
  <2>4. \A b \in 0 .. job.size - 1 : k[b] = v[b] \/ (k[b] = l /\ e = b)
      BY <2>3
  <2>5. Beaten(k, e, Stamp(l))
      BY <1>2, <2>3 DEF Beaten
  <2>6. \A b \in 0 .. job.size - 1 : v[b] # NoLine => Beaten(k, b, Stamp(v[b]))
    <3> TAKE b \in 0 .. job.size - 1
    <3> HAVE v[b] # NoLine
    <3>1. CASE b = e
      <4>1. Stamp(v[e]) \in Nat /\ ~(Stamp(v[e]) > Stamp(l))
          BY <1>3, <1>6, <3>1
      <4>2. Stamp(l) >= Stamp(v[e])
          BY <1>2, <4>1
      <4>3. QED
          BY <1>2, <2>3, <3>1, <4>2, Zenon DEF Beaten
    <3>2. CASE b # e
      <4>1. k[b] = v[b] /\ Stamp(v[b]) >= Stamp(v[b])
          BY <1>3, <2>3, <3>2
      <4>2. QED
          BY <4>1, Zenon DEF Beaten
    <3>3. QED
        BY <3>1, <3>2
  <2>7. QED
      BY <1>1, <2>2, <2>4, <2>5, <2>6, Zenon
<1>7. QED
    BY <1>5, <1>6

\* Best after one line more.
LEMMA BestAppend ==
    ASSUME Stamped, NEW v \in Buckets, NEW k \in Buckets, NEW s \in Seq(Samples), NEW l \in Samples,
           Best(k, v, s)
    PROVE  Best(Sample(k, l), v, Append(s, l))
<1>1. PICK m : m = Sample(k, l)
    OBVIOUS
<1>2. /\ \A b \in 0 .. job.size - 1 : m[b] = k[b] \/ (m[b] = l /\ Bucket(Stamp(l)) = b)
      /\ Beaten(m, Bucket(Stamp(l)), Stamp(l))
      /\ \A b \in 0 .. job.size - 1 : k[b] # NoLine => Beaten(m, b, Stamp(k[b]))
    BY <1>1, SampleBest
<1>3. ToSet(Append(s, l)) = ToSet(s) \cup {l} /\ ToSet(s) \subseteq Samples
    BY SetAppend, SetType
<1>4. m \in Buckets
    BY <1>1, SampleType
<1>5. ASSUME NEW b \in 0 .. job.size - 1, NEW t \in Nat, Beaten(k, b, t)
      PROVE  Beaten(m, b, t)
  <2>1. k[b] # NoLine /\ Stamp(k[b]) >= t
      BY <1>5 DEF Beaten
  <2>2. m[b] # NoLine /\ Stamp(m[b]) >= Stamp(k[b])
      BY <1>2, <2>1 DEF Beaten
  <2>3. k[b] \in Samples /\ m[b] \in Samples
      BY <1>4, <2>1, <2>2 DEF Buckets
  <2>4. Stamp(k[b]) \in Nat /\ Stamp(m[b]) \in Nat
      BY <2>3, SampleStamp
  <2>5. Stamp(m[b]) >= t
      BY <2>1, <2>2, <2>4
  <2>6. QED
      BY <2>2, <2>5 DEF Beaten
<1>6. /\ \A b \in 0 .. job.size - 1 : k[b] = v[b] \/ (k[b] \in ToSet(s) /\ Bucket(Stamp(k[b])) = b)
      /\ \A x \in ToSet(s) : Beaten(k, Bucket(Stamp(x)), Stamp(x))
      /\ \A b \in 0 .. job.size - 1 : v[b] # NoLine => Beaten(k, b, Stamp(v[b]))
    BY DEF Best
<1>7. \A b \in 0 .. job.size - 1 : m[b] = v[b] \/ (m[b] \in ToSet(Append(s, l)) /\ Bucket(Stamp(m[b])) = b)
  <2> TAKE b \in 0 .. job.size - 1
  <2>1. CASE m[b] = k[b]
      BY <1>3, <1>6, <2>1
  <2>2. CASE m[b] = l /\ Bucket(Stamp(l)) = b
      BY <1>3, <2>2
  <2>3. QED
      BY <1>2, <2>1, <2>2
<1>8. \A x \in ToSet(Append(s, l)) : Beaten(m, Bucket(Stamp(x)), Stamp(x))
  <2> TAKE x \in ToSet(Append(s, l))
  <2>1. CASE x = l
      BY <1>2, <2>1
  <2>2. CASE x \in ToSet(s)
    <3>1. x \in Samples /\ Beaten(k, Bucket(Stamp(x)), Stamp(x))
        BY <1>3, <1>6, <2>2
    <3>2. Bucket(Stamp(x)) \in 0 .. job.size - 1 /\ Stamp(x) \in Nat
        BY <3>1, SampleStamp
    <3>3. QED
        BY <1>5, <3>1, <3>2
  <2>3. QED
      BY <1>3, <2>1, <2>2
<1>9. \A b \in 0 .. job.size - 1 : v[b] # NoLine => Beaten(m, b, Stamp(v[b]))
  <2> TAKE b \in 0 .. job.size - 1
  <2> HAVE v[b] # NoLine
  <2>1. v[b] \in Samples
      BY DEF Buckets
  <2>2. Stamp(v[b]) \in Nat
      BY <2>1, SampleStamp
  <2>3. QED
      BY <1>5, <1>6, <2>2
<1>10. QED
    BY <1>1, <1>7, <1>8, <1>9 DEF Best

\* All of them.
LEMMA SampledBest ==
    ASSUME Stamped, NEW v \in Buckets, NEW s \in Seq(Samples)
    PROVE  Sampled(v, s) \in Buckets /\ Best(Sampled(v, s), v, s)
<1> DEFINE P == {x \in Seq(Samples) : Sampled(v, x) \in Buckets /\ Best(Sampled(v, x), v, x)}
<1>1. <<>> \in P
  <2>1. Sampled(v, <<>>) = v
      BY SampledEmpty
  <2>2. \A b \in 0 .. job.size - 1 : v[b] # NoLine => Beaten(v, b, Stamp(v[b]))
    <3> TAKE b \in 0 .. job.size - 1
    <3> HAVE v[b] # NoLine
    <3>1. v[b] \in Samples
        BY DEF Buckets
    <3>2. Stamp(v[b]) \in Nat
        BY <3>1, SampleStamp
    <3>3. QED
        BY <3>2 DEF Beaten
  <2>3. Best(v, v, <<>>)
      BY <2>2, SetEmpty DEF Best
  <2>4. QED
      BY <2>1, <2>3
<1>2. ASSUME NEW x \in Seq(Samples), NEW e \in Samples, x \in P PROVE Append(x, e) \in P
  <2>1. PICK k \in Buckets : k = Sampled(v, x) /\ Best(k, v, x)
      BY <1>2
  <2>2. Sampled(v, Append(x, e)) = Sample(k, e)
      BY <2>1, SampledAppend
  <2>3. Sample(k, e) \in Buckets /\ Best(Sample(k, e), v, Append(x, e))
      BY <2>1, SampleType, BestAppend
  <2>4. QED
      BY <2>2, <2>3
<1> HIDE DEF P
<1>3. Seq(Samples) \subseteq P
    BY <1>1, <1>2, SeqSteps
<1>4. QED
    BY <1>3 DEF P

-----------------------------------------------------------------------------
(* DecodeSinceSampled: its invariant, and the Store that appends meanwhile.  *)

\* Bucket b has no line, or one that belongs there, read from a file that was scanned.
Placed(b) ==
    kept[b] # NoLine =>
        Bucket(Stamp(kept[b])) = b /\ \E d \in Days : d < at /\ kept[b] \in ToSet(Scanned(seen[d]))

\* A record is not older than the line its bucket has.
Answered(r) == kept # <<>> /\ Beaten(kept, Bucket(ts[r]), ts[r])

\* DecodeSinceSampled: every record asked for is answered or due.
Sampling ==
    job.kind = "since" /\ pc # "failed" /\ job.size # 0 =>
        /\ kept = <<>> \/ kept \in Buckets
        /\ kept # <<>> => \A b \in 0 .. job.size - 1 : Placed(b)
        /\ \A r \in job.whole : ts[r] >= job.cutoff => Due(r) \/ Answered(r)
        /\ pc = "scan" => out = <<>>
        /\ pc = "done" => out = IF kept = <<>> THEN <<>> ELSE Decoded([k \in 1 .. job.size |-> kept[k - 1]])

\* The lines ScanFile samples.
LEMMA ScannedSamples ==
    ASSUME NEW u \in Lines, rec \in Nat, Rising(Made(u), rec)
    PROVE  /\ Filter(Scanned(u), Since) \in Seq(Samples)
           /\ ToSet(Filter(Scanned(u), Since)) \subseteq ToSet(Scanned(u))
<1>1. Scanned(u) \in Seq(Lines) /\ ToSet(Scanned(u)) = ToSet(Made(u)) \cap Full
    BY ScanOrdered
<1>2. PICK s \in Seq(Lines) : s = Filter(Scanned(u), Since) /\ ToSet(s) = ToSet(Scanned(u)) \cap Since
    BY <1>1, FilterType, FilterMembers
<1>3. ToSet(s) \subseteq Samples
  <2> SUFFICES ASSUME NEW l \in ToSet(s) PROVE l \in Samples
      BY Zenon
  <2>1. l \in ToSet(Made(u)) /\ l \in Full /\ Stamp(l) >= job.cutoff
      BY <1>1, <1>2 DEF Since
  <2>2. PICK i \in 1 .. Len(Made(u)) : l = Made(u)[i]
      BY <2>1, SetType DEF Rising
  <2>3. l[1] \in ToSet(l)
      BY <2>1 DEF ToSet, Full, Lines
  <2>4. l[1] \in 1 .. rec
      BY <2>2, <2>3 DEF Rising
  <2>5. QED
      BY <2>1, <2>4 DEF Samples
<1>4. s \in Seq(Samples)
    BY <1>3, SeqOfMembers
<1>5. QED
    BY <1>2, <1>4

\* What the Store does between two steps of the call.
LEMMA SamplingStays ==
    ASSUME Asked, Sampling, Remains, UNCHANGED <<job, pc, today, at, out, kept, seen>>, Ordered,
           rec \in Nat, rec' \in Nat, rec <= rec', \A r \in 1 .. rec : ts'[r] = ts[r]
    PROVE  Sampling'
<1>1. ASSUME job.kind = "since", pc # "failed", job.size # 0
      PROVE  /\ kept = <<>> \/ kept \in Buckets'
             /\ kept # <<>> => \A b \in 0 .. job.size - 1 : Placed(b)'
             /\ \A r \in job.whole : ts'[r] >= job.cutoff => Due(r)' \/ Answered(r)'
  <2>1. /\ kept = <<>> \/ kept \in Buckets
        /\ kept # <<>> => \A b \in 0 .. job.size - 1 : Placed(b)
        /\ \A r \in job.whole : ts[r] >= job.cutoff => Due(r) \/ Answered(r)
      BY <1>1, Zenon DEF Sampling
  <2>2. today \in Days /\ at \in 0 .. today + 1 /\ job.whole \subseteq 1 .. rec /\ today \in Nat
      BY <1>1, DaysAreNumbers DEF Asked
  <2>3. Samples \subseteq Samples' /\ \A l \in Samples : ts'[l[1]] = ts[l[1]]
      BY DEF Samples, Stamp
  <2>4. ASSUME kept \in Buckets PROVE kept \in Buckets'
      BY <2>3, <2>4 DEF Buckets
  <2>5. ASSUME kept # <<>>, NEW b \in 0 .. job.size - 1, kept[b] # NoLine
        PROVE  ts'[kept[b][1]] = ts[kept[b][1]]
    <3>1. kept[b] \in Samples
        BY <2>1, <2>5 DEF Buckets
    <3>2. QED
        BY <2>3, <3>1, Zenon
  <2>6. ASSUME kept # <<>>, NEW b \in 0 .. job.size - 1 PROVE Placed(b)'
    <3> SUFFICES ASSUME kept[b] # NoLine
                 PROVE  Bucket(Stamp(kept[b]))' = b /\ \E d \in Days : d < at /\ kept[b] \in ToSet(Scanned(seen[d]))
        BY Zenon DEF Placed
    <3>1. Bucket(Stamp(kept[b])) = b /\ \E d \in Days : d < at /\ kept[b] \in ToSet(Scanned(seen[d]))
        BY <2>1, <2>6, Zenon DEF Placed
    <3>2. ts'[kept[b][1]] = ts[kept[b][1]]
        BY <2>5, <2>6
    <3>3. Bucket(Stamp(kept[b]))' = Bucket(Stamp(kept[b]))
        BY <3>2, Zenon DEF Bucket, BucketSeconds, Stamp
    <3>4. QED
        BY <3>1, <3>3, Zenon
  <2>7. ASSUME NEW r \in job.whole, Due(r) PROVE Due(r)'
    <3>1. PICK d \in at .. today : pc = "scan" /\ r \in WholeIn(file[d])
        BY <2>7 DEF Due
    <3>2. d \in 0 .. today
        BY <2>2
    <3>3. d \in Days
        BY <2>2, <3>2, EarlierDay
    <3>4. r \in WholeIn(file'[d])
        BY <3>1, <3>3 DEF Remains
    <3>5. QED
        BY <3>1, <3>4 DEF Due
  <2>8. ASSUME NEW r \in job.whole, ts'[r] >= job.cutoff, ~Due(r) PROVE Answered(r)'
    <3>1. ts'[r] = ts[r]
        BY <2>2
    <3>2. PICK b : b = Bucket(ts[r])
        OBVIOUS
    <3>3. kept # <<>> /\ kept[b] # NoLine /\ Stamp(kept[b]) >= ts[r]
        BY <2>1, <2>8, <3>1, <3>2 DEF Answered, Beaten
    <3>4. b \in 0 .. job.size - 1
      <4>1. r \in Recs /\ ts[r] \in Nat
          BY <2>2, ReaderAssumption DEF Ordered, Recs
      <4>2. SampleArgs /\ job.cutoff <= ts[r] /\ ts[r] <= ts[r]
          BY <1>1, <2>8, <3>1, <4>1 DEF Asked, SampleArgs
      <4>3. QED
          BY <3>2, <4>1, <4>2, BucketGrows
    <3>5. ts'[kept[b][1]] = ts[kept[b][1]]
        BY <2>5, <3>3, <3>4
    <3>6. Bucket(ts[r])' = b
        BY <3>1, <3>2, Zenon DEF Bucket, BucketSeconds
    <3>7. ts'[kept[b][1]] >= ts'[r]
        BY <3>1, <3>3, <3>5, Zenon DEF Stamp
    <3>8. QED
        BY <3>3, <3>6, <3>7, Zenon DEF Answered, Beaten, Stamp
  <2>9. QED
      BY <2>1, <2>4, <2>6, <2>7, <2>8, Zenon
<1>2. ASSUME job.kind = "since", pc # "failed", job.size # 0
      PROVE  /\ pc = "scan" => out = <<>>
             /\ pc = "done" => out = IF kept = <<>> THEN <<>> ELSE Decoded([k \in 1 .. job.size |-> kept[k - 1]])
    BY <1>2, Zenon DEF Sampling
<1>3. QED
    BY <1>1, <1>2, Zenon DEF Sampling

-----------------------------------------------------------------------------
(* The steps of DecodeSinceSampled.                                          *)

\* DecodeSinceSampled begins.
LEMMA SampleBegins ==
    ASSUME Writer, Ordered, Called, StartSince
    PROVE  Sampling'
<1>1. PICK c \in 0 .. MaxTime, n \in 0 .. MaxLimit :
        /\ job' = [kind |-> "since", cutoff |-> c, size |-> n, now |-> clock, whole |-> Whole]
        /\ at' = Day(c) /\ today' = LastDay(c)
    BY DEF StartSince, FirstDay
<1>2. /\ pc = "idle" /\ pc' = "scan"
      /\ UNCHANGED <<clock, file, rec, ts, out, kept>> /\ out = <<>> /\ kept = <<>>
    BY DEF StartSince, storeVars, Called
<1>3. job'.cutoff = c /\ job'.whole = Whole
    BY <1>1
<1>4. c \in Nat /\ Day(c) \in Nat /\ Day(clock) \in Nat /\ today' \in Nat /\ Day(clock) <= today'
    BY <1>1, LastOfRange, ReaderAssumption DEF Writer
<1>5. ASSUME NEW r \in Whole, ts[r] >= c PROVE Due(r)'
  <2>1. PICK d \in Day(c) .. Day(clock) : r \in WholeIn(file[d])
      BY <1>4, <1>5, InRange
  <2>2. QED
      BY <1>1, <1>2, <1>4, <2>1 DEF Due
<1>6. \A r \in job'.whole : ts'[r] >= job'.cutoff => Due(r)'
    BY <1>2, <1>3, <1>5
<1>7. QED
    BY <1>2, <1>6 DEF Sampling

\* It goes through a file: what the buckets have afterwards.
LEMMA SampleScans ==
    ASSUME Writer, Ordered, Seen, Asked, Sampling, Called, ScanFile
    PROVE  Sampling'
<1>1. /\ pc = "scan" /\ job.kind = "since" /\ at <= today /\ UNCHANGED <<file, rec, ts, job, today>>
      /\ seen' = [seen EXCEPT ![at] = file[at]]
    BY DEF ScanFile, storeVars, callVars, Called
<1>2. SUFFICES ASSUME pc' # "failed", job.size # 0
               PROVE  /\ kept' \in Buckets
                      /\ \A b \in 0 .. job.size - 1 : Placed(b)'
                      /\ \A r \in job.whole : ts[r] >= job.cutoff => Due(r)' \/ Answered(r)'
                      /\ pc' = "scan" /\ out' = <<>>
  <2>1. Buckets' = Buckets
      BY <1>1, Zenon DEF Buckets, Samples, Stamp
  <2>2. QED
      BY <1>1, <2>1, Zenon DEF Sampling
<1>3. PICK new : new = Filter(Scanned(file[at]), Since)
    OBVIOUS
<1>4. /\ pc' = "scan" /\ at' = at + 1 /\ out' = out
      /\ kept' = Sampled(IF kept = <<>> THEN NoBuckets ELSE kept, new)
    BY <1>1, <1>2, <1>3 DEF ScanFile
<1>5. /\ kept = <<>> \/ kept \in Buckets
      /\ kept # <<>> => \A b \in 0 .. job.size - 1 : Placed(b)
      /\ \A r \in job.whole : ts[r] >= job.cutoff => Due(r) \/ Answered(r)
      /\ out = <<>>
    BY <1>1, <1>2, Zenon DEF Sampling
<1>6. /\ today \in Days /\ at \in 0 .. today + 1 /\ job.whole \subseteq 1 .. rec
      /\ today \in Nat /\ at \in Nat /\ at \in 0 .. today
  <2>1. today \in Days /\ at \in 0 .. today + 1 /\ job.whole \subseteq 1 .. rec
      BY <1>1, Zenon DEF Asked
  <2>2. today \in Nat
      BY <2>1, DaysAreNumbers
  <2>3. at \in Nat /\ at \in 0 .. today
      BY <1>1, <2>1, <2>2
  <2>4. QED
      BY <2>1, <2>2, <2>3, Zenon
<1>7. at \in Days
    BY <1>6, EarlierDay
<1>8. PICK u \in Lines : u = file[at] /\ Rising(Made(u), rec)
    BY <1>7 DEF Writer, Lines, Ordered
<1>9. Stamped
    BY <1>1, <1>2 DEF Stamped, SampleArgs, Asked, Ordered, Writer
<1>10. new \in Seq(Samples) /\ ToSet(new) \subseteq ToSet(Scanned(u))
  <2>1. rec \in Nat
      BY DEF Writer
  <2>2. QED
      BY <1>3, <1>8, <2>1, ScannedSamples
<1>11. NoBuckets \in Buckets /\ \A b \in 0 .. job.size - 1 : NoBuckets[b] = NoLine
    BY DEF NoBuckets, Buckets
<1>12. PICK v \in Buckets :
          /\ v = IF kept = <<>> THEN NoBuckets ELSE kept
          /\ kept = <<>> => \A b \in 0 .. job.size - 1 : v[b] = NoLine
    BY <1>5, <1>11
<1>13. kept' \in Buckets /\ Best(kept', v, new)
    BY <1>4, <1>9, <1>10, <1>12, SampledBest, Zenon
<1>14. kept' # <<>>
  <2>1. 0 \in 0 .. job.size - 1
      BY <1>9 DEF Stamped, SampleArgs
  <2>2. 0 \in DOMAIN kept'
      BY <1>13, <2>1 DEF Buckets
  <2>3. QED
      BY <2>2
<1>15. seen'[at] = u /\ \A d \in Days : d # at => seen'[d] = seen[d]
    BY <1>1, <1>7, <1>8 DEF Seen
<1>16. ASSUME NEW b \in 0 .. job.size - 1 PROVE Placed(b)'
  <2> SUFFICES ASSUME kept'[b] # NoLine
               PROVE  Bucket(Stamp(kept'[b])) = b /\ \E d \in Days : d < at' /\ kept'[b] \in ToSet(Scanned(seen'[d]))
    <3>1. Bucket(Stamp(kept[b]))' = Bucket(Stamp(kept'[b]))
        BY <1>1, Zenon DEF Bucket, BucketSeconds, Stamp
    <3>2. QED
        BY <3>1, Zenon DEF Placed
  <2>1. CASE kept'[b] \in ToSet(new) /\ Bucket(Stamp(kept'[b])) = b
    <3>1. at < at'
        BY <1>4, <1>6
    <3>2. kept'[b] \in ToSet(Scanned(seen'[at]))
        BY <1>10, <1>15, <2>1
    <3>3. QED
        BY <1>7, <2>1, <3>1, <3>2
  <2>2. CASE kept'[b] = v[b]
    <3>1. kept # <<>> /\ v = kept
        BY <1>12, <2>2
    <3>2. Placed(b) /\ kept[b] # NoLine /\ kept'[b] = kept[b]
        BY <1>5, <2>2, <3>1
    <3>3. Bucket(Stamp(kept[b])) = b
        BY <3>2 DEF Placed
    <3>4. PICK d \in Days : d < at /\ kept[b] \in ToSet(Scanned(seen[d]))
        BY <3>2 DEF Placed
    <3>5. d < at' /\ d # at
        BY <1>4, <1>6, <3>4, DaysAreNumbers
    <3>6. kept[b] \in ToSet(Scanned(seen'[d]))
        BY <1>15, <3>4, <3>5
    <3>7. QED
        BY <3>2, <3>3, <3>5, <3>6
  <2>3. QED
      BY <1>13, <2>1, <2>2 DEF Best
<1>17. ASSUME NEW r \in job.whole, ts[r] >= job.cutoff PROVE Due(r)' \/ Answered(r)'
  <2>1. r \in Recs /\ ts[r] \in Nat
    <3>1. r \in 1 .. rec
        BY <1>6
    <3>2. r \in Recs
        BY <1>9, <3>1, ReaderAssumption DEF Stamped, Recs
    <3>3. QED
        BY <3>2 DEF Ordered
  <2>2. PICK e : e = Bucket(ts[r])
      OBVIOUS
  <2>3. e \in 0 .. job.size - 1
    <3>1. SampleArgs /\ job.cutoff \in Nat
        BY <1>9 DEF Stamped, SampleArgs
    <3>2. job.cutoff <= ts[r] /\ ts[r] <= ts[r]
        BY <1>17, <2>1, <3>1
    <3>3. QED
        BY <2>1, <2>2, <3>1, <3>2, BucketGrows
  <2>4. ASSUME Beaten(kept', e, ts[r]) PROVE Answered(r)'
    <3>1. Bucket(ts[r])' = e
        BY <1>1, <2>2, Zenon DEF Bucket, BucketSeconds
    <3>2. kept'[e] # NoLine /\ ts[kept'[e][1]] >= ts[r]
        BY <2>4 DEF Beaten, Stamp
    <3>3. QED
        BY <1>1, <1>14, <3>1, <3>2, Zenon DEF Answered, Beaten, Stamp
  <2>5. CASE Answered(r)
    <3>1. kept # <<>> /\ v = kept /\ v[e] # NoLine /\ Stamp(v[e]) >= ts[r]
        BY <1>12, <2>2, <2>5 DEF Answered, Beaten
    <3>2. kept'[e] # NoLine /\ Stamp(kept'[e]) >= Stamp(v[e])
        BY <1>13, <2>3, <3>1 DEF Best, Beaten
    <3>3. v[e] \in Samples /\ kept'[e] \in Samples
        BY <1>13, <2>3, <3>1, <3>2 DEF Buckets
    <3>4. Stamp(v[e]) \in Nat /\ Stamp(kept'[e]) \in Nat
        BY <1>9, <3>3, SampleStamp
    <3>5. Stamp(kept'[e]) >= ts[r]
        BY <2>1, <3>1, <3>2, <3>4
    <3>6. QED
        BY <2>4, <3>2, <3>5, Zenon DEF Beaten
  <2>6. CASE Due(r)
    <3>1. PICK d \in at .. today : r \in WholeIn(file[d])
        BY <2>6 DEF Due
    <3>2. CASE d = at
      <4>1. \A l \in Full : l[1] = r => l \in Since
          BY <1>17 DEF Since, Stamp
      <4>2. rec \in Nat /\ r \in WholeIn(u) /\ new = Filter(Scanned(u), Since)
          BY <1>3, <1>8, <3>1, <3>2 DEF Writer
      <4>3. r \in ToSet(Decoded(new))
          BY <1>8, <4>1, <4>2, ScanAdds
      <4>4. new \in Seq(Lines)
        <5>1. Samples \subseteq Lines
            BY DEF Samples, Full
        <5>2. ToSet(new) \subseteq Lines
            BY <1>10, <5>1, SetType
        <5>3. QED
            BY <1>10, <5>2, SeqOfMembers
      <4>5. PICK l \in ToSet(new) : l[1] = r
          BY <4>3, <4>4, DecodedMembers
      <4>6. Stamp(l) = ts[r]
          BY <4>5, Zenon DEF Stamp
      <4>7. Beaten(kept', e, ts[r])
          BY <1>13, <2>2, <4>6 DEF Best
      <4>8. QED
          BY <2>4, <4>7
    <3>3. CASE d # at
      <4>1. d \in at' .. today'
          BY <1>1, <1>4, <1>6, <3>3
      <4>2. QED
          BY <1>1, <1>4, <3>1, <4>1 DEF Due
    <3>4. QED
        BY <3>2, <3>3
  <2>7. QED
      BY <1>5, <1>17, <2>5, <2>6
<1>18. QED
    BY <1>4, <1>5, <1>13, <1>16, <1>17

\* The buckets are decoded.
LEMMA SampleEnds ==
    ASSUME Asked, Sampling, Called, ScanDone
    PROVE  Sampling'
<1>1. /\ pc = "scan" /\ job.kind = "since" /\ at > today /\ pc' = "done"
      /\ UNCHANGED <<file, rec, ts, job, today, at, kept, seen>>
      /\ out' = IF job.size = 0 \/ kept = <<>> THEN out ELSE Decoded([k \in 1 .. job.size |-> kept[k - 1]])
    BY DEF ScanDone, storeVars, callVars, Called
<1>2. today \in Days /\ at \in 0 .. today + 1
    BY <1>1, Zenon DEF Asked
<1>3. at .. today = {}
    BY <1>1, <1>2, DaysAreNumbers
<1>4. \A r : ~Due(r)
    BY <1>3 DEF Due
<1>5. SUFFICES ASSUME job.size # 0
               PROVE  /\ kept = <<>> \/ kept \in Buckets'
                      /\ kept # <<>> => \A b \in 0 .. job.size - 1 : Placed(b)'
                      /\ \A r \in job.whole : ts[r] >= job.cutoff => Answered(r)'
                      /\ out' = IF kept = <<>> THEN <<>> ELSE Decoded([k \in 1 .. job.size |-> kept[k - 1]])
    BY <1>1, Zenon DEF Sampling
<1>6. /\ kept = <<>> \/ kept \in Buckets
      /\ kept # <<>> => \A b \in 0 .. job.size - 1 : Placed(b)
      /\ \A r \in job.whole : ts[r] >= job.cutoff => Due(r) \/ Answered(r)
      /\ out = <<>>
    BY <1>1, <1>5, Zenon DEF Sampling
<1>7. Buckets' = Buckets
    BY <1>1, Zenon DEF Buckets, Samples, Stamp
<1>8. \A b : Placed(b)' <=> Placed(b)
    BY <1>1, Zenon DEF Placed, Bucket, BucketSeconds, Stamp
<1>9. \A r : Answered(r)' <=> Answered(r)
    BY <1>1, Zenon DEF Answered, Beaten, Bucket, BucketSeconds, Stamp
<1>10. out' = IF kept = <<>> THEN <<>> ELSE Decoded([k \in 1 .. job.size |-> kept[k - 1]])
    BY <1>1, <1>5, <1>6, Zenon
<1>11. QED
    BY <1>4, <1>6, <1>7, <1>8, <1>9, <1>10, Zenon

-----------------------------------------------------------------------------
(* Both calls together; the theorem about DecodeSince.                       *)

\* All of it.
SinceInv == Asked /\ Gathered /\ Sampling

\* It holds at the start.
LEMMA SinceInit == Init => SinceInv
<1>1. SUFFICES ASSUME Init PROVE job.kind # "since"
    BY DEF SinceInv, Asked, Gathered, Sampling
<1>2. QED
    BY <1>1 DEF Init, NoJob

\* Every step keeps what is known of a call of DecodeSince or DecodeSinceSampled.
LEMMA SinceNext == RetentionInv /\ TailInv /\ Ordered /\ SinceInv /\ [Next]_vars => SinceInv'
<1>0. SUFFICES ASSUME RetentionInv, TailInv, Ordered, SinceInv, [Next]_vars PROVE SinceInv'
    OBVIOUS
<1>i. Writer /\ Seen /\ Called /\ Asked /\ Gathered /\ Sampling /\ Ordered /\ rec \in Nat
    BY <1>0 DEF RetentionInv, TailInv, SinceInv, Writer
<1>1. CASE WriteRecord \/ WriteByte
  <2>1. UNCHANGED <<job, pc, today, at, out, kept, seen>>
      BY <1>1 DEF WriteRecord, WriteByte, callVars
  <2>2. Remains
      BY <1>i, <1>1, FilesRemain
  <2>3. rec' \in Nat /\ rec <= rec' /\ \A r \in 1 .. rec : ts'[r] = ts[r]
    <3>1. CASE WriteRecord
      <4>1. PICK t : rec' = rec + 1 /\ ts' = [ts EXCEPT ![rec + 1] = t]
          BY <3>1 DEF WriteRecord
      <4>2. \A r \in 1 .. rec : r \in Recs /\ r # rec + 1
          BY <1>i, ReaderAssumption DEF Ordered, Recs
      <4>3. ts \in [Recs -> Nat]
          BY <1>i DEF Ordered
      <4>4. \A r \in 1 .. rec : ts'[r] = ts[r]
          BY <4>1, <4>2, <4>3
      <4>5. QED
          BY <1>i, <4>1, <4>4
    <3>2. CASE WriteByte
        BY <1>i, <3>2 DEF WriteByte
    <3>3. QED
        BY <1>1, <3>1, <3>2
  <2>4. Asked' /\ Gathered'
      BY <1>i, <2>1, <2>2, <2>3, GatheredStays
  <2>5. Sampling'
      BY <1>i, <2>1, <2>2, <2>3, SamplingStays
  <2>6. QED
      BY <2>4, <2>5 DEF SinceInv
<1>2. CASE Crash \/ Tick \/ UNCHANGED vars
  <2>1. UNCHANGED <<file, rec, ts, job, pc, today, at, out, kept, seen>>
      BY <1>2 DEF Crash, Tick, vars, storeVars, callVars
  <2>2. Remains
      BY <1>i, <2>1, FilesRemain
  <2>3. rec' \in Nat /\ rec <= rec' /\ \A r \in 1 .. rec : ts'[r] = ts[r]
      BY <1>i, <2>1
  <2>4. Asked' /\ Gathered'
      BY <1>i, <2>1, <2>2, <2>3, GatheredStays
  <2>5. Sampling'
      BY <1>i, <2>1, <2>2, <2>3, SamplingStays
  <2>6. QED
      BY <2>4, <2>5 DEF SinceInv
<1>3. CASE StartSince
    BY <1>i, <1>3, SinceBegins, SampleBegins DEF SinceInv
<1>4. CASE ScanFile
    BY <1>i, <1>4, SinceScans, SampleScans DEF SinceInv
<1>5. CASE ScanDone
    BY <1>i, <1>5, SinceEnds, SampleEnds DEF SinceInv
<1>6. CASE StartTail \/ StartClean \/ TailOpen \/ TailChunk \/ TailDecode \/ RemoveFails \/ RemoveFile \/ CleanDone
  <2>1. job'.kind # "since"
    <3>1. CASE StartTail
        BY <3>1 DEF StartTail, Start
    <3>2. CASE StartClean
        BY <3>2 DEF StartClean, Start
    <3>3. CASE TailOpen \/ TailChunk \/ TailDecode
        BY <1>i, <3>3 DEF TailOpen, TailChunk, TailDecode, callVars, Called
    <3>4. CASE RemoveFails \/ RemoveFile \/ CleanDone
        BY <1>i, <3>4 DEF RemoveFails, RemoveFile, CleanDone, callVars, Called
    <3>5. QED
        BY <1>6, <3>1, <3>2, <3>3, <3>4
  <2>2. QED
      BY <2>1 DEF SinceInv, Asked, Gathered, Sampling
<1>7. CASE ReadFails
  <2>1. pc' = "failed" /\ UNCHANGED <<job, today, at, rec>>
      BY <1>7 DEF ReadFails, callVars, storeVars
  <2>2. QED
      BY <1>i, <2>1 DEF SinceInv, Asked, Gathered, Sampling
<1>8. QED
    BY <1>0, <1>1, <1>2, <1>3, <1>4, <1>5, <1>6, <1>7 DEF Next

\* What a call of DecodeSince or DecodeSinceSampled has still to find, it finds in
\* the files it has still to scan, whatever the Store appends meanwhile.
THEOREM SinceInvariant == Spec => []SinceInv
    BY SinceInit, SinceNext, RetentionInvariant, TailInvariant, StoreInOrder, PTL DEF Spec

\* DecodeSince returns every record that was on disk and is not older than the
\* cutoff, in the order of writing.
THEOREM SinceFindsAll == Spec => []SinceComplete
<1>1. SinceInv => SinceComplete
  <2>1. SUFFICES ASSUME SinceInv, job.kind = "since", pc = "done", job.size = 0
                 PROVE  /\ \A r \in job.whole : ts[r] >= job.cutoff => r \in ToSet(out)
                        /\ \A i, j \in DOMAIN out : i < j => out[i] < out[j]
      BY DEF SinceComplete
  <2>2. /\ out \in Seq(Nat) /\ Rises(out)
        /\ \A r \in job.whole : ts[r] >= job.cutoff => r \in ToSet(out) \/ Due(r)
      BY <2>1 DEF SinceInv, Gathered
  <2>3. \A r : ~Due(r)
      BY <2>1 DEF Due
  <2>4. \A i, j \in DOMAIN out : i < j => out[i] < out[j]
    <3> TAKE i, j \in DOMAIN out
    <3> HAVE i < j
    <3>1. Len(out) \in Nat /\ i \in 1 .. Len(out) /\ j \in 1 .. Len(out)
        BY <2>2, LenProperties
    <3>2. i \in 1 .. j - 1
        BY <3>1
    <3>3. QED
        BY <2>2, <3>1, <3>2 DEF Rises
  <2>5. QED
      BY <2>2, <2>3, <2>4
<1>2. QED
    BY <1>1, SinceInvariant, PTL

-----------------------------------------------------------------------------
(* The theorem about DecodeSinceSampled.                                     *)

\* Lines that decode, the earlier time first.
Earlier == {p \in Lines \X Lines : p[1] \in Decodable /\ p[2] \in Decodable => Stamp(p[1]) < Stamp(p[2])}

\* The buckets as ScanDone goes through them.
LEMMA BucketsInOrder ==
    ASSUME Stamped, kept \in Buckets, \A b \in 0 .. job.size - 1 : Placed(b), NEW s,
           s = [k \in 1 .. job.size |-> kept[k - 1]]
    PROVE  s \in Seq(Lines) /\ Len(s) = job.size /\ Pairwise(s, Earlier)
<1>1. PICK n \in Nat \ {0} : n = job.size
    BY DEF Stamped, SampleArgs
<1>2. \A k \in 1 .. n : k - 1 \in 0 .. n - 1 /\ kept[k - 1] \in Samples \cup {NoLine}
    BY <1>1 DEF Buckets
<1>3. Samples \cup {NoLine} \subseteq Lines
  <2>1. NoLine \in Lines
      BY DEF NoLine, Lines
  <2>2. Samples \subseteq Lines
      BY DEF Samples, Full
  <2>3. QED
      BY <2>1, <2>2
<1>4. s \in [1 .. n -> Lines]
    BY <1>1, <1>2, <1>3
<1>5. s \in Seq(Lines) /\ Len(s) = n
  <2>1. n \in Nat /\ DOMAIN s = 1 .. n
      BY <1>4
  <2>2. s \in Seq(Lines)
      BY <1>4, <2>1, SeqDef, ZenonT(40)
  <2>3. Len(s) \in Nat /\ 1 .. Len(s) = 1 .. n
      BY <2>1, <2>2, LenProperties
  <2>4. \A m \in Nat, k \in Nat : 1 .. m = 1 .. k => m = k
      OBVIOUS
  <2>5. QED
      BY <2>1, <2>2, <2>3, <2>4
<1>6. ASSUME NEW j \in 1 .. n, NEW i \in 1 .. j - 1 PROVE <<s[i], s[j]>> \in Earlier
  <2>1. i \in 1 .. n /\ j \in 1 .. n /\ i - 1 \in 0 .. n - 1 /\ j - 1 \in 0 .. n - 1 /\ i - 1 < j - 1
    <3>1. j \in 1 .. n /\ i \in 1 .. n
        OBVIOUS
    <3>2. i <= j - 1
        BY <1>6, <3>1
    <3>3. QED
        BY <3>1, <3>2
  <2>2. PICK x \in Lines, y \in Lines : x = s[i] /\ y = s[j]
      BY <1>4, <2>1
  <2>3. x = kept[i - 1] /\ y = kept[j - 1]
      BY <1>1, <2>1, <2>2
  <2>4. ASSUME x \in Decodable, y \in Decodable PROVE Stamp(x) < Stamp(y)
    <3>1. x # NoLine /\ y # NoLine
        BY <2>4 DEF Decodable, NoLine
    <3>2. x \in Samples /\ y \in Samples
        BY <1>2, <2>1, <2>3, <3>1
    <3>3. Stamp(x) \in Nat /\ Stamp(y) \in Nat /\ Stamp(y) >= job.cutoff
        BY <3>2, SampleStamp
    <3>4. Placed(i - 1) /\ Placed(j - 1)
        BY <1>1, <2>1
    <3>5. Bucket(Stamp(x)) = i - 1 /\ Bucket(Stamp(y)) = j - 1
        BY <2>3, <3>1, <3>4, Zenon DEF Placed
    <3>6. SampleArgs /\ job.cutoff \in Nat
        BY DEF Stamped, SampleArgs
    <3>7. ASSUME Stamp(y) <= Stamp(x) PROVE FALSE
      <4>1. job.cutoff <= Stamp(y)
          BY <3>3, <3>6
      <4>2. Bucket(Stamp(y)) <= Bucket(Stamp(x))
          BY <3>3, <3>6, <3>7, <4>1, BucketGrows
      <4>3. QED
          BY <2>1, <3>5, <4>2
    <3>8. QED
        BY <3>3, <3>7
  <2>5. QED
      BY <2>2, <2>4 DEF Earlier
<1>7. Pairwise(s, Earlier)
    BY <1>5, <1>6 DEF Pairwise
<1>8. QED
    BY <1>1, <1>5, <1>7

\* What is returned of them.
LEMMA SampleOrder ==
    ASSUME NEW s \in Seq(Lines), Pairwise(s, Earlier)
    PROVE  /\ Decoded(s) \in Seq(Nat) /\ Len(Decoded(s)) <= Len(s)
           /\ \A i, j \in DOMAIN Decoded(s) : i < j => ts[Decoded(s)[i]] < ts[Decoded(s)[j]]
<1>1. PICK g : g = Filter(s, Decodable)
    OBVIOUS
<1>2. g \in Seq(Lines \cap Decodable) /\ Pairwise(g, Earlier) /\ Len(g) <= Len(s)
    BY <1>1, FilterInto, FilterPairwise, FilterShort
<1>3. Decoded(s) = [k \in DOMAIN g |-> g[k][1]]
    BY <1>1, Zenon DEF Decoded
<1>4. Decoded(s) \in Seq(Nat)
    BY DecodedType
<1>5. PICK r \in Seq(Nat) : r = Decoded(s) /\ r = [k \in DOMAIN g |-> g[k][1]]
    BY <1>3, <1>4
<1>6. Len(g) \in Nat /\ DOMAIN g = 1 .. Len(g)
    BY <1>2, LenProperties
<1>7. Len(r) = Len(g) /\ DOMAIN r = 1 .. Len(g)
  <2>1. DOMAIN r = 1 .. Len(g)
      BY <1>5, <1>6
  <2>2. Len(r) \in Nat /\ DOMAIN r = 1 .. Len(r)
      BY LenProperties
  <2>3. QED
      BY <1>6, <2>1, <2>2
<1>8. ASSUME NEW i \in 1 .. Len(g), NEW j \in 1 .. Len(g), i < j PROVE ts[r[i]] < ts[r[j]]
  <2>1. i \in 1 .. j - 1
      BY <1>6, <1>8
  <2>2. <<g[i], g[j]>> \in Earlier
      BY <1>2, <2>1 DEF Pairwise
  <2>3. g[i] \in Decodable /\ g[j] \in Decodable
      BY <1>2, ElementOfSeq
  <2>4. Stamp(g[i]) < Stamp(g[j])
      BY <2>2, <2>3 DEF Earlier
  <2>5. r[i] = g[i][1] /\ r[j] = g[j][1]
      BY <1>5, <1>6
  <2>6. QED
      BY <2>4, <2>5, Zenon DEF Stamp
<1>9. QED
    BY <1>2, <1>5, <1>7, <1>8

\* DecodeSinceSampled returns at most sampleSize records, from old to new, and one
\* not older for every record found, unless a line that does not decode has taken
\* its bucket.
THEOREM SamplesSound == Spec => []SampledSound
<1>1. ASSUME Writer, Ordered, SinceInv, job.kind = "since", pc = "done", job.size > 0
      PROVE  /\ Len(out) <= job.size
             /\ \A i, j \in DOMAIN out : i < j => ts[out[i]] < ts[out[j]]
             /\ \A r \in job.whole : ts[r] >= job.cutoff =>
                  \/ \E i \in DOMAIN out : Bucket(ts[out[i]]) = Bucket(ts[r]) /\ ts[out[i]] >= ts[r]
                  \/ \E l \in Undecodable :
                       Stamp(l) >= job.cutoff /\ Bucket(Stamp(l)) = Bucket(ts[r]) /\ Stamp(l) >= ts[r]
  <2>1. Stamped /\ job.size # 0 /\ job.whole \subseteq 1 .. rec
      BY <1>1 DEF Stamped, SampleArgs, SinceInv, Asked, Ordered, Writer
  <2>2. /\ kept = <<>> \/ kept \in Buckets
        /\ kept # <<>> => \A b \in 0 .. job.size - 1 : Placed(b)
        /\ \A r \in job.whole : ts[r] >= job.cutoff => Due(r) \/ Answered(r)
        /\ out = IF kept = <<>> THEN <<>> ELSE Decoded([k \in 1 .. job.size |-> kept[k - 1]])
      BY <1>1, <2>1, Zenon DEF SinceInv, Sampling
  <2>3. \A r \in job.whole : ts[r] >= job.cutoff => Answered(r)
      BY <1>1, <2>2 DEF Due
  <2>4. CASE kept = <<>>
    <3>1. out = <<>>
        BY <2>2, <2>4, Zenon
    <3>2. Len(out) = 0 /\ DOMAIN out = {}
        BY <3>1
    <3>3. \A r \in job.whole : ~(ts[r] >= job.cutoff)
        BY <2>3, <2>4 DEF Answered
    <3>4. 0 <= job.size
        BY <2>1 DEF Stamped, SampleArgs
    <3>5. QED
        BY <3>2, <3>3, <3>4
  <2>5. CASE kept # <<>>
    <3>1. PICK s : s = [k \in 1 .. job.size |-> kept[k - 1]]
        OBVIOUS
    <3>2. kept \in Buckets /\ \A b \in 0 .. job.size - 1 : Placed(b)
        BY <2>2, <2>5
    <3>3. s \in Seq(Lines) /\ Len(s) = job.size /\ Pairwise(s, Earlier)
        BY <2>1, <3>1, <3>2, BucketsInOrder
    <3>4. out = Decoded(s)
        BY <2>2, <2>5, <3>1, Zenon
    <3>5. /\ out \in Seq(Nat) /\ Len(out) <= job.size
          /\ \A i, j \in DOMAIN out : i < j => ts[out[i]] < ts[out[j]]
      <4>1. /\ Decoded(s) \in Seq(Nat) /\ Len(Decoded(s)) <= Len(s)
            /\ \A i, j \in DOMAIN Decoded(s) : i < j => ts[Decoded(s)[i]] < ts[Decoded(s)[j]]
          BY <3>3, SampleOrder
      <4>2. QED
          BY <3>3, <3>4, <4>1, Zenon
    <3>6. ASSUME NEW r \in job.whole, ts[r] >= job.cutoff
          PROVE  \/ \E i \in DOMAIN out : Bucket(ts[out[i]]) = Bucket(ts[r]) /\ ts[out[i]] >= ts[r]
                 \/ \E l \in Undecodable :
                      Stamp(l) >= job.cutoff /\ Bucket(Stamp(l)) = Bucket(ts[r]) /\ Stamp(l) >= ts[r]
      <4>1. PICK e : e = Bucket(ts[r])
          OBVIOUS
      <4>2. PICK l : l = kept[e]
          OBVIOUS
      <4>3. l # NoLine /\ Stamp(l) >= ts[r]
          BY <2>3, <3>6, <4>1, <4>2, Zenon DEF Answered, Beaten
      <4>4. e \in 0 .. job.size - 1
        <5>1. r \in 1 .. rec
            BY <2>1
        <5>2. r \in Recs
            BY <2>1, <5>1, ReaderAssumption DEF Stamped, Recs
        <5>3. ts[r] \in Nat /\ SampleArgs /\ job.cutoff \in Nat
            BY <2>1, <5>2 DEF Stamped, SampleArgs
        <5>4. job.cutoff <= ts[r] /\ ts[r] <= ts[r]
            BY <3>6, <5>3
        <5>5. QED
            BY <4>1, <5>3, <5>4, BucketGrows
      <4>5. l \in Samples
          BY <3>2, <4>2, <4>3, <4>4 DEF Buckets
      <4>6. Stamp(l) >= job.cutoff /\ Bucket(Stamp(l)) = e
        <5>1. Placed(e)
            BY <3>2, <4>4
        <5>2. Bucket(Stamp(l)) = e
            BY <4>2, <4>3, <5>1, Zenon DEF Placed
        <5>3. QED
            BY <4>5, <5>2 DEF Samples
      <4>7. CASE l \in Decodable
        <5>1. l \in ToSet(s)
          <6>1. e + 1 \in 1 .. job.size /\ (e + 1) - 1 = e
              BY <2>1, <4>4 DEF Stamped, SampleArgs
          <6>2. s[e + 1] = l
              BY <3>1, <4>2, <6>1
          <6>3. QED
              BY <3>3, <6>1, <6>2, SetType
        <5>2. l[1] \in ToSet(out)
            BY <3>3, <3>4, <4>7, <5>1, DecodedMembers
        <5>3. PICK i \in DOMAIN out : out[i] = l[1]
            BY <3>5, <5>2, SetType
        <5>4. ts[out[i]] = Stamp(l)
            BY <5>3, Zenon DEF Stamp
        <5>5. QED
            BY <4>1, <4>3, <4>6, <5>4, Zenon
      <4>8. CASE l \notin Decodable
        <5>1. PICK d \in Days : l \in ToSet(Scanned(seen[d]))
            BY <3>2, <4>2, <4>3, <4>4, Zenon DEF Placed
        <5>2. PICK U : U = UNION {ToSet(Scanned(seen[f])) : f \in Days}
            OBVIOUS
        <5>3. l \in U
            BY <5>1, <5>2, Zenon
        <5>4. l \in Undecodable
            BY <4>8, <5>2, <5>3, Zenon DEF Undecodable
        <5>5. QED
            BY <4>1, <4>3, <4>6, <5>4, Zenon
      <4>9. QED
          BY <4>7, <4>8
    <3>7. QED
        BY <3>5, <3>6
  <2>6. QED
      BY <2>4, <2>5
<1>2. Writer /\ Ordered /\ SinceInv => SampledSound
    BY <1>1, Zenon DEF SampledSound
<1>3. RetentionInv => Writer
    BY DEF RetentionInv
<1>4. QED
    BY <1>2, <1>3, RetentionInvariant, StoreInOrder, SinceInvariant, PTL
=============================================================================
