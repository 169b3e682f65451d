---------------------------- MODULE TunnelProofs ----------------------------
(* Proofs about Tunnel, for every set of callers and every number of         *)
(* messages and pieces: types and mutual exclusion in WriteMessage, what     *)
(* TCPRelay and ConnectWithOptions leave behind when they return, that an    *)
(* uncut resize message is never seen by the shell, and that each stream     *)
(* through the tunnel is a byte stream.                                      *)
EXTENDS Tunnel, SequenceTheorems, TLAPS

-----------------------------------------------------------------------------
(* The inductive invariant.                                                  *)

\* The buffers on the way hold sequences of pieces.
BufferTypes ==
    /\ inbox \in Seq(Seq(Int))
    /\ rdBuf \in Seq(Int) /\ hold \in Seq(Int) /\ pending \in Seq(Int) /\ gotUp \in Seq(Int)
    /\ chan \in [Sides -> Seq(Int)] /\ out \in [Sides -> Seq(Int)]
    /\ gotDown \in [Sides -> Seq(Int)]

Setup == {"dial", "session", "pty", "shell"}

\* Nothing runs before the caller has started it: Bridge starts the reader and
\* one copier, session.Shell the reader, the stdin copier and both copiers.
NotStarted ==
    /\ main = "dial" => remote = "none"
    /\ main \in Setup => up = "off" /\ stdin = "off" /\ \A s \in Sides : down[s] = "off"

\* The caller's way through Bridge or ConnectWithOptions, and who is left when
\* it gets to the deferred closes.
Phases ==
    /\ main \in {"session", "pty", "shell", "wait", "join", "report", "reporting"} => Ssh
    /\ main \in {"first", "closeA", "closeB", "second"} => ~Ssh
    /\ ~Ssh => down["err"] = "off"
    /\ Ssh /\ main \in {"report", "reporting", "close", "returned"} =>
         \A s \in Sides : down[s] \in {"off", "done"}
    /\ kind = "tcp" /\ main \in {"close", "returned"} =>
         up \in {"off", "done"} /\ down["out"] \in {"off", "done"}
    /\ main = "returned" /\ kind # "bare" => ~open /\ remote \in {"none", "closed"}

ControlInv == TypeOK /\ BufferTypes /\ NotStarted /\ Phases

\* No piece of b belongs to a resize message.
Clean(b) == \A i \in 1 .. Len(b) : b[i] \notin Control

\* A resize message is in the inbox whole or not at all, and what was asked for
\* is the only size known.
ResizeInv ==
    kind = "ssh" /\ ~cut =>
        /\ Clean(rdBuf) /\ Clean(hold) /\ Clean(pending) /\ ~leaked
        /\ \A j \in 1 .. Len(inbox) : Clean(inbox[j]) \/ inbox[j] \in asked
        /\ size # "other" /\ win # "other"
        /\ size = "zero" \/ win = "zero" => <<Head0, BadTail>> \in asked

\* The pieces of b are those behind the first a of a stream.
Follows(b, a) == \A i \in 1 .. Len(b) : b[i] = a + i

\* b takes a stream of data pieces from length a to length z.
Carries(b, a, z) ==
    \/ Follows(b, a) /\ z = a + Len(b)
    \/ z = a /\ \A i \in 1 .. Len(b) : b[i] \in Control

\* The messages of box, one after the other, take it from length a to length z;
\* mark[j] is where message j begins.
Chain(box, a, z) ==
    \E mark \in [1 .. Len(box) + 1 -> 0 .. z] :
        /\ mark[1] = a /\ mark[Len(box) + 1] = z
        /\ \A j \in 1 .. Len(box) : Carries(box[j], mark[j], mark[j + 1])

\* Until the reader is done or the remote end gone, what has reached the remote
\* end goes on in hold, then in pending, in rdBuf and in the inbox, up to the
\* last piece sent.
InStream ==
    /\ Follows(gotUp, 0) /\ Len(gotUp) <= sentUp
    /\ up # "done" /\ remote \in {"none", "open"} =>
         \E h, p, r \in 0 .. sentUp :
           /\ Carries(hold, Len(gotUp), h) /\ Carries(pending, h, p) /\ Carries(rdBuf, p, r)
           /\ Chain(inbox, r, sentUp)

\* A stream of n pieces, of which g has arrived, goes on in b and then in c.
Flow(g, b, c, n) ==
    /\ Follows(b, Len(g)) /\ Follows(c, Len(g) + Len(b))
    /\ Len(g) + Len(b) + Len(c) = n

\* Until the copier is done or the client gone, what has reached the client
\* goes on in the copier's buffer and in the remote end's stream.
OutStreamOf(s) ==
    /\ Follows(gotDown[s], 0) /\ Len(gotDown[s]) <= sentDown[s]
    /\ down[s] \in {"off", "read"} => out[s] = <<>>
    /\ down[s] # "done" /\ client # "gone" => Flow(gotDown[s], out[s], chan[s], sentDown[s])

OutStream == \A s \in Sides : OutStreamOf(s)

-----------------------------------------------------------------------------
(* Buffers.                                                                  *)

(* A buffer cut behind its first n pieces: the pieces of both parts.         *)
LEMMA Parts ==
    ASSUME NEW b \in Seq(Int), NEW n \in 0 .. Len(b)
    PROVE  /\ SubSeq(b, 1, n) \in Seq(Int) /\ SubSeq(b, n + 1, Len(b)) \in Seq(Int)
           /\ Len(SubSeq(b, 1, n)) = n /\ Len(SubSeq(b, n + 1, Len(b))) = Len(b) - n
           /\ \A i \in 1 .. n : SubSeq(b, 1, n)[i] = b[i]
           /\ \A i \in 1 .. (Len(b) - n) : SubSeq(b, n + 1, Len(b))[i] = b[n + i]
<1>1. Len(b) \in Nat /\ n \in Int /\ Len(b) \in Int /\ n + 1 \in Int /\ 1 \in Int
    BY LenProperties
<1>2. \A i \in 1 .. Len(b) : b[i] \in Int
    BY ElementOfSeq
<1>3. /\ SubSeq(b, 1, n) \in Seq(Int)
      /\ Len(SubSeq(b, 1, n)) = IF 1 <= n THEN n - 1 + 1 ELSE 0
      /\ \A i \in 1 .. n - 1 + 1 : SubSeq(b, 1, n)[i] = b[1 + i - 1]
    BY <1>1, <1>2, SubSeqProperties
<1>4. \A i \in (n + 1) .. Len(b) : b[i] \in Int
    BY <1>1, <1>2
<1>5. /\ SubSeq(b, n + 1, Len(b)) \in Seq(Int)
      /\ Len(SubSeq(b, n + 1, Len(b))) = IF n + 1 <= Len(b) THEN Len(b) - (n + 1) + 1 ELSE 0
      /\ \A i \in 1 .. Len(b) - (n + 1) + 1 : SubSeq(b, n + 1, Len(b))[i] = b[n + 1 + i - 1]
    BY <1>1, <1>4, SubSeqProperties
<1>6. \A i \in 1 .. n : SubSeq(b, 1, n)[i] = b[i]
    BY <1>1, <1>3
<1>7. \A i \in 1 .. (Len(b) - n) : SubSeq(b, n + 1, Len(b))[i] = b[n + i]
  <2> TAKE i \in 1 .. (Len(b) - n)
  <2>1. i \in 1 .. Len(b) - (n + 1) + 1 /\ n + 1 + i - 1 = n + i
      BY <1>1
  <2> QED
      BY <1>5, <2>1
<1> QED
    BY <1>1, <1>3, <1>5, <1>6, <1>7

(* A buffer is empty exactly when its length is 0.                           *)
LEMMA EmptyLen ==
    ASSUME NEW S, NEW b \in Seq(S)
    PROVE  Len(b) \in Nat /\ (b = <<>> <=> Len(b) = 0)
BY EmptySeq, LenProperties

(* A resize message is two pieces.                                           *)
LEMMA ResizeIsSeq ==
    ASSUME NEW m \in Resizes
    PROVE  m \in Seq(Int) /\ Len(m) = 2 /\ m[1] = Head0 /\ m[2] \in {Tail0, BadTail}
<1>1. Head0 \in Int /\ Tail0 \in Int /\ BadTail \in Int
    BY DEF Head0, Tail0, BadTail
<1>2. <<Head0, Tail0>> \in Seq(Int) /\ <<Head0, BadTail>> \in Seq(Int)
    BY <1>1
<1>3. \A a, b : Len(<<a, b>>) = 2 /\ <<a, b>>[1] = a /\ <<a, b>>[2] = b
    OBVIOUS
<1>4. m = <<Head0, Tail0>> \/ m = <<Head0, BadTail>>
    BY DEF Resizes
<1>5. CASE m = <<Head0, Tail0>>
    BY <1>2, <1>3, <1>5
<1>6. CASE m = <<Head0, BadTail>>
    BY <1>2, <1>3, <1>6
<1> QED
    BY <1>4, <1>5, <1>6

(* What Conn.Read reads from is a message, and the inbox stays one.          *)
LEMMA MessageIsSeq ==
    ASSUME BufferTypes, Unread
    PROVE  /\ Message \in Seq(Int)
           /\ (IF rdBuf # <<>> THEN inbox ELSE Tail(inbox)) \in Seq(Seq(Int))
<1>1. CASE rdBuf # <<>>
    BY <1>1 DEF BufferTypes, Message
<1>2. CASE rdBuf = <<>>
    BY <1>2, HeadTailProperties DEF BufferTypes, Message, Unread
<1> QED
    BY <1>1, <1>2

(* A read of n pieces of the message, passed on up to piece k: what is       *)
(* passed on, kept in pending and left in rdBuf.                             *)
LEMMA ReadParts ==
    ASSUME NEW m \in Seq(Int), NEW n \in 1 .. Len(m), NEW k \in 1 .. n
    PROVE  /\ SubSeq(m, 1, n) \in Seq(Int) /\ Len(SubSeq(m, 1, n)) = n
           /\ SubSeq(m, n + 1, Len(m)) \in Seq(Int)
           /\ SubSeq(SubSeq(m, 1, n), 1, k) \in Seq(Int)
           /\ SubSeq(SubSeq(m, 1, n), 1, k) # <<>>
           /\ SubSeq(SubSeq(m, 1, n), k + 1, n) \in Seq(Int)
<1> DEFINE d == SubSeq(m, 1, n)
<1>1. Len(m) \in Nat
    BY LenProperties
<1>2. n \in 0 .. Len(m)
    BY <1>1
<1>3. d \in Seq(Int) /\ Len(d) = n /\ SubSeq(m, n + 1, Len(m)) \in Seq(Int)
    BY <1>2, Parts
<1>4. k \in 0 .. Len(d)
    BY <1>1, <1>3
<1> HIDE DEF d
<1>5. SubSeq(d, 1, k) \in Seq(Int) /\ Len(SubSeq(d, 1, k)) = k /\ SubSeq(d, k + 1, Len(d)) \in Seq(Int)
    BY <1>3, <1>4, Parts
<1>6. SubSeq(d, 1, k) # <<>>
  <2>1. Len(SubSeq(d, 1, k)) # 0
      BY <1>1, <1>5
  <2>2. Len(<<>>) = 0
      BY EmptySeq
  <2> QED
      BY <2>1, <2>2, Zenon
<1> QED
    BY <1>3, <1>5, <1>6 DEF d

(* BufferTypes and HoldsWhileWriting are kept by UpReads.                    *)
LEMMA UpReadsBuffers ==
    ASSUME BufferTypes, HoldsWhileWriting, UpReads
    PROVE  BufferTypes' /\ HoldsWhileWriting'
<1>0. Message \in Seq(Int) /\ Unread /\ up = "read" /\ hold = <<>>
    BY MessageIsSeq DEF UpReads, HoldsWhileWriting
<1>1. PICK n \in 1 .. Len(Message) : LET data == SubSeq(Message, 1, n) IN
         /\ ConnRead(n)
         /\ \/ UNCHANGED <<up, hold, pending>>
            \/ /\ up' = "write"
               /\ \E k \in 1 .. n : hold' = SubSeq(data, 1, k) /\ pending' = SubSeq(data, k + 1, n)
    BY DEF UpReads
<1>2. inbox' \in Seq(Seq(Int)) /\ rdBuf' \in Seq(Int)
  <2>1. n \in 0 .. Len(Message)
      BY <1>0, <1>1, LenProperties
  <2> QED
      BY <1>0, <1>1, <2>1, MessageIsSeq, Parts DEF ConnRead
<1>3. hold' \in Seq(Int) /\ pending' \in Seq(Int) /\ HoldsWhileWriting'
  <2>1. CASE UNCHANGED <<up, hold, pending>>
      BY <2>1 DEF BufferTypes, HoldsWhileWriting
  <2>2. ASSUME up' = "write", NEW k \in 1 .. n,
               hold' = SubSeq(SubSeq(Message, 1, n), 1, k),
               pending' = SubSeq(SubSeq(Message, 1, n), k + 1, n)
        PROVE  hold' \in Seq(Int) /\ pending' \in Seq(Int) /\ HoldsWhileWriting'
      BY <1>0, <1>1, <2>2, ReadParts DEF HoldsWhileWriting
  <2> QED
      BY <1>1, <2>1, <2>2
<1> QED
    BY <1>2, <1>3 DEF BufferTypes, UpReads, downVars, gotVars

(* Writing the first k pieces of hold to the remote end.                     *)
LEMMA UpWritesBuffers ==
    ASSUME BufferTypes, HoldsWhileWriting, UpWrites
    PROVE  BufferTypes' /\ HoldsWhileWriting'
<1>1. PICK k \in 1 .. Len(hold) :
         /\ Reach(IF remote = "open" THEN SubSeq(hold, 1, k) ELSE <<>>)
         /\ hold' = SubSeq(hold, k + 1, Len(hold))
         /\ up' = IF k = Len(hold) THEN "read" ELSE "write"
    BY DEF UpWrites
<1>2. Len(hold) \in Nat /\ k \in 0 .. Len(hold)
    BY <1>1, LenProperties DEF BufferTypes
<1>3. /\ hold' \in Seq(Int) /\ Len(hold') = Len(hold) - k
      /\ SubSeq(hold, 1, k) \in Seq(Int)
    BY <1>1, <1>2, Parts DEF BufferTypes
<1>4. HoldsWhileWriting'
  <2>1. hold' # <<>> <=> Len(hold) # k
      BY <1>2, <1>3, EmptyLen
  <2> QED
      BY <1>1, <2>1 DEF HoldsWhileWriting
<1>5. gotUp' \in Seq(Int)
  <2>1. (IF remote = "open" THEN SubSeq(hold, 1, k) ELSE <<>>) \in Seq(Int) /\ <<>> \in Seq(Int)
      BY <1>3, EmptySeq
  <2> QED
      BY <1>1, <2>1, ConcatProperties DEF Reach, BufferTypes
<1> QED
    BY <1>3, <1>4, <1>5 DEF BufferTypes, UpWrites, clientVars, connVars, downVars

(* BufferTypes and HoldsWhileWriting are kept by every step.                 *)
LEMMA BuffersStep ==
    ASSUME BufferTypes, HoldsWhileWriting, NotStarted, Values, [Next]_vars
    PROVE  BufferTypes' /\ HoldsWhileWriting'
<1> USE DEF BufferTypes, HoldsWhileWriting
<1>1. CASE ClientSends
  <2>1. PICK n \in 1 .. 2 : inbox' = Append(inbox, [i \in 1 .. n |-> sentUp + i])
      BY <1>1 DEF ClientSends, Post
  <2>2. [i \in 1 .. n |-> sentUp + i] \in [1 .. n -> Int]
      BY TunnelAssumption DEF Values
  <2>3. [i \in 1 .. n |-> sentUp + i] \in Seq(Int)
      BY <2>2, SeqDef
  <2> QED
      BY <1>1, <2>1, <2>3, AppendProperties DEF ClientSends, connVars, upVars, downVars, gotVars
<1>2. CASE ClientResizes
  <2>1. PICK m \in Resizes : inbox' = Append(inbox, m)
      BY <1>2 DEF ClientResizes, Post
  <2>2. m \in Seq(Int)
      BY <2>1, ResizeIsSeq
  <2> QED
      BY <1>2, <2>1, <2>2, AppendProperties DEF ClientResizes, connVars, upVars, downVars, gotVars
<1>3. CASE RemoteSends
  <2>1. PICK s \in Sides : chan' = [chan EXCEPT ![s] = Append(@, sentDown[s] + 1)]
      BY <1>3, TunnelAssumption DEF RemoteSends, Values, Sides
  <2>2. Append(chan[s], sentDown[s] + 1) \in Seq(Int)
      BY <2>1, TunnelAssumption, AppendProperties DEF Values
  <2> QED
      BY <1>3, <2>1, <2>2 DEF RemoteSends, clientVars, connVars, upVars, gotVars
<1>4. CASE UpServesPending
  <2>1. PICK k \in 1 .. Len(pending) :
           hold' = SubSeq(pending, 1, k) /\ pending' = SubSeq(pending, k + 1, Len(pending))
      BY <1>4 DEF UpServesPending
  <2>2. Len(pending) \in Nat /\ k \in 0 .. Len(pending)
      BY <2>1, LenProperties
  <2>3. hold' \in Seq(Int) /\ pending' \in Seq(Int) /\ Len(hold') = k
      BY <2>1, <2>2, Parts
  <2>4. hold' # <<>>
      BY <2>2, <2>3, EmptyLen
  <2> QED
      BY <1>4, <2>3, <2>4 DEF UpServesPending, clientVars, connVars, downVars, gotVars
<1>5. CASE PipeThrough
  <2>1. gotUp' \in Seq(Int)
      BY <1>5, EmptySeq, ConcatProperties DEF PipeThrough, Reach
  <2> QED
      BY <1>5, <2>1, EmptySeq DEF PipeThrough, clientVars, connVars, downVars
<1>6. ASSUME NEW s \in Sides, DownReads(s)
      PROVE  BufferTypes' /\ HoldsWhileWriting'
  <2>1. PICK n \in 1 .. Len(chan[s]) :
           /\ out' = [out EXCEPT ![s] = SubSeq(chan[s], 1, n)]
           /\ chan' = [chan EXCEPT ![s] = SubSeq(@, n + 1, Len(@))]
      BY <1>6 DEF DownReads
  <2>2. n \in 0 .. Len(chan[s]) /\ chan[s] \in Seq(Int)
      BY <2>1, LenProperties
  <2>3. SubSeq(chan[s], 1, n) \in Seq(Int) /\ SubSeq(chan[s], n + 1, Len(chan[s])) \in Seq(Int)
      BY <2>2, Parts
  <2> QED
      BY <1>6, <2>1, <2>3 DEF DownReads, clientVars, connVars, upVars, gotVars
<1>7. ASSUME NEW s \in Sides, DownWrites(s)
      PROVE  BufferTypes' /\ HoldsWhileWriting'
  <2>1. gotDown[s] \o out[s] \in Seq(Int) /\ <<>> \in Seq(Int)
      BY ConcatProperties, EmptySeq
  <2> QED
      BY <1>7, <2>1 DEF DownWrites, clientVars, connVars, upVars
<1>8. CASE ClientTurns
    BY <1>8 DEF ClientTurns, connVars, upVars, downVars, gotVars
<1>9. CASE RemoteEnds
    BY <1>9 DEF RemoteEnds, clientVars, connVars, upVars, downVars, gotVars
<1>10. CASE UpReadFails
    BY <1>10 DEF UpReadFails, clientVars, connVars, downVars, gotVars
<1>11. CASE ReadDeadline
    BY <1>11 DEF ReadDeadline, clientVars, connVars, downVars, gotVars
<1>12. CASE UpWriteFails
    BY <1>12, EmptySeq DEF UpWriteFails, clientVars, connVars, downVars, gotVars, Ssh, kind
<1>13. CASE PipeFails
    BY <1>13, EmptySeq DEF PipeFails, clientVars, connVars, downVars, gotVars, Ssh, kind
<1>14. CASE StdinEnds
    BY <1>14 DEF StdinEnds, clientVars, connVars, upVars, downVars, gotVars
<1>15. CASE ReportLocks
    BY <1>15 DEF ReportLocks, clientVars, connVars, upVars, downVars, gotVars
<1>16. CASE Reports
    BY <1>16 DEF Reports, clientVars, upVars, downVars, gotVars
<1>17. CASE Dial
    BY <1>17 DEF Dial, callerKept, Ssh, clientVars, gotVars, kind, NotStarted, Setup
<1>18. CASE SetupFails
    BY <1>18 DEF SetupFails, upVars, callerKept, kind, Ssh, clientVars, gotVars
<1>19. CASE NewSession
    BY <1>19 DEF NewSession, upVars, callerKept, clientVars, gotVars
<1>20. CASE RequestPty
    BY <1>20 DEF RequestPty, callerKept, kind, clientVars, gotVars
<1>21. CASE Shell
    BY <1>21 DEF Shell, callerKept, clientVars, gotVars, NotStarted, Setup
<1>22. CASE WaitExit
    BY <1>22 DEF WaitExit, upVars, callerKept, clientVars, gotVars
<1>23. CASE WaitJoins
    BY <1>23 DEF WaitJoins, upVars, callerKept, clientVars, gotVars
<1>24. CASE BridgeFirst
    BY <1>24 DEF BridgeFirst, upVars, callerKept, clientVars, gotVars
<1>25. CASE BridgeClosesA
    BY <1>25 DEF BridgeClosesA, upVars, callerKept, clientVars, gotVars
<1>26. CASE BridgeClosesB
    BY <1>26 DEF BridgeClosesB, upVars, callerKept, kind, clientVars, gotVars
<1>27. CASE BridgeSecond
    BY <1>27 DEF BridgeSecond, upVars, callerKept, clientVars, gotVars
<1>28. CASE Return
    BY <1>28 DEF Return, upVars, callerKept, kind, clientVars, gotVars
<1>29. CASE PingFails
    BY <1>29 DEF PingFails, kaKept, clientVars, gotVars, upVars, downVars
<1>30. CASE KeepAliveStop
    BY <1>30 DEF KeepAliveStop, kaKept, clientVars, gotVars, upVars, downVars
<1>31. ASSUME NEW s \in Sides, DownEnds(s)
      PROVE  BufferTypes' /\ HoldsWhileWriting'
    BY <1>31 DEF DownEnds, clientVars, connVars, upVars, gotVars
<1>32. ASSUME NEW s \in Sides, DownLocks(s)
      PROVE  BufferTypes' /\ HoldsWhileWriting'
    BY <1>32 DEF DownLocks, clientVars, connVars, upVars, gotVars
<1>33. ASSUME NEW s \in Sides, DownWriteFails(s)
      PROVE  BufferTypes' /\ HoldsWhileWriting'
    BY <1>33, EmptySeq DEF DownWriteFails, clientVars, upVars, gotVars
<1>34. CASE UNCHANGED vars
    BY <1>34 DEF vars, clientVars, connVars, upVars, downVars, gotVars
<1> QED
    BY <1>1, <1>2, <1>3, <1>4, <1>5, <1>6, <1>7, <1>8, <1>9, <1>10, <1>11, <1>12, <1>13, <1>14, <1>15, <1>16, <1>17, <1>18, <1>19, <1>20, <1>21, <1>22, <1>23, <1>24, <1>25, <1>26, <1>27, <1>28, <1>29, <1>30, <1>31, <1>32, <1>33, <1>34,
       UpReadsBuffers, UpWritesBuffers DEF Next, Up, Down, Main, Peers
(* Values is kept by every step.                                             *)
LEMMA ValuesStep ==
    ASSUME Values, [Next]_vars
    PROVE  Values'
<1> USE TunnelAssumption DEF Values, Sides
<1>1. CASE ClientSends
    BY <1>1 DEF ClientSends, connVars, upVars, downVars, gotVars
<1>2. CASE ClientResizes
    BY <1>2 DEF ClientResizes, connVars, upVars, downVars, gotVars, kind
<1>3. CASE ClientTurns
    BY <1>3 DEF ClientTurns, connVars, upVars, downVars, gotVars
<1>4. CASE RemoteSends
    BY <1>4 DEF RemoteSends, clientVars, connVars, upVars, gotVars, Ssh, kind
<1>5. CASE RemoteEnds
    BY <1>5 DEF RemoteEnds, clientVars, connVars, upVars, downVars, gotVars
<1>6. CASE UpReads
  <2>1. PICK n \in 1 .. Len(Message) : LET data == SubSeq(Message, 1, n) IN
           /\ cut' = (cut \/ data = <<Head0>>)
           /\ \E t \in TakenFor(data) :
                \/ t # "text" /\ Resize(t) /\ UNCHANGED <<up, hold, pending>>
                \/ t = "text" /\ up' = "write" /\ UNCHANGED <<size, win>>
      BY <1>6 DEF UpReads
  <2>2. cut' \in BOOLEAN
      BY <2>1, Zenon
  <2>3. \A data : TakenFor(data) \subseteq {"text", "asked", "zero", "other"}
      BY DEF TakenFor, ParseResize
  <2>4. up' \in {"off", "read", "write", "done"}
      BY <2>1
  <2>5. /\ size' \in {"none", "asked", "zero", "other"}
        /\ win' \in {"none", "initial", "asked", "zero", "other"}
      BY <2>1, <2>3 DEF Resize
  <2> QED
      BY <1>6, <2>2, <2>4, <2>5 DEF UpReads, downVars, gotVars
<1>7. CASE UpServesPending
    BY <1>7 DEF UpServesPending, clientVars, connVars, downVars, gotVars
<1>8. CASE UpReadFails
    BY <1>8 DEF UpReadFails, clientVars, connVars, downVars, gotVars
<1>9. CASE ReadDeadline
    BY <1>9 DEF ReadDeadline, clientVars, connVars, downVars, gotVars
<1>10. CASE UpWrites
  <2>1. leaked' \in BOOLEAN /\ up' \in {"read", "write"}
      BY <1>10 DEF UpWrites, Reach
  <2> QED
      BY <1>10, <2>1 DEF UpWrites, clientVars, connVars, downVars
<1>11. CASE UpWriteFails
    BY <1>11 DEF UpWriteFails, clientVars, connVars, downVars, gotVars, Ssh, kind
<1>12. CASE PipeThrough
  <2>1. leaked' \in BOOLEAN
      BY <1>12 DEF PipeThrough, Reach
  <2> QED
      BY <1>12, <2>1 DEF PipeThrough, clientVars, connVars, downVars
<1>13. CASE PipeFails
    BY <1>13 DEF PipeFails, clientVars, connVars, downVars, gotVars, Ssh, kind
<1>14. CASE StdinEnds
    BY <1>14 DEF StdinEnds, clientVars, connVars, upVars, downVars, gotVars
<1>15. CASE ReportLocks
    BY <1>15 DEF ReportLocks, clientVars, connVars, upVars, downVars, gotVars
<1>16. CASE Reports
    BY <1>16 DEF Reports, clientVars, upVars, downVars, gotVars
<1>17. CASE Dial
    BY <1>17 DEF Dial, callerKept, Ssh, clientVars, gotVars, kind
<1>18. CASE SetupFails
    BY <1>18 DEF SetupFails, upVars, callerKept, kind, Ssh, clientVars, gotVars
<1>19. CASE NewSession
    BY <1>19 DEF NewSession, upVars, callerKept, clientVars, gotVars
<1>20. CASE RequestPty
    BY <1>20 DEF RequestPty, callerKept, kind, clientVars, gotVars
<1>21. CASE Shell
    BY <1>21 DEF Shell, callerKept, clientVars, gotVars
<1>22. CASE WaitExit
    BY <1>22 DEF WaitExit, upVars, callerKept, clientVars, gotVars
<1>23. CASE WaitJoins
    BY <1>23 DEF WaitJoins, upVars, callerKept, clientVars, gotVars
<1>24. CASE BridgeFirst
    BY <1>24 DEF BridgeFirst, upVars, callerKept, clientVars, gotVars
<1>25. CASE BridgeClosesA
  <2>1. open' \in BOOLEAN
      BY <1>25 DEF BridgeClosesA
  <2> QED
      BY <1>25, <2>1 DEF BridgeClosesA, callerKept, clientVars, upVars, gotVars
<1>26. CASE BridgeClosesB
    BY <1>26 DEF BridgeClosesB, upVars, callerKept, kind, clientVars, gotVars
<1>27. CASE BridgeSecond
    BY <1>27 DEF BridgeSecond, upVars, callerKept, clientVars, gotVars
<1>28. CASE Return
    BY <1>28 DEF Return, upVars, callerKept, kind, clientVars, gotVars
<1>29. CASE PingFails
  <2>1. broken' \in BOOLEAN
      BY <1>29, Zenon DEF PingFails
  <2> QED
      BY <1>29, <2>1 DEF PingFails, kaKept, clientVars, upVars, downVars, gotVars
<1>30. CASE KeepAliveStop
    BY <1>30 DEF KeepAliveStop, kaKept, clientVars, gotVars, upVars, downVars
<1>31. ASSUME NEW s \in Sides, DownReads(s)
      PROVE  Values'
    BY <1>31 DEF DownReads, clientVars, connVars, upVars, gotVars
<1>32. ASSUME NEW s \in Sides, DownEnds(s)
      PROVE  Values'
    BY <1>32 DEF DownEnds, clientVars, connVars, upVars, gotVars
<1>33. ASSUME NEW s \in Sides, DownLocks(s)
      PROVE  Values'
    BY <1>33 DEF DownLocks, clientVars, connVars, upVars, gotVars
<1>34. ASSUME NEW s \in Sides, DownWrites(s)
      PROVE  Values'
    BY <1>34 DEF DownWrites, clientVars, connVars, upVars
<1>35. ASSUME NEW s \in Sides, DownWriteFails(s)
      PROVE  Values'
    BY <1>35 DEF DownWriteFails, clientVars, upVars, gotVars
<1>36. CASE UNCHANGED vars
    BY <1>36 DEF vars, clientVars, connVars, upVars, downVars, gotVars
<1> QED
    BY <1>1, <1>2, <1>3, <1>4, <1>5, <1>6, <1>7, <1>8, <1>9, <1>10, <1>11, <1>12, <1>13,
       <1>14, <1>15, <1>16, <1>17, <1>18, <1>19, <1>20, <1>21, <1>22, <1>23, <1>24, <1>25,
       <1>26, <1>27, <1>28, <1>29, <1>30, <1>31, <1>32, <1>33, <1>34, <1>35, <1>36
       DEF Next, Up, Down, Main, Peers

(* Mutual exclusion in WriteMessage is kept by every step: who locks finds   *)
(* wmu free, and no copier is restarted while it holds wmu.                  *)
LEMMA OneWriterStep ==
    ASSUME Values, OneWriter, NotStarted, [Next]_vars
    PROVE  OneWriter'
<1> USE DEF Values, OneWriter, Sides
<1>1. CASE ClientSends
    BY <1>1 DEF ClientSends, connVars, upVars, downVars, gotVars
<1>2. CASE ClientResizes
    BY <1>2 DEF ClientResizes, connVars, upVars, downVars, gotVars, kind
<1>3. CASE ClientTurns
    BY <1>3 DEF ClientTurns, connVars, upVars, downVars, gotVars
<1>4. CASE RemoteSends
    BY <1>4 DEF RemoteSends, clientVars, connVars, upVars, gotVars, Ssh, kind
<1>5. CASE RemoteEnds
    BY <1>5 DEF RemoteEnds, clientVars, connVars, upVars, downVars, gotVars
<1>6. CASE UpReads
    BY <1>6 DEF UpReads, downVars, gotVars, kind
<1>7. CASE UpServesPending
    BY <1>7 DEF UpServesPending, clientVars, connVars, downVars, gotVars
<1>8. CASE UpReadFails
    BY <1>8 DEF UpReadFails, clientVars, connVars, downVars, gotVars
<1>9. CASE ReadDeadline
    BY <1>9 DEF ReadDeadline, clientVars, connVars, downVars, gotVars
<1>10. CASE UpWrites
    BY <1>10 DEF UpWrites, clientVars, connVars, downVars, Ssh, kind
<1>11. CASE UpWriteFails
    BY <1>11 DEF UpWriteFails, clientVars, connVars, downVars, gotVars, Ssh, kind
<1>12. CASE PipeThrough
    BY <1>12 DEF PipeThrough, clientVars, connVars, downVars, Ssh, kind
<1>13. CASE PipeFails
    BY <1>13 DEF PipeFails, clientVars, connVars, downVars, gotVars, Ssh, kind
<1>14. CASE StdinEnds
    BY <1>14 DEF StdinEnds, clientVars, connVars, upVars, downVars, gotVars
<1>15. CASE ReportLocks
    BY <1>15 DEF ReportLocks, clientVars, connVars, upVars, downVars, gotVars, LockFree
<1>16. CASE Reports
    BY <1>16 DEF Reports, clientVars, upVars, downVars, gotVars
<1>17. CASE Dial
    BY <1>17 DEF Dial, callerKept, Ssh, clientVars, gotVars, kind, NotStarted, Setup
<1>18. CASE SetupFails
    BY <1>18 DEF SetupFails, upVars, callerKept, kind, Ssh, clientVars, gotVars
<1>19. CASE NewSession
    BY <1>19 DEF NewSession, upVars, callerKept, clientVars, gotVars
<1>20. CASE RequestPty
    BY <1>20 DEF RequestPty, callerKept, kind, clientVars, gotVars
<1>21. CASE Shell
    BY <1>21 DEF Shell, callerKept, clientVars, gotVars, NotStarted, Setup
<1>22. CASE WaitExit
    BY <1>22 DEF WaitExit, upVars, callerKept, clientVars, gotVars
<1>23. CASE WaitJoins
    BY <1>23 DEF WaitJoins, upVars, callerKept, clientVars, gotVars
<1>24. CASE BridgeFirst
    BY <1>24 DEF BridgeFirst, upVars, callerKept, clientVars, gotVars
<1>25. CASE BridgeClosesA
    BY <1>25 DEF BridgeClosesA, upVars, callerKept, clientVars, gotVars
<1>26. CASE BridgeClosesB
    BY <1>26 DEF BridgeClosesB, upVars, callerKept, kind, clientVars, gotVars
<1>27. CASE BridgeSecond
    BY <1>27 DEF BridgeSecond, upVars, callerKept, clientVars, gotVars
<1>28. CASE Return
    BY <1>28 DEF Return, upVars, callerKept, kind, clientVars, gotVars
<1>29. CASE PingFails
    BY <1>29 DEF PingFails, kaKept, clientVars, gotVars, upVars, downVars
<1>30. CASE KeepAliveStop
    BY <1>30 DEF KeepAliveStop, kaKept, clientVars, gotVars, upVars, downVars
<1>31. ASSUME NEW s \in Sides, DownReads(s)
      PROVE  OneWriter'
    BY <1>31 DEF DownReads, clientVars, connVars, upVars, gotVars
<1>32. ASSUME NEW s \in Sides, DownEnds(s)
      PROVE  OneWriter'
    BY <1>32 DEF DownEnds, clientVars, connVars, upVars, gotVars
<1>33. ASSUME NEW s \in Sides, DownLocks(s)
      PROVE  OneWriter'
    BY <1>33 DEF DownLocks, clientVars, connVars, upVars, gotVars, LockFree
<1>34. ASSUME NEW s \in Sides, DownWrites(s)
      PROVE  OneWriter'
    BY <1>34 DEF DownWrites, clientVars, connVars, upVars
<1>35. ASSUME NEW s \in Sides, DownWriteFails(s)
      PROVE  OneWriter'
    BY <1>35 DEF DownWriteFails, clientVars, upVars, gotVars
<1>36. CASE UNCHANGED vars
    BY <1>36 DEF vars, clientVars, connVars, upVars, downVars, gotVars
<1> QED
    BY <1>1, <1>2, <1>3, <1>4, <1>5, <1>6, <1>7, <1>8, <1>9, <1>10, <1>11, <1>12, <1>13,
       <1>14, <1>15, <1>16, <1>17, <1>18, <1>19, <1>20, <1>21, <1>22, <1>23, <1>24, <1>25,
       <1>26, <1>27, <1>28, <1>29, <1>30, <1>31, <1>32, <1>33, <1>34, <1>35, <1>36
       DEF Next, Up, Down, Main, Peers

(* The phases of the caller are kept by every step.                          *)
LEMMA PhasesStep ==
    ASSUME Values, NotStarted, Phases, [Next]_vars
    PROVE  NotStarted' /\ Phases'
<1> USE DEF Values, NotStarted, Phases, Setup, Sides, Ssh, kind
<1>1. CASE ClientSends
    BY <1>1 DEF ClientSends, connVars, upVars, downVars, gotVars
<1>2. CASE ClientResizes
    BY <1>2 DEF ClientResizes, connVars, upVars, downVars, gotVars
<1>3. CASE ClientTurns
    BY <1>3 DEF ClientTurns, connVars, upVars, downVars, gotVars
<1>4. CASE RemoteSends
    BY <1>4 DEF RemoteSends, clientVars, connVars, upVars, gotVars
<1>5. CASE RemoteEnds
    BY <1>5 DEF RemoteEnds, clientVars, connVars, upVars, downVars, gotVars
<1>6. CASE UpReads
    BY <1>6 DEF UpReads, downVars, gotVars
<1>7. CASE UpServesPending
    BY <1>7 DEF UpServesPending, clientVars, connVars, downVars, gotVars
<1>8. CASE UpReadFails
    BY <1>8 DEF UpReadFails, clientVars, connVars, downVars, gotVars
<1>9. CASE ReadDeadline
    BY <1>9 DEF ReadDeadline, clientVars, connVars, downVars, gotVars
<1>10. CASE UpWrites
    BY <1>10 DEF UpWrites, clientVars, connVars, downVars
<1>11. CASE UpWriteFails
    BY <1>11 DEF UpWriteFails, clientVars, connVars, downVars, gotVars
<1>12. CASE PipeThrough
    BY <1>12 DEF PipeThrough, clientVars, connVars, downVars
<1>13. CASE PipeFails
    BY <1>13 DEF PipeFails, clientVars, connVars, downVars, gotVars
<1>14. CASE StdinEnds
    BY <1>14 DEF StdinEnds, clientVars, connVars, upVars, downVars, gotVars
<1>15. CASE ReportLocks
    BY <1>15 DEF ReportLocks, clientVars, connVars, upVars, downVars, gotVars
<1>16. CASE Reports
    BY <1>16 DEF Reports, clientVars, upVars, downVars, gotVars
<1>17. CASE Dial
    BY <1>17 DEF Dial, callerKept, clientVars, gotVars
<1>18. CASE SetupFails
    BY <1>18 DEF SetupFails, upVars, callerKept, clientVars, gotVars
<1>19. CASE NewSession
    BY <1>19 DEF NewSession, upVars, callerKept, clientVars, gotVars
<1>20. CASE RequestPty
    BY <1>20 DEF RequestPty, callerKept, clientVars, gotVars
<1>21. CASE Shell
    BY <1>21 DEF Shell, callerKept, clientVars, gotVars
<1>22. CASE WaitExit
    BY <1>22 DEF WaitExit, upVars, callerKept, clientVars, gotVars
<1>23. CASE WaitJoins
    BY <1>23 DEF WaitJoins, upVars, callerKept, clientVars, gotVars
<1>24. CASE BridgeFirst
    BY <1>24 DEF BridgeFirst, upVars, callerKept, clientVars, gotVars
<1>25. CASE BridgeClosesA
    BY <1>25 DEF BridgeClosesA, upVars, callerKept, clientVars, gotVars
<1>26. CASE BridgeClosesB
    BY <1>26 DEF BridgeClosesB, upVars, callerKept, clientVars, gotVars
<1>27. CASE BridgeSecond
    BY <1>27 DEF BridgeSecond, upVars, callerKept, clientVars, gotVars
<1>28. CASE Return
    BY <1>28 DEF Return, upVars, callerKept, clientVars, gotVars
<1>29. CASE PingFails
    BY <1>29 DEF PingFails, kaKept, clientVars, gotVars, upVars, downVars
<1>30. CASE KeepAliveStop
    BY <1>30 DEF KeepAliveStop, kaKept, clientVars, gotVars, upVars, downVars
<1>31. ASSUME NEW s \in Sides, DownReads(s)
      PROVE  NotStarted' /\ Phases'
    BY <1>31 DEF DownReads, clientVars, connVars, upVars, gotVars
<1>32. ASSUME NEW s \in Sides, DownEnds(s)
      PROVE  NotStarted' /\ Phases'
    BY <1>32 DEF DownEnds, clientVars, connVars, upVars, gotVars
<1>33. ASSUME NEW s \in Sides, DownLocks(s)
      PROVE  NotStarted' /\ Phases'
    BY <1>33 DEF DownLocks, clientVars, connVars, upVars, gotVars
<1>34. ASSUME NEW s \in Sides, DownWrites(s)
      PROVE  NotStarted' /\ Phases'
    BY <1>34 DEF DownWrites, clientVars, connVars, upVars
<1>35. ASSUME NEW s \in Sides, DownWriteFails(s)
      PROVE  NotStarted' /\ Phases'
    BY <1>35 DEF DownWriteFails, clientVars, upVars, gotVars
<1>36. CASE UNCHANGED vars
    BY <1>36 DEF vars, clientVars, connVars, upVars, downVars, gotVars
<1> QED
    BY <1>1, <1>2, <1>3, <1>4, <1>5, <1>6, <1>7, <1>8, <1>9, <1>10, <1>11, <1>12, <1>13,
       <1>14, <1>15, <1>16, <1>17, <1>18, <1>19, <1>20, <1>21, <1>22, <1>23, <1>24, <1>25,
       <1>26, <1>27, <1>28, <1>29, <1>30, <1>31, <1>32, <1>33, <1>34, <1>35, <1>36
       DEF Next, Up, Down, Main, Peers

(* The invariant holds at the start.                                         *)
LEMMA ControlInit == Init => ControlInv
<1> SUFFICES ASSUME Init PROVE ControlInv
    OBVIOUS
<1>1. Values
  <2>1. cfg \in Configs /\ sentUp \in 0 .. cfg.maxUp /\ ka \in {"on", "done"}
      BY TunnelAssumption DEF Init
  <2>2. /\ open \in BOOLEAN /\ broken \in BOOLEAN /\ ready \in BOOLEAN
        /\ cut \in BOOLEAN /\ leaked \in BOOLEAN /\ eof \in BOOLEAN
      BY DEF Init
  <2>3. /\ sentDown \in [Sides -> 0 .. MaxDown]
        /\ down \in [Sides -> {"off", "read", "write", "flush", "done"}]
      BY TunnelAssumption DEF Init
  <2> QED
      BY <2>1, <2>2, <2>3 DEF Init, Values
<1>2. HoldsWhileWriting /\ OneWriter
    BY DEF Init, HoldsWhileWriting, OneWriter, Sides
<1>3. BufferTypes
    BY EmptySeq DEF Init, BufferTypes
<1>4. NotStarted /\ Phases
    BY DEF Init, NotStarted, Phases, Setup, Sides
<1> QED
    BY <1>1, <1>2, <1>3, <1>4 DEF ControlInv, TypeOK

(* Every step keeps the invariant.                                           *)
LEMMA ControlStep == ControlInv /\ [Next]_vars => ControlInv'
BY ValuesStep, OneWriterStep, BuffersStep, PhasesStep DEF ControlInv, TypeOK

(* Type correctness; the reader holds pieces exactly while it writes them,   *)
(* and Conn.wmu is held exactly by who is in WriteMessage, whichever of the  *)
(* callers runs, however writes fail and whenever the caller reports.        *)
THEOREM TypeCorrect == Spec => []TypeOK
<1>1. ControlInv => TypeOK
    BY DEF ControlInv
<1> QED
    BY ControlInit, ControlStep, <1>1, PTL DEF Spec

(* TCPRelay and ConnectWithOptions return with both ends closed and nobody   *)
(* writing to the client, whatever failed on the way, set-up included.       *)
THEOREM ReturnsWithoutWriters == Spec => []ReturnsClean
<1>1. ControlInv => ReturnsClean
  <2>1. ASSUME ControlInv PROVE kind \in {"tcp", "bare", "ssh", "plain"}
      BY <2>1, TunnelAssumption DEF ControlInv, TypeOK, Values, kind
  <2> QED
      BY <2>1 DEF ControlInv, Phases, ReturnsClean, Sides, Ssh
<1> QED
    BY ControlInit, ControlStep, <1>1, PTL DEF Spec

-----------------------------------------------------------------------------
(* The way in: resize messages and the stream to the remote end.             *)

inVars == <<cfg, inbox, sentUp, asked, rdBuf, hold, pending, size, win, cut, gotUp, leaked>>

\* The steps that move or interpret pieces on their way in.
Inward ==
    \/ ClientSends \/ ClientResizes \/ UpReads \/ UpServesPending
    \/ UpWrites \/ UpWriteFails \/ PipeThrough \/ PipeFails \/ RequestPty

(* No other step touches what is on its way in.                              *)
LEMMA OtherSteps ==
    ASSUME [Next]_vars
    PROVE  Inward \/ UNCHANGED inVars
<1> USE DEF inVars
<1>1. CASE ClientTurns
    BY <1>1 DEF ClientTurns, connVars, upVars, downVars, gotVars
<1>2. CASE RemoteSends
    BY <1>2 DEF RemoteSends, clientVars, connVars, upVars, gotVars, Ssh, kind
<1>3. CASE RemoteEnds
    BY <1>3 DEF RemoteEnds, clientVars, connVars, upVars, downVars, gotVars
<1>4. CASE UpReadFails
    BY <1>4 DEF UpReadFails, clientVars, connVars, downVars, gotVars
<1>5. CASE ReadDeadline
    BY <1>5 DEF ReadDeadline, clientVars, connVars, downVars, gotVars
<1>6. CASE StdinEnds
    BY <1>6 DEF StdinEnds, clientVars, connVars, upVars, downVars, gotVars
<1>7. CASE ReportLocks
    BY <1>7 DEF ReportLocks, clientVars, connVars, upVars, downVars, gotVars
<1>8. CASE Reports
    BY <1>8 DEF Reports, clientVars, upVars, downVars, gotVars
<1>9. CASE Dial
    BY <1>9 DEF Dial, callerKept, Ssh, clientVars, gotVars, kind
<1>10. CASE SetupFails
    BY <1>10 DEF SetupFails, upVars, callerKept, kind, Ssh, clientVars, gotVars
<1>11. CASE NewSession
    BY <1>11 DEF NewSession, upVars, callerKept, clientVars, gotVars
<1>12. CASE Shell
    BY <1>12 DEF Shell, callerKept, clientVars, gotVars
<1>13. CASE WaitExit
    BY <1>13 DEF WaitExit, upVars, callerKept, clientVars, gotVars
<1>14. CASE WaitJoins
    BY <1>14 DEF WaitJoins, upVars, callerKept, clientVars, gotVars
<1>15. CASE BridgeFirst
    BY <1>15 DEF BridgeFirst, upVars, callerKept, clientVars, gotVars
<1>16. CASE BridgeClosesA
    BY <1>16 DEF BridgeClosesA, upVars, callerKept, clientVars, gotVars
<1>17. CASE BridgeClosesB
    BY <1>17 DEF BridgeClosesB, upVars, callerKept, kind, clientVars, gotVars
<1>18. CASE BridgeSecond
    BY <1>18 DEF BridgeSecond, upVars, callerKept, clientVars, gotVars
<1>19. CASE Return
    BY <1>19 DEF Return, upVars, callerKept, kind, clientVars, gotVars
<1>20. CASE PingFails
    BY <1>20 DEF PingFails, kaKept, clientVars, gotVars, upVars, downVars
<1>21. CASE KeepAliveStop
    BY <1>21 DEF KeepAliveStop, kaKept, clientVars, gotVars, upVars, downVars
<1>22. ASSUME NEW s \in Sides, DownReads(s)
      PROVE  UNCHANGED inVars
    BY <1>22 DEF DownReads, clientVars, connVars, upVars, gotVars
<1>23. ASSUME NEW s \in Sides, DownEnds(s)
      PROVE  UNCHANGED inVars
    BY <1>23 DEF DownEnds, clientVars, connVars, upVars, gotVars
<1>24. ASSUME NEW s \in Sides, DownLocks(s)
      PROVE  UNCHANGED inVars
    BY <1>24 DEF DownLocks, clientVars, connVars, upVars, gotVars
<1>25. ASSUME NEW s \in Sides, DownWrites(s)
      PROVE  UNCHANGED inVars
    BY <1>25 DEF DownWrites, clientVars, connVars, upVars
<1>26. ASSUME NEW s \in Sides, DownWriteFails(s)
      PROVE  UNCHANGED inVars
    BY <1>26 DEF DownWriteFails, clientVars, upVars, gotVars
<1>27. CASE UNCHANGED vars
    BY <1>27 DEF vars, clientVars, connVars, upVars, downVars, gotVars
<1> QED
    BY <1>1, <1>2, <1>3, <1>4, <1>5, <1>6, <1>7, <1>8, <1>9, <1>10, <1>11, <1>12, <1>13,
       <1>14, <1>15, <1>16, <1>17, <1>18, <1>19, <1>20, <1>21, <1>22, <1>23, <1>24, <1>25,
       <1>26, <1>27
       DEF Next, Up, Down, Main, Peers, Inward

(* A reader that is done stays done, and a remote end that is gone or closed *)
(* is not opened again.                                                      *)
LEMMA NoWayBack ==
    ASSUME NotStarted, [Next]_vars
    PROVE  /\ up' # "done" => up # "done"
           /\ remote' \in {"none", "open"} => remote \in {"none", "open"}
<1> DEFINE G == /\ up' # "done" => up # "done"
                /\ remote' \in {"none", "open"} => remote \in {"none", "open"}
<1>1. CASE ClientSends
    BY <1>1 DEF ClientSends, connVars, upVars, downVars, gotVars
<1>2. CASE ClientResizes
    BY <1>2 DEF ClientResizes, connVars, upVars, downVars, gotVars, kind
<1>3. CASE ClientTurns
    BY <1>3 DEF ClientTurns, connVars, upVars, downVars, gotVars
<1>4. CASE RemoteSends
    BY <1>4 DEF RemoteSends, clientVars, connVars, upVars, gotVars, Ssh, kind
<1>5. CASE RemoteEnds
    BY <1>5 DEF RemoteEnds, clientVars, connVars, upVars, downVars, gotVars
<1>6. CASE UpReads
    BY <1>6 DEF UpReads, downVars, gotVars, kind
<1>7. CASE UpServesPending
    BY <1>7 DEF UpServesPending, clientVars, connVars, downVars, gotVars
<1>8. CASE UpReadFails
    BY <1>8 DEF UpReadFails, clientVars, connVars, downVars, gotVars
<1>9. CASE ReadDeadline
    BY <1>9 DEF ReadDeadline, clientVars, connVars, downVars, gotVars
<1>10. CASE UpWrites
    BY <1>10 DEF UpWrites, clientVars, connVars, downVars, Ssh, kind
<1>11. CASE UpWriteFails
    BY <1>11 DEF UpWriteFails, clientVars, connVars, downVars, gotVars, Ssh, kind
<1>12. CASE PipeThrough
    BY <1>12 DEF PipeThrough, clientVars, connVars, downVars, Ssh, kind
<1>13. CASE PipeFails
    BY <1>13 DEF PipeFails, clientVars, connVars, downVars, gotVars, Ssh, kind
<1>14. CASE StdinEnds
    BY <1>14 DEF StdinEnds, clientVars, connVars, upVars, downVars, gotVars
<1>15. CASE ReportLocks
    BY <1>15 DEF ReportLocks, clientVars, connVars, upVars, downVars, gotVars
<1>16. CASE Reports
    BY <1>16 DEF Reports, clientVars, upVars, downVars, gotVars
<1>17. CASE Dial
    BY <1>17 DEF Dial, callerKept, Ssh, clientVars, gotVars, kind, NotStarted, Setup
<1>18. CASE SetupFails
    BY <1>18 DEF SetupFails, upVars, callerKept, kind, Ssh, clientVars, gotVars
<1>19. CASE NewSession
    BY <1>19 DEF NewSession, upVars, callerKept, clientVars, gotVars
<1>20. CASE RequestPty
    BY <1>20 DEF RequestPty, callerKept, kind, clientVars, gotVars
<1>21. CASE Shell
    BY <1>21 DEF Shell, callerKept, clientVars, gotVars, NotStarted, Setup
<1>22. CASE WaitExit
    BY <1>22 DEF WaitExit, upVars, callerKept, clientVars, gotVars
<1>23. CASE WaitJoins
    BY <1>23 DEF WaitJoins, upVars, callerKept, clientVars, gotVars
<1>24. CASE BridgeFirst
    BY <1>24 DEF BridgeFirst, upVars, callerKept, clientVars, gotVars
<1>25. CASE BridgeClosesA
    BY <1>25 DEF BridgeClosesA, upVars, callerKept, clientVars, gotVars
<1>26. CASE BridgeClosesB
    BY <1>26 DEF BridgeClosesB, upVars, callerKept, kind, clientVars, gotVars
<1>27. CASE BridgeSecond
    BY <1>27 DEF BridgeSecond, upVars, callerKept, clientVars, gotVars
<1>28. CASE Return
    BY <1>28 DEF Return, upVars, callerKept, kind, clientVars, gotVars
<1>29. CASE PingFails
    BY <1>29 DEF PingFails, kaKept, clientVars, gotVars, upVars, downVars
<1>30. CASE KeepAliveStop
    BY <1>30 DEF KeepAliveStop, kaKept, clientVars, gotVars, upVars, downVars
<1>31. ASSUME NEW s \in Sides, DownReads(s)
      PROVE  G
    BY <1>31 DEF DownReads, clientVars, connVars, upVars, gotVars
<1>32. ASSUME NEW s \in Sides, DownEnds(s)
      PROVE  G
    BY <1>32 DEF DownEnds, clientVars, connVars, upVars, gotVars
<1>33. ASSUME NEW s \in Sides, DownLocks(s)
      PROVE  G
    BY <1>33 DEF DownLocks, clientVars, connVars, upVars, gotVars
<1>34. ASSUME NEW s \in Sides, DownWrites(s)
      PROVE  G
    BY <1>34 DEF DownWrites, clientVars, connVars, upVars
<1>35. ASSUME NEW s \in Sides, DownWriteFails(s)
      PROVE  G
    BY <1>35 DEF DownWriteFails, clientVars, upVars, gotVars
<1>36. CASE UNCHANGED vars
    BY <1>36 DEF vars, clientVars, connVars, upVars, downVars, gotVars
<1> QED
    BY <1>1, <1>2, <1>3, <1>4, <1>5, <1>6, <1>7, <1>8, <1>9, <1>10, <1>11, <1>12, <1>13,
       <1>14, <1>15, <1>16, <1>17, <1>18, <1>19, <1>20, <1>21, <1>22, <1>23, <1>24, <1>25,
       <1>26, <1>27, <1>28, <1>29, <1>30, <1>31, <1>32, <1>33, <1>34, <1>35, <1>36
       DEF Next, Up, Down, Main, Peers

(* Parts of a clean buffer are clean.                                        *)
LEMMA CleanParts ==
    ASSUME NEW b \in Seq(Int), NEW n \in 0 .. Len(b), Clean(b)
    PROVE  Clean(SubSeq(b, 1, n)) /\ Clean(SubSeq(b, n + 1, Len(b)))
<1>1. Len(b) \in Nat
    BY LenProperties
<1>2. Clean(SubSeq(b, 1, n))
    BY <1>1, Parts DEF Clean
<1>3. \A i \in 1 .. (Len(b) - n) : n + i \in 1 .. Len(b)
    BY <1>1
<1> QED
    BY <1>2, <1>3, Parts, SMTT(30) DEF Clean

LEMMA CleanEmpty == Clean(<<>>)
BY EmptySeq DEF Clean

(* A piece that is not control does not begin a resize message.              *)
LEMMA TextIsText ==
    ASSUME NEW data \in Seq(Int), Len(data) # 0, data[1] \notin Control
    PROVE  TakenFor(data) = {"text"}
<1>1. <<Head0, Tail0>>[1] = Head0 /\ <<Head0, BadTail>>[1] = Head0 /\ <<Head0>>[1] = Head0
    OBVIOUS
<1>2. data # <<Head0, Tail0>> /\ data # <<Head0, BadTail>> /\ data # <<Head0>>
    BY <1>1 DEF Control
<1> QED
    BY <1>2 DEF TakenFor, ParseResize

(* A whole resize message is read as one, and nothing of it is left.         *)
LEMMA WholeResize ==
    ASSUME NEW m \in Resizes, NEW n \in 1 .. Len(m), SubSeq(m, 1, n) # <<Head0>>,
           kind = "ssh"
    PROVE  /\ SubSeq(m, n + 1, Len(m)) = <<>>
           /\ TakenFor(SubSeq(m, 1, n)) \subseteq {"asked", "zero"}
           /\ "zero" \in TakenFor(SubSeq(m, 1, n)) => m = <<Head0, BadTail>>
<1> DEFINE d == SubSeq(m, 1, n)
           r == SubSeq(m, n + 1, Len(m))
           h == <<Head0>>
<1>1. m \in Seq(Int) /\ Len(m) = 2 /\ m[1] = Head0
    BY ResizeIsSeq
<1>2. n \in {1, 2} /\ n \in 0 .. Len(m)
    BY <1>1
<1>3. /\ d \in Seq(Int) /\ Len(d) = n /\ (\A i \in 1 .. n : d[i] = m[i])
      /\ r \in Seq(Int) /\ Len(r) = Len(m) - n
    BY <1>1, <1>2, Parts
<1>4. h \in Seq(Int) /\ Len(h) = 1 /\ h[1] = Head0
    BY DEF Head0
<1> HIDE DEF d, r, h
<1>5. n = 2
  <2>1. ASSUME n = 1 PROVE d = h
    <3>1. Len(d) = Len(h) /\ \A i \in 1 .. Len(d) : d[i] = h[i]
        BY <1>1, <1>3, <1>4, <2>1
    <3> QED
        BY <1>3, <1>4, <3>1, SeqEqual
  <2> QED
      BY <1>2, <2>1 DEF d, h
<1>6. r = <<>>
    BY <1>1, <1>3, <1>5, EmptyLen
<1>7. d = m
  <2>1. Len(d) = Len(m) /\ \A i \in 1 .. Len(d) : d[i] = m[i]
      BY <1>1, <1>3, <1>5
  <2> QED
      BY <1>1, <1>3, <2>1, SeqEqual
<1>8. TakenFor(m) \subseteq {"asked", "zero"} /\ ("zero" \in TakenFor(m) => m = <<Head0, BadTail>>)
  <2>1. <<Head0, Tail0>>[2] # <<Head0, BadTail>>[2]
      BY DEF Tail0, BadTail
  <2>2. <<Head0, Tail0>> # <<Head0, BadTail>>
      BY <2>1
  <2>3. m # h
      BY <1>1, <1>4
  <2>4. CASE m = <<Head0, Tail0>>
    <3>1. m # <<Head0, BadTail>>
        BY <2>2, <2>4
    <3>2. TakenFor(m) = {"asked"}
        BY <2>3, <2>4, <3>1, Zenon DEF TakenFor, ParseResize, h
    <3> QED
        BY <3>2
  <2>5. CASE m = <<Head0, BadTail>>
      BY <2>2, <2>5 DEF TakenFor, ParseResize
  <2> QED
      BY <2>4, <2>5 DEF Resizes
<1> QED
    BY <1>6, <1>7, <1>8 DEF d, r

(* What UpReads leaves in rdBuf, hold and pending comes from one read.       *)
LEMMA UpReadsResize ==
    ASSUME ControlInv, ResizeInv, UpReads
    PROVE  ResizeInv'
<1> SUFFICES ASSUME kind = "ssh", ~cut'
             PROVE  ResizeInv'
    BY DEF ResizeInv, UpReads, kind
<1>1. PICK n \in 1 .. Len(Message) : LET data == SubSeq(Message, 1, n) IN
         /\ ConnRead(n)
         /\ cut' = (cut \/ data = <<Head0>>)
         /\ \E t \in TakenFor(data) :
              \/ t # "text" /\ Resize(t) /\ UNCHANGED <<up, hold, pending>>
              \/ /\ t = "text"
                 /\ \E k \in 1 .. n : hold' = SubSeq(data, 1, k) /\ pending' = SubSeq(data, k + 1, n)
                 /\ UNCHANGED <<size, win>>
    BY DEF UpReads
<1> DEFINE data == SubSeq(Message, 1, n)
<1>2. ~cut /\ data # <<Head0>>
    BY <1>1
<1>3. /\ Clean(rdBuf) /\ Clean(hold) /\ Clean(pending) /\ ~leaked
      /\ \A j \in 1 .. Len(inbox) : Clean(inbox[j]) \/ inbox[j] \in asked
      /\ size # "other" /\ win # "other"
      /\ size = "zero" \/ win = "zero" => <<Head0, BadTail>> \in asked
    BY <1>2 DEF ResizeInv
<1>4. BufferTypes /\ Unread /\ asked \subseteq Resizes
    BY DEF ControlInv, TypeOK, Values, UpReads
<1>5. Message \in Seq(Int)
    BY <1>4, MessageIsSeq
<1>6. Len(Message) \in Nat /\ n \in 0 .. Len(Message)
    BY <1>1, <1>5, LenProperties
<1>7. data \in Seq(Int) /\ Len(data) = n /\ rdBuf' = SubSeq(Message, n + 1, Len(Message))
    BY <1>1, <1>5, <1>6, Parts DEF ConnRead
<1>8. \A j \in 1 .. Len(inbox') : Clean(inbox'[j]) \/ inbox'[j] \in asked
  <2>1. CASE rdBuf # <<>>
      BY <1>1, <1>3, <2>1 DEF ConnRead
  <2>2. CASE rdBuf = <<>>
    <3>1. inbox \in Seq(Seq(Int)) /\ inbox # <<>> /\ inbox' = Tail(inbox)
        BY <1>1, <1>4, <2>2 DEF ConnRead, BufferTypes, Unread
    <3>2. /\ Len(inbox) \in Nat /\ Len(inbox') = Len(inbox) - 1
          /\ \A j \in 1 .. Len(inbox') : inbox'[j] = inbox[j + 1]
        BY <3>1, HeadTailProperties, LenProperties
    <3> QED
        BY <1>3, <3>2
  <2> QED
      BY <2>1, <2>2
<1>9. Clean(Message) \/ Message \in asked
  <2>1. CASE rdBuf # <<>>
      BY <1>3, <2>1 DEF Message
  <2>2. CASE rdBuf = <<>>
    <3>1. inbox \in Seq(Seq(Int)) /\ inbox # <<>>
        BY <1>4, <2>2 DEF BufferTypes, Unread
    <3>2. Head(inbox) = inbox[1] /\ 1 \in 1 .. Len(inbox)
        BY <3>1, EmptyLen
    <3> QED
        BY <1>3, <2>2, <3>2 DEF Message
  <2> QED
      BY <2>1, <2>2
<1>10. UNCHANGED <<cfg, asked, leaked>>
    BY DEF UpReads, gotVars
<1>11. CASE Clean(Message)
  <2>1. Clean(data) /\ Clean(rdBuf')
      BY <1>5, <1>6, <1>7, <1>11, CleanParts
  <2>2. Len(data) # 0 /\ data[1] \notin Control
      BY <1>1, <1>6, <1>7, <2>1 DEF Clean
  <2> HIDE DEF data
  <2>3. TakenFor(data) = {"text"}
      BY <1>7, <2>2, TextIsText
  <2>4. /\ UNCHANGED <<size, win>>
        /\ \E k \in 1 .. n : hold' = SubSeq(data, 1, k) /\ pending' = SubSeq(data, k + 1, n)
      BY <1>1, <2>3 DEF data
  <2>5. PICK k \in 1 .. n : hold' = SubSeq(data, 1, k) /\ pending' = SubSeq(data, k + 1, n)
      BY <2>4
  <2>6. k \in 0 .. Len(data)
      BY <1>6, <1>7, <2>5
  <2>7. Clean(hold') /\ Clean(pending')
      BY <1>7, <2>1, <2>5, <2>6, CleanParts
  <2> QED
      BY <1>3, <1>8, <1>10, <2>1, <2>4, <2>7 DEF ResizeInv
<1>12. CASE Message \in asked
  <2>1. /\ rdBuf' = <<>> /\ TakenFor(data) \subseteq {"asked", "zero"}
        /\ "zero" \in TakenFor(data) => Message = <<Head0, BadTail>>
      BY <1>1, <1>2, <1>4, <1>7, <1>12, WholeResize
  <2> HIDE DEF data
  <2>2. PICK t \in TakenFor(data) : Resize(t) /\ UNCHANGED <<up, hold, pending>>
      BY <1>1, <2>1 DEF data
  <2>3. t \in {"asked", "zero"} /\ (t = "zero" => <<Head0, BadTail>> \in asked)
      BY <1>12, <2>1, <2>2
  <2>4. size' = t /\ (win' = t \/ win' = win)
      BY <2>2 DEF Resize
  <2> QED
      BY <1>3, <1>8, <1>10, <2>1, <2>2, <2>3, <2>4, CleanEmpty DEF ResizeInv
<1> QED
    BY <1>9, <1>11, <1>12

(* The resize invariant is kept by every step.                               *)
LEMMA ResizeStep ==
    ASSUME ControlInv, ResizeInv, [Next]_vars
    PROVE  ResizeInv'
<1>0. BufferTypes
    BY DEF ControlInv
<1>1. CASE ClientSends
  <2>1. PICK n \in 1 .. 2 : inbox' = Append(inbox, [i \in 1 .. n |-> sentUp + i])
      BY <1>1 DEF ClientSends, Post
  <2> DEFINE m == [i \in 1 .. n |-> sentUp + i]
  <2>2. sentUp \in Nat
      BY TunnelAssumption DEF ControlInv, TypeOK, Values
  <2>3. m \in [1 .. n -> Int]
      BY <2>2
  <2>4. m \in Seq(Int) /\ Len(m) = n
      BY <2>1, <2>3, SeqDef, LenProperties
  <2>5. Clean(m)
      BY <2>1, <2>2, <2>4 DEF Clean, Control, Head0, Tail0, BadTail
  <2> HIDE DEF m
  <2>6. /\ Len(inbox) \in Nat /\ Len(inbox') = Len(inbox) + 1
        /\ \A j \in 1 .. Len(inbox) : inbox'[j] = inbox[j]
        /\ inbox'[Len(inbox) + 1] = m
      BY <1>0, <2>1, <2>4, AppendProperties, LenProperties DEF BufferTypes, m
  <2>7. \A j \in 1 .. Len(inbox') : j \in 1 .. Len(inbox) \/ j = Len(inbox) + 1
      BY <2>6
  <2> QED
      BY <1>1, <2>5, <2>6, <2>7 DEF ResizeInv, ClientSends, kind, connVars, upVars, gotVars
<1>2. CASE ClientResizes
  <2>1. PICK m \in Resizes : inbox' = Append(inbox, m) /\ asked' = asked \cup {m}
      BY <1>2 DEF ClientResizes, Post
  <2>2. /\ Len(inbox) \in Nat /\ Len(inbox') = Len(inbox) + 1
        /\ \A j \in 1 .. Len(inbox) : inbox'[j] = inbox[j]
        /\ inbox'[Len(inbox) + 1] = m
      BY <1>0, <2>1, ResizeIsSeq, AppendProperties, LenProperties DEF BufferTypes
  <2>3. \A j \in 1 .. Len(inbox') : j \in 1 .. Len(inbox) \/ j = Len(inbox) + 1
      BY <2>2
  <2> QED
      BY <1>2, <2>1, <2>2, <2>3 DEF ResizeInv, ClientResizes, kind, connVars, upVars, gotVars
<1>3. CASE UpServesPending
  <2>1. PICK k \in 1 .. Len(pending) :
           hold' = SubSeq(pending, 1, k) /\ pending' = SubSeq(pending, k + 1, Len(pending))
      BY <1>3 DEF UpServesPending
  <2>2. pending \in Seq(Int) /\ k \in 0 .. Len(pending)
      BY <1>0, <2>1, LenProperties DEF BufferTypes
  <2>3. Clean(pending) => Clean(hold') /\ Clean(pending')
      BY <2>1, <2>2, CleanParts
  <2> QED
      BY <1>3, <2>3 DEF ResizeInv, UpServesPending, kind, clientVars, connVars, gotVars
<1>4. CASE UpWrites
    BY <1>4 DEF ResizeInv, UpWrites, Ssh, kind
<1>5. CASE PipeThrough
  <2>1. Clean(hold) => ~HasControl(hold)
      BY <1>0, LenProperties DEF BufferTypes, Clean, HasControl
  <2> QED
      BY <1>5, <2>1, CleanEmpty
         DEF ResizeInv, PipeThrough, Reach, kind, clientVars, connVars
<1>6. CASE UpWriteFails \/ PipeFails
    BY <1>6, CleanEmpty DEF ResizeInv, UpWriteFails, PipeFails, kind, clientVars, connVars, gotVars
<1>7. CASE RequestPty
    BY <1>7 DEF ResizeInv, RequestPty, callerKept, kind, clientVars, gotVars
<1>8. CASE UNCHANGED inVars
    BY <1>8 DEF ResizeInv, inVars, kind
<1> QED
    BY <1>1, <1>2, <1>3, <1>4, <1>5, <1>6, <1>7, <1>8, UpReadsResize, OtherSteps DEF Inward

(* A resize message that no read cuts is taken out of the stream: the shell  *)
(* sees none of its bytes and the terminal gets the size asked for.          *)
THEOREM ResizeNotSeen == Spec => []ResizeUnseen
<1>1. Init => ResizeInv
    BY EmptySeq, CleanEmpty DEF Init, ResizeInv
<1>2. ControlInv /\ ResizeInv /\ [Next]_vars => ResizeInv'
    BY ResizeStep
<1>3. ResizeInv => ResizeUnseen
    BY DEF ResizeInv, ResizeUnseen
<1> QED
    BY ControlInit, ControlStep, <1>1, <1>2, <1>3, PTL DEF Spec

-----------------------------------------------------------------------------
(* The stream to the remote end.                                             *)

(* An empty buffer carries nothing.                                          *)
LEMMA CarriesNothing ==
    ASSUME NEW a \in Nat
    PROVE  Carries(<<>>, a, a) /\ \A z \in Nat : Carries(<<>>, a, z) => z = a
<1>1. Len(<<>>) = 0
    BY EmptySeq
<1>2. Follows(<<>>, a)
    BY <1>1 DEF Follows
<1> QED
    BY <1>1, <1>2 DEF Carries

(* A buffer cut in two carries in two steps.                                 *)
LEMMA CarriesParts ==
    ASSUME NEW b \in Seq(Int), NEW n \in 0 .. Len(b), NEW a \in Nat, NEW z \in Nat,
           Carries(b, a, z)
    PROVE  \E c \in a .. z : /\ Carries(SubSeq(b, 1, n), a, c)
                             /\ Carries(SubSeq(b, n + 1, Len(b)), c, z)
<1> DEFINE x == SubSeq(b, 1, n)
           y == SubSeq(b, n + 1, Len(b))
<1>1. Len(b) \in Nat
    BY LenProperties
<1>2. /\ Len(x) = n /\ Len(y) = Len(b) - n
      /\ \A i \in 1 .. n : x[i] = b[i]
      /\ \A i \in 1 .. (Len(b) - n) : y[i] = b[n + i]
    BY Parts
<1>3. /\ \A i \in 1 .. (Len(b) - n) : n + i \in 1 .. Len(b)
      /\ \A i \in 1 .. n : i \in 1 .. Len(b)
    BY <1>1
<1> HIDE DEF x, y
<1>4. CASE Follows(b, a) /\ z = a + Len(b)
  <2>1. Follows(x, a)
      BY <1>2, <1>3, <1>4 DEF Follows
  <2>2. \A i \in 1 .. (Len(b) - n) : y[i] = a + (n + i)
      BY <1>2, <1>3, <1>4 DEF Follows
  <2>3. Follows(y, a + n)
      BY <1>1, <1>2, <2>2 DEF Follows
  <2>4. a + n \in a .. z /\ z = (a + n) + Len(y)
      BY <1>1, <1>2, <1>4
  <2> QED
      BY <1>2, <2>1, <2>3, <2>4 DEF Carries, x, y
<1>5. CASE z = a /\ \A i \in 1 .. Len(b) : b[i] \in Control
  <2>1. (\A i \in 1 .. Len(x) : x[i] \in Control) /\ (\A i \in 1 .. Len(y) : y[i] \in Control)
      BY <1>2, <1>3, <1>5
  <2>2. a \in a .. z
      BY <1>5
  <2> QED
      BY <1>5, <2>1, <2>2 DEF Carries, x, y
<1> QED
    BY <1>4, <1>5 DEF Carries

(* The first message of the inbox, then the others.                          *)
LEMMA ChainHead ==
    ASSUME NEW box \in Seq(Seq(Int)), box # <<>>, NEW a, NEW z \in Nat, Chain(box, a, z)
    PROVE  \E c \in 0 .. z : Carries(Head(box), a, c) /\ Chain(Tail(box), c, z)
<1>1. PICK mark \in [1 .. Len(box) + 1 -> 0 .. z] :
        /\ mark[1] = a /\ mark[Len(box) + 1] = z
        /\ \A j \in 1 .. Len(box) : Carries(box[j], mark[j], mark[j + 1])
    BY DEF Chain
<1> DEFINE rest == Tail(box)
           mk == [j \in 1 .. Len(rest) + 1 |-> mark[j + 1]]
<1>2. Len(box) \in Nat \ {0} /\ Head(box) = box[1]
    BY EmptySeq
<1>3. Len(rest) = Len(box) - 1 /\ \A j \in 1 .. Len(rest) : rest[j] = box[j + 1]
    BY HeadTailProperties
<1> HIDE DEF rest
<1>4. mk \in [1 .. Len(rest) + 1 -> 0 .. z]
    BY <1>1, <1>2, <1>3
<1>5. mk[1] = mark[2] /\ mk[Len(rest) + 1] = z
    BY <1>1, <1>2, <1>3
<1>6. ASSUME NEW j \in 1 .. Len(rest) PROVE Carries(rest[j], mk[j], mk[j + 1])
  <2>1. j + 1 \in 1 .. Len(box) /\ j \in 1 .. Len(rest) + 1 /\ j + 1 \in 1 .. Len(rest) + 1
      BY <1>2, <1>3
  <2>2. Carries(box[j + 1], mark[j + 1], mark[(j + 1) + 1])
      BY <1>1, <2>1
  <2> QED
      BY <1>3, <2>1, <2>2
<1>7. mark[2] \in 0 .. z /\ Carries(Head(box), a, mark[2])
  <2>1. 1 \in 1 .. Len(box) /\ 2 \in 1 .. Len(box) + 1 /\ 1 + 1 = 2
      BY <1>2
  <2> QED
      BY <1>1, <1>2, <2>1
<1> HIDE DEF mk
<1>8. Chain(rest, mark[2], z)
    BY <1>4, <1>5, <1>6 DEF Chain
<1> QED
    BY <1>7, <1>8 DEF rest

(* One more message behind the others.                                       *)
LEMMA ChainAppend ==
    ASSUME NEW box \in Seq(Seq(Int)), NEW m \in Seq(Int), NEW a,
           NEW y \in Nat, NEW z \in Nat, y <= z, Chain(box, a, y), Carries(m, y, z)
    PROVE  Chain(Append(box, m), a, z)
<1>1. PICK mark \in [1 .. Len(box) + 1 -> 0 .. y] :
        /\ mark[1] = a /\ mark[Len(box) + 1] = y
        /\ \A j \in 1 .. Len(box) : Carries(box[j], mark[j], mark[j + 1])
    BY DEF Chain
<1> DEFINE more == Append(box, m)
           mk == [j \in 1 .. Len(more) + 1 |-> IF j = Len(box) + 2 THEN z ELSE mark[j]]
<1>2. Len(box) \in Nat
    BY LenProperties
<1>3. /\ Len(more) = Len(box) + 1 /\ more[Len(box) + 1] = m
      /\ \A j \in 1 .. Len(box) : more[j] = box[j]
    BY AppendProperties
<1> HIDE DEF more
<1>4. mk \in [1 .. Len(more) + 1 -> 0 .. z]
    BY <1>1, <1>2, <1>3
<1>5. mk[1] = a /\ mk[Len(more) + 1] = z
    BY <1>1, <1>2, <1>3
<1>6. ASSUME NEW j \in 1 .. Len(more) PROVE Carries(more[j], mk[j], mk[j + 1])
  <2>1. CASE j \in 1 .. Len(box)
    <3>1. /\ j \in 1 .. Len(more) + 1 /\ j # Len(box) + 2
          /\ j + 1 \in 1 .. Len(more) + 1 /\ j + 1 # Len(box) + 2
        BY <1>2, <1>3, <2>1
    <3> QED
        BY <1>1, <1>3, <2>1, <3>1
  <2>2. CASE j = Len(box) + 1
    <3>1. /\ j \in 1 .. Len(more) + 1 /\ j # Len(box) + 2
          /\ j + 1 \in 1 .. Len(more) + 1 /\ j + 1 = Len(box) + 2
        BY <1>2, <1>3, <2>2
    <3> QED
        BY <1>1, <1>3, <2>2, <3>1
  <2> QED
      BY <1>2, <1>3, <2>1, <2>2
<1> HIDE DEF mk
<1>7. Chain(more, a, z)
    BY <1>4, <1>5, <1>6 DEF Chain
<1> QED
    BY <1>7 DEF more

(* Pieces reach the remote end: the stream there grows by the data among     *)
(* them and stays in order.                                                  *)
LEMMA Reaches ==
    ASSUME gotUp \in Seq(Int), Follows(gotUp, 0), NEW b \in Seq(Int), NEW c \in Nat,
           Carries(b, Len(gotUp), c), Reach(b)
    PROVE  gotUp' \in Seq(Int) /\ Follows(gotUp', 0) /\ Len(gotUp') = c
<1>1. Len(gotUp) \in Nat /\ Len(b) \in Nat /\ DOMAIN b = 1 .. Len(b)
    BY LenProperties
<1>2. CASE ~HasControl(b)
  <2>1. Follows(b, Len(gotUp)) /\ c = Len(gotUp) + Len(b)
    <3>1. CASE Len(b) = 0
        BY <1>1, <3>1 DEF Carries, Follows
    <3>2. CASE Len(b) # 0
      <4>1. 1 \in 1 .. Len(b) /\ b[1] \notin Control
          BY <1>1, <1>2, <3>2 DEF HasControl
      <4> QED
          BY <4>1 DEF Carries
    <3> QED
        BY <3>1, <3>2
  <2>2. gotUp' = gotUp \o b
      BY <1>2 DEF Reach
  <2>3. /\ gotUp' \in Seq(Int) /\ Len(gotUp') = Len(gotUp) + Len(b)
        /\ \A i \in 1 .. Len(gotUp) + Len(b) :
              gotUp'[i] = IF i <= Len(gotUp) THEN gotUp[i] ELSE b[i - Len(gotUp)]
      BY <2>2, ConcatProperties
  <2>4. ASSUME NEW i \in 1 .. Len(gotUp') PROVE gotUp'[i] = 0 + i
    <3>1. CASE i <= Len(gotUp)
      <4>1. i \in 1 .. Len(gotUp) /\ i \in 1 .. Len(gotUp) + Len(b)
          BY <1>1, <2>3, <3>1
      <4>2. gotUp[i] = 0 + i
          BY <4>1 DEF Follows
      <4> QED
          BY <2>3, <3>1, <4>1, <4>2
    <3>2. CASE ~(i <= Len(gotUp))
      <4>1. i - Len(gotUp) \in 1 .. Len(b)
          BY <1>1, <2>3, <3>2
      <4>2. b[i - Len(gotUp)] = Len(gotUp) + (i - Len(gotUp))
          BY <2>1, <4>1 DEF Follows
      <4> QED
          BY <1>1, <2>3, <3>2, <4>2
    <3> QED
        BY <3>1, <3>2
  <2> QED
      BY <2>1, <2>3, <2>4 DEF Follows
<1>3. CASE HasControl(b)
  <2>1. PICK i \in 1 .. Len(b) : b[i] \in Control
      BY <1>1, <1>3 DEF HasControl
  <2>2. ~Follows(b, Len(gotUp))
    <3>1. \A x \in Control : x < 0
        BY DEF Control, Head0, Tail0, BadTail
    <3> QED
        BY <1>1, <2>1, <3>1 DEF Follows
  <2>3. c = Len(gotUp)
      BY <2>2 DEF Carries
  <2>4. gotUp' = gotUp
      BY <1>3, ConcatEmptySeq DEF Reach
  <2> QED
      BY <2>3, <2>4
<1> QED
    BY <1>2, <1>3

\* The state of the stream that InStream describes, while it is not cut off.
Flowing == up # "done" /\ remote \in {"none", "open"}
OnTheWay(h, p, r) ==
    /\ Carries(hold, Len(gotUp), h) /\ Carries(pending, h, p) /\ Carries(rdBuf, p, r)
    /\ Chain(inbox, r, sentUp)

(* While the reader reads it holds nothing: the stream goes on in rdBuf.     *)
LEMMA UpReadsStream ==
    ASSUME ControlInv, InStream, UpReads
    PROVE  InStream'
<1>1. /\ BufferTypes /\ Unread /\ sentUp \in Nat /\ up = "read"
      /\ hold = <<>> /\ pending = <<>>
    BY TunnelAssumption DEF ControlInv, TypeOK, Values, HoldsWhileWriting, UpReads
<1>2. UNCHANGED <<gotUp, sentUp, remote>> /\ gotUp \in Seq(Int) /\ Len(gotUp) \in Nat
    BY <1>1, LenProperties DEF UpReads, gotVars, BufferTypes
<1>3. ASSUME Flowing PROVE \E h, p, r \in 0 .. sentUp : OnTheWay(h, p, r)'
  <2>1. PICK h \in 0 .. sentUp, p \in 0 .. sentUp, r \in 0 .. sentUp : OnTheWay(h, p, r)
      BY <1>3 DEF InStream, OnTheWay, Flowing
  <2>2. h = Len(gotUp) /\ p = h /\ h \in Nat /\ r \in Nat
      BY <1>1, <1>2, <2>1, CarriesNothing DEF OnTheWay
  <2>3. PICK n \in 1 .. Len(Message) : LET data == SubSeq(Message, 1, n) IN
           /\ ConnRead(n)
           /\ \E t \in TakenFor(data) :
                \/ t # "text" /\ UNCHANGED <<hold, pending>>
                \/ /\ t = "text"
                   /\ \E k \in 1 .. n : hold' = SubSeq(data, 1, k) /\ pending' = SubSeq(data, k + 1, n)
      BY DEF UpReads
  <2>4. Message \in Seq(Int)
      BY <1>1, MessageIsSeq
  <2>5. n \in 0 .. Len(Message) /\ Len(Message) \in Nat
      BY <2>3, <2>4, LenProperties
  \* The message takes the stream on to z, the inbox from there.
  <2>6. PICK z \in 0 .. sentUp : Carries(Message, p, z) /\ Chain(inbox', z, sentUp)
    <3>1. CASE rdBuf # <<>>
        BY <2>1, <2>3, <3>1 DEF OnTheWay, ConnRead, Message
    <3>2. CASE rdBuf = <<>>
      <4>1. inbox \in Seq(Seq(Int)) /\ inbox # <<>> /\ inbox' = Tail(inbox) /\ Message = Head(inbox)
          BY <1>1, <2>3, <3>2 DEF ConnRead, BufferTypes, Unread, Message
      <4>2. r = p
          BY <2>1, <2>2, <3>2, CarriesNothing DEF OnTheWay
      <4> QED
          BY <1>1, <2>1, <4>1, <4>2, ChainHead DEF OnTheWay
    <3> QED
        BY <3>1, <3>2
  <2> DEFINE data == SubSeq(Message, 1, n)
             rest == SubSeq(Message, n + 1, Len(Message))
  <2>7. PICK c \in p .. z : Carries(data, p, c) /\ Carries(rest, c, z)
      BY <2>2, <2>4, <2>5, <2>6, CarriesParts
  <2>8. data \in Seq(Int) /\ Len(data) = n /\ rdBuf' = rest
      BY <2>3, <2>4, <2>5, Parts DEF ConnRead
  <2>9. c \in 0 .. sentUp /\ p \in 0 .. sentUp /\ z \in 0 .. sentUp /\ c \in Nat
      BY <1>1, <2>2, <2>6, <2>7
  <2> HIDE DEF data, rest
  <2>10. CASE \E k \in 1 .. n : hold' = SubSeq(data, 1, k) /\ pending' = SubSeq(data, k + 1, n)
    <3>1. PICK k \in 1 .. n : hold' = SubSeq(data, 1, k) /\ pending' = SubSeq(data, k + 1, n)
        BY <2>10
    <3>2. k \in 0 .. Len(data)
        BY <2>5, <2>8, <3>1
    <3>3. PICK e \in p .. c : Carries(hold', p, e) /\ Carries(pending', e, c)
        BY <2>2, <2>7, <2>8, <2>9, <3>1, <3>2, CarriesParts
    <3>4. e \in 0 .. sentUp
        BY <1>1, <2>2, <2>9, <3>3
    <3>5. OnTheWay(e, c, z)'
        BY <1>2, <2>2, <2>6, <2>7, <2>8, <3>3 DEF OnTheWay
    <3> QED
        BY <2>9, <3>4, <3>5
  <2>11. CASE (\E t \in TakenFor(data) : t # "text") /\ UNCHANGED <<hold, pending>>
    <3>1. Len(data) # 0 /\ data[1] \in Control
        BY <2>5, <2>8, <2>11, TextIsText
    <3>2. c = p
      <4>0. \A x \in Control : x < 0
          BY DEF Control, Head0, Tail0, BadTail
      <4>1. data[1] # p + 1
          BY <2>2, <3>1, <4>0
      <4>2. 1 \in 1 .. Len(data)
          BY <2>5, <2>8
      <4> QED
          BY <2>7, <4>1, <4>2 DEF Carries, Follows
    <3>3. Carries(hold', h, h) /\ Carries(pending', h, h)
        BY <1>1, <2>2, <2>11, CarriesNothing
    <3>4. OnTheWay(h, h, z)'
        BY <1>2, <2>2, <2>6, <2>7, <2>8, <3>2, <3>3 DEF OnTheWay
    <3> QED
        BY <2>1, <2>9, <3>4
  <2> QED
      BY <2>3, <2>10, <2>11 DEF data
<1>4. Flowing' => Flowing
    BY <1>1, <1>2 DEF Flowing
<1> QED
    BY <1>2, <1>3, <1>4 DEF InStream, OnTheWay, Flowing

(* The first k of the pieces held reach the remote end, if that is open.     *)
LEMMA WritesStream ==
    ASSUME ControlInv, InStream, NEW k \in 0 .. Len(hold),
           Reach(IF remote = "open" THEN SubSeq(hold, 1, k) ELSE <<>>),
           hold' = SubSeq(hold, k + 1, Len(hold)), remote \in {"open", "gone"}, up = "write",
           UNCHANGED <<sentUp, inbox, rdBuf, pending, remote>>
    PROVE  InStream'
<1>1. gotUp \in Seq(Int) /\ hold \in Seq(Int) /\ sentUp \in Nat /\ Len(gotUp) \in Nat
    BY TunnelAssumption, LenProperties DEF ControlInv, TypeOK, Values, BufferTypes
<1>2. CASE remote = "open"
  <2>1. PICK h \in 0 .. sentUp, p \in 0 .. sentUp, r \in 0 .. sentUp : OnTheWay(h, p, r)
      BY <1>2 DEF InStream, OnTheWay
  <2>2. PICK c \in Len(gotUp) .. h : Carries(SubSeq(hold, 1, k), Len(gotUp), c) /\ Carries(hold', c, h)
      BY <1>1, <2>1, CarriesParts DEF OnTheWay
  <2>3. SubSeq(hold, 1, k) \in Seq(Int) /\ c \in Nat /\ c <= sentUp
      BY <1>1, <2>1, <2>2, Parts
  <2>4. gotUp' \in Seq(Int) /\ Follows(gotUp', 0) /\ Len(gotUp') = c
      BY <1>1, <1>2, <2>2, <2>3, Reaches DEF InStream
  <2>5. OnTheWay(h, p, r)'
      BY <2>1, <2>2, <2>4 DEF OnTheWay
  <2> QED
      BY <2>1, <2>3, <2>4, <2>5 DEF InStream, OnTheWay
<1>3. CASE remote = "gone"
  <2>1. gotUp' = gotUp
      BY <1>1, <1>3, ConcatEmptySeq DEF Reach
  <2> QED
      BY <1>3, <2>1 DEF InStream
<1> QED
    BY <1>2, <1>3

(* The stream to the remote end is kept by every step.                       *)
LEMMA InStreamStep ==
    ASSUME ControlInv, InStream, [Next]_vars
    PROVE  InStream'
<1>0. BufferTypes /\ sentUp \in Nat /\ NotStarted
    BY TunnelAssumption DEF ControlInv, TypeOK, Values
<1>1. CASE ClientSends
  <2>1. PICK n \in 1 .. 2 :
           /\ inbox' = Append(inbox, [i \in 1 .. n |-> sentUp + i]) /\ sentUp' = sentUp + n
      BY <1>1 DEF ClientSends, Post
  <2> DEFINE m == [i \in 1 .. n |-> sentUp + i]
  <2>2. m \in [1 .. n -> Int]
      BY <1>0
  <2>3. m \in Seq(Int) /\ Len(m) = n
      BY <2>1, <2>2, SeqDef, LenProperties
  <2>4. Carries(m, sentUp, sentUp')
      BY <2>1, <2>3 DEF Carries, Follows
  <2>10. inbox' = Append(inbox, m)
      BY <2>1
  <2> HIDE DEF m
  <2>11. sentUp' \in Nat /\ sentUp <= sentUp'
      BY <1>0, <2>1
  <2>5. \A r : Chain(inbox, r, sentUp) => Chain(inbox', r, sentUp')
      BY <1>0, <2>3, <2>4, <2>10, <2>11, ChainAppend DEF BufferTypes
  <2>6. UNCHANGED <<gotUp, hold, pending, rdBuf, up, remote>>
      BY <1>1 DEF ClientSends, connVars, upVars, gotVars
  <2>7. 0 .. sentUp \subseteq 0 .. sentUp'
      BY <1>0, <2>1
  <2>8. Len(gotUp') <= sentUp'
      BY <1>0, <2>1, <2>6, LenProperties DEF InStream, BufferTypes
  <2>9. Flowing => \E h, p, r \in 0 .. sentUp' : OnTheWay(h, p, r)'
      BY <2>5, <2>6, <2>7 DEF InStream, OnTheWay, Flowing
  <2> QED
      BY <2>6, <2>8, <2>9 DEF InStream, OnTheWay, Flowing
<1>2. CASE ClientResizes
  <2>1. PICK m \in Resizes : inbox' = Append(inbox, m)
      BY <1>2 DEF ClientResizes, Post
  <2>2. m \in Seq(Int) /\ Carries(m, sentUp, sentUp)
    <3>1. m \in Seq(Int) /\ Len(m) = 2 /\ m[1] \in Control /\ m[2] \in Control
        BY <2>1, ResizeIsSeq DEF Control
    <3>2. \A i \in 1 .. Len(m) : i = 1 \/ i = 2
        BY <3>1
    <3> QED
        BY <3>1, <3>2 DEF Carries
  <2>3. \A r : Chain(inbox, r, sentUp) => Chain(inbox', r, sentUp)
      BY <1>0, <2>1, <2>2, ChainAppend DEF BufferTypes
  <2> QED
      BY <1>2, <2>3 DEF InStream, ClientResizes, connVars, upVars, gotVars
<1>3. CASE UpServesPending
  <2>1. PICK k \in 1 .. Len(pending) :
           hold' = SubSeq(pending, 1, k) /\ pending' = SubSeq(pending, k + 1, Len(pending))
      BY <1>3 DEF UpServesPending
  <2>2. pending \in Seq(Int) /\ k \in 0 .. Len(pending) /\ hold = <<>> /\ Len(gotUp) \in Nat
      BY <1>0, <1>3, <2>1, LenProperties
         DEF BufferTypes, ControlInv, TypeOK, HoldsWhileWriting, UpServesPending
  <2>3. UNCHANGED <<gotUp, sentUp, inbox, rdBuf, remote>> /\ up = "read"
      BY <1>3 DEF UpServesPending, clientVars, connVars, gotVars
  <2>4. ASSUME Flowing PROVE \E h, p, r \in 0 .. sentUp : OnTheWay(h, p, r)'
    <3>1. PICK h \in 0 .. sentUp, p \in 0 .. sentUp, r \in 0 .. sentUp : OnTheWay(h, p, r)
        BY <2>4 DEF InStream, OnTheWay, Flowing
    <3>2. h = Len(gotUp) /\ h \in Nat /\ p \in Nat
        BY <1>0, <2>2, <3>1, CarriesNothing DEF OnTheWay
    <3>3. PICK c \in h .. p : Carries(hold', h, c) /\ Carries(pending', c, p)
        BY <2>1, <2>2, <3>1, <3>2, CarriesParts DEF OnTheWay
    <3>4. c \in 0 .. sentUp
        BY <1>0, <3>1, <3>2, <3>3
    <3>5. OnTheWay(c, p, r)'
        BY <2>3, <3>1, <3>2, <3>3 DEF OnTheWay
    <3> QED
        BY <3>1, <3>4, <3>5
  <2> QED
      BY <2>3, <2>4 DEF InStream, OnTheWay, Flowing
<1>4. CASE UpWrites
  <2>1. PICK k \in 1 .. Len(hold) :
           /\ Reach(IF remote = "open" THEN SubSeq(hold, 1, k) ELSE <<>>)
           /\ hold' = SubSeq(hold, k + 1, Len(hold))
      BY <1>4 DEF UpWrites
  <2>2. k \in 0 .. Len(hold)
      BY <1>0, <2>1, LenProperties DEF BufferTypes
  <2> QED
      BY <1>4, <2>1, <2>2, WritesStream DEF UpWrites, clientVars, connVars
<1>5. CASE PipeThrough
  <2>1. hold \in Seq(Int) /\ Len(hold) \in Nat /\ Len(hold) \in 0 .. Len(hold)
      BY <1>0, LenProperties DEF BufferTypes
  <2>2. SubSeq(hold, 1, Len(hold)) = hold /\ SubSeq(hold, Len(hold) + 1, Len(hold)) = <<>>
      BY <2>1, SubSeqFull, SubSeqEmpty
  <2> QED
      BY <1>5, <2>1, <2>2, WritesStream DEF PipeThrough, clientVars, connVars
<1>6. CASE UpWriteFails \/ PipeFails
    BY <1>6 DEF InStream, UpWriteFails, PipeFails, clientVars, gotVars
<1>7. CASE RequestPty
    BY <1>7 DEF InStream, RequestPty, callerKept, clientVars, gotVars
<1>8. CASE UNCHANGED inVars
    BY <1>0, <1>8, NoWayBack DEF InStream, inVars
<1> QED
    BY <1>1, <1>2, <1>3, <1>4, <1>5, <1>6, <1>7, <1>8, UpReadsStream, OtherSteps DEF Inward

-----------------------------------------------------------------------------
(* The streams to the client.                                                *)

outVars == <<chan, out, gotDown, sentDown>>

\* The steps that move pieces on their way out.
Outward ==
    RemoteSends \/ \E s \in Sides : DownReads(s) \/ DownWrites(s) \/ DownWriteFails(s)

(* No other step touches what is on its way out.                             *)
LEMMA OtherOutSteps ==
    ASSUME [Next]_vars
    PROVE  Outward \/ UNCHANGED outVars
<1> USE DEF outVars
<1>1. CASE ClientSends
    BY <1>1 DEF ClientSends, connVars, upVars, downVars, gotVars
<1>2. CASE ClientResizes
    BY <1>2 DEF ClientResizes, connVars, upVars, downVars, gotVars, kind
<1>3. CASE ClientTurns
    BY <1>3 DEF ClientTurns, connVars, upVars, downVars, gotVars
<1>4. CASE RemoteEnds
    BY <1>4 DEF RemoteEnds, clientVars, connVars, upVars, downVars, gotVars
<1>5. CASE UpReads
    BY <1>5 DEF UpReads, downVars, gotVars, kind
<1>6. CASE UpServesPending
    BY <1>6 DEF UpServesPending, clientVars, connVars, downVars, gotVars
<1>7. CASE UpReadFails
    BY <1>7 DEF UpReadFails, clientVars, connVars, downVars, gotVars
<1>8. CASE ReadDeadline
    BY <1>8 DEF ReadDeadline, clientVars, connVars, downVars, gotVars
<1>9. CASE UpWrites
    BY <1>9 DEF UpWrites, clientVars, connVars, downVars, Ssh, kind
<1>10. CASE UpWriteFails
    BY <1>10 DEF UpWriteFails, clientVars, connVars, downVars, gotVars, Ssh, kind
<1>11. CASE PipeThrough
    BY <1>11 DEF PipeThrough, clientVars, connVars, downVars, Ssh, kind
<1>12. CASE PipeFails
    BY <1>12 DEF PipeFails, clientVars, connVars, downVars, gotVars, Ssh, kind
<1>13. CASE StdinEnds
    BY <1>13 DEF StdinEnds, clientVars, connVars, upVars, downVars, gotVars
<1>14. CASE ReportLocks
    BY <1>14 DEF ReportLocks, clientVars, connVars, upVars, downVars, gotVars
<1>15. CASE Reports
    BY <1>15 DEF Reports, clientVars, upVars, downVars, gotVars
<1>16. CASE Dial
    BY <1>16 DEF Dial, callerKept, Ssh, clientVars, gotVars, kind
<1>17. CASE SetupFails
    BY <1>17 DEF SetupFails, upVars, callerKept, kind, Ssh, clientVars, gotVars
<1>18. CASE NewSession
    BY <1>18 DEF NewSession, upVars, callerKept, clientVars, gotVars
<1>19. CASE RequestPty
    BY <1>19 DEF RequestPty, callerKept, kind, clientVars, gotVars
<1>20. CASE Shell
    BY <1>20 DEF Shell, callerKept, clientVars, gotVars
<1>21. CASE WaitExit
    BY <1>21 DEF WaitExit, upVars, callerKept, clientVars, gotVars
<1>22. CASE WaitJoins
    BY <1>22 DEF WaitJoins, upVars, callerKept, clientVars, gotVars
<1>23. CASE BridgeFirst
    BY <1>23 DEF BridgeFirst, upVars, callerKept, clientVars, gotVars
<1>24. CASE BridgeClosesA
    BY <1>24 DEF BridgeClosesA, upVars, callerKept, clientVars, gotVars
<1>25. CASE BridgeClosesB
    BY <1>25 DEF BridgeClosesB, upVars, callerKept, kind, clientVars, gotVars
<1>26. CASE BridgeSecond
    BY <1>26 DEF BridgeSecond, upVars, callerKept, clientVars, gotVars
<1>27. CASE Return
    BY <1>27 DEF Return, upVars, callerKept, kind, clientVars, gotVars
<1>28. CASE PingFails
    BY <1>28 DEF PingFails, kaKept, clientVars, gotVars, upVars, downVars
<1>29. CASE KeepAliveStop
    BY <1>29 DEF KeepAliveStop, kaKept, clientVars, gotVars, upVars, downVars
<1>30. ASSUME NEW s \in Sides, DownEnds(s)
      PROVE  UNCHANGED outVars
    BY <1>30 DEF DownEnds, clientVars, connVars, upVars, gotVars
<1>31. ASSUME NEW s \in Sides, DownLocks(s)
      PROVE  UNCHANGED outVars
    BY <1>31 DEF DownLocks, clientVars, connVars, upVars, gotVars
<1>32. CASE UNCHANGED vars
    BY <1>32 DEF vars, clientVars, connVars, upVars, downVars, gotVars
<1> QED
    BY <1>1, <1>2, <1>3, <1>4, <1>5, <1>6, <1>7, <1>8, <1>9, <1>10, <1>11, <1>12, <1>13,
       <1>14, <1>15, <1>16, <1>17, <1>18, <1>19, <1>20, <1>21, <1>22, <1>23, <1>24, <1>25,
       <1>26, <1>27, <1>28, <1>29, <1>30, <1>31, <1>32
       DEF Next, Up, Down, Main, Peers, Outward

(* A copier that is done is not started again, one that reads has written    *)
(* what it read before; a client that is gone does not come back.            *)
LEMMA NoWayBackOut ==
    ASSUME Values, BufferTypes, NotStarted, [Next]_vars
    PROVE  /\ client' # "gone" => client # "gone"
           /\ \A s \in Sides :
                /\ down'[s] # "done" => down[s] # "done"
                /\ down'[s] \in {"off", "read"} => down[s] \in {"off", "read"} \/ out'[s] = <<>>
<1> DEFINE G == /\ client' # "gone" => client # "gone"
                /\ \A s \in Sides :
                     /\ down'[s] # "done" => down[s] # "done"
                     /\ down'[s] \in {"off", "read"} =>
                          down[s] \in {"off", "read"} \/ out'[s] = <<>>
<1>0. /\ down \in [Sides -> {"off", "read", "write", "flush", "done"}]
      /\ out \in [Sides -> Seq(Int)]
    BY DEF Values, BufferTypes
<1> USE <1>0 DEF Sides
<1>1. CASE ClientSends
    BY <1>1 DEF ClientSends, connVars, upVars, downVars, gotVars
<1>2. CASE ClientResizes
    BY <1>2 DEF ClientResizes, connVars, upVars, downVars, gotVars, kind
<1>3. CASE ClientTurns
    BY <1>3 DEF ClientTurns, connVars, upVars, downVars, gotVars
<1>4. CASE RemoteSends
    BY <1>4 DEF RemoteSends, clientVars, connVars, upVars, gotVars, Ssh, kind
<1>5. CASE RemoteEnds
    BY <1>5 DEF RemoteEnds, clientVars, connVars, upVars, downVars, gotVars
<1>6. CASE UpReads
    BY <1>6 DEF UpReads, downVars, gotVars, kind
<1>7. CASE UpServesPending
    BY <1>7 DEF UpServesPending, clientVars, connVars, downVars, gotVars
<1>8. CASE UpReadFails
    BY <1>8 DEF UpReadFails, clientVars, connVars, downVars, gotVars
<1>9. CASE ReadDeadline
    BY <1>9 DEF ReadDeadline, clientVars, connVars, downVars, gotVars
<1>10. CASE UpWrites
    BY <1>10 DEF UpWrites, clientVars, connVars, downVars, Ssh, kind
<1>11. CASE UpWriteFails
    BY <1>11 DEF UpWriteFails, clientVars, connVars, downVars, gotVars, Ssh, kind
<1>12. CASE PipeThrough
    BY <1>12 DEF PipeThrough, clientVars, connVars, downVars, Ssh, kind
<1>13. CASE PipeFails
    BY <1>13 DEF PipeFails, clientVars, connVars, downVars, gotVars, Ssh, kind
<1>14. CASE StdinEnds
    BY <1>14 DEF StdinEnds, clientVars, connVars, upVars, downVars, gotVars
<1>15. CASE ReportLocks
    BY <1>15 DEF ReportLocks, clientVars, connVars, upVars, downVars, gotVars
<1>16. CASE Reports
    BY <1>16 DEF Reports, clientVars, upVars, downVars, gotVars
<1>17. CASE Dial
    BY <1>17 DEF Dial, callerKept, Ssh, clientVars, gotVars, kind, NotStarted, Setup
<1>18. CASE SetupFails
    BY <1>18 DEF SetupFails, upVars, callerKept, kind, Ssh, clientVars, gotVars
<1>19. CASE NewSession
    BY <1>19 DEF NewSession, upVars, callerKept, clientVars, gotVars
<1>20. CASE RequestPty
    BY <1>20 DEF RequestPty, callerKept, kind, clientVars, gotVars
<1>21. CASE Shell
    BY <1>21 DEF Shell, callerKept, clientVars, gotVars, NotStarted, Setup
<1>22. CASE WaitExit
    BY <1>22 DEF WaitExit, upVars, callerKept, clientVars, gotVars
<1>23. CASE WaitJoins
    BY <1>23 DEF WaitJoins, upVars, callerKept, clientVars, gotVars
<1>24. CASE BridgeFirst
    BY <1>24 DEF BridgeFirst, upVars, callerKept, clientVars, gotVars
<1>25. CASE BridgeClosesA
    BY <1>25 DEF BridgeClosesA, upVars, callerKept, clientVars, gotVars
<1>26. CASE BridgeClosesB
    BY <1>26 DEF BridgeClosesB, upVars, callerKept, kind, clientVars, gotVars
<1>27. CASE BridgeSecond
    BY <1>27 DEF BridgeSecond, upVars, callerKept, clientVars, gotVars
<1>28. CASE Return
    BY <1>28 DEF Return, upVars, callerKept, kind, clientVars, gotVars
<1>29. CASE PingFails
    BY <1>29 DEF PingFails, kaKept, clientVars, gotVars, upVars, downVars
<1>30. CASE KeepAliveStop
    BY <1>30 DEF KeepAliveStop, kaKept, clientVars, gotVars, upVars, downVars
<1>31. ASSUME NEW s \in Sides, DownReads(s)
      PROVE  G
    BY <1>31 DEF DownReads, clientVars, connVars, upVars, gotVars
<1>32. ASSUME NEW s \in Sides, DownEnds(s)
      PROVE  G
    BY <1>32 DEF DownEnds, clientVars, connVars, upVars, gotVars
<1>33. ASSUME NEW s \in Sides, DownLocks(s)
      PROVE  G
    BY <1>33 DEF DownLocks, clientVars, connVars, upVars, gotVars
<1>34. ASSUME NEW s \in Sides, DownWrites(s)
      PROVE  G
    BY <1>34 DEF DownWrites, clientVars, connVars, upVars
<1>35. ASSUME NEW s \in Sides, DownWriteFails(s)
      PROVE  G
    BY <1>35 DEF DownWriteFails, clientVars, upVars, gotVars
<1>36. CASE UNCHANGED vars
    BY <1>36 DEF vars, clientVars, connVars, upVars, downVars, gotVars
<1> QED
    BY <1>1, <1>2, <1>3, <1>4, <1>5, <1>6, <1>7, <1>8, <1>9, <1>10, <1>11, <1>12, <1>13,
       <1>14, <1>15, <1>16, <1>17, <1>18, <1>19, <1>20, <1>21, <1>22, <1>23, <1>24, <1>25,
       <1>26, <1>27, <1>28, <1>29, <1>30, <1>31, <1>32, <1>33, <1>34, <1>35, <1>36
       DEF Next, Up, Down, Main, Peers

(* A stream that goes on in b and then in c goes on in them put together.    *)
LEMMA FollowsConcat ==
    ASSUME NEW b \in Seq(Int), NEW c \in Seq(Int), NEW a \in Nat,
           Follows(b, a), Follows(c, a + Len(b))
    PROVE  Follows(b \o c, a)
<1>1. Len(b) \in Nat /\ Len(c) \in Nat
    BY LenProperties
<1>2. /\ Len(b \o c) = Len(b) + Len(c)
      /\ \A i \in 1 .. Len(b) + Len(c) : (b \o c)[i] = IF i <= Len(b) THEN b[i] ELSE c[i - Len(b)]
    BY ConcatProperties
<1>3. ASSUME NEW i \in 1 .. Len(b) + Len(c) PROVE (b \o c)[i] = a + i
  <2>1. CASE i <= Len(b)
    <3>1. i \in 1 .. Len(b)
        BY <1>1, <2>1
    <3> QED
        BY <1>2, <2>1, <3>1 DEF Follows
  <2>2. CASE ~(i <= Len(b))
    <3>1. i - Len(b) \in 1 .. Len(c)
        BY <1>1, <2>2
    <3>2. c[i - Len(b)] = (a + Len(b)) + (i - Len(b))
        BY <3>1 DEF Follows
    <3> QED
        BY <1>1, <1>2, <2>2, <3>2
  <2> QED
      BY <2>1, <2>2
<1> QED
    BY <1>2, <1>3 DEF Follows

(* A stream that goes on in b goes on in its first part and then in the rest. *)
LEMMA FollowsParts ==
    ASSUME NEW b \in Seq(Int), NEW n \in 0 .. Len(b), NEW a \in Nat, Follows(b, a)
    PROVE  Follows(SubSeq(b, 1, n), a) /\ Follows(SubSeq(b, n + 1, Len(b)), a + n)
<1>1. Len(b) \in Nat
    BY LenProperties
<1>2. /\ \A i \in 1 .. (Len(b) - n) : n + i \in 1 .. Len(b)
      /\ \A i \in 1 .. n : i \in 1 .. Len(b)
    BY <1>1
<1>3. Follows(SubSeq(b, 1, n), a)
    BY <1>2, Parts DEF Follows
<1>4. \A i \in 1 .. (Len(b) - n) : SubSeq(b, n + 1, Len(b))[i] = a + (n + i)
    BY <1>2, Parts DEF Follows
<1>5. \A i \in 1 .. (Len(b) - n) : a + (n + i) = (a + n) + i
    BY <1>1
<1>6. Len(SubSeq(b, n + 1, Len(b))) = Len(b) - n
    BY Parts
<1> QED
    BY <1>3, <1>4, <1>5, <1>6 DEF Follows

(* The sender adds the next piece.                                           *)
LEMMA FlowSends ==
    ASSUME NEW g \in Seq(Int), NEW b \in Seq(Int), NEW c \in Seq(Int), NEW n \in Nat,
           Flow(g, b, c, n)
    PROVE  Flow(g, b, Append(c, n + 1), n + 1)
<1> DEFINE lg == Len(g)
           lb == Len(b)
           lc == Len(c)
           c1 == Append(c, n + 1)
<1>1. lg \in Nat /\ lb \in Nat /\ lc \in Nat
    BY LenProperties
<1>2. Follows(b, lg) /\ Follows(c, lg + lb) /\ lg + lb + lc = n
    BY DEF Flow
<1>3. /\ Len(c1) = lc + 1 /\ c1[lc + 1] = n + 1
      /\ \A i \in 1 .. lc : c1[i] = c[i]
    BY AppendProperties
<1>4. \A i \in 1 .. lc : c[i] = (lg + lb) + i
    BY <1>2 DEF Follows
<1> HIDE DEF lg, lb, lc, c1
<1>5. \A i \in 1 .. (lc + 1) : i \in 1 .. lc \/ i = lc + 1
    BY <1>1
<1>6. n + 1 = (lg + lb) + (lc + 1) /\ lg + lb + (lc + 1) = n + 1
    BY <1>1, <1>2
<1>7. \A i \in 1 .. (lc + 1) : c1[i] = (lg + lb) + i
    BY <1>3, <1>4, <1>5, <1>6
<1>8. Follows(c1, lg + lb)
    BY <1>3, <1>7 DEF Follows
<1>9. lg + lb + Len(c1) = n + 1
    BY <1>3, <1>6
<1> QED
    BY <1>2, <1>8, <1>9 DEF Flow, lg, lb, c1

(* The copier, which holds nothing, reads the first k pieces.                *)
LEMMA FlowReads ==
    ASSUME NEW g \in Seq(Int), NEW c \in Seq(Int), NEW n \in Nat, NEW k \in 0 .. Len(c),
           Flow(g, <<>>, c, n)
    PROVE  Flow(g, SubSeq(c, 1, k), SubSeq(c, k + 1, Len(c)), n)
<1> DEFINE lg == Len(g)
           lc == Len(c)
           x == SubSeq(c, 1, k)
           y == SubSeq(c, k + 1, Len(c))
<1>1. lg \in Nat /\ lc \in Nat /\ k \in 0 .. lc
    BY LenProperties
<1>2. Follows(c, lg + Len(<<>>)) /\ lg + Len(<<>>) + lc = n
    BY DEF Flow
<1>3. Len(x) = k /\ Len(y) = lc - k
    BY Parts
<1> HIDE DEF lg, lc
<1>4. lg + Len(<<>>) = lg
    BY <1>1, EmptySeq
<1>5. Follows(c, lg) /\ lg + lc = n
    BY <1>2, <1>4
<1>6. Follows(x, lg) /\ Follows(y, lg + k)
    BY <1>1, <1>5, FollowsParts DEF lc
<1> HIDE DEF x, y
<1>7. lg + k + (lc - k) = n
    BY <1>1, <1>5
<1> QED
    BY <1>3, <1>6, <1>7 DEF Flow, lg, x, y

(* What the copier holds arrives.                                            *)
LEMMA FlowWrites ==
    ASSUME NEW g \in Seq(Int), NEW b \in Seq(Int), NEW c \in Seq(Int), NEW n \in Nat,
           Follows(g, 0), Flow(g, b, c, n)
    PROVE  Follows(g \o b, 0) /\ Flow(g \o b, <<>>, c, n) /\ Len(g \o b) <= n
<1> DEFINE lg == Len(g)
           lb == Len(b)
           lc == Len(c)
           h == g \o b
<1>1. lg \in Nat /\ lb \in Nat /\ lc \in Nat
    BY LenProperties
<1>2. Follows(b, lg) /\ Follows(c, lg + lb) /\ lg + lb + lc = n
    BY DEF Flow
<1>3. Len(h) = lg + lb
    BY ConcatProperties
<1>4. Follows(h, 0)
  <2>1. Follows(b, 0 + Len(g))
      BY <1>1, <1>2
  <2> QED
      BY <2>1, FollowsConcat
<1> HIDE DEF lg, lb, lc, h
<1>5. Len(<<>>) = 0
    BY EmptySeq
<1>6. Follows(<<>>, Len(h))
    BY <1>5 DEF Follows
<1>7. (lg + lb) + 0 = lg + lb /\ lg + lb <= n
    BY <1>1, <1>2
<1>8. Follows(c, Len(h) + Len(<<>>)) /\ Len(h) + Len(<<>>) + lc = n /\ Len(h) <= n
    BY <1>2, <1>3, <1>5, <1>7
<1> QED
    BY <1>4, <1>6, <1>8 DEF Flow, lc, h

(* The streams to the client are kept by every step.                         *)
LEMMA OutStreamStep ==
    ASSUME ControlInv, OutStream, [Next]_vars
    PROVE  OutStream'
<1>0. BufferTypes /\ Values /\ NotStarted /\ sentDown \in [Sides -> Nat]
    BY TunnelAssumption DEF ControlInv, TypeOK, Values
<1> SUFFICES ASSUME NEW s \in Sides PROVE OutStreamOf(s)'
    BY DEF OutStream
<1>1. /\ Follows(gotDown[s], 0) /\ Len(gotDown[s]) <= sentDown[s]
      /\ down[s] \in {"off", "read"} => out[s] = <<>>
      /\ down[s] # "done" /\ client # "gone" => Flow(gotDown[s], out[s], chan[s], sentDown[s])
    BY DEF OutStream, OutStreamOf
<1>2. /\ client' # "gone" => client # "gone"
      /\ down'[s] # "done" => down[s] # "done"
      /\ down'[s] \in {"off", "read"} => down[s] \in {"off", "read"} \/ out'[s] = <<>>
    BY <1>0, NoWayBackOut
<1>3. /\ chan[s] \in Seq(Int) /\ out[s] \in Seq(Int) /\ gotDown[s] \in Seq(Int)
      /\ sentDown[s] \in Nat /\ Len(gotDown[s]) \in Nat
    BY <1>0, LenProperties DEF BufferTypes
<1>4. ASSUME chan'[s] = chan[s], out'[s] = out[s], gotDown'[s] = gotDown[s],
             sentDown'[s] = sentDown[s]
      PROVE  OutStreamOf(s)'
    BY <1>1, <1>2, <1>4, Zenon DEF OutStreamOf
<1>5. CASE RemoteSends
  <2>1. PICK t \in Sides : /\ sentDown' = [sentDown EXCEPT ![t] = @ + 1]
                           /\ chan' = [chan EXCEPT ![t] = Append(@, sentDown[t] + 1)]
      BY <1>0, <1>5, TunnelAssumption DEF RemoteSends, Values, Sides
  <2>2. UNCHANGED <<out, gotDown, down, client>>
      BY <1>5 DEF RemoteSends, gotVars, clientVars
  <2>3. CASE t # s
      BY <1>0, <1>4, <2>1, <2>2, <2>3 DEF BufferTypes
  <2>4. CASE t = s
    <3>1. sentDown'[s] = sentDown[s] + 1 /\ chan'[s] = Append(chan[s], sentDown[s] + 1)
        BY <1>0, <2>1, <2>4 DEF BufferTypes
    <3>2. Len(gotDown[s]) <= sentDown'[s]
        BY <1>1, <1>3, <3>1
    <3>3. down[s] # "done" /\ client # "gone" => Flow(gotDown[s], out[s], chan'[s], sentDown'[s])
        BY <1>1, <1>3, <3>1, FlowSends
    <3> QED
        BY <1>1, <2>2, <3>2, <3>3, Zenon DEF OutStreamOf
  <2> QED
      BY <2>3, <2>4
<1>6. ASSUME NEW t \in Sides, DownReads(t) PROVE OutStreamOf(s)'
  <2>1. PICK n \in 1 .. Len(chan[t]) :
           /\ out' = [out EXCEPT ![t] = SubSeq(chan[t], 1, n)]
           /\ chan' = [chan EXCEPT ![t] = SubSeq(@, n + 1, Len(@))]
      BY <1>6 DEF DownReads
  <2>2. /\ UNCHANGED <<sentDown, gotDown, client>> /\ down[t] = "read"
        /\ down' = [down EXCEPT ![t] = "write"]
      BY <1>6 DEF DownReads, gotVars, clientVars
  <2>3. CASE t # s
      BY <1>0, <1>4, <2>1, <2>2, <2>3 DEF BufferTypes
  <2>4. CASE t = s
    <3>1. n \in 0 .. Len(chan[s])
        BY <1>3, <2>1, <2>4, LenProperties
    <3>2. /\ out'[s] = SubSeq(chan[s], 1, n) /\ chan'[s] = SubSeq(chan[s], n + 1, Len(chan[s]))
          /\ down'[s] = "write"
        BY <1>0, <2>1, <2>2, <2>4 DEF BufferTypes, Values
    <3>3. client # "gone" => Flow(gotDown[s], <<>>, chan[s], sentDown[s])
        BY <1>1, <2>2, <2>4
    <3>4. client # "gone" => Flow(gotDown[s], out'[s], chan'[s], sentDown[s])
        BY <1>3, <3>1, <3>2, <3>3, FlowReads
    <3> QED
        BY <1>1, <2>2, <3>2, <3>4 DEF OutStreamOf
  <2> QED
      BY <2>3, <2>4
<1>7. ASSUME NEW t \in Sides, DownWrites(t) PROVE OutStreamOf(s)'
  <2>1. /\ UNCHANGED <<chan, sentDown, client>> /\ client \in {"up", "gone"} /\ down[t] = "flush"
        /\ gotDown' = IF client = "up" THEN [gotDown EXCEPT ![t] = @ \o out[t]] ELSE gotDown
        /\ out' = [out EXCEPT ![t] = <<>>]
      BY <1>0, <1>7 DEF DownWrites, clientVars, Writable, Values
  <2>2. CASE t # s
      BY <1>0, <1>4, <2>1, <2>2 DEF BufferTypes
  <2>3. CASE t = s
    <3>1. out'[s] = <<>> /\ gotDown'[s] = IF client = "up" THEN gotDown[s] \o out[s] ELSE gotDown[s]
        BY <1>0, <2>1, <2>3 DEF BufferTypes
    <3>2. CASE client = "up"
      <4>1. Flow(gotDown[s], out[s], chan[s], sentDown[s])
          BY <1>1, <2>1, <2>3, <3>2
      <4>2. /\ Follows(gotDown'[s], 0) /\ Flow(gotDown'[s], <<>>, chan[s], sentDown[s])
            /\ Len(gotDown'[s]) <= sentDown[s]
          BY <1>1, <1>3, <3>1, <3>2, <4>1, FlowWrites
      <4> QED
          BY <2>1, <3>1, <4>2, Zenon DEF OutStreamOf
    <3>3. CASE client = "gone"
      <4>1. gotDown'[s] = gotDown[s] /\ client' = "gone"
          BY <2>1, <3>1, <3>3
      <4> QED
          BY <1>1, <2>1, <3>1, <4>1, Zenon DEF OutStreamOf
    <3> QED
        BY <2>1, <3>2, <3>3
  <2> QED
      BY <2>2, <2>3
<1>8. ASSUME NEW t \in Sides, DownWriteFails(t) PROVE OutStreamOf(s)'
  <2>1. /\ UNCHANGED <<chan, sentDown, gotDown>>
        /\ out' = [out EXCEPT ![t] = <<>>] /\ down' = [down EXCEPT ![t] = "done"]
      BY <1>8 DEF DownWriteFails, gotVars
  <2>2. CASE t # s
      BY <1>0, <1>4, <2>1, <2>2 DEF BufferTypes
  <2>3. CASE t = s
      BY <1>0, <1>1, <2>1, <2>3 DEF OutStreamOf, Values
  <2> QED
      BY <2>2, <2>3
<1>9. CASE UNCHANGED outVars
    BY <1>4, <1>9 DEF outVars
<1> QED
    BY <1>5, <1>6, <1>7, <1>8, <1>9, OtherOutSteps DEF Outward

-----------------------------------------------------------------------------
(* The tunnel implements ByteStreams.                                        *)

(* The pieces sent, in order.                                                *)
LEMMA NumberedFollows ==
    ASSUME NEW n \in Nat
    PROVE  Numbered(n) \in Seq(Int) /\ Len(Numbered(n)) = n /\ Follows(Numbered(n), 0)
<1>1. Numbered(n) \in [1 .. n -> Int]
    BY DEF Numbered
<1>2. Numbered(n) \in Seq(Int)
    BY <1>1, SeqDef
<1>3. Len(Numbered(n)) = n
    BY <1>1, <1>2, LenProperties
<1> QED
    BY <1>2, <1>3 DEF Follows, Numbered

(* Of two streams of the same sender the shorter one is a prefix.            *)
LEMMA PrefixOfLonger ==
    ASSUME NEW b \in Seq(Int), NEW c \in Seq(Int), Follows(b, 0), Follows(c, 0),
           Len(b) <= Len(c)
    PROVE  Streams!IsPrefix(b, c)
<1> DEFINE d == SubSeq(c, 1, Len(b))
<1>1. Len(b) \in Nat /\ Len(c) \in Nat /\ Len(b) \in 0 .. Len(c)
    BY LenProperties
<1>2. d \in Seq(Int) /\ Len(d) = Len(b) /\ \A i \in 1 .. Len(b) : d[i] = c[i]
    BY <1>1, Parts
<1>3. \A i \in 1 .. Len(b) : i \in 1 .. Len(c)
    BY <1>1
<1> HIDE DEF d
<1>4. \A i \in 1 .. Len(b) : b[i] = d[i]
    BY <1>2, <1>3 DEF Follows
<1>5. b = d
    BY <1>2, <1>4, SeqEqual
<1>6. SubSeq(b, 1, Len(b)) = b
    BY SubSeqFull
<1> QED
    BY <1>5, <1>6 DEF Streams!IsPrefix, d

\* What a step may do to the ends of the streams: the client or the remote end
\* sends, the remote end or the client receives, or none of it.
EndsMove ==
    \/ UNCHANGED <<sentDown, gotUp, gotDown>> /\ sentUp <= sentUp'
    \/ /\ UNCHANGED <<sentUp, gotUp, gotDown>>
       /\ \E t \in Sides : sentDown' = [sentDown EXCEPT ![t] = @ + 1]
    \/ UNCHANGED <<sentUp, sentDown, gotDown>> /\ \E b \in Seq(Int) : gotUp' = gotUp \o b
    \/ /\ UNCHANGED <<sentUp, sentDown, gotUp>>
       /\ \E t \in Sides, b \in Seq(Int) : gotDown' = [gotDown EXCEPT ![t] = @ \o b]
    \/ UNCHANGED <<sentUp, sentDown, gotUp, gotDown>>

(* Every step moves at most one end of one stream.                           *)
LEMMA StepMovesEnds ==
    ASSUME ControlInv, [Next]_vars
    PROVE  EndsMove
<1>0. BufferTypes /\ sentUp \in Nat /\ <<>> \in Seq(Int)
    BY TunnelAssumption, EmptySeq DEF ControlInv, TypeOK, Values
<1>9. \A b \in Seq(Int) : (IF HasControl(b) THEN <<>> ELSE b) \in Seq(Int)
    BY <1>0
<1>1. CASE ClientSends
  <2>1. sentUp <= sentUp'
      BY <1>0, <1>1 DEF ClientSends
  <2> QED
      BY <1>1, <2>1 DEF EndsMove, ClientSends, gotVars
<1>2. CASE UpWrites
  <2>1. PICK k \in 1 .. Len(hold) : Reach(IF remote = "open" THEN SubSeq(hold, 1, k) ELSE <<>>)
      BY <1>2 DEF UpWrites
  <2>2. hold \in Seq(Int) /\ k \in 0 .. Len(hold)
      BY <1>0, <2>1, LenProperties DEF BufferTypes
  <2>3. (IF remote = "open" THEN SubSeq(hold, 1, k) ELSE <<>>) \in Seq(Int)
      BY <1>0, <2>2, Parts
  <2>4. \E b \in Seq(Int) : gotUp' = gotUp \o b
      BY <1>9, <2>1, <2>3 DEF Reach
  <2> QED
      BY <1>2, <2>4 DEF EndsMove, UpWrites, clientVars
<1>3. CASE PipeThrough
  <2>1. \E b \in Seq(Int) : gotUp' = gotUp \o b
      BY <1>0, <1>3, <1>9 DEF PipeThrough, Reach, BufferTypes
  <2> QED
      BY <1>3, <2>1 DEF EndsMove, PipeThrough, clientVars
<1>4. CASE ClientResizes \/ UpReads \/ UpServesPending \/ UpWriteFails \/ PipeFails \/ RequestPty
    BY <1>4 DEF EndsMove, ClientResizes, UpReads, UpServesPending, UpWriteFails, PipeFails,
                RequestPty, callerKept, clientVars, gotVars
<1>5. CASE RemoteSends
  <2>1. \E t \in Sides : sentDown' = [sentDown EXCEPT ![t] = @ + 1]
      BY <1>5, TunnelAssumption DEF RemoteSends, Sides, ControlInv, TypeOK, Values
  <2> QED
      BY <1>5, <2>1 DEF EndsMove, RemoteSends, clientVars, gotVars
<1>6. ASSUME NEW s \in Sides, DownReads(s) \/ DownWriteFails(s) PROVE EndsMove
    BY <1>6 DEF EndsMove, DownReads, DownWriteFails, clientVars, gotVars
<1>7. ASSUME NEW s \in Sides, DownWrites(s) PROVE EndsMove
  <2>1. out[s] \in Seq(Int)
      BY <1>0 DEF BufferTypes
  <2> QED
      BY <1>7, <2>1 DEF EndsMove, DownWrites, clientVars
<1>8. CASE UNCHANGED inVars /\ UNCHANGED outVars
    BY <1>8 DEF EndsMove, inVars, outVars
<1> QED
    BY <1>1, <1>2, <1>3, <1>4, <1>5, <1>6, <1>7, <1>8, OtherSteps, OtherOutSteps
       DEF Inward, Outward
(* Each step of the tunnel is a step of ByteStreams or changes no end.       *)
LEMMA StreamsStep ==
    ASSUME ControlInv, ControlInv', InStream, InStream', OutStream, OutStream', [Next]_vars
    PROVE  [Streams!Next]_<<sentOn, gotOn>>
<1>0. "in" \in Ends /\ Sides \subseteq Ends /\ \A s \in Sides : s # "in"
    BY DEF Ends, Sides
\* Before and after, what was sent and what has arrived are in order.
<1>1. /\ sentUp \in Nat /\ gotUp \in Seq(Int) /\ gotDown \in [Sides -> Seq(Int)]
      /\ sentUp' \in Nat /\ gotUp' \in Seq(Int) /\ gotDown' \in [Sides -> Seq(Int)]
  <2>1. cfg.maxUp \in Nat /\ cfg'.maxUp \in Nat
      BY TunnelAssumption DEF ControlInv, TypeOK, Values
  <2>2. sentUp \in 0 .. cfg.maxUp /\ sentUp' \in 0 .. cfg'.maxUp
      BY DEF ControlInv, TypeOK, Values
  <2>3. sentUp \in Nat /\ sentUp' \in Nat
      BY <2>1, <2>2
  <2> QED
      BY <2>3 DEF ControlInv, BufferTypes
<1>2. sentDown \in [Sides -> Nat] /\ sentDown' \in [Sides -> Nat]
  <2>1. 0 .. MaxDown \subseteq Nat
      BY TunnelAssumption
  <2>2. sentDown \in [Sides -> 0 .. MaxDown] /\ sentDown' \in [Sides -> 0 .. MaxDown]
      BY DEF ControlInv, TypeOK, Values
  <2> QED
      BY <2>1, <2>2
<1>3. ASSUME NEW s \in Ends
      PROVE  /\ sentOn[s] \in Seq(Int) /\ Follows(sentOn[s], 0)
             /\ Len(sentOn[s]) = IF s = "in" THEN sentUp ELSE sentDown[s]
             /\ gotOn[s] \in Seq(Int) /\ Follows(gotOn[s], 0)
    BY <1>1, <1>2, <1>3, NumberedFollows DEF sentOn, gotOn, InStream, OutStream, OutStreamOf, Ends
<1>4. ASSUME NEW s \in Ends
      PROVE  /\ sentOn'[s] \in Seq(Int) /\ Follows(sentOn'[s], 0)
             /\ Len(sentOn'[s]) = IF s = "in" THEN sentUp' ELSE sentDown'[s]
             /\ gotOn'[s] \in Seq(Int) /\ Follows(gotOn'[s], 0)
             /\ Len(gotOn'[s]) <= Len(sentOn'[s])
    BY <1>1, <1>2, <1>4, NumberedFollows DEF sentOn, gotOn, InStream, OutStream, OutStreamOf, Ends
\* A stream whose sending end moves on, or whose receiving end does.
<1>5. ASSUME NEW s \in Ends, Len(sentOn[s]) <= Len(sentOn'[s]),
             sentOn' = [sentOn EXCEPT ![s] = sentOn'[s]], gotOn' = gotOn
      PROVE  Streams!Next
    BY <1>3, <1>4, <1>5, PrefixOfLonger DEF Streams!Next, Streams!Put
<1>6. ASSUME NEW s \in Ends, Len(gotOn[s]) <= Len(gotOn'[s]),
             gotOn' = [gotOn EXCEPT ![s] = gotOn'[s]], sentOn' = sentOn
      PROVE  Streams!Next
  <2>1. Streams!IsPrefix(gotOn[s], gotOn'[s])
      BY <1>3, <1>4, <1>6, PrefixOfLonger
  <2>2. Streams!IsPrefix(gotOn'[s], sentOn[s])
      BY <1>4, <1>6, PrefixOfLonger
  <2> QED
      BY <1>6, <2>1, <2>2 DEF Streams!Next, Streams!Deliver
<1>7. CASE UNCHANGED <<sentDown, gotUp, gotDown>> /\ sentUp <= sentUp'
  <2>1. sentOn' = [sentOn EXCEPT !["in"] = sentOn'["in"]] /\ gotOn' = gotOn
      BY <1>0, <1>7 DEF sentOn, gotOn
  <2>2. Len(sentOn["in"]) <= Len(sentOn'["in"])
      BY <1>0, <1>3, <1>4, <1>7
  <2> QED
      BY <1>0, <1>5, <2>1, <2>2
<1>8. ASSUME UNCHANGED <<sentUp, gotUp, gotDown>>, NEW t \in Sides,
             sentDown' = [sentDown EXCEPT ![t] = @ + 1]
      PROVE  Streams!Next
  <2>1. sentOn' = [sentOn EXCEPT ![t] = sentOn'[t]] /\ gotOn' = gotOn
      BY <1>0, <1>2, <1>8 DEF sentOn, gotOn, Ends
  <2>2. sentDown[t] <= sentDown'[t]
      BY <1>2, <1>8
  <2>3. Len(sentOn[t]) <= Len(sentOn'[t])
      BY <1>0, <1>3, <1>4, <2>2
  <2> QED
      BY <1>0, <1>5, <2>1, <2>3
<1>9. ASSUME UNCHANGED <<sentUp, sentDown, gotDown>>, NEW b \in Seq(Int), gotUp' = gotUp \o b
      PROVE  Streams!Next
  <2>1. gotOn' = [gotOn EXCEPT !["in"] = gotOn'["in"]] /\ sentOn' = sentOn
      BY <1>0, <1>9 DEF sentOn, gotOn
  <2>2. Len(gotUp) <= Len(gotUp')
      BY <1>1, <1>9, ConcatProperties, LenProperties
  <2>3. gotOn["in"] = gotUp /\ gotOn'["in"] = gotUp'
      BY <1>0 DEF gotOn
  <2> QED
      BY <1>0, <1>6, <2>1, <2>2, <2>3
<1>10. ASSUME UNCHANGED <<sentUp, sentDown, gotUp>>, NEW t \in Sides, NEW b \in Seq(Int),
              gotDown' = [gotDown EXCEPT ![t] = @ \o b]
       PROVE  Streams!Next
  <2>1. gotOn' = [gotOn EXCEPT ![t] = gotOn'[t]] /\ sentOn' = sentOn
      BY <1>0, <1>1, <1>10 DEF sentOn, gotOn, Ends
  <2>2. gotDown'[t] = gotDown[t] \o b /\ gotDown[t] \in Seq(Int)
      BY <1>1, <1>10
  <2>3. Len(gotDown[t]) <= Len(gotDown'[t])
      BY <1>10, <2>2, ConcatProperties, LenProperties
  <2>4. gotOn[t] = gotDown[t] /\ gotOn'[t] = gotDown'[t]
      BY <1>0 DEF gotOn
  <2> QED
      BY <1>0, <1>6, <2>1, <2>3, <2>4
<1>11. CASE UNCHANGED <<sentUp, sentDown, gotUp, gotDown>>
    BY <1>11 DEF sentOn, gotOn
<1> QED
    BY <1>7, <1>8, <1>9, <1>10, <1>11, StepMovesEnds DEF EndsMove

(* Each stream through the tunnel is a byte stream: however reads cut the    *)
(* messages, whatever the resize reader takes out or keeps pending, whenever *)
(* a copier fails and either end goes away, the receiver has a prefix of     *)
(* what was sent, and it only grows.                                         *)
THEOREM TunnelIsByteStreams == Spec => IsByteStreams
<1>1. Init => InStream /\ OutStream
  <2> SUFFICES ASSUME Init PROVE InStream /\ OutStream
      OBVIOUS
  <2>0. Len(<<>>) = 0 /\ Follows(<<>>, 0)
      BY EmptySeq DEF Follows
  <2>1. Chain(<<>>, 0, 0)
    <3> DEFINE mk == [j \in 1 .. 1 |-> 0]
    <3>1. Len(<<>>) + 1 = 1 /\ 1 .. Len(<<>>) = {}
        BY <2>0
    <3>2. mk \in [1 .. 1 -> 0 .. 0] /\ mk[1] = 0
        OBVIOUS
    <3> HIDE DEF mk
    <3> QED
        BY <3>1, <3>2, Zenon DEF Chain
  <2>2. InStream
      BY <2>0, <2>1, CarriesNothing DEF Init, InStream
  <2>3. Flow(<<>>, <<>>, <<>>, 0)
      BY <2>0 DEF Flow
  <2>4. OutStream
      BY <2>0, <2>3 DEF Init, OutStream, OutStreamOf
  <2> QED
      BY <2>2, <2>4
<1>2. Init => Streams!Init
  <2> SUFFICES ASSUME Init PROVE Streams!Init
      OBVIOUS
  <2>1. Numbered(0) = <<>>
      BY NumberedFollows, EmptyLen
  <2> QED
      BY <2>1 DEF Init, Streams!Init, sentOn, gotOn, Ends
<1>3. ControlInv /\ InStream /\ OutStream /\ [Next]_vars => InStream' /\ OutStream'
    BY InStreamStep, OutStreamStep
<1>4. ControlInv /\ InStream /\ OutStream /\ ControlInv' /\ InStream' /\ OutStream' /\ [Next]_vars
        => [Streams!Next]_<<sentOn, gotOn>>
    BY StreamsStep
<1> QED
    BY ControlInit, ControlStep, <1>1, <1>2, <1>3, <1>4, PTL DEF Spec, IsByteStreams, Streams!Spec
=============================================================================
