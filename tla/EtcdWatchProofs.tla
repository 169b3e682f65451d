-------------------------- MODULE EtcdWatchProofs ---------------------------
(* Proofs about EtcdWatch: type correctness with the capacity of both        *)
(* channels and the cap of the backoff, that only a cancelled context ends   *)
(* the loop, that it never hammers the server, and that an open stream skips *)
(* only lines that are not JSON.                                             *)
EXTENDS EtcdWatch, TLAPS

(* What is taken off a non-empty sequence and what stays are its elements.   *)
LEMMA HeadTail ==
    ASSUME NEW S, NEW s \in Seq(S), s # <<>>
    PROVE  /\ Head(s) \in S /\ Tail(s) \in Seq(S)
           /\ ToSet(s) = {Head(s)} \union ToSet(Tail(s))
<1>1. Len(s) \in Nat \ {0} /\ Head(s) = s[1] /\ Tail(s) \in Seq(S) /\ Head(s) \in S
    OBVIOUS
<1>2. Len(Tail(s)) = Len(s) - 1 /\ \A i \in 1..(Len(s) - 1) : Tail(s)[i] = s[i + 1]
    BY <1>1
<1>3. ASSUME NEW x \in ToSet(s) PROVE x = Head(s) \/ x \in ToSet(Tail(s))
  <2>1. PICK i \in 1..Len(s) : x = s[i]
      BY <1>3 DEF ToSet
  <2>2. CASE i = 1
      BY <1>1, <2>1, <2>2
  <2>3. CASE i # 1
    <3>1. i - 1 \in 1..(Len(s) - 1) /\ Tail(s)[i - 1] = x
        BY <1>1, <1>2, <2>1, <2>3
    <3>2. i - 1 \in DOMAIN Tail(s)
        BY <1>1, <1>2, <3>1
    <3>3. QED
        BY <3>1, <3>2 DEF ToSet
  <2>4. QED
      BY <2>2, <2>3
<1>4. Head(s) \in ToSet(s)
    BY <1>1 DEF ToSet
<1>5. ASSUME NEW x \in ToSet(Tail(s)) PROVE x \in ToSet(s)
  <2>1. PICK i \in 1..(Len(s) - 1) : x = Tail(s)[i]
      BY <1>1, <1>2, <1>5 DEF ToSet
  <2>2. i + 1 \in 1..Len(s) /\ s[i + 1] = x
      BY <1>1, <1>2, <2>1
  <2>3. QED
      BY <1>1, <2>2 DEF ToSet
<1>6. QED
    BY <1>1, <1>3, <1>4, <1>5

(* Appending adds the element.                                               *)
LEMMA AppendSet ==
    ASSUME NEW S, NEW s \in Seq(S), NEW e \in S
    PROVE  Append(s, e) \in Seq(S) /\ ToSet(Append(s, e)) = ToSet(s) \union {e}
<1>1. /\ Append(s, e) \in Seq(S) /\ Len(Append(s, e)) = Len(s) + 1 /\ Len(s) \in Nat
      /\ Append(s, e)[Len(s) + 1] = e /\ \A i \in 1..Len(s) : Append(s, e)[i] = s[i]
    OBVIOUS
<1>2. ASSUME NEW x \in ToSet(Append(s, e)) PROVE x \in ToSet(s) \/ x = e
  <2>1. PICK i \in 1..(Len(s) + 1) : x = Append(s, e)[i]
      BY <1>1, <1>2 DEF ToSet
  <2>2. CASE i = Len(s) + 1
      BY <1>1, <2>1, <2>2
  <2>3. CASE i # Len(s) + 1
    <3>1. i \in 1..Len(s) /\ x = s[i]
        BY <1>1, <2>1, <2>3
    <3>2. QED
        BY <3>1 DEF ToSet
  <2>4. QED
      BY <2>2, <2>3
<1>3. e \in ToSet(Append(s, e))
  <2>1. Len(s) + 1 \in DOMAIN Append(s, e)
      BY <1>1
  <2>2. QED
      BY <1>1, <2>1 DEF ToSet
<1>4. ASSUME NEW x \in ToSet(s) PROVE x \in ToSet(Append(s, e))
  <2>1. PICK i \in 1..Len(s) : x = s[i]
      BY <1>4 DEF ToSet
  <2>2. i \in DOMAIN Append(s, e) /\ Append(s, e)[i] = x
      BY <1>1, <2>1
  <2>3. QED
      BY <2>2 DEF ToSet
<1>5. QED
    BY <1>1, <1>2, <1>3, <1>4

-----------------------------------------------------------------------------
(* Types, channel capacities and the cap of the backoff hold initially.      *)
LEMMA TypeInit == Init => TypeOK
<1> SUFFICES ASSUME Init PROVE TypeOK
    OBVIOUS
<1>1. cancelled \in BOOLEAN /\ retryUsed \in BOOLEAN /\ connected \in BOOLEAN
    BY Zenon DEF Init
<1>2. events \in Seq(1..MaxRev) /\ batch \in Seq(1..MaxRev) /\ delivered \in Seq(1..MaxRev)
    BY DEF Init
<1>3. Len(events) <= EventCap /\ errs \in 0..ErrCap /\ tries \in Nat
    BY WatchAssumption DEF Init
<1>4. /\ written \in 0..MaxRev /\ cursor \in 0..written /\ lost \subseteq 1..MaxRev
      /\ garbled \subseteq 1..MaxRev
    BY WatchAssumption DEF Init
<1>5. backoff \in Backoffs
    BY DEF Init, InitBackoff, Backoffs
<1>6. /\ pc \in Steps /\ mu \in {"free", "own", "other"} /\ (mu = "own" <=> pc = "auth")
      /\ err \in {"none", "auth", "other"} /\ (pc = "send" => batch # <<>>)
    BY DEF Init, Steps
<1>7. QED
    BY <1>1, <1>2, <1>3, <1>4, <1>5, <1>6 DEF TypeOK

(* Every step keeps them.                                                    *)
LEMMA TypeStep == TypeOK /\ [Next]_vars => TypeOK'
<1> SUFFICES ASSUME TypeOK, [Next]_vars PROVE TypeOK'
    OBVIOUS
<1> USE WatchAssumption DEF TypeOK, Steps, loop, once, chans, hist
<1>1. CASE Check
    BY <1>1 DEF Check
<1>2. CASE ConnectFails
  <2>1. err' \in {"auth", "other"} /\ pc' \in {"report", "reset"}
      BY <1>2 DEF ConnectFails
  <2>2. connected' \in BOOLEAN
      BY <1>2, Zenon DEF ConnectFails
  <2>3. QED
      BY <1>2, <2>1, <2>2 DEF ConnectFails
<1>3. CASE Interrupted
    BY <1>3 DEF Interrupted
<1>4. CASE Receive
  <2>1. PICK last \in (cursor + 1)..written :
          /\ batch' = [i \in 1..(last - cursor) |-> cursor + i]
          /\ cursor' = last
      BY <1>4 DEF Receive
  <2>2. last - cursor \in Nat \ {0} /\ \A i \in 1..(last - cursor) : cursor + i \in 1..MaxRev
      BY <2>1
  <2>3. batch' \in Seq(1..MaxRev) /\ Len(batch') = last - cursor
      BY <2>1, <2>2
  <2>4. batch' # <<>>
      BY <2>2, <2>3
  <2>5. cursor' \in 0..written
      BY <2>1
  <2>6. QED
      BY <1>4, <2>3, <2>4, <2>5 DEF Receive
<1>5. CASE Send
  <2>1. Head(batch) \in 1..MaxRev /\ Tail(batch) \in Seq(1..MaxRev)
      BY <1>5, HeadTail DEF Send
  <2>2. /\ events' \in Seq(1..MaxRev) /\ Len(events') <= EventCap
        /\ delivered' \in Seq(1..MaxRev)
      BY <1>5, <2>1 DEF Send
  <2>3. QED
      BY <1>5, <2>1, <2>2 DEF Send
<1>6. CASE SendCancelled
    BY <1>6 DEF SendCancelled
<1>7. CASE Report
  <2>1. errs' \in 0..ErrCap
      BY <1>7 DEF Report, PushErr
  <2>2. backoff' \in Backoffs
      BY <1>7 DEF Report, InitBackoff, Backoffs
  <2>3. retryUsed' \in BOOLEAN
      BY <1>7, Zenon DEF Report
  <2>4. pc' \in {"check", "wait"}
      BY <1>7 DEF Report
  <2>5. QED
      BY <1>7, <2>1, <2>2, <2>3, <2>4 DEF Report
<1>8. CASE WaitOver
  <2>1. backoff' \in Backoffs
      BY <1>8 DEF WaitOver, Doubled, MaxBackoff, Backoffs
  <2>2. QED
      BY <1>8, <2>1 DEF WaitOver
<1>9. CASE WaitCancelled
    BY <1>9 DEF WaitCancelled
<1>10. CASE ConnectOk
  <2>1. cursor' \in 0..written /\ lost' \subseteq 1..MaxRev
      BY <1>10 DEF ConnectOk
  <2>2. connected' \in BOOLEAN
      BY <1>10, Zenon DEF ConnectOk
  <2>3. QED
      BY <1>10, <2>1, <2>2 DEF ConnectOk
<1>11. CASE ReceiveError
    BY <1>11 DEF ReceiveError, PushErr
<1>12. CASE Undecodable
  <2>1. Head(batch) \in 1..MaxRev /\ Tail(batch) \in Seq(1..MaxRev)
      BY <1>12, HeadTail DEF Undecodable
  <2>2. errs' \in 0..ErrCap
      BY <1>12 DEF Undecodable, PushErr
  <2>3. lost' \subseteq 1..MaxRev
      BY <1>12, <2>1 DEF Undecodable
  <2>4. QED
      BY <1>12, <2>1, <2>2, <2>3 DEF Undecodable
<1>13. CASE StreamEnds
    BY <1>13 DEF StreamEnds
<1>14. CASE Consume
  <2>1. events' \in Seq(1..MaxRev) /\ Len(events') <= EventCap
      BY <1>14 DEF Consume
  <2>2. QED
      BY <1>14, <2>1 DEF Consume
<1>15. CASE ConsumeErr
    BY <1>15 DEF ConsumeErr
<1>16. CASE Cancel
    BY <1>16 DEF Cancel
<1>17. CASE Write
    BY <1>17 DEF Write
<1>18. CASE UNCHANGED vars
    BY <1>18 DEF vars
<1>19. CASE TokenCached \/ TokenLock \/ SetAuth \/ ResetToken
    BY <1>19 DEF TokenCached, TokenLock, SetAuth, ResetToken, Acquire
<1>20. CASE TokenStored
    BY <1>20 DEF TokenStored
<1>21. CASE TokenFails
  <2>1. connected' \in BOOLEAN
      BY <1>21, Zenon DEF TokenFails
  <2>2. QED
      BY <1>21, <2>1 DEF TokenFails
<1>22. CASE ReceiveGarbled
  <2>1. PICK last \in (cursor + 1)..written :
          /\ garbled' = garbled \union ((cursor + 1)..last)
          /\ cursor' = last
      BY <1>22 DEF ReceiveGarbled
  <2>2. cursor' \in 0..written /\ garbled' \subseteq 1..MaxRev
      BY <2>1
  <2>3. QED
      BY <1>22, <2>2 DEF ReceiveGarbled
<1>23. CASE OthersLock \/ OthersUnlock
    BY <1>23 DEF OthersLock, OthersUnlock
<1>24. QED
    BY <1>1, <1>2, <1>3, <1>4, <1>5, <1>6, <1>7, <1>8, <1>9, <1>10, <1>11, <1>12, <1>13,
       <1>14, <1>15, <1>16, <1>17, <1>18, <1>19, <1>20, <1>21, <1>22, <1>23
       DEF Next, WatchStep, LockStep

(* The channels of Watch never exceed their capacity and the backoff never   *)
(* its cap, for every capacity and number of revisions.                      *)
THEOREM TypeCorrect == Spec => []TypeOK
BY TypeInit, TypeStep, PTL DEF Spec

-----------------------------------------------------------------------------
(* The goroutine leaves its loop only because its context was cancelled.     *)
THEOREM EndsOnlyCancelled == Spec => []DoneMeansCancelled
<1>1. Init => DoneMeansCancelled
    BY DEF Init, DoneMeansCancelled
<1>2. DoneMeansCancelled /\ TypeOK /\ [Next]_vars => DoneMeansCancelled'
    BY DEF DoneMeansCancelled, TypeOK, Next, WatchStep, LockStep, vars, Check, TokenCached, TokenLock,
       TokenStored, TokenFails, SetAuth, ResetToken, ReceiveGarbled, OthersLock, OthersUnlock, ConnectFails, Interrupted,
       Receive, Send, SendCancelled, Report, WaitOver, WaitCancelled, ConnectOk, ReceiveError,
       Undecodable, StreamEnds, Consume, ConsumeErr, Cancel, Write
<1>3. QED
    BY <1>1, <1>2, TypeCorrect, PTL DEF Spec

-----------------------------------------------------------------------------
\* How many connections the loop has opened since it last waited: a second one
\* only with the immediate retry used up, which a 401 on an open never renews.
TryInv ==
    /\ tries \in 0..2
    /\ pc \in {"check", "token", "auth", "header", "connect"} => tries = 0 \/ (tries = 1 /\ retryUsed)
    /\ pc \in {"reset", "stream", "send", "report"} /\ tries = 2 => retryUsed
    /\ pc = "reset" \/ (pc = "report" /\ err = "auth") => ~connected

(* Every step keeps the count.                                               *)
LEMMA TryStep == TryInv /\ TypeOK /\ [Next]_vars => TryInv'
<1> SUFFICES ASSUME TryInv, TypeOK, [Next]_vars PROVE TryInv'
    OBVIOUS
<1> USE DEF TryInv, TypeOK, loop, once, chans, hist
<1>1. CASE Check \/ ConnectFails \/ Interrupted \/ Receive \/ ConnectOk \/ ReceiveError
    BY <1>1 DEF Check, ConnectFails, Interrupted, Receive, ConnectOk, ReceiveError
<1>2. CASE Send \/ SendCancelled \/ Undecodable \/ StreamEnds
    BY <1>2 DEF Send, SendCancelled, Undecodable, StreamEnds
<1>3. CASE Report
    BY <1>3 DEF Report
<1>4. CASE WaitOver \/ WaitCancelled
    BY <1>4 DEF WaitOver, WaitCancelled
<1>5. CASE Consume \/ ConsumeErr \/ Cancel \/ Write \/ UNCHANGED vars
    BY <1>5 DEF Consume, ConsumeErr, Cancel, Write, vars
<1>6. CASE LockStep
    BY <1>6 DEF LockStep, TokenCached, TokenLock, SetAuth, ResetToken, Acquire
<1>7. CASE TokenStored \/ TokenFails \/ ReceiveGarbled \/ OthersLock \/ OthersUnlock
    BY <1>7 DEF TokenStored, TokenFails, ReceiveGarbled, OthersLock, OthersUnlock
<1>8. QED
    BY <1>1, <1>2, <1>3, <1>4, <1>5, <1>6, <1>7 DEF Next, WatchStep

(* Between two waits Watch opens at most two connections, whatever mix of    *)
(* 401s, events and errors it meets.                                         *)
THEOREM NeverHammers == Spec => []NoHotLoop
<1>1. Init => TryInv
    BY DEF Init, TryInv
<1>2. TryInv => NoHotLoop
    BY DEF TryInv, NoHotLoop
<1>3. QED
    BY <1>1, <1>2, TryStep, TypeCorrect, PTL DEF Spec

-----------------------------------------------------------------------------
\* The events of a message are gone before the stream is read again.
SkipInv ==
    /\ OnlyGarbledSkipped
    /\ pc \notin {"send", "done"} => batch = <<>>

(* Every step keeps the revisions together.                                  *)
LEMMA SkipStep == SkipInv /\ TypeOK /\ [Next]_vars => SkipInv'
<1> SUFFICES ASSUME SkipInv, TypeOK, [Next]_vars PROVE SkipInv'
    OBVIOUS
<1> USE DEF SkipInv, OnlyGarbledSkipped, loop, once, chans, hist
<1>1. CASE Check \/ ConnectFails \/ Interrupted \/ ReceiveError
    BY <1>1 DEF Check, ConnectFails, Interrupted, ReceiveError
<1>2. CASE ConnectOk
    BY <1>2 DEF ConnectOk, TypeOK
<1>3. CASE Receive
  <2>1. PICK last \in (cursor + 1)..written :
          /\ batch' = [i \in 1..(last - cursor) |-> cursor + i]
          /\ cursor' = last
      BY <1>3 DEF Receive
  <2>2. last \in Nat /\ cursor \in Nat /\ last > cursor
      BY <2>1, WatchAssumption DEF TypeOK
  <2>3. ToSet(batch) = {}
      BY <1>3 DEF Receive, ToSet
  <2>4. ASSUME NEW r \in (cursor + 1)..last PROVE r \in ToSet(batch')
    <3>1. r - cursor \in DOMAIN batch' /\ batch'[r - cursor] = r
        BY <2>1, <2>2
    <3>2. QED
        BY <3>1 DEF ToSet
  <2>5. \A r \in 1..last : r \in 1..cursor \/ r \in (cursor + 1)..last
      BY <2>2
  <2>6. (1..cursor) \ garbled \subseteq ToSet(delivered) \union lost
      BY <1>3, <2>3 DEF Receive
  <2>7. QED
      BY <1>3, <2>1, <2>4, <2>5, <2>6 DEF Receive
<1>4. CASE Send
  <2>1. ToSet(batch) = {Head(batch)} \union ToSet(Tail(batch)) /\ Head(batch) \in 1..MaxRev
      BY <1>4, HeadTail DEF Send, TypeOK
  <2>2. ToSet(delivered') = ToSet(delivered) \union {Head(batch)}
      BY <1>4, <2>1, AppendSet DEF Send, TypeOK
  <2>3. QED
      BY <1>4, <2>1, <2>2 DEF Send
<1>5. CASE Undecodable
  <2>1. ToSet(batch) = {Head(batch)} \union ToSet(Tail(batch))
      BY <1>5, HeadTail DEF Undecodable, TypeOK
  <2>2. QED
      BY <1>5, <2>1 DEF Undecodable
<1>6. CASE SendCancelled \/ StreamEnds \/ Report \/ WaitOver \/ WaitCancelled
    BY <1>6 DEF SendCancelled, StreamEnds, Report, WaitOver, WaitCancelled
<1>7. CASE Consume \/ ConsumeErr \/ Cancel \/ Write \/ UNCHANGED vars
    BY <1>7 DEF Consume, ConsumeErr, Cancel, Write, vars
<1>8. CASE LockStep \/ TokenStored \/ TokenFails \/ OthersLock \/ OthersUnlock
    BY <1>8 DEF LockStep, TokenCached, TokenLock, SetAuth, ResetToken, TokenStored, TokenFails,
       OthersLock, OthersUnlock, Acquire
<1>9. CASE ReceiveGarbled
  <2>1. PICK last \in (cursor + 1)..written :
          /\ garbled' = garbled \union ((cursor + 1)..last)
          /\ cursor' = last
      BY <1>9 DEF ReceiveGarbled
  <2>2. last \in Nat /\ cursor \in Nat /\ last > cursor
      BY <2>1, WatchAssumption DEF TypeOK
  <2>3. (1..cursor') \ garbled' \subseteq (1..cursor) \ garbled
      BY <2>1, <2>2
  <2>4. QED
      BY <1>9, <2>3 DEF ReceiveGarbled
<1>10. QED
    BY <1>1, <1>2, <1>3, <1>4, <1>5, <1>6, <1>7, <1>8, <1>9 DEF Next, WatchStep

(* A stream passes on every revision it carries in a line json.Unmarshal     *)
(* accepts: a slow consumer, a full channel, an undecodable value or a       *)
(* refused line skips no other event.                                        *)
THEOREM StreamSkipsOnlyGarbled == Spec => []OnlyGarbledSkipped
<1>1. Init => SkipInv
    BY DEF Init, SkipInv, OnlyGarbledSkipped
<1>2. SkipInv => OnlyGarbledSkipped
    BY DEF SkipInv
<1>3. QED
    BY <1>1, <1>2, SkipStep, TypeCorrect, PTL DEF Spec
=============================================================================
