----------------------------- MODULE EtcdWatch ------------------------------
(***************************************************************************)
(* Client.Watch and watchOnce (src/etcd/watch.go): one goroutine that opens *)
(* a watch stream, forwards its events to a bounded channel, and reconnects *)
(* with an exponential backoff, or once at once after a 401, until its      *)
(* context is cancelled.  The watch request names no start revision: a      *)
(* stream carries the revisions written after it was opened.                *)
(*                                                                         *)
(* Before it connects, watchOnce takes the mutex of the client's token,     *)
(* which other calls of the same client hold while they authenticate;       *)
(* Lock does not look at the context.  EtcdAuth models the token itself.    *)
(***************************************************************************)
EXTENDS Naturals, Sequences, SequencesExt

CONSTANTS
    EventCap,   \* capacity of events (8)
    ErrCap,     \* capacity of errs (4)
    MaxRev      \* bound: writes to the watched key

ASSUME WatchAssumption == EventCap \in Nat /\ ErrCap \in Nat /\ MaxRev \in Nat

InitBackoff == 1
MaxBackoff  == 30
Backoffs    == {1, 2, 4, 8, 16, 30}

VARIABLES
    pc,         \* the step of Watch and watchOnce
    mu,         \* c.mu: "free", "own", or "other" for another call of the client
    cancelled,  \* ctx is done
    backoff,    \* seconds
    retryUsed,  \* authImmediateRetryUsed
    connected,  \* result of watchOnce: an event was received
    err,        \* error of watchOnce: "none", "auth" (errWatchAuthExpired), "other"
    events,     \* the events channel
    errs,       \* number of values in the errs channel
    batch,      \* events of the message being forwarded
    written,    \* revisions written to the key: 1..written
    cursor,     \* last revision the stream has carried
    delivered,  \* history: revisions sent on events
    lost,       \* history: revisions written while no stream was open, or undecodable
    garbled,    \* history: revisions in lines that are not a watchResponse
    tries       \* history: connections since the last wait

chans  == <<events, errs>>
hist   == <<delivered, lost, garbled, tries>>
loop   == <<backoff, retryUsed>>
once   == <<connected, err, batch, cursor>>
vars   == <<pc, mu, cancelled, loop, once, chans, written, hist>>

Steps == {"check", "token", "auth", "header", "connect", "reset", "stream", "send", "report",
          "wait", "done"}

Init ==
    /\ pc = "check" /\ mu = "free" /\ cancelled = FALSE
    /\ backoff = InitBackoff /\ retryUsed = FALSE
    /\ connected = FALSE /\ err = "none" /\ batch = <<>> /\ cursor = 0
    /\ events = <<>> /\ errs = 0 /\ written = 0
    /\ delivered = <<>> /\ lost = {} /\ garbled = {} /\ tries = 0

\* A send on errs with a default case.
PushErr == errs' = IF errs < ErrCap THEN errs + 1 ELSE errs

\* The top of the loop: stop if the context is done.
Check ==
    /\ pc = "check"
    /\ pc' = IF cancelled THEN "done" ELSE "token"
    /\ UNCHANGED <<mu, cancelled, loop, once, chans, written, hist>>

\* A step that waits for c.mu, whatever becomes of the context.
Acquire(step) == pc = step /\ mu = "free"

\* ensureToken: a token is cached ...
TokenCached ==
    /\ Acquire("token")
    /\ pc' = "header"
    /\ UNCHANGED <<mu, cancelled, loop, once, chans, written, hist>>

\* ... or authenticate is called with the mutex held.
TokenLock ==
    /\ Acquire("token")
    /\ pc' = "auth" /\ mu' = "own"
    /\ UNCHANGED <<cancelled, loop, once, chans, written, hist>>

TokenStored ==
    /\ pc = "auth"
    /\ pc' = "header" /\ mu' = "free"
    /\ UNCHANGED <<cancelled, loop, once, chans, written, hist>>

\* authenticate fails, because the context is done too: watchOnce returns the error.
TokenFails ==
    /\ pc = "auth"
    /\ pc' = "report" /\ mu' = "free"
    /\ err' = "other" /\ connected' = FALSE
    /\ tries' = tries + 1
    /\ UNCHANGED <<cancelled, loop, batch, cursor, chans, written, delivered, lost, garbled>>

\* setAuth reads the token.
SetAuth ==
    /\ Acquire("header")
    /\ pc' = "connect"
    /\ UNCHANGED <<mu, cancelled, loop, once, chans, written, hist>>

\* watchOnce: the server accepts the watch request.
ConnectOk ==
    /\ pc = "connect" /\ ~cancelled
    /\ pc' = "stream" /\ connected' = FALSE
    /\ cursor' = written
    /\ lost' = lost \union ((cursor + 1)..written)
    /\ tries' = tries + 1
    /\ UNCHANGED <<mu, cancelled, loop, err, batch, chans, written, delivered, garbled>>

\* watchOnce: no connection, 401 or another status.
ConnectFails ==
    /\ pc = "connect"
    /\ \/ err' = "other" /\ pc' = "report"
       \/ err' = "auth" /\ pc' = "reset"
    /\ connected' = FALSE
    /\ tries' = tries + 1
    /\ UNCHANGED <<mu, cancelled, loop, batch, cursor, chans, written, delivered, lost,
                   garbled>>

\* watchOnce: resetToken, then errWatchAuthExpired.
ResetToken ==
    /\ Acquire("reset")
    /\ pc' = "report"
    /\ UNCHANGED <<mu, cancelled, loop, once, chans, written, hist>>

\* watchOnce: Do, or Scan, fails because the context is done.
Interrupted ==
    /\ pc \in {"connect", "stream"} /\ cancelled
    /\ pc' = "done"
    /\ UNCHANGED <<mu, cancelled, loop, once, chans, written, hist>>

\* watchOnce: a message with events arrives.
Receive ==
    /\ pc = "stream" /\ ~cancelled
    /\ \E last \in (cursor + 1)..written :
         /\ batch' = [i \in 1..(last - cursor) |-> cursor + i]
         /\ cursor' = last
    /\ pc' = "send"
    /\ UNCHANGED <<mu, cancelled, loop, connected, err, chans, written, hist>>

\* watchOnce: a line that json.Unmarshal refuses is dropped without a word.
ReceiveGarbled ==
    /\ pc = "stream" /\ ~cancelled
    /\ \E last \in (cursor + 1)..written :
         /\ garbled' = garbled \union ((cursor + 1)..last)
         /\ cursor' = last
    /\ UNCHANGED <<pc, mu, cancelled, loop, connected, err, batch, chans, written, delivered,
                   lost, tries>>

\* watchOnce: a message with a server error is reported and the stream goes on.
ReceiveError ==
    /\ pc = "stream" /\ ~cancelled
    /\ PushErr
    /\ UNCHANGED <<pc, mu, cancelled, loop, once, events, written, hist>>

\* A slip: the event is dropped when the consumer is slow.
SendNonBlocking ==
    /\ pc = "send"
    /\ events' = IF Len(events) < EventCap THEN Append(events, Head(batch)) ELSE events
    /\ delivered' = IF Len(events) < EventCap THEN Append(delivered, Head(batch))
                    ELSE delivered
    /\ connected' = TRUE /\ batch' = Tail(batch)
    /\ pc' = IF Tail(batch) = <<>> THEN "stream" ELSE "send"
    /\ UNCHANGED <<mu, cancelled, loop, err, cursor, errs, written, lost, garbled,
                   tries>>

\* watchOnce: forward the next event of the message; this blocks while events is full.
Send ==
    /\ pc = "send" /\ Len(events) < EventCap
    /\ events' = Append(events, Head(batch))
    /\ delivered' = Append(delivered, Head(batch))
    /\ connected' = TRUE /\ batch' = Tail(batch)
    /\ pc' = IF Tail(batch) = <<>> THEN "stream" ELSE "send"
    /\ UNCHANGED <<mu, cancelled, loop, err, cursor, errs, written, lost, garbled,
                   tries>>

\* watchOnce: a PUT whose value is not base64 is reported and skipped.
Undecodable ==
    /\ pc = "send"
    /\ PushErr
    /\ lost' = lost \union {Head(batch)} /\ batch' = Tail(batch)
    /\ pc' = IF Tail(batch) = <<>> THEN "stream" ELSE "send"
    /\ UNCHANGED <<mu, cancelled, loop, connected, err, cursor, events, written, delivered,
                   garbled, tries>>

\* A slip: the blocked send does not look at ctx.Done().
SendDeaf == FALSE /\ UNCHANGED vars

\* watchOnce: ctx.Done() while the event waits for room.
SendCancelled ==
    /\ pc = "send" /\ cancelled
    /\ connected' = TRUE /\ pc' = "done"
    /\ UNCHANGED <<mu, cancelled, loop, err, batch, cursor, chans, written, hist>>

\* watchOnce: the stream breaks or ends.
StreamEnds ==
    /\ pc = "stream"
    /\ pc' = "report" /\ err' = "other"
    /\ UNCHANGED <<mu, cancelled, loop, connected, batch, cursor, chans, written, hist>>

\* A slip: the immediate retry is not remembered.
ReportForgets ==
    /\ pc = "report"
    /\ backoff' = IF connected THEN InitBackoff ELSE backoff
    /\ PushErr
    /\ pc' = IF err = "auth" THEN "check" ELSE "wait"
    /\ UNCHANGED <<mu, cancelled, retryUsed, once, events, written, hist>>

\* A slip: a second 401 in a row ends the loop.
ReportGivesUp ==
    /\ pc = "report"
    /\ PushErr
    /\ pc' = IF err # "auth" THEN "wait" ELSE IF retryUsed THEN "done" ELSE "check"
    /\ retryUsed' = (err = "auth")
    /\ UNCHANGED <<mu, cancelled, backoff, once, events, written, hist>>

\* Watch: account for the error and choose between an immediate retry and a wait.
Report ==
    LET used == retryUsed /\ ~connected /\ err = "auth"
    IN  /\ pc = "report"
        /\ backoff' = IF connected THEN InitBackoff ELSE backoff
        /\ PushErr
        /\ IF err = "auth" /\ ~used
           THEN retryUsed' = TRUE /\ pc' = "check"
           ELSE retryUsed' = used /\ pc' = "wait"
        /\ UNCHANGED <<mu, cancelled, once, events, written, hist>>

\* Watch: backoff *= 2, at most maxBackoff.
Doubled == IF 2 * backoff > MaxBackoff THEN MaxBackoff ELSE 2 * backoff

\* Watch: time.After(backoff) fires ...
WaitOver ==
    /\ pc = "wait"
    /\ backoff' = IF backoff < MaxBackoff THEN Doubled ELSE backoff
    /\ pc' = "check" /\ tries' = 0
    /\ UNCHANGED <<mu, cancelled, retryUsed, once, chans, written, delivered, lost, garbled>>

\* ... or the context is done.
WaitCancelled ==
    /\ pc = "wait" /\ cancelled
    /\ pc' = "done"
    /\ UNCHANGED <<mu, cancelled, loop, once, chans, written, hist>>

\* The consumer, the caller's cancel function, and other clients of the server.
Consume ==
    /\ events # <<>> /\ events' = Tail(events)
    /\ UNCHANGED <<pc, mu, cancelled, loop, once, errs, written, hist>>

ConsumeErr ==
    /\ errs > 0 /\ errs' = errs - 1
    /\ UNCHANGED <<pc, mu, cancelled, loop, once, events, written, hist>>

Cancel ==
    /\ ~cancelled /\ cancelled' = TRUE
    /\ UNCHANGED <<pc, mu, loop, once, chans, written, hist>>

Write ==
    /\ written < MaxRev /\ written' = written + 1
    /\ UNCHANGED <<pc, mu, cancelled, loop, once, chans, hist>>

\* Another call of the client authenticates with c.mu held, and ends or does not.
OthersLock ==
    /\ mu = "free" /\ mu' = "other"
    /\ UNCHANGED <<pc, cancelled, loop, once, chans, written, hist>>

OthersUnlock ==
    /\ mu = "other" /\ mu' = "free"
    /\ UNCHANGED <<pc, cancelled, loop, once, chans, written, hist>>

\* The steps that need the mutex, and the steps that the goroutine always takes.
LockStep == TokenCached \/ TokenLock \/ SetAuth \/ ResetToken

WatchStep ==
    \/ Check \/ TokenFails \/ ConnectFails \/ Interrupted \/ Receive \/ Send
    \/ SendCancelled \/ Report \/ WaitOver \/ WaitCancelled

Next ==
    \/ LockStep \/ WatchStep \/ TokenStored \/ ConnectOk \/ ReceiveGarbled \/ ReceiveError
    \/ Undecodable \/ StreamEnds
    \/ Consume \/ ConsumeErr \/ Cancel \/ Write \/ OthersLock \/ OthersUnlock

Spec == Init /\ [][Next]_vars

(* The goroutine is scheduled, a mutex that is free again and again is       *)
(* handed to who waits for it, and the server answers and does not refuse    *)
(* for ever.  The consumer may stop reading, and another call may keep the   *)
(* mutex for ever.                                                           *)
Fairness ==
    /\ WF_vars(WatchStep) /\ SF_vars(LockStep)
    /\ SF_vars(TokenStored) /\ SF_vars(ConnectOk)

FairSpec == Spec /\ Fairness

-----------------------------------------------------------------------------
(* Type correctness; the backoff is one of 1, 2, 4, 8, 16 and 30 seconds.    *)
TypeOK ==
    /\ pc \in Steps /\ mu \in {"free", "own", "other"} /\ (mu = "own" <=> pc = "auth")
    /\ cancelled \in BOOLEAN /\ retryUsed \in BOOLEAN /\ connected \in BOOLEAN
    /\ backoff \in Backoffs /\ err \in {"none", "auth", "other"}
    /\ written \in 0..MaxRev /\ cursor \in 0..written
    /\ events \in Seq(1..MaxRev) /\ Len(events) <= EventCap /\ errs \in 0..ErrCap
    /\ batch \in Seq(1..MaxRev) /\ (pc = "send" => batch # <<>>)
    /\ delivered \in Seq(1..MaxRev) /\ lost \subseteq 1..MaxRev
    /\ garbled \subseteq 1..MaxRev
    /\ tries \in Nat

(* The goroutine closes its channels only because the context was cancelled: *)
(* no error, 401 or end of stream makes Watch give up.                       *)
DoneMeansCancelled == pc = "done" => cancelled

(* An open stream passes over one kind of line without a word, the one that  *)
(* json.Unmarshal refuses.  Every other revision it has carried was sent on  *)
(* events, is about to be, had a value that is not base64 (an error is sent  *)
(* if errs has room), or was written before the stream opened; a slow        *)
(* consumer only delays the rest.                                            *)
OnlyGarbledSkipped ==
    pc # "done" =>
        (1..cursor) \ garbled \subseteq ToSet(delivered) \union ToSet(batch) \union lost

(* Watch never hammers the server: between two waits it opens at most two    *)
(* connections, whatever mix of 401s, events and errors it meets.            *)
NoHotLoop == tries <= 2

\* Another call of the same client never gives the mutex back.
MutexKept == [](mu = "other")

(* Cancelling the context ends the goroutine and closes the channels, even   *)
(* when events is full and nobody reads it.  The comment on Watch says so    *)
(* without exception; the code has one: Lock does not look at the context,   *)
(* and another call may keep the mutex while it waits for the server.        *)
CancelStops == cancelled ~> (pc = "done" \/ MutexKept)

(* After every disconnection the watch is opened again, unless it is         *)
(* cancelled or another call keeps the mutex.                                *)
Reconnects == pc = "report" ~> (pc = "stream" \/ cancelled \/ MutexKept)
=============================================================================
