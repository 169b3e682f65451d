------------------------------ MODULE Tunnel --------------------------------
(***************************************************************************)
(* A browser's WebSocket joined to a remote end: TCPRelay and Bridge        *)
(* (src/relay), ConnectWithOptions and its terminalResizeReader             *)
(* (src/webssh/session.go), over the stream shim Conn and the KeepAlive     *)
(* goroutine of src/websocket.  One goroutine reads the WebSocket, one or   *)
(* two write to it, the caller waits for them and closes both ends.         *)
(*                                                                          *)
(* Bytes are pieces: data pieces are numbered as they are sent, a resize    *)
(* message is two control pieces, and a read returns any non-empty part of  *)
(* what is left of one message.                                             *)
(***************************************************************************)
EXTENDS Integers, Sequences, FiniteSets, SequencesExt

CONSTANTS
    Configs,    \* the callers checked, see cfg
    MaxResize,  \* bound: resize messages the client sends
    MaxInbox,   \* bound: messages on their way to this side
    MaxDown     \* bound: pieces the remote end sends on each stream

ASSUME TunnelAssumption ==
    /\ \A c \in Configs :
         /\ c.kind \in {"tcp", "bare", "ssh", "plain"} /\ c.wtimeout \in BOOLEAN
         /\ c.ka \in {"on", "done"} /\ c.streams \in SUBSET {"out", "err"}
         /\ c.maxUp \in Nat
    /\ {MaxResize, MaxInbox, MaxDown} \subseteq Nat

\* A resize message, prefix and size, in the two pieces a read may cut it into.
Head0   == -1
Tail0   == -2
BadTail == -3
Control == {Head0, Tail0, BadTail}
Resizes == {<<Head0, Tail0>>, <<Head0, BadTail>>}

Sides == {"out", "err"}

VARIABLES
    cfg,      \* kind: "tcp" TCPRelay, "bare" Bridge to an end without Closer,
              \*   "ssh" ConnectWithResize, "plain" Connect; wtimeout: WriteTimeout > 0;
              \*   ka: KeepAlive runs; streams: what the remote end sends on;
              \*   maxUp: bound, data pieces the client sends
    client,   \* the browser: "up", "stalled" (takes no bytes), "gone"
    inbox,    \* messages sent and not read yet
    sentUp,   \* data pieces the client has sent
    asked,    \* history: resize messages the client has sent
    open,     \* ws has not been closed here
    broken,   \* a write to ws has failed: every later one does
    rdBuf,    \* what is left of the current message; <<>> is nil
    wmu,      \* holder of Conn.wmu: a stream, "main" or "free"
    up,       \* reader of ws: "off", "read", "write", "done"
    hold,     \* pieces read from ws and not written yet
    pending,  \* terminalResizeReader.pending
    ready,    \* terminalResizeReader.ready
    size,     \* terminalResizeReader.cols and rows
    win,      \* the remote terminal: "initial", "asked", "zero", "other"
    cut,      \* history: a read returned a part of a resize message
    stdin,    \* copier from the pipe to the session: "off", "on", "done"
    remote,   \* "none", "open", "gone" (closed by its peer), "closed" (closed here)
    eof,      \* the session got CloseWrite
    chan,     \* per stream: pieces sent by the remote end and not read yet
    sentDown, \* per stream: pieces the remote end has sent
    down,     \* per stream: its copier "off", "read", "write", "flush", "done"
    out,      \* per stream: pieces read and not written yet
    gotUp,    \* data pieces that reached the remote end
    leaked,   \* history: a control piece reached it
    gotDown,  \* per stream: pieces that reached the client
    main,     \* the caller: see the actions
    ka        \* KeepAlive's goroutine: "on", "done"

clientVars == <<client, inbox, sentUp, asked>>
connVars   == <<open, broken, rdBuf>>
upVars     == <<up, hold, pending, ready, size, win, cut>>
downVars   == <<chan, down, out>>
gotVars    == <<gotUp, leaked, gotDown>>
vars == <<cfg, clientVars, connVars, wmu, upVars, stdin, remote, eof, downVars,
          sentDown, gotVars, main, ka>>

kind  == cfg.kind
Ssh   == kind \in {"ssh", "plain"}

Init ==
    /\ cfg \in Configs
    /\ client = "up" /\ inbox = <<>> /\ sentUp = 0 /\ asked = {}
    /\ open = TRUE /\ broken = FALSE /\ rdBuf = <<>> /\ wmu = "free"
    /\ up = "off" /\ hold = <<>> /\ pending = <<>>
    /\ ready = FALSE /\ size = "none" /\ win = "none" /\ cut = FALSE
    /\ stdin = "off" /\ remote = "none" /\ eof = FALSE
    /\ chan = [s \in Sides |-> <<>>] /\ sentDown = [s \in Sides |-> 0]
    /\ down = [s \in Sides |-> "off"] /\ out = [s \in Sides |-> <<>>]
    /\ gotUp = <<>> /\ leaked = FALSE /\ gotDown = [s \in Sides |-> <<>>]
    /\ main = "dial" /\ ka = cfg.ka

-----------------------------------------------------------------------------
(* The two peers and the clock.                                              *)

Post(m) == Len(inbox) < MaxInbox /\ inbox' = Append(inbox, m)

\* The client sends a message of one or two data pieces.
ClientSends ==
    /\ client # "gone" /\ open
    /\ \E n \in 1 .. 2 :
         /\ sentUp + n <= cfg.maxUp
         /\ Post([i \in 1 .. n |-> sentUp + i])
         /\ sentUp' = sentUp + n
    /\ UNCHANGED <<cfg, client, asked, connVars, wmu, upVars, stdin, remote, eof, downVars,
                   sentDown, gotVars, main, ka>>

\* The client sends a resize message, well formed or not; each once.
ClientResizes ==
    /\ kind = "ssh" /\ client # "gone" /\ open /\ Cardinality(asked) < MaxResize
    /\ \E m \in Resizes \ asked : Post(m) /\ asked' = asked \cup {m}
    /\ UNCHANGED <<cfg, client, sentUp, connVars, wmu, upVars, stdin, remote, eof, downVars,
                   sentDown, gotVars, main, ka>>

\* The client stops taking bytes, takes them again, or goes away for good.
ClientTurns ==
    /\ \/ client = "up" /\ client' \in {"stalled", "gone"}
       \/ client = "stalled" /\ client' \in {"up", "gone"}
    /\ UNCHANGED <<cfg, inbox, sentUp, asked, connVars, wmu, upVars, stdin, remote, eof,
                   downVars, sentDown, gotVars, main, ka>>

\* The remote end sends a piece on one of its streams.
RemoteSends ==
    /\ remote = "open" /\ (Ssh => stdin # "off")
    /\ \E s \in cfg.streams :
         /\ sentDown[s] < MaxDown
         /\ sentDown' = [sentDown EXCEPT ![s] = @ + 1]
         /\ chan' = [chan EXCEPT ![s] = Append(@, sentDown[s] + 1)]
    /\ UNCHANGED <<cfg, clientVars, connVars, wmu, upVars, stdin, remote, eof, down, out,
                   gotVars, main, ka>>

\* The remote end closes its connection; the shell exits.
RemoteEnds ==
    /\ remote = "open" /\ remote' = "gone"
    /\ UNCHANGED <<cfg, clientVars, connVars, wmu, upVars, stdin, eof, downVars, sentDown,
                   gotVars, main, ka>>

-----------------------------------------------------------------------------
(* Reading the WebSocket: Conn.Read, terminalResizeReader.Read.              *)

\* What Conn.Read reads from: the current message, else the next one.
Message == IF rdBuf # <<>> THEN rdBuf ELSE Head(inbox)
Unread  == rdBuf # <<>> \/ inbox # <<>>

\* A slip: the rest of a message is forgotten once a part of it was read.
ConnReadDrops(n) ==
    /\ rdBuf' = <<>>
    /\ inbox' = IF rdBuf # <<>> THEN inbox ELSE Tail(inbox)

\* Conn.Read returns the first n pieces of the message and keeps the rest in rdBuf.
ConnRead(n) ==
    /\ rdBuf' = SubSeq(Message, n + 1, Len(Message))
    /\ inbox' = IF rdBuf # <<>> THEN inbox ELSE Tail(inbox)

\* parseTerminalResize: what a read of data is taken for, "text" if the prefix
\* is not there.  A message cut in the prefix is text; cut later its size is
\* malformed, that is 0 x 0, or another one in range.
ParseResize(data) ==
    CASE data = <<Head0, Tail0>>   -> {"asked"}
      [] data = <<Head0, BadTail>> -> {"zero"}
      [] data = <<Head0>>          -> {"text", "zero", "other"}
      [] OTHER                     -> {"text"}

\* Resize: remember the size, pass it to the session if that is ready.
Resize(sz) ==
    /\ size' = sz
    /\ win' = IF ready THEN sz ELSE win

\* A slip: the resize reader forwards what it should keep for itself.
TakenForUnfiltered(data) == {"text"}

TakenFor(data) == IF kind = "ssh" THEN ParseResize(data) ELSE {"text"}

\* The reader of the WebSocket gets data: a resize is applied and it reads on;
\* else it passes on what fits the caller's buffer and keeps the rest.
UpReads ==
    /\ up = "read" /\ pending = <<>> /\ Unread
    /\ \E n \in 1 .. Len(Message) : LET data == SubSeq(Message, 1, n) IN
         /\ ConnRead(n)
         /\ cut' = (cut \/ data = <<Head0>>)
         /\ \E t \in TakenFor(data) :
              \/ /\ t # "text" /\ Resize(t)
                 /\ UNCHANGED <<up, hold, pending>>
              \/ /\ t = "text" /\ up' = "write"
                 /\ \E k \in 1 .. n :
                      /\ k = n \/ (kind = "ssh" /\ data[1] \notin Control)
                      /\ hold' = SubSeq(data, 1, k) /\ pending' = SubSeq(data, k + 1, n)
                 /\ UNCHANGED <<size, win>>
    /\ UNCHANGED <<cfg, client, sentUp, asked, open, broken, wmu, ready, stdin, remote, eof,
                   downVars, sentDown, gotVars, main, ka>>

\* terminalResizeReader.Read serves pending first.
UpServesPending ==
    /\ up = "read" /\ pending # <<>>
    /\ \E k \in 1 .. Len(pending) : 
         /\ hold' = SubSeq(pending, 1, k)
         /\ pending' = SubSeq(pending, k + 1, Len(pending))
    /\ up' = "write"
    /\ UNCHANGED <<cfg, clientVars, connVars, wmu, ready, size, win, cut, stdin, remote, eof,
                   downVars, sentDown, gotVars, main, ka>>

\* A slip: only a close on this side ends the reading.
UpReadFailsClosed ==
    /\ up = "read" /\ pending = <<>> /\ ~open
    /\ up' = "done"
    /\ UNCHANGED <<cfg, clientVars, connVars, wmu, hold, pending, ready, size, win, cut, stdin,
                   remote, eof, downVars, sentDown, gotVars, main, ka>>

\* The read fails: closed here, or the client is gone and nothing is left.
UpReadFails ==
    /\ up = "read" /\ pending = <<>>
    /\ ~open \/ (client = "gone" /\ ~Unread)
    /\ up' = "done"
    /\ UNCHANGED <<cfg, clientVars, connVars, wmu, hold, pending, ready, size, win, cut, stdin,
                   remote, eof, downVars, sentDown, gotVars, main, ka>>

\* The deadline of applyConnOptions, or of the last pong, has passed.
ReadDeadline ==
    /\ up = "read" /\ pending = <<>> /\ up' = "done"
    /\ UNCHANGED <<cfg, clientVars, connVars, wmu, hold, pending, ready, size, win, cut, stdin,
                   remote, eof, downVars, sentDown, gotVars, main, ka>>

\* Pieces of one read are pieces of one message: all of them data, or none.
HasControl(b) == \E i \in DOMAIN b : b[i] \in Control

\* The remote end gets the pieces b.
Reach(b) ==
    /\ gotUp' = gotUp \o (IF HasControl(b) THEN <<>> ELSE b)
    /\ leaked' = (leaked \/ HasControl(b))

\* Bridge: some or all of the pieces are written to the remote end.  What is
\* written to an end whose peer is gone may be accepted; it reaches nobody.
UpWrites ==
    /\ ~Ssh /\ up = "write" /\ remote \in {"open", "gone"}
    /\ \E k \in 1 .. Len(hold) :
         /\ Reach(IF remote = "open" THEN SubSeq(hold, 1, k) ELSE <<>>)
         /\ hold' = SubSeq(hold, k + 1, Len(hold))
         /\ up' = IF k = Len(hold) THEN "read" ELSE "write"
    /\ UNCHANGED <<cfg, clientVars, connVars, wmu, pending, ready, size, win, cut, stdin,
                   remote, eof, downVars, sentDown, gotDown, main, ka>>

UpWriteFails ==
    /\ ~Ssh /\ up = "write" /\ remote \in {"gone", "closed"}
    /\ up' = "done" /\ hold' = <<>>
    /\ UNCHANGED <<cfg, clientVars, connVars, wmu, pending, ready, size, win, cut, stdin,
                   remote, eof, downVars, sentDown, gotVars, main, ka>>

\* Wait has closed the pipe that feeds the session.
PipeClosed == main \in {"join", "report", "reporting", "close", "returned"}

\* The session's stdin: the pump writes to the pipe, its copier to the session.
PipeThrough ==
    /\ Ssh /\ up = "write" /\ stdin = "on" /\ remote = "open" /\ ~PipeClosed
    /\ Reach(hold)
    /\ hold' = <<>> /\ up' = "read"
    /\ UNCHANGED <<cfg, clientVars, connVars, wmu, pending, ready, size, win, cut, stdin,
                   remote, eof, downVars, sentDown, gotDown, main, ka>>

\* A write to the closed pipe fails and ends the pump.
PipeFails ==
    /\ Ssh /\ up = "write" /\ PipeClosed
    /\ up' = "done" /\ hold' = <<>>
    /\ UNCHANGED <<cfg, clientVars, connVars, wmu, pending, ready, size, win, cut, stdin,
                   remote, eof, downVars, sentDown, gotVars, main, ka>>

\* The copier ends: the pump is done, the pipe is closed, or the session is
\* gone and it has something to write; it half-closes the session.
StdinEnds ==
    /\ stdin = "on"
    /\ up = "done" \/ PipeClosed \/ (up = "write" /\ remote # "open")
    /\ stdin' = "done" /\ eof' = TRUE
    /\ UNCHANGED <<cfg, clientVars, connVars, wmu, upVars, remote, downVars, sentDown,
                   gotVars, main, ka>>

-----------------------------------------------------------------------------
(* Writing the WebSocket: the copiers of the remote end's streams, and the   *)
(* caller's error line, all through Conn.Write.                              *)

DownReads(s) ==
    /\ down[s] = "read" /\ chan[s] # <<>> /\ remote # "closed"
    /\ \E n \in 1 .. Len(chan[s]) :
         /\ out' = [out EXCEPT ![s] = SubSeq(chan[s], 1, n)]
         /\ chan' = [chan EXCEPT ![s] = SubSeq(@, n + 1, Len(@))]
    /\ down' = [down EXCEPT ![s] = "write"]
    /\ UNCHANGED <<cfg, clientVars, connVars, wmu, upVars, stdin, remote, eof, sentDown,
                   gotVars, main, ka>>

\* End of stream, or an error once this side has closed the remote end.
DownEnds(s) ==
    /\ down[s] = "read"
    /\ remote = "closed" \/ (remote = "gone" /\ chan[s] = <<>>)
    /\ down' = [down EXCEPT ![s] = "done"]
    /\ UNCHANGED <<cfg, clientVars, connVars, wmu, upVars, stdin, remote, eof, chan, out,
                   sentDown, gotVars, main, ka>>

LockFree == wmu = "free"

\* Conn.Write: c.wmu.Lock(), then WriteMessage.
DownLocks(s) ==
    /\ down[s] = "write" /\ LockFree
    /\ wmu' = s /\ down' = [down EXCEPT ![s] = "flush"]
    /\ UNCHANGED <<cfg, clientVars, connVars, upVars, stdin, remote, eof, chan, out, sentDown,
                   gotVars, main, ka>>

\* WriteMessage succeeds unless a write has failed or ws is closed; it blocks
\* while the client takes no bytes.  Bytes for a client that is gone are lost.
Writable == open /\ ~broken /\ client # "stalled"
\* It fails then, or when the write deadline passes.
WriteErr == ~open \/ broken \/ client = "gone" \/ (client = "stalled" /\ cfg.wtimeout)

\* One message to the client for each Write.
DownWrites(s) ==
    /\ down[s] = "flush" /\ Writable
    /\ gotDown' = IF client = "up" THEN [gotDown EXCEPT ![s] = @ \o out[s]] ELSE gotDown
    /\ out' = [out EXCEPT ![s] = <<>>]
    /\ wmu' = "free" /\ down' = [down EXCEPT ![s] = "read"]
    /\ UNCHANGED <<cfg, clientVars, connVars, upVars, stdin, remote, eof, chan, sentDown,
                   gotUp, leaked, main, ka>>

\* A slip: the error return does not unlock.
DownWriteFailsLocked(s) ==
    /\ down[s] = "flush" /\ WriteErr
    /\ broken' = TRUE /\ out' = [out EXCEPT ![s] = <<>>]
    /\ down' = [down EXCEPT ![s] = "done"]
    /\ UNCHANGED <<cfg, clientVars, open, rdBuf, wmu, upVars, stdin, remote, eof, chan,
                   sentDown, gotVars, main, ka>>

DownWriteFails(s) ==
    /\ down[s] = "flush" /\ WriteErr
    /\ broken' = TRUE /\ out' = [out EXCEPT ![s] = <<>>]
    /\ wmu' = "free" /\ down' = [down EXCEPT ![s] = "done"]
    /\ UNCHANGED <<cfg, clientVars, open, rdBuf, upVars, stdin, remote, eof, chan,
                   sentDown, gotVars, main, ka>>

\* The caller's error line, through the same Conn.Write.
ReportLocks ==
    /\ main = "report" /\ LockFree
    /\ wmu' = "main" /\ main' = "reporting"
    /\ UNCHANGED <<cfg, clientVars, connVars, upVars, stdin, remote, eof, downVars, sentDown,
                   gotVars, ka>>

Reports ==
    /\ main = "reporting" /\ (Writable \/ WriteErr)
    /\ broken' = (broken \/ ~Writable)
    /\ wmu' = "free" /\ main' = "close"
    /\ UNCHANGED <<cfg, clientVars, open, rdBuf, upVars, stdin, remote, eof, downVars,
                   sentDown, gotVars, ka>>

-----------------------------------------------------------------------------
(* The caller.                                                               *)

callerKept == <<cfg, clientVars, broken, rdBuf, wmu, eof, chan, out, sentDown,
                gotVars, ka>>

\* net.Dial or NewSSHClient; Bridge starts both copiers at once.
Dial ==
    /\ main = "dial" /\ remote' = "open"
    /\ main' = IF Ssh THEN "session" ELSE "first"
    /\ up' = IF Ssh THEN "off" ELSE "read"
    /\ down' = IF Ssh THEN down ELSE [down EXCEPT !["out"] = "read"]
    /\ UNCHANGED <<callerKept, open, hold, pending, ready, size, win, cut, stdin>>

\* A step of the setup fails: ConnectWithOptions writes the error to ws.
SetupFails ==
    /\ main \in {"dial", "session", "pty", "shell"} /\ kind # "bare"
    /\ main' = IF Ssh THEN "report" ELSE "close"
    /\ UNCHANGED <<callerKept, open, upVars, down, stdin, remote>>

NewSession ==
    /\ main = "session" /\ main' = "pty"
    /\ UNCHANGED <<callerKept, open, upVars, down, stdin, remote>>

\* RequestPty with the size found or the default, then Enable, which applies a
\* size that came before.
RequestPty ==
    /\ main = "pty" /\ main' = "shell"
    /\ \E sz \in {"initial", "zero"} :
         /\ sz = "zero" => kind = "plain"
         /\ win' = IF size \in {"asked", "other"} THEN size ELSE sz
    /\ ready' = (kind = "ssh")
    /\ UNCHANGED <<callerKept, open, up, hold, pending, size, cut, down, stdin, remote>>

\* session.Shell starts the pump and the three copiers.
Shell ==
    /\ main = "shell" /\ main' = "wait"
    /\ up' = "read" /\ stdin' = "on" /\ down' = [s \in Sides |-> "read"]
    /\ UNCHANGED <<callerKept, open, hold, pending, ready, size, win, cut, remote>>

\* session.Wait: the exit status, then the copiers.
WaitExit ==
    /\ main = "wait" /\ remote = "gone" /\ main' = "join"
    /\ UNCHANGED <<callerKept, open, upVars, down, stdin, remote>>

WaitJoins ==
    /\ main = "join" /\ stdin = "done" /\ \A s \in Sides : down[s] = "done"
    /\ main' \in {"report", "close"}
    /\ UNCHANGED <<callerKept, open, upVars, down, stdin, remote>>

\* Bridge: the first result, close both ends, the second result.
BridgeFirst ==
    /\ main = "first" /\ (up = "done" \/ down["out"] = "done")
    /\ main' = "closeA"
    /\ UNCHANGED <<callerKept, open, upVars, down, stdin, remote>>

BridgeClosesA ==
    /\ main = "closeA" /\ main' = "closeB" /\ open' = FALSE
    /\ UNCHANGED <<callerKept, upVars, down, stdin, remote>>

\* A slip: only the end that is still read from is closed.
BridgeSkipsB ==
    /\ main = "closeB" /\ main' = "second"
    /\ UNCHANGED <<callerKept, open, upVars, down, stdin, remote>>

\* closeEndpoint does nothing for an end without Closer.
BridgeClosesB ==
    /\ main = "closeB" /\ main' = "second"
    /\ remote' = IF kind = "bare" THEN remote ELSE "closed"
    /\ UNCHANGED <<callerKept, open, upVars, down, stdin>>

\* A slip: Bridge returns with the first result.
BridgeReturnsEarly ==
    /\ main = "second" /\ main' = "close"
    /\ UNCHANGED <<callerKept, open, upVars, down, stdin, remote>>

BridgeSecond ==
    /\ main = "second" /\ up = "done" /\ down["out"] = "done"
    /\ main' = "close"
    /\ UNCHANGED <<callerKept, open, upVars, down, stdin, remote>>

\* The deferred closes; a bare Bridge has none.
Return ==
    /\ main = "close" /\ main' = "returned"
    /\ open' = (open /\ kind = "bare")
    /\ remote' = IF kind = "bare" \/ remote = "none" THEN remote ELSE "closed"
    /\ UNCHANGED <<callerKept, upVars, down, stdin>>

-----------------------------------------------------------------------------
(* KeepAlive.                                                                *)

kaKept == <<cfg, clientVars, open, rdBuf, wmu, upVars, stdin, remote, eof, downVars,
            sentDown, gotVars, main>>

\* A ping fails; its own write breaks the connection, waiting for another does not.
PingFails ==
    /\ ka = "on" /\ (~open \/ broken \/ client # "up")
    /\ ka' = "done"
    /\ broken' \in {broken, wmu = "free" \/ broken}
    /\ UNCHANGED kaKept

\* stop closes done, once; the loop returns.
KeepAliveStop == ka = "on" /\ ka' = "done" /\ UNCHANGED <<kaKept, broken>>

-----------------------------------------------------------------------------
Up      == UpReads \/ UpServesPending \/ UpReadFails \/ UpWrites \/ UpWriteFails \/ PipeThrough \/ PipeFails
Down(s) == DownReads(s) \/ DownEnds(s) \/ DownLocks(s) \/ DownWrites(s) \/ DownWriteFails(s)
Main    == \/ Dial \/ SetupFails \/ NewSession \/ RequestPty \/ Shell \/ WaitExit \/ WaitJoins
           \/ ReportLocks \/ Reports \/ BridgeFirst \/ BridgeClosesA \/ BridgeClosesB
           \/ BridgeSecond \/ Return
Peers   == ClientSends \/ ClientResizes \/ ClientTurns \/ RemoteSends \/ RemoteEnds

Next ==
    \/ Up \/ StdinEnds \/ \E s \in Sides : Down(s)
    \/ Main \/ ReadDeadline \/ PingFails \/ KeepAliveStop
    \/ Peers

Spec == Init /\ [][Next]_vars

(* Every goroutine of this side runs on; a remote end that stays open reads  *)
(* what it is sent.  Nothing is assumed of the client, nor that the remote   *)
(* end ever closes.                                                          *)
FairSpec ==
    /\ Spec
    /\ WF_vars(Up) /\ WF_vars(StdinEnds) /\ \A s \in Sides : WF_vars(Down(s))
    /\ WF_vars(Main) /\ WF_vars(PingFails)

-----------------------------------------------------------------------------
Values ==
    /\ cfg \in Configs
    /\ client \in {"up", "stalled", "gone"} /\ sentUp \in 0 .. cfg.maxUp /\ asked \subseteq Resizes
    /\ open \in BOOLEAN /\ broken \in BOOLEAN /\ ready \in BOOLEAN
    /\ cut \in BOOLEAN /\ leaked \in BOOLEAN /\ eof \in BOOLEAN
    /\ wmu \in Sides \cup {"main", "free"}
    /\ up \in {"off", "read", "write", "done"} /\ stdin \in {"off", "on", "done"}
    /\ size \in {"none", "asked", "zero", "other"}
    /\ win \in {"none", "initial", "asked", "zero", "other"}
    /\ remote \in {"none", "open", "gone", "closed"}
    /\ down \in [Sides -> {"off", "read", "write", "flush", "done"}]
    /\ sentDown \in [Sides -> 0 .. MaxDown]
    /\ main \in {"dial", "session", "pty", "shell", "wait", "join", "report", "reporting",
                 "first", "closeA", "closeB", "second", "close", "returned"}
    /\ ka \in {"on", "done"}

HoldsWhileWriting == up = "write" <=> hold # <<>>

OneWriter ==
    /\ main = "reporting" <=> wmu = "main"
    /\ \A s \in Sides : down[s] = "flush" <=> wmu = s

(* Types; the reader holds pieces exactly while it writes them, and wmu is   *)
(* held exactly by who is in WriteMessage: the copiers of stdout and stderr  *)
(* and the caller's error line never are there together, which gorilla       *)
(* answers with a panic, and no error path keeps the lock.                   *)
TypeOK == Values /\ HoldsWhileWriting /\ OneWriter

(* parseTerminalResize takes a resize message out of the stream when one     *)
(* read returns all of it: then none of its bytes reaches the shell, and the *)
(* terminal has the size asked for, or 0 x 0 if the client sent a malformed  *)
(* one.                                                                      *)
ResizeUnseen ==
    kind = "ssh" /\ ~cut =>
        /\ ~leaked
        /\ win # "other"
        /\ win = "zero" => <<Head0, BadTail>> \in asked

(* TCPRelay and ConnectWithOptions return with both ends closed and nobody   *)
(* writing to the client; TCPRelay also with nobody reading from it.         *)
ReturnsClean ==
    main = "returned" /\ kind # "bare" =>
        /\ ~open /\ remote \in {"none", "closed"}
        /\ \A s \in Sides : down[s] \in {"off", "done"}
        /\ kind = "tcp" => up \in {"off", "done"}

\* The streams through the tunnel, one in and two out: what was sent on each and
\* what has arrived.
Numbered(n) == [i \in 1 .. n |-> i]
Ends   == Sides \cup {"in"}
sentOn == [s \in Ends |-> Numbered(IF s = "in" THEN sentUp ELSE sentDown[s])]
gotOn  == [s \in Ends |-> IF s = "in" THEN gotUp ELSE gotDown[s]]
Streams == INSTANCE ByteStreams WITH Streams <- Ends, sent <- sentOn, got <- gotOn

(* Each of the streams through the tunnel is a byte stream: Conn.Read, the   *)
(* pending buffer and the copiers lose, repeat and reorder nothing.          *)
IsByteStreams == Streams!Spec

(* Bridge's comment: closing both ends frees the other direction.  When one  *)
(* direction has ended, TCPRelay returns and both goroutines are gone; when  *)
(* the shell has exited, ConnectWithOptions returns, unless a client that    *)
(* takes no bytes holds up a write without deadline.  After the return       *)
(* nothing stays behind: the goroutine that reads the WebSocket and the one  *)
(* of KeepAlive, whose stop nobody may have called, end too.                 *)
TunnelEnds ==
    /\ kind = "tcp" /\ (up = "done" \/ down["out"] = "done") ~> main = "returned"
    /\ Ssh /\ main = "wait" /\ remote = "gone"
         ~> main = "returned" \/ (client = "stalled" /\ ~cfg.wtimeout)
    /\ main = "returned" /\ kind # "bare" ~> up \in {"off", "done"} /\ ka = "done"

(* Nothing but the pump notices that the browser is gone: the shell is told  *)
(* by an end of file on its input.                                           *)
HangupReachesShell ==
    Ssh /\ main = "wait" /\ client = "gone" ~> eof \/ main # "wait"
=============================================================================
