------------------------------ MODULE SftpPool ------------------------------
(***************************************************************************)
(* The connection pool of webssh.SFTPClient (src/webssh/sftp_client.go).    *)
(* Goroutines run operations that take a pooled connection with getConn and *)
(* drop it with invalidate when the operation fails; evictLoop closes idle  *)
(* connections; Close empties the pool.  Every critical section of c.mu is  *)
(* one action; probing, dialling and closing happen outside the lock.       *)
(*                                                                         *)
(* The pool is keyed by user@addr.  NewSSHClient appends ":22" to an Addr   *)
(* that has no port, in the caller's own option, so one host has two keys.  *)
(***************************************************************************)
EXTENDS Naturals, FiniteSets

CONSTANTS
    Procs,      \* goroutines that use the client
    Addrs,      \* forms of opt.Addr callers pass: a subset of {"bare", "port"}
    WithClose,  \* the program may call Close
    MaxConns,   \* bound: connections dialled
    MaxCalls    \* bound: operations started

Keys   == {"bare", "port"}
Agents == Procs \union {"evictor", "closer"}
Conns  == 1..MaxConns

ASSUME PoolAssumption ==
    /\ "evictor" \notin Procs /\ "closer" \notin Procs
    /\ Addrs \subseteq Keys /\ WithClose \in BOOLEAN
    /\ MaxConns \in Nat /\ MaxCalls \in Nat

VARIABLES
    pool,      \* c.entries: [Keys -> 0..MaxConns], 0 for no entry
    aged,      \* connections whose lastUsed is more than idleTimeout ago
    nextConn,  \* connections are numbered in the order they are dialled
    ssh,       \* connections whose ssh.Client is still up
    closes,    \* [Conns -> Nat] calls of conn.Close
    owned,     \* [Agents -> SUBSET Conns] connections in an agent's hands only:
               \* dialled and not yet pooled, or taken out and not yet closed
    pc,        \* [Procs -> step of the operation]
    opt,       \* [Procs -> Keys] the form opt.Addr has now
    key,       \* [Procs -> Keys] the local key of getConn
    conn,      \* [Procs -> 0..MaxConns] the connection looked up, then the one in use
    evictor,   \* evictLoop: "loop" or "done"
    closer,    \* Close: "idle", "take", "close", "done"
    calls

procVars == <<pc, opt, key, conn, calls>>
connVars == <<pool, aged, nextConn, ssh, closes, owned>>
vars     == <<connVars, procVars, evictor, closer>>

Steps == {"idle", "lookup", "probe", "touch", "remove", "close", "dial", "insert",
          "discard", "use", "invalid", "download"}

Init ==
    /\ pool = [k \in Keys |-> 0] /\ aged = {} /\ nextConn = 1 /\ ssh = {}
    /\ closes = [c \in Conns |-> 0] /\ owned = [a \in Agents |-> {}]
    /\ pc = [p \in Procs |-> "idle"] /\ conn = [p \in Procs |-> 0]
    /\ opt = [p \in Procs |-> "port"] /\ key = [p \in Procs |-> "port"]
    /\ evictor = "loop" /\ closer = "idle" /\ calls = 0

Stopped    == closer # "idle"                 \* c.stopCh is closed
Usable(c)  == c \in ssh /\ closes[c] = 0
Pooled(c)  == \E k \in Keys : pool[k] = c
Goto(p, s) == pc' = [pc EXCEPT ![p] = s]

\* conn.Close() by agent a: it ends the sftp session.  The ssh.Client that dial made for
\* it stays up: dial does not return it, and sftp.Client does not close it.
CloseConn(a, c) ==
    /\ closes' = [closes EXCEPT ![c] = @ + 1]
    /\ owned' = [owned EXCEPT ![a] = @ \ {c}]

\* Agent a takes the entry of key k out of the map.
TakeOut(a, k) ==
    /\ owned' = [owned EXCEPT ![a] = @ \union {pool[k]}]
    /\ pool' = [pool EXCEPT ![k] = 0]

-----------------------------------------------------------------------------
(* Operations of the client.                                                 *)

MayCall(p) == pc[p] = "idle" /\ calls < MaxCalls

\* An operation is called with an option of either form.
Call(p) ==
    /\ MayCall(p)
    /\ calls' = calls + 1
    /\ \E a \in Addrs :
         /\ opt' = [opt EXCEPT ![p] = a]
         /\ key' = [key EXCEPT ![p] = a]
    /\ Goto(p, "lookup")
    /\ UNCHANGED <<connVars, conn, evictor, closer>>

\* getConn 1: read the entry under the lock.
Lookup(p) ==
    /\ pc[p] = "lookup"
    /\ conn' = [conn EXCEPT ![p] = pool[key[p]]]
    /\ Goto(p, IF pool[key[p]] = 0 THEN "dial" ELSE "probe")
    /\ UNCHANGED <<connVars, opt, key, calls, evictor, closer>>

\* getConn: e.conn.Getwd(), without the lock; the server may also refuse it.
Probe(p) ==
    /\ pc[p] = "probe"
    /\ Goto(p, "remove") \/ (Usable(conn[p]) /\ Goto(p, "touch"))
    /\ UNCHANGED <<connVars, opt, key, conn, calls, evictor, closer>>

\* getConn: the probe succeeded; refresh lastUsed if the entry is still there.
Touch(p) ==
    /\ pc[p] = "touch"
    /\ aged' = IF pool[key[p]] = conn[p] THEN aged \ {conn[p]} ELSE aged
    /\ Goto(p, "use")
    /\ UNCHANGED <<pool, nextConn, ssh, closes, owned, opt, key, conn, calls, evictor,
                   closer>>

\* A slip: the dead entry is taken out without checking it is still the same one.
RemoveUnchecked(p) ==
    /\ pc[p] = "remove"
    /\ owned' = [owned EXCEPT ![p] = {conn[p]}]
    /\ pool' = [pool EXCEPT ![key[p]] = 0]
    /\ Goto(p, "close")
    /\ UNCHANGED <<aged, nextConn, ssh, closes, opt, key, conn, calls, evictor, closer>>

\* getConn: the probe failed; take the entry out if it is still the same one.
Remove(p) ==
    /\ pc[p] = "remove"
    /\ IF pool[key[p]] = conn[p]
       THEN TakeOut(p, key[p]) /\ Goto(p, "close")
       ELSE UNCHANGED <<pool, owned>> /\ Goto(p, "dial")
    /\ UNCHANGED <<aged, nextConn, ssh, closes, opt, key, conn, calls, evictor, closer>>

\* getConn: e.conn.Close() outside the lock.
CloseOld(p) ==
    /\ pc[p] = "close"
    /\ CloseConn(p, conn[p])
    /\ Goto(p, "dial")
    /\ UNCHANGED <<pool, aged, nextConn, ssh, opt, key, conn, calls, evictor, closer>>

\* NewSSHClient completes the address in place, whether or not the dial succeeds.
CompleteAddr(p) == opt' = [opt EXCEPT ![p] = "port"]

\* dial succeeds: an ssh.Client that is up and an sftp session that only p knows ...
Dialled(p, next) ==
    /\ nextConn <= MaxConns
    /\ nextConn' = nextConn + 1
    /\ owned' = [owned EXCEPT ![p] = {nextConn}]
    /\ ssh' = ssh \union {nextConn}
    /\ CompleteAddr(p) /\ Goto(p, next)
    /\ UNCHANGED <<pool, aged, closes, key, evictor, closer>>

\* ... or fails, having closed the ssh.Client if only the session failed.
DialFails(p) ==
    /\ pc[p] = "dial"
    /\ CompleteAddr(p) /\ Goto(p, "idle")
    /\ UNCHANGED <<connVars, key, conn, calls, evictor, closer>>

\* getConn 2.
Dial(p) == pc[p] = "dial" /\ Dialled(p, "insert") /\ UNCHANGED <<conn, calls>>

\* A slip: the new connection replaces whatever another goroutine has stored.
InsertOverwrites(p) ==
    /\ pc[p] = "insert"
    /\ \E c \in owned[p] :
         /\ pool' = [pool EXCEPT ![key[p]] = c]
         /\ owned' = [owned EXCEPT ![p] = {}]
         /\ conn' = [conn EXCEPT ![p] = c]
         /\ aged' = aged \ {c}
    /\ Goto(p, "use")
    /\ UNCHANGED <<nextConn, ssh, closes, opt, key, calls, evictor, closer>>

\* getConn 3: store the connection unless another goroutine was faster.
Insert(p) ==
    /\ pc[p] = "insert"
    /\ IF pool[key[p]] # 0
       THEN /\ conn' = [conn EXCEPT ![p] = pool[key[p]]]
            /\ Goto(p, "discard")
            /\ UNCHANGED <<pool, owned, aged>>
       ELSE \E c \in owned[p] :
            /\ pool' = [pool EXCEPT ![key[p]] = c]
            /\ owned' = [owned EXCEPT ![p] = {}]
            /\ conn' = [conn EXCEPT ![p] = c]
            /\ aged' = aged \ {c}
            /\ Goto(p, "use")
    /\ UNCHANGED <<nextConn, ssh, closes, opt, key, calls, evictor, closer>>


\* getConn: close the superfluous connection and return the existing one.
Discard(p) ==
    /\ pc[p] = "discard"
    /\ \E c \in owned[p] : CloseConn(p, c)
    /\ Goto(p, "use")
    /\ UNCHANGED <<pool, aged, nextConn, ssh, opt, key, conn, calls, evictor, closer>>

\* The remote operation succeeds and returns its result.
OpSucceeds(p) ==
    /\ pc[p] = "use" /\ Usable(conn[p])
    /\ Goto(p, "idle")
    /\ UNCHANGED <<connVars, opt, key, conn, calls, evictor, closer>>

\* It fails: the connection is gone, or the server refuses (no such file).
OpFails(p) ==
    /\ pc[p] = "use"
    /\ Goto(p, "invalid")
    /\ UNCHANGED <<connVars, opt, key, conn, calls, evictor, closer>>

\* Upload and IsTextFile return a failure without touching the pool.
OpFailsKept(p) ==
    /\ pc[p] = "use"
    /\ Goto(p, "idle")
    /\ UNCHANGED <<connVars, opt, key, conn, calls, evictor, closer>>

\* A slip: the entry is closed and left in the pool.
InvalidateKeeps(p) ==
    /\ pc[p] = "invalid"
    /\ IF pool[opt[p]] # 0
       THEN closes' = [closes EXCEPT ![pool[opt[p]]] = @ + 1]
       ELSE UNCHANGED closes
    /\ Goto(p, "idle")
    /\ UNCHANGED <<pool, aged, nextConn, ssh, owned, opt, key, conn, calls, evictor,
                   closer>>

\* invalidate: close and delete, under the lock, what the key of opt names now.
Invalidate(p) ==
    /\ pc[p] = "invalid"
    /\ IF pool[opt[p]] # 0
       THEN /\ closes' = [closes EXCEPT ![pool[opt[p]]] = @ + 1]
            /\ pool' = [pool EXCEPT ![opt[p]] = 0]
       ELSE UNCHANGED <<closes, pool>>
    /\ Goto(p, "idle")
    /\ UNCHANGED <<aged, nextConn, ssh, owned, opt, key, conn, calls, evictor, closer>>

\* Download dials a connection of its own ...
Download(p) ==
    /\ MayCall(p)
    /\ calls' = calls + 1
    /\ Dialled(p, "download") /\ UNCHANGED conn

\* ... and closes it on every way out.
DownloadDone(p) ==
    /\ pc[p] = "download"
    /\ \E c \in owned[p] : CloseConn(p, c)
    /\ Goto(p, "idle")
    /\ UNCHANGED <<pool, aged, nextConn, ssh, opt, key, conn, calls, evictor, closer>>

-----------------------------------------------------------------------------
(* evictLoop, Close and the environment.                                     *)

\* The ticker case: take out every expired entry under the lock.
EvictCollect ==
    /\ evictor = "loop" /\ owned["evictor"] = {}
    /\ owned' = [owned EXCEPT !["evictor"] = {c \in aged : Pooled(c)}]
    /\ pool' = [k \in Keys |-> IF pool[k] \in aged THEN 0 ELSE pool[k]]
    /\ UNCHANGED <<aged, nextConn, ssh, closes, procVars, evictor, closer>>

\* Close them one by one outside the lock.
EvictClose ==
    /\ \E c \in owned["evictor"] : CloseConn("evictor", c)
    /\ UNCHANGED <<pool, aged, nextConn, ssh, procVars, evictor, closer>>

EvictExit ==
    /\ evictor = "loop" /\ owned["evictor"] = {} /\ Stopped
    /\ evictor' = "done"
    /\ UNCHANGED <<connVars, procVars, closer>>

\* Close: close(c.stopCh).
CloseStop ==
    /\ WithClose /\ closer = "idle"
    /\ closer' = "take"
    /\ UNCHANGED <<connVars, procVars, evictor>>

\* Close: take every connection out under the lock.
CloseTake ==
    /\ closer = "take"
    /\ owned' = [owned EXCEPT !["closer"] = {c \in Conns : Pooled(c)}]
    /\ pool' = [k \in Keys |-> 0]
    /\ closer' = "close"
    /\ UNCHANGED <<aged, nextConn, ssh, closes, procVars, evictor>>

\* Close: close them outside the lock, then return.
CloseConns ==
    /\ closer = "close"
    /\ \/ /\ \E c \in owned["closer"] : CloseConn("closer", c)
          /\ UNCHANGED closer
       \/ /\ owned["closer"] = {} /\ closer' = "done"
          /\ UNCHANGED <<closes, owned>>
    /\ UNCHANGED <<pool, aged, nextConn, ssh, procVars, evictor>>

\* idleTimeout passes since the last use of a pooled connection.
Age ==
    /\ \E c \in Conns : Pooled(c) /\ c \notin aged /\ aged' = aged \union {c}
    /\ UNCHANGED <<pool, nextConn, ssh, closes, owned, procVars, evictor, closer>>

\* The remote side drops a connection.
RemoteDrop ==
    /\ \E c \in ssh : ssh' = ssh \ {c}
    /\ UNCHANGED <<pool, aged, nextConn, closes, owned, procVars, evictor, closer>>

\* The steps of an operation that wait for nobody but the mutex.
Local(p) ==
    \/ Lookup(p) \/ Touch(p) \/ Remove(p) \/ CloseOld(p) \/ Insert(p) \/ Discard(p)
    \/ Invalidate(p)

\* The steps that wait for the server, for which the code sets no deadline.
Remote(p) ==
    \/ Probe(p) \/ Dial(p) \/ DialFails(p) \/ OpSucceeds(p) \/ OpFails(p)
    \/ OpFailsKept(p) \/ DownloadDone(p)

Next ==
    \/ \E p \in Procs : Call(p) \/ Download(p) \/ Local(p) \/ Remote(p)
    \/ EvictCollect \/ EvictClose \/ EvictExit
    \/ CloseStop \/ CloseTake \/ CloseConns
    \/ Age \/ RemoteDrop

Spec == Init /\ [][Next]_vars

(* A goroutine runs on while it does not wait for the server, the ticker     *)
(* fires, and time passes.  The server need not answer.                      *)
Fairness ==
    /\ \A p \in Procs : WF_vars(Local(p))
    /\ WF_vars(EvictCollect) /\ WF_vars(EvictClose) /\ WF_vars(Age)

FairSpec == Spec /\ Fairness

-----------------------------------------------------------------------------
(* Type correctness of the pool, the connections and the goroutines; a       *)
(* goroutine past the lookup always has a connection to work on.             *)
TypeOK ==
    /\ pool \in [Keys -> 0..MaxConns] /\ aged \subseteq Conns
    /\ nextConn \in 1..(MaxConns + 1) /\ ssh \subseteq Conns
    /\ closes \in [Conns -> Nat] /\ owned \in [Agents -> SUBSET Conns]
    /\ pc \in [Procs -> Steps] /\ conn \in [Procs -> 0..MaxConns]
    /\ opt \in [Procs -> Keys] /\ key \in [Procs -> Keys]
    /\ evictor \in {"loop", "done"} /\ closer \in {"idle", "take", "close", "done"}
    /\ calls \in 0..MaxCalls
    /\ \A p \in Procs :
         pc[p] \in {"probe", "touch", "remove", "close", "discard", "use", "invalid"}
           => conn[p] \in Conns

(* No connection is closed twice, however getConn, invalidate, evictLoop and *)
(* Close interleave: the comment on getConn promises no double close.        *)
ClosedOnce == \A c \in Conns : closes[c] <= 1

(* The pool never hands out an entry somebody has already closed: an entry   *)
(* leaves the map before, or in the same critical section as, its Close.     *)
PooledOpen == \A k \in Keys : pool[k] # 0 => closes[pool[k]] = 0

(* No sftp session is lost: one that is opened and not closed is in the pool *)
(* or in the hands of exactly one goroutine that will pool or close it.  The *)
(* ssh.Client below a session is in nobody's hands.                          *)
NoOrphan ==
    \A c \in Conns :
        c < nextConn /\ closes[c] = 0 => Pooled(c) \/ \E a \in Agents : c \in owned[a]

(* The comment on invalidate says that it removes the failed connection from *)
(* the cache: after it, no key leads to the connection the operation used.   *)
(* It holds when opt still names the key getConn used: dialling completes an *)
(* address without port in place, and invalidate then looks elsewhere.       *)
InvalidateDropsFailed ==
    [][\A p \in Procs : pc[p] = "invalid" /\ pc'[p] = "idle" /\ key[p] = opt[p]
          => \A k \in Keys : pool'[k] # conn[p]]_vars

=============================================================================
