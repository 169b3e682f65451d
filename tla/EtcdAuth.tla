------------------------------ MODULE EtcdAuth ------------------------------
(***************************************************************************)
(* The token cache of etcd.Client (src/etcd/client.go) when a username is   *)
(* configured: concurrent do() calls and watchOnce() connections that share *)
(* c.token under c.mu.  ensureToken keeps c.mu while it talks to the        *)
(* server, so the mutex is modelled by its holder; the other critical       *)
(* sections are one action each.  The server may answer late, never, or     *)
(* expire tokens at any time; the timer of do() may fire at any time.       *)
(***************************************************************************)
EXTENDS Naturals, FiniteSets

CONSTANTS
    Callers,    \* goroutines calling Get and Put, that is do()
    Watchers,   \* goroutines in watchOnce, whose context has no deadline
    MaxToken    \* bound: tokens the server issues

Procs == Callers \union Watchers
NoProc == "none"

ASSUME AuthAssumption ==
    /\ MaxToken \in Nat /\ NoProc \notin Procs
    /\ Callers \intersect Watchers = {}

VARIABLES
    token,     \* c.token, 0 for ""
    mu,        \* holder of c.mu across a request, or NoProc
    issued,    \* tokens issued by the server: 1..issued
    expired,   \* of these, the ones no longer valid
    pc,        \* [Procs -> step]
    attempt,   \* [Procs -> 0..1] the loop variable of do
    used,      \* [Procs -> 0..MaxToken] usedToken
    reply,     \* [Procs -> 0..MaxToken] token in the answer to authenticate
    late,      \* [Procs -> BOOLEAN] the deadline of the context has passed
    before     \* history: [Procs -> SUBSET Nat] expired when the call began

server   == <<issued, expired>>
procVars == <<attempt, used, reply, late, before>>
vars     == <<token, mu, server, pc, procVars>>

Ended  == {"idle", "ok", "err", "unauth"}
Active == {"ensure", "auth", "send", "wait", "reset"}
Valid(t)   == t \in 1..issued /\ t \notin expired
Goto(p, s) == pc' = [pc EXCEPT ![p] = s]

Init ==
    /\ token = 0 /\ mu = NoProc /\ issued = 0 /\ expired = {}
    /\ pc = [p \in Procs |-> "idle"] /\ attempt = [p \in Procs |-> 0]
    /\ used = [p \in Procs |-> 0] /\ reply = [p \in Procs |-> 0]
    /\ late = [p \in Procs |-> FALSE] /\ before = [p \in Procs |-> {}]

\* do, and watchOnce: begin.
Start(p) ==
    /\ pc[p] \in Ended
    /\ attempt' = [attempt EXCEPT ![p] = 0]
    /\ used' = [used EXCEPT ![p] = 0]
    /\ late' = [late EXCEPT ![p] = FALSE]
    /\ before' = [before EXCEPT ![p] = expired]
    /\ Goto(p, "ensure")
    /\ UNCHANGED <<token, mu, server, reply>>

\* ensureToken: a token is cached.
EnsureCached(p) ==
    /\ pc[p] = "ensure" /\ mu = NoProc /\ token # 0
    /\ Goto(p, "send")
    /\ UNCHANGED <<token, mu, server, procVars>>

\* ensureToken: keep c.mu and send the authenticate request.
EnsureLock(p) ==
    /\ pc[p] = "ensure" /\ mu = NoProc /\ token = 0
    /\ mu' = p /\ Goto(p, "auth")
    /\ UNCHANGED <<token, server, procVars>>

\* The server issues a token and sends its answer.
Issue(p) ==
    /\ pc[p] = "auth" /\ reply[p] = 0 /\ issued < MaxToken
    /\ issued' = issued + 1
    /\ reply' = [reply EXCEPT ![p] = issued + 1]
    /\ UNCHANGED <<token, mu, expired, pc, attempt, used, late, before>>

\* authenticate returns; ensureToken stores the token and unlocks.
Authenticated(p) ==
    /\ pc[p] = "auth" /\ reply[p] # 0
    /\ token' = reply[p] /\ mu' = NoProc
    /\ reply' = [reply EXCEPT ![p] = 0]
    /\ Goto(p, "send")
    /\ UNCHANGED <<server, attempt, used, late, before>>

\* authenticate fails: refused, broken, or the deadline passed.
AuthFails(p) ==
    /\ pc[p] = "auth"
    /\ mu' = NoProc
    /\ reply' = [reply EXCEPT ![p] = 0]
    /\ Goto(p, "err")
    /\ UNCHANGED <<token, server, attempt, used, late, before>>

\* setAuth: read the token again, under its own critical section.
SetAuth(p) ==
    /\ pc[p] = "send" /\ mu = NoProc
    /\ used' = [used EXCEPT ![p] = token]
    /\ Goto(p, "wait")
    /\ UNCHANGED <<token, mu, server, attempt, reply, late, before>>

\* The server accepts the request.
ReplyOk(p) ==
    /\ pc[p] = "wait" /\ Valid(used[p])
    /\ Goto(p, "ok")
    /\ UNCHANGED <<token, mu, server, procVars>>

\* A slip: the first 401 is already reported to the caller.
Reply401NoRetry(p) ==
    /\ pc[p] = "wait" /\ ~Valid(used[p])
    /\ Goto(p, "unauth")
    /\ UNCHANGED <<token, mu, server, procVars>>

\* 401: the first one is retried by do, and by Watch after watchOnce has returned.
Reply401(p) ==
    /\ pc[p] = "wait" /\ ~Valid(used[p])
    /\ Goto(p, IF attempt[p] = 0 THEN "reset" ELSE "unauth")
    /\ UNCHANGED <<token, mu, server, procVars>>

\* The request fails: transport error, another status, or the deadline passed.
RequestFails(p) ==
    /\ pc[p] = "wait"
    /\ Goto(p, "err")
    /\ UNCHANGED <<token, mu, server, procVars>>

\* A slip: the cached token is dropped whoever obtained it.
ResetAny(p) ==
    /\ pc[p] = "reset" /\ mu = NoProc
    /\ token' = 0
    /\ attempt' = [attempt EXCEPT ![p] = IF p \in Callers THEN 1 ELSE 0]
    /\ Goto(p, IF p \in Callers THEN "ensure" ELSE "err")
    /\ UNCHANGED <<mu, server, used, reply, late, before>>

\* resetToken: drop the cached token if it is the one that was refused; do goes
\* round its loop again, watchOnce returns errWatchAuthExpired.
Reset(p) ==
    /\ pc[p] = "reset" /\ mu = NoProc
    /\ token' = IF token = used[p] THEN 0 ELSE token
    /\ attempt' = [attempt EXCEPT ![p] = IF p \in Callers THEN 1 ELSE 0]
    /\ Goto(p, IF p \in Callers THEN "ensure" ELSE "err")
    /\ UNCHANGED <<mu, server, used, reply, late, before>>

\* The server expires a token.
Expire ==
    /\ \E t \in 1..issued : Valid(t) /\ expired' = expired \union {t}
    /\ UNCHANGED <<token, mu, issued, pc, procVars>>

\* A slip: the timeout is attached to the request only, not to authenticate.
DeadlineOfRequest(p) ==
    /\ p \in Callers /\ pc[p] = "wait" /\ ~late[p]
    /\ late' = [late EXCEPT ![p] = TRUE]
    /\ UNCHANGED <<token, mu, server, pc, attempt, used, reply, before>>

\* context.WithTimeout(ctx, c.timeout) of do.
Deadline(p) ==
    /\ p \in Callers /\ pc[p] \in Active /\ ~late[p]
    /\ late' = [late EXCEPT ![p] = TRUE]
    /\ UNCHANGED <<token, mu, server, pc, attempt, used, reply, before>>

LockStep(p) == EnsureCached(p) \/ EnsureLock(p) \/ SetAuth(p) \/ Reset(p)
TimesOut(p) == late[p] /\ (AuthFails(p) \/ RequestFails(p))

Next ==
    \/ \E p \in Procs :
         \/ Start(p) \/ LockStep(p) \/ Issue(p) \/ Authenticated(p) \/ AuthFails(p)
         \/ ReplyOk(p) \/ Reply401(p) \/ RequestFails(p) \/ Deadline(p)
    \/ Expire

Spec == Init /\ [][Next]_vars

(* sync.Mutex does not starve a waiter (strong fairness of the steps that    *)
(* take it), timers fire, an expired context ends a request and an answer    *)
(* that was sent arrives.  The server owes no answer.                        *)
Fairness ==
    \A p \in Procs : /\ SF_vars(LockStep(p)) /\ WF_vars(Authenticated(p))
                     /\ WF_vars(Deadline(p)) /\ WF_vars(TimesOut(p))

FairSpec == Spec /\ Fairness

-----------------------------------------------------------------------------
(* Type correctness; c.mu is held across a request exactly by the goroutine  *)
(* inside authenticate.                                                      *)
TypeOK ==
    /\ token \in 0..MaxToken /\ mu \in Procs \union {NoProc}
    /\ issued \in 0..MaxToken /\ expired \subseteq 1..issued
    /\ pc \in [Procs -> Ended \union Active] /\ attempt \in [Procs -> 0..1]
    /\ used \in [Procs -> 0..MaxToken] /\ reply \in [Procs -> 0..MaxToken]
    /\ late \in [Procs -> BOOLEAN] /\ before \in [Procs -> SUBSET (1..MaxToken)]
    /\ \A p \in Procs : pc[p] = "auth" <=> mu = p

(* resetToken never throws away a good token: the cached token is dropped    *)
(* only when the server has expired that very token, even when another       *)
(* goroutine refreshed it between the 401 and the reset.                     *)
FreshTokenKept ==
    [][token # 0 /\ token' # token => token \in expired]_vars

(* One retry is enough: do() reports 401 only if the server expired a token  *)
(* while the call was running, even when its first request left with no      *)
(* token or with a token that another goroutine was replacing.               *)
UnauthorizedNeedsExpiry ==
    \A p \in Procs : pc[p] = "unauth" => ~(expired \subseteq before[p])

(* do() is said to attach c.timeout to a context without deadline: every     *)
(* Get and Put returns, whatever the server does, unless a watcher, whose    *)
(* context has no deadline, holds the mutex while it authenticates.          *)
DoReturns ==
    \A p \in Callers : pc[p] \in Active ~> (pc[p] \in Ended \/ mu \in Watchers)
=============================================================================
