--------------------------- MODULE EtcdAuthProofs ---------------------------
(* Proofs about EtcdAuth: type correctness, that resetToken never drops a    *)
(* good token, and that one retry is enough, for any number of callers,      *)
(* watchers and tokens.                                                      *)
EXTENDS EtcdAuth, TLAPS

\* Tokens a goroutine may hold are tokens the server has issued, and c.token is
\* empty as long as somebody authenticates.
TokenInv ==
    /\ token <= issued
    /\ mu # NoProc => token = 0
    /\ \A p \in Procs :
         /\ used[p] <= issued /\ reply[p] <= issued
         /\ reply[p] # 0 => pc[p] = "auth"
         /\ before[p] \subseteq expired
         /\ pc[p] = "reset" => used[p] \in expired \union {0}

\* The call of p has read c.token: every token it meets from now on, except the one
\* it used, was issued after the call began.
Settled(p) == pc[p] \in {"wait", "reset"} \/ (pc[p] \in Active /\ attempt[p] = 1)
Progress(p) == \E t \in expired : t \notin before[p]

RetryInv ==
    \A p \in Procs :
      /\ Settled(p) => \A q \in Procs : reply[q] \notin before[p]
      /\ Settled(p) /\ attempt[p] = 0 /\ token \in before[p] => token = used[p]
      /\ pc[p] \in Active /\ attempt[p] = 1 => token \notin before[p]
      /\ pc[p] = "send" /\ attempt[p] = 1 => token # 0 \/ Progress(p)
      /\ pc[p] = "wait" /\ attempt[p] = 1
           => used[p] \notin before[p] /\ (used[p] # 0 \/ Progress(p))
      /\ pc[p] = "reset" => attempt[p] = 0
      /\ pc[p] = "unauth" => Progress(p)

IInv == TypeOK /\ TokenInv /\ RetryInv
-----------------------------------------------------------------------------
(* The initial state satisfies the invariant.                                *)
LEMMA InitInv == Init => IInv
BY AuthAssumption DEF Init, IInv, TypeOK, TokenInv, RetryInv, Ended, Active, Settled, Progress

(* Every step keeps the types, and c.mu with the goroutine that authenticates. *)
LEMMA TypeOKStep ==
    ASSUME TypeOK, [Next]_vars
    PROVE  TypeOK'
<1> USE AuthAssumption DEF TypeOK, Ended, Active, Goto, server, procVars
<1>1. ASSUME NEW p \in Procs, Start(p) PROVE TypeOK'
    BY <1>1 DEF Start
<1>2. ASSUME NEW p \in Procs, EnsureCached(p) PROVE TypeOK'
    BY <1>2 DEF EnsureCached
<1>3. ASSUME NEW p \in Procs, EnsureLock(p) PROVE TypeOK'
    BY <1>3 DEF EnsureLock
<1>4. ASSUME NEW p \in Procs, SetAuth(p) PROVE TypeOK'
    BY <1>4 DEF SetAuth
<1>5. ASSUME NEW p \in Procs, Reset(p) PROVE TypeOK'
    BY <1>5 DEF Reset
<1>6. ASSUME NEW p \in Procs, Issue(p) PROVE TypeOK'
    BY <1>6 DEF Issue
<1>7. ASSUME NEW p \in Procs, Authenticated(p) PROVE TypeOK'
    BY <1>7 DEF Authenticated
<1>8. ASSUME NEW p \in Procs, AuthFails(p) PROVE TypeOK'
    BY <1>8 DEF AuthFails
<1>9. ASSUME NEW p \in Procs, ReplyOk(p) PROVE TypeOK'
    BY <1>9 DEF ReplyOk
<1>10. ASSUME NEW p \in Procs, Reply401(p) PROVE TypeOK'
    BY <1>10 DEF Reply401
<1>11. ASSUME NEW p \in Procs, RequestFails(p) PROVE TypeOK'
    BY <1>11 DEF RequestFails
<1>12. ASSUME NEW p \in Procs, Deadline(p) PROVE TypeOK'
    BY <1>12 DEF Deadline
<1>13. CASE Expire
    BY <1>13 DEF Expire
<1>14. CASE UNCHANGED vars
    BY <1>14 DEF vars, server, procVars
<1>15. QED
    BY <1>1, <1>2, <1>3, <1>4, <1>5, <1>6, <1>7, <1>8, <1>9, <1>10, <1>11, <1>12, <1>13, <1>14 DEF Next, LockStep

(* Every step keeps tokens within what the server issued and c.token empty   *)
(* during an authentication.                                                 *)
LEMMA TokenInvStep ==
    ASSUME TypeOK, TokenInv, [Next]_vars
    PROVE  TokenInv'
<1> USE AuthAssumption DEF TypeOK, TokenInv, Ended, Active, Goto, Valid, server, procVars
<1>1. ASSUME NEW p \in Procs, Start(p) PROVE TokenInv'
    BY <1>1 DEF Start
<1>2. ASSUME NEW p \in Procs, EnsureCached(p) PROVE TokenInv'
    BY <1>2 DEF EnsureCached
<1>3. ASSUME NEW p \in Procs, EnsureLock(p) PROVE TokenInv'
    BY <1>3 DEF EnsureLock
<1>4. ASSUME NEW p \in Procs, SetAuth(p) PROVE TokenInv'
    BY <1>4 DEF SetAuth
<1>5. ASSUME NEW p \in Procs, Reset(p) PROVE TokenInv'
    BY <1>5 DEF Reset
<1>6. ASSUME NEW p \in Procs, Issue(p) PROVE TokenInv'
    BY <1>6 DEF Issue
<1>7. ASSUME NEW p \in Procs, Authenticated(p) PROVE TokenInv'
    BY <1>7 DEF Authenticated
<1>8. ASSUME NEW p \in Procs, AuthFails(p) PROVE TokenInv'
    BY <1>8 DEF AuthFails
<1>9. ASSUME NEW p \in Procs, ReplyOk(p) PROVE TokenInv'
    BY <1>9 DEF ReplyOk
<1>10. ASSUME NEW p \in Procs, Reply401(p) PROVE TokenInv'
    BY <1>10 DEF Reply401
<1>11. ASSUME NEW p \in Procs, RequestFails(p) PROVE TokenInv'
    BY <1>11 DEF RequestFails
<1>12. ASSUME NEW p \in Procs, Deadline(p) PROVE TokenInv'
    BY <1>12 DEF Deadline
<1>13. CASE Expire
    BY <1>13 DEF Expire
<1>14. CASE UNCHANGED vars
    BY <1>14 DEF vars, server, procVars
<1>15. QED
    BY <1>1, <1>2, <1>3, <1>4, <1>5, <1>6, <1>7, <1>8, <1>9, <1>10, <1>11, <1>12, <1>13, <1>14 DEF Next, LockStep

(* Every step keeps what a call knows about the tokens it can still meet.    *)
LEMMA RetryInvStep ==
    ASSUME TypeOK, TokenInv, RetryInv, [Next]_vars
    PROVE  RetryInv'
<1> USE AuthAssumption DEF TypeOK, TokenInv, RetryInv, Settled, Progress, Ended, Active, Goto, Valid, server, procVars
<1>1. ASSUME NEW p \in Procs, Start(p) PROVE RetryInv'
    BY <1>1 DEF Start
<1>2. ASSUME NEW p \in Procs, EnsureCached(p) PROVE RetryInv'
    BY <1>2 DEF EnsureCached
<1>3. ASSUME NEW p \in Procs, EnsureLock(p) PROVE RetryInv'
    BY <1>3 DEF EnsureLock
<1>4. ASSUME NEW p \in Procs, SetAuth(p) PROVE RetryInv'
    BY <1>4 DEF SetAuth
<1>5. ASSUME NEW p \in Procs, Reset(p) PROVE RetryInv'
    BY <1>5 DEF Reset
<1>6. ASSUME NEW p \in Procs, Issue(p) PROVE RetryInv'
    BY <1>6 DEF Issue
<1>7. ASSUME NEW p \in Procs, Authenticated(p) PROVE RetryInv'
    BY <1>7 DEF Authenticated
<1>8. ASSUME NEW p \in Procs, AuthFails(p) PROVE RetryInv'
    BY <1>8 DEF AuthFails
<1>9. ASSUME NEW p \in Procs, ReplyOk(p) PROVE RetryInv'
    BY <1>9 DEF ReplyOk
<1>10. ASSUME NEW p \in Procs, Reply401(p) PROVE RetryInv'
    BY <1>10 DEF Reply401
<1>11. ASSUME NEW p \in Procs, RequestFails(p) PROVE RetryInv'
    BY <1>11 DEF RequestFails
<1>12. ASSUME NEW p \in Procs, Deadline(p) PROVE RetryInv'
    BY <1>12 DEF Deadline
<1>13. CASE Expire
    BY <1>13 DEF Expire
<1>14. CASE UNCHANGED vars
    BY <1>14 DEF vars, server, procVars
<1>15. QED
    BY <1>1, <1>2, <1>3, <1>4, <1>5, <1>6, <1>7, <1>8, <1>9, <1>10, <1>11, <1>12, <1>13, <1>14 DEF Next, LockStep

(* The inductive invariant holds in every reachable state.                   *)
THEOREM Invariant == Spec => []IInv
<1>1. Init => IInv
    BY InitInv
<1>2. IInv /\ [Next]_vars => IInv'
    BY TypeOKStep, TokenInvStep, RetryInvStep DEF IInv
<1>3. QED
    BY <1>1, <1>2, PTL DEF Spec

(* The variables keep their types, and c.mu is held across a request exactly *)
(* by the goroutine inside authenticate.                                     *)
THEOREM TypeCorrect == Spec => []TypeOK
<1>1. IInv => TypeOK
    BY DEF IInv
<1>2. QED
    BY Invariant, <1>1, PTL

(* do() reports 401 only if a token expired during the call: the one retry   *)
(* of the loop in do is enough.                                              *)
THEOREM OneRetrySuffices == Spec => []UnauthorizedNeedsExpiry
<1>1. IInv => UnauthorizedNeedsExpiry
    BY DEF IInv, RetryInv, Progress, UnauthorizedNeedsExpiry
<1>2. QED
    BY Invariant, <1>1, PTL

(* resetToken, and every other step, replaces the cached token only after    *)
(* the server has expired it.                                                *)
THEOREM GoodTokenKept == Spec => FreshTokenKept
<1>1. IInv /\ [Next]_vars => [token # 0 /\ token' # token => token \in expired]_vars
  <2> SUFFICES ASSUME IInv, [Next]_vars, token # 0, token' # token
               PROVE  token \in expired
      OBVIOUS
  <2> USE DEF IInv, TypeOK, TokenInv
  <2>1. ASSUME NEW p \in Procs, Reset(p) PROVE token \in expired
      BY <2>1 DEF Reset
  <2>2. ASSUME NEW p \in Procs, Authenticated(p) PROVE token \in expired
      BY <2>2, AuthAssumption DEF Authenticated
  <2>3. QED
      BY <2>1, <2>2 DEF Next, LockStep, Start, EnsureCached, EnsureLock, SetAuth, Issue,
         AuthFails, ReplyOk, Reply401, RequestFails, Deadline, Expire, vars
<1>2. QED
    BY Invariant, <1>1, PTL DEF Spec, FreshTokenKept
=============================================================================
