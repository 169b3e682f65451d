------------------------- MODULE CertManagerProofs --------------------------
(* Proofs about CertManager, for any number of callers, domains, faults and  *)
(* crashes: type correctness with the use of m.mu, one account, returned     *)
(* certificates good for what was asked, and the two properties of the TXT   *)
(* records.                                                                  *)
EXTENDS CertManager, FiniteSetTheorems, TLAPS

(* What Go does to the calls: the program counter of one caller moves.       *)
LEMMA GoEffect ==
    ASSUME call \in [Callers -> Calls], NEW p \in Callers, NEW s \in Pcs, Go(p, s)
    PROVE  /\ call' \in [Callers -> Calls] /\ call'[p].pc = s
           /\ \A q \in Callers : q # p => call'[q] = call[q]
           /\ \A q \in Callers :
                /\ call'[q].op = call[q].op /\ call'[q].req = call[q].req
                /\ call'[q].key = call[q].key /\ call'[q].toks = call[q].toks
                /\ call'[q].cert = call[q].cert /\ call'[q].n = call[q].n
BY DEF Go, Calls

(* What Return does: the caller is idle with its result and no tokens, which *)
(* went to a deletion if there were any.                                     *)
LEMMA ReturnEffect ==
    ASSUME call \in [Callers -> Calls], NEW p \in Callers, NEW cert \in Certs, Return(p, cert)
    PROVE  /\ call' \in [Callers -> Calls]
           /\ call'[p].pc = "idle" /\ call'[p].toks = {} /\ call'[p].cert = cert
           /\ call'[p].op = call[p].op /\ call'[p].req = call[p].req
           /\ \A q \in Callers : q # p => call'[q] = call[q]
           /\ \/ cleanups' = cleanups \cup {<<call[p].n, call[p].toks>>}
              \/ cleanups' = cleanups /\ call[p].toks = {}
<1> DEFINE new == [call[p] EXCEPT !.pc = "idle", !.toks = {}, !.cert = cert]
<1>1. call' = [call EXCEPT ![p] = new]
    BY DEF Return
<1>2. /\ new \in Calls /\ new.pc = "idle" /\ new.toks = {} /\ new.cert = cert
      /\ new.op = call[p].op /\ new.req = call[p].req
    BY DEF Calls, Pcs
<1>3. \/ cleanups' = cleanups \cup {<<call[p].n, call[p].toks>>}
      \/ cleanups' = cleanups /\ call[p].toks = {}
    BY Zenon DEF Return
<1> HIDE DEF new
<1>4. /\ call' \in [Callers -> Calls] /\ call'[p] = new
      /\ \A q \in Callers : q # p => call'[q] = call[q]
    BY <1>1, <1>2
<1>5. QED
    BY <1>2, <1>3, <1>4

LEMMA NoCertType == NoCert \in Certs
BY DEF NoCert, Certs

LEMMA IdleType ==
    Idle \in Calls /\ Idle.pc = "idle" /\ Idle.op = "none" /\ Idle.toks = {} /\ Idle.cert = NoCert
BY NoCertType DEF Idle, Calls, Pcs

(* What entering does: a new call with nothing in hand yet.                  *)
LEMMA EnterEffect ==
    ASSUME call \in [Callers -> Calls], calls \in Nat, NEW p \in Callers, NEW s \in Pcs,
           NEW op \in {"none", "single", "dns", "revoke"}, NEW req \in SUBSET Domains,
           Enter(p, s, op, req)
    PROVE  /\ call' \in [Callers -> Calls] /\ calls' \in Nat
           /\ call'[p].pc = s /\ call'[p].op = op /\ call'[p].req = req
           /\ call'[p].toks = {} /\ call'[p].cert = NoCert
           /\ \A q \in Callers : q # p => call'[q] = call[q]
<1> DEFINE new == [Idle EXCEPT !.pc = s, !.op = op, !.req = req, !.n = calls + 1]
<1>1. call' = [call EXCEPT ![p] = new] /\ calls' \in Nat
    BY DEF Enter
<1>2. new \in Calls
  <2>1. Idle \in Calls /\ calls + 1 \in Nat
      BY IdleType
  <2>2. QED
      BY <2>1 DEF Calls
<1>3. /\ new.pc = s /\ new.op = op /\ new.req = req /\ new.toks = Idle.toks
      /\ new.cert = Idle.cert
    BY IdleType DEF Calls
<1> HIDE DEF new
<1>4. /\ call' \in [Callers -> Calls] /\ call'[p] = new
      /\ \A q \in Callers : q # p => call'[q] = call[q]
    BY <1>1, <1>2
<1>5. QED
    BY <1>1, <1>2, <1>3, <1>4, IdleType

-----------------------------------------------------------------------------
\* What a step of a call that goes on does to the calls, and what one that
\* returns does: all a proof needs to know of most actions.
Goes(p) ==
    /\ call' \in [Callers -> Calls] /\ cleanups' = cleanups
    /\ call'[p].pc \notin {"idle", "register"}
    /\ \A q \in Callers : q # p => call'[q] = call[q]
    /\ \A q \in Callers :
         /\ call'[q].op = call[q].op /\ call'[q].req = call[q].req
         /\ call'[q].toks = call[q].toks /\ call'[q].cert = call[q].cert

Returns(p) ==
    /\ call' \in [Callers -> Calls]
    /\ call'[p].pc = "idle" /\ call'[p].toks = {}
    /\ call'[p].op = call[p].op /\ call'[p].req = call[p].req
    /\ \A q \in Callers : q # p => call'[q] = call[q]
    /\ \/ cleanups' = cleanups \cup {<<call[p].n, call[p].toks>>}
       \/ cleanups' = cleanups /\ call[p].toks = {}

(* The error paths return no certificate.                                    *)
LEMMA ErrReturns ==
    ASSUME call \in [Callers -> Calls], NEW p \in Callers, Err(p)
    PROVE  Returns(p) /\ call'[p].cert = NoCert
BY ReturnEffect, NoCertType DEF Err, Returns

(* A move to a later point of the call.                                      *)
LEMMA GoGoes ==
    ASSUME call \in [Callers -> Calls], NEW p \in Callers, NEW s \in Pcs \ {"idle", "register"},
           Go(p, s), cleanups' = cleanups
    PROVE  Goes(p) /\ call'[p].pc = s
BY GoEffect DEF Goes

(* After such a step the tokens handed to deletions are typed, and whoever   *)
(* registers did so before.                                                  *)
LEMMA CallPart ==
    ASSUME TypeOK, NEW p \in Callers, Goes(p) \/ Returns(p)
    PROVE  /\ call' \in [Callers -> Calls] /\ cleanups' \subseteq Nat \X SUBSET Nat
           /\ \A q \in Callers : At(q, "register")' => q # p /\ mu = q /\ call'[q].key # 0
<1>1. call' \in [Callers -> Calls] /\ call'[p].pc # "register"
    BY DEF Goes, Returns
<1>2. ASSUME NEW q \in Callers, At(q, "register")' PROVE q # p /\ mu = q /\ call'[q].key # 0
  <2>1. q # p /\ call'[q] = call[q]
      BY <1>1, <1>2 DEF Goes, Returns, At
  <2>2. QED
      BY <1>2, <2>1 DEF TypeOK, At
<1>3. <<call[p].n, call[p].toks>> \in Nat \X SUBSET Nat
    BY DEF TypeOK, Calls
<1>4. cleanups' \subseteq Nat \X SUBSET Nat
    BY <1>3 DEF Goes, Returns, TypeOK
<1>5. QED
    BY <1>1, <1>2, <1>4

(* The failures and the cached certificate: the call returns.                *)
LEMMA FailureSteps ==
    ASSUME TypeOK, NEW p \in Callers,
           KeyFails(p) \/ RegisterFails(p) \/ SolveFails(p) \/ OrderFails(p) \/ AppendFails(p)
           \/ WaitFails(p) \/ CreateFails(p)
    PROVE  Returns(p) /\ call'[p].cert = NoCert /\ saves' = saves /\ cache' = cache
<1>1. call \in [Callers -> Calls]
    BY DEF TypeOK
<1>2. Err(p) /\ saves' = saves /\ cache' = cache
    BY DEF KeyFails, RegisterFails, SolveFails, OrderFails, AppendFails, WaitFails, CreateFails
<1>3. QED
    BY <1>1, <1>2, ErrReturns

(* The steps after which the call goes on.                                   *)
LEMMA ProgressSteps ==
    ASSUME TypeOK, NEW p \in Callers,
           LoadMiss(p) \/ ClientReady(p) \/ Register(p) \/ SolveChallenge(p) \/ ClearRecords(p)
           \/ AppendRecords(p) \/ WaitOrder(p)
    PROVE  Goes(p) /\ saves' = saves /\ cache' = cache
<1>1. call \in [Callers -> Calls]
    BY DEF TypeOK
<1>2. saves' = saves /\ cache' = cache /\ cleanups' = cleanups
    BY DEF LoadMiss, ClientReady, Register, SolveChallenge, ClearRecords, AppendRecords, WaitOrder,
       goVars
<1>3. AfterClient(p) \in Pcs \ {"idle", "register"}
    BY DEF AfterClient, Pcs
<1>4. \E s \in Pcs \ {"idle", "register"} : Go(p, s)
    BY <1>3 DEF LoadMiss, ClientReady, Register, SolveChallenge, ClearRecords, AppendRecords,
       WaitOrder, Pcs
<1>5. QED
    BY <1>1, <1>2, <1>4, GoGoes

(* The steps that return a certificate.                                      *)
LEMMA ResultSteps ==
    ASSUME TypeOK, NEW p \in Callers
    PROVE  /\ LoadHit(p) => \E d \in call[p].req :
                /\ Usable(p, cache[d]) /\ Returns(p) /\ call'[p].cert = cache[d]
           /\ CreateCert(p) =>
                LET cert == [id |-> issued + 1, names |-> call[p].req]
                IN  /\ cert \in Certs /\ Returns(p) /\ call'[p].cert = cert
                    /\ saves' = saves \cup {[cert |-> cert, left |-> call[p].req]}
           /\ Revoke(p) /\ (\E d \in Domains : call[p].req = {d}) => Returns(p)
<1>1. call \in [Callers -> Calls] /\ call[p].req \subseteq Domains /\ cache \in [Domains -> Certs]
    BY DEF TypeOK, Calls
<1>2. ASSUME NEW cert \in Certs, Return(p, cert) PROVE Returns(p) /\ call'[p].cert = cert
    BY <1>1, <1>2, ReturnEffect DEF Returns
<1>3. ASSUME LoadHit(p)
      PROVE  \E d \in call[p].req :
                /\ Usable(p, cache[d]) /\ Returns(p) /\ call'[p].cert = cache[d]
  <2>1. PICK d \in call[p].req : Usable(p, cache[d]) /\ Return(p, cache[d])
      BY <1>3 DEF LoadHit
  <2>2. cache[d] \in Certs
      BY <1>1
  <2>3. QED
      BY <1>2, <2>1, <2>2
<1>4. ASSUME CreateCert(p)
      PROVE  LET cert == [id |-> issued + 1, names |-> call[p].req]
             IN  /\ cert \in Certs /\ Returns(p) /\ call'[p].cert = cert
                 /\ saves' = saves \cup {[cert |-> cert, left |-> call[p].req]}
  <2> DEFINE cert == [id |-> issued + 1, names |-> call[p].req]
  <2>1. cert \in Certs
      BY <1>1 DEF Certs, TypeOK
  <2>2. Return(p, cert) /\ saves' = saves \cup {[cert |-> cert, left |-> call[p].req]}
      BY <1>4 DEF CreateCert
  <2>3. QED
      BY <1>2, <2>1, <2>2
<1>5. ASSUME Revoke(p), \E d \in Domains : call[p].req = {d} PROVE Returns(p)
  <2> DEFINE d == CHOOSE d \in Domains : call[p].req = {d}
  <2>1. d \in Domains
      BY <1>5
  <2>2. Return(p, cache[d])
      BY <1>5 DEF Revoke
  <2>3. QED
      BY <1>1, <1>2, <2>1, <2>2
<1>6. QED
    BY <1>3, <1>4, <1>5

(* The CA can always make up different tokens for the domains of an order.   *)
LEMMA FreshTokens ==
    ASSUME NEW new, IsFiniteSet(new), NEW t \in Nat
    PROVE  /\ Cardinality(new) \in Nat
           /\ \E f \in [new -> t + 1 .. t + Cardinality(new)] :
                \A d, e \in new : f[d] = f[e] => d = e
<1> DEFINE n == Cardinality(new)
<1>1. n \in Nat /\ ExistsBijection(1..n, new)
    BY FS_CardinalityType
<1> HIDE DEF n
<1>2. PICK g \in [1..n -> new] : \A d \in new : \E i \in 1..n : g[i] = d
    BY <1>1 DEF ExistsBijection, Bijection, Injection, Surjection
<1> DEFINE at(d) == CHOOSE i \in 1..n : g[i] = d
<1>3. \A d \in new : at(d) \in 1..n /\ g[at(d)] = d
    BY <1>2
<1> HIDE DEF at
<1> DEFINE f == [d \in new |-> t + at(d)]
<1>4. f \in [new -> t + 1 .. t + n]
    BY <1>1, <1>3
<1>5. ASSUME NEW d \in new, NEW e \in new, f[d] = f[e] PROVE d = e
  <2>1. t + at(d) = t + at(e) /\ at(d) \in Nat /\ at(e) \in Nat
      BY <1>1, <1>3, <1>5
  <2>2. at(d) = at(e)
      BY <2>1
  <2>3. QED
      BY <1>3, <2>2
<1> HIDE DEF f
<1>6. QED
    BY <1>1, <1>4, <1>5 DEF n

\* What Order does: every token of the call is new or, if it is not, shared.
Ordered(p) ==
    /\ call' \in [Callers -> Calls] /\ tok' \in Nat /\ tok' >= tok
    /\ pending' \in [Domains -> Nat]
    /\ call'[p].pc = "clear" /\ call'[p].op = call[p].op /\ call'[p].req = call[p].req
    /\ call'[p].cert = call[p].cert
    /\ \A q \in Callers : q # p => call'[q] = call[q]
    /\ \A x \in call'[p].toks : x \in tok + 1 .. tok' \/ x \in shared'
    /\ \A d \in Domains : pending'[d] = pending[d] \/ pending'[d] \in tok + 1 .. tok'
    /\ shared' \subseteq shared \cup {pending[d] : d \in Domains} /\ shared \subseteq shared'

LEMMA OrderEffect ==
    ASSUME TypeOK, NEW p \in Callers, Order(p) PROVE Ordered(p)
<1> DEFINE open == call[p].req \ valid
           new  == {d \in open : ~Reuse \/ pending[d] = 0}
           n    == Cardinality(new)
           f    == CHOOSE f \in [new -> tok + 1 .. tok + n] :
                     \A d, e \in new : f[d] = f[e] => d = e
           rec  == [call[p] EXCEPT !.pc = "clear", !.toks = {pending'[d] : d \in open}]
<1>1. /\ tok' = tok + n /\ pending' = [d \in Domains |-> IF d \in new THEN f[d] ELSE pending[d]]
      /\ shared' = shared \cup {pending[d] : d \in open \ new}
      /\ call' = [call EXCEPT ![p] = rec]
    BY DEF Order
<1>2. call[p] \in Calls /\ call[p].req \subseteq Domains /\ tok \in Nat /\ pending \in [Domains -> Nat]
    BY DEF TypeOK, Calls
<1>3. open \subseteq Domains /\ new \subseteq open
    BY <1>2
<1>4. IsFiniteSet(new)
    BY <1>3, CertAssumption, FS_Subset DEF Domains
<1>5. n \in Nat /\ f \in [new -> tok + 1 .. tok + n]
  <2> HIDE DEF new
  <2>1. n \in Nat /\ \E g \in [new -> tok + 1 .. tok + n] : \A d, e \in new : g[d] = g[e] => d = e
    <3>1. tok \in Nat
        BY <1>2
    <3>2. QED
        BY <1>4, <3>1, FreshTokens, Zenon
  <2> HIDE DEF n
  <2>2. QED
      BY <2>1
<1> HIDE DEF f, n, new, open
<1>6. \A d \in Domains : pending'[d] = IF d \in new THEN f[d] ELSE pending[d]
    BY <1>1
<1>7. \A d \in new : f[d] \in tok + 1 .. tok'
    BY <1>1, <1>5
<1>8. /\ pending' \in [Domains -> Nat] /\ tok' \in Nat /\ tok' >= tok
      /\ \A d \in Domains : pending'[d] = pending[d] \/ pending'[d] \in tok + 1 .. tok'
  <2>1. \A d \in new : f[d] \in Nat
      BY <1>2, <1>5
  <2>2. QED
      BY <1>1, <1>2, <1>5, <1>6, <1>7, <2>1
<1>9. rec \in Calls /\ rec.pc = "clear" /\ rec.op = call[p].op /\ rec.req = call[p].req
      /\ rec.cert = call[p].cert /\ rec.toks = {pending'[d] : d \in open}
  <2>1. {pending'[d] : d \in open} \in SUBSET Nat
      BY <1>3, <1>8
  <2>2. QED
      BY <1>2, <2>1 DEF Calls, Pcs
<1>10. ASSUME NEW x \in rec.toks PROVE x \in tok + 1 .. tok' \/ x \in shared'
  <2>1. PICK d \in open : x = pending'[d]
      BY <1>9, <1>10
  <2>2. CASE d \in new
      BY <1>3, <1>6, <1>7, <2>1, <2>2
  <2>3. CASE d \notin new
      BY <1>1, <1>3, <1>6, <2>1, <2>3
  <2>4. QED
      BY <2>2, <2>3
<1>11. shared' \subseteq shared \cup {pending[d] : d \in Domains} /\ shared \subseteq shared'
    BY <1>1, <1>3
<1> HIDE DEF rec
<1>12. /\ call' \in [Callers -> Calls] /\ call'[p] = rec
       /\ \A q \in Callers : q # p => call'[q] = call[q]
    BY <1>1, <1>9 DEF TypeOK
<1>13. QED
    BY <1>8, <1>9, <1>10, <1>11, <1>12 DEF Ordered

(* What accountKey does under the lock.                                      *)
LEMMA AccountKeyEffect ==
    ASSUME TypeOK, NEW p \in Callers, AccountKey(p)
    PROVE  /\ call' \in [Callers -> Calls] /\ call'[p].pc = "register"
           /\ call'[p].key = (IF key # 0 THEN key ELSE keys + 1)
           /\ call'[p].op = call[p].op /\ call'[p].req = call[p].req
           /\ call'[p].toks = call[p].toks /\ call'[p].cert = call[p].cert
           /\ \A q \in Callers : q # p => call'[q] = call[q]
<1> DEFINE k   == IF key # 0 THEN key ELSE keys + 1
           new == [call[p] EXCEPT !.pc = "register", !.key = k]
<1>1. call' = [call EXCEPT ![p] = new]
    BY DEF AccountKey
<1>2. k \in Nat /\ call[p] \in Calls
    BY DEF TypeOK
<1> HIDE DEF k
<1>3. /\ new \in Calls /\ new.pc = "register" /\ new.key = k /\ new.op = call[p].op
      /\ new.req = call[p].req /\ new.toks = call[p].toks /\ new.cert = call[p].cert
    BY <1>2 DEF Calls, Pcs
<1> HIDE DEF new
<1>4. /\ call' \in [Callers -> Calls] /\ call'[p] = new
      /\ \A q \in Callers : q # p => call'[q] = call[q]
    BY <1>1, <1>3 DEF TypeOK
<1>5. QED
    BY <1>3, <1>4 DEF k

-----------------------------------------------------------------------------
\* Which calls have one domain, and that only RevokeCert comes to revoke.
ReqInv ==
    \A p \in Callers :
        /\ call[p].op \in {"single", "revoke"} => \E d \in Domains : call[p].req = {d}
        /\ call[p].pc # "idle" => call[p].op # "none"
        /\ call[p].pc = "revoke" => call[p].op = "revoke"

TypeInv == TypeOK /\ ReqInv

(* A call of GetCertificateForDomains or RevokeCert is well formed.          *)
LEMMA EnterType ==
    ASSUME TypeInv, NEW p \in Callers, GetCertificateForDomains(p) \/ RevokeCert(p)
    PROVE  /\ TypeInv' /\ call'[p].toks = {} /\ call'[p].cert = NoCert
           /\ call'[p].pc \in {"load", "client"}
           /\ \A q \in Callers : q # p => call'[q] = call[q]
           /\ UNCHANGED <<acct, cache, goVars, dns, caVars, crashes, faults, orphans>>
<1>1. PICK s \in {"load", "client"}, op \in {"single", "dns", "revoke"}, req \in SUBSET Domains :
        Enter(p, s, op, req) /\ (op \in {"single", "revoke"} => \E d \in Domains : req = {d})
  <2>1. CASE GetCertificateForDomains(p)
    <3>1. PICK r \in Requests : Enter(p, "load", Op(r), r)
        BY <2>1 DEF GetCertificateForDomains
    <3>2. r \subseteq Domains /\ IsFiniteSet(Domains)
        BY CertAssumption DEF Domains
    <3>3. IsFiniteSet(r)
        BY <3>2, FS_Subset
    <3>4. Op(r) \in {"single", "dns"} /\ (Op(r) = "single" => Cardinality(r) = 1)
        BY DEF Op
    <3>5. Op(r) = "single" => \E d : r = {d}
        BY <3>3, <3>4, FS_Singleton
    <3>6. Op(r) = "single" => \E d \in Domains : r = {d}
        BY <3>2, <3>5
    <3>7. QED
        BY <3>1, <3>2, <3>4, <3>6
  <2>2. CASE RevokeCert(p)
      BY <2>2 DEF RevokeCert
  <2>3. QED
      BY <2>1, <2>2
<1>2. call \in [Callers -> Calls] /\ calls \in Nat
    BY DEF TypeInv, TypeOK
<1>3. /\ call' \in [Callers -> Calls] /\ calls' \in Nat
      /\ call'[p].pc = s /\ call'[p].op = op /\ call'[p].req = req
      /\ call'[p].toks = {} /\ call'[p].cert = NoCert
      /\ \A q \in Callers : q # p => call'[q] = call[q]
  <2>1. s \in Pcs /\ op \in {"none", "single", "dns", "revoke"}
      BY DEF Pcs
  <2>2. QED
      BY <1>1, <1>2, <2>1, EnterEffect
<1>4. UNCHANGED <<acct, cache, goVars, dns, caVars, crashes, faults, orphans>>
    BY <1>1 DEF Enter
<1>5. TypeOK'
    BY <1>3, <1>4 DEF TypeInv, TypeOK, At, acct, goVars, caVars
<1>6. ReqInv'
    BY <1>1, <1>3 DEF TypeInv, ReqInv
<1>7. QED
    BY <1>3, <1>4, <1>5, <1>6 DEF TypeInv

(* Types and the well-formedness of calls hold initially.                    *)
LEMMA TypeInit == Init => TypeInv
<1> SUFFICES ASSUME Init PROVE TypeInv
    OBVIOUS
<1>1. call \in [Callers -> Calls] /\ \A p \in Callers : call[p] = Idle
    BY IdleType DEF Init
<1>2. cache \in [Domains -> Certs] /\ pending \in [Domains -> Nat]
    BY NoCertType DEF Init
<1>3. TypeOK
    BY <1>1, <1>2, IdleType DEF Init, TypeOK, At
<1>4. ReqInv
    BY <1>1, IdleType DEF ReqInv
<1>5. QED
    BY <1>3, <1>4 DEF TypeInv

(* The calls stay well formed.                                               *)
LEMMA ReqStep == TypeInv /\ [Next]_vars => ReqInv'
<1> SUFFICES ASSUME TypeInv, [Next]_vars PROVE ReqInv'
    OBVIOUS
<1>1. TypeOK /\ ReqInv
    BY DEF TypeInv
<1>2. ASSUME NEW p \in Callers, GetCertificateForDomains(p) \/ RevokeCert(p) PROVE ReqInv'
    BY <1>2, EnterType DEF TypeInv
<1>3. ASSUME NEW p \in Callers, Returns(p) PROVE ReqInv'
    BY <1>1, <1>3 DEF Returns, ReqInv
<1>4. ASSUME NEW p \in Callers, LoadHit(p) \/ CreateCert(p) \/ Revoke(p) PROVE ReqInv'
  <2>1. Revoke(p) => \E d \in Domains : call[p].req = {d}
      BY <1>1 DEF Revoke, ReqInv, At
  <2>2. Returns(p)
      BY <1>1, <1>4, <2>1, ResultSteps
  <2>3. QED
      BY <1>3, <2>2
<1>5. ASSUME NEW p \in Callers, AccountKey(p) PROVE ReqInv'
  <2>1. call[p].pc # "idle"
      BY <1>5 DEF AccountKey, At
  <2>2. QED
      BY <1>1, <1>5, <2>1, AccountKeyEffect DEF ReqInv
<1>6. ASSUME NEW p \in Callers, Order(p) PROVE ReqInv'
  <2>1. call[p].pc # "idle"
      BY <1>6 DEF Order, At
  <2>2. QED
      BY <1>1, <1>6, <2>1, OrderEffect DEF ReqInv, Ordered
<1>7. ASSUME NEW p \in Callers,
             LoadMiss(p) \/ ClientReady(p) \/ Register(p) \/ SolveChallenge(p) \/ ClearRecords(p)
             \/ AppendRecords(p) \/ WaitOrder(p)
      PROVE  ReqInv'
  <2>1. Goes(p)
      BY <1>1, <1>7, ProgressSteps
  <2>2. call[p].pc # "idle"
      BY <1>7 DEF LoadMiss, ClientReady, Register, SolveChallenge, ClearRecords, AppendRecords,
         WaitOrder, At
  <2>3. call'[p].pc = "revoke" => call[p].op = "revoke"
    <3>1. call \in [Callers -> Calls] /\ call[p].op \in {"none", "single", "dns", "revoke"}
        BY <1>1 DEF TypeOK, Calls
    <3>2. CASE ClientReady(p) \/ Register(p)
      <4>1. AfterClient(p) = "revoke" => call[p].op = "revoke"
          BY <1>1, <2>2, <3>1 DEF AfterClient, ReqInv
      <4>2. call'[p].pc = AfterClient(p)
          BY <3>1, <3>2 DEF ClientReady, Register, Go, Calls
      <4>3. QED
          BY <4>1, <4>2
    <3>3. CASE ~(ClientReady(p) \/ Register(p))
        BY <1>7, <3>1, <3>3 DEF LoadMiss, SolveChallenge, ClearRecords, AppendRecords, WaitOrder, Go,
           Calls
    <3>4. QED
        BY <3>2, <3>3
  <2>4. QED
      BY <1>1, <2>1, <2>2, <2>3 DEF Goes, ReqInv
<1>8. CASE UNCHANGED call
    BY <1>1, <1>8 DEF ReqInv
<1>9. CASE Crash
  <2>1. \A p \in Callers : call'[p] = Idle
      BY <1>9 DEF Crash
  <2>2. QED
      BY <2>1, IdleType DEF ReqInv
<1>10. ASSUME NEW p \in Callers, Step(p) PROVE ReqInv'
    BY <1>1, <1>3, <1>4, <1>5, <1>6, <1>7, <1>10, FailureSteps DEF Step, Client, Single, Dns01, Finish
<1>11. SaveCert \/ DeleteRecords \/ Age \/ UNCHANGED vars => UNCHANGED call
    BY DEF SaveCert, DeleteRecords, Age, vars
<1>12. QED
    BY <1>2, <1>8, <1>9, <1>10, <1>11 DEF Next

(* What a saving goroutine does: one of its domains, if any, is cached, and  *)
(* it goes on with fewer.                                                    *)
LEMMA SaveEffect ==
    ASSUME TypeOK, SaveCert
    PROVE  /\ \/ cache' = cache
              \/ \E g \in saves : \E d \in g.left :
                   /\ g.cert \in Certs /\ d \in Domains /\ cache' = [cache EXCEPT ![d] = g.cert]
           /\ \A h \in saves' : /\ h \in [cert : Certs, left : SUBSET Domains]
                                /\ \E g \in saves : h.cert = g.cert /\ h.left \subseteq g.left
<1>1. PICK g \in saves : \E d \in g.left :
        /\ cache' = [cache EXCEPT ![d] = g.cert] \/ cache' = cache
        /\ saves' = (saves \ {g}) \cup
                    (IF g.left = {d} THEN {} ELSE {[g EXCEPT !.left = @ \ {d}]})
    BY DEF SaveCert
<1>2. PICK d \in g.left :
        /\ cache' = [cache EXCEPT ![d] = g.cert] \/ cache' = cache
        /\ saves' = (saves \ {g}) \cup
                    (IF g.left = {d} THEN {} ELSE {[g EXCEPT !.left = @ \ {d}]})
    BY <1>1
<1>3. g \in [cert : Certs, left : SUBSET Domains] /\ g.cert \in Certs /\ d \in Domains
    BY <1>1, <1>2 DEF TypeOK
<1> DEFINE rest == [g EXCEPT !.left = @ \ {d}]
<1>4. /\ rest \in [cert : Certs, left : SUBSET Domains]
      /\ rest.cert = g.cert /\ rest.left \subseteq g.left
    BY <1>3
<1>5. saves' \subseteq saves \cup {rest}
    BY <1>2
<1> HIDE DEF rest
<1>6. QED
    BY <1>2, <1>3, <1>4, <1>5 DEF TypeOK

(* Every step keeps the types and the use of the lock.                       *)
LEMMA TypeStep == TypeInv /\ [Next]_vars => TypeOK'
<1> SUFFICES ASSUME TypeInv, [Next]_vars PROVE TypeOK'
    OBVIOUS
<1>1. TypeOK /\ ReqInv
    BY DEF TypeInv
<1> DEFINE Kept == /\ cache' \in [Domains -> Certs]
                   /\ saves' \subseteq [cert : Certs, left : SUBSET Domains]
                   /\ dns' \subseteq Nat
                   /\ pending' \in [Domains -> Nat] /\ tok' \in Nat /\ issued' \in Nat /\ calls' \in Nat
                   /\ {key', client', keys'} \subseteq Nat /\ accounts' \subseteq Nat \ {0}
<1>2. ASSUME NEW p \in Callers, Goes(p) \/ Returns(p), Kept, mu' = mu \/ At(p, "register")
      PROVE  TypeOK'
  <2>1. /\ call' \in [Callers -> Calls] /\ cleanups' \subseteq Nat \X SUBSET Nat
        /\ \A q \in Callers : At(q, "register")' => q # p /\ mu = q /\ call'[q].key # 0
      BY <1>1, <1>2, CallPart
  <2>2. At(p, "register") => mu = p
      BY <1>1 DEF TypeOK
  <2>3. \A q \in Callers : At(q, "register")' => mu' = q /\ call'[q].key # 0
      BY <1>2, <2>1, <2>2
  <2>4. QED
      BY <1>2, <2>1, <2>3 DEF TypeOK
<1>3. ASSUME NEW p \in Callers, LoadMiss(p) \/ ClientReady(p) \/ SolveChallenge(p) \/ ClearRecords(p)
             \/ AppendRecords(p)
      PROVE  TypeOK'
  <2>1. Goes(p)
      BY <1>1, <1>3, ProgressSteps
  <2>2. dns' \subseteq dns \cup call[p].toks /\ call[p].toks \subseteq Nat
      BY <1>1, <1>3 DEF LoadMiss, ClientReady, SolveChallenge, ClearRecords, AppendRecords, TypeOK, Calls
  <2>3. UNCHANGED <<acct, cache, goVars, accounts, pending, issued, tok, bounds>>
      BY <1>3 DEF LoadMiss, ClientReady, SolveChallenge, ClearRecords, AppendRecords, caVars
  <2>4. Kept /\ mu' = mu
      BY <1>1, <2>2, <2>3 DEF TypeOK, acct, goVars, bounds
  <2>5. QED
      BY <1>2, <2>1, <2>4
<1>4. ASSUME NEW p \in Callers, WaitOrder(p) \/ WaitFails(p) PROVE TypeOK'
  <2>1. Goes(p) \/ Returns(p)
      BY <1>1, <1>4, ProgressSteps, FailureSteps
  <2>2. pending' \in [Domains -> Nat]
      BY <1>1, <1>4 DEF WaitOrder, WaitFails, TypeOK
  <2>3. UNCHANGED <<acct, cache, saves, dns, accounts, issued, tok, bounds>>
      BY <1>4 DEF WaitOrder, WaitFails, goVars
  <2>4. Kept /\ mu' = mu
      BY <1>1, <2>2, <2>3 DEF TypeOK, acct, bounds
  <2>5. QED
      BY <1>2, <2>1, <2>4
<1>5. ASSUME NEW p \in Callers, KeyFails(p) \/ SolveFails(p) \/ OrderFails(p) \/ AppendFails(p)
             \/ CreateFails(p) \/ LoadHit(p) \/ Revoke(p)
      PROVE  TypeOK'
  <2>1. Revoke(p) => \E d \in Domains : call[p].req = {d}
      BY <1>1 DEF Revoke, ReqInv, At
  <2>2. Returns(p)
      BY <1>1, <1>5, <2>1, FailureSteps, ResultSteps
  <2>3. dns' \subseteq dns \cup call[p].toks /\ call[p].toks \subseteq Nat
      BY <1>1, <1>5 DEF KeyFails, SolveFails, OrderFails, AppendFails, CreateFails, LoadHit, Revoke,
         TypeOK, Calls
  <2>4. UNCHANGED <<acct, cache, saves, caVars, bounds>>
      BY <1>5 DEF KeyFails, SolveFails, OrderFails, AppendFails, CreateFails, LoadHit, Revoke
  <2>5. Kept /\ mu' = mu
      BY <1>1, <2>3, <2>4 DEF TypeOK, acct, caVars, bounds
  <2>6. QED
      BY <1>2, <2>2, <2>5
<1>6. ASSUME NEW p \in Callers, CreateCert(p) PROVE TypeOK'
  <2> DEFINE cert == [id |-> issued + 1, names |-> call[p].req]
             new  == [cert |-> cert, left |-> call[p].req]
  <2>1. cert \in Certs /\ Returns(p) /\ saves' = saves \cup {new}
      BY <1>1, <1>6, ResultSteps
  <2>2. new \in [cert : Certs, left : SUBSET Domains]
      BY <1>1, <2>1 DEF TypeOK, Calls
  <2>3. /\ issued' = issued + 1
        /\ UNCHANGED <<acct, cache, dns, accounts, pending, tok, bounds>>
      BY <1>6 DEF CreateCert
  <2> HIDE DEF new, cert
  <2>4. Kept /\ mu' = mu
      BY <1>1, <2>1, <2>2, <2>3 DEF TypeOK, acct, bounds
  <2>5. QED
      BY <1>2, <2>1, <2>4
<1>7. ASSUME NEW p \in Callers, Register(p) \/ RegisterFails(p) PROVE TypeOK'
  <2>1. Goes(p) \/ Returns(p)
      BY <1>1, <1>7, ProgressSteps, FailureSteps
  <2>2. At(p, "register") /\ call[p].key \in Nat \ {0}
      BY <1>1, <1>7 DEF Register, RegisterFails, TypeOK, Calls
  <2>3. /\ client' \in {client, call[p].key} /\ accounts' \subseteq accounts \cup {call[p].key}
        /\ UNCHANGED <<key, keys, cache, saves, dns, pending, issued, tok, bounds>>
      BY <1>7 DEF Register, RegisterFails, goVars
  <2>4. Kept
      BY <1>1, <2>2, <2>3 DEF TypeOK, bounds
  <2>5. QED
      BY <1>2, <2>1, <2>2, <2>4
<1>8. ASSUME NEW p \in Callers, AccountKey(p) PROVE TypeOK'
  <2>1. /\ call' \in [Callers -> Calls] /\ call'[p].key # 0
        /\ \A q \in Callers : q # p => call'[q] = call[q]
      BY <1>1, <1>8, AccountKeyEffect DEF TypeOK
  <2>2. mu = Nobody /\ mu' = p
      BY <1>8 DEF AccountKey, MuFree
  <2>3. \A q \in Callers : ~At(q, "register")
      BY <1>1, <2>2, CertAssumption DEF TypeOK, Nobody
  <2>4. \A q \in Callers : At(q, "register")' => mu' = q /\ call'[q].key # 0
      BY <2>1, <2>2, <2>3 DEF At
  <2>5. {key', client', keys'} \subseteq Nat
      BY <1>1, <1>8 DEF AccountKey, TypeOK
  <2>6. UNCHANGED <<cache, goVars, dns, caVars, bounds>>
      BY <1>8 DEF AccountKey
  <2>7. QED
      BY <1>1, <2>1, <2>4, <2>5, <2>6 DEF TypeOK, goVars, caVars, bounds
<1>9. ASSUME NEW p \in Callers, Order(p) PROVE TypeOK'
  <2>1. Ordered(p)
      BY <1>1, <1>9, OrderEffect
  <2>2. UNCHANGED <<acct, cache, goVars, dns, accounts, issued, bounds>>
      BY <1>9 DEF Order
  <2>3. \A q \in Callers : At(q, "register")' => mu' = q /\ call'[q].key # 0
      BY <1>1, <2>1, <2>2 DEF TypeOK, Ordered, At, acct
  <2>4. QED
      BY <1>1, <2>1, <2>2, <2>3 DEF TypeOK, Ordered, acct, goVars, bounds
<1>10. CASE SaveCert
  <2>1. saves' \subseteq [cert : Certs, left : SUBSET Domains]
      BY <1>1, <1>10, SaveEffect DEF TypeOK
  <2>2. cache' \in [Domains -> Certs]
      BY <1>1, <1>10, SaveEffect DEF TypeOK
  <2>3. UNCHANGED <<call, acct, cleanups, dns, caVars, bounds>>
      BY <1>10 DEF SaveCert
  <2>4. QED
      BY <1>1, <2>1, <2>2, <2>3 DEF TypeOK, At, acct, caVars, bounds
<1>11. CASE DeleteRecords
  <2>1. cleanups' \subseteq cleanups /\ dns' \subseteq dns
      BY <1>11 DEF DeleteRecords
  <2>2. UNCHANGED <<call, acct, cache, saves, caVars, bounds>>
      BY <1>11 DEF DeleteRecords
  <2>3. QED
      BY <1>1, <2>1, <2>2 DEF TypeOK, At, acct, caVars, bounds
<1>12. CASE Age \/ UNCHANGED vars
    BY <1>1, <1>12 DEF TypeOK, Age, vars, At, acct, goVars, caVars, bounds
<1>13. CASE Crash
  <2>1. call' \in [Callers -> Calls] /\ \A p \in Callers : call'[p].pc # "register"
      BY <1>13, IdleType DEF Crash
  <2>2. QED
      BY <1>1, <1>13, <2>1 DEF Crash, TypeOK, At, caVars
<1>14. ASSUME NEW p \in Callers, Step(p) PROVE TypeOK'
    BY <1>3, <1>4, <1>5, <1>6, <1>7, <1>8, <1>9, <1>14 DEF Step, Client, Single, Dns01, Finish
<1>15. ASSUME NEW p \in Callers, GetCertificateForDomains(p) \/ RevokeCert(p) PROVE TypeOK'
    BY <1>15, EnterType DEF TypeInv
<1>16. QED
    BY <1>10, <1>11, <1>12, <1>13, <1>14, <1>15 DEF Next

(* Types, the lock and the shape of the calls, for any number of callers,    *)
(* domains, faults and crashes.                                              *)
THEOREM CallsWellFormed == Spec => []TypeInv
<1>1. TypeInv /\ [Next]_vars => TypeInv'
    BY TypeStep, ReqStep DEF TypeInv
<1>2. QED
    BY <1>1, TypeInit, PTL DEF Spec

(* Types, and that m.mu is held by whoever registers the account.            *)
THEOREM TypeCorrect == Spec => []TypeOK
<1>1. TypeInv => TypeOK
    BY DEF TypeInv
<1>2. QED
    BY <1>1, CallsWellFormed, PTL

-----------------------------------------------------------------------------
\* The cached key is the only one in use, but for those the cache refused.
KeyInv ==
    /\ accounts \ unsaved \subseteq {key}
    /\ \A p \in Callers : At(p, "register") => call[p].key \in unsaved \cup {key}

(* Every step keeps to that key.                                             *)
LEMMA KeyStep == KeyInv /\ TypeInv /\ [Next]_vars => KeyInv'
<1> SUFFICES ASSUME KeyInv, TypeInv, [Next]_vars PROVE KeyInv'
    OBVIOUS
<1>1. TypeOK /\ ReqInv
    BY DEF TypeInv
<1>2. ASSUME NEW p \in Callers, Goes(p) \/ Returns(p),
             accounts' \subseteq accounts \cup (IF At(p, "register") THEN {call[p].key} ELSE {}),
             UNCHANGED <<key, unsaved>>
      PROVE  KeyInv'
  <2>1. ASSUME NEW q \in Callers, At(q, "register")' PROVE At(q, "register") /\ call'[q] = call[q]
      BY <1>2, <2>1 DEF Goes, Returns, At
  <2>2. QED
      BY <1>2, <2>1 DEF KeyInv
<1>3. ASSUME NEW p \in Callers, GetCertificateForDomains(p) \/ RevokeCert(p) PROVE KeyInv'
  <2>1. /\ call'[p].pc # "register" /\ UNCHANGED <<key, unsaved, accounts>>
        /\ \A q \in Callers : q # p => call'[q] = call[q]
      BY <1>3, EnterType DEF acct, caVars
  <2>2. QED
      BY <2>1 DEF KeyInv, At
<1>4. ASSUME NEW p \in Callers, AccountKey(p) PROVE KeyInv'
  <2>1. mu = Nobody /\ \A q \in Callers : ~At(q, "register")
      BY <1>1, <1>4, CertAssumption DEF AccountKey, MuFree, TypeOK, Nobody
  <2>2. /\ call'[p].key = (IF key # 0 THEN key ELSE keys + 1)
        /\ \A q \in Callers : q # p => call'[q] = call[q]
      BY <1>1, <1>4, AccountKeyEffect
  <2>3. /\ accounts' = accounts
        /\ \/ key # 0 /\ UNCHANGED <<key, unsaved>>
           \/ key = 0 /\ key' = keys + 1 /\ unsaved' = unsaved
           \/ key = 0 /\ key' = key /\ unsaved' = unsaved \cup {keys + 1}
      BY <1>4 DEF AccountKey, caVars
  <2>4. key = 0 => accounts \ unsaved = {}
      BY <1>1 DEF KeyInv, TypeOK
  <2>5. accounts' \ unsaved' \subseteq {key'}
      BY <2>3, <2>4 DEF KeyInv
  <2>6. call'[p].key \in unsaved' \cup {key'}
      BY <2>2, <2>3
  <2>7. QED
      BY <2>1, <2>2, <2>5, <2>6 DEF KeyInv, At
<1>5. ASSUME NEW p \in Callers, Order(p) PROVE KeyInv'
  <2>1. /\ call'[p].pc # "register" /\ UNCHANGED <<key, unsaved, accounts>>
        /\ \A q \in Callers : q # p => call'[q] = call[q]
      BY <1>1, <1>5, OrderEffect DEF Ordered, Order, acct
  <2>2. QED
      BY <2>1 DEF KeyInv, At
<1>6. ASSUME NEW p \in Callers, LoadHit(p) \/ CreateCert(p) \/ Revoke(p) PROVE KeyInv'
  <2>1. Revoke(p) => \E d \in Domains : call[p].req = {d}
      BY <1>1 DEF Revoke, ReqInv, At
  <2>2. Returns(p)
      BY <1>1, <1>6, <2>1, ResultSteps
  <2>3. UNCHANGED <<key, unsaved, accounts>>
      BY <1>6 DEF LoadHit, CreateCert, Revoke, acct, caVars
  <2>4. QED
      BY <1>2, <2>2, <2>3
<1>7. ASSUME NEW p \in Callers,
             LoadMiss(p) \/ ClientReady(p) \/ Register(p) \/ SolveChallenge(p) \/ ClearRecords(p)
             \/ AppendRecords(p) \/ WaitOrder(p)
      PROVE  KeyInv'
  <2>1. Goes(p)
      BY <1>1, <1>7, ProgressSteps
  <2>2. UNCHANGED <<key, unsaved>> /\
        accounts' \subseteq accounts \cup (IF At(p, "register") THEN {call[p].key} ELSE {})
      BY <1>7 DEF LoadMiss, ClientReady, Register, SolveChallenge, ClearRecords, AppendRecords,
         WaitOrder, acct, caVars
  <2>3. QED
      BY <1>2, <2>1, <2>2
<1>8. ASSUME NEW p \in Callers,
             KeyFails(p) \/ RegisterFails(p) \/ SolveFails(p) \/ OrderFails(p) \/ AppendFails(p)
             \/ WaitFails(p) \/ CreateFails(p)
      PROVE  KeyInv'
  <2>1. Returns(p)
      BY <1>1, <1>8, FailureSteps
  <2>2. UNCHANGED <<key, unsaved>> /\
        accounts' \subseteq accounts \cup (IF At(p, "register") THEN {call[p].key} ELSE {})
      BY <1>8 DEF KeyFails, RegisterFails, SolveFails, OrderFails, AppendFails, WaitFails, CreateFails,
         acct, caVars
  <2>3. QED
      BY <1>2, <2>1, <2>2
<1>9. CASE SaveCert \/ DeleteRecords \/ Age \/ UNCHANGED vars
    BY <1>9 DEF KeyInv, SaveCert, DeleteRecords, Age, vars, acct, caVars, At
<1>10. CASE Crash
  <2>1. \A p \in Callers : call'[p].pc # "register"
      BY <1>10, IdleType DEF Crash
  <2>2. QED
      BY <1>10, <2>1 DEF Crash, KeyInv, At, caVars
<1>11. ASSUME NEW p \in Callers, Step(p) PROVE KeyInv'
    BY <1>4, <1>5, <1>6, <1>7, <1>8, <1>11 DEF Step, Client, Single, Dns01, Finish
<1>12. QED
    BY <1>3, <1>9, <1>10, <1>11 DEF Next

(* Concurrent calls, failed registrations and restarts register one account  *)
(* with the CA, except for keys the cache refused.                           *)
THEOREM RegistersOnce == Spec => []OneAccount
<1>1. Init => KeyInv
    BY IdleType DEF Init, KeyInv, At
<1>2. KeyInv => OneAccount
  <2> SUFFICES ASSUME KeyInv PROVE Cardinality(accounts \ unsaved) <= 1
      BY DEF OneAccount
  <2>1. IsFiniteSet({key}) /\ Cardinality({key}) = 1
      BY FS_Singleton
  <2>2. accounts \ unsaved \in SUBSET {key}
      BY DEF KeyInv
  <2>3. Cardinality(accounts \ unsaved) <= Cardinality({key})
      BY <2>1, <2>2, FS_Subset
  <2>4. QED
      BY <2>1, <2>3
<1>3. QED
    BY <1>1, <1>2, KeyStep, CallsWellFormed, PTL DEF Spec

-----------------------------------------------------------------------------
\* What getSingleCert relies on: what is cached under a domain, and what a
\* goroutine is about to put there, is good for that domain.
GoodInv ==
    /\ ReturnsGood
    /\ \A d \in Domains : cache[d] # NoCert => Good(cache[d], {d})
    /\ \A g \in saves : g.left \subseteq g.cert.names

(* A certificate is good for the domains it names.                           *)
LEMMA NamesGood ==
    ASSUME NEW cert \in Certs, NEW req \in SUBSET cert.names PROVE Good(cert, req)
BY CertAssumption DEF Good, Certs, Domains

(* Every step keeps what is cached and returned good.                        *)
LEMMA GoodStep == GoodInv /\ TypeInv /\ [Next]_vars => GoodInv'
<1> SUFFICES ASSUME GoodInv, TypeInv, [Next]_vars PROVE GoodInv'
    OBVIOUS
<1>1. TypeOK /\ ReqInv
    BY DEF TypeInv
<1> DEFINE Fine(q) == call[q].op \in {"single", "dns"} /\ call[q].cert # NoCert =>
                        Good(call[q].cert, call[q].req)
           Stored  == /\ \A d \in Domains : cache[d] # NoCert => Good(cache[d], {d})
                      /\ \A g \in saves : g.left \subseteq g.cert.names
<1>2. (\A q \in Callers : Fine(q)) /\ Stored
    BY DEF GoodInv, ReturnsGood
<1>3. ASSUME NEW p \in Callers, \A q \in Callers : q # p => call'[q] = call[q],
             call'[p].cert = NoCert \/ Fine(p)', Stored'
      PROVE  GoodInv'
    BY <1>2, <1>3 DEF GoodInv, ReturnsGood, Good
<1>4. cache' = cache /\ saves' = saves => Stored'
    BY <1>2 DEF Good
<1> HIDE DEF Stored
<1>5. ASSUME NEW p \in Callers, GetCertificateForDomains(p) \/ RevokeCert(p) PROVE GoodInv'
    BY <1>3, <1>4, <1>5, EnterType DEF goVars
<1>6. ASSUME NEW p \in Callers, LoadHit(p) PROVE GoodInv'
  <2>1. PICK d \in call[p].req : Usable(p, cache[d]) /\ Returns(p) /\ call'[p].cert = cache[d]
      BY <1>1, <1>6, ResultSteps
  <2>2. cache' = cache /\ saves' = saves
      BY <1>6 DEF LoadHit
  <2>3. d \in Domains /\ cache[d] # NoCert /\ Good(cache[d], {d})
      BY <1>1, <1>2, <2>1 DEF Usable, TypeOK, Calls, Stored
  <2>4. CASE call[p].op = "single"
    <3>1. call[p].req = {d}
        BY <1>1, <2>1, <2>4 DEF ReqInv
    <3>2. QED
        BY <1>3, <1>4, <2>1, <2>2, <2>3, <2>4, <3>1 DEF Returns, Good
  <2>5. CASE call[p].op = "dns"
    <3>1. Good(cache[d], call[p].req)
        BY <2>1, <2>5 DEF Usable
    <3>2. QED
        BY <1>3, <1>4, <2>1, <2>2, <2>5, <3>1 DEF Returns, Good
  <2>6. CASE call[p].op \notin {"single", "dns"}
      BY <1>3, <1>4, <2>1, <2>2, <2>6 DEF Returns
  <2>7. QED
      BY <2>4, <2>5, <2>6
<1>7. ASSUME NEW p \in Callers, CreateCert(p) PROVE GoodInv'
  <2> DEFINE cert == [id |-> issued + 1, names |-> call[p].req]
             new  == [cert |-> cert, left |-> call[p].req]
  <2>1. cert \in Certs /\ Returns(p) /\ call'[p].cert = cert /\ saves' = saves \cup {new}
      BY <1>1, <1>7, ResultSteps
  <2>2. cert.names = call[p].req /\ new.cert = cert /\ new.left = call[p].req
      OBVIOUS
  <2> HIDE DEF new, cert
  <2>3. Good(cert, call[p].req)
      BY <2>1, <2>2, NamesGood
  <2>4. cache' = cache
      BY <1>7 DEF CreateCert
  <2>5. Stored'
      BY <1>2, <2>1, <2>2, <2>4 DEF Stored, Good
  <2>6. QED
      BY <1>3, <2>1, <2>3, <2>5 DEF Returns, Good
<1>8. ASSUME NEW p \in Callers, Revoke(p) PROVE GoodInv'
  <2>1. call[p].op = "revoke" /\ \E d \in Domains : call[p].req = {d}
      BY <1>1, <1>8 DEF Revoke, ReqInv, At
  <2>2. Returns(p) /\ cache' = cache /\ saves' = saves
      BY <1>1, <1>8, <2>1, ResultSteps DEF Revoke
  <2>3. QED
      BY <1>3, <1>4, <2>1, <2>2 DEF Returns
<1>9. ASSUME NEW p \in Callers,
             KeyFails(p) \/ RegisterFails(p) \/ SolveFails(p) \/ OrderFails(p) \/ AppendFails(p)
             \/ WaitFails(p) \/ CreateFails(p)
      PROVE  GoodInv'
    BY <1>1, <1>3, <1>4, <1>9, FailureSteps DEF Returns
<1>10. ASSUME NEW p \in Callers,
              /\ call'[p].op = call[p].op /\ call'[p].req = call[p].req
              /\ call'[p].cert = call[p].cert,
              \A q \in Callers : q # p => call'[q] = call[q], cache' = cache, saves' = saves
       PROVE  GoodInv'
    BY <1>2, <1>3, <1>4, <1>10 DEF Good
<1>11. ASSUME NEW p \in Callers,
              LoadMiss(p) \/ ClientReady(p) \/ Register(p) \/ SolveChallenge(p) \/ ClearRecords(p)
              \/ AppendRecords(p) \/ WaitOrder(p)
       PROVE  GoodInv'
    BY <1>1, <1>10, <1>11, ProgressSteps DEF Goes
<1>12. ASSUME NEW p \in Callers, AccountKey(p) PROVE GoodInv'
    BY <1>1, <1>10, <1>12, AccountKeyEffect DEF AccountKey, goVars
<1>13. ASSUME NEW p \in Callers, Order(p) PROVE GoodInv'
  <2>1. Ordered(p) /\ cache' = cache /\ saves' = saves
      BY <1>1, <1>13, OrderEffect DEF Order, goVars
  <2>2. QED
      BY <1>10, <2>1 DEF Ordered
<1>14. CASE SaveCert
  <2>1. \A g \in saves' : g.left \subseteq g.cert.names
      BY <1>1, <1>2, <1>14, SaveEffect DEF Stored
  <2>2. ASSUME NEW d \in Domains, cache'[d] # NoCert PROVE Good(cache'[d], {d})
    <3>1. CASE cache'[d] = cache[d]
        BY <1>2, <2>2, <3>1 DEF Stored, Good
    <3>2. CASE cache'[d] # cache[d]
      <4>1. PICK g \in saves : /\ g.cert \in Certs /\ d \in g.left /\ cache'[d] = g.cert
          BY <1>1, <1>14, <3>2, SaveEffect DEF TypeOK
      <4>2. {d} \in SUBSET g.cert.names
          BY <1>2, <4>1 DEF Stored
      <4>3. QED
          BY <4>1, <4>2, NamesGood
    <3>3. QED
        BY <3>1, <3>2
  <2>3. call' = call
      BY <1>14 DEF SaveCert
  <2>4. QED
      BY <1>2, <2>1, <2>2, <2>3 DEF GoodInv, ReturnsGood, Good
<1>15. CASE DeleteRecords \/ Age \/ UNCHANGED vars
  <2>1. call' = call /\ cache' = cache /\ saves' = saves
      BY <1>15 DEF DeleteRecords, Age, vars, goVars
  <2>2. QED
      BY <1>2, <2>1 DEF GoodInv, ReturnsGood, Good, Stored
<1>16. CASE Crash
  <2>1. cache' = cache /\ saves' = {} /\ \A p \in Callers : call'[p].cert = NoCert
      BY <1>16, IdleType DEF Crash
  <2>2. QED
      BY <1>2, <2>1 DEF GoodInv, ReturnsGood, Good, Stored
<1>17. ASSUME NEW p \in Callers, Step(p) PROVE GoodInv'
    BY <1>6, <1>7, <1>8, <1>9, <1>11, <1>12, <1>13, <1>17 DEF Step, Client, Single, Dns01, Finish
<1>18. QED
    BY <1>5, <1>14, <1>15, <1>16, <1>17 DEF Next

(* GetCertificateForDomains returns only certificates good for every domain  *)
(* asked for, from the cache or new, on both paths.                          *)
THEOREM CertificatesGood == Spec => []ReturnsGood
<1>1. Init => GoodInv
    BY IdleType DEF Init, GoodInv, ReturnsGood
<1>2. GoodInv => ReturnsGood
    BY DEF GoodInv
<1>3. QED
    BY <1>1, <1>2, GoodStep, CallsWellFormed, PTL DEF Spec

-----------------------------------------------------------------------------
\* A token somebody answers for.
Owned(x) ==
    \/ x \in orphans
    \/ \E p \in Callers : x \in call[p].toks
    \/ \E c \in cleanups : x \in c[2]

\* Before it has an order, and after it has returned, a call has no tokens.
Early == Pcs \ {"clear", "append", "wait", "create"}

OwnInv ==
    /\ \A x \in dns : Owned(x)
    /\ \A p \in Callers : call[p].pc \in Early => call[p].toks = {}

(* The kinds of steps a call takes, and what they do to the TXT records.     *)
LEMMA StepKinds ==
    ASSUME TypeInv, NEW p \in Callers, Step(p)
    PROVE  /\ \/ Goes(p) /\ (call'[p].pc \in Early => call[p].pc \in Early)
              \/ Returns(p) \/ AccountKey(p) \/ Order(p)
           /\ dns' \subseteq dns \cup call[p].toks /\ orphans' = orphans
<1>1. TypeOK /\ ReqInv
    BY DEF TypeInv
<1>2. CASE LoadHit(p) \/ CreateCert(p) \/ Revoke(p)
  <2>1. Revoke(p) => \E d \in Domains : call[p].req = {d}
      BY <1>1 DEF Revoke, ReqInv, At
  <2>2. QED
      BY <1>1, <1>2, <2>1, ResultSteps DEF LoadHit, CreateCert, Revoke
<1>3. CASE LoadMiss(p) \/ ClientReady(p) \/ Register(p)
  <2>1. call[p].pc \in Early
      BY <1>3 DEF LoadMiss, ClientReady, Register, At, Early, Pcs
  <2>2. QED
      BY <1>1, <1>3, <2>1, ProgressSteps DEF LoadMiss, ClientReady, Register
<1>4. CASE SolveChallenge(p) \/ ClearRecords(p) \/ AppendRecords(p) \/ WaitOrder(p)
  <2>1. call'[p].pc \notin Early
      BY <1>1, <1>4 DEF SolveChallenge, ClearRecords, AppendRecords, WaitOrder, Go, Early, TypeOK, Calls
  <2>2. dns' \subseteq dns \cup call[p].toks /\ orphans' = orphans
      BY <1>4 DEF SolveChallenge, ClearRecords, AppendRecords, WaitOrder
  <2>3. QED
      BY <1>1, <1>4, <2>1, <2>2, ProgressSteps
<1>5. CASE KeyFails(p) \/ RegisterFails(p) \/ SolveFails(p) \/ OrderFails(p) \/ AppendFails(p)
           \/ WaitFails(p) \/ CreateFails(p)
  <2>1. dns' \subseteq dns \cup call[p].toks /\ orphans' = orphans
      BY <1>5 DEF KeyFails, RegisterFails, SolveFails, OrderFails, AppendFails, WaitFails, CreateFails
  <2>2. QED
      BY <1>1, <1>5, <2>1, FailureSteps
<1>6. CASE AccountKey(p) \/ Order(p)
    BY <1>6 DEF AccountKey, Order
<1>7. QED
    BY <1>2, <1>3, <1>4, <1>5, <1>6 DEF Step, Client, Single, Dns01, Finish

(* No step loses track of a record.                                          *)
LEMMA OwnStep == OwnInv /\ TypeInv /\ [Next]_vars => OwnInv'
<1> SUFFICES ASSUME OwnInv, TypeInv, [Next]_vars PROVE OwnInv'
    OBVIOUS
<1>1. TypeOK
    BY DEF TypeInv
<1>2. ASSUME NEW p \in Callers, GetCertificateForDomains(p) \/ RevokeCert(p) PROVE OwnInv'
  <2>1. /\ call'[p].toks = {} /\ UNCHANGED <<dns, cleanups, orphans>>
        /\ \A q \in Callers : q # p => call'[q] = call[q]
      BY <1>2, EnterType DEF goVars
  <2>2. call[p].pc = "idle"
      BY <1>2 DEF GetCertificateForDomains, RevokeCert, Enter, At
  <2>3. call[p].toks = {}
      BY <2>2 DEF OwnInv, Early, Pcs
  <2>4. QED
      BY <2>1, <2>3 DEF OwnInv, Owned
<1>3. ASSUME NEW p \in Callers, Step(p) PROVE OwnInv'
  <2>1. dns' \subseteq dns \cup call[p].toks /\ orphans' = orphans
      BY <1>3, StepKinds
  <2>2. CASE Goes(p) /\ (call'[p].pc \in Early => call[p].pc \in Early)
      BY <2>1, <2>2 DEF Goes, OwnInv, Owned
  <2>3. CASE Returns(p)
    <3>1. ASSUME NEW x \in call[p].toks PROVE \E c \in cleanups' : x \in c[2]
      <4> DEFINE c == <<call[p].n, call[p].toks>>
      <4>1. c \in cleanups' /\ c[2] = call[p].toks
          BY <2>3, <3>1 DEF Returns
      <4>2. QED
          BY <3>1, <4>1
    <3>2. cleanups \subseteq cleanups'
        BY <2>3 DEF Returns
    <3>3. \A x \in dns' : Owned(x)'
        BY <2>1, <2>3, <3>1, <3>2 DEF OwnInv, Owned, Returns
    <3>4. QED
        BY <2>3, <3>3 DEF OwnInv, Returns
  <2>4. CASE AccountKey(p)
    <3>1. call[p].pc \in Early /\ cleanups' = cleanups
        BY <2>4 DEF AccountKey, At, Early, Pcs, goVars
    <3>2. call'[p].toks = call[p].toks /\ \A q \in Callers : q # p => call'[q] = call[q]
        BY <1>1, <2>4, AccountKeyEffect
    <3>3. QED
        BY <2>1, <3>1, <3>2 DEF OwnInv, Owned
  <2>5. CASE Order(p)
    <3>1. call[p].toks = {} /\ cleanups' = cleanups
        BY <2>5 DEF Order, OwnInv, At, Early, Pcs, goVars
    <3>2. call'[p].pc \notin Early /\ \A q \in Callers : q # p => call'[q] = call[q]
        BY <1>1, <2>5, OrderEffect DEF Ordered, Early
    <3>3. QED
        BY <2>1, <3>1, <3>2 DEF OwnInv, Owned
  <2>6. QED
      BY <1>3, <2>2, <2>3, <2>4, <2>5, StepKinds
<1>4. CASE DeleteRecords
  <2>1. PICK c \in cleanups :
          /\ cleanups' = cleanups \ {c}
          /\ \/ dns' = dns \ c[2] /\ orphans' = orphans
             \/ dns' = dns /\ orphans' = orphans \cup c[2]
      BY <1>4 DEF DeleteRecords
  <2>2. call' = call
      BY <1>4 DEF DeleteRecords
  <2>3. ASSUME NEW x \in dns' PROVE Owned(x)'
    <3>1. Owned(x)
        BY <2>1, <2>3 DEF OwnInv
    <3>2. x \in c[2] => x \in orphans'
        BY <2>1, <2>3
    <3>3. QED
        BY <2>1, <2>2, <3>1, <3>2 DEF Owned
  <2>4. QED
      BY <2>2, <2>3 DEF OwnInv
<1>5. CASE SaveCert \/ Age \/ UNCHANGED vars
    BY <1>5 DEF SaveCert, Age, vars, goVars, OwnInv, Owned
<1>6. CASE Crash
  <2>1. dns' = dns /\ orphans' = orphans \cup dns /\ \A p \in Callers : call'[p].toks = {}
      BY <1>6, IdleType DEF Crash
  <2>2. QED
      BY <2>1 DEF OwnInv, Owned
<1>7. QED
    BY <1>2, <1>3, <1>4, <1>5, <1>6 DEF Next

(* No TXT record is left without a call or a deletion that will remove it,   *)
(* other than by a crash or a deletion that failed.                          *)
THEOREM NoStrayRecords == Spec => []RecordsAccounted
<1>1. Init => OwnInv
    BY IdleType DEF Init, OwnInv
<1>2. OwnInv => RecordsAccounted
    BY DEF OwnInv, Owned, RecordsAccounted
<1>3. QED
    BY <1>1, <1>2, OwnStep, CallsWellFormed, PTL DEF Spec

-----------------------------------------------------------------------------
\* Tokens are drawn from 0 .. tok, and no two calls, nor a call and a deletion,
\* have one in common that the CA did not hand out twice.
PlaceInv ==
    /\ RecordsInPlace
    /\ \A p \in Callers : call[p].toks \subseteq 0 .. tok
    /\ \A c \in cleanups : c[2] \subseteq 0 .. tok
    /\ shared \subseteq 0 .. tok /\ \A d \in Domains : pending[d] \in 0 .. tok
    /\ \A p, q \in Callers : p # q => call[p].toks \cap call[q].toks \subseteq shared
    /\ \A p \in Callers, c \in cleanups : call[p].toks \cap c[2] \subseteq shared

(* No step takes away the records another call waits with.                   *)
LEMMA PlaceStep == PlaceInv /\ TypeInv /\ [Next]_vars => PlaceInv'
<1> SUFFICES ASSUME PlaceInv, TypeInv, [Next]_vars PROVE PlaceInv'
    OBVIOUS
<1>1. TypeOK
    BY DEF TypeInv
<1> USE DEF PlaceInv, RecordsInPlace, At
<1>2. ASSUME NEW p \in Callers, GetCertificateForDomains(p) \/ RevokeCert(p) PROVE PlaceInv'
  <2>1. /\ call'[p].toks = {} /\ UNCHANGED <<dns, cleanups, pending, tok, shared>>
        /\ \A q \in Callers : q # p => call'[q] = call[q]
      BY <1>2, EnterType DEF goVars, caVars
  <2>2. QED
      BY <2>1
<1>3. ASSUME NEW p \in Callers, Returns(p), dns \subseteq dns', UNCHANGED <<tok, shared>>,
             \A d \in Domains : pending'[d] \in {0, pending[d]}
      PROVE  PlaceInv'
  <2>1. call'[p].toks = {} /\ \A q \in Callers : q # p => call'[q] = call[q]
      BY <1>3 DEF Returns
  <2>2. \A c \in cleanups' : c \in cleanups \/ c[2] = call[p].toks
      BY <1>3 DEF Returns
  <2>3. \A d \in Domains : pending'[d] \in 0 .. tok'
      BY <1>1, <1>3 DEF TypeOK
  <2>4. \A c \in cleanups' : c[2] \subseteq 0 .. tok'
      BY <1>3, <2>2
  <2>5. \A q \in Callers, c \in cleanups' : call'[q].toks \cap c[2] \subseteq shared'
      BY <1>3, <2>1, <2>2
  <2>6. RecordsInPlace'
      BY <1>3, <2>1
  <2>7. QED
      BY <1>3, <2>1, <2>3, <2>4, <2>5, <2>6
<1>4. ASSUME NEW p \in Callers, Goes(p), UNCHANGED <<tok, shared>>,
             \A d \in Domains : pending'[d] \in {0, pending[d]},
             dns \ call[p].toks \subseteq dns', call'[p].pc = "wait" => call[p].toks \subseteq dns'
      PROVE  PlaceInv'
  <2>1. cleanups' = cleanups /\ \A q \in Callers : call'[q].toks = call[q].toks
      BY <1>4 DEF Goes
  <2>2. \A d \in Domains : pending'[d] \in 0 .. tok'
      BY <1>1, <1>4 DEF TypeOK
  <2>3. ASSUME NEW q \in Callers, q # p, At(q, "wait")' PROVE call'[q].toks \subseteq dns' \cup shared'
    <3>1. call'[q] = call[q] /\ call[q].toks \subseteq dns \cup shared
        BY <1>4, <2>3 DEF Goes
    <3>2. QED
        BY <1>4, <2>3, <3>1
  <2>4. RecordsInPlace'
      BY <1>4, <2>1, <2>3
  <2>5. QED
      BY <1>4, <2>1, <2>2, <2>4
<1>5. ASSUME NEW p \in Callers, LoadHit(p) \/ CreateCert(p) \/ Revoke(p) PROVE PlaceInv'
  <2>1. Revoke(p) => \E d \in Domains : call[p].req = {d}
      BY DEF Revoke, TypeInv, ReqInv
  <2>2. Returns(p)
      BY <1>1, <1>5, <2>1, ResultSteps
  <2>3. UNCHANGED <<dns, pending, tok, shared>>
      BY <1>5 DEF LoadHit, CreateCert, Revoke, caVars
  <2>4. QED
      BY <1>3, <2>2, <2>3
<1>6. ASSUME NEW p \in Callers,
             KeyFails(p) \/ RegisterFails(p) \/ SolveFails(p) \/ OrderFails(p) \/ AppendFails(p)
             \/ WaitFails(p) \/ CreateFails(p)
      PROVE  PlaceInv'
  <2>1. Returns(p)
      BY <1>1, <1>6, FailureSteps
  <2>2. dns \subseteq dns' /\ UNCHANGED <<tok, shared>>
      BY <1>6 DEF KeyFails, RegisterFails, SolveFails, OrderFails, AppendFails, WaitFails, CreateFails,
         caVars
  <2>3. \A d \in Domains : pending'[d] \in {0, pending[d]}
      BY <1>6 DEF KeyFails, RegisterFails, SolveFails, OrderFails, AppendFails, WaitFails, CreateFails,
         caVars
  <2>4. QED
      BY <1>3, <2>1, <2>2, <2>3
<1>7. ASSUME NEW p \in Callers,
             LoadMiss(p) \/ ClientReady(p) \/ Register(p) \/ SolveChallenge(p) \/ ClearRecords(p)
             \/ AppendRecords(p) \/ WaitOrder(p)
      PROVE  PlaceInv'
  <2>1. Goes(p)
      BY <1>1, <1>7, ProgressSteps
  <2>2. /\ UNCHANGED <<tok, shared>> /\ dns \ call[p].toks \subseteq dns'
        /\ AppendRecords(p) => call[p].toks \subseteq dns'
      BY <1>7 DEF LoadMiss, ClientReady, Register, SolveChallenge, ClearRecords, AppendRecords,
         WaitOrder, caVars
  <2>3. \A d \in Domains : pending'[d] \in {0, pending[d]}
      BY <1>7 DEF LoadMiss, ClientReady, Register, SolveChallenge, ClearRecords, AppendRecords,
         WaitOrder, caVars
  <2>4. ~AppendRecords(p) => call'[p].pc # "wait"
    <3>1. AfterClient(p) # "wait" /\ call \in [Callers -> Calls]
        BY <1>1 DEF AfterClient, TypeOK
    <3>2. QED
        BY <1>7, <3>1 DEF LoadMiss, ClientReady, Register, SolveChallenge, ClearRecords, WaitOrder, Go,
           Calls
  <2>5. QED
      BY <1>4, <2>1, <2>2, <2>3, <2>4
<1>8. ASSUME NEW p \in Callers, AccountKey(p) PROVE PlaceInv'
  <2>1. /\ call'[p].pc # "wait" /\ call'[p].toks = call[p].toks
        /\ \A q \in Callers : q # p => call'[q] = call[q]
      BY <1>1, <1>8, AccountKeyEffect
  <2>2. UNCHANGED <<dns, cleanups, pending, tok, shared>>
      BY <1>8 DEF AccountKey, goVars, caVars
  <2>3. QED
      BY <2>1, <2>2
<1>9. ASSUME NEW p \in Callers, Order(p) PROVE PlaceInv'
  <2>1. Ordered(p)
      BY <1>1, <1>9, OrderEffect
  <2>2. UNCHANGED <<dns, cleanups>>
      BY <1>9 DEF Order, goVars
  <2>3. tok \in Nat /\ tok' \in Nat /\ tok' >= tok
      BY <1>1, <2>1 DEF TypeOK, Ordered
  <2>4. /\ \A q \in Callers : q # p => call'[q] = call[q] /\ call'[q].toks \subseteq 0 .. tok
        /\ shared \subseteq shared' /\ call'[p].pc = "clear"
      BY <2>1 DEF Ordered
  <2>5. \A x \in call'[p].toks : x \in 0 .. tok => x \in shared'
      BY <2>1, <2>3 DEF Ordered
  <2>6. ASSUME NEW d \in Domains PROVE pending'[d] \in 0 .. tok'
    <3>1. pending[d] \in 0 .. tok
        OBVIOUS
    <3>2. QED
        BY <2>1, <2>3, <3>1 DEF Ordered
  <2>7. shared' \subseteq 0 .. tok'
      BY <2>1, <2>3 DEF Ordered
  <2>8. ASSUME NEW x \in call'[p].toks PROVE x \in 0 .. tok'
    <3>1. CASE x \in tok + 1 .. tok'
        BY <2>3, <3>1
    <3>2. CASE x \in shared'
        BY <2>7, <3>2
    <3>3. QED
        BY <2>1, <2>8, <3>1, <3>2 DEF Ordered
  <2>9. RecordsInPlace'
      BY <2>2, <2>4
  <2>10. \A q \in Callers : q # p => call'[p].toks \cap call'[q].toks \subseteq shared'
      BY <2>4, <2>5
  <2>11. \A c \in cleanups' : call'[p].toks \cap c[2] \subseteq shared'
      BY <2>2, <2>5
  <2>12. \A q \in Callers : call'[q].toks \subseteq 0 .. tok'
      BY <2>3, <2>4, <2>8
  <2>13. \A c \in cleanups' : c[2] \subseteq 0 .. tok'
      BY <2>2, <2>3
  <2>14. QED
      BY <2>2, <2>4, <2>6, <2>7, <2>9, <2>10, <2>11, <2>12, <2>13
<1>10. CASE DeleteRecords
  <2>1. PICK c \in cleanups : cleanups' = cleanups \ {c} /\ (dns' = dns \ c[2] \/ dns' = dns)
      BY <1>10 DEF DeleteRecords
  <2>2. UNCHANGED <<call, pending, tok, shared>>
      BY <1>10 DEF DeleteRecords, caVars
  <2>3. RecordsInPlace'
      BY <2>1, <2>2
  <2>4. QED
      BY <2>1, <2>2, <2>3
<1>11. CASE SaveCert \/ Age \/ UNCHANGED vars
  <2>1. UNCHANGED <<call, cleanups, dns, pending, tok, shared>>
      BY <1>11 DEF SaveCert, Age, vars, goVars, caVars
  <2>2. QED
      BY <2>1
<1>12. CASE Crash
  <2>1. /\ cleanups' = {} /\ UNCHANGED <<pending, tok, shared>>
        /\ \A p \in Callers : call'[p].toks = {} /\ call'[p].pc = "idle"
      BY <1>12, IdleType DEF Crash, caVars
  <2>2. QED
      BY <2>1
<1>13. ASSUME NEW p \in Callers, Step(p) PROVE PlaceInv'
    BY <1>5, <1>6, <1>7, <1>8, <1>9, <1>13 DEF Step, Client, Single, Dns01, Finish
<1>14. QED
    BY <1>2, <1>10, <1>11, <1>12, <1>13 DEF Next

(* The records of a call that waits for the CA are in place: no other call   *)
(* and no late deletion removes them, unless the CA gave out the challenge   *)
(* twice.                                                                    *)
THEOREM RecordsStay == Spec => []RecordsInPlace
<1>1. Init => PlaceInv
    BY IdleType DEF Init, PlaceInv, RecordsInPlace, At
<1>2. PlaceInv => RecordsInPlace
    BY DEF PlaceInv
<1>3. QED
    BY <1>1, <1>2, PlaceStep, CallsWellFormed, PTL DEF Spec
=============================================================================
