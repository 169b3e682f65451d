---------------------------- MODULE CertManager -----------------------------
(***************************************************************************)
(* Package certify (src/certify): GetCertificateForDomains with its two     *)
(* paths, getSingleCert and getCertDNS01, and RevokeCert, called from       *)
(* several goroutines, over a certificate cache, one ACME account and the   *)
(* TXT records of a DNS provider.  Saving a certificate and deleting the    *)
(* records happen in goroutines nobody waits for; any call to the CA, the   *)
(* provider or the cache may fail, and the process may crash.               *)
(*                                                                          *)
(* A cache and a DNS provider are configured, and the domains lie in one    *)
(* zone, so that each loop over zoneRecords has one turn.                   *)
(***************************************************************************)
EXTENDS Naturals, FiniteSets

CONSTANTS
    Callers,    \* goroutines that call the manager
    Requests,   \* the domain lists they ask for, as sets
    Wild,       \* Wild[d]: the names a certificate for d is good for
    Reuse,      \* the CA hands out a pending authorization again
    MaxCalls,   \* bound: calls
    MaxTok,     \* bound: challenges the CA makes up
    MaxFault,   \* bound: calls to others that fail
    MaxCrash    \* bound: crashes

ASSUME CertAssumption ==
    /\ \A r \in Requests : r # {} /\ r \subseteq DOMAIN Wild
    /\ \A d \in DOMAIN Wild : d \in Wild[d] /\ Wild[d] \subseteq DOMAIN Wild
    /\ IsFiniteSet(DOMAIN Wild) /\ "nobody" \notin Callers
    /\ Reuse \in BOOLEAN /\ {MaxCalls, MaxTok, MaxFault, MaxCrash} \subseteq Nat

Domains == DOMAIN Wild
NoCert  == [id |-> 0, names |-> {}]
Nobody  == "nobody"

VARIABLES
    call,     \* per caller: pc, op ("single", "dns", "revoke"), req (the domains), key,
              \*   toks (tokens of its TXT records), cert (its result), n
    mu,       \* holder of m.mu
    client,   \* m.client: the account key it uses, 0 for nil
    key,      \* account.key in the cache, 0 if missing
    cache,    \* per domain: the certificate cached as domain.crt
    saves,    \* saveCert goroutines: the certificate and the domains left
    cleanups, \* DeleteRecords goroutines of getCertDNS01: call number and tokens
    dns,      \* tokens in the provider's TXT records
    accounts, \* keys registered with the CA
    pending,  \* per domain: the token of its pending authorization, 0 for none
    valid,    \* domains with a valid authorization
    due,      \* certificates with less than 30 days left
    issued,   \* certificates issued: 1 .. issued
    keys,     \* account keys generated: 1 .. keys
    tok,      \* tokens made up: 1 .. tok
    calls, faults, crashes,
    unsaved,  \* history: account keys the cache refused
    shared,   \* history: tokens given to more than one call
    orphans   \* history: tokens whose removal failed or was cut off by a crash

caVars  == <<accounts, pending, shared, valid, due, issued, tok>>
goVars  == <<saves, cleanups>>
bounds  == <<calls, crashes>>
acct    == <<mu, client, key, keys, unsaved>>
vars    == <<call, acct, cache, goVars, dns, caVars, bounds, faults, orphans>>

Idle == [pc |-> "idle", op |-> "none", req |-> {}, key |-> 0, toks |-> {}, cert |-> NoCert,
         n |-> 0]

Init ==
    /\ call = [p \in Callers |-> Idle]
    /\ mu = Nobody /\ client = 0 /\ key = 0 /\ keys = 0 /\ unsaved = {}
    /\ cache = [d \in Domains |-> NoCert] /\ saves = {} /\ cleanups = {} /\ dns = {}
    /\ accounts = {} /\ pending = [d \in Domains |-> 0] /\ valid = {} /\ due = {}
    /\ issued = 0 /\ tok = 0 /\ calls = 0 /\ faults = 0 /\ crashes = 0 /\ orphans = {} /\ shared = {}

At(p, s) == call[p].pc = s
Go(p, s) == call' = [call EXCEPT ![p].pc = s]
Fault    == faults < MaxFault /\ faults' = faults + 1

\* certContainsAll: VerifyHostname for every domain.
Good(cert, req) == req \subseteq UNION {Wild[d] : d \in cert.names}

\* A slip: the records are deleted only when the certificate was obtained.
ReturnKeeping(p, cert) ==
    /\ call' = [call EXCEPT ![p].pc = "idle", ![p].toks = {}, ![p].cert = cert]
    /\ cleanups' = IF call[p].toks = {} \/ cert = NoCert THEN cleanups
                   ELSE cleanups \cup {<<call[p].n, call[p].toks>>}

\* A call returns; the deferred function of getCertDNS01 starts the deletion.
Return(p, cert) ==
    /\ call' = [call EXCEPT ![p].pc = "idle", ![p].toks = {}, ![p].cert = cert]
    /\ cleanups' = IF call[p].toks = {} THEN cleanups
                   ELSE cleanups \cup {<<call[p].n, call[p].toks>>}

Err(p) == Return(p, NoCert)

-----------------------------------------------------------------------------
(* Entering, and the cache.                                                  *)

\* GetCertificateForDomains: a wildcard or several domains take DNS-01.
Op(req) == IF Cardinality(req) = 1 /\ \A d \in req : Wild[d] = {d} THEN "single" ELSE "dns"

Enter(p, s, op, req) ==
    /\ At(p, "idle") /\ calls < MaxCalls /\ calls' = calls + 1
    /\ call' = [call EXCEPT ![p] = [Idle EXCEPT !.pc = s, !.op = op, !.req = req, !.n = calls + 1]]
    /\ UNCHANGED <<acct, cache, goVars, dns, caVars, crashes, faults, orphans>>

GetCertificateForDomains(p) == \E r \in Requests : Enter(p, "load", Op(r), r)
RevokeCert(p)               == \E d \in Domains : Enter(p, "client", "revoke", {d})

\* A slip: any unexpired certificate of one of the domains will do.
UsableAny(p, cert) == cert # NoCert /\ cert.id \notin due

\* What a cached certificate must be: not expired, and for DNS-01 good for all.
Usable(p, cert) ==
    /\ cert # NoCert /\ cert.id \notin due
    /\ call[p].op = "dns" => Good(cert, call[p].req)

\* A cached certificate is returned.
LoadHit(p) ==
    /\ At(p, "load")
    /\ \E d \in call[p].req : Usable(p, cache[d]) /\ Return(p, cache[d])
    /\ UNCHANGED <<acct, cache, saves, dns, caVars, bounds, faults, orphans>>

\* None is usable, or the cache cannot be read.
LoadMiss(p) ==
    /\ At(p, "load")
    /\ \/ (\A d \in call[p].req : ~Usable(p, cache[d])) /\ UNCHANGED faults
       \/ Fault
    /\ Go(p, "client")
    /\ UNCHANGED <<acct, cache, goVars, dns, caVars, bounds, orphans>>

-----------------------------------------------------------------------------
(* getClient, under m.mu.                                                    *)

AfterClient(p) ==
    CASE call[p].op = "single" -> "authz" [] call[p].op = "dns" -> "order" [] OTHER -> "revoke"

ClientReady(p) ==
    /\ At(p, "client") /\ mu = Nobody /\ client # 0
    /\ Go(p, AfterClient(p))
    /\ UNCHANGED <<acct, cache, goVars, dns, caVars, bounds, faults, orphans>>

MuFree == mu = Nobody

\* A slip: the new key is not put into the cache.
AccountKeyUnsaved(p) ==
    /\ At(p, "client") /\ MuFree /\ client = 0 /\ mu' = p
    /\ keys' = IF key # 0 THEN keys ELSE keys + 1
    /\ call' = [call EXCEPT ![p].pc = "register", ![p].key = IF key # 0 THEN key ELSE keys + 1]
    /\ UNCHANGED <<key, unsaved, faults, client, cache, goVars, dns, caVars, bounds, orphans>>

\* accountKey: the cached key, or a new one whose Put may fail unnoticed.
AccountKey(p) ==
    /\ At(p, "client") /\ MuFree /\ client = 0 /\ mu' = p
    /\ \/ key # 0 /\ UNCHANGED <<key, keys, unsaved, faults>>
       \/ key = 0 /\ keys' = keys + 1 /\ key' = keys + 1 /\ UNCHANGED <<unsaved, faults>>
       \/ key = 0 /\ keys' = keys + 1 /\ Fault /\ unsaved' = unsaved \cup {keys + 1} /\ UNCHANGED key
    /\ call' = [call EXCEPT ![p].pc = "register", ![p].key = IF key # 0 THEN key ELSE keys + 1]
    /\ UNCHANGED <<client, cache, goVars, dns, caVars, bounds, orphans>>

\* Register succeeds, or the account is there already.
Register(p) ==
    /\ At(p, "register")
    /\ accounts' = accounts \cup {call[p].key} /\ client' = call[p].key /\ mu' = Nobody
    /\ Go(p, AfterClient(p))
    /\ UNCHANGED <<key, keys, unsaved, cache, goVars, dns, pending, shared, valid, due, issued, tok, bounds,
                   faults, orphans>>

\* A slip: m.mu stays locked when the registration fails.
RegisterFailsLocked(p) ==
    /\ At(p, "register") /\ Fault
    /\ Err(p)
    /\ UNCHANGED <<acct, cache, saves, dns, caVars, bounds, orphans>>

\* Register fails, perhaps with the account made; the unlock is deferred.
RegisterFails(p) ==
    /\ At(p, "register") /\ Fault /\ mu' = Nobody
    /\ accounts' \in {accounts, accounts \cup {call[p].key}}
    /\ Err(p)
    /\ UNCHANGED <<client, key, keys, unsaved, cache, saves, dns, pending, shared, valid, due, issued, tok,
                   bounds, orphans>>

\* The cached account key cannot be read.
KeyFails(p) ==
    /\ At(p, "client") /\ mu = Nobody /\ client = 0 /\ Fault
    /\ Err(p)
    /\ UNCHANGED <<acct, cache, saves, dns, caVars, bounds, orphans>>

-----------------------------------------------------------------------------
(* getSingleCert: Authorize, solveChallenge, createCertFromAuthz.            *)

\* A valid authorization needs no challenge; a pending one is accepted and
\* awaited, and is valid or not in the end.
SolveChallenge(p) ==
    /\ At(p, "authz")
    /\ valid' = valid \cup call[p].req
    /\ Go(p, "create")
    /\ UNCHANGED <<acct, cache, goVars, dns, accounts, pending, shared, due, issued, tok, bounds, faults, orphans>>

SolveFails(p) ==
    /\ At(p, "authz") /\ Fault
    /\ Err(p)
    /\ UNCHANGED <<acct, cache, saves, dns, caVars, bounds, orphans>>

-----------------------------------------------------------------------------
(* getCertDNS01.                                                             *)

\* AuthorizeOrder and the loop over its authorizations: a token for every
\* domain whose authorization is pending.
Order(p) ==
    /\ At(p, "order")
    /\ LET open == call[p].req \ valid
           new  == {d \in open : ~Reuse \/ pending[d] = 0}
           f    == CHOOSE f \in [new -> tok + 1 .. tok + Cardinality(new)] :
                     \A d, e \in new : f[d] = f[e] => d = e
       IN  /\ tok + Cardinality(new) <= MaxTok /\ tok' = tok + Cardinality(new)
           /\ pending' = [d \in Domains |-> IF d \in new THEN f[d] ELSE pending[d]]
           /\ shared' = shared \cup {pending[d] : d \in open \ new}
           /\ call' = [call EXCEPT ![p].pc = "clear", ![p].toks = {pending'[d] : d \in open}]
    /\ UNCHANGED <<acct, cache, goVars, dns, accounts, valid, due, issued, bounds, faults, orphans>>

\* The order, an authorization or its dns-01 challenge cannot be had: nothing
\* is registered for deletion yet.
OrderFails(p) ==
    /\ At(p, "order") /\ Fault /\ Err(p)
    /\ UNCHANGED <<acct, cache, saves, dns, caVars, bounds, orphans>>

\* DeleteRecords before adding; its error is ignored.
ClearRecords(p) ==
    /\ At(p, "clear") /\ Go(p, "append")
    /\ dns' \in {dns \ call[p].toks, dns}
    /\ UNCHANGED <<acct, cache, goVars, caVars, bounds, faults, orphans>>

AppendRecords(p) ==
    /\ At(p, "append") /\ Go(p, "wait")
    /\ dns' = dns \cup call[p].toks
    /\ UNCHANGED <<acct, cache, goVars, caVars, bounds, faults, orphans>>

\* Some of the records may have been added.
AppendFails(p) ==
    /\ At(p, "append") /\ Fault
    /\ \E t \in SUBSET call[p].toks : dns' = dns \cup t
    /\ Err(p)
    /\ UNCHANGED <<acct, cache, saves, caVars, bounds, orphans>>

\* Accept and WaitOrder: the CA looks up the records and finds them.
WaitOrder(p) ==
    /\ At(p, "wait") /\ call[p].toks \subseteq dns
    /\ valid' = valid \cup call[p].req
    /\ pending' = [d \in Domains |-> IF pending[d] \in call[p].toks THEN 0 ELSE pending[d]]
    /\ Go(p, "create")
    /\ UNCHANGED <<acct, cache, goVars, dns, accounts, shared, due, issued, tok, bounds, faults, orphans>>

\* An accept fails, the wait times out, or the CA misses a record, which
\* invalidates the authorizations.
WaitFails(p) ==
    /\ At(p, "wait")
    /\ \/ Fault /\ UNCHANGED pending
       \/ /\ ~(call[p].toks \subseteq dns) /\ UNCHANGED faults
          /\ pending' = [d \in Domains |-> IF pending[d] \in call[p].toks THEN 0 ELSE pending[d]]
    /\ Err(p)
    /\ UNCHANGED <<acct, cache, saves, dns, accounts, shared, valid, due, issued, tok, bounds, orphans>>

-----------------------------------------------------------------------------
(* createCert, saveCert, RevokeCert and the deletions.                       *)

\* The certificate is issued for the domains, saved later, and returned.
CreateCert(p) ==
    /\ At(p, "create") /\ issued' = issued + 1
    /\ LET cert == [id |-> issued + 1, names |-> call[p].req] IN
         /\ saves' = saves \cup {[cert |-> cert, left |-> call[p].req]}
         /\ Return(p, cert)
    /\ UNCHANGED <<acct, cache, dns, accounts, pending, shared, valid, due, tok, bounds, faults, orphans>>

CreateFails(p) ==
    /\ At(p, "create") /\ Fault
    /\ Err(p)
    /\ UNCHANGED <<acct, cache, saves, dns, caVars, bounds, orphans>>

\* RevokeCert reads the cache and revokes; the certificate stays cached.
Revoke(p) ==
    /\ At(p, "revoke")
    /\ LET d == CHOOSE d \in Domains : call[p].req = {d} IN Return(p, cache[d])
    /\ UNCHANGED <<acct, cache, saves, dns, caVars, bounds, faults, orphans>>

\* saveCert: Put under the next of the domains; a Put that fails is ignored.
SaveCert ==
    \E g \in saves : \E d \in g.left :
        /\ \/ cache' = [cache EXCEPT ![d] = g.cert] /\ UNCHANGED faults
           \/ Fault /\ UNCHANGED cache
        /\ saves' = (saves \ {g}) \cup
                    (IF g.left = {d} THEN {} ELSE {[g EXCEPT !.left = @ \ {d}]})
        /\ UNCHANGED <<call, acct, cleanups, dns, caVars, bounds, orphans>>

\* A slip: all records of the name are deleted, whatever their value.
DeleteRecordsByName ==
    \E c \in cleanups :
        /\ cleanups' = cleanups \ {c} /\ dns' = {}
        /\ UNCHANGED <<call, acct, cache, saves, caVars, bounds, faults, orphans>>

\* The goroutine of a call's deferred function; an error is ignored.
DeleteRecords ==
    \E c \in cleanups :
        /\ cleanups' = cleanups \ {c}
        /\ \/ dns' = dns \ c[2] /\ UNCHANGED <<faults, orphans>>
           \/ Fault /\ orphans' = orphans \cup c[2] /\ UNCHANGED dns
        /\ UNCHANGED <<call, acct, cache, saves, caVars, bounds>>

-----------------------------------------------------------------------------
\* A certificate comes within 30 days of its end.
Age ==
    /\ \E i \in 1 .. issued : i \notin due /\ due' = due \cup {i}
    /\ UNCHANGED <<call, acct, cache, goVars, dns, accounts, pending, shared, valid, issued, tok, bounds,
                   faults, orphans>>

\* The process dies: the cache, the CA and the provider keep what they have.
Crash ==
    /\ crashes < MaxCrash /\ crashes' = crashes + 1
    /\ call' = [p \in Callers |-> Idle] /\ mu' = Nobody /\ client' = 0
    /\ saves' = {} /\ cleanups' = {} /\ orphans' = orphans \cup dns
    /\ UNCHANGED <<key, keys, unsaved, cache, dns, caVars, calls, faults>>

Client(p) == ClientReady(p) \/ AccountKey(p) \/ Register(p) \/ RegisterFails(p) \/ KeyFails(p)
Single(p) == SolveChallenge(p) \/ SolveFails(p)
Dns01(p)  == \/ Order(p) \/ OrderFails(p) \/ ClearRecords(p) \/ AppendRecords(p) \/ AppendFails(p)
             \/ WaitOrder(p) \/ WaitFails(p)
Finish(p) == CreateCert(p) \/ CreateFails(p) \/ Revoke(p)
Step(p)   == LoadHit(p) \/ LoadMiss(p) \/ Client(p) \/ Single(p) \/ Dns01(p) \/ Finish(p)

Next ==
    \/ \E p \in Callers : GetCertificateForDomains(p) \/ RevokeCert(p) \/ Step(p)
    \/ SaveCert \/ DeleteRecords \/ Age \/ Crash

Spec == Init /\ [][Next]_vars

\* RevokeCert waits for the CA: with the context of its caller, which need have
\* no deadline, it registers the account under m.mu or revokes.
RevokeWaits(p) == call[p].op = "revoke" /\ call[p].pc \in {"register", "revoke"}

(* getSingleCert and getCertDNS01 give their requests 5 and 10 minutes, so   *)
(* their steps end; the cache is taken to answer, and m.mu to be had once it *)
(* stays free.  Nothing makes the CA answer a RevokeCert, and Lock at        *)
(* cert.go:19 looks at no context.                                           *)
FairSpec == Spec /\ \A p \in Callers : WF_vars(Step(p) /\ ~RevokeWaits(p))

-----------------------------------------------------------------------------
Pcs   == {"idle", "load", "client", "register", "authz", "order", "clear", "append", "wait",
          "create", "revoke"}
Certs == [id : Nat, names : SUBSET Domains]
Calls == [pc : Pcs, op : {"none", "single", "dns", "revoke"}, req : SUBSET Domains, key : Nat,
          toks : SUBSET Nat, cert : Certs, n : Nat]

(* Types; m.mu is held exactly by who registers the account.                 *)
TypeOK ==
    /\ call \in [Callers -> Calls] /\ cache \in [Domains -> Certs]
    /\ saves \subseteq [cert : Certs, left : SUBSET Domains]
    /\ cleanups \subseteq Nat \X SUBSET Nat /\ dns \subseteq Nat
    /\ pending \in [Domains -> Nat] /\ tok \in Nat /\ issued \in Nat /\ calls \in Nat
    /\ {key, client, keys} \subseteq Nat /\ accounts \subseteq Nat \ {0}
    /\ \A p \in Callers : At(p, "register") => mu = p /\ call[p].key # 0

(* A certificate that GetCertificateForDomains returns is good for every     *)
(* domain asked for.  getSingleCert does not look: it relies on the cache    *)
(* holding under a domain only certificates good for it.                     *)
ReturnsGood ==
    \A p \in Callers :
        call[p].op \in {"single", "dns"} /\ call[p].cert # NoCert => Good(call[p].cert, call[p].req)

(* The TXT records in the zone all belong to a call that is under way or to  *)
(* a deletion that is started, except those a crash or a failed deletion     *)
(* left behind.                                                              *)
RecordsAccounted ==
    dns \subseteq orphans \cup UNION ({call[p].toks : p \in Callers} \cup {c[2] : c \in cleanups})

(* getClient registers one account: concurrent calls, failed registrations   *)
(* and restarts use the same key, except for a key the cache refused.        *)
OneAccount == Cardinality(accounts \ unsaved) <= 1

(* The records of a call that waits for the CA are in place: no other call   *)
(* and no late deletion takes them away, unless the CA has given the same    *)
(* challenge to another call as well.                                        *)
RecordsInPlace ==
    \A p \in Callers : At(p, "wait") => call[p].toks \subseteq dns \cup shared

(* Every call returns, unless a RevokeCert waits for the CA for ever: that   *)
(* call itself, or, with m.mu held meanwhile, every other one.               *)
CallsReturn ==
    \A p \in Callers :
        call[p].pc # "idle" ~> \/ call[p].pc = "idle"
                               \/ \E q \in Callers : [](RevokeWaits(q) /\ (q = p \/ mu = q))

=============================================================================
