--------------------------- MODULE SftpPoolProofs ---------------------------
(* Proofs about SftpPool: every sftp session has exactly one place (the      *)
(* pool, or one goroutine's hands) until it is closed, so none is closed     *)
(* twice or forgotten, for any number of goroutines, calls and sessions.     *)
(*                                                                           *)
(* The argument looks only at what a step does to places: it dials, stores,  *)
(* takes out or closes one connection, or takes out many.  Six lemmas show   *)
(* that each of these keeps the invariant; the actions are then sorted.      *)
EXTENDS SftpPool, TLAPS

\* A connection in the pool is dialled, open, under one key, and in nobody's hands.
PoolInv ==
    /\ \A k \in Keys : pool[k] # 0 =>
         /\ pool[k] < nextConn /\ closes[pool[k]] = 0
         /\ \A a \in Agents : pool[k] \notin owned[a]
    /\ \A j, k \in Keys : pool[j] = pool[k] /\ pool[j] # 0 => j = k

\* A connection in somebody's hands is dialled, open and in nobody else's.
OwnedInv ==
    \A a \in Agents : \A c \in owned[a] :
        /\ c < nextConn /\ closes[c] = 0
        /\ \A b \in Agents : c \in owned[b] => a = b

\* Closing happens at most once, and only to dialled connections.
CloseInv ==
    /\ ClosedOnce
    /\ \A c \in Conns : c >= nextConn => closes[c] = 0

PlaceInv == PoolInv /\ OwnedInv /\ CloseInv /\ NoOrphan

PlaceTypes ==
    /\ pool \in [Keys -> 0..MaxConns] /\ nextConn \in 1..(MaxConns + 1)
    /\ closes \in [Conns -> Nat] /\ owned \in [Agents -> SUBSET Conns]

\* What each goroutine holds at each step.
HandsInv ==
    /\ \A p \in Procs :
         /\ pc[p] \notin {"close", "insert", "discard", "download"} => owned[p] = {}
         /\ pc[p] = "close" => owned[p] = {conn[p]}
         /\ pc[p] \in {"insert", "discard", "download"} => \E c \in Conns : owned[p] = {c}
    /\ closer # "close" => owned["closer"] = {}

IInv == TypeOK /\ PlaceInv /\ HandsInv

-----------------------------------------------------------------------------
(* The agents are the goroutines, evictLoop and Close, all different.        *)
LEMMA AgentFacts ==
    /\ \A p \in Procs : p \in Agents /\ p # "evictor" /\ p # "closer"
    /\ "evictor" \in Agents /\ "closer" \in Agents
    /\ "port" \in Keys /\ Addrs \subseteq Keys
BY PoolAssumption DEF Agents, Keys

(* The initial state satisfies the invariant.                                *)
LEMMA InitInv == Init => IInv
BY PoolAssumption DEF Init, IInv, TypeOK, PlaceInv, PoolInv, OwnedInv, CloseInv, ClosedOnce,
   NoOrphan, HandsInv, Keys, Agents, Conns, Steps, Pooled

(* A dialled connection is in its goroutine's hands.                         *)
LEMMA PlacesDial ==
    ASSUME PlaceTypes, PlaceInv,
           NEW p \in Agents, owned[p] = {}, nextConn <= MaxConns,
           nextConn' = nextConn + 1, owned' = [owned EXCEPT ![p] = {nextConn}],
           UNCHANGED <<pool, closes>>
    PROVE  PlaceInv'
<1> USE PoolAssumption DEF PlaceTypes, PlaceInv, Conns
<1>1. PoolInv'
    BY DEF PoolInv, OwnedInv, CloseInv
<1>2. OwnedInv'
    BY DEF PoolInv, OwnedInv, CloseInv
<1>3. CloseInv'
    BY DEF PoolInv, OwnedInv, CloseInv, ClosedOnce
<1>4. NoOrphan'
  <2> SUFFICES ASSUME NEW d \in Conns, d < nextConn', closes'[d] = 0
               PROVE  (\E j \in Keys : pool'[j] = d) \/ \E b \in Agents : d \in owned'[b]
      BY DEF NoOrphan, Pooled
  <2>1. CASE d = nextConn
      BY <2>1
  <2>2. CASE d < nextConn
    <3>1. Pooled(d) \/ \E b \in Agents : d \in owned[b]
        BY <2>2 DEF NoOrphan
    <3>2. QED
        BY <3>1 DEF Pooled
  <2>3. QED
      BY <2>1, <2>2
<1>5. QED
    BY <1>1, <1>2, <1>3, <1>4

(* A connection stored under a free key leaves its goroutine's hands.        *)
LEMMA PlacesInsert ==
    ASSUME PlaceTypes, PlaceInv,
           NEW p \in Agents, NEW k \in Keys, NEW c \in Conns,
           owned[p] = {c}, pool[k] = 0,
           pool' = [pool EXCEPT ![k] = c], owned' = [owned EXCEPT ![p] = {}],
           UNCHANGED <<nextConn, closes>>
    PROVE  PlaceInv'
<1> USE PoolAssumption DEF PlaceTypes, PlaceInv, Conns
<1>1. PoolInv'
    BY DEF PoolInv, OwnedInv, CloseInv
<1>2. OwnedInv'
    BY DEF PoolInv, OwnedInv, CloseInv
<1>3. CloseInv'
    BY DEF PoolInv, OwnedInv, CloseInv, ClosedOnce
<1>4. NoOrphan'
  <2> SUFFICES ASSUME NEW d \in Conns, d < nextConn', closes'[d] = 0
               PROVE  (\E j \in Keys : pool'[j] = d) \/ \E b \in Agents : d \in owned'[b]
      BY DEF NoOrphan, Pooled
  <2>1. Pooled(d) \/ \E b \in Agents : d \in owned[b]
      BY DEF NoOrphan
  <2>2. CASE d = c
      BY <2>2
  <2>3. CASE d # c
      BY <2>1, <2>3 DEF Pooled
  <2>4. QED
      BY <2>2, <2>3
<1>5. QED
    BY <1>1, <1>2, <1>3, <1>4

(* An entry taken out of the pool is in the hands of whoever took it.        *)
LEMMA PlacesTakeOut ==
    ASSUME PlaceTypes, PlaceInv,
           NEW p \in Agents, NEW k \in Keys, pool[k] # 0,
           pool' = [pool EXCEPT ![k] = 0],
           owned' = [owned EXCEPT ![p] = @ \union {pool[k]}],
           UNCHANGED <<nextConn, closes>>
    PROVE  PlaceInv'
<1> USE PoolAssumption DEF PlaceTypes, PlaceInv, Conns
<1>1. PoolInv'
    BY DEF PoolInv, OwnedInv, CloseInv
<1>2. OwnedInv'
    BY DEF PoolInv, OwnedInv, CloseInv
<1>3. CloseInv'
    BY DEF PoolInv, OwnedInv, CloseInv, ClosedOnce
<1>4. NoOrphan'
  <2> SUFFICES ASSUME NEW d \in Conns, d < nextConn', closes'[d] = 0
               PROVE  (\E j \in Keys : pool'[j] = d) \/ \E b \in Agents : d \in owned'[b]
      BY DEF NoOrphan, Pooled
  <2>1. Pooled(d) \/ \E b \in Agents : d \in owned[b]
      BY DEF NoOrphan
  <2>2. CASE d = pool[k]
      BY <2>2
  <2>3. CASE d # pool[k]
      BY <2>1, <2>3 DEF Pooled
  <2>4. QED
      BY <2>2, <2>3
<1>5. QED
    BY <1>1, <1>2, <1>3, <1>4

(* Whoever holds a connection may close it.                                  *)
LEMMA PlacesClose ==
    ASSUME PlaceTypes, PlaceInv,
           NEW p \in Agents, NEW c \in owned[p],
           closes' = [closes EXCEPT ![c] = @ + 1],
           owned' = [owned EXCEPT ![p] = @ \ {c}],
           UNCHANGED <<pool, nextConn>>
    PROVE  PlaceInv'
<1> USE PoolAssumption DEF PlaceTypes, PlaceInv, Conns
<1>1. PoolInv'
    BY DEF PoolInv, OwnedInv, CloseInv
<1>2. OwnedInv'
    BY DEF PoolInv, OwnedInv, CloseInv
<1>3. CloseInv'
    BY DEF PoolInv, OwnedInv, CloseInv, ClosedOnce
<1>4. NoOrphan'
  <2> SUFFICES ASSUME NEW d \in Conns, d < nextConn', closes'[d] = 0
               PROVE  (\E j \in Keys : pool'[j] = d) \/ \E b \in Agents : d \in owned'[b]
      BY DEF NoOrphan, Pooled
  <2>1. d # c /\ closes[d] = 0
      OBVIOUS
  <2>2. Pooled(d) \/ \E b \in Agents : d \in owned[b]
      BY <2>1 DEF NoOrphan
  <2>3. QED
      BY <2>1, <2>2 DEF Pooled
<1>5. QED
    BY <1>1, <1>2, <1>3, <1>4

(* invalidate closes an entry in the critical section that deletes it.       *)
LEMMA PlacesInvalidate ==
    ASSUME PlaceTypes, PlaceInv,
           NEW k \in Keys, pool[k] # 0,
           closes' = [closes EXCEPT ![pool[k]] = @ + 1],
           pool' = [pool EXCEPT ![k] = 0],
           UNCHANGED <<owned, nextConn>>
    PROVE  PlaceInv'
<1> USE PoolAssumption DEF PlaceTypes, PlaceInv, Conns
<1>1. PoolInv'
    BY DEF PoolInv, OwnedInv, CloseInv
<1>2. OwnedInv'
    BY DEF PoolInv, OwnedInv, CloseInv
<1>3. CloseInv'
    BY DEF PoolInv, OwnedInv, CloseInv, ClosedOnce
<1>4. NoOrphan'
  <2> SUFFICES ASSUME NEW d \in Conns, d < nextConn', closes'[d] = 0
               PROVE  (\E j \in Keys : pool'[j] = d) \/ \E b \in Agents : d \in owned'[b]
      BY DEF NoOrphan, Pooled
  <2>1. d # pool[k] /\ closes[d] = 0
      OBVIOUS
  <2>2. Pooled(d) \/ \E b \in Agents : d \in owned[b]
      BY <2>1 DEF NoOrphan
  <2>3. QED
      BY <2>1, <2>2 DEF Pooled
<1>5. QED
    BY <1>1, <1>2, <1>3, <1>4

(* evictLoop and Close take many entries out at once.                        *)
LEMMA PlacesCollect ==
    ASSUME PlaceTypes, PlaceInv,
           NEW p \in Agents, owned[p] = {}, NEW S \in SUBSET Conns,
           owned' = [owned EXCEPT ![p] = {c \in S : Pooled(c)}],
           pool' = [k \in Keys |-> IF pool[k] \in S THEN 0 ELSE pool[k]],
           UNCHANGED <<nextConn, closes>>
    PROVE  PlaceInv'
<1> USE PoolAssumption DEF PlaceTypes, PlaceInv, Conns
<1>1. PoolInv'
    BY DEF PoolInv, OwnedInv, CloseInv, Pooled
<1>2. OwnedInv'
    BY DEF PoolInv, OwnedInv, CloseInv, Pooled
<1>3. CloseInv'
    BY DEF PoolInv, OwnedInv, CloseInv, ClosedOnce
<1>4. NoOrphan'
  <2> SUFFICES ASSUME NEW d \in Conns, d < nextConn', closes'[d] = 0
               PROVE  (\E j \in Keys : pool'[j] = d) \/ \E b \in Agents : d \in owned'[b]
      BY DEF NoOrphan, Pooled
  <2>1. Pooled(d) \/ \E b \in Agents : d \in owned[b]
      BY DEF NoOrphan
  <2>2. CASE Pooled(d) /\ d \in S
      BY <2>2
  <2>3. CASE ~Pooled(d) \/ d \notin S
      BY <2>1, <2>3 DEF Pooled
  <2>4. QED
      BY <2>2, <2>3
<1>5. QED
    BY <1>1, <1>2, <1>3, <1>4

(* A step that moves no connection keeps every connection in its place.      *)
LEMMA PlacesStay ==
    ASSUME PlaceInv, UNCHANGED <<pool, owned, closes, nextConn>>
    PROVE  PlaceInv'
BY DEF PlaceInv, PoolInv, OwnedInv, CloseInv, ClosedOnce, NoOrphan, Pooled

(* Every step keeps every connection in exactly one place.                   *)
LEMMA PlaceStep ==
    ASSUME IInv, [Next]_vars
    PROVE  PlaceInv'
<1> USE PoolAssumption, AgentFacts DEF connVars, procVars
<1>t. PlaceTypes /\ PlaceInv
    BY DEF IInv, TypeOK, PlaceTypes
<1>1. ASSUME NEW p \in Procs, Dial(p) PROVE PlaceInv'
  <2>1. owned[p] = {}
      BY <1>1 DEF IInv, HandsInv, Dial
  <2>2. QED
      BY <1>1, <1>t, <2>1, PlacesDial DEF Dial, Dialled
<1>2. ASSUME NEW p \in Procs, Download(p) PROVE PlaceInv'
  <2>1. owned[p] = {}
      BY <1>2 DEF IInv, HandsInv, Download, MayCall
  <2>2. QED
      BY <1>2, <1>t, <2>1, PlacesDial DEF Download, Dialled
<1>3. ASSUME NEW p \in Procs, Insert(p) PROVE PlaceInv'
  <2>1. PICK c \in Conns : owned[p] = {c}
      BY <1>3 DEF IInv, HandsInv, Insert
  <2>2. key[p] \in Keys
      BY DEF IInv, TypeOK
  <2>3. CASE pool[key[p]] = 0
      BY <1>3, <1>t, <2>1, <2>2, <2>3, PlacesInsert DEF Insert
  <2>4. CASE pool[key[p]] # 0
      BY <1>3, <1>t, <2>4, PlacesStay DEF Insert
  <2>5. QED
      BY <2>3, <2>4
<1>4. ASSUME NEW p \in Procs, Remove(p) PROVE PlaceInv'
  <2>1. key[p] \in Keys /\ conn[p] # 0
      BY <1>4 DEF IInv, TypeOK, Remove, Conns
  <2>2. CASE pool[key[p]] = conn[p]
      BY <1>4, <1>t, <2>1, <2>2, PlacesTakeOut DEF Remove, TakeOut
  <2>3. CASE pool[key[p]] # conn[p]
      BY <1>4, <1>t, <2>3, PlacesStay DEF Remove
  <2>4. QED
      BY <2>2, <2>3
<1>5. ASSUME NEW p \in Procs, CloseOld(p) PROVE PlaceInv'
  <2>1. conn[p] \in owned[p]
      BY <1>5 DEF IInv, HandsInv, CloseOld
  <2>2. QED
      BY <1>5, <1>t, <2>1, PlacesClose DEF CloseOld, CloseConn
<1>6. ASSUME NEW p \in Procs, Discard(p) PROVE PlaceInv'
    BY <1>6, <1>t, PlacesClose DEF Discard, CloseConn
<1>7. ASSUME NEW p \in Procs, DownloadDone(p) PROVE PlaceInv'
    BY <1>7, <1>t, PlacesClose DEF DownloadDone, CloseConn
<1>8. ASSUME NEW p \in Procs, Invalidate(p) PROVE PlaceInv'
  <2>1. opt[p] \in Keys
      BY DEF IInv, TypeOK
  <2>2. CASE pool[opt[p]] # 0
      BY <1>8, <1>t, <2>1, <2>2, PlacesInvalidate DEF Invalidate
  <2>3. CASE pool[opt[p]] = 0
      BY <1>8, <1>t, <2>3, PlacesStay DEF Invalidate
  <2>4. QED
      BY <2>2, <2>3
<1>9. CASE EvictCollect
  <2>1. aged \in SUBSET Conns
      BY DEF IInv, TypeOK
  <2>2. QED
      BY <1>9, <1>t, <2>1, PlacesCollect DEF EvictCollect
<1>10. CASE EvictClose
    BY <1>10, <1>t, PlacesClose DEF EvictClose, CloseConn
<1>11. CASE CloseTake
  <2>1. owned["closer"] = {}
      BY <1>11 DEF IInv, HandsInv, CloseTake
  <2>2. \A k \in Keys : (IF pool[k] \in Conns THEN 0 ELSE pool[k]) = 0
      BY <1>t DEF PlaceTypes, Conns
  <2>3. pool' = [k \in Keys |-> IF pool[k] \in Conns THEN 0 ELSE pool[k]]
      BY <1>11, <2>2 DEF CloseTake
  <2>4. QED
      BY <1>11, <1>t, <2>1, <2>3, PlacesCollect DEF CloseTake
<1>12. CASE CloseConns
    BY <1>12, <1>t, PlacesClose, PlacesStay DEF CloseConns, CloseConn
<1>13. ASSUME NEW p \in Procs,
             Call(p) \/ Lookup(p) \/ Probe(p) \/ Touch(p) \/ DialFails(p)
             \/ OpSucceeds(p) \/ OpFails(p) \/ OpFailsKept(p)
      PROVE  PlaceInv'
    BY <1>13, <1>t, PlacesStay DEF Call, Lookup, Probe, Touch, DialFails, OpSucceeds, OpFails, OpFailsKept
<1>14. CASE EvictExit \/ CloseStop \/ Age \/ RemoteDrop \/ UNCHANGED vars
    BY <1>14, <1>t, PlacesStay DEF EvictExit, CloseStop, Age, RemoteDrop, vars
<1>15. QED
    BY <1>1, <1>2, <1>3, <1>4, <1>5, <1>6, <1>7, <1>8, <1>9, <1>10, <1>11, <1>12, <1>13, <1>14 DEF Next, Local, Remote

(* Every step keeps the types.                                               *)
LEMMA TypeOKStep ==
    ASSUME TypeOK, [Next]_vars
    PROVE  TypeOK'
<1> USE PoolAssumption, AgentFacts DEF TypeOK, Steps, Conns, Goto, connVars, procVars
<1>1. ASSUME NEW p \in Procs, Call(p) PROVE TypeOK'
    BY <1>1, SMTT(30) DEF Call, MayCall
<1>2. ASSUME NEW p \in Procs, Download(p) PROVE TypeOK'
    BY <1>2 DEF Download, MayCall, Dialled, CompleteAddr
<1>3. ASSUME NEW p \in Procs, Lookup(p) PROVE TypeOK'
    BY <1>3, SMTT(30) DEF Lookup
<1>4. ASSUME NEW p \in Procs, Probe(p) PROVE TypeOK'
    BY <1>4 DEF Probe
<1>5. ASSUME NEW p \in Procs, Touch(p) PROVE TypeOK'
    BY <1>5 DEF Touch
<1>6. ASSUME NEW p \in Procs, Remove(p) PROVE TypeOK'
  <2>1. conn[p] \in Conns /\ key[p] \in Keys
      BY <1>6 DEF Remove
  <2>2. pool' \in [Keys -> 0..MaxConns] /\ owned' \in [Agents -> SUBSET Conns]
    <3>1. CASE pool[key[p]] = conn[p]
      <4>1. /\ pool' = [pool EXCEPT ![key[p]] = 0]
            /\ owned' = [owned EXCEPT ![p] = owned[p] \union {conn[p]}]
          BY <1>6, <3>1 DEF Remove, TakeOut
      <4>2. QED
          BY <2>1, <4>1
    <3>2. CASE pool[key[p]] # conn[p]
        BY <1>6, <3>2 DEF Remove
    <3>3. QED
        BY <3>1, <3>2
  <2>3. \E s \in {"close", "dial"} : pc' = [pc EXCEPT ![p] = s]
      BY <1>6 DEF Remove
  <2>4. QED
      BY <1>6, <2>1, <2>2, <2>3 DEF Remove
<1>7. ASSUME NEW p \in Procs, CloseOld(p) PROVE TypeOK'
  <2>1. conn[p] \in Conns
      BY <1>7 DEF CloseOld
  <2>2. closes' \in [Conns -> Nat] /\ owned' \in [Agents -> SUBSET Conns]
      BY <1>7, <2>1, SMTT(30) DEF CloseOld, CloseConn
  <2>3. QED
      BY <1>7, <2>2 DEF CloseOld
<1>8. ASSUME NEW p \in Procs, Dial(p) PROVE TypeOK'
    BY <1>8 DEF Dial, Dialled, CompleteAddr
<1>9. ASSUME NEW p \in Procs, DialFails(p) PROVE TypeOK'
    BY <1>9 DEF DialFails, CompleteAddr
<1>10. ASSUME NEW p \in Procs, Insert(p) PROVE TypeOK'
  <2>1. key[p] \in Keys
      OBVIOUS
  <2>2. CASE pool[key[p]] # 0
    <3>1. /\ conn' = [conn EXCEPT ![p] = pool[key[p]]] /\ pool[key[p]] \in Conns
          /\ pc' = [pc EXCEPT ![p] = "discard"]
        BY <1>10, <2>1, <2>2 DEF Insert
    <3>2. QED
        BY <1>10, <2>2, <3>1 DEF Insert
  <2>3. CASE pool[key[p]] = 0
    <3>1. PICK c \in owned[p] : /\ pool' = [pool EXCEPT ![key[p]] = c]
                                /\ owned' = [owned EXCEPT ![p] = {}]
                                /\ conn' = [conn EXCEPT ![p] = c]
                                /\ aged' = aged \ {c}
                                /\ pc' = [pc EXCEPT ![p] = "use"]
        BY <1>10, <2>3 DEF Insert
    <3>2. c \in Conns
        OBVIOUS
    <3>3. QED
        BY <1>10, <2>1, <3>1, <3>2 DEF Insert
  <2>4. QED
      BY <2>2, <2>3
<1>11. ASSUME NEW p \in Procs, Discard(p) PROVE TypeOK'
  <2>1. PICK c \in owned[p] : CloseConn(p, c)
      BY <1>11 DEF Discard
  <2>2. c \in Conns
      OBVIOUS
  <2>3. closes' \in [Conns -> Nat] /\ owned' \in [Agents -> SUBSET Conns]
      BY <2>1, <2>2, SMTT(30) DEF CloseConn
  <2>4. QED
      BY <1>11, <2>3 DEF Discard
<1>12. ASSUME NEW p \in Procs, OpSucceeds(p) PROVE TypeOK'
    BY <1>12 DEF OpSucceeds
<1>13. ASSUME NEW p \in Procs, OpFails(p) PROVE TypeOK'
    BY <1>13 DEF OpFails
<1>14. ASSUME NEW p \in Procs, OpFailsKept(p) PROVE TypeOK'
    BY <1>14 DEF OpFailsKept
<1>15. ASSUME NEW p \in Procs, Invalidate(p) PROVE TypeOK'
  <2>1. opt[p] \in Keys
      OBVIOUS
  <2>2. closes' \in [Conns -> Nat] /\ pool' \in [Keys -> 0..MaxConns]
    <3>1. CASE pool[opt[p]] # 0
      <4>1. /\ closes' = [closes EXCEPT ![pool[opt[p]]] = closes[pool[opt[p]]] + 1]
            /\ pool' = [pool EXCEPT ![opt[p]] = 0]
          BY <1>15, <3>1 DEF Invalidate
      <4>2. pool[opt[p]] \in Conns
          BY <2>1, <3>1
      <4>3. QED
          BY <2>1, <4>1, <4>2
    <3>2. CASE pool[opt[p]] = 0
        BY <1>15, <3>2 DEF Invalidate
    <3>3. QED
        BY <3>1, <3>2
  <2>3. QED
      BY <1>15, <2>2 DEF Invalidate
<1>16. ASSUME NEW p \in Procs, DownloadDone(p) PROVE TypeOK'
  <2>1. PICK c \in owned[p] : CloseConn(p, c)
      BY <1>16 DEF DownloadDone
  <2>2. c \in Conns
      OBVIOUS
  <2>3. closes' \in [Conns -> Nat] /\ owned' \in [Agents -> SUBSET Conns]
      BY <2>1, <2>2, SMTT(30) DEF CloseConn
  <2>4. QED
      BY <1>16, <2>3 DEF DownloadDone
<1>17. CASE EvictCollect
  <2>1. owned' \in [Agents -> SUBSET Conns]
    <3>1. {c \in aged : Pooled(c)} \in SUBSET Conns
        OBVIOUS
    <3>2. QED
        BY <1>17, <3>1 DEF EvictCollect
  <2>2. pool' \in [Keys -> 0..MaxConns]
      BY <1>17 DEF EvictCollect
  <2>3. QED
      BY <1>17, <2>1, <2>2 DEF EvictCollect
<1>18. CASE EvictClose
  <2>1. PICK c \in owned["evictor"] : CloseConn("evictor", c)
      BY <1>18 DEF EvictClose
  <2>2. closes' \in [Conns -> Nat] /\ owned' \in [Agents -> SUBSET Conns]
      BY <2>1 DEF CloseConn
  <2>3. QED
      BY <1>18, <2>2 DEF EvictClose
<1>19. CASE EvictExit
    BY <1>19 DEF EvictExit
<1>20. CASE CloseStop
    BY <1>20 DEF CloseStop
<1>21. CASE CloseTake
    BY <1>21 DEF CloseTake
<1>22. CASE CloseConns
  <2>1. closes' \in [Conns -> Nat] /\ owned' \in [Agents -> SUBSET Conns]
    <3>1. ASSUME NEW c \in owned["closer"], CloseConn("closer", c)
          PROVE  closes' \in [Conns -> Nat] /\ owned' \in [Agents -> SUBSET Conns]
        BY <3>1 DEF CloseConn
    <3>2. QED
        BY <1>22, <3>1 DEF CloseConns
  <2>2. closer' \in {"close", "done"}
      BY <1>22 DEF CloseConns
  <2>3. QED
      BY <1>22, <2>1, <2>2 DEF CloseConns
<1>23. CASE Age
    BY <1>23 DEF Age
<1>24. CASE RemoteDrop
    BY <1>24 DEF RemoteDrop
<1>25. CASE UNCHANGED vars
    BY <1>25 DEF vars
<1>26. QED
    BY <1>1, <1>2, <1>3, <1>4, <1>5, <1>6, <1>7, <1>8, <1>9, <1>10, <1>11, <1>12, <1>13,
       <1>14, <1>15, <1>16, <1>17, <1>18, <1>19, <1>20, <1>21, <1>22, <1>23, <1>24, <1>25
    DEF Next, Local, Remote

(* Every step keeps what a goroutine holds in line with where it is.         *)
LEMMA HandsInvStep ==
    ASSUME TypeOK, HandsInv, [Next]_vars
    PROVE  HandsInv'
<1> USE PoolAssumption, AgentFacts DEF TypeOK, HandsInv, Conns, Goto, connVars, procVars
<1>1. ASSUME NEW p \in Procs, Call(p) PROVE HandsInv'
    BY <1>1 DEF Call, MayCall
<1>2. ASSUME NEW p \in Procs, Download(p) PROVE HandsInv'
  <2>1. /\ owned' = [owned EXCEPT ![p] = {nextConn}] /\ nextConn \in Conns
        /\ pc' = [pc EXCEPT ![p] = "download"] /\ UNCHANGED <<conn, closer>>
      BY <1>2 DEF Download, Dialled
  <2>2. QED
      BY <2>1
<1>3. ASSUME NEW p \in Procs, Lookup(p) PROVE HandsInv'
    BY <1>3 DEF Lookup
<1>4. ASSUME NEW p \in Procs, Probe(p) PROVE HandsInv'
    BY <1>4 DEF Probe
<1>5. ASSUME NEW p \in Procs, Touch(p) PROVE HandsInv'
    BY <1>5 DEF Touch
<1>6. ASSUME NEW p \in Procs, Remove(p) PROVE HandsInv'
  <2>1. owned[p] = {}
      BY <1>6 DEF Remove
  <2>2. CASE pool[key[p]] = conn[p]
    <3>1. /\ owned' = [owned EXCEPT ![p] = {conn[p]}]
          /\ pc' = [pc EXCEPT ![p] = "close"] /\ UNCHANGED <<conn, closer>>
        BY <1>6, <2>1, <2>2 DEF Remove, TakeOut
    <3>2. QED
        BY <3>1
  <2>3. CASE pool[key[p]] # conn[p]
    <3>1. pc' = [pc EXCEPT ![p] = "dial"] /\ UNCHANGED <<owned, conn, closer>>
        BY <1>6, <2>3 DEF Remove
    <3>2. QED
        BY <2>1, <3>1
  <2>4. QED
      BY <2>2, <2>3
<1>7. ASSUME NEW p \in Procs, CloseOld(p) PROVE HandsInv'
    BY <1>7 DEF CloseOld, CloseConn
<1>8. ASSUME NEW p \in Procs, Dial(p) PROVE HandsInv'
  <2>1. /\ owned' = [owned EXCEPT ![p] = {nextConn}] /\ nextConn \in Conns
        /\ pc' = [pc EXCEPT ![p] = "insert"] /\ UNCHANGED <<conn, closer>>
      BY <1>8 DEF Dial, Dialled
  <2>2. QED
      BY <2>1
<1>9. ASSUME NEW p \in Procs, DialFails(p) PROVE HandsInv'
    BY <1>9 DEF DialFails, CompleteAddr
<1>10. ASSUME NEW p \in Procs, Insert(p) PROVE HandsInv'
  <2>1. CASE pool[key[p]] # 0
    <3>1. /\ pc' = [pc EXCEPT ![p] = "discard"] /\ pc[p] = "insert"
          /\ conn' = [conn EXCEPT ![p] = pool[key[p]]] /\ UNCHANGED <<owned, closer>>
        BY <1>10, <2>1 DEF Insert
    <3>2. QED
        BY <3>1
  <2>2. CASE pool[key[p]] = 0
    <3>1. PICK c \in owned[p] : /\ owned' = [owned EXCEPT ![p] = {}]
                                /\ conn' = [conn EXCEPT ![p] = c]
                                /\ pc' = [pc EXCEPT ![p] = "use"] /\ UNCHANGED closer
        BY <1>10, <2>2 DEF Insert
    <3>2. QED
        BY <3>1
  <2>3. QED
      BY <2>1, <2>2
<1>11. ASSUME NEW p \in Procs, Discard(p) PROVE HandsInv'
  <2>1. PICK c \in Conns : owned[p] = {c}
      BY <1>11 DEF Discard
  <2>2. /\ owned' = [owned EXCEPT ![p] = {}]
        /\ pc' = [pc EXCEPT ![p] = "use"] /\ UNCHANGED <<conn, closer>>
      BY <1>11, <2>1 DEF Discard, CloseConn
  <2>3. QED
      BY <2>2
<1>12. ASSUME NEW p \in Procs, OpSucceeds(p) PROVE HandsInv'
    BY <1>12 DEF OpSucceeds
<1>13. ASSUME NEW p \in Procs, OpFails(p) PROVE HandsInv'
    BY <1>13 DEF OpFails
<1>14. ASSUME NEW p \in Procs, OpFailsKept(p) PROVE HandsInv'
    BY <1>14 DEF OpFailsKept
<1>15. ASSUME NEW p \in Procs, Invalidate(p) PROVE HandsInv'
    BY <1>15 DEF Invalidate
<1>16. ASSUME NEW p \in Procs, DownloadDone(p) PROVE HandsInv'
  <2>1. PICK c \in Conns : owned[p] = {c}
      BY <1>16 DEF DownloadDone
  <2>2. /\ owned' = [owned EXCEPT ![p] = {}]
        /\ pc' = [pc EXCEPT ![p] = "idle"] /\ UNCHANGED <<conn, closer>>
      BY <1>16, <2>1 DEF DownloadDone, CloseConn
  <2>3. QED
      BY <2>2
<1>17. CASE EvictCollect
    BY <1>17 DEF EvictCollect
<1>18. CASE EvictClose
    BY <1>18 DEF EvictClose, CloseConn
<1>19. CASE EvictExit
    BY <1>19 DEF EvictExit
<1>20. CASE CloseStop
    BY <1>20 DEF CloseStop
<1>21. CASE CloseTake
    BY <1>21 DEF CloseTake
<1>22. CASE CloseConns
    BY <1>22 DEF CloseConns, CloseConn
<1>23. CASE Age
    BY <1>23 DEF Age
<1>24. CASE RemoteDrop
    BY <1>24 DEF RemoteDrop
<1>25. CASE UNCHANGED vars
    BY <1>25 DEF vars
<1>26. QED
    BY <1>1, <1>2, <1>3, <1>4, <1>5, <1>6, <1>7, <1>8, <1>9, <1>10, <1>11, <1>12, <1>13,
       <1>14, <1>15, <1>16, <1>17, <1>18, <1>19, <1>20, <1>21, <1>22, <1>23, <1>24, <1>25
    DEF Next, Local, Remote

(* The inductive invariant holds in every reachable state.                   *)
THEOREM Invariant == Spec => []IInv
<1>1. Init => IInv
    BY InitInv
<1>2. IInv /\ [Next]_vars => IInv'
    BY TypeOKStep, PlaceStep, HandsInvStep DEF IInv
<1>3. QED
    BY <1>1, <1>2, PTL DEF Spec

(* The variables keep their types, and a goroutine past the lookup of getConn *)
(* has a connection to work on.                                              *)
THEOREM TypeCorrect == Spec => []TypeOK
<1>1. IInv => TypeOK
    BY DEF IInv
<1>2. QED
    BY Invariant, <1>1, PTL

(* No interleaving of getConn, invalidate, evictLoop, Download and Close     *)
(* closes a connection twice.                                                *)
THEOREM NoDoubleClose == Spec => []ClosedOnce
<1>1. IInv => ClosedOnce
    BY DEF IInv, PlaceInv, CloseInv
<1>2. QED
    BY Invariant, <1>1, PTL

(* getConn never finds a closed connection in the pool.                      *)
THEOREM PoolHoldsOpen == Spec => []PooledOpen
<1>1. IInv => PooledOpen
    BY DEF IInv, PlaceInv, PoolInv, PooledOpen
<1>2. QED
    BY Invariant, <1>1, PTL

(* Every open connection is in the pool or in the hands of a goroutine.      *)
THEOREM NoConnectionLost == Spec => []NoOrphan
<1>1. IInv => NoOrphan
    BY DEF IInv, PlaceInv
<1>2. QED
    BY Invariant, <1>1, PTL

-----------------------------------------------------------------------------
(* Why invalidate finds the failed connection under the key of the caller.   *)

\* The steps at which conn is a connection that getConn has found or stored.
Holding == {"probe", "touch", "remove", "discard", "use", "invalid"}

\* A connection is stored once, under the key of the goroutine that dialled it,
\* and nobody knows it before: so a goroutine that got it by a key can find it
\* under no other one, however often it has left the pool meanwhile.
HomeInv ==
    /\ \A p \in Procs : conn[p] < nextConn
    /\ \A p, q \in Procs : pc[q] = "insert" => conn[p] \notin owned[q]
    /\ \A p \in Procs : pc[p] \in Holding => \A k \in Keys : pool[k] = conn[p] => k = key[p]

(* A step that looks up, dials and stores nothing keeps HomeInv.             *)
LEMMA HomeKept ==
    ASSUME TypeOK, TypeOK', HomeInv, UNCHANGED <<conn, nextConn>>,
           \A k \in Keys : pool'[k] \in {0, pool[k]},
           \A q \in Procs : pc'[q] = "insert" => pc[q] = "insert" /\ owned'[q] = owned[q],
           \A q \in Procs : pc'[q] \in Holding => pc[q] \in Holding /\ key'[q] = key[q]
    PROVE  HomeInv'
<1>1. \A p \in Procs : pc'[p] \in Holding => conn[p] # 0
    BY DEF TypeOK, Holding, Conns
<1>2. QED
    BY <1>1 DEF HomeInv

(* Every step keeps HomeInv.                                                 *)
LEMMA HomeStep ==
    ASSUME IInv, IInv', HomeInv, [Next]_vars
    PROVE  HomeInv'
<1> USE AgentFacts DEF connVars, procVars, Goto
<1>t. TypeOK /\ TypeOK'
    BY DEF IInv
<1>1. ASSUME NEW p \in Procs, Lookup(p) PROVE HomeInv'
  <2>1. /\ conn' = [conn EXCEPT ![p] = pool[key[p]]]
        /\ pc' = [pc EXCEPT ![p] = IF pool[key[p]] = 0 THEN "dial" ELSE "probe"]
        /\ UNCHANGED <<pool, nextConn, owned, key>>
      BY <1>1 DEF Lookup
  <2>2. key[p] \in Keys /\ pool[key[p]] < nextConn
      BY <1>t, PoolAssumption DEF IInv, TypeOK, PlaceInv, PoolInv
  <2>3. \A q \in Procs : pool[key[p]] \notin owned[q]
    <3>1. \A q \in Procs : 0 \notin owned[q]
        BY <1>t DEF TypeOK, Conns
    <3>2. pool[key[p]] # 0 => \A q \in Procs : pool[key[p]] \notin owned[q]
        BY <2>2 DEF IInv, PlaceInv, PoolInv
    <3>3. QED
        BY <3>1, <3>2
  <2>4. ASSUME pool[key[p]] # 0, NEW k \in Keys, pool[k] = pool[key[p]] PROVE k = key[p]
      BY <2>2, <2>4 DEF IInv, PlaceInv, PoolInv
  <2>5. QED
      BY <1>t, <2>1, <2>2, <2>3, <2>4 DEF HomeInv, TypeOK, Holding
<1>2. ASSUME NEW p \in Procs, Dial(p) \/ Download(p) PROVE HomeInv'
  <2>1. /\ nextConn' = nextConn + 1 /\ owned' = [owned EXCEPT ![p] = {nextConn}]
        /\ UNCHANGED <<pool, conn, key>>
        /\ pc' = [pc EXCEPT ![p] = "insert"] \/ pc' = [pc EXCEPT ![p] = "download"]
      BY <1>2 DEF Dial, Download, Dialled
  <2>2. \A q \in Procs : conn[q] \in Nat /\ conn[q] < nextConn
      BY <1>t DEF HomeInv, TypeOK
  <2>3. \A q \in Procs : conn'[q] < nextConn'
      BY <2>1, <2>2, <1>t DEF TypeOK
  <2>4. \A q \in Procs : pc'[q] = "insert" =>
            \/ q = p /\ owned'[q] = {nextConn}
            \/ q # p /\ pc[q] = "insert" /\ owned'[q] = owned[q]
    <3>1. p \in DOMAIN owned /\ owned'[p] = {nextConn}
        BY <2>1, <1>t DEF TypeOK
    <3>2. \A q \in Procs : q # p => owned'[q] = owned[q] /\ pc'[q] = pc[q]
        BY <2>1, <1>t DEF TypeOK
    <3>3. QED
        BY <3>1, <3>2
  <2>5. \A q \in Procs : pc'[q] \in Holding => pc[q] \in Holding
      BY <2>1, <1>t DEF TypeOK, Holding
  <2>6. QED
      BY <2>1, <2>2, <2>3, <2>4, <2>5 DEF HomeInv
<1>3. ASSUME NEW p \in Procs, Insert(p) PROVE HomeInv'
  <2>1. /\ UNCHANGED <<nextConn, key>> /\ key[p] \in Keys /\ pc[p] = "insert"
        /\ pc' = [pc EXCEPT ![p] = IF pool[key[p]] # 0 THEN "discard" ELSE "use"]
      BY <1>3, <1>t DEF Insert, TypeOK
  <2>2. CASE pool[key[p]] # 0
    <3>1. conn' = [conn EXCEPT ![p] = pool[key[p]]] /\ UNCHANGED <<pool, owned>>
        BY <1>3, <2>2 DEF Insert
    <3>2. /\ pool[key[p]] < nextConn /\ \A q \in Procs : pool[key[p]] \notin owned[q]
          /\ \A k \in Keys : pool[k] = pool[key[p]] => k = key[p]
        BY <2>1, <2>2 DEF IInv, PlaceInv, PoolInv
    <3>3. QED
        BY <1>t, <2>1, <3>1, <3>2 DEF HomeInv, TypeOK, Holding
  <2>3. CASE pool[key[p]] = 0
    <3>1. PICK c \in owned[p] :
            /\ pool' = [pool EXCEPT ![key[p]] = c] /\ owned' = [owned EXCEPT ![p] = {}]
            /\ conn' = [conn EXCEPT ![p] = c]
        BY <1>3, <2>3 DEF Insert
    <3>2. c < nextConn /\ \A q \in Procs : c \in owned[q] => q = p
        BY DEF IInv, PlaceInv, OwnedInv
    <3>3. \A k \in Keys : pool[k] # c
      <4>1. c # 0
          BY <1>t DEF TypeOK, Conns
      <4>2. QED
          BY <4>1 DEF IInv, PlaceInv, PoolInv
    <3>4. \A q \in Procs : conn[q] # c
        BY <2>1 DEF HomeInv
    <3>5. \A q \in Procs : conn'[q] < nextConn'
        BY <1>t, <2>1, <3>1, <3>2 DEF HomeInv, TypeOK
    <3>6. \A q, r \in Procs : pc'[r] = "insert" => conn'[q] \notin owned'[r]
        BY <1>t, <2>1, <3>1, <3>2 DEF HomeInv, TypeOK
    <3>7. ASSUME NEW q \in Procs, pc'[q] \in Holding, NEW k \in Keys, pool'[k] = conn'[q]
          PROVE  k = key'[q]
      <4>1. CASE q = p
          BY <1>t, <2>1, <3>1, <3>3, <3>7, <4>1 DEF TypeOK
      <4>2. CASE q # p
          BY <1>t, <2>1, <3>1, <3>4, <3>7, <4>2 DEF HomeInv, TypeOK
      <4>3. QED
          BY <4>1, <4>2
    <3>8. QED
        BY <3>5, <3>6, <3>7 DEF HomeInv
  <2>4. QED
      BY <2>2, <2>3
<1>4. ASSUME NEW p \in Procs, Call(p) \/ DialFails(p) PROVE HomeInv'
  <2>1. /\ UNCHANGED <<pool, nextConn, owned, conn>>
        /\ \A q \in Procs : q # p => key'[q] = key[q] /\ pc'[q] = pc[q]
        /\ pc'[p] \in {"lookup", "idle"}
      BY <1>4, <1>t DEF Call, DialFails, TypeOK
  <2>2. QED
      BY <1>t, <2>1, HomeKept DEF Holding
<1>5. ASSUME NEW p \in Procs,
             Probe(p) \/ Touch(p) \/ OpSucceeds(p) \/ OpFails(p) \/ OpFailsKept(p)
      PROVE  HomeInv'
  <2>1. /\ UNCHANGED <<pool, nextConn, owned, conn, key>> /\ pc[p] \in Holding
        /\ \A q \in Procs : q # p => pc'[q] = pc[q]
        /\ pc'[p] \in {"touch", "remove", "use", "invalid", "idle"}
      BY <1>5, <1>t DEF Probe, Touch, OpSucceeds, OpFails, OpFailsKept, TypeOK, Holding
  <2>2. QED
      BY <1>t, <2>1, HomeKept DEF Holding
<1>6. ASSUME NEW p \in Procs,
             Remove(p) \/ CloseOld(p) \/ Discard(p) \/ Invalidate(p) \/ DownloadDone(p)
      PROVE  HomeInv'
  <2>1. /\ UNCHANGED <<nextConn, conn, key>> /\ pc[p] \in Steps
        /\ \A q \in Procs : q # p => pc'[q] = pc[q] /\ owned'[q] = owned[q]
        /\ \/ pc'[p] \in {"close", "dial", "idle"}
           \/ pc[p] = "discard" /\ pc'[p] = "use"
    <3> USE <1>t DEF TypeOK
    <3>1. CASE Remove(p)
        BY <3>1 DEF Remove, TakeOut
    <3>2. CASE CloseOld(p)
        BY <3>2 DEF CloseOld, CloseConn
    <3>3. CASE Discard(p)
        BY <3>3 DEF Discard, CloseConn
    <3>4. CASE Invalidate(p)
        BY <3>4 DEF Invalidate
    <3>5. CASE DownloadDone(p)
        BY <3>5 DEF DownloadDone, CloseConn
    <3>6. QED
        BY <1>6, <3>1, <3>2, <3>3, <3>4, <3>5
  <2>2. \A k \in Keys : pool'[k] \in {0, pool[k]}
      BY <1>6, <1>t DEF Remove, TakeOut, CloseOld, Discard, Invalidate, DownloadDone, TypeOK
  <2>3. QED
      BY <1>t, <2>1, <2>2, HomeKept DEF Holding
<1>7. CASE EvictCollect \/ EvictClose \/ EvictExit \/ CloseStop \/ CloseTake \/ CloseConns
           \/ Age \/ RemoteDrop \/ UNCHANGED vars
  <2>1. /\ UNCHANGED <<nextConn, conn, key, pc>>
        /\ \A q \in Procs : owned'[q] = owned[q]
      BY <1>7, <1>t DEF EvictCollect, EvictClose, EvictExit, CloseStop, CloseTake, CloseConns,
                        Age, RemoteDrop, vars, CloseConn, TypeOK
  <2>2. \A k \in Keys : pool'[k] \in {0, pool[k]}
      BY <1>7, <1>t DEF EvictCollect, EvictClose, EvictExit, CloseStop, CloseTake, CloseConns,
                        Age, RemoteDrop, vars, TypeOK
  <2>3. QED
      BY <1>t, <2>1, <2>2, HomeKept
<1>8. QED
    BY <1>1, <1>2, <1>3, <1>4, <1>5, <1>6, <1>7 DEF Next, Local, Remote

(* The connection a goroutine works on is under no key but the goroutine's.  *)
THEOREM HomeInvariant == Spec => []HomeInv
<1>1. Init => HomeInv
    BY PoolAssumption DEF Init, HomeInv, Holding
<1>2. IInv /\ IInv' /\ HomeInv /\ [Next]_vars => HomeInv'
    BY HomeStep
<1>3. QED
    BY Invariant, <1>1, <1>2, PTL DEF Spec

(* After invalidate no key of the pool leads to the connection the operation *)
(* failed on, whoever took it out or replaced it meanwhile, as long as the   *)
(* option still names the key that getConn used.                             *)
THEOREM FailedIsDropped == Spec => InvalidateDropsFailed
<1>1. ASSUME IInv, HomeInv, [Next]_vars, NEW p \in Procs,
             pc[p] = "invalid", pc'[p] = "idle", key[p] = opt[p], NEW k \in Keys
      PROVE  pool'[k] # conn[p]
  <2>t. TypeOK
      BY <1>1 DEF IInv
  <2>1. Invalidate(p)
    <3>1. ASSUME NEW q \in Procs, Call(q) \/ Download(q) \/ Local(q) \/ Remote(q) PROVE q = p
      <4>1. q # p => pc'[p] = pc[p]
          BY <3>1, <2>t DEF Call, Download, Local, Remote, Lookup, Probe, Touch, Remove, CloseOld, Dial,
             Dialled, DialFails, Insert, Discard, OpSucceeds, OpFails, OpFailsKept, Invalidate,
             DownloadDone, Goto, TypeOK
      <4>2. QED
          BY <4>1, <1>1
    <3>2. ~UNCHANGED pc
        BY <1>1
    <3>3. Call(p) \/ Download(p) \/ Local(p) \/ Remote(p)
        BY <1>1, <3>1, <3>2 DEF Next, EvictCollect, EvictClose, EvictExit, CloseStop, CloseTake,
           CloseConns, Age, RemoteDrop, vars, procVars
    <3>4. QED
        BY <1>1, <3>3 DEF Local, Remote, Call, Download, MayCall, Lookup, Probe, Touch, Remove, CloseOld,
           Dial, DialFails, Insert, Discard, OpSucceeds, OpFails, OpFailsKept, DownloadDone
  <2>2. /\ key[p] \in Keys /\ conn[p] # 0
        /\ pool[k] = conn[p] => k = key[p]
      BY <1>1, <2>t DEF HomeInv, Holding, TypeOK, Conns
  <2>3. QED
      BY <1>1, <2>t, <2>1, <2>2 DEF Invalidate, TypeOK
<1>2. IInv /\ HomeInv /\ [Next]_vars =>
        \A p \in Procs : pc[p] = "invalid" /\ pc'[p] = "idle" /\ key[p] = opt[p]
          => \A k \in Keys : pool'[k] # conn[p]
    BY <1>1
<1>3. QED
    BY Invariant, HomeInvariant, <1>2, PTL DEF Spec, InvalidateDropsFailed
=============================================================================
