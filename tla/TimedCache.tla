----------------------------- MODULE TimedCache -----------------------------
(***************************************************************************)
(* ttlcache.TimedCache (src/ttlcache/timed.go): a map whose entries expire  *)
(* after interval, a Get that deletes what it finds expired, and a janitor  *)
(* goroutine.  Get reads under the read lock, looks at the clock without a  *)
(* lock and deletes under the write lock: three actions.  Time is discrete  *)
(* and only ages are kept, up to one unit past the interval, so that clocks *)
(* need no bound.                                                           *)
(***************************************************************************)
EXTENDS Integers

CONSTANTS
    Clients,    \* goroutines that call Set and Get
    Keys,
    Interval    \* c.interval in units of time

ASSUME CacheAssumption == Interval \in Nat \ {0}

Absent == -1
Ages   == 0..(Interval + 1)

VARIABLES
    age,       \* [Keys -> Ages \union {Absent}] now - createdAt of c.items[key]
    pc,        \* [Clients -> "idle", "check", "delete"] steps of Get
    key,       \* [Clients -> Keys] argument of Get
    seen,      \* [Clients -> Ages] age, by now, of the item Get has read
    phase,     \* time since the last tick of the janitor's ticker
    ticked,    \* ticker.C holds a tick
    janitor,   \* "run" or "done"
    stopped    \* c.stopChan is closed

clientVars  == <<pc, key, seen>>
janitorVars == <<phase, ticked, janitor, stopped>>
vars        == <<age, clientVars, janitorVars>>

Init ==
    /\ age = [k \in Keys |-> Absent]
    /\ pc = [c \in Clients |-> "idle"] /\ seen = [c \in Clients |-> 0]
    /\ key \in [Clients -> Keys]
    /\ phase = 0 /\ ticked = FALSE /\ janitor = "run" /\ stopped = FALSE

Goto(c, s) == pc' = [pc EXCEPT ![c] = s]

Set(c) ==
    /\ pc[c] = "idle"
    /\ \E k \in Keys : age' = [age EXCEPT ![k] = 0]
    /\ UNCHANGED <<clientVars, janitorVars>>

\* Get: read the item under the read lock; a miss returns at once.
GetRead(c) ==
    /\ pc[c] = "idle"
    /\ \E k \in Keys : /\ age[k] # Absent
                       /\ key' = [key EXCEPT ![c] = k]
                       /\ seen' = [seen EXCEPT ![c] = age[k]]
    /\ Goto(c, "check")
    /\ UNCHANGED <<age, janitorVars>>

\* Get: time.Since(item.createdAt) >= c.interval, or a hit.
GetCheck(c) ==
    /\ pc[c] = "check"
    /\ Goto(c, IF seen[c] >= Interval THEN "delete" ELSE "idle")
    /\ UNCHANGED <<age, key, seen, janitorVars>>

\* Get: delete(c.items, key), whatever the key holds by now.
GetDelete(c) ==
    /\ pc[c] = "delete"
    /\ age' = [age EXCEPT ![key[c]] = Absent]
    /\ Goto(c, "idle")
    /\ UNCHANGED <<key, seen, janitorVars>>

\* DeleteExpired: time.Since(item.createdAt) > c.interval.
Purged(k) == age[k] > Interval

DeleteExpired == age' = [k \in Keys |-> IF Purged(k) THEN Absent ELSE age[k]]

\* A slip: the janitor looks at the first tick only.
JanitorTickOnce ==
    /\ janitor = "run" /\ ticked
    /\ ticked' = FALSE /\ DeleteExpired
    /\ janitor' = "done"
    /\ UNCHANGED <<clientVars, phase, stopped>>

\* The janitor's select: a tick, or the closed stopChan.
JanitorTick ==
    /\ janitor = "run" /\ ticked
    /\ ticked' = FALSE /\ DeleteExpired
    /\ UNCHANGED <<clientVars, phase, janitor, stopped>>

JanitorStop ==
    /\ janitor = "run" /\ stopped
    /\ janitor' = "done"
    /\ UNCHANGED <<age, clientVars, phase, ticked, stopped>>

\* StopCleanup, called once.
StopCleanup ==
    /\ ~stopped /\ stopped' = TRUE
    /\ UNCHANGED <<age, clientVars, phase, ticked, janitor>>

\* DeleteExpired, called by the program.
Purge == DeleteExpired /\ UNCHANGED <<clientVars, janitorVars>>

Older(a) == IF a > Interval THEN a ELSE a + 1

\* A unit of time passes; the ticker drops a tick nobody has taken.
Tick ==
    /\ age' = [k \in Keys |-> IF age[k] = Absent THEN Absent ELSE Older(age[k])]
    /\ seen' = [c \in Clients |-> IF pc[c] = "check" THEN Older(seen[c]) ELSE seen[c]]
    /\ phase' = (phase + 1) % Interval
    /\ ticked' = (ticked \/ phase + 1 = Interval)
    /\ UNCHANGED <<pc, key, janitor, stopped>>

Get(c) == GetRead(c) \/ GetCheck(c) \/ GetDelete(c)

Next ==
    \/ \E c \in Clients : Set(c) \/ Get(c)
    \/ JanitorTick \/ JanitorStop \/ StopCleanup \/ Purge \/ Tick

Spec == Init /\ [][Next]_vars

(* Time passes and the janitor is scheduled.                                 *)
FairSpec == Spec /\ WF_vars(Tick) /\ WF_vars(JanitorTick)

-----------------------------------------------------------------------------
(* Get says that it deletes when the item is expired, and the janitor        *)
(* deletes expired items: no item leaves the map before its interval is      *)
(* over.  The code does not keep this: Get decides without the lock and then *)
(* deletes whatever is under the key, so a Set by another goroutine between  *)
(* the two is undone.                                                        *)
FreshKept ==
    [][\A k \in Keys : age[k] # Absent /\ age'[k] = Absent => age[k] >= Interval]_vars

(* The cache cleans itself up: an expired item leaves the map although       *)
(* nobody asks for it again, unless it is set anew or the janitor was told   *)
(* to stop.                                                                  *)
ExpiredReclaimed ==
    \A k \in Keys : age[k] > Interval ~> (age[k] <= Interval \/ stopped)
=============================================================================
