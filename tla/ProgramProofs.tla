--------------------------- MODULE ProgramProofs ----------------------------
(***************************************************************************)
(* Proofs about what a program does with itself: how it replaces its file   *)
(* (SelfUpdate) and how it ends (GracefulQuit).                             *)
(***************************************************************************)
EXTENDS SelfUpdate, Integers, SequenceTheorems, TLAPS

CONSTANTS Reqs, WithFatal
VARIABLES callbacks, main, server, req, pending, runner, todo, exited, forced, blind

Quit == INSTANCE GracefulQuit WITH pc <- runner

-----------------------------------------------------------------------------
(* SelfUpdate.  Type correctness for any number of updaters, and for one     *)
(* updater with a checksum that the program at the target path is complete,  *)
(* never lost and never downgraded, wherever Apply fails or the process      *)
(* crashes.                                                                  *)

(* Every step keeps the types.                                               *)
LEMMA TypeStep == TypeOK /\ [Next]_vars => TypeOK'
<1> SUFFICES ASSUME TypeOK, [Next]_vars PROVE TypeOK'
    OBVIOUS
<1> USE DEF TypeOK, Goto
<1>1. CASE Crash \/ Restart
    BY <1>1, UpdateAssumption DEF Crash, Restart, files, Steps
<1>2. ASSUME NEW u \in Updaters, Download(u) PROVE TypeOK'
  <2>1. PICK i \in Inodes :
          /\ dir' = [dir EXCEPT !["tmp"] = i]
          /\ content' = [content EXCEPT ![i] = "part"]
          /\ exec' = [exec EXCEPT ![i] = Exists("tmp") /\ @]
          /\ fd' = [fd EXCEPT ![u] = i]
      BY <1>2 DEF Download
  <2>2. exec' \in [Inodes -> BOOLEAN]
      BY <2>1 DEF Exists
  <2>3. QED
      BY <1>2, <2>1, <2>2, UpdateAssumption DEF Download, Paths, Contents, Steps
<1>3. ASSUME NEW u \in Updaters, Filled(u) PROVE TypeOK'
    BY <1>3, UpdateAssumption DEF Filled, Contents, Steps
<1>4. ASSUME NEW u \in Updaters, Verify(u) PROVE TypeOK'
    BY <1>4 DEF Verify, files, Steps
<1>5. ASSUME NEW u \in Updaters, Chmod(u) PROVE TypeOK'
    BY <1>5 DEF Chmod, Steps
<1>6. ASSUME NEW u \in Updaters, Stat(u) PROVE TypeOK'
    BY <1>6 DEF Stat, files, Steps
<1>7. ASSUME NEW u \in Updaters, Unlink(u) PROVE TypeOK'
    BY <1>7 DEF Unlink, Remove, Steps
<1>8. ASSUME NEW u \in Updaters, Backup(u) PROVE TypeOK'
    BY <1>8 DEF Backup, Rename, Paths, Steps
<1>9. ASSUME NEW u \in Updaters, Install(u) PROVE TypeOK'
    BY <1>9 DEF Install, Rename, Paths, Steps
<1>10. ASSUME NEW u \in Updaters, InstallFails(u) PROVE TypeOK'
    BY <1>10 DEF InstallFails, files, Steps
<1>11. ASSUME NEW u \in Updaters, Rollback(u) PROVE TypeOK'
    BY <1>11 DEF Rollback, Rename, Paths, Steps
<1>12. ASSUME NEW u \in Updaters, Clean(u) PROVE TypeOK'
    BY <1>12 DEF Clean, Remove, Steps
<1>13. ASSUME NEW u \in Updaters, Fails(u) PROVE TypeOK'
    BY <1>13 DEF Fails, files, Steps
<1>14. ASSUME NEW u \in Updaters, Check(u) PROVE TypeOK'
    BY <1>14 DEF Check, files, Steps
<1>15. CASE UNCHANGED vars
    BY <1>15 DEF vars, files
<1>16. QED
    BY <1>1, <1>2, <1>3, <1>4, <1>5, <1>6, <1>7, <1>8, <1>9, <1>10, <1>11, <1>12, <1>13,
       <1>14, <1>15 DEF Next, Apply

(* The types hold initially.                                                 *)
LEMMA TypeInit == Init => TypeOK
BY UpdateAssumption DEF Init, TypeOK, Paths, Contents, Steps

(* The files, modes and program counters of Apply keep their types, and a    *)
(* download under way has its file open, for any number of updaters.         *)
THEOREM TypeCorrect == Spec => []TypeOK
BY TypeInit, TypeStep, PTL DEF Spec

-----------------------------------------------------------------------------
\* The inductive invariant for one updater u.
Safe(p) == Exists(p) => Complete(p)

UInv(u) ==
    /\ TypeOK
    /\ \A p, q \in Paths : dir[p] # 0 /\ dir[p] = dir[q] => p = q
    /\ fd[u] # 0 => fd[u] = dir["tmp"]
    /\ Safe("target") /\ Safe("backup")
    /\ Exists("target") \/ Exists("backup")
    /\ pc[u] \in {"chmod", "stat", "unlink", "backup", "install"}
         => Exists("tmp") /\ content[dir["tmp"]] = "new"
    /\ pc[u] \in {"stat", "unlink", "backup", "install"} => exec[dir["tmp"]]
    /\ pc[u] \in {"unlink", "backup", "clean"} => Exists("target")
    /\ pc[u] \in {"install", "rollback"} => ~Exists("target")

\* What a step may do to the version that can be started or restored.
Forward == Recoverable' = Recoverable \/ (Recoverable = "old" /\ Recoverable' = "new")

(* The invariant holds initially.                                            *)
LEMMA UInit ==
    ASSUME NEW u, Updaters = {u}, Init
    PROVE  UInv(u) /\ Recoverable = "old"
<1>1. TypeOK
    BY TypeInit
<1>2. PICK i \in Inodes : /\ dir = [p \in Paths |-> IF p = "target" THEN i ELSE 0]
                         /\ exec = [j \in Inodes |-> j = i]
    BY DEF Init
<1>3. /\ dir["target"] = i /\ dir["backup"] = 0 /\ dir["tmp"] = 0 /\ i # 0
      /\ exec[i] /\ content[i] = "old" /\ pc[u] = "idle" /\ fd[u] = 0
    BY <1>2, UpdateAssumption DEF Init, Paths
<1>4. QED
    BY <1>1, <1>2, <1>3 DEF UInv, Safe, Complete, Exists, Recoverable, Paths

(* Every step of the one updater keeps the invariant and never goes back.    *)
LEMMA UStep ==
    ASSUME NEW u, Updaters = {u}, Checked, UInv(u), [Next]_vars
    PROVE  UInv(u)' /\ Forward
<1>1. TypeOK /\ TypeOK' /\ u \in Updaters
    BY TypeStep DEF UInv
<1> USE DEF Goto, Exists, Paths
<1>2. CASE Crash \/ Restart
    BY <1>1, <1>2 DEF Crash, Restart, files, UInv, Safe, Complete, Forward, Recoverable
<1>3. CASE Download(u)
  <2>1. PICK i \in Inodes :
          /\ IF dir["tmp"] # 0 THEN i = dir["tmp"] ELSE Unused(i)
          /\ dir' = [dir EXCEPT !["tmp"] = i]
          /\ content' = [content EXCEPT ![i] = "part"]
          /\ exec' = [exec EXCEPT ![i] = dir["tmp"] # 0 /\ @]
          /\ fd' = [fd EXCEPT ![u] = i]
      BY <1>3 DEF Download
  <2>2. i # 0 /\ i # dir["target"] /\ i # dir["backup"]
      BY <2>1, UpdateAssumption DEF UInv, Unused
  <2>3. /\ dir'["target"] = dir["target"] /\ dir'["backup"] = dir["backup"]
        /\ dir'["tmp"] = i /\ fd'[u] = i /\ pc'[u] = "fill"
      BY <1>1, <1>3, <2>1 DEF TypeOK, Download
  <2>4. \A j \in Inodes : j # i => content'[j] = content[j] /\ exec'[j] = exec[j]
      BY <1>1, <2>1 DEF TypeOK
  <2>5. dir["target"] \in Inodes \union {0} /\ dir["backup"] \in Inodes \union {0}
      BY <1>1 DEF TypeOK
  <2>6. Safe("target")' /\ Safe("backup")' /\ Forward
      BY <2>2, <2>3, <2>4, <2>5 DEF UInv, Safe, Complete, Forward, Recoverable
  <2>7. QED
      BY <1>1, <2>2, <2>3, <2>6 DEF UInv
<1>4. CASE Filled(u)
  <2>1. /\ fd[u] # 0 /\ fd[u] = dir["tmp"] /\ fd[u] \in Inodes /\ dir' = dir /\ exec' = exec
        /\ fd'[u] = 0 /\ pc'[u] = "verify"
      BY <1>1, <1>4 DEF Filled, UInv, TypeOK
  <2>2. \A j \in Inodes : j # fd[u] => content'[j] = content[j]
      BY <1>1, <1>4 DEF Filled, TypeOK
  <2>3. fd[u] # dir["target"] /\ fd[u] # dir["backup"]
      BY <2>1 DEF UInv
  <2>4. dir["target"] \in Inodes \union {0} /\ dir["backup"] \in Inodes \union {0}
      BY <1>1 DEF TypeOK
  <2>5. Safe("target")' /\ Safe("backup")' /\ Forward
      BY <2>1, <2>2, <2>3, <2>4 DEF UInv, Safe, Complete, Forward, Recoverable
  <2>6. QED
      BY <1>1, <2>1, <2>5 DEF UInv
<1>5. CASE Verify(u)
    BY <1>1, <1>5 DEF Verify, files, UInv, TypeOK, Safe, Complete, Forward, Recoverable
<1>6. CASE Chmod(u)
    BY <1>1, <1>6 DEF Chmod, UInv, TypeOK, Safe, Complete, Forward, Recoverable
<1>7. CASE Stat(u)
    BY <1>1, <1>7 DEF Stat, files, UInv, TypeOK, Safe, Complete, Forward, Recoverable
<1>8. CASE Unlink(u)
    BY <1>1, <1>8 DEF Unlink, Remove, UInv, TypeOK, Safe, Complete, Forward, Recoverable
<1>9. CASE Backup(u)
    BY <1>1, <1>9 DEF Backup, Rename, UInv, TypeOK, Safe, Complete, Forward, Recoverable
<1>10. CASE Install(u)
    BY <1>1, <1>10 DEF Install, Rename, UInv, TypeOK, Safe, Complete, Forward, Recoverable
<1>11. CASE InstallFails(u)
    BY <1>1, <1>11 DEF InstallFails, files, UInv, TypeOK, Safe, Complete, Forward, Recoverable
<1>12. CASE Rollback(u)
    BY <1>1, <1>12 DEF Rollback, Rename, UInv, TypeOK, Safe, Complete, Forward, Recoverable
<1>13. CASE Clean(u)
    BY <1>1, <1>13 DEF Clean, Remove, UInv, TypeOK, Safe, Complete, Forward, Recoverable
<1>14. CASE Fails(u)
    BY <1>1, <1>14 DEF Fails, files, UInv, TypeOK, Safe, Complete, Forward, Recoverable
<1>15. CASE Check(u)
    BY <1>1, <1>15 DEF Check, files, UInv, TypeOK, Safe, Complete, Forward, Recoverable
<1>16. CASE UNCHANGED vars
    BY <1>1, <1>16 DEF vars, files, UInv, Safe, Complete, Forward, Recoverable
<1>17. QED
    BY <1>2, <1>3, <1>4, <1>5, <1>6, <1>7, <1>8, <1>9, <1>10, <1>11, <1>12, <1>13, <1>14,
       <1>15, <1>16 DEF Next, Apply

(* With one updater and a checksum the inductive invariant always holds.     *)
THEOREM Invariant ==
    ASSUME NEW u, Updaters = {u}, Checked
    PROVE  Spec => []UInv(u)
<1>1. Init => UInv(u)
    BY UInit
<1>2. UInv(u) /\ [Next]_vars => UInv(u)'
    BY UStep
<1>3. QED
    BY <1>1, <1>2, PTL DEF Spec

(* With one updater and a checksum, what is at the target path is complete,  *)
(* verified and executable, wherever Apply fails or crashes.                 *)
THEOREM TargetAlwaysComplete ==
    ASSUME NEW u, Updaters = {u}, Checked
    PROVE  Spec => []TargetComplete
<1>1. UInv(u) => TargetComplete
    BY DEF UInv, Safe, TargetComplete
<1>2. Spec => []UInv(u)
    BY Invariant
<1>3. QED
    BY <1>1, <1>2, PTL

(* With one updater and a checksum the program is at the target path or can  *)
(* be restored from the backup.                                              *)
THEOREM ProgramNeverLost ==
    ASSUME NEW u, Updaters = {u}, Checked
    PROVE  Spec => []NeverLost
<1>1. UInv(u) => NeverLost
    BY DEF UInv, Safe, NeverLost
<1>2. Spec => []UInv(u)
    BY Invariant
<1>3. QED
    BY <1>1, <1>2, PTL

(* With one updater and a checksum, Apply with its failures, rollbacks and   *)
(* crashes implements VersionRegister.                                       *)
THEOREM UpdateRefinesRegister ==
    ASSUME NEW u, Updaters = {u}, Checked
    PROVE  Spec => NoDowngrade
<1>1. Init => Register!Init
    BY UInit DEF Register!Init
<1>2. UInv(u) /\ [Next]_vars => [Register!Upgrade]_Recoverable
    BY UStep DEF Register!Upgrade, Forward
<1>3. Spec => []UInv(u)
    BY Invariant
<1>4. QED
    BY <1>1, <1>2, <1>3, PTL DEF Spec, NoDowngrade, Register!Spec

-----------------------------------------------------------------------------
(* GracefulQuit.  Two runners, the goroutine of OnQuit and a Fatal, go       *)
(* through the callbacks each of them found when it began.                   *)

\* Server's callback is among those of s.
Registered(s) == \E i \in DOMAIN s : s[i] = "httpd"

\* The callbacks, and those a runner has still to call.
QuitTypes ==
    /\ callbacks \in Seq({"app", "httpd"})
    /\ todo \in [Quit!Runners -> Seq({"app", "httpd"})]
    /\ runner \in [Quit!Runners -> {"idle", "run", "shutdown"}]
    /\ req \in [Reqs -> {"none", "active", "done", "cut"}]

\* The server has stopped listening and no request is active any more.
AllDone == server = "closing" /\ \A r \in Reqs : req[r] # "active"

\* A runner that is waiting for Shutdown is at Server's callback, and one that has
\* no longer to call it has seen the last request end.
DrainInv ==
    /\ QuitTypes
    /\ \A x \in Quit!Runners :
         /\ runner[x] = "shutdown" => server = "closing" /\ todo[x] # <<>>
         /\ runner[x] # "idle" /\ ~blind => Registered(todo[x]) \/ AllDone

\* Calling the first callback leaves the others.
LEMMA RegisteredTail ==
    ASSUME NEW s \in Seq({"app", "httpd"}), s # <<>>
    PROVE  /\ Tail(s) \in Seq({"app", "httpd"})
           /\ Registered(s) /\ Head(s) = "app" => Registered(Tail(s))
<1>1. /\ Len(s) \in Nat \ {0} /\ Tail(s) \in Seq({"app", "httpd"}) /\ Len(Tail(s)) = Len(s) - 1
      /\ \A i \in 1 .. Len(s) - 1 : Tail(s)[i] = s[i + 1]
    BY HeadTailProperties, EmptySeq
<1>2. ASSUME NEW i \in DOMAIN s, s[i] = "httpd", Head(s) = "app" PROVE Registered(Tail(s))
  <2>1. i \in 1 .. Len(s) /\ i # 1
      BY <1>1, <1>2
  <2>2. i - 1 \in 1 .. Len(s) - 1 /\ (i - 1) + 1 = i
      BY <1>1, <2>1
  <2>3. Tail(s)[i - 1] = "httpd" /\ i - 1 \in DOMAIN Tail(s)
      BY <1>1, <1>2, <2>2
  <2>4. QED
      BY <2>3 DEF Registered
<1>3. QED
    BY <1>1, <1>2 DEF Registered

\* It holds at the start.
LEMMA DrainInit == Quit!Init => DrainInv
BY DEF Quit!Init, DrainInv, QuitTypes, Quit!Runners

\* The runner x goes on to the callback after the first.
LEMMA NextCallback ==
    ASSUME DrainInv, NEW x \in Quit!Runners, runner[x] # "idle", todo[x] # <<>>, Quit!Next1(x),
           UNCHANGED <<callbacks, blind, server>>,
           req' \in [Reqs -> {"none", "active", "done", "cut"}], AllDone => AllDone', Head(todo[x]) = "app" \/ AllDone'
    PROVE  DrainInv'
<1>1. /\ runner' = [runner EXCEPT ![x] = "run"] /\ todo' = [todo EXCEPT ![x] = Tail(@)]
      /\ QuitTypes
    BY DEF Quit!Next1, DrainInv
<1>2. /\ Tail(todo[x]) \in Seq({"app", "httpd"})
      /\ Registered(todo[x]) /\ Head(todo[x]) = "app" => Registered(Tail(todo[x]))
    BY <1>1, RegisteredTail DEF QuitTypes
<1>3. QuitTypes'
    BY <1>1, <1>2 DEF QuitTypes
<1>4. ASSUME NEW y \in Quit!Runners
      PROVE  /\ runner'[y] = "shutdown" => server' = "closing" /\ todo'[y] # <<>>
             /\ runner'[y] # "idle" /\ ~blind' => Registered(todo'[y]) \/ AllDone'
  <2>1. CASE y = x
    <3>1. runner'[y] = "run" /\ todo'[y] = Tail(todo[x])
        BY <1>1, <2>1 DEF QuitTypes
    <3>2. QED
        BY <1>2, <2>1, <3>1 DEF DrainInv
  <2>2. CASE y # x
    <3>1. runner'[y] = runner[y] /\ todo'[y] = todo[y]
        BY <1>1, <2>2 DEF QuitTypes
    <3>2. QED
        BY <3>1 DEF DrainInv
  <2>3. QED
      BY <2>1, <2>2
<1>5. QED
    BY <1>3, <1>4 DEF DrainInv

\* Runners and callbacks stay, and a server that is closing gets no request.
LEMMA DrainStays ==
    ASSUME DrainInv, UNCHANGED <<todo, runner, blind>>, callbacks' \in Seq({"app", "httpd"}),
           req' \in [Reqs -> {"none", "active", "done", "cut"}],
           AllDone => AllDone', server = "closing" => server' = "closing"
    PROVE  DrainInv'
BY DEF DrainInv, QuitTypes

\* Every step keeps it.
LEMMA DrainNext == DrainInv /\ [Quit!Next]_Quit!vars => DrainInv'
<1>0. SUFFICES ASSUME DrainInv, [Quit!Next]_Quit!vars PROVE DrainInv'
    OBVIOUS
<1>t. QuitTypes
    BY <1>0 DEF DrainInv
<1>1. CASE Quit!MainRegisters \/ Quit!ServerRegisters
  <2>1. callbacks' \in Seq({"app", "httpd"})
    <3>1. PICK f \in {"app", "httpd"} : callbacks' = Append(callbacks, f)
        BY <1>1 DEF Quit!MainRegisters, Quit!ServerRegisters, Quit!OnQuit
    <3>2. PICK S : S = {"app", "httpd"}
        OBVIOUS
    <3>3. callbacks \in Seq(S) /\ f \in S
        BY <1>t, <3>2 DEF QuitTypes
    <3>4. Append(callbacks, f) \in Seq(S)
        BY <3>3, AppendProperties
    <3>5. QED
        BY <3>1, <3>2, <3>4
  <2>2. UNCHANGED <<todo, runner, blind, server, req>>
      BY <1>1 DEF Quit!MainRegisters, Quit!ServerRegisters, Quit!serving
  <2>3. QED
      BY <1>0, <1>t, <2>1, <2>2, DrainStays DEF AllDone, QuitTypes
<1>2. CASE Quit!Listen \/ Quit!ListenFails \/ Quit!ServerReturns \/ Quit!Signal \/ UNCHANGED Quit!vars
  <2>1. UNCHANGED <<callbacks, todo, runner, blind, req>> /\ (server = "closing" => server' = "closing")
      BY <1>2 DEF Quit!Listen, Quit!ListenFails, Quit!ServerReturns, Quit!Signal, Quit!vars, Quit!serving, Quit!quit
  <2>2. QED
      BY <1>0, <1>t, <2>1, DrainStays DEF AllDone, QuitTypes
<1>3. CASE Quit!MainReturns \/ \E x \in Quit!Runners : Quit!Exit(x)
  <2>1. UNCHANGED <<callbacks, todo, runner, blind, server>> /\ req' = Quit!Cut
      BY <1>3 DEF Quit!MainReturns, Quit!Exit, Quit!quit
  <2>2. req' \in [Reqs -> {"none", "active", "done", "cut"}] /\ \A r \in Reqs : req'[r] # "active"
      BY <1>t, <2>1 DEF Quit!Cut, QuitTypes
  <2>3. QED
      BY <1>0, <1>t, <2>1, <2>2, DrainStays DEF AllDone, QuitTypes
<1>4. ASSUME NEW r \in Reqs, Quit!Arrive(r) \/ Quit!Finish(r) PROVE DrainInv'
  <2>1. /\ UNCHANGED <<callbacks, todo, runner, blind, server>>
        /\ req' \in [Reqs -> {"none", "active", "done", "cut"}]
        /\ AllDone => AllDone'
      BY <1>4, <1>t DEF Quit!Arrive, Quit!Finish, Quit!quit, AllDone, QuitTypes
  <2>2. QED
      BY <1>0, <1>t, <2>1, DrainStays DEF QuitTypes
<1>5. ASSUME NEW x \in Quit!Runners, Quit!Begin(x) PROVE DrainInv'
  <2>1. /\ runner' = [runner EXCEPT ![x] = "run"] /\ todo' = [todo EXCEPT ![x] = callbacks]
        /\ UNCHANGED <<callbacks, server, req>>
        /\ blind' = (blind \/ \A i \in DOMAIN callbacks : callbacks[i] # "httpd")
      BY <1>5 DEF Quit!Begin, Quit!serving
  <2>2. QuitTypes'
      BY <1>t, <2>1 DEF QuitTypes
  <2>3. ASSUME NEW y \in Quit!Runners
        PROVE  /\ runner'[y] = "shutdown" => server' = "closing" /\ todo'[y] # <<>>
               /\ runner'[y] # "idle" /\ ~blind' => Registered(todo'[y]) \/ AllDone'
    <3>1. CASE y = x
      <4>1. runner'[y] = "run" /\ todo'[y] = callbacks
          BY <1>t, <2>1, <3>1 DEF QuitTypes
      <4>2. ~blind' => Registered(callbacks)
          BY <2>1 DEF Registered
      <4>3. QED
          BY <4>1, <4>2
    <3>2. CASE y # x
      <4>1. runner'[y] = runner[y] /\ todo'[y] = todo[y] /\ (~blind' => ~blind)
          BY <1>t, <2>1, <3>2 DEF QuitTypes
      <4>2. QED
          BY <1>0, <2>1, <4>1 DEF DrainInv, AllDone
    <3>3. QED
        BY <3>1, <3>2
  <2>4. QED
      BY <2>2, <2>3 DEF DrainInv
<1>6. ASSUME NEW x \in Quit!Runners, Quit!CallApp(x) PROVE DrainInv'
  <2>1. /\ runner[x] # "idle" /\ todo[x] # <<>> /\ Head(todo[x]) = "app" /\ Quit!Next1(x)
        /\ UNCHANGED <<callbacks, blind, server, req>>
      BY <1>6 DEF Quit!CallApp, Quit!serving
  <2>2. QED
      BY <1>0, <1>t, <2>1, NextCallback DEF AllDone, QuitTypes
<1>7. ASSUME NEW x \in Quit!Runners, Quit!Shutdown(x) PROVE DrainInv'
  <2>1. /\ runner[x] = "run" /\ todo[x] # <<>> /\ server' = "closing"
        /\ runner' = [runner EXCEPT ![x] = "shutdown"] /\ UNCHANGED <<req, callbacks, todo, blind>>
      BY <1>7 DEF Quit!Shutdown
  <2>2. QED
      BY <1>0, <2>1 DEF DrainInv, QuitTypes, AllDone
<1>8. ASSUME NEW x \in Quit!Runners, Quit!Drained(x) \/ Quit!Deadline(x) PROVE DrainInv'
  <2>1. /\ runner[x] = "shutdown" /\ Quit!Next1(x) /\ UNCHANGED <<callbacks, blind, server>>
        /\ \/ req' = req /\ \A r \in Reqs : req[r] # "active"
           \/ req' = Quit!Cut
      BY <1>8 DEF Quit!Drained, Quit!Deadline, Quit!serving
  <2>2. req' \in [Reqs -> {"none", "active", "done", "cut"}] /\ \A r \in Reqs : req'[r] # "active"
      BY <1>t, <2>1 DEF Quit!Cut, QuitTypes
  <2>3. server = "closing" /\ todo[x] # <<>> /\ runner[x] # "idle"
      BY <1>0, <2>1 DEF DrainInv
  <2>4. QED
      BY <1>0, <2>1, <2>2, <2>3, NextCallback DEF AllDone
<1>9. QED
    BY <1>0, <1>1, <1>2, <1>3, <1>4, <1>5, <1>6, <1>7, <1>8 DEF Quit!Next, Quit!Run

\* No request is active when os.Exit is called behind the callbacks, unless Server
\* had not yet registered its own when they were fixed.
THEOREM CallbacksDrain == Quit!Spec => Quit!ExitsDrained
<1>1. DrainInv /\ [Quit!Next]_Quit!vars =>
        [\A x \in Quit!Runners, r \in Reqs : Quit!Exit(x) /\ req[r] = "active" => blind]_Quit!vars
  <2> SUFFICES ASSUME DrainInv, NEW x \in Quit!Runners, NEW r \in Reqs, Quit!Exit(x), req[r] = "active", ~blind
               PROVE  FALSE
      OBVIOUS
  <2>1. runner[x] = "run" /\ todo[x] = <<>>
      BY DEF Quit!Exit
  <2>2. ~Registered(todo[x])
      BY <2>1 DEF Registered
  <2>3. AllDone
      BY <2>1, <2>2 DEF DrainInv
  <2>4. QED
      BY <2>3 DEF AllDone
<1>2. QED
    BY DrainInit, DrainNext, <1>1, PTL DEF Quit!Spec, Quit!ExitsDrained
=============================================================================
