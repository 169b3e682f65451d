---------------------------- MODULE GracefulQuit ----------------------------
(***************************************************************************)
(* How a program ends: signal.OnQuit and CallQuitFuncs (src/signal), Fatal  *)
(* (src/logman/global.go) and the callback httpd.Server registers           *)
(* (src/httpd/server.go), which shuts the server down within 9 seconds.     *)
(* The program registers a callback of its own, then calls Server as the    *)
(* last thing main does.  A signal and a Fatal in some goroutine may come   *)
(* at any time; each of them runs the callbacks and exits.                  *)
(***************************************************************************)
EXTENDS Naturals, Sequences

CONSTANTS
    Reqs,        \* requests clients may send
    WithFatal    \* some goroutine may call Fatal

ASSUME QuitAssumption == WithFatal \in BOOLEAN

Runners == {"signal", "fatal"}

VARIABLES
    callbacks,   \* quitCallbacks
    main,        \* "setup", "register", "serve", "after"
    server,      \* "new", "up", "closing"
    req,         \* [Reqs -> "none", "active", "done", "cut"]
    pending,     \* quitSignalChan holds a signal
    pc,          \* [Runners -> "idle", "run", "shutdown"]
    todo,        \* [Runners -> Seq] callbacks the range loop has not called yet
    exited,      \* the process has ended
    forced,      \* history: a Shutdown ran into its deadline
    blind        \* history: exited by callbacks fixed before Server registered its own

serving == <<server, req>>
quit    == <<callbacks, pending, pc, todo>>
vars    == <<serving, quit, main, exited, forced, blind>>

Init ==
    /\ callbacks = <<>> /\ main = "setup" /\ server = "new"
    /\ req = [r \in Reqs |-> "none"] /\ pending = FALSE
    /\ pc = [x \in Runners |-> "idle"] /\ todo = [x \in Runners |-> <<>>]
    /\ exited = FALSE /\ forced = FALSE /\ blind = FALSE

\* Requests that are active when the process ends, or when connections are closed.
Cut == [r \in Reqs |-> IF req[r] = "active" THEN "cut" ELSE req[r]]

OnQuit(f) == callbacks' = Append(callbacks, f)

-----------------------------------------------------------------------------
(* main and the server.                                                      *)

\* The program registers its callback.
MainRegisters ==
    /\ main = "setup" /\ main' = "register" /\ OnQuit("app")
    /\ UNCHANGED <<serving, pending, pc, todo, exited, forced, blind>>

\* Server: signal.OnQuit ...
ServerRegisters ==
    /\ main = "register" /\ main' = "serve" /\ OnQuit("httpd")
    /\ UNCHANGED <<serving, pending, pc, todo, exited, forced, blind>>

\* ... ListenAndServe, which fails at once after a Shutdown ...
Listen ==
    /\ main = "serve" /\ server = "new" /\ server' = "up"
    /\ UNCHANGED <<req, quit, main, exited, forced, blind>>

\* ... or at once because the address is in use ...
ListenFails ==
    /\ main = "serve" /\ server = "new" /\ main' = "after"
    /\ UNCHANGED <<serving, quit, exited, forced, blind>>

\* ... and otherwise returns as soon as Shutdown has begun.
ServerReturns ==
    /\ main = "serve" /\ server = "closing" /\ main' = "after"
    /\ UNCHANGED <<serving, quit, exited, forced, blind>>

\* main returns, and the process ends.
MainReturns ==
    /\ main = "after"
    /\ exited' = TRUE /\ req' = Cut
    /\ UNCHANGED <<server, quit, main, forced, blind>>

Arrive(r) ==
    /\ server = "up" /\ req[r] = "none" /\ req' = [req EXCEPT ![r] = "active"]
    /\ UNCHANGED <<server, quit, main, exited, forced, blind>>

Finish(r) ==
    /\ req[r] = "active" /\ req' = [req EXCEPT ![r] = "done"]
    /\ UNCHANGED <<server, quit, main, exited, forced, blind>>

-----------------------------------------------------------------------------
(* Quitting.                                                                 *)

\* A signal arrives, once OnQuit has installed the channel; a second one is dropped.
Signal ==
    /\ callbacks # <<>> /\ ~pending /\ pc["signal"] = "idle"
    /\ pending' = TRUE
    /\ UNCHANGED <<serving, callbacks, pc, todo, main, exited, forced, blind>>

\* CallQuitFuncs by x: the range loop evaluates quitCallbacks once.
Begin(x) ==
    /\ pc[x] = "idle"
    /\ IF x = "signal" THEN pending ELSE WithFatal
    /\ pending' = IF x = "signal" THEN FALSE ELSE pending
    /\ pc' = [pc EXCEPT ![x] = "run"] /\ todo' = [todo EXCEPT ![x] = callbacks]
    /\ blind' = (blind \/ \A i \in DOMAIN callbacks : callbacks[i] # "httpd")
    /\ UNCHANGED <<serving, callbacks, main, exited, forced>>

Next1(x) == pc' = [pc EXCEPT ![x] = "run"] /\ todo' = [todo EXCEPT ![x] = Tail(@)]

\* The program's callback.
CallApp(x) ==
    /\ pc[x] = "run" /\ todo[x] # <<>> /\ Head(todo[x]) = "app"
    /\ Next1(x)
    /\ UNCHANGED <<serving, callbacks, pending, main, exited, forced, blind>>

\* Server's callback: Shutdown stops listening ...
Shutdown(x) ==
    /\ pc[x] = "run" /\ todo[x] # <<>> /\ Head(todo[x]) = "httpd"
    /\ server' = "closing" /\ pc' = [pc EXCEPT ![x] = "shutdown"]
    /\ UNCHANGED <<req, callbacks, pending, todo, main, exited, forced, blind>>

\* A slip: Shutdown is not waited for.
DrainedSkipped(x) ==
    /\ pc[x] = "shutdown" /\ Next1(x)
    /\ UNCHANGED <<serving, callbacks, pending, main, exited, forced, blind>>

\* ... and returns once no request is active ...
Drained(x) ==
    /\ pc[x] = "shutdown" /\ (\A r \in Reqs : req[r] # "active")
    /\ Next1(x)
    /\ UNCHANGED <<serving, callbacks, pending, main, exited, forced, blind>>

\* A slip: Shutdown gets a context without deadline.
NoDeadline(x) == FALSE

\* ... or after 9 seconds; then Close cuts the rest.
Deadline(x) ==
    /\ pc[x] = "shutdown" /\ (\E r \in Reqs : req[r] = "active")
    /\ req' = Cut /\ forced' = TRUE /\ Next1(x)
    /\ UNCHANGED <<server, callbacks, pending, main, exited, blind>>

\* os.Exit behind the loop.
Exit(x) ==
    /\ pc[x] = "run" /\ todo[x] = <<>>
    /\ exited' = TRUE /\ req' = Cut
    /\ UNCHANGED <<server, quit, main, forced, blind>>

Run(x) == Begin(x) \/ CallApp(x) \/ Shutdown(x) \/ Drained(x) \/ Deadline(x) \/ Exit(x)

Next ==
    /\ ~exited
    /\ \/ MainRegisters \/ ServerRegisters \/ Listen \/ ListenFails \/ ServerReturns \/ MainReturns
       \/ \E r \in Reqs : Arrive(r) \/ Finish(r)
       \/ Signal
       \/ \E x \in Runners : Run(x)

Spec == Init /\ [][Next]_vars

(* The goroutine of OnQuit is scheduled, the program's callback ends and the *)
(* 9 seconds pass; clients owe nothing.                                      *)
FairSpec == Spec /\ WF_vars(~exited /\ Run("signal"))

-----------------------------------------------------------------------------
(* The comment in Server says that the service is closed without             *)
(* interrupting any active connection: a request is cut only when its        *)
(* Shutdown ran into the deadline, or the callbacks were already being       *)
(* called when Server registered its own.                                    *)
NoRequestCut == (\E r \in Reqs : req[r] = "cut") => forced \/ blind

(* The callbacks themselves keep that promise: whoever calls os.Exit after   *)
(* them, the goroutine of OnQuit or Fatal, and whichever of the two shut the *)
(* server down, no request is active then unless Server had not yet          *)
(* registered when the callbacks were fixed.                                 *)
ExitsDrained ==
    [][\A x \in Runners, r \in Reqs : Exit(x) /\ req[r] = "active" => blind]_vars

(* A signal ends the process: no client that keeps its request open, no      *)
(* concurrent Fatal and no late registration can hold the callbacks for      *)
(* ever.                                                                     *)
QuitEnds == pending ~> exited
=============================================================================
