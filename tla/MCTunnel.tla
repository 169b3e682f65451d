------------------------------ MODULE MCTunnel ------------------------------
(* The callers for checking Tunnel with TLC: the relay with all that can     *)
(* happen to it, a terminal with resizes whose shell prints or is silent, a  *)
(* terminal without that uses both of its output streams and has no write    *)
(* deadline.                                                                 *)
EXTENDS Tunnel

Caller(k, w, p, s, n) == [kind |-> k, wtimeout |-> w, ka |-> p, streams |-> s, maxUp |-> n]
Callers ==
    {Caller("tcp", TRUE, "on", {"out"}, 3), Caller("tcp", FALSE, "on", {"out"}, 3),
     Caller("bare", FALSE, "done", {"out"}, 3), Caller("ssh", TRUE, "done", {"out"}, 2),
     Caller("ssh", TRUE, "done", {}, 3), Caller("plain", FALSE, "done", {"out", "err"}, 2)}
=============================================================================
