---------------------------- MODULE MCTimedCache ----------------------------
(* Clients and keys for checking TimedCache with TLC.                        *)
EXTENDS TimedCache

CONSTANTS c1, c2, k1, k2

TwoClients == {c1, c2}
TwoKeys    == {k1, k2}
=============================================================================
