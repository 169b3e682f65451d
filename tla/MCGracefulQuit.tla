--------------------------- MODULE MCGracefulQuit ---------------------------
(* Requests for checking GracefulQuit with TLC.                              *)
EXTENDS GracefulQuit

CONSTANTS r1, r2

TwoReqs == {r1, r2}
=============================================================================
