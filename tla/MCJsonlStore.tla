---------------------------- MODULE MCJsonlStore ----------------------------
(* Closers, and a synchronous and an asynchronous Store, for checking        *)
(* JsonlStore with TLC.                                                      *)
EXTENDS JsonlStore

CONSTANTS c1, c2

MCClosers == {c1, c2}
=============================================================================
