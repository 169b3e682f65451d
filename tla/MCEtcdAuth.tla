----------------------------- MODULE MCEtcdAuth -----------------------------
(* Model values for checking EtcdAuth with TLC.                             *)
EXTENDS EtcdAuth

CONSTANTS p1, w

OneCaller  == {p1}
OneWatcher == {w}
=============================================================================
