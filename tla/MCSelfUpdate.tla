---------------------------- MODULE MCSelfUpdate ----------------------------
(* Updaters and files for checking SelfUpdate with TLC.                      *)
EXTENDS SelfUpdate

CONSTANTS u1

OneUpdater == {u1}
FourInodes == 1..4
=============================================================================
