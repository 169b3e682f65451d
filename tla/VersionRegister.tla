-------------------------- MODULE VersionRegister ---------------------------
(***************************************************************************)
(* What a self-update promises: some complete version of the program is     *)
(* always there to be started or restored, and it only ever moves from the  *)
(* old version to the new one.                                              *)
(***************************************************************************)
VARIABLE version

Init    == version = "old"
Upgrade == version = "old" /\ version' = "new"
Spec    == Init /\ [][Upgrade]_version
=============================================================================
