---------------------------- MODULE MCEtcdWatch -----------------------------
(* EtcdWatch with the bounds of the .cfg files.                              *)
EXTENDS EtcdWatch
=============================================================================
