----------------------------- MODULE MCSftpPool -----------------------------
(* Model values for checking SftpPool with TLC.                             *)
EXTENDS SftpPool

CONSTANTS p1, p2

TwoProcs  == {p1, p2}
BothForms == {"bare", "port"}
=============================================================================
