---------------------------- MODULE MCJsonlReader ---------------------------
(* JsonlReader with the bounds of the .cfg files.                            *)
EXTENDS JsonlReader

Zones == {-1, 0, 1}
=============================================================================
