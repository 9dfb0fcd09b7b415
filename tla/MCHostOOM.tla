----------------------------- MODULE MCHostOOM -----------------------------
(* HostOOM for TLC: the .cfg files give the constants.                     *)
EXTENDS HostOOM
=============================================================================
