------------------------------- MODULE Clock -------------------------------
(* The wall clock that the components of one process share.                *)
VARIABLE now
=============================================================================
