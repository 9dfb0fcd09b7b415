---------------------------- MODULE MCThresholds ----------------------------
(* Thresholds with 52 as threshold, so that 47 is still in the gap. *)
EXTENDS Thresholds
=============================================================================
