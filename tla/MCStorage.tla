----------------------------- MODULE MCStorage -----------------------------
(* A small instance of Storage for TLC: one kind of silence.               *)
EXTENDS Storage
MCMatchers == {[target |-> {"api"}]}
=============================================================================
