--------------------------- MODULE MCEventDetectors --------------------------
(* EventDetectors for TLC: one container, or one that is created again     *)
(* under its name; a silence of everything.                                *)
EXTENDS EventDetectors

MCName == [c \in Containers |-> "api"]
MCProject == [c \in Containers |-> "shop"]
MCStopSignal == [c \in Containers |-> "quit"]
MCMatchers == {[target |-> {"", "api"}]}
MCWindowKeys == {<<"container", "api">>, <<"project", "shop">>}
=============================================================================
