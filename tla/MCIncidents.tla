---------------------------- MODULE MCIncidents ----------------------------
(* Small instances of Incidents for TLC: two containers that share nothing *)
(* and the host.                                                           *)
EXTENDS Incidents

MCSubjects == [s \in Sources |->
    CASE s = "web" -> {"container:web"}
      [] s = "db" -> {"container:db"}
      [] OTHER -> {}]
=============================================================================
