------------------------------ MODULE MCProbes ------------------------------
(* Probes with certificates of which the intermediate goes first, of which  *)
(* one of two chains goes first, and of which the anchor goes first.        *)
EXTENDS Probes

MCCertificates ==
    {[leaf |-> 4, chains |-> {<<4, 1, 9>>}],
     [leaf |-> 3, chains |-> {<<3, 0, 9>>, <<3, 2, 9>>}],
     [leaf |-> 3, chains |-> {<<3, 1>>}]}
=============================================================================
