------------------------------ MODULE AtomicFile ------------------------------
(***************************************************************************)
(* What state.File promises: a document that is replaced as a whole.  A    *)
(* crash or a power loss leaves one of the documents that were stored, and *)
(* only a power loss before the directory is on disk goes back to an       *)
(* earlier one.                                                            *)
(***************************************************************************)
CONSTANTS Contents,   \* the documents
          None        \* nothing was saved yet

VARIABLES stored,     \* what Load reads
          older       \* what it may read after a power loss

Init == stored = None /\ older = {}

Replace == stored' \in Contents /\ older' = older \cup {stored}

Settle == older' = {} /\ UNCHANGED stored

Lose == stored' \in older \cup {stored} /\ older' = {}

Next == Replace \/ Settle \/ Lose

Spec == Init /\ [][Next]_<<stored, older>>
=============================================================================
