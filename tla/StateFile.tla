------------------------------ MODULE StateFile ------------------------------
(***************************************************************************)
(* state.File (internal/state/state.go), step by step, on a file system    *)
(* where a rename takes effect at once but is on disk only when the        *)
(* directory is synced, and a file that was not synced may come back torn. *)
(* A file is [data, whole]; whole: its data is on disk.                    *)
(***************************************************************************)
CONSTANTS None, Torn

VARIABLES entry,      \* the file state.json names
          fallback,   \* the files it may name after a power loss
          tmp,        \* the temporary file of the Save under way
          step,       \* how far that Save is
          last        \* File.last
disk == <<entry, fallback>>
file == <<entry, fallback, tmp, step, last>>

NoFile == [data |-> None, whole |-> TRUE]

FileInit == /\ entry = NoFile /\ fallback = {} /\ tmp = NoFile
            /\ step = "idle" /\ last = None

(* Mutant: last is taken over before the document is on disk.              *)
SaveStartTrusts(v) ==
    /\ step = "idle" /\ last' = v
    /\ \/ v = last /\ UNCHANGED <<tmp, step>>
       \/ v # last /\ tmp' = [data |-> v, whole |-> FALSE] /\ step' = "written"
    /\ UNCHANGED <<entry, fallback>>

(* Save: nothing is written when the document is the one on disk.  The     *)
(* write and the step that makes the data durable follow.                  *)
SaveStart(v) ==
    /\ step = "idle"
    /\ \/ v = last /\ UNCHANGED <<tmp, step>>
       \/ v # last /\ tmp' = [data |-> v, whole |-> FALSE] /\ step' = "written"
    /\ UNCHANGED <<entry, fallback, last>>

(* Mutant: the temporary file is renamed without a sync.                   *)
SyncNot == /\ step = "written" /\ step' = "synced"
           /\ UNCHANGED <<entry, fallback, tmp, last>>

Sync == /\ step = "written" /\ step' = "synced"
        /\ tmp' = [tmp EXCEPT !.whole = TRUE]
        /\ UNCHANGED <<entry, fallback, last>>

(* CreateTemp, Write, Sync, Close or Rename fails: last stays what it was. *)
SaveFails == /\ step \in {"written", "synced"} /\ step' = "idle" /\ tmp' = NoFile
             /\ UNCHANGED <<entry, fallback, last>>

Rename == /\ step = "synced" /\ step' = "renamed"
          /\ entry' = tmp /\ fallback' = fallback \cup {entry} /\ tmp' = NoFile
          /\ UNCHANGED last

(* The directory is synced; an error there is ignored.                     *)
Settle(ok) == /\ step = "renamed" /\ step' = "idle"
              /\ fallback' = IF ok THEN {} ELSE fallback
              /\ last' = entry.data
              /\ UNCHANGED <<entry, tmp>>

(* Load remembers what it read.                                            *)
LoadFile == /\ last' = IF entry.data = Torn THEN last ELSE entry.data
            /\ UNCHANGED <<entry, fallback, tmp, step>>

(* The process is gone, and its temporary file is never looked at again.   *)
Gone == tmp' = NoFile /\ step' = "idle" /\ last' = None

PowerLost ==
    /\ \E f \in fallback \cup {entry} :
          entry' = IF f.whole THEN f ELSE [data |-> Torn, whole |-> TRUE]
    /\ fallback' = {}
=============================================================================
