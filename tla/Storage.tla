------------------------------ MODULE Storage ------------------------------
(***************************************************************************)
(* What is kept in state_dir, over crashes, power losses and restarts: the *)
(* silences, which the control API changes (internal/server/server.go) and *)
(* saveState and restore (internal/engine/persist.go) keep in state.json,  *)
(* and the alert history with the digest built from it.  app.run           *)
(* (cmd/nodux/main.go) starts the API before the engine restores the       *)
(* state, and a request under way at shutdown may be answered after the    *)
(* last save, so the API works whenever there is a process.  What else is  *)
(* in the state file is the subject of the other modules.                  *)
(***************************************************************************)
EXTENDS Silences, StateFile, History

CONSTANTS MaxTime, MaxFaults

VARIABLES
    mode,            \* down, starting, up, stopping, saved
    faults,          \* crashes, power losses and unreadable state files
    acked,           \* history: what the API has told its users,
    pledged,         \* as it was when the Save under way began,
    firm             \* and as it is sure to be on disk
storageVars == <<now, store, file, history, mode, faults, acked, pledged, firm>>
ghosts == <<acked, pledged, firm>>

NoPromise == [kept |-> {}, ended |-> {}]

StorageInit ==
    /\ now = 0 /\ mode = "down" /\ faults = 0
    /\ StoreInit /\ FileInit /\ HistoryInit
    /\ acked = NoPromise /\ pledged = NoPromise /\ firm = NoPromise

Running == mode # "down"
Digesting == mode \in {"starting", "up"}

-----------------------------------------------------------------------------
(* POST and DELETE /api/silences.                                          *)
Issued == {x.id : x \in acked.kept} \cup acked.ended

AddSilence(m, d) ==
    /\ Running /\ Add(m, d)
    /\ \A x \in silences' \ silences : x.id \notin Issued
    /\ acked' = [acked EXCEPT !.kept = @ \cup (silences' \ silences)]
    /\ UNCHANGED <<now, file, history, mode, faults, pledged, firm>>

Ended(p, id) == [kept |-> {x \in p.kept : x.id # id}, ended |-> p.ended \cup {id}]

RemoveSilence(id) ==
    /\ Running /\ Remove(id)
    /\ acked' = Ended(acked, id)
    /\ firm' = [firm EXCEPT !.kept = {x \in @ : x.id # id}]
    /\ UNCHANGED <<now, file, history, mode, faults, pledged>>

-----------------------------------------------------------------------------
(* saveState, on the poll loop and once more when everything is delivered. *)
(* A Save that finds nothing to write has nothing left to do either.       *)
SaveState ==
    /\ \/ mode = "up" /\ UNCHANGED mode
       \/ mode = "stopping" /\ Pending = {} /\ mode' = "saved"
    /\ SaveStart(StoreSaved) /\ PruneStore
    /\ pledged' = acked
    /\ firm' = IF step' = "idle" /\ fallback = {} THEN acked ELSE firm
    /\ UNCHANGED <<now, history, faults, acked>>

SaveSteps ==
    /\ \/ (Sync \/ SaveFails \/ Rename \/ Settle(FALSE)) /\ UNCHANGED firm
       \/ /\ Settle(TRUE)
          /\ firm' = [kept |-> pledged.kept \cap acked.kept, ended |-> pledged.ended]
    /\ UNCHANGED <<now, store, history, mode, faults, acked, pledged>>

(* restore: an unreadable file is ignored and later overwritten.  What was *)
(* acknowledged and never saved is over.                                   *)
Current == [kept |-> silences', ended |-> acked.ended \ {x.id : x \in silences'}]

Restore ==
    /\ mode = "starting" /\ mode' = "up"
    /\ LoadFile
    /\ IF entry.data \in {None, Torn} THEN UNCHANGED store ELSE StoreLoad(entry.data)
    /\ acked' = Current
    /\ UNCHANGED <<now, history, faults, pledged, firm>>

RestoreFails ==
    /\ mode = "starting" /\ mode' = "up" /\ faults < MaxFaults /\ faults' = faults + 1
    /\ firm' = [firm EXCEPT !.kept = {}] /\ acked' = [acked EXCEPT !.kept = silences]
    /\ UNCHANGED <<now, store, file, history, pledged>>

-----------------------------------------------------------------------------
Start ==
    /\ mode = "down" /\ now < MaxTime /\ mode' = "starting"
    /\ silences' = {} /\ windows' = [k \in WindowKeys |-> 0]
    /\ StartHistory
    /\ UNCHANGED <<now, file, faults, ghosts>>

Stop == /\ mode = "up" /\ step = "idle" /\ mode' = "stopping"
        /\ UNCHANGED <<now, store, file, history, faults, ghosts>>

Exit == /\ mode = "saved" /\ step = "idle" /\ mode' = "down"
        /\ Gone /\ UNCHANGED <<disk, store, faults, now, ghosts>>
        /\ Checkpoint

Crash ==
    /\ Running /\ faults < MaxFaults /\ faults' = faults + 1
    /\ mode' = "down" /\ Gone /\ LoseHistory(Len(rows))
    /\ UNCHANGED <<now, store, disk, ghosts>>

PowerLoss ==
    /\ faults < MaxFaults /\ faults' = faults + 1
    /\ mode' = "down" /\ Gone /\ PowerLost
    /\ \E k \in 0..Len(rows) : LoseHistory(k)
    /\ UNCHANGED <<now, store, ghosts>>

(* A timer fires before the clock moves on: a tick is hours.               *)
Tick == /\ now < MaxTime /\ now' = now + 1
        /\ Digesting /\ due # -1 => now < due
        /\ UNCHANGED <<store, file, history, mode, faults, ghosts>>

HistoryStep ==
    /\ \/ mode = "up" /\ (\E a \in Alerts : Detect(a))
       \/ Running /\ (\E A \in SUBSET Alerts : AddAlerts(A))
       \/ Digesting /\ (PruneHistory \/ Build \/ SendDigest)
       \/ Running /\ Checkpoint
    /\ UNCHANGED <<now, store, file, mode, faults, ghosts>>

Step ==
    \/ \E m \in Matchers, d \in Durations : AddSilence(m, d)
    \/ \E id \in SilenceIds : RemoveSilence(id)
    \/ SaveState \/ SaveSteps \/ Restore \/ RestoreFails
    \/ Start \/ Stop \/ Exit \/ Crash \/ PowerLoss \/ Tick \/ HistoryStep

StorageSpec == StorageInit /\ [][Step]_storageVars

-----------------------------------------------------------------------------
(* state.go's "a crash or power loss leaves either the old file or the new *)
(* one, never half of each": the steps of Save, with failures at each of   *)
(* them, crashes and power losses, implement a document that is replaced   *)
(* as a whole.                                                             *)
Documents == [silences : SUBSET [id : SilenceIds, matcher : Matchers, until : Nat],
              windows : [WindowKeys -> Nat]]

ASSUME StorageAssumption ==
    None \notin Documents /\ Torn \notin Documents /\ None # Torn

Document == INSTANCE AtomicFile WITH
    Contents <- Documents, stored <- entry.data, older <- {f.data : f \in fallback}

ImplementsAtomicFile == Document!Spec

(* Whatever the API has acknowledged, and a later Save has put on disk,    *)
(* holds in every later process: the silence is in force until it ends or  *)
(* is removed, and a silence that was removed stays removed.  This is what *)
(* File.last is for: a Save that skips the write must find on disk what it *)
(* would have written.                                                     *)
SilencesKept ==
    mode \in {"up", "stopping", "saved"} =>
        /\ \A x \in firm.kept : x \in silences \/ x.until <= now
        /\ \A x \in silences : x.id \notin firm.ended
=============================================================================
