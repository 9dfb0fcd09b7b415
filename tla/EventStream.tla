---------------------------- MODULE EventStream ----------------------------
(***************************************************************************)
(* Where nodux stands in the Docker event stream (runEvents in             *)
(* internal/engine/engine.go, saveState and restore in persist.go).        *)
(*                                                                         *)
(* The daemon replays everything from `since' inclusive, events can share  *)
(* a timestamp, connections break, nodux is stopped, killed and started    *)
(* again.  `applied' is what the state in memory is made of: the events    *)
(* whose effect it contains.  A crash takes the memory back to the last    *)
(* saved state, and applied with it.                                       *)
(*                                                                         *)
(* The host's clock never goes back here, so a saved position is never     *)
(* after now (persist.go:195 then starts at now, with the state of the     *)
(* file).                                                                  *)
(***************************************************************************)
EXTENDS Integers, Sequences, FiniteSets

CONSTANTS
    EventKeys,   \* ev.Action + "/" + ev.Actor.ID
    MaxReplay,   \* maxReplay (1h), in ticks
    BufferSize,  \* events the daemon keeps for replay
    MaxLog,      \* bound: events in a behaviour
    MaxTime,     \* bound: clock
    MaxFaults    \* bound: crashes, lost connections, unreadable state files

ASSUME StreamAssumption ==
    /\ MaxReplay \in Nat \ {0}
    /\ BufferSize \in Nat /\ MaxLog \in Nat /\ MaxTime \in Nat /\ MaxFaults \in Nat

VARIABLES
    now,        \* the clock; 0 is the zero time.Time
    log,        \* every event the daemon ever emitted, in order (external)
    faults,     \* faults so far
    status,     \* of the nodux process: "up" or "down"
    evSince, evLast, evHandled,   \* the engine's position
    cursor,     \* next index the open connection delivers; 0 = not connected
    saved,      \* the state file
    applied,    \* indices whose effect is in memory
    excused     \* indices nobody promised: before the start, cut by maxReplay
                \* or by the daemon's buffer

vars == <<now, log, faults, status, evSince, evLast, evHandled, cursor, saved,
          applied, excused>>

Up == status = "up"

position == <<evSince, evLast, evHandled>>

Index  == 1..Len(log)
Before(t) == {i \in Index : log[i].time < t}

NoFile == [since |-> 0, handled |-> {}, applied |-> {}, excused |-> {}]

-----------------------------------------------------------------------------
(* Time passes; the daemon emits an event.  Two events with one timestamp  *)
(* differ in action or container.                                          *)
Tick ==
    /\ now < MaxTime
    /\ now' = now + 1
    /\ UNCHANGED <<log, faults, status, position, cursor, saved, applied, excused>>

Emit(k) ==
    /\ Len(log) < MaxLog
    /\ \A i \in Index : log[i] # [time |-> now, key |-> k]
    /\ log' = Append(log, [time |-> now, key |-> k])
    /\ UNCHANGED <<now, faults, status, position, cursor, saved, applied, excused>>

(* Mutant: a stream that has delivered something is not opened again.      *)
ConnectOnce ==
    /\ Up /\ cursor = 0 /\ evLast = 0
    /\ \E c \in 1..(Len(log) + 1) :
         /\ \A i \in Index :
              i < c <=> log[i].time < evSince \/ i <= Len(log) - BufferSize
         /\ cursor' = c
    /\ excused' = excused \cup {i \in Index : i <= Len(log) - BufferSize}
    /\ UNCHANGED <<now, log, faults, status, position, saved, applied>>

(* docker.Events(ctx, evSince, ...): the daemon starts with the first      *)
(* event it still has that is not older than since.                        *)
Connect ==
    /\ Up /\ cursor = 0
    /\ \E c \in 1..(Len(log) + 1) :
         /\ \A i \in Index :
              i < c <=> log[i].time < evSince \/ i <= Len(log) - BufferSize
         /\ cursor' = c
    /\ excused' = excused \cup {i \in Index : i <= Len(log) - BufferSize}
    /\ UNCHANGED <<now, log, faults, status, position, saved, applied>>

(* The handler, under eventMu: skip what was handled already, else move    *)
(* the position and handle the event.                                      *)
Seen(ev) ==
    \/ ev.time < evLast
    \/ ev.time = evLast /\ ev.key \in evHandled

(* Mutant: an event at the last timestamp counts as handled.               *)
HandleNewer ==
    /\ Up /\ cursor \in Index
    /\ LET ev == log[cursor] IN
         IF ev.time <= evLast
         THEN UNCHANGED <<position, applied>>
         ELSE /\ evHandled' = {ev.key}
              /\ evLast'  = ev.time
              /\ evSince' = ev.time
              /\ applied' = applied \cup {cursor}
    /\ cursor' = cursor + 1
    /\ UNCHANGED <<now, log, faults, status, saved, excused>>

Handle ==
    /\ Up /\ cursor \in Index
    /\ LET ev == log[cursor] IN
         IF Seen(ev)
         THEN UNCHANGED <<position, applied>>
         ELSE /\ evHandled' = (IF ev.time = evLast THEN evHandled ELSE {})
                                \cup {ev.key}
              /\ evLast'  = ev.time
              /\ evSince' = ev.time
              /\ applied' = applied \cup {cursor}
    /\ cursor' = cursor + 1
    /\ UNCHANGED <<now, log, faults, status, saved, excused>>

(* The stream fails; runEvents reconnects from evSince.                    *)
Disconnect ==
    /\ Up /\ cursor # 0 /\ faults < MaxFaults
    /\ faults' = faults + 1
    /\ cursor' = 0
    /\ UNCHANGED <<now, log, status, position, saved, applied, excused>>

(* Mutant: the events handled at the last timestamp are not saved.         *)
SnapshotBare ==
    [since |-> evSince, handled |-> {}, applied |-> applied,
     excused |-> excused]

(* saveState, with eventMu held: the position and the state it goes with.  *)
Snapshot ==
    [since   |-> evSince,
     handled |-> IF evSince = evLast THEN evHandled ELSE {},
     applied |-> applied,
     excused |-> excused]

Save ==
    /\ Up
    /\ saved' = Snapshot
    /\ UNCHANGED <<now, log, faults, status, position, cursor, applied, excused>>

(* Run ends: the loops return, then the state is saved once more.          *)
Stop ==
    /\ Up
    /\ status' = "down" /\ cursor' = 0
    /\ saved' = Snapshot
    /\ UNCHANGED <<now, log, faults, position, applied, excused>>

(* kill -9, a power cut: memory is gone, the file stays as it was.         *)
Crash ==
    /\ Up /\ faults < MaxFaults
    /\ faults' = faults + 1
    /\ status' = "down" /\ cursor' = 0
    /\ UNCHANGED <<now, log, position, saved, applied, excused>>

(* restore: no usable file.                                                *)
StartFresh ==
    /\ ~Up
    /\ \/ saved.since = 0 /\ UNCHANGED faults
       \/ saved.since # 0 /\ faults < MaxFaults /\ faults' = faults + 1
    /\ status' = "up"
    /\ evSince' = now /\ evLast' = 0 /\ evHandled' = {}
    /\ applied' = {} /\ excused' = Before(now)
    /\ UNCHANGED <<now, log, cursor, saved>>

(* Mutant: the last hour is replayed without asking how old the file is.   *)
StartLateAlways ==
    /\ ~Up
    /\ saved.since # 0
    /\ status' = "up"
    /\ evSince' = now - MaxReplay /\ evLast' = 0 /\ evHandled' = {}
    /\ applied' = saved.applied
    /\ excused' = saved.excused \cup Before(now - MaxReplay)
    /\ UNCHANGED <<now, log, faults, cursor, saved>>

(* restore: the file is too old to replay everything since.                *)
StartLate ==
    /\ ~Up
    /\ saved.since # 0 /\ now - saved.since > MaxReplay
    /\ status' = "up"
    /\ evSince' = now - MaxReplay /\ evLast' = 0 /\ evHandled' = {}
    /\ applied' = saved.applied
    /\ excused' = saved.excused \cup Before(now - MaxReplay)
    /\ UNCHANGED <<now, log, faults, cursor, saved>>

(* restore: resume where the file says.                                    *)
Resume ==
    /\ ~Up
    /\ saved.since # 0 /\ now - saved.since <= MaxReplay
    /\ status' = "up"
    /\ evSince' = saved.since /\ evLast' = saved.since
    /\ evHandled' = saved.handled
    /\ applied' = saved.applied /\ excused' = saved.excused
    /\ UNCHANGED <<now, log, faults, cursor, saved>>

Init ==
    /\ now = 1 /\ log = <<>> /\ faults = 0
    /\ status = "down" /\ cursor = 0
    /\ evSince = 0 /\ evLast = 0 /\ evHandled = {}
    /\ saved = NoFile
    /\ applied = {} /\ excused = {}

Next == \/ Tick \/ \E k \in EventKeys : Emit(k)
        \/ Connect \/ Handle \/ Disconnect \/ Save \/ Stop \/ Crash
        \/ StartFresh \/ StartLate \/ Resume

Spec == Init /\ [][Next]_vars

(* The event loop keeps running and the service manager starts nodux       *)
(* again; nothing forces a save between two events.                        *)
Fairness ==
    /\ WF_vars(Connect) /\ WF_vars(Handle)
    /\ WF_vars(StartFresh \/ StartLate \/ Resume)

FairSpec == Spec /\ Fairness

-----------------------------------------------------------------------------
Event == [time : Nat \ {0}, key : EventKeys]
File == [since : Nat, handled : SUBSET EventKeys, applied : SUBSET Nat,
         excused : SUBSET Nat]

(* The position, the clock and the state file have their types; no time    *)
(* runs below zero, which restore's now - maxReplay could make it do.      *)
TypeOK ==
    /\ now \in Nat \ {0}
    /\ log \in Seq(Event)
    /\ faults \in Nat
    /\ status \in {"up", "down"}
    /\ evSince \in Nat /\ evLast \in Nat /\ evHandled \in SUBSET EventKeys
    /\ cursor \in Nat
    /\ saved \in File
    /\ applied \in SUBSET Nat
    /\ excused \in SUBSET Nat

(* An event whose effect is in memory is never applied to it again, by a   *)
(* reconnect, a restart or a replay of events that share its timestamp.    *)
NeverTwice ==
    [][Handle /\ ~Seen(log[cursor]) => cursor \notin applied]_vars

(* The events applied have no gap: if a later event is in memory, so is    *)
(* every earlier one that was promised, ties included.                     *)
NoGap ==
    \A j \in applied : \A i \in 1..(j - 1) : i \in applied \cup excused

(* Once nodux is left running, every event the daemon could still replay   *)
(* is handled, whatever crashes and lost connections came before.          *)
EveryEventHandled ==
    <>[]Up => \A i \in 1..MaxLog :
                [](i <= Len(log) => <>[](i \in applied \cup excused))
=============================================================================
