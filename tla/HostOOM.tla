------------------------------- MODULE HostOOM -------------------------------
(***************************************************************************)
(* HostOOMDetector (internal/detector/hostoom.go): which OOM kills were    *)
(* outside any container.                                                  *)
(*                                                                         *)
(* The kernel counts every kill; a container's kill also comes as a Docker *)
(* event, later and through another goroutine.  Check matches the two by   *)
(* count.  `pending' holds one entry per kill (an oomBatch of n kills is n *)
(* equal entries).  State is saved by the poll loop between two Checks; a  *)
(* crash takes the detector and the stream position back to that file.     *)
(***************************************************************************)
EXTENDS Integers, Sequences, FiniteSets

CONSTANTS
    Settle, Cooldown,
    MaxDelay,    \* an oom event is handled this soon after the kill, or after
                 \* nodux is up
    PollEvery,   \* Check runs at least this often
    MaxKills, MaxTime, MaxRestarts   \* bounds

ASSUME OOMAssumption ==
    /\ Settle \in Nat /\ Cooldown \in Nat /\ MaxDelay \in Nat
    /\ MaxDelay < Settle
    /\ PollEvery \in Nat \ {0} /\ 2 * PollEvery <= Settle
    /\ MaxKills \in Nat /\ MaxTime \in Nat /\ MaxRestarts \in Nat

VARIABLES
    now,
    counter,     \* oom_kill in /proc/vmstat (external)
    hostKills,   \* how many of them were outside any container (external)
    log,         \* Docker's oom events: when each was emitted (external)
    handled,     \* how many of them nodux has handled (the stream position)
    restarts, upSince, lastCheck,
    stage, read, \* the poll loop: "idle", or "match" after reading `read'
    prev,        \* d.prev; -1 = no baseline yet
    credits, pending, confirmed, lastAlert,
    saved,       \* the state file
    reported,    \* kills in the alerts sent (history, as memory knows it)
    matched,     \* kills that were matched to an event (history)
    base,        \* the first counter read (history)
    lost,        \* credits a restart has dropped (history)
    late         \* events a restart has delayed (history)

kernel   == <<counter, hostKills, log>>
detector == <<prev, credits, pending, confirmed, lastAlert>>
timers   == <<restarts, upSince, lastCheck>>
past     == <<reported, matched, base, lost, late>>
oomVars == <<now, kernel, handled, timers, stage, read, detector, saved, past>>

(* What is left when the oldest entries that have waited for Settle, one   *)
(* after the other, are dropped.                                           *)
Unsettled(s) ==
    LET Waited(k) == \A i \in 1..k : now - s[i] >= Settle
        n == CHOOSE k \in 0..Len(s) :
               Waited(k) /\ (k < Len(s) => now - s[k + 1] < Settle)
    IN  SubSeq(s, n + 1, Len(s))

-----------------------------------------------------------------------------
HostKill ==
    /\ counter < MaxKills /\ now <= MaxTime
    /\ counter' = counter + 1 /\ hostKills' = hostKills + 1
    /\ UNCHANGED <<now, log, handled, timers, stage, read, detector, saved, past>>

ContainerKill ==
    /\ counter < MaxKills /\ now <= MaxTime
    /\ counter' = counter + 1 /\ log' = Append(log, now)
    /\ UNCHANGED <<now, hostKills, handled, timers, stage, read, detector, saved,
                   past>>

(* Events are handled, and polls run, in time.  Nothing new happens after  *)
(* MaxTime; the clock then runs on for as long as anything waits, at most  *)
(* until Horizon.                                                          *)
Horizon == MaxTime + Settle + Cooldown + 2 * PollEvery

Latest(i) == IF log[i] < upSince THEN upSince ELSE log[i]

Tick ==
    /\ now < MaxTime \/ pending # <<>> \/ confirmed > 0
    /\ now < Horizon
    /\ \A i \in (handled + 1)..Len(log) : now < Latest(i) + MaxDelay
    /\ now < lastCheck + PollEvery
    /\ now' = now + 1
    /\ UNCHANGED <<kernel, handled, timers, stage, read, detector, saved, past>>

(* handleEvent calls ContainerOOM for every oom event.                     *)
ContainerOOM ==
    /\ handled < Len(log)
    /\ handled' = handled + 1
    /\ credits' = Append(credits, now)
    /\ UNCHANGED <<now, kernel, timers, stage, read, prev, pending, confirmed,
                   lastAlert, saved, past>>

(* Check, first half: readVmstat.  (It may fail; then nothing happens.)    *)
CheckRead ==
    /\ stage = "idle"
    /\ stage' = "match" /\ read' = counter
    /\ lastCheck' = now
    /\ UNCHANGED <<now, kernel, handled, restarts, upSince, detector, saved, past>>

(* Kills since the last reading; the first one is only a baseline.         *)
Fresh == IF prev # -1 /\ read > prev THEN [i \in 1..(read - prev) |-> now]
         ELSE <<>>

(* Mutant: a kill is confirmed as soon as it is seen.                      *)
NotSettledNone(left) == <<>>

NotSettled(left) == Unsettled(left)

(* Mutant: every Check starts the cooldown over.                           *)
CheckMatchCools ==
    /\ stage = "match" /\ stage' = "idle"
    /\ LET all   == pending \o Fresh
           m     == IF Len(credits) < Len(all) THEN Len(credits) ELSE Len(all)
           left  == SubSeq(all, m + 1, Len(all))
           total == confirmed + Len(left) - Len(NotSettled(left))
           quiet == total = 0 \/ (lastAlert # 0 /\ now - lastAlert < Cooldown)
       IN /\ credits' = Unsettled(SubSeq(credits, m + 1, Len(credits)))
          /\ pending' = NotSettled(left)
          /\ matched' = matched + m
          /\ confirmed' = IF quiet THEN total ELSE 0
          /\ lastAlert' = now
          /\ reported' = IF quiet THEN reported ELSE reported + total
    /\ prev' = read /\ base' = IF prev = -1 THEN read ELSE base
    /\ UNCHANGED <<now, kernel, handled, timers, read, saved, lost, late>>

(* Check, second half: add the new kills, match them oldest first, drop    *)
(* events without a kill, confirm what has settled, alert unless cooling   *)
(* down.                                                                   *)
CheckMatch ==
    /\ stage = "match" /\ stage' = "idle"
    /\ LET all   == pending \o Fresh
           m     == IF Len(credits) < Len(all) THEN Len(credits) ELSE Len(all)
           left  == SubSeq(all, m + 1, Len(all))
           total == confirmed + Len(left) - Len(NotSettled(left))
           quiet == total = 0 \/ (lastAlert # 0 /\ now - lastAlert < Cooldown)
       IN /\ credits' = Unsettled(SubSeq(credits, m + 1, Len(credits)))
          /\ pending' = NotSettled(left)
          /\ matched' = matched + m
          /\ confirmed' = IF quiet THEN total ELSE 0
          /\ lastAlert' = IF quiet THEN lastAlert ELSE now
          /\ reported' = IF quiet THEN reported ELSE reported + total
    /\ prev' = read /\ base' = IF prev = -1 THEN read ELSE base
    /\ UNCHANGED <<now, kernel, handled, timers, read, saved, lost, late>>

-----------------------------------------------------------------------------
(* SaveState, with the position of the event stream; the credits are not   *)
(* in it (their number is kept as history).                                *)
Snapshot ==
    [handled |-> handled, prev |-> prev,
     pending |-> IF prev = -1 THEN <<>> ELSE pending,
     confirmed |-> confirmed, lastAlert |-> lastAlert,
     reported |-> reported, matched |-> matched, base |-> base,
     lost |-> lost + Len(credits), late |-> late]

Save ==
    /\ stage = "idle"
    /\ saved' = Snapshot
    /\ UNCHANGED <<now, kernel, handled, timers, stage, read, detector, past>>

(* LoadState in a new process, from the file f.                            *)
LoadState(f) ==
    /\ restarts < MaxRestarts /\ now <= MaxTime
    /\ restarts' = restarts + 1
    /\ upSince' = now /\ lastCheck' = now
    /\ stage' = "idle" /\ read' = 0
    /\ handled' = f.handled
    /\ credits' = <<>>
    /\ prev' = f.prev /\ pending' = f.pending
    /\ confirmed' = f.confirmed /\ lastAlert' = f.lastAlert
    /\ reported' = f.reported /\ matched' = f.matched
    /\ base' = f.base /\ lost' = f.lost
    /\ late' = f.late + Len(log) - f.handled
    /\ UNCHANGED <<now, kernel>>

OOMRestart == stage = "idle" /\ saved' = Snapshot /\ LoadState(Snapshot)
Crash   == LoadState(saved) /\ UNCHANGED saved

OOMInit ==
    /\ now = 1 /\ counter = 0 /\ hostKills = 0 /\ log = <<>> /\ handled = 0
    /\ restarts = 0 /\ upSince = 1 /\ lastCheck = 1
    /\ stage = "idle" /\ read = 0
    /\ prev = -1 /\ credits = <<>> /\ pending = <<>>
    /\ confirmed = 0 /\ lastAlert = 0
    /\ reported = 0 /\ matched = 0 /\ base = 0 /\ lost = 0 /\ late = 0
    /\ saved = Snapshot

OOMNext == \/ HostKill \/ ContainerKill \/ Tick \/ ContainerOOM
        \/ CheckRead \/ CheckMatch \/ Save \/ OOMRestart \/ Crash

OOMSpec == OOMInit /\ [][OOMNext]_oomVars

FairOOMSpec == OOMSpec /\ WF_oomVars(Tick) /\ WF_oomVars(ContainerOOM)
                 /\ WF_oomVars(CheckRead) /\ WF_oomVars(CheckMatch)

-----------------------------------------------------------------------------
Memory == [handled : Nat, prev : Nat \cup {-1}, pending : Seq(Nat),
           confirmed : Nat, lastAlert : Nat, reported : Nat, matched : Nat,
           base : Nat, lost : Nat, late : Nat]

(* Types; a counter never runs below zero.                                 *)
OOMTypes ==
    /\ now \in Nat /\ counter \in Nat /\ hostKills \in Nat
    /\ log \in Seq(Nat) /\ handled \in 0..Len(log)
    /\ restarts \in Nat /\ upSince \in Nat /\ lastCheck \in Nat
    /\ stage \in {"idle", "match"} /\ read \in Nat
    /\ prev \in Nat \cup {-1}
    /\ credits \in Seq(Nat) /\ pending \in Seq(Nat)
    /\ confirmed \in Nat /\ lastAlert \in Nat
    /\ reported \in Nat /\ matched \in Nat /\ base \in Nat /\ lost \in Nat
    /\ late \in Nat
    /\ saved \in Memory

(* "no kill goes uncounted": every kill since the first reading is matched *)
(* to a container, waiting, confirmed or reported, once, also across a     *)
(* restart or a crash.                                                     *)
EveryKillCounted ==
    prev # -1 => prev - base = matched + Len(pending) + confirmed + reported

(* No container's kill is reported as the host's, whichever of the counter *)
(* and the event comes first, unless a restart has delayed its event (the  *)
(* event stream was down) or dropped its credit.                           *)
NoFalseAlarm == confirmed + reported <= hostKills + late + lost

(* Unclaimed kills do not linger: what is pending or confirmed is cleared. *)
KillsSettle == (pending # <<>> \/ confirmed > 0) ~> (pending = <<>> /\ confirmed = 0)

(* Every kill is accounted for exactly once, on the right side.            *)
KillsAccounted == OOMTypes /\ EveryKillCounted /\ NoFalseAlarm
=============================================================================
