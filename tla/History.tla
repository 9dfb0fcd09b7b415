------------------------------ MODULE History ------------------------------
(***************************************************************************)
(* The alert history (internal/history/history.go) and the digest built    *)
(* from it (internal/digest): an alert is detected, waits to be sent       *)
(* (GroupWait, the analysis, the queue), and is recorded with the time it  *)
(* was detected; the digest of [from, to) counts what the table then       *)
(* holds.  The database is SQLite in WAL mode with synchronous=NORMAL: a   *)
(* commit survives a crash, and a power loss may undo the latest ones.     *)
(***************************************************************************)
EXTENDS Calendar, Sequences, Functions, Clock

CONSTANTS
    Alerts,
    Retention        \* history.retention_days

(* config.go only asks that it is positive; it may end before a digest's   *)
(* period does.                                                            *)
ASSUME RetentionAssumption == Retention \in Nat

VARIABLES
    stage,           \* of each alert: none, pending, recorded, lost
    ts,              \* when it was detected
    rows,            \* the transactions in the table: each a set of alerts
    safe,            \* how many of them are on disk
    due,             \* when the next digest is due; -1: one is being sent
    recorded, counted, reported    \* history: when an alert was recorded, in
                     \* how many digests it was counted, the ends of the
                     \* periods that were reported on
table == <<stage, ts, rows, safe, recorded>>
digest == <<due, counted, reported>>
history == <<table, digest>>

HistoryInit ==
    /\ stage = [a \in Alerts |-> "none"] /\ ts = [a \in Alerts |-> 0]
    /\ rows = <<>> /\ safe = 0 /\ due = 0
    /\ recorded = ts /\ counted = ts /\ reported = {}

Staged(A, s) == [a \in Alerts |-> IF a \in A THEN s ELSE stage[a]]
Pending == {a \in Alerts : stage[a] = "pending"}

-----------------------------------------------------------------------------
(* report takes an alert up, and send gets to it later: AddAlerts inserts  *)
(* a batch in one transaction, or fails, which is logged.                  *)
Detect(a) ==
    /\ stage[a] = "none"
    /\ stage' = Staged({a}, "pending") /\ ts' = [ts EXCEPT ![a] = now]
    /\ UNCHANGED <<rows, safe, recorded, digest>>

AddAlerts(A) ==
    /\ A # {} /\ A \subseteq Pending
    /\ \/ /\ rows' = Append(rows, A) /\ stage' = Staged(A, "recorded")
          /\ recorded' = [a \in Alerts |-> IF a \in A THEN now ELSE recorded[a]]
       \/ stage' = Staged(A, "lost") /\ UNCHANGED <<rows, recorded>>
    /\ UNCHANGED <<ts, safe, digest>>

(* Prune, at startup and then once a day: here at any time.                *)
Expired == {a \in Alerts : ts[a] < now - Retention}

PruneHistory ==
    /\ rows' = [i \in 1..Len(rows) |-> rows[i] \ Expired]
    /\ UNCHANGED <<stage, ts, safe, recorded, digest>>

(* SQLite, external: a checkpoint makes the commits so far durable.        *)
Checkpoint == safe' = Len(rows) /\ UNCHANGED <<stage, ts, rows, recorded, digest>>

-----------------------------------------------------------------------------
(* Store.Alerts: what the table holds of [since, until).                   *)
Query(since, until) == {a \in UNION Range(rows) : since <= ts[a] /\ ts[a] < until}

(* report counts the alerts of its period, [from, to).                     *)
report(from, to) ==
    /\ counted' = [a \in Alerts |-> counted[a] + IF a \in Query(from, to) THEN 1 ELSE 0]
    /\ reported' = reported \cup {to}

(* Run: Build reads the table (it may fail), a note is asked for and the   *)
(* digest is sent, which takes its time, and only then the next one is     *)
(* scheduled: a time that has passed by then is skipped.                   *)
Build ==
    /\ due # -1 /\ now >= due
    /\ \/ report(PeriodStart(due), due) /\ due' = -1
       \/ due' = NextDigest(now) /\ UNCHANGED <<counted, reported>>
    /\ UNCHANGED <<table>>

SendDigest == /\ due = -1 /\ due' = NextDigest(now)
              /\ UNCHANGED <<table, counted, reported>>

-----------------------------------------------------------------------------
(* A new process schedules its digest and prunes; one that is gone takes   *)
(* what was not recorded with it; a power loss undoes the latest commits.  *)
StartHistory == due' = NextDigest(now) /\ UNCHANGED <<table, counted, reported>>

LoseHistory(k) ==
    /\ k \in safe..Len(rows)
    /\ rows' = SubSeq(rows, 1, k)
    /\ stage' = Staged(Pending \cup UNION {rows[i] : i \in k + 1..Len(rows)}, "lost")
    /\ UNCHANGED <<ts, safe, recorded, digest>>

(* No alert is in two digests, and an alert that was recorded while its    *)
(* period ran is in the digest of that period if there is one and history  *)
(* keeps alerts that long: the periods of Schedule.Next and Period meet    *)
(* without a gap or an overlap, also over a clock change, over restarts    *)
(* and over skipped digests, and nothing is pruned before its turn.  This  *)
(* is so where At is on the clock every day; where a change skips it,      *)
(* Period keeps the wrong time of day, and periods overlap or leave a gap. *)
CountedOnce ==
    PlainClock => \A a \in Alerts :
        /\ counted[a] <= 1
        /\ stage[a] = "recorded" /\ NextDigest(ts[a]) \in reported
           /\ recorded[a] < NextDigest(ts[a]) /\ NextDigest(ts[a]) - ts[a] <= Retention
           => counted[a] = 1
=============================================================================
