------------------------------- MODULE Probes -------------------------------
(***************************************************************************)
(* The prober and the certificate detector (internal/probe), as runProbes  *)
(* asks them round by round: all targets are probed at once, then the      *)
(* results are applied under the lock, then the certificates are looked at.*)
(*                                                                         *)
(* A server's certificates are a leaf and the chains it can be verified    *)
(* with; all that is kept of one is the time it expires.  `outcomes' and   *)
(* `seen' are history variables, lost in a crash like the state they       *)
(* explain: the last results of each target, and the certificates it last  *)
(* showed.                                                                 *)
(***************************************************************************)
EXTENDS Integers, Sequences, FiniteSetsExt

CONSTANTS
    Targets, TLSTargets,   \* all of them, and those with a certificate
    HTTPTargets,        \* those that answer with a status
    Certificates,       \* what a server may present: [leaf, chains]
    LastDay,            \* the latest time a certificate can name
    Failures,           \* checks in a row that make a problem
    Warn, Critical,     \* time left
    MaxTime, MaxRenewals, MaxSaves, MaxCrashes   \* bounds

ASSUME ProbesAssumption ==
    /\ TLSTargets \subseteq Targets /\ HTTPTargets \subseteq Targets
    /\ Failures \in Nat \ {0} /\ Critical \in Nat /\ Warn \in Nat
    /\ {MaxTime, MaxRenewals, MaxSaves, MaxCrashes} \subseteq Nat
    /\ LastDay \in Nat
    /\ \A s \in Certificates :
          /\ s.leaf \in 0..LastDay
          /\ \A c \in s.chains : c \in Seq(0..LastDay) /\ Len(c) > 0 /\ c[1] = s.leaf

VARIABLES
    now,
    reach,       \* external: whether a target answers
    shows,       \* external: the certificates it presents
    skip,        \* the targets with SkipVerify
    up, phase, faults,
    results,     \* the results of this round so far
    failures, cert,      \* targetState
    probeAlarm, certAlarm,   \* the issues the two detectors returned last
    checkedAt,   \* when the certificates were looked at
    saved,
    outcomes, seen

prober == <<failures, cert, probeAlarm, certAlarm>>
past   == <<outcomes, seen>>
vars == <<now, reach, shows, skip, up, phase, faults, results, prober, checkedAt, saved, past>>

None == "none"
NoCert == -1
NoneSeen == [shows |-> [leaf |-> 0, chains |-> {}], at |-> -1]
Pending  == [done |-> FALSE, ok |-> FALSE, cert |-> NoCert, from |-> NoneSeen]

Knowledge == [failures |-> failures, cert |-> cert, probeAlarm |-> probeAlarm,
              certAlarm |-> certAlarm, outcomes |-> outcomes, seen |-> seen]

Init ==
    /\ now = 0
    /\ reach = [t \in Targets |-> TRUE]
    /\ shows \in [TLSTargets -> Certificates]
    /\ skip \in SUBSET TLSTargets
    /\ up = TRUE /\ phase = "probing"
    /\ faults = [saves |-> 0, crashes |-> 0, renewals |-> 0]
    /\ results = [t \in Targets |-> Pending]
    /\ failures = [t \in Targets |-> 0]
    /\ cert = [t \in TLSTargets |-> NoCert]
    /\ probeAlarm = [t \in Targets |-> FALSE]
    /\ certAlarm = [t \in TLSTargets |-> None]
    /\ checkedAt = 0
    /\ outcomes = [t \in Targets |-> <<>>]
    /\ seen = [t \in TLSTargets |-> NoneSeen]
    /\ saved = Knowledge

----------------------------------------------------------------------------
(* The world. *)

Tick ==
    /\ now < MaxTime /\ now' = now + 1
    /\ UNCHANGED <<reach, shows, skip, up, phase, faults, results, prober, checkedAt, saved, past>>

Flip(t) ==
    /\ reach' = [reach EXCEPT ![t] = ~@]
    /\ UNCHANGED <<now, shows, skip, up, phase, faults, results, prober, checkedAt, saved, past>>

Renew(t) ==
    /\ faults.renewals < MaxRenewals
    /\ faults' = [faults EXCEPT !.renewals = @ + 1]
    /\ \E s \in Certificates : shows' = [shows EXCEPT ![t] = s]
    /\ UNCHANGED <<now, reach, skip, up, phase, results, prober, checkedAt, saved, past>>

\* x509's Verify: the chains in which nothing has expired.
Verify(s) == {c \in s.chains : \A i \in DOMAIN c : c[i] >= now}

----------------------------------------------------------------------------
(* A round. *)

\* The last certificate of a chain is the trust anchor.
Links(c) == IF Len(c) > 1 THEN 1..Len(c) - 1 ELSE {1}

firstToExpire(s, chains) ==
    IF chains = {} THEN s.leaf
    ELSE Max({Min({c[i] : i \in Links(c)}) : c \in chains})

\* The status an HTTP server answers with may be a wrong one.
Statuses(t) == IF t \in HTTPTargets THEN BOOLEAN ELSE {TRUE}

Answer(t) ==
    IF t \in TLSTargets
    THEN {[done |-> TRUE,
           ok |-> okStatus /\ (t \in skip \/ Verify(shows[t]) # {}),
           cert |-> firstToExpire(shows[t], Verify(shows[t])),
           from |-> [shows |-> shows[t], at |-> now]] : okStatus \in Statuses(t)}
    ELSE {[Pending EXCEPT !.done = TRUE, !.ok = okStatus] : okStatus \in Statuses(t)}

NoAnswer == [Pending EXCEPT !.done = TRUE]

probe(t) ==
    /\ up /\ phase = "probing" /\ ~results[t].done
    /\ \E r \in IF reach[t] THEN Answer(t) ELSE {NoAnswer} : results' = [results EXCEPT ![t] = r]
    /\ UNCHANGED <<now, reach, shows, skip, up, phase, faults, prober, checkedAt, saved, past>>

\* Mutant: a success only pays off one failure.
StreakDecays(t) == IF results[t].ok THEN Max({failures[t] - 1, 0}) ELSE failures[t] + 1

Streak(t) == IF results[t].ok THEN 0 ELSE failures[t] + 1

Failing(t) == ~results[t].ok /\ Streak(t) >= Failures

Latest(t) == IF results[t].cert # NoCert THEN results[t].cert ELSE cert[t]

LastOnes(q) == SubSeq(q, IF Len(q) > Failures THEN 2 ELSE 1, Len(q))

\* Failure streaks are cut at Failures, beyond which nothing changes.
CheckProbes ==
    /\ up /\ phase = "probing" /\ \A t \in Targets : results[t].done
    /\ failures' = [t \in Targets |-> Min({Streak(t), Failures})]
    /\ cert' = [t \in TLSTargets |-> Latest(t)]
    /\ probeAlarm' = [t \in Targets |-> Failing(t)]
    /\ phase' = "certs"
    /\ results' = [t \in Targets |-> Pending]
    /\ outcomes' = [t \in Targets |-> LastOnes(Append(outcomes[t], results[t].ok))]
    /\ seen' = [t \in TLSTargets |-> IF results[t].from # NoneSeen THEN results[t].from ELSE seen[t]]
    /\ UNCHANGED <<now, reach, shows, skip, up, faults, certAlarm, checkedAt, saved>>

Severity(left) ==
    CASE left > Warn                       -> None
      [] left <= Critical                  -> "critical"
      [] left <= Warn /\ left > Critical   -> "warning"

Certs == {t \in TLSTargets : cert[t] # NoCert}

CheckCerts ==
    /\ up /\ phase = "certs"
    /\ certAlarm' = [t \in TLSTargets |-> IF t \in Certs THEN Severity(cert[t] - now) ELSE None]
    /\ checkedAt' = now
    /\ phase' = "asleep"
    /\ UNCHANGED <<now, reach, shows, skip, up, faults, results, failures, cert, probeAlarm, saved, past>>

\* Mutant: the loop returns on an error.
WakeAfterSuccess ==
    /\ up /\ phase = "asleep" /\ phase' = "probing"
    /\ \A t \in Targets : failures[t] = 0
    /\ UNCHANGED <<now, reach, shows, skip, up, faults, results, prober, checkedAt, saved, past>>

Wake ==
    /\ up /\ phase = "asleep" /\ phase' = "probing"
    /\ UNCHANGED <<now, reach, shows, skip, up, faults, results, prober, checkedAt, saved, past>>

----------------------------------------------------------------------------
(* SaveState by another loop at any time, a crash, and LoadState. *)

Save ==
    /\ up /\ faults.saves < MaxSaves
    /\ faults' = [faults EXCEPT !.saves = @ + 1]
    /\ saved' = Knowledge
    /\ UNCHANGED <<now, reach, shows, skip, up, phase, results, prober, checkedAt, past>>

Crash ==
    /\ up /\ faults.crashes < MaxCrashes
    /\ faults' = [faults EXCEPT !.crashes = @ + 1]
    /\ up' = FALSE /\ phase' = "down"
    /\ results' = [t \in Targets |-> Pending]
    /\ UNCHANGED <<now, reach, shows, skip, prober, checkedAt, saved, past>>

Restart ==
    /\ ~up /\ up' = TRUE /\ phase' = "probing"
    /\ failures' = saved.failures /\ cert' = saved.cert
    /\ probeAlarm' = saved.probeAlarm /\ certAlarm' = saved.certAlarm
    /\ outcomes' = saved.outcomes /\ seen' = saved.seen
    /\ UNCHANGED <<now, reach, shows, skip, faults, results, checkedAt, saved>>

runProbes == CheckProbes \/ CheckCerts \/ Wake \/ Restart

Next ==
    \/ Tick \/ Save \/ Crash \/ runProbes
    \/ \E t \in Targets : Flip(t) \/ probe(t)
    \/ \E t \in TLSTargets : Renew(t)

(* The loop goes on as long as nodux runs, every probe ends with its        *)
(* timeout, and nodux is started again after a crash.                       *)
Spec == Init /\ [][Next]_vars /\ WF_vars(runProbes) /\ \A t \in Targets : WF_vars(probe(t))

----------------------------------------------------------------------------
(* Properties. *)

Expiries == {s.leaf : s \in Certificates} \cup
            UNION {{c[i] : i \in DOMAIN c} : c \in UNION {s.chains : s \in Certificates}}

(* Shapes of the prober's state; a target in a problem has failed Failures  *)
(* times, and the certificate of a target is one that some server shows.    *)
TypeOK ==
    /\ now \in 0..MaxTime /\ checkedAt \in 0..now
    /\ phase \in {"probing", "certs", "asleep", "down"} /\ up = (phase # "down")
    /\ failures \in [Targets -> 0..Failures]
    /\ cert \in [TLSTargets -> Expiries \cup {NoCert}]
    /\ \A t \in Targets : probeAlarm[t] => failures[t] = Failures

(* A probe is a problem exactly when the last Failures results were all     *)
(* failures, over crashes and restarts: one good answer ends the problem,   *)
(* and a restart neither opens nor ends one.                                *)
ProbeAlarmRight ==
    up => \A t \in Targets :
      probeAlarm[t] <=> Len(outcomes[t]) = Failures /\ \A i \in 1..Failures : ~outcomes[t][i]

\* The last moment at which a chain still holds, anchors aside.
Holds(s, chains, at) == \E c \in chains : \A i \in 1..Len(c) : (i < Len(c) \/ i = 1) => c[i] >= at
ValidAt(s, at) == {c \in s.chains : \A i \in DOMAIN c : c[i] >= at}
BreaksAt(s, at) ==
    IF ValidAt(s, at) = {} THEN s.leaf
    ELSE CHOOSE x \in Expiries : Holds(s, ValidAt(s, at), x) /\ ~Holds(s, ValidAt(s, at), x + 1)

(* After a round the certificate alarm has the severity that the chain the  *)
(* server showed last calls for: that of the moment the best verified chain *)
(* breaks, also while the server is down and after a restart.               *)
CertAlarmRight ==
    phase = "asleep" => \A t \in TLSTargets :
      certAlarm[t] = IF seen[t] = NoneSeen THEN None
                     ELSE Severity(BreaksAt(seen[t].shows, seen[t].at) - checkedAt)

LastGood(s) == Max({Min({c[i] : i \in 1..Len(c)}) : c \in s.chains})

(* Nobody is left in the dark when a verified chain breaks: after a round   *)
(* in which less than Warn is left to what the server showed last, or       *)
(* nothing, there is a certificate alarm or the probe has begun to fail.    *)
BreakIsNoticed ==
    phase = "asleep" => \A t \in TLSTargets \ skip :
      /\ seen[t] # NoneSeen
      /\ seen[t].shows.chains # {}
      /\ \/ checkedAt + Warn >= BreaksAt(seen[t].shows, seen[t].at)
         \/ seen[t].at > LastGood(seen[t].shows)
      => certAlarm[t] # None \/ failures[t] > 0

(* A target that stays out of reach is reported in the end, and stays so.   *)
DownIsReported == \A t \in Targets : <>[](~reach[t]) => <>[](probeAlarm[t])

(* Both alarms of a target say what its last answers say, and no break of   *)
(* a certificate chain goes by unnoticed.                                   *)
AlarmsRight == TypeOK /\ ProbeAlarmRight /\ CertAlarmRight /\ BreakIsNoticed
=============================================================================
