------------------------------ MODULE Episodes ------------------------------
(***************************************************************************)
(* Episode tracking in the nodux engine (internal/engine/engine.go).       *)
(*                                                                         *)
(* A level-triggered problem is an episode: it opens once, may escalate,   *)
(* and closes once.  Three loops share the map e.active under e.mu:        *)
(*   poll   host detectors, held alerts, every container, the daemon;      *)
(*   event  the Docker event stream: opens container episodes early, and   *)
(*          closes them when the container is destroyed;                   *)
(*   probe  HTTP/TCP/certificate checks.                                   *)
(* A loop changes the map under the lock, but hands the resulting messages *)
(* to e.queue afterwards and without it (report fetches logs in between),  *)
(* so `out' holds the messages a loop has produced and not yet queued.     *)
(* One dispatcher empties the queue into the receivers.                    *)
(***************************************************************************)
EXTENDS Integers, Sequences, FiniteSets

CONSTANTS
    Containers,      \* container IDs; an ID never comes back once destroyed
    PollDetectors,   \* opts.Detectors: per-container checks of the poll loop
    EventDetectors,  \* those that also react to events (levelEvents)
    Confirmers,      \* those whose event hit is confirmed against an inspect
    WantsEvents,     \* the host OOM detector or a deploy window needs events
    HostDetectors, HostResources,
    ProbeDetectors, ProbeResources,
    ExpectedNames,   \* names the expected detector watches
    Troubled,        \* bound: keys whose problem can happen at all
    Silenceable,     \* bound: keys that silences come and go for
    Grades,          \* Grades[k]: the severities problem k can have
    Receivers,       \* routed receivers
    Severities,      \* Severities[r]: the severities receiver r gets
    SendResolved,    \* receivers that get resolutions
    QueueSize,       \* capacity of e.queue (256 in the code)
    MaxEvents        \* bound on events the daemon has not yet delivered

ContainerKey == PollDetectors \X Containers
HostKey      == HostDetectors \X HostResources
ProbeKey     == ProbeDetectors \X ProbeResources
ExpectedKey  == {"expected"} \X ExpectedNames
DaemonKey    == <<"docker", "daemon">>
Key == ContainerKey \cup HostKey \cup ProbeKey \cup ExpectedKey \cup {DaemonKey}

(* Keys opened and closed by the poll loop alone.                          *)
PollOwned == HostKey \cup ExpectedKey \cup {DaemonKey}

(* Keys only one loop ever reports: flushDeferred, in the poll loop, has   *)
(* nothing to say about a probe that no silence covers.                    *)
OneLoop == PollOwned \cup (ProbeKey \ Silenceable)

KeysOf(c) == PollDetectors \X {c}

(* detector.SeverityRank, with 0 for "not happening".                      *)
Level    == 0..2
Warning  == 1
Critical == 2

Actor == {"poll", "event", "probe"}
PC    == {"top", "host", "flush", "list", "observe", "inspect", "check",
          "expected", "forget", "up", "sleep", "idle", "track", "run", "done"}

Absent  == [severity |-> 0, notified |-> FALSE]
Alert   == [severity : Level, notified : BOOLEAN]
Message == [key : Key, kind : {"none", "firing", "resolved"},
            severity : Level, silenced : BOOLEAN]
(* An event is what it means to nodux: a hit of a detector, or a removal.  *)
Event   == (EventDetectors \cup {"destroy"}) \X Containers

ASSUME QueueAssumption  == QueueSize \in Nat \ {0}
ASSUME WantsAssumption  == WantsEvents \in BOOLEAN
ASSUME EventsAssumption == MaxEvents \in Nat
ASSUME DetectorAssumption ==
    /\ EventDetectors \subseteq PollDetectors
    /\ Confirmers \subseteq EventDetectors
    /\ "destroy" \notin EventDetectors
    /\ Containers # {}
ASSUME KindsDistinct ==
    /\ ContainerKey \cap (HostKey \cup ProbeKey \cup ExpectedKey) = {}
    /\ ProbeKey \cap PollOwned = {}
    /\ DaemonKey \notin ContainerKey
ASSUME RouteAssumption ==
    /\ Severities \in [Receivers -> SUBSET {Warning, Critical}]
    /\ SendResolved \subseteq Receivers
ASSUME GradesAssumption == Grades \in [Key -> SUBSET {Warning, Critical}]
ASSUME BoundsAssumption ==
    /\ Troubled \subseteq Key /\ Silenceable \subseteq Key

VARIABLES
    \* the world nodux watches
    level,     \* level[k]: how bad problem k is right now
    silenced,  \* silenced[k]: a silence or deploy window covers k right now
    exists,    \* containers that exist
    events,    \* events not yet delivered to nodux, oldest first
    \* the engine
    active,    \* e.active; severity 0 = no entry
    fresh,     \* container episodes opened after the poll's observedAt
    lastSeen,  \* e.lastSeen
    pc, todo,  \* where each loop is, and the detectors it has left to run
    left,      \* containers the poll loop has left to inspect, or to forget
    cur, snap, \* container under inspection and what the inspect returned
    checks,    \* detectors that have not looked at snap yet
    seen,      \* containers in this poll's listing
    hit,       \* the event being handled and the severity it found
    out,       \* produced under e.mu, not yet sent to e.queue
    queue,     \* e.queue
    phase,     \* "run", "stopping" (ctx cancelled), "stopped"
    \* what the outside has been told
    told,      \* severity last announced in the current episode (history)
    calm,      \* open episodes whose problem was away for a moment since they
               \* opened (history)
    view       \* view[r][k]: what receiver r believes

env    == <<level, silenced, exists, events>>
locals == <<todo, left, cur, snap, checks, seen, hit>>
vars   == <<env, active, fresh, lastSeen, pc, locals, out, queue, phase,
            told, calm, view>>

Open(k)   == active[k].severity # 0
Reachable == level[DaemonKey] = 0
NoHit     == [key |-> DaemonKey, severity |-> 0]
NoSnap    == [d \in PollDetectors |-> 0]
Nothing   == [k \in Key |-> 0]

(* Mutants (deliberately wrong variants, each caught by a property):       *)
(* an alert held back by a silence counts as sent; an escalation adds the  *)
(* ranks up.                                                               *)
TrackedHeard(a, issue, quiet) ==
    IF issue = 0 THEN Absent
    ELSE IF issue > a.severity
    THEN [severity |-> issue, notified |-> TRUE]
    ELSE a
TrackedAdds(a, issue, quiet) ==
    IF issue = 0 THEN Absent
    ELSE IF issue > a.severity
    THEN [severity |-> issue + a.severity, notified |-> a.notified \/ ~quiet]
    ELSE a

(***************************************************************************)
(* trackLocked: the new map entry, and the message to send.                *)
(***************************************************************************)
Tracked(a, issue, quiet) ==
    IF issue = 0 THEN Absent
    ELSE IF issue > a.severity
    THEN [severity |-> issue, notified |-> a.notified \/ ~quiet]
    ELSE a

NoMessage(k) == [key |-> k, kind |-> "none", severity |-> 0, silenced |-> TRUE]

(* Mutant: a resolution is always a warning.                               *)
ResolutionWarning(k, a) ==
    [key |-> k, kind |-> "resolved", severity |-> Warning,
     silenced |-> ~a.notified]

Resolution(k, a) ==
    [key |-> k, kind |-> "resolved", severity |-> a.severity,
     silenced |-> ~a.notified]

TrackMessage(k, a, issue, quiet) ==
    IF issue = 0 /\ a.severity # 0 THEN Resolution(k, a)
    ELSE IF issue > a.severity
    THEN [key |-> k, kind |-> "firing", severity |-> issue, silenced |-> quiet]
    ELSE NoMessage(k)

(* One critical section of e.mu by loop `a': the map becomes `next', and   *)
(* `say[k]' is left for the loop to report.                                *)
Publish(a, next, say) ==
    /\ active' = next
    /\ fresh'  = {k \in ContainerKey : /\ next[k].severity # 0
                                       /\ Open(k) => k \in fresh}
    /\ out'    = [out EXCEPT ![a] =
                    @ \cup {m \in {say[k] : k \in Key} : m.kind # "none"}]
    /\ told'   = [k \in Key |->
                    IF say[k].kind = "none" \/ say[k].silenced THEN told[k]
                    ELSE IF say[k].kind = "resolved" THEN 0
                    ELSE say[k].severity]
    /\ calm'   = {k \in Key : /\ next[k].severity # 0
                              /\ level[k] = 0 \/ (Open(k) /\ k \in calm)}

(* track, trackSet and resolveContainer: the keys in K are observed at the *)
(* levels `issue'; every other key is left alone.                          *)
Track(a, K, issue) ==
    Publish(a,
        [k \in Key |-> IF k \in K
                       THEN Tracked(active[k], issue[k], silenced[k])
                       ELSE active[k]],
        [k \in Key |-> IF k \in K
                       THEN TrackMessage(k, active[k], issue[k], silenced[k])
                       ELSE NoMessage(k)])

(* Mutant: every clean observation closes the episode.                     *)
TrackAtStale(a, k, issue) == Track(a, {k}, [Nothing EXCEPT ![k] = issue])

(* trackAt: a clean observation made before the episode opened is ignored. *)
TrackAt(a, k, issue) ==
    IF issue = 0 /\ Open(k) /\ k \in fresh
    THEN UNCHANGED <<active, fresh, out, told, calm>>
    ELSE Track(a, {k}, [Nothing EXCEPT ![k] = issue])

(* Mutants: what was announced already is sent again after a silence;      *)
(* only critical episodes are looked at.                                   *)
DeferredAgain == {k \in Key : Open(k) /\ ~silenced[k]}
DeferredCritical ==
    {k \in Key : /\ active[k].severity = Critical
                 /\ ~active[k].notified /\ ~silenced[k]}

(* flushDeferred's critical section.                                       *)
Deferred == {k \in Key : Open(k) /\ ~active[k].notified /\ ~silenced[k]}

FlushDeferred(a) ==
    Publish(a,
        [k \in Key |-> IF k \in Deferred
                       THEN [active[k] EXCEPT !.notified = TRUE]
                       ELSE active[k]],
        [k \in Key |-> IF k \in Deferred
                       THEN [key |-> k, kind |-> "firing",
                             severity |-> active[k].severity,
                             silenced |-> FALSE]
                       ELSE NoMessage(k)])

-----------------------------------------------------------------------------
(***************************************************************************)
(* The poll loop: runPoll, checkHost, pollOnce, forgetGone, dockerUp/Down. *)
(* A loop moves on only once its report has queued everything.             *)
(***************************************************************************)
Goto(a, label) == pc' = [pc EXCEPT ![a] = label]
At(a, label)   == pc[a] = label /\ phase # "stopped"
Reported(a)    == out[a] = {}

PollTop ==
    /\ At("poll", "top") /\ Reported("poll")
    /\ IF phase = "run"
       THEN /\ Goto("poll", "host")
            /\ todo' = [todo EXCEPT !["poll"] = HostDetectors]
       ELSE Goto("poll", "done") /\ UNCHANGED todo
    /\ UNCHANGED <<env, active, fresh, lastSeen, left, cur, snap, checks, seen,
                   hit, out, queue, phase, told, calm, view>>

PollHost ==
    /\ At("poll", "host") /\ Reported("poll")
    /\ \/ \E d \in todo["poll"] :
            /\ Track("poll", {d} \X HostResources, level)
            /\ todo' = [todo EXCEPT !["poll"] = @ \ {d}]
            /\ UNCHANGED pc
       \/ /\ todo["poll"] = {}
          /\ Goto("poll", "flush")
          /\ UNCHANGED <<active, fresh, out, told, calm, todo>>
    /\ UNCHANGED <<env, lastSeen, left, cur, snap, checks, seen, hit, queue,
                   phase, view>>

PollFlush ==
    /\ At("poll", "flush") /\ Reported("poll")
    /\ FlushDeferred("poll")
    /\ Goto("poll", "list")
    /\ UNCHANGED <<env, lastSeen, locals, queue, phase, view>>

(* Ping or the listing fails.  Whether the outage has lasted               *)
(* DockerDownAfter is a matter of time, so dockerDown may or may not fire. *)
PollListFail ==
    /\ At("poll", "list") /\ Reported("poll")
    /\ \/ /\ phase = "stopping"
          /\ Goto("poll", "done")
          /\ UNCHANGED <<active, fresh, out, told, calm>>
       \/ /\ phase = "run" /\ ~Reachable
          /\ Goto("poll", "sleep")
          /\ \/ Track("poll", {DaemonKey},
                      [Nothing EXCEPT ![DaemonKey] = Critical])
             \/ UNCHANGED <<active, fresh, out, told, calm>>
    /\ UNCHANGED <<env, lastSeen, locals, queue, phase, view>>

PollList ==
    /\ At("poll", "list") /\ Reported("poll")
    /\ phase = "run" /\ Reachable
    /\ seen' = exists
    /\ left' = exists
    /\ Goto("poll", "observe")
    /\ UNCHANGED <<env, active, fresh, lastSeen, todo, cur, snap, checks, hit,
                   out, queue, phase, told, calm, view>>

(* observedAt := now for the next container of the listing.                *)
PollObserve ==
    /\ At("poll", "observe") /\ Reported("poll")
    /\ \/ \E c \in left :
            /\ cur' = c
            /\ fresh' = fresh \ KeysOf(c)
            /\ left' = left \ {c}
            /\ Goto("poll", "inspect")
       \/ /\ left = {}
          /\ Goto("poll", "expected")
          /\ UNCHANGED <<cur, fresh, left>>
    /\ UNCHANGED <<env, active, lastSeen, todo, snap, checks, seen, hit, out,
                   queue, phase, told, calm, view>>

(* The inspect: it fails for a container that is gone, an unreachable      *)
(* daemon or a cancelled context, and the container is skipped.            *)
PollInspect ==
    /\ At("poll", "inspect")
    /\ \/ /\ cur \in exists /\ Reachable /\ phase = "run"
          /\ snap' = [d \in PollDetectors |-> level[<<d, cur>>]]
          /\ checks' = PollDetectors
          /\ Goto("poll", "check")
       \/ /\ cur \notin exists \/ ~Reachable \/ phase = "stopping"
          /\ Goto("poll", "observe")
          /\ UNCHANGED <<snap, checks>>
    /\ UNCHANGED <<env, active, fresh, lastSeen, todo, left, cur, seen, hit,
                   out, queue, phase, told, calm, view>>

(* One detector per critical section; the container's messages are         *)
(* reported together once all have looked.                                 *)
PollCheck ==
    /\ At("poll", "check")
    /\ \/ \E d \in checks :
            /\ TrackAt("poll", <<d, cur>>, snap[d])
            /\ checks' = checks \ {d}
            /\ UNCHANGED <<pc, snap>>
       \/ /\ checks = {}
          /\ Goto("poll", "observe")
          /\ snap' = NoSnap
          /\ UNCHANGED <<active, fresh, out, told, calm, checks>>
    /\ UNCHANGED <<env, lastSeen, todo, left, cur, seen, hit, queue,
                   phase, view>>

PollExpected ==
    /\ At("poll", "expected") /\ Reported("poll")
    /\ Track("poll", ExpectedKey, level)
    /\ left' = lastSeen \ seen
    /\ Goto("poll", "forget")
    /\ UNCHANGED <<env, lastSeen, todo, cur, snap, checks, seen, hit, queue,
                   phase, view>>

(* forgetGone: close what is open for containers that left the listing.    *)
PollForget ==
    /\ At("poll", "forget") /\ Reported("poll")
    /\ \/ \E c \in left :
            /\ Track("poll", KeysOf(c), Nothing)
            /\ left' = left \ {c}
            /\ UNCHANGED <<pc, lastSeen>>
       \/ /\ left = {}
          /\ lastSeen' = seen
          /\ Goto("poll", "up")
          /\ UNCHANGED <<active, fresh, out, told, calm, left>>
    /\ UNCHANGED <<env, todo, cur, snap, checks, seen, hit, queue, phase, view>>

PollUp ==
    /\ At("poll", "up") /\ Reported("poll")
    /\ Track("poll", {DaemonKey}, Nothing)
    /\ Goto("poll", "sleep")
    /\ UNCHANGED <<env, lastSeen, locals, queue, phase, view>>

PollSleep ==
    /\ At("poll", "sleep") /\ Reported("poll")
    /\ Goto("poll", IF phase = "run" THEN "top" ELSE "done")
    /\ UNCHANGED <<env, active, fresh, lastSeen, locals, out, queue, phase,
                   told, calm, view>>

PollStep ==
    \/ PollTop \/ PollHost \/ PollFlush \/ PollListFail \/ PollList
    \/ PollObserve \/ PollInspect \/ PollCheck \/ PollExpected \/ PollForget
    \/ PollUp \/ PollSleep

-----------------------------------------------------------------------------
(***************************************************************************)
(* The event loop: runEvents calls handleEvent for one event at a time.    *)
(* What the decoder has buffered is handled even after the connection or   *)
(* the context is gone.                                                    *)
(***************************************************************************)
(* An event detector reports a problem; handleEvent inspects the container *)
(* and a Confirmer goes by what it finds.  The inspect can fail, and does  *)
(* for a container that is gone already: then the event is all there is.   *)
EventHit ==
    /\ At("event", "idle") /\ Reported("event")
    /\ events # <<>> /\ Head(events)[1] # "destroy"
    /\ \E inspected \in BOOLEAN :
         LET k == Head(events) IN
         /\ inspected => k[2] \in exists /\ Reachable /\ phase = "run"
         /\ \E found \in IF inspected /\ k[1] \in Confirmers
                         THEN {level[k]} ELSE Grades[k] :
              IF found = 0
              THEN UNCHANGED <<pc, hit>>
              ELSE /\ hit' = [key |-> k, severity |-> found]
                   /\ Goto("event", "track")
    /\ events' = Tail(events)
    /\ UNCHANGED <<level, silenced, exists, active, fresh, lastSeen, todo,
                   left, cur, snap, checks, seen, out, queue, phase, told,
                   calm, view>>

EventTrack ==
    /\ At("event", "track")
    /\ Track("event", {hit.key}, [Nothing EXCEPT ![hit.key] = hit.severity])
    /\ hit' = NoHit
    /\ Goto("event", "idle")
    /\ UNCHANGED <<env, lastSeen, todo, left, cur, snap, checks, seen, queue,
                   phase, view>>

EventDestroy ==
    /\ At("event", "idle") /\ Reported("event")
    /\ events # <<>> /\ Head(events)[1] = "destroy"
    /\ Track("event", KeysOf(Head(events)[2]), Nothing)
    /\ events' = Tail(events)
    /\ UNCHANGED <<level, silenced, exists, lastSeen, pc, locals, queue,
                   phase, view>>

EventExit ==
    /\ At("event", "idle") /\ Reported("event")
    /\ phase = "stopping"
    /\ Goto("event", "done")
    /\ UNCHANGED <<env, active, fresh, lastSeen, locals, out, queue, phase,
                   told, calm, view>>

EventStep == EventHit \/ EventTrack \/ EventDestroy \/ EventExit

(***************************************************************************)
(* The probe loop: runProbes.                                              *)
(***************************************************************************)
ProbeRun ==
    /\ At("probe", "run") /\ Reported("probe")
    /\ \/ \E d \in todo["probe"] :
            /\ phase = "run"
            /\ Track("probe", {d} \X ProbeResources, level)
            /\ todo' = [todo EXCEPT !["probe"] = @ \ {d}]
            /\ UNCHANGED pc
       \/ /\ todo["probe"] = {}
          /\ Goto("probe", "sleep")
          /\ UNCHANGED <<active, fresh, out, told, calm, todo>>
       \/ /\ todo["probe"] # {} /\ phase = "stopping"
          /\ Goto("probe", "done")
          /\ UNCHANGED <<active, fresh, out, told, calm, todo>>
    /\ UNCHANGED <<env, lastSeen, left, cur, snap, checks, seen, hit, queue,
                   phase, view>>

ProbeSleep ==
    /\ At("probe", "sleep") /\ Reported("probe")
    /\ IF phase = "run"
       THEN /\ Goto("probe", "run")
            /\ todo' = [todo EXCEPT !["probe"] = ProbeDetectors]
       ELSE Goto("probe", "done") /\ UNCHANGED todo
    /\ UNCHANGED <<env, active, fresh, lastSeen, left, cur, snap, checks, seen,
                   hit, out, queue, phase, told, calm, view>>

ProbeStep == ProbeRun \/ ProbeSleep

-----------------------------------------------------------------------------
(* Mutant: report drops what does not fit instead of waiting.              *)
ReportDropping(a) ==
    /\ phase # "stopped"
    /\ ~(a = "poll" /\ pc[a] = "check")
    /\ \E m \in out[a] :
         /\ queue' = IF Len(queue) < QueueSize THEN Append(queue, m) ELSE queue
         /\ out' = [out EXCEPT ![a] = @ \ {m}]
    /\ UNCHANGED <<env, active, fresh, lastSeen, pc, locals, phase, told, calm,
                   view>>

(***************************************************************************)
(* report hands a loop's messages to the queue, blocking while it is full. *)
(* The poll loop does so only after every detector saw the container.  The *)
(* order within one report is that of a Go map, and no two messages of a   *)
(* report have the same key.                                               *)
(***************************************************************************)
Report(a) ==
    /\ phase # "stopped"
    /\ ~(a = "poll" /\ pc[a] = "check")
    /\ Len(queue) < QueueSize
    /\ \E m \in out[a] :
         /\ queue' = Append(queue, m)
         /\ out' = [out EXCEPT ![a] = @ \ {m}]
    /\ UNCHANGED <<env, active, fresh, lastSeen, pc, locals, phase, told, calm,
                   view>>

(* Route.Matches: which messages get through to receiver r.                *)
Matches(r, m) ==
    /\ ~m.silenced
    /\ m.kind = "resolved" => r \in SendResolved
    /\ m.severity \in Severities[r]

(* Mutant: the dispatcher quits when the context is cancelled.             *)
DispatchQuits ==
    /\ queue # <<>> /\ phase = "run"
    /\ LET m == Head(queue) IN
         view' = [r \in Receivers |->
                    IF Matches(r, m)
                    THEN [view[r] EXCEPT ![m.key] =
                            IF m.kind = "resolved" THEN 0 ELSE m.severity]
                    ELSE view[r]]
    /\ queue' = Tail(queue)
    /\ UNCHANGED <<env, active, fresh, lastSeen, pc, locals, out, phase, told,
                   calm>>

(* dispatch, deliver and send, with incidents.enabled: false: in queue     *)
(* order, silenced messages to the local log only.  (Module Incidents has  *)
(* the dispatcher in full, and what grouping does to the order.)           *)
Dispatch ==
    /\ queue # <<>> /\ phase # "stopped"
    /\ LET m == Head(queue) IN
         view' = [r \in Receivers |->
                    IF Matches(r, m)
                    THEN [view[r] EXCEPT ![m.key] =
                            IF m.kind = "resolved" THEN 0 ELSE m.severity]
                    ELSE view[r]]
    /\ queue' = Tail(queue)
    /\ UNCHANGED <<env, active, fresh, lastSeen, pc, locals, out, phase, told,
                   calm>>

-----------------------------------------------------------------------------
(***************************************************************************)
(* Shutdown and restart.  Run waits for the loops, closes the queue, waits *)
(* for the dispatcher and saves e.active; restore reads it back and seeds  *)
(* lastSeen with the containers that have an open episode.  Events older   *)
(* than maxReplay are not replayed.  The configuration stays the same over *)
(* a restart, so the episodes of unknown or excluded detectors that        *)
(* restore drops do not occur.                                             *)
(***************************************************************************)
Stop ==
    /\ phase = "run"
    /\ phase' = "stopping"
    /\ UNCHANGED <<env, active, fresh, lastSeen, pc, locals, out, queue, told,
                   calm, view>>

Stopped ==
    /\ phase = "stopping"
    /\ \A a \in Actor : pc[a] = "done"
    /\ queue = <<>>
    /\ phase' = "stopped"
    /\ UNCHANGED <<env, active, fresh, lastSeen, pc, locals, out, queue, told,
                   calm, view>>

(* Run starts the event and probe loops only if there is work for them.    *)
NeedEvents == EventDetectors # {} \/ WantsEvents
StartPC == [a \in Actor |->
    CASE a = "poll"  -> "top"
      [] a = "event" -> IF NeedEvents THEN "idle" ELSE "done"
      [] a = "probe" -> IF ProbeDetectors # {} THEN "run" ELSE "done"]
StartTodo == [a \in Actor |-> IF a = "probe" THEN ProbeDetectors ELSE {}]

(* Mutant: restore does not seed lastSeen.                                 *)
RestartBlind ==
    /\ phase = "stopped"
    /\ phase' = "run"
    /\ pc' = StartPC
    /\ todo' = StartTodo
    /\ left' = {} /\ seen' = {} /\ snap' = NoSnap /\ checks' = {}
    /\ hit' = NoHit
    /\ cur' = cur
    /\ fresh' = {}
    /\ lastSeen' = {}
    /\ \E n \in 0..Len(events) : events' = SubSeq(events, n + 1, Len(events))
    /\ UNCHANGED <<level, silenced, exists, active, out, queue, told, calm,
                   view>>

Restart ==
    /\ phase = "stopped"
    /\ phase' = "run"
    /\ pc' = StartPC
    /\ todo' = StartTodo
    /\ left' = {} /\ seen' = {} /\ snap' = NoSnap /\ checks' = {}
    /\ hit' = NoHit
    /\ cur' = cur
    /\ fresh' = {}
    /\ lastSeen' = {c \in Containers : \E k \in KeysOf(c) : Open(k)}
    /\ \E n \in 0..Len(events) : events' = SubSeq(events, n + 1, Len(events))
    /\ UNCHANGED <<level, silenced, exists, active, out, queue, told, calm,
                   view>>

-----------------------------------------------------------------------------
(***************************************************************************)
(* The world: problems come, change and go, silences begin and end, and    *)
(* containers are removed.                                                 *)
(***************************************************************************)
Change(k, l) ==
    /\ l # level[k] /\ l \in Grades[k] \cup {0}
    /\ k \in ContainerKey => k[2] \in exists
    /\ level' = [level EXCEPT ![k] = l]
    /\ calm' = IF l = 0 /\ Open(k) THEN calm \cup {k} ELSE calm
    /\ IF k \in EventDetectors \X Containers /\ level[k] = 0
       THEN /\ Len(events) < MaxEvents
            /\ events' = Append(events, k)
       ELSE UNCHANGED events
    /\ UNCHANGED <<silenced, exists, active, fresh, lastSeen, pc, locals, out,
                   queue, phase, told, view>>

Silence(k) ==
    /\ silenced' = [silenced EXCEPT ![k] = ~@]
    /\ UNCHANGED <<level, exists, events, active, fresh, lastSeen, pc, locals,
                   out, queue, phase, told, calm, view>>

Destroy(c) ==
    /\ c \in exists
    /\ exists' = exists \ {c}
    /\ level' = [k \in Key |-> IF k \in KeysOf(c) THEN 0 ELSE level[k]]
    /\ calm' = calm \cup {k \in KeysOf(c) : Open(k)}
    /\ IF NeedEvents
       THEN /\ Len(events) < MaxEvents
            /\ events' = Append(events, <<"destroy", c>>)
       ELSE UNCHANGED events
    /\ UNCHANGED <<silenced, active, fresh, lastSeen, pc, locals, out, queue,
                   phase, told, view>>

World == \/ \E k \in Troubled : \E l \in Level : Change(k, l)
         \/ \E k \in Silenceable : Silence(k)
         \/ \E c \in Containers : Destroy(c)

Init ==
    /\ level = Nothing
    /\ silenced = [k \in Key |-> FALSE]
    /\ exists = Containers
    /\ events = <<>>
    /\ active = [k \in Key |-> Absent]
    /\ fresh = {} /\ lastSeen = {}
    /\ pc = StartPC /\ todo = StartTodo
    /\ left = {} /\ cur \in Containers
    /\ snap = NoSnap /\ checks = {} /\ seen = {} /\ hit = NoHit
    /\ out = [a \in Actor |-> {}]
    /\ queue = <<>>
    /\ phase = "run"
    /\ told = Nothing /\ calm = {}
    /\ view = [r \in Receivers |-> Nothing]

Next == \/ PollStep \/ EventStep \/ ProbeStep
        \/ \E a \in Actor : Report(a)
        \/ Dispatch \/ Stop \/ Stopped \/ Restart \/ World

Spec == Init /\ [][Next]_vars

(* The Go scheduler runs every goroutine that can run, and a channel       *)
(* serves blocked senders in order, so a report cannot starve.  Events are *)
(* sure to arrive only while the daemon is there; once the context is      *)
(* cancelled, what was buffered runs out and the event loop ends.          *)
Streaming == phase = "run" /\ Reachable

Fairness ==
    /\ WF_vars(PollStep) /\ WF_vars(ProbeStep)
    /\ WF_vars(EventTrack) /\ SF_vars(EventExit)
    /\ WF_vars(Streaming /\ (EventHit \/ EventDestroy))
    /\ \A a \in Actor : SF_vars(Report(a))
    /\ WF_vars(Dispatch) /\ WF_vars(Stopped)

FairSpec == Spec /\ Fairness

-----------------------------------------------------------------------------
(* Every map entry, message and belief has its type; a severity is one of  *)
(* the ranks trackLocked compares.                                         *)
TypeOK ==
    /\ level \in [Key -> Level]
    /\ silenced \in [Key -> BOOLEAN]
    /\ exists \in SUBSET Containers
    /\ events \in Seq(Event)
    /\ active \in [Key -> Alert]
    /\ fresh \in SUBSET ContainerKey
    /\ lastSeen \in SUBSET Containers
    /\ pc \in [Actor -> PC]
    /\ todo \in [Actor -> SUBSET (HostDetectors \cup ProbeDetectors)]
    /\ left \in SUBSET Containers
    /\ cur \in Containers
    /\ snap \in [PollDetectors -> Level]
    /\ checks \in SUBSET PollDetectors
    /\ seen \in SUBSET Containers
    /\ hit \in [key : Key, severity : Level]
    /\ out \in [Actor -> SUBSET Message]
    /\ queue \in Seq(Message)
    /\ phase \in {"run", "stopping", "stopped"}
    /\ told \in [Key -> Level]
    /\ calm \in SUBSET Key
    /\ view \in [Receivers -> [Key -> Level]]

(* What is announced about an episode is announced once: an alert that is  *)
(* not silenced is always worse than anything announced before in the same *)
(* episode, and a resolution is audible only for an announced episode.     *)
(* (trackLocked and flushDeferred, whichever loops and silences intervene.) *)
NewsOnly(m) ==
    ~m.silenced => IF m.kind = "resolved" THEN told[m.key] # 0
                                          ELSE m.severity > told[m.key]

OneAlertPerProblem ==
    [][\A a \in Actor : \A m \in out'[a] \ out[a] : NewsOnly(m)]_vars

(* `notified' means exactly that somebody was told and not yet told that   *)
(* it is over; resolution() relies on it to decide whether to speak.       *)
NotifiedMeansTold ==
    \A k \in Key :
        /\ active[k].notified <=> told[k] # 0
        /\ told[k] <= active[k].severity

(* Whichever loop closes an episode, the problem really was away (or its   *)
(* container gone) at some moment since the episode opened: an episode an  *)
(* event opened is never closed by an inspect that looked before, nor by a *)
(* listing or a saved lastSeen that is out of date (trackAt's observedAt,  *)
(* forgetGone, the restored lastSeen, dockerUp).                           *)
ClosesOnlyWhatEnded ==
    [][\A k \in Key : Open(k) /\ ~Open(k)' => k \in calm]_vars

(* Everything a loop produced for key k has reached the receivers.         *)
Settled(k) ==
    /\ \A a \in Actor : \A m \in out[a] : m.key # k
    /\ \A i \in 1..Len(queue) : queue[i].key # k

(* For a problem one loop alone reports, once its messages are through, a  *)
(* receiver of every severity believes it is there exactly when it is open *)
(* and was announced.                                                      *)
Everything(r) == Severities[r] = {Warning, Critical} /\ r \in SendResolved
Agrees(k) == \A r \in Receivers :
                Everything(r) => (view[r][k] # 0 <=> active[k].notified)

ReceiversAgree == \A k \in OneLoop : Settled(k) => Agrees(k)

(* No receiver is left believing in a closed problem, as long as its route *)
(* has no gap above the severities it gets (a resolution carries the       *)
(* severity the episode ended with).                                       *)
GapFree(r) ==
    r \in SendResolved /\ (Warning \in Severities[r] => Critical \in Severities[r])

NoGhostProblems ==
    \A k \in OneLoop : Settled(k) /\ ~Open(k) =>
        \A r \in Receivers : GapFree(r) => view[r][k] = 0

Running == phase = "run"

(* An alert held back by a silence goes out once the silence is over, if   *)
(* the problem is still there (flushDeferred on every poll).               *)
HeldAlertsGoOut ==
    \A k \in Key :
        <>[](Running /\ Open(k) /\ ~silenced[k]) => <>[](active[k].notified)

(* README: "If the problem is still there when the silence or window ends, *)
(* its alert goes out then": also when what was silenced is an escalation. *)
EscalationsGoOut ==
    \A k \in Key :
        <>[](Running /\ ~silenced[k] /\ level[k] = Critical)
            => <>(told[k] = Critical)

(* A container's episodes do not outlive it: while nodux runs and Docker   *)
(* answers, whatever is open for a removed container is closed for good,   *)
(* by its destroy event or by forgetGone, across a restart as well.        *)
GoneContainersClose ==
    \A c \in Containers :
        <>[](Running /\ Reachable /\ c \notin exists)
            => <>[](\A k \in KeysOf(c) : ~Open(k))

(* Run returns: once the context is cancelled every loop ends, the queue   *)
(* is drained and the state is saved.                                      *)
ShutdownCompletes == phase = "stopping" ~> phase = "stopped"
=============================================================================
