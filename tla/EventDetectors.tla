--------------------------- MODULE EventDetectors ---------------------------
(***************************************************************************)
(* What nodux makes of a container's events: the exit, oom and crashloop   *)
(* detectors (internal/detector), and in the engine the cooldown of        *)
(* one-off alerts, deploy windows and the length of the last run.          *)
(*                                                                         *)
(* `log' is Docker's event log.  Events are handled in order and once;     *)
(* that is what EventStream is about.  Each carries what really happened:  *)
(* asked (someone asked for the stop), oomed, crash (a start after a crash)*)
(* and ran (how long the run lasted).  A crash of nodux takes memory and   *)
(* the position back to the state file, while containers go on.            *)
(***************************************************************************)
EXTENDS Silences, Pruning, FiniteSets

CONSTANTS
    Containers,         \* container ids, in the order they come to exist
    Name, Project,      \* functions of the id; a recreated container has its
                        \* name again
    Signals, StopSignal,  \* signals sent, and the configured stop signal: "term",
                        \* for the signals that always stop, or another one
    Bad,                \* whether an exit code is one to report
    Threshold, Window, Cooldown, Grace, MaxReplay,
    SkipOOM,            \* the oom detector is on
    MaxEvents, MaxLag, MaxTime, MaxSaves, MaxCrashes   \* bounds

ASSUME DetectorAssumption ==
    /\ Containers \subseteq Nat
    /\ Threshold \in Nat \ {0} /\ Window \in Nat \ {0}
    /\ Cooldown \in Nat /\ Grace \in Nat /\ MaxReplay \in Nat
    /\ SkipOOM \in BOOLEAN /\ Bad \subseteq BOOLEAN /\ "unknown" \notin Signals
    /\ \A k \in WindowKeys : k[2] # ""      \* Deploy passes such a name by
    /\ {MaxEvents, MaxLag, MaxTime, MaxSaves, MaxCrashes} \subseteq Nat /\ MaxTime > 0

VARIABLES
    run, asked, oomed, fell,       \* the containers (external): what they do,
    startedAt, ran, log,           \* and how long the last run was
    up, faults,        \* saves and crashes so far
    pos,               \* events handled
    stops,             \* the stopTracker of each of the two detectors
    ooms, crashed,     \* d.oomed; d.crashed: died without a stop request
    restarts, firing,  \* crashLoopState
    starts, lastRuns,  \* e.starts and e.lastRuns; 0 = not there
    lastAlert,         \* e.lastAlert, by detector and name; 0 = not there
    hit,               \* the event loop between HandleEvent and its report
    poll,              \* the poll loop: idle, or what it saw of a container, and
                       \* how long the log was then (seen: history)
    lastSeen,
    alerts,            \* what was put in e.queue
    saved,
    raised, muted,     \* history: what coolingDown let pass and held back,
    dropped, misled    \* alerts lost for good, and containers of which nodux
                       \* could not know the truth

world   == <<run, asked, oomed, fell, startedAt, ran, log>>
marks   == <<stops, ooms, crashed>>
loops   == <<restarts, firing>>
runs    == <<starts, lastRuns>>
past    == <<raised, muted, dropped, misled>>
vars == <<now, store, world, up, faults, pos, marks, loops, runs, lastAlert,
          hit, poll, lastSeen, alerts, saved, past>>

NoHit == [det |-> "none", i |-> 0, at |-> 0]
Idle  == [at |-> "idle", id |-> 0, on |-> FALSE, seen |-> 0]
Keys  == {"exit", "oom"} \X {Name[c] : c \in Containers}

-----------------------------------------------------------------------------
(* The containers.  Nothing happens to them, or to nodux, after MaxTime;   *)
(* the clock runs on until deploy windows and silences are over.           *)
Horizon == MaxTime + Grace

Nodux == <<now, store, up, faults, pos, marks, loops, runs, lastAlert, hit, poll, lastSeen, alerts, saved, past>>

Event(action, c) ==
    [action |-> action, id |-> c, time |-> now, signal |-> "none",
     asked |-> FALSE, oomed |-> FALSE, crash |-> FALSE, bad |-> FALSE,
     ran |-> 0]

Emit(e) ==
    /\ Len(log) < MaxEvents /\ now <= MaxTime /\ (up => Len(log) < pos + MaxLag)
    /\ log' = Append(log, e)
    /\ UNCHANGED Nodux

Create(c) ==
    /\ run[c] = "none" /\ \A d \in Containers : d < c => run[d] = "gone"
    /\ Emit(Event("create", c))
    /\ run' = [run EXCEPT ![c] = "down"]
    /\ UNCHANGED <<asked, oomed, fell, startedAt, ran>>

Start(c) ==
    /\ run[c] = "down"
    /\ Emit([Event("start", c) EXCEPT !.crash = fell[c], !.ran = ran[c]])
    /\ run' = [run EXCEPT ![c] = "up"]
    /\ asked' = [asked EXCEPT ![c] = FALSE]
    /\ oomed' = [oomed EXCEPT ![c] = FALSE]
    /\ fell' = [fell EXCEPT ![c] = FALSE]
    /\ startedAt' = [startedAt EXCEPT ![c] = now]
    /\ UNCHANGED ran

(* docker stop, kill or restart; or a signal the process survives.         *)
Kill(c, signal) ==
    /\ run[c] = "up"
    /\ Emit([Event("kill", c) EXCEPT !.signal = signal])
    /\ asked' = [asked EXCEPT ![c] = @ \/ signal \in {"term", StopSignal[c]}]
    /\ UNCHANGED <<run, oomed, fell, startedAt, ran>>

OOM(c) ==
    /\ run[c] = "up" /\ ~oomed[c]
    /\ Emit([Event("oom", c) EXCEPT !.ran = now - startedAt[c]])
    /\ oomed' = [oomed EXCEPT ![c] = TRUE]
    /\ UNCHANGED <<run, asked, fell, startedAt, ran>>

(* bad: the exit code is not one of those to ignore.                       *)
Die(c, bad) ==
    /\ run[c] = "up"
    /\ Emit([Event("die", c) EXCEPT !.bad = bad, !.asked = asked[c],
                                    !.oomed = oomed[c],
                                    !.ran = now - startedAt[c]])
    /\ run' = [run EXCEPT ![c] = "down"]
    /\ fell' = [fell EXCEPT ![c] = ~asked[c]]
    /\ ran' = [ran EXCEPT ![c] = now - startedAt[c]]
    /\ UNCHANGED <<asked, oomed, startedAt>>

Destroy(c) ==
    /\ run[c] = "down"
    /\ Emit(Event("destroy", c))
    /\ run' = [run EXCEPT ![c] = "gone"]
    /\ UNCHANGED <<asked, oomed, fell, startedAt, ran>>

World ==
    \E c \in Containers :
        \/ Create(c) \/ Start(c) \/ OOM(c) \/ Destroy(c)
        \/ \E signal \in Signals : Kill(c, signal)
        \/ \E bad \in Bad : Die(c, bad)

Tick ==
    /\ now' = IF now < Horizon THEN now + 1 ELSE now
    /\ UNCHANGED <<store, world, up, faults, pos, marks, loops, runs,
                   lastAlert, hit, poll, lastSeen, alerts, saved, past>>

-----------------------------------------------------------------------------
(* The event loop, first part: what an event does to the detectors.        *)
Turn(action) ==
    /\ up /\ hit = NoHit /\ pos < Len(log)
    /\ log[pos + 1].action = action
    /\ pos' = pos + 1
    /\ UNCHANGED <<now, world, up, faults, poll, lastSeen, alerts, saved, dropped>>

Ev == log[pos + 1]

(* Whether an inspect of the container can answer.                         *)
Inspects(c) == IF run[c] = "gone" THEN {FALSE} ELSE BOOLEAN

(* stopSignal is "unknown" when the inspect has failed.                    *)
IsStopRequest(signal, stopSignal) == signal = "term" \/ signal = stopSignal

(* Mutant: any kill counts as a stop.                                      *)
ObserveAny(c, stop) == stops' = [d \in DOMAIN stops |-> [stops[d] EXCEPT ![c] = TRUE]]

Observe(c, stop) == stops' = [d \in DOMAIN stops |-> [stops[d] EXCEPT ![c] = stop]]

(* Mutant: the window starts when the event is handled.                    *)
OpenWindowNow(c, time) ==
    IF Grace > 0 THEN Deploy(Name[c], Project[c], now + Grace)
    ELSE UNCHANGED store

OpenWindow(c, time) ==
    IF Grace > 0 THEN Deploy(Name[c], Project[c], time + Grace)
    ELSE UNCHANGED store

OnCreate ==
    /\ Turn("create") /\ OpenWindow(Ev.id, Ev.time)
    /\ UNCHANGED <<marks, loops, runs, lastAlert, hit, raised, muted,
                   misled>>

(* The engine asks the daemon for the stop signal before the detectors see *)
(* a kill.                                                                 *)
OnKill ==
    /\ Turn("kill")
    /\ \E seen \in Inspects(Ev.id) :
        LET c    == Ev.id
            stop == IsStopRequest(Ev.signal,
                                  IF seen THEN StopSignal[c] ELSE "unknown")
        IN /\ IF stop THEN Observe(c, TRUE) /\ OpenWindow(c, Ev.time)
              ELSE UNCHANGED <<stops, store>>
           /\ misled' = IF ~stop /\ Ev.signal = StopSignal[c]
                        THEN misled \cup {c} ELSE misled
    /\ UNCHANGED <<ooms, crashed, loops, runs, lastAlert, hit, raised,
                   muted>>

(* coolingDown: forget what has cooled down, then look the alert up.       *)
Warm(t) == t # 0 /\ now - t < Cooldown
Cooled == [k \in Keys |-> IF Warm(lastAlert[k]) THEN lastAlert[k] ELSE 0]

OneOff(det, c) ==
    LET key   == <<det, Name[c]>>
        alert == [det |-> det, i |-> pos + 1, at |-> now]
    IN IF Warm(lastAlert[key])
       THEN /\ muted' = muted \cup {alert} /\ lastAlert' = Cooled
            /\ UNCHANGED <<hit, raised>>
       ELSE /\ hit' = alert /\ raised' = raised \cup {alert}
            /\ lastAlert' = [Cooled EXCEPT ![key] = IF Cooldown > 0 THEN now ELSE 0]
            /\ UNCHANGED muted

(* noteRun, for oom and die.                                               *)
NoteEnd ==
    lastRuns' = [lastRuns EXCEPT ![Ev.id] =
        IF starts[Ev.id] # 0 /\ Ev.time > starts[Ev.id]
        THEN Ev.time - starts[Ev.id] ELSE 0]

OnOOM ==
    /\ Turn("oom") /\ NoteEnd
    /\ ooms' = [ooms EXCEPT ![Ev.id] = TRUE]
    /\ IF SkipOOM THEN OneOff("oom", Ev.id)
       ELSE UNCHANGED <<hit, raised, muted, lastAlert>>
    /\ UNCHANGED <<store, stops, crashed, loops, starts, misled>>

MarkDeath(c) == crashed' = [crashed EXCEPT ![c] = ~stops["crashloop"][c]]

OnDie ==
    LET c == Ev.id IN
    /\ Turn("die") /\ NoteEnd /\ MarkDeath(c)
    /\ IF stops["exit"][c] \/ (SkipOOM /\ ooms[c]) \/ ~Ev.bad
       THEN UNCHANGED <<hit, raised, muted, lastAlert>>
       ELSE OneOff("exit", c)
    /\ UNCHANGED <<store, stops, ooms, loops, starts, misled>>

(* Mutant: a restart during a loop that is known already is not recorded.  *)
RecordedOnce(c, kept) ==
    IF crashed[c] /\ ~firing[c] THEN [restarts EXCEPT ![c] = kept] ELSE restarts

Recorded(c, kept) ==
    IF crashed[c] THEN [restarts EXCEPT ![c] = kept] ELSE restarts

OnStart ==
    LET c    == Ev.id
        kept == Within(Append(restarts[c], Ev.time), Ev.time - Window)
        loop == crashed[c] /\ ~firing[c] /\ Len(kept) >= Threshold
    IN /\ Turn("start")
       /\ Observe(c, FALSE)
       /\ ooms' = [ooms EXCEPT ![c] = FALSE]
       /\ crashed' = [crashed EXCEPT ![c] = FALSE]
       /\ starts' = [starts EXCEPT ![c] = Ev.time]
       /\ restarts' = Recorded(c, kept)
       /\ firing' = [firing EXCEPT ![c] = @ \/ loop]
       /\ hit' = IF loop THEN [det |-> "crashloop", i |-> pos + 1, at |-> now]
                 ELSE NoHit
       /\ UNCHANGED <<store, lastRuns, lastAlert, raised, muted, misled>>

(* forget, for the crash-loop detector.                                    *)
Forget(c) ==
    /\ restarts' = [restarts EXCEPT ![c] = <<>>]
    /\ firing' = [firing EXCEPT ![c] = FALSE]
    /\ crashed' = [crashed EXCEPT ![c] = FALSE]

(* The detectors and forgetContainer.                                      *)
OnDestroy ==
    LET c == Ev.id IN
    /\ Turn("destroy") /\ OpenWindow(c, Ev.time)
    /\ Observe(c, FALSE) /\ Forget(c)
    /\ ooms' = [ooms EXCEPT ![c] = FALSE]
    /\ starts' = [starts EXCEPT ![c] = 0]
    /\ lastRuns' = [lastRuns EXCEPT ![c] = 0]
    /\ UNCHANGED <<lastAlert, hit, raised, muted, misled>>

HandleEvent == OnCreate \/ OnKill \/ OnOOM \/ OnDie \/ OnStart \/ OnDestroy

-----------------------------------------------------------------------------
(* The event loop, second part: inspect, then track or isSilenced, then    *)
(* the queue.                                                              *)
Subject(det, c) ==
    [detector |-> det, container |-> Name[c], project |-> Project[c],
     resource |-> "", oneOff |-> det # "crashloop"]

(* The run that just ended, if nodux missed its start.                     *)
Missed(c, e, seen) ==
    /\ seen /\ e.action \in {"die", "oom"} /\ lastRuns[c] = 0
    /\ startedAt[c] < e.time

EventReport ==
    /\ up /\ hit # NoHit /\ hit' = NoHit
    /\ LET e == log[hit.i]
           c == e.id
       IN \E seen \in Inspects(c) :
          /\ lastRuns' = [lastRuns EXCEPT ![c] =
                IF Missed(c, e, seen) THEN e.time - startedAt[c] ELSE @]
          /\ PruneStore
          /\ alerts' = alerts \cup
                {[det |-> hit.det, i |-> hit.i, lastRun |-> lastRuns'[c],
                  silenced |-> Silenced(Subject(hit.det, c))]}
    /\ UNCHANGED <<now, world, up, faults, pos, marks, loops, starts, lastAlert,
                   poll, lastSeen, saved, past>>

-----------------------------------------------------------------------------
(* The poll loop: inspect, then Check, and Forget for a container that has *)
(* left the list.  A container the detector has no state for is passed by. *)
PollLook(c) ==
    /\ up /\ poll = Idle /\ run[c] \in {"up", "down"}
    /\ restarts[c] # <<>> \/ firing[c]
    /\ poll' = [at |-> "check", id |-> c, on |-> run[c] = "up", seen |-> Len(log)]
    /\ lastSeen' = lastSeen \cup {c}
    /\ UNCHANGED <<now, store, world, up, faults, pos, marks, loops, runs,
                   lastAlert, hit, alerts, saved, past>>

(* A loop is over after a window without a restart, if the container runs. *)
StillLooping(kept, fires, on) == fires /\ (kept # <<>> \/ ~on)

Check ==
    LET c    == poll.id
        kept == Within(restarts[c], now - Window)
        open == StillLooping(kept, firing[c] \/ Len(kept) >= Threshold, poll.on)
    IN /\ up /\ poll.at = "check"
       /\ restarts' = [restarts EXCEPT ![c] = kept]
       /\ firing' = [firing EXCEPT ![c] = open]
       /\ poll' = Idle
       /\ UNCHANGED <<now, store, world, up, faults, pos, marks, runs, lastAlert,
                      hit, lastSeen, alerts, saved, past>>

ForgetGone(c) ==
    /\ up /\ poll = Idle /\ c \in lastSeen /\ run[c] = "gone"
    /\ Forget(c) /\ stops' = [stops EXCEPT !["crashloop"][c] = FALSE]
    /\ starts' = [starts EXCEPT ![c] = 0]
    /\ lastRuns' = [lastRuns EXCEPT ![c] = 0]
    /\ lastSeen' = lastSeen \ {c}
    /\ UNCHANGED <<now, store, world, up, faults, pos, ooms, lastAlert,
                   hit, poll, alerts, saved, past>>

-----------------------------------------------------------------------------
(* saveState pauses the event loop and runs on the poll loop.              *)
Memory ==
    [pos |-> pos, stops |-> stops, ooms |-> ooms, crashed |-> crashed,
     restarts |-> restarts, firing |-> firing, lastAlert |-> lastAlert,
     store |-> StoreSaved]

Save ==
    /\ up /\ now <= MaxTime /\ hit = NoHit /\ poll = Idle
    /\ faults.saves < MaxSaves /\ faults.crashes < MaxCrashes
    /\ saved' = Memory /\ faults' = [faults EXCEPT !.saves = @ + 1]
    /\ UNCHANGED <<now, store, world, up, pos, marks, loops, runs,
                   lastAlert, hit, poll, lastSeen, alerts, past>>

(* Mutant: restore leaves the marks of the detectors behind.               *)
RestoreMarksNot ==
    /\ stops' = [d \in DOMAIN stops |-> [c \in Containers |-> FALSE]]
    /\ ooms' = [c \in Containers |-> FALSE] /\ crashed' = ooms'

RestoreMarks == stops' = saved.stops /\ ooms' = saved.ooms /\ crashed' = saved.crashed

(* Alerts the dispatcher has not delivered yet, any of them, are lost.  An *)
(* event after the saved position comes again and has to lead to an alert  *)
(* again, so its history is struck out.  Memory is gone: it is shown at    *)
(* once as restore will fill it.                                           *)
Known(as) == {a \in as : a.i <= saved.pos}

Crash ==
    /\ up /\ now <= MaxTime /\ faults.crashes < MaxCrashes
    /\ up' = FALSE /\ faults' = [faults EXCEPT !.crashes = @ + 1]
    /\ \E lost \in SUBSET Known(alerts) :
          /\ alerts' = Known(alerts) \ lost
          /\ dropped' = dropped \cup {a.i : a \in lost}
    /\ raised' = Known(raised) /\ muted' = Known(muted)
    /\ pos' = saved.pos /\ RestoreMarks
    /\ restarts' = saved.restarts /\ firing' = saved.firing
    /\ lastAlert' = saved.lastAlert
    /\ silences' = saved.store.silences /\ windows' = saved.store.windows
    /\ lastSeen' = {c \in Containers : saved.firing[c]}
    /\ starts' = [c \in Containers |-> 0] /\ lastRuns' = starts'
    /\ hit' = NoHit /\ poll' = Idle
    /\ UNCHANGED <<now, world, saved, misled>>

(* restore: events from before the replay limit are skipped, and silences  *)
(* that have run out.                                                      *)
Restart ==
    LET old  == {i \in 1..Len(log) : log[i].time < now - MaxReplay}
        from == IF Cardinality(old) > pos THEN Cardinality(old) ELSE pos
    IN /\ ~up /\ up' = TRUE
       /\ pos' = from
       /\ misled' = misled \cup {log[i].id : i \in (pos + 1)..from}
       /\ StoreLoad([silences |-> silences, windows |-> windows])
       /\ UNCHANGED <<now, world, faults, marks, loops, runs, lastAlert, hit,
                      poll, lastSeen, alerts, saved, raised, muted, dropped>>

(* One container runs and nodux has just saved for the first time.  A      *)
(* silence may be in force.                                                *)
Init ==
    /\ now = 1 /\ windows = [k \in WindowKeys |-> 0]
    /\ \/ silences = {}
       \/ \E id \in SilenceIds, m \in Matchers, d \in Durations :
             silences = {[id |-> id, matcher |-> m, until |-> now + d]}
    /\ run = [c \in Containers |->
                IF \A d \in Containers : c <= d THEN "up" ELSE "none"]
    /\ asked = [c \in Containers |-> FALSE] /\ oomed = asked /\ fell = asked
    /\ startedAt = [c \in Containers |-> 0] /\ ran = startedAt
    /\ log = <<>> /\ up = TRUE /\ faults = [saves |-> 0, crashes |-> 0] /\ pos = 0
    /\ stops = [d \in {"exit", "crashloop"} |-> asked]
    /\ ooms = asked /\ crashed = asked /\ firing = asked
    /\ restarts = [c \in Containers |-> <<>>]
    /\ starts = startedAt /\ lastRuns = startedAt
    /\ lastAlert = [k \in Keys |-> 0]
    /\ hit = NoHit /\ poll = Idle /\ lastSeen = {} /\ alerts = {}
    /\ saved = Memory
    /\ raised = {} /\ muted = {} /\ dropped = {} /\ misled = {}

Next ==
    \/ World \/ Tick \/ HandleEvent \/ EventReport
    \/ \E c \in Containers : PollLook(c) \/ ForgetGone(c)
    \/ Check \/ Save \/ Crash \/ Restart

Spec == Init /\ [][Next]_vars

-----------------------------------------------------------------------------
(* Everything the log and memory say of a container is of the right kind.  *)
TypeOK ==
    /\ pos \in 0..Len(log) /\ now \in 1..Horizon
    /\ \A c \in Containers :
          \A t \in 1..Len(restarts[c]) : restarts[c][t] \in 1..now
    /\ \A k \in Keys : lastAlert[k] \in 0..now
    /\ \A a \in alerts : a.i \in 1..Len(log) /\ a.lastRun \in 0..now

(* "exit" is raised only for a death nobody asked for, whatever signals    *)
(* came before it and however often nodux crashed in between (exit.go's    *)
(* stopTracker, saved with the stream position).                           *)
ExitMeansCrash ==
    \A a \in raised : a.det = "exit" /\ log[a.i].id \notin misled
                      => ~log[a.i].asked

(* What an event that was handled has to lead to.                          *)
Owed(i) ==
    CASE log[i].action = "oom" -> IF SkipOOM THEN "oom" ELSE "none"
      [] log[i].action = "die" ->
            IF ~log[i].asked /\ log[i].bad /\ ~(SkipOOM /\ log[i].oomed)
            THEN "exit" ELSE "none"
      [] OTHER -> "none"

(* Every crash and OOM kill is reported: an alert is on its way or sent,   *)
(* or one for the same detector and container name passed coolingDown less *)
(* than a cooldown earlier.  The only alerts that are lost were in the     *)
(* queue when nodux crashed, with a position past their event on disk.     *)
CrashesReported ==
    up => \A i \in 1..pos :
        Owed(i) # "none" /\ log[i].id \notin misled =>
        \/ i \in dropped \/ hit.i = i
        \/ \E a \in alerts : a.i = i /\ a.det = Owed(i)
        \/ \E m \in muted, a \in raised :
              /\ m.i = i /\ m.det = Owed(i) /\ a.det = m.det
              /\ Name[log[a.i].id] = Name[log[i].id]
              /\ a.at <= m.at /\ m.at < a.at + Cooldown

(* The crash-loop detector counts exactly the restarts after a crash in    *)
(* the last window, over replays, polls and crashes of nodux.              *)
RestartsExact ==
    up => \A c \in Containers :
        run[c] # "gone" /\ c \notin misled =>
        Len(Within(restarts[c], now - Window)) =
            Cardinality({i \in 1..pos : /\ log[i].id = c
                                         /\ log[i].action = "start" /\ log[i].crash
                                         /\ log[i].time > now - Window})

(* A deploy window is open exactly until Grace after the last event of a   *)
(* deploy, whatever order silences, polls and restarts come in.            *)
Deploying(i) ==
    \/ log[i].action \in {"create", "destroy"}
    \/ log[i].action = "kill" /\ log[i].signal \in {"term", StopSignal[log[i].id]}

WindowsExact ==
    up /\ Grace > 0 => \A k \in WindowKeys :
        LET of == {c \in Containers : k \in {<<"container", Name[c]>>,
                                              <<"project", Project[c]>>}}
            ends == {log[i].time + Grace :
                        i \in {j \in 1..pos : log[j].id \in of /\ Deploying(j)}}
        IN of \cap misled = {} =>
           /\ Until(k) # 0 => Until(k) \in ends
           /\ \A t \in ends : t > now => Until(k) >= t

(* An alert that says how long the container had run is right.             *)
LastRunRight ==
    \A a \in alerts : a.lastRun \in {0, log[a.i].ran}

(* By the log, container c ran after its first n events: every death was   *)
(* followed by a start.                                                    *)
RanAt(c, n) ==
    \A i \in 1..n : log[i].id = c /\ log[i].action = "die" =>
        \E j \in i + 1..n : log[j].id = c /\ log[j].action = "start"

(* The poll loop declares a crash loop over only for a container that, by  *)
(* the log, ran when it was looked at and of which no restart after a      *)
(* crash that nodux handled is less than a window old: neither a restart   *)
(* between the look and the Check nor a crash of nodux, which takes the    *)
(* list of restarts back, ends a loop that goes on.                        *)
LoopEndsCalm ==
    [][\A c \in Containers \ misled :
          /\ firing[c] /\ ~firing'[c] /\ run[c] # "gone"
          /\ poll.at = "check" /\ poll' = Idle /\ up'
          => /\ RanAt(c, poll.seen)
             /\ \A i \in 1..pos :
                   log[i].id = c /\ log[i].action = "start" /\ log[i].crash
                      => log[i].time <= now - Window]_vars

(* What the event loop remembers of a container's past is what happened,   *)
(* after any mix of replays, polls, crashes and restarts of nodux.         *)
PastRight == TypeOK /\ RestartsExact /\ LastRunRight

(* The one-off alerts are the crashes and kills that happened: none for a  *)
(* stop somebody asked for, and none missing.                              *)
AlertsRight == ExitMeansCrash /\ CrashesReported
=============================================================================
