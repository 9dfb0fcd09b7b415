# nodux in TLA+

nodux watches one Docker host and sends alerts. This directory holds TLA+
models of its core, the TLC runs that check them on small instances and TLAPS
proofs of the results that matter most. `PROJECT.json` is the index: it maps
every definition to the source lines it stands for, and lists runs, mutants,
hazards, findings and theorems.

To repeat a run: `tlc -workers 2 -config Incidents.cfg MCIncidents`. To check
the proofs of a module: `tlapm PollProofs.tla`.

## 1. Inventory

| Component | State | Operations | Talks to |
|---|---|---|---|
| poll loop (`engine.go`) | `lastSeen`, `downSince`, `images` | host checks, flush of held alerts, list/inspect/check, expected names, images, forget removed containers, daemon up/down, save | Docker API, `e.active` under `e.mu`, `e.queue` |
| event loop (`engine.go`) | `evSince`, `evLast`, `evHandled` under `eventMu`; `lastAlert`, `starts`, `lastRuns` | follow the event stream, skip what was handled, run event detectors, cool down one-off alerts, open deploy windows, close episodes on destroy | Docker events, `e.active`, `e.queue`, silences |
| probe loop (`engine.go`, `probe/`) | failure counts, last certificate | HTTP/TCP/TLS checks, all targets at once | `e.active`, `e.queue` |
| episode tracking (`engine.go`) | `e.active` | open, escalate, resolve, defer, flush | all loops |
| dispatcher (`dispatch.go`) | batches channel | receive, wait for due batches, hand over, flush; collect what a prompt is given, analyse, send | grouper, LLM, receivers, history |
| incident grouper (`incident/`) | open incidents, `byKey`, `ready`, `nextID` | Add, expire, Due, Flush, SetSummary, Save/Load | dispatcher, state file |
| receivers (`action/http.go`) | bounded queue, counters, closed flag | Send, worker with retries, Close | HTTP endpoints |
| routes (`action/route.go`) | configuration | Matches, Send | receivers |
| state file (`persist.go`, `state/`) | one JSON file, the last document written | save on every poll and at shutdown, restore | engine, detectors, grouper, silences |
| host OOM (`detector/hostoom.go`) | counter, credits, pending, confirmed | ContainerOOM (event loop), Check (poll loop), Save/Load | `/proc/vmstat`, event loop |
| silences (`silence/`) | silences and deploy windows with expiry | add, remove, match, deploy, Save/Load | event loop, API, all reports |
| crash-loop, exit, oom detectors | restart times, stop requests, OOM marks | HandleEvent, Check, Forget, Save/Load | event and poll loop |
| threshold detectors | gates, counters, samples | Check, Forget, Save/Load | poll loop, `/proc`, container stats |
| LLM analyzer (`llm/`) | calls of the last hour | Analyze, SummarizeDigest, Answer; rounds of tool calls | Anthropic API, tools |
| chatops (`chatops/`) | update offset | poll Telegram, questions to the LLM, read-only commands | Telegram, LLM |
| digest (`digest/`) | time of the next one | wait, build from history, note by the LLM, send | history, LLM, receivers |
| history (`history/`) | SQLite tables | AddAlerts, LLM calls, memory samples, queries, Prune | dispatcher, digest, tools |
| API server (`server/`) | — | read the engine's state; add and remove silences | silences, engine |
| heartbeat, tools, formats, configuration | — | one timed request; reading; formatting; parsing | — |

What is hard to test here, and so what the properties are about:

- three goroutines share `e.active`, but queue what they found after the lock
  is released, and one of them looks at a container, waits for the network and
  only then applies what it saw;
- messages pass two blocking channels and a grouping delay, and everything must
  come out at shutdown;
- state is saved between events and a crash takes memory back to it, while
  Docker, the kernel's counters and the clock go on;
- silences, escalations, cooldowns and routes decide who hears of a problem,
  and each was written for one of its sequences;
- detectors decide from readings that may be missing, and counters that start
  over;
- a budget, a cooldown, a retention and four bounded queues are at their limit
  exactly when much goes wrong at once.

The correctness conditions that follow: a problem is announced once per
severity and its end once (episodes); no event is lost or applied twice (event
stream); what the detectors remember is what happened (event detectors,
thresholds, probes, host OOM); every alert is delivered exactly once, with its
incident and in order, and a prompt tells its incident's story (dispatcher,
grouper); every notification is accounted for and Close leaves nothing behind
(receivers); what was acknowledged or stored survives (storage); what the LLM
costs is bounded and no message is passed over (assistant). `hazards` in
`PROJECT.json` has them by source line.

## 2. Modules

| Module | Models | Extended by |
|---|---|---|
| `Episodes` | the three loops, episode tracking, report, routing, shutdown and restart | `MCEpisodes`, `PollProofs` |
| `EventStream` | the position in the Docker event stream, its save and restore | `MCEventStream`, `EventStreamProofs` |
| `Incidents` | dispatcher, grouper, delivery goroutine, prompts | `MCIncidents`, `IncidentsProofs` |
| `Receiver` | `HTTPAction`: queue, worker, retries, Close | `MCReceiver`, `OutputProofs` |
| `HostOOM` | `HostOOMDetector` with its two callers and the state file | `MCHostOOM`, `PollProofs` |
| `EventDetectors` | exit, oom and crash-loop detectors, cooldowns, deploy windows, lengths of runs; composes `Silences` | `MCEventDetectors`, `EventDetectorsProofs` |
| `Pruning` | lists of moments that forget what has run out, a recursive function | `EventDetectors`, `Assistant` |
| `Gate` | the hysteresis gate, a pure operator | `Thresholds` |
| `Thresholds` | the detectors that are asked at every poll, image tracking | `MCThresholds`, `ThresholdsProofs` |
| `Probes` | prober and certificate detector | `MCProbes`, `ProbesProofs` |
| `Assistant` | LLM budget, tool rounds, chat bot | `MCAssistant`, `AssistantProofs` |
| `Silences` | `silence.Store` | `EventDetectors`, `Storage` |
| `StateFile` | `state.File`, step by step | `Storage` |
| `AtomicFile` | what `state.File` promises: the abstract specification | instanced by `Storage` |
| `Calendar` | the digest's schedule in local time, over a change of the zone's offset | `History` |
| `History` | the alert table and the digests built from it | `Storage` |
| `Storage` | everything in `state_dir`: composes `Silences`, `StateFile` and `History` over crashes and power losses | `MCStorage`, `OutputProofs` |
| `Clock` | the `now` that composed modules share | `Silences`, `History` |

Operators named after a bug ("Mutant: ..." in the comment above) are not part
of a specification. Each replaces one definition in a mutation run, to show
that the property it belongs to would notice that bug.

The seams between the modules are the engine's own: `EventStream` shows that
each event is handled once and in order, which `EventDetectors` and `HostOOM`
take for granted; the detectors' results are the observations that `Episodes`
takes from the environment; what `Episodes` puts in the queue is what
`Incidents` is given; what `Incidents` delivers goes to a `Receiver`.

### Episodes

A key is a pair of detector and container, resource or name. `level[k]` is how
bad the problem is in the world (0, warning, critical), `active[k]` the entry
of `e.active` (severity 0: none). One step is one critical section of `e.mu`:
`Track` is `track`, `trackSet` and `resolveContainer`; `TrackAt` is `trackAt`;
`FlushDeferred` is the locked part of `flushDeferred`. What the section
produced goes to `out[a]`, and `Report(a)` queues it later, one message at a
time, while other loops run; a loop goes on only when its `out` is empty. The
order within one report is a Go map's, so it is left open. No report holds two
messages with one key.

`observedAt` is modelled without a clock: `fresh` is the set of container
episodes opened since the poll began to look at their container, which is what
`a.since.After(observedAt)` asks. (Two readings of the clock that are equal
count as not after; the model treats opening and observing as strictly
ordered, as nanosecond clocks make them.)

The inspect of `EventHit` may fail; then a Confirmer has only the event to go
by. Buffered events are handled also after the daemon is gone or nodux is
stopping. `dockerDown` may or may not fire in a failing poll, since whether the
outage has lasted long enough is a matter of time. A restart may lose any
number of the oldest events (the replay limit). Detectors are sources of
observations: a problem comes, changes and goes, among the severities `Grades`
gives it; of nodux's detectors only `tls_cert` has two.

`NeedEvents` asks whether an event detector is configured, or `WantsEvents`:
the host OOM detector and deploy windows start the event loop too. `Restart`
keeps every episode; those of a detector that is no longer configured, or of an
excluded container, which `restore` drops, are left out.

`told`, `calm` and `view` are history: what was announced in the episode, the
open episodes whose problem was away for a moment since they opened, and what
each receiver believes after the messages its route let through.

### EventStream

`log` is the daemon's event log. `evSince`, `evLast` and `evHandled` are the
engine's; `cursor` is the place of the open connection. `applied` is the set of
events whose effect is in memory: it is saved and restored with the state,
since `saveState` holds `eventMu`. `excused` collects what nobody promised:
events before the start, beyond the replay limit, or out of the daemon's
buffer. `StartFresh`, `StartLate` and `Resume` are the three ways `restore`
ends; a fourth, a saved position after now (`persist.go:195`), needs a clock that
was set back, and the model's clock only goes forward. The log is in timestamp
order (two events can share a timestamp); an unsorted log is listed as a
hazard.

### Incidents

An alert is numbered in queue order. `Add` (with `AddFiring`, `AddResolved`),
`Enqueue`, `Kept` (expire), `Take` and `SetSummary` are the grouper's methods.
The code compares nanosecond timestamps; the model's clock is coarse, so
`newest`, the number of an incident's last firing alert, stands for their
order, and `Take` orders by the first pending alert, which is the one that set
the due time. The dispatcher is at `select` or `due`; `handing` are batches it
has yet to put on the channel, which can block. `deliver` drains what is there,
up to `AnalyzeBatch`, and sends in order. `Raise`, `Resolve` and `OneOff` queue
alerts as the engine does: an episode fires, may escalate, and resolves once.
`enabled` is chosen at the start and stays: the configuration does not change
between restarts.

`incidentFor` is what the prompt of a batch is given: the incident's earlier
alerts, completed by those of batches in the same analysis group, the last
summary, and past alerts of the containers from the history. A summary is the
number of the first alert it is about, and an analysis may come up with one or
not. History rows older than a week and the deploys a prompt mentions are left
out here; deploys are in `Thresholds`.

### Receiver

`Send` is two steps with the read lock held between them. A POST succeeds,
fails for good, or fails in a way that is retried; in the last case the
endpoint may have got it (a timeout). `Close` needs the write lock, closes the
queue, and waits; its deadline may pass at any time. `inbox` is what the
endpoint got.

### HostOOM

`counter` and `log` are the kernel's counter and Docker's oom events. A Check
is two steps, the read and the match, so an event can come between. One entry
of `pending` is one kill. `Save` happens between Checks; a crash goes back to
it and events after the saved position are handled again. Kills and restarts
stop at `MaxTime`; the clock goes on, at most to `Horizon`, for what is
waiting. `late` and `lost` count the events a restart delayed and the credits
it dropped, the two excuses `KillsAccounted` allows. `MaxDelay < Settle` and
`2 * PollEvery <= Settle` are assumptions: the first is the code's bet, the
second is `main.go:222`.

### EventDetectors

`log` is Docker's, and each event carries what really happened: whether the
stop was asked for, the container was OOM-killed, the start follows a crash,
and how long the run lasted. The event loop handles an event in two steps, as
the code does: what it does to the detectors, and then the report, with an
inspect that may fail (and must, once the container is gone). The poll loop
looks at a container and checks it in two steps, so events come between. A
signal is `"term"` (one that always stops) or a name, the configured stop
signal among them. A replaced container is another id with the same name.

A crash takes memory back to the saved state and the position with it; alerts
that nobody has delivered yet may be lost, any of them, and those after the
position must be raised again. `misled` are the containers of which nodux
cannot know the truth: an event lay beyond the replay limit, or the inspect for
a stop signal failed (see the divergences below). Nothing is claimed of those.

### Gate and Thresholds

A behaviour follows one detector and one of its subjects (`kind`), since
subjects share nothing; `Init` chooses which, so one run looks at all of them.
`Check` is one poll; `log` is a history variable with the readings that explain
the state. Readings fail as they can: no stats, a failed statfs, `/proc` lines
that are missing or make no sense. `counters` are the cumulative ones, which
start over with a container (`RestartContainer`) or go back a little; `moved`
is what they really did since the last check. `SaveState` and `LoadState` have
one operator per detector, since each saves something else: the time a value
went above the threshold is never saved, the counters are not either. Between
two runs the detector may be switched off and on (`config`), so that its
section of the file and its episode meet `collectStateful` and
`knownDetectors`.

The kind `images` is the engine's own record of which image runs under a name
(`noteImage`, `pruneImages`). An image belongs to a container, so it changes
only when the container is replaced; `Day` and `Week` are 2 and 3 ticks.

### Probes

A round is: every target probed, concurrently and with the answer of the
moment it is asked; the results applied together; the certificates looked at.
A certificate is a leaf and the chains it can be verified with, and all that is
kept of it is when it expires. A target in `HTTPTargets` answers with a status,
which may be a wrong one, over TLS or not. Save comes from the poll loop at any time. A
streak of failures is cut at `Failures`, beyond which nothing changes.

### Assistant

`Kept`, `Spent` and `Begin` are `allow`. A run is `asking` or at its `tools`;
a response is an error, a refusal, a text or tool calls. A request is one call
of the SDK's `Messages.New`, which may send it again on its own
(`WithMaxRetries(2)`, `anthropic.go:123`); these repetitions are not counted.
The bot asks for
messages above its offset, takes them up one by one and answers; Telegram
forgets a message when asked for a higher one. `started`, `refused`, `asked`
and `handled` are history. Nothing of it is saved, so a crash gives the
process a new budget: the bound is per process.

### Storage

`StateFile` has the steps of `Save` (write to a temporary file, sync, rename,
sync the directory), each of which can fail. A file has data and a flag that
says it is whole on disk; after a power loss the name may refer to an older
file, and one that was not synced comes back torn. `AtomicFile` is the promise
of `state.go:3-5`, a document that is replaced as a whole, and `Storage` shows
it is kept: `Document` maps `stored` to the data of the file the name refers
to and `older` to those it may refer to after a power loss.

The control API works from before `restore` until the process ends
(`main.go` starts it first), so silences are added and removed at any time.
`acked`, `pledged` and `firm` are history: what the API confirmed, what of it
the save under way holds, and what is sure to be on disk. `History` has the
table as a sequence of transactions, of which a power loss undoes the latest
(SQLite in WAL mode with `synchronous=NORMAL`). Prune runs once a day in the
code and at any time here. The digest's timer fires before the clock moves on,
since a tick is hours; sending takes as long as it likes.

`Calendar` has what `Schedule` asks of package time: an instant has a day and a
time of day in a zone whose offset changes once, at `Change`, by less than a
day; `Date` is `time.Date`, which for a reading that the clock skips gives an
instant with another reading; `AddDate` counts days and keeps the time of day.
`Every` is 1 for a daily digest and 7 for a weekly one. `PlainClock` says that
the change skips no `At` and does not turn the clock back over midnight.
`CountedOnce` is claimed under it, and for alerts that history keeps until
their digest: the configuration asks only that the retention is positive.

## 3. Runs

| Run | Instance | Shows |
|---|---|---|
| `episodes_container` | one container, one detector on both loops, queue of 1, 2 undelivered events, silences, removal, restarts that lose events, fairness | `OneAlertPerProblem`, `ClosesOnlyWhatEnded`, `HeldAlertsGoOut`, `ShutdownCompletes`, `GoneContainersClose` |
| `episodes_poll` | a disk that can be silenced, an escalating certificate, the Docker daemon; two receivers with different routes, queue of 1 | `TypeOK`, `NotifiedMeansTold`, `ReceiversAgree`, `NoGhostProblems` |
| `event_stream` | 4 events, 2 keys, 4 ticks, replay limit 2, buffer of 3, 2 faults, fairness | `TypeOK`, `NoGap`, `NeverTwice`, `EveryEventHandled` |
| `incidents` | 3 alerts of a container with episodes, another with one-offs that can be silenced, and the host; grouping on or off; channel of 1, analysis batch of 2, 2 earlier and 2 past alerts, fairness | `ExactlyOnce`, `DeliveredInOrder`, `ContextRight`, `UpdateMeansSent`, `EverythingDelivered` |
| `receiver` | 2 senders, 3 notifications of up to 2 bodies, queue of 1, 2 attempts, fairness | `CleanClose`, `Accounted`, `CloseReturns` |
| `host_oom` | 3 kills, kills and restarts until time 2, 1 restart or crash, fairness | `KillsAccounted`, `KillsSettle` |
| `event_detectors` | a container and the one that replaces it, 4 events, 2 kinds of signals, threshold of 1, window and cooldown of 2, 1 save, 1 crash, a silence or none | `PastRight`, `AlertsRight`, `WindowsExact`, `LoopEndsCalm` |
| `thresholds` | 9 kinds, 5 ticks, 3 levels, sustain of 2, forecast over 4 ticks, 2 images, 1 save, 2 crashes | `AlarmRight`, `ForecastRight`, `ShareMeasured`, `ImagesRight` |
| `probes` | one TLS target that answers with a status, 3 certificates, 2 failures, 2 ticks, 1 renewal, 1 save, 1 crash, fairness | `AlarmsRight`, `DownIsReported` |
| `assistant` | 3 callers, 2 runs an hour (2 ticks), 2 tool rounds, 2 messages, 1 crash, fairness | `SpendBounded`, `EachInTurn`, `RefusedOnlySpent`, `EveryMessageHandled` |
| `storage` | 1 silence, 1 alert, days of 2 ticks with a daily digest, the clock going forward once, retention of 2, 3 ticks, 1 fault | `SilencesKept`, `CountedOnce`, `ImplementsAtomicFile` |

Several names stand for a conjunction of named parts, the type invariant among
them: `DeliveredInOrder` for `IncidentOrder`, `EndsWhatWasSent` and
`FirstInFirstOut`; `ContextRight` for `StoryOnce`; `CleanClose` for `NoSendOnClosed` and `Drained`; `Accounted`
for `Balanced` and `Arrivals`; `KillsAccounted` for `EveryKillCounted` and
`NoFalseAlarm`; `PastRight` for `RestartsExact` and `LastRunRight`;
`AlertsRight` for `ExitMeansCrash` and `CrashesReported`; `AlarmRight` for
`AlarmEarned` and `AlarmKept`; `AlarmsRight` for `ProbeAlarmRight`,
`CertAlarmRight` and `BreakIsNoticed`; `SpendBounded` for `BudgetKept` and
`TalkBounded`.

The bounds are small and chosen so that the interesting case happens: a queue
of 1 is full as soon as two loops report; two events suffice for a hit and a
removal in flight; three alerts give a problem, its end and one that joins, or
three incidents; a window of 2 over a wait of 1 lets incidents expire between
alerts; 3 kills let one be matched, one wait and one be confirmed, with an
alert cooling down. Four events are a kill, a death, a start and one more, on
either side of a crash, and with a threshold of 1 a restart in a loop that is
already reported; the clock of
`EventDetectors` runs on until windows and silences are over. In `Thresholds`
the threshold is 52, so that 47 is in the gap and 46 below it; 5 ticks let a
gate open after a sustain of 2, close and open again, and two crashes allow a
detector to be off in between. A certificate of each kind matters: the
intermediate goes first, one of two chains goes first, the anchor goes first.
Two runs an hour are the least that can overlap at the edge of the hour. One
fault in `Storage` is a crash, a power loss or an unreadable file; a torn write
needs no more. Its 3 ticks hold two digests, one on
either side of a day that is a tick short; a weekly digest and a clock that goes
back are left to the theorem. One container is enough for the container run: the episodes of
two do not interact except through the queue, which the poll run fills from two
loops, and the theorems hold for any number. What `NotifiedMeansTold` says of
an escalation under a silence is not in the poll run's instance (its
certificate is never silenced), nor are escalations in the incident run
(`Escalating` is empty there; they only add a firing alert); the theorem covers
the first.

Deadlock is checked everywhere except in `Receiver`, which ends when Close has
returned, and in `Storage` and `Thresholds`, where the bounded clock ends. In
`HostOOM`, `Save` can always happen; in the others the clock or the world
stutters on.

### A run that ends in a violation

It states a sentence of the documentation and ends in a counterexample.

- `episodes_escalation` (`EscalationsGoOut`): an escalation during a silence is
  stored, but the episode is already notified, so `flushDeferred` passes it by.

### Divergences met while modelling

Places where a sentence of the documentation says more than the code does. No
run is about them; the models follow the code, and the properties say what does
hold.

- `report` (`engine.go:1140`) queues after the lock is released and after
  fetching logs. A poll can resolve an episode and queue that first, so that
  the alert of the event loop arrives after its resolution; `README.md:51-53`
  promises one and then the other. `ReceiversAgree` claims it for problems only
  one loop reports.
- A route compares the severity an episode ended with (`route.go:62`), so the
  resolution of an escalated problem can miss the receiver that got its first
  alert; `README.md:211` says "A resolution goes where its alert went." With
  routes that have no gap above what they let through there is no such case
  (`NoGhostProblems`).
- An alert joins the incident with the latest alert (`incident.go:118`), and
  the incident due first is sent first: a problem's new alert can go out before
  the end of its previous episode. Within one incident the order is kept
  (`IncidentOrder`).
- An escalation after the window files the episode under a new incident
  (`incident.go:134`), while `README.md:78-79` says a resolution goes out with
  the incident it started in. It follows the episode's last alert
  (`EndsWhatWasSent`).
- The OOM detector's credits are not saved (`hostoom.go:189`), the position
  past their events is: a restart can blame a container's kill on the host.
  `lost` counts these.
- A failed read ends a problem: a disk or a `/proc` file that cannot be read
  yields no issue (`host.go:57-62`, `133-138`, `231-236`), and a container whose
  stats cannot be fetched is dropped by `memory` and `cpu_throttle`, so the
  episode resolves without the value having dropped (`README.md:56-59` has it
  resolve only then) and opens again with the next reading. `AlarmKept` says
  only what is on after a check that took a reading.
- `schedule.go:59-60` says a digest is due "at the same wall-clock time across
  DST changes". On the day the clock skips `digest.at` it is due an hour off:
  with 02:30, at 01:30 in New York and at 03:30 in Berlin (`time.Date`).
  `Period` then keeps the moved time: of the day before, in New York the hour
  from 01:30 to 02:30 is in two digests, in Berlin the hour from 02:30 to 03:30
  is in none. `CountedOnce` is claimed for zones where this does not happen
  (`PlainClock`).
- `coolingDown` records a one-off alert before `isSilenced` looks at it
  (`engine.go:826`): an alert nobody saw holds the next one back. `AlertsRight`
  accepts that.
- An update may be taken from the grouper before the summary of the batch ahead
  of it is known (`incident.go:243`): the prompt has an older one, or none.
  `ContextRight` accepts that.
- A kill whose inspect fails leaves the stop signal unknown
  (`engine.go:801-806`), so stopping a container with its own stop signal can
  look like a crash, although `README.md:91` says `exit` never fires on manual
  stops. `misled` has these containers.
- The certificate alarm rests on the chains as they were verified when the
  server was last seen (`cert.go:15-17`: "the expiry date doesn't change"); when
  an intermediate has run out by the time of a later probe, the chain no longer
  verifies, and it is the leaf that counts. `BreakIsNoticed` shows that the
  probe has begun to fail by then.
- A silence that was acknowledged after the last save, or before the state was
  restored, is gone after a crash; `README.md` says that with `state_dir`
  silences survive a restart. `SilencesKept` speaks of those a save has put on
  disk.
- The number of history rows a prompt asks for (`dispatch.go`, `historyAlerts`
  plus the incident's earlier alerts) can be used up by the incident's own
  resolutions, so fewer past alerts are shown than there are.
- `pruneImages` compares with a `LastSeen` that is rounded down to the day, so
  a name may be forgotten up to a day before its week is over. `ImagesRight`
  allows for that day.

### Fairness

Weak fairness of each goroutine's steps is the Go scheduler's promise, together
with the timeouts that bound every network call. `Report` has strong fairness:
the queue may be full again and again, but a channel serves blocked senders in
order. Events are sure to be handled only while the daemon is there and nodux
runs; `EventExit` has strong fairness, since after the context is cancelled only
the events already buffered can come before it. Nothing is assumed of the world: problems, silences, removals, faults and
the stop signal are never forced. In `EventStream` the service manager is
assumed to start nodux again; no save is assumed. In `HostOOM` time passes,
events arrive within `MaxDelay` and polls run every `PollEvery`. In `Probes`
every probe ends with its timeout and `runProbes` goes on, restarts included.
In `Assistant` a request and a tool call end with the timeout of the run, the
bot's loop goes on, and Telegram answers in the end. `EventDetectors`,
`Thresholds` and `Storage` have safety properties only, and no fairness.

## 4. Proofs

Every theorem holds for all values of the constants that meet the named
assumptions of its module. Two modules hold the proofs of two components each,
which have nothing to do with one another: `PollProofs` those of `Episodes` and
`HostOOM`, `OutputProofs` those of `Receiver` and `Storage`.

`PollProofs` proves about `Episodes`

- `TypeCorrect`: `TypeOK`;
- `NotifiedCorrect`: `NotifiedMeansTold`;
- `AnnouncedOnce`: `OneAlertPerProblem`;
- `ClosesRightly`: `ClosesOnlyWhatEnded`;
- `ViewsAgree`: `ReceiversAgree`;
- `NobodyHaunted`: `NoGhostProblems`.

For the first three the inductive invariant `IInv` is
`TypeOK /\ NotifiedMeansTold`; `AnnouncedOnce` follows from it step by step.
`NotifiedMeansTold` carries the argument:
`told` is what receivers were sent, `notified` what the engine remembers of it,
and with `told[k] <= active[k].severity` an audible message of a critical
section is news (`NewsOnly`). Every change of the map goes through `Publish`,
so lemmas about `Publish`, `Track` and `FlushDeferred` do the work and each
action cites them. What receivers believe is not inductive: while messages are
on their way a view differs from the engine's. The second invariant, `WInv`,
adds `Words`: for a key that one loop alone reports and a receiver whose
severities have no gap, the last message about it, be it in `out` or in the
queue, says what was last announced, and where there is none the receiver
believes just that. Keys that two loops report are left out, as in the
properties: their messages can change places.

That an episode closes only when its problem has been away needs the evidence
each loop goes by, at each of its places; the third invariant, `CInv`, adds
`Evidence`. A problem that is away while its episode is open is on record
(`Over`, `calm`). A clean inspect about to be applied is of a problem that was
away after its episode opened, unless the episode is fresh (`Looked`); a
container missing from the listing does not exist (`Listed`, `Leaving`), nor
does one with a destroy event (`Destroyed`); a daemon that answered was up
(`Answered`). Each critical section is shown to close only what is on record
(`CalmSection`), and to leave the other loops their evidence.

About `HostOOM`, under `OOMAssumption`, it proves `EveryKillRight`
(`KillsAccounted`). The detector cannot tell one kill from another: it matches
by number, so the invariant `OOMInv` keeps books instead of following kills.
`Counted` says of the first `prev` kills that some number `c` of them were
containers', in the order of `log`, and the rest the host's; the equation of
`EveryKillCounted` holds, what is confirmed does not exceed the host's share and
the excuses, and a container's kill that is younger than an entry of `pending`
has an entry of its own behind it. `Delayed` counts the events that are
handled or were delayed by a restart, `SeenBy` what a Check under way has read,
and `OnDisk` says `Counted` of the file. `CheckCounts` is the heart: one Check
keeps the books. If it confirms a kill, no credit was left, and by then the
event of every older container kill has been handled: `MaxDelay < Settle`. If
it drops a credit, no kill was left, and the kill of that event was already
counted: `2 * PollEvery <= Settle`. Where either assumption fails the proof
does.

`IncidentsProofs` proves, under `IncidentAssumption`,

- `InTheOrderOfTheQueue`: `DeliveredInOrder`;
- `UpdatesAreUpdates`: `UpdateMeansSent`;
- `NeitherLostNorRepeated`: `ExactlyOnce`;
- `StoriesAreRight`: `ContextRight`, which is `TypeOK` and `StoryOnce`.

What is delivered says nothing of what comes next, so the invariant `IInv`
speaks of all alerts that are filed: held back by an incident (`Waiting`), in a
batch on its way (`Line`: the group, the channel, the hand-over and `ready` put
after one another), or sent. `OrderOf` says which of two such alerts may be
ahead of the other: never two with one number, and of one incident only the
older one. `NumberedOf` says that the queue and what is filed are all the
alerts there are, and that the queue is newer; with the first this is
`ExactlyOnce`. `EndsOf` says where the firing alert of a resolution is, filed
or ahead of it in the queue, also for episodes that go on and across a restart,
where `byKey` is all that is left. `UpdatesOf` says that `notified` and
`update` mean that something of the incident went before. A step is one of five
moves of alerts (`Leaves`, `Joins`, `Adds`, `Holds`, or a new one in the queue),
and each is shown to keep the four parts, with no variable in sight
(`TidySend`, `TidyTake`, `TidyAdd`, `TidyHold`, `TidyFile`). The rest is that
the actions are these moves, where most of the work is sequences.

`StoryOnce` speaks of the group when it is analysed, but what a prompt tells was
put together when its batch was taken from the incident, and while it waits the
incident goes on. So two predicates join the invariant. With `Gone` for all that
is in the line or sent, `Known` says that an open incident remembers the last
firing alerts of its own in `Gone`, at most `MaxEarlier`, and that its summary
is of an alert that was sent; `Told` says that every batch of the line tells of
the last ones before its own. A send moves alerts within `Gone` and changes
neither; a take adds only what is newer, so the batches before it still tell
what they told (`FollowBelow`), and the incident's memory with the new alerts at
its end is right again (`RecallsMore`). `Before(k)`, what is sent or stands
before a batch of the group, is then exactly what is older in `Gone`
(`BeforeIs`). A row of history was sent, and no alert is sent under one incident
and gone under another (`SentUnique`): so no row repeats what is known.

`EventStreamProofs` proves `StreamTypes` (`TypeOK`), `StreamNoGap` (`NoGap`)
and `StreamNeverTwice` (`NeverTwice`). `NoGap` is not inductive: the invariant
says where the position stands relative to what was applied (everything before
`evLast` is applied or excused, what was applied at `evLast` is exactly the
handled keys, nothing later is applied), that the connection's cursor skips
nothing that is neither, and the same of the saved file, which is what makes a
crash harmless.

`OutputProofs` proves, of `Storage`, the refinement, `StorageImplementsAtomicFile`
(`Spec => ImplementsAtomicFile`), and `SilencesAreKept` (`SilencesKept`), both
under `StorageAssumption` and `SilencesAssumption`. For the refinement the
invariant says what the files may hold: the file under the name, and every
older one that a power loss can bring back, is a whole document on disk, and so
is the temporary one once it is synced, which is before it gets the name. A
crash or a power loss then never meets a torn file, and the two variables of
`AtomicFile` change as its actions say. For the silences the invariant follows a promise through
the save: what is acknowledged is in the store, what was there when the save
took its copy is in the document it writes, and what is firm is in every file
that the name may refer to, or that a power loss can bring back. Time enters
where pruning drops what has run out, which nobody was promised.

`AlertsCountedOnce` (`CountedOnce`) is about the history alone, under
`CalendarAssumption` and `RetentionAssumption`. The calendar comes first: where
the change skips no `At`, the digest of a day has the reading `At` of that day
(`SlotReads`), later days have later digests (`SlotsGrow`), and the search of
`NextDigest` ends with the first one that is still to come (`NextIs`). Then
whatever lies between two digests has the second one next, and nothing else
does (`OneDigest`), so that periods neither overlap nor leave a gap. Where the
clock skips `At` this is false, and the theorem says nothing: `PlainClock`. The
invariant `HInv` says that a digest is sent at its time, or not at all, and
later than all before it (`DueOK`); that a recorded alert is in the table until
its retention is over (`TableOK`), which at the time of its digest it is not,
if history keeps alerts that long (`Kept`); and that an alert was counted only
in the digest that was next for it (`CountOK`).

Of `Receiver` it proves `ClosingIsClean` (`CleanClose`) and
`CountersTellTheTruth` (`Accounted`). The invariant of the first says that the
queue is closed only by `Close`, once nobody holds the read lock, and that the
worker ends with it closed and empty. The second puts all bodies in one order,
by number of the notification and place in it (`Order`): the inbox is sorted
and not after the body in hand, the bodies left and the queue are after it. So
the next body has never been posted when its attempts start again from one, and
the number of its arrivals stays below the number of the attempt.

`AssistantProofs` proves `MessagesInTurn` (`EachInTurn`). The invariant says
that the offset, what Telegram has forgotten and the first message of a batch
all have only messages before them that were taken up, that a batch is
consecutive, and that from the offset on this process has taken up nothing: so
a message is handled once more at most for each crash. It also proves
`SpendIsBounded` (`SpendBounded`) and `RefusedOnlyWhenSpent`
(`RefusedOnlySpent`). `calls` forgets runs when somebody asks, and a bound on
what it holds says nothing of the hours in between; so the second invariant,
`SInv`, says that `calls` is the list of all runs of this process (`started`),
pruned at some moment at least an hour past (`Pruned`). Pruned again it is then
exactly the runs of the last hour, which are counted before a run starts and
before one is refused; an hour that ends later loses runs and gains none.
`TalkOf` ties the round of a conversation to the tool calls it was answered
with.

`EventDetectorsProofs` proves, under `DetectorAssumption`, `OneOffsRight`
(`AlertsRight`), `WindowsRight` (`WindowsExact`) and `CalmEnds`
(`LoopEndsCalm`). `AlertsRight` compares what was raised with what the
containers went through, while the detectors see events one at a time, late,
and again after a crash. The invariant puts the log in between. `Truth` ties it
to the world: a death in the log is marked as asked for, or as oomed, exactly
when a stop request or an OOM kill stands in the log since the last start
(`MarkedBy`). `Marks`, `Memories` and `Windows` tie it to nodux: at every
moment, the marks, the cooldowns and the windows are what the log says up to
the position, and those in the state file what it says up to an earlier one,
so that a crash, which takes both back, lands in a state of the same kind.
`Reported` is the claim itself; two of its parts matter only for induction: the
alert that is between the detectors and the queue is about the event handled
last, one the state file does not cover (`HitRight`), and an alert that cools
down does so after one about an earlier event, so a crash that strikes out the
reason strikes out both. Of `misled` containers nothing is claimed, and a
restart that skips events adds theirs. `DetectorAssumption` says, besides the
ranges of the settings, that no signal is called "unknown", which is what the
model takes a stop signal for that could not be read, and that windows have a
name, since `Deploy` passes by those without.

`PastKnown` (`PastRight`) has a second invariant on top of that, `PInv`.
`WorldPast` ties what the log says of deaths, starts and lengths of runs to
what the containers went through, and `CrashMarks` the mark that makes a start
count to the death before it. `Counts` is the claim for every moment to come:
for any cutoff not older than the window, the restarts in memory, pruned, are
as many as the log has crash starts after the cutoff up to the position; the
same holds of the state file and the position saved in it, so that a crash and
the replay after it cannot count one twice. `RunsKnown` says that `starts` and
`lastRuns` are the last word of the log, up to the position, on either
(`Latest`).

`CalmEnds` judges the end of a crash loop by the log, of which the Check knows
its snapshot and its own list. `LInv` adds to `PInv` that a container that runs
has a start in the log after its last death (`Running`), and that this was so of
the container the poll loop looked at, in the log as long as it was then
(`Looking`, with `poll.seen`). That no restart handled since, or replayed after
a crash, is in the window follows from `Counts`: the Check finds none in its
list, so the log has none.

What `prune` keeps of a list is an induction over its length. The library
states induction for an operator, which no prover here can instantiate; so
`SetInduction`, in this module and in `AssistantProofs`, derives it for a set
of numbers from the pigeonhole principle: the numbers up to n that are not in
the set would map one to one to a smaller set, each to its predecessor.
(`ThresholdsProofs` and `PollProofs` take the least missing number instead,
`LeastOf`, from the library's theorem that < is well-founded.) On it
rest the lemmas about `Within` (of a longer list, pruned twice, how many
remain), which `Pruning` defines as a recursive function so that they can be
proved.

`ProbesProofs` proves `AlarmsAreRight` (`AlarmsRight`), under
`ProbesAssumption`. The invariant says, of memory and of the state file alike,
that a failure count is the streak of failures its target's last results end
with (`Streaks`), and that the certificate on record is the one that goes first
of those the server showed last (`Shown`, `Expiry`). A result waiting for its
round is of such a certificate too (`Answered`), and after a round every
certificate alarm is that of the certificate on record (`Alarmed`).
That the moment `firstToExpire` finds is the last at which a chain still holds
is a lemma of its own, `FirstIs`. It needs that there is a last moment:
`LastDay` bounds all certificates, as the year 9999 bounds X.509's.

`ThresholdsProofs` proves, under the assumptions of `Gate` and `Thresholds`,

- `AlarmsRight`: `AlarmRight`;
- `ForecastIsRight`: `ForecastRight`;
- `SharesAreMeasured`: `ShareMeasured`;
- `ImagesAreRight`: `ImagesRight`.

The properties are about the readings, `log`, of which a detector keeps a few
words: a gate its `aboveSince` and whether it fires, `expected` a `downSince`,
the forecast a window of samples. `AInv` says how the words follow from the log.
`GateInv`: `aboveSince` begins the run of high readings the log ends with, and
the gate fires exactly when a run that lasted stands in the log with nothing at
or below the closing level behind it. `ForecastInv`: the samples are the end of
the log, cut at a moment not later than the window's beginning. All of it is
said again of the state file, with the log as it was then, so a crash lands in
a state of the same kind; `OffInv` is for a detector that is off in
one process and on in the next. `ForecastIsRight` is then arithmetic: the slope
is a quotient of sums over the samples, and `SumOf` is a recursive function so
that sums can be compared term by term (`StraightIs`: on a straight line the
slope is the line's). `CountInv` says that the counters moved by `moved` since
the sample that is kept, `ImageInv` that the record of an image is dated by two
of the readings.

The proof corrected one property. `AlarmKept` used to say that an earned
forecast stays until a reading ends it. It does not: `LoadState` drops samples
that have left the window, and a failed `statfs` then asks what is left of
them, which may say something else (`forecast.go:58-68`, `200-214`). The
run's 5 ticks are too few to see it. `Lasting` now leaves such moments out
(`Doubted`), and the theorem covers every length.

What stays with TLC: liveness, as the prover has no fairness or ENABLED.

## 5. What is not modelled

- Formatting, the wording of prompts, redaction, prices, parsing of the
  configuration and of labels, the command line: functions on text.
- The heartbeat: a timer and a request, without state that lasts. It pings as
  long as the last poll that ended reached the daemon, so also while a poll is
  stuck.
- The tools of the LLM, the read-only chat commands and the API's other
  handlers: they read and format.
- LLM calls and memory samples in the history, and its queries other than those of a prompt
  and a digest.
- A clock that is set back; zones whose offset changes more than once, or by a
  day; episodes that `restore` drops because their detector is gone or their
  container excluded.
- Crashes of `Episodes` and `Incidents` with messages in flight: a crash is
  modelled where its effect is decided, in `EventStream`, `EventDetectors`,
  `HostOOM`, `Thresholds`, `Probes`, `Storage` and `Assistant`. Incident ids
  used again after a crash, the kernel counter after a reboot, and a daemon log
  whose timestamps are out of order are listed as hazards without a property.

## 6. Plan

Left to do: an abstract specification of the life of one episode as a receiver
should see it (silent, announced, escalated, over), refined by `Episodes`; and a
reliable FIFO refined by `Incidents` with grouping off.
