----------------------------- MODULE Thresholds -----------------------------
(***************************************************************************)
(* The detectors that are asked at every poll: the threshold detectors on  *)
(* a gate (memory, cpu_throttle, host_disk, host_memory, host_pressure,    *)
(* host_cpu), the disk forecast, the expected containers, and "images",    *)
(* the engine's own record of the image that runs under a name.            *)
(*                                                                         *)
(* A behaviour follows one of them, `kind', and one subject of it (a path, *)
(* a rule, a container): subjects share nothing.  `alarm' is what the last *)
(* check returned, which is what trackSet and trackAt make the episode.    *)
(* From one run of nodux to the next the detector may be switched off and  *)
(* on (`config').  `log' is a history variable: the readings behind the    *)
(* detector's state, by time and by the run of nodux that took them.  It   *)
(* is lost in a crash like the state it explains.                          *)
(***************************************************************************)
EXTENDS Gate, SequencesExt

CONSTANTS
    Kinds,              \* the detectors to look at
    Levels,             \* percentages that are read
    Avails,             \* free space that is read
    Window, Horizon,    \* of the forecast
    Grace,              \* of the expected detector
    Images, Day, Week,  \* images that are deployed; the real Week is 7 Days
    MaxTime, MaxSaves, MaxCrashes      \* bounds

ASSUME ThresholdsAssumption ==
    /\ Kinds \subseteq {"memory", "cpu_throttle", "host_disk", "host_memory",
                        "host_pressure", "host_cpu", "host_disk_forecast", "expected",
                        "images"}
    /\ Levels \subseteq Nat /\ Avails \subseteq Nat
    /\ Images \subseteq Nat \ {0} /\ Day \in Nat \ {0}
    /\ {Window, Horizon, Grace, Week, MaxTime, MaxSaves, MaxCrashes} \subseteq Nat
    /\ Day <= Week

VARIABLES
    kind, now, config,   \* config: of `kind', the detectors configured in this run
    polled,      \* the check of this tick is done
    up, faults,
    gate,        \* the gate; of the forecast only firing is used
    prev,        \* the counters of the last check, or NoSample
    lastPct,
    samples,     \* of the forecast
    downSince,   \* of the expected container, or NoTime
    image, pruned,   \* e.images of the name; e.imagesPruned, or NoTime
    alarm,
    place,       \* external: the container of that name; image 0 = there is none
    counters, moved,   \* external: cumulative counters, and what they really
                       \* did since the last check
    saved,
    log, read          \* history: the readings; the last check took one

images == <<image, pruned>>
detector == <<gate, prev, lastPct, samples, downSince, images>>
vars == <<kind, place, config, now, polled, up, faults, detector, alarm, counters, moved, saved, log, read>>

(* Cumulative counters: on and off are the time busy and not (user, system,  *)
(* steal...; idle, iowait), or the periods throttled and not.                *)
Zero == [on |-> 0, off |-> 0]
NoSample == [whole |-> -1, part |-> -1]
Still == [on |-> 0, off |-> 0, reset |-> FALSE]

NoImage == [id |-> 0, since |-> 0, lastSeen |-> 0, prev |-> 0, changedAt |-> NoTime]

\* readCPUStat: busy jiffies and all of them.  A container's stats are alike.
Totals(c) == [whole |-> c.on + c.off, part |-> c.on]

CounterKinds == {"cpu_throttle", "host_cpu"}
HostGates == {"host_disk", "host_memory", "host_pressure"}

\* Mutant: the share of the two together, as df counts.
percentOfBoth(part, whole) == IF whole = 0 THEN 0 ELSE (100 * part) \div (whole + part)

percent(part, whole) == IF whole = 0 THEN 0 ELSE (100 * part) \div whole

----------------------------------------------------------------------------
(* SaveState and LoadState of each detector.  Counters and aboveSince are   *)
(* not in the file.                                                         *)
Fresh == [firing |-> FALSE, lastPct |-> 0, samples |-> <<>>, downSince |-> NoTime]

\* The loop of Check; of samples, which are in the order of time, LoadState's
\* filter leaves the same.
Since(s, cutoff) ==
    LET old == CHOOSE k \in 0..Len(s) :
                  /\ \A i \in 1..k : s[i].at < cutoff
                  /\ k < Len(s) => s[k + 1].at >= cutoff
    IN  SubSeq(s, old + 1, Len(s))

\* A set of names: those whose gate is firing.
SaveGate == [Fresh EXCEPT !.firing = gate.firing]
LoadGate(d) == gate' = RestoreGate(d.firing) /\ lastPct' = 0 /\ samples' = <<>> /\ downSince' = NoTime

SaveThrottle == IF gate.firing THEN [SaveGate EXCEPT !.lastPct = lastPct] ELSE Fresh
LoadThrottle(d) ==
    /\ gate' = RestoreGate(d.firing) /\ lastPct' = d.lastPct
    /\ samples' = <<>> /\ downSince' = NoTime

SaveCPU == [SaveGate EXCEPT !.lastPct = lastPct]
LoadCPU(d) == LoadThrottle(d)

SaveForecast == [SaveGate EXCEPT !.samples = samples]
LoadForecast(d) ==
    /\ gate' = RestoreGate(d.firing)
    /\ samples' = Since(d.samples, now - Window + 1)     \* After(cutoff)
    /\ lastPct' = 0 /\ downSince' = NoTime

SaveExpected == [Fresh EXCEPT !.downSince = downSince]
LoadExpected(d) == gate' = NewGate /\ lastPct' = 0 /\ samples' = <<>> /\ downSince' = d.downSince

SaveState ==
    CASE kind = "cpu_throttle"       -> SaveThrottle
      [] kind = "host_cpu"           -> SaveCPU
      [] kind = "host_disk_forecast" -> SaveForecast
      [] kind = "expected"           -> SaveExpected
      [] OTHER                       -> SaveGate

LoadState(d) ==
    CASE kind = "cpu_throttle"       -> LoadThrottle(d)
      [] kind = "host_cpu"           -> LoadCPU(d)
      [] kind = "host_disk_forecast" -> LoadForecast(d)
      [] kind = "expected"           -> LoadExpected(d)
      [] OTHER                       -> LoadGate(d)

\* The detectors that are asked for their state, and given it back.
collectStateful(c) == c

\* The detectors whose episodes are taken from the file.
knownDetectors(c) == c

Saved == [detectors |-> [k \in collectStateful(config) |-> SaveState],
          image |-> image, alarm |-> alarm, log |-> log]

----------------------------------------------------------------------------
Init ==
    /\ kind \in Kinds
    /\ config = {kind}
    /\ now = 0 /\ polled = FALSE /\ up = TRUE
    /\ faults = [saves |-> 0, crashes |-> 0]
    /\ gate = NewGate /\ prev = NoSample /\ lastPct = 0
    /\ samples = <<>> /\ downSince = NoTime
    /\ image = NoImage /\ pruned = NoTime
    /\ place = [image |-> 0, created |-> 0]
    /\ alarm = FALSE
    /\ counters = Zero /\ moved = Still
    /\ log = <<>> /\ read = FALSE
    /\ saved = Saved

(* Time, and the counters of the kernel.  A container's start over with it; *)
(* the host's busy time may go back a little (idle is counted per CPU).     *)
Advance(on, off) ==
    /\ counters' = [on |-> counters.on + on, off |-> counters.off + off]
    /\ moved' = [moved EXCEPT !.on = @ + on, !.off = @ + off]

RestartContainer ==
    /\ kind = "cpu_throttle"
    /\ \E n \in {0, 2} : counters' = [on |-> n, off |-> 0]
    /\ moved' = [moved EXCEPT !.reset = TRUE]

Run ==
    \/ kind \in CounterKinds /\ \E step \in {<<0, 0>>, <<0, 2>>, <<1, 1>>, <<2, 0>>} : Advance(step[1], step[2])
    \/ kind = "host_cpu" /\ counters.on > 0 /\ Advance(-1, 2)
    \/ RestartContainer
    \/ kind \notin CounterKinds /\ UNCHANGED <<counters, moved>>

\* The container is left alone, replaced by a new one, or removed.
Deploy ==
    \/ UNCHANGED place
    \/ kind = "images" /\ place' = [image |-> 0, created |-> 0]
    \/ kind = "images" /\ place' \in [image : Images, created : {now, now + 1}]

Tick ==
    /\ now < MaxTime
    /\ now' = now + 1 /\ polled' = FALSE
    /\ Run /\ Deploy
    /\ UNCHANGED <<kind, config, up, faults, detector, alarm, saved, log, read>>

Reading(v) == [at |-> now, v |-> v, run |-> faults.crashes]

\* A check that read v and passed it to the gate.
Measure(v) ==
    /\ gate' = Update(gate, now, v)
    /\ alarm' = gate'.firing
    /\ log' = Append(log, Reading(v)) /\ read' = TRUE

\* A check without a reading: the gate is not asked.
NoReading(a) == alarm' = a /\ read' = FALSE /\ UNCHANGED <<gate, log>>

\* delete(d.state, s.ID)
Drop ==
    /\ gate' = NewGate /\ prev' = NoSample /\ lastPct' = 0
    /\ alarm' = FALSE /\ log' = <<>> /\ read' = FALSE

Statuses == [running : BOOLEAN, limit : BOOLEAN, fetched : BOOLEAN]

\* collectStats: numbers for a container that runs and has a limit, if its
\* stats could be had; without them the snapshot says it has no limit.
collectStats(s) == s.running /\ s.limit /\ s.fetched

CheckMemory ==
    /\ kind = "memory"
    /\ \E s \in Statuses :
         IF collectStats(s) THEN (\E v \in Levels : Measure(v)) /\ UNCHANGED <<prev, lastPct>>
         ELSE IF gate.firing /\ ~s.running THEN NoReading(TRUE) /\ UNCHANGED <<prev, lastPct>>
         ELSE Drop
    /\ UNCHANGED <<samples, downSince, images, counters, moved>>

\* NoSample: the next sample is the baseline.
ThrottlePct ==
    LET s    == Totals(counters)
        back == s.whole < prev.whole \/ s.part < prev.part
        dp   == IF back THEN 0 ELSE s.whole - prev.whole
        dt   == IF back THEN 0 ELSE s.part - prev.part
    IN  CASE dp > 0                                    -> percent(dt, dp)
          [] dp = 0 /\ gate.firing /\ s.whole > 0      -> lastPct
          [] dp = 0 /\ ~(gate.firing /\ s.whole > 0)   -> 0

CheckThrottle ==
    /\ kind = "cpu_throttle"
    /\ \E s \in Statuses :
         IF ~collectStats(s) THEN Drop
         ELSE /\ prev' = Totals(counters)
              /\ IF prev = NoSample THEN NoReading(gate.firing) /\ UNCHANGED lastPct
                 ELSE Measure(ThrottlePct) /\ lastPct' = ThrottlePct
    /\ moved' = Still
    /\ UNCHANGED <<samples, downSince, images, counters>>

CheckCPU ==
    /\ kind = "host_cpu"
    /\ \/ NoReading(FALSE) /\ UNCHANGED <<prev, lastPct, moved>>   \* readCPUStat failed
       \/ LET s   == Totals(counters)
              pct == percent(s.part - prev.part, s.whole - prev.whole)
          IN  /\ prev' = s /\ moved' = Still
              /\ IF prev.whole <= 0 \/ s.whole <= prev.whole \/ s.part < prev.part
                 THEN NoReading(gate.firing) /\ UNCHANGED lastPct
                 ELSE Measure(pct) /\ lastPct' = pct
    /\ UNCHANGED <<samples, downSince, images, counters>>

\* The worse of space and inodes; a file system without inodes uses none.
CheckDisk ==
    /\ kind = "host_disk"
    /\ \/ NoReading(FALSE)                                    \* statfs failed
       \/ \E space \in Levels, inodes \in Levels \cup {0} :
             Measure(IF space > inodes THEN space ELSE inodes)

\* /proc/meminfo, the lines it may lack included; what is told of it has to
\* make sense.
Meminfo == [total : {0, 100}, avail : {100 - v : v \in Levels} \cup {101},
            lines : SUBSET {"MemTotal", "MemAvailable"}]
readMeminfo(f) == f.lines = {"MemTotal", "MemAvailable"} /\ f.total # 0 /\ f.avail <= f.total

CheckHostMemory ==
    /\ kind = "host_memory"
    /\ \E f \in Meminfo :
         IF readMeminfo(f) THEN Measure(percent(f.total - f.avail, f.total)) ELSE NoReading(FALSE)

\* A file of /proc/pressure: the avg60 of its lines.  There may be no "full"
\* one, nor any.
readPressure == UNION {[lines -> Levels] : lines \in SUBSET {"some", "full"}}

CheckPressure ==
    /\ kind = "host_pressure"
    /\ \E avgs \in readPressure :
         IF "full" \in DOMAIN avgs THEN Measure(avgs["full"]) ELSE NoReading(FALSE)

CheckHost ==
    /\ CheckDisk \/ CheckHostMemory \/ CheckPressure
    /\ UNCHANGED <<prev, lastPct, samples, downSince, images, counters, moved>>

----------------------------------------------------------------------------
(* The disk forecast. *)

SumOf(f) ==
    LET sum[i \in 0..Len(f)] == IF i = 0 THEN 0 ELSE sum[i - 1] + f[i]
    IN  sum[Len(f)]

\* Numerator and denominator of the least-squares slope.
fitSlope(s) ==
    LET x   == [i \in 1..Len(s) |-> s[i].at - s[1].at]
        y   == [i \in 1..Len(s) |-> s[i].v]
        sxx == SumOf([i \in 1..Len(s) |-> x[i] * x[i]])
        sxy == SumOf([i \in 1..Len(s) |-> x[i] * y[i]])
    IN  [num |-> Len(s) * sxy - SumOf(x) * SumOf(y),
         den |-> Len(s) * sxx - SumOf(x) * SumOf(x)]

Enough(s) == Len(s) >= 3 /\ 4 * (Last(s).at - s[1].at) >= Window

\* Mutant: from the free space at the start of the window.
FullWithinFirst(s, limit) ==
    LET slope == fitSlope(s)
    IN  slope.num < 0 /\ s[1].v * slope.den <= limit * (0 - slope.num)

\* eta <= limit: avail / -slope is at most limit
FullWithin(s, limit) ==
    LET slope == fitSlope(s)
    IN  slope.num < 0 /\ Last(s).v * slope.den <= limit * (0 - slope.num)

\* forecast: whether it returns an issue, and d.firing after it.
Limit == IF gate.firing THEN 2 * Horizon ELSE Horizon
forecast(s) ==
    /\ gate' = IF Enough(s) THEN RestoreGate(FullWithin(s, Limit)) ELSE gate
    /\ alarm' = (Enough(s) /\ FullWithin(s, Limit))

CheckForecast ==
    /\ kind = "host_disk_forecast"
    /\ \/ /\ IF gate.firing THEN forecast(samples) ELSE alarm' = FALSE /\ UNCHANGED gate
          /\ read' = FALSE
          /\ UNCHANGED <<samples, log>>
       \/ \E v \in Avails :
            /\ samples' = Since(Append(samples, Reading(v)), now - Window)
            /\ forecast(samples')
            /\ log' = Append(log, Reading(v)) /\ read' = TRUE
    /\ UNCHANGED <<prev, lastPct, downSince, images, counters, moved>>

----------------------------------------------------------------------------
(* Expected containers: one that is not there, or does not run, is down.  A *)
(* label that is no longer there takes the expectation with it.             *)
Down(status) == status \notin {"running", "restarting"}

CheckExpected ==
    /\ kind = "expected"
    /\ \E wanted \in BOOLEAN, status \in {"running", "restarting", "exited", "missing"} :
         LET down == wanted /\ Down(status) IN
         /\ downSince' = IF ~down THEN NoTime ELSE IF downSince = NoTime THEN now ELSE downSince
         /\ alarm' = (down /\ now - downSince' >= Grace)
         /\ log' = Append(log, Reading(IF down THEN 1 ELSE 0)) /\ read' = TRUE
    /\ UNCHANGED <<gate, prev, lastPct, samples, images, counters, moved>>

----------------------------------------------------------------------------
(* The image a name runs, and when that changed. *)

day(t) == t - (t % Day)

\* Mutant: the change is dated by the poll that saw it.
ChangedNow == now

\* A redeploy is dated by the new container's creation.
Changed == IF place.created > image.since /\ place.created < now THEN place.created ELSE now

noteImage ==
    CASE image = NoImage ->
            [NoImage EXCEPT !.id = place.image, !.since = now, !.lastSeen = day(now)]
      [] image # NoImage /\ image.id # place.image ->
            [id |-> place.image, since |-> Changed, lastSeen |-> day(now),
             prev |-> image.id, changedAt |-> Changed]
      [] image # NoImage /\ image.id = place.image -> [image EXCEPT !.lastSeen = day(now)]

\* At most once a day, and only what has not been seen for a week.
pruneImages(img) ==
    IF pruned # NoTime /\ now - pruned < Day THEN image' = img /\ UNCHANGED pruned
    ELSE pruned' = now /\ image' = IF now - img.lastSeen > Week THEN NoImage ELSE img

CheckImages ==
    /\ kind = "images"
    /\ pruneImages(IF place.image = 0 THEN image ELSE noteImage)
    /\ read' = (place.image # 0)
    /\ log' = IF place.image # 0 THEN Append(log, Reading(place.image))
              ELSE IF image' = NoImage THEN <<>> ELSE log
    /\ UNCHANGED <<gate, prev, lastPct, samples, downSince, alarm, counters, moved>>

\* Forget, of a container that is gone; its episode is closed.
Forget ==
    /\ up /\ kind \in {"memory", "cpu_throttle"} /\ (log # <<>> \/ alarm)
    /\ Drop
    /\ UNCHANGED <<kind, place, config, now, polled, up, faults, samples, downSince, images, counters, moved, saved>>

Check ==
    /\ up /\ ~polled /\ kind \in config
    /\ polled' = TRUE
    /\ \/ CheckMemory \/ CheckThrottle \/ CheckCPU \/ CheckHost
       \/ CheckForecast \/ CheckExpected \/ CheckImages
    /\ UNCHANGED <<kind, place, config, now, up, faults, saved>>

Save ==
    /\ up /\ faults.saves < MaxSaves
    /\ saved' = Saved
    /\ faults' = [faults EXCEPT !.saves = @ + 1]
    /\ UNCHANGED <<kind, place, config, now, polled, up, detector, alarm, counters, moved, log, read>>

Crash ==
    /\ up /\ faults.crashes < MaxCrashes
    /\ up' = FALSE
    /\ faults' = [faults EXCEPT !.crashes = @ + 1]
    /\ UNCHANGED <<kind, place, config, now, polled, detector, alarm, counters, moved, saved, log, read>>

RestoreEpisode == alarm' = (saved.alarm /\ kind \in knownDetectors(config'))

\* Some time before the first check; nobody checks a detector that is off.
Restart ==
    /\ ~up /\ up' = TRUE
    /\ config' \in {{}, {kind}} /\ (kind = "images" => config' = {kind})
    /\ IF kind \in collectStateful(config') \cap DOMAIN saved.detectors
       THEN LoadState(saved.detectors[kind]) /\ log' = saved.log
       ELSE LoadState(Fresh) /\ log' = <<>>
    /\ RestoreEpisode
    /\ image' = saved.image /\ pruned' = NoTime
    /\ prev' = NoSample /\ read' = FALSE
    /\ polled' = TRUE
    /\ UNCHANGED <<kind, place, now, faults, counters, moved, saved>>

Next == Tick \/ Check \/ Forget \/ Save \/ Crash \/ Restart

Spec == Init /\ [][Next]_vars

----------------------------------------------------------------------------
(* Properties. *)

ReadingType == [at : 0..MaxTime, v : Int, run : 0..MaxCrashes]

(* Shapes of the detectors' state; an aboveSince or a downSince is never in  *)
(* the future, and the samples of the forecast never outgrow the readings.   *)
TypeOK ==
    /\ kind \in Kinds /\ config \subseteq {kind} /\ now \in 0..MaxTime
    /\ {polled, up, alarm, read} \subseteq BOOLEAN
    /\ gate \in [aboveSince : NoTime..now, firing : BOOLEAN]
    /\ downSince \in NoTime..now
    /\ prev.whole \in -1..Totals(counters).whole \/ kind = "cpu_throttle"
    /\ log \in Seq(ReadingType) /\ samples \in Seq(ReadingType)
    /\ Len(samples) <= Len(log)

RunOf(i, j, Holds(_), length) ==
    /\ i <= j
    /\ \A k \in i..j : Holds(log[k])
    /\ log[j].at - log[i].at >= length

\* The readings the forecast of reading j is made of.
WindowAt(j) == Since(SubSeq(log, 1, j), log[j].at - Window)

OpensAt(j) ==
    CASE kind = "host_disk_forecast" -> Enough(WindowAt(j)) /\ FullWithin(WindowAt(j), Horizon)
      [] kind = "expected" -> \E i \in 1..j : RunOf(i, j, LAMBDA r : r.v = 1, Grace)
      [] kind = "images" -> FALSE
      [] OTHER -> \E i \in 1..j :
            RunOf(i, j, LAMBDA r : r.v >= Threshold /\ r.run = log[j].run, Sustain)

ClosesAt(j) ==
    CASE kind = "host_disk_forecast" -> Enough(WindowAt(j)) /\ ~FullWithin(WindowAt(j), 2 * Horizon)
      [] kind = "expected" -> log[j].v = 0
      [] OTHER -> IF Threshold < 10 THEN 2 * log[j].v < Threshold ELSE log[j].v < Threshold - 5

Earned == \E j \in DOMAIN log : OpensAt(j) /\ \A k \in j + 1..Len(log) : ~ClosesAt(k)

(* What was left of the readings when some of them had run out, and a failed *)
(* read of the disk asked the rest, may have ended a forecast: a restart     *)
(* after a while drops readings without taking one.                          *)
Doubted(j) ==
    /\ kind = "host_disk_forecast"
    /\ \E cutoff \in log[j].at - Window..log[j].at :
          LET s == Since(SubSeq(log, 1, j), cutoff)
          IN  Enough(s) /\ ~FullWithin(s, 2 * Horizon)

Lasting == \E j \in DOMAIN log :
    /\ OpensAt(j) /\ \A k \in j + 1..Len(log) : ~ClosesAt(k)
    /\ \A k \in j..Len(log) - 1 : ~Doubted(k)

(* An alarm that is on has been earned by the readings, over crashes and     *)
(* restarts: one process saw the value at or above the threshold for the     *)
(* whole sustain period (the fill rate under the horizon, the container down *)
(* for the grace period), and no reading since then has ended it.            *)
AlarmEarned == up /\ alarm => Earned

(* None is missed, and none is lost for good: an earned alarm is on after    *)
(* every check that takes a reading, whatever came in between.  The gap of   *)
(* the hysteresis, a restart and a counter that stood still do not end it; a *)
(* forecast is ended by its readings alone, be it by the younger of them.    *)
(* Of a check that takes no reading this says nothing: when /proc or a disk  *)
(* cannot be read the host's detectors return no issue, so the episode is    *)
(* resolved (host.go:57-62, 133-138, 231-236) and opens again with the next  *)
(* reading, although src/README.md:56-59 has it "only resolve once the value *)
(* drops" below the threshold.                                               *)
AlarmKept ==
    up /\ read /\ Lasting /\ (kind = "host_disk_forecast" => Enough(WindowAt(Len(log)))) => alarm

(* The share passed to the gate is what the counters really did since the    *)
(* check before, over failed reads and restarts of nodux, unless the         *)
(* container itself was restarted in between.                                *)
ShareMeasured ==
    [][ up /\ kind \in CounterKinds /\ Len(log') > Len(log)
          /\ ~moved.reset /\ moved.on + moved.off > 0
        => Last(log').v = (100 * moved.on) \div (moved.on + moved.off) ]_vars

Straight(s) == \A k \in 1..Len(s) - 1 :
    (s[k].v - s[k + 1].v) * (Last(s).at - s[1].at) = (s[1].v - Last(s).v) * (s[k + 1].at - s[k].at)

(* The forecast is right where the answer is plain: a disk that never lost   *)
(* free space in the window raises nothing, and one that fills in a straight *)
(* line is reported if it is full within the horizon and not if it takes     *)
(* more than twice as long.                                                  *)
ForecastRight ==
    kind = "host_disk_forecast" /\ up /\ read =>
      LET s  == WindowAt(Len(log))
          dv == s[1].v - Last(s).v
          dt == Last(s).at - s[1].at
      IN  /\ alarm => \E i, j \in DOMAIN s : i < j /\ s[j].v < s[i].v
          /\ Enough(s) /\ Straight(s) /\ dv > 0 =>
                /\ Last(s).v * dt <= Horizon * dv => alarm
                /\ alarm => Last(s).v * dt <= 2 * Horizon * dv

\* Where the present run of one and the same image begins in the log.
Streak == CHOOSE j \in DOMAIN log :
    /\ \A k \in j..Len(log) : log[k].v = Last(log).v
    /\ j > 1 => log[j - 1].v # log[j].v

(* What a prompt says of a deploy is true, over restarts of nodux and polls  *)
(* that came too late: the image before is the one that was last seen, and   *)
(* the change is dated by the deploy itself, or as closely as two polls tell.*)
(* A name is only forgotten when it has been gone for a week, less the day   *)
(* that LastSeen is rounded to.                                              *)
ImageDated ==
    LET first == log[Streak] IN
    /\ image.id = Last(log).v
    /\ Streak = 1 => image.changedAt = NoTime
    /\ Streak > 1 => LET last == log[Streak - 1] IN
          /\ image.prev = last.v
          /\ image.changedAt \in last.at..first.at

ImagesRight ==
    [][ kind = "images" /\ up /\ ~polled /\ polled' =>
          /\ read' => ImageDated'
          /\ read' /\ place.created > Last(<<[at |-> 0]>> \o log).at /\ image.id \notin {0, place.image}
                => image'.changedAt = place.created
          /\ image # NoImage /\ image' = NoImage => now - Last(log).at > Week - Day ]_vars

(* An alarm is on only when the readings call for it, and after each check   *)
(* that took one it is on if they do: what was earned outlives restarts and  *)
(* is back with the reading after a failed one.                              *)
AlarmRight == TypeOK /\ AlarmEarned /\ AlarmKept
=============================================================================
