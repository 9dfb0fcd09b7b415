----------------------------- MODULE Incidents -----------------------------
(***************************************************************************)
(* The dispatcher (internal/engine/dispatch.go) and the incident grouper   *)
(* (internal/incident/incident.go).                                        *)
(*                                                                         *)
(* Alerts leave e.queue in order.  The dispatcher files each under an      *)
(* incident, holds it for GroupWait, and hands the batches that are due to *)
(* the delivery goroutine, which analyses a few at a time and sends them   *)
(* in order.  Of an analysis only what goes into it is modelled, and       *)
(* whether it came up with a summary.                                      *)
(***************************************************************************)
EXTENDS Integers, SequencesExt

CONSTANTS
    Keys,          \* episodes: they start, may escalate, and end
    Escalating,    \* those that can escalate
    OneOffs,       \* alerts without an episode (empty Key)
    Silenceable,   \* those a silence may cover
    SubjectsOf,    \* SubjectsOf[s]: container and project; {} = the host
    GroupWait, Window,   \* incident.Config
    BatchQueue,    \* batchQueue: capacity of the channel to deliver
    AnalyzeBatch,  \* analyzeBatch: batches analysed together
    MaxEarlier,    \* maxEarlier: alerts an open incident remembers
    HistoryAlerts, \* historyAlerts: past alerts of a container in a prompt
    MaxAlerts,     \* bound: alerts in a behaviour
    MaxTime        \* bound: clock, unless an alert is held back

Sources == Keys \cup OneOffs

ASSUME IncidentAssumption ==
    /\ Escalating \subseteq Keys /\ Keys \cap OneOffs = {}
    /\ Silenceable \subseteq OneOffs
    /\ DOMAIN SubjectsOf = Sources
    /\ GroupWait \in Nat /\ Window \in Nat
    /\ BatchQueue \in Nat \ {0} /\ AnalyzeBatch \in Nat \ {0}
    /\ MaxEarlier \in Nat \ {0} /\ HistoryAlerts \in Nat
    /\ MaxAlerts \in Nat /\ MaxTime \in Nat

VARIABLES
    now, phase,  \* clock; "run" or "closed" (the queue is)
    enabled,     \* incidents.enabled: "on" or "off", the same after a restart
    filed,       \* alerts so far: an alert's number is its place in line
    episode,     \* episode[k]: 0 = over, 1 = on, 2 = escalated
    queue,       \* e.queue
    nextID, open, byKey, ready,   \* the Grouper
    pc, handing, \* the dispatcher: where it is, batches it has yet to hand over
    batches,     \* the channel to the delivery goroutine
    worker, group,   \* deliver: "drain" or "send", and the batches it holds
    delivered    \* every alert sent, in order, with its incident (history)

grouper    == <<nextID, open, byKey, ready>>
deliverer  == <<worker, group>>
world      == <<phase, enabled, filed, episode>>
vars == <<now, world, queue, grouper, pc, handing, batches, deliverer, delivered>>

-----------------------------------------------------------------------------
(***************************************************************************)
(* Grouper.  open is a function on the ids of the open incidents; an       *)
(* incident's `newest' is the number of its last firing alert: the order   *)
(* of the nanosecond timestamps that Add compares.  `earlier' are numbers  *)
(* of alerts, and a summary is the number of the first alert it is about.  *)
(***************************************************************************)
IsHost(s) == SubjectsOf[s] = {}
Hosts == {s \in Sources : IsHost(s)}

NewIncident == [subjects |-> {}, hasHost |-> FALSE, last |-> 0, newest |-> 0,
                notified |-> FALSE, pending |-> <<>>, due |-> 0,
                earlier |-> <<>>, summary |-> 0]

Batch(id, update, alerts) ==
    [id |-> id, update |-> update, alerts |-> alerts, earlier |-> <<>>, prev |-> 0,
     summary |-> 0]

(* expire: what is left after quiet incidents with nothing to send close.  *)
Kept == {i \in DOMAIN open : open[i].due # 0 \/ now - open[i].last < Window}

Matches(inc, s) ==
    IsHost(s) \/ inc.hasHost \/ inc.subjects \cap SubjectsOf[s] # {}

(* Mutant: the newest alert goes first.                                    *)
EnqueueFront(inc, issue) ==
    [inc EXCEPT !.pending = <<issue>> \o @,
                !.due = IF @ = 0 THEN now + GroupWait ELSE @]

Enqueue(inc, issue) ==
    [inc EXCEPT !.pending = Append(@, issue),
                !.due = IF @ = 0 THEN now + GroupWait ELSE @]

(* The incident an alert joins: the matching one with the latest alert, or *)
(* a new one.                                                              *)
JoinedBy(s) ==
    LET cand == {i \in Kept : Matches(open[i], s)} IN
    IF cand = {} THEN nextID + 1
    ELSE CHOOSE i \in cand : \A j \in cand : open[j].newest <= open[i].newest

WithOpen(i, inc) == [j \in Kept \cup {i} |-> IF j = i THEN inc ELSE open[j]]

AddFiring(issue) ==
    LET i    == JoinedBy(issue.key)
        inc  == IF i \in Kept THEN open[i] ELSE NewIncident
        next == [inc EXCEPT !.last = now, !.newest = issue.n,
                            !.subjects = @ \cup SubjectsOf[issue.key],
                            !.hasHost = @ \/ IsHost(issue.key)]
    IN /\ nextID' = IF i \in Kept THEN nextID ELSE nextID + 1
       /\ open' = WithOpen(i, Enqueue(next, issue))
       /\ byKey' = IF issue.key \in Keys
                   THEN [byKey EXCEPT ![issue.key] = i] ELSE byKey
       /\ UNCHANGED ready

(* Mutant: a resolution that outlived its incident is not an update.       *)
AddResolvedNew(issue) ==
    LET i == byKey[issue.key] IN
    /\ byKey' = [byKey EXCEPT ![issue.key] = 0]
    /\ IF i \in Kept
       THEN open' = WithOpen(i, Enqueue(open[i], issue)) /\ UNCHANGED ready
       ELSE /\ open' = [j \in Kept |-> open[j]]
            /\ ready' = Append(ready, Batch(i, FALSE, <<issue>>))
    /\ UNCHANGED nextID

AddResolved(issue) ==
    LET i == byKey[issue.key] IN
    /\ byKey' = [byKey EXCEPT ![issue.key] = 0]
    /\ IF i \in Kept
       THEN open' = WithOpen(i, Enqueue(open[i], issue)) /\ UNCHANGED ready
       ELSE /\ open' = [j \in Kept |-> open[j]]
            /\ ready' = Append(ready, Batch(i, i # 0, <<issue>>))
    /\ UNCHANGED nextID

Add(issue) ==
    IF enabled = "off"
    THEN /\ ready' = Append(ready, Batch(0, FALSE, <<issue>>))
         /\ UNCHANGED <<nextID, open, byKey>>
    ELSE IF issue.kind = "resolved" THEN AddResolved(issue)
    ELSE AddFiring(issue)

(* Where in s the firing alerts are, the elements of s at the places in I, *)
(* the numbers of its firing alerts, and its last n elements.              *)
Fires(s) == {i \in DOMAIN s : s[i].kind = "firing"}
Chosen(s, I) ==
    LET f[n \in 0..Len(s)] ==
          IF n = 0 THEN <<>> ELSE IF n \in I THEN Append(f[n - 1], s[n]) ELSE f[n - 1]
    IN  f[Len(s)]
FiringNumbers(s) == Chosen([i \in DOMAIN s |-> s[i].n], Fires(s))
LastOf(s, n) == SubSeq(s, Len(s) - (IF Len(s) < n THEN Len(s) ELSE n) + 1, Len(s))

(* What an incident gives to a batch, and keeps of it for the next one.    *)
BatchOf(i, inc) ==
    [Batch(i, inc.notified, inc.pending) EXCEPT !.earlier = inc.earlier, !.prev = inc.summary]

Taken(inc) ==
    [inc EXCEPT !.notified = TRUE, !.pending = <<>>, !.due = 0,
                !.earlier = LastOf(@ \o FiringNumbers(inc.pending), MaxEarlier)]

(* take: what is ready, then the incidents in `due' by due time, which is  *)
(* the order of their first pending alerts.                                *)
Take(due) ==
    /\ \E order \in [1..Cardinality(due) -> due] :
         /\ \A i, j \in DOMAIN order : i < j =>
              open[order[i]].pending[1].n < open[order[j]].pending[1].n
         /\ handing' = ready \o
              [i \in DOMAIN order |-> BatchOf(order[i], open[order[i]])]
    /\ ready' = <<>>
    /\ open' = [i \in DOMAIN open |->
                  IF i \in due
                  THEN Taken(open[i])
                  ELSE open[i]]
    /\ UNCHANGED <<nextID, byKey>>

Pending == {i \in DOMAIN open : open[i].due # 0}
DueNow  == {i \in Pending : open[i].due <= now}

-----------------------------------------------------------------------------
(***************************************************************************)
(* dispatch.                                                               *)
(***************************************************************************)
Receive ==
    /\ pc = "select" /\ handing = <<>>
    /\ queue # <<>>
    /\ queue' = Tail(queue)
    /\ pc' = "due"
    /\ LET issue == Head(queue) IN
         IF issue.silenced
         THEN /\ handing' = <<Batch(0, FALSE, <<issue>>)>>
              /\ UNCHANGED grouper
         ELSE Add(issue) /\ UNCHANGED handing
    /\ UNCHANGED <<now, world, batches, deliverer, delivered>>

(* Mutant: Next forgets the incidents that are held back.                  *)
WakeReady ==
    /\ pc = "select" /\ handing = <<>>
    /\ ready # <<>>
    /\ pc' = "due"
    /\ UNCHANGED <<now, world, queue, grouper, handing, batches, deliverer,
                   delivered>>

(* The timer set for grouper.Next() fires.                                 *)
Wake ==
    /\ pc = "select" /\ handing = <<>>
    /\ ready # <<>> \/ DueNow # {}
    /\ pc' = "due"
    /\ UNCHANGED <<now, world, queue, grouper, handing, batches, deliverer,
                   delivered>>

Due ==
    /\ pc = "due" /\ handing = <<>>
    /\ Take(DueNow)
    /\ pc' = "select"
    /\ UNCHANGED <<now, world, queue, batches, deliverer, delivered>>

(* Mutant: what is not due yet is left behind.                             *)
FlushDue ==
    /\ phase = "closed" /\ pc = "select" /\ handing = <<>>
    /\ queue = <<>>
    /\ Take(DueNow)
    /\ pc' = "done"
    /\ UNCHANGED <<now, world, queue, batches, deliverer, delivered>>

(* The queue is closed and drained: flush, due or not.                     *)
Flush ==
    /\ phase = "closed" /\ pc = "select" /\ handing = <<>>
    /\ queue = <<>>
    /\ Take(Pending)
    /\ pc' = "done"
    /\ UNCHANGED <<now, world, queue, batches, deliverer, delivered>>

(* batches <- b, which blocks while the channel is full.                   *)
Hand ==
    /\ handing # <<>> /\ Len(batches) < BatchQueue
    /\ batches' = Append(batches, Head(handing))
    /\ handing' = Tail(handing)
    /\ UNCHANGED <<now, world, queue, grouper, pc, deliverer, delivered>>

-----------------------------------------------------------------------------
(***************************************************************************)
(* deliver: collect what is there, analyse it, send it in order.           *)
(***************************************************************************)
Fetch ==
    /\ worker = "drain"
    /\ batches # <<>> /\ Len(group) < AnalyzeBatch
    /\ group' = Append(group, Head(batches))
    /\ batches' = Tail(batches)
    /\ UNCHANGED <<now, world, queue, grouper, pc, handing, worker, delivered>>

audible(alerts) == \E i \in Fires(alerts) : ~alerts[i].silenced

(* The history's newest rows about container s, at most n.                 *)
PastOf(s, n) ==
    LastOf(Chosen(delivered, {i \in DOMAIN delivered : /\ delivered[i].alert.key = s
                                                      /\ ~delivered[i].alert.silenced}), n)

(* The containers of a batch that a prompt is about.                       *)
About(b) == {b.alerts[i].key : i \in Fires(b.alerts)} \ Hosts

(* Mutant: the rows of the incident itself are not left out.               *)
incidentForAll(b) ==
    [earlier |-> b.earlier, prev |-> b.prev,
     history |-> [s \in About(b) |->
                    LastOf(PastOf(s, HistoryAlerts + Len(b.earlier)), HistoryAlerts)]]

(* What the analyzer is told about a batch; rows older than a week, and the *)
(* images, are left out.                                                    *)
incidentFor(b) ==
    [earlier |-> b.earlier, prev |-> b.prev,
     history |-> [s \in About(b) |->
                    LET past == PastOf(s, HistoryAlerts + Len(b.earlier)) IN
                    LastOf(Chosen(past, {i \in DOMAIN past : b.id = 0 \/ past[i].id # b.id}),
                           HistoryAlerts)]]

(* The analyses of a group, a few at once: any of them may fail, or be      *)
(* over budget, and at shutdown there are none.                             *)
Analyzing == worker = "drain" /\ group # <<>> /\ (batches = <<>> \/ Len(group) = AnalyzeBatch)

Analyze ==
    /\ Analyzing
    /\ worker' = "send"
    /\ \E done \in SUBSET {i \in DOMAIN group : audible(group[i].alerts)} :
          group' = [i \in DOMAIN group |->
                      IF i \in done
                      THEN [group[i] EXCEPT !.summary = FiringNumbers(group[i].alerts)[1]]
                      ELSE group[i]]
    /\ UNCHANGED <<now, world, queue, grouper, pc, handing, batches, delivered>>

Tagged(b) == [i \in 1..Len(b.alerts) |-> [alert |-> b.alerts[i], id |-> b.id]]

(* Gone by then, or open again under another id: nothing to record.        *)
SetSummary(id, summary) ==
    open' = IF summary # 0 /\ id \in DOMAIN open THEN [open EXCEPT ![id].summary = summary]
            ELSE open

Send ==
    /\ worker = "send"
    /\ SetSummary(Head(group).id, Head(group).summary)
    /\ delivered' = delivered \o Tagged(Head(group))
    /\ group' = Tail(group)
    /\ worker' = IF Len(group) = 1 THEN "drain" ELSE "send"
    /\ UNCHANGED <<now, world, queue, nextID, byKey, ready, pc, handing, batches>>

-----------------------------------------------------------------------------
(***************************************************************************)
(* The loops queue alerts; Run closes the queue, waits for the dispatcher  *)
(* and saves; a restart reads nextID and byKey back.                       *)
(***************************************************************************)
File(s, kind, silenced) ==
    /\ phase = "run" /\ filed < MaxAlerts
    /\ filed' = filed + 1
    /\ queue' = Append(queue, [n |-> filed + 1, key |-> s, kind |-> kind,
                               silenced |-> silenced])
    /\ UNCHANGED <<now, phase, enabled, grouper, pc, handing, batches, deliverer,
                   delivered>>

Raise(k) ==
    /\ episode[k] < (IF k \in Escalating THEN 2 ELSE 1)
    /\ episode' = [episode EXCEPT ![k] = @ + 1]
    /\ File(k, "firing", FALSE)

Resolve(k) ==
    /\ episode[k] > 0
    /\ episode' = [episode EXCEPT ![k] = 0]
    /\ File(k, "resolved", FALSE)

OneOff(s, silenced) ==
    /\ silenced => s \in Silenceable
    /\ File(s, "firing", silenced)
    /\ UNCHANGED episode

(* Past the bound, time goes on only for what is still held back.          *)
Tick ==
    /\ now < MaxTime \/ \E i \in Pending : open[i].due > now
    /\ now' = now + 1
    /\ UNCHANGED <<world, queue, grouper, pc, handing, batches, deliverer,
                   delivered>>

Close ==
    /\ phase = "run"
    /\ phase' = "closed"
    /\ UNCHANGED <<now, enabled, filed, episode, queue, grouper, pc, handing, batches,
                   deliverer, delivered>>

Delivered ==
    pc = "done" /\ handing = <<>> /\ batches = <<>> /\ group = <<>>

(* deliver has returned: SaveState, and LoadState in a new process.        *)
Restart ==
    /\ phase = "closed" /\ Delivered
    /\ phase' = "run"
    /\ pc' = "select"
    /\ open' = <<>> /\ ready' = <<>>
    /\ UNCHANGED <<now, enabled, filed, episode, queue, nextID, byKey, handing, batches,
                   deliverer, delivered>>

Init ==
    /\ now = 1 /\ phase = "run" /\ filed = 0
    /\ enabled \in {"on", "off"}
    /\ episode = [k \in Keys |-> 0]
    /\ queue = <<>>
    /\ nextID = 0 /\ open = <<>> /\ byKey = [k \in Keys |-> 0] /\ ready = <<>>
    /\ pc = "select" /\ handing = <<>> /\ batches = <<>>
    /\ worker = "drain" /\ group = <<>>
    /\ delivered = <<>>

Alerts == \/ \E k \in Keys : Raise(k) \/ Resolve(k)
          \/ \E s \in OneOffs, q \in BOOLEAN : OneOff(s, q)

Dispatcher == Receive \/ Wake \/ Due \/ Flush \/ Hand
Deliverer  == Fetch \/ Analyze \/ Send

Next == Alerts \/ Tick \/ Dispatcher \/ Deliverer \/ Close \/ Restart

Spec == Init /\ [][Next]_vars

(* Time passes, and the two goroutines run when they can.                  *)
Fairness == WF_vars(Tick) /\ WF_vars(Dispatcher) /\ WF_vars(Deliverer)
FairSpec == Spec /\ Fairness

-----------------------------------------------------------------------------
Issue    == [n : Nat, key : Sources, kind : {"firing", "resolved"},
             silenced : BOOLEAN]
Batches  == [id : Nat, update : BOOLEAN, alerts : Seq(Issue), earlier : Seq(Nat),
             prev : Nat, summary : Nat]
Incident == [subjects : SUBSET UNION {SubjectsOf[s] : s \in Sources},
             hasHost : BOOLEAN, last : Nat, newest : Nat, notified : BOOLEAN,
             pending : Seq(Issue), due : Nat, earlier : Seq(Nat), summary : Nat]

(* Types, and the id of every open incident is one the counter has given.  *)
TypeOK ==
    /\ now \in Nat /\ phase \in {"run", "closed"} /\ enabled \in {"on", "off"}
    /\ filed \in Nat /\ episode \in [Keys -> 0..2]
    /\ queue \in Seq(Issue)
    /\ nextID \in Nat
    /\ DOMAIN open \in SUBSET (1..nextID) /\ open \in [DOMAIN open -> Incident]
    /\ byKey \in [Keys -> 0..nextID]
    /\ ready \in Seq(Batches)
    /\ pc \in {"select", "due", "done"} /\ handing \in Seq(Batches)
    /\ batches \in Seq(Batches)
    /\ worker \in {"drain", "send"} /\ group \in Seq(Batches)
    /\ delivered \in Seq([alert : Issue, id : Nat])

(* Every alert ever queued is in exactly one place, on its way or          *)
(* delivered: grouping, the blocking hand-over, the flush at shutdown and  *)
(* a restart neither lose nor repeat one.                                  *)
Alone(bs, n) == {i \in 1..Len(bs) : \E j \in 1..Len(bs[i].alerts) : bs[i].alerts[j].n = n}
InSeq(q, n)  == {i \in 1..Len(q) : q[i].n = n}
Sent(n)      == {i \in 1..Len(delivered) : delivered[i].alert.n = n}
Held(n)      == UNION {{<<i, j>> : j \in InSeq(open[i].pending, n)} : i \in DOMAIN open}

ExactlyOnce ==
    \A n \in 1..filed :
        Cardinality(InSeq(queue, n)) + Cardinality(Held(n))
        + Cardinality(Alone(ready, n)) + Cardinality(Alone(handing, n))
        + Cardinality(Alone(batches, n)) + Cardinality(Alone(group, n))
        + Cardinality(Sent(n)) = 1

(* Batch: "Update is set when earlier alerts of the incident were already  *)
(* sent", and only then, also for a resolution that comes after its        *)
(* incident closed or nodux restarted.                                     *)
UpdateMeansSent ==
    [][ Send => LET b == Head(group) IN
                b.update <=> \E i \in 1..Len(delivered) :
                                b.id # 0 /\ delivered[i].id = b.id ]_vars

(* The alerts of one incident are delivered in the order they were queued. *)
IncidentOrder ==
    \A i, j \in 1..Len(delivered) :
        i < j /\ delivered[i].id = delivered[j].id /\ delivered[i].id # 0
            => delivered[i].alert.n < delivered[j].alert.n

(* A resolution is delivered after the alert it ends, and in the same      *)
(* incident: the one the episode's last alert was filed under.             *)
EndsWhatWasSent ==
    \A j \in 1..Len(delivered) : delivered[j].alert.kind = "resolved" =>
        \E i \in 1..(j - 1) :
            /\ delivered[i].alert.key = delivered[j].alert.key
            /\ delivered[i].alert.kind = "firing"
            /\ delivered[i].id = delivered[j].id

(* With incidents off, alerts that are sent to receivers are delivered in  *)
(* the order they were queued (Episodes' Dispatch relies on it).           *)
FirstInFirstOut ==
    enabled = "off" => \A i, j \in 1..Len(delivered) :
        i < j => delivered[i].alert.n < delivered[j].alert.n

(* The firing alerts of an incident that went out, or go, before group[k]. *)
Before(k) ==
    LET sent  == {i \in DOMAIN delivered : /\ delivered[i].id = group[k].id
                                           /\ delivered[i].alert.kind = "firing"}
        ahead == {j \in 1..k - 1 : group[j].id = group[k].id}
    IN  {delivered[i].alert.n : i \in sent} \cup
        UNION {{group[j].alerts[x].n : x \in Fires(group[j].alerts)} : j \in ahead}

(* s has the greatest numbers of S in order, as many as an incident keeps.  *)
Recalls(s, S) ==
    /\ Range(s) \subseteq S /\ Len(s) <= MaxEarlier
    /\ \A i, j \in 1..Len(s) : i < j => s[i] < s[j]
    /\ \A n \in S \ Range(s) : Len(s) = MaxEarlier /\ n < s[1]

(* A prompt tells the story of its incident once and in full: Earlier are  *)
(* the last firing alerts of the incident before this batch, also those    *)
(* that wait in the same group; the last summary is one receivers got for  *)
(* this incident; and the history repeats none of them.                    *)
StoryOnce ==
    Analyzing => \A k \in DOMAIN group : audible(group[k].alerts) /\ group[k].id # 0 =>
        LET b      == group[k]
            prompt == incidentFor(b)
            known  == Range(prompt.earlier) \cup {b.alerts[i].n : i \in DOMAIN b.alerts}
        IN  /\ Recalls(prompt.earlier, Before(k))
            /\ prompt.prev # 0 => \E i \in DOMAIN delivered :
                 delivered[i].id = b.id /\ delivered[i].alert.n = prompt.prev
            /\ \A s \in DOMAIN prompt.history : \A i \in DOMAIN prompt.history[s] :
                 prompt.history[s][i].alert.n \notin known

(* The analyzer's context: types (the memory of an incident is made of     *)
(* alert numbers), and the story told once and in full.                    *)
ContextRight == TypeOK /\ StoryOnce

(* Every alert that was queued is delivered.                               *)
EverythingDelivered ==
    \A n \in 1..MaxAlerts : filed >= n ~> Sent(n) # {}

(* Order, however batches are formed and handed over: within an incident,  *)
(* between an alert and its resolution, and for all without incidents.     *)
DeliveredInOrder == IncidentOrder /\ EndsWhatWasSent /\ FirstInFirstOut
=============================================================================
