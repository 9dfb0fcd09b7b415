------------------------ MODULE EventDetectorsProofs ------------------------
(***************************************************************************)
(* Proofs about EventDetectors, for every set of containers and signals,   *)
(* every threshold, and any number of events, saves and crashes.           *)
(*                                                                         *)
(* The argument: what the detectors remember at event p of the log is what *)
(* the log up to p says, and the state file says the same of an earlier    *)
(* event, so a crash only goes back in the log.  Containers that events    *)
(* were skipped of, or whose stop signal was not to be had, are `misled'.  *)
(***************************************************************************)
EXTENDS EventDetectors, TLAPS, FiniteSetTheorems

Actions == {"create", "start", "kill", "oom", "die", "destroy"}
Events == [action : Actions, id : Containers, time : Nat, signal : Signals \cup {"none"},
           asked : BOOLEAN, oomed : BOOLEAN, crash : BOOLEAN, bad : BOOLEAN, ran : Int]

-----------------------------------------------------------------------------
(* What the log says of a container, by event p: it has been marked since  *)
(* its last start, by a stop request or by the OOM killer.                 *)
Sets(kind, e) ==
    CASE kind = "oom" -> e.action = "oom"
      [] kind = "fall" -> e.action = "die" /\ ~e.asked
      [] OTHER -> e.action = "kill" /\ e.signal \in {"term", StopSignal[e.id]}

Over(e) == e.action \in {"start", "destroy"}

MarkedBy(kind, l, p, c) ==
    \E j \in 1..p :
        /\ l[j].id = c /\ Sets(kind, l[j])
        /\ \A k \in j + 1..p : ~(l[k].id = c /\ Over(l[k]))

LEMMA MarkGrows ==
    ASSUME NEW kind, NEW l, NEW p \in Nat, NEW c
    PROVE  MarkedBy(kind, l, p + 1, c) <=>
              \/ l[p + 1].id = c /\ Sets(kind, l[p + 1])
              \/ MarkedBy(kind, l, p, c) /\ ~(l[p + 1].id = c /\ Over(l[p + 1]))
<1>1. ASSUME MarkedBy(kind, l, p + 1, c)
      PROVE  \/ l[p + 1].id = c /\ Sets(kind, l[p + 1])
             \/ MarkedBy(kind, l, p, c) /\ ~(l[p + 1].id = c /\ Over(l[p + 1]))
  <2>1. PICK j \in 1..p + 1 :
          /\ l[j].id = c /\ Sets(kind, l[j])
          /\ \A k \in j + 1..p + 1 : ~(l[k].id = c /\ Over(l[k]))
    BY <1>1 DEF MarkedBy
  <2>2. CASE j = p + 1
    BY <2>1, <2>2
  <2>3. CASE j # p + 1
    <3>1. j \in 1..p /\ p + 1 \in j + 1..p + 1 /\ \A k \in j + 1..p : k \in j + 1..p + 1
      BY <2>3
    <3> QED BY <2>1, <3>1 DEF MarkedBy
  <2> QED BY <2>2, <2>3
<1>2. ASSUME l[p + 1].id = c, Sets(kind, l[p + 1])
      PROVE  MarkedBy(kind, l, p + 1, c)
  <2>1. p + 1 \in 1..p + 1 /\ (p + 1) + 1..p + 1 = {}
    OBVIOUS
  <2> QED BY <1>2, <2>1 DEF MarkedBy
<1>3. ASSUME MarkedBy(kind, l, p, c), ~(l[p + 1].id = c /\ Over(l[p + 1]))
      PROVE  MarkedBy(kind, l, p + 1, c)
  <2>1. PICK j \in 1..p :
          /\ l[j].id = c /\ Sets(kind, l[j])
          /\ \A k \in j + 1..p : ~(l[k].id = c /\ Over(l[k]))
    BY <1>3 DEF MarkedBy
  <2>2. j \in 1..p + 1 /\ \A k \in j + 1..p + 1 : k \in j + 1..p \/ k = p + 1
    OBVIOUS
  <2> QED BY <1>3, <2>1, <2>2 DEF MarkedBy
<1> QED BY <1>1, <1>2, <1>3

LEMMA MarkAgrees ==
    ASSUME NEW kind, NEW l, NEW ll, NEW p \in Nat, NEW c, \A i \in 1..p : l[i] = ll[i]
    PROVE  MarkedBy(kind, l, p, c) <=> MarkedBy(kind, ll, p, c)
<1>1. \A j \in 1..p : \A k \in j + 1..p : k \in 1..p
  OBVIOUS
<1> QED BY <1>1 DEF MarkedBy

LEMMA MarkSkips ==
    ASSUME NEW kind, NEW l, NEW p \in Nat, NEW q \in Nat, p <= q, NEW c,
           \A i \in p + 1..q : l[i].id # c
    PROVE  MarkedBy(kind, l, p, c) <=> MarkedBy(kind, l, q, c)
<1>1. ASSUME MarkedBy(kind, l, p, c) PROVE MarkedBy(kind, l, q, c)
  <2>1. PICK j \in 1..p :
          /\ l[j].id = c /\ Sets(kind, l[j])
          /\ \A k \in j + 1..p : ~(l[k].id = c /\ Over(l[k]))
    BY <1>1 DEF MarkedBy
  <2>2. j \in 1..q /\ \A k \in j + 1..q : k \in j + 1..p \/ k \in p + 1..q
    OBVIOUS
  <2> QED BY <2>1, <2>2 DEF MarkedBy
<1>2. ASSUME MarkedBy(kind, l, q, c) PROVE MarkedBy(kind, l, p, c)
  <2>1. PICK j \in 1..q :
          /\ l[j].id = c /\ Sets(kind, l[j])
          /\ \A k \in j + 1..q : ~(l[k].id = c /\ Over(l[k]))
    BY <1>2 DEF MarkedBy
  <2>2. j \notin p + 1..q
    BY <2>1
  <2>3. j \in 1..p /\ \A k \in j + 1..p : k \in j + 1..q
    BY <2>2
  <2> QED BY <2>1, <2>3 DEF MarkedBy
<1> QED BY <1>1, <1>2

-----------------------------------------------------------------------------
(* The invariant.  First, everything is of the right kind.                 *)
Shapes ==
    /\ now \in Nat /\ log \in Seq(Events) /\ DOMAIN run = Containers
    /\ asked \in [Containers -> BOOLEAN] /\ oomed \in [Containers -> BOOLEAN]
    /\ fell \in [Containers -> BOOLEAN]
    /\ startedAt \in [Containers -> Int] /\ ran \in [Containers -> Int]
    /\ pos \in 0..Len(log) /\ saved.pos \in 0..pos

Tracks(st, oo, fs) ==
    /\ st \in [{"exit", "crashloop"} -> [Containers -> BOOLEAN]]
    /\ oo \in [Containers -> BOOLEAN] /\ fs \in [Containers -> BOOLEAN]

(* An event says what really happened.                                     *)
Truth ==
    /\ \A c \in Containers : run[c] = "up" =>
          /\ asked[c] <=> MarkedBy("stop", log, Len(log), c)
          /\ oomed[c] <=> MarkedBy("oom", log, Len(log), c)
    /\ \A i \in 1..Len(log) : log[i].action = "die" =>
          /\ log[i].asked <=> MarkedBy("stop", log, i - 1, log[i].id)
          /\ log[i].oomed <=> MarkedBy("oom", log, i - 1, log[i].id)

MarksOf(p, st, oo) ==
    \A c \in Containers \ misled :
        /\ st["exit"][c] <=> MarkedBy("stop", log, p, c)
        /\ oo[c] <=> MarkedBy("oom", log, p, c)

Marks ==
    /\ Tracks(stops, ooms, firing) /\ MarksOf(pos, stops, ooms)
    /\ Tracks(saved.stops, saved.ooms, saved.firing)
    /\ MarksOf(saved.pos, saved.stops, saved.ooms)

KindOf(action) ==
    CASE action = "die" -> "exit" [] action = "oom" -> "oom"
      [] action = "start" -> "crashloop" [] OTHER -> "none"

HitRight ==
    \/ hit = NoHit
    \/ /\ up /\ hit.i = pos /\ saved.pos < pos
       /\ hit.det = KindOf(log[pos].action) /\ hit.det # "none"

RaisedRight ==
    \A a \in raised :
        /\ a.i \in 1..pos /\ a.at \in 0..now
        /\ a.det = "exit" /\ log[a.i].id \notin misled => ~log[a.i].asked

(* lastAlert, as of event p, is about alerts that were raised.             *)
Remembered(la, p) ==
    /\ la \in [Keys -> 0..now]
    /\ \A k \in Keys : la[k] # 0 => \E a \in raised :
          a.det = k[1] /\ Name[log[a.i].id] = k[2] /\ a.at = la[k] /\ a.i <= p

Memories == Remembered(lastAlert, pos) /\ Remembered(saved.lastAlert, saved.pos)

(* An alert that cooled down is about an earlier event, or the same one,   *)
(* so a crash that takes the one takes the other.                          *)
Told(i) ==
    \/ i \in dropped
    \/ \E a \in alerts : a.i = i /\ a.det = Owed(i)
    \/ \E m \in muted, a \in raised :
          /\ m.i = i /\ m.det = Owed(i) /\ a.det = m.det
          /\ Name[log[a.i].id] = Name[log[i].id]
          /\ a.at <= m.at /\ m.at < a.at + Cooldown
          /\ a.i <= i

Reported ==
    \A i \in 1..pos : Owed(i) # "none" /\ log[i].id \notin misled => Told(i) \/ hit.i = i

(* The containers a window is for, and when it is to end by event p.       *)
Of(k) == {c \in Containers : k \in {<<"container", Name[c]>>, <<"project", Project[c]>>}}

Ends(k, p) == {log[i].time + Grace : i \in {j \in 1..p : log[j].id \in Of(k) /\ Deploying(j)}}

WindowsOf(w, p) ==
    /\ w \in [WindowKeys -> Nat]
    /\ Grace > 0 => \A k \in WindowKeys : Of(k) \cap misled = {} =>
          /\ w[k] # 0 => w[k] \in Ends(k, p)
          /\ \A t \in Ends(k, p) : t > now => w[k] >= t

Windows == WindowsOf(windows, pos) /\ WindowsOf(saved.store.windows, saved.pos)

IInv == Shapes /\ Truth /\ Marks /\ HitRight /\ RaisedRight /\ Memories /\ Reported /\ Windows

-----------------------------------------------------------------------------
(* What is written in the log stays there.                                 *)
LEMMA LogGrows ==
    ASSUME NEW l \in Seq(Events), NEW e
    PROVE  /\ Len(l) \in Nat /\ Len(Append(l, e)) = Len(l) + 1
           /\ \A i \in 1..Len(l) : Append(l, e)[i] = l[i]
           /\ Append(l, e)[Len(l) + 1] = e
           /\ e \in Events => Append(l, e) \in Seq(Events)
<1>1. PICK E : E = Events
  OBVIOUS
<1>2. l \in Seq(E)
  BY <1>1
<1>3. e \in E => Append(l, e) \in Seq(E)
  BY <1>2
<1> QED BY <1>1, <1>2, <1>3

LEMMA EventIs ==
    ASSUME NEW l \in Seq(Events), NEW i \in 1..Len(l)
    PROVE  l[i] \in Events
<1>1. PICK E : E = Events
  OBVIOUS
<1>2. l \in Seq(E)
  BY <1>1
<1> QED BY <1>1, <1>2

LEMMA EventsStay ==
    ASSUME NEW p, \A i \in 1..p : log'[i] = log[i]
    PROVE  /\ \A i \in 1..p : Owed(i)' = Owed(i)
           /\ \A i \in 1..p : Deploying(i)' <=> Deploying(i)
           /\ \A k : Ends(k, p)' = Ends(k, p)
<1>1. \A i \in 1..p : Owed(i)' = Owed(i)
  BY DEF Owed
<1>2. \A i \in 1..p : Deploying(i)' <=> Deploying(i)
  BY DEF Deploying
<1>3. ASSUME NEW k PROVE Ends(k, p)' = Ends(k, p)
  <2>1. {j \in 1..p : log'[j].id \in Of(k) /\ Deploying(j)'}
          = {j \in 1..p : log[j].id \in Of(k) /\ Deploying(j)}
    BY <1>2
  <2>2. Ends(k, p)' = {log'[i].time + Grace :
                          i \in {j \in 1..p : log'[j].id \in Of(k) /\ Deploying(j)'}}
    BY DEF Ends, Of
  <2>3. \A i \in {j \in 1..p : log[j].id \in Of(k) /\ Deploying(j)} : log'[i] = log[i]
    OBVIOUS
  <2> QED BY <2>1, <2>2, <2>3 DEF Ends
<1> QED BY <1>1, <1>2, <1>3

(* Whatever the containers do, nodux knows as much as before.              *)
LEMMA NoduxStays ==
    ASSUME IInv, NEW e, log' = Append(log, e), UNCHANGED Nodux
    PROVE  Marks' /\ HitRight' /\ RaisedRight' /\ Memories' /\ Reported' /\ Windows'
<1>1. /\ pos \in Nat /\ saved.pos \in Nat /\ saved.pos <= pos /\ pos <= Len(log)
      /\ Len(log) \in Nat /\ log \in Seq(Events)
  BY DEF IInv, Shapes
<1>2. \A i \in 1..Len(log) : log'[i] = log[i]
  BY <1>1, LogGrows
<1>3. /\ \A i \in 1..pos : i \in 1..Len(log) /\ log'[i] = log[i]
      /\ \A i \in 1..saved.pos : i \in 1..pos /\ log'[i] = log[i]
  BY <1>1, <1>2
<1>4. UNCHANGED <<now, up, pos, saved, stops, ooms, firing, lastAlert, windows, hit, alerts,
                  raised, muted, dropped, misled>>
  BY DEF Nodux, marks, loops, past, store
<1>5. Marks'
  <2>1. \A kind, c : MarkedBy(kind, log', pos, c) <=> MarkedBy(kind, log, pos, c)
    BY <1>1, <1>3, MarkAgrees
  <2>2. \A kind, c : MarkedBy(kind, log', saved.pos, c) <=> MarkedBy(kind, log, saved.pos, c)
    BY <1>1, <1>3, MarkAgrees
  <2>3. Marks
    BY DEF IInv
  <2> QED BY <1>4, <2>1, <2>2, <2>3 DEF Marks, MarksOf, Tracks
<1>6. HitRight'
  <2>1. CASE hit = NoHit
    BY <1>4, <2>1 DEF HitRight
  <2>2. CASE hit # NoHit
    <3>1. /\ up /\ hit.i = pos /\ saved.pos < pos
          /\ hit.det = KindOf(log[pos].action) /\ hit.det # "none"
      BY <2>2 DEF IInv, HitRight
    <3>2. pos \in 1..pos
      BY <1>1, <3>1
    <3> QED BY <1>3, <1>4, <3>1, <3>2 DEF HitRight
  <2> QED BY <2>1, <2>2
<1>7. RaisedRight'
  <2>1. RaisedRight
    BY DEF IInv
  <2> QED BY <1>3, <1>4, <2>1 DEF RaisedRight
<1>8. \A a \in raised : a.i \in 1..pos /\ log'[a.i] = log[a.i]
  BY <1>3 DEF IInv, RaisedRight
<1>9. Memories'
  <2>1. Memories
    BY DEF IInv
  <2> QED BY <1>4, <1>8, <2>1 DEF Memories, Remembered
<1>10. \A i \in 1..pos : Owed(i)' = Owed(i)
  BY <1>3, EventsStay
<1>11. Reported'
  <2>1. ASSUME NEW i \in 1..pos, Told(i) PROVE Told(i)'
    BY <1>3, <1>4, <1>8, <1>10, <2>1 DEF Told
  <2>2. Reported
    BY DEF IInv
  <2> QED BY <1>3, <1>4, <1>10, <2>1, <2>2 DEF Reported
<1>12. Windows'
  <2>1. \A k : Ends(k, pos)' = Ends(k, pos) /\ Ends(k, saved.pos)' = Ends(k, saved.pos)
    BY <1>3, <1>4, EventsStay
  <2>2. Windows
    BY DEF IInv
  <2> QED BY <1>4, <2>1, <2>2 DEF Windows, WindowsOf, Of
<1> QED BY <1>5, <1>6, <1>7, <1>9, <1>11, <1>12

-----------------------------------------------------------------------------
(* The containers.                                                         *)
LEMMA EventTruth ==
    ASSUME IInv, NEW e \in Events, log' = Append(log, e),
           \A d \in Containers : d # e.id =>
              run'[d] = run[d] /\ asked'[d] = asked[d] /\ oomed'[d] = oomed[d],
           run'[e.id] = "up" =>
              /\ Over(e) \/ run[e.id] = "up"
              /\ asked'[e.id] <=> Sets("stop", e) \/ (asked[e.id] /\ ~Over(e))
              /\ oomed'[e.id] <=> Sets("oom", e) \/ (oomed[e.id] /\ ~Over(e)),
           e.action = "die" =>
              run[e.id] = "up" /\ e.asked = asked[e.id] /\ e.oomed = oomed[e.id]
    PROVE  Truth'
<1> DEFINE n == Len(log)
           c == e.id
<1>1. n \in Nat /\ c \in Containers /\ Truth
  BY DEF IInv, Shapes, Events
<1>2. /\ Len(log') = n + 1 /\ log'[n + 1] = e
      /\ \A i \in 1..n : log'[i] = log[i]
  BY LogGrows DEF IInv, Shapes
<1>3. \A i \in 1..n : i - 1 \in Nat /\ \A j \in 1..i - 1 : j \in 1..n
  BY <1>1
<1>4. \A kind, d : MarkedBy(kind, log', n, d) <=> MarkedBy(kind, log, n, d)
  BY <1>1, <1>2, MarkAgrees
<1>5. \A kind, d : MarkedBy(kind, log', n + 1, d) <=>
         (c = d /\ Sets(kind, e)) \/ (MarkedBy(kind, log, n, d) /\ ~(c = d /\ Over(e)))
  <2> SUFFICES ASSUME NEW kind, NEW d
               PROVE  MarkedBy(kind, log', n + 1, d) <=>
                        \/ c = d /\ Sets(kind, e)
                        \/ MarkedBy(kind, log, n, d) /\ ~(c = d /\ Over(e))
    OBVIOUS
  <2>1. PICK l : l = log'
    OBVIOUS
  <2> HIDE DEF n
  <2>2. MarkedBy(kind, l, n + 1, d) <=>
          \/ l[n + 1].id = d /\ Sets(kind, l[n + 1])
          \/ MarkedBy(kind, l, n, d) /\ ~(l[n + 1].id = d /\ Over(l[n + 1]))
    BY <1>1, MarkGrows
  <2> QED BY <1>2, <1>4, <2>1, <2>2
<1>6. ASSUME NEW d \in Containers, run'[d] = "up"
      PROVE  /\ asked'[d] <=> MarkedBy("stop", log', Len(log'), d)
             /\ oomed'[d] <=> MarkedBy("oom", log', Len(log'), d)
  <2>1. CASE d = c
    <3>1. ASSUME ~Over(e)
          PROVE  /\ asked[c] <=> MarkedBy("stop", log, n, c)
                 /\ oomed[c] <=> MarkedBy("oom", log, n, c)
      BY <1>1, <1>6, <2>1, <3>1 DEF Truth
    <3> HIDE DEF c, n
    <3>2. /\ asked'[c] <=> Sets("stop", e) \/ (asked[c] /\ ~Over(e))
          /\ oomed'[c] <=> Sets("oom", e) \/ (oomed[c] /\ ~Over(e))
      BY <1>6, <2>1 DEF c
    <3> QED BY <1>2, <1>5, <2>1, <3>1, <3>2
  <2>2. CASE d # c
    <3>1. /\ asked'[d] = asked[d] /\ oomed'[d] = oomed[d]
          /\ asked[d] <=> MarkedBy("stop", log, n, d)
          /\ oomed[d] <=> MarkedBy("oom", log, n, d)
      BY <1>1, <1>6, <2>2 DEF Truth
    <3> HIDE DEF c, n
    <3> QED BY <1>2, <1>5, <2>2, <3>1
  <2> QED BY <2>1, <2>2
<1>7. ASSUME NEW i \in 1..Len(log'), log'[i].action = "die"
      PROVE  /\ log'[i].asked <=> MarkedBy("stop", log', i - 1, log'[i].id)
             /\ log'[i].oomed <=> MarkedBy("oom", log', i - 1, log'[i].id)
  <2>1. CASE i = n + 1
    <3>1. /\ e.asked <=> MarkedBy("stop", log, n, c)
          /\ e.oomed <=> MarkedBy("oom", log, n, c)
      BY <1>1, <1>2, <1>7, <2>1 DEF Truth
    <3>2. i - 1 = n /\ log'[i] = e
      BY <1>1, <1>2, <2>1
    <3> HIDE DEF n
    <3> QED BY <1>4, <3>1, <3>2
  <2>2. CASE i # n + 1
    <3>1. i \in 1..n /\ log'[i] = log[i]
      BY <1>1, <1>2, <2>2
    <3>2. \A kind, d : MarkedBy(kind, log', i - 1, d) <=> MarkedBy(kind, log, i - 1, d)
      <4>1. i - 1 \in Nat /\ \A j \in 1..i - 1 : log'[j] = log[j]
        BY <1>2, <1>3, <3>1
      <4> QED BY <4>1, MarkAgrees
    <3> HIDE DEF n
    <3>3. /\ log[i].asked <=> MarkedBy("stop", log, i - 1, log[i].id)
          /\ log[i].oomed <=> MarkedBy("oom", log, i - 1, log[i].id)
      BY <1>1, <1>7, <3>1 DEF Truth, n
    <3> QED BY <3>1, <3>2, <3>3
  <2> QED BY <2>1, <2>2
<1> QED BY <1>6, <1>7 DEF Truth

(* An event of a container that leaves the clock alone.                    *)
LEMMA LogShapes ==
    ASSUME IInv, NEW e \in Events, log' = Append(log, e), UNCHANGED Nodux,
           DOMAIN run' = Containers,
           asked' \in [Containers -> BOOLEAN], oomed' \in [Containers -> BOOLEAN],
           fell' \in [Containers -> BOOLEAN],
           startedAt' \in [Containers -> Int], ran' \in [Containers -> Int]
    PROVE  Shapes'
<1>1. log' \in Seq(Events) /\ Len(log') = Len(log) + 1 /\ Len(log) \in Nat
  BY LogGrows DEF IInv, Shapes
<1>2. UNCHANGED <<now, pos, saved>>
  BY DEF Nodux
<1>3. now \in Nat /\ pos \in 0..Len(log) /\ saved.pos \in 0..pos
  BY DEF IInv, Shapes
<1>4. pos \in 0..Len(log')
  BY <1>1, <1>3
<1> QED BY <1>1, <1>2, <1>3, <1>4 DEF Shapes

LEMMA EventShape ==
    ASSUME IInv, NEW action \in Actions, NEW c \in Containers
    PROVE  Event(action, c) \in Events
<1>1. now \in Nat
  BY DEF IInv, Shapes
<1> QED BY <1>1 DEF Event, Events

LEMMA Created == ASSUME NEW c \in Containers PROVE IInv /\ Create(c) => IInv'
<1> SUFFICES ASSUME IInv, Create(c) PROVE IInv'
  OBVIOUS
<1>1. PICK e : e = Event("create", c)
  OBVIOUS
<1>2. e \in Events /\ e.id = c /\ e.action = "create"
  BY <1>1, EventShape DEF Event, Actions
<1>3. log' = Append(log, e) /\ UNCHANGED Nodux
  BY <1>1 DEF Create, Emit
<1>4. Shapes'
  BY <1>2, <1>3, LogShapes DEF Create, IInv, Shapes
<1>5. Truth'
  <2>1. \A d \in Containers : d # c =>
           run'[d] = run[d] /\ asked'[d] = asked[d] /\ oomed'[d] = oomed[d]
    BY DEF Create, IInv, Shapes
  <2>2. run'[c] = "down"
    BY DEF Create, IInv, Shapes
  <2> QED BY <1>2, <1>3, <2>1, <2>2, EventTruth
<1> QED BY <1>3, <1>4, <1>5, NoduxStays DEF IInv

LEMMA Started == ASSUME NEW c \in Containers PROVE IInv /\ Start(c) => IInv'
<1> SUFFICES ASSUME IInv, Start(c) PROVE IInv'
  OBVIOUS
<1>1. PICK e : e = [Event("start", c) EXCEPT !.crash = fell[c], !.ran = ran[c]]
  OBVIOUS
<1>2. e \in Events /\ e.id = c /\ e.action = "start"
  <2>1. fell[c] \in BOOLEAN /\ ran[c] \in Int /\ now \in Nat
    BY DEF IInv, Shapes
  <2> QED BY <1>1, <2>1 DEF Event, Events, Actions
<1>3. log' = Append(log, e) /\ UNCHANGED Nodux
  BY <1>1 DEF Start, Emit
<1>4. Shapes'
  <2>1. now \in Int
    BY DEF IInv, Shapes
  <2> QED BY <1>2, <1>3, <2>1, LogShapes DEF Start, IInv, Shapes
<1>5. Truth'
  <2>1. \A d \in Containers : d # c =>
           run'[d] = run[d] /\ asked'[d] = asked[d] /\ oomed'[d] = oomed[d]
    BY DEF Start, IInv, Shapes
  <2>2. ~asked'[c] /\ ~oomed'[c]
    BY DEF Start, IInv, Shapes
  <2>3. Over(e) /\ ~Sets("stop", e) /\ ~Sets("oom", e)
    BY <1>2 DEF Over, Sets
  <2> QED BY <1>2, <1>3, <2>1, <2>2, <2>3, EventTruth
<1> QED BY <1>3, <1>4, <1>5, NoduxStays DEF IInv

LEMMA Killed ==
    ASSUME NEW c \in Containers, NEW signal \in Signals
    PROVE  IInv /\ Kill(c, signal) => IInv'
<1> SUFFICES ASSUME IInv, Kill(c, signal) PROVE IInv'
  OBVIOUS
<1>1. PICK e : e = [Event("kill", c) EXCEPT !.signal = signal]
  OBVIOUS
<1>2. e \in Events /\ e.id = c /\ e.action = "kill" /\ e.signal = signal
  <2>1. now \in Nat
    BY DEF IInv, Shapes
  <2>2. e = [action |-> "kill", id |-> c, time |-> now, signal |-> signal,
             asked |-> FALSE, oomed |-> FALSE, crash |-> FALSE, bad |-> FALSE, ran |-> 0]
    BY <1>1 DEF Event
  <2>3. e \in Events
    BY <2>1, <2>2 DEF Events, Actions
  <2> QED BY <2>2, <2>3
<1>3. log' = Append(log, e) /\ UNCHANGED Nodux
  BY <1>1 DEF Kill, Emit
<1>4. asked' \in [Containers -> BOOLEAN]
      /\ (asked'[c] <=> asked[c] \/ signal \in {"term", StopSignal[c]})
      /\ \A d \in Containers : d # c => asked'[d] = asked[d]
  BY DEF Kill, IInv, Shapes
<1>5. Shapes'
  BY <1>2, <1>3, <1>4, LogShapes DEF Kill, IInv, Shapes
<1>6. Truth'
  <2>1. \A d \in Containers : d # c =>
           run'[d] = run[d] /\ asked'[d] = asked[d] /\ oomed'[d] = oomed[d]
    BY <1>4 DEF Kill
  <2>2. run[c] = "up" /\ oomed'[c] = oomed[c]
    BY DEF Kill
  <2>3. ~Over(e) /\ (Sets("stop", e) <=> signal \in {"term", StopSignal[c]}) /\ ~Sets("oom", e)
    BY <1>2 DEF Over, Sets
  <2> QED BY <1>2, <1>3, <1>4, <2>1, <2>2, <2>3, EventTruth
<1> QED BY <1>3, <1>5, <1>6, NoduxStays DEF IInv

LEMMA OutOfMemory == ASSUME NEW c \in Containers PROVE IInv /\ OOM(c) => IInv'
<1> SUFFICES ASSUME IInv, OOM(c) PROVE IInv'
  OBVIOUS
<1>1. PICK e : e = [Event("oom", c) EXCEPT !.ran = now - startedAt[c]]
  OBVIOUS
<1>2. e \in Events /\ e.id = c /\ e.action = "oom"
  <2>1. now \in Nat /\ startedAt[c] \in Int
    BY DEF IInv, Shapes
  <2>2. e = [action |-> "oom", id |-> c, time |-> now, signal |-> "none",
             asked |-> FALSE, oomed |-> FALSE, crash |-> FALSE, bad |-> FALSE,
             ran |-> now - startedAt[c]]
    BY <1>1 DEF Event
  <2>3. e \in Events
    BY <2>1, <2>2 DEF Events, Actions
  <2> QED BY <2>2, <2>3
<1>3. log' = Append(log, e) /\ UNCHANGED Nodux
  BY <1>1 DEF OOM, Emit
<1>4. Shapes'
  BY <1>2, <1>3, LogShapes DEF OOM, IInv, Shapes
<1>5. Truth'
  <2>1. \A d \in Containers : d # c =>
           run'[d] = run[d] /\ asked'[d] = asked[d] /\ oomed'[d] = oomed[d]
    BY DEF OOM, IInv, Shapes
  <2>2. run[c] = "up" /\ oomed'[c] /\ asked'[c] = asked[c]
    BY DEF OOM, IInv, Shapes
  <2>3. ~Over(e) /\ ~Sets("stop", e) /\ Sets("oom", e)
    BY <1>2 DEF Over, Sets
  <2> QED BY <1>2, <1>3, <2>1, <2>2, <2>3, EventTruth
<1> QED BY <1>3, <1>4, <1>5, NoduxStays DEF IInv

LEMMA Died ==
    ASSUME NEW c \in Containers, NEW bad \in Bad
    PROVE  IInv /\ Die(c, bad) => IInv'
<1> SUFFICES ASSUME IInv, Die(c, bad) PROVE IInv'
  OBVIOUS
<1>1. PICK e : e = [Event("die", c) EXCEPT !.bad = bad, !.asked = asked[c],
                                           !.oomed = oomed[c], !.ran = now - startedAt[c]]
  OBVIOUS
<1>2. asked[c] \in BOOLEAN /\ oomed[c] \in BOOLEAN /\ bad \in BOOLEAN
  BY DetectorAssumption DEF IInv, Shapes
<1>3. e \in Events /\ e.id = c /\ e.action = "die" /\ e.asked = asked[c] /\ e.oomed = oomed[c]
  <2>1. now \in Nat /\ startedAt[c] \in Int
    BY DEF IInv, Shapes
  <2>2. e = [action |-> "die", id |-> c, time |-> now, signal |-> "none",
             asked |-> asked[c], oomed |-> oomed[c], crash |-> FALSE, bad |-> bad,
             ran |-> now - startedAt[c]]
    BY <1>1 DEF Event
  <2>3. e \in Events
    BY <1>2, <2>1, <2>2 DEF Events, Actions
  <2> QED BY <2>2, <2>3
<1>4. log' = Append(log, e) /\ UNCHANGED Nodux
  BY <1>1 DEF Die, Emit
<1>5. Shapes'
  <2>1. now \in Int /\ startedAt[c] \in Int
    BY DEF IInv, Shapes
  <2>2. ran' \in [Containers -> Int] /\ fell' \in [Containers -> BOOLEAN]
    BY <2>1, <1>2 DEF Die, IInv, Shapes
  <2> QED BY <1>3, <1>4, <2>2, LogShapes DEF Die, IInv, Shapes
<1>6. Truth'
  <2>1. \A d \in Containers : d # c =>
           run'[d] = run[d] /\ asked'[d] = asked[d] /\ oomed'[d] = oomed[d]
    BY DEF Die, IInv, Shapes
  <2>2. run[c] = "up" /\ run'[c] = "down"
    BY DEF Die, IInv, Shapes
  <2> QED BY <1>3, <1>4, <2>1, <2>2, EventTruth
<1> QED BY <1>4, <1>5, <1>6, NoduxStays DEF IInv

LEMMA Destroyed == ASSUME NEW c \in Containers PROVE IInv /\ Destroy(c) => IInv'
<1> SUFFICES ASSUME IInv, Destroy(c) PROVE IInv'
  OBVIOUS
<1>1. PICK e : e = Event("destroy", c)
  OBVIOUS
<1>2. e \in Events /\ e.id = c /\ e.action = "destroy"
  BY <1>1, EventShape DEF Event, Actions
<1>3. log' = Append(log, e) /\ UNCHANGED Nodux
  BY <1>1 DEF Destroy, Emit
<1>4. Shapes'
  BY <1>2, <1>3, LogShapes DEF Destroy, IInv, Shapes
<1>5. Truth'
  <2>1. \A d \in Containers : d # c =>
           run'[d] = run[d] /\ asked'[d] = asked[d] /\ oomed'[d] = oomed[d]
    BY DEF Destroy, IInv, Shapes
  <2>2. run'[c] = "gone"
    BY DEF Destroy, IInv, Shapes
  <2> QED BY <1>2, <1>3, <2>1, <2>2, EventTruth
<1> QED BY <1>3, <1>4, <1>5, NoduxStays DEF IInv

LEMMA Worlds == IInv /\ World => IInv'
BY Created, Started, OutOfMemory, Destroyed, Killed, Died DEF World

(* The clock.                                                              *)
LEMMA Ticks == IInv /\ Tick => IInv'
<1> SUFFICES ASSUME IInv, Tick PROVE IInv'
  OBVIOUS
<1>1. /\ now \in Nat /\ now' \in Nat /\ now <= now'
      /\ UNCHANGED <<store, world, up, faults, pos, marks, loops, runs, lastAlert, hit, poll,
                     lastSeen, alerts, saved, past>>
  <2>1. now \in Nat
    BY DEF IInv, Shapes
  <2> QED BY <2>1 DEF Tick
<1>2. UNCHANGED <<run, asked, oomed, fell, startedAt, ran, log, up, pos, saved, stops, ooms,
                  firing, lastAlert, windows, hit, alerts, raised, muted, dropped, misled>>
  BY <1>1 DEF store, world, marks, loops, past
<1>3. Shapes' /\ Truth' /\ Marks' /\ HitRight'
  BY <1>1, <1>2 DEF IInv, Shapes, Truth, Marks, MarksOf, HitRight
<1>4. \A t \in 0..now : t \in 0..now'
  BY <1>1
<1>5. RaisedRight'
  BY <1>2, <1>4 DEF IInv, RaisedRight
<1>6. Memories'
  <2>1. [Keys -> 0..now] \subseteq [Keys -> 0..now']
    BY <1>4
  <2> QED BY <1>2, <2>1 DEF IInv, Memories, Remembered
<1>7. Reported'
  <2>1. \A i : Owed(i)' = Owed(i)
    BY <1>2 DEF Owed
  <2>2. \A i : Told(i)' <=> Told(i)
    BY <1>2, <2>1 DEF Told
  <2> QED BY <1>2, <2>1, <2>2 DEF IInv, Reported
<1>8. Windows'
  <2>1. \A k, p : Ends(k, p)' = Ends(k, p)
    BY <1>2 DEF Ends, Deploying, Of
  <2>2. ASSUME NEW w, NEW p \in 0..Len(log), WindowsOf(w, p)
        PROVE  w \in [WindowKeys -> Nat]
               /\ (Grace > 0 => \A k \in WindowKeys : Of(k) \cap misled = {} =>
                      /\ w[k] # 0 => w[k] \in Ends(k, p)
                      /\ \A t \in Ends(k, p) : t > now' => w[k] >= t)
    <3>1. ASSUME NEW k, NEW t \in Ends(k, p), t > now' PROVE t > now
      <4>1. PICK i \in 1..p : t = log[i].time + Grace
        BY DEF Ends
      <4>2. i \in 1..Len(log) /\ log \in Seq(Events)
        BY DEF IInv, Shapes
      <4>3. log[i].time \in Nat
        BY <4>2, EventIs DEF Events
      <4>4. Grace \in Nat
        BY DetectorAssumption
      <4>5. t \in Int
        BY <4>1, <4>3, <4>4
      <4>6. now \in Int /\ now' \in Int /\ now <= now'
        BY <1>1
      <4> QED BY <3>1, <4>5, <4>6
    <3> QED BY <2>2, <3>1 DEF WindowsOf
  <2>3. pos \in 0..Len(log) /\ saved.pos \in 0..Len(log)
    BY DEF IInv, Shapes
  <2>4. WindowsOf(windows, pos) /\ WindowsOf(saved.store.windows, saved.pos)
    BY DEF IInv, Windows
  <2> QED BY <1>2, <2>1, <2>2, <2>3, <2>4 DEF Windows, WindowsOf, Of
<1> QED BY <1>3, <1>5, <1>6, <1>7, <1>8 DEF IInv

-----------------------------------------------------------------------------
(* An event is handled: what all of them have in common.                   *)
LEMMA TurnIs ==
    ASSUME IInv, NEW action, Turn(action)
    PROVE  /\ up' /\ pos \in Nat /\ pos + 1 \in 1..Len(log) /\ pos' = pos + 1 /\ hit = NoHit
           /\ log[pos + 1] \in Events /\ log[pos + 1].action = action
           /\ log[pos + 1].id \in Containers
           /\ Ev = log[pos + 1] /\ saved.pos \in 0..pos
           /\ UNCHANGED <<now, log, run, asked, oomed, fell, startedAt, ran, saved, alerts,
                          dropped>>
<1>1. pos \in 0..Len(log) /\ Len(log) \in Nat /\ log \in Seq(Events) /\ saved.pos \in 0..pos
  BY DEF IInv, Shapes
<1>2. up' /\ pos < Len(log) /\ pos' = pos + 1 /\ hit = NoHit /\ log[pos + 1].action = action
  BY DEF Turn
<1>3. pos + 1 \in 1..Len(log) /\ pos \in Nat
  BY <1>1, <1>2
<1>4. log[pos + 1] \in Events
  BY <1>1, <1>3, EventIs
<1>5. log[pos + 1].id \in Containers
  BY <1>4 DEF Events
<1>6. UNCHANGED <<now, log, run, asked, oomed, fell, startedAt, ran, saved, alerts, dropped>>
  BY DEF Turn, world
<1> QED BY <1>1, <1>2, <1>3, <1>4, <1>5, <1>6 DEF Ev

LEMMA TurnKeeps ==
    ASSUME IInv, NEW action, Turn(action)
    PROVE  Shapes' /\ Truth'
<1>1. /\ pos \in Nat /\ pos + 1 \in 1..Len(log) /\ pos' = pos + 1 /\ saved.pos \in 0..pos
      /\ UNCHANGED <<now, log, run, asked, oomed, fell, startedAt, ran, saved>>
  BY TurnIs
<1>2. pos' \in 0..Len(log) /\ saved.pos \in 0..pos'
  BY <1>1
<1> QED BY <1>1, <1>2 DEF IInv, Shapes, Truth

LEMMA TurnMarks ==
    ASSUME IInv, NEW action, Turn(action), misled \subseteq misled',
           Tracks(stops', ooms', firing'),
           \A c \in Containers \ misled' :
              /\ stops'["exit"][c] <=> \/ Ev.id = c /\ Sets("stop", Ev)
                                       \/ stops["exit"][c] /\ ~(Ev.id = c /\ Over(Ev))
              /\ ooms'[c] <=> \/ Ev.id = c /\ Sets("oom", Ev)
                              \/ ooms[c] /\ ~(Ev.id = c /\ Over(Ev))
    PROVE  Marks'
<1>1. /\ pos \in Nat /\ pos' = pos + 1 /\ Ev = log[pos + 1]
      /\ UNCHANGED <<log, saved>>
  BY TurnIs
<1>2. MarksOf(pos, stops, ooms) /\ MarksOf(saved.pos, saved.stops, saved.ooms)
      /\ Tracks(saved.stops, saved.ooms, saved.firing)
  BY DEF IInv, Marks
<1>3. ASSUME NEW c \in Containers \ misled'
      PROVE  /\ stops'["exit"][c] <=> MarkedBy("stop", log, pos + 1, c)
             /\ ooms'[c] <=> MarkedBy("oom", log, pos + 1, c)
  <2>1. c \in Containers \ misled
    OBVIOUS
  <2>2. /\ stops["exit"][c] <=> MarkedBy("stop", log, pos, c)
        /\ ooms[c] <=> MarkedBy("oom", log, pos, c)
    BY <1>2, <2>1 DEF MarksOf
  <2>3. \A kind : MarkedBy(kind, log, pos + 1, c) <=>
           \/ Ev.id = c /\ Sets(kind, Ev)
           \/ MarkedBy(kind, log, pos, c) /\ ~(Ev.id = c /\ Over(Ev))
    BY <1>1, MarkGrows
  <2> QED BY <2>2, <2>3
<1>4. MarksOf(pos, stops, ooms)'
  BY <1>1, <1>3 DEF MarksOf
<1>5. MarksOf(saved.pos, saved.stops, saved.ooms)'
  BY <1>1, <1>2 DEF MarksOf
<1> QED BY <1>1, <1>2, <1>4, <1>5 DEF Marks, MarksOf, Tracks

LEMMA EndsGrow ==
    ASSUME NEW k, NEW p \in Nat
    PROVE  Ends(k, p + 1) =
              IF log[p + 1].id \in Of(k) /\ Deploying(p + 1)
              THEN Ends(k, p) \cup {log[p + 1].time + Grace} ELSE Ends(k, p)
<1>1. 1..p + 1 = 1..p \cup {p + 1}
  OBVIOUS
<1>2. CASE log[p + 1].id \in Of(k) /\ Deploying(p + 1)
  <2>1. {j \in 1..p + 1 : log[j].id \in Of(k) /\ Deploying(j)}
          = {j \in 1..p : log[j].id \in Of(k) /\ Deploying(j)} \cup {p + 1}
    BY <1>1, <1>2
  <2> QED BY <1>2, <2>1 DEF Ends
<1>3. CASE ~(log[p + 1].id \in Of(k) /\ Deploying(p + 1))
  <2>1. {j \in 1..p + 1 : log[j].id \in Of(k) /\ Deploying(j)}
          = {j \in 1..p : log[j].id \in Of(k) /\ Deploying(j)}
    BY <1>1, <1>3
  <2> QED BY <1>3, <2>1 DEF Ends
<1> QED BY <1>2, <1>3

LEMMA TurnWindows ==
    ASSUME IInv, NEW action, Turn(action), misled \subseteq misled', NEW opens \in BOOLEAN,
           windows' = IF opens /\ Grace > 0
                      THEN Deployed(Name[Ev.id], Project[Ev.id], Ev.time + Grace)
                      ELSE windows,
           Ev.id \notin misled' => (opens <=> Deploying(pos + 1))
    PROVE  Windows'
<1>1. /\ pos \in Nat /\ pos' = pos + 1 /\ Ev = log[pos + 1] /\ log[pos + 1] \in Events
      /\ log[pos + 1].id \in Containers /\ UNCHANGED <<now, log, saved>>
  BY TurnIs
<1>2. PICK e : e = log[pos + 1]
  OBVIOUS
<1>3. e.time \in Nat /\ e.id \in Containers /\ Grace \in Nat
  BY <1>1, <1>2, DetectorAssumption DEF Events
<1>4. PICK u : u = e.time + Grace
  OBVIOUS
<1>5. u \in Nat
  BY <1>3, <1>4
<1>6. WindowsOf(windows, pos) /\ WindowsOf(saved.store.windows, saved.pos)
  BY DEF IInv, Windows
<1>7. ASSUME NEW k \in WindowKeys
      PROVE  /\ windows'[k] \in Nat
             /\ windows'[k] = IF opens /\ Grace > 0 /\ e.id \in Of(k) /\ u > windows[k]
                              THEN u ELSE windows[k]
  <2>1. windows[k] \in Nat /\ k[2] # ""
    BY <1>6, DetectorAssumption DEF WindowsOf
  <2>2. e.id \in Of(k) <=> k \in {<<"container", Name[e.id]>>, <<"project", Project[e.id]>>}
    BY <1>3 DEF Of
  <2>3. CASE opens /\ Grace > 0
    <3>1. windows' = Deployed(Name[e.id], Project[e.id], u)
      BY <1>1, <1>2, <1>4, <2>3
    <3>2. windows'[k] = IF /\ k \in {<<"container", Name[e.id]>>, <<"project", Project[e.id]>>}
                           /\ k[2] # "" /\ u > windows[k]
                        THEN u ELSE windows[k]
      BY <3>1 DEF Deployed
    <3> QED BY <1>5, <2>1, <2>2, <2>3, <3>2
  <2>4. CASE ~(opens /\ Grace > 0)
    BY <2>1, <2>4
  <2> QED BY <2>3, <2>4
<1>8. windows' \in [WindowKeys -> Nat]
  <2>1. windows' = [k \in WindowKeys |-> windows'[k]]
    BY <1>6 DEF Deployed, WindowsOf
  <2> QED BY <1>7, <2>1
<1>9. ASSUME Grace > 0, NEW k \in WindowKeys, Of(k) \cap misled' = {}
      PROVE  /\ windows'[k] # 0 => windows'[k] \in Ends(k, pos + 1)
             /\ \A t \in Ends(k, pos + 1) : t > now => windows'[k] >= t
  <2>1. /\ windows[k] # 0 => windows[k] \in Ends(k, pos)
        /\ \A t \in Ends(k, pos) : t > now => windows[k] >= t
        /\ windows[k] \in Nat
    BY <1>6, <1>9 DEF WindowsOf
  <2>2. Ends(k, pos + 1) = IF e.id \in Of(k) /\ Deploying(pos + 1)
                           THEN Ends(k, pos) \cup {u} ELSE Ends(k, pos)
    BY <1>1, <1>2, <1>4, EndsGrow
  <2>3. CASE e.id \in Of(k) /\ Deploying(pos + 1)
    <3>1. opens
      BY <1>1, <1>2, <1>9, <2>3
    <3>2. Ends(k, pos + 1) = Ends(k, pos) \cup {u}
      BY <2>2, <2>3
    <3>3. windows'[k] = IF u > windows[k] THEN u ELSE windows[k]
      BY <1>7, <1>9, <2>3, <3>1
    <3>4. ASSUME NEW t \in Ends(k, pos) PROVE t \in Nat
      <4>1. PICK i \in 1..pos : t = log[i].time + Grace
        BY DEF Ends
      <4>2. i \in 1..Len(log) /\ log \in Seq(Events)
        BY DEF IInv, Shapes
      <4>3. log[i].time \in Nat
        BY <4>2, EventIs DEF Events
      <4> QED BY <1>3, <4>1, <4>3
    <3> QED BY <1>5, <2>1, <3>2, <3>3, <3>4
  <2>4. CASE ~(e.id \in Of(k) /\ Deploying(pos + 1))
    <3>1. Ends(k, pos + 1) = Ends(k, pos)
      BY <2>2, <2>4
    <3>2. windows'[k] = windows[k]
      <4>1. e.id \in Of(k) => ~opens
        BY <1>1, <1>2, <1>9, <2>4
      <4> QED BY <1>7, <4>1
    <3> QED BY <2>1, <3>1, <3>2
  <2> QED BY <2>3, <2>4
<1>10. \A k, p : Ends(k, p)' = Ends(k, p)
  BY <1>1 DEF Ends, Deploying, Of
<1>11. WindowsOf(windows, pos)'
  BY <1>1, <1>8, <1>9, <1>10 DEF WindowsOf, Of
<1>12. WindowsOf(saved.store.windows, saved.pos)'
  BY <1>1, <1>6, <1>10 DEF WindowsOf, Of
<1> QED BY <1>11, <1>12 DEF Windows, WindowsOf

-----------------------------------------------------------------------------
(* What an event means for the alerts.                                     *)
LEMMA ToldStays ==
    ASSUME NEW i, Told(i), UNCHANGED log, dropped \subseteq dropped', alerts \subseteq alerts',
           muted \subseteq muted', raised \subseteq raised'
    PROVE  Told(i)'
<1>1. Owed(i)' = Owed(i)
  BY DEF Owed
<1> QED BY <1>1 DEF Told

(* It raises none of the one-off alerts.                                   *)
LEMMA QuietTurn ==
    ASSUME IInv, NEW action, Turn(action), UNCHANGED <<lastAlert, raised, muted>>,
           misled \subseteq misled',
           hit' = NoHit \/ (hit'.i = pos + 1 /\ hit'.det = KindOf(action) /\ hit'.det # "none"),
           Owed(pos + 1) = "none" \/ Ev.id \in misled'
    PROVE  HitRight' /\ RaisedRight' /\ Memories' /\ Reported'
<1>1. /\ up' /\ pos \in Nat /\ pos + 1 \in 1..Len(log) /\ pos' = pos + 1 /\ hit = NoHit
      /\ log[pos + 1].action = action /\ Ev = log[pos + 1] /\ saved.pos \in 0..pos
      /\ UNCHANGED <<now, log, saved, alerts, dropped>>
  BY TurnIs
<1>2. HitRight'
  <2>1. saved.pos < pos + 1
    BY <1>1
  <2> QED BY <1>1, <2>1 DEF HitRight
<1>3. \A a \in raised : a.i \in 1..pos /\ a.i \in 1..pos + 1 /\ a.i <= pos + 1
  BY <1>1 DEF IInv, RaisedRight
<1>4. RaisedRight'
  BY <1>1, <1>3 DEF IInv, RaisedRight
<1>5. Memories'
  BY <1>1, <1>3 DEF IInv, Memories, Remembered
<1>6. Reported'
  <2> SUFFICES ASSUME NEW i \in 1..pos + 1, Owed(i) # "none", log[i].id \notin misled'
               PROVE  Told(i)'
    <3>1. \A i : Owed(i)' = Owed(i)
      BY <1>1 DEF Owed
    <3> QED BY <1>1, <3>1 DEF Reported
  <2>1. i # pos + 1
    BY <1>1
  <2>2. i \in 1..pos /\ hit.i # i
    BY <1>1, <2>1 DEF NoHit
  <2>3. Told(i)
    BY <2>2 DEF IInv, Reported
  <2> QED BY <1>1, <2>3, ToldStays
<1> QED BY <1>2, <1>4, <1>5, <1>6

(* It is a crash or a kill, which passes coolingDown or not.               *)
LEMMA LoudTurn ==
    ASSUME IInv, NEW action, Turn(action), NEW det \in {"exit", "oom"}, OneOff(det, Ev.id),
           UNCHANGED misled, det = KindOf(action),
           det = "exit" /\ Ev.id \notin misled => ~Ev.asked,
           Owed(pos + 1) \in {"none", det} \/ Ev.id \in misled
    PROVE  HitRight' /\ RaisedRight' /\ Memories' /\ Reported'
<1>1. /\ up' /\ pos \in Nat /\ pos + 1 \in 1..Len(log) /\ pos' = pos + 1 /\ hit = NoHit
      /\ log[pos + 1].action = action /\ Ev = log[pos + 1] /\ saved.pos \in 0..pos
      /\ log[pos + 1].id \in Containers
      /\ UNCHANGED <<now, log, saved, alerts, dropped>>
  BY TurnIs
<1>2. PICK c \in Containers : c = Ev.id
  BY <1>1
<1>3. PICK key \in Keys : key = <<det, Name[c]>>
  BY DEF Keys
<1>4. PICK alert : alert = [det |-> det, i |-> pos + 1, at |-> now]
  OBVIOUS
<1>5. alert.det = det /\ alert.i = pos + 1 /\ alert.at = now
  BY <1>4
<1>6. now \in Nat /\ Cooldown \in Nat /\ now \in 0..now
  <2>1. now \in Nat
    BY DEF IInv, Shapes
  <2>2. Cooldown \in Nat
    BY DetectorAssumption
  <2> QED BY <2>1, <2>2
<1>7. \A a \in raised : a.i \in 1..pos /\ a.i \in 1..pos + 1 /\ a.i <= pos + 1
                        /\ a.at \in 0..now
  BY <1>1 DEF IInv, RaisedRight
<1>8. Remembered(lastAlert, pos) /\ Remembered(saved.lastAlert, saved.pos)
  BY DEF IInv, Memories
<1>9. \A k \in Keys : Cooled[k] \in 0..now /\ (Cooled[k] # 0 => Cooled[k] = lastAlert[k])
  BY <1>6, <1>8 DEF Cooled, Remembered
<1>10. ASSUME NEW i \in 1..pos, Owed(i) # "none", log[i].id \notin misled
       PROVE  Told(i)
  <2>1. hit.i # i
    BY <1>1 DEF NoHit
  <2> QED BY <1>10, <2>1 DEF IInv, Reported
<1>11. \A i : Owed(i)' = Owed(i)
  BY <1>1 DEF Owed
<1>12. CASE Warm(lastAlert[key])
  <2>1. UNCHANGED <<hit, raised>> /\ muted' = muted \cup {alert} /\ lastAlert' = Cooled
    BY <1>2, <1>3, <1>4, <1>12 DEF OneOff
  <2>2. HitRight'
    BY <1>1, <2>1 DEF HitRight
  <2>3. RaisedRight'
    BY <1>1, <1>7, <2>1 DEF IInv, RaisedRight
  <2>4. Remembered(lastAlert, pos)'
    <3>1. lastAlert' \in [Keys -> 0..now]
      <4>1. lastAlert' = [k \in Keys |-> Cooled[k]]
        BY <2>1 DEF Cooled
      <4> QED BY <1>9, <4>1
    <3>2. \A k \in Keys : lastAlert'[k] # 0 => lastAlert'[k] = lastAlert[k] /\ lastAlert[k] # 0
      BY <1>9, <2>1
    <3> QED BY <1>1, <1>7, <1>8, <2>1, <3>1, <3>2 DEF Remembered
  <2>5. Memories'
    BY <1>1, <1>8, <2>1, <2>4 DEF Memories, Remembered
  <2>6. ASSUME NEW q, q = pos + 1, Owed(q) = det PROVE Told(q)'
    <3>1. lastAlert[key] # 0 /\ now - lastAlert[key] < Cooldown
      BY <1>12 DEF Warm
    <3>2. PICK a \in raised : a.det = key[1] /\ Name[log[a.i].id] = key[2] /\ a.at = lastAlert[key]
      BY <1>8, <3>1 DEF Remembered
    <3>3. a.det = det /\ Name[log[a.i].id] = Name[c]
      BY <1>3, <3>2
    <3>4. a.at <= now /\ now < a.at + Cooldown /\ a.i <= pos + 1
      BY <1>6, <1>7, <3>1, <3>2
    <3>5. alert \in muted' /\ a \in raised'
      BY <2>1
    <3>6. Owed(q)' = det /\ Name[log[q].id] = Name[c] /\ alert.i = q
      BY <1>1, <1>2, <1>5, <1>11, <2>6
    <3> QED BY <1>1, <1>5, <2>6, <3>3, <3>4, <3>5, <3>6 DEF Told
  <2>7. Reported'
    <3> SUFFICES ASSUME NEW i \in 1..pos + 1, Owed(i) # "none", log[i].id \notin misled
                 PROVE  Told(i)'
      BY <1>1, <1>11 DEF Reported
    <3>1. CASE i = pos + 1
      BY <1>1, <2>6, <3>1
    <3>2. CASE i # pos + 1
      <4>1. i \in 1..pos
        BY <1>1, <3>2
      <4> QED BY <1>1, <1>10, <2>1, <4>1, ToldStays
    <3> QED BY <3>1, <3>2
  <2> QED BY <2>2, <2>3, <2>5, <2>7
<1>13. CASE ~Warm(lastAlert[key])
  <2>1. /\ hit' = alert /\ raised' = raised \cup {alert} /\ muted' = muted
        /\ lastAlert' = [Cooled EXCEPT ![key] = IF Cooldown > 0 THEN now ELSE 0]
    BY <1>2, <1>3, <1>4, <1>13 DEF OneOff
  <2>2. HitRight'
    <3>1. saved.pos < pos + 1
      BY <1>1
    <3> QED BY <1>1, <1>5, <2>1, <3>1 DEF HitRight
  <2>3. RaisedRight'
    <3> SUFFICES ASSUME NEW a \in raised'
                 PROVE  /\ a.i \in 1..pos + 1 /\ a.at \in 0..now
                        /\ a.det = "exit" /\ log[a.i].id \notin misled => ~log[a.i].asked
      BY <1>1 DEF RaisedRight
    <3>1. CASE a \in raised
      BY <1>7, <3>1 DEF IInv, RaisedRight
    <3>2. CASE a = alert
      <4>1. a.i \in 1..pos + 1 /\ a.at \in 0..now
        BY <1>1, <1>5, <1>6, <3>2
      <4> QED BY <1>1, <1>5, <3>2, <4>1
    <3> QED BY <2>1, <3>1, <3>2
  <2>4. Remembered(lastAlert, pos)'
    <3> DEFINE new == IF Cooldown > 0 THEN now ELSE 0
    <3>1. new \in 0..now
      BY <1>6
    <3>2. \A k \in Keys : lastAlert'[k] = IF k = key THEN new ELSE Cooled[k]
      BY <2>1 DEF Cooled
    <3>3. lastAlert' \in [Keys -> 0..now]
      <4>1. lastAlert' = [k \in Keys |-> lastAlert'[k]]
        BY <2>1 DEF Cooled
      <4>2. \A k \in Keys : lastAlert'[k] \in 0..now
        BY <1>9, <3>1, <3>2
      <4> QED BY <4>1, <4>2
    <3>4. ASSUME NEW k \in Keys, lastAlert'[k] # 0
          PROVE  \E a \in raised' : a.det = k[1] /\ Name[log[a.i].id] = k[2]
                                    /\ a.at = lastAlert'[k] /\ a.i <= pos + 1
      <4>1. CASE k = key
        <5>1. lastAlert'[k] = now
          BY <3>2, <3>4, <4>1
        <5>2. alert \in raised' /\ alert.det = k[1] /\ Name[log[alert.i].id] = k[2]
          BY <1>1, <1>2, <1>3, <1>5, <2>1, <4>1
        <5>3. alert.i <= pos + 1
          BY <1>1, <1>5
        <5> QED BY <1>5, <5>1, <5>2, <5>3
      <4>2. CASE k # key
        <5>1. lastAlert'[k] = lastAlert[k] /\ lastAlert[k] # 0
          BY <1>9, <3>2, <3>4, <4>2
        <5>2. PICK a \in raised : a.det = k[1] /\ Name[log[a.i].id] = k[2] /\ a.at = lastAlert[k]
          BY <1>8, <5>1 DEF Remembered
        <5> QED BY <1>7, <2>1, <5>1, <5>2
      <4> QED BY <4>1, <4>2
    <3> HIDE DEF new
    <3> QED BY <1>1, <3>3, <3>4 DEF Remembered
  <2>5. Remembered(saved.lastAlert, saved.pos)'
    BY <1>1, <1>8, <2>1 DEF Remembered
  <2>6. Reported'
    <3> SUFFICES ASSUME NEW i \in 1..pos + 1, Owed(i) # "none", log[i].id \notin misled
                 PROVE  Told(i)' \/ hit'.i = i
      BY <1>1, <1>11 DEF Reported
    <3>1. CASE i = pos + 1
      BY <1>5, <2>1, <3>1
    <3>2. CASE i # pos + 1
      <4>1. i \in 1..pos
        BY <1>1, <3>2
      <4> QED BY <1>1, <1>10, <2>1, <4>1, ToldStays
    <3> QED BY <3>1, <3>2
  <2> QED BY <2>2, <2>3, <2>4, <2>5, <2>6 DEF Memories
<1> QED BY <1>12, <1>13

-----------------------------------------------------------------------------
(* The events, one by one.                                                 *)
LEMMA ObserveIs ==
    ASSUME Tracks(stops, ooms, firing), NEW c \in Containers, NEW stop \in BOOLEAN,
           Observe(c, stop)
    PROVE  /\ stops' \in [{"exit", "crashloop"} -> [Containers -> BOOLEAN]]
           /\ \A d \in Containers :
                 /\ stops'["exit"][d] = IF d = c THEN stop ELSE stops["exit"][d]
                 /\ stops'["crashloop"][d] = IF d = c THEN stop ELSE stops["crashloop"][d]
<1>1. stops \in [{"exit", "crashloop"} -> [Containers -> BOOLEAN]]
  BY DEF Tracks
<1>2. stops' = [d \in {"exit", "crashloop"} |-> [stops[d] EXCEPT ![c] = stop]]
  BY <1>1 DEF Observe
<1>3. ASSUME NEW d \in {"exit", "crashloop"}
      PROVE  [stops[d] EXCEPT ![c] = stop] \in [Containers -> BOOLEAN]
  <2>1. stops[d] \in [Containers -> BOOLEAN]
    BY <1>1
  <2> QED BY <2>1
<1>4. stops' \in [{"exit", "crashloop"} -> [Containers -> BOOLEAN]]
  BY <1>2, <1>3
<1>5. ASSUME NEW d \in Containers
      PROVE  /\ stops'["exit"][d] = IF d = c THEN stop ELSE stops["exit"][d]
             /\ stops'["crashloop"][d] = IF d = c THEN stop ELSE stops["crashloop"][d]
  <2>1. /\ stops'["exit"] = [stops["exit"] EXCEPT ![c] = stop]
        /\ stops'["crashloop"] = [stops["crashloop"] EXCEPT ![c] = stop]
    BY <1>2
  <2>2. stops["exit"] \in [Containers -> BOOLEAN] /\ stops["crashloop"] \in [Containers -> BOOLEAN]
    BY <1>1
  <2> QED BY <2>1, <2>2
<1> QED BY <1>4, <1>5

LEMMA OpenIs ==
    ASSUME NEW c, NEW t, OpenWindow(c, t)
    PROVE  windows' = IF TRUE /\ Grace > 0 THEN Deployed(Name[c], Project[c], t + Grace)
                      ELSE windows
BY DEF OpenWindow, Deploy, store

LEMMA ClosedIs ==
    ASSUME UNCHANGED store, NEW c, NEW t
    PROVE  windows' = IF FALSE /\ Grace > 0 THEN Deployed(Name[c], Project[c], t + Grace)
                      ELSE windows
BY DEF store

LEMMA Creates == IInv /\ OnCreate => IInv'
<1> SUFFICES ASSUME IInv, OnCreate PROVE IInv'
  OBVIOUS
<1>1. Turn("create")
  BY DEF OnCreate
<1>2. Shapes' /\ Truth'
  BY <1>1, TurnKeeps
<1>3. hit = NoHit /\ Ev = log[pos + 1] /\ Ev.action = "create"
  BY <1>1, TurnIs
<1>4. UNCHANGED <<stops, ooms, crashed, firing, lastAlert, hit, raised, muted, misled>>
  BY DEF OnCreate, marks, loops
<1>5. Marks'
  <2>1. ~Over(Ev) /\ ~Sets("stop", Ev) /\ ~Sets("oom", Ev)
    BY <1>3 DEF Over, Sets
  <2>2. Tracks(stops', ooms', firing')
    BY <1>4 DEF IInv, Marks, Tracks
  <2> QED BY <1>1, <1>4, <2>1, <2>2, TurnMarks
<1>6. Owed(pos + 1) = "none" /\ Deploying(pos + 1)
  BY <1>3 DEF Owed, Deploying
<1>7. HitRight' /\ RaisedRight' /\ Memories' /\ Reported'
  <2>1. hit' = NoHit
    BY <1>3, <1>4
  <2> QED BY <1>1, <1>4, <1>6, <2>1, QuietTurn
<1>8. Windows'
  <2>1. windows' = IF TRUE /\ Grace > 0
                   THEN Deployed(Name[Ev.id], Project[Ev.id], Ev.time + Grace) ELSE windows
    BY OpenIs DEF OnCreate
  <2> QED BY <1>1, <1>4, <1>6, <2>1, TurnWindows
<1> QED BY <1>2, <1>5, <1>7, <1>8 DEF IInv

LEMMA Destroys == IInv /\ OnDestroy => IInv'
<1> SUFFICES ASSUME IInv, OnDestroy PROVE IInv'
  OBVIOUS
<1>1. Turn("destroy") /\ Observe(Ev.id, FALSE)
  BY DEF OnDestroy
<1>2. Shapes' /\ Truth'
  BY <1>1, TurnKeeps
<1>3. hit = NoHit /\ Ev = log[pos + 1] /\ Ev.action = "destroy" /\ Ev.id \in Containers
  BY <1>1, TurnIs
<1>4. UNCHANGED <<lastAlert, hit, raised, muted, misled>>
      /\ ooms' = [ooms EXCEPT ![Ev.id] = FALSE] /\ firing' = [firing EXCEPT ![Ev.id] = FALSE]
  BY DEF OnDestroy, Forget
<1>5. Marks'
  <2>1. Over(Ev) /\ ~Sets("stop", Ev) /\ ~Sets("oom", Ev)
    BY <1>3 DEF Over, Sets
  <2>2. Tracks(stops, ooms, firing)
    BY DEF IInv, Marks
  <2>3. /\ stops' \in [{"exit", "crashloop"} -> [Containers -> BOOLEAN]]
        /\ \A d \in Containers : stops'["exit"][d] = IF d = Ev.id THEN FALSE ELSE stops["exit"][d]
    BY <1>1, <1>3, <2>2, ObserveIs
  <2>4. /\ ooms' \in [Containers -> BOOLEAN] /\ firing' \in [Containers -> BOOLEAN]
        /\ \A d \in Containers : ooms'[d] = IF d = Ev.id THEN FALSE ELSE ooms[d]
    BY <1>4, <2>2 DEF Tracks
  <2>5. Tracks(stops', ooms', firing')
    BY <2>3, <2>4 DEF Tracks
  <2> QED BY <1>1, <1>4, <2>1, <2>3, <2>4, <2>5, TurnMarks
<1>6. Owed(pos + 1) = "none" /\ Deploying(pos + 1)
  BY <1>3 DEF Owed, Deploying
<1>7. HitRight' /\ RaisedRight' /\ Memories' /\ Reported'
  <2>1. hit' = NoHit
    BY <1>3, <1>4
  <2> QED BY <1>1, <1>4, <1>6, <2>1, QuietTurn
<1>8. Windows'
  <2>1. windows' = IF TRUE /\ Grace > 0
                   THEN Deployed(Name[Ev.id], Project[Ev.id], Ev.time + Grace) ELSE windows
    BY OpenIs DEF OnDestroy
  <2> QED BY <1>1, <1>4, <1>6, <2>1, TurnWindows
<1> QED BY <1>2, <1>5, <1>7, <1>8 DEF IInv

LEMMA Starts == IInv /\ OnStart => IInv'
<1> SUFFICES ASSUME IInv, OnStart PROVE IInv'
  OBVIOUS
<1>1. Turn("start") /\ Observe(Ev.id, FALSE)
  BY DEF OnStart
<1>2. Shapes' /\ Truth'
  BY <1>1, TurnKeeps
<1>3. hit = NoHit /\ Ev = log[pos + 1] /\ Ev.action = "start" /\ Ev.id \in Containers
  BY <1>1, TurnIs
<1>4. UNCHANGED <<store, lastAlert, raised, muted, misled>>
      /\ ooms' = [ooms EXCEPT ![Ev.id] = FALSE]
  BY DEF OnStart
<1>5. PICK loop : firing' = [firing EXCEPT ![Ev.id] = @ \/ loop]
                  /\ hit' = IF loop THEN [det |-> "crashloop", i |-> pos + 1, at |-> now]
                            ELSE NoHit
  BY DEF OnStart
<1>6. Marks'
  <2>1. Over(Ev) /\ ~Sets("stop", Ev) /\ ~Sets("oom", Ev)
    BY <1>3 DEF Over, Sets
  <2>2. Tracks(stops, ooms, firing)
    BY DEF IInv, Marks
  <2>3. /\ stops' \in [{"exit", "crashloop"} -> [Containers -> BOOLEAN]]
        /\ \A d \in Containers : stops'["exit"][d] = IF d = Ev.id THEN FALSE ELSE stops["exit"][d]
    BY <1>1, <1>3, <2>2, ObserveIs
  <2>4. /\ ooms' \in [Containers -> BOOLEAN]
        /\ \A d \in Containers : ooms'[d] = IF d = Ev.id THEN FALSE ELSE ooms[d]
    BY <1>4, <2>2 DEF Tracks
  <2>5. firing' \in [Containers -> BOOLEAN]
    <3>1. (firing[Ev.id] \/ loop) \in BOOLEAN
      OBVIOUS
    <3> QED BY <1>5, <2>2, <3>1 DEF Tracks
  <2>6. Tracks(stops', ooms', firing')
    BY <2>3, <2>4, <2>5 DEF Tracks
  <2> QED BY <1>1, <1>4, <2>1, <2>3, <2>4, <2>6, TurnMarks
<1>7. Owed(pos + 1) = "none" /\ ~Deploying(pos + 1)
  BY <1>3 DEF Owed, Deploying
<1>8. HitRight' /\ RaisedRight' /\ Memories' /\ Reported'
  <2>1. hit' = NoHit \/ (hit'.i = pos + 1 /\ hit'.det = KindOf("start")
                       /\ hit'.det # "none")
    BY <1>5 DEF KindOf
  <2> QED BY <1>1, <1>4, <1>7, <2>1, QuietTurn
<1>9. Windows'
  <2>1. windows' = IF FALSE /\ Grace > 0
                   THEN Deployed(Name[Ev.id], Project[Ev.id], Ev.time + Grace) ELSE windows
    BY <1>4, ClosedIs
  <2> QED BY <1>1, <1>4, <1>7, <2>1, TurnWindows
<1> QED BY <1>2, <1>6, <1>8, <1>9 DEF IInv

LEMMA Kills == IInv /\ OnKill => IInv'
<1> SUFFICES ASSUME IInv, OnKill PROVE IInv'
  OBVIOUS
<1>1. Turn("kill")
  BY DEF OnKill
<1>2. Shapes' /\ Truth'
  BY <1>1, TurnKeeps
<1>3. /\ hit = NoHit /\ Ev = log[pos + 1] /\ Ev.action = "kill" /\ Ev.id \in Containers
      /\ Ev \in Events
  BY <1>1, TurnIs
<1>4. PICK c \in Containers : c = Ev.id
  BY <1>3
<1>5. PICK seen \in Inspects(c) :
        LET stop == IsStopRequest(Ev.signal, IF seen THEN StopSignal[c] ELSE "unknown")
        IN /\ IF stop THEN Observe(c, TRUE) /\ OpenWindow(c, Ev.time)
              ELSE UNCHANGED <<stops, store>>
           /\ misled' = IF ~stop /\ Ev.signal = StopSignal[c] THEN misled \cup {c} ELSE misled
  BY <1>4 DEF OnKill
<1>6. PICK stop \in BOOLEAN :
        stop = IsStopRequest(Ev.signal, IF seen THEN StopSignal[c] ELSE "unknown")
  BY DEF IsStopRequest
<1>7. /\ IF stop THEN Observe(c, TRUE) /\ OpenWindow(c, Ev.time) ELSE UNCHANGED <<stops, store>>
      /\ misled' = IF ~stop /\ Ev.signal = StopSignal[c] THEN misled \cup {c} ELSE misled
  BY <1>5, <1>6
<1>8. UNCHANGED <<ooms, crashed, firing, lastAlert, hit, raised, muted>> /\ misled \subseteq misled'
  BY <1>7 DEF OnKill, loops
<1>9. c \notin misled' => (stop <=> Ev.signal \in {"term", StopSignal[c]})
  <2>1. Ev.signal # "unknown"
    BY <1>3, DetectorAssumption DEF Events
  <2> QED BY <1>6, <1>7, <2>1 DEF IsStopRequest
<1>10. Marks'
  <2>1. ~Over(Ev) /\ (Sets("stop", Ev) <=> Ev.signal \in {"term", StopSignal[c]})
        /\ ~Sets("oom", Ev)
    BY <1>3, <1>4 DEF Over, Sets
  <2>2. Tracks(stops, ooms, firing)
    BY DEF IInv, Marks
  <2>3. /\ stops' \in [{"exit", "crashloop"} -> [Containers -> BOOLEAN]]
        /\ \A d \in Containers : stops'["exit"][d] <=> (d = c /\ stop) \/ stops["exit"][d]
    <3>1. CASE stop
      BY <1>7, <2>2, <3>1, ObserveIs
    <3>2. CASE ~stop
      BY <1>7, <2>2, <3>2 DEF Tracks
    <3> QED BY <3>1, <3>2
  <2>4. Tracks(stops', ooms', firing')
    BY <1>8, <2>2, <2>3 DEF Tracks
  <2> QED BY <1>1, <1>4, <1>8, <1>9, <2>1, <2>3, <2>4, TurnMarks
<1>11. Owed(pos + 1) = "none" /\ (Deploying(pos + 1) <=> Ev.signal \in {"term", StopSignal[c]})
  BY <1>3, <1>4 DEF Owed, Deploying
<1>12. HitRight' /\ RaisedRight' /\ Memories' /\ Reported'
  <2>1. hit' = NoHit
    BY <1>3, <1>8
  <2> QED BY <1>1, <1>8, <1>11, <2>1, QuietTurn
<1>13. Windows'
  <2>1. windows' = IF stop /\ Grace > 0
                   THEN Deployed(Name[Ev.id], Project[Ev.id], Ev.time + Grace) ELSE windows
    <3>1. CASE stop
      BY <1>4, <1>7, <3>1, OpenIs
    <3>2. CASE ~stop
      BY <1>7, <3>2 DEF store
    <3> QED BY <3>1, <3>2
  <2> QED BY <1>1, <1>4, <1>8, <1>9, <1>11, <2>1, TurnWindows
<1> QED BY <1>2, <1>10, <1>12, <1>13 DEF IInv

LEMMA Ooms == IInv /\ OnOOM => IInv'
<1> SUFFICES ASSUME IInv, OnOOM PROVE IInv'
  OBVIOUS
<1>1. Turn("oom")
  BY DEF OnOOM
<1>2. Shapes' /\ Truth'
  BY <1>1, TurnKeeps
<1>3. hit = NoHit /\ Ev = log[pos + 1] /\ Ev.action = "oom" /\ Ev.id \in Containers
  BY <1>1, TurnIs
<1>4. UNCHANGED <<store, stops, crashed, firing, misled>> /\ ooms' = [ooms EXCEPT ![Ev.id] = TRUE]
  BY DEF OnOOM, loops
<1>5. Marks'
  <2>1. ~Over(Ev) /\ ~Sets("stop", Ev) /\ Sets("oom", Ev)
    BY <1>3 DEF Over, Sets
  <2>2. Tracks(stops, ooms, firing)
    BY DEF IInv, Marks
  <2>3. /\ ooms' \in [Containers -> BOOLEAN]
        /\ \A d \in Containers : ooms'[d] = IF d = Ev.id THEN TRUE ELSE ooms[d]
    BY <1>4, <2>2 DEF Tracks
  <2>4. Tracks(stops', ooms', firing')
    BY <1>4, <2>2, <2>3 DEF Tracks
  <2> QED BY <1>1, <1>4, <2>1, <2>3, <2>4, TurnMarks
<1>6. Owed(pos + 1) = (IF SkipOOM THEN "oom" ELSE "none") /\ ~Deploying(pos + 1)
  BY <1>3 DEF Owed, Deploying
<1>7. HitRight' /\ RaisedRight' /\ Memories' /\ Reported'
  <2>1. CASE SkipOOM
    <3>1. OneOff("oom", Ev.id)
      BY <2>1 DEF OnOOM
    <3>2. "oom" = KindOf("oom") /\ Owed(pos + 1) = "oom"
      BY <1>6, <2>1 DEF KindOf
    <3> QED BY <1>1, <1>4, <3>1, <3>2, LoudTurn
  <2>2. CASE ~SkipOOM
    <3>1. UNCHANGED <<hit, raised, muted, lastAlert>>
      BY <2>2 DEF OnOOM
    <3>2. Owed(pos + 1) = "none" /\ hit' = NoHit
      BY <1>3, <1>6, <2>2, <3>1
    <3> QED BY <1>1, <1>4, <3>1, <3>2, QuietTurn
  <2> QED BY <2>1, <2>2
<1>8. Windows'
  <2>1. windows' = IF FALSE /\ Grace > 0
                   THEN Deployed(Name[Ev.id], Project[Ev.id], Ev.time + Grace) ELSE windows
    BY <1>4, ClosedIs
  <2> QED BY <1>1, <1>4, <1>6, <2>1, TurnWindows
<1> QED BY <1>2, <1>5, <1>7, <1>8 DEF IInv

LEMMA Dies == IInv /\ OnDie => IInv'
<1> SUFFICES ASSUME IInv, OnDie PROVE IInv'
  OBVIOUS
<1>1. Turn("die")
  BY DEF OnDie
<1>2. Shapes' /\ Truth'
  BY <1>1, TurnKeeps
<1>3. /\ hit = NoHit /\ Ev = log[pos + 1] /\ Ev.action = "die" /\ Ev.id \in Containers
      /\ pos \in Nat /\ pos + 1 \in 1..Len(log)
  BY <1>1, TurnIs
<1>4. UNCHANGED <<store, stops, ooms, firing, misled>>
  BY DEF OnDie, loops
<1>5. Marks'
  <2>1. ~Over(Ev) /\ ~Sets("stop", Ev) /\ ~Sets("oom", Ev)
    BY <1>3 DEF Over, Sets
  <2>2. Tracks(stops', ooms', firing')
    BY <1>4 DEF IInv, Marks, Tracks
  <2> QED BY <1>1, <1>4, <2>1, <2>2, TurnMarks
<1>6. ~Deploying(pos + 1)
  BY <1>3 DEF Deploying
<1>7. Owed(pos + 1) = IF ~Ev.asked /\ Ev.bad /\ ~(SkipOOM /\ Ev.oomed) THEN "exit" ELSE "none"
  BY <1>3 DEF Owed
<1>8. Ev.id \notin misled => /\ stops["exit"][Ev.id] <=> Ev.asked
                             /\ ooms[Ev.id] <=> Ev.oomed
  <2> SUFFICES ASSUME Ev.id \notin misled
               PROVE  (stops["exit"][Ev.id] <=> Ev.asked) /\ (ooms[Ev.id] <=> Ev.oomed)
    OBVIOUS
  <2>1. /\ stops["exit"][Ev.id] <=> MarkedBy("stop", log, pos, Ev.id)
        /\ ooms[Ev.id] <=> MarkedBy("oom", log, pos, Ev.id)
    BY <1>3 DEF IInv, Marks, MarksOf
  <2>2. (pos + 1) - 1 = pos
    BY <1>3
  <2>3. PICK q \in 1..Len(log) : q = pos + 1
    BY <1>3
  <2>4. /\ log[q].asked <=> MarkedBy("stop", log, q - 1, log[q].id)
        /\ log[q].oomed <=> MarkedBy("oom", log, q - 1, log[q].id)
    BY <1>3, <2>3 DEF IInv, Truth
  <2> QED BY <1>3, <2>1, <2>2, <2>3, <2>4
<1>9. HitRight' /\ RaisedRight' /\ Memories' /\ Reported'
  <2>1. CASE stops["exit"][Ev.id] \/ (SkipOOM /\ ooms[Ev.id]) \/ ~Ev.bad
    <3>1. UNCHANGED <<hit, raised, muted, lastAlert>>
      BY <2>1 DEF OnDie
    <3>2. Owed(pos + 1) = "none" \/ Ev.id \in misled'
      BY <1>4, <1>7, <1>8, <2>1
    <3> QED BY <1>1, <1>3, <1>4, <3>1, <3>2, QuietTurn
  <2>2. CASE ~(stops["exit"][Ev.id] \/ (SkipOOM /\ ooms[Ev.id]) \/ ~Ev.bad)
    <3>1. OneOff("exit", Ev.id)
      BY <2>2 DEF OnDie
    <3>2. "exit" = KindOf("die") /\ Owed(pos + 1) \in {"none", "exit"}
      BY <1>7 DEF KindOf
    <3>3. Ev.id \notin misled => ~Ev.asked
      BY <1>8, <2>2
    <3> QED BY <1>1, <1>4, <3>1, <3>2, <3>3, LoudTurn
  <2> QED BY <2>1, <2>2
<1>10. Windows'
  <2>1. windows' = IF FALSE /\ Grace > 0
                   THEN Deployed(Name[Ev.id], Project[Ev.id], Ev.time + Grace) ELSE windows
    BY <1>4, ClosedIs
  <2> QED BY <1>1, <1>4, <1>6, <2>1, TurnWindows
<1> QED BY <1>2, <1>5, <1>9, <1>10 DEF IInv

-----------------------------------------------------------------------------
(* The other steps of nodux.                                               *)
LEMMA Unmoved ==
    ASSUME IInv, UNCHANGED <<now, log, run, asked, oomed, fell, startedAt, ran, pos, saved>>
    PROVE  Shapes' /\ Truth'
BY DEF IInv, Shapes, Truth

(* A step that does not concern the exit and oom detectors.                *)
LEMMA QuietStep ==
    ASSUME IInv, UNCHANGED <<now, log, run, asked, oomed, fell, startedAt, ran, up, pos, saved,
                             ooms, lastAlert, hit, alerts, raised, muted, dropped, misled,
                             windows>>,
           stops' \in [{"exit", "crashloop"} -> [Containers -> BOOLEAN]],
           stops'["exit"] = stops["exit"], firing' \in [Containers -> BOOLEAN]
    PROVE  IInv'
<1>1. Shapes' /\ Truth'
  BY Unmoved
<1>2. Marks'
  BY DEF IInv, Marks, MarksOf, Tracks
<1>3. HitRight' /\ RaisedRight' /\ Memories'
  BY DEF IInv, HitRight, RaisedRight, Memories, Remembered
<1>4. Reported'
  <2>1. \A i : Owed(i)' = Owed(i)
    BY DEF Owed
  <2>2. \A i : Told(i)' <=> Told(i)
    BY <2>1 DEF Told
  <2> QED BY <2>1, <2>2 DEF IInv, Reported
<1>5. Windows'
  <2>1. \A k, p : Ends(k, p)' = Ends(k, p)
    BY DEF Ends, Deploying, Of
  <2> QED BY <2>1 DEF IInv, Windows, WindowsOf, Of
<1> QED BY <1>1, <1>2, <1>3, <1>4, <1>5 DEF IInv

LEMMA Looks == ASSUME NEW c \in Containers PROVE IInv /\ PollLook(c) => IInv'
<1> SUFFICES ASSUME IInv, PollLook(c) PROVE IInv'
  OBVIOUS
<1>1. Tracks(stops, ooms, firing)
  BY DEF IInv, Marks
<1>2. UNCHANGED <<now, log, run, asked, oomed, fell, startedAt, ran, up, pos, saved, stops, ooms,
                  firing, lastAlert, hit, alerts, raised, muted, dropped, misled, windows>>
  BY DEF PollLook, store, world, marks, loops, past
<1> QED BY <1>1, <1>2, QuietStep DEF Tracks

LEMMA Checks == IInv /\ Check => IInv'
<1> SUFFICES ASSUME IInv, Check PROVE IInv'
  OBVIOUS
<1>1. Tracks(stops, ooms, firing)
  BY DEF IInv, Marks
<1>2. UNCHANGED <<now, log, run, asked, oomed, fell, startedAt, ran, up, pos, saved, stops, ooms,
                  lastAlert, hit, alerts, raised, muted, dropped, misled, windows>>
  BY DEF Check, store, world, marks, past
<1>3. PICK c, open : firing' = [firing EXCEPT ![c] = open] /\ open \in BOOLEAN
  BY DEF Check, StillLooping
<1>4. firing' \in [Containers -> BOOLEAN]
  BY <1>1, <1>3 DEF Tracks
<1> QED BY <1>1, <1>2, <1>4, QuietStep DEF Tracks

LEMMA Forgets == ASSUME NEW c \in Containers PROVE IInv /\ ForgetGone(c) => IInv'
<1> SUFFICES ASSUME IInv, ForgetGone(c) PROVE IInv'
  OBVIOUS
<1>1. Tracks(stops, ooms, firing)
  BY DEF IInv, Marks
<1>2. UNCHANGED <<now, log, run, asked, oomed, fell, startedAt, ran, up, pos, saved, ooms,
                  lastAlert, hit, alerts, raised, muted, dropped, misled, windows>>
  BY DEF ForgetGone, store, world, past
<1>3. /\ stops' = [stops EXCEPT !["crashloop"][c] = FALSE]
      /\ firing' = [firing EXCEPT ![c] = FALSE]
  BY DEF ForgetGone, Forget
<1>4. firing' \in [Containers -> BOOLEAN]
  BY <1>1, <1>3 DEF Tracks
<1>5. /\ stops' \in [{"exit", "crashloop"} -> [Containers -> BOOLEAN]]
      /\ stops'["exit"] = stops["exit"]
  BY <1>1, <1>3 DEF Tracks
<1> QED BY <1>2, <1>4, <1>5, QuietStep

LEMMA Stutters == IInv /\ UNCHANGED vars => IInv'
<1> SUFFICES ASSUME IInv, UNCHANGED vars PROVE IInv'
  OBVIOUS
<1>1. Tracks(stops, ooms, firing)
  BY DEF IInv, Marks
<1>2. UNCHANGED <<now, log, run, asked, oomed, fell, startedAt, ran, up, pos, saved, stops, ooms,
                  firing, lastAlert, hit, alerts, raised, muted, dropped, misled, windows>>
  BY DEF vars, store, world, marks, loops, past
<1> QED BY <1>1, <1>2, QuietStep DEF Tracks

(* Windows that are over say nothing, so nothing is lost with them.        *)
LEMMA PruneKeeps ==
    ASSUME Shapes, NEW w, NEW p \in 0..Len(log), WindowsOf(w, p)
    PROVE  WindowsOf([k \in WindowKeys |-> IF now < w[k] THEN w[k] ELSE 0], p)
<1>1. PICK v : v = [k \in WindowKeys |-> IF now < w[k] THEN w[k] ELSE 0]
  OBVIOUS
<1>2. \A k \in WindowKeys : w[k] \in Nat /\ v[k] = IF now < w[k] THEN w[k] ELSE 0
  BY <1>1 DEF WindowsOf
<1>3. v \in [WindowKeys -> Nat]
  BY <1>1, <1>2
<1>4. ASSUME NEW k, NEW t \in Ends(k, p) PROVE t \in Nat
  <2>1. PICK i \in 1..p : t = log[i].time + Grace
    BY DEF Ends
  <2>2. i \in 1..Len(log) /\ log \in Seq(Events)
    BY DEF Shapes
  <2>3. log[i].time \in Nat
    BY <2>2, EventIs DEF Events
  <2>4. Grace \in Nat
    BY DetectorAssumption
  <2> QED BY <2>1, <2>3, <2>4
<1>5. ASSUME Grace > 0, NEW k \in WindowKeys, Of(k) \cap misled = {}
      PROVE  /\ v[k] # 0 => v[k] \in Ends(k, p)
             /\ \A t \in Ends(k, p) : t > now => v[k] >= t
  <2>1. /\ w[k] # 0 => w[k] \in Ends(k, p)
        /\ \A t \in Ends(k, p) : t > now => w[k] >= t
    BY <1>5 DEF WindowsOf
  <2>2. now \in Nat
    BY DEF Shapes
  <2>3. v[k] # 0 => v[k] \in Ends(k, p)
    BY <1>2, <2>1
  <2>4. ASSUME NEW t \in Ends(k, p), t > now PROVE v[k] >= t
    <3>1. t \in Nat /\ w[k] >= t /\ w[k] \in Nat
      BY <1>2, <1>4, <2>1, <2>4
    <3> QED BY <1>2, <2>2, <2>4, <3>1
  <2> QED BY <2>3, <2>4
<1>6. WindowsOf(v, p)
  BY <1>3, <1>5 DEF WindowsOf
<1> QED BY <1>1, <1>6

LEMMA Reports == IInv /\ EventReport => IInv'
<1> SUFFICES ASSUME IInv, EventReport PROVE IInv'
  OBVIOUS
<1>1. /\ up /\ hit # NoHit /\ hit' = NoHit /\ PruneStore
      /\ UNCHANGED <<now, log, run, asked, oomed, fell, startedAt, ran, up, pos, saved, stops,
                     ooms, firing, lastAlert, raised, muted, dropped, misled>>
  BY DEF EventReport, world, marks, loops, past
<1>2. alerts \subseteq alerts' /\ \E a \in alerts' : a.i = hit.i /\ a.det = hit.det
  <2>1. PICK r, s : alerts' = alerts \cup
           {[det |-> hit.det, i |-> hit.i, lastRun |-> r, silenced |-> s]}
    BY Zenon DEF EventReport
  <2>2. PICK a : a = [det |-> hit.det, i |-> hit.i, lastRun |-> r, silenced |-> s]
    OBVIOUS
  <2> QED BY <2>1, <2>2
<1>3. Shapes' /\ Truth'
  BY <1>1, Unmoved
<1>4. Marks'
  BY <1>1 DEF IInv, Marks, MarksOf, Tracks
<1>5. HitRight' /\ RaisedRight' /\ Memories'
  BY <1>1 DEF IInv, HitRight, RaisedRight, Memories, Remembered
<1>6. Reported'
  <2>1. \A i : Owed(i)' = Owed(i)
    BY <1>1 DEF Owed
  <2> SUFFICES ASSUME NEW i \in 1..pos, Owed(i) # "none", log[i].id \notin misled
               PROVE  Told(i)'
    BY <1>1, <2>1 DEF Reported
  <2>2. CASE Told(i)
    BY <1>1, <1>2, <2>2, ToldStays
  <2>3. CASE hit.i = i
    <3>1. hit.det = KindOf(log[i].action)
      BY <1>1, <2>3 DEF IInv, HitRight
    <3>2. Owed(i) = KindOf(log[i].action)
      BY DEF Owed, KindOf
    <3> QED BY <1>2, <2>1, <2>3, <3>1, <3>2 DEF Told
  <2> QED BY <2>2, <2>3 DEF IInv, Reported
<1>7. Windows'
  <2>1. WindowsOf(windows, pos) /\ WindowsOf(saved.store.windows, saved.pos) /\ Shapes
        /\ pos \in 0..Len(log)
    BY DEF IInv, Windows, Shapes
  <2>2. windows' = [k \in WindowKeys |-> IF now < windows[k] THEN windows[k] ELSE 0]
    BY <1>1 DEF PruneStore, Until
  <2>3. WindowsOf([k \in WindowKeys |-> IF now < windows[k] THEN windows[k] ELSE 0], pos)
    BY <2>1, PruneKeeps
  <2>4. PICK w : w = windows' /\ WindowsOf(w, pos)
    BY <2>2, <2>3
  <2>5. \A k, p : Ends(k, p)' = Ends(k, p)
    BY <1>1 DEF Ends, Deploying, Of
  <2> QED BY <1>1, <2>1, <2>4, <2>5 DEF Windows, WindowsOf, Of
<1> QED BY <1>3, <1>4, <1>5, <1>6, <1>7 DEF IInv

(* The state file says what memory says now.                               *)
LEMMA Saves == IInv /\ Save => IInv'
<1> SUFFICES ASSUME IInv, Save PROVE IInv'
  OBVIOUS
<1>1. /\ hit = NoHit /\ saved' = Memory
      /\ UNCHANGED <<now, log, run, asked, oomed, fell, startedAt, ran, up, pos, stops, ooms,
                     firing, lastAlert, hit, alerts, raised, muted, dropped, misled, windows>>
  BY DEF Save, store, world, marks, loops, past
<1>2. /\ saved'.pos = pos /\ saved'.stops = stops /\ saved'.ooms = ooms
      /\ saved'.firing = firing /\ saved'.lastAlert = lastAlert
      /\ saved'.store.windows = [k \in WindowKeys |-> IF now < windows[k] THEN windows[k] ELSE 0]
  BY <1>1 DEF Memory, StoreSaved, Until
<1>3. pos \in 0..pos
  BY DEF IInv, Shapes
<1>4. Shapes' /\ Truth'
  BY <1>1, <1>2, <1>3 DEF IInv, Shapes, Truth
<1>5. Marks'
  BY <1>1, <1>2 DEF IInv, Marks, MarksOf, Tracks
<1>6. HitRight' /\ RaisedRight' /\ Memories'
  BY <1>1, <1>2 DEF IInv, HitRight, RaisedRight, Memories, Remembered
<1>7. Reported'
  <2>1. \A i : Owed(i)' = Owed(i)
    BY <1>1 DEF Owed
  <2>2. \A i : Told(i)' <=> Told(i)
    BY <1>1, <2>1 DEF Told
  <2> QED BY <1>1, <2>1, <2>2 DEF IInv, Reported
<1>8. Windows'
  <2>1. WindowsOf(windows, pos) /\ Shapes /\ pos \in 0..Len(log)
    BY DEF IInv, Windows, Shapes
  <2>2. PICK w : w = saved'.store.windows /\ WindowsOf(w, pos)
    <3>1. WindowsOf([k \in WindowKeys |-> IF now < windows[k] THEN windows[k] ELSE 0], pos)
      BY <2>1, PruneKeeps
    <3> QED BY <1>2, <3>1
  <2>3. \A k, p : Ends(k, p)' = Ends(k, p)
    BY <1>1 DEF Ends, Deploying, Of
  <2> QED BY <1>1, <1>2, <2>1, <2>2, <2>3 DEF Windows, WindowsOf, Of
<1> QED BY <1>4, <1>5, <1>6, <1>7, <1>8 DEF IInv

(* A crash goes back to what the state file says, and whatever it strikes  *)
(* out is about events that come again.                                    *)
LEMMA Crashes == IInv /\ Crash => IInv'
<1> SUFFICES ASSUME IInv, Crash PROVE IInv'
  OBVIOUS
<1>1. UNCHANGED <<now, log, run, asked, oomed, fell, startedAt, ran, saved, misled>>
  BY DEF Crash, world
<1>2. /\ pos' = saved.pos /\ stops' = saved.stops /\ ooms' = saved.ooms
      /\ firing' = saved.firing /\ lastAlert' = saved.lastAlert
      /\ windows' = saved.store.windows /\ hit' = NoHit
      /\ raised' = Known(raised) /\ muted' = Known(muted)
  BY DEF Crash, RestoreMarks
<1>3. PICK lost \in SUBSET Known(alerts) :
        alerts' = Known(alerts) \ lost /\ dropped' = dropped \cup {a.i : a \in lost}
  BY DEF Crash
<1>4. /\ pos \in Nat /\ saved.pos \in Nat /\ saved.pos <= pos /\ pos <= Len(log)
      /\ Len(log) \in Nat /\ saved.pos \in 0..saved.pos
  BY DEF IInv, Shapes
<1>5. Shapes' /\ Truth'
  <2>1. saved.pos \in 0..Len(log)
    BY <1>4
  <2> QED BY <1>1, <1>2, <1>4, <2>1 DEF IInv, Shapes, Truth
<1>6. Marks'
  BY <1>1, <1>2 DEF IInv, Marks, MarksOf, Tracks
<1>7. HitRight'
  BY <1>2 DEF HitRight
<1>8. RaisedRight'
  <2> SUFFICES ASSUME NEW a \in raised, a.i <= saved.pos
               PROVE  /\ a.i \in 1..saved.pos /\ a.at \in 0..now
                      /\ a.det = "exit" /\ log[a.i].id \notin misled => ~log[a.i].asked
    BY <1>1, <1>2 DEF RaisedRight, Known
  <2>1. /\ a.i \in 1..pos /\ a.at \in 0..now
        /\ a.det = "exit" /\ log[a.i].id \notin misled => ~log[a.i].asked
    BY DEF IInv, RaisedRight
  <2> QED BY <1>4, <2>1
<1>9. Memories'
  <2>1. Remembered(saved.lastAlert, saved.pos)
    BY DEF IInv, Memories
  <2>2. \A a \in raised : a.i <= saved.pos => a \in raised'
    BY <1>2 DEF Known
  <2> QED BY <1>1, <1>2, <2>1, <2>2 DEF Memories, Remembered
<1>10. Reported'
  <2>1. \A i : Owed(i)' = Owed(i)
    BY <1>1 DEF Owed
  <2> SUFFICES ASSUME NEW i \in 1..saved.pos, Owed(i) # "none", log[i].id \notin misled
               PROVE  Told(i)'
    BY <1>1, <1>2, <2>1 DEF Reported
  <2>2. i \in 1..pos /\ i \in Nat /\ i <= saved.pos /\ i # 0
    BY <1>4
  <2>3. hit.i # i
    <3>1. CASE hit = NoHit
      BY <2>2, <3>1 DEF NoHit
    <3>2. CASE hit # NoHit
      <4>1. hit.i = pos /\ saved.pos < pos
        BY <3>2 DEF IInv, HitRight
      <4> QED BY <1>4, <2>2, <4>1
    <3> QED BY <3>1, <3>2
  <2>4. Told(i)
    BY <2>2, <2>3 DEF IInv, Reported
  <2>5. CASE i \in dropped
    BY <1>3, <2>5 DEF Told
  <2>6. ASSUME NEW a \in alerts, a.i = i, a.det = Owed(i) PROVE Told(i)'
    <3>1. a \in Known(alerts)
      BY <2>2, <2>6 DEF Known
    <3>2. CASE a \in lost
      <4>1. i \in dropped'
        BY <1>3, <2>6, <3>2
      <4> QED BY <4>1 DEF Told
    <3>3. CASE a \notin lost
      <4>1. a \in alerts'
        BY <1>3, <3>1, <3>3
      <4> QED BY <2>1, <2>6, <4>1 DEF Told
    <3> QED BY <3>2, <3>3
  <2>7. ASSUME NEW m \in muted, NEW a \in raised,
               m.i = i, m.det = Owed(i), a.det = m.det, Name[log[a.i].id] = Name[log[i].id],
               a.at <= m.at, m.at < a.at + Cooldown, a.i <= i
        PROVE  Told(i)'
    <3>1. a.i \in 1..pos
      BY DEF IInv, RaisedRight
    <3>2. m.i <= saved.pos /\ a.i <= saved.pos
      BY <1>4, <2>2, <2>7, <3>1
    <3>3. m \in muted' /\ a \in raised'
      BY <1>2, <3>2 DEF Known
    <3> QED BY <1>1, <2>1, <2>7, <3>3 DEF Told
  <2> QED BY <2>4, <2>5, <2>6, <2>7 DEF Told
<1>11. Windows'
  <2>1. WindowsOf(saved.store.windows, saved.pos)
    BY DEF IInv, Windows
  <2>2. \A k, p : Ends(k, p)' = Ends(k, p)
    BY <1>1 DEF Ends, Deploying, Of
  <2> QED BY <1>1, <1>2, <2>1, <2>2 DEF Windows, WindowsOf, Of
<1> QED BY <1>5, <1>6, <1>7, <1>8, <1>9, <1>10, <1>11 DEF IInv

(* Restart goes on in the log; of the containers it skips events of,       *)
(* nothing is claimed.                                                     *)
LEMMA Skipped ==
    ASSUME Shapes, Restart
    PROVE  /\ pos' \in pos..Len(log)
           /\ misled' = misled \cup {log[i].id : i \in (pos + 1)..pos'}
<1> DEFINE old == {i \in 1..Len(log) : log[i].time < now - MaxReplay}
<1>1. pos' = (IF Cardinality(old) > pos THEN Cardinality(old) ELSE pos)
      /\ misled' = misled \cup {log[i].id : i \in (pos + 1)..pos'}
  BY DEF Restart
<1>2. pos \in 0..Len(log) /\ Len(log) \in Nat
  BY DEF Shapes
<1>3. Cardinality(old) \in 0..Len(log)
  <2>1. PICK n \in Nat : n = Len(log)
    BY <1>2
  <2>2. IsFiniteSet(1..n) /\ Cardinality(1..n) = IF 1 > n THEN 0 ELSE n - 1 + 1
    BY FS_Interval
  <2>3. Cardinality(1..n) = n
    BY <2>2
  <2>4. PICK s \in SUBSET (1..n) : s = old
    BY <2>1
  <2>5. IsFiniteSet(s) /\ Cardinality(s) <= n
    BY <2>2, <2>3, FS_Subset
  <2>6. Cardinality(s) \in Nat
    BY <2>5, FS_CardinalityType
  <2>7. Cardinality(s) \in 0..n
    BY <2>5, <2>6
  <2> HIDE DEF old
  <2> QED BY <2>1, <2>4, <2>7
<1> HIDE DEF old
<1>4. PICK m \in 0..Len(log) : m = Cardinality(old)
  BY <1>3
<1>5. (IF m > pos THEN m ELSE pos) \in pos..Len(log)
  BY <1>2
<1> QED BY <1>1, <1>4, <1>5

LEMMA Restarts == IInv /\ Restart => IInv'
<1> SUFFICES ASSUME IInv, Restart PROVE IInv'
  OBVIOUS
<1>1. ~up /\ UNCHANGED <<now, log, run, asked, oomed, fell, startedAt, ran, saved, stops, ooms,
                         firing, lastAlert, hit, alerts, raised, muted, dropped>>
  BY DEF Restart, world, marks, loops
<1>2. PICK q \in pos..Len(log) : q = pos'
  BY Skipped DEF IInv
<1>3. misled' = misled \cup {log[i].id : i \in (pos + 1)..q}
  BY <1>2, Skipped DEF IInv
<1>4. /\ pos \in Nat /\ q \in Nat /\ saved.pos \in Nat /\ pos <= q /\ q <= Len(log)
      /\ saved.pos <= pos /\ Len(log) \in Nat
  BY <1>2 DEF IInv, Shapes
<1>5. hit = NoHit
  BY <1>1 DEF IInv, HitRight
<1>6. misled \subseteq misled' /\ \A i \in pos + 1..q : log[i].id \in misled'
  BY <1>3
<1>7. Shapes' /\ Truth'
  <2>1. q \in 0..Len(log) /\ saved.pos \in 0..q
    BY <1>4
  <2> QED BY <1>1, <1>2, <2>1 DEF IInv, Shapes, Truth
<1>8. Marks'
  <2>1. Marks
    BY DEF IInv
  <2>2. ASSUME NEW c \in Containers \ misled', NEW kind
        PROVE  MarkedBy(kind, log, pos, c) <=> MarkedBy(kind, log, q, c)
    <3>1. \A i \in pos + 1..q : log[i].id # c
      BY <1>6
    <3> QED BY <1>4, <3>1, MarkSkips
  <2>3. MarksOf(pos, stops, ooms)'
    BY <1>1, <1>2, <1>6, <2>1, <2>2 DEF Marks, MarksOf
  <2>4. MarksOf(saved.pos, saved.stops, saved.ooms)'
    BY <1>1, <1>6, <2>1 DEF Marks, MarksOf
  <2> QED BY <1>1, <2>1, <2>3, <2>4 DEF Marks, Tracks
<1>9. HitRight'
  BY <1>1, <1>5 DEF HitRight
<1>10. \A a \in raised : a.i \in 1..pos /\ a.i \in 1..q /\ a.i <= q
  BY <1>4 DEF IInv, RaisedRight
<1>11. RaisedRight'
  BY <1>1, <1>2, <1>6, <1>10 DEF IInv, RaisedRight
<1>12. Memories'
  BY <1>1, <1>2, <1>10 DEF IInv, Memories, Remembered
<1>13. Reported'
  <2>1. \A i : Owed(i)' = Owed(i)
    BY <1>1 DEF Owed
  <2> SUFFICES ASSUME NEW i \in 1..q, Owed(i) # "none", log[i].id \notin misled'
               PROVE  Told(i)'
    BY <1>1, <1>2, <2>1 DEF Reported
  <2>2. i \in 1..pos /\ hit.i # i
    <3>1. i \notin pos + 1..q
      BY <1>6
    <3> QED BY <1>4, <1>5, <3>1 DEF NoHit
  <2>3. Told(i)
    BY <1>6, <2>2 DEF IInv, Reported
  <2> QED BY <1>1, <2>3, ToldStays
<1>14. Windows'
  <2>1. WindowsOf(windows, pos) /\ WindowsOf(saved.store.windows, saved.pos) /\ Shapes
        /\ pos \in 0..Len(log)
    BY DEF IInv, Windows, Shapes
  <2>2. windows' = [k \in WindowKeys |-> IF now < windows[k] THEN windows[k] ELSE 0]
    <3>1. windows' = [k \in WindowKeys |-> IF now < windows[k] /\ Until(k) < windows[k]
                                           THEN windows[k] ELSE Until(k)]
      BY DEF Restart, StoreLoad
    <3>2. \A k \in WindowKeys : windows[k] \in Nat
      BY <2>1 DEF WindowsOf
    <3> QED BY <3>1, <3>2 DEF Until
  <2>3. PICK w : w = windows' /\ WindowsOf(w, pos)
    <3>1. WindowsOf([k \in WindowKeys |-> IF now < windows[k] THEN windows[k] ELSE 0], pos)
      BY <2>1, PruneKeeps
    <3> QED BY <2>2, <3>1
  <2>4. \A k, p : Ends(k, p)' = Ends(k, p)
    BY <1>1 DEF Ends, Deploying, Of
  <2>5. ASSUME NEW k, Of(k) \cap misled' = {} PROVE Ends(k, q) = Ends(k, pos)
    <3>1. \A i \in pos + 1..q : log[i].id \notin Of(k)
      BY <1>6, <2>5
    <3>2. {j \in 1..q : log[j].id \in Of(k) /\ Deploying(j)}
            = {j \in 1..pos : log[j].id \in Of(k) /\ Deploying(j)}
      <4>1. 1..q = 1..pos \cup pos + 1..q
        BY <1>4
      <4> QED BY <3>1, <4>1
    <3> QED BY <3>2 DEF Ends
  <2>6. WindowsOf(windows, pos)'
    <3>1. \A k : Of(k) \cap misled' = {} => Of(k) \cap misled = {}
      BY <1>6
    <3> QED BY <1>1, <1>2, <2>3, <2>4, <2>5, <3>1 DEF WindowsOf, Of
  <2>7. WindowsOf(saved.store.windows, saved.pos)'
    <3>1. \A k : Of(k) \cap misled' = {} => Of(k) \cap misled = {}
      BY <1>6
    <3> QED BY <1>1, <2>1, <2>4, <3>1 DEF WindowsOf, Of
  <2> QED BY <2>6, <2>7 DEF Windows
<1> QED BY <1>7, <1>8, <1>9, <1>11, <1>12, <1>13, <1>14 DEF IInv

-----------------------------------------------------------------------------
LEMMA Inits == Init => IInv
<1> SUFFICES ASSUME Init PROVE IInv
  OBVIOUS
<1>1. /\ now = 1 /\ windows = [k \in WindowKeys |-> 0] /\ log = <<>> /\ pos = 0
      /\ run = [c \in Containers |->
                  IF \A d \in Containers : c <= d THEN "up" ELSE "none"]
      /\ asked = [c \in Containers |-> FALSE] /\ oomed = asked /\ fell = asked
      /\ startedAt = [c \in Containers |-> 0] /\ ran = startedAt
      /\ stops = [d \in {"exit", "crashloop"} |-> asked] /\ ooms = asked /\ firing = asked
      /\ lastAlert = [k \in Keys |-> 0] /\ hit = NoHit /\ raised = {}
  BY DEF Init
<1>2. saved = Memory
  BY DEF Init
<1>3. /\ saved.pos = pos /\ saved.stops = stops /\ saved.ooms = ooms
      /\ saved.firing = firing /\ saved.lastAlert = lastAlert
      /\ saved.store.windows = [k \in WindowKeys |-> IF now < windows[k] THEN windows[k] ELSE 0]
  BY <1>2 DEF Memory, StoreSaved, Until
<1>4. Len(log) = 0 /\ log \in Seq(Events)
  <2>1. PICK E : E = Events
    OBVIOUS
  <2>2. <<>> \in Seq(E)
    OBVIOUS
  <2> QED BY <1>1, <2>1, <2>2
<1>5. 1..0 = {} /\ 0 \in 0..0
  OBVIOUS
<1>6. Shapes
  BY <1>1, <1>3, <1>4, <1>5 DEF Shapes
<1>7. \A kind, c : ~MarkedBy(kind, log, 0, c)
  BY <1>5 DEF MarkedBy
<1>8. Truth
  BY <1>1, <1>4, <1>5, <1>7 DEF Truth
<1>9. Marks
  <2>1. Tracks(stops, ooms, firing)
    BY <1>1 DEF Tracks
  <2>2. MarksOf(pos, stops, ooms)
    BY <1>1, <1>7 DEF MarksOf
  <2> QED BY <1>3, <2>1, <2>2 DEF Marks
<1>10. HitRight /\ RaisedRight
  BY <1>1 DEF HitRight, RaisedRight
<1>11. Memories
  <2>1. Remembered(lastAlert, pos)
    BY <1>1 DEF Remembered
  <2> QED BY <1>3, <2>1 DEF Memories
<1>12. Reported
  BY <1>1, <1>5 DEF Reported
<1>13. Windows
  <2>1. \A k : Ends(k, 0) = {}
    BY <1>5 DEF Ends
  <2>2. WindowsOf(windows, 0)
    BY <1>1, <2>1 DEF WindowsOf
  <2>3. WindowsOf([k \in WindowKeys |-> IF now < windows[k] THEN windows[k] ELSE 0], 0)
    BY <1>4, <1>5, <1>6, <2>2, PruneKeeps
  <2> QED BY <1>1, <1>3, <2>2, <2>3 DEF Windows
<1> QED BY <1>6, <1>8, <1>9, <1>10, <1>11, <1>12, <1>13 DEF IInv

LEMMA Steps == IInv /\ [Next]_vars => IInv'
<1> SUFFICES ASSUME IInv, [Next]_vars PROVE IInv'
  OBVIOUS
<1>1. CASE World
  BY <1>1, Worlds
<1>2. CASE Tick
  BY <1>2, Ticks
<1>3. CASE HandleEvent
  BY <1>3, Creates, Kills, Ooms, Dies, Starts, Destroys DEF HandleEvent
<1>4. CASE EventReport
  BY <1>4, Reports
<1>5. ASSUME NEW c \in Containers, PollLook(c) \/ ForgetGone(c) PROVE IInv'
  BY <1>5, Looks, Forgets
<1>6. CASE Check
  BY <1>6, Checks
<1>7. CASE Save
  BY <1>7, Saves
<1>8. CASE Crash
  BY <1>8, Crashes
<1>9. CASE Restart
  BY <1>9, Restarts
<1>10. CASE UNCHANGED vars
  BY <1>10, Stutters
<1> QED BY <1>1, <1>2, <1>3, <1>4, <1>5, <1>6, <1>7, <1>8, <1>9, <1>10 DEF Next

(* What the detectors remember is what the log says, at the position in    *)
(* memory and at the one in the state file.                                *)
THEOREM Inductive == Spec => []IInv
<1>1. Init => IInv
  BY Inits
<1>2. IInv /\ [Next]_vars => IInv'
  BY Steps
<1> QED BY <1>1, <1>2, PTL DEF Spec

(* The one-off alerts are the crashes and kills that happened: none for a  *)
(* stop somebody asked for, and none missing, whatever crashed and was     *)
(* replayed in between (exit.go, oom.go and coolingDown in engine.go).     *)
THEOREM OneOffsRight == Spec => []AlertsRight
<1>1. IInv => ExitMeansCrash
  BY DEF IInv, RaisedRight, ExitMeansCrash
<1>2. IInv => CrashesReported
  <2> SUFFICES ASSUME IInv, NEW i \in 1..pos, Owed(i) # "none", log[i].id \notin misled
               PROVE  \/ i \in dropped \/ hit.i = i
                      \/ \E a \in alerts : a.i = i /\ a.det = Owed(i)
                      \/ \E m \in muted, a \in raised :
                            /\ m.i = i /\ m.det = Owed(i) /\ a.det = m.det
                            /\ Name[log[a.i].id] = Name[log[i].id]
                            /\ a.at <= m.at /\ m.at < a.at + Cooldown
    BY DEF CrashesReported
  <2>1. Told(i) \/ hit.i = i
    BY DEF IInv, Reported
  <2> QED BY <2>1 DEF Told
<1>3. IInv => AlertsRight
  BY <1>1, <1>2 DEF AlertsRight
<1> QED BY <1>3, Inductive, PTL

(* A deploy window is open exactly until Grace after the last event of a   *)
(* deploy (openWindow in engine.go, Deploy and LoadState in silence.go).   *)
THEOREM WindowsRight == Spec => []WindowsExact
<1>1. IInv => WindowsExact
  <2> SUFFICES ASSUME IInv, up, Grace > 0, NEW k \in WindowKeys, Of(k) \cap misled = {}
               PROVE  /\ Until(k) # 0 => Until(k) \in Ends(k, pos)
                      /\ \A t \in Ends(k, pos) : t > now => Until(k) >= t
    BY DEF WindowsExact, Of, Ends
  <2>1. Shapes /\ WindowsOf(windows, pos) /\ pos \in 0..Len(log)
    BY DEF IInv, Windows, Shapes
  <2>2. PICK w : w = [j \in WindowKeys |-> IF now < windows[j] THEN windows[j] ELSE 0]
                 /\ WindowsOf(w, pos)
    <3>1. WindowsOf([j \in WindowKeys |-> IF now < windows[j] THEN windows[j] ELSE 0], pos)
      BY <2>1, PruneKeeps
    <3> QED BY <3>1
  <2>3. Until(k) = w[k]
    BY <2>2 DEF Until
  <2> QED BY <2>2, <2>3 DEF WindowsOf
<1> QED BY <1>1, Inductive, PTL

-----------------------------------------------------------------------------
(* The second invariant: what PastRight says of restarts and runs.         *)
Falls ==
    /\ \A c \in Containers : run[c] = "up" => ~fell[c]
    /\ \A c \in Containers : run[c] # "gone" => (fell[c] <=> MarkedBy("fall", log, Len(log), c))
    /\ \A i \in 1..Len(log) :
          /\ log[i].action = "start" => (log[i].crash <=> MarkedBy("fall", log, i - 1, log[i].id))
          /\ log[i].action = "die" => ~MarkedBy("fall", log, i - 1, log[i].id)
          /\ log[i].action = "destroy" => run[log[i].id] = "gone"

Times ==
    /\ now \in 1..Horizon
    /\ \A i \in 1..Len(log) : log[i].time \in 1..now
    /\ \A i, j \in 1..Len(log) : i <= j => log[i].time <= log[j].time

(* The log's last word, by event p, on when a container began its run, and *)
(* on how long one lasted; 0 if there is none.                             *)
Notes(kind, e) ==
    IF kind = "began" THEN e.action = "start" ELSE e.action \in {"die", "oom"}

Says(kind, e) == IF kind = "began" THEN e.time ELSE e.ran

Latest(kind, l, p, c, v) ==
    \E j \in 0..p :
        /\ \A i \in j + 1..p : ~(l[i].id = c /\ Notes(kind, l[i]))
        /\ IF j = 0 THEN v = 0
           ELSE l[j].id = c /\ Notes(kind, l[j]) /\ v = Says(kind, l[j])

Lengths ==
    /\ startedAt \in [Containers -> 0..now] /\ ran \in [Containers -> 0..now]
    /\ \A c \in Containers :
          /\ Latest("began", log, Len(log), c, startedAt[c])
          /\ run[c] \notin {"up", "gone"} => Latest("lasted", log, Len(log), c, ran[c])
    /\ \A i \in 1..Len(log) :
          /\ log[i].ran \in 0..now
          /\ log[i].action \in {"die", "oom"} =>
                Latest("began", log, i - 1, log[i].id, log[i].time - log[i].ran)
          /\ log[i].action = "start" => Latest("lasted", log, i - 1, log[i].id, log[i].ran)

WorldPast == Falls /\ Times /\ Lengths

FallsOf(p, st, cr) ==
    /\ cr \in [Containers -> BOOLEAN]
    /\ \A c \in Containers \ misled : run[c] # "gone" =>
          /\ st["crashloop"][c] <=> MarkedBy("stop", log, p, c)
          /\ cr[c] <=> MarkedBy("fall", log, p, c)

CrashMarks == FallsOf(pos, stops, crashed) /\ FallsOf(saved.pos, saved.stops, saved.crashed)

Restarted(c, p, t) ==
    {i \in 1..p : /\ log[i].id = c /\ log[i].action = "start" /\ log[i].crash
                  /\ log[i].time > t}

CountsOf(p, rs) ==
    /\ rs \in [Containers -> Seq(1..now)]
    /\ \A c \in Containers \ misled : run[c] # "gone" =>
          \A t \in Int : t >= now - Window =>
              Len(Within(rs[c], t)) = Cardinality(Restarted(c, p, t))

Counts == CountsOf(pos, restarts) /\ CountsOf(saved.pos, saved.restarts)

RunsKnown ==
    /\ starts \in [Containers -> 0..now] /\ lastRuns \in [Containers -> 0..now]
    /\ \A c \in Containers :
          /\ starts[c] # 0 => up /\ Latest("began", log, pos, c, starts[c])
          /\ lastRuns[c] # 0 => up /\ Latest("lasted", log, pos, c, lastRuns[c])
    /\ \A a \in alerts : a.i \in 1..pos /\ a.lastRun \in (0..now) \cap {0, log[a.i].ran}

PInv == IInv /\ WorldPast /\ CrashMarks /\ Counts /\ RunsKnown

-----------------------------------------------------------------------------
(* Induction, for a set of numbers: by the pigeonhole principle.           *)
LEMMA SetInduction ==
    ASSUME NEW T, 0 \in T, \A n \in Nat : n \in T => n + 1 \in T
    PROVE  Nat \subseteq T
<1> SUFFICES ASSUME NEW n \in Nat, n \notin T PROVE FALSE
  OBVIOUS
<1>1. PICK S : S = {x \in 0..n : x \notin T}
  OBVIOUS
<1>2. PICK R : R = S \ {n}
  OBVIOUS
<1>3. IsFiniteSet(0..n)
  BY FS_Interval
<1>4. S \in SUBSET (0..n) /\ R \in SUBSET S /\ n \in S /\ R # S
  BY <1>1, <1>2
<1>5. IsFiniteSet(S)
  BY <1>3, <1>4, FS_Subset
<1>6. IsFiniteSet(R) /\ Cardinality(R) <= Cardinality(S) /\ Cardinality(R) # Cardinality(S)
  BY <1>4, <1>5, FS_Subset
<1>7. Cardinality(S) \in Nat /\ Cardinality(R) \in Nat
  BY <1>5, <1>6, FS_CardinalityType
<1>8. Cardinality(R) < Cardinality(S)
  BY <1>6, <1>7
<1>9. \A x \in S : x - 1 \in R
  <2> SUFFICES ASSUME NEW x \in S PROVE x - 1 \in R
    OBVIOUS
  <2>1. x \in 0..n /\ x \notin T /\ x # 0
    BY <1>1
  <2>2. x - 1 \in Nat /\ x - 1 \in 0..n /\ (x - 1) + 1 = x /\ x - 1 # n
    BY <2>1
  <2>3. x - 1 \notin T
    BY <2>1, <2>2
  <2> QED BY <1>1, <1>2, <2>2, <2>3
<1>10. PICK f : f = [x \in S |-> x - 1]
  OBVIOUS
<1>11. f \in [S -> R]
  BY <1>9, <1>10
<1>12. \E x, y \in S : x # y /\ f[x] = f[y]
  BY <1>5, <1>6, <1>8, <1>11, FS_PigeonHole
<1>13. \A x, y \in S : x - 1 = y - 1 => x = y
  BY <1>1
<1> QED BY <1>10, <1>12, <1>13

(* What prune keeps.                                                       *)
Keeps(k, s, cutoff, n) ==
    k = [i \in 0..n |->
            IF i = 0 THEN <<>>
            ELSE IF s[i] > cutoff THEN Append(k[i - 1], s[i]) ELSE k[i - 1]]

LEMMA KeptExists ==
    ASSUME NEW s, NEW cutoff, NEW n \in Nat
    PROVE  \E k : Keeps(k, s, cutoff, n)
<1>1. PICK T : T = {m \in Nat : \E k : Keeps(k, s, cutoff, m)}
  OBVIOUS
<1>2. 0 \in T
  <2>1. PICK k : k = [i \in 0..0 |-> <<>>]
    OBVIOUS
  <2>2. \A i \in 0..0 : i = 0
    OBVIOUS
  <2>3. Keeps(k, s, cutoff, 0)
    BY <2>1, <2>2 DEF Keeps
  <2> QED BY <1>1, <2>3
<1>3. ASSUME NEW m \in Nat, m \in T PROVE m + 1 \in T
  <2>1. PICK k : Keeps(k, s, cutoff, m)
    BY <1>1, <1>3
  <2>2. PICK last : last = IF s[m + 1] > cutoff THEN Append(k[m], s[m + 1]) ELSE k[m]
    OBVIOUS
  <2>3. PICK kk : kk = [i \in 0..m + 1 |-> IF i = m + 1 THEN last ELSE k[i]]
    OBVIOUS
  <2>4. \A i \in 0..m : i \in 0..m + 1 /\ i # m + 1 /\ kk[i] = k[i]
    BY <2>3
  <2>5. kk[m + 1] = last
    BY <2>3
  <2>6. ASSUME NEW i \in 0..m + 1
        PROVE  kk[i] = IF i = 0 THEN <<>>
                       ELSE IF s[i] > cutoff THEN Append(kk[i - 1], s[i]) ELSE kk[i - 1]
    <3>1. CASE i = m + 1
      <4>1. i # 0 /\ i - 1 = m /\ m \in 0..m
        BY <3>1
      <4> QED BY <2>2, <2>4, <2>5, <3>1, <4>1
    <3>2. CASE i = 0
      BY <2>1, <2>4, <3>2 DEF Keeps
    <3>3. CASE i # m + 1 /\ i # 0
      <4>1. i \in 0..m /\ i - 1 \in 0..m
        BY <3>3
      <4>2. k[i] = IF s[i] > cutoff THEN Append(k[i - 1], s[i]) ELSE k[i - 1]
        BY <2>1, <3>3, <4>1 DEF Keeps
      <4> QED BY <2>4, <3>3, <4>1, <4>2
    <3> QED BY <3>1, <3>2, <3>3
  <2>7. Keeps(kk, s, cutoff, m + 1)
    <3>1. kk = [i \in 0..m + 1 |-> kk[i]]
      BY <2>3
    <3> QED BY <2>6, <3>1 DEF Keeps
  <2> QED BY <1>1, <2>7
<1>4. Nat \subseteq T
  BY <1>2, <1>3, SetInduction
<1> QED BY <1>1, <1>4

LEMMA WithinIs ==
    ASSUME NEW s, NEW cutoff, Len(s) \in Nat
    PROVE  \E k : Keeps(k, s, cutoff, Len(s)) /\ Within(s, cutoff) = k[Len(s)]
<1>1. PICK k : k = CHOOSE f : Keeps(f, s, cutoff, Len(s))
  OBVIOUS
<1>2. Keeps(k, s, cutoff, Len(s))
  <2>1. \E f : Keeps(f, s, cutoff, Len(s))
    BY KeptExists
  <2> QED BY <1>1, <2>1
<1>3. Within(s, cutoff) = k[Len(s)]
  BY <1>1 DEF Within, Keeps
<1> QED BY <1>2, <1>3

Grows(k, s, cutoff, n) ==
    /\ k[0] = <<>>
    /\ \A i \in 0..n - 1 :
         k[i + 1] = IF s[i + 1] > cutoff THEN Append(k[i], s[i + 1]) ELSE k[i]

LEMMA KeptStep ==
    ASSUME NEW s, NEW cutoff, NEW n \in Nat, NEW k, Keeps(k, s, cutoff, n)
    PROVE  Grows(k, s, cutoff, n)
<1>1. k[0] = <<>>
  <2>1. 0 \in 0..n
    OBVIOUS
  <2> QED BY <2>1 DEF Keeps
<1>2. ASSUME NEW i \in 0..n - 1
      PROVE  k[i + 1] = IF s[i + 1] > cutoff THEN Append(k[i], s[i + 1]) ELSE k[i]
  <2>1. i + 1 \in 0..n /\ i + 1 # 0 /\ (i + 1) - 1 = i
    OBVIOUS
  <2>2. PICK j \in 0..n : j = i + 1
    BY <2>1
  <2>3. k[j] = IF s[j] > cutoff THEN Append(k[j - 1], s[j]) ELSE k[j - 1]
    BY <2>1, <2>2 DEF Keeps
  <2> QED BY <2>1, <2>2, <2>3
<1> QED BY <1>1, <1>2 DEF Grows

LEMMA WithinEmpty == \A cutoff : Within(<<>>, cutoff) = <<>>
<1> SUFFICES ASSUME NEW cutoff PROVE Within(<<>>, cutoff) = <<>>
  OBVIOUS
<1>1. PICK s : s = <<>>
  OBVIOUS
<1>2. Len(s) = 0
  BY <1>1
<1>3. PICK k : Keeps(k, s, cutoff, 0) /\ Within(s, cutoff) = k[0]
  BY <1>2, WithinIs
<1>4. Grows(k, s, cutoff, 0)
  BY <1>3, KeptStep
<1> QED BY <1>1, <1>3, <1>4 DEF Grows

(* What pruning keeps of a longer history.                                 *)
LEMMA WithinAppend ==
    ASSUME NEW S, NEW s \in Seq(S), NEW x \in S, NEW cutoff
    PROVE  Within(Append(s, x), cutoff) =
              IF x > cutoff THEN Append(Within(s, cutoff), x) ELSE Within(s, cutoff)
<1>1. PICK n \in Nat : n = Len(s)
  OBVIOUS
<1>2. PICK l : l = Append(s, x)
  OBVIOUS
<1>3. Len(l) = n + 1 /\ l[n + 1] = x /\ \A i \in 1..n : l[i] = s[i]
  BY <1>1, <1>2
<1>4. PICK k : Keeps(k, s, cutoff, n) /\ Within(s, cutoff) = k[n]
  BY <1>1, WithinIs
<1>5. PICK kk : Keeps(kk, l, cutoff, n + 1) /\ Within(l, cutoff) = kk[n + 1]
  BY <1>3, WithinIs
<1>6. Grows(k, s, cutoff, n)
  BY <1>4, KeptStep
<1>7. PICK nn \in Nat : nn = n + 1 /\ nn - 1 = n
  OBVIOUS
<1>8. Grows(kk, l, cutoff, nn)
  BY <1>5, <1>7, KeptStep
<1>9. PICK T : T = {m \in Nat : m <= n => kk[m] = k[m]}
  OBVIOUS
<1>10. 0 \in T
  <2>1. k[0] = <<>> /\ kk[0] = <<>>
    BY <1>6, <1>8 DEF Grows
  <2> QED BY <1>9, <2>1
<1>11. ASSUME NEW m \in Nat, m \in T PROVE m + 1 \in T
  <2> SUFFICES ASSUME m + 1 <= n PROVE kk[m + 1] = k[m + 1]
    BY <1>9
  <2>1. m \in 0..n - 1 /\ m \in 0..nn - 1 /\ m + 1 \in 1..n /\ m <= n
    BY <1>7
  <2>2. kk[m] = k[m] /\ l[m + 1] = s[m + 1]
    BY <1>3, <1>9, <1>11, <2>1
  <2>3. k[m + 1] = IF s[m + 1] > cutoff THEN Append(k[m], s[m + 1]) ELSE k[m]
    BY <1>6, <2>1 DEF Grows
  <2>4. kk[m + 1] = IF l[m + 1] > cutoff THEN Append(kk[m], l[m + 1]) ELSE kk[m]
    BY <1>8, <2>1 DEF Grows
  <2> QED BY <2>2, <2>3, <2>4
<1>12. Nat \subseteq T
  BY <1>10, <1>11, SetInduction
<1>13. kk[n] = k[n]
  BY <1>9, <1>12
<1>14. kk[n + 1] = IF l[n + 1] > cutoff THEN Append(kk[n], l[n + 1]) ELSE kk[n]
  <2>1. n \in 0..nn - 1
    BY <1>7
  <2> QED BY <1>8, <2>1 DEF Grows
<1> QED BY <1>2, <1>3, <1>4, <1>5, <1>13, <1>14

LEMMA WithinType ==
    ASSUME NEW S, NEW s \in Seq(S), NEW cutoff
    PROVE  Within(s, cutoff) \in Seq(S)
<1>1. PICK n \in Nat : n = Len(s)
  OBVIOUS
<1>2. PICK k : Keeps(k, s, cutoff, n) /\ Within(s, cutoff) = k[n]
  BY <1>1, WithinIs
<1>3. Grows(k, s, cutoff, n)
  BY <1>2, KeptStep
<1>4. PICK T : T = {m \in Nat : m <= n => k[m] \in Seq(S)}
  OBVIOUS
<1>5. 0 \in T
  <2>1. <<>> \in Seq(S)
    OBVIOUS
  <2> QED BY <1>3, <1>4, <2>1 DEF Grows
<1>6. ASSUME NEW m \in Nat, m \in T PROVE m + 1 \in T
  <2> SUFFICES ASSUME m + 1 <= n PROVE k[m + 1] \in Seq(S)
    BY <1>4
  <2>1. m \in 0..n - 1 /\ m + 1 \in 1..n /\ m <= n
    OBVIOUS
  <2>2. k[m] \in Seq(S) /\ s[m + 1] \in S
    BY <1>1, <1>4, <1>6, <2>1
  <2>3. Append(k[m], s[m + 1]) \in Seq(S)
    BY <2>2
  <2> QED BY <1>3, <2>1, <2>2, <2>3 DEF Grows
<1>7. Nat \subseteq T
  BY <1>5, <1>6, SetInduction
<1> QED BY <1>2, <1>4, <1>7

(* Pruned twice is pruned once.                                            *)
LEMMA WithinTwice ==
    ASSUME NEW S \in SUBSET Int, NEW s \in Seq(S), NEW a \in Int, NEW b \in Int, a <= b
    PROVE  Within(Within(s, a), b) = Within(s, b)
<1>1. PICK n \in Nat : n = Len(s)
  OBVIOUS
<1>2. PICK k : Keeps(k, s, a, n) /\ Within(s, a) = k[n]
  BY <1>1, WithinIs
<1>3. PICK kk : Keeps(kk, s, b, n) /\ Within(s, b) = kk[n]
  BY <1>1, WithinIs
<1>4. Grows(k, s, a, n)
  BY <1>2, KeptStep
<1>5. Grows(kk, s, b, n)
  BY <1>3, KeptStep
<1>6. PICK T : T = {m \in Nat : m <= n => k[m] \in Seq(S) /\ Within(k[m], b) = kk[m]}
  OBVIOUS
<1>7. 0 \in T
  <2>1. k[0] = <<>> /\ kk[0] = <<>>
    BY <1>4, <1>5 DEF Grows
  <2>2. <<>> \in Seq(S) /\ Within(<<>>, b) = <<>>
    BY WithinEmpty
  <2> QED BY <1>6, <2>1, <2>2
<1>8. ASSUME NEW m \in Nat, m \in T PROVE m + 1 \in T
  <2> SUFFICES ASSUME m + 1 <= n
               PROVE  k[m + 1] \in Seq(S) /\ Within(k[m + 1], b) = kk[m + 1]
    BY <1>6
  <2>1. m \in 0..n - 1 /\ m + 1 \in 1..n /\ m <= n
    OBVIOUS
  <2>2. k[m] \in Seq(S) /\ Within(k[m], b) = kk[m] /\ s[m + 1] \in S
    BY <1>1, <1>6, <1>8, <2>1
  <2>3. PICK x \in S : x = s[m + 1]
    BY <2>2
  <2>4. /\ k[m + 1] = IF x > a THEN Append(k[m], x) ELSE k[m]
        /\ kk[m + 1] = IF x > b THEN Append(kk[m], x) ELSE kk[m]
    BY <1>4, <1>5, <2>1, <2>3 DEF Grows
  <2>5. Within(Append(k[m], x), b) = IF x > b THEN Append(kk[m], x) ELSE kk[m]
    BY <2>2, WithinAppend
  <2>6. Append(k[m], x) \in Seq(S)
    BY <2>2
  <2>7. x > b => x > a
    OBVIOUS
  <2> QED BY <2>2, <2>4, <2>5, <2>6, <2>7
<1>9. Nat \subseteq T
  BY <1>7, <1>8, SetInduction
<1> QED BY <1>2, <1>3, <1>6, <1>9

-----------------------------------------------------------------------------
(* The last word of a longer log.                                          *)
LEMMA LatestGrows ==
    ASSUME NEW kind, NEW l, NEW p \in Nat, NEW c, NEW v
    PROVE  Latest(kind, l, p + 1, c, v) <=>
              IF l[p + 1].id = c /\ Notes(kind, l[p + 1]) THEN v = Says(kind, l[p + 1])
              ELSE Latest(kind, l, p, c, v)
<1>1. ASSUME NEW j \in 0..p + 1,
             \A i \in j + 1..p + 1 : ~(l[i].id = c /\ Notes(kind, l[i])),
             IF j = 0 THEN v = 0
             ELSE l[j].id = c /\ Notes(kind, l[j]) /\ v = Says(kind, l[j])
      PROVE  IF l[p + 1].id = c /\ Notes(kind, l[p + 1]) THEN v = Says(kind, l[p + 1])
             ELSE Latest(kind, l, p, c, v)
  <2>1. CASE j = p + 1
    <3>1. j # 0
      BY <2>1
    <3> QED BY <1>1, <2>1, <3>1
  <2>2. CASE j # p + 1
    <3>1. j \in 0..p /\ p + 1 \in j + 1..p + 1 /\ \A i \in j + 1..p : i \in j + 1..p + 1
      BY <2>2
    <3> QED BY <1>1, <3>1 DEF Latest
  <2> QED BY <2>1, <2>2
<1>2. ASSUME l[p + 1].id = c, Notes(kind, l[p + 1]), v = Says(kind, l[p + 1])
      PROVE  Latest(kind, l, p + 1, c, v)
  <2>1. p + 1 \in 0..p + 1 /\ (p + 1) + 1..p + 1 = {} /\ p + 1 # 0
    OBVIOUS
  <2> QED BY <1>2, <2>1 DEF Latest
<1>3. ASSUME ~(l[p + 1].id = c /\ Notes(kind, l[p + 1])), Latest(kind, l, p, c, v)
      PROVE  Latest(kind, l, p + 1, c, v)
  <2>1. PICK j \in 0..p :
          /\ \A i \in j + 1..p : ~(l[i].id = c /\ Notes(kind, l[i]))
          /\ IF j = 0 THEN v = 0
             ELSE l[j].id = c /\ Notes(kind, l[j]) /\ v = Says(kind, l[j])
    BY <1>3 DEF Latest
  <2>2. j \in 0..p + 1 /\ \A i \in j + 1..p + 1 : i \in j + 1..p \/ i = p + 1
    OBVIOUS
  <2> QED BY <1>3, <2>1, <2>2 DEF Latest
<1>4. ASSUME Latest(kind, l, p + 1, c, v)
      PROVE  IF l[p + 1].id = c /\ Notes(kind, l[p + 1]) THEN v = Says(kind, l[p + 1])
             ELSE Latest(kind, l, p, c, v)
  BY <1>1, <1>4 DEF Latest
<1> QED BY <1>2, <1>3, <1>4

LEMMA LatestAgrees ==
    ASSUME NEW kind, NEW l, NEW ll, NEW p \in Nat, NEW c, NEW v, \A i \in 1..p : l[i] = ll[i]
    PROVE  Latest(kind, l, p, c, v) <=> Latest(kind, ll, p, c, v)
<1>1. \A j \in 0..p : (j # 0 => j \in 1..p) /\ \A i \in j + 1..p : i \in 1..p
  OBVIOUS
<1> QED BY <1>1 DEF Latest

LEMMA LatestOne ==
    ASSUME NEW kind, NEW l, NEW p \in Nat, NEW c, NEW v, NEW w,
           Latest(kind, l, p, c, v), Latest(kind, l, p, c, w)
    PROVE  v = w
<1>1. PICK j \in 0..p :
        /\ \A i \in j + 1..p : ~(l[i].id = c /\ Notes(kind, l[i]))
        /\ IF j = 0 THEN v = 0
           ELSE l[j].id = c /\ Notes(kind, l[j]) /\ v = Says(kind, l[j])
  BY DEF Latest
<1>2. PICK k \in 0..p :
        /\ \A i \in k + 1..p : ~(l[i].id = c /\ Notes(kind, l[i]))
        /\ IF k = 0 THEN w = 0
           ELSE l[k].id = c /\ Notes(kind, l[k]) /\ w = Says(kind, l[k])
  BY DEF Latest
<1>3. (j < k => k \in j + 1..p /\ k # 0) /\ (k < j => j \in k + 1..p /\ j # 0)
  OBVIOUS
<1>4. ~(j < k) /\ ~(k < j)
  BY <1>1, <1>2, <1>3
<1>5. j = k
  BY <1>4
<1> QED BY <1>1, <1>2, <1>5

(* Restarts by a later event.                                              *)
LEMMA RestartedIs ==
    ASSUME NEW c, NEW p \in Nat, NEW t
    PROVE  /\ IsFiniteSet(Restarted(c, p, t)) /\ Cardinality(Restarted(c, p, t)) \in Nat
           /\ Cardinality(Restarted(c, p + 1, t)) =
                IF /\ log[p + 1].id = c /\ log[p + 1].action = "start" /\ log[p + 1].crash
                   /\ log[p + 1].time > t
                THEN Cardinality(Restarted(c, p, t)) + 1 ELSE Cardinality(Restarted(c, p, t))
<1>1. PICK S : S = Restarted(c, p, t)
  OBVIOUS
<1>2. IsFiniteSet(1..p)
  BY FS_Interval
<1>3. S \in SUBSET (1..p)
  BY <1>1 DEF Restarted
<1>4. IsFiniteSet(S)
  BY <1>2, <1>3, FS_Subset
<1>5. Cardinality(S) \in Nat
  BY <1>4, FS_CardinalityType
<1>6. p + 1 \notin S
  BY <1>3
<1>7. Cardinality(S \cup {p + 1}) = Cardinality(S) + 1
  BY <1>4, <1>6, FS_AddElement
<1>8. 1..p + 1 = 1..p \cup {p + 1}
  OBVIOUS
<1>9. Restarted(c, p + 1, t) =
        IF /\ log[p + 1].id = c /\ log[p + 1].action = "start" /\ log[p + 1].crash
           /\ log[p + 1].time > t
        THEN S \cup {p + 1} ELSE S
  BY <1>1, <1>8 DEF Restarted
<1> QED BY <1>1, <1>4, <1>5, <1>7, <1>9

-----------------------------------------------------------------------------
(* The containers, for the second invariant.                               *)
LEMMA PastStays ==
    ASSUME PInv, NEW e, log' = Append(log, e), UNCHANGED Nodux,
           \A d \in Containers : run'[d] # "gone" => run[d] # "gone"
    PROVE  CrashMarks' /\ Counts' /\ RunsKnown'
<1>1. /\ pos \in Nat /\ saved.pos \in Nat /\ saved.pos <= pos /\ pos <= Len(log)
      /\ Len(log) \in Nat /\ log \in Seq(Events)
  BY DEF PInv, IInv, Shapes
<1>2. /\ \A i \in 1..pos : log'[i] = log[i]
      /\ \A i \in 1..saved.pos : log'[i] = log[i]
  <2>1. \A i \in 1..Len(log) : log'[i] = log[i]
    BY <1>1, LogGrows
  <2>2. (\A i \in 1..pos : i \in 1..Len(log)) /\ (\A i \in 1..saved.pos : i \in 1..Len(log))
    BY <1>1
  <2> QED BY <2>1, <2>2
<1>3. UNCHANGED <<now, up, pos, saved, stops, crashed, restarts, starts, lastRuns, alerts, misled>>
  BY DEF Nodux, marks, loops, runs, past
<1>4. CrashMarks'
  <2>1. /\ \A kind, c : MarkedBy(kind, log', pos, c) <=> MarkedBy(kind, log, pos, c)
        /\ \A kind, c : MarkedBy(kind, log', saved.pos, c) <=> MarkedBy(kind, log, saved.pos, c)
    BY <1>1, <1>2, MarkAgrees
  <2>2. CrashMarks
    BY DEF PInv
  <2> QED BY <1>3, <2>1, <2>2 DEF CrashMarks, FallsOf
<1>5. Counts'
  <2>1. /\ \A c, t : Restarted(c, pos, t)' = Restarted(c, pos, t)
        /\ \A c, t : Restarted(c, saved.pos, t)' = Restarted(c, saved.pos, t)
    BY <1>2, <1>3 DEF Restarted
  <2>2. Counts
    BY DEF PInv
  <2> QED BY <1>3, <2>1, <2>2 DEF Counts, CountsOf
<1>6. RunsKnown'
  <2>1. \A kind, c, v : Latest(kind, log', pos, c, v) <=> Latest(kind, log, pos, c, v)
    BY <1>1, <1>2, LatestAgrees
  <2>2. RunsKnown
    BY DEF PInv
  <2> QED BY <1>2, <1>3, <2>1, <2>2 DEF RunsKnown
<1> QED BY <1>4, <1>5, <1>6

LEMMA PastGrows ==
    ASSUME PInv, NEW e \in Events, log' = Append(log, e), UNCHANGED now, e.time = now,
           \A d \in Containers : d # e.id =>
              run'[d] = run[d] /\ fell'[d] = fell[d] /\ startedAt'[d] = startedAt[d]
              /\ ran'[d] = ran[d],
           run'[e.id] = "up" => ~fell'[e.id],
           run'[e.id] # "gone" =>
              run[e.id] # "gone" /\ (fell'[e.id] <=> Sets("fall", e) \/ (fell[e.id] /\ ~Over(e))),
           e.action = "start" =>
              run[e.id] \notin {"up", "gone"} /\ (e.crash <=> fell[e.id]) /\ e.ran = ran[e.id],
           e.action = "die" => run[e.id] = "up",
           e.action = "destroy" => run'[e.id] = "gone",
           startedAt' \in [Containers -> 0..now], ran' \in [Containers -> 0..now],
           startedAt'[e.id] = IF e.action = "start" THEN now ELSE startedAt[e.id],
           run'[e.id] \notin {"up", "gone"} =>
              IF e.action \in {"die", "oom"} THEN ran'[e.id] = e.ran
              ELSE run[e.id] \notin {"up", "gone"} /\ ran'[e.id] = ran[e.id],
           e.action \in {"die", "oom"} => e.ran = now - startedAt[e.id],
           e.ran \in 0..now
    PROVE  WorldPast'
<1> DEFINE n == Len(log)
           c == e.id
<1>1. n \in Nat /\ c \in Containers /\ Falls /\ Times /\ Lengths
  BY DEF PInv, IInv, WorldPast, Shapes, Events
<1>2. /\ Len(log') = n + 1 /\ log'[n + 1] = e
      /\ \A i \in 1..n : log'[i] = log[i]
  BY LogGrows DEF PInv, IInv, Shapes
<1>3. ASSUME NEW i \in 1..n + 1
      PROVE  /\ i - 1 \in Nat
             /\ \A kind, d : MarkedBy(kind, log', i - 1, d) <=> MarkedBy(kind, log, i - 1, d)
             /\ \A kind, d, v : Latest(kind, log', i - 1, d, v) <=> Latest(kind, log, i - 1, d, v)
  <2>1. PICK p \in Nat : p = i - 1
    BY <1>1
  <2>2. \A j \in 1..p : log'[j] = log[j]
    BY <1>1, <1>2, <2>1
  <2>3. /\ \A kind, d : MarkedBy(kind, log', p, d) <=> MarkedBy(kind, log, p, d)
        /\ \A kind, d, v : Latest(kind, log', p, d, v) <=> Latest(kind, log, p, d, v)
    BY <2>2, MarkAgrees, LatestAgrees
  <2> QED BY <2>1, <2>3
<1>4. /\ \A kind, d : MarkedBy(kind, log', n, d) <=> MarkedBy(kind, log, n, d)
      /\ \A kind, d, v : Latest(kind, log', n, d, v) <=> Latest(kind, log, n, d, v)
  <2>1. n + 1 \in 1..n + 1 /\ (n + 1) - 1 = n
    BY <1>1
  <2> HIDE DEF n
  <2>2. PICK i \in 1..n + 1 : i - 1 = n
    BY <2>1
  <2> QED BY <1>3, <2>2
<1>5. PICK l : l = log'
  OBVIOUS
<1>6. ASSUME NEW d
      PROVE  /\ MarkedBy("fall", l, n + 1, d) <=>
                   \/ c = d /\ Sets("fall", e)
                   \/ MarkedBy("fall", log, n, d) /\ ~(c = d /\ Over(e))
             /\ \A kind, v : Latest(kind, l, n + 1, d, v) <=>
                   IF c = d /\ Notes(kind, e) THEN v = Says(kind, e) ELSE Latest(kind, log, n, d, v)
  <2>1. n \in Nat /\ l[n + 1] = e
    BY <1>1, <1>2, <1>5
  <2> HIDE DEF n
  <2>2. MarkedBy("fall", l, n + 1, d) <=>
          \/ e.id = d /\ Sets("fall", e)
          \/ MarkedBy("fall", l, n, d) /\ ~(e.id = d /\ Over(e))
    BY <2>1, MarkGrows
  <2>3. \A kind, v : Latest(kind, l, n + 1, d, v) <=>
          IF e.id = d /\ Notes(kind, e) THEN v = Says(kind, e) ELSE Latest(kind, l, n, d, v)
    BY <2>1, LatestGrows
  <2> QED BY <1>4, <1>5, <2>2, <2>3
<1>7. Falls'
  <2>1. ASSUME NEW d \in Containers
        PROVE  /\ run'[d] = "up" => ~fell'[d]
               /\ run'[d] # "gone" => (fell'[d] <=> MarkedBy("fall", l, n + 1, d))
    <3>1. CASE d = c
      <4>1. run[c] # "gone" => (fell[c] <=> MarkedBy("fall", log, n, c))
        BY <1>1 DEF Falls
      <4>2. MarkedBy("fall", l, n + 1, c) <=>
              Sets("fall", e) \/ (MarkedBy("fall", log, n, c) /\ ~Over(e))
        BY <1>6
      <4> QED BY <3>1, <4>1, <4>2
    <3>2. CASE d # c
      <4>1. /\ run[d] = "up" => ~fell[d]
            /\ run[d] # "gone" => (fell[d] <=> MarkedBy("fall", log, n, d))
        BY <1>1 DEF Falls
      <4>2. MarkedBy("fall", l, n + 1, d) <=> MarkedBy("fall", log, n, d)
        BY <1>6, <3>2
      <4> QED BY <3>2, <4>1, <4>2
    <3> QED BY <3>1, <3>2
  <2>2. ASSUME NEW i \in 1..n + 1
        PROVE  /\ l[i].action = "start" => (l[i].crash <=> MarkedBy("fall", l, i - 1, l[i].id))
               /\ l[i].action = "die" => ~MarkedBy("fall", l, i - 1, l[i].id)
               /\ l[i].action = "destroy" => run'[l[i].id] = "gone"
    <3>1. CASE i = n + 1
      <4>1. i - 1 = n /\ l[i] = e
        BY <1>1, <1>2, <1>5, <3>1
      <4>2. MarkedBy("fall", l, n, c) <=> MarkedBy("fall", log, n, c)
        BY <1>4, <1>5
      <4>3. run[c] # "gone" => (fell[c] <=> MarkedBy("fall", log, n, c))
        BY <1>1 DEF Falls
      <4>4. run[c] = "up" => ~fell[c]
        BY <1>1 DEF Falls
      <4> HIDE DEF n
      <4> QED BY <4>1, <4>2, <4>3, <4>4
    <3>2. CASE i # n + 1
      <4>1. i \in 1..n /\ l[i] = log[i]
        BY <1>1, <1>2, <1>5, <3>2
      <4>2. MarkedBy("fall", l, i - 1, l[i].id) <=> MarkedBy("fall", log, i - 1, log[i].id)
        BY <1>3, <1>5, <4>1
      <4>3. /\ log[i].action = "start" => (log[i].crash <=> MarkedBy("fall", log, i - 1, log[i].id))
            /\ log[i].action = "die" => ~MarkedBy("fall", log, i - 1, log[i].id)
            /\ log[i].action = "destroy" => run[log[i].id] = "gone"
        BY <1>1, <4>1 DEF Falls
      <4>4. log[i].id \in Containers
        <5>1. log[i] \in Events
          BY <4>1, EventIs DEF PInv, IInv, Shapes
        <5> QED BY <5>1 DEF Events
      <4>5. run[log[i].id] = "gone" => run'[log[i].id] = "gone"
        BY <4>4
      <4> QED BY <4>1, <4>2, <4>3, <4>5
    <3> QED BY <3>1, <3>2
  <2> HIDE DEF n
  <2> QED BY <1>2, <1>5, <2>1, <2>2 DEF Falls
<1>8. Times'
  <2>1. now \in Nat /\ now \in 1..Horizon /\ \A i \in 1..n : log[i].time \in 1..now
    BY <1>1 DEF Times, PInv, IInv, Shapes
  <2>2. \A i \in 1..n + 1 : i \in 1..n \/ i = n + 1
    BY <1>1
  <2>3. \A i \in 1..n + 1 : l[i].time \in 1..now
    BY <1>2, <1>5, <2>1, <2>2
  <2>4. ASSUME NEW i \in 1..n + 1, NEW j \in 1..n + 1, i <= j
        PROVE  l[i].time <= l[j].time
    <3>1. CASE j = n + 1
      <4>1. l[j].time = now
        BY <1>2, <1>5, <3>1
      <4> QED BY <2>1, <2>3, <4>1
    <3>2. CASE j # n + 1
      <4>1. i \in 1..n /\ j \in 1..n
        BY <1>1, <2>4, <3>2
      <4> QED BY <1>1, <1>2, <1>5, <2>4, <4>1 DEF Times
    <3> QED BY <3>1, <3>2
  <2>5. Horizon' = Horizon
    BY DEF Horizon
  <2> HIDE DEF n
  <2> QED BY <1>2, <1>5, <2>1, <2>3, <2>4, <2>5 DEF Times
<1>9. Lengths'
  <2>1. ASSUME NEW d \in Containers
        PROVE  /\ Latest("began", l, n + 1, d, startedAt'[d])
               /\ run'[d] \notin {"up", "gone"} => Latest("lasted", l, n + 1, d, ran'[d])
    <3>1. /\ Latest("began", log, n, d, startedAt[d])
          /\ run[d] \notin {"up", "gone"} => Latest("lasted", log, n, d, ran[d])
      BY <1>1 DEF Lengths
    <3>2. /\ Notes("began", e) <=> e.action = "start"
          /\ Notes("lasted", e) <=> e.action \in {"die", "oom"}
          /\ Says("began", e) = now /\ Says("lasted", e) = e.ran
      BY DEF Notes, Says
    <3>3. Latest("began", l, n + 1, d, startedAt'[d])
      BY <1>6, <3>1, <3>2
    <3>4. run'[d] \notin {"up", "gone"} => Latest("lasted", l, n + 1, d, ran'[d])
      BY <1>6, <3>1, <3>2
    <3> QED BY <3>3, <3>4
  <2>2. ASSUME NEW i \in 1..n + 1
        PROVE  /\ l[i].ran \in 0..now
               /\ l[i].action \in {"die", "oom"} =>
                     Latest("began", l, i - 1, l[i].id, l[i].time - l[i].ran)
               /\ l[i].action = "start" => Latest("lasted", l, i - 1, l[i].id, l[i].ran)
    <3>1. CASE i = n + 1
      <4>1. i - 1 = n /\ l[i] = e
        BY <1>1, <1>2, <1>5, <3>1
      <4>2. /\ Latest("began", log, n, c, startedAt[c])
            /\ run[c] \notin {"up", "gone"} => Latest("lasted", log, n, c, ran[c])
        BY <1>1 DEF Lengths
      <4>3. \A kind, v : Latest(kind, l, n, c, v) <=> Latest(kind, log, n, c, v)
        BY <1>4, <1>5
      <4>4. e.action \in {"die", "oom"} => now - e.ran = startedAt[c]
        <5>1. now \in Int /\ startedAt[c] \in Int
          BY <1>1 DEF PInv, IInv, Shapes
        <5> QED BY <5>1
      <4> HIDE DEF n
      <4> QED BY <4>1, <4>2, <4>3, <4>4
    <3>2. CASE i # n + 1
      <4>1. i \in 1..n /\ l[i] = log[i]
        BY <1>1, <1>2, <1>5, <3>2
      <4>2. \A kind, d, v : Latest(kind, l, i - 1, d, v) <=> Latest(kind, log, i - 1, d, v)
        BY <1>3, <1>5, <4>1
      <4>3. /\ log[i].ran \in 0..now
            /\ log[i].action \in {"die", "oom"} =>
                  Latest("began", log, i - 1, log[i].id, log[i].time - log[i].ran)
            /\ log[i].action = "start" => Latest("lasted", log, i - 1, log[i].id, log[i].ran)
        BY <1>1, <4>1 DEF Lengths
      <4> QED BY <4>1, <4>2, <4>3
    <3> QED BY <3>1, <3>2
  <2> HIDE DEF n
  <2> QED BY <1>2, <1>5, <2>1, <2>2 DEF Lengths
<1> QED BY <1>7, <1>8, <1>9 DEF WorldPast

(* IInv is kept, as shown above; this is the rest.                         *)
LEMMA PastWorlds == PInv /\ World => PInv'
<1> SUFFICES ASSUME PInv, World PROVE PInv'
  OBVIOUS
<1>1. IInv'
  BY Worlds DEF PInv
<1> SUFFICES WorldPast' /\ CrashMarks' /\ Counts' /\ RunsKnown'
  BY <1>1 DEF PInv
<1>2. /\ DOMAIN run = Containers /\ now \in Nat /\ now \in 0..now
      /\ fell \in [Containers -> BOOLEAN] /\ asked \in [Containers -> BOOLEAN]
      /\ oomed \in [Containers -> BOOLEAN]
      /\ startedAt \in [Containers -> 0..now] /\ ran \in [Containers -> 0..now]
      /\ \A c \in Containers : now - startedAt[c] \in 0..now
  <2>1. now \in Nat /\ startedAt \in [Containers -> 0..now]
    BY DEF PInv, IInv, Shapes, WorldPast, Lengths
  <2>2. \A c \in Containers : now - startedAt[c] \in 0..now
    BY <2>1
  <2> QED BY <2>1, <2>2 DEF PInv, IInv, Shapes, WorldPast, Lengths
<1>3. \A c \in Containers : run[c] = "up" => ~fell[c]
  BY DEF PInv, WorldPast, Falls
<1>4. ASSUME NEW c \in Containers, Create(c)
      PROVE  WorldPast' /\ CrashMarks' /\ Counts' /\ RunsKnown'
  <2>1. PICK e : e = Event("create", c)
    OBVIOUS
  <2>2. e \in Events /\ e.id = c /\ e.action = "create" /\ e.time = now /\ e.ran = 0
    BY <2>1, EventShape DEF Event, Actions, PInv
  <2>3. log' = Append(log, e) /\ UNCHANGED Nodux /\ UNCHANGED now
    BY <1>4, <2>1 DEF Create, Emit, Nodux
  <2>4. run[c] = "none" /\ run' = [run EXCEPT ![c] = "down"]
        /\ UNCHANGED <<asked, oomed, fell, startedAt, ran>>
    BY <1>4 DEF Create
  <2>5. ~Sets("fall", e) /\ ~Over(e)
    BY <2>2 DEF Sets, Over
  <2>6. WorldPast'
    BY <1>2, <1>3, <2>2, <2>3, <2>4, <2>5, PastGrows
  <2> QED BY <1>2, <2>3, <2>4, <2>6, PastStays
<1>5. ASSUME NEW c \in Containers, Start(c)
      PROVE  WorldPast' /\ CrashMarks' /\ Counts' /\ RunsKnown'
  <2>1. PICK e : e = [Event("start", c) EXCEPT !.crash = fell[c], !.ran = ran[c]]
    OBVIOUS
  <2>2. e = [action |-> "start", id |-> c, time |-> now, signal |-> "none",
             asked |-> FALSE, oomed |-> FALSE, crash |-> fell[c], bad |-> FALSE,
             ran |-> ran[c]]
    BY <2>1 DEF Event
  <2>3. e \in Events
    BY <1>2, <2>2 DEF Events, Actions
  <2>4. log' = Append(log, e) /\ UNCHANGED Nodux /\ UNCHANGED now
    BY <1>5, <2>1 DEF Start, Emit, Nodux
  <2>5. /\ run[c] = "down" /\ run' = [run EXCEPT ![c] = "up"]
        /\ fell' = [fell EXCEPT ![c] = FALSE]
        /\ startedAt' = [startedAt EXCEPT ![c] = now] /\ ran' = ran
    BY <1>5 DEF Start
  <2>6. ~Sets("fall", e) /\ Over(e)
    BY <2>2 DEF Sets, Over
  <2>7. startedAt' \in [Containers -> 0..now]
    BY <1>2, <2>5
  <2>8. WorldPast'
    BY <1>2, <1>3, <2>2, <2>3, <2>4, <2>5, <2>6, <2>7, PastGrows
  <2> QED BY <1>2, <2>4, <2>5, <2>8, PastStays
<1>6. ASSUME NEW c \in Containers, NEW signal \in Signals, Kill(c, signal)
      PROVE  WorldPast' /\ CrashMarks' /\ Counts' /\ RunsKnown'
  <2>1. PICK e : e = [Event("kill", c) EXCEPT !.signal = signal]
    OBVIOUS
  <2>2. e = [action |-> "kill", id |-> c, time |-> now, signal |-> signal,
             asked |-> FALSE, oomed |-> FALSE, crash |-> FALSE, bad |-> FALSE, ran |-> 0]
    BY <2>1 DEF Event
  <2>3. e \in Events
    BY <1>2, <2>2 DEF Events, Actions
  <2>4. log' = Append(log, e) /\ UNCHANGED Nodux /\ UNCHANGED now
    BY <1>6, <2>1 DEF Kill, Emit, Nodux
  <2>5. run[c] = "up" /\ UNCHANGED <<run, oomed, fell, startedAt, ran>>
    BY <1>6 DEF Kill
  <2>6. ~Sets("fall", e) /\ ~Over(e)
    BY <2>2 DEF Sets, Over
  <2>7. WorldPast'
    <3>1. e.id = c /\ e.time = now /\ e.action = "kill" /\ e.ran = 0
      BY <2>2
    <3> HIDE DEF PInv
    <3> QED BY <1>2, <1>3, <2>3, <2>4, <2>5, <2>6, <3>1, PastGrows
  <2> QED BY <2>4, <2>5, <2>7, PastStays
<1>7. ASSUME NEW c \in Containers, OOM(c)
      PROVE  WorldPast' /\ CrashMarks' /\ Counts' /\ RunsKnown'
  <2>1. PICK e : e = [Event("oom", c) EXCEPT !.ran = now - startedAt[c]]
    OBVIOUS
  <2>2. e = [action |-> "oom", id |-> c, time |-> now, signal |-> "none",
             asked |-> FALSE, oomed |-> FALSE, crash |-> FALSE, bad |-> FALSE,
             ran |-> now - startedAt[c]]
    BY <2>1 DEF Event
  <2>3. e \in Events
    BY <1>2, <2>2 DEF Events, Actions
  <2>4. log' = Append(log, e) /\ UNCHANGED Nodux /\ UNCHANGED now
    BY <1>7, <2>1 DEF OOM, Emit, Nodux
  <2>5. run[c] = "up" /\ UNCHANGED <<run, fell, startedAt, ran>>
    BY <1>7 DEF OOM
  <2>6. ~Sets("fall", e) /\ ~Over(e)
    BY <2>2 DEF Sets, Over
  <2>7. WorldPast'
    <3>1. e.id = c /\ e.time = now /\ e.action = "oom" /\ e.ran = now - startedAt[c]
      BY <2>2
    <3>2. e.ran \in 0..now
      BY <1>2, <3>1
    <3> HIDE DEF PInv
    <3> QED BY <1>2, <1>3, <2>3, <2>4, <2>5, <2>6, <3>1, <3>2, PastGrows
  <2> QED BY <2>4, <2>5, <2>7, PastStays
<1>8. ASSUME NEW c \in Containers, NEW bad \in Bad, Die(c, bad)
      PROVE  WorldPast' /\ CrashMarks' /\ Counts' /\ RunsKnown'
  <2>1. PICK e : e = [Event("die", c) EXCEPT !.bad = bad, !.asked = asked[c],
                                             !.oomed = oomed[c], !.ran = now - startedAt[c]]
    OBVIOUS
  <2>2. e = [action |-> "die", id |-> c, time |-> now, signal |-> "none",
             asked |-> asked[c], oomed |-> oomed[c], crash |-> FALSE, bad |-> bad,
             ran |-> now - startedAt[c]]
    BY <2>1 DEF Event
  <2>3. e \in Events
    <3>1. bad \in BOOLEAN
      BY DetectorAssumption
    <3> QED BY <1>2, <2>2, <3>1 DEF Events, Actions
  <2>4. log' = Append(log, e) /\ UNCHANGED Nodux /\ UNCHANGED now
    BY <1>8, <2>1 DEF Die, Emit, Nodux
  <2>5. /\ run[c] = "up" /\ run' = [run EXCEPT ![c] = "down"]
        /\ fell' = [fell EXCEPT ![c] = ~asked[c]]
        /\ ran' = [ran EXCEPT ![c] = now - startedAt[c]] /\ startedAt' = startedAt
    BY <1>8 DEF Die
  <2>6. (Sets("fall", e) <=> ~asked[c]) /\ ~Over(e)
    BY <2>2 DEF Sets, Over
  <2>7. ran' \in [Containers -> 0..now]
    BY <1>2, <2>5
  <2>8. WorldPast'
    <3>1. \A d \in Containers : d # c =>
            run'[d] = run[d] /\ fell'[d] = fell[d] /\ startedAt'[d] = startedAt[d]
            /\ ran'[d] = ran[d]
      BY <1>2, <2>5
    <3>2. run'[c] = "down" /\ fell'[c] = ~asked[c] /\ ran'[c] = now - startedAt[c]
      BY <1>2, <2>5
    <3>3. e.id = c /\ e.time = now /\ e.action = "die" /\ e.ran = now - startedAt[c]
      BY <2>2
    <3>4. fell'[c] <=> Sets("fall", e) \/ (fell[c] /\ ~Over(e))
      BY <1>3, <2>5, <2>6, <3>2
    <3> QED BY <1>2, <2>3, <2>4, <2>5, <2>7, <3>1, <3>2, <3>3, <3>4, PastGrows
  <2> QED BY <1>2, <2>4, <2>5, <2>8, PastStays
<1>9. ASSUME NEW c \in Containers, Destroy(c)
      PROVE  WorldPast' /\ CrashMarks' /\ Counts' /\ RunsKnown'
  <2>1. PICK e : e = Event("destroy", c)
    OBVIOUS
  <2>2. e \in Events /\ e.id = c /\ e.action = "destroy" /\ e.time = now /\ e.ran = 0
    BY <2>1, EventShape DEF Event, Actions, PInv
  <2>3. log' = Append(log, e) /\ UNCHANGED Nodux /\ UNCHANGED now
    BY <1>9, <2>1 DEF Destroy, Emit, Nodux
  <2>4. run[c] = "down" /\ run' = [run EXCEPT ![c] = "gone"]
        /\ UNCHANGED <<asked, oomed, fell, startedAt, ran>>
    BY <1>9 DEF Destroy
  <2>5. WorldPast'
    BY <1>2, <1>3, <2>2, <2>3, <2>4, PastGrows
  <2> QED BY <1>2, <2>3, <2>4, <2>5, PastStays
<1> QED BY <1>4, <1>5, <1>6, <1>7, <1>8, <1>9 DEF World

LEMMA PastTicks == PInv /\ Tick => PInv'
<1> SUFFICES ASSUME PInv, Tick PROVE PInv'
  OBVIOUS
<1>1. IInv'
  BY Ticks DEF PInv
<1>2. /\ now \in Nat /\ now' \in Nat /\ now <= now' /\ now \in 1..Horizon /\ now' \in 1..Horizon'
      /\ UNCHANGED <<store, world, up, faults, pos, marks, loops, runs, lastAlert, hit, poll,
                     lastSeen, alerts, saved, past>>
  <2>1. now \in Nat /\ now \in 1..Horizon
    BY DEF PInv, IInv, Shapes, WorldPast, Times
  <2>2. Horizon \in Nat /\ Horizon' = Horizon
    <3>1. MaxTime \in {MaxEvents, MaxLag, MaxTime, MaxSaves, MaxCrashes}
      OBVIOUS
    <3>2. MaxTime \in Nat /\ Grace \in Nat
      BY <3>1, DetectorAssumption
    <3> QED BY <3>2 DEF Horizon
  <2> QED BY <2>1, <2>2 DEF Tick
<1>3. UNCHANGED <<run, fell, startedAt, ran, log, up, pos, saved, stops, crashed, restarts,
                  starts, lastRuns, alerts, misled>>
  BY <1>2 DEF world, marks, loops, runs, past
<1>4. (\A t \in 0..now : t \in 0..now') /\ (\A t \in 1..now : t \in 1..now')
  BY <1>2
<1>5. WorldPast'
  <2>1. Falls'
    BY <1>3 DEF PInv, WorldPast, Falls
  <2>2. Times'
    BY <1>2, <1>3, <1>4 DEF PInv, WorldPast, Times
  <2>3. Lengths'
    <3>1. startedAt \in [Containers -> 0..now'] /\ ran \in [Containers -> 0..now']
      BY <1>4 DEF PInv, WorldPast, Lengths
    <3> QED BY <1>3, <1>4, <3>1 DEF PInv, WorldPast, Lengths
  <2> QED BY <2>1, <2>2, <2>3 DEF WorldPast
<1>6. CrashMarks'
  BY <1>3 DEF PInv, CrashMarks, FallsOf
<1>7. Counts'
  <2>1. ASSUME NEW p, NEW rs, CountsOf(p, rs)
        PROVE  /\ rs \in [Containers -> Seq(1..now')]
               /\ \A c \in Containers \ misled : run[c] # "gone" =>
                     \A t \in Int : t >= now' - Window =>
                        Len(Within(rs[c], t)) = Cardinality(Restarted(c, p, t))
    <3>1. Seq(1..now) \subseteq Seq(1..now')
      <4>1. PICK A, B : A = 1..now /\ B = 1..now'
        OBVIOUS
      <4>2. A \subseteq B
        BY <1>4, <4>1
      <4>3. Seq(A) \subseteq Seq(B)
        BY <4>2
      <4> QED BY <4>1, <4>3
    <3>2. \A t \in Int : t >= now' - Window => t >= now - Window
      <4>1. Window \in Nat
        BY DetectorAssumption
      <4>2. PICK u \in Nat : u = now'
        BY <1>2
      <4>3. PICK v \in Nat : v = now /\ v <= u
        BY <1>2, <4>2
      <4>4. \A t \in Int : t >= u - Window => t >= v - Window
        BY <4>1, <4>3
      <4> QED BY <4>2, <4>3, <4>4
    <3> QED BY <2>1, <3>1, <3>2 DEF CountsOf
  <2>3. CountsOf(pos, restarts) /\ CountsOf(saved.pos, saved.restarts)
    BY DEF PInv, Counts
  <2>4. /\ \A c, t : Restarted(c, pos, t)' = Restarted(c, pos, t)
        /\ \A c, t : Restarted(c, saved.pos, t)' = Restarted(c, saved.pos, t)
    BY <1>3 DEF Restarted
  <2>5. CountsOf(pos, restarts)'
    <3>1. /\ restarts \in [Containers -> Seq(1..now')]
          /\ \A c \in Containers \ misled : run[c] # "gone" =>
                \A t \in Int : t >= now' - Window =>
                   Len(Within(restarts[c], t)) = Cardinality(Restarted(c, pos, t))
      BY <2>1, <2>3
    <3> QED BY <1>3, <2>4, <3>1 DEF CountsOf
  <2>6. CountsOf(saved.pos, saved.restarts)'
    <3>1. /\ saved.restarts \in [Containers -> Seq(1..now')]
          /\ \A c \in Containers \ misled : run[c] # "gone" =>
                \A t \in Int : t >= now' - Window =>
                   Len(Within(saved.restarts[c], t)) = Cardinality(Restarted(c, saved.pos, t))
      BY <2>1, <2>3
    <3> QED BY <1>3, <2>4, <3>1 DEF CountsOf
  <2> QED BY <2>5, <2>6 DEF Counts
<1>8. RunsKnown'
  <2>1. starts \in [Containers -> 0..now'] /\ lastRuns \in [Containers -> 0..now']
    BY <1>4 DEF PInv, RunsKnown
  <2> QED BY <1>3, <1>4, <2>1 DEF PInv, RunsKnown
<1> QED BY <1>1, <1>5, <1>6, <1>7, <1>8 DEF PInv

-----------------------------------------------------------------------------
(* The events, for the second invariant.                                   *)
LEMMA WorldStays ==
    ASSUME WorldPast, UNCHANGED <<now, log, run, fell, startedAt, ran>>
    PROVE  WorldPast'
<1>1. Falls'
  BY DEF WorldPast, Falls
<1>2. Times'
  BY DEF WorldPast, Times, Horizon
<1>3. Lengths'
  BY DEF WorldPast, Lengths
<1> QED BY <1>1, <1>2, <1>3 DEF WorldPast

LEMMA TurnFalls ==
    ASSUME PInv, NEW action, Turn(action), misled \subseteq misled',
           crashed' \in [Containers -> BOOLEAN],
           \A c \in Containers \ misled' : run[c] # "gone" =>
              /\ stops'["crashloop"][c] <=> \/ Ev.id = c /\ Sets("stop", Ev)
                                            \/ stops["crashloop"][c] /\ ~(Ev.id = c /\ Over(Ev))
              /\ crashed'[c] <=> \/ Ev.id = c /\ Sets("fall", Ev)
                                 \/ crashed[c] /\ ~(Ev.id = c /\ Over(Ev))
    PROVE  CrashMarks'
<1>1. /\ pos \in Nat /\ pos' = pos + 1 /\ Ev = log[pos + 1]
      /\ UNCHANGED <<log, run, saved>>
  BY TurnIs DEF PInv
<1>2. FallsOf(pos, stops, crashed) /\ FallsOf(saved.pos, saved.stops, saved.crashed)
  BY DEF PInv, CrashMarks
<1>3. ASSUME NEW c \in Containers \ misled', run[c] # "gone"
      PROVE  /\ stops'["crashloop"][c] <=> MarkedBy("stop", log, pos + 1, c)
             /\ crashed'[c] <=> MarkedBy("fall", log, pos + 1, c)
  <2>1. c \in Containers \ misled
    OBVIOUS
  <2>2. /\ stops["crashloop"][c] <=> MarkedBy("stop", log, pos, c)
        /\ crashed[c] <=> MarkedBy("fall", log, pos, c)
    BY <1>2, <1>3, <2>1 DEF FallsOf
  <2>3. \A kind : MarkedBy(kind, log, pos + 1, c) <=>
           \/ Ev.id = c /\ Sets(kind, Ev)
           \/ MarkedBy(kind, log, pos, c) /\ ~(Ev.id = c /\ Over(Ev))
    BY <1>1, MarkGrows
  <2> QED BY <1>3, <2>2, <2>3
<1>4. FallsOf(pos, stops, crashed)'
  BY <1>1, <1>3 DEF FallsOf
<1>5. FallsOf(saved.pos, saved.stops, saved.crashed)'
  BY <1>1, <1>2 DEF FallsOf
<1> QED BY <1>4, <1>5 DEF CrashMarks

LEMMA TurnCounts ==
    ASSUME PInv, NEW action, Turn(action), misled \subseteq misled',
           restarts' \in [Containers -> Seq(1..now)],
           \A c \in Containers \ misled' : run[c] # "gone" =>
              \A t \in Int : t >= now - Window =>
                 Len(Within(restarts'[c], t)) =
                    IF Ev.id = c /\ Ev.action = "start" /\ Ev.crash /\ Ev.time > t
                    THEN Len(Within(restarts[c], t)) + 1 ELSE Len(Within(restarts[c], t))
    PROVE  Counts'
<1>1. /\ pos \in Nat /\ pos' = pos + 1 /\ Ev = log[pos + 1]
      /\ UNCHANGED <<now, log, run, saved>>
  BY TurnIs DEF PInv
<1>2. CountsOf(pos, restarts) /\ CountsOf(saved.pos, saved.restarts)
  BY DEF PInv, Counts
<1>3. ASSUME NEW c \in Containers \ misled', run[c] # "gone", NEW t \in Int, t >= now - Window
      PROVE  Len(Within(restarts'[c], t)) = Cardinality(Restarted(c, pos + 1, t))
  <2>1. c \in Containers \ misled
    OBVIOUS
  <2>2. Len(Within(restarts[c], t)) = Cardinality(Restarted(c, pos, t))
    BY <1>2, <1>3, <2>1 DEF CountsOf
  <2>3. Cardinality(Restarted(c, pos + 1, t)) =
          IF Ev.id = c /\ Ev.action = "start" /\ Ev.crash /\ Ev.time > t
          THEN Cardinality(Restarted(c, pos, t)) + 1 ELSE Cardinality(Restarted(c, pos, t))
    BY <1>1, RestartedIs
  <2> QED BY <1>3, <2>2, <2>3
<1>4. /\ \A c, t : Restarted(c, pos, t)' = Restarted(c, pos + 1, t)
      /\ \A c, t : Restarted(c, saved.pos, t)' = Restarted(c, saved.pos, t)
  BY <1>1 DEF Restarted
<1>5. CountsOf(pos, restarts)'
  BY <1>1, <1>3, <1>4 DEF CountsOf
<1>6. CountsOf(saved.pos, saved.restarts)'
  BY <1>1, <1>2, <1>4 DEF CountsOf
<1> QED BY <1>5, <1>6 DEF Counts

LEMMA TurnRuns ==
    ASSUME PInv, NEW action, Turn(action),
           starts' \in [Containers -> 0..now], lastRuns' \in [Containers -> 0..now],
           \A c \in Containers :
              /\ starts'[c] # 0 => IF Ev.id = c /\ Notes("began", Ev) THEN starts'[c] = Ev.time
                                   ELSE starts'[c] = starts[c]
              /\ lastRuns'[c] # 0 => IF Ev.id = c /\ Notes("lasted", Ev) THEN lastRuns'[c] = Ev.ran
                                     ELSE lastRuns'[c] = lastRuns[c]
    PROVE  RunsKnown'
<1>1. /\ pos \in Nat /\ pos' = pos + 1 /\ Ev = log[pos + 1] /\ up'
      /\ UNCHANGED <<now, log, alerts>>
  BY TurnIs DEF PInv
<1>2. RunsKnown
  BY DEF PInv
<1>3. ASSUME NEW c \in Containers
      PROVE  /\ starts'[c] # 0 => Latest("began", log, pos + 1, c, starts'[c])
             /\ lastRuns'[c] # 0 => Latest("lasted", log, pos + 1, c, lastRuns'[c])
  <2>1. /\ starts[c] # 0 => Latest("began", log, pos, c, starts[c])
        /\ lastRuns[c] # 0 => Latest("lasted", log, pos, c, lastRuns[c])
    BY <1>2 DEF RunsKnown
  <2>2. \A kind, v : Latest(kind, log, pos + 1, c, v) <=>
          IF Ev.id = c /\ Notes(kind, Ev) THEN v = Says(kind, Ev)
          ELSE Latest(kind, log, pos, c, v)
    BY <1>1, LatestGrows
  <2>3. Says("began", Ev) = Ev.time /\ Says("lasted", Ev) = Ev.ran
    BY DEF Says
  <2> QED BY <2>1, <2>2, <2>3
<1>4. \A i \in 1..pos : i \in 1..pos + 1
  BY <1>1
<1> QED BY <1>1, <1>2, <1>3, <1>4 DEF RunsKnown

(* An event that has no part in a container's past.                        *)
LEMMA TurnPasses ==
    ASSUME PInv, NEW action, Turn(action), action \in {"create", "kill"}, misled \subseteq misled',
           UNCHANGED <<crashed, restarts, starts, lastRuns>>,
           \A c \in Containers \ misled' :
              stops'["crashloop"][c] <=> (Ev.id = c /\ Sets("stop", Ev)) \/ stops["crashloop"][c]
    PROVE  WorldPast' /\ CrashMarks' /\ Counts' /\ RunsKnown'
<1>1. /\ Ev.action = action /\ UNCHANGED <<now, log, run, fell, startedAt, ran>>
  BY TurnIs DEF PInv
<1>2. ~Over(Ev) /\ ~Sets("fall", Ev) /\ ~Notes("began", Ev) /\ ~Notes("lasted", Ev)
      /\ Ev.action # "start"
  BY <1>1 DEF Over, Sets, Notes
<1>3. WorldPast'
  BY <1>1, WorldStays DEF PInv
<1>4. CrashMarks'
  <2>1. crashed' \in [Containers -> BOOLEAN]
    BY DEF PInv, CrashMarks, FallsOf
  <2> HIDE DEF PInv
  <2> QED BY <1>2, <2>1, TurnFalls
<1>5. Counts'
  <2>1. restarts' \in [Containers -> Seq(1..now)]
    BY DEF PInv, Counts, CountsOf
  <2> QED BY <1>2, <2>1, TurnCounts
<1>6. RunsKnown'
  <2>1. starts' \in [Containers -> 0..now] /\ lastRuns' \in [Containers -> 0..now]
    BY DEF PInv, RunsKnown
  <2> QED BY <1>2, <2>1, TurnRuns
<1> QED BY <1>3, <1>4, <1>5, <1>6

LEMMA PastCreates == PInv /\ OnCreate => PInv'
<1> SUFFICES ASSUME PInv, OnCreate PROVE PInv'
  OBVIOUS
<1>1. Turn("create") /\ UNCHANGED <<stops, crashed, restarts, starts, lastRuns, misled>>
  BY DEF OnCreate, marks, loops, runs
<1>2. Ev.action = "create"
  BY <1>1, TurnIs DEF PInv
<1>3. ~Sets("stop", Ev)
  BY <1>2 DEF Sets
<1>4. WorldPast' /\ CrashMarks' /\ Counts' /\ RunsKnown'
  <2> HIDE DEF PInv
  <2> QED BY <1>1, <1>3, TurnPasses
<1> QED BY <1>4, Creates DEF PInv

LEMMA PastKills == PInv /\ OnKill => PInv'
<1> SUFFICES ASSUME PInv, OnKill PROVE PInv'
  OBVIOUS
<1>1. Turn("kill") /\ UNCHANGED <<crashed, restarts, starts, lastRuns>>
  BY DEF OnKill, loops, runs
<1>2. Ev.action = "kill" /\ Ev.id \in Containers /\ Ev \in Events
  BY <1>1, TurnIs DEF PInv
<1>3. PICK c \in Containers : c = Ev.id
  BY <1>2
<1>4. PICK seen \in Inspects(c) :
        LET stop == IsStopRequest(Ev.signal, IF seen THEN StopSignal[c] ELSE "unknown")
        IN /\ IF stop THEN Observe(c, TRUE) /\ OpenWindow(c, Ev.time)
              ELSE UNCHANGED <<stops, store>>
           /\ misled' = IF ~stop /\ Ev.signal = StopSignal[c] THEN misled \cup {c} ELSE misled
  BY <1>3 DEF OnKill
<1>5. PICK stop \in BOOLEAN :
        stop = IsStopRequest(Ev.signal, IF seen THEN StopSignal[c] ELSE "unknown")
  BY DEF IsStopRequest
<1>6. /\ IF stop THEN Observe(c, TRUE) /\ OpenWindow(c, Ev.time) ELSE UNCHANGED <<stops, store>>
      /\ misled' = IF ~stop /\ Ev.signal = StopSignal[c] THEN misled \cup {c} ELSE misled
  BY <1>4, <1>5
<1>7. misled \subseteq misled'
  BY <1>6
<1>8. c \notin misled' => (stop <=> Ev.signal \in {"term", StopSignal[c]})
  <2>1. Ev.signal # "unknown"
    BY <1>2, DetectorAssumption DEF Events
  <2> QED BY <1>5, <1>6, <2>1 DEF IsStopRequest
<1>9. Sets("stop", Ev) <=> Ev.signal \in {"term", StopSignal[c]}
  BY <1>2, <1>3 DEF Sets
<1>10. \A d \in Containers : stops'["crashloop"][d] <=> (d = c /\ stop) \/ stops["crashloop"][d]
  <2>1. Tracks(stops, ooms, firing)
    BY DEF PInv, IInv, Marks
  <2>2. CASE stop
    BY <1>6, <2>1, <2>2, ObserveIs
  <2>3. CASE ~stop
    BY <1>6, <2>3
  <2> QED BY <2>2, <2>3
<1>11. WorldPast' /\ CrashMarks' /\ Counts' /\ RunsKnown'
  <2>1. \A d \in Containers \ misled' :
          stops'["crashloop"][d] <=> (Ev.id = d /\ Sets("stop", Ev)) \/ stops["crashloop"][d]
    BY <1>3, <1>8, <1>9, <1>10
  <2> HIDE DEF PInv
  <2> QED BY <1>1, <1>7, <2>1, TurnPasses
<1> QED BY <1>11, Kills DEF PInv

(* How long the run was that an oom or a death ends, if its start is known. *)
LEMMA EndNoted ==
    ASSUME PInv, NEW action, Turn(action), action \in {"oom", "die"}, NoteEnd, starts' = starts
    PROVE  RunsKnown'
<1>1. /\ pos \in Nat /\ pos + 1 \in 1..Len(log) /\ Ev = log[pos + 1] /\ Ev.action = action
      /\ Ev.id \in Containers
  BY TurnIs DEF PInv
<1>2. /\ starts \in [Containers -> 0..now] /\ lastRuns \in [Containers -> 0..now]
      /\ starts[Ev.id] # 0 => Latest("began", log, pos, Ev.id, starts[Ev.id])
      /\ now \in Nat
  BY <1>1 DEF PInv, RunsKnown, IInv, Shapes
<1>3. /\ Ev.ran \in 0..now /\ Ev.time \in 1..now
      /\ Latest("began", log, pos, Ev.id, Ev.time - Ev.ran)
  <2>1. PICK q \in 1..Len(log) : q = pos + 1 /\ q - 1 = pos
    BY <1>1
  <2>2. /\ log[q].ran \in 0..now
        /\ log[q].action \in {"die", "oom"} =>
              Latest("began", log, q - 1, log[q].id, log[q].time - log[q].ran)
    BY DEF PInv, WorldPast, Lengths
  <2>3. log[q].time \in 1..now
    BY DEF PInv, WorldPast, Times
  <2> QED BY <1>1, <2>1, <2>2, <2>3
<1>4. PICK v : v = IF starts[Ev.id] # 0 /\ Ev.time > starts[Ev.id]
                   THEN Ev.time - starts[Ev.id] ELSE 0
  OBVIOUS
<1>5. lastRuns' = [lastRuns EXCEPT ![Ev.id] = v]
  BY <1>4 DEF NoteEnd
<1>6. v \in {0, Ev.ran}
  <2>1. CASE starts[Ev.id] # 0
    <3>1. starts[Ev.id] = Ev.time - Ev.ran
      BY <1>1, <1>2, <1>3, <2>1, LatestOne
    <3> QED BY <1>2, <1>3, <1>4, <3>1
  <2>2. CASE starts[Ev.id] = 0
    BY <1>4, <2>2
  <2> QED BY <2>1, <2>2
<1>7. lastRuns' \in [Containers -> 0..now]
  <2>1. v \in 0..now
    BY <1>2, <1>3, <1>6
  <2> QED BY <1>2, <1>5, <2>1
<1>8. ~Notes("began", Ev) /\ Notes("lasted", Ev)
  BY <1>1 DEF Notes
<1>9. \A c \in Containers : lastRuns'[c] = IF c = Ev.id THEN v ELSE lastRuns[c]
  BY <1>2, <1>5
<1> HIDE DEF PInv
<1> QED BY <1>2, <1>6, <1>7, <1>8, <1>9, TurnRuns

LEMMA PastOoms == PInv /\ OnOOM => PInv'
<1> SUFFICES ASSUME PInv, OnOOM PROVE PInv'
  OBVIOUS
<1>1. Turn("oom") /\ NoteEnd /\ UNCHANGED <<stops, crashed, restarts, starts, misled>>
  BY DEF OnOOM, loops
<1>2. /\ Ev.action = "oom" /\ Ev.id \in Containers
      /\ UNCHANGED <<now, log, run, fell, startedAt, ran>>
  BY <1>1, TurnIs DEF PInv
<1>3. ~Sets("stop", Ev) /\ ~Sets("fall", Ev) /\ ~Over(Ev) /\ Ev.action # "start"
  BY <1>2 DEF Sets, Over
<1>4. WorldPast'
  BY <1>2, WorldStays DEF PInv
<1>5. crashed \in [Containers -> BOOLEAN] /\ restarts \in [Containers -> Seq(1..now)]
  BY DEF PInv, CrashMarks, FallsOf, Counts, CountsOf
<1>6. CrashMarks'
  <2> HIDE DEF PInv
  <2> QED BY <1>1, <1>3, <1>5, TurnFalls
<1>7. Counts'
  <2> HIDE DEF PInv
  <2> QED BY <1>1, <1>3, <1>5, TurnCounts
<1>8. RunsKnown'
  <2> HIDE DEF PInv
  <2> QED BY <1>1, EndNoted
<1> QED BY <1>4, <1>6, <1>7, <1>8, Ooms DEF PInv

LEMMA PastDies == PInv /\ OnDie => PInv'
<1> SUFFICES ASSUME PInv, OnDie PROVE PInv'
  OBVIOUS
<1>1. Turn("die") /\ NoteEnd /\ MarkDeath(Ev.id) /\ UNCHANGED <<stops, restarts, starts, misled>>
  BY DEF OnDie, loops
<1>2. /\ Ev = log[pos + 1] /\ Ev.action = "die" /\ Ev.id \in Containers
      /\ pos \in Nat /\ pos + 1 \in 1..Len(log)
      /\ UNCHANGED <<now, log, run, fell, startedAt, ran>>
  BY <1>1, TurnIs DEF PInv
<1>3. ~Sets("stop", Ev) /\ (Sets("fall", Ev) <=> ~Ev.asked) /\ ~Over(Ev) /\ Ev.action # "start"
  BY <1>2 DEF Sets, Over
<1>4. WorldPast'
  BY <1>2, WorldStays DEF PInv
<1>5. crashed \in [Containers -> BOOLEAN] /\ restarts \in [Containers -> Seq(1..now)]
      /\ stops \in [{"exit", "crashloop"} -> [Containers -> BOOLEAN]]
  BY DEF PInv, CrashMarks, FallsOf, Counts, CountsOf, IInv, Marks, Tracks
<1>6. Ev.id \notin misled /\ run[Ev.id] # "gone" =>
        (stops["crashloop"][Ev.id] <=> Ev.asked) /\ ~crashed[Ev.id]
  <2> SUFFICES ASSUME Ev.id \notin misled, run[Ev.id] # "gone"
               PROVE  (stops["crashloop"][Ev.id] <=> Ev.asked) /\ ~crashed[Ev.id]
    OBVIOUS
  <2>1. /\ stops["crashloop"][Ev.id] <=> MarkedBy("stop", log, pos, Ev.id)
        /\ crashed[Ev.id] <=> MarkedBy("fall", log, pos, Ev.id)
    BY <1>2 DEF PInv, CrashMarks, FallsOf
  <2>2. PICK q \in 1..Len(log) : q = pos + 1 /\ q - 1 = pos
    BY <1>2
  <2>3. log[q].asked <=> MarkedBy("stop", log, q - 1, log[q].id)
    BY <1>2, <2>2 DEF PInv, IInv, Truth
  <2>4. ~MarkedBy("fall", log, q - 1, log[q].id)
    BY <1>2, <2>2 DEF PInv, WorldPast, Falls
  <2> QED BY <1>2, <2>1, <2>2, <2>3, <2>4
<1>7. /\ crashed' \in [Containers -> BOOLEAN]
      /\ \A c \in Containers :
            crashed'[c] = IF c = Ev.id THEN ~stops["crashloop"][c] ELSE crashed[c]
  <2>1. crashed' = [crashed EXCEPT ![Ev.id] = ~stops["crashloop"][Ev.id]]
    BY <1>1 DEF MarkDeath
  <2>2. (~stops["crashloop"][Ev.id]) \in BOOLEAN
    OBVIOUS
  <2> QED BY <1>5, <2>1, <2>2
<1>8. CrashMarks'
  <2> HIDE DEF PInv
  <2> QED BY <1>1, <1>3, <1>6, <1>7, TurnFalls
<1>9. Counts'
  <2> HIDE DEF PInv
  <2> QED BY <1>1, <1>2, <1>3, <1>5, TurnCounts
<1>10. RunsKnown'
  <2> HIDE DEF PInv
  <2> QED BY <1>1, EndNoted
<1> QED BY <1>4, <1>8, <1>9, <1>10, Dies DEF PInv

LEMMA PastStarts == PInv /\ OnStart => PInv'
<1> SUFFICES ASSUME PInv, OnStart PROVE PInv'
  OBVIOUS
<1>1. /\ Turn("start") /\ Observe(Ev.id, FALSE) /\ UNCHANGED <<lastRuns, misled>>
      /\ crashed' = [crashed EXCEPT ![Ev.id] = FALSE]
      /\ starts' = [starts EXCEPT ![Ev.id] = Ev.time]
  BY DEF OnStart
<1>2. /\ Ev = log[pos + 1] /\ Ev.action = "start" /\ Ev.id \in Containers
      /\ pos \in Nat /\ pos + 1 \in 1..Len(log)
      /\ UNCHANGED <<now, log, run, fell, startedAt, ran>>
  BY <1>1, TurnIs DEF PInv
<1>3. ~Sets("stop", Ev) /\ ~Sets("fall", Ev) /\ Over(Ev)
      /\ Notes("began", Ev) /\ ~Notes("lasted", Ev)
  BY <1>2 DEF Sets, Over, Notes
<1>4. WorldPast'
  BY <1>2, WorldStays DEF PInv
<1>5. /\ crashed \in [Containers -> BOOLEAN] /\ restarts \in [Containers -> Seq(1..now)]
      /\ starts \in [Containers -> 0..now] /\ lastRuns \in [Containers -> 0..now]
      /\ Tracks(stops, ooms, firing) /\ now \in Nat
  BY DEF PInv, CrashMarks, FallsOf, Counts, CountsOf, RunsKnown, IInv, Marks, Shapes
<1>6. PICK q \in 1..Len(log) : q = pos + 1 /\ q - 1 = pos
  BY <1>2
<1>7. Ev.time \in 1..now
  BY <1>2, <1>6 DEF PInv, WorldPast, Times
<1>8. Ev.id \notin misled /\ run[Ev.id] # "gone" => (crashed[Ev.id] <=> Ev.crash)
  <2>1. log[q].crash <=> MarkedBy("fall", log, q - 1, log[q].id)
    BY <1>2, <1>6 DEF PInv, WorldPast, Falls
  <2>2. Ev.id \notin misled /\ run[Ev.id] # "gone" =>
          (crashed[Ev.id] <=> MarkedBy("fall", log, pos, Ev.id))
    BY <1>2 DEF PInv, CrashMarks, FallsOf
  <2> QED BY <1>2, <1>6, <2>1, <2>2
<1>9. CrashMarks'
  <2>1. /\ crashed' \in [Containers -> BOOLEAN]
        /\ \A c \in Containers : crashed'[c] = IF c = Ev.id THEN FALSE ELSE crashed[c]
    BY <1>1, <1>5
  <2>2. \A c \in Containers :
          stops'["crashloop"][c] = IF c = Ev.id THEN FALSE ELSE stops["crashloop"][c]
    BY <1>1, <1>2, <1>5, ObserveIs
  <2> HIDE DEF PInv
  <2> QED BY <1>1, <1>3, <2>1, <2>2, TurnFalls
<1>10. Counts'
  <2>1. PICK c \in Containers : c = Ev.id
    BY <1>2
  <2>2. PICK x \in 1..now : x = Ev.time
    BY <1>7
  <2>3. PICK kept : kept = Within(Append(restarts[c], x), x - Window)
    OBVIOUS
  <2>4. restarts' = IF crashed[c] THEN [restarts EXCEPT ![c] = kept] ELSE restarts
    BY <2>1, <2>2, <2>3 DEF OnStart, Recorded
  <2>5. PICK S : S = 1..now
    OBVIOUS
  <2>6. restarts[c] \in Seq(S) /\ x \in S /\ S \in SUBSET Int
    BY <1>5, <2>5
  <2>7. Append(restarts[c], x) \in Seq(S)
    BY <2>6
  <2>8. kept \in Seq(S)
    BY <2>3, <2>7, WithinType
  <2>9. restarts' \in [Containers -> Seq(1..now)]
    BY <1>5, <2>4, <2>5, <2>8
  <2>10. ASSUME NEW t \in Int, t >= now - Window
         PROVE  Len(Within(kept, t)) = IF x > t THEN Len(Within(restarts[c], t)) + 1
                                       ELSE Len(Within(restarts[c], t))
    <3>1. x - Window \in Int /\ x - Window <= t
      <4>1. Window \in Nat
        BY DetectorAssumption
      <4> QED BY <1>5, <2>10, <4>1
    <3>2. Within(kept, t) = Within(Append(restarts[c], x), t)
      BY <2>3, <2>6, <2>7, <3>1, WithinTwice
    <3>3. Within(Append(restarts[c], x), t) =
            IF x > t THEN Append(Within(restarts[c], t), x) ELSE Within(restarts[c], t)
      BY <2>6, WithinAppend
    <3>4. PICK w \in Seq(S) : w = Within(restarts[c], t)
      BY <2>6, WithinType
    <3>5. Len(Append(w, x)) = Len(w) + 1
      BY <2>6, <3>4
    <3> QED BY <3>2, <3>3, <3>4, <3>5
  <2>11. ASSUME NEW d \in Containers \ misled', run[d] # "gone", NEW t \in Int, t >= now - Window
         PROVE  Len(Within(restarts'[d], t)) =
                   IF Ev.id = d /\ Ev.action = "start" /\ Ev.crash /\ Ev.time > t
                   THEN Len(Within(restarts[d], t)) + 1 ELSE Len(Within(restarts[d], t))
    <3>1. CASE d = c
      <4>1. crashed[c] <=> Ev.crash
        BY <1>1, <1>8, <2>1, <2>11, <3>1
      <4>2. restarts'[c] = IF Ev.crash THEN kept ELSE restarts[c]
        BY <1>5, <2>4, <4>1
      <4>3. CASE Ev.crash
        <5>1. restarts'[c] = kept
          BY <4>2, <4>3
        <5> QED BY <1>2, <2>1, <2>2, <2>10, <2>11, <3>1, <4>3, <5>1
      <4>4. CASE ~Ev.crash
        BY <3>1, <4>2, <4>4
      <4> QED BY <4>3, <4>4
    <3>2. CASE d # c
      <4>1. restarts'[d] = restarts[d]
        BY <1>5, <2>4, <3>2
      <4> QED BY <2>1, <3>2, <4>1
    <3> QED BY <3>1, <3>2
  <2>12. \A d \in Containers \ misled' : run[d] # "gone" =>
           \A t \in Int : t >= now - Window =>
              Len(Within(restarts'[d], t)) =
                 IF Ev.id = d /\ Ev.action = "start" /\ Ev.crash /\ Ev.time > t
                 THEN Len(Within(restarts[d], t)) + 1 ELSE Len(Within(restarts[d], t))
    BY <2>11
  <2>13. Turn("start") /\ misled \subseteq misled'
    BY <1>1
  <2> HIDE DEF PInv
  <2> QED BY <2>9, <2>12, <2>13, TurnCounts
<1>11. RunsKnown'
  <2>1. /\ starts' \in [Containers -> 0..now]
        /\ \A c \in Containers : starts'[c] = IF c = Ev.id THEN Ev.time ELSE starts[c]
    <3>1. PICK u \in 0..now : u = Ev.time
      BY <1>5, <1>7
    <3>2. starts' = [starts EXCEPT ![Ev.id] = u]
      BY <1>1, <3>1
    <3> QED BY <1>5, <3>1, <3>2
  <2> HIDE DEF PInv
  <2> QED BY <1>1, <1>3, <1>5, <2>1, TurnRuns
<1> QED BY <1>4, <1>9, <1>10, <1>11, Starts DEF PInv

LEMMA PastDestroys == PInv /\ OnDestroy => PInv'
<1> SUFFICES ASSUME PInv, OnDestroy PROVE PInv'
  OBVIOUS
<1>1. /\ Turn("destroy") /\ Observe(Ev.id, FALSE) /\ UNCHANGED misled
      /\ crashed' = [crashed EXCEPT ![Ev.id] = FALSE]
      /\ restarts' = [restarts EXCEPT ![Ev.id] = <<>>]
      /\ starts' = [starts EXCEPT ![Ev.id] = 0]
      /\ lastRuns' = [lastRuns EXCEPT ![Ev.id] = 0]
  BY DEF OnDestroy, Forget
<1>2. /\ Ev = log[pos + 1] /\ Ev.action = "destroy" /\ Ev.id \in Containers
      /\ pos \in Nat /\ pos + 1 \in 1..Len(log)
      /\ UNCHANGED <<now, log, run, fell, startedAt, ran>>
  BY <1>1, TurnIs DEF PInv
<1>3. ~Sets("stop", Ev) /\ ~Sets("fall", Ev) /\ Over(Ev) /\ Ev.action # "start"
      /\ ~Notes("began", Ev) /\ ~Notes("lasted", Ev)
  BY <1>2 DEF Sets, Over, Notes
<1>4. WorldPast'
  BY <1>2, WorldStays DEF PInv
<1>5. /\ crashed \in [Containers -> BOOLEAN] /\ restarts \in [Containers -> Seq(1..now)]
      /\ starts \in [Containers -> 0..now] /\ lastRuns \in [Containers -> 0..now]
      /\ Tracks(stops, ooms, firing) /\ now \in Nat
  BY DEF PInv, CrashMarks, FallsOf, Counts, CountsOf, RunsKnown, IInv, Marks, Shapes
<1>6. run[Ev.id] = "gone"
  <2>1. PICK q \in 1..Len(log) : q = pos + 1
    BY <1>2
  <2> QED BY <1>2, <2>1 DEF PInv, WorldPast, Falls
<1>7. CrashMarks'
  <2>1. /\ crashed' \in [Containers -> BOOLEAN]
        /\ \A c \in Containers : crashed'[c] = IF c = Ev.id THEN FALSE ELSE crashed[c]
    BY <1>1, <1>5
  <2>2. \A c \in Containers :
          stops'["crashloop"][c] = IF c = Ev.id THEN FALSE ELSE stops["crashloop"][c]
    BY <1>1, <1>2, <1>5, ObserveIs
  <2> HIDE DEF PInv
  <2> QED BY <1>1, <1>3, <2>1, <2>2, TurnFalls
<1>8. Counts'
  <2>1. <<>> \in Seq(1..now)
    OBVIOUS
  <2>2. /\ restarts' \in [Containers -> Seq(1..now)]
        /\ \A c \in Containers : c # Ev.id => restarts'[c] = restarts[c]
    BY <1>1, <1>5, <2>1
  <2>3. \A c \in Containers : run[c] # "gone" => restarts'[c] = restarts[c]
    BY <1>6, <2>2
  <2> HIDE DEF PInv
  <2> QED BY <1>1, <1>3, <2>2, <2>3, TurnCounts
<1>9. RunsKnown'
  <2>1. 0 \in 0..now
    BY <1>5
  <2>2. /\ starts' \in [Containers -> 0..now]
        /\ \A c \in Containers : starts'[c] = IF c = Ev.id THEN 0 ELSE starts[c]
    BY <1>1, <1>5, <2>1
  <2>3. /\ lastRuns' \in [Containers -> 0..now]
        /\ \A c \in Containers : lastRuns'[c] = IF c = Ev.id THEN 0 ELSE lastRuns[c]
    BY <1>1, <1>5, <2>1
  <2> HIDE DEF PInv
  <2> QED BY <1>1, <1>3, <2>2, <2>3, TurnRuns
<1> QED BY <1>4, <1>7, <1>8, <1>9, Destroys DEF PInv

-----------------------------------------------------------------------------
(* The other steps of nodux, for the second invariant.                     *)
LEMMA QuietPast ==
    ASSUME PInv, UNCHANGED <<now, log, run, fell, startedAt, ran, up, pos, saved, alerts, misled>>,
           crashed' \in [Containers -> BOOLEAN], restarts' \in [Containers -> Seq(1..now)],
           \A c \in Containers \ misled : run[c] # "gone" =>
              /\ stops'["crashloop"][c] = stops["crashloop"][c] /\ crashed'[c] = crashed[c]
              /\ \A t \in Int : t >= now - Window =>
                    Len(Within(restarts'[c], t)) = Len(Within(restarts[c], t)),
           starts' \in [Containers -> 0..now], lastRuns' \in [Containers -> 0..now],
           \A c \in Containers : starts'[c] \in {0, starts[c]} /\ lastRuns'[c] \in {0, lastRuns[c]}
    PROVE  WorldPast' /\ CrashMarks' /\ Counts' /\ RunsKnown'
<1>1. WorldPast'
  BY WorldStays DEF PInv
<1>2. CrashMarks'
  <2>1. FallsOf(pos, stops, crashed) /\ FallsOf(saved.pos, saved.stops, saved.crashed)
    BY DEF PInv, CrashMarks
  <2>2. FallsOf(pos, stops, crashed)'
    BY <2>1 DEF FallsOf
  <2>3. FallsOf(saved.pos, saved.stops, saved.crashed)'
    BY <2>1 DEF FallsOf
  <2> QED BY <2>2, <2>3 DEF CrashMarks
<1>3. Counts'
  <2>1. CountsOf(pos, restarts) /\ CountsOf(saved.pos, saved.restarts)
    BY DEF PInv, Counts
  <2>2. /\ \A c, t : Restarted(c, pos, t)' = Restarted(c, pos, t)
        /\ \A c, t : Restarted(c, saved.pos, t)' = Restarted(c, saved.pos, t)
    BY DEF Restarted
  <2>3. CountsOf(pos, restarts)'
    BY <2>1, <2>2 DEF CountsOf
  <2>4. CountsOf(saved.pos, saved.restarts)'
    BY <2>1, <2>2 DEF CountsOf
  <2> QED BY <2>3, <2>4 DEF Counts
<1>4. RunsKnown'
  BY DEF PInv, RunsKnown
<1> QED BY <1>1, <1>2, <1>3, <1>4

LEMMA PastTypes ==
    ASSUME PInv
    PROVE  /\ crashed \in [Containers -> BOOLEAN] /\ restarts \in [Containers -> Seq(1..now)]
           /\ starts \in [Containers -> 0..now] /\ lastRuns \in [Containers -> 0..now]
           /\ stops \in [{"exit", "crashloop"} -> [Containers -> BOOLEAN]]
           /\ now \in Nat /\ Window \in Nat
<1>1. Window \in Nat
  BY DetectorAssumption
<1> QED BY <1>1 DEF PInv, CrashMarks, FallsOf, Counts, CountsOf, RunsKnown, IInv, Marks, Tracks,
                    Shapes

LEMMA PastLooks == ASSUME NEW c \in Containers PROVE PInv /\ PollLook(c) => PInv'
<1> SUFFICES ASSUME PInv, PollLook(c) PROVE PInv'
  OBVIOUS
<1>1. UNCHANGED <<now, log, run, fell, startedAt, ran, up, pos, saved, alerts, misled, stops,
                  crashed, restarts, starts, lastRuns>>
  BY DEF PollLook, world, marks, loops, runs, past
<1>2. WorldPast' /\ CrashMarks' /\ Counts' /\ RunsKnown'
  BY <1>1, PastTypes, QuietPast
<1> QED BY <1>2, Looks DEF PInv

LEMMA PastStutters == PInv /\ UNCHANGED vars => PInv'
<1> SUFFICES ASSUME PInv, UNCHANGED vars PROVE PInv'
  OBVIOUS
<1>1. UNCHANGED <<now, log, run, fell, startedAt, ran, up, pos, saved, alerts, misled, stops,
                  crashed, restarts, starts, lastRuns>>
  BY DEF vars, world, marks, loops, runs, past
<1>2. WorldPast' /\ CrashMarks' /\ Counts' /\ RunsKnown'
  BY <1>1, PastTypes, QuietPast
<1> QED BY <1>2, Stutters DEF PInv

(* Check prunes what no later look would have counted.                     *)
LEMMA PastChecks == PInv /\ Check => PInv'
<1> SUFFICES ASSUME PInv, Check PROVE PInv'
  OBVIOUS
<1>1. UNCHANGED <<now, log, run, fell, startedAt, ran, up, pos, saved, alerts, misled, stops,
                  crashed, starts, lastRuns>>
  BY DEF Check, world, marks, runs, past
<1>2. PICK c, kept : /\ kept = Within(restarts[c], now - Window)
                     /\ restarts' = [restarts EXCEPT ![c] = kept]
  BY DEF Check
<1>3. ASSUME c \in Containers
      PROVE  /\ kept \in Seq(1..now)
             /\ \A t \in Int : t >= now - Window =>
                   Len(Within(kept, t)) = Len(Within(restarts[c], t))
  <2>1. PICK S : S = 1..now
    OBVIOUS
  <2>2. restarts[c] \in Seq(S) /\ S \in SUBSET Int /\ now - Window \in Int
    BY <1>3, <2>1, PastTypes
  <2>3. kept \in Seq(S)
    BY <1>2, <2>2, WithinType
  <2>4. ASSUME NEW t \in Int, t >= now - Window
        PROVE  Within(kept, t) = Within(restarts[c], t)
    <3>1. PICK a \in Int : a = now - Window /\ a <= t
      BY <2>2, <2>4
    <3> QED BY <1>2, <2>2, <3>1, WithinTwice
  <2> QED BY <2>1, <2>3, <2>4
<1>4. /\ restarts' \in [Containers -> Seq(1..now)]
      /\ \A d \in Containers : restarts'[d] = IF d = c THEN kept ELSE restarts[d]
  BY <1>2, <1>3, PastTypes
<1>5. \A d \in Containers, t \in Int : t >= now - Window =>
        Len(Within(restarts'[d], t)) = Len(Within(restarts[d], t))
  BY <1>3, <1>4
<1>6. WorldPast' /\ CrashMarks' /\ Counts' /\ RunsKnown'
  BY <1>1, <1>4, <1>5, PastTypes, QuietPast
<1> QED BY <1>6, Checks DEF PInv

LEMMA PastForgets == ASSUME NEW c \in Containers PROVE PInv /\ ForgetGone(c) => PInv'
<1> SUFFICES ASSUME PInv, ForgetGone(c) PROVE PInv'
  OBVIOUS
<1>1. /\ run[c] = "gone"
      /\ UNCHANGED <<now, log, run, fell, startedAt, ran, up, pos, saved, alerts, misled>>
  BY DEF ForgetGone, world, past
<1>2. /\ stops' = [stops EXCEPT !["crashloop"][c] = FALSE]
      /\ crashed' = [crashed EXCEPT ![c] = FALSE]
      /\ restarts' = [restarts EXCEPT ![c] = <<>>]
      /\ starts' = [starts EXCEPT ![c] = 0] /\ lastRuns' = [lastRuns EXCEPT ![c] = 0]
  BY DEF ForgetGone, Forget
<1>3. /\ <<>> \in Seq(1..now) /\ 0 \in 0..now
  <2>1. 0 \in 0..now
    BY PastTypes
  <2> QED BY <2>1
<1>4. /\ crashed' \in [Containers -> BOOLEAN] /\ restarts' \in [Containers -> Seq(1..now)]
      /\ starts' \in [Containers -> 0..now] /\ lastRuns' \in [Containers -> 0..now]
  BY <1>2, <1>3, PastTypes
<1>5. \A d \in Containers : d # c =>
        /\ stops'["crashloop"][d] = stops["crashloop"][d]
        /\ crashed'[d] = crashed[d] /\ restarts'[d] = restarts[d]
  BY <1>2, PastTypes
<1>6. \A d \in Containers : starts'[d] \in {0, starts[d]} /\ lastRuns'[d] \in {0, lastRuns[d]}
  BY <1>2, PastTypes
<1>7. WorldPast' /\ CrashMarks' /\ Counts' /\ RunsKnown'
  BY <1>1, <1>4, <1>5, <1>6, QuietPast
<1> QED BY <1>7, Forgets DEF PInv

LEMMA PastSaves == PInv /\ Save => PInv'
<1> SUFFICES ASSUME PInv, Save PROVE PInv'
  OBVIOUS
<1>1. /\ saved' = Memory
      /\ UNCHANGED <<now, log, run, fell, startedAt, ran, up, pos, alerts, misled, stops,
                     crashed, restarts, starts, lastRuns>>
  BY DEF Save, world, marks, loops, runs, past
<1>2. /\ saved'.pos = pos /\ saved'.stops = stops /\ saved'.crashed = crashed
      /\ saved'.restarts = restarts
  BY <1>1 DEF Memory
<1>3. WorldPast'
  BY <1>1, WorldStays DEF PInv
<1>4. CrashMarks'
  <2>1. FallsOf(pos, stops, crashed)
    BY DEF PInv, CrashMarks
  <2>2. FallsOf(pos, stops, crashed)'
    BY <1>1, <2>1 DEF FallsOf
  <2>3. FallsOf(saved.pos, saved.stops, saved.crashed)'
    BY <1>1, <1>2, <2>1 DEF FallsOf
  <2> QED BY <2>2, <2>3 DEF CrashMarks
<1>5. Counts'
  <2>1. CountsOf(pos, restarts)
    BY DEF PInv, Counts
  <2>2. /\ \A c, t : Restarted(c, pos, t)' = Restarted(c, pos, t)
        /\ \A c, t : Restarted(c, saved.pos, t)' = Restarted(c, pos, t)
    BY <1>1, <1>2 DEF Restarted
  <2>3. CountsOf(pos, restarts)'
    BY <1>1, <2>1, <2>2 DEF CountsOf
  <2>4. CountsOf(saved.pos, saved.restarts)'
    BY <1>1, <1>2, <2>1, <2>2 DEF CountsOf
  <2> QED BY <2>3, <2>4 DEF Counts
<1>6. RunsKnown'
  BY <1>1 DEF PInv, RunsKnown
<1> QED BY <1>3, <1>4, <1>5, <1>6, Saves DEF PInv

LEMMA PastCrashes == PInv /\ Crash => PInv'
<1> SUFFICES ASSUME PInv, Crash PROVE PInv'
  OBVIOUS
<1>1. UNCHANGED <<now, log, run, fell, startedAt, ran, saved, misled>>
  BY DEF Crash, world
<1>2. /\ pos' = saved.pos /\ stops' = saved.stops /\ crashed' = saved.crashed
      /\ restarts' = saved.restarts
      /\ starts' = [c \in Containers |-> 0] /\ lastRuns' = starts'
  BY DEF Crash, RestoreMarks
<1>3. alerts' \subseteq Known(alerts)
  BY DEF Crash
<1>4. WorldPast'
  BY <1>1, WorldStays DEF PInv
<1>5. CrashMarks'
  <2>1. FallsOf(saved.pos, saved.stops, saved.crashed)
    BY DEF PInv, CrashMarks
  <2> QED BY <1>1, <1>2, <2>1 DEF CrashMarks, FallsOf
<1>6. Counts'
  <2>1. CountsOf(saved.pos, saved.restarts)
    BY DEF PInv, Counts
  <2>2. /\ \A c, t : Restarted(c, saved.pos, t)' = Restarted(c, saved.pos, t)
        /\ \A c, t : Restarted(c, pos, t)' = Restarted(c, saved.pos, t)
    BY <1>1, <1>2 DEF Restarted
  <2>3. CountsOf(pos, restarts)'
    BY <1>1, <1>2, <2>1, <2>2 DEF CountsOf
  <2>4. CountsOf(saved.pos, saved.restarts)'
    BY <1>1, <2>1, <2>2 DEF CountsOf
  <2> QED BY <2>3, <2>4 DEF Counts
<1>7. RunsKnown'
  <2>1. /\ now \in Nat /\ 0 \in 0..now /\ saved.pos \in Nat /\ saved.pos <= pos /\ pos \in Nat
    BY DEF PInv, IInv, Shapes
  <2>2. \A a \in alerts' : a.i \in 1..saved.pos /\ a.lastRun \in (0..now) \cap {0, log[a.i].ran}
    <3> SUFFICES ASSUME NEW a \in alerts, a.i <= saved.pos
                 PROVE  a.i \in 1..saved.pos /\ a.lastRun \in (0..now) \cap {0, log[a.i].ran}
      BY <1>3 DEF Known
    <3>1. a.i \in 1..pos /\ a.lastRun \in (0..now) \cap {0, log[a.i].ran}
      BY DEF PInv, RunsKnown
    <3> QED BY <2>1, <3>1
  <2>3. /\ starts' \in [Containers -> 0..now] /\ lastRuns' \in [Containers -> 0..now]
        /\ \A c \in Containers : starts'[c] = 0 /\ lastRuns'[c] = 0
    BY <1>2, <2>1
  <2> QED BY <1>1, <1>2, <2>2, <2>3 DEF RunsKnown
<1> QED BY <1>4, <1>5, <1>6, <1>7, Crashes DEF PInv

LEMMA PastRestarts == PInv /\ Restart => PInv'
<1> SUFFICES ASSUME PInv, Restart PROVE PInv'
  OBVIOUS
<1>1. ~up /\ UNCHANGED <<now, log, run, fell, startedAt, ran, saved, alerts, stops, crashed,
                         restarts, starts, lastRuns>>
  BY DEF Restart, world, marks, loops, runs
<1>2. PICK q \in pos..Len(log) : q = pos'
  BY Skipped DEF PInv, IInv
<1>3. misled' = misled \cup {log[i].id : i \in (pos + 1)..q}
  BY <1>2, Skipped DEF PInv, IInv
<1>4. pos \in Nat /\ q \in Nat /\ pos <= q
  BY <1>2 DEF PInv, IInv, Shapes
<1>5. misled \subseteq misled' /\ \A i \in pos + 1..q : log[i].id \in misled'
  BY <1>3
<1>6. WorldPast'
  BY <1>1, WorldStays DEF PInv
<1>7. CrashMarks'
  <2>1. CrashMarks
    BY DEF PInv
  <2>2. ASSUME NEW c \in Containers \ misled', NEW kind
        PROVE  MarkedBy(kind, log, pos, c) <=> MarkedBy(kind, log, q, c)
    <3>1. \A i \in pos + 1..q : log[i].id # c
      BY <1>5
    <3> QED BY <1>4, <3>1, MarkSkips
  <2>3. FallsOf(pos, stops, crashed)'
    BY <1>1, <1>2, <1>5, <2>1, <2>2 DEF CrashMarks, FallsOf
  <2>4. FallsOf(saved.pos, saved.stops, saved.crashed)'
    BY <1>1, <1>5, <2>1 DEF CrashMarks, FallsOf
  <2> QED BY <2>3, <2>4 DEF CrashMarks
<1>8. Counts'
  <2>1. CountsOf(pos, restarts) /\ CountsOf(saved.pos, saved.restarts)
    BY DEF PInv, Counts
  <2>2. ASSUME NEW c \in Containers \ misled', NEW t
        PROVE  Restarted(c, q, t) = Restarted(c, pos, t)
    <3>1. \A i \in pos + 1..q : log[i].id # c
      BY <1>5
    <3>2. 1..q = 1..pos \cup pos + 1..q
      BY <1>4
    <3> QED BY <3>1, <3>2 DEF Restarted
  <2>3. /\ \A c, t : Restarted(c, pos, t)' = Restarted(c, q, t)
        /\ \A c, t : Restarted(c, saved.pos, t)' = Restarted(c, saved.pos, t)
    BY <1>1, <1>2 DEF Restarted
  <2>4. CountsOf(pos, restarts)'
    BY <1>1, <1>5, <2>1, <2>2, <2>3 DEF CountsOf
  <2>5. CountsOf(saved.pos, saved.restarts)'
    BY <1>1, <1>5, <2>1, <2>3 DEF CountsOf
  <2> QED BY <2>4, <2>5 DEF Counts
<1>9. RunsKnown'
  <2>1. RunsKnown
    BY DEF PInv
  <2>2. \A c \in Containers : starts[c] = 0 /\ lastRuns[c] = 0
    BY <1>1, <2>1 DEF RunsKnown
  <2>3. \A i \in 1..pos : i \in 1..q
    BY <1>4
  <2> QED BY <1>1, <1>2, <2>1, <2>2, <2>3 DEF RunsKnown
<1> QED BY <1>6, <1>7, <1>8, <1>9, Restarts DEF PInv

(* A run that began before event p was the one going on at p.              *)
LEMMA BeganBefore ==
    ASSUME Times, NEW p \in 1..Len(log), Len(log) \in Nat, NEW c, NEW s,
           Latest("began", log, Len(log), c, s), s < log[p].time
    PROVE  Latest("began", log, p - 1, c, s)
<1>1. PICK j \in 0..Len(log) :
        /\ \A i \in j + 1..Len(log) : ~(log[i].id = c /\ Notes("began", log[i]))
        /\ IF j = 0 THEN s = 0
           ELSE log[j].id = c /\ Notes("began", log[j]) /\ s = Says("began", log[j])
  BY DEF Latest
<1>2. j < p
  <2> SUFFICES ASSUME j >= p PROVE FALSE
    OBVIOUS
  <2>1. j \in 1..Len(log) /\ j # 0
    OBVIOUS
  <2>2. s = log[j].time
    BY <1>1, <2>1 DEF Says
  <2>3. /\ log[p].time <= log[j].time
        /\ log[p].time \in 1..now /\ log[j].time \in 1..now /\ now \in Nat
    BY <2>1 DEF Times
  <2>4. PICK x \in Int, y \in Int : x = log[p].time /\ y = log[j].time
    BY <2>3
  <2> QED BY <2>2, <2>3, <2>4
<1>3. j \in 0..p - 1 /\ \A i \in j + 1..p - 1 : i \in j + 1..Len(log)
  BY <1>2
<1> QED BY <1>1, <1>3 DEF Latest

LEMMA PastReports == PInv /\ EventReport => PInv'
<1> SUFFICES ASSUME PInv, EventReport PROVE PInv'
  OBVIOUS
<1>1. /\ up /\ hit # NoHit
      /\ UNCHANGED <<now, log, run, fell, startedAt, ran, up, pos, saved, misled, stops, crashed,
                     restarts, starts>>
  BY DEF EventReport, world, marks, loops, past
<1>2. /\ hit.i = pos /\ saved.pos < pos
      /\ hit.det = KindOf(log[pos].action) /\ hit.det # "none"
  BY <1>1 DEF PInv, IInv, HitRight
<1>3. pos \in 1..Len(log) /\ Len(log) \in Nat /\ log \in Seq(Events)
  BY <1>2 DEF PInv, IInv, Shapes
<1>4. PICK e : e = log[pos]
  OBVIOUS
<1>5. e \in Events /\ e.action \in {"start", "die", "oom"}
  BY <1>2, <1>3, <1>4, EventIs DEF KindOf
<1>6. PICK c \in Containers : c = e.id
  BY <1>5 DEF Events
<1>7. PICK seen, r, s :
        /\ lastRuns' = [lastRuns EXCEPT ![c] = IF Missed(c, e, seen)
                                               THEN e.time - startedAt[c] ELSE @]
        /\ alerts' = alerts \cup {[det |-> hit.det, i |-> hit.i, lastRun |-> r, silenced |-> s]}
        /\ r = lastRuns'[c]
  <2>1. PICK seen \in Inspects(c) :
          /\ lastRuns' = [lastRuns EXCEPT ![c] = IF Missed(c, e, seen)
                                                 THEN e.time - startedAt[c] ELSE @]
          /\ alerts' = alerts \cup
                {[det |-> hit.det, i |-> hit.i, lastRun |-> lastRuns'[c],
                  silenced |-> Silenced(Subject(hit.det, c))]}
    <3>1. log[hit.i] = e
      BY <1>2, <1>4
    <3> QED BY <1>6, <3>1 DEF EventReport
  <2> QED BY <2>1
<1>8. /\ lastRuns \in [Containers -> 0..now] /\ starts \in [Containers -> 0..now] /\ now \in Nat
      /\ \A d \in Containers : lastRuns[d] # 0 => Latest("lasted", log, pos, d, lastRuns[d])
      /\ \A d \in Containers : starts[d] # 0 => Latest("began", log, pos, d, starts[d])
  BY DEF PInv, RunsKnown, IInv, Shapes
<1>9. /\ e.ran \in 0..now /\ e.time \in 1..now
      /\ e.action \in {"die", "oom"} => Latest("began", log, pos - 1, c, e.time - e.ran)
      /\ e.action = "start" => Latest("lasted", log, pos - 1, c, e.ran)
      /\ startedAt[c] \in 0..now /\ Latest("began", log, Len(log), c, startedAt[c])
  BY <1>3, <1>4, <1>6 DEF PInv, WorldPast, Lengths, Times
<1>10. \A v : Latest("lasted", log, pos, c, v) <=> v = e.ran
  <2> SUFFICES ASSUME NEW v PROVE Latest("lasted", log, pos, c, v) <=> v = e.ran
    OBVIOUS
  <2>1. PICK p \in Nat : p + 1 = pos /\ p = pos - 1
    BY <1>3
  <2>2. Latest("lasted", log, pos, c, v) <=>
          IF e.id = c /\ Notes("lasted", e) THEN v = Says("lasted", e)
          ELSE Latest("lasted", log, p, c, v)
    BY <1>4, <2>1, LatestGrows
  <2>3. CASE e.action \in {"die", "oom"}
    BY <1>6, <2>2, <2>3 DEF Notes, Says
  <2>4. CASE e.action = "start"
    <3>1. Latest("lasted", log, p, c, e.ran)
      BY <1>9, <2>1, <2>4
    <3>2. Latest("lasted", log, p, c, v) <=> v = e.ran
      BY <3>1, LatestOne
    <3> QED BY <2>2, <2>4, <3>2 DEF Notes
  <2> QED BY <1>5, <2>3, <2>4
<1>11. ASSUME Missed(c, e, seen) PROVE e.time - startedAt[c] = e.ran
  <2>1. e.action \in {"die", "oom"} /\ startedAt[c] < e.time
    BY <1>11 DEF Missed
  <2>2. Latest("began", log, pos - 1, c, startedAt[c])
    BY <1>3, <1>4, <1>9, <2>1, BeganBefore DEF PInv, WorldPast
  <2>3. PICK p \in Nat : p = pos - 1
    BY <1>3
  <2>4. startedAt[c] = e.time - e.ran
    BY <1>9, <2>1, <2>2, <2>3, LatestOne
  <2> QED BY <1>9, <2>4
<1>12. PICK v : v = IF Missed(c, e, seen) THEN e.time - startedAt[c] ELSE lastRuns[c]
  OBVIOUS
<1>13. v \in {0, e.ran} /\ v \in 0..now
  BY <1>8, <1>9, <1>10, <1>11, <1>12
<1>14. /\ lastRuns' \in [Containers -> 0..now]
       /\ \A d \in Containers : lastRuns'[d] = IF d = c THEN v ELSE lastRuns[d]
  BY <1>7, <1>8, <1>12, <1>13
<1>15. WorldPast'
  BY <1>1, WorldStays DEF PInv
<1>16. CrashMarks' /\ Counts'
  <2>1. FallsOf(pos, stops, crashed) /\ FallsOf(saved.pos, saved.stops, saved.crashed)
        /\ CountsOf(pos, restarts) /\ CountsOf(saved.pos, saved.restarts)
    BY DEF PInv, CrashMarks, Counts
  <2>2. CrashMarks'
    BY <1>1, <2>1 DEF CrashMarks, FallsOf
  <2>3. /\ \A d, t : Restarted(d, pos, t)' = Restarted(d, pos, t)
        /\ \A d, t : Restarted(d, saved.pos, t)' = Restarted(d, saved.pos, t)
    BY <1>1 DEF Restarted
  <2>4. CountsOf(pos, restarts)'
    BY <1>1, <2>1, <2>3 DEF CountsOf
  <2>5. CountsOf(saved.pos, saved.restarts)'
    BY <1>1, <2>1, <2>3 DEF CountsOf
  <2> QED BY <2>2, <2>4, <2>5 DEF Counts
<1>17. RunsKnown'
  <2>1. \A d \in Containers : lastRuns'[d] # 0 => up /\ Latest("lasted", log, pos, d, lastRuns'[d])
    BY <1>1, <1>8, <1>10, <1>13, <1>14
  <2>2. ASSUME NEW a \in alerts'
        PROVE  a.i \in 1..pos /\ a.lastRun \in (0..now) \cap {0, log[a.i].ran}
    <3>1. CASE a \in alerts
      BY <3>1 DEF PInv, RunsKnown
    <3>2. CASE a \notin alerts
      <4>1. a = [det |-> hit.det, i |-> hit.i, lastRun |-> r, silenced |-> s]
        BY <1>7, <3>2
      <4>2. a.i = pos /\ a.lastRun = v
        BY <1>2, <1>7, <1>14, <4>1
      <4>3. pos \in 1..pos
        BY <1>3
      <4> QED BY <1>4, <1>13, <4>2, <4>3
    <3> QED BY <3>1, <3>2
  <2> QED BY <1>1, <1>8, <1>14, <2>1, <2>2 DEF RunsKnown
<1> QED BY <1>15, <1>16, <1>17, Reports DEF PInv

-----------------------------------------------------------------------------
LEMMA PastInits == Init => PInv
<1> SUFFICES ASSUME Init PROVE PInv
  OBVIOUS
<1>1. IInv
  BY Inits
<1>2. /\ now = 1 /\ log = <<>> /\ pos = 0 /\ alerts = {}
      /\ run = [c \in Containers |->
                  IF \A d \in Containers : c <= d THEN "up" ELSE "none"]
      /\ fell = [c \in Containers |-> FALSE]
      /\ startedAt = [c \in Containers |-> 0] /\ ran = startedAt
      /\ stops = [d \in {"exit", "crashloop"} |-> [c \in Containers |-> FALSE]]
      /\ crashed = [c \in Containers |-> FALSE]
      /\ restarts = [c \in Containers |-> <<>>]
      /\ starts = startedAt /\ lastRuns = startedAt
  BY DEF Init
<1>3. saved = Memory
  BY DEF Init
<1>4. saved.pos = pos /\ saved.stops = stops /\ saved.crashed = crashed
      /\ saved.restarts = restarts
  BY <1>3 DEF Memory
<1>5. /\ Len(log) = 0 /\ 1..0 = {} /\ 0 \in 0..0 /\ \A i \in 0 + 1..0 : FALSE
      /\ 0 \in 0..1
  BY <1>2
<1>6. /\ \A kind, c : ~MarkedBy(kind, log, 0, c)
      /\ \A kind, c : Latest(kind, log, 0, c, 0)
  BY <1>5 DEF MarkedBy, Latest
<1>7. WorldPast
  <2>1. Falls
    BY <1>2, <1>5, <1>6 DEF Falls
  <2>2. 1 \in 1..Horizon
    <3>1. MaxTime \in {MaxEvents, MaxLag, MaxTime, MaxSaves, MaxCrashes}
      OBVIOUS
    <3>2. MaxTime \in Nat /\ Grace \in Nat /\ MaxTime > 0
      BY <3>1, DetectorAssumption
    <3> QED BY <3>2 DEF Horizon
  <2>3. Times
    BY <1>2, <1>5, <2>2 DEF Times
  <2>4. Lengths
    BY <1>2, <1>5, <1>6 DEF Lengths
  <2> QED BY <2>1, <2>3, <2>4 DEF WorldPast
<1>8. CrashMarks
  <2>1. FallsOf(0, stops, crashed)
    BY <1>2, <1>6 DEF FallsOf
  <2> QED BY <1>2, <1>4, <2>1 DEF CrashMarks
<1>9. Counts
  <2>1. <<>> \in Seq(1..now) /\ Len(<<>>) = 0
    OBVIOUS
  <2>2. \A c, t : Restarted(c, 0, t) = {}
    BY <1>5 DEF Restarted
  <2>3. Cardinality({}) = 0
    BY FS_EmptySet
  <2>4. \A t : Len(Within(<<>>, t)) = 0
    BY <2>1, WithinEmpty
  <2>5. CountsOf(0, restarts)
    BY <1>2, <2>1, <2>2, <2>3, <2>4 DEF CountsOf
  <2> QED BY <1>2, <1>4, <2>5 DEF Counts
<1>10. RunsKnown
  BY <1>2, <1>5 DEF RunsKnown
<1> QED BY <1>1, <1>7, <1>8, <1>9, <1>10 DEF PInv

LEMMA PastSteps == PInv /\ [Next]_vars => PInv'
<1> SUFFICES ASSUME PInv, [Next]_vars PROVE PInv'
  OBVIOUS
<1>1. CASE World
  BY <1>1, PastWorlds
<1>2. CASE Tick
  BY <1>2, PastTicks
<1>3. CASE HandleEvent
  BY <1>3, PastCreates, PastKills, PastOoms, PastDies, PastStarts, PastDestroys DEF HandleEvent
<1>4. CASE EventReport
  BY <1>4, PastReports
<1>5. ASSUME NEW c \in Containers, PollLook(c) \/ ForgetGone(c) PROVE PInv'
  BY <1>5, PastLooks, PastForgets
<1>6. CASE Check
  BY <1>6, PastChecks
<1>7. CASE Save
  BY <1>7, PastSaves
<1>8. CASE Crash
  BY <1>8, PastCrashes
<1>9. CASE Restart
  BY <1>9, PastRestarts
<1>10. CASE UNCHANGED vars
  BY <1>10, PastStutters
<1> QED BY <1>1, <1>2, <1>3, <1>4, <1>5, <1>6, <1>7, <1>8, <1>9, <1>10 DEF Next

(* The event loop counts exactly the restarts of the last window, and      *)
(* knows how long the last run was if it says so (OnEvent and Check in     *)
(* crashloop.go, noteRun and lastRun in engine.go).                        *)
THEOREM PastKnown == Spec => []PastRight
<1>1. PInv => TypeOK
  <2> SUFFICES ASSUME PInv PROVE TypeOK
    OBVIOUS
  <2>1. pos \in 0..Len(log) /\ now \in 1..Horizon
    BY DEF PInv, IInv, Shapes, WorldPast, Times
  <2>2. ASSUME NEW c \in Containers, NEW t \in 1..Len(restarts[c]) PROVE restarts[c][t] \in 1..now
    <3>1. PICK S : S = 1..now
      OBVIOUS
    <3>2. restarts[c] \in Seq(S)
      BY <3>1 DEF PInv, Counts, CountsOf
    <3>3. PICK r : r = restarts[c]
      OBVIOUS
    <3>4. r \in Seq(S) /\ t \in 1..Len(r)
      BY <3>2, <3>3
    <3>5. r[t] \in S
      BY <3>4
    <3> QED BY <3>1, <3>3, <3>5
  <2>3. \A k \in Keys : lastAlert[k] \in 0..now
    BY DEF PInv, IInv, Memories, Remembered
  <2>4. \A a \in alerts : a.i \in 1..Len(log) /\ a.lastRun \in 0..now
    <3>1. \A a \in alerts : a.i \in 1..pos /\ a.lastRun \in 0..now
      BY DEF PInv, RunsKnown
    <3>2. Len(log) \in Nat
      BY DEF PInv, IInv, Shapes
    <3> QED BY <2>1, <3>1, <3>2
  <2> QED BY <2>1, <2>2, <2>3, <2>4 DEF TypeOK
<1>2. PInv => RestartsExact
  <2> SUFFICES ASSUME PInv, NEW c \in Containers, run[c] # "gone", c \notin misled
               PROVE  Len(Within(restarts[c], now - Window)) =
                         Cardinality(Restarted(c, pos, now - Window))
    BY DEF RestartsExact, Restarted
  <2>1. now - Window \in Int /\ now - Window >= now - Window
    BY PastTypes
  <2> QED BY <2>1 DEF PInv, Counts, CountsOf
<1>3. PInv => LastRunRight
  BY DEF PInv, RunsKnown, LastRunRight
<1>4. PInv => PastRight
  BY <1>1, <1>2, <1>3 DEF PastRight
<1>5. Init => PInv
  BY PastInits
<1>6. PInv /\ [Next]_vars => PInv'
  BY PastSteps
<1> QED BY <1>4, <1>5, <1>6, PTL DEF Spec

-----------------------------------------------------------------------------
(* What the poll loop saw of the container it is looking at still holds of *)
(* the log as it was then.                                                 *)
Looking ==
    /\ poll.seen \in 0..Len(log)
    /\ poll.at = "check" /\ poll.on => RanAt(poll.id, poll.seen)

Running == \A c \in Containers : run[c] = "up" => RanAt(c, Len(log))

LInv == PInv /\ Running /\ Looking

(* A longer log begins like the one before.                                *)
LEMMA RanStays ==
    ASSUME NEW n \in Nat, NEW c, \A i \in 1..n : log'[i] = log[i], RanAt(c, n)
    PROVE  \A i \in 1..n : log'[i].id = c /\ log'[i].action = "die" =>
              \E j \in i + 1..n : log'[j].id = c /\ log'[j].action = "start"
<1>1. \A i \in 1..n : \A j \in i + 1..n : j \in 1..n
  OBVIOUS
<1> QED BY <1>1 DEF RanAt

(* Nothing but its death stops a container, and its start is the last word *)
(* on every death before.                                                  *)
LEMMA LookGrows ==
    ASSUME LInv, NEW e, log' = Append(log, e), UNCHANGED Nodux,
           \A c \in Containers : c # e.id => run'[c] = run[c],
           run'[e.id] = "up" => e.action = "start" \/ (run[e.id] = "up" /\ e.action # "die")
    PROVE  Running' /\ Looking'
<1>1. /\ log \in Seq(Events) /\ Len(log) \in Nat /\ Len(log') = Len(log) + 1
      /\ \A i \in 1..Len(log) : log'[i] = log[i]
      /\ log'[Len(log) + 1] = e
  BY LogGrows DEF LInv, PInv, IInv, Shapes
<1>2. PICK n \in Nat : n = Len(log)
  BY <1>1
<1>3. ASSUME NEW c \in Containers, run'[c] = "up", NEW i \in 1..n + 1,
             log'[i].id = c, log'[i].action = "die"
      PROVE  \E j \in i + 1..n + 1 : log'[j].id = c /\ log'[j].action = "start"
  <2>1. CASE c = e.id /\ e.action = "start"
    <3>1. i # n + 1
      BY <1>1, <1>2, <1>3, <2>1
    <3>2. n + 1 \in i + 1..n + 1
      BY <3>1
    <3> QED BY <1>1, <1>2, <2>1, <3>2
  <2>2. CASE ~(c = e.id /\ e.action = "start")
    <3>1. run[c] = "up" /\ (c = e.id => e.action # "die")
      BY <1>3, <2>2
    <3>2. i # n + 1
      BY <1>1, <1>2, <1>3, <3>1
    <3>3. i \in 1..n /\ RanAt(c, n)
      BY <1>2, <3>1, <3>2 DEF LInv, Running
    <3>4. \A k \in 1..n : log'[k] = log[k]
      BY <1>1, <1>2
    <3>5. \A k \in 1..n : log'[k].id = c /\ log'[k].action = "die" =>
             \E j \in k + 1..n : log'[j].id = c /\ log'[j].action = "start"
      BY <3>3, <3>4, RanStays
    <3>6. PICK j \in i + 1..n : log'[j].id = c /\ log'[j].action = "start"
      BY <1>3, <3>3, <3>5
    <3>7. j \in i + 1..n + 1
      OBVIOUS
    <3> QED BY <3>6, <3>7
  <2> QED BY <2>1, <2>2
<1>4. Running'
  BY <1>1, <1>2, <1>3 DEF Running, RanAt
<1>5. poll' = poll
  BY DEF Nodux
<1>6. poll.seen \in 0..n /\ (poll.at = "check" /\ poll.on => RanAt(poll.id, poll.seen))
  BY <1>2 DEF LInv, Looking
<1>7. PICK m \in Nat : m = poll.seen
  BY <1>2, <1>6
<1>d. PICK d : d = poll.id
  OBVIOUS
<1>8. m \in 0..n + 1 /\ \A i \in 1..m : log'[i] = log[i]
  BY <1>1, <1>2, <1>6, <1>7
<1>9. ASSUME RanAt(d, m)
      PROVE  \A i \in 1..m : log'[i].id = d /\ log'[i].action = "die" =>
                \E j \in i + 1..m : log'[j].id = d /\ log'[j].action = "start"
  <2>1. \A i \in 1..m : log'[i] = log[i]
    BY <1>8
  <2> QED BY <1>9, <2>1, RanStays
<1>10. poll.at = "check" /\ poll.on => RanAt(poll.id, poll.seen)'
  <2> SUFFICES ASSUME poll.at = "check", poll.on PROVE RanAt(poll.id, poll.seen)'
    OBVIOUS
  <2>1. RanAt(d, m)
    BY <1>6, <1>7, <1>d
  <2>2. poll'.seen = m /\ poll'.id = d
    BY <1>5, <1>7, <1>d
  <2>3. RanAt(poll.id, poll.seen)' <=>
           \A i \in 1..poll'.seen : log'[i].id = poll'.id /\ log'[i].action = "die" =>
              \E j \in i + 1..poll'.seen : log'[j].id = poll'.id /\ log'[j].action = "start"
    BY DEF RanAt
  <2> QED BY <1>9, <2>1, <2>2, <2>3
<1> QED BY <1>1, <1>2, <1>4, <1>5, <1>7, <1>8, <1>10 DEF Looking

LEMMA LookWorlds ==
    ASSUME LInv, World
    PROVE  Running' /\ Looking'
<1>1. DOMAIN run = Containers
  BY DEF LInv, PInv, IInv, Shapes
<1>2. ASSUME NEW c \in Containers, Create(c) PROVE Running' /\ Looking'
  <2>1. PICK e : e = Event("create", c)
    OBVIOUS
  <2>2. e.id = c /\ log' = Append(log, e) /\ UNCHANGED Nodux /\ run'[c] # "up"
        /\ \A d \in Containers : d # c => run'[d] = run[d]
    BY <1>1, <1>2, <2>1 DEF Create, Emit, Event
  <2> QED BY <2>2, LookGrows
<1>3. ASSUME NEW c \in Containers, Start(c) PROVE Running' /\ Looking'
  <2>1. PICK e : e = [Event("start", c) EXCEPT !.crash = fell[c], !.ran = ran[c]]
    OBVIOUS
  <2>2. e.id = c /\ e.action = "start" /\ log' = Append(log, e) /\ UNCHANGED Nodux
        /\ \A d \in Containers : d # c => run'[d] = run[d]
    BY <1>1, <1>3, <2>1 DEF Start, Emit, Event
  <2> QED BY <2>2, LookGrows
<1>4. ASSUME NEW c \in Containers, NEW signal \in Signals, Kill(c, signal)
      PROVE  Running' /\ Looking'
  <2>1. PICK e : e = [Event("kill", c) EXCEPT !.signal = signal]
    OBVIOUS
  <2>2. e.id = c /\ e.action = "kill" /\ log' = Append(log, e) /\ UNCHANGED Nodux
        /\ run[c] = "up" /\ run' = run
    BY <1>4, <2>1 DEF Kill, Emit, Event
  <2> QED BY <2>2, LookGrows
<1>5. ASSUME NEW c \in Containers, OOM(c) PROVE Running' /\ Looking'
  <2>1. PICK e : e = [Event("oom", c) EXCEPT !.ran = now - startedAt[c]]
    OBVIOUS
  <2>2. e.id = c /\ e.action = "oom" /\ log' = Append(log, e) /\ UNCHANGED Nodux
        /\ run[c] = "up" /\ run' = run
    BY <1>5, <2>1 DEF OOM, Emit, Event
  <2> QED BY <2>2, LookGrows
<1>6. ASSUME NEW c \in Containers, NEW bad \in Bad, Die(c, bad)
      PROVE  Running' /\ Looking'
  <2>1. PICK e : e = [Event("die", c) EXCEPT !.bad = bad, !.asked = asked[c],
                                             !.oomed = oomed[c], !.ran = now - startedAt[c]]
    OBVIOUS
  <2>2. e.id = c /\ log' = Append(log, e) /\ UNCHANGED Nodux /\ run'[c] # "up"
        /\ \A d \in Containers : d # c => run'[d] = run[d]
    BY <1>1, <1>6, <2>1 DEF Die, Emit, Event
  <2> QED BY <2>2, LookGrows
<1>7. ASSUME NEW c \in Containers, Destroy(c) PROVE Running' /\ Looking'
  <2>1. PICK e : e = Event("destroy", c)
    OBVIOUS
  <2>2. e.id = c /\ log' = Append(log, e) /\ UNCHANGED Nodux /\ run'[c] # "up"
        /\ \A d \in Containers : d # c => run'[d] = run[d]
    BY <1>1, <1>7, <2>1 DEF Destroy, Emit, Event
  <2> QED BY <2>2, LookGrows
<1> QED BY <1>2, <1>3, <1>4, <1>5, <1>6, <1>7 DEF World

(* The poll loop looks at what runs; the other steps look at nothing.      *)
LEMMA LookSteps == LInv /\ [Next]_vars => LInv'
<1> SUFFICES ASSUME LInv, [Next]_vars PROVE Running' /\ Looking'
  BY PastSteps DEF LInv
<1>1. CASE World
  BY <1>1, LookWorlds
<1>2. ASSUME NEW c \in Containers, PollLook(c) PROVE Running' /\ Looking'
  <2>1. UNCHANGED <<run, log>>
        /\ poll' = [at |-> "check", id |-> c, on |-> run[c] = "up", seen |-> Len(log)]
    BY <1>2 DEF PollLook, world
  <2>2. Len(log) \in 0..Len(log)
    BY DEF LInv, PInv, IInv, Shapes
  <2>3. run[c] = "up" => RanAt(c, Len(log))
    BY DEF LInv, Running
  <2>4. Running'
    BY <2>1 DEF LInv, Running, RanAt
  <2>5. Looking'
    BY <2>1, <2>2, <2>3 DEF Looking, RanAt
  <2> QED BY <2>4, <2>5
<1>3. CASE UNCHANGED <<run, log>> /\ poll' \in {poll, Idle}
  <2>1. 0 \in 0..Len(log)
    BY DEF LInv, PInv, IInv, Shapes
  <2>2. Looking /\ Running
    BY DEF LInv
  <2>3. CASE poll' = poll
    BY <1>3, <2>2, <2>3 DEF Running, Looking, RanAt
  <2>4. CASE poll' = Idle
    BY <1>3, <2>1, <2>2, <2>4 DEF Running, Looking, RanAt, Idle
  <2> QED BY <1>3, <2>3, <2>4
<1>4. \/ UNCHANGED <<run, log>> /\ poll' \in {poll, Idle}
      \/ World
      \/ \E c \in Containers : PollLook(c)
  <2>1. CASE HandleEvent
    BY <2>1 DEF HandleEvent, OnCreate, OnKill, OnOOM, OnDie, OnStart, OnDestroy, Turn, world
  <2>2. CASE Tick \/ EventReport \/ Check \/ Save \/ Crash \/ Restart
    BY <2>2 DEF Tick, EventReport, Check, Save, Crash, Restart, world
  <2>3. CASE \E c \in Containers : ForgetGone(c)
    BY <2>3 DEF ForgetGone, world
  <2>4. CASE UNCHANGED vars
    BY <2>4 DEF vars, world
  <2> QED BY <2>1, <2>2, <2>3, <2>4 DEF Next
<1> QED BY <1>1, <1>2, <1>3, <1>4

(* No crash loop is declared over while it goes on: neither a restart      *)
(* handled between the look at the container and the Check, nor one that a *)
(* crash of nodux took out of its memory and a replay put back, escapes    *)
(* Check (crashloop.go), for any threshold, window and number of crashes.  *)
THEOREM CalmEnds == Spec => LoopEndsCalm
<1> DEFINE Calm ==
      \A c \in Containers \ misled :
          /\ firing[c] /\ ~firing'[c] /\ run[c] # "gone"
          /\ poll.at = "check" /\ poll' = Idle /\ up'
          => /\ RanAt(c, poll.seen)
             /\ \A i \in 1..pos :
                   log[i].id = c /\ log[i].action = "start" /\ log[i].crash
                      => log[i].time <= now - Window
<1>1. LInv /\ Next => Calm
  <2> SUFFICES ASSUME LInv, Next, NEW c \in Containers \ misled,
                      firing[c], ~firing'[c], run[c] # "gone",
                      poll.at = "check", poll' = Idle, up'
               PROVE  /\ RanAt(c, poll.seen)
                      /\ \A i \in 1..pos :
                            log[i].id = c /\ log[i].action = "start" /\ log[i].crash
                               => log[i].time <= now - Window
    OBVIOUS
  <2>1. firing \in [Containers -> BOOLEAN] /\ log \in Seq(Events) /\ pos \in Nat
        /\ pos <= Len(log) /\ PInv /\ Looking
    BY DEF LInv, PInv, IInv, Marks, Tracks, Shapes
  <2>2. Check
    <3>1. poll' # poll
      BY DEF Idle
    <3>2. ~World
      BY <3>1 DEF World, Create, Start, Kill, OOM, Die, Destroy, Emit, Nodux
    <3>3. ~Tick /\ ~EventReport /\ ~Save
      BY <3>1 DEF Tick, EventReport, Save
    <3>4. ~HandleEvent
      BY <3>1 DEF HandleEvent, OnCreate, OnKill, OnOOM, OnDie, OnStart, OnDestroy, Turn
    <3>5. \A d \in Containers : ~PollLook(d) /\ ~ForgetGone(d)
      BY <3>1 DEF PollLook, ForgetGone
    <3>6. ~Crash /\ ~Restart
      BY <3>1 DEF Crash, Restart
    <3> QED BY <3>2, <3>3, <3>4, <3>5, <3>6 DEF Next
  <2>3. PICK d, kept, fires :
          /\ d = poll.id /\ kept = Within(restarts[d], now - Window)
          /\ fires = (firing[d] \/ Len(kept) >= Threshold)
          /\ firing' = [firing EXCEPT ![d] = StillLooping(kept, fires, poll.on)]
    BY <2>2 DEF Check
  <2>4. c = d
    BY <2>1, <2>3
  <2>5. ~StillLooping(kept, fires, poll.on) /\ fires
    BY <2>1, <2>3, <2>4
  <2>6. kept = <<>> /\ poll.on
    BY <2>5 DEF StillLooping
  <2>7. RanAt(c, poll.seen)
    BY <2>1, <2>3, <2>4, <2>6 DEF Looking
  <2>8. now \in Nat /\ Window \in Nat
    BY <2>1, PastTypes
  <2>9. PICK t \in Int : t = now - Window /\ t >= now - Window
    BY <2>8
  <2>10. Len(Within(restarts[c], t)) = Cardinality(Restarted(c, pos, t))
    BY <2>1, <2>9 DEF PInv, Counts, CountsOf
  <2>11. Len(Within(restarts[c], t)) = 0
    BY <2>3, <2>4, <2>6, <2>9
  <2>12. Restarted(c, pos, t) = {}
    <3>1. IsFiniteSet(Restarted(c, pos, t))
      BY <2>1, RestartedIs
    <3> QED BY <2>10, <2>11, <3>1, FS_EmptySet
  <2>13. ASSUME NEW i \in 1..pos, log[i].id = c, log[i].action = "start", log[i].crash
         PROVE  log[i].time <= now - Window
    <3>1. ~(log[i].time > t)
      BY <2>12, <2>13 DEF Restarted
    <3>2. log[i].time \in 1..now
      BY <2>1 DEF PInv, WorldPast, Times
    <3> QED BY <2>8, <2>9, <3>1, <3>2
  <2> QED BY <2>7, <2>13
<1>2. Init => LInv
  <2> SUFFICES ASSUME Init PROVE LInv
    OBVIOUS
  <2>1. log = <<>> /\ poll = Idle
    BY DEF Init
  <2>2. Running /\ Looking
    BY <2>1 DEF Running, Looking, RanAt, Idle
  <2> QED BY <2>2, PastInits DEF LInv
<1>3. LInv /\ [Next]_vars => LInv'
  BY LookSteps
<1>4. LInv /\ [Next]_vars => [Calm]_vars
  BY <1>1
<1> QED BY <1>2, <1>3, <1>4, PTL DEF Spec, LoopEndsCalm
=============================================================================
