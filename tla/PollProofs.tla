----------------------------- MODULE PollProofs -----------------------------
(***************************************************************************)
(* Proofs about the two modules that the engine's poll loop drives:        *)
(* Episodes and HostOOM.  They hold for every value of the constants that  *)
(* the modules' assumptions allow.                                         *)
(*                                                                         *)
(* Episodes.  Every critical section of e.mu is an instance of Publish, so *)
(* the work is in two lemmas, one for Track (track, trackSet,              *)
(* resolveContainer) and one for FlushDeferred; the proof of Next then     *)
(* only dispatches to them.  What the receivers believe needs more: the    *)
(* invariant Words follows the messages about one key from the loop        *)
(* through the queue to one receiver.  That nothing is closed while its    *)
(* problem lasts needs the evidence each loop has at each place: Evidence. *)
(*                                                                         *)
(* HostOOM.  The detector matches kills and events by number, never by     *)
(* name, so its invariant is a set of books: numbers c, r and d say how    *)
(* many of the containers' kills the baseline includes, a Check under way  *)
(* has read, and a restart has let through or delayed.  CheckCounts shows  *)
(* that one Check keeps the books; the other actions are short.            *)
(***************************************************************************)
EXTENDS Episodes, HostOOM, TLAPS, WellFoundedInduction

IInv == TypeOK /\ NotifiedMeansTold

(* What a critical section of loop a guarantees.                           *)
GoodSection(a) ==
    /\ active' \in [Key -> Alert]
    /\ fresh' \in SUBSET ContainerKey
    /\ out' \in [Actor -> SUBSET Message]
    /\ told' \in [Key -> Level]
    /\ calm' \in SUBSET Key
    /\ NotifiedMeansTold'
    /\ \A b \in Actor : \A m \in out'[b] \ out[b] : NewsOnly(m)

(* A section is good when, key by key, the new entry and what is said      *)
(* about it fit together and only news is audible.                         *)
GoodKey(k, new, say) ==
    /\ new \in Alert
    /\ say \in Message
    /\ say.key = k
    /\ (say.kind # "none" /\ ~say.silenced) =>
          IF say.kind = "resolved"
          THEN told[k] # 0 /\ told[k] <= say.severity /\ new = Absent
          ELSE say.severity > told[k] /\ new.notified /\ say.severity <= new.severity
    /\ (say.kind = "none" \/ say.silenced) =>
          (new.notified <=> told[k] # 0) /\ told[k] <= new.severity

(* Loop a's critical section: good for every key, and about the keys in K. *)
(* No entry is left open and unannounced while no silence covers it.       *)
Section(a, K) ==
    \E next \in [Key -> Alert], say \in [Key -> Message] :
        /\ Publish(a, next, say)
        /\ \A k \in Key : GoodKey(k, next[k], say[k])
        /\ \A k \in Key \ K : say[k].kind = "none" /\ next[k] = active[k]
        /\ \A k \in Key : \/ silenced[k] \/ next[k] = active[k]
                           \/ next[k].notified \/ next[k].severity = 0

(* Publish keeps the types and NotifiedMeansTold, and says only news,      *)
(* whenever each key's update does (the lock sections of engine.go).       *)
LEMMA PublishGood ==
    ASSUME IInv, NEW a \in Actor, NEW next \in [Key -> Alert],
           NEW say \in [Key -> Message],
           \A k \in Key : GoodKey(k, next[k], say[k]),
           Publish(a, next, say)
    PROVE  GoodSection(a)
<1>1. active' \in [Key -> Alert]
  BY DEF Publish
<1>2. fresh' \in SUBSET ContainerKey
  BY DEF Publish
<1>3. out' \in [Actor -> SUBSET Message]
  BY DEF Publish, IInv, TypeOK
<1>4. told' \in [Key -> Level]
  <2> SUFFICES ASSUME NEW k \in Key
               PROVE  (IF say[k].kind = "none" \/ say[k].silenced THEN told[k]
                       ELSE IF say[k].kind = "resolved" THEN 0
                       ELSE say[k].severity) \in Level
    BY DEF Publish
  <2> QED BY DEF IInv, TypeOK, Message, Level
<1>5. ASSUME NEW k \in Key
      PROVE  /\ active'[k].notified <=> told'[k] # 0
             /\ told'[k] <= active'[k].severity
  <2>1. active'[k] = next[k] /\ next[k] \in Alert
    BY DEF Publish
  <2>2. told'[k] = IF say[k].kind = "none" \/ say[k].silenced THEN told[k]
                   ELSE IF say[k].kind = "resolved" THEN 0
                   ELSE say[k].severity
    BY DEF Publish
  <2>3. GoodKey(k, next[k], say[k])
    OBVIOUS
  <2>4. told[k] \in Nat /\ say[k] \in Message
    BY DEF IInv, TypeOK, Level
  <2>5. CASE say[k].kind = "none" \/ say[k].silenced
    BY <2>1, <2>2, <2>3, <2>5 DEF GoodKey
  <2>6. CASE ~(say[k].kind = "none" \/ say[k].silenced) /\ say[k].kind = "resolved"
    BY <2>1, <2>2, <2>3, <2>6 DEF GoodKey, Absent
  <2>7. CASE ~(say[k].kind = "none" \/ say[k].silenced) /\ say[k].kind # "resolved"
    BY <2>1, <2>2, <2>3, <2>4, <2>7 DEF GoodKey, Message, Level
  <2> QED BY <2>5, <2>6, <2>7
<1>6. ASSUME NEW b \in Actor, NEW m \in out'[b] \ out[b]
      PROVE  NewsOnly(m)
  <2>1. PICK k \in Key : m = say[k] /\ say[k].kind # "none"
    BY DEF Publish, IInv, TypeOK
  <2>2. GoodKey(k, next[k], say[k])
    OBVIOUS
  <2> QED BY <2>1, <2>2 DEF GoodKey, NewsOnly
<1>7. calm' \in SUBSET Key
  BY DEF Publish
<1> QED BY <1>1, <1>2, <1>3, <1>4, <1>5, <1>6, <1>7 DEF GoodSection, NotifiedMeansTold

(* track, trackSet and resolveContainer are good sections.                 *)
LEMMA TrackGood ==
    ASSUME IInv, NEW a \in Actor, NEW K, NEW issue \in [Key -> Level],
           Track(a, K, issue)
    PROVE  Section(a, K) /\ GoodSection(a)
<1> DEFINE next == [k \in Key |-> IF k \in K
                       THEN Tracked(active[k], issue[k], silenced[k])
                       ELSE active[k]]
           say  == [k \in Key |-> IF k \in K
                       THEN TrackMessage(k, active[k], issue[k], silenced[k])
                       ELSE NoMessage(k)]
<1>1. ASSUME NEW k \in Key
      PROVE  GoodKey(k, next[k], say[k])
  <2>1. /\ active[k] \in Alert /\ issue[k] \in Level /\ silenced[k] \in BOOLEAN
        /\ told[k] \in Level
        /\ active[k].notified <=> told[k] # 0
        /\ told[k] <= active[k].severity
    BY DEF IInv, TypeOK, NotifiedMeansTold
  <2>2. CASE k \notin K
    BY <2>1, <2>2 DEF GoodKey, NoMessage, Message, Level
  <2>3. CASE k \in K /\ issue[k] = 0 /\ active[k].severity # 0
    <3>1. next[k] = Absent
      BY <2>3 DEF Tracked
    <3>2. say[k] = Resolution(k, active[k])
      BY <2>3 DEF TrackMessage
    <3>3. Absent \in Alert
      BY DEF Absent, Alert, Level
    <3>4. Resolution(k, active[k]) \in Message
      <4>1. (~active[k].notified) \in BOOLEAN /\ active[k].severity \in Level
        BY <2>1 DEF Alert
      <4> QED BY <4>1 DEF Resolution, Message
    <3>5. /\ Resolution(k, active[k]).key = k
          /\ Resolution(k, active[k]).kind = "resolved"
          /\ Resolution(k, active[k]).silenced <=> told[k] = 0
          /\ told[k] <= Resolution(k, active[k]).severity
      BY <2>1 DEF Resolution
    <3>6. ~Absent.notified /\ Absent.severity = 0
      BY DEF Absent
    <3> HIDE DEF next, say
    <3> QED BY <2>1, <3>1, <3>2, <3>3, <3>4, <3>5, <3>6 DEF GoodKey, Level
  <2>6. CASE k \in K /\ issue[k] = 0 /\ active[k].severity = 0
    <3>1. next[k] = Absent /\ say[k] = NoMessage(k)
      BY <2>6, <2>1 DEF Tracked, TrackMessage, Level
    <3>2. told[k] = 0
      BY <2>1, <2>6 DEF Level
    <3> HIDE DEF next, say
    <3> QED BY <3>1, <3>2 DEF GoodKey, NoMessage, Absent, Message, Alert, Level
  <2>4. CASE k \in K /\ issue[k] # 0 /\ issue[k] > active[k].severity
    <3> DEFINE new == [severity |-> issue[k],
                       notified |-> active[k].notified \/ ~silenced[k]]
               msg == [key |-> k, kind |-> "firing", severity |-> issue[k],
                       silenced |-> silenced[k]]
    <3>1. next[k] = new
      BY <2>4 DEF Tracked
    <3>2. say[k] = msg
      BY <2>4 DEF TrackMessage
    <3>3. new \in Alert
      <4>1. (active[k].notified \/ ~silenced[k]) \in BOOLEAN
        OBVIOUS
      <4> QED BY <2>1, <4>1 DEF Alert
    <3>4. msg \in Message
      BY <2>1 DEF Message
    <3>5. /\ new.notified <=> (told[k] # 0 \/ ~silenced[k])
          /\ new.severity = issue[k]
      BY <2>1
    <3>6. issue[k] > told[k] /\ told[k] <= issue[k] /\ issue[k] <= issue[k]
      BY <2>1, <2>4 DEF Level, Alert
    <3>7. msg.key = k /\ msg.kind = "firing" /\ msg.severity = issue[k]
          /\ (msg.silenced <=> silenced[k])
      OBVIOUS
    <3> HIDE DEF next, say, new, msg
    <3> QED BY <3>1, <3>2, <3>3, <3>4, <3>5, <3>6, <3>7 DEF GoodKey
  <2>5. CASE k \in K /\ issue[k] # 0 /\ ~(issue[k] > active[k].severity)
    BY <2>1, <2>5 DEF GoodKey, Tracked, TrackMessage, NoMessage, Message,
                      Level, Alert
  <2> QED BY <2>2, <2>3, <2>4, <2>5, <2>6
<1>2. next \in [Key -> Alert] /\ say \in [Key -> Message]
  BY <1>1 DEF GoodKey
<1>3. Publish(a, next, say)
  BY DEF Track
<1>4. \A k \in Key \ K : say[k].kind = "none" /\ next[k] = active[k]
  BY DEF NoMessage
<1>5. ASSUME NEW k \in Key
      PROVE  \/ silenced[k] \/ next[k] = active[k]
             \/ next[k].notified \/ next[k].severity = 0
  BY DEF Tracked, Absent
<1> HIDE DEF next, say
<1>6. Section(a, K)
  BY <1>1, <1>2, <1>3, <1>4, <1>5 DEF Section
<1> QED BY <1>1, <1>2, <1>3, <1>6, PublishGood

(* flushDeferred is a good section.                                        *)
LEMMA FlushGood ==
    ASSUME IInv, NEW a \in Actor, FlushDeferred(a)
    PROVE  Section(a, Deferred) /\ GoodSection(a)
<1> DEFINE next == [k \in Key |-> IF k \in Deferred
                       THEN [active[k] EXCEPT !.notified = TRUE]
                       ELSE active[k]]
           say  == [k \in Key |-> IF k \in Deferred
                       THEN [key |-> k, kind |-> "firing",
                             severity |-> active[k].severity,
                             silenced |-> FALSE]
                       ELSE NoMessage(k)]
<1>1. ASSUME NEW k \in Key
      PROVE  GoodKey(k, next[k], say[k])
  <2>1. /\ active[k] \in Alert /\ told[k] \in Level
        /\ active[k].notified <=> told[k] # 0
        /\ told[k] <= active[k].severity
    BY DEF IInv, TypeOK, NotifiedMeansTold
  <2>2. CASE k \notin Deferred
    BY <2>1, <2>2 DEF GoodKey, NoMessage, Message, Level
  <2>3. CASE k \in Deferred
    <3>1. active[k].severity # 0 /\ ~active[k].notified
      BY <2>3 DEF Deferred, Open
    <3> DEFINE new == [active[k] EXCEPT !.notified = TRUE]
               msg == [key |-> k, kind |-> "firing",
                       severity |-> active[k].severity, silenced |-> FALSE]
    <3>2. next[k] = new /\ say[k] = msg
      BY <2>3
    <3>3. new \in Alert /\ msg \in Message
      BY <2>1 DEF Alert, Message
    <3>4. new.notified /\ new.severity = active[k].severity
      BY <2>1 DEF Alert
    <3>5. active[k].severity > told[k] /\ active[k].severity <= active[k].severity
      BY <2>1, <3>1 DEF Level, Alert
    <3>6. /\ msg.key = k /\ msg.kind = "firing"
          /\ msg.severity = active[k].severity /\ ~msg.silenced
      OBVIOUS
    <3> HIDE DEF next, say, new, msg
    <3> QED BY <3>2, <3>3, <3>4, <3>5, <3>6 DEF GoodKey
  <2> QED BY <2>2, <2>3
<1>2. next \in [Key -> Alert] /\ say \in [Key -> Message]
  BY <1>1 DEF GoodKey
<1>3. Publish(a, next, say)
  BY DEF FlushDeferred
<1>4. \A k \in Key \ Deferred : say[k].kind = "none" /\ next[k] = active[k]
  BY DEF NoMessage
<1>5. ASSUME NEW k \in Key
      PROVE  next[k] = active[k] \/ next[k].notified
  <2>1. active[k] \in Alert
    BY DEF IInv, TypeOK
  <2> QED BY <2>1 DEF Alert
<1> HIDE DEF next, say
<1>6. Section(a, Deferred)
  BY <1>1, <1>2, <1>3, <1>4, <1>5 DEF Section
<1> QED BY <1>1, <1>2, <1>3, <1>6, PublishGood
-----------------------------------------------------------------------------
News == \A b \in Actor : \A m \in out'[b] \ out[b] : NewsOnly(m)

(* The part of the type invariant that no critical section touches.        *)
RestOK ==
    /\ level \in [Key -> Level]
    /\ silenced \in [Key -> BOOLEAN]
    /\ exists \in SUBSET Containers
    /\ events \in Seq(Event)
    /\ lastSeen \in SUBSET Containers
    /\ pc \in [Actor -> PC]
    /\ todo \in [Actor -> SUBSET (HostDetectors \cup ProbeDetectors)]
    /\ left \in SUBSET Containers
    /\ cur \in Containers
    /\ snap \in [PollDetectors -> Level]
    /\ checks \in SUBSET PollDetectors
    /\ seen \in SUBSET Containers
    /\ hit \in [key : Key, severity : Level]
    /\ queue \in Seq(Message)
    /\ phase \in {"run", "stopping", "stopped"}
    /\ view \in [Receivers -> [Key -> Level]]

(* A step that says something: its section is good and the rest is typed.  *)
LEMMA SectionStep ==
    ASSUME NEW a \in Actor, GoodSection(a), RestOK'
    PROVE  IInv' /\ News
BY DEF GoodSection, RestOK, IInv, TypeOK, News

(* A step that says nothing leaves the map and the announcements alone.    *)
LEMMA SilentStep ==
    ASSUME IInv, UNCHANGED <<active, told, out>>,
           fresh' \in SUBSET ContainerKey, calm' \in SUBSET Key, RestOK'
    PROVE  IInv' /\ News
BY DEF RestOK, IInv, TypeOK, NotifiedMeansTold, News

(* The initial values and the names the actions use have their types.      *)
LEMMA Constants ==
    /\ Nothing \in [Key -> Level]
    /\ \A k \in Key, l \in Level : [Nothing EXCEPT ![k] = l] \in [Key -> Level]
    /\ DaemonKey \in Key /\ Critical \in Level /\ Warning \in Level
    /\ NoHit \in [key : Key, severity : Level]
    /\ NoSnap \in [PollDetectors -> Level]
    /\ StartPC \in [Actor -> PC]
    /\ StartTodo \in [Actor -> SUBSET (HostDetectors \cup ProbeDetectors)]
    /\ \A a \in {"poll", "event", "probe"} : a \in Actor
    /\ ContainerKey \subseteq Key
<1>1. DaemonKey \in Key /\ ContainerKey \subseteq Key
  BY DEF Key
<1>2. Nothing \in [Key -> Level]
  BY DEF Nothing, Level
<1>3. NoHit \in [key : Key, severity : Level]
  BY <1>1 DEF NoHit, Level
<1>4. StartPC \in [Actor -> PC]
  BY DEF StartPC, Actor, PC
<1> QED BY <1>1, <1>2, <1>3, <1>4 DEF Nothing, Level, Critical, Warning, NoSnap,
          StartTodo, Actor

(* The engine starts with an empty map and nobody told anything.           *)
LEMMA InitGood == Init => IInv
<1> SUFFICES ASSUME Init PROVE IInv
  OBVIOUS
<1>1. [k \in Key |-> Absent] \in [Key -> Alert]
  BY DEF Absent, Alert, Level
<1>2. TypeOK
  BY <1>1, Constants DEF Init, TypeOK, Actor
<1>3. NotifiedMeansTold
  BY DEF Init, NotifiedMeansTold, Absent, Nothing
<1> QED BY <1>2, <1>3 DEF IInv

(* Every step of the poll loop (runPoll, pollOnce) keeps the invariant and *)
(* says only what is news.                                                 *)
LEMMA PollGood ==
    ASSUME IInv, PollStep
    PROVE  IInv' /\ News
<1> USE Constants
<1> USE DEF At, Reported, Goto, env, locals
<1>t. TypeOK
  BY DEF IInv
<1>1. CASE PollTop
  <2>1. RestOK'
    <3>1. pc' \in [Actor -> PC]
      <4>1. \/ pc' = [pc EXCEPT !["poll"] = "host"]
            \/ pc' = [pc EXCEPT !["poll"] = "done"]
        BY <1>1 DEF PollTop
      <4>2. pc \in [Actor -> PC] /\ "host" \in PC /\ "done" \in PC
        BY <1>t DEF TypeOK, PC
      <4> QED BY <4>1, <4>2
    <3>2. todo' \in [Actor -> SUBSET (HostDetectors \cup ProbeDetectors)]
      BY <1>1, <1>t DEF PollTop, TypeOK
    <3> QED BY <1>1, <1>t, <3>1, <3>2 DEF PollTop, RestOK, TypeOK
  <2> QED BY <1>1, <1>t, <2>1, SilentStep DEF PollTop, TypeOK
<1>2. CASE PollHost
  <2>1. RestOK'
    <3>1. pc' \in [Actor -> PC]
      BY <1>2, <1>t DEF PollHost, TypeOK, PC
    <3>2. todo' \in [Actor -> SUBSET (HostDetectors \cup ProbeDetectors)]
      <4>1. \/ todo' = todo
            \/ \E d : todo' = [todo EXCEPT !["poll"] = @ \ {d}]
        BY <1>2 DEF PollHost
      <4>2. todo \in [Actor -> SUBSET (HostDetectors \cup ProbeDetectors)]
        BY <1>t DEF TypeOK
      <4> QED BY <4>1, <4>2
    <3> QED BY <1>2, <1>t, <3>1, <3>2 DEF PollHost, RestOK, TypeOK
  <2>2. CASE UNCHANGED <<active, fresh, out, told, calm>>
    BY <1>t, <2>1, <2>2, SilentStep DEF TypeOK
  <2>3. CASE \E d \in todo["poll"] : Track("poll", {d} \X HostResources, level)
    <3>1. PICK d : Track("poll", {d} \X HostResources, level)
      BY <2>3
    <3>2. GoodSection("poll")
      BY <1>t, <3>1, TrackGood DEF TypeOK
    <3> QED BY <2>1, <3>2, SectionStep
  <2> QED BY <1>2, <2>2, <2>3 DEF PollHost
<1>3. CASE PollFlush
  <2>1. RestOK'
    BY <1>3, <1>t DEF PollFlush, RestOK, TypeOK, PC
  <2>2. GoodSection("poll")
    BY <1>3, FlushGood DEF PollFlush
  <2> QED BY <2>1, <2>2, SectionStep
<1>4. CASE PollListFail
  <2>1. RestOK'
    BY <1>4, <1>t DEF PollListFail, RestOK, TypeOK, PC
  <2>2. CASE UNCHANGED <<active, fresh, out, told, calm>>
    BY <1>t, <2>1, <2>2, SilentStep DEF TypeOK
  <2>3. CASE Track("poll", {DaemonKey}, [Nothing EXCEPT ![DaemonKey] = Critical])
    <3>1. GoodSection("poll")
      BY <2>3, TrackGood
    <3> QED BY <2>1, <3>1, SectionStep
  <2> QED BY <1>4, <2>2, <2>3 DEF PollListFail
<1>5. CASE PollList
  <2>1. RestOK'
    BY <1>5, <1>t DEF PollList, RestOK, TypeOK, PC
  <2> QED BY <1>5, <1>t, <2>1, SilentStep DEF PollList, TypeOK
<1>6. CASE PollObserve
  <2>1. RestOK'
    <3>1. pc' \in [Actor -> PC]
      BY <1>6, <1>t DEF PollObserve, TypeOK, PC
    <3>2. left' \in SUBSET Containers /\ cur' \in Containers
      BY <1>6, <1>t DEF PollObserve, TypeOK
    <3> QED BY <1>6, <1>t, <3>1, <3>2 DEF PollObserve, RestOK, TypeOK
  <2>2. fresh' \in SUBSET ContainerKey
    BY <1>6, <1>t DEF PollObserve, TypeOK
  <2>3. calm' \in SUBSET Key
    BY <1>6, <1>t DEF PollObserve, TypeOK
  <2> QED BY <1>6, <2>1, <2>2, <2>3, SilentStep DEF PollObserve
<1>7. CASE PollInspect
  <2>1. \A d \in PollDetectors : <<d, cur>> \in Key
    BY <1>t DEF TypeOK, ContainerKey
  <2>2. RestOK'
    <3>1. pc' \in [Actor -> PC]
      BY <1>7, <1>t DEF PollInspect, TypeOK, PC
    <3>2. snap' \in [PollDetectors -> Level]
      <4>1. \/ snap' = snap
            \/ snap' = [d \in PollDetectors |-> level[<<d, cur>>]]
        BY <1>7 DEF PollInspect
      <4>2. snap \in [PollDetectors -> Level] /\ level \in [Key -> Level]
        BY <1>t DEF TypeOK
      <4> QED BY <2>1, <4>1, <4>2
    <3>3. checks' \in SUBSET PollDetectors
      BY <1>7, <1>t DEF PollInspect, TypeOK
    <3> QED BY <1>7, <1>t, <3>1, <3>2, <3>3 DEF PollInspect, RestOK, TypeOK
  <2> QED BY <1>7, <1>t, <2>2, SilentStep DEF PollInspect, TypeOK
<1>8. CASE PollCheck
  <2>1. RestOK'
    BY <1>8, <1>t DEF PollCheck, RestOK, TypeOK, PC
  <2>2. CASE UNCHANGED <<active, fresh, out, told, calm>>
    BY <1>t, <2>1, <2>2, SilentStep DEF TypeOK
  <2>3. CASE \E d \in checks : Track("poll", {<<d, cur>>},
                                     [Nothing EXCEPT ![<<d, cur>>] = snap[d]])
    <3>1. PICK d \in checks : Track("poll", {<<d, cur>>},
                                    [Nothing EXCEPT ![<<d, cur>>] = snap[d]])
      BY <2>3
    <3>2. <<d, cur>> \in Key /\ snap[d] \in Level
      BY <1>t DEF TypeOK, ContainerKey
    <3>3. GoodSection("poll")
      BY <3>1, <3>2, TrackGood
    <3> QED BY <2>1, <3>3, SectionStep
  <2> QED BY <1>8, <2>2, <2>3 DEF PollCheck, TrackAt
<1>9. CASE PollExpected
  <2>1. RestOK'
    BY <1>9, <1>t DEF PollExpected, RestOK, TypeOK, PC
  <2>2. GoodSection("poll")
    BY <1>9, <1>t, TrackGood DEF PollExpected, TypeOK
  <2> QED BY <2>1, <2>2, SectionStep
<1>10. CASE PollForget
  <2>1. RestOK'
    BY <1>10, <1>t DEF PollForget, RestOK, TypeOK, PC
  <2>2. CASE UNCHANGED <<active, fresh, out, told, calm>>
    BY <1>t, <2>1, <2>2, SilentStep DEF TypeOK
  <2>3. CASE \E c \in left : Track("poll", KeysOf(c), Nothing)
    <3>1. PICK c : Track("poll", KeysOf(c), Nothing)
      BY <2>3
    <3>2. GoodSection("poll")
      BY <3>1, TrackGood
    <3> QED BY <2>1, <3>2, SectionStep
  <2> QED BY <1>10, <2>2, <2>3 DEF PollForget
<1>11. CASE PollUp
  <2>1. RestOK'
    BY <1>11, <1>t DEF PollUp, RestOK, TypeOK, PC
  <2>2. GoodSection("poll")
    BY <1>11, TrackGood DEF PollUp
  <2> QED BY <2>1, <2>2, SectionStep
<1>12. CASE PollSleep
  <2>1. RestOK'
    BY <1>12, <1>t DEF PollSleep, RestOK, TypeOK, PC
  <2> QED BY <1>12, <1>t, <2>1, SilentStep DEF PollSleep, TypeOK
<1> QED BY <1>1, <1>2, <1>3, <1>4, <1>5, <1>6, <1>7, <1>8, <1>9, <1>10, <1>11,
          <1>12 DEF PollStep
(* The same for the event loop (handleEvent).                              *)
LEMMA EventGood ==
    ASSUME IInv, EventStep
    PROVE  IInv' /\ News
<1> USE Constants
<1> USE DEF At, Reported, Goto, env, locals
<1>t. TypeOK
  BY DEF IInv
<1>1. CASE EventHit
  <2>1. /\ events \in Seq(Event) /\ events # <<>>
        /\ Head(events) \in Event /\ Tail(events) \in Seq(Event)
    BY <1>1, <1>t DEF EventHit, TypeOK
  <2>2. Head(events) \in Key
    BY <1>1, <2>1, DetectorAssumption DEF EventHit, Event, ContainerKey
  <2>3. PICK inspected \in BOOLEAN :
          \E found \in IF inspected /\ Head(events)[1] \in Confirmers
                      THEN {level[Head(events)]} ELSE Grades[Head(events)] :
            IF found = 0
            THEN UNCHANGED <<pc, hit>>
            ELSE /\ hit' = [key |-> Head(events), severity |-> found]
                 /\ Goto("event", "track")
    BY <1>1 DEF EventHit
  <2>4. PICK found \in IF inspected /\ Head(events)[1] \in Confirmers
                      THEN {level[Head(events)]} ELSE Grades[Head(events)] :
            IF found = 0
            THEN UNCHANGED <<pc, hit>>
            ELSE /\ hit' = [key |-> Head(events), severity |-> found]
                 /\ Goto("event", "track")
    BY <2>3
  <2>5. found \in Level
    <3>1. level[Head(events)] \in Level
      BY <1>t, <2>2 DEF TypeOK
    <3>2. Grades[Head(events)] \subseteq Level
      BY <2>2, GradesAssumption DEF Level, Warning, Critical
    <3> QED BY <3>1, <3>2
  <2>6. /\ hit' \in [key : Key, severity : Level]
        /\ pc' \in [Actor -> PC]
    BY <1>t, <2>2, <2>4, <2>5 DEF TypeOK, PC
  <2>7. RestOK'
    BY <1>1, <1>t, <2>1, <2>6 DEF EventHit, RestOK, TypeOK
  <2> QED BY <1>1, <1>t, <2>7, SilentStep DEF EventHit, TypeOK
<1>2. CASE EventTrack
  <2>1. RestOK'
    BY <1>2, <1>t DEF EventTrack, RestOK, TypeOK, PC
  <2>2. hit.key \in Key /\ hit.severity \in Level
    BY <1>t DEF TypeOK
  <2>3. GoodSection("event")
    BY <1>2, <2>2, TrackGood DEF EventTrack
  <2> QED BY <2>1, <2>3, SectionStep
<1>3. CASE EventDestroy
  <2>1. Tail(events) \in Seq(Event)
    BY <1>3, <1>t DEF EventDestroy, TypeOK
  <2>2. RestOK'
    BY <1>3, <1>t, <2>1 DEF EventDestroy, RestOK, TypeOK
  <2>3. GoodSection("event")
    BY <1>3, TrackGood DEF EventDestroy
  <2> QED BY <2>2, <2>3, SectionStep
<1>4. CASE EventExit
  <2>1. RestOK'
    BY <1>4, <1>t DEF EventExit, RestOK, TypeOK, PC
  <2> QED BY <1>4, <1>t, <2>1, SilentStep DEF EventExit, TypeOK
<1> QED BY <1>1, <1>2, <1>3, <1>4 DEF EventStep

(* The same for the probe loop (runProbes).                                *)
LEMMA ProbeGood ==
    ASSUME IInv, ProbeStep
    PROVE  IInv' /\ News
<1> USE Constants
<1> USE DEF At, Reported, Goto, env, locals
<1>t. TypeOK
  BY DEF IInv
<1>1. CASE ProbeRun
  <2>1. RestOK'
    <3>1. pc' \in [Actor -> PC]
      BY <1>1, <1>t DEF ProbeRun, TypeOK, PC
    <3>2. todo' \in [Actor -> SUBSET (HostDetectors \cup ProbeDetectors)]
      <4>1. \/ todo' = todo
            \/ \E d : todo' = [todo EXCEPT !["probe"] = @ \ {d}]
        BY <1>1 DEF ProbeRun
      <4>2. todo \in [Actor -> SUBSET (HostDetectors \cup ProbeDetectors)]
        BY <1>t DEF TypeOK
      <4> QED BY <4>1, <4>2
    <3> QED BY <1>1, <1>t, <3>1, <3>2 DEF ProbeRun, RestOK, TypeOK
  <2>2. CASE UNCHANGED <<active, fresh, out, told, calm>>
    BY <1>t, <2>1, <2>2, SilentStep DEF TypeOK
  <2>3. CASE \E d \in todo["probe"] : Track("probe", {d} \X ProbeResources, level)
    <3>1. PICK d : Track("probe", {d} \X ProbeResources, level)
      BY <2>3
    <3>2. GoodSection("probe")
      BY <1>t, <3>1, TrackGood DEF TypeOK
    <3> QED BY <2>1, <3>2, SectionStep
  <2> QED BY <1>1, <2>2, <2>3 DEF ProbeRun
<1>2. CASE ProbeSleep
  <2>1. RestOK'
    <3>1. pc' \in [Actor -> PC]
      <4>1. \/ pc' = [pc EXCEPT !["probe"] = "run"]
            \/ pc' = [pc EXCEPT !["probe"] = "done"]
        BY <1>2 DEF ProbeSleep
      <4>2. pc \in [Actor -> PC] /\ "run" \in PC /\ "done" \in PC
        BY <1>t DEF TypeOK, PC
      <4> QED BY <4>1, <4>2
    <3>2. todo' \in [Actor -> SUBSET (HostDetectors \cup ProbeDetectors)]
      BY <1>2, <1>t DEF ProbeSleep, TypeOK
    <3> QED BY <1>2, <1>t, <3>1, <3>2 DEF ProbeSleep, RestOK, TypeOK
  <2> QED BY <1>2, <1>t, <2>1, SilentStep DEF ProbeSleep, TypeOK
<1> QED BY <1>1, <1>2 DEF ProbeStep

(* report only moves messages from a loop to the queue.                    *)
LEMMA ReportGood ==
    ASSUME IInv, NEW a \in Actor, Report(a)
    PROVE  IInv' /\ News
<1>t. TypeOK
  BY DEF IInv
<1>1. PICK m \in out[a] : /\ queue' = Append(queue, m)
                          /\ out' = [out EXCEPT ![a] = @ \ {m}]
  BY DEF Report
<1>2. m \in Message
  BY <1>t DEF TypeOK
<1>3. queue' \in Seq(Message) /\ out' \in [Actor -> SUBSET Message]
  BY <1>t, <1>1, <1>2 DEF TypeOK
<1>4. TypeOK'
  BY <1>t, <1>3 DEF Report, TypeOK, env, locals
<1>5. NotifiedMeansTold'
  BY DEF IInv, NotifiedMeansTold, Report
<1>6. News
  BY <1>t, <1>1 DEF News, TypeOK
<1> QED BY <1>4, <1>5, <1>6 DEF IInv

(* The dispatcher changes nothing but the queue and the receivers.         *)
LEMMA DispatchGood ==
    ASSUME IInv, Dispatch
    PROVE  IInv' /\ News
<1>t. TypeOK
  BY DEF IInv
<1>1. Head(queue) \in Message /\ Tail(queue) \in Seq(Message)
  BY <1>t DEF Dispatch, TypeOK
<1> DEFINE m == Head(queue)
<1>2. m.key \in Key /\ m.severity \in Level /\ 0 \in Level
  BY <1>1 DEF Message, Level
<1>3. view' \in [Receivers -> [Key -> Level]]
  BY <1>t, <1>2 DEF Dispatch, TypeOK
<1>4. RestOK'
  BY <1>t, <1>1, <1>3 DEF Dispatch, RestOK, TypeOK, env, locals
<1> QED BY <1>t, <1>4, SilentStep DEF Dispatch, TypeOK

(* Stopping and restarting keep e.active, so they keep the invariant.      *)
LEMMA LifecycleGood ==
    ASSUME IInv, Stop \/ Stopped \/ Restart
    PROVE  IInv' /\ News
<1>t. TypeOK
  BY DEF IInv
<1>1. CASE Stop \/ Stopped
  <2>1. RestOK'
    BY <1>1, <1>t DEF Stop, Stopped, RestOK, TypeOK, env, locals
  <2> QED BY <1>1, <1>t, <2>1, SilentStep DEF Stop, Stopped, TypeOK
<1>2. CASE Restart
  <2>1. PICK n \in 0..Len(events) : events' = SubSeq(events, n + 1, Len(events))
    BY <1>2 DEF Restart
  <2>2. events' \in Seq(Event)
    BY <1>t, <2>1 DEF TypeOK
  <2>3. RestOK'
    BY <1>2, <1>t, <2>2, Constants DEF Restart, RestOK, TypeOK
  <2>4. fresh' \in SUBSET ContainerKey
    BY <1>2 DEF Restart
  <2>5. calm' \in SUBSET Key
    BY <1>2, <1>t DEF Restart, TypeOK
  <2> QED BY <1>2, <2>3, <2>4, <2>5, SilentStep DEF Restart
<1> QED BY <1>1, <1>2

(* What happens outside nodux does not touch the map.                      *)
LEMMA WorldGood ==
    ASSUME IInv, World
    PROVE  IInv' /\ News
<1> USE DEF env, locals
<1>t. TypeOK
  BY DEF IInv
<1>1. ASSUME NEW k \in Troubled, NEW l \in Level, Change(k, l)
      PROVE  IInv' /\ News
  <2>1. k \in Key
    BY BoundsAssumption
  <2>2. level' \in [Key -> Level]
    BY <1>1, <1>t, <2>1 DEF Change, TypeOK
  <2>3. events' \in Seq(Event)
    <3>1. CASE k \in EventDetectors \X Containers
      <4>1. k \in Event
        BY <3>1 DEF Event
      <4>2. events \in Seq(Event) /\ Append(events, k) \in Seq(Event)
        BY <1>t, <4>1 DEF TypeOK
      <4>3. events' = Append(events, k) \/ events' = events
        BY <1>1 DEF Change
      <4> QED BY <4>2, <4>3
    <3>2. CASE k \notin EventDetectors \X Containers
      BY <1>1, <1>t, <3>2 DEF Change, TypeOK
    <3> QED BY <3>1, <3>2
  <2>4. RestOK'
    BY <1>1, <1>t, <2>2, <2>3 DEF Change, RestOK, TypeOK
  <2>5. calm' \in SUBSET Key
    BY <1>1, <1>t, <2>1 DEF Change, TypeOK
  <2> QED BY <1>1, <1>t, <2>4, <2>5, SilentStep DEF Change, TypeOK
<1>2. ASSUME NEW k \in Silenceable, Silence(k)
      PROVE  IInv' /\ News
  <2>1. k \in Key
    BY BoundsAssumption
  <2>2. silenced' \in [Key -> BOOLEAN]
    BY <1>2, <1>t, <2>1 DEF Silence, TypeOK
  <2>3. RestOK'
    BY <1>2, <1>t, <2>2 DEF Silence, RestOK, TypeOK
  <2> QED BY <1>2, <1>t, <2>3, SilentStep DEF Silence, TypeOK
<1>3. ASSUME NEW c \in Containers, Destroy(c)
      PROVE  IInv' /\ News
  <2>1. level' \in [Key -> Level]
    BY <1>3, <1>t DEF Destroy, TypeOK, Level
  <2>2. events' \in Seq(Event)
    <3>1. <<"destroy", c>> \in Event
      BY DEF Event
    <3>2. events \in Seq(Event) /\ Append(events, <<"destroy", c>>) \in Seq(Event)
      BY <1>t, <3>1 DEF TypeOK
    <3>3. events' = Append(events, <<"destroy", c>>) \/ events' = events
      BY <1>3 DEF Destroy
    <3> QED BY <3>2, <3>3
  <2>3. RestOK'
    BY <1>3, <1>t, <2>1, <2>2 DEF Destroy, RestOK, TypeOK
  <2>4. calm' \in SUBSET Key
    <3>1. KeysOf(c) \subseteq Key
      BY DEF KeysOf, Key, ContainerKey
    <3> QED BY <1>3, <1>t, <3>1 DEF Destroy, TypeOK
  <2> QED BY <1>3, <1>t, <2>3, <2>4, SilentStep DEF Destroy, TypeOK
<1> QED BY <1>1, <1>2, <1>3 DEF World

(* Every step keeps the inductive invariant and says only news.            *)
LEMMA StepGood ==
    ASSUME IInv, [Next]_vars
    PROVE  IInv' /\ [News]_vars
<1>1. CASE Next
  BY <1>1, PollGood, EventGood, ProbeGood, ReportGood, DispatchGood,
     LifecycleGood, WorldGood DEF Next
<1>2. CASE UNCHANGED vars
  BY <1>2 DEF vars, env, locals, IInv, TypeOK, NotifiedMeansTold
<1> QED BY <1>1, <1>2

(* The engine's variables keep their types.                                *)
THEOREM TypeCorrect == Spec => []TypeOK
<1>1. IInv => TypeOK
  BY DEF IInv
<1> QED BY <1>1, InitGood, StepGood, PTL DEF Spec

(* activeAlert.notified is true exactly while somebody has been told of    *)
(* the episode and not of its end, whatever the three loops, silences,     *)
(* escalations and restarts do.                                            *)
THEOREM NotifiedCorrect == Spec => []NotifiedMeansTold
<1>1. IInv => NotifiedMeansTold
  BY DEF IInv
<1> QED BY <1>1, InitGood, StepGood, PTL DEF Spec

(* No loop ever announces the same severity of the same episode twice, and *)
(* none announces the end of a problem nobody was told about.              *)
THEOREM AnnouncedOnce == Spec => OneAlertPerProblem
<1> DEFINE Fine == \A a \in Actor : \A m \in out'[a] \ out[a] : NewsOnly(m)
<1>1. IInv /\ [Next]_vars => [Fine]_vars
  BY StepGood DEF News
<1> QED BY <1>1, InitGood, StepGood, PTL DEF Spec, OneAlertPerProblem

-----------------------------------------------------------------------------
(* What the receivers are told about the keys of OneLoop.  The invariant   *)
(* follows the messages of one key on their way to one receiver: what the  *)
(* last of them says is what has been announced, wherever it is.           *)

(* The loop that reports key k of OneLoop.                                 *)
Owner(k) == IF k \in PollOwned THEN "poll" ELSE "probe"

(* Each loop works on its own keys, and handleEvent on containers.         *)
Work ==
    /\ todo["poll"] \subseteq HostDetectors
    /\ todo["probe"] \subseteq ProbeDetectors
    /\ pc["event"] = "track" => hit.key \in ContainerKey

OwnWords ==
    \A a \in Actor : \A m \in out[a] : m.key \in OneLoop => a = Owner(m.key)

(* Nothing holds back a probe that no silence ever covers, so nothing is   *)
(* left for flushDeferred to say about it in the poll loop.                *)
Unsilenced == \A k \in ProbeKey \ Silenceable : ~silenced[k]
Outspoken  == \A k \in ProbeKey \ Silenceable : Open(k) => active[k].notified

(* The severity last announced is one that receiver r gets.                *)
Wants(r, k)    == told[k] \in Severities[r]
Heard(r, k, m) == m.key = k /\ Matches(r, m)
OnTheWay(r, k) == \E a \in Actor : \E m \in out[a] : Heard(r, k, m)
Tells(r, k, m) == m.kind # "resolved" <=> Wants(r, k)

InQueue(r, k, i) == i \in 1..Len(queue) /\ Heard(r, k, queue[i])
LastInQueue(r, k, i) ==
    InQueue(r, k, i) /\ \A j \in 1..Len(queue) : j > i => ~InQueue(r, k, j)

LastWord(r, k) ==
    /\ \A a \in Actor : \A m \in out[a] : Heard(r, k, m) => Tells(r, k, m)
    /\ ~OnTheWay(r, k) =>
          \A i \in 1..Len(queue) : LastInQueue(r, k, i) => Tells(r, k, queue[i])
    /\ (~OnTheWay(r, k) /\ \A i \in 1..Len(queue) : ~InQueue(r, k, i)) =>
          (view[r][k] # 0 <=> Wants(r, k))

Words == \A r \in Receivers, k \in OneLoop : GapFree(r) => LastWord(r, k)

WInv == IInv /\ Work /\ OwnWords /\ Unsilenced /\ Outspoken /\ Words

(* The keys of the three loops are disjoint.                               *)
LEMMA Kinds ==
    /\ OneLoop \subseteq Key
    /\ OneLoop \cap ContainerKey = {}
    /\ \A d \in HostDetectors : {d} \X HostResources \subseteq PollOwned
    /\ \A d \in ProbeDetectors : ({d} \X ProbeResources) \cap PollOwned = {}
    /\ ExpectedKey \subseteq PollOwned
    /\ DaemonKey \in PollOwned
    /\ ProbeKey \cap PollOwned = {} /\ ProbeKey \subseteq Key
<1>1. OneLoop \subseteq Key /\ ProbeKey \subseteq Key
  BY DEF OneLoop, PollOwned, Key
<1>2. OneLoop \cap ContainerKey = {}
  BY KindsDistinct DEF OneLoop, PollOwned
<1>3. \A d \in HostDetectors : {d} \X HostResources \subseteq PollOwned
  BY DEF PollOwned, HostKey
<1>4. \A d \in ProbeDetectors : ({d} \X ProbeResources) \subseteq ProbeKey
  BY DEF ProbeKey
<1> QED BY <1>1, <1>2, <1>3, <1>4, KindsDistinct DEF PollOwned

(* A receiver's severities have no gap, so it gets whatever is worse than  *)
(* something it got.                                                       *)
LEMMA Upward ==
    ASSUME NEW r \in Receivers, GapFree(r), NEW s \in Level, NEW t \in Level,
           s <= t, s \in Severities[r]
    PROVE  t \in Severities[r]
BY RouteAssumption DEF GapFree, Warning, Critical, Level

LEMMA NeverZero ==
    ASSUME NEW r \in Receivers
    PROVE  0 \notin Severities[r]
BY RouteAssumption DEF Warning, Critical

(* A critical section in the loop that owns the keys it is about, with     *)
(* everything it said before reported, keeps the last word true.           *)
LEMMA SectionWords ==
    ASSUME WInv, NEW a \in Actor, NEW K, Section(a, K),
           UNCHANGED <<queue, view>>,
           \A k \in K : k \in OneLoop => a = Owner(k) /\ out[a] = {}
    PROVE  OwnWords' /\ Outspoken' /\ Words'
<1>1. PICK next \in [Key -> Alert], say \in [Key -> Message] :
        /\ Publish(a, next, say)
        /\ \A k \in Key : GoodKey(k, next[k], say[k])
        /\ \A k \in Key \ K : say[k].kind = "none" /\ next[k] = active[k]
        /\ \A k \in Key : \/ silenced[k] \/ next[k] = active[k]
                          \/ next[k].notified \/ next[k].severity = 0
  BY DEF Section
<1>t. TypeOK /\ NotifiedMeansTold
  BY DEF WInv, IInv
<1>2. \A b \in Actor : \A m \in out'[b] :
        \/ m \in out[b]
        \/ b = a /\ \E k \in Key : m = say[k] /\ m.kind # "none" /\ m.key = k
  BY <1>1, <1>t DEF Publish, TypeOK, GoodKey
<1>3. \A b \in Actor : out[b] \subseteq out'[b]
  BY <1>1, <1>t DEF Publish, TypeOK
<1>4. \A k \in Key : say[k].kind # "none" => say[k] \in out'[a]
  BY <1>1, <1>t DEF Publish, TypeOK
<1>5. OwnWords'
  <2> SUFFICES ASSUME NEW b \in Actor, NEW m \in out'[b], m.key \in OneLoop
               PROVE  b = Owner(m.key)
    BY DEF OwnWords
  <2>1. CASE m \in out[b]
    BY <2>1 DEF WInv, OwnWords
  <2>2. CASE m \notin out[b]
    <3>1. PICK k \in Key : b = a /\ m = say[k] /\ m.kind # "none" /\ m.key = k
      BY <1>2, <2>2
    <3>2. k \in K
      BY <1>1, <3>1
    <3> QED BY <3>1, <3>2
  <2> QED BY <2>1, <2>2
<1>6. Outspoken'
  <2> SUFFICES ASSUME NEW k \in ProbeKey \ Silenceable, active'[k].severity # 0
               PROVE  active'[k].notified
    BY DEF Outspoken, Open
  <2>1. k \in Key /\ active'[k] = next[k]
    BY <1>1, Kinds DEF Publish
  <2>2. ~silenced[k] /\ (active[k].severity # 0 => active[k].notified)
    BY DEF WInv, Unsilenced, Outspoken, Open
  <2> QED BY <1>1, <2>1, <2>2
<1>7. ASSUME NEW r \in Receivers, NEW k \in OneLoop, GapFree(r)
      PROVE  LastWord(r, k)'
  <2>1. k \in Key /\ told[k] \in Level /\ say[k] \in Message
        /\ GoodKey(k, next[k], say[k])
    BY <1>1, <1>t, Kinds DEF TypeOK
  <2>2. told'[k] = IF say[k].kind = "none" \/ say[k].silenced THEN told[k]
                   ELSE IF say[k].kind = "resolved" THEN 0
                   ELSE say[k].severity
    BY <1>1, <2>1 DEF Publish
  <2>3. LastWord(r, k)
    BY <1>7 DEF WInv, Words
  <2>4. 0 \notin Severities[r] /\ r \in SendResolved
    BY <1>7, NeverZero DEF GapFree
  <2>5. say[k].severity \in Level
    BY <2>1 DEF Message
  <2>6. CASE say[k].kind # "none" /\ Heard(r, k, say[k])
    <3>1. k \in K /\ a = Owner(k) /\ out[a] = {}
      BY <1>1, <2>1, <2>6
    <3>2. \A b \in Actor : \A m \in out[b] : m.key # k
      BY <3>1 DEF WInv, OwnWords
    <3>3. \A b \in Actor : \A m \in out'[b] : Heard(r, k, m) => m = say[k]
      BY <1>2, <3>2 DEF Heard
    <3>4. say[k].kind # "resolved" <=> told'[k] \in Severities[r]
      BY <2>2, <2>4, <2>6 DEF Heard, Matches
    <3>5. OnTheWay(r, k)'
      BY <1>4, <2>1, <2>6 DEF OnTheWay, Heard
    <3> QED BY <3>3, <3>4, <3>5 DEF LastWord, Tells, Wants
  <2>7. CASE ~(say[k].kind # "none" /\ Heard(r, k, say[k]))
    <3>1. Wants(r, k)' <=> Wants(r, k)
      <4>1. CASE say[k].kind = "none" \/ say[k].silenced
        BY <2>2, <4>1 DEF Wants
      <4>2. CASE ~(say[k].kind = "none" \/ say[k].silenced)
        <5>1. say[k].severity \notin Severities[r]
          BY <2>1, <2>4, <2>7, <4>2 DEF Heard, Matches, GoodKey
        <5>2. told[k] <= say[k].severity
          BY <2>1, <2>5, <4>2 DEF GoodKey, Level
        <5>3. told[k] \notin Severities[r]
          BY <1>7, <2>1, <2>5, <5>1, <5>2, Upward
        <5> QED BY <2>2, <2>4, <4>2, <5>1, <5>3 DEF Wants
      <4> QED BY <4>1, <4>2
    <3>2. \A b \in Actor : \A m \in out'[b] : Heard(r, k, m) => m \in out[b]
      BY <1>2, <2>7 DEF Heard
    <3>3. OnTheWay(r, k)' <=> OnTheWay(r, k)
      BY <1>3, <3>2 DEF OnTheWay, Heard, Matches
    <3>4. \A m : Tells(r, k, m)' <=> Tells(r, k, m)
      BY <3>1 DEF Tells
    <3> QED BY <2>3, <3>1, <3>2, <3>3, <3>4
            DEF LastWord, LastInQueue, InQueue, Heard, Matches
  <2> QED BY <2>6, <2>7
<1> QED BY <1>5, <1>6, <1>7 DEF Words

(* A step that says nothing to anybody.                                    *)
LEMMA SilentWords ==
    ASSUME WInv, UNCHANGED <<active, told, out, queue, view>>
    PROVE  OwnWords' /\ Outspoken' /\ Words'
BY DEF WInv, OwnWords, Outspoken, Open, Words, LastWord, OnTheWay, Heard,
       Matches, Tells, Wants, InQueue, LastInQueue

(* report moves a message from a loop to the end of the queue.             *)
LEMMA ReportWords ==
    ASSUME WInv, NEW a \in Actor, Report(a)
    PROVE  OwnWords' /\ Outspoken' /\ Words'
<1>t. TypeOK
  BY DEF WInv, IInv
<1>1. PICK n \in out[a] : /\ queue' = Append(queue, n)
                          /\ out' = [out EXCEPT ![a] = @ \ {n}]
  BY DEF Report
<1>2. /\ queue \in Seq(Message) /\ n \in Message
      /\ active' = active /\ told' = told /\ view' = view
  BY <1>t DEF TypeOK, Report
<1>3. \A b \in Actor : /\ out'[b] \subseteq out[b]
                       /\ \A m \in out[b] : m \in out'[b] \/ (b = a /\ m = n)
  BY <1>1, <1>t DEF TypeOK
<1>0. PICK N : N = Len(queue)
  OBVIOUS
<1>4. /\ Len(queue') = N + 1 /\ N \in Nat /\ Len(queue) = N
      /\ queue'[N + 1] = n
      /\ \A i \in 1..N : queue'[i] = queue[i]
  BY <1>0, <1>1, <1>2
<1>5. OwnWords' /\ Outspoken'
  BY <1>2, <1>3 DEF WInv, OwnWords, Outspoken, Open
<1>6. ASSUME NEW r \in Receivers, NEW k \in OneLoop, GapFree(r)
      PROVE  LastWord(r, k)'
  <2>1. LastWord(r, k)
    BY <1>6 DEF WInv, Words
  <2>2. Wants(r, k)' <=> Wants(r, k)
    BY <1>2 DEF Wants
  <2>3. \A m : Tells(r, k, m)' <=> Tells(r, k, m)
    BY <2>2 DEF Tells
  <2>4. \A b \in Actor : \A m \in out'[b] : Heard(r, k, m) => Tells(r, k, m)'
    BY <1>3, <2>1, <2>3 DEF LastWord
  <2>5. \A i \in 1..N : InQueue(r, k, i)' <=> InQueue(r, k, i)
    BY <1>4 DEF InQueue, Heard, Matches
  <2>6. InQueue(r, k, N + 1)' <=> Heard(r, k, n)
    BY <1>4 DEF InQueue, Heard, Matches
  <2>7. \A i : i \in 1..Len(queue') <=> i \in 1..N \/ i = N + 1
    BY <1>4
  <2>8. CASE Heard(r, k, n)
    <3>1. Tells(r, k, n)'
      BY <2>1, <2>3, <2>8 DEF LastWord
    <3>2. ASSUME NEW i \in 1..Len(queue'), LastInQueue(r, k, i)'
          PROVE  i = N + 1
      <4>1. N + 1 \in 1..Len(queue') /\ i \in Nat
        BY <1>4
      <4>2. ~(N + 1 > i)
        BY <2>6, <2>8, <3>2, <4>1 DEF LastInQueue
      <4> QED BY <1>4, <4>1, <4>2, <2>7
    <3>3. InQueue(r, k, N + 1)' /\ N + 1 \in 1..Len(queue')
      BY <1>4, <2>6, <2>8
    <3> QED BY <1>4, <2>4, <3>1, <3>2, <3>3 DEF LastWord, Heard, Matches
  <2>9. CASE ~Heard(r, k, n)
    <3>1. OnTheWay(r, k)' <=> OnTheWay(r, k)
      BY <1>3, <2>9 DEF OnTheWay, Heard, Matches
    <3>2. ASSUME ~OnTheWay(r, k)', NEW i \in 1..Len(queue'),
                 LastInQueue(r, k, i)'
          PROVE  Tells(r, k, queue[i])'
      <4>1. i \in 1..N
        BY <2>6, <2>7, <2>9, <3>2 DEF LastInQueue
      <4>2. LastInQueue(r, k, i)
        BY <1>4, <2>5, <2>7, <3>2, <4>1 DEF LastInQueue
      <4> QED BY <1>4, <2>1, <2>3, <3>1, <3>2, <4>1, <4>2 DEF LastWord
    <3>3. (\A i \in 1..Len(queue') : ~InQueue(r, k, i)')
             <=> \A i \in 1..N : ~InQueue(r, k, i)
      BY <2>5, <2>6, <2>7, <2>9
    <3>4. (~OnTheWay(r, k)' /\ \A i \in 1..Len(queue') : ~InQueue(r, k, i)')
             => (view'[r][k] # 0 <=> Wants(r, k)')
      BY <1>2, <1>4, <2>1, <2>2, <3>1, <3>3 DEF LastWord
    <3> QED BY <2>4, <3>2, <3>4 DEF LastWord, Heard, Matches
  <2> QED BY <2>8, <2>9
<1> QED BY <1>5, <1>6 DEF Words

(* The dispatcher takes the message at the head of the queue to whoever    *)
(* gets it.                                                                *)
LEMMA DispatchWords ==
    ASSUME WInv, Dispatch
    PROVE  OwnWords' /\ Outspoken' /\ Words'
<1>t. TypeOK
  BY DEF WInv, IInv
<1> DEFINE h == Head(queue)
<1>1. /\ queue \in Seq(Message) /\ queue # <<>> /\ queue' = Tail(queue)
      /\ active' = active /\ told' = told /\ out' = out
  BY <1>t DEF TypeOK, Dispatch
<1>2. /\ Len(queue) \in Nat \ {0} /\ Len(queue') = Len(queue) - 1
      /\ h = queue[1] /\ h \in Message
      /\ \A i \in 1..Len(queue') : queue'[i] = queue[i + 1]
  BY <1>1
<1>3. OwnWords' /\ Outspoken'
  BY <1>1 DEF WInv, OwnWords, Outspoken, Open
<1>4. ASSUME NEW r \in Receivers, NEW k \in OneLoop, GapFree(r)
      PROVE  LastWord(r, k)'
  <2>1. LastWord(r, k)
    BY <1>4 DEF WInv, Words
  <2>2. Wants(r, k)' <=> Wants(r, k)
    BY <1>1 DEF Wants
  <2>3. \A m : Tells(r, k, m)' <=> Tells(r, k, m)
    BY <2>2 DEF Tells
  <2>4. OnTheWay(r, k)' <=> OnTheWay(r, k)
    BY <1>1 DEF OnTheWay, Heard, Matches
  <2>5. \A i \in 1..Len(queue') : InQueue(r, k, i)' <=> InQueue(r, k, i + 1)
    <3>1. \A i \in 1..Len(queue') : i + 1 \in 1..Len(queue)
      BY <1>2
    <3> QED BY <1>2, <3>1 DEF InQueue, Heard, Matches
  <2>6. InQueue(r, k, 1) <=> Heard(r, k, h)
    BY <1>2 DEF InQueue
  <2>7. \A b \in Actor : \A m \in out'[b] : Heard(r, k, m) => Tells(r, k, m)'
    BY <1>1, <2>1, <2>3 DEF LastWord
  <2>8. ASSUME ~OnTheWay(r, k)', NEW i \in 1..Len(queue'),
               LastInQueue(r, k, i)'
        PROVE  Tells(r, k, queue[i])'
    <3>1. i + 1 \in 1..Len(queue) /\ InQueue(r, k, i + 1)
      BY <1>2, <2>5, <2>8 DEF LastInQueue
    <3>2. ASSUME NEW j \in 1..Len(queue), j > i + 1
          PROVE  ~InQueue(r, k, j)
      <4>1. j - 1 \in 1..Len(queue') /\ j - 1 > i /\ (j - 1) + 1 = j
        BY <1>2, <3>2
      <4> QED BY <2>5, <2>8, <4>1 DEF LastInQueue
    <3> QED BY <1>2, <2>1, <2>3, <2>4, <2>8, <3>1, <3>2 DEF LastWord, LastInQueue
  <2>9. k \in Key /\ h.key \in Key /\ h.severity \in Level
        /\ view \in [Receivers -> [Key -> Level]]
    BY <1>2, <1>t, Kinds DEF Message, TypeOK
  <2>10. view'[r] = IF Matches(r, h)
                    THEN [view[r] EXCEPT ![h.key] =
                            IF h.kind = "resolved" THEN 0 ELSE h.severity]
                    ELSE view[r]
    BY DEF Dispatch
  <2>11. ASSUME ~OnTheWay(r, k)', \A i \in 1..Len(queue') : ~InQueue(r, k, i)'
         PROVE  view'[r][k] # 0 <=> Wants(r, k)'
    <3>1. ASSUME NEW j \in 1..Len(queue), j > 1
          PROVE  ~InQueue(r, k, j)
      <4>1. j - 1 \in 1..Len(queue') /\ (j - 1) + 1 = j
        BY <1>2, <3>1
      <4> QED BY <2>5, <2>11, <4>1
    <3>2. 1 \in 1..Len(queue) /\ \A j \in 1..Len(queue) : j = 1 \/ j > 1
      BY <1>2
    <3>3. CASE Heard(r, k, h)
      <4>1. LastInQueue(r, k, 1)
        BY <2>6, <3>1, <3>3 DEF LastInQueue
      <4>2. Tells(r, k, h)
        BY <1>2, <2>1, <2>4, <2>11, <3>2, <4>1 DEF LastWord
      <4>3. view'[r][k] = IF h.kind = "resolved" THEN 0 ELSE h.severity
        BY <2>9, <2>10, <3>3 DEF Heard
      <4>4. h.severity # 0
        BY <3>3, NeverZero DEF Heard, Matches
      <4> QED BY <2>2, <4>2, <4>3, <4>4 DEF Tells
    <3>4. CASE ~Heard(r, k, h)
      <4>1. \A j \in 1..Len(queue) : ~InQueue(r, k, j)
        BY <2>6, <3>1, <3>2, <3>4
      <4>2. view'[r][k] = view[r][k]
        BY <2>9, <2>10, <3>4 DEF Heard
      <4> QED BY <2>1, <2>2, <2>4, <2>11, <4>1, <4>2 DEF LastWord
    <3> QED BY <3>3, <3>4
  <2> QED BY <2>7, <2>8, <2>11 DEF LastWord, Heard, Matches
<1> QED BY <1>3, <1>4 DEF Words

(* The loops keep to their own keys, and silences to theirs.               *)
LEMMA WorkKept ==
    ASSUME WInv, Next
    PROVE  Work' /\ Unsilenced'
<1> USE DEF env, locals, Goto
<1>t. TypeOK /\ Work /\ Unsilenced
  BY DEF WInv, IInv
<1>1. Unsilenced'
  <2>1. CASE \E k \in Silenceable : Silence(k)
    <3>1. PICK k \in Silenceable : Silence(k)
      BY <2>1
    <3> QED BY <1>t, <3>1, Kinds DEF Silence, Unsilenced, TypeOK
  <2>2. CASE UNCHANGED silenced
    BY <1>t, <2>2 DEF Unsilenced
  <2> QED BY <2>1, <2>2 DEF Next, PollStep, PollTop, PollHost, PollFlush,
          PollListFail, PollList, PollObserve, PollInspect, PollCheck,
          PollExpected, PollForget, PollUp, PollSleep, EventStep, EventHit,
          EventTrack, EventDestroy, EventExit, ProbeStep, ProbeRun, ProbeSleep,
          Report, Dispatch, Stop, Stopped, Restart, World, Change, Destroy
<1>2. /\ todo'["poll"] \subseteq HostDetectors
      /\ todo'["probe"] \subseteq ProbeDetectors
  <2>1. CASE UNCHANGED todo
    BY <1>t, <2>1 DEF Work
  <2>2. CASE PollTop \/ PollHost
    BY <1>t, <2>2 DEF PollTop, PollHost, Work, TypeOK, Actor
  <2>3. CASE ProbeRun \/ ProbeSleep
    BY <1>t, <2>3 DEF ProbeRun, ProbeSleep, Work, TypeOK, Actor
  <2>4. CASE Restart
    BY <2>4 DEF Restart, StartTodo, Actor
  <2> QED BY <2>1, <2>2, <2>3, <2>4 DEF Next, PollStep, PollFlush,
          PollListFail, PollList, PollObserve, PollInspect, PollCheck,
          PollExpected, PollForget, PollUp, PollSleep, EventStep, EventHit,
          EventTrack, EventDestroy, EventExit, ProbeStep,
          Report, Dispatch, Stop, Stopped, World, Change, Silence, Destroy
<1>3. pc'["event"] = "track" => hit'.key \in ContainerKey
  <2>1. CASE UNCHANGED hit /\ pc'["event"] = pc["event"]
    BY <1>t, <2>1 DEF Work
  <2>2. CASE EventHit
    <3>1. Head(events) \in ContainerKey
      <4>1. Head(events) \in Event /\ Head(events)[1] # "destroy"
        BY <1>t, <2>2 DEF EventHit, TypeOK
      <4> QED BY <4>1, DetectorAssumption DEF Event, ContainerKey
    <3>2. pc["event"] = "idle"
      BY <2>2 DEF EventHit, At
    <3>3. \/ UNCHANGED <<pc, hit>>
          \/ \E found : hit' = [key |-> Head(events), severity |-> found]
      BY <2>2 DEF EventHit
    <3> QED BY <3>1, <3>2, <3>3
  <2>3. CASE EventTrack \/ EventExit
    <3>1. pc' = [pc EXCEPT !["event"] = "idle"] \/ pc' = [pc EXCEPT !["event"] = "done"]
      BY <2>3 DEF EventTrack, EventExit
    <3> QED BY <1>t, <3>1 DEF TypeOK, Actor
  <2>4. CASE PollStep \/ ProbeStep
    <3>1. UNCHANGED hit
      BY <2>4 DEF PollStep, PollTop, PollHost, PollFlush,
          PollListFail, PollList, PollObserve, PollInspect, PollCheck,
          PollExpected, PollForget, PollUp, PollSleep, ProbeStep, ProbeRun,
          ProbeSleep
    <3>2. UNCHANGED pc \/ (\E l : pc' = [pc EXCEPT !["poll"] = l])
                       \/ (\E l : pc' = [pc EXCEPT !["probe"] = l])
      BY <2>4 DEF PollStep, PollTop, PollHost, PollFlush,
          PollListFail, PollList, PollObserve, PollInspect, PollCheck,
          PollExpected, PollForget, PollUp, PollSleep, ProbeStep, ProbeRun,
          ProbeSleep
    <3> QED BY <1>t, <2>1, <3>1, <3>2 DEF TypeOK, Actor
  <2>5. CASE Restart
    BY <2>5 DEF Restart, StartPC, Actor
  <2> QED BY <2>1, <2>2, <2>3, <2>4, <2>5 DEF Next, EventStep, EventDestroy,
          Report, Dispatch, Stop, Stopped, World, Change, Silence, Destroy
<1> QED BY <1>1, <1>2, <1>3 DEF Work

(* Every step keeps the last word true.                                    *)
LEMMA WordsKept ==
    ASSUME WInv, Next
    PROVE  OwnWords' /\ Outspoken' /\ Words'
<1> USE DEF env, locals
<1>t. TypeOK /\ Work /\ Unsilenced /\ Outspoken /\ IInv
  BY DEF WInv, IInv
<1>l. level \in [Key -> Level]
  BY <1>t DEF TypeOK
<1>1. CASE UNCHANGED <<active, told, out, queue, view>>
  BY <1>1, SilentWords
<1>2. CASE PollHost
  <2>1. CASE \E d \in todo["poll"] : Track("poll", {d} \X HostResources, level)
    <3>1. PICK d \in todo["poll"] : Track("poll", {d} \X HostResources, level)
      BY <2>1
    <3>2. {d} \X HostResources \subseteq PollOwned
      BY <1>t, Kinds DEF Work
    <3>3. Section("poll", {d} \X HostResources)
      BY <1>t, <1>l, <3>1, Constants, TrackGood
    <3> QED BY <1>2, <3>2, <3>3, Constants, SectionWords
            DEF PollHost, Reported, Owner
  <2> QED BY <1>1, <1>2, <2>1 DEF PollHost
<1>3. CASE PollFlush
  <2>1. Section("poll", Deferred)
    BY <1>t, <1>3, Constants, FlushGood DEF PollFlush
  <2>2. \A k \in Deferred : k \in OneLoop => k \in PollOwned
    BY <1>t, Kinds DEF Deferred, OneLoop, Outspoken
  <2> QED BY <1>3, <2>1, <2>2, Constants, SectionWords
          DEF PollFlush, Reported, Owner
<1>4. CASE PollListFail
  <2>1. CASE Track("poll", {DaemonKey}, [Nothing EXCEPT ![DaemonKey] = Critical])
    <3>1. Section("poll", {DaemonKey})
      BY <1>t, <2>1, Constants, TrackGood
    <3> QED BY <1>4, <3>1, Constants, Kinds, SectionWords
            DEF PollListFail, Reported, Owner
  <2> QED BY <1>1, <1>4, <2>1 DEF PollListFail
<1>5. CASE PollCheck
  <2>1. CASE \E d \in checks : Track("poll", {<<d, cur>>},
                                     [Nothing EXCEPT ![<<d, cur>>] = snap[d]])
    <3>1. PICK d \in checks : Track("poll", {<<d, cur>>},
                                    [Nothing EXCEPT ![<<d, cur>>] = snap[d]])
      BY <2>1
    <3>2. <<d, cur>> \in ContainerKey /\ snap[d] \in Level
      BY <1>t DEF TypeOK, ContainerKey
    <3>3. Section("poll", {<<d, cur>>})
      BY <1>t, <3>1, <3>2, Constants, TrackGood
    <3> QED BY <1>5, <3>2, <3>3, Constants, Kinds, SectionWords DEF PollCheck
  <2> QED BY <1>1, <1>5, <2>1 DEF PollCheck, TrackAt
<1>6. CASE PollExpected
  <2>1. Section("poll", ExpectedKey)
    BY <1>t, <1>l, <1>6, Constants, TrackGood DEF PollExpected
  <2> QED BY <1>6, <2>1, Constants, Kinds, SectionWords
          DEF PollExpected, Reported, Owner
<1>k. \A c \in Containers : KeysOf(c) \subseteq ContainerKey
  BY DEF KeysOf, ContainerKey
<1>7. CASE PollForget
  <2>1. CASE \E c \in left : Track("poll", KeysOf(c), Nothing)
    <3>1. PICK c \in left : Track("poll", KeysOf(c), Nothing)
      BY <2>1
    <3>2. KeysOf(c) \cap OneLoop = {}
      BY <1>t, <1>k, Kinds DEF TypeOK
    <3>3. Section("poll", KeysOf(c))
      BY <1>t, <3>1, Constants, TrackGood
    <3> QED BY <1>7, <3>2, <3>3, Constants, SectionWords DEF PollForget
  <2> QED BY <1>1, <1>7, <2>1 DEF PollForget
<1>8. CASE PollUp
  <2>1. Section("poll", {DaemonKey})
    BY <1>t, <1>8, Constants, TrackGood DEF PollUp
  <2> QED BY <1>8, <2>1, Constants, Kinds, SectionWords
          DEF PollUp, Reported, Owner
<1>9. CASE EventTrack
  <2>1. hit.key \in ContainerKey /\ hit.key \in Key /\ hit.severity \in Level
    BY <1>t, <1>9 DEF EventTrack, At, Work, TypeOK
  <2>2. Section("event", {hit.key})
    BY <1>t, <1>9, <2>1, Constants, TrackGood DEF EventTrack
  <2> QED BY <1>9, <2>1, <2>2, Constants, Kinds, SectionWords DEF EventTrack
<1>10. CASE EventDestroy
  <2>1. Head(events) \in Event
    BY <1>t, <1>10 DEF EventDestroy, TypeOK
  <2>2. KeysOf(Head(events)[2]) \cap OneLoop = {}
    BY <2>1, <1>k, Kinds DEF Event
  <2>3. Section("event", KeysOf(Head(events)[2]))
    BY <1>t, <1>10, Constants, TrackGood DEF EventDestroy
  <2> QED BY <1>10, <2>2, <2>3, Constants, SectionWords DEF EventDestroy
<1>11. CASE ProbeRun
  <2>1. CASE \E d \in todo["probe"] : Track("probe", {d} \X ProbeResources, level)
    <3>1. PICK d \in todo["probe"] : Track("probe", {d} \X ProbeResources, level)
      BY <2>1
    <3>2. ({d} \X ProbeResources) \cap PollOwned = {}
      BY <1>t, Kinds DEF Work
    <3>3. Section("probe", {d} \X ProbeResources)
      BY <1>t, <1>l, <3>1, Constants, TrackGood
    <3> QED BY <1>11, <3>2, <3>3, Constants, SectionWords
            DEF ProbeRun, Reported, Owner
  <2> QED BY <1>1, <1>11, <2>1 DEF ProbeRun
<1>12. CASE \E a \in Actor : Report(a)
  BY <1>12, ReportWords
<1>13. CASE Dispatch
  BY <1>13, DispatchWords
<1> QED BY <1>1, <1>2, <1>3, <1>4, <1>5, <1>6, <1>7, <1>8, <1>9, <1>10, <1>11,
        <1>12, <1>13 DEF Next, PollStep, PollTop, PollList, PollObserve,
        PollInspect, PollSleep, EventStep, EventHit, EventExit, ProbeStep,
        ProbeSleep, Stop, Stopped, Restart, World, Change, Silence, Destroy

(* At the start nobody has been told anything.                             *)
LEMMA InitWords == Init => WInv
<1> SUFFICES ASSUME Init PROVE WInv
  OBVIOUS
<1>1. IInv
  BY InitGood
<1>2. Work
  BY DEF Init, Work, StartTodo, StartPC, Actor
<1>3. OwnWords /\ Unsilenced /\ Outspoken
  BY Kinds DEF Init, OwnWords, Unsilenced, Outspoken, Open, Absent
<1>4. ASSUME NEW r \in Receivers, NEW k \in OneLoop
      PROVE  LastWord(r, k)
  <2>1. k \in Key /\ told[k] = 0 /\ view[r][k] = 0
    BY Kinds DEF Init, Nothing
  <2>2. ~Wants(r, k)
    BY <2>1, NeverZero DEF Wants
  <2>3. \A a \in Actor : out[a] = {}
    BY DEF Init
  <2>4. \A i \in 1..Len(queue) : FALSE
    BY DEF Init
  <2> QED BY <2>1, <2>2, <2>3, <2>4 DEF LastWord, OnTheWay
<1> QED BY <1>1, <1>2, <1>3, <1>4 DEF WInv, Words

(* The inductive invariant.                                                *)
LEMMA StepWords ==
    ASSUME WInv, [Next]_vars
    PROVE  WInv'
<1>1. IInv'
  BY StepGood DEF WInv
<1>2. CASE Next
  BY <1>1, <1>2, WorkKept, WordsKept DEF WInv
<1>3. CASE UNCHANGED vars
  <2>1. Work' /\ Unsilenced'
    BY <1>3 DEF vars, env, locals, WInv, Work, Unsilenced
  <2>2. UNCHANGED <<active, told, out, queue, view>>
    BY <1>3 DEF vars
  <2> QED BY <1>1, <2>1, <2>2, SilentWords DEF WInv
<1> QED BY <1>2, <1>3

(* Once everything said about a problem is through, nothing is on its way. *)
LEMMA SettledView ==
    ASSUME WInv, NEW r \in Receivers, NEW k \in OneLoop, GapFree(r), Settled(k)
    PROVE  view[r][k] # 0 <=> Wants(r, k)
<1>1. LastWord(r, k)
  BY DEF WInv, Words
<1>2. ~OnTheWay(r, k) /\ \A i \in 1..Len(queue) : ~InQueue(r, k, i)
  BY DEF Settled, OnTheWay, InQueue, Heard
<1> QED BY <1>1, <1>2 DEF LastWord

(* Once what a loop said about a problem has reached the receivers, those  *)
(* that get everything believe in it exactly when it was announced and is  *)
(* not over, whatever silences, escalations, a full queue, a shutdown or a *)
(* restart did on the way (report and dispatch keep a loop's order).       *)
THEOREM ViewsAgree == Spec => []ReceiversAgree
<1>1. ASSUME WInv PROVE ReceiversAgree
  <2> SUFFICES ASSUME NEW k \in OneLoop, Settled(k), NEW r \in Receivers,
                      Everything(r)
               PROVE  view[r][k] # 0 <=> active[k].notified
    BY DEF ReceiversAgree, Agrees
  <2>1. GapFree(r)
    BY DEF Everything, GapFree
  <2>2. k \in Key /\ told[k] \in Level /\ (active[k].notified <=> told[k] # 0)
    BY <1>1, Kinds DEF WInv, IInv, TypeOK, NotifiedMeansTold
  <2>3. Wants(r, k) <=> told[k] # 0
    BY <2>2 DEF Wants, Everything, Level, Warning, Critical
  <2> QED BY <1>1, <2>1, <2>2, <2>3, SettledView
<1> QED BY <1>1, InitWords, StepWords, PTL DEF Spec

(* No receiver whose route has no gap above the severities it gets is left *)
(* believing in a problem that is over (resolution's severity, Route).     *)
THEOREM NobodyHaunted == Spec => []NoGhostProblems
<1>1. ASSUME WInv PROVE NoGhostProblems
  <2> SUFFICES ASSUME NEW k \in OneLoop, Settled(k), ~Open(k),
                      NEW r \in Receivers, GapFree(r)
               PROVE  view[r][k] = 0
    BY DEF NoGhostProblems
  <2>1. told[k] \in Level /\ told[k] <= active[k].severity /\ active[k].severity = 0
    BY <1>1, Kinds DEF WInv, IInv, TypeOK, NotifiedMeansTold, Open
  <2>2. told[k] = 0
    BY <2>1 DEF Level
  <2>3. ~Wants(r, k)
    BY <2>2, NeverZero DEF Wants
  <2> QED BY <1>1, <2>3, SettledView
<1> QED BY <1>1, InitWords, StepWords, PTL DEF Spec

-----------------------------------------------------------------------------
(* An episode closes only when its problem has been away since it opened.  *)
(* What the loops go by when they close one is, each at its own place,     *)
(* evidence of that: a clean inspect for an episode that was open when it  *)
(* began, a container missing from a listing made after it was seen, a     *)
(* destroy event, a daemon that answered.                                  *)
Over == \A k \in Key : Open(k) /\ level[k] = 0 => k \in calm
GoneIsOver == \A k \in ContainerKey : k[2] \notin exists => level[k] = 0
Looked ==
    pc["poll"] = "check" =>
        \A d \in PollDetectors :
           snap[d] = 0 /\ Open(<<d, cur>>) /\ <<d, cur>> \notin fresh
              => <<d, cur>> \in calm
Listed ==
    pc["poll"] \in {"observe", "inspect", "check", "expected"} =>
        exists \subseteq seen
Leaving == pc["poll"] = "forget" => left \cap exists = {}
Answered ==
    pc["poll"] \in {"observe", "inspect", "check", "expected", "forget", "up"} =>
        (Open(DaemonKey) => DaemonKey \in calm)
Struck == pc["event"] = "track" => hit.key \in ContainerKey /\ hit.severity # 0
Destroyed ==
    \A i \in 1..Len(events) :
        events[i][1] = "destroy" => events[i][2] \notin exists

Evidence == Over /\ GoneIsOver /\ Looked /\ Listed /\ Leaving /\ Answered
            /\ Struck /\ Destroyed

CInv == WInv /\ Evidence
Ended == \A k \in Key : Open(k) /\ ~Open(k)' => k \in calm

(* What a critical section about the keys in K does to the episodes.       *)
CalmSection(K) ==
    /\ Ended
    /\ \A k \in Key : Open(k)' /\ level[k] = 0 => k \in calm'
    /\ \A k \in Key : Open(k) /\ k \in calm /\ Open(k)' => k \in calm'
    /\ \A k \in ContainerKey : Open(k)' /\ k \notin fresh' => Open(k) /\ k \notin fresh
    /\ \A k \in Key \ K : Open(k)' => Open(k)

(* An update that closes only what is on the record does no more than that.*)
LEMMA PublishCalm ==
    ASSUME IInv, NEW a \in Actor, NEW K, NEW next \in [Key -> Alert],
           NEW say, Publish(a, next, say),
           \A k \in Key : Open(k) /\ next[k].severity = 0 => k \in calm,
           \A k \in Key \ K : next[k].severity # 0 => Open(k)
    PROVE  CalmSection(K)
<1>1. \A k \in Key : active'[k] = next[k]
  BY DEF Publish
<1>2. \A k \in Key : Open(k)' <=> next[k].severity # 0
  BY <1>1 DEF Open
<1>3. \A k \in Key : k \in calm' <=> /\ next[k].severity # 0
                                     /\ level[k] = 0 \/ (Open(k) /\ k \in calm)
  BY DEF Publish
<1>4. \A k \in ContainerKey : k \in fresh' <=> /\ next[k].severity # 0
                                               /\ Open(k) => k \in fresh
  BY DEF Publish
<1>5. ContainerKey \subseteq Key
  BY DEF Key
<1> QED BY <1>2, <1>3, <1>4, <1>5 DEF CalmSection, Ended

(* track, trackSet and resolveContainer close what they look at and find   *)
(* clean.                                                                  *)
LEMMA TrackCalm ==
    ASSUME IInv, NEW a \in Actor, NEW K \in SUBSET Key,
           NEW issue \in [Key -> Level], Track(a, K, issue),
           \A k \in K : Open(k) /\ issue[k] = 0 => k \in calm
    PROVE  CalmSection(K)
<1> DEFINE next == [k \in Key |-> IF k \in K
                       THEN Tracked(active[k], issue[k], silenced[k])
                       ELSE active[k]]
           say == [k \in Key |-> IF k \in K
                       THEN TrackMessage(k, active[k], issue[k], silenced[k])
                       ELSE NoMessage(k)]
<1>1. Publish(a, next, say)
  BY DEF Track
<1>2. ASSUME NEW k \in Key
      PROVE  /\ next[k] \in Alert
             /\ Open(k) /\ next[k].severity = 0 => k \in calm
             /\ k \notin K /\ next[k].severity # 0 => Open(k)
  <2>1. active[k] \in Alert /\ issue[k] \in Level /\ silenced[k] \in BOOLEAN
    BY DEF IInv, TypeOK
  <2>2. CASE k \notin K
    BY <2>1, <2>2 DEF Open
  <2>3. CASE k \in K
    <3>1. next[k] = Tracked(active[k], issue[k], silenced[k])
      BY <2>3
    <3>2. Tracked(active[k], issue[k], silenced[k]) \in Alert
      BY <2>1 DEF Tracked, Alert, Absent, Level
    <3>3. Open(k) /\ issue[k] # 0
            => Tracked(active[k], issue[k], silenced[k]).severity # 0
      BY <2>1 DEF Tracked, Alert, Absent, Level, Open
    <3> QED BY <2>3, <3>1, <3>2, <3>3
  <2> QED BY <2>2, <2>3
<1>3. next \in [Key -> Alert]
  BY <1>2
<1> HIDE DEF next, say
<1> QED BY <1>1, <1>2, <1>3, PublishCalm

(* flushDeferred announces and closes nothing.                             *)
LEMMA FlushCalm ==
    ASSUME IInv, NEW a \in Actor, FlushDeferred(a)
    PROVE  CalmSection({})
<1> DEFINE next == [k \in Key |-> IF k \in Deferred
                       THEN [active[k] EXCEPT !.notified = TRUE]
                       ELSE active[k]]
           say == [k \in Key |-> IF k \in Deferred
                       THEN [key |-> k, kind |-> "firing",
                             severity |-> active[k].severity,
                             silenced |-> FALSE]
                       ELSE NoMessage(k)]
<1>1. Publish(a, next, say)
  BY DEF FlushDeferred
<1>2. \A k \in Key : next[k] \in Alert /\ next[k].severity = active[k].severity
  BY DEF IInv, TypeOK, Alert
<1>3. next \in [Key -> Alert]
  BY <1>2
<1> HIDE DEF next, say
<1> QED BY <1>1, <1>2, <1>3, PublishCalm DEF Open

(* A step that leaves the map, its freshness and the history alone.        *)
LEMMA NoSection ==
    ASSUME UNCHANGED <<active, fresh, calm, level>>, Evidence
    PROVE  CalmSection({})
BY DEF CalmSection, Ended, Open, Evidence, Over, Key

(* A critical section, whoever's, leaves what is over on the record ...    *)
LEMMA SectionOver ==
    ASSUME Evidence, NEW K, CalmSection(K), UNCHANGED <<level, exists>>
    PROVE  Ended /\ Over' /\ GoneIsOver'
<1>1. Ended /\ \A k \in Key : Open(k)' /\ level[k] = 0 => k \in calm'
  BY DEF CalmSection
<1>2. \A k \in Key : Open(k)' /\ level'[k] = 0 => k \in calm'
  BY <1>1
<1> QED BY <1>1, <1>2 DEF Over, Evidence, GoneIsOver

(* ... and takes no evidence from the poll loop, unless it is about the    *)
(* daemon.                                                                 *)
LEMMA PollStays ==
    ASSUME IInv, Evidence, NEW K, CalmSection(K), DaemonKey \notin K,
           UNCHANGED <<level, exists, snap, cur, seen, left>>,
           pc'["poll"] = pc["poll"]
    PROVE  Looked' /\ Listed' /\ Leaving' /\ Answered'
<1>1. ASSUME pc["poll"] = "check", NEW d \in PollDetectors, snap[d] = 0,
             Open(<<d, cur>>)', <<d, cur>> \notin fresh'
      PROVE  <<d, cur>> \in calm'
  <2>1. <<d, cur>> \in ContainerKey /\ <<d, cur>> \in Key
    BY DEF IInv, TypeOK, ContainerKey, Key
  <2>2. Open(<<d, cur>>) /\ <<d, cur>> \notin fresh
    BY <1>1, <2>1 DEF CalmSection
  <2>3. <<d, cur>> \in calm
    BY <1>1, <2>2 DEF Evidence, Looked
  <2> QED BY <1>1, <2>1, <2>2, <2>3 DEF CalmSection
<1>2. Looked'
  <2>1. \A d \in PollDetectors : snap'[d] = snap[d] /\ <<d, cur'>> = <<d, cur>>
    OBVIOUS
  <2> QED BY <1>1, <2>1 DEF Looked, Open
<1>3. ASSUME Open(DaemonKey)', Open(DaemonKey) => DaemonKey \in calm
      PROVE  DaemonKey \in calm'
  <2>1. DaemonKey \in Key
    BY DEF Key
  <2>2. Open(DaemonKey)
    BY <1>3, <2>1 DEF CalmSection
  <2> QED BY <1>3, <2>1, <2>2 DEF CalmSection
<1>4. Answered'
  BY <1>3 DEF Evidence, Answered
<1> QED BY <1>2, <1>4 DEF Evidence, Listed, Leaving

(* Every step of the poll loop closes only what has ended.                 *)
LEMMA PollCalm ==
    ASSUME CInv, PollStep
    PROVE  Evidence' /\ Ended
<1> USE Constants
<1> USE DEF At, Reported, Goto, env, locals
<1>e. IInv /\ TypeOK /\ Evidence /\ Work
  BY DEF CInv, WInv, IInv
<1>p. pc \in [Actor -> PC] /\ "poll" \in Actor /\ "event" \in Actor
  BY <1>e DEF TypeOK
<1>n. Nothing \in [Key -> Level] /\ level \in [Key -> Level]
      /\ \A k \in Key : Nothing[k] = 0
  BY <1>e DEF TypeOK, Nothing
<1>d. \A c \in Containers : /\ DaemonKey \notin KeysOf(c)
                            /\ KeysOf(c) \in SUBSET Key
                            /\ KeysOf(c) \subseteq ContainerKey
  BY KindsDistinct DEF KeysOf, ContainerKey, Key
<1>1. CASE PollTop
  <2>1. pc'["poll"] \in {"host", "done"} /\ pc'["event"] = pc["event"]
    BY <1>1, <1>p DEF PollTop
  <2>2. CalmSection({})
    BY <1>1, <1>e, NoSection DEF PollTop
  <2>3. Ended /\ Over' /\ GoneIsOver'
    BY <1>1, <1>e, <2>2, SectionOver DEF PollTop
  <2>4. Struck' /\ Destroyed'
    BY <1>1, <1>e, <2>1 DEF PollTop, Evidence, Struck, Destroyed
  <2> QED BY <2>1, <2>3, <2>4 DEF Evidence, Looked, Listed, Leaving, Answered
<1>2. CASE PollHost
  <2>1. pc'["poll"] \in {"host", "flush"} /\ pc'["event"] = pc["event"]
    BY <1>2, <1>p DEF PollHost
  <2>2. PICK K \in SUBSET Key : CalmSection(K)
    <3>1. CASE UNCHANGED <<active, fresh, calm, level>>
      BY <1>e, <3>1, NoSection
    <3>2. CASE \E d \in todo["poll"] : Track("poll", {d} \X HostResources, level)
      <4>1. PICK d \in todo["poll"] : Track("poll", {d} \X HostResources, level)
        BY <3>2
      <4>2. ({d} \X HostResources) \in SUBSET Key
        BY <1>e DEF Work, Key, HostKey
      <4>3. \A k \in {d} \X HostResources : Open(k) /\ level[k] = 0 => k \in calm
        BY <1>e, <4>2 DEF Evidence, Over
      <4> QED BY <1>e, <1>n, <4>1, <4>2, <4>3, TrackCalm
    <3> QED BY <1>2, <3>1, <3>2 DEF PollHost
  <2>3. Ended /\ Over' /\ GoneIsOver'
    BY <1>2, <1>e, <2>2, SectionOver DEF PollHost
  <2>4. Struck' /\ Destroyed'
    BY <1>2, <1>e, <2>1 DEF PollHost, Evidence, Struck, Destroyed
  <2> QED BY <2>1, <2>3, <2>4 DEF Evidence, Looked, Listed, Leaving, Answered
<1>3. CASE PollFlush
  <2>1. pc'["poll"] \in {"list"} /\ pc'["event"] = pc["event"]
    BY <1>3, <1>p DEF PollFlush
  <2>2. CalmSection({})
    BY <1>3, <1>e, FlushCalm DEF PollFlush
  <2>3. Ended /\ Over' /\ GoneIsOver'
    BY <1>3, <1>e, <2>2, SectionOver DEF PollFlush
  <2>4. Struck' /\ Destroyed'
    BY <1>3, <1>e, <2>1 DEF PollFlush, Evidence, Struck, Destroyed
  <2> QED BY <2>1, <2>3, <2>4 DEF Evidence, Looked, Listed, Leaving, Answered
<1>4. CASE PollListFail
  <2>1. pc'["poll"] \in {"done", "sleep"} /\ pc'["event"] = pc["event"]
    BY <1>4, <1>p DEF PollListFail
  <2>2. PICK K \in SUBSET Key : CalmSection(K)
    <3>1. CASE UNCHANGED <<active, fresh, calm, level>>
      BY <1>e, <3>1, NoSection
    <3>2. CASE Track("poll", {DaemonKey}, [Nothing EXCEPT ![DaemonKey] = Critical])
      <4>1. {DaemonKey} \in SUBSET Key
            /\ [Nothing EXCEPT ![DaemonKey] = Critical] \in [Key -> Level]
            /\ [Nothing EXCEPT ![DaemonKey] = Critical][DaemonKey] # 0
        BY <1>n DEF Critical, Level
      <4> QED BY <1>e, <3>2, <4>1, TrackCalm
    <3> QED BY <1>4, <3>1, <3>2 DEF PollListFail
  <2>3. Ended /\ Over' /\ GoneIsOver'
    BY <1>4, <1>e, <2>2, SectionOver DEF PollListFail
  <2>4. Struck' /\ Destroyed'
    BY <1>4, <1>e, <2>1 DEF PollListFail, Evidence, Struck, Destroyed
  <2> QED BY <2>1, <2>3, <2>4 DEF Evidence, Looked, Listed, Leaving, Answered
<1>5. CASE PollList
  <2>1. pc'["poll"] \in {"observe"} /\ pc'["event"] = pc["event"]
    BY <1>5, <1>p DEF PollList
  <2>2. CalmSection({})
    BY <1>5, <1>e, NoSection DEF PollList
  <2>3. Ended /\ Over' /\ GoneIsOver'
    BY <1>5, <1>e, <2>2, SectionOver DEF PollList
  <2>4. Struck' /\ Destroyed'
    BY <1>5, <1>e, <2>1 DEF PollList, Evidence, Struck, Destroyed
  <2>5. Open(DaemonKey)' => DaemonKey \in calm'
    BY <1>5, <1>e DEF PollList, Reachable, Evidence, Over, Open
  <2>6. exists' \subseteq seen'
    BY <1>5 DEF PollList
  <2> QED BY <2>1, <2>3, <2>4, <2>5, <2>6 DEF Evidence, Looked, Listed, Leaving, Answered
<1>6. CASE PollObserve
  <2>1. pc'["poll"] \in {"inspect", "expected"} /\ pc'["event"] = pc["event"]
    BY <1>6, <1>p DEF PollObserve
  <2>2. UNCHANGED <<active, calm, level, exists, seen, events, hit>>
    BY <1>6 DEF PollObserve
  <2>3. Ended /\ Over' /\ GoneIsOver'
    BY <1>e, <2>2 DEF Ended, Over, GoneIsOver, Evidence, Open
  <2>4. Struck' /\ Destroyed'
    BY <1>e, <2>1, <2>2 DEF Evidence, Struck, Destroyed
  <2>5. Listed' /\ Answered'
    BY <1>6, <1>e, <2>2 DEF PollObserve, Evidence, Listed, Answered, Open
  <2> QED BY <2>1, <2>3, <2>4, <2>5 DEF Evidence, Looked, Leaving
<1>7. CASE PollInspect
  <2>1. pc'["poll"] \in {"check", "observe"} /\ pc'["event"] = pc["event"]
    BY <1>7, <1>p DEF PollInspect
  <2>2. CalmSection({})
    BY <1>7, <1>e, NoSection DEF PollInspect
  <2>3. Ended /\ Over' /\ GoneIsOver'
    BY <1>7, <1>e, <2>2, SectionOver DEF PollInspect
  <2>4. Struck' /\ Destroyed'
    BY <1>7, <1>e, <2>1 DEF PollInspect, Evidence, Struck, Destroyed
  <2>5. Listed' /\ Answered'
    BY <1>7, <1>e, <2>1 DEF PollInspect, Evidence, Listed, Answered, Open
  <2>6. ASSUME pc'["poll"] = "check", NEW d \in PollDetectors, snap'[d] = 0,
               Open(<<d, cur>>)
        PROVE  <<d, cur>> \in calm
    <3>1. snap' = [i \in PollDetectors |-> level[<<i, cur>>]]
      BY <1>7, <1>p, <2>6 DEF PollInspect
    <3>2. <<d, cur>> \in Key
      BY <1>e DEF TypeOK, Key, ContainerKey
    <3> QED BY <1>e, <2>6, <3>1, <3>2 DEF Evidence, Over
  <2>7. UNCHANGED <<active, calm, cur>>
    BY <1>7 DEF PollInspect
  <2>8. Looked'
    BY <2>6, <2>7 DEF Looked, Open
  <2> QED BY <2>1, <2>3, <2>4, <2>5, <2>8 DEF Evidence, Leaving
<1>8. CASE PollCheck
  <2>1. pc'["poll"] \in {"check", "observe"} /\ pc'["event"] = pc["event"]
    BY <1>8, <1>p DEF PollCheck
  <2>2. PICK K \in SUBSET ContainerKey : CalmSection(K)
    <3>1. CASE UNCHANGED <<active, fresh, calm, level>>
      BY <1>e, <3>1, NoSection
    <3>2. ASSUME NEW d \in checks, TrackAt("poll", <<d, cur>>, snap[d]),
                 ~UNCHANGED <<active, fresh, out, told, calm>>
          PROVE  CalmSection({<<d, cur>>}) /\ {<<d, cur>>} \in SUBSET ContainerKey
      <4> DEFINE k == <<d, cur>>
                 issue == [Nothing EXCEPT ![k] = snap[d]]
      <4>1. k \in ContainerKey /\ k \in Key /\ d \in PollDetectors /\ snap[d] \in Level
        BY <1>e DEF TypeOK, Key, ContainerKey
      <4>2. issue \in [Key -> Level] /\ issue[k] = snap[d]
        BY <1>n, <4>1
      <4>3. Track("poll", {k}, issue)
        BY <3>2 DEF TrackAt
      <4>4. Open(k) /\ issue[k] = 0 => k \notin fresh
        BY <3>2, <4>2 DEF TrackAt
      <4>5. Open(k) /\ issue[k] = 0 => k \in calm
        BY <1>8, <1>e, <4>1, <4>2, <4>4 DEF PollCheck, Evidence, Looked
      <4>6. {k} \in SUBSET Key
        BY <4>1
      <4> HIDE DEF issue
      <4> QED BY <1>e, <4>1, <4>2, <4>3, <4>5, <4>6, TrackCalm
    <3>3. \/ UNCHANGED <<active, fresh, out, told, calm>>
          \/ \E d \in checks : TrackAt("poll", <<d, cur>>, snap[d])
      BY <1>8 DEF PollCheck
    <3>4. UNCHANGED level
      BY <1>8 DEF PollCheck
    <3> QED BY <3>1, <3>2, <3>3, <3>4
  <2>3. Ended /\ Over' /\ GoneIsOver'
    BY <1>8, <1>e, <2>2, SectionOver DEF PollCheck
  <2>4. Struck' /\ Destroyed'
    BY <1>8, <1>e, <2>1 DEF PollCheck, Evidence, Struck, Destroyed
  <2>5. DaemonKey \notin K
    BY KindsDistinct
  <2>6. CASE pc'["poll"] = "observe"
    <3>1. UNCHANGED <<active, calm, seen, exists>>
      BY <1>8, <1>p, <2>6 DEF PollCheck
    <3>2. Listed' /\ Answered'
      BY <1>8, <1>e, <3>1 DEF PollCheck, Evidence, Listed, Answered, Open
    <3> QED BY <2>3, <2>4, <2>6, <3>2 DEF Evidence, Looked, Leaving
  <2>7. CASE pc'["poll"] = "check"
    <3>1. UNCHANGED <<level, exists, snap, cur, seen, left>>
          /\ pc'["poll"] = pc["poll"]
      BY <1>8, <1>p, <2>7 DEF PollCheck
    <3>2. Looked' /\ Listed' /\ Leaving' /\ Answered'
      BY <1>e, <2>2, <2>5, <3>1, PollStays
    <3> QED BY <2>3, <2>4, <3>2 DEF Evidence
  <2> QED BY <2>1, <2>6, <2>7
<1>9. CASE PollExpected
  <2>1. pc'["poll"] \in {"forget"} /\ pc'["event"] = pc["event"]
    BY <1>9, <1>p DEF PollExpected
  <2>2. CalmSection(ExpectedKey)
    <3>1. ExpectedKey \in SUBSET Key
      BY DEF Key
    <3>2. \A k \in ExpectedKey : Open(k) /\ level[k] = 0 => k \in calm
      BY <1>e, <3>1 DEF Evidence, Over
    <3> QED BY <1>9, <1>e, <1>n, <3>1, <3>2, TrackCalm DEF PollExpected
  <2>3. Ended /\ Over' /\ GoneIsOver'
    BY <1>9, <1>e, <2>2, SectionOver DEF PollExpected
  <2>4. Struck' /\ Destroyed'
    BY <1>9, <1>e, <2>1 DEF PollExpected, Evidence, Struck, Destroyed
  <2>5. DaemonKey \notin ExpectedKey
    BY DEF DaemonKey, ExpectedKey
  <2>6. Open(DaemonKey)' => DaemonKey \in calm'
    <3>1. DaemonKey \in Key
      OBVIOUS
    <3>2. Open(DaemonKey) => DaemonKey \in calm
      BY <1>9, <1>e DEF PollExpected, Evidence, Answered
    <3> QED BY <2>2, <2>5, <3>1, <3>2 DEF CalmSection
  <2>7. left' \cap exists' = {}
    <3>1. exists \subseteq seen
      BY <1>9, <1>e DEF PollExpected, Evidence, Listed
    <3> QED BY <1>9, <3>1 DEF PollExpected
  <2> QED BY <2>1, <2>3, <2>4, <2>6, <2>7 DEF Evidence, Looked, Listed, Leaving, Answered
<1>10. CASE PollForget
  <2>1. pc'["poll"] \in {"forget", "up"} /\ pc'["event"] = pc["event"]
    BY <1>10, <1>p DEF PollForget
  <2>2. PICK K \in SUBSET ContainerKey : CalmSection(K)
    <3>1. CASE UNCHANGED <<active, fresh, calm, level>>
      BY <1>e, <3>1, NoSection
    <3>2. ASSUME NEW c \in left, Track("poll", KeysOf(c), Nothing)
          PROVE  CalmSection(KeysOf(c)) /\ KeysOf(c) \in SUBSET ContainerKey
      <4>1. c \in Containers /\ c \notin exists
        BY <1>10, <1>e DEF PollForget, TypeOK, Evidence, Leaving
      <4>2. \A k \in KeysOf(c) : k \in Key /\ k \in ContainerKey /\ k[2] = c
        BY <1>d, <4>1 DEF KeysOf
      <4>3. \A k \in KeysOf(c) : Open(k) => k \in calm
        BY <1>e, <4>1, <4>2 DEF Evidence, Over, GoneIsOver
      <4>4. KeysOf(c) \in SUBSET Key /\ KeysOf(c) \in SUBSET ContainerKey
        BY <1>d, <4>1
      <4> QED BY <1>e, <1>n, <3>2, <4>3, <4>4, TrackCalm
    <3> QED BY <1>10, <3>1, <3>2 DEF PollForget
  <2>3. Ended /\ Over' /\ GoneIsOver'
    BY <1>10, <1>e, <2>2, SectionOver DEF PollForget
  <2>4. Struck' /\ Destroyed'
    BY <1>10, <1>e, <2>1 DEF PollForget, Evidence, Struck, Destroyed
  <2>5. DaemonKey \notin K /\ DaemonKey \in Key
    BY KindsDistinct
  <2>6. Open(DaemonKey)' => DaemonKey \in calm'
    <3>1. Open(DaemonKey) => DaemonKey \in calm
      BY <1>10, <1>e DEF PollForget, Evidence, Answered
    <3> QED BY <2>2, <2>5, <3>1 DEF CalmSection
  <2>7. pc'["poll"] = "forget" => left' \cap exists' = {}
    <3>1. left \cap exists = {}
      BY <1>10, <1>e DEF PollForget, Evidence, Leaving
    <3>2. left' \subseteq left /\ exists' = exists
      BY <1>10 DEF PollForget
    <3> QED BY <3>1, <3>2
  <2> QED BY <2>1, <2>3, <2>4, <2>6, <2>7 DEF Evidence, Looked, Listed, Leaving, Answered
<1>11. CASE PollUp
  <2>1. pc'["poll"] \in {"sleep"} /\ pc'["event"] = pc["event"]
    BY <1>11, <1>p DEF PollUp
  <2>2. CalmSection({DaemonKey})
    <3>1. Open(DaemonKey) => DaemonKey \in calm
      BY <1>11, <1>e DEF PollUp, Evidence, Answered
    <3>2. {DaemonKey} \in SUBSET Key
      OBVIOUS
    <3> QED BY <1>11, <1>e, <1>n, <3>1, <3>2, TrackCalm DEF PollUp
  <2>3. Ended /\ Over' /\ GoneIsOver'
    BY <1>11, <1>e, <2>2, SectionOver DEF PollUp
  <2>4. Struck' /\ Destroyed'
    BY <1>11, <1>e, <2>1 DEF PollUp, Evidence, Struck, Destroyed
  <2> QED BY <2>1, <2>3, <2>4 DEF Evidence, Looked, Listed, Leaving, Answered
<1>12. CASE PollSleep
  <2>1. pc'["poll"] \in {"top", "done"} /\ pc'["event"] = pc["event"]
    BY <1>12, <1>p DEF PollSleep
  <2>2. CalmSection({})
    BY <1>12, <1>e, NoSection DEF PollSleep
  <2>3. Ended /\ Over' /\ GoneIsOver'
    BY <1>12, <1>e, <2>2, SectionOver DEF PollSleep
  <2>4. Struck' /\ Destroyed'
    BY <1>12, <1>e, <2>1 DEF PollSleep, Evidence, Struck, Destroyed
  <2> QED BY <2>1, <2>3, <2>4 DEF Evidence, Looked, Listed, Leaving, Answered
<1> QED BY <1>1, <1>2, <1>3, <1>4, <1>5, <1>6, <1>7, <1>8, <1>9, <1>10, <1>11,
          <1>12 DEF PollStep

(* Every step of the event loop closes only what has ended: a destroy      *)
(* event comes after the container has gone.                               *)
LEMMA EventCalm ==
    ASSUME CInv, EventStep
    PROVE  Evidence' /\ Ended
<1> USE Constants
<1> USE DEF At, Reported, Goto, env, locals
<1>e. IInv /\ TypeOK /\ Evidence /\ Work
  BY DEF CInv, WInv, IInv
<1>p. pc \in [Actor -> PC] /\ "poll" \in Actor /\ "event" \in Actor
  BY <1>e DEF TypeOK
<1>n. Nothing \in [Key -> Level] /\ \A k \in Key : Nothing[k] = 0
  BY DEF Nothing
<1>d. \A c \in Containers : /\ DaemonKey \notin KeysOf(c)
                            /\ KeysOf(c) \in SUBSET Key
                            /\ KeysOf(c) \subseteq ContainerKey
  BY KindsDistinct DEF KeysOf, ContainerKey, Key
<1>1. PICK K \in SUBSET ContainerKey : CalmSection(K)
  <2>1. CASE UNCHANGED <<active, fresh, calm, level>>
    BY <1>e, <2>1, NoSection
  <2>2. CASE EventTrack
    <3>1. hit.key \in ContainerKey /\ hit.severity # 0 /\ hit.severity \in Level
      BY <1>e, <2>2 DEF EventTrack, Evidence, Struck, TypeOK
    <3> DEFINE issue == [Nothing EXCEPT ![hit.key] = hit.severity]
    <3>2. hit.key \in Key
      BY <3>1
    <3>3. issue \in [Key -> Level] /\ issue[hit.key] # 0
      BY <1>n, <3>1, <3>2
    <3>4. Track("event", {hit.key}, issue) /\ {hit.key} \in SUBSET Key
      BY <2>2, <3>2 DEF EventTrack
    <3> HIDE DEF issue
    <3>5. CalmSection({hit.key})
      BY <1>e, <3>3, <3>4, TrackCalm
    <3> QED BY <3>1, <3>5
  <2>3. CASE EventDestroy
    <3> DEFINE c == Head(events)[2]
    <3>1. events \in Seq(Event) /\ events # <<>> /\ Head(events) = events[1]
          /\ events[1] \in Event /\ 1 \in 1..Len(events)
      BY <1>e, <2>3 DEF EventDestroy, TypeOK
    <3>2. c \in Containers /\ c \notin exists
      BY <1>e, <2>3, <3>1 DEF EventDestroy, Evidence, Destroyed, Event
    <3>3. \A k \in KeysOf(c) : k \in Key /\ k \in ContainerKey /\ k[2] = c
      BY <1>d, <3>2 DEF KeysOf
    <3>4. \A k \in KeysOf(c) : Open(k) => k \in calm
      BY <1>e, <3>2, <3>3 DEF Evidence, Over, GoneIsOver
    <3>5. KeysOf(c) \in SUBSET Key /\ KeysOf(c) \in SUBSET ContainerKey
      BY <1>d, <3>2
    <3>6. Track("event", KeysOf(c), Nothing)
      BY <2>3 DEF EventDestroy
    <3> HIDE DEF c
    <3>7. CalmSection(KeysOf(c))
      BY <1>e, <1>n, <3>4, <3>5, <3>6, TrackCalm
    <3> QED BY <3>5, <3>7
  <2> QED BY <2>1, <2>2, <2>3 DEF EventStep, EventHit, EventExit
<1>2. UNCHANGED <<level, exists, snap, cur, seen, left>> /\ pc'["poll"] = pc["poll"]
  BY <1>p DEF EventStep, EventHit, EventTrack, EventDestroy, EventExit
<1>3. DaemonKey \notin K
  BY KindsDistinct
<1>4. Ended /\ Over' /\ GoneIsOver' /\ Looked' /\ Listed' /\ Leaving' /\ Answered'
  BY <1>e, <1>1, <1>2, <1>3, SectionOver, PollStays
<1>5. Struck'
  <2>1. CASE EventHit
    <3>1. ASSUME pc'["event"] = "track"
          PROVE  hit'.key = Head(events) /\ hit'.severity # 0
      BY <1>p, <2>1, <3>1 DEF EventHit
    <3>2. Head(events) \in ContainerKey
      <4>1. Head(events) \in Event
        BY <1>e, <2>1 DEF EventHit, TypeOK
      <4> QED BY <2>1, <4>1, DetectorAssumption DEF EventHit, Event, ContainerKey
    <3> QED BY <3>1, <3>2 DEF Struck
  <2>2. CASE EventTrack \/ EventDestroy \/ EventExit
    <3>1. pc'["event"] # "track"
      BY <1>p, <2>2 DEF EventTrack, EventDestroy, EventExit
    <3> QED BY <3>1 DEF Struck
  <2> QED BY <2>1, <2>2 DEF EventStep
<1>6. Destroyed'
  <2>1. events' = events \/ (events # <<>> /\ events' = Tail(events))
    BY DEF EventStep, EventHit, EventTrack, EventDestroy, EventExit
  <2>2. events \in Seq(Event)
    BY <1>e DEF TypeOK
  <2>3. \A i \in 1..Len(events') :
          \E j \in 1..Len(events) : events'[i] = events[j]
    BY <2>1, <2>2
  <2> QED BY <1>e, <1>2, <2>3 DEF Evidence, Destroyed
<1> QED BY <1>4, <1>5, <1>6 DEF Evidence

(* The probe loop closes what it has just looked at.                       *)
LEMMA ProbeCalm ==
    ASSUME CInv, ProbeStep
    PROVE  Evidence' /\ Ended
<1> USE Constants
<1> USE DEF At, Reported, Goto, env, locals
<1>e. IInv /\ TypeOK /\ Evidence /\ Work
  BY DEF CInv, WInv, IInv
<1>p. pc \in [Actor -> PC] /\ "poll" \in Actor /\ "event" \in Actor
      /\ "probe" \in Actor
  BY <1>e DEF TypeOK
<1>1. PICK K \in SUBSET ProbeKey : CalmSection(K)
  <2>1. CASE UNCHANGED <<active, fresh, calm, level>>
    BY <1>e, <2>1, NoSection
  <2>2. ASSUME NEW d \in todo["probe"], Track("probe", {d} \X ProbeResources, level)
        PROVE  CalmSection({d} \X ProbeResources)
               /\ ({d} \X ProbeResources) \in SUBSET ProbeKey
    <3>1. ({d} \X ProbeResources) \in SUBSET ProbeKey
      BY <1>e DEF Work, ProbeKey
    <3>2. ({d} \X ProbeResources) \in SUBSET Key
      BY <3>1, Kinds
    <3>3. \A k \in {d} \X ProbeResources : Open(k) /\ level[k] = 0 => k \in calm
      BY <1>e, <3>2 DEF Evidence, Over
    <3>4. level \in [Key -> Level]
      BY <1>e DEF TypeOK
    <3> QED BY <1>e, <1>p, <2>2, <3>1, <3>2, <3>3, <3>4, TrackCalm
  <2> QED BY <2>1, <2>2 DEF ProbeStep, ProbeRun, ProbeSleep
<1>2. UNCHANGED <<level, exists, snap, cur, seen, left, events, hit>>
      /\ pc'["poll"] = pc["poll"] /\ pc'["event"] = pc["event"]
  BY <1>p DEF ProbeStep, ProbeRun, ProbeSleep
<1>3. DaemonKey \notin K
  BY Kinds
<1>4. Ended /\ Over' /\ GoneIsOver' /\ Looked' /\ Listed' /\ Leaving' /\ Answered'
  BY <1>e, <1>1, <1>2, <1>3, SectionOver, PollStays
<1>5. Struck' /\ Destroyed'
  BY <1>e, <1>2 DEF Evidence, Struck, Destroyed
<1> QED BY <1>4, <1>5 DEF Evidence

(* Handing on, stopping and restarting close nothing; a restart begins     *)
(* with nothing looked at.                                                 *)
LEMMA LifecycleCalm ==
    ASSUME CInv, (\E a \in Actor : Report(a)) \/ Dispatch \/ Stop \/ Stopped \/ Restart
    PROVE  Evidence' /\ Ended
<1> USE DEF env, locals
<1>e. IInv /\ TypeOK /\ Evidence
  BY DEF CInv, WInv, IInv
<1>1. UNCHANGED <<active, calm, level, exists>>
  BY DEF Report, Dispatch, Stop, Stopped, Restart
<1>2. Ended /\ Over' /\ GoneIsOver'
  BY <1>e, <1>1 DEF Ended, Over, GoneIsOver, Evidence, Open
<1>3. CASE Restart
  <2>1. pc'["poll"] = "top" /\ pc'["event"] # "track"
    BY <1>3 DEF Restart, StartPC, Actor
  <2>2. PICK n \in 0..Len(events) : events' = SubSeq(events, n + 1, Len(events))
    BY <1>3 DEF Restart
  <2>3. \A i \in 1..Len(events') :
          \E j \in 1..Len(events) : events'[i] = events[j]
    <3>1. events \in Seq(Event) /\ n \in Nat /\ Len(events) \in Nat /\ n <= Len(events)
      BY <1>e DEF TypeOK
    <3>2. Len(events') = Len(events) - n
      BY <2>2, <3>1
    <3>3. ASSUME NEW i \in 1..Len(events')
          PROVE  n + i \in 1..Len(events) /\ events'[i] = events[n + i]
      BY <2>2, <3>1, <3>2, <3>3
    <3> QED BY <3>3
  <2>4. Destroyed'
    BY <1>e, <1>1, <2>3 DEF Evidence, Destroyed
  <2> QED BY <1>2, <2>1, <2>4 DEF Evidence, Looked, Listed, Leaving, Answered, Struck
<1>4. CASE ~Restart
  <2>1. UNCHANGED <<pc, fresh, snap, cur, seen, left, events, hit>>
    BY <1>4 DEF Report, Dispatch, Stop, Stopped
  <2>2. Looked' /\ Listed' /\ Leaving' /\ Answered' /\ Struck' /\ Destroyed'
    BY <1>e, <1>1, <2>1
       DEF Evidence, Looked, Listed, Leaving, Answered, Struck, Destroyed, Open
  <2> QED BY <1>2, <2>2 DEF Evidence
<1> QED BY <1>3, <1>4

(* The world takes no evidence away: what is over is put on the record,    *)
(* and what is gone does not come back.                                    *)
LEMMA WorldCalm ==
    ASSUME CInv, World
    PROVE  Evidence' /\ Ended
<1> USE DEF env, locals
<1>e. IInv /\ TypeOK /\ Evidence
  BY DEF CInv, WInv, IInv
<1>1. UNCHANGED <<active, fresh, pc, snap, cur, seen, left, hit>>
      /\ exists' \subseteq exists /\ calm \subseteq calm'
  BY DEF World, Change, Silence, Destroy
<1>2. Looked' /\ Listed' /\ Leaving' /\ Answered' /\ Struck' /\ Ended
  <2>1. \A k \in Key : Open(k)' <=> Open(k)
    BY <1>1 DEF Open
  <2> QED BY <1>e, <1>1, <2>1
          DEF Evidence, Looked, Listed, Leaving, Answered, Struck, Ended, Open
<1>3. ASSUME NEW k \in Troubled, NEW l \in Level, Change(k, l)
      PROVE  Over' /\ GoneIsOver' /\ Destroyed'
  <2>1. k \in Key
    BY BoundsAssumption
  <2>2. /\ level \in [Key -> Level] /\ UNCHANGED <<active, exists>>
        /\ level' = [level EXCEPT ![k] = l]
        /\ k \in calm' \/ ~(l = 0 /\ Open(k))
    <3>1. level \in [Key -> Level]
      BY <1>e DEF TypeOK
    <3>2. UNCHANGED <<active, exists>>
      BY <1>3 DEF Change
    <3>3. level' = [level EXCEPT ![k] = l]
          /\ calm' = IF l = 0 /\ Open(k) THEN calm \cup {k} ELSE calm
      BY <1>3 DEF Change
    <3> QED BY <3>1, <3>2, <3>3
  <2>3. Over'
    <3>1. \A i \in Key \ {k} : level'[i] = level[i]
      BY <2>2
    <3>2. level'[k] = l
      BY <2>1, <2>2
    <3> QED BY <1>e, <1>1, <2>1, <2>2, <3>1, <3>2 DEF Evidence, Over, Open
  <2>4. GoneIsOver'
    BY <1>e, <1>3, <2>1, <2>2, Constants DEF Change, Evidence, GoneIsOver
  <2>5. Destroyed'
    <3>1. events \in Seq(Event)
      BY <1>e DEF TypeOK
    <3>2. CASE events' = Append(events, k) /\ k \in EventDetectors \X Containers
      <4>1. k[1] # "destroy"
        BY <3>2, DetectorAssumption
      <4>2. \A i \in 1..Len(events') :
              events'[i] = k \/ \E j \in 1..Len(events) : events'[i] = events[j]
        BY <3>1, <3>2
      <4> QED BY <1>e, <2>2, <4>1, <4>2 DEF Evidence, Destroyed
    <3>3. CASE events' = events
      BY <1>e, <2>2, <3>3 DEF Evidence, Destroyed
    <3> QED BY <1>3, <3>2, <3>3 DEF Change
  <2> QED BY <2>3, <2>4, <2>5
<1>4. ASSUME NEW k \in Silenceable, Silence(k)
      PROVE  Over' /\ GoneIsOver' /\ Destroyed'
  BY <1>e, <1>4 DEF Silence, Evidence, Over, GoneIsOver, Destroyed, Open
<1>5. ASSUME NEW c \in Containers, Destroy(c)
      PROVE  Over' /\ GoneIsOver' /\ Destroyed'
  <2>1. /\ level \in [Key -> Level]
        /\ level' = [k \in Key |-> IF k \in KeysOf(c) THEN 0 ELSE level[k]]
        /\ calm' = calm \cup {k \in KeysOf(c) : Open(k)}
        /\ exists' = exists \ {c} /\ UNCHANGED active
    BY <1>e, <1>5 DEF Destroy, TypeOK
  <2>2. Over'
    BY <1>e, <2>1 DEF Evidence, Over, Open
  <2>3. GoneIsOver'
    <3> SUFFICES ASSUME NEW k \in ContainerKey, k[2] \notin exists'
                 PROVE  level'[k] = 0
      BY DEF GoneIsOver
    <3>1. k \in Key /\ k[1] \in PollDetectors /\ k[2] \in Containers
          /\ k = <<k[1], k[2]>>
      BY Constants DEF ContainerKey
    <3>2. k[2] = c => k \in KeysOf(c)
      BY <3>1 DEF KeysOf
    <3>3. k[2] # c => level[k] = 0
      BY <1>e, <2>1 DEF Evidence, GoneIsOver
    <3> QED BY <2>1, <3>1, <3>2, <3>3
  <2>4. Destroyed'
    <3>1. events \in Seq(Event)
      BY <1>e DEF TypeOK
    <3>2. events' = Append(events, <<"destroy", c>>) \/ events' = events
      BY <1>5 DEF Destroy
    <3>3. \A i \in 1..Len(events') :
            events'[i] = <<"destroy", c>>
            \/ \E j \in 1..Len(events) : events'[i] = events[j]
      BY <3>1, <3>2
    <3> QED BY <1>e, <2>1, <3>3 DEF Evidence, Destroyed
  <2> QED BY <2>2, <2>3, <2>4
<1> QED BY <1>2, <1>3, <1>4, <1>5 DEF World, Evidence

(* Nothing is open at the start.                                           *)
LEMMA InitCalm == Init => CInv
<1> SUFFICES ASSUME Init PROVE CInv
  OBVIOUS
<1>1. WInv
  BY InitWords
<1>2. Over /\ GoneIsOver /\ Destroyed
  BY DEF Init, Over, GoneIsOver, Destroyed, Open, Absent, Nothing, ContainerKey, Key
<1>3. pc["poll"] = "top" /\ pc["event"] # "track"
  BY DEF Init, StartPC, Actor
<1> QED BY <1>1, <1>2, <1>3
        DEF CInv, Evidence, Looked, Listed, Leaving, Answered, Struck

(* Every step keeps the evidence and closes only what has ended.           *)
LEMMA StepCalm ==
    ASSUME CInv, [Next]_vars
    PROVE  CInv' /\ [Ended]_vars
<1>1. WInv'
  BY StepWords DEF CInv
<1>2. CASE Next
  BY <1>1, <1>2, PollCalm, EventCalm, ProbeCalm, LifecycleCalm, WorldCalm
     DEF Next, CInv
<1>3. CASE UNCHANGED vars
  <2>1. Evidence'
    BY <1>3 DEF vars, env, locals, CInv, Evidence, Over, GoneIsOver, Looked,
                Listed, Leaving, Answered, Struck, Destroyed, Open
  <2> QED BY <1>1, <1>3, <2>1 DEF CInv
<1> QED BY <1>2, <1>3

(* Whichever of the three loops closes an episode, its problem has been    *)
(* away at some moment since the episode opened, for any number of         *)
(* containers and detectors, over restarts and lost events.                *)
THEOREM ClosesRightly == Spec => ClosesOnlyWhatEnded
<1>1. CInv /\ [Next]_vars => [Ended]_vars
  BY StepCalm
<1>2. CInv /\ [Next]_vars => CInv'
  BY StepCalm
<1> QED BY <1>1, <1>2, InitCalm, PTL DEF Spec, ClosesOnlyWhatEnded, Ended

-----------------------------------------------------------------------------
(* HostOOM: how many, and how old, are the entries a Check drops.          *)

LEMMA LeastOf ==
    ASSUME NEW S, S \subseteq Nat, S # {}
    PROVE  \E x \in S : \A y \in S : x <= y
<1> DEFINE R == OpToRel(<, Nat)
<1>1. IsWellFoundedOn(R, Nat)
  BY NatLessThanWellFounded
<1>2. \E x \in S : \A y \in S : ~(<<y, x>> \in R)
  <2> HIDE DEF R
  <2> QED BY <1>1, WFMin
<1>3. PICK x \in S : \A y \in S : ~(<<y, x>> \in R)
  BY <1>2
<1>4. ASSUME NEW y \in S PROVE x <= y
  <2>1. x \in Nat /\ y \in Nat /\ ~(<<y, x>> \in R)
    BY <1>3
  <2>2. ~(y < x)
    BY <2>1 DEF OpToRel
  <2> HIDE DEF R
  <2> QED BY <2>1, <2>2
<1> HIDE DEF R
<1> QED BY <1>4

LEMMA TailOf ==
    ASSUME NEW S, NEW s \in Seq(S), NEW k \in 0..Len(s)
    PROVE  /\ SubSeq(s, k + 1, Len(s)) \in Seq(S)
           /\ Len(SubSeq(s, k + 1, Len(s))) = Len(s) - k
           /\ \A i \in 1..Len(s) - k : SubSeq(s, k + 1, Len(s))[i] = s[k + i]
<1>1. \A i \in 1..Len(s) : s[i] \in S
  OBVIOUS
<1>2. SubSeq(s, k + 1, Len(s)) = [i \in 1..Len(s) - k |-> s[k + i]]
  OBVIOUS
<1>3. Len(s) - k \in Nat /\ \A i \in 1..Len(s) - k : k + i \in 1..Len(s)
  OBVIOUS
<1>4. [i \in 1..Len(s) - k |-> s[k + i]] \in Seq(S)
  BY <1>1, <1>3
<1> QED BY <1>2, <1>3, <1>4

(* What is dropped has waited for Settle.                                  *)
Waited(s, k) == \A i \in 1..k : now - s[i] >= Settle

LEMMA UnsettledIs ==
    ASSUME now \in Nat, NEW s \in Seq(Nat)
    PROVE  \E k \in 0..Len(s) :
             /\ Unsettled(s) \in Seq(Nat) /\ Len(Unsettled(s)) = Len(s) - k
             /\ \A i \in 1..Len(s) - k : Unsettled(s)[i] = s[k + i]
             /\ Waited(s, k)
<1> DEFINE Stops(k) == k < Len(s) => now - s[k + 1] < Settle
           P(k) == Waited(s, k) /\ Stops(k)
<1>1. PICK S : S = {k \in 0..Len(s) : Stops(k)}
  OBVIOUS
<1>2. S \subseteq Nat /\ Len(s) \in S
  BY <1>1
<1>3. PICK k \in S : \A y \in S : k <= y
  BY <1>2, LeastOf
<1>4. Waited(s, k)
  <2> SUFFICES ASSUME NEW i \in 1..k PROVE now - s[i] >= Settle
    BY DEF Waited
  <2>1. k \in 0..Len(s)
    BY <1>1, <1>3
  <2>2. i - 1 \in 0..Len(s) /\ i - 1 < k /\ (i - 1) + 1 = i
    BY <2>1
  <2>3. i - 1 \notin S
    BY <1>2, <1>3, <2>1, <2>2
  <2>4. ~Stops(i - 1)
    BY <1>1, <2>2, <2>3
  <2>5. s[i] \in Nat /\ Settle \in Nat
    BY <2>1, OOMAssumption
  <2> QED BY <2>2, <2>4, <2>5
<1>5. \E m \in 0..Len(s) : P(m)
  BY <1>1, <1>3, <1>4
<1>6. PICK m : m = CHOOSE n \in 0..Len(s) : P(n)
  OBVIOUS
<1>7. m \in 0..Len(s) /\ P(m)
  BY <1>5, <1>6
<1>8. Unsettled(s) = SubSeq(s, m + 1, Len(s))
  BY <1>6 DEF Unsettled, Waited
<1>9. /\ SubSeq(s, m + 1, Len(s)) \in Seq(Nat)
      /\ Len(SubSeq(s, m + 1, Len(s))) = Len(s) - m
      /\ \A i \in 1..Len(s) - m : SubSeq(s, m + 1, Len(s))[i] = s[m + i]
  BY <1>7, TailOf
<1> QED BY <1>7, <1>8, <1>9

-----------------------------------------------------------------------------
(* The books are right: of the first p kills c were a container's, of h    *)
(* host's and those in l; w wait, x were told, m met an event, the first b *)
(* were there before, and g events were delayed or lost.  A container's    *)
(* kill that is younger than an entry in w has an entry of its own there.  *)
Counted(h, l, p, w, x, m, b, g, c) ==
    /\ p = -1 => w = <<>> /\ x = 0 /\ m = 0 /\ b = 0
    /\ p # -1 =>
         /\ p - c \in 0..h
         /\ p - b = m + Len(w) + x
         /\ x <= (p - c) + g
         /\ \A i \in 1..c, j \in 1..Len(w) : w[j] < l[i] => c - i + 1 <= Len(w) - j

Memo(c) ==
    Counted(hostKills, log, prev, pending, confirmed + reported, matched, base,
            late + lost, c)

InTime ==
    /\ counter = hostKills + Len(log)
    /\ upSince <= lastCheck /\ lastCheck <= now /\ now <= lastCheck + PollEvery
    /\ \A i \in 1..Len(log) : log[i] <= now
    /\ \A i \in handled + 1..Len(log) : now <= Latest(i) + MaxDelay
    /\ Len(credits) <= handled
    /\ \A i \in 1..Len(credits) : log[handled - Len(credits) + i] <= credits[i]

(* The events up to d are handled, or delayed by a restart.  Those handled *)
(* that are neither matched nor waiting are of kills that were not counted *)
(* as waiting.                                                             *)
Delayed(d) ==
    /\ d \in handled..Len(log)
    /\ \A i \in d + 1..Len(log) : log[i] >= upSince
    /\ d - matched - Len(credits) - lost <= base + late

(* A Check under way has read r of the containers' kills.                  *)
SeenBy(c, r, d) ==
    stage = "match" =>
      /\ read - r \in 0..hostKills
      /\ prev # -1 => c <= r /\ prev - c <= read - r
      /\ d > handled => d <= r
      /\ \A i \in r + 1..Len(log) : log[i] >= lastCheck

OnDisk(f, c) ==
    /\ Counted(hostKills, log, f.prev, f.pending, f.confirmed + f.reported, f.matched,
               f.base, f.late + f.lost, c)
    /\ f.handled - f.matched - f.lost <= f.base + f.late
    /\ f.handled <= Len(log)

OOMInv ==
    /\ OOMTypes /\ InTime
    /\ \E c, r, d \in 0..Len(log) : Memo(c) /\ Delayed(d) /\ SeenBy(c, r, d)
    /\ \E c \in 0..Len(log) : OnDisk(saved, c)

LEMMA CountedLater ==
    ASSUME NEW h \in Nat, NEW h2 \in Nat, h <= h2, NEW l, NEW l2,
           NEW c \in Nat, \A i \in 1..c : l2[i] = l[i],
           NEW p \in Nat \cup {-1}, NEW w, NEW x, NEW m, NEW b, NEW g,
           Counted(h, l, p, w, x, m, b, g, c)
    PROVE  Counted(h2, l2, p, w, x, m, b, g, c)
<1>1. p # -1 => p - c \in 0..h2
  BY DEF Counted
<1> QED BY <1>1 DEF Counted

LEMMA CountedMore ==
    ASSUME NEW h, NEW l, NEW c \in Nat, NEW p \in Nat \cup {-1}, NEW w, NEW x \in Nat,
           NEW m, NEW b, NEW g \in Nat, NEW g2 \in Nat, g <= g2,
           Counted(h, l, p, w, x, m, b, g, c)
    PROVE  Counted(h, l, p, w, x, m, b, g2, c)
<1>1. p # -1 => x <= (p - c) + g2
  <2> SUFFICES ASSUME p # -1 PROVE x <= (p - c) + g2
    OBVIOUS
  <2>1. x <= (p - c) + g
    BY DEF Counted
  <2> QED BY <2>1
<1> QED BY <1>1 DEF Counted

-----------------------------------------------------------------------------
(* What a Check does: m credits meet m kills, k credits and q kills that   *)
(* have waited long enough are dropped and confirmed.                      *)
KillMatches(all, m, k, q) ==
    /\ all \in Seq(Nat) /\ Len(all) = Len(pending) + Len(Fresh)
    /\ \A i \in 1..Len(all) : all[i] = IF i <= Len(pending) THEN pending[i] ELSE now
    /\ m \in 0..Len(credits) /\ m <= Len(all)
    /\ (m = Len(credits) \/ m = Len(all))
    /\ k \in 0..(Len(credits) - m) /\ q \in 0..(Len(all) - m)
    /\ credits' \in Seq(Nat) /\ Len(credits') = Len(credits) - m - k
    /\ \A i \in 1..Len(credits') : credits'[i] = credits[m + k + i]
    /\ \A i \in 1..k : now - credits[m + i] >= Settle
    /\ pending' \in Seq(Nat) /\ Len(pending') = Len(all) - m - q
    /\ \A i \in 1..Len(pending') : pending'[i] = all[m + q + i]
    /\ \A i \in 1..q : now - all[m + i] >= Settle
    /\ confirmed' \in Nat /\ reported' \in Nat
    /\ confirmed' + reported' = confirmed + reported + q
    /\ matched' = matched + m
    /\ lastAlert' \in Nat

LEMMA FreshIs ==
    ASSUME OOMTypes
    PROVE  /\ Fresh \in Seq(Nat)
           /\ Len(Fresh) = IF prev # -1 /\ read > prev THEN read - prev ELSE 0
           /\ \A i \in 1..Len(Fresh) : Fresh[i] = now
<1>1. now \in Nat /\ read \in Nat /\ prev \in Nat \cup {-1}
  BY DEF OOMTypes
<1>2. CASE prev # -1 /\ read > prev
  <2>1. read - prev \in Nat /\ Fresh = [i \in 1..(read - prev) |-> now]
    BY <1>1, <1>2 DEF Fresh
  <2> QED BY <1>1, <1>2, <2>1
<1>3. CASE ~(prev # -1 /\ read > prev)
  <2>1. Fresh = <<>>
    BY <1>3 DEF Fresh
  <2> QED BY <1>1, <1>3, <2>1
<1> QED BY <1>2, <1>3

LEMMA MatchIs ==
    ASSUME OOMTypes, CheckMatch
    PROVE  \E all, m, k, q : KillMatches(all, m, k, q)
<1>1. now \in Nat /\ pending \in Seq(Nat) /\ credits \in Seq(Nat)
      /\ confirmed \in Nat /\ reported \in Nat /\ matched \in Nat /\ lastAlert \in Nat
      /\ Len(pending) \in Nat /\ Len(credits) \in Nat
  BY DEF OOMTypes
<1>2. Fresh \in Seq(Nat) /\ Len(Fresh) \in Nat /\ \A i \in 1..Len(Fresh) : Fresh[i] = now
  BY FreshIs
<1>3. PICK all : all = pending \o Fresh
  OBVIOUS
<1>4. /\ all \in Seq(Nat) /\ Len(all) = Len(pending) + Len(Fresh)
      /\ \A i \in 1..Len(all) : all[i] = IF i <= Len(pending) THEN pending[i] ELSE now
  <2>1. all \in Seq(Nat) /\ Len(all) = Len(pending) + Len(Fresh)
    BY <1>1, <1>2, <1>3
  <2>2. \A i \in 1..Len(all) :
          all[i] = IF i <= Len(pending) THEN pending[i] ELSE Fresh[i - Len(pending)]
    BY <1>1, <1>2, <1>3, <2>1
  <2>3. \A i \in 1..Len(all) : ~(i <= Len(pending)) => i - Len(pending) \in 1..Len(Fresh)
    BY <1>1, <1>2, <2>1
  <2> QED BY <1>2, <2>1, <2>2, <2>3
<1>5. PICK m : m = IF Len(credits) < Len(all) THEN Len(credits) ELSE Len(all)
  OBVIOUS
<1>6. /\ m \in 0..Len(credits) /\ m \in 0..Len(all)
      /\ (m = Len(credits) \/ m = Len(all))
  BY <1>1, <1>4, <1>5
<1>7. PICK kept, rest : kept = SubSeq(all, m + 1, Len(all))
                     /\ rest = SubSeq(credits, m + 1, Len(credits))
  OBVIOUS
<1>8. /\ kept \in Seq(Nat) /\ Len(kept) = Len(all) - m
      /\ \A i \in 1..Len(kept) : kept[i] = all[m + i]
  BY <1>4, <1>6, <1>7, TailOf
<1>9. /\ rest \in Seq(Nat) /\ Len(rest) = Len(credits) - m
      /\ \A i \in 1..Len(rest) : rest[i] = credits[m + i]
  BY <1>1, <1>6, <1>7, TailOf
<1>10. PICK q \in 0..Len(kept) :
         /\ Unsettled(kept) \in Seq(Nat) /\ Len(Unsettled(kept)) = Len(kept) - q
         /\ \A i \in 1..Len(kept) - q : Unsettled(kept)[i] = kept[q + i]
         /\ Waited(kept, q)
  BY <1>1, <1>8, UnsettledIs
<1>11. PICK k \in 0..Len(rest) :
         /\ Unsettled(rest) \in Seq(Nat) /\ Len(Unsettled(rest)) = Len(rest) - k
         /\ \A i \in 1..Len(rest) - k : Unsettled(rest)[i] = rest[k + i]
         /\ Waited(rest, k)
  BY <1>1, <1>9, UnsettledIs
<1>12. q \in Nat /\ k \in Nat /\ m \in Nat /\ Len(all) \in Nat
       /\ q <= Len(all) - m /\ k <= Len(credits) - m
  BY <1>1, <1>2, <1>4, <1>6, <1>8, <1>9
<1>13. /\ \A i \in 1..Len(all) - m - q : i \in 1..Len(kept) - q /\ q + i \in 1..Len(kept)
                                      /\ m + (q + i) = m + q + i
       /\ \A i \in 1..Len(credits) - m - k : i \in 1..Len(rest) - k /\ k + i \in 1..Len(rest)
                                      /\ m + (k + i) = m + k + i
       /\ \A i \in 1..q : i \in 1..Len(kept)
       /\ \A i \in 1..k : i \in 1..Len(rest)
  BY <1>1, <1>8, <1>9, <1>12
<1>14. PICK total : total = confirmed + Len(kept) - Len(Unsettled(kept))
  OBVIOUS
<1>15. total = confirmed + q /\ total \in Nat
  <2>1. Len(kept) \in Nat /\ Len(Unsettled(kept)) = Len(kept) - q /\ q \in Nat
    BY <1>8, <1>10, <1>12
  <2>2. PICK n, u : n = Len(kept) /\ u = Len(Unsettled(kept))
    OBVIOUS
  <2> QED BY <1>1, <1>14, <2>1, <2>2
<1>16. /\ credits' = Unsettled(rest) /\ pending' = Unsettled(kept)
       /\ matched' = matched + m
       /\ \/ confirmed' = 0 /\ reported' = reported + total /\ lastAlert' = now
          \/ confirmed' = total /\ reported' = reported /\ lastAlert' = lastAlert
  BY <1>3, <1>5, <1>7, <1>14, Zenon DEF CheckMatch, NotSettled
<1>17. confirmed' \in Nat /\ reported' \in Nat /\ lastAlert' \in Nat
       /\ confirmed' + reported' = confirmed + reported + q
  BY <1>1, <1>15, <1>16, SMTT(30)
<1>18. /\ k \in 0..(Len(credits) - m) /\ q \in 0..(Len(all) - m)
       /\ Len(credits') = Len(credits) - m - k /\ Len(pending') = Len(all) - m - q
       /\ credits' \in Seq(Nat) /\ pending' \in Seq(Nat)
  BY <1>8, <1>9, <1>10, <1>11, <1>12, <1>16
<1>19. \A i \in 1..Len(credits') : credits'[i] = credits[m + k + i]
  <2> SUFFICES ASSUME NEW i \in 1..Len(credits') PROVE credits'[i] = credits[m + k + i]
    OBVIOUS
  <2>1. i \in 1..Len(rest) - k /\ k + i \in 1..Len(rest) /\ m + (k + i) = m + k + i
    BY <1>13, <1>18
  <2> QED BY <1>9, <1>11, <1>16, <2>1
<1>20. \A i \in 1..Len(pending') : pending'[i] = all[m + q + i]
  <2> SUFFICES ASSUME NEW i \in 1..Len(pending') PROVE pending'[i] = all[m + q + i]
    OBVIOUS
  <2>1. i \in 1..Len(kept) - q /\ q + i \in 1..Len(kept) /\ m + (q + i) = m + q + i
    BY <1>13, <1>18
  <2> QED BY <1>8, <1>10, <1>16, <2>1
<1>21. (\A i \in 1..k : now - credits[m + i] >= Settle) /\ \A i \in 1..q : now - all[m + i] >= Settle
  BY <1>8, <1>9, <1>10, <1>11, <1>13 DEF Waited
<1>22. m <= Len(all)
  BY <1>12
<1>23. KillMatches(all, m, k, q)
  BY <1>4, <1>6, <1>16, <1>17, <1>18, <1>19, <1>20, <1>21, <1>22, Zenon DEF KillMatches
<1> QED BY <1>23

-----------------------------------------------------------------------------
(* A Check keeps the books.  c and r are how many of the kills up to prev  *)
(* and read were a container's.                                            *)
LEMMA AddNat == ASSUME NEW x \in Nat, NEW y \in Nat PROVE x + y \in Nat
OBVIOUS

LEMMA DropCredits ==
    ASSUME NEW u \in Nat, NEW B \in Nat, NEW M \in Nat, NEW X \in Nat, NEW d \in Nat,
           NEW C \in Nat, NEW r \in Nat, NEW l \in Nat, NEW g \in Nat,
           u - B = M + X, d - C <= r, X <= (u - r) + (l + g)
    PROVE  d - M - C - g <= B + l
OBVIOUS

LEMMA CheckCounts ==
    ASSUME OOMTypes, InTime, CheckMatch, NEW all, NEW m, NEW k, NEW q,
           KillMatches(all, m, k, q),
           NEW c \in 0..Len(log), NEW r \in 0..Len(log), NEW d \in 0..Len(log),
           Memo(c), Delayed(d), SeenBy(c, r, d)
    PROVE  Memo(r)' /\ Delayed(d)'
<1>1. /\ now \in Nat /\ read \in Nat /\ prev \in Nat \cup {-1} /\ matched \in Nat /\ base \in Nat
      /\ lost \in Nat /\ late \in Nat /\ confirmed \in Nat /\ reported \in Nat
      /\ handled \in Nat /\ hostKills \in Nat /\ lastCheck \in Nat /\ upSince \in Nat
      /\ Len(log) \in Nat /\ Len(pending) \in Nat /\ Len(credits) \in Nat
      /\ c \in Nat /\ r \in Nat /\ d \in Nat
  BY DEF OOMTypes
<1>2. /\ \A i \in 1..Len(log) : log[i] \in Nat
      /\ \A i \in 1..Len(credits) : credits[i] \in Nat
      /\ \A i \in 1..Len(all) : all[i] \in Nat
  <2>1. log \in Seq(Nat) /\ credits \in Seq(Nat)
    BY DEF OOMTypes
  <2>2. all \in Seq(Nat)
    BY DEF KillMatches
  <2> QED BY <2>1, <2>2
<1>3. /\ Settle \in Nat /\ MaxDelay \in Nat /\ MaxDelay < Settle
      /\ PollEvery \in Nat \ {0} /\ 2 * PollEvery <= Settle
  BY OOMAssumption
<1>4. /\ UNCHANGED <<log, hostKills, handled, late, lost, upSince, lastCheck, now>>
      /\ prev' = read /\ stage = "match" /\ base' = IF prev = -1 THEN read ELSE base
  BY DEF CheckMatch, kernel, timers
<1>5. Len(Fresh) \in Nat /\ Len(Fresh) = IF prev # -1 /\ read > prev THEN read - prev ELSE 0
  BY <1>1, FreshIs
<1>6. /\ Len(all) \in Nat /\ m \in Nat /\ k \in Nat /\ q \in Nat
      /\ m + q <= Len(all) /\ m + k <= Len(credits)
      /\ Len(all) = Len(pending) + Len(Fresh)
      /\ Len(credits') = Len(credits) - m - k /\ Len(pending') = Len(all) - m - q
      /\ Len(credits') \in Nat /\ Len(pending') \in Nat
      /\ confirmed' + reported' = confirmed + reported + q /\ matched' = matched + m
      /\ confirmed' \in Nat /\ reported' \in Nat /\ matched' \in Nat /\ base' \in Nat
  <2>1. /\ Len(all) = Len(pending) + Len(Fresh)
        /\ m \in 0..Len(credits) /\ m <= Len(all)
        /\ k \in 0..(Len(credits) - m) /\ q \in 0..(Len(all) - m)
        /\ Len(credits') = Len(credits) - m - k /\ Len(pending') = Len(all) - m - q
        /\ confirmed' \in Nat /\ reported' \in Nat
        /\ confirmed' + reported' = confirmed + reported + q /\ matched' = matched + m
    BY DEF KillMatches
  <2>2. Len(all) \in Nat
    BY <1>1, <1>5, <2>1
  <2>3. m \in Nat /\ k \in Nat /\ q \in Nat
    BY <1>1, <2>1, <2>2
  <2>4. m + q <= Len(all) /\ m + k <= Len(credits)
    BY <1>1, <2>1, <2>2, <2>3
  <2>5. base' \in Nat /\ matched' \in Nat
    BY <1>1, <1>4, <2>1, <2>3
  <2>6. Len(credits') \in Nat /\ Len(pending') \in Nat
    BY <1>1, <2>1, <2>2, <2>3, <2>4
  <2> QED BY <2>1, <2>2, <2>3, <2>4, <2>5, <2>6
<1>7. /\ read - r \in Nat /\ read - r <= hostKills
      /\ prev # -1 => c <= r /\ prev - c <= read - r
      /\ d > handled => d <= r
  BY <1>1, <1>4 DEF SeenBy
<1>8. \A i \in r + 1..Len(log) : log[i] >= lastCheck
  BY <1>4 DEF SeenBy
<1>9. prev = -1 => /\ Len(pending) = 0 /\ confirmed = 0 /\ reported = 0 /\ matched = 0 /\ base = 0
                   /\ Len(all) = 0 /\ m = 0 /\ q = 0
  <2> SUFFICES ASSUME prev = -1
               PROVE  /\ Len(pending) = 0 /\ confirmed = 0 /\ reported = 0 /\ matched = 0 /\ base = 0
                      /\ Len(all) = 0 /\ m = 0 /\ q = 0
    OBVIOUS
  <2>1. pending = <<>> /\ confirmed + reported = 0 /\ matched = 0 /\ base = 0
    BY DEF Memo, Counted
  <2> QED BY <1>1, <1>5, <1>6, <2>1
<1>10. prev # -1 => /\ prev - c \in 0..hostKills
                   /\ prev - base = matched + Len(pending) + (confirmed + reported)
                   /\ confirmed + reported <= (prev - c) + (late + lost)
                   /\ Len(Fresh) = read - prev /\ read - prev >= r - c
  <2> SUFFICES ASSUME prev # -1
               PROVE  /\ prev - c \in 0..hostKills
                      /\ prev - base = matched + Len(pending) + (confirmed + reported)
                      /\ confirmed + reported <= (prev - c) + (late + lost)
                      /\ Len(Fresh) = read - prev /\ read - prev >= r - c
    OBVIOUS
  <2>1. /\ prev - c \in 0..hostKills
        /\ prev - base = matched + Len(pending) + (confirmed + reported)
        /\ confirmed + reported <= (prev - c) + (late + lost)
    BY DEF Memo, Counted
  <2>2. read - prev >= r - c /\ r >= c
    BY <1>1, <1>7
  <2>3. Len(Fresh) = read - prev
    BY <1>1, <1>5, <2>2
  <2> QED BY <2>1, <2>2, <2>3
(* A kill younger than an entry of `all' has an entry of its own after it. *)
<1>11. \A i \in 1..r, j \in 1..Len(all) : all[j] < log[i] => r - i + 1 <= Len(all) - j
  <2> SUFFICES ASSUME NEW i \in 1..r, NEW j \in 1..Len(all), all[j] < log[i]
               PROVE  r - i + 1 <= Len(all) - j
    OBVIOUS
  <2>1. prev # -1
    BY <1>9
  <2>2. log[i] <= now /\ i \in 1..Len(log) /\ log[i] \in Nat /\ i \in Nat /\ j \in Nat
    BY <1>2 DEF InTime
  <2>3. j <= Len(pending) /\ all[j] = pending[j]
    <3>1. all[j] = IF j <= Len(pending) THEN pending[j] ELSE now
      BY DEF KillMatches
    <3>2. ~(now < log[i])
      BY <1>1, <2>2
    <3> QED BY <2>2, <3>1, <3>2
  <2>9. /\ Len(all) = Len(pending) + (read - prev) /\ read - prev >= r - c
        /\ prev \in Nat
    BY <1>1, <1>6, <1>10, <2>1
  <2>4. CASE i <= c
    <3>1. \A x \in 1..c, y \in 1..Len(pending) : pending[y] < log[x] => c - x + 1 <= Len(pending) - y
      BY <2>1 DEF Memo, Counted
    <3>2. i \in 1..c /\ j \in 1..Len(pending)
      BY <1>1, <2>3, <2>4
    <3>3. c - i + 1 <= Len(pending) - j
      BY <2>3, <3>1, <3>2
    <3> QED BY <1>1, <2>2, <2>9, <3>3
  <2>5. CASE i > c
    BY <1>1, <2>2, <2>3, <2>5, <2>9
  <2> QED BY <2>4, <2>5
<1>12. PICK P, X, A, Pn \in Nat :
         P = Len(pending') /\ X = confirmed' + reported' /\ A = Len(all) /\ Pn = Len(pending)
  <2>1. Len(pending') \in Nat /\ Len(all) \in Nat /\ Len(pending) \in Nat
    BY <1>1, <1>6
  <2>2. confirmed' + reported' \in Nat
    <3>1. confirmed' \in Nat /\ reported' \in Nat
      BY <1>6
    <3> QED BY <3>1, AddNat
  <2> QED BY <2>1, <2>2, Zenon
<1>13. /\ P = A - m - q /\ X = confirmed + reported + q
       /\ matched' = matched + m /\ m \in Nat /\ q \in Nat /\ A = Pn + Len(Fresh)
  BY <1>6, <1>12
<1>14. read - base' = matched' + P + X
  <2>1. CASE prev = -1
    <3>1. base' = read /\ matched = 0 /\ m = 0 /\ q = 0 /\ confirmed = 0 /\ reported = 0 /\ A = 0
      BY <1>4, <1>9, <1>12, <2>1
    <3>2. P = 0 /\ X = 0 /\ matched' = 0
      BY <1>13, <3>1
    <3> QED BY <1>1, <3>1, <3>2
  <2>2. CASE prev # -1
    <3>1. base' = base /\ prev \in Nat /\ A = Pn + (read - prev)
          /\ prev - base = matched + Pn + (confirmed + reported)
      BY <1>1, <1>4, <1>10, <1>12, <1>13, <2>2
    <3> QED BY <1>1, <1>13, <3>1
  <2> QED BY <2>1, <2>2
<1>15. d - matched - Len(credits) - lost <= base + late /\ d >= handled
  BY <1>1 DEF Delayed
(* What is confirmed is the host's, or delayed, or has lost its event.     *)
<1>16. X <= (read - r) + (late + lost)
  <2>1. CASE prev = -1
    <3>1. q = 0 /\ confirmed = 0 /\ reported = 0 /\ read - r >= 0
      BY <1>1, <1>7, <1>9, <2>1
    <3>2. X = 0
      BY <1>13, <3>1
    <3> QED BY <1>1, <3>1, <3>2
  <2>2. CASE prev # -1 /\ q = 0
    <3>1. prev \in Nat /\ prev - c <= read - r /\ confirmed + reported <= (prev - c) + (late + lost)
      BY <1>1, <1>7, <1>10, <2>2
    <3>2. X = confirmed + reported
      BY <1>1, <1>13, <2>2
    <3> QED BY <1>1, <3>1, <3>2
  <2>3. CASE prev # -1 /\ q > 0
    <3>1. m = Len(credits)
      BY <1>6, <2>3 DEF KillMatches
    <3>2. r <= d + P
      <4>1. CASE r <= d
        BY <1>1, <1>12, <4>1
      <4>2. CASE r > d
        <5>1. d + 1 \in 1..r /\ d + 1 \in d + 1..Len(log) /\ d + 1 \in handled + 1..Len(log)
          BY <1>1, <1>15, <4>2
        <5>2. log[d + 1] >= upSince /\ now <= Latest(d + 1) + MaxDelay /\ log[d + 1] \in Nat
          BY <1>2, <5>1 DEF Delayed, InTime
        <5>3. now <= log[d + 1] + MaxDelay
          BY <1>1, <5>2 DEF Latest
        <5>4. m + q \in 1..Len(all) /\ now - all[m + q] >= Settle
          <6>1. \A i \in 1..q : now - all[m + i] >= Settle
            BY DEF KillMatches
          <6>2. q \in 1..q
            BY <1>6, <2>3
          <6>3. m + q \in 1..Len(all)
            BY <1>6, <2>3
          <6> QED BY <6>1, <6>2, <6>3
        <5>5. all[m + q] < log[d + 1]
          BY <1>2, <1>1, <1>3, <5>2, <5>3, <5>4, SMTT(30)
        <5>6. r - (d + 1) + 1 <= Len(all) - (m + q)
          BY <1>11, <5>1, <5>4, <5>5
        <5> QED BY <1>1, <1>12, <1>13, <5>6
      <4> QED BY <4>1, <4>2
    <3>3. base' = base
      BY <1>4, <2>3
    <3>5. read - base = matched + Len(credits) + P + X
      BY <1>13, <1>14, <3>1, <3>3
    <3>6. d <= base + late + matched + Len(credits) + lost
      BY <1>1, <1>15
    <3> QED BY <1>1, <1>12, <3>2, <3>5, <3>6
  <2> QED BY <1>1, <1>13, <2>1, <2>2, <2>3
<1>17. Memo(r)'
  <2>1. \A i \in 1..r, j \in 1..Len(pending') : pending'[j] < log[i] => r - i + 1 <= Len(pending') - j
    <3> SUFFICES ASSUME NEW i \in 1..r, NEW j \in 1..Len(pending'), pending'[j] < log[i]
                 PROVE  r - i + 1 <= Len(pending') - j
      OBVIOUS
    <3>1. pending'[j] = all[m + q + j] /\ m + q + j \in 1..Len(all)
      BY <1>6 DEF KillMatches
    <3>2. r - i + 1 <= Len(all) - (m + q + j)
      BY <1>11, <3>1
    <3> QED BY <1>6, <3>2
  <2>2. prev' # -1
    BY <1>1, <1>4
  <2>3. prev' - r \in 0..hostKills' /\ UNCHANGED <<log, late, lost>>
    BY <1>4, <1>7
  <2>4. read - base' = matched' + Len(pending') + (confirmed' + reported')
        /\ confirmed' + reported' <= (read - r) + (late + lost)
    BY <1>12, <1>16, <1>14
  <2> QED BY <1>4, <2>1, <2>2, <2>3, <2>4 DEF Memo, Counted
(* A credit that is dropped belongs to a kill that was counted already.    *)
<1>18. d - matched' - Len(credits') - lost <= base' + late
  <2>1. CASE k = 0
    BY <1>1, <1>4, <1>6, <1>9, <1>15, <2>1
  <2>2. CASE k > 0
    <3>1. m = Len(all) /\ Len(pending') = 0
      <4>1. m = Len(credits) \/ m = Len(all)
        BY DEF KillMatches
      <4>2. m # Len(credits)
        BY <1>1, <1>6, <2>2, SMTT(30)
      <4>3. q = 0
        BY <1>12, <1>13, <4>1, <4>2
      <4> QED BY <1>12, <1>13, <4>1, <4>2, <4>3
    <3>2. PICK e : e = handled - Len(credits) + (m + k)
      OBVIOUS
    <3>3. e \in 1..Len(log) /\ m + k \in 1..Len(credits)
      <4>1. Len(credits) <= handled /\ handled <= Len(log)
        BY DEF InTime, OOMTypes
      <4>2. m + k \in Nat /\ m + k >= 1 /\ m + k <= Len(credits)
        BY <1>1, <1>6, <2>2
      <4> QED BY <1>1, <3>2, <4>1, <4>2
    <3>4. log[e] <= credits[m + k] /\ now - credits[m + k] >= Settle
          /\ log[e] \in Nat /\ credits[m + k] \in Nat
      <4>1. now - credits[m + k] >= Settle
        <5>1. \A i \in 1..k : now - credits[m + i] >= Settle
          BY DEF KillMatches
        <5>2. k \in 1..k
          BY <1>6, <2>2
        <5> QED BY <5>1, <5>2
      <4>2. \A i \in 1..Len(credits) : log[handled - Len(credits) + i] <= credits[i]
        BY DEF InTime
      <4> QED BY <1>2, <3>2, <3>3, <4>1, <4>2
    <3>5. log[e] < lastCheck
      <4>1. now <= lastCheck + PollEvery
        BY DEF InTime
      <4> QED BY <1>1, <1>3, <3>4, <4>1
    <3>6. e <= r
      <4> SUFFICES ASSUME e > r PROVE FALSE
        BY <3>3
      <4>1. e \in r + 1..Len(log)
        BY <3>3
      <4>2. log[e] >= lastCheck
        BY <1>8, <4>1
      <4> QED BY <1>1, <3>4, <3>5, <4>2
    <3>7. d - Len(credits') <= r
      <4>1. CASE d = handled
        BY <1>1, <1>6, <3>2, <3>6, <4>1
      <4>2. CASE d > handled
        BY <1>1, <1>6, <1>7, <4>2
      <4> QED BY <1>1, <1>15, <4>1, <4>2
    <3>8. P = 0 /\ base' \in Nat /\ matched' \in Nat /\ Len(credits') \in Nat
      BY <1>6, <1>12, <3>1
    <3>9. PICK B, M, C \in Nat : B = base' /\ M = matched' /\ C = Len(credits')
      BY <3>8, Zenon
    <3>10. read - B = M + X /\ d - C <= r /\ X <= (read - r) + (late + lost)
      BY <1>16, <1>14, <3>7, <3>8, <3>9
    <3>11. d - M - C - lost <= B + late
      <4>1. read \in Nat /\ X \in Nat /\ d \in Nat /\ r \in Nat /\ late \in Nat /\ lost \in Nat
        BY <1>1, <1>12
      <4> QED BY <3>10, <4>1, DropCredits, Zenon
    <3> QED BY <3>9, <3>11
  <2> QED BY <1>6, <2>1, <2>2
<1>19. Delayed(d)'
  BY <1>4, <1>18 DEF Delayed
<1> QED BY <1>17, <1>19

-----------------------------------------------------------------------------
(* The steps.                                                              *)
LEMMA HostKillInv ==
    ASSUME OOMInv, HostKill PROVE OOMInv'
<1>1. /\ UNCHANGED <<now, log, handled, timers, stage, read, detector, saved, past>>
      /\ counter' = counter + 1 /\ hostKills' = hostKills + 1
      /\ hostKills \in Nat /\ counter \in Nat /\ prev \in Nat \cup {-1} /\ Len(log) \in Nat
      /\ saved.prev \in Nat \cup {-1}
  BY DEF OOMInv, HostKill, OOMTypes, Memory
<1>2. OOMTypes'
  BY <1>1 DEF OOMInv, OOMTypes, timers, detector, past
<1>3. InTime'
  BY <1>1 DEF OOMInv, InTime, timers, detector, past, Latest
<1>4. PICK c, r, d \in 0..Len(log) : Memo(c) /\ Delayed(d) /\ SeenBy(c, r, d)
  BY DEF OOMInv
<1>5. PICK s \in 0..Len(log) : OnDisk(saved, s)
  BY DEF OOMInv
<1>6. Memo(c)'
  BY <1>1, <1>4, CountedLater DEF Memo, detector, past
<1>7. Delayed(d)'
  BY <1>1, <1>4 DEF Delayed, timers, detector, past
<1>8. SeenBy(c, r, d)'
  BY <1>1, <1>4 DEF SeenBy, timers, detector, past
<1>9. OnDisk(saved, s)'
  BY <1>1, <1>5, CountedLater, SMTT(30) DEF OnDisk
<1> QED BY <1>1, <1>2, <1>3, <1>6, <1>7, <1>8, <1>9 DEF OOMInv

LEMMA ContainerKillInv ==
    ASSUME OOMInv, ContainerKill PROVE OOMInv'
<1>1. /\ UNCHANGED <<now, hostKills, handled, timers, stage, read, detector, saved, past>>
      /\ counter' = counter + 1 /\ log' = Append(log, now)
      /\ hostKills \in Nat /\ counter \in Nat /\ prev \in Nat \cup {-1}
      /\ saved.prev \in Nat \cup {-1} /\ now \in Nat /\ log \in Seq(Nat)
  BY DEF OOMInv, ContainerKill, OOMTypes, Memory
<1>2. /\ Len(log) \in Nat /\ log' \in Seq(Nat) /\ Len(log') = Len(log) + 1
      /\ log'[Len(log) + 1] = now /\ \A i \in 1..Len(log) : log'[i] = log[i]
  BY <1>1
<1>3. OOMTypes'
  BY <1>1, <1>2 DEF OOMInv, OOMTypes, timers, detector, past
<1>4. InTime'
  <2>1. InTime /\ OOMTypes
    BY DEF OOMInv
  <2>2. counter' = hostKills' + Len(log')
    BY <1>1, <1>2, <2>1 DEF InTime
  <2>3. \A i \in 1..Len(log') : log'[i] <= now'
    BY <1>1, <1>2, <2>1 DEF InTime
  <2>4. ASSUME NEW i \in handled + 1..Len(log') PROVE now <= Latest(i)' + MaxDelay
    <3>1. CASE i = Len(log) + 1
      <4>1. now <= Latest(i)' /\ Latest(i)' \in Nat
        BY <1>1, <1>2, <2>1, <3>1 DEF Latest, timers, InTime, OOMTypes
      <4> QED BY <1>1, <4>1, OOMAssumption
    <3>2. CASE i # Len(log) + 1
      <4>1. i \in handled + 1..Len(log) /\ i \in 1..Len(log)
        BY <1>2, <2>1, <3>2 DEF OOMTypes
      <4>2. Latest(i)' = Latest(i)
        BY <1>1, <1>2, <4>1 DEF Latest, timers
      <4> QED BY <2>1, <4>1, <4>2 DEF InTime
    <3> QED BY <3>1, <3>2
  <2>5. ASSUME NEW i \in 1..Len(credits) PROVE log'[handled - Len(credits) + i] <= credits[i]
    <3>1. handled - Len(credits) + i \in 1..Len(log)
      BY <2>1, SMTT(30) DEF InTime, OOMTypes
    <3> QED BY <1>2, <2>1, <3>1 DEF InTime
  <2> QED BY <1>1, <2>1, <2>2, <2>3, <2>4, <2>5 DEF InTime, timers, detector
<1>5. PICK c, r, d \in 0..Len(log) : Memo(c) /\ Delayed(d) /\ SeenBy(c, r, d)
  BY DEF OOMInv
<1>6. PICK s \in 0..Len(log) : OnDisk(saved, s)
  BY DEF OOMInv
<1>7. UNCHANGED <<prev, pending, confirmed, reported, matched, base, late, lost>>
  BY <1>1 DEF detector, past
<1>13. /\ c \in Nat /\ r \in Nat /\ d \in Nat /\ s \in Nat /\ hostKills <= hostKills
       /\ \A i \in 1..c : log'[i] = log[i]
       /\ \A i \in 1..s : log'[i] = log[i]
  BY <1>1, <1>2
<1>8. Memo(c)'
  <2>1. Counted(hostKills, log', prev, pending, confirmed + reported, matched, base, late + lost, c)
    BY <1>1, <1>5, <1>13, CountedLater DEF Memo
  <2> QED BY <1>1, <1>7, <2>1 DEF Memo
<1>9. Delayed(d)'
  <2>1. lastCheck \in Nat /\ upSince \in Nat /\ upSince <= now
    BY <1>1 DEF OOMInv, OOMTypes, InTime
  <2>2. ASSUME NEW i \in d + 1..Len(log') PROVE log'[i] >= upSince
    <3>1. CASE i = Len(log) + 1
      BY <1>1, <1>2, <2>1, <3>1
    <3>2. CASE i # Len(log) + 1
      <4>1. i \in d + 1..Len(log)
        BY <1>2, <1>13, <3>2
      <4>2. i \in 1..Len(log)
        BY <1>2, <1>13, <4>1
      <4>3. log[i] >= upSince
        BY <1>5, <4>1 DEF Delayed
      <4> QED BY <1>2, <4>2, <4>3
    <3> QED BY <3>1, <3>2
  <2>3. d \in handled..Len(log')
    BY <1>2, <1>5 DEF Delayed
  <2> QED BY <1>1, <1>5, <1>7, <2>2, <2>3 DEF Delayed, timers, detector
<1>10. SeenBy(c, r, d)'
  <2>1. lastCheck \in Nat /\ lastCheck <= now
    BY <1>1 DEF OOMInv, OOMTypes, InTime
  <2>2. ASSUME stage = "match", NEW i \in r + 1..Len(log') PROVE log'[i] >= lastCheck
    <3>1. CASE i = Len(log) + 1
      BY <1>1, <1>2, <2>1, <3>1
    <3>2. CASE i # Len(log) + 1
      <4>1. i \in r + 1..Len(log)
        BY <1>2, <1>13, <3>2
      <4>2. i \in 1..Len(log)
        BY <1>2, <1>13, <4>1
      <4>3. log[i] >= lastCheck
        BY <1>5, <2>2, <4>1 DEF SeenBy
      <4> QED BY <1>2, <4>2, <4>3
    <3> QED BY <3>1, <3>2
  <2> QED BY <1>1, <1>5, <1>7, <2>2 DEF SeenBy, timers
<1>11. OnDisk(saved, s)'
  <2>1. Counted(hostKills, log', saved.prev, saved.pending, saved.confirmed + saved.reported,
                saved.matched, saved.base, saved.late + saved.lost, s)
    <3>1. Counted(hostKills, log, saved.prev, saved.pending, saved.confirmed + saved.reported,
                  saved.matched, saved.base, saved.late + saved.lost, s)
      BY <1>6 DEF OnDisk
    <3>2. hostKills \in Nat /\ saved.prev \in Nat \cup {-1}
      BY <1>1
    <3>3. PICK p, w, x, g :
            /\ p \in Nat \cup {-1} /\ p = saved.prev /\ w = saved.pending
            /\ x = saved.confirmed + saved.reported /\ g = saved.late + saved.lost
      BY <3>2
    <3>4. Counted(hostKills, log, p, w, x, saved.matched, saved.base, g, s)
      BY <3>1, <3>3
    <3>5. Counted(hostKills, log', p, w, x, saved.matched, saved.base, g, s)
      <4>1. p \in Nat \cup {-1}
        BY <3>3
      <4> QED BY <1>13, <3>2, <3>4, <4>1, CountedLater
    <3> QED BY <3>3, <3>5
  <2>2. saved.handled \in Nat
    BY DEF OOMInv, OOMTypes, Memory
  <2> QED BY <1>1, <1>2, <1>6, <2>1, <2>2 DEF OnDisk
<1>12. c \in 0..Len(log') /\ r \in 0..Len(log') /\ d \in 0..Len(log') /\ s \in 0..Len(log')
  BY <1>2
<1> QED BY <1>3, <1>4, <1>8, <1>9, <1>10, <1>11, <1>12 DEF OOMInv

LEMMA TickInv ==
    ASSUME OOMInv, Tick PROVE OOMInv'
<1>1. /\ UNCHANGED <<kernel, handled, timers, stage, read, detector, saved, past>>
      /\ now' = now + 1 /\ now < lastCheck + PollEvery
      /\ \A i \in (handled + 1)..Len(log) : now < Latest(i) + MaxDelay
      /\ now \in Nat /\ lastCheck \in Nat /\ upSince \in Nat /\ PollEvery \in Nat /\ MaxDelay \in Nat
      /\ handled \in Nat /\ Len(log) \in Nat /\ \A i \in 1..Len(log) : log[i] \in Nat
  BY OOMAssumption DEF OOMInv, Tick, OOMTypes
<1>2. UNCHANGED <<counter, hostKills, log, restarts, upSince, lastCheck, prev, credits, pending,
                  confirmed, lastAlert, reported, matched, base, lost, late>>
  BY <1>1 DEF kernel, timers, detector, past
<1>3. OOMTypes'
  BY <1>1, <1>2 DEF OOMInv, OOMTypes
<1>4. InTime'
  <2>1. InTime /\ OOMTypes
    BY DEF OOMInv
  <2>2. \A i \in handled + 1..Len(log) : Latest(i) \in Nat /\ Latest(i)' = Latest(i)
    BY <1>1, <1>2 DEF Latest
  <2>3. \A i \in handled + 1..Len(log) : now' <= Latest(i)' + MaxDelay
    BY <1>1, <2>2
  <2>4. \A i \in 1..Len(log) : log[i] <= now'
    BY <1>1, <2>1 DEF InTime
  <2>5. lastCheck <= now' /\ now' <= lastCheck + PollEvery
    BY <1>1, <2>1 DEF InTime
  <2> QED BY <1>1, <1>2, <2>1, <2>3, <2>4, <2>5 DEF InTime
<1>5. PICK c, r, d \in 0..Len(log) : Memo(c) /\ Delayed(d) /\ SeenBy(c, r, d)
  BY DEF OOMInv
<1>6. PICK s \in 0..Len(log) : OnDisk(saved, s)
  BY DEF OOMInv
<1>7. Memo(c)' /\ Delayed(d)' /\ SeenBy(c, r, d)' /\ OnDisk(saved, s)'
  BY <1>1, <1>2, <1>5, <1>6 DEF Memo, Delayed, SeenBy, OnDisk
<1> QED BY <1>2, <1>3, <1>4, <1>7 DEF OOMInv

LEMMA ContainerOOMInv ==
    ASSUME OOMInv, ContainerOOM PROVE OOMInv'
<1>1. /\ UNCHANGED <<now, kernel, timers, stage, read, prev, pending, confirmed, lastAlert, saved, past>>
      /\ handled' = handled + 1 /\ credits' = Append(credits, now) /\ handled < Len(log)
      /\ handled \in Nat /\ Len(log) \in Nat /\ now \in Nat /\ credits \in Seq(Nat)
      /\ \A i \in 1..Len(log) : log[i] \in Nat
      /\ matched \in Nat /\ lost \in Nat /\ base \in Nat /\ late \in Nat
  BY DEF OOMInv, ContainerOOM, OOMTypes
<1>2. UNCHANGED <<counter, hostKills, log, restarts, upSince, lastCheck, reported, matched, base, lost, late>>
  BY <1>1 DEF kernel, timers, past
<1>3. /\ Len(credits) \in Nat /\ credits' \in Seq(Nat) /\ Len(credits') = Len(credits) + 1
      /\ credits'[Len(credits) + 1] = now /\ \A i \in 1..Len(credits) : credits'[i] = credits[i]
  BY <1>1
<1>4. OOMTypes'
  BY <1>1, <1>2, <1>3 DEF OOMInv, OOMTypes
<1>5. InTime'
  <2>1. InTime
    BY DEF OOMInv
  <2>2. \A i \in handled' + 1..Len(log) : now <= Latest(i) + MaxDelay /\ Latest(i)' = Latest(i)
    BY <1>1, <1>2, <2>1 DEF InTime, Latest
  <2>3. ASSUME NEW i \in 1..Len(credits') PROVE log[handled' - Len(credits') + i] <= credits'[i]
    <3>1. CASE i = Len(credits) + 1
      <4>1. handled' - Len(credits') + i = handled + 1 /\ handled + 1 \in 1..Len(log)
        BY <1>1, <1>3, <3>1
      <4> QED BY <1>3, <2>1, <3>1, <4>1 DEF InTime
    <3>2. CASE i # Len(credits) + 1
      <4>1. i \in 1..Len(credits) /\ handled' - Len(credits') + i = handled - Len(credits) + i
        BY <1>1, <1>3, <3>2
      <4> QED BY <1>3, <2>1, <4>1 DEF InTime
    <3> QED BY <3>1, <3>2
  <2>4. Len(credits') <= handled'
    BY <1>1, <1>3, <2>1 DEF InTime
  <2> QED BY <1>1, <1>2, <2>1, <2>2, <2>3, <2>4 DEF InTime
<1>6. PICK c, r, d \in 0..Len(log) : Memo(c) /\ Delayed(d) /\ SeenBy(c, r, d)
  BY DEF OOMInv
<1>7. PICK s \in 0..Len(log) : OnDisk(saved, s)
  BY DEF OOMInv
<1>8. Memo(c)' /\ OnDisk(saved, s)'
  BY <1>1, <1>2, <1>6, <1>7 DEF Memo, OnDisk
<1>9. PICK e : e = IF d = handled THEN handled + 1 ELSE d
  OBVIOUS
<1>10. d \in Nat /\ d >= handled /\ d - matched - Len(credits) - lost <= base + late
  BY <1>6 DEF Delayed
<1>11. e \in handled'..Len(log) /\ e >= d /\ e <= d + 1 /\ (e > handled' => e = d)
  BY <1>1, <1>9, <1>10
<1>12. Delayed(e)'
  <2>1. \A i \in e + 1..Len(log) : log[i] >= upSince
    BY <1>1, <1>6, <1>10, <1>11 DEF Delayed
  <2>2. e - matched - Len(credits') - lost <= base + late
    BY <1>1, <1>3, <1>10, <1>11
  <2> QED BY <1>2, <1>11, <2>1, <2>2 DEF Delayed
<1>13. SeenBy(c, r, e)'
  <2>1. e > handled' => d > handled /\ e = d
    BY <1>1, <1>10, <1>11
  <2> QED BY <1>1, <1>2, <1>6, <2>1 DEF SeenBy
<1>14. e \in 0..Len(log)
  BY <1>1, <1>11
<1> QED BY <1>2, <1>4, <1>5, <1>8, <1>12, <1>13, <1>14 DEF OOMInv

LEMMA CheckReadInv ==
    ASSUME OOMInv, CheckRead PROVE OOMInv'
<1>1. /\ UNCHANGED <<now, kernel, handled, restarts, upSince, detector, saved, past>>
      /\ stage' = "match" /\ read' = counter /\ lastCheck' = now /\ now \in Nat
      /\ hostKills \in Nat /\ Len(log) \in Nat /\ prev \in Nat \cup {-1} /\ counter \in Nat
      /\ lastCheck \in Nat /\ upSince \in Nat
  BY DEF OOMInv, CheckRead, OOMTypes
<1>2. UNCHANGED <<counter, hostKills, log, prev, credits, pending, confirmed, lastAlert, reported,
                  matched, base, lost, late>>
  BY <1>1 DEF kernel, detector, past
<1>3. OOMTypes'
  BY <1>1, <1>2 DEF OOMInv, OOMTypes
<1>4. InTime'
  <2>1. InTime
    BY DEF OOMInv
  <2>2. upSince <= now /\ now <= now + PollEvery
    BY <1>1, <2>1, OOMAssumption DEF InTime
  <2> QED BY <1>1, <1>2, <2>1, <2>2 DEF InTime, Latest
<1>5. PICK c, r, d \in 0..Len(log) : Memo(c) /\ Delayed(d) /\ SeenBy(c, r, d)
  BY DEF OOMInv
<1>6. PICK s \in 0..Len(log) : OnDisk(saved, s)
  BY DEF OOMInv
<1>7. Memo(c)' /\ OnDisk(saved, s)' /\ Delayed(d)'
  BY <1>1, <1>2, <1>5, <1>6 DEF Memo, OnDisk, Delayed
<1>8. SeenBy(c, Len(log), d)'
  <2>1. read' - Len(log) = hostKills /\ d <= Len(log) /\ c <= Len(log)
    BY <1>1 DEF OOMInv, InTime
  <2>2. prev # -1 => prev - c <= hostKills
    BY <1>5 DEF Memo, Counted
  <2>3. \A i \in Len(log) + 1..Len(log) : FALSE
    BY <1>1
  <2> QED BY <1>1, <1>2, <2>1, <2>2, <2>3 DEF SeenBy
<1>9. Len(log) \in 0..Len(log)
  BY <1>1
<1> QED BY <1>2, <1>3, <1>4, <1>7, <1>8, <1>9 DEF OOMInv

LEMMA CheckMatchInv ==
    ASSUME OOMInv, CheckMatch PROVE OOMInv'
<1>1. /\ UNCHANGED <<now, kernel, handled, timers, read, saved, lost, late>>
      /\ stage = "match" /\ stage' = "idle" /\ prev' = read /\ base' = IF prev = -1 THEN read ELSE base
      /\ handled \in Nat /\ Len(log) \in Nat /\ read \in Nat /\ base \in Nat /\ matched \in Nat
      /\ OOMTypes /\ InTime
  BY DEF OOMInv, CheckMatch, OOMTypes
<1>2. UNCHANGED <<counter, hostKills, log, restarts, upSince, lastCheck>>
  BY <1>1 DEF kernel, timers
<1>3. PICK all, m, k, q : KillMatches(all, m, k, q)
  BY <1>1, MatchIs
<1>4. PICK c, r, d \in 0..Len(log) : Memo(c) /\ Delayed(d) /\ SeenBy(c, r, d)
  BY DEF OOMInv
<1>5. PICK s \in 0..Len(log) : OnDisk(saved, s)
  BY DEF OOMInv
<1>6. Memo(r)' /\ Delayed(d)'
  BY <1>1, <1>3, <1>4, CheckCounts
<1>7. SeenBy(r, r, d)' /\ OnDisk(saved, s)'
  BY <1>1, <1>2, <1>5 DEF SeenBy, OnDisk
<1>8. m \in Nat /\ Len(credits) \in Nat /\ k \in Nat /\ m + k <= Len(credits)
      /\ Len(credits') = Len(credits) - m - k
      /\ \A i \in 1..Len(credits') : credits'[i] = credits[m + k + i]
  <2>1. Len(credits) \in Nat
    BY <1>1 DEF OOMTypes
  <2>2. /\ m \in 0..Len(credits) /\ k \in 0..(Len(credits) - m)
        /\ Len(credits') = Len(credits) - m - k
        /\ \A i \in 1..Len(credits') : credits'[i] = credits[m + k + i]
    BY <1>3 DEF KillMatches
  <2> QED BY <2>1, <2>2
<1>9. OOMTypes'
  <2>1. /\ credits' \in Seq(Nat) /\ pending' \in Seq(Nat) /\ confirmed' \in Nat /\ reported' \in Nat
        /\ lastAlert' \in Nat /\ matched' = matched + m
    BY <1>3 DEF KillMatches
  <2>2. matched' \in Nat /\ base' \in Nat
    <3>1. matched \in Nat /\ m \in Nat /\ matched' = matched + m
      BY <1>1, <1>8, <2>1
    <3>2. base' = read \/ base' = base
      BY <1>1, Zenon
    <3> QED BY <1>1, <3>1, <3>2
  <2> QED BY <1>1, <1>2, <2>1, <2>2 DEF OOMTypes
<1>10. InTime'
  <2>1. ASSUME NEW i \in 1..Len(credits') PROVE log[handled - Len(credits') + i] <= credits'[i]
    <3>1. m + k + i \in 1..Len(credits)
          /\ handled - Len(credits') + i = handled - Len(credits) + (m + k + i)
      <4>1. handled \in Nat /\ Len(credits) \in Nat /\ Len(credits') \in Nat
        <5>1. credits' \in Seq(Nat)
          BY <1>3 DEF KillMatches
        <5> QED BY <1>1, <1>8, <5>1
      <4>2. PICK h, C, D \in Nat : h = handled /\ C = Len(credits) /\ D = Len(credits')
        BY <4>1, Zenon
      <4>3. m \in Nat /\ k \in Nat /\ m + k <= C /\ D = C - m - k /\ i \in 1..D
        BY <1>8, <4>2
      <4>4. m + k + i \in 1..C /\ h - D + i = h - C + (m + k + i)
        BY <4>3
      <4> QED BY <4>2, <4>4
    <3> QED BY <1>1, <1>8, <3>1 DEF InTime
  <2>2. Len(credits') <= handled
    BY <1>1, <1>8 DEF InTime
  <2> QED BY <1>1, <1>2, <2>1, <2>2 DEF InTime, Latest
<1> QED BY <1>2, <1>6, <1>7, <1>9, <1>10 DEF OOMInv

-----------------------------------------------------------------------------
(* What is saved, and what is loaded.                                      *)
LEMMA SnapshotIs ==
    ASSUME OOMInv, NEW c \in 0..Len(log), NEW d \in 0..Len(log), Memo(c), Delayed(d)
    PROVE  /\ Snapshot \in Memory /\ OnDisk(Snapshot, c)
           /\ Snapshot.handled <= Len(log)
<1>1. /\ handled \in 0..Len(log) /\ prev \in Nat \cup {-1} /\ pending \in Seq(Nat)
      /\ confirmed \in Nat /\ lastAlert \in Nat /\ reported \in Nat /\ matched \in Nat
      /\ base \in Nat /\ lost \in Nat /\ late \in Nat /\ credits \in Seq(Nat)
      /\ c \in Nat /\ Len(log) \in Nat
  BY DEF OOMInv, OOMTypes
<1>2. prev = -1 => pending = <<>>
  BY DEF Memo, Counted
<1>3. Snapshot = [handled |-> handled, prev |-> prev, pending |-> pending,
                  confirmed |-> confirmed, lastAlert |-> lastAlert,
                  reported |-> reported, matched |-> matched, base |-> base,
                  lost |-> lost + Len(credits), late |-> late]
  BY <1>2 DEF Snapshot
<1>4. Len(credits) \in Nat /\ lost + Len(credits) \in Nat
  BY <1>1
<1>5. Snapshot \in Memory
  BY <1>1, <1>3, <1>4 DEF Memory
<1>6. Counted(hostKills, log, prev, pending, confirmed + reported, matched, base,
              late + (lost + Len(credits)), c)
  <2>1. confirmed + reported \in Nat /\ late + lost \in Nat /\ late + (lost + Len(credits)) \in Nat
        /\ late + lost <= late + (lost + Len(credits))
    BY <1>1, <1>4
  <2>2. Counted(hostKills, log, prev, pending, confirmed + reported, matched, base, late + lost, c)
    BY DEF Memo
  <2> QED BY <1>1, <2>1, <2>2, CountedMore, Zenon
<1>7. handled - matched - (lost + Len(credits)) <= base + late
  <2>1. d - matched - Len(credits) - lost <= base + late /\ handled <= d /\ d \in Nat
    BY <1>1 DEF Delayed
  <2> QED BY <1>1, <1>4, <2>1
<1>8. handled <= Len(log)
  BY <1>1
<1> QED BY <1>3, <1>5, <1>6, <1>7, <1>8 DEF OnDisk

LEMMA LoadInv ==
    ASSUME OOMInv, NEW f \in Memory, LoadState(f), NEW c \in 0..Len(log), OnDisk(f, c),
           saved' \in Memory, NEW s \in 0..Len(log), OnDisk(saved', s)
    PROVE  OOMInv'
<1>1. /\ UNCHANGED <<now, kernel>> /\ restarts' = restarts + 1
      /\ upSince' = now /\ lastCheck' = now /\ stage' = "idle" /\ read' = 0
      /\ handled' = f.handled /\ credits' = <<>> /\ prev' = f.prev /\ pending' = f.pending
      /\ confirmed' = f.confirmed /\ lastAlert' = f.lastAlert
      /\ reported' = f.reported /\ matched' = f.matched
      /\ base' = f.base /\ lost' = f.lost /\ late' = f.late + Len(log) - f.handled
  BY DEF LoadState
<1>2. UNCHANGED <<counter, hostKills, log>>
  BY <1>1 DEF kernel
<1>3. /\ f.handled \in Nat /\ f.prev \in Nat \cup {-1} /\ f.pending \in Seq(Nat)
      /\ f.confirmed \in Nat /\ f.lastAlert \in Nat /\ f.reported \in Nat /\ f.matched \in Nat
      /\ f.base \in Nat /\ f.lost \in Nat /\ f.late \in Nat
  BY DEF Memory
<1>4. /\ f.handled <= Len(log) /\ f.handled - f.matched - f.lost <= f.base + f.late
      /\ Counted(hostKills, log, f.prev, f.pending, f.confirmed + f.reported, f.matched,
                 f.base, f.late + f.lost, c)
  BY DEF OnDisk
<1>5. now \in Nat /\ Len(log) \in Nat /\ c \in Nat /\ \A i \in 1..Len(log) : log[i] \in Nat /\ log[i] <= now
  <2>1. OOMTypes /\ InTime
    BY DEF OOMInv
  <2>2. now \in Nat /\ log \in Seq(Nat) /\ Len(log) \in Nat
    BY <2>1 DEF OOMTypes
  <2>3. \A i \in 1..Len(log) : log[i] \in Nat /\ log[i] <= now
    BY <2>1, <2>2 DEF InTime
  <2> QED BY <2>2, <2>3
<1>20. PICK n, hd, lt, lo, ma, ba \in Nat :
         /\ n = Len(log) /\ hd = f.handled /\ lt = f.late /\ lo = f.lost
         /\ ma = f.matched /\ ba = f.base
  BY <1>3, <1>5
<1>21. hd <= n /\ hd - ma - lo <= ba + lt /\ late' = lt + n - hd
  BY <1>1, <1>4, <1>20
<1>22. lt + n - hd \in Nat /\ lt <= lt + n - hd
  BY <1>21
<1>6. late' \in Nat /\ lt <= late'
  BY <1>21, <1>22
<1>7. OOMTypes'
  <2>1. /\ now' \in Nat /\ counter' \in Nat /\ hostKills' \in Nat /\ log' \in Seq(Nat)
        /\ restarts' \in Nat
    BY <1>1, <1>2 DEF OOMInv, OOMTypes
  <2>2. handled' \in 0..Len(log')
    BY <1>1, <1>2, <1>3, <1>4, <1>5
  <2>3. credits' \in Seq(Nat) /\ upSince' \in Nat /\ lastCheck' \in Nat /\ read' \in Nat
        /\ stage' \in {"idle", "match"}
    BY <1>1, <1>5
  <2> QED BY <1>1, <1>3, <1>6, <2>1, <2>2, <2>3 DEF OOMTypes
<1>8. InTime'
  <2>1. Len(credits') = 0
    BY <1>1
  <2>2. \A i \in handled' + 1..Len(log') : now' <= Latest(i)' + MaxDelay
    <3> SUFFICES ASSUME NEW i \in handled' + 1..Len(log') PROVE now <= Latest(i)' + MaxDelay
      BY <1>1
    <3>1. i \in 1..Len(log)
      BY <1>1, <1>2, <1>3, <1>5, SMTT(30)
    <3>2. Latest(i)' = IF log[i] < now THEN now ELSE log[i]
      BY <1>1, <1>2 DEF Latest
    <3> QED BY <1>5, <3>1, <3>2, OOMAssumption
  <2>3. counter' = hostKills' + Len(log')
    BY <1>2 DEF OOMInv, InTime
  <2>4. now <= now + PollEvery
    BY <1>5, OOMAssumption
  <2> QED BY <1>1, <1>2, <1>3, <1>5, <2>1, <2>2, <2>3, <2>4, SMTT(30) DEF InTime
<1>9. Memo(c)'
  <2>1. f.confirmed + f.reported \in Nat /\ f.late + f.lost \in Nat /\ late' + f.lost \in Nat
        /\ f.late + f.lost <= late' + f.lost
    <3>1. lt + lo \in Nat /\ (lt + n - hd) + lo \in Nat /\ lt + lo <= (lt + n - hd) + lo
      BY <1>22
    <3>2. f.confirmed + f.reported \in Nat
      BY <1>3
    <3> QED BY <1>20, <1>21, <3>1, <3>2
  <2>2. Counted(hostKills, log, f.prev, f.pending, f.confirmed + f.reported, f.matched,
                f.base, late' + f.lost, c)
    BY <1>3, <1>4, <1>5, <2>1, CountedMore, Zenon
  <2> QED BY <1>1, <1>2, <2>2 DEF Memo
<1>10. Delayed(Len(log))'
  <2>1. Len(log) \in f.handled..Len(log) /\ \A i \in Len(log) + 1..Len(log) : FALSE
    BY <1>3, <1>4, <1>5
  <2>2. Len(log) - f.matched - 0 - f.lost <= f.base + late'
    <3>1. n - ma - 0 - lo <= ba + (lt + n - hd)
      BY <1>21
    <3> QED BY <1>20, <1>21, <3>1
  <2>3. Len(credits') = 0
    BY <1>1
  <2> QED BY <1>1, <1>2, <2>1, <2>2, <2>3 DEF Delayed
<1>11. SeenBy(c, c, Len(log))'
  BY <1>1 DEF SeenBy
<1>12. OnDisk(saved, s)'
  BY <1>2 DEF OnDisk
<1>13. Len(log) \in 0..Len(log)
  BY <1>5
<1> QED BY <1>2, <1>7, <1>8, <1>9, <1>10, <1>11, <1>12, <1>13 DEF OOMInv

LEMMA SaveInv ==
    ASSUME OOMInv, Save PROVE OOMInv'
<1>1. /\ UNCHANGED <<now, kernel, handled, timers, stage, read, detector, past>> /\ saved' = Snapshot
  BY DEF Save
<1>2. /\ UNCHANGED <<counter, hostKills, log, restarts, upSince, lastCheck, prev, credits, pending,
                     confirmed, lastAlert, reported, matched, base, lost, late>>
  BY <1>1 DEF kernel, timers, detector, past
<1>3. PICK c, r, d \in 0..Len(log) : Memo(c) /\ Delayed(d) /\ SeenBy(c, r, d)
  BY DEF OOMInv
<1>4. Snapshot \in Memory /\ OnDisk(Snapshot, c)
  BY <1>3, SnapshotIs
<1>5. OOMTypes' /\ InTime'
  BY <1>1, <1>2, <1>4 DEF OOMInv, OOMTypes, InTime, Latest
<1>6. Memo(c)' /\ Delayed(d)' /\ SeenBy(c, r, d)'
  BY <1>1, <1>2, <1>3 DEF Memo, Delayed, SeenBy
<1>7. OnDisk(saved, c)'
  BY <1>1, <1>2, <1>4 DEF OnDisk
<1> QED BY <1>2, <1>5, <1>6, <1>7 DEF OOMInv

LEMMA RestartInv ==
    ASSUME OOMInv, OOMRestart \/ Crash PROVE OOMInv'
<1>1. PICK c, r, d \in 0..Len(log) : Memo(c) /\ Delayed(d) /\ SeenBy(c, r, d)
  BY DEF OOMInv
<1>2. Snapshot \in Memory /\ OnDisk(Snapshot, c)
  BY <1>1, SnapshotIs
<1>3. CASE OOMRestart
  <2>1. PICK f \in Memory : f = Snapshot
    BY <1>2
  <2>2. LoadState(f) /\ saved' = f /\ OnDisk(f, c)
    BY <1>2, <1>3, <2>1 DEF OOMRestart
  <2>3. saved' \in Memory /\ OnDisk(saved', c)
    BY <2>2
  <2> QED BY <2>2, <2>3, LoadInv
<1>4. CASE Crash
  <2>1. PICK s \in 0..Len(log) : OnDisk(saved, s)
    BY DEF OOMInv
  <2>2. PICK f \in Memory : f = saved
    BY DEF OOMInv, OOMTypes
  <2>3. LoadState(f) /\ saved' = f /\ OnDisk(f, s)
    BY <1>4, <2>1, <2>2 DEF Crash
  <2>4. saved' \in Memory /\ OnDisk(saved', s)
    BY <2>3
  <2> QED BY <2>3, <2>4, LoadInv
<1> QED BY <1>3, <1>4

LEMMA InitInv == ASSUME OOMInit PROVE OOMInv
<1>1. /\ now = 1 /\ counter = 0 /\ hostKills = 0 /\ log = <<>> /\ handled = 0
      /\ restarts = 0 /\ upSince = 1 /\ lastCheck = 1 /\ stage = "idle" /\ read = 0
      /\ prev = -1 /\ credits = <<>> /\ pending = <<>> /\ confirmed = 0 /\ lastAlert = 0
      /\ reported = 0 /\ matched = 0 /\ base = 0 /\ lost = 0 /\ late = 0
      /\ Len(log) = 0 /\ Len(credits) = 0
  BY DEF OOMInit
<1>2. saved = [handled |-> 0, prev |-> -1, pending |-> <<>>, confirmed |-> 0, lastAlert |-> 0,
               reported |-> 0, matched |-> 0, base |-> 0, lost |-> 0, late |-> 0]
  BY <1>1 DEF OOMInit, Snapshot
<1>3. OOMTypes
  <2>1. saved \in Memory
    BY <1>2 DEF Memory
  <2> QED BY <1>1, <2>1 DEF OOMTypes
<1>4. InTime
  BY <1>1, OOMAssumption DEF InTime
<1>5. Memo(0) /\ Delayed(0) /\ SeenBy(0, 0, 0)
  BY <1>1 DEF Memo, Counted, Delayed, SeenBy
<1>6. OnDisk(saved, 0)
  BY <1>1, <1>2 DEF OnDisk, Counted
<1> QED BY <1>1, <1>3, <1>4, <1>5, <1>6 DEF OOMInv

LEMMA NextInv ==
    ASSUME OOMInv, [OOMNext]_oomVars PROVE OOMInv'
<1>1. CASE UNCHANGED oomVars
  <2>1. UNCHANGED <<now, counter, hostKills, log, handled, restarts, upSince, lastCheck, stage, read,
                    prev, credits, pending, confirmed, lastAlert, saved, reported, matched, base,
                    lost, late>>
    BY <1>1 DEF oomVars, kernel, timers, detector, past
  <2>2. OOMTypes' /\ InTime'
    BY <2>1 DEF OOMInv, OOMTypes, InTime, Latest
  <2>3. PICK c, r, d \in 0..Len(log) : Memo(c) /\ Delayed(d) /\ SeenBy(c, r, d)
    BY DEF OOMInv
  <2>4. PICK s \in 0..Len(log) : OnDisk(saved, s)
    BY DEF OOMInv
  <2>5. Memo(c)' /\ Delayed(d)' /\ SeenBy(c, r, d)' /\ OnDisk(saved, s)'
    BY <2>1, <2>3, <2>4 DEF Memo, Delayed, SeenBy, OnDisk
  <2> QED BY <2>1, <2>2, <2>5 DEF OOMInv
<1>2. CASE HostKill
  BY <1>2, HostKillInv
<1>3. CASE ContainerKill
  BY <1>3, ContainerKillInv
<1>4. CASE Tick
  BY <1>4, TickInv
<1>5. CASE ContainerOOM
  BY <1>5, ContainerOOMInv
<1>6. CASE CheckRead
  BY <1>6, CheckReadInv
<1>7. CASE CheckMatch
  BY <1>7, CheckMatchInv
<1>8. CASE Save
  BY <1>8, SaveInv
<1>9. CASE OOMRestart \/ Crash
  BY <1>9, RestartInv
<1> QED BY <1>1, <1>2, <1>3, <1>4, <1>5, <1>6, <1>7, <1>8, <1>9 DEF OOMNext

LEMMA InvCounts == ASSUME OOMInv PROVE KillsAccounted
<1>1. PICK c \in 0..Len(log) : Memo(c)
  BY DEF OOMInv
<1>2. /\ OOMTypes /\ prev \in Nat \cup {-1} /\ hostKills \in Nat /\ late \in Nat /\ lost \in Nat
      /\ confirmed \in Nat /\ reported \in Nat /\ matched \in Nat /\ base \in Nat /\ Len(pending) \in Nat
  BY DEF OOMInv, OOMTypes
<1>3. CASE prev = -1
  <2>1. confirmed + reported = 0
    BY <1>1, <1>3 DEF Memo, Counted
  <2>2. NoFalseAlarm
    BY <1>2, <2>1 DEF NoFalseAlarm
  <2> QED BY <1>2, <1>3, <2>2 DEF KillsAccounted, EveryKillCounted
<1>4. CASE prev # -1
  <2>1. /\ prev - c \in 0..hostKills
        /\ prev - base = matched + Len(pending) + (confirmed + reported)
        /\ confirmed + reported <= (prev - c) + (late + lost)
    BY <1>1, <1>4 DEF Memo, Counted
  <2>2. NoFalseAlarm
    BY <1>2, <2>1 DEF NoFalseAlarm
  <2>3. EveryKillCounted
    BY <1>2, <2>1 DEF EveryKillCounted
  <2> QED BY <1>2, <2>2, <2>3 DEF KillsAccounted
<1> QED BY <1>3, <1>4

(* Every kill is accounted for exactly once, and no container's kill is    *)
(* reported as the host's, unless a restart delayed or lost its event      *)
(* (HostOOMDetector.Check), over crashes and restarts.                     *)
THEOREM EveryKillRight == OOMSpec => []KillsAccounted
<1>1. OOMInit => OOMInv
  BY InitInv
<1>2. OOMInv /\ [OOMNext]_oomVars => OOMInv'
  BY NextInv
<1>3. OOMInv => KillsAccounted
  BY InvCounts
<1> QED BY <1>1, <1>2, <1>3, PTL DEF OOMSpec
=============================================================================
