------------------------- MODULE EventStreamProofs -------------------------
(***************************************************************************)
(* EventStream, proved for any number of events, restarts, crashes and     *)
(* lost connections, any replay window and any daemon buffer.              *)
(*                                                                         *)
(* NoGap alone is not inductive: that a reconnect or a restart from        *)
(* evSince misses nothing needs to know that everything older than evSince *)
(* is in memory, and that it repeats nothing that evHandled names exactly  *)
(* the events in memory at the last timestamp.  That is PositionOK, for    *)
(* the position in memory and for the one in the file.                     *)
(***************************************************************************)
EXTENDS EventStream, TLAPS

LogOK ==
    /\ \A i \in Index : log[i].time <= now
    /\ \A i, j \in Index : i <= j => log[i].time <= log[j].time
    /\ \A i, j \in Index : log[i] = log[j] => i = j

PositionOK(since, last, handled, app, exc) ==
    /\ since <= now
    /\ last = since \/ (last = 0 /\ handled = {})
    /\ \A k \in handled : \E i \in Index : log[i] = [time |-> last, key |-> k]
    /\ \A i \in app : /\ i \in Index
                      /\ \/ log[i].time < since
                         \/ log[i].time = last /\ log[i].key \in handled
    /\ \A i \in Index :
          (log[i].time < since \/ (log[i].time = last /\ log[i].key \in handled))
             => i \in app \cup exc
    /\ \A j \in app : \A i \in 1..(j - 1) : i \in app \cup exc

MemoryOK == PositionOK(evSince, evLast, evHandled, applied, excused)
FileOK   == PositionOK(saved.since, saved.since, saved.handled, saved.applied,
                       saved.excused)

(* What an open connection still has to deliver is not older than the      *)
(* position, and what it has delivered is in memory.                       *)
ConnectionOK ==
    cursor # 0 =>
        /\ cursor <= Len(log) + 1
        /\ \A i \in Index : i < cursor => i \in applied \cup excused
        /\ \A i \in Index : i >= cursor => log[i].time >= evSince

DownOK == ~Up => cursor = 0

IInv == TypeOK /\ LogOK /\ MemoryOK /\ FileOK /\ ConnectionOK /\ DownOK

(* The log's entries are typed.                                            *)
LEMMA LogEntries ==
    ASSUME TypeOK
    PROVE  /\ Len(log) \in Nat
           /\ \A i \in Index : /\ i \in Nat /\ i <= Len(log)
                               /\ log[i] \in Event
                               /\ log[i].time \in Nat /\ log[i].time # 0
                               /\ log[i].key \in EventKeys
                               /\ log[i] = [time |-> log[i].time, key |-> log[i].key]
<1>1. log \in Seq(Event)
  BY DEF TypeOK
<1>2. Len(log) \in Nat /\ \A i \in 1..Len(log) : log[i] \in Event
  BY <1>1
<1> QED BY <1>2 DEF Index, Event

(* Nodux has not started and there is no state file.                       *)
LEMMA InitIInv == Init => IInv
<1> SUFFICES ASSUME Init PROVE IInv
  OBVIOUS
<1>1. Index = {}
  BY DEF Init, Index
<1>2. TypeOK
  <2>1. NoFile \in File
    BY DEF NoFile, File
  <2>2. log \in Seq(Event)
    BY DEF Init
  <2> QED BY <2>1, <2>2 DEF Init, TypeOK
<1> QED BY <1>1, <1>2 DEF Init, IInv, LogOK, MemoryOK, FileOK, PositionOK,
          ConnectionOK, DownOK, NoFile, Up

(* The clock can only make the saved position older.                       *)
LEMMA TickIInv == ASSUME IInv, Tick PROVE IInv'
<1> USE DEF IInv, Up
<1>1. TypeOK'
  BY DEF Tick, TypeOK, position
<1>2. LogOK'
  <2>1. log' = log /\ Index' = Index /\ now \in Nat /\ now' = now + 1
    BY DEF Tick, TypeOK, Index
  <2>2. \A i \in Index : log[i].time <= now + 1
    <3> TAKE i \in Index
    <3>1. log[i].time \in Nat
      BY LogEntries
    <3>2. log[i].time <= now
      BY DEF LogOK
    <3> QED BY <2>1, <3>1, <3>2
  <2> QED BY <2>1, <2>2 DEF LogOK
<1>3. MemoryOK'
  BY DEF Tick, TypeOK, MemoryOK, PositionOK, Index, position
<1>4. FileOK'
  BY DEF Tick, TypeOK, FileOK, PositionOK, Index, File
<1>5. ConnectionOK' /\ DownOK'
  BY DEF Tick, ConnectionOK, DownOK, Index, position
<1> QED BY <1>1, <1>2, <1>3, <1>4, <1>5

(* A new event is later than, or as late as, everything before it.         *)
LEMMA EmitIInv == ASSUME IInv, NEW e \in EventKeys, Emit(e) PROVE IInv'
<1> USE DEF IInv, Up
<1> DEFINE n == Len(log) + 1
           ev == [time |-> now, key |-> e]
<1>1. /\ Len(log') = n /\ log'[n] = ev /\ now' = now /\ n \in Nat
      /\ \A i \in Index : log'[i] = log[i] /\ i < n
      /\ Index' = Index \cup {n} /\ n \notin Index
  BY DEF TypeOK, Emit, Index
<1>2. ev \in Event
  BY DEF TypeOK, Event
<1>3. TypeOK'
  <2>1. log' \in Seq(Event)
    BY <1>2 DEF TypeOK, Emit
  <2> QED BY <2>1 DEF Emit, TypeOK, position
<1>4. LogOK'
  <2>1. \A i \in Index : log[i] # ev /\ log[i].time <= ev.time
    BY DEF Emit, LogOK
  <2>2. ev.time = now /\ now <= now
    BY DEF TypeOK
  <2>3. \A i \in Index : i \in Nat
    BY DEF Index
  <2> HIDE DEF ev, n
  <2>4. \A i \in Index' : log'[i].time <= now'
    BY <1>1, <2>2 DEF LogOK
  <2>5. \A i, j \in Index' : i <= j => log'[i].time <= log'[j].time
    BY <1>1, <2>1, <2>2, <2>3 DEF LogOK
  <2>6. \A i, j \in Index' : log'[i] = log'[j] => i = j
    BY <1>1, <2>1 DEF LogOK
  <2> QED BY <2>4, <2>5, <2>6 DEF LogOK
<1>5. MemoryOK'
  <2>1. UNCHANGED <<evSince, evLast, evHandled, applied, excused>>
    BY DEF Emit, position
  <2>2. ~(ev.time < evSince)
    BY DEF MemoryOK, PositionOK, TypeOK
  <2>3. ~(ev.time = evLast /\ ev.key \in evHandled)
    BY DEF MemoryOK, PositionOK, Emit
  <2> HIDE DEF n, ev
  <2> QED BY <1>1, <2>1, <2>2, <2>3 DEF MemoryOK, PositionOK
<1>6. FileOK'
  <2>1. saved' = saved /\ saved.since \in Nat
    BY DEF Emit, TypeOK, File
  <2>2. ~(ev.time < saved.since)
    BY <2>1 DEF FileOK, PositionOK, TypeOK
  <2>3. ~(ev.time = saved.since /\ ev.key \in saved.handled)
    BY DEF FileOK, PositionOK, Emit
  <2> HIDE DEF n, ev
  <2> QED BY <1>1, <2>1, <2>2, <2>3 DEF FileOK, PositionOK
<1>7. ConnectionOK' /\ DownOK'
  <2>1. now >= evSince
    BY DEF MemoryOK, PositionOK, TypeOK
  <2>2. UNCHANGED <<cursor, status, evSince, applied, excused>>
    BY DEF Emit, position
  <2>3. cursor # 0 => cursor <= n
    BY DEF ConnectionOK
  <2>4. ev.time = now
    OBVIOUS
  <2>5. cursor \in Nat
    BY DEF TypeOK
  <2> HIDE DEF ev
  <2> QED BY <1>1, <2>1, <2>2, <2>3, <2>4, <2>5 DEF ConnectionOK, DownOK
<1> QED BY <1>3, <1>4, <1>5, <1>6, <1>7

(* What a new connection skips was applied, or was never promised.         *)
LEMMA ConnectIInv == ASSUME IInv, Connect PROVE IInv'
<1> USE DEF IInv, Up
<1> DEFINE cut == {i \in Index : i <= Len(log) - BufferSize}
<1>1. /\ UNCHANGED <<now, log, faults, status, evSince, evLast, evHandled, saved, applied>>
      /\ excused' = excused \cup cut /\ Up
  BY DEF Connect, position
<1>2. PICK c \in 1..(Len(log) + 1) :
         /\ \A i \in Index :
              i < c <=> log[i].time < evSince \/ i <= Len(log) - BufferSize
         /\ cursor' = c
  BY DEF Connect
<1>3. cut \in SUBSET Nat
  BY DEF Index
<1>4. TypeOK'
  <2>1. cursor' \in Nat
    BY <1>2, LogEntries
  <2> QED BY <1>1, <1>3, <2>1 DEF TypeOK
<1>5. LogOK' /\ FileOK' /\ DownOK'
  BY <1>1 DEF LogOK, FileOK, DownOK, PositionOK, Index
<1>6. MemoryOK'
  BY <1>1 DEF MemoryOK, PositionOK, Index
<1>7. ConnectionOK'
  <2>1. c \in Nat /\ c <= Len(log) + 1
    BY DEF TypeOK
  <2>2. \A i \in Index : i < c => i \in applied \cup (excused \cup cut)
    BY <1>2 DEF MemoryOK, PositionOK
  <2>3. \A i \in Index : i >= c => log[i].time >= evSince
    <3> TAKE i \in Index
    <3>1. log[i].time \in Nat /\ i \in Nat /\ evSince \in Nat
      BY LogEntries DEF TypeOK
    <3>2. i >= c => ~(log[i].time < evSince)
      BY <1>2, <2>1, <3>1
    <3> QED BY <3>1, <3>2
  <2> QED BY <1>1, <1>2, <2>1, <2>2, <2>3 DEF ConnectionOK, Index
<1> QED BY <1>4, <1>5, <1>6, <1>7

(* The handler: an event it takes is new to the memory, and what it skips  *)
(* is in memory already or was never promised.                             *)
LEMMA HandleIInv ==
    ASSUME IInv, Handle
    PROVE  IInv' /\ (~Seen(log[cursor]) => cursor \notin applied)
<1> USE DEF IInv, Up
<1> DEFINE ev == log[cursor]
<1>1. /\ cursor \in Index /\ cursor # 0 /\ cursor' = cursor + 1 /\ Up
      /\ cursor \in Nat /\ cursor + 1 <= Len(log) + 1
      /\ UNCHANGED <<now, log, faults, status, saved, excused>>
  BY DEF Handle, Index, TypeOK
<1>2. /\ ev.time \in Nat /\ ev.time # 0 /\ ev.key \in EventKeys
      /\ ev = [time |-> ev.time, key |-> ev.key] /\ ev \in Event
  BY <1>1, LogEntries
<1>3. /\ ev.time >= evSince
      /\ \A i \in Index : i < cursor => i \in applied \cup excused
      /\ \A i \in Index : i >= cursor => log[i].time >= evSince
  BY <1>1 DEF ConnectionOK
<1>4. LogOK' /\ FileOK' /\ DownOK'
  BY <1>1 DEF LogOK, FileOK, DownOK, PositionOK, Index
<1>5. \A i \in Index : i \in Nat /\ log[i].time \in Nat
  BY LogEntries
<1>6. CASE Seen(ev)
  <2>1. UNCHANGED <<evSince, evLast, evHandled, applied>>
    BY <1>6 DEF Handle, position
  <2>2. cursor \in applied \cup excused
    BY <1>6, <1>1, <1>2 DEF Seen, MemoryOK, PositionOK, TypeOK
  <2>3. TypeOK' /\ MemoryOK'
    BY <1>1, <2>1 DEF TypeOK, MemoryOK, PositionOK, Index
  <2>4. ConnectionOK'
    BY <1>1, <1>3, <1>5, <2>1, <2>2 DEF ConnectionOK, Index
  <2> QED BY <1>4, <1>6, <2>3, <2>4
<1>7. CASE ~Seen(ev)
  <2>1. /\ evHandled' = (IF ev.time = evLast THEN evHandled ELSE {}) \cup {ev.key}
        /\ evLast' = ev.time /\ evSince' = ev.time
        /\ applied' = applied \cup {cursor}
    BY <1>7 DEF Handle
  <2>2. cursor \notin applied
    BY <1>1, <1>2, <1>3, <1>7 DEF Seen, MemoryOK, PositionOK, TypeOK
  <2>3. TypeOK'
    <3>1. evHandled' \in SUBSET EventKeys
      BY <1>2, <2>1 DEF TypeOK
    <3>2. applied' \in SUBSET Nat
      BY <1>1, <2>1 DEF TypeOK
    <3>3. evSince' \in Nat /\ evLast' \in Nat /\ cursor' \in Nat
      BY <1>1, <1>2, <2>1
    <3> QED BY <1>1, <3>1, <3>2, <3>3 DEF TypeOK
  <2>4. ConnectionOK'
    <3>1. \A i \in Index : i >= cursor + 1 => log[i].time >= ev.time
      BY <1>1, <1>5 DEF LogOK
    <3>2. \A i \in Index : i < cursor + 1 => i < cursor \/ i = cursor
      BY <1>1, <1>5
    <3> HIDE DEF ev
    <3> QED BY <1>1, <1>3, <2>1, <3>1, <3>2 DEF ConnectionOK, Index
  <2>5. MemoryOK'
    <3> USE DEF MemoryOK, PositionOK
    <3>0. evSince \in Nat /\ evLast \in Nat /\ evLast <= evSince
      BY DEF TypeOK
    <3>1. evSince' <= now' /\ evLast' = evSince'
      BY <1>1, <2>1 DEF LogOK
    <3>2. \A k \in evHandled' : \E i \in Index : log[i] = [time |-> evLast', key |-> k]
      BY <1>1, <1>2, <2>1
    <3>3. \A i \in applied' : /\ i \in Index
                              /\ \/ log[i].time < evSince'
                                 \/ log[i].time = evLast' /\ log[i].key \in evHandled'
      <4> SUFFICES ASSUME NEW i \in applied'
                   PROVE  /\ i \in Index
                          /\ \/ log[i].time < evSince'
                             \/ log[i].time = evLast' /\ log[i].key \in evHandled'
        OBVIOUS
      <4>1. CASE i = cursor
        BY <1>1, <2>1, <4>1
      <4>2. CASE i \in applied /\ log[i].time < evSince
        BY <1>2, <1>3, <1>5, <2>1, <3>0, <4>2
      <4>3. CASE i \in applied /\ log[i].time = evLast /\ log[i].key \in evHandled
        BY <1>2, <1>3, <1>5, <2>1, <3>0, <4>3
      <4> QED BY <2>1, <4>1, <4>2, <4>3
    <3>4. ASSUME NEW i \in Index,
                 \/ log[i].time < evSince'
                 \/ log[i].time = evLast' /\ log[i].key \in evHandled'
          PROVE  i \in applied' \cup excused'
      <4>1. CASE log[i].time < ev.time
        <5>1. i < cursor
          BY <1>1, <1>2, <1>5, <4>1 DEF LogOK
        <5> QED BY <1>1, <1>3, <2>1, <5>1
      <4>2. CASE log[i].time = ev.time /\ log[i].key = ev.key
        <5>1. log[i] = ev
          BY <1>2, <4>2, LogEntries
        <5>2. i = cursor
          BY <1>1, <5>1 DEF LogOK
        <5> QED BY <2>1, <5>2
      <4>3. CASE log[i].time = ev.time /\ log[i].key # ev.key
        <5>1. ev.time = evLast /\ log[i].key \in evHandled
          BY <2>1, <3>4, <4>3, <1>2
        <5> QED BY <1>1, <2>1, <4>3, <5>1
      <4> QED BY <2>1, <3>4, <4>1, <4>2, <4>3
    <3>5. \A j \in applied' : \A i \in 1..(j - 1) : i \in applied' \cup excused'
      <4>1. \A i \in 1..(cursor - 1) : i \in Index /\ i < cursor
        BY <1>1 DEF Index, TypeOK
      <4> QED BY <1>1, <1>3, <2>1, <4>1
    <3>6. Index' = Index /\ log' = log
      BY <1>1 DEF Index
    <3> HIDE DEF ev
    <3> QED BY <3>1, <3>2, <3>3, <3>4, <3>5, <3>6
  <2> QED BY <1>4, <2>2, <2>3, <2>4, <2>5
<1> QED BY <1>6, <1>7

(* Losing the connection, and crashing, touch neither position nor file.   *)
LEMMA QuietIInv ==
    ASSUME IInv, Disconnect \/ Crash
    PROVE  IInv'
<1> USE DEF IInv, Up
<1>1. /\ UNCHANGED <<now, log, evSince, evLast, evHandled, saved, applied, excused>>
      /\ cursor' = 0
  BY DEF Disconnect, Crash, position
<1>2. TypeOK'
  BY <1>1 DEF Disconnect, Crash, TypeOK
<1>3. LogOK' /\ FileOK' /\ MemoryOK'
  BY <1>1 DEF LogOK, FileOK, MemoryOK, PositionOK, Index
<1> QED BY <1>1, <1>2, <1>3 DEF ConnectionOK, DownOK

(* The file describes the same point in time as the memory it came from.   *)
LEMMA SaveIInv ==
    ASSUME IInv, Save \/ Stop
    PROVE  IInv'
<1> USE DEF IInv, Up
<1>1. /\ UNCHANGED <<now, log, faults, evSince, evLast, evHandled, applied, excused>>
      /\ saved' = Snapshot
      /\ \/ cursor' = 0
         \/ cursor' = cursor /\ status' = status
      /\ status' \in {"up", "down"}
  BY DEF Save, Stop, position, TypeOK
<1>2. Snapshot \in File
  BY DEF Snapshot, File, TypeOK
<1>3. TypeOK'
  BY <1>1, <1>2 DEF TypeOK
<1>4. LogOK' /\ MemoryOK' /\ ConnectionOK' /\ DownOK'
  BY <1>1 DEF LogOK, MemoryOK, PositionOK, ConnectionOK, DownOK, Index
<1>5. FileOK'
  <2>1. /\ saved'.since = evSince
        /\ saved'.handled = IF evSince = evLast THEN evHandled ELSE {}
        /\ saved'.applied = applied
        /\ saved'.excused = excused
    BY <1>1 DEF Snapshot
  <2>2. CASE evSince = evLast
    BY <1>1, <2>1, <2>2 DEF FileOK, MemoryOK, PositionOK, Index
  <2>3. CASE evSince # evLast
    <3>1. saved'.handled = {} /\ evHandled = {}
      BY <2>1, <2>3 DEF MemoryOK, PositionOK
    <3> QED BY <1>1, <2>1, <3>1 DEF FileOK, MemoryOK, PositionOK, Index
  <2> QED BY <2>2, <2>3
<1> QED BY <1>3, <1>4, <1>5

(* Each way restore can go (no file, an old file, a usable file) leads to  *)
(* a position that matches the memory it restores.                         *)
LEMMA StartIInv ==
    ASSUME IInv, StartFresh \/ StartLate \/ Resume
    PROVE  IInv'
<1> USE DEF IInv, Up
<1>1. /\ UNCHANGED <<now, log, cursor, saved>> /\ cursor = 0
      /\ status' = "up" /\ faults' \in Nat
  BY DEF StartFresh, StartLate, Resume, DownOK, TypeOK
<1>2. LogOK' /\ FileOK' /\ ConnectionOK' /\ DownOK'
  BY <1>1 DEF LogOK, FileOK, PositionOK, ConnectionOK, DownOK, Index
<1>3. /\ saved.since \in Nat /\ saved.handled \in SUBSET EventKeys
      /\ saved.applied \in SUBSET Nat /\ saved.excused \in SUBSET Nat
  BY DEF TypeOK, File
<1>4. \A t : Before(t) \in SUBSET Nat
  BY DEF Before, Index
<1>5. CASE StartFresh
  <2>1. /\ evSince' = now /\ evLast' = 0 /\ evHandled' = {}
        /\ applied' = {} /\ excused' = Before(now)
    BY <1>5 DEF StartFresh
  <2>2. TypeOK'
    BY <1>1, <1>4, <2>1 DEF TypeOK
  <2>3. MemoryOK'
    BY <1>1, <2>1, LogEntries DEF MemoryOK, PositionOK, Index, Before, TypeOK
  <2> QED BY <1>2, <2>2, <2>3
<1>6. CASE StartLate
  <2>1. /\ evSince' = now - MaxReplay /\ evLast' = 0 /\ evHandled' = {}
        /\ applied' = saved.applied
        /\ excused' = saved.excused \cup Before(now - MaxReplay)
        /\ now - saved.since > MaxReplay
    BY <1>6 DEF StartLate
  <2>2. /\ now - MaxReplay \in Nat /\ now - MaxReplay <= now
        /\ saved.since < now - MaxReplay
    BY <1>3, <2>1, StreamAssumption DEF TypeOK
  <2>3. TypeOK'
    BY <1>1, <1>3, <1>4, <2>1, <2>2 DEF TypeOK
  <2>4. MemoryOK'
    <3>1. \A i \in applied' : i \in Index /\ log[i].time < evSince'
      <4> SUFFICES ASSUME NEW i \in saved.applied
                   PROVE  i \in Index /\ log[i].time < now - MaxReplay
        BY <2>1
      <4>1. i \in Index /\ (log[i].time < saved.since \/ log[i].time = saved.since)
        BY DEF FileOK, PositionOK
      <4>2. log[i].time \in Nat
        BY <4>1, LogEntries
      <4> QED BY <1>3, <2>2, <4>1, <4>2
    <3>2. \A i \in Index : log[i].time < evSince' => i \in excused'
      BY <2>1 DEF Before
    <3>3. \A j \in applied' : \A i \in 1..(j - 1) : i \in applied' \cup excused'
      BY <2>1 DEF FileOK, PositionOK
    <3>4. Index' = Index
      BY <1>1 DEF Index
    <3> QED BY <1>1, <2>1, <2>2, <3>1, <3>2, <3>3, <3>4 DEF MemoryOK, PositionOK
  <2> QED BY <1>2, <2>3, <2>4
<1>7. CASE Resume
  <2>1. /\ evSince' = saved.since /\ evLast' = saved.since
        /\ evHandled' = saved.handled /\ applied' = saved.applied
        /\ excused' = saved.excused
    BY <1>7 DEF Resume
  <2>2. TypeOK'
    BY <1>1, <1>3, <2>1 DEF TypeOK
  <2>3. MemoryOK'
    BY <1>1, <2>1 DEF MemoryOK, FileOK, PositionOK, Index
  <2> QED BY <1>2, <2>2, <2>3
<1> QED BY <1>5, <1>6, <1>7

(* Every step keeps the invariant.                                         *)
LEMMA NextIInv == ASSUME IInv, [Next]_vars PROVE IInv'
<1>1. CASE Next
  BY <1>1, TickIInv, EmitIInv, ConnectIInv, HandleIInv, QuietIInv, SaveIInv,
     StartIInv DEF Next
<1>2. CASE UNCHANGED vars
  BY <1>2 DEF vars, IInv, TypeOK, LogOK, MemoryOK, FileOK, PositionOK,
              ConnectionOK, DownOK, Index, Up
<1> QED BY <1>1, <1>2

(* The position in memory and in the file keep their types.                *)
THEOREM StreamTypes == Spec => []TypeOK
<1>1. IInv => TypeOK
  BY DEF IInv
<1> QED BY <1>1, InitIInv, NextIInv, PTL DEF Spec

(* No reconnect, restart, crash or replay ever leaves a hole: whatever     *)
(* event is in memory, every earlier one that was promised is as well.     *)
THEOREM StreamNoGap == Spec => []NoGap
<1>1. IInv => NoGap
  BY DEF IInv, MemoryOK, PositionOK, NoGap
<1> QED BY <1>1, InitIInv, NextIInv, PTL DEF Spec

(* No event is ever applied twice to the same memory.                      *)
THEOREM StreamNeverTwice == Spec => NeverTwice
<1> DEFINE Fine == Handle /\ ~Seen(log[cursor]) => cursor \notin applied
<1>1. IInv /\ [Next]_vars => [Fine]_vars
  BY HandleIInv
<1> QED BY <1>1, InitIInv, NextIInv, PTL DEF Spec, NeverTwice
=============================================================================
