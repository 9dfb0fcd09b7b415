-------------------------- MODULE ThresholdsProofs --------------------------
(***************************************************************************)
(* Thresholds, proved for any levels, amounts of free space and times, any *)
(* number of saves and crashes: AlarmRight, ForecastRight, ShareMeasured   *)
(* and ImagesRight.                                                        *)
(*                                                                         *)
(* A detector keeps a few words of what it has seen, and the properties    *)
(* are about the readings themselves, so every invariant here says how the *)
(* words follow from the log, in memory and again in the state file, which *)
(* has a log of its own:                                                   *)
(*   TInv         types                                                    *)
(*   LogInv       the readings are in the order of time and of the runs    *)
(*   OffInv       a detector that is switched off has no alarm             *)
(*   GateInv      aboveSince begins the present run of high readings, and  *)
(*                the gate fires exactly when the readings have earned it  *)
(*   ExpectedInv  the same for downSince                                   *)
(*   ForecastInv  the samples are the end of the log, cut somewhere, and   *)
(*                what is cut off is too old to matter                     *)
(*   CountInv     the counters moved by `moved' since the last check       *)
(*   ImageInv     the record of an image is dated by two of the readings   *)
(* AInv is the first six: an alarm needs all of them, for a detector may   *)
(* be switched off and on and the file may be older than the process.      *)
(***************************************************************************)
EXTENDS Thresholds, TLAPS, WellFoundedInduction

-----------------------------------------------------------------------------
(* Induction, for a set of numbers: the least one that is missing.         *)
LEMMA LeastOf ==
    ASSUME NEW S, S \subseteq Nat, S # {}
    PROVE  \E x \in S : \A y \in S : x <= y
<1> DEFINE R == OpToRel(<, Nat)
<1>1. IsWellFoundedOn(R, Nat)
  BY NatLessThanWellFounded
<1>2. \E x \in S : \A y \in S : ~(<<y, x>> \in R)
  <2> HIDE DEF R
  <2> QED BY <1>1, WFMin
<1>3. PICK x \in S : \A y \in S : ~(<<y, x>> \in R)
  BY <1>2
<1>4. ASSUME NEW y \in S PROVE x <= y
  <2>1. x \in Nat /\ y \in Nat /\ ~(<<y, x>> \in R)
    BY <1>3
  <2>2. ~(y < x)
    BY <2>1 DEF OpToRel
  <2> HIDE DEF R
  <2> QED BY <2>1, <2>2
<1> HIDE DEF R
<1> QED BY <1>4

LEMMA SetInduction ==
    ASSUME NEW T, 0 \in T, \A n \in Nat : n \in T => n + 1 \in T
    PROVE  Nat \subseteq T
<1> SUFFICES ASSUME ~(Nat \subseteq T) PROVE FALSE
  OBVIOUS
<1>1. PICK S : S = {n \in Nat : n \notin T}
  OBVIOUS
<1>2. S \subseteq Nat /\ S # {}
  BY <1>1
<1>3. PICK x \in S : \A y \in S : x <= y
  BY <1>2, LeastOf
<1>4. x \in Nat /\ x \notin T /\ x # 0
  BY <1>1, <1>3
<1>5. x - 1 \in Nat /\ (x - 1) + 1 = x /\ ~(x <= x - 1)
  BY <1>4
<1>6. x - 1 \in T
  BY <1>1, <1>3, <1>5
<1> QED BY <1>4, <1>5, <1>6

LEMMA Settings ==
    /\ Threshold \in Nat \ {0} /\ Sustain \in Nat
    /\ Window \in Nat /\ Horizon \in Nat /\ Grace \in Nat /\ Week \in Nat
    /\ MaxTime \in Nat /\ MaxSaves \in Nat /\ MaxCrashes \in Nat
    /\ Day \in Nat \ {0} /\ Day <= Week
    /\ Levels \subseteq Nat /\ Avails \subseteq Nat /\ Images \subseteq Nat \ {0}
BY GateAssumption, ThresholdsAssumption

LEMMA Elements ==
    ASSUME NEW S, NEW s \in Seq(S)
    PROVE  \A i \in 1..Len(s) : s[i] \in S
OBVIOUS

LEMMA LongerSeq ==
    ASSUME NEW S, NEW s \in Seq(S), NEW x \in S
    PROVE  /\ Append(s, x) \in Seq(S) /\ Len(Append(s, x)) = Len(s) + 1
           /\ Append(s, x)[Len(s) + 1] = x
           /\ \A i \in 1..Len(s) : Append(s, x)[i] = s[i]
OBVIOUS

LEMMA Readings ==
    ASSUME NEW s \in Seq(ReadingType)
    PROVE  \A i \in 1..Len(s) : s[i].at \in Nat /\ s[i].v \in Int /\ s[i].run \in Nat
<1>1. \A i \in 1..Len(s) : s[i] \in ReadingType
  BY Elements
<1>2. \A x \in ReadingType : x.at \in Nat /\ x.v \in Int /\ x.run \in Nat
  BY Settings DEF ReadingType
<1> QED BY <1>1, <1>2

-----------------------------------------------------------------------------
(* Readings that have run out are the first ones.                          *)
Old(s, cutoff, k) ==
    /\ \A i \in 1..k : s[i].at < cutoff
    /\ k < Len(s) => s[k + 1].at >= cutoff

LEMMA OldExists ==
    ASSUME NEW s \in Seq(ReadingType), NEW cutoff \in Int
    PROVE  \E k \in 0..Len(s) : Old(s, cutoff, k)
<1>1. PICK S : S = {k \in 0..Len(s) : k < Len(s) => s[k + 1].at >= cutoff}
  OBVIOUS
<1>2. Len(s) \in Nat /\ Len(s) \in S /\ S \subseteq Nat
  BY <1>1
<1>3. PICK k \in S : \A y \in S : k <= y
  BY <1>2, LeastOf
<1>4. k \in 0..Len(s) /\ (k < Len(s) => s[k + 1].at >= cutoff)
  BY <1>1, <1>3
<1>5. ASSUME NEW i \in 1..k PROVE s[i].at < cutoff
  <2>1. i - 1 \in 0..Len(s) /\ i - 1 < Len(s) /\ (i - 1) + 1 = i /\ i - 1 < k
    BY <1>4
  <2>2. i - 1 \notin S
    <3>1. i - 1 \in Int /\ k \in Int /\ ~(k <= i - 1)
      BY <1>4, <2>1
    <3> QED BY <1>3, <3>1
  <2>3. ~(s[i].at >= cutoff)
    BY <1>1, <2>1, <2>2
  <2>4. s[i].at \in Int
    BY <1>4, Readings
  <2> QED BY <2>3, <2>4
<1> QED BY <1>4, <1>5 DEF Old

LEMMA OldUnique ==
    ASSUME NEW s \in Seq(ReadingType), NEW cutoff \in Int,
           NEW k \in 0..Len(s), NEW m \in 0..Len(s),
           Old(s, cutoff, k), Old(s, cutoff, m)
    PROVE  k = m
<1>1. \A i \in 1..Len(s) : s[i].at \in Int
  BY Readings
<1>2. ASSUME k < m PROVE FALSE
  <2>1. k + 1 \in 1..m /\ k < Len(s) /\ k + 1 \in 1..Len(s)
    BY <1>2
  <2> QED BY <1>1, <2>1 DEF Old
<1>3. ASSUME m < k PROVE FALSE
  <2>1. m + 1 \in 1..k /\ m < Len(s) /\ m + 1 \in 1..Len(s)
    BY <1>3
  <2> QED BY <1>1, <2>1 DEF Old
<1> QED BY <1>2, <1>3

LEMMA SinceIs ==
    ASSUME NEW s \in Seq(ReadingType), NEW cutoff \in Int
    PROVE  \E k \in 0..Len(s) :
              Old(s, cutoff, k) /\ Since(s, cutoff) = SubSeq(s, k + 1, Len(s))
<1>1. PICK k : k = CHOOSE m \in 0..Len(s) : Old(s, cutoff, m)
  OBVIOUS
<1>2. k \in 0..Len(s) /\ Old(s, cutoff, k)
  BY <1>1, OldExists
<1>3. Since(s, cutoff) = SubSeq(s, k + 1, Len(s))
  BY <1>1 DEF Since, Old
<1> QED BY <1>2, <1>3

LEMMA SinceAt ==
    ASSUME NEW s \in Seq(ReadingType), NEW cutoff \in Int,
           NEW k \in 0..Len(s), Old(s, cutoff, k)
    PROVE  Since(s, cutoff) = SubSeq(s, k + 1, Len(s))
<1>1. PICK m \in 0..Len(s) : Old(s, cutoff, m) /\ Since(s, cutoff) = SubSeq(s, m + 1, Len(s))
  BY SinceIs
<1>2. k = m
  BY <1>1, OldUnique
<1> QED BY <1>1, <1>2

LEMMA Rest ==
    ASSUME NEW S, NEW s \in Seq(S), NEW k \in 0..Len(s)
    PROVE  /\ SubSeq(s, k + 1, Len(s)) \in Seq(S)
           /\ Len(SubSeq(s, k + 1, Len(s))) = Len(s) - k
           /\ \A i \in 1..Len(s) - k : SubSeq(s, k + 1, Len(s))[i] = s[k + i]
<1>1. \A i \in 1..Len(s) : s[i] \in S
  OBVIOUS
<1>2. SubSeq(s, k + 1, Len(s)) = [i \in 1..Len(s) - k |-> s[k + i]]
  OBVIOUS
<1>3. Len(s) - k \in Nat /\ \A i \in 1..Len(s) - k : k + i \in 1..Len(s)
  OBVIOUS
<1>4. [i \in 1..Len(s) - k |-> s[k + i]] \in Seq(S)
  BY <1>1, <1>3
<1> QED BY <1>2, <1>3, <1>4

LEMMA SameSeq ==
    ASSUME NEW S, NEW s \in Seq(S), NEW t \in Seq(S), Len(s) = Len(t),
           \A i \in 1..Len(s) : s[i] = t[i]
    PROVE  s = t
OBVIOUS

LEMMA SinceType ==
    ASSUME NEW s \in Seq(ReadingType), NEW cutoff \in Int
    PROVE  /\ Since(s, cutoff) \in Seq(ReadingType)
           /\ Len(Since(s, cutoff)) <= Len(s)
<1>1. PICK k \in 0..Len(s) : Since(s, cutoff) = SubSeq(s, k + 1, Len(s))
  BY SinceIs
<1>2. /\ SubSeq(s, k + 1, Len(s)) \in Seq(ReadingType)
      /\ Len(SubSeq(s, k + 1, Len(s))) = Len(s) - k
  BY Rest
<1> QED BY <1>1, <1>2

(* Dropped twice is dropped once, the second time at a later moment.       *)
LEMMA SinceTwice ==
    ASSUME NEW s \in Seq(ReadingType), NEW a \in Int, NEW b \in Int, a <= b
    PROVE  Since(Since(s, a), b) = Since(s, b)
<1>1. PICK k \in 0..Len(s) : Old(s, a, k) /\ Since(s, a) = SubSeq(s, k + 1, Len(s))
  BY SinceIs
<1>2. PICK m \in 0..Len(s) : Old(s, b, m) /\ Since(s, b) = SubSeq(s, m + 1, Len(s))
  BY SinceIs
<1>3. PICK t \in Seq(ReadingType) :
        /\ t = Since(s, a) /\ Len(t) = Len(s) - k
        /\ \A i \in 1..Len(s) - k : t[i] = s[k + i]
  BY <1>1, Rest, ZenonT(30)
<1>4. k <= m
  <2> SUFFICES ASSUME m < k PROVE FALSE
    OBVIOUS
  <2>1. m + 1 \in 1..k /\ m < Len(s) /\ s[m + 1].at \in Int
    BY Readings
  <2> QED BY <1>1, <1>2, <2>1 DEF Old
<1>5. m - k \in 0..Len(t)
  BY <1>3, <1>4
<1>6. Old(t, b, m - k)
  <2>1. ASSUME NEW i \in 1..m - k PROVE t[i].at < b
    <3>1. i \in 1..Len(s) - k /\ k + i \in 1..m
      BY <1>4
    <3> QED BY <1>2, <1>3, <3>1 DEF Old
  <2>2. ASSUME m - k < Len(t) PROVE t[(m - k) + 1].at >= b
    <3>1. (m - k) + 1 \in 1..Len(s) - k /\ k + ((m - k) + 1) = m + 1 /\ m < Len(s)
      BY <1>3, <1>4, <2>2
    <3> QED BY <1>2, <1>3, <3>1 DEF Old
  <2> QED BY <2>1, <2>2 DEF Old
<1>7. Since(t, b) = SubSeq(t, (m - k) + 1, Len(t))
  BY <1>5, <1>6, SinceAt
<1>8. /\ SubSeq(t, (m - k) + 1, Len(t)) \in Seq(ReadingType)
      /\ Len(SubSeq(t, (m - k) + 1, Len(t))) = Len(t) - (m - k)
      /\ \A i \in 1..Len(t) - (m - k) : SubSeq(t, (m - k) + 1, Len(t))[i] = t[(m - k) + i]
  BY <1>5, Rest
<1>9. /\ SubSeq(s, m + 1, Len(s)) \in Seq(ReadingType)
      /\ Len(SubSeq(s, m + 1, Len(s))) = Len(s) - m
      /\ \A i \in 1..Len(s) - m : SubSeq(s, m + 1, Len(s))[i] = s[m + i]
  BY Rest
<1>10. Len(t) - (m - k) = Len(s) - m
  BY <1>3
<1>11. ASSUME NEW i \in 1..Len(s) - m PROVE t[(m - k) + i] = s[m + i]
  <2>1. (m - k) + i \in 1..Len(s) - k /\ k + ((m - k) + i) = m + i
    BY <1>4
  <2> QED BY <1>3, <2>1
<1>12. SubSeq(t, (m - k) + 1, Len(t)) = SubSeq(s, m + 1, Len(s))
  <2>1. PICK u \in Seq(ReadingType) : u = SubSeq(t, (m - k) + 1, Len(t))
    BY <1>8
  <2>2. PICK w \in Seq(ReadingType) : w = SubSeq(s, m + 1, Len(s))
    BY <1>9
  <2>3. Len(u) = Len(w) /\ \A i \in 1..Len(u) : u[i] = w[i]
    BY <1>8, <1>9, <1>10, <1>11, <2>1, <2>2
  <2>4. u = w
    BY <2>3, SameSeq
  <2> QED BY <2>1, <2>2, <2>4
<1> QED BY <1>2, <1>3, <1>7, <1>12

(* And one more reading makes no difference to that.                       *)
LEMMA SinceAppend ==
    ASSUME NEW s \in Seq(ReadingType), NEW x \in ReadingType,
           NEW a \in Int, NEW b \in Int, a <= b
    PROVE  Since(Append(Since(s, a), x), b) = Since(Append(s, x), b)
<1>1. PICK k \in 0..Len(s) : Old(s, a, k) /\ Since(s, a) = SubSeq(s, k + 1, Len(s))
  BY SinceIs
<1>2. PICK l \in Seq(ReadingType) :
        /\ l = Append(s, x) /\ Len(l) = Len(s) + 1 /\ l[Len(s) + 1] = x
        /\ \A i \in 1..Len(s) : l[i] = s[i]
  <2>1. /\ Append(s, x) \in Seq(ReadingType) /\ Len(Append(s, x)) = Len(s) + 1
        /\ Append(s, x)[Len(s) + 1] = x /\ \A i \in 1..Len(s) : Append(s, x)[i] = s[i]
    BY LongerSeq
  <2> QED BY <2>1
<1>3. /\ SubSeq(s, k + 1, Len(s)) \in Seq(ReadingType)
      /\ Len(SubSeq(s, k + 1, Len(s))) = Len(s) - k
      /\ \A i \in 1..Len(s) - k : SubSeq(s, k + 1, Len(s))[i] = s[k + i]
  BY Rest
<1>4. PICK t \in Seq(ReadingType) :
        /\ t = Append(Since(s, a), x) /\ Len(t) = Len(s) - k + 1 /\ t[Len(s) - k + 1] = x
        /\ \A i \in 1..Len(s) - k : t[i] = s[k + i]
  <2>1. PICK u \in Seq(ReadingType) : u = Since(s, a) /\ Len(u) = Len(s) - k
            /\ \A i \in 1..Len(s) - k : u[i] = s[k + i]
    BY <1>1, <1>3
  <2>2. /\ Append(u, x) \in Seq(ReadingType) /\ Len(Append(u, x)) = Len(u) + 1
        /\ Append(u, x)[Len(u) + 1] = x /\ \A i \in 1..Len(u) : Append(u, x)[i] = u[i]
    BY LongerSeq
  <2> QED BY <2>1, <2>2
<1>5. \A i \in 1..Len(t) : t[i] = l[k + i]
  <2> SUFFICES ASSUME NEW i \in 1..Len(t) PROVE t[i] = l[k + i]
    OBVIOUS
  <2>1. CASE i = Len(s) - k + 1
    <3>1. k + i = Len(s) + 1
      BY <2>1
    <3> QED BY <1>2, <1>4, <2>1, <3>1
  <2>2. CASE i # Len(s) - k + 1
    <3>1. i \in 1..Len(s) - k /\ Len(s) \in Nat
      <4>1. Len(t) = Len(s) - k + 1
        BY <1>4
      <4>2. Len(s) \in Nat /\ k \in Int /\ i \in Int
        OBVIOUS
      <4> QED BY <2>2, <4>1, <4>2
    <3>2. k + i \in 1..Len(s)
      BY <3>1
    <3> QED BY <1>2, <1>4, <3>1, <3>2
  <2> QED BY <2>1, <2>2
<1>6. PICK m \in 0..Len(l) : Old(l, b, m) /\ Since(l, b) = SubSeq(l, m + 1, Len(l))
  BY SinceIs
<1>7. k <= m
  <2> SUFFICES ASSUME m < k PROVE FALSE
    OBVIOUS
  <2>1. m + 1 \in 1..k /\ m < Len(l) /\ m + 1 \in 1..Len(s) /\ s[m + 1].at \in Int
    BY <1>2, Readings
  <2> QED BY <1>1, <1>2, <1>6, <2>1 DEF Old
<1>8. m - k \in 0..Len(t) /\ Len(t) - (m - k) = Len(l) - m
  <2>1. Len(l) = Len(s) + 1 /\ Len(t) = Len(s) - k + 1
    BY <1>2, <1>4
  <2>2. PICK n \in Nat : n = Len(s)
    OBVIOUS
  <2>3. m \in 0..(n + 1) /\ k \in 0..n /\ k <= m
    BY <1>7, <2>1, <2>2
  <2>4. m - k \in 0..(n - k + 1) /\ (n - k + 1) - (m - k) = n + 1 - m
    BY <2>3
  <2> QED BY <2>1, <2>2, <2>4
<1>9. Old(t, b, m - k)
  <2>1. ASSUME NEW i \in 1..m - k PROVE t[i].at < b
    <3>1. i \in 1..Len(t) /\ k + i \in 1..m
      BY <1>7, <1>8
    <3> QED BY <1>5, <1>6, <3>1 DEF Old
  <2>2. ASSUME m - k < Len(t) PROVE t[(m - k) + 1].at >= b
    <3>1. (m - k) + 1 \in 1..Len(t) /\ k + ((m - k) + 1) = m + 1 /\ m < Len(l)
      BY <1>7, <1>8, <2>2
    <3> QED BY <1>5, <1>6, <3>1 DEF Old
  <2> QED BY <2>1, <2>2 DEF Old
<1>10. Since(t, b) = SubSeq(t, (m - k) + 1, Len(t))
  BY <1>8, <1>9, SinceAt
<1>11. /\ SubSeq(t, (m - k) + 1, Len(t)) \in Seq(ReadingType)
       /\ Len(SubSeq(t, (m - k) + 1, Len(t))) = Len(t) - (m - k)
       /\ \A i \in 1..Len(t) - (m - k) : SubSeq(t, (m - k) + 1, Len(t))[i] = t[(m - k) + i]
  BY <1>8, Rest
<1>12. /\ SubSeq(l, m + 1, Len(l)) \in Seq(ReadingType)
       /\ Len(SubSeq(l, m + 1, Len(l))) = Len(l) - m
       /\ \A i \in 1..Len(l) - m : SubSeq(l, m + 1, Len(l))[i] = l[m + i]
  BY Rest
<1>13. ASSUME NEW i \in 1..Len(l) - m PROVE t[(m - k) + i] = l[m + i]
  <2>1. (m - k) + i \in 1..Len(t) /\ k + ((m - k) + i) = m + i
    BY <1>7, <1>8
  <2> QED BY <1>5, <2>1
<1>14. SubSeq(t, (m - k) + 1, Len(t)) = SubSeq(l, m + 1, Len(l))
  <2>1. PICK u \in Seq(ReadingType) : u = SubSeq(t, (m - k) + 1, Len(t))
    BY <1>11
  <2>2. PICK w \in Seq(ReadingType) : w = SubSeq(l, m + 1, Len(l))
    BY <1>12
  <2>3. Len(u) = Len(w) /\ \A i \in 1..Len(u) : u[i] = w[i]
    BY <1>8, <1>11, <1>12, <1>13, <2>1, <2>2
  <2>4. u = w
    BY <2>3, SameSeq
  <2> QED BY <2>1, <2>2, <2>4
<1> QED BY <1>2, <1>4, <1>6, <1>10, <1>14

(* The window of the last reading.                                         *)
LEMMA WholeLog ==
    ASSUME NEW S, NEW s \in Seq(S)
    PROVE  SubSeq(s, 1, Len(s)) = s
OBVIOUS

-----------------------------------------------------------------------------
(* Types, of what is saved as well.                                        *)
Memory == [firing : BOOLEAN, lastPct : Int, samples : Seq(ReadingType), downSince : Int]
ImageType == [id : Nat, since : Int, lastSeen : Int, prev : Int, changedAt : Int]

Basics ==
    /\ kind \in Kinds /\ config \subseteq {kind} /\ (kind = "images" => config = {kind})
    /\ now \in 0..MaxTime
    /\ polled \in BOOLEAN /\ up \in BOOLEAN /\ alarm \in BOOLEAN /\ read \in BOOLEAN
    /\ faults \in [saves : Nat, crashes : 0..MaxCrashes]

Detector ==
    /\ gate \in [aboveSince : NoTime..now, firing : BOOLEAN]
    /\ downSince \in NoTime..now
    /\ prev \in [whole : Int, part : Int] /\ lastPct \in Int

Lists ==
    /\ log \in Seq(ReadingType) /\ samples \in Seq(ReadingType)
    /\ Len(samples) <= Len(log)
    /\ kind # "host_disk_forecast" => samples = <<>>

World ==
    /\ image \in ImageType /\ pruned \in Int
    /\ place \in [image : Nat, created : Nat]
    /\ counters \in [on : Nat, off : Nat]
    /\ moved \in [on : Int, off : Int, reset : BOOLEAN]
    /\ prev.whole \in -1..Totals(counters).whole \/ kind = "cpu_throttle"

File ==
    /\ DOMAIN saved.detectors \subseteq {kind}
    /\ kind = "images" => kind \in DOMAIN saved.detectors
    /\ saved.image \in ImageType /\ saved.alarm \in BOOLEAN
    /\ saved.log \in Seq(ReadingType)
    /\ kind \in DOMAIN saved.detectors =>
         LET d == saved.detectors[kind] IN
         /\ d \in Memory /\ d.downSince \in NoTime..now
         /\ Len(d.samples) <= Len(saved.log)
         /\ kind # "host_disk_forecast" => d.samples = <<>>

TInv == Basics /\ Detector /\ Lists /\ World /\ File

Frame ==
    /\ polled' = TRUE
    /\ UNCHANGED <<kind, place, config, now, up, faults, saved>>

LEMMA NewReading ==
    ASSUME Basics, NEW v \in Int
    PROVE  Reading(v) \in ReadingType /\ Reading(v).at = now /\ Reading(v).v = v
           /\ Reading(v).run = faults.crashes
BY DEF Reading, ReadingType, Basics

LEMMA UpdateType ==
    ASSUME Basics, Detector, NEW v \in Int
    PROVE  Update(gate, now, v) \in [aboveSince : NoTime..now, firing : BOOLEAN]
<1>1. now \in Nat /\ MaxTime \in Nat /\ NoTime = -1 /\ Threshold \in Nat
  BY Settings DEF Basics, NoTime
<1>2. gate.aboveSince \in NoTime..now /\ gate.firing \in BOOLEAN
  BY DEF Detector
<1>3. NewGate \in [aboveSince : NoTime..now, firing : BOOLEAN]
  BY <1>1 DEF NewGate
<1>4. Opening(gate, now) \in NoTime..now
  BY <1>1, <1>2 DEF Opening
<1>5. [aboveSince |-> Opening(gate, now), firing |-> now - Opening(gate, now) >= Sustain]
        \in [aboveSince : NoTime..now, firing : BOOLEAN]
  BY <1>4
<1>6. CASE gate.firing
  <2>1. CASE Rearms(v)
    BY <1>3, <1>6, <2>1 DEF Update
  <2>2. CASE ~Rearms(v)
    BY <1>6, <2>2 DEF Update, Detector
  <2> QED BY <2>1, <2>2
<1>7. CASE ~gate.firing
  <2>1. CASE v < Threshold
    BY <1>3, <1>7, <2>1 DEF Update
  <2>2. CASE ~(v < Threshold)
    BY <1>5, <1>7, <2>2 DEF Update
  <2> QED BY <2>1, <2>2
<1> QED BY <1>6, <1>7

(* What a check may do to the gate and the log.                            *)
LEMMA MeasureTypes ==
    ASSUME TInv, Frame, NEW v \in Int, Measure(v), samples' = samples
    PROVE  /\ gate' \in [aboveSince : NoTime..now, firing : BOOLEAN]
           /\ alarm' \in BOOLEAN /\ read' \in BOOLEAN
           /\ log' \in Seq(ReadingType) /\ Len(log) <= Len(log')
<1>1. gate' \in [aboveSince : NoTime..now, firing : BOOLEAN]
  BY UpdateType DEF Measure, TInv
<1>2. alarm' \in BOOLEAN /\ read' \in BOOLEAN
  BY <1>1 DEF Measure
<1>3. log' \in Seq(ReadingType) /\ Len(log') = Len(log) + 1
  BY NewReading, LongerSeq DEF Measure, TInv, Lists
<1>4. Len(log) \in Nat
  BY DEF TInv, Lists
<1> QED BY <1>1, <1>2, <1>3, <1>4

LEMMA NoReadingTypes ==
    ASSUME TInv, Frame, NEW a \in BOOLEAN, NoReading(a), samples' = samples
    PROVE  /\ gate' \in [aboveSince : NoTime..now, firing : BOOLEAN]
           /\ alarm' \in BOOLEAN /\ read' \in BOOLEAN
           /\ log' \in Seq(ReadingType) /\ Len(log) <= Len(log')
<1>1. gate' \in [aboveSince : NoTime..now, firing : BOOLEAN]
  BY DEF NoReading, TInv, Detector
<1>2. alarm' \in BOOLEAN /\ read' \in BOOLEAN
  BY Zenon DEF NoReading
<1>3. log' = log /\ log \in Seq(ReadingType)
  BY DEF NoReading, TInv, Lists
<1>4. Len(log) \in Nat
  BY <1>3
<1> QED BY <1>1, <1>2, <1>3, <1>4

LEMMA NewGateType ==
    ASSUME Basics
    PROVE  NewGate \in [aboveSince : NoTime..now, firing : BOOLEAN]
           /\ \A f \in BOOLEAN : RestoreGate(f) \in [aboveSince : NoTime..now, firing : BOOLEAN]
           /\ NoTime \in NoTime..now /\ now \in NoTime..now /\ NoTime..now \subseteq Int
<1>1. now \in Nat /\ NoTime = -1
  BY Settings DEF Basics, NoTime
<1> QED BY <1>1 DEF NewGate, RestoreGate

LEMMA DropTypes ==
    ASSUME TInv, Frame, Drop, samples' = samples, kind # "host_disk_forecast"
    PROVE  /\ gate' \in [aboveSince : NoTime..now, firing : BOOLEAN]
           /\ alarm' \in BOOLEAN /\ read' \in BOOLEAN
           /\ log' \in Seq(ReadingType) /\ Len(samples) <= Len(log')
           /\ prev' \in [whole : Int, part : Int] /\ lastPct' \in Int
           /\ prev'.whole = -1
<1>1. Basics
  BY DEF TInv
<1>2. log' = <<>> /\ samples = <<>>
  BY DEF Drop, TInv, Lists
<1>3. <<>> \in Seq(ReadingType) /\ Len(<<>>) = 0
  OBVIOUS
<1>4. gate' \in [aboveSince : NoTime..now, firing : BOOLEAN]
  BY <1>1, NewGateType DEF Drop
<1>5. prev' \in [whole : Int, part : Int] /\ lastPct' \in Int /\ prev'.whole = -1
  BY DEF Drop, NoSample
<1>6. alarm' \in BOOLEAN /\ read' \in BOOLEAN
  BY DEF Drop
<1> QED BY <1>2, <1>3, <1>4, <1>5, <1>6

(* What a check of any kind leaves is well typed.                          *)
LEMMA CheckTypes ==
    ASSUME TInv, Frame,
           gate' \in [aboveSince : NoTime..now, firing : BOOLEAN],
           alarm' \in BOOLEAN, read' \in BOOLEAN,
           log' \in Seq(ReadingType), samples' \in Seq(ReadingType), Len(samples') <= Len(log'),
           kind # "host_disk_forecast" => samples' = <<>>,
           downSince' \in NoTime..now,
           prev' \in [whole : Int, part : Int], lastPct' \in Int,
           image' \in ImageType, pruned' \in Int,
           counters' = counters, moved' \in [on : Int, off : Int, reset : BOOLEAN],
           prev'.whole \in -1..Totals(counters).whole \/ kind = "cpu_throttle"
    PROVE  TInv'
<1>1. Basics'
  BY DEF TInv, Basics, Frame
<1>2. Detector'
  BY DEF Detector, Frame
<1>3. Lists'
  BY DEF Lists, Frame
<1>4. World'
  BY DEF World, Frame, TInv, Totals
<1>5. File'
  BY DEF File, Frame, TInv
<1> QED BY <1>1, <1>2, <1>3, <1>4, <1>5 DEF TInv

LEMMA SameTypes ==
    ASSUME TInv
    PROVE  /\ samples \in Seq(ReadingType) /\ Len(samples) <= Len(log) /\ Len(log) \in Nat
           /\ Len(samples) \in Nat
           /\ kind # "host_disk_forecast" => samples = <<>>
           /\ downSince \in NoTime..now
           /\ prev \in [whole : Int, part : Int] /\ lastPct \in Int
           /\ image \in ImageType /\ pruned \in Int
           /\ moved \in [on : Int, off : Int, reset : BOOLEAN]
           /\ Still \in [on : Int, off : Int, reset : BOOLEAN]
           /\ prev.whole \in -1..Totals(counters).whole \/ kind = "cpu_throttle"
           /\ counters.on \in Nat /\ counters.off \in Nat
           /\ Totals(counters).whole \in Nat /\ Totals(counters).part \in Nat
           /\ Totals(counters) \in [whole : Int, part : Int]
           /\ gate.firing \in BOOLEAN /\ Basics
BY DEF TInv, Lists, Detector, World, Still, Totals

LEMMA PercentType ==
    ASSUME NEW part \in Int, NEW whole \in Int, whole >= 0
    PROVE  percent(part, whole) \in Int
<1>1. CASE whole = 0
  BY <1>1 DEF percent
<1>2. CASE whole # 0
  BY <1>2 DEF percent
<1> QED BY <1>1, <1>2

LEMMA MemoryTypes ==
    ASSUME TInv, Frame, CheckMemory
    PROVE  TInv'
<1>1. PICK s \in Statuses :
         IF collectStats(s) THEN (\E v \in Levels : Measure(v)) /\ UNCHANGED <<prev, lastPct>>
         ELSE IF gate.firing /\ ~s.running THEN NoReading(TRUE) /\ UNCHANGED <<prev, lastPct>>
         ELSE Drop
  BY DEF CheckMemory
<1>2. kind = "memory" /\ UNCHANGED <<samples, downSince, image, pruned, counters, moved>>
  BY DEF CheckMemory, images
<1>3. CASE \E v \in Levels : Measure(v) /\ UNCHANGED <<prev, lastPct>>
  <2>1. PICK v \in Int : Measure(v) /\ UNCHANGED <<prev, lastPct>>
    BY <1>3, Settings
  <2>2. Len(log') \in Nat
    BY <2>1, <1>2, MeasureTypes
  <2> QED BY <1>2, <2>1, <2>2, MeasureTypes, SameTypes, CheckTypes
<1>4. CASE NoReading(TRUE) /\ UNCHANGED <<prev, lastPct>>
  <2>1. TRUE \in BOOLEAN /\ samples' = samples
    BY <1>2
  <2>2. /\ gate' \in [aboveSince : NoTime..now, firing : BOOLEAN]
        /\ alarm' \in BOOLEAN /\ read' \in BOOLEAN
        /\ log' \in Seq(ReadingType) /\ Len(log) <= Len(log')
    BY <1>4, <2>1, NoReadingTypes
  <2>3. Len(log') \in Nat
    BY <2>2
  <2> QED BY <1>2, <1>4, <2>2, <2>3, SameTypes, CheckTypes
<1>5. CASE Drop
  <2>1. Totals(counters).whole \in Nat
    BY SameTypes
  <2>2. -1 \in -1..Totals(counters).whole
    BY <2>1
  <2> QED BY <1>2, <1>5, <2>2, DropTypes, SameTypes, CheckTypes
<1> QED BY <1>1, <1>3, <1>4, <1>5

LEMMA ThrottlePctType ==
    ASSUME TInv
    PROVE  ThrottlePct \in Int
<1> DEFINE s == Totals(counters)
           back == s.whole < prev.whole \/ s.part < prev.part
           dp == IF back THEN 0 ELSE s.whole - prev.whole
           dt == IF back THEN 0 ELSE s.part - prev.part
<1>1. s.whole \in Nat /\ s.part \in Nat /\ prev.whole \in Int /\ prev.part \in Int /\ lastPct \in Int
  BY SameTypes
<1>2. ThrottlePct = CASE dp > 0                                    -> percent(dt, dp)
                      [] dp = 0 /\ gate.firing /\ s.whole > 0      -> lastPct
                      [] dp = 0 /\ ~(gate.firing /\ s.whole > 0)   -> 0
  BY DEF ThrottlePct
<1> HIDE DEF s
<1>3. dp \in Nat /\ dt \in Int
  BY <1>1
<1> HIDE DEF back, dp, dt
<1>4. percent(dt, dp) \in Int
  BY <1>3, PercentType
<1>5. CASE dp > 0
  BY <1>2, <1>3, <1>4, <1>5
<1>6. CASE dp = 0
  <2>1. ~(dp > 0)
    BY <1>6
  <2> QED BY <1>1, <1>2, <1>6, <2>1
<1> QED BY <1>3, <1>5, <1>6

LEMMA ThrottleTypes ==
    ASSUME TInv, Frame, CheckThrottle
    PROVE  TInv'
<1>1. PICK s \in Statuses :
         IF ~collectStats(s) THEN Drop
         ELSE /\ prev' = Totals(counters)
              /\ IF prev = NoSample THEN NoReading(gate.firing) /\ UNCHANGED lastPct
                 ELSE Measure(ThrottlePct) /\ lastPct' = ThrottlePct
  BY DEF CheckThrottle
<1>2. /\ kind = "cpu_throttle" /\ UNCHANGED <<samples, downSince, image, pruned, counters>>
      /\ moved' = Still
  BY DEF CheckThrottle, images
<1>3. CASE Drop
  <2>1. Totals(counters).whole \in Nat
    BY SameTypes
  <2>2. -1 \in -1..Totals(counters).whole
    BY <2>1
  <2> QED BY <1>2, <1>3, <2>2, DropTypes, SameTypes, CheckTypes
<1>4. CASE prev' = Totals(counters) /\ NoReading(gate.firing) /\ UNCHANGED lastPct
  <2>1. gate.firing \in BOOLEAN /\ samples' = samples
    BY <1>2, SameTypes
  <2>2. /\ gate' \in [aboveSince : NoTime..now, firing : BOOLEAN]
        /\ alarm' \in BOOLEAN /\ read' \in BOOLEAN
        /\ log' \in Seq(ReadingType) /\ Len(log) <= Len(log')
    BY <1>4, <2>1, NoReadingTypes
  <2>3. Len(log') \in Nat
    BY <2>2
  <2> QED BY <1>2, <1>4, <2>2, <2>3, SameTypes, CheckTypes
<1>5. CASE prev' = Totals(counters) /\ Measure(ThrottlePct) /\ lastPct' = ThrottlePct
  <2>1. ThrottlePct \in Int /\ samples' = samples
    BY <1>2, ThrottlePctType
  <2>2. /\ gate' \in [aboveSince : NoTime..now, firing : BOOLEAN]
        /\ alarm' \in BOOLEAN /\ read' \in BOOLEAN
        /\ log' \in Seq(ReadingType) /\ Len(log) <= Len(log')
    BY <1>5, <2>1, MeasureTypes
  <2>3. Len(log') \in Nat
    BY <2>2
  <2> QED BY <1>2, <1>5, <2>1, <2>2, <2>3, SameTypes, CheckTypes
<1> QED BY <1>1, <1>3, <1>4, <1>5

LEMMA CPUTypes ==
    ASSUME TInv, Frame, CheckCPU
    PROVE  TInv'
<1>1. kind = "host_cpu" /\ UNCHANGED <<samples, downSince, image, pruned, counters>>
  BY DEF CheckCPU, images
<1>2. /\ Totals(counters).whole \in Nat /\ Totals(counters).part \in Nat
      /\ Totals(counters) \in [whole : Int, part : Int]
      /\ Totals(counters).whole \in -1..Totals(counters).whole
  BY SameTypes
<1>3. ASSUME NEW a \in BOOLEAN, NoReading(a), UNCHANGED lastPct,
             prev' \in {prev, Totals(counters)}, moved' \in {moved, Still}
      PROVE  TInv'
  <2>1. samples' = samples
    BY <1>1
  <2>2. /\ gate' \in [aboveSince : NoTime..now, firing : BOOLEAN]
        /\ alarm' \in BOOLEAN /\ read' \in BOOLEAN
        /\ log' \in Seq(ReadingType) /\ Len(log) <= Len(log')
    BY <1>3, <2>1, NoReadingTypes
  <2>3. Len(log') \in Nat
    BY <2>2
  <2> QED BY <1>1, <1>2, <1>3, <2>2, <2>3, SameTypes, CheckTypes, SMTT(30)
<1>4. CASE NoReading(FALSE) /\ UNCHANGED <<prev, lastPct, moved>>
  BY <1>3, <1>4
<1>5. CASE LET s   == Totals(counters)
               pct == percent(s.part - prev.part, s.whole - prev.whole)
           IN  /\ prev' = s /\ moved' = Still
               /\ IF prev.whole <= 0 \/ s.whole <= prev.whole \/ s.part < prev.part
                  THEN NoReading(gate.firing) /\ UNCHANGED lastPct
                  ELSE Measure(pct) /\ lastPct' = pct
  <2>1. PICK s : s = Totals(counters)
    OBVIOUS
  <2>2. PICK pct : pct = percent(s.part - prev.part, s.whole - prev.whole)
    OBVIOUS
  <2>3. prev' = s /\ moved' = Still
    BY <1>5, <2>1
  <2>4. CASE prev.whole <= 0 \/ s.whole <= prev.whole \/ s.part < prev.part
    <3>1. NoReading(gate.firing) /\ UNCHANGED lastPct
      BY <1>5, <2>1, <2>4
    <3>2. gate.firing \in BOOLEAN
      BY SameTypes
    <3> QED BY <1>3, <2>1, <2>3, <3>1, <3>2
  <2>5. CASE ~(prev.whole <= 0 \/ s.whole <= prev.whole \/ s.part < prev.part)
    <3>1. Measure(pct) /\ lastPct' = pct
      BY <1>5, <2>1, <2>2, <2>5
    <3>2. prev.whole \in Int /\ prev.part \in Int
      BY SameTypes
    <3>3. s.part - prev.part \in Int /\ s.whole - prev.whole \in Int /\ s.whole - prev.whole >= 0
      BY <1>2, <2>1, <2>5, <3>2
    <3>4. pct \in Int
      BY <2>2, <3>3, PercentType
    <3>5. /\ gate' \in [aboveSince : NoTime..now, firing : BOOLEAN]
          /\ alarm' \in BOOLEAN /\ read' \in BOOLEAN
          /\ log' \in Seq(ReadingType) /\ Len(log) <= Len(log')
      BY <1>1, <3>1, <3>4, MeasureTypes
    <3>6. Len(log') \in Nat
      BY <3>5
    <3> QED BY <1>1, <1>2, <2>1, <2>3, <3>1, <3>4, <3>5, <3>6, SameTypes, CheckTypes
  <2> QED BY <2>4, <2>5
<1> QED BY <1>4, <1>5 DEF CheckCPU

LEMMA HostCases ==
    ASSUME CheckHost
    PROVE  /\ kind \in HostGates
           /\ (\E v \in Int : Measure(v)) \/ NoReading(FALSE)
           /\ UNCHANGED <<prev, lastPct, samples, downSince, image, pruned, counters, moved>>
<1>1. UNCHANGED <<prev, lastPct, samples, downSince, image, pruned, counters, moved>>
  BY DEF CheckHost, images
<1>2. CASE CheckDisk
  <2>1. kind \in HostGates
    BY <1>2 DEF CheckDisk, HostGates
  <2>2. NoReading(FALSE) \/ \E space \in Levels, inodes \in Levels \cup {0} :
                               Measure(IF space > inodes THEN space ELSE inodes)
    BY <1>2 DEF CheckDisk
  <2>3. ASSUME NEW space \in Levels, NEW inodes \in Levels \cup {0}
        PROVE  (IF space > inodes THEN space ELSE inodes) \in Int
    BY Settings
  <2> QED BY <1>1, <2>1, <2>2, <2>3
<1>3. CASE CheckHostMemory
  <2>1. kind \in HostGates
    BY <1>3 DEF CheckHostMemory, HostGates
  <2>2. PICK f \in Meminfo :
          IF readMeminfo(f) THEN Measure(percent(f.total - f.avail, f.total)) ELSE NoReading(FALSE)
    BY <1>3 DEF CheckHostMemory
  <2>3. f.total \in {0, 100} /\ f.avail \in Int
    BY Settings DEF Meminfo
  <2>4. percent(f.total - f.avail, f.total) \in Int
    BY <2>3, PercentType
  <2> QED BY <1>1, <2>1, <2>2, <2>4
<1>4. CASE CheckPressure
  <2>1. kind \in HostGates
    BY <1>4 DEF CheckPressure, HostGates
  <2>2. PICK avgs \in readPressure :
          IF "full" \in DOMAIN avgs THEN Measure(avgs["full"]) ELSE NoReading(FALSE)
    BY <1>4 DEF CheckPressure
  <2>3. ASSUME "full" \in DOMAIN avgs PROVE avgs["full"] \in Int
    <3>1. PICK lines \in SUBSET {"some", "full"} : avgs \in [lines -> Levels]
      <4>1. readPressure = UNION {[lines -> Levels] : lines \in SUBSET {"some", "full"}}
        BY DEF readPressure
      <4>2. PICK F : F \in {[lines -> Levels] : lines \in SUBSET {"some", "full"}} /\ avgs \in F
        BY <4>1, Zenon
      <4> QED BY <4>2
    <3>2. avgs["full"] \in Levels
      BY <2>3, <3>1
    <3>3. \A x \in Levels : x \in Int
      BY Settings
    <3> QED BY <3>2, <3>3, Zenon
  <2> QED BY <1>1, <2>1, <2>2, <2>3
<1> QED BY <1>2, <1>3, <1>4 DEF CheckHost

LEMMA HostTypes ==
    ASSUME TInv, Frame, CheckHost
    PROVE  TInv'
<1>1. /\ kind \in HostGates
      /\ (\E v \in Int : Measure(v)) \/ NoReading(FALSE)
      /\ UNCHANGED <<prev, lastPct, samples, downSince, image, pruned, counters, moved>>
  BY HostCases
<1>2. FALSE \in BOOLEAN /\ samples' = samples
  BY <1>1
<1>3. /\ gate' \in [aboveSince : NoTime..now, firing : BOOLEAN]
      /\ alarm' \in BOOLEAN /\ read' \in BOOLEAN
      /\ log' \in Seq(ReadingType) /\ Len(log) <= Len(log')
  BY <1>1, <1>2, NoReadingTypes, MeasureTypes
<1>4. Len(log') \in Nat
  BY <1>3
<1> QED BY <1>1, <1>3, <1>4, SameTypes, CheckTypes

LEMMA ForecastGate ==
    ASSUME TInv, NEW s, forecast(s)
    PROVE  gate' \in [aboveSince : NoTime..now, firing : BOOLEAN] /\ alarm' \in BOOLEAN
<1>1. PICK f \in BOOLEAN : f = FullWithin(s, Limit)
  BY Zenon DEF FullWithin
<1>2. alarm' \in BOOLEAN
  BY Zenon DEF forecast
<1>3. RestoreGate(f) \in [aboveSince : NoTime..now, firing : BOOLEAN]
  BY NewGateType DEF TInv
<1> QED BY <1>1, <1>2, <1>3 DEF forecast, TInv, Detector

LEMMA ForecastTypes ==
    ASSUME TInv, Frame, CheckForecast
    PROVE  TInv'
<1>1. /\ kind = "host_disk_forecast"
      /\ UNCHANGED <<prev, lastPct, downSince, image, pruned, counters, moved>>
  BY DEF CheckForecast, images
<1>2. CASE /\ IF gate.firing THEN forecast(samples) ELSE alarm' = FALSE /\ UNCHANGED gate
           /\ read' = FALSE /\ UNCHANGED <<samples, log>>
  <2>1. gate' \in [aboveSince : NoTime..now, firing : BOOLEAN] /\ alarm' \in BOOLEAN
    BY <1>2, ForecastGate DEF TInv, Detector
  <2>2. log' \in Seq(ReadingType) /\ samples' \in Seq(ReadingType) /\ Len(samples') <= Len(log')
    BY <1>2 DEF TInv, Lists
  <2>3. read' \in BOOLEAN
    BY <1>2
  <2> QED BY <1>1, <2>1, <2>2, <2>3, SameTypes, CheckTypes
<1>3. CASE \E v \in Avails :
             /\ samples' = Since(Append(samples, Reading(v)), now - Window)
             /\ forecast(samples')
             /\ log' = Append(log, Reading(v)) /\ read' = TRUE
  <2>1. PICK v \in Int :
             /\ samples' = Since(Append(samples, Reading(v)), now - Window)
             /\ forecast(samples')
             /\ log' = Append(log, Reading(v)) /\ read' = TRUE
    BY <1>3, Settings
  <2>2. Reading(v) \in ReadingType
    BY NewReading DEF TInv
  <2>3. gate' \in [aboveSince : NoTime..now, firing : BOOLEAN] /\ alarm' \in BOOLEAN
    BY <2>1, ForecastGate
  <2>4. now - Window \in Int
    BY Settings DEF TInv, Basics
  <2>5. /\ samples \in Seq(ReadingType) /\ log \in Seq(ReadingType)
        /\ Len(samples) \in Nat /\ Len(log) \in Nat /\ Len(samples) <= Len(log)
    BY DEF TInv, Lists
  <2>6. PICK t \in Seq(ReadingType) : t = Append(samples, Reading(v)) /\ Len(t) = Len(samples) + 1
    BY <2>2, <2>5, LongerSeq
  <2>7. samples' \in Seq(ReadingType) /\ Len(samples') <= Len(t)
    BY <2>1, <2>4, <2>6, SinceType
  <2>8. log' \in Seq(ReadingType) /\ Len(log') = Len(log) + 1
    BY <2>1, <2>2, <2>5, LongerSeq
  <2>9. Len(samples') <= Len(log')
    <3>1. Len(samples') \in Nat
      BY <2>7
    <3> QED BY <2>5, <2>6, <2>7, <2>8, <3>1
  <2>10. read' \in BOOLEAN
    BY <2>1
  <2> QED BY <1>1, <2>3, <2>7, <2>8, <2>9, <2>10, SameTypes, CheckTypes
<1> QED BY <1>2, <1>3 DEF CheckForecast

LEMMA ExpectedTypes ==
    ASSUME TInv, Frame, CheckExpected
    PROVE  TInv'
<1>1. /\ kind = "expected"
      /\ UNCHANGED <<gate, prev, lastPct, samples, image, pruned, counters, moved>>
  BY DEF CheckExpected, images
<1>2. PICK down \in BOOLEAN :
         /\ downSince' = IF ~down THEN NoTime ELSE IF downSince = NoTime THEN now ELSE downSince
         /\ alarm' = (down /\ now - downSince' >= Grace)
         /\ log' = Append(log, Reading(IF down THEN 1 ELSE 0)) /\ read' = TRUE
  <2>1. PICK wanted \in BOOLEAN, status \in {"running", "restarting", "exited", "missing"} :
           LET down == wanted /\ Down(status) IN
           /\ downSince' = IF ~down THEN NoTime ELSE IF downSince = NoTime THEN now ELSE downSince
           /\ alarm' = (down /\ now - downSince' >= Grace)
           /\ log' = Append(log, Reading(IF down THEN 1 ELSE 0)) /\ read' = TRUE
    BY DEF CheckExpected
  <2>2. PICK down \in BOOLEAN : down = (wanted /\ Down(status))
    BY Zenon
  <2> QED BY <2>1, <2>2
<1>3. downSince' \in NoTime..now
  BY <1>2, NewGateType, SameTypes
<1>4. alarm' \in BOOLEAN
  BY <1>2, Zenon
<1>5. (IF down THEN 1 ELSE 0) \in Int
  OBVIOUS
<1>6. Reading(IF down THEN 1 ELSE 0) \in ReadingType
  BY <1>5, NewReading DEF TInv
<1>7. log \in Seq(ReadingType) /\ Len(log) \in Nat
  BY DEF TInv, Lists
<1>8. log' \in Seq(ReadingType) /\ Len(log') = Len(log) + 1
  BY <1>2, <1>6, <1>7, LongerSeq
<1>9. gate' \in [aboveSince : NoTime..now, firing : BOOLEAN] /\ read' \in BOOLEAN
  BY <1>1, <1>2 DEF TInv, Detector
<1>10. Len(samples) <= Len(log') /\ samples' = samples
  BY <1>1, <1>7, <1>8, SameTypes
<1> QED BY <1>1, <1>3, <1>4, <1>8, <1>9, <1>10, SameTypes, CheckTypes

LEMMA DayType ==
    ASSUME NEW n \in Nat
    PROVE  day(n) \in Nat /\ day(n) <= n /\ n - day(n) < Day
<1>1. n % Day \in 0..Day - 1 /\ n % Day <= n
  BY Settings
<1>2. day(n) = n - (n % Day)
  BY DEF day
<1> QED BY <1>1, <1>2, Settings

LEMMA NoImageType == NoImage \in ImageType /\ NoImage.id = 0
BY DEF NoImage, ImageType, NoTime

LEMMA NoteType ==
    ASSUME TInv
    PROVE  noteImage \in ImageType /\ noteImage.id \in {place.image, image.id} /\ Changed \in Nat
           /\ noteImage.lastSeen = day(now)
<1>1. now \in Nat /\ place.image \in Nat /\ place.created \in Nat /\ image \in ImageType
  BY Settings DEF TInv, Basics, World
<1>2. day(now) \in Int
  BY <1>1, DayType
<1>3. Changed \in Nat
  BY <1>1 DEF Changed
<1>4. CASE image = NoImage
  <2>1. noteImage = [NoImage EXCEPT !.id = place.image, !.since = now, !.lastSeen = day(now)]
    BY <1>4 DEF noteImage
  <2>2. noteImage = [id |-> place.image, since |-> now, lastSeen |-> day(now), prev |-> 0,
                     changedAt |-> NoTime]
    BY <2>1 DEF NoImage
  <2>3. NoTime \in Int
    BY DEF NoTime
  <2> QED BY <1>1, <1>2, <1>3, <2>2, <2>3 DEF ImageType
<1>5. CASE image # NoImage /\ image.id # place.image
  <2>1. noteImage = [id |-> place.image, since |-> Changed, lastSeen |-> day(now),
                     prev |-> image.id, changedAt |-> Changed]
    BY <1>5 DEF noteImage
  <2> QED BY <1>1, <1>2, <1>3, <2>1 DEF ImageType
<1>6. CASE image # NoImage /\ image.id = place.image
  <2>1. noteImage = [image EXCEPT !.lastSeen = day(now)]
    BY <1>6 DEF noteImage
  <2> QED BY <1>1, <1>2, <1>3, <2>1 DEF ImageType
<1> QED BY <1>4, <1>5, <1>6

LEMMA ImagesTypes ==
    ASSUME TInv, Frame, CheckImages
    PROVE  TInv'
<1>1. /\ kind = "images"
      /\ UNCHANGED <<gate, prev, lastPct, samples, downSince, alarm, counters, moved>>
  BY DEF CheckImages
<1>2. PICK img \in ImageType :
        /\ img = IF place.image = 0 THEN image ELSE noteImage
        /\ pruneImages(img)
  BY NoteType DEF CheckImages, TInv, World
<1>3. image' \in ImageType /\ pruned' \in Int
  <2>1. now \in Int /\ pruned \in Int
    BY Settings DEF TInv, World, Basics
  <2> QED BY <1>2, <2>1, NoImageType DEF pruneImages
<1>4. place.image \in Nat /\ log \in Seq(ReadingType)
  BY DEF TInv, World, Lists
<1>5. Reading(place.image) \in ReadingType
  BY <1>4, NewReading DEF TInv
<1>6. log' \in {Append(log, Reading(place.image)), <<>>, log}
  BY DEF CheckImages
<1>7. log' \in Seq(ReadingType)
  <2>1. <<>> \in Seq(ReadingType)
    OBVIOUS
  <2>2. Append(log, Reading(place.image)) \in Seq(ReadingType)
    BY <1>4, <1>5, LongerSeq
  <2> QED BY <1>4, <1>6, <2>1, <2>2, Zenon
<1>8. samples' = <<>> /\ <<>> \in Seq(ReadingType) /\ Len(<<>>) <= Len(log')
  BY <1>1, <1>7, SameTypes
<1>9. read' \in BOOLEAN
  BY Zenon DEF CheckImages
<1>10. gate' \in [aboveSince : NoTime..now, firing : BOOLEAN] /\ alarm' \in BOOLEAN
  BY <1>1 DEF TInv, Detector, Basics
<1> QED BY <1>1, <1>3, <1>7, <1>8, <1>9, <1>10, SameTypes, CheckTypes

LEMMA CheckKeepsTypes ==
    ASSUME TInv, Check
    PROVE  TInv'
<1>1. Frame
  BY DEF Check, Frame
<1> QED BY <1>1, MemoryTypes, ThrottleTypes, CPUTypes, HostTypes, ForecastTypes,
          ExpectedTypes, ImagesTypes DEF Check

LEMMA TickKeepsTypes ==
    ASSUME TInv, Tick
    PROVE  TInv'
<1>1. /\ now < MaxTime /\ now' = now + 1 /\ polled' = FALSE /\ Run /\ Deploy
      /\ UNCHANGED <<kind, config, up, faults, gate, prev, lastPct, samples, downSince,
                     image, pruned, alarm, saved, log, read>>
  BY DEF Tick, detector, images
<1>2. now \in Nat /\ MaxTime \in Nat /\ NoTime = -1
  BY Settings DEF TInv, Basics, NoTime
<1>3. Basics'
  <2>1. now' \in 0..MaxTime
    BY <1>1, <1>2
  <2> QED BY <1>1, <2>1 DEF TInv, Basics
<1>4. NoTime..now \subseteq NoTime..now'
  BY <1>1, <1>2
<1>5. Detector'
  BY <1>1, <1>4 DEF TInv, Detector
<1>6. Lists'
  BY <1>1 DEF TInv, Lists
<1>7. File'
  BY <1>1, <1>4 DEF TInv, File
<1>8. place' \in [image : Nat, created : Nat]
  <2>1. now + 1 \in Nat /\ now \in Nat /\ Images \subseteq Nat
    BY <1>2, Settings
  <2>2. CASE UNCHANGED place
    BY <2>2 DEF TInv, World
  <2>3. CASE place' = [image |-> 0, created |-> 0]
    BY <2>3
  <2>4. CASE place' \in [image : Images, created : {now, now + 1}]
    BY <2>1, <2>4
  <2> QED BY <1>1, <2>2, <2>3, <2>4 DEF Deploy
<1>9. /\ counters' \in [on : Nat, off : Nat] /\ moved' \in [on : Int, off : Int, reset : BOOLEAN]
      /\ prev.whole \in -1..Totals(counters').whole \/ kind = "cpu_throttle"
  <2>1. /\ counters \in [on : Nat, off : Nat] /\ moved \in [on : Int, off : Int, reset : BOOLEAN]
        /\ prev.whole \in -1..counters.on + counters.off \/ kind = "cpu_throttle"
    BY DEF TInv, World, Totals
  <2>2. ASSUME NEW on \in Int, NEW off \in Int, Advance(on, off), off >= 0, on + off >= 0,
               counters.on + on >= 0
        PROVE  /\ counters' \in [on : Nat, off : Nat]
               /\ moved' \in [on : Int, off : Int, reset : BOOLEAN]
               /\ prev.whole \in -1..Totals(counters').whole \/ kind = "cpu_throttle"
    <3>1. counters' = [on |-> counters.on + on, off |-> counters.off + off]
      BY <2>2 DEF Advance
    <3>2. counters' \in [on : Nat, off : Nat]
      BY <2>1, <2>2, <3>1
    <3>3. moved' \in [on : Int, off : Int, reset : BOOLEAN]
      <4>1. moved' = [moved EXCEPT !.on = @ + on, !.off = @ + off]
        BY <2>2 DEF Advance
      <4>2. moved' = [on |-> moved.on + on, off |-> moved.off + off, reset |-> moved.reset]
        BY <2>1, <4>1
      <4>3. moved.on + on \in Int /\ moved.off + off \in Int /\ moved.reset \in BOOLEAN
        BY <2>1, <2>2
      <4> QED BY <4>2, <4>3
    <3>4. Totals(counters').whole = counters.on + on + (counters.off + off)
      BY <3>1 DEF Totals
    <3>5. counters.on \in Nat /\ counters.off \in Nat
      BY <2>1
    <3>6. CASE prev.whole \in -1..counters.on + counters.off
      BY <2>2, <3>2, <3>3, <3>4, <3>5, <3>6
    <3> QED BY <2>1, <3>2, <3>3, <3>6
  <2>3. CASE \E step \in {<<0, 0>>, <<0, 2>>, <<1, 1>>, <<2, 0>>} : Advance(step[1], step[2])
    <3>1. PICK step \in {<<0, 0>>, <<0, 2>>, <<1, 1>>, <<2, 0>>} : Advance(step[1], step[2])
      BY <2>3
    <3>2. PICK on \in Int, off \in Int : on = step[1] /\ off = step[2] /\ on >= 0 /\ off >= 0
      OBVIOUS
    <3>3. counters.on + on >= 0
      BY <2>1, <3>2
    <3> QED BY <2>2, <3>1, <3>2, <3>3
  <2>4. CASE counters.on > 0 /\ Advance(-1, 2)
    <3>1. counters.on + (-1) >= 0 /\ -1 \in Int /\ 2 \in Int /\ 2 >= 0 /\ -1 + 2 >= 0
      BY <2>1, <2>4
    <3> QED BY <2>2, <2>4, <3>1
  <2>5. CASE RestartContainer
    <3>1. kind = "cpu_throttle" /\ moved' = [moved EXCEPT !.reset = TRUE]
          /\ \E n \in {0, 2} : counters' = [on |-> n, off |-> 0]
      BY <2>5 DEF RestartContainer
    <3>2. counters' \in [on : Nat, off : Nat]
      BY <3>1
    <3>3. moved' = [on |-> moved.on, off |-> moved.off, reset |-> TRUE]
      BY <2>1, <3>1
    <3>4. moved.on \in Int /\ moved.off \in Int
      BY <2>1
    <3> QED BY <3>1, <3>2, <3>3, <3>4
  <2>6. CASE UNCHANGED <<counters, moved>>
    BY <2>1, <2>6 DEF Totals
  <2> QED BY <1>1, <2>3, <2>4, <2>5, <2>6 DEF Run
<1>10. World'
  BY <1>1, <1>8, <1>9 DEF TInv, World
<1> QED BY <1>3, <1>5, <1>6, <1>7, <1>10 DEF TInv

LEMMA ForgetKeepsTypes ==
    ASSUME TInv, Forget
    PROVE  TInv'
<1>1. /\ kind \in {"memory", "cpu_throttle"} /\ Drop
      /\ UNCHANGED <<kind, place, config, now, polled, up, faults, samples, downSince,
                     image, pruned, counters, moved, saved>>
  BY DEF Forget, images
<1>2. Basics'
  BY <1>1 DEF TInv, Basics, Drop
<1>3. Detector'
  BY <1>1, NewGateType DEF TInv, Detector, Drop, NoSample
<1>4. Lists'
  <2>1. log' = <<>> /\ samples' = <<>>
    BY <1>1 DEF Drop, TInv, Lists
  <2> QED BY <2>1 DEF Lists
<1>5. World'
  <2>1. Totals(counters).whole \in Nat
    BY SameTypes
  <2>2. -1 \in -1..Totals(counters).whole
    BY <2>1
  <2> QED BY <1>1, <2>2 DEF TInv, World, Drop, NoSample, Totals
<1>6. File'
  BY <1>1 DEF TInv, File
<1> QED BY <1>2, <1>3, <1>4, <1>5, <1>6 DEF TInv

LEMMA FreshType == Fresh \in Memory /\ Fresh.samples = <<>> /\ Fresh.downSince = NoTime
<1>1. <<>> \in Seq(ReadingType) /\ NoTime \in Int
  BY DEF NoTime
<1> QED BY <1>1 DEF Fresh, Memory

LEMMA SaveStateType ==
    ASSUME TInv
    PROVE  /\ SaveState \in Memory
           /\ SaveState.downSince \in NoTime..now
           /\ Len(SaveState.samples) <= Len(log)
           /\ kind # "host_disk_forecast" => SaveState.samples = <<>>
<1>1. gate.firing \in BOOLEAN /\ lastPct \in Int /\ samples \in Seq(ReadingType)
      /\ downSince \in NoTime..now /\ downSince \in Int /\ Len(samples) <= Len(log)
      /\ Len(log) \in Nat /\ Len(<<>>) = 0 /\ NoTime \in NoTime..now
  BY SameTypes, NewGateType
<1>2. SaveGate \in Memory /\ SaveGate.samples = <<>> /\ SaveGate.downSince = NoTime
  BY <1>1, FreshType DEF SaveGate, Memory, Fresh
<1>3. [SaveGate EXCEPT !.lastPct = lastPct] \in Memory
      /\ [SaveGate EXCEPT !.lastPct = lastPct].samples = <<>>
      /\ [SaveGate EXCEPT !.lastPct = lastPct].downSince = NoTime
  BY <1>1, <1>2 DEF Memory
<1>4. CASE kind = "cpu_throttle"
  BY <1>1, <1>3, <1>4, FreshType DEF SaveState, SaveThrottle
<1>5. CASE kind = "host_cpu"
  <2>1. SaveState = [SaveGate EXCEPT !.lastPct = lastPct]
    BY <1>5 DEF SaveState, SaveCPU
  <2> QED BY <1>1, <1>3, <1>5, <2>1
<1>6. CASE kind = "host_disk_forecast"
  BY <1>1, <1>2, <1>6 DEF SaveState, SaveForecast, Memory
<1>7. CASE kind = "expected"
  <2>1. SaveState = [firing |-> FALSE, lastPct |-> 0, samples |-> <<>>, downSince |-> downSince]
    BY <1>7 DEF SaveState, SaveExpected, Fresh
  <2>2. <<>> \in Seq(ReadingType)
    OBVIOUS
  <2> QED BY <1>1, <2>1, <2>2 DEF Memory
<1>8. CASE kind \notin {"cpu_throttle", "host_cpu", "host_disk_forecast", "expected"}
  BY <1>1, <1>2, <1>8 DEF SaveState
<1> QED BY <1>4, <1>5, <1>6, <1>7, <1>8

LEMMA SavedIs ==
    /\ Saved.image = image /\ Saved.alarm = alarm /\ Saved.log = log
    /\ DOMAIN Saved.detectors = config
    /\ \A k \in config : Saved.detectors[k] = SaveState
BY DEF Saved, collectStateful

LEMMA SavedKeepsTypes ==
    ASSUME TInv, saved' = Saved, UNCHANGED <<kind, now>>
    PROVE  File'
<1>1. DOMAIN saved'.detectors = config /\ config \subseteq {kind}
      /\ (kind = "images" => kind \in config)
  BY SavedIs DEF TInv, Basics
<1>2. saved'.image = image /\ saved'.alarm = alarm /\ saved'.log = log
  BY SavedIs
<1>3. kind \in config => saved'.detectors[kind] = SaveState
  BY SavedIs
<1> QED BY <1>1, <1>2, <1>3, SaveStateType DEF File, TInv, Basics, World, Lists

LEMMA SaveKeepsTypes ==
    ASSUME TInv, Save
    PROVE  TInv'
<1>1. /\ saved' = Saved /\ faults' = [faults EXCEPT !.saves = @ + 1]
      /\ UNCHANGED <<kind, place, config, now, polled, up, gate, prev, lastPct, samples,
                     downSince, image, pruned, alarm, counters, moved, log, read>>
  BY DEF Save, detector, images
<1>2. File'
  BY <1>1, SavedKeepsTypes
<1>3. Basics'
  BY <1>1 DEF TInv, Basics
<1>4. Detector' /\ Lists' /\ World'
  BY <1>1 DEF TInv, Detector, Lists, World, Totals
<1> QED BY <1>2, <1>3, <1>4 DEF TInv

LEMMA CrashKeepsTypes ==
    ASSUME TInv, Crash
    PROVE  TInv'
<1>1. /\ up' = FALSE /\ faults.crashes < MaxCrashes
      /\ faults' = [faults EXCEPT !.crashes = @ + 1]
      /\ UNCHANGED <<kind, place, config, now, polled, gate, prev, lastPct, samples,
                     downSince, image, pruned, alarm, counters, moved, saved, log, read>>
  BY DEF Crash, detector, images
<1>2. Basics'
  <2>1. MaxCrashes \in Nat /\ faults \in [saves : Nat, crashes : 0..MaxCrashes]
    BY Settings DEF TInv, Basics
  <2>2. faults' = [saves |-> faults.saves, crashes |-> faults.crashes + 1]
    BY <1>1, <2>1
  <2>3. faults.saves \in Nat /\ faults.crashes + 1 \in 0..MaxCrashes
    BY <1>1, <2>1
  <2>4. faults' \in [saves : Nat, crashes : 0..MaxCrashes]
    BY <2>2, <2>3
  <2> QED BY <1>1, <2>4 DEF TInv, Basics
<1>3. Detector' /\ Lists' /\ World' /\ File'
  BY <1>1 DEF TInv, Detector, Lists, World, Totals, File
<1> QED BY <1>2, <1>3 DEF TInv

(* What a process starts with: what the file has, or nothing.              *)
LEMMA LoadStateIs ==
    ASSUME TInv, NEW d \in Memory, LoadState(d), d.downSince \in NoTime..now
    PROVE  /\ gate' \in {NewGate, RestoreGate(d.firing)}
           /\ lastPct' \in Int
           /\ samples' \in Seq(ReadingType) /\ Len(samples') <= Len(d.samples)
           /\ kind # "host_disk_forecast" => samples' = <<>>
           /\ downSince' \in {NoTime, d.downSince}
           /\ kind = "host_disk_forecast" => /\ gate' = RestoreGate(d.firing)
                                             /\ samples' = Since(d.samples, now - Window + 1)
           /\ kind = "expected" => gate' = NewGate /\ downSince' = d.downSince
           /\ kind \notin {"host_disk_forecast", "expected"} => gate' = RestoreGate(d.firing)
<1>1. d.samples \in Seq(ReadingType) /\ d.lastPct \in Int /\ Len(d.samples) \in Nat
  BY DEF Memory
<1>2. <<>> \in Seq(ReadingType) /\ Len(<<>>) = 0
  OBVIOUS
<1>3. now - Window + 1 \in Int
  BY Settings DEF TInv, Basics
<1>4. /\ Since(d.samples, now - Window + 1) \in Seq(ReadingType)
      /\ Len(Since(d.samples, now - Window + 1)) <= Len(d.samples)
  BY <1>1, <1>3, SinceType
<1>5. CASE kind \in {"cpu_throttle", "host_cpu"}
  <2>1. LoadThrottle(d)
    BY <1>5 DEF LoadState, LoadCPU
  <2>2. gate' = RestoreGate(d.firing) /\ lastPct' = d.lastPct /\ samples' = <<>> /\ downSince' = NoTime
    BY <2>1 DEF LoadThrottle
  <2>3. Len(samples') <= Len(d.samples)
    BY <1>1, <1>2, <2>2
  <2> QED BY <1>1, <1>2, <1>5, <2>2, <2>3
<1>6. CASE kind = "host_disk_forecast"
  BY <1>1, <1>4, <1>6 DEF LoadState, LoadForecast
<1>7. CASE kind = "expected"
  BY <1>1, <1>2, <1>7 DEF LoadState, LoadExpected
<1>8. CASE kind \notin {"cpu_throttle", "host_cpu", "host_disk_forecast", "expected"}
  <2>1. LoadGate(d)
    BY <1>8 DEF LoadState
  <2>2. gate' = RestoreGate(d.firing) /\ lastPct' = 0 /\ samples' = <<>> /\ downSince' = NoTime
    BY <2>1 DEF LoadGate
  <2>3. Len(samples') <= Len(d.samples)
    BY <1>1, <1>2, <2>2
  <2> QED BY <1>1, <1>2, <1>8, <2>2, <2>3
<1> QED BY <1>5, <1>6, <1>7, <1>8

(* A restart finds the state of the detector and its log, or starts anew.  *)
Loaded(d, l) ==
    \/ /\ kind \in config' /\ kind \in DOMAIN saved.detectors
       /\ d = saved.detectors[kind] /\ l = saved.log
    \/ /\ kind \notin config' \/ kind \notin DOMAIN saved.detectors
       /\ d = Fresh /\ l = <<>>

LEMMA RestartIs ==
    ASSUME TInv, Restart
    PROVE  \E d \in Memory, l \in Seq(ReadingType) :
             /\ Loaded(d, l) /\ LoadState(d) /\ log' = l
             /\ d.downSince \in NoTime..now /\ Len(d.samples) <= Len(l)
<1>1. CASE kind \in config' /\ kind \in DOMAIN saved.detectors
  <2>1. LoadState(saved.detectors[kind]) /\ log' = saved.log
    BY <1>1 DEF Restart, collectStateful
  <2> QED BY <1>1, <2>1 DEF Loaded, TInv, File
<1>2. CASE kind \notin config' \/ kind \notin DOMAIN saved.detectors
  <2>1. LoadState(Fresh) /\ log' = <<>>
    BY <1>2 DEF Restart, collectStateful
  <2>2. <<>> \in Seq(ReadingType) /\ Len(<<>>) <= Len(<<>>) /\ NoTime \in NoTime..now
    BY NewGateType DEF TInv
  <2> QED BY <1>2, <2>1, <2>2, FreshType DEF Loaded
<1> QED BY <1>1, <1>2

LEMMA RestartKeepsTypes ==
    ASSUME TInv, Restart
    PROVE  TInv'
<1>1. PICK d \in Memory, l \in Seq(ReadingType) :
        /\ Loaded(d, l) /\ LoadState(d) /\ log' = l
        /\ d.downSince \in NoTime..now /\ Len(d.samples) <= Len(l)
  BY RestartIs
<1>2. /\ up' = TRUE /\ config' \in {{}, {kind}} /\ (kind = "images" => config' = {kind})
      /\ alarm' = (saved.alarm /\ kind \in config')
      /\ image' = saved.image /\ pruned' = NoTime
      /\ prev' = NoSample /\ read' = FALSE /\ polled' = TRUE
      /\ UNCHANGED <<kind, place, now, faults, counters, moved, saved>>
  BY DEF Restart, RestoreEpisode, knownDetectors
<1>3. Basics'
  <2>1. alarm' \in BOOLEAN
    BY <1>2, Zenon
  <2> QED BY <1>2, <2>1 DEF TInv, Basics
<1>4. gate' \in {NewGate, RestoreGate(d.firing)} /\ lastPct' \in Int
      /\ downSince' \in {NoTime, d.downSince}
  BY <1>1, LoadStateIs
<1>5. Detector'
  <2>1. d.firing \in BOOLEAN
    BY DEF Memory
  <2>2. gate' \in [aboveSince : NoTime..now, firing : BOOLEAN]
    BY <1>4, <2>1, NewGateType DEF TInv
  <2>3. downSince' \in NoTime..now
    BY <1>1, <1>4, NewGateType DEF TInv
  <2>4. prev' \in [whole : Int, part : Int]
    BY <1>2 DEF NoSample
  <2> QED BY <1>2, <1>4, <2>2, <2>3, <2>4 DEF Detector
<1>6. Lists'
  <2>1. /\ samples' \in Seq(ReadingType) /\ Len(samples') <= Len(d.samples)
        /\ kind # "host_disk_forecast" => samples' = <<>>
    BY <1>1, LoadStateIs
  <2>2. Len(d.samples) \in Nat /\ Len(l) \in Nat /\ Len(samples') \in Nat
    BY <2>1 DEF Memory
  <2>3. Len(samples') <= Len(log')
    BY <1>1, <2>1, <2>2
  <2> QED BY <1>1, <1>2, <2>1, <2>3 DEF Lists
<1>7. World'
  <2>1. Totals(counters).whole \in Nat
    BY SameTypes
  <2>2. -1 \in -1..Totals(counters).whole
    BY <2>1
  <2>3. pruned' \in Int
    BY <1>2 DEF NoTime
  <2> QED BY <1>2, <2>2, <2>3 DEF TInv, World, NoSample, Totals, File
<1>8. File'
  BY <1>2 DEF TInv, File
<1> QED BY <1>3, <1>5, <1>6, <1>7, <1>8 DEF TInv

LEMMA InitTypes ==
    ASSUME Init
    PROVE  TInv
<1>1. /\ kind \in Kinds /\ config = {kind} /\ now = 0 /\ polled = FALSE /\ up = TRUE
      /\ faults = [saves |-> 0, crashes |-> 0]
      /\ gate = NewGate /\ prev = NoSample /\ lastPct = 0 /\ samples = <<>> /\ downSince = NoTime
      /\ image = NoImage /\ pruned = NoTime /\ place = [image |-> 0, created |-> 0]
      /\ alarm = FALSE /\ counters = Zero /\ moved = Still /\ log = <<>> /\ read = FALSE
      /\ saved = Saved
  BY DEF Init
<1>2. Basics
  <2>1. faults \in [saves : Nat, crashes : 0..MaxCrashes] /\ now \in 0..MaxTime
    BY <1>1, Settings
  <2> QED BY <1>1, <2>1 DEF Basics
<1>3. Detector
  BY <1>1, <1>2, NewGateType DEF Detector, NoSample
<1>4. Lists
  BY <1>1 DEF Lists
<1>5. World
  BY <1>1, NoImageType DEF World, NoTime, Zero, Still, NoSample, Totals
<1>6. SaveState \in Memory /\ SaveState.downSince = NoTime /\ SaveState.samples = <<>>
  <2>1. SaveGate = [firing |-> FALSE, lastPct |-> 0, samples |-> <<>>, downSince |-> NoTime]
    <3>1. SaveGate = [Fresh EXCEPT !.firing = FALSE]
      BY <1>1 DEF SaveGate, NewGate
    <3> QED BY <3>1 DEF Fresh
  <2>2. SaveState = Fresh
    BY <1>1, <2>1 DEF SaveState, SaveThrottle, SaveCPU, SaveForecast, SaveExpected, Fresh, NewGate
  <2> QED BY <2>2, FreshType
<1>7. File
  <2>1. NoTime \in NoTime..now
    BY <1>2, NewGateType
  <2>2. /\ saved.image = image /\ saved.alarm = alarm /\ saved.log = log
        /\ DOMAIN saved.detectors = {kind} /\ saved.detectors[kind] = SaveState
    BY <1>1, SavedIs
  <2> QED BY <1>1, <1>2, <1>4, <1>5, <1>6, <2>1, <2>2 DEF File, Basics, Lists, World
<1> QED BY <1>2, <1>3, <1>4, <1>5, <1>7 DEF TInv

LEMMA NextTypes ==
    ASSUME TInv, [Next]_vars
    PROVE  TInv'
<1>1. CASE UNCHANGED vars
  BY <1>1 DEF vars, detector, images, TInv, Basics, Detector, Lists, World, File, Totals
<1> QED BY <1>1, CheckKeepsTypes, TickKeepsTypes, ForgetKeepsTypes, SaveKeepsTypes,
          CrashKeepsTypes, RestartKeepsTypes DEF Next

-----------------------------------------------------------------------------
(* A gate and the readings that went through it.                           *)
GOpens(l, j) ==
    \E i \in 1..j : /\ \A k \in i..j : l[k].v >= Threshold /\ l[k].run = l[j].run
                    /\ l[j].at - l[i].at >= Sustain

GCloses(l, j) == IF Threshold < 10 THEN 2 * l[j].v < Threshold ELSE l[j].v < Threshold - 5

GEarned(l) == \E j \in 1..Len(l) : GOpens(l, j) /\ \A k \in j + 1..Len(l) : ~GCloses(l, k)

(* From reading i on, all of them in run c and at the threshold.           *)
Above(l, i, c) == \A k \in i..Len(l) : l[k].v >= Threshold /\ l[k].run = c

Follows(g, l, c) ==
    /\ g.firing => GEarned(l)
    /\ GEarned(l) => g.firing
    /\ ~g.firing =>
         /\ g.aboveSince # NoTime => \E i \in 1..Len(l) : l[i].at = g.aboveSince /\ Above(l, i, c)
         /\ \A i \in 1..Len(l) :
              Above(l, i, c) => g.aboveSince # NoTime /\ g.aboveSince <= l[i].at

Past(l, t) == \A i \in 1..Len(l) : l[i].at <= t
Runs(l, c) == \A i \in 1..Len(l) : l[i].run <= c
Older(l, c) == \A i \in 1..Len(l) : l[i].run < c

LEMMA RearmsIsCloses ==
    ASSUME NEW l, NEW j, l[j].v \in Int
    PROVE  /\ Rearms(l[j].v) <=> GCloses(l, j)
           /\ GCloses(l, j) => l[j].v < Threshold
<1>1. Threshold \in Nat /\ Threshold > 0
  BY Settings
<1>2. CASE Threshold < 10
  <2>1. Rearms(l[j].v) <=> 2 * l[j].v < 2 * Threshold - Threshold
    BY <1>2 DEF Rearms
  <2>2. GCloses(l, j) <=> 2 * l[j].v < Threshold
    BY <1>2 DEF GCloses
  <2> QED BY <1>1, <2>1, <2>2
<1>3. CASE ~(Threshold < 10)
  <2>1. Rearms(l[j].v) <=> 2 * l[j].v < 2 * Threshold - 10
    BY <1>3 DEF Rearms
  <2>2. GCloses(l, j) <=> l[j].v < Threshold - 5
    BY <1>3 DEF GCloses
  <2> QED BY <1>1, <2>1, <2>2
<1> QED BY <1>2, <1>3

LEMMA OpensIsAbove ==
    ASSUME NEW l \in Seq(ReadingType), NEW j \in 1..Len(l), GOpens(l, j)
    PROVE  l[j].v >= Threshold
BY DEF GOpens

LEMMA NothingEarned == ~GEarned(<<>>)
BY DEF GEarned

LEMMA FollowsNew ==
    ASSUME NEW c
    PROVE  Follows(NewGate, <<>>, c)
<1>1. Len(<<>>) = 0 /\ 1..0 = {}
  OBVIOUS
<1> QED BY <1>1, NothingEarned DEF Follows, NewGate

(* After a restart no reading of this run has been taken yet.              *)
LEMMA FollowsRestored ==
    ASSUME NEW l \in Seq(ReadingType), NEW c \in Nat, Older(l, c), NEW f \in BOOLEAN,
           f => GEarned(l), GEarned(l) => f
    PROVE  Follows(RestoreGate(f), l, c)
<1>1. RestoreGate(f).firing = f /\ RestoreGate(f).aboveSince = NoTime
  BY DEF RestoreGate, NewGate
<1>2. ASSUME NEW i \in 1..Len(l), Above(l, i, c) PROVE FALSE
  <2>1. l[i].run = c /\ l[i].run < c
    BY <1>2 DEF Above, Older
  <2> QED BY <2>1
<1> QED BY <1>1, <1>2 DEF Follows

LEMMA OpensLonger ==
    ASSUME NEW l \in Seq(ReadingType), NEW r \in ReadingType
    PROVE  /\ \A j \in 1..Len(l) : GOpens(Append(l, r), j) <=> GOpens(l, j)
           /\ \A j \in 1..Len(l) : GCloses(Append(l, r), j) <=> GCloses(l, j)
<1>1. PICK m : m = Append(l, r)
  OBVIOUS
<1>2. Len(l) \in Nat /\ \A i \in 1..Len(l) : m[i] = l[i]
  BY <1>1
<1>3. ASSUME NEW j \in 1..Len(l) PROVE GCloses(m, j) <=> GCloses(l, j)
  BY <1>2, Zenon DEF GCloses
<1>4. ASSUME NEW j \in 1..Len(l) PROVE GOpens(m, j) <=> GOpens(l, j)
  <2>1. \A i \in 1..j : i \in 1..Len(l) /\ i..j \subseteq 1..Len(l)
    BY <1>2
  <2> QED BY <1>2, <2>1 DEF GOpens
<1> QED BY <1>1, <1>3, <1>4

(* Earned by a longer log.                                                 *)
LEMMA EarnedLonger ==
    ASSUME NEW l \in Seq(ReadingType), NEW r \in ReadingType
    PROVE  LET m == Append(l, r)  n == Len(l) + 1 IN
           GEarned(m) <=> GOpens(m, n) \/ (GEarned(l) /\ ~GCloses(m, n))
<1>1. PICK m \in Seq(ReadingType) : m = Append(l, r) /\ Len(m) = Len(l) + 1
  BY LongerSeq
<1>2. PICK n \in Nat : n = Len(l) + 1
  OBVIOUS
<1>3. /\ \A j \in 1..Len(l) : GOpens(m, j) <=> GOpens(l, j)
      /\ \A j \in 1..Len(l) : GCloses(m, j) <=> GCloses(l, j)
  BY <1>1, OpensLonger
<1>4. ASSUME GOpens(m, n) PROVE GEarned(m)
  <2>1. n \in 1..Len(m) /\ n + 1..Len(m) = {}
    BY <1>1, <1>2
  <2> QED BY <1>4, <2>1 DEF GEarned
<1>5. ASSUME GEarned(l), ~GCloses(m, n) PROVE GEarned(m)
  <2>1. PICK j \in 1..Len(l) : GOpens(l, j) /\ \A k \in j + 1..Len(l) : ~GCloses(l, k)
    BY <1>5 DEF GEarned
  <2>2. j \in 1..Len(m) /\ GOpens(m, j)
    BY <1>1, <1>3, <2>1
  <2>3. ASSUME NEW k \in j + 1..Len(m) PROVE ~GCloses(m, k)
    <3>1. CASE k = n
      BY <1>5, <3>1
    <3>2. CASE k # n
      <4>1. k \in j + 1..Len(l) /\ k \in 1..Len(l)
        BY <1>1, <1>2, <3>2
      <4> QED BY <1>3, <2>1, <4>1
    <3> QED BY <3>1, <3>2
  <2> QED BY <2>2, <2>3 DEF GEarned
<1>6. ASSUME GEarned(m), ~GOpens(m, n) PROVE GEarned(l) /\ ~GCloses(m, n)
  <2>1. PICK j \in 1..Len(m) : GOpens(m, j) /\ \A k \in j + 1..Len(m) : ~GCloses(m, k)
    BY <1>6 DEF GEarned
  <2>2. j # n
    BY <1>6, <2>1
  <2>3. j \in 1..Len(l) /\ n \in j + 1..Len(m) /\ j + 1..Len(l) \subseteq j + 1..Len(m)
        /\ j + 1..Len(l) \subseteq 1..Len(l)
    BY <1>1, <1>2, <2>2
  <2> QED BY <1>3, <2>1, <2>3 DEF GEarned
<1> QED BY <1>1, <1>2, <1>4, <1>5, <1>6

LEMMA GateStep ==
    ASSUME NEW t \in Nat, NEW g \in [aboveSince : NoTime..t, firing : BOOLEAN],
           NEW l \in Seq(ReadingType), NEW c, Follows(g, l, c), Past(l, t),
           NEW r \in ReadingType, r.at = t, r.run = c
    PROVE  Follows(Update(g, t, r.v), Append(l, r), c)
<1>1. PICK m \in Seq(ReadingType) :
        /\ m = Append(l, r) /\ Len(m) = Len(l) + 1 /\ m[Len(l) + 1] = r
        /\ \A i \in 1..Len(l) : m[i] = l[i]
  <2>1. /\ Append(l, r) \in Seq(ReadingType) /\ Len(Append(l, r)) = Len(l) + 1
        /\ Append(l, r)[Len(l) + 1] = r
        /\ \A i \in 1..Len(l) : Append(l, r)[i] = l[i]
    BY LongerSeq
  <2> QED BY <2>1
<1>2. PICK n \in Nat : n = Len(l) + 1 /\ n = Len(m) /\ m[n] = r /\ n \in 1..Len(m)
  BY <1>1
<1>3. PICK u : u = Update(g, t, r.v)
  OBVIOUS
<1>4. GEarned(m) <=> GOpens(m, n) \/ (GEarned(l) /\ ~GCloses(m, n))
  BY <1>1, <1>2, EarnedLonger
<1>5. r.v \in Int /\ Threshold \in Nat /\ Sustain \in Nat /\ NoTime = -1
  BY Settings DEF ReadingType, NoTime
<1>6. /\ Rearms(r.v) <=> GCloses(m, n)
      /\ GCloses(m, n) => r.v < Threshold
  BY <1>2, <1>5, RearmsIsCloses
<1>7. GOpens(m, n) => r.v >= Threshold
  BY <1>2, OpensIsAbove
<1>8. g.aboveSince \in NoTime..t /\ g.aboveSince \in Int /\ g.firing \in BOOLEAN
  BY <1>5
<1>9. ASSUME NEW i \in 1..Len(m), Above(m, i, c)
      PROVE  r.v >= Threshold /\ (i = n \/ (i \in 1..Len(l) /\ Above(l, i, c)))
  <2>1. r.v >= Threshold
    BY <1>2, <1>9 DEF Above
  <2>2. CASE i # n
    <3>1. i \in 1..Len(l) /\ i..Len(l) \subseteq i..Len(m) /\ i..Len(l) \subseteq 1..Len(l)
      BY <1>1, <1>2, <2>2
    <3>2. Above(l, i, c)
      BY <1>1, <1>9, <3>1 DEF Above
    <3> QED BY <2>1, <3>1, <3>2
  <2> QED BY <2>1, <2>2
<1>10. ASSUME ~(r.v >= Threshold), ~GEarned(m) PROVE Follows(NewGate, m, c)
  <2>1. ~NewGate.firing /\ NewGate.aboveSince = NoTime
    BY DEF NewGate
  <2> QED BY <1>9, <1>10, <2>1 DEF Follows
<1>11. CASE g.firing
  <2>1. CASE Rearms(r.v)
    <3>1. u = NewGate
      BY <1>3, <1>11, <2>1 DEF Update
    <3>2. ~(r.v >= Threshold) /\ ~GEarned(m)
      BY <1>4, <1>5, <1>6, <1>7, <2>1
    <3> QED BY <1>1, <1>3, <1>10, <3>1, <3>2
  <2>2. CASE ~Rearms(r.v)
    <3>1. u = g
      BY <1>3, <1>11, <2>2 DEF Update
    <3>2. GEarned(m)
      BY <1>4, <1>6, <1>11, <2>2 DEF Follows
    <3> QED BY <1>1, <1>3, <1>11, <3>1, <3>2 DEF Follows
  <2> QED BY <2>1, <2>2
<1>12. CASE ~g.firing /\ r.v < Threshold
  <2>1. u = NewGate
    BY <1>3, <1>12 DEF Update
  <2>2. ~GEarned(l)
    BY <1>12 DEF Follows
  <2>3. ~(r.v >= Threshold) /\ ~GEarned(m)
    BY <1>4, <1>5, <1>7, <1>12, <2>2
  <2> QED BY <1>1, <1>3, <1>10, <2>1, <2>3
<1>13. CASE ~g.firing /\ ~(r.v < Threshold)
  <2>1. PICK o : o = Opening(g, t)
    OBVIOUS
  <2>2. u = [aboveSince |-> o, firing |-> t - o >= Sustain]
    BY <1>3, <1>13, <2>1 DEF Update
  <2>3. ~GEarned(l)
    BY <1>13 DEF Follows
  <2>4. o \in NoTime..t /\ o # NoTime /\ o \in Int
    BY <1>5, <1>8, <2>1 DEF Opening
  <2>5. \E i \in 1..Len(m) : m[i].at = o /\ Above(m, i, c)
    <3>1. CASE g.aboveSince = NoTime
      <4>1. o = t
        BY <2>1, <3>1 DEF Opening
      <4>2. \A k \in n..Len(m) : k = n
        BY <1>2
      <4>3. Above(m, n, c)
        BY <1>2, <1>5, <1>13, <4>2 DEF Above
      <4> QED BY <1>2, <4>1, <4>3
    <3>2. CASE g.aboveSince # NoTime
      <4>1. o = g.aboveSince
        BY <2>1, <3>2 DEF Opening
      <4>2. PICK i \in 1..Len(l) : l[i].at = o /\ Above(l, i, c)
        BY <1>13, <3>2, <4>1 DEF Follows
      <4>3. i \in 1..Len(m) /\ m[i].at = o
        BY <1>1, <4>2
      <4>4. ASSUME NEW k \in i..Len(m) PROVE m[k].v >= Threshold /\ m[k].run = c
        <5>1. CASE k = n
          BY <1>2, <1>5, <1>13, <5>1
        <5>2. CASE k # n
          <6>1. k \in i..Len(l) /\ k \in 1..Len(l)
            BY <1>1, <1>2, <5>2
          <6> QED BY <1>1, <4>2, <6>1 DEF Above
        <5> QED BY <5>1, <5>2
      <4> QED BY <4>3, <4>4 DEF Above
    <3> QED BY <3>1, <3>2
  <2>6. ASSUME NEW i \in 1..Len(m), Above(m, i, c) PROVE o <= m[i].at
    <3>1. CASE i = n
      BY <1>2, <1>5, <2>4, <3>1
    <3>2. CASE i # n
      <4>1. i \in 1..Len(l) /\ Above(l, i, c)
        BY <1>9, <2>6, <3>2
      <4>2. g.aboveSince # NoTime /\ g.aboveSince <= l[i].at
        BY <1>13, <4>1 DEF Follows
      <4> QED BY <1>1, <2>1, <4>1, <4>2 DEF Opening
    <3> QED BY <3>1, <3>2
  <2>7. t - o >= Sustain => GOpens(m, n)
    <3> SUFFICES ASSUME t - o >= Sustain PROVE GOpens(m, n)
      OBVIOUS
    <3>1. PICK i \in 1..Len(m) : m[i].at = o /\ Above(m, i, c)
      BY <2>5
    <3>2. i \in 1..n /\ m[n].at - m[i].at >= Sustain
      BY <1>2, <3>1
    <3>3. \A k \in i..n : m[k].v >= Threshold /\ m[k].run = m[n].run
      BY <1>2, <3>1 DEF Above
    <3> QED BY <3>2, <3>3 DEF GOpens
  <2>8. GOpens(m, n) => t - o >= Sustain
    <3> SUFFICES ASSUME GOpens(m, n) PROVE t - o >= Sustain
      OBVIOUS
    <3>1. PICK i \in 1..n : /\ \A k \in i..n : m[k].v >= Threshold /\ m[k].run = m[n].run
                            /\ m[n].at - m[i].at >= Sustain
      BY DEF GOpens
    <3>2. i \in 1..Len(m) /\ Above(m, i, c)
      BY <1>2, <3>1 DEF Above
    <3>3. o <= m[i].at /\ m[i].at \in Int
      BY <2>6, <3>2, Readings
    <3> QED BY <1>2, <1>5, <2>4, <3>1, <3>3
  <2>9. (t - o >= Sustain) \in BOOLEAN
    BY <1>5, <2>4
  <2>10. u.firing = (t - o >= Sustain) /\ u.aboveSince = o
    BY <2>2
  <2>11. (u.firing => GEarned(m)) /\ (GEarned(m) => u.firing)
    BY <1>4, <2>3, <2>7, <2>8, <2>10
  <2>12. Follows(u, m, c)
    BY <2>4, <2>5, <2>6, <2>10, <2>11 DEF Follows
  <2> QED BY <1>1, <1>3, <2>12
<1> QED BY <1>5, <1>8, <1>11, <1>12, <1>13

-----------------------------------------------------------------------------
(* The readings are in the order of time, and of the runs of nodux.         *)
Ordered(l) == \A i, j \in 1..Len(l) : i < j => l[i].at < l[j].at

LogInv ==
    /\ Past(log, now) /\ Past(saved.log, now)
    /\ Ordered(log) /\ Ordered(saved.log)
    /\ Runs(log, faults.crashes) /\ Runs(saved.log, faults.crashes)
    /\ ~polled => \A i \in 1..Len(log) : log[i].at < now
    /\ ~up => Older(saved.log, faults.crashes)

LEMMA HostLog ==
    ASSUME TInv, CheckHost
    PROVE  log' = log \/ \E v \in Int : log' = Append(log, Reading(v))
<1>1. (\E v \in Int : Measure(v)) \/ NoReading(FALSE)
  BY HostCases
<1> QED BY <1>1 DEF Measure, NoReading

LEMMA CheckLog ==
    ASSUME TInv, Check
    PROVE  log' = log \/ log' = <<>> \/ \E v \in Int : log' = Append(log, Reading(v))
<1>1. CASE CheckMemory
  <2>1. PICK s \in Statuses :
         IF collectStats(s) THEN (\E v \in Levels : Measure(v)) /\ UNCHANGED <<prev, lastPct>>
         ELSE IF gate.firing /\ ~s.running THEN NoReading(TRUE) /\ UNCHANGED <<prev, lastPct>>
         ELSE Drop
    BY <1>1 DEF CheckMemory
  <2>2. \A v \in Levels : v \in Int
    BY Settings
  <2>3. (\E v \in Int : Measure(v)) \/ NoReading(TRUE) \/ Drop
    BY <2>1, <2>2, Zenon
  <2> QED BY <2>3 DEF Measure, NoReading, Drop
<1>2. CASE CheckThrottle
  <2>1. PICK s \in Statuses :
         IF ~collectStats(s) THEN Drop
         ELSE /\ prev' = Totals(counters)
              /\ IF prev = NoSample THEN NoReading(gate.firing) /\ UNCHANGED lastPct
                 ELSE Measure(ThrottlePct) /\ lastPct' = ThrottlePct
    BY <1>2 DEF CheckThrottle
  <2>2. (\E v \in Int : Measure(v)) \/ NoReading(gate.firing) \/ Drop
    BY <2>1, ThrottlePctType
  <2> QED BY <2>2 DEF Measure, NoReading, Drop
<1>3. CASE CheckCPU
  <2>1. (\E v \in Int : Measure(v)) \/ NoReading(gate.firing) \/ NoReading(FALSE)
    <3> DEFINE s == Totals(counters)
               pct == percent(s.part - prev.part, s.whole - prev.whole)
    <3>1. s.whole \in Int /\ s.part \in Int /\ prev.whole \in Int /\ prev.part \in Int
      BY SameTypes
    <3>2. \/ NoReading(FALSE)
          \/ IF prev.whole <= 0 \/ s.whole <= prev.whole \/ s.part < prev.part
             THEN NoReading(gate.firing) ELSE Measure(pct)
      BY <1>3 DEF CheckCPU
    <3>3. s.whole > prev.whole => pct \in Int
      <4>1. s.whole > prev.whole => s.whole - prev.whole \in Int /\ s.whole - prev.whole >= 0
        BY <3>1
      <4>2. s.part - prev.part \in Int
        BY <3>1
      <4> HIDE DEF s
      <4> QED BY <4>1, <4>2, PercentType
    <3>4. prev.whole <= 0 \/ s.whole <= prev.whole \/ s.part < prev.part \/ pct \in Int
      BY <3>1, <3>3
    <3> HIDE DEF s, pct
    <3>5. PICK p : p = pct
      OBVIOUS
    <3>6. NoReading(FALSE) \/ NoReading(gate.firing) \/ (p \in Int /\ Measure(p))
      BY <3>2, <3>4, <3>5, Zenon
    <3> QED BY <3>6
  <2> QED BY <2>1 DEF Measure, NoReading
<1>4. CASE CheckHost
  BY <1>4, HostLog
<1>5. CASE CheckForecast
  <2>1. log' = log \/ \E v \in Avails : log' = Append(log, Reading(v))
    BY <1>5 DEF CheckForecast
  <2> QED BY <2>1, Settings
<1>6. CASE CheckExpected
  <2>1. \E v \in {0, 1} : log' = Append(log, Reading(v))
    BY <1>6 DEF CheckExpected
  <2> QED BY <2>1
<1>7. CASE CheckImages
  <2>1. log' = log \/ log' = <<>> \/ log' = Append(log, Reading(place.image))
    BY <1>7 DEF CheckImages
  <2>2. place.image \in Int
    BY DEF TInv, World
  <2> QED BY <2>1, <2>2
<1> QED BY <1>1, <1>2, <1>3, <1>4, <1>5, <1>6, <1>7 DEF Check

LEMMA OneMore ==
    ASSUME TInv, NEW v \in Int
    PROVE  \E m \in Seq(ReadingType) :
             /\ m = Append(log, Reading(v)) /\ Len(m) = Len(log) + 1 /\ Len(log) \in Nat
             /\ m[Len(log) + 1] = Reading(v)
             /\ \A i \in 1..Len(log) : m[i] = log[i]
             /\ Reading(v) \in ReadingType /\ Reading(v).at = now /\ Reading(v).v = v
             /\ Reading(v).run = faults.crashes
<1>1. /\ Reading(v) \in ReadingType /\ Reading(v).at = now /\ Reading(v).v = v
      /\ Reading(v).run = faults.crashes
  BY NewReading DEF TInv
<1>2. log \in Seq(ReadingType)
  BY DEF TInv, Lists
<1>3. PICK m : m = Append(log, Reading(v))
  OBVIOUS
<1>4. /\ m \in Seq(ReadingType) /\ Len(m) = Len(log) + 1 /\ m[Len(log) + 1] = Reading(v)
      /\ \A i \in 1..Len(log) : m[i] = log[i]
  BY <1>1, <1>2, <1>3, LongerSeq
<1> QED BY <1>1, <1>2, <1>3, <1>4

LEMMA CheckKeepsLog ==
    ASSUME TInv, LogInv, Check
    PROVE  LogInv'
<1>1. /\ UNCHANGED <<kind, config, now, up, faults, saved>> /\ polled' = TRUE /\ ~polled /\ up
  BY DEF Check
<1>2. CASE log' = log
  BY <1>1, <1>2 DEF LogInv, Past, Ordered, Runs, Older
<1>3. CASE log' = <<>>
  <2>1. \A i \in 1..Len(log') : FALSE
    BY <1>3
  <2> QED BY <1>1, <2>1 DEF LogInv, Past, Ordered, Runs, Older
<1>4. CASE \E v \in Int : log' = Append(log, Reading(v))
  <2>1. PICK v \in Int : log' = Append(log, Reading(v))
    BY <1>4
  <2>2. PICK m \in Seq(ReadingType) :
             /\ m = Append(log, Reading(v)) /\ Len(m) = Len(log) + 1 /\ Len(log) \in Nat
             /\ m[Len(log) + 1] = Reading(v)
             /\ \A i \in 1..Len(log) : m[i] = log[i]
             /\ Reading(v) \in ReadingType /\ Reading(v).at = now /\ Reading(v).v = v
             /\ Reading(v).run = faults.crashes
    BY OneMore
  <2>3. now \in Nat /\ faults.crashes \in Nat /\ \A i \in 1..Len(log) : log[i].at \in Nat /\ log[i].run \in Nat
    BY Readings, Settings DEF TInv, Basics, Lists
  <2>4. \A i \in 1..Len(m) : i \in 1..Len(log) \/ (i = Len(log) + 1 /\ m[i] = Reading(v))
    BY <2>2
  <2>5. \A i \in 1..Len(log) : log[i].at < now /\ log[i].run <= faults.crashes
    BY <1>1 DEF LogInv, Runs
  <2>6. \A i \in 1..Len(m) : m[i].at <= now /\ m[i].run <= faults.crashes
    BY <2>2, <2>3, <2>4, <2>5
  <2>7. Ordered(m)
    <3> SUFFICES ASSUME NEW i \in 1..Len(m), NEW j \in 1..Len(m), i < j
                 PROVE  m[i].at < m[j].at
      BY DEF Ordered
    <3>1. i \in 1..Len(log)
      BY <2>2
    <3>2. CASE j \in 1..Len(log)
      BY <2>2, <3>1, <3>2 DEF LogInv, Ordered
    <3>3. CASE j \notin 1..Len(log)
      BY <2>2, <2>4, <2>5, <3>1, <3>3
    <3> QED BY <3>2, <3>3
  <2>8. log' = m
    BY <2>1, <2>2
  <2> QED BY <1>1, <2>6, <2>7, <2>8 DEF LogInv, Past, Runs
<1> QED BY <1>2, <1>3, <1>4, CheckLog

LEMMA NextKeepsLog ==
    ASSUME TInv, LogInv, [Next]_vars
    PROVE  LogInv'
<1>1. /\ now \in Nat /\ faults.crashes \in Nat
      /\ \A i \in 1..Len(log) : log[i].at \in Nat /\ log[i].run \in Nat
      /\ \A i \in 1..Len(saved.log) : saved.log[i].at \in Nat /\ saved.log[i].run \in Nat
  <2>1. log \in Seq(ReadingType) /\ saved.log \in Seq(ReadingType)
    BY DEF TInv, Lists, File
  <2> QED BY <2>1, Readings, Settings DEF TInv, Basics
<1>2. CASE UNCHANGED vars
  BY <1>2 DEF vars, LogInv, Past, Ordered, Runs, Older
<1>3. CASE Tick
  <2>1. UNCHANGED <<up, faults, saved, log>> /\ now' = now + 1
    BY <1>3 DEF Tick
  <2>2. Past(log, now)' /\ Past(saved.log, now)' /\ \A i \in 1..Len(log) : log[i].at < now'
    BY <1>1, <2>1, SMTT(30) DEF LogInv, Past
  <2> QED BY <2>1, <2>2 DEF LogInv, Ordered, Runs, Older
<1>4. CASE Forget
  <2>1. UNCHANGED <<now, polled, up, faults, saved>> /\ log' = <<>> /\ up
    BY <1>4 DEF Forget, Drop
  <2>2. \A i \in 1..Len(log') : FALSE
    BY <2>1
  <2> QED BY <2>1, <2>2 DEF LogInv, Past, Ordered, Runs, Older
<1>5. CASE Save
  <2>1. UNCHANGED <<now, polled, up, log>> /\ saved'.log = log /\ up /\ saved' = Saved
    BY <1>5, SavedIs DEF Save
  <2>2. faults'.crashes = faults.crashes
    BY <1>5 DEF Save, TInv, Basics
  <2> QED BY <2>1, <2>2 DEF LogInv, Past, Ordered, Runs, Older
<1>6. CASE Crash
  <2>1. UNCHANGED <<now, polled, log, saved>>
    BY <1>6 DEF Crash
  <2>2. faults'.crashes = faults.crashes + 1
    BY <1>6 DEF Crash, TInv, Basics
  <2>3. /\ \A i \in 1..Len(log) : log[i].run <= faults'.crashes
        /\ \A i \in 1..Len(saved.log) : saved.log[i].run < faults'.crashes
    <3>1. /\ \A i \in 1..Len(log) : log[i].run <= faults.crashes
          /\ \A i \in 1..Len(saved.log) : saved.log[i].run <= faults.crashes
      BY DEF LogInv, Runs
    <3> QED BY <1>1, <2>2, <3>1
  <2>4. /\ Runs(log', faults'.crashes) /\ Runs(saved'.log, faults'.crashes)
        /\ Older(saved'.log, faults'.crashes)
    BY <1>1, <2>1, <2>2, <2>3 DEF Runs, Older
  <2>5. /\ Past(log, now)' /\ Past(saved.log, now)' /\ Ordered(log)' /\ Ordered(saved.log)'
        /\ ~polled' => \A i \in 1..Len(log') : log'[i].at < now'
    BY <2>1 DEF LogInv, Past, Ordered
  <2>6. Runs(log, faults.crashes)' /\ Runs(saved.log, faults.crashes)' /\ Older(saved.log, faults.crashes)'
    BY <2>4 DEF Runs, Older
  <2> QED BY <2>5, <2>6 DEF LogInv
<1>7. CASE Restart
  <2>1. UNCHANGED <<now, faults, saved>> /\ up' = TRUE /\ polled' = TRUE
    BY <1>7 DEF Restart
  <2>2. log' = saved.log \/ log' = <<>>
    BY <1>7 DEF Restart
  <2>3. CASE log' = saved.log
    BY <2>1, <2>3 DEF LogInv, Past, Ordered, Runs
  <2>4. CASE log' = <<>>
    <3>1. \A i \in 1..Len(log') : FALSE
      BY <2>4
    <3> QED BY <2>1, <3>1 DEF LogInv, Past, Ordered, Runs
  <2> QED BY <2>2, <2>3, <2>4
<1> QED BY <1>2, <1>3, <1>4, <1>5, <1>6, <1>7, CheckKeepsLog DEF Next

LEMMA InitLog ==
    ASSUME Init
    PROVE  LogInv
<1>1. log = <<>> /\ saved.log = log /\ up
  BY SavedIs DEF Init
<1>2. \A i \in 1..Len(log) : FALSE
  BY <1>1
<1> QED BY <1>1, <1>2 DEF LogInv, Past, Ordered, Runs

-----------------------------------------------------------------------------
(* A detector that is off has no alarm; nor has the record of the images.  *)
OffInv ==
    /\ alarm => kind \in config
    /\ saved.alarm => kind \in DOMAIN saved.detectors
    /\ kind = "images" => ~alarm /\ ~saved.alarm

LEMMA NextKeepsOff ==
    ASSUME TInv, OffInv, [Next]_vars
    PROVE  OffInv'
<1>1. CASE UNCHANGED vars
  BY <1>1 DEF vars, OffInv
<1>2. CASE Tick
  BY <1>2 DEF Tick, OffInv
<1>3. CASE Check
  <2>1. UNCHANGED <<kind, config, saved>> /\ kind \in config
    BY <1>3 DEF Check
  <2>2. kind = "images" => alarm' = alarm
    BY <1>3 DEF Check, CheckMemory, CheckThrottle, CheckCPU, CheckHost, CheckDisk,
                CheckHostMemory, CheckPressure, CheckForecast, CheckExpected, CheckImages
  <2> QED BY <2>1, <2>2 DEF OffInv
<1>4. CASE Forget
  BY <1>4 DEF Forget, Drop, OffInv
<1>5. CASE Save
  <2>1. UNCHANGED <<kind, config, alarm>> /\ saved'.alarm = alarm /\ DOMAIN saved'.detectors = config
    BY <1>5, SavedIs DEF Save
  <2> QED BY <2>1 DEF OffInv
<1>6. CASE Crash
  BY <1>6 DEF Crash, OffInv
<1>7. CASE Restart
  <2>1. UNCHANGED <<kind, saved>> /\ alarm' = (saved.alarm /\ kind \in config')
    BY <1>7 DEF Restart, RestoreEpisode, knownDetectors
  <2> QED BY <2>1 DEF OffInv
<1> QED BY <1>1, <1>2, <1>3, <1>4, <1>5, <1>6, <1>7 DEF Next

LEMMA InitOff ==
    ASSUME Init
    PROVE  OffInv
BY SavedIs DEF Init, OffInv

-----------------------------------------------------------------------------
(* The detectors on a gate.                                                *)
GateKinds == {"memory", "cpu_throttle", "host_cpu"} \cup HostGates

GateUp ==
    /\ Follows(gate, log, faults.crashes)
    /\ alarm => gate.firing
    /\ read /\ gate.firing => alarm

GateFile ==
    /\ kind \in DOMAIN saved.detectors =>
         LET d == saved.detectors[kind] IN
         /\ d.firing => GEarned(saved.log)
         /\ GEarned(saved.log) => d.firing
         /\ saved.alarm => d.firing

GateInv == kind \in GateKinds => (up => GateUp) /\ GateFile

LEMMA GateCheck ==
    ASSUME TInv, Check, kind \in GateKinds
    PROVE  \/ \E v \in Int : Measure(v)
           \/ \E a \in {FALSE, gate.firing} : NoReading(a)
           \/ Drop
<1>1. CASE CheckMemory
  <2>1. PICK s \in Statuses :
         IF collectStats(s) THEN (\E v \in Levels : Measure(v)) /\ UNCHANGED <<prev, lastPct>>
         ELSE IF gate.firing /\ ~s.running THEN NoReading(TRUE) /\ UNCHANGED <<prev, lastPct>>
         ELSE Drop
    BY <1>1 DEF CheckMemory
  <2>2. \A v \in Levels : v \in Int
    BY Settings
  <2>3. (\E v \in Int : Measure(v)) \/ (gate.firing /\ NoReading(TRUE)) \/ Drop
    BY <2>1, <2>2, Zenon
  <2>4. gate.firing \in BOOLEAN
    BY SameTypes
  <2>5. gate.firing /\ NoReading(TRUE) => NoReading(gate.firing)
    BY <2>4 DEF NoReading
  <2> QED BY <2>3, <2>5
<1>2. CASE CheckThrottle
  <2>1. PICK s \in Statuses :
         IF ~collectStats(s) THEN Drop
         ELSE /\ prev' = Totals(counters)
              /\ IF prev = NoSample THEN NoReading(gate.firing) /\ UNCHANGED lastPct
                 ELSE Measure(ThrottlePct) /\ lastPct' = ThrottlePct
    BY <1>2 DEF CheckThrottle
  <2>2. (\E v \in Int : Measure(v)) \/ NoReading(gate.firing) \/ Drop
    BY <2>1, ThrottlePctType
  <2> QED BY <2>2
<1>3. CASE CheckCPU
  <2> DEFINE s == Totals(counters)
             pct == percent(s.part - prev.part, s.whole - prev.whole)
  <2>1. s.whole \in Int /\ s.part \in Int /\ prev.whole \in Int /\ prev.part \in Int
    BY SameTypes
  <2>2. \/ NoReading(FALSE)
        \/ IF prev.whole <= 0 \/ s.whole <= prev.whole \/ s.part < prev.part
           THEN NoReading(gate.firing) ELSE Measure(pct)
    BY <1>3 DEF CheckCPU
  <2>3. s.whole > prev.whole => pct \in Int
    <3>1. s.whole > prev.whole => s.whole - prev.whole \in Int /\ s.whole - prev.whole >= 0
      BY <2>1
    <3>2. s.part - prev.part \in Int
      BY <2>1
    <3> HIDE DEF s
    <3> QED BY <3>1, <3>2, PercentType
  <2>4. prev.whole <= 0 \/ s.whole <= prev.whole \/ s.part < prev.part \/ pct \in Int
    BY <2>1, <2>3
  <2> HIDE DEF s, pct
  <2>5. PICK p : p = pct
    OBVIOUS
  <2>6. NoReading(FALSE) \/ NoReading(gate.firing) \/ (p \in Int /\ Measure(p))
    BY <2>2, <2>4, <2>5, Zenon
  <2> QED BY <2>6
<1>4. CASE CheckHost
  BY <1>4, HostCases
<1>5. ~CheckForecast /\ ~CheckExpected /\ ~CheckImages
  BY DEF GateKinds, HostGates, CheckForecast, CheckExpected, CheckImages
<1> QED BY <1>1, <1>2, <1>3, <1>4, <1>5 DEF Check

LEMMA DropFollows ==
    ASSUME Drop, up' = up
    PROVE  GateUp'
<1>1. gate' = NewGate /\ alarm' = FALSE /\ log' = <<>> /\ read' = FALSE
  BY DEF Drop
<1>2. Follows(gate', log', faults'.crashes)
  BY <1>1, FollowsNew
<1> QED BY <1>1, <1>2 DEF GateUp

LEMMA CheckKeepsGate ==
    ASSUME TInv, LogInv, GateInv, Check
    PROVE  GateInv'
<1> SUFFICES ASSUME kind \in GateKinds PROVE GateInv'
  BY DEF GateInv, Check
<1>1. UNCHANGED <<kind, config, now, up, faults, saved>> /\ up
  BY DEF Check
<1>2. GateUp /\ GateFile /\ Follows(gate, log, faults.crashes)
  BY <1>1 DEF GateInv, GateUp
<1>3. ASSUME NEW v \in Int, Measure(v) PROVE GateUp'
  <2>1. /\ gate' = Update(gate, now, v) /\ alarm' = gate'.firing
        /\ log' = Append(log, Reading(v)) /\ read' = TRUE
    BY <1>3 DEF Measure
  <2>2. PICK r \in ReadingType : r = Reading(v) /\ r.at = now /\ r.v = v /\ r.run = faults.crashes
    BY NewReading DEF TInv
  <2>3. Past(log, now) /\ log \in Seq(ReadingType) /\ now \in Nat
        /\ gate \in [aboveSince : NoTime..now, firing : BOOLEAN]
    BY Settings DEF LogInv, TInv, Lists, Basics, Detector
  <2>4. Follows(Update(gate, now, r.v), Append(log, r), faults.crashes)
    BY <1>2, <2>2, <2>3, GateStep
  <2>5. Follows(gate', log', faults'.crashes)
    BY <1>1, <2>1, <2>2, <2>4
  <2> QED BY <2>1, <2>5 DEF GateUp
<1>4. ASSUME NEW a \in {FALSE, gate.firing}, NoReading(a) PROVE GateUp'
  <2>1. alarm' = a /\ read' = FALSE /\ UNCHANGED <<gate, log, faults>>
    BY <1>1, <1>4 DEF NoReading
  <2> QED BY <1>2, <2>1 DEF GateUp
<1>5. ASSUME Drop PROVE GateUp'
  BY <1>1, <1>5, DropFollows
<1>6. GateFile'
  BY <1>1, <1>2 DEF GateFile
<1>7. GateUp'
  BY <1>3, <1>4, <1>5, GateCheck
<1> QED BY <1>6, <1>7 DEF GateInv

LEMMA SavedFiring ==
    ASSUME TInv, kind # "expected"
    PROVE  SaveState.firing = gate.firing
<1>1. gate.firing \in BOOLEAN
  BY SameTypes
<1>2. SaveGate.firing = gate.firing
  BY DEF SaveGate, Fresh
<1>3. SaveThrottle.firing = gate.firing
  BY <1>1, <1>2 DEF SaveThrottle, SaveGate, Fresh
<1>4. SaveCPU.firing = gate.firing /\ SaveForecast.firing = gate.firing
  BY <1>2 DEF SaveCPU, SaveForecast, SaveGate, Fresh
<1> QED BY <1>2, <1>3, <1>4 DEF SaveState

LEMMA NextKeepsGate ==
    ASSUME TInv, LogInv, OffInv, GateInv, [Next]_vars
    PROVE  GateInv'
<1>1. CASE UNCHANGED vars
  BY <1>1 DEF vars, detector, GateInv, GateUp, GateFile
<1>2. CASE Tick
  BY <1>2 DEF Tick, detector, GateInv, GateUp, GateFile
<1>3. CASE Check
  BY <1>3, CheckKeepsGate
<1>4. CASE Forget
  <2>1. UNCHANGED <<kind, up, faults, saved>> /\ Drop
    BY <1>4 DEF Forget
  <2>2. GateUp'
    BY <2>1, DropFollows
  <2> QED BY <2>1, <2>2 DEF GateInv, GateFile
<1>5. CASE Save
  <2>1. UNCHANGED <<kind, up, gate, log, alarm, read>> /\ up /\ faults'.crashes = faults.crashes
    BY <1>5 DEF Save, detector, TInv, Basics
  <2>2. saved'.alarm = alarm /\ saved'.log = log /\ DOMAIN saved'.detectors = config
        /\ \A k \in config : saved'.detectors[k] = SaveState
    BY <1>5, SavedIs DEF Save
  <2>3. kind \in GateKinds => SaveState.firing = gate.firing
    BY SavedFiring DEF GateKinds, HostGates
  <2>4. CASE kind \in GateKinds
    <3>1. GateUp /\ Follows(gate, log, faults.crashes)
      BY <2>1, <2>4 DEF GateInv, GateUp
    <3>2. GateUp'
      BY <2>1, <3>1 DEF GateUp
    <3>3. (gate.firing => GEarned(log)) /\ (GEarned(log) => gate.firing) /\ (alarm => gate.firing)
      BY <3>1 DEF Follows, GateUp
    <3>4. kind \in config => saved'.detectors[kind].firing = gate.firing
      BY <2>2, <2>3, <2>4
    <3>5. GateFile'
      BY <2>1, <2>2, <3>3, <3>4 DEF GateFile
    <3> QED BY <3>2, <3>5 DEF GateInv
  <2> QED BY <2>1, <2>4 DEF GateInv
<1>6. CASE Crash
  BY <1>6 DEF Crash, GateInv, GateFile
<1>7. CASE Restart
  <2>1. PICK d \in Memory, l \in Seq(ReadingType) :
          /\ Loaded(d, l) /\ LoadState(d) /\ log' = l
          /\ d.downSince \in NoTime..now /\ Len(d.samples) <= Len(l)
    BY <1>7, RestartIs
  <2>2. UNCHANGED <<kind, faults, saved>> /\ ~up /\ read' = FALSE
        /\ alarm' = (saved.alarm /\ kind \in config')
    BY <1>7 DEF Restart, RestoreEpisode, knownDetectors
  <2>3. CASE kind \in GateKinds
    <3>1. gate' = RestoreGate(d.firing)
      BY <2>1, <2>3, LoadStateIs DEF GateKinds, HostGates
    <3>2. GateFile /\ Older(saved.log, faults.crashes) /\ faults.crashes \in Nat
      BY <2>2, <2>3, Settings DEF GateInv, LogInv, TInv, Basics
    <3>3. d.firing \in BOOLEAN
      BY DEF Memory
    <3>4. (d.firing => GEarned(l)) /\ (GEarned(l) => d.firing)
      BY <2>1, <3>2, NothingEarned DEF Loaded, GateFile, Fresh
    <3>5. Older(l, faults.crashes)
      BY <2>1, <3>2 DEF Loaded, Older
    <3>6. Follows(gate', log', faults'.crashes)
      BY <2>1, <2>2, <3>1, <3>2, <3>3, <3>4, <3>5, FollowsRestored
    <3>7. alarm' => d.firing
      <4> SUFFICES ASSUME alarm' PROVE d.firing
        OBVIOUS
      <4>1. saved.alarm /\ kind \in config' /\ kind \in DOMAIN saved.detectors
        BY <2>2 DEF OffInv
      <4> QED BY <2>1, <3>2, <4>1 DEF Loaded, GateFile
    <3>8. gate'.firing = d.firing
      BY <3>1 DEF RestoreGate, NewGate
    <3>9. GateUp'
      BY <2>2, <3>6, <3>7, <3>8 DEF GateUp
    <3> QED BY <2>2, <3>2, <3>9 DEF GateInv, GateFile
  <2> QED BY <2>2, <2>3 DEF GateInv
<1> QED BY <1>1, <1>2, <1>3, <1>4, <1>5, <1>6, <1>7 DEF Next

LEMMA InitGate ==
    ASSUME Init
    PROVE  GateInv
<1>1. gate = NewGate /\ log = <<>> /\ alarm = FALSE /\ read = FALSE /\ saved = Saved /\ TInv
  BY InitTypes DEF Init
<1>2. GateUp
  BY <1>1, FollowsNew DEF GateUp
<1>3. kind \in GateKinds => SaveState.firing = gate.firing
  BY <1>1, SavedFiring DEF GateKinds, HostGates
<1>4. saved.alarm = alarm /\ saved.log = log /\ DOMAIN saved.detectors = config
        /\ \A k \in config : saved.detectors[k] = SaveState
  BY <1>1, SavedIs
<1>5. gate.firing = FALSE
  BY <1>1 DEF NewGate
<1>6. kind \in GateKinds => GateFile
  BY <1>1, <1>3, <1>4, <1>5, NothingEarned DEF GateFile
<1> QED BY <1>2, <1>6 DEF GateInv

-----------------------------------------------------------------------------
(* The expected container: downSince is where the last run of ones began.  *)
DownFrom(l, i) == \A k \in i..Len(l) : l[k].v = 1

EOpens(l, j) ==
    \E i \in 1..j : (\A k \in i..j : l[k].v = 1) /\ l[j].at - l[i].at >= Grace

EEarned(l) == \E j \in 1..Len(l) : EOpens(l, j) /\ \A k \in j + 1..Len(l) : l[k].v # 0

DownFollows(d, l) ==
    /\ \A i \in 1..Len(l) : l[i].v \in {0, 1}
    /\ d # NoTime => \E i \in 1..Len(l) : l[i].at = d /\ DownFrom(l, i)
    /\ \A i \in 1..Len(l) : DownFrom(l, i) => d # NoTime /\ d <= l[i].at

ExpectedInv ==
    kind = "expected" =>
      /\ up => /\ DownFollows(downSince, log)
               /\ alarm => EEarned(log)
               /\ read /\ EEarned(log) => alarm
      /\ kind \in DOMAIN saved.detectors =>
           /\ DownFollows(saved.detectors[kind].downSince, saved.log)
           /\ saved.alarm => EEarned(saved.log)

LEMMA NothingDown == DownFollows(NoTime, <<>>) /\ ~EEarned(<<>>)
<1>1. \A i \in 1..Len(<<>>) : FALSE
  OBVIOUS
<1> QED BY <1>1 DEF DownFollows, EEarned

LEMMA DownIsEarned ==
    ASSUME NEW l \in Seq(ReadingType), NEW d \in Int, DownFollows(d, l), Ordered(l)
    PROVE  EEarned(l) <=> l # <<>> /\ d # NoTime /\ l[Len(l)].at - d >= Grace
<1>1. \A i \in 1..Len(l) : l[i].at \in Nat /\ l[i].v \in {0, 1}
  BY Readings DEF DownFollows
<1>2. Len(l) \in Nat /\ Grace \in Nat
  BY Settings
<1>3. ASSUME EEarned(l) PROVE l # <<>> /\ d # NoTime /\ l[Len(l)].at - d >= Grace
  <2>1. PICK j \in 1..Len(l) : EOpens(l, j) /\ \A k \in j + 1..Len(l) : l[k].v # 0
    BY <1>3 DEF EEarned
  <2>2. PICK i \in 1..j : (\A k \in i..j : l[k].v = 1) /\ l[j].at - l[i].at >= Grace
    BY <2>1 DEF EOpens
  <2>3. ASSUME NEW k \in i..Len(l) PROVE l[k].v = 1
    <3>1. CASE k <= j
      BY <2>2, <3>1
    <3>2. CASE k > j
      <4>1. k \in j + 1..Len(l) /\ k \in 1..Len(l)
        BY <1>2, <3>2
      <4> QED BY <1>1, <2>1, <4>1
    <3> QED BY <3>1, <3>2
  <2>4. i \in 1..Len(l) /\ DownFrom(l, i)
    BY <1>2, <2>3 DEF DownFrom
  <2>5. d # NoTime /\ d <= l[i].at
    BY <2>4 DEF DownFollows
  <2>6. l[j].at <= l[Len(l)].at
    <3>1. CASE j = Len(l)
      BY <1>1, <3>1
    <3>2. CASE j # Len(l)
      <4>1. j < Len(l) /\ Len(l) \in 1..Len(l)
        BY <1>2, <3>2
      <4>2. l[j].at < l[Len(l)].at
        BY <4>1 DEF Ordered
      <4> QED BY <1>1, <4>1, <4>2
    <3> QED BY <3>1, <3>2
  <2>7. l # <<>> /\ Len(l) \in 1..Len(l)
    BY <1>2, <2>4
  <2> QED BY <1>1, <1>2, <2>2, <2>4, <2>5, <2>6, <2>7
<1>4. ASSUME l # <<>>, d # NoTime, l[Len(l)].at - d >= Grace PROVE EEarned(l)
  <2>1. PICK i \in 1..Len(l) : l[i].at = d /\ DownFrom(l, i)
    BY <1>4 DEF DownFollows
  <2>2. Len(l) \in 1..Len(l) /\ i \in 1..Len(l) /\ Len(l) + 1..Len(l) = {}
    BY <1>2, <2>1
  <2>3. EOpens(l, Len(l))
    BY <1>4, <2>1, <2>2 DEF EOpens, DownFrom
  <2> QED BY <2>2, <2>3 DEF EEarned
<1> QED BY <1>3, <1>4

LEMMA DownStep ==
    ASSUME NEW t \in Nat, NEW l \in Seq(ReadingType), NEW d \in NoTime..t,
           DownFollows(d, l), Past(l, t), NEW down \in BOOLEAN,
           NEW r \in ReadingType, r.at = t, r.v = IF down THEN 1 ELSE 0,
           NEW e, e = IF ~down THEN NoTime ELSE IF d = NoTime THEN t ELSE d
    PROVE  DownFollows(e, Append(l, r))
<1>1. PICK m \in Seq(ReadingType) :
        /\ m = Append(l, r) /\ Len(m) = Len(l) + 1 /\ m[Len(l) + 1] = r
        /\ \A i \in 1..Len(l) : m[i] = l[i]
  <2>1. /\ Append(l, r) \in Seq(ReadingType) /\ Len(Append(l, r)) = Len(l) + 1
        /\ Append(l, r)[Len(l) + 1] = r
        /\ \A i \in 1..Len(l) : Append(l, r)[i] = l[i]
    BY LongerSeq
  <2> QED BY <2>1
<1>2. PICK n \in Nat : n = Len(l) + 1 /\ n = Len(m) /\ m[n] = r /\ n \in 1..Len(m)
  BY <1>1
<1>3. NoTime = -1 /\ d \in Int /\ Len(l) \in Nat
  BY DEF NoTime
<1>4. \A i \in 1..Len(m) : i # n => i \in 1..Len(l)
  BY <1>1, <1>2
<1>5. \A i \in 1..Len(m) : m[i].v \in {0, 1}
  BY <1>1, <1>2, <1>4 DEF DownFollows
<1>6. ASSUME NEW i \in 1..Len(m), DownFrom(m, i)
      PROVE  down /\ (i = n \/ (i \in 1..Len(l) /\ DownFrom(l, i)))
  <2>1. n \in i..Len(m)
    BY <1>2
  <2>2. m[n].v = 1
    BY <1>6, <2>1 DEF DownFrom
  <2>3. down
    BY <1>2, <2>2
  <2>4. CASE i # n
    <3>1. i \in 1..Len(l)
      BY <1>4, <2>4
    <3>2. \A k \in i..Len(l) : k \in i..Len(m) /\ k \in 1..Len(l)
      BY <1>1, <3>1
    <3> QED BY <1>1, <1>6, <2>3, <3>1, <3>2 DEF DownFrom
  <2> QED BY <2>3, <2>4
<1>7. CASE ~down
  <2>1. e = NoTime
    BY <1>7
  <2>2. \A i \in 1..Len(m) : ~DownFrom(m, i)
    BY <1>6, <1>7
  <2>3. DownFollows(e, m)
    BY <1>5, <2>1, <2>2 DEF DownFollows
  <2> QED BY <1>1, <2>3
<1>8. CASE down /\ d = NoTime
  <2>1. e = t
    BY <1>8
  <2>2. \A i \in 1..Len(l) : ~DownFrom(l, i)
    BY <1>8 DEF DownFollows
  <2>3. DownFrom(m, n)
    BY <1>2, <1>8 DEF DownFrom
  <2>4. \A i \in 1..Len(m) : DownFrom(m, i) => i = n
    BY <1>6, <2>2
  <2>5. m[n].at = t /\ t # NoTime /\ t <= t
    BY <1>2, <1>3
  <2>6. DownFollows(e, m)
    BY <1>2, <1>5, <2>1, <2>3, <2>4, <2>5 DEF DownFollows
  <2> QED BY <1>1, <2>6
<1>9. CASE down /\ d # NoTime
  <2>1. e = d
    BY <1>9
  <2>2. PICK i \in 1..Len(l) : l[i].at = d /\ DownFrom(l, i)
    BY <1>9 DEF DownFollows
  <2>3. i \in 1..Len(m) /\ m[i].at = d
    BY <1>1, <2>2
  <2>4. DownFrom(m, i)
    <3> SUFFICES ASSUME NEW k \in i..Len(m) PROVE m[k].v = 1
      BY DEF DownFrom
    <3>1. CASE k = n
      BY <1>2, <1>9, <3>1
    <3>2. CASE k # n
      <4>1. k \in i..Len(l) /\ k \in 1..Len(l)
        BY <1>1, <1>2, <3>2
      <4> QED BY <1>1, <2>2, <4>1 DEF DownFrom
    <3> QED BY <3>1, <3>2
  <2>5. \A j \in 1..Len(m) : DownFrom(m, j) => d <= m[j].at
    <3> SUFFICES ASSUME NEW j \in 1..Len(m), DownFrom(m, j) PROVE d <= m[j].at
      OBVIOUS
    <3>1. CASE j = n
      BY <1>2, <1>3, <3>1
    <3>2. CASE j # n
      <4>1. j \in 1..Len(l) /\ DownFrom(l, j)
        BY <1>6, <3>2
      <4> QED BY <1>1, <4>1 DEF DownFollows
    <3> QED BY <3>1, <3>2
  <2>6. DownFollows(e, m)
    BY <1>5, <1>9, <2>1, <2>3, <2>4, <2>5 DEF DownFollows
  <2> QED BY <1>1, <2>6
<1> QED BY <1>7, <1>8, <1>9

LEMMA CheckKeepsExpected ==
    ASSUME TInv, LogInv, LogInv', ExpectedInv, Check
    PROVE  ExpectedInv'
<1> SUFFICES ASSUME kind = "expected" PROVE ExpectedInv'
  BY DEF ExpectedInv, Check
<1>1. UNCHANGED <<kind, config, now, up, faults, saved>> /\ up
  BY DEF Check
<1>2. CheckExpected
  BY DEF Check, CheckMemory, CheckThrottle, CheckCPU, CheckHost, CheckDisk,
         CheckHostMemory, CheckPressure, CheckForecast, CheckImages
<1>3. PICK down \in BOOLEAN :
         /\ downSince' = IF ~down THEN NoTime ELSE IF downSince = NoTime THEN now ELSE downSince
         /\ alarm' = (down /\ now - downSince' >= Grace)
         /\ log' = Append(log, Reading(IF down THEN 1 ELSE 0)) /\ read' = TRUE
  <2>1. PICK wanted \in BOOLEAN, status \in {"running", "restarting", "exited", "missing"} :
           LET down == wanted /\ Down(status) IN
           /\ downSince' = IF ~down THEN NoTime ELSE IF downSince = NoTime THEN now ELSE downSince
           /\ alarm' = (down /\ now - downSince' >= Grace)
           /\ log' = Append(log, Reading(IF down THEN 1 ELSE 0)) /\ read' = TRUE
    BY <1>2 DEF CheckExpected
  <2>2. PICK down \in BOOLEAN : down = (wanted /\ Down(status))
    BY Zenon DEF Down
  <2> QED BY <2>1, <2>2
<1>4. PICK v \in Int : v = IF down THEN 1 ELSE 0
  OBVIOUS
<1>5. PICK m \in Seq(ReadingType) :
             /\ m = Append(log, Reading(v)) /\ Len(m) = Len(log) + 1 /\ Len(log) \in Nat
             /\ m[Len(log) + 1] = Reading(v)
             /\ \A i \in 1..Len(log) : m[i] = log[i]
             /\ Reading(v) \in ReadingType /\ Reading(v).at = now /\ Reading(v).v = v
             /\ Reading(v).run = faults.crashes
  BY OneMore
<1>6. /\ log \in Seq(ReadingType) /\ now \in Nat /\ downSince \in NoTime..now /\ Past(log, now)
      /\ DownFollows(downSince, log)
  BY <1>1, Settings DEF TInv, Lists, Basics, Detector, LogInv, ExpectedInv
<1>7. DownFollows(downSince', m)
  BY <1>3, <1>4, <1>5, <1>6, DownStep
<1>8. log' = m /\ Ordered(m)
  BY <1>3, <1>4, <1>5 DEF LogInv
<1>9. downSince' \in Int /\ NoTime = -1 /\ downSince \in Int /\ Grace \in Nat
  BY <1>3, <1>6, Settings DEF NoTime
<1>10. EEarned(m) <=> m # <<>> /\ downSince' # NoTime /\ m[Len(m)].at - downSince' >= Grace
  BY <1>7, <1>8, <1>9, DownIsEarned
<1>11. m # <<>> /\ m[Len(m)].at = now
  BY <1>5
<1>12. down <=> downSince' # NoTime
  BY <1>3, <1>6, <1>9
<1>13. (alarm' => EEarned(log')) /\ (EEarned(log') => alarm')
  BY <1>3, <1>8, <1>10, <1>11, <1>12
<1>14. kind \in DOMAIN saved'.detectors =>
           /\ DownFollows(saved'.detectors[kind].downSince, saved'.log)
           /\ saved'.alarm => EEarned(saved'.log)
  BY <1>1 DEF ExpectedInv
<1> QED BY <1>1, <1>7, <1>8, <1>13, <1>14 DEF ExpectedInv

LEMMA NextKeepsExpected ==
    ASSUME TInv, LogInv, LogInv', OffInv, ExpectedInv, [Next]_vars
    PROVE  ExpectedInv'
<1>1. CASE UNCHANGED vars
  BY <1>1 DEF vars, detector, ExpectedInv
<1>2. CASE Tick
  BY <1>2 DEF Tick, detector, ExpectedInv
<1>3. CASE Check
  BY <1>3, CheckKeepsExpected
<1>4. CASE Forget
  <2>1. kind' = kind /\ kind # "expected"
    BY <1>4 DEF Forget
  <2> QED BY <2>1 DEF ExpectedInv
<1>5. CASE Save
  <2>1. UNCHANGED <<kind, up, downSince, log, alarm, read>> /\ up
    BY <1>5 DEF Save, detector
  <2>2. saved'.alarm = alarm /\ saved'.log = log /\ DOMAIN saved'.detectors = config
        /\ \A k \in config : saved'.detectors[k] = SaveState
    BY <1>5, SavedIs DEF Save
  <2>3. CASE kind = "expected"
    <3>1. SaveState.downSince = downSince
      BY <2>3 DEF SaveState, SaveExpected, Fresh
    <3>2. kind \in config => saved'.detectors[kind].downSince = downSince
      BY <2>2, <3>1
    <3> QED BY <2>1, <2>2, <2>3, <3>2 DEF ExpectedInv
  <2> QED BY <2>1, <2>3 DEF ExpectedInv
<1>6. CASE Crash
  BY <1>6 DEF Crash, ExpectedInv
<1>7. CASE Restart
  <2>1. PICK d \in Memory, l \in Seq(ReadingType) :
          /\ Loaded(d, l) /\ LoadState(d) /\ log' = l
          /\ d.downSince \in NoTime..now /\ Len(d.samples) <= Len(l)
    BY <1>7, RestartIs
  <2>2. UNCHANGED <<kind, saved>> /\ read' = FALSE
        /\ alarm' = (saved.alarm /\ kind \in config')
    BY <1>7 DEF Restart, RestoreEpisode, knownDetectors
  <2>3. CASE kind = "expected"
    <3>1. downSince' = d.downSince
      BY <2>1, <2>3, LoadStateIs
    <3>2. DownFollows(d.downSince, l)
      BY <2>1, <2>3, NothingDown DEF Loaded, ExpectedInv, Fresh
    <3>3. alarm' => EEarned(l)
      <4> SUFFICES ASSUME alarm' PROVE EEarned(l)
        OBVIOUS
      <4>1. saved.alarm /\ kind \in config' /\ kind \in DOMAIN saved.detectors
        BY <2>2 DEF OffInv
      <4> QED BY <2>1, <2>3, <4>1 DEF Loaded, ExpectedInv
    <3> QED BY <2>1, <2>2, <2>3, <3>1, <3>2, <3>3 DEF ExpectedInv
  <2> QED BY <2>2, <2>3 DEF ExpectedInv
<1> QED BY <1>1, <1>2, <1>3, <1>4, <1>5, <1>6, <1>7 DEF Next

LEMMA InitExpected ==
    ASSUME Init
    PROVE  ExpectedInv
<1>1. downSince = NoTime /\ log = <<>> /\ alarm = FALSE /\ saved = Saved
  BY DEF Init
<1>2. saved.alarm = alarm /\ saved.log = log /\ DOMAIN saved.detectors = config
        /\ \A k \in config : saved.detectors[k] = SaveState
  BY <1>1, SavedIs
<1>3. kind = "expected" => SaveState.downSince = downSince
  BY DEF SaveState, SaveExpected, Fresh
<1>4. CASE kind = "expected"
  <2>1. DownFollows(downSince, log)
    BY <1>1, NothingDown
  <2>2. kind \in DOMAIN saved.detectors => saved.detectors[kind].downSince = downSince
    BY <1>2, <1>3, <1>4
  <2>3. ~EEarned(log)
    BY <1>1, NothingDown
  <2> QED BY <1>1, <1>2, <2>1, <2>2, <2>3 DEF ExpectedInv
<1> QED BY <1>4 DEF ExpectedInv

-----------------------------------------------------------------------------
(* The disk forecast.                                                      *)
UpTo(l, j) == SubSeq(l, 1, j)
FWindow(l, j) == Since(UpTo(l, j), l[j].at - Window)
FOpens(l, j) == Enough(FWindow(l, j)) /\ FullWithin(FWindow(l, j), Horizon)
FCloses(l, j) == Enough(FWindow(l, j)) /\ ~FullWithin(FWindow(l, j), 2 * Horizon)
FDoubted(l, j) ==
    \E cutoff \in l[j].at - Window..l[j].at :
       LET s == Since(UpTo(l, j), cutoff)
       IN  Enough(s) /\ ~FullWithin(s, 2 * Horizon)

FEarned(l) == \E j \in 1..Len(l) : FOpens(l, j) /\ \A k \in j + 1..Len(l) : ~FCloses(l, k)

FLasting(l) == \E j \in 1..Len(l) :
    /\ FOpens(l, j) /\ \A k \in j + 1..Len(l) : ~FCloses(l, k)
    /\ \A k \in j..Len(l) - 1 : ~FDoubted(l, k)

(* The samples are what is left of the readings.                           *)
LeftOf(s, l, t) ==
    \E cutoff \in Int : /\ s = Since(l, cutoff) /\ cutoff <= t - Window
                        /\ l # <<>> => l[Len(l)].at - Window <= cutoff

ForecastUp ==
    /\ LeftOf(samples, log, now + (IF polled THEN 1 ELSE 0))
    /\ alarm => gate.firing
    /\ gate.firing => FEarned(log)
    /\ FLasting(log) => gate.firing \/ FDoubted(log, Len(log))
    /\ read => LET s == FWindow(log, Len(log)) IN
         /\ log # <<>> /\ samples = s
         /\ FLasting(log) => gate.firing
         /\ alarm => Enough(s) /\ FullWithin(s, 2 * Horizon)
         /\ Enough(s) /\ FullWithin(s, Horizon) => alarm
         /\ Enough(s) /\ gate.firing => alarm

ForecastInv ==
    kind = "host_disk_forecast" =>
      /\ up => ForecastUp
      /\ kind \in DOMAIN saved.detectors =>
           LET d == saved.detectors[kind] IN
           /\ LeftOf(d.samples, saved.log, now + 1)
           /\ saved.alarm => d.firing
           /\ d.firing => FEarned(saved.log)
           /\ FLasting(saved.log) => d.firing \/ FDoubted(saved.log, Len(saved.log))

LEMMA SinceNothing ==
    ASSUME NEW cutoff \in Int
    PROVE  Since(<<>>, cutoff) = <<>>
<1>1. PICK l \in Seq(ReadingType) : l = <<>> /\ Len(l) = 0
  <2>1. <<>> \in Seq(ReadingType) /\ Len(<<>>) = 0
    OBVIOUS
  <2> QED BY <2>1
<1>2. Since(l, cutoff) \in Seq(ReadingType) /\ Len(Since(l, cutoff)) <= Len(l)
  BY SinceType
<1>3. PICK s \in Seq(ReadingType) : s = Since(l, cutoff) /\ Len(s) <= 0
  BY <1>1, <1>2
<1>4. s = <<>>
  BY <1>3
<1> QED BY <1>1, <1>3, <1>4

LEMMA NothingForecast ==
    ASSUME NEW t \in Int
    PROVE  /\ LeftOf(<<>>, <<>>, t) /\ ~FEarned(<<>>) /\ ~FLasting(<<>>)
<1>1. \A i \in 1..Len(<<>>) : FALSE
  OBVIOUS
<1>2. t - Window \in Int /\ t - Window <= t - Window
  BY Settings
<1>3. Since(<<>>, t - Window) = <<>>
  BY <1>2, SinceNothing
<1> QED BY <1>1, <1>2, <1>3 DEF LeftOf, FEarned, FLasting

(* Nothing that was said of the readings changes with another one.          *)
LEMMA UpToLonger ==
    ASSUME NEW l \in Seq(ReadingType), NEW r \in ReadingType, NEW j \in 1..Len(l)
    PROVE  UpTo(Append(l, r), j) = UpTo(l, j) /\ Append(l, r)[j] = l[j]
<1>1. PICK m \in Seq(ReadingType) :
        /\ m = Append(l, r) /\ Len(m) = Len(l) + 1
        /\ \A i \in 1..Len(l) : m[i] = l[i]
  <2>1. /\ Append(l, r) \in Seq(ReadingType) /\ Len(Append(l, r)) = Len(l) + 1
        /\ \A i \in 1..Len(l) : Append(l, r)[i] = l[i]
    BY LongerSeq
  <2> QED BY <2>1
<1>2. Len(l) \in Nat /\ j \in Nat
  OBVIOUS
<1>3. \A i \in 1..j : i \in 1..Len(l) /\ i \in 1..Len(m)
  BY <1>1, <1>2
<1>4. /\ SubSeq(m, 1, j) = [i \in 1..j |-> m[i]]
      /\ SubSeq(l, 1, j) = [i \in 1..j |-> l[i]]
  BY <1>1, <1>2
<1>5. SubSeq(m, 1, j) = SubSeq(l, 1, j)
  BY <1>1, <1>3, <1>4
<1> QED BY <1>1, <1>5 DEF UpTo

LEMMA ForecastLonger ==
    ASSUME NEW l \in Seq(ReadingType), NEW r \in ReadingType, NEW j \in 1..Len(l)
    PROVE  LET m == Append(l, r) IN
           /\ FOpens(m, j) <=> FOpens(l, j)
           /\ FCloses(m, j) <=> FCloses(l, j)
           /\ FDoubted(m, j) <=> FDoubted(l, j)
<1>1. PICK m : m = Append(l, r)
  OBVIOUS
<1>2. UpTo(m, j) = UpTo(l, j) /\ m[j] = l[j]
  BY <1>1, UpToLonger
<1>3. FWindow(m, j) = FWindow(l, j)
  BY <1>2 DEF FWindow
<1>4. (FOpens(m, j) <=> FOpens(l, j)) /\ (FCloses(m, j) <=> FCloses(l, j))
  BY <1>3 DEF FOpens, FCloses
<1>5. FDoubted(m, j) <=> FDoubted(l, j)
  BY <1>2 DEF FDoubted
<1> QED BY <1>1, <1>4, <1>5

-----------------------------------------------------------------------------
(* SumOf: its partial sums.                                                *)
Sums(k, f, n) == k = [i \in 0..n |-> IF i = 0 THEN 0 ELSE k[i - 1] + f[i]]

(* The same, one step at a time.                                           *)
Running(k, f, n) ==
    /\ k[0] = 0
    /\ \A i \in 0..n - 1 : k[i + 1] = k[i] + f[i + 1]
    /\ \A i \in 0..n : k[i] \in Int

LEMMA SumsExist ==
    ASSUME NEW f, NEW n \in Nat
    PROVE  \E k : Sums(k, f, n)
<1>1. PICK T : T = {m \in Nat : \E k : Sums(k, f, m)}
  OBVIOUS
<1>2. 0 \in T
  <2>1. PICK k : k = [i \in 0..0 |-> 0]
    OBVIOUS
  <2>2. \A i \in 0..0 : i = 0
    OBVIOUS
  <2>3. Sums(k, f, 0)
    BY <2>1, <2>2 DEF Sums
  <2> QED BY <1>1, <2>3
<1>3. ASSUME NEW m \in Nat, m \in T PROVE m + 1 \in T
  <2>1. PICK k : Sums(k, f, m)
    BY <1>1, <1>3
  <2>2. PICK last : last = k[m] + f[m + 1]
    OBVIOUS
  <2>3. PICK kk : kk = [i \in 0..m + 1 |-> IF i = m + 1 THEN last ELSE k[i]]
    OBVIOUS
  <2>4. \A i \in 0..m : i \in 0..m + 1 /\ i # m + 1 /\ kk[i] = k[i]
    BY <2>3
  <2>5. kk[m + 1] = last
    BY <2>3
  <2>6. ASSUME NEW i \in 0..m + 1
        PROVE  kk[i] = IF i = 0 THEN 0 ELSE kk[i - 1] + f[i]
    <3>1. CASE i = m + 1
      <4>1. i # 0 /\ i - 1 = m /\ m \in 0..m
        BY <3>1
      <4> QED BY <2>2, <2>4, <2>5, <3>1, <4>1
    <3>2. CASE i = 0
      BY <2>1, <2>4, <3>2 DEF Sums
    <3>3. CASE i # m + 1 /\ i # 0
      <4>1. i \in 0..m /\ i - 1 \in 0..m
        BY <3>3
      <4>2. k[i] = k[i - 1] + f[i]
        BY <2>1, <3>3, <4>1 DEF Sums
      <4> QED BY <2>4, <3>3, <4>1, <4>2
    <3> QED BY <3>1, <3>2, <3>3
  <2>7. Sums(kk, f, m + 1)
    <3>1. kk = [i \in 0..m + 1 |-> kk[i]]
      BY <2>3
    <3> QED BY <2>6, <3>1 DEF Sums
  <2> QED BY <1>1, <2>7
<1>4. Nat \subseteq T
  BY <1>2, <1>3, SetInduction
<1> QED BY <1>1, <1>4

LEMMA SumsRun ==
    ASSUME NEW f, NEW n \in Nat, NEW k, Sums(k, f, n), \A i \in 1..n : f[i] \in Int
    PROVE  Running(k, f, n)
<1>1. k[0] = 0
  <2>1. 0 \in 0..n
    OBVIOUS
  <2> QED BY <2>1 DEF Sums
<1>2. ASSUME NEW i \in 0..n - 1 PROVE k[i + 1] = k[i] + f[i + 1]
  <2>1. i + 1 \in 0..n /\ i + 1 # 0 /\ (i + 1) - 1 = i
    OBVIOUS
  <2>2. PICK j \in 0..n : j = i + 1
    BY <2>1
  <2>3. k[j] = k[j - 1] + f[j]
    BY <2>1, <2>2 DEF Sums
  <2> QED BY <2>1, <2>2, <2>3
<1>3. PICK T : T = {m \in Nat : m <= n => k[m] \in Int}
  OBVIOUS
<1>4. 0 \in T
  BY <1>1, <1>3
<1>5. ASSUME NEW m \in Nat, m \in T PROVE m + 1 \in T
  <2>1. CASE m + 1 <= n
    <3>1. m \in 0..n - 1 /\ m + 1 \in 1..n /\ m <= n
      BY <2>1
    <3>2. k[m] \in Int /\ f[m + 1] \in Int /\ k[m + 1] = k[m] + f[m + 1]
      BY <1>2, <1>3, <1>5, <3>1
    <3> QED BY <1>3, <3>2
  <2>2. CASE ~(m + 1 <= n)
    BY <1>3, <2>2
  <2> QED BY <2>1, <2>2
<1>6. Nat \subseteq T
  BY <1>4, <1>5, SetInduction
<1>7. \A i \in 0..n : k[i] \in Int
  BY <1>3, <1>6
<1> QED BY <1>1, <1>2, <1>7 DEF Running

LEMMA TotalIs ==
    ASSUME NEW f, Len(f) \in Nat, \A i \in 1..Len(f) : f[i] \in Int
    PROVE  \E k : Running(k, f, Len(f)) /\ SumOf(f) = k[Len(f)]
<1>1. PICK k : k = CHOOSE g : Sums(g, f, Len(f))
  OBVIOUS
<1>2. Sums(k, f, Len(f))
  <2>1. \E g : Sums(g, f, Len(f))
    BY SumsExist
  <2> QED BY <1>1, <2>1
<1>3. SumOf(f) = k[Len(f)]
  BY <1>1 DEF SumOf, Sums
<1>4. Running(k, f, Len(f))
  BY <1>2, SumsRun
<1> QED BY <1>3, <1>4

(* The sums of a window, and the slope in terms of them.                   *)
XOf(s) == [i \in 1..Len(s) |-> s[i].at - s[1].at]
YOf(s) == [i \in 1..Len(s) |-> s[i].v]
Products(f, g, n) == [i \in 1..n |-> f[i] * g[i]]

LEMMA ProductsType ==
    ASSUME NEW n \in Nat, NEW f, NEW g, \A i \in 1..n : f[i] \in Int /\ g[i] \in Int
    PROVE  /\ \A i \in 1..n : Products(f, g, n)[i] = f[i] * g[i] /\ Products(f, g, n)[i] \in Int
           /\ Len(Products(f, g, n)) = n
<1>1. \A i \in 1..n : Products(f, g, n)[i] = f[i] * g[i] /\ f[i] * g[i] \in Int
  BY DEF Products
<1>2. Products(f, g, n) \in Seq(Int)
  BY <1>1 DEF Products
<1>3. Len(Products(f, g, n)) = n
  BY DEF Products
<1> QED BY <1>1, <1>3

LEMMA SlopeIs ==
    ASSUME NEW s \in Seq(ReadingType)
    PROVE  LET n == Len(s)  x == XOf(s)  y == YOf(s) IN
           \E sx, sy, sxx, sxy :
             /\ Running(sx, x, n) /\ Running(sy, y, n)
             /\ Running(sxx, Products(x, x, n), n) /\ Running(sxy, Products(x, y, n), n)
             /\ fitSlope(s) = [num |-> n * sxy[n] - sx[n] * sy[n],
                               den |-> n * sxx[n] - sx[n] * sx[n]]
<1> DEFINE n == Len(s)
           x == XOf(s)
           y == YOf(s)
<1>1. n \in Nat /\ \A i \in 1..n : s[i].at \in Nat /\ s[i].v \in Int /\ 1 \in 1..n
  BY Readings
<1>2. /\ \A i \in 1..n : x[i] \in Int /\ y[i] \in Int
      /\ Len(x) = n /\ Len(y) = n
  BY <1>1 DEF XOf, YOf
<1>3. /\ Len(Products(x, x, n)) = n /\ \A i \in 1..n : Products(x, x, n)[i] \in Int
      /\ Len(Products(x, y, n)) = n /\ \A i \in 1..n : Products(x, y, n)[i] \in Int
  <2> HIDE DEF n, x, y
  <2> QED BY <1>1, <1>2, ProductsType
<1>4. fitSlope(s) = [num |-> n * SumOf(Products(x, y, n)) - SumOf(x) * SumOf(y),
                     den |-> n * SumOf(Products(x, x, n)) - SumOf(x) * SumOf(x)]
  BY DEF fitSlope, Products, XOf, YOf
<1>5. \E k : Running(k, x, n) /\ SumOf(x) = k[n]
  <2> HIDE DEF n, x
  <2> QED BY <1>1, <1>2, TotalIs
<1>6. \E k : Running(k, y, n) /\ SumOf(y) = k[n]
  <2> HIDE DEF n, y
  <2> QED BY <1>1, <1>2, TotalIs
<1>7. \E k : Running(k, Products(x, x, n), n) /\ SumOf(Products(x, x, n)) = k[n]
  <2> HIDE DEF n, x
  <2> QED BY <1>1, <1>3, TotalIs
<1>8. \E k : Running(k, Products(x, y, n), n) /\ SumOf(Products(x, y, n)) = k[n]
  <2> HIDE DEF n, x, y
  <2> QED BY <1>1, <1>3, TotalIs
<1> HIDE DEF n, x, y
<1>9. PICK sx : Running(sx, x, n) /\ SumOf(x) = sx[n]
  BY <1>5
<1>10. PICK sy : Running(sy, y, n) /\ SumOf(y) = sy[n]
  BY <1>6
<1>11. PICK sxx : Running(sxx, Products(x, x, n), n) /\ SumOf(Products(x, x, n)) = sxx[n]
  BY <1>7
<1>12. PICK sxy : Running(sxy, Products(x, y, n), n) /\ SumOf(Products(x, y, n)) = sxy[n]
  BY <1>8
<1>13. fitSlope(s) = [num |-> n * sxy[n] - sx[n] * sy[n], den |-> n * sxx[n] - sx[n] * sx[n]]
  BY <1>4, <1>9, <1>10, <1>11, <1>12
<1>14. \E a, b, c, d :
             /\ Running(a, x, n) /\ Running(b, y, n)
             /\ Running(c, Products(x, x, n), n) /\ Running(d, Products(x, y, n), n)
             /\ fitSlope(s) = [num |-> n * d[n] - a[n] * b[n],
                               den |-> n * c[n] - a[n] * a[n]]
  BY <1>9, <1>10, <1>11, <1>12, <1>13
<1> QED BY <1>14 DEF n, x, y

LEMMA SlopeType ==
    ASSUME NEW s \in Seq(ReadingType)
    PROVE  fitSlope(s).num \in Int /\ fitSlope(s).den \in Int
<1>1. PICK n \in Nat : n = Len(s) /\ n \in 0..n
  OBVIOUS
<1>2. PICK sx, sy, sxx, sxy :
        /\ Running(sx, XOf(s), n) /\ Running(sy, YOf(s), n)
        /\ Running(sxx, Products(XOf(s), XOf(s), n), n) /\ Running(sxy, Products(XOf(s), YOf(s), n), n)
        /\ fitSlope(s) = [num |-> n * sxy[n] - sx[n] * sy[n], den |-> n * sxx[n] - sx[n] * sx[n]]
  BY <1>1, SlopeIs
<1>3. sx[n] \in Int /\ sy[n] \in Int /\ sxx[n] \in Int /\ sxy[n] \in Int
  BY <1>1, <1>2 DEF Running
<1>4. n * sxy[n] - sx[n] * sy[n] \in Int /\ n * sxx[n] - sx[n] * sx[n] \in Int
  BY <1>3
<1> QED BY <1>2, <1>4

(* What is full within a time is full within twice the time.               *)
LEMMA WithinTwice ==
    ASSUME NEW s \in Seq(ReadingType), FullWithin(s, Horizon), Len(s) # 0
    PROVE  FullWithin(s, 2 * Horizon)
<1>1. PICK num \in Int, den \in Int : num = fitSlope(s).num /\ den = fitSlope(s).den
  BY SlopeType
<1>2. PICK v \in Int : v = Last(s).v
  <2>1. Len(s) \in 1..Len(s)
    OBVIOUS
  <2> QED BY <2>1, Readings DEF Last
<1>3. num < 0 /\ v * den <= Horizon * (0 - num)
  BY <1>1, <1>2 DEF FullWithin
<1>4. Horizon \in Nat
  BY Settings
<1>5. PICK p \in Int, q \in Int : p = v * den /\ q = Horizon * (0 - num)
  BY <1>4
<1>6. q >= 0
  <2>1. \A a, b \in Nat : a * b >= 0
    OBVIOUS
  <2>2. 0 - num \in Nat
    BY <1>3
  <2> QED BY <1>4, <1>5, <2>1, <2>2
<1>7. (2 * Horizon) * (0 - num) = 2 * q
  BY <1>4, <1>5
<1>8. num < 0 /\ v * den <= (2 * Horizon) * (0 - num)
  BY <1>3, <1>5, <1>6, <1>7
<1> QED BY <1>1, <1>2, <1>8 DEF FullWithin

-----------------------------------------------------------------------------
(* The readings that open and end a forecast, with one more.               *)
LEMMA ForecastEarnedLonger ==
    ASSUME NEW l \in Seq(ReadingType), NEW r \in ReadingType,
           NEW m, m = Append(l, r), NEW n, n = Len(l) + 1,
           FOpens(m, n) \/ (FEarned(l) /\ ~FCloses(m, n))
    PROVE  FEarned(m)
<1>1. m \in Seq(ReadingType) /\ Len(m) = n /\ n \in 1..Len(m) /\ Len(l) \in Nat
  BY LongerSeq
<1>2. CASE FOpens(m, n)
  <2>1. n + 1..Len(m) = {}
    BY <1>1
  <2> QED BY <1>1, <1>2, <2>1 DEF FEarned
<1>3. CASE FEarned(l) /\ ~FCloses(m, n)
  <2>1. PICK j \in 1..Len(l) : FOpens(l, j) /\ \A k \in j + 1..Len(l) : ~FCloses(l, k)
    BY <1>3 DEF FEarned
  <2>2. j \in 1..Len(m) /\ FOpens(m, j)
    BY <1>1, <2>1, ForecastLonger
  <2>3. ASSUME NEW k \in j + 1..Len(m) PROVE ~FCloses(m, k)
    <3>1. CASE k = n
      BY <1>3, <3>1
    <3>2. CASE k # n
      <4>1. k \in j + 1..Len(l) /\ k \in 1..Len(l)
        BY <1>1, <3>2
      <4> QED BY <2>1, <4>1, ForecastLonger
    <3> QED BY <3>1, <3>2
  <2> QED BY <2>2, <2>3 DEF FEarned
<1> QED BY <1>2, <1>3

LEMMA LastingLonger ==
    ASSUME NEW l \in Seq(ReadingType), NEW r \in ReadingType,
           NEW m, m = Append(l, r), NEW n, n = Len(l) + 1, FLasting(m), ~FOpens(m, n)
    PROVE  FLasting(l) /\ ~FDoubted(l, Len(l)) /\ ~FCloses(m, n) /\ l # <<>>
<1>1. m \in Seq(ReadingType) /\ Len(m) = n /\ n \in 1..Len(m) /\ Len(l) \in Nat
  BY LongerSeq
<1>2. PICK j \in 1..Len(m) :
        /\ FOpens(m, j) /\ \A k \in j + 1..Len(m) : ~FCloses(m, k)
        /\ \A k \in j..Len(m) - 1 : ~FDoubted(m, k)
  BY DEF FLasting
<1>3. j # n
  BY <1>2
<1>4. j \in 1..Len(l) /\ Len(l) \in j..Len(m) - 1 /\ n \in j + 1..Len(m) /\ Len(l) \in 1..Len(l)
  BY <1>1, <1>3
<1>5. FOpens(l, j) /\ ~FDoubted(l, Len(l)) /\ ~FCloses(m, n)
  BY <1>2, <1>4, ForecastLonger
<1>6. \A k \in j + 1..Len(l) : ~FCloses(l, k)
  <2> SUFFICES ASSUME NEW k \in j + 1..Len(l) PROVE ~FCloses(l, k)
    OBVIOUS
  <2>1. k \in 1..Len(l) /\ k \in j + 1..Len(m)
    BY <1>1, <1>4
  <2> QED BY <1>2, <2>1, ForecastLonger
<1>7. \A k \in j..Len(l) - 1 : ~FDoubted(l, k)
  <2> SUFFICES ASSUME NEW k \in j..Len(l) - 1 PROVE ~FDoubted(l, k)
    OBVIOUS
  <2>1. k \in 1..Len(l) /\ k \in j..Len(m) - 1
    BY <1>1, <1>4
  <2> QED BY <1>2, <2>1, ForecastLonger
<1>8. FLasting(l)
  BY <1>4, <1>5, <1>6, <1>7 DEF FLasting
<1>9. l # <<>>
  BY <1>4
<1> QED BY <1>5, <1>8, <1>9

(* What is left of the readings, when there is another one and when time   *)
(* has passed in which nodux did not run.                                  *)
LEMMA LeftWithOne ==
    ASSUME NEW l \in Seq(ReadingType), NEW r \in ReadingType, NEW s, LeftOf(s, l, r.at)
    PROVE  /\ Since(Append(s, r), r.at - Window) = FWindow(Append(l, r), Len(l) + 1)
           /\ LeftOf(Since(Append(s, r), r.at - Window), Append(l, r), r.at)
<1>1. PICK cut \in Int : s = Since(l, cut) /\ cut <= r.at - Window
  BY DEF LeftOf
<1>2. r.at \in Nat /\ r.at - Window \in Int
  BY Settings DEF ReadingType
<1>3. PICK m \in Seq(ReadingType) : m = Append(l, r) /\ Len(m) = Len(l) + 1 /\ m[Len(l) + 1] = r
  <2>1. /\ Append(l, r) \in Seq(ReadingType) /\ Len(Append(l, r)) = Len(l) + 1
        /\ Append(l, r)[Len(l) + 1] = r
    BY LongerSeq
  <2> QED BY <2>1
<1>4. Since(Append(s, r), r.at - Window) = Since(m, r.at - Window)
  BY <1>1, <1>2, <1>3, SinceAppend
<1>5. UpTo(m, Len(l) + 1) = m
  BY <1>3, WholeLog DEF UpTo
<1>6. FWindow(m, Len(l) + 1) = Since(m, r.at - Window)
  BY <1>3, <1>5 DEF FWindow
<1>7. m[Len(m)] = r
  BY <1>3
<1>8. LeftOf(Since(m, r.at - Window), m, r.at)
  BY <1>2, <1>7 DEF LeftOf
<1> QED BY <1>3, <1>4, <1>6, <1>8

LEMMA LeftLater ==
    ASSUME NEW l \in Seq(ReadingType), NEW t \in Nat, NEW u \in Nat, t <= u,
           NEW s, LeftOf(s, l, t)
    PROVE  LeftOf(s, l, u)
<1>1. PICK cut \in Int : /\ s = Since(l, cut) /\ cut <= t - Window
                         /\ l # <<>> => l[Len(l)].at - Window <= cut
  BY DEF LeftOf
<1>2. cut <= u - Window
  BY <1>1, Settings
<1> QED BY <1>1, <1>2 DEF LeftOf

LEMMA LeftAfter ==
    ASSUME NEW l \in Seq(ReadingType), NEW t \in Nat, NEW s, LeftOf(s, l, t + 1), Past(l, t)
    PROVE  LeftOf(Since(s, t - Window + 1), l, t + 1)
<1>1. PICK cut \in Int : /\ s = Since(l, cut) /\ cut <= (t + 1) - Window
                         /\ l # <<>> => l[Len(l)].at - Window <= cut
  BY DEF LeftOf
<1>2. PICK c \in Int : c = t - Window + 1 /\ cut <= c /\ c <= (t + 1) - Window
  BY <1>1, Settings
<1>3. Since(s, c) = Since(l, c)
  BY <1>1, <1>2, SinceTwice
<1>4. l # <<>> => l[Len(l)].at - Window <= c
  <2> SUFFICES ASSUME l # <<>> PROVE l[Len(l)].at - Window <= c
    OBVIOUS
  <2>1. Len(l) \in 1..Len(l)
    OBVIOUS
  <2>2. l[Len(l)].at <= t /\ l[Len(l)].at \in Nat
    BY <2>1, Readings DEF Past
  <2> QED BY <1>2, <2>2, Settings
<1> QED BY <1>2, <1>3, <1>4 DEF LeftOf

(* A failed read asks what is left: no forecast ends without a doubt.      *)
LEMMA LeftDoubted ==
    ASSUME NEW l \in Seq(ReadingType), NEW t \in Int, NEW s, LeftOf(s, l, t),
           Ordered(l), Enough(s), ~FullWithin(s, 2 * Horizon)
    PROVE  FDoubted(l, Len(l))
<1>1. PICK cut \in Int : /\ s = Since(l, cut)
                         /\ l # <<>> => l[Len(l)].at - Window <= cut
  BY DEF LeftOf
<1>2. PICK k \in 0..Len(l) : Old(l, cut, k) /\ s = SubSeq(l, k + 1, Len(l))
  BY <1>1, SinceIs
<1>3. Len(s) = Len(l) - k /\ Len(l) \in Nat
  BY <1>2, Rest
<1>4. Len(s) >= 3
  BY DEF Enough
<1>5. k < Len(l) /\ k + 1 \in 1..Len(l) /\ Len(l) \in 1..Len(l) /\ l # <<>>
  BY <1>2, <1>3, <1>4
<1>6. l[k + 1].at >= cut
  BY <1>2, <1>5 DEF Old
<1>7. l[k + 1].at <= l[Len(l)].at
  <2>1. l[k + 1].at \in Nat /\ l[Len(l)].at \in Nat
    BY <1>5, Readings
  <2>2. k + 1 < Len(l) \/ k + 1 = Len(l)
    BY <1>5
  <2>3. k + 1 < Len(l) => l[k + 1].at < l[Len(l)].at
    BY <1>5 DEF Ordered
  <2> QED BY <2>1, <2>2, <2>3
<1>8. cut \in l[Len(l)].at - Window..l[Len(l)].at
  <2>1. l[k + 1].at \in Nat /\ l[Len(l)].at \in Nat
    BY <1>5, Readings
  <2>2. l[Len(l)].at - Window <= cut
    BY <1>1, <1>5
  <2> QED BY <1>6, <1>7, <2>1, <2>2, Settings
<1>9. UpTo(l, Len(l)) = l
  BY WholeLog DEF UpTo
<1> QED BY <1>1, <1>8, <1>9 DEF FDoubted

LEMMA ForecastReading ==
    ASSUME TInv, LogInv, ForecastUp, kind = "host_disk_forecast", Check, NEW v \in Avails,
           samples' = Since(Append(samples, Reading(v)), now - Window),
           forecast(samples'), log' = Append(log, Reading(v)), read' = TRUE
    PROVE  ForecastUp'
<1>1. UNCHANGED <<kind, config, now, up, faults, saved>> /\ up /\ ~polled /\ polled' = TRUE
  BY DEF Check
<1>2. PICK r \in ReadingType : r = Reading(v) /\ r.at = now
  BY NewReading, Settings DEF TInv
<1>3. log \in Seq(ReadingType) /\ samples \in Seq(ReadingType) /\ now \in Nat /\ Len(log) \in Nat
  BY Settings DEF TInv, Lists, Basics
<1>4. LeftOf(samples, log, now)
  BY <1>1, <1>3 DEF ForecastUp
<1>5. PICK m \in Seq(ReadingType) : m = Append(log, r) /\ Len(m) = Len(log) + 1
  BY <1>2, <1>3, LongerSeq
<1>6. PICK n \in Nat : n = Len(log) + 1
  BY <1>3
<1>7. PICK s : s = samples'
  OBVIOUS
<1>8. s = FWindow(m, n) /\ LeftOf(s, m, now)
  BY <1>2, <1>3, <1>4, <1>5, <1>6, <1>7, LeftWithOne
<1>9. LeftOf(s, m, now + 1)
  <2>1. now + 1 \in Nat /\ now <= now + 1
    BY <1>3
  <2> QED BY <1>3, <1>5, <1>8, <2>1, LeftLater
<1>10. s \in Seq(ReadingType)
  <2>1. TInv'
    BY NextTypes DEF Next
  <2> QED BY <1>7, <2>1 DEF TInv, Lists
<1>11. gate.firing \in BOOLEAN
  BY SameTypes
<1>12. FOpens(m, n) <=> Enough(s) /\ FullWithin(s, Horizon)
  BY <1>8 DEF FOpens
<1>13. FCloses(m, n) <=> Enough(s) /\ ~FullWithin(s, 2 * Horizon)
  BY <1>8 DEF FCloses
<1>14. Enough(s) /\ FullWithin(s, Horizon) => FullWithin(s, 2 * Horizon)
  <2>1. Enough(s) => Len(s) # 0
    BY DEF Enough
  <2> QED BY <1>10, <2>1, WithinTwice
<1>15. gate'.firing = IF Enough(s) THEN FullWithin(s, Limit) ELSE gate.firing
  BY <1>7 DEF forecast, RestoreGate, NewGate
<1>16. alarm' = (Enough(s) /\ FullWithin(s, Limit))
  BY <1>7 DEF forecast
<1>17. Limit = IF gate.firing THEN 2 * Horizon ELSE Horizon
  BY DEF Limit
<1>18. FEarned(m) \/ ~(FOpens(m, n) \/ (FEarned(log) /\ ~FCloses(m, n)))
  BY <1>2, <1>3, <1>5, <1>6, ForecastEarnedLonger
<1>19. FLasting(m) /\ ~FOpens(m, n) =>
         FLasting(log) /\ ~FDoubted(log, Len(log)) /\ ~FCloses(m, n)
  BY <1>2, <1>3, <1>5, <1>6, LastingLonger
<1>20. (gate.firing => FEarned(log)) /\ (FLasting(log) => gate.firing \/ FDoubted(log, Len(log)))
  BY DEF ForecastUp
<1>21. CASE gate.firing
  <2>1. Limit = 2 * Horizon
    BY <1>17, <1>21
  <2>2. gate'.firing = IF Enough(s) THEN FullWithin(s, 2 * Horizon) ELSE gate.firing
    BY <1>15, <2>1
  <2>3. alarm' = (Enough(s) /\ FullWithin(s, 2 * Horizon))
    BY <1>16, <2>1
  <2>4. /\ gate'.firing => FEarned(m)
        /\ FLasting(m) => gate'.firing
        /\ alarm' => gate'.firing /\ Enough(s) /\ FullWithin(s, 2 * Horizon)
        /\ Enough(s) /\ FullWithin(s, Horizon) => alarm'
        /\ Enough(s) /\ gate'.firing => alarm'
    BY <2>2, <2>3, <1>12, <1>13, <1>14, <1>18, <1>19, <1>20, <1>21, Zenon
  <2>5. log' = m /\ log' # <<>> /\ Len(log') = n /\ samples' = s /\ read' = TRUE
        /\ now' + (IF polled' THEN 1 ELSE 0) = now + 1
    BY <1>1, <1>2, <1>3, <1>5, <1>6, <1>7
  <2> QED BY <1>8, <1>9, <2>4, <2>5 DEF ForecastUp
<1>22. CASE ~gate.firing
  <2>1. Limit = Horizon
    BY <1>17, <1>22
  <2>2. /\ gate'.firing => FEarned(m)
        /\ FLasting(m) => gate'.firing
        /\ alarm' => gate'.firing /\ Enough(s) /\ FullWithin(s, 2 * Horizon)
        /\ Enough(s) /\ FullWithin(s, Horizon) => alarm'
        /\ Enough(s) /\ gate'.firing => alarm'
    BY <2>1, <1>12, <1>13, <1>14, <1>15, <1>16, <1>18, <1>19, <1>20, <1>22, Zenon
  <2>3. log' = m /\ log' # <<>> /\ Len(log') = n /\ samples' = s /\ read' = TRUE
        /\ now' + (IF polled' THEN 1 ELSE 0) = now + 1
    BY <1>1, <1>2, <1>3, <1>5, <1>6, <1>7
  <2> QED BY <1>8, <1>9, <2>2, <2>3 DEF ForecastUp
<1> QED BY <1>11, <1>21, <1>22

LEMMA ForecastFailed ==
    ASSUME TInv, LogInv, ForecastUp, kind = "host_disk_forecast", Check,
           IF gate.firing THEN forecast(samples) ELSE alarm' = FALSE /\ UNCHANGED gate,
           read' = FALSE, UNCHANGED <<samples, log>>
    PROVE  ForecastUp'
<1>1. UNCHANGED <<kind, config, now, up, faults, saved>> /\ up /\ ~polled /\ polled' = TRUE
  BY DEF Check
<1>2. log \in Seq(ReadingType) /\ now \in Nat
  BY Settings DEF TInv, Lists, Basics
<1>3. LeftOf(samples, log, now)
  BY <1>1, <1>2 DEF ForecastUp
<1>4. LeftOf(samples', log', now' + (IF polled' THEN 1 ELSE 0))
  BY <1>1, <1>2, <1>3, LeftLater
<1>5. (gate.firing => FEarned(log)) /\ (FLasting(log) => gate.firing \/ FDoubted(log, Len(log)))
  BY DEF ForecastUp
<1>6. Enough(samples) /\ ~FullWithin(samples, 2 * Horizon) => FDoubted(log, Len(log))
  BY <1>2, <1>3, LeftDoubted DEF LogInv
<1>7. CASE gate.firing
  <2>1. gate'.firing = IF Enough(samples) THEN FullWithin(samples, 2 * Horizon) ELSE gate.firing
    BY <1>7 DEF forecast, RestoreGate, NewGate, Limit
  <2>2. alarm' = (Enough(samples) /\ FullWithin(samples, 2 * Horizon))
    BY <1>7 DEF forecast, Limit
  <2>3. /\ alarm' => gate'.firing
        /\ gate'.firing => FEarned(log)
        /\ FLasting(log) => gate'.firing \/ FDoubted(log, Len(log))
    BY <1>5, <1>6, <1>7, <2>1, <2>2, Zenon
  <2> QED BY <1>4, <2>3 DEF ForecastUp
<1>8. CASE ~gate.firing
  <2>1. alarm' = FALSE /\ gate' = gate
    BY <1>8
  <2> QED BY <1>4, <1>5, <2>1 DEF ForecastUp
<1> QED BY <1>7, <1>8

LEMMA CheckKeepsForecast ==
    ASSUME TInv, LogInv, ForecastInv, Check
    PROVE  ForecastInv'
<1> SUFFICES ASSUME kind = "host_disk_forecast" PROVE ForecastInv'
  BY DEF ForecastInv, Check
<1>1. UNCHANGED <<kind, config, now, up, faults, saved>> /\ up
  BY DEF Check
<1>2. ForecastUp
  BY <1>1 DEF ForecastInv
<1>3. CheckForecast
  BY DEF Check, CheckMemory, CheckThrottle, CheckCPU, CheckHost, CheckDisk,
         CheckHostMemory, CheckPressure, CheckExpected, CheckImages
<1>4. ForecastUp'
  <2>1. CASE /\ IF gate.firing THEN forecast(samples) ELSE alarm' = FALSE /\ UNCHANGED gate
             /\ read' = FALSE
             /\ UNCHANGED <<samples, log>>
    BY <1>2, <2>1, ForecastFailed
  <2>2. CASE \E v \in Avails :
            /\ samples' = Since(Append(samples, Reading(v)), now - Window)
            /\ forecast(samples')
            /\ log' = Append(log, Reading(v)) /\ read' = TRUE
    BY <1>2, <2>2, ForecastReading
  <2> QED BY <1>3, <2>1, <2>2 DEF CheckForecast
<1> QED BY <1>1, <1>4 DEF ForecastInv

LEMMA NextKeepsForecast ==
    ASSUME TInv, LogInv, OffInv, ForecastInv, [Next]_vars
    PROVE  ForecastInv'
<1>1. CASE UNCHANGED vars
  BY <1>1 DEF vars, detector, ForecastInv, ForecastUp
<1>2. now \in Nat /\ log \in Seq(ReadingType) /\ saved.log \in Seq(ReadingType)
      /\ polled \in BOOLEAN
  BY Settings DEF TInv, Basics, Lists, File
<1>3. CASE Tick
  <2>1. UNCHANGED <<kind, up, samples, log, gate, alarm, read, saved>>
        /\ now' = now + 1 /\ polled' = FALSE
    BY <1>3 DEF Tick, detector
  <2>2. CASE kind = "host_disk_forecast"
    <3>1. up => LeftOf(samples, log, now + 1)
      <4>1. up => LeftOf(samples, log, now + (IF polled THEN 1 ELSE 0))
        BY <2>2 DEF ForecastInv, ForecastUp
      <4>2. PICK t \in Nat : t = now + (IF polled THEN 1 ELSE 0) /\ t <= now + 1
        BY <1>2
      <4> QED BY <1>2, <4>1, <4>2, LeftLater
    <3>2. kind \in DOMAIN saved.detectors =>
            LeftOf(saved.detectors[kind].samples, saved.log, now' + 1)
      <4>1. now + 1 \in Nat /\ now' + 1 \in Nat /\ now + 1 <= now' + 1
        BY <1>2, <2>1
      <4> QED BY <1>2, <2>2, <4>1, LeftLater DEF ForecastInv
    <3>3. now' + (IF polled' THEN 1 ELSE 0) = now + 1
      BY <1>2, <2>1
    <3>4. up' => ForecastUp'
      BY <2>1, <2>2, <3>1, <3>3 DEF ForecastInv, ForecastUp
    <3> QED BY <2>1, <2>2, <3>2, <3>4 DEF ForecastInv
  <2> QED BY <2>1, <2>2 DEF ForecastInv
<1>4. CASE Check
  BY <1>4, CheckKeepsForecast
<1>5. CASE Forget
  <2>1. kind' = kind /\ kind # "host_disk_forecast"
    BY <1>5 DEF Forget
  <2> QED BY <2>1 DEF ForecastInv
<1>6. CASE Save
  <2>1. UNCHANGED <<kind, up, samples, log, gate, alarm, read, now, polled>> /\ up
    BY <1>6 DEF Save, detector
  <2>2. saved'.alarm = alarm /\ saved'.log = log /\ DOMAIN saved'.detectors = config
        /\ \A k \in config : saved'.detectors[k] = SaveState
    BY <1>6, SavedIs DEF Save
  <2>3. CASE kind = "host_disk_forecast"
    <3>1. SaveState.samples = samples /\ SaveState.firing = gate.firing
      BY <2>3 DEF SaveState, SaveForecast, SaveGate, Fresh
    <3>2. kind \in config => /\ saved'.detectors[kind].samples = samples
                             /\ saved'.detectors[kind].firing = gate.firing
      BY <2>2, <3>1
    <3>3. ForecastUp
      BY <2>1, <2>3 DEF ForecastInv
    <3>4. LeftOf(samples, log, now + 1)
      <4>1. PICK t \in Nat : t = now + (IF polled THEN 1 ELSE 0) /\ t <= now + 1
        BY <1>2
      <4> QED BY <1>2, <3>3, <4>1, LeftLater DEF ForecastUp
    <3>5. ForecastUp'
      BY <2>1, <3>3 DEF ForecastUp
    <3>6. /\ alarm => gate.firing
          /\ gate.firing => FEarned(log)
          /\ FLasting(log) => gate.firing \/ FDoubted(log, Len(log))
      BY <3>3 DEF ForecastUp
    <3>7. kind' \in DOMAIN saved'.detectors =>
           LET d == saved'.detectors[kind'] IN
           /\ LeftOf(d.samples, saved'.log, now' + 1)
           /\ saved'.alarm => d.firing
           /\ d.firing => FEarned(saved'.log)
           /\ FLasting(saved'.log) => d.firing \/ FDoubted(saved'.log, Len(saved'.log))
      BY <2>1, <2>2, <3>2, <3>4, <3>6
    <3> QED BY <3>5, <3>7 DEF ForecastInv
  <2> QED BY <2>1, <2>3 DEF ForecastInv
<1>7. CASE Crash
  <2>1. UNCHANGED <<kind, now, saved>> /\ ~up'
    BY <1>7 DEF Crash
  <2> QED BY <2>1 DEF ForecastInv
<1>8. CASE Restart
  <2>1. PICK d \in Memory, l \in Seq(ReadingType) :
          /\ Loaded(d, l) /\ LoadState(d) /\ log' = l
          /\ d.downSince \in NoTime..now /\ Len(d.samples) <= Len(l)
    BY <1>8, RestartIs
  <2>2. UNCHANGED <<kind, saved, now>> /\ read' = FALSE /\ polled' = TRUE
        /\ alarm' = (saved.alarm /\ kind \in config')
    BY <1>8 DEF Restart, RestoreEpisode, knownDetectors
  <2>3. CASE kind = "host_disk_forecast"
    <3>1. gate' = RestoreGate(d.firing) /\ samples' = Since(d.samples, now - Window + 1)
      BY <2>1, <2>3, LoadStateIs
    <3>2. gate'.firing = d.firing
      BY <3>1 DEF RestoreGate, NewGate
    <3>3. /\ LeftOf(d.samples, l, now + 1) /\ Past(l, now)
          /\ d.firing => FEarned(l)
          /\ FLasting(l) => d.firing \/ FDoubted(l, Len(l))
      <4>1. CASE l = saved.log /\ d = saved.detectors[kind] /\ kind \in DOMAIN saved.detectors
        BY <2>3, <4>1 DEF ForecastInv, LogInv
      <4>2. CASE d = Fresh /\ l = <<>>
        <5>1. now + 1 \in Int /\ d.samples = <<>> /\ ~d.firing
          BY <1>2, <4>2, FreshType DEF Fresh
        <5>2. Past(l, now)
          BY <4>2 DEF Past
        <5> QED BY <4>2, <5>1, <5>2, NothingForecast
      <4> QED BY <2>1, <4>1, <4>2 DEF Loaded
    <3>4. LeftOf(samples', l, now + 1)
      BY <1>2, <3>1, <3>3, LeftAfter
    <3>5. alarm' => d.firing
      <4> SUFFICES ASSUME alarm' PROVE d.firing
        OBVIOUS
      <4>1. saved.alarm /\ kind \in config' /\ kind \in DOMAIN saved.detectors
        BY <2>2 DEF OffInv
      <4> QED BY <2>1, <2>3, <4>1 DEF Loaded, ForecastInv
    <3>6. ForecastUp'
      BY <2>1, <2>2, <3>2, <3>3, <3>4, <3>5 DEF ForecastUp
    <3> QED BY <2>2, <2>3, <3>6 DEF ForecastInv
  <2> QED BY <2>2, <2>3 DEF ForecastInv
<1> QED BY <1>1, <1>3, <1>4, <1>5, <1>6, <1>7, <1>8 DEF Next

LEMMA InitForecast ==
    ASSUME Init
    PROVE  ForecastInv
<1>1. /\ gate = NewGate /\ log = <<>> /\ samples = <<>> /\ alarm = FALSE /\ read = FALSE
      /\ saved = Saved /\ now = 0 /\ polled = FALSE
  BY DEF Init
<1>2. saved.alarm = alarm /\ saved.log = log /\ DOMAIN saved.detectors = config
        /\ \A k \in config : saved.detectors[k] = SaveState
  BY <1>1, SavedIs
<1>3. kind = "host_disk_forecast" => SaveState.samples = samples /\ SaveState.firing = gate.firing
  BY DEF SaveState, SaveForecast, SaveGate, Fresh
<1>4. gate.firing = FALSE
  BY <1>1 DEF NewGate
<1>5. /\ LeftOf(samples, log, now + (IF polled THEN 1 ELSE 0)) /\ LeftOf(samples, log, now + 1)
      /\ ~FLasting(log)
  BY <1>1, NothingForecast
<1>6. ForecastUp
  BY <1>1, <1>4, <1>5 DEF ForecastUp
<1>7. CASE kind = "host_disk_forecast"
  <2>1. kind \in DOMAIN saved.detectors => /\ saved.detectors[kind].samples = samples
                                           /\ saved.detectors[kind].firing = gate.firing
    BY <1>2, <1>3, <1>7
  <2> QED BY <1>1, <1>2, <1>4, <1>5, <1>6, <2>1 DEF ForecastInv
<1> QED BY <1>7 DEF ForecastInv

-----------------------------------------------------------------------------
(* The properties, from the invariant.                                     *)
AInv == TInv /\ LogInv /\ OffInv /\ GateInv /\ ExpectedInv /\ ForecastInv

LEMMA InitInv ==
    ASSUME Init
    PROVE  AInv
BY InitTypes, InitLog, InitOff, InitGate, InitExpected, InitForecast DEF AInv

LEMMA NextInv ==
    ASSUME AInv, [Next]_vars
    PROVE  AInv'
<1>1. TInv /\ LogInv /\ OffInv /\ GateInv /\ ExpectedInv /\ ForecastInv
  BY DEF AInv
<1>2. TInv' /\ LogInv' /\ OffInv'
  BY <1>1, NextTypes, NextKeepsLog, NextKeepsOff
<1>3. GateInv' /\ ExpectedInv' /\ ForecastInv'
  BY <1>1, <1>2, NextKeepsGate, NextKeepsExpected, NextKeepsForecast
<1> QED BY <1>2, <1>3 DEF AInv

LEMMA TypesAre ==
    ASSUME TInv
    PROVE  TypeOK
BY DEF TInv, Basics, Detector, Lists, World, TypeOK

LEMMA LogDomain ==
    ASSUME TInv
    PROVE  log \in Seq(ReadingType) /\ DOMAIN log = 1..Len(log) /\ Len(log) \in Nat
BY DEF TInv, Lists

LEMMA OpensIs ==
    ASSUME TInv, NEW j \in 1..Len(log)
    PROVE  /\ kind \in GateKinds => (OpensAt(j) <=> GOpens(log, j)) /\ (ClosesAt(j) <=> GCloses(log, j))
           /\ kind = "expected" => (OpensAt(j) <=> EOpens(log, j)) /\ (ClosesAt(j) <=> log[j].v = 0)
           /\ kind = "host_disk_forecast" =>
                 (OpensAt(j) <=> FOpens(log, j)) /\ (ClosesAt(j) <=> FCloses(log, j))
           /\ kind = "images" => ~OpensAt(j)
           /\ kind # "host_disk_forecast" => ~Doubted(j)
           /\ kind = "host_disk_forecast" => (Doubted(j) <=> FDoubted(log, j))
<1>1. Len(log) \in Nat /\ j \in Nat
  BY LogDomain
<1>2. ASSUME kind \in GateKinds
      PROVE  (OpensAt(j) <=> GOpens(log, j)) /\ (ClosesAt(j) <=> GCloses(log, j))
  <2>1. kind \notin {"host_disk_forecast", "expected", "images"}
    BY <1>2 DEF GateKinds, HostGates
  <2>2. OpensAt(j) <=> \E i \in 1..j :
            RunOf(i, j, LAMBDA r : r.v >= Threshold /\ r.run = log[j].run, Sustain)
    BY <2>1 DEF OpensAt
  <2>3. \A i \in 1..j : i <= j
    BY <1>1
  <2>4. ClosesAt(j) <=> IF Threshold < 10 THEN 2 * log[j].v < Threshold ELSE log[j].v < Threshold - 5
    BY <2>1 DEF ClosesAt
  <2> QED BY <2>2, <2>3, <2>4 DEF RunOf, GOpens, GCloses
<1>3. ASSUME kind = "expected"
      PROVE  (OpensAt(j) <=> EOpens(log, j)) /\ (ClosesAt(j) <=> log[j].v = 0)
  <2>1. OpensAt(j) <=> \E i \in 1..j : RunOf(i, j, LAMBDA r : r.v = 1, Grace)
    BY <1>3 DEF OpensAt
  <2>2. \A i \in 1..j : i <= j
    BY <1>1
  <2>3. ClosesAt(j) <=> log[j].v = 0
    BY <1>3 DEF ClosesAt
  <2> QED BY <2>1, <2>2, <2>3 DEF RunOf, EOpens
<1>4. ASSUME kind = "host_disk_forecast"
      PROVE  (OpensAt(j) <=> FOpens(log, j)) /\ (ClosesAt(j) <=> FCloses(log, j))
  BY <1>4 DEF OpensAt, ClosesAt, WindowAt, FWindow, UpTo, FOpens, FCloses
<1>5. kind = "images" => ~OpensAt(j)
  BY DEF OpensAt
<1>6. kind # "host_disk_forecast" => ~Doubted(j)
  BY DEF Doubted
<1>7. kind = "host_disk_forecast" => (Doubted(j) <=> FDoubted(log, j))
  BY DEF Doubted, FDoubted, UpTo
<1> QED BY <1>2, <1>3, <1>4, <1>5, <1>6, <1>7

LEMMA EarnedIs ==
    ASSUME TInv
    PROVE  /\ kind \in GateKinds => (Earned <=> GEarned(log)) /\ (Lasting <=> GEarned(log))
           /\ kind = "expected" => (Earned <=> EEarned(log)) /\ (Lasting <=> EEarned(log))
           /\ kind = "host_disk_forecast" => (Earned <=> FEarned(log)) /\ (Lasting <=> FLasting(log))
           /\ kind = "images" => ~Earned /\ ~Lasting
<1>1. DOMAIN log = 1..Len(log) /\ Len(log) \in Nat
  BY LogDomain
<1>2. \A j \in 1..Len(log) : /\ \A k \in j + 1..Len(log) : k \in 1..Len(log)
                             /\ \A k \in j..Len(log) - 1 : k \in 1..Len(log)
  BY <1>1
<1>3. ASSUME kind \in GateKinds PROVE (Earned <=> GEarned(log)) /\ (Lasting <=> GEarned(log))
  <2>1. kind # "host_disk_forecast"
    BY <1>3 DEF GateKinds, HostGates
  <2>2. \A j \in 1..Len(log) : /\ OpensAt(j) <=> GOpens(log, j)
                               /\ ClosesAt(j) <=> GCloses(log, j)
                               /\ ~Doubted(j)
    BY <1>3, <2>1, OpensIs
  <2> QED BY <1>1, <1>2, <2>2 DEF Earned, Lasting, GEarned
<1>4. ASSUME kind = "expected" PROVE (Earned <=> EEarned(log)) /\ (Lasting <=> EEarned(log))
  <2>1. \A j \in 1..Len(log) : /\ OpensAt(j) <=> EOpens(log, j)
                               /\ ClosesAt(j) <=> log[j].v = 0
                               /\ ~Doubted(j)
    BY <1>4, OpensIs
  <2> QED BY <1>1, <1>2, <2>1 DEF Earned, Lasting, EEarned
<1>5. ASSUME kind = "host_disk_forecast"
      PROVE  (Earned <=> FEarned(log)) /\ (Lasting <=> FLasting(log))
  <2>1. \A j \in 1..Len(log) : /\ OpensAt(j) <=> FOpens(log, j)
                               /\ ClosesAt(j) <=> FCloses(log, j)
                               /\ Doubted(j) <=> FDoubted(log, j)
    BY <1>5, OpensIs
  <2> QED BY <1>1, <1>2, <2>1 DEF Earned, Lasting, FEarned, FLasting
<1>6. kind = "images" => ~Earned /\ ~Lasting
  BY <1>1, OpensIs DEF Earned, Lasting
<1> QED BY <1>3, <1>4, <1>5, <1>6

LEMMA AllKinds ==
    ASSUME TInv
    PROVE  kind \in GateKinds \cup {"expected", "host_disk_forecast", "images"}
BY ThresholdsAssumption DEF TInv, Basics, GateKinds, HostGates

LEMMA AlarmIs ==
    ASSUME AInv
    PROVE  AlarmRight
<1>1. TInv /\ OffInv /\ GateInv /\ ExpectedInv /\ ForecastInv
  BY DEF AInv
<1>2. AlarmEarned /\ AlarmKept
  <2> SUFFICES ASSUME up
               PROVE  /\ alarm => Earned
                      /\ read /\ Lasting /\ (kind = "host_disk_forecast" => Enough(WindowAt(Len(log)))) => alarm
    BY DEF AlarmEarned, AlarmKept
  <2>1. CASE kind \in GateKinds
    <3>1. (alarm => gate.firing) /\ (read /\ gate.firing => alarm)
          /\ (gate.firing => GEarned(log)) /\ (GEarned(log) => gate.firing)
      BY <1>1, <2>1 DEF GateInv, GateUp, Follows
    <3>2. (Earned <=> GEarned(log)) /\ (Lasting <=> GEarned(log))
      BY <1>1, <2>1, EarnedIs
    <3> QED BY <3>1, <3>2
  <2>2. CASE kind = "expected"
    <3>1. (alarm => EEarned(log)) /\ (read /\ EEarned(log) => alarm)
      BY <1>1, <2>2 DEF ExpectedInv
    <3>2. (Earned <=> EEarned(log)) /\ (Lasting <=> EEarned(log))
      BY <1>1, <2>2, EarnedIs
    <3> QED BY <3>1, <3>2
  <2>3. CASE kind = "host_disk_forecast"
    <3>1. ForecastUp
      BY <1>1, <2>3 DEF ForecastInv
    <3>2. (Earned <=> FEarned(log)) /\ (Lasting <=> FLasting(log))
      BY <1>1, <2>3, EarnedIs
    <3>3. WindowAt(Len(log)) = FWindow(log, Len(log))
      BY DEF WindowAt, FWindow, UpTo
    <3>4. (alarm => gate.firing) /\ (gate.firing => FEarned(log))
      BY <3>1 DEF ForecastUp
    <3>5. read => /\ FLasting(log) => gate.firing
                  /\ Enough(FWindow(log, Len(log))) /\ gate.firing => alarm
      BY <3>1 DEF ForecastUp
    <3> QED BY <2>3, <3>2, <3>3, <3>4, <3>5
  <2>4. CASE kind = "images"
    <3>1. ~alarm /\ ~Lasting
      BY <1>1, <2>4, EarnedIs DEF OffInv
    <3> QED BY <3>1
  <2> QED BY <1>1, <2>1, <2>2, <2>3, <2>4, AllKinds
<1> QED BY <1>1, <1>2, TypesAre DEF AlarmRight

(* An alarm that is on was earned by the readings, and an earned one is on *)
(* after every check that takes a reading: of the gates, of the expected   *)
(* containers and of the forecast, over failed reads, crashes and restarts *)
(* with whatever the file had (Check, SaveState and LoadState of the       *)
(* detectors, trackSet and restoreEpisode of the engine).                  *)
THEOREM AlarmsRight == Spec => []AlarmRight
<1>1. Init => AInv
  BY InitInv
<1>2. AInv /\ [Next]_vars => AInv'
  BY NextInv
<1>3. AInv => AlarmRight
  BY AlarmIs
<1> QED BY <1>1, <1>2, <1>3, PTL DEF Spec

-----------------------------------------------------------------------------
(* The least-squares slope: its sign where the readings only rise, and its *)
(* value where they are on a line.                                         *)
LEMMA TermSign ==
    ASSUME NEW p \in Int, NEW q \in Int, NEW u \in Int, NEW w \in Int, NEW e \in {0, 1},
           p < u, q + e <= w
    PROVE  (p - u) * (q - w) >= e
<1>1. PICK a \in Nat, b \in Nat : a = u - p /\ b = w - q /\ a >= 1 /\ b >= e
  OBVIOUS
<1>2. (p - u) * (q - w) = a * b
  BY <1>1
<1>3. a * b >= e
  <2>1. CASE b = 0
    BY <1>1, <2>1
  <2>2. CASE b # 0
    <3>1. \A m, n \in Nat : m >= 1 /\ n >= 1 => m * n >= 1
      OBVIOUS
    <3> QED BY <1>1, <2>2, <3>1
  <2> QED BY <2>1, <2>2
<1> QED BY <1>1, <1>2, <1>3

(* Two sequences that rise together, the second by e at least.             *)
Rising(x, y, n, e) ==
    /\ \A i \in 1..n : x[i] \in Int /\ y[i] \in Int
    /\ \A i, j \in 1..n : i < j => x[i] < x[j] /\ y[i] + e <= y[j]

LEMMA Terms ==
    ASSUME NEW n \in Nat, NEW x, NEW y, NEW e \in {0, 1}, Rising(x, y, n, e),
           NEW sx, NEW sy, NEW sxy,
           Running(sx, x, n), Running(sy, y, n), Running(sxy, Products(x, y, n), n),
           NEW k \in 1..n - 1, NEW u, u = x[k + 1], NEW w, w = y[k + 1]
    PROVE  sxy[k] - sx[k] * w - u * sy[k] + k * (u * w) >= e
<1>1. k + 1 \in 1..n /\ u \in Int /\ w \in Int
  BY DEF Rising
<1>2. \A i \in 0..n : sx[i] \in Int /\ sy[i] \in Int /\ sxy[i] \in Int
  BY DEF Running
<1>3. \A i \in 1..n : Products(x, y, n)[i] = x[i] * y[i]
  BY ProductsType DEF Rising
<1> DEFINE E(j) == sxy[j] - sx[j] * w - u * sy[j] + j * (u * w)
<1>4. ASSUME NEW j \in 0..k - 1
      PROVE  \E d \in Int : d >= e /\ E(j + 1) = E(j) + d
  <2>1. j \in 0..n - 1 /\ j \in 0..n /\ j + 1 \in 1..n /\ j + 1 < k + 1 /\ j \in Int /\ k + 1 \in 1..n
    BY <1>1
  <2>2. PICK a \in Int, b \in Int, c \in Int, p \in Int, q \in Int :
          a = sxy[j] /\ b = sx[j] /\ c = sy[j] /\ p = x[j + 1] /\ q = y[j + 1]
    BY <1>2, <2>1 DEF Rising
  <2>3. /\ sx[j + 1] = b + p /\ sy[j + 1] = c + q
        /\ sxy[j + 1] = a + Products(x, y, n)[j + 1]
    BY <2>1, <2>2 DEF Running
  <2>4. sxy[j + 1] = a + p * q
    BY <1>3, <2>1, <2>2, <2>3
  <2>5. p < u /\ q + e <= w
    BY <1>1, <2>1, <2>2 DEF Rising
  <2>6. PICK d \in Int : d = (p - u) * (q - w) /\ d >= e
    BY <1>1, <2>2, <2>5, TermSign
  <2>7. E(j + 1) = (a + p * q) - (b + p) * w - u * (c + q) + (j + 1) * (u * w)
    BY <2>3, <2>4
  <2>8. E(j) = a - b * w - u * c + j * (u * w)
    BY <2>2
  <2>9. (a + p * q) - (b + p) * w - u * (c + q) + (j + 1) * (u * w)
           = (a - b * w - u * c + j * (u * w)) + (p - u) * (q - w)
    <3>1. /\ a \in Int /\ b \in Int /\ c \in Int /\ p \in Int /\ q \in Int
          /\ u \in Int /\ w \in Int /\ j \in Int
      BY <1>1, <2>1, <2>2
    <3>2. PICK s \in Int : s = u * w
      BY <3>1
    <3>3. (p - u) * (q - w) = p * q - p * w - u * q + s
      BY <3>1, <3>2
    <3>4. (b + p) * w = b * w + p * w
      BY <3>1
    <3>5. u * (c + q) = u * c + u * q
      BY <3>1
    <3>6. (j + 1) * s = j * s + s
      BY <3>1, <3>2
    <3>7. PICK b1 \in Int, b2 \in Int, b3 \in Int, b4 \in Int, b5 \in Int, b6 \in Int :
            /\ b1 = p * q /\ b2 = p * w /\ b3 = u * q /\ b4 = b * w /\ b5 = u * c /\ b6 = j * s
      <4>1. p * q \in Int /\ p * w \in Int /\ u * q \in Int
        BY <3>1
      <4>2. b * w \in Int /\ u * c \in Int /\ j * s \in Int
        BY <3>1, <3>2
      <4> QED BY <4>1, <4>2, Zenon
    <3>8. /\ (p - u) * (q - w) = b1 - b2 - b3 + s /\ (b + p) * w = b4 + b2
          /\ u * (c + q) = b5 + b3 /\ (j + 1) * s = b6 + s
      BY <3>3, <3>4, <3>5, <3>6, <3>7
    <3>9. (a + b1) - (b4 + b2) - (b5 + b3) + (b6 + s)
            = (a - b4 - b5 + b6) + (b1 - b2 - b3 + s)
      BY <3>1, <3>2, <3>7
    <3> QED BY <3>2, <3>7, <3>8, <3>9
  <2> HIDE DEF E
  <2> QED BY <2>6, <2>7, <2>8, <2>9
<1>5. \A j \in 0..n : E(j) \in Int
  BY <1>1, <1>2
<1>6. E(0) = 0
  BY <1>1 DEF Running
<1> HIDE DEF E
<1>7. PICK T : T = {j \in Nat : j <= k => E(j) >= 0 /\ (j >= 1 => E(j) >= e)}
  OBVIOUS
<1>8. 0 \in T
  BY <1>6, <1>7
<1>9. ASSUME NEW j \in Nat, j \in T PROVE j + 1 \in T
  <2>1. CASE j + 1 <= k
    <3>1. j \in 0..k - 1 /\ j \in 0..n /\ j <= k
      BY <2>1
    <3>2. PICK d \in Int : d >= e /\ E(j + 1) = E(j) + d
      BY <1>4, <3>1
    <3>3. E(j) \in Int /\ E(j) >= 0
      BY <1>5, <1>7, <1>9, <3>1
    <3>4. E(j + 1) >= e /\ E(j + 1) >= 0
      BY <3>2, <3>3
    <3> QED BY <1>7, <3>4
  <2>2. CASE ~(j + 1 <= k)
    BY <1>7, <2>2
  <2> QED BY <2>1, <2>2
<1>10. Nat \subseteq T
  BY <1>8, <1>9, SetInduction
<1>11. E(k) >= e
  BY <1>7, <1>10
<1> QED BY <1>11 DEF E

LEMMA SlopeSign ==
    ASSUME NEW n \in Nat, NEW x, NEW y, NEW e \in {0, 1}, Rising(x, y, n, e),
           NEW sx, NEW sy, NEW sxy,
           Running(sx, x, n), Running(sy, y, n), Running(sxy, Products(x, y, n), n), n >= 2
    PROVE  n * sxy[n] - sx[n] * sy[n] >= e
<1>1. \A i \in 0..n : sx[i] \in Int /\ sy[i] \in Int /\ sxy[i] \in Int
  BY DEF Running
<1>2. \A i \in 1..n : Products(x, y, n)[i] = x[i] * y[i]
  BY ProductsType DEF Rising
<1> DEFINE D(j) == j * sxy[j] - sx[j] * sy[j]
<1>3. ASSUME NEW k \in 0..n - 1
      PROVE  \E d \in Int : /\ D(k + 1) = D(k) + d
                            /\ k = 0 => d = 0
                            /\ k >= 1 => d >= e
  <2>1. k \in 0..n /\ k + 1 \in 1..n /\ k \in Int
    OBVIOUS
  <2>2. PICK a \in Int, b \in Int, c \in Int, u \in Int, w \in Int :
          a = sxy[k] /\ b = sx[k] /\ c = sy[k] /\ u = x[k + 1] /\ w = y[k + 1]
    BY <1>1, <2>1 DEF Rising
  <2>3. /\ sx[k + 1] = b + u /\ sy[k + 1] = c + w
        /\ sxy[k + 1] = a + Products(x, y, n)[k + 1]
    BY <2>1, <2>2 DEF Running
  <2>4. sxy[k + 1] = a + u * w
    BY <1>2, <2>1, <2>2, <2>3
  <2>5. PICK d \in Int : d = a - b * w - u * c + k * (u * w)
    BY <2>1, <2>2
  <2>6. D(k + 1) = (k + 1) * (a + u * w) - (b + u) * (c + w)
    BY <2>3, <2>4
  <2>7. D(k) = k * a - b * c
    BY <2>2
  <2>8. (k + 1) * (a + u * w) - (b + u) * (c + w)
             = (k * a - b * c) + (a - b * w - u * c + k * (u * w))
    <3>1. /\ a \in Int /\ b \in Int /\ c \in Int /\ u \in Int /\ w \in Int /\ k \in Int
      BY <2>1, <2>2
    <3> QED BY <3>1
  <2>9. k = 0 => d = 0
    <3> SUFFICES ASSUME k = 0 PROVE d = 0
      OBVIOUS
    <3>1. a = 0 /\ b = 0 /\ c = 0
      BY <2>2 DEF Running
    <3> QED BY <2>2, <2>5, <3>1
  <2>10. k >= 1 => d >= e
    <3> SUFFICES ASSUME k >= 1 PROVE d >= e
      OBVIOUS
    <3>1. k \in 1..n - 1
      BY <2>1
    <3>2. sxy[k] - sx[k] * w - u * sy[k] + k * (u * w) >= e
      BY <2>2, <3>1, Terms
    <3> QED BY <2>2, <2>5, <3>2
  <2>11. D(k + 1) = D(k) + d
    BY <2>5, <2>6, <2>7, <2>8
  <2> HIDE DEF D
  <2> QED BY <2>9, <2>10, <2>11
<1>4. \A j \in 0..n : D(j) \in Int
  BY <1>1
<1>5. D(0) = 0
  BY <1>1 DEF Running
<1> HIDE DEF D
<1>6. PICK T : T = {j \in Nat : j <= n => D(j) >= 0 /\ (j >= 2 => D(j) >= e)}
  OBVIOUS
<1>7. 0 \in T
  BY <1>5, <1>6
<1>8. ASSUME NEW j \in Nat, j \in T PROVE j + 1 \in T
  <2>1. CASE j + 1 <= n
    <3>1. j \in 0..n - 1 /\ j \in 0..n /\ j <= n
      BY <2>1
    <3>2. PICK d \in Int : /\ D(j + 1) = D(j) + d
                           /\ j = 0 => d = 0
                           /\ j >= 1 => d >= e
      BY <1>3, <3>1
    <3>3. D(j) \in Int /\ D(j) >= 0
      BY <1>4, <1>6, <1>8, <3>1
    <3>4. D(j + 1) >= 0 /\ (j + 1 >= 2 => D(j + 1) >= e)
      BY <3>2, <3>3
    <3> QED BY <1>6, <3>4
  <2>2. CASE ~(j + 1 <= n)
    BY <1>6, <2>2
  <2> QED BY <2>1, <2>2
<1>9. Nat \subseteq T
  BY <1>7, <1>8, SetInduction
<1>10. D(n) >= e
  BY <1>6, <1>9
<1> QED BY <1>10 DEF D

Line(x, y, n, g, dv, dt) ==
    /\ \A i \in 1..n : x[i] \in Int /\ y[i] \in Int
    /\ \A i \in 1..n : dt * y[i] = g - dv * x[i]

LEMMA OnLine ==
    ASSUME NEW n \in Nat, NEW x, NEW y,
           NEW g \in Int, NEW dv \in Int, NEW dt \in Int, Line(x, y, n, g, dv, dt),
           NEW sx, NEW sy, NEW sxx, NEW sxy,
           Running(sx, x, n), Running(sy, y, n),
           Running(sxx, Products(x, x, n), n), Running(sxy, Products(x, y, n), n)
    PROVE  dt * (n * sxy[n] - sx[n] * sy[n]) = 0 - dv * (n * sxx[n] - sx[n] * sx[n])
<1>1. \A i \in 0..n : sx[i] \in Int /\ sy[i] \in Int /\ sxx[i] \in Int /\ sxy[i] \in Int
  BY DEF Running
<1>2. \A i \in 1..n : Products(x, x, n)[i] = x[i] * x[i] /\ Products(x, y, n)[i] = x[i] * y[i]
  BY DEF Products
<1>3. PICK T : T = {j \in Nat : j <= n => /\ dt * sy[j] = j * g - dv * sx[j]
                                          /\ dt * sxy[j] = g * sx[j] - dv * sxx[j]}
  OBVIOUS
<1>4. 0 \in T
  <2>1. sx[0] = 0 /\ sy[0] = 0 /\ sxx[0] = 0 /\ sxy[0] = 0
    BY DEF Running
  <2>2. dt * 0 = 0 * g - dv * 0 /\ dt * 0 = g * 0 - dv * 0
    OBVIOUS
  <2> QED BY <1>3, <2>1, <2>2
<1>5. ASSUME NEW j \in Nat, j \in T PROVE j + 1 \in T
  <2>1. CASE j + 1 <= n
    <3>1. j \in 0..n - 1 /\ j \in 0..n /\ j + 1 \in 1..n /\ j <= n
      BY <2>1
    <3>2. PICK a \in Int, b \in Int, c \in Int, d \in Int, p \in Int, q \in Int :
            a = sxy[j] /\ b = sx[j] /\ c = sy[j] /\ d = sxx[j] /\ p = x[j + 1] /\ q = y[j + 1]
      BY <1>1, <3>1 DEF Line
    <3>3. /\ sx[j + 1] = b + p /\ sy[j + 1] = c + q
          /\ sxx[j + 1] = d + p * p /\ sxy[j + 1] = a + p * q
      <4>1. /\ sx[j + 1] = b + p /\ sy[j + 1] = c + q
            /\ sxx[j + 1] = d + Products(x, x, n)[j + 1]
            /\ sxy[j + 1] = a + Products(x, y, n)[j + 1]
        BY <3>1, <3>2 DEF Running
      <4> QED BY <1>2, <3>1, <3>2, <4>1
    <3>4. dt * c = j * g - dv * b /\ dt * a = g * b - dv * d /\ dt * q = g - dv * p
      BY <1>3, <1>5, <3>1, <3>2 DEF Line
    <3>5. a \in Int /\ b \in Int /\ c \in Int /\ d \in Int /\ p \in Int /\ q \in Int /\ j \in Int
      BY <3>2
    <3>6. dt * (c + q) = dt * c + dt * q /\ dv * (b + p) = dv * b + dv * p /\ (j + 1) * g = j * g + g
      <4>1. dt * (c + q) = dt * c + dt * q
        BY <3>5
      <4>2. dv * (b + p) = dv * b + dv * p
        BY <3>5
      <4>3. (j + 1) * g = j * g + g
        BY <3>5
      <4> QED BY <4>1, <4>2, <4>3
    <3>7. dt * (c + q) = (j + 1) * g - dv * (b + p)
      <4>1. PICK b1 \in Int, b2 \in Int, b3 \in Int : b1 = dv * b /\ b2 = dv * p /\ b3 = j * g
        BY <3>5
      <4> QED BY <3>4, <3>5, <3>6, <4>1
    <3>8. dt * (a + p * q) = g * (b + p) - dv * (d + p * p)
      <4>1. PICK b1 \in Int, b2 \in Int, b3 \in Int, b4 \in Int :
              b1 = g * b /\ b2 = dv * d /\ b3 = g * p /\ b4 = dv * (p * p)
        <5>1. g * b \in Int /\ dv * d \in Int /\ g * p \in Int /\ dv * (p * p) \in Int
          BY <3>5
        <5> QED BY <5>1, Zenon
      <4>2. dt * (a + p * q) = dt * a + p * (dt * q)
        BY <3>5
      <4>3. p * (g - dv * p) = b3 - b4
        BY <3>5, <4>1
      <4>4. g * (b + p) = b1 + b3 /\ dv * (d + p * p) = b2 + b4
        BY <3>5, <4>1
      <4>5. dt * a = b1 - b2 /\ p * (dt * q) = b3 - b4
        BY <3>4, <4>1, <4>3
      <4>6. (b1 - b2) + (b3 - b4) = (b1 + b3) - (b2 + b4)
        BY <4>1
      <4> QED BY <4>2, <4>4, <4>5, <4>6
    <3>9. /\ dt * sy[j + 1] = (j + 1) * g - dv * sx[j + 1]
          /\ dt * sxy[j + 1] = g * sx[j + 1] - dv * sxx[j + 1]
      BY <3>3, <3>7, <3>8, Zenon
    <3>10. j + 1 \in Nat
      OBVIOUS
    <3> QED BY <1>3, <3>9, <3>10, Zenon
  <2>2. CASE ~(j + 1 <= n)
    BY <1>3, <2>2
  <2> QED BY <2>1, <2>2
<1>6. Nat \subseteq T
  BY <1>4, <1>5, SetInduction
<1>7. PICK a \in Int, b \in Int, c \in Int, d \in Int :
        a = sxy[n] /\ b = sx[n] /\ c = sy[n] /\ d = sxx[n]
  <2>1. n \in 0..n
    OBVIOUS
  <2> QED BY <1>1, <2>1
<1>8. dt * c = n * g - dv * b /\ dt * a = g * b - dv * d
  BY <1>3, <1>6, <1>7
<1>9. a \in Int /\ b \in Int /\ c \in Int /\ d \in Int /\ n \in Int
  BY <1>7
<1>10. dt * (n * a - b * c) = 0 - dv * (n * d - b * b)
  <2>1. PICK b1 \in Int, b2 \in Int, b3 \in Int :
          b1 = n * (g * b) /\ b2 = dv * (n * d) /\ b3 = dv * (b * b)
    <3>1. n * (g * b) \in Int /\ dv * (n * d) \in Int /\ dv * (b * b) \in Int
      BY <1>9
    <3> QED BY <3>1, Zenon
  <2>2. dt * (n * a - b * c) = n * (dt * a) - b * (dt * c)
    BY <1>9
  <2>3. n * (g * b - dv * d) = b1 - b2
    BY <1>9, <2>1
  <2>4. b * (n * g - dv * b) = b1 - b3
    BY <1>9, <2>1
  <2>5. dv * (n * d - b * b) = b2 - b3
    BY <1>9, <2>1
  <2>6. n * (dt * a) = b1 - b2 /\ b * (dt * c) = b1 - b3
    BY <1>8, <2>3, <2>4
  <2>7. (b1 - b2) - (b1 - b3) = 0 - (b2 - b3)
    BY <2>1
  <2> QED BY <2>2, <2>5, <2>6, <2>7
<1> QED BY <1>7, <1>10

LEMMA Window1 ==
    ASSUME NEW s \in Seq(ReadingType), Ordered(s)
    PROVE  /\ Len(s) \in Nat
           /\ \A i \in 1..Len(s) : /\ s[i].at \in Nat /\ s[i].v \in Int
                                   /\ XOf(s)[i] = s[i].at - s[1].at /\ XOf(s)[i] \in Int
                                   /\ YOf(s)[i] = s[i].v /\ YOf(s)[i] \in Int
           /\ \A i, j \in 1..Len(s) : i < j => XOf(s)[i] < XOf(s)[j]
           /\ Rising(XOf(s), XOf(s), Len(s), 1)
<1>1. Len(s) \in Nat /\ \A i \in 1..Len(s) : s[i].at \in Nat /\ s[i].v \in Int /\ 1 \in 1..Len(s)
  BY Readings
<1>2. \A i \in 1..Len(s) : /\ XOf(s)[i] = s[i].at - s[1].at /\ XOf(s)[i] \in Int
                           /\ YOf(s)[i] = s[i].v /\ YOf(s)[i] \in Int
  BY <1>1 DEF XOf, YOf
<1>3. ASSUME NEW i \in 1..Len(s), NEW j \in 1..Len(s), i < j
      PROVE  XOf(s)[i] < XOf(s)[j] /\ XOf(s)[i] + 1 <= XOf(s)[j]
  <2>1. s[i].at < s[j].at
    BY <1>3 DEF Ordered
  <2> QED BY <1>1, <1>2, <2>1, SMTT(30)
<1> QED BY <1>1, <1>2, <1>3 DEF Rising

LEMMA LosesSpace ==
    ASSUME NEW s \in Seq(ReadingType), Ordered(s), Len(s) >= 2, NEW limit, FullWithin(s, limit)
    PROVE  \E i, j \in DOMAIN s : i < j /\ s[j].v < s[i].v
<1> SUFFICES ASSUME ~ \E i, j \in DOMAIN s : i < j /\ s[j].v < s[i].v PROVE FALSE
  OBVIOUS
<1>1. PICK n \in Nat : n = Len(s) /\ n >= 2 /\ n \in 0..n
  OBVIOUS
<1>2. /\ \A i \in 1..n : s[i].v \in Int /\ YOf(s)[i] = s[i].v /\ XOf(s)[i] \in Int /\ YOf(s)[i] \in Int
      /\ \A i, j \in 1..n : i < j => XOf(s)[i] < XOf(s)[j]
  BY <1>1, Window1
<1>3. ASSUME NEW i \in 1..n, NEW j \in 1..n, i < j PROVE YOf(s)[i] + 0 <= YOf(s)[j]
  <2>1. i \in DOMAIN s /\ j \in DOMAIN s
    BY <1>1
  <2>2. ~(s[j].v < s[i].v)
    BY <1>3, <2>1
  <2> QED BY <1>2, <2>2
<1>4. Rising(XOf(s), YOf(s), n, 0)
  BY <1>2, <1>3 DEF Rising
<1>5. PICK sx, sy, sxx, sxy :
        /\ Running(sx, XOf(s), n) /\ Running(sy, YOf(s), n)
        /\ Running(sxx, Products(XOf(s), XOf(s), n), n) /\ Running(sxy, Products(XOf(s), YOf(s), n), n)
        /\ fitSlope(s) = [num |-> n * sxy[n] - sx[n] * sy[n], den |-> n * sxx[n] - sx[n] * sx[n]]
  BY <1>1, SlopeIs
<1>6. n * sxy[n] - sx[n] * sy[n] >= 0
  BY <1>1, <1>4, <1>5, SlopeSign
<1>7. fitSlope(s).num >= 0 /\ fitSlope(s).num \in Int
  BY <1>5, <1>6, SlopeType
<1> QED BY <1>7 DEF FullWithin

LEMMA MoreOf ==
    ASSUME NEW a \in Int, NEW b \in Int, NEW c \in Int, c > 0
    PROVE  (a <= b) <=> (a * c <= b * c)
<1>1. CASE a <= b
  <2>1. PICK d \in Nat : d = b - a
    BY <1>1
  <2>2. \A x, y \in Nat : x * y >= 0
    OBVIOUS
  <2>3. d * c >= 0 /\ b * c = a * c + d * c
    BY <2>1, <2>2
  <2>4. a * c \in Int /\ b * c \in Int /\ d * c \in Int
    BY <2>1
  <2> QED BY <1>1, <2>3, <2>4
<1>2. CASE ~(a <= b)
  <2>1. PICK d \in Nat : d = a - b /\ d >= 1
    BY <1>2
  <2>2. \A x, y \in Nat : x >= 1 /\ y >= 1 => x * y >= 1
    OBVIOUS
  <2>3. d * c >= 1 /\ a * c = b * c + d * c
    BY <2>1, <2>2
  <2>4. a * c \in Int /\ b * c \in Int /\ d * c \in Int
    BY <2>1
  <2> QED BY <1>2, <2>3, <2>4
<1> QED BY <1>1, <1>2

LEMMA StraightFall ==
    ASSUME NEW s \in Seq(ReadingType), Ordered(s), Len(s) >= 2, Straight(s),
           NEW dv, dv = s[1].v - Last(s).v, NEW dt, dt = Last(s).at - s[1].at
    PROVE  /\ dv \in Int /\ dt \in Int /\ dt > 0
           /\ \A i \in 1..Len(s) : dt * YOf(s)[i] = dt * s[1].v - dv * XOf(s)[i]
<1>1. PICK n \in Nat : n = Len(s) /\ n >= 2 /\ 1 \in 1..n /\ n \in 1..n
  OBVIOUS
<1>2. \A i \in 1..n : /\ s[i].at \in Nat /\ s[i].v \in Int
                      /\ XOf(s)[i] = s[i].at - s[1].at /\ YOf(s)[i] = s[i].v
  BY <1>1, Window1
<1>3. Last(s) = s[n]
  BY <1>1 DEF Last
<1>4. s[1].at < s[n].at
  BY <1>1 DEF Ordered
<1>5. dv \in Int /\ dt \in Int /\ dt > 0
  BY <1>1, <1>2, <1>3, <1>4
<1>6. \A k \in 1..n - 1 : (s[k].v - s[k + 1].v) * dt = dv * (s[k + 1].at - s[k].at)
  BY <1>1 DEF Straight
<1>7. PICK T : T = {k \in Nat : k + 1 <= n =>
                      dt * s[k + 1].v = dt * s[1].v - dv * (s[k + 1].at - s[1].at)}
  OBVIOUS
<1>8. 0 \in T
  <2>1. s[1].at - s[1].at = 0 /\ s[1].v \in Int
    BY <1>1, <1>2
  <2>2. dv * 0 = 0 /\ dt * s[1].v \in Int
    BY <1>5, <2>1
  <2>3. dt * s[1].v = dt * s[1].v - dv * (s[1].at - s[1].at)
    BY <2>1, <2>2
  <2> QED BY <1>7, <2>3
<1>9. ASSUME NEW k \in Nat, k \in T PROVE k + 1 \in T
  <2>1. CASE (k + 1) + 1 <= n
    <3>1. k + 1 \in 1..n - 1 /\ k + 1 \in 1..n /\ (k + 1) + 1 \in 1..n /\ k + 1 <= n
      BY <2>1
    <3>2. PICK a \in Int, b \in Int, c \in Int, d \in Int, e \in Int, f \in Int :
            /\ a = s[1].v /\ b = s[k + 1].v /\ c = s[(k + 1) + 1].v
            /\ d = s[1].at /\ e = s[k + 1].at /\ f = s[(k + 1) + 1].at
      <4>1. /\ s[1].v \in Int /\ s[k + 1].v \in Int /\ s[(k + 1) + 1].v \in Int
            /\ s[1].at \in Int /\ s[k + 1].at \in Int /\ s[(k + 1) + 1].at \in Int
        BY <1>1, <1>2, <3>1
      <4> QED BY <4>1, Zenon
    <3>3. dt * b = dt * a - dv * (e - d) /\ (b - c) * dt = dv * (f - e)
      BY <1>6, <1>7, <1>9, <3>1, <3>2
    <3>4. a \in Int /\ b \in Int /\ c \in Int /\ d \in Int /\ e \in Int /\ f \in Int
          /\ dv \in Int /\ dt \in Int
      BY <1>5, <3>2
    <3>5. (b - c) * dt = dt * b - dt * c
      BY <3>4
    <3>6. dv * (e - d) + dv * (f - e) = dv * (f - d)
      BY <3>4
    <3>7. dt * a \in Int /\ dt * b \in Int /\ dt * c \in Int /\ dv * (e - d) \in Int
          /\ dv * (f - e) \in Int /\ dv * (f - d) \in Int
      BY <3>4, SMTT(30)
    <3>8. dt * c = dt * a - dv * (f - d)
      <4>1. PICK m1 \in Int, m2 \in Int, m3 \in Int, m4 \in Int, m5 \in Int, m6 \in Int :
              /\ m1 = dt * a /\ m2 = dt * b /\ m3 = dt * c /\ m4 = dv * (e - d)
              /\ m5 = dv * (f - e) /\ m6 = dv * (f - d)
        BY <3>7, Zenon
      <4>2. m2 = m1 - m4 /\ m2 - m3 = m5 /\ m4 + m5 = m6
        <5>1. m2 = m1 - m4
          BY <3>3, <4>1, Zenon
        <5>2. (b - c) * dt = m2 - m3
          BY <3>5, <4>1, Zenon
        <5>3. (b - c) * dt = m5
          BY <3>3, <4>1, Zenon
        <5>4. m4 + m5 = m6
          BY <3>6, <4>1, Zenon
        <5> QED BY <5>1, <5>2, <5>3, <5>4
      <4>3. m3 = m1 - m6
        BY <4>2
      <4> QED BY <4>1, <4>3, Zenon
    <3>9. dt * s[(k + 1) + 1].v = dt * s[1].v - dv * (s[(k + 1) + 1].at - s[1].at)
      BY <3>2, <3>8, Zenon
    <3>10. k + 1 \in Nat
      OBVIOUS
    <3> QED BY <1>7, <3>9, <3>10, Zenon
  <2>2. CASE ~((k + 1) + 1 <= n)
    BY <1>7, <2>2
  <2> QED BY <2>1, <2>2
<1>10. Nat \subseteq T
  BY <1>8, <1>9, SetInduction
<1>11. ASSUME NEW i \in 1..n PROVE dt * YOf(s)[i] = dt * s[1].v - dv * XOf(s)[i]
  <2>1. i - 1 \in T /\ (i - 1) + 1 = i /\ i <= n
    BY <1>10
  <2>2. dt * s[i].v = dt * s[1].v - dv * (s[i].at - s[1].at)
    BY <1>7, <2>1
  <2> QED BY <1>2, <2>2
<1> QED BY <1>1, <1>5, <1>11

LEMMA StraightIs ==
    ASSUME NEW s \in Seq(ReadingType), Ordered(s), Len(s) >= 2, Straight(s),
           NEW dv, dv = s[1].v - Last(s).v, NEW dt, dt = Last(s).at - s[1].at, dv > 0,
           NEW limit \in Nat
    PROVE  FullWithin(s, limit) <=> Last(s).v * dt <= limit * dv
<1>1. PICK n \in Nat : n = Len(s) /\ n >= 2 /\ n \in 1..n /\ n \in 0..n /\ 1 \in 1..n
  OBVIOUS
<1>2. /\ dv \in Int /\ dt \in Int /\ dt > 0
      /\ \A i \in 1..n : dt * YOf(s)[i] = dt * s[1].v - dv * XOf(s)[i]
  BY <1>1, StraightFall
<1>3. PICK sx, sy, sxx, sxy :
        /\ Running(sx, XOf(s), n) /\ Running(sy, YOf(s), n)
        /\ Running(sxx, Products(XOf(s), XOf(s), n), n) /\ Running(sxy, Products(XOf(s), YOf(s), n), n)
        /\ fitSlope(s) = [num |-> n * sxy[n] - sx[n] * sy[n], den |-> n * sxx[n] - sx[n] * sx[n]]
  BY <1>1, SlopeIs
<1>4. /\ \A i \in 1..n : XOf(s)[i] \in Int /\ YOf(s)[i] \in Int
      /\ Rising(XOf(s), XOf(s), n, 1)
      /\ s[1].v \in Int /\ s[n].v \in Int
  BY <1>1, Window1
<1>5. dt * (n * sxy[n] - sx[n] * sy[n]) = 0 - dv * (n * sxx[n] - sx[n] * sx[n])
  <2>1. PICK g \in Int : g = dt * s[1].v
    BY <1>2, <1>4
  <2>2. Line(XOf(s), YOf(s), n, g, dv, dt)
    BY <1>2, <1>4, <2>1, Zenon DEF Line
  <2> QED BY <1>2, <1>3, <1>4, <2>1, <2>2, OnLine
<1>6. n * sxx[n] - sx[n] * sx[n] >= 1
  BY <1>1, <1>3, <1>4, SlopeSign
<1>7. PICK num \in Int, den \in Int :
        /\ num = fitSlope(s).num /\ den = fitSlope(s).den
        /\ num = n * sxy[n] - sx[n] * sy[n] /\ den = n * sxx[n] - sx[n] * sx[n]
  <2>1. fitSlope(s).num = n * sxy[n] - sx[n] * sy[n] /\ fitSlope(s).den = n * sxx[n] - sx[n] * sx[n]
    BY <1>3
  <2> QED BY <2>1, SlopeType, Zenon
<1>8. dt * num = 0 - dv * den
  BY <1>5, <1>7, Zenon
<1>9. den >= 1
  BY <1>6, <1>7
<1>10. PICK v \in Int : v = Last(s).v
  BY <1>1, <1>4 DEF Last
<1>11. num < 0
  <2>1. PICK p \in Int : p = dv * den
    BY <1>2
  <2>2. \A x, y \in Nat : x >= 1 /\ y >= 1 => x * y >= 1
    OBVIOUS
  <2>3. p >= 1
    BY <1>2, <1>9, <2>1, <2>2
  <2>4. dt * num < 0
    BY <1>8, <2>1, <2>3
  <2>5. \A x, y \in Nat : x * y >= 0
    OBVIOUS
  <2> QED BY <1>2, <2>4, <2>5
<1>12. FullWithin(s, limit) <=> v * den <= limit * (0 - num)
  BY <1>7, <1>10, <1>11 DEF FullWithin
<1>13. PICK a \in Int, b \in Int, c \in Int, d \in Int :
        a = v * den /\ b = limit * (0 - num) /\ c = v * dt /\ d = limit * dv
  <2>1. v * den \in Int /\ limit * (0 - num) \in Int /\ v * dt \in Int /\ limit * dv \in Int
    BY <1>2
  <2> QED BY <2>1, Zenon
<1>14. a * dt = c * den
  BY <1>2, <1>13
<1>15. b * dt = d * den
  <2>1. b * dt = limit * ((0 - num) * dt)
    BY <1>2, <1>13
  <2>2. (0 - num) * dt = 0 - dt * num
    BY <1>2
  <2>3. (0 - num) * dt = dv * den
    <3>1. PICK p \in Int : p = dv * den
      BY <1>2
    <3>2. dt * num = 0 - p
      BY <1>8, <3>1
    <3> QED BY <2>2, <3>1, <3>2
  <2>4. d * den = limit * (dv * den)
    BY <1>2, <1>13
  <2> QED BY <2>1, <2>3, <2>4, Zenon
<1>16. (a <= b) <=> (a * dt <= b * dt)
  BY <1>2, MoreOf
<1>17. (c <= d) <=> (c * den <= d * den)
  BY <1>9, MoreOf
<1>18. (a <= b) <=> (c <= d)
  BY <1>14, <1>15, <1>16, <1>17, Zenon
<1> QED BY <1>10, <1>12, <1>13, <1>18, Zenon

LEMMA SinceOrdered ==
    ASSUME NEW l \in Seq(ReadingType), Ordered(l), NEW cutoff \in Int
    PROVE  Since(l, cutoff) \in Seq(ReadingType) /\ Ordered(Since(l, cutoff))
<1>1. PICK k \in 0..Len(l) : Since(l, cutoff) = SubSeq(l, k + 1, Len(l))
  BY SinceIs
<1>2. PICK s \in Seq(ReadingType) : /\ s = Since(l, cutoff) /\ Len(s) = Len(l) - k
                                    /\ \A i \in 1..Len(l) - k : s[i] = l[k + i]
  BY <1>1, Rest, ZenonT(30)
<1>3. ASSUME NEW i \in 1..Len(s), NEW j \in 1..Len(s), i < j PROVE s[i].at < s[j].at
  <2>1. k + i \in 1..Len(l) /\ k + j \in 1..Len(l) /\ k + i < k + j
    BY <1>2, <1>3
  <2>2. l[k + i].at < l[k + j].at
    BY <2>1 DEF Ordered
  <2> QED BY <1>2, <2>2
<1> QED BY <1>2, <1>3 DEF Ordered

LEMMA ForecastIs ==
    ASSUME AInv
    PROVE  ForecastRight
<1> SUFFICES ASSUME kind = "host_disk_forecast", up, read
             PROVE  LET s  == WindowAt(Len(log))
                        dv == s[1].v - Last(s).v
                        dt == Last(s).at - s[1].at
                    IN  /\ alarm => \E i, j \in DOMAIN s : i < j /\ s[j].v < s[i].v
                        /\ Enough(s) /\ Straight(s) /\ dv > 0 =>
                              /\ Last(s).v * dt <= Horizon * dv => alarm
                              /\ alarm => Last(s).v * dt <= 2 * Horizon * dv
  BY DEF ForecastRight
<1>1. ForecastUp /\ TInv /\ LogInv
  BY DEF AInv, ForecastInv
<1>2. PICK s : s = WindowAt(Len(log)) /\ s = FWindow(log, Len(log))
  BY DEF WindowAt, FWindow, UpTo
<1>3. /\ log # <<>>
      /\ alarm => Enough(s) /\ FullWithin(s, 2 * Horizon)
      /\ Enough(s) /\ FullWithin(s, Horizon) => alarm
  BY <1>1, <1>2 DEF ForecastUp
<1>4. log \in Seq(ReadingType) /\ Ordered(log)
  BY <1>1 DEF TInv, Lists, LogInv
<1>5. s \in Seq(ReadingType) /\ Ordered(s)
  <2>1. PICK t \in Int : t = log[Len(log)].at - Window
    <3>1. Len(log) \in 1..Len(log)
      BY <1>3, <1>4
    <3>2. log[Len(log)].at \in Nat
      BY <1>4, <3>1, Readings
    <3> QED BY <3>2, Settings
  <2>2. s = Since(log, t)
    BY <1>2, <1>4, <2>1, WholeLog DEF FWindow, UpTo
  <2> QED BY <1>4, <2>2, SinceOrdered
<1>6. Enough(s) => Len(s) >= 2
  BY <1>5 DEF Enough
<1>7. alarm => \E i, j \in DOMAIN s : i < j /\ s[j].v < s[i].v
  BY <1>3, <1>5, <1>6, LosesSpace
<1>8. ASSUME Enough(s), Straight(s), NEW dv, dv = s[1].v - Last(s).v, dv > 0,
             NEW dt, dt = Last(s).at - s[1].at
      PROVE  /\ Last(s).v * dt <= Horizon * dv => alarm
             /\ alarm => Last(s).v * dt <= 2 * Horizon * dv
  <2>1. Horizon \in Nat /\ 2 * Horizon \in Nat
    BY Settings
  <2>2. FullWithin(s, Horizon) <=> Last(s).v * dt <= Horizon * dv
    BY <1>5, <1>6, <1>8, <2>1, StraightIs
  <2>3. PICK limit \in Nat : limit = 2 * Horizon
    BY <2>1
  <2>4. FullWithin(s, limit) <=> Last(s).v * dt <= limit * dv
    BY <1>5, <1>6, <1>8, StraightIs
  <2> QED BY <1>3, <1>8, <2>2, <2>3, <2>4, Zenon
<1> QED BY <1>2, <1>7, <1>8

(* A forecast is raised only of a disk that loses space, and of one that   *)
(* fills in a straight line it is right (forecast and fitSlope): over any  *)
(* window, horizon and readings.                                           *)
THEOREM ForecastIsRight == Spec => []ForecastRight
<1>1. Init => AInv
  BY InitInv
<1>2. AInv /\ [Next]_vars => AInv'
  BY NextInv
<1>3. AInv => ForecastRight
  BY ForecastIs
<1> QED BY <1>1, <1>2, <1>3, PTL DEF Spec

-----------------------------------------------------------------------------
(* The counters, since the check that left prev.                           *)
CountInv ==
    kind \in CounterKinds /\ prev # NoSample /\ ~moved.reset =>
      /\ counters.on - prev.part = moved.on
      /\ (counters.on + counters.off) - prev.whole = moved.on + moved.off
      /\ kind = "cpu_throttle" => moved.on >= 0

LEMMA CountersType ==
    ASSUME TInv
    PROVE  /\ counters.on \in Nat /\ counters.off \in Nat
           /\ moved.on \in Int /\ moved.off \in Int /\ moved.reset \in BOOLEAN
           /\ moved \in [on : Int, off : Int, reset : BOOLEAN]
           /\ prev.whole \in Int /\ prev.part \in Int
           /\ Totals(counters).whole = counters.on + counters.off
           /\ Totals(counters).part = counters.on
BY DEF TInv, World, Detector, Totals

LEMMA TickKeepsCount ==
    ASSUME TInv, CountInv, Tick
    PROVE  CountInv'
<1>1. UNCHANGED <<kind, prev>> /\ Run
  BY DEF Tick, detector
<1>2. ASSUME NEW on \in Int, NEW off \in Int, Advance(on, off), kind = "host_cpu" \/ on >= 0
      PROVE  CountInv'
  <2>1. /\ counters' = [on |-> counters.on + on, off |-> counters.off + off]
        /\ moved' = [on |-> moved.on + on, off |-> moved.off + off, reset |-> moved.reset]
    BY <1>2, CountersType DEF Advance
  <2>2. /\ counters'.on = counters.on + on /\ counters'.off = counters.off + off
        /\ moved'.on = moved.on + on /\ moved'.off = moved.off + off /\ moved'.reset = moved.reset
    BY <2>1
  <2> QED BY <1>1, <1>2, <2>2, CountersType DEF CountInv
<1>3. CASE kind \in CounterKinds /\ \E step \in {<<0, 0>>, <<0, 2>>, <<1, 1>>, <<2, 0>>} : Advance(step[1], step[2])
  <2>1. PICK step \in {<<0, 0>>, <<0, 2>>, <<1, 1>>, <<2, 0>>} : Advance(step[1], step[2])
    BY <1>3
  <2>2. step[1] \in Int /\ step[2] \in Int /\ step[1] >= 0
    OBVIOUS
  <2> QED BY <1>2, <2>1, <2>2
<1>4. CASE kind = "host_cpu" /\ counters.on > 0 /\ Advance(-1, 2)
  <2>1. -1 \in Int /\ 2 \in Int
    OBVIOUS
  <2> QED BY <1>2, <1>4, <2>1
<1>5. CASE RestartContainer
  <2>1. moved'.reset = TRUE
    BY <1>5, CountersType DEF RestartContainer
  <2> QED BY <2>1 DEF CountInv
<1>6. CASE kind \notin CounterKinds /\ UNCHANGED <<counters, moved>>
  BY <1>1, <1>6 DEF CountInv
<1> QED BY <1>1, <1>3, <1>4, <1>5, <1>6 DEF Run

LEMMA Counted ==
    ASSUME TInv, prev' = Totals(counters), moved' = Still, counters' = counters
    PROVE  CountInv'
<1>1. /\ prev'.whole = counters.on + counters.off /\ prev'.part = counters.on
      /\ moved'.on = 0 /\ moved'.off = 0
  BY CountersType DEF Still
<1>2. counters.on \in Nat /\ counters.off \in Nat
  BY CountersType
<1> QED BY <1>1, <1>2 DEF CountInv

LEMMA CheckKeepsCount ==
    ASSUME TInv, CountInv, Check
    PROVE  CountInv'
<1>1. kind' = kind
  BY DEF Check
<1>2. CASE kind \notin CounterKinds
  BY <1>1, <1>2 DEF CountInv
<1>3. CASE kind = "cpu_throttle"
  <2>1. CheckThrottle
    BY <1>3 DEF Check, CheckMemory, CheckCPU, CheckHost, CheckDisk, CheckHostMemory,
           CheckPressure, CheckForecast, CheckExpected, CheckImages
  <2>2. moved' = Still /\ counters' = counters /\ (Drop \/ prev' = Totals(counters))
    BY <2>1 DEF CheckThrottle
  <2>3. CASE Drop
    BY <2>3 DEF Drop, CountInv
  <2> QED BY <2>2, <2>3, Counted
<1>4. CASE kind = "host_cpu"
  <2>1. CheckCPU
    BY <1>4 DEF Check, CheckMemory, CheckThrottle, CheckHost, CheckDisk, CheckHostMemory,
           CheckPressure, CheckForecast, CheckExpected, CheckImages
  <2>2. counters' = counters
    BY <2>1 DEF CheckCPU
  <2>3. UNCHANGED <<prev, moved>> \/ (prev' = Totals(counters) /\ moved' = Still)
    BY <2>1 DEF CheckCPU
  <2>4. CASE UNCHANGED <<prev, moved>>
    BY <1>1, <2>2, <2>4 DEF CountInv
  <2> QED BY <2>2, <2>3, <2>4, Counted
<1> QED BY <1>2, <1>3, <1>4 DEF CounterKinds

LEMMA NextKeepsCount ==
    ASSUME TInv, CountInv, [Next]_vars
    PROVE  CountInv'
<1>1. CASE UNCHANGED vars
  BY <1>1 DEF vars, detector, CountInv
<1>2. CASE Forget
  <2>1. prev' = NoSample
    BY <1>2 DEF Forget, Drop
  <2> QED BY <2>1 DEF CountInv
<1>3. CASE Save
  BY <1>3 DEF Save, detector, CountInv
<1>4. CASE Crash
  BY <1>4 DEF Crash, detector, CountInv
<1>5. CASE Restart
  <2>1. prev' = NoSample
    BY <1>5 DEF Restart
  <2> QED BY <2>1 DEF CountInv
<1> QED BY <1>1, <1>2, <1>3, <1>4, <1>5, TickKeepsCount, CheckKeepsCount DEF Next

LEMMA ShareIs ==
    ASSUME NEW on \in Int, NEW off \in Int, on + off > 0
    PROVE  percent(on, on + off) = (100 * on) \div (on + off)
BY DEF percent

LEMMA MeasuredIs ==
    ASSUME TInv, NEW v \in Int, Measure(v)
    PROVE  Last(log').v = v
<1>1. PICK m \in Seq(ReadingType) :
             /\ m = Append(log, Reading(v)) /\ Len(m) = Len(log) + 1
             /\ m[Len(log) + 1] = Reading(v) /\ Reading(v).v = v
  BY OneMore
<1> QED BY <1>1 DEF Measure, Last

LEMMA CheckShare ==
    ASSUME TInv, CountInv, Check, kind \in CounterKinds, Len(log') > Len(log),
           ~moved.reset, moved.on + moved.off > 0
    PROVE  Last(log').v = (100 * moved.on) \div (moved.on + moved.off)
<1> DEFINE s == Totals(counters)
<1>1. /\ s.whole = counters.on + counters.off /\ s.part = counters.on
      /\ s.whole \in Int /\ s.part \in Int /\ prev.whole \in Int /\ prev.part \in Int
      /\ moved.on \in Int /\ moved.off \in Int
  BY CountersType
<1>2. prev # NoSample => /\ s.part - prev.part = moved.on
                         /\ s.whole - prev.whole = moved.on + moved.off
                         /\ kind = "cpu_throttle" => moved.on >= 0
  BY <1>1 DEF CountInv
<1>3. ~Drop /\ \A a : ~NoReading(a)
  <2>1. Len(<<>>) = 0 /\ Len(log) \in Nat
    BY LogDomain
  <2>2. Len(log') > Len(log) /\ log' # log
    BY <2>1
  <2>3. ASSUME Drop PROVE FALSE
    BY <2>1, <2>2, <2>3 DEF Drop
  <2>4. ASSUME NEW a, NoReading(a) PROVE FALSE
    BY <2>2, <2>4 DEF NoReading
  <2> QED BY <2>3, <2>4
<1>4. CASE kind = "cpu_throttle"
  <2>1. CheckThrottle
    BY <1>4 DEF Check, CheckMemory, CheckCPU, CheckHost, CheckDisk, CheckHostMemory,
           CheckPressure, CheckForecast, CheckExpected, CheckImages
  <2>2. prev # NoSample /\ Measure(ThrottlePct)
    BY <1>3, <2>1 DEF CheckThrottle
  <2>3. s.part - prev.part = moved.on /\ s.whole - prev.whole = moved.on + moved.off /\ moved.on >= 0
    BY <1>2, <1>4, <2>2
  <2>4. ~(s.whole < prev.whole) /\ ~(s.part < prev.part)
    BY <1>1, <2>3
  <2>5. ThrottlePct = percent(s.part - prev.part, s.whole - prev.whole)
    <3>1. s.whole - prev.whole > 0 /\ s.whole - prev.whole # 0
      BY <2>3, <1>1
    <3> QED BY <2>4, <3>1 DEF ThrottlePct
  <2>6. ThrottlePct = (100 * moved.on) \div (moved.on + moved.off)
    BY <1>1, <2>3, <2>5, ShareIs
  <2>7. Last(log').v = ThrottlePct
    BY <2>2, MeasuredIs, ThrottlePctType
  <2> QED BY <2>6, <2>7
<1>5. CASE kind = "host_cpu"
  <2>1. CheckCPU
    BY <1>5 DEF Check, CheckMemory, CheckThrottle, CheckHost, CheckDisk, CheckHostMemory,
           CheckPressure, CheckForecast, CheckExpected, CheckImages
  <2>2. /\ ~(prev.whole <= 0 \/ s.whole <= prev.whole \/ s.part < prev.part)
        /\ Measure(percent(s.part - prev.part, s.whole - prev.whole))
    BY <1>3, <2>1 DEF CheckCPU
  <2>3. prev # NoSample
    BY <1>1, <2>2 DEF NoSample
  <2>4. s.part - prev.part = moved.on /\ s.whole - prev.whole = moved.on + moved.off
    BY <1>2, <2>3
  <2>5. PICK v : v = percent(s.part - prev.part, s.whole - prev.whole)
    OBVIOUS
  <2>6. v = (100 * moved.on) \div (moved.on + moved.off)
    BY <1>1, <2>4, <2>5, ShareIs
  <2>7. v \in Int
    BY <1>1, <2>6
  <2>8. Last(log').v = v
    BY <2>2, <2>5, <2>7, MeasuredIs
  <2> QED BY <2>6, <2>8
<1> QED BY <1>4, <1>5 DEF CounterKinds

LEMMA StepShare ==
    ASSUME TInv, CountInv, [Next]_vars
    PROVE  [ up /\ kind \in CounterKinds /\ Len(log') > Len(log)
               /\ ~moved.reset /\ moved.on + moved.off > 0
             => Last(log').v = (100 * moved.on) \div (moved.on + moved.off) ]_vars
<1> SUFFICES ASSUME up, kind \in CounterKinds, Len(log') > Len(log),
                    ~moved.reset, moved.on + moved.off > 0
             PROVE  Last(log').v = (100 * moved.on) \div (moved.on + moved.off)
  OBVIOUS
<1>1. Len(log) \in Nat /\ Len(<<>>) = 0
  BY LogDomain
<1>2. log' # log /\ log' # <<>>
  BY <1>1
<1>3. Check
  <2>1. ~Restart
    BY DEF Restart
  <2>2. ~UNCHANGED vars /\ ~Tick /\ ~Save /\ ~Crash
    BY <1>2 DEF vars, Tick, Save, Crash
  <2>3. ~Forget
    BY <1>2 DEF Forget, Drop
  <2> QED BY <2>1, <2>2, <2>3 DEF Next
<1> QED BY <1>3, CheckShare

(* The share a check passes to the gate of CPU or throttling is what the   *)
(* counters really did since the last sample the detector kept, over failed *)
(* reads and restarts of nodux (CPU.Check, Throttle.Check).                *)
THEOREM SharesAreMeasured == Spec => ShareMeasured
<1>1. Init => TInv /\ CountInv
  <2>1. Init => CountInv
    BY DEF Init, CountInv
  <2> QED BY <2>1, InitTypes
<1>2. TInv /\ CountInv /\ [Next]_vars => TInv' /\ CountInv'
  BY NextTypes, NextKeepsCount
<1>3. TInv /\ CountInv /\ [Next]_vars =>
        [ up /\ kind \in CounterKinds /\ Len(log') > Len(log)
               /\ ~moved.reset /\ moved.on + moved.off > 0
             => Last(log').v = (100 * moved.on) \div (moved.on + moved.off) ]_vars
  BY StepShare
<1> QED BY <1>1, <1>2, <1>3, PTL DEF Spec, ShareMeasured

-----------------------------------------------------------------------------
(* The record of the images.                                               *)
StreakAt(l, j) ==
    /\ \A k \in j..Len(l) : l[k].v = l[Len(l)].v
    /\ j > 1 => l[j - 1].v # l[Len(l)].v

DatedAt(img, l, j) ==
    /\ StreakAt(l, j)
    /\ j = 1 => img.changedAt = NoTime
    /\ j > 1 => img.prev = l[j - 1].v /\ img.changedAt \in l[j - 1].at..l[j].at

Pictures(img, l) ==
    /\ (l = <<>>) <=> (img = NoImage)
    /\ l # <<>> =>
         /\ img.id = l[Len(l)].v /\ img.id # 0
         /\ img.lastSeen = day(l[Len(l)].at) /\ img.since <= l[Len(l)].at
         /\ \E j \in 1..Len(l) : DatedAt(img, l, j)

(* Another image than the last one seen was created since.                 *)
Newer(p, l) == l # <<>> /\ p.image \notin {0, l[Len(l)].v} => p.created >= l[Len(l)].at

ImageInv ==
    kind = "images" =>
      /\ Pictures(image, log) /\ Pictures(saved.image, saved.log)
      /\ Newer(place, log) /\ Newer(place, saved.log)
      /\ place.created <= now

LEMMA OneStreak ==
    ASSUME NEW l \in Seq(ReadingType), NEW i \in 1..Len(l), NEW j \in 1..Len(l),
           StreakAt(l, i), StreakAt(l, j)
    PROVE  i = j
<1>1. ASSUME NEW a \in 1..Len(l), NEW b \in 1..Len(l), StreakAt(l, a), StreakAt(l, b), a < b
      PROVE  FALSE
  <2>1. b > 1 /\ b - 1 \in a..Len(l)
    BY <1>1
  <2>2. l[b - 1].v # l[Len(l)].v
    BY <1>1, <2>1 DEF StreakAt
  <2>3. l[b - 1].v = l[Len(l)].v
    BY <1>1, <2>1 DEF StreakAt
  <2> QED BY <2>2, <2>3
<1>2. ~(i < j) /\ ~(j < i)
  BY <1>1
<1> QED BY <1>2

LEMMA DatedIs ==
    ASSUME TInv, Pictures(image, log), log # <<>>
    PROVE  ImageDated
<1>1. log \in Seq(ReadingType) /\ DOMAIN log = 1..Len(log) /\ Len(log) \in Nat
  BY LogDomain
<1>2. PICK j \in 1..Len(log) : DatedAt(image, log, j)
  BY DEF Pictures
<1>3. Streak = j
  <2>1. Streak = CHOOSE i \in 1..Len(log) : StreakAt(log, i)
    BY <1>1 DEF Streak, StreakAt, Last
  <2>2. StreakAt(log, j)
    BY <1>2 DEF DatedAt
  <2>3. \A i \in 1..Len(log) : StreakAt(log, i) => i = j
    BY <1>1, <1>2, <2>2, OneStreak
  <2>4. PICK i : i = CHOOSE h \in 1..Len(log) : StreakAt(log, h)
    OBVIOUS
  <2>5. i \in 1..Len(log) /\ StreakAt(log, i)
    BY <1>2, <2>2, <2>4
  <2>6. i = j
    BY <2>3, <2>5
  <2> QED BY <2>1, <2>4, <2>6
<1>4. image.id = Last(log).v
  BY DEF Pictures, Last
<1> QED BY <1>2, <1>3, <1>4 DEF ImageDated, DatedAt

LEMMA LastOfTwo ==
    ASSUME NEW S, NEW a \in Seq(S), NEW b \in Seq(S), Len(b) # 0
    PROVE  Last(a \o b) = b[Len(b)]
<1>1. Len(a) \in Nat /\ Len(b) \in Nat /\ Len(a \o b) = Len(a) + Len(b)
  OBVIOUS
<1>2. (a \o b)[Len(a) + Len(b)] = b[Len(b)]
  BY <1>1
<1> QED BY <1>1, <1>2 DEF Last

LEMMA Noted ==
    ASSUME TInv, LogInv, ImageInv, kind = "images", ~polled, place.image # 0,
           NEW m, m = Append(log, Reading(place.image)),
           NEW img, img = noteImage
    PROVE  /\ Pictures(img, m) /\ img # NoImage
           /\ place.created > Last(<<[at |-> 0]>> \o log).at /\ image.id \notin {0, place.image}
                => img.changedAt = place.created
<1>1. PICK n \in Nat :
        /\ n = Len(log) /\ log \in Seq(ReadingType) /\ m \in Seq(ReadingType)
        /\ Len(m) = n + 1 /\ m[n + 1].at = now /\ m[n + 1].v = place.image
        /\ \A i \in 1..n : m[i] = log[i]
  <2>1. place.image \in Int
    BY DEF TInv, World
  <2>2. PICK l \in Seq(ReadingType) :
             /\ l = Append(log, Reading(place.image)) /\ Len(l) = Len(log) + 1 /\ Len(log) \in Nat
             /\ l[Len(log) + 1] = Reading(place.image)
             /\ \A i \in 1..Len(log) : l[i] = log[i]
             /\ Reading(place.image) \in ReadingType /\ Reading(place.image).at = now
             /\ Reading(place.image).v = place.image
             /\ Reading(place.image).run = faults.crashes
    BY <2>1, OneMore
  <2> QED BY <2>2, LogDomain
<1>2. /\ now \in Nat /\ place.image \in Nat /\ place.created \in Nat /\ image \in ImageType
      /\ image.since \in Int /\ place.created <= now
      /\ \A i \in 1..n : log[i].at \in Nat /\ log[i].v \in Int
  <2>1. \A i \in 1..n : log[i].at \in Nat /\ log[i].v \in Int
    BY <1>1, Readings
  <2>2. now \in Nat /\ place.image \in Nat /\ place.created \in Nat /\ image \in ImageType
    BY Settings DEF TInv, Basics, World
  <2>3. image.since \in Int
    BY <2>2 DEF ImageType
  <2>4. place.created <= now
    BY DEF ImageInv
  <2> QED BY <2>1, <2>2, <2>3, <2>4
<1>3. Pictures(image, log) /\ Newer(place, log)
  BY DEF ImageInv
<1>4. m # <<>>
  BY <1>1
<1>5. noteImage.lastSeen = day(now)
  BY NoteType
<1>6. CASE image = NoImage
  <2>1. n = 0 /\ log = <<>>
    BY <1>1, <1>3, <1>6 DEF Pictures
  <2>2. img = [NoImage EXCEPT !.id = place.image, !.since = now, !.lastSeen = day(now)]
    BY <1>6 DEF noteImage
  <2>3. /\ img.id = place.image /\ img.since = now /\ img.lastSeen = day(now)
        /\ img.changedAt = NoTime
    BY <2>2 DEF NoImage
  <2>4. StreakAt(m, 1) /\ DatedAt(img, m, 1) /\ 1 \in 1..Len(m)
    BY <1>1, <2>1, <2>3 DEF StreakAt, DatedAt
  <2>5. img # NoImage
    BY <2>3, NoImageType
  <2>6. image.id = 0
    BY <1>6, NoImageType
  <2>7. Pictures(img, m)
    BY <1>1, <1>2, <1>4, <2>1, <2>3, <2>4, <2>5 DEF Pictures
  <2> QED BY <2>5, <2>6, <2>7
<1>7. CASE image # NoImage
  <2>1. /\ log # <<>> /\ n \in 1..n /\ n >= 1
        /\ image.id = log[n].v /\ image.id # 0 /\ image.since <= log[n].at
    BY <1>1, <1>3, <1>7 DEF Pictures
  <2>2. log[n].at \in Nat /\ log[n].at <= now
    BY <1>1, <1>2, <2>1 DEF LogInv, Past
  <2>3. Last(<<[at |-> 0]>> \o log).at = log[n].at
    <3>1. PICK S : S = ReadingType \cup {[at |-> 0]}
      OBVIOUS
    <3>2. log \in Seq(S)
      <4>1. \A i \in 1..Len(log) : log[i] \in S
        BY <1>1, <3>1, Elements
      <4>2. log = [i \in 1..Len(log) |-> log[i]] /\ Len(log) \in Nat
        BY <1>1
      <4>3. [i \in 1..Len(log) |-> log[i]] \in Seq(S)
        BY <4>1, <4>2
      <4> QED BY <4>2, <4>3
    <3>3. <<[at |-> 0]>> \in Seq(S)
      BY <3>1
    <3>4. PICK a \in Seq(S) : a = <<[at |-> 0]>>
      BY <3>3
    <3>5. Len(log) # 0
      BY <1>1, <2>1
    <3>6. Last(a \o log) = log[Len(log)]
      BY <3>2, <3>4, <3>5, LastOfTwo
    <3> QED BY <1>1, <3>4, <3>6
  <2>4. CASE image.id # place.image
    <3>1. img = [id |-> place.image, since |-> Changed, lastSeen |-> day(now),
                 prev |-> image.id, changedAt |-> Changed]
      BY <1>7, <2>4 DEF noteImage
    <3>2. /\ img.id = place.image /\ img.since = Changed /\ img.lastSeen = day(now)
          /\ img.prev = image.id /\ img.changedAt = Changed
      BY <3>1
    <3>3. place.created >= log[n].at
      BY <1>1, <1>3, <2>1, <2>4 DEF Newer
    <3>4. Changed \in log[n].at..now
      BY <1>2, <2>2, <3>3 DEF Changed
    <3>5. StreakAt(m, n + 1)
      <4>1. \A k \in n + 1..Len(m) : k = n + 1
        BY <1>1
      <4>2. m[(n + 1) - 1].v = log[n].v
        BY <1>1, <2>1
      <4> QED BY <1>1, <2>1, <2>4, <4>1, <4>2 DEF StreakAt
    <3>6. DatedAt(img, m, n + 1)
      <4>1. (n + 1) - 1 = n /\ m[n] = log[n] /\ n + 1 # 1
        BY <1>1, <2>1
      <4> QED BY <1>1, <2>1, <3>2, <3>4, <3>5, <4>1 DEF DatedAt
    <3>7. img # NoImage
      BY <3>2, NoImageType
    <3>8. n + 1 \in 1..Len(m) /\ img.since <= now
      BY <1>1, <1>2, <2>2, <3>2, <3>4
    <3>9. Pictures(img, m)
      BY <1>1, <1>4, <3>2, <3>6, <3>7, <3>8 DEF Pictures
    <3>10. place.created > log[n].at => Changed = place.created
      BY <1>2, <2>1, <2>2 DEF Changed
    <3> QED BY <2>3, <3>2, <3>7, <3>9, <3>10
  <2>5. CASE image.id = place.image
    <3>1. img = [image EXCEPT !.lastSeen = day(now)]
      BY <1>7, <2>5 DEF noteImage
    <3>2. /\ img.id = place.image /\ img.since = image.since /\ img.lastSeen = day(now)
          /\ img.prev = image.prev /\ img.changedAt = image.changedAt
      BY <1>2, <2>5, <3>1 DEF ImageType
    <3>3. PICK j \in 1..n : DatedAt(image, log, j)
      BY <1>1, <1>3, <2>1 DEF Pictures
    <3>4. j \in 1..Len(m) /\ j \in 1..n
      BY <1>1, <3>3
    <3>5. StreakAt(log, j)
      BY <3>3 DEF DatedAt
    <3>6. StreakAt(m, j)
      <4>1. ASSUME NEW k \in j..Len(m) PROVE m[k].v = m[Len(m)].v
        <5>1. CASE k = n + 1
          BY <1>1, <5>1
        <5>2. CASE k # n + 1
          <6>1. k \in j..n /\ k \in 1..n
            BY <1>1, <3>4, <5>2
          <6>2. log[k].v = log[n].v
            BY <1>1, <3>5, <6>1 DEF StreakAt
          <6> QED BY <1>1, <2>1, <2>5, <6>1, <6>2
        <5> QED BY <5>1, <5>2
      <4>2. j > 1 => m[j - 1].v # m[Len(m)].v
        <5> SUFFICES ASSUME j > 1 PROVE m[j - 1].v # m[Len(m)].v
          OBVIOUS
        <5>1. j - 1 \in 1..n
          BY <3>4
        <5>2. log[j - 1].v # log[n].v
          BY <1>1, <3>5 DEF StreakAt
        <5> QED BY <1>1, <2>1, <2>5, <5>1, <5>2
      <4> QED BY <4>1, <4>2 DEF StreakAt
    <3>7. DatedAt(img, m, j)
      <4>1. m[j] = log[j] /\ (j > 1 => m[j - 1] = log[j - 1])
        <5>1. j > 1 => j - 1 \in 1..n
          BY <3>4
        <5> QED BY <1>1, <3>4, <5>1
      <4> QED BY <3>2, <3>3, <3>6, <4>1 DEF DatedAt
    <3>8. img # NoImage
      BY <3>2, NoImageType
    <3>9. img.since <= now
      BY <1>2, <2>1, <2>2, <3>2
    <3>10. Pictures(img, m)
      BY <1>1, <1>4, <3>2, <3>4, <3>7, <3>8, <3>9 DEF Pictures
    <3> QED BY <2>5, <3>8, <3>10
  <2> QED BY <2>4, <2>5
<1> QED BY <1>6, <1>7

LEMMA NotPruned ==
    ASSUME TInv, NEW img, pruneImages(img), img.lastSeen = day(now)
    PROVE  image' = img
<1>1. now \in Nat /\ day(now) \in Nat /\ now - day(now) < Day /\ day(now) <= now
  BY DayType, Settings DEF TInv, Basics
<1>2. ~(now - img.lastSeen > Week)
  BY <1>1, Settings
<1> QED BY <1>2 DEF pruneImages

LEMMA CheckKeepsImages ==
    ASSUME TInv, LogInv, ImageInv, Check, kind = "images"
    PROVE  /\ ImageInv'
           /\ read' => Pictures(image', log') /\ log' # <<>>
           /\ read' /\ place.created > Last(<<[at |-> 0]>> \o log).at /\ image.id \notin {0, place.image}
                => image'.changedAt = place.created
           /\ image # NoImage /\ image' = NoImage => now - Last(log).at > Week - Day
<1>1. UNCHANGED <<kind, place, config, now, up, faults, saved>> /\ ~polled
  BY DEF Check
<1>2. CheckImages
  BY DEF Check, CheckMemory, CheckThrottle, CheckCPU, CheckHost, CheckDisk,
         CheckHostMemory, CheckPressure, CheckForecast, CheckExpected
<1>3. /\ pruneImages(IF place.image = 0 THEN image ELSE noteImage)
      /\ read' = (place.image # 0)
      /\ log' = IF place.image # 0 THEN Append(log, Reading(place.image))
                ELSE IF image' = NoImage THEN <<>> ELSE log
  BY <1>2 DEF CheckImages
<1>4. /\ Pictures(image, log) /\ Pictures(saved.image, saved.log) /\ Newer(place, log)
      /\ Newer(place, saved.log) /\ place.created <= now
  BY DEF ImageInv
<1>5. CASE place.image # 0
  <2>1. PICK m, img : m = Append(log, Reading(place.image)) /\ img = noteImage
    OBVIOUS
  <2>2. /\ Pictures(img, m) /\ img # NoImage
        /\ place.created > Last(<<[at |-> 0]>> \o log).at /\ image.id \notin {0, place.image}
                => img.changedAt = place.created
    BY <1>1, <1>5, <2>1, Noted
  <2>3. image' = img
    BY <1>3, <1>5, <2>1, NotPruned, NoteType
  <2>4. log' = m
    BY <1>3, <1>5, <2>1
  <2>5. m # <<>> /\ m[Len(m)].v = place.image
    <3>1. place.image \in Int
      BY DEF TInv, World
    <3>2. PICK l \in Seq(ReadingType) :
             /\ l = Append(log, Reading(place.image)) /\ Len(l) = Len(log) + 1 /\ Len(log) \in Nat
             /\ l[Len(log) + 1] = Reading(place.image)
             /\ Reading(place.image).v = place.image
      BY <3>1, OneMore
    <3> QED BY <2>1, <3>2
  <2>6. Newer(place', log')
    BY <1>1, <2>4, <2>5 DEF Newer
  <2>7. ImageInv'
    BY <1>1, <1>4, <2>2, <2>3, <2>4, <2>6 DEF ImageInv
  <2> QED BY <2>2, <2>3, <2>4, <2>5, <2>7
<1>6. CASE place.image = 0
  <2>1. ~read'
    BY <1>3, <1>6
  <2>2. image' = image \/ (image' = NoImage /\ now - image.lastSeen > Week)
    BY <1>3, <1>6 DEF pruneImages
  <2>3. CASE image' = NoImage
    <3>1. log' = <<>>
      BY <1>3, <1>6, <2>3
    <3>2. Pictures(image', log') /\ Newer(place', log')
      BY <2>3, <3>1 DEF Pictures, Newer
    <3>3. ImageInv'
      BY <1>1, <1>4, <3>2 DEF ImageInv
    <3>4. image # NoImage => now - Last(log).at > Week - Day
      <4> SUFFICES ASSUME image # NoImage PROVE now - Last(log).at > Week - Day
        OBVIOUS
      <4>1. log # <<>> /\ image.lastSeen = day(log[Len(log)].at)
        BY <1>4 DEF Pictures
      <4>2. log \in Seq(ReadingType) /\ Len(log) \in 1..Len(log)
        BY <4>1, LogDomain
      <4>3. PICK a \in Nat : a = log[Len(log)].at
        BY <4>2, Readings
      <4>4. day(a) \in Nat /\ a - day(a) < Day
        BY DayType
      <4>5. now - day(a) > Week
        BY <2>2, <2>3, <4>1, <4>3
      <4>6. now \in Nat
        BY Settings DEF TInv, Basics
      <4>7. now - a > Week - Day
        BY <4>3, <4>4, <4>5, <4>6, Settings
      <4> QED BY <4>3, <4>7 DEF Last
    <3> QED BY <2>1, <3>3, <3>4
  <2>4. CASE image' # NoImage
    <3>1. image' = image /\ log' = log
      BY <1>3, <1>6, <2>2, <2>4
    <3>2. ImageInv'
      BY <1>1, <1>4, <3>1 DEF ImageInv
    <3> QED BY <2>1, <2>4, <3>2
  <2> QED BY <2>3, <2>4
<1> QED BY <1>5, <1>6

LEMMA NewerNow ==
    ASSUME NEW p, NEW l \in Seq(ReadingType), NEW t \in Nat, NEW u \in {t, t + 1}, Past(l, t),
           p.created = u
    PROVE  Newer(p, l)
<1> SUFFICES ASSUME l # <<>> PROVE p.created >= l[Len(l)].at
  BY DEF Newer
<1>1. Len(l) \in 1..Len(l)
  OBVIOUS
<1>2. l[Len(l)].at <= t /\ l[Len(l)].at \in Nat
  BY <1>1, Readings DEF Past
<1> QED BY <1>2

LEMMA NextKeepsImages ==
    ASSUME TInv, LogInv, ImageInv, [Next]_vars
    PROVE  ImageInv'
<1>1. /\ now \in Nat /\ log \in Seq(ReadingType) /\ saved.log \in Seq(ReadingType)
      /\ place.created \in Nat
  BY Settings DEF TInv, Basics, Lists, File, World
<1>2. kind' = kind
  BY DEF Next, Tick, Check, Forget, Save, Crash, Restart, vars
<1> SUFFICES ASSUME kind = "images" PROVE ImageInv'
  BY <1>2 DEF ImageInv
<1>3. /\ Pictures(image, log) /\ Pictures(saved.image, saved.log)
      /\ Newer(place, log) /\ Newer(place, saved.log) /\ place.created <= now
  BY DEF ImageInv
<1>4. CASE UNCHANGED vars
  BY <1>4 DEF vars, detector, images, ImageInv
<1>5. CASE Tick
  <2>1. UNCHANGED <<image, log, saved>> /\ now' = now + 1 /\ Deploy
    BY <1>5 DEF Tick, detector, images
  <2>2. CASE UNCHANGED place
    <3>1. place'.created <= now'
      BY <1>1, <1>3, <2>1, <2>2
    <3> QED BY <1>3, <2>1, <2>2, <3>1 DEF ImageInv
  <2>3. CASE place' = [image |-> 0, created |-> 0]
    <3>1. place'.image = 0 /\ place'.created <= now'
      BY <1>1, <2>1, <2>3
    <3>2. Newer(place', log) /\ Newer(place', saved.log)
      BY <3>1 DEF Newer
    <3> QED BY <1>3, <2>1, <3>1, <3>2 DEF ImageInv
  <2>4. CASE place' \in [image : Images, created : {now, now + 1}]
    <3>1. PICK u \in {now, now + 1} : place'.created = u
      BY <2>4
    <3>2. place'.created <= now'
      BY <1>1, <2>1, <3>1
    <3>3. Newer(place', log) /\ Newer(place', saved.log)
      BY <1>1, <3>1, NewerNow DEF LogInv
    <3> QED BY <1>3, <2>1, <3>2, <3>3 DEF ImageInv
  <2> QED BY <2>1, <2>2, <2>3, <2>4 DEF Deploy
<1>6. CASE Check
  BY <1>6, CheckKeepsImages
<1>7. CASE Forget
  BY <1>7 DEF Forget
<1>8. CASE Save
  <2>1. UNCHANGED <<image, log, place, now>> /\ saved'.image = image /\ saved'.log = log
    BY <1>8, SavedIs DEF Save, detector, images
  <2> QED BY <1>3, <2>1 DEF ImageInv
<1>9. CASE Crash
  BY <1>9 DEF Crash, detector, images, ImageInv
<1>10. CASE Restart
  <2>1. UNCHANGED <<place, now, saved>> /\ image' = saved.image /\ config' = {kind}
    BY <1>10 DEF Restart
  <2>2. kind \in DOMAIN saved.detectors
    BY DEF TInv, File
  <2>3. log' = saved.log
    BY <1>10, <2>1, <2>2 DEF Restart, collectStateful
  <2> QED BY <1>3, <2>1, <2>3 DEF ImageInv
<1> QED BY <1>4, <1>5, <1>6, <1>7, <1>8, <1>9, <1>10 DEF Next

LEMMA InitImages ==
    ASSUME Init
    PROVE  ImageInv
<1>1. /\ image = NoImage /\ log = <<>> /\ saved.image = image /\ saved.log = log
      /\ place = [image |-> 0, created |-> 0] /\ now = 0
  BY SavedIs DEF Init
<1> QED BY <1>1 DEF ImageInv, Pictures, Newer

LEMMA DatedLaw == TInv /\ Pictures(image, log) /\ log # <<>> => ImageDated
  BY DatedIs

LEMMA StepImages ==
    ASSUME TInv, LogInv, ImageInv, [Next]_vars
    PROVE  [ kind = "images" /\ up /\ ~polled /\ polled' =>
          /\ read' => ImageDated'
          /\ read' /\ place.created > Last(<<[at |-> 0]>> \o log).at /\ image.id \notin {0, place.image}
                => image'.changedAt = place.created
          /\ image # NoImage /\ image' = NoImage => now - Last(log).at > Week - Day ]_vars
<1> SUFFICES ASSUME kind = "images", up, ~polled, polled'
             PROVE  /\ read' => ImageDated'
                    /\ read' /\ place.created > Last(<<[at |-> 0]>> \o log).at
                         /\ image.id \notin {0, place.image} => image'.changedAt = place.created
                    /\ image # NoImage /\ image' = NoImage => now - Last(log).at > Week - Day
  OBVIOUS
<1>1. polled' # polled
  OBVIOUS
<1>2. Check
  <2>1. ~Restart /\ ~Forget
    BY DEF Restart, Forget
  <2>2. ~UNCHANGED vars /\ ~Tick /\ ~Save /\ ~Crash
    BY <1>1 DEF vars, Tick, Save, Crash
  <2> QED BY <2>1, <2>2 DEF Next
<1>3. TInv'
  BY NextTypes
<1>4. /\ read' => Pictures(image', log') /\ log' # <<>>
      /\ read' /\ place.created > Last(<<[at |-> 0]>> \o log).at /\ image.id \notin {0, place.image}
                => image'.changedAt = place.created
      /\ image # NoImage /\ image' = NoImage => now - Last(log).at > Week - Day
  BY <1>2, CheckKeepsImages
<1>5. (TInv /\ Pictures(image, log) /\ log # <<>> => ImageDated)'
  BY DatedLaw, PTL
<1>6. read' => ImageDated'
  BY <1>3, <1>4, <1>5
<1> QED BY <1>4, <1>6

(* What the engine says of an image is true (noteImage, pruneImages): the  *)
(* image before, when it changed, and that a name was gone for a week when *)
(* it is forgotten, over restarts and polls that came late.                *)
THEOREM ImagesAreRight == Spec => ImagesRight
<1>1. Init => TInv /\ LogInv /\ ImageInv
  BY InitTypes, InitLog, InitImages
<1>2. TInv /\ LogInv /\ ImageInv /\ [Next]_vars => TInv' /\ LogInv' /\ ImageInv'
  BY NextTypes, NextKeepsLog, NextKeepsImages
<1>3. TInv /\ LogInv /\ ImageInv /\ [Next]_vars =>
        [ kind = "images" /\ up /\ ~polled /\ polled' =>
          /\ read' => ImageDated'
          /\ read' /\ place.created > Last(<<[at |-> 0]>> \o log).at /\ image.id \notin {0, place.image}
                => image'.changedAt = place.created
          /\ image # NoImage /\ image' = NoImage => now - Last(log).at > Week - Day ]_vars
  BY StepImages
<1> QED BY <1>1, <1>2, <1>3, PTL DEF Spec, ImagesRight
=============================================================================
