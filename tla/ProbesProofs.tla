---------------------------- MODULE ProbesProofs ----------------------------
(***************************************************************************)
(* Proofs about Probes, for every set of targets and certificates, every   *)
(* threshold and every number of crashes.                                  *)
(*                                                                         *)
(* Two things are to be shown: that a streak of failures is what the last  *)
(* results say, and that the certificate picked by firstToExpire is the    *)
(* moment at which the best chain breaks.  The invariant says both of what *)
(* the prober knows and of what is saved, so a restart keeps them.         *)
(***************************************************************************)
EXTENDS Probes, TLAPS, WellFoundedInduction

(* Min and Max, where they exist.                                          *)
LEMMA LeastOf ==
    ASSUME NEW S, S \subseteq Nat, S # {}
    PROVE  Min(S) \in S /\ \A y \in S : Min(S) <= y
<1> DEFINE R == OpToRel(<, Nat)
<1>1. IsWellFoundedOn(R, Nat)
  BY NatLessThanWellFounded
<1>2. \E x \in S : \A y \in S : ~(<<y, x>> \in R)
  <2> HIDE DEF R
  <2> QED BY <1>1, WFMin
<1>3. PICK x \in S : \A y \in S : ~(<<y, x>> \in R)
  BY <1>2
<1>4. ASSUME NEW y \in S PROVE x <= y
  <2>1. x \in Nat /\ y \in Nat /\ ~(<<y, x>> \in R)
    BY <1>3
  <2>2. ~(y < x)
    BY <2>1 DEF OpToRel
  <2> HIDE DEF R
  <2> QED BY <2>1, <2>2
<1>5. \E z \in S : \A y \in S : z <= y
  BY <1>4
<1> HIDE DEF R
<1>6. Min(S) = CHOOSE z \in S : \A y \in S : z <= y
  BY DEF Min
<1>7. PICK z : z = CHOOSE w \in S : \A y \in S : w <= y
  OBVIOUS
<1>8. z \in S /\ \A y \in S : z <= y
  BY <1>5, <1>7
<1> QED BY <1>6, <1>7, <1>8

LEMMA GreatestOf ==
    ASSUME NEW N \in Nat, NEW S, S \subseteq 0..N, S # {}
    PROVE  Max(S) \in S /\ \A y \in S : Max(S) >= y
<1> DEFINE T == {N - y : y \in S}
<1>1. T \subseteq Nat /\ T # {}
  <2>1. ASSUME NEW y \in S PROVE N - y \in Nat
    <3>1. y \in 0..N
      OBVIOUS
    <3> HIDE DEF T
    <3> QED BY <3>1
  <2>2. T \subseteq Nat
    BY <2>1
  <2>3. T # {}
    OBVIOUS
  <2> QED BY <2>2, <2>3
<1>2. PICK m : m = Min(T)
  OBVIOUS
<1>3. m \in T /\ \A z \in T : m <= z
  <2> HIDE DEF T
  <2> QED BY <1>1, <1>2, LeastOf
<1>4. PICK x \in S : m = N - x
  BY <1>3
<1>5. ASSUME NEW y \in S PROVE x >= y
  <2>1. N - y \in T
    OBVIOUS
  <2>2. N - x <= N - y
    BY <1>3, <1>4, <2>1
  <2>3. x \in 0..N /\ y \in 0..N
    OBVIOUS
  <2> QED BY <2>2, <2>3
<1>6. \E z \in S : \A y \in S : z >= y
  BY <1>5
<1> HIDE DEF T
<1>7. Max(S) = CHOOSE z \in S : \A y \in S : z >= y
  BY DEF Max
<1>8. PICK z : z = CHOOSE w \in S : \A y \in S : w >= y
  OBVIOUS
<1>9. z \in S /\ \A y \in S : z >= y
  BY <1>6, <1>8
<1> QED BY <1>7, <1>8, <1>9

-----------------------------------------------------------------------------
LEMMA ElementOf ==
    ASSUME NEW S, NEW q \in Seq(S), NEW i \in 1..Len(q)
    PROVE  q[i] \in S
OBVIOUS

(* When a chain breaks: its anchor is not looked at.                       *)
Low(c) == Min({c[i] : i \in Links(c)})

LEMMA LowIs ==
    ASSUME NEW c \in Seq(0..LastDay), Len(c) > 0
    PROVE  /\ \E i \in 1..Len(c) : Low(c) = c[i]
           /\ Low(c) \in 0..LastDay
           /\ \A x \in Int : Low(c) >= x <=>
                 \A i \in 1..Len(c) : (i < Len(c) \/ i = 1) => c[i] >= x
<1> DEFINE S == {c[i] : i \in Links(c)}
<1>1. Len(c) \in Nat /\ \A i \in 1..Len(c) : c[i] \in 0..LastDay
  <2>1. Len(c) \in Nat
    OBVIOUS
  <2>2. ASSUME NEW i \in 1..Len(c) PROVE c[i] \in 0..LastDay
    <3>1. PICK D : D = 0..LastDay
      OBVIOUS
    <3>2. c \in Seq(D)
      BY <3>1
    <3> HIDE DEF S
    <3>3. c[i] \in D
      BY <3>2, ElementOf
    <3> QED BY <3>1, <3>3
  <2> QED BY <2>1, <2>2
<1>2. /\ Links(c) \subseteq 1..Len(c) /\ Links(c) # {}
      /\ \A i \in 1..Len(c) : i \in Links(c) <=> i < Len(c) \/ i = 1
  <2>1. CASE Len(c) > 1
    <3>1. Links(c) = 1..Len(c) - 1
      BY <2>1 DEF Links
    <3> QED BY <1>1, <2>1, <3>1
  <2>2. CASE ~(Len(c) > 1)
    <3>1. Links(c) = {1} /\ Len(c) = 1
      BY <1>1, <2>2 DEF Links
    <3> QED BY <3>1
  <2> QED BY <2>1, <2>2
<1>3. S \subseteq 0..LastDay /\ S \subseteq Nat /\ S # {}
  <2>1. S \subseteq 0..LastDay /\ S # {}
    BY <1>1, <1>2
  <2> QED BY <2>1, ProbesAssumption
<1>4. PICK m : m = Min(S)
  OBVIOUS
<1>5. m \in S /\ \A y \in S : m <= y
  <2> HIDE DEF S
  <2> QED BY <1>3, <1>4, LeastOf
<1>6. PICK k \in Links(c) : m = c[k]
  BY <1>5
<1>7. m \in 0..LastDay /\ k \in 1..Len(c)
  BY <1>1, <1>2, <1>6
<1>8. Low(c) = m
  BY <1>4 DEF Low
<1>9. ASSUME NEW x \in Int
      PROVE  m >= x <=> \A i \in 1..Len(c) : (i < Len(c) \/ i = 1) => c[i] >= x
  <2>1. ASSUME m >= x, NEW i \in 1..Len(c), i < Len(c) \/ i = 1
        PROVE  c[i] >= x
    <3>1. c[i] \in S
      BY <1>2, <2>1
    <3>2. m <= c[i] /\ c[i] \in 0..LastDay
      BY <1>1, <1>5, <3>1
    <3> QED BY <1>7, <2>1, <3>2, ProbesAssumption
  <2>2. ASSUME \A i \in 1..Len(c) : (i < Len(c) \/ i = 1) => c[i] >= x
        PROVE  m >= x
    BY <1>2, <1>6, <1>7, <2>2
  <2> QED BY <2>1, <2>2
<1> QED BY <1>6, <1>7, <1>8, <1>9

(* firstToExpire is the moment at which the last of the chains breaks.     *)
LEMMA FirstIs ==
    ASSUME NEW s \in Certificates, NEW at
    PROVE  /\ firstToExpire(s, ValidAt(s, at)) \in Expiries
           /\ firstToExpire(s, ValidAt(s, at)) \in 0..LastDay
           /\ BreaksAt(s, at) = firstToExpire(s, ValidAt(s, at))
<1> DEFINE V == ValidAt(s, at)
           S == {Low(c) : c \in V}
<1>1. LastDay \in Nat /\ s.leaf \in 0..LastDay
      /\ \A c \in s.chains : c \in Seq(0..LastDay) /\ Len(c) > 0
  BY ProbesAssumption
<1>2. V \subseteq s.chains
  BY DEF ValidAt
<1>3. CASE V = {}
  BY <1>1, <1>3 DEF firstToExpire, BreaksAt, Expiries
<1>4. CASE V # {}
  <2>1. firstToExpire(s, V) = Max(S)
    BY <1>4 DEF firstToExpire, Low
  <2>2. ASSUME NEW c \in V
        PROVE  /\ \E i \in 1..Len(c) : Low(c) = c[i]
               /\ Low(c) \in 0..LastDay
               /\ \A x \in Int : Low(c) >= x <=>
                     \A i \in 1..Len(c) : (i < Len(c) \/ i = 1) => c[i] >= x
    <3>1. c \in Seq(0..LastDay) /\ Len(c) > 0
      BY <1>1, <1>2
    <3> QED BY <3>1, LowIs
  <2>3. S \subseteq 0..LastDay /\ S # {}
    BY <1>4, <2>2
  <2>4. PICK m : m = Max(S)
    OBVIOUS
  <2>5. m \in S /\ \A y \in S : m >= y
    <3> HIDE DEF S
    <3> QED BY <1>1, <2>3, <2>4, GreatestOf
  <2>6. PICK d \in V : m = Low(d)
    BY <2>5
  <2>7. m \in 0..LastDay /\ m \in Int /\ m + 1 \in Int
    BY <1>1, <2>3, <2>5
  <2>8. m \in Expiries
    <3>1. PICK i \in 1..Len(d) : m = d[i]
      BY <2>2, <2>6
    <3>2. d \in s.chains /\ i \in DOMAIN d
      BY <1>1, <1>2, <3>1
    <3> QED BY <3>1, <3>2 DEF Expiries
  <2> HIDE DEF V
  <2>9. ASSUME NEW x \in Int
        PROVE  Holds(s, V, x) <=> m >= x
    <3>1. Holds(s, V, x) <=> \E c \in V : Low(c) >= x
      BY <2>2 DEF Holds
    <3>2. ASSUME NEW c \in V, Low(c) >= x
          PROVE  m >= x
      <4>1. m >= Low(c) /\ Low(c) \in 0..LastDay
        BY <2>2, <2>5
      <4> QED BY <1>1, <2>7, <3>2, <4>1
    <3> QED BY <2>6, <3>1, <3>2
  <2>10. Holds(s, V, m) /\ ~Holds(s, V, m + 1)
    BY <2>7, <2>9
  <2>11. ASSUME NEW x \in Expiries, Holds(s, V, x), ~Holds(s, V, x + 1)
         PROVE  x = m
    <3>1. x \in Nat
      <4>1. CASE \E z \in Certificates : x = z.leaf
        BY <4>1, ProbesAssumption
      <4>2. CASE \E z \in Certificates : \E c \in z.chains : \E i \in DOMAIN c : x = c[i]
        <5>1. PICK z \in Certificates : \E c \in z.chains : \E i \in DOMAIN c : x = c[i]
          BY <4>2
        <5>2. PICK c \in z.chains : \E i \in DOMAIN c : x = c[i]
          BY <5>1
        <5>3. PICK i \in DOMAIN c : x = c[i]
          BY <5>2
        <5>4. PICK D : D = 0..LastDay
          OBVIOUS
        <5>5. c \in Seq(D)
          BY <5>4, ProbesAssumption
        <5>6. i \in 1..Len(c)
          BY <5>5
        <5>7. x \in D
          BY <5>3, <5>5, <5>6, ElementOf
        <5> QED BY <1>1, <5>4, <5>7
      <4> QED BY <4>1, <4>2 DEF Expiries
    <3>2. x \in Int /\ x + 1 \in Int
      BY <3>1
    <3>3. m >= x /\ ~(m >= x + 1)
      BY <2>9, <2>11, <3>2
    <3> QED BY <2>7, <3>2, <3>3
  <2>12. BreaksAt(s, at) = CHOOSE x \in Expiries : Holds(s, V, x) /\ ~Holds(s, V, x + 1)
    BY <1>4 DEF BreaksAt, V
  <2>13. BreaksAt(s, at) = m
    BY <2>8, <2>10, <2>11, <2>12
  <2> QED BY <2>1, <2>4, <2>7, <2>8, <2>13 DEF V
<1> QED BY <1>3, <1>4

(* The first certificate of a chain to go, the anchor not excepted.        *)
Weakest(c) == Min({c[i] : i \in 1..Len(c)})

LEMMA WeakestIs ==
    ASSUME NEW s \in Certificates, NEW c \in s.chains
    PROVE  Weakest(c) \in 0..LastDay /\ \E i \in DOMAIN c : Weakest(c) = c[i]
<1> DEFINE T == {c[i] : i \in 1..Len(c)}
<1>1. c \in Seq(0..LastDay) /\ Len(c) > 0 /\ LastDay \in Nat
  BY ProbesAssumption
<1>2. Len(c) \in Nat /\ DOMAIN c = 1..Len(c) /\ \A i \in 1..Len(c) : c[i] \in 0..LastDay
  BY <1>1
<1>3. T \subseteq 0..LastDay /\ T \subseteq Nat /\ c[1] \in T
  BY <1>1, <1>2
<1>4. PICK m : m = Min(T)
  OBVIOUS
<1>5. m \in T
  <2> HIDE DEF T
  <2> QED BY <1>3, <1>4, LeastOf
<1>6. PICK i \in 1..Len(c) : m = c[i]
  BY <1>5
<1>7. Weakest(c) = m
  BY <1>4 DEF Weakest
<1> HIDE DEF T
<1> QED BY <1>2, <1>6, <1>7

(* After LastGood every chain has something that has expired.              *)
LEMMA NothingHolds ==
    ASSUME NEW s \in Certificates, s.chains # {}, NEW at \in Nat, at > LastGood(s)
    PROVE  ValidAt(s, at) = {}
<1> DEFINE S == {Weakest(c) : c \in s.chains}
<1>1. \A c \in s.chains : Weakest(c) \in 0..LastDay /\ \E i \in DOMAIN c : Weakest(c) = c[i]
  BY WeakestIs
<1>2. S \subseteq 0..LastDay /\ S # {}
  BY <1>1
<1>3. PICK m : m = Max(S)
  OBVIOUS
<1>4. m \in S /\ \A y \in S : m >= y
  <2> HIDE DEF S
  <2> QED BY <1>2, <1>3, GreatestOf, ProbesAssumption
<1>5. m = LastGood(s)
  BY <1>3 DEF LastGood, Weakest
<1>6. ASSUME NEW c \in ValidAt(s, at)
      PROVE  FALSE
  <2>1. c \in s.chains /\ \A i \in DOMAIN c : c[i] >= at
    BY DEF ValidAt
  <2>2. Weakest(c) \in S /\ Weakest(c) \in 0..LastDay
    BY <1>1, <2>1
  <2>3. Weakest(c) >= at
    BY <1>1, <2>1
  <2>4. m >= Weakest(c) /\ m \in 0..LastDay
    BY <1>2, <1>4, <2>2
  <2> HIDE DEF S
  <2> QED BY <1>5, <2>2, <2>3, <2>4, ProbesAssumption
<1> QED BY <1>6

-----------------------------------------------------------------------------
(* n is the number of failures at the end of the results q.                *)
Streaks(n, q) ==
    /\ q \in Seq(BOOLEAN) /\ Len(q) <= Failures /\ n \in 0..Len(q)
    /\ \A i \in 1..Len(q) : i > Len(q) - n => ~q[i]
    /\ n < Len(q) => q[Len(q) - n]

LEMMA StreakIs ==
    ASSUME NEW n, NEW q, Streaks(n, q)
    PROVE  n = Failures <=> Len(q) = Failures /\ \A i \in 1..Failures : ~q[i]
<1>1. Len(q) \in Nat /\ n \in 0..Len(q) /\ Len(q) <= Failures /\ Failures \in Nat \ {0}
  BY ProbesAssumption DEF Streaks
<1>2. CASE n = Failures
  <2>1. Len(q) = Failures /\ Len(q) - n = 0
    BY <1>1, <1>2
  <2> QED BY <1>1, <1>2, <2>1 DEF Streaks
<1>3. CASE n # Failures
  <2> SUFFICES ASSUME Len(q) = Failures, \A i \in 1..Failures : ~q[i] PROVE FALSE
    BY <1>3
  <2>1. n < Len(q) /\ Len(q) - n \in 1..Failures
    BY <1>1, <1>3
  <2> QED BY <2>1 DEF Streaks
<1> QED BY <1>2, <1>3

LEMMA StreaksFrom ==
    ASSUME NEW n, NEW q, q \in Seq(BOOLEAN), Len(q) <= Failures, n \in 0..Len(q),
           \A i \in 1..Len(q) : i > Len(q) - n => ~q[i],
           n < Len(q) => q[Len(q) - n]
    PROVE  Streaks(n, q)
BY Zenon DEF Streaks

(* A result more.                                                          *)
LEMMA StreakGrows ==
    ASSUME NEW n, NEW q, Streaks(n, q), NEW ok \in BOOLEAN,
           NEW m, m = IF ok THEN 0 ELSE IF n + 1 <= Failures THEN n + 1 ELSE Failures
    PROVE  Streaks(m, LastOnes(Append(q, ok)))
<1> DEFINE a == Append(q, ok)
           r == LastOnes(a)
           L == Len(q)
<1>1. L \in Nat /\ n \in 0..L /\ L <= Failures /\ Failures \in Nat \ {0} /\ q \in Seq(BOOLEAN)
  BY ProbesAssumption DEF Streaks
<1>2. /\ a \in Seq(BOOLEAN) /\ Len(a) = L + 1 /\ a[L + 1] = ok
      /\ \A i \in 1..L : a[i] = q[i]
  BY <1>1
<1>3. \A i \in 1..L : i > L - n => ~a[i]
  BY <1>2 DEF Streaks
<1>4. n < L => a[L - n]
  <2>1. n < L => L - n \in 1..L
    BY <1>1
  <2> QED BY <1>2, <2>1 DEF Streaks
<1> SUFFICES Streaks(m, r)
  OBVIOUS
<1> HIDE DEF a
<1>5. CASE L + 1 <= Failures
  <2>1. r = SubSeq(a, 1, L + 1)
    BY <1>1, <1>2, <1>5 DEF LastOnes
  <2>2. r \in Seq(BOOLEAN) /\ Len(r) = L + 1
    BY <1>1, <1>2, <2>1
  <2>3. ASSUME NEW i \in 1..L + 1 PROVE r[i] = a[i]
    BY <1>1, <1>2, <2>1
  <2> HIDE DEF r, L
  <2>4. CASE ok
    <3>1. m = 0 /\ Len(r) - m = L + 1 /\ L + 1 \in 1..L + 1
      BY <1>1, <2>2, <2>4
    <3>2. r[L + 1]
      <4>1. r[L + 1] = a[L + 1]
        BY <2>3, <3>1
      <4> QED BY <1>2, <2>4, <4>1, Zenon
    <3>3. Len(r) <= Failures /\ m \in 0..Len(r)
      BY <1>1, <1>5, <2>2, <3>1
    <3>4. ASSUME NEW i \in 1..Len(r), i > Len(r) - m PROVE ~r[i]
      BY <1>1, <2>2, <3>1, <3>4
    <3>5. r[Len(r) - m]
      BY <3>1, <3>2, Zenon
    <3> QED BY <2>2, <3>3, <3>4, <3>5, StreaksFrom, Zenon
  <2>5. CASE ~ok
    <3>1. m = n + 1 /\ Len(r) - m = L - n
      BY <1>1, <1>5, <2>2, <2>5
    <3>2. ASSUME NEW i \in 1..Len(r), i > Len(r) - m PROVE ~r[i]
      <4>1. r[i] = a[i]
        BY <2>2, <2>3
      <4>2. CASE i = L + 1
        BY <1>2, <2>5, <4>1, <4>2, Zenon
      <4>3. CASE i # L + 1
        <5>1. i \in 1..L /\ i > L - n
          BY <1>1, <2>2, <3>1, <3>2, <4>3
        <5> QED BY <1>3, <4>1, <5>1, Zenon
      <4> QED BY <4>2, <4>3
    <3>3. ASSUME m < Len(r) PROVE r[Len(r) - m]
      <4>1. n < L /\ L - n \in 1..L + 1
        BY <1>1, <2>2, <3>1, <3>3
      <4>2. r[L - n] = a[L - n]
        BY <2>3, <4>1
      <4> QED BY <1>4, <3>1, <4>1, <4>2, Zenon
    <3>4. m \in 0..Len(r) /\ Len(r) <= Failures
      BY <1>1, <1>5, <2>2, <3>1
    <3> QED BY <2>2, <3>2, <3>3, <3>4, StreaksFrom, Zenon
  <2> QED BY <2>4, <2>5 DEF r
<1>6. CASE ~(L + 1 <= Failures)
  <2>1. r = SubSeq(a, 2, L + 1) /\ L = Failures
    BY <1>1, <1>2, <1>6 DEF LastOnes
  <2>2. r \in Seq(BOOLEAN) /\ Len(r) = L
    BY <1>1, <1>2, <2>1
  <2>3. ASSUME NEW i \in 1..L PROVE r[i] = a[i + 1]
    BY <1>1, <1>2, <2>1
  <2> HIDE DEF r, L
  <2>4. L \in 1..L
    BY <1>1, <2>1
  <2>5. r[L] = ok
    <3>1. r[L] = a[L + 1]
      BY <2>3, <2>4
    <3> QED BY <1>2, <3>1, Zenon
  <2>6. CASE ok
    <3>1. m = 0 /\ Len(r) - m = L
      BY <1>1, <2>1, <2>2, <2>6
    <3>2. Len(r) <= Failures /\ m \in 0..Len(r)
      BY <1>1, <2>1, <2>2, <3>1
    <3>3. ASSUME NEW i \in 1..Len(r), i > Len(r) - m PROVE ~r[i]
      BY <1>1, <2>2, <3>1, <3>3
    <3>4. r[Len(r) - m]
      BY <2>5, <2>6, <3>1, Zenon
    <3> QED BY <2>2, <3>2, <3>3, <3>4, StreaksFrom, Zenon
  <2>7. CASE ~ok
    <3>1. m \in 0..Len(r) /\ Len(r) <= Failures /\ (m = n + 1 \/ (m = n /\ n = L))
      BY <1>1, <2>1, <2>2, <2>7
    <3>2. ASSUME NEW i \in 1..Len(r), i > Len(r) - m PROVE ~r[i]
      <4>1. CASE i = L
        BY <2>5, <2>7, <4>1, Zenon
      <4>2. CASE i # L
        <5>1. i \in 1..L /\ i + 1 \in 1..L /\ i + 1 > L - n
          BY <1>1, <2>2, <3>1, <3>2, <4>2
        <5>2. r[i] = a[i + 1]
          BY <2>3, <5>1
        <5> QED BY <1>3, <5>1, <5>2, Zenon
      <4> QED BY <4>1, <4>2
    <3>3. ASSUME m < Len(r) PROVE r[Len(r) - m]
      <4>1. n < L /\ Len(r) - m \in 1..L /\ (Len(r) - m) + 1 = L - n
        BY <1>1, <2>2, <3>1, <3>3
      <4>2. r[Len(r) - m] = a[L - n]
        BY <2>3, <4>1
      <4> QED BY <1>4, <4>1, <4>2, Zenon
    <3> QED BY <2>2, <3>1, <3>2, <3>3, StreaksFrom, Zenon
  <2> QED BY <2>6, <2>7 DEF r
<1> QED BY <1>1, <1>5, <1>6

-----------------------------------------------------------------------------
(* Min, of two.                                                            *)
LEMMA LeastOfTwo ==
    ASSUME NEW a \in Nat, NEW b \in Nat
    PROVE  Min({a, b}) = IF a <= b THEN a ELSE b
<1>1. {a, b} \subseteq Nat /\ {a, b} # {}
  OBVIOUS
<1>2. PICK S : S = {a, b}
  OBVIOUS
<1>3. Min(S) \in S /\ \A y \in S : Min(S) <= y
  BY <1>1, <1>2, LeastOf
<1>4. PICK m : m = Min(S)
  OBVIOUS
<1>5. (m = a \/ m = b) /\ m <= a /\ m <= b
  BY <1>2, <1>3, <1>4
<1>6. m = IF a <= b THEN a ELSE b
  BY <1>5
<1> QED BY <1>2, <1>4, <1>6

-----------------------------------------------------------------------------
(* What is known of one target: n failures in a row by the results q, and  *)
(* the alarm a.                                                            *)
Counted(n, q, a) == Streaks(n, q) /\ a \in BOOLEAN /\ (a <=> n = Failures)

Expiry(sn) == firstToExpire(sn.shows, ValidAt(sn.shows, sn.at))

(* sn was shown, and c is when it ends; there was no chain only if the     *)
(* check is skipped or it `failed'.                                        *)
Shown(t, c, sn, failed) ==
    /\ sn.shows \in Certificates /\ sn.at \in Nat /\ c = Expiry(sn)
    /\ t \in skip \/ ValidAt(sn.shows, sn.at) # {} \/ failed

Sound(fs, cs, as, qs, ss) ==
    /\ fs \in [Targets -> 0..Failures] /\ cs \in [TLSTargets -> Int]
    /\ \A t \in Targets : Counted(fs[t], qs[t], as[t])
    /\ \A t \in TLSTargets :
          \/ cs[t] = NoCert /\ ss[t] = NoneSeen
          \/ Shown(t, cs[t], ss[t], fs[t] > 0)

SoundNow   == Sound(failures, cert, probeAlarm, outcomes, seen)
SoundSaved == Sound(saved.failures, saved.cert, saved.probeAlarm, saved.outcomes, saved.seen)

Answered ==
    \A t \in Targets :
      /\ results[t].ok \in BOOLEAN
      /\ t \in TLSTargets =>
            \/ results[t].cert = NoCert /\ results[t].from = NoneSeen /\ ~results[t].ok
            \/ Shown(t, results[t].cert, results[t].from, ~results[t].ok)

Alarmed ==
    phase = "asleep" => \A t \in TLSTargets :
      certAlarm[t] = IF cert[t] # NoCert THEN Severity(cert[t] - checkedAt) ELSE None

Shapes ==
    /\ now \in 0..MaxTime /\ checkedAt \in 0..now
    /\ phase \in {"probing", "certs", "asleep", "down"} /\ up = (phase # "down")
    /\ shows \in [TLSTargets -> Certificates]
    /\ DOMAIN results = Targets

IInv == Shapes /\ SoundNow /\ SoundSaved /\ Answered /\ Alarmed

-----------------------------------------------------------------------------
(* What the invariant says of every target comes to the property.          *)
LEMMA ExpiryIs ==
    ASSUME NEW sn, sn.shows \in Certificates
    PROVE  /\ Expiry(sn) \in Expiries /\ Expiry(sn) \in 0..LastDay /\ Expiry(sn) # NoCert
           /\ BreaksAt(sn.shows, sn.at) = Expiry(sn)
<1>1. PICK s \in Certificates : s = sn.shows
  OBVIOUS
<1>2. PICK at : at = sn.at
  OBVIOUS
<1>3. PICK e : e = firstToExpire(s, ValidAt(s, at))
  OBVIOUS
<1>4. e \in Expiries /\ e \in 0..LastDay /\ BreaksAt(s, at) = e
  BY <1>3, FirstIs
<1>5. e # NoCert
  BY <1>4 DEF NoCert
<1> QED BY <1>1, <1>2, <1>3, <1>4, <1>5 DEF Expiry

LEMMA ShownIsSeen ==
    ASSUME NEW t, NEW c, NEW sn, NEW failed, Shown(t, c, sn, failed)
    PROVE  c \in Expiries /\ c \in 0..LastDay /\ c # NoCert /\ sn # NoneSeen
           /\ c = BreaksAt(sn.shows, sn.at)
<1>1. sn.shows \in Certificates /\ sn.at \in Nat /\ c = Expiry(sn)
  BY DEF Shown
<1>2. sn # NoneSeen
  BY <1>1 DEF NoneSeen
<1> QED BY <1>1, <1>2, ExpiryIs

LEMMA TypesFollow == IInv => TypeOK
<1> SUFFICES ASSUME IInv PROVE TypeOK
  OBVIOUS
<1>1. /\ failures \in [Targets -> 0..Failures] /\ cert \in [TLSTargets -> Int]
      /\ \A t \in Targets : Counted(failures[t], outcomes[t], probeAlarm[t])
      /\ \A t \in TLSTargets :
            \/ cert[t] = NoCert /\ seen[t] = NoneSeen
            \/ Shown(t, cert[t], seen[t], failures[t] > 0)
  BY DEF IInv, SoundNow, Sound
<1>2. ASSUME NEW t \in Targets
      PROVE  probeAlarm[t] => failures[t] = Failures
  <2>1. Counted(failures[t], outcomes[t], probeAlarm[t])
    BY <1>1
  <2> QED BY <2>1, Zenon DEF Counted
<1>3. ASSUME NEW t \in TLSTargets
      PROVE  cert[t] \in Expiries \cup {NoCert}
  BY <1>1, ShownIsSeen
<1>5. cert \in [TLSTargets -> Expiries \cup {NoCert}]
  <2>1. cert = [t \in TLSTargets |-> cert[t]]
    BY <1>1
  <2> QED BY <1>3, <2>1
<1> QED BY <1>1, <1>2, <1>5 DEF IInv, Shapes, TypeOK

LEMMA ProbesFollow == IInv => ProbeAlarmRight
<1> SUFFICES ASSUME IInv, NEW t \in Targets
             PROVE  probeAlarm[t] <=> Len(outcomes[t]) = Failures /\ \A i \in 1..Failures : ~outcomes[t][i]
  BY DEF ProbeAlarmRight
<1>1. Counted(failures[t], outcomes[t], probeAlarm[t])
  BY DEF IInv, SoundNow, Sound
<1>2. failures[t] = Failures <=>
        Len(outcomes[t]) = Failures /\ \A i \in 1..Failures : ~outcomes[t][i]
  BY <1>1, StreakIs DEF Counted
<1> QED BY <1>1, <1>2, Zenon DEF Counted

LEMMA CertsFollow == IInv => CertAlarmRight
<1> SUFFICES ASSUME IInv, phase = "asleep", NEW t \in TLSTargets
             PROVE  certAlarm[t] = IF seen[t] = NoneSeen THEN None
                                   ELSE Severity(BreaksAt(seen[t].shows, seen[t].at) - checkedAt)
  BY DEF CertAlarmRight
<1>1. \/ cert[t] = NoCert /\ seen[t] = NoneSeen
      \/ Shown(t, cert[t], seen[t], failures[t] > 0)
  BY DEF IInv, SoundNow, Sound
<1>2. certAlarm[t] = IF cert[t] # NoCert THEN Severity(cert[t] - checkedAt) ELSE None
  BY DEF IInv, Alarmed
<1> QED BY <1>1, <1>2, ShownIsSeen

LEMMA BreaksFollow == IInv => BreakIsNoticed
<1> SUFFICES ASSUME IInv, phase = "asleep", NEW t \in TLSTargets \ skip,
                    seen[t] # NoneSeen, seen[t].shows.chains # {},
                    \/ checkedAt + Warn >= BreaksAt(seen[t].shows, seen[t].at)
                    \/ seen[t].at > LastGood(seen[t].shows)
             PROVE  certAlarm[t] # None \/ failures[t] > 0
  BY DEF BreakIsNoticed
<1>1. Shown(t, cert[t], seen[t], failures[t] > 0)
  BY DEF IInv, SoundNow, Sound
<1>2. /\ cert[t] \in 0..LastDay /\ cert[t] # NoCert
      /\ cert[t] = BreaksAt(seen[t].shows, seen[t].at)
  BY <1>1, ShownIsSeen
<1>3. certAlarm[t] = Severity(cert[t] - checkedAt)
  BY <1>2 DEF IInv, Alarmed
<1>4. CASE checkedAt + Warn >= BreaksAt(seen[t].shows, seen[t].at)
  <2>1. checkedAt \in Nat /\ Warn \in Nat /\ Critical \in Nat /\ LastDay \in Nat /\ cert[t] \in Nat
    BY <1>2, ProbesAssumption DEF IInv, Shapes
  <2>2. PICK left : left = cert[t] - checkedAt
    OBVIOUS
  <2>3. left \in Int /\ left <= Warn
    BY <1>2, <1>4, <2>1, <2>2
  <2>4. Severity(left) # None
    BY <2>1, <2>3 DEF Severity, None
  <2> QED BY <1>3, <2>2, <2>4
<1>5. CASE seen[t].at > LastGood(seen[t].shows)
  <2>1. ValidAt(seen[t].shows, seen[t].at) = {}
    BY <1>1, <1>5, NothingHolds DEF Shown
  <2> QED BY <1>1, <2>1 DEF Shown
<1> QED BY <1>4, <1>5

-----------------------------------------------------------------------------
(* What an action has to leave alone for a part of the invariant to stay.  *)
LEMMA NowStays ==
    ASSUME SoundNow, UNCHANGED <<failures, cert, probeAlarm, outcomes, seen, skip>>
    PROVE  SoundNow'
BY DEF SoundNow, Sound, Shown

LEMMA SavedStays ==
    ASSUME SoundSaved, UNCHANGED <<saved, skip>>
    PROVE  SoundSaved'
BY DEF SoundSaved, Sound, Shown

LEMMA AnsweredStays ==
    ASSUME Answered, UNCHANGED <<results, skip>>
    PROVE  Answered'
BY DEF Answered, Shown

LEMMA AlarmedStays ==
    ASSUME Alarmed, UNCHANGED <<phase, certAlarm, cert, checkedAt>>
    PROVE  Alarmed'
BY DEF Alarmed

LEMMA Inits == Init => IInv
<1> SUFFICES ASSUME Init PROVE IInv
  OBVIOUS
<1>1. Shapes
  <2>1. MaxTime \in Nat
    BY ProbesAssumption
  <2>2. now \in 0..MaxTime /\ checkedAt \in 0..now
    BY <2>1 DEF Init
  <2>3. phase = "probing" /\ up = TRUE
    BY DEF Init
  <2>4. shows \in [TLSTargets -> Certificates] /\ DOMAIN results = Targets
    BY DEF Init
  <2> QED BY <2>2, <2>3, <2>4 DEF Shapes
<1>2. ASSUME NEW t \in Targets
      PROVE  Counted(failures[t], outcomes[t], probeAlarm[t])
  <2>1. failures[t] = 0 /\ outcomes[t] = <<>> /\ probeAlarm[t] = FALSE
    BY DEF Init
  <2>2. Streaks(0, <<>>)
    BY ProbesAssumption DEF Streaks
  <2> QED BY <2>1, <2>2, ProbesAssumption DEF Counted
<1>3. failures \in [Targets -> 0..Failures] /\ cert \in [TLSTargets -> Int]
  BY ProbesAssumption DEF Init, NoCert
<1>4. \A t \in TLSTargets : cert[t] = NoCert /\ seen[t] = NoneSeen
  BY DEF Init
<1>5. SoundNow
  BY <1>2, <1>3, <1>4 DEF SoundNow, Sound
<1>6. SoundSaved
  <2>1. /\ saved.failures = failures /\ saved.cert = cert /\ saved.probeAlarm = probeAlarm
        /\ saved.outcomes = outcomes /\ saved.seen = seen
    BY DEF Init, Knowledge
  <2> QED BY <1>5, <2>1 DEF SoundNow, SoundSaved
<1>7. Answered
  BY DEF Init, Answered, Pending
<1>8. Alarmed
  BY DEF Init, Alarmed
<1> QED BY <1>1, <1>5, <1>6, <1>7, <1>8 DEF IInv

LEMMA Ticks == IInv /\ Tick => IInv'
<1> SUFFICES ASSUME IInv, Tick PROVE IInv'
  OBVIOUS
<1>1. Shapes'
  BY ProbesAssumption DEF IInv, Shapes, Tick
<1> QED BY <1>1, NowStays, SavedStays, AnsweredStays, AlarmedStays DEF IInv, Tick, prober, past

LEMMA Flips == ASSUME NEW t \in Targets PROVE IInv /\ Flip(t) => IInv'
<1> SUFFICES ASSUME IInv, Flip(t) PROVE IInv'
  OBVIOUS
<1>1. Shapes'
  BY DEF IInv, Shapes, Flip
<1> QED BY <1>1, NowStays, SavedStays, AnsweredStays, AlarmedStays DEF IInv, Flip, prober, past

LEMMA Renews == ASSUME NEW t \in TLSTargets PROVE IInv /\ Renew(t) => IInv'
<1> SUFFICES ASSUME IInv, Renew(t) PROVE IInv'
  OBVIOUS
<1>1. Shapes'
  BY DEF IInv, Shapes, Renew
<1> QED BY <1>1, NowStays, SavedStays, AnsweredStays, AlarmedStays DEF IInv, Renew, prober, past

LEMMA Wakes == IInv /\ Wake => IInv'
<1> SUFFICES ASSUME IInv, Wake PROVE IInv'
  OBVIOUS
<1>1. Shapes'
  BY DEF IInv, Shapes, Wake
<1>2. Alarmed'
  BY DEF Alarmed, Wake
<1> QED BY <1>1, <1>2, NowStays, SavedStays, AnsweredStays DEF IInv, Wake, prober, past

LEMMA Crashes == IInv /\ Crash => IInv'
<1> SUFFICES ASSUME IInv, Crash PROVE IInv'
  OBVIOUS
<1>1. Shapes'
  BY DEF IInv, Shapes, Crash
<1>2. Alarmed'
  BY DEF Alarmed, Crash
<1>3. Answered'
  BY DEF Answered, Crash, Pending
<1> QED BY <1>1, <1>2, <1>3, NowStays, SavedStays DEF IInv, Crash, prober, past

LEMMA Saves == IInv /\ Save => IInv'
<1> SUFFICES ASSUME IInv, Save PROVE IInv'
  OBVIOUS
<1>1. Shapes'
  BY DEF IInv, Shapes, Save
<1>2. SoundNow'
  BY NowStays DEF IInv, Save, prober, past
<1>3. SoundSaved'
  <2>1. /\ saved'.failures = failures' /\ saved'.cert = cert' /\ saved'.probeAlarm = probeAlarm'
        /\ saved'.outcomes = outcomes' /\ saved'.seen = seen'
    BY DEF Save, Knowledge, prober, past
  <2> QED BY <1>2, <2>1 DEF SoundNow, SoundSaved
<1> QED BY <1>1, <1>2, <1>3, AnsweredStays, AlarmedStays DEF IInv, Save, prober, past

LEMMA Restarts == IInv /\ Restart => IInv'
<1> SUFFICES ASSUME IInv, Restart PROVE IInv'
  OBVIOUS
<1>1. Shapes'
  BY DEF IInv, Shapes, Restart
<1>2. SoundSaved'
  BY SavedStays DEF IInv, Restart
<1>3. SoundNow'
  <2>1. /\ saved'.failures = failures' /\ saved'.cert = cert' /\ saved'.probeAlarm = probeAlarm'
        /\ saved'.outcomes = outcomes' /\ saved'.seen = seen'
    BY DEF Restart
  <2> QED BY <1>2, <2>1 DEF SoundNow, SoundSaved
<1>4. Alarmed'
  BY DEF Alarmed, Restart
<1> QED BY <1>1, <1>2, <1>3, <1>4, AnsweredStays DEF IInv, Restart

LEMMA CertChecks == IInv /\ CheckCerts => IInv'
<1> SUFFICES ASSUME IInv, CheckCerts PROVE IInv'
  OBVIOUS
<1>1. Shapes'
  <2>1. now \in 0..MaxTime /\ now' = now /\ checkedAt' = now
    BY DEF IInv, Shapes, CheckCerts
  <2>2. MaxTime \in Nat
    BY ProbesAssumption
  <2>3. checkedAt' \in 0..now'
    BY <2>1, <2>2
  <2>4. up /\ up' = up /\ phase' = "asleep"
    BY DEF CheckCerts
  <2> QED BY <2>1, <2>3, <2>4 DEF IInv, Shapes, CheckCerts
<1>2. Alarmed'
  BY DEF Alarmed, CheckCerts, Certs
<1> QED BY <1>1, <1>2, NowStays, SavedStays, AnsweredStays DEF IInv, CheckCerts, past

LEMMA Stutters == IInv /\ UNCHANGED vars => IInv'
<1> SUFFICES ASSUME IInv, UNCHANGED vars PROVE IInv'
  OBVIOUS
<1>1. Shapes'
  BY DEF IInv, Shapes, vars
<1> QED BY <1>1, NowStays, SavedStays, AnsweredStays, AlarmedStays DEF IInv, vars, prober, past

-----------------------------------------------------------------------------
(* A probe's answer is about the certificates that are shown now.          *)
LEMMA AnswersAreShown ==
    ASSUME IInv, NEW t \in Targets, NEW r \in Answer(t) \cup {NoAnswer}
    PROVE  /\ r.ok \in BOOLEAN
           /\ t \in TLSTargets =>
                 \/ r.cert = NoCert /\ r.from = NoneSeen /\ ~r.ok
                 \/ Shown(t, r.cert, r.from, ~r.ok)
<1>1. CASE r = NoAnswer
  BY <1>1 DEF NoAnswer, Pending
<1>b. Statuses(t) \subseteq BOOLEAN
  BY DEF Statuses
<1>2. CASE r \in Answer(t) /\ t \notin TLSTargets
  <2>1. PICK b \in BOOLEAN : r = [Pending EXCEPT !.done = TRUE, !.ok = b]
    BY <1>b, <1>2 DEF Answer
  <2>2. r.ok = b
    BY <2>1, Zenon DEF Pending
  <2> QED BY <1>2, <2>2
<1>3. CASE r \in Answer(t) /\ t \in TLSTargets
  <2>1. PICK b \in BOOLEAN :
          r = [done |-> TRUE,
               ok |-> b /\ (t \in skip \/ Verify(shows[t]) # {}),
               cert |-> firstToExpire(shows[t], Verify(shows[t])),
               from |-> [shows |-> shows[t], at |-> now]]
    BY <1>b, <1>3 DEF Answer
  <2>2. /\ r.ok = (b /\ (t \in skip \/ Verify(shows[t]) # {}))
        /\ r.cert = firstToExpire(shows[t], Verify(shows[t]))
        /\ r.from = [shows |-> shows[t], at |-> now]
    BY <2>1, Zenon
  <2>3. r.from.shows = shows[t] /\ r.from.at = now
    BY <2>2
  <2>4. Verify(shows[t]) = ValidAt(r.from.shows, r.from.at)
    BY <2>3 DEF Verify, ValidAt
  <2>5. shows[t] \in Certificates /\ now \in Nat
    BY <1>3, ProbesAssumption DEF IInv, Shapes
  <2>6. r.cert = Expiry(r.from)
    BY <2>2, <2>3, <2>4, Zenon DEF Expiry
  <2>7. r.ok \in BOOLEAN
    BY <2>2, Zenon
  <2>8. t \in skip \/ ValidAt(r.from.shows, r.from.at) # {} \/ ~r.ok
    BY <2>2, <2>4, Zenon
  <2> QED BY <2>3, <2>5, <2>6, <2>7, <2>8, Zenon DEF Shown
<1> QED BY <1>1, <1>2, <1>3

LEMMA ProbesKeep == ASSUME NEW t \in Targets PROVE IInv /\ probe(t) => IInv'
<1> SUFFICES ASSUME IInv, probe(t) PROVE IInv'
  OBVIOUS
<1>1. PICK r \in Answer(t) \cup {NoAnswer} : results' = [results EXCEPT ![t] = r]
  BY DEF probe
<1>2. DOMAIN results = Targets
  BY DEF IInv, Shapes
<1>3. /\ DOMAIN results' = Targets /\ results'[t] = r
      /\ \A x \in Targets : x # t => results'[x] = results[x]
  BY <1>1, <1>2
<1>4. Shapes'
  BY <1>3 DEF IInv, Shapes, probe
<1>5. ASSUME NEW x \in Targets
      PROVE  /\ results'[x].ok \in BOOLEAN
             /\ x \in TLSTargets =>
                  \/ results'[x].cert = NoCert /\ results'[x].from = NoneSeen /\ ~results'[x].ok
                  \/ Shown(x, results'[x].cert, results'[x].from, ~results'[x].ok)
  <2>1. CASE x = t
    BY <1>3, <2>1, AnswersAreShown, Zenon
  <2>2. CASE x # t
    BY <1>3, <2>2, Zenon DEF IInv, Answered
  <2> QED BY <2>1, <2>2
<1>6. skip' = skip
  BY DEF probe
<1>7. Answered'
  BY <1>5, <1>6 DEF Answered, Shown
<1> QED BY <1>4, <1>7, NowStays, SavedStays, AlarmedStays DEF IInv, probe, prober, past

(* A round's results are one more for every target.                        *)
LEMMA RoundCounts ==
    ASSUME IInv, NEW t \in Targets
    PROVE  /\ Counted(Min({Streak(t), Failures}),
                      LastOnes(Append(outcomes[t], results[t].ok)), Failing(t))
           /\ Min({Streak(t), Failures}) \in 0..Failures
           /\ ~results[t].ok => Min({Streak(t), Failures}) > 0
<1>1. Streaks(failures[t], outcomes[t]) /\ failures[t] \in 0..Failures /\ Failures \in Nat \ {0}
  BY ProbesAssumption DEF IInv, SoundNow, Sound, Counted
<1>2. PICK ok \in BOOLEAN : ok = results[t].ok
  BY DEF IInv, Answered
<1>3. Streak(t) = IF ok THEN 0 ELSE failures[t] + 1
  BY <1>2 DEF Streak
<1>4. PICK n : n = Streak(t)
  OBVIOUS
<1>5. n \in Nat
  BY <1>1, <1>3, <1>4
<1>6. PICK m : m = Min({n, Failures})
  OBVIOUS
<1>7. m = IF n <= Failures THEN n ELSE Failures
  BY <1>1, <1>5, <1>6, LeastOfTwo
<1>8. m = IF ok THEN 0 ELSE IF failures[t] + 1 <= Failures THEN failures[t] + 1 ELSE Failures
  BY <1>1, <1>3, <1>4, <1>7
<1>9. Streaks(m, LastOnes(Append(outcomes[t], ok)))
  BY <1>1, <1>8, StreakGrows
<1>10. m \in 0..Failures /\ (~ok => m > 0)
  BY <1>1, <1>8
<1>11. Failing(t) <=> ~ok /\ n >= Failures
  BY <1>2, <1>4, Zenon DEF Failing
<1>12. m = Failures <=> ~ok /\ n >= Failures
  BY <1>1, <1>3, <1>4, <1>7, <1>8
<1>13. Failing(t) \in BOOLEAN
  BY DEF Failing
<1>14. Counted(m, LastOnes(Append(outcomes[t], ok)), Failing(t))
  BY <1>9, <1>11, <1>12, <1>13, Zenon DEF Counted
<1> QED BY <1>2, <1>4, <1>6, <1>10, <1>14, Zenon

LEMMA Rounds == IInv /\ CheckProbes => IInv'
<1> SUFFICES ASSUME IInv, CheckProbes PROVE IInv'
  OBVIOUS
<1>1. Shapes'
  BY DEF IInv, Shapes, CheckProbes
<1>2. ASSUME NEW t \in Targets
      PROVE  /\ Counted(failures'[t], outcomes'[t], probeAlarm'[t])
             /\ failures'[t] \in 0..Failures
             /\ ~results[t].ok => failures'[t] > 0
  <2>1. /\ failures'[t] = Min({Streak(t), Failures})
        /\ outcomes'[t] = LastOnes(Append(outcomes[t], results[t].ok))
        /\ probeAlarm'[t] = Failing(t)
    BY DEF CheckProbes
  <2> QED BY <2>1, RoundCounts, Zenon
<1>3. failures' \in [Targets -> 0..Failures]
  <2>1. failures' = [t \in Targets |-> failures'[t]]
    BY DEF CheckProbes
  <2> QED BY <1>2, <2>1
<1>4. ASSUME NEW t \in TLSTargets
      PROVE  /\ cert'[t] \in Int
             /\ \/ cert'[t] = NoCert /\ seen'[t] = NoneSeen
                \/ Shown(t, cert'[t], seen'[t], failures'[t] > 0)
  <2>1. t \in Targets
    BY ProbesAssumption
  <2>2. /\ cert'[t] = IF results[t].cert # NoCert THEN results[t].cert ELSE cert[t]
        /\ seen'[t] = IF results[t].from # NoneSeen THEN results[t].from ELSE seen[t]
    BY DEF CheckProbes, Latest
  <2>3. \/ results[t].cert = NoCert /\ results[t].from = NoneSeen /\ ~results[t].ok
        \/ Shown(t, results[t].cert, results[t].from, ~results[t].ok)
    BY <2>1 DEF IInv, Answered
  <2>4. CASE results[t].cert = NoCert /\ results[t].from = NoneSeen /\ ~results[t].ok
    <3>1. cert'[t] = cert[t] /\ seen'[t] = seen[t] /\ failures'[t] > 0
      BY <1>2, <2>1, <2>2, <2>4
    <3>2. \/ cert[t] = NoCert /\ seen[t] = NoneSeen
          \/ Shown(t, cert[t], seen[t], failures[t] > 0)
      BY DEF IInv, SoundNow, Sound
    <3>3. cert[t] \in Int
      BY DEF IInv, SoundNow, Sound
    <3> QED BY <3>1, <3>2, <3>3 DEF Shown
  <2>5. CASE Shown(t, results[t].cert, results[t].from, ~results[t].ok)
    <3>1. results[t].cert \in 0..LastDay /\ results[t].cert # NoCert /\ results[t].from # NoneSeen
      BY <2>5, ShownIsSeen
    <3>2. cert'[t] = results[t].cert /\ seen'[t] = results[t].from
      BY <2>2, <3>1
    <3>3. Shown(t, results[t].cert, results[t].from, failures'[t] > 0)
      BY <1>2, <2>1, <2>5, Zenon DEF Shown
    <3> QED BY <3>1, <3>2, <3>3, ProbesAssumption
  <2> QED BY <2>3, <2>4, <2>5
<1>5. cert' \in [TLSTargets -> Int]
  <2>1. cert' = [t \in TLSTargets |-> cert'[t]]
    BY DEF CheckProbes
  <2> QED BY <1>4, <2>1
<1>6. skip' = skip
  BY DEF CheckProbes
<1>7. SoundNow'
  BY <1>2, <1>3, <1>4, <1>5, <1>6 DEF SoundNow, Sound, Shown
<1>8. SoundSaved'
  BY SavedStays DEF IInv, CheckProbes
<1>9. Answered'
  BY DEF CheckProbes, Answered, Pending
<1>10. Alarmed'
  BY DEF CheckProbes, Alarmed
<1> QED BY <1>1, <1>7, <1>8, <1>9, <1>10 DEF IInv

-----------------------------------------------------------------------------
(* The prober keeps its invariant, whatever the targets answer, whenever   *)
(* it is saved and however often it crashes.                               *)
THEOREM Inductive == Spec => []IInv
<1>1. ASSUME IInv, [Next]_vars PROVE IInv'
  BY <1>1, Ticks, Saves, Crashes, Rounds, CertChecks, Wakes, Restarts, Flips, ProbesKeep,
     Renews, Stutters DEF Next, runProbes
<1> QED BY <1>1, Inits, PTL DEF Spec

(* Both alarms of a target say what its last answers say, over crashes and *)
(* restarts: a problem is open exactly after Failures failures in a row,   *)
(* the certificate alarm has the severity of the moment the best verified  *)
(* chain breaks, and no such break passes without an alarm or a failure.   *)
THEOREM AlarmsAreRight == Spec => []AlarmsRight
<1>1. IInv => AlarmsRight
  BY TypesFollow, ProbesFollow, CertsFollow, BreaksFollow DEF AlarmsRight
<1> QED BY <1>1, Inductive, PTL
=============================================================================
