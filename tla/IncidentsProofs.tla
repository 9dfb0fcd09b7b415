-------------------------- MODULE IncidentsProofs --------------------------
(***************************************************************************)
(* Proofs about the dispatcher and the grouper: alerts are delivered in    *)
(* order, updates are updates, no alert is lost or sent twice, and prompts *)
(* tell the story of their incident once.                                  *)
(*                                                                         *)
(* A filed alert is in one of three stages: held back by an incident, in   *)
(* a batch on its way (the line: group, channel, hand-over, ready), or     *)
(* sent.  The invariant says of any two alerts which may be ahead of the   *)
(* other, whatever stage each is in.  What moves them is proved of the     *)
(* stages as such (Leaves, Joins, Adds, Holds), and each step of the model *)
(* is then shown to be one of these moves.                                 *)
(*                                                                         *)
(* The last part adds what incidents and batches know: of the alerts that  *)
(* are gone, in the line or sent, an open incident remembers the last, and *)
(* a batch tells of the last before its own.                               *)
(***************************************************************************)
EXTENDS Incidents, TLAPS, FiniteSetTheorems, SequenceTheorems, WellFoundedInduction

(* A sequence, whatever its elements are.                                  *)
IsSeq(s) == s \in Seq({s[i] : i \in DOMAIN s})

(* What the order of delivery depends on in a batch.                       *)
Core(b) == [id |-> b.id, update |-> b.update, alerts |-> b.alerts]

(* Batches on their way from the grouper to the receivers, oldest first.   *)
AllOf(g, b, h, r)  == ((g \o b) \o h) \o r
LineOf(g, b, h, r) == [p \in 1..Len(AllOf(g, b, h, r)) |-> Core(AllOf(g, b, h, r)[p])]
Line == LineOf(group, batches, handing, ready)

(* Waiting[i]: what incident i holds back.                                 *)
Waiting == [i \in Nat |-> IF i \in DOMAIN open THEN open[i].pending ELSE <<>>]

(* Alerts the grouper has filed, with their incident.                      *)
Item(a, i)     == [alert |-> a, id |-> i]
ItemsOf(as, i) == {Item(as[x], i) : x \in 1..Len(as)}
SentItems(d)    == {d[k] : k \in 1..Len(d)}
LineItems(l)    == UNION {ItemsOf(l[p].alerts, l[p].id) : p \in DOMAIN l}
WaitingItems(w) == UNION {ItemsOf(w[i], i) : i \in Nat}
ItemsFrom(d, l, w) == (SentItems(d) \cup LineItems(l)) \cup WaitingItems(w)
Items == ItemsFrom(delivered, Line, Waiting)

(* The incidents something was sent for, or is about to be.                *)
BegunIn(d, l, i) == \/ \E k \in 1..Len(d) : d[k].id = i
                    \/ \E p \in DOMAIN l : l[p].id = i

(* Two alerts of one incident, or any two if incidents are off.            *)
Off == enabled = "off"
Rel(off, i, j) == off \/ (i = j /\ i # 0)

(* Alert a of incident i may be ahead of alert b of incident j.            *)
Fits(off, a, i, b, j)   == a.n # b.n /\ (Rel(off, i, j) => a.n < b.n)
AllFit(off, s, i, t, j) == \A x \in 1..Len(s), y \in 1..Len(t) : Fits(off, s[x], i, t[y], j)
Under(off, a, i, t, j)  == \A y \in 1..Len(t) : Fits(off, a, i, t[y], j)
Ascending(s)        == \A x, y \in 1..Len(s) : x < y => s[x].n < s[y].n

-----------------------------------------------------------------------------
IsBatch(b) == b = [id |-> b.id, update |-> b.update, alerts |-> b.alerts,
                   earlier |-> b.earlier, prev |-> b.prev, summary |-> b.summary]
IsIncident(c) ==
    c = [subjects |-> c.subjects, hasHost |-> c.hasHost, last |-> c.last,
         newest |-> c.newest, notified |-> c.notified, pending |-> c.pending,
         due |-> c.due, earlier |-> c.earlier, summary |-> c.summary]

BatchesOK(s) == IsSeq(s) /\ \A i \in DOMAIN s : IsBatch(s[i])

Shapes ==
    /\ BatchesOK(group) /\ BatchesOK(batches) /\ BatchesOK(handing) /\ BatchesOK(ready)
    /\ \A i \in DOMAIN open : IsIncident(open[i])

Scalars ==
    /\ now \in Nat \ {0} /\ phase \in {"run", "closed"} /\ enabled \in {"on", "off"}
    /\ filed \in Nat /\ nextID \in Nat
    /\ episode \in [Keys -> 0..2] /\ byKey \in [Keys -> 0..nextID]

OpenOK ==
    /\ DOMAIN open \subseteq 1..nextID
    /\ \A i \in DOMAIN open :
          /\ open[i].pending \in Seq(Issue)
          /\ open[i].due \in Nat /\ (open[i].due = 0 <=> open[i].pending = <<>>)
          /\ open[i].newest \in 0..filed
          /\ open[i].notified \in BOOLEAN

Stages ==
    /\ worker = "send" => group # <<>>
    /\ ready # <<>> => pc = "due"
    /\ enabled = "off" => DOMAIN open = {}
    /\ pc = "done" => /\ phase = "closed" /\ queue = <<>>
                      /\ \A i \in DOMAIN open : open[i].pending = <<>>

SentInOrder(off, d) ==
    \A j, k \in 1..Len(d) : j < k => Fits(off, d[j].alert, d[j].id, d[k].alert, d[k].id)
SentThenLine(off, d, l) ==
    \A k \in 1..Len(d), p \in DOMAIN l :
        Under(off, d[k].alert, d[k].id, l[p].alerts, l[p].id)
SentThenWaiting(off, d, w) ==
    \A k \in 1..Len(d), i \in Nat : Under(off, d[k].alert, d[k].id, w[i], i)
LineInOrder(off, l) ==
    /\ \A p \in DOMAIN l : Ascending(l[p].alerts)
    /\ \A p, q \in DOMAIN l : p < q =>
          AllFit(off, l[p].alerts, l[p].id, l[q].alerts, l[q].id)
LineThenWaiting(off, l, w) ==
    \A p \in DOMAIN l, i \in Nat : AllFit(off, l[p].alerts, l[p].id, w[i], i)
WaitingInOrder(off, w) ==
    /\ \A i \in Nat : Ascending(w[i])
    /\ \A i, j \in Nat : i # j => AllFit(off, w[i], i, w[j], j)

OrderOf(off, d, l, w) ==
    /\ SentInOrder(off, d) /\ SentThenLine(off, d, l) /\ SentThenWaiting(off, d, w)
    /\ LineInOrder(off, l) /\ LineThenWaiting(off, l, w) /\ WaitingInOrder(off, w)

(* Every alert up to number n is queued or filed, and what is queued is    *)
(* newer than what is filed.                                               *)
NumberedOf(n, q, items) ==
    /\ \A j \in 1..Len(q) : q[j].n \in 1..n
    /\ Ascending(q)
    /\ \A e \in items : /\ e.alert.n \in 1..n
                        /\ \A j \in 1..Len(q) : e.alert.n < q[j].n
    /\ \A m \in 1..n : (\E j \in 1..Len(q) : q[j].n = m)
                        \/ \E e \in items : e.alert.n = m

IsFiring(a, k)   == a.key = k /\ a.kind = "firing"
IsResolved(a, k) == a.key = k /\ a.kind = "resolved"

(* An alert for key k is filed under incident i.                           *)
FiledIn(items, k, i) == \E e \in items : IsFiring(e.alert, k) /\ e.id = i

(* Where the grouper files the end of an episode of k.                     *)
LiveIn(off, items, bk, k) == IF off THEN FiledIn(items, k, 0) ELSE bk[k] # 0

(* The queue up to position j leaves an episode of k behind.               *)
BeginsIn(off, items, bk, q, j, k) ==
    \/ \E i \in 1..j - 1 : /\ IsFiring(q[i], k)
                           /\ \A m \in i + 1..j - 1 : ~IsResolved(q[m], k)
    \/ LiveIn(off, items, bk, k) /\ \A m \in 1..j - 1 : ~IsResolved(q[m], k)

ResolvedRight(off, items) ==
    \A e \in items : e.alert.kind = "resolved" =>
          /\ ~off => e.id # 0
          /\ \E f \in items : /\ IsFiring(f.alert, e.alert.key) /\ f.id = e.id
                              /\ f.alert.n < e.alert.n
KeysRight(items, bk) == \A k \in Keys : bk[k] # 0 => FiledIn(items, k, bk[k])
QueueRight(off, items, bk, q) ==
    \A j \in 1..Len(q) :
        /\ q[j].kind = "resolved" => q[j].key \in Keys /\ BeginsIn(off, items, bk, q, j, q[j].key)
        /\ q[j].key \in Keys => ~q[j].silenced
EpisodesRight(off, items, bk, q, ep) ==
    \A k \in Keys : ep[k] > 0 => BeginsIn(off, items, bk, q, Len(q) + 1, k)

EndsOf(off, items, bk, q, ep) ==
    /\ ResolvedRight(off, items) /\ KeysRight(items, bk)
    /\ QueueRight(off, items, bk, q) /\ EpisodesRight(off, items, bk, q, ep)

UpdatesOf(d, l, op) ==
    /\ \A i \in DOMAIN op : op[i].notified <=> BegunIn(d, l, i)
    /\ \A p \in DOMAIN l :
          l[p].update <=>
             /\ l[p].id # 0
             /\ \/ \E k \in 1..Len(d) : d[k].id = l[p].id
                \/ \E q \in 1..p - 1 : l[q].id = l[p].id

LineOK(l, nid) ==
    /\ \E n \in Nat : DOMAIN l = 1..n
    /\ \A p \in DOMAIN l :
          /\ l[p].id \in 0..nid /\ l[p].update \in BOOLEAN
          /\ l[p].alerts \in Seq(Issue) /\ l[p].alerts # <<>>
SentOK(d, nid) ==
    d \in Seq([alert : Issue, id : Nat]) /\ \A k \in 1..Len(d) : d[k].id \in 0..nid
WaitingOK(w) == \A i \in Nat : w[i] \in Seq(Issue)

Tidy(off, d, l, w, op, n, nid, q, bk, ep) ==
    /\ LineOK(l, nid) /\ SentOK(d, nid) /\ WaitingOK(w) /\ q \in Seq(Issue)
    /\ OrderOf(off, d, l, w)
    /\ NumberedOf(n, q, ItemsFrom(d, l, w))
    /\ EndsOf(off, ItemsFrom(d, l, w), bk, q, ep)
    /\ UpdatesOf(d, l, op)

InOrder ==
    Tidy(Off, delivered, Line, Waiting, open, filed, nextID, queue, byKey, episode)

IInv == Shapes /\ Scalars /\ OpenOK /\ Stages /\ InOrder

-----------------------------------------------------------------------------
(***************************************************************************)
(* Sequences, whatever their elements are.                                 *)
(***************************************************************************)
(* A sequence over a set.                                                  *)
LEMMA SeqIs ==
    ASSUME NEW S, NEW s \in Seq(S)
    PROVE  /\ IsSeq(s) /\ Len(s) \in Nat /\ DOMAIN s = 1..Len(s)
           /\ (s = <<>> <=> Len(s) = 0)
<1>1. /\ Len(s) \in Nat /\ DOMAIN s = 1..Len(s) /\ s \in [1..Len(s) -> S]
  BY LenProperties
<1>2. s \in [1..Len(s) -> {s[i] : i \in DOMAIN s}]
  BY <1>1
<1>3. IsSeq(s)
  BY <1>1, <1>2, SMTT(30) DEF IsSeq
<1> QED BY <1>1, <1>3, EmptySeq

(* Its length and domain.                                                  *)
LEMMA IsSeqLen ==
    ASSUME NEW s, IsSeq(s)
    PROVE  Len(s) \in Nat /\ DOMAIN s = 1..Len(s) /\ (s = <<>> <=> Len(s) = 0)
BY SeqIs DEF IsSeq

(* The empty sequence.                                                     *)
LEMMA EmptyIs == IsSeq(<<>>) /\ Len(<<>>) = 0
<1>1. <<>> \in Seq({})
  OBVIOUS
<1> QED BY <1>1, SeqIs

(* A sequence of one element.                                              *)
LEMMA OneIs ==
    ASSUME NEW e
    PROVE  IsSeq(<<e>>) /\ Len(<<e>>) = 1 /\ <<e>>[1] = e
<1>1. <<e>> \in Seq({e})
  OBVIOUS
<1> QED BY <1>1, SeqIs

(* What Append does, whatever the elements are.                            *)
LEMMA AppendIs ==
    ASSUME NEW s, IsSeq(s), NEW e
    PROVE  /\ IsSeq(Append(s, e)) /\ Len(Append(s, e)) = Len(s) + 1
           /\ Len(s) \in Nat
           /\ \A i \in 1..Len(s) : Append(s, e)[i] = s[i]
           /\ Append(s, e)[Len(s) + 1] = e
<1> DEFINE T == {s[i] : i \in DOMAIN s} \cup {e}
<1>1. s \in Seq(T) /\ e \in T
  BY SeqMonotonic DEF IsSeq
<1> HIDE DEF T
<1>2. Append(s, e) \in Seq(T)
  BY <1>1
<1>3. IsSeq(Append(s, e))
  BY <1>2, SeqIs
<1> QED BY <1>1, <1>3

(* What Tail and Head do.                                                  *)
LEMMA TailIs ==
    ASSUME NEW s, IsSeq(s), s # <<>>
    PROVE  /\ IsSeq(Tail(s)) /\ Len(Tail(s)) = Len(s) - 1
           /\ Len(s) \in Nat \ {0} /\ Head(s) = s[1]
           /\ \A i \in 1..Len(s) - 1 : Tail(s)[i] = s[i + 1]
<1> DEFINE T == {s[i] : i \in DOMAIN s}
<1>1. s \in Seq(T)
  BY DEF IsSeq
<1> HIDE DEF T
<1>2. Tail(s) \in Seq(T) /\ Len(Tail(s)) = Len(s) - 1
      /\ \A i \in 1..Len(Tail(s)) : Tail(s)[i] = s[i + 1]
  BY <1>1, HeadTailProperties
<1>3. IsSeq(Tail(s))
  BY <1>2, SeqIs
<1>4. Len(s) \in Nat \ {0} /\ Head(s) = s[1]
  BY <1>1, EmptySeq
<1> QED BY <1>2, <1>3, <1>4

(* What concatenation does.                                                *)
LEMMA ConcatIs ==
    ASSUME NEW s, NEW t, IsSeq(s), IsSeq(t)
    PROVE  /\ IsSeq(s \o t) /\ Len(s) \in Nat /\ Len(t) \in Nat
           /\ Len(s \o t) = Len(s) + Len(t)
           /\ \A i \in 1..Len(s) : (s \o t)[i] = s[i]
           /\ \A i \in 1..Len(t) : (s \o t)[Len(s) + i] = t[i]
<1> DEFINE T == {s[i] : i \in DOMAIN s} \cup {t[i] : i \in DOMAIN t}
<1>1. s \in Seq(T) /\ t \in Seq(T)
  BY SeqMonotonic DEF IsSeq
<1> HIDE DEF T
<1>2. s \o t \in Seq(T)
      /\ Len(s \o t) = Len(s) + Len(t)
      /\ \A i \in 1..Len(s) + Len(t) : (s \o t)[i] =
                     IF i <= Len(s) THEN s[i] ELSE t[i - Len(s)]
  BY <1>1, ConcatProperties
<1>3. Len(s) \in Nat /\ Len(t) \in Nat
  BY <1>1, LenProperties
<1>4. IsSeq(s \o t)
  BY <1>2, SeqIs
<1>5. ASSUME NEW i \in 1..Len(s) PROVE (s \o t)[i] = s[i]
  BY <1>2, <1>3
<1>6. ASSUME NEW i \in 1..Len(t) PROVE (s \o t)[Len(s) + i] = t[i]
  <2>1. Len(s) + i \in 1..Len(s) + Len(t) /\ ~(Len(s) + i <= Len(s))
        /\ (Len(s) + i) - Len(s) = i
    BY <1>3
  <2> QED BY <1>2, <2>1
<1> QED BY <1>2, <1>3, <1>4, <1>5, <1>6

(* A function on 1..n is a sequence.                                       *)
LEMMA FunctionIs ==
    ASSUME NEW n \in Nat, NEW f, f = [i \in 1..n |-> f[i]]
    PROVE  IsSeq(f) /\ Len(f) = n
<1> DEFINE T == {f[i] : i \in 1..n}
<1>1. f \in [1..n -> T]
  OBVIOUS
<1> HIDE DEF T
<1>2. f \in Seq(T)
  BY <1>1
<1>3. DOMAIN f = 1..n /\ DOMAIN f = 1..Len(f) /\ Len(f) \in Nat
  BY <1>1, <1>2, SeqIs
<1>4. Len(f) = n
  BY <1>3
<1> QED BY <1>2, <1>4, SeqIs

-----------------------------------------------------------------------------
(***************************************************************************)
(* The line of batches.                                                    *)
(***************************************************************************)
(* The batch at place p of the line.                                       *)
PlaceOf(g, b, h, r, p) ==
    IF p <= Len(g) THEN g[p]
    ELSE IF p <= Len(g) + Len(b) THEN b[p - Len(g)]
    ELSE IF p <= Len(g) + Len(b) + Len(h) THEN h[p - (Len(g) + Len(b))]
    ELSE r[p - (Len(g) + Len(b) + Len(h))]
Four(g, b, h, r) == IsSeq(g) /\ IsSeq(b) /\ IsSeq(h) /\ IsSeq(r)
Total(g, b, h, r) == Len(g) + Len(b) + Len(h) + Len(r)

(* The line, place by place.                                               *)
LEMMA LineIs ==
    ASSUME NEW g, NEW b, NEW h, NEW r, Four(g, b, h, r)
    PROVE  /\ Len(g) \in Nat /\ Len(b) \in Nat /\ Len(h) \in Nat /\ Len(r) \in Nat
           /\ Total(g, b, h, r) \in Nat
           /\ LineOf(g, b, h, r) = [p \in 1..Total(g, b, h, r) |-> Core(PlaceOf(g, b, h, r, p))]
<1>1. /\ IsSeq(g \o b) /\ Len(g) \in Nat /\ Len(b) \in Nat
      /\ Len(g \o b) = Len(g) + Len(b)
      /\ \A i \in 1..Len(g) : (g \o b)[i] = g[i]
      /\ \A i \in 1..Len(b) : (g \o b)[Len(g) + i] = b[i]
  BY ConcatIs DEF Four
<1>2. /\ IsSeq((g \o b) \o h) /\ Len(h) \in Nat
      /\ Len((g \o b) \o h) = Len(g) + Len(b) + Len(h)
      /\ \A i \in 1..Len(g) + Len(b) : ((g \o b) \o h)[i] = (g \o b)[i]
      /\ \A i \in 1..Len(h) : ((g \o b) \o h)[Len(g) + Len(b) + i] = h[i]
  BY <1>1, ConcatIs DEF Four
<1>3. /\ Len(r) \in Nat
      /\ Len(AllOf(g, b, h, r)) = Len(g) + Len(b) + Len(h) + Len(r)
      /\ \A i \in 1..Len(g) + Len(b) + Len(h) :
            AllOf(g, b, h, r)[i] = ((g \o b) \o h)[i]
      /\ \A i \in 1..Len(r) :
            AllOf(g, b, h, r)[Len(g) + Len(b) + Len(h) + i] = r[i]
  BY <1>2, ConcatIs DEF Four, AllOf
<1> DEFINE A == AllOf(g, b, h, r)
<1>4. ASSUME NEW p \in 1..Total(g, b, h, r)
      PROVE  A[p] = PlaceOf(g, b, h, r, p)
  <2>1. CASE p <= Len(g)
    <3>1. p \in 1..Len(g) /\ p \in 1..Len(g) + Len(b)
          /\ p \in 1..Len(g) + Len(b) + Len(h)
      BY <1>1, <1>2, <1>3, <2>1 DEF Total
    <3> QED BY <1>1, <1>2, <1>3, <2>1, <3>1 DEF PlaceOf
  <2>2. CASE ~(p <= Len(g)) /\ p <= Len(g) + Len(b)
    <3>1. p - Len(g) \in 1..Len(b) /\ Len(g) + (p - Len(g)) = p
      BY <1>1, <2>2
    <3>2. (g \o b)[p] = b[p - Len(g)]
      BY <1>1, <3>1
    <3>3. p \in 1..Len(g) + Len(b) /\ p \in 1..Len(g) + Len(b) + Len(h)
      BY <1>1, <1>2, <2>2
    <3> QED BY <1>2, <1>3, <2>2, <3>2, <3>3 DEF PlaceOf
  <2>3. CASE ~(p <= Len(g) + Len(b)) /\ p <= Len(g) + Len(b) + Len(h)
    <3> DEFINE q == p - (Len(g) + Len(b))
    <3>1. q \in 1..Len(h) /\ Len(g) + Len(b) + q = p /\ ~(p <= Len(g))
      BY <1>1, <1>2, <2>3
    <3>2. ((g \o b) \o h)[p] = h[q]
      BY <1>2, <3>1
    <3>3. p \in 1..Len(g) + Len(b) + Len(h)
      BY <1>1, <1>2, <2>3
    <3> QED BY <1>3, <2>3, <3>1, <3>2, <3>3 DEF PlaceOf
  <2>4. CASE ~(p <= Len(g) + Len(b) + Len(h))
    <3> DEFINE q == p - (Len(g) + Len(b) + Len(h))
    <3>1. q \in 1..Len(r) /\ Len(g) + Len(b) + Len(h) + q = p
          /\ ~(p <= Len(g)) /\ ~(p <= Len(g) + Len(b))
      BY <1>1, <1>2, <1>3, <2>4 DEF Total
    <3>2. A[p] = r[q]
      BY <1>3, <3>1
    <3> QED BY <2>4, <3>1, <3>2 DEF PlaceOf
  <2> QED BY <2>1, <2>2, <2>3, <2>4, <1>1, <1>2
<1>5. Total(g, b, h, r) \in Nat /\ Len(A) = Total(g, b, h, r)
  BY <1>1, <1>2, <1>3 DEF Total
<1> HIDE DEF A
<1>6. LineOf(g, b, h, r) = [p \in 1..Len(A) |-> Core(A[p])]
  BY DEF LineOf, A
<1> QED BY <1>1, <1>2, <1>3, <1>4, <1>5, <1>6

(* The head of one sequence moves to the end of the one before.            *)
LEMMA MoveHead ==
    ASSUME NEW s, NEW t, IsSeq(s), IsSeq(t), t # <<>>
    PROVE  Append(s, Head(t)) \o Tail(t) = s \o t
<1> DEFINE T == {s[i] : i \in DOMAIN s} \cup {t[i] : i \in DOMAIN t}
           ss == Append(s, Head(t))
           tt == Tail(t)
<1>1. s \in Seq(T) /\ t \in Seq(T)
  BY SeqMonotonic DEF IsSeq
<1> HIDE DEF T
<1>2. Head(t) \in T /\ tt \in Seq(T) /\ Len(tt) = Len(t) - 1 /\ Head(t) = t[1]
      /\ Len(t) \in Nat \ {0} /\ Len(s) \in Nat
      /\ \A i \in 1..Len(t) - 1 : tt[i] = t[i + 1]
  BY <1>1, HeadTailProperties, TailIs, LenProperties
<1>3. ss \in Seq(T) /\ Len(ss) = Len(s) + 1 /\ ss[Len(s) + 1] = Head(t)
      /\ \A i \in 1..Len(s) : ss[i] = s[i]
  BY <1>1, <1>2
<1> HIDE DEF ss, tt
<1>4. /\ ss \o tt \in Seq(T) /\ Len(ss \o tt) = Len(s) + Len(t)
      /\ \A i \in 1..Len(s) + Len(t) :
           (ss \o tt)[i] = IF i <= Len(ss) THEN ss[i] ELSE tt[i - Len(ss)]
  <2>1. Len(ss) + Len(tt) = Len(s) + Len(t)
    BY <1>2, <1>3
  <2>2. /\ ss \o tt \in Seq(T) /\ Len(ss \o tt) = Len(ss) + Len(tt)
        /\ \A i \in 1..Len(ss) + Len(tt) :
             (ss \o tt)[i] = IF i <= Len(ss) THEN ss[i] ELSE tt[i - Len(ss)]
    BY <1>2, <1>3, ConcatProperties
  <2> QED BY <2>1, <2>2
<1>5. /\ s \o t \in Seq(T) /\ Len(s \o t) = Len(s) + Len(t)
      /\ \A i \in 1..Len(s) + Len(t) :
           (s \o t)[i] = IF i <= Len(s) THEN s[i] ELSE t[i - Len(s)]
  BY <1>1, ConcatProperties
<1>6. ASSUME NEW i \in 1..Len(s) + Len(t) PROVE (ss \o tt)[i] = (s \o t)[i]
  <2>1. CASE i <= Len(s)
    <3>1. i \in 1..Len(s) /\ i <= Len(ss)
      BY <1>2, <1>3, <2>1
    <3> QED BY <1>3, <1>4, <1>5, <2>1, <3>1
  <2>2. CASE i = Len(s) + 1
    <3>1. i <= Len(ss) /\ ~(i <= Len(s)) /\ i - Len(s) = 1
      BY <1>2, <1>3, <2>2
    <3> QED BY <1>2, <1>3, <1>4, <1>5, <2>2, <3>1
  <2>3. CASE i > Len(s) + 1
    <3>1. /\ ~(i <= Len(ss)) /\ ~(i <= Len(s))
          /\ i - Len(ss) \in 1..Len(t) - 1 /\ (i - Len(ss)) + 1 = i - Len(s)
      BY <1>2, <1>3, <2>3
    <3> QED BY <1>2, <1>4, <1>5, <3>1
  <2>4. Len(s) \in Nat /\ Len(t) \in Nat
    BY <1>2
  <2>5. i <= Len(s) \/ i = Len(s) + 1 \/ i > Len(s) + 1
    BY <2>4
  <2> QED BY <2>1, <2>2, <2>3, <2>5
<1>7. ss \o tt = s \o t
  BY <1>4, <1>5, <1>6, SeqEqual
<1> QED BY <1>7 DEF ss, tt

(* Concatenation is associative.                                           *)
LEMMA Assoc ==
    ASSUME NEW s, NEW t, NEW u, IsSeq(s), IsSeq(t), IsSeq(u)
    PROVE  (s \o t) \o u = s \o (t \o u)
<1> DEFINE T == {s[i] : i \in DOMAIN s} \cup {t[i] : i \in DOMAIN t}
                  \cup {u[i] : i \in DOMAIN u}
<1>1. s \in Seq(T) /\ t \in Seq(T) /\ u \in Seq(T)
  BY SeqMonotonic DEF IsSeq
<1> HIDE DEF T
<1> QED BY <1>1, ConcatAssociative

(* Fetch: from the channel to the group.                                   *)
LEMMA FetchLine ==
    ASSUME NEW g, NEW b, NEW h, NEW r, Four(g, b, h, r), b # <<>>
    PROVE  LineOf(Append(g, Head(b)), Tail(b), h, r) = LineOf(g, b, h, r)
BY MoveHead DEF Four, LineOf, AllOf

(* Hand: from the dispatcher to the channel.                               *)
LEMMA HandLine ==
    ASSUME NEW g, NEW b, NEW h, NEW r, Four(g, b, h, r), h # <<>>
    PROVE  LineOf(g, Append(b, Head(h)), Tail(h), r) = LineOf(g, b, h, r)
<1> DEFINE bb == Append(b, Head(h))
           hh == Tail(h)
<1>1. IsSeq(g) /\ IsSeq(b) /\ IsSeq(h) /\ IsSeq(bb) /\ IsSeq(hh)
  BY AppendIs, TailIs DEF Four
<1>2. bb \o hh = b \o h
  BY MoveHead DEF Four
<1> HIDE DEF bb, hh
<1>3. (g \o bb) \o hh = g \o (bb \o hh)
  BY <1>1, Assoc
<1>4. (g \o b) \o h = g \o (b \o h)
  BY <1>1, Assoc
<1>5. LineOf(g, bb, hh, r) = LineOf(g, b, h, r)
  BY <1>3, <1>4, <1>2 DEF LineOf, AllOf
<1> QED BY <1>5 DEF bb, hh

(* Analyze: a summary is not part of a batch's core.                       *)
LEMMA AnalyzeLine ==
    ASSUME NEW g, NEW b, NEW h, NEW r, Four(g, b, h, r),
           NEW gg, IsSeq(gg), Len(gg) = Len(g),
           \A i \in 1..Len(g) : Core(gg[i]) = Core(g[i])
    PROVE  LineOf(gg, b, h, r) = LineOf(g, b, h, r)
<1>1. Four(gg, b, h, r) /\ Total(gg, b, h, r) = Total(g, b, h, r)
  BY DEF Four, Total
<1>2. LineOf(g, b, h, r) = [p \in 1..Total(g, b, h, r) |-> Core(PlaceOf(g, b, h, r, p))]
  BY LineIs
<1>3. LineOf(gg, b, h, r) = [p \in 1..Total(g, b, h, r) |-> Core(PlaceOf(gg, b, h, r, p))]
  BY <1>1, LineIs
<1>4. ASSUME NEW p \in 1..Total(g, b, h, r)
      PROVE  Core(PlaceOf(gg, b, h, r, p)) = Core(PlaceOf(g, b, h, r, p))
  <2>1. Len(g) \in Nat /\ (p <= Len(g) => p \in 1..Len(g))
    BY LineIs DEF Total
  <2> QED BY <2>1 DEF PlaceOf
<1> QED BY <1>2, <1>3, <1>4

(* Send: the oldest batch leaves the line.                                 *)
LEMMA SendLine ==
    ASSUME NEW g, NEW b, NEW h, NEW r, Four(g, b, h, r), g # <<>>
    PROVE  /\ Total(g, b, h, r) \in Nat \ {0}
           /\ DOMAIN LineOf(g, b, h, r) = 1..Total(g, b, h, r)
           /\ DOMAIN LineOf(Tail(g), b, h, r) = 1..Total(g, b, h, r) - 1
           /\ \A p \in 1..Total(g, b, h, r) - 1 :
                 LineOf(Tail(g), b, h, r)[p] = LineOf(g, b, h, r)[p + 1]
           /\ LineOf(g, b, h, r)[1] = Core(Head(g))
<1> DEFINE gg == Tail(g)
           N  == Total(g, b, h, r)
<1>1. /\ IsSeq(gg) /\ Len(gg) = Len(g) - 1 /\ Len(g) \in Nat \ {0}
      /\ Head(g) = g[1] /\ \A i \in 1..Len(g) - 1 : gg[i] = g[i + 1]
  BY TailIs DEF Four
<1>2. Len(b) \in Nat /\ Len(h) \in Nat /\ Len(r) \in Nat /\ Four(gg, b, h, r)
  BY <1>1, LineIs DEF Four
<1> HIDE DEF gg
<1>3. Total(gg, b, h, r) = N - 1 /\ N \in Nat \ {0}
  BY <1>1, <1>2 DEF Total
<1>4. LineOf(g, b, h, r) = [p \in 1..N |-> Core(PlaceOf(g, b, h, r, p))]
  BY LineIs
<1>5. LineOf(gg, b, h, r) = [p \in 1..N - 1 |-> Core(PlaceOf(gg, b, h, r, p))]
  BY <1>2, <1>3, LineIs
<1>6. ASSUME NEW p \in 1..N - 1
      PROVE  PlaceOf(gg, b, h, r, p) = PlaceOf(g, b, h, r, p + 1)
  <2>1. p \in Nat /\ p >= 1
    BY <1>3
  <2>2. CASE p <= Len(gg)
    <3>1. p + 1 <= Len(g) /\ p \in 1..Len(g) - 1
      BY <1>1, <2>1, <2>2
    <3> QED BY <1>1, <2>2, <3>1 DEF PlaceOf
  <2>3. CASE ~(p <= Len(gg))
    <3>1. /\ ~(p + 1 <= Len(g)) /\ p - Len(gg) = (p + 1) - Len(g)
          /\ p <= Len(gg) + Len(b) <=> p + 1 <= Len(g) + Len(b)
          /\ p - (Len(gg) + Len(b)) = (p + 1) - (Len(g) + Len(b))
          /\ p <= Len(gg) + Len(b) + Len(h) <=> p + 1 <= Len(g) + Len(b) + Len(h)
          /\ p - (Len(gg) + Len(b) + Len(h)) = (p + 1) - (Len(g) + Len(b) + Len(h))
      BY <1>1, <1>2, <2>1, <2>3
    <3> QED BY <2>3, <3>1 DEF PlaceOf
  <2> QED BY <2>2, <2>3
<1>7. \A p \in 1..N - 1 : p \in 1..N /\ p + 1 \in 1..N
  BY <1>3
<1>8. PlaceOf(g, b, h, r, 1) = Head(g) /\ 1 \in 1..N
  BY <1>1, <1>3 DEF PlaceOf
<1>9. \A p \in 1..N - 1 : LineOf(gg, b, h, r)[p] = LineOf(g, b, h, r)[p + 1]
  BY <1>4, <1>5, <1>6, <1>7
<1> HIDE DEF N
<1>10. DOMAIN LineOf(g, b, h, r) = 1..N /\ DOMAIN LineOf(gg, b, h, r) = 1..N - 1
       /\ LineOf(g, b, h, r)[1] = Core(Head(g))
  BY <1>4, <1>5, <1>8
<1> QED BY <1>3, <1>9, <1>10 DEF gg, N

(* New batches join at the end of the line, after what is ready.           *)
LEMMA GrowLine ==
    ASSUME NEW g, NEW b, NEW r, Four(g, b, <<>>, r), NEW f, IsSeq(f)
    PROVE  /\ Total(g, b, <<>>, r) \in Nat /\ Len(f) \in Nat
           /\ DOMAIN LineOf(g, b, <<>>, r) = 1..Total(g, b, <<>>, r)
           /\ DOMAIN LineOf(g, b, r \o f, <<>>) = 1..Total(g, b, <<>>, r) + Len(f)
           /\ \A p \in 1..Total(g, b, <<>>, r) :
                 LineOf(g, b, r \o f, <<>>)[p] = LineOf(g, b, <<>>, r)[p]
           /\ \A i \in 1..Len(f) :
                 LineOf(g, b, r \o f, <<>>)[Total(g, b, <<>>, r) + i] = Core(f[i])
<1> DEFINE N == Total(g, b, <<>>, r)
           h == r \o f
<1>1. /\ Len(g) \in Nat /\ Len(b) \in Nat /\ Len(r) \in Nat /\ Len(f) \in Nat
      /\ IsSeq(h) /\ Len(h) = Len(r) + Len(f)
      /\ \A i \in 1..Len(r) : h[i] = r[i]
      /\ \A i \in 1..Len(f) : h[Len(r) + i] = f[i]
  BY LineIs, ConcatIs DEF Four
<1>2. Four(g, b, h, <<>>)
  BY <1>1, EmptyIs DEF Four
<1> HIDE DEF h
<1>3. Len(<<>>) = 0
  BY EmptyIs
<1>4. N = Len(g) + Len(b) + Len(r) /\ N \in Nat
      /\ Total(g, b, h, <<>>) = N + Len(f)
  BY <1>1, <1>3 DEF Total
<1>5. LineOf(g, b, <<>>, r) = [p \in 1..N |-> Core(PlaceOf(g, b, <<>>, r, p))]
  BY LineIs
<1>6. LineOf(g, b, h, <<>>) = [p \in 1..N + Len(f) |-> Core(PlaceOf(g, b, h, <<>>, p))]
  BY <1>2, <1>4, LineIs
<1>7. ASSUME NEW p \in 1..N
      PROVE  PlaceOf(g, b, h, <<>>, p) = PlaceOf(g, b, <<>>, r, p)
  <2>1. CASE p <= Len(g) + Len(b)
    BY <2>1 DEF PlaceOf
  <2>2. CASE ~(p <= Len(g) + Len(b))
    <3>1. /\ p - (Len(g) + Len(b)) \in 1..Len(r) /\ ~(p <= Len(g))
          /\ p <= Len(g) + Len(b) + Len(h)
          /\ Len(g) + Len(b) + Len(<<>>) = Len(g) + Len(b)
      BY <1>1, <1>3, <1>4, <2>2
    <3> QED BY <1>1, <2>2, <3>1 DEF PlaceOf
  <2> QED BY <2>1, <2>2
<1>8. ASSUME NEW i \in 1..Len(f)
      PROVE  PlaceOf(g, b, h, <<>>, N + i) = f[i]
  <2>1. /\ ~(N + i <= Len(g)) /\ ~(N + i <= Len(g) + Len(b))
        /\ N + i <= Len(g) + Len(b) + Len(h)
        /\ (N + i) - (Len(g) + Len(b)) = Len(r) + i
    BY <1>1, <1>4
  <2> QED BY <1>1, <2>1 DEF PlaceOf
<1>9. /\ \A p \in 1..N : p \in 1..N + Len(f)
      /\ \A i \in 1..Len(f) : N + i \in 1..N + Len(f)
  BY <1>1, <1>4
<1> HIDE DEF N
<1>10. \A p \in 1..N : LineOf(g, b, h, <<>>)[p] = LineOf(g, b, <<>>, r)[p]
  BY <1>5, <1>6, <1>7, <1>9
<1>11. \A i \in 1..Len(f) : LineOf(g, b, h, <<>>)[N + i] = Core(f[i])
  BY <1>6, <1>8, <1>9
<1>12. DOMAIN LineOf(g, b, <<>>, r) = 1..N /\ DOMAIN LineOf(g, b, h, <<>>) = 1..N + Len(f)
  BY <1>5, <1>6
<1> QED BY <1>1, <1>4, <1>10, <1>11, <1>12 DEF h, N

(* Add, when a batch is ready at once.                                     *)
LEMMA ReadyLine ==
    ASSUME NEW g, NEW b, NEW r, Four(g, b, <<>>, r), NEW e
    PROVE  LineOf(g, b, <<>>, Append(r, e)) = LineOf(g, b, r \o <<e>>, <<>>)
<1>1. Append(r, e) = r \o <<e>>
  <2>1. IsSeq(<<e>>) /\ Head(<<e>>) = e /\ Tail(<<e>>) = <<>> /\ <<e>> # <<>>
    BY OneIs
  <2>2. Append(r, e) \o <<>> = r \o <<e>>
    BY <2>1, MoveHead DEF Four
  <2>3. IsSeq(Append(r, e))
    BY AppendIs DEF Four
  <2> QED BY <2>2, <2>3, ConcatEmptySeq DEF IsSeq
<1>2. IsSeq(g \o b) /\ IsSeq(Append(r, e))
  BY ConcatIs, AppendIs DEF Four
<1>3. ((g \o b) \o <<>>) \o Append(r, e) = (g \o b) \o Append(r, e)
  BY <1>2, ConcatEmptySeq DEF IsSeq
<1>4. ((g \o b) \o Append(r, e)) \o <<>> = (g \o b) \o Append(r, e)
  <2>1. IsSeq((g \o b) \o Append(r, e))
    BY <1>2, ConcatIs
  <2> QED BY <2>1, ConcatEmptySeq DEF IsSeq
<1> QED BY <1>1, <1>3, <1>4 DEF LineOf, AllOf

-----------------------------------------------------------------------------
(***************************************************************************)
(* Send: the oldest batch leaves the line.                                 *)
(***************************************************************************)
(* Where a filed alert is: sent, in the line, or held back.                *)
LEMMA InItems ==
    ASSUME NEW d, NEW l, NEW w, NEW e
    PROVE  e \in ItemsFrom(d, l, w) <=>
              \/ \E k \in 1..Len(d) : e = d[k]
              \/ \E p \in DOMAIN l : \E x \in 1..Len(l[p].alerts) :
                    e = Item(l[p].alerts[x], l[p].id)
              \/ \E i \in Nat : \E x \in 1..Len(w[i]) : e = Item(w[i][x], i)
<1>1. e \in SentItems(d) <=> \E k \in 1..Len(d) : e = d[k]
  BY DEF SentItems
<1>2. \A s, i : e \in ItemsOf(s, i) <=> \E x \in 1..Len(s) : e = Item(s[x], i)
  BY DEF ItemsOf
<1>3. e \in LineItems(l) <=> \E p \in DOMAIN l : e \in ItemsOf(l[p].alerts, l[p].id)
  BY DEF LineItems
<1>4. e \in WaitingItems(w) <=> \E i \in Nat : e \in ItemsOf(w[i], i)
  BY DEF WaitingItems
<1>5. e \in ItemsFrom(d, l, w)
        <=> e \in SentItems(d) \/ e \in LineItems(l) \/ e \in WaitingItems(w)
  BY DEF ItemsFrom
<1>6. e \in LineItems(l) <=> \E p \in DOMAIN l : \E x \in 1..Len(l[p].alerts) :
                                e = Item(l[p].alerts[x], l[p].id)
  BY <1>2, <1>3, Zenon
<1>7. e \in WaitingItems(w) <=> \E i \in Nat : \E x \in 1..Len(w[i]) : e = Item(w[i][x], i)
  BY <1>2, <1>4, Zenon
<1> QED BY <1>1, <1>5, <1>6, <1>7, Zenon

(* The oldest of the n batches of line l leaves it.                        *)
Leaves(n, d, l, dd, ll) ==
    /\ DOMAIN l = 1..n /\ DOMAIN ll = 1..n - 1
    /\ \A p \in 1..n - 1 : ll[p] = l[p + 1]
    /\ Len(dd) = Len(d) + Len(l[1].alerts)
    /\ \A k \in 1..Len(d) : dd[k] = d[k]
    /\ \A x \in 1..Len(l[1].alerts) : dd[Len(d) + x] = Item(l[1].alerts[x], l[1].id)

(* Where the elements of the new history come from.                        *)
LEMMA LeavesHistory ==
    ASSUME NEW n \in Nat \ {0}, NEW d, NEW l, NEW dd, NEW ll, Leaves(n, d, l, dd, ll),
           Len(d) \in Nat, Len(l[1].alerts) \in Nat, NEW k \in 1..Len(dd)
    PROVE  \/ k \in 1..Len(d) /\ dd[k] = d[k]
           \/ \E x \in 1..Len(l[1].alerts) :
                 /\ k = Len(d) + x /\ dd[k] = Item(l[1].alerts[x], l[1].id)
                 /\ dd[k].alert = l[1].alerts[x] /\ dd[k].id = l[1].id
<1>1. CASE k <= Len(d)
  BY <1>1 DEF Leaves
<1>2. CASE ~(k <= Len(d))
  <2>1. k - Len(d) \in 1..Len(l[1].alerts) /\ k = Len(d) + (k - Len(d))
    BY <1>2 DEF Leaves
  <2>2. PICK x \in 1..Len(l[1].alerts) : k = Len(d) + x
    BY <2>1
  <2>3. dd[k] = Item(l[1].alerts[x], l[1].id)
    BY <2>2 DEF Leaves
  <2>4. dd[k].alert = l[1].alerts[x] /\ dd[k].id = l[1].id
    BY <2>3 DEF Item
  <2> QED BY <2>2, <2>3, <2>4
<1> QED BY <1>1, <1>2

(* Where the elements of the old history and of the batch sent go.         *)
LEMMA LeavesPlaces ==
    ASSUME NEW n \in Nat \ {0}, NEW d, NEW l, NEW dd, NEW ll, Leaves(n, d, l, dd, ll),
           Len(d) \in Nat, Len(l[1].alerts) \in Nat
    PROVE  /\ \A k \in 1..Len(d) : k \in 1..Len(dd) /\ dd[k] = d[k]
           /\ \A x \in 1..Len(l[1].alerts) :
                 /\ Len(d) + x \in 1..Len(dd)
                 /\ dd[Len(d) + x] = Item(l[1].alerts[x], l[1].id)
                 /\ dd[Len(d) + x].id = l[1].id
<1>1. ASSUME NEW k \in 1..Len(d) PROVE k \in 1..Len(dd) /\ dd[k] = d[k]
  BY DEF Leaves
<1>2. ASSUME NEW x \in 1..Len(l[1].alerts)
      PROVE  /\ Len(d) + x \in 1..Len(dd)
             /\ dd[Len(d) + x] = Item(l[1].alerts[x], l[1].id)
             /\ dd[Len(d) + x].id = l[1].id
  <2>1. Len(d) + x \in 1..Len(dd)
    BY DEF Leaves
  <2>2. dd[Len(d) + x] = Item(l[1].alerts[x], l[1].id)
    BY DEF Leaves
  <2>3. dd[Len(d) + x].id = l[1].id
    BY <2>2 DEF Item
  <2> QED BY <2>1, <2>2, <2>3
<1> QED BY <1>1, <1>2

(* Sending files nothing new and forgets nothing.                          *)
LEMMA LeavesItems ==
    ASSUME NEW n \in Nat \ {0}, NEW d, NEW l, NEW w, NEW dd, NEW ll,
           Leaves(n, d, l, dd, ll), Len(d) \in Nat, Len(l[1].alerts) \in Nat
    PROVE  ItemsFrom(dd, ll, w) = ItemsFrom(d, l, w)
<1> DEFINE Old == ItemsFrom(d, l, w)
           New == ItemsFrom(dd, ll, w)
<1>1. 1 \in DOMAIN l
  BY DEF Leaves
<1>2. \A k \in 1..Len(dd) : dd[k] \in Old
  <2> SUFFICES ASSUME NEW k \in 1..Len(dd) PROVE dd[k] \in Old
    OBVIOUS
  <2>1. CASE k \in 1..Len(d) /\ dd[k] = d[k]
    BY <2>1, InItems
  <2>2. CASE \E x \in 1..Len(l[1].alerts) : dd[k] = Item(l[1].alerts[x], l[1].id)
    BY <1>1, <2>2, InItems
  <2> QED BY <2>1, <2>2, LeavesHistory
<1>3. \A p \in DOMAIN ll : p + 1 \in DOMAIN l /\ ll[p] = l[p + 1]
  BY DEF Leaves
<1>4. \A p \in DOMAIN l : p = 1 \/ (p - 1 \in DOMAIN ll /\ ll[p - 1] = l[p])
  <2> SUFFICES ASSUME NEW p \in DOMAIN l, p # 1
               PROVE  p - 1 \in DOMAIN ll /\ ll[p - 1] = l[p]
    OBVIOUS
  <2>1. p - 1 \in 1..n - 1 /\ (p - 1) + 1 = p
    BY DEF Leaves
  <2> QED BY <2>1 DEF Leaves
<1>5. ASSUME NEW e \in New PROVE e \in Old
  <2>1. CASE \E k \in 1..Len(dd) : e = dd[k]
    BY <1>2, <2>1
  <2>2. CASE \E p \in DOMAIN ll : \E x \in 1..Len(ll[p].alerts) :
                e = Item(ll[p].alerts[x], ll[p].id)
    BY <1>3, <2>2, InItems
  <2>3. CASE \E i \in Nat : \E x \in 1..Len(w[i]) : e = Item(w[i][x], i)
    BY <2>3, InItems
  <2> QED BY <2>1, <2>2, <2>3, InItems
<1>6. ASSUME NEW e \in Old PROVE e \in New
  <2>1. CASE \E k \in 1..Len(d) : e = d[k]
    <3>1. PICK k \in 1..Len(d) : e = d[k]
      BY <2>1
    <3>2. k \in 1..Len(dd) /\ dd[k] = e
      BY <3>1 DEF Leaves
    <3> QED BY <3>2, InItems
  <2>2. ASSUME NEW p \in DOMAIN l, NEW x \in 1..Len(l[p].alerts),
               e = Item(l[p].alerts[x], l[p].id)
        PROVE  e \in New
    <3>1. CASE p = 1
      <4>1. Len(d) + x \in 1..Len(dd) /\ dd[Len(d) + x] = e
        BY <2>2, <3>1 DEF Leaves
      <4> QED BY <4>1, InItems
    <3>2. CASE p # 1
      BY <1>4, <2>2, <3>2, InItems
    <3> QED BY <3>1, <3>2
  <2>3. CASE \E i \in Nat : \E x \in 1..Len(w[i]) : e = Item(w[i][x], i)
    BY <2>3, InItems
  <2> QED BY <2>1, <2>2, <2>3, InItems
<1> QED BY <1>5, <1>6

(* Sending the oldest batch keeps the order.                               *)
LEMMA LeavesOrder ==
    ASSUME NEW n \in Nat \ {0}, NEW d, NEW l, NEW w, NEW dd, NEW ll,
           Leaves(n, d, l, dd, ll), Len(d) \in Nat, Len(l[1].alerts) \in Nat,
           \A x \in 1..Len(l[1].alerts) : l[1].alerts[x].n \in Nat,
           NEW off, OrderOf(off, d, l, w)
    PROVE  OrderOf(off, dd, ll, w)
<1> DEFINE as == l[1].alerts
           h  == l[1].id
<1>1. /\ Ascending(as)
      /\ \A k \in 1..Len(d) : Under(off, d[k].alert, d[k].id, as, h)
      /\ \A p \in DOMAIN l : p > 1 => AllFit(off, as, h, l[p].alerts, l[p].id)
      /\ \A i \in Nat : AllFit(off, as, h, w[i], i)
  <2>1. 1 \in DOMAIN l
    BY DEF Leaves
  <2> QED BY <2>1 DEF OrderOf, SentThenLine, LineInOrder, LineThenWaiting
<1>2. ASSUME NEW k \in 1..Len(dd)
      PROVE  \/ k \in 1..Len(d) /\ dd[k].alert = d[k].alert /\ dd[k].id = d[k].id
             \/ \E x \in 1..Len(as) : /\ k = Len(d) + x
                                      /\ dd[k].alert = as[x] /\ dd[k].id = h
  BY LeavesHistory
<1>3. \A p \in DOMAIN ll : p + 1 \in DOMAIN l /\ ll[p] = l[p + 1] /\ p + 1 > 1
  BY DEF Leaves
<1>4. SentInOrder(off, dd)
  <2> SUFFICES ASSUME NEW j \in 1..Len(dd), NEW k \in 1..Len(dd), j < k
               PROVE  Fits(off, dd[j].alert, dd[j].id, dd[k].alert, dd[k].id)
    BY DEF SentInOrder
  <2>1. CASE k \in 1..Len(d) /\ dd[k].alert = d[k].alert /\ dd[k].id = d[k].id
    <3>1. j \in 1..Len(d) /\ dd[j].alert = d[j].alert /\ dd[j].id = d[j].id
      BY <1>2, <2>1
    <3> QED BY <2>1, <3>1 DEF OrderOf, SentInOrder
  <2>2. ASSUME NEW x \in 1..Len(as), k = Len(d) + x, dd[k].alert = as[x], dd[k].id = h
        PROVE  Fits(off, dd[j].alert, dd[j].id, dd[k].alert, dd[k].id)
    <3>1. CASE j \in 1..Len(d) /\ dd[j].alert = d[j].alert /\ dd[j].id = d[j].id
      BY <1>1, <2>2, <3>1 DEF Under
    <3>2. ASSUME NEW y \in 1..Len(as), j = Len(d) + y, dd[j].alert = as[y], dd[j].id = h
          PROVE  Fits(off, dd[j].alert, dd[j].id, dd[k].alert, dd[k].id)
      <4>1. y < x
        BY <2>2, <3>2
      <4>2. as[y].n < as[x].n /\ as[y].n \in Nat /\ as[x].n \in Nat
        BY <1>1, <4>1 DEF Ascending
      <4>3. as[y].n # as[x].n
        BY <4>2
      <4> QED BY <2>2, <3>2, <4>2, <4>3 DEF Fits
    <3> QED BY <1>2, <3>1, <3>2
  <2> QED BY <1>2, <2>1, <2>2
<1>5. SentThenLine(off, dd, ll)
  <2> SUFFICES ASSUME NEW k \in 1..Len(dd), NEW p \in DOMAIN ll
               PROVE  Under(off, dd[k].alert, dd[k].id, ll[p].alerts, ll[p].id)
    BY DEF SentThenLine
  <2>1. CASE k \in 1..Len(d) /\ dd[k].alert = d[k].alert /\ dd[k].id = d[k].id
    BY <1>3, <2>1 DEF OrderOf, SentThenLine
  <2>2. ASSUME NEW x \in 1..Len(as), dd[k].alert = as[x], dd[k].id = h
        PROVE  Under(off, dd[k].alert, dd[k].id, ll[p].alerts, ll[p].id)
    <3>1. AllFit(off, as, h, ll[p].alerts, ll[p].id)
      BY <1>1, <1>3
    <3> QED BY <2>2, <3>1 DEF Under, AllFit
  <2> QED BY <1>2, <2>1, <2>2
<1>6. SentThenWaiting(off, dd, w)
  <2> SUFFICES ASSUME NEW k \in 1..Len(dd), NEW i \in Nat
               PROVE  Under(off, dd[k].alert, dd[k].id, w[i], i)
    BY DEF SentThenWaiting
  <2>1. CASE k \in 1..Len(d) /\ dd[k].alert = d[k].alert /\ dd[k].id = d[k].id
    BY <2>1 DEF OrderOf, SentThenWaiting
  <2>2. ASSUME NEW x \in 1..Len(as), dd[k].alert = as[x], dd[k].id = h
        PROVE  Under(off, dd[k].alert, dd[k].id, w[i], i)
    <3>1. AllFit(off, as, h, w[i], i)
      BY <1>1
    <3> QED BY <2>2, <3>1 DEF Under, AllFit
  <2> QED BY <1>2, <2>1, <2>2
<1>7. LineInOrder(off, ll)
  <2>1. ASSUME NEW p \in DOMAIN ll PROVE Ascending(ll[p].alerts)
    BY <1>3 DEF OrderOf, LineInOrder
  <2>2. ASSUME NEW p \in DOMAIN ll, NEW q \in DOMAIN ll, p < q
        PROVE  AllFit(off, ll[p].alerts, ll[p].id, ll[q].alerts, ll[q].id)
    <3>1. p + 1 < q + 1
      BY <2>2 DEF Leaves
    <3> QED BY <1>3, <3>1 DEF OrderOf, LineInOrder
  <2> QED BY <2>1, <2>2 DEF LineInOrder
<1>8. LineThenWaiting(off, ll, w)
  BY <1>3 DEF OrderOf, LineThenWaiting
<1> QED BY <1>4, <1>5, <1>6, <1>7, <1>8 DEF OrderOf

(* The oldest batch is sent.                                               *)
LEMMA LeavesUpdates ==
    ASSUME NEW n \in Nat \ {0}, NEW d, NEW l, NEW dd, NEW ll, NEW op, NEW opp,
           Leaves(n, d, l, dd, ll), Len(d) \in Nat, Len(l[1].alerts) \in Nat \ {0},
           UpdatesOf(d, l, op),
           DOMAIN opp = DOMAIN op, \A i \in DOMAIN op : opp[i].notified = op[i].notified
    PROVE  UpdatesOf(dd, ll, opp)
<1>1. /\ 1 \in DOMAIN l
      /\ \A p \in 1..n - 1 : p + 1 \in DOMAIN l /\ ll[p] = l[p + 1] /\ p \in DOMAIN ll
      /\ DOMAIN ll = 1..n - 1 /\ DOMAIN l = 1..n
  BY DEF Leaves
<1>2. /\ Len(d) + 1 \in 1..Len(dd) /\ dd[Len(d) + 1].id = l[1].id
      /\ \A k \in 1..Len(d) : k \in 1..Len(dd) /\ dd[k].id = d[k].id
  <2>1. 1 \in 1..Len(l[1].alerts)
    OBVIOUS
  <2>2. Len(d) + 1 \in 1..Len(dd) /\ dd[Len(d) + 1].id = l[1].id
    BY <2>1, LeavesPlaces
  <2>3. \A k \in 1..Len(d) : k \in 1..Len(dd) /\ dd[k].id = d[k].id
    BY LeavesPlaces
  <2> QED BY <2>2, <2>3
<1>3. ASSUME NEW k \in 1..Len(dd)
      PROVE  (\E j \in 1..Len(d) : dd[k].id = d[j].id) \/ dd[k].id = l[1].id
  BY LeavesHistory
<1>4. ASSUME NEW i
      PROVE  (\E k \in 1..Len(dd) : dd[k].id = i)
                <=> (\E k \in 1..Len(d) : d[k].id = i) \/ l[1].id = i
  <2>1. l[1].id = i => \E k \in 1..Len(dd) : dd[k].id = i
    BY <1>2
  <2> QED BY <1>2, <1>3, <2>1
<1>5. ASSUME NEW p \in DOMAIN l, p # 1
      PROVE  \E x \in 1..n - 1 : p = x + 1
  <2>1. p - 1 \in 1..n - 1 /\ p = (p - 1) + 1
    BY <1>1, <1>5
  <2> QED BY <2>1
<1>6. ASSUME NEW i
      PROVE  BegunIn(dd, ll, i) <=> BegunIn(d, l, i)
  <2>1. (\E p \in DOMAIN l : l[p].id = i)
          <=> l[1].id = i \/ \E p \in DOMAIN ll : ll[p].id = i
    <3>1. ASSUME NEW p \in DOMAIN l, l[p].id = i, p # 1
          PROVE  \E x \in DOMAIN ll : ll[x].id = i
      BY <1>1, <1>5, <3>1
    <3>2. ASSUME NEW p \in DOMAIN ll, ll[p].id = i
          PROVE  \E x \in DOMAIN l : l[x].id = i
      BY <1>1, <3>2
    <3> QED BY <1>1, <3>1, <3>2
  <2> QED BY <1>4, <2>1 DEF BegunIn
<1>7. ASSUME NEW p \in DOMAIN ll
      PROVE  ll[p].update <=>
                /\ ll[p].id # 0
                /\ \/ \E k \in 1..Len(dd) : dd[k].id = ll[p].id
                   \/ \E q \in 1..p - 1 : ll[q].id = ll[p].id
  <2>1. p \in 1..n - 1 /\ p + 1 \in DOMAIN l /\ ll[p] = l[p + 1] /\ (p + 1) - 1 = p
    BY <1>1
  <2>2. l[p + 1].update <=>
                /\ l[p + 1].id # 0
                /\ \/ \E k \in 1..Len(d) : d[k].id = l[p + 1].id
                   \/ \E q \in 1..p : l[q].id = l[p + 1].id
    BY <2>1 DEF UpdatesOf
  <2>3. ASSUME NEW q \in 1..p, q # 1 PROVE \E x \in 1..p - 1 : l[q] = ll[x]
    <3>1. q - 1 \in 1..p - 1 /\ q - 1 \in 1..n - 1 /\ (q - 1) + 1 = q
      BY <2>1, <2>3
    <3>2. PICK x \in 1..p - 1 : x \in 1..n - 1 /\ x + 1 = q
      BY <3>1
    <3> QED BY <1>1, <3>2
  <2>4. ASSUME NEW x \in 1..p - 1 PROVE x + 1 \in 1..p /\ l[x + 1] = ll[x]
    <3>1. x \in 1..n - 1 /\ x + 1 \in 1..p
      BY <2>1
    <3> QED BY <1>1, <3>1
  <2>5. 1 \in 1..p
    BY <2>1
  <2>6. (\E q \in 1..p : l[q].id = l[p + 1].id)
          <=> l[1].id = l[p + 1].id \/ \E q \in 1..p - 1 : ll[q].id = l[p + 1].id
    BY <2>3, <2>4, <2>5
  <2>7. ll[p].update <=>
                /\ ll[p].id # 0
                /\ \/ \E k \in 1..Len(d) : d[k].id = ll[p].id
                   \/ \E q \in 1..p : l[q].id = ll[p].id
    BY <2>1, <2>2, Zenon
  <2>8. (\E q \in 1..p : l[q].id = ll[p].id)
          <=> l[1].id = ll[p].id \/ \E q \in 1..p - 1 : ll[q].id = ll[p].id
    BY <2>1, <2>6, Zenon
  <2>9. (\E k \in 1..Len(dd) : dd[k].id = ll[p].id)
          <=> (\E k \in 1..Len(d) : d[k].id = ll[p].id) \/ l[1].id = ll[p].id
    BY <1>4
  <2> QED BY <2>7, <2>8, <2>9, Zenon
<1> QED BY <1>6, <1>7 DEF UpdatesOf

(* A batch that is sent leaves a tidy state tidy.                          *)
LEMMA TidySend ==
    ASSUME NEW off, NEW d, NEW l, NEW w, NEW op, NEW f, NEW nid, NEW q, NEW bk, NEW ep,
           Tidy(off, d, l, w, op, f, nid, q, bk, ep),
           NEW n \in Nat \ {0}, NEW dd, NEW ll, NEW opp, Leaves(n, d, l, dd, ll),
           dd \in Seq([alert : Issue, id : Nat]),
           DOMAIN opp = DOMAIN op, \A i \in DOMAIN op : opp[i].notified = op[i].notified
    PROVE  Tidy(off, dd, ll, w, opp, f, nid, q, bk, ep)
<1>1. /\ LineOK(l, nid) /\ SentOK(d, nid) /\ OrderOf(off, d, l, w) /\ UpdatesOf(d, l, op)
  BY DEF Tidy
<1>2. /\ 1 \in DOMAIN l /\ DOMAIN l = 1..n
      /\ DOMAIN ll = 1..n - 1 /\ \A p \in 1..n - 1 : p + 1 \in DOMAIN l /\ ll[p] = l[p + 1]
  BY DEF Leaves
<1>3. l[1].alerts \in Seq(Issue) /\ l[1].alerts # <<>> /\ l[1].id \in 0..nid
  BY <1>1, <1>2 DEF LineOK
<1>4. Len(d) \in Nat /\ Len(l[1].alerts) \in Nat \ {0}
  <2>1. Len(d) \in Nat
    BY <1>1, SeqIs DEF SentOK
  <2>2. Len(l[1].alerts) \in Nat /\ Len(l[1].alerts) # 0
    BY <1>3, SeqIs
  <2> QED BY <2>1, <2>2
<1>5. \A x \in 1..Len(l[1].alerts) : l[1].alerts[x].n \in Nat
  <2> SUFFICES ASSUME NEW x \in 1..Len(l[1].alerts) PROVE l[1].alerts[x].n \in Nat
    OBVIOUS
  <2>1. l[1].alerts[x] \in Issue
    BY <1>3
  <2> QED BY <2>1 DEF Issue
<1>6. ItemsFrom(dd, ll, w) = ItemsFrom(d, l, w)
  BY <1>4, LeavesItems
<1>7. OrderOf(off, dd, ll, w)
  BY <1>1, <1>4, <1>5, LeavesOrder
<1>8. UpdatesOf(dd, ll, opp)
  BY <1>1, <1>4, LeavesUpdates
<1>9. LineOK(ll, nid)
  <2>1. \E m \in Nat : DOMAIN ll = 1..m
    <3>1. n - 1 \in Nat
      OBVIOUS
    <3> QED BY <1>2, <3>1
  <2> QED BY <1>1, <1>2, <2>1 DEF LineOK
<1>10. SentOK(dd, nid)
  <2>1. ASSUME NEW k \in 1..Len(dd) PROVE dd[k].id \in 0..nid
    <3>1. CASE k \in 1..Len(d) /\ dd[k] = d[k]
      BY <1>1, <3>1 DEF SentOK
    <3>2. CASE dd[k].id = l[1].id
      BY <1>3, <3>2
    <3> QED BY <1>4, <3>1, <3>2, LeavesHistory
  <2> QED BY <2>1 DEF SentOK
<1> QED BY <1>6, <1>7, <1>8, <1>9, <1>10 DEF Tidy

-----------------------------------------------------------------------------
(***************************************************************************)
(* Due and Flush: what incidents hold back joins the line.                 *)
(***************************************************************************)
(* What the m incidents of D hold back joins the line, in the order ord.   *)
Joins(n, m, ord, D, l, w, op, ll, ww, opp) ==
    /\ DOMAIN l = 1..n /\ DOMAIN ll = 1..n + m
    /\ \A p \in 1..n : ll[p] = l[p]
    /\ \A i \in 1..m : /\ ord[i] \in D
                       /\ ll[n + i].id = ord[i] /\ ll[n + i].alerts = w[ord[i]]
                       /\ ll[n + i].update = op[ord[i]].notified
    /\ \A i, j \in 1..m : i # j => ord[i] # ord[j]
    /\ \A i \in D : \E x \in 1..m : ord[x] = i
    /\ \A i \in D : i \in Nat \ {0} /\ w[i] # <<>>
    /\ D \subseteq DOMAIN op
    /\ \A i \in Nat : ww[i] = IF i \in D THEN <<>> ELSE w[i]
    /\ DOMAIN opp = DOMAIN op
    /\ \A i \in DOMAIN op : opp[i].notified = IF i \in D THEN TRUE ELSE op[i].notified

(* The places of the longer line.                                          *)
LEMMA JoinsPlaces ==
    ASSUME NEW n \in Nat, NEW m \in Nat
    PROVE  /\ \A p \in 1..n + m : p \in 1..n \/ \E i \in 1..m : p = n + i
           /\ \A p \in 1..n : p \in 1..n + m
           /\ \A i \in 1..m : n + i \in 1..n + m
<1>1. ASSUME NEW p \in 1..n + m, ~(p \in 1..n)
      PROVE  \E i \in 1..m : p = n + i
  <2>1. p - n \in 1..m /\ p = n + (p - n)
    BY <1>1
  <2> QED BY <2>1
<1>2. \A p \in 1..n : p \in 1..n + m
  OBVIOUS
<1>3. \A i \in 1..m : n + i \in 1..n + m
  OBVIOUS
<1> QED BY <1>1, <1>2, <1>3

(* The batch at each of its places.                                        *)
LEMMA JoinsLine ==
    ASSUME NEW n \in Nat, NEW m \in Nat, NEW ord, NEW D, NEW l, NEW w, NEW op,
           NEW ll, NEW ww, NEW opp, Joins(n, m, ord, D, l, w, op, ll, ww, opp),
           NEW p \in DOMAIN ll
    PROVE  \/ p \in 1..n /\ p \in DOMAIN l /\ ll[p] = l[p]
           \/ \E i \in 1..m : /\ p = n + i /\ ord[i] \in D /\ ord[i] \in Nat \ {0}
                              /\ ll[p].id = ord[i] /\ ll[p].alerts = w[ord[i]]
                              /\ ll[p].update = op[ord[i]].notified
<1>1. p \in 1..n \/ \E i \in 1..m : p = n + i
  <2>1. p \in 1..n + m
    BY DEF Joins
  <2> QED BY <2>1, JoinsPlaces
<1>2. CASE p \in 1..n
  BY <1>2 DEF Joins
<1>3. ASSUME NEW i \in 1..m, p = n + i
      PROVE  /\ ord[i] \in D /\ ord[i] \in Nat \ {0}
             /\ ll[p].id = ord[i] /\ ll[p].alerts = w[ord[i]]
             /\ ll[p].update = op[ord[i]].notified
  <2>1. /\ ord[i] \in D /\ ll[n + i].id = ord[i] /\ ll[n + i].alerts = w[ord[i]]
        /\ ll[n + i].update = op[ord[i]].notified
    BY DEF Joins
  <2>2. ord[i] \in Nat \ {0}
    BY <2>1 DEF Joins
  <2> QED BY <1>3, <2>1, <2>2
<1> QED BY <1>1, <1>2, <1>3

(* Taking files nothing new and forgets nothing.                           *)
LEMMA JoinsItems ==
    ASSUME NEW n \in Nat, NEW m \in Nat, NEW ord, NEW D, NEW d, NEW l, NEW w, NEW op,
           NEW ll, NEW ww, NEW opp, Joins(n, m, ord, D, l, w, op, ll, ww, opp)
    PROVE  ItemsFrom(d, ll, ww) = ItemsFrom(d, l, w)
<1> DEFINE Old == ItemsFrom(d, l, w)
           New == ItemsFrom(d, ll, ww)
<1>1. Len(<<>>) = 0
  BY EmptyIs
<1>2. ASSUME NEW e \in New PROVE e \in Old
  <2>1. CASE \E k \in 1..Len(d) : e = d[k]
    BY <2>1, InItems
  <2>2. ASSUME NEW p \in DOMAIN ll, NEW x \in 1..Len(ll[p].alerts),
               e = Item(ll[p].alerts[x], ll[p].id)
        PROVE  e \in Old
    <3>1. CASE p \in DOMAIN l /\ ll[p] = l[p]
      BY <2>2, <3>1, InItems
    <3>2. ASSUME NEW i \in 1..m, ord[i] \in Nat, ll[p].id = ord[i], ll[p].alerts = w[ord[i]]
          PROVE  e \in Old
      BY <2>2, <3>2, InItems
    <3> QED BY <3>1, <3>2, JoinsLine
  <2>3. ASSUME NEW i \in Nat, NEW x \in 1..Len(ww[i]), e = Item(ww[i][x], i)
        PROVE  e \in Old
    <3>1. ww[i] = IF i \in D THEN <<>> ELSE w[i]
      BY DEF Joins
    <3>2. ~(i \in D)
      <4>1. CASE i \in D
        <5>1. 1..Len(ww[i]) = {}
          BY <1>1, <3>1, <4>1
        <5> QED BY <5>1
      <4> QED BY <4>1
    <3> QED BY <2>3, <3>1, <3>2, InItems
  <2> QED BY <2>1, <2>2, <2>3, InItems
<1>3. ASSUME NEW e \in Old PROVE e \in New
  <2>1. CASE \E k \in 1..Len(d) : e = d[k]
    BY <2>1, InItems
  <2>2. ASSUME NEW p \in DOMAIN l, NEW x \in 1..Len(l[p].alerts),
               e = Item(l[p].alerts[x], l[p].id)
        PROVE  e \in New
    <3>1. p \in DOMAIN ll /\ ll[p] = l[p]
      BY JoinsPlaces DEF Joins
    <3> QED BY <2>2, <3>1, InItems
  <2>3. ASSUME NEW i \in Nat, NEW x \in 1..Len(w[i]), e = Item(w[i][x], i)
        PROVE  e \in New
    <3>1. CASE i \in D
      <4>1. PICK y \in 1..m : ord[y] = i
        BY <3>1 DEF Joins
      <4>2. n + y \in DOMAIN ll /\ ll[n + y].id = i /\ ll[n + y].alerts = w[i]
        <5>1. n + y \in DOMAIN ll
          BY JoinsPlaces DEF Joins
        <5> QED BY <4>1, <5>1 DEF Joins
      <4> QED BY <2>3, <4>2, InItems
    <3>2. CASE ~(i \in D)
      <4>1. ww[i] = w[i]
        BY <3>2 DEF Joins
      <4> QED BY <2>3, <4>1, InItems
    <3> QED BY <3>1, <3>2
  <2> QED BY <2>1, <2>2, <2>3, InItems
<1> QED BY <1>2, <1>3

(* Taking keeps the order: an incident gives all it holds back.            *)
LEMMA JoinsOrder ==
    ASSUME NEW n \in Nat, NEW m \in Nat, NEW ord, NEW D, NEW d, NEW l, NEW w, NEW op,
           NEW ll, NEW ww, NEW opp, Joins(n, m, ord, D, l, w, op, ll, ww, opp),
           NEW off, OrderOf(off, d, l, w)
    PROVE  OrderOf(off, d, ll, ww)
<1>1. Len(<<>>) = 0 /\ 1..Len(<<>>) = {}
  BY EmptyIs
<1>2. ASSUME NEW i \in Nat
      PROVE  \/ ww[i] = <<>> \/ (ww[i] = w[i] /\ ~(i \in D))
  BY DEF Joins
<1>3. SentInOrder(off, d)
  BY DEF OrderOf
<1>4. SentThenLine(off, d, ll)
  <2> SUFFICES ASSUME NEW k \in 1..Len(d), NEW p \in DOMAIN ll
               PROVE  Under(off, d[k].alert, d[k].id, ll[p].alerts, ll[p].id)
    BY DEF SentThenLine
  <2>1. CASE p \in DOMAIN l /\ ll[p] = l[p]
    BY <2>1 DEF OrderOf, SentThenLine
  <2>2. ASSUME NEW i \in 1..m, ord[i] \in Nat, ll[p].id = ord[i], ll[p].alerts = w[ord[i]]
        PROVE  Under(off, d[k].alert, d[k].id, ll[p].alerts, ll[p].id)
    BY <2>2 DEF OrderOf, SentThenWaiting
  <2>3. \/ p \in DOMAIN l /\ ll[p] = l[p]
        \/ \E i \in 1..m : ord[i] \in Nat /\ ll[p].id = ord[i] /\ ll[p].alerts = w[ord[i]]
    BY JoinsLine
  <2> QED BY <2>1, <2>2, <2>3
<1>5. SentThenWaiting(off, d, ww)
  <2> SUFFICES ASSUME NEW k \in 1..Len(d), NEW i \in Nat
               PROVE  Under(off, d[k].alert, d[k].id, ww[i], i)
    BY DEF SentThenWaiting
  <2>1. CASE ww[i] = <<>>
    BY <1>1, <2>1 DEF Under
  <2>2. CASE ww[i] = w[i]
    BY <2>2 DEF OrderOf, SentThenWaiting
  <2> QED BY <1>2, <2>1, <2>2
<1>6. LineInOrder(off, ll)
  <2>1. ASSUME NEW p \in DOMAIN ll PROVE Ascending(ll[p].alerts)
    <3>1. CASE p \in DOMAIN l /\ ll[p] = l[p]
      BY <3>1 DEF OrderOf, LineInOrder
    <3>2. ASSUME NEW i \in 1..m, ord[i] \in Nat, ll[p].alerts = w[ord[i]]
          PROVE  Ascending(ll[p].alerts)
      BY <3>2 DEF OrderOf, WaitingInOrder
    <3> QED BY <3>1, <3>2, JoinsLine
  <2>2. ASSUME NEW p \in DOMAIN ll, NEW q \in DOMAIN ll, p < q
        PROVE  AllFit(off, ll[p].alerts, ll[p].id, ll[q].alerts, ll[q].id)
    <3>1. CASE q \in 1..n /\ q \in DOMAIN l /\ ll[q] = l[q]
      <4>1. p \in 1..n
        BY <2>2, <3>1 DEF Joins
      <4>2. p \in DOMAIN l /\ ll[p] = l[p]
        BY <4>1 DEF Joins
      <4> QED BY <2>2, <3>1, <4>2 DEF OrderOf, LineInOrder
    <3>2. ASSUME NEW j \in 1..m, q = n + j, ord[j] \in Nat,
                 ll[q].id = ord[j], ll[q].alerts = w[ord[j]]
          PROVE  AllFit(off, ll[p].alerts, ll[p].id, ll[q].alerts, ll[q].id)
      <4>1. CASE p \in DOMAIN l /\ ll[p] = l[p]
        BY <3>2, <4>1 DEF OrderOf, LineThenWaiting
      <4>2. ASSUME NEW i \in 1..m, p = n + i, ord[i] \in Nat,
                   ll[p].id = ord[i], ll[p].alerts = w[ord[i]]
            PROVE  AllFit(off, ll[p].alerts, ll[p].id, ll[q].alerts, ll[q].id)
        <5>1. i # j
          BY <2>2, <3>2, <4>2
        <5>2. ord[i] # ord[j]
          BY <5>1 DEF Joins
        <5> QED BY <3>2, <4>2, <5>2 DEF OrderOf, WaitingInOrder
      <4> QED BY <4>1, <4>2, JoinsLine
    <3> QED BY <3>1, <3>2, JoinsLine
  <2> QED BY <2>1, <2>2 DEF LineInOrder
<1>7. LineThenWaiting(off, ll, ww)
  <2> SUFFICES ASSUME NEW p \in DOMAIN ll, NEW i \in Nat
               PROVE  AllFit(off, ll[p].alerts, ll[p].id, ww[i], i)
    BY DEF LineThenWaiting
  <2>1. CASE ww[i] = <<>>
    BY <1>1, <2>1 DEF AllFit
  <2>2. CASE ww[i] = w[i] /\ ~(i \in D)
    <3>1. CASE p \in DOMAIN l /\ ll[p] = l[p]
      BY <2>2, <3>1 DEF OrderOf, LineThenWaiting
    <3>2. ASSUME NEW j \in 1..m, ord[j] \in D, ord[j] \in Nat,
                 ll[p].id = ord[j], ll[p].alerts = w[ord[j]]
          PROVE  AllFit(off, ll[p].alerts, ll[p].id, ww[i], i)
      <4>1. ord[j] # i
        BY <2>2, <3>2
      <4> QED BY <2>2, <3>2, <4>1 DEF OrderOf, WaitingInOrder
    <3> QED BY <3>1, <3>2, JoinsLine
  <2> QED BY <1>2, <2>1, <2>2
<1>8. WaitingInOrder(off, ww)
  <2>1. ASSUME NEW i \in Nat PROVE Ascending(ww[i])
    <3>1. CASE ww[i] = <<>>
      BY <1>1, <3>1 DEF Ascending
    <3>2. CASE ww[i] = w[i]
      BY <3>2 DEF OrderOf, WaitingInOrder
    <3> QED BY <1>2, <3>1, <3>2
  <2>2. ASSUME NEW i \in Nat, NEW j \in Nat, i # j
        PROVE  AllFit(off, ww[i], i, ww[j], j)
    <3>1. CASE ww[i] = <<>>
      BY <1>1, <3>1 DEF AllFit
    <3>2. CASE ww[j] = <<>>
      BY <1>1, <3>2 DEF AllFit
    <3>3. CASE ww[i] = w[i] /\ ww[j] = w[j]
      BY <2>2, <3>3 DEF OrderOf, WaitingInOrder
    <3> QED BY <1>2, <3>1, <3>2, <3>3
  <2> QED BY <2>1, <2>2 DEF WaitingInOrder
<1> QED BY <1>3, <1>4, <1>5, <1>6, <1>7, <1>8 DEF OrderOf

(* Taking keeps the updates right.                                         *)
LEMMA JoinsUpdates ==
    ASSUME NEW n \in Nat, NEW m \in Nat, NEW ord, NEW D, NEW d, NEW l, NEW w, NEW op,
           NEW ll, NEW ww, NEW opp, Joins(n, m, ord, D, l, w, op, ll, ww, opp),
           UpdatesOf(d, l, op)
    PROVE  UpdatesOf(d, ll, opp)
<1>1. ASSUME NEW i
      PROVE  BegunIn(d, ll, i) <=> BegunIn(d, l, i) \/ i \in D
  <2>1. ASSUME NEW p \in DOMAIN ll, ll[p].id = i PROVE i \in D \/ \E q \in DOMAIN l : l[q].id = i
    BY <2>1, JoinsLine
  <2>2. ASSUME NEW p \in DOMAIN l, l[p].id = i PROVE \E q \in DOMAIN ll : ll[q].id = i
    <3>1. p \in DOMAIN ll /\ ll[p] = l[p]
      BY JoinsPlaces DEF Joins
    <3> QED BY <2>2, <3>1
  <2>3. ASSUME i \in D PROVE \E q \in DOMAIN ll : ll[q].id = i
    <3>1. PICK y \in 1..m : ord[y] = i
      BY <2>3 DEF Joins
    <3>2. n + y \in DOMAIN ll
      BY JoinsPlaces DEF Joins
    <3> QED BY <3>1, <3>2 DEF Joins
  <2> QED BY <2>1, <2>2, <2>3 DEF BegunIn
<1>2. ASSUME NEW i \in DOMAIN opp PROVE opp[i].notified <=> BegunIn(d, ll, i)
  <2>1. i \in DOMAIN op /\ (op[i].notified <=> BegunIn(d, l, i))
        /\ opp[i].notified = IF i \in D THEN TRUE ELSE op[i].notified
    BY DEF UpdatesOf, Joins
  <2>2. CASE i \in D
    BY <1>1, <2>1, <2>2
  <2>3. CASE ~(i \in D)
    <3>1. opp[i].notified = op[i].notified
      BY <2>1, <2>3
    <3>2. BegunIn(d, ll, i) <=> BegunIn(d, l, i)
      BY <1>1, <2>3
    <3> QED BY <2>1, <3>1, <3>2, Zenon
  <2> QED BY <2>2, <2>3
<1>3. ASSUME NEW p \in DOMAIN ll
      PROVE  ll[p].update <=>
                /\ ll[p].id # 0
                /\ \/ \E k \in 1..Len(d) : d[k].id = ll[p].id
                   \/ \E q \in 1..p - 1 : ll[q].id = ll[p].id
  <2>1. CASE p \in 1..n /\ p \in DOMAIN l /\ ll[p] = l[p]
    <3>1. \A q \in 1..p - 1 : ll[q] = l[q]
      <4> SUFFICES ASSUME NEW q \in 1..p - 1 PROVE ll[q] = l[q]
        OBVIOUS
      <4>1. q \in 1..n
        BY <2>1
      <4> QED BY <4>1 DEF Joins
    <3>2. l[p].update <=>
                /\ l[p].id # 0
                /\ \/ \E k \in 1..Len(d) : d[k].id = l[p].id
                   \/ \E q \in 1..p - 1 : l[q].id = l[p].id
      BY <2>1 DEF UpdatesOf
    <3>3. (\E q \in 1..p - 1 : l[q].id = l[p].id) <=> \E q \in 1..p - 1 : ll[q].id = l[p].id
      BY <3>1
    <3> QED BY <2>1, <3>2, <3>3, Zenon
  <2>2. ASSUME NEW i \in 1..m, p = n + i, ord[i] \in D, ord[i] \in Nat \ {0},
               ll[p].id = ord[i], ll[p].update = op[ord[i]].notified
        PROVE  ll[p].update <=>
                /\ ll[p].id # 0
                /\ \/ \E k \in 1..Len(d) : d[k].id = ll[p].id
                   \/ \E q \in 1..p - 1 : ll[q].id = ll[p].id
    <3>1. ord[i] \in DOMAIN op
      BY <2>2 DEF Joins
    <3>2. op[ord[i]].notified <=> BegunIn(d, l, ord[i])
      BY <3>1 DEF UpdatesOf
    <3>3. (\E q \in 1..p - 1 : ll[q].id = ord[i]) <=> \E q \in DOMAIN l : l[q].id = ord[i]
      <4>1. ASSUME NEW q \in 1..p - 1, ll[q].id = ord[i] PROVE \E x \in DOMAIN l : l[x].id = ord[i]
        <5>1. q \in 1..n + m /\ q # n + i /\ q < n + i
          BY <2>2
        <5>2. q \in DOMAIN ll
          BY <5>1 DEF Joins
        <5>3. CASE q \in DOMAIN l /\ ll[q] = l[q]
          BY <4>1, <5>3
        <5>4. ASSUME NEW j \in 1..m, q = n + j, ll[q].id = ord[j]
              PROVE  FALSE
          <6>1. i # j
            BY <5>1, <5>4
          <6> QED BY <4>1, <5>4, <6>1 DEF Joins
        <5> QED BY <5>2, <5>3, <5>4, JoinsLine
      <4>2. ASSUME NEW q \in DOMAIN l, l[q].id = ord[i] PROVE \E x \in 1..p - 1 : ll[x].id = ord[i]
        <5>1. q \in 1..n /\ q \in 1..p - 1
          BY <2>2 DEF Joins
        <5>2. ll[q] = l[q]
          BY <5>1 DEF Joins
        <5> QED BY <4>2, <5>1, <5>2
      <4> QED BY <4>1, <4>2
    <3>4. BegunIn(d, l, ord[i]) <=>
             \/ \E k \in 1..Len(d) : d[k].id = ord[i]
             \/ \E q \in 1..p - 1 : ll[q].id = ord[i]
      BY <3>3 DEF BegunIn
    <3>5. ord[i] # 0
      BY <2>2
    <3> QED BY <2>2, <3>2, <3>4, <3>5, Zenon
  <2> QED BY <2>1, <2>2, JoinsLine
<1> QED BY <1>2, <1>3 DEF UpdatesOf

(* Batches that are taken leave a tidy state tidy.                         *)
LEMMA TidyTake ==
    ASSUME NEW off, NEW d, NEW l, NEW w, NEW op, NEW f, NEW nid \in Nat, NEW q, NEW bk, NEW ep,
           Tidy(off, d, l, w, op, f, nid, q, bk, ep),
           DOMAIN op \subseteq 1..nid, \A i \in DOMAIN op : op[i].notified \in BOOLEAN,
           NEW n \in Nat, NEW m \in Nat, NEW ord, NEW D, NEW ll, NEW ww, NEW opp,
           Joins(n, m, ord, D, l, w, op, ll, ww, opp)
    PROVE  Tidy(off, d, ll, ww, opp, f, nid, q, bk, ep)
<1>1. /\ LineOK(l, nid) /\ SentOK(d, nid) /\ WaitingOK(w)
      /\ OrderOf(off, d, l, w) /\ UpdatesOf(d, l, op)
  BY DEF Tidy
<1>2. ItemsFrom(d, ll, ww) = ItemsFrom(d, l, w)
  BY JoinsItems
<1>3. OrderOf(off, d, ll, ww)
  BY <1>1, JoinsOrder
<1>4. UpdatesOf(d, ll, opp)
  BY <1>1, JoinsUpdates
<1>5. WaitingOK(ww)
  <2> SUFFICES ASSUME NEW i \in Nat PROVE ww[i] \in Seq(Issue)
    BY DEF WaitingOK
  <2>1. ww[i] = IF i \in D THEN <<>> ELSE w[i]
    BY DEF Joins
  <2> QED BY <1>1, <2>1 DEF WaitingOK
<1>6. LineOK(ll, nid)
  <2>1. \E k \in Nat : DOMAIN ll = 1..k
    <3>1. n + m \in Nat
      OBVIOUS
    <3> QED BY <3>1 DEF Joins
  <2>2. ASSUME NEW p \in DOMAIN ll
        PROVE  /\ ll[p].id \in 0..nid /\ ll[p].update \in BOOLEAN
               /\ ll[p].alerts \in Seq(Issue) /\ ll[p].alerts # <<>>
    <3>1. CASE p \in DOMAIN l /\ ll[p] = l[p]
      BY <1>1, <3>1 DEF LineOK
    <3>2. ASSUME NEW i \in 1..m, ord[i] \in D, ord[i] \in Nat \ {0},
                 ll[p].id = ord[i], ll[p].alerts = w[ord[i]],
                 ll[p].update = op[ord[i]].notified
          PROVE  /\ ll[p].id \in 0..nid /\ ll[p].update \in BOOLEAN
                 /\ ll[p].alerts \in Seq(Issue) /\ ll[p].alerts # <<>>
      <4>1. ord[i] \in DOMAIN op /\ w[ord[i]] # <<>>
        BY <3>2 DEF Joins
      <4>2. w[ord[i]] \in Seq(Issue)
        BY <1>1, <3>2 DEF WaitingOK
      <4>3. ord[i] \in 1..nid /\ ord[i] \in 0..nid
        BY <4>1
      <4> QED BY <3>2, <4>1, <4>2, <4>3
    <3> QED BY <3>1, <3>2, JoinsLine
  <2> QED BY <2>1, <2>2 DEF LineOK
<1> QED BY <1>2, <1>3, <1>4, <1>5, <1>6 DEF Tidy

-----------------------------------------------------------------------------
(***************************************************************************)
(* Receive: the head of the queue is filed.                                *)
(***************************************************************************)
(* Alert a is the head of queue q: it is newer than what is filed.         *)
Older(b, a) == b.n < a.n /\ b.n # a.n
Newest(d, l, w, a) ==
    /\ \A k \in 1..Len(d) : Older(d[k].alert, a)
    /\ \A p \in DOMAIN l : \A x \in 1..Len(l[p].alerts) : Older(l[p].alerts[x], a)
    /\ \A i \in Nat : \A x \in 1..Len(w[i]) : Older(w[i][x], a)

(* The head and the rest of a queue.                                       *)
LEMMA HeadIs ==
    ASSUME NEW q \in Seq(Issue), q # <<>>
    PROVE  /\ q[1] \in Issue /\ 1 \in 1..Len(q) /\ Head(q) = q[1]
           /\ Len(q) \in Nat \ {0} /\ Tail(q) \in Seq(Issue) /\ Len(Tail(q)) = Len(q) - 1
           /\ \A j \in 1..Len(q) - 1 : j + 1 \in 1..Len(q) /\ Tail(q)[j] = q[j + 1]
<1>1. IsSeq(q)
  BY SeqIs
<1>2. Len(q) \in Nat \ {0} /\ Len(Tail(q)) = Len(q) - 1 /\ Head(q) = q[1]
      /\ \A j \in 1..Len(q) - 1 : Tail(q)[j] = q[j + 1]
  BY <1>1, TailIs
<1>3. Tail(q) \in Seq(Issue)
  OBVIOUS
<1>4. 1 \in 1..Len(q) /\ \A j \in 1..Len(q) - 1 : j + 1 \in 1..Len(q)
  BY <1>2
<1>5. q[1] \in Issue
  BY <1>4
<1> QED BY <1>2, <1>3, <1>4, <1>5

(* The head of the queue is newer than all that is filed.                  *)
LEMMA HeadIsNewest ==
    ASSUME NEW f \in Nat, NEW q \in Seq(Issue), q # <<>>, NEW d, NEW l, NEW w,
           NumberedOf(f, q, ItemsFrom(d, l, w))
    PROVE  Newest(d, l, w, q[1])
<1>1. 1 \in 1..Len(q)
  BY HeadIs
<1>2. ASSUME NEW e \in ItemsFrom(d, l, w) PROVE Older(e.alert, q[1])
  <2>1. e.alert.n \in 1..f /\ e.alert.n < q[1].n /\ q[1].n \in 1..f
    BY <1>1 DEF NumberedOf
  <2>2. e.alert.n # q[1].n
    BY <2>1
  <2> QED BY <2>1, <2>2 DEF Older
<1>3. ASSUME NEW k \in 1..Len(d) PROVE Older(d[k].alert, q[1])
  BY <1>2, InItems
<1>4. ASSUME NEW p \in DOMAIN l, NEW x \in 1..Len(l[p].alerts)
      PROVE  Older(l[p].alerts[x], q[1])
  <2>1. Item(l[p].alerts[x], l[p].id) \in ItemsFrom(d, l, w)
    BY InItems
  <2>2. Item(l[p].alerts[x], l[p].id).alert = l[p].alerts[x]
    BY DEF Item
  <2> QED BY <1>2, <2>1, <2>2
<1>5. ASSUME NEW i \in Nat, NEW x \in 1..Len(w[i])
      PROVE  Older(w[i][x], q[1])
  <2>1. Item(w[i][x], i) \in ItemsFrom(d, l, w)
    BY InItems
  <2>2. Item(w[i][x], i).alert = w[i][x]
    BY DEF Item
  <2> QED BY <1>2, <2>1, <2>2
<1> QED BY <1>3, <1>4, <1>5 DEF Newest

-----------------------------------------------------------------------------
(* The head of the queue is filed as item e; bkk is byKey then.            *)
Files(off, q, bk, e, bkk) ==
    /\ e.alert = q[1]
    /\ off => e.id = 0 /\ bkk = bk
    /\ ~off /\ q[1].kind = "resolved" =>
          /\ e.id = bk[q[1].key]
          /\ \A k \in Keys : bkk[k] = IF k = q[1].key THEN 0 ELSE bk[k]
    /\ ~off /\ q[1].kind = "firing" /\ q[1].key \in Keys =>
          /\ e.id # 0
          /\ \A k \in Keys : bkk[k] = IF k = q[1].key THEN e.id ELSE bk[k]
    /\ ~off /\ q[1].key \notin Keys => bkk = bk

(* Filing the head keeps every alert accounted for.                        *)
LEMMA FilesNumbered ==
    ASSUME NEW f \in Nat, NEW q \in Seq(Issue), q # <<>>, NEW items, NEW e,
           e.alert = q[1], NumberedOf(f, q, items)
    PROVE  NumberedOf(f, Tail(q), items \cup {e})
<1> DEFINE qq == Tail(q)
<1>1. /\ 1 \in 1..Len(q) /\ Len(q) \in Nat \ {0} /\ Len(qq) = Len(q) - 1
      /\ \A j \in 1..Len(q) - 1 : j + 1 \in 1..Len(q) /\ qq[j] = q[j + 1]
  BY HeadIs
<1> HIDE DEF qq
<1>2. ASSUME NEW j \in 1..Len(qq) PROVE j + 1 \in 1..Len(q) /\ qq[j] = q[j + 1] /\ j + 1 > 1
  BY <1>1
<1>3. \A j \in 1..Len(qq) : qq[j].n \in 1..f
  BY <1>2 DEF NumberedOf
<1>4. Ascending(qq)
  <2> SUFFICES ASSUME NEW x \in 1..Len(qq), NEW y \in 1..Len(qq), x < y
               PROVE  qq[x].n < qq[y].n
    BY DEF Ascending
  <2>1. x + 1 < y + 1
    OBVIOUS
  <2> QED BY <1>2, <2>1 DEF NumberedOf, Ascending
<1>5. ASSUME NEW g \in items \cup {e}
      PROVE  g.alert.n \in 1..f /\ \A j \in 1..Len(qq) : g.alert.n < qq[j].n
  <2>1. CASE g \in items
    BY <1>2, <2>1 DEF NumberedOf
  <2>2. CASE g = e
    <3>1. g.alert.n \in 1..f
      BY <1>1, <2>2 DEF NumberedOf
    <3>2. ASSUME NEW j \in 1..Len(qq) PROVE q[1].n < qq[j].n
      BY <1>1, <1>2 DEF NumberedOf, Ascending
    <3> QED BY <2>2, <3>1, <3>2
  <2> QED BY <2>1, <2>2
<1>6. ASSUME NEW m \in 1..f
      PROVE  (\E j \in 1..Len(qq) : qq[j].n = m) \/ \E g \in items \cup {e} : g.alert.n = m
  <2>1. CASE \E g \in items : g.alert.n = m
    BY <2>1
  <2>2. ASSUME NEW j \in 1..Len(q), q[j].n = m
        PROVE  (\E y \in 1..Len(qq) : qq[y].n = m) \/ \E g \in items \cup {e} : g.alert.n = m
    <3>1. CASE j = 1
      BY <2>2, <3>1
    <3>2. CASE j # 1
      <4>1. j - 1 \in 1..Len(qq) /\ j - 1 \in 1..Len(q) - 1 /\ (j - 1) + 1 = j
        BY <1>1, <3>2
      <4>2. PICK y \in 1..Len(qq) : y \in 1..Len(q) - 1 /\ y + 1 = j
        BY <4>1
      <4>3. qq[y].n = m
        BY <1>1, <2>2, <4>2
      <4> QED BY <4>3
    <3> QED BY <3>1, <3>2
  <2> QED BY <2>1, <2>2 DEF NumberedOf
<1>7. NumberedOf(f, qq, items \cup {e})
  BY <1>3, <1>4, <1>5, <1>6 DEF NumberedOf
<1> QED BY <1>7 DEF qq

(* An episode of k that is filed, or was, is live after the head is.       *)
LEMMA FilesLive ==
    ASSUME NEW off \in BOOLEAN, NEW q \in Seq(Issue), q # <<>>, NEW items, NEW bk, NEW e, NEW bkk,
           Files(off, q, bk, e, bkk), NEW k \in Keys,
           \/ IsFiring(q[1], k)
           \/ LiveIn(off, items, bk, k) /\ ~IsResolved(q[1], k)
    PROVE  LiveIn(off, items \cup {e}, bkk, k)
<1>1. q[1] \in Issue
  BY HeadIs
<1>2. q[1].kind \in {"firing", "resolved"}
  BY <1>1 DEF Issue
<1>3. CASE off
  <2>1. CASE IsFiring(q[1], k)
    <3>1. e \in items \cup {e} /\ IsFiring(e.alert, k) /\ e.id = 0
      BY <1>3, <2>1 DEF Files
    <3> QED BY <1>3, <3>1 DEF LiveIn, FiledIn
  <2>2. CASE LiveIn(off, items, bk, k)
    BY <1>3, <2>2 DEF LiveIn, FiledIn
  <2> QED BY <2>1, <2>2
<1>4. CASE ~off
  <2>1. CASE IsFiring(q[1], k)
    BY <1>4, <2>1 DEF Files, IsFiring, LiveIn
  <2>2. CASE bk[k] # 0 /\ ~IsResolved(q[1], k)
    <3>1. bkk[k] # 0
      BY <1>2, <1>4, <2>2 DEF Files, IsResolved
    <3> QED BY <1>4, <3>1 DEF LiveIn
  <2> QED BY <1>4, <2>1, <2>2 DEF LiveIn
<1> QED BY <1>3, <1>4

(* What the queue leaves behind is the same without its head.              *)
LEMMA FilesBegins ==
    ASSUME NEW off \in BOOLEAN, NEW q \in Seq(Issue), q # <<>>, NEW items, NEW bk, NEW e, NEW bkk,
           Files(off, q, bk, e, bkk), NEW k \in Keys, NEW j \in 1..Len(q),
           BeginsIn(off, items, bk, q, j + 1, k)
    PROVE  BeginsIn(off, items \cup {e}, bkk, Tail(q), j, k)
<1> DEFINE qq == Tail(q)
<1>1. /\ Len(q) \in Nat \ {0} /\ \A m \in 1..Len(q) - 1 : qq[m] = q[m + 1]
  BY HeadIs
<1> HIDE DEF qq
<1>2. ASSUME NEW m \in 1..j - 1 PROVE qq[m] = q[m + 1] /\ m + 1 \in 2..j
  <2>1. m \in 1..Len(q) - 1 /\ m + 1 \in 2..j
    BY <1>1
  <2> QED BY <1>1, <2>1
<1>3. CASE \E i \in 1..j : IsFiring(q[i], k) /\ \A m \in i + 1..j : ~IsResolved(q[m], k)
  <2>1. PICK i \in 1..j : IsFiring(q[i], k) /\ \A m \in i + 1..j : ~IsResolved(q[m], k)
    BY <1>3
  <2>2. CASE i = 1
    <3>1. LiveIn(off, items \cup {e}, bkk, k)
      BY <2>1, <2>2, FilesLive
    <3>2. \A m \in 1..j - 1 : ~IsResolved(qq[m], k)
      BY <1>2, <2>1, <2>2
    <3> QED BY <3>1, <3>2 DEF BeginsIn, qq
  <2>3. CASE i # 1
    <3>1. i - 1 \in 1..j - 1 /\ (i - 1) + 1 = i
      BY <2>3
    <3>2. PICK x \in 1..j - 1 : x + 1 = i
      BY <3>1
    <3>3. IsFiring(qq[x], k)
      BY <1>2, <2>1, <3>2
    <3>4. ASSUME NEW m \in x + 1..j - 1 PROVE ~IsResolved(qq[m], k)
      <4>1. m \in 1..j - 1 /\ m + 1 \in i + 1..j
        BY <3>2
      <4> QED BY <1>2, <2>1, <4>1
    <3> QED BY <3>3, <3>4 DEF BeginsIn, qq
  <2> QED BY <2>2, <2>3
<1>4. CASE LiveIn(off, items, bk, k) /\ \A m \in 1..j : ~IsResolved(q[m], k)
  <2>1. 1 \in 1..j
    OBVIOUS
  <2>2. LiveIn(off, items \cup {e}, bkk, k)
    BY <1>4, <2>1, FilesLive
  <2>3. ASSUME NEW m \in 1..j - 1 PROVE ~IsResolved(qq[m], k)
    <3>1. m + 1 \in 1..j
      OBVIOUS
    <3> QED BY <1>2, <1>4, <3>1
  <2> QED BY <2>2, <2>3 DEF BeginsIn, qq
<1>5. (j + 1) - 1 = j
  OBVIOUS
<1> QED BY <1>3, <1>4, <1>5 DEF BeginsIn

(* Filing the head keeps every resolution with what it ends.               *)
LEMMA FilesEnds ==
    ASSUME NEW off \in BOOLEAN, NEW f \in Nat, NEW q \in Seq(Issue), q # <<>>, NEW items, NEW bk,
           NEW ep, NEW e, NEW bkk, Files(off, q, bk, e, bkk),
           NumberedOf(f, q, items), EndsOf(off, items, bk, q, ep)
    PROVE  EndsOf(off, items \cup {e}, bkk, Tail(q), ep)
<1> DEFINE qq == Tail(q)
           new == items \cup {e}
<1>1. /\ q[1] \in Issue /\ 1 \in 1..Len(q) /\ Len(q) \in Nat \ {0} /\ Len(qq) = Len(q) - 1
      /\ \A j \in 1..Len(q) - 1 : j + 1 \in 1..Len(q) /\ qq[j] = q[j + 1]
  BY HeadIs
<1>2. ResolvedRight(off, new)
  <2> SUFFICES ASSUME NEW g \in new, g.alert.kind = "resolved"
               PROVE  /\ ~off => g.id # 0
                      /\ \E h \in new : /\ IsFiring(h.alert, g.alert.key) /\ h.id = g.id
                                        /\ h.alert.n < g.alert.n
    BY DEF ResolvedRight
  <2>1. CASE g \in items
    BY <2>1 DEF EndsOf, ResolvedRight
  <2>2. CASE g = e
    <3>1. e.alert = q[1] /\ q[1].kind = "resolved"
      BY <2>2 DEF Files
    <3>2. q[1].key \in Keys /\ BeginsIn(off, items, bk, q, 1, q[1].key)
      BY <1>1, <3>1 DEF EndsOf, QueueRight
    <3>3. LiveIn(off, items, bk, q[1].key)
      BY <3>2 DEF BeginsIn
    <3>4. FiledIn(items, q[1].key, e.id) /\ (~off => e.id # 0)
      <4>1. CASE off
        BY <3>3, <4>1 DEF LiveIn, Files
      <4>2. CASE ~off
        <5>1. bk[q[1].key] # 0 /\ e.id = bk[q[1].key]
          BY <3>1, <3>3, <4>2 DEF LiveIn, Files
        <5> QED BY <3>2, <5>1 DEF EndsOf, KeysRight
      <4> QED BY <4>1, <4>2
    <3>5. PICK h \in items : IsFiring(h.alert, q[1].key) /\ h.id = e.id
      BY <3>4 DEF FiledIn
    <3>6. h.alert.n < q[1].n
      BY <1>1 DEF NumberedOf
    <3> QED BY <2>2, <3>1, <3>4, <3>5, <3>6
  <2> QED BY <2>1, <2>2
<1>3. KeysRight(new, bkk)
  <2> SUFFICES ASSUME NEW k \in Keys, bkk[k] # 0 PROVE FiledIn(new, k, bkk[k])
    BY DEF KeysRight
  <2>1. q[1].kind \in {"firing", "resolved"}
    BY <1>1 DEF Issue
  <2>2. \/ bkk[k] = bk[k]
        \/ k = q[1].key /\ q[1].kind = "firing" /\ bkk[k] = e.id
    BY <2>1 DEF Files
  <2>3. CASE bkk[k] = bk[k]
    BY <2>3 DEF EndsOf, KeysRight, FiledIn
  <2>4. CASE k = q[1].key /\ q[1].kind = "firing" /\ bkk[k] = e.id
    <3>1. e \in new /\ IsFiring(e.alert, k) /\ e.id = bkk[k]
      BY <2>4 DEF Files, IsFiring
    <3> QED BY <3>1 DEF FiledIn
  <2> QED BY <2>2, <2>3, <2>4
<1>4. QueueRight(off, new, bkk, qq)
  <2> SUFFICES ASSUME NEW j \in 1..Len(qq)
               PROVE  /\ qq[j].kind = "resolved" =>
                            qq[j].key \in Keys /\ BeginsIn(off, new, bkk, qq, j, qq[j].key)
                      /\ qq[j].key \in Keys => ~qq[j].silenced
    BY DEF QueueRight
  <2>1. j + 1 \in 1..Len(q) /\ qq[j] = q[j + 1] /\ j \in 1..Len(q)
    BY <1>1
  <2>2. ASSUME qq[j].kind = "resolved"
        PROVE  qq[j].key \in Keys /\ BeginsIn(off, new, bkk, qq, j, qq[j].key)
    <3>1. qq[j].key \in Keys /\ BeginsIn(off, items, bk, q, j + 1, qq[j].key)
      BY <2>1, <2>2 DEF EndsOf, QueueRight
    <3> QED BY <2>1, <3>1, FilesBegins
  <2>3. qq[j].key \in Keys => ~qq[j].silenced
    BY <2>1 DEF EndsOf, QueueRight
  <2> QED BY <2>2, <2>3
<1>5. EpisodesRight(off, new, bkk, qq, ep)
  <2> SUFFICES ASSUME NEW k \in Keys, ep[k] > 0
               PROVE  BeginsIn(off, new, bkk, qq, Len(qq) + 1, k)
    BY DEF EpisodesRight
  <2>1. BeginsIn(off, items, bk, q, Len(q) + 1, k)
    BY DEF EndsOf, EpisodesRight
  <2>2. Len(q) \in 1..Len(q) /\ Len(qq) + 1 = Len(q)
    BY <1>1
  <2> QED BY <2>1, <2>2, FilesBegins
<1> QED BY <1>2, <1>3, <1>4, <1>5 DEF EndsOf

-----------------------------------------------------------------------------
(***************************************************************************)
(* Receive: a batch of its own.                                            *)
(***************************************************************************)
(* A batch with item e alone joins the line of n batches.                  *)
Adds(n, l, e, ll) ==
    /\ DOMAIN l = 1..n /\ DOMAIN ll = 1..n + 1
    /\ \A p \in 1..n : ll[p] = l[p]
    /\ ll[n + 1].id = e.id /\ ll[n + 1].alerts = <<e.alert>>

(* The batch at each place of the longer line.                             *)
LEMMA AddsLine ==
    ASSUME NEW n \in Nat, NEW l, NEW e, NEW ll, Adds(n, l, e, ll), NEW p \in DOMAIN ll
    PROVE  \/ p \in 1..n /\ p \in DOMAIN l /\ ll[p] = l[p]
           \/ p = n + 1 /\ ll[p].id = e.id /\ ll[p].alerts = <<e.alert>>
<1>1. p \in 1..n \/ p = n + 1
  BY DEF Adds
<1> QED BY <1>1 DEF Adds

(* The places of the old line are places of the new one.                   *)
LEMMA AddsPlaces ==
    ASSUME NEW n \in Nat, NEW l, NEW e, NEW ll, Adds(n, l, e, ll)
    PROVE  /\ \A p \in DOMAIN l : p \in DOMAIN ll /\ ll[p] = l[p]
           /\ n + 1 \in DOMAIN ll
<1>1. \A p \in 1..n : p \in 1..n + 1
  OBVIOUS
<1>2. n + 1 \in 1..n + 1
  OBVIOUS
<1> QED BY <1>1, <1>2 DEF Adds

(* The new batch files its alert and nothing else.                         *)
LEMMA AddsItems ==
    ASSUME NEW n \in Nat, NEW l, NEW a, NEW i, NEW ll, Adds(n, l, Item(a, i), ll), NEW d, NEW w
    PROVE  ItemsFrom(d, ll, w) = ItemsFrom(d, l, w) \cup {Item(a, i)}
<1> DEFINE Old == ItemsFrom(d, l, w)
           New == ItemsFrom(d, ll, w)
<1>1. Len(<<a>>) = 1 /\ <<a>>[1] = a /\ Item(a, i).alert = a /\ Item(a, i).id = i
  BY OneIs DEF Item
<1>2. ASSUME NEW e \in New PROVE e \in Old \/ e = Item(a, i)
  <2>1. ASSUME NEW p \in DOMAIN ll, NEW x \in 1..Len(ll[p].alerts), e = Item(ll[p].alerts[x], ll[p].id)
        PROVE  e \in Old \/ e = Item(a, i)
    <3>1. CASE p \in DOMAIN l /\ ll[p] = l[p]
      BY <2>1, <3>1, InItems
    <3>2. CASE ll[p].id = i /\ ll[p].alerts = <<a>>
      <4>1. x = 1
        BY <1>1, <3>2
      <4> QED BY <1>1, <2>1, <3>2, <4>1
    <3> QED BY <1>1, <3>1, <3>2, AddsLine
  <2>2. CASE \E k \in 1..Len(d) : e = d[k]
    BY <2>2, InItems
  <2>3. CASE \E j \in Nat : \E x \in 1..Len(w[j]) : e = Item(w[j][x], j)
    BY <2>3, InItems
  <2> QED BY <2>1, <2>2, <2>3, InItems
<1>3. ASSUME NEW e \in Old PROVE e \in New
  <2>1. ASSUME NEW p \in DOMAIN l, NEW x \in 1..Len(l[p].alerts), e = Item(l[p].alerts[x], l[p].id)
        PROVE  e \in New
    <3>1. p \in DOMAIN ll /\ ll[p] = l[p]
      BY AddsPlaces
    <3> QED BY <2>1, <3>1, InItems
  <2>2. CASE \E k \in 1..Len(d) : e = d[k]
    BY <2>2, InItems
  <2>3. CASE \E j \in Nat : \E x \in 1..Len(w[j]) : e = Item(w[j][x], j)
    BY <2>3, InItems
  <2> QED BY <2>1, <2>2, <2>3, InItems
<1>4. Item(a, i) \in New
  <2>1. n + 1 \in DOMAIN ll
    BY AddsPlaces
  <2>2. ll[n + 1].id = i /\ ll[n + 1].alerts = <<a>>
    BY <1>1 DEF Adds
  <2>3. 1 \in 1..Len(ll[n + 1].alerts) /\ ll[n + 1].alerts[1] = a
    BY <1>1, <2>2
  <2> QED BY <2>1, <2>2, <2>3, InItems
<1> QED BY <1>2, <1>3, <1>4

(* An older alert may be ahead of a newer one.                             *)
LEMMA OlderFits ==
    ASSUME NEW off, NEW a, NEW b, NEW i, NEW j, Older(b, a)
    PROVE  Fits(off, b, i, a, j)
BY DEF Older, Fits

(* The newest alert at the end of the line keeps the order.                *)
LEMMA AddsOrder ==
    ASSUME NEW n \in Nat, NEW l, NEW a, NEW i, NEW ll, Adds(n, l, Item(a, i), ll),
           NEW off, NEW d, NEW w, OrderOf(off, d, l, w), Newest(d, l, w, a),
           off \/ i = 0 \/ w[i] = <<>>, off => \A j \in Nat : w[j] = <<>>
    PROVE  OrderOf(off, d, ll, w)
<1>1. Len(<<a>>) = 1 /\ <<a>>[1] = a /\ Item(a, i).alert = a /\ Item(a, i).id = i
      /\ 1..Len(<<>>) = {}
  BY OneIs, EmptyIs DEF Item
<1>2. ASSUME NEW p \in DOMAIN ll
      PROVE  \/ p \in 1..n /\ p \in DOMAIN l /\ ll[p] = l[p]
             \/ p = n + 1 /\ ll[p].id = i /\ ll[p].alerts = <<a>>
  BY <1>1, AddsLine
<1>3. SentThenLine(off, d, ll)
  <2> SUFFICES ASSUME NEW k \in 1..Len(d), NEW p \in DOMAIN ll
               PROVE  Under(off, d[k].alert, d[k].id, ll[p].alerts, ll[p].id)
    BY DEF SentThenLine
  <2>1. CASE p \in DOMAIN l /\ ll[p] = l[p]
    BY <2>1 DEF OrderOf, SentThenLine
  <2>2. CASE ll[p].id = i /\ ll[p].alerts = <<a>>
    <3> SUFFICES ASSUME NEW y \in 1..Len(<<a>>)
                 PROVE  Fits(off, d[k].alert, d[k].id, <<a>>[y], i)
      BY <2>2 DEF Under
    <3>1. <<a>>[y] = a
      BY <1>1
    <3>2. Older(d[k].alert, a)
      BY DEF Newest
    <3> QED BY <3>1, <3>2, OlderFits
  <2> QED BY <1>2, <2>1, <2>2
<1>4. LineInOrder(off, ll)
  <2>1. ASSUME NEW p \in DOMAIN ll PROVE Ascending(ll[p].alerts)
    <3>1. CASE p \in DOMAIN l /\ ll[p] = l[p]
      BY <3>1 DEF OrderOf, LineInOrder
    <3>2. CASE ll[p].alerts = <<a>>
      BY <1>1, <3>2 DEF Ascending
    <3> QED BY <1>2, <3>1, <3>2
  <2>2. ASSUME NEW p \in DOMAIN ll, NEW q \in DOMAIN ll, p < q
        PROVE  AllFit(off, ll[p].alerts, ll[p].id, ll[q].alerts, ll[q].id)
    <3>1. p \in 1..n
      BY <2>2 DEF Adds
    <3>2. p \in DOMAIN l /\ ll[p] = l[p]
      BY <3>1 DEF Adds
    <3>3. CASE q \in DOMAIN l /\ ll[q] = l[q]
      BY <2>2, <3>2, <3>3 DEF OrderOf, LineInOrder
    <3>4. CASE ll[q].id = i /\ ll[q].alerts = <<a>>
      <4> SUFFICES ASSUME NEW x \in 1..Len(l[p].alerts), NEW y \in 1..Len(<<a>>)
                   PROVE  Fits(off, l[p].alerts[x], l[p].id, <<a>>[y], i)
        BY <3>2, <3>4 DEF AllFit
      <4>1. <<a>>[y] = a
        BY <1>1
      <4>2. Older(l[p].alerts[x], a)
        BY <3>2 DEF Newest
      <4> QED BY <4>1, <4>2, OlderFits
    <3> QED BY <1>2, <3>3, <3>4
  <2> QED BY <2>1, <2>2 DEF LineInOrder
<1>5. LineThenWaiting(off, ll, w)
  <2> SUFFICES ASSUME NEW p \in DOMAIN ll, NEW j \in Nat
               PROVE  AllFit(off, ll[p].alerts, ll[p].id, w[j], j)
    BY DEF LineThenWaiting
  <2>1. CASE p \in DOMAIN l /\ ll[p] = l[p]
    BY <2>1 DEF OrderOf, LineThenWaiting
  <2>2. CASE ll[p].id = i /\ ll[p].alerts = <<a>>
    <3> SUFFICES ASSUME NEW x \in 1..Len(<<a>>), NEW y \in 1..Len(w[j])
                 PROVE  Fits(off, <<a>>[x], i, w[j][y], j)
      BY <2>2 DEF AllFit
    <3>1. <<a>>[x] = a
      BY <1>1
    <3>2. Older(w[j][y], a)
      BY DEF Newest
    <3>3. w[j] # <<>>
      BY <1>1
    <3>4. ~Rel(off, i, j)
      BY <3>3 DEF Rel
    <3> QED BY <3>1, <3>2, <3>4 DEF Fits, Older
  <2> QED BY <1>2, <2>1, <2>2
<1> QED BY <1>3, <1>4, <1>5 DEF OrderOf

(* A batch that is an update when its incident has begun keeps the         *)
(* updates right.                                                          *)
LEMMA AddsUpdates ==
    ASSUME NEW n \in Nat, NEW l, NEW e, NEW ll, Adds(n, l, e, ll),
           NEW d, NEW op, NEW opp, UpdatesOf(d, l, op),
           ll[n + 1].update <=> e.id # 0 /\ BegunIn(d, l, e.id),
           DOMAIN opp \subseteq DOMAIN op, e.id \notin DOMAIN opp,
           \A i \in DOMAIN opp : opp[i].notified = op[i].notified
    PROVE  UpdatesOf(d, ll, opp)
<1>1. /\ \A p \in DOMAIN l : p \in DOMAIN ll /\ ll[p] = l[p]
      /\ n + 1 \in DOMAIN ll /\ DOMAIN l = 1..n /\ ll[n + 1].id = e.id
  BY AddsPlaces DEF Adds
<1>2. ASSUME NEW i \in DOMAIN opp PROVE opp[i].notified <=> BegunIn(d, ll, i)
  <2>1. i \in DOMAIN op /\ (op[i].notified <=> BegunIn(d, l, i)) /\ i # e.id
        /\ opp[i].notified = op[i].notified
    BY DEF UpdatesOf
  <2>2. BegunIn(d, ll, i) <=> BegunIn(d, l, i)
    <3>1. ASSUME NEW p \in DOMAIN ll, ll[p].id = i PROVE \E q \in DOMAIN l : l[q].id = i
      BY <2>1, <3>1, AddsLine
    <3>2. ASSUME NEW p \in DOMAIN l, l[p].id = i PROVE \E q \in DOMAIN ll : ll[q].id = i
      BY <1>1, <3>2
    <3> QED BY <3>1, <3>2 DEF BegunIn
  <2> QED BY <2>1, <2>2, Zenon
<1>3. ASSUME NEW p \in DOMAIN ll
      PROVE  ll[p].update <=>
                /\ ll[p].id # 0
                /\ \/ \E k \in 1..Len(d) : d[k].id = ll[p].id
                   \/ \E q \in 1..p - 1 : ll[q].id = ll[p].id
  <2>1. CASE p \in 1..n /\ p \in DOMAIN l /\ ll[p] = l[p]
    <3>1. \A q \in 1..p - 1 : ll[q] = l[q]
      <4> SUFFICES ASSUME NEW q \in 1..p - 1 PROVE ll[q] = l[q]
        OBVIOUS
      <4>1. q \in 1..n
        BY <2>1
      <4> QED BY <1>1, <4>1
    <3>2. l[p].update <=>
                /\ l[p].id # 0
                /\ \/ \E k \in 1..Len(d) : d[k].id = l[p].id
                   \/ \E q \in 1..p - 1 : l[q].id = l[p].id
      BY <2>1 DEF UpdatesOf
    <3>3. (\E q \in 1..p - 1 : l[q].id = l[p].id) <=> \E q \in 1..p - 1 : ll[q].id = l[p].id
      BY <3>1
    <3> QED BY <2>1, <3>2, <3>3, Zenon
  <2>2. CASE p = n + 1
    <3>1. p - 1 = n
      BY <2>2
    <3>2. (\E q \in 1..n : ll[q].id = e.id) <=> \E q \in DOMAIN l : l[q].id = e.id
      BY <1>1
    <3>3. BegunIn(d, l, e.id) <=>
             \/ \E k \in 1..Len(d) : d[k].id = e.id
             \/ \E q \in 1..n : ll[q].id = e.id
      BY <3>2 DEF BegunIn
    <3>4. ll[p].update <=> e.id # 0 /\ BegunIn(d, l, e.id)
      BY <2>2
    <3>5. ll[p].id = e.id
      BY <1>1, <2>2
    <3>6. ll[p].update <=> 
             /\ e.id # 0
             /\ \/ \E k \in 1..Len(d) : d[k].id = e.id
                \/ \E q \in 1..n : ll[q].id = e.id
      BY <3>3, <3>4, Zenon
    <3> QED BY <3>1, <3>5, <3>6, Zenon
  <2> QED BY <2>1, <2>2, AddsLine
<1> QED BY <1>2, <1>3 DEF UpdatesOf

(* The head of the queue, filed in a batch of its own, leaves a tidy       *)
(* state tidy.                                                             *)
LEMMA TidyAdd ==
    ASSUME NEW off \in BOOLEAN, NEW d, NEW l, NEW w, NEW op, NEW f \in Nat, NEW nid \in Nat,
           NEW q, q # <<>>, NEW bk, NEW ep,
           Tidy(off, d, l, w, op, f, nid, q, bk, ep),
           NEW n \in Nat, NEW i \in 0..nid, NEW ll, NEW bkk, NEW opp,
           Adds(n, l, Item(q[1], i), ll), Files(off, q, bk, Item(q[1], i), bkk),
           off \/ i = 0 \/ w[i] = <<>>, off => \A j \in Nat : w[j] = <<>>,
           ll[n + 1].update \in BOOLEAN,
           ll[n + 1].update <=> i # 0 /\ BegunIn(d, l, i),
           DOMAIN opp \subseteq DOMAIN op, i \notin DOMAIN opp,
           \A j \in DOMAIN opp : opp[j].notified = op[j].notified
    PROVE  Tidy(off, d, ll, w, opp, f, nid, Tail(q), bkk, ep)
<1> DEFINE e == Item(q[1], i)
<1>1. /\ LineOK(l, nid) /\ SentOK(d, nid) /\ WaitingOK(w) /\ q \in Seq(Issue)
      /\ OrderOf(off, d, l, w) /\ UpdatesOf(d, l, op)
      /\ NumberedOf(f, q, ItemsFrom(d, l, w))
      /\ EndsOf(off, ItemsFrom(d, l, w), bk, q, ep)
  BY DEF Tidy
<1>2. e.id = i /\ e.alert = q[1]
  BY DEF Item
<1>3. ItemsFrom(d, ll, w) = ItemsFrom(d, l, w) \cup {e}
  BY AddsItems
<1>4. Newest(d, l, w, q[1])
  BY <1>1, HeadIsNewest
<1>5. OrderOf(off, d, ll, w)
  BY <1>1, <1>4, AddsOrder
<1> HIDE DEF e
<1>6. UpdatesOf(d, ll, opp)
  BY <1>1, <1>2, AddsUpdates DEF e
<1>7. NumberedOf(f, Tail(q), ItemsFrom(d, ll, w))
  BY <1>1, <1>2, <1>3, FilesNumbered
<1>8. EndsOf(off, ItemsFrom(d, ll, w), bkk, Tail(q), ep)
  BY <1>1, <1>3, FilesEnds DEF e
<1>9. q[1] \in Issue /\ Tail(q) \in Seq(Issue)
  BY <1>1, HeadIs
<1>10. LineOK(ll, nid)
  <2>1. \E k \in Nat : DOMAIN ll = 1..k
    <3>1. n + 1 \in Nat
      OBVIOUS
    <3> QED BY <3>1 DEF Adds
  <2>2. ASSUME NEW p \in DOMAIN ll
        PROVE  /\ ll[p].id \in 0..nid /\ ll[p].update \in BOOLEAN
               /\ ll[p].alerts \in Seq(Issue) /\ ll[p].alerts # <<>>
    <3>1. CASE p \in DOMAIN l /\ ll[p] = l[p]
      BY <1>1, <3>1 DEF LineOK
    <3>2. CASE p = n + 1 /\ ll[p].id = i /\ ll[p].alerts = <<q[1]>>
      <4>1. <<q[1]>> \in Seq(Issue) /\ <<q[1]>> # <<>>
        BY <1>9
      <4> QED BY <3>2, <4>1
    <3> QED BY <1>2, <3>1, <3>2, AddsLine DEF e
  <2> QED BY <2>1, <2>2 DEF LineOK
<1> QED BY <1>1, <1>5, <1>6, <1>7, <1>8, <1>9, <1>10 DEF Tidy

-----------------------------------------------------------------------------
(***************************************************************************)
(* Receive: held back; and the alerts that join the queue.                 *)
(***************************************************************************)
(* Incident i holds alert a back, after what it holds.                     *)
Holds(w, i, a, ww) ==
    /\ ww[i] = Append(w[i], a)
    /\ \A j \in Nat : j # i => ww[j] = w[j]

(* What incident i holds back then.                                        *)
LEMMA HoldsPlaces ==
    ASSUME NEW w, NEW i \in Nat, NEW a, NEW ww, Holds(w, i, a, ww), WaitingOK(w)
    PROVE  /\ Len(w[i]) \in Nat /\ Len(ww[i]) = Len(w[i]) + 1
           /\ \A x \in 1..Len(w[i]) : x \in 1..Len(ww[i]) /\ ww[i][x] = w[i][x]
           /\ \A x \in 1..Len(ww[i]) : \/ x \in 1..Len(w[i]) /\ ww[i][x] = w[i][x]
                                       \/ x = Len(w[i]) + 1 /\ ww[i][x] = a
           /\ Len(w[i]) + 1 \in 1..Len(ww[i]) /\ ww[i][Len(w[i]) + 1] = a
<1>1. IsSeq(w[i])
  BY SeqIs DEF WaitingOK
<1>2. /\ Len(ww[i]) = Len(w[i]) + 1 /\ Len(w[i]) \in Nat
      /\ \A x \in 1..Len(w[i]) : ww[i][x] = w[i][x]
      /\ ww[i][Len(w[i]) + 1] = a
  BY <1>1, AppendIs DEF Holds
<1>3. \A x \in 1..Len(w[i]) : x \in 1..Len(ww[i])
  BY <1>2
<1>4. \A x \in 1..Len(ww[i]) : x \in 1..Len(w[i]) \/ x = Len(w[i]) + 1
  BY <1>2
<1>5. Len(w[i]) + 1 \in 1..Len(ww[i])
  BY <1>2
<1> QED BY <1>2, <1>3, <1>4, <1>5

(* Holding an alert back files it and nothing else.                        *)
LEMMA HoldsItems ==
    ASSUME NEW w, NEW i \in Nat, NEW a, NEW ww, Holds(w, i, a, ww), WaitingOK(w), NEW d, NEW l
    PROVE  ItemsFrom(d, l, ww) = ItemsFrom(d, l, w) \cup {Item(a, i)}
<1> DEFINE Old == ItemsFrom(d, l, w)
           New == ItemsFrom(d, l, ww)
<1>1. ASSUME NEW e \in New PROVE e \in Old \/ e = Item(a, i)
  <2>1. ASSUME NEW j \in Nat, NEW x \in 1..Len(ww[j]), e = Item(ww[j][x], j)
        PROVE  e \in Old \/ e = Item(a, i)
    <3>1. CASE j # i
      <4>1. ww[j] = w[j]
        BY <3>1 DEF Holds
      <4> QED BY <2>1, <4>1, InItems
    <3>2. CASE j = i /\ x \in 1..Len(w[i]) /\ ww[i][x] = w[i][x]
      BY <2>1, <3>2, InItems
    <3>3. CASE j = i /\ ww[i][x] = a
      BY <2>1, <3>3
    <3> QED BY <3>1, <3>2, <3>3, HoldsPlaces
  <2>2. CASE \E k \in 1..Len(d) : e = d[k]
    BY <2>2, InItems
  <2>3. CASE \E p \in DOMAIN l : \E x \in 1..Len(l[p].alerts) : e = Item(l[p].alerts[x], l[p].id)
    BY <2>3, InItems
  <2> QED BY <2>1, <2>2, <2>3, InItems
<1>2. ASSUME NEW e \in Old PROVE e \in New
  <2>1. ASSUME NEW j \in Nat, NEW x \in 1..Len(w[j]), e = Item(w[j][x], j)
        PROVE  e \in New
    <3>1. x \in 1..Len(ww[j]) /\ ww[j][x] = w[j][x]
      <4>1. CASE j = i
        BY <4>1, HoldsPlaces
      <4>2. CASE j # i
        BY <4>2 DEF Holds
      <4> QED BY <4>1, <4>2
    <3> QED BY <2>1, <3>1, InItems
  <2>2. CASE \E k \in 1..Len(d) : e = d[k]
    BY <2>2, InItems
  <2>3. CASE \E p \in DOMAIN l : \E x \in 1..Len(l[p].alerts) : e = Item(l[p].alerts[x], l[p].id)
    BY <2>3, InItems
  <2> QED BY <2>1, <2>2, <2>3, InItems
<1>3. Item(a, i) \in New
  <2>1. Len(w[i]) + 1 \in 1..Len(ww[i]) /\ ww[i][Len(w[i]) + 1] = a
    BY HoldsPlaces
  <2>2. \E x \in 1..Len(ww[i]) : Item(a, i) = Item(ww[i][x], i)
    BY <2>1
  <2> QED BY <2>2, InItems
<1> QED BY <1>1, <1>2, <1>3

(* The newest alert behind what its incident holds keeps the order.        *)
LEMMA HoldsOrder ==
    ASSUME NEW w, NEW i \in Nat, NEW a, NEW ww, Holds(w, i, a, ww), WaitingOK(w),
           NEW off, ~off, NEW d, NEW l, OrderOf(off, d, l, w), Newest(d, l, w, a)
    PROVE  OrderOf(off, d, l, ww)
<1>1. ASSUME NEW j \in Nat, NEW x \in 1..Len(ww[j])
      PROVE  \/ x \in 1..Len(w[j]) /\ ww[j][x] = w[j][x]
             \/ j = i /\ x = Len(w[i]) + 1 /\ ww[j][x] = a
  <2>1. CASE j = i
    BY <2>1, HoldsPlaces
  <2>2. CASE j # i
    BY <2>2 DEF Holds
  <2> QED BY <2>1, <2>2
<1>2. SentThenWaiting(off, d, ww)
  <2> SUFFICES ASSUME NEW k \in 1..Len(d), NEW j \in Nat, NEW y \in 1..Len(ww[j])
               PROVE  Fits(off, d[k].alert, d[k].id, ww[j][y], j)
    BY DEF SentThenWaiting, Under
  <2>1. CASE y \in 1..Len(w[j]) /\ ww[j][y] = w[j][y]
    BY <2>1 DEF OrderOf, SentThenWaiting, Under
  <2>2. CASE ww[j][y] = a
    <3>1. Older(d[k].alert, a)
      BY DEF Newest
    <3> QED BY <2>2, <3>1, OlderFits
  <2> QED BY <1>1, <2>1, <2>2
<1>3. LineThenWaiting(off, l, ww)
  <2> SUFFICES ASSUME NEW p \in DOMAIN l, NEW j \in Nat,
                      NEW x \in 1..Len(l[p].alerts), NEW y \in 1..Len(ww[j])
               PROVE  Fits(off, l[p].alerts[x], l[p].id, ww[j][y], j)
    BY DEF LineThenWaiting, AllFit
  <2>1. CASE y \in 1..Len(w[j]) /\ ww[j][y] = w[j][y]
    BY <2>1 DEF OrderOf, LineThenWaiting, AllFit
  <2>2. CASE ww[j][y] = a
    <3>1. Older(l[p].alerts[x], a)
      BY DEF Newest
    <3> QED BY <2>2, <3>1, OlderFits
  <2> QED BY <1>1, <2>1, <2>2
<1>4. WaitingInOrder(off, ww)
  <2>1. ASSUME NEW j \in Nat PROVE Ascending(ww[j])
    <3> SUFFICES ASSUME NEW x \in 1..Len(ww[j]), NEW y \in 1..Len(ww[j]), x < y
                 PROVE  ww[j][x].n < ww[j][y].n
      BY DEF Ascending
    <3>1. CASE y \in 1..Len(w[j]) /\ ww[j][y] = w[j][y]
      <4>1. x \in 1..Len(w[j]) /\ ww[j][x] = w[j][x]
        <5>1. Len(w[j]) \in Nat /\ Len(w[i]) \in Nat
          BY SeqIs DEF WaitingOK
        <5>2. x \in 1..Len(w[j])
          BY <3>1, <5>1
        <5> QED BY <1>1, <5>1, <5>2
      <4> QED BY <3>1, <4>1 DEF OrderOf, WaitingInOrder, Ascending
    <3>2. CASE j = i /\ y = Len(w[i]) + 1 /\ ww[j][y] = a
      <4>1. x \in 1..Len(w[j]) /\ ww[j][x] = w[j][x]
        BY <1>1, <3>2
      <4>2. Older(w[j][x], a)
        BY <4>1 DEF Newest
      <4> QED BY <3>2, <4>1, <4>2 DEF Older
    <3> QED BY <1>1, <3>1, <3>2
  <2>2. ASSUME NEW j \in Nat, NEW k \in Nat, j # k,
               NEW x \in 1..Len(ww[j]), NEW y \in 1..Len(ww[k])
        PROVE  Fits(off, ww[j][x], j, ww[k][y], k)
    <3>1. ~Rel(off, j, k)
      BY <2>2 DEF Rel
    <3>2. CASE /\ x \in 1..Len(w[j]) /\ ww[j][x] = w[j][x]
               /\ y \in 1..Len(w[k]) /\ ww[k][y] = w[k][y]
      BY <2>2, <3>2 DEF OrderOf, WaitingInOrder, AllFit
    <3>3. CASE ww[k][y] = a /\ x \in 1..Len(w[j]) /\ ww[j][x] = w[j][x]
      <4>1. Older(w[j][x], a)
        BY <3>3 DEF Newest
      <4> QED BY <3>3, <4>1, OlderFits
    <3>4. CASE ww[j][x] = a /\ y \in 1..Len(w[k]) /\ ww[k][y] = w[k][y]
      <4>1. Older(w[k][y], a)
        BY <3>4 DEF Newest
      <4> QED BY <3>1, <3>4, <4>1 DEF Older, Fits
    <3> QED BY <1>1, <2>2, <3>2, <3>3, <3>4
  <2> QED BY <2>1, <2>2 DEF WaitingInOrder, AllFit
<1> QED BY <1>2, <1>3, <1>4 DEF OrderOf

(* The head of the queue, held back, leaves a tidy state tidy.             *)
LEMMA TidyHold ==
    ASSUME NEW off \in BOOLEAN, ~off, NEW d, NEW l, NEW w, NEW op, NEW f \in Nat, NEW nid \in Nat,
           NEW q, q # <<>>, NEW bk, NEW ep,
           Tidy(off, d, l, w, op, f, nid, q, bk, ep),
           NEW i \in Nat, NEW nnid \in Nat, nid <= nnid,
           NEW ww, NEW bkk, NEW opp,
           Holds(w, i, q[1], ww), Files(off, q, bk, Item(q[1], i), bkk),
           \A j \in DOMAIN opp : \/ j \in DOMAIN op /\ opp[j].notified = op[j].notified
                                 \/ opp[j].notified = FALSE /\ j = nid + 1
    PROVE  Tidy(off, d, l, ww, opp, f, nnid, Tail(q), bkk, ep)
<1> DEFINE e == Item(q[1], i)
<1>1. /\ LineOK(l, nid) /\ SentOK(d, nid) /\ WaitingOK(w) /\ q \in Seq(Issue)
      /\ OrderOf(off, d, l, w) /\ UpdatesOf(d, l, op)
      /\ NumberedOf(f, q, ItemsFrom(d, l, w))
      /\ EndsOf(off, ItemsFrom(d, l, w), bk, q, ep)
  BY DEF Tidy
<1>2. e.alert = q[1]
  BY DEF Item
<1>3. ItemsFrom(d, l, ww) = ItemsFrom(d, l, w) \cup {e}
  BY <1>1, HoldsItems
<1>4. Newest(d, l, w, q[1])
  BY <1>1, HeadIsNewest
<1>5. OrderOf(off, d, l, ww)
  BY <1>1, <1>4, HoldsOrder
<1> HIDE DEF e
<1>6. UpdatesOf(d, l, opp)
  <2>1. ASSUME NEW j \in DOMAIN opp PROVE opp[j].notified <=> BegunIn(d, l, j)
    <3>1. CASE j \in DOMAIN op /\ opp[j].notified = op[j].notified
      BY <1>1, <3>1, Zenon DEF UpdatesOf
    <3>2. CASE opp[j].notified = FALSE /\ j = nid + 1
      <4>1. \A k \in 1..Len(d) : d[k].id # j
        BY <1>1, <3>2 DEF SentOK
      <4>2. \A p \in DOMAIN l : l[p].id # j
        BY <1>1, <3>2 DEF LineOK
      <4> QED BY <3>2, <4>1, <4>2 DEF BegunIn
    <3> QED BY <3>1, <3>2
  <2> QED BY <1>1, <2>1 DEF UpdatesOf
<1>7. NumberedOf(f, Tail(q), ItemsFrom(d, l, ww))
  BY <1>1, <1>2, <1>3, FilesNumbered
<1>8. EndsOf(off, ItemsFrom(d, l, ww), bkk, Tail(q), ep)
  BY <1>1, <1>3, FilesEnds DEF e
<1>9. q[1] \in Issue /\ Tail(q) \in Seq(Issue)
  BY <1>1, HeadIs
<1>10. LineOK(l, nnid) /\ SentOK(d, nnid)
  <2>1. \A j \in 0..nid : j \in 0..nnid
    OBVIOUS
  <2> QED BY <1>1, <2>1 DEF LineOK, SentOK
<1>11. WaitingOK(ww)
  <2> SUFFICES ASSUME NEW j \in Nat PROVE ww[j] \in Seq(Issue)
    BY DEF WaitingOK
  <2>1. CASE j = i
    <3>1. w[i] \in Seq(Issue)
      BY <1>1 DEF WaitingOK
    <3>2. Append(w[i], q[1]) \in Seq(Issue)
      BY <1>9, <3>1
    <3> QED BY <2>1, <3>2 DEF Holds
  <2>2. CASE j # i
    BY <1>1, <2>2 DEF Holds, WaitingOK
  <2> QED BY <2>1, <2>2
<1> QED BY <1>5, <1>6, <1>7, <1>8, <1>9, <1>10, <1>11 DEF Tidy

-----------------------------------------------------------------------------
(* Alert a joins the queue; ee are the episodes then.                      *)
LEMMA TidyFile ==
    ASSUME NEW off \in BOOLEAN, NEW d, NEW l, NEW w, NEW op, NEW f \in Nat, NEW nid \in Nat,
           NEW q, NEW bk, NEW ep, Tidy(off, d, l, w, op, f, nid, q, bk, ep),
           NEW a \in Issue, a.n = f + 1,
           a.kind = "resolved" => a.key \in Keys /\ ep[a.key] > 0,
           a.key \in Keys => ~a.silenced,
           NEW ee, \A k \in Keys : ee[k] > 0 =>
                      \/ IsFiring(a, k)
                      \/ ep[k] > 0 /\ ~IsResolved(a, k)
    PROVE  Tidy(off, d, l, w, op, f + 1, nid, Append(q, a), bk, ee)
<1> DEFINE items == ItemsFrom(d, l, w)
           qq == Append(q, a)
<1>1. /\ q \in Seq(Issue) /\ NumberedOf(f, q, items) /\ EndsOf(off, items, bk, q, ep)
  BY DEF Tidy
<1>2. /\ qq \in Seq(Issue) /\ Len(qq) = Len(q) + 1 /\ Len(q) \in Nat
      /\ \A j \in 1..Len(q) : qq[j] = q[j]
      /\ qq[Len(q) + 1] = a
  <2>1. IsSeq(q) /\ qq \in Seq(Issue)
    BY <1>1, SeqIs
  <2> QED BY <2>1, AppendIs
<1> HIDE DEF items, qq
<1>3. \A j \in 1..Len(qq) : j \in 1..Len(q) \/ j = Len(q) + 1
  BY <1>2
<1>4. NumberedOf(f + 1, qq, items)
  <2>1. \A j \in 1..Len(q) : q[j].n \in 1..f
    BY <1>1 DEF NumberedOf
  <2>2. \A j \in 1..Len(qq) : qq[j].n \in 1..f + 1
    <3> SUFFICES ASSUME NEW j \in 1..Len(qq) PROVE qq[j].n \in 1..f + 1
      OBVIOUS
    <3>1. CASE j \in 1..Len(q)
      <4>1. q[j].n \in 1..f
        BY <2>1, <3>1
      <4> QED BY <1>2, <3>1, <4>1
    <3>2. CASE j = Len(q) + 1
      BY <1>2, <3>2
    <3> QED BY <1>3, <3>1, <3>2
  <2>3. Ascending(qq)
    <3> SUFFICES ASSUME NEW x \in 1..Len(qq), NEW y \in 1..Len(qq), x < y
                 PROVE  qq[x].n < qq[y].n
      BY DEF Ascending
    <3>1. x \in 1..Len(q)
      BY <1>2
    <3>2. CASE y \in 1..Len(q)
      BY <1>1, <1>2, <3>1, <3>2 DEF NumberedOf, Ascending
    <3>3. CASE y = Len(q) + 1
      <4>1. qq[x].n \in 1..f
        BY <1>2, <2>1, <3>1
      <4> QED BY <1>2, <3>3, <4>1
    <3> QED BY <1>3, <3>2, <3>3
  <2>4. ASSUME NEW e \in items
        PROVE  e.alert.n \in 1..f + 1 /\ \A j \in 1..Len(qq) : e.alert.n < qq[j].n
    <3>1. e.alert.n \in 1..f /\ \A j \in 1..Len(q) : e.alert.n < q[j].n
      BY <1>1 DEF NumberedOf
    <3>2. ASSUME NEW j \in 1..Len(qq) PROVE e.alert.n < qq[j].n
      <4>1. CASE j \in 1..Len(q)
        BY <1>2, <3>1, <4>1
      <4>2. CASE j = Len(q) + 1
        BY <1>2, <3>1, <4>2
      <4> QED BY <1>3, <4>1, <4>2
    <3> QED BY <3>1, <3>2
  <2>5. ASSUME NEW m \in 1..f + 1
        PROVE  (\E j \in 1..Len(qq) : qq[j].n = m) \/ \E e \in items : e.alert.n = m
    <3>1. CASE m = f + 1
      <4>1. Len(q) + 1 \in 1..Len(qq)
        BY <1>2
      <4> QED BY <1>2, <3>1, <4>1
    <3>2. CASE m # f + 1
      <4>1. m \in 1..f
        BY <3>2
      <4>2. ASSUME NEW j \in 1..Len(q), q[j].n = m PROVE \E x \in 1..Len(qq) : qq[x].n = m
        <5>1. j \in 1..Len(qq)
          BY <1>2
        <5> QED BY <1>2, <4>2, <5>1
      <4> QED BY <1>1, <4>1, <4>2 DEF NumberedOf
    <3> QED BY <3>1, <3>2
  <2> QED BY <2>2, <2>3, <2>4, <2>5 DEF NumberedOf
<1>5. ASSUME NEW j \in 1..Len(q) + 1, NEW k, BeginsIn(off, items, bk, q, j, k)
      PROVE  BeginsIn(off, items, bk, qq, j, k)
  <2>1. ASSUME NEW m \in 1..j - 1 PROVE qq[m] = q[m]
    <3>1. m \in 1..Len(q)
      BY <1>2
    <3> QED BY <1>2, <3>1
  <2>2. \A i \in 1..j - 1 : \A m \in i + 1..j - 1 : m \in 1..j - 1
    BY <1>2
  <2>3. ASSUME NEW i \in 1..j - 1, IsFiring(q[i], k), \A m \in i + 1..j - 1 : ~IsResolved(q[m], k)
        PROVE  IsFiring(qq[i], k) /\ \A m \in i + 1..j - 1 : ~IsResolved(qq[m], k)
    BY <2>1, <2>2, <2>3
  <2>4. ASSUME \A m \in 1..j - 1 : ~IsResolved(q[m], k)
        PROVE  \A m \in 1..j - 1 : ~IsResolved(qq[m], k)
    BY <2>1, <2>4
  <2> QED BY <1>5, <2>3, <2>4 DEF BeginsIn
<1>6. QueueRight(off, items, bk, qq)
  <2> SUFFICES ASSUME NEW j \in 1..Len(qq)
               PROVE  /\ qq[j].kind = "resolved" =>
                            qq[j].key \in Keys /\ BeginsIn(off, items, bk, qq, j, qq[j].key)
                      /\ qq[j].key \in Keys => ~qq[j].silenced
    BY DEF QueueRight
  <2>1. CASE j \in 1..Len(q)
    <3>1. j \in 1..Len(q) + 1 /\ qq[j] = q[j]
      BY <1>2, <2>1
    <3>2. q[j].kind = "resolved" => q[j].key \in Keys /\ BeginsIn(off, items, bk, q, j, q[j].key)
      BY <1>1, <2>1 DEF EndsOf, QueueRight
    <3>3. q[j].key \in Keys => ~q[j].silenced
      BY <1>1, <2>1 DEF EndsOf, QueueRight
    <3> QED BY <1>5, <3>1, <3>2, <3>3
  <2>2. CASE j = Len(q) + 1
    <3>1. qq[j] = a
      BY <1>2, <2>2
    <3>2. ASSUME a.kind = "resolved"
          PROVE  a.key \in Keys /\ BeginsIn(off, items, bk, qq, j, a.key)
      <4>1. BeginsIn(off, items, bk, q, Len(q) + 1, a.key)
        BY <1>1, <3>2 DEF EndsOf, EpisodesRight
      <4> QED BY <1>5, <2>2, <3>2, <4>1
    <3> QED BY <3>1, <3>2
  <2> QED BY <1>3, <2>1, <2>2
<1>7. EpisodesRight(off, items, bk, qq, ee)
  <2> SUFFICES ASSUME NEW k \in Keys, ee[k] > 0
               PROVE  BeginsIn(off, items, bk, qq, Len(qq) + 1, k)
    BY DEF EpisodesRight
  <2>1. (Len(qq) + 1) - 1 = Len(q) + 1 /\ (Len(q) + 1) - 1 = Len(q)
    BY <1>2
  <2>2. CASE IsFiring(a, k)
    <3>1. Len(q) + 1 \in 1..Len(q) + 1 /\ (Len(q) + 1) + 1..Len(q) + 1 = {}
      BY <1>2
    <3>2. \E i \in 1..Len(q) + 1 : /\ IsFiring(qq[i], k)
                                   /\ \A m \in i + 1..Len(q) + 1 : ~IsResolved(qq[m], k)
      BY <1>2, <2>2, <3>1
    <3> QED BY <2>1, <3>2 DEF BeginsIn
  <2>3. CASE ep[k] > 0 /\ ~IsResolved(a, k)
    <3>1. BeginsIn(off, items, bk, q, Len(q) + 1, k)
      BY <1>1, <2>3 DEF EndsOf, EpisodesRight
    <3>2. ASSUME NEW m \in 1..Len(q) + 1
          PROVE  (m \in 1..Len(q) /\ qq[m] = q[m]) \/ qq[m] = a
      BY <1>2
    <3>3. ASSUME NEW i \in 1..Len(q), IsFiring(q[i], k), \A m \in i + 1..Len(q) : ~IsResolved(q[m], k)
          PROVE  BeginsIn(off, items, bk, qq, Len(qq) + 1, k)
      <4>1. i \in 1..Len(q) + 1 /\ IsFiring(qq[i], k)
        BY <1>2, <3>3
      <4>2. ASSUME NEW m \in i + 1..Len(q) + 1 PROVE ~IsResolved(qq[m], k)
        <5>1. m \in 1..Len(q) + 1 /\ (m \in 1..Len(q) => m \in i + 1..Len(q))
          BY <1>2
        <5> QED BY <2>3, <3>2, <3>3, <5>1
      <4> QED BY <2>1, <4>1, <4>2 DEF BeginsIn
    <3>4. ASSUME LiveIn(off, items, bk, k), \A m \in 1..Len(q) : ~IsResolved(q[m], k)
          PROVE  BeginsIn(off, items, bk, qq, Len(qq) + 1, k)
      <4>1. \A m \in 1..Len(q) + 1 : ~IsResolved(qq[m], k)
        BY <2>3, <3>2, <3>4
      <4> QED BY <2>1, <3>4, <4>1 DEF BeginsIn
    <3> QED BY <2>1, <3>1, <3>3, <3>4 DEF BeginsIn
  <2> QED BY <2>2, <2>3
<1>8. EndsOf(off, items, bk, qq, ee)
  BY <1>1, <1>6, <1>7 DEF EndsOf
<1>9. Tidy(off, d, l, w, op, f + 1, nid, qq, bk, ee)
  BY <1>2, <1>4, <1>8 DEF Tidy, items
<1> QED BY <1>9 DEF qq

(* Open incidents close, or change in what no batch depends on.            *)
LEMMA TidySame ==
    ASSUME NEW off, NEW d, NEW l, NEW w, NEW op, NEW f, NEW nid, NEW q, NEW bk, NEW ep,
           Tidy(off, d, l, w, op, f, nid, q, bk, ep),
           NEW opp, DOMAIN opp \subseteq DOMAIN op,
           \A i \in DOMAIN opp : opp[i].notified = op[i].notified
    PROVE  Tidy(off, d, l, w, opp, f, nid, q, bk, ep)
<1>1. UpdatesOf(d, l, opp)
  <2>1. ASSUME NEW i \in DOMAIN opp PROVE opp[i].notified <=> BegunIn(d, l, i)
    <3>1. i \in DOMAIN op /\ opp[i].notified = op[i].notified
      OBVIOUS
    <3> QED BY <3>1, Zenon DEF Tidy, UpdatesOf
  <2> QED BY <2>1 DEF Tidy, UpdatesOf
<1> QED BY <1>1 DEF Tidy

(* A bounded function has a greatest value on a set that is not empty.     *)
LEMMA HasLatest ==
    ASSUME NEW S, S # {}, NEW N \in Nat, NEW v, \A i \in S : v[i] \in 0..N
    PROVE  \E i \in S : \A j \in S : v[j] <= v[i]
<1> DEFINE T == {N - v[i] : i \in S}
           R == OpToRel(<, Nat)
<1>1. T \subseteq Nat /\ T # {}
  OBVIOUS
<1>2. IsWellFoundedOn(R, Nat)
  BY NatLessThanWellFounded
<1>3. \E x \in T : \A y \in T : ~(<<y, x>> \in R)
  <2> HIDE DEF T, R
  <2> QED BY <1>1, <1>2, WFMin
<1>4. PICK x \in T : \A y \in T : ~(<<y, x>> \in R)
  BY <1>3
<1>5. ASSUME NEW y \in T PROVE x <= y
  <2>1. ~(<<y, x>> \in R) /\ y \in Nat /\ x \in Nat
    BY <1>1, <1>4
  <2>2. ~(y < x)
    BY <2>1 DEF OpToRel
  <2>3. y \in Nat /\ x \in Nat
    BY <1>1, <1>4
  <2> HIDE DEF T, R
  <2> QED BY <2>2, <2>3
<1>6. PICK i \in S : x = N - v[i]
  BY <1>4
<1>7. ASSUME NEW j \in S PROVE v[j] <= v[i]
  <2>1. N - v[j] \in T
    OBVIOUS
  <2>2. N - v[i] <= N - v[j]
    BY <1>5, <1>6, <2>1
  <2>3. v[i] \in 0..N /\ v[j] \in 0..N
    OBVIOUS
  <2> QED BY <2>2, <2>3
<1> QED BY <1>7

-----------------------------------------------------------------------------
(***************************************************************************)
(* From the variables to the line: batches and incidents.                  *)
(***************************************************************************)
(* Sequences of batches: the empty one, the rest of one, two after one     *)
(* another, a batch alone, one more at the end.                            *)
LEMMA BatchesEmpty == BatchesOK(<<>>)
BY EmptyIs DEF BatchesOK

LEMMA BatchesTail ==
    ASSUME NEW s, BatchesOK(s), s # <<>>
    PROVE  BatchesOK(Tail(s)) /\ IsBatch(Head(s))
<1>1. /\ IsSeq(Tail(s)) /\ Len(Tail(s)) = Len(s) - 1 /\ Len(s) \in Nat \ {0} /\ Head(s) = s[1]
      /\ \A i \in 1..Len(s) - 1 : Tail(s)[i] = s[i + 1]
  BY TailIs DEF BatchesOK
<1>2. DOMAIN s = 1..Len(s) /\ DOMAIN Tail(s) = 1..Len(Tail(s))
  BY <1>1, IsSeqLen DEF BatchesOK
<1>3. \A i \in 1..Len(s) - 1 : i + 1 \in 1..Len(s)
  BY <1>1
<1>4. 1 \in 1..Len(s)
  BY <1>1
<1> QED BY <1>1, <1>2, <1>3, <1>4 DEF BatchesOK

LEMMA BatchesConcat ==
    ASSUME NEW s, BatchesOK(s), NEW t, BatchesOK(t)
    PROVE  BatchesOK(s \o t)
<1>1. /\ IsSeq(s \o t) /\ Len(s) \in Nat /\ Len(t) \in Nat /\ Len(s \o t) = Len(s) + Len(t)
      /\ \A i \in 1..Len(s) : (s \o t)[i] = s[i]
      /\ \A i \in 1..Len(t) : (s \o t)[Len(s) + i] = t[i]
  BY ConcatIs DEF BatchesOK
<1> DEFINE u == s \o t
<1> HIDE DEF u
<1>2. DOMAIN s = 1..Len(s) /\ DOMAIN t = 1..Len(t) /\ DOMAIN u = 1..Len(u) /\ Len(u) = Len(s) + Len(t)
  BY <1>1, IsSeqLen DEF BatchesOK, u
<1>3. ASSUME NEW i \in DOMAIN u PROVE IsBatch(u[i])
  <2>1. CASE i \in 1..Len(s)
    BY <1>1, <1>2, <2>1 DEF BatchesOK, u
  <2>2. CASE ~(i \in 1..Len(s))
    <3>1. i - Len(s) \in 1..Len(t) /\ i = Len(s) + (i - Len(s))
      BY <1>1, <1>2, <2>2
    <3>2. PICK x \in 1..Len(t) : i = Len(s) + x
      BY <3>1
    <3> QED BY <1>1, <1>2, <3>2 DEF BatchesOK, u
  <2> QED BY <2>1, <2>2
<1> QED BY <1>1, <1>3 DEF BatchesOK, u

LEMMA BatchesOne ==
    ASSUME NEW e, IsBatch(e)
    PROVE  BatchesOK(<<e>>)
<1>1. IsSeq(<<e>>) /\ Len(<<e>>) = 1 /\ <<e>>[1] = e
  BY OneIs
<1>2. DOMAIN <<e>> = 1..1
  BY <1>1, IsSeqLen
<1> QED BY <1>1, <1>2 DEF BatchesOK

LEMMA BatchesAppend ==
    ASSUME NEW s, BatchesOK(s), NEW e, IsBatch(e)
    PROVE  BatchesOK(Append(s, e))
<1>1. /\ IsSeq(Append(s, e)) /\ Len(Append(s, e)) = Len(s) + 1 /\ Len(s) \in Nat
      /\ \A i \in 1..Len(s) : Append(s, e)[i] = s[i]
      /\ Append(s, e)[Len(s) + 1] = e
  BY AppendIs DEF BatchesOK
<1>2. DOMAIN s = 1..Len(s) /\ DOMAIN Append(s, e) = 1..Len(s) + 1
  BY <1>1, IsSeqLen DEF BatchesOK
<1>3. \A i \in 1..Len(s) + 1 : i \in 1..Len(s) \/ i = Len(s) + 1
  BY <1>1
<1> QED BY <1>1, <1>2, <1>3 DEF BatchesOK

(* A batch of the operator Batch, and one of BatchOf.                      *)
LEMMA BatchIs ==
    ASSUME NEW i, NEW u, NEW as
    PROVE  /\ IsBatch(Batch(i, u, as))
           /\ Core(Batch(i, u, as)) = [id |-> i, update |-> u, alerts |-> as]
BY DEF IsBatch, Batch, Core

LEMMA BatchOfIs ==
    ASSUME NEW i, NEW c
    PROVE  /\ IsBatch(BatchOf(i, c))
           /\ Core(BatchOf(i, c)) = [id |-> i, update |-> c.notified, alerts |-> c.pending]
<1> DEFINE u == c.notified
           p == c.pending
           x == c.earlier
           y == c.summary
<1>1. BatchOf(i, c) = [Batch(i, u, p) EXCEPT !.earlier = x, !.prev = y]
  BY DEF BatchOf
<1> HIDE DEF u, p, x, y
<1>2. BatchOf(i, c) = [id |-> i, update |-> u, alerts |-> p, earlier |-> x, prev |-> y, summary |-> 0]
  BY <1>1 DEF Batch
<1>3. IsBatch(BatchOf(i, c)) /\ Core(BatchOf(i, c)) = [id |-> i, update |-> u, alerts |-> p]
  BY <1>2 DEF IsBatch, Core
<1> QED BY <1>3 DEF u, p

(* What take leaves of an incident.                                        *)
LEMMA TakenIs ==
    ASSUME NEW c, IsIncident(c)
    PROVE  /\ IsIncident(Taken(c)) /\ Taken(c).pending = <<>> /\ Taken(c).due = 0
           /\ Taken(c).notified = TRUE /\ Taken(c).newest = c.newest
<1>1. c = [subjects |-> c.subjects, hasHost |-> c.hasHost, last |-> c.last,
           newest |-> c.newest, notified |-> c.notified, pending |-> c.pending,
           due |-> c.due, earlier |-> c.earlier, summary |-> c.summary]
  BY DEF IsIncident
<1> DEFINE x == LastOf(c.earlier \o FiringNumbers(c.pending), MaxEarlier)
<1>2. Taken(c) = [subjects |-> c.subjects, hasHost |-> c.hasHost, last |-> c.last,
           newest |-> c.newest, notified |-> TRUE, pending |-> <<>>,
           due |-> 0, earlier |-> x, summary |-> c.summary]
  <2>1. Taken(c) = [c EXCEPT !.notified = TRUE, !.pending = <<>>, !.due = 0, !.earlier = x]
    BY DEF Taken
  <2> HIDE DEF x
  <2> QED BY <1>1, <2>1
<1> HIDE DEF x
<1> QED BY <1>2 DEF IsIncident

(* What Enqueue adds to an incident.                                       *)
LEMMA EnqueueIs ==
    ASSUME NEW c, IsIncident(c), NEW a
    PROVE  /\ IsIncident(Enqueue(c, a)) /\ Enqueue(c, a).pending = Append(c.pending, a)
           /\ Enqueue(c, a).due = IF c.due = 0 THEN now + GroupWait ELSE c.due
           /\ Enqueue(c, a).notified = c.notified /\ Enqueue(c, a).newest = c.newest
<1>1. c = [subjects |-> c.subjects, hasHost |-> c.hasHost, last |-> c.last,
           newest |-> c.newest, notified |-> c.notified, pending |-> c.pending,
           due |-> c.due, earlier |-> c.earlier, summary |-> c.summary]
  BY DEF IsIncident
<1> DEFINE x == Append(c.pending, a)
           y == IF c.due = 0 THEN now + GroupWait ELSE c.due
<1>2. Enqueue(c, a) = [subjects |-> c.subjects, hasHost |-> c.hasHost, last |-> c.last,
           newest |-> c.newest, notified |-> c.notified, pending |-> x,
           due |-> y, earlier |-> c.earlier, summary |-> c.summary]
  <2>1. Enqueue(c, a) = [c EXCEPT !.pending = x, !.due = y]
    BY DEF Enqueue
  <2> HIDE DEF x, y
  <2> QED BY <1>1, <2>1
<1>3. IsIncident(Enqueue(c, a)) /\ Enqueue(c, a).pending = x /\ Enqueue(c, a).due = y
      /\ Enqueue(c, a).notified = c.notified /\ Enqueue(c, a).newest = c.newest
  <2> HIDE DEF x, y
  <2> QED BY <1>2 DEF IsIncident
<1> QED BY <1>3

-----------------------------------------------------------------------------
(* The four parts of the line are sequences.                               *)
LEMMA FourIs ==
    ASSUME Shapes
    PROVE  Four(group, batches, handing, ready)
BY DEF Shapes, BatchesOK, Four

(* Take: `due' may be any incidents that hold something back.  Their       *)
(* batches f join the line in the order of their first alerts.             *)
Fresh(f, m, order, op) ==
    /\ IsSeq(f) /\ Len(f) = m /\ DOMAIN f = 1..m
    /\ \A i \in 1..m : f[i] = BatchOf(order[i], op[order[i]])

LEMMA TakeJoins ==
    ASSUME IInv, handing = <<>>, NEW D, D \subseteq Pending, Take(D), UNCHANGED <<batches, group>>
    PROVE  /\ \E N \in Nat, m \in Nat : \E order, f :
                 /\ Joins(N, m, order, D, Line, Waiting, open, Line', Waiting', open')
                 /\ Fresh(f, m, order, open) /\ handing' = ready \o f
           /\ ready' = <<>> /\ D \subseteq 1..nextID
           /\ DOMAIN open' = DOMAIN open
           /\ \A i \in DOMAIN open : open'[i] = IF i \in D THEN Taken(open[i]) ELSE open[i]
           /\ UNCHANGED <<nextID, byKey>>
<1> DEFINE m == Cardinality(D)
           N == Total(group, batches, <<>>, ready)
<1>1. Shapes /\ Scalars /\ OpenOK /\ Stages /\ InOrder
  BY DEF IInv
<1>2. PICK order \in [1..m -> D] :
         /\ \A i, j \in DOMAIN order : i < j =>
              open[order[i]].pending[1].n < open[order[j]].pending[1].n
         /\ handing' = ready \o [i \in DOMAIN order |-> BatchOf(order[i], open[order[i]])]
  BY DEF Take
<1>3. /\ ready' = <<>> /\ UNCHANGED <<nextID, byKey>>
      /\ open' = [i \in DOMAIN open |-> IF i \in D THEN Taken(open[i]) ELSE open[i]]
  BY DEF Take
<1>4. D \subseteq DOMAIN open /\ D \subseteq 1..nextID /\ nextID \in Nat
      /\ \A i \in D : open[i].due # 0
  BY <1>1 DEF Pending, OpenOK, Scalars
<1>5. IsFiniteSet(D) /\ m \in Nat
  <2>1. IsFiniteSet(1..nextID)
    <3>1. 1 \in Int /\ nextID \in Int
      BY <1>4
    <3> QED BY <3>1, FS_Interval
  <2>2. IsFiniteSet(D)
    BY <1>4, <2>1, FS_Subset
  <2> QED BY <2>2, FS_CardinalityType
<1>6. \A i \in D : open[i].pending \in Seq(Issue) /\ open[i].pending # <<>>
                   /\ open[i].pending[1].n \in Nat
  <2> SUFFICES ASSUME NEW i \in D
               PROVE  open[i].pending \in Seq(Issue) /\ open[i].pending # <<>>
                      /\ open[i].pending[1].n \in Nat
    OBVIOUS
  <2>1. open[i].pending \in Seq(Issue) /\ open[i].pending # <<>>
    BY <1>1, <1>4 DEF OpenOK
  <2>2. open[i].pending[1] \in Issue
    BY <2>1, HeadIs
  <2> QED BY <2>1, <2>2 DEF Issue
<1>7. \A i, j \in 1..m : i # j => order[i] # order[j]
  <2> SUFFICES ASSUME NEW i \in 1..m, NEW j \in 1..m, i # j PROVE order[i] # order[j]
    OBVIOUS
  <2>1. order[i] \in D /\ order[j] \in D /\ DOMAIN order = 1..m
    OBVIOUS
  <2>2. i < j \/ j < i
    BY <1>5
  <2>3. \/ open[order[i]].pending[1].n < open[order[j]].pending[1].n
        \/ open[order[j]].pending[1].n < open[order[i]].pending[1].n
    BY <1>2, <2>1, <2>2
  <2>4. open[order[i]].pending[1].n \in Nat /\ open[order[j]].pending[1].n \in Nat
    BY <1>6, <2>1
  <2>5. open[order[i]].pending[1].n # open[order[j]].pending[1].n
    BY <2>3, <2>4
  <2> QED BY <2>5
<1>8. \A i \in D : \E x \in 1..m : order[x] = i
  <2>1. order \in Injection(1..m, D)
    BY <1>7 DEF Injection, IsInjective
  <2>2. Cardinality(1..m) = m
    BY <1>5, FS_Interval
  <2>3. order \in Surjection(1..m, D)
    BY <1>5, <2>1, <2>2, FS_Injection
  <2> QED BY <2>3 DEF Surjection
<1> DEFINE fresh == [i \in 1..m |-> BatchOf(order[i], open[order[i]])]
<1>9. /\ handing' = ready \o fresh /\ IsSeq(fresh) /\ Len(fresh) = m /\ DOMAIN fresh = 1..m
      /\ \A i \in 1..m : fresh[i] = BatchOf(order[i], open[order[i]])
  <2>1. fresh = [i \in 1..m |-> fresh[i]]
    OBVIOUS
  <2>2. IsSeq(fresh) /\ Len(fresh) = m
    <3> HIDE DEF fresh
    <3> QED BY <1>5, <2>1, FunctionIs
  <2> QED BY <1>2, <2>2
<1> HIDE DEF fresh, m
<1>10. Four(group, batches, <<>>, ready)
  BY <1>1, FourIs, EmptyIs DEF Four
<1>11. /\ N \in Nat /\ DOMAIN Line = 1..N /\ DOMAIN Line' = 1..N + m
       /\ \A p \in 1..N : Line'[p] = Line[p]
       /\ \A i \in 1..m : Line'[N + i] = Core(fresh[i])
  <2>1. Line = LineOf(group, batches, <<>>, ready) /\ Line' = LineOf(group, batches, ready \o fresh, <<>>)
    BY <1>3, <1>9 DEF Line
  <2>2. /\ N \in Nat /\ DOMAIN LineOf(group, batches, <<>>, ready) = 1..N
        /\ DOMAIN LineOf(group, batches, ready \o fresh, <<>>) = 1..N + Len(fresh)
        /\ \A p \in 1..N : LineOf(group, batches, ready \o fresh, <<>>)[p]
                              = LineOf(group, batches, <<>>, ready)[p]
        /\ \A i \in 1..Len(fresh) : LineOf(group, batches, ready \o fresh, <<>>)[N + i]
                                       = Core(fresh[i])
    <3>1. IsSeq(fresh)
      BY <1>9
    <3> QED BY <1>10, <3>1, GrowLine
  <2>3. Len(fresh) = m
    BY <1>9
  <2> HIDE DEF N
  <2> QED BY <2>1, <2>2, <2>3
<1> HIDE DEF N
<1>12. \A i \in DOMAIN open :
          open'[i] = IF i \in D THEN Taken(open[i]) ELSE open[i]
  BY <1>3
<1>13. DOMAIN open' = DOMAIN open /\ DOMAIN open \subseteq Nat
  BY <1>1, <1>3 DEF OpenOK
<1>14. \A i \in D : Taken(open[i]).pending = <<>> /\ Taken(open[i]).notified = TRUE
  BY <1>1, <1>4, TakenIs DEF Shapes
<1>15. Joins(N, m, order, D, Line, Waiting, open, Line', Waiting', open')
  <2>1. \A i \in 1..m :
           /\ order[i] \in D
           /\ Line'[N + i].id = order[i] /\ Line'[N + i].alerts = Waiting[order[i]]
           /\ Line'[N + i].update = open[order[i]].notified
    <3> SUFFICES ASSUME NEW i \in 1..m
                 PROVE  /\ order[i] \in D
                        /\ Line'[N + i].id = order[i] /\ Line'[N + i].alerts = Waiting[order[i]]
                        /\ Line'[N + i].update = open[order[i]].notified
      OBVIOUS
    <3>1. order[i] \in D
      BY DEF m
    <3>2. Line'[N + i] = [id |-> order[i], update |-> open[order[i]].notified,
                          alerts |-> open[order[i]].pending]
      BY <1>9, <1>11, BatchOfIs
    <3>3. Waiting[order[i]] = open[order[i]].pending
      BY <1>4, <1>13, <3>1 DEF Waiting
    <3> QED BY <3>1, <3>2, <3>3
  <2>2. \A i \in D : i \in Nat \ {0} /\ Waiting[i] # <<>>
    <3> SUFFICES ASSUME NEW i \in D PROVE i \in Nat \ {0} /\ Waiting[i] # <<>>
      OBVIOUS
    <3>1. i \in 1..nextID
      BY <1>4
    <3>2. Waiting[i] = open[i].pending
      BY <1>4, <1>13 DEF Waiting
    <3> QED BY <1>4, <1>6, <3>1, <3>2
  <2>3. \A i \in Nat : Waiting'[i] = IF i \in D THEN <<>> ELSE Waiting[i]
    <3> SUFFICES ASSUME NEW i \in Nat PROVE Waiting'[i] = IF i \in D THEN <<>> ELSE Waiting[i]
      OBVIOUS
    <3>1. Waiting'[i] = IF i \in DOMAIN open' THEN open'[i].pending ELSE <<>>
      BY DEF Waiting
    <3>2. Waiting[i] = IF i \in DOMAIN open THEN open[i].pending ELSE <<>>
      BY DEF Waiting
    <3>3. CASE i \in D
      <4>1. i \in DOMAIN open /\ open'[i] = Taken(open[i])
        BY <1>4, <1>12, <3>3
      <4> QED BY <1>13, <1>14, <3>1, <3>3, <4>1
    <3>4. CASE ~(i \in D)
      BY <1>12, <1>13, <3>1, <3>2, <3>4
    <3> QED BY <3>3, <3>4
  <2>4. \A i \in DOMAIN open : open'[i].notified = IF i \in D THEN TRUE ELSE open[i].notified
    BY <1>12, <1>14
  <2> QED BY <1>4, <1>7, <1>8, <1>11, <1>13, <2>1, <2>2, <2>3, <2>4 DEF Joins
<1>16. Fresh(fresh, m, order, open)
  BY <1>9 DEF Fresh
<1> QED BY <1>3, <1>4, <1>5, <1>9, <1>11, <1>12, <1>13, <1>15, <1>16

LEMMA TakeInOrder ==
    ASSUME IInv, handing = <<>>, NEW D, D \subseteq Pending, Take(D),
           UNCHANGED <<enabled, filed, episode, queue, batches, group, delivered>>
    PROVE  /\ InOrder' /\ BatchesOK(handing') /\ ready' = <<>>
           /\ DOMAIN open' = DOMAIN open
           /\ \A i \in DOMAIN open : open'[i] = IF i \in D THEN Taken(open[i]) ELSE open[i]
           /\ UNCHANGED <<nextID, byKey>>
<1>1. Shapes /\ OpenOK /\ InOrder /\ nextID \in Nat
  BY DEF IInv, Scalars
<1>2. PICK N \in Nat, m \in Nat : \E order, f :
         /\ Joins(N, m, order, D, Line, Waiting, open, Line', Waiting', open')
         /\ Fresh(f, m, order, open) /\ handing' = ready \o f
  BY TakeJoins
<1>3. PICK order, f :
         /\ Joins(N, m, order, D, Line, Waiting, open, Line', Waiting', open')
         /\ Fresh(f, m, order, open) /\ handing' = ready \o f
  BY <1>2
<1>4. /\ ready' = <<>> /\ DOMAIN open' = DOMAIN open /\ UNCHANGED <<nextID, byKey>>
      /\ \A i \in DOMAIN open : open'[i] = IF i \in D THEN Taken(open[i]) ELSE open[i]
  BY TakeJoins
<1>5. InOrder'
  <2>1. DOMAIN open \subseteq 1..nextID /\ \A i \in DOMAIN open : open[i].notified \in BOOLEAN
    BY <1>1 DEF OpenOK
  <2>2. Tidy(Off, delivered, Line, Waiting, open, filed, nextID, queue, byKey, episode)
    BY <1>1 DEF InOrder
  <2>3. Tidy(Off, delivered, Line', Waiting', open', filed, nextID, queue, byKey, episode)
    BY <1>1, <1>3, <2>1, <2>2, TidyTake
  <2>4. Off' = Off
    BY DEF Off
  <2> QED BY <1>4, <2>3, <2>4 DEF InOrder
<1>6. BatchesOK(handing')
  <2>1. BatchesOK(f)
    BY <1>3, BatchOfIs DEF BatchesOK, Fresh
  <2>2. BatchesOK(ready)
    BY <1>1 DEF Shapes
  <2> QED BY <1>3, <2>1, <2>2, BatchesConcat
<1> QED BY <1>4, <1>5, <1>6

(* Batch e, with alert a alone, is new at the end of the line.             *)
IsLone(e, a, i, u) == Core(e) = [id |-> i, update |-> u, alerts |-> <<a>>]
Grown(g, b, e, a, i, u) ==
    \E n \in Nat :
       /\ Adds(n, LineOf(g, b, <<>>, <<>>), Item(a, i), LineOf(g, b, <<e>>, <<>>))
       /\ LineOf(g, b, <<e>>, <<>>)[n + 1].update = u
       /\ LineOf(g, b, <<>>, Append(<<>>, e)) = LineOf(g, b, <<e>>, <<>>)

(* The line with one batch more, whether it is ready or being handed over. *)
LEMMA AddedLine ==
    ASSUME NEW g, NEW b, IsSeq(g), IsSeq(b), NEW e, NEW a, NEW i, NEW u, IsLone(e, a, i, u)
    PROVE  Grown(g, b, e, a, i, u)
<1>1. PICK f : f = <<e>>
  OBVIOUS
<1> DEFINE old == LineOf(g, b, <<>>, <<>>)
           new == LineOf(g, b, f, <<>>)
           N == Total(g, b, <<>>, <<>>)
<1>2. Four(g, b, <<>>, <<>>)
  BY EmptyIs DEF Four
<1>3. IsSeq(f) /\ Len(f) = 1 /\ f[1] = e
  BY <1>1, OneIs
<1>4. <<>> \o f = f
  BY <1>3, ConcatEmptySeq DEF IsSeq
<1>5. LineOf(g, b, <<>>, Append(<<>>, e)) = new
  <2>1. LineOf(g, b, <<>>, Append(<<>>, e)) = LineOf(g, b, <<>> \o <<e>>, <<>>)
    BY <1>2, ReadyLine
  <2> QED BY <1>1, <1>4, <2>1
<1>6. /\ N \in Nat /\ DOMAIN old = 1..N
      /\ DOMAIN LineOf(g, b, <<>> \o f, <<>>) = 1..N + Len(f)
      /\ \A p \in 1..N : LineOf(g, b, <<>> \o f, <<>>)[p] = old[p]
      /\ \A x \in 1..Len(f) : LineOf(g, b, <<>> \o f, <<>>)[N + x] = Core(f[x])
  <2>1. PICK r : r = <<>>
    OBVIOUS
  <2>2. IsSeq(f) /\ Four(g, b, <<>>, r)
    BY <1>2, <1>3, <2>1
  <2>3. /\ Total(g, b, <<>>, r) \in Nat
        /\ DOMAIN LineOf(g, b, <<>>, r) = 1..Total(g, b, <<>>, r)
        /\ DOMAIN LineOf(g, b, r \o f, <<>>) = 1..Total(g, b, <<>>, r) + Len(f)
        /\ \A p \in 1..Total(g, b, <<>>, r) :
              LineOf(g, b, r \o f, <<>>)[p] = LineOf(g, b, <<>>, r)[p]
        /\ \A x \in 1..Len(f) :
              LineOf(g, b, r \o f, <<>>)[Total(g, b, <<>>, r) + x] = Core(f[x])
    BY <2>2, GrowLine
  <2> QED BY <2>1, <2>3
<1>7. /\ DOMAIN new = 1..N + 1 /\ \A p \in 1..N : new[p] = old[p]
      /\ new[N + 1] = Core(e)
  <2>1. 1 \in 1..Len(f)
    BY <1>3
  <2>2. new = LineOf(g, b, <<>> \o f, <<>>)
    BY <1>4
  <2>3. Len(f) = 1 /\ f[1] = e
    BY <1>3
  <2> HIDE DEF new, old, N
  <2>4. DOMAIN new = 1..N + Len(f) /\ \A p \in 1..N : new[p] = old[p]
    BY <1>6, <2>2
  <2>5. new[N + 1] = Core(f[1])
    BY <1>6, <2>1, <2>2
  <2> QED BY <2>3, <2>4, <2>5
<1> HIDE DEF old, new, N
<1>8. new[N + 1].id = i /\ new[N + 1].alerts = <<a>> /\ new[N + 1].update = u
  BY <1>7 DEF IsLone
<1>9. Adds(N, old, Item(a, i), new)
  <2>1. Item(a, i).alert = a /\ Item(a, i).id = i
    BY DEF Item
  <2> QED BY <1>6, <1>7, <1>8, <2>1 DEF Adds
<1>10. N \in Nat
  BY <1>6
<1>11. new = LineOf(g, b, <<e>>, <<>>)
  BY <1>1 DEF new
<1> QED BY <1>5, <1>8, <1>9, <1>10, <1>11 DEF old, Grown

(* The head of the queue is ready, or handed over, alone.                  *)
LEMMA AddLine ==
    ASSUME IInv, handing = <<>>, ready = <<>>, NEW a, NEW i, NEW u, NEW e, e = Batch(i, u, <<a>>),
           \/ handing' = <<e>> /\ ready' = ready
           \/ handing' = handing /\ ready' = Append(ready, e),
           UNCHANGED <<batches, group>>
    PROVE  \E n \in Nat : Adds(n, Line, Item(a, i), Line') /\ Line'[n + 1].update = u
<1>1. IsSeq(group) /\ IsSeq(batches)
  BY DEF IInv, Shapes, BatchesOK
<1>2. Grown(group, batches, e, a, i, u)
  <2>1. IsLone(e, a, i, u)
    BY BatchIs DEF IsLone
  <2> QED BY <1>1, <2>1, AddedLine
<1>3. PICK n \in Nat :
              /\ Adds(n, LineOf(group, batches, <<>>, <<>>), Item(a, i),
                      LineOf(group, batches, <<e>>, <<>>))
              /\ LineOf(group, batches, <<e>>, <<>>)[n + 1].update = u
              /\ LineOf(group, batches, <<>>, Append(<<>>, e)) = LineOf(group, batches, <<e>>, <<>>)
  BY <1>2 DEF Grown
<1>4. Line = LineOf(group, batches, <<>>, <<>>) /\ Line' = LineOf(group, batches, <<e>>, <<>>)
  <2>1. Line = LineOf(group, batches, <<>>, <<>>)
    BY DEF Line
  <2>2. Line' = LineOf(group, batches, handing', ready')
    BY DEF Line
  <2> QED BY <1>3, <2>1, <2>2
<1> QED BY <1>3, <1>4

LEMMA AddInOrder ==
    ASSUME IInv, handing = <<>>, ready = <<>>, queue # <<>>,
           NEW i \in 0..nextID, NEW u \in BOOLEAN, NEW e, e = Batch(i, u, <<queue[1]>>),
           \/ handing' = <<e>> /\ ready' = ready
           \/ handing' = handing /\ ready' = Append(ready, e),
           queue' = Tail(queue),
           UNCHANGED <<enabled, filed, episode, batches, group, delivered, nextID>>,
           Files(Off, queue, byKey, Item(queue[1], i), byKey'),
           DOMAIN open' \subseteq DOMAIN open, i \notin DOMAIN open',
           \A j \in DOMAIN open' : open'[j] = open[j],
           \A j \in DOMAIN open : j \in DOMAIN open' \/ open[j].pending = <<>>,
           u <=> i # 0 /\ BegunIn(delivered, Line, i)
    PROVE  InOrder' /\ BatchesOK(handing') /\ BatchesOK(ready')
<1>1. Shapes /\ Scalars /\ OpenOK /\ Stages /\ InOrder
  BY DEF IInv
<1>2. IsBatch(e)
  BY BatchIs
<1>3. PICK n \in Nat : Adds(n, Line, Item(queue[1], i), Line') /\ Line'[n + 1].update = u
  BY AddLine
<1>4. Waiting' = Waiting
  <2>1. \A j \in Nat : (IF j \in DOMAIN open' THEN open'[j].pending ELSE <<>>)
                       = (IF j \in DOMAIN open THEN open[j].pending ELSE <<>>)
    OBVIOUS
  <2> QED BY <2>1 DEF Waiting
<1>5. Waiting[i] = <<>>
  BY <1>1 DEF Waiting, Scalars
<1>6. Off => \A j \in Nat : Waiting[j] = <<>>
  BY <1>1 DEF Waiting, Off, Stages
<1>7. Tidy(Off, delivered, Line', Waiting, open', filed, nextID, Tail(queue), byKey', episode)
  <2>1. Tidy(Off, delivered, Line, Waiting, open, filed, nextID, queue, byKey, episode)
    BY <1>1 DEF InOrder
  <2>2. Off \in BOOLEAN /\ filed \in Nat /\ nextID \in Nat
    BY <1>1 DEF Scalars, Off
  <2>3. \A j \in DOMAIN open' : open'[j].notified = open[j].notified
    OBVIOUS
  <2> QED BY <1>3, <1>5, <1>6, <2>1, <2>2, <2>3, TidyAdd
<1>8. InOrder'
  <2>1. Off' = Off
    BY DEF Off
  <2> QED BY <1>4, <1>7, <2>1 DEF InOrder
<1>9. BatchesOK(<<e>>) /\ BatchesOK(Append(<<>>, e)) /\ BatchesOK(<<>>)
  BY <1>2, BatchesOne, BatchesAppend, BatchesEmpty
<1> QED BY <1>8, <1>9

(* Incident i holds the head of the queue back.                            *)
LEMMA HoldInOrder ==
    ASSUME IInv, queue # <<>>, ~Off, NEW i, NEW c,
           \/ i \in Kept /\ c.pending = Append(open[i].pending, queue[1])
                         /\ c.notified = open[i].notified
           \/ /\ i = nextID + 1 /\ i \notin Kept
              /\ c.pending = Append(<<>>, queue[1]) /\ c.notified = FALSE,
           IsIncident(c), c.due \in Nat \ {0}, c.newest \in 0..filed,
           open' = WithOpen(i, c),
           nextID' = IF i \in Kept THEN nextID ELSE nextID + 1,
           queue' = Tail(queue),
           UNCHANGED <<enabled, filed, episode, batches, group, delivered, handing, ready>>,
           Files(FALSE, queue, byKey, Item(queue[1], i), byKey')
    PROVE  InOrder' /\ OpenOK' /\ \A j \in DOMAIN open' : IsIncident(open'[j])
<1>1. Shapes /\ Scalars /\ OpenOK /\ Stages /\ InOrder
  BY DEF IInv
<1>2. /\ Kept \subseteq DOMAIN open /\ DOMAIN open \subseteq 1..nextID /\ nextID \in Nat
      /\ nextID' \in Nat /\ nextID <= nextID' /\ i \in 1..nextID' /\ nextID + 1 \notin DOMAIN open
      /\ 1..nextID \subseteq 1..nextID'
  BY <1>1 DEF Kept, OpenOK, Scalars
<1>3. \A j \in DOMAIN open : j \in Kept \/ open[j].pending = <<>>
  BY <1>1 DEF Kept, OpenOK
<1>4. /\ DOMAIN open' = Kept \cup {i}
      /\ open'[i] = c
      /\ \A j \in Kept : j # i => open'[j] = open[j]
  BY DEF WithOpen
<1>5. Holds(Waiting, i, queue[1], Waiting')
  <2>1. i \in Nat
    BY <1>2
  <2>2. Waiting'[i] = c.pending
    BY <1>4, <2>1 DEF Waiting
  <2>3. Waiting'[i] = Append(Waiting[i], queue[1])
    <3>1. CASE i \in Kept
      <4>1. Waiting[i] = open[i].pending
        BY <1>2, <2>1, <3>1 DEF Waiting
      <4>2. c.pending = Append(open[i].pending, queue[1])
        BY <3>1
      <4> QED BY <2>2, <4>1, <4>2
    <3>2. CASE i \notin Kept
      <4>1. Waiting[i] = <<>>
        BY <1>2, <2>1, <3>2 DEF Waiting
      <4>2. c.pending = Append(<<>>, queue[1])
        BY <3>2
      <4> QED BY <2>2, <4>1, <4>2
    <3> QED BY <3>1, <3>2
  <2>4. ASSUME NEW j \in Nat, j # i PROVE Waiting'[j] = Waiting[j]
    <3>1. Waiting'[j] = IF j \in DOMAIN open' THEN open'[j].pending ELSE <<>>
      BY DEF Waiting
    <3>2. Waiting[j] = IF j \in DOMAIN open THEN open[j].pending ELSE <<>>
      BY DEF Waiting
    <3>3. CASE j \in Kept
      BY <1>2, <1>4, <2>4, <3>1, <3>2, <3>3
    <3>4. CASE j \notin Kept
      BY <1>3, <1>4, <2>4, <3>1, <3>2, <3>4
    <3> QED BY <3>3, <3>4
  <2> QED BY <2>3, <2>4 DEF Holds
<1>6. \A j \in DOMAIN open' : \/ j \in DOMAIN open /\ open'[j].notified = open[j].notified
                              \/ open'[j].notified = FALSE /\ j = nextID + 1
  <2> SUFFICES ASSUME NEW j \in DOMAIN open'
               PROVE  \/ j \in DOMAIN open /\ open'[j].notified = open[j].notified
                      \/ open'[j].notified = FALSE /\ j = nextID + 1
    OBVIOUS
  <2>1. CASE j = i
    BY <1>2, <1>4, <2>1
  <2>2. CASE j # i
    BY <1>2, <1>4, <2>2
  <2> QED BY <2>1, <2>2
<1>7. Line' = Line /\ Off' = Off
  BY DEF Line, Off
<1>8. Off \in BOOLEAN /\ filed \in Nat /\ i \in Nat
  BY <1>1, <1>2 DEF Off, Scalars
<1>9. Files(Off, queue, byKey, Item(queue[1], i), byKey')
  BY <1>8
<1>10. Tidy(Off, delivered, Line, Waiting', open', filed, nextID', Tail(queue), byKey', episode)
  <2>1. Tidy(Off, delivered, Line, Waiting, open, filed, nextID, queue, byKey, episode)
    BY <1>1 DEF InOrder
  <2> QED BY <1>2, <1>5, <1>6, <1>8, <1>9, <2>1, TidyHold
<1>11. InOrder'
  BY <1>7, <1>10 DEF InOrder
<1>12. OpenOK'
  <2>1. DOMAIN open' \subseteq 1..nextID'
    BY <1>2, <1>4
  <2>2. queue \in Seq(Issue)
    BY <1>1 DEF InOrder, Tidy
  <2>3. queue[1] \in Issue
    BY <2>2, HeadIs
  <2>4. c.pending \in Seq(Issue) /\ c.pending # <<>>
    <3>1. ASSUME NEW s \in Seq(Issue)
          PROVE  Append(s, queue[1]) \in Seq(Issue) /\ Append(s, queue[1]) # <<>>
      BY <2>3
    <3>2. i \in Kept => open[i].pending \in Seq(Issue)
      BY <1>1, <1>2 DEF OpenOK
    <3>3. <<>> \in Seq(Issue)
      OBVIOUS
    <3> QED BY <3>1, <3>2, <3>3
  <2>5. c.notified \in BOOLEAN
    BY <1>1, <1>2 DEF OpenOK
  <2>6. ASSUME NEW j \in DOMAIN open'
        PROVE  /\ open'[j].pending \in Seq(Issue)
               /\ open'[j].due \in Nat /\ (open'[j].due = 0 <=> open'[j].pending = <<>>)
               /\ open'[j].newest \in 0..filed
               /\ open'[j].notified \in BOOLEAN
    <3>1. CASE j = i
      BY <1>4, <2>4, <2>5, <3>1
    <3>2. CASE j # i
      <4>1. j \in DOMAIN open /\ open'[j] = open[j]
        BY <1>2, <1>4, <3>2
      <4> QED BY <1>1, <4>1 DEF OpenOK
    <3> QED BY <3>1, <3>2
  <2> QED BY <2>1, <2>6 DEF OpenOK
<1>13. \A j \in DOMAIN open' : IsIncident(open'[j])
  BY <1>1, <1>2, <1>4 DEF Shapes
<1> QED BY <1>11, <1>12, <1>13

-----------------------------------------------------------------------------
(***************************************************************************)
(* Receive.                                                                *)
(***************************************************************************)
(* The incident an alert joins is open, or new.                            *)
LEMMA JoinedIs ==
    ASSUME IInv, NEW s
    PROVE  JoinedBy(s) \in Kept \/ (JoinedBy(s) = nextID + 1 /\ nextID + 1 \notin Kept)
<1> DEFINE cand == {i \in Kept : Matches(open[i], s)}
<1>1. Kept \subseteq DOMAIN open /\ DOMAIN open \subseteq 1..nextID /\ nextID \in Nat /\ filed \in Nat
      /\ \A i \in DOMAIN open : open[i].newest \in 0..filed
  BY DEF IInv, OpenOK, Scalars, Kept
<1>2. nextID + 1 \notin Kept
  BY <1>1
<1>3. CASE cand = {}
  BY <1>2, <1>3 DEF JoinedBy
<1>4. CASE cand # {}
  <2> DEFINE v == [i \in cand |-> open[i].newest]
  <2>1. \A i \in cand : v[i] \in 0..filed
    BY <1>1
  <2>2. \E i \in cand : \A j \in cand : v[j] <= v[i]
    <3> HIDE DEF v, cand
    <3> QED BY <1>1, <1>4, <2>1, HasLatest
  <2>3. \E i \in cand : \A j \in cand : open[j].newest <= open[i].newest
    BY <2>2
  <2>4. JoinedBy(s) = CHOOSE i \in cand : \A j \in cand : open[j].newest <= open[i].newest
    BY <1>4 DEF JoinedBy
  <2>5. JoinedBy(s) \in cand
    <3> HIDE DEF v, cand
    <3> QED BY <2>3, <2>4
  <2> QED BY <2>5
<1> QED BY <1>3, <1>4

(* A new incident.                                                         *)
LEMMA NewIs ==
    /\ IsIncident(NewIncident) /\ NewIncident.pending = <<>> /\ NewIncident.due = 0
    /\ NewIncident.notified = FALSE
BY DEF NewIncident, IsIncident

(* The incident with a firing alert noted, before it is held back.         *)
Noted(c, issue) ==
    [c EXCEPT !.last = now, !.newest = issue.n,
              !.subjects = @ \cup SubjectsOf[issue.key],
              !.hasHost = @ \/ IsHost(issue.key)]

(* It differs in what no batch depends on.                                 *)
LEMMA NotedIs ==
    ASSUME NEW c, IsIncident(c), NEW a
    PROVE  /\ IsIncident(Noted(c, a)) /\ Noted(c, a).pending = c.pending
           /\ Noted(c, a).due = c.due /\ Noted(c, a).notified = c.notified
           /\ Noted(c, a).newest = a.n
<1>1. c = [subjects |-> c.subjects, hasHost |-> c.hasHost, last |-> c.last,
           newest |-> c.newest, notified |-> c.notified, pending |-> c.pending,
           due |-> c.due, earlier |-> c.earlier, summary |-> c.summary]
  BY DEF IsIncident
<1> DEFINE x == c.subjects \cup SubjectsOf[a.key]
           y == c.hasHost \/ IsHost(a.key)
           z == a.n
<1>2. Noted(c, a) = [c EXCEPT !.last = now, !.newest = z, !.subjects = x, !.hasHost = y]
  BY DEF Noted
<1> HIDE DEF x, y, z
<1>3. Noted(c, a) = [subjects |-> x, hasHost |-> y, last |-> now,
           newest |-> z, notified |-> c.notified, pending |-> c.pending,
           due |-> c.due, earlier |-> c.earlier, summary |-> c.summary]
  BY <1>1, <1>2
<1>4. IsIncident(Noted(c, a)) /\ Noted(c, a).pending = c.pending
      /\ Noted(c, a).due = c.due /\ Noted(c, a).notified = c.notified
      /\ Noted(c, a).newest = z
  BY <1>3 DEF IsIncident
<1> QED BY <1>4 DEF z

-----------------------------------------------------------------------------
(* An incident that holds an alert back is due.                            *)
LEMMA EnqueueHolds ==
    ASSUME NEW c, IsIncident(c), c.due \in Nat, NEW a, now + GroupWait \in Nat \ {0},
           NEW r, r = Enqueue(c, a)
    PROVE  /\ IsIncident(r) /\ r.pending = Append(c.pending, a) /\ r.due \in Nat \ {0}
           /\ r.notified = c.notified /\ r.newest = c.newest
<1>1. IsIncident(r) /\ r.pending = Append(c.pending, a)
  BY EnqueueIs
<1>2. r.due = IF c.due = 0 THEN now + GroupWait ELSE c.due
  BY EnqueueIs
<1>3. r.notified = c.notified /\ r.newest = c.newest
  BY EnqueueIs
<1>4. r.due \in Nat \ {0}
  BY <1>2
<1> QED BY <1>1, <1>3, <1>4

(* What is known of the alert at the head of the queue.                    *)
LEMMA HeadOfQueue ==
    ASSUME IInv, queue # <<>>
    PROVE  /\ queue \in Seq(Issue) /\ Head(queue) = queue[1] /\ queue[1] \in Issue
           /\ queue[1].kind \in {"firing", "resolved"} /\ queue[1].silenced \in BOOLEAN
           /\ queue[1].n \in 1..filed
           /\ queue[1].key \in Keys => ~queue[1].silenced
           /\ queue[1].kind = "resolved" =>
                 queue[1].key \in Keys /\ LiveIn(Off, Items, byKey, queue[1].key)
<1>1. queue \in Seq(Issue) /\ EndsOf(Off, Items, byKey, queue, episode)
      /\ NumberedOf(filed, queue, Items)
  BY DEF IInv, InOrder, Tidy, Items
<1>2. Head(queue) = queue[1] /\ queue[1] \in Issue /\ 1 \in 1..Len(queue)
  BY <1>1, HeadIs
<1>3. queue[1].kind \in {"firing", "resolved"} /\ queue[1].silenced \in BOOLEAN
  BY <1>2 DEF Issue
<1>4. queue[1].n \in 1..filed
  BY <1>1, <1>2 DEF NumberedOf
<1>5. queue[1].key \in Keys => ~queue[1].silenced
  BY <1>1, <1>2 DEF EndsOf, QueueRight
<1>6. queue[1].kind = "resolved" => queue[1].key \in Keys /\ BeginsIn(Off, Items, byKey, queue, 1, queue[1].key)
  BY <1>1, <1>2 DEF EndsOf, QueueRight
<1>7. ASSUME BeginsIn(Off, Items, byKey, queue, 1, queue[1].key)
      PROVE  LiveIn(Off, Items, byKey, queue[1].key)
  BY <1>7 DEF BeginsIn
<1> QED BY <1>1, <1>2, <1>3, <1>4, <1>5, <1>6, <1>7

(* The fields of an item.                                                  *)
LEMMA ItemOf ==
    ASSUME NEW a, NEW i
    PROVE  Item(a, i).alert = a /\ Item(a, i).id = i
BY DEF Item

(* A resolved episode's incident has begun, or holds something back.       *)
LEMMA LiveHasBegun ==
    ASSUME IInv, ~Off, NEW k \in Keys, byKey[k] # 0,
           byKey[k] \in DOMAIN open => open[byKey[k]].pending = <<>>
    PROVE  BegunIn(delivered, Line, byKey[k])
<1>1. FiledIn(Items, k, byKey[k])
  BY DEF IInv, InOrder, Tidy, EndsOf, KeysRight, Items
<1>2. PICK e \in Items : e.id = byKey[k]
  BY <1>1 DEF FiledIn
<1>3. CASE \E x \in 1..Len(delivered) : e = delivered[x]
  BY <1>2, <1>3 DEF BegunIn
<1>4. ASSUME NEW p \in DOMAIN Line, NEW x \in 1..Len(Line[p].alerts),
             e = Item(Line[p].alerts[x], Line[p].id)
      PROVE  BegunIn(delivered, Line, byKey[k])
  BY <1>2, <1>4, ItemOf DEF BegunIn
<1>5. ASSUME NEW i \in Nat, NEW x \in 1..Len(Waiting[i]), e = Item(Waiting[i][x], i)
      PROVE  FALSE
  <2>1. i = byKey[k]
    BY <1>2, <1>5, ItemOf
  <2>2. Waiting[i] = <<>>
    BY <2>1 DEF Waiting
  <2>3. 1..Len(<<>>) = {}
    BY EmptyIs
  <2> QED BY <2>2, <2>3
<1> QED BY <1>3, <1>4, <1>5, InItems DEF Items

(* What Receive leaves of a state in order.                                *)
After ==
    /\ InOrder' /\ BatchesOK(handing') /\ BatchesOK(ready')
    /\ nextID' \in Nat /\ byKey' \in [Keys -> 0..nextID'] /\ OpenOK'
    /\ \A i \in DOMAIN open' : IsIncident(open'[i])
    /\ (handing' = <<>> \/ ready' = <<>>) /\ (Off => DOMAIN open' = {})

(* Expired incidents are gone, and the rest is as it was.                  *)
LEMMA OpenShrinks ==
    ASSUME IInv, DOMAIN open' \subseteq DOMAIN open, UNCHANGED <<nextID, filed>>,
           \A i \in DOMAIN open' : open'[i] = open[i]
    PROVE  OpenOK' /\ \A i \in DOMAIN open' : IsIncident(open'[i])
<1>1. OpenOK
  BY DEF IInv
<1>2. DOMAIN open' \subseteq 1..nextID'
  BY <1>1 DEF OpenOK
<1>3. ASSUME NEW j \in DOMAIN open'
      PROVE  /\ open'[j].pending \in Seq(Issue)
             /\ open'[j].due \in Nat /\ (open'[j].due = 0 <=> open'[j].pending = <<>>)
             /\ open'[j].newest \in 0..filed'
             /\ open'[j].notified \in BOOLEAN
  <2>1. j \in DOMAIN open /\ open'[j] = open[j] /\ filed' = filed
    OBVIOUS
  <2> QED BY <1>1, <2>1 DEF OpenOK
<1>4. OpenOK'
  BY <1>2, <1>3 DEF OpenOK
<1> QED BY <1>4 DEF IInv, Shapes

(* A silenced alert, or any without incidents: a batch of its own.         *)
LEMMA ReceiveAlone ==
    ASSUME IInv, handing = <<>>, ready = <<>>, queue # <<>>, Off \/ queue[1].silenced,
           \/ handing' = <<Batch(0, FALSE, <<queue[1]>>)>> /\ ready' = ready
           \/ handing' = handing /\ ready' = Append(ready, Batch(0, FALSE, <<queue[1]>>)),
           queue' = Tail(queue),
           UNCHANGED <<enabled, filed, episode, batches, group, delivered, nextID, open, byKey>>
    PROVE  After
<1>1. /\ nextID \in Nat /\ DOMAIN open \subseteq 1..nextID /\ byKey \in [Keys -> 0..nextID]
      /\ (Off => DOMAIN open = {})
  BY DEF IInv, Scalars, OpenOK, Stages, Off
<1>2. Files(Off, queue, byKey, Item(queue[1], 0), byKey')
  BY HeadOfQueue, ItemOf DEF Files
<1>3. 0 \in 0..nextID /\ 0 \notin DOMAIN open' /\ FALSE \in BOOLEAN
  BY <1>1
<1>4. FALSE <=> 0 # 0 /\ BegunIn(delivered, Line, 0)
  OBVIOUS
<1>5. InOrder' /\ BatchesOK(handing') /\ BatchesOK(ready')
  <2> DEFINE e == Batch(0, FALSE, <<queue[1]>>)
  <2>1. PICK i \in 0..nextID, u \in BOOLEAN : i = 0 /\ u = FALSE
    BY <1>3
  <2>2. e = Batch(i, u, <<queue[1]>>)
    BY <2>1
  <2> HIDE DEF e
  <2>3. \/ handing' = <<e>> /\ ready' = ready
        \/ handing' = handing /\ ready' = Append(ready, e)
    BY DEF e
  <2>4. Files(Off, queue, byKey, Item(queue[1], i), byKey')
    BY <1>2, <2>1
  <2>5. i \notin DOMAIN open'
    BY <1>3, <2>1
  <2>6. u <=> i # 0 /\ BegunIn(delivered, Line, i)
    BY <2>1
  <2>7. /\ DOMAIN open' \subseteq DOMAIN open
        /\ \A j \in DOMAIN open' : open'[j] = open[j]
        /\ \A j \in DOMAIN open : j \in DOMAIN open' \/ open[j].pending = <<>>
    OBVIOUS
  <2> QED BY <2>2, <2>3, <2>4, <2>5, <2>6, <2>7, AddInOrder
<1>6. OpenOK' /\ \A i \in DOMAIN open' : IsIncident(open'[i])
  BY OpenShrinks
<1> QED BY <1>1, <1>5, <1>6 DEF After

(* A resolution: held back by its incident if that is open, else alone.    *)
LEMMA ReceiveResolved ==
    ASSUME IInv, handing = <<>>, ready = <<>>, queue # <<>>, ~Off, queue[1].kind = "resolved",
           AddResolved(queue[1]), queue' = Tail(queue),
           UNCHANGED <<enabled, filed, episode, batches, group, delivered, handing>>
    PROVE  After
<1> DEFINE i == byKey[queue[1].key]
<1>1. /\ nextID \in Nat /\ filed \in Nat /\ now \in Nat \ {0} /\ DOMAIN open \subseteq 1..nextID
      /\ byKey \in [Keys -> 0..nextID] /\ Kept \subseteq DOMAIN open
      /\ \A j \in DOMAIN open : /\ IsIncident(open[j]) /\ open[j].newest \in 0..filed
                                /\ open[j].due \in Nat
      /\ \A j \in DOMAIN open : j \in Kept \/ open[j].pending = <<>>
  BY DEF IInv, Scalars, OpenOK, Shapes, Kept
<1>2. queue[1].key \in Keys /\ i # 0 /\ i \in 0..nextID
  BY <1>1, HeadOfQueue DEF LiveIn
<1>3. byKey' = [byKey EXCEPT ![queue[1].key] = 0] /\ nextID' = nextID
  BY DEF AddResolved
<1>4. byKey' \in [Keys -> 0..nextID]
  <2>1. byKey \in [Keys -> 0..nextID] /\ 0 \in 0..nextID
    BY <1>1
  <2> QED BY <1>3, <2>1
<1>5. Files(FALSE, queue, byKey, Item(queue[1], i), byKey')
  <2>1. queue[1].kind # "firing"
    OBVIOUS
  <2>2. \A k \in Keys : byKey'[k] = IF k = queue[1].key THEN 0 ELSE byKey[k]
    BY <1>1, <1>3
  <2> QED BY <1>2, <2>1, <2>2, ItemOf DEF Files
<1>6. CASE i \in Kept
  <2> DEFINE c == Enqueue(open[i], queue[1])
  <2>1. open' = WithOpen(i, c) /\ ready' = ready
    BY <1>6 DEF AddResolved
  <2>2. IsIncident(open[i]) /\ open[i].due \in Nat /\ open[i].newest \in 0..filed
    BY <1>1, <1>6
  <2>3. now + GroupWait \in Nat \ {0}
    BY <1>1, IncidentAssumption
  <2>4. /\ IsIncident(c) /\ c.pending = Append(open[i].pending, queue[1])
        /\ c.notified = open[i].notified /\ c.newest \in 0..filed /\ c.due \in Nat \ {0}
    <3>1. PICK o : o = open[i]
      OBVIOUS
    <3>2. IsIncident(o) /\ o.due \in Nat /\ o.newest \in 0..filed /\ c = Enqueue(o, queue[1])
      BY <2>2, <3>1
    <3> HIDE DEF c
    <3>3. /\ IsIncident(c) /\ c.pending = Append(o.pending, queue[1]) /\ c.due \in Nat \ {0}
          /\ c.notified = o.notified /\ c.newest = o.newest
      BY <2>3, <3>2, EnqueueHolds
    <3> QED BY <3>1, <3>2, <3>3
  <2> HIDE DEF c
  <2>5. InOrder' /\ OpenOK' /\ \A j \in DOMAIN open' : IsIncident(open'[j])
    BY <1>3, <1>5, <1>6, <2>1, <2>4, HoldInOrder
  <2> QED BY <1>1, <1>3, <1>4, <2>1, <2>5, BatchesEmpty DEF After
<1>7. CASE i \notin Kept
  <2> DEFINE u == i # 0
             e == Batch(i, u, <<queue[1]>>)
  <2>1. open' = [j \in Kept |-> open[j]] /\ ready' = Append(ready, e)
    BY <1>7 DEF AddResolved
  <2>2. /\ DOMAIN open' \subseteq DOMAIN open /\ i \notin DOMAIN open'
        /\ \A j \in DOMAIN open' : open'[j] = open[j]
        /\ \A j \in DOMAIN open : j \in DOMAIN open' \/ open[j].pending = <<>>
    BY <1>1, <1>7, <2>1
  <2>3. i \in DOMAIN open => open[i].pending = <<>>
    BY <1>1, <1>7
  <2>4. BegunIn(delivered, Line, i)
    BY <1>2, <2>3, LiveHasBegun
  <2>5. u \in BOOLEAN /\ (u <=> i # 0 /\ BegunIn(delivered, Line, i))
    BY <2>4
  <2>6. Files(Off, queue, byKey, Item(queue[1], i), byKey')
    <3>1. Off = FALSE
      BY DEF Off
    <3> QED BY <1>5, <3>1
  <2>7. e = Batch(i, u, <<queue[1]>>)
    OBVIOUS
  <2> HIDE DEF u, e
  <2>8. InOrder' /\ BatchesOK(handing') /\ BatchesOK(ready')
    BY <1>2, <1>3, <2>1, <2>2, <2>5, <2>6, <2>7, AddInOrder
  <2>9. OpenOK' /\ \A j \in DOMAIN open' : IsIncident(open'[j])
    BY <1>3, <2>2, OpenShrinks
  <2> QED BY <1>1, <1>3, <1>4, <2>8, <2>9 DEF After
<1> QED BY <1>6, <1>7

(* A firing alert: its incident, open or new, holds it back.               *)
LEMMA ReceiveFiring ==
    ASSUME IInv, handing = <<>>, ready = <<>>, queue # <<>>, ~Off, queue[1].kind = "firing",
           AddFiring(queue[1]), queue' = Tail(queue),
           UNCHANGED <<enabled, filed, episode, batches, group, delivered, handing>>
    PROVE  After
<1> DEFINE i == JoinedBy(queue[1].key)
           c == IF i \in Kept THEN open[i] ELSE NewIncident
           r == Enqueue(Noted(c, queue[1]), queue[1])
<1>1. /\ nextID \in Nat /\ filed \in Nat /\ now \in Nat \ {0} /\ DOMAIN open \subseteq 1..nextID
      /\ byKey \in [Keys -> 0..nextID] /\ Kept \subseteq DOMAIN open
      /\ \A j \in DOMAIN open : IsIncident(open[j]) /\ open[j].due \in Nat
  BY DEF IInv, Scalars, OpenOK, Shapes, Kept
<1>2. i \in Kept \/ (i = nextID + 1 /\ i \notin Kept)
  BY JoinedIs
<1>3. /\ nextID' = IF i \in Kept THEN nextID ELSE nextID + 1
      /\ open' = WithOpen(i, r)
      /\ byKey' = IF queue[1].key \in Keys THEN [byKey EXCEPT ![queue[1].key] = i] ELSE byKey
      /\ ready' = ready
  BY DEF AddFiring, Noted
<1>4. IsIncident(c) /\ c.due \in Nat
  BY <1>1, NewIs
<1>5. now + GroupWait \in Nat \ {0}
  BY <1>1, IncidentAssumption
<1>6. /\ IsIncident(r) /\ r.pending = Append(c.pending, queue[1]) /\ r.notified = c.notified
      /\ r.newest \in 0..filed /\ r.due \in Nat \ {0}
  <2>1. queue[1].n \in 0..filed
    BY <1>1, HeadOfQueue
  <2>2. IsIncident(Noted(c, queue[1])) /\ Noted(c, queue[1]).pending = c.pending
        /\ Noted(c, queue[1]).due = c.due /\ Noted(c, queue[1]).notified = c.notified
        /\ Noted(c, queue[1]).newest = queue[1].n
    BY <1>4, NotedIs
  <2>3. PICK o : o = Noted(c, queue[1])
    OBVIOUS
  <2>4. IsIncident(o) /\ o.due \in Nat /\ r = Enqueue(o, queue[1])
    BY <1>4, <2>2, <2>3
  <2> HIDE DEF r
  <2>5. /\ IsIncident(r) /\ r.pending = Append(o.pending, queue[1]) /\ r.due \in Nat \ {0}
        /\ r.notified = o.notified /\ r.newest = o.newest
    BY <1>5, <2>4, EnqueueHolds
  <2> HIDE DEF c
  <2> QED BY <2>1, <2>2, <2>3, <2>5
<1>7. \/ i \in Kept /\ r.pending = Append(open[i].pending, queue[1]) /\ r.notified = open[i].notified
      \/ /\ i = nextID + 1 /\ i \notin Kept
         /\ r.pending = Append(<<>>, queue[1]) /\ r.notified = FALSE
  BY <1>2, <1>6, NewIs
<1>8. nextID' \in Nat /\ i # 0 /\ i \in 0..nextID' /\ nextID <= nextID'
  BY <1>1, <1>2, <1>3
<1>9. byKey' \in [Keys -> 0..nextID']
  <2>1. 0..nextID \subseteq 0..nextID'
    BY <1>1, <1>8
  <2>2. byKey \in [Keys -> 0..nextID']
    BY <1>1, <2>1
  <2> HIDE DEF i
  <2> QED BY <1>3, <1>8, <2>2
<1>10. Files(FALSE, queue, byKey, Item(queue[1], i), byKey')
  <2> HIDE DEF i
  <2>1. queue[1].key \in Keys =>
           \A k \in Keys : byKey'[k] = IF k = queue[1].key THEN i ELSE byKey[k]
    BY <1>1, <1>3
  <2>2. queue[1].key \notin Keys => byKey' = byKey
    BY <1>3
  <2> QED BY <1>8, <2>1, <2>2, ItemOf DEF Files
<1> HIDE DEF i, r
<1>11. InOrder' /\ OpenOK' /\ \A j \in DOMAIN open' : IsIncident(open'[j])
  BY <1>3, <1>6, <1>7, <1>10, HoldInOrder
<1> QED BY <1>3, <1>8, <1>9, <1>11, BatchesEmpty DEF After

(* Receive, whatever the alert is.                                         *)
LEMMA ReceiveInOrder ==
    ASSUME IInv, Receive
    PROVE  After
<1>1. /\ pc = "select" /\ handing = <<>> /\ queue # <<>> /\ queue' = Tail(queue)
      /\ UNCHANGED <<now, world, batches, deliverer, delivered>>
  BY DEF Receive
<1>2. ready = <<>>
  BY <1>1 DEF IInv, Stages
<1>3. UNCHANGED <<enabled, filed, episode, batches, group, delivered>>
  BY <1>1 DEF world, deliverer
<1>4. Head(queue) = queue[1] /\ queue[1].kind \in {"firing", "resolved"}
  BY <1>1, HeadOfQueue
<1>5. CASE queue[1].silenced
  <2>1. handing' = <<Batch(0, FALSE, <<queue[1]>>)>> /\ UNCHANGED grouper
    BY <1>4, <1>5 DEF Receive
  <2> QED BY <1>1, <1>2, <1>3, <1>5, <2>1, ReceiveAlone DEF grouper
<1>6. CASE ~queue[1].silenced
  <2>1. Add(queue[1]) /\ UNCHANGED handing
    BY <1>4, <1>6 DEF Receive
  <2>2. CASE Off
    <3>1. ready' = Append(ready, Batch(0, FALSE, <<queue[1]>>)) /\ UNCHANGED <<nextID, open, byKey>>
      BY <2>1, <2>2 DEF Add, Off
    <3> QED BY <1>1, <1>2, <1>3, <2>1, <2>2, <3>1, ReceiveAlone
  <2>3. CASE ~Off /\ queue[1].kind = "resolved"
    <3>1. AddResolved(queue[1])
      BY <2>1, <2>3 DEF Add, Off
    <3> QED BY <1>1, <1>2, <1>3, <2>1, <2>3, <3>1, ReceiveResolved
  <2>4. CASE ~Off /\ queue[1].kind = "firing"
    <3>1. AddFiring(queue[1])
      BY <2>1, <2>4 DEF Add, Off
    <3> QED BY <1>1, <1>2, <1>3, <2>1, <2>4, <3>1, ReceiveFiring
  <2> QED BY <1>4, <2>2, <2>3, <2>4
<1> QED BY <1>5, <1>6

-----------------------------------------------------------------------------
(***************************************************************************)
(* The steps.                                                              *)
(***************************************************************************)
(* The invariant's parts, and what a step must do to each.                 *)
LEMMA Parts == IInv <=> Shapes /\ Scalars /\ OpenOK /\ Stages /\ InOrder
BY DEF IInv

(* A step that moves no alert keeps them in order.                         *)
LEMMA SameOrder ==
    ASSUME IInv, UNCHANGED <<enabled, filed, episode, queue, nextID, byKey, delivered>>,
           Line' = Line, DOMAIN open' \subseteq DOMAIN open,
           \A i \in DOMAIN open' : open'[i].notified = open[i].notified
                                   /\ open'[i].pending = open[i].pending,
           \A i \in DOMAIN open : i \in DOMAIN open' \/ open[i].pending = <<>>
    PROVE  InOrder'
<1>1. Waiting' = Waiting
  <2>1. \A j \in Nat : (IF j \in DOMAIN open' THEN open'[j].pending ELSE <<>>)
                       = (IF j \in DOMAIN open THEN open[j].pending ELSE <<>>)
    OBVIOUS
  <2> QED BY <2>1 DEF Waiting
<1>2. Tidy(Off, delivered, Line, Waiting, open, filed, nextID, queue, byKey, episode)
  BY DEF IInv, InOrder
<1>3. Tidy(Off, delivered, Line, Waiting, open', filed, nextID, queue, byKey, episode)
  BY <1>2, TidySame
<1>4. Off' = Off
  BY DEF Off
<1> QED BY <1>1, <1>3, <1>4 DEF InOrder

(* The parts of the invariant that a step leaves alone.                    *)
LEMMA SameScalars ==
    ASSUME Scalars, UNCHANGED <<now, phase, enabled, filed, episode, nextID, byKey>>
    PROVE  Scalars'
BY DEF Scalars

LEMMA SameOpen ==
    ASSUME OpenOK, UNCHANGED <<nextID, open, filed>>
    PROVE  OpenOK'
BY DEF OpenOK

LEMMA SameLine ==
    ASSUME UNCHANGED <<group, batches, handing, ready>>
    PROVE  Line' = Line
BY DEF Line

(* Tick, Wake and Close.                                                   *)
LEMMA IdleStep ==
    ASSUME IInv, UNCHANGED <<enabled, filed, episode, queue, nextID, open, byKey, ready, handing,
                             batches, worker, group, delivered>>,
           \/ now' \in {now, now + 1} /\ UNCHANGED <<phase, pc>>
           \/ pc' = "due" /\ UNCHANGED <<now, phase>>
           \/ phase' = "closed" /\ UNCHANGED <<now, pc>>
    PROVE  IInv'
<1>1. InOrder'
  BY SameOrder, SameLine
<1>2. Shapes' /\ OpenOK'
  BY SameOpen DEF IInv, Shapes
<1>3. Scalars'
  <2>1. now' \in Nat \ {0} /\ phase' \in {"run", "closed"}
    BY DEF IInv, Scalars
  <2> QED BY <2>1 DEF IInv, Scalars
<1>4. Stages'
  BY DEF IInv, Stages
<1> QED BY <1>1, <1>2, <1>3, <1>4 DEF IInv

(* Receive.                                                                *)
LEMMA ReceiveStep ==
    ASSUME IInv, Receive
    PROVE  IInv'
<1>1. After
  BY ReceiveInOrder
<1>2. pc' = "due" /\ UNCHANGED <<now, phase, enabled, filed, episode, batches, worker, group>>
  BY DEF Receive, world, deliverer
<1>3. Shapes'
  BY <1>1, <1>2 DEF After, IInv, Shapes
<1>4. Scalars'
  BY <1>1, <1>2 DEF After, IInv, Scalars
<1>5. Stages'
  BY <1>1, <1>2 DEF After, IInv, Stages, Off
<1> QED BY <1>1, <1>3, <1>4, <1>5 DEF After, IInv

(* Due and Flush.                                                          *)
LEMMA TakeStep ==
    ASSUME IInv, handing = <<>>, NEW D, D \subseteq Pending, Take(D),
           UNCHANGED <<now, phase, enabled, filed, episode, queue, batches, worker, group,
                       delivered>>,
           \/ pc' = "select"
           \/ pc' = "done" /\ phase = "closed" /\ queue = <<>> /\ D = Pending
    PROVE  IInv'
<1>1. /\ InOrder' /\ BatchesOK(handing') /\ ready' = <<>> /\ DOMAIN open' = DOMAIN open
      /\ \A i \in DOMAIN open : open'[i] = IF i \in D THEN Taken(open[i]) ELSE open[i]
      /\ UNCHANGED <<nextID, byKey>>
  BY TakeInOrder
<1>2. Shapes /\ Scalars /\ OpenOK /\ Stages
  BY DEF IInv
<1>3. ASSUME NEW i \in DOMAIN open
      PROVE  /\ IsIncident(open'[i]) /\ open'[i].pending \in Seq(Issue)
             /\ open'[i].due \in Nat /\ (open'[i].due = 0 <=> open'[i].pending = <<>>)
             /\ open'[i].newest \in 0..filed /\ open'[i].notified \in BOOLEAN
             /\ i \in D => open'[i].pending = <<>>
  <2>1. /\ IsIncident(open[i]) /\ open[i].pending \in Seq(Issue)
        /\ open[i].due \in Nat /\ (open[i].due = 0 <=> open[i].pending = <<>>)
        /\ open[i].newest \in 0..filed /\ open[i].notified \in BOOLEAN
    BY <1>2 DEF Shapes, OpenOK
  <2>2. CASE i \in D
    <3>1. open'[i] = Taken(open[i])
      BY <1>1, <2>2
    <3>2. /\ IsIncident(open'[i]) /\ open'[i].pending = <<>> /\ open'[i].due = 0
          /\ open'[i].notified = TRUE /\ open'[i].newest = open[i].newest
      BY <2>1, <3>1, TakenIs
    <3>3. <<>> \in Seq(Issue)
      OBVIOUS
    <3>4. open'[i].pending \in Seq(Issue)
      BY <3>2, <3>3
    <3>5. open'[i].due \in Nat /\ (open'[i].due = 0 <=> open'[i].pending = <<>>)
      BY <3>2
    <3>6. open'[i].newest \in 0..filed /\ open'[i].notified \in BOOLEAN
      BY <2>1, <3>2
    <3>7. IsIncident(open'[i]) /\ open'[i].pending = <<>>
      BY <3>2
    <3> QED BY <3>4, <3>5, <3>6, <3>7
  <2>3. CASE i \notin D
    <3>1. open'[i] = open[i]
      BY <1>1, <2>3
    <3> QED BY <2>1, <2>3, <3>1
  <2> QED BY <2>2, <2>3
<1>4. OpenOK'
  BY <1>1, <1>2, <1>3 DEF OpenOK
<1>5. Shapes'
  BY <1>1, <1>2, <1>3, BatchesEmpty DEF Shapes
<1>6. Scalars'
  BY <1>1, <1>2 DEF Scalars
<1>7. Stages'
  <2>1. ASSUME pc' = "done", NEW i \in DOMAIN open'
        PROVE  open'[i].pending = <<>>
    <3>1. D = Pending
      BY <2>1
    <3>2. CASE i \in D
      BY <1>1, <1>3, <3>2
    <3>3. CASE i \notin D
      <4>1. open[i].due = 0 /\ open'[i] = open[i]
        BY <1>1, <3>1, <3>3 DEF Pending
      <4> QED BY <1>1, <1>2, <4>1 DEF OpenOK
    <3> QED BY <3>2, <3>3
  <2> QED BY <1>1, <1>2, <2>1 DEF Stages
<1> QED BY <1>1, <1>4, <1>5, <1>6, <1>7 DEF IInv

(* Hand, Fetch and Analyze: the line stays as it is.                       *)
LEMMA MoveStep ==
    ASSUME IInv, UNCHANGED <<now, phase, enabled, filed, episode, queue, nextID, open, byKey,
                             ready, pc, delivered>>,
           Line' = Line, BatchesOK(group'), BatchesOK(batches'), BatchesOK(handing'),
           worker' = "send" => group' # <<>>
    PROVE  IInv'
<1>1. InOrder'
  BY SameOrder
<1>2. Shapes' /\ OpenOK' /\ Scalars'
  BY SameOpen, SameScalars DEF IInv, Shapes
<1>3. Stages'
  BY DEF IInv, Stages
<1> QED BY <1>1, <1>2, <1>3 DEF IInv

(* Hand.                                                                   *)
LEMMA HandKeeps ==
    ASSUME IInv, Hand
    PROVE  Line' = Line
<1>1. handing # <<>> /\ batches' = Append(batches, Head(handing)) /\ handing' = Tail(handing)
      /\ UNCHANGED <<ready, group>>
  BY DEF Hand, grouper, deliverer
<1>2. Four(group, batches, handing, ready)
  BY FourIs DEF IInv
<1>3. LineOf(group, Append(batches, Head(handing)), Tail(handing), ready)
      = LineOf(group, batches, handing, ready)
  BY <1>1, <1>2, HandLine
<1> QED BY <1>1, <1>3 DEF Line

LEMMA HandStep ==
    ASSUME IInv, Hand
    PROVE  IInv'
<1>1. /\ handing # <<>> /\ batches' = Append(batches, Head(handing)) /\ handing' = Tail(handing)
      /\ UNCHANGED <<now, phase, enabled, filed, episode, queue, nextID, open, byKey,
                     ready, pc, worker, group, delivered>>
  BY DEF Hand, world, grouper, deliverer
<1>2. Shapes /\ (worker = "send" => group # <<>>)
  BY DEF IInv, Stages
<1>3. BatchesOK(handing') /\ BatchesOK(batches') /\ BatchesOK(group')
  BY <1>1, <1>2, BatchesTail, BatchesAppend DEF Shapes
<1> QED BY <1>1, <1>2, <1>3, HandKeeps, MoveStep

(* Fetch.                                                                  *)
LEMMA FetchKeeps ==
    ASSUME IInv, Fetch
    PROVE  Line' = Line
<1>1. batches # <<>> /\ group' = Append(group, Head(batches)) /\ batches' = Tail(batches)
      /\ UNCHANGED <<ready, handing>>
  BY DEF Fetch, grouper
<1>2. Four(group, batches, handing, ready)
  BY FourIs DEF IInv
<1>3. LineOf(Append(group, Head(batches)), Tail(batches), handing, ready)
      = LineOf(group, batches, handing, ready)
  BY <1>1, <1>2, FetchLine
<1> QED BY <1>1, <1>3 DEF Line

LEMMA FetchStep ==
    ASSUME IInv, Fetch
    PROVE  IInv'
<1>1. /\ batches # <<>> /\ group' = Append(group, Head(batches)) /\ batches' = Tail(batches)
      /\ worker = "drain"
      /\ UNCHANGED <<now, phase, enabled, filed, episode, queue, nextID, open, byKey,
                     ready, pc, handing, worker, delivered>>
  BY DEF Fetch, world, grouper
<1>2. Shapes
  BY DEF IInv
<1>3. BatchesOK(handing') /\ BatchesOK(batches') /\ BatchesOK(group')
  BY <1>1, <1>2, BatchesTail, BatchesAppend DEF Shapes
<1> QED BY <1>1, <1>3, FetchKeeps, MoveStep

(* A summary changes nothing else of a batch.                              *)
LEMMA SummedIs ==
    ASSUME NEW b, IsBatch(b), NEW x
    PROVE  /\ IsBatch([b EXCEPT !.summary = x]) /\ Core([b EXCEPT !.summary = x]) = Core(b)
<1>1. b = [id |-> b.id, update |-> b.update, alerts |-> b.alerts,
           earlier |-> b.earlier, prev |-> b.prev, summary |-> b.summary]
  BY DEF IsBatch
<1>2. [b EXCEPT !.summary = x] = [id |-> b.id, update |-> b.update, alerts |-> b.alerts,
           earlier |-> b.earlier, prev |-> b.prev, summary |-> x]
  BY <1>1
<1> QED BY <1>2 DEF IsBatch, Core

(* Analyze.                                                                *)
LEMMA AnalyzeKeeps ==
    ASSUME IInv, Analyze
    PROVE  Line' = Line /\ BatchesOK(group') /\ group' # <<>>
<1>1. /\ group # <<>>
      /\ UNCHANGED <<now, phase, enabled, filed, episode, queue, nextID, open, byKey,
                     ready, pc, handing, batches, delivered>>
  BY DEF Analyze, Analyzing, world, grouper
<1>2. Shapes
  BY DEF IInv
<1>3. IsSeq(group) /\ Len(group) \in Nat \ {0} /\ DOMAIN group = 1..Len(group)
  <2>1. IsSeq(group)
    BY <1>2 DEF Shapes, BatchesOK
  <2>2. Len(group) \in Nat /\ DOMAIN group = 1..Len(group) /\ (group = <<>> <=> Len(group) = 0)
    BY <2>1, IsSeqLen
  <2> QED BY <1>1, <2>1, <2>2
<1>4. PICK done : group' = [i \in DOMAIN group |->
                      IF i \in done
                      THEN [group[i] EXCEPT !.summary = FiringNumbers(group[i].alerts)[1]]
                      ELSE group[i]]
  BY DEF Analyze
<1>5. group' = [i \in 1..Len(group) |-> group'[i]]
  BY <1>3, <1>4
<1>6. IsSeq(group') /\ Len(group') = Len(group)
  BY <1>3, <1>5, FunctionIs
<1>7. ASSUME NEW i \in 1..Len(group)
      PROVE  IsBatch(group'[i]) /\ Core(group'[i]) = Core(group[i])
  <2>1. IsBatch(group[i])
    BY <1>2, <1>3 DEF Shapes, BatchesOK
  <2>2. PICK x : group'[i] = [group[i] EXCEPT !.summary = x] \/ group'[i] = group[i]
    BY <1>3, <1>4
  <2>3. CASE group'[i] = group[i]
    BY <2>1, <2>3
  <2>4. CASE group'[i] = [group[i] EXCEPT !.summary = x]
    <3>1. IsBatch([group[i] EXCEPT !.summary = x])
          /\ Core([group[i] EXCEPT !.summary = x]) = Core(group[i])
      BY <2>1, SummedIs
    <3> QED BY <2>4, <3>1
  <2> QED BY <2>2, <2>3, <2>4
<1>8. BatchesOK(group') /\ group' # <<>>
  <2>1. DOMAIN group' = 1..Len(group') /\ (group' = <<>> <=> Len(group') = 0)
    BY <1>6, IsSeqLen
  <2> QED BY <1>3, <1>6, <1>7, <2>1 DEF BatchesOK
<1>9. Line' = Line
  <2>1. LineOf(group', batches, handing, ready) = LineOf(group, batches, handing, ready)
    <3>1. Four(group, batches, handing, ready)
      BY <1>2, FourIs
    <3>2. PICK gg : gg = group'
      OBVIOUS
    <3>3. IsSeq(gg) /\ Len(gg) = Len(group) /\ \A i \in 1..Len(group) : Core(gg[i]) = Core(group[i])
      BY <1>6, <1>7, <3>2
    <3> QED BY <3>1, <3>2, <3>3, AnalyzeLine
  <2> QED BY <1>1, <2>1 DEF Line
<1> QED BY <1>8, <1>9

LEMMA AnalyzeStep ==
    ASSUME IInv, Analyze
    PROVE  IInv'
<1>1. UNCHANGED <<now, phase, enabled, filed, episode, queue, nextID, open, byKey, ready, pc,
                  handing, batches, delivered>>
  BY DEF Analyze, world, grouper
<1>2. BatchesOK(batches') /\ BatchesOK(handing')
  BY <1>1 DEF IInv, Shapes
<1> QED BY <1>1, <1>2, AnalyzeKeeps, MoveStep

(* A function on 1..n into S is a sequence over S.                         *)
LEMMA IsInSeq ==
    ASSUME NEW S, NEW n \in Nat, NEW f \in [1..n -> S]
    PROVE  f \in Seq(S) /\ Len(f) = n
<1>1. f \in Seq(S)
  BY SeqDef
<1> QED BY <1>1, LenProperties

(* The alerts of a batch, as the receivers see them.                       *)
LEMMA TaggedIs ==
    ASSUME NEW b, b.id \in Nat, b.alerts \in Seq(Issue)
    PROVE  /\ Tagged(b) \in Seq([alert : Issue, id : Nat]) /\ Len(Tagged(b)) = Len(b.alerts)
           /\ Len(b.alerts) \in Nat
           /\ \A x \in 1..Len(b.alerts) : Tagged(b)[x] = Item(b.alerts[x], b.id)
<1>1. Len(b.alerts) \in Nat /\ \A x \in 1..Len(b.alerts) : b.alerts[x] \in Issue
  OBVIOUS
<1>2. Tagged(b) = [i \in 1..Len(b.alerts) |-> [alert |-> b.alerts[i], id |-> b.id]]
  BY DEF Tagged
<1>3. \A x \in 1..Len(b.alerts) : [alert |-> b.alerts[x], id |-> b.id] \in [alert : Issue, id : Nat]
  BY <1>1
<1>4. Tagged(b) \in [1..Len(b.alerts) -> [alert : Issue, id : Nat]]
  BY <1>2, <1>3
<1>5. Tagged(b) \in Seq([alert : Issue, id : Nat]) /\ Len(Tagged(b)) = Len(b.alerts)
  <2>1. ASSUME NEW S, Tagged(b) \in [1..Len(b.alerts) -> S]
        PROVE  Tagged(b) \in Seq(S) /\ Len(Tagged(b)) = Len(b.alerts)
    BY <1>1, <2>1, IsInSeq
  <2> QED BY <1>4, <2>1
<1>6. \A x \in 1..Len(b.alerts) : Tagged(b)[x] = Item(b.alerts[x], b.id)
  BY <1>2 DEF Item
<1> QED BY <1>1, <1>5, <1>6

(* SetSummary changes nothing else of an incident.                         *)
LEMMA SummaryIs ==
    ASSUME NEW i, NEW x, SetSummary(i, x), \A j \in DOMAIN open : IsIncident(open[j])
    PROVE  /\ DOMAIN open' = DOMAIN open
           /\ \A j \in DOMAIN open :
                 /\ IsIncident(open'[j]) /\ open'[j].pending = open[j].pending
                 /\ open'[j].due = open[j].due /\ open'[j].newest = open[j].newest
                 /\ open'[j].notified = open[j].notified
<1>1. CASE open' = open
  BY <1>1
<1>2. CASE i \in DOMAIN open /\ open' = [open EXCEPT ![i].summary = x]
  <2>1. DOMAIN open' = DOMAIN open
    BY <1>2
  <2>2. ASSUME NEW j \in DOMAIN open
        PROVE  /\ IsIncident(open'[j]) /\ open'[j].pending = open[j].pending
               /\ open'[j].due = open[j].due /\ open'[j].newest = open[j].newest
               /\ open'[j].notified = open[j].notified
    <3>1. CASE j # i
      <4>1. open'[j] = open[j]
        BY <1>2, <3>1
      <4> QED BY <4>1
    <3>2. CASE j = i
      <4>1. open'[j] = [open[j] EXCEPT !.summary = x]
        BY <1>2, <3>2
      <4>2. open[j] = [subjects |-> open[j].subjects, hasHost |-> open[j].hasHost, last |-> open[j].last,
           newest |-> open[j].newest, notified |-> open[j].notified, pending |-> open[j].pending,
           due |-> open[j].due, earlier |-> open[j].earlier, summary |-> open[j].summary]
        BY DEF IsIncident
      <4>3. PICK c : c = open[j]
        OBVIOUS
      <4>4. c = [subjects |-> c.subjects, hasHost |-> c.hasHost, last |-> c.last,
           newest |-> c.newest, notified |-> c.notified, pending |-> c.pending,
           due |-> c.due, earlier |-> c.earlier, summary |-> c.summary]
        BY <4>2, <4>3
      <4>5. [c EXCEPT !.summary = x] = [subjects |-> c.subjects, hasHost |-> c.hasHost, last |-> c.last,
           newest |-> c.newest, notified |-> c.notified, pending |-> c.pending,
           due |-> c.due, earlier |-> c.earlier, summary |-> x]
        BY <4>4
      <4>6. open'[j] = [subjects |-> c.subjects, hasHost |-> c.hasHost, last |-> c.last,
           newest |-> c.newest, notified |-> c.notified, pending |-> c.pending,
           due |-> c.due, earlier |-> c.earlier, summary |-> x]
        BY <4>1, <4>3, <4>5
      <4> QED BY <4>3, <4>6 DEF IsIncident
    <3> QED BY <3>1, <3>2
  <2> QED BY <2>1, <2>2
<1> QED BY <1>1, <1>2 DEF SetSummary

(* Send: the oldest batch of the line leaves it.                           *)
LEMMA SendLeaves ==
    ASSUME IInv, Send
    PROVE  /\ group # <<>> /\ Line[1] = Core(Head(group)) /\ 1 \in DOMAIN Line
           /\ BatchesOK(group') /\ (group' = <<>> <=> Len(group) = 1)
           /\ delivered' \in Seq([alert : Issue, id : Nat])
           /\ Total(group, batches, handing, ready) \in Nat \ {0}
           /\ Leaves(Total(group, batches, handing, ready), delivered, Line, delivered', Line')
<1> DEFINE b == Head(group)
           N == Total(group, batches, handing, ready)
<1>1. /\ worker = "send" /\ group' = Tail(group) /\ delivered' = delivered \o Tagged(b)
      /\ UNCHANGED <<ready, handing, batches>>
  BY DEF Send
<1>2. Shapes /\ Scalars /\ OpenOK /\ Stages
  BY DEF IInv
<1>3. group # <<>>
  BY <1>1, <1>2 DEF Stages
<1>4. /\ IsSeq(group) /\ IsSeq(group') /\ Len(group) \in Nat /\ Len(group') = Len(group) - 1
      /\ BatchesOK(group') /\ (group' = <<>> <=> Len(group) = 1)
  <2>1. BatchesOK(group)
    BY <1>2 DEF Shapes
  <2>2. IsSeq(group) /\ BatchesOK(group')
    BY <1>1, <1>3, <2>1, BatchesTail DEF BatchesOK
  <2>3. Len(group) \in Nat /\ Len(group') = Len(group) - 1 /\ IsSeq(group')
    BY <1>1, <1>3, <2>2, TailIs
  <2>4. group' = <<>> <=> Len(group') = 0
    BY <2>3, IsSeqLen
  <2> QED BY <2>2, <2>3, <2>4
<1>5. /\ N \in Nat \ {0} /\ DOMAIN Line = 1..N /\ DOMAIN Line' = 1..N - 1
      /\ \A p \in 1..N - 1 : Line'[p] = Line[p + 1]
      /\ Line[1] = Core(b)
  <2>1. Four(group, batches, handing, ready)
    BY <1>2, FourIs
  <2>2. Line' = LineOf(Tail(group), batches, handing, ready)
    BY <1>1 DEF Line
  <2> QED BY <1>3, <2>1, <2>2, SendLine DEF Line
<1>6. Tidy(Off, delivered, Line, Waiting, open, filed, nextID, queue, byKey, episode)
  BY DEF IInv, InOrder
<1>7. b.id \in Nat /\ b.alerts \in Seq(Issue) /\ Line[1].id = b.id /\ Line[1].alerts = b.alerts
  <2>1. 1 \in DOMAIN Line /\ Line[1].id = b.id /\ Line[1].alerts = b.alerts
    BY <1>5 DEF Core
  <2>2. Line[1].id \in 0..nextID /\ Line[1].alerts \in Seq(Issue)
    BY <1>6, <2>1 DEF Tidy, LineOK
  <2>3. nextID \in Nat
    BY <1>2 DEF Scalars
  <2> QED BY <2>1, <2>2, <2>3
<1>8. /\ Tagged(b) \in Seq([alert : Issue, id : Nat]) /\ Len(Tagged(b)) = Len(b.alerts)
      /\ \A x \in 1..Len(b.alerts) : Tagged(b)[x] = Item(b.alerts[x], b.id)
  BY <1>7, TaggedIs
<1>9. delivered \in Seq([alert : Issue, id : Nat])
  BY <1>6 DEF Tidy, SentOK
<1>10. delivered' \in Seq([alert : Issue, id : Nat])
  BY <1>1, <1>8, <1>9
<1>11. /\ Len(delivered') = Len(delivered) + Len(b.alerts)
       /\ \A k \in 1..Len(delivered) : delivered'[k] = delivered[k]
       /\ \A x \in 1..Len(b.alerts) : delivered'[Len(delivered) + x] = Item(b.alerts[x], b.id)
  <2>1. PICK t : t = Tagged(b)
    OBVIOUS
  <2>2. IsSeq(delivered) /\ IsSeq(t)
    BY <1>8, <1>9, <2>1, SeqIs
  <2>3. /\ Len(delivered \o t) = Len(delivered) + Len(t)
        /\ \A k \in 1..Len(delivered) : (delivered \o t)[k] = delivered[k]
        /\ \A x \in 1..Len(t) : (delivered \o t)[Len(delivered) + x] = t[x]
    BY <2>2, ConcatIs
  <2>4. PICK dd : dd = delivered \o t
    OBVIOUS
  <2>5. dd = delivered'
    BY <1>1, <2>1, <2>4
  <2>6. /\ Len(dd) = Len(delivered) + Len(t)
        /\ \A k \in 1..Len(delivered) : dd[k] = delivered[k]
        /\ \A x \in 1..Len(t) : dd[Len(delivered) + x] = t[x]
    BY <2>3, <2>4
  <2>7. Len(t) = Len(b.alerts) /\ \A x \in 1..Len(b.alerts) : t[x] = Item(b.alerts[x], b.id)
    BY <1>8, <2>1
  <2> QED BY <2>5, <2>6, <2>7
<1>12. Leaves(N, delivered, Line, delivered', Line')
  BY <1>5, <1>7, <1>11 DEF Leaves
<1>13. 1 \in DOMAIN Line
  <2> HIDE DEF N
  <2> QED BY <1>5
<1> QED BY <1>3, <1>4, <1>5, <1>10, <1>12, <1>13

LEMMA SendStep ==
    ASSUME IInv, Send
    PROVE  IInv'
<1> DEFINE b == Head(group)
           N == Total(group, batches, handing, ready)
<1>1. /\ SetSummary(b.id, b.summary)
      /\ worker' = IF Len(group) = 1 THEN "drain" ELSE "send"
      /\ UNCHANGED <<now, phase, enabled, filed, episode, queue, nextID, byKey, ready, pc,
                     handing, batches>>
  BY DEF Send, world
<1>2. Shapes /\ Scalars /\ OpenOK /\ Stages
  BY DEF IInv
<1>3. BatchesOK(group') /\ (group' = <<>> <=> Len(group) = 1)
  BY SendLeaves
<1>4. Tidy(Off, delivered, Line, Waiting, open, filed, nextID, queue, byKey, episode)
  BY DEF IInv, InOrder
<1>5. delivered' \in Seq([alert : Issue, id : Nat]) /\ N \in Nat \ {0}
  BY SendLeaves
<1>6. Leaves(N, delivered, Line, delivered', Line')
  BY SendLeaves
<1>7. /\ DOMAIN open' = DOMAIN open
       /\ \A j \in DOMAIN open :
             /\ IsIncident(open'[j]) /\ open'[j].pending = open[j].pending
             /\ open'[j].due = open[j].due /\ open'[j].newest = open[j].newest
             /\ open'[j].notified = open[j].notified
  BY <1>1, <1>2, SummaryIs DEF Shapes
<1>8. Tidy(Off, delivered', Line', Waiting, open', filed, nextID, queue, byKey, episode)
  <2> HIDE DEF N
  <2> QED BY <1>4, <1>5, <1>6, <1>7, TidySend
<1>9. InOrder'
  <2>1. Off' = Off
    BY <1>1 DEF Off
  <2>2. Waiting' = Waiting
    <3>1. \A j \in Nat : (IF j \in DOMAIN open' THEN open'[j].pending ELSE <<>>)
                         = (IF j \in DOMAIN open THEN open[j].pending ELSE <<>>)
      BY <1>7
    <3> QED BY <3>1 DEF Waiting
  <2> QED BY <1>1, <1>8, <2>1, <2>2 DEF InOrder
<1>10. Shapes'
  BY <1>1, <1>2, <1>3, <1>7 DEF Shapes
<1>11. Scalars'
  BY <1>1, <1>2, SameScalars
<1>12. OpenOK'
  <2>1. DOMAIN open' \subseteq 1..nextID'
    BY <1>1, <1>2, <1>7 DEF OpenOK
  <2>2. ASSUME NEW j \in DOMAIN open'
        PROVE  /\ open'[j].pending \in Seq(Issue)
               /\ open'[j].due \in Nat /\ (open'[j].due = 0 <=> open'[j].pending = <<>>)
               /\ open'[j].newest \in 0..filed' /\ open'[j].notified \in BOOLEAN
    <3>1. /\ open[j].pending \in Seq(Issue)
          /\ open[j].due \in Nat /\ (open[j].due = 0 <=> open[j].pending = <<>>)
          /\ open[j].newest \in 0..filed /\ open[j].notified \in BOOLEAN
      BY <1>2, <1>7 DEF OpenOK
    <3>2. /\ open'[j].pending = open[j].pending
          /\ open'[j].due = open[j].due /\ open'[j].newest = open[j].newest
          /\ open'[j].notified = open[j].notified /\ filed' = filed
      BY <1>1, <1>7
    <3> QED BY <3>1, <3>2
  <2> QED BY <2>1, <2>2 DEF OpenOK
<1>13. Stages'
  <2>1. worker' = "send" => group' # <<>>
    BY <1>1, <1>3
  <2>2. ASSUME pc = "done"
        PROVE  \A i \in DOMAIN open' : open'[i].pending = <<>>
    BY <1>2, <1>7, <2>2 DEF Stages
  <2> QED BY <1>1, <1>2, <1>7, <2>1, <2>2 DEF Stages
<1> QED BY <1>9, <1>10, <1>11, <1>12, <1>13 DEF IInv

(* Restart: nothing is held back, so no alert is lost.                     *)
LEMMA RestartStep ==
    ASSUME IInv, Restart
    PROVE  IInv'
<1>1. /\ phase' = "run" /\ pc = "done" /\ pc' = "select" /\ open' = <<>> /\ ready' = <<>>
      /\ UNCHANGED <<now, enabled, filed, episode, queue, nextID, byKey, handing, batches,
                     worker, group, delivered>>
  BY DEF Restart, Delivered, deliverer
<1>2. Shapes /\ Scalars /\ OpenOK /\ Stages
  BY DEF IInv
<1>3. ready = <<>> /\ \A i \in DOMAIN open : open[i].pending = <<>>
  BY <1>1, <1>2 DEF Stages
<1>4. DOMAIN open' = {}
  <2>1. DOMAIN <<>> = 1..Len(<<>>) /\ Len(<<>>) = 0
    BY EmptyIs, IsSeqLen
  <2> QED BY <1>1, <2>1
<1>5. Line' = Line
  BY <1>1, <1>3, SameLine
<1>6. InOrder'
  BY <1>1, <1>3, <1>4, <1>5, SameOrder
<1>7. Shapes' /\ Scalars' /\ OpenOK' /\ Stages'
  BY <1>1, <1>2, <1>4, BatchesEmpty DEF Shapes, Scalars, OpenOK, Stages
<1> QED BY <1>6, <1>7 DEF IInv

(* Raise, Resolve and OneOff.                                              *)
LEMMA FileStep ==
    ASSUME IInv, NEW s \in Sources, NEW kind \in {"firing", "resolved"}, NEW silenced \in BOOLEAN,
           File(s, kind, silenced),
           kind = "resolved" => s \in Keys /\ episode[s] > 0,
           s \in Keys => ~silenced,
           episode' \in [Keys -> 0..2],
           \A k \in Keys : episode'[k] > 0 =>
              \/ s = k /\ kind = "firing"
              \/ episode[k] > 0 /\ ~(s = k /\ kind = "resolved")
    PROVE  IInv'
<1> DEFINE a == [n |-> filed + 1, key |-> s, kind |-> kind, silenced |-> silenced]
<1>1. /\ phase = "run" /\ filed' = filed + 1 /\ queue' = Append(queue, a)
      /\ UNCHANGED <<now, phase, enabled, nextID, open, byKey, ready, pc, handing, batches,
                     worker, group, delivered>>
  BY DEF File, grouper, deliverer
<1>2. Shapes /\ Scalars /\ OpenOK /\ Stages
  BY DEF IInv
<1>3. filed \in Nat /\ nextID \in Nat /\ Off \in BOOLEAN
  BY <1>2 DEF Scalars, Off
<1>4. a \in Issue /\ a.n = filed + 1 /\ a.key = s /\ a.kind = kind /\ a.silenced = silenced
  <2>1. filed + 1 \in Nat
    BY <1>3
  <2> QED BY <2>1 DEF Issue
<1> HIDE DEF a
<1>5. Tidy(Off, delivered, Line, Waiting, open, filed, nextID, queue, byKey, episode)
  BY DEF IInv, InOrder
<1>6. \A k \in Keys : episode'[k] > 0 =>
         \/ IsFiring(a, k)
         \/ episode[k] > 0 /\ ~IsResolved(a, k)
  BY <1>4 DEF IsFiring, IsResolved
<1>7. Tidy(Off, delivered, Line, Waiting, open, filed + 1, nextID, Append(queue, a), byKey, episode')
  <2>1. a.kind = "resolved" => a.key \in Keys /\ episode[a.key] > 0
    BY <1>4
  <2>2. a.key \in Keys => ~a.silenced
    BY <1>4
  <2> QED BY <1>3, <1>4, <1>5, <1>6, <2>1, <2>2, TidyFile
<1>8. InOrder'
  <2>1. Off' = Off /\ Line' = Line /\ Waiting' = Waiting
    BY <1>1, SameLine DEF Off, Waiting
  <2> QED BY <1>1, <1>7, <2>1 DEF InOrder
<1>9. Shapes' /\ Scalars'
  BY <1>1, <1>2 DEF Shapes, Scalars
<1>10. OpenOK'
  <2>1. 0..filed \subseteq 0..filed'
    BY <1>1, <1>3
  <2>2. \A i \in DOMAIN open' : open'[i].newest \in 0..filed'
    BY <1>1, <1>2, <2>1 DEF OpenOK
  <2> QED BY <1>1, <1>2, <2>2 DEF OpenOK
<1>11. Stages'
  BY <1>1, <1>2 DEF Stages
<1> QED BY <1>8, <1>9, <1>10, <1>11 DEF IInv

(* Every alert that a loop queues.                                         *)
LEMMA AlertStep ==
    ASSUME IInv, Alerts
    PROVE  IInv'
<1>1. episode \in [Keys -> 0..2] /\ Keys \cap OneOffs = {} /\ Silenceable \subseteq OneOffs
  BY IncidentAssumption DEF IInv, Scalars
<1>2. ASSUME NEW k \in Keys, Raise(k)
      PROVE  IInv'
  <2>1. episode' \in [Keys -> 0..2]
    <3>1. episode[k] \in 0..2 /\ episode[k] < 2 /\ episode' = [episode EXCEPT ![k] = @ + 1]
      BY <1>1, <1>2 DEF Raise
    <3>2. episode[k] + 1 \in 0..2
      BY <3>1
    <3> QED BY <1>1, <3>1, <3>2
  <2>2. \A j \in Keys : j # k => episode'[j] = episode[j]
    BY <1>1, <1>2 DEF Raise
  <2>3. File(k, "firing", FALSE) /\ k \in Sources
    BY <1>2 DEF Raise, Sources
  <2> QED BY <2>1, <2>2, <2>3, FileStep
<1>3. ASSUME NEW k \in Keys, Resolve(k)
      PROVE  IInv'
  <2>1. episode' \in [Keys -> 0..2] /\ episode'[k] = 0 /\ episode[k] > 0
    BY <1>1, <1>3 DEF Resolve
  <2>2. \A j \in Keys : j # k => episode'[j] = episode[j]
    BY <1>1, <1>3 DEF Resolve
  <2>3. File(k, "resolved", FALSE) /\ k \in Sources
    BY <1>3 DEF Resolve, Sources
  <2>4. \A j \in Keys : episode'[j] > 0 =>
              \/ k = j /\ "resolved" = "firing"
              \/ episode[j] > 0 /\ ~(k = j /\ "resolved" = "resolved")
    BY <2>1, <2>2
  <2> QED BY <2>1, <2>3, <2>4, FileStep
<1>4. ASSUME NEW s \in OneOffs, NEW q \in BOOLEAN, OneOff(s, q)
      PROVE  IInv'
  <2>1. File(s, "firing", q) /\ episode' = episode /\ s \in Sources /\ s \notin Keys
    BY <1>1, <1>4 DEF OneOff, Sources
  <2> QED BY <1>1, <2>1, FileStep
<1> QED BY <1>2, <1>3, <1>4 DEF Alerts

-----------------------------------------------------------------------------
(* The invariant holds at the start, and every step keeps it.              *)
LEMMA Initially ==
    ASSUME Init
    PROVE  IInv
<1>1. /\ enabled \in {"on", "off"} /\ now = 1 /\ phase = "run" /\ filed = 0
      /\ episode = [k \in Keys |-> 0] /\ queue = <<>> /\ nextID = 0 /\ open = <<>>
      /\ byKey = [k \in Keys |-> 0] /\ ready = <<>> /\ pc = "select" /\ handing = <<>>
      /\ batches = <<>> /\ worker = "drain" /\ group = <<>> /\ delivered = <<>>
  BY DEF Init
<1>2. DOMAIN open = {}
  <2>1. DOMAIN <<>> = 1..Len(<<>>) /\ Len(<<>>) = 0
    BY EmptyIs, IsSeqLen
  <2> QED BY <1>1, <2>1
<1>3. Shapes /\ Scalars /\ OpenOK /\ Stages
  BY <1>1, <1>2, BatchesEmpty DEF Shapes, Scalars, OpenOK, Stages
<1>4. DOMAIN Line = {} /\ DOMAIN Line = 1..0
  <2>1. Four(group, batches, handing, ready)
    BY <1>3, FourIs
  <2>2. Len(group) = 0 /\ Len(batches) = 0 /\ Len(handing) = 0 /\ Len(ready) = 0
    BY <1>1, EmptyIs
  <2>3. Line = [p \in 1..Total(group, batches, handing, ready) |->
                  Core(PlaceOf(group, batches, handing, ready, p))]
    BY <2>1, LineIs DEF Line
  <2>4. Total(group, batches, handing, ready) = 0
    BY <2>2 DEF Total
  <2> QED BY <2>3, <2>4
<1>5. \A i \in Nat : Waiting[i] = <<>>
  BY <1>2 DEF Waiting
<1>6. 1..Len(delivered) = {} /\ 1..Len(queue) = {} /\ 1..Len(<<>>) = {} /\ Len(queue) = 0
      /\ Len(delivered) = 0
  BY <1>1, EmptyIs
<1>7. \A e : e \notin Items
  BY <1>4, <1>5, <1>6, InItems DEF Items
<1>8. LineOK(Line, nextID) /\ WaitingOK(Waiting)
  <2>1. 0 \in Nat /\ <<>> \in Seq(Issue)
    OBVIOUS
  <2>2. LineOK(Line, nextID)
    BY <1>4, <2>1 DEF LineOK
  <2>3. WaitingOK(Waiting)
    BY <1>5, <2>1 DEF WaitingOK
  <2> QED BY <2>2, <2>3
<1>9. SentOK(delivered, nextID)
  <2>1. delivered \in Seq([alert : Issue, id : Nat])
    BY <1>1
  <2> QED BY <1>6, <2>1 DEF SentOK
<1>10. queue \in Seq(Issue)
  BY <1>1
<1>11. OrderOf(Off, delivered, Line, Waiting)
  BY <1>4, <1>5, <1>6 DEF OrderOf, SentInOrder, SentThenLine, SentThenWaiting, LineInOrder,
     LineThenWaiting, WaitingInOrder, Ascending, AllFit, Under
<1>12. NumberedOf(filed, queue, Items)
  <2>1. 1..filed = {}
    BY <1>1
  <2> QED BY <1>6, <1>7, <2>1 DEF NumberedOf, Ascending
<1>13. EndsOf(Off, Items, byKey, queue, episode)
  BY <1>1, <1>6, <1>7 DEF EndsOf, ResolvedRight, KeysRight, QueueRight, EpisodesRight
<1>14. UpdatesOf(delivered, Line, open)
  BY <1>2, <1>4 DEF UpdatesOf
<1>15. InOrder
  BY <1>8, <1>9, <1>10, <1>11, <1>12, <1>13, <1>14 DEF InOrder, Tidy, Items
<1> QED BY <1>3, <1>15 DEF IInv

LEMMA Stays ==
    ASSUME IInv, [Next]_vars
    PROVE  IInv'
<1>1. CASE Alerts
  BY <1>1, AlertStep
<1>2. CASE Tick
  <2>1. UNCHANGED <<enabled, filed, episode, queue, nextID, open, byKey, ready, handing,
                    batches, worker, group, delivered, phase, pc>> /\ now' = now + 1
    BY <1>2 DEF Tick, world, grouper, deliverer
  <2> QED BY <2>1, IdleStep
<1>3. CASE Wake
  <2>1. UNCHANGED <<enabled, filed, episode, queue, nextID, open, byKey, ready, handing,
                    batches, worker, group, delivered, now, phase>> /\ pc' = "due"
    BY <1>3 DEF Wake, world, grouper, deliverer
  <2> QED BY <2>1, IdleStep
<1>4. CASE Close
  <2>1. UNCHANGED <<enabled, filed, episode, queue, nextID, open, byKey, ready, handing,
                    batches, worker, group, delivered, now, pc>> /\ phase' = "closed"
    BY <1>4 DEF Close, grouper, deliverer
  <2> QED BY <2>1, IdleStep
<1>5. CASE Receive
  BY <1>5, ReceiveStep
<1>6. CASE Due
  <2>1. /\ handing = <<>> /\ Take(DueNow) /\ DueNow \subseteq Pending /\ pc' = "select"
        /\ UNCHANGED <<now, phase, enabled, filed, episode, queue, batches, worker, group, delivered>>
    BY <1>6 DEF Due, DueNow, world, deliverer
  <2> QED BY <2>1, TakeStep
<1>7. CASE Flush
  <2>1. /\ handing = <<>> /\ Take(Pending) /\ pc' = "done" /\ phase = "closed" /\ queue = <<>>
        /\ UNCHANGED <<now, phase, enabled, filed, episode, queue, batches, worker, group, delivered>>
    BY <1>7 DEF Flush, world, deliverer
  <2> QED BY <2>1, TakeStep
<1>8. CASE Hand
  BY <1>8, HandStep
<1>9. CASE Fetch
  BY <1>9, FetchStep
<1>10. CASE Analyze
  BY <1>10, AnalyzeStep
<1>11. CASE Send
  BY <1>11, SendStep
<1>12. CASE Restart
  BY <1>12, RestartStep
<1>13. CASE UNCHANGED vars
  <2>1. UNCHANGED <<enabled, filed, episode, queue, nextID, open, byKey, ready, handing,
                    batches, worker, group, delivered, phase, pc, now>>
    BY <1>13 DEF vars, world, grouper, deliverer
  <2> QED BY <2>1, IdleStep
<1> QED BY <1>1, <1>2, <1>3, <1>4, <1>5, <1>6, <1>7, <1>8, <1>9, <1>10, <1>11, <1>12, <1>13
        DEF Next, Dispatcher, Deliverer

(* The inductive invariant of the dispatcher, the grouper and deliver.     *)
THEOREM Inductive == Spec => []IInv
<1>1. Init => IInv
  BY Initially
<1>2. IInv /\ [Next]_vars => IInv'
  BY Stays
<1> QED BY <1>1, <1>2, PTL DEF Spec

-----------------------------------------------------------------------------
(***************************************************************************)
(* What follows from the invariant.                                        *)
(***************************************************************************)
(* An element of a sequence over S.                                        *)
LEMMA ElementOf ==
    ASSUME NEW S, NEW s \in Seq(S), NEW i \in 1..Len(s)
    PROVE  s[i] \in S
OBVIOUS

(* An alert sent is one the grouper filed.                                 *)
LEMMA SentIsFiled ==
    ASSUME NEW k \in 1..Len(delivered)
    PROVE  delivered[k] \in Items
BY InItems DEF Items

(* An alert that must go before a sent one is sent.                        *)
LEMMA GoesBefore ==
    ASSUME IInv, NEW j \in 1..Len(delivered), NEW f \in Items,
           f.alert.n < delivered[j].alert.n, Rel(Off, delivered[j].id, f.id)
    PROVE  \E i \in 1..(j - 1) : delivered[i] = f
<1>1. OrderOf(Off, delivered, Line, Waiting) /\ delivered \in Seq([alert : Issue, id : Nat])
  BY DEF IInv, InOrder, Tidy, SentOK
<1>2. delivered[j].alert.n \in Nat /\ Len(delivered) \in Nat
  <2>1. delivered[j] \in [alert : Issue, id : Nat]
    BY <1>1, ElementOf
  <2> QED BY <1>1, <2>1 DEF Issue
<1>3. CASE \E i \in 1..Len(delivered) : f = delivered[i]
  <2>1. PICK i \in 1..Len(delivered) : f = delivered[i]
    BY <1>3
  <2>2. delivered[i].alert.n \in Nat
    <3>1. delivered[i] \in [alert : Issue, id : Nat]
      BY <1>1, ElementOf
    <3> QED BY <3>1 DEF Issue
  <2>3. ~(j < i)
    <3>1. ASSUME j < i PROVE Fits(Off, delivered[j].alert, delivered[j].id, delivered[i].alert, delivered[i].id)
      BY <1>1, <3>1 DEF OrderOf, SentInOrder
    <3>2. ASSUME j < i PROVE delivered[j].alert.n < delivered[i].alert.n
      BY <2>1, <3>1, <3>2 DEF Fits
    <3> QED BY <1>2, <2>1, <2>2, <3>2
  <2>4. i # j
    BY <1>2, <2>1
  <2>5. i \in 1..(j - 1)
    BY <1>2, <2>3, <2>4
  <2> QED BY <2>1, <2>5
<1>4. CASE \E p \in DOMAIN Line : \E x \in 1..Len(Line[p].alerts) : f = Item(Line[p].alerts[x], Line[p].id)
  <2>1. PICK p \in DOMAIN Line : \E x \in 1..Len(Line[p].alerts) : f = Item(Line[p].alerts[x], Line[p].id)
    BY <1>4
  <2>2. PICK x \in 1..Len(Line[p].alerts) : f = Item(Line[p].alerts[x], Line[p].id)
    BY <2>1
  <2>3. f.alert = Line[p].alerts[x] /\ f.id = Line[p].id
    BY <2>2, ItemOf
  <2>4. Line[p].alerts \in Seq(Issue)
    BY DEF IInv, InOrder, Tidy, LineOK
  <2>5. Line[p].alerts[x] \in Issue
    BY <2>4
  <2>6. Fits(Off, delivered[j].alert, delivered[j].id, f.alert, f.id)
    BY <1>1, <2>3 DEF OrderOf, SentThenLine, Under
  <2>7. delivered[j].alert.n < f.alert.n /\ f.alert.n \in Nat
    BY <2>3, <2>5, <2>6 DEF Fits, Issue
  <2> QED BY <1>2, <2>7
<1>5. CASE \E i \in Nat : \E x \in 1..Len(Waiting[i]) : f = Item(Waiting[i][x], i)
  <2>1. PICK i \in Nat : \E x \in 1..Len(Waiting[i]) : f = Item(Waiting[i][x], i)
    BY <1>5
  <2>2. PICK x \in 1..Len(Waiting[i]) : f = Item(Waiting[i][x], i)
    BY <2>1
  <2>3. f.alert = Waiting[i][x] /\ f.id = i
    BY <2>2, ItemOf
  <2>4. Waiting[i] \in Seq(Issue)
    BY DEF IInv, InOrder, Tidy, WaitingOK
  <2>5. Waiting[i][x] \in Issue
    BY <2>4
  <2>6. Fits(Off, delivered[j].alert, delivered[j].id, f.alert, f.id)
    BY <1>1, <2>3 DEF OrderOf, SentThenWaiting, Under
  <2>7. delivered[j].alert.n < f.alert.n /\ f.alert.n \in Nat
    BY <2>3, <2>5, <2>6 DEF Fits, Issue
  <2> QED BY <1>2, <2>7
<1> QED BY <1>3, <1>4, <1>5, InItems DEF Items

(* Alerts of one incident go out in the order they were queued, a          *)
(* resolution after the alert it ends and in its incident, and without     *)
(* incidents everything in order: whatever the batches, the blocking       *)
(* hand-over, the flush at shutdown and restarts do.                       *)
THEOREM InTheOrderOfTheQueue == Spec => []DeliveredInOrder
<1>1. IInv => DeliveredInOrder
  <2> SUFFICES ASSUME IInv PROVE DeliveredInOrder
    OBVIOUS
  <2>1. SentInOrder(Off, delivered) /\ ResolvedRight(Off, Items)
    BY DEF IInv, InOrder, Tidy, OrderOf, EndsOf, Items
  <2>2. IncidentOrder
    BY <2>1 DEF IncidentOrder, SentInOrder, Fits, Rel
  <2>3. FirstInFirstOut
    BY <2>1 DEF FirstInFirstOut, SentInOrder, Fits, Rel, Off
  <2>4. EndsWhatWasSent
    <3> SUFFICES ASSUME NEW j \in 1..Len(delivered), delivered[j].alert.kind = "resolved"
                 PROVE  \E i \in 1..(j - 1) :
                           /\ delivered[i].alert.key = delivered[j].alert.key
                           /\ delivered[i].alert.kind = "firing"
                           /\ delivered[i].id = delivered[j].id
      BY DEF EndsWhatWasSent
    <3>1. PICK f \in Items : /\ IsFiring(f.alert, delivered[j].alert.key)
                             /\ f.id = delivered[j].id /\ f.alert.n < delivered[j].alert.n
      BY <2>1, SentIsFiled DEF ResolvedRight
    <3>2. Off \/ delivered[j].id # 0
      BY <2>1, SentIsFiled DEF ResolvedRight
    <3>3. Rel(Off, delivered[j].id, f.id)
      BY <3>1, <3>2 DEF Rel
    <3>4. PICK i \in 1..(j - 1) : delivered[i] = f
      BY <3>1, <3>3, GoesBefore
    <3> QED BY <3>1, <3>4 DEF IsFiring
  <2> QED BY <2>2, <2>3, <2>4 DEF DeliveredInOrder
<1> QED BY <1>1, Inductive, PTL

(* The flag of the batch at the head of the group.                         *)
LEMMA HeadUpdate ==
    ASSUME IInv, Send
    PROVE  LET b == Head(group) IN
           b.update <=> \E i \in 1..Len(delivered) : b.id # 0 /\ delivered[i].id = b.id
<1> DEFINE b == Head(group)
<1>1. group # <<>> /\ Shapes
  BY DEF IInv, Stages, Send
<1>2. 1 \in DOMAIN Line /\ Line[1] = Core(b)
  <2>1. Four(group, batches, handing, ready)
    BY <1>1, FourIs
  <2>2. /\ Total(group, batches, handing, ready) \in Nat \ {0}
        /\ DOMAIN Line = 1..Total(group, batches, handing, ready)
        /\ Line[1] = Core(b)
    BY <1>1, <2>1, SendLine DEF Line
  <2> QED BY <2>2
<1>3. Line[1].id = b.id /\ Line[1].update = b.update
  BY <1>2 DEF Core
<1>4. Line[1].update <=>
         /\ Line[1].id # 0
         /\ \/ \E k \in 1..Len(delivered) : delivered[k].id = Line[1].id
            \/ \E q \in 1..1 - 1 : Line[q].id = Line[1].id
  BY <1>2 DEF IInv, InOrder, Tidy, UpdatesOf
<1>5. 1..1 - 1 = {}
  OBVIOUS
<1>6. b.update <=> /\ b.id # 0
                   /\ \E k \in 1..Len(delivered) : delivered[k].id = b.id
  BY <1>3, <1>4, <1>5, Zenon
<1> QED BY <1>6, Zenon

(* deliver sends a batch as an update exactly when something of its        *)
(* incident was sent before.                                               *)
THEOREM UpdatesAreUpdates == Spec => UpdateMeansSent
<1>1. IInv /\ [Next]_vars => [Send => LET b == Head(group) IN
                b.update <=> \E i \in 1..Len(delivered) :
                                b.id # 0 /\ delivered[i].id = b.id ]_vars
  BY HeadUpdate
<1> QED BY <1>1, Inductive, PTL DEF Spec, UpdateMeansSent

-----------------------------------------------------------------------------
(* The cardinality of a set with at most one element.                      *)
LEMMA AtMostOne ==
    ASSUME NEW S, \A x, y \in S : x = y
    PROVE  Cardinality(S) = IF S = {} THEN 0 ELSE 1
<1>1. CASE S = {}
  BY <1>1, FS_EmptySet
<1>2. CASE S # {}
  <2>1. PICK x : x \in S
    BY <1>2
  <2>2. S = {x}
    BY <2>1
  <2> QED BY <1>2, <2>2, FS_Singleton
<1> QED BY <1>1, <1>2

(* Alert n is in the batch at place p of the line.                         *)
At(n, p) == p \in DOMAIN Line /\ \E x \in 1..Len(Line[p].alerts) : Line[p].alerts[x].n = n

(* The places that the batches of s take in the line come after place o.   *)
Places(s, o) == \A i \in 1..Len(s) : o + i \in DOMAIN Line /\ Line[o + i] = Core(s[i])

(* Which places of the line are whose.                                     *)
LEMMA InLine ==
    ASSUME Shapes
    PROVE  /\ Len(group) \in Nat /\ Len(batches) \in Nat /\ Len(handing) \in Nat /\ Len(ready) \in Nat
           /\ Places(group, 0) /\ Places(batches, Len(group))
           /\ Places(handing, Len(group) + Len(batches))
           /\ Places(ready, Len(group) + Len(batches) + Len(handing))
           /\ \A p \in DOMAIN Line :
                 \/ p \in 1..Len(group)
                 \/ p - Len(group) \in 1..Len(batches)
                 \/ p - (Len(group) + Len(batches)) \in 1..Len(handing)
                 \/ p - (Len(group) + Len(batches) + Len(handing)) \in 1..Len(ready)
           /\ DOMAIN Line \subseteq Nat
<1> DEFINE N == Total(group, batches, handing, ready)
<1>1. Four(group, batches, handing, ready)
  BY FourIs
<1>2. /\ Len(group) \in Nat /\ Len(batches) \in Nat /\ Len(handing) \in Nat /\ Len(ready) \in Nat
      /\ N = Len(group) + Len(batches) + Len(handing) + Len(ready)
      /\ Line = [p \in 1..N |-> Core(PlaceOf(group, batches, handing, ready, p))]
  BY <1>1, LineIs DEF Line, Total
<1>3. DOMAIN Line = 1..N /\ \A p \in 1..N : Line[p] = Core(PlaceOf(group, batches, handing, ready, p))
  BY <1>2
<1> HIDE DEF N
<1>4. Places(group, 0)
  <2> SUFFICES ASSUME NEW i \in 1..Len(group)
               PROVE  0 + i \in DOMAIN Line /\ Line[0 + i] = Core(group[i])
    BY DEF Places
  <2>1. 0 + i = i /\ i \in 1..N /\ i <= Len(group)
    BY <1>2
  <2>2. PlaceOf(group, batches, handing, ready, i) = group[i]
    BY <2>1 DEF PlaceOf
  <2> QED BY <1>3, <2>1, <2>2
<1>5. Places(batches, Len(group))
  <2> SUFFICES ASSUME NEW i \in 1..Len(batches)
               PROVE  Len(group) + i \in DOMAIN Line /\ Line[Len(group) + i] = Core(batches[i])
    BY DEF Places
  <2>1. /\ Len(group) + i \in 1..N /\ ~(Len(group) + i <= Len(group))
        /\ Len(group) + i <= Len(group) + Len(batches) /\ (Len(group) + i) - Len(group) = i
    BY <1>2
  <2>2. PlaceOf(group, batches, handing, ready, Len(group) + i) = batches[i]
    BY <2>1 DEF PlaceOf
  <2> QED BY <1>3, <2>1, <2>2
<1>6. Places(handing, Len(group) + Len(batches))
  <2> SUFFICES ASSUME NEW i \in 1..Len(handing)
               PROVE  /\ Len(group) + Len(batches) + i \in DOMAIN Line
                      /\ Line[Len(group) + Len(batches) + i] = Core(handing[i])
    BY DEF Places
  <2> DEFINE p == Len(group) + Len(batches) + i
  <2>1. /\ p \in 1..N /\ ~(p <= Len(group)) /\ ~(p <= Len(group) + Len(batches))
        /\ p <= Len(group) + Len(batches) + Len(handing) /\ p - (Len(group) + Len(batches)) = i
    BY <1>2
  <2>2. PlaceOf(group, batches, handing, ready, p) = handing[i]
    <3> HIDE DEF p
    <3> QED BY <2>1 DEF PlaceOf
  <2> QED BY <1>3, <2>1, <2>2
<1>7. Places(ready, Len(group) + Len(batches) + Len(handing))
  <2> SUFFICES ASSUME NEW i \in 1..Len(ready)
               PROVE  /\ Len(group) + Len(batches) + Len(handing) + i \in DOMAIN Line
                      /\ Line[Len(group) + Len(batches) + Len(handing) + i] = Core(ready[i])
    BY DEF Places
  <2> DEFINE p == Len(group) + Len(batches) + Len(handing) + i
  <2>1. /\ p \in 1..N /\ ~(p <= Len(group)) /\ ~(p <= Len(group) + Len(batches))
        /\ ~(p <= Len(group) + Len(batches) + Len(handing))
        /\ p - (Len(group) + Len(batches) + Len(handing)) = i
    BY <1>2
  <2>2. PlaceOf(group, batches, handing, ready, p) = ready[i]
    <3> HIDE DEF p
    <3> QED BY <2>1 DEF PlaceOf
  <2> QED BY <1>3, <2>1, <2>2
<1>8. ASSUME NEW p \in DOMAIN Line
      PROVE  \/ p \in 1..Len(group)
             \/ p - Len(group) \in 1..Len(batches)
             \/ p - (Len(group) + Len(batches)) \in 1..Len(handing)
             \/ p - (Len(group) + Len(batches) + Len(handing)) \in 1..Len(ready)
  BY <1>2, <1>3
<1>9. DOMAIN Line \subseteq Nat
  BY <1>2, <1>3
<1> QED BY <1>2, <1>4, <1>5, <1>6, <1>7, <1>8, <1>9

(* Alone and At say the same.                                              *)
LEMMA AloneAt ==
    ASSUME NEW s, NEW o, Places(s, o), NEW n, NEW i \in 1..Len(s)
    PROVE  i \in Alone(s, n) <=> At(n, o + i)
<1>1. o + i \in DOMAIN Line /\ Line[o + i].alerts = s[i].alerts
  <2>1. o + i \in DOMAIN Line /\ Line[o + i] = Core(s[i])
    BY DEF Places
  <2> QED BY <2>1 DEF Core
<1> QED BY <1>1 DEF Alone, At

(* The alert is at one place of the line at most.                          *)
LEMMA AtOnce ==
    ASSUME IInv, NEW n, NEW p, NEW q, At(n, p), At(n, q)
    PROVE  p = q
<1>1. LineInOrder(Off, Line) /\ DOMAIN Line \subseteq Nat
  BY InLine DEF IInv, InOrder, Tidy, OrderOf
<1>2. ASSUME NEW a, NEW b, At(n, a), At(n, b), a < b
      PROVE  FALSE
  <2>1. AllFit(Off, Line[a].alerts, Line[a].id, Line[b].alerts, Line[b].id)
    BY <1>1, <1>2 DEF LineInOrder, At
  <2> QED BY <1>2, <2>1 DEF AllFit, Fits, At
<1>3. ~(p < q) /\ ~(q < p)
  BY <1>2
<1>4. p \in Nat /\ q \in Nat
  BY <1>1 DEF At
<1> QED BY <1>3, <1>4

(* Which of two parts of the line holds the alert.                         *)
LEMMA OnePart ==
    ASSUME IInv, NEW n
    PROVE  /\ \A i, j \in Alone(group, n) : i = j
           /\ \A i, j \in Alone(batches, n) : i = j
           /\ \A i, j \in Alone(handing, n) : i = j
           /\ \A i, j \in Alone(ready, n) : i = j
           /\ Alone(group, n) = {} \/ Alone(batches, n) = {}
           /\ Alone(group, n) = {} \/ Alone(handing, n) = {}
           /\ Alone(group, n) = {} \/ Alone(ready, n) = {}
           /\ Alone(batches, n) = {} \/ Alone(handing, n) = {}
           /\ Alone(batches, n) = {} \/ Alone(ready, n) = {}
           /\ Alone(handing, n) = {} \/ Alone(ready, n) = {}
           /\ (\E p : At(n, p)) <=> \/ Alone(group, n) # {} \/ Alone(batches, n) # {}
                                    \/ Alone(handing, n) # {} \/ Alone(ready, n) # {}
<1> DEFINE b == Len(group)
           h == Len(group) + Len(batches)
           r == Len(group) + Len(batches) + Len(handing)
<1>1. /\ Len(group) \in Nat /\ Len(batches) \in Nat /\ Len(handing) \in Nat /\ Len(ready) \in Nat
      /\ Places(group, 0) /\ Places(batches, b) /\ Places(handing, h) /\ Places(ready, r)
      /\ \A p \in DOMAIN Line :
            \/ p \in 1..Len(group) \/ p - b \in 1..Len(batches)
            \/ p - h \in 1..Len(handing) \/ p - r \in 1..Len(ready)
      /\ DOMAIN Line \subseteq Nat
  BY InLine DEF IInv
<1>2. b \in Nat /\ h \in Nat /\ r \in Nat /\ h = b + Len(batches) /\ r = h + Len(handing) /\ b = Len(group)
  BY <1>1
<1> HIDE DEF b, h, r
<1>3. ASSUME NEW s, NEW i \in Alone(s, n)
      PROVE  i \in 1..Len(s)
  BY DEF Alone
<1>4. ASSUME NEW i \in Alone(group, n) PROVE At(n, 0 + i) /\ i \in 1..Len(group) /\ At(n, i)
  <2>1. i \in 1..Len(group) /\ At(n, 0 + i)
    BY <1>1, <1>3, AloneAt
  <2>2. 0 + i = i
    BY <1>1, <2>1
  <2> QED BY <2>1, <2>2
<1>5. ASSUME NEW i \in Alone(batches, n) PROVE At(n, b + i) /\ i \in 1..Len(batches)
  BY <1>1, <1>3, AloneAt
<1>6. ASSUME NEW i \in Alone(handing, n) PROVE At(n, h + i) /\ i \in 1..Len(handing)
  BY <1>1, <1>3, AloneAt
<1>7. ASSUME NEW i \in Alone(ready, n) PROVE At(n, r + i) /\ i \in 1..Len(ready)
  BY <1>1, <1>3, AloneAt
<1>8. ASSUME NEW i \in Alone(group, n), NEW j \in Alone(group, n) PROVE i = j
  BY <1>4, AtOnce
<1>9. ASSUME NEW i \in Alone(batches, n), NEW j \in Alone(batches, n) PROVE i = j
  <2>1. b + i = b + j
    BY <1>5, AtOnce
  <2> QED BY <1>1, <1>2, <1>5, <2>1
<1>10. ASSUME NEW i \in Alone(handing, n), NEW j \in Alone(handing, n) PROVE i = j
  <2>1. h + i = h + j
    BY <1>6, AtOnce
  <2> QED BY <1>1, <1>2, <1>6, <2>1
<1>11. ASSUME NEW i \in Alone(ready, n), NEW j \in Alone(ready, n) PROVE i = j
  <2>1. r + i = r + j
    BY <1>7, AtOnce
  <2> QED BY <1>1, <1>2, <1>7, <2>1
<1>12. ASSUME NEW i \in Alone(group, n), NEW j \in Alone(batches, n) PROVE FALSE
  <2>1. i = b + j
    BY <1>4, <1>5, AtOnce
  <2> QED BY <1>1, <1>2, <1>4, <1>5, <2>1
<1>13. ASSUME NEW i \in Alone(group, n), NEW j \in Alone(handing, n) PROVE FALSE
  <2>1. i = h + j
    BY <1>4, <1>6, AtOnce
  <2> QED BY <1>1, <1>2, <1>4, <1>6, <2>1
<1>14. ASSUME NEW i \in Alone(group, n), NEW j \in Alone(ready, n) PROVE FALSE
  <2>1. i = r + j
    BY <1>4, <1>7, AtOnce
  <2> QED BY <1>1, <1>2, <1>4, <1>7, <2>1
<1>15. ASSUME NEW i \in Alone(batches, n), NEW j \in Alone(handing, n) PROVE FALSE
  <2>1. b + i = h + j
    BY <1>5, <1>6, AtOnce
  <2> QED BY <1>1, <1>2, <1>5, <1>6, <2>1
<1>16. ASSUME NEW i \in Alone(batches, n), NEW j \in Alone(ready, n) PROVE FALSE
  <2>1. b + i = r + j
    BY <1>5, <1>7, AtOnce
  <2> QED BY <1>1, <1>2, <1>5, <1>7, <2>1
<1>17. ASSUME NEW i \in Alone(handing, n), NEW j \in Alone(ready, n) PROVE FALSE
  <2>1. h + i = r + j
    BY <1>6, <1>7, AtOnce
  <2> QED BY <1>1, <1>2, <1>6, <1>7, <2>1
<1>18. ASSUME NEW p, At(n, p)
       PROVE  \/ Alone(group, n) # {} \/ Alone(batches, n) # {}
              \/ Alone(handing, n) # {} \/ Alone(ready, n) # {}
  <2>1. p \in DOMAIN Line /\ p \in Nat
    BY <1>1, <1>18 DEF At
  <2>2. 0 + p = p /\ b + (p - b) = p /\ h + (p - h) = p /\ r + (p - r) = p
    <3>1. \A x, y \in Nat : x + (y - x) = y /\ 0 + y = y
      OBVIOUS
    <3> QED BY <1>2, <2>1, <3>1
  <2>3. CASE p \in 1..Len(group)
    <3>1. PICK i \in 1..Len(group) : 0 + i = p
      BY <2>2, <2>3
    <3> QED BY <1>1, <1>18, <3>1, AloneAt
  <2>4. CASE p - b \in 1..Len(batches)
    <3>1. PICK i \in 1..Len(batches) : b + i = p
      BY <2>2, <2>4
    <3> QED BY <1>1, <1>18, <3>1, AloneAt
  <2>5. CASE p - h \in 1..Len(handing)
    <3>1. PICK i \in 1..Len(handing) : h + i = p
      BY <2>2, <2>5
    <3> QED BY <1>1, <1>18, <3>1, AloneAt
  <2>6. CASE p - r \in 1..Len(ready)
    <3>1. PICK i \in 1..Len(ready) : r + i = p
      BY <2>2, <2>6
    <3> QED BY <1>1, <1>18, <3>1, AloneAt
  <2> QED BY <1>1, <2>1, <2>3, <2>4, <2>5, <2>6
<1>19. (\E p : At(n, p)) <=> \/ Alone(group, n) # {} \/ Alone(batches, n) # {}
                             \/ Alone(handing, n) # {} \/ Alone(ready, n) # {}
  BY <1>4, <1>5, <1>6, <1>7, <1>18
<1> QED BY <1>8, <1>9, <1>10, <1>11, <1>12, <1>13, <1>14, <1>15, <1>16, <1>17, <1>19

(* What Held and Sent say in terms of Waiting and the history.             *)
LEMMA HeldIs ==
    ASSUME IInv, NEW n
    PROVE  /\ \A e \in Held(n) : \E i \in Nat, x \in Nat :
                 e = <<i, x>> /\ x \in 1..Len(Waiting[i]) /\ Waiting[i][x].n = n
           /\ \A i \in Nat : \A x \in 1..Len(Waiting[i]) :
                 Waiting[i][x].n = n => <<i, x>> \in Held(n)
<1>1. DOMAIN open \subseteq Nat
  BY DEF IInv, OpenOK, Scalars
<1>2. ASSUME NEW e \in Held(n)
      PROVE  \E i \in Nat, x \in Nat :
                 e = <<i, x>> /\ x \in 1..Len(Waiting[i]) /\ Waiting[i][x].n = n
  <2>1. PICK i \in DOMAIN open : e \in {<<i, j>> : j \in InSeq(open[i].pending, n)}
    BY DEF Held
  <2>2. PICK x \in InSeq(open[i].pending, n) : e = <<i, x>>
    BY <2>1
  <2>3. i \in Nat /\ Waiting[i] = open[i].pending
    BY <1>1 DEF Waiting
  <2>4. open[i].pending \in Seq(Issue)
    BY DEF IInv, OpenOK
  <2>5. x \in 1..Len(open[i].pending) /\ open[i].pending[x].n = n
    BY DEF InSeq
  <2>6. x \in Nat
    BY <2>4, <2>5
  <2> QED BY <2>2, <2>3, <2>5, <2>6
<1>3. ASSUME NEW i \in Nat, NEW x \in 1..Len(Waiting[i]), Waiting[i][x].n = n
      PROVE  <<i, x>> \in Held(n)
  <2>1. i \in DOMAIN open
    <3>1. CASE i \notin DOMAIN open
      <4>1. Waiting[i] = <<>> /\ 1..Len(<<>>) = {}
        BY <3>1, EmptyIs DEF Waiting
      <4> QED BY <4>1
    <3> QED BY <3>1
  <2>2. Waiting[i] = open[i].pending
    BY <2>1 DEF Waiting
  <2>3. x \in InSeq(open[i].pending, n)
    BY <1>3, <2>2 DEF InSeq
  <2> QED BY <2>1, <2>3 DEF Held
<1> QED BY <1>2, <1>3

(* An alert is at one place at most of what is held back, of the history   *)
(* and of the queue.                                                       *)
LEMMA HeldOnce ==
    ASSUME IInv, NEW n
    PROVE  \A e, f \in Held(n) : e = f
<1> SUFFICES ASSUME NEW e \in Held(n), NEW f \in Held(n) PROVE e = f
  OBVIOUS
<1>1. PICK i \in Nat, x \in Nat : e = <<i, x>> /\ x \in 1..Len(Waiting[i]) /\ Waiting[i][x].n = n
  BY HeldIs
<1>2. PICK j \in Nat, y \in Nat : f = <<j, y>> /\ y \in 1..Len(Waiting[j]) /\ Waiting[j][y].n = n
  BY HeldIs
<1>3. WaitingInOrder(Off, Waiting) /\ WaitingOK(Waiting)
  BY DEF IInv, InOrder, Tidy, OrderOf
<1>4. i = j
  <2>1. ASSUME i # j PROVE AllFit(Off, Waiting[i], i, Waiting[j], j)
    BY <1>3, <2>1 DEF WaitingInOrder
  <2>2. ASSUME i # j PROVE FALSE
    BY <1>1, <1>2, <2>1, <2>2 DEF AllFit, Fits
  <2> QED BY <2>2
<1>5. x = y
  <2>1. Ascending(Waiting[i]) /\ Waiting[i] \in Seq(Issue)
    BY <1>3 DEF WaitingInOrder, WaitingOK
  <2>2. Waiting[i][x] \in Issue /\ y \in 1..Len(Waiting[i]) /\ Waiting[i][y].n = n
    BY <1>1, <1>2, <1>4, <2>1
  <2>3. n \in Nat
    BY <1>1, <2>2 DEF Issue
  <2>4. ~(x < y) /\ ~(y < x)
    BY <1>1, <2>1, <2>2, <2>3 DEF Ascending
  <2> QED BY <2>4
<1> QED BY <1>1, <1>2, <1>4, <1>5

LEMMA SentOnce ==
    ASSUME IInv, NEW n
    PROVE  \A i, j \in Sent(n) : i = j
<1> SUFFICES ASSUME NEW i \in Sent(n), NEW j \in Sent(n) PROVE i = j
  OBVIOUS
<1>1. SentInOrder(Off, delivered) /\ Len(delivered) \in Nat
  BY DEF IInv, InOrder, Tidy, OrderOf, SentOK
<1>2. /\ i \in 1..Len(delivered) /\ delivered[i].alert.n = n
      /\ j \in 1..Len(delivered) /\ delivered[j].alert.n = n
  BY DEF Sent
<1>3. ~(i < j) /\ ~(j < i)
  BY <1>1, <1>2 DEF SentInOrder, Fits
<1> QED BY <1>1, <1>2, <1>3

LEMMA QueuedOnce ==
    ASSUME IInv, NEW n
    PROVE  \A i, j \in InSeq(queue, n) : i = j
<1> SUFFICES ASSUME NEW i \in InSeq(queue, n), NEW j \in InSeq(queue, n) PROVE i = j
  OBVIOUS
<1>1. Ascending(queue) /\ queue \in Seq(Issue)
  BY DEF IInv, InOrder, Tidy, NumberedOf
<1>2. /\ i \in 1..Len(queue) /\ queue[i].n = n
      /\ j \in 1..Len(queue) /\ queue[j].n = n
  BY DEF InSeq
<1>3. queue[i] \in Issue /\ Len(queue) \in Nat
  BY <1>1, <1>2
<1>4. n \in Nat
  BY <1>2, <1>3 DEF Issue
<1>5. ~(i < j) /\ ~(j < i)
  BY <1>1, <1>2, <1>4 DEF Ascending
<1> QED BY <1>2, <1>3, <1>5

(* Where an alert is: queued, sent, in the line, or held back.             *)
LEMMA OneStage ==
    ASSUME IInv, NEW n \in 1..filed
    PROVE  /\ InSeq(queue, n) = {} \/ Sent(n) = {}
           /\ InSeq(queue, n) = {} \/ ~\E p : At(n, p)
           /\ InSeq(queue, n) = {} \/ Held(n) = {}
           /\ Sent(n) = {} \/ ~\E p : At(n, p)
           /\ Sent(n) = {} \/ Held(n) = {}
           /\ (~\E p : At(n, p)) \/ Held(n) = {}
           /\ \/ InSeq(queue, n) # {} \/ Sent(n) # {} \/ (\E p : At(n, p)) \/ Held(n) # {}
<1>1. OrderOf(Off, delivered, Line, Waiting) /\ NumberedOf(filed, queue, Items)
  BY DEF IInv, InOrder, Tidy, Items
<1>2. filed \in Nat /\ n \in Nat
  BY DEF IInv, Scalars
<1>3. ASSUME NEW i \in Sent(n)
      PROVE  i \in 1..Len(delivered) /\ delivered[i].alert.n = n /\ delivered[i] \in Items
  BY SentIsFiled DEF Sent
<1>4. ASSUME NEW p, At(n, p)
      PROVE  \E x \in 1..Len(Line[p].alerts) :
                p \in DOMAIN Line /\ Line[p].alerts[x].n = n
                /\ \E e \in Items : e.alert.n = n
  <2>1. PICK x \in 1..Len(Line[p].alerts) : p \in DOMAIN Line /\ Line[p].alerts[x].n = n
    BY <1>4 DEF At
  <2>2. Item(Line[p].alerts[x], Line[p].id) \in Items
    BY <2>1, InItems DEF Items
  <2> QED BY <2>1, <2>2, ItemOf
<1>5. ASSUME NEW f \in Held(n)
      PROVE  \E i \in Nat : \E x \in 1..Len(Waiting[i]) :
                Waiting[i][x].n = n /\ \E e \in Items : e.alert.n = n
  <2>1. PICK i \in Nat, x \in Nat : x \in 1..Len(Waiting[i]) /\ Waiting[i][x].n = n
    BY HeldIs
  <2>2. Item(Waiting[i][x], i) \in Items
    BY <2>1, InItems DEF Items
  <2> QED BY <2>1, <2>2, ItemOf
<1>6. ASSUME NEW j \in InSeq(queue, n), NEW e \in Items, e.alert.n = n
      PROVE  FALSE
  BY <1>1, <1>2, <1>6 DEF NumberedOf, InSeq
<1>7. InSeq(queue, n) = {} \/ Sent(n) = {}
  BY <1>3, <1>6
<1>8. InSeq(queue, n) = {} \/ ~\E p : At(n, p)
  BY <1>4, <1>6
<1>9. InSeq(queue, n) = {} \/ Held(n) = {}
  BY <1>5, <1>6
<1>10. ASSUME NEW i \in Sent(n), NEW p, At(n, p)
       PROVE  FALSE
  <2>1. PICK x \in 1..Len(Line[p].alerts) : p \in DOMAIN Line /\ Line[p].alerts[x].n = n
    BY <1>4, <1>10
  <2>2. Under(Off, delivered[i].alert, delivered[i].id, Line[p].alerts, Line[p].id)
    BY <1>1, <1>3, <2>1 DEF OrderOf, SentThenLine
  <2> QED BY <1>3, <2>1, <2>2 DEF Under, Fits
<1>11. ASSUME NEW i \in Sent(n), NEW f \in Held(n)
       PROVE  FALSE
  <2>1. PICK k \in Nat : \E x \in 1..Len(Waiting[k]) : Waiting[k][x].n = n
    BY <1>5
  <2>2. PICK x \in 1..Len(Waiting[k]) : Waiting[k][x].n = n
    BY <2>1
  <2>3. Under(Off, delivered[i].alert, delivered[i].id, Waiting[k], k)
    BY <1>1, <1>3, <2>2 DEF OrderOf, SentThenWaiting
  <2> QED BY <1>3, <2>2, <2>3 DEF Under, Fits
<1>12. ASSUME NEW p, At(n, p), NEW f \in Held(n)
       PROVE  FALSE
  <2>1. PICK k \in Nat : \E x \in 1..Len(Waiting[k]) : Waiting[k][x].n = n
    BY <1>5
  <2>2. PICK x \in 1..Len(Waiting[k]) : Waiting[k][x].n = n
    BY <2>1
  <2>3. PICK y \in 1..Len(Line[p].alerts) : p \in DOMAIN Line /\ Line[p].alerts[y].n = n
    BY <1>4, <1>12
  <2>4. AllFit(Off, Line[p].alerts, Line[p].id, Waiting[k], k)
    BY <1>1, <2>2, <2>3 DEF OrderOf, LineThenWaiting
  <2> QED BY <2>2, <2>3, <2>4 DEF AllFit, Fits
<1>13. InSeq(queue, n) # {} \/ Sent(n) # {} \/ (\E p : At(n, p)) \/ Held(n) # {}
  <2>1. CASE \E j \in 1..Len(queue) : queue[j].n = n
    BY <2>1 DEF InSeq
  <2>2. CASE \E e \in Items : e.alert.n = n
    <3>1. PICK e \in Items : e.alert.n = n
      BY <2>2
    <3>2. CASE \E k \in 1..Len(delivered) : e = delivered[k]
      BY <3>1, <3>2 DEF Sent
    <3>3. CASE \E p \in DOMAIN Line : \E x \in 1..Len(Line[p].alerts) : e = Item(Line[p].alerts[x], Line[p].id)
      BY <3>1, <3>3, ItemOf DEF At
    <3>4. CASE \E i \in Nat : \E x \in 1..Len(Waiting[i]) : e = Item(Waiting[i][x], i)
      <4>1. PICK i \in Nat : \E x \in 1..Len(Waiting[i]) : e = Item(Waiting[i][x], i)
        BY <3>4
      <4>2. PICK x \in 1..Len(Waiting[i]) : e = Item(Waiting[i][x], i)
        BY <4>1
      <4>3. Waiting[i][x].n = n
        BY <3>1, <4>2, ItemOf
      <4>4. <<i, x>> \in Held(n)
        BY <4>3, HeldIs
      <4> QED BY <4>4
    <3> QED BY <3>2, <3>3, <3>4, InItems DEF Items
  <2> QED BY <1>1, <2>1, <2>2 DEF NumberedOf
<1> QED BY <1>7, <1>8, <1>9, <1>10, <1>11, <1>12, <1>13

(* Every alert ever queued is in exactly one place: the queue, an incident,*)
(* the batches on their way, or the history.                               *)
THEOREM NeitherLostNorRepeated == Spec => []ExactlyOnce
<1>1. IInv => ExactlyOnce
  <2> SUFFICES ASSUME IInv, NEW n \in 1..filed
               PROVE  Cardinality(InSeq(queue, n)) + Cardinality(Held(n))
                      + Cardinality(Alone(ready, n)) + Cardinality(Alone(handing, n))
                      + Cardinality(Alone(batches, n)) + Cardinality(Alone(group, n))
                      + Cardinality(Sent(n)) = 1
    BY DEF ExactlyOnce
  <2>1. /\ Cardinality(InSeq(queue, n)) = (IF InSeq(queue, n) = {} THEN 0 ELSE 1)
        /\ Cardinality(Held(n)) = (IF Held(n) = {} THEN 0 ELSE 1)
        /\ Cardinality(Sent(n)) = (IF Sent(n) = {} THEN 0 ELSE 1)
    BY AtMostOne, QueuedOnce, HeldOnce, SentOnce
  <2>2. /\ Cardinality(Alone(group, n)) = (IF Alone(group, n) = {} THEN 0 ELSE 1)
        /\ Cardinality(Alone(batches, n)) = (IF Alone(batches, n) = {} THEN 0 ELSE 1)
        /\ Cardinality(Alone(handing, n)) = (IF Alone(handing, n) = {} THEN 0 ELSE 1)
        /\ Cardinality(Alone(ready, n)) = (IF Alone(ready, n) = {} THEN 0 ELSE 1)
    BY AtMostOne, OnePart
  <2>3. /\ Alone(group, n) = {} \/ Alone(batches, n) = {}
        /\ Alone(group, n) = {} \/ Alone(handing, n) = {}
        /\ Alone(group, n) = {} \/ Alone(ready, n) = {}
        /\ Alone(batches, n) = {} \/ Alone(handing, n) = {}
        /\ Alone(batches, n) = {} \/ Alone(ready, n) = {}
        /\ Alone(handing, n) = {} \/ Alone(ready, n) = {}
        /\ (\E p : At(n, p)) <=> \/ Alone(group, n) # {} \/ Alone(batches, n) # {}
                                 \/ Alone(handing, n) # {} \/ Alone(ready, n) # {}
    BY OnePart
  <2> QED BY <2>1, <2>2, <2>3, OneStage
<1> QED BY <1>1, Inductive, PTL

-----------------------------------------------------------------------------
(***************************************************************************)
(* What Chosen, FiringNumbers and LastOf return.                           *)
(***************************************************************************)
(* A set of numbers has a least one, and induction over the numbers.        *)
LEMMA LeastOf ==
    ASSUME NEW S, S \subseteq Nat, S # {}
    PROVE  \E x \in S : \A y \in S : x <= y
<1> DEFINE R == OpToRel(<, Nat)
<1>1. IsWellFoundedOn(R, Nat)
  BY NatLessThanWellFounded
<1>2. \E x \in S : \A y \in S : ~(<<y, x>> \in R)
  <2> HIDE DEF R
  <2> QED BY <1>1, WFMin
<1>3. PICK x \in S : \A y \in S : ~(<<y, x>> \in R)
  BY <1>2
<1>4. ASSUME NEW y \in S PROVE x <= y
  <2>1. x \in Nat /\ y \in Nat /\ ~(<<y, x>> \in R)
    BY <1>3
  <2>2. ~(y < x)
    BY <2>1 DEF OpToRel
  <2> HIDE DEF R
  <2> QED BY <2>1, <2>2
<1> HIDE DEF R
<1> QED BY <1>4

LEMMA SetInduction ==
    ASSUME NEW T, 0 \in T, \A n \in Nat : n \in T => n + 1 \in T
    PROVE  Nat \subseteq T
<1> SUFFICES ASSUME ~(Nat \subseteq T) PROVE FALSE
  OBVIOUS
<1>1. PICK S : S = {n \in Nat : n \notin T}
  OBVIOUS
<1>2. S \subseteq Nat /\ S # {}
  BY <1>1
<1>3. PICK x \in S : \A y \in S : x <= y
  BY <1>2, LeastOf
<1>4. x \in Nat /\ x \notin T /\ x # 0
  BY <1>1, <1>3
<1>5. x - 1 \in Nat /\ (x - 1) + 1 = x /\ ~(x <= x - 1)
  BY <1>4
<1>6. x - 1 \in T
  BY <1>1, <1>3, <1>5
<1> QED BY <1>4, <1>5, <1>6

(* g[m]: the elements of s at the places in I up to m.                     *)
Picks(g, s, I, n) ==
    g = [m \in 0..n |-> IF m = 0 THEN <<>> ELSE IF m \in I THEN Append(g[m - 1], s[m]) ELSE g[m - 1]]

(* Such a function exists.                                                 *)
LEMMA PicksExist ==
    ASSUME NEW s, NEW I, NEW n \in Nat
    PROVE  \E g : Picks(g, s, I, n)
<1>1. PICK T : T = {m \in Nat : \E g : Picks(g, s, I, m)}
  OBVIOUS
<1>2. 0 \in T
  <2>1. PICK g : g = [i \in 0..0 |-> <<>>]
    OBVIOUS
  <2>2. \A i \in 0..0 : i = 0
    OBVIOUS
  <2>3. Picks(g, s, I, 0)
    BY <2>1, <2>2 DEF Picks
  <2> QED BY <1>1, <2>3
<1>3. ASSUME NEW m \in Nat, m \in T PROVE m + 1 \in T
  <2>1. PICK g : Picks(g, s, I, m)
    BY <1>1, <1>3
  <2>2. PICK last : last = IF m + 1 \in I THEN Append(g[m], s[m + 1]) ELSE g[m]
    OBVIOUS
  <2>3. PICK gg : gg = [i \in 0..m + 1 |-> IF i = m + 1 THEN last ELSE g[i]]
    OBVIOUS
  <2>4. \A i \in 0..m : i \in 0..m + 1 /\ i # m + 1 /\ gg[i] = g[i]
    BY <2>3
  <2>5. gg[m + 1] = last
    BY <2>3
  <2>6. ASSUME NEW i \in 0..m + 1
        PROVE  gg[i] = IF i = 0 THEN <<>> ELSE IF i \in I THEN Append(gg[i - 1], s[i]) ELSE gg[i - 1]
    <3>1. CASE i = m + 1
      <4>1. i # 0 /\ i - 1 = m /\ m \in 0..m
        BY <3>1
      <4>2. gg[i - 1] = g[m]
        BY <2>4, <4>1
      <4> QED BY <2>2, <2>5, <3>1, <4>1, <4>2
    <3>2. CASE i = 0
      BY <2>1, <2>4, <3>2 DEF Picks
    <3>3. CASE i # m + 1 /\ i # 0
      <4>1. i \in 0..m /\ i - 1 \in 0..m
        BY <3>3
      <4>2. g[i] = IF i \in I THEN Append(g[i - 1], s[i]) ELSE g[i - 1]
        BY <2>1, <3>3, <4>1 DEF Picks
      <4> QED BY <2>4, <3>3, <4>1, <4>2
    <3> QED BY <3>1, <3>2, <3>3
  <2>7. Picks(gg, s, I, m + 1)
    <3>1. gg = [i \in 0..m + 1 |-> gg[i]]
      BY <2>3
    <3> QED BY <2>6, <3>1 DEF Picks
  <2> QED BY <1>1, <2>7
<1>4. Nat \subseteq T
  BY <1>2, <1>3, SetInduction
<1> QED BY <1>1, <1>4

(* c has the elements of s at the places in I up to m, in order.           *)
Selects(c, s, I, m) ==
    /\ IsSeq(c)
    /\ \A x \in 1..Len(c) : \E i \in 1..m : i \in I /\ c[x] = s[i]
    /\ \A i \in 1..m : i \in I => \E x \in 1..Len(c) : c[x] = s[i]
    /\ \A x, y \in 1..Len(c) : x < y => \E i, j \in 1..m : i < j /\ c[x] = s[i] /\ c[y] = s[j]

LEMMA SelectsMore ==
    ASSUME NEW c, NEW s, NEW I, NEW m \in Nat, Selects(c, s, I, m)
    PROVE  Selects(IF m + 1 \in I THEN Append(c, s[m + 1]) ELSE c, s, I, m + 1)
<1>1. /\ IsSeq(c)
      /\ \A x \in 1..Len(c) : \E i \in 1..m : i \in I /\ c[x] = s[i]
      /\ \A i \in 1..m : i \in I => \E x \in 1..Len(c) : c[x] = s[i]
      /\ \A x, y \in 1..Len(c) : x < y => \E i, j \in 1..m : i < j /\ c[x] = s[i] /\ c[y] = s[j]
  BY DEF Selects
<1>2. (\A i \in 1..m : i \in 1..m + 1 /\ i < m + 1) /\ (\A i \in 1..m + 1 : i \in 1..m \/ i = m + 1)
      /\ m + 1 \in 1..m + 1
  OBVIOUS
<1>3. CASE m + 1 \notin I
  BY <1>1, <1>2, <1>3 DEF Selects
<1>4. CASE m + 1 \in I
  <2>1. PICK d : d = Append(c, s[m + 1])
    OBVIOUS
  <2>2. /\ IsSeq(d) /\ Len(d) = Len(c) + 1 /\ Len(c) \in Nat
        /\ \A i \in 1..Len(c) : d[i] = c[i]
        /\ d[Len(c) + 1] = s[m + 1]
    BY <1>1, <2>1, AppendIs
  <2>3. /\ \A x \in 1..Len(d) : x \in 1..Len(c) \/ x = Len(d)
        /\ \A x \in 1..Len(c) : x \in 1..Len(d) /\ x < Len(d)
        /\ Len(d) \in 1..Len(d) /\ d[Len(d)] = s[m + 1]
    BY <2>2
  <2>4. ASSUME NEW x \in 1..Len(d) PROVE \E i \in 1..m + 1 : i \in I /\ d[x] = s[i]
    <3>1. CASE x \in 1..Len(c)
      <4>1. PICK i \in 1..m : i \in I /\ c[x] = s[i]
        BY <1>1, <3>1
      <4> QED BY <1>2, <2>2, <3>1, <4>1
    <3>2. CASE x = Len(d)
      BY <1>2, <1>4, <2>3, <3>2
    <3> QED BY <2>3, <3>1, <3>2
  <2>5. ASSUME NEW i \in 1..m + 1, i \in I PROVE \E x \in 1..Len(d) : d[x] = s[i]
    <3>1. CASE i \in 1..m
      <4>1. PICK x \in 1..Len(c) : c[x] = s[i]
        BY <1>1, <2>5, <3>1
      <4> QED BY <2>2, <2>3, <4>1
    <3>2. CASE i = m + 1
      BY <2>3, <3>2
    <3> QED BY <1>2, <3>1, <3>2
  <2>6. ASSUME NEW x \in 1..Len(d), NEW y \in 1..Len(d), x < y
        PROVE  \E i, j \in 1..m + 1 : i < j /\ d[x] = s[i] /\ d[y] = s[j]
    <3>1. x \in 1..Len(c)
      BY <2>2, <2>6
    <3>2. CASE y \in 1..Len(c)
      <4>1. PICK i \in 1..m, j \in 1..m : i < j /\ c[x] = s[i] /\ c[y] = s[j]
        BY <1>1, <2>6, <3>1, <3>2
      <4>2. i \in 1..m + 1 /\ j \in 1..m + 1 /\ d[x] = s[i] /\ d[y] = s[j]
        BY <1>2, <2>2, <3>1, <3>2, <4>1
      <4> QED BY <4>1, <4>2
    <3>3. CASE y = Len(d)
      <4>1. PICK i \in 1..m : c[x] = s[i]
        BY <1>1, <3>1
      <4>2. i \in 1..m + 1 /\ i < m + 1 /\ d[x] = s[i] /\ d[y] = s[m + 1]
        BY <1>2, <2>2, <2>3, <3>1, <3>3, <4>1
      <4> QED BY <1>2, <4>2
    <3> QED BY <2>3, <3>2, <3>3
  <2>7. Selects(d, s, I, m + 1)
    BY <2>2, <2>4, <2>5, <2>6 DEF Selects
  <2> QED BY <1>4, <2>1, <2>7
<1> QED BY <1>3, <1>4

(* Chosen(s, I) has the elements of s at the places in I, in order.        *)
LEMMA ChosenIs ==
    ASSUME NEW s, NEW I, Len(s) \in Nat
    PROVE  Selects(Chosen(s, I), s, I, Len(s))
<1>1. PICK n \in Nat : n = Len(s)
  OBVIOUS
<1>2. PICK g : g = CHOOSE f : Picks(f, s, I, n)
  OBVIOUS
<1>3. Picks(g, s, I, n)
  <2>1. \E f : Picks(f, s, I, n)
    BY PicksExist
  <2> QED BY <1>2, <2>1
<1>4. Chosen(s, I) = g[n]
  BY <1>1, <1>2 DEF Chosen, Picks
<1>5. PICK T : T = {m \in Nat : m <= n => Selects(g[m], s, I, m)}
  OBVIOUS
<1>6. 0 \in T
  <2>1. g[0] = <<>>
    <3>1. 0 \in 0..n
      OBVIOUS
    <3> QED BY <1>3, <3>1 DEF Picks
  <2>2. IsSeq(<<>>) /\ Len(<<>>) = 0
    BY EmptyIs
  <2>3. Selects(<<>>, s, I, 0)
    BY <2>2 DEF Selects
  <2> QED BY <1>5, <2>1, <2>3
<1>7. ASSUME NEW m \in Nat, m \in T PROVE m + 1 \in T
  <2>1. CASE m + 1 <= n
    <3>1. m <= n /\ m + 1 \in 0..n /\ m + 1 # 0 /\ (m + 1) - 1 = m
      BY <2>1
    <3>2. Selects(g[m], s, I, m)
      BY <1>5, <1>7, <3>1
    <3>3. PICK j \in 0..n : j = m + 1
      BY <3>1
    <3>4. g[j] = IF j \in I THEN Append(g[j - 1], s[j]) ELSE g[j - 1]
      BY <1>3, <3>1, <3>3 DEF Picks
    <3>5. g[m + 1] = IF m + 1 \in I THEN Append(g[m], s[m + 1]) ELSE g[m]
      BY <3>1, <3>3, <3>4
    <3>6. Selects(g[m + 1], s, I, m + 1)
      BY <3>2, <3>5, SelectsMore
    <3> QED BY <1>5, <3>6
  <2>2. CASE ~(m + 1 <= n)
    BY <1>5, <2>2
  <2> QED BY <2>1, <2>2
<1>8. n \in T
  <2>1. Nat \subseteq T
    BY <1>6, <1>7, SetInduction
  <2> QED BY <2>1
<1> QED BY <1>1, <1>4, <1>5, <1>8

(* r is s without its first k elements.                                    *)
IsRest(r, s, k) ==
    /\ Len(s) \in Nat /\ k <= Len(s) /\ Len(r) = Len(s) - k
    /\ \A x \in 1..Len(s) - k : k + x \in 1..Len(s) /\ r[x] = s[k + x]

(* LastOf(s, n): without so many that n are left, if there are more.       *)
LEMMA LastOfIs ==
    ASSUME NEW T, NEW s \in Seq(T), NEW n \in Nat
    PROVE  /\ LastOf(s, n) \in Seq(T)
           /\ \E k \in Nat : /\ IsRest(LastOf(s, n), s, k)
                             /\ k = IF Len(s) <= n THEN 0 ELSE Len(s) - n
<1>1. PICK m \in Nat : m = Len(s)
  OBVIOUS
<1>2. PICK k \in Nat : k = IF m < n THEN 0 ELSE m - n
  <2>1. (IF m < n THEN 0 ELSE m - n) \in Nat
    OBVIOUS
  <2> QED BY <2>1
<1>3. LastOf(s, n) = SubSeq(s, k + 1, m)
  <2>1. m - (IF m < n THEN m ELSE n) = k
    BY <1>2
  <2> QED BY <1>1, <2>1 DEF LastOf
<1>4. /\ SubSeq(s, k + 1, m) \in Seq(T) /\ Len(SubSeq(s, k + 1, m)) = m - k
      /\ \A x \in 1..m - k : SubSeq(s, k + 1, m)[x] = s[k + x] /\ k + x \in 1..m
  <2>1. \A i \in 1..m : s[i] \in T
    BY <1>1
  <2>2. k <= m
    BY <1>2
  <2>3. SubSeq(s, k + 1, m) = [i \in 1..m - k |-> s[k + i]]
    BY <1>1, <2>2
  <2>4. m - k \in Nat /\ \A i \in 1..m - k : k + i \in 1..m
    BY <2>2
  <2>5. PICK f : f = [i \in 1..m - k |-> s[k + i]]
    OBVIOUS
  <2>6. f = [i \in 1..m - k |-> f[i]] /\ \A i \in 1..m - k : f[i] = s[k + i] /\ f[i] \in T
    BY <2>1, <2>4, <2>5
  <2>7. f \in Seq(T) /\ Len(f) = m - k
    <3>1. PICK c \in Nat : c = m - k
      BY <2>4
    <3>2. IsSeq(f) /\ Len(f) = c
      BY <2>6, <3>1, FunctionIs
    <3>3. DOMAIN f = 1..c
      BY <2>6, <3>1
    <3>4. {f[i] : i \in DOMAIN f} \subseteq T
      BY <2>6, <3>1, <3>3
    <3> QED BY <3>1, <3>2, <3>4, SeqMonotonic DEF IsSeq
  <2> QED BY <2>3, <2>4, <2>5, <2>6, <2>7
<1>5. k <= m /\ k = IF m <= n THEN 0 ELSE m - n
  BY <1>2
<1>6. IsRest(LastOf(s, n), s, k)
  BY <1>1, <1>3, <1>4, <1>5 DEF IsRest
<1> QED BY <1>1, <1>3, <1>4, <1>5, <1>6

Rises(s) == \A x, y \in 1..Len(s) : x < y => s[x] < s[y]

(* The numbers of the firing alerts of s.                                  *)
LEMMA FiringNumbersAre ==
    ASSUME NEW s \in Seq(Issue)
    PROVE  /\ FiringNumbers(s) \in Seq(Nat)
           /\ Range(FiringNumbers(s)) = {s[i].n : i \in Fires(s)}
           /\ Ascending(s) => Rises(FiringNumbers(s))
           /\ Fires(s) # {} => 1 \in 1..Len(FiringNumbers(s))
<1>1. PICK n : n = [i \in DOMAIN s |-> s[i].n]
  OBVIOUS
<1>2. /\ Len(s) \in Nat /\ DOMAIN s = 1..Len(s) /\ n = [i \in 1..Len(s) |-> n[i]]
      /\ \A i \in 1..Len(s) : n[i] = s[i].n /\ n[i] \in Nat
  <2>1. Len(s) \in Nat /\ DOMAIN s = 1..Len(s)
    OBVIOUS
  <2>2. \A i \in 1..Len(s) : s[i] \in Issue
    BY ElementOf
  <2> QED BY <1>1, <2>1, <2>2 DEF Issue
<1>3. IsSeq(n) /\ Len(n) = Len(s)
  BY <1>2, FunctionIs
<1>4. PICK t : t = FiringNumbers(s)
  OBVIOUS
<1>5. Selects(t, n, Fires(s), Len(s))
  BY <1>1, <1>2, <1>3, <1>4, ChosenIs DEF FiringNumbers
<1>6. IsSeq(t) /\ Len(t) \in Nat /\ DOMAIN t = 1..Len(t)
  BY <1>5, IsSeqLen DEF Selects
<1>7. \A x \in 1..Len(t) : \E i \in 1..Len(s) : i \in Fires(s) /\ t[x] = n[i]
  BY <1>5 DEF Selects
<1>8. \A i \in 1..Len(s) : i \in Fires(s) => \E x \in 1..Len(t) : t[x] = n[i]
  BY <1>5 DEF Selects
<1>9. \A x, y \in 1..Len(t) : x < y => \E i, j \in 1..Len(s) : i < j /\ t[x] = n[i] /\ t[y] = n[j]
  BY <1>5 DEF Selects
<1>10. Fires(s) \subseteq 1..Len(s)
  BY <1>2 DEF Fires
<1>11. t \in Seq(Nat)
  <2>1. \A x \in 1..Len(t) : t[x] \in Nat
    BY <1>2, <1>7
  <2>2. {t[i] : i \in DOMAIN t} \subseteq Nat
    BY <1>6, <2>1
  <2> QED BY <1>6, <2>2, SeqMonotonic DEF IsSeq
<1>12. Range(t) = {s[i].n : i \in Fires(s)}
  <2>1. ASSUME NEW v \in Range(t) PROVE v \in {s[i].n : i \in Fires(s)}
    <3>1. PICK x \in 1..Len(t) : v = t[x]
      BY <1>6 DEF Range
    <3>2. PICK i \in 1..Len(s) : i \in Fires(s) /\ t[x] = n[i]
      BY <1>7
    <3> QED BY <1>2, <3>1, <3>2
  <2>2. ASSUME NEW i \in Fires(s) PROVE s[i].n \in Range(t)
    <3>1. PICK x \in 1..Len(t) : t[x] = n[i]
      BY <1>8, <1>10
    <3>2. n[i] = s[i].n
      BY <1>2, <1>10
    <3> QED BY <1>6, <3>1, <3>2 DEF Range
  <2> QED BY <2>1, <2>2
<1>13. ASSUME Ascending(s) PROVE Rises(t)
  <2> SUFFICES ASSUME NEW x \in 1..Len(t), NEW y \in 1..Len(t), x < y PROVE t[x] < t[y]
    BY DEF Rises
  <2>1. PICK i \in 1..Len(s), j \in 1..Len(s) : i < j /\ t[x] = n[i] /\ t[y] = n[j]
    BY <1>9
  <2>2. s[i].n < s[j].n
    BY <1>13, <2>1 DEF Ascending
  <2> QED BY <1>2, <2>1, <2>2
<1>14. ASSUME Fires(s) # {} PROVE 1 \in 1..Len(t)
  <2>1. PICK i \in Fires(s) : TRUE
    BY <1>14
  <2>2. PICK x \in 1..Len(t) : t[x] = n[i]
    BY <1>8, <1>10
  <2> QED BY <1>6, <2>2
<1> QED BY <1>4, <1>11, <1>12, <1>13, <1>14

(* An incident that remembers the last numbers of S, and sends those of t, *)
(* remembers the last numbers of both.                                     *)
LEMMA RecallsMore ==
    ASSUME NEW S, NEW e \in Seq(Nat), Recalls(e, S), S \subseteq Nat, NEW t \in Seq(Nat), Rises(t),
           \A n \in S : \A x \in 1..Len(t) : n < t[x]
    PROVE  /\ LastOf(e \o t, MaxEarlier) \in Seq(Nat)
           /\ Recalls(LastOf(e \o t, MaxEarlier), S \cup Range(t))
<1>1. PICK M \in Nat \ {0} : M = MaxEarlier
  BY IncidentAssumption
<1>2. PICK a \in Nat, b \in Nat : a = Len(e) /\ b = Len(t)
  OBVIOUS
<1>3. PICK u \in Seq(Nat) : /\ u = e \o t /\ Len(u) = a + b
                            /\ \A x \in 1..a : u[x] = e[x]
                            /\ \A x \in 1..b : u[a + x] = t[x]
  <2>1. IsSeq(e) /\ IsSeq(t) /\ e \o t \in Seq(Nat)
    BY SeqIs
  <2>2. /\ Len(e \o t) = Len(e) + Len(t)
        /\ \A i \in 1..Len(e) : (e \o t)[i] = e[i]
        /\ \A i \in 1..Len(t) : (e \o t)[Len(e) + i] = t[i]
    BY <2>1, ConcatIs
  <2> QED BY <1>2, <2>1, <2>2
<1>4. /\ Range(e) \subseteq S /\ a <= M /\ \A x, y \in 1..a : x < y => e[x] < e[y]
      /\ \A n \in S \ Range(e) : a = M /\ n < e[1]
  BY <1>1, <1>2 DEF Recalls
<1>5. DOMAIN e = 1..a /\ DOMAIN t = 1..b /\ DOMAIN u = 1..a + b
  BY <1>2, <1>3, SeqIs
<1>6. \A x \in 1..a + b : u[x] \in Nat /\ (x \in 1..a \/ (x - a \in 1..b /\ u[x] = t[x - a] /\ a < x))
  <2> SUFFICES ASSUME NEW x \in 1..a + b
               PROVE  u[x] \in Nat /\ (x \in 1..a \/ (x - a \in 1..b /\ u[x] = t[x - a] /\ a < x))
    OBVIOUS
  <2>1. u[x] \in Nat
    BY <1>3, ElementOf
  <2>2. CASE ~(x \in 1..a)
    <3>1. x - a \in 1..b /\ a + (x - a) = x /\ a < x
      BY <2>2
    <3>2. u[a + (x - a)] = t[x - a]
      BY <1>3, <3>1
    <3> QED BY <2>1, <3>1, <3>2
  <2> QED BY <2>1, <2>2
<1>7. \A x, y \in 1..a + b : x < y => u[x] < u[y]
  <2> SUFFICES ASSUME NEW x \in 1..a + b, NEW y \in 1..a + b, x < y PROVE u[x] < u[y]
    OBVIOUS
  <2>1. CASE x \in 1..a /\ y \in 1..a
    BY <1>3, <1>4, <2>1
  <2>2. CASE x \in 1..a /\ y - a \in 1..b /\ u[y] = t[y - a]
    <3>1. u[x] = e[x] /\ e[x] \in S
      BY <1>3, <1>4, <1>5, <2>2 DEF Range
    <3> QED BY <1>2, <2>2, <3>1
  <2>3. CASE x - a \in 1..b /\ u[x] = t[x - a] /\ y - a \in 1..b /\ u[y] = t[y - a]
    <3>1. x - a < y - a
      BY <1>2
    <3>2. t[x - a] < t[y - a]
      BY <1>2, <2>3, <3>1 DEF Rises
    <3> QED BY <2>3, <3>2
  <2>4. ~(a < x) \/ ~(y \in 1..a)
    BY <1>2
  <2> QED BY <1>6, <2>1, <2>2, <2>3, <2>4
<1>8. LastOf(u, M) \in Seq(Nat)
      /\ \E k \in Nat : /\ IsRest(LastOf(u, M), u, k)
                        /\ k = IF Len(u) <= M THEN 0 ELSE Len(u) - M
  BY LastOfIs
<1>9. PICK k \in Nat : IsRest(LastOf(u, M), u, k) /\ k = IF Len(u) <= M THEN 0 ELSE Len(u) - M
  BY <1>8
<1>10. PICK r \in Seq(Nat) : r = LastOf(u, M)
  BY <1>8
<1>11. PICK c \in Nat : c = (a + b) - k
  <2>1. k <= a + b
    BY <1>3, <1>9 DEF IsRest
  <2>2. (a + b) - k \in Nat
    BY <2>1
  <2> QED BY <2>2
<1>12. Len(r) = c /\ c + k = a + b /\ c <= M /\ (k # 0 => c = M) /\ DOMAIN r = 1..c
  <2>1. Len(r) = c /\ k = (IF a + b <= M THEN 0 ELSE (a + b) - M) /\ k <= a + b
    BY <1>3, <1>10, <1>11, <1>9 DEF IsRest
  <2>2. c + k = a + b /\ c <= M /\ (k # 0 => c = M)
    BY <1>11, <2>1
  <2> QED BY <2>1, <2>2, SeqIs
<1>13. \A x \in 1..c : k + x \in 1..a + b /\ r[x] = u[k + x]
  BY <1>3, <1>10, <1>11, <1>9 DEF IsRest
<1>14. \A x \in 1..a + b : u[x] \in S \cup Range(t)
  <2> SUFFICES ASSUME NEW x \in 1..a + b PROVE u[x] \in S \cup Range(t)
    OBVIOUS
  <2>1. CASE x \in 1..a
    BY <1>3, <1>4, <1>5, <2>1 DEF Range
  <2>2. CASE x - a \in 1..b /\ u[x] = t[x - a]
    BY <1>5, <2>2 DEF Range
  <2> QED BY <1>6, <2>1, <2>2
<1>15. Range(r) \subseteq S \cup Range(t)
  BY <1>12, <1>13, <1>14 DEF Range
<1>16. \A x, y \in 1..c : x < y => r[x] < r[y]
  <2> SUFFICES ASSUME NEW x \in 1..c, NEW y \in 1..c, x < y PROVE r[x] < r[y]
    OBVIOUS
  <2>1. k + x \in 1..a + b /\ k + y \in 1..a + b
    BY <1>13
  <2>2. k + x < k + y
    <3> HIDE DEF Rises
    <3>1. x \in Nat /\ y \in Nat
      OBVIOUS
    <3> QED BY <3>1
  <2> QED BY <1>7, <1>13, <2>1, <2>2
<1>17. ASSUME NEW n \in (S \cup Range(t)) \ Range(r) PROVE c = M /\ n < r[1]
  <2>1. ASSUME NEW x \in 1..a + b, n = u[x] PROVE c = M /\ n < r[1]
    <3>1. x <= k
      <4>1. CASE ~(x <= k)
        <5>1. x - k \in 1..c /\ k + (x - k) = x
          BY <1>12, <4>1
        <5>2. r[x - k] = n
          BY <1>13, <2>1, <5>1
        <5> QED BY <1>12, <1>17, <5>1, <5>2 DEF Range
      <4> QED BY <4>1
    <3>2. k # 0 /\ c = M /\ 1 \in 1..c
      BY <1>1, <1>12, <3>1
    <3>3. k + 1 \in 1..a + b /\ r[1] = u[k + 1] /\ x < k + 1
      BY <1>13, <3>1, <3>2
    <3> QED BY <1>7, <2>1, <3>2, <3>3
  <2>2. CASE n \in Range(t)
    <3>1. PICK x \in 1..b : n = t[x]
      BY <1>5, <2>2 DEF Range
    <3>2. a + x \in 1..a + b /\ u[a + x] = n
      BY <1>3, <3>1
    <3> QED BY <2>1, <3>2
  <2>3. CASE n \in Range(e)
    <3>1. PICK x \in 1..a : n = e[x]
      BY <1>5, <2>3 DEF Range
    <3>2. x \in 1..a + b /\ u[x] = n
      BY <1>2, <1>3, <3>1
    <3> QED BY <2>1, <3>2
  <2>4. CASE n \in S \ Range(e)
    <3>1. a = M /\ n < e[1] /\ n \in Nat
      BY <1>4, <2>4
    <3>2. 1 \in 1..a /\ 1 \in 1..a + b /\ u[1] = e[1] /\ u[1] \in Nat
      BY <1>1, <1>3, <1>6, <3>1
    <3>3. c = M
      BY <1>1, <1>12, <3>1
    <3>4. 1 \in 1..c /\ k + 1 \in 1..a + b /\ r[1] = u[k + 1] /\ u[k + 1] \in Nat
      BY <1>1, <1>6, <1>13, <3>3
    <3>5. u[1] <= u[k + 1]
      <4>1. CASE k = 0
        BY <3>2, <4>1
      <4>2. CASE k # 0
        <5>1. 1 < k + 1
          BY <4>2
        <5>2. u[1] < u[k + 1]
          BY <1>7, <3>2, <3>4, <5>1
        <5> QED BY <3>2, <3>4, <5>2
      <4> QED BY <4>1, <4>2
    <3> QED BY <3>1, <3>2, <3>3, <3>4, <3>5
  <2> QED BY <1>17, <2>2, <2>3, <2>4
<1> QED BY <1>1, <1>3, <1>10, <1>12, <1>15, <1>16, <1>17 DEF Recalls

-----------------------------------------------------------------------------
(***************************************************************************)
(* What is on its way or sent, and what incidents and batches know of it.  *)
(***************************************************************************)
GoneIn(d, l) == ItemsFrom(d, l, [i \in Nat |-> <<>>])
Gone == GoneIn(delivered, Line)

FiringOf(G, i) == {e.alert.n : e \in {f \in G : f.id = i /\ f.alert.kind = "firing"}}
Below(G, i, n) == {m \in FiringOf(G, i) : m < n}

OnItsWay == (Range(group) \cup Range(batches)) \cup (Range(handing) \cup Range(ready))

Answered(d, i, n) == \E k \in 1..Len(d) : d[k].id = i /\ d[k].alert.n = n

(* A batch tells of all firing alerts of its incident before its own.      *)
ToldIn(G, d, b) ==
    /\ b.earlier \in Seq(Nat) /\ b.prev \in Nat /\ b.summary \in Nat
    /\ b.id # 0 /\ Fires(b.alerts) # {} => Recalls(b.earlier, Below(G, b.id, b.alerts[1].n))
    /\ b.prev # 0 => Answered(d, b.id, b.prev)
    /\ b.summary # 0 => \E x \in 1..Len(b.alerts) : b.alerts[x].n = b.summary

(* An open incident knows all its firing alerts that went out, or will.    *)
KnownIn(G, d, c, i) ==
    /\ c.subjects \subseteq UNION {SubjectsOf[s] : s \in Sources}
    /\ c.hasHost \in BOOLEAN /\ c.last \in Nat
    /\ c.earlier \in Seq(Nat) /\ c.summary \in Nat
    /\ Recalls(c.earlier, FiringOf(G, i))
    /\ c.summary # 0 => Answered(d, i, c.summary)

Told  == \A b \in OnItsWay : ToldIn(Gone, delivered, b)
Known == \A i \in DOMAIN open : KnownIn(Gone, delivered, open[i], i)

-----------------------------------------------------------------------------
(* The elements of sequences.                                              *)
LEMMA RangeOfTail ==
    ASSUME NEW s, IsSeq(s), s # <<>>
    PROVE  Head(s) \in Range(s) /\ Range(Tail(s)) \subseteq Range(s)
<1>1. /\ IsSeq(Tail(s)) /\ Len(Tail(s)) = Len(s) - 1 /\ Len(s) \in Nat \ {0} /\ Head(s) = s[1]
      /\ \A i \in 1..Len(s) - 1 : Tail(s)[i] = s[i + 1]
  BY TailIs
<1>2. DOMAIN s = 1..Len(s) /\ DOMAIN Tail(s) = 1..Len(s) - 1
  BY <1>1, IsSeqLen
<1>3. 1 \in DOMAIN s /\ \A i \in 1..Len(s) - 1 : i + 1 \in DOMAIN s
  BY <1>1, <1>2
<1> QED BY <1>1, <1>2, <1>3 DEF Range

LEMMA RangeOfAppend ==
    ASSUME NEW s, IsSeq(s), NEW e
    PROVE  Range(Append(s, e)) \subseteq Range(s) \cup {e}
<1>1. /\ IsSeq(Append(s, e)) /\ Len(Append(s, e)) = Len(s) + 1 /\ Len(s) \in Nat
      /\ \A i \in 1..Len(s) : Append(s, e)[i] = s[i]
      /\ Append(s, e)[Len(s) + 1] = e
  BY AppendIs
<1>2. DOMAIN s = 1..Len(s) /\ DOMAIN Append(s, e) = 1..Len(s) + 1
  BY <1>1, IsSeqLen
<1>3. \A i \in 1..Len(s) + 1 : i \in 1..Len(s) \/ i = Len(s) + 1
  BY <1>1
<1> QED BY <1>1, <1>2, <1>3 DEF Range

LEMMA RangeOfConcat ==
    ASSUME NEW s, NEW t, IsSeq(s), IsSeq(t)
    PROVE  Range(s \o t) \subseteq Range(s) \cup Range(t)
<1>1. /\ IsSeq(s \o t) /\ Len(s) \in Nat /\ Len(t) \in Nat
      /\ Len(s \o t) = Len(s) + Len(t)
      /\ \A i \in 1..Len(s) : (s \o t)[i] = s[i]
      /\ \A i \in 1..Len(t) : (s \o t)[Len(s) + i] = t[i]
  BY ConcatIs
<1>2. DOMAIN s = 1..Len(s) /\ DOMAIN t = 1..Len(t) /\ DOMAIN (s \o t) = 1..Len(s) + Len(t)
  BY <1>1, IsSeqLen
<1>3. \A i \in 1..Len(s) + Len(t) : i \in 1..Len(s) \/ \E x \in 1..Len(t) : i = Len(s) + x
  <2>1. PICK m \in Nat, n \in Nat : m = Len(s) /\ n = Len(t)
    BY <1>1
  <2>2. \A i \in 1..m + n : i \in 1..m \/ (i - m \in 1..n /\ i = m + (i - m))
    OBVIOUS
  <2> QED BY <2>1, <2>2
<1> QED BY <1>1, <1>2, <1>3, SMTT(30) DEF Range

LEMMA RangeOfEmpty == Range(<<>>) = {}
<1>1. DOMAIN <<>> = 1..Len(<<>>) /\ Len(<<>>) = 0
  BY EmptyIs, IsSeqLen
<1> QED BY <1>1 DEF Range

LEMMA RangeOfOne ==
    ASSUME NEW e
    PROVE  Range(<<e>>) \subseteq {e} /\ Range(Append(<<>>, e)) \subseteq {e}
<1>1. IsSeq(<<e>>) /\ Len(<<e>>) = 1 /\ <<e>>[1] = e
  BY OneIs
<1>2. DOMAIN <<e>> = 1..1
  BY <1>1, IsSeqLen
<1>3. Range(<<e>>) \subseteq {e}
  BY <1>1, <1>2 DEF Range
<1>4. Range(Append(<<>>, e)) \subseteq Range(<<>>) \cup {e}
  BY EmptyIs, RangeOfAppend
<1> QED BY <1>3, <1>4, RangeOfEmpty

-----------------------------------------------------------------------------
(* What is gone is sent, or in the line.                                   *)
LEMMA InGone ==
    ASSUME NEW d, NEW l, NEW e
    PROVE  e \in GoneIn(d, l) <=>
              \/ \E k \in 1..Len(d) : e = d[k]
              \/ \E p \in DOMAIN l : \E x \in 1..Len(l[p].alerts) :
                    e = Item(l[p].alerts[x], l[p].id)
<1>1. PICK w : w = [i \in Nat |-> <<>>]
  OBVIOUS
<1>2. GoneIn(d, l) = ItemsFrom(d, l, w)
  BY <1>1 DEF GoneIn
<1>3. ASSUME NEW i \in Nat PROVE ~(\E x \in 1..Len(w[i]) : e = Item(w[i][x], i))
  <2>1. w[i] = <<>> /\ 1..Len(<<>>) = {}
    BY <1>1, EmptyIs
  <2> QED BY <2>1
<1>4. e \in ItemsFrom(d, l, w) <=>
              \/ \E k \in 1..Len(d) : e = d[k]
              \/ \E p \in DOMAIN l : \E x \in 1..Len(l[p].alerts) :
                    e = Item(l[p].alerts[x], l[p].id)
              \/ \E i \in Nat : \E x \in 1..Len(w[i]) : e = Item(w[i][x], i)
  BY InItems
<1> QED BY <1>2, <1>3, <1>4

LEMMA GoneIs ==
    ASSUME IInv, NEW e \in Gone
    PROVE  e.alert \in Issue /\ e.alert.n \in Nat /\ e.id \in 0..nextID /\ e.id \in Nat
<1>1. LineOK(Line, nextID) /\ SentOK(delivered, nextID) /\ nextID \in Nat
  BY DEF IInv, InOrder, Tidy, Scalars
<1>2. e.alert \in Issue /\ e.id \in 0..nextID
  <2>1. ASSUME NEW k \in 1..Len(delivered), e = delivered[k]
        PROVE  e.alert \in Issue /\ e.id \in 0..nextID
    <3>1. delivered[k] \in [alert : Issue, id : Nat]
      BY <1>1, ElementOf DEF SentOK
    <3> QED BY <1>1, <2>1, <3>1 DEF SentOK
  <2>2. ASSUME NEW p \in DOMAIN Line, NEW x \in 1..Len(Line[p].alerts),
               e = Item(Line[p].alerts[x], Line[p].id)
        PROVE  e.alert \in Issue /\ e.id \in 0..nextID
    <3>1. Line[p].alerts \in Seq(Issue) /\ Line[p].id \in 0..nextID
      BY <1>1 DEF LineOK
    <3>2. Line[p].alerts[x] \in Issue
      BY <3>1, ElementOf
    <3> QED BY <2>2, <3>1, <3>2, ItemOf
  <2> QED BY <2>1, <2>2, InGone DEF Gone
<1> QED BY <1>1, <1>2 DEF Issue

LEMMA FiringIs ==
    ASSUME IInv, NEW i
    PROVE  FiringOf(Gone, i) \subseteq Nat
BY GoneIs DEF FiringOf

(* A batch on its way is in the line.                                      *)
LEMMA OnLine ==
    ASSUME IInv, NEW b \in OnItsWay
    PROVE  /\ \E p \in DOMAIN Line : Line[p] = Core(b)
           /\ b.id \in 0..nextID /\ b.id \in Nat /\ b.update \in BOOLEAN
           /\ b.alerts \in Seq(Issue) /\ 1 \in 1..Len(b.alerts) /\ IsBatch(b)
<1>1. Shapes /\ LineOK(Line, nextID) /\ nextID \in Nat
  BY DEF IInv, InOrder, Tidy, Scalars
<1>2. /\ Places(group, 0) /\ Places(batches, Len(group))
      /\ Places(handing, Len(group) + Len(batches))
      /\ Places(ready, Len(group) + Len(batches) + Len(handing))
  BY <1>1, InLine
<1>3. ASSUME NEW s, BatchesOK(s), NEW o, Places(s, o), b \in Range(s)
      PROVE  IsBatch(b) /\ \E p \in DOMAIN Line : Line[p] = Core(b)
  <2>1. DOMAIN s = 1..Len(s)
    BY <1>3, IsSeqLen DEF BatchesOK
  <2>2. PICK x \in 1..Len(s) : b = s[x]
    BY <1>3, <2>1 DEF Range
  <2>3. IsBatch(b)
    BY <1>3, <2>1, <2>2 DEF BatchesOK
  <2>4. o + x \in DOMAIN Line /\ Line[o + x] = Core(b)
    BY <1>3, <2>2 DEF Places
  <2> QED BY <2>3, <2>4
<1>4. IsBatch(b) /\ \E p \in DOMAIN Line : Line[p] = Core(b)
  <2>1. BatchesOK(group) /\ BatchesOK(batches) /\ BatchesOK(handing) /\ BatchesOK(ready)
    BY <1>1 DEF Shapes
  <2>2. b \in Range(group) \/ b \in Range(batches) \/ b \in Range(handing) \/ b \in Range(ready)
    BY DEF OnItsWay
  <2>3. CASE b \in Range(group)
    BY <1>2, <1>3, <2>1, <2>3
  <2>4. CASE b \in Range(batches)
    BY <1>2, <1>3, <2>1, <2>4
  <2>5. CASE b \in Range(handing)
    BY <1>2, <1>3, <2>1, <2>5
  <2>6. CASE b \in Range(ready)
    BY <1>2, <1>3, <2>1, <2>6
  <2> QED BY <2>2, <2>3, <2>4, <2>5, <2>6
<1>5. PICK p \in DOMAIN Line : Line[p] = Core(b)
  BY <1>4
<1>6. Line[p].id = b.id /\ Line[p].alerts = b.alerts /\ Line[p].update = b.update
  BY <1>5 DEF Core
<1>7. b.id \in 0..nextID /\ b.update \in BOOLEAN /\ b.alerts \in Seq(Issue) /\ b.alerts # <<>>
  BY <1>1, <1>6 DEF LineOK
<1>8. 1 \in 1..Len(b.alerts)
  BY <1>7, HeadIs
<1> QED BY <1>1, <1>4, <1>7, <1>8

(* What is gone of an incident is older than what it holds back.           *)
LEMMA GoneFirst ==
    ASSUME IInv, NEW e \in Gone, e.id # 0, NEW x \in 1..Len(Waiting[e.id])
    PROVE  e.alert.n < Waiting[e.id][x].n
<1>1. SentThenWaiting(Off, delivered, Waiting) /\ LineThenWaiting(Off, Line, Waiting)
  BY DEF IInv, InOrder, Tidy, OrderOf
<1>2. e.id \in Nat
  BY GoneIs
<1>3. Fits(Off, e.alert, e.id, Waiting[e.id][x], e.id)
  <2>1. ASSUME NEW k \in 1..Len(delivered), e = delivered[k]
        PROVE  Fits(Off, e.alert, e.id, Waiting[e.id][x], e.id)
    BY <1>1, <1>2, <2>1 DEF SentThenWaiting, Under
  <2>2. ASSUME NEW p \in DOMAIN Line, NEW y \in 1..Len(Line[p].alerts),
               e = Item(Line[p].alerts[y], Line[p].id)
        PROVE  Fits(Off, e.alert, e.id, Waiting[e.id][x], e.id)
    <3>1. e.alert = Line[p].alerts[y] /\ e.id = Line[p].id
      BY <2>2, ItemOf
    <3>2. AllFit(Off, Line[p].alerts, Line[p].id, Waiting[e.id], e.id)
      BY <1>1, <1>2 DEF LineThenWaiting
    <3> QED BY <3>1, <3>2 DEF AllFit
  <2> QED BY <2>1, <2>2, InGone DEF Gone
<1> QED BY <1>3 DEF Fits, Rel


-----------------------------------------------------------------------------
(* d grew at the end, if at all.                                           *)
Longer(d, dd) == \A k \in 1..Len(d) : k \in 1..Len(dd) /\ dd[k] = d[k]

LEMMA AnsweredStays ==
    ASSUME NEW d, NEW dd, Longer(d, dd), NEW i, NEW n, Answered(d, i, n)
    PROVE  Answered(dd, i, n)
BY DEF Answered, Longer

(* A batch still tells all if nothing older of its incident has come.      *)
LEMMA ToldStays ==
    ASSUME NEW G, NEW GG, NEW d, NEW dd, NEW b, ToldIn(G, d, b), Longer(d, dd),
           G \subseteq GG,
           \A e \in GG \ G : b.id # 0 => ~(e.id = b.id /\ e.alert.n < b.alerts[1].n)
    PROVE  ToldIn(GG, dd, b)
<1>1. ASSUME b.id # 0 PROVE Below(GG, b.id, b.alerts[1].n) = Below(G, b.id, b.alerts[1].n)
  BY <1>1 DEF Below, FiringOf
<1>2. b.prev # 0 => Answered(dd, b.id, b.prev)
  BY AnsweredStays DEF ToldIn
<1> QED BY <1>1, <1>2 DEF ToldIn

(* An incident still knows all if no firing alert of it has come.          *)
LEMMA KnownStays ==
    ASSUME NEW G, NEW GG, NEW d, NEW dd, NEW c, NEW i, KnownIn(G, d, c, i), Longer(d, dd),
           G \subseteq GG, \A e \in GG \ G : e.id # i
    PROVE  KnownIn(GG, dd, c, i)
<1>1. FiringOf(GG, i) = FiringOf(G, i)
  BY DEF FiringOf
<1>2. c.summary # 0 => Answered(dd, i, c.summary)
  BY AnsweredStays DEF KnownIn
<1> QED BY <1>1, <1>2 DEF KnownIn

(* The parts of an incident that KnownIn depends on.                       *)
SameMemory(c, cc) ==
    /\ cc.subjects = c.subjects /\ cc.hasHost = c.hasHost /\ cc.last = c.last
    /\ cc.earlier = c.earlier /\ cc.summary = c.summary

LEMMA KnownSame ==
    ASSUME NEW G, NEW d, NEW c, NEW cc, NEW i, KnownIn(G, d, c, i), SameMemory(c, cc)
    PROVE  KnownIn(G, d, cc, i)
BY DEF KnownIn, SameMemory

(* A step that moves batches, and lets incidents close.                    *)
LEMMA StoryMoves ==
    ASSUME Told, Known, Line' = Line, delivered' = delivered, OnItsWay' \subseteq OnItsWay,
           DOMAIN open' \subseteq DOMAIN open, \A i \in DOMAIN open' : open'[i] = open[i]
    PROVE  Told' /\ Known'
<1>1. Gone' = Gone
  BY DEF Gone
<1>2. Told'
  BY <1>1 DEF Told
<1>3. Known'
  BY <1>1 DEF Known
<1> QED BY <1>2, <1>3

(* The steps of the loops, and Tick, Wake and Close.                       *)
LEMMA StoryIdle ==
    ASSUME Told, Known, UNCHANGED <<open, ready, handing, batches, group, delivered>>
    PROVE  Told' /\ Known'
<1>1. Line' = Line /\ OnItsWay' = OnItsWay
  BY SameLine DEF OnItsWay
<1> QED BY <1>1, StoryMoves

LEMMA StoryRestart ==
    ASSUME IInv, Told, Known, Restart
    PROVE  Told' /\ Known'
<1>1. /\ pc = "done" /\ open' = <<>> /\ ready' = <<>>
      /\ UNCHANGED <<handing, batches, group, delivered>>
  BY DEF Restart, Delivered, deliverer
<1>2. ready = <<>>
  BY <1>1 DEF IInv, Stages
<1>3. DOMAIN open' = {}
  <2>1. DOMAIN <<>> = 1..Len(<<>>) /\ Len(<<>>) = 0
    BY EmptyIs, IsSeqLen
  <2> QED BY <1>1, <2>1
<1>4. Line' = Line /\ OnItsWay' = OnItsWay
  BY <1>1, <1>2, SameLine DEF OnItsWay
<1> QED BY <1>1, <1>3, <1>4, StoryMoves

LEMMA StoryHand ==
    ASSUME IInv, Told, Known, Hand
    PROVE  Told' /\ Known'
<1>1. /\ handing # <<>> /\ batches' = Append(batches, Head(handing)) /\ handing' = Tail(handing)
      /\ UNCHANGED <<open, ready, group, delivered>>
  BY DEF Hand, grouper, deliverer
<1>2. Four(group, batches, handing, ready)
  BY FourIs DEF IInv
<1>3. Line' = Line
  BY HandKeeps
<1>4. OnItsWay' \subseteq OnItsWay
  <2>1. Head(handing) \in Range(handing) /\ Range(handing') \subseteq Range(handing)
    BY <1>1, <1>2, RangeOfTail DEF Four
  <2>2. Range(batches') \subseteq Range(batches) \cup {Head(handing)}
    BY <1>1, <1>2, RangeOfAppend DEF Four
  <2>3. OnItsWay' = (Range(group) \cup Range(batches')) \cup (Range(handing') \cup Range(ready))
    BY <1>1 DEF OnItsWay
  <2> QED BY <2>1, <2>2, <2>3 DEF OnItsWay
<1> QED BY <1>1, <1>3, <1>4, StoryMoves

LEMMA StoryFetch ==
    ASSUME IInv, Told, Known, Fetch
    PROVE  Told' /\ Known'
<1>1. /\ batches # <<>> /\ group' = Append(group, Head(batches)) /\ batches' = Tail(batches)
      /\ UNCHANGED <<open, ready, handing, delivered>>
  BY DEF Fetch, grouper
<1>2. Four(group, batches, handing, ready)
  BY FourIs DEF IInv
<1>3. Line' = Line
  BY FetchKeeps
<1>4. OnItsWay' \subseteq OnItsWay
  <2>1. Head(batches) \in Range(batches) /\ Range(batches') \subseteq Range(batches)
    BY <1>1, <1>2, RangeOfTail DEF Four
  <2>2. Range(group') \subseteq Range(group) \cup {Head(batches)}
    BY <1>1, <1>2, RangeOfAppend DEF Four
  <2>3. OnItsWay' = (Range(group') \cup Range(batches')) \cup (Range(handing) \cup Range(ready))
    BY <1>1 DEF OnItsWay
  <2> QED BY <2>1, <2>2, <2>3 DEF OnItsWay
<1> QED BY <1>1, <1>3, <1>4, StoryMoves

(* Analyze: a summary is the number of the first firing alert of its batch. *)
LEMMA StoryAnalyze ==
    ASSUME IInv, Told, Known, Analyze
    PROVE  Told' /\ Known'
<1>1. UNCHANGED <<open, ready, handing, batches, delivered>>
  BY DEF Analyze, grouper
<1>2. PICK done \in SUBSET {i \in DOMAIN group : audible(group[i].alerts)} :
           group' = [i \in DOMAIN group |->
                      IF i \in done
                      THEN [group[i] EXCEPT !.summary = FiringNumbers(group[i].alerts)[1]]
                      ELSE group[i]]
  BY DEF Analyze
<1>3. Line' = Line /\ Gone' = Gone
  BY <1>1, AnalyzeKeeps DEF Gone
<1>4. Known'
  BY <1>1, <1>3 DEF Known
<1>5. ASSUME NEW i \in DOMAIN group PROVE ToldIn(Gone, delivered, group'[i])
  <2>1. group[i] \in OnItsWay
    BY DEF OnItsWay, Range
  <2>2. PICK b : b = group[i]
    OBVIOUS
  <2>3. ToldIn(Gone, delivered, b) /\ b.alerts \in Seq(Issue) /\ IsBatch(b)
    BY <2>1, <2>2, OnLine DEF Told
  <2>4. CASE i \notin done
    BY <1>2, <2>2, <2>3, <2>4
  <2>5. CASE i \in done
    <3>1. Fires(b.alerts) # {}
      BY <2>2, <2>5 DEF audible
    <3>2. PICK f \in Seq(Nat) : /\ f = FiringNumbers(b.alerts) /\ 1 \in 1..Len(f)
                                /\ Range(f) = {b.alerts[x].n : x \in Fires(b.alerts)}
      BY <2>3, <3>1, FiringNumbersAre
    <3>3. PICK v \in Nat : v = f[1]
      BY <3>2, ElementOf
    <3>4. v \in Range(f)
      BY <3>2, <3>3, SeqIs DEF Range
    <3>5. \E x \in 1..Len(b.alerts) : b.alerts[x].n = v
      <4>1. PICK x \in Fires(b.alerts) : v = b.alerts[x].n
        BY <3>2, <3>4
      <4>2. x \in 1..Len(b.alerts)
        BY <2>3, SeqIs DEF Fires
      <4> QED BY <4>1, <4>2
    <3>6. PICK c : c = [b EXCEPT !.summary = v]
      OBVIOUS
    <3>7. c = [id |-> b.id, update |-> b.update, alerts |-> b.alerts,
               earlier |-> b.earlier, prev |-> b.prev, summary |-> v]
      BY <2>3, <3>6 DEF IsBatch
    <3>8. /\ c.id = b.id /\ c.alerts = b.alerts /\ c.earlier = b.earlier /\ c.prev = b.prev
          /\ c.summary = v
      BY <3>7
    <3>9. ToldIn(Gone, delivered, c)
      BY <2>3, <3>5, <3>8 DEF ToldIn
    <3> QED BY <1>2, <2>2, <2>5, <3>2, <3>3, <3>6, <3>9
  <2> QED BY <2>4, <2>5
<1>6. ASSUME NEW b \in OnItsWay' PROVE ToldIn(Gone, delivered, b)
  <2>1. DOMAIN group' = DOMAIN group
    BY <1>2
  <2>2. b \in Range(group') \/ b \in OnItsWay
    BY <1>1 DEF OnItsWay
  <2>3. CASE b \in Range(group')
    BY <1>5, <2>1, <2>3 DEF Range
  <2> QED BY <2>2, <2>3 DEF Told
<1>7. Told'
  BY <1>1, <1>3, <1>6 DEF Told
<1> QED BY <1>4, <1>7

(* Send: what was in the line is sent, and the summary is answered for.    *)
LEMMA LeavesGone ==
    ASSUME NEW n \in Nat \ {0}, NEW d, NEW l, NEW dd, NEW ll, Leaves(n, d, l, dd, ll),
           Len(d) \in Nat, l[1].alerts \in Seq(Issue)
    PROVE  /\ GoneIn(dd, ll) = GoneIn(d, l) /\ Longer(d, dd)
           /\ \A x \in 1..Len(l[1].alerts) : Answered(dd, l[1].id, l[1].alerts[x].n)
<1>1. Len(l[1].alerts) \in Nat
  OBVIOUS
<1>2. GoneIn(dd, ll) = GoneIn(d, l)
  BY <1>1, LeavesItems DEF GoneIn
<1>3. /\ \A k \in 1..Len(d) : k \in 1..Len(dd) /\ dd[k] = d[k]
      /\ \A x \in 1..Len(l[1].alerts) :
            /\ Len(d) + x \in 1..Len(dd)
            /\ dd[Len(d) + x] = Item(l[1].alerts[x], l[1].id)
            /\ dd[Len(d) + x].id = l[1].id
  BY <1>1, LeavesPlaces
<1>4. \A x \in 1..Len(l[1].alerts) : Answered(dd, l[1].id, l[1].alerts[x].n)
  BY <1>3, ItemOf, SMTT(30) DEF Answered
<1> QED BY <1>2, <1>3, <1>4 DEF Longer

LEMMA StorySend ==
    ASSUME IInv, Told, Known, Send
    PROVE  Told' /\ Known'
<1> DEFINE N == Total(group, batches, handing, ready)
<1>1. PICK b : b = Head(group)
  OBVIOUS
<1>2. /\ group' = Tail(group) /\ SetSummary(b.id, b.summary)
      /\ UNCHANGED <<ready, handing, batches>>
  BY <1>1 DEF Send
<1>3. /\ group # <<>> /\ Line[1] = Core(b)
      /\ N \in Nat \ {0} /\ Leaves(N, delivered, Line, delivered', Line')
  BY <1>1, SendLeaves
<1> HIDE DEF N
<1>4. IsSeq(group) /\ Len(delivered) \in Nat
  BY SeqIs DEF IInv, Shapes, BatchesOK, InOrder, Tidy, SentOK
<1>5. b \in OnItsWay /\ OnItsWay' \subseteq OnItsWay
  <2>1. Head(group) \in Range(group) /\ Range(group') \subseteq Range(group)
    BY <1>2, <1>3, <1>4, RangeOfTail
  <2> QED BY <1>1, <1>2, <2>1 DEF OnItsWay
<1>6. /\ ToldIn(Gone, delivered, b) /\ b.alerts \in Seq(Issue) /\ b.id \in Nat
      /\ Line[1].id = b.id /\ Line[1].alerts = b.alerts
  BY <1>3, <1>5, OnLine DEF Told, Core
<1>7. /\ Gone' = Gone /\ Longer(delivered, delivered')
      /\ \A x \in 1..Len(b.alerts) : Answered(delivered', b.id, b.alerts[x].n)
  <2>1. Line[1].alerts \in Seq(Issue)
    BY <1>6
  <2>2. /\ GoneIn(delivered', Line') = GoneIn(delivered, Line) /\ Longer(delivered, delivered')
        /\ \A x \in 1..Len(Line[1].alerts) : Answered(delivered', Line[1].id, Line[1].alerts[x].n)
    BY <1>3, <1>4, <2>1, LeavesGone
  <2> QED BY <1>6, <2>2 DEF Gone
<1>8. Told'
  <2>1. ASSUME NEW c \in OnItsWay' PROVE ToldIn(Gone, delivered', c)
    BY <1>5, <1>7, ToldStays DEF Told
  <2> QED BY <1>7, <2>1 DEF Told
<1>9. \A i \in DOMAIN open : KnownIn(Gone, delivered', open[i], i)
  BY <1>7, KnownStays DEF Known
<1>10. b.summary # 0 => Answered(delivered', b.id, b.summary)
  BY <1>6, <1>7 DEF ToldIn
<1>11. ASSUME NEW i \in DOMAIN open' PROVE KnownIn(Gone, delivered', open'[i], i)
  <2>1. CASE open' = open
    BY <1>9, <2>1
  <2>2. CASE /\ b.summary # 0 /\ b.id \in DOMAIN open
             /\ open' = [open EXCEPT ![b.id].summary = b.summary]
    <3>1. DOMAIN open' = DOMAIN open
      BY <2>2
    <3>2. CASE i # b.id
      BY <1>9, <2>2, <3>1, <3>2
    <3>3. CASE i = b.id
      <4>1. PICK c : c = open[i]
        OBVIOUS
      <4>2. IsIncident(c) /\ KnownIn(Gone, delivered', c, i)
        BY <1>9, <3>1, <4>1 DEF IInv, Shapes
      <4>3. PICK v : v = b.summary
        OBVIOUS
      <4>4. PICK cc : cc = [c EXCEPT !.summary = v]
        OBVIOUS
      <4>5. cc = [subjects |-> c.subjects, hasHost |-> c.hasHost, last |-> c.last,
                  newest |-> c.newest, notified |-> c.notified, pending |-> c.pending,
                  due |-> c.due, earlier |-> c.earlier, summary |-> v]
        BY <4>2, <4>4 DEF IsIncident
      <4>6. /\ cc.subjects = c.subjects /\ cc.hasHost = c.hasHost /\ cc.last = c.last
            /\ cc.earlier = c.earlier /\ cc.summary = v
        BY <4>5
      <4>7. v \in Nat /\ (v # 0 => Answered(delivered', i, v))
        BY <1>6, <1>10, <3>3, <4>3 DEF ToldIn
      <4>8. KnownIn(Gone, delivered', cc, i)
        BY <4>2, <4>6, <4>7 DEF KnownIn
      <4>9. open'[i] = cc
        BY <2>2, <3>1, <3>3, <4>1, <4>3, <4>4
      <4> QED BY <4>8, <4>9
    <3> QED BY <3>2, <3>3
  <2> QED BY <1>2, <2>1, <2>2 DEF SetSummary
<1>12. Known'
  BY <1>7, <1>11 DEF Known
<1> QED BY <1>8, <1>12

-----------------------------------------------------------------------------
(* Take: what incidents D held back is in the line now.                    *)
LEMMA JoinsGone ==
    ASSUME NEW n \in Nat, NEW m \in Nat, NEW ord, NEW D, NEW l, NEW w, NEW op,
           NEW ll, NEW ww, NEW opp, Joins(n, m, ord, D, l, w, op, ll, ww, opp), NEW d, NEW e
    PROVE  e \in GoneIn(d, ll) <=>
              e \in GoneIn(d, l) \/ \E i \in D : \E x \in 1..Len(w[i]) : e = Item(w[i][x], i)
<1>1. ASSUME NEW p \in DOMAIN ll, NEW x \in 1..Len(ll[p].alerts),
             e = Item(ll[p].alerts[x], ll[p].id)
      PROVE  e \in GoneIn(d, l) \/ \E i \in D : \E y \in 1..Len(w[i]) : e = Item(w[i][y], i)
  <2>1. CASE p \in DOMAIN l /\ ll[p] = l[p]
    BY <1>1, <2>1, InGone
  <2>2. CASE \E i \in 1..m : ord[i] \in D /\ ll[p].id = ord[i] /\ ll[p].alerts = w[ord[i]]
    BY <1>1, <2>2
  <2>3. \/ p \in 1..n /\ p \in DOMAIN l /\ ll[p] = l[p]
        \/ \E i \in 1..m : /\ p = n + i /\ ord[i] \in D /\ ord[i] \in Nat \ {0}
                           /\ ll[p].id = ord[i] /\ ll[p].alerts = w[ord[i]]
                           /\ ll[p].update = op[ord[i]].notified
    BY JoinsLine
  <2> QED BY <2>1, <2>2, <2>3
<1>2. ASSUME NEW p \in DOMAIN l PROVE p \in DOMAIN ll /\ ll[p] = l[p]
  BY JoinsPlaces DEF Joins
<1>3. ASSUME NEW i \in D PROVE \E p \in DOMAIN ll : ll[p].id = i /\ ll[p].alerts = w[i]
  <2>1. PICK x \in 1..m : ord[x] = i
    BY DEF Joins
  <2>2. n + x \in 1..n + m
    BY JoinsPlaces
  <2>3. n + x \in DOMAIN ll /\ ll[n + x].id = i /\ ll[n + x].alerts = w[i]
    BY <2>1, <2>2 DEF Joins
  <2> QED BY <2>3
<1>4. ASSUME e \in GoneIn(d, l) PROVE e \in GoneIn(d, ll)
  BY <1>2, <1>4, InGone
<1>5. ASSUME NEW i \in D, NEW x \in 1..Len(w[i]), e = Item(w[i][x], i) PROVE e \in GoneIn(d, ll)
  <2>1. PICK p \in DOMAIN ll : ll[p].id = i /\ ll[p].alerts = w[i]
    BY <1>3
  <2>2. x \in 1..Len(ll[p].alerts) /\ e = Item(ll[p].alerts[x], ll[p].id)
    BY <1>5, <2>1
  <2> QED BY <2>2, InGone
<1>6. ASSUME e \in GoneIn(d, ll)
      PROVE  e \in GoneIn(d, l) \/ \E i \in D : \E x \in 1..Len(w[i]) : e = Item(w[i][x], i)
  <2>1. CASE \E k \in 1..Len(d) : e = d[k]
    BY <2>1, InGone
  <2>2. CASE \E p \in DOMAIN ll : \E x \in 1..Len(ll[p].alerts) : e = Item(ll[p].alerts[x], ll[p].id)
    BY <1>1, <2>2
  <2> QED BY <1>6, <2>1, <2>2, InGone
<1> QED BY <1>4, <1>5, <1>6

(* The alerts of a batch on its way are gone.                              *)
LEMMA AlertsGone ==
    ASSUME IInv, NEW b \in OnItsWay, NEW x \in 1..Len(b.alerts)
    PROVE  Item(b.alerts[x], b.id) \in Gone
<1>1. PICK p \in DOMAIN Line : Line[p] = Core(b)
  BY OnLine
<1>2. Line[p].id = b.id /\ Line[p].alerts = b.alerts
  BY <1>1 DEF Core
<1>3. PICK e : e = Item(b.alerts[x], b.id)
  OBVIOUS
<1>4. \E y \in 1..Len(Line[p].alerts) : e = Item(Line[p].alerts[y], Line[p].id)
  BY <1>2, <1>3
<1>5. e \in GoneIn(delivered, Line)
  BY <1>4, InGone
<1> QED BY <1>3, <1>5 DEF Gone

(* GG is G and the alerts w of incident i, all of them newer.              *)
Follow(G, GG, w, i) ==
    /\ G \subseteq GG
    /\ \A x \in 1..Len(w) : Item(w[x], i) \in GG
    /\ \A e \in GG : e.id = i => e \in G \/ \E x \in 1..Len(w) : e = Item(w[x], i)
    /\ \A e \in G : e.alert.n \in Nat
    /\ \A e \in G : e.id = i => \A x \in 1..Len(w) : e.alert.n < w[x].n

(* They are what the batch of these alerts, and the incident after it,     *)
(* have to know.                                                           *)
LEMMA FollowFiring ==
    ASSUME NEW G, NEW GG, NEW w \in Seq(Issue), NEW i, Follow(G, GG, w, i)
    PROVE  FiringOf(GG, i) = FiringOf(G, i) \cup Range(FiringNumbers(w))
<1>1. Range(FiringNumbers(w)) = {w[x].n : x \in Fires(w)}
  BY FiringNumbersAre
<1>2. DOMAIN w = 1..Len(w)
  BY SeqIs
<1>3. ASSUME NEW v \in FiringOf(GG, i) PROVE v \in FiringOf(G, i) \/ v \in {w[x].n : x \in Fires(w)}
  <2>1. PICK e \in GG : e.id = i /\ e.alert.kind = "firing" /\ v = e.alert.n
    BY DEF FiringOf
  <2>2. CASE e \in G
    BY <2>1, <2>2 DEF FiringOf
  <2>3. CASE \E x \in 1..Len(w) : e = Item(w[x], i)
    BY <1>2, <2>1, <2>3, ItemOf DEF Fires
  <2> QED BY <2>1, <2>2, <2>3 DEF Follow
<1>4. ASSUME NEW v \in FiringOf(G, i) PROVE v \in FiringOf(GG, i)
  BY DEF FiringOf, Follow
<1>5. ASSUME NEW x \in Fires(w) PROVE w[x].n \in FiringOf(GG, i)
  <2>1. x \in 1..Len(w) /\ w[x].kind = "firing"
    BY <1>2 DEF Fires
  <2>2. PICK e : e = Item(w[x], i)
    OBVIOUS
  <2>3. e \in GG /\ e.id = i /\ e.alert = w[x]
    BY <2>1, <2>2, ItemOf DEF Follow
  <2> QED BY <2>1, <2>3 DEF FiringOf
<1> QED BY <1>1, <1>3, <1>4, <1>5

LEMMA FollowBelow ==
    ASSUME NEW G, NEW GG, NEW w \in Seq(Issue), w # <<>>, Ascending(w), NEW i, Follow(G, GG, w, i)
    PROVE  Below(GG, i, w[1].n) = FiringOf(G, i)
<1>1. FiringOf(GG, i) = FiringOf(G, i) \cup Range(FiringNumbers(w))
  BY FollowFiring
<1>2. Range(FiringNumbers(w)) = {w[x].n : x \in Fires(w)} /\ DOMAIN w = 1..Len(w)
  BY FiringNumbersAre, SeqIs
<1>3. 1 \in 1..Len(w)
  BY HeadIs
<1>4. ASSUME NEW v \in FiringOf(G, i) PROVE v < w[1].n
  BY <1>3 DEF FiringOf, Follow
<1>5. ASSUME NEW x \in Fires(w) PROVE ~(w[x].n < w[1].n)
  <2>1. x \in 1..Len(w)
    BY <1>2 DEF Fires
  <2>2. w[x].n \in Nat /\ w[1].n \in Nat
    <3>1. w[x] \in Issue /\ w[1] \in Issue
      BY <1>3, <2>1, ElementOf
    <3> QED BY <3>1 DEF Issue
  <2>3. CASE x = 1
    BY <2>2, <2>3
  <2>4. CASE 1 < x
    <3>1. w[1].n < w[x].n
      BY <1>3, <2>1, <2>4 DEF Ascending
    <3> QED BY <2>2, <3>1
  <2>5. x = 1 \/ 1 < x
    BY <2>1
  <2> QED BY <2>3, <2>4, <2>5
<1> QED BY <1>1, <1>2, <1>4, <1>5 DEF Below

(* The fields of a batch that is taken, and of what is left.               *)
LEMMA BatchOfKeeps ==
    ASSUME NEW i, NEW c
    PROVE  /\ BatchOf(i, c).id = i /\ BatchOf(i, c).alerts = c.pending
           /\ BatchOf(i, c).earlier = c.earlier /\ BatchOf(i, c).prev = c.summary
           /\ BatchOf(i, c).summary = 0
BY DEF BatchOf, Batch

LEMMA TakenKeeps ==
    ASSUME NEW c, IsIncident(c)
    PROVE  /\ Taken(c).subjects = c.subjects /\ Taken(c).hasHost = c.hasHost
           /\ Taken(c).last = c.last /\ Taken(c).summary = c.summary
           /\ Taken(c).earlier = LastOf(c.earlier \o FiringNumbers(c.pending), MaxEarlier)
<1>1. c = [subjects |-> c.subjects, hasHost |-> c.hasHost, last |-> c.last,
           newest |-> c.newest, notified |-> c.notified, pending |-> c.pending,
           due |-> c.due, earlier |-> c.earlier, summary |-> c.summary]
  BY DEF IsIncident
<1>2. PICK x : x = LastOf(c.earlier \o FiringNumbers(c.pending), MaxEarlier)
  OBVIOUS
<1>3. Taken(c) = [c EXCEPT !.notified = TRUE, !.pending = <<>>, !.due = 0, !.earlier = x]
  BY <1>2 DEF Taken
<1>4. Taken(c) = [subjects |-> c.subjects, hasHost |-> c.hasHost, last |-> c.last,
           newest |-> c.newest, notified |-> TRUE, pending |-> <<>>,
           due |-> 0, earlier |-> x, summary |-> c.summary]
  BY <1>1, <1>3
<1> QED BY <1>2, <1>4

(* An incident that is taken, and its batch.                               *)
LEMMA TakenKnows ==
    ASSUME NEW G, NEW GG, NEW d, NEW c, NEW i, KnownIn(G, d, c, i), IsIncident(c),
           c.pending \in Seq(Issue), c.pending # <<>>, Ascending(c.pending),
           Follow(G, GG, c.pending, i)
    PROVE  ToldIn(GG, d, BatchOf(i, c)) /\ KnownIn(GG, d, Taken(c), i)
<1>1. PICK b : b = BatchOf(i, c)
  OBVIOUS
<1>2. PICK cc : cc = Taken(c)
  OBVIOUS
<1>3. PICK w \in Seq(Issue) : w = c.pending
  OBVIOUS
<1>4. PICK S : S = FiringOf(G, i)
  OBVIOUS
<1>5. b.id = i /\ b.alerts = w /\ b.earlier = c.earlier /\ b.prev = c.summary /\ b.summary = 0
  BY <1>1, <1>3, BatchOfKeeps
<1>6. /\ cc.subjects = c.subjects /\ cc.hasHost = c.hasHost /\ cc.last = c.last
      /\ cc.summary = c.summary
      /\ cc.earlier = LastOf(c.earlier \o FiringNumbers(w), MaxEarlier)
  BY <1>2, <1>3, TakenKeeps
<1>7. Below(GG, i, w[1].n) = S /\ FiringOf(GG, i) = S \cup Range(FiringNumbers(w))
  BY <1>3, <1>4, FollowBelow, FollowFiring
<1>8. Recalls(c.earlier, S) /\ c.earlier \in Seq(Nat) /\ c.summary \in Nat
      /\ (c.summary # 0 => Answered(d, i, c.summary))
  BY <1>4 DEF KnownIn
<1>9. ToldIn(GG, d, b)
  BY <1>5, <1>7, <1>8 DEF ToldIn
<1>10. PICK t \in Seq(Nat) : /\ t = FiringNumbers(w) /\ Rises(t)
                             /\ Range(t) = {w[x].n : x \in Fires(w)}
  BY <1>3, FiringNumbersAre
<1>11. S \subseteq Nat
  BY <1>4 DEF FiringOf, Follow
<1>12. \A v \in S : \A x \in 1..Len(t) : v < t[x]
  <2> SUFFICES ASSUME NEW v \in S, NEW x \in 1..Len(t) PROVE v < t[x]
    OBVIOUS
  <2>1. t[x] \in Range(t)
    BY SeqIs DEF Range
  <2>2. PICK y \in Fires(w) : t[x] = w[y].n
    BY <1>10, <2>1
  <2>3. y \in 1..Len(w)
    BY SeqIs DEF Fires
  <2>4. PICK e \in G : e.id = i /\ v = e.alert.n
    BY <1>4 DEF FiringOf
  <2> QED BY <1>3, <2>2, <2>3, <2>4 DEF Follow
<1>13. cc.earlier \in Seq(Nat) /\ Recalls(cc.earlier, S \cup Range(t))
  <2>1. PICK e \in Seq(Nat) : e = c.earlier /\ Recalls(e, S)
    BY <1>8
  <2>2. LastOf(e \o t, MaxEarlier) \in Seq(Nat) /\ Recalls(LastOf(e \o t, MaxEarlier), S \cup Range(t))
    BY <1>10, <1>11, <1>12, <2>1, RecallsMore
  <2> QED BY <1>6, <1>10, <2>1, <2>2
<1>14. KnownIn(GG, d, cc, i)
  BY <1>6, <1>7, <1>8, <1>10, <1>13 DEF KnownIn
<1> QED BY <1>1, <1>2, <1>9, <1>14

LEMMA StoryTake ==
    ASSUME IInv, Told, Known, handing = <<>>, NEW D, D \subseteq Pending, Take(D),
           UNCHANGED <<batches, group, delivered>>
    PROVE  Told' /\ Known'
<1>1. PICK N \in Nat, m \in Nat : \E order, f :
         /\ Joins(N, m, order, D, Line, Waiting, open, Line', Waiting', open')
         /\ Fresh(f, m, order, open) /\ handing' = ready \o f
  BY TakeJoins
<1>2. PICK order, f :
         /\ Joins(N, m, order, D, Line, Waiting, open, Line', Waiting', open')
         /\ Fresh(f, m, order, open) /\ handing' = ready \o f
  BY <1>1
<1>3. /\ ready' = <<>> /\ D \subseteq 1..nextID /\ DOMAIN open' = DOMAIN open
      /\ \A i \in DOMAIN open : open'[i] = IF i \in D THEN Taken(open[i]) ELSE open[i]
  BY TakeJoins
<1>4. /\ Shapes /\ OpenOK /\ nextID \in Nat /\ WaitingInOrder(Off, Waiting)
  BY DEF IInv, InOrder, Tidy, OrderOf, Scalars
<1>5. \A e : e \in Gone' <=> e \in Gone \/ \E i \in D : \E x \in 1..Len(Waiting[i]) : e = Item(Waiting[i][x], i)
  <2>1. ASSUME NEW e
        PROVE  e \in GoneIn(delivered, Line') <=>
                 e \in GoneIn(delivered, Line)
                   \/ \E i \in D : \E x \in 1..Len(Waiting[i]) : e = Item(Waiting[i][x], i)
    <3>1. PICK l, ll : l = Line /\ ll = Line'
      OBVIOUS
    <3>2. PICK w, ww, oo : w = Waiting /\ ww = Waiting' /\ oo = open'
      OBVIOUS
    <3>3. Joins(N, m, order, D, l, w, open, ll, ww, oo)
      BY <1>2, <3>1, <3>2
    <3>4. e \in GoneIn(delivered, ll) <=>
             e \in GoneIn(delivered, l)
               \/ \E i \in D : \E x \in 1..Len(w[i]) : e = Item(w[i][x], i)
      BY <3>3, JoinsGone, SMTT(30)
    <3> QED BY <3>1, <3>2, <3>4
  <2> QED BY <2>1 DEF Gone
<1>6. \A i \in D : i \in DOMAIN open /\ i \in Nat /\ i # 0 /\ Waiting[i] = open[i].pending
  <2>1. D \subseteq DOMAIN open
    BY DEF Pending
  <2>2. \A i \in 1..nextID : i \in Nat /\ i # 0
    BY <1>4
  <2> QED BY <1>3, <2>1, <2>2 DEF Waiting
<1>7. ASSUME NEW i \in D
      PROVE  /\ IsIncident(open[i]) /\ open[i].pending \in Seq(Issue) /\ open[i].pending # <<>>
             /\ Ascending(open[i].pending)
  <2>1. open[i].due # 0 /\ i \in DOMAIN open
    BY DEF Pending
  <2>2. Ascending(Waiting[i])
    BY <1>4, <1>6 DEF WaitingInOrder
  <2> QED BY <1>4, <1>6, <2>1, <2>2 DEF OpenOK, Shapes
<1>8. Gone \subseteq Gone' /\ Longer(delivered, delivered')
  BY <1>5 DEF Longer
<1>9. ASSUME NEW i \in D PROVE Follow(Gone, Gone', open[i].pending, i)
  <2>1. \A x \in 1..Len(open[i].pending) : Item(open[i].pending[x], i) \in Gone'
    BY <1>5, <1>6
  <2>2. ASSUME NEW e \in Gone', e.id = i
        PROVE  e \in Gone \/ \E x \in 1..Len(open[i].pending) : e = Item(open[i].pending[x], i)
    <3>1. CASE \E j \in D : \E x \in 1..Len(Waiting[j]) : e = Item(Waiting[j][x], j)
      <4>1. PICK j \in D : \E x \in 1..Len(Waiting[j]) : e = Item(Waiting[j][x], j)
        BY <3>1
      <4>2. j = i
        BY <2>2, <4>1, ItemOf
      <4> QED BY <1>6, <4>1, <4>2
    <3> QED BY <1>5, <2>2, <3>1
  <2>3. \A e \in Gone : e.alert.n \in Nat
    BY GoneIs
  <2>4. ASSUME NEW e \in Gone, e.id = i, NEW x \in 1..Len(open[i].pending)
        PROVE  e.alert.n < open[i].pending[x].n
    BY <1>6, <2>4, GoneFirst
  <2> QED BY <1>8, <2>1, <2>2, <2>3, <2>4 DEF Follow
<1>10. ASSUME NEW i \in D
       PROVE  ToldIn(Gone', delivered, BatchOf(i, open[i])) /\ KnownIn(Gone', delivered, Taken(open[i]), i)
  <2>1. KnownIn(Gone, delivered, open[i], i)
    BY <1>6 DEF Known
  <2> QED BY <1>7, <1>9, <2>1, TakenKnows
<1>11. ASSUME NEW b \in OnItsWay PROVE ToldIn(Gone', delivered, b)
  <2>1. ASSUME NEW e \in Gone' \ Gone, b.id # 0
        PROVE  ~(e.id = b.id /\ e.alert.n < b.alerts[1].n)
    <3>1. PICK i \in D : \E x \in 1..Len(Waiting[i]) : e = Item(Waiting[i][x], i)
      BY <1>5
    <3>2. PICK x \in 1..Len(Waiting[i]) : e = Item(Waiting[i][x], i)
      BY <3>1
    <3>3. e.id = i /\ e.alert = Waiting[i][x]
      BY <3>2, ItemOf
    <3>4. CASE b.id = i
      <4>1. PICK g \in Gone : g = Item(b.alerts[1], b.id)
        BY OnLine, AlertsGone
      <4>2. g.id = i /\ g.alert = b.alerts[1]
        BY <3>4, <4>1, ItemOf
      <4>3. g.alert.n < Waiting[i][x].n
        BY <1>6, <4>2, GoneFirst
      <4>4. b.alerts[1].n \in Nat /\ Waiting[i][x].n \in Nat
        <5>1. Waiting[i][x] \in Issue
          BY <1>6, <1>7, ElementOf
        <5>2. g.alert.n \in Nat
          BY GoneIs
        <5> QED BY <4>2, <5>1, <5>2 DEF Issue
      <4> QED BY <3>3, <4>2, <4>3, <4>4
    <3> QED BY <3>3, <3>4
  <2>2. ToldIn(Gone, delivered, b) /\ Longer(delivered, delivered)
    BY DEF Told, Longer
  <2> QED BY <1>8, <2>1, <2>2, ToldStays
<1>12. ASSUME NEW b \in OnItsWay' PROVE ToldIn(Gone', delivered, b)
  <2>1. IsSeq(ready) /\ IsSeq(f)
    BY <1>2, <1>4 DEF Shapes, BatchesOK, Fresh
  <2>2. Range(handing') \subseteq Range(ready) \cup Range(f)
    BY <1>2, <2>1, RangeOfConcat
  <2>3. b \in OnItsWay \/ b \in Range(f)
    BY <1>3, <2>2, RangeOfEmpty DEF OnItsWay
  <2>4. CASE b \in Range(f)
    <3>1. PICK x \in 1..m : b = f[x]
      BY <1>2, <2>4 DEF Range, Fresh
    <3>2. order[x] \in D /\ b = BatchOf(order[x], open[order[x]])
      BY <1>2, <3>1 DEF Joins, Fresh
    <3> QED BY <1>10, <3>2
  <2> QED BY <1>11, <2>3, <2>4
<1>13. Told'
  BY <1>12 DEF Told
<1>14. ASSUME NEW i \in DOMAIN open PROVE KnownIn(Gone', delivered, open'[i], i)
  <2>1. CASE i \in D
    BY <1>3, <1>10, <2>1
  <2>2. CASE i \notin D
    <3>1. \A e \in Gone' \ Gone : e.id # i
      BY <1>5, <2>2, ItemOf
    <3>2. KnownIn(Gone, delivered, open[i], i) /\ Longer(delivered, delivered)
      BY DEF Known, Longer
    <3>3. KnownIn(Gone', delivered, open[i], i)
      BY <1>8, <3>1, <3>2, KnownStays
    <3> QED BY <1>3, <2>2, <3>3
  <2> QED BY <2>1, <2>2
<1>15. Known'
  BY <1>3, <1>14 DEF Known
<1> QED BY <1>13, <1>15

-----------------------------------------------------------------------------
(* Receive.                                                                *)
LEMMA NewestOfAll ==
    ASSUME IInv, queue # <<>>, NEW e \in Gone
    PROVE  e.alert.n < queue[1].n /\ e.alert.n \in Nat /\ queue[1].n \in Nat
<1>1. NumberedOf(filed, queue, Items) /\ queue \in Seq(Issue)
  BY DEF IInv, InOrder, Tidy, Items
<1>2. e \in Items
  BY InGone, InItems DEF Gone, Items
<1>3. 1 \in 1..Len(queue) /\ queue[1] \in Issue
  BY <1>1, HeadIs
<1> QED BY <1>1, <1>2, <1>3, GoneIs DEF NumberedOf, Issue

(* A batch of one alert that no incident holds back.                       *)
LEMMA StoryLone ==
    ASSUME IInv, Told, Known, handing = <<>>, ready = <<>>, queue # <<>>,
           NEW i, NEW u, NEW e, e = Batch(i, u, <<queue[1]>>), i = 0 \/ queue[1].kind = "resolved",
           \/ handing' = <<e>> /\ ready' = ready
           \/ handing' = handing /\ ready' = Append(ready, e),
           UNCHANGED <<batches, group, delivered>>,
           DOMAIN open' \subseteq DOMAIN open, i \notin DOMAIN open',
           \A j \in DOMAIN open' : open'[j] = open[j]
    PROVE  Told' /\ Known'
<1>1. PICK n \in Nat : Adds(n, Line, Item(queue[1], i), Line')
  <2>1. PICK a : a = queue[1]
    OBVIOUS
  <2>2. e = Batch(i, u, <<a>>)
    BY <2>1
  <2>3. \E n \in Nat : Adds(n, Line, Item(a, i), Line') /\ Line'[n + 1].update = u
    BY <2>2, AddLine
  <2> QED BY <2>1, <2>3
<1>2. Gone' = Gone \cup {Item(queue[1], i)}
  <2>1. \A w : ItemsFrom(delivered, Line', w) = ItemsFrom(delivered, Line, w) \cup {Item(queue[1], i)}
    BY <1>1, AddsItems
  <2> QED BY <2>1 DEF Gone, GoneIn
<1>3. OnItsWay' \subseteq OnItsWay \cup {e}
  <2>1. Range(handing') \subseteq {e} /\ Range(ready') \subseteq {e}
    BY RangeOfOne, RangeOfEmpty
  <2> QED BY <2>1 DEF OnItsWay
<1>4. ToldIn(Gone', delivered, e)
  <2>1. /\ e.id = i /\ e.alerts = <<queue[1]>> /\ e.earlier = <<>> /\ e.prev = 0 /\ e.summary = 0
    BY DEF Batch
  <2>2. e.id # 0 => Fires(e.alerts) = {}
    <3>1. <<queue[1]>>[1] = queue[1] /\ DOMAIN <<queue[1]>> = 1..1
      BY OneIs, IsSeqLen
    <3> QED BY <2>1, <3>1 DEF Fires
  <2>3. <<>> \in Seq(Nat) /\ 0 \in Nat
    OBVIOUS
  <2> QED BY <2>1, <2>2, <2>3 DEF ToldIn
<1>5. Gone \subseteq Gone' /\ Longer(delivered, delivered)
  BY <1>2 DEF Longer
<1>6. ASSUME NEW b \in OnItsWay PROVE ToldIn(Gone', delivered, b)
  <2>1. ASSUME NEW g \in Gone' \ Gone PROVE ~(g.alert.n < b.alerts[1].n)
    <3>1. g.alert = queue[1]
      BY <1>2, <2>1, ItemOf
    <3>2. PICK h \in Gone : h = Item(b.alerts[1], b.id)
      BY OnLine, AlertsGone
    <3>3. h.alert = b.alerts[1]
      BY <3>2, ItemOf
    <3>4. h.alert.n < queue[1].n /\ h.alert.n \in Nat /\ queue[1].n \in Nat
      BY NewestOfAll
    <3> QED BY <3>1, <3>3, <3>4
  <2>2. ToldIn(Gone, delivered, b)
    BY DEF Told
  <2> QED BY <1>5, <2>1, <2>2, ToldStays
<1>7. Told'
  <2>1. \A b \in OnItsWay' : ToldIn(Gone', delivered, b)
    BY <1>3, <1>4, <1>6
  <2> QED BY <2>1 DEF Told
<1>8. ASSUME NEW j \in DOMAIN open' PROVE KnownIn(Gone', delivered, open'[j], j)
  <2>1. KnownIn(Gone, delivered, open[j], j)
    BY DEF Known
  <2>2. \A g \in Gone' \ Gone : g.id # j
    BY <1>2, ItemOf
  <2>3. KnownIn(Gone', delivered, open[j], j)
    BY <1>5, <2>1, <2>2, KnownStays
  <2> QED BY <2>3
<1>9. Known'
  BY <1>8 DEF Known
<1> QED BY <1>7, <1>9

(* An alert that incident i holds back.                                    *)
LEMMA StoryHold ==
    ASSUME Told, Known, NEW i, NEW c, KnownIn(Gone, delivered, c, i), open' = WithOpen(i, c),
           UNCHANGED <<batches, group, delivered, handing, ready>>
    PROVE  Told' /\ Known'
<1>1. Line' = Line /\ OnItsWay' = OnItsWay
  BY SameLine DEF OnItsWay
<1>2. Gone' = Gone
  BY <1>1 DEF Gone
<1>3. Told'
  BY <1>1, <1>2 DEF Told
<1>4. ASSUME NEW j \in DOMAIN open' PROVE KnownIn(Gone, delivered, open'[j], j)
  <2>1. DOMAIN open' = Kept \cup {i} /\ open'[i] = c /\ \A k \in Kept : k # i => open'[k] = open[k]
    BY DEF WithOpen
  <2>2. Kept \subseteq DOMAIN open
    BY DEF Kept
  <2> QED BY <2>1, <2>2 DEF Known
<1>5. Known'
  BY <1>2, <1>4 DEF Known
<1> QED BY <1>3, <1>5

(* Neither Enqueue nor a new alert changes what an incident knows.         *)
LEMMA EnqueueKeeps ==
    ASSUME NEW c, IsIncident(c), NEW a
    PROVE  SameMemory(c, Enqueue(c, a))
<1>1. PICK x : x = Append(c.pending, a)
  OBVIOUS
<1>2. PICK y : y = IF c.due = 0 THEN now + GroupWait ELSE c.due
  OBVIOUS
<1>3. Enqueue(c, a) = [c EXCEPT !.pending = x, !.due = y]
  BY <1>1, <1>2 DEF Enqueue
<1>4. Enqueue(c, a) = [subjects |-> c.subjects, hasHost |-> c.hasHost, last |-> c.last,
           newest |-> c.newest, notified |-> c.notified, pending |-> x,
           due |-> y, earlier |-> c.earlier, summary |-> c.summary]
  BY <1>3 DEF IsIncident
<1> QED BY <1>4 DEF SameMemory

LEMMA NotedKnows ==
    ASSUME NEW G, NEW d, NEW c, NEW i, KnownIn(G, d, c, i), IsIncident(c),
           NEW a \in Issue, now \in Nat
    PROVE  KnownIn(G, d, Noted(c, a), i)
<1>1. PICK x : x = c.subjects \cup SubjectsOf[a.key]
  OBVIOUS
<1>2. PICK y : y = (c.hasHost \/ IsHost(a.key))
  OBVIOUS
<1>3. PICK z : z = a.n
  OBVIOUS
<1>4. Noted(c, a) = [c EXCEPT !.last = now, !.newest = z, !.subjects = x, !.hasHost = y]
  BY <1>1, <1>2, <1>3 DEF Noted
<1>5. Noted(c, a) = [subjects |-> x, hasHost |-> y, last |-> now,
           newest |-> z, notified |-> c.notified, pending |-> c.pending,
           due |-> c.due, earlier |-> c.earlier, summary |-> c.summary]
  BY <1>4 DEF IsIncident
<1>6. x \subseteq UNION {SubjectsOf[s] : s \in Sources}
  <2>1. a.key \in Sources
    BY DEF Issue
  <2>2. SubjectsOf[a.key] \subseteq UNION {SubjectsOf[s] : s \in Sources}
    BY <2>1
  <2> QED BY <1>1, <2>2 DEF KnownIn
<1>7. y \in BOOLEAN
  BY <1>2
<1>8. /\ Noted(c, a).subjects = x /\ Noted(c, a).hasHost = y /\ Noted(c, a).last = now
      /\ Noted(c, a).earlier = c.earlier /\ Noted(c, a).summary = c.summary
  BY <1>5
<1> QED BY <1>6, <1>7, <1>8 DEF KnownIn

LEMMA NewKnows ==
    ASSUME IInv
    PROVE  KnownIn(Gone, delivered, NewIncident, nextID + 1)
<1>1. PICK c : c = NewIncident
  OBVIOUS
<1>2. PICK e : e = <<>>
  OBVIOUS
<1>3. c.subjects = {} /\ c.hasHost = FALSE /\ c.last = 0 /\ c.earlier = e /\ c.summary = 0
  BY <1>1, <1>2 DEF NewIncident
<1>4. nextID + 1 \notin 0..nextID
  BY DEF IInv, Scalars
<1>5. FiringOf(Gone, nextID + 1) = {}
  BY <1>4, GoneIs DEF FiringOf
<1>6. Recalls(e, {})
  BY <1>2, RangeOfEmpty, EmptyIs, IncidentAssumption DEF Recalls
<1>7. e \in Seq(Nat)
  BY <1>2
<1>8. KnownIn(Gone, delivered, c, nextID + 1)
  <2>1. c.subjects \subseteq UNION {SubjectsOf[s] : s \in Sources}
    BY <1>3
  <2>2. c.hasHost \in BOOLEAN
    BY <1>3, Zenon
  <2>3. c.last \in Nat /\ c.summary \in Nat
    BY <1>3
  <2>4. c.earlier \in Seq(Nat) /\ Recalls(c.earlier, FiringOf(Gone, nextID + 1))
    BY <1>3, <1>5, <1>6, <1>7
  <2>5. c.summary # 0 => Answered(delivered, nextID + 1, c.summary)
    BY <1>3
  <2> QED BY <2>1, <2>2, <2>3, <2>4, <2>5 DEF KnownIn
<1> QED BY <1>1, <1>8

LEMMA StoryReceive ==
    ASSUME IInv, Told, Known, Receive
    PROVE  Told' /\ Known'
<1>1. /\ pc = "select" /\ handing = <<>> /\ queue # <<>>
      /\ UNCHANGED <<batches, group, delivered>>
  BY DEF Receive, deliverer
<1>2. ready = <<>>
  BY <1>1 DEF IInv, Stages
<1>3. /\ nextID \in Nat /\ now \in Nat /\ DOMAIN open \subseteq 1..nextID /\ Kept \subseteq DOMAIN open
      /\ 0 \notin DOMAIN open /\ \A j \in DOMAIN open : IsIncident(open[j])
  BY DEF IInv, Scalars, OpenOK, Shapes, Kept
<1>4. Head(queue) = queue[1] /\ queue[1].kind \in {"firing", "resolved"} /\ queue[1] \in Issue
  BY <1>1, HeadOfQueue
<1>5. PICK e : e = Batch(0, FALSE, <<queue[1]>>)
  OBVIOUS
<1>6. CASE queue[1].silenced
  <2>1. handing' = <<e>> /\ ready' = ready /\ open' = open
    BY <1>4, <1>5, <1>6 DEF Receive, grouper
  <2> QED BY <1>1, <1>2, <1>3, <1>5, <2>1, StoryLone
<1>7. CASE ~queue[1].silenced /\ Off
  <2>1. handing' = handing /\ ready' = Append(ready, e) /\ open' = open
    BY <1>4, <1>5, <1>7 DEF Receive, Add, Off
  <2> QED BY <1>1, <1>2, <1>3, <1>5, <2>1, StoryLone
<1>8. CASE ~queue[1].silenced /\ ~Off /\ queue[1].kind = "resolved"
  <2>1. AddResolved(queue[1]) /\ handing' = handing
    BY <1>4, <1>8 DEF Receive, Add, Off
  <2>2. PICK i : i = byKey[queue[1].key]
    OBVIOUS
  <2>3. CASE i \in Kept
    <3>1. open' = WithOpen(i, Enqueue(open[i], queue[1])) /\ ready' = ready
      BY <2>1, <2>2, <2>3 DEF AddResolved
    <3>2. KnownIn(Gone, delivered, Enqueue(open[i], queue[1]), i)
      <4>1. KnownIn(Gone, delivered, open[i], i) /\ SameMemory(open[i], Enqueue(open[i], queue[1]))
        BY <1>3, <2>3, EnqueueKeeps DEF Known
      <4> QED BY <4>1, KnownSame
    <3> QED BY <1>1, <2>1, <3>1, <3>2, StoryHold
  <2>4. CASE i \notin Kept
    <3>1. PICK u : u = (i # 0)
      OBVIOUS
    <3>2. PICK f : f = Batch(i, u, <<queue[1]>>)
      OBVIOUS
    <3>3. open' = [j \in Kept |-> open[j]] /\ ready' = Append(ready, f)
      BY <2>1, <2>2, <2>4, <3>1, <3>2 DEF AddResolved
    <3>4. /\ DOMAIN open' \subseteq DOMAIN open /\ i \notin DOMAIN open'
          /\ \A j \in DOMAIN open' : open'[j] = open[j]
      BY <1>3, <2>4, <3>3
    <3> QED BY <1>1, <1>2, <1>8, <2>1, <3>2, <3>3, <3>4, StoryLone
  <2> QED BY <2>3, <2>4
<1>9. CASE ~queue[1].silenced /\ ~Off /\ queue[1].kind = "firing"
  <2>1. AddFiring(queue[1]) /\ handing' = handing
    BY <1>4, <1>9 DEF Receive, Add, Off
  <2>2. PICK i : i = JoinedBy(queue[1].key)
    OBVIOUS
  <2>3. PICK c : c = IF i \in Kept THEN open[i] ELSE NewIncident
    OBVIOUS
  <2>4. open' = WithOpen(i, Enqueue(Noted(c, queue[1]), queue[1])) /\ ready' = ready
    BY <2>1, <2>2, <2>3 DEF AddFiring, Noted
  <2>5. IsIncident(c) /\ KnownIn(Gone, delivered, c, i)
    <3>1. CASE i \in Kept
      BY <1>3, <2>3, <3>1 DEF Known
    <3>2. CASE i \notin Kept
      BY <2>2, <2>3, <3>2, JoinedIs, NewKnows, NewIs
    <3> QED BY <3>1, <3>2
  <2>6. PICK o : o = Noted(c, queue[1])
    OBVIOUS
  <2>7. IsIncident(o) /\ KnownIn(Gone, delivered, o, i)
    BY <1>3, <1>4, <2>5, <2>6, NotedIs, NotedKnows
  <2>8. KnownIn(Gone, delivered, Enqueue(o, queue[1]), i)
    BY <2>7, EnqueueKeeps, KnownSame
  <2> QED BY <1>1, <2>1, <2>4, <2>6, <2>8, StoryHold
<1> QED BY <1>4, <1>6, <1>7, <1>8, <1>9

(* The other variables.                                                    *)
Formed ==
    /\ open = [i \in DOMAIN open |-> open[i]]
    /\ pc \in {"select", "due", "done"} /\ worker \in {"drain", "send"}

LEMMA EmptyFunction == <<>> = [i \in DOMAIN <<>> |-> <<>>[i]]
<1>1. <<>> \in Seq(Nat)
  OBVIOUS
<1>2. PICK n \in Nat : <<>> \in [1..n -> Nat]
  BY <1>1, SeqDef
<1> QED BY <1>2

LEMMA FormedStays ==
    ASSUME Formed, [Next]_vars
    PROVE  Formed'
<1>1. CASE Alerts
  BY <1>1 DEF Alerts, Raise, Resolve, OneOff, File, grouper, deliverer, Formed
<1>2. CASE Tick \/ Wake \/ Close
  BY <1>2 DEF Tick, Wake, Close, grouper, deliverer, Formed
<1>3. CASE Receive
  <2>1. pc' = "due" /\ worker' = worker
    BY <1>3 DEF Receive, deliverer
  <2>2. \/ open' = open \/ \E i, c : open' = WithOpen(i, c) \/ open' = [j \in Kept |-> open[j]]
    BY <1>3 DEF Receive, Add, AddResolved, AddFiring, grouper
  <2>3. ASSUME NEW i, NEW c, open' = WithOpen(i, c) PROVE open' = [j \in DOMAIN open' |-> open'[j]]
    BY <2>3 DEF WithOpen
  <2>4. ASSUME open' = [j \in Kept |-> open[j]] PROVE open' = [j \in DOMAIN open' |-> open'[j]]
    BY <2>4
  <2> QED BY <2>1, <2>2, <2>3, <2>4 DEF Formed
<1>4. CASE Due \/ Flush
  <2>1. pc' \in {"select", "done"} /\ worker' = worker
    BY <1>4 DEF Due, Flush, deliverer
  <2>2. \E D : open' = [i \in DOMAIN open |-> IF i \in D THEN Taken(open[i]) ELSE open[i]]
    BY <1>4 DEF Due, Flush, Take
  <2>3. ASSUME NEW D, open' = [i \in DOMAIN open |-> IF i \in D THEN Taken(open[i]) ELSE open[i]]
        PROVE  open' = [i \in DOMAIN open' |-> open'[i]]
    BY <2>3
  <2> QED BY <2>1, <2>2, <2>3 DEF Formed
<1>5. CASE Hand \/ Fetch
  BY <1>5 DEF Hand, Fetch, grouper, deliverer, Formed
<1>6. CASE Analyze
  BY <1>6 DEF Analyze, grouper, Formed
<1>7. CASE Send
  <2>1. pc' = pc /\ worker' \in {"drain", "send"}
    BY <1>7 DEF Send
  <2>2. open' = open \/ \E i, x : open' = [open EXCEPT ![i].summary = x]
    BY <1>7 DEF Send, SetSummary
  <2>3. ASSUME NEW i, NEW x, open' = [open EXCEPT ![i].summary = x]
        PROVE  open' = [j \in DOMAIN open' |-> open'[j]]
    BY <2>3
  <2> QED BY <2>1, <2>2, <2>3 DEF Formed
<1>8. CASE Restart
  <2>1. pc' = "select" /\ worker' = worker /\ open' = <<>>
    BY <1>8 DEF Restart, deliverer
  <2>2. open' = [i \in DOMAIN open' |-> open'[i]]
    <3>1. PICK e : e = <<>>
      OBVIOUS
    <3>2. e = [i \in DOMAIN e |-> e[i]]
      BY <3>1, EmptyFunction
    <3> QED BY <2>1, <3>1, <3>2
  <2> QED BY <2>1, <2>2 DEF Formed
<1>9. CASE UNCHANGED vars
  BY <1>9 DEF vars, grouper, deliverer, Formed
<1> QED BY <1>1, <1>2, <1>3, <1>4, <1>5, <1>6, <1>7, <1>8, <1>9 DEF Next, Dispatcher, Deliverer

LEMMA StoryStays ==
    ASSUME IInv, Told, Known, [Next]_vars
    PROVE  Told' /\ Known'
<1>1. CASE Alerts
  <2>1. UNCHANGED <<open, ready, handing, batches, group, delivered>>
    BY <1>1 DEF Alerts, Raise, Resolve, OneOff, File, grouper, deliverer
  <2> QED BY <2>1, StoryIdle
<1>2. CASE Tick \/ Wake \/ Close \/ UNCHANGED vars
  <2>1. UNCHANGED <<open, ready, handing, batches, group, delivered>>
    BY <1>2 DEF Tick, Wake, Close, vars, grouper, deliverer
  <2> QED BY <2>1, StoryIdle
<1>3. CASE Receive
  BY <1>3, StoryReceive
<1>4. CASE Due
  <2>1. handing = <<>> /\ Take(DueNow) /\ UNCHANGED <<batches, group, delivered>>
    BY <1>4 DEF Due, deliverer
  <2>2. DueNow \subseteq Pending
    BY DEF DueNow
  <2> QED BY <2>1, <2>2, StoryTake
<1>5. CASE Flush
  <2>1. handing = <<>> /\ Take(Pending) /\ UNCHANGED <<batches, group, delivered>>
    BY <1>5 DEF Flush, deliverer
  <2> QED BY <2>1, StoryTake
<1>6. CASE Hand
  BY <1>6, StoryHand
<1>7. CASE Fetch
  BY <1>7, StoryFetch
<1>8. CASE Analyze
  BY <1>8, StoryAnalyze
<1>9. CASE Send
  BY <1>9, StorySend
<1>10. CASE Restart
  BY <1>10, StoryRestart
<1> QED BY <1>1, <1>2, <1>3, <1>4, <1>5, <1>6, <1>7, <1>8, <1>9, <1>10
        DEF Next, Dispatcher, Deliverer

LEMMA StoryBegins ==
    ASSUME Init
    PROVE  Told /\ Known /\ Formed
<1>1. /\ group = <<>> /\ batches = <<>> /\ handing = <<>> /\ ready = <<>> /\ open = <<>>
      /\ pc = "select" /\ worker = "drain"
  BY DEF Init
<1>2. OnItsWay = {}
  BY <1>1, RangeOfEmpty DEF OnItsWay
<1>3. DOMAIN open = {}
  <2>1. DOMAIN <<>> = 1..Len(<<>>) /\ Len(<<>>) = 0
    BY EmptyIs, IsSeqLen
  <2> QED BY <1>1, <2>1
<1>4. Formed
  <2>1. open = [i \in DOMAIN open |-> open[i]]
    BY <1>1, EmptyFunction
  <2> QED BY <1>1, <2>1 DEF Formed
<1> QED BY <1>2, <1>3, <1>4 DEF Told, Known

(* All of it holds in every state.                                         *)
LEMMA AlwaysTold == Spec => [](IInv /\ Told /\ Known /\ Formed)
<1>1. Init => Told /\ Known /\ Formed
  BY StoryBegins
<1>2. IInv /\ (Told /\ Known /\ Formed) /\ [Next]_vars => (Told /\ Known /\ Formed)'
  BY StoryStays, FormedStays
<1>3. Spec => []IInv
  BY Inductive
<1> QED BY <1>1, <1>2, <1>3, PTL DEF Spec

-----------------------------------------------------------------------------
(* Types.                                                                  *)
LEMMA BatchesTyped ==
    ASSUME IInv, Told, NEW s, BatchesOK(s), Range(s) \subseteq OnItsWay
    PROVE  s \in Seq(Batches)
<1>1. ASSUME NEW b \in Range(s) PROVE b \in Batches
  <2>1. /\ b.id \in Nat /\ b.update \in BOOLEAN /\ b.alerts \in Seq(Issue) /\ IsBatch(b)
        /\ ToldIn(Gone, delivered, b)
    BY <1>1, OnLine DEF Told
  <2>2. b.earlier \in Seq(Nat) /\ b.prev \in Nat /\ b.summary \in Nat
    BY <2>1 DEF ToldIn
  <2>3. PICK c : c = [id |-> b.id, update |-> b.update, alerts |-> b.alerts,
                      earlier |-> b.earlier, prev |-> b.prev, summary |-> b.summary]
    OBVIOUS
  <2>4. c \in Batches
    BY <2>1, <2>2, <2>3 DEF Batches
  <2> QED BY <2>1, <2>3, <2>4 DEF IsBatch
<1>2. {s[i] : i \in DOMAIN s} \subseteq Batches
  BY <1>1 DEF Range
<1> QED BY <1>2, SeqMonotonic DEF BatchesOK, IsSeq

LEMMA IncidentTyped ==
    ASSUME IInv, Known, NEW i \in DOMAIN open
    PROVE  open[i] \in Incident
<1>1. PICK c : c = open[i]
  OBVIOUS
<1>2. /\ IsIncident(c) /\ c.pending \in Seq(Issue) /\ c.due \in Nat /\ c.newest \in 0..filed
      /\ c.notified \in BOOLEAN /\ filed \in Nat
  BY <1>1 DEF IInv, Shapes, OpenOK, Scalars
<1>3. /\ c.subjects \subseteq UNION {SubjectsOf[s] : s \in Sources}
      /\ c.hasHost \in BOOLEAN /\ c.last \in Nat
      /\ c.earlier \in Seq(Nat) /\ c.summary \in Nat
  BY <1>1 DEF Known, KnownIn
<1>4. PICK S : S = UNION {SubjectsOf[s] : s \in Sources}
  OBVIOUS
<1>5. c.newest \in Nat /\ c.subjects \in SUBSET S
  BY <1>2, <1>3, <1>4
<1>6. PICK e : e = [subjects |-> c.subjects, hasHost |-> c.hasHost, last |-> c.last,
           newest |-> c.newest, notified |-> c.notified, pending |-> c.pending,
           due |-> c.due, earlier |-> c.earlier, summary |-> c.summary]
  OBVIOUS
<1>7. e \in [subjects : SUBSET S, hasHost : BOOLEAN, last : Nat, newest : Nat, notified : BOOLEAN,
             pending : Seq(Issue), due : Nat, earlier : Seq(Nat), summary : Nat]
  BY <1>2, <1>3, <1>5, <1>6
<1> QED BY <1>1, <1>2, <1>4, <1>6, <1>7 DEF IsIncident, Incident

LEMMA TypesRight ==
    ASSUME IInv, Told, Known, Formed
    PROVE  TypeOK
<1>1. Shapes /\ Scalars /\ OpenOK /\ queue \in Seq(Issue) /\ SentOK(delivered, nextID)
  BY DEF IInv, InOrder, Tidy
<1>2. now \in Nat /\ phase \in {"run", "closed"} /\ enabled \in {"on", "off"}
      /\ filed \in Nat /\ episode \in [Keys -> 0..2] /\ nextID \in Nat /\ byKey \in [Keys -> 0..nextID]
  BY <1>1 DEF Scalars
<1>3. DOMAIN open \in SUBSET (1..nextID) /\ open \in [DOMAIN open -> Incident]
  <2>1. open = [i \in DOMAIN open |-> open[i]]
    BY DEF Formed
  <2>2. \A i \in DOMAIN open : open[i] \in Incident
    BY IncidentTyped
  <2>3. DOMAIN open \subseteq 1..nextID
    BY <1>1 DEF OpenOK
  <2> QED BY <2>1, <2>2, <2>3
<1>4. /\ ready \in Seq(Batches) /\ handing \in Seq(Batches)
      /\ batches \in Seq(Batches) /\ group \in Seq(Batches)
  <2>1. /\ Range(group) \subseteq OnItsWay /\ Range(batches) \subseteq OnItsWay
        /\ Range(handing) \subseteq OnItsWay /\ Range(ready) \subseteq OnItsWay
    BY DEF OnItsWay
  <2> QED BY <1>1, <2>1, BatchesTyped DEF Shapes
<1>5. delivered \in Seq([alert : Issue, id : Nat])
  BY <1>1 DEF SentOK
<1> QED BY <1>1, <1>2, <1>3, <1>4, <1>5 DEF TypeOK, Formed

-----------------------------------------------------------------------------
(* Two alerts that are gone, one of them sent, have different numbers if   *)
(* their incidents are different.                                          *)
LEMMA SentUnique ==
    ASSUME IInv, NEW j \in 1..Len(delivered), NEW e \in Gone, e.alert.n = delivered[j].alert.n
    PROVE  e.id = delivered[j].id
<1>1. SentInOrder(Off, delivered) /\ SentThenLine(Off, delivered, Line) /\ Len(delivered) \in Nat
  BY SeqIs DEF IInv, InOrder, Tidy, OrderOf, SentOK
<1>2. ASSUME NEW k \in 1..Len(delivered), e = delivered[k] PROVE e.id = delivered[j].id
  <2>1. k = j \/ k < j \/ j < k
    BY <1>1
  <2>2. CASE k < j
    <3>1. delivered[k].alert.n # delivered[j].alert.n
      BY <1>1, <2>2 DEF SentInOrder, Fits
    <3> QED BY <1>2, <3>1
  <2>3. CASE j < k
    <3>1. delivered[j].alert.n # delivered[k].alert.n
      BY <1>1, <2>3 DEF SentInOrder, Fits
    <3> QED BY <1>2, <3>1
  <2> QED BY <1>2, <2>1, <2>2, <2>3
<1>3. ASSUME NEW p \in DOMAIN Line, NEW x \in 1..Len(Line[p].alerts),
             e = Item(Line[p].alerts[x], Line[p].id)
      PROVE  FALSE
  <2>1. delivered[j].alert.n # Line[p].alerts[x].n
    BY <1>1 DEF SentThenLine, Under, Fits
  <2> QED BY <1>3, <2>1, ItemOf
<1> QED BY <1>2, <1>3, InGone DEF Gone

(* The elements of s at the places in I, and of these the last n.          *)
LEMMA ChosenTyped ==
    ASSUME NEW T, NEW s \in Seq(T), NEW I
    PROVE  Chosen(s, I) \in Seq(T)
<1>1. PICK c : c = Chosen(s, I)
  OBVIOUS
<1>2. Len(s) \in Nat /\ DOMAIN s = 1..Len(s)
  BY SeqIs
<1>3. IsSeq(c) /\ \A y \in 1..Len(c) : \E i \in 1..Len(s) : i \in I /\ c[y] = s[i]
  <2>1. Selects(c, s, I, Len(s))
    BY <1>1, <1>2, ChosenIs
  <2> QED BY <2>1 DEF Selects
<1>4. DOMAIN c = 1..Len(c)
  BY <1>3, IsSeqLen
<1>5. {c[i] : i \in DOMAIN c} \subseteq T
  BY <1>3, <1>4, ElementOf
<1> QED BY <1>1, <1>3, <1>5, SeqMonotonic DEF IsSeq

LEMMA LastChosen ==
    ASSUME NEW T, NEW s \in Seq(T), NEW I, NEW n \in Nat,
           NEW x \in DOMAIN LastOf(Chosen(s, I), n)
    PROVE  \E i \in DOMAIN s : i \in I /\ LastOf(Chosen(s, I), n)[x] = s[i]
<1>1. PICK c : c = Chosen(s, I)
  OBVIOUS
<1>2. Len(s) \in Nat /\ DOMAIN s = 1..Len(s)
  BY SeqIs
<1>3. \A y \in 1..Len(c) : \E i \in 1..Len(s) : i \in I /\ c[y] = s[i]
  <2>1. Selects(c, s, I, Len(s))
    BY <1>1, <1>2, ChosenIs
  <2> QED BY <2>1 DEF Selects
<1>4. c \in Seq(T)
  BY <1>1, ChosenTyped
<1>5. PICK r : r = LastOf(c, n)
  OBVIOUS
<1>6. r \in Seq(T) /\ \E k \in Nat : /\ IsRest(r, c, k)
                                     /\ k = IF Len(c) <= n THEN 0 ELSE Len(c) - n
  BY <1>4, <1>5, LastOfIs
<1>7. PICK k \in Nat : IsRest(r, c, k)
  BY <1>6
<1>8. x \in 1..Len(c) - k
  BY <1>1, <1>5, <1>6, <1>7, SeqIs DEF IsRest
<1>9. k + x \in 1..Len(c) /\ r[x] = c[k + x]
  BY <1>7, <1>8 DEF IsRest
<1>10. \E i \in 1..Len(s) : i \in I /\ r[x] = s[i]
  BY <1>3, <1>9
<1> QED BY <1>1, <1>2, <1>5, <1>10

LEMMA PastTyped ==
    ASSUME NEW T, delivered \in Seq(T), NEW s, NEW n \in Nat
    PROVE  PastOf(s, n) \in Seq(T)
<1>1. PICK J : J = {i \in DOMAIN delivered : /\ delivered[i].alert.key = s
                                             /\ ~delivered[i].alert.silenced}
  OBVIOUS
<1>2. PICK c : c = Chosen(delivered, J)
  OBVIOUS
<1>3. c \in Seq(T)
  BY <1>2, ChosenTyped
<1>4. LastOf(c, n) \in Seq(T)
  BY <1>3, LastOfIs
<1> QED BY <1>1, <1>2, <1>4 DEF PastOf

(* A row of a prompt's history was sent, for another incident.             *)
LEMMA RowsAre ==
    ASSUME IInv, NEW b, b.id # 0, b.earlier \in Seq(Nat),
           NEW s \in About(b), NEW x \in DOMAIN incidentFor(b).history[s]
    PROVE  \E j \in 1..Len(delivered) : /\ incidentFor(b).history[s][x] = delivered[j]
                                        /\ delivered[j].id # b.id
<1>1. PICK n \in Nat : n = HistoryAlerts + Len(b.earlier)
  <2>1. HistoryAlerts \in Nat /\ Len(b.earlier) \in Nat
    BY IncidentAssumption
  <2>2. HistoryAlerts + Len(b.earlier) \in Nat
    BY <2>1
  <2> QED BY <2>2
<1>2. PICK past : past = PastOf(s, n)
  OBVIOUS
<1>3. PICK I : I = {i \in DOMAIN past : b.id = 0 \/ past[i].id # b.id}
  OBVIOUS
<1>4. incidentFor(b).history[s] = LastOf(Chosen(past, I), HistoryAlerts)
  BY <1>1, <1>2, <1>3 DEF incidentFor
<1>5. PICK T : delivered \in Seq(T)
  BY DEF IInv, InOrder, Tidy, SentOK
<1>6. DOMAIN delivered = 1..Len(delivered)
  BY <1>5, SeqIs
<1>7. ASSUME NEW y \in DOMAIN past
      PROVE  \E j \in 1..Len(delivered) : past[y] = delivered[j]
  <2>1. PICK J : J = {i \in DOMAIN delivered : /\ delivered[i].alert.key = s
                                               /\ ~delivered[i].alert.silenced}
    OBVIOUS
  <2>2. past = LastOf(Chosen(delivered, J), n)
    BY <1>2, <2>1 DEF PastOf
  <2>3. y \in DOMAIN LastOf(Chosen(delivered, J), n)
    BY <2>2
  <2>4. \E i \in DOMAIN delivered : i \in J /\ LastOf(Chosen(delivered, J), n)[y] = delivered[i]
    BY <1>5, <2>3, LastChosen
  <2> QED BY <1>6, <2>2, <2>4
<1>8. x \in DOMAIN LastOf(Chosen(past, I), HistoryAlerts) /\ HistoryAlerts \in Nat
  BY <1>4, IncidentAssumption
<1>9. CASE past \in Seq(T)
  <2>1. PICK i \in DOMAIN past : i \in I /\ LastOf(Chosen(past, I), HistoryAlerts)[x] = past[i]
    BY <1>8, <1>9, LastChosen
  <2>2. past[i].id # b.id
    BY <1>3, <2>1
  <2>3. PICK j \in 1..Len(delivered) : past[i] = delivered[j]
    BY <1>7
  <2> QED BY <1>4, <2>1, <2>2, <2>3
<1>10. past \in Seq(T)
  BY <1>1, <1>2, <1>5, PastTyped
<1> QED BY <1>9, <1>10

(* The batch at the k-th place of the group is at that place of the line.  *)
LEMMA GroupPlaces ==
    ASSUME IInv
    PROVE  /\ Len(group) \in Nat /\ DOMAIN group = 1..Len(group) /\ DOMAIN Line \subseteq Nat
           /\ \A p \in 1..Len(group) : /\ p \in DOMAIN Line
                                       /\ Line[p].id = group[p].id
                                       /\ Line[p].alerts = group[p].alerts
<1>1. Shapes
  BY DEF IInv
<1>2. IsSeq(group)
  BY <1>1 DEF Shapes, BatchesOK
<1>3. Len(group) \in Nat /\ DOMAIN group = 1..Len(group)
  BY <1>2, IsSeqLen
<1>4. Places(group, 0) /\ DOMAIN Line \subseteq Nat
  BY <1>1, InLine
<1>5. ASSUME NEW p \in 1..Len(group) PROVE p \in DOMAIN Line /\ Line[p] = Core(group[p])
  <2>1. 0 + p = p
    OBVIOUS
  <2> QED BY <1>4, <2>1 DEF Places
<1>6. ASSUME NEW p \in 1..Len(group)
      PROVE  Line[p].id = group[p].id /\ Line[p].alerts = group[p].alerts
  <2>1. PICK c : c = group[p]
    OBVIOUS
  <2>2. PICK l : l = Line[p]
    OBVIOUS
  <2>3. l = Core(c)
    BY <1>5, <2>1, <2>2
  <2>4. l.id = c.id /\ l.alerts = c.alerts
    BY <2>3 DEF Core
  <2> QED BY <2>1, <2>2, <2>4
<1> QED BY <1>3, <1>4, <1>5, <1>6

(* What goes before a batch of the group is what is older of its incident. *)
LEMMA BeforeIs ==
    ASSUME IInv, NEW k \in 1..Len(group), group[k].id # 0
    PROVE  Before(k) = Below(Gone, group[k].id, group[k].alerts[1].n)
<1>1. PICK b : b = group[k]
  OBVIOUS
<1>2. /\ Len(group) \in Nat /\ DOMAIN group = 1..Len(group) /\ DOMAIN Line \subseteq Nat
      /\ \A p \in 1..Len(group) : /\ p \in DOMAIN Line
                                  /\ Line[p].id = group[p].id /\ Line[p].alerts = group[p].alerts
  BY GroupPlaces
<1>3. b \in OnItsWay /\ b.id # 0
  BY <1>1, <1>2 DEF OnItsWay, Range
<1>4. b.alerts \in Seq(Issue) /\ 1 \in 1..Len(b.alerts)
  BY <1>3, OnLine
<1>5. k \in DOMAIN Line /\ Line[k].id = b.id /\ Line[k].alerts = b.alerts
  BY <1>1, <1>2
<1>6. /\ SentThenLine(Off, delivered, Line)
      /\ \A p \in DOMAIN Line : Ascending(Line[p].alerts)
      /\ \A p, q \in DOMAIN Line : p < q =>
            AllFit(Off, Line[p].alerts, Line[p].id, Line[q].alerts, Line[q].id)
      /\ delivered \in Seq([alert : Issue, id : Nat])
  BY DEF IInv, InOrder, Tidy, OrderOf, LineInOrder, SentOK
<1>7. DOMAIN delivered = 1..Len(delivered)
  BY <1>6, SeqIs
<1>8. PICK v \in Nat : v = b.alerts[1].n
  <2>1. b.alerts[1] \in Issue
    BY <1>4, ElementOf
  <2> QED BY <2>1 DEF Issue
<1>9. ASSUME NEW i \in 1..Len(delivered), delivered[i].id = b.id, delivered[i].alert.kind = "firing"
      PROVE  delivered[i].alert.n \in Below(Gone, b.id, v)
  <2>1. delivered[i] \in Gone
    BY InGone DEF Gone
  <2>2. delivered[i].alert.n < v
    <3>1. Fits(Off, delivered[i].alert, delivered[i].id, b.alerts[1], b.id)
      BY <1>4, <1>5, <1>6 DEF SentThenLine, Under
    <3> QED BY <1>3, <1>8, <1>9, <3>1 DEF Fits, Rel
  <2> QED BY <1>9, <2>1, <2>2 DEF Below, FiringOf
<1>10. ASSUME NEW j \in 1..k - 1, group[j].id = b.id, NEW x \in Fires(group[j].alerts)
       PROVE  group[j].alerts[x].n \in Below(Gone, b.id, v)
  <2>1. j \in 1..Len(group) /\ j < k
    BY <1>2
  <2>2. PICK c \in OnItsWay : c = group[j]
    BY <1>2, <2>1 DEF OnItsWay, Range
  <2>3. x \in 1..Len(c.alerts) /\ c.alerts[x].kind = "firing"
    <3>1. DOMAIN c.alerts = 1..Len(c.alerts)
      BY OnLine, SeqIs
    <3> QED BY <2>2, <3>1 DEF Fires
  <2>4. PICK e \in Gone : e = Item(c.alerts[x], c.id)
    BY <2>3, AlertsGone
  <2>5. e.id = b.id /\ e.alert = c.alerts[x]
    BY <1>10, <2>2, <2>4, ItemOf
  <2>6. c.alerts[x].n < v
    <3>1. AllFit(Off, c.alerts, c.id, b.alerts, b.id)
      BY <1>2, <1>5, <1>6, <2>1, <2>2
    <3>2. Fits(Off, c.alerts[x], c.id, b.alerts[1], b.id)
      BY <1>4, <2>3, <3>1 DEF AllFit
    <3> QED BY <1>3, <1>8, <1>10, <2>2, <3>2 DEF Fits, Rel
  <2> QED BY <2>2, <2>3, <2>5, <2>6 DEF Below, FiringOf
<1>11. ASSUME NEW m \in Below(Gone, b.id, v)
       PROVE  \/ \E i \in 1..Len(delivered) : /\ delivered[i].id = b.id
                                              /\ delivered[i].alert.kind = "firing"
                                              /\ m = delivered[i].alert.n
              \/ \E j \in 1..k - 1 : /\ group[j].id = b.id
                                     /\ \E x \in Fires(group[j].alerts) : m = group[j].alerts[x].n
  <2>1. PICK e \in Gone : e.id = b.id /\ e.alert.kind = "firing" /\ m = e.alert.n /\ m < v
    BY DEF Below, FiringOf
  <2>2. CASE \E i \in 1..Len(delivered) : e = delivered[i]
    BY <2>1, <2>2
  <2>3. ASSUME NEW p \in DOMAIN Line, NEW x \in 1..Len(Line[p].alerts),
               e = Item(Line[p].alerts[x], Line[p].id)
        PROVE  /\ p \in 1..k - 1 /\ group[p].id = b.id
               /\ x \in Fires(group[p].alerts) /\ m = group[p].alerts[x].n
    <3>1. e.id = Line[p].id /\ e.alert = Line[p].alerts[x]
      BY <2>3, ItemOf
    <3>2. ~(k < p)
      <4>1. SUFFICES ASSUME k < p PROVE FALSE
        OBVIOUS
      <4>2. AllFit(Off, b.alerts, b.id, Line[p].alerts, Line[p].id)
        BY <1>5, <1>6, <4>1
      <4>3. Fits(Off, b.alerts[1], b.id, Line[p].alerts[x], Line[p].id)
        BY <1>4, <4>2 DEF AllFit
      <4>4. v < m
        BY <1>3, <1>8, <2>1, <3>1, <4>3 DEF Fits, Rel
      <4> QED BY <1>8, <2>1, <4>4, GoneIs
    <3>3. p # k
      <4>1. SUFFICES ASSUME p = k PROVE FALSE
        OBVIOUS
      <4>2. Ascending(b.alerts) /\ x \in 1..Len(b.alerts) /\ m = b.alerts[x].n
        BY <1>5, <1>6, <2>1, <2>3, <3>1, <4>1
      <4>3. CASE x = 1
        BY <1>8, <2>1, <4>2, <4>3
      <4>4. CASE 1 < x
        <5>1. v < m
          BY <1>4, <1>8, <4>2, <4>4 DEF Ascending
        <5> QED BY <1>8, <2>1, <5>1, GoneIs
      <4>5. x = 1 \/ 1 < x
        OBVIOUS
      <4> QED BY <4>3, <4>4, <4>5
    <3>4. p \in 1..k - 1 /\ p \in 1..Len(group)
      <4>1. p \in Nat /\ k \in Nat /\ k <= Len(group) /\ p < k
        BY <1>2, <3>2, <3>3
      <4>2. 1 <= p
        <5>1. PICK n \in Nat : DOMAIN Line = 1..n
          BY DEF IInv, InOrder, Tidy, LineOK
        <5> QED BY <5>1
      <4> QED BY <1>2, <4>1, <4>2
    <3>5. Line[p].id = group[p].id /\ Line[p].alerts = group[p].alerts
      BY <1>2, <3>4
    <3>6. x \in DOMAIN group[p].alerts
      <4>1. group[p] \in OnItsWay
        BY <1>2, <3>4 DEF OnItsWay, Range
      <4>2. DOMAIN group[p].alerts = 1..Len(group[p].alerts)
        BY <4>1, OnLine, SeqIs
      <4> QED BY <2>3, <3>5, <4>2
    <3> QED BY <2>1, <3>1, <3>4, <3>5, <3>6 DEF Fires
  <2>4. \/ \E i \in 1..Len(delivered) : e = delivered[i]
        \/ \E p \in DOMAIN Line : \E x \in 1..Len(Line[p].alerts) :
              e = Item(Line[p].alerts[x], Line[p].id)
    BY InGone DEF Gone
  <2> QED BY <2>2, <2>3, <2>4
<1>12. PICK A : A = {delivered[i].alert.n : i \in {i \in DOMAIN delivered :
                        delivered[i].id = b.id /\ delivered[i].alert.kind = "firing"}}
  OBVIOUS
<1>13. PICK B : B = UNION {{group[j].alerts[x].n : x \in Fires(group[j].alerts)} :
                             j \in {j \in 1..k - 1 : group[j].id = b.id}}
  OBVIOUS
<1>14. Before(k) = A \cup B
  BY <1>1, <1>12, <1>13 DEF Before
<1>15. A \subseteq Below(Gone, b.id, v)
  BY <1>7, <1>9, <1>12
<1>16. B \subseteq Below(Gone, b.id, v)
  BY <1>10, <1>13
<1>17. Below(Gone, b.id, v) \subseteq A \cup B
  BY <1>7, <1>11, <1>12, <1>13
<1> QED BY <1>1, <1>8, <1>14, <1>15, <1>16, <1>17

(* A prompt tells the story of its incident once and in full.              *)
LEMMA ToldOnce ==
    ASSUME IInv, Told
    PROVE  StoryOnce
<1>1. SUFFICES ASSUME NEW k \in DOMAIN group, audible(group[k].alerts), group[k].id # 0
               PROVE  LET b      == group[k]
                          prompt == incidentFor(b)
                          known  == Range(prompt.earlier) \cup {b.alerts[i].n : i \in DOMAIN b.alerts}
                      IN  /\ Recalls(prompt.earlier, Before(k))
                          /\ prompt.prev # 0 => \E i \in DOMAIN delivered :
                               delivered[i].id = b.id /\ delivered[i].alert.n = prompt.prev
                          /\ \A s \in DOMAIN prompt.history : \A i \in DOMAIN prompt.history[s] :
                               prompt.history[s][i].alert.n \notin known
  BY DEF StoryOnce
<1>2. PICK b : b = group[k]
  OBVIOUS
<1>3. k \in 1..Len(group)
  BY GroupPlaces
<1>4. b \in OnItsWay /\ b.id # 0
  BY <1>1, <1>2 DEF OnItsWay, Range
<1>5. ToldIn(Gone, delivered, b) /\ b.alerts \in Seq(Issue)
  BY <1>4, OnLine DEF Told
<1>6. Fires(b.alerts) # {}
  BY <1>1, <1>2 DEF audible
<1>7. PICK v : v = b.alerts[1].n
  OBVIOUS
<1>8. b.earlier \in Seq(Nat) /\ Recalls(b.earlier, Below(Gone, b.id, v))
  BY <1>4, <1>5, <1>6, <1>7 DEF ToldIn
<1>9. b.prev # 0 => Answered(delivered, b.id, b.prev)
  BY <1>5 DEF ToldIn
<1>10. Before(k) = Below(Gone, b.id, v)
  BY <1>1, <1>2, <1>3, <1>7, BeforeIs
<1>11. DOMAIN delivered = 1..Len(delivered)
  BY SeqIs DEF IInv, InOrder, Tidy, SentOK
<1>12. PICK q : q = incidentFor(b)
  OBVIOUS
<1>13. q.earlier = b.earlier /\ q.prev = b.prev /\ DOMAIN q.history = About(b)
  BY <1>12 DEF incidentFor
<1>14. ASSUME NEW e \in Gone, e.id = b.id, NEW s \in DOMAIN q.history, NEW i \in DOMAIN q.history[s],
              e.alert.n = q.history[s][i].alert.n
       PROVE  FALSE
  <2>1. PICK j \in 1..Len(delivered) : q.history[s][i] = delivered[j] /\ delivered[j].id # b.id
    BY <1>4, <1>8, <1>12, <1>13, RowsAre
  <2> QED BY <1>14, <2>1, SentUnique
<1>15. ASSUME NEW s \in DOMAIN q.history, NEW i \in DOMAIN q.history[s]
       PROVE  q.history[s][i].alert.n \notin Range(b.earlier)
  <2>1. SUFFICES ASSUME q.history[s][i].alert.n \in Range(b.earlier) PROVE FALSE
    OBVIOUS
  <2>2. q.history[s][i].alert.n \in FiringOf(Gone, b.id)
    BY <1>8, <2>1 DEF Recalls, Below
  <2>3. PICK e \in Gone : e.id = b.id /\ e.alert.n = q.history[s][i].alert.n
    BY <2>2 DEF FiringOf
  <2> QED BY <1>14, <2>3
<1>16. ASSUME NEW s \in DOMAIN q.history, NEW i \in DOMAIN q.history[s], NEW x \in DOMAIN b.alerts
       PROVE  q.history[s][i].alert.n # b.alerts[x].n
  <2>1. x \in 1..Len(b.alerts)
    BY <1>5, SeqIs
  <2>2. PICK e \in Gone : e = Item(b.alerts[x], b.id)
    BY <1>4, <2>1, AlertsGone
  <2>3. e.id = b.id /\ e.alert = b.alerts[x]
    BY <2>2, ItemOf
  <2> QED BY <1>14, <2>3
<1>17. Recalls(q.earlier, Before(k))
  BY <1>8, <1>10, <1>13
<1>18. q.prev # 0 => \E i \in DOMAIN delivered :
          delivered[i].id = b.id /\ delivered[i].alert.n = q.prev
  BY <1>9, <1>11, <1>13 DEF Answered
<1>19. \A s \in DOMAIN q.history : \A i \in DOMAIN q.history[s] :
          q.history[s][i].alert.n \notin Range(q.earlier) \cup {b.alerts[x].n : x \in DOMAIN b.alerts}
  BY <1>13, <1>15, <1>16
<1> QED BY <1>2, <1>12, <1>17, <1>18, <1>19

(* ContextRight.  In every state what an incident knows and what the       *)
(* batches on their way tell is right, a batch's `earlier' being the last  *)
(* firing alerts of its incident before its own: so every prompt of        *)
(* incidentFor tells of its incident in order, once and in full.           *)
THEOREM StoriesAreRight == Spec => []ContextRight
<1>1. IInv /\ Told /\ Known /\ Formed => ContextRight
  BY TypesRight, ToldOnce DEF ContextRight
<1> QED BY <1>1, AlwaysTold, PTL
=============================================================================
