---------------------------- MODULE OutputProofs ----------------------------
(***************************************************************************)
(* What leaves the program, proved: the notifications a receiver delivers  *)
(* over HTTP (Receiver) and what is kept in state_dir (Storage).  The two  *)
(* have nothing in common, and neither part below uses the other.          *)
(***************************************************************************)
EXTENDS Receiver, Storage, FiniteSetTheorems, TLAPS

(***************************************************************************)
(* Receiver, proved for any senders, any queue, any number of attempts and *)
(* of notifications: closing it is clean, and its counters tell the truth. *)
(* For the first the invariant says who may still touch the queue          *)
(* (LockOK); the rest of it are types, in four parts.  For the second it   *)
(* says where everything stands in the one order of all bodies (Order):    *)
(* what the endpoint has got is not after the body in hand, and the other  *)
(* bodies and the queue are after it.                                      *)
(***************************************************************************)

QueueTypes ==
    /\ sending \in [Senders -> {"idle", "locked"}]
    /\ gate \in {"open", "closed"}
    /\ queue \in Seq(Nat \ {0}) /\ Len(queue) <= QueueSize

WorkTypes ==
    /\ worker \in {"idle", "post", "wait", "done"}
    /\ bodies \in Seq(Body) /\ attempt \in 1..Attempts
    /\ ctx \in {"live", "cancelled"}
    /\ closing \in {"no", "waiting", "gave up", "returned"}

CountTypes ==
    /\ accepted \in Nat /\ offered \in Nat /\ refused \in Nat
    /\ sent \in Nat /\ failed \in Nat /\ dropped \in Nat /\ rendered \in Nat

ArrivalTypes == inbox \in Seq(Body) /\ good \in SUBSET Body

(* The queue is closed by Close alone, once nobody is between the look and *)
(* the send; the worker ends with it closed and empty, and has a body in   *)
(* hand exactly while it posts or waits.                                   *)
LockOK ==
    /\ NoSendOnClosed
    /\ closing # "no" => gate = "closed"
    /\ gate = "closed" => closing # "no"
    /\ worker = "done" => gate = "closed" /\ queue = <<>>
    /\ worker \in {"post", "wait"} <=> bodies # <<>>
    /\ closing = "returned" => worker = "done"
    /\ worker = "wait" => attempt < Attempts

CInv == QueueTypes /\ WorkTypes /\ CountTypes /\ ArrivalTypes /\ LockOK

LEMMA InitCInv == ASSUME Init PROVE CInv
<1>1. QueueTypes
  BY ReceiverAssumption DEF Init, QueueTypes
<1>2. WorkTypes
  BY ReceiverAssumption DEF Init, WorkTypes
<1>3. CountTypes
  BY DEF Init, CountTypes
<1>4. ArrivalTypes
  BY DEF Init, ArrivalTypes
<1>5. LockOK
  BY DEF Init, LockOK, NoSendOnClosed
<1> QED BY <1>1, <1>2, <1>3, <1>4, <1>5 DEF CInv

(* What is left of a sequence that is not empty.                           *)
LEMMA HeadTail ==
    ASSUME NEW S, NEW q \in Seq(S), q # <<>>
    PROVE  /\ Head(q) \in S /\ Tail(q) \in Seq(S)
           /\ Len(q) \in Nat \ {0} /\ Len(Tail(q)) = Len(q) - 1
OBVIOUS

(* The next body: one less is left, the worker is idle or posts it, and    *)
(* the count of attempts starts again.                                     *)
LEMMA NextBodyOK ==
    ASSUME WorkTypes, bodies # <<>>, NextBody
    PROVE  /\ Head(bodies) \in Body
           /\ bodies' \in Seq(Body)
           /\ attempt' \in 1..Attempts
           /\ worker' \in {"idle", "post"}
           /\ worker' = "post" <=> bodies' # <<>>
<1>0. bodies \in Seq(Body)
  BY DEF WorkTypes
<1>1. Head(bodies) \in Body /\ bodies' \in Seq(Body)
  BY <1>0, HeadTail DEF NextBody
<1>2. Len(bodies) \in Nat \ {0} /\ Len(bodies') = Len(bodies) - 1
  BY <1>0, HeadTail DEF NextBody
<1>3. attempt' \in 1..Attempts /\ worker' \in {"idle", "post"}
  BY ReceiverAssumption DEF NextBody
<1>4. bodies' # <<>> <=> Len(bodies') # 0
  BY <1>1
<1>5. worker' = "post" <=> Len(bodies) # 1
  BY DEF NextBody
<1> QED BY <1>1, <1>2, <1>3, <1>4, <1>5

LEMMA SendLockCInv ==
    ASSUME CInv, NEW s \in Senders, SendLock(s) PROVE CInv'
<1> USE DEF SendLock
<1>1. QueueTypes'
  BY DEF CInv, QueueTypes
<1>2. WorkTypes'
  BY DEF CInv, WorkTypes, work
<1>3. CountTypes'
  BY DEF CInv, CountTypes, arrivals
<1>4. ArrivalTypes'
  BY DEF CInv, ArrivalTypes, arrivals
<1>5. LockOK'
  BY DEF CInv, QueueTypes, LockOK, NoSendOnClosed, work
<1> QED BY <1>1, <1>2, <1>3, <1>4, <1>5 DEF CInv

LEMMA SendQueueCInv ==
    ASSUME CInv, NEW s \in Senders, SendQueue(s) PROVE CInv'
<1> USE DEF SendQueue
<1>1. gate = "open"
  BY DEF CInv, LockOK, NoSendOnClosed
<1>2. queue' \in Seq(Nat \ {0}) /\ Len(queue') <= QueueSize
  <2>1. CASE Len(queue) < QueueSize
    <3>1. accepted + 1 \in Nat \ {0}
      BY DEF CInv, CountTypes
    <3>2. queue' = Append(queue, accepted + 1)
      BY <2>1
    <3> QED BY <2>1, <3>1, <3>2, ReceiverAssumption DEF CInv, QueueTypes
  <2>2. CASE ~(Len(queue) < QueueSize)
    BY <2>2 DEF CInv, QueueTypes
  <2> QED BY <2>1, <2>2
<1>3. QueueTypes'
  BY <1>2 DEF CInv, QueueTypes
<1>4. WorkTypes'
  BY DEF CInv, WorkTypes, work
<1>5. CountTypes'
  BY DEF CInv, CountTypes, arrivals
<1>6. ArrivalTypes'
  BY DEF CInv, ArrivalTypes, arrivals
<1>7. LockOK'
  BY <1>1 DEF CInv, QueueTypes, LockOK, NoSendOnClosed, work
<1> QED BY <1>3, <1>4, <1>5, <1>6, <1>7 DEF CInv

LEMMA TakeCInv == ASSUME CInv, Take PROVE CInv'
<1>1. /\ Tail(queue) \in Seq(Nat \ {0}) /\ Len(Tail(queue)) <= QueueSize
      /\ Head(queue) \in Nat \ {0}
  BY ReceiverAssumption DEF Take, CInv, QueueTypes
<1>2. QueueTypes'
  BY <1>1 DEF Take, CInv, QueueTypes, callers
<1>3. ArrivalTypes'
  BY DEF Take, CInv, ArrivalTypes
<1>4. bodies = <<>> /\ worker # "done"
  BY DEF Take, CInv, WorkTypes, LockOK
<1>5. CASE failed' = failed + 1 /\ rendered' = rendered + 1 /\ UNCHANGED work
  <2>1. WorkTypes'
    BY <1>5 DEF Take, CInv, WorkTypes, work
  <2>2. CountTypes'
    BY <1>5 DEF Take, CInv, CountTypes, callers
  <2>3. LockOK'
    BY <1>4, <1>5 DEF Take, CInv, LockOK, NoSendOnClosed, callers, work
  <2> QED BY <1>2, <1>3, <2>1, <2>2, <2>3 DEF CInv
<1>6. ASSUME NEW b \in 0..MaxBodies,
             bodies' = [i \in 1..b |-> <<Head(queue), i>>],
             rendered' = rendered + b,
             worker' = (IF b = 0 THEN "idle" ELSE "post"),
             attempt' = 1, UNCHANGED failed
      PROVE  CInv'
  <2>1. b \in Nat
    BY ReceiverAssumption
  <2>2. \A i \in 1..b : <<Head(queue), i>> \in Body
    BY <1>1, ReceiverAssumption DEF Body
  <2>3. bodies' \in Seq(Body) /\ Len(bodies') = b
    BY <1>6, <2>1, <2>2
  <2>4. bodies' = <<>> <=> b = 0
    BY <2>1, <2>3
  <2>5. WorkTypes'
    <3>1. attempt' \in 1..Attempts
      BY <1>6, ReceiverAssumption
    <3>2. worker' \in {"idle", "post"}
      BY <1>6
    <3>3. UNCHANGED <<ctx, closing>>
      BY DEF Take
    <3> QED BY <2>3, <3>1, <3>2, <3>3 DEF CInv, WorkTypes
  <2>6. CountTypes'
    BY <1>6, <2>1 DEF Take, CInv, CountTypes, callers
  <2>7. LockOK'
    BY <1>4, <1>6, <2>4 DEF Take, CInv, LockOK, NoSendOnClosed, callers
  <2> QED BY <1>2, <1>3, <2>5, <2>6, <2>7 DEF CInv
<1> QED BY <1>5, <1>6 DEF Take

LEMMA FinishCInv == ASSUME CInv, Finish PROVE CInv'
<1> USE DEF Finish
<1>1. QueueTypes' /\ LockOK'
  BY DEF CInv, QueueTypes, LockOK, NoSendOnClosed, callers
<1>2. WorkTypes'
  BY DEF CInv, WorkTypes
<1>3. CountTypes'
  BY DEF CInv, CountTypes, callers, arrivals
<1>4. ArrivalTypes'
  BY DEF CInv, ArrivalTypes, arrivals
<1> QED BY <1>1, <1>2, <1>3, <1>4 DEF CInv

(* What every step of a body in hand leaves alone, and what it may do.     *)
LEMMA BodyCInv ==
    ASSUME CInv, worker \in {"post", "wait"},
           UNCHANGED <<callers, queue, accepted, ctx, closing>>,
           CountTypes', ArrivalTypes',
           \/ NextBody
           \/ /\ UNCHANGED bodies
              /\ worker' \in {"post", "wait"} /\ attempt' \in 1..Attempts
              /\ worker' = "wait" => attempt' < Attempts
    PROVE  CInv'
<1>1. bodies # <<>> /\ worker # "done" /\ closing # "returned"
  BY DEF CInv, LockOK
<1>2. QueueTypes'
  BY DEF CInv, QueueTypes, callers
<1>3. CASE NextBody
  <2>1. /\ bodies' \in Seq(Body) /\ attempt' \in 1..Attempts
        /\ worker' \in {"idle", "post"}
        /\ worker' = "post" <=> bodies' # <<>>
    BY <1>1, <1>3, NextBodyOK DEF CInv
  <2>2. WorkTypes'
    BY <2>1 DEF CInv, WorkTypes
  <2>3. LockOK'
    BY <1>1, <2>1 DEF CInv, LockOK, NoSendOnClosed, callers
  <2> QED BY <1>2, <2>2, <2>3 DEF CInv
<1>4. CASE /\ UNCHANGED bodies
           /\ worker' \in {"post", "wait"} /\ attempt' \in 1..Attempts
           /\ worker' = "wait" => attempt' < Attempts
  <2>1. WorkTypes'
    BY <1>4 DEF CInv, WorkTypes
  <2>2. LockOK'
    BY <1>1, <1>4 DEF CInv, LockOK, NoSendOnClosed, callers
  <2> QED BY <1>2, <2>1, <2>2 DEF CInv
<1> QED BY <1>3, <1>4

LEMMA PostOKCInv == ASSUME CInv, PostOK PROVE CInv'
<1>1. bodies # <<>> /\ NextBody
  BY DEF PostOK, CInv, LockOK
<1>2. Head(bodies) \in Body
  BY <1>1, NextBodyOK DEF CInv
<1>3. CountTypes'
  BY DEF PostOK, CInv, CountTypes, callers
<1>4. ArrivalTypes'
  BY <1>2 DEF PostOK, CInv, ArrivalTypes
<1> QED BY <1>1, <1>3, <1>4, BodyCInv DEF PostOK

LEMMA PostFailCInv ==
    ASSUME CInv, NEW r \in BOOLEAN, PostFail(r) PROVE CInv'
<1>1. bodies # <<>> /\ worker = "post"
  BY DEF PostFail, CInv, LockOK
<1>2. Head(bodies) \in Body
  BY <1>1, HeadTail DEF CInv, WorkTypes
<1>3. CountTypes'
  BY DEF PostFail, CInv, CountTypes, callers
<1>4. ArrivalTypes'
  <2>1. inbox' = inbox \/ inbox' = Append(inbox, Head(bodies))
    BY DEF PostFail
  <2> QED BY <1>2, <2>1 DEF PostFail, CInv, ArrivalTypes
<1>5. CASE r /\ attempt < Attempts
  <2>1. /\ UNCHANGED bodies /\ worker' = "wait"
        /\ attempt' \in 1..Attempts /\ attempt' < Attempts
    BY <1>5 DEF PostFail, CInv, WorkTypes
  <2> QED BY <1>1, <1>3, <1>4, <2>1, BodyCInv DEF PostFail
<1>6. CASE ~(r /\ attempt < Attempts)
  <2>1. NextBody
    BY <1>6 DEF PostFail
  <2> QED BY <1>1, <1>3, <1>4, <2>1, BodyCInv DEF PostFail
<1> QED BY <1>5, <1>6

LEMMA BackoffCInv == ASSUME CInv, Retry \/ GiveUp PROVE CInv'
<1>1. CountTypes' /\ worker = "wait"
  BY DEF Retry, GiveUp, CInv, CountTypes, callers, arrivals
<1>2. ArrivalTypes'
  BY DEF Retry, GiveUp, CInv, ArrivalTypes, arrivals
<1>3. CASE Retry
  <2>1. UNCHANGED bodies /\ worker' = "post" /\ attempt' \in 1..Attempts
    <3>1. attempt \in 1..Attempts /\ attempt < Attempts
      BY <1>3 DEF Retry, CInv, WorkTypes, LockOK
    <3>2. attempt + 1 \in 1..Attempts
      BY <3>1, ReceiverAssumption
    <3> QED BY <1>3, <3>2 DEF Retry
  <2> QED BY <1>1, <1>2, <1>3, <2>1, BodyCInv DEF Retry
<1>4. CASE GiveUp
  BY <1>1, <1>2, <1>4, BodyCInv DEF GiveUp
<1> QED BY <1>3, <1>4

(* Close has the write lock, so no Send is under way when it closes.       *)
LEMMA CloseCInv ==
    ASSUME CInv, Close \/ CloseTimeout \/ CloseReturn PROVE CInv'
<1> USE DEF Close, CloseTimeout, CloseReturn
<1>1. QueueTypes'
  BY DEF CInv, QueueTypes, callers
<1>2. WorkTypes'
  BY DEF CInv, WorkTypes, work
<1>3. CountTypes'
  BY DEF CInv, CountTypes, callers, arrivals
<1>4. ArrivalTypes'
  BY DEF CInv, ArrivalTypes, arrivals
<1>5. LockOK'
  BY DEF CInv, LockOK, NoSendOnClosed, callers, work
<1> QED BY <1>1, <1>2, <1>3, <1>4, <1>5 DEF CInv

LEMMA StutterCInv == ASSUME CInv, UNCHANGED vars PROVE CInv'
BY DEF CInv, QueueTypes, WorkTypes, CountTypes, ArrivalTypes, LockOK,
       NoSendOnClosed, vars, callers, work, arrivals

LEMMA NextCInv == ASSUME CInv, [Next]_vars PROVE CInv'
BY SendLockCInv, SendQueueCInv, TakeCInv, FinishCInv, PostOKCInv,
   PostFailCInv, BackoffCInv, CloseCInv, StutterCInv DEF Next, Worker

LEMMA CleanCInv == ASSUME CInv PROVE CleanClose
<1>1. TypeOK
  BY DEF CInv, QueueTypes, WorkTypes, CountTypes, ArrivalTypes, TypeOK
<1>2. NoSendOnClosed
  BY DEF CInv, LockOK
<1>3. Drained
  BY DEF CInv, LockOK, Drained
<1> QED BY <1>1, <1>2, <1>3 DEF CleanClose

(* Whoever sends, whatever the endpoint answers and whenever the deadline  *)
(* passes: no Send ever meets a closed queue, the queue keeps its bound,   *)
(* and once Close has returned nothing is queued or in flight (Close,      *)
(* Send and worker of internal/action/http.go).                            *)
THEOREM ClosingIsClean == Spec => []CleanClose
<1>1. Init => CInv
  BY InitCInv
<1>2. CInv /\ [Next]_vars => CInv'
  BY NextCInv
<1>3. CInv => CleanClose
  BY CleanCInv
<1> QED BY <1>1, <1>2, <1>3, PTL DEF Spec

-----------------------------------------------------------------------------
Before(a, b) == a[1] < b[1] \/ (a[1] = b[1] /\ a[2] < b[2])

(* Notifications q, after bodies bs, after what is in the inbox in, which  *)
(* may hold the first of bs but none of the others; acc is the last number *)
(* given.                                                                  *)
Order(q, bs, in, acc) ==
    /\ \A i, j \in 1..Len(q) : i < j => q[i] < q[j]
    /\ \A i \in 1..Len(q) : q[i] <= acc
    /\ \A i, j \in 1..Len(bs) : i < j => Before(bs[i], bs[j])
    /\ \A i \in 1..Len(bs) : bs[i][1] <= acc
    /\ \A i \in 1..Len(bs), j \in 1..Len(q) : bs[i][1] < q[j]
    /\ \A i \in 1..Len(in) : in[i][1] <= acc
    /\ \A i \in 1..Len(in), j \in 1..Len(q) : in[i][1] < q[j]
    /\ \A i \in 1..Len(in), j \in 1..Len(bs) : Precedes(in[i], bs[j])
    /\ \A i \in 1..Len(in), j \in 1..Len(bs) : j > 1 => Before(in[i], bs[j])
    /\ \A i, j \in 1..Len(in) : i < j => Precedes(in[i], in[j])

HitsIn(in, b) == {j \in 1..Len(in) : in[j] = b}

LEMMA AppendAt ==
    ASSUME NEW S, NEW q \in Seq(S), NEW a \in S
    PROVE  /\ Append(q, a) \in Seq(S) /\ Len(Append(q, a)) = Len(q) + 1
           /\ Len(q) \in Nat
           /\ \A i \in 1..Len(q) : Append(q, a)[i] = q[i]
           /\ Append(q, a)[Len(q) + 1] = a
OBVIOUS

LEMMA TailAt ==
    ASSUME NEW S, NEW q \in Seq(S), q # <<>>
    PROVE  /\ Head(q) = q[1] /\ 1 \in 1..Len(q)
           /\ \A i \in 1..Len(Tail(q)) : Tail(q)[i] = q[i + 1] /\ i + 1 \in 1..Len(q)
OBVIOUS

LEMMA BodyParts ==
    ASSUME NEW b \in Body PROVE b[1] \in Nat \ {0} /\ b[2] \in Nat
BY ReceiverAssumption DEF Body

(* A notification enters the queue with the next number.                   *)
LEMMA OrderAccept ==
    ASSUME NEW q \in Seq(Nat \ {0}), NEW bs \in Seq(Body),
           NEW in \in Seq(Body), NEW acc \in Nat, Order(q, bs, in, acc)
    PROVE  Order(Append(q, acc + 1), bs, in, acc + 1)
<1> DEFINE q2 == Append(q, acc + 1)
<1>1. /\ Len(q2) = Len(q) + 1 /\ Len(q) \in Nat
      /\ \A i \in 1..Len(q) : q2[i] = q[i] /\ q[i] \in Nat
      /\ q2[Len(q) + 1] = acc + 1
  BY AppendAt
<1>2. \A i \in 1..Len(bs) : bs[i][1] \in Nat
  BY BodyParts
<1>3. \A i \in 1..Len(in) : in[i][1] \in Nat
  BY BodyParts
<1> HIDE DEF q2
<1>3a. \A i \in 1..Len(q2) : i \in 1..Len(q) \/ i = Len(q) + 1
  BY <1>1
<1>3b. \A i \in 1..Len(q) : q[i] \in Nat /\ q[i] <= acc
  BY <1>1 DEF Order
<1>4. \A i, j \in 1..Len(q2) : i < j => q2[i] < q2[j]
  <2> SUFFICES ASSUME NEW i \in 1..Len(q2), NEW j \in 1..Len(q2), i < j
               PROVE  q2[i] < q2[j]
    OBVIOUS
  <2>1. i \in 1..Len(q)
    BY <1>1
  <2>2. CASE j \in 1..Len(q)
    BY <1>1, <2>1, <2>2 DEF Order
  <2>3. CASE j = Len(q) + 1
    <3>1. q2[i] \in Nat /\ q2[i] <= acc /\ q2[j] = acc + 1
      BY <1>1, <1>3b, <2>1, <2>3
    <3> QED BY <3>1
  <2> QED BY <1>3a, <2>2, <2>3
<1>5. \A i \in 1..Len(q2) : q2[i] <= acc + 1
  <2> SUFFICES ASSUME NEW i \in 1..Len(q2) PROVE q2[i] <= acc + 1
    OBVIOUS
  <2>1. CASE i \in 1..Len(q)
    <3>1. q2[i] \in Nat /\ q2[i] <= acc
      BY <1>1, <1>3b, <2>1
    <3> QED BY <3>1
  <2>2. CASE i = Len(q) + 1
    BY <1>1, <2>2
  <2> QED BY <1>3a, <2>1, <2>2
<1>6. \A i \in 1..Len(bs) : bs[i][1] <= acc /\ bs[i][1] <= acc + 1
  BY <1>2 DEF Order
<1>7. \A i \in 1..Len(in) : in[i][1] <= acc /\ in[i][1] <= acc + 1
  BY <1>3 DEF Order
<1>8. \A i \in 1..Len(bs), j \in 1..Len(q2) : bs[i][1] < q2[j]
  <2> SUFFICES ASSUME NEW i \in 1..Len(bs), NEW j \in 1..Len(q2)
               PROVE  bs[i][1] < q2[j]
    OBVIOUS
  <2>1. CASE j \in 1..Len(q)
    BY <1>1, <2>1 DEF Order
  <2>2. CASE j = Len(q) + 1
    <3>1. bs[i][1] \in Nat /\ bs[i][1] <= acc /\ q2[j] = acc + 1
      BY <1>1, <1>2, <1>6, <2>2
    <3> QED BY <3>1
  <2> QED BY <1>3a, <2>1, <2>2
<1>9. \A i \in 1..Len(in), j \in 1..Len(q2) : in[i][1] < q2[j]
  <2> SUFFICES ASSUME NEW i \in 1..Len(in), NEW j \in 1..Len(q2)
               PROVE  in[i][1] < q2[j]
    OBVIOUS
  <2>1. CASE j \in 1..Len(q)
    BY <1>1, <2>1 DEF Order
  <2>2. CASE j = Len(q) + 1
    <3>1. in[i][1] \in Nat /\ in[i][1] <= acc /\ q2[j] = acc + 1
      BY <1>1, <1>3, <1>7, <2>2
    <3> QED BY <3>1
  <2> QED BY <1>3a, <2>1, <2>2
<1>10. Order(q2, bs, in, acc + 1)
  BY <1>4, <1>5, <1>6, <1>7, <1>8, <1>9 DEF Order
<1> QED BY <1>10 DEF q2

(* A notification leaves the queue: rendering it failed.                   *)
LEMMA OrderLeave ==
    ASSUME NEW q \in Seq(Nat \ {0}), NEW in \in Seq(Body), NEW bs \in Seq(Body),
           NEW acc \in Nat, q # <<>>, Order(q, bs, in, acc)
    PROVE  Order(Tail(q), bs, in, acc)
<1>1. \A i \in 1..Len(Tail(q)) : Tail(q)[i] = q[i + 1] /\ i + 1 \in 1..Len(q)
  BY TailAt
<1>2. \A i, j \in 1..Len(Tail(q)) : i < j => i + 1 < j + 1
  OBVIOUS
<1>3. \A i, j \in 1..Len(Tail(q)) : i < j => Tail(q)[i] < Tail(q)[j]
  BY <1>1, <1>2 DEF Order
<1> QED BY <1>1, <1>3 DEF Order

(* It is rendered: its bodies come before the rest of the queue.           *)
LEMMA OrderRender ==
    ASSUME NEW q \in Seq(Nat \ {0}), NEW in \in Seq(Body), NEW acc \in Nat,
           NEW b \in 0..MaxBodies, q # <<>>, Order(q, <<>>, in, acc)
    PROVE  /\ Order(Tail(q), [i \in 1..b |-> <<Head(q), i>>], in, acc)
           /\ b > 0 => HitsIn(in, Head([i \in 1..b |-> <<Head(q), i>>])) = {}
<1> DEFINE bs == [i \in 1..b |-> <<Head(q), i>>]
<1>1. /\ b \in Nat /\ Len(bs) = b
      /\ \A i \in 1..b : bs[i][1] = q[1] /\ bs[i][2] = i
  BY ReceiverAssumption, TailAt
<1> HIDE DEF bs
<1>2. /\ 1 \in 1..Len(q) /\ q[1] \in Nat
      /\ \A i \in 1..Len(Tail(q)) :
           Tail(q)[i] = q[i + 1] /\ i + 1 \in 1..Len(q) /\ 1 < i + 1
  BY TailAt
<1>3. Order(Tail(q), <<>>, in, acc)
  <2>1. <<>> \in Seq(Body)
    OBVIOUS
  <2> QED BY <2>1, OrderLeave
<1>4. \A i, j \in 1..Len(bs) : i < j => Before(bs[i], bs[j])
  BY <1>1, <1>2 DEF Before
<1>5. \A i \in 1..Len(bs) : bs[i][1] <= acc
  BY <1>1, <1>2 DEF Order
<1>6. \A i \in 1..Len(bs), j \in 1..Len(Tail(q)) : bs[i][1] < Tail(q)[j]
  BY <1>1, <1>2 DEF Order
<1>7. \A i \in 1..Len(in), j \in 1..Len(bs) :
        Precedes(in[i], bs[j]) /\ Before(in[i], bs[j])
  <2>1. \A i \in 1..Len(in) : in[i][1] < q[1]
    BY <1>2 DEF Order
  <2> QED BY <1>1, <2>1 DEF Precedes, Before
<1>8. Order(Tail(q), bs, in, acc)
  BY <1>3, <1>4, <1>5, <1>6, <1>7 DEF Order
<1>9. ASSUME b > 0 PROVE HitsIn(in, Head(bs)) = {}
  <2>1. Head(bs) = bs[1] /\ 1 \in 1..Len(bs)
    BY <1>1, <1>9 DEF bs
  <2>2. \A i \in 1..Len(in) : in[i][1] < bs[1][1] /\ in[i] \in Body
    BY <1>1, <1>2, <2>1 DEF Order
  <2>3. \A i \in 1..Len(in) : in[i] # Head(bs)
    BY <2>1, <2>2, BodyParts
  <2> QED BY <2>3 DEF HitsIn
<1> QED BY <1>8, <1>9 DEF bs

(* The body in hand arrives.                                               *)
LEMMA OrderArrive ==
    ASSUME NEW q \in Seq(Nat \ {0}), NEW bs \in Seq(Body),
           NEW in \in Seq(Body), NEW acc \in Nat, bs # <<>>,
           Order(q, bs, in, acc)
    PROVE  Order(q, bs, Append(in, Head(bs)), acc)
<1> DEFINE in2 == Append(in, Head(bs))
<1>1. Head(bs) = bs[1] /\ 1 \in 1..Len(bs) /\ bs[1] \in Body
  BY TailAt
<1>2. /\ Len(in2) = Len(in) + 1 /\ Len(in) \in Nat
      /\ \A i \in 1..Len(in) : in2[i] = in[i]
      /\ in2[Len(in) + 1] = bs[1]
  BY <1>1, AppendAt
<1> HIDE DEF in2
<1>3. \A i \in 1..Len(in2) : i \in 1..Len(in) \/ i = Len(in) + 1
  BY <1>2
<1>4. Precedes(bs[1], bs[1])
  BY <1>1, BodyParts DEF Precedes
<1>5. \A j \in 1..Len(bs) : j > 1 => Before(bs[1], bs[j])
  BY <1>1 DEF Order
<1>6. \A j \in 1..Len(bs) : Precedes(bs[1], bs[j])
  <2> SUFFICES ASSUME NEW j \in 1..Len(bs), j # 1 PROVE Precedes(bs[1], bs[j])
    BY <1>4
  <2>1. Before(bs[1], bs[j])
    BY <1>5
  <2> QED BY <1>1, <2>1, BodyParts DEF Precedes, Before
<1>7. \A i \in 1..Len(in2) : in2[i][1] <= acc
  BY <1>1, <1>2, <1>3 DEF Order
<1>8. \A i \in 1..Len(in2), j \in 1..Len(q) : in2[i][1] < q[j]
  BY <1>1, <1>2, <1>3 DEF Order
<1>9. \A i \in 1..Len(in2), j \in 1..Len(bs) : Precedes(in2[i], bs[j])
  BY <1>2, <1>3, <1>6 DEF Order
<1>10. \A i \in 1..Len(in2), j \in 1..Len(bs) : j > 1 => Before(in2[i], bs[j])
  BY <1>2, <1>3, <1>5 DEF Order
<1>11. \A i, j \in 1..Len(in2) : i < j => Precedes(in2[i], in2[j])
  <2> SUFFICES ASSUME NEW i \in 1..Len(in2), NEW j \in 1..Len(in2), i < j
               PROVE  Precedes(in2[i], in2[j])
    OBVIOUS
  <2>1. i \in 1..Len(in)
    BY <1>2
  <2>2. CASE j \in 1..Len(in)
    BY <1>2, <2>1, <2>2 DEF Order
  <2>3. CASE j = Len(in) + 1
    BY <1>1, <1>2, <2>1, <2>3 DEF Order
  <2> QED BY <1>3, <2>2, <2>3
<1>12. Order(q, bs, in2, acc)
  BY <1>7, <1>8, <1>9, <1>10, <1>11 DEF Order
<1> QED BY <1>12 DEF in2

(* The body in hand is done with; the next one has not arrived yet.        *)
LEMMA OrderNext ==
    ASSUME NEW q \in Seq(Nat \ {0}), NEW bs \in Seq(Body),
           NEW in \in Seq(Body), NEW acc \in Nat, bs # <<>>,
           Order(q, bs, in, acc)
    PROVE  /\ Order(q, Tail(bs), in, acc)
           /\ Tail(bs) # <<>> => HitsIn(in, Head(Tail(bs))) = {}
<1>1. \A i \in 1..Len(Tail(bs)) :
        Tail(bs)[i] = bs[i + 1] /\ i + 1 \in 1..Len(bs) /\ i + 1 > 1
  BY TailAt
<1>2. \A i, j \in 1..Len(Tail(bs)) : i < j => i + 1 < j + 1
  OBVIOUS
<1>3. \A i, j \in 1..Len(Tail(bs)) : i < j => Before(Tail(bs)[i], Tail(bs)[j])
  BY <1>1, <1>2 DEF Order
<1>4. Order(q, Tail(bs), in, acc)
  BY <1>1, <1>3 DEF Order
<1>5. ASSUME Tail(bs) # <<>>, NEW i \in 1..Len(in) PROVE in[i] # Head(Tail(bs))
  <2>1. Tail(bs) \in Seq(Body)
    BY HeadTail
  <2>2. Head(Tail(bs)) = bs[2] /\ 2 \in 1..Len(bs)
    BY <1>1, <1>5, <2>1, TailAt
  <2>3. Before(in[i], bs[2]) /\ in[i] \in Body
    BY <2>2 DEF Order
  <2> QED BY <2>2, <2>3, BodyParts DEF Before
<1> QED BY <1>4, <1>5 DEF HitsIn

(* One more arrival of a is one more hit of a, and of nothing else.        *)
LEMMA HitsAppend ==
    ASSUME NEW in \in Seq(Body), NEW a \in Body, NEW b
    PROVE  /\ IsFiniteSet(HitsIn(in, b)) /\ Cardinality(HitsIn(in, b)) \in Nat
           /\ a # b => HitsIn(Append(in, a), b) = HitsIn(in, b)
           /\ Cardinality(HitsIn(Append(in, a), b))
                <= Cardinality(HitsIn(in, b)) + 1
<1>1. /\ Len(Append(in, a)) = Len(in) + 1 /\ Len(in) \in Nat
      /\ \A i \in 1..Len(in) : Append(in, a)[i] = in[i]
      /\ Append(in, a)[Len(in) + 1] = a
  BY AppendAt
<1>2. IsFiniteSet(1..Len(in))
  BY <1>1, FS_Interval
<1>3. IsFiniteSet(HitsIn(in, b))
  BY <1>2, FS_Subset DEF HitsIn
<1>4. Cardinality(HitsIn(in, b)) \in Nat
  BY <1>3, FS_CardinalityType
<1>5. Len(in) + 1 \notin HitsIn(in, b)
  BY <1>1 DEF HitsIn
<1>6. ASSUME a # b PROVE HitsIn(Append(in, a), b) = HitsIn(in, b)
  BY <1>1, <1>6 DEF HitsIn
<1>7. ASSUME a = b
      PROVE  HitsIn(Append(in, a), b) = HitsIn(in, b) \cup {Len(in) + 1}
  BY <1>1, <1>7 DEF HitsIn
<1>8. Cardinality(HitsIn(in, b) \cup {Len(in) + 1})
        = Cardinality(HitsIn(in, b)) + 1
  BY <1>3, <1>5, FS_AddElement
<1>9. Cardinality(HitsIn(Append(in, a), b)) <= Cardinality(HitsIn(in, b)) + 1
  <2>1. CASE a = b
    <3>1. Cardinality(HitsIn(Append(in, a), b)) = Cardinality(HitsIn(in, b)) + 1
      BY <1>7, <1>8, <2>1, Zenon
    <3> QED BY <1>4, <3>1
  <2>2. CASE a # b
    BY <1>4, <1>6, <2>2
  <2> QED BY <2>1, <2>2
<1> QED BY <1>3, <1>4, <1>6, <1>9

-----------------------------------------------------------------------------
Offers ==
    /\ IsFiniteSet(Inside)
    /\ offered = accepted + dropped + refused + Cardinality(Inside)

Outcomes == rendered = sent + failed + Len(bodies)

OrderOK == Order(queue, bodies, inbox, accepted)

(* No body arrives more often than it is posted.                           *)
TriesOK ==
    /\ \A b \in Body : Cardinality(HitsIn(inbox, b)) <= Attempts
    /\ worker = "post" => Cardinality(HitsIn(inbox, Head(bodies))) < attempt
    /\ worker = "wait" => Cardinality(HitsIn(inbox, Head(bodies))) <= attempt

GoodOK == \A b \in good : \E i \in 1..Len(inbox) : inbox[i] = b

BookOK == Offers /\ Outcomes /\ OrderOK /\ TriesOK /\ GoodOK

LEMMA InitBook == ASSUME Init PROVE BookOK
<1>1. Offers
  <2>1. Inside = {}
    BY DEF Init, Inside
  <2>2. IsFiniteSet(Inside) /\ Cardinality(Inside) = 0
    BY <2>1, FS_EmptySet
  <2> QED BY <2>2 DEF Init, Offers
<1>2. Outcomes
  BY DEF Init, Outcomes
<1>3. OrderOK
  BY DEF Init, OrderOK, Order
<1>4. TriesOK
  <2>1. \A b \in Body : HitsIn(inbox, b) = {}
    BY DEF Init, HitsIn
  <2>2. \A b \in Body : Cardinality(HitsIn(inbox, b)) = 0
    BY <2>1, FS_EmptySet
  <2> QED BY <2>2, ReceiverAssumption DEF Init, TriesOK
<1>5. GoodOK
  BY DEF Init, GoodOK
<1> QED BY <1>1, <1>2, <1>3, <1>4, <1>5 DEF BookOK

(* Steps of one part leave the books of the others alone.                  *)
LEMMA OffersKept ==
    ASSUME Offers, UNCHANGED <<callers, accepted, dropped>> PROVE Offers'
BY DEF Offers, Inside, callers

LEMMA WorkKept ==
    ASSUME BookOK, UNCHANGED <<queue, accepted, work, sent, failed, arrivals>>
    PROVE  Outcomes' /\ OrderOK' /\ TriesOK' /\ GoodOK'
<1> USE DEF work, arrivals
<1>1. Outcomes'
  BY DEF BookOK, Outcomes
<1>2. OrderOK'
  BY DEF BookOK, OrderOK
<1>3. TriesOK'
  BY DEF BookOK, TriesOK
<1>4. GoodOK'
  BY DEF BookOK, GoodOK
<1> QED BY <1>1, <1>2, <1>3, <1>4

LEMMA SendLockBook ==
    ASSUME CInv, BookOK, NEW s \in Senders, SendLock(s) PROVE BookOK'
<1>1. /\ accepted \in Nat /\ dropped \in Nat /\ refused \in Nat
      /\ Cardinality(Inside) \in Nat
  BY FS_CardinalityType DEF CInv, CountTypes, BookOK, Offers
<1>2. Offers'
  <2>1. CASE gate = "closed"
    <3>1. Inside' = Inside
      BY <2>1 DEF SendLock, Inside
    <3>2. /\ offered' = offered + 1 /\ refused' = refused + 1
          /\ UNCHANGED <<accepted, dropped>>
      BY <2>1 DEF SendLock
    <3> QED BY <1>1, <3>1, <3>2 DEF BookOK, Offers
  <2>2. CASE gate # "closed"
    <3>1. sending' = [sending EXCEPT ![s] = "locked"] /\ sending[s] = "idle"
      BY <2>2 DEF SendLock
    <3>2. Inside' = Inside \cup {s} /\ s \notin Inside
      BY <3>1 DEF Inside, CInv, QueueTypes
    <3>3. /\ IsFiniteSet(Inside')
          /\ Cardinality(Inside') = Cardinality(Inside) + 1
      BY <3>2, FS_AddElement DEF BookOK, Offers
    <3>4. offered' = offered + 1 /\ UNCHANGED <<refused, accepted, dropped>>
      BY <2>2 DEF SendLock
    <3> QED BY <1>1, <3>3, <3>4 DEF BookOK, Offers
  <2> QED BY <2>1, <2>2
<1>3. UNCHANGED <<queue, accepted, work, sent, failed, arrivals>>
  BY DEF SendLock
<1> QED BY <1>2, <1>3, WorkKept DEF BookOK

LEMMA SendQueueBook ==
    ASSUME CInv, BookOK, NEW s \in Senders, SendQueue(s) PROVE BookOK'
<1>1. /\ accepted \in Nat /\ dropped \in Nat /\ refused \in Nat
      /\ Cardinality(Inside) \in Nat
  BY FS_CardinalityType DEF CInv, CountTypes, BookOK, Offers
<1>2. Offers'
  <2>1. sending' = [sending EXCEPT ![s] = "idle"] /\ sending[s] = "locked"
    BY DEF SendQueue
  <2>2. Inside' = Inside \ {s} /\ s \in Inside
    BY <2>1 DEF Inside, CInv, QueueTypes
  <2>3. /\ IsFiniteSet(Inside')
        /\ Cardinality(Inside') = Cardinality(Inside) - 1
    BY <2>2, FS_RemoveElement DEF BookOK, Offers
  <2>4. /\ UNCHANGED <<offered, refused>>
        /\ \/ accepted' = accepted + 1 /\ dropped' = dropped
           \/ accepted' = accepted /\ dropped' = dropped + 1
    BY DEF SendQueue
  <2> QED BY <1>1, <2>3, <2>4 DEF BookOK, Offers
<1>3. OrderOK'
  <2>1. CASE Len(queue) < QueueSize
    <3>1. /\ queue' = Append(queue, accepted + 1) /\ accepted' = accepted + 1
          /\ UNCHANGED <<bodies, inbox>>
      BY <2>1 DEF SendQueue, work, arrivals
    <3>2. /\ queue \in Seq(Nat \ {0}) /\ bodies \in Seq(Body)
          /\ inbox \in Seq(Body) /\ Order(queue, bodies, inbox, accepted)
      BY DEF CInv, QueueTypes, WorkTypes, ArrivalTypes, BookOK, OrderOK
    <3>3. Order(Append(queue, accepted + 1), bodies, inbox, accepted + 1)
      BY <1>1, <3>2, OrderAccept
    <3> QED BY <3>1, <3>3 DEF OrderOK
  <2>2. CASE ~(Len(queue) < QueueSize)
    BY <2>2 DEF SendQueue, work, arrivals, BookOK, OrderOK
  <2> QED BY <2>1, <2>2
<1>4. UNCHANGED <<work, sent, failed, arrivals>>
  BY DEF SendQueue
<1>5. Outcomes' /\ TriesOK' /\ GoodOK'
  BY <1>4 DEF work, arrivals, BookOK, Outcomes, TriesOK, GoodOK
<1> QED BY <1>2, <1>3, <1>5 DEF BookOK

LEMMA TakeBook == ASSUME CInv, BookOK, Take PROVE BookOK'
<1>1. Offers'
  BY OffersKept DEF Take, BookOK
<1>2. GoodOK'
  BY DEF Take, BookOK, GoodOK
<1>3. bodies = <<>> /\ Len(bodies) = 0 /\ worker = "idle"
  BY DEF Take, CInv, LockOK
<1>4. sent \in Nat /\ failed \in Nat /\ rendered \in Nat
  BY DEF CInv, CountTypes
<1>5. /\ queue \in Seq(Nat \ {0}) /\ inbox \in Seq(Body) /\ accepted \in Nat
      /\ queue # <<>> /\ Order(queue, <<>>, inbox, accepted)
  BY <1>3 DEF Take, CInv, QueueTypes, CountTypes, ArrivalTypes, BookOK, OrderOK
<1>6. CASE failed' = failed + 1 /\ rendered' = rendered + 1 /\ UNCHANGED work
  <2>1. Outcomes'
    BY <1>3, <1>4, <1>6 DEF Take, BookOK, Outcomes, work
  <2>2. <<>> \in Seq(Body)
    OBVIOUS
  <2>3. Order(Tail(queue), <<>>, inbox, accepted)
    BY <1>5, <2>2, OrderLeave
  <2>4. OrderOK'
    BY <1>3, <1>6, <2>3 DEF Take, OrderOK, work
  <2>5. TriesOK'
    BY <1>6 DEF Take, BookOK, TriesOK, work
  <2> QED BY <1>1, <1>2, <2>1, <2>4, <2>5 DEF BookOK
<1>7. ASSUME NEW b \in 0..MaxBodies,
             bodies' = [i \in 1..b |-> <<Head(queue), i>>],
             rendered' = rendered + b,
             worker' = (IF b = 0 THEN "idle" ELSE "post"),
             attempt' = 1, UNCHANGED failed
      PROVE  BookOK'
  <2>1. b \in Nat /\ Len(bodies') = b
    BY <1>7, ReceiverAssumption
  <2>2. Outcomes'
    BY <1>3, <1>4, <1>7, <2>1 DEF Take, BookOK, Outcomes
  <2>3. /\ Order(Tail(queue), bodies', inbox, accepted)
        /\ b > 0 => HitsIn(inbox, Head(bodies')) = {}
    BY <1>5, <1>7, OrderRender
  <2>4. OrderOK'
    BY <2>3 DEF Take, OrderOK
  <2>5. worker' # "wait" /\ (worker' = "post" => b > 0)
    BY <1>7, <2>1
  <2>6. worker' = "post" => Cardinality(HitsIn(inbox, Head(bodies'))) = 0
    BY <2>3, <2>5, FS_EmptySet
  <2>7. TriesOK'
    BY <1>7, <2>5, <2>6 DEF Take, BookOK, TriesOK
  <2> QED BY <1>1, <1>2, <2>2, <2>4, <2>7 DEF BookOK
<1> QED BY <1>6, <1>7 DEF Take

LEMMA WorkNumbers ==
    ASSUME CInv
    PROVE  /\ attempt \in Nat /\ Attempts \in Nat /\ attempt <= Attempts
           /\ bodies \in Seq(Body) /\ Len(bodies) \in Nat
           /\ sent \in Nat /\ failed \in Nat
<1>1. attempt \in 1..Attempts /\ bodies \in Seq(Body)
  BY DEF CInv, WorkTypes
<1>2. sent \in Nat /\ failed \in Nat
  BY DEF CInv, CountTypes
<1>3. attempt \in Nat /\ Attempts \in Nat /\ attempt <= Attempts
  BY <1>1, ReceiverAssumption
<1>4. Len(bodies) \in Nat
  BY <1>1
<1> QED BY <1>1, <1>2, <1>3, <1>4

(* What a post leaves behind, whether the request arrived or not.          *)
LEMMA ArriveBook ==
    ASSUME CInv, BookOK, worker \in {"post", "wait"},
           \/ inbox' = inbox
           \/ worker = "post" /\ inbox' = Append(inbox, Head(bodies))
    PROVE  /\ Order(queue, bodies, inbox', accepted)
           /\ \A b \in Body : Cardinality(HitsIn(inbox', b)) <= Attempts
           /\ Cardinality(HitsIn(inbox', Head(bodies))) <= attempt
           /\ \A b \in good : \E i \in 1..Len(inbox') : inbox'[i] = b
<1>1. /\ bodies \in Seq(Body) /\ bodies # <<>> /\ inbox \in Seq(Body)
      /\ queue \in Seq(Nat \ {0}) /\ accepted \in Nat
  BY DEF CInv, LockOK, WorkTypes, QueueTypes, CountTypes, ArrivalTypes
<1>2. Head(bodies) \in Body
  BY <1>1, HeadTail
<1>3. /\ attempt \in Nat /\ Attempts \in Nat /\ attempt <= Attempts
  BY WorkNumbers
<1>4. \A b : Cardinality(HitsIn(inbox, b)) \in Nat
  BY <1>1, <1>2, HitsAppend
<1>5. CASE inbox' = inbox
  <2>1. Cardinality(HitsIn(inbox, Head(bodies))) <= attempt
    BY <1>3, <1>4 DEF BookOK, TriesOK
  <2> QED BY <1>5, <2>1 DEF BookOK, OrderOK, TriesOK, GoodOK
<1>6. CASE worker = "post" /\ inbox' = Append(inbox, Head(bodies))
  <2>1. Order(queue, bodies, inbox', accepted)
    BY <1>1, <1>6, OrderArrive DEF BookOK, OrderOK
  <2>2. Cardinality(HitsIn(inbox', Head(bodies))) <= attempt
    <3>1. Cardinality(HitsIn(inbox', Head(bodies)))
            <= Cardinality(HitsIn(inbox, Head(bodies))) + 1
      BY <1>1, <1>2, <1>6, HitsAppend
    <3>2. Cardinality(HitsIn(inbox, Head(bodies))) < attempt
      BY <1>6 DEF BookOK, TriesOK
    <3>3. inbox' \in Seq(Body)
      BY <1>1, <1>2, <1>6
    <3>4. Cardinality(HitsIn(inbox', Head(bodies))) \in Nat
      BY <1>2, <3>3, HitsAppend
    <3> QED BY <1>3, <1>4, <3>1, <3>2, <3>4
  <2>3. ASSUME NEW b \in Body
        PROVE  Cardinality(HitsIn(inbox', b)) <= Attempts
    <3>1. CASE b = Head(bodies)
      <4>1. inbox' \in Seq(Body)
        BY <1>1, <1>2, <1>6
      <4>2. Cardinality(HitsIn(inbox', b)) \in Nat
        BY <1>2, <4>1, HitsAppend
      <4> QED BY <1>3, <2>2, <3>1, <4>2
    <3>2. CASE b # Head(bodies)
      <4>1. HitsIn(inbox', b) = HitsIn(inbox, b)
        BY <1>1, <1>2, <1>6, <3>2, HitsAppend
      <4> QED BY <4>1 DEF BookOK, TriesOK
    <3> QED BY <3>1, <3>2
  <2>4. \A b \in good : \E i \in 1..Len(inbox') : inbox'[i] = b
    <3>1. /\ Len(inbox') = Len(inbox) + 1 /\ Len(inbox) \in Nat
          /\ \A i \in 1..Len(inbox) : inbox'[i] = inbox[i]
      BY <1>1, <1>2, <1>6, AppendAt
    <3>2. \A i \in 1..Len(inbox) : i \in 1..Len(inbox')
      BY <3>1
    <3> QED BY <3>1, <3>2 DEF BookOK, GoodOK
  <2> QED BY <2>1, <2>2, <2>3, <2>4
<1> QED BY <1>5, <1>6

(* The next body has not arrived yet, so its attempts start from nothing.  *)
LEMMA NextBodyBook ==
    ASSUME CInv, CInv', bodies # <<>>, NextBody, UNCHANGED <<queue, accepted>>,
           Order(queue, bodies, inbox', accepted),
           \A b \in Body : Cardinality(HitsIn(inbox', b)) <= Attempts
    PROVE  OrderOK' /\ TriesOK' /\ Len(bodies') = Len(bodies) - 1
<1>1. /\ bodies \in Seq(Body) /\ inbox' \in Seq(Body)
      /\ queue \in Seq(Nat \ {0}) /\ accepted \in Nat
  BY DEF CInv, WorkTypes, QueueTypes, CountTypes, ArrivalTypes
<1>2. bodies' = Tail(bodies) /\ attempt' = 1
  BY DEF NextBody
<1>3. /\ Order(queue, bodies', inbox', accepted)
      /\ bodies' # <<>> => HitsIn(inbox', Head(bodies')) = {}
  BY <1>1, <1>2, OrderNext
<1>4. /\ worker' = "post" => bodies' # <<>>
      /\ worker' # "wait"
  BY NextBodyOK DEF CInv
<1>5. worker' = "post" => Cardinality(HitsIn(inbox', Head(bodies'))) = 0
  BY <1>3, <1>4, FS_EmptySet
<1>6. OrderOK'
  BY <1>3 DEF OrderOK
<1>7. TriesOK'
  BY <1>2, <1>4, <1>5 DEF TriesOK
<1>8. Len(bodies') = Len(bodies) - 1
  BY <1>1, <1>2, HeadTail
<1> QED BY <1>6, <1>7, <1>8

LEMMA PostOKBook == ASSUME CInv, BookOK, PostOK PROVE BookOK'
<1>1. CInv' /\ bodies # <<>> /\ NextBody
  BY PostOKCInv DEF PostOK, CInv, LockOK
<1>2. /\ Order(queue, bodies, inbox', accepted)
      /\ \A b \in Body : Cardinality(HitsIn(inbox', b)) <= Attempts
      /\ \A b \in good : \E i \in 1..Len(inbox') : inbox'[i] = b
  BY ArriveBook DEF PostOK
<1>3. OrderOK' /\ TriesOK' /\ Len(bodies') = Len(bodies) - 1
  BY <1>1, <1>2, NextBodyBook DEF PostOK
<1>4. Offers'
  BY OffersKept DEF PostOK, BookOK
<1>5. /\ sent \in Nat /\ failed \in Nat /\ bodies \in Seq(Body)
      /\ Len(bodies) \in Nat
  BY WorkNumbers
<1>6. Outcomes'
  BY <1>3, <1>5 DEF PostOK, BookOK, Outcomes
<1>7. GoodOK'
  <2>1. Head(bodies) \in Body /\ inbox \in Seq(Body)
    BY <1>1, <1>5, HeadTail DEF CInv, ArrivalTypes
  <2>2. inbox' = Append(inbox, Head(bodies)) /\ good' = good \cup {Head(bodies)}
    BY DEF PostOK
  <2>3. /\ Len(inbox) + 1 \in 1..Len(inbox')
        /\ inbox'[Len(inbox) + 1] = Head(bodies)
    BY <2>1, <2>2, AppendAt
  <2> QED BY <1>2, <2>2, <2>3 DEF GoodOK
<1> QED BY <1>3, <1>4, <1>6, <1>7 DEF BookOK

(* A failed post, or a wait that is given up, ends the body as failed.     *)
LEMMA FailedBook ==
    ASSUME CInv, BookOK, CInv', worker \in {"post", "wait"}, NextBody,
           \/ inbox' = inbox
           \/ worker = "post" /\ inbox' = Append(inbox, Head(bodies)),
           failed' = failed + 1,
           UNCHANGED <<callers, queue, accepted, sent, dropped, rendered, good>>
    PROVE  BookOK'
<1>1. bodies # <<>>
  BY DEF CInv, LockOK
<1>2. /\ Order(queue, bodies, inbox', accepted)
      /\ \A b \in Body : Cardinality(HitsIn(inbox', b)) <= Attempts
      /\ \A b \in good : \E i \in 1..Len(inbox') : inbox'[i] = b
  BY ArriveBook
<1>3. OrderOK' /\ TriesOK' /\ Len(bodies') = Len(bodies) - 1
  BY <1>1, <1>2, NextBodyBook
<1>4. Offers'
  BY OffersKept DEF BookOK
<1>5. sent \in Nat /\ failed \in Nat /\ Len(bodies) \in Nat
  BY WorkNumbers
<1>6. Outcomes'
  BY <1>3, <1>5 DEF BookOK, Outcomes
<1>7. GoodOK'
  BY <1>2 DEF GoodOK
<1> QED BY <1>3, <1>4, <1>6, <1>7 DEF BookOK

LEMMA PostFailBook ==
    ASSUME CInv, BookOK, NEW r \in BOOLEAN, PostFail(r) PROVE BookOK'
<1>1. /\ CInv' /\ worker = "post"
      /\ inbox' = inbox \/ inbox' = Append(inbox, Head(bodies))
      /\ UNCHANGED <<callers, queue, accepted, sent, dropped, rendered, good>>
  BY PostFailCInv DEF PostFail
<1>2. CASE r /\ attempt < Attempts
  <2>1. worker' = "wait" /\ UNCHANGED <<bodies, attempt, failed>>
    BY <1>2 DEF PostFail
  <2>2. /\ Order(queue, bodies, inbox', accepted)
        /\ \A b \in Body : Cardinality(HitsIn(inbox', b)) <= Attempts
        /\ Cardinality(HitsIn(inbox', Head(bodies))) <= attempt
        /\ \A b \in good : \E i \in 1..Len(inbox') : inbox'[i] = b
    BY <1>1, ArriveBook
  <2>3. Offers'
    BY <1>1, OffersKept DEF BookOK
  <2>4. Outcomes'
    BY <1>1, <2>1 DEF BookOK, Outcomes
  <2>5. OrderOK'
    BY <1>1, <2>1, <2>2 DEF OrderOK
  <2>6. TriesOK'
    BY <2>1, <2>2 DEF TriesOK
  <2>7. GoodOK'
    BY <1>1, <2>2 DEF GoodOK
  <2> QED BY <2>3, <2>4, <2>5, <2>6, <2>7 DEF BookOK
<1>3. CASE ~(r /\ attempt < Attempts)
  <2>1. NextBody /\ failed' = failed + 1
    BY <1>3 DEF PostFail
  <2> QED BY <1>1, <2>1, FailedBook
<1> QED BY <1>2, <1>3

LEMMA BackoffBook == ASSUME CInv, BookOK, Retry \/ GiveUp PROVE BookOK'
<1>1. CInv' /\ worker = "wait"
  BY BackoffCInv DEF Retry, GiveUp
<1>2. CASE Retry
  <2>1. /\ worker' = "post" /\ attempt' = attempt + 1
        /\ UNCHANGED <<callers, queue, accepted, bodies, sent, failed, dropped,
                       rendered, inbox, good>>
    BY <1>2 DEF Retry, arrivals
  <2>2. Offers'
    BY <2>1, OffersKept DEF BookOK
  <2>3. Outcomes' /\ OrderOK' /\ GoodOK'
    BY <2>1 DEF BookOK, Outcomes, OrderOK, GoodOK
  <2>4. Cardinality(HitsIn(inbox, Head(bodies))) < attempt + 1
    <3>1. bodies \in Seq(Body) /\ bodies # <<>> /\ inbox \in Seq(Body)
      BY <1>1 DEF CInv, LockOK, WorkTypes, ArrivalTypes
    <3>2. Cardinality(HitsIn(inbox, Head(bodies))) \in Nat
      BY <3>1, HeadTail, HitsAppend
    <3>3. attempt \in Nat
      BY WorkNumbers
    <3> QED BY <1>1, <3>2, <3>3 DEF BookOK, TriesOK
  <2>5. TriesOK'
    BY <2>1, <2>4 DEF BookOK, TriesOK
  <2> QED BY <2>2, <2>3, <2>5 DEF BookOK
<1>3. CASE GiveUp
  <2>1. /\ NextBody /\ failed' = failed + 1
        /\ UNCHANGED <<callers, queue, accepted, sent, dropped, rendered, good,
                       inbox>>
    BY <1>3 DEF GiveUp, arrivals
  <2> QED BY <1>1, <2>1, FailedBook
<1> QED BY <1>2, <1>3

LEMMA FinishBook == ASSUME CInv, BookOK, Finish PROVE BookOK'
<1>1. Offers'
  BY OffersKept DEF Finish, BookOK
<1>2. Outcomes' /\ OrderOK' /\ GoodOK'
  BY DEF Finish, arrivals, BookOK, Outcomes, OrderOK, GoodOK
<1>3. TriesOK'
  BY DEF Finish, arrivals, BookOK, TriesOK
<1> QED BY <1>1, <1>2, <1>3 DEF BookOK

LEMMA CloseBook ==
    ASSUME BookOK, \/ Close \/ CloseTimeout \/ CloseReturn \/ UNCHANGED vars
    PROVE  BookOK'
<1>1. UNCHANGED <<queue, accepted, work, sent, failed, arrivals>>
  BY DEF Close, CloseTimeout, CloseReturn, vars
<1>2. Offers'
  BY DEF Close, CloseTimeout, CloseReturn, vars, callers, BookOK, Offers, Inside
<1> QED BY <1>1, <1>2, WorkKept DEF BookOK

LEMMA NextBook == ASSUME CInv, BookOK, [Next]_vars PROVE BookOK'
BY SendLockBook, SendQueueBook, TakeBook, FinishBook, PostOKBook,
   PostFailBook, BackoffBook, CloseBook DEF Next, Worker

LEMMA BookImplies == ASSUME CInv, BookOK PROVE Accounted
<1>1. Balanced
  BY DEF BookOK, Offers, Outcomes, Balanced
<1>2. \A i, j \in 1..Len(inbox) : i < j => Precedes(inbox[i], inbox[j])
  BY DEF BookOK, OrderOK, Order
<1>3. ASSUME NEW i \in 1..Len(inbox)
      PROVE  Cardinality({j \in 1..Len(inbox) : inbox[j] = inbox[i]}) <= Attempts
  <2>1. inbox[i] \in Body
    BY DEF CInv, ArrivalTypes
  <2> QED BY <2>1 DEF BookOK, TriesOK, HitsIn
<1>4. Arrivals
  BY <1>2, <1>3 DEF BookOK, GoodOK, Arrivals
<1> QED BY <1>1, <1>4 DEF Accounted

(* Nothing is missing from the counters, what they call sent was received, *)
(* bodies arrive in the order their notifications were accepted, and none  *)
(* more than httpAttempts times (worker, post and Send of                  *)
(* internal/action/http.go).                                               *)
THEOREM CountersTellTheTruth == Spec => []Accounted
<1>1. Init => CInv /\ BookOK
  BY InitCInv, InitBook
<1>2. CInv /\ BookOK /\ [Next]_vars => (CInv /\ BookOK)'
  BY NextCInv, NextBook
<1>3. CInv /\ BookOK => Accounted
  BY BookImplies
<1> QED BY <1>1, <1>2, <1>3, PTL DEF Spec

-----------------------------------------------------------------------------
(***************************************************************************)
(* Storage, proved for any silences, any number of faults and any times:   *)
(* the steps of state.File.Save, with a crash or a power loss between any  *)
(* two of them, implement a document that is replaced as a whole; no       *)
(* silence is lost or comes back; and the digests count every alert once.  *)
(*                                                                         *)
(* What makes the first true is that a name never refers to a file whose   *)
(* data may be torn: a file is synced before it is renamed (DiskOK).  The  *)
(* others have invariants of their own, KInv and HInv.                     *)
(***************************************************************************)

StoreOK ==
    /\ now \in Nat
    /\ silences \subseteq [id : SilenceIds, matcher : Matchers, until : Nat]
    /\ windows \in [WindowKeys -> Nat]

FileOK(f) == f.whole /\ f.data \in Documents \cup {None}

DiskOK == FileOK(entry) /\ \A f \in fallback : FileOK(f)

SaveOK ==
    /\ step \in {"idle", "written", "synced", "renamed"}
    /\ step \in {"written", "synced"} => tmp.data \in Documents
    /\ step = "written" => tmp = [data |-> tmp.data, whole |-> FALSE]
    /\ step = "synced" => tmp.whole

IInv == StoreOK /\ DiskOK /\ SaveOK

(* What is saved is a document, and so is the store it leaves.             *)
LEMMA SavedIsDocument == ASSUME StoreOK PROVE StoreSaved \in Documents
<1>1. \A k \in WindowKeys : Until(k) \in Nat
  BY DEF StoreOK, Until
<1> QED BY <1>1 DEF StoreOK, StoreSaved, Live, Documents

LEMMA PruneKeepsStore ==
    ASSUME StoreOK, PruneStore, now' = now PROVE StoreOK'
<1>1. \A k \in WindowKeys : Until(k) \in Nat
  BY DEF StoreOK, Until
<1> QED BY <1>1 DEF StoreOK, PruneStore, Live

(* A document that is loaded leaves a store of the right kind.             *)
LEMMA LoadKeepsStore ==
    ASSUME StoreOK, NEW d \in Documents, StoreLoad(d), now' = now
    PROVE  StoreOK'
<1>1. \A k \in WindowKeys : Until(k) \in Nat /\ d.windows[k] \in Nat
  BY DEF StoreOK, Until, Documents
<1>2. windows' \in [WindowKeys -> Nat]
  BY <1>1 DEF StoreLoad
<1>3. silences' \subseteq silences \cup d.silences
  BY DEF StoreLoad
<1> QED BY <1>2, <1>3 DEF StoreOK, Documents

LEMMA InitIInv == ASSUME StorageInit PROVE IInv
BY DEF StorageInit, StoreInit, FileInit, NoFile, IInv, StoreOK, DiskOK, FileOK, SaveOK

-----------------------------------------------------------------------------
(* The steps.  Each either leaves the file alone, keeping the three parts  *)
(* of the invariant, or is a step of state.File.                           *)
LEMMA FileUnchanged ==
    ASSUME DiskOK, SaveOK, UNCHANGED file PROVE DiskOK' /\ SaveOK'
BY DEF DiskOK, SaveOK, FileOK, file

LEMMA GoneKeeps ==
    ASSUME DiskOK, Gone, UNCHANGED disk PROVE DiskOK' /\ SaveOK'
BY DEF DiskOK, SaveOK, FileOK, Gone, disk

LEMMA AddSilenceIInv ==
    ASSUME IInv, NEW m \in Matchers, NEW d \in Durations, AddSilence(m, d)
    PROVE  IInv'
<1>1. StoreOK'
  BY SilencesAssumption DEF IInv, StoreOK, AddSilence, Add
<1> QED BY <1>1, FileUnchanged DEF IInv, AddSilence

LEMMA RemoveSilenceIInv ==
    ASSUME IInv, NEW id \in SilenceIds, RemoveSilence(id) PROVE IInv'
<1>1. StoreOK'
  BY DEF IInv, StoreOK, RemoveSilence, Remove
<1> QED BY <1>1, FileUnchanged DEF IInv, RemoveSilence

LEMMA SaveStateIInv == ASSUME IInv, SaveState PROVE IInv'
<1>1. StoreOK'
  BY PruneKeepsStore DEF IInv, SaveState
<1>2. DiskOK'
  BY DEF IInv, SaveState, SaveStart, DiskOK, FileOK
<1>3. SaveOK'
  BY SavedIsDocument DEF IInv, SaveState, SaveStart, SaveOK
<1> QED BY <1>1, <1>2, <1>3 DEF IInv

LEMMA SaveStepsIInv == ASSUME IInv, SaveSteps PROVE IInv'
<1>1. StoreOK'
  BY DEF IInv, SaveSteps, StoreOK, store
<1>2. CASE Sync \/ SaveFails
  BY <1>1, <1>2 DEF IInv, Sync, SaveFails, DiskOK, SaveOK, FileOK
<1>3. CASE Rename
  BY <1>1, <1>3 DEF IInv, Rename, DiskOK, SaveOK, FileOK
<1>4. ASSUME NEW ok \in BOOLEAN, Settle(ok) PROVE IInv'
  BY <1>1, <1>4 DEF IInv, Settle, DiskOK, SaveOK, FileOK
<1> QED BY <1>2, <1>3, <1>4 DEF SaveSteps

LEMMA RestoreIInv == ASSUME IInv, Restore \/ RestoreFails PROVE IInv'
<1>1. CASE Restore
  <2>1. StoreOK'
    <3>1. CASE UNCHANGED store
      BY <1>1, <3>1 DEF IInv, StoreOK, Restore, store
    <3>2. CASE entry.data \in Documents /\ StoreLoad(entry.data)
      BY <1>1, <3>2, LoadKeepsStore DEF IInv, Restore
    <3> QED BY <1>1, <3>1, <3>2 DEF IInv, DiskOK, FileOK, Restore
  <2>2. DiskOK' /\ SaveOK'
    BY <1>1 DEF IInv, Restore, LoadFile, DiskOK, SaveOK, FileOK
  <2> QED BY <2>1, <2>2 DEF IInv
<1>2. CASE RestoreFails
  BY <1>2, FileUnchanged DEF IInv, RestoreFails, StoreOK, store
<1> QED BY <1>1, <1>2

LEMMA ProcessIInv ==
    ASSUME IInv, Start \/ Stop \/ Exit \/ Crash \/ PowerLoss PROVE IInv'
<1>1. CASE Start
  BY <1>1, FileUnchanged DEF IInv, Start, StoreOK
<1>2. CASE Stop
  BY <1>2, FileUnchanged DEF IInv, Stop, StoreOK, store
<1>3. CASE Exit \/ Crash
  BY <1>3, GoneKeeps DEF IInv, Exit, Crash, StoreOK, store
<1>4. CASE PowerLoss
  <2>1. DiskOK'
    BY <1>4 DEF IInv, PowerLoss, PowerLost, DiskOK, FileOK
  <2>2. SaveOK'
    BY <1>4 DEF PowerLoss, Gone, SaveOK
  <2> QED BY <1>4, <2>1, <2>2 DEF IInv, PowerLoss, StoreOK, store
<1> QED BY <1>1, <1>2, <1>3, <1>4

LEMMA OtherIInv == ASSUME IInv, Tick \/ HistoryStep PROVE IInv'
<1>1. StoreOK'
  BY DEF IInv, Tick, HistoryStep, StoreOK, store
<1> QED BY <1>1, FileUnchanged DEF IInv, Tick, HistoryStep

LEMMA NextIInv == ASSUME IInv, [Step]_storageVars PROVE IInv'
<1>1. CASE Step
  BY <1>1, AddSilenceIInv, RemoveSilenceIInv, SaveStateIInv, SaveStepsIInv,
     RestoreIInv, ProcessIInv, OtherIInv DEF Step
<1>2. CASE UNCHANGED storageVars
  BY <1>2, FileUnchanged DEF storageVars, IInv, StoreOK, store
<1> QED BY <1>1, <1>2

-----------------------------------------------------------------------------
(* The refinement.                                                         *)
Older == {f.data : f \in fallback}

LEMMA StepRefines ==
    ASSUME IInv, [Step]_storageVars
    PROVE  Document!Next \/ UNCHANGED <<entry.data, Older>>
<1> USE DEF Older
<1>1. CASE UNCHANGED disk
  BY <1>1 DEF disk
<1>2. CASE Rename
  <2>1. entry'.data \in Documents
    BY <1>2 DEF IInv, SaveOK, Rename
  <2>2. {f.data : f \in fallback'} = {f.data : f \in fallback} \cup {entry.data}
    BY <1>2 DEF Rename
  <2> QED BY <2>1, <2>2 DEF Document!Next, Document!Replace
<1>3. CASE Settle(TRUE)
  BY <1>3 DEF Settle, Document!Next, Document!Settle
<1>4. CASE PowerLoss
  <2>1. PICK f \in fallback \cup {entry} : entry' = f
    BY <1>4 DEF PowerLoss, PowerLost, IInv, DiskOK, FileOK
  <2>2. fallback' = {}
    BY <1>4 DEF PowerLoss, PowerLost
  <2> QED BY <2>1, <2>2 DEF Document!Next, Document!Lose
<1>5. UNCHANGED disk \/ Rename \/ Settle(TRUE) \/ PowerLoss
  <2>1. CASE Step
    BY <2>1 DEF Step, AddSilence, RemoveSilence, SaveState, SaveStart, SaveSteps,
       Sync, SaveFails, Settle, Restore, LoadFile, RestoreFails, Start, Stop, Exit,
       Crash, Tick, HistoryStep, file, disk
  <2>2. CASE UNCHANGED storageVars
    BY <2>2 DEF storageVars, file, disk
  <2> QED BY <2>1, <2>2
<1> QED BY <1>1, <1>2, <1>3, <1>4, <1>5

(* state.go promises a file that is replaced as a whole, over crashes and  *)
(* power losses at any step of Save: every behaviour of Storage is one of  *)
(* AtomicFile.                                                             *)
THEOREM StorageImplementsAtomicFile == StorageSpec => ImplementsAtomicFile
<1>1. StorageInit => Document!Init
  BY DEF StorageInit, FileInit, NoFile, Document!Init
<1>2. IInv /\ [Step]_storageVars => [Document!Next]_<<entry.data, {f.data : f \in fallback}>>
  BY StepRefines DEF Older
<1> QED BY <1>1, <1>2, InitIInv, NextIInv, PTL
     DEF StorageSpec, ImplementsAtomicFile, Document!Spec

-----------------------------------------------------------------------------
(* SilencesKept.  Its strengthening follows a promise from the store to    *)
(* the disk and back: what the API has acknowledged is in the store        *)
(* (StoreKeeps), what a Save has pledged is in the file it writes          *)
(* (SaveKeeps), and what is firm is in every file that state.json may name *)
(* after a power loss (DiskKeeps).                                         *)
Silence == [id : SilenceIds, matcher : Matchers, until : Nat]
Promise == [kept : SUBSET Silence, ended : SUBSET SilenceIds]
Loaded  == mode \in {"up", "stopping", "saved"}

AllValid(S) == \A x \in S : Valid(x.matcher)
DocValid(d) == d \in Documents => AllValid(d.silences)

PromiseOK ==
    /\ acked \in Promise /\ pledged \in Promise /\ firm \in Promise
    /\ AllValid(silences)
    /\ DocValid(entry.data) /\ \A f \in fallback : DocValid(f.data)
    /\ step \in {"written", "synced"} => DocValid(tmp.data)

Over(x) == x.until <= now

Holds(S, p) == /\ \A x \in p.kept : x \in S \/ Over(x)
               /\ \A x \in S : x.id \notin p.ended

DocHolds(d, p) ==
    /\ d = None => \A x \in p.kept : Over(x)
    /\ d # None => Holds(d.silences, p)

(* p asks for no more than q.                                              *)
Within(p, q) == p.ended \subseteq q.ended /\ \A x \in p.kept : x \in q.kept \/ Over(x)

StoreKeeps ==
    /\ firm.ended \subseteq acked.ended
    /\ mode = "starting" => \A x \in silences : x.id \notin acked.ended
    /\ Loaded => Holds(silences, acked) /\ Within(firm, acked)

DiskKeeps ==
    /\ DocHolds(entry.data, firm)
    /\ \A f \in fallback : DocHolds(f.data, firm)

SaveKeeps ==
    /\ step # "idle" => /\ Loaded
                         /\ Within(firm, pledged)
                         /\ pledged.ended \subseteq acked.ended
    /\ step \in {"written", "synced"} => DocHolds(tmp.data, pledged)
    /\ step = "renamed" => DocHolds(entry.data, pledged)

LastOK ==
    /\ Loaded /\ step # "renamed" /\ last # None => last = entry.data
    /\ ~Loaded => last = None

KInv == IInv /\ PromiseOK /\ StoreKeeps /\ DiskKeeps /\ SaveKeeps /\ LastOK

LEMMA InitKInv == ASSUME StorageInit PROVE KInv
<1>1. IInv
  BY InitIInv
<1>2. PromiseOK
  BY StorageAssumption DEF StorageInit, StoreInit, FileInit, NoFile, NoPromise, PromiseOK, Promise,
     AllValid, DocValid
<1> QED BY <1>1, <1>2 DEF StorageInit, StoreInit, FileInit, NoFile, NoPromise, KInv,
     StoreKeeps, DiskKeeps, SaveKeeps, LastOK, DocHolds, Loaded

(* Mutual dependence ends here: what is firm is in the store.              *)
LEMMA KInvImplies == ASSUME KInv PROVE SilencesKept
BY DEF KInv, StoreKeeps, Loaded, Holds, Within, Over, SilencesKept

LEMMA AddSilenceKInv ==
    ASSUME KInv, NEW m \in Matchers, NEW d \in Durations, AddSilence(m, d)
    PROVE  KInv'
<1>1. IInv'
  BY AddSilenceIInv DEF KInv
<1>2. PICK x \in Silence :
         /\ silences' = silences \cup {x} /\ Valid(x.matcher)
         /\ x \notin silences
  <2>1. PICK id \in SilenceIds \ {x.id : x \in silences} :
           silences' = silences \cup {[id |-> id, matcher |-> m, until |-> now + d]}
    BY DEF AddSilence, Add
  <2> DEFINE new == [id |-> id, matcher |-> m, until |-> now + d]
  <2>2. new \in Silence /\ new.id = id /\ new.matcher = m
    BY SilencesAssumption DEF KInv, IInv, StoreOK, Silence
  <2>3. Valid(m)
    BY DEF AddSilence, Add
  <2> QED BY <2>1, <2>2, <2>3
<1>3. x.id \notin acked.ended
  BY <1>2 DEF AddSilence, Issued
<1>4. acked' = [acked EXCEPT !.kept = @ \cup {x}]
  BY <1>2 DEF AddSilence
<1>5. acked'.kept = acked.kept \cup {x} /\ acked'.ended = acked.ended /\ acked' \in Promise
  BY <1>4 DEF KInv, PromiseOK, Promise
<1>6. PromiseOK'
  BY <1>2, <1>5 DEF KInv, PromiseOK, AddSilence, AllValid, DocValid, file, Documents
<1>7. StoreKeeps'
  BY <1>2, <1>3, <1>5 DEF KInv, StoreKeeps, AddSilence, Loaded, Holds, Within, Over
<1>8. DiskKeeps' /\ SaveKeeps' /\ LastOK'
  BY <1>5 DEF KInv, DiskKeeps, SaveKeeps, LastOK, DocHolds, Holds, Within, Over, Loaded,
              AddSilence, file
<1> QED BY <1>1, <1>6, <1>7, <1>8 DEF KInv

LEMMA RemoveSilenceKInv ==
    ASSUME KInv, NEW id \in SilenceIds, RemoveSilence(id) PROVE KInv'
<1>1. IInv'
  BY RemoveSilenceIInv DEF KInv
<1>2. silences' = {x \in silences : x.id # id}
  BY DEF RemoveSilence, Remove
<1>3. /\ acked'.kept = {x \in acked.kept : x.id # id}
      /\ acked'.ended = acked.ended \cup {id}
      /\ acked' \in Promise
  BY DEF RemoveSilence, Ended, KInv, PromiseOK, Promise
<1>4. /\ firm'.kept = {x \in firm.kept : x.id # id}
      /\ firm'.ended = firm.ended
      /\ firm' \in Promise
  BY DEF RemoveSilence, KInv, PromiseOK, Promise
<1>5. PromiseOK'
  BY <1>2, <1>3, <1>4 DEF KInv, PromiseOK, RemoveSilence, AllValid, DocValid, file, Documents
<1>6. StoreKeeps'
  BY <1>2, <1>3, <1>4 DEF KInv, StoreKeeps, RemoveSilence, Loaded, Holds, Within, Over
<1>7. DiskKeeps' /\ SaveKeeps' /\ LastOK'
  BY <1>3, <1>4 DEF KInv, DiskKeeps, SaveKeeps, LastOK, DocHolds, Holds, Within, Over, Loaded,
              RemoveSilence, file
<1> QED BY <1>1, <1>5, <1>6, <1>7 DEF KInv

LEMMA SaveStateKInv == ASSUME KInv, SaveState PROVE KInv'
<1>1. IInv'
  BY SaveStateIInv DEF KInv
<1>2. Loaded /\ Loaded'
  BY DEF SaveState, Loaded
<1>3. StoreSaved \in Documents /\ StoreSaved.silences = Live
  BY SavedIsDocument DEF KInv, IInv, StoreSaved
<1>4. Holds(Live, acked) /\ DocHolds(StoreSaved, acked)
  <2>1. /\ now \in Nat /\ \A x \in acked.kept : x.until \in Nat
        /\ Holds(silences, acked)
    BY <1>2 DEF KInv, IInv, StoreOK, PromiseOK, Promise, Silence, StoreKeeps
  <2>2. Holds(Live, acked)
    BY <2>1 DEF Holds, Live, Over
  <2> QED BY <1>3, <2>2, StorageAssumption DEF DocHolds
<1>5. Within(firm', acked) /\ firm' \in Promise
  <2>1. Within(firm, acked)
    BY <1>2 DEF KInv, StoreKeeps
  <2>2. Within(acked, acked)
    BY DEF Within
  <2>3. firm' = firm \/ firm' = acked
    BY DEF SaveState
  <2> QED BY <2>1, <2>2, <2>3 DEF KInv, PromiseOK
<1>6. StoreKeeps'
  <2>1. Holds(silences', acked)
    BY <1>4 DEF SaveState, PruneStore
  <2> QED BY <1>2, <1>5, <2>1 DEF StoreKeeps, Within, Over, Holds, SaveState, Loaded
<1>7. PromiseOK'
  BY <1>3, <1>5 DEF KInv, PromiseOK, SaveState, SaveStart, PruneStore, Live, AllValid, DocValid
<1>8. CASE StoreSaved = last /\ UNCHANGED <<tmp, step>>
  <2>1. last = entry.data /\ step = "idle"
    BY <1>2, <1>3, <1>8, StorageAssumption DEF KInv, LastOK, SaveState, SaveStart
  <2>2. DiskKeeps'
    <3>1. CASE fallback = {}
      BY <1>3, <1>4, <1>8, <2>1, <3>1, StorageAssumption
         DEF SaveState, SaveStart, DiskKeeps, DocHolds, Holds, Over
    <3>2. CASE fallback # {}
      BY <3>2 DEF KInv, SaveState, SaveStart, DiskKeeps, DocHolds, Holds, Over
    <3> QED BY <3>1, <3>2
  <2>3. SaveKeeps' /\ LastOK'
    BY <1>2, <1>8, <2>1 DEF KInv, SaveKeeps, LastOK, SaveState, SaveStart
  <2> QED BY <1>1, <1>6, <1>7, <2>2, <2>3 DEF KInv
<1>9. CASE StoreSaved # last /\ tmp'.data = StoreSaved /\ step' = "written"
  <2>1. firm' = firm
    BY <1>9 DEF SaveState
  <2>2. DiskKeeps'
    BY <2>1 DEF KInv, SaveState, SaveStart, DiskKeeps, DocHolds, Holds, Over
  <2>3. SaveKeeps'
    <3>1. pledged' = acked /\ acked' = acked /\ now' = now
      BY DEF SaveState
    <3>2. Within(firm, pledged)' /\ pledged'.ended \subseteq acked'.ended
      BY <1>5, <3>1 DEF Within, Over
    <3>3. DocHolds(tmp.data, pledged)'
      BY <1>4, <1>9, <3>1 DEF DocHolds, Holds, Over
    <3> QED BY <1>2, <1>9, <3>2, <3>3 DEF SaveKeeps
  <2>4. LastOK'
    BY <1>9 DEF KInv, SaveState, SaveStart, LastOK, Loaded
  <2> QED BY <1>1, <1>6, <1>7, <2>2, <2>3, <2>4 DEF KInv
<1> QED BY <1>8, <1>9 DEF SaveState, SaveStart

LEMMA SaveStepsKInv == ASSUME KInv, SaveSteps PROVE KInv'
<1>1. IInv'
  BY SaveStepsIInv DEF KInv
<1> USE DEF SaveSteps
<1>2. UNCHANGED <<now, silences, acked, pledged, mode>> /\ Loaded /\ Loaded'
  BY DEF store, KInv, SaveKeeps, Loaded, Sync, SaveFails, Rename, Settle
<1>3. CASE Sync \/ SaveFails
  <2>1. PromiseOK' /\ StoreKeeps' /\ DiskKeeps'
    BY <1>2, <1>3 DEF KInv, PromiseOK, StoreKeeps, DiskKeeps, Sync, SaveFails, Settle, Rename,
       Loaded, Holds, DocHolds, Within, Over, AllValid, DocValid, SaveOK, IInv, Documents
  <2>2. SaveKeeps' /\ LastOK'
    BY <1>2, <1>3 DEF KInv, SaveKeeps, LastOK, Sync, SaveFails, Settle, Rename, IInv, SaveOK,
       Loaded, Holds, DocHolds, Within, Over
  <2> QED BY <1>1, <2>1, <2>2 DEF KInv
<1>4. CASE Rename
  <2>1. DocHolds(tmp.data, pledged) /\ Within(firm, pledged) /\ firm' = firm
    BY <1>4 DEF KInv, SaveKeeps, Rename, Settle
  <2>2. DocHolds(tmp.data, firm)
    BY <2>1 DEF DocHolds, Holds, Within
  <2>3. PromiseOK' /\ StoreKeeps'
    BY <1>2, <1>4, <2>1 DEF KInv, PromiseOK, StoreKeeps, Rename, Loaded, Holds, Within, Over,
       AllValid, DocValid, Documents
  <2>4. DiskKeeps'
    BY <1>2, <1>4, <2>1, <2>2 DEF KInv, DiskKeeps, Rename, DocHolds, Holds, Over
  <2>5. SaveKeeps' /\ LastOK'
    BY <1>2, <1>4, <2>1 DEF KInv, SaveKeeps, LastOK, Rename, DocHolds, Holds, Within, Over, Loaded
  <2> QED BY <1>1, <2>3, <2>4, <2>5 DEF KInv
<1>5. CASE Settle(FALSE) /\ UNCHANGED firm
  <2>1. PromiseOK' /\ StoreKeeps' /\ DiskKeeps'
    BY <1>2, <1>5 DEF KInv, PromiseOK, StoreKeeps, DiskKeeps, Settle, DocHolds, Holds, Within,
       Over, Loaded, AllValid, DocValid, Documents
  <2>2. SaveKeeps' /\ LastOK'
    BY <1>2, <1>5 DEF KInv, SaveKeeps, LastOK, Settle
  <2> QED BY <1>1, <2>1, <2>2 DEF KInv
<1>6. CASE /\ Settle(TRUE)
           /\ firm' = [kept |-> pledged.kept \cap acked.kept, ended |-> pledged.ended]
  <2>1. DocHolds(entry.data, pledged) /\ Loaded /\ pledged.ended \subseteq acked.ended
    BY <1>6 DEF KInv, SaveKeeps, Settle
  <2>2. PromiseOK'
    BY <1>2, <1>6 DEF KInv, PromiseOK, Promise, Settle, AllValid, DocValid, Documents
  <2>3. StoreKeeps'
    BY <1>2, <1>6, <2>1 DEF KInv, StoreKeeps, Holds, Within, Over, Loaded
  <2>4. DiskKeeps'
    BY <1>2, <1>6, <2>1 DEF DiskKeeps, Settle, DocHolds, Holds, Over
  <2>5. SaveKeeps' /\ LastOK'
    BY <1>2, <1>6 DEF SaveKeeps, LastOK, Settle
  <2> QED BY <1>1, <2>2, <2>3, <2>4, <2>5 DEF KInv
<1> QED BY <1>3, <1>4, <1>5, <1>6 DEF Sync, SaveFails, Rename

(* What a process finds on disk gives it every silence that is firm.       *)
LEMMA RestoreKInv == ASSUME KInv, Restore PROVE KInv'
<1>1. IInv'
  BY RestoreIInv DEF KInv
<1> DEFINE d == entry.data
<1>2. /\ step = "idle" /\ mode = "starting" /\ mode' = "up" /\ ~Loaded
      /\ UNCHANGED <<now, entry, fallback, tmp, step, pledged, firm>>
  BY DEF Restore, LoadFile, KInv, SaveKeeps, Loaded
<1>3. /\ acked'.kept = silences' /\ acked' \in Promise
      /\ acked'.ended = acked.ended \ {x.id : x \in silences'}
  BY <1>1 DEF Restore, Current, KInv, PromiseOK, Promise, Silence, IInv, StoreOK
<1>4. /\ \A x \in firm.kept : x \in silences' \/ Over(x)
      /\ \A x \in silences' : x.id \notin firm.ended
      /\ AllValid(silences')
  <2>1. /\ now \in Nat /\ \A x \in firm.kept : x.until \in Nat
        /\ \A x \in silences : x.id \notin firm.ended
        /\ AllValid(silences)
    BY <1>2 DEF KInv, IInv, StoreOK, PromiseOK, Promise, Silence, StoreKeeps
  <2>2. CASE d = None
    BY <1>2, <2>1, <2>2 DEF KInv, DiskKeeps, DocHolds, Restore, store
  <2>3. CASE d # None
    <3>1. d \in Documents
      BY <2>3 DEF KInv, IInv, DiskOK, FileOK
    <3>2. Holds(d.silences, firm) /\ AllValid(d.silences)
      BY <2>3, <3>1 DEF KInv, DiskKeeps, DocHolds, PromiseOK, DocValid
    <3>3. silences' = {x \in silences \cup {y \in d.silences : Valid(y.matcher)} :
                          now < x.until}
      BY <2>3, <3>1, StorageAssumption DEF Restore, StoreLoad
    <3> QED BY <2>1, <3>2, <3>3 DEF Holds, AllValid, Over
  <2> QED BY <2>2, <2>3
<1>5. PromiseOK'
  BY <1>2, <1>3, <1>4 DEF KInv, PromiseOK, DocValid, AllValid, Documents
<1>6. StoreKeeps'
  BY <1>2, <1>3, <1>4 DEF KInv, StoreKeeps, Holds, Within, Over, Loaded
<1>7. DiskKeeps' /\ SaveKeeps'
  BY <1>2 DEF KInv, DiskKeeps, SaveKeeps, DocHolds, Holds, Over
<1>8. LastOK'
  BY <1>2, StorageAssumption DEF Loaded, Restore, LoadFile, LastOK, KInv, IInv, DiskOK, FileOK
<1> QED BY <1>1, <1>5, <1>6, <1>7, <1>8 DEF KInv

LEMMA RestoreFailsKInv == ASSUME KInv, RestoreFails PROVE KInv'
<1>1. IInv'
  BY RestoreIInv DEF KInv
<1>2. /\ step = "idle" /\ mode = "starting" /\ mode' = "up" /\ ~Loaded
      /\ UNCHANGED <<now, silences, entry, fallback, tmp, step, last, pledged>>
  BY DEF RestoreFails, file, store, KInv, SaveKeeps, Loaded
<1>3. /\ acked'.kept = silences /\ acked'.ended = acked.ended /\ acked' \in Promise
      /\ firm'.kept = {} /\ firm'.ended = firm.ended /\ firm' \in Promise
  BY DEF RestoreFails, KInv, PromiseOK, Promise, Silence, IInv, StoreOK
<1>4. PromiseOK'
  BY <1>2, <1>3 DEF KInv, PromiseOK, DocValid, AllValid, Documents
<1>5. StoreKeeps'
  BY <1>2, <1>3 DEF KInv, StoreKeeps, Holds, Within, Over, Loaded
<1>6. DiskKeeps' /\ SaveKeeps'
  BY <1>2, <1>3 DEF KInv, DiskKeeps, SaveKeeps, DocHolds, Holds, Over
<1>7. LastOK'
  BY <1>2, StorageAssumption DEF LastOK, KInv
<1> QED BY <1>1, <1>4, <1>5, <1>6, <1>7 DEF KInv

(* A process that starts has an empty store; one that is gone leaves the   *)
(* disk as it is, or one of the files that the name may refer to.          *)
LEMMA StartKInv == ASSUME KInv, Start PROVE KInv'
<1>1. IInv'
  BY ProcessIInv DEF KInv
<1>2. /\ mode = "down" /\ mode' = "starting" /\ silences' = {} /\ step = "idle"
      /\ UNCHANGED <<now, entry, fallback, tmp, step, last, acked, pledged, firm>>
  BY DEF Start, file, ghosts, KInv, SaveKeeps, Loaded
<1>3. PromiseOK'
  BY <1>2 DEF KInv, PromiseOK, DocValid, AllValid, Documents
<1>4. StoreKeeps' /\ LastOK'
  BY <1>2 DEF KInv, StoreKeeps, Loaded, LastOK
<1>5. DiskKeeps' /\ SaveKeeps'
  BY <1>2 DEF KInv, DiskKeeps, SaveKeeps, DocHolds, Holds, Over
<1> QED BY <1>1, <1>3, <1>4, <1>5 DEF KInv

LEMMA StopKInv == ASSUME KInv, Stop PROVE KInv'
<1>1. IInv'
  BY ProcessIInv DEF KInv
<1>2. /\ Loaded /\ Loaded' /\ mode' # "starting"
      /\ UNCHANGED <<now, silences, entry, fallback, tmp, step, last, acked, pledged, firm>>
  BY DEF Stop, file, store, ghosts, Loaded
<1>3. PromiseOK'
  BY <1>2 DEF KInv, PromiseOK, DocValid, AllValid, Documents
<1>4. StoreKeeps' /\ LastOK'
  BY <1>2 DEF KInv, StoreKeeps, LastOK, Holds, Within, Over
<1>5. DiskKeeps' /\ SaveKeeps'
  BY <1>2 DEF KInv, DiskKeeps, SaveKeeps, DocHolds, Holds, Within, Over
<1> QED BY <1>1, <1>3, <1>4, <1>5 DEF KInv

LEMMA GoneKInv == ASSUME KInv, Exit \/ Crash \/ PowerLoss PROVE KInv'
<1>1. IInv'
  BY ProcessIInv DEF KInv
<1>2. /\ ~Loaded' /\ mode' = "down" /\ step' = "idle" /\ last' = None
      /\ UNCHANGED <<now, silences, acked, pledged, firm>>
  BY DEF Exit, Crash, PowerLoss, Gone, store, ghosts, Loaded
<1>3. /\ entry' = entry \/ entry' \in fallback
      /\ fallback' = fallback \/ fallback' = {}
  BY DEF Exit, Crash, PowerLoss, PowerLost, disk, KInv, IInv, DiskOK, FileOK
<1>4. PromiseOK'
  BY <1>2, <1>3 DEF KInv, PromiseOK, DocValid, AllValid, Documents
<1>5. StoreKeeps' /\ LastOK' /\ SaveKeeps'
  BY <1>2 DEF KInv, StoreKeeps, LastOK, SaveKeeps
<1>6. DiskKeeps'
  BY <1>2, <1>3 DEF KInv, DiskKeeps, DocHolds, Holds, Over
<1> QED BY <1>1, <1>4, <1>5, <1>6 DEF KInv

(* Time: what is over stays over.                                          *)
LEMMA TickKInv == ASSUME KInv, Tick PROVE KInv'
<1>1. IInv'
  BY OtherIInv DEF KInv
<1>2. UNCHANGED <<mode, silences, entry, fallback, tmp, step, last, acked, pledged, firm>>
  BY DEF Tick, file, store, ghosts
<1>3. \A x \in Silence : Over(x) => Over(x)'
  BY DEF Tick, Over, Silence, KInv, IInv, StoreOK
<1>4. PromiseOK'
  BY <1>2 DEF KInv, PromiseOK, DocValid, AllValid, Documents
<1>5. \A x \in acked.kept \cup pledged.kept \cup firm.kept : Over(x) => Over(x)'
  BY <1>3 DEF KInv, PromiseOK, Promise
<1>6. StoreKeeps' /\ LastOK'
  BY <1>2, <1>5 DEF KInv, StoreKeeps, LastOK, Holds, Within, Loaded
<1>7. DiskKeeps'
  BY <1>2, <1>5 DEF KInv, DiskKeeps, DocHolds, Holds
<1>8. SaveKeeps'
  BY <1>2, <1>5 DEF KInv, SaveKeeps, DocHolds, Holds, Within, Loaded
<1> QED BY <1>1, <1>4, <1>6, <1>7, <1>8 DEF KInv

LEMMA HistoryKInv == ASSUME KInv, HistoryStep \/ UNCHANGED storageVars PROVE KInv'
<1>1. IInv'
  BY NextIInv, OtherIInv DEF KInv
<1>2. UNCHANGED <<now, mode, silences, entry, fallback, tmp, step, last, acked, pledged, firm>>
  BY DEF HistoryStep, storageVars, file, store, ghosts
<1>3. PromiseOK'
  BY <1>2 DEF KInv, PromiseOK, DocValid, AllValid, Documents
<1>4. StoreKeeps' /\ LastOK'
  BY <1>2 DEF KInv, StoreKeeps, LastOK, Holds, Within, Over, Loaded
<1>5. DiskKeeps' /\ SaveKeeps'
  BY <1>2 DEF KInv, DiskKeeps, SaveKeeps, DocHolds, Holds, Within, Over, Loaded
<1> QED BY <1>1, <1>3, <1>4, <1>5 DEF KInv

LEMMA NextKInv == ASSUME KInv, [Step]_storageVars PROVE KInv'
<1>1. CASE Step
  BY <1>1, AddSilenceKInv, RemoveSilenceKInv, SaveStateKInv, SaveStepsKInv, RestoreKInv,
     RestoreFailsKInv, StartKInv, StopKInv, GoneKInv, TickKInv, HistoryKInv DEF Step
<1>2. CASE UNCHANGED storageVars
  BY <1>2, HistoryKInv
<1> QED BY <1>1, <1>2

(* A silence that was acknowledged and then saved is in force in every     *)
(* later process until it ends or is removed, and one that was removed     *)
(* stays removed, whichever steps of Save fail and whenever the process or *)
(* the power goes.                                                         *)
THEOREM SilencesAreKept == StorageSpec => []SilencesKept
<1> QED BY InitKInv, NextKInv, KInvImplies, PTL DEF StorageSpec

-----------------------------------------------------------------------------
(* The digest.                                                             *)

LEMMA DivMod ==
    ASSUME NEW p \in Nat \ {0}, NEW a \in Int
    PROVE  a % p \in 0..p - 1 /\ \E q \in Int : a = p * q + (a % p)
<1>1. a % p \in 0..p - 1
  OBVIOUS
<1>2. a \div p \in Int /\ a = p * (a \div p) + (a % p)
  OBVIOUS
<1> QED BY <1>1, <1>2

LEMMA Stretch ==
    ASSUME NEW p \in Nat \ {0}, NEW x \in Int, x >= 1
    PROVE  p * x \in Int /\ p * x >= p
<1>1. x - 1 \in Nat /\ p * x = p + p * (x - 1)
  OBVIOUS
<1>2. p * (x - 1) \in Nat
  BY <1>1
<1> QED BY <1>1, <1>2

LEMMA DivIs ==
    ASSUME NEW p \in Nat \ {0}, NEW q \in Int, NEW r \in 0..p - 1,
           NEW a \in Int, a = p * q + r
    PROVE  a \div p = q /\ a % p = r
<1>1. PICK k \in Int : k = a \div p
  OBVIOUS
<1>2. PICK s \in 0..p - 1 : s = a % p
  BY DivMod
<1>3. a = p * k + s
  BY <1>1, <1>2
<1>4. p * (k - q) = r - s /\ p * (q - k) = s - r
  BY <1>3
<1>5. ~(k - q >= 1)
  BY <1>4, Stretch
<1>6. ~(q - k >= 1)
  BY <1>4, Stretch
<1>7. k = q
  BY <1>5, <1>6
<1> QED BY <1>1, <1>2, <1>4, <1>7

LEMMA DivGrows ==
    ASSUME NEW p \in Nat \ {0}, NEW a \in Int, NEW b \in Int, a <= b
    PROVE  a \div p <= b \div p
<1>1. PICK k \in Int, s \in 0..p - 1 : k = a \div p /\ a = p * k + s
  BY DivMod
<1>2. PICK l \in Int, r \in 0..p - 1 : l = b \div p /\ b = p * l + r
  BY DivMod
<1>3. p * (k - l) <= r - s
  BY <1>1, <1>2
<1>4. ~(k - l >= 1)
  BY <1>3, Stretch
<1> QED BY <1>1, <1>2, <1>4

(* Numbers that leave the same remainder are a multiple apart.             *)
LEMMA SameRest ==
    ASSUME NEW p \in Nat \ {0}, NEW a \in Int, NEW b \in Int, a < b, a % p = b % p
    PROVE  a <= b - p
<1>1. PICK k \in Int : a = p * k + (a % p)
  BY DivMod
<1>2. PICK l \in Int : b = p * l + (b % p)
  BY DivMod
<1>3. PICK s \in 0..p - 1 : s = a % p
  BY DivMod
<1>4. b - a = p * (l - k) /\ l - k \in Int
  BY <1>1, <1>2, <1>3
<1>5. l - k >= 1
  <2>1. l - k <= 0 => p * (l - k) <= 0
    <3> SUFFICES ASSUME l - k <= 0 PROVE p * (l - k) <= 0
      OBVIOUS
    <3>1. k - l \in Nat /\ p * (k - l) \in Nat
      OBVIOUS
    <3>2. p * (l - k) = -(p * (k - l))
      OBVIOUS
    <3> QED BY <3>1, <3>2
  <2> QED BY <1>4, <2>1
<1> QED BY <1>4, <1>5, Stretch

LEMMA Clocks ==
    ASSUME NEW t \in Int
    PROVE  /\ Offset(t) \in Int /\ Local(t) \in Int /\ DayOf(t) \in Int
           /\ Offset(t) = IF t < Change THEN OffsetBefore ELSE OffsetAfter
           /\ Local(t) = t + Offset(t)
<1>1. Offset(t) \in Int /\ Local(t) \in Int
  BY CalendarAssumption DEF Offset, Local
<1> QED BY <1>1, CalendarAssumption DEF Offset, Local, DayOf

(* The days go by in order.                                                *)
LEMMA DaysInOrder ==
    ASSUME NoDayTwice, NEW s \in Int, NEW t \in Int, s <= t
    PROVE  DayOf(s) <= DayOf(t)
<1>1. Day \in Nat \ {0} /\ Change \in Int /\ OffsetBefore \in Int /\ OffsetAfter \in Int
  BY CalendarAssumption
<1>2. ASSUME NEW a \in Int, NEW b \in Int, a <= b, a < Change <=> b < Change
      PROVE  DayOf(a) <= DayOf(b)
  <2>1. Local(a) \in Int /\ Local(b) \in Int /\ Local(a) <= Local(b)
    BY <1>1, <1>2, Clocks
  <2> QED BY <1>1, <2>1, DivGrows DEF DayOf
<1>3. CASE s < Change /\ ~(t < Change)
  <2>1. DayOf(s) <= DayOf(Change - 1)
    BY <1>1, <1>2, <1>3
  <2>2. DayOf(Change) <= DayOf(t)
    BY <1>1, <1>2, <1>3
  <2>3. DayOf(Change - 1) \in Int /\ DayOf(Change) \in Int /\ DayOf(s) \in Int /\ DayOf(t) \in Int
    BY <1>1, Clocks
  <2> QED BY <2>1, <2>2, <2>3 DEF NoDayTwice
<1>4. CASE s < Change <=> t < Change
  BY <1>2, <1>4
<1> QED BY <1>1, <1>3, <1>4

(* Where At exists, Date finds the instant that reads so.                  *)
LEMMA SlotReads ==
    ASSUME AtExists, NEW d \in Int
    PROVE  Slot(d) \in Int /\ Local(Slot(d)) = d * Day + At
<1>1. /\ Day \in Nat \ {0} /\ At \in 0..Day - 1
      /\ Change \in Int /\ OffsetBefore \in Int /\ OffsetAfter \in Int
  BY CalendarAssumption
<1>2. PICK x \in Int : x = d * Day + At
  BY <1>1
<1>3. x % Day = At
  BY <1>1, <1>2, DivIs
<1>4. x \notin Change + OffsetBefore..Change + OffsetAfter - 1
  BY <1>3 DEF AtExists
<1>5. x < Change + OffsetBefore \/ x >= Change + OffsetAfter
  BY <1>1, <1>4
<1>6. Slot(d) = x - Offset(x - Offset(x))
  BY <1>2 DEF Slot, Date
<1>7. Offset(x) \in Int
  BY Clocks
<1>8. PICK u \in Int : u = x - Offset(x)
  BY <1>7
<1>9. PICK o \in Int : o = Offset(u)
  BY Clocks
<1>10. Offset(x - o) = o
  <2>1. o = IF u < Change THEN OffsetBefore ELSE OffsetAfter
    BY <1>9, Clocks
  <2>2. u = x - IF x < Change THEN OffsetBefore ELSE OffsetAfter
    BY <1>8, Clocks
  <2>3. x - o < Change <=> u < Change
    BY <1>1, <1>5, <2>1, <2>2
  <2> QED BY <2>1, <2>3, Clocks
<1>11. Slot(d) = x - o /\ x - o \in Int
  BY <1>6, <1>8, <1>9
<1> QED BY <1>2, <1>10, <1>11, Clocks

(* A digest is due on its day at its time, and covers what is between the  *)
(* one before and itself.                                                  *)
LEMMA SlotDay ==
    ASSUME AtExists, NEW d \in Int
    PROVE  DayOf(Slot(d)) = d /\ PeriodStart(Slot(d)) = Slot(d - Every)
<1>1. Day \in Nat \ {0} /\ Every \in Nat \ {0} /\ At \in 0..Day - 1
  BY CalendarAssumption
<1>2. PICK x \in Int : x = Day * d + At
  BY <1>1
<1>3. Local(Slot(d)) = x
  BY <1>1, <1>2, SlotReads
<1>4. x \div Day = d /\ x % Day = At
  BY <1>1, <1>2, DivIs
<1>5. DayOf(Slot(d)) = d /\ TimeOf(Slot(d)) = At
  BY <1>3, <1>4 DEF DayOf, TimeOf
<1> QED BY <1>5 DEF PeriodStart, Slot

LEMMA SlotsGrow ==
    ASSUME AtExists, NEW d \in Int, NEW e \in Int, d < e
    PROVE  Slot(d) < Slot(e)
<1>1. /\ Day \in Nat \ {0} /\ At \in 0..Day - 1
      /\ Change \in Int /\ OffsetBefore \in Int /\ OffsetAfter \in Int
      /\ OffsetBefore - OffsetAfter \in -Day + 1..Day - 1
  BY CalendarAssumption
<1>2. PICK s \in Int : s = Slot(d)
  BY SlotReads
<1>3. PICK t \in Int : t = Slot(e)
  BY SlotReads
<1>4. s + Offset(s) = d * Day + At /\ t + Offset(t) = e * Day + At
  BY <1>2, <1>3, SlotReads, Clocks
<1>5. PICK o \in {OffsetBefore, OffsetAfter} : o = Offset(s)
  BY Clocks
<1>6. PICK p \in {OffsetBefore, OffsetAfter} : p = Offset(t)
  BY Clocks
<1>7. Day * (e - d) \in Int /\ Day * (e - d) >= Day
  BY <1>1, Stretch
<1>8. (t + p) - (s + o) = Day * (e - d)
  BY <1>1, <1>4, <1>5, <1>6
<1>9. PICK g \in Int : g = Day * (e - d)
  BY <1>7
<1>10. t - s > 0
  BY <1>1, <1>5, <1>6, <1>7, <1>8, <1>9
<1> QED BY <1>2, <1>3, <1>10

(* A day's digest is past on later days and to come on earlier ones.       *)
LEMMA SlotsOfDays ==
    ASSUME PlainClock, NEW d \in Int, NEW t \in Int
    PROVE  (d < DayOf(t) => Slot(d) <= t) /\ (d > DayOf(t) => t < Slot(d))
<1>1. AtExists /\ NoDayTwice
  BY DEF PlainClock
<1>2. PICK s \in Int : s = Slot(d)
  BY <1>1, SlotReads
<1>3. DayOf(s) = d /\ DayOf(t) \in Int
  BY <1>1, <1>2, SlotDay, Clocks
<1>4. (s <= t => DayOf(s) <= DayOf(t)) /\ (t <= s => DayOf(t) <= DayOf(s))
  BY <1>1, DaysInOrder
<1> QED BY <1>2, <1>3, <1>4

DigestDay(d) == d \in Int /\ d % Every = Weekday

(* The loop of Next ends, and with the first digest that is still to come. *)
LEMMA NextIs ==
    ASSUME PlainClock, NEW t \in Int
    PROVE  \E d \in Int : /\ DigestDay(d) /\ NextDigest(t) = Slot(d)
                          /\ Slot(d - Every) <= t /\ t < Slot(d)
<1>1. Every \in Nat \ {0} /\ Weekday \in 0..Every - 1
  BY CalendarAssumption
<1>2. AtExists
  BY DEF PlainClock
<1>3. PICK n \in Int : n = DayOf(t)
  BY Clocks
<1>4. ASSUME NEW e \in Int PROVE Fits(e, t) <=> Slot(e) > t /\ DigestDay(e)
  BY <1>2, SlotDay DEF Fits, DigestDay
<1>5. PICK w \in Int : w = Weekday - n
  BY <1>1
<1>6. PICK r \in 0..Every - 1, q \in Int : w = Every * q + r
  <2>1. w % Every \in 0..Every - 1 /\ \E q \in Int : w = Every * q + (w % Every)
    BY <1>1, DivMod
  <2> QED BY <2>1
<1>f. PICK f \in Int : f = n + r
  BY <1>1
<1>g. PICK g \in Int : g = f + Every
  BY <1>1
<1>7. DigestDay(f) /\ DigestDay(g)
  <2>1. PICK m \in Int : m = Every * q
    BY <1>1
  <2>2. Every * (-q) = -m /\ Every * (1 - q) = Every - m
    BY <1>1, <2>1
  <2>3. f = Every * (-q) + Weekday /\ g = Every * (1 - q) + Weekday
    BY <1>1, <1>5, <1>6, <1>f, <1>g, <2>1, <2>2
  <2>4. -q \in Int /\ 1 - q \in Int
    OBVIOUS
  <2>5. f % Every = Weekday
    BY <1>1, <2>3, <2>4, DivIs
  <2>6. g % Every = Weekday
    BY <1>1, <2>3, <2>4, DivIs
  <2> QED BY <2>5, <2>6 DEF DigestDay
<1>8. ASSUME NEW e \in Int, n <= e, e < g, DigestDay(e) PROVE e = f
  <2>1. f % Every = e % Every /\ g % Every = e % Every
    BY <1>7, <1>8 DEF DigestDay
  <2>2. e < f => e <= f - Every
    BY <1>1, <2>1, SameRest
  <2>3. e <= g - Every
    BY <1>1, <1>8, <2>1, SameRest
  <2> QED BY <1>1, <1>6, <1>8, <1>f, <1>g, <2>2, <2>3
<1>9. t < Slot(g)
  <2>1. g > n
    BY <1>1, <1>f, <1>g
  <2> QED BY <1>3, <2>1, SlotsOfDays
<1>10. \E d \in n..n + 2 * Every : Fits(d, t) /\ \A e \in n..d - 1 : ~Fits(e, t)
  <2>1. CASE t < Slot(f)
    <3>1. Fits(f, t)
      BY <1>2, <1>4, <1>7, <2>1, SlotReads
    <3>2. \A e \in n..f - 1 : e \in Int /\ n <= e /\ e < g /\ e # f
      BY <1>1, <1>g
    <3>3. \A e \in n..f - 1 : ~Fits(e, t)
      BY <1>4, <1>8, <3>2
    <3>4. f \in n..n + 2 * Every
      BY <1>1, <1>f
    <3> QED BY <3>1, <3>3, <3>4
  <2>2. CASE ~(t < Slot(f))
    <3>1. Fits(g, t) /\ ~Fits(f, t)
      BY <1>2, <1>4, <1>7, <1>9, <2>2, SlotReads
    <3>2. \A e \in n..g - 1 : e \in Int /\ n <= e /\ e < g
      OBVIOUS
    <3>3. \A e \in n..g - 1 : ~Fits(e, t)
      BY <1>4, <1>8, <3>1, <3>2
    <3>4. g \in n..n + 2 * Every
      BY <1>1, <1>f, <1>g
    <3> QED BY <3>1, <3>3, <3>4
  <2> QED BY <2>1, <2>2
<1>11. PICK d \in n..n + 2 * Every :
          NextDigest(t) = Slot(d) /\ Fits(d, t) /\ \A e \in n..d - 1 : ~Fits(e, t)
  BY <1>3, <1>10 DEF NextDigest
<1>12. DigestDay(d) /\ t < Slot(d) /\ Slot(d) \in Int
  BY <1>2, <1>4, <1>11, SlotReads
<1>13. DigestDay(d - Every)
  <2>1. PICK k \in Int : d = Every * k + Weekday
    BY <1>1, <1>12, DivMod DEF DigestDay
  <2>2. d - Every = Every * (k - 1) + Weekday /\ d - Every \in Int
    BY <1>1, <2>1
  <2> QED BY <1>1, <2>2, DivIs DEF DigestDay
<1>14. Slot(d - Every) <= t
  <2>1. d - Every \in Int /\ Slot(d - Every) \in Int
    BY <1>1, <1>2, SlotReads
  <2>2. CASE d - Every < n
    BY <1>3, <2>1, <2>2, SlotsOfDays
  <2>3. CASE ~(d - Every < n)
    <3>1. d - Every \in n..d - 1
      BY <1>1, <2>1, <2>3
    <3>2. ~Fits(d - Every, t)
      BY <1>11, <3>1
    <3> QED BY <1>4, <1>13, <2>1, <3>2
  <2> QED BY <2>2, <2>3
<1> QED BY <1>11, <1>12, <1>14

(* Every moment of a digest's period has that digest next, and no other.   *)
LEMMA OneDigest ==
    ASSUME PlainClock, NEW d \in Int, DigestDay(d), NEW u \in Int
    PROVE  /\ NextDigest(u) \in Int /\ u < NextDigest(u)
           /\ Slot(d - Every) <= u /\ u < Slot(d) <=> NextDigest(u) = Slot(d)
<1>1. Every \in Nat \ {0}
  BY CalendarAssumption
<1>2. AtExists
  BY DEF PlainClock
<1>3. PICK e \in Int : DigestDay(e) /\ NextDigest(u) = Slot(e) /\ Slot(e - Every) <= u /\ u < Slot(e)
  BY NextIs
<1>4. d % Every = e % Every
  BY <1>3 DEF DigestDay
<1>5. /\ Slot(d) \in Int /\ Slot(e) \in Int
      /\ d - Every \in Int /\ Slot(d - Every) \in Int
      /\ e - Every \in Int /\ Slot(e - Every) \in Int
  BY <1>1, <1>2, SlotReads
<1>6. CASE e < d
  <2>1. e <= d - Every
    BY <1>1, <1>4, <1>6, SameRest
  <2>2. Slot(e) <= Slot(d - Every) /\ Slot(e) < Slot(d)
    BY <1>2, <1>5, <1>6, <2>1, SlotsGrow
  <2> QED BY <1>3, <1>5, <2>2
<1>7. CASE d < e
  <2>1. d <= e - Every
    BY <1>1, <1>4, <1>7, SameRest
  <2>2. Slot(d) <= Slot(e - Every) /\ Slot(d) < Slot(e)
    BY <1>2, <1>5, <1>7, <2>1, SlotsGrow
  <2> QED BY <1>3, <1>5, <2>2
<1>8. CASE e = d
  BY <1>3, <1>5, <1>8
<1> QED BY <1>6, <1>7, <1>8

LEMMA NextDue ==
    ASSUME PlainClock, NEW t \in Int
    PROVE  /\ NextDigest(t) \in Int /\ t < NextDigest(t)
           /\ \E d \in Int : DigestDay(d) /\ NextDigest(t) = Slot(d)
<1>1. PICK d \in Int : DigestDay(d) /\ NextDigest(t) = Slot(d) /\ t < Slot(d)
  BY NextIs
<1> QED BY <1>1, SlotReads DEF PlainClock

Holding(a) == \E i \in 1..Len(rows) : a \in rows[i]

HistoryTypes ==
    /\ now \in Nat
    /\ stage \in [Alerts -> {"none", "pending", "recorded", "lost"}]
    /\ ts \in [Alerts -> Nat] /\ recorded \in [Alerts -> Nat]
    /\ rows \in Seq(SUBSET Alerts) /\ safe \in Nat
    /\ counted \in [Alerts -> Nat]
    /\ due \in Int /\ \A d \in reported : d \in Int /\ d <= now

(* What the table holds was taken up, and what was recorded is held until  *)
(* its time is over.                                                       *)
TableOK ==
    /\ \A a \in Alerts : Holding(a) => stage[a] \in {"recorded", "lost"}
    /\ \A a \in Alerts :
         stage[a] = "recorded" => Holding(a) \/ ts[a] < now - Retention

(* A digest is sent at its time, and none for this time was sent before.   *)
DueOK ==
    Digesting /\ due # -1 =>
      /\ now <= due /\ \A d \in reported : d < due
      /\ \E d \in Int : DigestDay(d) /\ due = Slot(d)

Kept(a) == NextDigest(ts[a]) - ts[a] <= Retention

CountOK ==
    \A a \in Alerts :
      /\ counted[a] <= 1
      /\ counted[a] > 0 => stage[a] # "none" /\ NextDigest(ts[a]) \in reported
      /\ stage[a] = "recorded" /\ NextDigest(ts[a]) \in reported
         /\ recorded[a] < NextDigest(ts[a]) /\ Kept(a) => counted[a] > 0

HInv == HistoryTypes /\ TableOK /\ DueOK /\ CountOK

LEMMA InitHInv == ASSUME StorageInit PROVE HInv
<1>1. HistoryTypes
  BY DEF StorageInit, HistoryInit, HistoryTypes
<1>2. TableOK
  BY DEF StorageInit, HistoryInit, TableOK, Holding
<1>3. DueOK
  BY DEF StorageInit, DueOK, Digesting
<1>4. CountOK
  BY DEF StorageInit, HistoryInit, CountOK
<1> QED BY <1>1, <1>2, <1>3, <1>4 DEF HInv

(* Nothing of the history changes, and the digest, if anything, ends.      *)
LEMMA QuietHInv ==
    ASSUME HInv, UNCHANGED <<now, history>>, Digesting' => Digesting
    PROVE  HInv'
<1>1. UNCHANGED <<now, stage, ts, rows, safe, recorded, due, counted, reported>>
  BY DEF history, table, digest
<1>2. HistoryTypes'
  BY <1>1 DEF HInv, HistoryTypes
<1>3. TableOK' /\ DueOK' /\ CountOK'
  BY <1>1 DEF HInv, TableOK, Holding, DueOK, CountOK, Kept
<1> QED BY <1>2, <1>3 DEF HInv

LEMMA DetectHInv ==
    ASSUME HInv, UNCHANGED <<now, mode>>, NEW a \in Alerts, Detect(a)
    PROVE  HInv'
<1>1. /\ UNCHANGED <<now, mode, rows, safe, recorded, due, counted, reported>>
      /\ stage[a] = "none"
      /\ stage' = [x \in Alerts |-> IF x \in {a} THEN "pending" ELSE stage[x]]
      /\ ts' = [ts EXCEPT ![a] = now]
  BY DEF Detect, Staged, digest
<1>2. /\ stage'[a] = "pending"
      /\ \A x \in Alerts : x # a => stage'[x] = stage[x] /\ ts'[x] = ts[x]
  BY <1>1 DEF HInv, HistoryTypes
<1>3. HistoryTypes'
  <2>1. stage' \in [Alerts -> {"none", "pending", "recorded", "lost"}]
    BY <1>1 DEF HInv, HistoryTypes
  <2>2. ts' \in [Alerts -> Nat]
    BY <1>1 DEF HInv, HistoryTypes
  <2> QED BY <1>1, <2>1, <2>2 DEF HInv, HistoryTypes
<1>4. ~Holding(a) /\ ~(counted[a] > 0)
  BY <1>1 DEF HInv, TableOK, CountOK
<1>5. TableOK'
  BY <1>1, <1>2, <1>4 DEF HInv, TableOK, Holding
<1>6. DueOK'
  BY <1>1 DEF HInv, DueOK, Digesting
<1>7. CountOK'
  <2> SUFFICES ASSUME NEW x \in Alerts
               PROVE  /\ counted[x] <= 1
                      /\ counted[x] > 0 => stage'[x] # "none" /\ NextDigest(ts'[x]) \in reported
                      /\ stage'[x] = "recorded" /\ NextDigest(ts'[x]) \in reported
                         /\ recorded[x] < NextDigest(ts'[x])
                         /\ NextDigest(ts'[x]) - ts'[x] <= Retention => counted[x] > 0
    BY <1>1 DEF CountOK, Kept
  <2>1. CASE x = a
    BY <1>2, <1>4, <2>1 DEF HInv, CountOK
  <2>2. CASE x # a
    BY <1>2, <2>2 DEF HInv, CountOK, Kept
  <2> QED BY <2>1, <2>2
<1> QED BY <1>3, <1>5, <1>6, <1>7 DEF HInv

(* The alerts of a batch are recorded now, and now all digests that were   *)
(* sent are past.                                                          *)
LEMMA AddAlertsHInv ==
    ASSUME HInv, UNCHANGED <<now, mode>>, NEW A \in SUBSET Alerts, AddAlerts(A)
    PROVE  HInv'
<1>1. UNCHANGED <<now, mode, ts, safe, due, counted, reported>>
  BY DEF AddAlerts, digest
<1>2. \A a \in A : stage[a] = "pending"
  BY DEF AddAlerts, Pending
<1>3. DueOK'
  BY <1>1 DEF HInv, DueOK, Digesting
<1>4. \A a \in Alerts : Holding(a) => a \notin A
  BY <1>2 DEF HInv, TableOK
<1>5. CASE /\ rows' = Append(rows, A) /\ stage' = Staged(A, "recorded")
           /\ recorded' = [a \in Alerts |-> IF a \in A THEN now ELSE recorded[a]]
  <2>1. /\ \A a \in Alerts : stage'[a] = IF a \in A THEN "recorded" ELSE stage[a]
        /\ \A a \in Alerts : recorded'[a] = IF a \in A THEN now ELSE recorded[a]
    BY <1>5 DEF Staged
  <2>2. PICK n \in Nat : n = Len(rows)
    BY DEF HInv, HistoryTypes
  <2>3. /\ rows' \in Seq(SUBSET Alerts) /\ Len(rows') = n + 1 /\ rows'[n + 1] = A
        /\ \A i \in 1..n : rows'[i] = rows[i]
    BY <1>5, <2>2 DEF HInv, HistoryTypes
  <2>4. HistoryTypes'
    <3>1. stage' \in [Alerts -> {"none", "pending", "recorded", "lost"}]
      BY <1>5 DEF Staged, HInv, HistoryTypes
    <3>2. recorded' \in [Alerts -> Nat]
      BY <1>5 DEF HInv, HistoryTypes
    <3> QED BY <1>1, <2>3, <3>1, <3>2 DEF HInv, HistoryTypes
  <2>5. \A a \in Alerts : Holding(a)' <=> Holding(a) \/ a \in A
    <3>1. \A i \in 1..n + 1 : i \in 1..n \/ i = n + 1
      OBVIOUS
    <3>2. n + 1 \in 1..n + 1 /\ \A i \in 1..n : i \in 1..n + 1
      OBVIOUS
    <3> QED BY <2>2, <2>3, <3>1, <3>2 DEF Holding
  <2>6. TableOK'
    BY <1>1, <2>1, <2>5 DEF HInv, TableOK
  <2>7. CountOK'
    <3> SUFFICES ASSUME NEW a \in Alerts
                 PROVE  /\ counted[a] <= 1
                        /\ counted[a] > 0 => stage'[a] # "none" /\ NextDigest(ts[a]) \in reported
                        /\ stage'[a] = "recorded" /\ NextDigest(ts[a]) \in reported
                           /\ recorded'[a] < NextDigest(ts[a]) /\ Kept(a) => counted[a] > 0
      BY <1>1 DEF CountOK, Kept
    <3>1. CASE a \notin A
      BY <2>1, <3>1 DEF HInv, CountOK
    <3>2. CASE a \in A
      <4>1. NextDigest(ts[a]) \in reported => ~(now < NextDigest(ts[a]))
        BY DEF HInv, HistoryTypes
      <4> QED BY <2>1, <3>2, <4>1 DEF HInv, CountOK
    <3> QED BY <3>1, <3>2
  <2> QED BY <1>3, <2>4, <2>6, <2>7 DEF HInv
<1>6. CASE stage' = Staged(A, "lost") /\ UNCHANGED <<rows, recorded>>
  <2>1. \A a \in Alerts : stage'[a] = IF a \in A THEN "lost" ELSE stage[a]
    BY <1>6 DEF Staged
  <2>2. HistoryTypes'
    <3>1. stage' \in [Alerts -> {"none", "pending", "recorded", "lost"}]
      BY <1>6 DEF Staged, HInv, HistoryTypes
    <3> QED BY <1>1, <1>6, <3>1 DEF HInv, HistoryTypes
  <2>3. TableOK'
    BY <1>1, <1>6, <2>1 DEF HInv, TableOK, Holding
  <2>4. CountOK'
    BY <1>1, <1>6, <2>1 DEF HInv, CountOK, Kept
  <2> QED BY <1>3, <2>2, <2>3, <2>4 DEF HInv
<1> QED BY <1>5, <1>6 DEF AddAlerts

LEMMA PruneHInv ==
    ASSUME HInv, UNCHANGED <<now, mode>>, PruneHistory
    PROVE  HInv'
<1>1. UNCHANGED <<now, mode, stage, ts, safe, recorded, due, counted, reported>>
  BY DEF PruneHistory, digest
<1>2. PICK n \in Nat : n = Len(rows)
  BY DEF HInv, HistoryTypes
<1>3. \A i \in 1..n : rows[i] \in SUBSET Alerts
  BY <1>2 DEF HInv, HistoryTypes
<1>4. rows' = [i \in 1..n |-> rows[i] \ Expired]
  BY <1>2 DEF PruneHistory
<1>5. /\ rows' \in Seq(SUBSET Alerts) /\ Len(rows') = n
      /\ \A i \in 1..n : rows'[i] = rows[i] \ Expired
  BY <1>3, <1>4
<1>6. HistoryTypes'
  BY <1>1, <1>5 DEF HInv, HistoryTypes
<1>7. \A a \in Alerts : /\ Holding(a)' => Holding(a)
                        /\ Holding(a) => Holding(a)' \/ ts[a] < now - Retention
  BY <1>2, <1>5 DEF Holding, Expired
<1>8. TableOK'
  BY <1>1, <1>7 DEF HInv, TableOK
<1>9. DueOK' /\ CountOK'
  BY <1>1 DEF HInv, DueOK, Digesting, CountOK, Kept
<1> QED BY <1>6, <1>8, <1>9 DEF HInv

(* A digest counts the alerts that have it next, and no others.            *)
LEMMA BuildHInv ==
    ASSUME PlainClock, HInv, UNCHANGED <<now, mode>>, Digesting, Build
    PROVE  HInv'
<1>1. UNCHANGED <<now, mode, stage, ts, rows, safe, recorded>>
  BY DEF Build, table
<1>2. /\ now \in Nat /\ due \in Int /\ due # -1 /\ now >= due /\ now <= due
      /\ \A d \in reported : d \in Int /\ d < due
  BY DEF Build, HInv, HistoryTypes, DueOK
<1>3. now = due
  BY <1>2
<1>4. TableOK'
  BY <1>1 DEF HInv, TableOK, Holding
<1>5. CASE report(PeriodStart(due), due) /\ due' = -1
  <2>4. PICK d \in Int : DigestDay(d) /\ due = Slot(d)
    BY <1>2 DEF HInv, DueOK, Build
  <2>p. PeriodStart(due) = Slot(d - Every)
    BY <2>4, SlotDay DEF PlainClock
  <2>1. /\ counted' = [a \in Alerts |->
                         counted[a] + IF a \in Query(Slot(d - Every), due) THEN 1 ELSE 0]
        /\ reported' = reported \cup {due}
    BY <1>5, <2>p DEF report
  <2>2. HistoryTypes'
    <3>1. counted' \in [Alerts -> Nat]
      BY <2>1 DEF HInv, HistoryTypes
    <3>2. \A x \in reported' : x \in Int /\ x <= now
      BY <1>2, <1>3, <2>1
    <3> QED BY <1>1, <1>5, <3>1, <3>2 DEF HInv, HistoryTypes
  <2>3. DueOK'
    BY <1>5 DEF DueOK
  <2>5. ASSUME NEW a \in Alerts
        PROVE  /\ a \in Query(Slot(d - Every), due) <=> Holding(a) /\ NextDigest(ts[a]) = due
               /\ NextDigest(ts[a]) \in Int
    <3>1. ts[a] \in Int
      BY DEF HInv, HistoryTypes
    <3>2. a \in UNION Range(rows) <=> Holding(a)
      <4>1. DOMAIN rows = 1..Len(rows)
        BY DEF HInv, HistoryTypes
      <4> QED BY <4>1 DEF Range, Holding
    <3>3. /\ Slot(d - Every) <= ts[a] /\ ts[a] < due <=> NextDigest(ts[a]) = due
          /\ NextDigest(ts[a]) \in Int
      BY <2>4, <3>1, OneDigest
    <3> QED BY <3>2, <3>3 DEF Query
  <2>6. CountOK'
    <3> SUFFICES ASSUME NEW a \in Alerts
                 PROVE  /\ counted'[a] <= 1
                        /\ counted'[a] > 0 => stage[a] # "none" /\ NextDigest(ts[a]) \in reported'
                        /\ stage[a] = "recorded" /\ NextDigest(ts[a]) \in reported'
                           /\ recorded[a] < NextDigest(ts[a]) /\ Kept(a) => counted'[a] > 0
      BY <1>1 DEF CountOK, Kept
    <3>1. /\ counted[a] \in Nat /\ counted[a] <= 1
          /\ counted'[a] = counted[a] + IF a \in Query(Slot(d - Every), due) THEN 1 ELSE 0
      BY <2>1 DEF HInv, HistoryTypes, CountOK
    <3>2. CASE NextDigest(ts[a]) # due
      <4>1. counted'[a] = counted[a] /\ (NextDigest(ts[a]) \in reported' <=> NextDigest(ts[a]) \in reported)
        BY <2>1, <2>5, <3>1, <3>2
      <4> QED BY <4>1 DEF HInv, CountOK
    <3>3. CASE NextDigest(ts[a]) = due
      <4>1. due \notin reported /\ due \in reported'
        BY <1>2, <2>1
      <4>2. counted[a] = 0
        BY <3>1, <3>3, <4>1 DEF HInv, CountOK
      <4>3. counted'[a] = IF Holding(a) THEN 1 ELSE 0
        BY <2>5, <3>1, <3>3, <4>2
      <4>4. Holding(a) => stage[a] # "none"
        BY DEF HInv, TableOK
      <4>5. stage[a] = "recorded" /\ Kept(a) => Holding(a)
        <5>1. ts[a] \in Nat
          BY DEF HInv, HistoryTypes
        <5>2. Kept(a) => ~(ts[a] < now - Retention)
          BY <1>2, <1>3, <3>3, <5>1, RetentionAssumption DEF Kept
        <5> QED BY <5>2 DEF HInv, TableOK
      <4> QED BY <3>3, <4>1, <4>3, <4>4, <4>5
    <3> QED BY <3>2, <3>3
  <2> QED BY <1>4, <2>2, <2>3, <2>6 DEF HInv
<1>6. CASE due' = NextDigest(now) /\ UNCHANGED <<counted, reported>>
  <2>1. due' \in Int /\ now < due'
    BY <1>2, <1>6, NextDue
  <2>2. HistoryTypes'
    BY <1>1, <1>6, <2>1 DEF HInv, HistoryTypes
  <2>3. DueOK'
    <3>1. \A d \in reported : d < due'
      BY <1>2, <1>3, <2>1
    <3> QED BY <1>1, <1>2, <1>6, <2>1, <3>1, NextDue DEF DueOK
  <2>4. CountOK'
    BY <1>1, <1>6 DEF HInv, CountOK, Kept
  <2> QED BY <1>4, <2>2, <2>3, <2>4 DEF HInv
<1> QED BY <1>5, <1>6 DEF Build

(* The next digest is later than all that were sent.                       *)
LEMMA ScheduleHInv ==
    ASSUME PlainClock, HInv, now' = now, due' = NextDigest(now),
           UNCHANGED <<stage, ts, rows, safe, recorded, counted, reported>>
    PROVE  HInv'
<1>1. now \in Nat /\ \A d \in reported : d \in Int /\ d <= now
  BY DEF HInv, HistoryTypes
<1>2. due' \in Int /\ now < due'
  BY <1>1, NextDue
<1>3. HistoryTypes'
  BY <1>2 DEF HInv, HistoryTypes
<1>4. DueOK'
  <2>1. \A d \in reported : d < due'
    BY <1>1, <1>2
  <2> QED BY <1>1, <1>2, <2>1, NextDue DEF DueOK
<1>5. TableOK' /\ CountOK'
  BY DEF HInv, TableOK, Holding, CountOK, Kept
<1> QED BY <1>3, <1>4, <1>5 DEF HInv

LEMMA CheckpointHInv ==
    ASSUME HInv, now' = now, Checkpoint, Digesting' => Digesting
    PROVE  HInv'
<1>1. UNCHANGED <<now, stage, ts, rows, recorded, due, counted, reported>>
  BY DEF Checkpoint, digest
<1>2. safe' \in Nat
  BY DEF Checkpoint, HInv, HistoryTypes
<1>3. HistoryTypes'
  BY <1>1, <1>2 DEF HInv, HistoryTypes
<1>4. TableOK' /\ DueOK' /\ CountOK'
  BY <1>1 DEF HInv, TableOK, Holding, DueOK, CountOK, Kept
<1> QED BY <1>3, <1>4 DEF HInv

(* What a process or the power takes with it was recorded in a transaction *)
(* that is gone, or not at all.                                            *)
LEMMA LoseHInv ==
    ASSUME HInv, now' = now, mode' = "down", NEW k, LoseHistory(k)
    PROVE  HInv'
<1>1. UNCHANGED <<now, ts, safe, recorded, due, counted, reported>>
  BY DEF LoseHistory, digest
<1>2. PICK n \in Nat : n = Len(rows)
  BY DEF HInv, HistoryTypes
<1>3. k \in 0..n
  BY <1>2 DEF LoseHistory, HInv, HistoryTypes
<1>4. PICK gone : gone = Pending \cup UNION {rows[i] : i \in k + 1..n}
  OBVIOUS
<1>5. rows' = SubSeq(rows, 1, k) /\ stage' = Staged(gone, "lost")
  BY <1>2, <1>4 DEF LoseHistory
<1>6. \A a \in Alerts : stage'[a] = IF a \in gone THEN "lost" ELSE stage[a]
  BY <1>5 DEF Staged
<1>7. /\ rows' \in Seq(SUBSET Alerts) /\ Len(rows') = k
      /\ \A i \in 1..k : rows'[i] = rows[i] /\ i \in 1..n
  BY <1>2, <1>3, <1>5 DEF HInv, HistoryTypes
<1>8. HistoryTypes'
  <2>1. stage' \in [Alerts -> {"none", "pending", "recorded", "lost"}]
    BY <1>5 DEF Staged, HInv, HistoryTypes
  <2> QED BY <1>1, <1>7, <2>1 DEF HInv, HistoryTypes
<1>9. ASSUME NEW a \in Alerts
      PROVE  (Holding(a)' => Holding(a)) /\ (Holding(a) => Holding(a)' \/ a \in gone)
  <2>1. \A i \in 1..n : i \in 1..k \/ i \in k + 1..n
    BY <1>3
  <2>2. \A i \in k + 1..n : a \in rows[i] => a \in gone
    BY <1>4
  <2> QED BY <1>2, <1>7, <2>1, <2>2 DEF Holding
<1>10. \A a \in gone : a \in Alerts => stage[a] # "none"
  <2>1. \A a \in Alerts : a \in gone => a \in Pending \/ Holding(a)
    <3>1. \A i \in k + 1..n : i \in 1..n
      BY <1>3
    <3> QED BY <1>2, <1>4, <3>1 DEF Holding
  <2> QED BY <2>1 DEF Pending, HInv, TableOK
<1>11. TableOK'
  BY <1>1, <1>6, <1>9 DEF HInv, TableOK
<1>12. DueOK'
  BY DEF DueOK, Digesting
<1>13. CountOK'
  BY <1>1, <1>6, <1>10 DEF HInv, CountOK, Kept
<1> QED BY <1>8, <1>11, <1>12, <1>13 DEF HInv

LEMMA TickHInv == ASSUME HInv, Tick PROVE HInv'
<1>1. /\ UNCHANGED <<mode, stage, ts, rows, safe, recorded, due, counted, reported>>
      /\ now' = now + 1
  BY DEF Tick, history, table, digest
<1>2. now \in Nat /\ due \in Int
  BY DEF HInv, HistoryTypes
<1>3. HistoryTypes'
  BY <1>1 DEF HInv, HistoryTypes
<1>4. TableOK'
  <2>1. \A a \in Alerts : ts[a] \in Nat
    BY DEF HInv, HistoryTypes
  <2>2. \A a \in Alerts : ts[a] < now - Retention => ts[a] < now' - Retention
    BY <1>1, <1>2, <2>1, RetentionAssumption
  <2> QED BY <1>1, <2>2 DEF HInv, TableOK, Holding
<1>5. DueOK'
  BY <1>1, <1>2 DEF HInv, DueOK, Digesting, Tick
<1>6. CountOK'
  BY <1>1 DEF HInv, CountOK, Kept
<1> QED BY <1>3, <1>4, <1>5, <1>6 DEF HInv

LEMMA HistoryHInv == ASSUME PlainClock, HInv, HistoryStep PROVE HInv'
<1>1. UNCHANGED <<now, mode>>
  BY DEF HistoryStep
<1>2. ASSUME SendDigest PROVE HInv'
  BY <1>1, <1>2, ScheduleHInv DEF SendDigest, table
<1>3. ASSUME Checkpoint PROVE HInv'
  BY <1>1, <1>3, CheckpointHInv DEF Digesting
<1> QED BY <1>1, <1>2, <1>3, DetectHInv, AddAlertsHInv, PruneHInv, BuildHInv DEF HistoryStep

LEMMA ProcessHInv == ASSUME PlainClock, HInv, Start \/ Exit \/ Crash \/ PowerLoss PROVE HInv'
<1>1. CASE Start
  BY <1>1, ScheduleHInv DEF Start, StartHistory, table
<1>2. CASE Exit
  BY <1>2, CheckpointHInv DEF Exit, Digesting
<1>3. CASE Crash
  BY <1>3, LoseHInv DEF Crash
<1>4. CASE PowerLoss
  BY <1>4, LoseHInv DEF PowerLoss
<1> QED BY <1>1, <1>2, <1>3, <1>4

LEMMA NextHInv == ASSUME PlainClock, HInv, [Step]_storageVars PROVE HInv'
<1>1. ASSUME \/ \E m \in Matchers, d \in Durations : AddSilence(m, d)
             \/ \E id \in SilenceIds : RemoveSilence(id)
             \/ SaveState \/ SaveSteps \/ Restore \/ RestoreFails \/ Stop
             \/ UNCHANGED storageVars
      PROVE  HInv'
  <2>1. UNCHANGED <<now, history>>
    BY <1>1 DEF AddSilence, RemoveSilence, SaveState, SaveSteps, Restore, RestoreFails,
                Stop, storageVars
  <2>2. Digesting' => Digesting
    BY <1>1 DEF AddSilence, RemoveSilence, SaveState, SaveSteps, Restore, RestoreFails,
                Stop, storageVars, Digesting
  <2> QED BY <2>1, <2>2, QuietHInv
<1> QED BY <1>1, HistoryHInv, ProcessHInv, TickHInv DEF Step

(* Whatever day, time, zone and retention are set, as long as the clock    *)
(* change does not skip that time or turn back to the day before, and      *)
(* whenever the process or the power goes: no alert is counted in two      *)
(* digests, and what was recorded in its period, and is kept to the end of *)
(* it, is in the digest of that period (Schedule.Next, Schedule.Period and *)
(* Run of internal/digest/schedule.go).                                    *)
THEOREM AlertsCountedOnce == StorageSpec => []CountedOnce
<1> DEFINE DInv == PlainClock => HInv
<1>1. StorageInit => DInv
  BY InitHInv
<1>2. DInv /\ [Step]_storageVars => DInv'
  BY NextHInv
<1>3. DInv => CountedOnce
  <2> SUFFICES ASSUME DInv, PlainClock, NEW a \in Alerts
               PROVE  /\ counted[a] <= 1
                      /\ stage[a] = "recorded" /\ NextDigest(ts[a]) \in reported
                         /\ recorded[a] < NextDigest(ts[a]) /\ Kept(a) => counted[a] = 1
    BY DEF CountedOnce, Kept
  <2>1. counted[a] \in Nat
    BY DEF HInv, HistoryTypes
  <2> QED BY <2>1 DEF HInv, CountOK
<1> QED BY <1>1, <1>2, <1>3, PTL DEF StorageSpec
=============================================================================
