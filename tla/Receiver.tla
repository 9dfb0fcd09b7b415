------------------------------ MODULE Receiver ------------------------------
(***************************************************************************)
(* HTTPAction (internal/action/http.go): a receiver's bounded queue, the   *)
(* worker that POSTs from it with retries, and Close, which drains it      *)
(* until a deadline.  Notifications are numbered in the order they enter   *)
(* the queue; a body is <<notification, place in it>>.                     *)
(***************************************************************************)
EXTENDS Integers, Sequences, FiniteSets

CONSTANTS
    Senders,        \* goroutines that call Send: the engine, the digest
    QueueSize,      \* httpQueueSize
    Attempts,       \* httpAttempts
    MaxBodies,      \* bodies a notification renders to
    MaxOffered      \* bound: calls of Send

ASSUME ReceiverAssumption ==
    /\ QueueSize \in Nat \ {0} /\ Attempts \in Nat \ {0}
    /\ MaxBodies \in Nat /\ MaxOffered \in Nat

VARIABLES
    sending,    \* sending[s]: "idle", or "locked": in Send with the read lock
    gate,       \* "open" or "closed": a.closed, and the queue with it
    queue,      \* a.queue
    accepted,   \* notifications that entered the queue
    offered, refused,   \* calls of Send; those that found it closed
    worker,     \* "idle", "post", "wait" (backoff), "done" (a.done is closed)
    bodies,     \* bodies of the current notification left, the current first
    attempt,
    ctx,        \* "live", or "cancelled" by a Close that gave up
    closing,    \* "no", "waiting", "gave up", "returned"
    sent, failed, dropped,   \* the counters
    rendered,   \* bodies rendered, and notifications that could not be
    inbox,      \* what the endpoint got, in order (external)
    good        \* bodies counted as sent (history)

callers == <<sending, gate, offered, refused>>
work    == <<worker, bodies, attempt>>
arrivals == <<rendered, inbox, good>>
vars    == <<callers, queue, accepted, work, ctx, closing, sent, failed,
             dropped, arrivals>>

-----------------------------------------------------------------------------
(* Send: the read lock is held from the look at a.closed to the send on    *)
(* the queue.                                                              *)
SendLock(s) ==
    /\ sending[s] = "idle" /\ offered < MaxOffered
    /\ offered' = offered + 1
    /\ IF gate = "closed"
       THEN refused' = refused + 1 /\ UNCHANGED sending
       ELSE sending' = [sending EXCEPT ![s] = "locked"] /\ UNCHANGED refused
    /\ UNCHANGED <<gate, queue, accepted, work, ctx, closing, sent, failed,
                   dropped, arrivals>>

SendQueue(s) ==
    /\ sending[s] = "locked"
    /\ sending' = [sending EXCEPT ![s] = "idle"]
    /\ IF Len(queue) < QueueSize
       THEN /\ accepted' = accepted + 1
            /\ queue' = Append(queue, accepted + 1)
            /\ UNCHANGED dropped
       ELSE dropped' = dropped + 1 /\ UNCHANGED <<queue, accepted>>
    /\ UNCHANGED <<gate, offered, refused, work, ctx, closing, sent, failed,
                   arrivals>>

-----------------------------------------------------------------------------
(* worker: the next notification, rendered; rendering can fail.            *)
Take ==
    /\ worker = "idle" /\ queue # <<>>
    /\ queue' = Tail(queue)
    /\ \/ /\ failed' = failed + 1 /\ rendered' = rendered + 1
          /\ UNCHANGED work
       \/ \E b \in 0..MaxBodies :
            /\ bodies' = [i \in 1..b |-> <<Head(queue), i>>]
            /\ rendered' = rendered + b
            /\ worker' = IF b = 0 THEN "idle" ELSE "post"
            /\ attempt' = 1
            /\ UNCHANGED failed
    /\ UNCHANGED <<callers, accepted, ctx, closing, sent, dropped, inbox, good>>

(* The queue is closed and empty: the worker returns.                      *)
Finish ==
    /\ worker = "idle" /\ queue = <<>> /\ gate = "closed"
    /\ worker' = "done"
    /\ UNCHANGED <<callers, queue, accepted, bodies, attempt, ctx, closing,
                   sent, failed, dropped, arrivals>>

NextBody ==
    /\ bodies' = Tail(bodies)
    /\ worker' = IF Len(bodies) = 1 THEN "idle" ELSE "post"
    /\ attempt' = 1

(* post: the endpoint answers 2xx.                                         *)
PostOK ==
    /\ worker = "post" /\ ctx = "live"
    /\ inbox' = Append(inbox, Head(bodies))
    /\ good' = good \cup {Head(bodies)}
    /\ sent' = sent + 1
    /\ NextBody
    /\ UNCHANGED <<callers, queue, accepted, ctx, closing, failed, dropped,
                   rendered>>

(* post fails: a bad request or a 4xx is final; a network error, a timeout *)
(* (the endpoint may have got the request all the same), a 5xx, a 429 and  *)
(* a cancelled context are worth a retry.                                  *)
PostFail(retry) ==
    /\ worker = "post"
    /\ \/ UNCHANGED inbox
       \/ ctx = "live" /\ retry /\ inbox' = Append(inbox, Head(bodies))
    /\ IF retry /\ attempt < Attempts
       THEN worker' = "wait" /\ UNCHANGED <<bodies, attempt, failed>>
       ELSE NextBody /\ failed' = failed + 1
    /\ UNCHANGED <<callers, queue, accepted, ctx, closing, sent, dropped,
                   rendered, good>>

(* The backoff: it ends, or the context is cancelled first.  (When both    *)
(* have happened, select takes either.)                                    *)
Retry ==
    /\ worker = "wait"
    /\ worker' = "post" /\ attempt' = attempt + 1
    /\ UNCHANGED <<callers, queue, accepted, bodies, ctx, closing, sent,
                   failed, dropped, arrivals>>

(* Mutant: a cancelled delivery is dropped without a trace.                *)
GiveUpQuiet ==
    /\ worker = "wait" /\ ctx = "cancelled"
    /\ NextBody
    /\ UNCHANGED <<callers, queue, accepted, ctx, closing, sent, failed,
                   dropped, arrivals>>

GiveUp ==
    /\ worker = "wait" /\ ctx = "cancelled"
    /\ NextBody /\ failed' = failed + 1
    /\ UNCHANGED <<callers, queue, accepted, ctx, closing, sent, dropped,
                   arrivals>>

-----------------------------------------------------------------------------
(* Mutants: Close does not take the lock; Close does not close the queue.  *)
CloseUnlocked ==
    /\ closing = "no"
    /\ gate' = "closed" /\ closing' = "waiting"
    /\ UNCHANGED <<sending, offered, refused, queue, accepted, work, ctx, sent,
                   failed, dropped, arrivals>>

CloseNoQueue ==
    /\ closing = "no"
    /\ \A s \in Senders : sending[s] = "idle"
    /\ closing' = "waiting"
    /\ UNCHANGED <<callers, queue, accepted, work, ctx, sent, failed, dropped,
                   arrivals>>

(* Close: the write lock waits for every Send that holds the read lock.    *)
Close ==
    /\ closing = "no"
    /\ \A s \in Senders : sending[s] = "idle"
    /\ gate' = "closed" /\ closing' = "waiting"
    /\ UNCHANGED <<sending, offered, refused, queue, accepted, work, ctx, sent,
                   failed, dropped, arrivals>>

(* The deadline passes before the worker is done.                          *)
CloseTimeout ==
    /\ closing = "waiting"
    /\ closing' = "gave up" /\ ctx' = "cancelled"
    /\ UNCHANGED <<callers, queue, accepted, work, sent, failed, dropped,
                   arrivals>>

CloseReturn ==
    /\ closing \in {"waiting", "gave up"} /\ worker = "done"
    /\ closing' = "returned"
    /\ UNCHANGED <<callers, queue, accepted, work, ctx, sent, failed, dropped,
                   arrivals>>

Init ==
    /\ sending = [s \in Senders |-> "idle"]
    /\ gate = "open" /\ queue = <<>> /\ accepted = 0
    /\ offered = 0 /\ refused = 0
    /\ worker = "idle" /\ bodies = <<>> /\ attempt = 1
    /\ ctx = "live" /\ closing = "no"
    /\ sent = 0 /\ failed = 0 /\ dropped = 0
    /\ rendered = 0 /\ inbox = <<>> /\ good = {}

Worker == Take \/ Finish \/ PostOK \/ (\E r \in BOOLEAN : PostFail(r))
          \/ Retry \/ GiveUp

Next == \/ \E s \in Senders : SendLock(s) \/ SendQueue(s)
        \/ Worker \/ Close \/ CloseTimeout \/ CloseReturn

Spec == Init /\ [][Next]_vars

(* The worker runs: every POST ends (the client has a timeout), and so     *)
(* does every backoff.  Close returns when it can.                         *)
FairSpec == Spec /\ WF_vars(Worker) /\ WF_vars(CloseReturn)
                 /\ \A s \in Senders : WF_vars(SendQueue(s))

-----------------------------------------------------------------------------
Body == (Nat \ {0}) \X (1..MaxBodies)

(* Types, and the queue never holds more than httpQueueSize.               *)
TypeOK ==
    /\ sending \in [Senders -> {"idle", "locked"}]
    /\ gate \in {"open", "closed"}
    /\ queue \in Seq(Nat \ {0}) /\ Len(queue) <= QueueSize
    /\ accepted \in Nat /\ offered \in Nat /\ refused \in Nat
    /\ worker \in {"idle", "post", "wait", "done"}
    /\ bodies \in Seq(Body) /\ attempt \in 1..Attempts
    /\ ctx \in {"live", "cancelled"}
    /\ closing \in {"no", "waiting", "gave up", "returned"}
    /\ sent \in Nat /\ failed \in Nat /\ dropped \in Nat /\ rendered \in Nat
    /\ inbox \in Seq(Body) /\ good \in SUBSET Body

(* Nobody sends on a closed channel, which would panic: while a Send is    *)
(* between its look at a.closed and the queue, the queue stays open.       *)
NoSendOnClosed == \A s \in Senders : sending[s] = "locked" => gate = "open"

(* The counters add up: every call of Send was accepted, dropped, refused  *)
(* or is under way, and every body that was rendered is counted as sent or *)
(* as failed once, or is still to come.                                    *)
Inside == {s \in Senders : sending[s] = "locked"}

Balanced ==
    /\ offered = accepted + dropped + refused + Cardinality(Inside)
    /\ rendered = sent + failed + Len(bodies)

(* What is counted as sent was received; a body is POSTed again only       *)
(* before the next one, and no more than httpAttempts times.               *)
Precedes(a, b) == a[1] < b[1] \/ (a[1] = b[1] /\ a[2] <= b[2])

Arrivals ==
    /\ \A b \in good : \E i \in 1..Len(inbox) : inbox[i] = b
    /\ \A i, j \in 1..Len(inbox) : i < j => Precedes(inbox[i], inbox[j])
    /\ \A i \in 1..Len(inbox) :
         Cardinality({j \in 1..Len(inbox) : inbox[j] = inbox[i]}) <= Attempts

(* When Close has returned, in time or not, nothing is left in the queue   *)
(* or in flight: no alert goes out from a receiver that is gone.           *)
Drained == closing = "returned" => queue = <<>> /\ bodies = <<>>

(* The counters tell the truth: nothing is missing from them, what they    *)
(* call sent was received, and no retry comes too often or too late.       *)
Accounted == Balanced /\ Arrivals

(* Close returns, whatever the endpoint does.                              *)
CloseReturns == closing = "waiting" ~> closing = "returned"

(* Closing is clean: no Send meets a closed queue while Close is under     *)
(* way, and nothing is left to go out once it has returned.                *)
CleanClose == TypeOK /\ NoSendOnClosed /\ Drained
=============================================================================
