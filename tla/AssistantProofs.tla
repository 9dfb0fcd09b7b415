--------------------------- MODULE AssistantProofs ---------------------------
(***************************************************************************)
(* Assistant, proved for any number of callers, messages and crashes: the  *)
(* bot takes messages up in their order and passes none over (EachInTurn), *)
(* and what the LLM may cost in an hour is bounded (SpendBounded), though  *)
(* nobody is turned down early (RefusedOnlySpent).                         *)
(*                                                                         *)
(* What makes the first true is where the three positions stand: the       *)
(* offset, what Telegram has forgotten and the first message of a batch    *)
(* all have only messages before them that were taken up (BehindOK), and   *)
(* from the offset on this process has taken up none (DoneOK).  For the    *)
(* other two the calls that count are all runs of this process, pruned at  *)
(* some moment that is an hour past (Pruned).                              *)
(***************************************************************************)
EXTENDS Assistant, TLAPS, FiniteSetTheorems

Ids == 1..MaxMessages
Note == [kind : Kinds, at : Nat]

MailOK ==
    /\ now \in Nat /\ crashes \in Nat
    /\ messages \in Seq(Note) /\ Len(messages) <= MaxMessages
    /\ confirmed \in 0..Len(messages)
    /\ handled \in [Ids -> Nat]

BotOK ==
    /\ bot = [pc |-> bot.pc, offset |-> bot.offset, batch |-> bot.batch]
    /\ bot.offset \in 0..Len(messages) + 1
    /\ bot.batch \in Seq(Nat)

(* A batch has the messages from its first one on.                         *)
BatchOK ==
    \A i \in 1..Len(bot.batch) :
      /\ bot.batch[i] = bot.batch[1] + i - 1
      /\ bot.batch[i] \in 1..Len(messages) /\ bot.batch[i] >= bot.offset

BehindOK ==
    \A k \in Ids :
      \/ k < bot.offset
      \/ k <= confirmed
      \/ bot.batch # <<>> /\ k < bot.batch[1]
      => handled[k] > 0

DoneOK ==
    /\ \A m, k \in Ids : k <= m /\ handled[m] > 0 => handled[k] > 0
    /\ \A m \in Ids : handled[m] <= 1 + crashes
    /\ \A m \in Ids : m >= bot.offset => handled[m] <= crashes

IInv == MailOK /\ BotOK /\ BatchOK /\ BehindOK /\ DoneOK

LEMMA MaxOfTwo ==
    ASSUME NEW a \in Int, NEW b \in Int
    PROVE  Max({a, b}) = IF a >= b THEN a ELSE b
<1>1. PICK x \in {a, b} : \A y \in {a, b} : x >= y
  OBVIOUS
<1>2. Max({a, b}) \in {a, b} /\ \A y \in {a, b} : Max({a, b}) >= y
  BY <1>1 DEF Max
<1> QED BY <1>2

LEMMA InitIInv == ASSUME Init PROVE IInv
<1>1. MailOK
  BY AssistantAssumption DEF Init, MailOK, Ids
<1>2. bot.offset = 0 /\ bot.batch = <<>> /\ BotOK
  BY DEF Init, NewBot, BotOK
<1>3. \A k \in Ids : handled[k] = 0 /\ k \in Nat /\ k > 0
  BY AssistantAssumption DEF Init, Ids
<1>4. BatchOK
  BY <1>2 DEF BatchOK
<1>5. BehindOK
  BY <1>2, <1>3 DEF Init, BehindOK
<1>6. DoneOK
  <2>1. crashes = 0 /\ \A k \in Ids : handled[k] <= crashes /\ ~(handled[k] > 0)
    <3>1. crashes = 0
      BY DEF Init
    <3>2. \A k \in Ids : handled[k] = 0
      BY <1>3
    <3> QED BY <3>1, <3>2
  <2>2. \A k \in Ids : handled[k] <= 1 + crashes
    BY <1>3, <2>1
  <2> QED BY <2>1, <2>2 DEF DoneOK
<1> QED BY <1>1, <1>2, <1>4, <1>5, <1>6 DEF IInv

(* Nothing moves: runs of the LLM, replies, the clock.                     *)
LEMMA QuietIInv ==
    ASSUME IInv, now' \in Nat, UNCHANGED <<crashes, telegram, handled>>,
           bot' = [bot EXCEPT !.pc = bot'.pc]
    PROVE  IInv'
<1>1. UNCHANGED <<messages, confirmed>>
  BY DEF telegram
<1>2. /\ bot' = [pc |-> bot'.pc, offset |-> bot'.offset, batch |-> bot'.batch]
      /\ bot'.offset = bot.offset /\ bot'.batch = bot.batch
  BY DEF IInv, BotOK
<1>3. MailOK' /\ BotOK'
  BY <1>1, <1>2 DEF IInv, MailOK, BotOK
<1>4. BatchOK' /\ BehindOK' /\ DoneOK'
  BY <1>1, <1>2 DEF IInv, BatchOK, BehindOK, DoneOK
<1> QED BY <1>3, <1>4 DEF IInv

LEMMA PostIInv == ASSUME IInv, Post PROVE IInv'
<1>1. UNCHANGED <<now, crashes, confirmed, bot, handled>>
  BY DEF Post
<1>2. Len(messages) \in Nat
  BY DEF IInv, MailOK
<1>3. /\ messages' \in Seq(Note) /\ Len(messages') = Len(messages) + 1
      /\ Len(messages') <= MaxMessages
  <2>1. PICK k \in Kinds : messages' = Append(messages, [kind |-> k, at |-> now])
    BY DEF Post
  <2>2. [kind |-> k, at |-> now] \in Note
    BY DEF Note, IInv, MailOK
  <2>3. Len(messages) < MaxMessages
    BY DEF Post
  <2> QED BY <1>2, <2>1, <2>2, <2>3, AssistantAssumption DEF IInv, MailOK
<1>4. MailOK'
  BY <1>1, <1>2, <1>3 DEF IInv, MailOK
<1>5. BotOK'
  BY <1>1, <1>2, <1>3 DEF IInv, BotOK
<1>6. BatchOK'
  BY <1>1, <1>2, <1>3 DEF IInv, BatchOK
<1>7. BehindOK' /\ DoneOK'
  BY <1>1 DEF IInv, BehindOK, DoneOK
<1> QED BY <1>4, <1>5, <1>6, <1>7 DEF IInv

(* Asking for messages from the offset on confirms the ones before it,     *)
(* all of which were taken up.                                             *)
LEMMA ConfirmedOK ==
    ASSUME IInv
    PROVE  /\ Confirmed \in 0..Len(messages) /\ Confirmed + 1 >= bot.offset
           /\ \A k \in Ids : k <= Confirmed => handled[k] > 0
<1>1. /\ bot.offset \in Nat /\ bot.offset <= Len(messages) + 1
      /\ confirmed \in Nat /\ confirmed <= Len(messages) /\ Len(messages) \in Nat
  BY DEF IInv, MailOK, BotOK
<1>2. Confirmed = IF bot.offset - 1 >= confirmed THEN bot.offset - 1 ELSE confirmed
  BY <1>1, MaxOfTwo DEF Confirmed
<1>3. Confirmed \in 0..Len(messages) /\ Confirmed + 1 >= bot.offset
  BY <1>1, <1>2
<1>4. ASSUME NEW k \in Ids, k <= Confirmed PROVE handled[k] > 0
  <2>1. k \in Nat
    BY DEF Ids
  <2>2. k < bot.offset \/ k <= confirmed
    BY <1>1, <1>2, <1>4, <2>1
  <2> QED BY <2>2 DEF IInv, BehindOK
<1> QED BY <1>3, <1>4

LEMMA FetchIInv == ASSUME IInv, getUpdates PROVE IInv'
<1> DEFINE n == Len(messages) - Confirmed
           first == Confirmed + 1
<1>1. UNCHANGED <<now, crashes, messages, handled>> /\ confirmed' = Confirmed
  BY DEF getUpdates
<1>2. /\ Confirmed \in 0..Len(messages) /\ first >= bot.offset
      /\ \A k \in Ids : k <= Confirmed => handled[k] > 0
  BY ConfirmedOK
<1>3. n \in Nat \ {0} /\ Len(messages) \in Nat /\ Confirmed \in Nat
  <2>1. Len(messages) \in Nat
    BY DEF IInv, MailOK
  <2> QED BY <1>2, <2>1 DEF getUpdates
<1>4. /\ bot' = [pc |-> bot'.pc, offset |-> bot'.offset, batch |-> bot'.batch]
      /\ bot'.offset = bot.offset
      /\ bot'.batch = [i \in 1..n |-> Confirmed + i]
  BY DEF getUpdates, IInv, BotOK
<1>5. /\ bot'.batch \in Seq(Nat) /\ Len(bot'.batch) = n
      /\ \A i \in 1..n : bot'.batch[i] = Confirmed + i
      /\ bot'.batch[1] = first
  BY <1>3, <1>4
<1> HIDE DEF n, first
<1>6. MailOK'
  BY <1>1, <1>2 DEF IInv, MailOK
<1>7. BotOK'
  BY <1>1, <1>4, <1>5 DEF IInv, BotOK
<1>8. BatchOK'
  <2>1. bot.offset \in Nat
    BY DEF IInv, BotOK
  <2>2. \A i \in 1..n : /\ Confirmed + i = first + i - 1
                        /\ Confirmed + i \in 1..Len(messages)
                        /\ Confirmed + i >= bot.offset
    BY <1>2, <1>3, <2>1 DEF n, first
  <2> QED BY <1>1, <1>4, <1>5, <2>2 DEF BatchOK
<1>9. BehindOK'
  <2>1. \A k \in Ids : k < first => k <= Confirmed
    BY <1>3 DEF first, Ids
  <2>2. \A k \in Ids : k < bot.offset => handled[k] > 0
    BY DEF IInv, BehindOK
  <2> QED BY <1>1, <1>2, <1>4, <1>5, <2>1, <2>2 DEF BehindOK
<1>10. DoneOK'
  BY <1>1, <1>4 DEF IInv, DoneOK
<1> QED BY <1>6, <1>7, <1>8, <1>9, <1>10 DEF IInv

LEMMA FetchFailsIInv == ASSUME IInv, getUpdatesFails PROVE IInv'
<1>1. UNCHANGED <<now, crashes, messages, bot, handled>> /\ confirmed' = Confirmed
  BY DEF getUpdatesFails
<1>2. /\ Confirmed \in 0..Len(messages)
      /\ \A k \in Ids : k <= Confirmed => handled[k] > 0
  BY ConfirmedOK
<1>3. MailOK' /\ BotOK'
  BY <1>1, <1>2 DEF IInv, MailOK, BotOK
<1>4. BatchOK' /\ DoneOK'
  BY <1>1 DEF IInv, BatchOK, DoneOK
<1>5. BehindOK'
  BY <1>1, <1>2 DEF IInv, BehindOK
<1> QED BY <1>3, <1>4, <1>5 DEF IInv

(* The first message of the batch is taken up, and the offset moves past   *)
(* it.                                                                     *)
LEMMA TakeUpIInv ==
    ASSUME IInv, NEW pc, TakeUp(pc), bot.batch # <<>>,
           UNCHANGED <<now, crashes, telegram>>
    PROVE  IInv'
<1> DEFINE id == Head(bot.batch)
<1>1. UNCHANGED <<messages, confirmed>>
  BY DEF telegram
<1>2. /\ id = bot.batch[1] /\ 1 \in 1..Len(bot.batch)
      /\ Tail(bot.batch) \in Seq(Nat)
      /\ \A i \in 1..Len(Tail(bot.batch)) :
           /\ Tail(bot.batch)[i] = bot.batch[i + 1]
           /\ i \in Nat /\ i + 1 \in 1..Len(bot.batch) /\ i + 1 > 1
  <2>1. bot.batch \in Seq(Nat)
    BY DEF IInv, BotOK
  <2> QED BY <2>1
<1>3. id \in 1..Len(messages) /\ id >= bot.offset
  BY <1>2 DEF IInv, BatchOK
<1>4. id \in Nat \ {0} /\ bot.offset \in Nat /\ id \in Ids
  <2>1. Len(messages) \in Nat /\ Len(messages) <= MaxMessages /\ MaxMessages \in Nat
    BY AssistantAssumption DEF IInv, MailOK
  <2> QED BY <1>3, <2>1 DEF IInv, BotOK, Ids
<1>5. NextOffset(id) = id + 1
  <2>1. bot.offset \in Int /\ id + 1 \in Int
    BY <1>4
  <2>2. Max({bot.offset, id + 1})
          = IF bot.offset >= id + 1 THEN bot.offset ELSE id + 1
    BY <2>1, MaxOfTwo
  <2>3. ~(bot.offset >= id + 1) \/ bot.offset = id + 1
    BY <1>3, <1>4
  <2> QED BY <2>2, <2>3 DEF NextOffset
<1>6. /\ bot' = [pc |-> bot'.pc, offset |-> bot'.offset, batch |-> bot'.batch]
      /\ bot'.offset = id + 1 /\ bot'.batch = Tail(bot.batch)
  BY <1>5 DEF TakeUp
<1>7. handled' = [handled EXCEPT ![id] = @ + 1]
  BY DEF TakeUp
<1> HIDE DEF id
<1>8. /\ handled' \in [Ids -> Nat] /\ handled'[id] = handled[id] + 1
      /\ \A k \in Ids : k # id => handled'[k] = handled[k]
      /\ \A k \in Ids : handled[k] \in Nat /\ handled'[k] >= handled[k] /\ k \in Nat
  BY <1>4, <1>7 DEF IInv, MailOK, Ids
<1>9. handled'[id] > 0 /\ \A k \in Ids : handled[k] > 0 => handled'[k] > 0
  BY <1>4, <1>8
<1>10. \A k \in Ids : k <= id => handled'[k] > 0
  <2> SUFFICES ASSUME NEW k \in Ids, k < id PROVE handled'[k] > 0
    BY <1>4, <1>8, <1>9
  <2> QED BY <1>2, <1>9 DEF IInv, BehindOK
<1>11. MailOK'
  BY <1>1, <1>8 DEF IInv, MailOK
<1>12. BotOK'
  <2>1. id + 1 \in 0..Len(messages) + 1
    BY <1>3, <1>4
  <2> QED BY <1>1, <1>2, <1>6, <2>1 DEF BotOK
<1>13. BatchOK'
  <2> SUFFICES ASSUME NEW i \in 1..Len(Tail(bot.batch))
               PROVE  /\ Tail(bot.batch)[i] = Tail(bot.batch)[1] + i - 1
                      /\ Tail(bot.batch)[i] \in 1..Len(messages)
                      /\ Tail(bot.batch)[i] >= id + 1
    BY <1>1, <1>6 DEF BatchOK
  <2>1. 1 \in 1..Len(Tail(bot.batch)) /\ i \in Nat /\ i >= 1
    BY <1>2
  <2>2. \A j \in 1..Len(bot.batch) :
          bot.batch[j] = id + j - 1 /\ bot.batch[j] \in 1..Len(messages)
    BY <1>2 DEF IInv, BatchOK
  <2>3. /\ bot.batch[i + 1] = id + (i + 1) - 1
        /\ bot.batch[i + 1] \in 1..Len(messages)
    BY <1>2, <2>2
  <2>4. bot.batch[1 + 1] = id + (1 + 1) - 1
    BY <1>2, <2>1, <2>2
  <2>5. /\ Tail(bot.batch)[i] = id + i /\ Tail(bot.batch)[1] = id + 1
        /\ Tail(bot.batch)[i] \in 1..Len(messages)
    <3>1. /\ Tail(bot.batch)[i] = bot.batch[i + 1]
          /\ Tail(bot.batch)[1] = bot.batch[1 + 1]
      BY <1>2, <2>1
    <3>2. id + (i + 1) - 1 = id + i /\ id + (1 + 1) - 1 = id + 1
      BY <1>4, <2>1
    <3> QED BY <2>3, <2>4, <3>1, <3>2
  <2> QED BY <1>4, <2>1, <2>5
<1>14. BehindOK'
  <2>1. bot'.batch # <<>> => bot'.batch[1] = id + 1
    <3> SUFFICES ASSUME Tail(bot.batch) # <<>> PROVE Tail(bot.batch)[1] = id + 1
      BY <1>6
    <3>1. 1 \in 1..Len(Tail(bot.batch))
      BY <1>2
    <3>2. Tail(bot.batch)[1] = bot.batch[1 + 1] /\ 1 + 1 \in 1..Len(bot.batch)
      BY <1>2, <3>1
    <3> QED BY <1>2, <1>4, <3>2 DEF IInv, BatchOK
  <2>2. \A k \in Ids : k < id + 1 => k <= id
    BY <1>4, <1>8
  <2>3. \A k \in Ids : k <= confirmed => handled'[k] > 0
    BY <1>9 DEF IInv, BehindOK
  <2> QED BY <1>1, <1>6, <1>10, <2>1, <2>2, <2>3 DEF BehindOK
<1>15. DoneOK'
  <2>1. crashes \in Nat /\ crashes' = crashes
    BY DEF IInv, MailOK
  <2>2. ASSUME NEW m \in Ids, NEW k \in Ids, k <= m, handled'[m] > 0
        PROVE  handled'[k] > 0
    <3>1. CASE m = id
      BY <1>10, <2>2, <3>1
    <3>2. CASE m # id
      BY <1>8, <1>9, <2>2, <3>2 DEF IInv, DoneOK
    <3> QED BY <3>1, <3>2
  <2>3. handled[id] <= crashes
    BY <1>3, <1>4 DEF IInv, DoneOK
  <2>4. ASSUME NEW m \in Ids PROVE handled'[m] <= 1 + crashes
    <3>1. CASE m = id
      BY <1>4, <1>8, <2>1, <2>3, <3>1
    <3>2. CASE m # id
      BY <1>8, <3>2 DEF IInv, DoneOK
    <3> QED BY <3>1, <3>2
  <2>5. ASSUME NEW m \in Ids, m >= id + 1 PROVE handled'[m] <= crashes
    <3>1. m # id /\ m >= bot.offset
      BY <1>3, <1>4, <1>8, <2>5
    <3> QED BY <1>8, <3>1 DEF IInv, DoneOK
  <2> QED BY <1>6, <2>1, <2>2, <2>4, <2>5 DEF DoneOK
<1> QED BY <1>11, <1>12, <1>13, <1>14, <1>15 DEF IInv

LEMMA HandleIInv == ASSUME IInv, handle PROVE IInv'
BY TakeUpIInv DEF handle

(* The new process starts without an offset; what one process has taken up *)
(* once, the next may take up once more.                                   *)
LEMMA CrashIInv == ASSUME IInv, Crash PROVE IInv'
<1>1. /\ UNCHANGED <<now, messages, confirmed, handled>>
      /\ crashes' = crashes + 1
  BY DEF Crash, telegram
<1>2. /\ bot' = [pc |-> bot'.pc, offset |-> bot'.offset, batch |-> bot'.batch]
      /\ bot'.offset = 0 /\ bot'.batch = <<>>
  BY DEF Crash, NewBot
<1>3. MailOK'
  BY <1>1 DEF IInv, MailOK
<1>4. BotOK'
  <2>1. Len(messages) \in Nat
    BY DEF IInv, MailOK
  <2> QED BY <1>1, <1>2, <2>1 DEF BotOK
<1>5. BatchOK'
  BY <1>2 DEF BatchOK
<1>6. BehindOK'
  BY <1>1, <1>2 DEF IInv, BehindOK, Ids
<1>7. DoneOK'
  <2>1. \A m \in Ids : handled[m] \in Nat /\ handled[m] <= 1 + crashes
    BY DEF IInv, MailOK, DoneOK
  <2>2. crashes \in Nat
    BY DEF IInv, MailOK
  <2>3. \A m \in Ids : handled[m] <= crashes + 1 /\ handled[m] <= 1 + (crashes + 1)
    BY <2>1, <2>2
  <2> QED BY <1>1, <2>3 DEF IInv, DoneOK
<1> QED BY <1>3, <1>4, <1>5, <1>6, <1>7 DEF IInv

LEMMA OtherIInv ==
    ASSUME IInv,
           \/ Tick \/ Start \/ Answer \/ Send \/ BatchDone \/ UNCHANGED vars
           \/ \E c \in Callers : Ask(c) \/ Converse(c)
    PROVE  IInv'
<1>1. now \in Nat /\ now' \in Nat
  BY DEF IInv, MailOK, Tick, Start, Answer, Send, BatchDone, Ask, Converse,
         Finish, ToolUse, CallTools, vars
<1>2. UNCHANGED <<crashes, telegram, handled>>
  BY DEF Tick, Start, Answer, Send, BatchDone, Ask, Converse, Finish, ToolUse,
         CallTools, vars
<1>3. bot' = [bot EXCEPT !.pc = bot'.pc]
  BY DEF IInv, BotOK, Tick, Start, Answer, Send, BatchDone, Ask, Converse,
         Finish, ToolUse, CallTools, vars
<1> QED BY <1>1, <1>2, <1>3, QuietIInv

LEMMA NextIInv == ASSUME IInv, [Next]_vars PROVE IInv'
BY PostIInv, FetchIInv, FetchFailsIInv, HandleIInv, CrashIInv, OtherIInv
   DEF Next, Bot

LEMMA IInvImplies == ASSUME IInv PROVE EachInTurn
<1>1. ASSUME NEW m \in Ids, NEW k \in 1..m PROVE k \in Ids /\ k <= m
  BY AssistantAssumption DEF Ids
<1> QED BY <1>1 DEF IInv, DoneOK, EachInTurn, Ids

(* However many messages wait, responses are lost and crashes happen: the  *)
(* bot takes messages up in order, passes none over, and takes one up      *)
(* again only in another process (poll and handle of                       *)
(* internal/chatops/telegram.go).                                          *)
THEOREM MessagesInTurn == Spec => []EachInTurn
<1>1. Init => IInv
  BY InitIInv
<1>2. IInv /\ [Next]_vars => IInv'
  BY NextIInv
<1>3. IInv => EachInTurn
  BY IInvImplies
<1> QED BY <1>1, <1>2, <1>3, PTL DEF Spec

-----------------------------------------------------------------------------
(* Induction, for a set of numbers: by the pigeonhole principle.           *)
LEMMA SetInduction ==
    ASSUME NEW T, 0 \in T, \A n \in Nat : n \in T => n + 1 \in T
    PROVE  Nat \subseteq T
<1> SUFFICES ASSUME NEW n \in Nat, n \notin T PROVE FALSE
  OBVIOUS
<1>1. PICK S : S = {x \in 0..n : x \notin T}
  OBVIOUS
<1>2. PICK R : R = S \ {n}
  OBVIOUS
<1>3. IsFiniteSet(0..n)
  BY FS_Interval
<1>4. S \in SUBSET (0..n) /\ R \in SUBSET S /\ n \in S /\ R # S
  BY <1>1, <1>2
<1>5. IsFiniteSet(S)
  BY <1>3, <1>4, FS_Subset
<1>6. IsFiniteSet(R) /\ Cardinality(R) <= Cardinality(S) /\ Cardinality(R) # Cardinality(S)
  BY <1>4, <1>5, FS_Subset
<1>7. Cardinality(S) \in Nat /\ Cardinality(R) \in Nat
  BY <1>5, <1>6, FS_CardinalityType
<1>8. Cardinality(R) < Cardinality(S)
  BY <1>6, <1>7
<1>9. \A x \in S : x - 1 \in R
  <2> SUFFICES ASSUME NEW x \in S PROVE x - 1 \in R
    OBVIOUS
  <2>1. x \in 0..n /\ x \notin T /\ x # 0
    BY <1>1
  <2>2. x - 1 \in Nat /\ x - 1 \in 0..n /\ (x - 1) + 1 = x /\ x - 1 # n
    BY <2>1
  <2>3. x - 1 \notin T
    BY <2>1, <2>2
  <2> QED BY <1>1, <1>2, <2>2, <2>3
<1>10. PICK f : f = [x \in S |-> x - 1]
  OBVIOUS
<1>11. f \in [S -> R]
  BY <1>9, <1>10
<1>12. \E x, y \in S : x # y /\ f[x] = f[y]
  BY <1>5, <1>6, <1>8, <1>11, FS_PigeonHole
<1>13. \A x, y \in S : x - 1 = y - 1 => x = y
  BY <1>1
<1> QED BY <1>10, <1>12, <1>13

(* What prune keeps.                                                       *)
Keeps(k, s, cutoff, n) ==
    k = [i \in 0..n |->
            IF i = 0 THEN <<>>
            ELSE IF s[i] > cutoff THEN Append(k[i - 1], s[i]) ELSE k[i - 1]]

LEMMA KeptExists ==
    ASSUME NEW s, NEW cutoff, NEW n \in Nat
    PROVE  \E k : Keeps(k, s, cutoff, n)
<1>1. PICK T : T = {m \in Nat : \E k : Keeps(k, s, cutoff, m)}
  OBVIOUS
<1>2. 0 \in T
  <2>1. PICK k : k = [i \in 0..0 |-> <<>>]
    OBVIOUS
  <2>2. \A i \in 0..0 : i = 0
    OBVIOUS
  <2>3. Keeps(k, s, cutoff, 0)
    BY <2>1, <2>2 DEF Keeps
  <2> QED BY <1>1, <2>3
<1>3. ASSUME NEW m \in Nat, m \in T PROVE m + 1 \in T
  <2>1. PICK k : Keeps(k, s, cutoff, m)
    BY <1>1, <1>3
  <2>2. PICK last : last = IF s[m + 1] > cutoff THEN Append(k[m], s[m + 1]) ELSE k[m]
    OBVIOUS
  <2>3. PICK kk : kk = [i \in 0..m + 1 |-> IF i = m + 1 THEN last ELSE k[i]]
    OBVIOUS
  <2>4. \A i \in 0..m : i \in 0..m + 1 /\ i # m + 1 /\ kk[i] = k[i]
    BY <2>3
  <2>5. kk[m + 1] = last
    BY <2>3
  <2>6. ASSUME NEW i \in 0..m + 1
        PROVE  kk[i] = IF i = 0 THEN <<>>
                       ELSE IF s[i] > cutoff THEN Append(kk[i - 1], s[i]) ELSE kk[i - 1]
    <3>1. CASE i = m + 1
      <4>1. i # 0 /\ i - 1 = m /\ m \in 0..m
        BY <3>1
      <4> QED BY <2>2, <2>4, <2>5, <3>1, <4>1
    <3>2. CASE i = 0
      BY <2>1, <2>4, <3>2 DEF Keeps
    <3>3. CASE i # m + 1 /\ i # 0
      <4>1. i \in 0..m /\ i - 1 \in 0..m
        BY <3>3
      <4>2. k[i] = IF s[i] > cutoff THEN Append(k[i - 1], s[i]) ELSE k[i - 1]
        BY <2>1, <3>3, <4>1 DEF Keeps
      <4> QED BY <2>4, <3>3, <4>1, <4>2
    <3> QED BY <3>1, <3>2, <3>3
  <2>7. Keeps(kk, s, cutoff, m + 1)
    <3>1. kk = [i \in 0..m + 1 |-> kk[i]]
      BY <2>3
    <3> QED BY <2>6, <3>1 DEF Keeps
  <2> QED BY <1>1, <2>7
<1>4. Nat \subseteq T
  BY <1>2, <1>3, SetInduction
<1> QED BY <1>1, <1>4

LEMMA WithinIs ==
    ASSUME NEW s, NEW cutoff, Len(s) \in Nat
    PROVE  \E k : Keeps(k, s, cutoff, Len(s)) /\ Within(s, cutoff) = k[Len(s)]
<1>1. PICK k : k = CHOOSE f : Keeps(f, s, cutoff, Len(s))
  OBVIOUS
<1>2. Keeps(k, s, cutoff, Len(s))
  <2>1. \E f : Keeps(f, s, cutoff, Len(s))
    BY KeptExists
  <2> QED BY <1>1, <2>1
<1>3. Within(s, cutoff) = k[Len(s)]
  BY <1>1 DEF Within, Keeps
<1> QED BY <1>2, <1>3

Grows(k, s, cutoff, n) ==
    /\ k[0] = <<>>
    /\ \A i \in 0..n - 1 :
         k[i + 1] = IF s[i + 1] > cutoff THEN Append(k[i], s[i + 1]) ELSE k[i]

LEMMA KeptStep ==
    ASSUME NEW s, NEW cutoff, NEW n \in Nat, NEW k, Keeps(k, s, cutoff, n)
    PROVE  Grows(k, s, cutoff, n)
<1>1. k[0] = <<>>
  <2>1. 0 \in 0..n
    OBVIOUS
  <2> QED BY <2>1 DEF Keeps
<1>2. ASSUME NEW i \in 0..n - 1
      PROVE  k[i + 1] = IF s[i + 1] > cutoff THEN Append(k[i], s[i + 1]) ELSE k[i]
  <2>1. i + 1 \in 0..n /\ i + 1 # 0 /\ (i + 1) - 1 = i
    OBVIOUS
  <2>2. PICK j \in 0..n : j = i + 1
    BY <2>1
  <2>3. k[j] = IF s[j] > cutoff THEN Append(k[j - 1], s[j]) ELSE k[j - 1]
    BY <2>1, <2>2 DEF Keeps
  <2> QED BY <2>1, <2>2, <2>3
<1> QED BY <1>1, <1>2 DEF Grows

LEMMA WithinEmpty == \A cutoff : Within(<<>>, cutoff) = <<>>
<1> SUFFICES ASSUME NEW cutoff PROVE Within(<<>>, cutoff) = <<>>
  OBVIOUS
<1>1. PICK s : s = <<>>
  OBVIOUS
<1>2. Len(s) = 0
  BY <1>1
<1>3. PICK k : Keeps(k, s, cutoff, 0) /\ Within(s, cutoff) = k[0]
  BY <1>2, WithinIs
<1>4. Grows(k, s, cutoff, 0)
  BY <1>3, KeptStep
<1> QED BY <1>1, <1>3, <1>4 DEF Grows

(* What pruning keeps of a longer history.                                 *)
LEMMA WithinAppend ==
    ASSUME NEW S, NEW s \in Seq(S), NEW x \in S, NEW cutoff
    PROVE  Within(Append(s, x), cutoff) =
              IF x > cutoff THEN Append(Within(s, cutoff), x) ELSE Within(s, cutoff)
<1>1. PICK n \in Nat : n = Len(s)
  OBVIOUS
<1>2. PICK l : l = Append(s, x)
  OBVIOUS
<1>3. Len(l) = n + 1 /\ l[n + 1] = x /\ \A i \in 1..n : l[i] = s[i]
  BY <1>1, <1>2
<1>4. PICK k : Keeps(k, s, cutoff, n) /\ Within(s, cutoff) = k[n]
  BY <1>1, WithinIs
<1>5. PICK kk : Keeps(kk, l, cutoff, n + 1) /\ Within(l, cutoff) = kk[n + 1]
  BY <1>3, WithinIs
<1>6. Grows(k, s, cutoff, n)
  BY <1>4, KeptStep
<1>7. PICK nn \in Nat : nn = n + 1 /\ nn - 1 = n
  OBVIOUS
<1>8. Grows(kk, l, cutoff, nn)
  BY <1>5, <1>7, KeptStep
<1>9. PICK T : T = {m \in Nat : m <= n => kk[m] = k[m]}
  OBVIOUS
<1>10. 0 \in T
  <2>1. k[0] = <<>> /\ kk[0] = <<>>
    BY <1>6, <1>8 DEF Grows
  <2> QED BY <1>9, <2>1
<1>11. ASSUME NEW m \in Nat, m \in T PROVE m + 1 \in T
  <2> SUFFICES ASSUME m + 1 <= n PROVE kk[m + 1] = k[m + 1]
    BY <1>9
  <2>1. m \in 0..n - 1 /\ m \in 0..nn - 1 /\ m + 1 \in 1..n /\ m <= n
    BY <1>7
  <2>2. kk[m] = k[m] /\ l[m + 1] = s[m + 1]
    BY <1>3, <1>9, <1>11, <2>1
  <2>3. k[m + 1] = IF s[m + 1] > cutoff THEN Append(k[m], s[m + 1]) ELSE k[m]
    BY <1>6, <2>1 DEF Grows
  <2>4. kk[m + 1] = IF l[m + 1] > cutoff THEN Append(kk[m], l[m + 1]) ELSE kk[m]
    BY <1>8, <2>1 DEF Grows
  <2> QED BY <2>2, <2>3, <2>4
<1>12. Nat \subseteq T
  BY <1>10, <1>11, SetInduction
<1>13. kk[n] = k[n]
  BY <1>9, <1>12
<1>14. kk[n + 1] = IF l[n + 1] > cutoff THEN Append(kk[n], l[n + 1]) ELSE kk[n]
  <2>1. n \in 0..nn - 1
    BY <1>7
  <2> QED BY <1>8, <2>1 DEF Grows
<1> QED BY <1>2, <1>3, <1>4, <1>5, <1>13, <1>14

LEMMA WithinType ==
    ASSUME NEW S, NEW s \in Seq(S), NEW cutoff
    PROVE  Within(s, cutoff) \in Seq(S)
<1>1. PICK n \in Nat : n = Len(s)
  OBVIOUS
<1>2. PICK k : Keeps(k, s, cutoff, n) /\ Within(s, cutoff) = k[n]
  BY <1>1, WithinIs
<1>3. Grows(k, s, cutoff, n)
  BY <1>2, KeptStep
<1>4. PICK T : T = {m \in Nat : m <= n => k[m] \in Seq(S)}
  OBVIOUS
<1>5. 0 \in T
  <2>1. <<>> \in Seq(S)
    OBVIOUS
  <2> QED BY <1>3, <1>4, <2>1 DEF Grows
<1>6. ASSUME NEW m \in Nat, m \in T PROVE m + 1 \in T
  <2> SUFFICES ASSUME m + 1 <= n PROVE k[m + 1] \in Seq(S)
    BY <1>4
  <2>1. m \in 0..n - 1 /\ m + 1 \in 1..n /\ m <= n
    OBVIOUS
  <2>2. k[m] \in Seq(S) /\ s[m + 1] \in S
    BY <1>1, <1>4, <1>6, <2>1
  <2>3. Append(k[m], s[m + 1]) \in Seq(S)
    BY <2>2
  <2> QED BY <1>3, <2>1, <2>2, <2>3 DEF Grows
<1>7. Nat \subseteq T
  BY <1>5, <1>6, SetInduction
<1> QED BY <1>2, <1>4, <1>7

(* Pruned twice is pruned once.                                            *)
LEMMA WithinTwice ==
    ASSUME NEW S \in SUBSET Int, NEW s \in Seq(S), NEW a \in Int, NEW b \in Int, a <= b
    PROVE  Within(Within(s, a), b) = Within(s, b)
<1>1. PICK n \in Nat : n = Len(s)
  OBVIOUS
<1>2. PICK k : Keeps(k, s, a, n) /\ Within(s, a) = k[n]
  BY <1>1, WithinIs
<1>3. PICK kk : Keeps(kk, s, b, n) /\ Within(s, b) = kk[n]
  BY <1>1, WithinIs
<1>4. Grows(k, s, a, n)
  BY <1>2, KeptStep
<1>5. Grows(kk, s, b, n)
  BY <1>3, KeptStep
<1>6. PICK T : T = {m \in Nat : m <= n => k[m] \in Seq(S) /\ Within(k[m], b) = kk[m]}
  OBVIOUS
<1>7. 0 \in T
  <2>1. k[0] = <<>> /\ kk[0] = <<>>
    BY <1>4, <1>5 DEF Grows
  <2>2. <<>> \in Seq(S) /\ Within(<<>>, b) = <<>>
    BY WithinEmpty
  <2> QED BY <1>6, <2>1, <2>2
<1>8. ASSUME NEW m \in Nat, m \in T PROVE m + 1 \in T
  <2> SUFFICES ASSUME m + 1 <= n
               PROVE  k[m + 1] \in Seq(S) /\ Within(k[m + 1], b) = kk[m + 1]
    BY <1>6
  <2>1. m \in 0..n - 1 /\ m + 1 \in 1..n /\ m <= n
    OBVIOUS
  <2>2. k[m] \in Seq(S) /\ Within(k[m], b) = kk[m] /\ s[m + 1] \in S
    BY <1>1, <1>6, <1>8, <2>1
  <2>3. PICK x \in S : x = s[m + 1]
    BY <2>2
  <2>4. /\ k[m + 1] = IF x > a THEN Append(k[m], x) ELSE k[m]
        /\ kk[m + 1] = IF x > b THEN Append(kk[m], x) ELSE kk[m]
    BY <1>4, <1>5, <2>1, <2>3 DEF Grows
  <2>5. Within(Append(k[m], x), b) = IF x > b THEN Append(kk[m], x) ELSE kk[m]
    BY <2>2, WithinAppend
  <2>6. Append(k[m], x) \in Seq(S)
    BY <2>2
  <2>7. x > b => x > a
    OBVIOUS
  <2> QED BY <2>2, <2>4, <2>5, <2>6, <2>7
<1>9. Nat \subseteq T
  BY <1>7, <1>8, SetInduction
<1> QED BY <1>2, <1>3, <1>6, <1>9

(* As many are kept as are young enough.                                   *)
LEMMA WithinCount ==
    ASSUME NEW S \in SUBSET Int, NEW s \in Seq(S), NEW cutoff \in Int
    PROVE  /\ IsFiniteSet({i \in 1..Len(s) : s[i] > cutoff})
           /\ Len(Within(s, cutoff)) = Cardinality({i \in 1..Len(s) : s[i] > cutoff})
<1>1. PICK n \in Nat : n = Len(s)
  OBVIOUS
<1>2. PICK k : Keeps(k, s, cutoff, n) /\ Within(s, cutoff) = k[n]
  BY <1>1, WithinIs
<1>3. Grows(k, s, cutoff, n)
  BY <1>2, KeptStep
<1>4. PICK T : T = {m \in Nat : m <= n =>
                      /\ k[m] \in Seq(S)
                      /\ IsFiniteSet({i \in 1..m : s[i] > cutoff})
                      /\ Len(k[m]) = Cardinality({i \in 1..m : s[i] > cutoff})}
  OBVIOUS
<1>5. 0 \in T
  <2>1. {i \in 1..0 : s[i] > cutoff} = {}
    OBVIOUS
  <2>2. k[0] = <<>> /\ <<>> \in Seq(S) /\ Len(<<>>) = 0
    BY <1>3 DEF Grows
  <2>3. IsFiniteSet({}) /\ Cardinality({}) = 0
    BY FS_EmptySet
  <2> QED BY <1>4, <2>1, <2>2, <2>3
<1>6. ASSUME NEW m \in Nat, m \in T PROVE m + 1 \in T
  <2> SUFFICES ASSUME m + 1 <= n
               PROVE  /\ k[m + 1] \in Seq(S)
                      /\ IsFiniteSet({i \in 1..m + 1 : s[i] > cutoff})
                      /\ Len(k[m + 1]) = Cardinality({i \in 1..m + 1 : s[i] > cutoff})
    BY <1>4
  <2>1. m \in 0..n - 1 /\ m + 1 \in 1..n /\ m <= n
    OBVIOUS
  <2>2. PICK A : A = {i \in 1..m : s[i] > cutoff}
    OBVIOUS
  <2>3. k[m] \in Seq(S) /\ IsFiniteSet(A) /\ Len(k[m]) = Cardinality(A) /\ s[m + 1] \in S
    BY <1>1, <1>4, <1>6, <2>1, <2>2
  <2>4. k[m + 1] = IF s[m + 1] > cutoff THEN Append(k[m], s[m + 1]) ELSE k[m]
    BY <1>3, <2>1 DEF Grows
  <2>5. CASE s[m + 1] > cutoff
    <3>1. {i \in 1..m + 1 : s[i] > cutoff} = A \cup {m + 1} /\ m + 1 \notin A
      BY <2>2, <2>5
    <3>2. /\ IsFiniteSet(A \cup {m + 1})
          /\ Cardinality(A \cup {m + 1}) = Cardinality(A) + 1
      BY <2>3, <3>1, FS_AddElement
    <3>3. /\ Append(k[m], s[m + 1]) \in Seq(S)
          /\ Len(Append(k[m], s[m + 1])) = Len(k[m]) + 1
      BY <2>3
    <3> QED BY <2>3, <2>4, <2>5, <3>1, <3>2, <3>3
  <2>6. CASE ~(s[m + 1] > cutoff)
    <3>1. {i \in 1..m + 1 : s[i] > cutoff} = A
      BY <2>2, <2>6
    <3> QED BY <2>3, <2>4, <2>6, <3>1
  <2> QED BY <2>5, <2>6
<1>7. Nat \subseteq T
  BY <1>5, <1>6, SetInduction
<1> QED BY <1>1, <1>2, <1>4, <1>7

LEMMA Elements ==
    ASSUME NEW S, NEW s \in Seq(S)
    PROVE  \A i \in 1..Len(s) : s[i] \in S
OBVIOUS

LEMMA SeqSubset ==
    ASSUME NEW S, NEW T, S \subseteq T, NEW s \in Seq(S)
    PROVE  s \in Seq(T)
<1>1. /\ Len(s) \in Nat /\ s = [i \in 1..Len(s) |-> s[i]]
      /\ \A i \in 1..Len(s) : s[i] \in S
  OBVIOUS
<1>2. \A i \in 1..Len(s) : s[i] \in T
  BY <1>1
<1> QED BY <1>1, <1>2

-----------------------------------------------------------------------------
(* The budget.                                                             *)

(* The calls that count are the runs of this process, pruned some time ago. *)
Pruned == \E cutoff \in Int : cutoff <= now - Hour /\ calls = Within(started, cutoff)

SpendOK ==
    /\ now \in Nat /\ now <= MaxTime
    /\ started \in Seq(0..now)
    /\ Pruned
    /\ Len(calls) <= MaxPerHour
    /\ BudgetKept

LEMMA SpendTypes ==
    ASSUME SpendOK
    PROVE  /\ 0..now \in SUBSET Int /\ now - Hour \in Int /\ now - Hour < now
           /\ now \in 0..now /\ MaxPerHour \in Nat /\ Len(started) \in Nat
BY AssistantAssumption DEF SpendOK

LEMMA KeptIs ==
    ASSUME SpendOK
    PROVE  /\ Kept = Within(started, now - Hour) /\ Kept \in Seq(0..now)
           /\ Len(Kept) = StartedIn(now - Hour, now) /\ Len(Kept) <= MaxPerHour
<1>1. PICK cutoff \in Int : cutoff <= now - Hour /\ calls = Within(started, cutoff)
  BY DEF SpendOK, Pruned
<1>2. started \in Seq(0..now)
  BY DEF SpendOK
<1>3. Kept = Within(started, now - Hour)
  BY <1>1, <1>2, SpendTypes, WithinTwice DEF Kept
<1>4. Kept \in Seq(0..now)
  BY <1>2, <1>3, WithinType
<1>5. Len(Kept) = Cardinality({i \in 1..Len(started) : started[i] > now - Hour})
  BY <1>2, <1>3, SpendTypes, WithinCount
<1>6. {i \in 1..Len(started) : started[i] > now - Hour}
        = {i \in 1..Len(started) : now - Hour < started[i] /\ started[i] <= now}
  <2>1. \A i \in 1..Len(started) : started[i] \in 0..now
    BY <1>2, Elements
  <2>2. \A i \in 1..Len(started) : started[i] > now - Hour <=>
          (now - Hour < started[i] /\ started[i] <= now)
    BY <2>1, SpendTypes
  <2> QED BY <2>2
<1>7. Len(Kept) = StartedIn(now - Hour, now)
  BY <1>5, <1>6 DEF StartedIn
<1>8. StartedIn(now - Hour, now) <= MaxPerHour
  BY DEF SpendOK, BudgetKept
<1> QED BY <1>3, <1>4, <1>7, <1>8

LEMMA BeginSpend ==
    ASSUME SpendOK, NEW c, Begin(c), now' = now
    PROVE  SpendOK'
<1>1. /\ calls' = Append(Kept, now) /\ started' = Append(started, now)
      /\ ~(Len(Kept) >= MaxPerHour)
  BY DEF Begin, Spent
<1>2. PICK s : s = Append(started, now)
  OBVIOUS
<1>3. PICK n \in Nat : n = Len(started)
  BY SpendTypes
<1>4. /\ s \in Seq(0..now) /\ Len(s) = n + 1 /\ s[n + 1] = now
      /\ \A i \in 1..n : s[i] = started[i]
  BY <1>2, <1>3, SpendTypes DEF SpendOK
<1>5. Within(s, now - Hour) = Append(Kept, now)
  <2>1. started \in Seq(0..now)
    BY DEF SpendOK
  <2>2. now > now - Hour
    BY SpendTypes
  <2> QED BY <1>2, <2>1, <2>2, KeptIs, SpendTypes, WithinAppend
<1>6. Pruned'
  <2>1. calls' = Within(started', now' - Hour) /\ now' - Hour \in Int
    BY <1>1, <1>2, <1>5, SpendTypes
  <2> QED BY <2>1 DEF Pruned
<1>7. Len(calls') = Len(Kept) + 1 /\ Len(calls') <= MaxPerHour
  BY <1>1, KeptIs, SpendTypes
<1>8. ASSUME NEW t \in 0..now
      PROVE  Cardinality({i \in 1..Len(s) : t - Hour < s[i] /\ s[i] <= t}) <= MaxPerHour
  <2>1. CASE t = now
    <3>1. {i \in 1..Len(s) : t - Hour < s[i] /\ s[i] <= t}
            = {i \in 1..Len(s) : s[i] > now - Hour}
      <4>1. \A i \in 1..Len(s) : s[i] \in 0..now
        BY <1>4, Elements
      <4>2. \A i \in 1..Len(s) : s[i] > now - Hour <=> (t - Hour < s[i] /\ s[i] <= t)
        BY <2>1, <4>1, SpendTypes
      <4> QED BY <4>2
    <3>2. Len(Within(s, now - Hour)) = Cardinality({i \in 1..Len(s) : s[i] > now - Hour})
      BY <1>4, SpendTypes, WithinCount
    <3> QED BY <1>1, <1>5, <1>7, <3>1, <3>2
  <2>2. CASE t # now
    <3>1. t \in Int /\ t < now
      <4>1. now \in Int
        BY DEF SpendOK
      <4> QED BY <2>2, <4>1
    <3>2. {i \in 1..Len(s) : t - Hour < s[i] /\ s[i] <= t}
            = {i \in 1..Len(started) : t - Hour < started[i] /\ started[i] <= t}
      <4>1. \A i \in 1..n + 1 : i \in 1..n \/ i = n + 1
        OBVIOUS
      <4>2. ~(s[n + 1] <= t)
        BY <1>4, <3>1, SpendTypes
      <4>3. \A i \in 1..n : i \in 1..n + 1
        OBVIOUS
      <4> QED BY <1>3, <1>4, <4>1, <4>2, <4>3
    <3>3. StartedIn(t - Hour, t) <= MaxPerHour
      BY DEF SpendOK, BudgetKept
    <3> QED BY <3>2, <3>3 DEF StartedIn
  <2> QED BY <2>1, <2>2
<1>9. BudgetKept'
  BY <1>1, <1>2, <1>8 DEF BudgetKept, StartedIn
<1> QED BY <1>1, <1>2, <1>4, <1>6, <1>7, <1>9 DEF SpendOK

LEMMA RefuseSpend ==
    ASSUME SpendOK, Refuse, now' = now
    PROVE  SpendOK'
<1>1. calls' = Kept /\ started' = started
  BY DEF Refuse
<1>2. Pruned'
  <2>1. calls' = Within(started', now' - Hour) /\ now' - Hour \in Int
    BY <1>1, KeptIs, SpendTypes
  <2> QED BY <2>1 DEF Pruned
<1>3. BudgetKept'
  BY <1>1 DEF SpendOK, BudgetKept, StartedIn
<1> QED BY <1>1, <1>2, <1>3, KeptIs DEF SpendOK

(* An hour that ends later has lost runs, if any, and gained none.         *)
LEMMA TickSpend == ASSUME SpendOK, Tick PROVE SpendOK'
<1>1. calls' = calls /\ started' = started /\ now' = now + 1 /\ now < MaxTime
  BY DEF Tick
<1>2. now \in Nat /\ MaxTime \in Nat /\ Hour \in Nat /\ started \in Seq(0..now)
  BY AssistantAssumption DEF SpendOK
<1>3. now' \in Nat /\ now' <= MaxTime
  BY <1>1, <1>2
<1>4. started' \in Seq(0..now')
  <2>1. 0..now \subseteq 0..now + 1
    BY <1>2
  <2> QED BY <1>1, <1>2, <2>1, SeqSubset
<1>5. Pruned'
  <2>1. PICK cutoff \in Int : cutoff <= now - Hour /\ calls = Within(started, cutoff)
    BY DEF SpendOK, Pruned
  <2>2. cutoff <= now' - Hour
    BY <1>1, <1>2, <2>1
  <2> QED BY <1>1, <2>1, <2>2 DEF Pruned
<1>6. ASSUME NEW t \in 0..now + 1 PROVE StartedIn(t - Hour, t) <= MaxPerHour
  <2>1. CASE t # now + 1
    <3>1. t \in 0..now
      BY <1>2, <2>1
    <3> QED BY <3>1 DEF SpendOK, BudgetKept
  <2>2. CASE t = now + 1
    <3>1. PICK A : A = {i \in 1..Len(started) : now - Hour < started[i] /\ started[i] <= now}
      OBVIOUS
    <3>2. PICK B : B = {i \in 1..Len(started) : t - Hour < started[i] /\ started[i] <= t}
      OBVIOUS
    <3>3. \A i \in 1..Len(started) : started[i] \in 0..now
      BY <1>2, Elements
    <3>4. B \subseteq A
      <4>1. \A i \in 1..Len(started) : t - Hour < started[i] =>
              (now - Hour < started[i] /\ started[i] <= now)
        BY <1>2, <2>2, <3>3
      <4> QED BY <3>1, <3>2, <4>1
    <3>5. IsFiniteSet(A)
      <4>1. IsFiniteSet(1..Len(started))
        BY SpendTypes, FS_Interval
      <4>2. A \subseteq 1..Len(started)
        BY <3>1
      <4> QED BY <4>1, <4>2, FS_Subset
    <3>6. IsFiniteSet(B) /\ Cardinality(B) <= Cardinality(A)
      BY <3>4, <3>5, FS_Subset
    <3>7. Cardinality(A) \in Nat /\ Cardinality(B) \in Nat
      BY <3>5, <3>6, FS_CardinalityType
    <3>8. Cardinality(A) <= MaxPerHour
      BY <3>1, SpendTypes DEF SpendOK, BudgetKept, StartedIn
    <3>9. Cardinality(B) <= MaxPerHour
      BY <3>6, <3>7, <3>8, SpendTypes
    <3> QED BY <3>2, <3>9 DEF StartedIn
  <2> QED BY <2>1, <2>2
<1>7. BudgetKept'
  BY <1>1, <1>6 DEF BudgetKept, StartedIn
<1>8. Len(calls') <= MaxPerHour
  BY <1>1 DEF SpendOK
<1> QED BY <1>3, <1>4, <1>5, <1>7, <1>8 DEF SpendOK

(* A new process has made no calls.                                        *)
LEMMA NoRuns ==
    ASSUME NEW s, s = <<>>, NEW n \in Nat
    PROVE  /\ s \in Seq(0..n) /\ Len(s) <= MaxPerHour
           /\ \E cutoff \in Int : cutoff <= n - Hour /\ s = Within(s, cutoff)
           /\ \A t : Cardinality({i \in 1..Len(s) : t - Hour < s[i] /\ s[i] <= t}) <= MaxPerHour
<1>1. s \in Seq(0..n) /\ Len(s) = 0
  OBVIOUS
<1>2. MaxPerHour \in Nat /\ n - Hour \in Int
  BY AssistantAssumption
<1>3. s = Within(s, n - Hour) /\ n - Hour <= n - Hour
  BY <1>2, WithinEmpty
<1>4. \A t : {i \in 1..Len(s) : t - Hour < s[i] /\ s[i] <= t} = {}
  BY <1>1
<1>5. Cardinality({}) = 0
  BY FS_EmptySet
<1> QED BY <1>1, <1>2, <1>3, <1>4, <1>5

LEMMA InitSpend == ASSUME Init PROVE SpendOK
<1>1. now = 0 /\ 0 \in Nat /\ 0 <= MaxTime /\ calls = started /\ started = <<>>
  BY AssistantAssumption DEF Init
<1>2. Pruned
  BY <1>1, NoRuns DEF Pruned
<1> QED BY <1>1, <1>2, NoRuns DEF SpendOK, BudgetKept, StartedIn

LEMMA CrashSpend == ASSUME SpendOK, Crash PROVE SpendOK'
<1>1. now' = now /\ calls' = started' /\ started' = <<>>
  BY DEF Crash
<1>2. now \in Nat /\ now <= MaxTime
  BY DEF SpendOK
<1>3. Pruned'
  BY <1>1, <1>2, NoRuns DEF Pruned
<1> QED BY <1>1, <1>2, <1>3, NoRuns DEF SpendOK, BudgetKept, StartedIn

LEMMA QuietSpend ==
    ASSUME SpendOK, UNCHANGED <<now, calls, started>>
    PROVE  SpendOK'
<1>1. now' = now /\ calls' = calls /\ started' = started
  OBVIOUS
<1> QED BY <1>1 DEF SpendOK, Pruned, BudgetKept, StartedIn

-----------------------------------------------------------------------------
(* The conversations.                                                      *)

(* Tools were asked for once a round, and for the round at hand.           *)
TalkOf(t, n, c) ==
    /\ t \in [pc : {"idle", "asking", "tools"}, round : Nat, last : BOOLEAN] /\ n \in Nat
    /\ t.pc = "idle" => n = 0
    /\ t.pc = "asking" => /\ n = t.round /\ n <= MaxSteps
                          /\ n > 0 => c \in WithTools
                          /\ t.last <=> (n = MaxSteps /\ n > 0)
    /\ t.pc = "tools" => /\ n = t.round + 1 /\ n <= MaxSteps
                         /\ c \in WithTools

TalkOK ==
    /\ talk = [c \in Callers |-> talk[c]] /\ asked = [c \in Callers |-> asked[c]]
    /\ \A c \in Callers : TalkOf(talk[c], asked[c], c)

LEMMA SilentTalk == \A c : TalkOf(Silent, 0, c)
BY DEF TalkOf, Silent

(* One run changes and leaves the others alone.                            *)
LEMMA OneTalk ==
    ASSUME TalkOK, NEW c \in Callers, NEW t, NEW n,
           talk' = [talk EXCEPT ![c] = t], asked' = [asked EXCEPT ![c] = n],
           TalkOf(t, n, c)
    PROVE  TalkOK'
<1>1. /\ talk' = [d \in Callers |-> talk'[d]]
      /\ asked' = [d \in Callers |-> asked'[d]]
  BY DEF TalkOK
<1>2. ASSUME NEW d \in Callers PROVE TalkOf(talk'[d], asked'[d], d)
  <2>1. CASE d = c
    <3>1. talk'[d] = t /\ asked'[d] = n
      BY <2>1 DEF TalkOK
    <3> QED BY <2>1, <3>1
  <2>2. CASE d # c
    <3>1. talk'[d] = talk[d] /\ asked'[d] = asked[d]
      BY <2>2 DEF TalkOK
    <3> QED BY <3>1 DEF TalkOK
  <2> QED BY <2>1, <2>2
<1> QED BY <1>1, <1>2 DEF TalkOK, TalkOf

LEMMA AskedKept ==
    ASSUME TalkOK, NEW c \in Callers
    PROVE  /\ asked = [asked EXCEPT ![c] = asked[c]]
           /\ TalkOf(talk[c], asked[c], c)
<1>1. TalkOf(talk[c], asked[c], c)
  BY DEF TalkOK
<1> QED BY <1>1 DEF TalkOK

LEMMA BeginTalk ==
    ASSUME TalkOK, NEW c \in Callers, talk[c].pc = "idle", Begin(c)
    PROVE  TalkOK'
<1>1. PICK t : t = [Silent EXCEPT !.pc = "asking"]
  OBVIOUS
<1>2. t = [pc |-> "asking", round |-> 0, last |-> FALSE]
  BY <1>1 DEF Silent
<1>3. talk' = [talk EXCEPT ![c] = t] /\ asked' = asked
  BY <1>1 DEF Begin
<1>4. asked[c] = 0
  BY AskedKept DEF TalkOf
<1>5. TalkOf(t, 0, c)
  BY <1>2, AssistantAssumption DEF TalkOf
<1>6. asked' = [asked EXCEPT ![c] = 0]
  BY <1>3, <1>4, AskedKept
<1> QED BY <1>3, <1>5, <1>6, OneTalk

LEMMA FinishTalk == ASSUME TalkOK, NEW c \in Callers, Finish(c) PROVE TalkOK'
<1>1. talk' = [talk EXCEPT ![c] = Silent] /\ asked' = [asked EXCEPT ![c] = 0]
  BY DEF Finish
<1> QED BY <1>1, SilentTalk, OneTalk

LEMMA ToolUseTalk == ASSUME TalkOK, NEW c \in Callers, ToolUse(c) PROVE TalkOK'
<1>1. PICK t : t = [talk[c] EXCEPT !.pc = "tools"]
  OBVIOUS
<1>2. PICK n : n = asked[c] + 1
  OBVIOUS
<1>3. talk' = [talk EXCEPT ![c] = t]
  BY <1>1 DEF ToolUse, TalkOK
<1>4. asked' = [asked EXCEPT ![c] = n]
  BY <1>2 DEF ToolUse, TalkOK
<1>5. /\ talk[c] \in [pc : {"idle", "asking", "tools"}, round : Nat, last : BOOLEAN]
      /\ asked[c] \in Nat /\ asked[c] = talk[c].round
      /\ talk[c].round < MaxSteps /\ c \in WithTools
  BY AskedKept DEF TalkOf, ToolUse, MayUseTools
<1>6. t = [pc |-> "tools", round |-> talk[c].round, last |-> talk[c].last]
  BY <1>1, <1>5
<1>7. TalkOf(t, n, c)
  BY <1>2, <1>5, <1>6, AssistantAssumption DEF TalkOf
<1> QED BY <1>3, <1>4, <1>7, OneTalk

LEMMA CallToolsTalk == ASSUME TalkOK, NEW c \in Callers, CallTools(c) PROVE TalkOK'
<1>1. PICK t : t = [pc |-> "asking", round |-> talk[c].round + 1,
                    last |-> LastRound(talk[c].round)]
  OBVIOUS
<1>2. talk' = [talk EXCEPT ![c] = t] /\ asked' = asked
  BY <1>1 DEF CallTools, TalkOK
<1>3. /\ talk[c].round \in Nat /\ asked[c] = talk[c].round + 1 /\ asked[c] <= MaxSteps
      /\ c \in WithTools
  BY AskedKept DEF TalkOf, CallTools
<1>4. LastRound(talk[c].round) \in BOOLEAN
      /\ (LastRound(talk[c].round) <=> asked[c] = MaxSteps)
  BY <1>3, AssistantAssumption DEF LastRound
<1>5. TalkOf(t, asked[c], c)
  <2>1. /\ t.pc = "asking" /\ t.round = asked[c] /\ asked[c] \in Nat /\ asked[c] > 0
        /\ t.last <=> asked[c] = MaxSteps
        /\ t \in [pc : {"idle", "asking", "tools"}, round : Nat, last : BOOLEAN]
    BY <1>1, <1>3, <1>4
  <2> QED BY <1>3, <2>1 DEF TalkOf
<1>6. asked' = [asked EXCEPT ![c] = asked[c]]
  BY <1>2, AskedKept
<1> QED BY <1>2, <1>5, <1>6, OneTalk

LEMMA QuietTalk == ASSUME TalkOK, UNCHANGED <<talk, asked>> PROVE TalkOK'
BY DEF TalkOK, TalkOf

(* The bot is at one of its steps, and asks only while it waits.           *)
WaitOK ==
    /\ crashes <= MaxCrashes
    /\ bot.pc \in {"start", "fetch", "handle", "answer", "reply", "stopped"}
    /\ talk["question"].pc # "idle" => bot.pc = "answer"

SInv == IInv /\ SpendOK /\ TalkOK /\ WaitOK

LEMMA InitSInv == ASSUME Init PROVE SInv
<1>1. SpendOK
  BY InitSpend
<1>2. TalkOK
  BY SilentTalk DEF Init, TalkOK
<1>3. WaitOK
  BY AssistantAssumption DEF Init, WaitOK, Silent, NewBot
<1> QED BY <1>1, <1>2, <1>3, InitIInv DEF SInv

(* A run starts, or is turned down.                                        *)
LEMMA AskSInv == ASSUME SInv, NEW c \in Callers, Ask(c) PROVE SInv'
<1>1. SpendOK' /\ TalkOK'
  <2>1. now' = now /\ talk[c].pc = "idle" /\ SpendOK /\ TalkOK
    BY DEF Ask, SInv
  <2>2. CASE Begin(c)
    BY <2>1, <2>2, BeginSpend, BeginTalk
  <2>3. CASE Refuse
    <3>1. SpendOK'
      BY <2>1, <2>3, RefuseSpend
    <3>2. UNCHANGED <<talk, asked>>
      BY <2>3 DEF Refuse
    <3> QED BY <2>1, <3>1, <3>2, QuietTalk
  <2> QED BY <2>2, <2>3 DEF Ask
<1>2. WaitOK'
  <2>1. UNCHANGED <<crashes, bot>> /\ c # "question" /\ "question" \in Callers
    BY AssistantAssumption DEF Ask
  <2>2. talk'["question"] = talk["question"]
    BY <2>1 DEF Ask, Begin, Refuse, SInv, TalkOK
  <2> QED BY <2>1, <2>2 DEF SInv, WaitOK
<1>3. IInv'
  BY OtherIInv DEF SInv
<1> QED BY <1>1, <1>2, <1>3 DEF SInv

LEMMA ConverseSInv == ASSUME SInv, NEW c \in Callers, Converse(c) PROVE SInv'
<1>1. UNCHANGED <<now, calls, started>> /\ UNCHANGED <<crashes, bot>>
  BY DEF Converse, Finish, ToolUse, CallTools
<1>2. SpendOK'
  BY <1>1, QuietSpend DEF SInv
<1>3. TalkOK'
  BY FinishTalk, ToolUseTalk, CallToolsTalk DEF SInv, Converse
<1>4. WaitOK'
  <2>1. talk[c].pc # "idle" /\ "question" \in Callers
    BY AssistantAssumption DEF Converse, Finish, ToolUse, CallTools
  <2>2. c # "question" => talk'["question"] = talk["question"]
    BY <2>1 DEF Converse, Finish, ToolUse, CallTools, SInv, TalkOK
  <2> QED BY <1>1, <2>1, <2>2 DEF SInv, WaitOK
<1>5. IInv'
  BY OtherIInv DEF SInv
<1> QED BY <1>2, <1>3, <1>4, <1>5 DEF SInv

LEMMA HandleSInv == ASSUME SInv, handle PROVE SInv'
<1>1. /\ UNCHANGED <<now, crashes>> /\ bot.pc = "handle"
      /\ SpendOK /\ TalkOK /\ "question" \in Callers /\ talk["question"].pc = "idle"
  BY AssistantAssumption DEF handle, SInv, WaitOK
<1>2. ASSUME NEW pc, TakeUp(pc) PROVE bot'.pc = pc
  BY <1>2 DEF TakeUp
<1>3. IInv'
  BY HandleIInv DEF SInv
<1>4. CASE UNCHANGED llm /\ (TakeUp("handle") \/ TakeUp("reply"))
  <2>1. UNCHANGED <<now, calls, started>> /\ UNCHANGED <<talk, asked>>
    BY <1>1, <1>4 DEF llm
  <2>2. SpendOK' /\ TalkOK'
    BY <1>1, <2>1, QuietSpend, QuietTalk
  <2>3. WaitOK'
    BY <1>1, <1>2, <1>4, <2>1 DEF SInv, WaitOK
  <2> QED BY <1>3, <2>2, <2>3 DEF SInv
<1>5. CASE TakeUp("answer") /\ Begin("question")
  <2>1. SpendOK' /\ TalkOK'
    BY <1>1, <1>5, BeginSpend, BeginTalk
  <2>2. WaitOK'
    BY <1>1, <1>2, <1>5 DEF SInv, WaitOK
  <2> QED BY <1>3, <2>1, <2>2 DEF SInv
<1>6. CASE TakeUp("reply") /\ Refuse
  <2>1. UNCHANGED <<talk, asked>>
    BY <1>6 DEF Refuse
  <2>2. SpendOK' /\ TalkOK'
    BY <1>1, <1>6, <2>1, RefuseSpend, QuietTalk
  <2>3. WaitOK'
    BY <1>1, <1>2, <1>6, <2>1 DEF SInv, WaitOK
  <2> QED BY <1>3, <2>2, <2>3 DEF SInv
<1> QED BY <1>4, <1>5, <1>6 DEF handle

LEMMA CrashSInv == ASSUME SInv, Crash PROVE SInv'
<1>1. IInv'
  BY CrashIInv DEF SInv
<1>2. talk' = [c \in Callers |-> Silent] /\ asked' = [c \in Callers |-> 0]
  BY DEF Crash
<1>3. SpendOK'
  BY CrashSpend DEF SInv
<1>4. TalkOK'
  BY <1>2, SilentTalk DEF TalkOK
<1>5. WaitOK'
  <2>1. crashes' <= MaxCrashes
    BY AssistantAssumption DEF Crash, SInv, IInv, MailOK
  <2>2. talk'["question"].pc = "idle" /\ bot'.pc = "start"
    BY <1>2, AssistantAssumption DEF Crash, Silent, NewBot
  <2> QED BY <2>1, <2>2 DEF WaitOK
<1> QED BY <1>1, <1>3, <1>4, <1>5 DEF SInv

LEMMA TickSInv == ASSUME SInv, Tick PROVE SInv'
<1>1. IInv'
  BY OtherIInv DEF SInv
<1>2. SpendOK'
  BY TickSpend DEF SInv
<1>3. UNCHANGED <<talk, asked>> /\ UNCHANGED <<crashes, bot>>
  BY DEF Tick
<1>4. TalkOK' /\ WaitOK'
  BY <1>3, QuietTalk DEF SInv, WaitOK
<1> QED BY <1>1, <1>2, <1>4 DEF SInv

(* The other steps of the bot, and those of Telegram.                      *)
LEMMA BotSInv ==
    ASSUME SInv,
           \/ Post \/ Start \/ getUpdates \/ getUpdatesFails
           \/ Answer \/ Send \/ BatchDone \/ UNCHANGED vars
    PROVE  SInv'
<1>1. IInv'
  BY PostIInv, FetchIInv, FetchFailsIInv, OtherIInv DEF SInv
<1>2. UNCHANGED <<now, crashes, llm>>
  BY DEF Post, Start, getUpdates, getUpdatesFails, Answer, Send, BatchDone, vars
<1>3. UNCHANGED <<now, calls, started>> /\ UNCHANGED <<talk, asked>>
  BY <1>2 DEF llm
<1>4. SpendOK' /\ TalkOK'
  BY <1>3, QuietSpend, QuietTalk DEF SInv
<1>5. WaitOK'
  <2>1. bot.pc = "answer" /\ bot' # bot => talk["question"].pc = "idle"
    BY DEF Post, Start, getUpdates, getUpdatesFails, Answer, Send, BatchDone, vars
  <2>2. bot' = bot \/ bot'.pc \in {"fetch", "handle", "reply"}
    BY DEF Post, Start, getUpdates, getUpdatesFails, Answer, Send, BatchDone, vars, SInv,
           IInv, BotOK
  <2> QED BY <1>2, <1>3, <2>1, <2>2 DEF SInv, WaitOK
<1> QED BY <1>1, <1>4, <1>5 DEF SInv

LEMMA NextSInv == ASSUME SInv, [Next]_vars PROVE SInv'
BY AskSInv, ConverseSInv, HandleSInv, CrashSInv, TickSInv, BotSInv DEF Next, Bot

LEMMA SInvImplies == ASSUME SInv PROVE SpendBounded
<1>1. TypeOK
  <2>1. now \in 0..MaxTime /\ crashes \in 0..MaxCrashes
    BY AssistantAssumption DEF SInv, IInv, MailOK, SpendOK, WaitOK
  <2>2. calls \in Seq(0..now)
    BY WithinType DEF SInv, SpendOK, Pruned
  <2>3. \A c \in Callers :
          talk[c] \in [pc : {"idle", "asking", "tools"}, round : Nat, last : BOOLEAN]
    BY DEF SInv, TalkOK, TalkOf
  <2> QED BY <2>1, <2>2, <2>3 DEF SInv, IInv, MailOK, BotOK, SpendOK, WaitOK, TypeOK
<1>2. TalkBounded
  <2> SUFFICES ASSUME NEW c \in Callers
               PROVE  /\ asked[c] <= IF c \in WithTools THEN MaxSteps ELSE 0
                      /\ talk[c].pc = "asking" =>
                           (talk[c].last <=> asked[c] = MaxSteps /\ asked[c] > 0)
    BY DEF TalkBounded
  <2>1. TalkOf(talk[c], asked[c], c)
    BY DEF SInv, TalkOK
  <2> QED BY <2>1, AssistantAssumption DEF TalkOf
<1> QED BY <1>1, <1>2 DEF SInv, SpendOK, SpendBounded

(* However analyses, questions, digests and crashes interleave: any hour   *)
(* has at most MaxPerHour runs, and a run at most MaxSteps + 1 requests,   *)
(* the last with tools turned off (allow and converse of                   *)
(* internal/llm/anthropic.go).                                             *)
THEOREM SpendIsBounded == Spec => []SpendBounded
<1>1. Init => SInv
  BY InitSInv
<1>2. SInv /\ [Next]_vars => SInv'
  BY NextSInv
<1>3. SInv => SpendBounded
  BY SInvImplies
<1> QED BY <1>1, <1>2, <1>3, PTL DEF Spec

LEMMA RefusesRightly ==
    ASSUME SInv, [Next]_vars, ~refused, refused'
    PROVE  StartedIn(now - Hour, now) = MaxPerHour
<1>1. Refuse
  BY DEF Next, Tick, Crash, Post, Bot, Start, getUpdates, getUpdatesFails, handle, Answer,
         Send, BatchDone, Ask, Begin, Converse, Finish, ToolUse, CallTools, llm, vars
<1>2. Len(Kept) >= MaxPerHour
  BY <1>1 DEF Refuse, Spent
<1>3. Len(Kept) = StartedIn(now - Hour, now) /\ Len(Kept) <= MaxPerHour /\ Len(Kept) \in Nat
  BY KeptIs DEF SInv
<1> QED BY <1>2, <1>3, AssistantAssumption

(* A run is turned down only when the hour before is full of runs that     *)
(* started: allow counts no refusals, and forgets in time.                 *)
THEOREM RefusedOnlyWhenSpent == Spec => RefusedOnlySpent
<1>1. Init => SInv
  BY InitSInv
<1>2. SInv /\ [Next]_vars => SInv'
  BY NextSInv
<1>3. SInv /\ [Next]_vars => (~refused /\ refused' => StartedIn(now - Hour, now) = MaxPerHour)
  BY RefusesRightly
<1> QED BY <1>1, <1>2, <1>3, PTL DEF Spec, RefusedOnlySpent
=============================================================================
