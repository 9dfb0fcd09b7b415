----------------------------- MODULE Assistant -----------------------------
(***************************************************************************)
(* The LLM layer (internal/llm/anthropic.go) and the chat bot that asks it *)
(* (internal/chatops/telegram.go).  The dispatcher's analyses, the digest  *)
(* and the bot share one hourly budget and run at the same time.           *)
(*                                                                         *)
(* The API and Telegram are external.  A response of the API is what       *)
(* converse tells apart: an error, a refusal, tool calls, a text or an     *)
(* empty text; tool calls may come with or without a text.  Telegram keeps *)
(* a message until it is asked for one with a higher id.  A crash takes    *)
(* everything: neither the budget nor the offset is saved.                 *)
(*                                                                         *)
(* A request is one call of Messages.New.  The SDK inside may send it up   *)
(* to three times (WithMaxRetries(2), anthropic.go:123); those attempts    *)
(* are not counted by the code and not here.                               *)
(***************************************************************************)
EXTENDS Pruning, SequencesExt

CONSTANTS
    Callers,            \* of the LLM layer; "question" is the bot
    WithTools,          \* the callers whose requests offer tools
    MaxPerHour, Hour,
    MaxSteps,           \* rounds of tool calls
    Kinds,              \* of messages
    Stale,
    MaxMessages, MaxTime, MaxCrashes      \* bounds

ASSUME AssistantAssumption ==
    /\ "question" \in Callers /\ WithTools \subseteq Callers
    /\ MaxPerHour \in Nat \ {0} /\ Hour \in Nat \ {0} /\ MaxSteps \in Nat
    /\ Kinds \subseteq {"stranger", "empty", "foreign", "command", "question"}
    /\ {Stale, MaxMessages, MaxTime, MaxCrashes} \subseteq Nat

VARIABLES
    now, crashes,
    calls,       \* a.calls
    talk,        \* per caller, the run in progress: [pc, round, last]
    messages, confirmed,    \* Telegram: all messages, and the ids it forgot
    bot,         \* [pc, offset, batch]
    started,     \* history: when the runs of this process began
    refused,     \* history: a run was just turned down
    asked,       \* history: the requests answered with tool calls, of each
                 \* run in progress
    handled      \* history: how often the bot took up a message

llm == <<calls, talk, started, refused, asked>>
telegram == <<messages, confirmed>>
vars == <<now, crashes, llm, telegram, bot, handled>>

Silent == [pc |-> "idle", round |-> 0, last |-> FALSE]
NewBot == [pc |-> "start", offset |-> 0, batch |-> <<>>]

Init ==
    /\ now = 0 /\ crashes = 0
    /\ calls = <<>> /\ talk = [c \in Callers |-> Silent]
    /\ started = <<>> /\ refused = FALSE
    /\ asked = [c \in Callers |-> 0]
    /\ messages = <<>> /\ confirmed = 0
    /\ bot = NewBot /\ handled = [m \in 1..MaxMessages |-> 0]

----------------------------------------------------------------------------
(* The budget and the conversation. *)

\* Mutants: a call an hour old still counts; one that ran out takes the others along.
KeptInclusive == SelectSeq(calls, LAMBDA t : t >= now - Hour)
KeptUnlessOld == IF \E i \in DOMAIN calls : calls[i] <= now - Hour THEN <<>> ELSE calls

\* pruneLocked
Kept == Within(calls, now - Hour)

Spent == Len(Kept) >= MaxPerHour

\* run: allow, and the first request.
Begin(c) ==
    /\ ~Spent
    /\ calls' = Append(Kept, now)
    /\ talk' = [talk EXCEPT ![c] = [Silent EXCEPT !.pc = "asking"]]
    /\ started' = Append(started, now)
    /\ refused' = FALSE /\ UNCHANGED asked

Refuse == Spent /\ calls' = Kept /\ refused' = TRUE /\ UNCHANGED <<talk, started, asked>>

\* Analyze and SummarizeDigest, whenever their callers come to it.
Ask(c) ==
    /\ c # "question" /\ talk[c].pc = "idle"
    /\ Begin(c) \/ Refuse
    /\ UNCHANGED <<now, crashes, telegram, bot, handled>>

\* An error, a refusal, a text or an empty one ends the run, and so do tool
\* calls that are not to be made.
Finish(c) ==
    /\ talk[c].pc = "asking"
    /\ talk' = [talk EXCEPT ![c] = Silent]
    /\ asked' = [asked EXCEPT ![c] = 0]
    /\ UNCHANGED <<now, crashes, calls, started, refused, telegram, bot, handled>>

MayUseTools(c) == c \in WithTools /\ talk[c].round < MaxSteps

ToolUse(c) ==
    /\ talk[c].pc = "asking" /\ MayUseTools(c)
    /\ talk' = [talk EXCEPT ![c].pc = "tools"]
    /\ asked' = [asked EXCEPT ![c] = @ + 1]
    /\ UNCHANGED <<now, crashes, calls, started, refused, telegram, bot, handled>>

LastRound(round) == round + 1 >= MaxSteps

\* callTools, failed calls included; after the last round tool_choice is none.
CallTools(c) ==
    /\ talk[c].pc = "tools"
    /\ talk' = [talk EXCEPT ![c] = [pc |-> "asking", round |-> @.round + 1,
                                    last |-> LastRound(@.round)]]
    /\ UNCHANGED <<now, crashes, calls, started, refused, asked, telegram, bot, handled>>

----------------------------------------------------------------------------
(* Telegram and the bot. *)

Post ==
    /\ Len(messages) < MaxMessages
    /\ \E k \in Kinds : messages' = Append(messages, [kind |-> k, at |-> now])
    /\ UNCHANGED <<now, crashes, llm, confirmed, bot, handled>>

\* getMe, until it works.
Start ==
    /\ bot.pc = "start"
    /\ bot' = [bot EXCEPT !.pc = "fetch"]
    /\ UNCHANGED <<now, crashes, llm, telegram, handled>>

Confirmed == Max({bot.offset - 1, confirmed})

getUpdates ==
    /\ bot.pc = "fetch" /\ Len(messages) > Confirmed
    /\ confirmed' = Confirmed
    /\ bot' = [bot EXCEPT !.pc = "handle",
                          !.batch = [i \in 1..Len(messages) - Confirmed |-> Confirmed + i]]
    /\ UNCHANGED <<now, crashes, llm, messages, handled>>

\* The response is lost, or there is nothing new; the bot asks again.
getUpdatesFails ==
    /\ bot.pc = "fetch"
    /\ confirmed' = Confirmed
    /\ UNCHANGED <<now, crashes, llm, messages, bot, handled>>

Message == messages[Head(bot.batch)]

Ignored ==
    \/ Message.kind \in {"stranger", "empty", "foreign"}
    \/ now - Message.at > Stale

\* Mutant: the offset of the message itself.
NextOffsetSame(id) == Max({bot.offset, id})

NextOffset(id) == Max({bot.offset, id + 1})

TakeUp(pc) ==
    /\ bot' = [pc |-> pc, offset |-> NextOffset(Head(bot.batch)), batch |-> Tail(bot.batch)]
    /\ handled' = [handled EXCEPT ![Head(bot.batch)] = @ + 1]

handle ==
    /\ bot.pc = "handle" /\ bot.batch # <<>>
    /\ \/ Ignored /\ TakeUp("handle") /\ UNCHANGED llm
       \/ ~Ignored /\ Message.kind = "command" /\ TakeUp("reply") /\ UNCHANGED llm
       \/ ~Ignored /\ Message.kind = "question" /\ TakeUp("answer") /\ Begin("question")
       \/ ~Ignored /\ Message.kind = "question" /\ TakeUp("reply") /\ Refuse
    /\ UNCHANGED <<now, crashes, telegram>>

Answer ==
    /\ bot.pc = "answer" /\ talk["question"].pc = "idle"
    /\ bot' = [bot EXCEPT !.pc = "reply"]
    /\ UNCHANGED <<now, crashes, llm, telegram, handled>>

\* Mutant: the loop ends with a message that could not be sent.
SendOrStop ==
    /\ bot.pc = "reply"
    /\ \E sent \in BOOLEAN : bot' = [bot EXCEPT !.pc = IF sent THEN "handle" ELSE "stopped"]
    /\ UNCHANGED <<now, crashes, llm, telegram, handled>>

\* sendMessage; an error is only logged.
Send ==
    /\ bot.pc = "reply"
    /\ bot' = [bot EXCEPT !.pc = "handle"]
    /\ UNCHANGED <<now, crashes, llm, telegram, handled>>

BatchDone ==
    /\ bot.pc = "handle" /\ bot.batch = <<>>
    /\ bot' = [bot EXCEPT !.pc = "fetch"]
    /\ UNCHANGED <<now, crashes, llm, telegram, handled>>

----------------------------------------------------------------------------
Tick ==
    /\ now < MaxTime /\ now' = now + 1
    /\ refused' = FALSE
    /\ UNCHANGED <<crashes, calls, talk, started, asked, telegram, bot, handled>>

Crash ==
    /\ crashes < MaxCrashes /\ crashes' = crashes + 1
    /\ calls' = <<>> /\ talk' = [c \in Callers |-> Silent]
    /\ started' = <<>> /\ refused' = FALSE
    /\ asked' = [c \in Callers |-> 0]
    /\ bot' = NewBot
    /\ UNCHANGED <<now, telegram, handled>>

Converse(c) == Finish(c) \/ ToolUse(c) \/ CallTools(c)
Bot == Start \/ getUpdates \/ handle \/ Answer \/ Send \/ BatchDone

Next ==
    \/ Tick \/ Crash \/ Post \/ Bot \/ getUpdatesFails
    \/ \E c \in Callers : Ask(c) \/ Converse(c)

(* A request and a tool call end with the timeout of the run; the bot's     *)
(* loop goes on, and Telegram answers in the end.                           *)
Spec ==
    Init /\ [][Next]_vars /\ WF_vars(Bot) /\ \A c \in Callers : WF_vars(Converse(c))

----------------------------------------------------------------------------
(* Properties. *)

(* Shapes of the LLM layer's and the bot's state; a.calls never holds more   *)
(* than the budget, and the bot waits only for a run that it started.        *)
TypeOK ==
    /\ now \in 0..MaxTime /\ crashes \in 0..MaxCrashes
    /\ calls \in Seq(0..now) /\ Len(calls) <= MaxPerHour
    /\ \A c \in Callers : talk[c] \in [pc : {"idle", "asking", "tools"}, round : Nat, last : BOOLEAN]
    /\ bot.pc \in {"start", "fetch", "handle", "answer", "reply", "stopped"}
    /\ bot.offset \in 0..Len(messages) + 1
    /\ talk["question"].pc # "idle" => bot.pc = "answer"
    /\ confirmed \in 0..Len(messages)

StartedIn(from, to) ==
    Cardinality({i \in 1..Len(started) : from < started[i] /\ started[i] <= to})

(* Over any hour of one process, ended or not, all callers together start at *)
(* most MaxPerHour runs, however analyses, questions and digests interleave. *)
BudgetKept == \A t \in 0..now : StartedIn(t - Hour, t) <= MaxPerHour

(* A run is turned down only when the hour before really is used up: refused *)
(* requests and calls that ran out never count against the budget.           *)
RefusedOnlySpent ==
    [][ ~refused /\ refused' => StartedIn(now - Hour, now) = MaxPerHour ]_vars

(* A run makes at most MaxSteps + 1 requests, one if it offers no tools, and *)
(* the request after the last round of tools goes out with tools turned off, *)
(* so an answer can still come of it.                                        *)
TalkBounded ==
    \A c \in Callers :
      /\ asked[c] <= IF c \in WithTools THEN MaxSteps ELSE 0
      /\ talk[c].pc = "asking" => (talk[c].last <=> asked[c] = MaxSteps /\ asked[c] > 0)

(* Messages are taken up in their order, none is passed over, and a second   *)
(* time only after a crash: not when the response to getUpdates is lost, nor *)
(* when the bot is busy with an answer while more come in.                   *)
EachInTurn ==
    \A m \in 1..MaxMessages :
      /\ handled[m] <= 1 + crashes
      /\ handled[m] > 0 => \A k \in 1..m : handled[k] > 0

(* Every message is taken up in the end, over failed requests, replies that  *)
(* could not be sent, runs full of tool calls, an empty budget and crashes.  *)
EveryMessageHandled == \A m \in 1..MaxMessages : (Len(messages) >= m) ~> (handled[m] > 0)

(* What the LLM may cost in an hour is bounded: so many runs, each of so     *)
(* many requests, whoever asks and however the runs interleave.              *)
SpendBounded == TypeOK /\ BudgetKept /\ TalkBounded
=============================================================================
