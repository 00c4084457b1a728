----------------------------- MODULE ChatEvents -----------------------------
(***************************************************************************)
(* The conversation about an alert: messages that people write under its   *)
(* card reach internal/notifier/events.go, possibly more than once, and    *)
(* internal/chat/orchestrator.go answers each in a goroutine of its own.   *)
(* Every call to the store, to the language model and to Lark is a step.   *)
(*                                                                         *)
(* A request is one HTTP delivery of an event and the goroutine it spawns. *)
(* Its pc goes                                                             *)
(*   "idle" -> "claim" -> "find" -> "keep" -> "read" -> "chat"             *)
(*          -> LarkToken's steps -> "record" -> "done",                    *)
(* with a shortcut to LarkToken's steps for the replies that report an     *)
(* error.  A crash loses what the database does not hold.                 *)
(*                                                                         *)
(* A definition X_Variant before a definition X is X with a bug in it; the *)
(* mutation runs put it in X's place, and nothing else refers to it.       *)
(***************************************************************************)
EXTENDS LarkToken, ChatHistory, FiniteSets

CONSTANTS
  Messages,       \* 1..n, in the order people write them
  Drafts,         \* what people write
  BotId,          \* botOpenID, "" when it is not configured
  BotName,        \* botName, "" when it is not configured
  RetryWindow,    \* Lark delivers a message again only that long
  PurgeAge,       \* how long processed_events are kept
  MaxFaults       \* bound on the failing calls and the crashes

ASSUME ChatAssumption ==
  /\ IsFiniteSet(Messages) /\ IsFiniteSet(Requests)
  /\ Messages = 1..Cardinality(Messages) /\ Requests = 1..Cardinality(Requests)
  /\ \A d \in Drafts : d.text \in {"none", "empty", "words"} /\ d.size \in Nat
  /\ RetryWindow \in Nat /\ PurgeAge \in Nat /\ RetryWindow <= PurgeAge
  /\ MaxFaults \in Nat

VARIABLES
  posted,       \* the messages written so far: when, and as a reply to what
  clock,        \* orders created_at: messages written and replies recorded
  processed,    \* processed_events: when each message was claimed
  conversation, \* the pipeline's row for the card: "none", "saved", "lost"
  rows,         \* the messages table
  event,        \* the message a request delivers
  reply,        \* what the request sends: "text", "plan", "excuse"
  history,      \* what the language model is shown, until it answers
  answers,      \* the replies sent to each message
  cards,        \* the messages answered with the card of a revised plan
  unclaimed,    \* how often claiming a message failed
  broken,       \* the messages whose goroutine a fault or a crash ended
  faults

threadVars == <<posted, clock, conversation, cards>>
workVars == <<event, reply, history>>
tally == <<answers, unclaimed, broken, faults>>
vars == <<now, pc, tokenVars, threadVars, processed, rows, workVars, tally>>

Never == -1
None == 0

TypeOK ==
  /\ now \in 0..MaxTime
  /\ pc \in [Requests -> {"idle", "claim", "find", "keep", "read", "chat", "ask", "refresh",
                          "fetch", "take", "send", "record", "done"}]
  /\ expiry \in {NoToken} \cup 0..(MaxTime + Lifetime)
  /\ mutex \in Requests \cup {Nobody}
  /\ \A r \in Requests : mutex = r <=> pc[r] = "fetch"
  /\ DOMAIN posted \subseteq Messages
  /\ processed \in [Messages -> {Never} \cup 0..MaxTime]
  /\ conversation \in {"none", "saved", "lost"}
  /\ \A row \in rows : row.of \in DOMAIN posted /\ row.at < clock
  /\ \A r \in Requests : event[r] \in DOMAIN posted \cup {None}
  /\ faults \in 0..MaxFaults

Init ==
  /\ now = 0 /\ pc = [r \in Requests |-> "idle"] /\ TokenInit
  /\ posted = [m \in {} |-> 0] /\ clock = 0 /\ conversation = "none"
  /\ processed = [m \in Messages |-> Never] /\ rows = {}
  /\ event = [r \in Requests |-> None]
  /\ reply = [r \in Requests |-> "text"]
  /\ history = [r \in Requests |-> <<>>]
  /\ answers = [m \in Messages |-> 0] /\ unclaimed = [m \in Messages |-> 0]
  /\ cards = {} /\ broken = {} /\ faults = 0

Fault == faults < MaxFaults /\ faults' = faults + 1

----------------------------------------------------------------------------
(* People and Lark.  A message is written under the card of the alert, or  *)
(* under the card of a revised plan, which starts a thread of its own.     *)
Post ==
  LET m == Cardinality(DOMAIN posted) + 1
  IN  \E parent \in {None} \cup cards, draft \in Drafts :
        /\ m \in Messages
        /\ posted' = [k \in DOMAIN posted \cup {m} |->
             IF k # m THEN posted[k]
             ELSE [time |-> now, at |-> clock, parent |-> parent, draft |-> draft]]
        /\ clock' = clock + 1
        /\ UNCHANGED <<now, pc, tokenVars, conversation, cards, processed, rows, workVars, tally>>

(* createConversation runs after the card is in the chat, and only logs.   *)
SaveConversation ==
  /\ conversation = "none"
  /\ \/ conversation' = "saved" /\ UNCHANGED faults
     \/ conversation' = "lost" /\ Fault
  /\ UNCHANGED <<now, pc, tokenVars, posted, clock, cards, processed, rows, workVars,
                 answers, unclaimed, broken>>

(* A draft: who sends it, whom it mentions, its text, which is "empty"     *)
(* when it is but mentions and "none" when it is a picture, and its size.  *)
Mentioned(draft) ==
  IF BotId # "" \/ BotName # "" THEN draft.mentions \cap ({BotId, BotName} \ {""}) # {}
  ELSE draft.mentions # {}

ForBot(draft) == draft.text # "none" /\ Mentioned(draft) /\ ~(BotId # "" /\ draft.sender = BotId)

(* The idle requests are used in order: only how many there are matters.   *)
Deliver(r) ==
  \E m \in DOMAIN posted :
    /\ \A q \in Requests : q < r => pc[q] # "idle"
    /\ now - posted[m].time <= RetryWindow
    /\ Move(r, "idle", IF ForBot(posted[m].draft) THEN "claim" ELSE "done")
    /\ event' = [event EXCEPT ![r] = m]
    /\ UNCHANGED <<now, tokenVars, threadVars, processed, rows, reply, history, tally>>

(* MarkEventProcessed is one INSERT OR IGNORE.  When it fails the message  *)
(* is handled all the same.                                                *)
Claim_IgnoresRowCount(r) ==
  LET m == event[r]
  IN  /\ Move(r, "claim", "find")
      /\ processed' = [processed EXCEPT ![m] = now]
      /\ UNCHANGED <<now, tokenVars, threadVars, rows, workVars, tally>>
Claim(r) ==
  LET m == event[r]
  IN  /\ pc[r] = "claim"
      /\ \/ /\ processed[m] = Never
            /\ Move(r, "claim", "find")
            /\ processed' = [processed EXCEPT ![m] = now]
            /\ UNCHANGED <<unclaimed, faults>>
         \/ /\ processed[m] # Never
            /\ Move(r, "claim", "done")
            /\ UNCHANGED <<processed, unclaimed, faults>>
         \/ /\ Fault
            /\ Move(r, "claim", "find")
            /\ unclaimed' = [unclaimed EXCEPT ![m] = @ + 1]
            /\ UNCHANGED processed
      /\ UNCHANGED <<now, tokenVars, threadVars, rows, workVars, answers, broken>>

Break(r) == broken' = broken \cup {event[r]}

Excuse(r, from) == Move(r, from, "ask") /\ reply' = [reply EXCEPT ![r] = "excuse"]

(* findConversation: by the card the thread hangs under, else by the row   *)
(* of the answer the message replies to.                                   *)
Found(m) ==
  \/ posted[m].parent = None /\ conversation = "saved"
  \/ /\ posted[m].parent # None
     /\ \E row \in rows : row.role = "assistant" /\ row.of = posted[m].parent

Empty(m) == m \in DOMAIN posted /\ posted[m].draft.text = "empty"

FindConversation(r) ==
  /\ pc[r] = "find" /\ ~Empty(event[r])
  /\ \/ Found(event[r]) /\ Move(r, "find", "keep") /\ UNCHANGED <<reply, broken, faults>>
     \/ ~Found(event[r]) /\ Excuse(r, "find") /\ UNCHANGED <<broken, faults>>
     \/ Fault /\ Move(r, "find", "done") /\ Break(r) /\ UNCHANGED reply
  /\ UNCHANGED <<now, tokenVars, threadVars, processed, rows, event, history,
                 answers, unclaimed>>

IgnoreEmpty(r) ==
  /\ pc[r] = "find" /\ Empty(event[r])
  /\ Move(r, "find", "done")
  /\ UNCHANGED <<now, tokenVars, threadVars, processed, rows, workVars, tally>>

UserRow(r) ==
  LET m == event[r]
  IN  [role |-> "user", of |-> m, by |-> r, at |-> posted[m].at, size |-> posted[m].draft.size]

(* Without its row the turn is given up.                                   *)
KeepMessage_GoesOn(r) ==
  /\ Move(r, "keep", "read")
  /\ \/ rows' = rows \cup {UserRow(r)} /\ UNCHANGED faults
     \/ Fault /\ UNCHANGED rows
  /\ UNCHANGED <<now, tokenVars, threadVars, processed, workVars,
                 answers, unclaimed, broken>>
KeepMessage(r) ==
  /\ \/ /\ Move(r, "keep", "read")
        /\ rows' = rows \cup {UserRow(r)} /\ UNCHANGED <<reply, faults>>
     \/ Fault /\ Excuse(r, "keep") /\ UNCHANGED rows
  /\ UNCHANGED <<now, tokenVars, threadVars, processed, event, history,
                 answers, unclaimed, broken>>

(* loadOriginalContext and buildHistory; without the former the turn is    *)
(* given up, without the latter it goes on.                                *)
ReadThread(r) ==
  /\ \/ /\ Move(r, "read", "chat")
        /\ history' = [history EXCEPT ![r] = BuildHistory(rows, event[r])]
        /\ UNCHANGED <<reply, faults>>
     \/ Fault /\ Move(r, "read", "chat") /\ UNCHANGED <<reply, history>>
     \/ Fault /\ Excuse(r, "read") /\ UNCHANGED history
  /\ UNCHANGED <<now, tokenVars, threadVars, processed, rows, event,
                 answers, unclaimed, broken>>

(* What an answer is taken for: text that is no reply of a known form, or  *)
(* a plan without commands, is passed on as text.                          *)
Replies == {"text", "plan"}

(* handleTextReply, and handleRevisedPlan, which answers with text when    *)
(* the plan at hand is settled and reads the analysis again otherwise.     *)
Chat(r) ==
  /\ \/ /\ \E type \in Replies : reply' = [reply EXCEPT ![r] = type]
        /\ Move(r, "chat", "ask") /\ UNCHANGED <<broken, faults>>
     \/ Excuse(r, "chat") /\ UNCHANGED <<broken, faults>>
     \/ Fault /\ Excuse(r, "chat") /\ UNCHANGED broken
     \/ Fault /\ Move(r, "chat", "done") /\ Break(r) /\ UNCHANGED reply
  /\ history' = [history EXCEPT ![r] = <<>>]
  /\ UNCHANGED <<now, tokenVars, threadVars, processed, rows, event,
                 answers, unclaimed>>

(* The steps of LarkToken; a call that gets no token sends nothing.        *)
GetToken(r) ==
  /\ \/ AskToken(r) \/ LockRefresh(r) \/ FetchToken(r) \/ TakeToken(r)
     /\ UNCHANGED <<broken, faults>>
  /\ UNCHANGED <<now, threadVars, processed, rows, workVars, answers, unclaimed>>

NoTokenFor(r) ==
  /\ FetchFails(r) /\ Fault /\ Break(r)
  /\ UNCHANGED <<now, threadVars, processed, rows, workVars, answers, unclaimed>>

Send(r) ==
  LET m == event[r]
  IN  /\ \/ /\ Move(r, "send", IF reply[r] = "excuse" THEN "done" ELSE "record")
            /\ answers' = [answers EXCEPT ![m] = @ + 1]
            /\ cards' = IF reply[r] = "plan" THEN cards \cup {m} ELSE cards
            /\ UNCHANGED <<broken, faults>>
         \/ /\ Fault /\ Move(r, "send", "done") /\ Break(r)
            /\ UNCHANGED <<answers, cards>>
      /\ reply' = [reply EXCEPT ![r] = "text"]
      /\ UNCHANGED <<now, tokenVars, posted, clock, conversation, processed, rows,
                     event, history, unclaimed>>

BotRow(r) ==
  [role |-> "assistant", of |-> event[r], by |-> r, at |-> clock, size |-> 1]

(* The answer is already in the chat: a failure to keep it is only logged. *)
RecordReply(r) ==
  /\ Move(r, "record", "done")
  /\ \/ rows' = rows \cup {BotRow(r)} /\ clock' = clock + 1 /\ UNCHANGED faults
     \/ Fault /\ UNCHANGED <<rows, clock>>
  /\ UNCHANGED <<now, tokenVars, posted, conversation, cards, processed, workVars,
                 answers, unclaimed, broken>>

----------------------------------------------------------------------------
(* The expiry loop's second half deletes what is strictly older.           *)
PurgeEvents ==
  LET old == {m \in Messages : processed[m] # Never /\ processed[m] < now - PurgeAge}
  IN  /\ old # {}
      /\ processed' = [m \in Messages |-> IF m \in old THEN Never ELSE processed[m]]
      /\ UNCHANGED <<now, pc, tokenVars, threadVars, rows, workVars, tally>>

(* A tick is hours, and a handler claims its event within seconds.         *)
Tick ==
  /\ now < MaxTime /\ \A r \in Requests : pc[r] # "claim"
  /\ now' = now + 1
  /\ UNCHANGED <<pc, tokenVars, threadVars, processed, rows, workVars, tally>>

(* A crash and a shutdown alike end the goroutines where they stand.       *)
Crash ==
  LET running == {r \in Requests : pc[r] \notin {"idle", "done"}}
  IN  /\ Fault
      /\ broken' = broken \cup {event[r] : r \in {q \in running : pc[q] \notin {"claim", "record"}}}
      /\ pc' = [r \in Requests |-> IF r \in running THEN "done" ELSE pc[r]]
      /\ history' = [r \in Requests |-> <<>>]
      /\ conversation' = IF conversation = "none" THEN "lost" ELSE conversation
      /\ expiry' = NoToken /\ mutex' = Nobody
      /\ UNCHANGED <<now, posted, clock, cards, processed, rows, event, reply,
                     answers, unclaimed>>

Serve(r) ==
  \/ Claim(r) \/ IgnoreEmpty(r) \/ FindConversation(r) \/ KeepMessage(r) \/ ReadThread(r) \/ Chat(r)
  \/ GetToken(r) \/ NoTokenFor(r) \/ Send(r) \/ RecordReply(r)

Next ==
  \/ \E r \in Requests : Deliver(r) \/ Serve(r)
  \/ Post \/ SaveConversation \/ PurgeEvents \/ Tick \/ Crash

Spec == Init /\ [][Next]_vars

(* Goroutines run, and every call they make returns: the HTTP clients and  *)
(* the context of a request have timeouts.                                 *)
Fairness == \A r \in Requests : WF_vars(Serve(r))

FairSpec == Spec /\ Fairness

----------------------------------------------------------------------------
(* A message gets one reply, however often Lark delivers it and however    *)
(* the deliveries overlap, plus one for every time the store could not     *)
(* tell that it was claimed (MarkEventProcessed in events.go, PurgeOldEvents *)
(* with its window).                                                       *)
AnsweredOnce == \A m \in Messages : answers[m] <= 1 + unclaimed[m]

(* The thread never holds an answer without the message it answers: a turn *)
(* whose message could not be stored is given up before the model is       *)
(* asked, so that no later turn reads an answer out of nowhere.            *)
NoAnswerWithoutMessage ==
  \A a \in rows : a.role = "assistant" =>
    \E u \in rows : u.role = "user" /\ u.of = a.of /\ u.by = a.by /\ u.at < a.at

(* As long as the thread fits ListMessages' limit, what the model is not   *)
(* shown is older than all it is shown: messages are dropped from the      *)
(* front, by number and by size (buildHistory).                            *)
RecentTurnsKept ==
  [][\A r \in Requests :
       LET shown == ToSet(history'[r])
           left == {row \in rows \ shown : row.role = "assistant" \/ row.of # event[r]}
       IN  pc[r] = "read" /\ shown # {} /\ Cardinality(rows) <= 2 * MaxTurns =>
             \A old \in left, new \in shown : old.at <= new.at]_vars

(* A claimed message with words in it is answered, unless its goroutine    *)
(* was cut short by a failing call or by the end of the process: Lark was  *)
(* told 200 and will not help, so nothing else may lose it, the mutex of   *)
(* the token included.                                                     *)
ClaimedIsAnswered ==
  \A m \in Messages : processed[m] # Never ~>
    answers[m] > 0 \/ m \in broken \/ Empty(m)

=============================================================================
