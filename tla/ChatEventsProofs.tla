-------------------------- MODULE ChatEventsProofs --------------------------
(***************************************************************************)
(* Proofs about ChatEvents for every number of messages, deliveries and    *)
(* faults, and every lifetime of the token.                                *)
(***************************************************************************)
EXTENDS ChatEvents, FiniteSetTheorems, SequenceTheorems, WellFoundedInduction, TLAPS

-----------------------------------------------------------------------------
(* The token.  The clock and the expiry are numbers, and whoever holds the *)
(* mutex found no usable token when taking it; time only makes it worse.   *)
TokenInv ==
  /\ now \in Nat /\ expiry \in Int
  /\ FetchOnlyWhenNeeded

LEMMA TokenStep == TokenInv /\ [Next]_vars => TokenInv'
<1> SUFFICES ASSUME TokenInv, [Next]_vars PROVE TokenInv'
  OBVIOUS
<1> USE TokenAssumption DEF TokenInv, FetchOnlyWhenNeeded, Usable
<1>1. ASSUME NEW r \in Requests, GetToken(r) PROVE TokenInv'
  <2>1. CASE AskToken(r)
    BY <1>1, <2>1 DEF GetToken, AskToken, LockRefresh, FetchToken, TakeToken, tokenVars
  <2>2. CASE LockRefresh(r)
    BY <1>1, <2>2 DEF GetToken, LockRefresh
  <2>3. CASE FetchToken(r)
    BY <1>1, <2>3 DEF GetToken, FetchToken
  <2>4. CASE TakeToken(r)
    BY <1>1, <2>4 DEF GetToken, TakeToken, tokenVars
  <2> QED
    BY <1>1, <2>1, <2>2, <2>3, <2>4 DEF GetToken
<1>2. ASSUME NEW r \in Requests, NoTokenFor(r) PROVE TokenInv'
  BY <1>2 DEF NoTokenFor, FetchFails
<1>3. CASE Tick
  BY <1>3 DEF Tick, tokenVars
<1>4. CASE Crash
  BY <1>4 DEF Crash, NoToken
<1>5. CASE Post \/ SaveConversation \/ PurgeEvents \/ UNCHANGED vars
  BY <1>5 DEF Post, SaveConversation, PurgeEvents, vars, tokenVars
<1>6. ASSUME NEW r \in Requests,
             Deliver(r) \/ Claim(r) \/ IgnoreEmpty(r) \/ FindConversation(r) \/ KeepMessage(r)
             \/ ReadThread(r) \/ Chat(r) \/ Send(r) \/ RecordReply(r)
      PROVE  TokenInv'
  <2>1. now' = now /\ expiry' = expiry /\ mutex' = mutex
    BY <1>6 DEF Deliver, Claim, IgnoreEmpty, FindConversation, KeepMessage, ReadThread, Chat,
                Send, RecordReply, tokenVars
  <2> QED
    BY <2>1
<1> QED
  BY <1>1, <1>2, <1>3, <1>4, <1>5, <1>6 DEF Next, Serve

(* However many calls find the token expired at once, and whatever fails,  *)
(* a token is fetched only while the cached one is of no use.              *)
THEOREM TokenFetched == Spec => []FetchOnlyWhenNeeded
<1>1. Init => TokenInv
  BY DEF Init, TokenInit, TokenInv, FetchOnlyWhenNeeded, NoToken
<1>2. TokenInv => FetchOnlyWhenNeeded
  BY DEF TokenInv
<1> QED
  BY <1>1, <1>2, TokenStep, PTL DEF Spec

-----------------------------------------------------------------------------
(* The thread.  A request has stored its message, before the clock's time; *)
(* a request is answering from then until the answer is recorded, unless   *)
(* what it sends is an excuse.                                             *)
Stored(r) ==
  \E u \in rows : u.role = "user" /\ u.of = event[r] /\ u.by = r /\ u.at \in Int /\ u.at < clock

Answering(r) ==
  \/ pc[r] \in {"read", "chat", "record"}
  \/ pc[r] \in {"ask", "refresh", "fetch", "take", "send"} /\ reply[r] # "excuse"

Steps == {"idle", "claim", "find", "keep", "read", "chat", "ask", "refresh",
          "fetch", "take", "send", "record", "done"}
Sent == {"text", "plan", "excuse"}

ThreadType ==
  /\ pc \in [Requests -> Steps] /\ reply \in [Requests -> Sent]
  /\ event \in [Requests -> Messages \cup {None}]
  /\ clock \in Nat /\ DOMAIN posted \subseteq Messages
  /\ \A m \in DOMAIN posted : posted[m].at \in Nat /\ posted[m].at < clock
  /\ \A r \in Requests : pc[r] \in {"claim", "find", "keep"} => event[r] \in DOMAIN posted

ThreadInv ==
  /\ ThreadType
  /\ \A r \in Requests : Answering(r) => Stored(r)
  /\ NoAnswerWithoutMessage

(* What is stored stays stored.                                            *)
LEMMA StaysStored ==
  ASSUME NEW r, Stored(r), rows \subseteq rows', clock \in Nat, clock' \in Nat,
         clock <= clock', event'[r] = event[r]
  PROVE  Stored(r)'
<1>1. PICK u \in rows : u.role = "user" /\ u.of = event[r] /\ u.by = r /\ u.at \in Int /\ u.at < clock
  BY DEF Stored
<1>2. u \in rows' /\ u.at < clock'
  BY <1>1
<1> QED
  BY <1>1, <1>2 DEF Stored

(* A step that writes no row and no message, and after which nobody        *)
(* answers who did not before.                                             *)
LEMMA ThreadQuiet ==
  ASSUME ThreadInv, UNCHANGED <<rows, clock, posted, event>>,
         pc' \in [Requests -> Steps], reply' \in [Requests -> Sent],
         \A r \in Requests : Answering(r)' => Answering(r),
         \A r \in Requests : pc'[r] \in {"claim", "find", "keep"} => pc[r] \in {"claim", "find", "keep"}
  PROVE  ThreadInv'
<1>1. ThreadType'
  BY DEF ThreadInv, ThreadType, Steps, Sent
<1>2. \A r \in Requests : Answering(r)' => Stored(r)'
  BY DEF ThreadInv, Stored
<1> QED
  BY <1>1, <1>2 DEF ThreadInv, NoAnswerWithoutMessage

LEMMA ThreadPeople ==
  ASSUME ThreadInv, Post \/ SaveConversation \/ PurgeEvents \/ Tick \/ Crash \/ UNCHANGED vars
  PROVE  ThreadInv'
<1>1. CASE Post
  <2> DEFINE m == Cardinality(DOMAIN posted) + 1
  <2>1. PICK parent \in {None} \cup cards, draft \in Drafts :
          /\ m \in Messages
          /\ posted' = [k \in DOMAIN posted \cup {m} |->
               IF k # m THEN posted[k]
               ELSE [time |-> now, at |-> clock, parent |-> parent, draft |-> draft]]
          /\ clock' = clock + 1
          /\ UNCHANGED <<pc, rows, workVars>>
    BY <1>1 DEF Post
  <2> HIDE DEF m
  <2>2. ThreadType'
    BY <2>1 DEF ThreadInv, ThreadType, Steps, Sent, workVars
  <2>3. \A r \in Requests : Answering(r)' => Stored(r)'
    BY <2>1, <2>2, StaysStored DEF ThreadInv, ThreadType, Steps, Sent, Answering, workVars
  <2> QED
    BY <2>1, <2>2, <2>3 DEF ThreadInv, NoAnswerWithoutMessage
<1>2. CASE SaveConversation \/ PurgeEvents \/ Tick \/ UNCHANGED vars
  <2>1. UNCHANGED <<rows, clock, posted, event, pc, reply>>
    BY <1>2 DEF SaveConversation, PurgeEvents, Tick, vars, threadVars, workVars
  <2> QED
    BY <2>1, ThreadQuiet DEF ThreadInv, ThreadType, Steps, Sent, Answering
<1>3. CASE Crash
  <2>1. UNCHANGED <<rows, clock, posted, event, reply>>
    BY <1>3 DEF Crash
  <2>2. /\ pc' \in [Requests -> Steps]
        /\ \A r \in Requests : pc'[r] \in {pc[r], "done"}
    BY <1>3 DEF Crash, ThreadInv, ThreadType, Steps, Sent
  <2> QED
    BY <2>1, <2>2, ThreadQuiet DEF ThreadInv, ThreadType, Steps, Sent, Answering
<1> QED
  BY <1>1, <1>2, <1>3

(* Before the message is stored, a request comes to no answer but an       *)
(* excuse.                                                                 *)
LEMMA ThreadBefore ==
  ASSUME ThreadInv, NEW r \in Requests,
         Deliver(r) \/ Claim(r) \/ IgnoreEmpty(r) \/ FindConversation(r)
  PROVE  ThreadInv'
<1>1. CASE Deliver(r)
  <2>1. PICK m \in DOMAIN posted :
          /\ pc[r] = "idle"
          /\ pc' = [pc EXCEPT ![r] = IF ForBot(posted[m].draft) THEN "claim" ELSE "done"]
          /\ event' = [event EXCEPT ![r] = m]
          /\ UNCHANGED <<threadVars, rows, reply>>
    BY <1>1 DEF Deliver, Move
  <2>2. PICK p \in {"claim", "done"} : pc' = [pc EXCEPT ![r] = p]
    BY <2>1
  <2>3. ThreadType'
    BY <2>1, <2>2 DEF ThreadInv, ThreadType, Steps, Sent, threadVars
  <2>4. \A q \in Requests : Answering(q)' => Stored(q)'
    BY <2>1, <2>2 DEF ThreadInv, ThreadType, Steps, Sent, Answering, Stored, threadVars
  <2> QED
    BY <2>1, <2>3, <2>4 DEF ThreadInv, NoAnswerWithoutMessage
<1>2. CASE Claim(r)
  <2>1. PICK p \in {"find", "done"} : pc[r] = "claim" /\ pc' = [pc EXCEPT ![r] = p]
    BY <1>2 DEF Claim, Move
  <2>2. UNCHANGED <<rows, clock, posted, event, reply>>
    BY <1>2 DEF Claim, threadVars, workVars
  <2> QED
    BY <2>1, <2>2, ThreadQuiet DEF ThreadInv, ThreadType, Steps, Sent, Answering
<1>3. CASE IgnoreEmpty(r)
  <2>1. pc[r] = "find" /\ pc' = [pc EXCEPT ![r] = "done"]
    BY <1>3 DEF IgnoreEmpty, Move
  <2>2. UNCHANGED <<rows, clock, posted, event, reply>>
    BY <1>3 DEF IgnoreEmpty, threadVars, workVars
  <2> QED
    BY <2>1, <2>2, ThreadQuiet DEF ThreadInv, ThreadType, Steps, Sent, Answering
<1>4. CASE FindConversation(r)
  <2>1. PICK p \in {"keep", "ask", "done"} : pc[r] = "find" /\ pc' = [pc EXCEPT ![r] = p]
    BY <1>4 DEF FindConversation, Move, Excuse
  <2>2. \/ reply' = reply /\ pc'[r] # "ask"
        \/ reply' = [reply EXCEPT ![r] = "excuse"]
    BY <1>4 DEF FindConversation, Move, Excuse, ThreadInv, ThreadType, Steps, Sent
  <2>3. UNCHANGED <<rows, clock, posted, event>>
    BY <1>4 DEF FindConversation, threadVars
  <2>4. reply' \in [Requests -> Sent] /\ pc' \in [Requests -> Steps]
    BY <2>1, <2>2 DEF ThreadInv, ThreadType, Steps, Sent
  <2> QED
    BY <2>1, <2>2, <2>3, <2>4, ThreadQuiet DEF ThreadInv, ThreadType, Steps, Sent, Answering
<1> QED
  BY <1>1, <1>2, <1>3, <1>4

(* Storing the message, which is older than the clock.                     *)
LEMMA ThreadKeep ==
  ASSUME ThreadInv, NEW r \in Requests, KeepMessage(r)
  PROVE  ThreadInv'
<1>1. UNCHANGED <<clock, posted, event>> /\ pc[r] = "keep"
  BY DEF KeepMessage, threadVars, Move, Excuse
<1>2. CASE /\ pc' = [pc EXCEPT ![r] = "read"]
           /\ rows' = rows \cup {UserRow(r)} /\ UNCHANGED reply
  <2>1. ThreadType'
    BY <1>1, <1>2 DEF ThreadInv, ThreadType, Steps, Sent
  <2>2. Stored(r)'
    <3>1. event[r] \in DOMAIN posted
      BY <1>1 DEF ThreadInv, ThreadType, Steps, Sent
    <3>2. posted[event[r]].at \in Int /\ posted[event[r]].at < clock
      BY <3>1 DEF ThreadInv, ThreadType
    <3>3. /\ UserRow(r).role = "user" /\ UserRow(r).of = event[r] /\ UserRow(r).by = r
          /\ UserRow(r).at = posted[event[r]].at
      BY DEF UserRow
    <3>4. UserRow(r) \in rows'
      BY <1>2
    <3> QED
      BY <1>1, <3>2, <3>3, <3>4 DEF Stored
  <2>3. \A q \in Requests \ {r} : Answering(q)' => Stored(q)'
    BY <1>1, <1>2, StaysStored DEF ThreadInv, ThreadType, Steps, Sent, Answering
  <2>4. UserRow(r).role = "user"
    BY DEF UserRow
  <2> QED
    BY <1>2, <2>1, <2>2, <2>3, <2>4 DEF ThreadInv, NoAnswerWithoutMessage
<1>3. CASE /\ pc' = [pc EXCEPT ![r] = "ask"] /\ reply' = [reply EXCEPT ![r] = "excuse"]
           /\ UNCHANGED rows
  BY <1>1, <1>3, ThreadQuiet DEF ThreadInv, ThreadType, Steps, Sent, Answering
<1> QED
  BY <1>2, <1>3 DEF KeepMessage, Move, Excuse

(* From then on the request answers, or is excused, or gives up.           *)
LEMMA ThreadAnswer ==
  ASSUME ThreadInv, NEW r \in Requests,
         ReadThread(r) \/ Chat(r) \/ GetToken(r) \/ NoTokenFor(r) \/ Send(r)
  PROVE  ThreadInv'
<1>1. UNCHANGED <<rows, clock, posted, event>>
  BY DEF ReadThread, Chat, GetToken, NoTokenFor, Send, threadVars, workVars
<1>2. CASE ReadThread(r) \/ Chat(r)
  <2>1. pc[r] \in {"read", "chat"}
    BY <1>2 DEF ReadThread, Chat, Move, Excuse
  <2>2. PICK p \in Steps, s \in Sent :
          /\ p \notin {"claim", "find", "keep"}
          /\ pc' = [pc EXCEPT ![r] = p] /\ reply' = [reply EXCEPT ![r] = s]
    BY <1>2 DEF ReadThread, Chat, Move, Excuse, Replies, ThreadInv, ThreadType, Steps, Sent
  <2> QED
    BY <1>1, <2>1, <2>2, ThreadQuiet DEF ThreadInv, ThreadType, Steps, Sent, Answering
<1>3. CASE GetToken(r) \/ NoTokenFor(r)
  <2>1. /\ pc[r] \in {"ask", "refresh", "fetch", "take"}
        /\ \E p \in {"refresh", "fetch", "take", "send", "done"} : pc' = [pc EXCEPT ![r] = p]
        /\ UNCHANGED reply
    BY <1>3 DEF GetToken, NoTokenFor, AskToken, LockRefresh, FetchToken, TakeToken, FetchFails,
                Move, workVars
  <2> QED
    BY <1>1, <2>1, ThreadQuiet DEF ThreadInv, ThreadType, Steps, Sent, Answering
<1>4. CASE Send(r)
  <2>1. PICK p \in {"done", "record"} :
          /\ pc[r] = "send" /\ pc' = [pc EXCEPT ![r] = p]
          /\ p = "record" => reply[r] # "excuse"
    BY <1>4 DEF Send, Move
  <2>2. reply' = [reply EXCEPT ![r] = "text"]
    BY <1>4 DEF Send
  <2> QED
    BY <1>1, <2>1, <2>2, ThreadQuiet DEF ThreadInv, ThreadType, Steps, Sent, Answering
<1> QED
  BY <1>2, <1>3, <1>4

(* The answer gets the clock's time, so its question is older.             *)
LEMMA ThreadRecord ==
  ASSUME ThreadInv, NEW r \in Requests, RecordReply(r)
  PROVE  ThreadInv'
<1>1. /\ pc[r] = "record" /\ pc' = [pc EXCEPT ![r] = "done"]
      /\ UNCHANGED <<posted, event, reply>>
  BY DEF RecordReply, Move, workVars
<1>2. CASE rows' = rows \cup {BotRow(r)} /\ clock' = clock + 1
  <2>1. ThreadType'
    BY <1>1, <1>2 DEF ThreadInv, ThreadType, Steps, Sent
  <2>2. \A q \in Requests : Answering(q)' => Stored(q)'
    BY <1>1, <1>2, StaysStored DEF ThreadInv, ThreadType, Steps, Sent, Answering
  <2>3. Stored(r)
    BY <1>1 DEF ThreadInv, Answering
  <2>4. BotRow(r).of = event[r] /\ BotRow(r).by = r /\ BotRow(r).at = clock
    BY DEF BotRow
  <2>5. NoAnswerWithoutMessage'
    BY <1>2, <2>3, <2>4 DEF ThreadInv, NoAnswerWithoutMessage, Stored
  <2> QED
    BY <2>1, <2>2, <2>5 DEF ThreadInv
<1>3. CASE UNCHANGED <<rows, clock>>
  BY <1>1, <1>3, ThreadQuiet DEF ThreadInv, ThreadType, Steps, Sent, Answering
<1> QED
  BY <1>2, <1>3 DEF RecordReply

LEMMA ThreadStep == ThreadInv /\ [Next]_vars => ThreadInv'
BY ThreadPeople, ThreadBefore, ThreadKeep, ThreadAnswer, ThreadRecord DEF Next, Serve

(* Whatever fails or crashes, and however deliveries overlap, the thread   *)
(* holds no answer without the message it answers.                         *)
THEOREM AnswersHaveQuestions == Spec => []NoAnswerWithoutMessage
<1>1. Init => ThreadInv
  BY DEF Init, ThreadInv, ThreadType, Steps, Sent, Answering, NoAnswerWithoutMessage
<1>2. ThreadInv => NoAnswerWithoutMessage
  BY DEF ThreadInv
<1> QED
  BY <1>1, <1>2, ThreadStep, PTL DEF Spec

-----------------------------------------------------------------------------
(* Types.  Whoever fetches a token holds the mutex, so at most one does.   *)
MutexInv ==
  /\ mutex \in Requests \cup {Nobody}
  /\ \A r \in Requests : mutex = r <=> pc[r] = "fetch"

TokenType ==
  /\ now \in 0 .. MaxTime
  /\ expiry \in {NoToken} \cup 0 .. (MaxTime + Lifetime)
  /\ MutexInv

StoreType ==
  /\ processed \in [Messages -> {Never} \cup 0 .. MaxTime]
  /\ conversation \in {"none", "saved", "lost"}
  /\ \A row \in rows : row.of \in DOMAIN posted /\ row.at \in Int /\ row.at < clock
  /\ \A r \in Requests : event[r] \in DOMAIN posted \cup {None}
  /\ \A r \in Requests : pc[r] # "idle" => event[r] \in DOMAIN posted
  /\ faults \in 0 .. MaxFaults

ChatInv == ThreadInv /\ TokenType /\ StoreType

LEMMA RequestNumbers == Requests \subseteq Nat /\ Nobody \notin Requests
<1>1. Cardinality(Requests) \in Nat
  BY ChatAssumption, FS_CardinalityType
<1> QED
  BY <1>1, ChatAssumption DEF Nobody

(* The steps of a request that have nothing to do with the token.          *)
Plain(r) ==
  \/ Deliver(r) \/ Claim(r) \/ IgnoreEmpty(r) \/ FindConversation(r) \/ KeepMessage(r)
  \/ ReadThread(r) \/ Chat(r) \/ Send(r) \/ RecordReply(r)

LEMMA PlainMoves ==
  ASSUME NEW r \in Requests, Plain(r)
  PROVE  /\ \E p \in Steps \ {"fetch", "idle"} : pc' = [pc EXCEPT ![r] = p]
         /\ pc[r] # "fetch" /\ UNCHANGED <<now, tokenVars>>
  BY DEF Plain, Deliver, Claim, IgnoreEmpty, FindConversation, KeepMessage, ReadThread, Chat,
         Send, RecordReply, Move, Excuse, Steps

LEMMA TokenMoves ==
  ASSUME NEW r \in Requests, GetToken(r) \/ NoTokenFor(r)
  PROVE  /\ \E p \in Steps \ {"idle"} : pc' = [pc EXCEPT ![r] = p]
         /\ pc[r] # "idle"
         /\ UNCHANGED <<now, threadVars, processed, rows, workVars, answers, unclaimed>>
<1>1. UNCHANGED <<now, threadVars, processed, rows, workVars, answers, unclaimed>>
  BY DEF GetToken, NoTokenFor
<1>2. CASE GetToken(r)
  BY <1>1, <1>2 DEF GetToken, AskToken, LockRefresh, FetchToken, TakeToken, Move, Steps
<1>3. CASE NoTokenFor(r)
  BY <1>1, <1>3 DEF NoTokenFor, FetchFails, Move, Steps
<1> QED
  BY <1>2, <1>3

LEMMA TokenTypeStep ==
  ASSUME ThreadInv, TokenType, [Next]_vars
  PROVE  TokenType'
<1> USE DEF TokenType
<1>1. pc \in [Requests -> Steps]
  BY DEF ThreadInv, ThreadType
<1>2. now \in Nat /\ Lifetime \in Nat
  BY TokenAssumption
<1>3. ASSUME NEW r \in Requests, Plain(r) PROVE TokenType'
  <2>1. PICK p \in Steps \ {"fetch", "idle"} : pc' = [pc EXCEPT ![r] = p]
    BY <1>3, PlainMoves
  <2>2. pc[r] # "fetch" /\ UNCHANGED <<now, expiry, mutex>>
    BY <1>3, PlainMoves DEF tokenVars
  <2> QED
    BY <1>1, <2>1, <2>2 DEF MutexInv
<1>4. ASSUME NEW r \in Requests, GetToken(r) PROVE TokenType'
  <2>1. UNCHANGED now
    BY <1>4 DEF GetToken
  <2>2. CASE AskToken(r) \/ TakeToken(r)
    <3>1. PICK p \in {"take", "refresh", "send"} : pc[r] # "fetch" /\ pc' = [pc EXCEPT ![r] = p]
      BY <2>2 DEF AskToken, TakeToken, Move
    <3>2. UNCHANGED <<expiry, mutex>>
      BY <2>2 DEF AskToken, TakeToken, tokenVars
    <3> QED
      BY <1>1, <2>1, <3>1, <3>2 DEF MutexInv
  <2>3. CASE LockRefresh(r)
    <3>1. mutex = Nobody /\ pc[r] = "refresh" /\ UNCHANGED expiry
      BY <2>3 DEF LockRefresh, Move
    <3>2. \A q \in Requests : pc[q] # "fetch"
      BY <3>1, RequestNumbers DEF MutexInv
    <3>3. CASE pc' = [pc EXCEPT ![r] = "take"] /\ mutex' = mutex
      BY <1>1, <2>1, <3>1, <3>3 DEF MutexInv
    <3>4. CASE pc' = [pc EXCEPT ![r] = "fetch"] /\ mutex' = r
      BY <1>1, <2>1, <3>1, <3>2, <3>4 DEF MutexInv
    <3> QED
      BY <2>3, <3>3, <3>4 DEF LockRefresh, Move
  <2>4. CASE FetchToken(r)
    <3>1. pc[r] = "fetch" /\ pc' = [pc EXCEPT ![r] = "take"] /\ expiry' = now + Lifetime /\ mutex' = Nobody
      BY <2>4 DEF FetchToken, Move
    <3>2. MutexInv'
      BY <1>1, <3>1, RequestNumbers DEF MutexInv
    <3> QED
      BY <1>2, <2>1, <3>1, <3>2, TokenAssumption
  <2> QED
    BY <1>4, <2>2, <2>3, <2>4 DEF GetToken
<1>5. ASSUME NEW r \in Requests, NoTokenFor(r) PROVE TokenType'
  <2>1. /\ pc[r] = "fetch" /\ pc' = [pc EXCEPT ![r] = "done"] /\ mutex' = Nobody
        /\ UNCHANGED <<now, expiry>>
    BY <1>5 DEF NoTokenFor, FetchFails, Move
  <2> QED
    BY <1>1, <2>1, RequestNumbers DEF MutexInv
<1>6. CASE Tick
  <2>1. now < MaxTime /\ now' = now + 1 /\ UNCHANGED <<pc, expiry, mutex>>
    BY <1>6 DEF Tick, tokenVars
  <2> QED
    BY <1>2, <2>1, TokenAssumption DEF MutexInv
<1>7. CASE Crash
  <2>1. /\ pc' = [r \in Requests |-> IF pc[r] \notin {"idle", "done"} THEN "done" ELSE pc[r]]
        /\ expiry' = NoToken /\ mutex' = Nobody /\ UNCHANGED now
    BY <1>7 DEF Crash
  <2>2. \A r \in Requests : pc'[r] # "fetch"
    BY <2>1
  <2> QED
    BY <2>1, <2>2, RequestNumbers DEF MutexInv
<1>8. CASE Post \/ SaveConversation \/ PurgeEvents \/ UNCHANGED vars
  <2>1. UNCHANGED <<now, pc, expiry, mutex>>
    BY <1>8 DEF Post, SaveConversation, PurgeEvents, vars, tokenVars
  <2> QED
    BY <2>1 DEF MutexInv
<1> QED
  BY <1>3, <1>4, <1>5, <1>6, <1>7, <1>8 DEF Next, Serve, Plain

LEMMA StoreTypeStep ==
  ASSUME ThreadInv, TokenType, StoreType, [Next]_vars
  PROVE  StoreType'
<1> USE DEF StoreType
<1>1. /\ pc \in [Requests -> Steps] /\ event \in [Requests -> Messages \cup {None}]
      /\ clock \in Nat /\ now \in 0 .. MaxTime
  BY DEF ThreadInv, ThreadType, TokenType
<1>2. ASSUME UNCHANGED <<processed, conversation, rows, clock, posted, event>>,
             \A r \in Requests : pc'[r] # "idle" => pc[r] # "idle",
             faults' \in {faults, faults + 1}, faults' = faults \/ faults < MaxFaults
      PROVE  StoreType'
  BY <1>2, ChatAssumption
<1>3. CASE Post
  <2> DEFINE m == Cardinality(DOMAIN posted) + 1
  <2>1. PICK parent \in {None} \cup cards, draft \in Drafts :
          /\ m \in Messages
          /\ posted' = [k \in DOMAIN posted \cup {m} |->
               IF k # m THEN posted[k]
               ELSE [time |-> now, at |-> clock, parent |-> parent, draft |-> draft]]
          /\ clock' = clock + 1
          /\ UNCHANGED <<pc, conversation, processed, rows, event, faults>>
    BY <1>3 DEF Post, workVars, tally
  <2> HIDE DEF m
  <2>2. DOMAIN posted \subseteq DOMAIN posted'
    BY <2>1
  <2>3. \A row \in rows' : row.of \in DOMAIN posted' /\ row.at \in Int /\ row.at < clock'
    BY <1>1, <2>1, <2>2
  <2> QED
    BY <2>1, <2>2, <2>3
<1>4. CASE SaveConversation
  <2>1. /\ UNCHANGED <<pc, processed, rows, clock, posted, event>>
        /\ conversation' \in {"saved", "lost"}
        /\ faults' = faults \/ (faults < MaxFaults /\ faults' = faults + 1)
    BY <1>4 DEF SaveConversation, Fault, workVars
  <2> QED
    BY <2>1, ChatAssumption
<1>5. CASE PurgeEvents
  <2>1. /\ UNCHANGED <<pc, conversation, rows, clock, posted, event, faults>>
        /\ processed' \in [Messages -> {Never} \cup 0 .. MaxTime]
    BY <1>5 DEF PurgeEvents, threadVars, workVars, tally
  <2> QED
    BY <2>1
<1>6. CASE Tick \/ UNCHANGED vars
  BY <1>2, <1>6 DEF Tick, vars, threadVars, workVars, tally
<1>7. CASE Crash
  <2>1. /\ UNCHANGED <<clock, posted, processed, rows, event>>
        /\ conversation' = IF conversation = "none" THEN "lost" ELSE conversation
        /\ faults < MaxFaults /\ faults' = faults + 1
        /\ \A r \in Requests : pc'[r] # "idle" => pc[r] # "idle"
    BY <1>7 DEF Crash, Fault
  <2> QED
    BY <2>1, ChatAssumption
<1>8. ASSUME NEW r \in Requests, Deliver(r) PROVE StoreType'
  <2>1. PICK m \in DOMAIN posted : event' = [event EXCEPT ![r] = m]
    BY <1>8 DEF Deliver
  <2>2. PICK p \in Steps : pc' = [pc EXCEPT ![r] = p]
    BY <1>8, PlainMoves DEF Plain
  <2>3. UNCHANGED <<processed, conversation, rows, clock, posted, faults>>
    BY <1>8 DEF Deliver, threadVars, tally
  <2> QED
    BY <1>1, <2>1, <2>2, <2>3
<1>9. ASSUME NEW r \in Requests,
             Claim(r) \/ IgnoreEmpty(r) \/ FindConversation(r) \/ KeepMessage(r) \/ ReadThread(r)
             \/ Chat(r) \/ GetToken(r) \/ NoTokenFor(r) \/ Send(r) \/ RecordReply(r)
      PROVE  StoreType'
  <2>1. pc[r] # "idle"
    BY <1>9, TokenMoves DEF Claim, IgnoreEmpty, FindConversation, KeepMessage, ReadThread, Chat,
                            Send, RecordReply, Move, Excuse
  <2>2. PICK p \in Steps : pc' = [pc EXCEPT ![r] = p]
    BY <1>9, PlainMoves, TokenMoves DEF Plain
  <2>3. \A q \in Requests : pc'[q] # "idle" => pc[q] # "idle"
    BY <1>1, <2>1, <2>2
  <2>4. event[r] \in DOMAIN posted /\ event[r] \in Messages
    BY <2>1 DEF ThreadInv, ThreadType
  <2>5. faults' = faults \/ (faults < MaxFaults /\ faults' = faults + 1)
    BY <1>9 DEF Claim, IgnoreEmpty, FindConversation, KeepMessage, ReadThread, Chat, GetToken,
                NoTokenFor, Send, RecordReply, Fault, tally
  <2>6. faults' \in 0 .. MaxFaults
    BY <2>5, ChatAssumption
  <2>7. CASE Claim(r)
    <3>1. UNCHANGED <<conversation, rows, clock, posted, event>>
      BY <2>7 DEF Claim, threadVars, workVars
    <3>2. processed' = processed \/ processed' = [processed EXCEPT ![event[r]] = now]
      BY <2>7 DEF Claim
    <3>3. processed' \in [Messages -> {Never} \cup 0 .. MaxTime]
      BY <1>1, <3>2
    <3> QED
      BY <2>3, <2>6, <3>1, <3>3
  <2>8. CASE KeepMessage(r)
    <3>1. UNCHANGED <<processed, conversation, clock, posted, event>>
      BY <2>8 DEF KeepMessage, threadVars
    <3>2. rows' = rows \/ rows' = rows \cup {UserRow(r)}
      BY <2>8 DEF KeepMessage
    <3>3. UserRow(r).of = event[r] /\ UserRow(r).at = posted[event[r]].at
      BY DEF UserRow
    <3>4. posted[event[r]].at \in Nat /\ posted[event[r]].at < clock
      BY <2>4 DEF ThreadInv, ThreadType
    <3>5. \A row \in rows' : row.of \in DOMAIN posted /\ row.at \in Int /\ row.at < clock
      BY <2>4, <3>2, <3>3, <3>4
    <3> QED
      BY <2>3, <2>6, <3>1, <3>5
  <2>9. CASE RecordReply(r)
    <3>1. UNCHANGED <<processed, conversation, posted, event>>
      BY <2>9 DEF RecordReply, workVars
    <3>2. \/ UNCHANGED <<rows, clock>>
          \/ rows' = rows \cup {BotRow(r)} /\ clock' = clock + 1
      BY <2>9 DEF RecordReply
    <3>3. BotRow(r).of = event[r] /\ BotRow(r).at = clock
      BY DEF BotRow
    <3>4. \A row \in rows' : row.of \in DOMAIN posted /\ row.at \in Int /\ row.at < clock'
      BY <1>1, <2>4, <3>2, <3>3
    <3> QED
      BY <2>3, <2>6, <3>1, <3>4
  <2>10. CASE \/ IgnoreEmpty(r) \/ FindConversation(r) \/ ReadThread(r)
              \/ Chat(r) \/ GetToken(r) \/ NoTokenFor(r) \/ Send(r)
    <3>1. UNCHANGED <<processed, conversation, rows, clock, posted, event>>
      BY <2>10 DEF IgnoreEmpty, FindConversation, ReadThread, Chat, GetToken, NoTokenFor, Send,
                   threadVars, workVars
    <3> QED
      BY <2>3, <2>6, <3>1
  <2> QED
    BY <1>9, <2>7, <2>8, <2>9, <2>10
<1> QED
  BY <1>3, <1>4, <1>5, <1>6, <1>7, <1>8, <1>9 DEF Next, Serve

LEMMA ChatAlways == Spec => []ChatInv
<1>1. Init => ChatInv
  <2> SUFFICES ASSUME Init PROVE ChatInv
    OBVIOUS
  <2>1. ThreadInv
    BY DEF Init, ThreadInv, ThreadType, Steps, Sent, Answering, NoAnswerWithoutMessage
  <2>2. TokenType
    BY TokenAssumption, RequestNumbers DEF Init, TokenInit, TokenType, MutexInv
  <2>3. StoreType
    BY ChatAssumption DEF Init, StoreType
  <2> QED
    BY <2>1, <2>2, <2>3 DEF ChatInv
<1>2. ChatInv /\ [Next]_vars => ChatInv'
  BY ThreadStep, TokenTypeStep, StoreTypeStep DEF ChatInv
<1> QED
  BY <1>1, <1>2, PTL DEF Spec

(* TypeOK: every variable keeps its type, no row holds a message nobody    *)
(* wrote, and the request that fetches a token is the one with the mutex.  *)
THEOREM ChatTypeCorrect == Spec => []TypeOK
<1>1. ChatInv => TypeOK
  BY DEF ChatInv, ThreadInv, ThreadType, TokenType, MutexInv, StoreType, Steps, TypeOK
<1> QED
  BY <1>1, ChatAlways, PTL

-----------------------------------------------------------------------------
(* One answer.  A message pays for its answers with the one claim it ever  *)
(* gets, which lasts beyond the purge because by then Lark has given up,   *)
(* and with the claims that failed; every request that got past its claim  *)
(* has spent that already.                                                 *)
Underway == {"find", "keep", "read", "chat", "ask", "refresh", "fetch", "take", "send"}

Flight(m) == {r \in Requests : event[r] = m /\ pc[r] \in Underway}

Late(m) == m \in DOMAIN posted /\ now - posted[m].time > RetryWindow

Budget(m) == IF processed[m] # Never \/ Late(m) THEN 1 ELSE 0

WrittenInv ==
  /\ DOMAIN posted = 1 .. Cardinality(DOMAIN posted)
  /\ \A m \in DOMAIN posted : posted[m].time \in Nat /\ posted[m].time <= now

ClaimInv ==
  /\ \A m \in Messages : processed[m] # Never =>
       m \in DOMAIN posted /\ posted[m].time <= processed[m] /\ processed[m] <= now
  /\ \A r \in Requests : pc[r] = "claim" => now - posted[event[r]].time <= RetryWindow

TallyInv ==
  /\ answers \in [Messages -> Nat] /\ unclaimed \in [Messages -> Nat]
  /\ \A m \in Messages : answers[m] + Cardinality(Flight(m)) <= unclaimed[m] + Budget(m)

OnceInv == WrittenInv /\ ClaimInv /\ TallyInv

LEMMA FlightFinite ==
  \A m : IsFiniteSet(Flight(m)) /\ Cardinality(Flight(m)) \in Nat
<1>1. \A m : Flight(m) \in SUBSET Requests
  BY DEF Flight
<1>2. \A S \in SUBSET Requests : IsFiniteSet(S) /\ Cardinality(S) \in Nat
  BY ChatAssumption, FS_Subset, FS_CardinalityType
<1> QED
  BY <1>1, <1>2

(* Nothing is answered, nobody gets past a claim, and no claim is undone.  *)
LEMMA TallyQuiet ==
  ASSUME TallyInv, UNCHANGED <<answers, unclaimed>>,
         \A m \in Messages : Flight(m)' \subseteq Flight(m),
         \A m \in Messages : Budget(m) = 1 => Budget(m)' = 1
  PROVE  TallyInv'
<1>1. ASSUME NEW m \in Messages PROVE answers'[m] + Cardinality(Flight(m)') <= unclaimed'[m] + Budget(m)'
  <2>1. /\ Cardinality(Flight(m)) \in Nat
        /\ Cardinality(Flight(m)') \in Nat /\ Cardinality(Flight(m)') <= Cardinality(Flight(m))
    <3>1. IsFiniteSet(Flight(m)) /\ Cardinality(Flight(m)) \in Nat /\ Flight(m)' \subseteq Flight(m)
      BY FlightFinite
    <3> QED
      BY <3>1, FS_Subset, FS_CardinalityType
  <2>2. Budget(m) \in {0, 1} /\ Budget(m)' \in {0, 1}
    BY DEF Budget
  <2>3. /\ answers[m] \in Nat /\ unclaimed[m] \in Nat
        /\ answers[m] + Cardinality(Flight(m)) <= unclaimed[m] + Budget(m)
    BY DEF TallyInv
  <2>4. answers'[m] = answers[m] /\ unclaimed'[m] = unclaimed[m]
    OBVIOUS
  <2>5. Budget(m) = 1 => Budget(m)' = 1
    OBVIOUS
  <2> QED
    BY <2>1, <2>2, <2>3, <2>4, <2>5
<1> QED
  BY <1>1 DEF TallyInv

(* A request at work on its message: it moves on, and does not come back   *)
(* to the claim.                                                           *)
LEMMA WorkKeeps ==
  ASSUME ChatInv, OnceInv, NEW r \in Requests, NEW p \in Steps, pc' = [pc EXCEPT ![r] = p],
         p # "claim", p \in Underway => pc[r] \in Underway,
         UNCHANGED <<now, posted, processed, event, answers, unclaimed>>
  PROVE  OnceInv'
<1>1. pc \in [Requests -> Steps]
  BY DEF ChatInv, ThreadInv, ThreadType
<1>2. pc'[r] = p /\ \A q \in Requests \ {r} : pc'[q] = pc[q]
  BY <1>1
<1>3. WrittenInv'
  BY DEF OnceInv, WrittenInv
<1>4. ClaimInv'
  BY <1>2 DEF OnceInv, ClaimInv
<1>5. \A m \in Messages : Flight(m)' \subseteq Flight(m)
  BY <1>2 DEF Flight
<1>6. \A m \in Messages : Budget(m)' = Budget(m)
  BY DEF Budget, Late
<1>7. TallyInv'
  BY <1>5, <1>6, TallyQuiet DEF OnceInv
<1> QED
  BY <1>3, <1>4, <1>7 DEF OnceInv

LEMMA ClaimKeeps ==
  ASSUME ChatInv, OnceInv, NEW r \in Requests, Claim(r)
  PROVE  OnceInv'
<1>1. PICK m \in Messages :
        /\ pc[r] = "claim" /\ pc \in [Requests -> Steps] /\ now \in Nat
        /\ m \in DOMAIN posted /\ m = event[r]
  BY TokenAssumption DEF ChatInv, ThreadInv, ThreadType, TokenType, StoreType, Claim
<1>2. UNCHANGED <<now, posted, event, answers>>
  BY DEF Claim, threadVars, workVars
<1>3. processed \in [Messages -> {Never} \cup 0 .. MaxTime]
  BY DEF ChatInv, StoreType
<1>4. now # Never /\ posted[m].time \in Nat /\ posted[m].time <= now
  BY <1>1 DEF Never, OnceInv, WrittenInv
<1>5. WrittenInv'
  BY <1>2 DEF OnceInv, WrittenInv
<1>6. CASE processed[m] # Never /\ pc' = [pc EXCEPT ![r] = "done"] /\ UNCHANGED <<processed, unclaimed>>
  BY <1>2, <1>6, WorkKeeps DEF Steps, Underway
<1>7. ASSUME pc' = [pc EXCEPT ![r] = "find"]
      PROVE  /\ \A q \in Requests : pc'[q] = "claim" => pc[q] = "claim"
             /\ Cardinality(Flight(m)') = Cardinality(Flight(m)) + 1
             /\ \A n \in Messages \ {m} : Flight(n)' = Flight(n)
  <2>1. pc'[r] = "find" /\ \A q \in Requests \ {r} : pc'[q] = pc[q]
    BY <1>1, <1>7
  <2>2. Flight(m)' = Flight(m) \cup {r} /\ r \notin Flight(m)
    BY <1>1, <1>2, <2>1 DEF Flight, Underway
  <2>3. Cardinality(Flight(m) \cup {r}) = Cardinality(Flight(m)) + 1
    BY <2>2, FlightFinite, FS_AddElement
  <2>4. \A n \in Messages \ {m} : Flight(n)' = Flight(n)
    BY <1>1, <1>2, <2>1 DEF Flight, Underway
  <2> QED
    BY <1>1, <2>1, <2>2, <2>3, <2>4
<1>8. CASE /\ processed[m] = Never /\ pc' = [pc EXCEPT ![r] = "find"]
           /\ processed' = [processed EXCEPT ![m] = now] /\ UNCHANGED unclaimed
  <2>1. processed'[m] = now /\ \A n \in Messages \ {m} : processed'[n] = processed[n]
    BY <1>1, <1>3, <1>8
  <2>2. ClaimInv'
    BY <1>1, <1>2, <1>4, <1>7, <1>8, <2>1 DEF OnceInv, ClaimInv
  <2>3. ~ Late(m)
    <3>1. now - posted[m].time <= RetryWindow
      BY <1>1 DEF OnceInv, ClaimInv
    <3> QED
      BY <1>1, <1>4, <3>1, ChatAssumption DEF Late
  <2>4. Budget(m) = 0 /\ Budget(m)' = 1
    BY <1>4, <1>8, <2>1, <2>3 DEF Budget
  <2>5. \A n \in Messages \ {m} : Budget(n)' = Budget(n)
    BY <1>2, <2>1 DEF Budget, Late
  <2>6. ASSUME NEW n \in Messages
        PROVE  answers'[n] + Cardinality(Flight(n)') <= unclaimed'[n] + Budget(n)'
    <3>1. /\ answers[n] \in Nat /\ unclaimed[n] \in Nat /\ Cardinality(Flight(n)) \in Nat
          /\ answers[n] + Cardinality(Flight(n)) <= unclaimed[n] + Budget(n)
      BY FlightFinite DEF OnceInv, TallyInv
    <3>2. answers'[n] = answers[n] /\ unclaimed'[n] = unclaimed[n]
      BY <1>2, <1>8
    <3>3. CASE n = m
      <4>1. Cardinality(Flight(n)') = Cardinality(Flight(n)) + 1
        BY <1>7, <1>8, <3>3
      <4>2. Budget(n) = 0 /\ Budget(n)' = 1
        BY <2>4, <3>3
      <4> QED
        BY <3>1, <3>2, <4>1, <4>2
    <3>4. CASE n # m
      BY <1>7, <1>8, <2>5, <3>1, <3>2, <3>4
    <3> QED
      BY <3>3, <3>4
  <2>7. TallyInv'
    BY <1>2, <1>8, <2>6 DEF OnceInv, TallyInv
  <2> QED
    BY <1>5, <2>2, <2>7 DEF OnceInv
<1>9. CASE /\ pc' = [pc EXCEPT ![r] = "find"] /\ UNCHANGED processed
           /\ unclaimed' = [unclaimed EXCEPT ![m] = @ + 1]
  <2>1. ClaimInv'
    BY <1>2, <1>7, <1>9 DEF OnceInv, ClaimInv
  <2>2. \A n \in Messages : Budget(n)' = Budget(n) /\ Budget(n) \in {0, 1}
    BY <1>2, <1>9 DEF Budget, Late
  <2>3. unclaimed \in [Messages -> Nat]
    BY DEF OnceInv, TallyInv
  <2>4. /\ unclaimed' \in [Messages -> Nat] /\ unclaimed'[m] = unclaimed[m] + 1
        /\ \A n \in Messages \ {m} : unclaimed'[n] = unclaimed[n]
    BY <1>1, <1>9, <2>3
  <2>5. ASSUME NEW n \in Messages
        PROVE  answers'[n] + Cardinality(Flight(n)') <= unclaimed'[n] + Budget(n)'
    <3>1. /\ answers[n] \in Nat /\ unclaimed[n] \in Nat /\ Cardinality(Flight(n)) \in Nat
          /\ answers[n] + Cardinality(Flight(n)) <= unclaimed[n] + Budget(n)
      BY FlightFinite DEF OnceInv, TallyInv
    <3>2. answers'[n] = answers[n] /\ Budget(n)' = Budget(n) /\ Budget(n) \in {0, 1}
      BY <1>2, <2>2
    <3>3. CASE n = m
      <4>1. Cardinality(Flight(n)') = Cardinality(Flight(n)) + 1 /\ unclaimed'[n] = unclaimed[n] + 1
        BY <1>7, <1>9, <2>4, <3>3
      <4> QED
        BY <3>1, <3>2, <4>1
    <3>4. CASE n # m
      <4>1. Flight(n)' = Flight(n) /\ unclaimed'[n] = unclaimed[n]
        BY <1>7, <1>9, <2>4, <3>4
      <4> QED
        BY <3>1, <3>2, <4>1
    <3> QED
      BY <3>3, <3>4
  <2>6. TallyInv'
    BY <1>2, <2>4, <2>5 DEF OnceInv, TallyInv
  <2> QED
    BY <1>5, <2>1, <2>6 DEF OnceInv
<1> QED
  BY <1>1, <1>6, <1>8, <1>9 DEF Claim, Move

(* A message is written under the next number; nothing is claimed of it.   *)
LEMMA PostKeeps ==
  ASSUME ChatInv, OnceInv, Post
  PROVE  OnceInv'
<1> DEFINE D == DOMAIN posted
           m == Cardinality(D) + 1
<1>1. PICK parent \in {None} \cup cards, draft \in Drafts :
        posted' = [k \in D \cup {m} |->
             IF k # m THEN posted[k]
             ELSE [time |-> now, at |-> clock, parent |-> parent, draft |-> draft]]
  BY DEF Post
<1>2. UNCHANGED <<now, pc, processed, event, answers, unclaimed>>
  BY DEF Post, workVars, tally
<1>3. IsFiniteSet(D) /\ Cardinality(D) \in Nat
  BY ChatAssumption, FS_Subset, FS_CardinalityType DEF ChatInv, ThreadInv, ThreadType
<1>4. D = 1 .. Cardinality(D)
  BY DEF OnceInv, WrittenInv
<1>5. m \notin D
  BY <1>3, <1>4
<1>6. Cardinality(D \cup {m}) = m /\ D \cup {m} = 1 .. m
  <2>1. Cardinality(D \cup {m}) = Cardinality(D) + 1
    BY <1>3, <1>5, FS_AddElement
  <2>2. ASSUME NEW c \in Nat PROVE (1 .. c) \cup {c + 1} = 1 .. (c + 1)
    OBVIOUS
  <2>3. D \cup {m} = (1 .. Cardinality(D)) \cup {Cardinality(D) + 1}
    BY <1>4
  <2> QED
    BY <1>3, <2>1, <2>2, <2>3
<1>7. now \in Nat /\ pc \in [Requests -> Steps]
  BY TokenAssumption DEF ChatInv, TokenType, ThreadInv, ThreadType
<1>8. \A k \in D : k \in DOMAIN posted' /\ posted'[k] = posted[k]
  BY <1>1, <1>5
<1>9. DOMAIN posted' = D \cup {m} /\ posted'[m].time = now
  BY <1>1
<1>10. \A k \in D : posted[k].time \in Nat /\ posted[k].time <= now
  BY DEF OnceInv, WrittenInv
<1>11. \A n \in Messages : processed[n] # Never =>
         n \in D /\ posted[n].time <= processed[n] /\ processed[n] <= now
  BY DEF OnceInv, ClaimInv
<1>12. \A r \in Requests : pc[r] = "claim" =>
         event[r] \in D /\ now - posted[event[r]].time <= RetryWindow
  BY DEF ChatInv, StoreType, OnceInv, ClaimInv
<1>13. \A n \in Messages : Late(n) => Late(n)'
  BY <1>2, <1>8 DEF Late
<1> HIDE DEF m, D
<1>14. WrittenInv'
  <2>1. DOMAIN posted' = 1 .. Cardinality(DOMAIN posted')
    BY <1>6, <1>9
  <2>2. \A k \in DOMAIN posted' : posted'[k].time \in Nat /\ posted'[k].time <= now'
    BY <1>2, <1>7, <1>8, <1>9, <1>10
  <2> QED
    BY <2>1, <2>2 DEF WrittenInv
<1>15. ClaimInv'
  BY <1>2, <1>8, <1>11, <1>12 DEF ClaimInv
<1>16. TallyInv'
  <2>1. \A n \in Messages : Flight(n)' \subseteq Flight(n)
    BY <1>2 DEF Flight
  <2>2. \A n \in Messages : Budget(n) = 1 => Budget(n)' = 1
    BY <1>2, <1>13 DEF Budget
  <2> QED
    BY <1>2, <2>1, <2>2, TallyQuiet DEF OnceInv
<1> QED
  BY <1>14, <1>15, <1>16 DEF OnceInv

(* Time only makes a message late, and the purge takes what is late.       *)
LEMMA TimeKeeps ==
  ASSUME ChatInv, OnceInv, Tick \/ PurgeEvents
  PROVE  OnceInv'
<1>1. /\ UNCHANGED <<pc, posted, event, answers, unclaimed>>
      /\ now \in Nat /\ (now' = now \/ now' = now + 1)
  BY TokenAssumption DEF Tick, PurgeEvents, threadVars, workVars, tally, ChatInv, TokenType
<1>2. /\ \A m \in DOMAIN posted : posted[m].time \in Nat /\ posted[m].time <= now
      /\ DOMAIN posted = 1 .. Cardinality(DOMAIN posted)
  BY DEF OnceInv, WrittenInv
<1>3. WrittenInv'
  BY <1>1, <1>2 DEF WrittenInv
<1>4. \A m \in Messages : Late(m) => Late(m)'
  BY <1>1, <1>2, ChatAssumption DEF Late
<1>5. \A m \in Messages : Flight(m)' \subseteq Flight(m)
  BY <1>1 DEF Flight
<1>6. \A m \in Messages : processed[m] \in Int
  BY TokenAssumption DEF ChatInv, StoreType, Never
<1>7. \A m \in Messages : processed[m] # Never =>
         m \in DOMAIN posted /\ posted[m].time <= processed[m] /\ processed[m] <= now
  BY DEF OnceInv, ClaimInv
<1>8. CASE Tick
  <2>1. processed' = processed /\ \A r \in Requests : pc'[r] # "claim"
    BY <1>1, <1>8 DEF Tick
  <2>2. ClaimInv'
    BY <1>1, <1>6, <1>7, <2>1 DEF ClaimInv
  <2>3. \A m \in Messages : Budget(m) = 1 => Budget(m)' = 1
    BY <1>4, <2>1 DEF Budget
  <2> QED
    BY <1>1, <1>3, <1>5, <2>2, <2>3, TallyQuiet DEF OnceInv
<1>9. CASE PurgeEvents
  <2> DEFINE old == {m \in Messages : processed[m] # Never /\ processed[m] < now - PurgeAge}
  <2>1. now' = now /\ processed' = [m \in Messages |-> IF m \in old THEN Never ELSE processed[m]]
    BY <1>9 DEF PurgeEvents
  <2>2. \A m \in Messages : processed'[m] # Never => processed'[m] = processed[m]
    BY <2>1
  <2>3. ClaimInv'
    BY <1>1, <1>7, <2>1, <2>2 DEF OnceInv, ClaimInv
  <2>4. \A m \in old : Late(m)
    BY <1>1, <1>2, <1>6, <1>7, ChatAssumption DEF Late
  <2>5. \A m \in Messages : processed[m] # Never => processed'[m] # Never \/ Late(m)'
    BY <1>4, <2>1, <2>4
  <2>6. \A m \in Messages : Budget(m) = 1 => Budget(m)' = 1
    BY <1>4, <2>5 DEF Budget
  <2> QED
    BY <1>1, <1>3, <1>5, <2>3, <2>6, TallyQuiet DEF OnceInv
<1> QED
  BY <1>8, <1>9

(* A crash ends every request, and saving the row of the card is nothing   *)
(* to the messages.                                                        *)
LEMMA EndKeeps ==
  ASSUME ChatInv, OnceInv, Crash \/ SaveConversation \/ UNCHANGED vars
  PROVE  OnceInv'
<1>1. UNCHANGED <<now, posted, processed, event, answers, unclaimed>>
  BY DEF Crash, SaveConversation, vars, threadVars, workVars, tally
<1>2. \A r \in Requests : pc'[r] = pc[r] \/ pc'[r] \notin Underway \cup {"claim"}
  BY DEF Crash, SaveConversation, vars, Underway
<1>3. WrittenInv'
  BY <1>1 DEF OnceInv, WrittenInv
<1>4. ClaimInv'
  BY <1>1, <1>2 DEF OnceInv, ClaimInv
<1>5. \A m \in Messages : Flight(m)' \subseteq Flight(m)
  BY <1>1, <1>2 DEF Flight
<1>6. \A m \in Messages : Budget(m)' = Budget(m)
  BY <1>1 DEF Budget, Late
<1> QED
  BY <1>1, <1>3, <1>4, <1>5, <1>6, TallyQuiet DEF OnceInv

(* Lark delivers only within its window, so what is late is not claimed.   *)
LEMMA DeliverKeeps ==
  ASSUME ChatInv, OnceInv, NEW r \in Requests, Deliver(r)
  PROVE  OnceInv'
<1>1. PICK m \in DOMAIN posted :
        /\ now - posted[m].time <= RetryWindow
        /\ pc' = [pc EXCEPT ![r] = IF ForBot(posted[m].draft) THEN "claim" ELSE "done"]
        /\ event' = [event EXCEPT ![r] = m]
  BY DEF Deliver, Move
<1>2. PICK p \in {"claim", "done"} : pc' = [pc EXCEPT ![r] = p]
  BY <1>1
<1>3. UNCHANGED <<now, posted, processed, answers, unclaimed>>
  BY DEF Deliver, threadVars, tally
<1>4. pc \in [Requests -> Steps] /\ event \in [Requests -> Messages \cup {None}]
  BY DEF ChatInv, ThreadInv, ThreadType
<1>5. /\ pc'[r] \in {"claim", "done"} /\ event'[r] = m
      /\ \A q \in Requests \ {r} : pc'[q] = pc[q] /\ event'[q] = event[q]
  BY <1>1, <1>2, <1>4
<1>6. WrittenInv'
  BY <1>3 DEF OnceInv, WrittenInv
<1>7. ClaimInv'
  <2>1. \A q \in Requests : pc'[q] = "claim" => now - posted[event'[q]].time <= RetryWindow
    BY <1>1, <1>5 DEF OnceInv, ClaimInv
  <2> QED
    BY <1>3, <2>1 DEF OnceInv, ClaimInv
<1>8. \A n \in Messages : Flight(n)' \subseteq Flight(n)
  BY <1>5 DEF Flight, Underway
<1>9. \A n \in Messages : Budget(n)' = Budget(n)
  BY <1>3 DEF Budget, Late
<1> QED
  BY <1>3, <1>6, <1>7, <1>8, <1>9, TallyQuiet DEF OnceInv

(* The request that answers a message is done with it.                     *)
LEMMA SendKeeps ==
  ASSUME ChatInv, OnceInv, NEW r \in Requests, Send(r)
  PROVE  OnceInv'
<1>1. PICK p \in {"done", "record"} : pc[r] = "send" /\ pc' = [pc EXCEPT ![r] = p]
  BY DEF Send, Move
<1>2. UNCHANGED <<now, posted, processed, event, unclaimed>>
  BY DEF Send
<1>3. CASE answers' = answers
  BY <1>1, <1>2, <1>3, WorkKeeps DEF Steps, Underway
<1>4. CASE answers' = [answers EXCEPT ![event[r]] = @ + 1]
  <2>1. PICK m \in Messages : m = event[r]
    BY <1>1 DEF ChatInv, ThreadInv, ThreadType, StoreType
  <2>2. pc \in [Requests -> Steps] /\ answers \in [Messages -> Nat]
    BY DEF ChatInv, ThreadInv, ThreadType, OnceInv, TallyInv
  <2>3. pc'[r] = p /\ \A q \in Requests \ {r} : pc'[q] = pc[q]
    BY <1>1, <2>2
  <2>4. WrittenInv' /\ ClaimInv'
    <3>1. \A q \in Requests : pc'[q] = "claim" => pc[q] = "claim"
      BY <1>1, <2>3
    <3> QED
      BY <1>2, <3>1 DEF OnceInv, WrittenInv, ClaimInv
  <2>5. Flight(m)' = Flight(m) \ {r} /\ r \in Flight(m)
    BY <1>1, <1>2, <2>1, <2>3 DEF Flight, Underway
  <2>6. Cardinality(Flight(m)') = Cardinality(Flight(m)) - 1
    BY <2>5, FlightFinite, FS_RemoveElement
  <2>7. \A n \in Messages \ {m} : Flight(n)' = Flight(n)
    BY <1>1, <1>2, <2>1, <2>3 DEF Flight, Underway
  <2>8. \A n \in Messages : Budget(n)' = Budget(n) /\ Budget(n) \in {0, 1}
    BY <1>2 DEF Budget, Late
  <2>9. /\ answers' \in [Messages -> Nat] /\ answers'[m] = answers[m] + 1
        /\ \A n \in Messages \ {m} : answers'[n] = answers[n]
    BY <1>4, <2>1, <2>2
  <2>10. ASSUME NEW n \in Messages
         PROVE  answers'[n] + Cardinality(Flight(n)') <= unclaimed'[n] + Budget(n)'
    <3>1. /\ answers[n] \in Nat /\ unclaimed[n] \in Nat /\ Cardinality(Flight(n)) \in Nat
          /\ answers[n] + Cardinality(Flight(n)) <= unclaimed[n] + Budget(n)
      BY FlightFinite DEF OnceInv, TallyInv
    <3>2. unclaimed'[n] = unclaimed[n] /\ Budget(n)' = Budget(n) /\ Budget(n) \in {0, 1}
      BY <1>2, <2>8
    <3>3. CASE n = m
      <4>1. Cardinality(Flight(n)') = Cardinality(Flight(n)) - 1 /\ answers'[n] = answers[n] + 1
        BY <2>6, <2>9, <3>3
      <4> QED
        BY <3>1, <3>2, <4>1
    <3>4. CASE n # m
      <4>1. Flight(n)' = Flight(n) /\ answers'[n] = answers[n]
        BY <2>7, <2>9, <3>4
      <4> QED
        BY <3>1, <3>2, <4>1
    <3> QED
      BY <3>3, <3>4
  <2>11. TallyInv'
    BY <1>2, <2>9, <2>10 DEF OnceInv, TallyInv
  <2> QED
    BY <2>4, <2>11 DEF OnceInv
<1> QED
  BY <1>3, <1>4 DEF Send

(* Every other step of a request only moves it along.                      *)
LEMMA MovesKeep ==
  ASSUME ChatInv, OnceInv, NEW r \in Requests,
         IgnoreEmpty(r) \/ FindConversation(r) \/ KeepMessage(r) \/ ReadThread(r) \/ Chat(r)
         \/ GetToken(r) \/ NoTokenFor(r) \/ RecordReply(r)
  PROVE  OnceInv'
<1>1. UNCHANGED <<now, posted, processed, event, answers, unclaimed>>
  BY DEF IgnoreEmpty, FindConversation, KeepMessage, ReadThread, Chat, GetToken, NoTokenFor,
         RecordReply, threadVars, workVars, tally
<1>2. CASE RecordReply(r)
  BY <1>1, <1>2, WorkKeeps DEF RecordReply, Move, Steps, Underway
<1>3. CASE \/ IgnoreEmpty(r) \/ FindConversation(r) \/ KeepMessage(r) \/ ReadThread(r) \/ Chat(r)
           \/ GetToken(r) \/ NoTokenFor(r)
  <2>1. pc[r] \in Underway
    BY <1>3 DEF IgnoreEmpty, FindConversation, KeepMessage, ReadThread, Chat, GetToken, NoTokenFor,
                AskToken, LockRefresh, FetchToken, TakeToken, FetchFails, Move, Excuse, Underway
  <2>2. PICK p \in Underway \cup {"done"} : pc' = [pc EXCEPT ![r] = p]
    BY <1>3 DEF IgnoreEmpty, FindConversation, KeepMessage, ReadThread, Chat, GetToken, NoTokenFor,
                AskToken, LockRefresh, FetchToken, TakeToken, FetchFails, Move, Excuse, Underway
  <2>3. p \in Steps /\ p # "claim"
    BY DEF Steps, Underway
  <2> QED
    BY <1>1, <2>1, <2>2, <2>3, WorkKeeps
<1> QED
  BY <1>2, <1>3

LEMMA OnceInitially == Init => OnceInv
<1> SUFFICES ASSUME Init PROVE OnceInv
  OBVIOUS
<1>1. DOMAIN posted = {} /\ processed = [m \in Messages |-> Never] /\ pc = [r \in Requests |-> "idle"]
  BY DEF Init
<1>2. WrittenInv
  BY <1>1, FS_EmptySet DEF WrittenInv
<1>3. ClaimInv
  BY <1>1 DEF ClaimInv
<1>4. TallyInv
  <2>1. answers = [m \in Messages |-> 0] /\ unclaimed = [m \in Messages |-> 0]
    BY DEF Init
  <2>2. \A m \in Messages : Cardinality(Flight(m)) = 0
    <3>1. \A m \in Messages : Flight(m) = {}
      BY <1>1 DEF Flight, Underway
    <3> QED
      BY <3>1, FS_EmptySet
  <2>3. \A m \in Messages : Budget(m) \in {0, 1}
    BY DEF Budget
  <2> QED
    BY <2>1, <2>2, <2>3 DEF TallyInv
<1> QED
  BY <1>2, <1>3, <1>4 DEF OnceInv

LEMMA OnceStep == ChatInv /\ OnceInv /\ [Next]_vars => OnceInv'
BY PostKeeps, TimeKeeps, EndKeeps, DeliverKeeps, ClaimKeeps, SendKeeps, MovesKeep DEF Next, Serve

(* A message is answered at most once, plus once for every claim that      *)
(* failed, however Lark repeats it, requests overlap or the process dies.  *)
THEOREM OneAnswer == Spec => []AnsweredOnce
<1>1. OnceInv => AnsweredOnce
  <2> SUFFICES ASSUME OnceInv, NEW m \in Messages PROVE answers[m] <= 1 + unclaimed[m]
    BY DEF AnsweredOnce
  <2>1. /\ answers[m] \in Nat /\ unclaimed[m] \in Nat /\ Cardinality(Flight(m)) \in Nat
        /\ answers[m] + Cardinality(Flight(m)) <= unclaimed[m] + Budget(m)
    BY FlightFinite DEF OnceInv, TallyInv
  <2>2. Budget(m) \in {0, 1}
    BY DEF Budget
  <2> QED
    BY <2>1, <2>2
<1> QED
  BY <1>1, OnceInitially, OnceStep, ChatAlways, PTL DEF Spec

-----------------------------------------------------------------------------
(* The safety half of ClaimedIsAnswered.  A claimed message is answered,   *)
(* or excused by a fault or by having no words, or a goroutine that is     *)
(* past its claim has it in hand: nothing that interleaves makes it drop   *)
(* out of the handler of internal/notifier/events.go unnoticed.  What      *)
(* remains to liveness is that this goroutine comes to its end.            *)
InHand(m) == \E r \in Requests : event[r] = m /\ pc[r] \in Underway

NothingDropped ==
  \A m \in Messages : processed[m] # Never =>
    answers[m] > 0 \/ m \in broken \/ Empty(m) \/ InHand(m)

LEMMA OnceAlways == Spec => [](ChatInv /\ OnceInv)
<1>1. Spec => []OnceInv
  BY OnceInitially, OnceStep, ChatAlways, PTL DEF Spec
<1> QED
  BY <1>1, ChatAlways, PTL

(* What a step must not do: take away an answer, an excuse, or the         *)
(* goroutine without leaving one of them.                                  *)
LEMMA DropsNothing ==
  ASSUME NothingDropped,
         \A m \in Messages : processed'[m] # Never =>
           \/ processed[m] # Never
           \/ InHand(m)',
         \A m \in Messages : answers[m] > 0 => answers'[m] > 0,
         broken \subseteq broken',
         \A m \in Messages : Empty(m) => Empty(m)',
         \A m \in Messages, r \in Requests : event[r] = m /\ pc[r] \in Underway =>
           \/ event'[r] = m /\ pc'[r] \in Underway
           \/ answers'[m] > 0 \/ m \in broken' \/ Empty(m)'
  PROVE  NothingDropped'
<1> SUFFICES ASSUME NEW m \in Messages, processed'[m] # Never
             PROVE  answers'[m] > 0 \/ m \in broken' \/ Empty(m)' \/ InHand(m)'
  BY DEF NothingDropped
<1>1. CASE InHand(m)'
  BY <1>1
<1>2. CASE processed[m] # Never
  <2>1. answers[m] > 0 \/ m \in broken \/ Empty(m) \/ InHand(m)
    BY <1>2 DEF NothingDropped
  <2>2. ASSUME NEW r \in Requests, event[r] = m, pc[r] \in Underway
        PROVE  answers'[m] > 0 \/ m \in broken' \/ Empty(m)' \/ InHand(m)'
    <3>1. \/ event'[r] = m /\ pc'[r] \in Underway
          \/ answers'[m] > 0 \/ m \in broken' \/ Empty(m)'
      BY <2>2
    <3> QED
      BY <2>2, <3>1 DEF InHand
  <2> QED
    BY <2>1, <2>2 DEF InHand
<1> QED
  BY <1>1, <1>2

(* A request in hand moves on, or leaves a trace.                          *)
LEMMA WorkDropsNothing ==
  ASSUME ChatInv, OnceInv, NothingDropped, NEW r \in Requests,
         IgnoreEmpty(r) \/ FindConversation(r) \/ KeepMessage(r) \/ ReadThread(r) \/ Chat(r)
         \/ GetToken(r) \/ NoTokenFor(r) \/ RecordReply(r)
  PROVE  NothingDropped'
<1>1. UNCHANGED <<posted, processed, event, answers>>
  BY DEF IgnoreEmpty, FindConversation, KeepMessage, ReadThread, Chat, GetToken, NoTokenFor,
         RecordReply, threadVars, workVars, tally
<1>2. pc \in [Requests -> Steps]
  BY DEF ChatInv, ThreadInv, ThreadType
<1>3. broken \subseteq broken'
  BY DEF IgnoreEmpty, FindConversation, KeepMessage, ReadThread, Chat, GetToken, NoTokenFor,
         RecordReply, tally, Break
<1>4. \A m : Empty(m) <=> Empty(m)'
  BY <1>1 DEF Empty
<1>5. \A q \in Requests \ {r} : pc'[q] = pc[q]
  BY <1>2 DEF IgnoreEmpty, FindConversation, KeepMessage, ReadThread, Chat, GetToken, NoTokenFor,
              RecordReply, AskToken, LockRefresh, FetchToken, TakeToken, FetchFails, Move, Excuse
<1>6. pc[r] \in Underway => pc'[r] \in Underway \/ event[r] \in broken' \/ Empty(event[r])
  <2>1. CASE FindConversation(r) \/ KeepMessage(r) \/ ReadThread(r) \/ Chat(r)
    BY <1>2, <2>1 DEF FindConversation, KeepMessage, ReadThread, Chat, Move, Excuse, Break, Underway
  <2>2. CASE GetToken(r) \/ NoTokenFor(r)
    BY <1>2, <2>2 DEF GetToken, NoTokenFor, AskToken, LockRefresh, FetchToken, TakeToken,
                      FetchFails, Move, Break, Underway
  <2>3. CASE IgnoreEmpty(r)
    BY <2>3 DEF IgnoreEmpty
  <2>4. CASE RecordReply(r)
    BY <2>4 DEF RecordReply, Move, Underway
  <2> QED
    BY <2>1, <2>2, <2>3, <2>4
<1> QED
  BY <1>1, <1>3, <1>4, <1>5, <1>6, DropsNothing

LEMMA SendDropsNothing ==
  ASSUME ChatInv, OnceInv, NothingDropped, NEW r \in Requests, Send(r)
  PROVE  NothingDropped'
<1>1. UNCHANGED <<posted, processed, event>>
  BY DEF Send
<1>2. pc \in [Requests -> Steps] /\ answers \in [Messages -> Nat]
  BY DEF ChatInv, ThreadInv, ThreadType, OnceInv, TallyInv
<1>3. broken \subseteq broken' /\ \A q \in Requests \ {r} : pc'[q] = pc[q]
  BY <1>2 DEF Send, Break, Move
<1>4. \A m : Empty(m) <=> Empty(m)'
  BY <1>1 DEF Empty
<1>5. \A m \in Messages : answers[m] > 0 => answers'[m] > 0
  BY <1>2 DEF Send
<1>6. \A m \in Messages : event[r] = m => answers'[m] > 0 \/ m \in broken'
  BY <1>2 DEF Send, Break
<1> QED
  BY <1>1, <1>3, <1>4, <1>5, <1>6, DropsNothing

LEMMA ClaimDropsNothing ==
  ASSUME ChatInv, OnceInv, NothingDropped, NEW r \in Requests, Claim(r)
  PROVE  NothingDropped'
<1>1. UNCHANGED <<posted, event, answers, broken>>
  BY DEF Claim, threadVars, workVars
<1>2. /\ pc \in [Requests -> Steps] /\ pc[r] = "claim"
      /\ processed \in [Messages -> {Never} \cup 0 .. MaxTime]
  BY DEF ChatInv, ThreadInv, ThreadType, StoreType, Claim
<1>3. \A q \in Requests \ {r} : pc'[q] = pc[q]
  BY <1>2 DEF Claim, Move
<1>4. \A m : Empty(m) <=> Empty(m)'
  BY <1>1 DEF Empty
<1>5. pc[r] \notin Underway
  BY <1>2 DEF Underway
<1>6. ASSUME NEW m \in Messages, processed'[m] # Never PROVE processed[m] # Never \/ InHand(m)'
  <2>1. \/ UNCHANGED processed
        \/ /\ processed' = [processed EXCEPT ![event[r]] = now]
           /\ pc' = [pc EXCEPT ![r] = "find"]
    BY DEF Claim, Move
  <2>2. CASE m = event[r] /\ pc' = [pc EXCEPT ![r] = "find"]
    BY <1>1, <1>2, <2>2 DEF InHand, Underway
  <2>3. CASE m # event[r]
    BY <1>2, <1>6, <2>1, <2>3
  <2>4. CASE UNCHANGED processed
    BY <1>6, <2>4
  <2> QED
    BY <2>1, <2>2, <2>3, <2>4
<1> QED
  BY <1>1, <1>3, <1>4, <1>5, <1>6, DropsNothing

(* The steps of people, of Lark, of time and of the end of the process.    *)
LEMMA OthersDropNothing ==
  ASSUME ChatInv, OnceInv, NothingDropped,
         \/ \E r \in Requests : Deliver(r)
         \/ Post \/ SaveConversation \/ PurgeEvents \/ Tick \/ Crash \/ UNCHANGED vars
  PROVE  NothingDropped'
<1>1. /\ pc \in [Requests -> Steps] /\ event \in [Requests -> Messages \cup {None}]
      /\ processed \in [Messages -> {Never} \cup 0 .. MaxTime]
  BY DEF ChatInv, ThreadInv, ThreadType, StoreType
<1>2. UNCHANGED answers
  BY DEF Deliver, Post, SaveConversation, PurgeEvents, Tick, Crash, vars, tally
<1>3. broken \subseteq broken'
  BY DEF Deliver, Post, SaveConversation, PurgeEvents, Tick, Crash, vars, tally
<1>4. \A m \in Messages : processed'[m] # Never => processed[m] # Never
  BY <1>1 DEF Deliver, Post, SaveConversation, PurgeEvents, Tick, Crash, vars
<1>5. \A m \in Messages : Empty(m) => Empty(m)'
  <2>1. CASE Post
    <3> DEFINE n == Cardinality(DOMAIN posted) + 1
    <3>1. n \notin DOMAIN posted
      <4>1. DOMAIN posted = 1 .. Cardinality(DOMAIN posted)
        BY DEF OnceInv, WrittenInv
      <4>2. Cardinality(DOMAIN posted) \in Nat
        BY ChatAssumption, FS_Subset, FS_CardinalityType DEF ChatInv, ThreadInv, ThreadType
      <4> QED
        BY <4>1, <4>2
    <3>2. PICK parent \in {None} \cup cards, draft \in Drafts :
            posted' = [k \in DOMAIN posted \cup {n} |->
                 IF k # n THEN posted[k]
                 ELSE [time |-> now, at |-> clock, parent |-> parent, draft |-> draft]]
      BY <2>1 DEF Post
    <3> HIDE DEF n
    <3>3. \A k \in DOMAIN posted : k \in DOMAIN posted' /\ posted'[k] = posted[k]
      BY <3>1, <3>2
    <3> QED
      BY <3>3 DEF Empty
  <2>2. CASE UNCHANGED posted
    BY <2>2 DEF Empty
  <2> QED
    BY <2>1, <2>2 DEF Deliver, SaveConversation, PurgeEvents, Tick, Crash, vars, threadVars
<1>6. ASSUME NEW r \in Requests, pc[r] \in Underway
      PROVE  (event'[r] = event[r] /\ pc'[r] \in Underway) \/ event[r] \in broken'
  <2>1. CASE \E q \in Requests : Deliver(q)
    <3>1. PICK q \in Requests : Deliver(q)
      BY <2>1
    <3>2. pc[q] = "idle" /\ pc[r] # "idle"
      BY <1>6, <3>1 DEF Deliver, Move, Underway
    <3>3. pc'[r] = pc[r] /\ event'[r] = event[r]
      BY <1>1, <3>1, <3>2 DEF Deliver, Move
    <3> QED
      BY <1>6, <3>3
  <2>2. CASE Crash
    <3>1. pc[r] \notin {"idle", "done", "claim", "record"}
      BY <1>6 DEF Underway
    <3> QED
      BY <2>2, <3>1 DEF Crash
  <2>3. CASE Post \/ SaveConversation \/ PurgeEvents \/ Tick \/ UNCHANGED vars
    BY <1>6, <2>3 DEF Post, SaveConversation, PurgeEvents, Tick, vars, workVars
  <2> QED
    BY <2>1, <2>2, <2>3
<1> QED
  BY <1>2, <1>3, <1>4, <1>5, <1>6, DropsNothing

LEMMA DropStep == ChatInv /\ OnceInv /\ NothingDropped /\ [Next]_vars => NothingDropped'
BY WorkDropsNothing, SendDropsNothing, ClaimDropsNothing, OthersDropNothing DEF Next, Serve

(* However deliveries, failures, purges and restarts interleave, a claimed *)
(* message that is neither answered nor excused has a goroutine at work on *)
(* it: Lark was told 200 and nothing else would bring the message back.    *)
THEOREM ClaimedIsInHand == Spec => []NothingDropped
<1>1. Init => NothingDropped
  BY DEF Init, NothingDropped
<1> QED
  BY <1>1, OnceAlways, DropStep, PTL DEF Spec

-----------------------------------------------------------------------------
(* What the model is shown.  First, finitely many rows can be put in the   *)
(* order of their times: the oldest, then the others.                      *)
LEMMA NatLeast ==
  ASSUME NEW T \in SUBSET Nat, T # {}
  PROVE  \E n \in T : \A m \in T : n <= m
<1>1. PICK n \in T : \A m \in T : ~ (<<m, n>> \in OpToRel(<, Nat))
  BY NatLessThanWellFounded, WFMin
<1>2. ASSUME NEW m \in T PROVE n <= m
  <2>1. ~ (m < n)
    BY <1>1 DEF OpToRel
  <2> QED
    BY <2>1
<1> QED
  BY <1>2

Ordered(s, n, S) ==
  /\ s \in [1..n -> S]
  /\ ToSet(s) = S
  /\ \A i, j \in DOMAIN s : i < j => s[i].at <= s[j].at

Timed(S) == IsFiniteSet(S) /\ \A row \in S : row.at \in Nat

LEMMA OldestExists ==
  ASSUME NEW S, Timed(S), S # {} PROVE \E x \in S : \A y \in S : x.at <= y.at
<1> DEFINE T == {y.at : y \in S}
<1>1. T \in SUBSET Nat /\ T # {}
  BY DEF Timed
<1>2. PICK t \in T : \A u \in T : t <= u
  BY <1>1, NatLeast
<1> QED
  BY <1>2

LEMMA OrderExists == \A n \in Nat : \A S : Timed(S) /\ Cardinality(S) = n => \E s : Ordered(s, n, S)
<1> DEFINE T == {n \in Nat : ~ \A S : Timed(S) /\ Cardinality(S) = n => \E s : Ordered(s, n, S)}
<1>1. SUFFICES ASSUME T # {} PROVE FALSE
  OBVIOUS
<1>2. PICK n \in T : \A m \in T : n <= m
  BY <1>1, NatLeast
<1>3. PICK S : Timed(S) /\ Cardinality(S) = n /\ ~ \E s : Ordered(s, n, S)
  BY <1>2
<1>4. IsFiniteSet(S) /\ n \in Nat
  BY <1>2, <1>3 DEF Timed
<1>5. CASE n = 0
  <2>1. S = {}
    BY <1>3, <1>4, <1>5, FS_EmptySet
  <2>2. PICK s : s = [i \in 1..n |-> 0]
    OBVIOUS
  <2>3. DOMAIN s = {} /\ s \in [1..n -> S]
    BY <1>5, <2>1, <2>2
  <2>4. ToSet(s) = S
    BY <2>1, <2>3 DEF ToSet
  <2>5. Ordered(s, n, S)
    BY <2>3, <2>4 DEF Ordered
  <2> QED
    BY <1>3, <2>5
<1>6. CASE n # 0
  <2>1. S # {}
    BY <1>3, <1>4, <1>6, FS_EmptySet
  <2>2. PICK x \in S : \A y \in S : x.at <= y.at
    BY <1>3, <2>1, OldestExists
  <2>3. PICK R : R = S \ {x}
    OBVIOUS
  <2>4. Timed(R) /\ Cardinality(R) = n - 1
    <3>1. IsFiniteSet(R) /\ Cardinality(R) = Cardinality(S) - 1
      BY <1>4, <2>2, <2>3, FS_RemoveElement
    <3> QED
      BY <1>3, <2>3, <3>1 DEF Timed
  <2>5. PICK m \in Nat : m = n - 1 /\ m \notin T
    <3>1. n - 1 \in Nat /\ n - 1 \notin T
      BY <1>2, <1>6
    <3> QED
      BY <3>1
  <2>6. PICK r : Ordered(r, m, R)
    BY <2>4, <2>5
  <2>7. /\ r \in [1..m -> R] /\ DOMAIN r = 1..m
        /\ \A y \in R : \E i \in 1..m : r[i] = y
        /\ \A i, j \in 1..m : i < j => r[i].at <= r[j].at
    BY <2>6 DEF Ordered, ToSet
  <2>8. PICK s : s = [i \in 1..n |-> IF i = 1 THEN x ELSE r[i - 1]]
    OBVIOUS
  <2>9. /\ DOMAIN s = 1..n /\ s[1] = x
        /\ \A i \in 1..n : i # 1 => i - 1 \in 1..m /\ s[i] = r[i - 1]
        /\ \A i \in 1..m : i + 1 \in 1..n /\ s[i + 1] = r[i]
    <3>1. DOMAIN s = 1..n /\ 1 \in 1..n
      BY <1>4, <1>6, <2>8
    <3>2. s[1] = x
      BY <2>8, <3>1
    <3>3. ASSUME NEW i \in 1..n, i # 1 PROVE i - 1 \in 1..m /\ s[i] = r[i - 1]
      BY <1>4, <2>5, <2>8, <3>3
    <3>4. ASSUME NEW i \in 1..m PROVE i + 1 \in 1..n /\ s[i + 1] = r[i]
      <4>1. i + 1 \in 1..n /\ i + 1 # 1 /\ (i + 1) - 1 = i
        BY <1>4, <2>5
      <4> QED
        BY <2>8, <4>1
    <3> QED
      BY <3>1, <3>2, <3>3, <3>4
  <2>10. ASSUME NEW i \in 1..n PROVE s[i] \in S
    <3>1. CASE i = 1
      BY <2>2, <2>9, <3>1
    <3>2. CASE i # 1
      <4>1. PICK j \in 1..m : s[i] = r[j]
        BY <2>9, <3>2
      <4>2. r[j] \in R
        BY <2>7
      <4> QED
        BY <2>3, <4>1, <4>2
    <3> QED
      BY <3>1, <3>2
  <2>11. ToSet(s) = S
    <3>1. ToSet(s) \subseteq S
      BY <2>9, <2>10 DEF ToSet
    <3>2. ASSUME NEW y \in S PROVE y \in ToSet(s)
      <4>1. CASE y = x
        <5>1. 1 \in DOMAIN s
          BY <1>4, <1>6, <2>9
        <5> QED
          BY <2>9, <4>1, <5>1 DEF ToSet
      <4>2. CASE y # x
        <5>1. y \in R
          BY <2>3, <4>2
        <5>2. PICK i \in 1..m : r[i] = y
          BY <2>7, <5>1
        <5>3. i + 1 \in DOMAIN s /\ s[i + 1] = y
          BY <2>9, <5>2
        <5> QED
          BY <5>3 DEF ToSet
      <4> QED
        BY <4>1, <4>2
    <3> QED
      BY <3>1, <3>2
  <2>12. ASSUME NEW i \in 1..n, NEW j \in 1..n, i < j PROVE s[i].at <= s[j].at
    <3>1. j # 1
      BY <2>12
    <3>2. CASE i = 1
      BY <2>2, <2>9, <2>10, <3>2
    <3>3. CASE i # 1
      <4>1. /\ i - 1 \in 1..m /\ j - 1 \in 1..m /\ i - 1 < j - 1
            /\ s[i] = r[i - 1] /\ s[j] = r[j - 1]
        BY <2>9, <2>12, <3>1, <3>3
      <4> QED
        BY <2>7, <4>1
    <3> QED
      BY <3>2, <3>3
  <2>13. s \in [1..n -> S]
    BY <2>8, <2>9, <2>10
  <2>14. Ordered(s, n, S)
    BY <2>9, <2>11, <2>12, <2>13 DEF Ordered
  <2> QED
    BY <1>3, <2>14
<1> QED
  BY <1>5, <1>6

LEMMA OldestFirstIs ==
  ASSUME NEW S, Timed(S)
  PROVE  Cardinality(S) \in Nat /\ Ordered(OldestFirst(S), Cardinality(S), S)
<1>1. PICK n \in Nat : n = Cardinality(S)
  BY FS_CardinalityType DEF Timed
<1>2. PICK s : Ordered(s, n, S)
  BY <1>1, OrderExists
<1>3. PICK t : t = OldestFirst(S)
  OBVIOUS
<1>4. t = CHOOSE r \in [1..n -> S] :
            ToSet(r) = S /\ \A i, j \in DOMAIN r : i < j => r[i].at <= r[j].at
  BY <1>1, <1>3, Zenon DEF OldestFirst
<1>5. \E r \in [1..n -> S] :
            ToSet(r) = S /\ \A i, j \in DOMAIN r : i < j => r[i].at <= r[j].at
  BY <1>2, Zenon DEF Ordered
<1>6. Ordered(t, n, S)
  BY <1>4, <1>5, Zenon DEF Ordered
<1> QED
  BY <1>1, <1>3, <1>6

-----------------------------------------------------------------------------
(* Then the message being answered is taken out, and what is left keeps    *)
(* its order.                                                              *)
Passes(row, current) == row.role = "assistant" \/ row.of # current

Thinned(f, s, current, m) ==
  f = [n \in 0..m |->
         IF n = 0 THEN <<>>
         ELSE IF s[n].role = "assistant" \/ s[n].of # current THEN Append(f[n - 1], s[n])
         ELSE f[n - 1]]

ThinnedAt(f, s, current, n) ==
  f[n] = IF n = 0 THEN <<>> ELSE IF Passes(s[n], current) THEN Append(f[n - 1], s[n]) ELSE f[n - 1]

LEMMA ThinnedIs ==
  ASSUME NEW f, NEW s, NEW current, NEW m \in Nat, Thinned(f, s, current, m)
  PROVE  \A n \in 0..m : ThinnedAt(f, s, current, n)
<1>1. PICK h : h = f
  OBVIOUS
<1>2. f = [n \in 0..m |->
         IF n = 0 THEN <<>>
         ELSE IF s[n].role = "assistant" \/ s[n].of # current THEN Append(h[n - 1], s[n])
         ELSE h[n - 1]]
  BY <1>1 DEF Thinned
<1>3. \A n \in 0..m : f[n] =
         IF n = 0 THEN <<>>
         ELSE IF s[n].role = "assistant" \/ s[n].of # current THEN Append(h[n - 1], s[n])
         ELSE h[n - 1]
  BY <1>2, Zenon
<1> QED
  BY <1>1, <1>3, Zenon DEF ThinnedAt, Passes

LEMMA ThinnedExists ==
  ASSUME NEW s, NEW current, NEW m \in Nat PROVE \E f : Thinned(f, s, current, m)
<1> DEFINE T == {k \in Nat : ~ \E f : Thinned(f, s, current, k)}
<1>1. SUFFICES ASSUME T # {} PROVE FALSE
  OBVIOUS
<1>2. PICK k \in T : \A j \in T : k <= j
  BY <1>1, NatLeast
<1>3. \E g : \A n \in 0..(k - 1) : ThinnedAt(g, s, current, n)
  <2>1. CASE k = 0
    BY <2>1
  <2>2. CASE k # 0
    <3>1. k - 1 \in Nat /\ k - 1 \notin T
      BY <1>2, <2>2
    <3>2. PICK g : Thinned(g, s, current, k - 1)
      BY <3>1
    <3> QED
      BY <3>1, <3>2, ThinnedIs
  <2> QED
    BY <2>1, <2>2
<1>4. PICK g : \A n \in 0..(k - 1) : ThinnedAt(g, s, current, n)
  BY <1>3
<1>5. PICK f : f = [n \in 0..k |->
         IF n = 0 THEN <<>>
         ELSE IF s[n].role = "assistant" \/ s[n].of # current THEN Append(g[n - 1], s[n])
         ELSE g[n - 1]]
  OBVIOUS
<1>6. \A n \in 0..k : f[n] =
         IF n = 0 THEN <<>>
         ELSE IF s[n].role = "assistant" \/ s[n].of # current THEN Append(g[n - 1], s[n])
         ELSE g[n - 1]
  BY <1>5, Zenon
<1>7. \A n \in 0..(k - 1) : f[n] = g[n]
  <2>1. ASSUME NEW n \in 0..(k - 1) PROVE f[n] = g[n]
    <3>1. n \in 0..k
      BY <1>2
    <3> QED
      BY <1>4, <1>6, <3>1, Zenon DEF ThinnedAt, Passes
  <2> QED
    BY <2>1
<1>8. \A n \in 0..k : (n # 0 => f[n - 1] = g[n - 1])
  BY <1>2, <1>7
<1>9. \A n \in 0..k :
         (IF n = 0 THEN <<>>
          ELSE IF s[n].role = "assistant" \/ s[n].of # current THEN Append(g[n - 1], s[n])
          ELSE g[n - 1])
         = IF n = 0 THEN <<>>
           ELSE IF s[n].role = "assistant" \/ s[n].of # current THEN Append(f[n - 1], s[n])
           ELSE f[n - 1]
  BY <1>8, Zenon
<1>10. f = [n \in 0..k |->
         IF n = 0 THEN <<>>
         ELSE IF s[n].role = "assistant" \/ s[n].of # current THEN Append(f[n - 1], s[n])
         ELSE f[n - 1]]
  BY <1>5, <1>9
<1>11. Thinned(f, s, current, k)
  BY <1>10, Zenon DEF Thinned
<1> QED
  BY <1>2, <1>11

(* t is what of the first n of s is not the message.                       *)
Sifted(t, s, n, S, current) ==
  /\ t \in Seq(S)
  /\ \A i \in 1..n : Passes(s[i], current) => \E j \in 1..Len(t) : t[j] = s[i]
  /\ \A j \in 1..Len(t) : \E i \in 1..n : t[j] = s[i]
  /\ \A i, j \in 1..Len(t) : i < j => t[i].at <= t[j].at

LEMMA SiftedOne ==
  ASSUME NEW S, Timed(S), NEW N \in Nat, NEW s, Ordered(s, N, S), NEW n \in 1..N, NEW current,
         NEW t, Sifted(t, s, n - 1, S, current), NEW u,
         u = IF Passes(s[n], current) THEN Append(t, s[n]) ELSE t
  PROVE  Sifted(u, s, n, S, current)
<1>1. /\ s[n] \in S /\ \A i \in 1..(n - 1) : s[i] \in S /\ s[i].at <= s[n].at
  <2>1. s \in [1..N -> S] /\ DOMAIN s = 1..N /\ \A i, j \in 1..N : i < j => s[i].at <= s[j].at
    BY DEF Ordered
  <2>2. ASSUME NEW i \in 1..(n - 1) PROVE s[i] \in S /\ s[i].at <= s[n].at
    <3>1. i \in 1..N /\ i < n
      OBVIOUS
    <3> QED
      BY <2>1, <3>1
  <2> QED
    BY <2>1, <2>2
<1>2. PICK m \in Nat : m = Len(t)
  BY LenProperties DEF Sifted
<1>3. /\ t \in Seq(S)
      /\ \A i \in 1..(n - 1) : Passes(s[i], current) => \E j \in 1..m : t[j] = s[i]
      /\ \A j \in 1..m : \E i \in 1..(n - 1) : t[j] = s[i]
      /\ \A i, j \in 1..m : i < j => t[i].at <= t[j].at
  BY <1>2, Zenon DEF Sifted
<1>4. CASE ~Passes(s[n], current)
  <2>1. u = t
    BY <1>4
  <2>2. ASSUME NEW i \in 1..n, Passes(s[i], current) PROVE \E j \in 1..m : t[j] = s[i]
    <3>1. i # n
      BY <1>4, <2>2
    <3>2. i \in 1..(n - 1)
      BY <3>1
    <3> QED
      BY <1>3, <2>2, <3>2
  <2>3. ASSUME NEW j \in 1..m PROVE \E i \in 1..n : t[j] = s[i]
    <3>1. PICK i \in 1..(n - 1) : t[j] = s[i]
      BY <1>3
    <3>2. i \in 1..n
      OBVIOUS
    <3> QED
      BY <3>1, <3>2
  <2> QED
    <3>1. Sifted(t, s, n, S, current)
      BY <1>2, <1>3, <2>2, <2>3, Zenon DEF Sifted
    <3> QED
      BY <2>1, <3>1, Zenon
<1>5. CASE Passes(s[n], current)
  <2>1. u = Append(t, s[n])
    BY <1>5
  <2>2. PICK l \in Nat : l = m + 1
    OBVIOUS
  <2>3. /\ u \in Seq(S) /\ Len(u) = l /\ u[l] = s[n]
        /\ \A j \in 1..m : u[j] = t[j] /\ j \in 1..l
    BY <1>1, <1>2, <1>3, <2>1, <2>2, AppendProperties
  <2>4. \A j \in 1..l : j = l \/ j \in 1..m
    BY <2>2
  <2>5. l \in 1..l /\ n \in 1..n
    BY <2>2
  <2>6. ASSUME NEW i \in 1..n, Passes(s[i], current) PROVE \E j \in 1..l : u[j] = s[i]
    <3>1. CASE i = n
      BY <2>3, <2>5, <3>1
    <3>2. CASE i # n
      <4>1. i \in 1..(n - 1)
        BY <3>2
      <4>2. PICK j \in 1..m : t[j] = s[i]
        BY <1>3, <2>6, <4>1
      <4> QED
        BY <2>3, <4>2
    <3> QED
      BY <3>1, <3>2
  <2>7. ASSUME NEW j \in 1..l PROVE \E i \in 1..n : u[j] = s[i]
    <3>1. CASE j = l
      BY <2>3, <2>5, <3>1
    <3>2. CASE j \in 1..m
      <4>1. PICK i \in 1..(n - 1) : t[j] = s[i]
        BY <1>3, <3>2
      <4>2. i \in 1..n
        OBVIOUS
      <4> QED
        BY <2>3, <3>2, <4>1, <4>2
    <3> QED
      BY <2>4, <3>1, <3>2
  <2>8. ASSUME NEW i \in 1..l, NEW j \in 1..l, i < j PROVE u[i].at <= u[j].at
    <3>1. i \in 1..m
      BY <2>2, <2>8
    <3>2. CASE j = l
      <4>1. PICK k \in 1..(n - 1) : t[i] = s[k]
        BY <1>3, <3>1
      <4> QED
        BY <1>1, <2>3, <3>1, <3>2, <4>1
    <3>3. CASE j \in 1..m
      BY <1>3, <2>3, <2>8, <3>1, <3>3
    <3> QED
      BY <2>4, <3>2, <3>3
  <2> QED
    BY <2>3, <2>6, <2>7, <2>8, Zenon DEF Sifted
<1> QED
  BY <1>4, <1>5

LEMMA WithoutIs ==
  ASSUME NEW S, Timed(S), NEW N \in Nat, NEW s, Ordered(s, N, S), Len(s) = N, NEW current
  PROVE  Sifted(Without(s, current), s, N, S, current)
<1>1. PICK f : f = CHOOSE g : Thinned(g, s, current, N)
  OBVIOUS
<1>2. Thinned(f, s, current, N)
  BY <1>1, ThinnedExists
<1>3. Without(s, current) = f[N]
  BY <1>1, Zenon DEF Without, Thinned
<1>4. \A n \in 0..N : ThinnedAt(f, s, current, n)
  BY <1>2, ThinnedIs
<1> DEFINE T == {k \in 0..N : ~ Sifted(f[k], s, k, S, current)}
<1>5. T = {}
  <2>1. SUFFICES ASSUME T # {} PROVE FALSE
    OBVIOUS
  <2>2. PICK k \in T : \A j \in T : k <= j
    <3>1. T \in SUBSET Nat
      OBVIOUS
    <3> QED
      BY <2>1, <3>1, NatLeast
  <2>3. CASE k = 0
    <3>1. f[0] = <<>>
      <4>1. 0 \in 0..N
        OBVIOUS
      <4> QED
        BY <1>4, <4>1, Zenon DEF ThinnedAt
    <3>2. Sifted(<<>>, s, 0, S, current)
      <4>1. <<>> \in Seq(S) /\ Len(<<>>) = 0
        BY EmptySeq
      <4> QED
        BY <4>1 DEF Sifted
    <3> QED
      BY <2>2, <2>3, <3>1, <3>2
  <2>4. CASE k # 0
    <3>1. k \in 1..N /\ k \in 0..N /\ k - 1 \in 0..N /\ k - 1 \notin T
      BY <2>2, <2>4
    <3>2. Sifted(f[k - 1], s, k - 1, S, current)
      BY <3>1
    <3>3. f[k] = IF Passes(s[k], current) THEN Append(f[k - 1], s[k]) ELSE f[k - 1]
      BY <1>4, <2>4, <3>1, Zenon DEF ThinnedAt
    <3>4. Sifted(f[k], s, k, S, current)
      BY <3>1, <3>2, <3>3, SiftedOne
    <3> QED
      BY <2>2, <3>4
  <2> QED
    BY <2>3, <2>4
<1>6. N \in 0..N /\ N \notin T
  BY <1>5
<1> QED
  BY <1>3, <1>6

-----------------------------------------------------------------------------
(* What is kept of a sequence is its end.                                  *)
Ends(h, t, S) ==
  /\ h \in Seq(S)
  /\ \E k \in Nat : Len(t) = k + Len(h) /\ \A i \in 1..Len(h) : h[i] = t[k + i]

LEMMA LastOfEnds ==
  ASSUME NEW S, NEW t \in Seq(S), NEW n \in Nat PROVE Ends(LastOf(t, n), t, S)
<1>1. PICK l \in Nat : l = Len(t)
  BY LenProperties
<1>2. CASE l > n
  <2>1. PICK h : h = SubSeq(t, l - n + 1, l)
    OBVIOUS
  <2>2. PICK k \in Nat : k = l - n
    BY <1>2
  <2>7. PICK a \in 1..(l + 1) : a = l - n + 1
    <3>1. l - n + 1 \in 1..(l + 1)
      BY <1>2
    <3> QED
      BY <3>1
  <2>8. l - a + 1 = n /\ \A i \in 1..n : a + i - 1 = k + i
    BY <2>2, <2>7
  <2>9. \A i \in a..l : t[i] \in S
    <3>1. \A i \in a..l : i \in 1..Len(t)
      BY <1>1, <2>7
    <3> QED
      BY <3>1, ElementOfSeq
  <2>10. /\ SubSeq(t, a, l) \in Seq(S)
         /\ Len(SubSeq(t, a, l)) = IF a <= l THEN l - a + 1 ELSE 0
         /\ \A i \in 1..l - a + 1 : SubSeq(t, a, l)[i] = t[a + i - 1]
    BY <2>9, SubSeqProperties
  <2>3. h \in Seq(S) /\ Len(h) = n /\ \A i \in 1..n : h[i] = t[a + i - 1]
    BY <2>1, <2>7, <2>8, <2>10
  <2>4. \A i \in 1..n : h[i] = t[k + i]
    BY <2>3, <2>8
  <2>5. Len(t) = k + Len(h)
    BY <1>1, <2>2, <2>3
  <2>6. LastOf(t, n) = h
    BY <1>1, <1>2, <2>1, Zenon DEF LastOf
  <2> QED
    <3>1. \A i \in 1..Len(h) : h[i] = t[k + i]
      BY <2>3, <2>4, Zenon
    <3>2. Ends(h, t, S)
      BY <2>2, <2>3, <2>5, <3>1, Zenon DEF Ends
    <3> QED
      BY <2>6, <3>2, Zenon
<1>3. CASE ~(l > n)
  <2>1. LastOf(t, n) = t
    BY <1>1, <1>3, Zenon DEF LastOf
  <2>2. 0 \in Nat /\ Len(t) = 0 + Len(t) /\ \A i \in 1..Len(t) : t[i] = t[0 + i]
    BY <1>1
  <2> QED
    BY <2>1, <2>2, Zenon DEF Ends
<1> QED
  BY <1>2, <1>3

LEMMA EndOfEnd ==
  ASSUME NEW S, NEW t \in Seq(S), NEW h, Ends(h, t, S), NEW g, Ends(g, h, S)
  PROVE  Ends(g, t, S)
<1>1. PICK l \in Nat : l = Len(t)
  BY LenProperties
<1>2. PICK m \in Nat : m = Len(h)
  BY LenProperties DEF Ends
<1>3. PICK n \in Nat : n = Len(g)
  BY LenProperties DEF Ends
<1>4. PICK j \in Nat : l = j + m /\ \A i \in 1..m : h[i] = t[j + i]
  BY <1>1, <1>2, Zenon DEF Ends
<1>5. g \in Seq(S)
  BY Zenon DEF Ends
<1>6. PICK k \in Nat : m = k + n /\ \A i \in 1..n : g[i] = h[k + i]
  BY <1>2, <1>3, Zenon DEF Ends
<1>7. j + k \in Nat /\ l = (j + k) + n
  BY <1>4, <1>6
<1>8. ASSUME NEW i \in 1..n PROVE g[i] = t[(j + k) + i]
  <2>1. k + i \in 1..m /\ j + (k + i) = (j + k) + i
    BY <1>4, <1>6
  <2> QED
    BY <1>4, <1>6, <2>1
<1> QED
  BY <1>1, <1>3, <1>5, <1>7, <1>8, Zenon DEF Ends

(* A bounded set of numbers has a greatest.                                *)
LEMMA NatGreatest ==
  ASSUME NEW l \in Nat, NEW F \in SUBSET (1..l), F # {}
  PROVE  \E n \in F : \A m \in F : m <= n
<1> DEFINE T == {l - n : n \in F}
<1>1. T \in SUBSET Nat /\ T # {}
  <2>1. \A n \in F : n \in 1..l
    OBVIOUS
  <2>2. \A n \in F : l - n \in Nat
    BY <2>1
  <2>3. T \in SUBSET Nat
    BY <2>2
  <2>4. PICK n : n \in F
    OBVIOUS
  <2> QED
    BY <2>3, <2>4
<1>2. PICK d \in T : \A e \in T : d <= e
  BY <1>1, NatLeast
<1>3. PICK n \in F : d = l - n
  BY <1>2
<1>4. ASSUME NEW m \in F PROVE m <= n
  <2>1. l - m \in T
    OBVIOUS
  <2>2. l - n <= l - m
    BY <1>2, <1>3, <2>1
  <2> QED
    BY <2>2
<1> QED
  BY <1>4

LEMMA WithinBudgetEnds ==
  ASSUME NEW S, NEW t \in Seq(S) PROVE Ends(WithinBudget(t), t, S)
<1>1. PICK l \in Nat : l = Len(t)
  BY LenProperties
<1>2. CASE t = <<>>
  <2>1. WithinBudget(t) = t
    BY <1>2, Zenon DEF WithinBudget
  <2>2. 0 \in Nat /\ Len(t) = 0 + Len(t) /\ \A i \in 1..Len(t) : t[i] = t[0 + i]
    BY <1>1
  <2> QED
    BY <2>1, <2>2, Zenon DEF Ends
<1>3. CASE t # <<>>
  <2>1. l # 0
    BY <1>1, <1>3, EmptySeq
  <2>2. PICK F : F = {n \in 1..l : n = 1 \/ Size(LastOf(t, n)) <= MaxChars}
    OBVIOUS
  <2>3. 1 \in F /\ F \in SUBSET (1..l)
    BY <2>1, <2>2
  <2>4. PICK n \in F : \A m \in F : m <= n
    BY <2>3, NatGreatest
  <2>5. \E k \in 1..l : /\ k = 1 \/ Size(LastOf(t, k)) <= MaxChars
                        /\ \A m \in k+1..l : ~(m = 1 \/ Size(LastOf(t, m)) <= MaxChars)
    <3>1. n \in 1..l /\ (n = 1 \/ Size(LastOf(t, n)) <= MaxChars)
      BY <2>2
    <3>2. ASSUME NEW m \in n+1..l PROVE ~(m = 1 \/ Size(LastOf(t, m)) <= MaxChars)
      <4>1. m \in 1..l /\ ~(m <= n)
        BY <3>1
      <4>2. m \notin F
        BY <2>4, <4>1
      <4> QED
        BY <2>2, <4>1, <4>2
    <3> QED
      BY <3>1, <3>2, Zenon
  <2>6. PICK c : c = CHOOSE k \in 1..l : /\ k = 1 \/ Size(LastOf(t, k)) <= MaxChars
                                         /\ \A m \in k+1..l : ~(m = 1 \/ Size(LastOf(t, m)) <= MaxChars)
    OBVIOUS
  <2>7. c \in 1..l
    BY <2>5, <2>6, Zenon
  <2>8. WithinBudget(t) = LastOf(t, c)
    BY <1>1, <1>3, <2>6, Zenon DEF WithinBudget
  <2>9. c \in Nat
    BY <2>7
  <2> QED
    BY <2>8, <2>9, LastOfEnds
<1> QED
  BY <1>2, <1>3

-----------------------------------------------------------------------------
(* A thread that fits the limit is listed whole.                           *)
LEMMA WholeThread ==
  ASSUME NEW S, Timed(S), Cardinality(S) <= 2 * MaxTurns
  PROVE  /\ Cardinality(S) \in Nat /\ Ordered(ListMessages(S), Cardinality(S), S)
         /\ Len(ListMessages(S)) = Cardinality(S)
<1>1. PICK n \in Nat : n = Cardinality(S)
  BY OldestFirstIs
<1>2. PICK s : s = OldestFirst(S)
  OBVIOUS
<1>3. Ordered(s, n, S)
  BY <1>1, <1>2, OldestFirstIs
<1>4. s \in Seq(S) /\ Len(s) = n
  BY <1>3 DEF Ordered
<1>5. MaxTurns \in Nat /\ n <= 2 * MaxTurns
  BY <1>1, HistoryAssumption
<1>6. (IF n < 2 * MaxTurns THEN n ELSE 2 * MaxTurns) = n
  BY <1>5
<1>7. ListMessages(S) = SubSeq(s, 1, IF Len(s) < 2 * MaxTurns THEN Len(s) ELSE 2 * MaxTurns)
  BY <1>2, Zenon DEF ListMessages
<1>8. ListMessages(S) = SubSeq(s, 1, Len(s))
  BY <1>4, <1>6, <1>7, Zenon
<1>9. ListMessages(S) = s
  BY <1>4, <1>8, SubSeqFull, Zenon
<1> QED
  BY <1>1, <1>3, <1>4, <1>9

(* What of the whole thread is not shown is older than what is.            *)
LEMMA ShownAreNewest ==
  ASSUME NEW S, Timed(S), Cardinality(S) <= 2 * MaxTurns, NEW current,
         NEW old \in S \ ToSet(BuildHistory(S, current)), Passes(old, current),
         NEW new \in ToSet(BuildHistory(S, current))
  PROVE  old.at <= new.at
<1>1. PICK n \in Nat : n = Cardinality(S)
  BY WholeThread
<1> DEFINE s == ListMessages(S)
<1>2. Ordered(s, n, S) /\ Len(s) = n
  BY <1>1, WholeThread
<1> HIDE DEF s
<1>3. PICK t : t = Without(s, current)
  OBVIOUS
<1>4. Sifted(t, s, n, S, current)
  BY <1>2, <1>3, WithoutIs
<1>5. PICK u : u = LastOf(t, MaxTurns)
  OBVIOUS
<1>6. PICK h : h = WithinBudget(u)
  OBVIOUS
<1>7. h = BuildHistory(S, current)
  BY <1>3, <1>5, <1>6, Zenon DEF BuildHistory, s
<1>8. t \in Seq(S)
  BY <1>4, Zenon DEF Sifted
<1>9. Ends(u, t, S)
  BY <1>5, <1>8, HistoryAssumption, LastOfEnds
<1>10. u \in Seq(S)
  BY <1>9, Zenon DEF Ends
<1>11. Ends(h, t, S)
  BY <1>6, <1>8, <1>9, <1>10, WithinBudgetEnds, EndOfEnd
<1>12. PICK l \in Nat : l = Len(t)
  BY <1>8, LenProperties
<1>13. PICK m \in Nat : m = Len(h)
  BY <1>11, LenProperties DEF Ends
<1>14. PICK k \in Nat : l = k + m /\ \A i \in 1..m : h[i] = t[k + i]
  BY <1>11, <1>12, <1>13, Zenon DEF Ends
<1>15. h \in Seq(S) /\ DOMAIN h = 1..m
  BY <1>11, <1>13, LenProperties DEF Ends
<1>16. PICK i \in 1..m : new = h[i]
  BY <1>7, <1>15 DEF ToSet
<1>17. PICK a \in 1..n : s[a] = old
  <2>1. DOMAIN s = 1..n /\ old \in ToSet(s)
    BY <1>2 DEF Ordered
  <2> QED
    BY <2>1 DEF ToSet
<1>18. PICK j \in 1..l : t[j] = old
  BY <1>4, <1>12, <1>17, Zenon DEF Sifted
<1>19. j <= k
  <2>1. SUFFICES ASSUME ~(j <= k) PROVE FALSE
    OBVIOUS
  <2>2. j - k \in 1..m /\ k + (j - k) = j
    BY <1>14, <2>1
  <2>3. h[j - k] = old
    BY <1>14, <1>18, <2>2
  <2>4. old \in ToSet(h)
    BY <1>15, <2>2, <2>3 DEF ToSet
  <2> QED
    BY <1>7, <2>4
<1>20. k + i \in 1..l /\ j < k + i
  BY <1>14, <1>19
<1>21. t[j].at <= t[k + i].at
  BY <1>4, <1>12, <1>20, Zenon DEF Sifted
<1> QED
  BY <1>14, <1>16, <1>18, <1>21

-----------------------------------------------------------------------------
(* The rows are finitely many, each at a time of its own kind; and a       *)
(* request holds a history only while it asks the model.                   *)
ShownInv ==
  /\ Timed(rows)
  /\ DOMAIN history = Requests
  /\ \A r \in Requests : pc[r] # "chat" => history[r] = <<>>

(* A step of q that neither reads the thread nor asks the model.           *)
Aside(q) ==
  /\ history' = history
  /\ \E p \in Steps \ {"chat"} : pc' = [pc EXCEPT ![q] = p]
  /\ pc[q] # "chat"

LEMMA StepsAside ==
  ASSUME NEW q \in Requests,
         Deliver(q) \/ Claim(q) \/ IgnoreEmpty(q) \/ FindConversation(q) \/ KeepMessage(q)
         \/ GetToken(q) \/ NoTokenFor(q) \/ Send(q) \/ RecordReply(q)
  PROVE  Aside(q)
<1>1. CASE GetToken(q) \/ NoTokenFor(q)
  <2>1. history' = history
    BY <1>1 DEF GetToken, NoTokenFor, workVars
  <2>2. /\ pc[q] # "chat"
        /\ \E p \in Steps \ {"chat"} : pc' = [pc EXCEPT ![q] = p]
    BY <1>1 DEF GetToken, NoTokenFor, FetchFails, AskToken, LockRefresh, FetchToken, TakeToken,
                Move, Steps
  <2> QED
    BY <2>1, <2>2 DEF Aside
<1>2. CASE Deliver(q) \/ Claim(q) \/ IgnoreEmpty(q) \/ FindConversation(q) \/ KeepMessage(q)
           \/ Send(q) \/ RecordReply(q)
  <2>1. history' = history
    BY <1>2 DEF Deliver, Claim, IgnoreEmpty, FindConversation, KeepMessage, Send, RecordReply,
                workVars
  <2>2. /\ pc[q] # "chat"
        /\ \E p \in Steps \ {"chat"} : pc' = [pc EXCEPT ![q] = p]
    BY <1>2 DEF Deliver, Claim, IgnoreEmpty, FindConversation, KeepMessage, Send, RecordReply,
                Move, Excuse, Steps
  <2> QED
    BY <2>1, <2>2 DEF Aside
<1> QED
  BY <1>1, <1>2

(* What a step does to the history of a request.                           *)
Moved(r) ==
  \/ history'[r] = <<>>
  \/ history'[r] = history[r] /\ (pc'[r] = "chat" <=> pc[r] = "chat")
  \/ /\ pc[r] = "read" /\ pc'[r] = "chat"
     /\ history'[r] \in {history[r], BuildHistory(rows, event[r])}

LEMMA HistoryMoves ==
  ASSUME ThreadType, ShownInv, [Next]_vars
  PROVE  DOMAIN history' = Requests /\ \A r \in Requests : Moved(r)
<1>1. pc \in [Requests -> Steps] /\ DOMAIN history = Requests
  BY DEF ThreadType, ShownInv
<1>2. ASSUME NEW q \in Requests, Aside(q)
      PROVE  DOMAIN history' = Requests /\ \A r \in Requests : Moved(r)
  BY <1>1, <1>2 DEF Aside, Moved
<1>3. ASSUME NEW q \in Requests, ReadThread(q)
      PROVE  DOMAIN history' = Requests /\ \A r \in Requests : Moved(r)
  <2>1. PICK b : b = BuildHistory(rows, event[q])
    OBVIOUS
  <2>2. pc[q] = "read"
    BY <1>3 DEF ReadThread, Move, Excuse
  <2>3. \/ pc' = [pc EXCEPT ![q] = "chat"] /\ history' = [history EXCEPT ![q] = b]
        \/ pc' = [pc EXCEPT ![q] = "chat"] /\ history' = history
        \/ pc' = [pc EXCEPT ![q] = "ask"] /\ history' = history
    BY <1>3, <2>1, Zenon DEF ReadThread, Move, Excuse
  <2>4. ASSUME NEW r \in Requests, r # q PROVE Moved(r)
    BY <1>1, <2>3, <2>4 DEF Moved
  <2>5. \/ pc'[q] = "chat" /\ history'[q] \in {history[q], b}
        \/ pc'[q] = "ask" /\ history'[q] = history[q]
    BY <1>1, <2>3
  <2>6. Moved(q)
    BY <2>1, <2>2, <2>5 DEF Moved
  <2>7. DOMAIN history' = Requests
    BY <1>1, <2>3
  <2> QED
    BY <2>4, <2>6, <2>7
<1>4. ASSUME NEW q \in Requests, Chat(q)
      PROVE  DOMAIN history' = Requests /\ \A r \in Requests : Moved(r)
  <2>1. history' = [history EXCEPT ![q] = <<>>] /\ \E p \in Steps : pc' = [pc EXCEPT ![q] = p]
    BY <1>4 DEF Chat, Move, Excuse, Steps
  <2> QED
    BY <1>1, <2>1 DEF Moved
<1>5. CASE Crash
  <2>1. history' = [r \in Requests |-> <<>>]
    BY <1>5 DEF Crash
  <2> QED
    BY <2>1 DEF Moved
<1>6. CASE Post \/ SaveConversation \/ PurgeEvents \/ Tick \/ UNCHANGED vars
  <2>1. history' = history /\ pc' = pc
    BY <1>6 DEF Post, SaveConversation, PurgeEvents, Tick, vars, workVars
  <2> QED
    BY <1>1, <2>1 DEF Moved
<1> QED
  BY <1>2, <1>3, <1>4, <1>5, <1>6, StepsAside DEF Next, Serve

(* The rows grow by one message or one answer at a time.                   *)
LEMMA RowsGrow ==
  ASSUME [Next]_vars
  PROVE  \/ rows' = rows
         \/ \E q \in Requests : KeepMessage(q) /\ rows' = rows \cup {UserRow(q)}
         \/ \E q \in Requests : RecordReply(q) /\ rows' = rows \cup {BotRow(q)}
<1>1. ASSUME NEW q \in Requests, Deliver(q) \/ Claim(q) \/ IgnoreEmpty(q) \/ FindConversation(q)
             \/ ReadThread(q) \/ Chat(q) \/ GetToken(q) \/ NoTokenFor(q) \/ Send(q)
      PROVE  rows' = rows
  BY <1>1 DEF Deliver, Claim, IgnoreEmpty, FindConversation, ReadThread, Chat, GetToken,
              NoTokenFor, Send
<1>2. ASSUME NEW q \in Requests, KeepMessage(q)
      PROVE  rows' = rows \/ rows' = rows \cup {UserRow(q)}
  BY <1>2 DEF KeepMessage
<1>3. ASSUME NEW q \in Requests, RecordReply(q)
      PROVE  rows' = rows \/ rows' = rows \cup {BotRow(q)}
  BY <1>3 DEF RecordReply
<1>4. CASE Post \/ SaveConversation \/ PurgeEvents \/ Tick \/ Crash \/ UNCHANGED vars
  BY <1>4 DEF Post, SaveConversation, PurgeEvents, Tick, Crash, vars
<1> QED
  BY <1>1, <1>2, <1>3, <1>4, Zenon DEF Next, Serve

LEMMA ShownStep ==
  ASSUME ChatInv, ShownInv, [Next]_vars PROVE ShownInv'
<1>1. ThreadType /\ pc \in [Requests -> Steps]
  BY DEF ChatInv, ThreadInv, ThreadType
<1>2. DOMAIN history' = Requests /\ \A r \in Requests : Moved(r)
  BY <1>1, HistoryMoves
<1>3. ASSUME NEW r \in Requests, pc'[r] # "chat" PROVE history'[r] = <<>>
  <2>1. Moved(r)
    BY <1>2
  <2> QED
    BY <1>3, <2>1 DEF Moved, ShownInv
<1>4. ASSUME NEW q \in Requests, KeepMessage(q), rows' = rows \cup {UserRow(q)} PROVE Timed(rows)'
  <2>1. UserRow(q).at = posted[event[q]].at
    BY DEF UserRow
  <2>2. event[q] \in DOMAIN posted
    BY <1>1, <1>4 DEF KeepMessage, Move, Excuse, ThreadType
  <2>3. UserRow(q).at \in Nat
    BY <1>1, <2>1, <2>2 DEF ThreadType
  <2> QED
    BY <1>4, <2>3, FS_AddElement DEF ShownInv, Timed
<1>5. ASSUME NEW q \in Requests, rows' = rows \cup {BotRow(q)} PROVE Timed(rows)'
  <2>1. BotRow(q).at = clock
    BY DEF BotRow
  <2>2. BotRow(q).at \in Nat
    BY <1>1, <2>1 DEF ThreadType
  <2> QED
    BY <1>5, <2>2, FS_AddElement DEF ShownInv, Timed
<1>6. ASSUME rows' = rows PROVE Timed(rows)'
  <2>1. IsFiniteSet(rows') /\ \A row \in rows' : row.at \in Nat
    BY <1>6, Zenon DEF ShownInv, Timed
  <2> QED
    BY <2>1, Zenon DEF Timed
<1>7. Timed(rows)'
  BY <1>4, <1>5, <1>6, RowsGrow, Zenon
<1> QED
  BY <1>2, <1>3, <1>7 DEF ShownInv

(* RecentTurnsKept: as long as the thread fits the limit, whatever order   *)
(* rows of one time are listed in, what the model is not shown is older    *)
(* than all it is shown.                                                   *)
THEOREM RecentTurnsShown == Spec => RecentTurnsKept
<1>1. Init => ShownInv
  <2> SUFFICES ASSUME Init PROVE ShownInv
    OBVIOUS
  <2>1. Timed(rows)
    BY FS_EmptySet DEF Init, Timed
  <2> QED
    BY <2>1 DEF Init, ShownInv
<1>2. ASSUME ChatInv, ShownInv, [Next]_vars, NEW r \in Requests,
             pc[r] = "read", ToSet(history'[r]) # {}, Cardinality(rows) <= 2 * MaxTurns,
             NEW old \in rows \ ToSet(history'[r]), old.role = "assistant" \/ old.of # event[r],
             NEW new \in ToSet(history'[r])
      PROVE  old.at <= new.at
  <2>1. PICK b : b = BuildHistory(rows, event[r])
    OBVIOUS
  <2>2. Moved(r)
    BY <1>2, HistoryMoves DEF ChatInv, ThreadInv
  <2>3. history[r] = <<>>
    BY <1>2 DEF ShownInv
  <2>4. history'[r] # <<>>
    <3>1. ToSet(<<>>) = {}
      BY DEF ToSet
    <3> QED
      BY <1>2, <3>1
  <2>5. history'[r] = b
    BY <2>1, <2>2, <2>3, <2>4 DEF Moved
  <2>6. Timed(rows)
    BY <1>2 DEF ShownInv
  <2>7. Passes(old, event[r])
    BY <1>2 DEF Passes
  <2> QED
    BY <1>2, <2>1, <2>5, <2>6, <2>7, ShownAreNewest
<1>3. ChatInv /\ ShownInv /\ [Next]_vars =>
        [\A r \in Requests :
           LET shown == ToSet(history'[r])
               left == {row \in rows \ shown : row.role = "assistant" \/ row.of # event[r]}
           IN  pc[r] = "read" /\ shown # {} /\ Cardinality(rows) <= 2 * MaxTurns =>
                 \A old \in left, new \in shown : old.at <= new.at]_vars
  BY <1>2
<1> QED
  BY <1>1, <1>3, ShownStep, ChatAlways, PTL DEF Spec, RecentTurnsKept

=============================================================================
