------------------------ MODULE ApprovalSerialProofs ------------------------
(***************************************************************************)
(* Proofs about ApprovalFlow when handlers do not overlap, although the    *)
(* executions keep running in the background of every handler.  Then every *)
(* command runs at most once, whatever store calls fail; and when none     *)
(* does, rows and commands follow ApprovalLifecycle.  All this for any     *)
(* number of rows, callbacks, chat turns, steps and restarts.              *)
(***************************************************************************)
EXTENDS ApprovalRowsProofs

(* The two conditions.                                                     *)
OneAtATime == ~Overlap
Serial == OneAtATime /\ MaxFaults = 0

-----------------------------------------------------------------------------
(* At most one handler is under way.                                       *)

CallBusy(c) == cb[c].pc \in {"read", "decided", "granted"}
ChatBusy(h) == chat[h].pc \notin {"idle", "done"}
PipeBusy == pipe.pc = "converse"
SweepBusy == sweep.pc # "idle"

Alone ==
  /\ \A c, d \in Calls : CallBusy(c) /\ CallBusy(d) => c = d
  /\ \A h, k \in Chats : ChatBusy(h) /\ ChatBusy(k) => h = k
  /\ \A c \in Calls, h \in Chats : ~(CallBusy(c) /\ ChatBusy(h))
  /\ \A c \in Calls : CallBusy(c) => ~PipeBusy /\ ~SweepBusy
  /\ \A h \in Chats : ChatBusy(h) => ~PipeBusy /\ ~SweepBusy
  /\ ~(PipeBusy /\ SweepBusy)

(* So what a handler has read and is about to overwrite is still there:    *)
(* the executions only write to rows that are no longer pending.           *)
HoldsPending(a) ==
  \/ \E c \in Calls : cb[c].pc \in {"read", "decided"} /\ cb[c].seen = "pending" /\ cb[c].id = a
  \/ \E h \in Chats : chat[h].pc = "superseding" /\ chat[h].parent = a
  \/ a \in sweep.stale

HeldArePending == \A a \in Approvals : HoldsPending(a) => status[a] = "pending"

SweepRests == sweep.pc = "idle" => sweep.stale = {}

(* An execution has its row to itself, which nobody can act on any more.   *)
RowOfRun(c) ==
  run[c].pc # "none" => status[run[c].id] \in Settled

(* With a store that works the row also says how far the execution is.     *)
RowSays(c) ==
  /\ run[c].pc = "start" => status[run[c].id] = "approved"
  /\ run[c].pc \in {"exec", "record", "finish"} => status[run[c].id] = "executing"

RowOfCall(c) ==
  cb[c].pc = "granted" =>
    /\ status[cb[c].id] = "approved"
    /\ \A d \in Calls : run[d].pc # "none" => run[d].id # cb[c].id

RunsApart ==
  \A c, d \in Calls :
    run[c].pc # "none" /\ run[d].pc # "none" /\ run[c].id = run[d].id => c = d

OneRun == (\A c \in Calls : RowOfRun(c) /\ RowOfCall(c)) /\ RunsApart

RowsSay == \A c \in Calls : RowSays(c)

(* An execution has not run the commands that lie ahead of it.             *)
Ahead(c) ==
  LET a == run[c].id IN
  /\ run[c].pc = "start" => \A j \in Steps : c \notin ran[a][j]
  /\ run[c].pc = "exec" => \A j \in Steps : j >= run[c].step => c \notin ran[a][j]
  /\ run[c].pc = "record" => \A j \in Steps : j > run[c].step => c \notin ran[a][j]

AheadInv == \A c \in Calls : Ahead(c)

SerialInv == Alone /\ HeldArePending /\ SweepRests /\ OneRun /\ AheadInv

-----------------------------------------------------------------------------
(* What is pending, and what the conversation points at.                   *)

Withdrawing(h) == chat[h].pc \in {"created", "superseding"}

PendingIsLast ==
  \A a \in Approvals : status[a] = "pending" =>
    a = created \/ \E h \in Chats : Withdrawing(h) /\ a = chat[h].parent

ConvIsLast ==
  pipe.pc = "done" =>
    conv = created \/ \E h \in Chats : chat[h].pc \in {"created", "superseding", "linking"}

BeforePipeline ==
  /\ pipe.pc = "plan" => created = 0
  /\ pipe.pc = "converse" => pipe.id = created
  /\ pipe.pc # "done" => conv = NoConv /\ \A h \in Chats : ~ChatBusy(h)

TurnIsLast ==
  \A h \in Chats :
    /\ chat[h].pc \in {"found", "guarded"} => chat[h].parent = created
    /\ chat[h].pc \in {"created", "superseding", "linking"} => chat[h].new = created

LiveInv ==
  crashes = 0 => PendingIsLast /\ ConvIsLast /\ BeforePipeline /\ TurnIsLast

-----------------------------------------------------------------------------
(* Handlers exclude each other.                                            *)

LEMMA Idle == ~HandlerBusy =>
  /\ \A c \in Calls : ~CallBusy(c)
  /\ \A h \in Chats : ~ChatBusy(h)
  /\ ~PipeBusy /\ ~SweepBusy
BY DEF HandlerBusy, CallBusy, ChatBusy, PipeBusy, SweepBusy

(* Whoever is busy afterwards was busy before, unless it just started.     *)
LEMMA CallStarts ==
  ASSUME TypeOK, [Next]_vars, NEW c \in Calls, CallBusy(c)', ~CallbackRead(c)
  PROVE  CallBusy(c)
<1>1. CASE CallbackDecide(c) \/ CallbackWrite(c) \/ CallbackSpawn(c)
  BY <1>1 DEF CallbackDecide, CallbackWrite, CallbackSpawn, CallBusy
<1>2. CASE CallbackFails(c)
  <2>1. cb'[c].pc = "done"
    BY <1>2, CallFields DEF CallbackFails
  <2> QED
    BY <2>1 DEF CallBusy
<1>3. CASE Crash
  <2>1. cb'[c].pc \in {"idle", "done"}
    BY <1>3, CrashFields
  <2> QED
    BY <2>1 DEF CallBusy
<1> QED
  BY <1>1, <1>2, <1>3, CallMoves DEF CallBusy

LEMMA ChatStarts ==
  ASSUME TypeOK, [Next]_vars, NEW h \in Chats, ChatBusy(h)', ~ChatFind(h)
  PROVE  ChatBusy(h)
<1>1. CASE ChatTurn(h)
  BY <1>1 DEF ChatTurn, ChatNoPlan, ChatGuard, ChatCreate, ChatReadOld, ChatSupersede,
    ChatLink, ChatBusy
<1>2. CASE Crash
  BY <1>2, CrashFields DEF ChatBusy
<1> QED
  BY <1>1, <1>2, ChatMoves DEF ChatBusy

LEMMA PipeStarts ==
  ASSUME TypeOK, [Next]_vars, PipeBusy', ~PipelinePropose
  PROVE  PipeBusy
<1>1. \/ pipe' = pipe
      \/ pipe' = [pipe EXCEPT !.pc = "done"]
  BY DEF Next, Pipeline, PipelineConverse, Callback, CallbackRead,
   CallbackDecide, CallbackWrite, CallbackSpawn, CallbackFails, Execution, RunStart,
   RunCommand, RunRecord, RunFinish, ChatTurn, ChatFind, ChatNoPlan, ChatGuard, ChatCreate,
   ChatReadOld, ChatSupersede, ChatLink, ExpireLoop, SweepList, SweepNow,
   SweepWrite, Deadline, Crash, actorVars, vars
<1>2. pipe' = [pipe EXCEPT !.pc = "done"] => pipe'.pc = "done"
  BY DEF TypeOK, PipeRecords
<1> QED
  BY <1>1, <1>2 DEF PipeBusy

LEMMA SweepStarts ==
  ASSUME TypeOK, [Next]_vars, SweepBusy', ~SweepList
  PROVE  SweepBusy
BY SweepMoves DEF SweepNow, SweepWrite, SweepBusy, IdleSweep

LEMMA AloneStep == ASSUME OneAtATime, TypeOK, Alone, [Next]_vars PROVE Alone'
<1>1. ASSUME PipelinePropose PROVE Alone'
  <2>1. ~HandlerBusy /\ UNCHANGED <<cb, chat, sweep>>
    BY <1>1 DEF PipelinePropose, MayStart, OneAtATime
  <2> QED
    BY <2>1, Idle DEF Alone, CallBusy, ChatBusy, SweepBusy
<1>2. ASSUME NEW c \in Calls, CallbackRead(c) PROVE Alone'
  <2>1. ~HandlerBusy /\ UNCHANGED <<pipe, chat, sweep>>
    BY <1>2 DEF CallbackRead, MayStart, OneAtATime
  <2>2. \A d \in Calls : d # c => cb'[d] = cb[d]
    BY <1>2 DEF CallbackRead, TypeOK
  <2> QED
    BY <2>1, <2>2, Idle DEF Alone, CallBusy, ChatBusy, SweepBusy, PipeBusy
<1>3. ASSUME NEW h \in Chats, ChatFind(h) PROVE Alone'
  <2>1. ~HandlerBusy /\ UNCHANGED <<pipe, cb, sweep>>
    BY <1>3 DEF ChatFind, MayStart, OneAtATime
  <2>2. \A k \in Chats : k # h => chat'[k] = chat[k]
    BY <1>3 DEF ChatFind, TypeOK
  <2> QED
    BY <2>1, <2>2, Idle DEF Alone, CallBusy, ChatBusy, SweepBusy, PipeBusy
<1>4. ASSUME SweepList PROVE Alone'
  <2>1. ~HandlerBusy /\ UNCHANGED <<pipe, cb, chat>>
    BY <1>4 DEF SweepList, MayStart, OneAtATime
  <2> QED
    BY <2>1, Idle DEF Alone, CallBusy, ChatBusy, SweepBusy, PipeBusy
<1>5. CASE /\ ~PipelinePropose /\ ~SweepList
           /\ \A c \in Calls : ~CallbackRead(c)
           /\ \A h \in Chats : ~ChatFind(h)
  BY <1>5, CallStarts, ChatStarts, PipeStarts, SweepStarts DEF Alone
<1> QED
  BY <1>1, <1>2, <1>3, <1>4, <1>5

(* While a handler acts, the others are not under way.                     *)
LEMMA OthersRest ==
  ASSUME Alone, SweepRests
  PROVE  /\ \A c \in Calls : CallBusy(c) =>
              /\ \A d \in Calls : CallBusy(d) => d = c
              /\ \A h \in Chats : ~ChatBusy(h)
              /\ sweep.stale = {}
         /\ \A h \in Chats : ChatBusy(h) =>
              /\ \A k \in Chats : ChatBusy(k) => k = h
              /\ \A c \in Calls : ~CallBusy(c)
              /\ sweep.stale = {}
         /\ SweepBusy =>
              /\ \A c \in Calls : ~CallBusy(c)
              /\ \A h \in Chats : ~ChatBusy(h)
BY DEF Alone, SweepRests, SweepBusy

LEMMA SweepRestsStep == ASSUME TypeOK, SweepRests, [Next]_vars PROVE SweepRests'
<1>0. sweep \in SweepRecords
  BY DEF TypeOK
<1>1. CASE sweep' \in {sweep, IdleSweep} \/ SweepList \/ SweepNow
  BY <1>0, <1>1 DEF SweepRests, SweepList, SweepNow, IdleSweep
<1>2. CASE SweepWrite
  BY <1>0, <1>2 DEF SweepRests, SweepWrite, IdleSweep, SweepRecords
<1> QED
  BY <1>1, <1>2, SweepMoves

-----------------------------------------------------------------------------
(* What a handler read as pending stays so until it writes.                *)

LEMMA HeldBefore ==
  ASSUME TypeOK, HeldArePending, [Next]_vars, NEW a \in Approvals, HoldsPending(a)'
  PROVE  status[a] = "pending"
<1>1. ASSUME NEW c \in Calls, cb'[c].pc \in {"read", "decided"}, cb'[c].seen = "pending",
             cb'[c].id = a
      PROVE  status[a] = "pending"
  <2>0. cb \in [Calls -> CallRecords]
    BY DEF TypeOK
  <2>1. CASE cb'[c] = cb[c]
    BY <1>1, <2>1 DEF HeldArePending, HoldsPending
  <2>2. CASE CallbackRead(c)
    <3>1. PICK b \in 1..created, act \in Actions :
            cb' = [cb EXCEPT ![c] = [pc |-> "read", id |-> b, action |-> act,
                                     seen |-> status[b], target |-> "none"]]
      BY <2>2 DEF CallbackRead
    <3>2. cb'[c].id = b /\ cb'[c].seen = status[b]
      BY <2>0, <3>1
    <3> QED
      BY <1>1, <3>2
  <2>3. CASE CallbackDecide(c)
    <3>1. cb[c].pc = "read" /\ cb'[c].seen = cb[c].seen /\ cb'[c].id = cb[c].id
      BY <2>0, <2>3 DEF CallbackDecide, CallRecords
    <3> QED
      BY <1>1, <3>1 DEF HeldArePending, HoldsPending
  <2>4. CASE CallbackWrite(c) \/ CallbackSpawn(c) \/ CallbackFails(c)
    <3>1. cb'[c].pc \in {"granted", "done"}
      BY <2>4, CallFields DEF CallbackWrite, CallbackSpawn, CallbackFails
    <3> QED
      BY <1>1, <3>1
  <2>5. CASE Crash
    BY <1>1, <2>5, CrashFields
  <2> QED
    BY <2>1, <2>2, <2>3, <2>4, <2>5, CallMoves
<1>2. ASSUME NEW h \in Chats, chat'[h].pc = "superseding", chat'[h].parent = a
      PROVE  status[a] = "pending"
  <2>0. chat \in [Chats -> ChatRecords]
    BY DEF TypeOK
  <2>1. CASE chat'[h] = chat[h]
    BY <1>2, <2>1 DEF HeldArePending, HoldsPending
  <2>2. CASE ChatReadOld(h)
    <3>1. PICK p : chat' = [chat EXCEPT ![h].pc = p]
      BY <2>2 DEF ChatReadOld
    <3>2. chat'[h].parent = chat[h].parent /\ chat'[h].pc = p
      BY <2>0, <3>1 DEF ChatRecords
    <3>3. Supersedable(status[chat[h].parent])
      BY <1>2, <2>0, <2>2 DEF ChatReadOld, ChatRecords
    <3> QED
      BY <1>2, <3>2, <3>3 DEF Supersedable
  <2>3. CASE ChatTurn(h) /\ ~ChatReadOld(h)
    <3>1. PICK p \in {"found", "done", "guarded", "created", "linking"} : chat'[h].pc = p
      BY <2>0, <2>3 DEF ChatTurn, ChatFind, ChatNoPlan, ChatGuard, ChatCreate, ChatSupersede,
        ChatLink, ChatRecords
    <3> QED
      BY <1>2, <3>1
  <2>4. CASE Crash
    BY <1>2, <2>4, CrashFields
  <2> QED
    BY <2>1, <2>2, <2>3, <2>4, ChatMoves
<1>3. ASSUME a \in sweep'.stale PROVE status[a] = "pending"
  <2>0. sweep \in SweepRecords
    BY DEF TypeOK
  <2>1. a \in sweep.stale \/ a \in NewestPending
    BY <1>3, <2>0, SweepMoves
       DEF SweepList, SweepNow, SweepWrite, StaleNow, IdleSweep, SweepRecords
  <2> QED
    BY <2>1 DEF HeldArePending, HoldsPending, NewestPending, Pending
<1> QED
  BY <1>1, <1>2, <1>3 DEF HoldsPending

(* The sweep lets go of the row it writes.                                 *)
LEMMA SweepLetsGo ==
  ASSUME TypeOK, SweepWrite, NEW a \in Approvals, status'[a] # status[a]
  PROVE  a \in sweep.stale /\ a \notin sweep'.stale /\ sweep.pc = "writing"
<1>0. sweep \in SweepRecords
  BY DEF TypeOK
<1>1. PICK b \in sweep.stale :
        /\ sweep.pc = "writing" /\ (WriteStatus(b, "expired") \/ WriteLost)
        /\ sweep' = IF sweep.stale = {b} THEN IdleSweep
                    ELSE [sweep EXCEPT !.stale = @ \ {b}]
  BY DEF SweepWrite
<1>2. a = b
  BY <1>1, WriteMoves
<1> QED
  BY <1>0, <1>1, <1>2 DEF IdleSweep, SweepRecords

(* Only the holder of a pending row writes to it, and lets go of it.       *)
LEMMA HeldAfter ==
  ASSUME TypeOK, KnowInv, ExecInv, Alone, SweepRests, OneRun, [Next]_vars,
         NEW a \in Approvals, HoldsPending(a)', status[a] = "pending"
  PROVE  status'[a] = status[a]
<1> SUFFICES ASSUME status'[a] # status[a] PROVE FALSE
  OBVIOUS
<1>1. StatusMove(a)
  BY StatusMoves
<1>2. a # created + 1
  BY NumTypes DEF KnowInv, RowsExist, Approvals
<1>3. ASSUME NEW c \in Calls, CallbackWrite(c), a = cb[c].id PROVE FALSE
  <2>1. CallBusy(c) /\ UNCHANGED <<chat, sweep>>
    BY <1>3 DEF CallbackWrite, CallBusy
  <2>2. cb'[c].pc \in {"granted", "done"}
    BY <1>3, CallFields DEF CallbackWrite
  <2>3. \A d \in Calls : d # c => cb'[d] = cb[d]
    BY <1>3 DEF CallbackWrite, TypeOK
  <2>4. ASSUME NEW d \in Calls, cb'[d].pc \in {"read", "decided"} PROVE FALSE
    BY <2>1, <2>2, <2>3, <2>4, OthersRest DEF CallBusy
  <2>5. ASSUME NEW h \in Chats, chat'[h].pc = "superseding" PROVE FALSE
    BY <2>1, <2>5, OthersRest DEF ChatBusy
  <2>6. a \notin sweep'.stale
    BY <2>1, OthersRest
  <2> QED
    BY <2>4, <2>5, <2>6 DEF HoldsPending
<1>4. ASSUME NEW c \in Calls, RunStart(c) \/ RunFinish(c), a = run[c].id PROVE FALSE
  BY <1>4 DEF RunStart, RunFinish, OneRun, RowOfRun, Settled
<1>5. ASSUME NEW h \in Chats, ChatSupersede(h), a = chat[h].parent PROVE FALSE
  <2>1. ChatBusy(h) /\ UNCHANGED <<cb, sweep>>
    BY <1>5 DEF ChatSupersede, ChatBusy
  <2>2. chat'[h].pc = "linking" /\ \A k \in Chats : k # h => chat'[k] = chat[k]
    BY <1>5 DEF ChatSupersede, TypeOK, ChatRecords
  <2>4. ASSUME NEW d \in Calls, cb'[d].pc \in {"read", "decided"} PROVE FALSE
    BY <2>1, <2>4, OthersRest DEF CallBusy
  <2>5. ASSUME NEW k \in Chats, chat'[k].pc = "superseding" PROVE FALSE
    BY <2>1, <2>2, <2>5, OthersRest DEF ChatBusy
  <2>6. a \notin sweep'.stale
    BY <2>1, OthersRest
  <2> QED
    BY <2>4, <2>5, <2>6 DEF HoldsPending
<1>6. ASSUME SweepWrite PROVE FALSE
  <2>1. a \notin sweep'.stale /\ SweepBusy /\ UNCHANGED <<cb, chat>>
    BY <1>6, SweepLetsGo DEF SweepBusy, SweepWrite
  <2> QED
    BY <2>1, OthersRest DEF HoldsPending, CallBusy, ChatBusy
<1> QED
  BY <1>1, <1>2, <1>3, <1>4, <1>5, <1>6 DEF StatusMove

LEMMA HeldStep ==
  ASSUME TypeOK, KnowInv, ExecInv, SerialInv, [Next]_vars PROVE HeldArePending'
BY HeldBefore, HeldAfter DEF SerialInv, HeldArePending

-----------------------------------------------------------------------------
(* A row that is not pending is moved by its execution only.               *)

LEMMA OnlyRunMoves ==
  ASSUME TypeOK, KnowInv, ExecInv, HeldArePending, [Next]_vars, NEW a \in Approvals,
         status[a] \notin {"none", "pending"}, status'[a] # status[a]
  PROVE  \E c \in Calls :
           /\ run[c].id = a
           /\ \/ RunStart(c) /\ status'[a] = "executing"
              \/ RunFinish(c) /\ status'[a] = FinalStatus(run[c].ok)
<1>1. StatusMove(a)
  BY StatusMoves
<1>2. a # created + 1
  BY NumTypes DEF KnowInv, RowsExist, Approvals
<1>3. ASSUME NEW c \in Calls, CallbackWrite(c) PROVE a # cb[c].id
  BY <1>3 DEF CallbackWrite, KnowInv, CallKnows, HeldArePending, HoldsPending
<1>4. ASSUME NEW h \in Chats, ChatSupersede(h) PROVE a # chat[h].parent
  BY <1>4 DEF ChatSupersede, HeldArePending, HoldsPending
<1>5. a \notin sweep.stale
  BY DEF HeldArePending, HoldsPending
<1> QED
  BY <1>1, <1>2, <1>3, <1>4, <1>5 DEF StatusMove

LEMMA RunOrigin ==
  ASSUME TypeOK, ExecInv, [Next]_vars, NEW c \in Calls, run'[c].pc # "none"
  PROVE  \/ run[c].pc # "none" /\ run'[c].id = run[c].id
         \/ CallbackSpawn(c) /\ run'[c].id = cb[c].id /\ run'[c].pc = "start"
<1>1. CASE run'[c] = run[c]
  BY <1>1
<1>2. CASE Execution(c)
  BY <1>2, RunFrame DEF RunMoves
<1>3. CASE CallbackSpawn(c)
  <2>1. run'[c] = [NoRun EXCEPT !.pc = "start", !.id = cb[c].id]
    BY <1>3 DEF CallbackSpawn, TypeOK
  <2>2. run'[c].pc = "start" /\ run'[c].id = cb[c].id
    BY <2>1 DEF NoRun
  <2> QED
    BY <1>3, <2>2
<1>4. CASE Crash
  BY <1>4 DEF Crash, TypeOK, RunRecords
<1> QED
  BY <1>1, <1>2, <1>3, <1>4, RunChanges

LEMMA RowOfRunStep ==
  ASSUME TypeOK, KnowInv, ExecInv, HeldArePending, OneRun, [Next]_vars,
         NEW c \in Calls
  PROVE  RowOfRun(c)'
<1>0. run[c] \in RunRecords /\ run[c].id \in Approvals
  BY DEF TypeOK, RunRecords
<1>1. CASE run'[c] = run[c]
  <2>1. SUFFICES ASSUME run[c].pc # "none" PROVE status'[run[c].id] = status[run[c].id]
    BY <1>1 DEF OneRun, RowOfRun
  <2>2. status[run[c].id] \notin {"none", "pending"}
    BY <2>1 DEF OneRun, RowOfRun, Settled
  <2>3. ASSUME NEW d \in Calls, run[d].id = run[c].id, RunStart(d) \/ RunFinish(d)
        PROVE  FALSE
    <3>1. d = c
      BY <2>1, <2>3 DEF OneRun, RunsApart, RunStart, RunFinish
    <3>2. RunStart(c) => run'[c].pc \in {"exec", "finish"} /\ run[c].pc = "start"
      BY <1>0 DEF RunStart, TypeOK, RunRecords
    <3>3. RunFinish(c) => run'[c].pc = "done" /\ run[c].pc = "finish"
      BY <1>0 DEF RunFinish, TypeOK, RunRecords
    <3> QED
      BY <1>1, <2>3, <3>1, <3>2, <3>3
  <2> QED
    BY <1>0, <2>2, <2>3, OnlyRunMoves
<1>2. CASE RunStart(c) \/ RunFinish(c)
  <2>1. run[c].pc # "none" /\ run'[c].id = run[c].id
    BY <1>0, <1>2 DEF RunStart, RunFinish, TypeOK, RunRecords
  <2>2. status'[run[c].id] \in {status[run[c].id], "executing", FinalStatus(run[c].ok)}
    BY <1>0, <1>2 DEF RunStart, RunFinish, WriteStatus, WriteLost, TypeOK
  <2> QED
    BY <2>1, <2>2 DEF OneRun, RowOfRun, FinalStatus, Settled
<1>3. CASE RunCommand(c) \/ RunRecord(c)
  <2>1. status' = status /\ run[c].pc \in {"exec", "record"}
    BY <1>3 DEF RunCommand, RunRecord, storeVars
  <2>2. run'[c].id = run[c].id
    BY <1>3, RunFields DEF Execution, RunCommand, RunRecord, RunFinish
  <2> QED
    BY <2>1, <2>2 DEF OneRun, RowOfRun
<1>4. CASE CallbackSpawn(c)
  <2>1. run'[c] = [NoRun EXCEPT !.pc = "start", !.id = cb[c].id]
    BY <1>4 DEF CallbackSpawn, TypeOK
  <2>2. run'[c].pc = "start" /\ run'[c].id = cb[c].id
    BY <2>1 DEF NoRun
  <2>3. status' = status /\ status[cb[c].id] = "approved"
    BY <1>4 DEF CallbackSpawn, storeVars, OneRun, RowOfCall
  <2> QED
    BY <2>2, <2>3 DEF RowOfRun, Settled
<1>5. CASE Crash
  <2>1. /\ status' = status /\ run'[c].id = run[c].id
        /\ run'[c].pc = IF run[c].pc = "none" THEN "none" ELSE "done"
    BY <1>0, <1>5 DEF Crash, storeVars, TypeOK, RunRecords
  <2> QED
    BY <2>1 DEF OneRun, RowOfRun
<1> QED
  BY <1>1, <1>2, <1>3, <1>4, <1>5, RunChanges DEF Execution

LEMMA RowOfCallStep ==
  ASSUME OneAtATime, TypeOK, KnowInv, ExecInv, Alone, HeldArePending, OneRun, [Next]_vars,
         NEW c \in Calls
  PROVE  RowOfCall(c)'
<1> SUFFICES ASSUME cb'[c].pc = "granted"
             PROVE  /\ status'[cb'[c].id] = "approved"
                    /\ \A d \in Calls : run'[d].pc # "none" => run'[d].id # cb'[c].id
  BY DEF RowOfCall
<1>0. cb[c] \in CallRecords /\ cb[c].id \in Approvals /\ cb \in [Calls -> CallRecords]
  BY DEF TypeOK, CallRecords
<1>1. CASE cb'[c] = cb[c]
  <2>1. /\ status[cb[c].id] = "approved"
        /\ \A d \in Calls : run[d].pc # "none" => run[d].id # cb[c].id
    BY <1>1 DEF OneRun, RowOfCall
  <2>2. status'[cb[c].id] = status[cb[c].id]
    BY <1>0, <2>1, OnlyRunMoves DEF RunStart, RunFinish
  <2>3. ASSUME NEW d \in Calls, CallbackSpawn(d) PROVE FALSE
    <3>1. d = c
      BY <1>1, <2>3 DEF CallbackSpawn, Alone, CallBusy
    <3>2. cb' = [cb EXCEPT ![d].pc = "done"] /\ cb[d].pc = "granted"
      BY <2>3 DEF CallbackSpawn
    <3>3. cb'[d].pc = "done"
      BY <3>2, CallFields
    <3> QED
      BY <1>1, <3>1, <3>2, <3>3
  <2> QED
    BY <1>1, <2>1, <2>2, <2>3, RunOrigin
<1>2. CASE CallbackWrite(c)
  <2>1. cb'[c].id = cb[c].id /\ Granted(cb[c]) /\ cb[c].pc = "decided" /\ UNCHANGED run
    BY <1>2, CallFields DEF CallbackWrite
  <2>2. cb[c].target = "approved" /\ cb[c].seen = "pending"
    BY <2>1 DEF ExecInv, CallInv, Approves
  <2>3. status'[cb[c].id] = "approved"
    BY <1>0, <1>2, <2>2 DEF CallbackWrite, WriteStatus, TypeOK
  <2>4. status[cb[c].id] = "pending"
    BY <1>0, <2>1, <2>2 DEF HeldArePending, HoldsPending
  <2> QED
    BY <2>1, <2>3, <2>4 DEF OneRun, RowOfRun, Settled
<1>3. CASE CallbackRead(c) \/ CallbackDecide(c)
  <2>1. cb'[c].pc \in {"read", "decided", "done"}
    BY <1>0, <1>3 DEF CallbackRead, CallbackDecide, CallRecords
  <2> QED
    BY <2>1
<1>4. CASE CallbackSpawn(c) \/ CallbackFails(c)
  BY <1>4, CallFields DEF CallbackSpawn, CallbackFails
<1>5. CASE Crash
  BY <1>5, CrashFields
<1> QED
  BY <1>1, <1>2, <1>3, <1>4, <1>5, CallMoves

LEMMA RunsApartStep ==
  ASSUME TypeOK, ExecInv, Alone, OneRun, [Next]_vars PROVE RunsApart'
<1> SUFFICES ASSUME NEW c \in Calls, NEW d \in Calls, run'[c].pc # "none",
                    run'[d].pc # "none", run'[c].id = run'[d].id
             PROVE  c = d
  BY DEF RunsApart
<1>1. CASE CallbackSpawn(c) /\ CallbackSpawn(d)
  BY <1>1 DEF CallbackSpawn, Alone, CallBusy
<1>2. CASE run[c].pc # "none" /\ run'[c].id = run[c].id /\ run[d].pc # "none" /\ run'[d].id = run[d].id
  BY <1>2 DEF OneRun, RunsApart
<1>3. ASSUME NEW e \in Calls, NEW f \in Calls, CallbackSpawn(e), run'[e].id = cb[e].id,
             run[f].pc # "none", run'[f].id = run[f].id, run'[e].id = run'[f].id
      PROVE  FALSE
  BY <1>3 DEF CallbackSpawn, OneRun, RowOfCall
<1> QED
  BY <1>1, <1>2, <1>3, RunOrigin

LEMMA OneRunStep ==
  ASSUME OneAtATime, TypeOK, KnowInv, ExecInv, SerialInv, [Next]_vars PROVE OneRun'
<1>1. Alone /\ HeldArePending /\ OneRun
  BY DEF SerialInv
<1> QED
  BY <1>1, RowOfRunStep, RowOfCallStep, RunsApartStep DEF OneRun

-----------------------------------------------------------------------------
(* The commands an execution has not come to yet.                          *)

LEMMA RanMoves ==
  ASSUME TypeOK, [Next]_vars, NEW c \in Calls, NEW a \in Approvals, NEW i \in Steps,
         c \in ran'[a][i]
  PROVE  \/ c \in ran[a][i]
         \/ RunCommand(c) /\ a = run[c].id /\ i = run[c].step
<1>1. ran' = ran \/ \E d \in Calls : RunCommand(d)
  BY DEF Next, Pipeline, PipelinePropose, PipelineConverse, Callback, CallbackRead,
    CallbackDecide, CallbackWrite, CallbackSpawn, CallbackFails, Execution, RunStart,
    RunRecord, RunFinish, ChatTurn, ChatFind, ChatNoPlan, ChatGuard, ChatCreate,
    ChatReadOld, ChatSupersede, ChatLink, ExpireLoop, SweepList, SweepNow, SweepWrite,
    Deadline, Crash, vars
<1>2. ASSUME NEW d \in Calls, RunCommand(d), c \notin ran[a][i]
      PROVE  d = c /\ a = run[d].id /\ i = run[d].step
  <2>1. ran' = [ran EXCEPT ![run[d].id][run[d].step] = @ \cup {d}]
    BY <1>2 DEF RunCommand
  <2> QED
    BY <1>2, <2>1 DEF TypeOK
<1> QED
  BY <1>1, <1>2

LEMMA AheadStep ==
  ASSUME TypeOK, ExecInv, AheadInv, [Next]_vars PROVE AheadInv'
<1> SUFFICES ASSUME NEW c \in Calls PROVE Ahead(c)'
  BY DEF AheadInv
<1>0. run[c] \in RunRecords /\ run[c].id \in Approvals /\ run[c].step \in Nat
  BY DEF TypeOK, RunRecords
<1>1. ASSUME ~RunCommand(c), NEW a \in Approvals, NEW i \in Steps, c \in ran'[a][i]
      PROVE  c \in ran[a][i]
  BY <1>1, RanMoves
<1>2. CASE run'[c] = run[c]
  <2>1. ~RunCommand(c)
    <3>1. RunCommand(c) => run'[c].pc = "record" /\ run[c].pc = "exec"
      BY DEF RunCommand, TypeOK, RunRecords
    <3> QED
      BY <1>2, <3>1
  <2> QED
    BY <1>0, <1>1, <1>2, <2>1 DEF AheadInv, Ahead
<1>3. CASE RunStart(c)
  <2>1. ~RunCommand(c) /\ run[c].pc = "start"
    BY <1>3 DEF RunStart, RunCommand
  <2>2. run'[c].pc \in {"exec", "finish"} /\ run'[c].id = run[c].id
    BY <1>0, <1>3 DEF RunStart, TypeOK, RunRecords
  <2> QED
    BY <1>0, <1>1, <2>1, <2>2 DEF AheadInv, Ahead
<1>4. CASE RunCommand(c)
  <2>1. run'[c].pc = "record" /\ run'[c].id = run[c].id /\ run'[c].step = run[c].step
    BY <1>0, <1>4 DEF RunCommand, TypeOK, RunRecords
  <2>2. ASSUME NEW j \in Steps, j > run[c].step, c \in ran'[run[c].id][j] PROVE FALSE
    <3>1. c \in ran[run[c].id][j]
      BY <1>0, <2>2, RanMoves DEF Steps
    <3>2. j >= run[c].step
      BY <1>0, <2>2 DEF Steps
    <3> QED
      BY <1>4, <3>1, <3>2 DEF RunCommand, AheadInv, Ahead
  <2> QED
    BY <2>1, <2>2 DEF Ahead
<1>5. CASE RunRecord(c)
  <2>1. ~RunCommand(c) /\ run[c].pc = "record" /\ run'[c] = AfterRecord(run[c])
    BY <1>5 DEF RunRecord, RunCommand, TypeOK
  <2>2. \/ run'[c].pc = "finish"
        \/ run'[c].pc = "exec" /\ run'[c].step = run[c].step + 1 /\ run'[c].id = run[c].id
    BY <1>0, <2>1 DEF AfterRecord, RunRecords
  <2>3. \A j \in Steps : j >= run[c].step + 1 => j > run[c].step
    BY <1>0 DEF Steps
  <2> QED
    BY <1>0, <1>1, <2>1, <2>2, <2>3 DEF AheadInv, Ahead
<1>6. CASE RunFinish(c) \/ Crash
  <2>1. run'[c].pc \in {"none", "done"}
    BY <1>0, <1>6 DEF RunFinish, Crash, TypeOK, RunRecords
  <2> QED
    BY <2>1 DEF Ahead
<1>7. CASE CallbackSpawn(c)
  <2>1. run'[c] = [NoRun EXCEPT !.pc = "start", !.id = cb[c].id] /\ ran' = ran
    BY <1>7 DEF CallbackSpawn, TypeOK
  <2>2. run'[c].pc = "start" /\ run'[c].id = cb[c].id /\ cb[c].id \in Approvals
    BY <2>1 DEF NoRun, TypeOK, CallRecords
  <2>3. run[c].pc = "none"
    BY <1>7 DEF CallbackSpawn, ExecInv, RunInv
  <2> QED
    BY <2>1, <2>2, <2>3 DEF Ahead, ExecInv, RanInv
<1> QED
  BY <1>2, <1>3, <1>4, <1>5, <1>6, <1>7, RunChanges DEF Execution

-----------------------------------------------------------------------------
(* When no store call fails, the row of an execution is as far as it is.   *)

LEMMA NoFaults == ASSUME Serial, TypeOK PROVE ~CallFails /\ ~WriteLost
BY DEF Serial, TypeOK, CallFails, WriteLost

LEMMA RowSaysStep ==
  ASSUME Serial, TypeOK, KnowInv, ExecInv, HeldArePending, OneRun, RowsSay, [Next]_vars,
         NEW c \in Calls
  PROVE  RowSays(c)'
<1>0. run[c] \in RunRecords /\ run[c].id \in Approvals
  BY DEF TypeOK, RunRecords
<1>1. CASE run'[c] = run[c]
  <2>1. SUFFICES ASSUME run[c].pc # "none" PROVE status'[run[c].id] = status[run[c].id]
    BY <1>1 DEF RowsSay, RowSays
  <2>2. status[run[c].id] \notin {"none", "pending"}
    BY <2>1 DEF OneRun, RowOfRun, Settled
  <2>3. ASSUME NEW d \in Calls, run[d].id = run[c].id, RunStart(d) \/ RunFinish(d)
        PROVE  FALSE
    <3>1. d = c
      BY <2>1, <2>3 DEF OneRun, RunsApart, RunStart, RunFinish
    <3>2. RunStart(c) => run'[c].pc \in {"exec", "finish"} /\ run[c].pc = "start"
      BY <1>0 DEF RunStart, TypeOK, RunRecords
    <3>3. RunFinish(c) => run'[c].pc = "done" /\ run[c].pc = "finish"
      BY <1>0 DEF RunFinish, TypeOK, RunRecords
    <3> QED
      BY <1>1, <2>3, <3>1, <3>2, <3>3
  <2> QED
    BY <1>0, <2>2, <2>3, OnlyRunMoves
<1>2. CASE RunStart(c)
  <2>1. status'[run[c].id] = "executing"
    BY <1>0, <1>2, NoFaults DEF RunStart, WriteStatus, TypeOK
  <2>2. run'[c].pc \in {"exec", "finish"} /\ run'[c].id = run[c].id
    BY <1>0, <1>2 DEF RunStart, TypeOK, RunRecords
  <2> QED
    BY <2>1, <2>2 DEF RowSays
<1>3. CASE RunCommand(c) \/ RunRecord(c)
  <2>1. status' = status /\ run[c].pc \in {"exec", "record"}
    BY <1>3 DEF RunCommand, RunRecord, storeVars
  <2>2. run'[c].pc \in {"exec", "record", "finish"} /\ run'[c].id = run[c].id
    BY <1>3, RunFields DEF Execution, RunCommand, RunRecord, RunFinish
  <2> QED
    BY <2>1, <2>2 DEF RowsSay, RowSays
<1>4. CASE RunFinish(c)
  <2>1. status'[run[c].id] = FinalStatus(run[c].ok)
    BY <1>0, <1>4, NoFaults DEF RunFinish, WriteStatus, TypeOK
  <2>2. run'[c].pc = "done" /\ run'[c].id = run[c].id
    BY <1>0, <1>4 DEF RunFinish, TypeOK, RunRecords
  <2> QED
    BY <2>1, <2>2 DEF RowSays, FinalStatus
<1>5. CASE CallbackSpawn(c)
  <2>1. run'[c] = [NoRun EXCEPT !.pc = "start", !.id = cb[c].id]
    BY <1>5 DEF CallbackSpawn, TypeOK
  <2>2. run'[c].pc = "start" /\ run'[c].id = cb[c].id
    BY <2>1 DEF NoRun
  <2>3. status' = status /\ status[cb[c].id] = "approved"
    BY <1>5 DEF CallbackSpawn, storeVars, OneRun, RowOfCall
  <2> QED
    BY <2>2, <2>3 DEF RowSays
<1>6. CASE Crash
  <2>1. /\ status' = status /\ run'[c].id = run[c].id
        /\ run'[c].pc = IF run[c].pc = "none" THEN "none" ELSE "done"
    BY <1>0, <1>6 DEF Crash, storeVars, TypeOK, RunRecords
  <2> QED
    BY <2>1 DEF RowsSay, RowSays
<1> QED
  BY <1>1, <1>2, <1>3, <1>4, <1>5, <1>6, RunChanges DEF Execution

-----------------------------------------------------------------------------
(* The invariant, and the abstract lifecycle.                              *)

LEMMA SerialInit == Init => SerialInv
BY DEF Init, SerialInv, Alone, CallBusy, ChatBusy, PipeBusy, SweepBusy, HeldArePending,
       HoldsPending, SweepRests, OneRun, RowOfRun, RowOfCall, RunsApart, AheadInv, Ahead,
       IdleCall, IdleChat, IdleSweep, NoRun

LEMMA SerialStep ==
  ASSUME OneAtATime, TypeOK, ExecInv, KnowInv, SerialInv, [Next]_vars PROVE SerialInv'
BY AloneStep, HeldStep, SweepRestsStep, OneRunStep, AheadStep DEF SerialInv

LEMMA SerialAlways ==
  ASSUME OneAtATime PROVE Spec => [](TypeOK /\ ExecInv /\ KnowInv /\ SerialInv)
<1>1. TypeOK /\ ExecInv /\ KnowInv /\ SerialInv /\ [Next]_vars => SerialInv'
  BY SerialStep
<1> QED
  BY <1>1, SerialInit, KnowAlways, PTL DEF Spec

LEMMA SaysAlways ==
  ASSUME Serial PROVE Spec => [](TypeOK /\ ExecInv /\ KnowInv /\ SerialInv /\ RowsSay)
<1>1. Init => RowsSay
  BY DEF Init, RowsSay, RowSays, NoRun
<1>2. TypeOK /\ ExecInv /\ KnowInv /\ SerialInv /\ RowsSay /\ [Next]_vars => RowsSay'
  BY RowSaysStep DEF SerialInv, RowsSay
<1>3. Spec => [](TypeOK /\ ExecInv /\ KnowInv /\ SerialInv)
  BY SerialAlways DEF Serial
<1> QED
  BY <1>1, <1>2, <1>3, PTL DEF Spec

(* The commands before the next one were run by this execution alone, and  *)
(* nobody has run the next one.                                            *)
LEMMA RunsNext ==
  ASSUME TypeOK, ExecInv, SerialInv, RowsSay, NEW c \in Calls, run[c].pc = "exec"
  PROVE  LET a == run[c].id
             i == run[c].step
         IN  /\ i \in Steps /\ ran[a][i] = {} /\ status[a] = "executing"
             /\ \A j \in 1..(i - 1) : ran[a][j] = {c}
<1> DEFINE a == run[c].id
           i == run[c].step
<1>1. i \in Steps /\ DidSteps(c, i - 1) /\ a \in Approvals
  BY DEF TypeOK, RunRecords, ExecInv, ProgressInv, Progress
<1>2. status[a] = "executing"
  BY DEF RowsSay, RowSays
<1>3. ASSUME NEW j \in Steps PROVE ran[a][j] \subseteq {c}
  <2>1. \A d \in ran[a][j] : d \in Calls /\ run[d].pc # "none" /\ run[d].id = a
    BY <1>1 DEF TypeOK, ExecInv, RanInv
  <2> QED
    BY <2>1 DEF SerialInv, OneRun, RunsApart
<1>4. c \notin ran[a][i]
  BY <1>1 DEF SerialInv, AheadInv, Ahead, Steps
<1>5. \A j \in 1..(i - 1) : j \in Steps /\ j <= i - 1
  BY <1>1, BoundsAssumption DEF Steps
<1>6. \A j \in 1..(i - 1) : c \in ran[a][j]
  BY <1>1, <1>5 DEF DidSteps
<1> QED
  BY <1>1, <1>2, <1>3, <1>4, <1>5, <1>6

LEMMA LifecycleStep ==
  ASSUME Serial, TypeOK, ExecInv, KnowInv, SerialInv, RowsSay, [Next]_vars
  PROVE  [Lifecycle!Next]_(Lifecycle!lcVars)
<1> USE DEF Lifecycle!lcVars
<1>1. ASSUME NEW a \in Approvals, status[a] = "pending", ran' = ran,
             NEW s \in {"approved", "rejected", "modified", "expired", "superseded"},
             status' = [status EXCEPT ![a] = s]
      PROVE  Lifecycle!Next
  <2>1. s \in Lifecycle!ValidTransitions(status[a]) \ {"completed"}
    BY <1>1 DEF Lifecycle!ValidTransitions
  <2> QED
    BY <1>1, <2>1 DEF Lifecycle!Next, Lifecycle!Move
<1>2. ASSUME NEW p, InsertPending(p), ran' = ran PROVE Lifecycle!Next
  <2>1. created + 1 \in Approvals /\ status[created + 1] = "none"
    BY <1>2, NumTypes, BoundsAssumption DEF InsertPending, Approvals, KnowInv, RowsExist
  <2> QED
    BY <1>2, <2>1 DEF InsertPending, Lifecycle!Next, Lifecycle!Create
<1>3. CASE Pipeline
  BY <1>2, <1>3 DEF Pipeline, PipelinePropose, PipelineConverse
<1>4. ASSUME NEW c \in Calls, Callback(c) PROVE [Lifecycle!Next]_(Lifecycle!lcVars)
  <2>1. CASE CallbackWrite(c)
    <3>1. /\ status[cb[c].id] = "pending" /\ cb[c].id \in Approvals
          /\ cb[c].target \in {"approved", "rejected", "modified", "expired"}
      BY <2>1 DEF CallbackWrite, KnowInv, CallKnows, SerialInv, HeldArePending, HoldsPending,
        TypeOK, CallRecords
    <3>2. ran' = ran /\ status' = [status EXCEPT ![cb[c].id] = cb[c].target]
      BY <2>1 DEF CallbackWrite, WriteStatus
    <3> QED
      BY <1>1, <3>1, <3>2
  <2>2. CASE ~CallbackWrite(c)
    BY <1>4, <2>2 DEF Callback, CallbackRead, CallbackDecide, CallbackSpawn, CallbackFails,
      storeVars
  <2> QED
    BY <2>1, <2>2
<1>5. ASSUME NEW c \in Calls, Execution(c) PROVE [Lifecycle!Next]_(Lifecycle!lcVars)
  <2>0. run[c].id \in Approvals
    BY DEF TypeOK, RunRecords
  <2>1. CASE RunStart(c)
    <3>1. status' = [status EXCEPT ![run[c].id] = "executing"] /\ ran' = ran
      BY <2>1, NoFaults DEF RunStart, WriteStatus
    <3>2. status[run[c].id] = "approved"
      BY <2>1 DEF RunStart, RowsSay, RowSays
    <3>3. "executing" \in Lifecycle!ValidTransitions(status[run[c].id]) \ {"completed"}
      BY <3>2 DEF Lifecycle!ValidTransitions
    <3> QED
      BY <2>0, <3>1, <3>3 DEF Lifecycle!Next, Lifecycle!Move
  <2>2. CASE RunCommand(c)
    <3>1. status' = status /\ run[c].pc = "exec"
      BY <2>2 DEF RunCommand, storeVars
    <3>2. \/ ran' = ran
          \/ ran' = [ran EXCEPT ![run[c].id][run[c].step] = @ \cup {c}]
      BY <2>2 DEF RunCommand
    <3>3. CASE ran' = [ran EXCEPT ![run[c].id][run[c].step] = @ \cup {c}]
      <4>1. /\ run[c].step \in Steps /\ ran[run[c].id][run[c].step] = {}
            /\ status[run[c].id] = "executing"
            /\ \A j \in 1..(run[c].step - 1) : ran[run[c].id][j] = {c}
        BY <3>1, RunsNext
      <4>2. ran' = [ran EXCEPT ![run[c].id][run[c].step] = {c}]
        BY <2>0, <3>3, <4>1 DEF TypeOK
      <4>3. run[c].step \in Lifecycle!Steps
        BY <4>1 DEF Lifecycle!Steps, Steps
      <4>4. Lifecycle!RunNext(run[c].id)
        BY <3>1, <4>1, <4>2, <4>3 DEF Lifecycle!RunNext
      <4> QED
        BY <2>0, <4>4 DEF Lifecycle!Next
    <3> QED
      BY <3>1, <3>2, <3>3
  <2>3. CASE RunRecord(c)
    BY <2>3 DEF RunRecord
  <2>4. CASE RunFinish(c)
    <3>1. status' = [status EXCEPT ![run[c].id] = FinalStatus(run[c].ok)] /\ ran' = ran
      BY <2>4, NoFaults DEF RunFinish, WriteStatus
    <3>2. status[run[c].id] = "executing"
      BY <2>4 DEF RunFinish, RowsSay, RowSays
    <3>3. CASE run[c].ok
      <4>1. \A i \in Steps : c \in ran[run[c].id][i]
        BY <2>4, <3>3, BoundsAssumption
           DEF RunFinish, ExecInv, ProgressInv, Progress, DidSteps, Steps
      <4>2. Lifecycle!Complete(run[c].id)
        BY <3>1, <3>2, <3>3, <4>1
           DEF Lifecycle!Complete, Lifecycle!Steps, Steps, FinalStatus
      <4> QED
        BY <2>0, <4>2 DEF Lifecycle!Next
    <3>4. CASE ~run[c].ok
      <4>1. "failed" \in Lifecycle!ValidTransitions(status[run[c].id]) \ {"completed"}
        BY <3>2 DEF Lifecycle!ValidTransitions
      <4> QED
        BY <2>0, <3>1, <3>4, <4>1 DEF Lifecycle!Next, Lifecycle!Move, FinalStatus
    <3> QED
      BY <3>3, <3>4
  <2> QED
    BY <1>5, <2>1, <2>2, <2>3, <2>4 DEF Execution
<1>6. ASSUME NEW h \in Chats, ChatTurn(h) PROVE [Lifecycle!Next]_(Lifecycle!lcVars)
  <2>1. CASE ChatSupersede(h)
    <3>1. status' = [status EXCEPT ![chat[h].parent] = "superseded"] /\ ran' = ran
      BY <2>1, NoFaults DEF ChatSupersede, WriteStatus
    <3>2. chat[h].parent \in Approvals
      BY <2>1 DEF ChatSupersede, KnowInv, ChatKnows, TypeOK, ChatRecords, Ids
    <3>3. status[chat[h].parent] = "pending"
      BY <2>1, <3>2 DEF ChatSupersede, SerialInv, HeldArePending, HoldsPending
    <3> QED
      BY <1>1, <3>1, <3>2, <3>3
  <2>2. CASE ChatCreate(h)
    BY <1>2, <2>2 DEF ChatCreate
  <2>3. CASE ~ChatSupersede(h) /\ ~ChatCreate(h)
    BY <1>6, <2>3 DEF ChatTurn, ChatFind, ChatNoPlan, ChatGuard, ChatReadOld, ChatLink, storeVars
  <2> QED
    BY <2>1, <2>2, <2>3
<1>7. CASE ExpireLoop
  <2>1. CASE SweepWrite
    <3>1. PICK a \in sweep.stale : WriteStatus(a, "expired")
      BY <2>1, NoFaults DEF SweepWrite
    <3>2. a \in Approvals
      BY <3>1 DEF TypeOK, SweepRecords
    <3>3. status[a] = "pending" /\ status' = [status EXCEPT ![a] = "expired"] /\ ran' = ran
      BY <2>1, <3>1, <3>2 DEF SweepWrite, WriteStatus, SerialInv, HeldArePending, HoldsPending
    <3> QED
      BY <1>1, <3>2, <3>3
  <2>2. CASE ~SweepWrite
    BY <1>7, <2>2 DEF ExpireLoop, SweepList, SweepNow, storeVars
  <2> QED
    BY <2>1, <2>2
<1> QED
  BY <1>3, <1>4, <1>5, <1>6, <1>7 DEF Next, Deadline, Crash, storeVars, vars

(* When handlers do not overlap and no store call fails, the approval      *)
(* subsystem implements the abstract lifecycle of a plan: rows move along  *)
(* the transition table, and each command runs at most once, in order, and *)
(* only while its plan is executing, across any number of restarts.        *)
THEOREM SerialLifecycle == ASSUME Serial PROVE Spec => ImplementsLifecycle
<1>1. Init => Lifecycle!Init
  BY DEF Init, Lifecycle!Init, Steps, Lifecycle!Steps
<1>2. TypeOK /\ ExecInv /\ KnowInv /\ SerialInv /\ RowsSay /\ [Next]_vars
        => [Lifecycle!Next]_(Lifecycle!lcVars)
  BY LifecycleStep
<1> QED
  BY <1>1, <1>2, SaysAlways, PTL DEF Spec, ImplementsLifecycle, Lifecycle!Spec

(* Without overlap a command is handed over once: a second approval finds  *)
(* the row settled and is refused, also when the write of a status or of   *)
(* the log was lost, and after a restart in the middle of the plan.        *)
THEOREM SerialRunsOnce == ASSUME OneAtATime PROVE Spec => []ExecutedAtMostOnce
<1>1. TypeOK /\ ExecInv /\ KnowInv /\ SerialInv => ExecutedAtMostOnce
  <2> SUFFICES ASSUME TypeOK, ExecInv, SerialInv, NEW a \in Approvals, NEW i \in Steps,
                      NEW c \in ran[a][i], NEW d \in ran[a][i]
               PROVE  c = d
    BY DEF ExecutedAtMostOnce
  <2>1. c \in Calls /\ d \in Calls
    BY DEF TypeOK
  <2>2. run[c].pc # "none" /\ run[c].id = a /\ run[d].pc # "none" /\ run[d].id = a
    BY <2>1 DEF ExecInv, RanInv
  <2> QED
    BY <2>1, <2>2 DEF SerialInv, OneRun, RunsApart
<1> QED
  BY <1>1, SerialAlways, PTL

(* Nor does a plan run that was turned down, changed, withdrawn or expired *)
(* when the row is looked at afterwards: where a command has run the row   *)
(* says approved, executing, completed or failed, whatever was lost.       *)
RunIsSettled == \A a \in Approvals : \A i \in Steps : ran[a][i] # {} => status[a] \in Settled

THEOREM SerialRunIsSettled == ASSUME OneAtATime PROVE Spec => []RunIsSettled
<1>1. TypeOK /\ ExecInv /\ KnowInv /\ SerialInv => RunIsSettled
  <2> SUFFICES ASSUME TypeOK, ExecInv, SerialInv, NEW a \in Approvals, NEW i \in Steps,
                      NEW c \in ran[a][i]
               PROVE  status[a] \in Settled
    BY DEF RunIsSettled
  <2>1. c \in Calls
    BY DEF TypeOK
  <2>2. run[c].pc # "none" /\ run[c].id = a
    BY <2>1 DEF ExecInv, RanInv
  <2> QED
    BY <2>1, <2>2 DEF SerialInv, OneRun, RowOfRun
<1> QED
  BY <1>1, SerialAlways, PTL

-----------------------------------------------------------------------------
(* One plan to decide on.                                                  *)

(* Rows are inserted by the pipeline and by chat turns.                    *)
LEMMA Inserts ==
  ASSUME TypeOK, [Next]_vars
  PROVE  \/ created' = created
         \/ created' = created + 1 /\ PipelinePropose
         \/ \E h \in Chats :
              created' = created + 1 /\ ChatCreate(h) /\ InsertPending(RevisionParent(h))
<1>1. \/ created' = created
      \/ InsertPending(NoId) /\ PipelinePropose
      \/ \E h \in Chats : ChatCreate(h) /\ InsertPending(RevisionParent(h))
  BY DEF Next, Pipeline, PipelinePropose, PipelineConverse, Callback, CallbackRead,
    CallbackDecide, CallbackWrite, CallbackSpawn, CallbackFails, Execution, RunStart,
    RunCommand, RunRecord, RunFinish, ChatTurn, ChatFind, ChatNoPlan, ChatGuard, ChatCreate,
    ChatReadOld, ChatSupersede, ChatLink, ExpireLoop, SweepList, SweepNow, SweepWrite,
    Deadline, Crash, storeVars, vars
<1> QED
  BY <1>1 DEF InsertPending

LEMMA ConvChanges ==
  ASSUME [Next]_vars
  PROVE  \/ conv' = conv
         \/ PipelineConverse /\ conv' = pipe.id
         \/ \E h \in Chats : ChatLink(h) /\ conv' = chat[h].new
BY DEF Next, Pipeline, PipelinePropose, PipelineConverse, Callback, CallbackRead,
   CallbackDecide, CallbackWrite, CallbackSpawn, CallbackFails, Execution, RunStart,
   RunCommand, RunRecord, RunFinish, ChatTurn, ChatFind, ChatNoPlan, ChatGuard, ChatCreate,
   ChatReadOld, ChatSupersede, ChatLink, LinkTarget, ExpireLoop, SweepList, SweepNow,
   SweepWrite, Deadline, Crash, storeVars, actorVars, vars

LEMMA PipeChanges ==
  ASSUME [Next]_vars, ~Crash
  PROVE  pipe' = pipe \/ PipelinePropose \/ PipelineConverse
BY DEF Next, Pipeline, Callback, CallbackRead,
   CallbackDecide, CallbackWrite, CallbackSpawn, CallbackFails, Execution, RunStart,
   RunCommand, RunRecord, RunFinish, ChatTurn, ChatFind, ChatNoPlan, ChatGuard, ChatCreate,
   ChatReadOld, ChatSupersede, ChatLink, ExpireLoop, SweepList, SweepNow,
   SweepWrite, Deadline, actorVars, vars

Orderly == PendingIsLast /\ ConvIsLast /\ BeforePipeline /\ TurnIsLast

LEMMA PendingStep ==
  ASSUME Serial, ~ScanFails, TypeOK, ExecInv, KnowInv, SerialInv, Orderly, [Next]_vars, ~Crash
  PROVE  PendingIsLast'
<1> SUFFICES ASSUME NEW a \in Approvals, status'[a] = "pending"
             PROVE  a = created' \/ \E h \in Chats : Withdrawing(h)' /\ a = chat'[h].parent
  BY DEF PendingIsLast
<1>0. a # 0 /\ chat \in [Chats -> ChatRecords]
  BY DEF Approvals, TypeOK
<1>1. CASE status[a] # "pending"
  <2>1. ASSUME NEW c \in Calls, CallbackWrite(c) PROVE cb[c].target # "pending"
    BY <2>1 DEF KnowInv, CallKnows, CallbackWrite
  <2>2. ASSUME NEW c \in Calls PROVE FinalStatus(run[c].ok) # "pending"
    BY DEF FinalStatus
  <2> QED
    BY <1>1, <2>1, <2>2, StatusMoves DEF StatusMove
<1>2. CASE status[a] = "pending" /\ a = created
  <2>1. CASE PipelinePropose
    BY <1>0, <1>2, <2>1 DEF Orderly, BeforePipeline, PipelinePropose
  <2>2. ASSUME NEW h \in Chats, ChatCreate(h), InsertPending(RevisionParent(h))
        PROVE  Withdrawing(h)' /\ a = chat'[h].parent
    <3>1. chat[h].parent = created /\ chat[h].parent # NoId
      BY <1>0, <1>2, <2>2 DEF ChatCreate, Orderly, TurnIsLast, NoId
    <3>2. chat' = [chat EXCEPT ![h].new = created + 1, ![h].pc = "created"]
      BY <2>2, <3>1, FailsOrInserts DEF ChatCreate
    <3>3. chat'[h] = [chat[h] EXCEPT !.new = created + 1, !.pc = "created"]
      BY <1>0, <3>2
    <3>4. chat'[h].pc = "created" /\ chat'[h].parent = chat[h].parent
      BY <1>0, <3>3 DEF ChatRecords
    <3> QED
      BY <1>2, <3>1, <3>4 DEF Withdrawing
  <2> QED
    BY <1>2, <2>1, <2>2, Inserts
<1>3. ASSUME status[a] = "pending", NEW h \in Chats, Withdrawing(h), a = chat[h].parent
      PROVE  Withdrawing(h)' /\ a = chat'[h].parent
  <2>1. CASE chat'[h] = chat[h]
    BY <1>3, <2>1 DEF Withdrawing
  <2>2. CASE ChatReadOld(h)
    <3>1. chat' = [chat EXCEPT ![h].pc = "superseding"]
      BY <1>3, <2>2, NoFaults DEF ChatReadOld, RowReadFails, Supersedable
    <3>2. chat'[h].pc = "superseding" /\ chat'[h].parent = chat[h].parent
      BY <1>0, <3>1 DEF ChatRecords
    <3> QED
      BY <1>3, <3>2 DEF Withdrawing
  <2>3. CASE ChatSupersede(h)
    <3>1. status'[a] = "superseded"
      BY <1>3, <2>3, NoFaults DEF ChatSupersede, WriteStatus, TypeOK
    <3> QED
      BY <3>1
  <2>4. ChatTurn(h) => ChatReadOld(h) \/ ChatSupersede(h)
    BY <1>3 DEF ChatTurn, Withdrawing, ChatFind, ChatNoPlan, ChatGuard, ChatCreate, ChatLink
  <2> QED
    BY <2>1, <2>2, <2>3, <2>4, ChatMoves
<1> QED
  BY <1>1, <1>2, <1>3 DEF Orderly, PendingIsLast

LEMMA ConvStep ==
  ASSUME Serial, TypeOK, Orderly, [Next]_vars, ~Crash
  PROVE  ConvIsLast'
<1> DEFINE Late == {"created", "superseding", "linking"}
<1> SUFFICES ASSUME pipe'.pc = "done"
             PROVE  conv' = created' \/ \E h \in Chats : chat'[h].pc \in Late
  BY DEF ConvIsLast
<1>0. chat \in [Chats -> ChatRecords]
  BY DEF TypeOK
<1>1. CASE PipelineConverse
  <2>1. conv' = pipe.id /\ created' = created /\ pipe.pc = "converse"
    BY <1>1, NoFaults DEF PipelineConverse
  <2> QED
    BY <2>1 DEF Orderly, BeforePipeline
<1>2. CASE PipelinePropose
  <2>1. pipe'.pc = "converse"
    BY <1>2 DEF PipelinePropose
  <2> QED
    BY <2>1
<1>3. CASE ~PipelineConverse /\ ~PipelinePropose
  <2>1. pipe.pc = "done"
    BY <1>3, PipeChanges
  <2>2. ASSUME NEW h \in Chats, ChatLink(h) PROVE conv' = created'
    <3>1. conv' = chat[h].new /\ created' = created /\ chat[h].pc = "linking"
      BY <2>2, NoFaults DEF ChatLink, LinkTarget
    <3> QED
      BY <3>1 DEF Orderly, TurnIsLast
  <2>3. ASSUME NEW h \in Chats, ChatCreate(h), InsertPending(RevisionParent(h))
        PROVE  chat'[h].pc \in Late
    <3>1. PICK p \in Late : chat' = [chat EXCEPT ![h].new = created + 1, ![h].pc = p]
      BY <2>3, FailsOrInserts DEF ChatCreate
    <3> QED
      BY <1>0, <3>1 DEF ChatRecords
  <2>4. ASSUME NEW h \in Chats, chat[h].pc \in Late, ~ChatLink(h) PROVE chat'[h].pc \in Late
    <3>1. CASE chat'[h] = chat[h]
      BY <2>4, <3>1
    <3>2. CASE ChatReadOld(h) \/ ChatSupersede(h)
      <4>1. PICK p \in Late : chat' = [chat EXCEPT ![h].pc = p]
        BY <3>2 DEF ChatReadOld, ChatSupersede
      <4> QED
        BY <1>0, <4>1 DEF ChatRecords
    <3>3. ChatTurn(h) => ChatReadOld(h) \/ ChatSupersede(h)
      BY <2>4 DEF ChatTurn, ChatFind, ChatNoPlan, ChatGuard, ChatCreate
    <3> QED
      BY <3>1, <3>2, <3>3, ChatMoves
  <2>5. CASE \E h \in Chats : ChatLink(h)
    BY <2>2, <2>5
  <2>6. CASE \A h \in Chats : ~ChatLink(h)
    <3>1. conv' = conv
      BY <1>3, <2>6, ConvChanges
    <3>2. created' = created \/ \E h \in Chats : chat'[h].pc \in Late
      BY <1>3, <2>3, Inserts
    <3>3. conv = created \/ \E h \in Chats : chat[h].pc \in Late
      BY <2>1 DEF Orderly, ConvIsLast
    <3> QED
      BY <2>4, <2>6, <3>1, <3>2, <3>3
  <2> QED
    BY <2>5, <2>6
<1> QED
  BY <1>1, <1>2, <1>3

LEMMA BeforeStep ==
  ASSUME Serial, TypeOK, Orderly, [Next]_vars, ~Crash
  PROVE  BeforePipeline'
<1>0. pipe \in PipeRecords /\ chat \in [Chats -> ChatRecords]
  BY DEF TypeOK
<1>1. CASE PipelineConverse
  <2>1. pipe'.pc = "done"
    BY <1>0, <1>1 DEF PipelineConverse, PipeRecords
  <2> QED
    BY <2>1 DEF BeforePipeline
<1>2. CASE PipelinePropose
  <2>1. /\ created = 0 /\ conv = NoConv /\ \A h \in Chats : ~ChatBusy(h)
        /\ UNCHANGED <<conv, chat>>
    BY <1>2 DEF PipelinePropose, Orderly, BeforePipeline
  <2>2. pipe'.pc = "converse" /\ pipe'.id = created'
    BY <1>2, <2>1 DEF PipelinePropose, InsertPending, NoId
  <2> QED
    BY <2>1, <2>2 DEF BeforePipeline, ChatBusy
<1>3. CASE ~PipelineConverse /\ ~PipelinePropose
  <2>1. pipe' = pipe
    BY <1>3, PipeChanges
  <2>2. SUFFICES ASSUME pipe.pc # "done" PROVE BeforePipeline'
    BY <2>1 DEF BeforePipeline
  <2>3. conv = NoConv /\ \A h \in Chats : ~ChatBusy(h)
    BY <2>2 DEF Orderly, BeforePipeline
  <2>4. \A h \in Chats : ~ChatFind(h) /\ ~ChatCreate(h) /\ ~ChatLink(h)
    BY <2>3 DEF ChatBusy, ChatFind, ChatCreate, ChatLink
  <2>5. created' = created /\ conv' = conv
    BY <1>3, <2>4, Inserts, ConvChanges
  <2>6. \A h \in Chats : ~ChatBusy(h)'
    BY <2>3, <2>4, ChatStarts
  <2> QED
    BY <2>1, <2>3, <2>5, <2>6 DEF Orderly, BeforePipeline
<1> QED
  BY <1>1, <1>2, <1>3

LEMMA TurnStep ==
  ASSUME Serial, TypeOK, SerialInv, Orderly, [Next]_vars, ~Crash
  PROVE  TurnIsLast'
<1> SUFFICES ASSUME NEW h \in Chats
             PROVE  /\ chat'[h].pc \in {"found", "guarded"} => chat'[h].parent = created'
                    /\ chat'[h].pc \in {"created", "superseding", "linking"} =>
                         chat'[h].new = created'
  BY DEF TurnIsLast
<1>0. chat \in [Chats -> ChatRecords]
  BY DEF TypeOK
<1>1. CASE chat'[h] = chat[h]
  <2>1. CASE ChatBusy(h)
    <3>1. ~PipelinePropose
      BY <2>1 DEF PipelinePropose, Orderly, BeforePipeline
    <3>2. ASSUME NEW k \in Chats, ChatCreate(k), created' = created + 1 PROVE FALSE
      <4>1. k = h
        BY <2>1, <3>2 DEF ChatCreate, ChatBusy, SerialInv, Alone
      <4>2. PICK p \in {"created", "linking", "done"} : chat'[k].pc = p
        BY <1>0, <3>2 DEF ChatCreate, ChatRecords
      <4>3. chat[k].pc = "guarded"
        BY <3>2 DEF ChatCreate
      <4> QED
        BY <1>1, <4>1, <4>2, <4>3
    <3> QED
      BY <1>1, <3>1, <3>2, Inserts DEF Orderly, TurnIsLast
  <2>2. CASE ~ChatBusy(h)
    BY <1>1, <2>2 DEF ChatBusy
  <2> QED
    BY <2>1, <2>2
<1>2. CASE ChatFind(h)
  <2>1. chat'[h].pc = "found" /\ chat'[h].parent = conv /\ created' = created
    BY <1>0, <1>2 DEF ChatFind, ChatRecords, storeVars
  <2>2. conv # NoConv /\ \A k \in Chats : ~ChatBusy(k)
    BY <1>2, Idle DEF ChatFind, MayStart, Serial, OneAtATime
  <2>3. conv = created
    BY <2>2 DEF Orderly, BeforePipeline, ConvIsLast, ChatBusy
  <2> QED
    BY <2>1, <2>3
<1>3. CASE ChatCreate(h)
  <2>1. CASE InsertPending(RevisionParent(h))
    <3>1. PICK p \in {"created", "linking"} :
            chat' = [chat EXCEPT ![h].new = created + 1, ![h].pc = p]
      BY <1>3, <2>1, FailsOrInserts DEF ChatCreate
    <3>2. chat'[h].pc = p /\ chat'[h].new = created + 1
      BY <1>0, <3>1 DEF ChatRecords
    <3> QED
      BY <2>1, <3>2 DEF InsertPending
  <2>2. CASE ~InsertPending(RevisionParent(h))
    <3>1. chat'[h].pc = "done"
      BY <1>0, <1>3, <2>2 DEF ChatCreate, ChatRecords
    <3> QED
      BY <3>1
  <2> QED
    BY <2>1, <2>2
<1>4. CASE ChatTurn(h) /\ ~ChatFind(h) /\ ~ChatCreate(h)
  <2>1. UNCHANGED created /\ \E p : chat' = [chat EXCEPT ![h].pc = p]
    BY <1>4 DEF ChatTurn, ChatNoPlan, ChatGuard, ChatReadOld, ChatSupersede, ChatLink, storeVars
  <2>2. chat'[h].parent = chat[h].parent /\ chat'[h].new = chat[h].new
    BY <1>0, <2>1 DEF ChatRecords
  <2>3. \/ chat'[h].pc = "done"
        \/ chat[h].pc = "found" /\ chat'[h].pc = "guarded"
        \/ /\ chat[h].pc \in {"created", "superseding"}
           /\ chat'[h].pc \in {"superseding", "linking"}
    BY <1>0, <1>4 DEF ChatTurn, ChatNoPlan, ChatGuard, ChatReadOld, ChatSupersede, ChatLink,
      ChatRecords
  <2> QED
    BY <2>1, <2>2, <2>3 DEF Orderly, TurnIsLast
<1> QED
  BY <1>1, <1>2, <1>3, <1>4, ChatMoves

LEMMA LiveStep ==
  ASSUME Serial, ~ScanFails, TypeOK, ExecInv, KnowInv, SerialInv, LiveInv, [Next]_vars
  PROVE  LiveInv'
<1> SUFFICES ASSUME crashes' = 0 PROVE Orderly'
  BY DEF LiveInv, Orderly
<1>1. crashes = 0 /\ ~Crash
  BY FaultsGrow DEF Crash
<1>2. Orderly
  BY <1>1 DEF LiveInv, Orderly
<1> QED
  BY <1>1, <1>2, PendingStep, ConvStep, BeforeStep, TurnStep DEF Orderly

LEMMA LiveInit == Init => LiveInv
BY DEF Init, LiveInv, PendingIsLast, ConvIsLast, BeforePipeline, TurnIsLast, ChatBusy, IdleChat

(* Between turns at most one plan waits for a decision, the newest, and    *)
(* the conversation points at it: the next revision withdraws the right    *)
(* one.  The old row must be readable, hence the condition on the store.   *)
THEOREM SerialOneLivePlan == ASSUME Serial, ~ScanFails PROVE Spec => []OneLivePlan
<1>1. TypeOK /\ ExecInv /\ KnowInv /\ SerialInv /\ LiveInv /\ [Next]_vars => LiveInv'
  BY LiveStep
<1>2. LiveInv => OneLivePlan
  <2> SUFFICES ASSUME LiveInv, crashes = 0, ~HandlerBusy, pipe.pc = "done"
               PROVE  /\ \A a, b \in Pending : a = b
                      /\ conv \in {created, NoConv}
    BY DEF OneLivePlan
  <2>1. \A h \in Chats : ~ChatBusy(h)
    BY Idle
  <2>2. \A a \in Pending : a = created
    BY <2>1 DEF LiveInv, PendingIsLast, Pending, Withdrawing, ChatBusy
  <2>3. conv = created
    BY <2>1 DEF LiveInv, ConvIsLast, ChatBusy
  <2> QED
    BY <2>2, <2>3
<1>3. Spec => [](TypeOK /\ ExecInv /\ KnowInv /\ SerialInv)
  BY SerialAlways DEF Serial
<1> QED
  BY <1>1, <1>2, <1>3, LiveInit, PTL DEF Spec
=============================================================================
