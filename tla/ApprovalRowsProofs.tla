------------------------- MODULE ApprovalRowsProofs -------------------------
(***************************************************************************)
(* More proofs about ApprovalFlow, for every overlap, failure and restart: *)
(* what the rows of the approvals table say of each other and of time, and *)
(* that a row that ended stays as it is.                                   *)
(***************************************************************************)
EXTENDS ApprovalFlowProofs

-----------------------------------------------------------------------------
(* Every step moves at most the status of rows it has a reason to move.    *)

StatusMove(a) ==
  \/ a = created + 1 /\ created' = created + 1 /\ status'[a] = "pending"
  \/ \E c \in Calls : CallbackWrite(c) /\ a = cb[c].id /\ status'[a] = cb[c].target
  \/ \E c \in Calls : RunStart(c) /\ a = run[c].id /\ status'[a] = "executing"
  \/ \E c \in Calls : RunFinish(c) /\ a = run[c].id /\ status'[a] = FinalStatus(run[c].ok)
  \/ \E h \in Chats : ChatSupersede(h) /\ a = chat[h].parent /\ status'[a] = "superseded"
  \/ SweepWrite /\ a \in sweep.stale /\ sweep.pc = "writing" /\ status'[a] = "expired"

LEMMA WriteMoves ==
  ASSUME TypeOK, NEW b, NEW s, WriteStatus(b, s) \/ WriteLost,
         NEW a \in Approvals, status'[a] # status[a]
  PROVE  a = b /\ status'[a] = s
BY DEF TypeOK, WriteStatus, WriteLost

LEMMA InsertMoves ==
  ASSUME TypeOK, NEW p, InsertPending(p), NEW a \in Approvals, status'[a] # status[a]
  PROVE  a = created + 1 /\ created' = created + 1 /\ status'[a] = "pending"
BY DEF TypeOK, InsertPending

LEMMA StatusMoves ==
  ASSUME TypeOK, [Next]_vars, NEW a \in Approvals, status'[a] # status[a]
  PROVE  StatusMove(a)
<1>1. CASE Pipeline
  <2>1. InsertPending(NoId)
    BY <1>1 DEF Pipeline, PipelinePropose, PipelineConverse
  <2> QED
    BY <2>1, InsertMoves DEF StatusMove
<1>2. ASSUME NEW c \in Calls, Callback(c) PROVE StatusMove(a)
  <2>1. CallbackWrite(c) /\ WriteStatus(cb[c].id, cb[c].target)
    BY <1>2 DEF Callback, CallbackRead, CallbackDecide, CallbackWrite, CallbackSpawn,
      CallbackFails, storeVars
  <2> QED
    BY <2>1, WriteMoves DEF StatusMove
<1>3. ASSUME NEW c \in Calls, Execution(c) PROVE StatusMove(a)
  <2>1. RunStart(c) \/ RunFinish(c)
    BY <1>3 DEF Execution, RunStart, RunCommand, RunRecord, RunFinish, storeVars
  <2>2. CASE RunStart(c)
    <3>1. WriteStatus(run[c].id, "executing") \/ WriteLost
      BY <2>2 DEF RunStart
    <3> QED
      BY <2>2, <3>1, WriteMoves DEF StatusMove
  <2>3. CASE RunFinish(c)
    <3>1. WriteStatus(run[c].id, FinalStatus(run[c].ok)) \/ WriteLost
      BY <2>3 DEF RunFinish
    <3> QED
      BY <2>3, <3>1, WriteMoves DEF StatusMove
  <2> QED
    BY <2>1, <2>2, <2>3
<1>4. ASSUME NEW h \in Chats, ChatTurn(h) PROVE StatusMove(a)
  <2>1. \/ ChatSupersede(h) /\ (WriteStatus(chat[h].parent, "superseded") \/ WriteLost)
        \/ InsertPending(RevisionParent(h))
    BY <1>4 DEF ChatTurn, ChatFind, ChatNoPlan, ChatGuard, ChatCreate, ChatReadOld,
      ChatSupersede, ChatLink, storeVars
  <2> QED
    BY <2>1, WriteMoves, InsertMoves DEF StatusMove
<1>5. CASE ExpireLoop
  <2>1. SweepWrite
    BY <1>5 DEF ExpireLoop, SweepList, SweepNow, storeVars
  <2>2. PICK b \in sweep.stale : sweep.pc = "writing" /\ (WriteStatus(b, "expired") \/ WriteLost)
    BY <2>1 DEF SweepWrite
  <2> QED
    BY <2>1, <2>2, WriteMoves DEF StatusMove
<1>6. ~UNCHANGED status
  OBVIOUS
<1> QED
  BY <1>1, <1>2, <1>3, <1>4, <1>5, <1>6 DEF Next, Deadline, Crash, storeVars, vars

(* Rows are only added and deadlines only pass.                            *)
LEMMA Grows ==
  ASSUME TypeOK, [Next]_vars
  PROVE  /\ created' >= created /\ overdue \subseteq overdue'
         /\ \A b \in Approvals : b <= created => parent'[b] = parent[b]
<1>0. created \in Nat /\ parent \in [Approvals -> Ids]
  BY DEF TypeOK
<1>1. UNCHANGED <<created, parent>> \/ \E p : InsertPending(p)
  BY DEF Next, Pipeline, PipelinePropose, PipelineConverse, Callback, CallbackRead,
    CallbackDecide, CallbackWrite, CallbackSpawn, CallbackFails, Execution, RunStart,
    RunCommand, RunRecord, RunFinish, ChatTurn, ChatFind, ChatNoPlan, ChatGuard, ChatCreate,
    ChatReadOld, ChatSupersede, ChatLink, ExpireLoop, SweepList, SweepNow, SweepWrite,
    Deadline, Crash, storeVars, vars
<1>2. overdue \subseteq overdue'
  BY DEF Next, Pipeline, PipelinePropose, PipelineConverse, Callback, CallbackRead,
    CallbackDecide, CallbackWrite, CallbackSpawn, CallbackFails, Execution, RunStart,
    RunCommand, RunRecord, RunFinish, ChatTurn, ChatFind, ChatNoPlan, ChatGuard, ChatCreate,
    ChatReadOld, ChatSupersede, ChatLink, ExpireLoop, SweepList, SweepNow, SweepWrite,
    Deadline, Crash, vars
<1>3. CASE \E p : InsertPending(p)
  <2>1. created' = created + 1
    BY <1>3 DEF InsertPending
  <2>2. \A b \in Approvals : b <= created => parent'[b] = parent[b]
    BY <1>0, <1>3 DEF InsertPending
  <2> QED
    BY <1>0, <1>2, <2>1, <2>2
<1> QED
  BY <1>0, <1>1, <1>2, <1>3

-----------------------------------------------------------------------------
(* What each goroutine knows of the rows it is about to write.             *)

(* The ids that go around are of rows that exist.  A callback that fails   *)
(* before it read a row keeps the first id.                                *)
Known ==
  /\ conv <= created /\ pipe.id <= created
  /\ \A c \in Calls : IF cb[c].pc = "idle" THEN cb[c].id = 1 ELSE cb[c].id <= created
  /\ \A h \in Chats : chat[h].parent <= created /\ chat[h].new <= created
  /\ \A a \in sweep.stale : a <= created

(* A callback decides on a row it read as pending, and expires one only    *)
(* after its deadline.                                                     *)
CallKnows ==
  \A c \in Calls :
    /\ cb[c].pc \in {"decided", "granted"} => cb[c].seen = "pending"
    /\ cb[c].pc = "decided" =>
         /\ cb[c].target \in {"approved", "rejected", "modified", "expired"}
         /\ cb[c].target = "approved" => cb[c].action = "approve"
         /\ cb[c].target = "expired" => cb[c].id \in overdue
    /\ ScanFails => cb[c].pc \in {"idle", "done"}

(* A chat turn withdraws a plan after it created the replacement.          *)
ChatKnows ==
  \A h \in Chats : chat[h].pc \in {"created", "superseding"} =>
    /\ chat[h].parent # NoId /\ chat[h].parent < chat[h].new
    /\ parent[chat[h].new] = chat[h].parent

SweepKnows == sweep.pc = "writing" => sweep.stale \subseteq overdue

(* Rows are inserted in the order of their numbers.                        *)
RowsExist == \A a \in Approvals : status[a] # "none" => a <= created

KnowInv == Known /\ RowsExist /\ CallKnows /\ ChatKnows /\ SweepKnows

LEMMA KnowInit == Init => KnowInv
BY DEF Init, KnowInv, Known, RowsExist, CallKnows, ChatKnows, SweepKnows, IdleCall, IdleChat, IdleSweep,
       NoId, NoConv

(* The parts of it that the steps of other goroutines leave alone.         *)
LEMMA CallKept ==
  ASSUME TypeOK, CallKnows, [Next]_vars, NEW c \in Calls, cb'[c] = cb[c]
  PROVE  /\ cb'[c].pc \in {"decided", "granted"} => cb'[c].seen = "pending"
         /\ cb'[c].pc = "decided" =>
              /\ cb'[c].target \in {"approved", "rejected", "modified", "expired"}
              /\ cb'[c].target = "approved" => cb'[c].action = "approve"
              /\ cb'[c].target = "expired" => cb'[c].id \in overdue'
         /\ ScanFails => cb'[c].pc \in {"idle", "done"}
BY Grows DEF CallKnows

LEMMA ChatKept ==
  ASSUME TypeOK, Known, ChatKnows, [Next]_vars, NEW h \in Chats, chat'[h] = chat[h],
         chat[h].pc \in {"created", "superseding"}
  PROVE  /\ chat'[h].parent # NoId /\ chat'[h].parent < chat'[h].new
         /\ parent'[chat'[h].new] = chat'[h].parent
<1>1. chat[h].new \in Approvals /\ chat[h].new <= created
  BY BoundsAssumption DEF TypeOK, ChatRecords, Known, ChatKnows, Ids, Approvals, NoId
<1> QED
  BY <1>1, Grows DEF ChatKnows

(* The ids that go around in the next state come from this one.            *)
LEMMA ConvMoves ==
  ASSUME [Next]_vars
  PROVE  conv' \in {conv, pipe.id} \/ \E h \in Chats : conv' = chat[h].new
BY DEF Next, Pipeline, PipelinePropose, PipelineConverse, Callback, CallbackRead,
   CallbackDecide, CallbackWrite, CallbackSpawn, CallbackFails, Execution, RunStart,
   RunCommand, RunRecord, RunFinish, ChatTurn, ChatFind, ChatNoPlan, ChatGuard, ChatCreate,
   ChatReadOld, ChatSupersede, ChatLink, LinkTarget, ExpireLoop, SweepList, SweepNow,
   SweepWrite, Deadline, Crash, storeVars, actorVars, vars

LEMMA PipeMoves ==
  ASSUME TypeOK, [Next]_vars
  PROVE  pipe'.id \in {pipe.id, NoId} \/ pipe'.id = created'
<1>1. \/ pipe' = pipe \/ PipelinePropose
      \/ pipe' = [pipe EXCEPT !.pc = "done"]
  BY DEF Next, Pipeline, PipelineConverse, Callback, CallbackRead,
   CallbackDecide, CallbackWrite, CallbackSpawn, CallbackFails, Execution, RunStart,
   RunCommand, RunRecord, RunFinish, ChatTurn, ChatFind, ChatNoPlan, ChatGuard, ChatCreate,
   ChatReadOld, ChatSupersede, ChatLink, ExpireLoop, SweepList, SweepNow,
   SweepWrite, Deadline, Crash, actorVars, vars
<1>2. CASE PipelinePropose
  BY <1>2 DEF PipelinePropose, InsertPending
<1>3. CASE pipe' = [pipe EXCEPT !.pc = "done"]
  BY <1>3 DEF TypeOK, PipeRecords
<1> QED
  BY <1>1, <1>2, <1>3

LEMMA CallMoves ==
  ASSUME TypeOK, [Next]_vars, NEW c \in Calls
  PROVE  \/ cb'[c] = cb[c] \/ CallbackRead(c) \/ CallbackDecide(c) \/ CallbackWrite(c)
         \/ CallbackSpawn(c) \/ CallbackFails(c) \/ Crash
<1>0. cb \in [Calls -> CallRecords]
  BY DEF TypeOK
<1>1. ASSUME NEW d \in Calls, d # c, Callback(d) PROVE cb'[c] = cb[c]
  <2>1. PICK r : cb' = [cb EXCEPT ![d] = r]
    BY <1>1 DEF Callback, CallbackRead, CallbackDecide, CallbackWrite, CallbackSpawn, CallbackFails
  <2> QED
    BY <1>0, <1>1, <2>1
<1>2. cb' = cb \/ Crash \/ \E d \in Calls : Callback(d)
  BY DEF Next, Pipeline, PipelinePropose, PipelineConverse, Execution, RunStart,
   RunCommand, RunRecord, RunFinish, ChatTurn, ChatFind, ChatNoPlan, ChatGuard, ChatCreate,
   ChatReadOld, ChatSupersede, ChatLink, ExpireLoop, SweepList, SweepNow,
   SweepWrite, Deadline, actorVars, vars
<1> QED
  BY <1>1, <1>2 DEF Callback

LEMMA ChatMoves ==
  ASSUME TypeOK, [Next]_vars, NEW h \in Chats
  PROVE  \/ chat'[h] = chat[h] \/ ChatTurn(h) \/ Crash
<1>0. chat \in [Chats -> ChatRecords]
  BY DEF TypeOK
<1>1. ASSUME NEW d \in Chats, d # h, ChatTurn(d) PROVE chat'[h] = chat[h]
  <2>1. PICK r : chat' = [chat EXCEPT ![d] = r]
    BY <1>1 DEF ChatTurn, ChatFind, ChatNoPlan, ChatGuard, ChatCreate, ChatReadOld,
      ChatSupersede, ChatLink
  <2> QED
    BY <1>0, <1>1, <2>1
<1>2. chat' = chat \/ Crash \/ \E d \in Chats : ChatTurn(d)
  BY DEF Next, Pipeline, PipelinePropose, PipelineConverse, Callback, CallbackRead,
   CallbackDecide, CallbackWrite, CallbackSpawn, CallbackFails, Execution, RunStart,
   RunCommand, RunRecord, RunFinish, ExpireLoop, SweepList, SweepNow,
   SweepWrite, Deadline, actorVars, vars
<1> QED
  BY <1>1, <1>2

LEMMA SweepMoves ==
  ASSUME TypeOK, [Next]_vars
  PROVE  sweep' \in {sweep, IdleSweep} \/ SweepList \/ SweepNow \/ SweepWrite
BY DEF Next, Pipeline, PipelinePropose, PipelineConverse, Callback, CallbackRead,
   CallbackDecide, CallbackWrite, CallbackSpawn, CallbackFails, Execution, RunStart,
   RunCommand, RunRecord, RunFinish, ChatTurn, ChatFind, ChatNoPlan, ChatGuard, ChatCreate,
   ChatReadOld, ChatSupersede, ChatLink, ExpireLoop, Deadline, Crash, actorVars, vars

LEMMA CallFields ==
  ASSUME TypeOK, NEW c \in Calls, NEW p, cb' = [cb EXCEPT ![c].pc = p]
  PROVE  /\ cb'[c].pc = p /\ cb'[c].id = cb[c].id /\ cb'[c].action = cb[c].action
         /\ cb'[c].seen = cb[c].seen /\ cb'[c].target = cb[c].target
BY DEF TypeOK, CallRecords

LEMMA CrashFields ==
  ASSUME TypeOK, Crash
  PROVE  /\ \A c \in Calls :
              /\ cb'[c].pc = IF cb[c].pc = "idle" THEN "idle" ELSE "done"
              /\ cb'[c].id = cb[c].id
         /\ \A h \in Chats :
              /\ chat'[h].pc \in {"idle", "done"}
              /\ chat'[h].parent = chat[h].parent /\ chat'[h].new = chat[h].new
BY DEF TypeOK, CallRecords, ChatRecords, Crash

LEMMA FailsOrInserts ==
  ASSUME TypeOK, NEW p, InsertPending(p)
  PROVE  created' # created
BY DEF TypeOK, InsertPending

LEMMA ChatFields ==
  ASSUME TypeOK, NEW h \in Chats, ChatTurn(h)
  PROVE  /\ \/ chat'[h].parent = chat[h].parent
            \/ ChatFind(h) /\ chat'[h].parent = conv
         /\ \/ chat'[h].new = chat[h].new
            \/ /\ ChatCreate(h) /\ InsertPending(RevisionParent(h))
               /\ chat'[h].new = created'
<1>0. chat \in [Chats -> ChatRecords]
  BY DEF TypeOK
<1>1. CASE ChatFind(h)
  BY <1>0, <1>1 DEF ChatFind, ChatRecords
<1>2. CASE ChatCreate(h)
  <2>1. CASE InsertPending(RevisionParent(h))
    <3>1. chat' = [chat EXCEPT ![h].new = created + 1, ![h].pc = chat'[h].pc]
      BY <1>0, <1>2, <2>1, FailsOrInserts DEF ChatCreate, ChatRecords
    <3>2. chat'[h] = [chat[h] EXCEPT !.new = created + 1, !.pc = chat'[h].pc]
      BY <1>0, <3>1
    <3>3. chat'[h].parent = chat[h].parent /\ chat'[h].new = created + 1
      BY <1>0, <3>2 DEF ChatRecords
    <3> QED
      BY <1>2, <2>1, <3>3 DEF InsertPending
  <2>2. CASE ~InsertPending(RevisionParent(h))
    <3>1. chat' = [chat EXCEPT ![h].pc = "done"]
      BY <1>2, <2>2 DEF ChatCreate
    <3>2. chat'[h] = [chat[h] EXCEPT !.pc = "done"] /\ chat[h] \in ChatRecords
      BY <1>0, <3>1
    <3>3. chat'[h].parent = chat[h].parent /\ chat'[h].new = chat[h].new
      BY <3>2 DEF ChatRecords
    <3> QED
      BY <3>3
  <2> QED
    BY <2>1, <2>2
<1>3. CASE ~ChatFind(h) /\ ~ChatCreate(h)
  <2>1. PICK p : chat' = [chat EXCEPT ![h].pc = p]
    BY <1>3 DEF ChatTurn, ChatNoPlan, ChatGuard, ChatReadOld, ChatSupersede, ChatLink
  <2>2. chat'[h] = [chat[h] EXCEPT !.pc = p] /\ chat[h] \in ChatRecords
    BY <1>0, <2>1
  <2>3. chat'[h].parent = chat[h].parent /\ chat'[h].new = chat[h].new
    BY <2>2 DEF ChatRecords
  <2> QED
    BY <2>3
<1> QED
  BY <1>1, <1>2, <1>3

(* Nobody returns to "idle".                                               *)
LEMMA IdleCalls ==
  ASSUME TypeOK, [Next]_vars, NEW c \in Calls, cb'[c].pc = "idle"
  PROVE  cb[c].pc = "idle" /\ cb'[c].id = cb[c].id
<1>0. cb \in [Calls -> CallRecords]
  BY DEF TypeOK
<1>1. CASE CallbackRead(c)
  BY <1>0, <1>1 DEF CallbackRead
<1>2. CASE CallbackDecide(c)
  BY <1>0, <1>2 DEF CallbackDecide, CallRecords
<1>3. CASE CallbackWrite(c)
  BY <1>0, <1>3, CallFields DEF CallbackWrite
<1>4. CASE CallbackSpawn(c) \/ CallbackFails(c)
  BY <1>0, <1>4, CallFields DEF CallbackSpawn, CallbackFails
<1>5. CASE Crash
  BY <1>5, CrashFields
<1> QED
  BY <1>1, <1>2, <1>3, <1>4, <1>5, CallMoves

LEMMA KnownCall ==
  ASSUME TypeOK, Known, [Next]_vars, NEW c \in Calls, cb'[c].pc # "idle"
  PROVE  cb'[c].id <= created'
<1>0. /\ cb \in [Calls -> CallRecords] /\ created \in Nat /\ created' \in Nat
      /\ cb[c].id \in Nat /\ created' >= created
  BY TypeStep, Grows, BoundsAssumption DEF TypeOK, CallRecords, Approvals
<1>1. CASE cb'[c] = cb[c]
  BY <1>0, <1>1 DEF Known
<1>2. CASE CallbackRead(c)
  <2>1. PICK a \in 1..created, act \in Actions :
          cb' = [cb EXCEPT ![c] = [pc |-> "read", id |-> a, action |-> act,
                                   seen |-> status[a], target |-> "none"]]
    BY <1>2 DEF CallbackRead
  <2>2. cb'[c].id = a
    BY <1>0, <2>1
  <2> QED
    BY <1>0, <2>2
<1>3. CASE CallbackDecide(c) \/ CallbackWrite(c) \/ CallbackSpawn(c)
  <2>1. cb[c].pc # "idle" /\ cb'[c].id = cb[c].id
    BY <1>0, <1>3 DEF CallbackDecide, CallbackWrite, CallbackSpawn, CallRecords
  <2> QED
    BY <1>0, <2>1 DEF Known
<1>4. CASE CallbackFails(c)
  <2>1. cb'[c].id = cb[c].id
    BY <1>4, CallFields DEF CallbackFails
  <2>2. CASE cb[c].pc # "idle"
    BY <1>0, <2>1, <2>2 DEF Known
  <2>3. CASE cb[c].pc = "idle"
    BY <1>0, <1>4, <2>1, <2>3 DEF CallbackFails, Known
  <2> QED
    BY <2>2, <2>3
<1>5. CASE Crash
  BY <1>0, <1>5, CrashFields DEF Known
<1> QED
  BY <1>1, <1>2, <1>3, <1>4, <1>5, CallMoves

LEMMA NumTypes ==
  ASSUME TypeOK
  PROVE  /\ created \in Nat /\ conv \in Int /\ pipe.id \in Nat
         /\ \A c \in Calls : cb[c].id \in Nat /\ run[c].id \in Nat
         /\ \A h \in Chats : chat[h].parent \in Nat /\ chat[h].new \in Nat
<1>1. Approvals \subseteq Nat /\ Ids \subseteq Nat
  BY BoundsAssumption DEF Approvals, Ids, NoId
<1>2. created \in Nat
  BY BoundsAssumption DEF TypeOK
<1>3. conv \in Int
  BY <1>1 DEF TypeOK, NoConv
<1>4. pipe.id \in Nat
  BY <1>1 DEF TypeOK, PipeRecords
<1>5. ASSUME NEW c \in Calls PROVE cb[c].id \in Nat /\ run[c].id \in Nat
  BY <1>1 DEF TypeOK, CallRecords, RunRecords
<1>6. ASSUME NEW h \in Chats PROVE chat[h].parent \in Nat /\ chat[h].new \in Nat
  BY <1>1 DEF TypeOK, ChatRecords
<1> QED
  BY <1>2, <1>3, <1>4, <1>5, <1>6

LEMMA CreatedGrows ==
  ASSUME TypeOK, [Next]_vars
  PROVE  created' \in Nat /\ created' >= created
BY TypeStep, Grows, BoundsAssumption DEF TypeOK

LEMMA KnownChat ==
  ASSUME TypeOK, Known, [Next]_vars, NEW h \in Chats
  PROVE  chat'[h].parent <= created' /\ chat'[h].new <= created'
<1>0. /\ created \in Nat /\ created' \in Nat /\ created' >= created
      /\ conv \in Int /\ chat[h].parent \in Nat /\ chat[h].new \in Nat
      /\ conv <= created /\ chat[h].parent <= created /\ chat[h].new <= created
  BY NumTypes, CreatedGrows DEF Known
<1>1. CASE chat'[h] = chat[h]
  BY <1>0, <1>1
<1>2. CASE ChatTurn(h)
  BY <1>0, <1>2, ChatFields
<1>3. CASE Crash
  BY <1>0, <1>3, CrashFields
<1> QED
  BY <1>1, <1>2, <1>3, ChatMoves

LEMMA KnownSweep ==
  ASSUME TypeOK, Known, RowsExist, [Next]_vars, NEW a \in sweep'.stale
  PROVE  a <= created'
<1>0. /\ created \in Nat /\ created' \in Nat /\ created' >= created
      /\ sweep \in SweepRecords
  BY TypeStep, Grows, BoundsAssumption DEF TypeOK
<1>1. a \in sweep.stale \/ a \in NewestPending
  <2>1. CASE sweep' \in {sweep, IdleSweep}
    BY <2>1 DEF IdleSweep
  <2>2. CASE SweepList
    BY <2>2 DEF SweepList
  <2>3. CASE SweepNow
    BY <2>3 DEF SweepNow, StaleNow, IdleSweep
  <2>4. CASE SweepWrite
    BY <1>0, <2>4 DEF SweepWrite, SweepRecords, IdleSweep
  <2> QED
    BY <2>1, <2>2, <2>3, <2>4, SweepMoves
<1>2. a \in Approvals /\ a <= created
  BY <1>0, <1>1 DEF SweepRecords, Known, RowsExist, NewestPending, Pending
<1> QED
  BY <1>0, <1>2 DEF Approvals

LEMMA KnownStep == ASSUME TypeOK, Known, RowsExist, [Next]_vars PROVE Known'
<1>0. /\ created \in Nat /\ created' \in Nat /\ created' >= created
      /\ conv \in Int /\ pipe.id \in Nat
      /\ \A h \in Chats : chat[h].new \in Nat
  BY NumTypes, CreatedGrows
<1>1. conv' <= created'
  BY <1>0, ConvMoves DEF Known
<1>2. pipe'.id <= created'
  BY <1>0, PipeMoves DEF Known, NoId
<1>3. ASSUME NEW c \in Calls
      PROVE  IF cb'[c].pc = "idle" THEN cb'[c].id = 1 ELSE cb'[c].id <= created'
  <2>1. CASE cb'[c].pc = "idle"
    BY <2>1, IdleCalls DEF Known
  <2> QED
    BY <2>1, KnownCall
<1> QED
  BY <1>1, <1>2, <1>3, KnownChat, KnownSweep DEF Known

LEMMA RowsExistStep ==
  ASSUME TypeOK, ExecInv, Known, RowsExist, [Next]_vars PROVE RowsExist'
<1> SUFFICES ASSUME NEW a \in Approvals, status'[a] # "none" PROVE a <= created'
  BY DEF RowsExist
<1>0. /\ created \in Nat /\ created' \in Nat /\ created' >= created /\ a \in Nat
  BY TypeStep, Grows, BoundsAssumption DEF TypeOK, Approvals
<1>1. CASE status'[a] = status[a]
  BY <1>0, <1>1 DEF RowsExist
<1>2. CASE StatusMove(a)
  <2>1. ASSUME NEW c \in Calls, a = cb[c].id, CallbackWrite(c) PROVE a <= created
    BY <2>1 DEF CallbackWrite, Known
  <2>2. ASSUME NEW c \in Calls, a = run[c].id, run[c].pc \in {"start", "finish"}
        PROVE  a <= created
    BY <2>2 DEF ExecInv, RunInv, Known
  <2>3. ASSUME NEW h \in Chats, a = chat[h].parent PROVE a <= created
    BY <2>3 DEF Known
  <2>4. a \in sweep.stale => a <= created
    BY DEF Known
  <2>5. a <= created \/ a = created'
    BY <1>2, <2>1, <2>2, <2>3, <2>4 DEF StatusMove, RunStart, RunFinish
  <2> QED
    BY <1>0, <2>5
<1> QED
  BY <1>1, <1>2, StatusMoves

LEMMA VerdictKnows ==
  ASSUME NEW c \in Calls, Verdict(c) # "refuse"
  PROVE  /\ cb[c].seen = "pending"
         /\ Verdict(c) \in {"approved", "rejected", "modified", "expired"}
         /\ Verdict(c) = "approved" => cb[c].action = "approve"
         /\ Verdict(c) = "expired" => cb[c].id \in overdue
<1> DEFINE t == StatusFromAction(cb[c].action)
<1>1. /\ t \in {"approved", "rejected", "modified", "none"}
      /\ t = "approved" => cb[c].action = "approve"
  BY DEF StatusFromAction
<1>2. CanTransitionTo(cb[c].seen, t)
  BY DEF Verdict
<1>3. cb[c].seen = "pending" /\ t # "none" /\ t # "expired"
  BY <1>1, <1>2 DEF CanTransitionTo, ValidTransitions
<1>4. Verdict(c) = t \/ Verdict(c) = "expired"
  BY DEF Verdict
<1>5. Verdict(c) = "expired" => cb[c].id \in overdue
  BY <1>3 DEF Verdict
<1> QED
  BY <1>1, <1>3, <1>4, <1>5, Zenon

LEMMA CallKnowsStep == ASSUME TypeOK, CallKnows, [Next]_vars PROVE CallKnows'
<1> SUFFICES ASSUME NEW c \in Calls
             PROVE  /\ cb'[c].pc \in {"decided", "granted"} => cb'[c].seen = "pending"
                    /\ cb'[c].pc = "decided" =>
                         /\ cb'[c].target \in {"approved", "rejected", "modified", "expired"}
                         /\ cb'[c].target = "approved" => cb'[c].action = "approve"
                         /\ cb'[c].target = "expired" => cb'[c].id \in overdue'
                    /\ ScanFails => cb'[c].pc \in {"idle", "done"}
  BY DEF CallKnows
<1>0. cb \in [Calls -> CallRecords]
  BY DEF TypeOK
<1>1. CASE cb'[c] = cb[c]
  BY <1>1, CallKept
<1>2. CASE CallbackRead(c)
  BY <1>0, <1>2 DEF CallbackRead, RowReadWorks
<1>3. CASE CallbackDecide(c)
  <2>1. CASE Verdict(c) = "refuse"
    <3>1. cb'[c].pc = "done"
      BY <1>3, <2>1, CallFields DEF CallbackDecide
    <3> QED
      BY <3>1
  <2>2. CASE Verdict(c) # "refuse"
    <3>1. cb' = [cb EXCEPT ![c].pc = "decided", ![c].target = Verdict(c)]
      BY <1>3, <2>2 DEF CallbackDecide
    <3>2. /\ cb'[c].pc = "decided" /\ cb'[c].target = Verdict(c) /\ cb'[c].id = cb[c].id
          /\ cb'[c].action = cb[c].action /\ cb'[c].seen = cb[c].seen
      BY <1>0, <3>1 DEF CallRecords
    <3>3. ~ScanFails /\ overdue' = overdue
      BY <1>3 DEF CallbackDecide, CallKnows
    <3> QED
      BY <2>2, <3>2, <3>3, VerdictKnows
  <2> QED
    BY <2>1, <2>2
<1>4. CASE CallbackWrite(c)
  <2>1. cb'[c].pc \in {"granted", "done"} /\ cb'[c].seen = cb[c].seen
    BY <1>0, <1>4, CallFields DEF CallbackWrite
  <2>2. cb[c].seen = "pending" /\ ~ScanFails
    BY <1>4 DEF CallbackWrite, CallKnows
  <2> QED
    BY <2>1, <2>2
<1>5. CASE CallbackSpawn(c) \/ CallbackFails(c)
  <2>1. cb'[c].pc = "done"
    BY <1>0, <1>5, CallFields DEF CallbackSpawn, CallbackFails
  <2> QED
    BY <2>1
<1>6. CASE Crash
  <2>1. cb'[c].pc \in {"idle", "done"}
    BY <1>6, CrashFields
  <2> QED
    BY <2>1
<1> QED
  BY <1>1, <1>2, <1>3, <1>4, <1>5, <1>6, CallMoves

LEMMA ChatKnowsStep ==
  ASSUME TypeOK, Known, ChatKnows, [Next]_vars PROVE ChatKnows'
<1> SUFFICES ASSUME NEW h \in Chats, chat'[h].pc \in {"created", "superseding"}
             PROVE  /\ chat'[h].parent # NoId /\ chat'[h].parent < chat'[h].new
                    /\ parent'[chat'[h].new] = chat'[h].parent
  BY DEF ChatKnows
<1>0. chat \in [Chats -> ChatRecords]
  BY DEF TypeOK
<1>1. CASE chat'[h] = chat[h]
  BY <1>1, ChatKept
<1>2. CASE ChatReadOld(h)
  <2>1. PICK p : chat' = [chat EXCEPT ![h].pc = p]
    BY <1>2 DEF ChatReadOld
  <2>2. chat'[h].parent = chat[h].parent /\ chat'[h].new = chat[h].new
    BY <1>0, <2>1 DEF ChatRecords
  <2>3. UNCHANGED parent /\ chat[h].pc = "created"
    BY <1>2 DEF ChatReadOld, storeVars
  <2> QED
    BY <2>2, <2>3 DEF ChatKnows
<1>3. CASE ChatCreate(h)
  <2>1. InsertPending(RevisionParent(h)) /\ chat[h].parent # NoId
    BY <1>0, <1>3 DEF ChatCreate, ChatRecords
  <2>2. /\ created' = created + 1 /\ created + 1 \in Approvals
        /\ parent' = [parent EXCEPT ![created + 1] = chat[h].parent]
    BY <2>1, NumTypes, BoundsAssumption DEF InsertPending, RevisionParent, Approvals
  <2>3. chat'[h].parent = chat[h].parent /\ chat'[h].new = created + 1
    BY <1>0, <1>3, <2>1, <2>2, NumTypes DEF ChatCreate, ChatRecords, InsertPending
  <2>4. parent'[created + 1] = chat[h].parent
    BY <2>2 DEF TypeOK
  <2> QED
    BY <2>1, <2>3, <2>4, NumTypes DEF Known
<1>4. CASE ChatTurn(h) /\ ~ChatReadOld(h) /\ ~ChatCreate(h)
  <2>1. PICK p \in {"found", "done", "guarded", "linking"} : chat'[h].pc = p
    BY <1>0, <1>4 DEF ChatTurn, ChatFind, ChatNoPlan, ChatGuard, ChatSupersede, ChatLink, ChatRecords
  <2> QED
    BY <2>1
<1>5. CASE Crash
  BY <1>5, CrashFields
<1> QED
  BY <1>1, <1>2, <1>3, <1>4, <1>5, ChatMoves

LEMMA SweepKnowsStep == ASSUME TypeOK, SweepKnows, [Next]_vars PROVE SweepKnows'
<1> SUFFICES ASSUME sweep'.pc = "writing" PROVE sweep'.stale \subseteq overdue'
  BY DEF SweepKnows
<1>0. sweep \in SweepRecords /\ overdue \subseteq overdue'
  BY Grows DEF TypeOK
<1>1. CASE sweep' \in {sweep, IdleSweep}
  BY <1>0, <1>1 DEF SweepKnows, IdleSweep
<1>2. CASE SweepList
  BY <1>0, <1>2 DEF SweepList, SweepKnows
<1>3. CASE SweepNow
  BY <1>0, <1>3 DEF SweepNow, StaleNow, IdleSweep
<1>4. CASE SweepWrite
  <2>1. sweep'.stale \subseteq sweep.stale /\ sweep.pc = "writing"
    BY <1>0, <1>4 DEF SweepWrite, SweepRecords, IdleSweep
  <2> QED
    BY <1>0, <2>1 DEF SweepKnows
<1> QED
  BY <1>1, <1>2, <1>3, <1>4, SweepMoves

LEMMA KnowStep == ASSUME TypeOK, ExecInv, KnowInv, [Next]_vars PROVE KnowInv'
BY KnownStep, RowsExistStep, CallKnowsStep, ChatKnowsStep, SweepKnowsStep DEF KnowInv

LEMMA KnowAlways == Spec => [](TypeOK /\ ExecInv /\ KnowInv)
<1>1. Init => KnowInv
  BY KnowInit
<1>2. TypeOK /\ ExecInv /\ KnowInv /\ [Next]_vars => KnowInv'
  BY KnowStep
<1> QED
  BY <1>1, <1>2, ExecAlways, PTL DEF Spec

-----------------------------------------------------------------------------
(* What the rows say.                                                      *)

LEMMA ExpiredStep ==
  ASSUME TypeOK, KnowInv, ExpiredIsOverdue, [Next]_vars PROVE ExpiredIsOverdue'
<1> SUFFICES ASSUME NEW a \in Approvals, status'[a] = "expired" PROVE a \in overdue'
  BY DEF ExpiredIsOverdue
<1>1. CASE status'[a] = status[a]
  BY <1>1, Grows DEF ExpiredIsOverdue
<1>2. CASE StatusMove(a)
  <2>1. ASSUME NEW c \in Calls, CallbackWrite(c), a = cb[c].id, cb[c].target = "expired"
        PROVE  a \in overdue
    BY <2>1 DEF KnowInv, CallKnows, CallbackWrite
  <2>2. ASSUME NEW c \in Calls PROVE FinalStatus(run[c].ok) # "expired"
    BY DEF FinalStatus
  <2>3. SweepWrite /\ a \in sweep.stale => a \in overdue
    BY DEF KnowInv, SweepKnows, SweepWrite
  <2> QED
    BY <1>2, <2>1, <2>2, <2>3, Grows DEF StatusMove
<1> QED
  BY <1>1, <1>2, StatusMoves

(* For every overlap of callbacks, sweeps and chat turns, no row expires   *)
(* before its deadline: both paths compare the clock first.                *)
THEOREM NothingExpiresEarly == Spec => []ExpiredIsOverdue
<1>1. Init => ExpiredIsOverdue
  BY DEF Init, ExpiredIsOverdue
<1>2. TypeOK /\ ExecInv /\ KnowInv /\ ExpiredIsOverdue /\ [Next]_vars => ExpiredIsOverdue'
  BY ExpiredStep
<1> QED
  BY <1>1, <1>2, KnowAlways, PTL DEF Spec

LEMMA SupersededStep ==
  ASSUME TypeOK, KnowInv, SupersededHasSuccessor, [Next]_vars PROVE SupersededHasSuccessor'
<1> SUFFICES ASSUME NEW a \in Approvals, status'[a] = "superseded"
             PROVE  \E b \in Approvals : b > a /\ b <= created' /\ parent'[b] = a
  BY DEF SupersededHasSuccessor
<1>1. \E b \in Approvals : b > a /\ b <= created /\ parent[b] = a
  <2>1. CASE status'[a] = status[a]
    BY <2>1 DEF SupersededHasSuccessor
  <2>2. CASE StatusMove(a)
    <3>1. ASSUME NEW c \in Calls, CallbackWrite(c) PROVE cb[c].target # "superseded"
      BY <3>1 DEF KnowInv, CallKnows, CallbackWrite
    <3>2. ASSUME NEW c \in Calls PROVE FinalStatus(run[c].ok) # "superseded"
      BY DEF FinalStatus
    <3>3. PICK h \in Chats : ChatSupersede(h) /\ a = chat[h].parent
      BY <2>2, <3>1, <3>2 DEF StatusMove
    <3>4. a < chat[h].new /\ chat[h].new <= created /\ parent[chat[h].new] = a
      BY <3>3 DEF ChatSupersede, KnowInv, ChatKnows, Known
    <3>5. chat[h].new \in Approvals
      BY <3>4, NumTypes, BoundsAssumption DEF TypeOK, Approvals
    <3> QED
      BY <3>4, <3>5, NumTypes DEF Approvals
  <2> QED
    BY <2>1, <2>2, StatusMoves
<1>2. PICK b \in Approvals : b > a /\ b <= created /\ parent[b] = a
  BY <1>1
<1>3. parent'[b] = parent[b] /\ b <= created'
  BY <1>2, Grows, CreatedGrows, NumTypes DEF Approvals
<1> QED
  BY <1>2, <1>3

(* A plan is never withdrawn before its replacement is in the table, even  *)
(* when turns overlap and the process restarts between the two writes.     *)
THEOREM SuccessorFirst == Spec => []SupersededHasSuccessor
<1>1. Init => SupersededHasSuccessor
  BY DEF Init, SupersededHasSuccessor
<1>2. TypeOK /\ ExecInv /\ KnowInv /\ SupersededHasSuccessor /\ [Next]_vars
        => SupersededHasSuccessor'
  BY SupersededStep
<1> QED
  BY <1>1, <1>2, KnowAlways, PTL DEF Spec

-----------------------------------------------------------------------------
(* An approved plan has a goroutine.                                       *)

LEMMA FaultsGrow ==
  ASSUME TypeOK, [Next]_vars
  PROVE  /\ faults' >= faults /\ crashes' >= crashes
         /\ faults \in Nat /\ crashes \in Nat
<1>0. faults \in Nat /\ crashes \in Nat
  BY BoundsAssumption DEF TypeOK
<1>1. CallFails \/ CallWorks
  BY DEF Next, Pipeline, PipelinePropose, PipelineConverse, Callback, CallbackRead,
    CallbackDecide, CallbackWrite, CallbackSpawn, CallbackFails, Execution, RunStart,
    RunCommand, RunRecord, RunFinish, ChatTurn, ChatFind, ChatNoPlan, ChatGuard, ChatCreate,
    ChatReadOld, ChatSupersede, ChatLink, ExpireLoop, SweepList, SweepNow, SweepWrite,
    Deadline, Crash, InsertPending, WriteStatus, WriteLost, RowReadWorks, RowReadFails,
    CallWorks, vars
<1>2. crashes' = crashes \/ crashes' = crashes + 1
  BY DEF Next, Pipeline, PipelinePropose, PipelineConverse, Callback, CallbackRead,
    CallbackDecide, CallbackWrite, CallbackSpawn, CallbackFails, Execution, RunStart,
    RunCommand, RunRecord, RunFinish, ChatTurn, ChatFind, ChatNoPlan, ChatGuard, ChatCreate,
    ChatReadOld, ChatSupersede, ChatLink, ExpireLoop, SweepList, SweepNow, SweepWrite,
    Deadline, Crash, vars
<1> QED
  BY <1>0, <1>1, <1>2 DEF CallFails, CallWorks

LEMMA RunChanges ==
  ASSUME TypeOK, [Next]_vars, NEW c \in Calls
  PROVE  \/ run'[c] = run[c] \/ Execution(c) \/ CallbackSpawn(c) \/ Crash
<1>0. run \in [Calls -> RunRecords]
  BY DEF TypeOK
<1>1. ASSUME NEW d \in Calls, d # c, Execution(d) \/ CallbackSpawn(d) PROVE run'[c] = run[c]
  <2>1. PICK r : run' = [run EXCEPT ![d] = r]
    BY <1>1 DEF Execution, RunStart, RunCommand, RunRecord, RunFinish, CallbackSpawn
  <2> QED
    BY <1>0, <1>1, <2>1
<1>2. run' = run \/ Crash \/ \E d \in Calls : Execution(d) \/ CallbackSpawn(d)
  BY DEF Next, Pipeline, PipelinePropose, PipelineConverse, Callback, CallbackRead,
   CallbackDecide, CallbackWrite, CallbackFails, ChatTurn, ChatFind, ChatNoPlan, ChatGuard,
   ChatCreate, ChatReadOld, ChatSupersede, ChatLink, ExpireLoop, SweepList, SweepNow,
   SweepWrite, Deadline, actorVars, vars
<1> QED
  BY <1>1, <1>2

LEMMA RunFields ==
  ASSUME TypeOK, NEW c \in Calls, Execution(c)
  PROVE  /\ run'[c].id = run[c].id
         /\ run'[c].pc \in {"exec", "record", "finish"} \/ RunFinish(c)
<1>0. run \in [Calls -> RunRecords] /\ run'[c].id = run[c].id
  BY RunFrame DEF TypeOK, RunMoves
<1>1. CASE RunStart(c)
  BY <1>0, <1>1 DEF RunStart, RunRecords
<1>2. CASE RunCommand(c)
  BY <1>0, <1>2 DEF RunCommand, RunRecords
<1>3. CASE RunRecord(c)
  <2>1. run'[c] = AfterRecord(run[c])
    BY <1>0, <1>3 DEF RunRecord
  <2> QED
    BY <1>0, <2>1 DEF AfterRecord, RunRecords
<1> QED
  BY <1>0, <1>1, <1>2, <1>3 DEF Execution

LEMMA OrphanStep ==
  ASSUME TypeOK, ExecInv, KnowInv, NoOrphan, [Next]_vars PROVE NoOrphan'
<1> SUFFICES ASSUME faults' = 0, crashes' = 0, NEW a \in Approvals,
                    status'[a] \in {"approved", "executing"}
             PROVE  Driven(a)'
  BY DEF NoOrphan
<1>0. faults = 0 /\ crashes = 0 /\ ~Crash /\ ~CallFails
  BY FaultsGrow DEF CallFails, Crash
<1>1. CASE status'[a] # status[a]
  <2>1. StatusMove(a)
    BY <1>1, StatusMoves
  <2>2. ASSUME NEW c \in Calls, CallbackWrite(c), a = cb[c].id, status'[a] = cb[c].target
        PROVE  Driven(a)'
    <3>1. cb[c].target = "approved" /\ cb[c].action = "approve"
      BY <2>2 DEF KnowInv, CallKnows, CallbackWrite
    <3>2. cb'[c].pc = "granted" /\ cb'[c].id = a
      BY <2>2, <3>1, CallFields DEF CallbackWrite, Granted
    <3> QED
      BY <3>2 DEF Driven
  <2>3. ASSUME NEW c \in Calls, RunStart(c), a = run[c].id PROVE Driven(a)'
    <3>1. run'[c].pc \notin {"none", "done"} /\ run'[c].id = a
      BY <2>3 DEF RunStart, TypeOK, RunRecords
    <3> QED
      BY <3>1 DEF Driven
  <2>4. ASSUME NEW c \in Calls
        PROVE  FinalStatus(run[c].ok) \notin {"approved", "executing"}
    BY DEF FinalStatus
  <2> QED
    BY <2>1, <2>2, <2>3, <2>4 DEF StatusMove
<1>2. CASE status'[a] = status[a]
  <2>1. Driven(a)
    BY <1>0, <1>2 DEF NoOrphan
  <2>2. ASSUME NEW c \in Calls, cb[c].pc = "granted", cb[c].id = a PROVE Driven(a)'
    <3>1. cb'[c] = cb[c] \/ CallbackSpawn(c) \/ CallbackFails(c)
      BY <1>0, <2>2, CallMoves DEF CallbackRead, CallbackDecide, CallbackWrite
    <3>2. ~CallbackFails(c)
      BY <1>0, <2>2 DEF CallbackFails, RowReadFails, KnowInv, CallKnows
    <3>3. CASE CallbackSpawn(c)
      <4>1. run'[c] = [NoRun EXCEPT !.pc = "start", !.id = cb[c].id]
        BY <3>3 DEF CallbackSpawn, TypeOK
      <4>2. run'[c].pc = "start" /\ run'[c].id = a
        BY <2>2, <4>1 DEF NoRun
      <4> QED
        BY <4>2 DEF Driven
    <3> QED
      BY <2>2, <3>1, <3>2, <3>3 DEF Driven
  <2>3. ASSUME NEW c \in Calls, run[c].pc \notin {"none", "done"}, run[c].id = a
        PROVE  Driven(a)'
    <3>1. ~CallbackSpawn(c)
      BY <2>3 DEF CallbackSpawn, ExecInv, RunInv
    <3>2. CASE Execution(c)
      <4>1. CASE RunFinish(c)
        <5>1. status'[a] = FinalStatus(run[c].ok)
          BY <1>0, <2>3, <4>1 DEF RunFinish, WriteStatus, WriteLost, TypeOK
        <5> QED
          BY <5>1 DEF FinalStatus
      <4>2. CASE run'[c].pc \in {"exec", "record", "finish"}
        BY <2>3, <3>2, <4>2, RunFields DEF Driven
      <4> QED
        BY <3>2, <4>1, <4>2, RunFields
    <3> QED
      BY <1>0, <2>3, <3>1, <3>2, RunChanges DEF Driven
  <2> QED
    BY <2>1, <2>2, <2>3 DEF Driven
<1> QED
  BY <1>1, <1>2

(* While no store call failed and the process was not restarted, every row *)
(* that says "approved" or "executing" has a goroutine that will move it   *)
(* on, whatever the handlers overwrite meanwhile.                          *)
THEOREM ApprovedIsDriven == Spec => []NoOrphan
<1>1. Init => NoOrphan
  BY DEF Init, NoOrphan
<1>2. TypeOK /\ ExecInv /\ KnowInv /\ NoOrphan /\ [Next]_vars => NoOrphan'
  BY OrphanStep
<1> QED
  BY <1>1, <1>2, KnowAlways, PTL DEF Spec

-----------------------------------------------------------------------------
(* A row that ended stays as it is.                                        *)

RowRests(a) ==
  IsFinal(status[a]) /\ ~Held(a) => status'[a] = status[a] /\ ran'[a] = ran[a]

LEMMA FinalRests ==
  ASSUME TypeOK, ExecInv, KnowInv, [Next]_vars, NEW a \in Approvals,
         IsFinal(status[a]), ~Held(a)
  PROVE  status'[a] = status[a] /\ ran'[a] = ran[a]
<1>1. ASSUME status'[a] # status[a] PROVE FALSE
  <2>1. StatusMove(a)
    BY <1>1, StatusMoves
  <2>2. a # created + 1
    BY NumTypes DEF KnowInv, RowsExist, IsFinal, Approvals
  <2>3. ASSUME NEW c \in Calls, CallbackWrite(c) PROVE a # cb[c].id
    BY <2>3 DEF CallbackWrite, KnowInv, CallKnows, Held
  <2>4. ASSUME NEW c \in Calls, RunStart(c) \/ RunFinish(c) PROVE a # run[c].id
    BY <2>4 DEF RunStart, RunFinish, Held
  <2>5. ASSUME NEW h \in Chats, ChatSupersede(h) PROVE a # chat[h].parent
    BY <2>5 DEF ChatSupersede, Held
  <2>6. a \notin sweep.stale
    BY DEF Held
  <2> QED
    BY <2>1, <2>2, <2>3, <2>4, <2>5, <2>6 DEF StatusMove
<1>2. ran'[a] = ran[a]
  <2>1. ran' = ran \/ \E c \in Calls : RunCommand(c)
    BY DEF Next, Pipeline, PipelinePropose, PipelineConverse, Callback, CallbackRead,
      CallbackDecide, CallbackWrite, CallbackSpawn, CallbackFails, Execution, RunStart,
      RunRecord, RunFinish, ChatTurn, ChatFind, ChatNoPlan, ChatGuard, ChatCreate,
      ChatReadOld, ChatSupersede, ChatLink, ExpireLoop, SweepList, SweepNow, SweepWrite,
      Deadline, Crash, vars
  <2>2. ASSUME NEW c \in Calls, RunCommand(c) PROVE ran'[a] = ran[a]
    <3>1. a # run[c].id
      BY <2>2 DEF RunCommand, Held
    <3>2. ran' = ran \/ \E e : ran' = [ran EXCEPT ![run[c].id] = e]
      BY <2>2 DEF RunCommand, TypeOK
    <3> QED
      BY <3>1, <3>2 DEF TypeOK
  <2> QED
    BY <2>1, <2>2
<1> QED
  BY <1>1, <1>2

(* A rejected, expired, superseded, completed or failed row changes its    *)
(* status, or runs another command, only through a goroutine that read it  *)
(* earlier and still holds what it read.                                   *)
THEOREM FinalStays == Spec => FinalStaysFinal
<1>1. TypeOK /\ ExecInv /\ KnowInv /\ [Next]_vars => \A a \in Approvals : RowRests(a)
  BY FinalRests DEF RowRests
<1>2. Spec => [][\A a \in Approvals : RowRests(a)]_vars
  BY <1>1, KnowAlways, PTL DEF Spec
<1> QED
  BY <1>2 DEF FinalStaysFinal, RowRests
=============================================================================
