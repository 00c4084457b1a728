------------------------- MODULE ApprovalFlowProofs -------------------------
(***************************************************************************)
(* Proofs about ApprovalFlow for every number of callbacks, chat turns,    *)
(* rows, steps, failures and restarts.                                     *)
(***************************************************************************)
EXTENDS ApprovalFlow, TLAPS

-----------------------------------------------------------------------------
(* Type correctness: lemmas about the store calls, then one lemma per      *)
(* goroutine with one step per action.                                     *)

LEMMA FaultsType ==
  ASSUME faults \in 0..MaxFaults, CallFails \/ CallWorks
  PROVE  faults' \in 0..MaxFaults
BY BoundsAssumption DEF CallFails, CallWorks

LEMMA ReadType ==
  ASSUME faults \in 0..MaxFaults, RowReadWorks \/ RowReadFails
  PROVE  faults' \in 0..MaxFaults
BY FaultsType DEF RowReadWorks, RowReadFails

LEMMA InsertType ==
  ASSUME created \in 0..MaxApprovals, status \in [Approvals -> RowStatuses],
         parent \in [Approvals -> Ids], NEW p \in Ids, InsertPending(p)
  PROVE  /\ created' \in Approvals /\ created' = created + 1
         /\ status' \in [Approvals -> RowStatuses]
         /\ parent' \in [Approvals -> Ids]
         /\ faults' = faults
BY BoundsAssumption DEF InsertPending, CallWorks, Approvals, RowStatuses, Statuses

LEMMA WriteType ==
  ASSUME status \in [Approvals -> RowStatuses], faults \in 0..MaxFaults,
         NEW a, NEW s \in RowStatuses,
         WriteStatus(a, s) \/ WriteLost
  PROVE  /\ status' \in [Approvals -> RowStatuses]
         /\ faults' \in 0..MaxFaults
BY FaultsType DEF WriteStatus, WriteLost

(* Updating a field of a record with a value of its type.                  *)
LEMMA CallUpdate ==
  ASSUME NEW r \in CallRecords, NEW p \in CallStates, NEW t \in RowStatuses
  PROVE  [r EXCEPT !.pc = p, !.target = t] \in CallRecords
BY DEF CallRecords

LEMMA CallPcType ==
  ASSUME NEW f \in [Calls -> CallRecords], NEW c, NEW p \in CallStates
  PROVE  [f EXCEPT ![c].pc = p] \in [Calls -> CallRecords]
<1>1. c \in Calls => [f[c] EXCEPT !.pc = p] \in CallRecords
  BY DEF CallRecords
<1> QED
  BY <1>1

LEMMA RunUpdate ==
  ASSUME NEW r \in RunRecords, NEW p \in RunStates, NEW i \in Nat
  PROVE  [r EXCEPT !.pc = p, !.step = i] \in RunRecords
BY DEF RunRecords

LEMMA TypeInit == Init => TypeOK
<1> SUFFICES ASSUME Init PROVE TypeOK
  OBVIOUS
<1>1. 1 \in Approvals
  BY BoundsAssumption DEF Approvals
<1>2. IdleCall \in CallRecords
  BY <1>1 DEF IdleCall, CallRecords, CallStates, RowStatuses
<1>3. NoRun \in RunRecords
  BY <1>1 DEF NoRun, RunRecords, RunStates
<1>4. IdleChat \in ChatRecords
  BY DEF IdleChat, ChatRecords, ChatStates, Ids
<1>5. IdleSweep \in SweepRecords /\ pipe \in PipeRecords
  BY DEF Init, IdleSweep, SweepRecords, PipeRecords, Ids
<1> QED
  BY <1>2, <1>3, <1>4, <1>5, BoundsAssumption
     DEF Init, TypeOK, RowStatuses, StepOutcomes, Ids

LEMMA TypePipeline == TypeOK /\ Pipeline => TypeOK'
<1> SUFFICES ASSUME TypeOK, Pipeline PROVE TypeOK'
  OBVIOUS
<1>1. CASE PipelinePropose
  <2>1. CASE InsertPending(NoId) /\ pipe' = [pc |-> "converse", id |-> created + 1]
    <3>1. /\ created' \in Approvals /\ created' = created + 1
          /\ status' \in [Approvals -> RowStatuses] /\ parent' \in [Approvals -> Ids]
          /\ faults' = faults
      BY <2>1, InsertType DEF TypeOK, Ids
    <3>2. pipe' \in PipeRecords /\ created' \in 0..MaxApprovals
      BY <2>1, <3>1, BoundsAssumption DEF PipeRecords, Ids, Approvals
    <3> QED
      BY <1>1, <3>1, <3>2 DEF TypeOK, PipelinePropose
  <2>2. CASE /\ CallFails \/ CallWorks
             /\ pipe' = [pc |-> "converse", id |-> NoId]
             /\ UNCHANGED <<created, status, parent>>
    <3>1. faults' \in 0..MaxFaults /\ pipe' \in PipeRecords
      BY <2>2, FaultsType DEF TypeOK, PipeRecords, Ids
    <3> QED
      BY <1>1, <2>2, <3>1 DEF TypeOK, PipelinePropose
  <2> QED
    BY <1>1, <2>1, <2>2 DEF PipelinePropose
<1>2. CASE PipelineConverse
  <2>1. pipe' \in PipeRecords
    BY <1>2 DEF TypeOK, PipelineConverse, PipeRecords
  <2>2. conv' \in Ids \cup {NoConv} /\ faults' \in 0..MaxFaults
    BY <1>2, FaultsType DEF TypeOK, PipelineConverse, PipeRecords
  <2> QED
    BY <1>2, <2>1, <2>2 DEF TypeOK, PipelineConverse
<1> QED
  BY <1>1, <1>2 DEF Pipeline

LEMMA TypeCallback == ASSUME NEW c \in Calls, TypeOK, Callback(c) PROVE TypeOK'
<1>1. CASE CallbackRead(c)
  <2>1. PICK a \in 1..created, act \in Actions :
          cb' = [cb EXCEPT ![c] = [pc |-> "read", id |-> a, action |-> act,
                                   seen |-> status[a], target |-> "none"]]
    BY <1>1 DEF CallbackRead
  <2>2. a \in Approvals /\ status[a] \in RowStatuses
    BY BoundsAssumption DEF TypeOK, Approvals
  <2>3. cb' \in [Calls -> CallRecords]
    BY <2>1, <2>2 DEF TypeOK, CallRecords, CallStates, RowStatuses
  <2> QED
    BY <1>1, <2>3, ReadType DEF TypeOK, CallbackRead, storeVars
<1>2. CASE CallbackDecide(c)
  <2>1. Verdict(c) \in RowStatuses \cup {"refuse"}
    BY DEF Verdict, StatusFromAction, RowStatuses, Statuses
  <2>2. cb' \in [Calls -> CallRecords]
    <3>1. CASE Verdict(c) = "refuse"
      <4>1. cb' = [cb EXCEPT ![c].pc = "done"]
        BY <1>2, <3>1 DEF CallbackDecide
      <4> QED
        BY <4>1, CallPcType DEF TypeOK, CallStates
    <3>2. CASE Verdict(c) # "refuse"
      <4>1. PICK s \in RowStatuses :
              cb' = [cb EXCEPT ![c].pc = "decided", ![c].target = s]
        <5>1. cb' = [cb EXCEPT ![c].pc = "decided", ![c].target = Verdict(c)]
          BY <1>2, <3>2 DEF CallbackDecide
        <5> QED
          BY <2>1, <3>2, <5>1
      <4> QED
        BY <4>1, CallUpdate DEF TypeOK, CallStates
    <3> QED
      BY <3>1, <3>2
  <2> QED
    BY <1>2, <2>2 DEF TypeOK, CallbackDecide, storeVars
<1>3. CASE CallbackWrite(c)
  <2>1. cb[c].id \in Approvals /\ cb[c].target \in RowStatuses
    BY DEF TypeOK, CallRecords
  <2>2. status' \in [Approvals -> RowStatuses] /\ faults' \in 0..MaxFaults
    BY <1>3, <2>1, WriteType DEF TypeOK, CallbackWrite
  <2>3. PICK s \in CallStates : cb' = [cb EXCEPT ![c].pc = s]
    BY <1>3 DEF CallbackWrite, CallStates
  <2>4. cb' \in [Calls -> CallRecords]
    BY <2>3, CallPcType DEF TypeOK
  <2> QED
    BY <1>3, <2>2, <2>4 DEF TypeOK, CallbackWrite
<1>4. CASE CallbackSpawn(c)
  <2>1. cb' \in [Calls -> CallRecords]
    BY <1>4, CallPcType DEF TypeOK, CallbackSpawn, CallStates
  <2>2. run' \in [Calls -> RunRecords]
    BY <1>4 DEF TypeOK, CallbackSpawn, CallRecords, NoRun, RunRecords, RunStates
  <2> QED
    BY <1>4, <2>1, <2>2, ReadType DEF TypeOK, CallbackSpawn, storeVars
<1>5. CASE CallbackFails(c)
  <2>1. cb' \in [Calls -> CallRecords]
    BY <1>5, CallPcType DEF TypeOK, CallbackFails, CallStates
  <2>2. faults' \in 0..MaxFaults
    BY <1>5, FaultsType, ReadType DEF TypeOK, CallbackFails
  <2> QED
    BY <1>5, <2>1, <2>2 DEF TypeOK, CallbackFails, storeVars
<1> QED
  BY <1>1, <1>2, <1>3, <1>4, <1>5 DEF Callback

LEMMA RanType ==
  ASSUME NEW r \in [Approvals -> [Steps -> SUBSET Calls]], NEW a, NEW i, NEW c \in Calls
  PROVE  [r EXCEPT ![a][i] = @ \cup {c}] \in [Approvals -> [Steps -> SUBSET Calls]]
<1>1. a \in Approvals => [r[a] EXCEPT ![i] = @ \cup {c}] \in [Steps -> SUBSET Calls]
  OBVIOUS
<1> QED
  BY <1>1

LEMMA TypeExecution == ASSUME NEW c \in Calls, TypeOK, Execution(c) PROVE TypeOK'
<1>0. run[c].id \in Approvals /\ run[c] \in RunRecords
  BY DEF TypeOK, RunRecords
<1>1. CASE RunStart(c)
  <2>1. status' \in [Approvals -> RowStatuses] /\ faults' \in 0..MaxFaults
    BY <1>0, <1>1, WriteType DEF TypeOK, RunStart, RowStatuses, Statuses
  <2>2. PICK s \in RunStates : run' = [run EXCEPT ![c].pc = s]
    BY <1>1 DEF RunStart, RunStates
  <2>3. run' \in [Calls -> RunRecords]
    BY <2>2 DEF TypeOK, RunRecords
  <2> QED
    BY <1>1, <2>1, <2>3 DEF TypeOK, RunStart
<1>2. CASE RunCommand(c)
  <2>1. PICK ok \in BOOLEAN, routed \in BOOLEAN :
          /\ run' = [run EXCEPT ![c].pc = "record", ![c].ok = ok]
          /\ ran' = IF routed
                      THEN [ran EXCEPT ![run[c].id][run[c].step] = @ \cup {c}] ELSE ran
    BY <1>2 DEF RunCommand
  <2>2. run' \in [Calls -> RunRecords]
    <3>1. PICK s \in RunStates : run' = [run EXCEPT ![c].pc = s, ![c].ok = ok]
      BY <2>1 DEF RunStates
    <3>2. \A d \in Calls : run[d] \in RunRecords
      BY DEF TypeOK
    <3>3. [run[c] EXCEPT !.pc = s, !.ok = ok] \in RunRecords
      BY <3>1, <1>0 DEF RunRecords
    <3>4. run' = [run EXCEPT ![c] = [run[c] EXCEPT !.pc = s, !.ok = ok]]
      BY <3>1
    <3> QED
      BY <3>3, <3>4 DEF TypeOK
  <2>3. ran' \in [Approvals -> [Steps -> SUBSET Calls]]
    BY <2>1, RanType DEF TypeOK
  <2> QED
    BY <1>2, <2>2, <2>3 DEF TypeOK, RunCommand, storeVars
<1>3. CASE RunRecord(c)
  <2>1. AfterRecord(run[c]) \in RunRecords
    <3>1. CASE run[c].ok /\ run[c].step < NSteps
      <4>1. run[c].step + 1 \in Nat /\ "exec" \in RunStates
        BY <1>0 DEF RunRecords, RunStates
      <4> QED
        BY <1>0, <3>1, <4>1, RunUpdate DEF AfterRecord
    <3>2. CASE ~(run[c].ok /\ run[c].step < NSteps)
      BY <1>0, <3>2 DEF AfterRecord, RunRecords, RunStates
    <3> QED
      BY <3>1, <3>2
  <2>2. run' \in [Calls -> RunRecords]
    BY <1>3, <2>1 DEF TypeOK, RunRecord
  <2>3. StepStatus(run[c].ok) \in StepOutcomes
    BY DEF StepStatus, StepOutcomes
  <2>4. log' \in [Approvals -> [Steps -> StepOutcomes]]
    <3>1. \/ log' = log
          \/ log' = [log EXCEPT ![run[c].id][run[c].step] = StepStatus(run[c].ok)]
      BY <1>3 DEF RunRecord
    <3>2. CASE log' = [log EXCEPT ![run[c].id][run[c].step] = StepStatus(run[c].ok)]
      <4>1. PICK o \in StepOutcomes : log' = [log EXCEPT ![run[c].id][run[c].step] = o]
        BY <2>3, <3>2
      <4>2. log \in [Approvals -> [Steps -> StepOutcomes]] /\ run[c].id \in Approvals
        BY <1>0 DEF TypeOK
      <4> QED
        BY <4>1, <4>2
    <3> QED
      BY <3>1, <3>2 DEF TypeOK
  <2>5. faults' \in 0..MaxFaults
    BY <1>3, FaultsType DEF TypeOK, RunRecord
  <2> QED
    BY <1>3, <2>2, <2>4, <2>5 DEF TypeOK, RunRecord
<1>4. CASE RunFinish(c)
  <2>1. FinalStatus(run[c].ok) \in RowStatuses
    BY DEF FinalStatus, RowStatuses, Statuses
  <2>2. status' \in [Approvals -> RowStatuses] /\ faults' \in 0..MaxFaults
    BY <1>0, <1>4, <2>1, WriteType DEF TypeOK, RunFinish
  <2>3. run' \in [Calls -> RunRecords]
    <3>1. PICK s \in RunStates : run' = [run EXCEPT ![c].pc = s]
      BY <1>4 DEF RunFinish, RunStates
    <3> QED
      BY <3>1 DEF TypeOK, RunRecords
  <2> QED
    BY <1>4, <2>2, <2>3 DEF TypeOK, RunFinish
<1> QED
  BY <1>1, <1>2, <1>3, <1>4 DEF Execution

LEMMA TypeChat == ASSUME NEW h \in Chats, TypeOK, ChatTurn(h) PROVE TypeOK'
<1>0. chat[h].parent \in Ids /\ chat[h].new \in Ids
  BY DEF TypeOK, ChatRecords
<1>1. CASE ChatFind(h)
  <2>1. conv \in Ids
    BY <1>1 DEF TypeOK, ChatFind
  <2>2. chat' \in [Chats -> ChatRecords]
    BY <1>1, <2>1 DEF TypeOK, ChatFind, ChatRecords, ChatStates
  <2> QED
    BY <1>1, <2>2 DEF TypeOK, ChatFind, storeVars
<1>2. CASE ChatNoPlan(h)
  <2>1. chat' \in [Chats -> ChatRecords]
    BY <1>2 DEF TypeOK, ChatNoPlan, ChatRecords, ChatStates
  <2> QED
    BY <1>2, <2>1 DEF TypeOK, ChatNoPlan, storeVars
<1>3. CASE ChatGuard(h)
  <2>1. PICK s \in ChatStates : chat' = [chat EXCEPT ![h].pc = s]
    BY <1>3 DEF ChatGuard, ChatStates
  <2>2. chat' \in [Chats -> ChatRecords]
    BY <2>1 DEF TypeOK, ChatRecords
  <2>3. faults' \in 0..MaxFaults
    BY <1>3, FaultsType, ReadType DEF TypeOK, ChatGuard
  <2> QED
    BY <1>3, <2>2, <2>3 DEF TypeOK, ChatGuard, storeVars
<1>4. CASE ChatCreate(h)
  <2>1. CASE InsertPending(RevisionParent(h))
             /\ chat' = [chat EXCEPT ![h].new = created + 1,
                          ![h].pc = IF chat[h].parent = NoId THEN "linking" ELSE "created"]
    <3>1. /\ created' \in Approvals /\ created' = created + 1
          /\ status' \in [Approvals -> RowStatuses] /\ parent' \in [Approvals -> Ids]
          /\ faults' = faults
      BY <1>0, <2>1, InsertType DEF TypeOK, RevisionParent
    <3>2. PICK s \in ChatStates, n \in Ids : chat' = [chat EXCEPT ![h].new = n, ![h].pc = s]
      BY <2>1, <3>1 DEF ChatStates, Ids
    <3>3. chat' \in [Chats -> ChatRecords]
      BY <3>2 DEF TypeOK, ChatRecords
    <3>4. created' \in 0..MaxApprovals
      BY <3>1, BoundsAssumption DEF Approvals
    <3> QED
      BY <1>4, <3>1, <3>3, <3>4 DEF TypeOK, ChatCreate
  <2>2. CASE CallFails /\ chat' = [chat EXCEPT ![h].pc = "done"]
             /\ UNCHANGED <<created, status, parent>>
    <3>1. chat' \in [Chats -> ChatRecords]
      BY <2>2 DEF TypeOK, ChatRecords, ChatStates
    <3> QED
      BY <1>4, <2>2, <3>1, FaultsType DEF TypeOK, ChatCreate
  <2> QED
    BY <1>4, <2>1, <2>2 DEF ChatCreate
<1>5. CASE ChatReadOld(h)
  <2>1. PICK s \in ChatStates : chat' = [chat EXCEPT ![h].pc = s]
    BY <1>5 DEF ChatReadOld, ChatStates
  <2>2. chat' \in [Chats -> ChatRecords]
    BY <2>1 DEF TypeOK, ChatRecords
  <2>3. faults' \in 0..MaxFaults
    BY <1>5, ReadType DEF TypeOK, ChatReadOld
  <2> QED
    BY <1>5, <2>2, <2>3 DEF TypeOK, ChatReadOld, storeVars
<1>6. CASE ChatSupersede(h)
  <2>1. chat' \in [Chats -> ChatRecords]
    BY <1>6 DEF TypeOK, ChatSupersede, ChatRecords, ChatStates
  <2>2. status' \in [Approvals -> RowStatuses] /\ faults' \in 0..MaxFaults
    BY <1>6, WriteType DEF TypeOK, ChatSupersede, RowStatuses, Statuses
  <2> QED
    BY <1>6, <2>1, <2>2 DEF TypeOK, ChatSupersede
<1>7. CASE ChatLink(h)
  <2>1. chat' \in [Chats -> ChatRecords]
    BY <1>7 DEF TypeOK, ChatLink, ChatRecords, ChatStates
  <2>2. conv' \in Ids \cup {NoConv} /\ faults' \in 0..MaxFaults
    BY <1>0, <1>7, FaultsType DEF TypeOK, ChatLink, LinkTarget
  <2> QED
    BY <1>7, <2>1, <2>2 DEF TypeOK, ChatLink
<1> QED
  BY <1>1, <1>2, <1>3, <1>4, <1>5, <1>6, <1>7 DEF ChatTurn

LEMMA TypeExpireLoop == ASSUME TypeOK, ExpireLoop PROVE TypeOK'
<1>1. CASE SweepList
  <2>1. NewestPending \in SUBSET Approvals
    BY DEF NewestPending, Pending
  <2>2. sweep' \in SweepRecords
    BY <1>1, <2>1 DEF TypeOK, SweepList, SweepRecords
  <2>3. faults' \in 0..MaxFaults
    BY <1>1, FaultsType, ReadType DEF TypeOK, SweepList
  <2> QED
    BY <1>1, <2>2, <2>3 DEF TypeOK, SweepList, storeVars
<1>2. CASE SweepNow
  <2>1. sweep' \in SweepRecords
    BY <1>2 DEF TypeOK, SweepNow, StaleNow, SweepRecords, IdleSweep
  <2> QED
    BY <1>2, <2>1 DEF TypeOK, SweepNow, storeVars
<1>3. CASE SweepWrite
  <2>1. PICK a \in sweep.stale :
          /\ WriteStatus(a, "expired") \/ WriteLost
          /\ sweep' = IF sweep.stale = {a} THEN IdleSweep
                      ELSE [sweep EXCEPT !.stale = @ \ {a}]
    BY <1>3 DEF SweepWrite
  <2>2. sweep' \in SweepRecords
    BY <2>1 DEF TypeOK, SweepRecords, IdleSweep
  <2>3. status' \in [Approvals -> RowStatuses] /\ faults' \in 0..MaxFaults
    BY <2>1, WriteType DEF TypeOK, RowStatuses, Statuses
  <2> QED
    BY <1>3, <2>2, <2>3 DEF TypeOK, SweepWrite
<1> QED
  BY <1>1, <1>2, <1>3 DEF ExpireLoop

LEMMA TypeDeadline == ASSUME NEW a \in Approvals, TypeOK, Deadline(a) PROVE TypeOK'
BY DEF TypeOK, Deadline, storeVars, actorVars

LEMMA TypeCrash == ASSUME TypeOK, Crash PROVE TypeOK'
<1>1. cb' \in [Calls -> CallRecords]
  <2>1. \A c \in Calls : [cb[c] EXCEPT !.pc = "done"] \in CallRecords
    BY DEF TypeOK, CallRecords, CallStates
  <2> QED
    BY <2>1 DEF TypeOK, Crash
<1>2. run' \in [Calls -> RunRecords]
  <2>1. \A c \in Calls : [run[c] EXCEPT !.pc = "done"] \in RunRecords
    BY DEF TypeOK, RunRecords, RunStates
  <2> QED
    BY <2>1 DEF TypeOK, Crash
<1>3. chat' \in [Chats -> ChatRecords]
  <2>1. \A h \in Chats : [chat[h] EXCEPT !.pc = "done"] \in ChatRecords
    BY DEF TypeOK, ChatRecords, ChatStates
  <2> QED
    BY <2>1 DEF TypeOK, Crash
<1>4. pipe' \in PipeRecords /\ sweep' \in SweepRecords
  BY DEF TypeOK, Crash, PipeRecords, SweepRecords, IdleSweep
<1>5. crashes' \in 0..MaxCrashes
  BY BoundsAssumption DEF TypeOK, Crash
<1> QED
  BY <1>1, <1>2, <1>3, <1>4, <1>5 DEF TypeOK, Crash, storeVars

LEMMA TypeStep == ASSUME TypeOK, [Next]_vars PROVE TypeOK'
<1>1. CASE UNCHANGED vars
  BY <1>1 DEF TypeOK, vars, storeVars, actorVars
<1> QED
  BY <1>1, TypePipeline, TypeCallback, TypeExecution, TypeChat, TypeExpireLoop,
     TypeDeadline, TypeCrash DEF Next

(* Every variable keeps its type, for every value of the constants.        *)
THEOREM TypeCorrect == Spec => []TypeOK
<1> QED
  BY TypeInit, TypeStep, PTL DEF Spec

-----------------------------------------------------------------------------
(* Execution: what the ExecutePlan goroutines have done and what the rows  *)
(* and the log say about it.  The invariant adds to the four properties    *)
(* what each goroutine knows at its program counter.                       *)

Approves(c) ==
  cb[c].action = "approve" /\ cb[c].seen = "pending" /\ cb[c].target = "approved"

CallInv ==
  \A c \in Calls :
    /\ cb[c].pc = "decided" => cb[c].target # "completed"
    /\ cb[c].pc = "decided" /\ Granted(cb[c]) => Approves(c)
    /\ cb[c].pc = "granted" => Approves(c)

(* An execution belongs to a finished callback that approved the plan.     *)
RunInv ==
  \A c \in Calls :
    run[c].pc # "none" => cb[c].pc = "done" /\ Approves(c) /\ run[c].id = cb[c].id

(* How far an execution has come.                                          *)
DidSteps(c, n) == \A j \in Steps : j <= n => c \in ran[run[c].id][j]

Progress(c) ==
  /\ run[c].pc = "start" => run[c].step = 1 /\ run[c].ok
  /\ run[c].pc \in {"exec", "record"} =>
       run[c].step \in Steps /\ DidSteps(c, run[c].step - 1)
  /\ run[c].pc = "record" /\ run[c].ok => c \in ran[run[c].id][run[c].step]
  /\ run[c].pc = "finish" /\ run[c].ok => DidSteps(c, NSteps)

ProgressInv == \A c \in Calls : Progress(c)

RanInv ==
  \A a \in Approvals : \A i \in Steps : \A c \in ran[a][i] :
    run[c].pc # "none" /\ run[c].id = a

ExecInv ==
  /\ CallInv /\ RunInv /\ ProgressInv /\ RanInv
  /\ StepsInOrder /\ CompletedMeansAllRan /\ LogIsTruthful

LEMMA ExecInit == Init => ExecInv
BY DEF Init, ExecInv, CallInv, RunInv, ProgressInv, Progress, RanInv, StepsInOrder,
       CompletedMeansAllRan, LogIsTruthful, IdleCall, NoRun

(* A step that leaves callbacks, executions, history and log alone and     *)
(* completes no row.                                                       *)
LEMMA ExecQuiet ==
  ASSUME ExecInv, UNCHANGED <<cb, run, ran, log>>,
         \A a \in Approvals : status'[a] = "completed" => status[a] = "completed"
  PROVE  ExecInv'
BY DEF ExecInv, CallInv, RunInv, ProgressInv, RanInv, StepsInOrder,
       Approves, Granted, Progress,
       DidSteps, CompletedMeansAllRan, LogIsTruthful

(* Writing a status other than "completed" completes nothing.              *)
LEMMA WriteQuiet ==
  ASSUME TypeOK, NEW a, NEW s, s # "completed", WriteStatus(a, s) \/ WriteLost,
         NEW b \in Approvals, status'[b] = "completed"
  PROVE  status[b] = "completed"
BY DEF TypeOK, WriteStatus, WriteLost

LEMMA InsertQuiet ==
  ASSUME TypeOK, NEW p, InsertPending(p), NEW b \in Approvals, status'[b] = "completed"
  PROVE  status[b] = "completed"
BY DEF TypeOK, InsertPending

LEMMA ExecOthers ==
  ASSUME TypeOK, ExecInv,
         \/ Pipeline \/ \E h \in Chats : ChatTurn(h)
         \/ ExpireLoop \/ \E a \in Approvals : Deadline(a)
  PROVE  ExecInv'
<1>1. UNCHANGED <<cb, run, ran, log>>
  BY DEF Pipeline, PipelinePropose, PipelineConverse, ChatTurn, ChatFind, ChatNoPlan,
         ChatGuard, ChatCreate, ChatReadOld, ChatSupersede, ChatLink, ExpireLoop,
         SweepList, SweepNow, SweepWrite, Deadline, storeVars, actorVars
<1>2. ASSUME NEW b \in Approvals, status'[b] = "completed" PROVE status[b] = "completed"
  <2>1. CASE Pipeline
    BY <1>2, <2>1, InsertQuiet DEF Pipeline, PipelinePropose, PipelineConverse
  <2>2. ASSUME NEW h \in Chats, ChatTurn(h) PROVE status[b] = "completed"
    BY <1>2, <2>2, InsertQuiet, WriteQuiet
       DEF ChatTurn, ChatFind, ChatNoPlan, ChatGuard, ChatCreate, ChatReadOld,
           ChatSupersede, ChatLink, storeVars
  <2>3. CASE ExpireLoop
    BY <1>2, <2>3, WriteQuiet DEF ExpireLoop, SweepList, SweepNow, SweepWrite, storeVars
  <2>4. CASE \E a \in Approvals : Deadline(a)
    BY <1>2, <2>4 DEF Deadline, storeVars
  <2> QED
    BY <2>1, <2>2, <2>3, <2>4
<1> QED
  BY <1>1, <1>2, ExecQuiet

(* What a callback has decided: never "completed", and an approval only of *)
(* a row it read as pending.                                               *)
LEMMA VerdictApproves ==
  ASSUME NEW c \in Calls, Verdict(c) # "refuse"
  PROVE  /\ Verdict(c) # "completed"
         /\ cb[c].action = "approve" /\ Verdict(c) # "expired" =>
              Verdict(c) = "approved" /\ cb[c].seen = "pending"
<1>1. StatusFromAction(cb[c].action) # "completed"
  BY DEF StatusFromAction
<1>2. /\ Verdict(c) \in {"expired", StatusFromAction(cb[c].action)}
      /\ CanTransitionTo(cb[c].seen, StatusFromAction(cb[c].action))
  BY DEF Verdict
<1>3. cb[c].action = "approve" =>
        StatusFromAction(cb[c].action) = "approved" /\ cb[c].seen = "pending"
  BY <1>2 DEF StatusFromAction, CanTransitionTo, ValidTransitions
<1> QED
  BY <1>1, <1>2, <1>3

(* A callback's record changes only by its own steps, and only before its  *)
(* execution exists.                                                       *)
CallStep(c) ==
  CallbackRead(c) \/ CallbackDecide(c) \/ CallbackWrite(c) \/ CallbackFails(c)

LEMMA CallFrame ==
  ASSUME TypeOK, ExecInv, NEW c \in Calls, CallStep(c)
  PROVE  /\ UNCHANGED <<run, ran, log>>
         /\ run[c].pc = "none"
         /\ \A d \in Calls : d # c => cb'[d] = cb[d]
<1>1. UNCHANGED <<run, ran, log>>
  BY DEF CallStep, CallbackRead, CallbackDecide, CallbackWrite, CallbackFails, storeVars
<1>2. cb[c].pc # "done"
  BY DEF CallStep, CallbackRead, CallbackDecide, CallbackWrite, CallbackFails
<1>3. run[c].pc = "none"
  BY <1>2 DEF ExecInv, RunInv
<1>4. CASE CallbackRead(c)
  BY <1>1, <1>3, <1>4 DEF CallbackRead, TypeOK
<1>5. CASE CallbackDecide(c)
  BY <1>1, <1>3, <1>5 DEF CallbackDecide, TypeOK
<1>6. CASE CallbackWrite(c)
  BY <1>1, <1>3, <1>6 DEF CallbackWrite, TypeOK
<1>7. CASE CallbackFails(c)
  BY <1>1, <1>3, <1>7 DEF CallbackFails, TypeOK
<1> QED
  BY <1>4, <1>5, <1>6, <1>7 DEF CallStep

LEMMA CallInvStep ==
  ASSUME TypeOK, ExecInv, NEW c \in Calls, CallStep(c) PROVE CallInv'
<1>1. ASSUME NEW d \in Calls, d # c
      PROVE  /\ cb'[d].pc = "decided" => cb'[d].target # "completed"
             /\ cb'[d].pc = "decided" /\ Granted(cb'[d]) => Approves(d)'
             /\ cb'[d].pc = "granted" => Approves(d)'
  BY <1>1, CallFrame DEF ExecInv, CallInv, Approves
<1>2. /\ cb'[c].pc = "decided" => cb'[c].target # "completed"
      /\ cb'[c].pc = "decided" /\ Granted(cb'[c]) => Approves(c)'
      /\ cb'[c].pc = "granted" => Approves(c)'
  <2>0. cb \in [Calls -> CallRecords]
    BY DEF TypeOK
  <2>1. CASE CallbackRead(c)
    <3>1. PICK a \in 1..created, act \in Actions :
            cb' = [cb EXCEPT ![c] = [pc |-> "read", id |-> a, action |-> act,
                                     seen |-> status[a], target |-> "none"]]
      BY <2>1 DEF CallbackRead
    <3>2. cb'[c].pc = "read"
      BY <2>0, <3>1
    <3> QED
      BY <3>2
  <2>2. CASE CallbackDecide(c)
    <3>1. CASE Verdict(c) = "refuse"
      <4>1. cb'[c].pc = "done"
        BY <2>0, <2>2, <3>1 DEF CallbackDecide, CallRecords
      <4> QED
        BY <4>1
    <3>2. CASE Verdict(c) # "refuse"
      <4>1. /\ cb'[c].pc = "decided" /\ cb'[c].target = Verdict(c)
            /\ cb'[c].action = cb[c].action /\ cb'[c].seen = cb[c].seen
        BY <2>0, <2>2, <3>2 DEF CallbackDecide, CallRecords
      <4> QED
        BY <3>2, <4>1, VerdictApproves DEF Granted, Approves
    <3> QED
      BY <3>1, <3>2
  <2>3. CASE CallbackWrite(c)
    <3>1. /\ cb'[c].pc = IF Granted(cb[c]) THEN "granted" ELSE "done"
          /\ cb'[c].action = cb[c].action /\ cb'[c].seen = cb[c].seen
          /\ cb'[c].target = cb[c].target /\ cb[c].pc = "decided"
      BY <2>0, <2>3 DEF CallbackWrite, CallRecords
    <3> QED
      BY <3>1 DEF ExecInv, CallInv, Approves
  <2>4. CASE CallbackFails(c)
    <3>1. cb'[c].pc = "done"
      BY <2>0, <2>4 DEF CallbackFails, CallRecords
    <3> QED
      BY <3>1
  <2> QED
    BY <2>1, <2>2, <2>3, <2>4 DEF CallStep
<1> QED
  BY <1>1, <1>2 DEF CallInv

LEMMA ExecCall ==
  ASSUME TypeOK, ExecInv, NEW c \in Calls, CallStep(c) PROVE ExecInv'
<1>1. RunInv'
  BY CallFrame DEF ExecInv, RunInv, Approves
<1>2. ProgressInv' /\ RanInv' /\ StepsInOrder' /\ LogIsTruthful'
  BY CallFrame DEF ExecInv, ProgressInv, Progress, DidSteps, RanInv, StepsInOrder, LogIsTruthful
<1>3. ASSUME NEW b \in Approvals, status'[b] = "completed" PROVE status[b] = "completed"
  <2>1. CASE CallbackWrite(c)
    <3>1. cb[c].target # "completed"
      BY <2>1 DEF CallbackWrite, ExecInv, CallInv
    <3> QED
      BY <1>3, <2>1, <3>1, WriteQuiet DEF CallbackWrite
  <2> QED
    BY <1>3, <2>1 DEF CallStep, CallbackRead, CallbackDecide, CallbackFails, storeVars
<1>4. CompletedMeansAllRan'
  BY <1>3, CallFrame DEF ExecInv, CompletedMeansAllRan
<1> QED
  BY <1>1, <1>2, <1>4, CallInvStep DEF ExecInv

LEMMA ExecSpawn ==
  ASSUME TypeOK, ExecInv, NEW c \in Calls, CallbackSpawn(c) PROVE ExecInv'
<1>1. /\ UNCHANGED <<status, log, ran>>
      /\ cb' = [cb EXCEPT ![c].pc = "done"]
      /\ run' = [run EXCEPT ![c] = [NoRun EXCEPT !.pc = "start", !.id = cb[c].id]]
      /\ cb[c].pc = "granted"
  BY DEF CallbackSpawn, storeVars
<1>2. /\ cb'[c] = [cb[c] EXCEPT !.pc = "done"]
      /\ run'[c] = [NoRun EXCEPT !.pc = "start", !.id = cb[c].id]
      /\ \A d \in Calls : d # c => cb'[d] = cb[d] /\ run'[d] = run[d]
  BY <1>1 DEF TypeOK
<1>3. /\ cb'[c].pc = "done" /\ cb'[c].action = cb[c].action /\ cb'[c].id = cb[c].id
      /\ cb'[c].seen = cb[c].seen /\ cb'[c].target = cb[c].target
  <2>1. cb[c] \in CallRecords
    BY DEF TypeOK
  <2> QED
    BY <1>2, <2>1 DEF CallRecords
<1>4. run'[c].pc = "start" /\ run'[c].id = cb[c].id /\ run'[c].step = 1 /\ run'[c].ok
  BY <1>2 DEF NoRun
<1>5. run[c].pc = "none"
  BY <1>1 DEF ExecInv, RunInv
<1>6. CallInv'
  <2>1. ASSUME NEW d \in Calls
        PROVE  /\ cb'[d].pc = "decided" => cb'[d].target # "completed"
               /\ cb'[d].pc = "decided" /\ Granted(cb'[d]) => Approves(d)'
               /\ cb'[d].pc = "granted" => Approves(d)'
    <3>1. CASE d = c
      BY <1>3, <3>1
    <3>2. CASE d # c
      <4>1. cb'[d] = cb[d]
        BY <1>2, <3>2
      <4> QED
        BY <4>1 DEF ExecInv, CallInv, Approves
    <3> QED
      BY <3>1, <3>2
  <2> QED
    BY <2>1 DEF CallInv
<1>7. RunInv'
  BY <1>1, <1>2, <1>3, <1>4 DEF ExecInv, RunInv, CallInv, Approves
<1>8. ProgressInv'
  BY <1>1, <1>2, <1>4 DEF ExecInv, ProgressInv, Progress, DidSteps
<1>9. RanInv'
  BY <1>1, <1>2, <1>4, <1>5 DEF ExecInv, RanInv, TypeOK
<1>10. StepsInOrder' /\ CompletedMeansAllRan' /\ LogIsTruthful'
  BY <1>1 DEF ExecInv, StepsInOrder, CompletedMeansAllRan, LogIsTruthful
<1> QED
  BY <1>6, <1>7, <1>8, <1>9, <1>10 DEF ExecInv

(* A step of an execution keeps its plan and touches no other execution.   *)
RunMoves(c) ==
  /\ cb' = cb
  /\ \A d \in Calls : d # c => run'[d] = run[d]
  /\ run'[c].id = run[c].id
  /\ run[c].pc # "none" /\ run'[c].pc # "none"

LEMMA RunFrame ==
  ASSUME TypeOK, NEW c \in Calls, Execution(c)
  PROVE  RunMoves(c)
<1>0. run \in [Calls -> RunRecords] /\ run[c] \in RunRecords
  BY DEF TypeOK
<1>1. CASE RunStart(c)
  <2>1. run' = [run EXCEPT ![c].pc = IF NSteps = 0 THEN "finish" ELSE "exec"]
    BY <1>1 DEF RunStart
  <2>2. run'[c].pc = IF NSteps = 0 THEN "finish" ELSE "exec"
    BY <1>0, <2>1 DEF RunRecords
  <2> QED
    BY <1>0, <1>1, <2>1, <2>2 DEF RunMoves, RunStart, RunRecords
<1>2. CASE RunCommand(c)
  <2>1. PICK ok \in BOOLEAN : run' = [run EXCEPT ![c].pc = "record", ![c].ok = ok]
    BY <1>2 DEF RunCommand
  <2> QED
    BY <1>0, <1>2, <2>1 DEF RunMoves, RunCommand, RunRecords
<1>3. CASE RunRecord(c)
  <2>1. run' = [run EXCEPT ![c] = AfterRecord(run[c])]
    BY <1>3 DEF RunRecord
  <2>2. run'[c] = AfterRecord(run[c])
    BY <1>0, <2>1
  <2>3. AfterRecord(run[c]).id = run[c].id /\ AfterRecord(run[c]).pc # "none"
    BY <1>0 DEF AfterRecord, RunRecords
  <2> QED
    BY <1>0, <1>3, <2>1, <2>2, <2>3 DEF RunMoves, RunRecord
<1>4. CASE RunFinish(c)
  BY <1>0, <1>4 DEF RunMoves, RunFinish, RunRecords
<1> QED
  BY <1>1, <1>2, <1>3, <1>4 DEF Execution

(* Hence what a callback knows, and whose execution it is, is kept.        *)
LEMMA RunKeeps ==
  ASSUME ExecInv, NEW c \in Calls, RunMoves(c)
  PROVE  CallInv' /\ RunInv'
BY DEF ExecInv, RunMoves, CallInv, RunInv, Approves

LEMMA RunKeepsRan ==
  ASSUME ExecInv, TypeOK, NEW c \in Calls, RunMoves(c), ran' = ran
  PROVE  RanInv' /\ StepsInOrder'
<1>1. RanInv'
  BY DEF ExecInv, RunMoves, RanInv, TypeOK
<1>2. StepsInOrder'
  BY DEF ExecInv, StepsInOrder
<1> QED
  BY <1>1, <1>2

(* The progress of the other executions is kept when history only grows.   *)
LEMMA ProgressOthers ==
  ASSUME ExecInv, TypeOK, NEW c \in Calls, RunMoves(c),
         \A a \in Approvals : \A i \in Steps : ran[a][i] \subseteq ran'[a][i],
         NEW d \in Calls, d # c
  PROVE  Progress(d)'
<1>1. run'[d] = run[d] /\ run[d].id \in Approvals
  BY DEF RunMoves, TypeOK, RunRecords
<1> QED
  BY <1>1 DEF ExecInv, ProgressInv, Progress, DidSteps

LEMMA ExecStart ==
  ASSUME TypeOK, ExecInv, NEW c \in Calls, RunStart(c), RunMoves(c) PROVE ExecInv'
<1>1. ran' = ran /\ log' = log
  BY DEF RunStart
<1>2. run[c] \in RunRecords /\ run' = [run EXCEPT ![c].pc = run'[c].pc]
  BY DEF TypeOK, RunStart, RunRecords
<1>3. /\ run'[c].pc = IF NSteps = 0 THEN "finish" ELSE "exec"
      /\ run'[c].step = 1 /\ run'[c].ok
  BY DEF TypeOK, RunStart, RunRecords, ExecInv, ProgressInv, Progress
<1>4. Progress(c)'
  <2>1. \A j \in Steps : ~(j <= 0)
    BY DEF Steps
  <2>2. NSteps # 0 => 1 \in Steps
    BY BoundsAssumption DEF Steps
  <2> QED
    BY <1>3, <2>1, <2>2 DEF Progress, DidSteps
<1>5. ProgressInv'
  BY <1>1, <1>4, ProgressOthers DEF ProgressInv
<1>6. CompletedMeansAllRan' /\ LogIsTruthful'
  BY <1>1, WriteQuiet DEF RunStart, ExecInv, CompletedMeansAllRan, LogIsTruthful
<1> QED
  BY <1>1, <1>5, <1>6, RunKeeps, RunKeepsRan DEF ExecInv

LEMMA ExecCommand ==
  ASSUME TypeOK, ExecInv, NEW c \in Calls, RunCommand(c), RunMoves(c) PROVE ExecInv'
<1> DEFINE a == run[c].id
           n == run[c].step
<1>1. /\ status' = status /\ log' = log
      /\ a \in Approvals /\ n \in Steps /\ DidSteps(c, n - 1)
      /\ run[c] \in RunRecords
  BY DEF RunCommand, storeVars, TypeOK, RunRecords, ExecInv, ProgressInv, Progress
<1>2. PICK ok \in BOOLEAN, routed \in BOOLEAN :
        /\ ok => routed
        /\ run' = [run EXCEPT ![c].pc = "record", ![c].ok = ok]
        /\ ran' = IF routed THEN [ran EXCEPT ![a][n] = @ \cup {c}] ELSE ran
  BY DEF RunCommand
<1>3. /\ run'[c].pc = "record" /\ run'[c].id = a /\ run'[c].step = n
      /\ run'[c].ok = ok
  BY <1>1, <1>2 DEF TypeOK, RunRecords
<1>4. \A b \in Approvals : \A i \in Steps :
        ran'[b][i] = IF routed /\ b = a /\ i = n THEN ran[b][i] \cup {c} ELSE ran[b][i]
  BY <1>1, <1>2 DEF TypeOK
<1>4a. \A b \in Approvals : \A i \in Steps : \A d \in ran'[b][i] :
        d \in ran[b][i] \/ (d = c /\ b = a /\ i = n)
  <2>1. ASSUME NEW b \in Approvals, NEW i \in Steps, NEW d \in ran'[b][i]
        PROVE  d \in ran[b][i] \/ (d = c /\ b = a /\ i = n)
    <3>1. CASE routed /\ b = a /\ i = n
      <4>1. ran'[b][i] = ran[b][i] \cup {c}
        BY <1>4, <3>1
      <4> QED
        BY <2>1, <3>1, <4>1
    <3>2. CASE ~(routed /\ b = a /\ i = n)
      <4>1. ran'[b][i] = ran[b][i]
        BY <1>4, <3>2
      <4> QED
        BY <2>1, <4>1
    <3> QED
      BY <3>1, <3>2
  <2> QED
    BY <2>1
<1>5. \A b \in Approvals : \A i \in Steps : ran[b][i] \subseteq ran'[b][i]
  BY <1>4
<1>6. Progress(c)'
  <2>1. DidSteps(c, n - 1)'
    BY <1>1, <1>3, <1>5 DEF DidSteps
  <2>2. ok => c \in ran'[a][n]
    BY <1>1, <1>2, <1>4
  <2> QED
    BY <1>1, <1>3, <2>1, <2>2 DEF Progress, DidSteps
<1>7. ProgressInv'
  BY <1>5, <1>6, ProgressOthers DEF ProgressInv
<1>8. RanInv'
  <2>1. ASSUME NEW b \in Approvals, NEW i \in Steps, NEW d \in ran'[b][i]
        PROVE  run'[d].pc # "none" /\ run'[d].id = b
    <3>1. CASE d = c /\ b = a
      BY <1>3, <3>1
    <3>2. CASE ~(d = c /\ b = a)
      <4>1. d \in ran[b][i]
        BY <1>4a, <2>1, <3>2
      <4>2. d \in Calls
        BY <4>1 DEF TypeOK
      <4>3. run[d].pc # "none" /\ run[d].id = b
        BY <4>1 DEF ExecInv, RanInv
      <4> QED
        BY <3>2, <4>2, <4>3, <1>3 DEF RunMoves
    <3> QED
      BY <3>1, <3>2
  <2> QED
    BY <2>1 DEF RanInv
<1>9. StepsInOrder'
  <2>1. ASSUME NEW b \in Approvals, NEW i \in Steps, NEW j \in Steps, i < j,
               NEW d \in ran'[b][j]
        PROVE  d \in ran'[b][i]
    <3>1. CASE d \in ran[b][j]
      BY <1>5, <2>1, <3>1 DEF ExecInv, StepsInOrder
    <3>2. CASE d \notin ran[b][j]
      <4>1. b = a /\ j = n /\ d = c
        BY <1>4a, <2>1, <3>2
      <4>2. i <= n - 1
        BY <2>1, <4>1 DEF Steps
      <4> QED
        BY <1>1, <1>5, <4>1, <4>2 DEF DidSteps
    <3> QED
      BY <3>1, <3>2
  <2> QED
    BY <2>1 DEF StepsInOrder
<1>10. CompletedMeansAllRan' /\ LogIsTruthful'
  <2>1. UNCHANGED <<status, log>>
    BY <1>1
  <2>2. \A b \in Approvals : \A i \in Steps : ran[b][i] # {} => ran'[b][i] # {}
    BY <1>4
  <2> QED
    BY <2>1, <2>2 DEF ExecInv, CompletedMeansAllRan, LogIsTruthful
<1> QED
  BY <1>7, <1>8, <1>9, <1>10, RunKeeps DEF ExecInv

LEMMA ExecRecord ==
  ASSUME TypeOK, ExecInv, NEW c \in Calls, RunRecord(c), RunMoves(c) PROVE ExecInv'
<1> DEFINE a == run[c].id
           n == run[c].step
<1>1. /\ status' = status /\ ran' = ran
      /\ run[c].pc = "record" /\ run[c] \in RunRecords
      /\ a \in Approvals /\ n \in Steps /\ DidSteps(c, n - 1)
      /\ run[c].ok => c \in ran[a][n]
  BY DEF RunRecord, TypeOK, RunRecords, ExecInv, ProgressInv, Progress
<1>2. run'[c] = AfterRecord(run[c])
  BY DEF RunRecord, TypeOK
<1>3. run[c].ok => DidSteps(c, n)
  BY <1>1 DEF DidSteps, Steps
<1>4. Progress(c)'
  <2>1. CASE run[c].ok /\ n < NSteps
    <3>1. run'[c].pc = "exec" /\ run'[c].step = n + 1 /\ run'[c].id = a
      BY <1>1, <1>2, <2>1 DEF AfterRecord, RunRecords
    <3>2. n + 1 \in Steps /\ (n + 1) - 1 = n
      BY <1>1, <2>1, BoundsAssumption DEF Steps
    <3>3. \A j \in Steps : j <= n => c \in ran'[a][j]
      BY <1>1, <1>3, <2>1, <3>1 DEF DidSteps
    <3> QED
      BY <3>1, <3>2, <3>3 DEF Progress, DidSteps
  <2>2. CASE ~(run[c].ok /\ n < NSteps)
    <3>1. run'[c].pc = "finish" /\ run'[c].ok = run[c].ok /\ run'[c].id = a
      BY <1>1, <1>2, <2>2 DEF AfterRecord, RunRecords
    <3>2. run[c].ok => n = NSteps
      BY <1>1, <2>2, BoundsAssumption DEF Steps
    <3> QED
      BY <1>1, <1>3, <3>1, <3>2 DEF Progress, DidSteps
  <2> QED
    BY <2>1, <2>2
<1>5. ProgressInv'
  BY <1>1, <1>4, ProgressOthers DEF ProgressInv
<1>6. CompletedMeansAllRan'
  BY <1>1 DEF ExecInv, CompletedMeansAllRan
<1>7. LogIsTruthful'
  <2>1. ASSUME NEW b \in Approvals, NEW i \in Steps, log'[b][i] = "success"
        PROVE  ran[b][i] # {}
    <3>1. CASE log[b][i] = "success"
      BY <3>1 DEF ExecInv, LogIsTruthful
    <3>2. CASE log[b][i] # "success"
      <4>1. b = a /\ i = n /\ StepStatus(run[c].ok) = "success"
        BY <1>1, <2>1, <3>2 DEF RunRecord, TypeOK
      <4>2. run[c].ok
        BY <4>1 DEF StepStatus
      <4> QED
        BY <1>1, <4>1, <4>2
    <3> QED
      BY <3>1, <3>2
  <2> QED
    BY <1>1, <2>1 DEF LogIsTruthful
<1> QED
  BY <1>1, <1>5, <1>6, <1>7, RunKeeps, RunKeepsRan DEF ExecInv

LEMMA ExecFinish ==
  ASSUME TypeOK, ExecInv, NEW c \in Calls, RunFinish(c), RunMoves(c) PROVE ExecInv'
<1>1. ran' = ran /\ log' = log /\ run'[c].pc = "done"
  BY DEF RunFinish, TypeOK, RunRecords
<1>2. ProgressInv'
  BY <1>1, ProgressOthers DEF ProgressInv, Progress
<1>3. ASSUME NEW b \in Approvals, status'[b] = "completed", status[b] # "completed"
      PROVE  \A i \in Steps : ran[b][i] # {}
  <2>1. b = run[c].id /\ FinalStatus(run[c].ok) = "completed"
    BY <1>3 DEF RunFinish, WriteStatus, WriteLost, TypeOK
  <2>2. run[c].ok
    BY <2>1 DEF FinalStatus
  <2>3. DidSteps(c, NSteps)
    BY <2>2 DEF RunFinish, ExecInv, ProgressInv, Progress
  <2>4. \A i \in Steps : i <= NSteps
    BY DEF Steps
  <2> QED
    BY <2>1, <2>3, <2>4 DEF DidSteps
<1>4. CompletedMeansAllRan'
  BY <1>1, <1>3 DEF ExecInv, CompletedMeansAllRan
<1>5. LogIsTruthful'
  BY <1>1 DEF ExecInv, LogIsTruthful
<1> QED
  BY <1>1, <1>2, <1>4, <1>5, RunKeeps, RunKeepsRan DEF ExecInv

(* A crash ends the goroutines and leaves every claim about the past.      *)
LEMMA ExecCrash ==
  ASSUME TypeOK, ExecInv, Crash PROVE ExecInv'
<1>1. UNCHANGED <<status, log, ran>>
  BY DEF Crash, storeVars
<1>2. ASSUME NEW c \in Calls
      PROVE  /\ cb'[c].pc \in {"idle", "done"}
             /\ cb[c].pc = "done" => cb'[c].pc = "done"
             /\ cb'[c].id = cb[c].id /\ cb'[c].action = cb[c].action
             /\ cb'[c].seen = cb[c].seen /\ cb'[c].target = cb[c].target
  BY DEF Crash, TypeOK, CallRecords
<1>3. ASSUME NEW c \in Calls
      PROVE  /\ run'[c].pc = IF run[c].pc = "none" THEN "none" ELSE "done"
             /\ run'[c].id = run[c].id
  BY DEF Crash, TypeOK, RunRecords
<1>4. CallInv'
  BY <1>2 DEF CallInv
<1>5. RunInv'
  BY <1>2, <1>3 DEF ExecInv, RunInv, Approves
<1>6. ProgressInv'
  BY <1>3 DEF ProgressInv, Progress
<1>7. RanInv'
  <2>1. ASSUME NEW a \in Approvals, NEW i \in Steps, NEW c \in ran[a][i]
        PROVE  run'[c].pc # "none" /\ run'[c].id = a
    <3>1. c \in Calls
      BY DEF TypeOK
    <3> QED
      BY <1>3, <3>1 DEF ExecInv, RanInv
  <2> QED
    BY <1>1, <2>1 DEF RanInv
<1>8. StepsInOrder' /\ CompletedMeansAllRan' /\ LogIsTruthful'
  BY <1>1 DEF ExecInv, StepsInOrder, CompletedMeansAllRan, LogIsTruthful
<1> QED
  BY <1>4, <1>5, <1>6, <1>7, <1>8 DEF ExecInv

LEMMA ExecStep == ASSUME TypeOK, ExecInv, [Next]_vars PROVE ExecInv'
<1>1. CASE UNCHANGED vars
  BY <1>1, ExecQuiet DEF vars, storeVars, actorVars
<1>2. ASSUME NEW c \in Calls, Callback(c) PROVE ExecInv'
  BY <1>2, ExecCall, ExecSpawn DEF Callback, CallStep
<1>3. ASSUME NEW c \in Calls, Execution(c) PROVE ExecInv'
  BY <1>3, RunFrame, ExecStart, ExecCommand, ExecRecord, ExecFinish DEF Execution
<1> QED
  BY <1>1, <1>2, <1>3, ExecOthers, ExecCrash DEF Next

LEMMA ExecAlways == Spec => [](TypeOK /\ ExecInv)
<1>1. Init => TypeOK /\ ExecInv
  BY TypeInit, ExecInit
<1>2. TypeOK /\ ExecInv /\ [Next]_vars => (TypeOK /\ ExecInv)'
  BY TypeStep, ExecStep
<1> QED
  BY <1>1, <1>2, PTL DEF Spec

(* No command of a plan is run without an approval of a row that was read  *)
(* as pending, however many callbacks, executions, sweeps and chat turns   *)
(* overlap and whatever fails.                                             *)
THEOREM Authorised == Spec => []ExecutionAuthorised
<1>1. TypeOK /\ ExecInv => ExecutionAuthorised
  BY DEF TypeOK, ExecInv, RanInv, RunInv, Approves, ExecutionAuthorised
<1> QED
  BY <1>1, ExecAlways, PTL

(* Every execution runs the commands of its plan in order, without a gap.  *)
THEOREM InOrder == Spec => []StepsInOrder
<1>1. TypeOK /\ ExecInv => StepsInOrder
  BY DEF ExecInv
<1> QED
  BY <1>1, ExecAlways, PTL

(* A completed row is backed by work: every command of its plan was handed *)
(* to an executor (handleApprove, Router.ExecutePlan).                     *)
THEOREM CompletedIsTrue == Spec => []CompletedMeansAllRan
<1>1. ExecInv => CompletedMeansAllRan
  BY DEF ExecInv
<1> QED
  BY <1>1, ExecAlways, PTL

(* So is a step logged as successful (Router.ExecutePlan).                 *)
THEOREM LogIsTrue == Spec => []LogIsTruthful
<1>1. ExecInv => LogIsTruthful
  BY DEF ExecInv
<1> QED
  BY <1>1, ExecAlways, PTL
=============================================================================
