---------------------------- MODULE ApprovalFlow ----------------------------
(***************************************************************************)
(* The life of the healing plans of one alert, from the approval row the   *)
(* pipeline inserts to the end of the plan's execution.  Five kinds of     *)
(* goroutine share the approvals table and the alert's conversation row:   *)
(*                                                                         *)
(*   - the pipeline that proposes the first plan            (pipe)         *)
(*   - one HTTP handler per button callback                 (cb)           *)
(*   - one ExecutePlan goroutine per accepted approval      (run)          *)
(*   - one chat turn per message that revises the plan      (chat)         *)
(*   - the expiry loop                                      (sweep)        *)
(*                                                                         *)
(* Each of them reads the store, decides on what it read, and writes       *)
(* without a condition on the row, so the read, the decision and the write *)
(* are separate steps here.  Rows are numbered in insertion order; the     *)
(* empty approval id of the code is NoId.                                  *)
(*                                                                         *)
(* A definition X_Variant before a definition X is X with a bug in it; the *)
(* mutation runs put it in X's place, and nothing else refers to it.       *)
(***************************************************************************)
EXTENDS Integers, FiniteSets, ApprovalStatus

CONSTANTS
  Calls,         \* button callbacks the HTTP server will receive
  Chats,         \* chat turns the bot will receive
  Actions,       \* action strings a callback may carry
  MaxApprovals,  \* bound on the rows inserted
  NSteps,        \* commands of a plan
  SshSteps,      \* those of them that run over ssh, the others with kubectl
  ListLimit,     \* LIMIT of the pending query of the expiry loop
  Overlap,       \* may a handler start while another one is under way?
  ScanFails,     \* does the store fail to read rows with NULL columns?
  MaxFaults,     \* bound on store calls that fail
  MaxCrashes     \* bound on restarts of the process

ASSUME BoundsAssumption ==
  /\ MaxApprovals \in Nat \ {0}
  /\ NSteps \in Nat
  /\ ListLimit \in Nat \ {0}
  /\ MaxFaults \in Nat
  /\ MaxCrashes \in Nat

ASSUME SshAssumption == SshSteps \subseteq 1..NSteps

ASSUME SwitchAssumption == Overlap \in BOOLEAN /\ ScanFails \in BOOLEAN

Approvals == 1..MaxApprovals
Steps == 1..NSteps
NoId == 0        \* the empty approval id
NoConv == -1     \* no conversation row yet

VARIABLES
  (* the database *)
  created,   \* number of approval rows; row a exists iff a <= created
  status,    \* approvals.status
  parent,    \* approvals.parent_approval_id
  log,       \* execution_logs: status recorded for each step of each plan
  conv,      \* conversations.approval_id of the alert
  (* goroutines *)
  pipe, cb, run, chat, sweep,
  (* environment and history *)
  overdue,   \* rows whose expires_at has passed
  ran,       \* the executions that handed each command to its executor
  faults,    \* store calls that failed so far
  crashes    \* restarts so far

storeVars == <<created, status, parent, log, conv>>
actorVars == <<pipe, cb, run, chat, sweep>>
vars == <<storeVars, actorVars, overdue, ran, faults, crashes>>

CallStates == {"idle", "read", "decided", "granted", "done"}
RunStates == {"none", "start", "exec", "record", "finish", "done"}
ChatStates ==
  {"idle", "found", "guarded", "created", "superseding", "linking", "done"}

StepOutcomes == {"none", "success", "failed"}
Ids == Approvals \cup {NoId}
PipeRecords == [pc: {"plan", "converse", "done"}, id: Ids]
CallRecords == [pc: CallStates, id: Approvals, action: Actions \cup {"none"},
                seen: RowStatuses, target: RowStatuses]
RunRecords == [pc: RunStates, id: Approvals, step: Nat, ok: BOOLEAN]
ChatRecords == [pc: ChatStates, parent: Ids, new: Ids]
SweepRecords == [pc: {"idle", "listed", "writing"}, stale: SUBSET Approvals]

TypeOK ==
  /\ created \in 0..MaxApprovals
  /\ status \in [Approvals -> RowStatuses]
  /\ parent \in [Approvals -> Ids]
  /\ log \in [Approvals -> [Steps -> StepOutcomes]]
  /\ conv \in Ids \cup {NoConv}
  /\ pipe \in PipeRecords
  /\ cb \in [Calls -> CallRecords]
  /\ run \in [Calls -> RunRecords]
  /\ chat \in [Chats -> ChatRecords]
  /\ sweep \in SweepRecords
  /\ overdue \in SUBSET Approvals
  /\ ran \in [Approvals -> [Steps -> SUBSET Calls]]
  /\ faults \in 0..MaxFaults
  /\ crashes \in 0..MaxCrashes

IdleCall == [pc |-> "idle", id |-> 1, action |-> "none", seen |-> "none", target |-> "none"]
NoRun == [pc |-> "none", id |-> 1, step |-> 1, ok |-> TRUE]
IdleChat == [pc |-> "idle", parent |-> NoId, new |-> NoId]
IdleSweep == [pc |-> "idle", stale |-> {}]

Init ==
  /\ created = 0
  /\ status = [a \in Approvals |-> "none"]
  /\ parent = [a \in Approvals |-> NoId]
  /\ log = [a \in Approvals |-> [i \in Steps |-> "none"]]
  /\ conv = NoConv
  /\ pipe = [pc |-> "plan", id |-> NoId]
  /\ cb = [c \in Calls |-> IdleCall]
  /\ run = [c \in Calls |-> NoRun]
  /\ chat = [h \in Chats |-> IdleChat]
  /\ sweep = IdleSweep
  /\ overdue = {}
  /\ ran = [a \in Approvals |-> [i \in Steps |-> {}]]
  /\ faults = 0
  /\ crashes = 0

-----------------------------------------------------------------------------
(* The store.  Any call may fail (at most MaxFaults do).  A read that      *)
(* returns a row also fails when the store cannot scan the NULL approver   *)
(* columns that SaveApproval leaves behind.                                *)

CallFails == faults < MaxFaults /\ faults' = faults + 1
CallWorks == UNCHANGED faults

RowReadWorks == ~ScanFails /\ CallWorks
RowReadFails == IF ScanFails THEN CallWorks ELSE CallFails

InsertPending(p) ==
  /\ created < MaxApprovals
  /\ created' = created + 1
  /\ status' = [status EXCEPT ![created + 1] = "pending"]
  /\ parent' = [parent EXCEPT ![created + 1] = p]
  /\ CallWorks

(* UPDATE approvals SET status = ... WHERE id = a: no condition on the row. *)
WriteStatus(a, s) == status' = [status EXCEPT ![a] = s] /\ CallWorks
WriteLost == UNCHANGED status /\ CallFails

(* A handler that has read something it will still act on.  The ExecutePlan *)
(* goroutines run in the background and are not handlers.                   *)
HandlerBusy ==
  \/ pipe.pc = "converse"
  \/ \E c \in Calls : cb[c].pc \in {"read", "decided", "granted"}
  \/ \E h \in Chats : chat[h].pc \notin {"idle", "done"}
  \/ sweep.pc # "idle"

MayStart == Overlap \/ ~HandlerBusy

-----------------------------------------------------------------------------
(* The pipeline, healing mode: the card is sent, then the approval row is  *)
(* created, then the conversation is bound to it.  A failed insert leaves  *)
(* the approval id empty, as does an analysis without a healing plan.      *)

PipelinePropose ==
  /\ pipe.pc = "plan" /\ MayStart
  /\ \/ /\ InsertPending(NoId)
        /\ pipe' = [pc |-> "converse", id |-> created + 1]
     \/ /\ CallFails \/ CallWorks
        /\ pipe' = [pc |-> "converse", id |-> NoId]
        /\ UNCHANGED <<created, status, parent>>
  /\ UNCHANGED <<log, conv, cb, run, chat, sweep, overdue, ran, crashes>>

PipelineConverse ==
  /\ pipe.pc = "converse"
  /\ pipe' = [pipe EXCEPT !.pc = "done"]
  /\ \/ conv' = pipe.id /\ CallWorks
     \/ conv' = conv /\ CallFails
  /\ UNCHANGED <<created, status, parent, log, cb, run, chat, sweep, overdue, ran, crashes>>

-----------------------------------------------------------------------------
(* HandleApprovalCallback and ProcessCallback.                             *)

(* An unknown id is answered with an error and changes nothing.            *)
CallbackRead(c) ==
  /\ cb[c].pc = "idle" /\ MayStart
  /\ \E a \in 1..created, act \in Actions :
       cb' = [cb EXCEPT ![c] = [pc |-> "read", id |-> a, action |-> act,
                                seen |-> status[a], target |-> "none"]]
  /\ RowReadWorks
  /\ UNCHANGED <<storeVars, pipe, run, chat, sweep, overdue, ran, crashes>>

(* The decision uses the status that was read and the clock of this moment. *)
Verdict(c) ==
  LET target == StatusFromAction(cb[c].action) IN
  IF ~CanTransitionTo(cb[c].seen, target) THEN "refuse"
  ELSE IF cb[c].id \in overdue /\ cb[c].seen = "pending" THEN "expired"
  ELSE target

CallbackDecide(c) ==
  /\ cb[c].pc = "read"
  /\ cb' = IF Verdict(c) = "refuse"
             THEN [cb EXCEPT ![c].pc = "done"]
             ELSE [cb EXCEPT ![c].pc = "decided", ![c].target = Verdict(c)]
  /\ UNCHANGED <<storeVars, pipe, run, chat, sweep, overdue, ran, faults, crashes>>

(* An "approve" that was not turned into an expiry is granted.             *)
Granted_ExpiredToo(call) == call.action = "approve"
Granted(call) == call.action = "approve" /\ call.target # "expired"

CallbackWrite(c) ==
  /\ cb[c].pc = "decided"
  /\ WriteStatus(cb[c].id, cb[c].target)
  /\ cb' = [cb EXCEPT ![c].pc = IF Granted(cb[c]) THEN "granted" ELSE "done"]
  /\ UNCHANGED <<created, parent, log, conv, pipe, run, chat, sweep, overdue, ran, crashes>>

(* After an approval the row is read again and ExecutePlan is spawned.     *)
CallbackSpawn(c) ==
  /\ cb[c].pc = "granted"
  /\ RowReadWorks
  /\ cb' = [cb EXCEPT ![c].pc = "done"]
  /\ run' = [run EXCEPT ![c] = [NoRun EXCEPT !.pc = "start", !.id = cb[c].id]]
  /\ UNCHANGED <<storeVars, pipe, chat, sweep, overdue, ran, crashes>>

(* A store call of the handler fails: it answers with an error and stops.  *)
CallbackFails(c) ==
  /\ \/ /\ cb[c].pc = "idle" /\ MayStart /\ created > 0 /\ RowReadFails
     \/ /\ cb[c].pc = "decided" /\ CallFails
     \/ /\ cb[c].pc = "granted" /\ RowReadFails
  /\ cb' = [cb EXCEPT ![c].pc = "done"]
  /\ UNCHANGED <<storeVars, pipe, run, chat, sweep, overdue, ran, crashes>>

-----------------------------------------------------------------------------
(* Router.ExecutePlan.  run[c] is the goroutine spawned by callback c.     *)

StepStatus_Always(ok) == "success"
StepStatus(ok) == IF ok THEN "success" ELSE "failed"

FinalStatus_StepWord(ok) == IF ok THEN "success" ELSE "failed"
FinalStatus(ok) == IF ok THEN "completed" ELSE "failed"

(* After a step is recorded: the next one, or the end of the plan.         *)
AfterRecord_KeepGoing(r) ==
  IF r.step < NSteps THEN [r EXCEPT !.pc = "exec", !.step = @ + 1]
  ELSE [r EXCEPT !.pc = "finish"]
AfterRecord_OneShort(r) ==
  IF r.ok /\ r.step < NSteps - 1 THEN [r EXCEPT !.pc = "exec", !.step = @ + 1]
  ELSE [r EXCEPT !.pc = "finish"]
AfterRecord_JustReturn(r) ==
  IF r.ok /\ r.step < NSteps THEN [r EXCEPT !.pc = "exec", !.step = @ + 1]
  ELSE [r EXCEPT !.pc = IF r.ok THEN "finish" ELSE "done"]
AfterRecord(r) ==
  IF r.ok /\ r.step < NSteps THEN [r EXCEPT !.pc = "exec", !.step = @ + 1]
  ELSE [r EXCEPT !.pc = "finish"]

(* The error of this write is not looked at.                               *)
RunStart(c) ==
  /\ run[c].pc = "start"
  /\ WriteStatus(run[c].id, "executing") \/ WriteLost
  /\ run' = [run EXCEPT ![c].pc = IF NSteps = 0 THEN "finish" ELSE "exec"]
  /\ UNCHANGED <<created, parent, log, conv, pipe, cb, chat, sweep, overdue, ran, crashes>>

(* The command is handed to its executor and succeeds or fails, or there   *)
(* is no executor for its type and it fails without being run.             *)
RunCommand(c) ==
  /\ run[c].pc = "exec"
  /\ \E ok \in BOOLEAN, routed \in BOOLEAN :
       /\ ok => routed
       /\ run' = [run EXCEPT ![c].pc = "record", ![c].ok = ok]
       /\ ran' = IF routed THEN [ran EXCEPT ![run[c].id][run[c].step] = @ \cup {c}] ELSE ran
  /\ UNCHANGED <<storeVars, pipe, cb, chat, sweep, overdue, faults, crashes>>

(* recordStep: the log id is unique per plan and step, so a second record  *)
(* of the same step is refused; either way the error is only logged.       *)
RunRecord(c) ==
  LET a == run[c].id
      i == run[c].step
  IN
  /\ run[c].pc = "record"
  /\ \/ /\ log' = IF log[a][i] = "none"
                  THEN [log EXCEPT ![a][i] = StepStatus(run[c].ok)] ELSE log
        /\ CallWorks
     \/ log' = log /\ CallFails
  /\ run' = [run EXCEPT ![c] = AfterRecord(@)]
  /\ UNCHANGED <<created, status, parent, conv, pipe, cb, chat, sweep, overdue, ran, crashes>>

RunFinish(c) ==
  /\ run[c].pc = "finish"
  /\ \/ WriteStatus(run[c].id, FinalStatus(run[c].ok))
     \/ WriteLost
  /\ run' = [run EXCEPT ![c].pc = "done"]
  /\ UNCHANGED <<created, parent, log, conv, pipe, cb, chat, sweep, overdue, ran, crashes>>

-----------------------------------------------------------------------------
(* A chat turn that ends in a revised plan: Orchestrator.HandleEvent and   *)
(* handleRevisedPlan.                                                      *)

(* The conversation is read once; its approval id is used to the end.      *)
ChatFind(h) ==
  /\ chat[h].pc = "idle" /\ MayStart
  /\ conv # NoConv
  /\ chat' = [chat EXCEPT ![h].pc = "found", ![h].parent = conv]
  /\ UNCHANGED <<storeVars, pipe, cb, run, sweep, overdue, ran, faults, crashes>>

(* Every other end of the turn: a text answer, an analyzer or Lark error,  *)
(* a failed store call before the new row is inserted.                     *)
ChatNoPlan(h) ==
  /\ chat[h].pc \in {"found", "guarded"}
  /\ chat' = [chat EXCEPT ![h].pc = "done"]
  /\ UNCHANGED <<storeVars, pipe, cb, run, sweep, overdue, ran, faults, crashes>>

Settled == {"approved", "executing", "completed", "failed"}

(* A plan already approved is not revised; if its row cannot be read the   *)
(* guard is skipped.                                                       *)
ChatGuard(h) ==
  LET p == chat[h].parent IN
  /\ chat[h].pc = "found"
  /\ \/ /\ p = NoId /\ CallWorks
        /\ chat' = [chat EXCEPT ![h].pc = "guarded"]
     \/ /\ p # NoId /\ RowReadWorks
        /\ chat' = [chat EXCEPT ![h].pc = IF status[p] \in Settled THEN "done" ELSE "guarded"]
     \/ /\ p # NoId /\ RowReadFails
        /\ chat' = [chat EXCEPT ![h].pc = "guarded"]
  /\ UNCHANGED <<storeVars, pipe, cb, run, sweep, overdue, ran, crashes>>

RevisionParent_Dropped(h) == NoId
RevisionParent(h) == chat[h].parent

ChatCreate(h) ==
  /\ chat[h].pc = "guarded"
  /\ \/ /\ InsertPending(RevisionParent(h))
        /\ chat' = [chat EXCEPT ![h].new = created + 1,
                      ![h].pc = IF chat[h].parent = NoId THEN "linking" ELSE "created"]
     \/ /\ CallFails
        /\ chat' = [chat EXCEPT ![h].pc = "done"]
        /\ UNCHANGED <<created, status, parent>>
  /\ UNCHANGED <<log, conv, pipe, cb, run, sweep, overdue, ran, crashes>>

(* Only a plan nobody has acted on is withdrawn.                           *)
Supersedable_Any(s) == s # "none"
Supersedable(s) == s = "pending"

ChatReadOld(h) ==
  /\ chat[h].pc = "created"
  /\ \/ /\ RowReadWorks
        /\ chat' = [chat EXCEPT ![h].pc = IF Supersedable(status[chat[h].parent])
                                            THEN "superseding" ELSE "linking"]
     \/ /\ RowReadFails
        /\ chat' = [chat EXCEPT ![h].pc = "linking"]
  /\ UNCHANGED <<storeVars, pipe, cb, run, sweep, overdue, ran, crashes>>

ChatSupersede(h) ==
  /\ chat[h].pc = "superseding"
  /\ WriteStatus(chat[h].parent, "superseded") \/ WriteLost
  /\ chat' = [chat EXCEPT ![h].pc = "linking"]
  /\ UNCHANGED <<created, parent, log, conv, pipe, cb, run, sweep, overdue, ran, crashes>>

LinkTarget_Parent(h) == chat[h].parent
LinkTarget(h) == chat[h].new

ChatLink(h) ==
  /\ chat[h].pc = "linking"
  /\ \/ conv' = LinkTarget(h) /\ CallWorks
     \/ conv' = conv /\ CallFails
  /\ chat' = [chat EXCEPT ![h].pc = "done"]
  /\ UNCHANGED <<created, status, parent, log, pipe, cb, run, sweep, overdue, ran, crashes>>

-----------------------------------------------------------------------------
(* The expiry loop: StartExpireLoop's tick and ExpireStale.                *)

Pending_AnyStatus == {a \in Approvals : status[a] # "none"}
Pending == {a \in Approvals : status[a] = "pending"}

(* SELECT ... WHERE status = 'pending' ORDER BY requested_at DESC LIMIT n. *)
NewestPending ==
  {a \in Pending : Cardinality({b \in Pending : b > a}) < ListLimit}

SweepList ==
  /\ sweep.pc = "idle" /\ MayStart
  /\ \/ /\ Pending = {} \/ ~ScanFails
        /\ CallWorks
        /\ sweep' = [pc |-> "listed", stale |-> NewestPending]
     \/ /\ Pending # {} /\ RowReadFails
        /\ UNCHANGED sweep
  /\ UNCHANGED <<storeVars, pipe, cb, run, chat, overdue, ran, crashes>>

(* The clock is read once, after the query.                                *)
StaleNow_AllListed == sweep.stale
StaleNow == sweep.stale \cap overdue

SweepNow ==
  /\ sweep.pc = "listed"
  /\ sweep' = IF StaleNow = {} THEN IdleSweep ELSE [pc |-> "writing", stale |-> StaleNow]
  /\ UNCHANGED <<storeVars, pipe, cb, run, chat, overdue, ran, faults, crashes>>

(* Records are visited newest first; a failed write skips the record.      *)
SweepWrite ==
  \E a \in sweep.stale :
    /\ sweep.pc = "writing"
    /\ \A b \in sweep.stale : b <= a
    /\ WriteStatus(a, "expired") \/ WriteLost
    /\ sweep' = IF sweep.stale = {a} THEN IdleSweep
                ELSE [sweep EXCEPT !.stale = @ \ {a}]
    /\ UNCHANGED <<created, parent, log, conv, pipe, cb, run, chat, overdue, ran, crashes>>

-----------------------------------------------------------------------------
(* The environment.                                                        *)

(* expires_at of row a passes.                                             *)
Deadline(a) ==
  /\ a <= created /\ a \notin overdue
  /\ overdue' = overdue \cup {a}
  /\ UNCHANGED <<storeVars, actorVars, ran, faults, crashes>>

(* The process stops and is started again: every goroutine is gone, the    *)
(* rows stay, and nothing in the start-up code looks at them.              *)
Crash ==
  /\ crashes < MaxCrashes
  /\ crashes' = crashes + 1
  /\ pipe' = [pipe EXCEPT !.pc = "done"]
  /\ cb' = [c \in Calls |-> IF cb[c].pc = "idle" THEN cb[c]
                            ELSE [cb[c] EXCEPT !.pc = "done"]]
  /\ run' = [c \in Calls |-> IF run[c].pc = "none" THEN run[c]
                             ELSE [run[c] EXCEPT !.pc = "done"]]
  /\ chat' = [h \in Chats |-> IF chat[h].pc = "idle" THEN chat[h]
                              ELSE [chat[h] EXCEPT !.pc = "done"]]
  /\ sweep' = IdleSweep
  /\ UNCHANGED <<storeVars, overdue, ran, faults>>

Pipeline == PipelinePropose \/ PipelineConverse

Callback(c) ==
  \/ CallbackRead(c) \/ CallbackDecide(c) \/ CallbackWrite(c)
  \/ CallbackSpawn(c) \/ CallbackFails(c)

Execution(c) == RunStart(c) \/ RunCommand(c) \/ RunRecord(c) \/ RunFinish(c)

ChatTurn(h) ==
  \/ ChatFind(h) \/ ChatNoPlan(h) \/ ChatGuard(h) \/ ChatCreate(h)
  \/ ChatReadOld(h) \/ ChatSupersede(h) \/ ChatLink(h)

ExpireLoop == SweepList \/ SweepNow \/ SweepWrite

Next ==
  \/ Pipeline
  \/ \E c \in Calls : Callback(c) \/ Execution(c)
  \/ \E h \in Chats : ChatTurn(h)
  \/ ExpireLoop
  \/ \E a \in Approvals : Deadline(a)
  \/ Crash

Spec == Init /\ [][Next]_vars

(* The Go scheduler runs every goroutine; the ticker ticks and time passes. *)
(* A kubectl command is killed at its timeout and comes back.  An ssh       *)
(* command need not: only the TCP dial has a deadline, while the handshake, *)
(* the dial through a bastion and the opening of the session wait for the   *)
(* host as long as it is silent, and the context is looked at after them.   *)
(* Nobody has to press a button, so the first step of a callback is not     *)
(* fair either.                                                             *)
Fairness ==
  /\ \A c \in Calls :
       /\ WF_vars(CallbackDecide(c) \/ CallbackWrite(c) \/ CallbackSpawn(c))
       /\ WF_vars(RunStart(c) \/ RunRecord(c) \/ RunFinish(c))
       /\ WF_vars(run[c].step \notin SshSteps /\ RunCommand(c))
  /\ WF_vars(ExpireLoop)
  /\ \A a \in Approvals : WF_vars(Deadline(a))

FairSpec == Spec /\ Fairness

-----------------------------------------------------------------------------
(* Properties that hold whatever overlaps, fails or crashes.               *)

(* A command reaches its target only for a plan somebody approved: a       *)
(* callback that carried "approve", read the row while it was pending and  *)
(* went on to write.  Rejecting, modifying or expiring never starts one.   *)
ExecutionAuthorised ==
  \A a \in Approvals : \A i \in Steps : \A c \in ran[a][i] :
    /\ cb[c].id = a /\ cb[c].action = "approve"
    /\ cb[c].seen = "pending" /\ cb[c].target = "approved"

(* An execution that runs a command has run all the earlier ones, however  *)
(* many ExecutePlan goroutines work on the plan: each goes in plan order   *)
(* and stops at its first failed step.                                     *)
StepsInOrder ==
  \A a \in Approvals : \A i, j \in Steps : i < j => ran[a][j] \subseteq ran[a][i]

(* "completed" is never a claim without the work: every command of the     *)
(* plan was handed to its executor.                                        *)
CompletedMeansAllRan ==
  \A a \in Approvals : status[a] = "completed" => \A i \in Steps : ran[a][i] # {}

(* The log never reports a step as successful that was not run.            *)
LogIsTruthful ==
  \A a \in Approvals : \A i \in Steps : log[a][i] = "success" => ran[a][i] # {}

(* A plan is withdrawn only after its replacement can be acted on: a       *)
(* superseded row has a younger row that names it as parent.               *)
SupersededHasSuccessor ==
  \A a \in Approvals : status[a] = "superseded" =>
    \E b \in Approvals : b > a /\ b <= created /\ parent[b] = a

(* A row is expired by either path only after its deadline.                *)
ExpiredIsOverdue ==
  \A a \in Approvals : status[a] = "expired" => a \in overdue

(* As long as nothing fails or crashes, a row that says "approved" or      *)
(* "executing" has a goroutine at work on it, which moves it on unless a   *)
(* host keeps it waiting.                                                  *)
Driven(a) ==
  \E c \in Calls :
    \/ cb[c].pc = "granted" /\ cb[c].id = a
    \/ run[c].pc \notin {"none", "done"} /\ run[c].id = a

NoOrphan ==
  faults = 0 /\ crashes = 0 =>
    \A a \in Approvals : status[a] \in {"approved", "executing"} => Driven(a)

(* IsFinal: a rejected, expired, superseded, completed or failed row keeps *)
(* its status and runs nothing any more, unless a goroutine still acts on  *)
(* what it read before: that window is the only way out.                   *)
IsFinal(s) == s \in {"rejected", "expired", "completed", "failed", "superseded"}

Held(a) ==
  \/ \E c \in Calls :
       /\ cb[c].id = a /\ cb[c].seen = "pending"
       /\ cb[c].pc \in {"read", "decided", "granted"}
  \/ \E c \in Calls : run[c].id = a /\ run[c].pc \notin {"none", "done"}
  \/ \E h \in Chats : chat[h].parent = a /\ chat[h].pc = "superseding"
  \/ a \in sweep.stale

FinalStaysFinal ==
  [][\A a \in Approvals : IsFinal(status[a]) /\ ~Held(a) =>
       status'[a] = status[a] /\ ran'[a] = ran[a]]_vars

-----------------------------------------------------------------------------
(* Properties of the system when handlers do not overlap.                  *)

Lifecycle == INSTANCE ApprovalLifecycle WITH Executions <- Calls

(* The rows and the commands run follow the abstract lifecycle: only       *)
(* moves of the transition table, every command at most once, in order,    *)
(* and only while its plan is executing.                                   *)
ImplementsLifecycle == Lifecycle!Spec

(* Between turns, a revision leaves one plan to decide on, and the         *)
(* conversation points at the newest row, so the next revision withdraws   *)
(* the right one.                                                          *)
OneLivePlan ==
  (crashes = 0 /\ ~HandlerBusy /\ pipe.pc = "done") =>
    /\ \A a, b \in Pending : a = b
    /\ conv \in {created, NoConv}

-----------------------------------------------------------------------------
(* What the repository says and the code does not keep.                    *)

(* internal/approval/manager.go turns a second approval away with "this    *)
(* plan is already approved and cannot be re-acted upon".  It is turned    *)
(* away when handlers do not overlap.                                      *)
ExecutedAtMostOnce ==
  \A a \in Approvals : \A i \in Steps : \A c, d \in ran[a][i] : c = d

(* internal/approval/manager.go: ProcessCallback "processes an approval    *)
(* callback": a callback on an existing row is turned away before it is    *)
(* looked at only if a store call failed.                                  *)
CallbacksReachTheRow ==
  [][\A c \in Calls :
       (cb[c].pc = "idle" /\ cb'[c].pc = "done" /\ crashes' = crashes)
         => faults' > faults]_vars

(* internal/notifier/callback.go answers "Plan approved with               *)
(* modifications.", and the transition table moves "modified" to           *)
(* "executing": a modified plan is eventually run.                         *)
ModifiedIsExecuted ==
  \A a \in Approvals : status[a] = "modified" ~> status[a] # "modified"

-----------------------------------------------------------------------------
(* Liveness, under FairSpec.                                               *)

(* An approved plan is carried out to a verdict, whatever its commands     *)
(* answer, if no ssh host leaves an execution without an answer for ever   *)
(* (ExecutePlan).                                                          *)
AwaitsHost(c) == run[c].pc = "exec" /\ run[c].step \in SshSteps
HostsAnswer == \A c \in Calls : []<>~AwaitsHost(c)

ApprovedIsFinished ==
  HostsAnswer =>
    \A a \in Approvals : status[a] = "approved" ~> status[a] \in {"completed", "failed"}

(* An overdue plan nobody acts on does not stay open, even when the        *)
(* pending query returns only part of the pending rows.                    *)
OverdueIsClosed ==
  \A a \in Approvals : status[a] = "pending" /\ a \in overdue ~> status[a] # "pending"
=============================================================================
