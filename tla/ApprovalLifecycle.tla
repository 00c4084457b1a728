-------------------------- MODULE ApprovalLifecycle --------------------------
(***************************************************************************)
(* What the approval subsystem promises about one healing plan, whoever    *)
(* implements it: a row only moves along the transition table, its         *)
(* commands run only while it is "executing", each at most once and in the *)
(* order of the plan, and it is "completed" only when all of them ran.     *)
(***************************************************************************)
EXTENDS Naturals, ApprovalStatus

CONSTANTS
  Approvals,   \* identifiers of approval rows
  NSteps,      \* number of commands in a plan
  Executions   \* the executions that may carry a plan out

Steps == 1..NSteps

VARIABLES
  status,      \* status of each row, "none" before it is inserted
  ran          \* the executions that sent each command to its target

lcVars == <<status, ran>>

Init ==
  /\ status = [a \in Approvals |-> "none"]
  /\ ran = [a \in Approvals |-> [i \in Steps |-> {}]]

Create(a) ==
  /\ status[a] = "none"
  /\ status' = [status EXCEPT ![a] = "pending"]
  /\ UNCHANGED ran

(* One move of the transition table that does not end an execution.        *)
Move(a) ==
  /\ \E s \in ValidTransitions(status[a]) \ {"completed"} :
       status' = [status EXCEPT ![a] = s]
  /\ UNCHANGED ran

(* The next command in plan order, by one execution, never run before.     *)
RunNext(a) ==
  /\ status[a] = "executing"
  /\ \E e \in Executions, i \in Steps :
       /\ ran[a][i] = {}
       /\ \A j \in 1..(i - 1) : ran[a][j] = {e}
       /\ ran' = [ran EXCEPT ![a][i] = {e}]
  /\ UNCHANGED status

Complete(a) ==
  /\ status[a] = "executing"
  /\ \A i \in Steps : ran[a][i] # {}
  /\ status' = [status EXCEPT ![a] = "completed"]
  /\ UNCHANGED ran

Next ==
  \E a \in Approvals : Create(a) \/ Move(a) \/ RunNext(a) \/ Complete(a)

Spec == Init /\ [][Next]_lcVars

=============================================================================
