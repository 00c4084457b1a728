--------------------------- MODULE ApprovalStatus ---------------------------
(***************************************************************************)
(* The vocabulary of the approvals table: the statuses a row can have, the *)
(* moves the transition table of internal/approval/models.go allows, and   *)
(* the status each button of a plan card asks for.  A row that has not     *)
(* been inserted yet has status "none".                                    *)
(***************************************************************************)

Statuses ==
  {"pending", "approved", "rejected", "modified", "expired",
   "executing", "completed", "failed", "superseded"}

RowStatuses == Statuses \cup {"none"}

(* The table validTransitions, as a set of successors per status.          *)
ValidTransitions(s) ==
  CASE s = "pending" ->
         {"approved", "rejected", "modified", "expired", "superseded"}
    [] s \in {"approved", "modified"} -> {"executing"}
    [] s = "executing" -> {"completed", "failed"}
    [] OTHER -> {}

(* CanTransitionTo_Any is a seeded bug for the mutation runs.              *)
CanTransitionTo_Any(s, target) == target # "none"
CanTransitionTo(s, target) == target \in ValidTransitions(s)

(* The status a callback action stands for; "none" for an unknown action.  *)
StatusFromAction(action) ==
  CASE action = "approve" -> "approved"
    [] action = "reject" -> "rejected"
    [] action = "modify" -> "modified"
    [] OTHER -> "none"

=============================================================================
