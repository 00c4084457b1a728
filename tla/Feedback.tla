------------------------------ MODULE Feedback ------------------------------
(***************************************************************************)
(* Votes on an executed plan: the callbacks of the feedback card save a    *)
(* vote each and recompute the row of alert_outcomes, which the history of *)
(* later alerts tells.  Callbacks run concurrently; each store call is a   *)
(* step, and may fail.                                                     *)
(*                                                                         *)
(* A callback goes "idle" -> "save" -> "list" -> "status" -> "write" ->    *)
(* "done"; what it has read is in its record.                              *)
(***************************************************************************)
EXTENDS Integers, FiniteSets, Sequences, SequencesExt

CONSTANTS
  Presses,        \* the callbacks of buttons, repeated ones included
  Voted,          \* the alert they are about
  ApprovalPage,   \* how many of the newest approvals a callback reads: 50
  MaxApprovals    \* bound on the approvals table

ASSUME FeedbackAssumption ==
  IsFiniteSet(Presses) /\ ApprovalPage \in Nat \ {0} /\ MaxApprovals \in Nat

VARIABLES
  approvals,   \* the approvals table, newest first: alert and status
  votes,       \* incident_feedback: the rating each saved callback gave
  callback,    \* a callback: where it is, what it read
  outcome      \* the row of alert_outcomes, and which callback wrote it

feedbackVars == <<approvals, votes, callback, outcome>>

Up == "thumbs_up"
Down == "thumbs_down"
NoOne == "nobody"
NotPressed == [at |-> "idle", rating |-> "", before |-> {}, listed |-> {}, status |-> ""]
NoOutcome == [up |-> 0, down |-> 0, status |-> "", by |-> NoOne]

Status == {"pending", "rejected", "completed", "failed"}

FeedbackInit(rows) ==
  /\ approvals = rows /\ outcome = NoOutcome
  /\ votes = [p \in {} |-> Up]
  /\ callback = [p \in Presses |-> NotPressed]

At(p, step) == callback[p].at = step

Ends(p) == callback' = [callback EXCEPT ![p] = [NotPressed EXCEPT !.at = "done"]]

(* A prompt is sent when a plan has ended, so there is one to vote on.  A  *)
(* press of the comment button writes nothing.                             *)
Press(p) ==
  /\ At(p, "idle")
  /\ \E i \in DOMAIN approvals : approvals[i].alert = Voted /\ approvals[i].status \in {"completed", "failed"}
  /\ \/ \E rating \in {Up, Down} :
          callback' = [callback EXCEPT ![p].at = "save", ![p].rating = rating]
     \/ Ends(p)
  /\ UNCHANGED <<approvals, votes, outcome>>

Voting(p) == [q \in DOMAIN votes \cup {p} |-> IF q = p THEN callback[p].rating ELSE votes[q]]

SaveFeedback_ListsFirst(p) ==
  /\ At(p, "save")
  /\ votes' = Voting(p)
  /\ callback' = [callback EXCEPT ![p].at = "status", ![p].before = DOMAIN votes',
                                  ![p].listed = DOMAIN votes]
  /\ UNCHANGED <<approvals, outcome>>
SaveFeedback(p) ==
  /\ At(p, "save")
  /\ \/ /\ votes' = Voting(p)
        /\ callback' = [callback EXCEPT ![p].at = "list", ![p].before = DOMAIN votes']
     \/ Ends(p) /\ UNCHANGED votes
  /\ UNCHANGED <<approvals, outcome>>

ListFeedback(p) ==
  /\ At(p, "list")
  /\ \/ callback' = [callback EXCEPT ![p].at = "status", ![p].listed = DOMAIN votes]
     \/ Ends(p)
  /\ UNCHANGED <<approvals, votes, outcome>>

(* The newest approval of the alert among the newest of all; an error is   *)
(* taken for an empty list.                                                *)
NewestStatus ==
  LET own == {i \in DOMAIN approvals : i <= ApprovalPage /\ approvals[i].alert = Voted}
  IN  IF own = {} THEN "" ELSE approvals[Min(own)].status

ListApprovals(p) ==
  /\ At(p, "status")
  /\ \E status \in {NewestStatus, ""} :
       callback' = [callback EXCEPT ![p].at = "write", ![p].status = status]
  /\ UNCHANGED <<approvals, votes, outcome>>

Count(listed, rating) == Cardinality({q \in listed : votes[q] = rating})

(* UpsertOutcome: an empty status leaves the old one.                      *)
UpsertOutcome(p) ==
  /\ At(p, "write")
  /\ \/ outcome' = [up |-> Count(callback[p].listed, Up), down |-> Count(callback[p].listed, Down),
                    status |-> IF callback[p].status = "" THEN outcome.status ELSE callback[p].status,
                    by |-> p]
     \/ UNCHANGED outcome
  /\ callback' = [callback EXCEPT ![p] = [NotPressed EXCEPT !.at = "done", !.before = callback[p].before]]
  /\ UNCHANGED <<approvals, votes>>

(* Meanwhile plans are proposed, for this alert or others, and end; how    *)
(* those of others end is read by nobody here.                             *)
ProposeOther ==
  /\ Len(approvals) < MaxApprovals
  /\ \E alert \in {Voted, "another"} :
       approvals' = <<[alert |-> alert, status |-> "pending"]>> \o approvals
  /\ UNCHANGED <<votes, callback, outcome>>

EndOther ==
  /\ \E i \in DOMAIN approvals, status \in Status \ {"pending"} :
       /\ approvals[i].alert = Voted /\ approvals[i].status = "pending"
       /\ approvals' = [approvals EXCEPT ![i].status = status]
  /\ UNCHANGED <<votes, callback, outcome>>

Callback(p) ==
  Press(p) \/ SaveFeedback(p) \/ ListFeedback(p) \/ ListApprovals(p) \/ UpsertOutcome(p)
=============================================================================
