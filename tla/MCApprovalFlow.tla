--------------------------- MODULE MCApprovalFlow ---------------------------
(***************************************************************************)
(* ApprovalFlow for TLC: callbacks and chat turns are interchangeable.     *)
(***************************************************************************)
EXTENDS ApprovalFlow, TLC

Symmetry == Permutations(Calls) \cup Permutations(Chats)
=============================================================================
