------------------------------ MODULE Runbooks ------------------------------
(***************************************************************************)
(* internal/runbooks: the team's runbooks in a directory, the snapshot of  *)
(* them the program works with, the loop that reloads it, and the choice   *)
(* of runbooks for an alert.                                               *)
(*                                                                         *)
(* A file is "absent", "broken" (it cannot be read or its front matter is  *)
(* no YAML), "bare" (without front matter: its name is the alert it is     *)
(* for, and its title gives the keywords) or "full".  A snapshot maps the  *)
(* files it was loaded from to what they were.                             *)
(***************************************************************************)
EXTENDS Integers, FiniteSets, Sequences, SequencesExt

CONSTANTS
  Files,          \* the runbook files, in the order of their titles: 1..n
  Relevance,      \* what Matching says of a file that is "bare" or "full"
  TopRunbooks,    \* top_k
  MaxEdits,       \* bound on the edits of the directory
  MaxTimeouts     \* bound on the loads that run out of their 30 seconds

ASSUME RunbooksAssumption ==
  /\ IsFiniteSet(Files) /\ Files = 1..Cardinality(Files)
  /\ Relevance \in [Files \X {"bare", "full"} -> [exact : BOOLEAN, keywords : Nat, tags : Nat]]
  /\ TopRunbooks \in Nat \ {0} /\ MaxEdits \in Nat /\ MaxTimeouts \in Nat

VARIABLES
  directory,   \* whether the directory is there
  disk,        \* the state of each file
  snapshot,    \* the runbooks that retrievals see
  loaded,      \* what the load that is going on has returned
  edits, timeouts

runbookVars == <<directory, disk, snapshot, loaded, edits, timeouts>>

Contents == {"absent", "broken", "bare", "full"}
NotLoading == [error |-> FALSE, books |-> <<>>, loading |-> FALSE]

OnDisk(files) == {f \in files : disk[f] \in {"bare", "full"}}
Books(files) == [f \in OnDisk(files) |-> disk[f]]

(* Load: no directory is an error without runbooks; a file that does not   *)
(* parse, and a walk that is cut short, are errors with the others.        *)
Load ==
  IF directory
  THEN [error |-> \E f \in Files : disk[f] = "broken", books |-> Books(Files), loading |-> TRUE]
  ELSE [error |-> TRUE, books |-> Books({}), loading |-> TRUE]

(* Reload: an error with no runbooks keeps the snapshot.                   *)
Swapped_Always(result) == result.books
Swapped(result) ==
  IF result.error /\ DOMAIN result.books = {} THEN snapshot ELSE result.books

(* Start loads once before anything is served; a failure is only logged.   *)
RunbooksInit ==
  /\ directory \in BOOLEAN /\ disk \in [Files -> Contents]
  /\ snapshot = IF directory THEN Books(Files) ELSE Books({})
  /\ loaded = NotLoading /\ edits = 0 /\ timeouts = 0

EditRunbooks ==
  /\ edits < MaxEdits /\ edits' = edits + 1
  /\ \/ directory' = ~directory /\ UNCHANGED disk
     \/ \E f \in Files, c \in Contents :
          disk' = [disk EXCEPT ![f] = c] /\ disk[f] # c /\ UNCHANGED directory
  /\ UNCHANGED <<snapshot, loaded, timeouts>>

(* The loop: a tick of its timer starts a load under a 30 second timeout.  *)
LoadRunbooks ==
  /\ ~loaded.loading
  /\ \/ loaded' = Load /\ UNCHANGED timeouts
     \/ /\ directory /\ timeouts < MaxTimeouts /\ timeouts' = timeouts + 1
        /\ \E walked \in SUBSET Files :
             loaded' = [error |-> TRUE, books |-> Books(walked), loading |-> TRUE]
  /\ UNCHANGED <<directory, disk, snapshot, edits>>

SwapRunbooks_StopsAtError ==
  /\ loaded.loading /\ ~loaded.error
  /\ snapshot' = Swapped(loaded) /\ loaded' = NotLoading
  /\ UNCHANGED <<directory, disk, edits, timeouts>>
SwapRunbooks ==
  /\ loaded.loading
  /\ snapshot' = Swapped(loaded) /\ loaded' = NotLoading
  /\ UNCHANGED <<directory, disk, edits, timeouts>>

(* score, in tenths: an exact match is 10, keywords give up to 10 and tags *)
(* up to 5.                                                                *)
UpTo(n, limit) == IF n < limit THEN n ELSE limit
Score(f) ==
  LET r == Relevance[f, snapshot[f]]
  IN  (IF r.exact THEN 10 ELSE 0) + UpTo(2 * r.keywords, 10) + UpTo(r.tags, 5)

(* Retrieve: the best ones, by score and then by title.                    *)
Retrieved ==
  LET matching == {f \in DOMAIN snapshot : Score(f) > 0}
      before(f, g) == Score(f) > Score(g) \/ (Score(f) = Score(g) /\ f < g)
      place(f) == 1 + Cardinality({g \in matching : before(g, f)})
  IN  [i \in 1..UpTo(Cardinality(matching), TopRunbooks) |->
         CHOOSE f \in matching : place(f) = i]
=============================================================================
