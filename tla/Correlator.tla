----------------------------- MODULE Correlator -----------------------------
(***************************************************************************)
(* The correlator of internal/correlation/correlator.go: a buffer that     *)
(* many goroutines submit to, and one flush goroutine that takes out what  *)
(* is due, forms groups and calls the pipeline once per group, inside the  *)
(* goroutine.  When the context is cancelled the goroutine drains the      *)
(* buffer once and ends.                                                   *)
(*                                                                         *)
(* A definition X_Variant before a definition X is X with a bug in it.     *)
(***************************************************************************)
EXTENDS Clustering

CONSTANT Window   \* how long an alert waits in the buffer

ASSUME WindowAssumption == Window \in Nat \ {0}

VARIABLES
  buffer,    \* alerts submitted and not yet taken; at is the time of Submit
  submits,   \* number of Submit calls so far
  loop,      \* the flush goroutine: "wait", "flush", "drain" or "stopped"
  todo,      \* groups of the current flush still to be handed over
  groups     \* groups handed to the pipeline, with the flush they came from

correlatorVars == <<buffer, submits, loop, todo, groups>>

CorrelatorInit ==
  /\ buffer = {} /\ submits = 0
  /\ loop = "wait" /\ todo = {} /\ groups = {}

Submit(row, fp, starts) ==
  /\ buffer' = buffer \cup {[row |-> row, fp |-> fp, starts |-> starts,
                             pos |-> submits, at |-> now]}
  /\ submits' = submits + 1
  /\ UNCHANGED <<loop, todo, groups>>

Due == {e \in buffer : Passed(e.at + Window)}

(* buildGroup for every group of the alerts taken; the flush is known by   *)
(* the first position it took.                                             *)
Flush_ClusterPrimary(taken) ==
  UNION {{[flush |-> First(taken).pos, primary |-> PickPrimary(c), members |-> g] :
            g \in SplitForCap(c)} : c \in Clusters(taken)}
Flush(taken) ==
  {[flush |-> First(taken).pos, primary |-> PickPrimary(g), members |-> g] : g \in Groups(taken)}

(* takeDue writes what is not due back to the buffer.                      *)
Kept_Nothing == {}
Kept == buffer \ Due

FlushDue ==
  /\ loop = "wait" /\ Due # {}
  /\ buffer' = Kept
  /\ todo' = Flush(Due)
  /\ loop' = "flush"
  /\ UNCHANGED <<submits, groups>>

FlushAll_Drain ==
  /\ loop = "wait"
  /\ buffer' = {}
  /\ todo' = Flush(buffer)
  /\ loop' = "drain"
  /\ UNCHANGED <<submits, groups>>
FlushAll ==
  /\ loop = "wait"
  /\ buffer' = {}
  /\ todo' = Flush(buffer)
  /\ loop' = IF buffer = {} THEN "stopped" ELSE "drain"
  /\ UNCHANGED <<submits, groups>>

(* onGroup returns when the pipeline has processed the group.  The order   *)
(* of the groups of one flush is left open.                                *)
OnGroup ==
  \E g \in todo :
    /\ groups' = groups \cup {g}
    /\ todo' = todo \ {g}
    /\ loop' = IF todo # {g} THEN loop
               ELSE IF loop = "drain" THEN "stopped" ELSE "wait"
    /\ UNCHANGED <<buffer, submits>>

=============================================================================
