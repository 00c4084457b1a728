----------------------------- MODULE Incidents -----------------------------
(***************************************************************************)
(* internal/incidents: past alerts that the analysis is shown.  The store  *)
(* selects candidates, the language model ranks them when there are enough *)
(* of them, and every failure falls back to the most recent ones.          *)
(***************************************************************************)
EXTENDS Integers, Sequences, SequencesExt

CONSTANTS
  AlertRows,       \* the alerts table, newest first: id, name, recent
  PoolSize,        \* candidate_pool_size
  TopIncidents     \* top_k

ASSUME IncidentsAssumption ==
  /\ AlertRows \in Seq(ToSet(AlertRows))
  /\ PoolSize \in Nat /\ TopIncidents \in Nat

FirstN(s, n) == SubSeq(s, 1, IF n < Len(s) THEN n ELSE Len(s))

(* The elements of s that are in S, in their order: SelectSeq with a set   *)
(* for the test, in a form the provers can expand.                         *)
Among(s, S) ==
  LET kept[n \in 0..Len(s)] ==
        IF n = 0 THEN <<>>
        ELSE IF s[n] \in S THEN Append(kept[n - 1], s[n]) ELSE kept[n - 1]
  IN  kept[Len(s)]

(* FindHistoricalCandidates: of the same name, within the lookback, and    *)
(* not the alert itself.                                                   *)
Candidates(alert) ==
  FirstN(Among(AlertRows, {row \in ToSet(AlertRows) :
                             row.name = alert.name /\ row.recent /\ row.id # alert.id}), PoolSize)

Ids(rows) == [i \in DOMAIN rows |-> rows[i].id]

(* convertCandidates: a top_k of zero means all of them.                   *)
MostRecent(rows) ==
  Ids(FirstN(rows, IF TopIncidents = 0 THEN Len(rows) ELSE TopIncidents))

(* What is not above min_candidates_for_llm is not worth a call.           *)
NeedsRanking(rows, config) == Len(rows) > config.minCandidates

(* The ids of an answer that are candidates, in the order of the answer    *)
(* and however often and many they are; nothing usable means the recent.   *)
Ranked_AsTold(rows, ids) == IF ids = <<>> THEN MostRecent(rows) ELSE ids
Ranked(rows, ids) ==
  LET known == Among(ids, ToSet(Ids(rows)))
  IN  IF known = <<>> THEN MostRecent(rows) ELSE known
=============================================================================
