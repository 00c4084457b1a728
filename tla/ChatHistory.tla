---------------------------- MODULE ChatHistory ----------------------------
(***************************************************************************)
(* What the language model is shown of a thread: ListMessages of the store *)
(* and buildHistory of internal/chat/orchestrator.go.                      *)
(*                                                                         *)
(* A definition X_Variant before a definition X is X with a bug in it; the *)
(* mutation runs put it in X's place, and nothing else refers to it.       *)
(***************************************************************************)
EXTENDS Integers, Sequences, FiniteSets, SequencesExt

CONSTANTS
  MaxTurns,    \* historyMaxTurns: the messages of a history
  MaxChars     \* historyMaxChars: their size in all

ASSUME HistoryAssumption == MaxTurns \in Nat \ {0} /\ MaxChars \in Nat

(* A message row: the role it has, the message of Lark it holds or (for an *)
(* answer) answers, the time at of created_at, and its size.  Rows of one   *)
(* time come in any order.                                                 *)
OldestFirst(rows) ==
  CHOOSE s \in [1..Cardinality(rows) -> rows] :
    ToSet(s) = rows /\ \A i, j \in DOMAIN s : i < j => s[i].at <= s[j].at

LastOf(s, n) == IF Len(s) > n THEN SubSeq(s, Len(s) - n + 1, Len(s)) ELSE s

(* ORDER BY created_at ASC LIMIT ?: what exceeds the limit is the newest.  *)
ListMessages(rows) ==
  LET all == OldestFirst(rows)
  IN  SubSeq(all, 1, IF Len(all) < 2 * MaxTurns THEN Len(all) ELSE 2 * MaxTurns)

Size(s) == FoldSeq(LAMBDA row, total : total + row.size, 0, s)

(* Messages are dropped from the front until the rest fits or is one.      *)
WithinBudget_FromTheBack(s) ==
  LET Fits(n) == n = 1 \/ Size(SubSeq(s, 1, n)) <= MaxChars
  IN  IF s = <<>> THEN s
      ELSE SubSeq(s, 1, CHOOSE n \in 1..Len(s) : Fits(n) /\ \A m \in n+1..Len(s) : ~Fits(m))
WithinBudget(s) ==
  LET Fits(n) == n = 1 \/ Size(LastOf(s, n)) <= MaxChars
  IN  IF s = <<>> THEN s
      ELSE LastOf(s, CHOOSE n \in 1..Len(s) : Fits(n) /\ \A m \in n+1..Len(s) : ~Fits(m))

(* The message being answered is dropped by its Lark id: SelectSeq, in a   *)
(* form the provers can expand.                                            *)
Without(s, current) ==
  LET kept[n \in 0..Len(s)] ==
        IF n = 0 THEN <<>>
        ELSE IF s[n].role = "assistant" \/ s[n].of # current THEN Append(kept[n - 1], s[n])
        ELSE kept[n - 1]
  IN  kept[Len(s)]

BuildHistory(rows, current) ==
  WithinBudget(LastOf(Without(ListMessages(rows), current), MaxTurns))

=============================================================================
