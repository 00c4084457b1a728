------------------------------ MODULE Analyzer ------------------------------
(***************************************************************************)
(* internal/analyzer: the retries around a call to the language model, and *)
(* how the JSON object is taken out of the text of an answer.  A text is a *)
(* sequence of characters, as far as that code tells them apart.           *)
(***************************************************************************)
EXTENDS Integers, Sequences, SequencesExt

CONSTANTS
  MaxRetries,   \* claude.max_retries
  MaxText       \* bound on the length of what is inside an object

ASSUME AnalyzerAssumption == MaxRetries \in Nat /\ MaxText \in Nat

Open == "{"
Close == "}"
Quote == "quote"
Escape == "backslash"
Fence == "fence"
Newline == "newline"
Other == "other"
Characters == {Open, Close, Quote, Escape, Fence, Newline, Other}

(* An answer with a text, or the next attempt; after the last one, none.   *)
GaveUp == -1
NextAttempt_Forever(attempt) == (attempt + 1) % (MaxRetries + 1)
NextAttempt(attempt) == IF attempt < MaxRetries THEN attempt + 1 ELSE GaveUp

(* stripCodeFences                                                         *)
CutFrom(text, c) ==
  IF c \in ToSet(text) THEN SubSeq(text, 1, SelectLastInSeq(text, LAMBDA d : d = c) - 1) ELSE text
CutThrough(text, c) ==
  IF c \in ToSet(text)
  THEN SubSeq(text, SelectInSeq(text, LAMBDA d : d = c) + 1, Len(text)) ELSE text

Trimmed(text) ==
  LET head == IF text # <<>> /\ text[1] = Newline THEN Tail(text) ELSE text
  IN  IF head # <<>> /\ Last(head) = Newline THEN Front(head) ELSE head

StripFences(text) ==
  IF text = <<>> \/ text[1] # Fence THEN text
  ELSE Trimmed(CutFrom(CutThrough(text, Newline), Fence))

(* extractFirstJSONObject: one character of the loop, from the first brace *)
(* on.  A character after a backslash is skipped, inside strings and out.  *)
ScanStep_QuotesInsideEscapes(state, c) ==
  LET seen == [state EXCEPT !.length = @ + 1]
  IN  CASE state.end > 0 -> state
        [] state.end = 0 /\ c = Quote -> [seen EXCEPT !.inString = ~@]
        [] state.end = 0 /\ c = Open /\ ~state.inString -> [seen EXCEPT !.depth = @ + 1]
        [] state.end = 0 /\ c = Close /\ ~state.inString ->
             IF state.depth = 1 THEN [seen EXCEPT !.depth = 0, !.end = seen.length]
             ELSE [seen EXCEPT !.depth = @ - 1]
        [] OTHER -> seen
ScanStep(state, c) ==
  LET seen == [state EXCEPT !.length = @ + 1]
  IN  IF state.end > 0 THEN state
      ELSE IF state.escaped THEN [seen EXCEPT !.escaped = FALSE]
      ELSE CASE c = Escape -> [seen EXCEPT !.escaped = TRUE]
             [] c = Quote -> [seen EXCEPT !.inString = ~@]
             [] c = Open /\ ~state.inString -> [seen EXCEPT !.depth = @ + 1]
             [] c = Close /\ ~state.inString ->
                  IF state.depth = 1 THEN [seen EXCEPT !.depth = 0, !.end = seen.length]
                  ELSE [seen EXCEPT !.depth = @ - 1]
             [] OTHER -> seen

ScanStart == [length |-> 0, depth |-> 0, inString |-> FALSE, escaped |-> FALSE, end |-> 0]

FirstObject(text) ==
  LET first == SelectInSeq(text, LAMBDA c : c = Open)
      rest == SubSeq(text, first, Len(text))
      scanned[n \in 0..Len(rest)] ==
        IF n = 0 THEN ScanStart ELSE ScanStep(scanned[n - 1], rest[n])
  IN  IF first = 0 THEN <<>> ELSE SubSeq(rest, 1, scanned[Len(rest)].end)

(* Analyze parses the text without its fences; RankIncidents and Chat take *)
(* the first object in it, when there is one.                              *)
ForAnalysis(text) == StripFences(text)
ForRanking(text) ==
  LET cleaned == StripFences(text)
      object == FirstObject(cleaned)
  IN  IF object # <<>> THEN object ELSE cleaned

(* What JSON allows, by length: the inside of a string, where a backslash  *)
(* takes the next character with it, and the inside of an object, with     *)
(* strings and objects in it.                                              *)
Then(heads, tails) == {u \o w : u \in heads, w \in tails}
Quoted(strings) == {<<Quote>> \o s \o <<Quote>> : s \in strings}
Braced(insides) == {<<Open>> \o o \o <<Close>> : o \in insides}

InString[n \in 0..MaxText] ==
  IF n = 0 THEN {<<>>}
  ELSE Then({<<Open>>, <<Close>>, <<Other>>}, InString[n - 1])
       \cup IF n = 1 THEN {}
            ELSE Then({<<Escape, c>> : c \in {Open, Quote, Escape}}, InString[n - 2])

InObject[n \in 0..MaxText] ==
  IF n = 0 THEN {<<>>}
  ELSE Then({<<Other>>}, InObject[n - 1])
       \cup (UNION {Then(Quoted(InString[k]), InObject[n - 2 - k]) : k \in 0..(n - 2)})
       \cup (UNION {Then(Braced(InObject[k]), InObject[n - 2 - k]) : k \in 0..(n - 2)})

JsonObjects == Braced(UNION {InObject[n] : n \in 0..MaxText})

(* An answer that came: the object the model meant, nothing when it meant  *)
(* none, in fences, bare, or with prose around it.                         *)
Fenced(object) == <<Fence, Other, Newline>> \o object \o <<Newline, Fence>>
Prose == {<<>>, <<Quote>>, <<Close, Other>>}
Around(object) == Then(Then(Prose, {object}), Prose \cup {<<Open, Quote>>})
Answered(object) ==
  {[object |-> object, text |-> text] : text \in {Fenced(object)} \cup Around(object)}
Unusable == {[object |-> <<>>, text |-> text] : text \in {<<>>, <<Other>>, <<Open, Quote>>}}
AnyAnswer == (UNION {Answered(object) : object \in JsonObjects}) \cup Unusable

(* The texts whose parsing succeeds.                                       *)
Parsed == {a.text : a \in {b \in AnyAnswer : ForAnalysis(b.text) \in JsonObjects}}
ParsedRanking == {a.text : a \in {b \in AnyAnswer : ForRanking(b.text) \in JsonObjects}}
Silence == [object |-> <<>>, text |-> <<>>]
=============================================================================
