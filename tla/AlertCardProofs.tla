---------------------------- MODULE AlertCardProofs ----------------------------
(***************************************************************************)
(* More proofs about AlertAnalysis: what the card and the analysis are     *)
(* told is true of the command, the answers and the past, for every plan,  *)
(* every answer of Prometheus and of the language model.                   *)
(***************************************************************************)
EXTENDS AlertAnalysisProofs

-----------------------------------------------------------------------------
(* Estimates.  Every step that builds one only adds to it: findings at the *)
(* end, a higher severity, less confidence.                                *)
NoLevel == ""
AnyLevel == Levels \cup {NoLevel}
Phrases ==
  {"no_data", "traffic", "downstream", "full outage", "halved", "rolling", "offline",
   "over half", "added", "no-op", "previous image", "owner unknown", "share of pods",
   "restart needed", "thresholds", "brief downtime", "disk"}
Findings == Seq(Phrases)

Confidence == 100..1000
Percent == 0..100

Assessments ==
  [severity : AnyLevel, confidence : Confidence, replicas : Nat, share : Percent,
   dependents : Nat, findings : Findings, upgrade : AnyLevel]

Grows(a, b) ==
  /\ b \in Assessments
  /\ b.confidence <= a.confidence /\ Rank(a.severity) <= Rank(b.severity)
  /\ Len(a.findings) <= Len(b.findings)
  /\ \A k \in 1..Len(a.findings) : b.findings[k] = a.findings[k]
  /\ b.upgrade = a.upgrade

LEMMA Ranks ==
  /\ \A s : Rank(s) \in 0..4
  /\ Rank(NoLevel) = 0 /\ Rank("low") = 1 /\ Rank("medium") = 2
  /\ Rank("high") = 3 /\ Rank("critical") = 4
  /\ \A s \in Levels : Rank(s) >= 1 /\ s \in AnyLevel
  /\ \A s \in AnyLevel : (Rank(s) > 0 => s \in Levels) /\ (Rank(s) = 4 => s = "critical")
<1>1. \A s : Rank(s) \in 0..4
  BY DEF Rank
<1>2. /\ Rank("low") = 1 /\ Rank("medium") = 2 /\ Rank("high") = 3 /\ Rank("critical") = 4
  BY DEF Rank
<1>3. NoLevel \notin {"low", "medium", "high", "critical"}
  BY Zenon DEF NoLevel
<1>4. Rank(NoLevel) = 0
  BY <1>3 DEF Rank
<1>5. \A s \in Levels : s \in AnyLevel
  BY DEF AnyLevel
<1> QED
  BY <1>1, <1>2, <1>4, <1>5 DEF Levels, AnyLevel

LEMMA Fields ==
  ASSUME NEW a \in Assessments
  PROVE  /\ a.confidence \in Confidence /\ a.severity \in AnyLevel /\ a.confidence \in 100..1000 /\ a.confidence \in Nat
         /\ a.replicas \in Nat /\ a.share \in Percent /\ a.share \in 0..100 /\ a.dependents \in Nat
         /\ a.findings \in Findings /\ a.upgrade \in AnyLevel
         /\ Len(a.findings) \in Nat /\ Rank(a.severity) \in 0..4
<1>1. /\ a.severity \in AnyLevel /\ a.confidence \in Confidence
      /\ a.replicas \in Nat /\ a.share \in Percent /\ a.dependents \in Nat
      /\ a.findings \in Findings /\ a.upgrade \in AnyLevel
  BY DEF Assessments
<1>2. Len(a.findings) \in Nat
  BY <1>1, LenProperties DEF Findings
<1>3. a.confidence \in 100..1000 /\ a.confidence \in Nat
  <2>1. a.confidence \in 100..1000
    BY <1>1, Zenon DEF Confidence
  <2>2. \A k \in 100..1000 : k \in Nat
    OBVIOUS
  <2> QED
    BY <2>1, <2>2, SMTT(30)
<1>5. a.share \in 0..100
  BY <1>1 DEF Percent
<1>4. Rank(a.severity) \in 0..4
  BY Ranks, Zenon
<1> QED
  BY <1>1, <1>2, <1>3, <1>4, <1>5

(* One field of an estimate changes.                                       *)
LEMMA SetSeverity ==
  ASSUME NEW a \in Assessments, NEW x \in AnyLevel, NEW b, b = [a EXCEPT !.severity = x]
  PROVE  /\ b \in Assessments /\ b.severity = x
         /\ b.findings = a.findings /\ b.confidence = a.confidence /\ b.upgrade = a.upgrade
<1>1. b \in Assessments
  BY DEF Assessments
<1> QED
  BY <1>1 DEF Assessments

LEMMA SetConfidence ==
  ASSUME NEW a \in Assessments, NEW x \in Confidence, NEW b, b = [a EXCEPT !.confidence = x]
  PROVE  /\ b \in Assessments /\ b.confidence = x
         /\ b.findings = a.findings /\ b.severity = a.severity /\ b.upgrade = a.upgrade
<1>1. b \in Assessments
  BY DEF Assessments
<1> QED
  BY <1>1 DEF Assessments

LEMMA SetFindings ==
  ASSUME NEW a \in Assessments, NEW x \in Findings, NEW b, b = [a EXCEPT !.findings = x]
  PROVE  /\ b \in Assessments /\ b.findings = x
         /\ b.severity = a.severity /\ b.confidence = a.confidence /\ b.upgrade = a.upgrade
<1>1. b \in Assessments
  BY DEF Assessments
<1> QED
  BY <1>1 DEF Assessments

LEMMA SetShare ==
  ASSUME NEW a \in Assessments, NEW x \in Percent, NEW b, b = [a EXCEPT !.share = x]
  PROVE  /\ b \in Assessments /\ b.severity = a.severity
         /\ b.findings = a.findings /\ b.confidence = a.confidence /\ b.upgrade = a.upgrade
<1>1. b \in Assessments
  BY DEF Assessments
<1> QED
  BY <1>1 DEF Assessments

LEMMA SetReplicas ==
  ASSUME NEW a \in Assessments, NEW x \in Nat, NEW b, b = [a EXCEPT !.replicas = x]
  PROVE  /\ b \in Assessments /\ b.severity = a.severity
         /\ b.findings = a.findings /\ b.confidence = a.confidence /\ b.upgrade = a.upgrade
<1>1. b \in Assessments
  BY DEF Assessments
<1> QED
  BY <1>1 DEF Assessments

LEMMA SetDependents ==
  ASSUME NEW a \in Assessments, NEW x \in Nat, NEW b, b = [a EXCEPT !.dependents = x]
  PROVE  /\ b \in Assessments /\ b.severity = a.severity
         /\ b.findings = a.findings /\ b.confidence = a.confidence /\ b.upgrade = a.upgrade
<1>1. b \in Assessments
  BY DEF Assessments
<1> QED
  BY <1>1 DEF Assessments

LEMMA SetUpgrade ==
  ASSUME NEW a \in Assessments, NEW x \in AnyLevel, NEW b, b = [a EXCEPT !.upgrade = x]
  PROVE  /\ b \in Assessments /\ b.severity = a.severity /\ b.upgrade = x
         /\ b.findings = a.findings /\ b.confidence = a.confidence
<1>1. b \in Assessments
  BY DEF Assessments
<1> QED
  BY <1>1 DEF Assessments

LEMMA GrowsOn ==
  ASSUME NEW a \in Assessments, NEW b, NEW c, Grows(a, b), Grows(b, c)
  PROVE  Grows(a, c)
<1>1. b \in Assessments /\ c \in Assessments
  BY DEF Grows
<1>2. c.confidence <= a.confidence /\ Rank(a.severity) <= Rank(c.severity)
  <2>1. /\ b.confidence <= a.confidence /\ Rank(a.severity) <= Rank(b.severity)
        /\ c.confidence <= b.confidence /\ Rank(b.severity) <= Rank(c.severity)
    BY DEF Grows
  <2>2. /\ a.confidence \in Nat /\ b.confidence \in Nat /\ c.confidence \in Nat
        /\ Rank(a.severity) \in 0..4 /\ Rank(b.severity) \in 0..4 /\ Rank(c.severity) \in 0..4
    BY <1>1, Fields
  <2> QED
    BY <2>1, <2>2
<1>3. /\ Len(a.findings) <= Len(c.findings)
      /\ \A k \in 1..Len(a.findings) : c.findings[k] = a.findings[k]
  <2>1. Len(a.findings) \in Nat /\ Len(b.findings) \in Nat /\ Len(c.findings) \in Nat
    BY <1>1, Fields
  <2> QED
    BY <2>1 DEF Grows
<1> QED
  BY <1>1, <1>2, <1>3 DEF Grows

(* A change of the numbers only.                                           *)
LEMMA Measures ==
  ASSUME NEW a \in Assessments, NEW b \in Assessments,
         b.severity = a.severity, b.confidence = a.confidence,
         b.findings = a.findings, b.upgrade = a.upgrade
  PROVE  Grows(a, b)
<1>1. Rank(a.severity) \in 0..4 /\ a.confidence \in Nat /\ Len(a.findings) \in Nat
  BY Fields
<1>2. b.confidence <= a.confidence /\ Rank(a.severity) <= Rank(b.severity)
  BY <1>1
<1>3. Len(a.findings) <= Len(b.findings)
  BY <1>1
<1> QED
  BY <1>2, <1>3 DEF Grows

LEMMA Texts ==
  /\ "no_data" \in Phrases /\ "traffic" \in Phrases /\ "downstream" \in Phrases
  /\ "full outage" \in Phrases /\ "halved" \in Phrases /\ "rolling" \in Phrases
  /\ "offline" \in Phrases /\ "over half" \in Phrases /\ "added" \in Phrases
  /\ "no-op" \in Phrases /\ "previous image" \in Phrases /\ "owner unknown" \in Phrases
  /\ "share of pods" \in Phrases /\ "restart needed" \in Phrases /\ "thresholds" \in Phrases
  /\ "brief downtime" \in Phrases /\ "disk" \in Phrases
BY DEF Phrases

LEMMA Noted ==
  ASSUME NEW a \in Assessments, NEW f \in Phrases
  PROVE  /\ Grows(a, Note(f, a))
         /\ Note(f, a).severity = a.severity /\ Note(f, a).confidence = a.confidence
         /\ Len(Note(f, a).findings) = Len(a.findings) + 1
         /\ Note(f, a).findings[Len(a.findings) + 1] = f
<1> DEFINE s == Append(a.findings, f)
<1>1. /\ s \in Findings /\ Len(s) = Len(a.findings) + 1 /\ Len(a.findings) \in Nat
      /\ s[Len(a.findings) + 1] = f
      /\ \A k \in 1..Len(a.findings) : s[k] = a.findings[k]
  BY Fields, AppendProperties, LenProperties DEF Findings
<1>2. Note(f, a) = [a EXCEPT !.findings = s]
  BY DEF Note
<1> HIDE DEF s
<1>3. /\ Note(f, a) \in Assessments /\ Note(f, a).findings = s
      /\ Note(f, a).severity = a.severity /\ Note(f, a).confidence = a.confidence
      /\ Note(f, a).upgrade = a.upgrade
  BY <1>1, <1>2, SetFindings
<1>4. Rank(a.severity) \in 0..4 /\ a.confidence \in Nat
  BY Fields
<1> QED
  BY <1>1, <1>3, <1>4 DEF Grows

LEMMA Raised ==
  ASSUME NEW a \in Assessments, NEW s \in Levels
  PROVE  /\ Grows(a, AtLeast(s, a)) /\ Rank(AtLeast(s, a).severity) >= Rank(s)
         /\ AtLeast(s, a).findings = a.findings /\ AtLeast(s, a).confidence = a.confidence
<1>1. Rank(a.severity) \in 0..4 /\ Rank(s) \in 0..4
  BY Ranks
<1>2. CASE Rank(s) > Rank(a.severity)
  <2>1. AtLeast(s, a) = [a EXCEPT !.severity = s]
    BY <1>2 DEF AtLeast
  <2>2. AtLeast(s, a) \in Assessments /\ AtLeast(s, a).severity = s
        /\ AtLeast(s, a).findings = a.findings /\ AtLeast(s, a).confidence = a.confidence
        /\ AtLeast(s, a).upgrade = a.upgrade
    <3>1. s \in AnyLevel
      BY Ranks
    <3> QED
      BY <2>1, <3>1, SetSeverity
  <2>3. a.confidence \in Nat /\ Len(a.findings) \in Nat
    BY Fields
  <2> QED
    BY <1>1, <1>2, <2>2, <2>3 DEF Grows
<1>3. CASE ~(Rank(s) > Rank(a.severity))
  BY <1>1, <1>3, Measures DEF AtLeast
<1> QED
  BY <1>2, <1>3

LEMMA Unanswered ==
  ASSUME NEW a \in Assessments
  PROVE  /\ Grows(a, NoDataNoted(a)) /\ NoDataNoted(a).severity = a.severity
         /\ a.confidence < 1000 => NoDataNoted(a).confidence < 500
         /\ Len(NoDataNoted(a).findings) = Len(a.findings) + 1
         /\ NoDataNoted(a).findings[Len(a.findings) + 1] = "no_data"
<1> DEFINE b == Note("no_data", a)
           c == IF b.confidence \div 2 < 100 THEN 100 ELSE b.confidence \div 2
<1>1. /\ b \in Assessments /\ b.severity = a.severity /\ b.confidence = a.confidence
      /\ b.confidence \in 100..1000
      /\ Grows(a, b) /\ Len(b.findings) = Len(a.findings) + 1
      /\ b.findings[Len(a.findings) + 1] = "no_data"
  <2>1. Grows(a, b)
    BY Texts, Noted
  <2>2. b \in Assessments
    BY <2>1 DEF Grows
  <2>3. b.confidence \in 100..1000
    BY <2>2, Fields
  <2> HIDE DEF b
  <2>4. /\ b.severity = a.severity /\ b.confidence = a.confidence
        /\ Len(b.findings) = Len(a.findings) + 1
        /\ b.findings[Len(a.findings) + 1] = "no_data"
    BY Texts, Noted DEF b
  <2> QED
    BY <2>1, <2>2, <2>3, <2>4
<1>2. NoDataNoted(a) = [b EXCEPT !.confidence = c]
  BY DEF NoDataNoted
<1>3. c \in 100..1000 /\ c <= b.confidence /\ (a.confidence < 1000 => c < 500)
  <2>1. b.confidence \in 100..1000 /\ b.confidence = a.confidence
    BY <1>1
  <2>2. PICK n \in 100..1000 : n = b.confidence
    BY <2>1
  <2>3. c = IF n \div 2 < 100 THEN 100 ELSE n \div 2
    BY <2>2
  <2> HIDE DEF b, c
  <2>4. c \in 100..1000 /\ c <= n /\ (n < 1000 => c < 500)
    BY <2>3
  <2> QED
    BY <2>1, <2>2, <2>4
<1> HIDE DEF b, c
<1>4. /\ NoDataNoted(a) \in Assessments /\ NoDataNoted(a).findings = b.findings
      /\ NoDataNoted(a).severity = a.severity /\ NoDataNoted(a).confidence = c
      /\ NoDataNoted(a).upgrade = b.upgrade
  <2>1. b \in Assessments /\ c \in 100..1000
    BY <1>1, <1>3
  <2>2. PICK e \in Assessments, x \in Confidence : e = b /\ x = c
    BY <2>1 DEF Confidence
  <2>3. NoDataNoted(a) = [e EXCEPT !.confidence = x]
    BY <1>2, <2>2
  <2>4. /\ NoDataNoted(a) \in Assessments /\ NoDataNoted(a).findings = e.findings
        /\ NoDataNoted(a).severity = e.severity /\ NoDataNoted(a).confidence = x
        /\ NoDataNoted(a).upgrade = e.upgrade
    BY <2>3, SetConfidence
  <2> QED
    BY <1>1, <2>2, <2>4
<1> QED
  BY <1>1, <1>3, <1>4 DEF Grows

-----------------------------------------------------------------------------
(* The queries, and what is made of their answers.                         *)
LEMMA ShareBound ==
  ASSUME NEW s \in Nat, NEW t \in Nat, t > 0, s <= t
  PROVE  (100 * s) \div t \in 0..100
<1> DEFINE q == (100 * s) \div t
           r == (100 * s) % t
<1>1. q \in Int /\ r \in 0..(t - 1) /\ 100 * s = t * q + r
  OBVIOUS
<1> HIDE DEF q, r
<1>2. q >= 0
  <2>1. ASSUME q <= -1 PROVE FALSE
    <3>1. t * q <= -t
      BY <1>1, <2>1
    <3> QED
      BY <1>1, <3>1
  <2> QED
    BY <1>1, <2>1
<1>3. q <= 100
  <2>1. ASSUME q >= 101 PROVE FALSE
    <3>1. t * q >= t * 101
      BY <1>1, <2>1
    <3> QED
      BY <1>1, <3>1
  <2> QED
    BY <1>1, <2>1
<1> QED
  BY <1>1, <1>2, <1>3 DEF q

LEMMA AnswerFields ==
  ASSUME NEW w \in PrometheusAnswer
  PROVE  /\ w.replicas = NoData \/ w.replicas \in Nat
         /\ w.service = NoData \/ w.service \in Nat
         /\ w.total = NoData \/ w.total \in Nat
         /\ w.owner \in Owners /\ w.dependents \in Nat
         /\ Replicas(w) \in Nat
<1>1. /\ w.replicas \in Measured /\ w.service \in Measured /\ w.total \in Measured
      /\ w.owner \in Owners /\ w.dependents \in Nat
  BY DEF PrometheusAnswer
<1> QED
  BY <1>1 DEF Measured, Replicas

LEMMA AskedReplicas ==
  ASSUME NEW a \in Assessments, NEW w \in PrometheusAnswer
  PROVE  /\ Grows(a, AskReplicas(w, a)) /\ AskReplicas(w, a).severity = a.severity
         /\ w.replicas = NoData =>
              /\ a.confidence < 1000 => AskReplicas(w, a).confidence < 500
              /\ Len(AskReplicas(w, a).findings) = Len(a.findings) + 1
              /\ AskReplicas(w, a).findings[Len(a.findings) + 1] = "no_data"
         /\ w.replicas # NoData => AskReplicas(w, a) = a
BY Unanswered, Measures DEF AskReplicas

LEMMA AskedShare ==
  ASSUME NEW a \in Assessments, NEW w \in PrometheusAnswer
  PROVE  /\ Grows(a, AskShare(w, a)) /\ AskShare(w, a).severity = a.severity
         /\ Len(AskShare(w, a).findings) = Len(a.findings) + 1
         /\ ~ShareKnown(w) =>
              /\ a.confidence < 1000 => AskShare(w, a).confidence < 500
              /\ AskShare(w, a).findings[Len(a.findings) + 1] = "no_data"
<1>1. CASE ~ShareKnown(w)
  BY <1>1, Unanswered DEF AskShare
<1>2. CASE ShareKnown(w)
  <2>1. Share(w) \in Percent
    <3>1. w.service \in Nat /\ w.total \in Nat /\ w.total > 0
      BY <1>2, AnswerFields DEF ShareKnown
    <3>2. CASE w.service > w.total
      BY <3>1, <3>2 DEF Share, Percent
    <3>3. CASE ~(w.service > w.total)
      <4>1. w.service <= w.total
        BY <3>1, <3>3
      <4> QED
        BY <3>1, <3>3, <4>1, ShareBound DEF Share, Percent
    <3> QED
      BY <3>2, <3>3
  <2> DEFINE b == [a EXCEPT !.share = Share(w)]
  <2>2. /\ b \in Assessments /\ b.severity = a.severity /\ b.confidence = a.confidence
        /\ b.findings = a.findings /\ b.upgrade = a.upgrade
    BY <2>1, SetShare
  <2>3. AskShare(w, a) = Note("traffic", b)
    BY <1>2 DEF AskShare
  <2> HIDE DEF b
  <2>4. Grows(a, b)
    BY <2>2, Measures
  <2>5. /\ Grows(b, Note("traffic", b)) /\ Note("traffic", b).severity = b.severity
        /\ Len(Note("traffic", b).findings) = Len(b.findings) + 1
    BY <2>2, Texts, Noted
  <2> QED
    BY <1>2, <2>2, <2>3, <2>4, <2>5, GrowsOn
<1> QED
  BY <1>1, <1>2

LEMMA Weighing ==
  ASSUME NEW a \in Assessments, NEW n \in Nat, NEW w
  PROVE  /\ Grows(a, Weighed(n, w, a)) /\ Rank(Weighed(n, w, a).severity) >= 1
         /\ Weighed(n, w, a).findings = a.findings
<1>1. PICK s \in Levels : Weighed(n, w, a) = AtLeast(s, a)
  <2> DEFINE s == CASE a.share >= CriticalShare -> "critical"
                    [] a.share >= HighShare /\ a.share < CriticalShare -> "high"
                    [] Busy(w) /\ a.share < HighShare /\ a.share < CriticalShare -> "medium"
                    [] OTHER -> IF n = 1 THEN "medium" ELSE "low"
  <2>1. s \in {"critical", "high", "medium", "low"}
    OBVIOUS
  <2>2. Weighed(n, w, a) = AtLeast(s, a)
    BY DEF Weighed
  <2> HIDE DEF s
  <2>3. s \in Levels
    BY <2>1 DEF Levels
  <2> QED
    BY <2>2, <2>3
<1>2. Rank(s) >= 1 /\ Rank(AtLeast(s, a).severity) \in 0..4 /\ Rank(s) \in 0..4
  BY Ranks DEF Levels
<1> QED
  BY <1>1, <1>2, Raised

LEMMA Downstream ==
  ASSUME NEW a \in Assessments, NEW w \in PrometheusAnswer
  PROVE  Grows(a, WithDependents(w, a))
<1>1. CASE w.dependents = 0
  BY <1>1, Measures DEF WithDependents
<1>2. CASE w.dependents # 0
  <2> DEFINE b == [a EXCEPT !.dependents = w.dependents]
  <2>1. /\ b \in Assessments /\ b.severity = a.severity /\ b.confidence = a.confidence
        /\ b.findings = a.findings /\ b.upgrade = a.upgrade
    BY AnswerFields, SetDependents
  <2>2. WithDependents(w, a) = Note("downstream", b)
    BY <1>2 DEF WithDependents
  <2> HIDE DEF b
  <2>3. Grows(a, b)
    BY <2>1, Measures
  <2>4. Grows(b, Note("downstream", b))
    BY <2>1, Texts, Noted
  <2> QED
    BY <2>2, <2>3, <2>4, GrowsOn
<1> QED
  BY <1>1, <1>2

-----------------------------------------------------------------------------
(* What is so of every estimate, when an answer was missing and when the   *)
(* command takes something down.                                           *)
Says(e, f) == \E k \in 1..2 : k <= Len(e.findings) /\ e.findings[k] = f

Sound(e, lacks, down) ==
  /\ e \in Assessments /\ e.severity \in Levels /\ e.upgrade = NoLevel
  /\ Len(e.findings) = 0 => e.severity = "medium"
  /\ lacks => e.confidence < 500 /\ Says(e, "no_data")
  /\ down => e.severity = "critical" /\ Says(e, "offline")

LEMMA SaidStays ==
  ASSUME NEW a \in Assessments, NEW b, Grows(a, b), NEW f, Says(a, f)
  PROVE  Says(b, f)
<1>1. Len(a.findings) \in Nat /\ Len(b.findings) \in Nat
  BY Fields DEF Grows
<1>2. PICK k \in 1..2 : k <= Len(a.findings) /\ a.findings[k] = f
  BY DEF Says
<1>3. k <= Len(b.findings) /\ b.findings[k] = f
  BY <1>1, <1>2 DEF Grows
<1> QED
  BY <1>3 DEF Says

LEMMA DoubtStays ==
  ASSUME NEW a \in Assessments, NEW b, Grows(a, b), a.confidence < 500
  PROVE  b.confidence < 500
<1>1. a.confidence \in Nat /\ b.confidence \in Nat
  BY Fields DEF Grows
<1> QED
  BY <1>1 DEF Grows

LEMMA Blanks ==
  ASSUME NEW c \in Confidence, NEW s \in AnyLevel
  PROVE  /\ Blank(c, s) \in Assessments /\ Blank(c, s).severity = s /\ Blank(c, s).confidence = c
         /\ Blank(c, s).upgrade = NoLevel /\ Len(Blank(c, s).findings) = 0
<1>1. <<>> \in Findings /\ Len(<<>>) = 0
  BY EmptySeq DEF Findings
<1>2. NoLevel \in AnyLevel /\ 0 \in Percent /\ 0 \in Nat
  BY DEF AnyLevel, Percent
<1> DEFINE b == Blank(c, s)
<1>3. /\ b = [severity |-> s, confidence |-> c, replicas |-> 0, share |-> 0,
               dependents |-> 0, findings |-> <<>>, upgrade |-> NoLevel]
  BY Zenon DEF Blank, NoLevel
<1> HIDE DEF b
<1>4. b.severity = s /\ b.confidence = c /\ b.upgrade = NoLevel /\ b.findings = <<>>
  BY <1>3
<1>5. b \in Assessments
  BY <1>1, <1>2, <1>3 DEF Assessments
<1> QED
  BY <1>1, <1>4, <1>5 DEF b

LEMMA Severe ==
  ASSUME NEW a \in Assessments, NEW b, Grows(a, b), Rank(a.severity) >= 1
  PROVE  b.severity \in Levels
<1>1. Rank(a.severity) \in 0..4 /\ Rank(b.severity) \in 0..4 /\ b.severity \in AnyLevel
  BY Fields DEF Grows
<1>2. Rank(b.severity) > 0
  BY <1>1 DEF Grows
<1> QED
  BY <1>1, <1>2, Ranks

(* Before it is weighed.  What the share lacks stands within the first two *)
(* findings when at most one was made before.                              *)
Honest(e, lacks) ==
  /\ e \in Assessments /\ e.upgrade = NoLevel /\ Len(e.findings) # 0
  /\ lacks => e.confidence < 500 /\ Says(e, "no_data")

LEMMA AskedHonest ==
  ASSUME NEW a \in Assessments, NEW w \in PrometheusAnswer,
         a.upgrade = NoLevel, a.confidence < 1000,
         w.replicas # NoData => Len(a.findings) <= 1,
         w.replicas = NoData => a.confidence < 500 /\ Says(a, "no_data")
  PROVE  /\ Grows(a, AskShare(w, a)) /\ Len(AskShare(w, a).findings) = Len(a.findings) + 1
         /\ Honest(AskShare(w, a), w.replicas = NoData \/ ~ShareKnown(w))
<1> DEFINE b == AskShare(w, a)
<1>1. /\ Grows(a, b) /\ Len(b.findings) = Len(a.findings) + 1
      /\ ~ShareKnown(w) => /\ b.confidence < 500
                            /\ b.findings[Len(a.findings) + 1] = "no_data"
  <2>1. /\ Grows(a, b) /\ Len(b.findings) = Len(a.findings) + 1
        /\ ~ShareKnown(w) => /\ a.confidence < 1000 => b.confidence < 500
                              /\ b.findings[Len(a.findings) + 1] = "no_data"
    BY AskedShare
  <2> HIDE DEF b
  <2> QED
    BY <2>1
<1> HIDE DEF b
<1>2. b \in Assessments /\ b.upgrade = NoLevel /\ Len(a.findings) \in Nat
  BY <1>1, Fields DEF Grows
<1>3. w.replicas # NoData /\ ~ShareKnown(w) => Says(b, "no_data")
  <2> SUFFICES ASSUME w.replicas # NoData, ~ShareKnown(w) PROVE Says(b, "no_data")
    OBVIOUS
  <2>1. Len(a.findings) + 1 \in 1..2 /\ Len(a.findings) + 1 <= Len(b.findings)
    BY <1>1, <1>2
  <2>2. PICK k \in 1..2 : k = Len(a.findings) + 1
    BY <2>1
  <2> QED
    BY <1>1, <2>1, <2>2 DEF Says
<1>4. Len(b.findings) # 0
  BY <1>1, <1>2
<1>5. w.replicas = NoData => b.confidence < 500 /\ Says(b, "no_data")
  BY <1>1, DoubtStays, SaidStays
<1>6. Honest(b, w.replicas = NoData \/ ~ShareKnown(w))
  BY <1>1, <1>2, <1>3, <1>4, <1>5 DEF Honest
<1> QED
  BY <1>1, <1>6 DEF b

LEMMA HonestStays ==
  ASSUME NEW a \in Assessments, NEW b, NEW lacks, Honest(a, lacks), Grows(a, b)
  PROVE  Honest(b, lacks)
<1>1. b \in Assessments /\ b.upgrade = NoLevel
  BY DEF Grows, Honest
<1>2. Len(b.findings) # 0
  <2>1. Len(a.findings) \in Nat /\ Len(b.findings) \in Nat
    BY <1>1, Fields
  <2> QED
    BY <2>1 DEF Grows, Honest
<1>3. lacks => b.confidence < 500 /\ Says(b, "no_data")
  BY DoubtStays, SaidStays DEF Honest
<1> QED
  BY <1>1, <1>2, <1>3 DEF Honest

LEMMA HonestWeighed ==
  ASSUME NEW a \in Assessments, NEW lacks, Honest(a, lacks), NEW n \in Nat, NEW w
  PROVE  /\ Grows(a, Weighed(n, w, a)) /\ Weighed(n, w, a) \in Assessments
         /\ Len(Weighed(n, w, a).findings) # 0 /\ Sound(Weighed(n, w, a), lacks, FALSE)
<1> DEFINE c == Weighed(n, w, a)
<1>1. Grows(a, c) /\ Rank(c.severity) >= 1
  BY Weighing
<1> HIDE DEF c
<1>2. Honest(c, lacks)
  BY <1>1, HonestStays
<1>3. c \in Assessments
  BY <1>2 DEF Honest
<1>4. c.severity \in Levels
  <2>1. c.severity \in AnyLevel /\ Rank(c.severity) \in 0..4
    BY <1>3, Fields
  <2>2. Rank(c.severity) > 0
    BY <1>1, <2>1
  <2> QED
    BY <2>1, <2>2, Ranks
<1>5. Sound(c, lacks, FALSE) /\ Len(c.findings) # 0
  BY <1>2, <1>4 DEF Honest, Sound
<1> QED
  BY <1>1, <1>3, <1>5 DEF c

LEMMA DownStays ==
  ASSUME NEW a \in Assessments, NEW b, Grows(a, b), Rank(a.severity) = 4, Says(a, "offline")
  PROVE  b.severity = "critical" /\ Says(b, "offline")
<1>1. b \in Assessments
  BY DEF Grows
<1>2. Rank(b.severity) \in 0..4 /\ b.severity \in AnyLevel
  BY <1>1, Fields
<1>3. Rank(b.severity) = 4
  BY <1>2 DEF Grows
<1> QED
  BY <1>2, <1>3, Ranks, SaidStays

LEMMA SoundStays ==
  ASSUME NEW a \in Assessments, NEW b, NEW lacks, NEW down,
         Grows(a, b), Sound(a, lacks, down), Len(a.findings) # 0
  PROVE  Sound(b, lacks, down)
<1>1. b \in Assessments /\ b.upgrade = NoLevel
  BY DEF Grows, Sound
<1>2. Rank(a.severity) >= 1
  BY Ranks DEF Sound
<1>3. b.severity \in Levels
  BY <1>2, Severe
<1>4. Len(b.findings) # 0
  <2>1. Len(a.findings) \in Nat /\ Len(b.findings) \in Nat
    BY <1>1, Fields
  <2> QED
    BY <2>1 DEF Grows
<1>5. lacks => b.confidence < 500 /\ Says(b, "no_data")
  BY DoubtStays, SaidStays DEF Sound
<1>6. down => b.severity = "critical" /\ Says(b, "offline")
  <2>1. down => Rank(a.severity) = 4 /\ Says(a, "offline")
    BY Ranks DEF Sound
  <2> QED
    BY <2>1, DownStays
<1> QED
  BY <1>1, <1>3, <1>4, <1>5, <1>6 DEF Sound

-----------------------------------------------------------------------------
(* The estimate of each kind of command.                                   *)
LEMMA Started ==
  ASSUME NEW n \in Confidence, n < 1000, NEW w \in PrometheusAnswer,
         NEW a, a = AskReplicas(w, Blank(n, NoLevel))
  PROVE  /\ a \in Assessments /\ a.upgrade = NoLevel /\ a.confidence < 1000
         /\ Len(a.findings) \in Nat /\ Len(a.findings) <= 1
         /\ w.replicas = NoData => /\ Len(a.findings) = 1 /\ a.confidence < 500
                                    /\ Says(a, "no_data")
         /\ w.replicas # NoData => Len(a.findings) = 0
<1> DEFINE b == Blank(n, NoLevel)
<1>1. a = AskReplicas(w, b)
  OBVIOUS
<1>2. NoLevel \in AnyLevel
  BY DEF AnyLevel
<1>3. /\ b \in Assessments /\ b.confidence = n /\ b.upgrade = NoLevel /\ Len(b.findings) = 0
  BY <1>2, Blanks
<1> HIDE DEF b
<1>4. /\ Grows(b, a)
      /\ w.replicas = NoData => /\ a.confidence < 500 /\ Len(a.findings) = 1
                                 /\ a.findings[1] = "no_data"
      /\ w.replicas # NoData => a = b
  <2>1. CASE w.replicas # NoData
    <3>1. a = b
      BY <1>1, <2>1 DEF AskReplicas
    <3> QED
      BY <1>3, <2>1, <3>1, Measures
  <2>2. CASE w.replicas = NoData
    <3>1. a = NoDataNoted(b)
      BY <1>1, <2>2 DEF AskReplicas
    <3>2. /\ Grows(b, a) /\ a.confidence < 500 /\ Len(a.findings) = Len(b.findings) + 1
          /\ a.findings[Len(b.findings) + 1] = "no_data"
      <4>1. b.confidence < 1000
        BY <1>3
      <4>2. /\ Grows(b, NoDataNoted(b)) /\ NoDataNoted(b).confidence < 500
            /\ Len(NoDataNoted(b).findings) = Len(b.findings) + 1
            /\ NoDataNoted(b).findings[Len(b.findings) + 1] = "no_data"
        <5>1. b \in Assessments
          BY <1>3
        <5> QED
          BY <4>1, <5>1, Unanswered
      <4> QED
        BY <3>1, <4>2
    <3> QED
      BY <1>3, <2>2, <3>2
  <2> QED
    BY <2>1, <2>2
<1>5. a \in Assessments /\ a.upgrade = NoLevel /\ a.confidence < 1000
  <2>1. a \in Assessments /\ a.upgrade = NoLevel /\ a.confidence <= b.confidence
    BY <1>3, <1>4 DEF Grows
  <2>2. a.confidence \in Nat /\ n \in Nat
    BY <2>1, Fields DEF Confidence
  <2> QED
    BY <1>3, <2>1, <2>2
<1>6. w.replicas = NoData => Says(a, "no_data")
  BY <1>4 DEF Says
<1>7. w.replicas # NoData => Len(a.findings) = 0
  BY <1>3, <1>4
<1> QED
  <2>1. Len(a.findings) \in Nat /\ (Len(a.findings) = 0 \/ Len(a.findings) = 1)
    BY <1>4, <1>5, <1>7, Fields
  <2>2. \A m \in Nat : m = 0 \/ m = 1 => m <= 1
    OBVIOUS
  <2>3. Len(a.findings) <= 1
    BY <2>1, <2>2, Zenon
  <2>4. w.replicas = NoData => Len(a.findings) = 1 /\ a.confidence < 500
    BY <1>4, Zenon
  <2> QED
    BY <1>5, <1>6, <1>7, <2>1, <2>3, <2>4, Zenon

LEMMA RestartSound ==
  ASSUME NEW w \in PrometheusAnswer
  PROVE  Sound(Restart(w), w.replicas = NoData \/ ~ShareKnown(w), FALSE)
<1> DEFINE n == Replicas(w)
           r == AskReplicas(w, Blank(800, NoLevel))
           asked == [r EXCEPT !.replicas = n]
           scaled == IF n = 0 THEN asked
                   ELSE Note(IF n = 1 THEN "full outage" ELSE IF n = 2 THEN "halved" ELSE "rolling",
                             asked)
           shared == AskShare(w, scaled)
           weighed == Weighed(n, w, shared)
           lacks == w.replicas = NoData \/ ~ShareKnown(w)
<1>1. Restart(w) = WithDependents(w, weighed)
  BY Zenon DEF Restart, NoLevel
<1>2. /\ r \in Assessments /\ r.upgrade = NoLevel /\ r.confidence < 1000
      /\ w.replicas = NoData => /\ Len(r.findings) = 1 /\ r.confidence < 500
                                 /\ Says(r, "no_data")
      /\ w.replicas # NoData => Len(r.findings) = 0
  <2>1. 800 \in Confidence
    BY DEF Confidence
  <2> QED
    BY <2>1, Started
<1> HIDE DEF r
<1>3. n \in Nat /\ (w.replicas = NoData => n = 0)
  BY AnswerFields DEF Replicas
<1> HIDE DEF n
<1>4. /\ asked \in Assessments /\ asked.confidence = r.confidence
      /\ asked.findings = r.findings /\ asked.upgrade = r.upgrade /\ Grows(r, asked)
  BY <1>2, <1>3, SetReplicas, Measures
<1> HIDE DEF asked
<1>5. /\ Grows(asked, scaled)
      /\ n = 0 => scaled = asked
      /\ n # 0 => Len(scaled.findings) = Len(asked.findings) + 1
      /\ scaled.confidence = asked.confidence
  <2>1. CASE n = 0
    BY <1>4, <2>1, Measures
  <2>2. CASE n # 0
    <3>1. PICK f \in Phrases : scaled = Note(f, asked)
      BY <2>2, Texts
    <3> HIDE DEF scaled
    <3>2. Grows(asked, scaled) /\ scaled.confidence = asked.confidence
      BY <1>4, <3>1, Noted
    <3>3. Len(scaled.findings) = Len(asked.findings) + 1
      BY <1>4, <3>1, Noted
    <3> QED
      BY <2>2, <3>2, <3>3
  <2> QED
    BY <2>1, <2>2
<1> HIDE DEF scaled
<1>6. scaled \in Assessments /\ scaled.upgrade = NoLevel
  BY <1>2, <1>4, <1>5 DEF Grows
<1>7. Len(scaled.findings) <= 1
  <2>1. CASE w.replicas = NoData
    <3>1. Len(r.findings) = 1 /\ scaled = asked
      BY <1>2, <1>3, <1>5, <2>1
    <3>2. Len(scaled.findings) = 1 /\ Len(scaled.findings) \in Nat
      BY <1>4, <1>6, <3>1, Fields
    <3> QED
      BY <3>2
  <2>2. CASE w.replicas # NoData
    <3>1. Len(asked.findings) = 0
      BY <1>2, <1>4, <2>2
    <3>2. Len(scaled.findings) \in Nat
      BY <1>6, Fields
    <3>3. Len(scaled.findings) = Len(asked.findings) + 1 \/ Len(scaled.findings) = Len(asked.findings)
      BY <1>5
    <3>4. Len(asked.findings) \in Nat
      BY <1>4, Fields
    <3>5. \A m, k \in Nat : m = 0 /\ (k = m + 1 \/ k = m) => k <= 1
      OBVIOUS
    <3> QED
      BY <3>1, <3>2, <3>3, <3>4, <3>5
  <2> QED
    BY <2>1, <2>2
<1>8. w.replicas = NoData => scaled.confidence < 500 /\ Says(scaled, "no_data")
  BY <1>2, <1>3, <1>4, <1>5 DEF Says
<1>9. Honest(shared, lacks)
  BY <1>2, <1>4, <1>5, <1>6, <1>7, <1>8, AskedHonest
<1> HIDE DEF shared, lacks
<1>10. Sound(weighed, lacks, FALSE) /\ weighed \in Assessments /\ Len(weighed.findings) # 0
  BY <1>3, <1>9, HonestWeighed DEF Honest
<1> HIDE DEF weighed
<1>11. Sound(WithDependents(w, weighed), lacks, FALSE)
  BY <1>10, Downstream, SoundStays
<1> QED
  BY <1>1, <1>11 DEF lacks

LEMMA ScaleSound ==
  ASSUME NEW w \in PrometheusAnswer, NEW target \in Nat
  PROVE  Sound(Scale(target, w), w.replicas = NoData \/ ~ShareKnown(w),
               target = 0 /\ w.replicas > 0)
<1> DEFINE n == Replicas(w)
           r == AskReplicas(w, Blank(850, NoLevel))
           shared == AskShare(w, r)
           asked == [shared EXCEPT !.replicas = IF n > target THEN n - target ELSE target - n]
           scaled == IF n > 0 /\ target = 0 THEN Note("offline", AtLeast("critical", asked))
                   ELSE IF target < n /\ 2 * (n - target) > n
                        THEN Note("over half", AtLeast("high", asked))
                   ELSE IF n > 0 /\ target > n THEN Note("added", asked)
                   ELSE IF n = target THEN Note("no-op", asked)
                   ELSE asked
           weighed == Weighed(n, w, scaled)
           lacks == w.replicas = NoData \/ ~ShareKnown(w)
           down == target = 0 /\ w.replicas > 0
<1>1. Scale(target, w) = WithDependents(w, weighed)
  BY Zenon DEF Scale, NoLevel
<1>2. /\ r \in Assessments /\ r.upgrade = NoLevel /\ r.confidence < 1000
      /\ Len(r.findings) <= 1
      /\ w.replicas = NoData => r.confidence < 500 /\ Says(r, "no_data")
      /\ w.replicas # NoData => Len(r.findings) = 0
  <2>1. 850 \in Confidence /\ 850 < 1000
    BY DEF Confidence
  <2> QED
    BY <2>1, Started
<1> HIDE DEF r
<1>3. n \in Nat /\ (w.replicas > 0 => n > 0 /\ w.replicas # NoData)
  BY AnswerFields DEF Replicas, NoData
<1> HIDE DEF n
<1>4. Honest(shared, lacks) /\ Len(shared.findings) = Len(r.findings) + 1
  BY <1>2, AskedHonest
<1> HIDE DEF shared, lacks
<1>5. /\ asked \in Assessments /\ asked.findings = shared.findings /\ Grows(shared, asked)
  <2>1. (IF n > target THEN n - target ELSE target - n) \in Nat
    BY <1>3
  <2> QED
    BY <1>4, <2>1, SetReplicas, Measures DEF Honest
<1> HIDE DEF asked
<1>6. Grows(asked, scaled)
  <2>1. \A e \in Assessments : \A f \in Phrases : Grows(e, Note(f, e))
    BY Noted
  <2>2. /\ Grows(asked, AtLeast("critical", asked)) /\ Grows(asked, AtLeast("high", asked))
        /\ AtLeast("critical", asked) \in Assessments /\ AtLeast("high", asked) \in Assessments
    BY <1>5, Raised DEF Levels, Grows
  <2>3. /\ Grows(asked, Note("offline", AtLeast("critical", asked)))
        /\ Grows(asked, Note("over half", AtLeast("high", asked)))
    BY <1>5, <2>1, <2>2, Texts, GrowsOn
  <2>4. Grows(asked, Note("added", asked)) /\ Grows(asked, Note("no-op", asked))
    BY <1>5, <2>1, Texts
  <2>5. Grows(asked, asked)
    BY <1>5, Measures
  <2> QED
    BY <2>3, <2>4, <2>5, Zenon
<1>7. down => Rank(scaled.severity) = 4 /\ Says(scaled, "offline")
  <2> SUFFICES ASSUME down PROVE Rank(scaled.severity) = 4 /\ Says(scaled, "offline")
    OBVIOUS
  <2> DEFINE e == AtLeast("critical", asked)
  <2>1. scaled = Note("offline", e)
    BY <1>3
  <2>2. e \in Assessments /\ Rank(e.severity) >= 4 /\ e.findings = asked.findings
    BY <1>5, Raised, Ranks DEF Levels, Grows
  <2> HIDE DEF e, scaled
  <2>3. /\ scaled.severity = e.severity /\ Len(scaled.findings) = Len(e.findings) + 1
        /\ scaled.findings[Len(e.findings) + 1] = "offline"
    BY <2>1, <2>2, Texts, Noted
  <2>4. Rank(scaled.severity) = 4
    <3>1. Rank(e.severity) \in 0..4
      BY Ranks
    <3> QED
      BY <2>2, <2>3, <3>1
  <2>5. Len(e.findings) = 1
    <3>1. Len(r.findings) = 0 /\ Len(r.findings) \in Nat
      BY <1>2, <1>3, Fields
    <3> QED
      BY <1>4, <1>5, <2>2, <3>1
  <2>6. Len(scaled.findings) = 2 /\ scaled.findings[2] = "offline"
    BY <2>3, <2>5
  <2> QED
    BY <2>4, <2>6 DEF Says
<1> HIDE DEF scaled, down
<1>8. scaled \in Assessments /\ Honest(scaled, lacks)
  BY <1>4, <1>5, <1>6, HonestStays DEF Honest
<1>9. /\ Grows(scaled, weighed) /\ weighed \in Assessments
      /\ Len(weighed.findings) # 0 /\ Sound(weighed, lacks, FALSE)
  BY <1>3, <1>8, HonestWeighed
<1> HIDE DEF weighed
<1>10. Sound(weighed, lacks, down)
  BY <1>7, <1>8, <1>9, DownStays DEF Sound
<1>11. Sound(WithDependents(w, weighed), lacks, down)
  BY <1>9, <1>10, Downstream, SoundStays
<1> QED
  BY <1>1, <1>11 DEF lacks, down

LEMMA UndoSound ==
  ASSUME NEW w \in PrometheusAnswer
  PROVE  Sound(Undo(w), w.replicas = NoData \/ ~ShareKnown(w), FALSE)
<1> DEFINE n == Replicas(w)
           r == AskReplicas(w, Blank(700, NoLevel))
           counted == [r EXCEPT !.replicas = n]
           asked == Note("previous image", counted)
           shared == AskShare(w, asked)
           weighed == Weighed(n, w, shared)
           raised == AtLeast("medium", weighed)
           lacks == w.replicas = NoData \/ ~ShareKnown(w)
<1>1. Undo(w) = WithDependents(w, raised)
  BY Zenon DEF Undo, NoLevel
<1>2. /\ r \in Assessments /\ r.upgrade = NoLevel /\ r.confidence < 1000
      /\ w.replicas = NoData => r.confidence < 500 /\ Says(r, "no_data")
      /\ w.replicas # NoData => Len(r.findings) = 0
  <2>1. 700 \in Confidence /\ 700 < 1000
    BY DEF Confidence
  <2> QED
    BY <2>1, Started
<1> HIDE DEF r
<1>3. n \in Nat
  BY AnswerFields
<1> HIDE DEF n
<1>4. /\ counted \in Assessments /\ counted.confidence = r.confidence
      /\ counted.findings = r.findings /\ counted.upgrade = r.upgrade /\ Grows(r, counted)
  BY <1>2, <1>3, SetReplicas, Measures
<1> HIDE DEF counted
<1>5. /\ Grows(counted, asked) /\ asked.confidence = counted.confidence
      /\ Len(asked.findings) = Len(counted.findings) + 1
  BY <1>4, Texts, Noted
<1> HIDE DEF asked
<1>6. asked \in Assessments /\ asked.upgrade = NoLevel /\ asked.confidence < 1000
  BY <1>2, <1>4, <1>5 DEF Grows
<1>7. w.replicas # NoData => Len(asked.findings) <= 1
  <2>1. Len(counted.findings) \in Nat
    BY <1>4, Fields
  <2> QED
    BY <1>2, <1>4, <1>5, <2>1
<1>8. w.replicas = NoData => asked.confidence < 500 /\ Says(asked, "no_data")
  <2>1. w.replicas = NoData => Says(counted, "no_data")
    BY <1>2, <1>4, SaidStays
  <2> QED
    BY <1>2, <1>4, <1>5, <2>1, SaidStays
<1>9. Honest(shared, lacks)
  BY <1>6, <1>7, <1>8, AskedHonest
<1> HIDE DEF shared, lacks
<1>10. Sound(weighed, lacks, FALSE) /\ weighed \in Assessments /\ Len(weighed.findings) # 0
  BY <1>3, <1>9, HonestWeighed DEF Honest
<1> HIDE DEF weighed
<1>11. Sound(raised, lacks, FALSE) /\ raised \in Assessments /\ Len(raised.findings) # 0
  <2>1. Grows(weighed, raised) /\ raised.findings = weighed.findings
    BY <1>10, Raised DEF Levels
  <2> HIDE DEF raised
  <2>2. Sound(raised, lacks, FALSE)
    BY <1>10, <2>1, SoundStays
  <2> QED
    BY <1>10, <2>1, <2>2 DEF Sound
<1> HIDE DEF raised
<1>12. Sound(WithDependents(w, raised), lacks, FALSE)
  BY <1>11, Downstream, SoundStays
<1> QED
  BY <1>1, <1>12 DEF lacks

LEMMA DeletePodSound ==
  ASSUME NEW w \in PrometheusAnswer
  PROVE  Sound(DeletePod(w), w.owner = "failed" \/ (w.owner = "found" /\ w.replicas = NoData), FALSE)
<1> DEFINE n == Replicas(w)
           blank == Blank(600, "medium")
           start == [blank EXCEPT !.replicas = 1]
           asked == AskReplicas(w, start)
           lacks == w.owner = "failed" \/ (w.owner = "found" /\ w.replicas = NoData)
<1>1. /\ blank \in Assessments /\ blank.severity = "medium" /\ blank.confidence = 600
      /\ blank.upgrade = NoLevel /\ Len(blank.findings) = 0
  <2>1. 600 \in Confidence /\ "medium" \in AnyLevel
    BY DEF Confidence, AnyLevel, Levels
  <2> QED
    BY <2>1, Blanks
<1> HIDE DEF blank
<1>2. /\ start \in Assessments /\ start.severity = "medium" /\ start.confidence = 600
      /\ start.upgrade = NoLevel /\ Len(start.findings) = 0
  <2>1. /\ start \in Assessments /\ start.severity = blank.severity
        /\ start.confidence = blank.confidence /\ start.upgrade = blank.upgrade
        /\ start.findings = blank.findings
    <3>1. PICK one \in Nat : one = 1
      OBVIOUS
    <3>2. start = [blank EXCEPT !.replicas = one]
      BY <3>1
    <3> HIDE DEF start
    <3> QED
      BY <1>1, <3>2, SetReplicas
  <2> HIDE DEF start
  <2> QED
    BY <1>1, <2>1
<1> HIDE DEF start
<1>3. "medium" \in Levels /\ start.confidence < 1000
  BY <1>2 DEF Levels
<1>4. CASE w.owner = "failed"
  <2> DEFINE a == NoDataNoted(start)
  <2>1. DeletePod(w) = Note("owner unknown", a)
    BY <1>4 DEF DeletePod, start, blank
  <2>2. /\ Grows(start, a) /\ a.severity = start.severity /\ a.confidence < 500
        /\ Len(a.findings) = Len(start.findings) + 1
        /\ a.findings[Len(start.findings) + 1] = "no_data"
    <3>1. start \in Assessments
      BY <1>2
    <3> QED
      BY <1>3, <3>1, Unanswered
  <2> HIDE DEF a
  <2>3. a \in Assessments /\ a.upgrade = NoLevel /\ Len(a.findings) = 1 /\ Says(a, "no_data")
    BY <1>2, <2>2 DEF Grows, Says
  <2>4. Sound(a, lacks, FALSE)
    BY <1>2, <1>3, <2>2, <2>3 DEF Sound
  <2> HIDE DEF lacks
  <2>5. Sound(Note("owner unknown", a), lacks, FALSE)
    <3>1. Grows(a, Note("owner unknown", a)) /\ Len(a.findings) # 0
      <4>1. Grows(a, Note("owner unknown", a))
        BY <2>3, Texts, Noted
      <4>2. Len(a.findings) # 0
        BY <2>3
      <4> QED
        BY <4>1, <4>2
    <3> QED
      BY <2>3, <2>4, <3>1, SoundStays
  <2> QED
    BY <2>1, <2>5 DEF lacks
<1>5. CASE w.owner = "found"
  <2>1. /\ Grows(start, asked) /\ asked.severity = start.severity
        /\ w.replicas = NoData => /\ asked.confidence < 500
                                   /\ Len(asked.findings) = Len(start.findings) + 1
                                   /\ asked.findings[Len(start.findings) + 1] = "no_data"
    <3>1. start \in Assessments
      BY <1>2
    <3>2. asked = IF w.replicas = NoData THEN NoDataNoted(start) ELSE start
      BY DEF AskReplicas
    <3> HIDE DEF asked
    <3>3. CASE w.replicas = NoData
      BY <1>3, <3>1, <3>2, <3>3, Unanswered
    <3>4. CASE w.replicas # NoData
      BY <3>1, <3>2, <3>4, Measures
    <3> QED
      BY <3>3, <3>4
  <2> HIDE DEF asked
  <2>2. asked \in Assessments /\ asked.upgrade = NoLevel /\ asked.severity = "medium"
    BY <1>2, <2>1 DEF Grows
  <2>3. w.replicas = NoData => Says(asked, "no_data")
    BY <1>2, <2>1 DEF Says
  <2>4. Sound(asked, lacks, FALSE)
    BY <1>3, <1>5, <2>1, <2>2, <2>3 DEF Sound
  <2>5. CASE n = 0
    <3>1. DeletePod(w) = asked
      BY <1>5, <2>5 DEF DeletePod, asked, start, blank
    <3> QED
      BY <2>4, <3>1
  <2>6. CASE n # 0
    <3> DEFINE a == IF n = 1 THEN AtLeast("high", asked) ELSE asked
    <3>1. DeletePod(w) = Note("share of pods", a)
      BY <1>5, <2>6 DEF DeletePod, asked, start, blank
    <3>2. w.replicas # NoData
      BY <2>6 DEF Replicas
    <3>3. Grows(asked, a) /\ Rank(a.severity) >= 1
      <4>1. Grows(asked, asked) /\ Grows(asked, AtLeast("high", asked))
        BY <2>2, Measures, Raised DEF Levels
      <4>2. Rank(asked.severity) >= 1 /\ Rank(AtLeast("high", asked).severity) >= 1
        <5>1. Rank(AtLeast("high", asked).severity) >= Rank("high")
          BY <2>2, Raised DEF Levels
        <5> QED
          BY <2>2, <5>1, Ranks
      <4> QED
        BY <4>1, <4>2
    <3> HIDE DEF a
    <3>4. a \in Assessments /\ a.upgrade = NoLevel
      BY <2>2, <3>3 DEF Grows
    <3> DEFINE e == Note("share of pods", a)
    <3>5. Grows(a, e) /\ Len(e.findings) = Len(a.findings) + 1 /\ e.severity = a.severity
      BY <3>4, Texts, Noted
    <3> HIDE DEF e
    <3>6. e \in Assessments /\ e.upgrade = NoLevel
      BY <3>4, <3>5 DEF Grows
    <3>7. e.severity \in Levels
      BY <3>3, <3>4, <3>5, Severe
    <3>8. Len(e.findings) # 0
      BY <3>4, <3>5, Fields
    <3>9. ~lacks
      BY <1>5, <3>2
    <3>10. Sound(e, lacks, FALSE)
      BY <3>6, <3>7, <3>8, <3>9 DEF Sound
    <3> QED
      BY <3>1, <3>10 DEF e
  <2> QED
    BY <2>5, <2>6
<1>6. CASE w.owner = "nobody"
  <2> DEFINE a == Note("owner unknown", start)
  <2>1. DeletePod(w) = a
    BY <1>6 DEF DeletePod, start, blank
  <2>2. Grows(start, a) /\ a.severity = start.severity /\ Len(a.findings) = Len(start.findings) + 1
    <3>1. start \in Assessments
      BY <1>2
    <3>2. "owner unknown" \in Phrases
      BY Texts
    <3> QED
      BY <3>1, <3>2, Noted
  <2> HIDE DEF a
  <2>3. ~lacks
    BY <1>6
  <2>4. a \in Assessments /\ a.upgrade = NoLevel /\ a.severity \in Levels /\ Len(a.findings) # 0
    BY <1>2, <1>3, <2>2 DEF Grows
  <2> QED
    BY <2>1, <2>3, <2>4 DEF Sound
<1>7. w.owner \in Owners
  BY AnswerFields
<1> QED
  BY <1>4, <1>5, <1>6, <1>7 DEF Owners

LEMMA FixedSound ==
  ASSUME NEW n \in Confidence, NEW s \in Levels, NEW f \in Phrases
  PROVE  /\ Sound(Fixed(n, s, f), FALSE, FALSE)
         /\ s = "critical" /\ f = "offline" => Sound(OnHost(n, s, f), FALSE, TRUE)
         /\ Sound(OnHost(n, s, f), FALSE, FALSE)
<1> DEFINE a == Blank(n, s)
           b == Note(f, a)
           e == [b EXCEPT !.replicas = 1]
<1>1. a \in Assessments /\ a.severity = s /\ a.upgrade = NoLevel /\ Len(a.findings) = 0
  BY Ranks, Blanks
<1> HIDE DEF a
<1>2. /\ Grows(a, b) /\ b.severity = s /\ Len(b.findings) = 1 /\ b.findings[1] = f
  <2>1. /\ Grows(a, b) /\ b.severity = a.severity /\ Len(b.findings) = Len(a.findings) + 1
        /\ b.findings[Len(a.findings) + 1] = f
    BY <1>1, Noted
  <2> HIDE DEF b
  <2> QED
    BY <1>1, <2>1
<1> HIDE DEF b
<1>3. b \in Assessments /\ b.upgrade = NoLevel /\ Says(b, f)
  BY <1>1, <1>2 DEF Grows, Says
<1>4. Sound(b, FALSE, FALSE) /\ (s = "critical" /\ f = "offline" => Sound(b, FALSE, TRUE))
  BY <1>2, <1>3 DEF Sound
<1>5. Grows(b, e)
  BY <1>3, SetReplicas, Measures
<1> HIDE DEF e
<1>6. Sound(e, FALSE, FALSE) /\ (s = "critical" /\ f = "offline" => Sound(e, FALSE, TRUE))
  <2>1. Len(b.findings) # 0
    BY <1>2
  <2> QED
    BY <1>3, <1>4, <1>5, <2>1, SoundStays
<1>7. Fixed(n, s, f) = b /\ OnHost(n, s, f) = e
  BY DEF Fixed, OnHost, a, b, e
<1> QED
  BY <1>4, <1>6, <1>7

LEMMA SoundLess ==
  ASSUME NEW e, NEW l, NEW d, Sound(e, l, d), NEW lacks, NEW down, lacks => l, down => d
  PROVE  Sound(e, lacks, down)
BY DEF Sound

(* The arms that need no query.                                            *)
LEMMA StopEstimate ==
  ASSUME NEW c, NEW w, c.kind = "systemctl stop" PROVE Estimate(c, w) = OnHost(700, "critical", "offline")
BY ZenonT(60) DEF Estimate

LEMMA RestartEstimate ==
  ASSUME NEW c, NEW w, c.kind = "systemctl restart" PROVE Estimate(c, w) = OnHost(600, "medium", "brief downtime")
BY ZenonT(60) DEF Estimate

LEMMA ConfigMapEstimate ==
  ASSUME NEW c, NEW w, c.kind = "patch configmap" PROVE Estimate(c, w) = Fixed(500, "medium", "restart needed")
BY ZenonT(60) DEF Estimate

LEMMA AutoscalerEstimate ==
  ASSUME NEW c, NEW w, c.kind = "patch hpa" PROVE Estimate(c, w) = Fixed(500, "low", "thresholds")
BY ZenonT(60) DEF Estimate

LEMMA CleanEstimate ==
  ASSUME NEW c, NEW w, c.kind = "find delete" \/ c.kind = "rm log" PROVE Estimate(c, w) = Fixed(500, "low", "disk")
BY ZenonT(60) DEF Estimate

LEMMA OtherEstimate ==
  ASSUME NEW c, NEW w,
         c.kind \notin {"rollout restart", "scale", "rollout undo", "delete pod",
                        "patch configmap", "patch hpa", "systemctl stop", "systemctl restart",
                        "find delete", "rm log"}
  PROVE  Estimate(c, w) = Fixed(300, "medium", "no_data")
BY ZenonT(60) DEF Estimate

LEMMA EstimateSound ==
  ASSUME NEW c \in PlanCommand, NEW w \in PrometheusAnswer
  PROVE  Sound(Estimate(c, w), Lacks(c, w), TakesDown(c, w))
<1> DEFINE e == Estimate(c, w)
           lacks == Lacks(c, w)
           down == TakesDown(c, w)
           unknown == w.replicas = NoData \/ ~ShareKnown(w)
<1>1. c.replicas \in Nat
  BY DEF PlanCommand
<1>2. CASE c.kind = "rollout restart"
  <2>1. e = Restart(w) /\ (lacks => unknown) /\ ~down
    BY <1>2 DEF Estimate, Lacks, TakesDown
  <2> HIDE DEF e, lacks, down
  <2>2. Sound(e, lacks, down)
    BY <2>1, RestartSound, SoundLess
  <2> QED
    BY <2>2 DEF e, lacks, down
<1>3. CASE c.kind = "scale"
  <2>1. /\ e = Scale(c.replicas, w) /\ (lacks => unknown)
        /\ (down => c.replicas = 0 /\ w.replicas > 0)
    BY <1>3 DEF Estimate, Lacks, TakesDown
  <2> HIDE DEF e, lacks, down
  <2>2. Sound(e, lacks, down)
    BY <1>1, <2>1, ScaleSound, SoundLess
  <2> QED
    BY <2>2 DEF e, lacks, down
<1>4. CASE c.kind = "rollout undo"
  <2>1. e = Undo(w) /\ (lacks => unknown) /\ ~down
    BY <1>4 DEF Estimate, Lacks, TakesDown
  <2> HIDE DEF e, lacks, down
  <2>2. Sound(e, lacks, down)
    BY <2>1, UndoSound, SoundLess
  <2> QED
    BY <2>2 DEF e, lacks, down
<1>5. CASE c.kind = "delete pod"
  <2>1. e = DeletePod(w) /\ (lacks => w.owner = "failed" \/ (w.owner = "found" /\ w.replicas = NoData)) /\ ~down
    BY <1>5 DEF Estimate, Lacks, TakesDown
  <2> HIDE DEF e, lacks, down
  <2>2. Sound(e, lacks, down)
    BY <2>1, DeletePodSound, SoundLess
  <2> QED
    BY <2>2 DEF e, lacks, down
<1>6. CASE c.kind \notin {"rollout restart", "scale", "rollout undo", "delete pod"}
  <2>1. ~lacks
    BY <1>6 DEF Lacks
  <2>4. CASE c.kind = "systemctl stop"
    <3>1. e = OnHost(700, "critical", "offline")
      BY <2>4, StopEstimate, Zenon
    <3> HIDE DEF e, lacks, down
    <3>2. PICK n \in Confidence, s \in Levels, t \in Phrases : n = 700 /\ s = "critical" /\ t = "offline"
      BY DEF Confidence, Levels, Phrases
    <3>3. s = "critical" /\ t = "offline" => Sound(OnHost(n, s, t), FALSE, TRUE)
      BY FixedSound
    <3>4. Sound(e, FALSE, TRUE)
      BY <3>1, <3>2, <3>3
    <3>5. Sound(e, lacks, down)
      BY <2>1, <3>4, SoundLess
    <3> QED
      BY <3>5 DEF e, lacks, down
  <2>5. ASSUME c.kind # "systemctl stop" PROVE Sound(e, FALSE, FALSE)
    <3>1. CASE c.kind = "patch configmap"
      <4>1. e = Fixed(500, "medium", "restart needed")
        BY <3>1, ConfigMapEstimate, Zenon
      <4> HIDE DEF e
      <4>2. PICK n \in Confidence, s \in Levels, t \in Phrases : n = 500 /\ s = "medium" /\ t = "restart needed"
        BY DEF Confidence, Levels, Phrases
      <4>3. e = Fixed(n, s, t)
        BY <4>1, <4>2
      <4> QED
        BY <4>3, FixedSound
    <3>2. CASE c.kind = "patch hpa"
      <4>1. e = Fixed(500, "low", "thresholds")
        BY <3>2, AutoscalerEstimate, Zenon
      <4> HIDE DEF e
      <4>2. PICK n \in Confidence, s \in Levels, t \in Phrases : n = 500 /\ s = "low" /\ t = "thresholds"
        BY DEF Confidence, Levels, Phrases
      <4>3. e = Fixed(n, s, t)
        BY <4>1, <4>2
      <4> QED
        BY <4>3, FixedSound
    <3>3. CASE c.kind = "systemctl restart"
      <4>1. e = OnHost(600, "medium", "brief downtime")
        BY <3>3, RestartEstimate, Zenon
      <4> HIDE DEF e
      <4>2. PICK n \in Confidence, s \in Levels, t \in Phrases : n = 600 /\ s = "medium" /\ t = "brief downtime"
        BY DEF Confidence, Levels, Phrases
      <4>3. e = OnHost(n, s, t)
        BY <4>1, <4>2
      <4> QED
        BY <4>3, FixedSound
    <3>4. CASE c.kind \in {"find delete", "rm log"}
      <4>1. e = Fixed(500, "low", "disk")
        <5>1. CASE c.kind = "find delete"
          BY <5>1, CleanEstimate, Zenon
        <5>2. CASE c.kind = "rm log"
          BY <5>2, CleanEstimate, Zenon
        <5> QED
          BY <3>4, <5>1, <5>2, Zenon
      <4> HIDE DEF e
      <4>2. PICK n \in Confidence, s \in Levels, t \in Phrases : n = 500 /\ s = "low" /\ t = "disk"
        BY DEF Confidence, Levels, Phrases
      <4>3. e = Fixed(n, s, t)
        BY <4>1, <4>2
      <4> QED
        BY <4>3, FixedSound
    <3>5. CASE c.kind \notin {"patch configmap", "patch hpa", "systemctl restart",
                              "find delete", "rm log"}
      <4>1. e = Fixed(300, "medium", "no_data")
        BY <1>6, <2>5, <3>5, OtherEstimate, Zenon
      <4> HIDE DEF e
      <4>2. PICK n \in Confidence, s \in Levels, t \in Phrases : n = 300 /\ s = "medium" /\ t = "no_data"
        BY DEF Confidence, Levels, Phrases
      <4>3. e = Fixed(n, s, t)
        BY <4>1, <4>2
      <4> QED
        BY <4>3, FixedSound
    <3> QED
      BY <3>1, <3>2, <3>3, <3>4, <3>5
  <2>6. CASE c.kind # "systemctl stop"
    <3>1. ~down
      BY <1>6, <2>6 DEF TakesDown
    <3>2. Sound(e, FALSE, FALSE)
      BY <2>5, <2>6
    <3> HIDE DEF e, lacks, down
    <3>3. Sound(e, lacks, down)
      BY <2>1, <3>1, <3>2, SoundLess
    <3> QED
      BY <3>3 DEF e, lacks, down
  <2> QED
    BY <2>4, <2>6
<1> QED
  BY <1>2, <1>3, <1>4, <1>5, <1>6

(* What is so of the estimate of a command that had the risk it had.       *)
Assessed(c, w, e, risk) ==
  /\ e \in Assessments /\ e.severity \in Levels /\ Len(e.findings) # 0
  /\ Lacks(c, w) => e.confidence < 500 /\ Says(e, "no_data")
  /\ TakesDown(c, w) => e.severity = "critical" /\ Says(e, "offline")
  /\ e.upgrade = NoLevel \/ (e.upgrade = e.severity /\ Rank(e.severity) > Rank(risk))
  /\ risk # NoLevel /\ e.upgrade = NoLevel => Rank(e.severity) <= Rank(risk)

LEMMA AssessIs ==
  ASSUME NEW c \in PlanCommand, NEW w \in PrometheusAnswer
  PROVE  Assessed(c, w, Assess(c, w), c.risk)
<1> DEFINE a == Estimate(c, w)
           u == Upgraded(c, a)
           e == Normal(u)
<1>1. Sound(a, Lacks(c, w), TakesDown(c, w))
  BY EstimateSound
<1>2. u = IF c.risk # NoLevel /\ Rank(a.severity) > Rank(c.risk)
          THEN [a EXCEPT !.upgrade = a.severity] ELSE a
  BY Zenon DEF Upgraded, NoLevel
<1>3. Assess(c, w) = e
  BY DEF Assess
<1> HIDE DEF a, u
<1>4. a \in Assessments /\ a.severity \in Levels /\ a.upgrade = NoLevel /\ a.severity \in AnyLevel
  BY <1>1, Ranks DEF Sound
<1>5. Rank(a.severity) \in 0..4 /\ Rank(c.risk) \in 0..4
  BY Ranks
<1>6. /\ u \in Assessments /\ u.severity = a.severity /\ u.findings = a.findings
      /\ u.confidence = a.confidence
      /\ u.upgrade = NoLevel \/ (u.upgrade = u.severity /\ Rank(u.severity) > Rank(c.risk))
      /\ c.risk # NoLevel /\ u.upgrade = NoLevel => Rank(u.severity) <= Rank(c.risk)
  <2>1. CASE c.risk # NoLevel /\ Rank(a.severity) > Rank(c.risk)
    <3>1. u = [a EXCEPT !.upgrade = a.severity]
      BY <1>2, <2>1
    <3>2. /\ u \in Assessments /\ u.severity = a.severity /\ u.findings = a.findings
          /\ u.confidence = a.confidence /\ u.upgrade = a.severity
      BY <1>4, <3>1, SetUpgrade
    <3>3. u.upgrade # NoLevel
      BY <1>4, <3>2, Ranks
    <3> QED
      BY <2>1, <3>2, <3>3
  <2>2. CASE ~(c.risk # NoLevel /\ Rank(a.severity) > Rank(c.risk))
    <3>1. u = a
      BY <1>2, <2>2
    <3>2. c.risk # NoLevel => Rank(u.severity) <= Rank(c.risk)
      BY <1>5, <2>2, <3>1
    <3> QED
      BY <1>4, <3>1, <3>2
  <2> QED
    BY <2>1, <2>2
<1>7. Lacks(c, w) => u.confidence < 500 /\ Says(u, "no_data")
  BY <1>1, <1>6 DEF Sound, Says
<1>8. TakesDown(c, w) => u.severity = "critical" /\ Says(u, "offline")
  BY <1>1, <1>6 DEF Sound, Says
<1>9. CASE u.findings # <<>>
  <2>1. e = u
    BY <1>9 DEF Normal
  <2>2. u.findings \in Findings
    BY <1>6, Fields
  <2>3. Len(u.findings) # 0
    BY <1>9, <2>2, EmptySeq DEF Findings
  <2> HIDE DEF e
  <2> QED
    BY <1>3, <1>4, <1>6, <1>7, <1>8, <2>1, <2>3 DEF Assessed
<1>10. CASE u.findings = <<>>
  <2>1. Len(u.findings) = 0
    BY <1>10, EmptySeq
  <2>2. u.severity = "medium"
    BY <1>1, <1>6, <2>1 DEF Sound
  <2>3. \A f : ~Says(u, f)
    BY <2>1 DEF Says
  <2>4. e = [u EXCEPT !.confidence = 200, !.severity = "medium", !.findings = <<"no_data">>]
    BY <1>10 DEF Normal
  <2> HIDE DEF e
  <2>5. 200 \in Confidence /\ "medium" \in AnyLevel /\ <<"no_data">> \in Findings
        /\ Len(<<"no_data">>) # 0
    <3>1. 200 \in Confidence
      BY DEF Confidence
    <3>2. "medium" \in AnyLevel
      BY Ranks DEF Levels
    <3>3. <<"no_data">> \in Findings
      <4>1. PICK t \in Phrases : t = "no_data"
        BY Texts
      <4>2. <<t>> \in Seq(Phrases)
        OBVIOUS
      <4> QED
        BY <4>1, <4>2 DEF Findings
    <3>4. Len(<<"no_data">>) # 0
      OBVIOUS
    <3> QED
      BY <3>1, <3>2, <3>3, <3>4
  <2>6. /\ e \in Assessments /\ e.severity = "medium" /\ e.findings = <<"no_data">>
        /\ e.upgrade = u.upgrade
    <3>1. PICK n \in Confidence, s \in AnyLevel, f \in Findings :
            n = 200 /\ s = "medium" /\ f = <<"no_data">>
      BY <2>5
    <3>2. PICK x : x = [u EXCEPT !.confidence = n]
      OBVIOUS
    <3>3. x \in Assessments /\ x.upgrade = u.upgrade
      BY <1>6, <3>1, <3>2, SetConfidence
    <3>4. PICK y : y = [x EXCEPT !.severity = s]
      OBVIOUS
    <3>5. y \in Assessments /\ y.upgrade = x.upgrade /\ y.severity = s
      BY <3>1, <3>3, <3>4, SetSeverity
    <3>6. PICK z : z = [y EXCEPT !.findings = f]
      OBVIOUS
    <3>7. z \in Assessments /\ z.upgrade = y.upgrade /\ z.severity = y.severity /\ z.findings = f
      BY <3>1, <3>5, <3>6, SetFindings
    <3>8. e = z
      BY <2>4, <3>1, <3>2, <3>4, <3>6
    <3> QED
      BY <3>1, <3>3, <3>5, <3>7, <3>8
  <2> QED
    BY <1>3, <1>4, <1>6, <1>7, <1>8, <2>2, <2>3, <2>5, <2>6 DEF Assessed
<1> QED
  BY <1>9, <1>10
-----------------------------------------------------------------------------
(* The plan: there is none before the analysis has answered, and what has  *)
(* not been marked from the check on passed it.                            *)
Gathering ==
  {"metrics", "history", "rank", "read", "runbooks", "ask", "apologise", "tell"}

MarkInv ==
  /\ plan \in Seq(PlanCommand)
  /\ pc \in Gathering => plan = <<>>
  /\ pc # "check" => \A i \in DOMAIN plan : ~plan[i].marked => Clean(plan[i])
  /\ DOMAIN effect \subseteq DOMAIN plan

LEMMA AllowedIsClean ==
  ASSUME NEW c \in PlanCommand, Allowed(c) PROVE Clean(c)
<1>1. c.trait \in Traits /\ c.trait # "encoded" /\ c.trait # "forbidden" /\ c.trait \notin Structure
  BY DEF Allowed, PlanCommand, StructureOK, Readable, Blacklisted
<1>2. c.trait = "plain"
  BY <1>1 DEF Traits
<1>3. c.kind \notin Blacklist
  BY DEF Allowed, Blacklisted
<1>4. \E rule \in Whitelist : c.kind \in rule.kinds
  BY DEF Allowed, Whitelisted, Matches
<1> QED
  BY <1>2, <1>3, <1>4 DEF Clean

(* A mark and a risk are two fields among others.                          *)
LEMMA SetMark ==
  ASSUME NEW c \in PlanCommand, NEW x \in BOOLEAN, NEW d, d = [c EXCEPT !.marked = x]
  PROVE  /\ d \in PlanCommand /\ d.marked = x
         /\ d.trait = c.trait /\ d.kind = c.kind
BY DEF PlanCommand

Risks == Levels \cup STRING

LEMMA SetRisk ==
  ASSUME NEW c \in PlanCommand, NEW x \in Risks, NEW d, d = [c EXCEPT !.risk = x]
  PROVE  /\ d \in PlanCommand /\ d.risk = x /\ d.marked = c.marked
         /\ d.trait = c.trait /\ d.kind = c.kind /\ d.replicas = c.replicas /\ d.step = c.step
<1>1. d \in PlanCommand
  BY DEF PlanCommand, Risks
<1> QED
  BY <1>1 DEF PlanCommand

LEMMA CheckMarks ==
  ASSUME MarkInv, CheckPlan
  PROVE  MarkInv' /\ Len(plan') = Len(plan) /\ DOMAIN plan' = DOMAIN plan
<1>1. /\ pc = "check" /\ pc' = "impact" /\ UNCHANGED effect
      /\ plan' = [i \in DOMAIN plan |-> [plan[i] EXCEPT !.marked = ~Allowed(plan[i])]]
  BY DEF CheckPlan, Goes, jobVars
<1>2. DOMAIN plan = 1..Len(plan) /\ Len(plan) \in Nat
  BY LenProperties DEF MarkInv
<1>3. ASSUME NEW i \in DOMAIN plan
      PROVE  plan'[i] \in PlanCommand /\ (~plan'[i].marked => Clean(plan'[i]))
  <2>1. PICK c \in PlanCommand : c = plan[i]
    BY <1>2, ElementOfSeq DEF MarkInv
  <2>2. PICK x \in BOOLEAN : x = ~Allowed(c)
    OBVIOUS
  <2>3. plan'[i] = [c EXCEPT !.marked = x]
    BY <1>1, <2>1, <2>2
  <2>4. plan'[i] \in PlanCommand /\ plan'[i].marked = x
        /\ plan'[i].trait = c.trait /\ plan'[i].kind = c.kind
    BY <2>3, SetMark
  <2>5. ~x => Clean(c)
    BY <2>2, AllowedIsClean
  <2> QED
    BY <2>4, <2>5 DEF Clean
<1>4. plan' \in [1..Len(plan) -> PlanCommand]
  BY <1>1, <1>2, <1>3
<1>5. plan' \in Seq(PlanCommand)
  BY <1>2, <1>4, SeqDef
<1>6. Len(plan') = Len(plan) /\ DOMAIN plan' = DOMAIN plan
  BY <1>2, <1>4, <1>5, LenProperties
<1> QED
  BY <1>1, <1>3, <1>5, <1>6 DEF MarkInv, Gathering

-----------------------------------------------------------------------------
(* The impacts: what has been assessed so far, in the order of the plan.   *)
Impact == [estimate : Assessments, answer : PrometheusAnswer, risk : Risks]

RiskNow(k) ==
  IF config.autoUpgrade /\ k.estimate.upgrade # NoLevel THEN k.estimate.upgrade ELSE k.risk

Estimated(c, k) == Assessed(c, k.answer, k.estimate, k.risk) /\ c.risk = RiskNow(k)

ImpactInv ==
  /\ impacts \in Seq(Impact)
  /\ pc \in Gathering \cup {"check"} => impacts = <<>>
  /\ Len(impacts) <= Len(plan)
  /\ impacts # <<>> => UsesImpact(config)
  /\ \A i \in DOMAIN impacts : Estimated(plan[i], impacts[i])

(* A query that is not made answers like one that is not answered.         *)
LEMMA AskedType ==
  ASSUME NEW c, NEW a \in PrometheusAnswer
  PROVE  Asked(c, a) \in PrometheusAnswer
<1> DEFINE none == [replicas |-> NoData, service |-> NoData, total |-> NoData,
                    owner |-> "failed", dependents |-> 0]
           less == [a EXCEPT !.service = NoData, !.total = NoData, !.dependents = 0,
                   !.replicas = IF a.owner = "found" THEN @ ELSE NoData]
<1>1. NoData \in Measured /\ 0 \in Nat /\ "failed" \in Owners
  BY DEF Measured, Owners
<1>2. none \in PrometheusAnswer
  BY <1>1 DEF PrometheusAnswer
<1>3. [a EXCEPT !.owner = "failed"] \in PrometheusAnswer
  BY <1>1 DEF PrometheusAnswer
<1>4. less \in PrometheusAnswer
  <2>1. a.replicas \in Measured /\ a \in [replicas : Measured, service : Measured, total : Measured,
                                          owner : Owners, dependents : Nat]
    BY DEF PrometheusAnswer
  <2>2. PICK r \in Measured : r = IF a.owner = "found" THEN a.replicas ELSE NoData
    BY <1>1, <2>1
  <2>3. less = [a EXCEPT !.service = NoData, !.total = NoData, !.dependents = 0, !.replicas = r]
    BY <2>2
  <2> HIDE DEF less
  <2> QED
    BY <1>1, <2>1, <2>3 DEF PrometheusAnswer
<1>5. Asked(c, a) \in {none, [a EXCEPT !.owner = "failed"], less}
  BY Zenon DEF Asked
<1> HIDE DEF none, less
<1> QED
  BY <1>2, <1>3, <1>4, <1>5

LEMMA RiskRange ==
  ASSUME NEW c \in PlanCommand, NEW e \in Assessments
  PROVE  /\ RiskOf(c, e) \in Risks
         /\ RiskOf(c, e) = IF config.autoUpgrade /\ e.upgrade # NoLevel THEN e.upgrade ELSE c.risk
<1>1. RiskOf(c, e) = IF config.autoUpgrade /\ e.upgrade # NoLevel THEN e.upgrade ELSE c.risk
  BY Zenon DEF RiskOf, NoLevel
<1>2. c.risk \in Risks
  BY DEF PlanCommand, Risks
<1>3. e.upgrade \in Levels \cup {NoLevel}
  BY Fields DEF AnyLevel
<1>4. e.upgrade # NoLevel => e.upgrade \in Risks
  BY <1>3 DEF Risks
<1> QED
  BY <1>1, <1>2, <1>4

LEMMA SameAssessed ==
  ASSUME NEW c, NEW d, NEW w, NEW e, NEW risk, Assessed(c, w, e, risk),
         d.kind = c.kind, d.replicas = c.replicas
  PROVE  Assessed(d, w, e, risk)
<1>1. Lacks(d, w) = Lacks(c, w) /\ TakesDown(d, w) = TakesDown(c, w)
  BY DEF Lacks, TakesDown
<1> QED
  BY <1>1 DEF Assessed

(* What one step of the loop does, in the terms used here.                 *)
LEMMA AssessStep ==
  ASSUME MarkInv, ImpactInv, AssessCommand
  PROVE  \E k \in Impact, d \in PlanCommand : LET i == Len(impacts) + 1 IN
           /\ i \in DOMAIN plan /\ Estimated(d, k)
           /\ impacts' = Append(impacts, k) /\ plan' = [plan EXCEPT ![i] = d]
           /\ d.marked = plan[i].marked /\ d.trait = plan[i].trait /\ d.kind = plan[i].kind
           /\ d.step = plan[i].step
<1>1. PICK i : i = Len(impacts) + 1
  OBVIOUS
<1>2. i \in DOMAIN plan /\ plan[i] \in PlanCommand /\ UNCHANGED config
  <2>1. Len(impacts) \in Nat /\ DOMAIN plan = 1..Len(plan)
    BY LenProperties DEF MarkInv, ImpactInv
  <2>2. i <= Len(plan) /\ UNCHANGED config
    BY <1>1 DEF AssessCommand, Elsewhere
  <2>3. i \in DOMAIN plan
    BY <1>1, <2>1, <2>2, LenProperties DEF MarkInv
  <2> QED
    BY <2>1, <2>2, <2>3, ElementOfSeq DEF MarkInv
<1>3. PICK a \in Answers :
        /\ impacts' = Append(impacts, [estimate |-> Assess(plan[i], Asked(plan[i], a)),
                                       answer |-> Asked(plan[i], a), risk |-> plan[i].risk])
        /\ plan' = [plan EXCEPT ![i].risk = RiskOf(plan[i], Assess(plan[i], Asked(plan[i], a)))]
  BY <1>1 DEF AssessCommand
<1>4. PICK c \in PlanCommand, w \in PrometheusAnswer : c = plan[i] /\ w = Asked(plan[i], a)
  BY <1>2, AskedType, AnalysisAssumption
<1>5. PICK e : e = Assess(c, w)
  OBVIOUS
<1>6. Assessed(c, w, e, c.risk) /\ e \in Assessments /\ c.risk \in Risks
  <2>1. Assessed(c, w, e, c.risk)
    BY <1>5, AssessIs
  <2>2. e \in Assessments
    BY <2>1 DEF Assessed
  <2>3. c.risk \in Risks
    BY DEF PlanCommand, Risks
  <2> QED
    BY <2>1, <2>2, <2>3
<1>7. PICK x \in Risks : /\ x = RiskOf(c, e)
                         /\ x = IF config.autoUpgrade /\ e.upgrade # NoLevel THEN e.upgrade ELSE c.risk
  BY <1>6, RiskRange
<1>8. PICK k : k = [estimate |-> e, answer |-> w, risk |-> c.risk]
  OBVIOUS
<1>9. k \in Impact /\ k.estimate = e /\ k.answer = w /\ k.risk = c.risk
  BY <1>6, <1>8 DEF Impact
<1>10. PICK d : d = [c EXCEPT !.risk = x]
  OBVIOUS
<1>11. /\ d \in PlanCommand /\ d.risk = x /\ d.marked = c.marked
       /\ d.trait = c.trait /\ d.kind = c.kind /\ d.replicas = c.replicas /\ d.step = c.step
  BY <1>10, SetRisk
<1>12. Estimated(d, k)
  <2>1. Assessed(d, w, e, c.risk)
    BY <1>6, <1>11, SameAssessed
  <2>2. d.risk = RiskNow(k)
    BY <1>7, <1>9, <1>11 DEF RiskNow
  <2> QED
    BY <1>9, <2>1, <2>2 DEF Estimated
<1>13. impacts' = Append(impacts, k)
  BY <1>3, <1>4, <1>5, <1>8
<1>14. plan' = [plan EXCEPT ![i] = d]
  <2>1. plan' = [plan EXCEPT ![i].risk = x]
    BY <1>3, <1>4, <1>5, <1>7
  <2>2. plan' = [plan EXCEPT ![i] = [plan[i] EXCEPT !.risk = x]]
    BY <2>1
  <2> QED
    BY <1>4, <1>10, <2>2
<1> QED
  BY <1>1, <1>2, <1>4, <1>9, <1>11, <1>12, <1>13, <1>14

(* What the steps do to the plan, the impacts and the card.                *)
LEMMA Moves ==
  ASSUME [Next]_vars
  PROVE  \/ /\ pc \in Gathering /\ pc' \in Gathering \cup {"ended"}
            /\ UNCHANGED <<config, plan, impacts, card, jobVars>>
         \/ /\ pc = "ask" /\ pc' = "check" /\ plan' \in Plans
            /\ UNCHANGED <<config, impacts, card, jobVars>>
         \/ CheckPlan \/ AssessCommand \/ TellPlan \/ Decide
         \/ /\ pc \notin Gathering \cup {"check", "impact"} /\ pc' \notin Gathering \cup {"check", "impact"}
            /\ pc' \in {pc, "decide", "ended"}
            /\ UNCHANGED <<config, plan, impacts, card>> /\ DOMAIN effect' = DOMAIN effect
         \/ UNCHANGED <<config, pc, plan, impacts, card>> /\ DOMAIN effect' = DOMAIN effect
<1>1. CASE \/ FetchMetrics \/ FindCandidates \/ RankIncidents \/ ReadRanking \/ FetchRunbooks \/ AskFails
  BY <1>1 DEF Gathering, FetchMetrics, FindCandidates, RankIncidents, ReadRanking, FetchRunbooks, AskFails,
    Goes, NoPlanYet, Elsewhere, cardVars, Dropped
<1>2. CASE AskAnswers
  BY <1>2 DEF Gathering, AskAnswers, Elsewhere, cardVars, Dropped
<1>3. CASE Apologise \/ TellAnalysis
  BY <1>3 DEF Gathering, Apologise, TellAnalysis, Goes, Elsewhere
<1>4. CASE CheckPlan \/ AssessCommand \/ TellPlan \/ Decide
  BY <1>4
<1>5. CASE CreateApproval
  BY <1>5 DEF Gathering, CreateApproval, cardVars, jobVars
<1>6. CASE EndRun
  BY <1>6 DEF Gathering, EndRun, Goes, cardVars, jobVars
<1>7. CASE RunCommand
  <2>1. DOMAIN effect' = DOMAIN effect
    BY <1>7 DEF RunCommand, Begin
  <2> QED
    BY <1>7, <2>1 DEF RunCommand, Running, Elsewhere, cardVars
<1>8. CASE WaitForCommand
  <2>1. DOMAIN effect' = DOMAIN effect
    BY <1>8 DEF WaitForCommand, Connect, Result, TimesOut
  <2> QED
    BY <1>8, <2>1 DEF WaitForCommand, Running, Elsewhere, cardVars
<1>9. CASE Others(MachineRuns /\ UNCHANGED <<runbookVars, feedbackVars>>)
  <2>1. DOMAIN effect' = DOMAIN effect
    BY <1>9 DEF Others, MachineRuns
  <2> QED
    BY <1>9, <2>1 DEF Others, cardVars
<1>10. CASE \/ Others((Reloads \/ (UsesRunbooks(config) /\ EditRunbooks)) /\ UNCHANGED <<jobVars, feedbackVars>>)
            \/ Others((ProposeOther \/ EndOther \/ \E p \in Presses : Callback(p)) /\ UNCHANGED <<jobVars, runbookVars>>)
            \/ UNCHANGED vars
  BY <1>10 DEF Others, cardVars, jobVars, vars
<1> QED
  BY <1>1, <1>2, <1>3, <1>4, <1>5, <1>6, <1>7, <1>8, <1>9, <1>10 DEF Next, Pipeline
LEMMA NoCommands == DOMAIN <<>> = {} /\ Len(<<>>) = 0 /\ \A S : <<>> \in Seq(S)
OBVIOUS

LEMMA MarkStep == MarkInv /\ ImpactInv /\ ExecInv /\ [Next]_vars => MarkInv'
<1> SUFFICES ASSUME MarkInv, ImpactInv, ExecInv, [Next]_vars PROVE MarkInv'
  OBVIOUS
<1>1. CASE /\ pc \in Gathering /\ pc' \in Gathering \cup {"ended"}
           /\ UNCHANGED <<config, plan, impacts, card, jobVars>>
  BY <1>1, NoCommands DEF MarkInv, jobVars, Gathering
<1>2. CASE pc = "ask" /\ pc' = "check" /\ plan' \in Plans /\ UNCHANGED <<config, impacts, card, jobVars>>
  <2>1. plan' \in Seq(PlanCommand)
    BY <1>2, AnalysisAssumption
  <2>2. DOMAIN effect' = {}
    BY <1>2 DEF ExecInv, jobVars
  <2> QED
    BY <1>2, <2>1, <2>2 DEF MarkInv, Gathering
<1>3. CASE CheckPlan
  BY <1>3, CheckMarks
<1>4. CASE AssessCommand
  <2>1. PICK d \in PlanCommand, i \in DOMAIN plan :
          /\ plan' = [plan EXCEPT ![i] = d]
          /\ d.marked = plan[i].marked /\ d.trait = plan[i].trait /\ d.kind = plan[i].kind
    BY <1>4, AssessStep
  <2>2. plan' \in Seq(PlanCommand) /\ DOMAIN plan' = DOMAIN plan
    BY <2>1, ExceptSeq DEF MarkInv
  <2>3. pc = "impact" /\ pc' = pc /\ UNCHANGED effect
    BY <1>4 DEF AssessCommand, jobVars
  <2>4. ASSUME NEW j \in DOMAIN plan', ~plan'[j].marked PROVE Clean(plan'[j])
    <3>1. ~plan[j].marked /\ plan'[j].trait = plan[j].trait /\ plan'[j].kind = plan[j].kind
      BY <2>1, <2>2, <2>4
    <3> QED
      BY <2>2, <2>3, <3>1 DEF MarkInv, Clean
  <2> QED
    BY <2>2, <2>3, <2>4 DEF MarkInv, Gathering
<1>5. CASE TellPlan
  BY <1>5 DEF TellPlan, MarkInv, Gathering, jobVars
<1>6. CASE Decide
  <2>1. pc = "decide" /\ pc' \in {"run", "ended"} /\ UNCHANGED plan /\ DOMAIN effect' = DOMAIN plan
    BY <1>6 DEF Decide
  <2> QED
    BY <2>1 DEF MarkInv, Gathering
<1>7. CASE /\ pc \notin Gathering \cup {"check", "impact"} /\ pc' \notin Gathering \cup {"check", "impact"}
           /\ UNCHANGED <<config, plan, impacts, card>> /\ DOMAIN effect' = DOMAIN effect
  BY <1>7 DEF MarkInv
<1>8. CASE UNCHANGED <<config, pc, plan, impacts, card>> /\ DOMAIN effect' = DOMAIN effect
  BY <1>8 DEF MarkInv
<1> QED
  BY <1>1, <1>2, <1>3, <1>4, <1>5, <1>6, <1>7, <1>8, Moves

LEMMA NoImpactsYet ==
  ASSUME impacts' = <<>>, plan' \in Seq(PlanCommand)
  PROVE  ImpactInv'
<1>1. Len(plan') \in Nat
  BY LenProperties
<1>2. impacts' \in Seq(Impact) /\ Len(impacts') <= Len(plan') /\ DOMAIN impacts' = {}
  BY <1>1, NoCommands
<1> QED
  BY <1>2 DEF ImpactInv

LEMMA ImpactQuiet ==
  ASSUME ImpactInv, UNCHANGED <<config, plan, impacts>>,
         pc' \in Gathering \cup {"check"} => impacts = <<>>
  PROVE  ImpactInv'
<1>1. \A i \in DOMAIN impacts : Estimated(plan[i], impacts[i])'
  BY DEF ImpactInv, Estimated, RiskNow
<1> QED
  BY <1>1 DEF ImpactInv

LEMMA ImpactStep == MarkInv /\ MarkInv' /\ ImpactInv /\ [Next]_vars => ImpactInv'
<1> SUFFICES ASSUME MarkInv, MarkInv', ImpactInv, [Next]_vars PROVE ImpactInv'
  OBVIOUS
<1>0. plan' \in Seq(PlanCommand)
  BY DEF MarkInv
<1>1. CASE /\ pc \in Gathering /\ pc' \in Gathering \cup {"ended"}
           /\ UNCHANGED <<config, plan, impacts, card, jobVars>>
  BY <1>0, <1>1, NoImpactsYet DEF ImpactInv
<1>2. CASE pc = "ask" /\ pc' = "check" /\ plan' \in Plans /\ UNCHANGED <<config, impacts, card, jobVars>>
  BY <1>0, <1>2, NoImpactsYet DEF ImpactInv, Gathering
<1>3. CASE CheckPlan
  BY <1>0, <1>3, NoImpactsYet DEF ImpactInv, CheckPlan, Goes, cardVars
<1>4. CASE AssessCommand
  <2>1. PICK k \in Impact, d \in PlanCommand, i \in DOMAIN plan :
           /\ i = Len(impacts) + 1 /\ Estimated(d, k)
           /\ impacts' = Append(impacts, k) /\ plan' = [plan EXCEPT ![i] = d]
    BY <1>4, AssessStep
  <2>2. pc = "impact" /\ pc' = pc /\ UNCHANGED config /\ UsesImpact(config)
    BY <1>4 DEF AssessCommand, Elsewhere
  <2>3. /\ impacts' \in Seq(Impact) /\ Len(impacts') = i /\ impacts'[i] = k
        /\ \A j \in 1..Len(impacts) : impacts'[j] = impacts[j]
    BY <2>1, AppendProperties DEF ImpactInv
  <2>4. /\ Len(impacts) \in Nat /\ DOMAIN impacts = 1..Len(impacts) /\ DOMAIN impacts' = 1..i
        /\ DOMAIN plan = 1..Len(plan) /\ Len(plan') = Len(plan) /\ Len(plan) \in Nat
    BY <2>1, <2>3, LenProperties, ExceptSeq DEF ImpactInv, MarkInv
  <2>5. ASSUME NEW j \in DOMAIN impacts' PROVE Estimated(plan'[j], impacts'[j])
    <3>1. CASE j = i
      BY <2>1, <2>3, <3>1
    <3>2. CASE j # i
      <4>1. j \in DOMAIN impacts
        BY <2>1, <2>4, <3>2
      <4>2. plan'[j] = plan[j] /\ impacts'[j] = impacts[j]
        BY <2>1, <2>3, <2>4, <3>2, <4>1
      <4> QED
        BY <4>1, <4>2 DEF ImpactInv
    <3> QED
      BY <3>1, <3>2
  <2>6. \A j \in DOMAIN impacts' : Estimated(plan[j], impacts[j])'
    BY <2>2, <2>5 DEF Estimated, RiskNow
  <2>7. Len(impacts') <= Len(plan')
    BY <2>1, <2>3, <2>4
  <2> QED
    BY <2>2, <2>3, <2>6, <2>7 DEF ImpactInv, Gathering
<1>5. CASE TellPlan
  BY <1>5, ImpactQuiet DEF TellPlan, Elsewhere, Gathering
<1>6. CASE Decide
  BY <1>0, <1>6, NoImpactsYet DEF Decide
<1>7. CASE /\ pc \notin Gathering \cup {"check", "impact"} /\ pc' \notin Gathering \cup {"check", "impact"}
           /\ UNCHANGED <<config, plan, impacts, card>> /\ DOMAIN effect' = DOMAIN effect
  BY <1>7, ImpactQuiet
<1>8. CASE UNCHANGED <<config, pc, plan, impacts, card>> /\ DOMAIN effect' = DOMAIN effect
  <2>1. pc' \in Gathering \cup {"check"} => impacts = <<>>
    BY <1>8 DEF ImpactInv
  <2> QED
    BY <1>8, <2>1, ImpactQuiet
<1> QED
  BY <1>1, <1>2, <1>3, <1>4, <1>5, <1>6, <1>7, <1>8, Moves
-----------------------------------------------------------------------------
(* The card, once it is sent: the commands of the plan, each with what was *)
(* estimated of it.                                                        *)
Shows(i) ==
  /\ card[i].command = plan[i]
  /\ impacts # <<>> =>
       /\ i \in DOMAIN impacts
       /\ OwnStep(i) => /\ card[i].impact.severity = impacts[i].estimate.severity
                        /\ card[i].impact.replicas = impacts[i].estimate.replicas
                        /\ card[i].impact.findings = Shown(impacts[i].estimate)

CardInv ==
  /\ card = <<>> \/ pc \in {"record", "decide", "ended"}
  /\ DOMAIN card \subseteq DOMAIN plan /\ Len(card) \in {0, Len(plan)}
  /\ \A i \in DOMAIN card : Shows(i)

LEMMA OwnImpactIs ==
  ASSUME MarkInv, NEW i \in DOMAIN plan, OwnStep(i)
  PROVE  ImpactOf(i) = impacts[i].estimate
<1> DEFINE P(k) == /\ plan[k].step = plan[i].step
                   /\ \A j \in DOMAIN plan : plan[j].step = plan[i].step => j <= k
<1>1. ASSUME NEW k \in DOMAIN plan, P(k) PROVE k = i
  BY <1>1 DEF OwnStep
<1>2. P(i)
  <2>1. i \in Nat
    BY LenProperties DEF MarkInv
  <2>2. \A j : j = i => j <= i
    BY <2>1
  <2> QED
    BY <2>2 DEF OwnStep
<1>3. (CHOOSE k \in DOMAIN plan : P(k)) = i
  BY <1>1, <1>2
<1> QED
  BY <1>3 DEF ImpactOf

LEMMA CardSent ==
  ASSUME MarkInv, ImpactInv, TellPlan
  PROVE  \/ pc' = "ended" /\ UNCHANGED card
         \/ pc' = "record" /\ DOMAIN card' = DOMAIN plan /\ Len(card') = Len(plan)
            /\ \A i \in DOMAIN plan : Shows(i)'
<1>1. /\ pc = "impact" /\ UNCHANGED <<config, plan, impacts>>
      /\ UsesImpact(config) => Len(impacts) = Len(plan)
  BY DEF TellPlan, Elsewhere
<1>2. CASE pc' = "record" /\ card' = [i \in DOMAIN plan |-> OnCard(i)]
  <2>1. DOMAIN plan = 1..Len(plan) /\ Len(plan) \in Nat
    BY LenProperties DEF MarkInv
  <2>2. card' = [i \in 1..Len(plan) |-> card'[i]] /\ DOMAIN card' = DOMAIN plan
    BY <1>2, <2>1
  <2>3. Len(card') = Len(plan)
    BY <2>1, <2>2, SameLength
  <2>4. ASSUME NEW i \in DOMAIN plan PROVE Shows(i)'
    <3>1. card'[i] = OnCard(i)
      BY <1>2
    <3>2. card'[i].command = plan[i]
      BY <3>1 DEF OnCard
    <3>3. ASSUME impacts # <<>>
          PROVE  /\ i \in DOMAIN impacts
                 /\ OwnStep(i) => /\ card'[i].impact.severity = impacts[i].estimate.severity
                                  /\ card'[i].impact.replicas = impacts[i].estimate.replicas
                                  /\ card'[i].impact.findings = Shown(impacts[i].estimate)
      <4>1. UsesImpact(config)
        BY <3>3 DEF ImpactInv
      <4>2. i \in DOMAIN impacts
        BY <1>1, <2>1, <4>1, LenProperties DEF ImpactInv
      <4>3. PICK e : e = ImpactOf(i)
        OBVIOUS
      <4>4. card'[i].impact = [severity |-> e.severity, replicas |-> e.replicas,
                    share |-> e.share, dependents |-> e.dependents,
                    findings |-> Shown(e), upgrade |-> e.upgrade]
        BY <3>1, <3>3, <4>3 DEF OnCard
      <4>5. /\ card'[i].impact.severity = e.severity /\ card'[i].impact.replicas = e.replicas
            /\ card'[i].impact.findings = Shown(e)
        BY <4>4
      <4>6. OwnStep(i) => e = impacts[i].estimate
        BY <4>3, OwnImpactIs
      <4> QED
        BY <4>2, <4>5, <4>6
    <3>4. OwnStep(i)' <=> OwnStep(i)
      BY <1>1 DEF OwnStep
    <3> QED
      BY <1>1, <3>2, <3>3, <3>4 DEF Shows
  <2> QED
    BY <1>2, <2>2, <2>3, <2>4
<1> QED
  BY <1>2 DEF TellPlan

LEMMA CardStep == CardInv /\ MarkInv /\ ImpactInv /\ [Next]_vars => CardInv'
<1> SUFFICES ASSUME CardInv, MarkInv, ImpactInv, [Next]_vars PROVE CardInv'
  OBVIOUS
<1>1. ASSUME card' = <<>> PROVE CardInv'
  BY <1>1, NoCommands DEF CardInv
<1>2. ASSUME UNCHANGED <<plan, impacts, card>>, card = <<>> \/ pc' \in {"record", "decide", "ended"}
      PROVE  CardInv'
  <2>1. \A i \in DOMAIN card : Shows(i)'
    BY <1>2 DEF CardInv, Shows, OwnStep
  <2> QED
    BY <1>2, <2>1 DEF CardInv
<1>3. CASE TellPlan
  <2>1. UNCHANGED <<plan, impacts>>
    BY <1>3 DEF TellPlan
  <2>2. CASE pc' = "ended" /\ UNCHANGED card
    BY <1>2, <2>1, <2>2
  <2>3. CASE ~(pc' = "ended" /\ UNCHANGED card)
    BY <1>3, <2>1, <2>3, CardSent DEF CardInv
  <2> QED
    BY <2>2, <2>3
<1>4. CASE Decide
  BY <1>1, <1>4 DEF Decide
<1>5. CASE CheckPlan \/ AssessCommand
  <2>1. UNCHANGED card /\ pc \in {"check", "impact"}
    BY <1>5 DEF CheckPlan, AssessCommand, Goes, cardVars
  <2> QED
    BY <1>1, <2>1 DEF CardInv
<1>6. CASE pc \in Gathering /\ UNCHANGED card
  BY <1>1, <1>6 DEF CardInv, Gathering
<1>7. CASE UNCHANGED <<plan, impacts, card>> /\ pc' \in {pc, "decide", "ended"}
  BY <1>2, <1>7 DEF CardInv
<1> QED
  BY <1>3, <1>4, <1>5, <1>6, <1>7, Moves DEF Gathering

LEMMA CardAlways == Spec => [](MarkInv /\ ImpactInv /\ CardInv /\ ExecInv)
<1> DEFINE All == PlanInv /\ ExecInv /\ TableInv /\ VoteInv
<1>1. Init => MarkInv /\ ImpactInv /\ CardInv
  <2> SUFFICES ASSUME Init PROVE MarkInv /\ ImpactInv /\ CardInv
    OBVIOUS
  <2>1. plan = <<>> /\ impacts = <<>> /\ card = <<>> /\ effect = <<>>
    BY DEF Init
  <2>2. plan \in Seq(PlanCommand) /\ impacts \in Seq(Impact) /\ Len(impacts) <= Len(plan)
    BY <2>1, NoCommands
  <2> QED
    BY <2>1, <2>2, NoCommands DEF MarkInv, ImpactInv, CardInv
<1>2. Spec => []All
  BY AnalysisAlways DEF All
<1>3. MarkInv /\ ImpactInv /\ CardInv /\ All /\ [Next]_vars => (MarkInv /\ ImpactInv /\ CardInv)'
  BY MarkStep, ImpactStep, CardStep DEF All
<1>4. All => ExecInv
  BY DEF All
<1> HIDE DEF All
<1> QED
  BY <1>1, <1>2, <1>3, <1>4, PTL DEF Spec

-----------------------------------------------------------------------------
(* What nobody sees marked as blocked passed the validator, whatever the   *)
(* language model proposes: on the card and in the plan that runs          *)
(* (validator.go, pipeline.go).                                            *)
THEOREM UnmarkedIsClean == Spec => []ForbiddenIsMarked
<1>1. MarkInv /\ CardInv /\ ExecInv => ForbiddenIsMarked
  <2> SUFFICES ASSUME MarkInv, CardInv, ExecInv PROVE ForbiddenIsMarked
    OBVIOUS
  <2>1. ASSUME NEW i \in DOMAIN card, ~card[i].command.marked PROVE Clean(card[i].command)
    <3>1. card # <<>>
      BY <2>1, NoCommands
    <3>2. pc # "check" /\ i \in DOMAIN plan /\ card[i].command = plan[i]
      BY <2>1, <3>1 DEF CardInv, Shows
    <3> QED
      BY <2>1, <3>2 DEF MarkInv
  <2>2. ASSUME NEW i \in DOMAIN effect, effect[i] # "none", ~plan[i].marked PROVE Clean(plan[i])
    <3>1. i \in DOMAIN plan
      BY DEF MarkInv
    <3>2. pc # "check"
      BY DEF ExecInv
    <3> QED
      BY <2>2, <3>1, <3>2 DEF MarkInv
  <2> QED
    BY <2>1, <2>2 DEF ForbiddenIsMarked
<1> QED
  BY <1>1, CardAlways, PTL

(* Whose estimate stands beside a command, when the steps of the plan are  *)
(* numbered apart (assessBlastRadius, attachBlastRadius).                  *)
THEOREM EstimateIsOwn == Spec => []OwnImpact
<1>1. CardInv => OwnImpact
  BY DEF CardInv, Shows, OwnImpact
<1> QED
  BY <1>1, CardAlways, PTL

(* The automatic upgrade never lowers a risk (applyRiskUpgrade).           *)
THEOREM RiskOnlyRaised == Spec => []RiskNotLowered
<1>1. ImpactInv => RiskNotLowered
  <2> SUFFICES ASSUME ImpactInv, NEW i \in DOMAIN impacts
               PROVE  /\ Rank(plan[i].risk) >= Rank(impacts[i].risk)
                      /\ config.autoUpgrade /\ impacts[i].risk # NoLevel =>
                           Rank(plan[i].risk) >= Rank(impacts[i].estimate.severity)
    BY Zenon DEF RiskNotLowered, NoLevel
  <2>1. PICK k : k = impacts[i]
    OBVIOUS
  <2>2. Assessed(plan[i], k.answer, k.estimate, k.risk) /\ plan[i].risk = RiskNow(k)
    BY <2>1 DEF ImpactInv, Estimated
  <2>3. /\ Rank(k.risk) \in 0..4 /\ Rank(k.estimate.severity) \in 0..4
        /\ Rank(plan[i].risk) \in 0..4
    BY Ranks
  <2>4. CASE config.autoUpgrade /\ k.estimate.upgrade # NoLevel
    BY <2>1, <2>2, <2>3, <2>4 DEF RiskNow, Assessed
  <2>5. CASE ~(config.autoUpgrade /\ k.estimate.upgrade # NoLevel)
    BY <2>1, <2>2, <2>3, <2>5 DEF RiskNow, Assessed
  <2> QED
    BY <2>4, <2>5
<1> QED
  BY <1>1, CardAlways, PTL

(* What is said early enough is on the card.                               *)
LEMMA ShownSays ==
  ASSUME NEW e \in Assessments, NEW f, Says(e, f)
  PROVE  f \in ToSet(Shown(e))
<1>1. PICK k \in 1..2 : k <= Len(e.findings) /\ e.findings[k] = f
  BY DEF Says
<1>2. e.findings \in Seq(Phrases) /\ Len(e.findings) \in Nat
  BY Fields DEF Findings
<1>3. PICK n \in Nat : n = IF Len(e.findings) < 2 THEN Len(e.findings) ELSE 2
  BY <1>2
<1>4. n <= Len(e.findings) /\ k <= n
  BY <1>1, <1>2, <1>3
<1>5. PICK t : t = SubSeq(e.findings, 1, n)
  OBVIOUS
<1>6. Len(t) = n /\ DOMAIN t = 1..n /\ \A j \in 1..n : t[j] = e.findings[j]
  BY <1>2, <1>4, <1>5
<1>7. t[k] = f /\ k \in DOMAIN t
  BY <1>1, <1>4, <1>6
<1>8. f \in ToSet(t)
  BY <1>7 DEF ToSet
<1>9. Shown(e) = t
  BY <1>3, <1>5 DEF Shown
<1> QED
  BY <1>8, <1>9

(* An estimate that lacks an answer says so where it is read, and is not   *)
(* confident (recordNoData, renderBlastRadius).                            *)
THEOREM MissingIsTold == Spec => []MissingDataIsTold
<1>1. ImpactInv /\ CardInv => MissingDataIsTold
  <2> SUFFICES ASSUME ImpactInv, CardInv PROVE MissingDataIsTold
    OBVIOUS
  <2>1. ASSUME NEW i \in DOMAIN impacts, Lacks(plan[i], impacts[i].answer)
        PROVE  /\ impacts[i].estimate.confidence < 500
               /\ "no_data" \in ToSet(Shown(impacts[i].estimate))
    <3>1. Assessed(plan[i], impacts[i].answer, impacts[i].estimate, impacts[i].risk)
      BY DEF ImpactInv, Estimated
    <3>2. impacts[i].estimate \in Assessments /\ impacts[i].estimate.confidence < 500
          /\ Says(impacts[i].estimate, "no_data")
      BY <2>1, <3>1 DEF Assessed
    <3> QED
      BY <3>2, ShownSays
  <2>2. ASSUME NEW i \in DOMAIN card, impacts # <<>>, OwnStep(i), Lacks(plan[i], impacts[i].answer)
        PROVE  "no_data" \in ToSet(card[i].impact.findings)
    <3>1. i \in DOMAIN impacts /\ card[i].impact.findings = Shown(impacts[i].estimate)
      BY <2>2 DEF CardInv, Shows
    <3> QED
      BY <2>1, <2>2, <3>1
  <2> QED
    BY <2>1, <2>2 DEF MissingDataIsTold
<1> QED
  BY <1>1, CardAlways, PTL

(* A command known to take a service down is critical on the card, and     *)
(* says so there (AtLeast).                                                *)
THEOREM OutageIsTold == Spec => []OutageIsCritical
<1>1. ImpactInv /\ CardInv => OutageIsCritical
  <2> SUFFICES ASSUME ImpactInv, CardInv, NEW i \in DOMAIN card, impacts # <<>>, OwnStep(i),
                      TakesDown(plan[i], impacts[i].answer)
               PROVE  card[i].impact.severity = "critical"
                      /\ "offline" \in ToSet(card[i].impact.findings)
    BY DEF OutageIsCritical
  <2>1. /\ i \in DOMAIN impacts /\ card[i].impact.findings = Shown(impacts[i].estimate)
        /\ card[i].impact.severity = impacts[i].estimate.severity
    BY DEF CardInv, Shows
  <2>2. Assessed(plan[i], impacts[i].answer, impacts[i].estimate, impacts[i].risk)
    BY <2>1 DEF ImpactInv, Estimated
  <2>3. impacts[i].estimate \in Assessments /\ impacts[i].estimate.severity = "critical"
        /\ Says(impacts[i].estimate, "offline")
    BY <2>2 DEF Assessed
  <2> QED
    BY <2>1, <2>3, ShownSays
<1> QED
  BY <1>1, CardAlways, PTL

-----------------------------------------------------------------------------
(* The history.  First what Among computes: the function it is defined by  *)
(* exists, by the least length for which it would not, and all it keeps is *)
(* in the set.                                                             *)
Kept(f, s, S, m) ==
  f = [n \in 0..m |-> IF n = 0 THEN <<>>
                      ELSE IF s[n] \in S THEN Append(f[n - 1], s[n]) ELSE f[n - 1]]

LEMMA KeptExists ==
  ASSUME NEW s, NEW S, NEW m \in Nat PROVE \E f : Kept(f, s, S, m)
<1> DEFINE T == {k \in Nat : ~ \E f : Kept(f, s, S, k)}
<1>1. SUFFICES ASSUME T # {} PROVE FALSE
  OBVIOUS
<1>2. PICK k \in T : \A j \in T : k <= j
  BY <1>1, NatHasLeast
<1>3. CASE k = 0
  <2>1. PICK f : f = [n \in 0..0 |-> <<>>]
    OBVIOUS
  <2>2. Kept(f, s, S, 0)
    BY <2>1 DEF Kept
  <2> QED
    BY <1>3, <2>2
<1>4. CASE k # 0
  <2>1. k - 1 \in Nat /\ k - 1 \notin T /\ k \in Nat
    BY <1>2, <1>4
  <2>2. PICK g : Kept(g, s, S, k - 1)
    BY <2>1
  <2>3. PICK v : v = IF s[k] \in S THEN Append(g[k - 1], s[k]) ELSE g[k - 1]
    OBVIOUS
  <2>4. PICK f : f = [n \in 0..k |-> IF n = k THEN v ELSE g[n]]
    OBVIOUS
  <2>5. \A n \in 0..(k - 1) : f[n] = g[n] /\ g[n] = IF n = 0 THEN <<>>
                      ELSE IF s[n] \in S THEN Append(g[n - 1], s[n]) ELSE g[n - 1]
    <3>1. \A n \in 0..(k - 1) : f[n] = g[n]
      BY <2>1, <2>4
    <3>2. PICK h : h = g
      OBVIOUS
    <3>3. g = [n \in 0..(k - 1) |-> IF n = 0 THEN <<>>
                      ELSE IF s[n] \in S THEN Append(h[n - 1], s[n]) ELSE h[n - 1]]
      BY <2>2, <3>2 DEF Kept
    <3>4. \A n \in 0..(k - 1) : g[n] = IF n = 0 THEN <<>>
                      ELSE IF s[n] \in S THEN Append(h[n - 1], s[n]) ELSE h[n - 1]
      BY <3>3, Zenon
    <3> QED
      BY <3>1, <3>2, <3>4
  <2>6. \A n \in 0..k : f[n] = IF n = 0 THEN <<>>
                      ELSE IF s[n] \in S THEN Append(f[n - 1], s[n]) ELSE f[n - 1]
    <3> TAKE n \in 0..k
    <3>1. CASE n = k
      BY <1>4, <2>1, <2>3, <2>4, <2>5, <3>1
    <3>2. CASE n # k
      <4>1. n \in 0..(k - 1) /\ (n # 0 => n - 1 \in 0..(k - 1))
        BY <2>1, <3>2
      <4> QED
        BY <2>5, <4>1
    <3> QED
      BY <3>1, <3>2
  <2>7. Kept(f, s, S, k)
    BY <2>4, <2>6 DEF Kept
  <2> QED
    BY <1>2, <2>7
<1> QED
  BY <1>3, <1>4

LEMMA AmongIn ==
  ASSUME NEW s, NEW S, Len(s) \in Nat PROVE Among(s, S) \in Seq(S)
<1>1. PICK N \in Nat : N = Len(s)
  OBVIOUS
<1>2. PICK f : f = CHOOSE g : Kept(g, s, S, N)
  OBVIOUS
<1>3. Kept(f, s, S, N)
  BY <1>2, KeptExists
<1>4. Among(s, S) = f[N]
  BY <1>1, <1>2, Zenon DEF Among, Kept
<1> DEFINE T == {k \in 0..N : f[k] \notin Seq(S)}
<1>5. T = {}
  <2>1. SUFFICES ASSUME T # {} PROVE FALSE
    OBVIOUS
  <2>2. PICK k \in T : \A j \in T : k <= j
    <3>1. T \in SUBSET Nat
      OBVIOUS
    <3> QED
      BY <2>1, <3>1, NatHasLeast
  <2>3. CASE k = 0
    BY <1>3, <2>3, NoCommands DEF Kept
  <2>4. CASE k # 0
    <3>1. k \in 0..N /\ k - 1 \in 0..N /\ k - 1 \notin T
      BY <2>2, <2>4
    <3>2. f[k - 1] \in Seq(S)
      BY <3>1
    <3>3. f[k] = IF s[k] \in S THEN Append(f[k - 1], s[k]) ELSE f[k - 1]
      BY <1>3, <2>4, <3>1 DEF Kept
    <3>4. f[k] \in Seq(S)
      BY <3>2, <3>3, AppendProperties
    <3> QED
      BY <2>2, <3>4
  <2> QED
    BY <2>3, <2>4
<1> QED
  BY <1>4, <1>5

(* The first of a sequence, and the names of its rows.                     *)
LEMMA FirstOnes ==
  ASSUME NEW S, NEW s \in Seq(S), NEW n \in Nat
  PROVE  LET t == FirstN(s, n) IN
           /\ t \in Seq(S) /\ Len(t) \in Nat /\ Len(t) <= n /\ Len(t) <= Len(s)
           /\ DOMAIN t = 1..Len(t) /\ \A i \in DOMAIN t : t[i] = s[i]
<1>1. Len(s) \in Nat /\ DOMAIN s = 1..Len(s)
  BY LenProperties
<1>2. PICK m \in Nat : m = IF n < Len(s) THEN n ELSE Len(s)
  BY <1>1
<1>3. m <= n /\ m <= Len(s)
  <2>1. \A j, k \in Nat : (IF j < k THEN j ELSE k) <= j /\ (IF j < k THEN j ELSE k) <= k
    OBVIOUS
  <2> QED
    BY <1>1, <1>2, <2>1
<1>4. PICK t : t = SubSeq(s, 1, m)
  OBVIOUS
<1>5. t \in Seq(S) /\ Len(t) = m /\ DOMAIN t = 1..m /\ \A i \in 1..m : t[i] = s[i]
  BY <1>1, <1>3, <1>4
<1>6. FirstN(s, n) = t
  BY <1>2, <1>4 DEF FirstN
<1> QED
  BY <1>3, <1>5, <1>6

LEMMA IdsOf ==
  ASSUME NEW rows, NEW n \in Nat, DOMAIN rows = 1..n
  PROVE  LET ids == Ids(rows) IN
           DOMAIN ids = 1..n /\ Len(ids) = n /\ \A i \in 1..n : ids[i] = rows[i].id
<1>1. Ids(rows) = [i \in 1..n |-> rows[i].id]
  BY DEF Ids
<1>2. Ids(rows) = [i \in 1..n |-> Ids(rows)[i]]
  BY <1>1
<1>3. Len(Ids(rows)) = n /\ DOMAIN Ids(rows) = 1..n
  BY <1>2, SameLength
<1> QED
  BY <1>1, <1>3

LEMMA MostRecentOf ==
  ASSUME NEW S, NEW rows \in Seq(S)
  PROVE  LET ids == MostRecent(rows) IN
           /\ Len(ids) \in Nat /\ DOMAIN ids = 1..Len(ids)
           /\ \A i \in DOMAIN ids : i \in DOMAIN rows /\ ids[i] = rows[i].id
<1>1. Len(rows) \in Nat /\ DOMAIN rows = 1..Len(rows)
  BY LenProperties
<1>2. PICK n \in Nat : n = IF TopIncidents = 0 THEN Len(rows) ELSE TopIncidents
  BY <1>1, IncidentsAssumption
<1>3. PICK t : t = FirstN(rows, n)
  OBVIOUS
<1>4. /\ Len(t) \in Nat /\ Len(t) <= Len(rows) /\ DOMAIN t = 1..Len(t)
      /\ \A i \in DOMAIN t : t[i] = rows[i]
  BY <1>3, FirstOnes
<1>5. MostRecent(rows) = Ids(t)
  BY <1>2, <1>3 DEF MostRecent
<1>6. PICK ids : ids = Ids(t)
  OBVIOUS
<1>7. DOMAIN ids = 1..Len(t) /\ Len(ids) = Len(t) /\ \A i \in 1..Len(t) : ids[i] = t[i].id
  BY <1>4, <1>6, IdsOf
<1>8. \A i \in 1..Len(t) : i \in DOMAIN rows /\ ids[i] = rows[i].id
  BY <1>1, <1>4, <1>7
<1> QED
  BY <1>4, <1>5, <1>6, <1>7, <1>8

(* An incident is real when it is a recent alert of the same name and not  *)
(* the alert itself; what is told of it, when its votes were cast.         *)
Happened(id) ==
  id # Alert.id /\ \E row \in ToSet(AlertRows) : row.id = id /\ row.name = Alert.name /\ row.recent

Cast(past) ==
  /\ past.up \in Nat /\ past.down \in Nat
  /\ past.up <= Count(DOMAIN votes, Up) /\ past.down <= Count(DOMAIN votes, Down)

Real(past) == Happened(past.id) /\ (past.id = Voted => Cast(past))

Request(metrics, history, runbooks, dependents) ==
  [metrics |-> metrics, history |-> history, runbooks |-> runbooks, dependents |-> dependents]

HistoryInv ==
  /\ Len(candidates) \in 0..PoolSize /\ candidates \in Seq(ToSet(candidates))
  /\ \A i \in DOMAIN candidates : Real(candidates[i])
  /\ request = Request(request.metrics, request.history, request.runbooks, request.dependents)
  /\ \A i \in DOMAIN request.history : Real(request.history[i])

LEMMA PastHappened ==
  /\ Len(Past) \in 0..PoolSize /\ Past \in Seq(ToSet(AlertRows))
  /\ \A i \in DOMAIN Past : Happened(Past[i].id)
<1> DEFINE S == {row \in ToSet(AlertRows) :
                   row.name = Alert.name /\ row.recent /\ row.id # Alert.id}
<1>1. Len(AlertRows) \in Nat /\ PoolSize \in Nat
  BY IncidentsAssumption, LenProperties
<1>2. Among(AlertRows, S) \in Seq(S)
  BY <1>1, AmongIn
<1>3. Past = FirstN(Among(AlertRows, S), PoolSize)
  BY DEF Past, Candidates
<1>4. \A row \in S : row \in ToSet(AlertRows) /\ Happened(row.id)
  BY DEF Happened
<1> HIDE DEF S
<1>5. PICK a \in Seq(S) : a = Among(AlertRows, S)
  BY <1>2
<1>6. Past \in Seq(S) /\ Len(Past) \in Nat /\ Len(Past) <= PoolSize /\ DOMAIN Past = 1..Len(Past)
  BY <1>1, <1>3, <1>5, FirstOnes
<1>7. ASSUME NEW i \in DOMAIN Past PROVE Past[i] \in S
  BY <1>6, ElementOfSeq
<1>8. \A i \in 1..Len(Past) : Past[i] \in ToSet(AlertRows)
  BY <1>4, <1>6, <1>7
<1>9. Past \in Seq(ToSet(AlertRows))
  <2>1. Past = [i \in 1..Len(Past) |-> Past[i]]
    BY <1>6, SeqDef
  <2>2. Past \in [1..Len(Past) -> ToSet(AlertRows)]
    BY <1>8, <2>1
  <2> QED
    BY <1>6, <2>2, SeqDef
<1> QED
  BY <1>1, <1>4, <1>6, <1>7, <1>9

LEMMA ToldReal ==
  ASSUME VoteInv, NEW ids, NEW n \in Nat, DOMAIN ids = 1..n, \A i \in 1..n : Happened(ids[i])
  PROVE  LET t == Told(ids) IN
           DOMAIN t = 1..n /\ Len(t) = n /\ \A i \in 1..n : Real(t[i])
<1>1. PICK t : t = Told(ids)
  OBVIOUS
<1>2. t = [i \in 1..n |->
     [id |-> ids[i], up |-> IF ids[i] = Voted THEN outcome.up ELSE 0,
      down |-> IF ids[i] = Voted THEN outcome.down ELSE 0]]
  BY <1>1 DEF Told
<1>3. t = [i \in 1..n |-> t[i]]
  BY <1>2
<1>4. DOMAIN t = 1..n /\ Len(t) = n
  BY <1>3, SameLength
<1>5. ASSUME NEW i \in 1..n PROVE Real(t[i])
  <2>1. t[i].id = ids[i] /\ (ids[i] = Voted => t[i].up = outcome.up /\ t[i].down = outcome.down)
    BY <1>2
  <2>2. /\ outcome.up \in Nat /\ outcome.down \in Nat
        /\ outcome.up <= Count(DOMAIN votes, Up) /\ outcome.down <= Count(DOMAIN votes, Down)
    BY DEF VoteInv, Truthful
  <2>3. t[i].id = Voted => Cast(t[i])
    BY <2>1, <2>2, Zenon DEF Cast
  <2> QED
    BY <2>1, <2>3 DEF Real
<1> QED
  BY <1>1, <1>4, <1>5

(* Whatever the ranking answers, what is taken of it is a candidate.       *)
LEMMA RankedOf ==
  ASSUME NEW S, NEW rows \in Seq(S), NEW ids, Len(ids) \in Nat
  PROVE  LET chosen == Ranked(rows, ids) IN
           /\ Len(chosen) \in Nat /\ DOMAIN chosen = 1..Len(chosen)
           /\ \A i \in DOMAIN chosen : \E k \in DOMAIN rows : chosen[i] = rows[k].id
<1>1. PICK I : I = ToSet(Ids(rows))
  OBVIOUS
<1>2. PICK known \in Seq(I) : known = Among(ids, I)
  BY AmongIn
<1>3. CASE known = <<>>
  <2>1. PICK chosen : chosen = MostRecent(rows)
    OBVIOUS
  <2>2. /\ Len(chosen) \in Nat /\ DOMAIN chosen = 1..Len(chosen)
        /\ \A i \in DOMAIN chosen : i \in DOMAIN rows /\ chosen[i] = rows[i].id
    BY <2>1, MostRecentOf
  <2>3. Ranked(rows, ids) = chosen
    BY <1>1, <1>2, <1>3, <2>1 DEF Ranked
  <2> QED
    BY <2>2, <2>3
<1>4. CASE known # <<>>
  <2>1. Ranked(rows, ids) = known
    BY <1>1, <1>2, <1>4 DEF Ranked
  <2>2. Len(known) \in Nat /\ DOMAIN known = 1..Len(known)
    BY LenProperties
  <2>3. \A i \in DOMAIN known : known[i] \in I
    BY <2>2, ElementOfSeq
  <2>4. Len(rows) \in Nat /\ DOMAIN rows = 1..Len(rows)
    BY LenProperties
  <2>5. \A x \in I : \E k \in DOMAIN rows : x = rows[k].id
    <3>1. PICK names : names = Ids(rows)
      OBVIOUS
    <3>2. DOMAIN names = DOMAIN rows /\ \A k \in DOMAIN rows : names[k] = rows[k].id
      BY <2>4, <3>1, IdsOf
    <3> QED
      BY <1>1, <3>1, <3>2 DEF ToSet
  <2> QED
    BY <2>1, <2>2, <2>3, <2>5
<1> QED
  BY <1>3, <1>4

LEMMA FoundReal ==
  ASSUME HistoryInv, NEW k \in DOMAIN candidates
  PROVE  Real(AsFound(candidates[k].id))
<1>1. PICK rows : rows = {row \in ToSet(candidates) : row.id = candidates[k].id}
  OBVIOUS
<1>2. candidates[k] \in rows
  BY <1>1 DEF ToSet
<1>3. AsFound(candidates[k].id) = CHOOSE row \in rows : TRUE
  BY <1>1, <1>2 DEF AsFound
<1>4. AsFound(candidates[k].id) \in rows
  BY <1>2, <1>3
<1>5. \A row \in rows : \E i \in DOMAIN candidates : row = candidates[i]
  BY <1>1 DEF ToSet
<1> QED
  BY <1>4, <1>5 DEF HistoryInv

LEMMA RealStays ==
  ASSUME VoteInv, [Next]_vars, NEW past, Real(past)
  PROVE  Real(past)'
<1>1. Happened(past.id)
  BY DEF Real
<1>2. CASE UNCHANGED votes
  BY <1>2 DEF Real, Cast, Happened, Count
<1>3. CASE \E p \in Presses : SaveFeedback(p) /\ ~UNCHANGED votes
  <2>1. PICK p \in Presses : callback[p].at = "save" /\ votes' = Voting(p)
    BY <1>3 DEF SaveFeedback, At
  <2>2. \A rating \in {Up, Down} :
             /\ Count(DOMAIN votes, rating) \in Nat /\ Count(DOMAIN votes, rating)' \in Nat
             /\ Count(DOMAIN votes, rating) <= Count(DOMAIN votes, rating)'
    BY <2>1, VotesGrow
  <2>3. Cast(past) => Cast(past)'
    BY <2>2 DEF Cast
  <2> QED
    BY <1>1, <2>3 DEF Real, Happened
<1>4. UNCHANGED votes \/ \E p \in Presses : SaveFeedback(p) /\ ~UNCHANGED votes
  <2>1. Pipeline => UNCHANGED votes
    BY DEF Pipeline, FetchMetrics, FindCandidates, RankIncidents, ReadRanking, FetchRunbooks,
      AskFails, AskAnswers, Apologise, TellAnalysis, CheckPlan, AssessCommand, TellPlan,
      CreateApproval, Decide, RunCommand, WaitForCommand, EndRun, Running, Elsewhere, feedbackVars
  <2>2. ProposeOther \/ EndOther => UNCHANGED votes
    BY DEF ProposeOther, EndOther
  <2>3. ASSUME NEW p \in Presses, Callback(p) PROVE UNCHANGED votes \/ SaveFeedback(p)
    BY <2>3 DEF Callback, Press, ListFeedback, ListApprovals, UpsertOutcome
  <2> QED
    BY <2>1, <2>2, <2>3 DEF Next, Others, vars, feedbackVars
<1> QED
  BY <1>2, <1>3, <1>4

(* The steps that leave the candidates and the history alone.              *)
LEMMA HistoryQuiet ==
  ASSUME HistoryInv, VoteInv, [Next]_vars, UNCHANGED candidates,
         NEW m, NEW r, NEW d, request' = Request(m, request.history, r, d)
  PROVE  HistoryInv'
<1>1. request'.history = request.history
  BY DEF Request
<1>2. request' = Request(request'.metrics, request'.history, request'.runbooks, request'.dependents)
  BY DEF Request
<1>3. ASSUME NEW i \in DOMAIN candidates PROVE Real(candidates[i])'
  <2>1. PICK past : past = candidates[i]
    OBVIOUS
  <2>2. Real(past)'
    BY <2>1, RealStays DEF HistoryInv
  <2> QED
    BY <2>1, <2>2 DEF Real, Cast, Happened
<1>4. ASSUME NEW i \in DOMAIN request.history PROVE Real(request.history[i])'
  <2>1. PICK past : past = request.history[i]
    OBVIOUS
  <2>2. Real(past)'
    BY <2>1, RealStays DEF HistoryInv
  <2> QED
    BY <1>1, <2>1, <2>2 DEF Real, Cast, Happened
<1>5. /\ Len(candidates') \in 0..PoolSize /\ candidates' \in Seq(ToSet(candidates'))
  BY DEF HistoryInv
<1> QED
  BY <1>1, <1>2, <1>3, <1>4, <1>5 DEF HistoryInv

LEMMA NoneFound ==
  ASSUME candidates' = <<>>,
         request' = Request(request'.metrics, request'.history, request'.runbooks, request'.dependents),
         \A i \in DOMAIN request'.history : Real(request.history[i])'
  PROVE  HistoryInv'
<1>1. DOMAIN candidates' = {} /\ candidates' \in Seq(ToSet(candidates')) /\ Len(candidates') = 0
  BY NoCommands
<1>2. Len(candidates') \in 0..PoolSize
  BY <1>1, IncidentsAssumption
<1> QED
  BY <1>1, <1>2 DEF HistoryInv

(* Told now, real afterwards: the steps of the pipeline add no votes.      *)
LEMMA SameReal ==
  ASSUME UNCHANGED votes, NEW past, Real(past) PROVE Real(past)'
BY DEF Real, Cast, Happened, Count

LEMMA HistoryFind ==
  ASSUME HistoryInv, VoteInv, [Next]_vars, FindCandidates, candidates = <<>>
  PROVE  HistoryInv'
<1>0. UNCHANGED votes
  BY DEF FindCandidates, Elsewhere, feedbackVars
<1>1. CASE candidates' = Told(Ids(Past)) /\ UNCHANGED request
  <2>1. Len(Past) \in 0..PoolSize /\ DOMAIN Past = 1..Len(Past) /\ Len(Past) \in Nat
    BY PastHappened, LenProperties
  <2>2. PICK ids : ids = Ids(Past)
    OBVIOUS
  <2>3. DOMAIN ids = 1..Len(Past) /\ \A i \in 1..Len(Past) : Happened(ids[i])
    BY <2>1, <2>2, IdsOf, PastHappened
  <2>4. PICK t : t = Told(ids)
    OBVIOUS
  <2>5. DOMAIN t = 1..Len(Past) /\ Len(t) = Len(Past) /\ \A i \in 1..Len(Past) : Real(t[i])
    BY <2>1, <2>3, <2>4, ToldReal
  <2>6. candidates' = t
    BY <1>1, <2>2, <2>4
  <2>7. t \in Seq(ToSet(t))
    <3>1. t = [i \in 1..Len(Past) |-> t[i]]
      BY <2>4, <2>3 DEF Told
    <3>2. t \in [1..Len(Past) -> ToSet(t)]
      BY <2>5, <3>1 DEF ToSet
    <3> QED
      BY <2>1, <3>2, SeqDef
  <2>8. ASSUME NEW i \in DOMAIN t PROVE Real(candidates[i])'
    <3>1. PICK past : past = t[i]
      OBVIOUS
    <3>2. Real(past)'
      BY <1>0, <2>5, <3>1, SameReal
    <3> QED
      BY <2>6, <3>1, <3>2 DEF Real, Cast, Happened
  <2>9. ASSUME NEW i \in DOMAIN request.history PROVE Real(request.history[i])'
    <3>1. PICK past : past = request.history[i]
      OBVIOUS
    <3>2. Real(past)'
      BY <1>0, <3>1, SameReal DEF HistoryInv
    <3> QED
      BY <1>1, <3>1, <3>2 DEF Real, Cast, Happened
  <2> QED
    BY <1>1, <2>1, <2>5, <2>6, <2>7, <2>8, <2>9 DEF HistoryInv
<1>2. CASE request' = [request EXCEPT !.history = Told(MostRecent(Past))] /\ UNCHANGED candidates
  <2>1. PICK ids : ids = MostRecent(Past)
    OBVIOUS
  <2>2. Len(ids) \in Nat /\ DOMAIN ids = 1..Len(ids) /\ \A i \in 1..Len(ids) : Happened(ids[i])
    BY <2>1, MostRecentOf, PastHappened
  <2>3. PICK t : t = Told(ids)
    OBVIOUS
  <2>4. DOMAIN t = 1..Len(ids) /\ \A i \in 1..Len(ids) : Real(t[i])
    BY <2>2, <2>3, ToldReal
  <2>5. request' = Request(request.metrics, t, request.runbooks, request.dependents)
    BY <1>2, <2>1, <2>3 DEF HistoryInv, Request
  <2>6. ASSUME NEW i \in DOMAIN t PROVE Real(request.history[i])'
    <3>1. PICK past : past = t[i]
      OBVIOUS
    <3>2. Real(past)'
      BY <1>0, <2>4, <3>1, SameReal
    <3>3. request'.history[i] = past
      BY <2>5, <3>1 DEF Request
    <3> QED
      BY <3>2, <3>3 DEF Real, Cast, Happened
  <2>7. candidates' = <<>>
    BY <1>2
  <2> QED
    BY <2>5, <2>6, <2>7, NoneFound DEF Request
<1>3. CASE UNCHANGED <<request, candidates>>
  BY <1>3, HistoryQuiet DEF HistoryInv
<1> QED
  BY <1>1, <1>2, <1>3 DEF FindCandidates

LEMMA HistoryRead ==
  ASSUME HistoryInv, VoteInv, ReadRanking
  PROVE  HistoryInv'
<1>0. UNCHANGED votes
  BY DEF ReadRanking, Elsewhere, feedbackVars
<1>1. PICK ids \in AnsweredIds :
        request' = [request EXCEPT !.history =
          [i \in DOMAIN Ranked(candidates, ids) |-> AsFound(Ranked(candidates, ids)[i])]]
  <2>1. PICK Ids0 : Ids0 = (IF heard.text \in ParsedRanking THEN AnsweredIds ELSE {<<>>})
    OBVIOUS
  <2>2. PICK ids \in Ids0 :
        request' = [request EXCEPT !.history =
          [i \in DOMAIN Ranked(candidates, ids) |-> AsFound(Ranked(candidates, ids)[i])]]
    BY <2>1 DEF ReadRanking
  <2>3. <<>> \in AnsweredIds
    BY DEF AnsweredIds
  <2>4. ids \in AnsweredIds
    BY <2>1, <2>2, <2>3
  <2> QED
    BY <2>2, <2>4
<1>2. Len(ids) \in Nat
  <2>1. CASE ids = <<>>
    BY <2>1
  <2>2. CASE \E x, y : ids = <<x, y>>
    BY <2>2
  <2>3. ids = <<>> \/ \E x, y : ids = <<x, y>>
    <3>1. PICK S : S = ToSet(Ids(candidates)) \cup {"of no alert"}
      OBVIOUS
    <3>2. AnsweredIds = {<<>>} \cup (S \X S)
      BY <3>1 DEF AnsweredIds
    <3>3. \A z \in S \X S : z = <<z[1], z[2]>>
      OBVIOUS
    <3> QED
      BY <3>2, <3>3
  <2> QED
    BY <2>1, <2>2, <2>3
<1>3. PICK chosen : chosen = Ranked(candidates, ids)
  OBVIOUS
<1>4. \A i \in DOMAIN chosen : \E k \in DOMAIN candidates : chosen[i] = candidates[k].id
  BY <1>2, <1>3, RankedOf DEF HistoryInv
<1>5. PICK t : t = [i \in DOMAIN chosen |-> AsFound(chosen[i])]
  OBVIOUS
<1>6. request' = Request(request.metrics, t, request.runbooks, request.dependents)
  BY <1>1, <1>3, <1>5 DEF HistoryInv, Request
<1>7. ASSUME NEW i \in DOMAIN t PROVE Real(request.history[i])'
  <2>1. PICK k \in DOMAIN candidates : t[i] = AsFound(candidates[k].id)
    BY <1>4, <1>5
  <2>2. PICK past : past = t[i]
    OBVIOUS
  <2>3. Real(past)'
    BY <1>0, <2>1, <2>2, FoundReal, SameReal
  <2>4. request'.history[i] = past
    BY <1>6, <2>2 DEF Request
  <2> QED
    BY <2>3, <2>4 DEF Real, Cast, Happened
<1>8. candidates' = <<>>
  BY DEF ReadRanking
<1> QED
  BY <1>6, <1>7, <1>8, NoneFound DEF Request

(* What is found is dropped again before it is looked for once more; the   *)
(* stages say so.                                                          *)
StageInv == pc \in {"metrics", "history"} => candidates = <<>>

LEMMA HistoryStep ==
  HistoryInv /\ StageInv /\ VoteInv /\ [Next]_vars => HistoryInv' /\ StageInv'
<1> SUFFICES ASSUME HistoryInv, StageInv, VoteInv, [Next]_vars PROVE HistoryInv' /\ StageInv'
  OBVIOUS
<1>1. CASE FetchMetrics
  <2>1. PICK m : request' = [request EXCEPT !.metrics = m, !.dependents = Alert.dependents]
    BY <1>1 DEF FetchMetrics
  <2>2. request' = Request(m, request.history, request.runbooks, Alert.dependents)
    BY <2>1 DEF HistoryInv, Request
  <2>3. UNCHANGED candidates /\ pc = "metrics"
    BY <1>1 DEF FetchMetrics, Goes
  <2> QED
    BY <2>2, <2>3, HistoryQuiet DEF StageInv
<1>2. CASE FindCandidates
  <2>1. pc = "history" /\ pc' \in {"rank", "runbooks"}
    BY <1>2 DEF FindCandidates
  <2> QED
    BY <1>2, <2>1, HistoryFind DEF StageInv
<1>3. CASE ReadRanking
  <2>1. pc' = "runbooks"
    BY <1>3 DEF ReadRanking, Goes
  <2> QED
    BY <1>3, <2>1, HistoryRead DEF StageInv
<1>4. CASE FetchRunbooks
  <2>1. PICK r : request' = [request EXCEPT !.runbooks = r]
    BY <1>4 DEF FetchRunbooks
  <2>2. request' = Request(request.metrics, request.history, r, request.dependents)
    BY <2>1 DEF HistoryInv, Request
  <2>3. UNCHANGED candidates /\ pc' = "ask"
    BY <1>4 DEF FetchRunbooks, Goes
  <2> QED
    BY <2>2, <2>3, HistoryQuiet DEF StageInv
<1>5. CASE UNCHANGED <<request, candidates>> /\ (pc' \in {"metrics", "history"} => pc' = pc)
  <2>1. request' = Request(request.metrics, request.history, request.runbooks, request.dependents)
    BY <1>5 DEF HistoryInv
  <2> QED
    BY <1>5, <2>1, HistoryQuiet DEF StageInv
<1>6. CASE request' = NoRequest /\ UNCHANGED candidates /\ pc' \notin {"metrics", "history"}
  <2>1. /\ request' = Request(request'.metrics, request'.history, request'.runbooks, request'.dependents)
        /\ DOMAIN request'.history = {}
    BY <1>6, NoCommands DEF NoRequest, Request
  <2>2. ASSUME NEW i \in DOMAIN candidates PROVE Real(candidates[i])'
    <3>1. PICK past : past = candidates[i]
      OBVIOUS
    <3>2. Real(past)'
      BY <3>1, RealStays DEF HistoryInv
    <3> QED
      BY <1>6, <3>1, <3>2 DEF Real, Cast, Happened
  <2> QED
    BY <1>6, <2>1, <2>2 DEF HistoryInv, StageInv
<1>7. CASE \/ RankIncidents \/ AskFails \/ AskAnswers \/ Apologise \/ TellAnalysis
           \/ CheckPlan \/ AssessCommand \/ TellPlan \/ CreateApproval \/ Decide
           \/ RunCommand \/ WaitForCommand \/ EndRun
  <2>1. \/ UNCHANGED <<request, candidates>> /\ (pc' \in {"metrics", "history"} => pc' = pc)
        \/ request' = NoRequest /\ UNCHANGED candidates /\ pc' \notin {"metrics", "history"}
    BY <1>7 DEF RankIncidents, AskFails, AskAnswers, Apologise, TellAnalysis, CheckPlan,
      AssessCommand, TellPlan, CreateApproval, Decide, RunCommand, WaitForCommand, EndRun,
      Running, Goes, contextVars, Dropped
  <2> QED
    BY <1>5, <1>6, <2>1
<1>8. Pipeline \/ (UNCHANGED <<request, candidates>> /\ pc' = pc)
  BY DEF Next, Others, vars, contextVars
<1> QED
  BY <1>1, <1>2, <1>3, <1>4, <1>5, <1>7, <1>8 DEF Pipeline

LEMMA HistoryAlways == Spec => [](HistoryInv /\ StageInv)
<1> DEFINE All == PlanInv /\ ExecInv /\ TableInv /\ VoteInv
<1>1. Init => HistoryInv /\ StageInv
  <2> SUFFICES ASSUME Init PROVE HistoryInv /\ StageInv
    OBVIOUS
  <2>1. candidates = <<>> /\ request = NoRequest
    BY DEF Init
  <2>2. /\ DOMAIN candidates = {} /\ candidates \in Seq(ToSet(candidates)) /\ Len(candidates) = 0
    BY <2>1, NoCommands
  <2>3. Len(candidates) \in 0..PoolSize
    BY <2>2, IncidentsAssumption
  <2>4. /\ request = Request(request.metrics, request.history, request.runbooks, request.dependents)
        /\ DOMAIN request.history = {}
    BY <2>1, NoCommands DEF NoRequest, Request
  <2> QED
    BY <2>1, <2>2, <2>3, <2>4 DEF HistoryInv, StageInv
<1>2. Spec => []All
  BY AnalysisAlways DEF All
<1>3. HistoryInv /\ StageInv /\ All /\ [Next]_vars => (HistoryInv /\ StageInv)'
  BY HistoryStep DEF All
<1> HIDE DEF All
<1> QED
  BY <1>1, <1>2, <1>3, PTL DEF Spec

(* The history told to the analysis is of recent alerts of the same name,  *)
(* never of the alert itself, with votes that were cast, whatever the      *)
(* ranking answers and whoever votes meanwhile (retriever.go, Retrieve).   *)
THEOREM HistoryHappened == Spec => []HistoryIsReal
<1>1. HistoryInv => HistoryIsReal
  <2> SUFFICES ASSUME HistoryInv PROVE HistoryIsReal
    OBVIOUS
  <2>1. ASSUME NEW i \in DOMAIN request.history, NEW past, past = request.history[i]
        PROVE  /\ past.id # Alert.id
               /\ \E row \in ToSet(AlertRows) : row.id = past.id /\ row.name = Alert.name /\ row.recent
               /\ past.id = Voted => /\ past.up <= Count(DOMAIN votes, Up)
                                     /\ past.down <= Count(DOMAIN votes, Down)
    <3>1. Real(past)
      BY <2>1 DEF HistoryInv
    <3> QED
      BY <3>1, Zenon DEF Real, Happened, Cast
  <2> QED
    BY <2>1 DEF HistoryIsReal
<1> QED
  BY <1>1, HistoryAlways, PTL

-----------------------------------------------------------------------------
(* What remains of the types: four small invariants.                       *)
Stages ==
  {"metrics", "history", "rank", "read", "runbooks", "ask", "apologise", "tell",
   "check", "impact", "record", "decide", "run", "ended"}

PlaceInv ==
  /\ Valid(config) /\ pc \in Stages
  /\ told \in {"nothing", "failed analysis", "analysis", "plan", "lost"}
  /\ attempt \in 0..MaxRetries

LEMMA PlaceStep == PlaceInv /\ [Next]_vars => PlaceInv'
<1> SUFFICES ASSUME PlaceInv, [Next]_vars PROVE PlaceInv'
  OBVIOUS
<1>0. MaxRetries \in Nat /\ 0 \in 0..MaxRetries
  BY AnalyzerAssumption
<1>1. CASE \/ FetchMetrics \/ FindCandidates \/ RankIncidents \/ ReadRanking \/ FetchRunbooks
           \/ AskAnswers \/ Apologise \/ TellAnalysis \/ CheckPlan \/ AssessCommand \/ TellPlan
           \/ CreateApproval \/ Decide \/ RunCommand \/ WaitForCommand \/ EndRun
  <2>1. /\ UNCHANGED config /\ pc' \in Stages
        /\ told' \in {told, "failed analysis", "analysis", "plan", "lost"}
        /\ attempt' \in {attempt, 0}
    BY <1>1 DEF FetchMetrics, FindCandidates, RankIncidents, ReadRanking, FetchRunbooks,
      AskAnswers, Apologise, TellAnalysis, CheckPlan, AssessCommand, TellPlan, CreateApproval,
      Decide, RunCommand, WaitForCommand, EndRun, Running, Elsewhere, Goes, NoPlanYet, cardVars,
      contextVars, Dropped, Tells, PlaceInv, Stages
  <2> QED
    BY <1>0, <2>1 DEF PlaceInv
<1>2. CASE AskFails
  <2>1. UNCHANGED <<config, told>> /\ pc' \in {"ask", "apologise"}
    BY <1>2 DEF AskFails, Elsewhere, NoPlanYet, cardVars
  <2>2. attempt' = 0 \/ (attempt' = NextAttempt(attempt) /\ NextAttempt(attempt) # GaveUp)
    BY <1>2 DEF AskFails, Dropped
  <2>3. NextAttempt(attempt) = GaveUp \/ NextAttempt(attempt) \in 0..MaxRetries
    <3>1. PICK m \in Nat : m = MaxRetries
      BY <1>0
    <3>2. attempt \in 0..m
      BY <3>1 DEF PlaceInv
    <3>3. PICK a \in 0..m : a = attempt
      BY <3>2
    <3>4. NextAttempt(attempt) = IF a < m THEN a + 1 ELSE GaveUp
      BY <3>1, <3>3 DEF NextAttempt
    <3>5. a < m => a + 1 \in 0..m
      OBVIOUS
    <3> QED
      BY <3>1, <3>4, <3>5
  <2> QED
    BY <1>0, <2>1, <2>2, <2>3 DEF PlaceInv, Stages
<1>3. Pipeline \/ UNCHANGED <<config, pc, told, attempt>>
  BY DEF Next, Others, vars, contextVars, cardVars
<1> QED
  BY <1>1, <1>2, <1>3 DEF Pipeline, PlaceInv

BooksInv ==
  /\ disk \in [Files -> Contents] /\ DOMAIN snapshot \subseteq Files
  /\ DOMAIN loaded.books \subseteq Files

LEMMA BooksOf == \A files \in SUBSET Files : DOMAIN Books(files) \subseteq Files
BY DEF Books, OnDisk

LEMMA BooksStep == BooksInv /\ [Next]_vars => BooksInv'
<1> SUFFICES ASSUME BooksInv, [Next]_vars PROVE BooksInv'
  OBVIOUS
<1>1. CASE UNCHANGED runbookVars
  BY <1>1 DEF BooksInv, runbookVars
<1>2. CASE LoadRunbooks
  <2>1. UNCHANGED <<disk, snapshot>>
    BY <1>2 DEF LoadRunbooks
  <2>2. PICK files \in SUBSET Files : loaded'.books = Books(files)
    <3>1. CASE loaded' = Load
      <4>1. Files \in SUBSET Files /\ {} \in SUBSET Files
        OBVIOUS
      <4>2. loaded'.books = Books(Files) \/ loaded'.books = Books({})
        BY <3>1 DEF Load
      <4> QED
        BY <4>1, <4>2
    <3>2. CASE \E walked \in SUBSET Files :
                 loaded' = [error |-> TRUE, books |-> Books(walked), loading |-> TRUE]
      BY <3>2
    <3> QED
      BY <1>2, <3>1, <3>2 DEF LoadRunbooks
  <2> QED
    BY <2>1, <2>2, BooksOf DEF BooksInv
<1>3. CASE SwapRunbooks
  <2>1. UNCHANGED disk /\ snapshot' \in {snapshot, loaded.books} /\ loaded' = NotLoading
    BY <1>3 DEF SwapRunbooks, Swapped
  <2>2. DOMAIN NotLoading.books = {}
    BY NoCommands DEF NotLoading
  <2> QED
    BY <2>1, <2>2 DEF BooksInv
<1>4. CASE EditRunbooks
  BY <1>4 DEF EditRunbooks, BooksInv
<1>5. UNCHANGED runbookVars \/ LoadRunbooks \/ SwapRunbooks \/ EditRunbooks
  <2>1. Pipeline => UNCHANGED runbookVars
    BY DEF Pipeline, FetchMetrics, FindCandidates, RankIncidents, ReadRanking, FetchRunbooks,
      AskFails, AskAnswers, Apologise, TellAnalysis, CheckPlan, AssessCommand, TellPlan,
      CreateApproval, Decide, RunCommand, WaitForCommand, EndRun, Running, Elsewhere
  <2> QED
    BY <2>1 DEF Next, Others, Reloads, vars
<1> QED
  BY <1>1, <1>2, <1>3, <1>4, <1>5

LEMMA RetrievedLength ==
  ASSUME BooksInv PROVE Len(Retrieved) <= TopRunbooks
<1> DEFINE matching == {f \in DOMAIN snapshot : Score(f) > 0}
           n == UpTo(Cardinality(matching), TopRunbooks)
<1>1. IsFiniteSet(matching) /\ Cardinality(matching) \in Nat
  BY RunbooksAssumption, FS_Subset, FS_CardinalityType DEF BooksInv
<1>2. TopRunbooks \in Nat
  BY RunbooksAssumption
<1>3. n \in Nat /\ n <= TopRunbooks
  <2>1. PICK k \in Nat : k = Cardinality(matching)
    BY <1>1
  <2>2. n = IF k < TopRunbooks THEN k ELSE TopRunbooks
    BY <2>1 DEF UpTo
  <2> HIDE DEF n
  <2> QED
    BY <1>2, <2>1, <2>2
<1>4. DOMAIN Retrieved = 1..n /\ Retrieved = [i \in 1..n |-> Retrieved[i]]
  BY DEF Retrieved
<1> HIDE DEF n
<1>5. Len(Retrieved) = n
  BY <1>3, <1>4, SameLength
<1> QED
  BY <1>3, <1>5

RequestInv ==
  /\ request.metrics \subseteq Queries /\ request.dependents \in {0, Alert.dependents}
  /\ Len(request.runbooks) <= TopRunbooks

LEMMA RequestStep == RequestInv /\ HistoryInv /\ BooksInv /\ [Next]_vars => RequestInv'
<1> SUFFICES ASSUME RequestInv, HistoryInv, BooksInv, [Next]_vars PROVE RequestInv'
  OBVIOUS
<1>1. CASE UNCHANGED request
  BY <1>1 DEF RequestInv
<1>2. ASSUME NEW m \in SUBSET Queries, NEW h, NEW d \in {0, Alert.dependents},
             NEW r, Len(r) <= TopRunbooks, request' = Request(m, h, r, d)
      PROVE  RequestInv'
  BY <1>2 DEF Request, RequestInv
<1>3. request = Request(request.metrics, request.history, request.runbooks, request.dependents)
  BY DEF HistoryInv
<1>4. CASE FetchMetrics
  <2>1. PICK m \in SUBSET Queries :
          request' = [request EXCEPT !.metrics = m, !.dependents = Alert.dependents]
    BY <1>4 DEF FetchMetrics
  <2>2. request' = Request(m, request.history, request.runbooks, Alert.dependents)
    BY <1>3, <2>1 DEF Request
  <2> QED
    BY <1>2, <2>2 DEF RequestInv
<1>5. CASE FetchRunbooks
  <2>1. PICK r : r = IF UsesRunbooks(config) THEN Retrieved ELSE <<>>
    OBVIOUS
  <2>2. request' = Request(request.metrics, request.history, r, request.dependents)
    BY <1>3, <1>5, <2>1 DEF Request, FetchRunbooks
  <2>3. Len(r) <= TopRunbooks
    BY <2>1, RetrievedLength, NoCommands, RunbooksAssumption
  <2> QED
    BY <1>2, <2>2, <2>3 DEF RequestInv
<1>6. CASE FindCandidates \/ ReadRanking
  <2>1. UNCHANGED request \/ \E h : request' = [request EXCEPT !.history = h]
    BY <1>6 DEF FindCandidates, ReadRanking
  <2>2. ASSUME NEW h, request' = [request EXCEPT !.history = h] PROVE RequestInv'
    <3>1. request' = Request(request.metrics, h, request.runbooks, request.dependents)
      BY <1>3, <2>2 DEF Request
    <3> QED
      BY <1>2, <3>1 DEF RequestInv
  <2> QED
    BY <1>1, <2>1, <2>2
<1>7. CASE request' = NoRequest
  <2>1. request' = Request({}, <<>>, <<>>, 0)
    BY <1>7 DEF NoRequest, Request
  <2>2. Len(<<>>) <= TopRunbooks
    BY NoCommands, RunbooksAssumption
  <2> QED
    BY <1>2, <2>1, <2>2
<1>8. CASE \/ RankIncidents \/ AskFails \/ AskAnswers \/ Apologise \/ TellAnalysis
           \/ CheckPlan \/ AssessCommand \/ TellPlan \/ CreateApproval \/ Decide
           \/ RunCommand \/ WaitForCommand \/ EndRun
  <2>1. UNCHANGED request \/ request' = NoRequest
    BY <1>8 DEF RankIncidents, AskFails, AskAnswers, Apologise, TellAnalysis, CheckPlan,
      AssessCommand, TellPlan, CreateApproval, Decide, RunCommand, WaitForCommand, EndRun,
      Running, contextVars, Dropped
  <2> QED
    BY <1>1, <1>7, <2>1
<1>9. Pipeline \/ UNCHANGED request
  BY DEF Next, Others, vars, contextVars
<1> QED
  BY <1>1, <1>4, <1>5, <1>6, <1>8, <1>9 DEF Pipeline

Progress == {"none", "running", "done", "failed"}

RunInv ==
  /\ job.at <= Len(plan)
  /\ \A i \in DOMAIN effect : effect[i] \in Progress

LEMMA BeganAt ==
  ASSUME NEW i, NEW c, Begin(i, c)
  PROVE  job'.at = i /\ (UNCHANGED effect \/ effect' = [effect EXCEPT ![i] = "running"])
<1>1. \E stage : job' = [at |-> i, stage |-> stage]
  BY Zenon DEF Begin
<1>2. UNCHANGED effect \/ effect' = [effect EXCEPT ![i] = "running"]
  BY Zenon DEF Begin
<1> QED
  BY <1>1, <1>2

LEMMA WaitedAt ==
  ASSUME ExecInv, WaitForCommand
  PROVE  job'.at = job.at /\ (UNCHANGED effect \/ effect' = [effect EXCEPT ![job.at] = "running"])
<1>1. ASSUME NEW x, job' = [job EXCEPT !.stage = x] PROVE job'.at = job.at
  BY <1>1 DEF ExecInv
<1>2. \E x : job' = [job EXCEPT !.stage = x]
  BY DEF WaitForCommand, Connect, Result, TimesOut, Returns
<1>3. UNCHANGED effect \/ effect' = [effect EXCEPT ![job.at] = "running"]
  BY DEF WaitForCommand, Connect, Result, TimesOut
<1> QED
  BY <1>1, <1>2, <1>3

LEMMA RunStep == RunInv /\ ExecInv /\ PlanInv /\ PlanInv' /\ [Next]_vars => RunInv'
<1> SUFFICES ASSUME RunInv, ExecInv, PlanInv, PlanInv', [Next]_vars PROVE RunInv'
  OBVIOUS
<1>1. ASSUME NEW i, NEW x \in Progress, effect' = [effect EXCEPT ![i] = x] \/ UNCHANGED effect
      PROVE  \A j \in DOMAIN effect' : effect'[j] \in Progress
  BY <1>1 DEF RunInv
<1>2. CASE UNCHANGED <<plan, job, effect>>
  BY <1>2 DEF RunInv
<1>3. CASE Others(MachineRuns /\ UNCHANGED <<runbookVars, feedbackVars>>)
  <2>1. UNCHANGED <<plan, job>>
    BY <1>3 DEF Others, MachineRuns
  <2>2. PICK i \in DOMAIN effect, x \in {"done", "failed"} : effect' = [effect EXCEPT ![i] = x]
    BY <1>3 DEF Others, MachineRuns
  <2>3. x \in Progress
    BY DEF Progress
  <2> QED
    BY <1>1, <2>1, <2>2, <2>3 DEF RunInv
<1>4. CASE RunCommand
  <2>1. UNCHANGED plan /\ job.at < Len(plan)
    BY <1>4 DEF RunCommand, Running
  <2>2. PICK n : n = job.at + 1
    OBVIOUS
  <2>3. job'.at = n /\ (UNCHANGED effect \/ effect' = [effect EXCEPT ![n] = "running"])
    BY <1>4, <2>2, BeganAt DEF RunCommand
  <2>4. n <= Len(plan)
    <3>1. job.at \in Nat /\ Len(plan) \in Nat
      BY DEF ExecInv, PlanInv
    <3> QED
      BY <2>1, <2>2, <3>1
  <2>5. "running" \in Progress
    BY DEF Progress
  <2> QED
    BY <1>1, <2>1, <2>3, <2>4, <2>5 DEF RunInv
<1>5. CASE WaitForCommand
  <2>1. UNCHANGED plan /\ "running" \in Progress
    BY <1>5 DEF WaitForCommand, Running, Progress
  <2> QED
    BY <1>1, <1>5, <2>1, WaitedAt DEF RunInv
<1>6. CASE Decide
  <2>1. UNCHANGED <<plan, job>> /\ effect' = [i \in DOMAIN plan |-> "none"]
    BY <1>6 DEF Decide
  <2> QED
    BY <2>1 DEF RunInv, Progress
<1>7. CASE pc \notin {"run", "ended"} /\ UNCHANGED jobVars
  <2>1. job.at = 0 /\ UNCHANGED <<job, effect>>
    BY <1>7 DEF ExecInv, NoJob, jobVars
  <2>2. job'.at <= Len(plan')
    BY <2>1 DEF PlanInv
  <2> QED
    BY <2>1, <2>2 DEF RunInv
<1>8. CASE \/ FetchMetrics \/ FindCandidates \/ RankIncidents \/ ReadRanking \/ FetchRunbooks
           \/ AskFails \/ AskAnswers \/ Apologise \/ TellAnalysis
           \/ CheckPlan \/ AssessCommand \/ TellPlan \/ CreateApproval
  <2>1. pc \notin {"run", "ended"} /\ UNCHANGED jobVars
    BY <1>8 DEF FetchMetrics, FindCandidates, RankIncidents, ReadRanking, FetchRunbooks,
      AskFails, AskAnswers, Apologise, TellAnalysis, CheckPlan, AssessCommand, TellPlan,
      CreateApproval, NoPlanYet, Goes
  <2> QED
    BY <1>7, <2>1
<1>9. CASE EndRun
  BY <1>2, <1>9 DEF EndRun, jobVars
<1>10. CASE \/ UNCHANGED vars
            \/ Others((Reloads \/ (UsesRunbooks(config) /\ EditRunbooks)) /\ UNCHANGED <<jobVars, feedbackVars>>)
            \/ Others((ProposeOther \/ EndOther \/ \E p \in Presses : Callback(p)) /\ UNCHANGED <<jobVars, runbookVars>>)
  BY <1>2, <1>10 DEF vars, Others, jobVars
<1> QED
  BY <1>3, <1>4, <1>5, <1>6, <1>8, <1>9, <1>10 DEF Next, Pipeline

RestInv == PlaceInv /\ BooksInv /\ RequestInv /\ RunInv

LEMMA RestAlways == Spec => []RestInv
<1> DEFINE All == PlanInv /\ ExecInv /\ TableInv /\ VoteInv
           Seen == HistoryInv /\ StageInv
<1>1. Init => RestInv
  <2> SUFFICES ASSUME Init PROVE RestInv
    OBVIOUS
  <2>1. /\ Valid(config) /\ pc = "metrics" /\ told = "nothing" /\ attempt = 0 /\ plan = <<>>
        /\ job = NoJob /\ effect = <<>> /\ request = NoRequest
    BY DEF Init
  <2>2. PlaceInv
    BY <2>1, AnalyzerAssumption DEF PlaceInv, Stages
  <2>3. RequestInv
    <3>1. request.metrics = {} /\ request.dependents = 0 /\ Len(request.runbooks) = 0
      BY <2>1, NoCommands DEF NoRequest
    <3> QED
      BY <3>1, RunbooksAssumption DEF RequestInv
  <2>4. RunInv
    <3>1. job.at = 0 /\ Len(plan) = 0 /\ DOMAIN effect = {}
      BY <2>1, NoCommands DEF NoJob
    <3> QED
      BY <3>1 DEF RunInv
  <2>5. BooksInv
    <3>1. /\ disk \in [Files -> Contents] /\ loaded = NotLoading
          /\ snapshot = <<>> \/ \E files \in SUBSET Files : snapshot = Books(files)
      <4>1. CASE UsesRunbooks(config)
        <5>1. /\ disk \in [Files -> Contents] /\ loaded = NotLoading
              /\ snapshot = Books(Files) \/ snapshot = Books({})
          BY <4>1 DEF Init, RunbooksInit
        <5>2. Files \in SUBSET Files /\ {} \in SUBSET Files
          OBVIOUS
        <5> QED
          BY <5>1, <5>2
      <4>2. CASE ~UsesRunbooks(config)
        <5>1. disk = [f \in Files |-> "absent"] /\ loaded = NotLoading /\ snapshot = <<>>
          BY <4>2 DEF Init
        <5> QED
          BY <5>1 DEF Contents
      <4> QED
        BY <4>1, <4>2
    <3>2. DOMAIN loaded.books = {}
      BY <3>1, NoCommands DEF NotLoading
    <3>3. DOMAIN snapshot \subseteq Files
      BY <3>1, BooksOf, NoCommands
    <3> QED
      BY <3>1, <3>2, <3>3 DEF BooksInv
  <2> QED
    BY <2>2, <2>3, <2>4, <2>5 DEF RestInv
<1>2. Spec => []All /\ []Seen
  BY AnalysisAlways, HistoryAlways DEF All, Seen
<1>3. RestInv /\ All /\ Seen /\ All' /\ [Next]_vars => RestInv'
  BY PlaceStep, BooksStep, RequestStep, RunStep DEF RestInv, All, Seen
<1> HIDE DEF All, Seen
<1> QED
  BY <1>1, <1>2, <1>3, PTL DEF Spec

LEMMA EstimateTypes ==
  ASSUME ImpactInv, NEW i \in DOMAIN impacts
  PROVE  LET e == impacts[i].estimate IN
         /\ e.severity \in Levels
         /\ e.confidence \in 100..1000 /\ e.share \in 0..100 /\ e.replicas \in Nat
         /\ Len(e.findings) > 0
<1> DEFINE e == impacts[i].estimate
<1>1. Estimated(plan[i], impacts[i])
  BY DEF ImpactInv
<1>2. e \in Assessments /\ e.severity \in Levels /\ Len(e.findings) # 0
  BY <1>1 DEF Estimated, Assessed
<1> HIDE DEF e
<1>3. /\ e.confidence \in 100..1000 /\ e.share \in 0..100 /\ e.replicas \in Nat
      /\ Len(e.findings) \in Nat
  BY <1>2, Fields, SMTT(30)
<1>4. \A n \in Nat : n # 0 => n > 0
  OBVIOUS
<1>5. Len(e.findings) > 0
  BY <1>2, <1>3, <1>4, Zenon
<1>6. /\ e.severity \in Levels
      /\ e.confidence \in 100..1000 /\ e.share \in 0..100 /\ e.replicas \in Nat
      /\ Len(e.findings) > 0
  BY <1>2, <1>3, <1>5, Zenon
<1> QED
  BY <1>6, Zenon DEF e

(* The types hold: the bounds of the numbers that the card and the prompt  *)
(* show among them (assessor.go, retriever.go, analyzer.go).               *)
THEOREM AnalysisTypeCorrect == Spec => []TypeOK
<1> DEFINE All == PlanInv /\ ExecInv /\ TableInv /\ VoteInv
           Carded == MarkInv /\ ImpactInv /\ CardInv /\ ExecInv
           Seen == HistoryInv /\ StageInv
<1>1. All /\ Carded /\ Seen /\ RestInv => TypeOK
  <2> SUFFICES ASSUME All, Carded, Seen, RestInv PROVE TypeOK
    OBVIOUS
  <2>1. /\ Valid(config) /\ pc \in Stages
        /\ told \in {"nothing", "failed analysis", "analysis", "plan", "lost"}
        /\ attempt \in 0..MaxRetries
    BY DEF RestInv, PlaceInv
  <2>2. /\ request.metrics \subseteq Queries /\ request.dependents \in {0, Alert.dependents}
        /\ Len(request.runbooks) <= TopRunbooks
    BY DEF RestInv, RequestInv
  <2>3. Len(candidates) <= PoolSize
    BY IncidentsAssumption DEF HistoryInv
  <2>4. plan \in Seq(PlanCommand) /\ Len(impacts) <= Len(plan) /\ Len(card) \in {0, Len(plan)}
    BY DEF MarkInv, ImpactInv, CardInv
  <2>5. \A i \in DOMAIN impacts : LET e == impacts[i].estimate IN
          /\ e.severity \in Levels
          /\ e.confidence \in 100..1000 /\ e.share \in 0..100 /\ e.replicas \in Nat
          /\ Len(e.findings) > 0
    <3> TAKE i \in DOMAIN impacts
    <3>1. ImpactInv
      OBVIOUS
    <3> HIDE DEF All, Carded, Seen
    <3> QED
      BY <3>1, EstimateTypes, Zenon
  <2>6. job.stage \in {"idle", "connect", "wait"} /\ job.at \in 0..Len(plan)
    <3>1. job.at \in Nat /\ Len(plan) \in Nat /\ job.at <= Len(plan)
      BY DEF ExecInv, PlanInv, RestInv, RunInv
    <3> QED
      BY <3>1 DEF ExecInv
  <2>7. \A i \in DOMAIN effect : effect[i] \in {"none", "running", "done", "failed"}
    BY DEF RestInv, RunInv, Progress
  <2>8. disk \in [Files -> Contents] /\ DOMAIN snapshot \subseteq Files
    BY DEF RestInv, BooksInv
  <2>9. \A i \in DOMAIN approvals : approvals[i].status \in Status
    <3>1. approvals \in Seq(ApprovalRow)
      BY DEF TableInv
    <3>2. DOMAIN approvals = 1..Len(approvals)
      BY <3>1, LenProperties
    <3>3. \A i \in DOMAIN approvals : approvals[i] \in ApprovalRow
      BY <3>1, <3>2, ElementOfSeq
    <3> QED
      BY <3>3 DEF ApprovalRow
  <2>10. /\ \A p \in Presses : callback[p].at \in CallbackAt
         /\ outcome.by \in Presses \cup {NoOne} /\ DOMAIN votes \subseteq Presses
    BY DEF VoteInv, CallbackInv, Truthful
  <2> QED
    BY <2>1, <2>2, <2>3, <2>4, <2>5, <2>6, <2>7, <2>8, <2>9, <2>10, Zenon
    DEF TypeOK, Stages, CallbackAt
<1> HIDE DEF All, Carded, Seen
<1>2. Spec => []All /\ []Carded /\ []Seen /\ []RestInv
  BY AnalysisAlways, CardAlways, HistoryAlways, RestAlways DEF All, Carded, Seen
<1> QED
  BY <1>1, <1>2, PTL
=============================================================================
