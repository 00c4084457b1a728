---------------------------- MODULE BlastRadius ----------------------------
(***************************************************************************)
(* internal/blastradius: what a command would take down, estimated from    *)
(* Prometheus and the topology, and what the card shows of the estimate.   *)
(*                                                                         *)
(* What Prometheus answers about one command is a record                   *)
(*   replicas   of the workload, as of one series or summed over several   *)
(*   service    requests per second of the service                         *)
(*   total      requests per second of the cluster                         *)
(*   owner      of the pod: found, named by nobody, or the query failed    *)
(*   dependents services the topology lists downstream                     *)
(* and NoData stands for a query that failed, timed out, or had no points. *)
(* Confidence is counted in thousandths.                                   *)
(***************************************************************************)
EXTENDS Integers, Sequences

CONSTANTS HighShare, CriticalShare   \* thresholds, in percent of the traffic

ASSUME ShareAssumption == HighShare \in 1..100 /\ CriticalShare \in 1..100

NoData == -1

(* queryPodOwner: the answer may have no created_by_name, or not come.     *)
Owners == {"found", "nobody", "failed"}

Levels == {"low", "medium", "high", "critical"}
Rank(severity) ==
  CASE severity = "low" -> 1 [] severity = "medium" -> 2
    [] severity = "high" -> 3 [] severity = "critical" -> 4 [] OTHER -> 0

AtLeast_Last(severity, a) == [a EXCEPT !.severity = severity]
AtLeast(severity, a) ==
  IF Rank(severity) > Rank(a.severity) THEN [a EXCEPT !.severity = severity] ELSE a

Note(finding, a) == [a EXCEPT !.findings = Append(@, finding)]

NoDataNoted(a) ==
  [Note("no_data", a) EXCEPT !.confidence = IF @ \div 2 < 100 THEN 100 ELSE @ \div 2]

Blank(confidence, severity) ==
  [severity |-> severity, confidence |-> confidence, replicas |-> 0, share |-> 0,
   dependents |-> 0, findings |-> <<>>, upgrade |-> ""]

(* queryDeploymentReplicas and queryTrafficShare.                          *)
Replicas(w) == IF w.replicas = NoData THEN 0 ELSE w.replicas
AskReplicas(w, a) == IF w.replicas = NoData THEN NoDataNoted(a) ELSE a

ShareKnown(w) == w.service # NoData /\ w.total # NoData /\ w.total > 0
Share_Uncapped(w) == (100 * w.service) \div w.total
Share(w) == IF w.service > w.total THEN 100 ELSE (100 * w.service) \div w.total
AskShare_Silent(w, a) ==
  IF ShareKnown(w) THEN Note("traffic", [a EXCEPT !.share = Share(w)]) ELSE a
AskShare(w, a) ==
  IF ShareKnown(w) THEN Note("traffic", [a EXCEPT !.share = Share(w)]) ELSE NoDataNoted(a)

(* setSeverityFromTrafficAndReplicas.  The share is in whole percent, but  *)
(* any traffic at all is above zero.                                       *)
Busy(w) == ShareKnown(w) /\ w.service > 0
Weighed(n, w, a) ==
  AtLeast(CASE a.share >= CriticalShare -> "critical"
            [] a.share >= HighShare /\ a.share < CriticalShare -> "high"
            [] Busy(w) /\ a.share < HighShare /\ a.share < CriticalShare -> "medium"
            [] OTHER -> IF n = 1 THEN "medium" ELSE "low", a)

WithDependents(w, a) ==
  IF w.dependents = 0 THEN a ELSE Note("downstream", [a EXCEPT !.dependents = w.dependents])

Restart(w) ==
  LET n == Replicas(w)
      asked == [AskReplicas(w, Blank(800, "")) EXCEPT !.replicas = n]
      told == IF n = 0 THEN asked
              ELSE Note(IF n = 1 THEN "full outage" ELSE IF n = 2 THEN "halved" ELSE "rolling", asked)
  IN  WithDependents(w, Weighed(n, w, AskShare(w, told)))

Scale(target, w) ==
  LET n == Replicas(w)
      asked == [AskShare(w, AskReplicas(w, Blank(850, "")))
                  EXCEPT !.replicas = IF n > target THEN n - target ELSE target - n]
      told == IF n > 0 /\ target = 0 THEN Note("offline", AtLeast("critical", asked))
              ELSE IF target < n /\ 2 * (n - target) > n THEN Note("over half", AtLeast("high", asked))
              ELSE IF n > 0 /\ target > n THEN Note("added", asked)
              ELSE IF n = target THEN Note("no-op", asked)
              ELSE asked
  IN  WithDependents(w, Weighed(n, w, told))

Undo(w) ==
  LET n == Replicas(w)
      asked == Note("previous image", [AskReplicas(w, Blank(700, "")) EXCEPT !.replicas = n])
  IN  WithDependents(w, AtLeast("medium", Weighed(n, w, AskShare(w, asked))))

(* Only an owner that could not be asked for is missing data; a pod that   *)
(* nobody owns keeps the confidence.                                       *)
DeletePod(w) ==
  LET n == Replicas(w)
      start == [Blank(600, "medium") EXCEPT !.replicas = 1]
      asked == AskReplicas(w, start)
  IN  IF w.owner = "failed" THEN Note("owner unknown", NoDataNoted(start))
      ELSE IF w.owner = "nobody" THEN Note("owner unknown", start)
      ELSE IF n = 0 THEN asked
      ELSE Note("share of pods", IF n = 1 THEN AtLeast("high", asked) ELSE asked)

Fixed(confidence, severity, finding) == Note(finding, Blank(confidence, severity))
OnHost(confidence, severity, finding) ==
  [Fixed(confidence, severity, finding) EXCEPT !.replicas = 1]

(* The handler by the shape of the text; a resource may be written either  *)
(* way here.                                                               *)
Estimate(c, w) ==
  CASE c.kind = "rollout restart" -> Restart(w)
    [] c.kind = "scale" -> Scale(c.replicas, w)
    [] c.kind = "rollout undo" -> Undo(w)
    [] c.kind = "delete pod" -> DeletePod(w)
    [] c.kind = "patch configmap" -> Fixed(500, "medium", "restart needed")
    [] c.kind = "patch hpa" -> Fixed(500, "low", "thresholds")
    [] c.kind = "systemctl stop" -> OnHost(700, "critical", "offline")
    [] c.kind = "systemctl restart" -> OnHost(600, "medium", "brief downtime")
    [] c.kind \in {"find delete", "rm log"} -> Fixed(500, "low", "disk")
    [] OTHER -> Fixed(300, "medium", "no_data")

(* applyRiskUpgrade: any level that is not one of the four ranks below     *)
(* low, and only a missing level is never upgraded.                        *)
Upgraded(c, a) ==
  IF c.risk # "" /\ Rank(a.severity) > Rank(c.risk) THEN [a EXCEPT !.upgrade = a.severity] ELSE a

Normal(a) ==
  IF a.findings # <<>> THEN a
  ELSE [a EXCEPT !.confidence = 200, !.severity = "medium", !.findings = <<"no_data">>]

Assess(c, w) == Normal(Upgraded(c, Estimate(c, w)))

(* renderBlastRadius: two findings, and the number of the others.          *)
Shown(a) == SubSeq(a.findings, 1, IF Len(a.findings) < 2 THEN Len(a.findings) ELSE 2)
=============================================================================
