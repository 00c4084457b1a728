-------------------------- MODULE MCAlertAnalysis --------------------------
(***************************************************************************)
(* A small instance of AlertAnalysis.  The setups keep apart what does not *)
(* interact, so that their states add up instead of multiplying: past      *)
(* incidents with votes coming in, incidents that are ranked, runbooks     *)
(* that are edited, plans that are estimated, and plans that run.          *)
(***************************************************************************)
EXTENDS AlertAnalysis

MCAlert == [id |-> "a0", name |-> "HighCPU", dependents |-> 1]
Row(id, name, recent) == [id |-> id, name |-> name, recent |-> recent]
MCAlertRows ==
  <<Row("a0", "HighCPU", TRUE), Row("x", "DiskFull", TRUE), Row("a1", "HighCPU", TRUE),
    Row("a2", "HighCPU", TRUE), Row("a3", "HighCPU", TRUE), Row("a4", "HighCPU", TRUE),
    Row("a5", "HighCPU", FALSE)>>

MCRelevance == [r \in {1, 2} \X {"bare", "full"} |->
  CASE r = <<1, "full">> -> [exact |-> TRUE, keywords |-> 0, tags |-> 0]
    [] r = <<1, "bare">> -> [exact |-> FALSE, keywords |-> 0, tags |-> 0]
    [] r = <<2, "full">> -> [exact |-> FALSE, keywords |-> 6, tags |-> 7]
    [] r = <<2, "bare">> -> [exact |-> FALSE, keywords |-> 5, tags |-> 0]]

MCAnswers ==
  {[replicas |-> n, service |-> rate[1], total |-> rate[2], owner |-> found, dependents |-> d] :
     n \in {NoData, 0, 1, 2, 4}, rate \in {<<NoData, 100>>, <<3, 1000>>, <<50, 100>>, <<130, 100>>, <<5, 0>>},
     found \in Owners, d \in {0, 2}}

----------------------------------------------------------------------------
Command(step, kind, type, risk) ==
  [step |-> step, kind |-> kind, slash |-> FALSE, trait |-> "plain", type |-> type,
   target |-> IF type = "ssh" THEN "web" ELSE "", namespace |-> "prod", replicas |-> 0,
   risk |-> risk, marked |-> FALSE]
Scaled(step, n) == [Command(step, "scale", "k8s", "low") EXCEPT !.replicas = n]

ByRisk ==
  {<<Command(1, kind, "k8s", risk)>> :
     kind \in {"rollout restart", "delete pod"}, risk \in {"", "low", "critical", "severe"}}
ByKind ==
  {<<Command(1, kind, "k8s", "low")>> :
     kind \in {"get", "rollout undo", "patch configmap", "patch hpa", "kubectl exec"}}
  \cup {<<Command(1, kind, "ssh", "medium")>> :
     kind \in {"df", "systemctl stop", "systemctl restart", "rm log", "rm -rf"}}
  \cup {<<Scaled(1, n)>> : n \in {0, 1, 3}}
ByText ==
  {<<[Command(1, kind, "k8s", "low") EXCEPT !.trait = t, !.slash = s]>> :
     kind \in {"get", "rollout restart"}, t \in Traits, s \in BOOLEAN}
ByPlace ==
  {<<[Command(1, "get", type, "low") EXCEPT !.namespace = n, !.target = host]>> :
     type \in {"", "k8s", "ssh", "kubectl_scale"}, n \in {"", "prod", "dev"}, host \in {"web", "db"}}
Pairs ==
  {<<Scaled(1, 0), Command(n, "rollout restart", "k8s", "low")>> : n \in {1, 2}}
  \cup {<<Command(1, "df", "ssh", ""), Command(2, "systemctl restart", "ssh", "low"), Scaled(3, 0)>>}

MCPlans == {<<>>} \cup ByRisk \cup ByKind \cup ByText \cup ByPlace \cup Pairs

----------------------------------------------------------------------------
Base ==
  [mode |-> "", driver |-> "", dsn |-> FALSE, endpoints |-> TRUE, chat |-> FALSE,
   botId |-> "", secret |-> "", clusters |-> <<>>, targets |-> <<>>, historical |-> FALSE,
   minCandidates |-> 0, runbooks |-> FALSE, directory |-> TRUE, impact |-> FALSE,
   autoUpgrade |-> FALSE]

ACluster(spaces) == [name |-> "main", reachable |-> TRUE, namespaces |-> spaces]
Host(readable) == [name |-> "web", complete |-> TRUE, readable |-> readable]
Healing ==
  [Base EXCEPT !.mode = "healing", !.clusters = <<ACluster({"dev"}), ACluster({"prod"})>>,
               !.targets = <<Host(TRUE)>>]

(* The approvals of others, which nobody votes on.                         *)
Full == [i \in 1..MaxApprovals |-> [alert |-> "another", status |-> "rejected"]]
Quiet(c) == [config |-> c, approvals |-> Full]

MCSetups ==
  {[config |-> [Base EXCEPT !.historical = TRUE, !.minCandidates = 9],
    approvals |-> <<[alert |-> Voted, status |-> "completed"]>>]}
  \cup {Quiet(c) : c \in
    {[Base EXCEPT !.historical = TRUE],
     [Base EXCEPT !.runbooks = TRUE, !.chat = TRUE, !.botId = "bot", !.secret = "s"],
     [Healing EXCEPT !.targets = <<Host(FALSE)>>],
     [Healing EXCEPT !.clusters = <<ACluster({})>>, !.driver = "postgres", !.dsn = TRUE]}}
  \cup {Quiet([Healing EXCEPT !.impact = TRUE, !.autoUpgrade = up]) : up \in BOOLEAN}
  \cup {Quiet(c) : c \in                                   \* do not start
    {[Base EXCEPT !.mode = "healing"], [Base EXCEPT !.driver = "mysql"],
     [Base EXCEPT !.driver = "postgres"], [Base EXCEPT !.chat = TRUE],
     [Base EXCEPT !.endpoints = FALSE],
     [Healing EXCEPT !.clusters[1].reachable = FALSE]}}
=============================================================================
