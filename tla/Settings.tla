------------------------------ MODULE Settings ------------------------------
(***************************************************************************)
(* The configuration, internal/config, and what cmd/alert-genie/main.go    *)
(* builds from it: defaults, the checks that stop a start, the executors,  *)
(* and the optional parts of the pipeline.                                 *)
(***************************************************************************)
EXTENDS Integers, Sequences, SequencesExt

(* A cluster: its name, whether it can be reached (in the cluster or by a  *)
(* kubeconfig), and the namespaces it allows.  A target: its name, whether *)
(* its required fields are set, and whether its key can be read.           *)
WithDefaults(c) ==
  [c EXCEPT !.mode = IF @ = "" THEN "readonly" ELSE @,
            !.driver = IF @ = "" THEN "sqlite" ELSE @,
            !.minCandidates = IF @ = 0 THEN 2 ELSE @]

Valid(c) ==
  /\ c.mode \in {"readonly", "healing"}
  /\ c.endpoints                       \* Prometheus, Claude and Lark are set
  /\ c.chat => c.botId # "" /\ c.secret # ""
  /\ c.driver = "sqlite" \/ (c.driver = "postgres" /\ c.dsn)
  /\ c.mode = "healing" => c.clusters # <<>> \/ c.targets # <<>>
  /\ \A i \in DOMAIN c.clusters : c.clusters[i].name # "" /\ c.clusters[i].reachable
  /\ \A i \in DOMAIN c.targets : c.targets[i].name # "" /\ c.targets[i].complete

(* The executors are kept by the type of command: of several clusters the  *)
(* last one serves every kubectl, and one unreadable key leaves the        *)
(* program without ssh.                                                    *)
Installed(c) ==
  (IF c.clusters = <<>> THEN {} ELSE {"k8s"})
  \cup (IF c.targets # <<>> /\ \A i \in DOMAIN c.targets : c.targets[i].readable
        THEN {"ssh"} ELSE {})

Cluster(c) == Last(c.clusters)
Hosts(c) == {c.targets[i].name : i \in DOMAIN c.targets}

(* buildRetriever, buildRunbookRetriever, buildBlastRadiusAssessor         *)
UsesHistory(c) == c.historical
UsesRunbooks(c) == c.runbooks /\ c.directory
UsesImpact(c) == c.impact
=============================================================================
