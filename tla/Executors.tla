----------------------------- MODULE Executors -----------------------------
(***************************************************************************)
(* internal/executor, below the router: a command of the running plan goes *)
(* to the executor of its type, kubectl or ssh, and its effect happens on  *)
(* another machine, which may be slower than the command's timeout.        *)
(*                                                                         *)
(* job is the command being executed:                                      *)
(*   at      its index in the plan, 0 before the first                     *)
(*   stage   "idle", "connect" (ssh only), "wait"                          *)
(* effect[i] is what happens on the machine, and report[i] what Execute    *)
(* returned: "success" or the reason of the failure, "" before.            *)
(***************************************************************************)
EXTENDS Settings, Safety

VARIABLES plan, job, effect, report

jobVars == <<job, effect, report>>

NoJob == [at |-> 0, stage |-> "idle"]

(* validateNamespace                                                       *)
NamespaceOK(cluster, namespace) ==
  cluster.namespaces = {} \/ "*" \in cluster.namespaces \/ namespace = ""
  \/ namespace \in cluster.namespaces

(* Why a command is refused before anything is started, "" when it is not. *)
Refusal_AnyType(c, config) ==
  CASE c.type = "k8s" /\ ~NamespaceOK(Cluster(config), c.namespace) -> "namespace"
    [] c.type = "ssh" /\ c.target \notin Hosts(config) -> "target"
    [] OTHER -> ""
Refusal(c, config) ==
  IF c.type \notin Installed(config) THEN "type"
  ELSE CASE c.type = "k8s" /\ ~NamespaceOK(Cluster(config), c.namespace) -> "namespace"
         [] c.type = "ssh" /\ c.target \notin Hosts(config) -> "target"
         [] OTHER -> ""

Returns(i, result) ==
  /\ job' = [job EXCEPT !.stage = "idle"]
  /\ report' = [report EXCEPT ![i] = result]

(* Execute begins: kubectl is started, or fails to start, and ssh connects *)
(* to the host, through its bastion if it has one, and opens a session.    *)
Begin(i, config) ==
  LET refusal == Refusal(plan[i], config)
  IN  \/ /\ refusal # ""
         /\ job' = [at |-> i, stage |-> "idle"]
         /\ report' = [report EXCEPT ![i] = refusal]
         /\ UNCHANGED effect
      \/ /\ refusal = "" /\ plan[i].type = "ssh"
         /\ job' = [at |-> i, stage |-> "connect"]
         /\ UNCHANGED <<effect, report>>
      \/ /\ refusal = "" /\ plan[i].type # "ssh"
         /\ \/ /\ job' = [at |-> i, stage |-> "wait"]
               /\ effect' = [effect EXCEPT ![i] = "running"]
               /\ UNCHANGED report
            \/ /\ job' = [at |-> i, stage |-> "idle"]
               /\ report' = [report EXCEPT ![i] = "not started"]
               /\ UNCHANGED effect

Connect ==
  /\ job.stage = "connect"
  /\ \/ /\ job' = [job EXCEPT !.stage = "wait"]
        /\ effect' = [effect EXCEPT ![job.at] = "running"]
        /\ UNCHANGED report
     \/ Returns(job.at, "connect") /\ UNCHANGED effect

(* The machine finishes a command, even one nobody waits for any longer.   *)
MachineRuns ==
  /\ \E i \in DOMAIN effect, outcome \in {"done", "failed"} :
       effect[i] = "running" /\ effect' = [effect EXCEPT ![i] = outcome]
  /\ UNCHANGED <<job, report>>

(* The result arrives; the connection breaks; or the timeout fires first,  *)
(* and the signal sent then may come too late.                             *)
Result == LET i == job.at IN
  /\ job.stage = "wait"
  /\ \/ effect[i] = "done" /\ Returns(i, "success")
     \/ effect[i] = "failed" /\ Returns(i, "exit code")
     \/ Returns(i, "connection")
  /\ UNCHANGED effect

TimesOut ==
  /\ job.stage = "wait" /\ Returns(job.at, "timeout")
  /\ UNCHANGED effect
=============================================================================
