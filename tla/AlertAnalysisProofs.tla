------------------------ MODULE AlertAnalysisProofs ------------------------
(***************************************************************************)
(* Proofs about AlertAnalysis for every configuration, plan, answer and    *)
(* bound.                                                                  *)
(***************************************************************************)
EXTENDS AlertAnalysis, SequenceTheorems, FiniteSetTheorems,
        WellFoundedInduction, TLAPS

-----------------------------------------------------------------------------
(* The plan is numbered from one without gaps, whatever is done to it.     *)
PlanInv == Len(plan) \in Nat /\ DOMAIN plan = 1..Len(plan)

(* A function whose domain is that of a sequence is one of that length.    *)
LEMMA SameLength ==
  ASSUME NEW s, NEW n \in Nat, s = [i \in 1..n |-> s[i]]
  PROVE  Len(s) = n /\ DOMAIN s = 1..n
<1>1. s \in [1..n -> {s[i] : i \in 1..n}]
  OBVIOUS
<1>2. s \in Seq({s[i] : i \in 1..n})
  BY <1>1, SeqDef
<1> QED
  BY <1>2, LenProperties

LEMMA PlanStep == PlanInv /\ [Next]_vars => PlanInv'
<1> SUFFICES ASSUME PlanInv, [Next]_vars PROVE PlanInv'
  OBVIOUS
<1>1. CASE UNCHANGED plan
  BY <1>1 DEF PlanInv
<1>2. CASE AskAnswers /\ ~UNCHANGED plan
  <2>1. plan' \in Plans
    BY <1>2 DEF AskAnswers
  <2>2. plan' \in Seq(PlanCommand)
    BY <2>1, AnalysisAssumption
  <2> QED
    BY <2>2, LenProperties DEF PlanInv
<1>3. CASE CheckPlan
  <2>1. DOMAIN plan' = 1..Len(plan) /\ plan' = [i \in 1..Len(plan) |-> plan'[i]]
    BY <1>3 DEF CheckPlan, PlanInv
  <2> QED
    BY <2>1, SameLength DEF PlanInv
<1>4. CASE AssessCommand
  <2>1. PICK k, risk : plan' = [plan EXCEPT ![k].risk = risk]
    BY <1>4 DEF AssessCommand
  <2>2. DOMAIN plan' = DOMAIN plan /\ plan' = [i \in DOMAIN plan |-> plan'[i]]
    BY <2>1
  <2> QED
    BY <2>2, SameLength DEF PlanInv
<1>5. Pipeline => UNCHANGED plan \/ (AskAnswers /\ ~UNCHANGED plan) \/ CheckPlan \/ AssessCommand
  BY DEF Pipeline, FetchMetrics, FindCandidates, RankIncidents, ReadRanking, FetchRunbooks,
         AskFails, Apologise, TellAnalysis, TellPlan, CreateApproval, Decide, RunCommand,
         WaitForCommand, EndRun, NoPlanYet, Running
<1>6. [Next]_vars => Pipeline \/ UNCHANGED plan
  BY DEF Next, Others, vars
<1> QED
  BY <1>1, <1>2, <1>3, <1>4, <1>5, <1>6

-----------------------------------------------------------------------------
(* The execution.  A command fits when an executor can run it and all      *)
(* before it were done; what is so of a command at every moment.           *)
Fits(i) ==
  /\ plan[i].type \in Installed(config)
  /\ plan[i].type = "ssh" => plan[i].target \in Hosts(config)
  /\ \A j \in 1..(i - 1) : j \in DOMAIN effect /\ effect[j] = "done"

NotRun == {"type", "namespace", "target", "connect", "not started"}

Untouched(i) == effect[i] = "none" /\ report[i] = ""

CommandInv(i) ==
  /\ i > job.at => Untouched(i)
  /\ report[i] = "success" => effect[i] = "done"
  /\ report[i] \in NotRun => effect[i] = "none"
  /\ effect[i] # "none" => Fits(i)
  /\ i = job.at /\ job.stage = "connect" => Untouched(i) /\ Fits(i)
  /\ i = job.at /\ job.stage = "wait" => report[i] = ""

ExecInv ==
  /\ job \in [at : Nat, stage : {"idle", "connect", "wait"}]
  /\ DOMAIN report = DOMAIN effect /\ DOMAIN effect \subseteq Nat
  /\ effect = [i \in DOMAIN effect |-> effect[i]] /\ report = [i \in DOMAIN report |-> report[i]]
  /\ pc \notin {"run", "ended"} => DOMAIN effect = {} /\ job = NoJob
  /\ pc = "run" => DOMAIN effect = DOMAIN plan
  /\ \A i \in DOMAIN effect : CommandInv(i)

(* Before the run the plan may still change.                               *)
LEMMA ExecBefore ==
  ASSUME ExecInv, pc \notin {"run", "ended"}, pc' # "run", UNCHANGED jobVars
  PROVE  ExecInv'
BY DEF ExecInv, jobVars

(* Later what does not touch it leaves plan and configuration alone.       *)
LEMMA ExecQuiet ==
  ASSUME ExecInv, UNCHANGED <<config, plan, jobVars>>,
         pc' = pc \/ pc' = "ended"
  PROVE  ExecInv'
<1>1. \A i : Fits(i)' <=> Fits(i)
  BY DEF Fits, jobVars
<1>2. \A i : CommandInv(i)' <=> CommandInv(i)
  BY <1>1 DEF CommandInv, Untouched, jobVars
<1> QED
  BY <1>2 DEF ExecInv, jobVars

(* A refusal and what Execute returns are written for the command at hand. *)
LEMMA ExecReturns ==
  ASSUME ExecInv, NEW result, job.stage # "idle", Returns(job.at, result),
         UNCHANGED <<config, plan, effect, pc>>,
         job.at \in DOMAIN effect /\ result = "success" => effect[job.at] = "done",
         job.at \in DOMAIN effect /\ result \in NotRun => effect[job.at] = "none"
  PROVE  ExecInv'
<1>1. /\ job' = [job EXCEPT !.stage = "idle"] /\ job'.at = job.at /\ job'.stage = "idle"
      /\ job' \in [at : Nat, stage : {"idle", "connect", "wait"}]
  BY DEF ExecInv, Returns
<1>2. /\ DOMAIN report' = DOMAIN report /\ report' = [i \in DOMAIN report' |-> report'[i]]
      /\ \A i \in DOMAIN report : report'[i] = IF i = job.at THEN result ELSE report[i]
  BY DEF ExecInv, Returns
<1>3. \A i : Fits(i)' <=> Fits(i)
  BY DEF Fits
<1>4. pc \in {"run", "ended"}
  <2>1. NoJob.stage = "idle"
    BY DEF NoJob
  <2>2. pc \notin {"run", "ended"} => job = NoJob
    BY DEF ExecInv
  <2> QED
    BY <2>1, <2>2
<1>5. ASSUME NEW i \in DOMAIN effect PROVE CommandInv(i)'
  <2>1. CommandInv(i)
    BY DEF ExecInv
  <2>2. CASE i = job.at
    <3>1. report'[i] = result /\ job.at \in Nat
      BY <1>2, <2>2 DEF ExecInv
    <3>2. ~(i > job'.at)
      BY <1>1, <2>2, <3>1
    <3>3. effect'[i] # "none" => Fits(i)'
      BY <1>3, <2>1 DEF CommandInv
    <3> QED
      BY <1>1, <2>2, <3>1, <3>2, <3>3 DEF CommandInv
  <2>3. CASE i # job.at
    <3>1. report'[i] = report[i]
      BY <1>2, <2>3 DEF ExecInv
    <3> QED
      BY <1>1, <1>3, <2>1, <2>3, <3>1 DEF CommandInv, Untouched
  <2> QED
    BY <2>2, <2>3
<1> QED
  BY <1>1, <1>2, <1>4, <1>5 DEF ExecInv

(* Beginning the next command leaves what is so of the others.             *)
LEMMA OthersStay ==
  ASSUME ExecInv, NEW n \in Nat, n = job.at + 1, job'.at = n, UNCHANGED <<plan, config>>,
         DOMAIN effect' = DOMAIN effect,
         \A k \in DOMAIN effect : k # n => effect'[k] = effect[k] /\ report'[k] = report[k],
         NEW i \in DOMAIN effect, i # n
  PROVE  CommandInv(i)'
<1>1. i \in Nat /\ job.at \in Nat /\ CommandInv(i)
  BY DEF ExecInv
<1>2. effect'[i] = effect[i] /\ report'[i] = report[i]
  OBVIOUS
<1>3. CASE i > n
  <2>0. i > job.at /\ ~(i = n)
    BY <1>1, <1>3
  <2>1. effect[i] = "none" /\ report[i] = ""
    BY <1>1, <2>0, Zenon DEF CommandInv, Untouched
  <2>2. effect'[i] = "none" /\ report'[i] = "" /\ "" \notin NotRun /\ ~(i = job'.at)
    BY <1>2, <2>0, <2>1 DEF NotRun
  <2>3. "none" # "running" /\ "" # "success" /\ ~("none" # "none")
    OBVIOUS
  <2> QED
    BY <2>2, <2>3, Zenon DEF CommandInv, Untouched
<1>4. CASE i < n
  <2>1. ~(i > job'.at) /\ ~(i = job'.at)
    BY <1>1, <1>4
  <2>2. Fits(i) => Fits(i)'
    BY <1>1, <1>4 DEF Fits
  <2> QED
    BY <1>1, <1>2, <2>1, <2>2, Zenon DEF CommandInv
<1> QED
  BY <1>1, <1>3, <1>4

LEMMA RefusalKind ==
  ASSUME NEW c PROVE Refusal(c, config) \in {"", "type", "namespace", "target"}
BY DEF Refusal

(* The router goes on only after successes, which were done.               *)
LEMMA ExecRun ==
  ASSUME ExecInv, PlanInv, RunCommand
  PROVE  ExecInv'
<1>0. PICK n : n = job.at + 1
  OBVIOUS
<1>1. /\ pc = "run" /\ job.stage = "idle" /\ Succeeded(job.at) /\ job.at < Len(plan)
      /\ Begin(n, config) /\ UNCHANGED <<pc, plan, config>>
  BY <1>0 DEF RunCommand, Running, Elsewhere
<1>2. job.at \in Nat /\ n \in Nat /\ n \in DOMAIN effect /\ n > job.at /\ DOMAIN effect = DOMAIN plan
  BY <1>0, <1>1 DEF ExecInv, PlanInv
<1>3. Untouched(n)
  BY <1>2, Zenon DEF ExecInv, CommandInv
<1>4. \A j \in 1..(n - 1) : j \in DOMAIN effect /\ effect[j] = "done"
  BY <1>0, <1>1, <1>2 DEF Succeeded, ExecInv, PlanInv, CommandInv
<1>5. Refusal(plan[n], config) = "" => Fits(n)
  BY <1>4 DEF Refusal, Fits
<1>6. /\ DOMAIN report = DOMAIN effect /\ DOMAIN effect \subseteq Nat
      /\ effect = [i \in DOMAIN effect |-> effect[i]] /\ report = [i \in DOMAIN report |-> report[i]]
  BY DEF ExecInv
<1>7. ASSUME NEW s \in {"idle", "connect", "wait"}, job' = [at |-> n, stage |-> s],
             NEW e, NEW t, effect' = [effect EXCEPT ![n] = e], report' = [report EXCEPT ![n] = t],
             CommandInv(n)'
      PROVE  ExecInv'
  <2>1. /\ DOMAIN effect' = DOMAIN effect /\ DOMAIN report' = DOMAIN report
        /\ effect' = [i \in DOMAIN effect' |-> effect'[i]] /\ report' = [i \in DOMAIN report' |-> report'[i]]
        /\ \A k \in DOMAIN effect : k # n => effect'[k] = effect[k] /\ report'[k] = report[k]
    BY <1>6, <1>7
  <2>2. job'.at = n /\ n = job.at + 1
    BY <1>0, <1>7
  <2>3. \A i \in DOMAIN effect' : CommandInv(i)'
    BY <1>1, <1>2, <1>7, <2>1, <2>2, OthersStay
  <2> QED
    BY <1>1, <1>2, <1>6, <1>7, <2>1, <2>3 DEF ExecInv
<1>8. CASE /\ Refusal(plan[n], config) # ""
           /\ job' = [at |-> n, stage |-> "idle"]
           /\ report' = [report EXCEPT ![n] = Refusal(plan[n], config)]
           /\ UNCHANGED effect
  <2>1. effect'[n] = "none" /\ report'[n] # "success"
    BY <1>2, <1>3, <1>6, <1>8, RefusalKind DEF Untouched
  <2>2. effect' = [effect EXCEPT ![n] = effect[n]]
    BY <1>6, <1>8
  <2>3. job'.at = n /\ job'.stage = "idle"
    BY <1>8
  <2>4. CommandInv(n)'
    BY <1>2, <2>1, <2>3 DEF CommandInv
  <2> QED
    BY <1>7, <1>8, <2>2, <2>4
<1>9. CASE /\ Refusal(plan[n], config) = ""
           /\ job' = [at |-> n, stage |-> "connect"] /\ UNCHANGED <<effect, report>>
  <2>1. Untouched(n)' /\ Fits(n)'
    BY <1>1, <1>3, <1>5, <1>9 DEF Untouched, Fits
  <2>2. effect' = [effect EXCEPT ![n] = effect[n]] /\ report' = [report EXCEPT ![n] = report[n]]
    BY <1>6, <1>9
  <2>3. job'.at = n /\ job'.stage = "connect"
    BY <1>9
  <2>4. CommandInv(n)'
    BY <1>2, <2>1, <2>3 DEF CommandInv, Untouched, NotRun
  <2> QED
    BY <1>7, <1>9, <2>2, <2>4
<1>10. CASE /\ Refusal(plan[n], config) = ""
            /\ job' = [at |-> n, stage |-> "wait"]
            /\ effect' = [effect EXCEPT ![n] = "running"] /\ UNCHANGED report
  <2>1. effect'[n] = "running" /\ report'[n] = ""
    BY <1>2, <1>3, <1>10 DEF Untouched
  <2>2. report' = [report EXCEPT ![n] = report[n]]
    BY <1>6, <1>10
  <2>3. Fits(n)'
    <3>1. Fits(n) /\ DOMAIN effect' = DOMAIN effect /\ UNCHANGED <<plan, config>>
      BY <1>1, <1>5, <1>10
    <3>2. \A j \in 1..(n - 1) : j # n
      BY <1>2
    <3>3. \A j \in 1..(n - 1) : j \in DOMAIN effect' /\ effect'[j] = "done"
      BY <1>4, <1>6, <1>10, <3>1, <3>2
    <3> QED
      BY <3>1, <3>3 DEF Fits
  <2>4. job'.at = n /\ job'.stage = "wait"
    BY <1>10
  <2>5. CommandInv(n)'
    <3>1. ~(n > job'.at) /\ "" \notin NotRun
      BY <1>2, <2>4 DEF NotRun
    <3>2. "" # "success" /\ "wait" # "connect"
      OBVIOUS
    <3> QED
      BY <2>1, <2>3, <2>4, <3>1, <3>2, Zenon DEF CommandInv
  <2> QED
    BY <1>7, <1>10, <2>2, <2>5
<1>11. CASE /\ job' = [at |-> n, stage |-> "idle"]
            /\ report' = [report EXCEPT ![n] = "not started"] /\ UNCHANGED effect
  <2>1. effect'[n] = "none" /\ report'[n] # "success"
    BY <1>2, <1>3, <1>6, <1>11 DEF Untouched
  <2>2. effect' = [effect EXCEPT ![n] = effect[n]]
    BY <1>6, <1>11
  <2>3. job'.at = n /\ job'.stage = "idle"
    BY <1>11
  <2>4. CommandInv(n)'
    BY <1>2, <2>1, <2>3 DEF CommandInv
  <2> QED
    BY <1>7, <1>11, <2>2, <2>4
<1> QED
  BY <1>1, <1>8, <1>9, <1>10, <1>11 DEF Begin

(* The connection stands and the command is started.                       *)
LEMMA ExecConnected ==
  ASSUME ExecInv, job.stage = "connect", job' = [job EXCEPT !.stage = "wait"],
         effect' = [effect EXCEPT ![job.at] = "running"], UNCHANGED <<report, config, plan, pc>>
  PROVE  ExecInv'
<1>1. job'.at = job.at /\ job'.stage = "wait" /\ job' \in [at : Nat, stage : {"idle", "connect", "wait"}]
  BY DEF ExecInv
<1>2. /\ DOMAIN effect' = DOMAIN effect /\ effect' = [i \in DOMAIN effect' |-> effect'[i]]
      /\ \A i \in DOMAIN effect : i # job.at => effect'[i] = effect[i]
      /\ job.at \in DOMAIN effect => effect'[job.at] = "running" /\ effect[job.at] = "none"
      /\ \A i \in DOMAIN effect : effect[i] = "done" => effect'[i] = "done"
  <2>1. \A i \in DOMAIN effect : i # job.at => effect'[i] = effect[i]
    BY DEF ExecInv
  <2>2. job.at \in DOMAIN effect => effect'[job.at] = "running"
    BY DEF ExecInv
  <2>3. job.at \in DOMAIN effect => effect[job.at] = "none"
    BY Zenon DEF ExecInv, CommandInv, Untouched
  <2>4. DOMAIN effect' = DOMAIN effect /\ effect' = [i \in DOMAIN effect' |-> effect'[i]]
    BY DEF ExecInv
  <2>5. "none" # "done"
    OBVIOUS
  <2> QED
    BY <2>1, <2>2, <2>3, <2>4, <2>5, Zenon
<1>3. \A i : Fits(i) => Fits(i)'
  BY <1>2 DEF Fits
<1>4. pc \in {"run", "ended"}
  <2>1. NoJob.stage = "idle"
    BY DEF NoJob
  <2>2. pc \notin {"run", "ended"} => job = NoJob
    BY DEF ExecInv
  <2> QED
    BY <2>1, <2>2
<1>5. ASSUME NEW i \in DOMAIN effect PROVE CommandInv(i)'
  <2>1. CommandInv(i) /\ i \in Nat
    BY DEF ExecInv
  <2>2. "wait" # "connect" /\ "" \notin NotRun /\ "" # "success"
    BY DEF NotRun
  <2>3. CASE i = job.at
    <3>1. report[i] = "" /\ Fits(i)
      BY <2>1, <2>3, Zenon DEF CommandInv, Untouched
    <3>2. Fits(i)' /\ report'[i] = "" /\ ~(i > job'.at)
      <4>1. Fits(i)'
        BY <1>3, <3>1, Zenon
      <4>2. i \in Nat /\ job'.at = i
        BY <1>1, <2>1, <2>3
      <4>3. ~(i > job'.at)
        BY <4>2
      <4>4. report'[i] = ""
        BY <3>1
      <4> QED
        BY <4>1, <4>3, <4>4
    <3>3. report'[i] # "success" /\ report'[i] \notin NotRun /\ job'.stage # "connect"
      BY <1>1, <2>2, <3>2
    <3> QED
      BY <3>2, <3>3, Zenon DEF CommandInv
  <2>4. CASE i # job.at
    <3>1. effect'[i] = effect[i] /\ report'[i] = report[i] /\ i # job'.at
      BY <1>1, <1>2, <2>4
    <3> QED
      BY <1>1, <1>3, <2>1, <3>1, Zenon DEF CommandInv, Untouched
  <2> QED
    BY <2>3, <2>4
<1> QED
  BY <1>1, <1>2, <1>4, <1>5 DEF ExecInv

(* What the machine makes of a command was not counted before.             *)
LEMMA ExecMachine ==
  ASSUME ExecInv, MachineRuns, UNCHANGED <<config, plan, pc>>
  PROVE  ExecInv'
<1>1. PICK m \in DOMAIN effect, o \in {"done", "failed"} :
        effect[m] = "running" /\ effect' = [effect EXCEPT ![m] = o]
  BY DEF MachineRuns
<1>2. UNCHANGED <<job, report>>
  BY DEF MachineRuns
<1>3. DOMAIN effect' = DOMAIN effect /\ effect' = [i \in DOMAIN effect' |-> effect'[i]]
  BY <1>1 DEF ExecInv
<1>4. effect'[m] = o /\ \A i \in DOMAIN effect : i # m => effect'[i] = effect[i]
  BY <1>1 DEF ExecInv
<1>5. \A i \in DOMAIN effect : effect[i] = "done" => effect'[i] = "done"
  BY <1>1, <1>4
<1>6. \A i : Fits(i) => Fits(i)'
  BY <1>3, <1>5 DEF Fits
<1>7. ASSUME NEW i \in DOMAIN effect PROVE CommandInv(i)'
  <2>1. CommandInv(i)
    BY DEF ExecInv
  <2>2. CASE i = m
    <3>1. effect[i] # "none" /\ effect[i] # "done"
      BY <1>1, <2>2
    <3>2. Fits(i) /\ report[i] # "success" /\ report[i] \notin NotRun /\ ~Untouched(i)
      BY <2>1, <3>1, Zenon DEF CommandInv, Untouched
    <3>3. UNCHANGED <<job, report>> /\ Fits(i)'
      BY <1>2, <1>6, <3>2
    <3> QED
      BY <2>1, <3>2, <3>3, Zenon DEF CommandInv
  <2>3. CASE i # m
    <3>1. effect'[i] = effect[i]
      BY <1>4, <2>3
    <3> QED
      BY <1>2, <1>6, <2>1, <3>1, Zenon DEF CommandInv, Untouched
  <2> QED
    BY <2>2, <2>3
<1>8. (pc \in {"run", "ended"})'
  <2>1. pc \notin {"run", "ended"} => DOMAIN effect = {}
    BY DEF ExecInv
  <2> QED
    BY <2>1
<1> QED
  BY <1>2, <1>3, <1>7, <1>8 DEF ExecInv

(* Nothing has run when people decide.                                     *)
LEMMA ExecDecide ==
  ASSUME ExecInv, PlanInv, Decide
  PROVE  ExecInv'
<1>1. /\ pc = "decide" /\ pc' \in {"run", "ended"} /\ UNCHANGED <<config, plan, job>>
      /\ effect' = [i \in DOMAIN plan |-> "none"] /\ report' = [i \in DOMAIN plan |-> ""]
  BY DEF Decide
<1>2. job = NoJob /\ NoJob.stage = "idle" /\ NoJob \in [at : Nat, stage : {"idle", "connect", "wait"}]
  BY <1>1 DEF ExecInv, NoJob
<1>3. DOMAIN effect' = DOMAIN plan /\ DOMAIN report' = DOMAIN plan /\ DOMAIN plan \subseteq Nat
  <2>1. DOMAIN effect' = DOMAIN plan /\ DOMAIN report' = DOMAIN plan
    BY <1>1
  <2>2. DOMAIN plan \subseteq Nat
    BY DEF PlanInv
  <2> QED
    BY <2>1, <2>2
<1>4. ASSUME NEW i \in DOMAIN plan PROVE CommandInv(i)'
  <2>1. effect'[i] = "none" /\ report'[i] = "" /\ job'.stage = "idle"
    BY <1>1, <1>2
  <2>2. report'[i] # "success" /\ report'[i] \notin NotRun /\ job'.stage # "connect" /\ job'.stage # "wait"
    BY <2>1 DEF NotRun
  <2> QED
    BY <2>1, <2>2, Zenon DEF CommandInv, Untouched
<1> QED
  BY <1>1, <1>2, <1>3, <1>4 DEF ExecInv

(* Every way for Execute to end tells the truth.                           *)
LEMMA ExecWait ==
  ASSUME ExecInv, WaitForCommand
  PROVE  ExecInv'
<1>1. pc = "run" /\ UNCHANGED <<config, plan, pc>> /\ (Connect \/ Result \/ TimesOut)
  BY DEF WaitForCommand, Running, Elsewhere
<1>2. CASE Connect
  <2>1. CASE job' = [job EXCEPT !.stage = "wait"] /\ effect' = [effect EXCEPT ![job.at] = "running"] /\ UNCHANGED report
    BY <1>1, <1>2, <2>1, ExecConnected DEF Connect
  <2>2. CASE Returns(job.at, "connect") /\ UNCHANGED effect
    <3>1. job.stage = "connect" /\ job.stage # "idle"
      BY <1>2 DEF Connect
    <3>2. job.at \in DOMAIN effect => effect[job.at] = "none"
      BY <3>1, Zenon DEF ExecInv, CommandInv, Untouched
    <3> QED
      BY <1>1, <2>2, <3>1, <3>2, ExecReturns
  <2> QED
    BY <1>2, <2>1, <2>2 DEF Connect
<1>3. ASSUME NEW result \in {"exit code", "connection", "timeout"}, job.stage = "wait",
             Returns(job.at, result), UNCHANGED effect
      PROVE  ExecInv'
  <2>1. result # "success" /\ result \notin NotRun /\ job.stage # "idle"
    BY <1>3 DEF NotRun
  <2> QED
    BY <1>1, <1>3, <2>1, ExecReturns
<1>4. CASE job.stage = "wait" /\ effect[job.at] = "done" /\ Returns(job.at, "success") /\ UNCHANGED effect
  <2>1. "success" \notin NotRun /\ job.stage # "idle"
    BY <1>4 DEF NotRun
  <2> QED
    BY <1>1, <1>4, <2>1, ExecReturns
<1>5. CASE Result
  <2>1. job.stage = "wait" /\ UNCHANGED effect
        /\ \/ effect[job.at] = "done" /\ Returns(job.at, "success")
           \/ Returns(job.at, "exit code") \/ Returns(job.at, "connection")
    BY <1>5, Zenon DEF Result
  <2> QED
    BY <1>3, <1>4, <2>1
<1>6. CASE TimesOut
  <2>1. job.stage = "wait" /\ UNCHANGED effect /\ Returns(job.at, "timeout")
    BY <1>6, Zenon DEF TimesOut
  <2> QED
    BY <1>3, <2>1
<1> QED
  BY <1>1, <1>2, <1>5, <1>6

LEMMA ExecStep == ExecInv /\ PlanInv /\ [Next]_vars => ExecInv'
<1> SUFFICES ASSUME ExecInv, PlanInv, [Next]_vars PROVE ExecInv'
  OBVIOUS
<1>1. CASE UNCHANGED vars
  BY <1>1, ExecQuiet DEF vars, jobVars
<1>2. CASE \/ FetchMetrics \/ FindCandidates \/ RankIncidents \/ ReadRanking \/ FetchRunbooks
           \/ AskFails \/ AskAnswers \/ Apologise \/ TellAnalysis
           \/ CheckPlan \/ AssessCommand \/ TellPlan \/ CreateApproval
  <2>1. pc \notin {"run", "ended"} /\ pc' # "run" /\ UNCHANGED jobVars
    BY <1>2 DEF FetchMetrics, FindCandidates, RankIncidents, ReadRanking, FetchRunbooks,
      AskFails, AskAnswers, Apologise, TellAnalysis, CheckPlan, AssessCommand, TellPlan,
      CreateApproval, NoPlanYet, Goes
  <2> QED
    BY <2>1, ExecBefore
<1>3. CASE Decide
  BY <1>3, ExecDecide
<1>4. CASE RunCommand
  BY <1>4, ExecRun
<1>5. CASE WaitForCommand
  BY <1>5, ExecWait
<1>6. CASE EndRun
  <2>1. UNCHANGED <<config, plan, jobVars>> /\ pc' = "ended"
    BY <1>6 DEF EndRun, Goes
  <2> QED
    BY <2>1, ExecQuiet
<1>7. CASE Others(MachineRuns /\ UNCHANGED <<runbookVars, feedbackVars>>)
  BY <1>7, ExecMachine DEF Others
<1>8. CASE \/ Others((Reloads \/ (UsesRunbooks(config) /\ EditRunbooks)) /\ UNCHANGED <<jobVars, feedbackVars>>)
           \/ Others((ProposeOther \/ EndOther \/ \E p \in Presses : Callback(p)) /\ UNCHANGED <<jobVars, runbookVars>>)
  <2>1. UNCHANGED <<config, pc, plan, jobVars>>
    BY <1>8 DEF Others
  <2> QED
    BY <2>1, ExecQuiet
<1> QED
  BY <1>1, <1>2, <1>3, <1>4, <1>5, <1>6, <1>7, <1>8 DEF Next, Pipeline

-----------------------------------------------------------------------------
(* The approvals: a row of this alert says completed only after the run,   *)
(* when every command was done.                                            *)
OwnCompleted(rows) ==
  \E a \in DOMAIN rows : rows[a].alert = Alert.id /\ rows[a].status = "completed"

AllDone == \A i \in DOMAIN plan : i \in DOMAIN effect /\ effect[i] = "done"

TableInv ==
  /\ approvals \in Seq(ApprovalRow)
  /\ OwnCompleted(approvals) => pc = "ended" /\ AllDone

(* A pending row in front is not completed.                                *)
LEMMA RowInFront ==
  ASSUME NEW rows \in Seq(ApprovalRow), NEW alert \in {Alert.id, Voted, "another"}
  PROVE  LET new == <<[alert |-> alert, status |-> "pending"]>> \o rows IN
           new \in Seq(ApprovalRow) /\ (OwnCompleted(new) => OwnCompleted(rows))
<1> DEFINE row == [alert |-> alert, status |-> "pending"]
           new == <<row>> \o rows
<1>1. row \in ApprovalRow /\ row.status # "completed"
  BY DEF ApprovalRow, Status
<1>2. <<row>> \in Seq(ApprovalRow) /\ Len(<<row>>) = 1 /\ <<row>>[1] = row
  BY <1>1
<1> HIDE DEF row
<1>3. /\ new \in Seq(ApprovalRow) /\ Len(new) = 1 + Len(rows)
      /\ \A i \in 1..Len(new) : new[i] = IF i <= 1 THEN <<row>>[i] ELSE rows[i - 1]
  BY <1>2, ConcatProperties
<1>4. DOMAIN new = 1..(1 + Len(rows)) /\ DOMAIN rows = 1..Len(rows) /\ Len(rows) \in Nat
  BY <1>3, LenProperties
<1>5. ASSUME NEW a \in DOMAIN new, new[a].alert = Alert.id, new[a].status = "completed"
      PROVE  OwnCompleted(rows)
  <2>1. a # 1
    BY <1>1, <1>2, <1>3, <1>4, <1>5
  <2>2. a - 1 \in DOMAIN rows /\ new[a] = rows[a - 1]
    BY <1>3, <1>4, <2>1
  <2> QED
    BY <1>5, <2>2 DEF OwnCompleted
<1> QED
  BY <1>3, <1>5 DEF OwnCompleted, row

(* A change of the status of rows.                                         *)
LEMMA RowsMarked ==
  ASSUME NEW rows \in Seq(ApprovalRow), NEW new,
         new = [i \in DOMAIN rows |-> new[i]],
         \A i \in DOMAIN rows : new[i] \in ApprovalRow
  PROVE  new \in Seq(ApprovalRow)
<1>1. DOMAIN rows = 1..Len(rows) /\ Len(rows) \in Nat
  BY LenProperties
<1>2. new \in [1..Len(rows) -> ApprovalRow]
  BY <1>1
<1> QED
  BY <1>1, <1>2, SeqDef

LEMMA OwnMarked ==
  ASSUME TableInv, NEW status \in Status, OwnStatus(status)
  PROVE  /\ approvals' \in Seq(ApprovalRow)
         /\ status # "completed" => ~OwnCompleted(approvals')
<1>1. /\ DOMAIN approvals' = DOMAIN approvals /\ approvals' = [i \in DOMAIN approvals |-> approvals'[i]]
      /\ \A i \in DOMAIN approvals :
           approvals'[i] = IF approvals[i].alert = Alert.id
                           THEN [approvals[i] EXCEPT !.status = status] ELSE approvals[i]
  BY DEF OwnStatus
<1>2. ASSUME NEW i \in DOMAIN approvals
      PROVE  /\ approvals'[i] \in ApprovalRow
             /\ approvals'[i].alert = Alert.id => approvals'[i].status = status
  <2>1. approvals[i] \in ApprovalRow
    BY ElementOfSeq, LenProperties DEF TableInv
  <2>2. approvals[i] = [alert |-> approvals[i].alert, status |-> approvals[i].status]
        /\ approvals[i].alert \in {Alert.id, Voted, "another"}
    BY <2>1 DEF ApprovalRow
  <2> QED
    BY <1>1, <2>1, <2>2 DEF ApprovalRow
<1>3. approvals' \in Seq(ApprovalRow)
  BY <1>1, <1>2, RowsMarked DEF TableInv
<1> QED
  BY <1>1, <1>2, <1>3 DEF OwnCompleted

(* Plans for other alerts are proposed and end.                            *)
LEMMA TableOthers ==
  ASSUME TableInv, ProposeOther \/ EndOther, UNCHANGED <<pc, plan, effect>>
  PROVE  TableInv'
<1>1. CASE ProposeOther
  <2>1. PICK alert \in {Voted, "another"} :
          approvals' = <<[alert |-> alert, status |-> "pending"]>> \o approvals
    BY <1>1 DEF ProposeOther
  <2>2. approvals' \in Seq(ApprovalRow) /\ (OwnCompleted(approvals') => OwnCompleted(approvals))
    BY <2>1, RowInFront DEF TableInv
  <2> QED
    BY <2>2 DEF TableInv, AllDone
<1>2. CASE EndOther
  <2>1. PICK i \in DOMAIN approvals, status \in Status :
          approvals[i].alert = Voted /\ approvals' = [approvals EXCEPT ![i].status = status]
    BY <1>2 DEF EndOther
  <2>2. \A a \in DOMAIN approvals : approvals[a] \in ApprovalRow
    BY ElementOfSeq, LenProperties DEF TableInv
  <2>3. /\ DOMAIN approvals' = DOMAIN approvals /\ approvals' = [a \in DOMAIN approvals |-> approvals'[a]]
        /\ \A a \in DOMAIN approvals : a # i => approvals'[a] = approvals[a]
        /\ approvals'[i] = [approvals[i] EXCEPT !.status = status]
    BY <2>1
  <2>4. approvals'[i] = [alert |-> Voted, status |-> status] /\ Voted # Alert.id
    BY <2>1, <2>2, <2>3, AnalysisAssumption DEF ApprovalRow
  <2>5. \A a \in DOMAIN approvals : approvals'[a] \in ApprovalRow
    BY <2>2, <2>3, <2>4 DEF ApprovalRow
  <2>6. approvals' \in Seq(ApprovalRow)
    BY <2>3, <2>5, RowsMarked DEF TableInv
  <2>7. OwnCompleted(approvals') => OwnCompleted(approvals)
    BY <2>3, <2>4 DEF OwnCompleted
  <2> QED
    BY <2>6, <2>7 DEF TableInv, AllDone
<1> QED
  BY <1>1, <1>2

LEMMA TableStep == TableInv /\ ExecInv /\ PlanInv /\ [Next]_vars => TableInv'
<1> SUFFICES ASSUME TableInv, ExecInv, PlanInv, [Next]_vars PROVE TableInv'
  OBVIOUS
<1>1. CASE UNCHANGED <<approvals, pc, plan, effect>>
  BY <1>1 DEF TableInv, AllDone
<1>2. CASE pc # "ended" /\ UNCHANGED approvals
  BY <1>2 DEF TableInv
<1>3. CASE CreateApproval
  <2>1. pc # "ended" /\ (UNCHANGED approvals \/ approvals' = <<[alert |-> Alert.id, status |-> "pending"]>> \o approvals)
    BY <1>3 DEF CreateApproval
  <2>2. CASE approvals' = <<[alert |-> Alert.id, status |-> "pending"]>> \o approvals
    BY <2>1, <2>2, RowInFront DEF TableInv
  <2> QED
    BY <1>2, <2>1, <2>2
<1>4. CASE Decide
  <2>1. pc # "ended" /\ (UNCHANGED approvals \/ OwnStatus("rejected")) /\ "rejected" \in Status
    BY <1>4 DEF Decide, Status
  <2>2. CASE OwnStatus("rejected")
    BY <2>1, <2>2, OwnMarked DEF TableInv
  <2> QED
    BY <1>2, <2>1, <2>2
<1>5. CASE EndRun
  <2>1. /\ pc = "run" /\ pc' = "ended" /\ UNCHANGED <<plan, effect>>
        /\ \/ Succeeded(job.at) /\ job.at = Len(plan) /\ OwnStatus("completed")
           \/ OwnStatus("failed")
        /\ {"completed", "failed"} \subseteq Status
    BY <1>5 DEF EndRun, Goes, jobVars, Status
  <2>2. CASE OwnStatus("failed")
    BY <2>1, <2>2, OwnMarked DEF TableInv
  <2>3. CASE Succeeded(job.at) /\ job.at = Len(plan) /\ OwnStatus("completed")
    <3>1. \A i \in DOMAIN plan : i \in DOMAIN effect /\ report[i] = "success"
      BY <2>1, <2>3 DEF Succeeded, ExecInv, PlanInv
    <3>2. \A i \in DOMAIN effect : report[i] = "success" => effect[i] = "done"
      BY Zenon DEF ExecInv, CommandInv
    <3>3. AllDone'
      BY <2>1, <3>1, <3>2 DEF AllDone
    <3>4. approvals' \in Seq(ApprovalRow)
      BY <2>1, <2>3, OwnMarked
    <3> QED
      BY <2>1, <3>3, <3>4 DEF TableInv
  <2> QED
    BY <2>1, <2>2, <2>3
<1>6. CASE Others(MachineRuns /\ UNCHANGED <<runbookVars, feedbackVars>>)
  <2>1. UNCHANGED <<approvals, pc, plan>> /\ MachineRuns
    BY <1>6 DEF Others, feedbackVars
  <2>2. PICK m \in DOMAIN effect, o \in {"done", "failed"} :
          effect[m] = "running" /\ effect' = [effect EXCEPT ![m] = o]
    BY <2>1 DEF MachineRuns
  <2>3. DOMAIN effect' = DOMAIN effect /\ \A i \in DOMAIN effect : effect[i] = "done" => effect'[i] = "done"
    BY <2>2 DEF ExecInv
  <2>4. AllDone => AllDone'
    BY <2>1, <2>3 DEF AllDone
  <2> QED
    BY <2>1, <2>4 DEF TableInv
<1>7. CASE Others((ProposeOther \/ EndOther \/ \E p \in Presses : Callback(p)) /\ UNCHANGED <<jobVars, runbookVars>>)
  <2>1. UNCHANGED <<pc, plan, effect>> /\ (ProposeOther \/ EndOther \/ \E p \in Presses : Callback(p))
    BY <1>7 DEF Others, jobVars
  <2>2. ASSUME NEW p \in Presses, Callback(p) PROVE UNCHANGED approvals
    BY <2>2 DEF Callback, Press, SaveFeedback, ListFeedback, ListApprovals, UpsertOutcome
  <2> QED
    BY <1>1, <2>1, <2>2, TableOthers
<1>8. CASE Others((Reloads \/ (UsesRunbooks(config) /\ EditRunbooks)) /\ UNCHANGED <<jobVars, feedbackVars>>)
  BY <1>1, <1>8 DEF Others, jobVars, feedbackVars
<1>9. CASE \/ FetchMetrics \/ FindCandidates \/ RankIncidents \/ ReadRanking \/ FetchRunbooks
           \/ AskFails \/ AskAnswers \/ Apologise \/ TellAnalysis
           \/ CheckPlan \/ AssessCommand \/ TellPlan \/ RunCommand \/ WaitForCommand
  <2>1. pc # "ended" /\ UNCHANGED approvals
    BY <1>9 DEF FetchMetrics, FindCandidates, RankIncidents, ReadRanking, FetchRunbooks,
      AskFails, AskAnswers, Apologise, TellAnalysis, CheckPlan, AssessCommand, TellPlan,
      RunCommand, WaitForCommand, Running, Goes, Elsewhere, feedbackVars
  <2> QED
    BY <1>2, <2>1
<1>10. CASE UNCHANGED vars
  BY <1>1, <1>10 DEF vars, feedbackVars, jobVars
<1> QED
  BY <1>3, <1>4, <1>5, <1>6, <1>7, <1>8, <1>9, <1>10 DEF Next, Pipeline

LEMMA InitInv == Init => PlanInv /\ ExecInv /\ TableInv
<1> SUFFICES ASSUME Init PROVE PlanInv /\ ExecInv /\ TableInv
  OBVIOUS
<1>1. pc = "metrics" /\ plan = <<>> /\ job = NoJob /\ effect = <<>> /\ report = <<>>
  BY DEF Init
<1>2. Len(<<>>) = 0 /\ DOMAIN <<>> = {}
  OBVIOUS
<1>3. PlanInv
  BY <1>1, <1>2 DEF PlanInv
<1>4. ExecInv
  <2>1. NoJob \in [at : Nat, stage : {"idle", "connect", "wait"}]
    BY DEF NoJob
  <2> QED
    BY <1>1, <1>2, <2>1 DEF ExecInv
<1>5. TableInv
  <2>1. PICK s \in Setups : approvals = s.approvals
    BY DEF Init, FeedbackInit
  <2> QED
    BY <2>1, AnalysisAssumption DEF TableInv, OwnCompleted
<1> QED
  BY <1>3, <1>4, <1>5

LEMMA InvGivesSuccess == ExecInv /\ TableInv => SuccessIsReal
<1> SUFFICES ASSUME ExecInv, TableInv PROVE SuccessIsReal
  OBVIOUS
<1>1. ASSUME NEW i \in DOMAIN report
      PROVE  /\ report[i] = "success" => effect[i] = "done"
             /\ report[i] \in {"type", "namespace", "target", "connect", "not started"} => effect[i] = "none"
             /\ effect[i] # "none" => Fits(i)
  BY Zenon DEF ExecInv, CommandInv, NotRun
<1>2. ASSUME NEW a \in DOMAIN approvals, approvals[a].alert = Alert.id, approvals[a].status = "completed"
      PROVE  \A i \in DOMAIN plan : effect[i] = "done"
  BY <1>2 DEF TableInv, OwnCompleted, AllDone
<1> QED
  BY <1>1, <1>2 DEF SuccessIsReal, Fits

(* What execution reports is true of the machines, whatever the plan, the  *)
(* configuration and the order in which results, timeouts and the machines *)
(* come: a success was one there, a refusal changed nothing, and the alert *)
(* is completed only when every command of its plan was done               *)
(* (executor/k8s.go, ssh.go, router.go, pipeline.go).                      *)
THEOREM ReportsAreTrue == Spec => []SuccessIsReal
<1>1. Init => PlanInv /\ ExecInv /\ TableInv
  BY InitInv
<1>2. PlanInv /\ ExecInv /\ TableInv /\ [Next]_vars => (PlanInv /\ ExecInv /\ TableInv)'
  BY PlanStep, ExecStep, TableStep
<1>3. PlanInv /\ ExecInv /\ TableInv => SuccessIsReal
  BY InvGivesSuccess
<1> QED
  BY <1>1, <1>2, <1>3, PTL DEF Spec
-----------------------------------------------------------------------------
(* The votes.  A callback that has not saved its vote has none; what one   *)
(* has listed holds the votes from before it; and what it writes was so    *)
(* then and is not undone, since votes are only added and a status that is *)
(* final stays in the table.                                               *)
Known ==
  {"", "pending"} \cup {row.status : row \in {r \in ToSet(approvals) : r.alert = Voted}}

CallbackAt == {"idle", "save", "list", "status", "write", "done"}

CallbackInv(p) ==
  /\ callback[p].at \in CallbackAt
  /\ callback[p].at \in {"idle", "save"} => p \notin DOMAIN votes
  /\ callback[p].before \subseteq DOMAIN votes
  /\ callback[p].at \in {"status", "write"} =>
       callback[p].before \subseteq callback[p].listed /\ callback[p].listed \subseteq DOMAIN votes
  /\ callback[p].at = "write" => callback[p].status \in Known

Truthful(o) ==
  /\ o.by \in Presses \cup {NoOne} /\ o.up \in Nat /\ o.down \in Nat
  /\ o.up <= Count(DOMAIN votes, Up) /\ o.down <= Count(DOMAIN votes, Down)
  /\ o.status \in Known

Complete(o) ==
  o.by # NoOne =>
    /\ callback[o.by].at = "done"
    /\ Count(callback[o.by].before, Up) <= o.up /\ Count(callback[o.by].before, Down) <= o.down

CallbackType ==
  [at : CallbackAt, rating : {"", Up, Down}, before : SUBSET Presses, listed : SUBSET Presses,
   status : Status \cup {""}]

VoteInv ==
  /\ callback \in [Presses -> CallbackType]
  /\ DOMAIN votes \subseteq Presses
  /\ \A p \in Presses : CallbackInv(p)
  /\ Truthful(outcome) /\ Complete(outcome)

CountIn(v, S, rating) == Cardinality({q \in S : v[q] = rating})

LEMMA CountGrows ==
  ASSUME NEW v, NEW S, NEW T, S \subseteq T, T \subseteq Presses, NEW rating
  PROVE  /\ CountIn(v, S, rating) \in Nat /\ CountIn(v, T, rating) \in Nat
         /\ CountIn(v, S, rating) <= CountIn(v, T, rating)
<1> DEFINE A == {q \in S : v[q] = rating}
           B == {q \in T : v[q] = rating}
<1>1. A \subseteq B /\ B \subseteq Presses /\ IsFiniteSet(Presses)
  BY FeedbackAssumption
<1>2. IsFiniteSet(B) /\ Cardinality(B) \in Nat
  BY <1>1, FS_Subset, FS_CardinalityType
<1>3. IsFiniteSet(A) /\ Cardinality(A) \in Nat /\ Cardinality(A) <= Cardinality(B)
  BY <1>1, <1>2, FS_Subset, FS_CardinalityType
<1> QED
  BY <1>2, <1>3 DEF CountIn

(* No row of the voted alert loses a status that is final.                 *)
RowsStay ==
  \A i \in DOMAIN approvals : approvals[i].alert = Voted /\ approvals[i].status # "pending" =>
    \E j \in DOMAIN approvals' : approvals'[j].alert = Voted /\ approvals'[j].status = approvals[i].status

LEMMA KnownStays == RowsStay => Known \subseteq Known'
<1> SUFFICES ASSUME RowsStay, NEW s \in Known PROVE s \in Known'
  OBVIOUS
<1>1. CASE s \in {"", "pending"}
  BY <1>1 DEF Known
<1>2. CASE s \notin {"", "pending"}
  <2>1. PICK i \in DOMAIN approvals : approvals[i].alert = Voted /\ approvals[i].status = s
    BY <1>2 DEF Known, ToSet
  <2>2. PICK j \in DOMAIN approvals' : approvals'[j].alert = Voted /\ approvals'[j].status = s
    BY <1>2, <2>1 DEF RowsStay
  <2> QED
    BY <2>2 DEF Known, ToSet
<1> QED
  BY <1>1, <1>2

LEMMA TableRowsStay == TableInv /\ [Next]_vars => RowsStay
<1> SUFFICES ASSUME TableInv, [Next]_vars PROVE RowsStay
  OBVIOUS
<1>1. CASE UNCHANGED approvals
  BY <1>1 DEF RowsStay
<1>2. ASSUME NEW alert \in {Alert.id, Voted, "another"},
             approvals' = <<[alert |-> alert, status |-> "pending"]>> \o approvals
      PROVE  RowsStay
  <2> DEFINE row == [alert |-> alert, status |-> "pending"]
  <2>1. row \in ApprovalRow /\ approvals \in Seq(ApprovalRow)
    BY DEF ApprovalRow, Status, TableInv
  <2>2. <<row>> \in Seq(ApprovalRow) /\ Len(<<row>>) = 1 /\ approvals' = <<row>> \o approvals
    BY <1>2, <2>1
  <2> HIDE DEF row
  <2>3. /\ approvals' \in Seq(ApprovalRow) /\ Len(approvals') = 1 + Len(approvals)
        /\ \A i \in 1..Len(approvals') :
             approvals'[i] = IF i <= 1 THEN <<row>>[i] ELSE approvals[i - 1]
    BY <2>1, <2>2, ConcatProperties
  <2>4. /\ DOMAIN approvals' = 1..(1 + Len(approvals)) /\ DOMAIN approvals = 1..Len(approvals)
        /\ Len(approvals) \in Nat
    BY <2>1, <2>3, LenProperties
  <2>5. \A i \in DOMAIN approvals : i + 1 \in DOMAIN approvals' /\ approvals'[i + 1] = approvals[i]
    BY <2>3, <2>4
  <2> QED
    BY <2>5 DEF RowsStay
<1>3. ASSUME NEW status, OwnStatus(status) PROVE RowsStay
  BY <1>3, AnalysisAssumption DEF OwnStatus, RowsStay
<1>4. CASE CreateApproval
  BY <1>1, <1>2, <1>4 DEF CreateApproval
<1>5. CASE Decide \/ EndRun
  BY <1>1, <1>3, <1>5 DEF Decide, EndRun
<1>6. CASE Others((ProposeOther \/ EndOther \/ \E p \in Presses : Callback(p)) /\ UNCHANGED <<jobVars, runbookVars>>)
  <2>1. CASE ProposeOther
    BY <1>2, <2>1 DEF ProposeOther
  <2>2. CASE EndOther
    BY <2>2 DEF EndOther, RowsStay
  <2>3. CASE \E p \in Presses : Callback(p)
    BY <1>1, <2>3 DEF Callback, Press, SaveFeedback, ListFeedback, ListApprovals, UpsertOutcome
  <2> QED
    BY <1>6, <2>1, <2>2, <2>3 DEF Others
<1>7. CASE \/ FetchMetrics \/ FindCandidates \/ RankIncidents \/ ReadRanking \/ FetchRunbooks
           \/ AskFails \/ AskAnswers \/ Apologise \/ TellAnalysis
           \/ CheckPlan \/ AssessCommand \/ TellPlan \/ RunCommand \/ WaitForCommand
           \/ Others(MachineRuns /\ UNCHANGED <<runbookVars, feedbackVars>>)
           \/ Others((Reloads \/ (UsesRunbooks(config) /\ EditRunbooks)) /\ UNCHANGED <<jobVars, feedbackVars>>)
           \/ UNCHANGED vars
  <2>1. UNCHANGED approvals
    BY <1>7 DEF FetchMetrics, FindCandidates, RankIncidents, ReadRanking, FetchRunbooks,
      AskFails, AskAnswers, Apologise, TellAnalysis, CheckPlan, AssessCommand, TellPlan,
      RunCommand, WaitForCommand, Running, Elsewhere, Others, feedbackVars, vars
  <2> QED
    BY <1>1, <2>1
<1> QED
  BY <1>4, <1>5, <1>6, <1>7 DEF Next, Pipeline

LEMMA NatHasLeast ==
  ASSUME NEW T \in SUBSET Nat, T # {}
  PROVE  \E n \in T : \A m \in T : n <= m
<1>1. PICK n \in T : \A m \in T : ~ (<<m, n>> \in OpToRel(<, Nat))
  BY NatLessThanWellFounded, WFMin
<1>2. ASSUME NEW m \in T PROVE n <= m
  <2>1. ~ (m < n)
    BY <1>1 DEF OpToRel
  <2> QED
    BY <2>1
<1> QED
  BY <1>2

(* The newest row of a page is one of the table.                           *)
LEMMA NewestIsKnown == TableInv => NewestStatus \in Known
<1> SUFFICES ASSUME TableInv PROVE NewestStatus \in Known
  OBVIOUS
<1> DEFINE own == {i \in DOMAIN approvals : i <= ApprovalPage /\ approvals[i].alert = Voted}
<1>1. CASE own = {}
  BY <1>1 DEF NewestStatus, Known
<1>2. CASE own # {}
  <2>1. own \subseteq Nat
    BY LenProperties DEF TableInv
  <2>2. \E x \in own : \A y \in own : x =< y
    BY <1>2, <2>1, NatHasLeast
  <2>3. Min(own) \in own
    BY <2>2 DEF Min
  <2>4. approvals[Min(own)].alert = Voted /\ Min(own) \in DOMAIN approvals
    BY <2>3
  <2>5. NewestStatus = approvals[Min(own)].status
    BY <1>2 DEF NewestStatus
  <2> QED
    BY <2>4, <2>5 DEF Known, ToSet
<1> QED
  BY <1>1, <1>2

(* The table and the votes stand still, and so does what was written.      *)
LEMMA VoteQuiet ==
  ASSUME VoteInv, RowsStay, UNCHANGED <<callback, votes, outcome>>
  PROVE  VoteInv'
<1>1. Known \subseteq Known'
  BY KnownStays
<1>2. \A p \in Presses : CallbackInv(p)'
  BY <1>1 DEF VoteInv, CallbackInv
<1>3. Truthful(outcome)'
  BY <1>1 DEF VoteInv, Truthful, Count
<1>4. Complete(outcome)'
  BY DEF VoteInv, Complete, Count
<1> QED
  BY <1>2, <1>3, <1>4 DEF VoteInv

(* A callback that is not done moves, and no vote comes or goes.           *)
LEMMA CallbackMoves ==
  ASSUME VoteInv, NEW p \in Presses, callback[p].at # "done", NEW c \in CallbackType,
         callback' = [callback EXCEPT ![p] = c], CallbackInv(p)',
         UNCHANGED <<approvals, votes, outcome>>
  PROVE  VoteInv'
<1>1. /\ callback' \in [Presses -> CallbackType] /\ callback'[p] = c
      /\ \A q \in Presses \ {p} : callback'[q] = callback[q]
  BY DEF VoteInv
<1>2. Known' = Known
  BY DEF Known
<1>3. \A q \in Presses : CallbackInv(q)'
  BY <1>1, <1>2 DEF VoteInv, CallbackInv
<1>4. Truthful(outcome)'
  BY <1>2 DEF VoteInv, Truthful, Count
<1>5. Complete(outcome)'
  <2>1. outcome.by # NoOne => outcome.by \in Presses \ {p}
    BY DEF VoteInv, Truthful, Complete
  <2> QED
    BY <1>1, <2>1 DEF VoteInv, Complete, Count
<1> QED
  BY <1>1, <1>3, <1>4, <1>5 DEF VoteInv

(* A callback that has failed, or had nothing to write, is done.           *)
LEMMA CallbackEnds ==
  ASSUME VoteInv, NEW p \in Presses, callback[p].at # "done", Ends(p),
         UNCHANGED <<approvals, votes, outcome>>
  PROVE  VoteInv'
<1> DEFINE c == [NotPressed EXCEPT !.at = "done"]
<1>1. c \in CallbackType /\ c.at = "done" /\ c.before = {}
  BY DEF NotPressed, CallbackType, CallbackAt, Status
<1>2. callback' = [callback EXCEPT ![p] = c]
  BY DEF Ends
<1> HIDE DEF c
<1>3. callback'[p] = c
  BY <1>2 DEF VoteInv
<1>4. CallbackInv(p)'
  BY <1>1, <1>3 DEF CallbackInv, CallbackAt
<1> QED
  BY <1>1, <1>2, <1>4, CallbackMoves

(* A vote that is added takes none away.                                   *)
LEMMA VotesGrow ==
  ASSUME VoteInv, NEW p \in Presses, callback[p].at = "save", votes' = Voting(p), NEW rating
  PROVE  /\ Count(DOMAIN votes, rating) \in Nat /\ Count(DOMAIN votes, rating)' \in Nat
         /\ Count(DOMAIN votes, rating) <= Count(DOMAIN votes, rating)'
<1> DEFINE D == DOMAIN votes
<1>1. p \notin D /\ D \subseteq Presses
  BY DEF VoteInv, CallbackInv
<1>2. /\ DOMAIN votes' = D \cup {p} /\ \A q \in D : votes'[q] = votes[q]
      /\ DOMAIN votes' \subseteq Presses
  BY <1>1 DEF Voting
<1>3. CountIn(votes', D, rating) = CountIn(votes, D, rating)
  <2>1. {q \in D : votes'[q] = rating} = {q \in D : votes[q] = rating}
    BY <1>2
  <2> QED
    BY <2>1 DEF CountIn
<1>4. /\ CountIn(votes', D, rating) <= CountIn(votes', DOMAIN votes', rating)
      /\ CountIn(votes', D, rating) \in Nat /\ CountIn(votes', DOMAIN votes', rating) \in Nat
  BY <1>2, CountGrows
<1>5. /\ Count(DOMAIN votes, rating) = CountIn(votes, D, rating)
      /\ Count(DOMAIN votes, rating)' = CountIn(votes', DOMAIN votes', rating)
  BY DEF Count, CountIn
<1> QED
  BY <1>3, <1>4, <1>5

(* A vote is added; those that were counted still count.                   *)
LEMMA VoteSaved ==
  ASSUME VoteInv, NEW p \in Presses, callback[p].at = "save", votes' = Voting(p),
         callback' = [callback EXCEPT ![p].at = "list", ![p].before = DOMAIN votes'],
         UNCHANGED <<approvals, outcome>>
  PROVE  VoteInv'
<1> DEFINE D == DOMAIN votes
<1>1. p \notin D /\ D \subseteq Presses
  BY DEF VoteInv, CallbackInv
<1>2. /\ DOMAIN votes' = D \cup {p} /\ \A q \in D : votes'[q] = votes[q]
      /\ DOMAIN votes' \subseteq Presses
  BY <1>1 DEF Voting
<1>3. /\ callback' \in [Presses -> CallbackType]
      /\ callback'[p].at = "list" /\ callback'[p].before = DOMAIN votes'
      /\ \A q \in Presses \ {p} : callback'[q] = callback[q]
  <2>1. PICK c \in CallbackType :
          callback' = [callback EXCEPT ![p] = c] /\ c.at = "list" /\ c.before = DOMAIN votes'
    <3>1. callback[p] \in CallbackType
      BY DEF VoteInv
    <3>2. [callback[p] EXCEPT !.at = "list", !.before = DOMAIN votes'] \in CallbackType
      BY <1>2, <3>1 DEF CallbackType, CallbackAt
    <3> QED
      BY <3>1, <3>2 DEF VoteInv, CallbackType
  <2> QED
    BY <2>1 DEF VoteInv
<1>4. Known' = Known
  BY DEF Known
<1>5. \A q \in Presses : CallbackInv(q)'
  <2>1. CallbackInv(p)'
    BY <1>3 DEF CallbackInv, CallbackAt
  <2>2. ASSUME NEW q \in Presses, q # p PROVE CallbackInv(q)'
    BY <1>2, <1>3, <1>4, <2>2 DEF VoteInv, CallbackInv
  <2> QED
    BY <2>1, <2>2
<1>6. ASSUME NEW S, S \subseteq D, NEW rating PROVE CountIn(votes', S, rating) = CountIn(votes, S, rating)
  <2>1. {q \in S : votes'[q] = rating} = {q \in S : votes[q] = rating}
    BY <1>2, <1>6
  <2> QED
    BY <2>1 DEF CountIn
<1>7. Truthful(outcome)'
  <2>3. \A rating \in {Up, Down} : /\ Count(DOMAIN votes, rating) <= Count(DOMAIN votes, rating)'
                                   /\ Count(DOMAIN votes, rating) \in Nat /\ Count(DOMAIN votes, rating)' \in Nat
    BY VotesGrow
  <2>4. outcome.up <= Count(DOMAIN votes, Up)' /\ outcome.down <= Count(DOMAIN votes, Down)'
    BY <2>3 DEF VoteInv, Truthful
  <2> QED
    BY <1>4, <2>4 DEF VoteInv, Truthful
<1>8. Complete(outcome)'
  <2> SUFFICES ASSUME outcome.by # NoOne
               PROVE  /\ callback'[outcome.by].at = "done"
                      /\ CountIn(votes', callback'[outcome.by].before, Up) <= outcome.up
                      /\ CountIn(votes', callback'[outcome.by].before, Down) <= outcome.down
    BY DEF Complete, Count, CountIn
  <2>1. outcome.by \in Presses \ {p} /\ callback[outcome.by].at = "done"
    BY DEF VoteInv, Truthful, Complete
  <2>2. PICK S : S = callback[outcome.by].before
    OBVIOUS
  <2>3. S \subseteq D /\ callback'[outcome.by] = callback[outcome.by]
    BY <1>3, <2>1, <2>2 DEF VoteInv, CallbackInv
  <2>4. CountIn(votes, S, Up) <= outcome.up /\ CountIn(votes, S, Down) <= outcome.down
    BY <2>2 DEF VoteInv, Complete, Count, CountIn
  <2> QED
    BY <1>6, <2>1, <2>2, <2>3, <2>4
<1> QED
  BY <1>2, <1>3, <1>5, <1>7, <1>8 DEF VoteInv

(* The outcome is written from what was listed.                            *)
LEMMA OutcomeWritten ==
  ASSUME VoteInv, NEW p \in Presses, UpsertOutcome(p)
  PROVE  VoteInv'
<1> DEFINE b == callback[p]
           c == [NotPressed EXCEPT !.at = "done", !.before = callback[p].before]
<1>1. /\ b.at = "write" /\ b \in CallbackType /\ b.before \subseteq b.listed
      /\ b.listed \subseteq DOMAIN votes /\ DOMAIN votes \subseteq Presses /\ b.status \in Known
  BY DEF UpsertOutcome, At, VoteInv, CallbackInv
<1>2. callback' = [callback EXCEPT ![p] = c] /\ UNCHANGED <<approvals, votes>>
  BY DEF UpsertOutcome
<1>3. c \in CallbackType /\ c.at = "done" /\ c.before = b.before
  BY <1>1 DEF NotPressed, CallbackType, CallbackAt, Status
<1> HIDE DEF c
<1>4. /\ callback' \in [Presses -> CallbackType] /\ callback'[p] = c
      /\ \A q \in Presses \ {p} : callback'[q] = callback[q]
  BY <1>2, <1>3 DEF VoteInv
<1>5. CallbackInv(p)'
  BY <1>1, <1>2, <1>3, <1>4 DEF CallbackInv, CallbackAt
<1>6. CASE UNCHANGED outcome
  BY <1>1, <1>2, <1>3, <1>5, <1>6, CallbackMoves
<1>7. CASE outcome' = [up |-> Count(b.listed, Up), down |-> Count(b.listed, Down),
                       status |-> IF b.status = "" THEN outcome.status ELSE b.status, by |-> p]
  <2>1. /\ outcome'.up = CountIn(votes, b.listed, Up) /\ outcome'.down = CountIn(votes, b.listed, Down)
        /\ outcome'.by = p /\ outcome'.status \in Known
    BY <1>1, <1>7 DEF VoteInv, Truthful, Count, CountIn
  <2>2. \A rating :
          /\ CountIn(votes, b.before, rating) <= CountIn(votes, b.listed, rating)
          /\ CountIn(votes, b.listed, rating) <= CountIn(votes, DOMAIN votes, rating)
          /\ CountIn(votes, b.before, rating) \in Nat /\ CountIn(votes, b.listed, rating) \in Nat
          /\ CountIn(votes, DOMAIN votes, rating) \in Nat
    BY <1>1, CountGrows
  <2>3. Known' = Known
    BY <1>2 DEF Known
  <2>4. \A q \in Presses : CallbackInv(q)'
    BY <1>2, <1>4, <1>5, <2>3 DEF VoteInv, CallbackInv
  <2>5. Truthful(outcome)'
    <3>1. \A rating : Count(DOMAIN votes, rating)' = CountIn(votes, DOMAIN votes, rating)
      BY <1>2 DEF Count, CountIn
    <3>2. /\ outcome'.up \in Nat /\ outcome'.up <= CountIn(votes, DOMAIN votes, Up)
          /\ outcome'.down \in Nat /\ outcome'.down <= CountIn(votes, DOMAIN votes, Down)
      BY <2>1, <2>2
    <3> QED
      BY <2>1, <2>3, <3>1, <3>2 DEF Truthful
  <2>6. Complete(outcome)'
    <3>1. callback'[p].at = "done" /\ callback'[p].before = b.before
      BY <1>3, <1>4
    <3>2. \A rating : CountIn(votes, callback'[p].before, rating) <= CountIn(votes, b.listed, rating)
      BY <2>2, <3>1
    <3>3. \A rating : Count(callback[p].before, rating)' = CountIn(votes, callback'[p].before, rating)
      BY <1>2 DEF Count, CountIn
    <3>4. /\ Count(callback[p].before, Up)' <= outcome'.up
          /\ Count(callback[p].before, Down)' <= outcome'.down
      BY <2>1, <3>2, <3>3
    <3> QED
      BY <2>1, <3>1, <3>4 DEF Complete
  <2> QED
    BY <1>1, <1>2, <1>4, <2>4, <2>5, <2>6 DEF VoteInv
<1> QED
  BY <1>6, <1>7 DEF UpsertOutcome

LEMMA VoteCallback ==
  ASSUME VoteInv, TableInv, NEW p \in Presses, Callback(p)
  PROVE  VoteInv'
<1>1. callback[p] \in CallbackType /\ DOMAIN votes \subseteq Presses /\ CallbackInv(p)
  BY DEF VoteInv
<1>2. CASE Press(p)
  <2>1. callback[p].at = "idle" /\ UNCHANGED <<approvals, votes, outcome>>
    BY <1>2 DEF Press, At
  <2>2. ASSUME NEW rating \in {Up, Down},
               callback' = [callback EXCEPT ![p].at = "save", ![p].rating = rating]
        PROVE  VoteInv'
    <3>1. PICK c \in CallbackType :
            /\ callback' = [callback EXCEPT ![p] = c]
            /\ c.at = "save" /\ c.before = callback[p].before
      <4>1. [callback[p] EXCEPT !.at = "save", !.rating = rating] \in CallbackType
        BY <1>1 DEF CallbackType, CallbackAt
      <4> QED
        BY <1>1, <2>2, <4>1 DEF VoteInv, CallbackType
    <3>2. CallbackInv(p)'
      BY <1>1, <2>1, <3>1 DEF CallbackInv, CallbackAt, VoteInv
    <3> QED
      BY <2>1, <3>1, <3>2, CallbackMoves
  <2> QED
    BY <1>2, <2>1, <2>2, CallbackEnds DEF Press
<1>3. CASE SaveFeedback(p)
  <2>1. callback[p].at = "save" /\ UNCHANGED <<approvals, outcome>>
    BY <1>3 DEF SaveFeedback, At
  <2> QED
    BY <1>3, <2>1, CallbackEnds, VoteSaved DEF SaveFeedback
<1>4. CASE ListFeedback(p)
  <2>1. callback[p].at = "list" /\ UNCHANGED <<approvals, votes, outcome>>
    BY <1>4 DEF ListFeedback, At
  <2>2. CASE callback' = [callback EXCEPT ![p].at = "status", ![p].listed = DOMAIN votes]
    <3>1. PICK c \in CallbackType :
            /\ callback' = [callback EXCEPT ![p] = c]
            /\ c.at = "status" /\ c.before = callback[p].before /\ c.listed = DOMAIN votes
      <4>1. [callback[p] EXCEPT !.at = "status", !.listed = DOMAIN votes] \in CallbackType
        BY <1>1 DEF CallbackType, CallbackAt
      <4> QED
        BY <1>1, <2>2, <4>1 DEF VoteInv, CallbackType
    <3>2. CallbackInv(p)'
      BY <1>1, <2>1, <3>1 DEF CallbackInv, CallbackAt, VoteInv
    <3> QED
      BY <2>1, <3>1, <3>2, CallbackMoves
  <2> QED
    BY <1>4, <2>1, <2>2, CallbackEnds DEF ListFeedback
<1>5. CASE ListApprovals(p)
  <2>1. PICK status \in {NewestStatus, ""} :
          /\ callback[p].at = "status" /\ UNCHANGED <<approvals, votes, outcome>>
          /\ callback' = [callback EXCEPT ![p].at = "write", ![p].status = status]
    BY <1>5 DEF ListApprovals, At
  <2>2. status \in Known
    BY <2>1, NewestIsKnown DEF Known
  <2>3. status \in Status \cup {""}
    <3>1. \A i \in DOMAIN approvals : approvals[i].status \in Status
      <4>1. approvals \in Seq(ApprovalRow)
        BY DEF TableInv
      <4>2. \A i \in DOMAIN approvals : approvals[i] \in ApprovalRow
        BY <4>1, ElementOfSeq, LenProperties
      <4> QED
        BY <4>2 DEF ApprovalRow
    <3>2. \A row \in ToSet(approvals) : row.status \in Status
      BY <3>1 DEF ToSet
    <3>3. "pending" \in Status
      BY DEF Status
    <3> QED
      <4>1. ASSUME NEW s \in {row.status : row \in {r \in ToSet(approvals) : r.alert = Voted}}
            PROVE  s \in Status
        <5>1. PICK row \in {r \in ToSet(approvals) : r.alert = Voted} : s = row.status
          OBVIOUS
        <5> QED
          BY <3>2, <5>1
      <4> QED
        BY <2>2, <3>3, <4>1 DEF Known
  <2>4. PICK c \in CallbackType :
          /\ callback' = [callback EXCEPT ![p] = c]
          /\ c.at = "write" /\ c.before = callback[p].before /\ c.listed = callback[p].listed
          /\ c.status = status
    <3>1. [callback[p] EXCEPT !.at = "write", !.status = status] \in CallbackType
      BY <1>1, <2>3 DEF CallbackType, CallbackAt
    <3> QED
      BY <1>1, <2>1, <3>1 DEF VoteInv, CallbackType
  <2>5. Known' = Known
    BY <2>1 DEF Known
  <2>6. CallbackInv(p)'
    BY <1>1, <2>1, <2>2, <2>4, <2>5 DEF CallbackInv, CallbackAt, VoteInv
  <2> QED
    BY <2>1, <2>4, <2>6, CallbackMoves
<1>6. CASE UpsertOutcome(p)
  BY <1>6, OutcomeWritten
<1> QED
  BY <1>2, <1>3, <1>4, <1>5, <1>6 DEF Callback

LEMMA VoteStep == VoteInv /\ TableInv /\ [Next]_vars => VoteInv'
<1> SUFFICES ASSUME VoteInv, TableInv, [Next]_vars PROVE VoteInv'
  OBVIOUS
<1>1. CASE UNCHANGED <<callback, votes, outcome>>
  BY <1>1, VoteQuiet, TableRowsStay
<1>2. CASE \E p \in Presses : Callback(p)
  BY <1>2, VoteCallback
<1>3. UNCHANGED <<callback, votes, outcome>> \/ \E p \in Presses : Callback(p)
  <2>1. Pipeline => UNCHANGED <<callback, votes, outcome>>
    BY DEF Pipeline, FetchMetrics, FindCandidates, RankIncidents, ReadRanking, FetchRunbooks,
      AskFails, AskAnswers, Apologise, TellAnalysis, CheckPlan, AssessCommand, TellPlan,
      CreateApproval, Decide, RunCommand, WaitForCommand, EndRun, Running, Elsewhere, feedbackVars
  <2>2. ProposeOther \/ EndOther => UNCHANGED <<callback, votes, outcome>>
    BY DEF ProposeOther, EndOther
  <2> QED
    BY <2>1, <2>2 DEF Next, Others, vars, feedbackVars
<1> QED
  BY <1>1, <1>2, <1>3

LEMMA AnalysisAlways == Spec => [](PlanInv /\ ExecInv /\ TableInv /\ VoteInv)
<1>1. Init => PlanInv /\ ExecInv /\ TableInv
  BY InitInv
<1>2. Init => VoteInv
  <2> SUFFICES ASSUME Init PROVE VoteInv
    OBVIOUS
  <2>1. /\ outcome = NoOutcome /\ DOMAIN votes = {}
        /\ callback = [p \in Presses |-> NotPressed]
    BY DEF Init, FeedbackInit
  <2>2. NotPressed \in CallbackType /\ NotPressed.at = "idle" /\ NotPressed.before = {}
    BY DEF NotPressed, CallbackType, CallbackAt
  <2>3. \A rating : Count(DOMAIN votes, rating) = 0
    <3>1. \A rating : {q \in DOMAIN votes : votes[q] = rating} = {}
      BY <2>1
    <3> QED
      BY <3>1, FS_EmptySet DEF Count
  <2>4. callback \in [Presses -> CallbackType]
    BY <2>1, <2>2
  <2>5. \A p \in Presses : CallbackInv(p)
    BY <2>1, <2>2 DEF CallbackInv, CallbackAt
  <2>6. Truthful(outcome) /\ Complete(outcome)
    <3>1. "" \in Known
      BY DEF Known
    <3>2. /\ NoOutcome.by = NoOne /\ NoOutcome.up = 0 /\ NoOutcome.down = 0
          /\ NoOutcome.status = ""
      BY DEF NoOutcome
    <3> QED
      <4>1. Count(DOMAIN votes, Up) = 0 /\ Count(DOMAIN votes, Down) = 0
        BY <2>3
      <4>2. /\ outcome.by = NoOne /\ outcome.up = 0 /\ outcome.down = 0
            /\ outcome.status = ""
        BY <2>1, <3>2
      <4>3. outcome.up <= Count(DOMAIN votes, Up) /\ outcome.down <= Count(DOMAIN votes, Down)
        <5>1. \A m, n : m = 0 /\ n = 0 => m <= n
          OBVIOUS
        <5> QED
          BY <4>1, <4>2, <5>1, Zenon
      <4>4. Complete(outcome)
        BY <4>2 DEF Complete
      <4>5. outcome.by \in Presses \cup {NoOne}
            /\ outcome.up \in Nat /\ outcome.down \in Nat /\ outcome.status \in Known
        <5>1. outcome.by \in Presses \cup {NoOne}
          BY <4>2, Zenon
        <5>2. \A n : n = 0 => n \in Nat
          OBVIOUS
        <5>3. outcome.up \in Nat /\ outcome.down \in Nat
          BY <4>2, <5>2, Zenon
        <5>4. outcome.status \in Known
          BY <3>1, <4>2, Zenon
        <5> QED
          BY <5>1, <5>3, <5>4
      <4>6. Truthful(outcome)
        BY <4>3, <4>5, Zenon DEF Truthful
      <4> QED
        BY <4>4, <4>6
  <2> QED
    BY <2>1, <2>4, <2>5, <2>6 DEF VoteInv
<1>3. PlanInv /\ ExecInv /\ TableInv /\ VoteInv /\ [Next]_vars
        => (PlanInv /\ ExecInv /\ TableInv /\ VoteInv)'
  BY PlanStep, ExecStep, TableStep, VoteStep
<1> QED
  BY <1>1, <1>2, <1>3, PTL DEF Spec

(* What stands in the outcome of an alert was counted by a callback that   *)
(* saw its own vote and every earlier one, in whatever order callbacks     *)
(* save, list and write (pipeline.go, refreshOutcome).                     *)
THEOREM OutcomesAreFaithful == Spec => []OutcomeIsFaithful
<1>1. VoteInv => OutcomeIsFaithful
  <2> SUFFICES ASSUME VoteInv, outcome.by # NoOne PROVE OutcomeIsFaithful
    BY DEF OutcomeIsFaithful
  <2>1. outcome.by \in Presses /\ outcome.up \in Nat /\ outcome.down \in Nat
    BY DEF VoteInv, Truthful
  <2>2. /\ Count(callback[outcome.by].before, Up) <= outcome.up
        /\ Count(callback[outcome.by].before, Down) <= outcome.down
        /\ outcome.up <= Count(DOMAIN votes, Up) /\ outcome.down <= Count(DOMAIN votes, Down)
        /\ outcome.status \in Known
    BY DEF VoteInv, Truthful, Complete
  <2>3. ASSUME NEW rating PROVE Count(callback[outcome.by].before, rating) \in Nat
    <3>1. callback[outcome.by].before \subseteq Presses
      BY <2>1 DEF VoteInv, CallbackType
    <3> QED
      <4>1. CountIn(votes, callback[outcome.by].before, rating) \in Nat
        BY <3>1, CountGrows
      <4>2. Count(callback[outcome.by].before, rating)
              = CountIn(votes, callback[outcome.by].before, rating)
        BY DEF Count, CountIn
      <4> QED
        BY <4>1, <4>2
  <2>4. /\ outcome.up >= Count(callback[outcome.by].before, Up)
        /\ outcome.down >= Count(callback[outcome.by].before, Down)
    BY <2>1, <2>2, <2>3
  <2> QED
    BY <2>2, <2>4 DEF OutcomeIsFaithful, Known
<1> QED
  BY <1>1, AnalysisAlways, PTL

(* The runbooks go only when a load without an error found none            *)
(* (runbooks/store.go, Reload).                                            *)
THEOREM ReloadKeepsRunbooks == Spec => BadReloadKeepsRunbooks
<1>1. ASSUME [Next]_vars, DOMAIN snapshot # {}, DOMAIN snapshot' = {} PROVE ~loaded.error
  <2>1. SwapRunbooks
    <3>1. Pipeline => UNCHANGED snapshot
      BY DEF Pipeline, FetchMetrics, FindCandidates, RankIncidents, ReadRanking, FetchRunbooks,
        AskFails, AskAnswers, Apologise, TellAnalysis, CheckPlan, AssessCommand, TellPlan,
        CreateApproval, Decide, RunCommand, WaitForCommand, EndRun, Running, Elsewhere, runbookVars
    <3>2. LoadRunbooks \/ EditRunbooks => UNCHANGED snapshot
      BY DEF LoadRunbooks, EditRunbooks
    <3> QED
      BY <1>1, <3>1, <3>2 DEF Next, Others, Reloads, vars, runbookVars
  <2>2. snapshot' = Swapped(loaded)
    BY <2>1 DEF SwapRunbooks
  <2> QED
    BY <1>1, <2>2 DEF Swapped
<1> QED
  BY <1>1, PTL DEF Spec, BadReloadKeepsRunbooks

-----------------------------------------------------------------------------
(* The function that FirstObject runs over a text.                         *)
Scans(f, t) ==
  /\ f[0] = ScanStart
  /\ \A n \in 1..Len(t) : f[n] = ScanStep(f[n - 1], t[n])

(* A scan that is not in the middle of an escape and not at its end.       *)
ScanAt(p, d, q) == [length |-> p, depth |-> d, inString |-> q, escaped |-> FALSE, end |-> 0]

(* Where w stands in a text, it takes any scan from depth d to depth e,    *)
(* and into a string or out of it.                                         *)
Stands(t, p, w) ==
  /\ p \in Nat /\ p + Len(w) <= Len(t)
  /\ \A i \in 1..Len(w) : t[p + i] = w[i]

Leads(w, q, d, r, e) ==
  \A f, t, p : Scans(f, t) /\ Len(t) \in Nat /\ Stands(t, p, w) /\ f[p] = ScanAt(p, d, q)
                 => f[p + Len(w)] = ScanAt(p + Len(w), e, r)

(* In the middle of an escape, and at the end.                             *)
ScanEscaping(p, d, q) == [length |-> p, depth |-> d, inString |-> q, escaped |-> TRUE, end |-> 0]
ScanEnded(p) == [length |-> p, depth |-> 0, inString |-> FALSE, escaped |-> FALSE, end |-> p]

ScanStates == [length : Nat, depth : Int, inString : BOOLEAN, escaped : BOOLEAN, end : Nat]

LEMMA CharactersDiffer ==
  /\ Open \notin {Close, Quote, Escape, Fence, Newline, Other}
  /\ Close \notin {Quote, Escape, Fence, Newline, Other}
  /\ Quote \notin {Escape, Fence, Newline, Other}
  /\ Escape \notin {Fence, Newline, Other}
  /\ Fence \notin {Newline, Other}
  /\ Newline # Other
BY DEF Open, Close, Quote, Escape, Fence, Newline, Other

(* A state is the record of its fields.                                    *)
LEMMA ScanFields ==
  ASSUME NEW s \in ScanStates
  PROVE  /\ s.escaped = FALSE /\ s.end = 0 => s = ScanAt(s.length, s.depth, s.inString)
         /\ s.escaped = TRUE /\ s.end = 0 => s = ScanEscaping(s.length, s.depth, s.inString)
         /\ s.escaped = FALSE /\ s.inString = FALSE /\ s.depth = 0 /\ s.end = s.length
              => s = ScanEnded(s.length)
BY DEF ScanStates, ScanAt, ScanEscaping, ScanEnded

LEMMA OneStep ==
  ASSUME NEW p \in Nat, NEW d \in Nat, NEW q \in BOOLEAN, NEW c
  PROVE  /\ ScanStep(ScanEscaping(p, d, q), c) = ScanAt(p + 1, d, q)
         /\ c = Escape => ScanStep(ScanAt(p, d, q), c) = ScanEscaping(p + 1, d, q)
         /\ c = Quote => ScanStep(ScanAt(p, d, q), c) = ScanAt(p + 1, d, ~q)
         /\ c = Open /\ ~q => ScanStep(ScanAt(p, d, q), c) = ScanAt(p + 1, d + 1, q)
         /\ c = Close /\ ~q /\ d # 1 => ScanStep(ScanAt(p, d, q), c) = ScanAt(p + 1, d - 1, q)
         /\ c = Close /\ ~q /\ d = 1 => ScanStep(ScanAt(p, d, q), c) = ScanEnded(p + 1)
         /\ c \in {Open, Close} /\ q => ScanStep(ScanAt(p, d, q), c) = ScanAt(p + 1, d, q)
         /\ c = Other => ScanStep(ScanAt(p, d, q), c) = ScanAt(p + 1, d, q)
<1>1. ScanStep(ScanEscaping(p, d, q), c) = ScanAt(p + 1, d, q)
  <2>1. PICK s : s = ScanEscaping(p, d, q)
    OBVIOUS
  <2>2. PICK seen : seen = [s EXCEPT !.length = @ + 1]
    OBVIOUS
  <2>3. PICK t : t = [seen EXCEPT !.escaped = FALSE]
    OBVIOUS
  <2>4. s \in ScanStates /\ s.end = 0 /\ s.escaped = TRUE
    BY <2>1 DEF ScanEscaping, ScanStates
  <2>5. s.length = p /\ s.depth = d /\ s.inString = q
    BY <2>1 DEF ScanEscaping
  <2>6. ~(s.end > 0)
    BY <2>4
  <2>7. ScanStep(s, c) = t
    BY <2>2, <2>3, <2>4, <2>6, Zenon DEF ScanStep
  <2>8. /\ seen \in ScanStates /\ seen.length = p + 1 /\ seen.depth = d /\ seen.inString = q
        /\ seen.end = 0
    BY <2>2, <2>4, <2>5 DEF ScanStates
  <2>9. t = ScanAt(p + 1, d, q)
    <3>1. /\ t \in ScanStates /\ t.length = p + 1 /\ t.depth = d /\ t.escaped = FALSE
          /\ t.inString = q /\ t.end = 0
      BY <2>3, <2>8 DEF ScanStates
    <3> QED
      BY <3>1, ScanFields
  <2> QED
    BY <2>1, <2>7, <2>9
<1>2. PICK s : s = ScanAt(p, d, q)
  OBVIOUS
<1>3. PICK seen : seen = [s EXCEPT !.length = @ + 1]
  OBVIOUS
<1>4. s \in ScanStates /\ s.end = 0 /\ s.escaped = FALSE /\ s.depth = d /\ s.length = p
  BY <1>2 DEF ScanAt, ScanStates
<1>5. s.inString = q
  BY <1>2 DEF ScanAt
<1>6. ~(s.end > 0) /\ (s.inString <=> q)
  <2>1. ~(s.end > 0)
    BY <1>4
  <2>2. s.inString <=> q
    BY <1>5, Zenon
  <2> QED
    BY <2>1, <2>2, Zenon
<1>7. /\ seen \in ScanStates /\ seen.length = p + 1 /\ seen.depth = d
      /\ seen.inString = q /\ seen.end = 0 /\ seen.escaped = FALSE
  BY <1>3, <1>4, <1>5 DEF ScanStates
<1>8. seen = ScanAt(p + 1, d, q)
  BY <1>7, ScanFields
<1>9. ASSUME c = Escape PROVE ScanStep(s, c) = ScanEscaping(p + 1, d, q)
  <2>1. PICK t : t = [seen EXCEPT !.escaped = TRUE]
    OBVIOUS
  <2>2. /\ t \in ScanStates /\ t.length = p + 1 /\ t.depth = d /\ t.escaped = TRUE
        /\ t.inString = q /\ t.end = 0
    BY <1>7, <2>1 DEF ScanStates
  <2>3. t = ScanEscaping(p + 1, d, q)
    BY <2>2, ScanFields
  <2>4. ScanStep(s, c) = t
    BY <1>3, <1>4, <1>6, <1>9, <2>1, CharactersDiffer, Zenon DEF ScanStep
  <2> QED
    BY <2>3, <2>4
<1>10. ASSUME c = Quote PROVE ScanStep(s, c) = ScanAt(p + 1, d, ~q)
  <2>1. PICK t : t = [seen EXCEPT !.inString = ~@]
    OBVIOUS
  <2>2. /\ t \in ScanStates /\ t.length = p + 1 /\ t.depth = d /\ t.escaped = FALSE
        /\ t.inString = ~q /\ t.end = 0
    BY <1>7, <2>1 DEF ScanStates
  <2>3. t = ScanAt(p + 1, d, ~q)
    BY <2>2, ScanFields
  <2>4. ScanStep(s, c) = t
    BY <1>3, <1>4, <1>6, <1>10, <2>1, CharactersDiffer, Zenon DEF ScanStep
  <2> QED
    BY <2>3, <2>4, Zenon
<1>11. ASSUME NEW e \in Int, NEW t, t = [seen EXCEPT !.depth = e] PROVE t = ScanAt(p + 1, e, q)
  <2>1. /\ t \in ScanStates /\ t.length = p + 1 /\ t.depth = e /\ t.escaped = FALSE
        /\ t.inString = q /\ t.end = 0
    BY <1>7, <1>11 DEF ScanStates
  <2> QED
    BY <2>1, ScanFields
<1>12. ASSUME c = Open, ~q PROVE ScanStep(s, c) = ScanAt(p + 1, d + 1, q)
  <2>1. PICK e \in Int : e = d + 1
    OBVIOUS
  <2>2. PICK t : t = [seen EXCEPT !.depth = e]
    OBVIOUS
  <2>3. e = seen.depth + 1
    BY <1>7, <2>1
  <2>4. ScanStep(s, c) = t
    BY <1>3, <1>4, <1>6, <1>12, <2>2, <2>3, CharactersDiffer, Zenon DEF ScanStep
  <2> QED
    BY <1>11, <2>1, <2>2, <2>4, Zenon
<1>13. ASSUME c = Close, ~q, d # 1 PROVE ScanStep(s, c) = ScanAt(p + 1, d - 1, q)
  <2>1. PICK e \in Int : e = d - 1
    OBVIOUS
  <2>2. PICK t : t = [seen EXCEPT !.depth = e]
    OBVIOUS
  <2>3. e = seen.depth - 1
    BY <1>7, <2>1
  <2>4. ScanStep(s, c) = t
    BY <1>3, <1>4, <1>6, <1>13, <2>2, <2>3, CharactersDiffer, Zenon DEF ScanStep
  <2> QED
    BY <1>11, <2>1, <2>2, <2>4, Zenon
<1>14. ASSUME c = Close, ~q, d = 1 PROVE ScanStep(s, c) = ScanEnded(p + 1)
  <2>6. PICK n \in Nat, z \in Int : n = seen.length /\ z = 0
    BY <1>7
  <2>1. PICK t : t = [seen EXCEPT !.depth = z, !.end = n]
    OBVIOUS
  <2>2. /\ t \in ScanStates /\ t.length = p + 1 /\ t.depth = z /\ t.escaped = FALSE
        /\ t.inString = q /\ t.end = n
    BY <1>7, <2>1 DEF ScanStates
  <2>3. t.inString = FALSE
    BY <1>14, <2>2
  <2>4. t = ScanEnded(p + 1)
    BY <1>7, <2>2, <2>3, <2>6, ScanFields
  <2>5. ScanStep(s, c) = t
    BY <1>3, <1>4, <1>6, <1>14, <2>1, <2>6, CharactersDiffer, Zenon DEF ScanStep
  <2> QED
    BY <2>4, <2>5
<1>15. ASSUME (c \in {Open, Close} /\ q) \/ c = Other PROVE ScanStep(s, c) = ScanAt(p + 1, d, q)
  <2>1. ScanStep(s, c) = seen
    BY <1>3, <1>4, <1>6, <1>15, CharactersDiffer, Zenon DEF ScanStep
  <2> QED
    BY <1>8, <2>1
<1> QED
  BY <1>1, <1>2, <1>9, <1>10, <1>12, <1>13, <1>14, <1>15, Zenon

LEMMA LeadsOn ==
  ASSUME NEW u \in Seq(Characters), NEW v \in Seq(Characters),
         NEW q, NEW d, NEW r, NEW e, NEW s, NEW g,
         Leads(u, q, d, r, e), Leads(v, r, e, s, g)
  PROVE  Leads(u \o v, q, d, s, g)
<1>1. /\ Len(u) \in Nat /\ Len(v) \in Nat /\ Len(u \o v) = Len(u) + Len(v)
      /\ \A i \in 1..Len(u) : (u \o v)[i] = u[i]
      /\ \A i \in 1..Len(v) : (u \o v)[Len(u) + i] = v[i]
  BY ConcatProperties, LenProperties
<1>2. SUFFICES ASSUME NEW f, NEW t, NEW p, Scans(f, t), Len(t) \in Nat, Stands(t, p, u \o v),
                      f[p] = ScanAt(p, d, q)
               PROVE  f[p + Len(u \o v)] = ScanAt(p + Len(u \o v), g, s)
  BY DEF Leads
<1>3. Stands(t, p, u)
  <2>1. p \in Nat /\ p + Len(u) <= Len(t)
    BY <1>1, <1>2 DEF Stands
  <2>2. ASSUME NEW i \in 1..Len(u) PROVE t[p + i] = u[i]
    <3>1. i \in 1..Len(u \o v)
      BY <1>1
    <3>2. t[p + i] = (u \o v)[i]
      BY <1>2, <3>1, Zenon DEF Stands
    <3> QED
      BY <1>1, <3>2
  <2> QED
    BY <2>1, <2>2, Zenon DEF Stands
<1>4. f[p + Len(u)] = ScanAt(p + Len(u), e, r)
  BY <1>2, <1>3 DEF Leads
<1>5. Stands(t, p + Len(u), v)
  <2>1. p \in Nat /\ p + Len(u) \in Nat /\ (p + Len(u)) + Len(v) <= Len(t)
    BY <1>1, <1>2 DEF Stands
  <2>2. ASSUME NEW i \in 1..Len(v) PROVE t[(p + Len(u)) + i] = v[i]
    <3>1. Len(u) + i \in 1..Len(u \o v) /\ p + (Len(u) + i) = (p + Len(u)) + i
      BY <1>1, <2>1
    <3>2. t[p + (Len(u) + i)] = (u \o v)[Len(u) + i]
      BY <1>2, <3>1 DEF Stands
    <3> QED
      BY <1>1, <3>1, <3>2
  <2> QED
    BY <2>1, <2>2 DEF Stands
<1>6. f[(p + Len(u)) + Len(v)] = ScanAt((p + Len(u)) + Len(v), g, s)
  BY <1>2, <1>4, <1>5 DEF Leads
<1>7. (p + Len(u)) + Len(v) = p + Len(u \o v)
  BY <1>1, <1>2 DEF Stands
<1> QED
  BY <1>6, <1>7

(* One character.                                                          *)
LEMMA LeadsOne ==
  ASSUME NEW c, NEW d, NEW q, NEW e, NEW r,
         \A p \in Nat : ScanStep(ScanAt(p, d, q), c) = ScanAt(p + 1, e, r)
  PROVE  Leads(<<c>>, q, d, r, e)
<1>1. SUFFICES ASSUME NEW f, NEW t, NEW p, Scans(f, t), Len(t) \in Nat, Stands(t, p, <<c>>),
                      f[p] = ScanAt(p, d, q)
               PROVE  f[p + Len(<<c>>)] = ScanAt(p + Len(<<c>>), e, r)
  BY DEF Leads
<1>2. Len(<<c>>) = 1 /\ <<c>>[1] = c
  OBVIOUS
<1>3. p \in Nat /\ p + 1 <= Len(t) /\ t[p + 1] = c
  <2>1. 1 \in 1..Len(<<c>>)
    BY <1>2
  <2> QED
    BY <1>1, <1>2, <2>1 DEF Stands
<1>5. p + 1 \in 1..Len(t) /\ (p + 1) - 1 = p
  BY <1>1, <1>3
<1>4. f[p + 1] = ScanStep(f[p], c)
  BY <1>1, <1>3, <1>5 DEF Scans
<1> QED
  BY <1>1, <1>2, <1>3, <1>4

(* A backslash and the character after it.                                 *)
LEMMA LeadsEscape ==
  ASSUME NEW c, NEW d \in Nat PROVE Leads(<<Escape, c>>, TRUE, d, TRUE, d)
<1>1. SUFFICES ASSUME NEW f, NEW t, NEW p, Scans(f, t), Len(t) \in Nat, Stands(t, p, <<Escape, c>>),
                      f[p] = ScanAt(p, d, TRUE)
               PROVE  f[p + Len(<<Escape, c>>)] = ScanAt(p + Len(<<Escape, c>>), d, TRUE)
  BY DEF Leads
<1>2. Len(<<Escape, c>>) = 2 /\ <<Escape, c>>[1] = Escape /\ <<Escape, c>>[2] = c
  OBVIOUS
<1>3. /\ p \in Nat /\ p + 1 \in 1..Len(t) /\ (p + 1) - 1 = p /\ t[p + 1] = Escape
      /\ p + 2 \in 1..Len(t) /\ (p + 2) - 1 = p + 1 /\ t[p + 2] = c
      /\ (p + 1) + 1 = p + 2
  BY <1>1, <1>2 DEF Stands
<1>4. f[p + 1] = ScanEscaping(p + 1, d, TRUE)
  <2>1. f[p + 1] = ScanStep(ScanAt(p, d, TRUE), Escape)
    BY <1>1, <1>3 DEF Scans
  <2> QED
    BY <1>3, <2>1, OneStep
<1>5. f[p + 2] = ScanStep(ScanEscaping(p + 1, d, TRUE), c)
  BY <1>1, <1>3, <1>4 DEF Scans
<1>6. f[p + 2] = ScanAt((p + 1) + 1, d, TRUE)
  <2>1. p + 1 \in Nat
    BY <1>3
  <2> QED
    BY <1>5, <2>1, OneStep
<1> QED
  BY <1>2, <1>3, <1>6

LEMMA CharactersLead ==
  ASSUME NEW d \in Nat
  PROVE  /\ Leads(<<Quote>>, FALSE, d, TRUE, d) /\ Leads(<<Quote>>, TRUE, d, FALSE, d)
         /\ \A c \in {Open, Close, Other} : Leads(<<c>>, TRUE, d, TRUE, d)
         /\ Leads(<<Other>>, FALSE, d, FALSE, d)
         /\ Leads(<<Open>>, FALSE, d, FALSE, d + 1)
         /\ d # 1 => Leads(<<Close>>, FALSE, d, FALSE, d - 1)
<1>1. ASSUME NEW p \in Nat
      PROVE  /\ ScanStep(ScanAt(p, d, FALSE), Quote) = ScanAt(p + 1, d, TRUE)
             /\ ScanStep(ScanAt(p, d, TRUE), Quote) = ScanAt(p + 1, d, FALSE)
             /\ \A c \in {Open, Close, Other} : ScanStep(ScanAt(p, d, TRUE), c) = ScanAt(p + 1, d, TRUE)
             /\ ScanStep(ScanAt(p, d, FALSE), Other) = ScanAt(p + 1, d, FALSE)
             /\ ScanStep(ScanAt(p, d, FALSE), Open) = ScanAt(p + 1, d + 1, FALSE)
             /\ d # 1 => ScanStep(ScanAt(p, d, FALSE), Close) = ScanAt(p + 1, d - 1, FALSE)
  <2>1. /\ ScanStep(ScanAt(p, d, FALSE), Other) = ScanAt(p + 1, d, FALSE)
        /\ ScanStep(ScanAt(p, d, FALSE), Open) = ScanAt(p + 1, d + 1, FALSE)
        /\ d # 1 => ScanStep(ScanAt(p, d, FALSE), Close) = ScanAt(p + 1, d - 1, FALSE)
    BY OneStep
  <2>2. /\ ScanStep(ScanAt(p, d, FALSE), Quote) = ScanAt(p + 1, d, TRUE)
        /\ ScanStep(ScanAt(p, d, TRUE), Quote) = ScanAt(p + 1, d, FALSE)
    <3>1. /\ ScanStep(ScanAt(p, d, FALSE), Quote) = ScanAt(p + 1, d, ~FALSE)
          /\ ScanStep(ScanAt(p, d, TRUE), Quote) = ScanAt(p + 1, d, ~TRUE)
      BY OneStep
    <3> QED
      BY <3>1
  <2>3. \A c \in {Open, Close, Other} : ScanStep(ScanAt(p, d, TRUE), c) = ScanAt(p + 1, d, TRUE)
    BY OneStep
  <2> QED
    BY <2>1, <2>2, <2>3, Zenon
<1> QED
  BY <1>1, LeadsOne

(* What JSON allows.  The recursive functions of Analyzer are defined by   *)
(* their equations, and have a value because functions that satisfy them   *)
(* exist, by the least length for which none would.                        *)
StringBody(f, n) ==
  IF n = 0 THEN {<<>>}
  ELSE Then({<<Open>>, <<Close>>, <<Other>>}, f[n - 1])
       \cup IF n = 1 THEN {}
            ELSE Then({<<Escape, c>> : c \in {Open, Quote, Escape}}, f[n - 2])

ObjectBody(f, n) ==
  IF n = 0 THEN {<<>>}
  ELSE Then({<<Other>>}, f[n - 1])
       \cup (UNION {Then(Quoted(InString[k]), f[n - 2 - k]) : k \in 0..(n - 2)})
       \cup (UNION {Then(Braced(f[k]), f[n - 2 - k]) : k \in 0..(n - 2)})

Strings(f, m) == f = [n \in 0..m |-> StringBody(f, n)]
Objects(f, m) == f = [n \in 0..m |-> ObjectBody(f, n)]

(* A body looks only at what is shorter.                                   *)
LEMMA BodiesAgree ==
  ASSUME NEW n \in Nat, NEW f, NEW g, \A k \in 0..(n - 1) : f[k] = g[k]
  PROVE  StringBody(f, n) = StringBody(g, n) /\ ObjectBody(f, n) = ObjectBody(g, n)
<1>1. CASE n = 0
  BY <1>1 DEF StringBody, ObjectBody
<1>2. CASE n # 0
  <2>1. f[n - 1] = g[n - 1]
    BY <1>2
  <2>2. n # 1 => f[n - 2] = g[n - 2]
    BY <1>2
  <2>3. StringBody(f, n) = StringBody(g, n)
    BY <1>2, <2>1, <2>2, Zenon DEF StringBody
  <2> DEFINE FS(k) == Then(Quoted(InString[k]), f[n - 2 - k])
             GS(k) == Then(Quoted(InString[k]), g[n - 2 - k])
             FO(k) == Then(Braced(f[k]), f[n - 2 - k])
             GO(k) == Then(Braced(g[k]), g[n - 2 - k])
  <2>4. ASSUME NEW k \in 0..(n - 2) PROVE FS(k) = GS(k) /\ FO(k) = GO(k)
    <3>1. f[k] = g[k] /\ f[n - 2 - k] = g[n - 2 - k]
      <4>1. k \in 0..(n - 1) /\ n - 2 - k \in 0..(n - 1)
        OBVIOUS
      <4> QED
        BY <4>1
    <3> QED
      BY <3>1, Zenon
  <2>5. ObjectBody(f, n) = Then({<<Other>>}, f[n - 1])
                           \cup (UNION {FS(k) : k \in 0..(n - 2)}) \cup (UNION {FO(k) : k \in 0..(n - 2)})
    BY <1>2, Zenon DEF ObjectBody
  <2>6. ObjectBody(g, n) = Then({<<Other>>}, g[n - 1])
                           \cup (UNION {GS(k) : k \in 0..(n - 2)}) \cup (UNION {GO(k) : k \in 0..(n - 2)})
    BY <1>2, Zenon DEF ObjectBody
  <2> HIDE DEF FS, GS, FO, GO
  <2>7. {FS(k) : k \in 0..(n - 2)} = {GS(k) : k \in 0..(n - 2)}
    BY <2>4
  <2>8. {FO(k) : k \in 0..(n - 2)} = {GO(k) : k \in 0..(n - 2)}
    BY <2>4
  <2>9. Then({<<Other>>}, f[n - 1]) = Then({<<Other>>}, g[n - 1])
    BY <2>1, Zenon
  <2>10. ObjectBody(f, n) = ObjectBody(g, n)
    BY <2>5, <2>6, <2>7, <2>8, <2>9, Zenon
  <2> QED
    BY <2>3, <2>10
<1> QED
  BY <1>1, <1>2

LEMMA TextsExist == ASSUME NEW m \in Nat PROVE (\E f : Strings(f, m)) /\ (\E f : Objects(f, m))
<1> DEFINE T == {k \in Nat : ~ ((\E f : Strings(f, k)) /\ (\E f : Objects(f, k)))}
<1>1. SUFFICES ASSUME T # {} PROVE FALSE
  OBVIOUS
<1>2. PICK k \in T : \A j \in T : k <= j
  BY <1>1, NatHasLeast
<1>3. \E f, g : \A n \in 0..(k - 1) : f[n] = StringBody(f, n) /\ g[n] = ObjectBody(g, n)
  <2>1. CASE k = 0
    BY <2>1
  <2>2. CASE k # 0
    <3>1. k - 1 \in Nat /\ k - 1 \notin T
      BY <1>2, <2>2
    <3>2. PICK f, g : Strings(f, k - 1) /\ Objects(g, k - 1)
      BY <3>1
    <3>3. PICK fs, gs : fs = f /\ gs = g
      OBVIOUS
    <3>4. /\ f = [n \in 0..(k - 1) |-> StringBody(fs, n)]
          /\ g = [n \in 0..(k - 1) |-> ObjectBody(gs, n)]
      BY <3>2, <3>3 DEF Strings, Objects
    <3>5. \A n \in 0..(k - 1) : f[n] = StringBody(fs, n) /\ g[n] = ObjectBody(gs, n)
      BY <3>4, Zenon
    <3> QED
      BY <3>3, <3>5
  <2> QED
    BY <2>1, <2>2
<1>4. PICK f, g : \A n \in 0..(k - 1) : f[n] = StringBody(f, n) /\ g[n] = ObjectBody(g, n)
  BY <1>3
<1>5. PICK fs : fs = [n \in 0..k |-> StringBody(f, n)]
  OBVIOUS
<1>6. PICK gs : gs = [n \in 0..k |-> ObjectBody(g, n)]
  OBVIOUS
<1>7. \A n \in 0..(k - 1) : fs[n] = f[n] /\ gs[n] = g[n]
  <2>1. ASSUME NEW n \in 0..(k - 1) PROVE fs[n] = f[n] /\ gs[n] = g[n]
    <3>1. n \in 0..k
      BY <1>2
    <3>2. fs[n] = StringBody(f, n) /\ gs[n] = ObjectBody(g, n)
      BY <1>5, <1>6, <3>1, Zenon
    <3> QED
      BY <1>4, <3>2
  <2> QED
    BY <2>1
<1>8. \A n \in 0..k : StringBody(f, n) = StringBody(fs, n) /\ ObjectBody(g, n) = ObjectBody(gs, n)
  <2>1. ASSUME NEW n \in 0..k
        PROVE  StringBody(f, n) = StringBody(fs, n) /\ ObjectBody(g, n) = ObjectBody(gs, n)
    <3>1. \A i \in 0..(n - 1) : f[i] = fs[i] /\ g[i] = gs[i]
      BY <1>2, <1>7
    <3>2. n \in Nat
      BY <1>2
    <3> QED
      BY <3>1, <3>2, BodiesAgree
  <2> QED
    BY <2>1
<1>9. fs = [n \in 0..k |-> StringBody(fs, n)] /\ gs = [n \in 0..k |-> ObjectBody(gs, n)]
  BY <1>5, <1>6, <1>8
<1>10. Strings(fs, k) /\ Objects(gs, k)
  BY <1>9 DEF Strings, Objects
<1> QED
  BY <1>2, <1>10

LEMMA TextsAre ==
  /\ \A n \in 0..MaxText : InString[n] = StringBody(InString, n)
  /\ \A n \in 0..MaxText : InObject[n] = ObjectBody(InObject, n)
<1>1. MaxText \in Nat
  BY AnalyzerAssumption
<1>2. InString = CHOOSE f : Strings(f, MaxText)
  BY Zenon DEF InString, Strings, StringBody
<1>3. InObject = CHOOSE f : Objects(f, MaxText)
  BY Zenon DEF InObject, Objects, ObjectBody
<1>4. Strings(InString, MaxText) /\ Objects(InObject, MaxText)
  BY <1>1, <1>2, <1>3, TextsExist
<1>5. PICK fs, gs : fs = InString /\ gs = InObject
  OBVIOUS
<1>6. fs = [n \in 0..MaxText |-> StringBody(InString, n)]
      /\ gs = [n \in 0..MaxText |-> ObjectBody(InObject, n)]
  BY <1>4, <1>5 DEF Strings, Objects
<1>7. \A n \in 0..MaxText : fs[n] = StringBody(InString, n) /\ gs[n] = ObjectBody(InObject, n)
  BY <1>6, Zenon
<1> QED
  BY <1>5, <1>7

(* The inside of a string leaves a scan in the string, the inside of an    *)
(* object leaves it at its depth.                                          *)
StringGood(n, s) ==
  s \in Seq(Characters) /\ Len(s) = n /\ \A d \in Nat : Leads(s, TRUE, d, TRUE, d)

ObjectGood(n, o) ==
  o \in Seq(Characters) /\ Len(o) = n /\ \A d \in Nat \ {0} : Leads(o, FALSE, d, FALSE, d)

LEMMA SingleCharacters ==
  /\ \A c \in Characters : <<c>> \in Seq(Characters) /\ Len(<<c>>) = 1 /\ <<c>>[1] = c
  /\ \A c, d \in Characters : <<c, d>> \in Seq(Characters) /\ Len(<<c, d>>) = 2
  /\ {Open, Close, Quote, Escape, Fence, Newline, Other} \subseteq Characters
  /\ <<>> \in Seq(Characters) /\ Len(<<>>) = 0
BY DEF Characters

LEMMA NothingLeads == \A q, d : Leads(<<>>, q, d, q, d)
<1> SUFFICES ASSUME NEW q, NEW d, NEW f, NEW t, NEW p, Stands(t, p, <<>>), f[p] = ScanAt(p, d, q)
             PROVE  f[p + Len(<<>>)] = ScanAt(p + Len(<<>>), d, q)
  BY DEF Leads
<1>1. p \in Nat /\ p + Len(<<>>) = p
  BY DEF Stands
<1> QED
  BY <1>1

(* One text after the other.                                               *)
LEMMA CharactersAssociate ==
  \A s, t, u \in Seq(Characters) : (s \o t) \o u = s \o (t \o u)
<1> SUFFICES ASSUME NEW s \in Seq(Characters), NEW t \in Seq(Characters), NEW u \in Seq(Characters)
             PROVE  (s \o t) \o u = s \o (t \o u)
  OBVIOUS
<1> QED
  BY ConcatAssociative

Splits(s, S, T) == \E u \in S, w \in T : s = u \o w

LEMMA ThenIs == \A S, T : \A s \in Then(S, T) : Splits(s, S, T)
BY DEF Then, Splits

LEMMA StringThen ==
  ASSUME NEW u \in Seq(Characters), NEW m \in Nat, NEW n \in Nat, Len(u) = m, m <= n,
         \A d \in Nat : Leads(u, TRUE, d, TRUE, d), NEW w, StringGood(n - m, w)
  PROVE  StringGood(n, u \o w)
<1>1. w \in Seq(Characters) /\ Len(w) = n - m
  BY DEF StringGood
<1>2. u \o w \in Seq(Characters) /\ Len(u \o w) = n
  <2>1. u \o w \in Seq(Characters) /\ Len(u \o w) = Len(u) + Len(w)
    BY <1>1, ConcatProperties
  <2>2. m + (n - m) = n
    OBVIOUS
  <2> QED
    BY <1>1, <2>1, <2>2
<1>3. ASSUME NEW d \in Nat PROVE Leads(u \o w, TRUE, d, TRUE, d)
  <2>1. Leads(u, TRUE, d, TRUE, d) /\ Leads(w, TRUE, d, TRUE, d)
    BY DEF StringGood
  <2> QED
    BY <1>1, <2>1, LeadsOn
<1> QED
  BY <1>2, <1>3 DEF StringGood

LEMMA StringsLead == \A n \in 0..MaxText : \A s \in InString[n] : StringGood(n, s)
<1> DEFINE T == {n \in 0..MaxText : ~ \A s \in InString[n] : StringGood(n, s)}
<1>1. SUFFICES ASSUME T # {} PROVE FALSE
  OBVIOUS
<1>2. PICK n \in T : \A m \in T : n <= m
  <2>1. T \in SUBSET Nat
    BY AnalyzerAssumption
  <2> QED
    BY <1>1, <2>1, NatHasLeast
<1>3. n \in Nat /\ n \in 0..MaxText /\ MaxText \in Nat
  BY <1>2, AnalyzerAssumption
<1>4. \A m \in 0..(n - 1) : \A s \in InString[m] : StringGood(m, s)
  BY <1>2, <1>3
<1>5. ASSUME NEW s \in InString[n] PROVE StringGood(n, s)
  <2>1. InString[n] = StringBody(InString, n)
    BY <1>3, TextsAre
  <2>2. CASE n = 0
    <3>1. s = <<>>
      BY <2>1, <2>2, <1>5 DEF StringBody
    <3> QED
      BY <2>2, <3>1, NothingLeads, SingleCharacters DEF StringGood
  <2>3. CASE n # 0 /\ s \in Then({<<Open>>, <<Close>>, <<Other>>}, InString[n - 1])
    <3>8. PICK H, R : H = {<<Open>>, <<Close>>, <<Other>>} /\ R = InString[n - 1]
      OBVIOUS
    <3>9. s \in Then(H, R)
      BY <2>3, <3>8, Zenon
    <3>10. Splits(s, H, R)
      BY <3>9, ThenIs, Zenon
    <3>1. PICK u \in H, w \in R : s = u \o w
      BY <3>10, Zenon DEF Splits
    <3>2. StringGood(n - 1, w)
      BY <3>8, <1>3, <1>4, <2>3
    <3>3. u \in Seq(Characters) /\ Len(u) = 1 /\ \A d \in Nat : Leads(u, TRUE, d, TRUE, d)
      BY <3>8, CharactersLead, SingleCharacters
    <3>4. 1 <= n
      BY <1>3, <2>3
    <3> QED
      BY <1>3, <3>1, <3>2, <3>3, <3>4, StringThen
  <2>4. CASE n > 1 /\ s \in Then({<<Escape, c>> : c \in {Open, Quote, Escape}}, InString[n - 2])
    <3>8. PICK H, R : H = {<<Escape, c>> : c \in {Open, Quote, Escape}} /\ R = InString[n - 2]
      OBVIOUS
    <3>9. s \in Then(H, R)
      BY <2>4, <3>8, Zenon
    <3>10. Splits(s, H, R)
      BY <3>9, ThenIs, Zenon
    <3>1. PICK u \in H, w \in R : s = u \o w
      BY <3>10, Zenon DEF Splits
    <3>2. StringGood(n - 2, w)
      BY <3>8, <1>3, <1>4, <2>4
    <3>3. PICK c \in {Open, Quote, Escape} : u = <<Escape, c>>
      BY <3>8, <3>1
    <3>4. u \in Seq(Characters) /\ Len(u) = 2
      BY <3>3, SingleCharacters
    <3>5. \A d \in Nat : Leads(u, TRUE, d, TRUE, d)
      BY <3>3, LeadsEscape
    <3>6. 2 <= n
      BY <1>3, <2>4
    <3> QED
      BY <1>3, <3>1, <3>2, <3>4, <3>5, <3>6, StringThen
  <2>5. CASE n # 0
    <3>1. \/ s \in Then({<<Open>>, <<Close>>, <<Other>>}, InString[n - 1])
          \/ n # 1 /\ s \in Then({<<Escape, c>> : c \in {Open, Quote, Escape}}, InString[n - 2])
      BY <1>5, <2>1, <2>5, Zenon DEF StringBody
    <3>2. n # 1 => n > 1
      BY <1>3, <2>5
    <3> QED
      BY <2>3, <2>4, <2>5, <3>1, <3>2
  <2> QED
    BY <2>2, <2>5
<1> QED
  BY <1>2, <1>5

LEMMA ObjectThen ==
  ASSUME NEW u \in Seq(Characters), NEW m \in Nat, NEW n \in Nat, Len(u) = m, m <= n,
         \A d \in Nat \ {0} : Leads(u, FALSE, d, FALSE, d), NEW w, ObjectGood(n - m, w)
  PROVE  ObjectGood(n, u \o w)
<1>1. w \in Seq(Characters) /\ Len(w) = n - m
  BY DEF ObjectGood
<1>2. u \o w \in Seq(Characters) /\ Len(u \o w) = n
  <2>1. u \o w \in Seq(Characters) /\ Len(u \o w) = Len(u) + Len(w)
    BY <1>1, ConcatProperties
  <2>2. m + (n - m) = n
    OBVIOUS
  <2> QED
    BY <1>1, <2>1, <2>2
<1>3. ASSUME NEW d \in Nat \ {0} PROVE Leads(u \o w, FALSE, d, FALSE, d)
  <2>1. Leads(u, FALSE, d, FALSE, d) /\ Leads(w, FALSE, d, FALSE, d)
    BY DEF ObjectGood
  <2> QED
    BY <1>1, <2>1, LeadsOn
<1> QED
  BY <1>2, <1>3 DEF ObjectGood

(* A string with its quotes, an object with its braces.                    *)
LEMMA QuotedLeads ==
  ASSUME NEW k \in Nat, NEW s, StringGood(k, s)
  PROVE  /\ <<Quote>> \o s \o <<Quote>> \in Seq(Characters)
         /\ Len(<<Quote>> \o s \o <<Quote>>) = k + 2
         /\ \A d \in Nat : Leads(<<Quote>> \o s \o <<Quote>>, FALSE, d, FALSE, d)
<1>1. <<Quote>> \in Seq(Characters) /\ Len(<<Quote>>) = 1
  BY SingleCharacters
<1>2. s \in Seq(Characters) /\ Len(s) = k
  BY DEF StringGood
<1>3. <<Quote>> \o s \in Seq(Characters) /\ Len(<<Quote>> \o s) = 1 + k
  BY <1>1, <1>2, ConcatProperties
<1>4. <<Quote>> \o s \o <<Quote>> \in Seq(Characters)
      /\ Len(<<Quote>> \o s \o <<Quote>>) = k + 2
  <2>1. <<Quote>> \o s \o <<Quote>> \in Seq(Characters)
        /\ Len(<<Quote>> \o s \o <<Quote>>) = (1 + k) + 1
    BY <1>1, <1>3, ConcatProperties
  <2>2. (1 + k) + 1 = k + 2
    OBVIOUS
  <2> QED
    BY <2>1, <2>2, Zenon
<1>5. ASSUME NEW d \in Nat PROVE Leads(<<Quote>> \o s \o <<Quote>>, FALSE, d, FALSE, d)
  <2>1. /\ Leads(<<Quote>>, FALSE, d, TRUE, d) /\ Leads(<<Quote>>, TRUE, d, FALSE, d)
        /\ Leads(s, TRUE, d, TRUE, d)
    BY CharactersLead DEF StringGood
  <2>2. Leads(<<Quote>> \o s, FALSE, d, TRUE, d)
    BY <1>1, <1>2, <2>1, LeadsOn
  <2> QED
    BY <1>1, <1>3, <2>1, <2>2, LeadsOn
<1> QED
  BY <1>4, <1>5, Zenon

LEMMA BracedLeads ==
  ASSUME NEW k \in Nat, NEW o, ObjectGood(k, o)
  PROVE  /\ <<Open>> \o o \o <<Close>> \in Seq(Characters)
         /\ Len(<<Open>> \o o \o <<Close>>) = k + 2
         /\ \A d \in Nat \ {0} : Leads(<<Open>> \o o \o <<Close>>, FALSE, d, FALSE, d)
<1>1. /\ <<Open>> \in Seq(Characters) /\ Len(<<Open>>) = 1
      /\ <<Close>> \in Seq(Characters) /\ Len(<<Close>>) = 1
  BY SingleCharacters
<1>2. o \in Seq(Characters) /\ Len(o) = k
  BY DEF ObjectGood
<1>3. <<Open>> \o o \in Seq(Characters) /\ Len(<<Open>> \o o) = 1 + k
  BY <1>1, <1>2, ConcatProperties
<1>4. <<Open>> \o o \o <<Close>> \in Seq(Characters)
      /\ Len(<<Open>> \o o \o <<Close>>) = k + 2
  <2>1. <<Open>> \o o \o <<Close>> \in Seq(Characters)
        /\ Len(<<Open>> \o o \o <<Close>>) = (1 + k) + 1
    BY <1>1, <1>3, ConcatProperties
  <2>2. (1 + k) + 1 = k + 2
    OBVIOUS
  <2> QED
    BY <2>1, <2>2, Zenon
<1>5. ASSUME NEW d \in Nat \ {0} PROVE Leads(<<Open>> \o o \o <<Close>>, FALSE, d, FALSE, d)
  <2>1. PICK e \in Nat \ {0} : e = d + 1 /\ e # 1 /\ e - 1 = d
    OBVIOUS
  <2>2. /\ Leads(<<Open>>, FALSE, d, FALSE, e) /\ Leads(<<Close>>, FALSE, e, FALSE, d)
        /\ Leads(o, FALSE, e, FALSE, e)
    <3>1. Leads(<<Open>>, FALSE, d, FALSE, d + 1)
      BY CharactersLead
    <3>2. Leads(<<Close>>, FALSE, e, FALSE, e - 1)
      BY <2>1, CharactersLead
    <3> QED
      BY <2>1, <3>1, <3>2 DEF ObjectGood
  <2>3. Leads(<<Open>> \o o, FALSE, d, FALSE, e)
    BY <1>1, <1>2, <2>2, LeadsOn
  <2> QED
    BY <1>1, <1>3, <2>2, <2>3, LeadsOn
<1> QED
  BY <1>4, <1>5, Zenon

LEMMA ObjectsLead == \A n \in 0..MaxText : \A o \in InObject[n] : ObjectGood(n, o)
<1> DEFINE T == {n \in 0..MaxText : ~ \A o \in InObject[n] : ObjectGood(n, o)}
<1>1. SUFFICES ASSUME T # {} PROVE FALSE
  OBVIOUS
<1>2. PICK n \in T : \A m \in T : n <= m
  <2>1. T \in SUBSET Nat
    BY AnalyzerAssumption
  <2> QED
    BY <1>1, <2>1, NatHasLeast
<1>3. n \in Nat /\ n \in 0..MaxText /\ MaxText \in Nat
  BY <1>2, AnalyzerAssumption
<1>4. \A m \in 0..(n - 1) : \A o \in InObject[m] : ObjectGood(m, o)
  BY <1>2, <1>3
<1>5. ASSUME NEW o \in InObject[n] PROVE ObjectGood(n, o)
  <2>1. InObject[n] = ObjectBody(InObject, n)
    BY <1>3, TextsAre
  <2>2. CASE n = 0
    <3>1. o = <<>>
      BY <2>1, <2>2, <1>5 DEF ObjectBody
    <3> QED
      BY <2>2, <3>1, NothingLeads, SingleCharacters DEF ObjectGood
  <2>3. CASE n # 0 /\ o \in Then({<<Other>>}, InObject[n - 1])
    <3>8. PICK H, R : H = {<<Other>>} /\ R = InObject[n - 1]
      OBVIOUS
    <3>9. o \in Then(H, R)
      BY <2>3, <3>8, Zenon
    <3>10. Splits(o, H, R)
      BY <3>9, ThenIs, Zenon
    <3>1. PICK u \in H, w \in R : o = u \o w
      BY <3>10, Zenon DEF Splits
    <3>2. ObjectGood(n - 1, w)
      BY <3>8, <1>3, <1>4, <2>3
    <3>3. u \in Seq(Characters) /\ Len(u) = 1 /\ \A d \in Nat \ {0} : Leads(u, FALSE, d, FALSE, d)
      BY <3>8, CharactersLead, SingleCharacters
    <3>4. 1 <= n
      BY <1>3, <2>3
    <3> QED
      BY <1>3, <3>1, <3>2, <3>3, <3>4, ObjectThen
  <2>4. CASE \E k \in 0..(n - 2) : o \in Then(Quoted(InString[k]), InObject[n - 2 - k])
    <3>1. PICK k \in 0..(n - 2) : o \in Then(Quoted(InString[k]), InObject[n - 2 - k])
      BY <2>4
    <3>8. PICK H, R : H = Quoted(InString[k]) /\ R = InObject[n - 2 - k]
      OBVIOUS
    <3>9. o \in Then(H, R)
      BY <3>1, <3>8, Zenon
    <3>10. Splits(o, H, R)
      BY <3>9, ThenIs, Zenon
    <3>2. PICK u \in H, w \in R : o = u \o w
      BY <3>10, Zenon DEF Splits
    <3>3. PICK s \in InString[k] : u = <<Quote>> \o s \o <<Quote>>
      BY <3>8, <3>2 DEF Quoted
    <3>4. /\ k \in 0..MaxText /\ k \in Nat /\ k + 2 <= n /\ k + 2 \in Nat
          /\ n - 2 - k \in 0..(n - 1) /\ n - 2 - k = n - (k + 2)
      BY <1>3
    <3>5. StringGood(k, s) /\ ObjectGood(n - (k + 2), w)
      BY <3>8, <1>4, <3>4, StringsLead
    <3>6. u \in Seq(Characters) /\ Len(u) = k + 2 /\ \A d \in Nat \ {0} : Leads(u, FALSE, d, FALSE, d)
      BY <3>3, <3>4, <3>5, QuotedLeads
    <3> QED
      BY <1>3, <3>2, <3>4, <3>5, <3>6, ObjectThen
  <2>5. CASE \E k \in 0..(n - 2) : o \in Then(Braced(InObject[k]), InObject[n - 2 - k])
    <3>1. PICK k \in 0..(n - 2) : o \in Then(Braced(InObject[k]), InObject[n - 2 - k])
      BY <2>5
    <3>8. PICK H, R : H = Braced(InObject[k]) /\ R = InObject[n - 2 - k]
      OBVIOUS
    <3>9. o \in Then(H, R)
      BY <3>1, <3>8, Zenon
    <3>10. Splits(o, H, R)
      BY <3>9, ThenIs, Zenon
    <3>2. PICK u \in H, w \in R : o = u \o w
      BY <3>10, Zenon DEF Splits
    <3>3. PICK s \in InObject[k] : u = <<Open>> \o s \o <<Close>>
      BY <3>8, <3>2 DEF Braced
    <3>4. /\ k \in 0..(n - 1) /\ k \in Nat /\ k + 2 <= n /\ k + 2 \in Nat
          /\ n - 2 - k \in 0..(n - 1) /\ n - 2 - k = n - (k + 2)
      BY <1>3
    <3>5. ObjectGood(k, s) /\ ObjectGood(n - (k + 2), w)
      BY <3>8, <1>4, <3>4
    <3>6. u \in Seq(Characters) /\ Len(u) = k + 2 /\ \A d \in Nat \ {0} : Leads(u, FALSE, d, FALSE, d)
      BY <3>3, <3>4, <3>5, BracedLeads
    <3> QED
      BY <1>3, <3>2, <3>4, <3>5, <3>6, ObjectThen
  <2>6. CASE n # 0
    <3> DEFINE Q(k) == Then(Quoted(InString[k]), InObject[n - 2 - k])
               B(k) == Then(Braced(InObject[k]), InObject[n - 2 - k])
    <3>1. InObject[n] = Then({<<Other>>}, InObject[n - 1])
            \cup (UNION {Q(k) : k \in 0..(n - 2)}) \cup (UNION {B(k) : k \in 0..(n - 2)})
      BY <2>1, <2>6, Zenon DEF ObjectBody
    <3>2. \/ o \in Then({<<Other>>}, InObject[n - 1])
          \/ \E k \in 0..(n - 2) : o \in Q(k)
          \/ \E k \in 0..(n - 2) : o \in B(k)
      <4> HIDE DEF Q, B
      <4>1. PICK R, QQ, BB : /\ R = Then({<<Other>>}, InObject[n - 1])
                             /\ QQ = {Q(k) : k \in 0..(n - 2)} /\ BB = {B(k) : k \in 0..(n - 2)}
        OBVIOUS
      <4>2. o \in R \cup (UNION QQ) \cup (UNION BB)
        <5>1. PICK J : J = InObject[n]
          OBVIOUS
        <5>2. J = R \cup (UNION QQ) \cup (UNION BB)
          BY <3>1, <4>1, <5>1, Zenon
        <5>3. o \in J
          BY <1>5, <5>1
        <5> QED
          BY <5>2, <5>3, Zenon
      <4>3. o \in R \/ (\E X \in QQ : o \in X) \/ (\E X \in BB : o \in X)
        BY <4>2, Zenon
      <4>4. (\E X \in QQ : o \in X) => \E k \in 0..(n - 2) : o \in Q(k)
        BY <4>1, Zenon
      <4>5. (\E X \in BB : o \in X) => \E k \in 0..(n - 2) : o \in B(k)
        BY <4>1, Zenon
      <4> QED
        BY <4>1, <4>3, <4>4, <4>5, Zenon
    <3> QED
      BY <2>3, <2>4, <2>5, <2>6, <3>2
  <2> QED
    BY <2>2, <2>6
<1> QED
  BY <1>2, <1>5

(* FirstObject runs such a function over what follows the first brace.     *)
Scanned(f, t, m) == f = [n \in 0..m |-> IF n = 0 THEN ScanStart ELSE ScanStep(f[n - 1], t[n])]

LEMMA ScannedExists == ASSUME NEW t, NEW m \in Nat PROVE \E f : Scanned(f, t, m)
<1> DEFINE T == {k \in Nat : ~ \E f : Scanned(f, t, k)}
<1>1. SUFFICES ASSUME T # {} PROVE FALSE
  OBVIOUS
<1>2. PICK k \in T : \A j \in T : k <= j
  BY <1>1, NatHasLeast
<1>3. CASE k = 0
  <2>1. PICK f : f = [n \in 0..0 |-> ScanStart]
    OBVIOUS
  <2>2. Scanned(f, t, 0)
    BY <2>1 DEF Scanned
  <2> QED
    BY <1>2, <1>3, <2>2
<1>4. CASE k # 0
  <2>1. k - 1 \in Nat /\ k - 1 \notin T /\ k \in Nat
    BY <1>2, <1>4
  <2>2. PICK g : Scanned(g, t, k - 1)
    BY <2>1
  <2>3. PICK v : v = ScanStep(g[k - 1], t[k])
    OBVIOUS
  <2>4. PICK f : f = [n \in 0..k |-> IF n = k THEN v ELSE g[n]]
    OBVIOUS
  <2>5. \A n \in 0..(k - 1) :
          f[n] = g[n] /\ g[n] = IF n = 0 THEN ScanStart ELSE ScanStep(g[n - 1], t[n])
    <3>1. \A n \in 0..(k - 1) : f[n] = g[n]
      BY <2>1, <2>4
    <3>2. PICK h : h = g
      OBVIOUS
    <3>3. g = [n \in 0..(k - 1) |-> IF n = 0 THEN ScanStart ELSE ScanStep(h[n - 1], t[n])]
      BY <2>2, <3>2 DEF Scanned
    <3>4. \A n \in 0..(k - 1) : g[n] = IF n = 0 THEN ScanStart ELSE ScanStep(h[n - 1], t[n])
      BY <3>3, Zenon
    <3> QED
      BY <3>1, <3>2, <3>4
  <2>6. \A n \in 0..k : f[n] = IF n = 0 THEN ScanStart ELSE ScanStep(f[n - 1], t[n])
    <3> TAKE n \in 0..k
    <3>1. CASE n = k
      BY <1>4, <2>1, <2>3, <2>4, <2>5, <3>1
    <3>2. CASE n # k
      <4>1. n \in 0..(k - 1) /\ (n # 0 => n - 1 \in 0..(k - 1))
        BY <2>1, <3>2
      <4> QED
        BY <2>5, <4>1
    <3> QED
      BY <3>1, <3>2
  <2>7. Scanned(f, t, k)
    BY <2>4, <2>6 DEF Scanned
  <2> QED
    BY <1>2, <2>7
<1> QED
  BY <1>3, <1>4

FirstOf(t, c) == SelectInSeq(t, LAMBDA d : d = c)

Rests(text, rest, m) ==
  /\ FirstOf(text, Open) # 0
  /\ rest = SubSeq(text, FirstOf(text, Open), Len(text))
  /\ Len(rest) = m

LEMMA FirstObjectScans ==
  ASSUME NEW text, NEW rest, NEW m \in Nat, Rests(text, rest, m)
  PROVE  \E f : Scans(f, rest) /\ FirstObject(text) = SubSeq(rest, 1, f[m].end)
<1>1. PICK f : f = CHOOSE g : Scanned(g, rest, m)
  OBVIOUS
<1>2. Scanned(f, rest, m)
  BY <1>1, ScannedExists
<1>3. FirstObject(text) = SubSeq(rest, 1, f[m].end)
  BY <1>1, Zenon DEF FirstObject, Scanned, FirstOf, Rests
<1>4. PICK h : h = f
  OBVIOUS
<1>5. f = [n \in 0..m |-> IF n = 0 THEN ScanStart ELSE ScanStep(h[n - 1], rest[n])]
  BY <1>2, <1>4 DEF Scanned
<1>6. \A n \in 0..m : f[n] = IF n = 0 THEN ScanStart ELSE ScanStep(h[n - 1], rest[n])
  BY <1>5, Zenon
<1>7. Scans(f, rest)
  <2>1. f[0] = ScanStart
    <3>1. 0 \in 0..m
      OBVIOUS
    <3> QED
      BY <1>6, <3>1, Zenon
  <2>2. ASSUME NEW n \in 1..m PROVE f[n] = ScanStep(f[n - 1], rest[n])
    <3>1. n \in 0..m /\ n # 0
      OBVIOUS
    <3> QED
      BY <1>4, <1>6, <3>1
  <2>3. Len(rest) = m
    BY DEF Rests
  <2> QED
    BY <2>1, <2>2, <2>3 DEF Scans
<1> QED
  BY <1>3, <1>7

(* After its end a scan does not move.                                     *)
LEMMA ScanStands ==
  ASSUME NEW f, NEW t, NEW m \in Nat, Len(t) = m, Scans(f, t),
         NEW k \in 1..m, f[k] = ScanEnded(k)
  PROVE  f[m] = ScanEnded(k)
<1> DEFINE T == {n \in k..m : f[n] # ScanEnded(k)}
<1>1. SUFFICES ASSUME T # {} PROVE FALSE
  OBVIOUS
<1>2. PICK n \in T : \A j \in T : n <= j
  <2>1. T \in SUBSET Nat
    OBVIOUS
  <2> QED
    BY <1>1, <2>1, NatHasLeast
<1>3. n # k
  BY <1>2
<1>4. n - 1 \in k..m /\ n - 1 \notin T /\ n \in 1..m
  BY <1>2, <1>3
<1>5. f[n] = ScanStep(ScanEnded(k), t[n])
  BY <1>4 DEF Scans
<1>6. ScanStep(ScanEnded(k), t[n]) = ScanEnded(k)
  <2>1. PICK s : s = ScanEnded(k)
    OBVIOUS
  <2>2. s.end > 0
    BY <2>1 DEF ScanEnded
  <2>3. ScanStep(s, t[n]) = s
    BY <2>2, Zenon DEF ScanStep
  <2> QED
    BY <2>1, <2>3
<1> QED
  BY <1>2, <1>5, <1>6

(* An object is found whole, whatever follows it.                          *)
IsObject(object, n, o) == ObjectGood(n, o) /\ object = <<Open>> \o o \o <<Close>>

LEMMA ObjectIs ==
  ASSUME NEW object \in JsonObjects PROVE \E n \in Nat, o \in Seq(Characters) : IsObject(object, n, o)
<1>1. PICK I : I = UNION {InObject[n] : n \in 0..MaxText}
  OBVIOUS
<1>2. JsonObjects = Braced(I)
  BY <1>1, Zenon DEF JsonObjects
<1>3. PICK o \in I : object = <<Open>> \o o \o <<Close>>
  BY <1>2 DEF Braced
<1>4. PICK n \in 0..MaxText : o \in InObject[n]
  BY <1>1, <1>3
<1>5. ObjectGood(n, o) /\ n \in Nat
  BY <1>4, ObjectsLead, AnalyzerAssumption
<1> QED
  BY <1>3, <1>5 DEF IsObject, ObjectGood

LEMMA LastBrace == \A p \in Nat : ScanStep(ScanAt(p, 1, FALSE), Close) = ScanEnded(p + 1)
<1>1. ASSUME NEW p \in Nat, NEW d \in Nat, d = 1 PROVE ScanStep(ScanAt(p, d, FALSE), Close) = ScanEnded(p + 1)
  BY <1>1, OneStep
<1>2. 1 \in Nat
  OBVIOUS
<1> QED
  BY <1>1, <1>2, Zenon

EndsAt(f, t, k) == f[Len(t)] = ScanEnded(k)

LEMMA ObjectScanned ==
  ASSUME NEW b, NEW n \in Nat, NEW o, IsObject(b, n, o), NEW after \in Seq(Characters),
         NEW f, NEW t, t = b \o after, Scans(f, t)
  PROVE  EndsAt(f, t, n + 2)
<1>1. /\ <<Open>> \in Seq(Characters) /\ Len(<<Open>>) = 1
      /\ <<Close>> \in Seq(Characters) /\ Len(<<Close>>) = 1
      /\ <<Open>>[1] = Open /\ <<Close>>[1] = Close
  BY SingleCharacters
<1>2. o \in Seq(Characters) /\ Len(o) = n
  BY DEF IsObject, ObjectGood
<1>3. PICK u : u = <<Open>> \o o
  OBVIOUS
<1>4. u \in Seq(Characters) /\ Len(u) = n + 1
  <2>1. u \in Seq(Characters) /\ Len(u) = 1 + n
    BY <1>1, <1>2, <1>3, ConcatProperties
  <2> QED
    BY <2>1
<1>5. b = u \o <<Close>>
  BY <1>3 DEF IsObject
<1>6. /\ b \in Seq(Characters) /\ Len(b) = n + 2
      /\ \A i \in 1..(n + 1) : b[i] = u[i]
      /\ b[n + 2] = Close
  <2>1. /\ b \in Seq(Characters) /\ Len(b) = (n + 1) + 1
        /\ \A i \in 1..((n + 1) + 1) : b[i] = IF i <= n + 1 THEN u[i] ELSE <<Close>>[i - (n + 1)]
    BY <1>1, <1>4, <1>5, ConcatProperties
  <2>2. (n + 1) + 1 = n + 2 /\ (n + 2) - (n + 1) = 1 /\ n + 2 \in 1..(n + 2) /\ ~(n + 2 <= n + 1)
    OBVIOUS
  <2>3. b[n + 2] = Close
    BY <1>1, <2>1, <2>2
  <2> QED
    BY <2>1, <2>2, <2>3
<1>8. /\ Len(t) = (n + 2) + Len(after) /\ Len(after) \in Nat
      /\ \A i \in 1..(n + 2) : t[i] = b[i]
  <2>4. /\ Len(b \o after) = Len(b) + Len(after)
        /\ \A i \in 1..(Len(b) + Len(after)) :
             (b \o after)[i] = IF i <= Len(b) THEN b[i] ELSE after[i - Len(b)]
    BY <1>6, ConcatProperties
  <2>1. /\ Len(t) = Len(b) + Len(after)
        /\ \A i \in 1..(Len(b) + Len(after)) : t[i] = IF i <= Len(b) THEN b[i] ELSE after[i - Len(b)]
    BY <2>4, Zenon
  <2>2. Len(after) \in Nat
    BY LenProperties
  <2>3. ASSUME NEW i \in 1..(n + 2) PROVE t[i] = b[i]
    <3>1. i \in 1..(Len(b) + Len(after)) /\ i <= Len(b)
      BY <1>6, <2>2
    <3> QED
      BY <2>1, <3>1
  <2> QED
    BY <1>6, <2>1, <2>2, <2>3
<1>9. Stands(t, 0, u)
  <2>1. ASSUME NEW i \in 1..Len(u) PROVE t[0 + i] = u[i]
    <3>1. i \in 1..(n + 1) /\ i \in 1..(n + 2) /\ 0 + i = i
      BY <1>4
    <3>2. t[i] = u[i]
      BY <1>6, <1>8, <3>1
    <3> QED
      BY <3>1, <3>2, Zenon
  <2>2. 0 \in Nat /\ 0 + Len(u) <= Len(t)
    BY <1>4, <1>8
  <2> QED
    BY <2>1, <2>2, Zenon DEF Stands
<1>10. Leads(u, FALSE, 0, FALSE, 1)
  <2>1. Leads(<<Open>>, FALSE, 0, FALSE, 1)
    <3>1. PICK d \in Nat : d = 0
      OBVIOUS
    <3>2. PICK e : e = d + 1
      OBVIOUS
    <3>3. Leads(<<Open>>, FALSE, d, FALSE, e)
      BY <3>2, CharactersLead
    <3>4. e = 1
      BY <3>1, <3>2
    <3> QED
      BY <3>1, <3>3, <3>4, Zenon
  <2>2. Leads(o, FALSE, 1, FALSE, 1)
    <3>1. 1 \in Nat \ {0}
      OBVIOUS
    <3> QED
      BY <3>1, Zenon DEF IsObject, ObjectGood
  <2> QED
    BY <1>1, <1>2, <1>3, <2>1, <2>2, LeadsOn
<1>11. f[0] = ScanAt(0, 0, FALSE)
  BY DEF Scans, ScanStart, ScanAt
<1>12. f[n + 1] = ScanAt(n + 1, 1, FALSE)
  <2>1. f[0 + Len(u)] = ScanAt(0 + Len(u), 1, FALSE)
    <3>1. Len(t) \in Nat
      BY <1>8
    <3> QED
      BY <1>9, <1>10, <1>11, <3>1 DEF Leads
  <2>2. 0 + Len(u) = n + 1
    BY <1>4
  <2> QED
    BY <2>1, <2>2
<1>13. f[n + 2] = ScanEnded(n + 2)
  <2>1. n + 2 \in 1..Len(t) /\ (n + 2) - 1 = n + 1 /\ (n + 1) + 1 = n + 2 /\ n + 1 \in Nat
        /\ n + 2 \in 1..(n + 2)
    BY <1>8
  <2>2. t[n + 2] = Close
    BY <1>6, <1>8, <2>1
  <2>5. f[n + 2] = ScanStep(f[(n + 2) - 1], t[n + 2])
    BY <2>1 DEF Scans
  <2>3. f[n + 2] = ScanStep(ScanAt(n + 1, 1, FALSE), Close)
    BY <1>12, <2>1, <2>2, <2>5, Zenon
  <2>4. ScanStep(ScanAt(n + 1, 1, FALSE), Close) = ScanEnded((n + 1) + 1)
    BY <2>1, LastBrace, Zenon
  <2> QED
    BY <2>1, <2>3, <2>4
<1> QED
  <2>1. Len(t) \in Nat /\ n + 2 \in 1..Len(t)
    BY <1>8
  <2> QED
    BY <1>13, <2>1, ScanStands DEF EndsAt

(* Where a character is found first and last.                              *)
LastOf(t, c) == SelectLastInSeq(t, LAMBDA d : d = c)

FirstAt(t, m, c, k) ==
  Len(t) = m /\ k \in 1..m /\ t[k] = c /\ \A i \in 1..(k - 1) : t[i] # c
LastAt(t, m, c, k) ==
  Len(t) = m /\ k \in 1..m /\ t[k] = c /\ \A i \in (k + 1)..m : t[i] # c

LEMMA FoundFirst ==
  ASSUME NEW m \in Nat, NEW t, NEW c, NEW k, FirstAt(t, m, c, k)
  PROVE  FirstOf(t, c) = k
<1>1. PICK I : I = {i \in 1..Len(t) : t[i] = c}
  OBVIOUS
<1>2. k \in I /\ \A i \in I : k <= i /\ i \in Int
  BY <1>1 DEF FirstAt
<1>3. \A j \in I : (\A i \in I : j <= i) => j = k
  BY <1>2
<1>4. Min(I) = k
  BY <1>2, <1>3, Zenon DEF Min
<1>5. I # {}
  BY <1>2
<1> QED
  BY <1>1, <1>4, <1>5, Zenon DEF FirstOf, SelectInSeq

LEMMA FoundLast ==
  ASSUME NEW m \in Nat, NEW t, NEW c, NEW k, LastAt(t, m, c, k)
  PROVE  LastOf(t, c) = k
<1>1. PICK I : I = {i \in 1..Len(t) : t[i] = c}
  OBVIOUS
<1>2. k \in I /\ \A i \in I : k >= i /\ i \in Int
  BY <1>1 DEF LastAt
<1>3. \A j \in I : (\A i \in I : j >= i) => j = k
  BY <1>2
<1>4. Max(I) = k
  BY <1>2, <1>3, Zenon DEF Max
<1>5. I # {}
  BY <1>2
<1> QED
  BY <1>1, <1>4, <1>5, Zenon DEF LastOf, SelectLastInSeq

(* The end of a concatenation, and its beginning.                          *)
Joined(c, S, s, m, t, n) ==
  /\ c \in Seq(S) /\ Len(c) = m + n
  /\ \A i \in 1..m : c[i] = s[i]
  /\ \A i \in 1..n : c[m + i] = t[i]
  /\ SubSeq(c, m + 1, m + n) = t
  /\ SubSeq(c, 1, m) = s

LEMMA ConcatEnds ==
  ASSUME NEW S, NEW s \in Seq(S), NEW t \in Seq(S), NEW m \in Nat, NEW n \in Nat,
         Len(s) = m, Len(t) = n
  PROVE  Joined(s \o t, S, s, m, t, n)
<1>1. PICK c : c = s \o t
  OBVIOUS
<1>2. /\ c \in Seq(S) /\ Len(c) = m + n
      /\ \A i \in 1..m : c[i] = s[i]
      /\ \A i \in 1..n : c[m + i] = t[i]
  <2>1. /\ c \in Seq(S) /\ Len(c) = m + n
        /\ \A i \in 1..(m + n) : c[i] = IF i <= m THEN s[i] ELSE t[i - m]
    BY <1>1, ConcatProperties
  <2>2. ASSUME NEW i \in 1..m PROVE c[i] = s[i]
    BY <2>1
  <2>3. ASSUME NEW i \in 1..n PROVE c[m + i] = t[i]
    <3>1. m + i \in 1..(m + n) /\ ~(m + i <= m) /\ (m + i) - m = i
      OBVIOUS
    <3> QED
      BY <2>1, <3>1
  <2> QED
    BY <2>1, <2>2, <2>3
<1>3. \A i \in 1..(m + n) : c[i] \in S
  BY <1>2, ElementOfSeq
<1>4. SubSeq(c, m + 1, m + n) = t
  <2>1. \A i \in (m + 1)..(m + n) : c[i] \in S
    BY <1>3
  <2>2. PICK r : r = SubSeq(c, m + 1, m + n)
    OBVIOUS
  <2>3. PICK a \in Int, b \in Int : a = m + 1 /\ b = m + n
    OBVIOUS
  <2>4. /\ r \in Seq(S) /\ Len(r) = IF a <= b THEN b - a + 1 ELSE 0
        /\ \A i \in 1..(b - a + 1) : r[i] = c[a + i - 1]
    BY <2>1, <2>2, <2>3, SubSeqProperties
  <2>5. Len(r) = n
    BY <2>3, <2>4
  <2>6. ASSUME NEW i \in 1..n PROVE r[i] = t[i]
    <3>1. i \in 1..(b - a + 1) /\ a + i - 1 = m + i
      BY <2>3
    <3> QED
      BY <1>2, <2>4, <3>1
  <2> QED
    BY <2>2, <2>4, <2>5, <2>6, SeqEqual
<1>5. SubSeq(c, 1, m) = s
  <2>1. PICK r : r = SubSeq(c, 1, m)
    OBVIOUS
  <2>2. \A i \in 1..m : c[i] \in S
    BY <1>3
  <2>3. /\ r \in Seq(S) /\ Len(r) = IF 1 <= m THEN m - 1 + 1 ELSE 0
        /\ \A i \in 1..(m - 1 + 1) : r[i] = c[1 + i - 1]
    BY <2>1, <2>2, SubSeqProperties
  <2>4. Len(r) = m
    BY <2>3
  <2>5. ASSUME NEW i \in 1..m PROVE r[i] = s[i]
    <3>1. i \in 1..(m - 1 + 1) /\ 1 + i - 1 = i
      OBVIOUS
    <3> QED
      BY <1>2, <2>3, <3>1
  <2> QED
    BY <2>1, <2>3, <2>4, <2>5, SeqEqual
<1> QED
  BY <1>1, <1>2, <1>4, <1>5 DEF Joined

(* What an object begins with, and that it is found whole.                 *)
LEMMA ObjectBegins ==
  ASSUME NEW object \in JsonObjects
  PROVE  /\ object \in Seq(Characters) /\ Len(object) \in Nat \ {0} /\ object[1] = Open
         /\ object # <<>>
<1>1. PICK n \in Nat, o \in Seq(Characters) : IsObject(object, n, o)
  BY ObjectIs
<1>2. /\ <<Open>> \in Seq(Characters) /\ Len(<<Open>>) = 1 /\ <<Open>>[1] = Open
      /\ <<Close>> \in Seq(Characters) /\ Len(<<Close>>) = 1
  BY SingleCharacters
<1>3. PICK u : u = <<Open>> \o o
  OBVIOUS
<1>4. u \in Seq(Characters) /\ Len(u) = 1 + n /\ u[1] = Open
  <2>1. o \in Seq(Characters) /\ Len(o) = n
    BY <1>1 DEF IsObject, ObjectGood
  <2>5. Joined(u, Characters, <<Open>>, 1, o, n)
    BY <1>2, <1>3, <2>1, ConcatEnds
  <2>2. \A i \in 1..1 : u[i] = <<Open>>[i]
    BY <2>5 DEF Joined
  <2>3. 1 \in 1..1
    OBVIOUS
  <2>4. u[1] = Open
    BY <1>2, <2>2, <2>3
  <2> QED
    BY <2>4, <2>5 DEF Joined
<1>5. object = u \o <<Close>>
  BY <1>1, <1>3 DEF IsObject
<1>6. /\ object \in Seq(Characters) /\ Len(object) = (1 + n) + 1
      /\ \A i \in 1..(1 + n) : object[i] = u[i]
  <2>1. Joined(object, Characters, u, 1 + n, <<Close>>, 1)
    <3>1. 1 + n \in Nat
      OBVIOUS
    <3> QED
      BY <1>2, <1>4, <1>5, <3>1, ConcatEnds
  <2> QED
    BY <2>1 DEF Joined
<1>7. 1 \in 1..(1 + n) /\ (1 + n) + 1 \in Nat \ {0}
  OBVIOUS
<1>8. Len(object) \in Nat \ {0} /\ object[1] = Open
  BY <1>4, <1>6, <1>7
<1>9. object # <<>>
  BY <1>8
<1> QED
  BY <1>6, <1>8, <1>9

LEMMA ObjectFound ==
  ASSUME NEW object \in JsonObjects, NEW before \in Seq(Characters), NEW after \in Seq(Characters),
         \A i \in 1..Len(before) : before[i] # Open
  PROVE  FirstObject(before \o (object \o after)) = object
<1>1. PICK n \in Nat, o \in Seq(Characters) : IsObject(object, n, o)
  BY ObjectIs
<1>2. object \in Seq(Characters) /\ Len(object) \in Nat \ {0} /\ object[1] = Open
  BY ObjectBegins
<1>3. Len(object) = n + 2
  <2>1. /\ <<Open>> \in Seq(Characters) /\ Len(<<Open>>) = 1
        /\ <<Close>> \in Seq(Characters) /\ Len(<<Close>>) = 1
    BY SingleCharacters
  <2>2. o \in Seq(Characters) /\ Len(o) = n
    BY <1>1 DEF IsObject, ObjectGood
  <2>3. <<Open>> \o o \in Seq(Characters) /\ Len(<<Open>> \o o) = 1 + n
    <3>1. Joined(<<Open>> \o o, Characters, <<Open>>, 1, o, n)
      BY <2>1, <2>2, ConcatEnds
    <3> QED
      BY <3>1 DEF Joined
  <2>4. Len(object) = (1 + n) + 1
    <3>1. 1 + n \in Nat
      OBVIOUS
    <3>2. PICK u : u = <<Open>> \o o
      OBVIOUS
    <3>3. u \in Seq(Characters) /\ Len(u) = 1 + n /\ object = u \o <<Close>>
      BY <1>1, <2>3, <3>2 DEF IsObject
    <3>4. Joined(object, Characters, u, 1 + n, <<Close>>, 1)
      BY <2>1, <3>1, <3>3, ConcatEnds
    <3> QED
      BY <3>4 DEF Joined
  <2> QED
    BY <2>4
<1>4. PICK b \in Nat, a \in Nat, N \in Nat : b = Len(before) /\ a = Len(after) /\ N = n + 2
  <2>1. Len(before) \in Nat /\ Len(after) \in Nat
    BY LenProperties
  <2> QED
    BY <2>1
<1>5. PICK rest : rest = object \o after
  OBVIOUS
<1>6. /\ rest \in Seq(Characters) /\ Len(rest) = N + a
      /\ \A i \in 1..N : rest[i] = object[i]
      /\ SubSeq(rest, 1, N) = object
  <2>1. Len(object) = N /\ Len(after) = a
    BY <1>3, <1>4
  <2>2. Joined(rest, Characters, object, N, after, a)
    BY <1>2, <1>5, <2>1, ConcatEnds, Zenon
  <2> QED
    BY <2>2, Zenon DEF Joined
<1>7. PICK m \in Nat : m = N + a
  OBVIOUS
<1>15. PICK text : text = before \o rest
  OBVIOUS
<1>8. /\ text \in Seq(Characters) /\ Len(text) = b + m
      /\ \A i \in 1..b : text[i] = before[i]
      /\ \A i \in 1..m : text[b + i] = rest[i]
      /\ SubSeq(text, b + 1, b + m) = rest
  <2>1. Len(before) = b /\ Len(rest) = m
    BY <1>4, <1>6, <1>7
  <2>2. Joined(text, Characters, before, b, rest, m)
    BY <1>6, <1>15, <2>1, ConcatEnds, Zenon
  <2> QED
    BY <2>2, Zenon DEF Joined
<1>11. PICK first \in Nat, l \in Nat : first = b + 1 /\ l = b + m
  OBVIOUS
<1>9. FirstOf(text, Open) = first
  <2>1. first \in 1..l /\ 1 \in 1..m /\ 1 \in 1..N /\ first - 1 = b
    BY <1>4, <1>7, <1>11
  <2>2. text[first] = Open
    <3>1. text[b + 1] = rest[1] /\ rest[1] = object[1]
      BY <1>6, <1>8, <2>1
    <3> QED
      BY <1>2, <1>11, <3>1
  <2>3. \A i \in 1..(first - 1) : text[i] # Open
    BY <1>4, <1>8, <2>1
  <2>4. Len(text) = l
    BY <1>8, <1>11
  <2>5. FirstAt(text, l, Open, first)
    BY <2>1, <2>2, <2>3, <2>4 DEF FirstAt
  <2> QED
    BY <2>5, FoundFirst
<1>10. rest = SubSeq(text, first, Len(text)) /\ Len(rest) = m /\ first # 0
  <2>1. rest = SubSeq(text, first, Len(text))
    BY <1>8, <1>11, Zenon
  <2> QED
    BY <1>6, <1>7, <1>11, <2>1
<1>16. Rests(text, rest, m)
  BY <1>9, <1>10, Zenon DEF Rests
<1>12. PICK f : Scans(f, rest) /\ FirstObject(text) = SubSeq(rest, 1, f[m].end)
  BY <1>16, FirstObjectScans
<1>13. f[Len(rest)] = ScanEnded(n + 2)
  <2>1. EndsAt(f, rest, n + 2)
    BY <1>1, <1>5, <1>12, ObjectScanned
  <2> QED
    BY <2>1 DEF EndsAt
<1>14. f[m].end = N
  BY <1>4, <1>10, <1>13 DEF ScanEnded
<1> QED
  BY <1>5, <1>6, <1>12, <1>14, <1>15

(* Prose and what may follow an object is text without a fence or a brace  *)
(* before the object.                                                      *)
LEMMA ProseIs ==
  /\ \A before \in Prose :
       /\ before \in Seq(Characters) /\ Len(before) \in Nat
       /\ \A i \in 1..Len(before) : before[i] \notin {Open, Fence}
  /\ \A after \in Prose \cup {<<Open, Quote>>} : after \in Seq(Characters) /\ Len(after) \in Nat
<1>1. ASSUME NEW before \in Prose
      PROVE  /\ before \in Seq(Characters) /\ Len(before) \in Nat
             /\ \A i \in 1..Len(before) : before[i] \notin {Open, Fence}
  <2>1. CASE before = <<>>
    BY <2>1, SingleCharacters
  <2>2. CASE before = <<Quote>>
    <3>1. /\ before \in Seq(Characters) /\ Len(before) = 1 /\ before[1] = Quote
      BY <2>2, SingleCharacters
    <3> QED
      BY <3>1, CharactersDiffer
  <2>3. CASE before = <<Close, Other>>
    <3>1. /\ before \in Seq(Characters) /\ Len(before) = 2
          /\ before[1] = Close /\ before[2] = Other
      BY <2>3, SingleCharacters
    <3> QED
      BY <3>1, CharactersDiffer
  <2> QED
    BY <2>1, <2>2, <2>3 DEF Prose
<1>2. <<Open, Quote>> \in Seq(Characters) /\ Len(<<Open, Quote>>) \in Nat
  BY SingleCharacters
<1> QED
  BY <1>1, <1>2

(* Bare, and with prose around it.                                         *)
LEMMA BareIsRead ==
  ASSUME NEW object \in JsonObjects, NEW before \in Prose,
         NEW after \in Prose \cup {<<Open, Quote>>}
  PROVE  ForRanking(before \o object \o after) = object
<1>1. /\ object \in Seq(Characters) /\ Len(object) \in Nat \ {0} /\ object[1] = Open
      /\ object # <<>>
  BY ObjectBegins
<1>2. /\ before \in Seq(Characters) /\ Len(before) \in Nat
      /\ \A i \in 1..Len(before) : before[i] \notin {Open, Fence}
      /\ after \in Seq(Characters) /\ Len(after) \in Nat
  BY ProseIs
<1>3. PICK text : text = before \o object \o after
  OBVIOUS
<1>4. text = before \o (object \o after)
  BY <1>1, <1>2, <1>3, ConcatAssociative
<1>5. FirstObject(text) = object
  <2>1. \A i \in 1..Len(before) : before[i] # Open
    BY <1>2
  <2> QED
    BY <1>2, <1>4, <2>1, ObjectFound
<1>6. text # <<>> /\ text[1] # Fence
  <2>1. PICK rest : rest = object \o after
    OBVIOUS
  <2>2. PICK b \in Nat, n \in Nat, a \in Nat : b = Len(before) /\ n = Len(object) /\ a = Len(after)
    BY <1>1, <1>2
  <2>3. Joined(rest, Characters, object, n, after, a)
    BY <1>1, <1>2, <2>1, <2>2, ConcatEnds
  <2>4. rest \in Seq(Characters) /\ Len(rest) = n + a /\ n > 0 /\ rest[1] = Open
    <3>1. n > 0 /\ 1 \in 1..n
      BY <1>1, <2>2
    <3>2. rest[1] = object[1]
      BY <2>3, <3>1 DEF Joined
    <3> QED
      BY <1>1, <2>3, <3>1, <3>2 DEF Joined
  <2>5. PICK r \in Nat : r = n + a
    OBVIOUS
  <2>6. Joined(text, Characters, before, b, rest, r)
    BY <1>2, <1>4, <2>1, <2>2, <2>4, <2>5, ConcatEnds
  <2>7. Len(text) = b + r /\ r > 0
    BY <2>4, <2>5, <2>6 DEF Joined
  <2>8. text # <<>>
    BY <2>7
  <2>9. CASE b = 0
    <3>1. text[0 + 1] = rest[1]
      BY <2>5, <2>6, <2>7, <2>9 DEF Joined
    <3>2. text[1] = Open
      BY <2>4, <3>1
    <3> QED
      BY <2>8, <3>2, CharactersDiffer
  <2>10. CASE b # 0
    <3>1. 1 \in 1..b
      BY <2>10
    <3>2. text[1] = before[1]
      BY <2>6, <3>1 DEF Joined
    <3> QED
      BY <1>2, <2>2, <2>8, <3>1, <3>2
  <2> QED
    BY <2>9, <2>10
<1>7. StripFences(text) = text
  BY <1>6, Zenon DEF StripFences
<1>8. ForRanking(text) = object
  BY <1>1, <1>5, <1>7, Zenon DEF ForRanking
<1> QED
  BY <1>3, <1>8

(* In fences.                                                              *)
LEMMA FencedIsRead == ASSUME NEW object \in JsonObjects PROVE ForRanking(Fenced(object)) = object
<1>1. /\ object \in Seq(Characters) /\ Len(object) \in Nat \ {0} /\ object[1] = Open
      /\ object # <<>>
  BY ObjectBegins
<1>2. PICK n \in Nat : n = Len(object) /\ n > 0
  BY <1>1
<1>3. PICK head : head = <<Fence, Other, Newline>>
  OBVIOUS
<1>4. /\ head \in Seq(Characters) /\ Len(head) = 3
      /\ head[1] = Fence /\ head[2] = Other /\ head[3] = Newline
  <2>1. Fence \in Characters /\ Other \in Characters /\ Newline \in Characters
    BY DEF Characters
  <2> QED
    BY <1>3, <2>1
<1>5. PICK f, l : f = <<Fence>> /\ l = <<Newline>>
  OBVIOUS
<1>6. /\ f \in Seq(Characters) /\ Len(f) = 1 /\ f[1] = Fence
      /\ l \in Seq(Characters) /\ Len(l) = 1 /\ l[1] = Newline
      /\ <<Newline, Fence>> = l \o f
  BY <1>5, SingleCharacters
<1>7. PICK u : u = object \o l
  OBVIOUS
<1>8. Joined(u, Characters, object, n, l, 1)
  BY <1>1, <1>2, <1>6, <1>7, ConcatEnds
<1>9. PICK m \in Nat : m = n + 1
  OBVIOUS
<1>10. /\ u \in Seq(Characters) /\ Len(u) = m /\ u[1] = Open /\ u[m] = Newline
       /\ SubSeq(u, 1, m - 1) = object
  <2>1. 1 \in 1..n /\ 1 \in 1..1 /\ m - 1 = n
    BY <1>2, <1>9
  <2>2. u \in Seq(Characters) /\ Len(u) = m /\ u[1] = object[1] /\ u[n + 1] = l[1]
    BY <1>8, <1>9, <2>1 DEF Joined
  <2>3. SubSeq(u, 1, n) = object
    BY <1>8 DEF Joined
  <2> QED
    BY <1>1, <1>6, <1>9, <2>1, <2>2, <2>3, Zenon
<1>11. PICK tail : tail = u \o f
  OBVIOUS
<1>12. Joined(tail, Characters, u, m, f, 1)
  BY <1>6, <1>10, <1>11, ConcatEnds
<1>13. PICK k \in Nat : k = m + 1
  OBVIOUS
<1>14. /\ tail \in Seq(Characters) /\ Len(tail) = k /\ tail[k] = Fence
       /\ SubSeq(tail, 1, k - 1) = u
  <2>1. 1 \in 1..1 /\ k - 1 = m
    BY <1>13
  <2>2. tail \in Seq(Characters) /\ Len(tail) = k /\ tail[m + 1] = f[1]
    BY <1>12, <1>13, <2>1 DEF Joined
  <2>3. SubSeq(tail, 1, m) = u
    BY <1>12 DEF Joined
  <2> QED
    BY <1>6, <1>13, <2>1, <2>2, <2>3, Zenon
<1>15. PICK text : text = head \o tail
  OBVIOUS
<1>16. Fenced(object) = text
  <2>4. PICK w : w = l \o f
    OBVIOUS
  <2>1. tail = object \o w
    BY <1>1, <1>6, <1>7, <1>11, <2>4, ConcatAssociative
  <2>2. w \in Seq(Characters)
    BY <1>6, <2>4, ConcatProperties
  <2>3. (head \o object) \o w = head \o (object \o w)
    <3>1. head \in Seq(Characters) /\ object \in Seq(Characters)
      BY <1>1, <1>4
    <3> QED
      BY <2>2, <3>1, CharactersAssociate, Zenon
  <2> QED
    BY <1>3, <1>6, <1>15, <2>1, <2>3, <2>4, Zenon DEF Fenced
<1>17. Joined(text, Characters, head, 3, tail, k)
  BY <1>4, <1>14, <1>15, ConcatEnds
<1>18. PICK t \in Nat : t = 3 + k
  OBVIOUS
<1>19. /\ text \in Seq(Characters) /\ Len(text) = t
       /\ text[1] = Fence /\ text[2] = Other /\ text[3] = Newline
       /\ SubSeq(text, 3 + 1, t) = tail
  <2>1. 1 \in 1..3 /\ 2 \in 1..3 /\ 3 \in 1..3
    OBVIOUS
  <2>2. /\ text \in Seq(Characters) /\ Len(text) = 3 + k
        /\ text[1] = head[1] /\ text[2] = head[2] /\ text[3] = head[3]
        /\ SubSeq(text, 3 + 1, 3 + k) = tail
    BY <1>17, <2>1, Zenon DEF Joined
  <2> QED
    BY <1>4, <1>18, <2>2, Zenon
<1>20. CutThrough(text, Newline) = tail
  <2>1. FirstAt(text, t, Newline, 3)
    <3>1. \A i \in 1..(3 - 1) : i = 1 \/ i = 2
      OBVIOUS
    <3>2. \A i \in 1..(3 - 1) : text[i] # Newline
      BY <1>19, <3>1, CharactersDiffer
    <3> QED
      BY <1>18, <1>19, <3>2 DEF FirstAt
  <2>2. FirstOf(text, Newline) = 3
    BY <2>1, FoundFirst
  <2>3. Newline \in ToSet(text)
    <3>1. 3 \in DOMAIN text
      BY <1>18, <1>19
    <3> QED
      BY <1>19, <3>1 DEF ToSet
  <2> QED
    BY <1>19, <2>2, <2>3, Zenon DEF CutThrough, FirstOf
<1>21. CutFrom(tail, Fence) = u
  <2>1. LastAt(tail, k, Fence, k)
    <3>1. \A i \in (k + 1)..k : tail[i] # Fence
      OBVIOUS
    <3> QED
      BY <1>13, <1>14, <3>1 DEF LastAt
  <2>2. LastOf(tail, Fence) = k
    BY <2>1, FoundLast
  <2>3. Fence \in ToSet(tail)
    <3>1. k \in DOMAIN tail
      BY <1>13, <1>14
    <3> QED
      BY <1>14, <3>1 DEF ToSet
  <2> QED
    BY <1>14, <2>2, <2>3, Zenon DEF CutFrom, LastOf
<1>22. Trimmed(u) = object
  <2>1. u # <<>> /\ u[1] # Newline
    <3>1. u # <<>>
      BY <1>9, <1>10
    <3> QED
      BY <1>10, <3>1, CharactersDiffer
  <2>2. Last(u) = Newline /\ Front(u) = object
    BY <1>10, Zenon DEF Last, Front
  <2> QED
    BY <2>1, <2>2, Zenon DEF Trimmed
<1>23. StripFences(text) = object
  <2>1. text # <<>> /\ text[1] = Fence
    BY <1>18, <1>19
  <2> QED
    BY <1>20, <1>21, <1>22, <2>1, Zenon DEF StripFences
<1>24. FirstObject(object) = object
  <2>1. <<>> \in Seq(Characters) /\ \A i \in 1..Len(<<>>) : <<>>[i] # Open
    BY SingleCharacters
  <2>2. FirstObject(<<>> \o (object \o <<>>)) = object
    BY <2>1, ObjectFound
  <2>3. <<>> \o (object \o <<>>) = object
    BY <1>1, ConcatEmptySeq
  <2> QED
    BY <2>2, <2>3
<1> QED
  BY <1>1, <1>16, <1>23, <1>24, Zenon DEF ForRanking

(* Every answer with an object in it is read from that object.             *)
LEMMA AnswersAreRead == \A a \in AnyAnswer : a.object # <<>> => ForRanking(a.text) = a.object
<1> SUFFICES ASSUME NEW a \in AnyAnswer, a.object # <<>> PROVE ForRanking(a.text) = a.object
  OBVIOUS
<1>1. a \notin Unusable
  BY DEF Unusable
<1>2. PICK J : J = {Answered(object) : object \in JsonObjects}
  OBVIOUS
<1>3. a \in UNION J
  BY <1>1, <1>2, Zenon DEF AnyAnswer
<1>4. PICK A \in J : a \in A
  BY <1>3
<1>5. PICK object \in JsonObjects : A = Answered(object)
  BY <1>2, <1>4, Zenon
<1>6. PICK text : /\ text \in {Fenced(object)} \cup Around(object)
                  /\ a = [object |-> object, text |-> text]
  BY <1>4, <1>5, Zenon DEF Answered
<1>7. ForRanking(text) = object
  <2>1. CASE text = Fenced(object)
    BY <2>1, FencedIsRead
  <2>2. CASE text \in Around(object)
    <3>1. PICK H, R : H = Then(Prose, {object}) /\ R = Prose \cup {<<Open, Quote>>}
      OBVIOUS
    <3>2. text \in Then(H, R)
      BY <2>2, <3>1, Zenon DEF Around
    <3>8. Splits(text, H, R)
      BY <3>2, ThenIs, Zenon
    <3>3. PICK u \in H, after \in R : text = u \o after
      BY <3>8, Zenon DEF Splits
    <3>4. PICK O : O = {object}
      OBVIOUS
    <3>5. u \in Then(Prose, O)
      BY <3>1, <3>4, Zenon
    <3>9. Splits(u, Prose, O)
      BY <3>5, ThenIs, Zenon
    <3>6. PICK before \in Prose, w \in O : u = before \o w
      BY <3>9, Zenon DEF Splits
    <3>7. text = before \o object \o after
      BY <3>3, <3>4, <3>6
    <3> QED
      BY <3>1, <3>7, BareIsRead
  <2> QED
    BY <1>6, <2>1, <2>2
<1> QED
  BY <1>6, <1>7

(* What the ranking answers is read from the object the model meant        *)
(* (extractFirstJSONObject).                                               *)
THEOREM ObjectIsExtracted == Spec => []ExtractsTheObject
<1>1. Init => ExtractsTheObject
  BY DEF Init, Silence, ExtractsTheObject
<1>2. ExtractsTheObject /\ [Next]_vars => ExtractsTheObject'
  <2>1. heard' = heard \/ heard' \in AnyAnswer \/ heard' = Silence
          => (ExtractsTheObject => ExtractsTheObject')
    <3>1. heard' \in AnyAnswer => ExtractsTheObject'
      BY AnswersAreRead, Zenon DEF ExtractsTheObject
    <3>2. heard' = Silence => ExtractsTheObject'
      BY DEF ExtractsTheObject, Silence
    <3>3. heard' = heard => (ExtractsTheObject => ExtractsTheObject')
      BY Zenon DEF ExtractsTheObject
    <3> QED
      BY <3>1, <3>2, <3>3
  <2>2. [Next]_vars => heard' = heard \/ heard' \in AnyAnswer \/ heard' = Silence
    <3>1. Pipeline => heard' = heard \/ heard' \in AnyAnswer \/ heard' = Silence
      BY DEF Pipeline, FetchMetrics, FindCandidates, RankIncidents, ReadRanking, FetchRunbooks,
        AskFails, AskAnswers, Apologise, TellAnalysis, CheckPlan, AssessCommand, TellPlan,
        CreateApproval, Decide, RunCommand, WaitForCommand, EndRun, Running, Elsewhere,
        Dropped, contextVars
    <3> QED
      BY <3>1, Zenon DEF Next, Others, vars, contextVars
  <2> QED
    BY <2>1, <2>2
<1> QED
  BY <1>1, <1>2, PTL DEF Spec
=============================================================================
