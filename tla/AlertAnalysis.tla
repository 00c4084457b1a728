---------------------------- MODULE AlertAnalysis ----------------------------
(***************************************************************************)
(* One alert on its way through internal/pipeline: context is gathered,    *)
(* the language model analyses, the plan is checked and its impact         *)
(* estimated, a card tells the people, and an approved plan is executed.   *)
(* Around it run the feedback callbacks of an earlier plan and the loop    *)
(* that reloads the runbooks.  Every call that leaves the process is a     *)
(* step with the outcomes it can have.                                     *)
(*                                                                         *)
(* The pipeline goes                                                       *)
(*   "metrics" -> "history" (-> "rank" -> "read") -> "runbooks" -> "ask"   *)
(*     -> "tell"                        without a plan, or in readonly     *)
(*     -> "check" -> "impact" -> "tell" -> "record" -> "decide" -> "run"   *)
(*     -> "ended".                                                         *)
(*                                                                         *)
(* A definition X_Variant before a definition X is X with a bug in it; the *)
(* mutation runs put it in X's place, and nothing else refers to it.       *)
(***************************************************************************)
EXTENDS Executors, BlastRadius, Incidents, Analyzer, Runbooks, Feedback

CONSTANTS
  Alert,        \* the alert: id, name, and how many depend on it
  Queries,      \* the metric queries configured for its name
  Setups,       \* configurations, with the approvals the table starts with
  Plans,        \* plans the language model may propose
  Answers       \* what Prometheus may answer about a command

(* A row of the approvals table, as the feedback reads it.                 *)
ApprovalRow == [alert : {Alert.id, Voted, "another"}, status : Status]

(* A command as the language model writes it, with any number for its step *)
(* and any words for its kind and its risk.                                *)
PlanCommand ==
  [step : Int, kind : STRING, slash : BOOLEAN, trait : Traits, type : STRING, target : STRING,
   namespace : STRING, replicas : Nat, risk : Levels \cup STRING, marked : BOOLEAN]

Measured == Nat \cup {NoData}
PrometheusAnswer ==
  [replicas : Measured, service : Measured, total : Measured, owner : Owners, dependents : Nat]

(* The alert is new to the table.                                          *)
ASSUME AnalysisAssumption ==
  /\ Plans \subseteq Seq(PlanCommand) /\ Answers \subseteq PrometheusAnswer
  /\ Alert.id \notin {Voted, "another"}
  /\ \A s \in Setups : /\ s.approvals \in Seq(ApprovalRow)
                        /\ \A i \in DOMAIN s.approvals : s.approvals[i].alert # Alert.id

VARIABLES
  config,
  pc,
  request,      \* the context gathered, until the analysis has it
  candidates,   \* what the store found, until they are ranked
  heard,        \* the text of the ranking, until it is read
  attempt,      \* of the call to the language model
  impacts,      \* by step: the estimate and what Prometheus answered
  told,         \* "nothing", "failed analysis", "analysis", "plan", "lost"
  card          \* the commands on the plan's card, while people decide

contextVars == <<request, candidates, heard, attempt>>
cardVars == <<impacts, told, card>>
vars == <<config, pc, contextVars, plan, cardVars, jobVars, runbookVars, feedbackVars>>

NoRequest == [metrics |-> {}, history |-> <<>>, runbooks |-> <<>>, dependents |-> 0]
NoImpact == [severity |-> ""]

Init ==
  /\ \E s \in Setups :
       /\ Valid(WithDefaults(s.config)) /\ config = WithDefaults(s.config)
       /\ FeedbackInit(s.approvals)
       /\ IF UsesRunbooks(config) THEN RunbooksInit
          ELSE /\ directory = FALSE /\ disk = [f \in Files |-> "absent"] /\ snapshot = <<>>
               /\ loaded = NotLoading /\ edits = 0 /\ timeouts = 0
  /\ pc = "metrics" /\ request = NoRequest /\ candidates = <<>> /\ heard = Silence
  /\ attempt = 0 /\ plan = <<>> /\ impacts = <<>>
  /\ told = "nothing" /\ card = <<>>
  /\ job = NoJob /\ effect = <<>> /\ report = <<>>

Goes(from, to) == pc = from /\ pc' = to
Elsewhere == UNCHANGED <<config, runbookVars, feedbackVars>>
NoPlanYet == UNCHANGED <<plan, cardVars, jobVars>>

----------------------------------------------------------------------------
(* The context.  fetchMetrics goes on after a failed query; the topology   *)
(* and the dependents need no call.                                        *)
FetchMetrics ==
  /\ Goes("metrics", "history")
  /\ \E answered \in SUBSET Queries :
       request' = [request EXCEPT !.metrics = answered, !.dependents = Alert.dependents]
  /\ UNCHANGED <<candidates, heard, attempt>> /\ NoPlanYet /\ Elsewhere

(* An incident of the history is told with the votes on it.                *)
Told(ids) ==
  [i \in DOMAIN ids |->
     [id |-> ids[i], up |-> IF ids[i] = Voted THEN outcome.up ELSE 0,
      down |-> IF ids[i] = Voted THEN outcome.down ELSE 0]]

Past == Candidates(Alert)

FindCandidates ==
  /\ pc = "history"
  /\ \/ /\ UsesHistory(config) /\ NeedsRanking(Past, config)
        /\ pc' = "rank" /\ candidates' = Told(Ids(Past))
        /\ UNCHANGED request
     \/ /\ UsesHistory(config) /\ ~NeedsRanking(Past, config)
        /\ pc' = "runbooks"
        /\ request' = [request EXCEPT !.history = Told(MostRecent(Past))]
        /\ UNCHANGED candidates
     \/ /\ pc' = "runbooks"      \* no retriever, or the store failed
        /\ UNCHANGED <<request, candidates>>
  /\ UNCHANGED <<heard, attempt>> /\ NoPlanYet /\ Elsewhere

(* RankIncidents calls once, without a retry.                              *)
RankIncidents ==
  /\ Goes("rank", "read")
  /\ heard' \in AnyAnswer
  /\ UNCHANGED <<request, candidates, attempt>> /\ NoPlanYet /\ Elsewhere

(* The ids in the answer may be of no candidate, or come twice; a failed   *)
(* call is an answer without text.                                         *)
AnsweredIds ==
  LET named == ToSet(Ids(candidates)) \cup {"of no alert"} IN {<<>>} \cup (named \X named)

AsFound(id) ==
  LET rows == {row \in ToSet(candidates) : row.id = id}
  IN  IF rows = {} THEN [id |-> id, up |-> 0, down |-> 0] ELSE CHOOSE row \in rows : TRUE

ReadRanking ==
  /\ Goes("read", "runbooks")
  /\ \E chosen \in {Ranked(candidates, ids) :
                      ids \in IF heard.text \in ParsedRanking THEN AnsweredIds ELSE {<<>>}} :
       request' = [request EXCEPT !.history = [i \in DOMAIN chosen |-> AsFound(chosen[i])]]
  /\ candidates' = <<>> /\ heard' = Silence
  /\ UNCHANGED attempt /\ NoPlanYet /\ Elsewhere

FetchRunbooks ==
  /\ Goes("runbooks", "ask")
  /\ request' = [request EXCEPT !.runbooks = IF UsesRunbooks(config) THEN Retrieved ELSE <<>>]
  /\ UNCHANGED <<candidates, heard, attempt>> /\ NoPlanYet /\ Elsewhere

----------------------------------------------------------------------------
(* The analysis.  The pipeline's context is never cancelled, so every      *)
(* attempt is made; an answer that cannot be parsed is not asked again,    *)
(* and a plan is looked at in healing mode only.                           *)
Dropped == request' = NoRequest /\ attempt' = 0 /\ UNCHANGED <<candidates, heard>>

AskFails ==
  /\ pc = "ask"
  /\ LET next == NextAttempt(attempt)
     IN  IF next = GaveUp THEN pc' = "apologise" /\ Dropped
         ELSE attempt' = next /\ UNCHANGED <<pc, request, candidates, heard>>
  /\ NoPlanYet /\ Elsewhere

AskAnswers ==
  /\ pc = "ask" /\ Dropped
  /\ \E parsed \in {(a.text \in Parsed) : a \in AnyAnswer} :
       IF ~parsed
       THEN pc' = "apologise" /\ UNCHANGED plan
       ELSE \/ pc' = "tell" /\ UNCHANGED plan
            \/ /\ config.mode # "readonly"
               /\ pc' = "check" /\ plan' \in Plans
  /\ UNCHANGED <<cardVars, jobVars>> /\ Elsewhere

(* What is sent arrives, or the error is only logged.                      *)
Tells(what) == told' \in {what, "lost"}

Apologise ==
  /\ Goes("apologise", "ended") /\ Tells("failed analysis")
  /\ UNCHANGED <<contextVars, plan, impacts, card, jobVars>> /\ Elsewhere

TellAnalysis ==
  /\ Goes("tell", "ended") /\ Tells("analysis")
  /\ UNCHANGED <<contextVars, plan, impacts, card, jobVars>> /\ Elsewhere

----------------------------------------------------------------------------
(* The plan.  A command that is not allowed stays in the plan, with a mark *)
(* in its description.                                                     *)
CheckPlan ==
  /\ Goes("check", "impact")
  /\ plan' = [i \in DOMAIN plan |-> [plan[i] EXCEPT !.marked = ~Allowed(plan[i])]]
  /\ UNCHANGED <<contextVars, cardVars, jobVars>> /\ Elsewhere

(* Only what is asked about the kind of command counts.                    *)
Asked(c, w) ==
  CASE c.kind \in {"rollout restart", "scale", "rollout undo"} -> [w EXCEPT !.owner = "failed"]
    [] c.kind = "delete pod" ->
         [w EXCEPT !.service = NoData, !.total = NoData, !.dependents = 0,
                   !.replicas = IF w.owner = "found" THEN @ ELSE NoData]
    [] OTHER -> [replicas |-> NoData, service |-> NoData, total |-> NoData,
                 owner |-> "failed", dependents |-> 0]

(* A command is estimated, and its risk raised when that is configured.    *)
RiskOf_Severity(c, estimate) == IF config.autoUpgrade THEN estimate.severity ELSE c.risk
RiskOf(c, estimate) ==
  IF config.autoUpgrade /\ estimate.upgrade # "" THEN estimate.upgrade ELSE c.risk

AssessCommand ==
  LET i == Len(impacts) + 1
  IN  /\ pc = "impact" /\ UsesImpact(config) /\ i <= Len(plan)
      /\ \E w \in {Asked(plan[i], a) : a \in Answers} :
           LET estimate == Assess(plan[i], w)
           IN  /\ impacts' = Append(impacts, [estimate |-> estimate, answer |-> w, risk |-> plan[i].risk])
               /\ plan' = [plan EXCEPT ![i].risk = RiskOf(plan[i], estimate)]
      /\ UNCHANGED <<pc, contextVars, told, card, jobVars>> /\ Elsewhere

(* The estimates are kept by step number, the last one of a step, and the  *)
(* card's commands look theirs up.                                         *)
ImpactOf_ByPosition(i) == IF i > 1 THEN impacts[i - 1].estimate ELSE impacts[i].estimate
ImpactOf(i) ==
  impacts[CHOOSE k \in DOMAIN plan :
            /\ plan[k].step = plan[i].step
            /\ \A j \in DOMAIN plan : plan[j].step = plan[i].step => j <= k].estimate

OnCard(i) ==
  [command |-> plan[i],
   impact |-> IF impacts = <<>> THEN NoImpact
              ELSE [severity |-> ImpactOf(i).severity, replicas |-> ImpactOf(i).replicas,
                    share |-> ImpactOf(i).share, dependents |-> ImpactOf(i).dependents,
                    findings |-> Shown(ImpactOf(i)), upgrade |-> ImpactOf(i).upgrade]]

TellPlan ==
  /\ pc = "impact" /\ (UsesImpact(config) => Len(impacts) = Len(plan))
  /\ \/ /\ pc' = "record" /\ told' = "plan"
        /\ card' = [i \in DOMAIN plan |-> OnCard(i)]
     \/ pc' = "ended" /\ told' = "lost" /\ UNCHANGED card
  /\ UNCHANGED <<contextVars, plan, impacts, jobVars>> /\ Elsewhere

(* The row is created after the card was sent; without it nobody can       *)
(* approve.                                                                *)
CreateApproval ==
  /\ pc = "record"
  /\ \/ /\ pc' = "decide"
        /\ approvals' = <<[alert |-> Alert.id, status |-> "pending"]>> \o approvals
     \/ pc' = "ended" /\ UNCHANGED approvals
  /\ UNCHANGED <<config, contextVars, plan, cardVars, jobVars, runbookVars,
                 votes, callback, outcome>>

OwnStatus(status) ==
  approvals' = [i \in DOMAIN approvals |->
    IF approvals[i].alert = Alert.id THEN [approvals[i] EXCEPT !.status = status] ELSE approvals[i]]

(* ApprovalFlow has the decision in detail: somebody approves, or the plan *)
(* ends without running, at the latest when it expires.  What the card     *)
(* showed is done with, except for the marks, which are in the plan.       *)
Decide ==
  /\ pc = "decide"
  /\ \/ pc' = "run" /\ UNCHANGED approvals
     \/ pc' = "ended" /\ OwnStatus("rejected")
  /\ impacts' = <<>> /\ card' = <<>>
  /\ effect' = [i \in DOMAIN plan |-> "none"] /\ report' = [i \in DOMAIN plan |-> ""]
  /\ UNCHANGED <<config, contextVars, plan, told, job, runbookVars,
                 votes, callback, outcome>>

----------------------------------------------------------------------------
(* The execution: Router.ExecutePlan, one command after the other up to    *)
(* the first that fails.                                                   *)
Running == UNCHANGED <<pc, contextVars, plan, cardVars>> /\ Elsewhere
Succeeded(i) == \A k \in 1..i : report[k] = "success"

RunCommand ==
  /\ pc = "run" /\ job.stage = "idle" /\ Succeeded(job.at) /\ job.at < Len(plan)
  /\ Begin(job.at + 1, config) /\ Running

WaitForCommand == pc = "run" /\ (Connect \/ Result \/ TimesOut) /\ Running

EndRun ==
  /\ Goes("run", "ended") /\ job.stage = "idle"
  /\ \/ Succeeded(job.at) /\ job.at = Len(plan) /\ OwnStatus("completed")
     \/ ~Succeeded(job.at) /\ OwnStatus("failed")
  /\ UNCHANGED <<config, contextVars, plan, cardVars, jobVars, runbookVars,
                 votes, callback, outcome>>

Pipeline ==
  FetchMetrics \/ FindCandidates \/ RankIncidents \/ ReadRanking \/ FetchRunbooks
  \/ AskFails \/ AskAnswers \/ Apologise \/ TellAnalysis
  \/ CheckPlan \/ AssessCommand \/ TellPlan \/ CreateApproval \/ Decide
  \/ RunCommand \/ WaitForCommand \/ EndRun

Reloads == UsesRunbooks(config) /\ (LoadRunbooks \/ SwapRunbooks)

Others(step) ==
  step /\ UNCHANGED <<config, pc, contextVars, plan, cardVars>>

Next ==
  \/ Pipeline
  \/ Others(MachineRuns /\ UNCHANGED <<runbookVars, feedbackVars>>)
  \/ Others((Reloads \/ (UsesRunbooks(config) /\ EditRunbooks)) /\ UNCHANGED <<jobVars, feedbackVars>>)
  \/ Others((ProposeOther \/ EndOther \/ \E p \in Presses : Callback(p)) /\ UNCHANGED <<jobVars, runbookVars>>)

Spec == Init /\ [][Next]_vars

(* Every call of the pipeline returns, since all have timeouts, except for *)
(* the connection to an ssh host, which waits as long as the host is       *)
(* silent; and the timer of the reload loop keeps ticking.                 *)
FairSpec ==
  /\ Spec
  /\ WF_vars(job.stage # "connect" /\ Pipeline)
  /\ WF_vars(Others(Reloads /\ UNCHANGED <<jobVars, feedbackVars>>))

----------------------------------------------------------------------------
(* Type correctness.  The numbers are what the card and the prompt can     *)
(* show: a share of the traffic is at most the whole, a confidence at      *)
(* least a tenth, a choice of runbooks and a pool of candidates no longer  *)
(* than their limits (assessor.go, runbooks/retriever.go, sqlite.go).      *)
TypeOK ==
  /\ Valid(config)
  /\ pc \in {"metrics", "history", "rank", "read", "runbooks", "ask", "apologise", "tell",
             "check", "impact", "record", "decide", "run", "ended"}
  /\ told \in {"nothing", "failed analysis", "analysis", "plan", "lost"}
  /\ attempt \in 0..MaxRetries
  /\ request.metrics \subseteq Queries /\ request.dependents \in {0, Alert.dependents}
  /\ Len(request.runbooks) <= TopRunbooks
  /\ Len(candidates) <= PoolSize
  /\ plan \in Seq(PlanCommand)
  /\ Len(impacts) <= Len(plan) /\ Len(card) \in {0, Len(plan)}
  /\ \A i \in DOMAIN impacts : LET e == impacts[i].estimate IN
       /\ e.severity \in Levels
       /\ e.confidence \in 100..1000 /\ e.share \in 0..100 /\ e.replicas \in Nat
       /\ Len(e.findings) > 0
  /\ job.stage \in {"idle", "connect", "wait"} /\ job.at \in 0..Len(plan)
  /\ \A i \in DOMAIN effect : effect[i] \in {"none", "running", "done", "failed"}
  /\ disk \in [Files -> Contents] /\ DOMAIN snapshot \subseteq Files
  /\ \A i \in DOMAIN approvals : approvals[i].status \in Status
  /\ \A p \in Presses : callback[p].at \in {"idle", "save", "list", "status", "write", "done"}
  /\ outcome.by \in Presses \cup {NoOne} /\ DOMAIN votes \subseteq Presses

(* What a person does not see marked as blocked passed every rule of the   *)
(* validator: neither on the card nor in the plan that runs is there an    *)
(* unmarked command with a rejected structure, a forbidden text, a         *)
(* blacklisted kind or a kind no rule lists (validator.go, pipeline.go).   *)
Clean(c) ==
  c.trait = "plain" /\ c.kind \notin Blacklist /\ \E rule \in Whitelist : c.kind \in rule.kinds
ForbiddenIsMarked ==
  /\ \A i \in DOMAIN card : ~card[i].command.marked => Clean(card[i].command)
  /\ \A i \in DOMAIN effect : effect[i] # "none" /\ ~plan[i].marked => Clean(plan[i])

(* The estimate a person reads beside a command is that command's, as long *)
(* as the model numbers its steps apart; the estimates travel in a map by  *)
(* step number (assessBlastRadius, attachBlastRadius).                     *)
OwnStep(i) == \A j \in DOMAIN plan : plan[j].step = plan[i].step => j = i
OwnImpact ==
  \A i \in DOMAIN card : impacts # <<>> /\ OwnStep(i) =>
    LET own == impacts[i].estimate IN
      /\ card[i].impact.severity = own.severity /\ card[i].impact.replicas = own.replicas
      /\ card[i].impact.findings = Shown(own)

(* The automatic upgrade only ever raises the risk the language model gave *)
(* a command, and raises it as far as the estimate asks                    *)
(* (applyRiskUpgrade, assessBlastRadius).                                  *)
RiskNotLowered ==
  \A i \in DOMAIN impacts :
    /\ Rank(plan[i].risk) >= Rank(impacts[i].risk)
    /\ config.autoUpgrade /\ impacts[i].risk # "" =>
         Rank(plan[i].risk) >= Rank(impacts[i].estimate.severity)

(* An estimate that lacks an answer of Prometheus says so among the        *)
(* findings a card has room for, and halves its confidence at least once   *)
(* (recordNoData, renderBlastRadius).  A pod that has no owner is an       *)
(* answer: it has no replicas to ask for.                                  *)
Lacks(c, w) ==
  CASE c.kind \in {"rollout restart", "scale", "rollout undo"} ->
         w.replicas = NoData \/ ~ShareKnown(w)
    [] c.kind = "delete pod" -> w.owner = "failed" \/ (w.owner = "found" /\ w.replicas = NoData)
    [] OTHER -> FALSE
MissingDataIsTold ==
  /\ \A i \in DOMAIN impacts :
       Lacks(plan[i], impacts[i].answer) => impacts[i].estimate.confidence < 500
  /\ \A i \in DOMAIN card : impacts # <<>> /\ OwnStep(i) /\ Lacks(plan[i], impacts[i].answer) =>
       "no_data" \in ToSet(card[i].impact.findings)

(* A command known to take a service down, scaling running replicas to     *)
(* zero or stopping a unit, is shown as critical and with the word for it, *)
(* whatever else the estimate learns before or after (AtLeast).            *)
TakesDown(c, w) ==
  (c.kind = "scale" /\ c.replicas = 0 /\ w.replicas > 0) \/ c.kind = "systemctl stop"
OutageIsCritical ==
  \A i \in DOMAIN card : impacts # <<>> /\ OwnStep(i) /\ TakesDown(plan[i], impacts[i].answer) =>
    card[i].impact.severity = "critical" /\ "offline" \in ToSet(card[i].impact.findings)

(* Whatever the ranking answers, the history told to the analysis is of    *)
(* recent alerts of the same name, never of the alert itself, and the      *)
(* votes it tells were cast (Retrieve, FindHistoricalCandidates,           *)
(* refreshOutcome).                                                        *)
HistoryIsReal ==
  \A i \in DOMAIN request.history : LET past == request.history[i] IN
    /\ past.id # Alert.id
    /\ \E row \in ToSet(AlertRows) : row.id = past.id /\ row.name = Alert.name /\ row.recent
    /\ past.id = Voted => /\ past.up <= Count(DOMAIN votes, Up)
                           /\ past.down <= Count(DOMAIN votes, Down)

(* A ranking whose answer holds one JSON object, in a fence, bare, or with *)
(* prose before and after, is read from exactly that object, braces and    *)
(* quotes in its strings included (extractFirstJSONObject).                *)
ExtractsTheObject == heard.object # <<>> => ForRanking(heard.text) = heard.object

(* What execution reports is true of the machines: a success was one       *)
(* there, a refusal and a failed start changed nothing, and only commands  *)
(* an executor is configured for, after nothing but successes, were        *)
(* started; a plan is completed only when all of that happened             *)
(* (executor/k8s.go, ssh.go, router.go).                                   *)
SuccessIsReal ==
  /\ \A i \in DOMAIN report :
       /\ report[i] = "success" => effect[i] = "done"
       /\ report[i] \in {"type", "namespace", "target", "connect", "not started"} => effect[i] = "none"
       /\ effect[i] # "none" => /\ plan[i].type \in Installed(config)
                                /\ plan[i].type = "ssh" => plan[i].target \in Hosts(config)
                                /\ \A j \in 1..(i - 1) : effect[j] = "done"
  /\ \A a \in DOMAIN approvals :
       approvals[a].alert = Alert.id /\ approvals[a].status = "completed" =>
         \A i \in DOMAIN plan : effect[i] = "done"

(* Concurrent callbacks may overwrite each other's outcome with an older   *)
(* one, but what stands there was counted by a callback that saw its own   *)
(* vote and every vote saved before it, counts no vote that was not cast,  *)
(* and names a status a plan for the alert had (refreshOutcome).           *)
OutcomeIsFaithful ==
  outcome.by # NoOne =>
    /\ outcome.up >= Count(callback[outcome.by].before, Up)
    /\ outcome.down >= Count(callback[outcome.by].before, Down)
    /\ outcome.up <= Count(DOMAIN votes, Up) /\ outcome.down <= Count(DOMAIN votes, Down)
    /\ outcome.status \in {"", "pending"}
         \cup {row.status : row \in {r \in ToSet(approvals) : r.alert = Voted}}

(* The program loses all its runbooks only when a load without an error    *)
(* found none: a directory that is gone, or a load that timed out with     *)
(* nothing, keeps what is served (Reload).                                 *)
BadReloadKeepsRunbooks ==
  [][DOMAIN snapshot # {} /\ DOMAIN snapshot' = {} => ~loaded.error]_vars

(* Once the directory is repaired and left alone, its runbooks are served, *)
(* however many loads have failed before (Start).                          *)
FilesEventuallyServed ==
  UsesRunbooks(config) /\ <>[](directory /\ \A f \in Files : disk[f] # "broken")
    => <>[](snapshot = Books(Files))

(* People hear of every alert, be it that the analysis failed, unless the  *)
(* message itself is lost (processOneWithCorrelation, Analyze).            *)
EveryAlertIsTold == <>(told # "nothing")

=============================================================================
