# TLA+ verification of Alert-Genie

Alert-Genie receives Alertmanager webhooks, groups the alerts, asks an LLM for
an analysis and a healing plan, posts a card to Lark, and executes the plan
when somebody approves it. Users can discuss a plan with the bot in the card's
thread and get a revised plan.

This directory holds models of its concurrent core, the TLC configurations
that check them, and proofs that TLAPS checks. `PROJECT.json` maps every
definition to the lines it models.

## 1. Inventory

| Component | State | Operations | Hard behaviour | What makes it correct |
|---|---|---|---|---|
| Alert intake (`internal/alert`) | `Deduplicator.seen`, `alerts` table | `HandleWebhook`, `evictExpired` | the duplicate check and the mark are two critical sections; the mark precedes the save, whose failure drops the alert | a firing alert of an allowed severity is processed once per window |
| Correlator (`internal/correlation`) | buffer of alerts with deadlines | `Submit`, flush loop, `Stop` | submits race the flush and the shutdown; groups are processed inside the flush goroutine | every alert ends up in exactly one group, groups respect the cap |
| Pipeline (`internal/pipeline`) | none of its own; writes analyses, approvals, conversations, outcomes | `ProcessAlert`, `processGroup`, callbacks, expiry loop | the card is sent before the approval exists; each store call may fail | one approval row and one conversation per card |
| Approval manager (`internal/approval`) | `approvals` table | create, callback, pending list, stale sweep | read, decide, write without a condition on the row | rows follow the transition table; nothing runs unapproved |
| Router (`internal/executor/router.go`) | row status, `execution_logs` | `ExecutePlan` | two executions of one plan, ignored write errors, stop half-way | commands in order, once, and the row tells what happened |
| Chat orchestrator (`internal/chat`) | `conversations`, `messages` | `HandleEvent`, `handleRevisedPlan`, `buildHistory` | the conversation is read before an LLM call and used after it; any of its calls may fail half-way | a revision withdraws the plan it replaces and never one that runs; the thread holds no answer without its question |
| Lark events (`internal/notifier/events.go`) | `processed_events` | `HandleEvent`, purge | the event is marked before it is processed, asynchronously, and may be delivered again meanwhile | a message is answered, once |
| Lark client (`internal/notifier/lark.go`, `cards.go`) | the cached token, its mutex | `getToken`, `refreshToken`, send, reply, update | many goroutines find the token expired at once; a fetch fails | one fetch per expiry, nobody waits for a mutex that is not released |
| Analyzer (`internal/analyzer`) | none | `Analyze`, `RankIncidents`, `Chat`, the parser of answers | retries, free text around the JSON | the object in the answer is found; a failure is told |
| Incidents (`internal/incidents`) | none; reads `alerts`, `alert_outcomes` | `Retrieve` | the ranking is the language model's word | history is real |
| Runbooks (`internal/runbooks`) | the index, replaced on reload | load, reload loop, `Retrieve` | reload against edits and its own timeout | a bad load does not empty the index; a repaired directory is served |
| Safety (`internal/safety`) | none | `Validate` | the order of the layers | nothing forbidden passes |
| Blast radius (`internal/blastradius`) | none | `Assess` | every query may be unanswered; the severity is built up in parts | an outage is critical, missing data is told, the risk is never lowered |
| Executors (`executor/k8s.go`, `ssh.go`) | connections | `Execute` | the timeout against the result, the effect on another machine | a reported success is one |
| Feedback (`pipeline.go:402-481`) | `incident_feedback`, `alert_outcomes` | feedback callback, `refreshOutcome` | list and upsert are not atomic | what the outcome says was counted |
| Configuration (`internal/config`, `main.go`) | the configuration | defaults, validation, construction | parts that are configured but cannot be built | only a valid configuration starts |
| Stores (`internal/store`) | all tables | CRUD; no transactions | failures, NULL columns, LIMITs | |
| Metrics, topology, HTTP server | none | read-only lookups and endpoints | | |

Interaction: the webhook handler starts a goroutine that feeds the correlator;
its flush goroutine calls the pipeline; the pipeline inserts the approval and
the conversation; HTTP handlers for card callbacks and chat events, the expiry
loop and the `ExecutePlan` goroutines then meet only in the database, and no
database access is transactional or conditional.

## 2. Modules

| Module | Models |
|---|---|
| `ApprovalStatus` | statuses, transition table and button actions of `approval/models.go` |
| `ApprovalLifecycle` | the abstract specification: what happens to one plan, whoever implements it |
| `ApprovalFlow` | the core: pipeline, callbacks, executions, chat revisions, expiry loop, restart, around the approvals table of one alert |
| `MCApprovalFlow` | symmetry for TLC |
| `ApprovalFlowProofs` | theorems about `ApprovalFlow`: what executions do |
| `ApprovalRowsProofs` | ... what rows say of each other, of time and of goroutines |
| `ApprovalSerialProofs` | ... when handlers do not overlap: the lifecycle |
| `Alerts` | fingerprints and the clock, which intake and correlator share |
| `AlertIntake` | the webhook handler, the deduplicator and its clean-up |
| `Clustering` | how a flush turns alerts into groups: a pure function |
| `Correlator` | the buffer and the flush goroutine |
| `AlertIngest` | intake and correlator composed, `ProcessAlert`, the shutdown of `main`; the properties |
| `MCAlertIngest` | labels, topology and symmetry for TLC |
| `ClusteringProofs` | lemmas about the operators of `Clustering` |
| `AlertIngestProofs` | theorems about `AlertIngest` |
| `LarkToken` | the token cache of the Lark client |
| `ChatHistory` | what the language model is shown of a thread |
| `ChatEvents` | from a delivered event to the recorded answer, composed with `LarkToken` and `ChatHistory`; purge and crash; the properties |
| `MCChatEvents` | what people write, for TLC |
| `ChatEventsProofs` | theorems about `ChatEvents` |
| `Settings` | defaults, validation, and what `main` builds from a configuration |
| `Safety` | the validator's layers over kinds of commands |
| `BlastRadius` | the estimate of one command's impact, and what the card shows of it |
| `Analyzer` | retries, and the parser of answers over short texts |
| `Incidents` | candidates, ranking and fallbacks |
| `Runbooks` | directory, snapshot, reload loop, choice for an alert |
| `Executors` | kubectl and ssh, and the machines they act on |
| `Feedback` | callbacks of the feedback buttons and the outcome of an alert |
| `AlertAnalysis` | one alert through the pipeline, composed of the eight modules above; the properties |
| `MCAlertAnalysis` | setups, plans and answers of Prometheus, for TLC |
| `AlertAnalysisProofs` | theorems about `AlertAnalysis`: executions, votes, reloads |
| `AlertCardProofs` | ... the card, the estimates, the history, the types |

### How ApprovalFlow corresponds to the code

`created`, `status`, `parent`, `log`, `conv` are the database columns the
components decide on. `pipe`, `cb`, `run`, `chat`, `sweep` hold, per goroutine,
a program counter and the local variables that outlive a store call: the row a
callback read (`seen`), the conversation's approval id a chat turn keeps
(`parent`), the list the sweep works through (`stale`). One action is the code
between two store calls, so every interleaving of store calls is explored.
`ran` is a history variable: which executions handed which command to an
executor. `overdue` stands for the clock: the rows whose `expires_at` has
passed.

* `PipelinePropose`, `PipelineConverse`: `processOneWithCorrelation` from the
  analysis on and `createConversation`.
* `CallbackRead/Decide/Write/Spawn/Fails`: `handleApproval`,
  `HandleApprovalCallback`, `ProcessCallback`. The decision uses the status
  that was read and the clock of a later moment.
* `RunStart/Command/Record/Finish`: `ExecutePlan`, `recordStep`, `failPlan`.
* `ChatFind` ... `ChatLink`: `HandleEvent` and `handleRevisedPlan`; every other
  end of a turn is `ChatNoPlan`.
* `SweepList/Now/Write`: `ExpireStale`.
* `Crash`: the process stops and starts; goroutines vanish, rows stay.

Any store call may fail (`MaxFaults`), and what the code does with the error is
in the action: returned, logged, or dropped.

Two constants separate questions:

* `ScanFails` says whether the SQL stores can read back a row nobody has acted
  on. As shipped they cannot (see 4), and then nothing after the insert ever
  happens; the other runs assume that this is repaired.
* `Overlap` says whether a handler may start while another is under way.
  `TRUE` is the program. `FALSE` is the program under one request at a time,
  with executions still in the background; the lifecycle holds only then.

### How AlertIngest corresponds to the code

* `Receive`, `Check`, `MarkSeen`, `SaveAlert`, `Respond`: one `HandleWebhook`
  per member of `Hooks`, cut where it takes or releases the deduplicator's lock
  and at the insert. `Respond` starts the goroutine that runs `ProcessFunc`;
  `ProcessAlert` is one iteration of its loop over the saved rows.
* `Submit`, `FlushDue`, `FlushAll`, `OnGroup`: the correlator. A flush takes
  alerts from the buffer in one critical section and then calls the pipeline
  once per group, in the flush goroutine, so `loop` stays in "flush" or "drain"
  while handlers go on submitting. The order of a flush's groups is left open.
* `Clusters` builds the partition that union-find computes, from the same
  unions (first of a bucket with each of the others); `SplitForCap` and
  `PickPrimary` follow the sort and the tie-breaks of the code.
* `Signal`, `CloseListener`, `Exit`: the cancelled context, `srv.Shutdown`
  and the deferred `Stop`. Webhooks still arrive until the listener is closed.
* `rows` remembers, beside the row, when its alert was checked and marked; the
  deduplication property speaks of these times. `at` in a buffered alert stands
  for the deadline `at + Window`.

Left out: the pass-through without a correlator (`pipeline.go:116-118`), in
which nothing is grouped, and a payload that repeats a fingerprint.

### How ChatEvents corresponds to the code

A member of `Requests` is one HTTP delivery and the goroutine that answers it.
`Deliver` and `Claim` are `EventHandler.HandleEvent`; `FindConversation`,
`KeepMessage`, `ReadThread`, `Chat`, the steps of `LarkToken`, `Send` and
`RecordReply` are the goroutine, cut at its calls. `Chat` holds both the call to
the language model and, for a revised plan, the writes that `ApprovalFlow` has
in detail. `rows` is the messages table, with the request that wrote a row
(`by`) as history. `clock` orders `created_at`, while `now` counts the hours
and days that tokens, retries and the purge are measured in; a handler claims
its event within one tick. `broken` remembers the messages whose goroutine a
failed call or a crash ended, and `unclaimed` the failures of
`MarkEventProcessed`, after which the code goes on all the same.

### How AlertAnalysis corresponds to the code

`pc` walks through `processOneWithCorrelation`: metrics, history, ranking,
runbooks, the call to the language model, the checks, the estimate, the card,
the approval row. `Decide` stands for all of `ApprovalFlow`: the plan is
executed or it is not. `RunCommand` and `WaitForCommand` are the loop of
`ExecutePlan` with the executors inside, which `ApprovalFlow` leaves open;
conversely the statuses between "pending" and the end of a plan are there and
not here.

* A command is its step number, kind, spelling (`deployment/api` or with a
  blank), a trait of its text, type, target, namespace, replicas and risk. What
  the regular expressions match is expressed by kind, spelling and trait.
* An estimate is built as in `assessor.go`, in the order of its calls, over
  every combination of answered and unanswered queries.
* An answer of the language model is a short text over seven characters: the
  braces, the quote, the backslash, a code fence, a newline and any other one.
  The scanner is `ScanStep`, applied along the text; `JsonObjects` says
  independently what an object is, fences and prose around it come on top.
* `told` is what people have received, `heard` what the ranking answered,
  `effect` what happened on the machines and `report` what the executor
  returned.
* `Feedback` runs beside the pipeline on an earlier alert, which the history
  may show with its votes; `Runbooks` reloads beside it.

Left out: the wording of prompts and cards, the HTTP calls themselves, the
conversions between types, and the row of the analysis, whose failure to be
saved the code only logs.

## 3. Passing runs

* `approval_races` (about 2 million states, 75 s): two callbacks, one chat turn,
  the pipeline, the sweep, two rows, two-step plans, overlapping freely, one
  failing store call. Two callbacks are the least that can double-approve; two
  rows are a plan and its revision; two steps are needed for order and for a
  failure half-way. A pending limit of 1 makes the sweep's list shorter than
  the pending rows. It checks the type invariant, that commands run only after
  an approval, in order, that "completed" and the log tell the truth, that a
  withdrawn plan has a successor, that expiry is after the deadline, that a row
  never waits for a goroutine that is not there, and that a final row changes
  only through a goroutine that already held it. Restarts are not
  added here: without fairness every goroutine may already stop anywhere.
* `approval_serial` (450 thousand states): two callbacks, two revisions, three
  rows, one restart, handlers one at a time: `ApprovalFlow` implements
  `ApprovalLifecycle`, every command runs at most once, and revisions leave one
  live plan.
* `approval_liveness`: under `FairSpec` an approved plan reaches a verdict, and
  an overdue pending row does not stay pending. The second of the two commands
  goes over ssh (`SshSteps`), and the verdict is promised only if no ssh host
  stays silent for ever (`HostsAnswer`): section 4 says what happens
  otherwise.

* `ingest_groups` (1.2 million states, 45 s): two webhooks with up to two of
  three alerts each; the first and the last alert are linked only through the
  middle one, and groups hold at most two, so that a flush has to join a chain
  and to cut it. No row is lost or doubled, linked alerts of one flush are
  apart only because of the cap, and the pieces are in the order in which the
  alerts fired.
* `ingest_dedup` (250 thousand states, 70 s): two webhooks with the same alert
  at any of four times around a window of two, one save may fail, and the
  process may be stopped. Repeats are held back for the whole window although
  check, mark and clean-up interleave; every saved row reaches the pipeline, also
  one that is submitted while another becomes due and stays behind when that
  one is taken; a shutdown ends. (That no row is lost or doubled while this happens is
  proved, see 5.)

* `chat_thread` (150 thousand states, 40 s): two messages and two deliveries,
  repeated or not, overlapping; one fault, which is a failing call or a crash;
  a token that expires. Two deliveries are the least that can race for a
  message or for the token. A history of two messages and a size of two make
  both limits bite. `PurgeAge = RetryWindow = 0` counts in days: the purge
  deletes strictly after the last retry. Each message is answered once, no
  answer is kept without its question, the token is fetched only when it is of
  no use, the history forgets from the front, and a claimed message is
  answered unless a fault took its goroutine.
* `alert_analysis` (300 thousand states, 95 s): one alert; thirteen setups, six
  of which do not pass `Valid` and start nothing; one-command plans of every
  kind, risk, spelling, trait, type and place, pairs with equal and with
  different step numbers, and a triple that fails half-way; one retry; texts of
  up to four letters. The setups separate what does not interact (votes with
  history, ranking, runbooks, plans that are estimated, plans that run), so
  that their states add up. In it two votes overlap with a plan that is
  proposed and ends, `ApprovalPage = 1` (50 in the code) lets the approval a
  vote looks for fall off the page, two edits and one timeout surround the
  reload loop, and a second cluster replaces the first. The thresholds of the
  traffic share are the program's defaults (50 and 80 percent) and Prometheus
  answers below one percent, at and above the thresholds, and above the total.
  The owner of a pod is found, is nobody, or cannot be asked for.

`MaxTime` stands for every later time: a deadline beyond it counts as passed
when the clock stands there, so nothing waits for a time the model has not.

Fairness: weak fairness for the goroutines that exist (the Go scheduler runs
them), for the expiry, flush and reload loops (tickers), for the steps of a
shutdown that has begun, and for the clock. Of the commands of an execution
only those of kubectl are fair, which is killed at its timeout; an ssh command
waits for a silent host without a deadline (`ssh.go:123`, `211`, `234`, `240`).
In `AlertAnalysis` the pipeline is fair, except while it connects to an ssh
host, because every other call it makes has a timeout and a decision comes at
the latest with the expiry of the plan; in `ChatEvents` a request's goroutine
is fair because its calls, to Lark and to the language model, have timeouts.
Neither the machine that runs a command nor the votes are. Pressing a button,
writing to the bot, sending a webhook or stopping the process is never fair:
nobody has to.

## 4. What the code does not keep

* `approval_twice`: two approvals that both read the row while it was pending
  run the plan twice.
* `approval_modify`: a plan approved with modifications is never executed.
* `approval_shipped`: with the SQL stores as they are, reading a fresh row fails
  on its NULL columns, so a callback never gets as far as a decision.

* `ingest_window`: every alert has a deadline of its own, so linked alerts that
  arrive further apart than a flush tick end in different groups, however long
  the window is. `correlator.go:32` speaks of alerts that arrived within the
  same window.
* `ingest_shutdown`: an alert that is accepted while the process stops can be
  submitted after the final pass and is then lost, against `correlator.go:102`.

Further disagreements that the modelling brought up, without a run of their
own. Except for the last two the models do what the code does:

* A command the validator rejects is marked "[BLOCKED: ...]" on the card and
  executed all the same when the plan is approved (`pipeline.go:308`,
  `router.go:111`); `src/README.md:184` says a command must match the whitelist
  to be allowed. `ForbiddenIsMarked` is what is left of it. The escalation by
  risk (`src/README.md:185`, `safety.escalation`) is not implemented at all.
* An execution need not end. The ssh executor gives the TCP dial a deadline but
  neither the handshake (`ssh.go:211`, `240`) nor the dial through a bastion
  (`234`) nor the opening of the session (`123`), and looks at the context only
  after them (`144`). A host that accepts the connection and stays silent holds
  the execution, and the row says "executing", for ever; without `HostsAnswer`
  TLC finds exactly that against `ApprovedIsFinished`. `max_plan_timeout`
  (`config.example.yaml:82`) would end it, but nothing reads it.
* The prompt offers the language model types such as `kubectl_scale` and
  `ssh_exec` (`prompt.go:142`), while executors are registered, and whitelist
  rules keyed, by "k8s" and "ssh" (`executor/models.go:9`, `validator.go:206`).
  Such a command is marked as blocked and fails as an unknown type.
* `blastradius/types.go:87` takes a command's target for the name of a cluster,
  but `main.go:95-101` keeps one executor for all clusters, so the last one
  configured serves every kubectl.
* The whitelist wants `deployment api`; `deployment/api`, which the estimate
  understands, is rejected. The vocabulary of `src/README.md:189` lists
  `patch hpa` and `systemctl stop`, which no rule allows.
* When the replica query fails, scaling to zero is called a no-op beside the
  missing data; `OutageIsCritical` therefore speaks of known replicas. Two
  commands with one step number share the estimate of the last.
* A risk the ranks do not know ("severe") counts as lower than low and is
  upgraded; an empty one never is.
* Beyond 40 messages the history is the oldest ones (`sqlite.go:384`), against
  the comment at `orchestrator.go:207`.
* Of two overlapping votes the older count may be written last and stay until
  the next vote; a repeated press counts twice; a vote on a plan whose approval
  is no longer among the newest 50 leaves the status empty.
* A ranked history is not cut to `top_k` and may repeat an incident, against
  `incidents/retriever.go:106` ("returns up to TopK incidents").
* A pod that Prometheus knows but no workload owns keeps the confidence of its
  estimate (0.6): the card says that the owner is unknown, but does not count
  it as missing data (`assessor.go:562-569`), as a failed query is (`558`).
* An empty command text without a kubeconfig indexes an empty slice
  (`k8s.go:60`). The plans of the instance have no empty text.
* The buttons of a card carry an approval id that is not known yet when the
  card is built (`cards.go:187`).

## 5. Proofs

Every invariant that a passing run checks is proved for all values of the
constants (those of the run `approval_serial` under its condition on the
handlers); so are the action properties `FinalStaysFinal`,
`BadReloadKeepsRunbooks` and `RecentTurnsKept` and the refinement of the
lifecycle. Three theorems state what no run checks, because they complete one
that does: `SerialRunIsSettled`, `ClaimedIsInHand`, `NoMarkWithoutAlert`.

The assumptions are the named `ASSUME`s of the modules: bounds are natural numbers, the sets that are
counted (`Messages`, `Requests`, `Presses`, `Files`) are finite, plans and the
answers of Prometheus have the types the code decodes them to, and the alert
is new to the approvals table.

### Approvals

`ApprovalFlowProofs`, for every number of callbacks, chat turns, rows, steps,
faults and restarts, overlapping or not: `TypeCorrect` (`TypeOK`), `Authorised`
(`ExecutionAuthorised`), `InOrder` (`StepsInOrder`), `CompletedIsTrue`
(`CompletedMeansAllRan`), `LogIsTrue` (`LogIsTruthful`).

The last four follow from one inductive invariant, `ExecInv`. The properties
speak of history (`ran`) and rows; to be inductive they need what each
goroutine knows: a callback on its way to an execution has decided on an
"approve" of a row it read as pending (`CallInv`), an execution belongs to
such a callback, which is finished (`RunInv`), it has run every command before
the current one (`ProgressInv`), and nothing else wrote history (`RanInv`).
`ExecQuiet` disposes of every step that touches neither callbacks, executions,
history nor log and completes no row.

`ApprovalRowsProofs`, just as general: `NothingExpiresEarly`
(`ExpiredIsOverdue`), `SuccessorFirst` (`SupersededHasSuccessor`),
`ApprovedIsDriven` (`NoOrphan`), `FinalStays` (`FinalStaysFinal`). The lemma
`StatusMoves` lists the six ways in which a row's status can change; each
theorem then asks of each way what the goroutine that takes it knows. That is
`KnowInv`: ids name existing rows, a callback that decides read the row as
pending and expires it only past its deadline, the sweep writes only rows it
found overdue, and a turn that withdraws a plan has its revision in the table.

`ApprovalSerialProofs` is about handlers that do not overlap, executions still
in the background, restarts at any time. Under that condition alone
(`OneAtATime == ~Overlap`), whatever store calls fail:

* `SerialRunsOnce` (`ExecutedAtMostOnce`). `approval_twice` shows that this is
  false with overlapping handlers, so the overlap, and not a lost write, is what
  the double execution is due to.
* `SerialRunIsSettled`: where a command has run the row says approved,
  executing, completed or failed from then on, so no rejected, modified,
  withdrawn or expired row hides a run.

`SerialInv` says that at most one handler is under way (`Alone`), so that what it
read as pending still is (`HeldArePending`), that an execution has its row to
itself and the row is settled (`OneRun`), and that the commands ahead of it have
not run (`AheadInv`). A settled row refuses the next approval; that is all that
running once needs, and it survives lost writes because nothing writes a
settled row back.

With a store that works (`Serial == OneAtATime /\ MaxFaults = 0`) the row also
says how far the execution is (`RowsSay`). Then `SerialLifecycle`
(`ImplementsLifecycle`): every action maps to a step of `ApprovalLifecycle` or to
a stutter. And, if fresh rows can be read (`~ScanFails`), `SerialOneLivePlan`
(`OneLivePlan`); `LiveInv` adds which row is the last one and who is about to
withdraw any other. Both need the store: after a lost write of
"executing" the commands run on a row that still says approved, and after a lost
write of the conversation it does not point at the pending plan.

### Alerts

`ClusteringProofs` has no theorem about a specification, but what `Groups` and
`PickPrimary` compute for every finite set of alerts: clusters are a partition
that keeps linked alerts together (`ClustersPartition`), the cap cuts a cluster
in the order of firing into pieces of which only the last may not be full
(`CutIs`), and the primary fired first (`PrimaryIs`). The fold over the unions is
handled by `SetDescent`: instead of an induction over an operator, the set of
those subsets of the unions for which the claim holds contains the empty set
and, with a set without one element, the set; hence it contains all.

`AlertIngestProofs`, for any number of webhooks, fingerprints and faults, any
labels, cap and windows:

* `RepeatsAreHeld` (`DedupHolds`): check, mark and clean-up are three critical
  sections, so a mark may be older than what was checked after it. `DedupInv`
  speaks of every time at which a fingerprint was checked or marked, by a row
  or by a handler that has not saved its row yet, and says that the
  deduplicator remembers a mark no older than any of them, or that all are a
  window old.
* `NoRowLostOrDoubled` (`EachRowInOnePlace`): a row has exactly one owner, a
  handler, its goroutine or something submitted (`RowInv`); positions identify
  what was submitted (`PosInv`).
* `OnlyTheCapSplits` (`SplitOnlyByCap`), `PrimaryFiredFirst` (`RootCauseFirst`):
  `CutInv` carries the lemmas of `ClusteringProofs` over to the groups of
  earlier flushes, which `PosInv` keeps apart from later ones.
* `NoMarkWithoutAlert`: the mark comes before the save, and a marked fingerprint
  is held back. As long as no save fails the last mark of a fingerprint is that
  of a saved row or of an alert about to be saved (`MarksAreBacked`), so a mark
  without an alert is due to a failing save and to nothing else.
* `IngestTypeCorrect` (`TypeOK`).

### Chat

`ChatEventsProofs`, for every number of messages, deliveries, faults and every
length of the token's life, of the retries and of the purge:

* `TokenFetched` (`FetchOnlyWhenNeeded`). The invariant is inductive once the
  clock and the expiry are known to be numbers.
* `AnswersHaveQuestions` (`NoAnswerWithoutMessage`). The strengthening,
  `ThreadInv`, says what a request has done when it is about to answer: between
  storing its message and recording the answer its row is in the table, older
  than the clock, unless what it sends is an excuse.
* `ChatTypeCorrect` (`TypeOK`): the mutex is held by exactly the request that
  fetches (`MutexInv`).
* `OneAnswer` (`AnsweredOnce`): the answers to a message and the requests that may
  still answer it (`Flight`) are together at most the claims the store could
  not record, plus one while the message is claimed or can no longer be
  delivered (`Budget`). The purge may forget a claim only when the message is
  past its retries, so the budget is never spent twice; this is where
  `RetryWindow <= PurgeAge` is needed.
* `ClaimedIsInHand`, the safety half of `ClaimedIsAnswered`: a claimed message is
  answered, or excused, or a goroutine past its claim is at work on it
  (`NothingDropped`). `DropsNothing` says what a step must not do for that to
  stay, and every action is shown not to do it. What is left to liveness is
  that the goroutine comes to its end.
* `RecentTurnsShown` (`RecentTurnsKept`), an action property about the window of
  rows the language model is shown. Rows in the order of time exist for every
  finite set, by taking the oldest away (`OrderExists`); dropping the current
  message keeps the order (`Sifted`); the limit on turns and the limit on size
  each leave an end of the sequence (`Ends`), and what is before an end is no
  newer. `ShownInv` carries it to the step of a request while others add rows.
  In place of an induction over sequences each lemma takes the least length at
  which it would fail.

### Analysis

`AlertAnalysisProofs`, for every configuration, plan, answer of a call and
order in which results, timeouts and the machines come:

* `ReportsAreTrue` (`SuccessIsReal`). What is reported says little of
  the commands not reported on yet, so the invariant says for every command
  what may be so at each moment (`CommandInv`): nothing happened to one the
  router has not reached, one that waits for a connection may be run and is
  untouched, one that was started fits its executor and follows only commands
  that were done. `TableInv` then ties the approvals to it: a row of this alert
  says completed only after the run.
* `OutcomesAreFaithful` (`OutcomeIsFaithful`). `VoteInv` says of a callback what it
  has listed, votes saved before it among them, and of the outcome that it was
  counted from such a list. The bounds hold because votes are only added and a
  final status stays in the table.
* `ReloadKeepsRunbooks` (`BadReloadKeepsRunbooks`), an action property.
* `ObjectIsExtracted` (`ExtractsTheObject`): the scanner counts braces outside
  strings, and finds the object in every answer that contains one. The lemmas
  follow it along prose (it stays where it is), along a string (it comes out
  as it went in, whatever braces and escaped quotes are inside) and along an
  object (it is back at depth zero at the last brace and at no earlier one),
  each by the least length at which that would be false. `FencedIsRead` and
  `BareIsRead` are the two shapes of an answer.

`AlertCardProofs`, about what people and the language model are told:

* `UnmarkedIsClean` (`ForbiddenIsMarked`), from `MarkInv`: after the check whatever
  is not marked passed the validator. The assessment, which replaces commands
  of the plan, changes only their risk.
* `RiskOnlyRaised` (`RiskNotLowered`), `MissingIsTold` (`MissingDataIsTold`),
  `OutageIsTold` (`OutageIsCritical`). First come the estimates: every operator an
  estimate is composed of only adds findings, raises the severity and lowers
  the confidence (`Grows`), so what one part found is there at the end, whatever
  the parts after it learn (`AssessIs`). The card shows two
  findings; `Sound` says that what must be told is among them. For a deleted pod
  that is an owner, or the replicas of an owner, that could not be asked for. `ImpactInv` ties
  every impact made so far to the command it was made for.
* `EstimateIsOwn` (`OwnImpact`), from `CardInv`, which ties the card to the plan and
  the impacts.
* `HistoryHappened` (`HistoryIsReal`). What a history tells holds when it is told
  and still holds later because votes are only added (`RealStays`). That the
  store's filter returns only rows of the table is induction over a sequence;
  `Among` is a recursive function, which exists by the least length for which
  it would not (`KeptExists`), and for the same reason keeps only members of
  the set (`AmongIn`).
* `AnalysisTypeCorrect` (`TypeOK`), with the bounds of the share, the confidence,
  the candidates and the runbooks; the length of a history has none (see 4).

### Only model-checked

Liveness (`SavedIsGrouped`, `StopEnds`, `ClaimedIsAnswered`,
`ApprovedIsFinished`, `OverdueIsClosed`, `FilesEventuallyServed`,
`EveryAlertIsTold`): fairness and ENABLED are out of the prover's reach.
`ClaimedIsInHand` and `ApprovedIsDriven` are the safety halves of
`ClaimedIsAnswered` and `ApprovedIsFinished`: somebody is at work, though an ssh
host may keep it waiting.

## 6. Not modelled, and the plan

Not modelled: the HTTP server's read-only queries, the requests to Lark,
Prometheus and Claude themselves, decoding, signatures, the layout of cards,
the wording of prompts. What `server.go:205-217` does to the live configuration
when it is read (it blanks key paths in the shared slice) is not modelled
either: nothing reads those paths after the start.

What a next step would be, in this order:

1. The HTTP server's queries, if one of them comes to write.
2. The part of the lifecycle that survives failing store calls, as an abstract
   specification of its own: `SerialRunsOnce` and `SerialRunIsSettled` are its
   two main consequences, but a refinement would say it in one formula.
3. Safety halves of the other liveness properties, as `ClaimedIsInHand` is that
   of `ClaimedIsAnswered`.
