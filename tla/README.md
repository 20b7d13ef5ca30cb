# Forge in TLA+

Forge is a *factory* that builds AI employees, and the *employee runtime* that each built employee
is.  An analyst interviews the client; a commission goes over HTTP to Celery workers, which run it
through architect, assembler, generator, packager and evaluator and deploy it.  A deployed employee
is a FastAPI service: it takes tasks, plans them in a kernel, runs tools through a broker that
audits them, runs workflow graphs, parks some tasks for a supervisor's approval, works through its
inbox once a day and survives restarts.

This directory models where that program's own control is hard.  TLC checks the models on small
instances; TLAPS proves the most important results for every size.

## 1. Inventory

| Component | State it keeps | Operations | Interacts with |
|---|---|---|---|
| Task state machine (`employee_runtime/core/task_state_machine.py`) | none; the table of legal transitions | `validate` | `update_task` |
| Task repository (`task_repository.py`) | `employee_tasks` rows (SQL) or a dict (memory) | `create_task`, `update_task`, `mark_inflight_tasks_interrupted` | runtime service |
| Conversation repository (`conversation_repository.py`) | messages; an `approval_request` has `metadata.status` | `list_pending_approvals`, `update_message_metadata` | runtime service |
| Runtime service (`core/api.py`) | repositories, settings, memory entries | `submit_task`, websocket, `decide_approval`, `record_correction`, `put_settings`, uploads, `initialize` | everything in the employee |
| Kernel (`kernel.py`), workflow packs | none | classify, plan, run a lane's tools | tool broker |
| Tool broker, autonomy, audit (`tool_broker.py`, `quality/autonomy_manager.py`, `quality/audit_system.py`) | the audit hash chain | `execute`, `evaluate`, `log_event`, `verify_chain` | kernel, daily loop |
| Daily loop, behavior rules (`modules/pulse_engine.py`, `behavior_manager.py`) | reports; rules in operational memory | `run_daily_loop`, rule resolution | tools, workflow |
| Engine and workflow graphs (`engine.py`, `workflows/dynamic_builder.py`) | the state of one run | `process_task`, `process_task_streaming` | components, deliberation council |
| Analyst (`factory/pipeline/analyst`, `factory/api/analyst.py`) | `_SESSIONS`, in one process | sessions, messages, commission | models, commissions |
| Architect (`factory/pipeline/architect`) | none; a blueprint | component selection, gap analysis, workflow design | models, builder |
| Model clients (`litellm_router.py`, `anthropic_provider.py`) | none | route, fall back, retry | providers |
| Commission and build API (`factory/api/commissions.py`, `builds.py`) | `builds` rows | create, retry, approve, reject | Celery queue |
| Pipeline worker (`factory/workers/pipeline_worker.py`) | one session per task, the build it carries | `start_pipeline`, `_deploy_build`, `resume_deployment` | builder, evaluator, deployer |
| Builder, evaluator (`factory/pipeline/builder`, `evaluator`) | build directory, image, containers, `build.metadata` | one function per stage, `correction_loop` | Docker, model clients |
| Deployer (`factory/pipeline/deployer`) | `deployments` rows, containers, connections | provision, connect, activate, rollback | Docker, Composio |
| Roster, integrations, health sweep (`api/roster.py`, `api/deployments.py`, `workers/monitor_worker.py`) | the same `deployments` rows | stop, restart, rollback, callback, sweep | deployer |
| Updates and learning API, drift detectors, authentication, portals, scripts | registries of one process, or none | | |

**What is hard.**  *Interleaving*: a coroutine per request with an await at every SQL call, so that
what was validated, listed or copied may be stale when it is written back; handlers that commit
after they have enqueued work; several workers on one build.  *Failure*: crashes between the steps
of a handler, exceptions no clause catches, workers that die after Celery has acknowledged the
message.  *Ordering*: tools before the task row, the pipeline before the commission's commit, a
document's name before the document.  *Reuse*: a retry has the same build id, directory and image
tag.  *Rules in several places*: two interpreters of one graph, two ways to map a tool's name, rule
tables that may leave a gap.  *Liveness*: tasks, builds and cyclic workflows that must end.

**What makes each component correct** is what the runs of section 3 state.  `PROJECT.json` lists the
components with their status and, under `hazards`, each place where one can go wrong.

## 2. Modules

```
TaskStateMachine  <--implements--  EmployeeRuntime            AuditTrail <--implements-- ToolBroker
Kernel, Autonomy, AuditSystem  -->  ToolBroker                Autonomy, BehaviorRules --> DailyLoop
WorkflowDesign  -->  WorkflowEngine                           WorkflowDesign --> Architect
Kernel, WorkflowPacks, Autonomy --> Evaluation                Architect, ModelRouting, Evaluation --> BuildStages
BuildPipeline     DeploymentOps     AnalystSession     ServiceState
```

`MC...` modules are the instances for TLC, the eight `..._proofs` hold theorems;
`EmployeeRuntime_proofs` also has those about `TaskStateMachine` and `WorkflowEngine`, the contract
of the runtime's rows and the engines that run its tasks.  `BuildPipeline` has the
races around a build with one verdict per stage; `BuildStages` has what the stages do, one task at
a time; `DeploymentOps` has the deployment that the pipeline's first save makes visible to others.

### EmployeeRuntime

`status` is `employee_tasks.status`; `ask[r]` is `metadata.status` of the approval request that
submission `r` posted; `pc`, `task`, `goal`, `subject`, `decision` are the locals of the handlers.
An action is the stretch of a handler between two awaits that really suspend.  With the SQL
repositories every repository call suspends, and `update_task` itself suspends between its SELECT
(`UpdateTask`, which validates) and its COMMIT (`CommitUpdate`, which checks nothing).  With the
in-memory repositories none does, so a handler keeps the loop (`loop`) until it reaches the
workflow or ends: that is `HoldsLoop`.  `ListPending`, `MarkDecided`, `UpdateTask`, `AuditDecision`
are `decide_approval` in its order; `Fault` is an exception of an awaited call outside the try
block; `Crash` and `Restart` end the process and run `_reconcile_inflight_tasks`.  `StartFails` is an
`initialize` that raises: an exception of the database is kept as `initError`, before or after the
rows are reconciled, and such a process answers 503 to everything and never tries again; one of
`create_components` ends the process.  Messages other than approval requests, and results, never
decide a transition and are left out.

### BuildPipeline

`status` is `builds.status`; `rowId` and `rowStatus` are the one `deployments` row a build may have
(`build_id` is unique); `running` is the set of deployments whose container runs; `queue` counts the
Celery messages; `call[c]` is where an API call is, and `holder` the one whose flushed write is not
committed (PostgreSQL makes other writers of the row wait: `Free`). `job[w]` is what a worker's task
carries. `get_db_session` commits when the handler has returned, so `CreateCommission`,
`RetryEnqueue` and `ApproveEnqueue` send their message before the commit. `Write` is `save_build`
with its commit: the helpers of `persistence.py` keep only Pydantic copies, so every save fetches
the row again and overwrites what others wrote since the copy was made. `SaveFailure` is the handler
of `start_pipeline`; `Deploy` to `Finish` are `_deploy_build` with the rollback that can itself
raise. `stop_container` ignores docker's exit codes, so a rollback may leave its container running
(`StopContainer`); `abandoned` collects the deployments that this, or a worker's death in the middle
of one, has left to themselves. `build.metadata` never reaches its column (`persistence.py` sets an
attribute of another name), so a task starts without an image tag (`NewJob`).

### DeploymentOps

`row` is the deployments row, `container` the Docker container, `actor[a]` what a request, a sweep
or the activating worker carries: its stage, the status it read, its Pydantic copy, and the row as
the save fetched it again.  `save_deployment` is two steps: `Fetch` is its SELECT, `Save` the UPDATE
of the columns in which the copy differs from what was fetched.  So a row can mix two writers.
`Fails` is a handler, sweep or worker that raises or dies before its save, `Exits` the end of the
employee's process.

### ToolBroker with Kernel, Autonomy, AuditSystem, WorkflowPacks

`Kernel` and `WorkflowPacks` are functions: a text is the set of known terms that occur in it, a
plan the tools, approval points and lane that `kernel.py` derives from it. `Autonomy!Decide` is the
tenant policy, then the first matching rule of `autonomy_matrix.yaml`. `AuditSystem` is `log_event`:
with SQL a transaction in three awaited steps (`Begin`, which fixes `now()`, `SelectLast`, `Commit`)
without a lock; in memory one step. SHA-256 is taken as injective, so a hash is the event's time
stamp. `ToolBroker` runs the lane's tools of several tasks beside each other: decide, log, announce,
log, invoke, with an exception at each (`LogFails`, `RefreshFails`, `InvokeRaises`). `AuditTrail` is
what the component promises: an append-only set of events each of which hashes one that was there.

### DailyLoop and BehaviorRules

A run is the stretch of `run_daily_loop` between two awaits: `Start` (review and briefing), `Fetch`,
`ProcessMessage`, `Respond`, `Reply`, `MarkRead`, `Send` for the supervisor's channels, `Resolve`
for the rules of the summary, `PersistReport`. The locals of the runs are functions of the run: its
stage, the message in hand, what it has fetched. Nothing catches a refused tool call (`Refused`) or
an exception (`Fault`). `BehaviorRules` has the rules' precedence and the query's limit, which
returns any `RuleLimit` of the entries.

### WorkflowDesign and WorkflowEngine

A graph is its nodes' adapters and its edges with conditions.  `WorkflowDesign` has the architect's
fallback graphs and `validate_graph`; `WorkflowEngine` runs a task through the compiled graph
(`Superstep`, several nodes at once, conflicting writes raise) and through the streaming loop
(`StreamNode`, which reads the edges itself), each node with what its adapter reads and writes,
and the deliberation council's attempts and reruns.  A run remembers its `steps`: the places it has
been at, each with the state its nodes read and the verdict of the council that sat there, so that
two runs can be compared node by node.

### Architect, ModelRouting, Evaluation, BuildStages

`Architect` is component selection, gap analysis and blueprint assembly as functions of what a model
proposes; `ModelRouting` says which models a router asks and whether one of them returns;
`Evaluation` is the five suites' verdict on a configuration and on a conduct (what the packaged
employee answers, an input). `BuildStages` is one build through the architect, the directory, the
generator's loop of modules, tests and fixes, `docker build` and `docker save`, the server bundle,
the desktop installers (what is left in `dist`, of this iteration or the last), the evaluation's
container and `correction_loop`; `Retry` starts again in the same directory with
the same tag. `docker`, `tar`, `bundle` remember from which attempt's directory a thing was made.

### AnalystSession

`session` is the entry of `_SESSIONS`, `call[c]` a handler with the copy of the state its graph runs
on. `AddMessage` appends and counts, `GraphReturns` replaces the state, whatever it is by then,
`SaveDocument` flushes and names the document, `Commit` commits it. `Commission` makes its document
from the text alone and enqueues before it commits. `Restart` loses the session.

### ServiceState

The handlers of corrections, settings, memory entries and documents; each awaited repository, tool
or embedding call is a step and may raise (`Raise`).  A correction's entry is keyed by task and
number, the settings are the profile and the quiet-hours entry, an uploaded document its file and
its chunks, which a replacing upload deletes in a commit of its own.  `HourOf` is
`_parse_quiet_hours`: after hours it does not know, `StoreQuietHours` skips the portal's rule, which
stays what it was.  `ruleBefore` remembers the rule in force when each call began.

## 3. Runs

Each property of a passing run has a mutation of the code's definitions (a `..._...` operator next
to the one it changes) that TLC finds to violate it.  Nothing deadlocks on purpose, but clients
stop sending, so `CHECK_DEADLOCK FALSE` throughout.

| Run | Shows |
|---|---|
| `runtime_sql` | `CommitStillLegal`: what `update_task` validated is still legal when it commits, though nothing locks the row. `PendingApprovalIsParked`, `AwaitingIsAskable`: approvals on offer and parked tasks fit each other. `ObeysStateMachine`: the rows implement `TaskStateMachine`. `TasksSettle`: a task leaves `queued`/`running` unless it is never served again: by a process that stays dead or keeps an initialization error, or one in which its handler died on an unrecorded exception. One successful start settles it. |
| `runtime_memory` | `DecisionIsFinal`, `AuditMatchesDecision`: with the in-memory repositories a decision is never replaced. (With SQL it can be: between look-up and write another decider gets in.) |
| `runtime_ApprovedTaskMovesOn` (violated) | an approved task stays in `awaiting_approval`: the code writes `completed`, which the table refuses |
| `pipeline` | `DeployedIsActive`, `ApprovedOnly` for two racing workers and two operators. `ContainersAccounted`: a running container is named by the row or being deployed, except one whose worker died or that docker did not stop at its rollback. |
| `pipeline_live` | `BuildSettles` under fairness, with one operator |
| `deployment_ops` | `RolledBackIsGone`, `ContainerIsNamed`: however saves race and mix, a row that says rolled back tells the truth and a container still there is named. `SettledStays`: a later sweep or activation leaves a stopped or rolled-back row alone. |
| `tool_broker` | `ForksNeedOverlap`: the chain verifies unless two transactions were open at once. `NoUnrecordedRun`: no tool acts without its decision and its invocation on record. `ImplementsTrail`: the refinement of `AuditTrail`. |
| `daily_loop` | `AnsweredOnce`: a second answer needs overlapping or broken runs. `ReadIsDealtWith`: nothing is marked read and lost. `QuietIsKept`: a direct command's quiet hours hold against every other source. |
| `workflow_engine` | `EnginesAgree`: where each node has one successor and a fallback, two completed runs whose councils decided alike took the same steps, around a cycle too. `ReviewIsAsked`: a low score or an accounting result is reviewed, whatever the nodes after the flag write. `RunsEnd`, on cyclic graphs too. |
| `build_stages` | `DesignServesClient`: a requested tool is permitted or coded, whatever a model proposes. `NothingStaleIsNamed`, `NoStrayContainer` across retries, failures and a death; `TasksEnd`. |
| `analyst` | `SerialLosesNothing`, `OneDocument`: only overlapping messages lose anything or make a second document. `NamedDocumentIsThere`. |
| `service_state` | `RepeatEscalates`, `UploadsLand`: what overlapping calls with an exception at any await still guarantee. `LastPutCounts`: a settings update no other writer overlapped changes its own fields only; without a portal call beside or after it the portal's rule has the new hour, or, for hours the parser does not know, is what it was when the update began. |

**Bounds.** *Runtime*: two task ids, one HTTP and one websocket submission, two deciders, two
crashes and one fault or failing start; every race in the code is between two handlers of one row,
one crash and one fault make every "step A without step B" reachable, and the second crash ends a
process that could not start, so that a later start finds its rows. *Pipeline*: two workers, two
operators beside the commission, two iterations (one correction, one exhausted loop), one worker
death; the unique row makes a third worker symmetric to one of them. *Deployment*: two calls, two
sweeps and the activation, one tool, one Docker error or lost worker: enough savers to mix columns
in every way. *Broker*: two tasks, a text of each lane, three employees (allowed, refused by the
matrix, refused by the tenant), one tool that is allowed but not registered, two exceptions, so that
an overlap and a failure combine. *Daily loop*: two runs, two messages of which one has no sender,
batches of one, three stored rules with a query limit of two, one fault; `Book` has a command, the
command that lifts it and a portal rule, the three ranks that can contradict. *Workflows*: scores on
both sides of each threshold, all fallback graphs and designed ones with parallel nodes, a cycle
that ends by the step limit or at once, a cycle that a council leaves when it approves, a node
without fallback and one that `Valid` refuses, two reruns; limits of 12 and 16 steps instead of the
code's 25 and 50, which lets every designed graph (ten nodes at most) complete and keeps the graph
engine's limit the lower one. *Build*: three orders (both roles, three risks, tools that are served,
connected and known to nobody), three delivery formats, four component lists, two conducts, two
routers, two iterations, one retry. *Analyst*: three messages of which the last is not the user's,
one commission, a time-out at the third turn, scores on both sides of 85, one restart. *Service*:
three calls of one kind of work at a time (the kinds share no state), two tasks and two patterns,
one document, one exception.

**Fairness.**  A handler's own steps are weakly fair, because an awaited call returns or raises; so
are the stages of a task (their subprocesses and model calls have time limits), a started daily run,
sweep or activation, and a workflow's coroutine. Submitting, deciding, messages, uploads, the start
of a sweep and that of a dead process are not: nobody has to, and nothing in the code schedules
`health_sweep`. Worker deaths, faults and failures that cannot be saved are never forced; properties
that cannot survive them say so.

## 4. Proofs

All of the following is checked by tlapm for arbitrary sets of tasks, handlers, workers, calls,
tools and messages, from the named assumptions on the constants. The sets are disjoint and the
bounds naturals; `PipelineAssumption` also has finitely many workers and operators and
`ServiceAssumption` finitely many calls, which the counting needs.

*EmployeeRuntime_proofs.*  About the abstract machine: types; completed is terminal; a failed or
interrupted task runs again only through `queued` (`MachineTypeOK`, `MachineCompletedIsTerminal`,
`MachineRetryGoesThroughQueue`).  `SqlTasksEndOnce` brings the last two back to the runtime's own
rows, over crashes and restarts, through the refinement below.

About the runtime, `RuntimeTypeOK` for both backends.  For SQL the argument is ownership:
`update_task` takes no lock, so that its validation is still good at commit is a fact about who may
touch the row.  `RowDiscipline` is the inductive invariant: the place of a submission tells what its
row says; the primary key gives a row one owner, and none once its approval is requested; a decision
never gets past its validation, since neither `completed` nor `interrupted` is legal from a parked
state; a dead process runs nothing.  From it follow `SqlCommitStillLegal`,
`SqlPendingApprovalIsParked`, `SqlAwaitingIsAskable` and, by step simulation,
`SqlObeysStateMachine`. Should the table ever allow `awaiting_approval -> completed`, as the
approval handler assumes, `DeciderNeverCommits` fails and two deciders race on an unlocked row.  In
memory the argument is the event loop: `MemoryInv` says that a handler between its look-up and its
last write holds the loop, so that the request it found is still pending when it marks it; from it
`MemoryAuditMatchesDecision` and `MemoryDecisionIsFinal`.

About the engines, `EngineAgreement` and `EngineReviewIsAsked`. The first compares two runs that are
never under way together. `Travelled` is inductive: the places of each run, the one it is at
included, are a journey, in which every place is what the place before it leads to (`NextOf`,
`Merged`), on a plain graph by the same rule for both engines (`SameWay`). Two journeys then agree
up to the shorter (`JourneysAgree`, by the least place at which they differ), and neither is the
shorter, since a run ends only where nothing comes next (`NoLonger`). It holds for every graph that
`Valid` accepts, with the one assumption that its edges are a list. The second needs what each of 22
adapters may do to the flag (`EffectOf`) and where each designed graph leads (`LegalEdges` and its
siblings, whatever the order of the edges). `OnTrack` is inductive: a run of a designed graph is at
one node; once an intake is scored the run is past every component that could clear the flag, and a
low score or a rejected brief has set it; an accountant's run has set it once it is past the bank
feed, and it does not end before.

*DailyLoop_proofs.*  For every set of runs, messages, rules and kinds of employee, and any number of
overlaps, refusals and exceptions; `LoopAssumption` only types the constants.  `LoopAnsweredOnce`:
while nothing has gone wrong (`Undisturbed`) one run at a time works through messages that are
unread, and the only unread message that has been answered is the one its run is about to mark.
`LoopReadIsDealtWith`: at the mark the message has been dealt with (`DealtAtMark`), an escalation
under way has told every channel but those to come (`Telling`), and a message that is read was dealt
with by a run that has left it behind (`LeftBehind`), so no later step of that run takes it back.
`LoopQuietIsKept`: rules are numbered in the order they were stored (`RulesInOrder`), so the
newest direct command among them decides, and while a standing one asks for quiet no run comes to
`reply` (`MayAnswer`).

*BuildPipeline_proofs.*  `PipelineTypeOK`; `DeployedIsActive` and `ContainersAccounted` from
`DeploymentsInv`: deployments under way have distinct ids; the row names one only from its first
save, and is unsettled until its last; a deployment that ends is named, stopped or abandoned.
`PipelineApprovedOnly` is a count: the deployments made, the workers that owe one
(`Owed`) and the resume messages queued are together never more than the approvals sent.

*DeploymentOps_proofs.*  `OpsInv` makes late saves harmless: the row and every copy in flight are
`Sound`, each says rolled back, or names no container, only when the container is gone.  A removed
container never comes back, so `Sound` is stable while a copy waits, and it speaks of each column
alone, so a row put together from two sound copies is sound.  From it `OpsTypeOK`,
`OpsRolledBackIsGone`, `OpsContainerIsNamed`; `OpsSettledStays` also needs what each actor has read.

*ToolBroker_proofs.* `RiskIsMonotone` is about the rule table alone: an action at least as risky in
every respect is never decided more leniently. `BrokerInv` combines the trail's invariant (every
event's predecessor is there; while no transactions have overlapped, at most one is open, it is
later than all events, what it selected is still the last one, and the chain verifies) with what
each stage of a call has on record. From it `BrokerTypeOK`, `BrokerForksNeedOverlap`,
`BrokerNoUnrecordedRun` and the refinement `BrokerImplementsTrail`.

*BuildStages_proofs.*  `StagesInv` is inductive: types; specs under generation are the blueprint's;
the design serves the client; once the tag is named, Docker's image and the tarball are of this
attempt, which holds because every stage from `save` on comes after this attempt's `docker build`;
what has passed is no accounting employee.  From it `StagesTypeOK`, `StagesDesignServesClient`,
`StagesNothingStaleIsNamed`, `StagesNoStrayContainer`.  `BaselineLanes` and `AccountantNeverPasses`
settle a question no small instance can: the hint `ap` of the accounting pack occurs in "approval",
so an accounting employee puts the baseline's business process into the hybrid lane, and no such
build ever passes, whatever the employee does.

*AnalystSession_proofs.* `IntakeInv`: while messages have not overlapped, one handler at most is at
work, on a copy with the session's messages and turns, a document is made only where there is none,
and the turns count the user's messages. From it `IntakeSerialLosesNothing`, `IntakeOneDocument`,
`IntakeNamedDocumentIsThere` and `IntakeTypeOK`.

*ServiceState_proofs.*  `ServiceTypeOK`: every collection, cache and call of the service, entries
that hold a profile or nothing included, keeps its type.  The other three theorems rest on one fact,
`MovesOn`: a call that has ended no longer moves, so what a call saw end when it began cannot write
beside it.  `ServiceUploadsLand`: chunks are only those of calls past their insertion, so a clearing
removes all a call saw end, and who removes a call's own chunks is a replacing call it did not see
end.  `ServiceRepeatEscalates` is a count: the entries are never more than the calls that have
stored one (`CorrectionInv`), so the next number is one the key can carry and an entry that all
agree on is never lost to another pattern.  `ServiceLastPutCounts`: `SettingsInv` follows an update
no writer overlaps from stage to stage; before it is done both entries are its own; until it
sets the portal's rule that rule is the one it began with, which an update with unknown hours never
does, unless a call of the portal set it beside.

**Only model-checked.**  Every safety invariant and action property of the runs is stated by a
theorem, except the divergence of section 5, which is no property of the code.  Liveness
(`TasksSettle`, `BuildSettles`, `RunsEnd`, `TasksEnd`) stays with TLC: the prover does not reason
about fairness.  So does the assumption `FallbacksAreValid`, which has no parameter: TLC evaluates
`Valid`, with its recursive reachability, on the designed graphs.

## 5. Where the code and its promises part

The run `runtime_ApprovedTaskMovesOn` shows one divergence from the documents.  The models reach
these behaviours too; the properties above are stated so as to except them, and each is a hazard in
`PROJECT.json` unless it is a plain omission.

- After a restart `list_pending_approvals` still offers requests of interrupted tasks
  (`core/api.py:429`); the in-memory repository lets a resubmission reopen a completed task
  (`task_repository.py:99`).
- `correction_loop` packages and evaluates after a failed generation
  (`self_correction.py:38`); only the missing tag keeps an older image from passing.  In a later
  iteration the tag is there: when `docker save` fails then, the new image is evaluated and may pass
  while metadata still names the tarball of the iteration before (`packager.py:120`).
- `deploying` can be a build's last word: a late commit of `approve`, or an exception of
  `resume_deployment` that nobody catches (`builds.py:155`).  Approve and reject can both read
  `pending_review`, and the rejected build is deployed (`builds.py:152`).
- A start whose reconciliation fails leaves the former process's tasks `queued` or `running` until
  another start succeeds; nothing in the process tries again (`core/api.py:206`).
- A rollback that could not reach docker clears the row and leaves the container running under no
  name (`container_runner.py:43`).
- Quiet hours that `_parse_quiet_hours` does not know are stored and shown, while the rule of the
  setting before goes on suppressing messages (`core/api.py:1107`).
- The integrations callback saves a copy read before the activation's last save, and the row says
  `connecting` for ever (`api/deployments.py:73`).
- The number of a correction counts corrections of its pattern, but its key is of the task, so that
  corrections of one task for different reasons overwrite each other; the description promises a
  list of all corrections (`FORGE_SYSTEM_DESCRIPTION.md:349`).
- `generate_config` writes neither the order's risk tier nor a tenant policy, so that every packaged
  employee is decided upon as MEDIUM.
- `ToolBroker`'s docstring names retries (`tool_broker.py:8`); the code makes one attempt.
- With more than 100 rules or corrections `list_by_category` returns some of them in no order
  (`operational_memory.py:134`).

## 6. Not modelled, and what could come next

*Left out as components*: the drift detectors (numeric, no control state); the updates, learning and
marketplace API (dictionaries of one process, written by handlers without an await between read and
write); the component library's tools, text processors and working memory (I/O and text; what their
callers see of them is in the modules); authentication (stateless); portals, scripts and migrations.

*Left out of modelled ones*: what a lane writes into its output; the factory's other tables; the log
stream; Railway beyond its outcome; the sweep's metrics and events, and so the one transaction that
a `/metrics` failure rolls back; meetings, briefings and the deliberation endpoint of the service;
token counting, prompts and streaming of the model clients; templates and file layout of the
builder; the wording of every message.

*Next*: the sweep's transaction over all employees as one unit; the lemmas about the operators of
`Kernel`, `Evaluation` and `Architect` that the builds' theorems now unfold; the composition of
`AnalystSession`'s commissions with `BuildPipeline`'s queue; the runtime's event broadcast to its
sockets.
