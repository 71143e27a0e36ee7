# TLA+ verification of ProjectOS

ProjectOS turns a requirement into a delivered application: a conversation starts a
planner, the planner makes a DAG of WorkItems, an isolated Worker process runs it with
LLM Agents, the DAG grows as the Agents design modules, code is staged in git worktrees
and merged wave by wave, failures are retried, repaired or replanned, and everything that
has to survive a crash lives in files of the Trace. The specifications here model the
control of that: who decides what from which file, and what happens when a process dies
in between. Agents, prompts, generated text and the verdicts of content checks are free
choices of the model.

## 1. Inventory

| Component | State | Operations | Hard because |
|---|---|---|---|
| Retry policy and ledger (`orchestration/retry.py`) | `retry-ledger.json` | count, `action_for`, append, circuit breaker | Worker threads, Worker fallback and monitor write one file; count and append are two critical sections |
| Graph scheduler (`orchestration/runner.py`, `state.py`) | `RunState`, events, `checkpoint.json` | `run`, `ready_items`, batches, retries, collect, checkpoint, verdict | parallel threads, crash between event and checkpoint, first bad result ends the run |
| WorkItem execution (`runner.py` `_run_item*`) | files, memory events, evidence of the item | preflight, prompt and tools, Agent, gates, test protocol, retry | evidence is looked up by item id over attempts, Workers and repair rounds |
| Code staging and integration (`domain/code/git_service.py`) | worktrees, published workspace, wave events | write, integrate wave, validate | the event of a merge and the merge are two steps; reruns make old merges stale |
| Resume and recovery (`application/runs.py`) | two plans, two checkpoints, baseline, event log, ledger | `_load_delivery_resume`, `_sanitize_resume_state`, `_apply_monitor_retry_recovery` | three views of one progress that disagree after a crash |
| Repair loop (`_run_with_repairs`) | `delivery-checkpoint.json`, repair events | wave repair, planner repair, back to the delivery DAG | a second DAG borrows the Trace's files and its status |
| Worker supervision (`RunCoordinator`, `_worker_entry`, `progress.py`) | Future, lease, control file, Trace status | submit, claim, watch, stall, timeout, cancel, resume | three kinds of processes check and write the same files |
| Progress store and stall watch (`progress.py`, `_stall_observations`) | `worker-status.json`, stall windows | trackers, event-bus callbacks, polls, `finalize_run` | callbacks run late and out of order; snapshots hide attempts |
| Delivery state machine (`orchestration/delivery.py`) | delivery state, requirement matrix | transitions, milestones | edges that the verdicts need, a crash between two milestones |
| Dynamic plan expansion (`planner/dynamic_builder.py`, `delivery_tail.py`) | the plan, its history, baseline and checkpoint | grow the DAG while it runs | closedness of a moving graph; four files for one expansion |
| Workflow compiler and templates (`workflow/`) | templates, contracts | compile, waves, barriers | declared waves that contradict the dependencies |
| Artifact repository (`artifact/repository.py`, `domain/architecture/`) | staged texts, manifests, receipts, candidates, revisions, `current.json`, `architecture.md` | stage, verify, create candidate, promote, recover | every file is written by itself and in place; reruns change what later files were made from |
| Capability grants (`tool_manager/`) | grants by node, Trace, project; the Worker's gateway | request, approve, revoke, replay, expose | two ledgers, an event log and a process memory |
| Planner (`planner/service.py`, `validator.py`, `patch.py`) | plan drafts, patches | plan, validate, patch, invalidate | retries with feedback; what a patch may keep |
| Conversations (`application/conversations.py`) | messages, Traces | send, plan, patch, resume, answer | several clients, model calls in between |
| LLM adapters (`llm/responses.py`, `preflight.py`) | streams, two threads, two queues | create, hand over, read, time out, retry | abandoned calls whose threads live on |
| Runtime and ports, sandbox, memory, API | processes, ports, logs | start, run a check, append, route | outside the control decisions above |

How they interact: the API process calls `ConversationService`, `RunService` and
`RunCoordinator`; the coordinator starts one Worker process and one monitor thread per run;
the Worker runs `_run_with_repairs` around `GraphRunner.run`, which runs a WorkItem per
thread, which calls the LLM adapter through an Agent; all processes meet in the files of
the Trace and the project, and only there.

What makes each part correct: retries are bounded over restarts; completed work is closed
under dependencies, also while the plan grows, and is neither lost nor replayed; code is
read and delivered only when its last commit is merged; a completed item has its output,
and a completed test its passing evidence, behind it; a repair never captures the Trace;
one process executes a Trace at a time; a cancelled run does not execute; a hung item is
noticed; a tool is offered only where it was approved; a model call ends; every request,
item and run reaches a verdict; and a publication is never half visible. The hazards of
`PROJECT.json` give the lines where each of these could go wrong.

## 2. Modules

| Module | Models | Uses |
|---|---|---|
| `RetryPolicy` | `RetryPolicy`, `RetryLimits`, the counters, the three places that make a record | |
| `RetryLedger` | processes that count, decide, append or die | `RetryPolicy` |
| `GraphRunner` | one Worker at a time: scheduler, threads, integration, wave repair, monitor, resume | `RetryPolicy` |
| `DagExecution` | what the machinery promises: a set of completed items that grows along the DAG (a bootstrap item also ahead of it), may be restored to a closed set, and is delivered whole | |
| `WorkItemAttempt` | one WorkItem of any shape from `_run_item_with_retries` to its NodeResult | `RetryPolicy` |
| `RepairCycle` | planner repairs, plan and checkpoint files, the way back, the delivery state | |
| `WorkerLifecycle` | API process, resume requests, monitors, Workers, lease and control file | |
| `ProgressMonitor` | the progress snapshot of a batch and the monitor's stall windows | |
| `PlanTemplates` | the registered templates as plans, the checks of a plan | |
| `PlanGrowth` | the expansions, the contract compiler, the files of an expansion, resume | `PlanTemplates` |
| `PlanPatch` | plans as values: drafts and their validation, system dependencies, patches | |
| `ConversationRuns` | clients, planner loops, Traces, Workers and the answers | `PlanPatch` |
| `ToolGateway` | grants, ledgers, gateway of a Worker, Agent turns, approval and revocation | |
| `ResponsesStream` | one model call with its threads, queues, timeouts and retries | |
| `ArtifactRepository` | how an architecture is staged, integrated, published and recovered, file by file | |
| `MC*` | instances for TLC | |
| `GraphRunnerProofs`, `WorkerLifecycleProofs`, `ArtifactRepositoryProofs`, `ToolGatewayProofs`, `WorkItemAttemptProofs`, `ProgressMonitorProofs` | theorems | the module each is named after |
| `RecoveryProofs` | theorems | `RetryLedger`, `RepairCycle` |
| `ConversationRunsProofs` | theorems | `ConversationRuns`, `ResponsesStream` |

The state machines look at one system at different grains, and what one assumes another
is about. `GraphRunner` assumes one Worker at a time (`WorkerLifecycle`) and a plan whose
waves are barriers that their consumers are outside of (`WaveAssumption`, which
`CompiledBarrier` of `PlanGrowth` establishes for compiled plans); it completes an item in one step that `WorkItemAttempt` opens, an
architecture item in one that `ArtifactRepository` opens. `WorkItemAttempt` and
`ConversationRuns` assume that a model call ends, which `ResponsesStream` shows.
`RepairCycle` counts items where `GraphRunner` has their graph; `WorkerLifecycle` reduces a
run to one step and a stall to a choice, which `ProgressMonitor` opens.

**State.** In `GraphRunner` a `RunState` is the sets `done`, `bad`, `forced` (the
`_forced_rerun_items`) and `orphan` (diagnostics without a forced marker). Files:
`ckpt`/`dckpt` (`checkpoint.json`, `delivery-checkpoint.json`), `doneEvent` (items
whose last terminal event is a completion), `ledger`, `applied`
(`retry_recovery_applied` events), `trace`, `open`/`batch` (progress file), `cancel`
(control file), `change`/`integrated`/`waveDone` (last commit of each ChangeSet,
merged commits, `code_wave_integrated` events). `revoked`, `owed` and `proven` are
history: work that something in the code legitimately invalidated, owners ordered
to rerun, items ever completed.

In `RepairCycle` a plan is the path of repairs that made it (`<<>>` delivery, `<<1, 2>>`
the second repair of the first repair), and `delivery` is the project's delivery state. In
`WorkerLifecycle` each Worker has a program counter along `_worker_entry`, each monitor one
along `_run_in_worker`, each resume request one along `resume_run` and `submit`, and each of
the three callers of `_finalize_external_run` an outcome it has decided and not yet
written. `claim_worker` is five steps: create, find, read, unlink, write; `contended` and
`overlap` are history, of claims that met in it and of submits that passed its check
together.

In `ProgressMonitor` `disk` is `worker-status.json`, `queue` the callbacks that the event bus
has not delivered, `window` the monitor's stall windows, and `age` the attempt a window was
opened in (history). In `PlanGrowth` a plan is a sequence of records with agent, stage,
mode, slot, publish target, wave, dependencies and references; ids are pairs of an origin
and a name; `hist`, `baseline` and `ckpt` are the three files of an expansion. In `PlanPatch` a
plan is an id and a function from ids to items, an objective the number of times it was
changed, a patch one to five operations (`Parses`, the schema of `PlanPatch.parse`). In `ConversationRuns` `trace[t]` holds all files of a Trace, `client[c]` a request with
what it has read so far. In `ToolGateway` a grant is a record with its scope, `gateway` the
memory of a Worker; `approved` and `live` are history. In `ResponsesStream` every variable is
indexed by the attempt, since threads of an abandoned attempt live on. In
`WorkItemAttempt` the durable facts are `staged`, `saved`, `evidence`, the item's events in memory
(`sequence`, `writes`), the order to run again (`forced`) and the ledger; `acted` is history: a
workspace write or a check of this round. `shape` stands for agent, mode and delivery
contract: structured and Markdown designs and integrations are four shapes, since their tools,
gates and fallbacks differ. `design` and `candidate` in `saved` mean that the file verifies against
the present inputs and contract; a change of the inputs takes them out. `Gate` is the
set of what the gate may find: an architecture item completes on a verified file alone
(`runner.py:3007-3106`), a structured integration without one goes to the control plane
(`IntegratesForAgent`, 3107-3172 and 3220-3269), the gates of code and contract are 3286-3372.
Only architecture items have `required_tools` (`work_item.py:151-160` derives them from the delivery
contract), hence only they can be refused for a tool that is missing. Quality gates have no Agent and are
in `ArtifactRepository`.

In `ArtifactRepository` a digest is the text it was taken of. `text` and `manifest` are the
two files of a staged output, `receipt` the validation receipt of the recursive scheme,
`cands` the candidate directories, `revs` the revision files, `current` and `projection`
the two published files; `Torn` (or 0, or the file state `"torn"`) is a file whose write
was cut. `job` is the place of the Worker in each WorkItem, `blame` the producer that the
last failure event names, `reruns` counts the reruns ordered because of it. `mode` is the
architecture scheme, fixed for a Trace.

**Actions** carry the name of the function they stand for, and the comment before
them names it where the idea has another name. A function that another process can
interleave with is split exactly where a file is read and later acted on:
count/append in `RetryLedger`, event/checkpoint (`Collect`, `Save`) and merge/event
(`IntegrateWave`, `KillDuringMerge`) in `GraphRunner`, look/write (`BeginFinalize`,
`EndFinalize`) and the lease in `WorkerLifecycle`, one step per file written in
`ArtifactRepository`, `PlanGrowth` (`Save`) and `ConversationRuns`, one per lock or queue operation
in `ResponsesStream`.

**Abstractions.** Fingerprints are model values; a change of input or evidence is a new
fingerprint. Content gates may say yes or no. Time is a set of deadlines that may
pass. `Die` in `WorkerLifecycle` also stands for `shutdown`. In `GraphRunner` the planner's
repair DAG completes in one step (its failures are `RepairCycle`'s) and the plan is fixed
(its growth is `PlanGrowth`'s). In `ProgressMonitor` and `ToolGateway` a read-modify-write of one file
is one step; what two of them of different processes lose when they overlap is not
modelled. In `PlanGrowth` batches are atomic and a contract file is one item, with the import
bindings left out. In `ResponsesStream` event numbers are kept modulo 3. In `ConversationRuns` a
crash takes the API and the Worker together, a failed item ends the run, and `submit` is one
critical section, where the code has two (`runs.py:1677-1683`; `WorkerLifecycle` has both).

## 3. Runs

| Run | Question |
|---|---|
| `ledger_shared` | Two writers: are the total, item and kind budgets, and the circuit breaker, overrun by at most one record? |
| `graph_parallel` | Two parallel code items, an integrator and an item beside it: delivered implies merged, budgets survive restarts, a verdict is reached |
| `graph_chain` | A bootstrap item with a dependency, as in the templates, and two code waves: closed frontier, batches on completed inputs and the current baseline, nothing proven replayed, refinement of `DagExecution` |
| `repair_cycle` | Does the Trace find back to the delivery DAG after any failure or crash, without losing progress, and does the delivery state follow? |
| `worker_lifecycle` | Mutual exclusion, serialised starts, cancellation, no hanging run, with concurrent resume requests |
| `artifact_publish` | Blueprint, module design, integration and gate with faults at any write: backed by files, one candidate, no half-visible publication, published in the end |
| `plan_growth` | Every template and two planner plans, grown by sound and unsound designs, a crash between any two file writes |
| `progress_monitor` | Is a hung item noticed, a retried one left alone, and the snapshot closed for good? |
| `capability_grants` | Are tools offered exactly where users approved them, over revocations, restarts and two Traces? |
| `stream` | Is no event lost, close() called on every late stream, and does a call end, whatever the relay does? |
| `conversation` | Do drafts and patches of two clients leave sound plans and keep exactly what is unaffected, do requests end, and is an ended run named in the conversation? |
| `work_item_attempt` | Does completed mean delivered and tested, for every shape of item, over gates, control-plane fallbacks, retries, aborts and further rounds? |

Deadlock is checked where the module has an action for its end states
(`plan_growth`, `progress_monitor`, `capability_grants`, `stream`); in the others a Trace with a
verdict and no request is at its end.

**Bounds.** A ledger of three records reaches every limit and one past it for
two writers. `graph_parallel` has one crash, one resume (which loads the state twice, in the API
process and in the Worker), one commit per item, a total retry budget of one, and next
to the integrator an item that a wave repair does not reset; `graph_chain` has two commits (a
rerun makes a merged commit stale), four failure kinds (one per branch of the policy that
matters: block, replan, stall, crash) and one of each disturbance. The two are separate
because their union is beyond exhaustive search. `repair_cycle` has three delivery items, four
failures and two crashes: enough for a repair of a repair, a crash inside it and the
return. `worker_lifecycle` has two Workers, two requests, two resumes and two faults (a crash of a
Worker or a restart of the API); its safety part was also run with three Workers. Worker
processes are alike, so a new one is a fixed fresh name. `artifact_publish` has a blueprint and a
design that reads it, two good texts (so that a rerun may change a text, or change it back)
and an unplanned one, two wordings of a candidate, three faults and one failed integration:
a crash at the first write, another at the repetition and a third at the gate. `plan_growth`
starts from all registered templates and has six blueprints (independent, chained, cyclic,
self-dependent, dangling, over the limit) and seventeen contracts over a unit of one file and one of two.
`progress_monitor` has an item that may be retried beside one that may not, and one further call
per attempt. `capability_grants` has two Traces with a common item id, two approvals and two sources
that declare one name. `stream` has two attempts, so that the threads of the first meet the
second. `conversation` has two clients, three messages, two revisions and one crash; each draft and
patch passes or fails for a reason of its own. `work_item_attempt` has all shapes, two tool calls or
checks, one abort, one further round, and the default retry limits.

**Fairness.** `GraphRunner!FairSpec`: the Worker and, after its death, the monitor
take steps; requests and crashes are never required. `RepairCycle!FairSpec`: in
addition a user resumes as long as the API accepts it; failures are bounded, since no
code could deliver otherwise. `WorkerLifecycle!FairSpec`: only threads of the API
process make progress and deadlines pass (`_run_in_worker` polls with a deadline);
Workers themselves may hang for ever. `ArtifactRepository!FairSpec`: the Worker goes on with an
item it can go on with, and a stopped run is resumed; faults are bounded and never
required. `ProgressMonitor!FairSpec`: the monitor polls and acts, and a deadline that is not renewed
passes; nothing is assumed of the Worker. `StreamFairSpec` of `ResponsesStream`: threads are scheduled and
the request ceiling is reached; nothing is assumed of the relay, and not that a `close()` on its
stream returns (`responses.py:536` says that it can block). `ConversationRuns!FairSpec`: a
model call and a WorkItem end, and the front end polls. `WorkItemAttempt!FairSpec`: a running
Worker goes on and a provider call ends; nobody has to resume or approve. `PlanGrowth` and
`ToolGateway` have safety properties only.

## 4. Proofs

All theorems hold for every value of the constants that satisfies the named
assumptions, with no bound on items, writers, crashes or resumes.

* `RecoveryProofs`, of `RetryLedger` (assumes `LimitAssumption`, `KindAssumption`,
  `PartyAssumption`).
  The budgets are not inductive: a decision is taken on one ledger and appended to a
  longer one. The invariant counts, for each budget, the records in the ledger plus
  the charging decisions in flight, and bounds those in flight by the number of
  writers; a decision is only granted below the limit, hence the overrun
  `Cardinality(Procs) - 1`. `CircuitBreakerHolds` has the same shape.
* `GraphRunnerProofs` (assumes `PlanAssumption` and the policy's, `InputsAreMerged` also
  `WaveAssumption`). `DoneClosed` needs
  `Inv == TypeOK /\ DoneClosed /\ BatchReady /\ ViewsProven /\ Undelivered`: the batch
  being collected has its dependencies completed, every durable view holds only items that
  really completed, and an undelivered Trace is not marked completed. `ImplementsDag`
  shows that each step is a step of `DagExecution` or a stutter. No theorem restricts where
  the bootstrap items stand: that the shortcut completes one before what it waits for is
  part of the statements (`Closed`, `Upstream`, `DagExecution!Complete`). Four theorems add to
  `Inv`:
  * `InputsAreMerged` (`BatchInputs`) adds `Baseline`: members of a batch do not feed each
    other and only they are at work, so no commit made meanwhile makes stale what
    the batch reads; that it was merged at the start is `Merged` and the wave barrier.
  * `DeliveryIsMerged` (`CompletedIntegrated`): only `GraphCompletes` completes a Trace, and
    a completed Trace is not touched again.
  * `BudgetsHold` (`RetryBudgetKept`): every decision is taken on the ledger it is
    appended to, and a record adds at most one to each counter.
  * `NothingReplayed` (`NoReplay`) adds two facts. `Known`: a Worker that has loaded the
    Trace knows every completion of the log, or its revocation. `Recovered`: monitor
    decisions wait only for a Trace that no one runs, and what they invalidate is revoked.
    The load is the hard step: either the view it chooses adds nothing to what the log
    proves, and being the richest is the log's view (`ChosenIsRebuilt`), or what it leaves
    out is in `Outvoted`; what pruning takes away is downstream of what was revoked.
* `RecoveryProofs`, of `RepairCycle` (assumes `SizeAssumption`).
  `RepairInv == TypeOK /\ ViewsBounded /\ RunTracksLog /\ RunInPlan /\ MilestonesDone /\ ClosedByRepair`: no
  view of the delivery DAG is ahead of the event log, a running delivery DAG is level
  with it, the running plan is the one on disk, and a Trace that a repair plan closed
  still has a delivery checkpoint that says what is left. `VerdictSetsDelivery` needs
  `DeliveryInv` in addition: the delivery states a running plan can be in, and those it
  can be in once it goes through the milestones; the edges of the table enter through
  `DeliveryEdges` and `MilestoneEdges`.
* `WorkerLifecycleProofs` (assumes `LifecycleAssumption`). Mutual exclusion is not
  inductive: `Inv == TypeOK /\ Supervised /\ Watched /\ Claims`. `Supervised`: unless
  submits overlapped, only the Worker of the current Future is supervised and at most one
  request is past the check, with that Future done. `Watched`: a live process is supervised
  or was left behind by an API process. `OneOwnWorker` follows from the two; the lease plays
  no part in it. `Claims`: unless claims met, one Worker at a time is inside `claim_worker`,
  the file it created is its own, and what it is about to unlink is no starter's; hence
  `OneStarter`. `ExclusionHolds` is their conjunction. `CancelIsFinal` adds `Cancels`: while
  nothing of an earlier API process or an overlapping submit is left, `cancel` has a handle
  of the one live Worker, a Worker that still has to look at the control file finds the
  request in it, and after the stop no Worker is past that look.
* `ArtifactRepositoryProofs` (assumes `ArtifactAssumption`; no use is made of the bounds on
  faults). `CompletedBacked` speaks of files that other items write, so
  `IInv == TypeOK /\ Closed /\ Working /\ Stages /\ Distinct /\ GateAt /\ CurrentBacked /\
  CompletedBacked` adds: completed items are closed under dependencies; an item at work is
  not completed and its dependencies are, hence no write touches what a completed item
  was made of; candidates differ in their sources, hence at most one is of the present texts
  even when a rerun brings an old text back; and at each of its steps the gate has
  written what comes before. `FilesAreBacked` follows; `RevisionsAreKept`, an action property,
  follows from `GateAt`: the gate writes a revision only for a candidate that is not current.
* `ToolGatewayProofs` (assumes `GatewayAssumption`).
  `Inv == TypeOK /\ IsFiniteSet(approved) /\ LedgersSorted /\ GrantsApproved /\ LiveBacked /\
  OfferedWasApproved`. A tool is offered from a Worker's memory, which comes of two ledgers
  and the event log, so `GrantsApproved` says of all four places that what is there repeats an
  approval word for word; `LiveBacked`: an approval that was not revoked has an active grant
  in a ledger, whatever later grants drop from it. `ToolsAreApproved` follows from the first,
  the action properties `ApprovalsReachWorkers` and `WaitsOnce` from the second. That `approved`
  is finite gives a new grant an id of its own.
* `WorkItemAttemptProofs` (assumes `AttemptAssumption` and the policy's).
  `CompletedProven` speaks of recorded results; the
  invariant speaks of results at the decision too (`ProvenVerdict`, `GrantableVerdict`), since
  the retry policy may turn a failure into a completion: a missing summary the control
  plane writes itself. Its cases are the completing paths: gate, recovery, the control-plane
  integration, the test protocol and that summary. `SummaryMissing` says that this happens behind the gate on the
  writes of a repair, `CountedIsFresh` that a write this gate counts was made in this round,
  `HasAgent` which shapes can answer at all.
* `ProgressMonitorProofs` (no assumption on the constants is used). `ClosedAfterStop`
  needs `StoppedIsDead`; `StallOfThisAttempt`, an action
  property of the poll, needs `SurvivorCurrent`: a window that the next poll would keep was opened
  in the attempt that the snapshot shows, because each way to begin an attempt changes
  what the poll compares.
* `ConversationRunsProofs` (assumes `ConversationAssumption`; the drafts and patches the
  Planner may answer with are arbitrary, since `validate` and `LegalPatch` check them).
  The values come first. `DraftSound`: an accepted draft is a plan whose dependencies are
  known and acyclic and that has a step for every system predecessor. `PatchSound`: a legal
  patch takes a sound plan to a sound one: a step keeps its agent and its dependencies, only what
  nothing else waits for is removed, and an added item waits only for kept and earlier added
  ones, so the patched plan is acyclic without being checked again. `PatchKeeps`: an item is downstream of what the patch touches exactly if it or
  something it waits for differs from the base plan; `DownstreamLeast` (the closure is the
  least set that contains the seeds and what waits for its members) stands for an induction, and
  so do the minimal elements that `Acyclic` gives.

  Then the requests: plans are read in one step and written in another, while other clients
  patch and resume the same Trace. `Inv == Shape /\ Unstarted /\ Drafting /\ FilesSound /\
  RequestSound /\ KeepsUnaffected`: what a request has read or made is sound by the rules of
  its Trace (`RequestSound`), these rules change only while one request alone knows of
  the Trace and it has no plan (`Unstarted`, `Drafting`), and the delivery id names a plan of
  the history (`FilesSound`). `PlansStaySound` and `PatchInvalidatesExactly` follow.

  At the end, of `ResponsesStream` (assumes `StreamAssumption`), `NoEventLost`. `CallSound`, per attempt: while the caller takes events,
  what was sent is what was handled and what is in flight, at most one event in the
  reader's hand and one in the queue, hence counting modulo 3 loses nothing; and the
  end marker enters the queue after the last event.

Only model-checked: the liveness properties (`Terminates`, `EventuallyDelivered`, `Settles`,
`Publishes`, `HungItemStopped`, `LateStreamClosed`, `CallEnds`, `RequestEnds`, `EndAnswered`,
`WorkItemEnds`), which are beyond the prover, as is all under fairness; and `GrowthClosed`,
`CompiledBarrier` and `SoundDesignAccepted` of `PlanGrowth`, which are about what recursive
functions over plans compute (the waves of a plan by longest paths, `Prune`, the acyclicity of a
design, filtered sequences of items): they need induction over data, whose
theorems the installed provers cannot instantiate.

## 5. What the checks showed

Thirteen further configurations are counterexamples and not part of the suite: each checks
one formula that a comment or document of the code states, and TLC refutes it.

| Configuration (module) | Formula | What the code does |
|---|---|---|
| `graph_forced` (`MCGraphRunner`) | `ForcedRerunHonoured` | `state.py:214-216` says that only a newly completed owner discharges a forced rerun; the order is in `delivery-checkpoint.json` alone, and after a crash `_load_delivery_resume` (`runs.py:2148`) prefers the event log, in which the old completion is the last word |
| `graph_bootstrap` (`MCGraphRunner`) | `WholeUpstreamCompleted` | the scheduler is to run an item once its dependencies are satisfied; a prepared environment completes the bootstrap item before what it waits for (`runner.py:693`), and code that depends on it alone (`templates.py:681`) runs before the architecture. `BatchInputs` excepts what only a bootstrap item waits for |
| `repair_completed` (`RepairCycle`) | `CompletedMeansDelivered` | `docs/EVOLUTION.md:539-540` says that only the original DAG leads to completed; a Worker resumed inside a repair plan ends with that plan's verdict (`runner.py:961`) |
| `worker_orphan` (`WorkerLifecycle`) | `OneWorker` | `runs.py:1522-1523` calls the lease owner the sole writer; the lease is released before the run (`runs.py:1473`), and after an API restart a resume starts a second Worker |
| `artifact_rerun` (`MCArtifactRepository`) | `RerunOnce` | `runs.py:1131` says "one safe rerun"; the failure event is never discharged, and a later pause and resume order the rerun again (`runs.py:1139`) |
| `artifact_blueprint` (`MCArtifactRepository`) | `BlueprintPlanned` | the completion gate rejects an unplanned blueprint (`runner.py:218`), the next attempt recovers it with a weaker validator (`runner.py:3820`) |
| `plan_resume` (`MCPlanGrowth`) | `ExpansionResumable` | `runner.py:1394-1399` promises the same WorkItems to a resumed Worker; after a crash between `record_plan` and `record_plan_baseline`, `validate_plan_baseline` (`trace.py:371`) refuses every resume |
| `plan_review` (`MCPlanGrowth`) | `CompletedRanWhole` | `docs/EVOLUTION.md:539-540` again; `is_complete` (`state.py:225`) compares the number of results with that of items, and the delivery tail replaces an environment item whose result stays (`runner.py:1137`): the run counts as complete with the review outstanding. The artifact check that follows (`runner.py:953`) catches it unless a `review` artifact exists from an earlier delivery |
| `grant_revoked` (`MCToolGateway`) | `RevokedNotReplayed` | `docs/EVOLUTION.md:84` says that a recovering Worker replays only grants still in force; the next grant of the Trace drops the revoked records from the ledger (`grants.py:109-111`), and the `capability_approved` event of the revoked one is replayed |
| `stream_terminal` (`ResponsesStream`) | `TextHasTerminal` | `docs/EVOLUTION.md:659-660` demands the terminal event; a stream that breaks off after text is returned as complete |
| `patch_stale` (`MCConversationRuns`) | `PatchTakesEffect` | `docs/api/planner-api.md:95-97` says that results a patch affects are cleared and run again; `_load_delivery_resume` (`runs.py:699-708`) prefers the richer event log to the filtered checkpoint |
| `conversation_told` (`MCConversationRuns`) | `EndIsNews` | `conversations.py:357` says that the terminal state of a Trace is projected to an assistant message; `sync_terminal_turns` skips a Trace that any assistant message names (370), also one that answered a question while the run was active (251-263) or told an end before a resume or a patch. `EndAnswered` is what holds |
| `attempt_evidence` (`MCWorkItemAttempt`) | `EvidenceOfThisRound` | `runs.py:2110-2114` says of a rerun "nor may tests/review reuse old evidence"; the results are dropped from the state, but evidence is selected by item id over the whole Trace (`runner.py:3374-3385`), and the test that is run again completes on the checks of the round before |

Further observations of the same kind:

* *Hard limits* (`retry.py:487-488`). Two writers may both use the last free retry;
  `BudgetsKept` is the bound that holds.
* *Unreadable checkpoint* (`runs.py:778`). A resume that drops an invalid integrator
  keeps its diagnostic without a forced marker, and `RunState.from_checkpoint` refuses the
  checkpoint that follows: `ckpt # NoCheckpoint => ckpt.ok`. The event log usually replaces
  it, but the bootstrap shortcut writes no event, so what depends on it is pruned from the
  rebuilt view.
* *A richer view that is older* (`runs.py:699-708`, against the comment at 690-695). The views are
  compared by size. A delivery checkpoint that still counts a completion which the log has
  withdrawn, or any checkpoint that counts a bootstrap item, can be larger than the log's
  view without containing it, and a completion that only the log holds is executed again. The
  attempt to prove `NoReplay` showed this; its history variable `revoked` takes these items
  in (`Outvoted`), and the theorem is about all others. `retry_recovery_applied` is recorded before
  the state it invalidates (`runs.py:632`): after a crash in between the items may or may not run
  again, and they are in `revoked` too.
* *A forced rerun* is discharged by any completed answer (`state.py:218`): the gates look for a
  valid output, and the one that the rerun was to replace still is one, unless the inputs have
  changed.
* *A finished repair that counts as pending* (`runs.py:1378`). From the second
  `repair_cycle_started` until its plan is recorded, `RepairPending` is true of the first
  repair plan, which has completed.
* *Charged cancellation* (`runs.py:190-191`). A stall request overwrites the cancellation in
  the control file, and a booting Worker unlinks it; the run then ends as failed.
* *Stranded Trace* (`runs.py:2707`). `resume_run` marks the Trace running before `submit`
  raises; no later resume is accepted until the API process restarts. `Settles` therefore
  speaks of a run that was not resumed.
* *A completed sibling that is invalidated* (`runs.py:349`, against the comment at 566-567).
  Without a stalled item `_finalize_external_run` takes the first member of the batch as
  root, also when it has completed.
* *A completed Trace that fails* (`runs.py:1956`, against 311-314). At the timeout boundary the
  monitor looks, the Worker completes, the monitor writes. There the progress is closed
  before the Worker is stopped, so a Worker may also open the closed snapshot again, which
  is why `ClosedAfterStop` speaks of Workers that were stopped first.
* *The loser of the lease* (`runs.py:1521`, against 2029-2030). Its `SystemExit(75)` is caught by
  its own handler, the exit code is 0, and its monitor begins to finalize the owner's Trace.
* *Claims that meet* (`progress.py:683`). Without the exception for `contended`, `OneStarter` fails:
  a Worker that finds an empty lease file takes it for stale and unlinks it while its
  owner is between creating and writing it. *Submits that meet* (`runs.py:1677`): without the
  exception for `overlap`, `OneOwnWorker` fails, since the check of the Future and its
  registration are two critical sections.
* *Delivery state* (`delivery.py:27`). No edge leads to `waiting_for_approval`, and none leaves
  `delivery_ready` (against the comment at `runner.py:4193-4195`); a Worker that dies between two
  milestones leaves `runnable` or `behavior_verified`, from which a completed run does not
  reach `delivery_ready`. `DeliveryFollows` names these states.
* *Four traps* (`ArtifactRepository!Trapped`). A run cannot publish, however often it is
  resumed, after a crash inside the write of `candidate.json` or of `current.json` (both are
  written in place, and `candidate_for_work_item` loads every candidate of the project, other
  Traces' too, before it selects); after the recovery of an unplanned blueprint; and, in
  the recursive scheme, after a crash between a staged design and its validation receipt,
  since `_recover_durable_work_item` does not ask for the receipt that
  `validate_design_inputs` calls "the recovery boundary". `Publishes` excepts exactly these.
* *Plans that grow.* The `delivery_incremental` template has no contract item, hence no code items
  are ever compiled for it (`templates.py:1080` says otherwise).
* *Grants.* A running Worker learns of no revocation. Two approved sources that declare one
  tool name make `tools_for` raise (`catalog.py:105-150`).
* *Streams.* The request ceiling and the deadline check raise without closing the stream
  (`responses.py:511-516`).
* *Planner and conversation.* A blank acceptance criterion raises `ValueError` outside the loop's
  handlers and leaves the Trace in planning. `start_patch_plan` does not mark the Trace
  running, so a second patch is admitted beside the first; a patched plan's id is the base
  id and a number of operations, which collides. The system order of a draft with several
  code items holds for one of them only, and `SystemOrderKept` says no more than that.
* *Attempts.* `runner.py:3393-3395` puts an AgentResult where `RunState.record` (`state.py:208`)
  expects a NodeResult: the Worker crashes, and the resumed one completes through the
  control-plane test. A
  repair whose write survived an aborted Worker is rejected as without change when resumed.
  Bootstrap, code integration, Markdown architecture and other Agents can wait for a local tool
  as if it could be granted, which `WaitsForGrantable` excepts by name.

## 6. Not modelled, and the plan

Not modelled: the requirement matrix; git worktrees, branches and conflicts; overlapping
read-modify-writes of `worker-status.json` and of the grant ledgers; the phase files and
receipts of the tasks pipeline; import bindings of a contract; runtime and ports; the
content of memory, sandbox and API. Read and of interest for a module of its own: after a
crash between `merge --no-commit` and the commit, or a conflict, the integration worktree is
never reset and each later merge fails (`git_repository.py:320-373`); `write_staged_file` returns
"unchanged" for a file that a crash left written and uncommitted (`git_service.py:196-198`).

Out of reach: LLM output, prompts, the content of documents and code, git and Docker
themselves. Their results enter the model as choices.

Next, in this order:

1. The lemmas of `PlanGrowth` that need no induction: an expansion adds items below its anchor and
   keeps the dependencies of what is there.
2. The git staging protocol as a module that refines `GraphRunner`'s commits and merges.
3. Lost updates of the progress file and the ledgers of grants.
