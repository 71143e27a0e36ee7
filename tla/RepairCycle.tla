---------------------------- MODULE RepairCycle ----------------------------
(***************************************************************************)
(* The planner-made repair of one Trace: RunCoordinator._run_with_repairs, *)
(* the two plan files and two checkpoints it keeps apart, and the resume   *)
(* that has to find its way back to the original delivery DAG              *)
(* (app/application/runs.py, app/orchestration/trace.py).                  *)
(*                                                                         *)
(* A plan is named by its path: <<>> is the delivery DAG, <<1>> its plan   *)
(* "-repair-1", <<1, 2>> "-repair-1-repair-2".  The DAG itself is reduced  *)
(* to the number of its completed items; GraphRunner has its structure and *)
(* the wave repairs that need no planner.  Beside the Trace stands the      *)
(* delivery state of the project (app/orchestration/delivery.py), which    *)
(* every run moves through its own state machine.                          *)
(***************************************************************************)
EXTENDS Naturals, Sequences

CONSTANTS
    DeliverySize,   \* WorkItems of the delivery DAG
    RepairSize,     \* WorkItems of a repair DAG
    MaxFailures,    \* bound on runs and plannings that fail
    MaxCrashes      \* bound on Workers that die

ASSUME SizeAssumption ==
    /\ DeliverySize \in Nat \ {0} /\ RepairSize \in Nat \ {0}
    /\ MaxFailures \in Nat /\ MaxCrashes \in Nat

Base == <<>>

MaxRepairs == 2

Size(p) == IF p = Base THEN DeliverySize ELSE RepairSize

----------------------------------------------------------------------------
\* DeliveryState and its _TRANSITIONS; nothing leads to waiting_for_approval.
Transitions ==
    [planned |-> {"implementing", "blocked", "failed"},
     implementing |-> {"built", "needs_rework", "blocked", "failed"},
     built |-> {"runnable", "needs_rework", "blocked", "failed"},
     runnable |-> {"behavior_verified", "needs_rework", "blocked", "failed"},
     behavior_verified |-> {"delivery_ready", "needs_rework", "blocked"},
     needs_rework |-> {"implementing", "built", "blocked", "failed"},
     delivery_ready |-> {},
     blocked |-> {"implementing", "failed"},
     failed |-> {"implementing"}]

DeliveryStates == DOMAIN Transitions

can_transition(current, target) == target = current \/ target \in Transitions[current]

\* Mutant: a run that is started again does not move the project back to work.
set_delivery_state_Started(current, target) ==
    IF current \in {"failed", "blocked"} \/ ~can_transition(current, target)
    THEN current ELSE target

\* _set_delivery_state with one target: an illegal transition is swallowed.
set_delivery_state(current, target) ==
    IF can_transition(current, target) THEN target ELSE current

\* The milestones a completed run goes through, one file write each.
Milestone ==
    [built |-> "runnable", runnable |-> "behavior_verified",
     behavior_verified |-> "delivery_ready"]

\* _finish_trace: the targets of this module's verdicts. A run that waits for an
\* approval keeps its state (no edge), a cancelled one maps as a blocked one.
Target ==
    [completed |-> "delivery_ready", blocked |-> "blocked",
     needs_replan |-> "needs_rework", failed |-> "failed"]

----------------------------------------------------------------------------
VARIABLES
    \* durable
    plan,       \* plan.json; delivery-plan.json is always Base
    ckpt,       \* checkpoint.json: a plan and its completed items
    dckpt,      \* delivery-checkpoint.json
    cycle,      \* the last repair_cycle_started, or _completed with its status
    logged,     \* delivery items with a work_item_completed event
    trace,      \* Trace status
    delivery,   \* delivery/state.json of the project
    \* the Worker
    pc, cur, run, progress, attempt,
    \* bounds
    failures, crashes

diskVars == <<plan, ckpt, dckpt, cycle, logged, trace, delivery>>
workerVars == <<cur, run, progress, attempt>>
boundVars == <<failures, crashes>>
vars == <<diskVars, pc, workerVars, boundVars>>

At(p, n) == [plan |-> p, n |-> n]

\* delivery-checkpoint.json does not exist yet; no plan has this path.
NoFile == At(<<0>>, 0)

\* Earlier Traces may have left the project in any delivery state.
Init ==
    /\ plan = Base /\ ckpt = At(Base, 0) /\ dckpt = NoFile
    /\ cycle = "none" /\ logged = 0 /\ trace = "running"
    /\ delivery \in DeliveryStates
    /\ pc = "boot" /\ cur = Base /\ run = Base /\ progress = 0 /\ attempt = 0
    /\ failures = 0 /\ crashes = 0

----------------------------------------------------------------------------
\* Reading the files back.

\* Mutant: only the event log says whether a repair is pending.
RepairPending_ByEvents == cycle # "completed"

\* _repair_execution_pending: a complete checkpoint of the latest repair plan
\* outweighs the events.
RepairPending ==
    /\ ~(ckpt.plan = plan /\ ckpt.n = Size(plan))
    /\ cycle # "completed"

\* Mutant: the checkpoints alone say how far the delivery DAG is.
Views_NoLog == {0} \cup {c.n : c \in {d \in {ckpt, dckpt} : d.plan = Base}}

\* _load_delivery_resume: an unfinished repair plan is resumed itself, else the
\* delivery DAG from the richest of its three views.
Views == {logged} \cup {c.n : c \in {d \in {ckpt, dckpt} : d.plan = Base}}

Loaded ==
    IF plan # Base /\ RepairPending
    THEN At(plan, IF ckpt.plan = plan THEN ckpt.n ELSE 0)
    ELSE At(Base, CHOOSE n \in Views : \A m \in Views : m <= n)

\* Mutant: the live checkpoint decides, whichever plan it belongs to.
DeliveryPending_LiveCheckpoint == ckpt.plan = Base /\ ckpt.n # DeliverySize

\* _delivery_resume_pending: does a completed Trace have delivery work left?
DeliveryPending ==
    IF plan = Base THEN ckpt.plan = Base /\ ckpt.n # DeliverySize
                   ELSE dckpt.plan = Base => dckpt.n # DeliverySize

Resumable ==
    \/ trace \in {"running", "failed", "blocked", "needs_replan"}
    \/ trace = "completed" /\ DeliveryPending

----------------------------------------------------------------------------
\* RunService.resume_run and submit: the chosen plan and state become current.
ResumeRun ==
    /\ pc = "off" /\ Resumable
    /\ plan' = Loaded.plan /\ ckpt' = Loaded /\ trace' = "running"
    /\ pc' = "boot"
    /\ UNCHANGED <<dckpt, cycle, logged, delivery, workerVars, boundVars>>

\* _worker_entry loads again; _run_with_repairs runs what it got as its plan.
WorkerEntry ==
    /\ pc = "boot"
    /\ cur' = Loaded.plan /\ run' = Loaded.plan /\ progress' = Loaded.n
    /\ attempt' = 0
    /\ delivery' = set_delivery_state(delivery, "implementing")
    /\ pc' = "running"
    /\ UNCHANGED <<plan, ckpt, dckpt, cycle, logged, trace, boundVars>>

\* runner.run: an item completes, with its event and checkpoint.
ItemCompletes ==
    /\ pc = "running" /\ progress < Size(run)
    /\ progress' = progress + 1
    /\ ckpt' = At(run, progress + 1)
    /\ logged' = IF run = Base THEN progress + 1 ELSE logged
    /\ UNCHANGED <<plan, dckpt, cycle, trace, delivery, pc, cur, run, attempt, boundVars>>

\* _finish_trace with COMPLETED; a repair plan is not held to the delivery gates.
\* The milestones start over at "built", which a project that was left beyond
\* it cannot go back to: then the loop breaks and the state stays.
RunCompletes ==
    /\ pc = "running" /\ progress = Size(run)
    /\ IF delivery # "delivery_ready" /\ can_transition(delivery, "built")
       THEN delivery' = "built" /\ pc' = "milestones" /\ UNCHANGED trace
       ELSE trace' = "completed" /\ pc' = "ended" /\ UNCHANGED delivery
    /\ UNCHANGED <<plan, ckpt, dckpt, cycle, logged, workerVars, boundVars>>

ReachMilestone ==
    /\ pc = "milestones" /\ delivery \in DOMAIN Milestone
    /\ delivery' = Milestone[delivery]
    /\ UNCHANGED <<plan, ckpt, dckpt, cycle, logged, trace, pc, workerVars, boundVars>>

FinishTrace ==
    /\ pc = "milestones" /\ delivery \notin DOMAIN Milestone
    /\ trace' = "completed" /\ pc' = "ended"
    /\ UNCHANGED <<plan, ckpt, dckpt, cycle, logged, delivery, workerVars, boundVars>>

\* Any other verdict of run: a failed item, a gate, a request for a replan.
RunStops ==
    /\ pc = "running" /\ failures < MaxFailures
    /\ failures' = failures + 1
    /\ trace' \in {"failed", "blocked", "needs_replan"}
    /\ delivery' = set_delivery_state(delivery, Target[trace'])
    /\ pc' = "ended"
    /\ UNCHANGED <<plan, ckpt, dckpt, cycle, logged, workerVars, crashes>>

\* A NEEDS_REPLAN with a retryable failure: the state of the interrupted plan
\* goes to delivery-checkpoint.json before the planner is asked.
BeginRepair ==
    /\ pc = "ended" /\ run = cur /\ trace = "needs_replan" /\ attempt < MaxRepairs
    /\ attempt' = attempt + 1
    /\ dckpt' = At(cur, progress) /\ cycle' = "started"
    /\ pc' = "planning"
    /\ UNCHANGED <<plan, ckpt, logged, trace, delivery, cur, run, progress, boundVars>>

\* Any other result, a failure that is not retryable, or no attempt left.
Exit ==
    /\ pc = "ended" /\ run = cur
    /\ pc' = "off"
    /\ UNCHANGED <<diskVars, workerVars, boundVars>>

\* plan_repair, and the start of runner.run on its plan (record_plan).
PlanRepair ==
    /\ pc = "planning"
    /\ plan' = Append(cur, attempt) /\ run' = Append(cur, attempt)
    /\ progress' = 0
    /\ delivery' = set_delivery_state(delivery, "implementing")
    /\ pc' = "running"
    /\ UNCHANGED <<ckpt, dckpt, cycle, logged, trace, cur, attempt, boundVars>>

\* plan_repair raises (repair_cycle_failed is never read back): the exception
\* fallback of the Worker closes the Trace.
PlannerFails ==
    /\ pc = "planning" /\ failures < MaxFailures
    /\ failures' = failures + 1
    /\ trace' = "failed" /\ pc' = "off"
    /\ UNCHANGED <<plan, ckpt, dckpt, cycle, logged, delivery, workerVars, crashes>>

\* repair_cycle_completed; a repair that did not complete ends the Worker.
RecordCycle ==
    /\ pc = "ended" /\ run # cur
    /\ IF trace = "completed" THEN cycle' = "completed" /\ pc' = "recorded"
                              ELSE cycle' = "failed" /\ pc' = "off"
    /\ UNCHANGED <<plan, ckpt, dckpt, logged, trace, delivery, workerVars, boundVars>>

\* mark_running and _load_delivery_resume; run with a state leaves plan.json.
ResumeDelivery ==
    /\ pc = "recorded"
    /\ trace' = "running"
    /\ cur' = Loaded.plan /\ run' = Loaded.plan /\ progress' = Loaded.n
    /\ delivery' = set_delivery_state(delivery, "implementing")
    /\ pc' = "running"
    /\ UNCHANGED <<plan, ckpt, dckpt, cycle, logged, attempt, boundVars>>

\* The Worker dies; the monitor, if it is still there, fails an open Trace.
Kill ==
    /\ pc # "off" /\ crashes < MaxCrashes
    /\ crashes' = crashes + 1
    /\ pc' = "off"
    /\ \/ UNCHANGED trace
       \/ trace \in {"running", "needs_replan"} /\ trace' = "failed"
    /\ UNCHANGED <<plan, ckpt, dckpt, cycle, logged, delivery, workerVars, failures>>

Worker ==
    \/ WorkerEntry \/ ItemCompletes \/ RunStops
    \/ RunCompletes \/ ReachMilestone \/ FinishTrace
    \/ BeginRepair \/ Exit \/ PlanRepair \/ PlannerFails
    \/ RecordCycle \/ ResumeDelivery

Next == ResumeRun \/ Worker \/ Kill

Spec == Init /\ [][Next]_vars

\* A Worker keeps running, and the user resumes the Trace as often as the API
\* accepts it.
FairSpec == Spec /\ WF_vars(Worker) /\ WF_vars(ResumeRun)

----------------------------------------------------------------------------
Statuses == {"running", "completed", "blocked", "needs_replan", "failed"}

Checkpoints == [plan : Seq(Nat), n : Nat]

\* Type invariant.
TypeOK ==
    /\ plan \in Seq(Nat) /\ ckpt \in Checkpoints /\ dckpt \in Checkpoints
    /\ cycle \in {"none", "started", "completed", "failed"}
    /\ logged \in 0..DeliverySize
    /\ trace \in Statuses /\ delivery \in DeliveryStates
    /\ pc \in {"off", "boot", "running", "milestones", "ended", "planning", "recorded"}
    /\ cur \in Seq(Nat) /\ run \in Seq(Nat)
    /\ progress \in Nat /\ attempt \in 0..MaxRepairs
    /\ failures \in Nat /\ crashes \in Nat

\* A Trace that a repair DAG closed as completed before the delivery DAG was
\* finished is never stranded: resume_run still accepts it.
UndeliveredResumable ==
    pc = "off" /\ logged < DeliverySize => Resumable

\* A run of the delivery DAG never starts behind what the event log proves,
\* whichever plan owned the checkpoints when the Worker died.
ProgressKept == pc = "running" /\ run = Base => progress = logged

\* When a run ends the project's delivery state is the one its verdict maps to
\* (runner.py _finish_trace), from whatever state it began in and through any
\* crash between two milestones, but for the three states the machine cannot
\* leave that way: delivery_ready, which has no edge at all, and runnable and
\* behavior_verified, which a Worker that died between two milestones left.
DeliveryFollows ==
    pc = "ended" =>
        delivery \in {Target[trace], "runnable", "behavior_verified", "delivery_ready"}

\* If failures and crashes stop and the user keeps resuming, the original DAG
\* (tests and review included) is delivered: no repair plan captures the Trace.
EventuallyDelivered == <>(trace = "completed" /\ logged = DeliverySize)

\* "Only after the original DAG passed may the Trace enter completed."  Refuted
\* (repair_completed.cfg): a Worker that was resumed inside a repair plan ends with it.
CompletedMeansDelivered ==
    pc = "off" /\ trace = "completed" => logged = DeliverySize
=============================================================================
