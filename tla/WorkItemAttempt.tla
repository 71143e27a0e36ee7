--------------------------- MODULE WorkItemAttempt ---------------------------
(***************************************************************************)
(* One WorkItem from GraphRunner._run_item_with_retries to its NodeResult  *)
(* (app/orchestration/runner.py): the preflights of _run_item, the choice  *)
(* of prompt and tools, the Agent's tool calls and its answer, the         *)
(* conversions of a local tool misreported as a missing capability, the    *)
(* delivery gates of each Agent, the control-plane test protocol, and the  *)
(* bounded retries.  A Worker may die at any point and the item may run    *)
(* again: after a resume, because a repair orders it or one of its         *)
(* producers to, or because a later repair plan reuses its id.             *)
(* Durable facts (files, memory, evidence, ledger) survive; the rest is    *)
(* local to one call.  Quality gates have no Agent: see ArtifactRepository. *)
(***************************************************************************)
EXTENDS RetryPolicy, Integers

CONSTANTS
    Shapes,       \* the WorkItem shapes explored, a subset of AllShapes
    wi,           \* the WorkItem
    Checks,       \* sandbox check ids; "unit" is one of them
    MaxEvents,    \* bound on tool calls and sandbox runs of the item
    MaxAborts,    \* bound on Workers that die while the item runs
    MaxRounds     \* bound on the times the item is started again

CodeShapes == {"code_partitioned", "code_exclusive", "code_repair"}

\* Code items that write the workspace itself.
Workspace == {"code_exclusive", "code_repair"}

\* Architecture items that stage a structured design or a Markdown package.
Designs == {"architecture", "markdown_package"}

\* Architecture items that make the candidate out of the staged designs.
Integrations == {"architecture_integration", "markdown_integration"}

ArchitectureShapes == Designs \cup Integrations

\* Shapes the control plane computes without any Agent.
Deterministic == {"tasks_projected", "contract_compiled"}

\* Shapes that are refused before anything else happens.
Refused == {"task_misplaced", "unregistered"}

AllShapes ==
    CodeShapes \cup ArchitectureShapes \cup Deterministic \cup Refused
        \cup {"code_integration", "contract", "test", "review", "bootstrap", "other"}

ASSUME AttemptAssumption ==
    /\ Shapes \subseteq AllShapes /\ wi \in Items /\ "unit" \in Checks
    /\ {MaxEvents, MaxAborts, MaxRounds} \subseteq Nat

SandboxStatus == {"passed", "failed", "timed_out", "setup_failed"}

VARIABLES
    shape,        \* agent_id, execution_mode and failure_package of the item
    phase,        \* where the call is; "down" after the Worker died
    tools,        \* tool_allowlist: "all" or "write_only"
    brief,        \* which prompt the Agent was given
    marker,       \* workspace_write_baseline
    moved,        \* the declared inputs changed since their digests were taken
    answer,       \* AgentResult: "completed", or the capability it asks for
    result,       \* NodeResult
    sequence,     \* sequence number of the item's last tool event in memory
    writes,       \* sequence numbers of its successful write_workspace_file calls
    saved,        \* artifacts of the item that exist; "design" and "candidate" are
                  \* the ones that verify against the present inputs and contract
    staged,       \* its ChangeSet: "none", "partial" (an owned file is missing),
                  \* "invalid" (a file fails the content checks) or "complete"
    evidence,     \* latest_by_check: the last SandboxEvidence of each check,
                  \* the checks in the order they were first run
    failed_before,\* a control memory event names a failed code delivery
    granted,      \* an approval covers the external capability
    forced,       \* the item is in forced_rerun_work_item_ids
    ledger,       \* retry-ledger.json
    aborts, rounds,
    acted         \* history: the round wrote a workspace file or ran a check

localVars == <<tools, brief, marker, moved, answer>>
diskVars == <<sequence, writes, saved, staged, evidence>>
roundVars == <<aborts, rounds>>
vars == <<shape, phase, localVars, result, diskVars, failed_before, granted, forced,
          ledger, roundVars, acted>>

NoResult == [status |-> "none", kind |-> "none", retryable |-> TRUE]

Replan(k) == [status |-> "needs_replan", kind |-> k, retryable |-> TRUE]

\* A signal built with retryable=False.
Refusal(k) == [Replan(k) EXCEPT !.retryable = FALSE]

Failed == [NoResult EXCEPT !.status = "failed"]

Completed == [NoResult EXCEPT !.status = "completed"]

Waiting == [NoResult EXCEPT !.status = "needs_capability"]

Init ==
    /\ shape \in Shapes
    /\ phase = "start"
    /\ tools = "all" /\ brief = "none" /\ marker = 0 /\ moved = FALSE
    /\ answer = "none" /\ result = NoResult
    /\ sequence = 0 /\ writes = {} /\ saved = {} /\ staged = "none" /\ evidence = <<>>
    /\ failed_before = FALSE /\ granted = FALSE /\ forced = FALSE
    /\ ledger = <<>> /\ aborts = 0 /\ rounds = 0 /\ acted = FALSE

----------------------------------------------------------------------------
\* What an attempt reads of the past.

attempt == budget_count_for_work_item(ledger, wi) + 1

\* _has_prior_worker_abort: any watchdog record of the Trace.
has_prior_worker_abort == \E n \in DOMAIN ledger : ledger[n].kind \in ResumeKinds

prior == failed_before \/ has_prior_worker_abort

\* _tool_allowlist_for_attempt, where it narrows an attempt of a code or a
\* contract item.
tool_allowlist_for_attempt ==
    IF \/ shape = "code_partitioned" /\ (attempt > 2 \/ prior)
       \/ shape = "contract" /\ attempt > 1
    THEN "write_only" ELSE "all"

\* Mutant: the delivery prompt is chosen by the attempt of this Worker alone.
PromptFor_AttemptOnly ==
    IF shape = "code_partitioned" /\ attempt > 1 THEN "delivery_retry"
    ELSE IF shape = "code_repair" THEN "repair"
    ELSE IF attempt > 1 THEN "task_retry" ELSE "task"

\* The prompt: a repair and a repeated partitioned delivery replace the task.
PromptFor ==
    IF shape = "code_partitioned" /\ (attempt > 1 \/ prior) THEN "delivery_retry"
    ELSE IF shape = "code_repair" THEN "repair"
    ELSE IF attempt > 1 THEN "task_retry" ELSE "task"

\* Mutant: events of earlier attempts and plans count.
workspace_writes_All == Cardinality(writes)

\* _workspace_writes after the baseline of the running attempt.
workspace_writes == Cardinality({n \in writes : n > marker})

\* record_sandbox_evidence: a later run of a check replaces the earlier one.
Recorded(log, e) ==
    IF \E n \in DOMAIN log : log[n].check = e.check
    THEN [n \in DOMAIN log |-> IF log[n].check = e.check THEN e ELSE log[n]]
    ELSE Append(log, e)

Failures == {n \in DOMAIN evidence : evidence[n].status # "passed"}

\* _is_empty_test_evidence on the latest result of some check.
EmptySuite == \E n \in DOMAIN evidence : evidence[n].empty

\* _recover_durable_work_item: an output that verifies, unless the item must
\* run again.
Recoverable ==
    /\ ~forced
    /\ \/ shape = "code_partitioned" /\ staged = "complete"
       \/ shape \in Designs /\ "design" \in saved
       \/ shape \in Integrations /\ "candidate" \in saved

----------------------------------------------------------------------------
\* Before the Agent exists.

Ends(r) == phase' = "decide" /\ result' = r

\* Only architecture items have required_tools, which their delivery contract
\* derives; the preflight of the others is empty.
Refuse ==
    /\ phase = "start"
    /\ \/ shape \in Refused /\ Ends(Failed)
       \/ shape = "test" /\ Ends(Replan("runtime_preflight"))
       \/ shape \in ArchitectureShapes /\ Ends(Refusal("planner_validation"))
       \/ /\ shape \in {"contract", "contract_compiled"}
          /\ Ends(Refusal("planner_validation"))
       \/ /\ shape \in ArchitectureShapes /\ ~Recoverable
          /\ Ends(Replan("tool_contract_mismatch"))
    /\ UNCHANGED <<shape, localVars, diskVars, failed_before, granted, forced, ledger,
                   roundVars, acted>>

\* _run_deterministic_tasks, and the contract compiled from the designs.
Project ==
    /\ phase = "start" /\ shape \in Deterministic
    /\ \/ Ends(Completed) /\ saved' = saved \cup {shape}
       \/ /\ Ends(IF shape = "tasks_projected" THEN Failed
                  ELSE Replan("architecture_contract_missing"))
          /\ UNCHANGED saved
    /\ UNCHANGED <<shape, localVars, sequence, writes, staged, evidence, failed_before,
                   granted, forced, ledger, roundVars, acted>>

Recover ==
    /\ phase = "start" /\ Recoverable
    /\ Ends(Completed)
    /\ UNCHANGED <<shape, localVars, diskVars, failed_before, granted, forced, ledger,
                   roundVars, acted>>

\* The test item of a Trace with an aborted Worker never reaches the model.
StartAgent ==
    /\ phase = "start" /\ shape \notin Deterministic \cup Refused
    /\ ~Recoverable /\ ~(shape = "test" /\ has_prior_worker_abort)
    /\ phase' = "agent"
    /\ tools' = tool_allowlist_for_attempt
    /\ brief' = PromptFor
    /\ marker' = sequence
    /\ moved' = FALSE /\ answer' = "none"
    /\ UNCHANGED <<shape, result, diskVars, failed_before, granted, forced, ledger,
                   roundVars, acted>>

\* What a sandbox run of a check may record; only "unit" can be empty.
Evidence(c) ==
    {e \in [check : {c}, status : SandboxStatus, empty : BOOLEAN] :
        e.empty => c = "unit" /\ e.status \in {"passed", "failed"}}

\* _complete_test_with_control_plane: the minimal suite is written only when
\* no test source of any language exists, so that "unit" may stay empty.
ControlPlaneRun(log) ==
    \E u \in Evidence("unit") :
        \/ evidence' = Recorded(log, u)
        \/ \E c \in Checks \ {"unit"} : \E e \in Evidence(c) :
              evidence' = Recorded(Recorded(log, u), e)

ControlPlaneTest ==
    /\ phase = "start" /\ shape = "test" /\ has_prior_worker_abort
    /\ ControlPlaneRun(evidence)
    /\ phase' = "answered" /\ answer' = "completed"
    /\ saved' = saved \cup {"tests"} /\ acted' = TRUE
    /\ UNCHANGED <<shape, tools, brief, marker, moved, result, sequence, writes, staged,
                   failed_before, granted, forced, ledger, roundVars>>

----------------------------------------------------------------------------
\* The Agent's tool calls.

\* Memory numbers the tool events; only these shapes have theirs counted.
Logs == /\ phase = "agent" /\ shape \in Workspace /\ sequence < MaxEvents
        /\ sequence' = sequence + 1

\* A read, or a call that fails: only the event remains.
CallsTool ==
    /\ Logs
    /\ UNCHANGED <<shape, phase, localVars, result, writes, saved, staged, evidence,
                   failed_before, granted, forced, ledger, roundVars, acted>>

WritesWorkspace ==
    /\ Logs
    /\ writes' = writes \cup {sequence + 1}
    /\ acted' = TRUE
    /\ UNCHANGED <<shape, phase, localVars, result, saved, staged, evidence,
                   failed_before, granted, forced, ledger, roundVars>>

StagesFile ==
    /\ phase = "agent" /\ shape = "code_partitioned"
    /\ staged' \in {"partial", "invalid", "complete"}
    /\ UNCHANGED <<shape, phase, localVars, result, sequence, writes, saved, evidence,
                   failed_before, granted, forced, ledger, roundVars, acted>>

\* The artifact each shape's own save tool produces; a design or a candidate
\* that is made after an input was replaced does not verify.
SavesArtifact ==
    /\ phase = "agent"
    /\ \E a \in CASE shape \in Workspace -> {"implementation"}
                  [] shape = "contract" -> {"contract"}
                  [] shape \in Designs -> IF moved THEN {} ELSE {"design"}
                  [] shape \in Integrations -> IF moved THEN {} ELSE {"candidate"}
                  [] shape = "review" -> {"review"}
                  [] shape = "bootstrap" -> {"environment"}
                  [] OTHER -> {} :
           a \notin saved /\ saved' = saved \cup {a}
    /\ UNCHANGED <<shape, phase, localVars, result, sequence, writes, staged, evidence,
                   failed_before, granted, forced, ledger, roundVars, acted>>

\* SandboxEvidenceToolSet.run_sandbox_check.
RunsCheck ==
    /\ phase = "agent" /\ shape = "test"
    /\ \E c \in Checks : \E e \in Evidence(c) : evidence' = Recorded(evidence, e)
    /\ acted' = TRUE
    /\ UNCHANGED <<shape, phase, localVars, result, sequence, writes, saved, staged,
                   failed_before, granted, forced, ledger, roundVars>>

\* Outputs that are tied to the digests of their inputs.
OfInputs == {"design", "candidate"}

\* Another process replaces a declared input while the Agent runs: what the item
\* made of it no longer verifies.
InputMoves ==
    /\ phase = "agent" /\ ~moved
    /\ shape \in ArchitectureShapes \cup {"contract"}
    /\ moved' = TRUE
    /\ saved' = saved \ OfInputs
    /\ UNCHANGED <<shape, phase, tools, brief, marker, answer, result, sequence, writes,
                   staged, evidence, failed_before, granted, forced, ledger, roundVars,
                   acted>>

\* "local" asks for the Agent's own delivery tool by name, "external" for anything
\* else: a grantable capability, or a local tool that no conversion looks for.
AgentReturns ==
    /\ phase = "agent"
    /\ phase' = "answered"
    /\ answer' \in {"completed", "local", "external"}
    /\ UNCHANGED <<shape, tools, brief, marker, moved, result, diskVars, failed_before,
                   granted, forced, ledger, roundVars, acted>>

\* _provider_failure_kind.
ProviderKinds ==
    {"provider_transport", "provider_terminal_missing", "provider_policy_rejected"}

\* The verdicts of the exception handler, in the order it tests them.
Raised ==
    {Replan("tool_execution")}
        \cup (IF shape \in Designs THEN {Replan("architecture_schema_validation")} ELSE {})
        \cup {Replan(k) : k \in (ProviderKinds \cap Kinds) \ {"provider_policy_rejected"}}
        \cup {Refusal("provider_policy_rejected")}
        \cup (IF shape = "code_integration" THEN {Replan("code_delivery_incomplete")} ELSE {})
        \cup {Failed}

AgentRaises ==
    /\ phase = "agent"
    /\ \E r \in IF moved THEN {Refusal("planner_validation")} ELSE Raised : Ends(r)
    /\ UNCHANGED <<shape, localVars, diskVars, failed_before, granted, forced, ledger,
                   roundVars, acted>>

----------------------------------------------------------------------------
\* An answered capability request that names a tool the Agent already has.

Answered(a) == phase = "answered" /\ answer = a

Markdown == {"markdown_package", "markdown_integration"}

\* Mutant: only the staged writer is recognised as a local tool.
MisreportKind_StagedOnly ==
    CASE shape = "code_partitioned" -> "code_delivery_incomplete"
      [] shape \in {"contract", "architecture"} \cup Markdown
            -> "architecture_contract_missing"
      [] OTHER -> "none"

\* The kind a misreport is retried under.
MisreportKind ==
    CASE shape \in CodeShapes -> "code_delivery_incomplete"
      [] shape \in {"contract", "architecture"} \cup Markdown
            -> "architecture_contract_missing"
      [] OTHER -> "none"

\* The code and the contract Agent are sent back inside the try block, the
\* architecture Agent only after its inputs were found unchanged.
MisreportRetried ==
    /\ Answered("local") /\ MisreportKind # "none"
    /\ ~(moved /\ shape \in ArchitectureShapes)
    /\ Ends(Replan(MisreportKind))
    /\ UNCHANGED <<shape, localVars, diskVars, failed_before, granted, forced, ledger,
                   roundVars, acted>>

\* The test Agent's local tools are run for it; a genuine external request
\* becomes setup_failed evidence.  Both continue as a completed answer.
TestAnswered ==
    /\ shape = "test"
    /\ \/ Answered("local") /\ ControlPlaneRun(evidence)
       \/ /\ Answered("external")
          /\ evidence' = Recorded(evidence, [check |-> "unit", status |-> "setup_failed",
                                             empty |-> FALSE])
    /\ saved' = IF answer = "local" THEN saved \cup {"tests"} ELSE saved
    /\ answer' = "completed" /\ acted' = TRUE
    /\ UNCHANGED <<shape, phase, tools, brief, marker, moved, result, sequence, writes,
                   staged, failed_before, granted, forced, ledger, roundVars>>

\* Review, and bootstrap in a prepared environment, are completed from
\* durable state.
ControlPlaneAnswers ==
    /\ phase = "answered"
    /\ \/ /\ shape = "review" /\ answer \in {"local", "external"}
          /\ saved' = saved \cup {"review"}
       \/ /\ shape = "bootstrap" /\ answer = "local"
          /\ saved' = saved \cup {"environment"}
    /\ answer' = "completed"
    /\ UNCHANGED <<shape, phase, tools, brief, marker, moved, result, sequence, writes,
                   staged, evidence, failed_before, granted, forced, ledger, roundVars,
                   acted>>

\* A structured integration asks for its tool, or claims completion without a
\* candidate.
LacksCandidate ==
    /\ shape = "architecture_integration" /\ ~moved
    /\ Answered("local") \/ (Answered("completed") /\ "candidate" \notin saved)

\* integrate_structured_designs in the Agent's place; the validation of the
\* designs may still reject them, which no retry can repair.
IntegratesForAgent ==
    /\ LacksCandidate
    /\ \/ saved' = saved \cup {"candidate"} /\ Ends(Completed)
       \/ Ends(Refusal("architecture_contract_missing")) /\ UNCHANGED saved
    /\ UNCHANGED <<shape, localVars, sequence, writes, staged, evidence, failed_before,
                   granted, forced, ledger, roundVars, acted>>

\* changed_input_result.
InputChanged ==
    /\ phase = "answered" /\ moved /\ ~(shape = "contract" /\ answer = "local")
    /\ Ends(Refusal("planner_validation"))
    /\ UNCHANGED <<shape, localVars, diskVars, failed_before, granted, forced, ledger,
                   roundVars, acted>>

\* Everything else is an approval request; a bootstrap whose environment is
\* not prepared, the Agents without a conversion, and a Markdown item (whose tools
\* are not among the markers, but whose reason may hold one) ask for local tools too.
AsksForApproval ==
    /\ phase = "answered" /\ ~moved
    /\ \/ answer = "external" /\ shape \notin {"test", "review"}
       \/ /\ answer = "local" /\ (MisreportKind = "none" \/ shape \in Markdown)
          /\ shape \notin {"test", "review", "architecture_integration"}
    /\ Ends(Waiting)
    /\ UNCHANGED <<shape, localVars, diskVars, failed_before, granted, forced, ledger,
                   roundVars, acted>>

----------------------------------------------------------------------------
\* The delivery gates of a completed answer.

\* _validate_delivered_content: empty files, syntax, entry and contract symbols.
ContentIssues == staged = "invalid"

\* _validate_code_delivery.
DeliveryIncomplete == staged \in {"none", "partial"} \/ ContentIssues

\* A repair that changed no file since its attempt began.
NothingRepaired == shape = "code_repair" /\ workspace_writes = 0

\* What the gate of the shape may find: "none", or the kind of the failure.  A staged
\* design that verifies may still be a blueprint that contradicts the plan.
Gate ==
    CASE shape \in Designs /\ "design" \notin saved
            -> {"artifact_contract_violation", "artifact_commit_failure"}
      [] shape = "architecture" /\ "design" \in saved
            -> {"none", "artifact_contract_violation"}
      [] \/ shape = "markdown_integration" /\ "candidate" \notin saved
         \/ shape = "contract" /\ "contract" \notin saved
            -> {"architecture_contract_missing"}
      [] shape = "code_partitioned" /\ DeliveryIncomplete -> {"code_delivery_incomplete"}
      [] NothingRepaired -> {"repair_no_file_change"}
      [] shape \in Workspace /\ ~NothingRepaired /\ "implementation" \notin saved
            -> {"implementation_summary_missing"}
      [] OTHER -> {"none"}

Judge ==
    /\ Answered("completed") /\ ~moved /\ shape # "test" /\ ~LacksCandidate
    /\ \E k \in Gate : Ends(IF k = "none" THEN Completed ELSE Replan(k))
    /\ UNCHANGED <<shape, localVars, diskVars, failed_before, granted, forced, ledger,
                   roundVars, acted>>

\* The first failing check decides; setup problems block, assertions replan.
TestVerdict ==
    IF evidence = <<>> THEN Replan("test_evidence_missing")
    ELSE IF Failures = {} THEN Completed
    ELSE LET first == CHOOSE n \in Failures : \A m \in Failures : n <= m
         IN  Replan(CASE evidence[first].status = "setup_failed" -> "sandbox_setup"
                      [] evidence[first].status = "timed_out" -> "sandbox_timeout"
                      [] OTHER -> "test_failure")

JudgeTest ==
    /\ Answered("completed") /\ shape = "test"
    /\ evidence # <<>> /\ ~EmptySuite
    /\ Ends(TestVerdict)
    /\ UNCHANGED <<shape, localVars, diskVars, failed_before, granted, forced, ledger,
                   roundVars, acted>>

\* No evidence, or an empty suite: the control plane runs the checks, and the
\* node result becomes the AgentResult of that run, which has no work_item_id.
RunEvidenceFallback ==
    /\ Answered("completed") /\ shape = "test"
    /\ evidence = <<>> \/ EmptySuite
    /\ ControlPlaneRun(evidence)
    /\ saved' = saved \cup {"tests"} /\ acted' = TRUE
    /\ phase' = "rejudge"
    /\ UNCHANGED <<shape, localVars, result, sequence, writes, staged, failed_before,
                   granted, forced, ledger, roundVars>>

Rejudge ==
    /\ phase = "rejudge"
    /\ Ends(IF Failures = {} THEN [Completed EXCEPT !.status = "agent_result"]
            ELSE TestVerdict)
    /\ UNCHANGED <<shape, localVars, diskVars, failed_before, granted, forced, ledger,
                   roundVars, acted>>

----------------------------------------------------------------------------
\* _run_item_with_retries on the NodeResult.

\* _failure_signal_for.
SignalKind ==
    CASE result.status = "needs_capability" /\ granted ->
            IF shape = "code_partitioned" THEN "code_delivery_incomplete" ELSE "agent_runtime"
      [] result.status = "failed" -> "agent_runtime"
      [] result.status = "needs_replan" -> result.kind
      [] OTHER -> "none"

\* The locals of _run_item go out of scope; the answer stays in the result.
Forget == tools' = "all" /\ brief' = "none" /\ marker' = 0 /\ moved' = FALSE

Leave(status) == phase' = "ended" /\ result' = [result EXCEPT !.status = status]

\* No signal: the result is recorded, and a completed one discharges the order to
\* run again.  An AgentResult has no work_item_id, so
\* RunState.record raises and the Worker with it.
RecordResult ==
    /\ phase = "decide" /\ SignalKind = "none"
    /\ IF result.status = "agent_result"
       THEN /\ phase' = "down"
            /\ \E f \in Prints :
                ledger' = Append(ledger,
                    MonitorDecision(ledger, wi, "worker_crash", f, {wi}, TRUE))
            /\ result' = NoResult
       ELSE Leave(result.status) /\ UNCHANGED ledger
    /\ forced' = (forced /\ result.status # "completed")
    /\ Forget
    /\ UNCHANGED <<shape, answer, diskVars, failed_before, granted, roundVars, acted>>

\* Integration findings go to their owners without a local decision.
Escalate ==
    /\ phase = "decide" /\ shape = "code_integration"
    /\ SignalKind = "code_delivery_incomplete"
    /\ Leave("needs_replan")
    /\ Forget
    /\ UNCHANGED <<shape, answer, diskVars, failed_before, granted, forced, ledger,
                   roundVars, acted>>

\* Mutant: the decision is not written to the ledger.
Charged_Nothing(rec) == ledger

ChargedWith(rec) == Append(ledger, rec)

\* The decision of the policy.  A code delivery whose budget is used up names
\* its kind in the error that _record_result keeps in memory; a missing
\* summary is filed by the control plane when the answer had any text.
Decide ==
    /\ phase = "decide" /\ SignalKind # "none"
    /\ ~(shape = "code_integration" /\ SignalKind = "code_delivery_incomplete")
    /\ \E f \in Prints :
        LET rec == ItemDecision(ledger, wi, SignalKind, f, result.retryable)
        IN  /\ ledger' = ChargedWith(rec)
            /\ \/ /\ rec.action = "retry_item"
                  /\ phase' = "start" /\ result' = NoResult /\ UNCHANGED saved
               \/ /\ rec.action \in {"request_replan", "block"}
                  /\ Leave("needs_replan") /\ UNCHANGED saved
               \/ /\ rec.action = "fail"
                  /\ SignalKind = "implementation_summary_missing"
                  /\ saved' = saved \cup {"implementation"} /\ Leave("completed")
               \/ rec.action = "fail" /\ Leave("failed") /\ UNCHANGED saved
            /\ failed_before' = (
                    \/ failed_before
                    \/ rec.action = "fail" /\ SignalKind = "code_delivery_incomplete")
    /\ Forget
    /\ UNCHANGED <<shape, answer, sequence, writes, staged, evidence, granted, forced,
                   roundVars, acted>>

----------------------------------------------------------------------------
\* The world around the call.

Busy == phase \in {"start", "agent", "answered", "rejudge", "decide"}

\* The monitor stops the Worker, or it dies; the record blames the item or
\* another member of its batch.
Abort ==
    /\ Busy /\ aborts < MaxAborts
    /\ aborts' = aborts + 1
    /\ phase' = "down" /\ result' = NoResult
    /\ \E r \in Items, k \in ResumeKinds \cap Kinds, f \in Prints :
        ledger' = Append(ledger, MonitorDecision(ledger, r, k, f, {r, wi}, TRUE))
    /\ Forget
    /\ UNCHANGED <<shape, answer, diskVars, failed_before, granted, forced, rounds, acted>>

\* A resumed Trace, a rerun of one of the item's producers, or a repair plan that
\* reuses the id.  The order to run a completed owner again comes from a refused
\* merge or from the validation of its designs; a resume may lose it (GraphRunner).
\* The inputs may be others by then.
StartAgain ==
    /\ rounds < MaxRounds /\ phase \in {"ended", "down"}
    /\ \/ forced' \in {forced, FALSE}
       \/ /\ phase = "ended" /\ result.status = "completed"
          /\ shape \in {"code_partitioned", "architecture"}
          /\ forced' = TRUE
    /\ rounds' = rounds + 1
    /\ phase' = "start" /\ result' = NoResult
    /\ saved' \in {saved, saved \ OfInputs}
    /\ acted' = (phase = "down" /\ acted)
    /\ UNCHANGED <<shape, localVars, sequence, writes, staged, evidence, failed_before,
                   granted, ledger, aborts>>

\* The user approves the capability the item waits for.
Approve ==
    /\ phase = "ended" /\ result.status = "needs_capability" /\ answer = "external"
    /\ ~granted /\ granted' = TRUE
    /\ UNCHANGED <<shape, phase, localVars, result, diskVars, failed_before, forced,
                   ledger, roundVars, acted>>

Before == Refuse \/ Project \/ Recover \/ StartAgent \/ ControlPlaneTest

Calls == CallsTool \/ WritesWorkspace \/ StagesFile \/ SavesArtifact \/ RunsCheck

AgentEnds == AgentReturns \/ AgentRaises

After ==
    \/ MisreportRetried \/ TestAnswered \/ ControlPlaneAnswers \/ IntegratesForAgent
    \/ InputChanged
    \/ AsksForApproval \/ Judge \/ JudgeTest \/ RunEvidenceFallback \/ Rejudge
    \/ RecordResult \/ Escalate \/ Decide

Next == Before \/ Calls \/ AgentEnds \/ After \/ InputMoves \/ Abort \/ StartAgain \/ Approve

Spec == Init /\ [][Next]_vars

\* A running Worker keeps running the call and a provider call ends by its
\* deadlines (ResponsesStream); nobody has to resume or approve.
FairSpec == Spec /\ WF_vars(Before) /\ WF_vars(AgentEnds) /\ WF_vars(After)

----------------------------------------------------------------------------
SignalKinds == FailureKind \cup {"none"}

Results ==
    [status : {"none", "needs_replan", "failed", "completed", "needs_capability",
               "agent_result"},
     kind : SignalKinds, retryable : BOOLEAN]

EvidenceRecords == [check : Checks, status : SandboxStatus, empty : BOOLEAN]

\* Type invariant.
TypeOK ==
    /\ shape \in Shapes
    /\ phase \in {"start", "agent", "answered", "rejudge", "decide", "ended", "down"}
    /\ tools \in {"all", "write_only"}
    /\ brief \in {"none", "task", "task_retry", "repair", "delivery_retry"}
    /\ answer \in {"none", "completed", "local", "external"}
    /\ marker \in Nat /\ moved \in BOOLEAN /\ result \in Results
    /\ sequence \in Nat /\ writes \subseteq 1..sequence
    /\ staged \in {"none", "partial", "invalid", "complete"}
    /\ evidence \in Seq(EvidenceRecords) /\ ledger \in Seq(Record)
    /\ failed_before \in BOOLEAN /\ granted \in BOOLEAN /\ forced \in BOOLEAN
    /\ acted \in BOOLEAN
    /\ aborts \in 0..MaxAborts /\ rounds \in 0..MaxRounds

\* A completed item has its output on disk whichever path completed it (the
\* gate, a recovery, a control-plane fallback, a filed summary), a design and a
\* candidate of the inputs it was given; and a repair that is reported complete
\* changed a workspace file in this round, although its id and its memory events
\* are shared with earlier rounds (runner.py:2306-2312, 3007-3182, 3338-3372,
\* 1853-1866).
CompletedDelivered ==
    (phase = "ended" /\ result.status = "completed") =>
        /\ shape = "code_repair" => acted
        /\ shape \in Workspace => "implementation" \in saved
        /\ shape = "code_partitioned" => staged = "complete"
        /\ shape = "contract" => "contract" \in saved
        /\ shape \in Designs => "design" \in saved
        /\ shape \in Integrations => "candidate" \in saved

\* An item whose Agent asks for its own delivery tool never waits for an approval
\* that no grant can satisfy (runner.py:2673-2873, 3184-3285).  Excepted are the
\* Agents without a conversion, and the Markdown items, whose tools the conversion
\* does not name.
WaitsForGrantable ==
    (phase = "ended" /\ result.status = "needs_capability") =>
        \/ answer = "external"
        \/ shape \in Markdown \cup {"bootstrap", "code_integration", "other"}

\* A completed test item rests on evidence: every check it ever ran passes in
\* its latest run, and none of them ran an empty suite, over retries, control
\* plane runs and Worker aborts (runner.py:3374-3421).  The latest run may be of an
\* earlier round: see EvidenceOfThisRound.
CompletedTestPassed ==
    (shape = "test" /\ phase = "ended" /\ result.status = "completed") =>
        /\ evidence # <<>>
        /\ \A n \in DOMAIN evidence : evidence[n].status = "passed" /\ ~evidence[n].empty

\* A completed item rests on what it delivered, and a completed test on what
\* it ran, whatever the Agent said of itself.
CompletedProven == CompletedDelivered /\ CompletedTestPassed

\* An Agent left with only its writer is always told so: the prompt and the
\* allowlist are chosen in two places from the same past
\* (runner.py:249-275, 2566-2592).
NarrowedIsTold ==
    (phase = "agent" /\ shape = "code_partitioned" /\ tools = "write_only") =>
        brief = "delivery_retry"

\* Every started item reaches a verdict or its Worker goes down: no mix of
\* misreports, failed gates, granted requests and aborts is retried for ever
\* (runner.py:1717-1874).
WorkItemEnds == Busy ~> ~Busy

\* "nor may tests/review reuse old evidence" when a producer is run again
\* (runs.py:2112).  Refuted (attempt_evidence.cfg): evidence is looked up by item id,
\* so that the rerun test item completes on the checks of the round before.
EvidenceOfThisRound ==
    (shape = "test" /\ phase = "ended" /\ result.status = "completed") => acted
==============================================================================
