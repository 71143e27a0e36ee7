---------------------------- MODULE RetryPolicy ----------------------------
(***************************************************************************)
(* RetryPolicy, RetryLimits, RetryRecord and the counters of RetryLedger   *)
(* (app/orchestration/retry.py), with the three places that turn a failure *)
(* into a record: GraphRunner._recovery_action, _finish_monitor_batch and  *)
(* _record_monitor_retry.  Operators only; RetryLedger and GraphRunner use *)
(* them.                                                                   *)
(***************************************************************************)
EXTENDS Naturals, Sequences, FiniteSets

CONSTANTS
    Items,       \* WorkItem ids
    Kinds,       \* the FailureKinds that are observed
    Prints,      \* failure fingerprints (with equal input and evidence)
    NoItem,      \* the absent root_work_item_id
    max_total_retries,
    max_retries_per_work_item,
    max_retries_by_kind

----------------------------------------------------------------------------
\* FailureKind, grouped by the branch of RetryPolicy.action_for it takes.

BlockKinds ==
    {"sandbox_setup", "worker_bootstrap_failure", "tool_contract_mismatch",
     "artifact_commit_failure"}

ResumeKinds == {"provider_stall", "worker_timeout", "worker_crash"}

RetryItemKinds ==
    {"sandbox_timeout", "test_evidence_missing",
     "implementation_summary_missing", "repair_no_file_change",
     "agent_runtime", "provider_transport", "provider_empty_response",
     "provider_terminal_missing", "architecture_contract_missing",
     "architecture_schema_validation", "artifact_contract_violation",
     "code_delivery_incomplete", "planner_validation"}

\* Kinds no branch names: they end in the final FAIL whatever their budget.
UnroutedKinds ==
    {"tool_execution", "runtime_preflight", "provider_policy_rejected"}

FailureKind ==
    BlockKinds \cup ResumeKinds \cup RetryItemKinds \cup UnroutedKinds
        \cup {"test_failure"}

RecoveryAction ==
    {"retry_item", "retry_batch", "resume", "request_replan", "block", "fail"}

\* The RetryLimits defaults; a kind the table omits has no retry at all.
DefaultKindLimit ==
    [k \in FailureKind |->
        CASE k \in {"architecture_contract_missing", "code_delivery_incomplete"} -> 2
          [] k \in BlockKinds \cup {"test_failure", "runtime_preflight",
                                    "provider_policy_rejected"} -> 0
          [] OTHER -> 1]

ASSUME LimitAssumption ==
    /\ max_total_retries \in Nat
    /\ max_retries_per_work_item \in Nat
    /\ max_retries_by_kind \in [FailureKind -> Nat]

ASSUME KindAssumption == Kinds \subseteq FailureKind /\ NoItem \notin Items

----------------------------------------------------------------------------
\* RetryRecord.  A WorkItem decision names its item as subject and as root;
\* a monitor decision names the batch or the Trace as subject, so that the
\* item counters see it through its root.
Record ==
    [scope : {"work_item", "batch", "run"}, action : RecoveryAction,
     kind : FailureKind, print : Prints, root : Items \cup {NoItem},
     interrupted : SUBSET Items]

budget_actions == {"retry_item", "retry_batch", "resume"}

\* The records the three counters count, as sets of positions.
Charged(l) == {n \in 1..Len(l) : l[n].action \in budget_actions}

ChargedFor(l, i) == {n \in Charged(l) : l[n].root = i}

ChargedForKind(l, i, k) == {n \in ChargedFor(l, i) : l[n].kind = k}

budget_count(l) == Cardinality(Charged(l))

budget_count_for_work_item(l, i) == Cardinality(ChargedFor(l, i))

budget_count_for_kind(l, i, k) == Cardinality(ChargedForKind(l, i, k))

\* Mutant: only a directly preceding failure opens the circuit.
has_same_failure_Last(l, i, k, f) ==
    /\ l # <<>>
    /\ l[Len(l)].root = i /\ l[Len(l)].kind = k /\ l[Len(l)].print = f

\* The durable circuit breaker: the same failure of the same item before.
has_same_failure_without_new_evidence(l, i, k, f) ==
    \E n \in 1..Len(l) : l[n].root = i /\ l[n].kind = k /\ l[n].print = f

\* Mutant: the Trace-wide limit is not consulted.
action_for_NoTotal(k, retryable, total, item, kind) ==
    IF ~retryable \/ k \in BlockKinds THEN "block"
    ELSE IF k = "test_failure" THEN "request_replan"
    ELSE IF item >= max_retries_per_work_item \/ kind >= max_retries_by_kind[k]
         THEN "fail"
    ELSE IF k \in ResumeKinds THEN "resume"
    ELSE IF k \in RetryItemKinds THEN "retry_item"
    ELSE "fail"

\* RetryPolicy.action_for.
action_for(k, retryable, total, item, kind) ==
    IF ~retryable \/ k \in BlockKinds THEN "block"
    ELSE IF k = "test_failure" THEN "request_replan"
    ELSE IF \/ total >= max_total_retries
            \/ item >= max_retries_per_work_item
            \/ kind >= max_retries_by_kind[k] THEN "fail"
    ELSE IF k \in ResumeKinds THEN "resume"
    ELSE IF k \in RetryItemKinds THEN "retry_item"
    ELSE "fail"

\* GraphRunner's decision on a failed attempt of item i: the schema circuit
\* breaker first, then the policy on counts read from the durable ledger.
ItemDecision(l, i, k, f, retryable) ==
    LET open == /\ k = "architecture_schema_validation"
                /\ has_same_failure_without_new_evidence(l, i, k, f)
    IN  [scope |-> "work_item",
         action |-> IF open THEN "fail"
                    ELSE action_for(k, retryable, budget_count(l),
                                    budget_count_for_work_item(l, i),
                                    budget_count_for_kind(l, i, k)),
         kind |-> k, print |-> f, root |-> i, interrupted |-> {}]

\* Mutant: the monitor starts from fresh counters.
MonitorDecision_Fresh(l, r, k, f, active, batchOpen) ==
    LET decided == action_for(k, TRUE, 0, 0, 0)
    IN  [scope |-> IF batchOpen THEN "batch" ELSE "run",
         action |-> IF batchOpen /\ decided = "resume" THEN "retry_batch" ELSE decided,
         kind |-> k, print |-> f, root |-> r, interrupted |-> active \ {r}]

\* _record_monitor_retry: an unknown root has no item or kind count, and a
\* run-level "resume" becomes "retry_batch" when a batch was active.
MonitorDecision(l, r, k, f, active, batchOpen) ==
    LET known == r # NoItem
        decided == action_for(k, TRUE, budget_count(l),
                              IF known THEN budget_count_for_work_item(l, r) ELSE 0,
                              IF known THEN budget_count_for_kind(l, r, k) ELSE 0)
    IN  [scope |-> IF batchOpen THEN "batch" ELSE "run",
         action |-> IF batchOpen /\ decided = "resume" THEN "retry_batch" ELSE decided,
         kind |-> k, print |-> f, root |-> r, interrupted |-> active \ {r}]

\* _finish_monitor_batch: the fan-in fact, which charges no budget.
BatchDecision(r, k, f, replan) ==
    [scope |-> "batch", action |-> IF replan THEN "request_replan" ELSE "fail",
     kind |-> k, print |-> f, root |-> r, interrupted |-> {}]

\* RetryLedger.recovery_records.
IsRecovery(rec) == rec.action \in {"resume", "retry_batch"}
=============================================================================
