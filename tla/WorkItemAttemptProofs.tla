----------------------- MODULE WorkItemAttemptProofs -----------------------
(***************************************************************************)
(* Proofs about WorkItemAttempt for every shape of WorkItem, any retry     *)
(* limits, checks and fingerprints, and any number of tool calls, aborts   *)
(* and rounds.                                                             *)
(***************************************************************************)
EXTENDS WorkItemAttempt, FiniteSetTheorems, TLAPS

----------------------------------------------------------------------------
\* Only an Agent answers, and only shapes that have one reach it.
HasAgent ==
    phase \in {"agent", "answered", "rejudge"} =>
        shape \notin Deterministic \cup Refused

\* A write that the gate of a repair counts was made in this round.
CountedIsFresh ==
    phase \in {"agent", "answered"} /\ shape = "code_repair" =>
        ((\E n \in writes : n > marker) => acted)

\* The phases in which a NodeResult waits to be decided or recorded.
Verdict == phase \in {"decide", "ended"}

\* What a completed result stands on, before it is recorded and after.
ProvenVerdict ==
    (Verdict /\ result.status = "completed") =>
        /\ shape = "code_repair" => acted
        /\ shape \in Workspace => "implementation" \in saved
        /\ shape = "code_partitioned" => staged = "complete"
        /\ shape = "contract" => "contract" \in saved
        /\ shape \in Designs => "design" \in saved
        /\ shape \in Integrations => "candidate" \in saved
        /\ shape = "test" => /\ evidence # <<>>
                             /\ \A n \in DOMAIN evidence :
                                    evidence[n].status = "passed" /\ ~evidence[n].empty

\* A summary is missing only behind the gate on the writes of a repair.
SummaryMissing ==
    (phase = "decide" /\ result.status = "needs_replan"
        /\ result.kind = "implementation_summary_missing") =>
        shape \in Workspace /\ (shape = "code_repair" => acted)

\* The shapes whose Agent may wait for a tool of its own.
Unconverted == Markdown \cup {"bootstrap", "code_integration", "other"}

\* A request that is passed on is grantable, or of an Agent without conversion.
GrantableVerdict ==
    (Verdict /\ result.status = "needs_capability") =>
        answer = "external" \/ shape \in Unconverted

\* The inductive invariant.
Inv ==
    /\ TypeOK /\ HasAgent /\ CountedIsFresh /\ ProvenVerdict /\ SummaryMissing
    /\ GrantableVerdict /\ NarrowedIsTold

----------------------------------------------------------------------------
\* What the operators of the model return.

LEMMA ResultFacts ==
  /\ \A k \in FailureKind : /\ Replan(k) \in Results /\ Refusal(k) \in Results
                             /\ Replan(k).status = "needs_replan" /\ Replan(k).kind = k
                             /\ Refusal(k).status = "needs_replan" /\ Refusal(k).kind = k
  /\ NoResult \in Results /\ Failed \in Results /\ Completed \in Results /\ Waiting \in Results
  /\ NoResult.status = "none" /\ Failed.status = "failed" /\ Completed.status = "completed"
  /\ Waiting.status = "needs_capability"
  /\ [Completed EXCEPT !.status = "agent_result"] \in Results
  /\ [Completed EXCEPT !.status = "agent_result"].status = "agent_result"
BY DEF Replan, Refusal, NoResult, Failed, Completed, Waiting, Results, SignalKinds

\* The kinds that the runner names are FailureKinds.
LEMMA NamedKinds ==
  {"runtime_preflight", "planner_validation", "tool_contract_mismatch",
   "architecture_contract_missing", "tool_execution", "architecture_schema_validation",
   "provider_policy_rejected", "code_delivery_incomplete", "test_evidence_missing",
   "sandbox_setup", "sandbox_timeout", "test_failure", "repair_no_file_change",
   "implementation_summary_missing", "agent_runtime", "worker_crash",
   "artifact_contract_violation", "artifact_commit_failure"} \subseteq FailureKind
BY DEF FailureKind, BlockKinds, ResumeKinds, RetryItemKinds, UnroutedKinds

LEMMA Bounds == MaxAborts \in Nat /\ MaxRounds \in Nat /\ wi \in Items /\ {wi} \in SUBSET Items
BY AttemptAssumption

LEMMA AttemptIsNat ==
  ASSUME TypeOK
  PROVE  attempt \in Nat
<1>1. Len(ledger) \in Nat
  BY DEF TypeOK
<1>2. IsFiniteSet(1..Len(ledger))
  BY <1>1, FS_Interval
<1>3. IsFiniteSet(ChargedFor(ledger, wi))
  BY <1>2, FS_Subset DEF ChargedFor, Charged
<1> QED
  BY <1>3, FS_CardinalityType DEF attempt, budget_count_for_work_item

LEMMA RecordedType ==
  ASSUME NEW log \in Seq(EvidenceRecords), NEW e \in EvidenceRecords
  PROVE  Recorded(log, e) \in Seq(EvidenceRecords)
<1>1. CASE \E n \in DOMAIN log : log[n].check = e.check
  <2> DEFINE new == [n \in DOMAIN log |-> IF log[n].check = e.check THEN e ELSE log[n]]
  <2>1. DOMAIN log = 1..Len(log) /\ Len(log) \in Nat
        /\ \A n \in DOMAIN log : log[n] \in EvidenceRecords
    OBVIOUS
  <2>2. new \in [1..Len(log) -> EvidenceRecords]
    BY <2>1
  <2>3. Recorded(log, e) = new
    BY <1>1 DEF Recorded
  <2> HIDE DEF new
  <2> QED
    BY <2>1, <2>2, <2>3
<1>2. CASE ~\E n \in DOMAIN log : log[n].check = e.check
  BY <1>2 DEF Recorded
<1> QED
  BY <1>1, <1>2

LEMMA EvidenceType == \A c \in Checks : Evidence(c) \subseteq EvidenceRecords
BY DEF Evidence, EvidenceRecords

LEMMA ControlPlaneType ==
  ASSUME NEW log \in Seq(EvidenceRecords), ControlPlaneRun(log)
  PROVE  evidence' \in Seq(EvidenceRecords)
<1>1. "unit" \in Checks
  BY AttemptAssumption
<1>2. PICK u \in Evidence("unit") :
        \/ evidence' = Recorded(log, u)
        \/ \E c \in Checks \ {"unit"} : \E e \in Evidence(c) :
              evidence' = Recorded(Recorded(log, u), e)
  BY DEF ControlPlaneRun
<1>3. Recorded(log, u) \in Seq(EvidenceRecords)
  BY <1>1, EvidenceType, RecordedType
<1> QED
  BY <1>2, <1>3, EvidenceType, RecordedType

\* The verdict of a test is completed only on evidence that passed.
LEMMA TestVerdictType ==
  /\ TestVerdict \in Results
  /\ TestVerdict.status \in {"needs_replan", "completed"}
  /\ TestVerdict.status = "completed" => evidence # <<>> /\ Failures = {}
  /\ TestVerdict.status = "needs_replan" => TestVerdict.kind # "implementation_summary_missing"
<1>1. CASE evidence = <<>>
  BY <1>1, ResultFacts, NamedKinds DEF TestVerdict
<1>2. CASE evidence # <<>> /\ Failures = {}
  BY <1>2, ResultFacts DEF TestVerdict
<1>3. CASE evidence # <<>> /\ Failures # {}
  <2>1. PICK k \in {"sandbox_setup", "sandbox_timeout", "test_failure"} : TestVerdict = Replan(k)
    BY <1>3 DEF TestVerdict
  <2> QED
    BY <2>1, ResultFacts, NamedKinds
<1> QED
  BY <1>1, <1>2, <1>3

\* The gate of a shape that has one names kinds; behind "none" stands its output.
LEMMA GateFacts ==
  ASSUME NEW k \in Gate
  PROVE  /\ k \in FailureKind \cup {"none"}
         /\ k = "none" =>
                /\ shape = "code_repair" => workspace_writes # 0
                /\ shape \in Workspace => "implementation" \in saved
                /\ shape = "code_partitioned" => ~DeliveryIncomplete
                /\ shape = "contract" => "contract" \in saved
                /\ shape \in Designs => "design" \in saved
                /\ shape = "markdown_integration" => "candidate" \in saved
         /\ k = "implementation_summary_missing" =>
                shape \in Workspace /\ (shape = "code_repair" => workspace_writes # 0)
BY NamedKinds DEF Gate, Workspace, Designs, NothingRepaired

LEMMA SignalFacts ==
  ASSUME TypeOK
  PROVE  /\ SignalKind \in SignalKinds
         /\ SignalKind = "implementation_summary_missing" =>
                result.status = "needs_replan" /\ result.kind = "implementation_summary_missing"
BY NamedKinds DEF SignalKind, TypeOK, Results, SignalKinds

\* What a decision writes is a RetryRecord.
LEMMA ItemRecord ==
  ASSUME NEW k \in FailureKind, NEW f \in Prints, NEW ok
  PROVE  /\ ItemDecision(ledger, wi, k, f, ok) \in Record
         /\ ItemDecision(ledger, wi, k, f, ok).action \in RecoveryAction
<1>1. \A x, y, z : action_for(k, ok, x, y, z) \in RecoveryAction
  BY DEF action_for, RecoveryAction
<1>2. "fail" \in RecoveryAction
  BY DEF RecoveryAction
<1> QED
  BY <1>1, <1>2, AttemptAssumption DEF ItemDecision, Record

LEMMA MonitorRecord ==
  ASSUME NEW r \in Items, NEW k \in FailureKind, NEW f \in Prints, NEW active \in SUBSET Items
  PROVE  MonitorDecision(ledger, r, k, f, active, TRUE) \in Record
<1>1. \A x, y, z : action_for(k, TRUE, x, y, z) \in RecoveryAction
  BY DEF action_for, RecoveryAction
<1>2. "retry_batch" \in RecoveryAction
  BY DEF RecoveryAction
<1> QED
  BY <1>1, <1>2 DEF MonitorDecision, Record

----------------------------------------------------------------------------
\* Steps that end the attempt with a result.

\* What such a step leaves alone; some of them save an artifact.
EndsOnly ==
    UNCHANGED <<shape, localVars, sequence, writes, staged, evidence, failed_before, granted,
                forced, ledger, roundVars, acted>>

LEMMA EndsKeeps ==
  ASSUME Inv, NEW r \in Results, Ends(r), EndsOnly,
         r.status = "needs_replan" /\ r.kind = "implementation_summary_missing" =>
            shape \in Workspace /\ (shape = "code_repair" => acted),
         r.status = "needs_capability" =>
            answer = "external" \/ shape \in Unconverted,
         r.status = "completed" => ProvenVerdict'
  PROVE  Inv'
<1> USE DEF EndsOnly, Ends, localVars, roundVars, Inv
<1>1. TypeOK'
  BY DEF TypeOK
<1>2. HasAgent' /\ CountedIsFresh' /\ NarrowedIsTold'
  BY DEF HasAgent, CountedIsFresh, NarrowedIsTold
<1>3. ProvenVerdict'
  BY DEF ProvenVerdict
<1>4. SummaryMissing' /\ GrantableVerdict'
  BY DEF SummaryMissing, GrantableVerdict
<1> QED
  BY <1>1, <1>2, <1>3, <1>4

\* A step that ends with a failure of any other kind needs no further argument.
LEMMA FailureKeeps ==
  ASSUME Inv, EndsOnly,
         \/ Ends(Failed)
         \/ \E k \in FailureKind \ {"implementation_summary_missing"} :
                Ends(Replan(k)) \/ Ends(Refusal(k))
  PROVE  Inv'
<1>1. CASE Ends(Failed)
  BY <1>1, EndsKeeps, ResultFacts
<1>2. ASSUME NEW k \in FailureKind \ {"implementation_summary_missing"}, Ends(Replan(k))
      PROVE  Inv'
  BY <1>2, EndsKeeps, ResultFacts
<1>3. ASSUME NEW k \in FailureKind \ {"implementation_summary_missing"}, Ends(Refusal(k))
      PROVE  Inv'
  BY <1>3, EndsKeeps, ResultFacts
<1> QED
  BY <1>1, <1>2, <1>3

LEMMA EndingSteps ==
  ASSUME Inv,
         \/ Refuse \/ Project \/ Recover \/ AgentRaises \/ MisreportRetried
         \/ IntegratesForAgent \/ InputChanged \/ AsksForApproval
         \/ Judge \/ JudgeTest \/ Rejudge
  PROVE  Inv'
<1> DEFINE Other == FailureKind \ {"implementation_summary_missing"}
<1>k. {"runtime_preflight", "planner_validation", "tool_contract_mismatch",
       "architecture_contract_missing", "tool_execution", "architecture_schema_validation",
       "provider_policy_rejected", "code_delivery_incomplete"} \subseteq Other
  BY NamedKinds
<1>1. CASE Refuse
  <2>1. EndsOnly
    BY <1>1 DEF Refuse, EndsOnly, diskVars
  <2>2. \/ Ends(Failed) \/ \E k \in Other : Ends(Replan(k)) \/ Ends(Refusal(k))
    BY <1>1, <1>k DEF Refuse
  <2> QED
    BY <2>1, <2>2, FailureKeeps
<1>2. CASE Project
  <2>1. EndsOnly
    BY <1>2 DEF Project, EndsOnly
  <2>2. CASE Ends(Completed)
    <3>1. shape \in Deterministic /\ shape' = shape
      BY <1>2 DEF Project
    <3>2. ProvenVerdict'
      BY <3>1 DEF ProvenVerdict, Deterministic, Workspace, Designs, Integrations
    <3> QED
      BY <2>1, <2>2, <3>2, EndsKeeps, ResultFacts
  <2>3. CASE ~Ends(Completed)
    <3>1. Ends(Failed) \/ Ends(Replan("architecture_contract_missing"))
      BY <1>2, <2>3 DEF Project
    <3> QED
      BY <1>k, <2>1, <3>1, FailureKeeps
  <2> QED
    BY <2>2, <2>3
<1>3. CASE Recover
  <2>1. EndsOnly /\ Ends(Completed) /\ Recoverable /\ UNCHANGED <<shape, saved, staged>>
    BY <1>3 DEF Recover, EndsOnly, diskVars
  <2>2. ProvenVerdict'
    BY <2>1 DEF Recoverable, ProvenVerdict, Workspace, Designs, Integrations
  <2> QED
    BY <2>1, <2>2, EndsKeeps, ResultFacts
<1>4. CASE AgentRaises
  <2>1. EndsOnly
    BY <1>4 DEF AgentRaises, EndsOnly, diskVars
  <2>2. \A k \in (ProviderKinds \cap Kinds) \ {"provider_policy_rejected"} : k \in Other
    BY KindAssumption DEF ProviderKinds
  <2>3. \A r \in Raised : r = Failed \/ \E k \in Other : r = Replan(k) \/ r = Refusal(k)
    BY <1>k, <2>2 DEF Raised
  <2>4. Ends(Failed) \/ \E k \in Other : Ends(Replan(k)) \/ Ends(Refusal(k))
    BY <1>4, <1>k, <2>3 DEF AgentRaises
  <2> QED
    BY <2>1, <2>4, FailureKeeps
<1>5. CASE MisreportRetried
  <2>1. EndsOnly /\ Ends(Replan(MisreportKind))
    BY <1>5 DEF MisreportRetried, EndsOnly, diskVars
  <2>2. MisreportKind \in Other
    BY <1>5, <1>k DEF MisreportRetried, MisreportKind
  <2> QED
    BY <2>1, <2>2, FailureKeeps
<1>6. CASE IntegratesForAgent
  <2>1. EndsOnly /\ shape = "architecture_integration" /\ shape' = shape
    BY <1>6 DEF IntegratesForAgent, LacksCandidate, EndsOnly
  <2>2. CASE saved' = saved \cup {"candidate"} /\ Ends(Completed)
    <3>1. ProvenVerdict'
      BY <2>1, <2>2 DEF ProvenVerdict, Workspace, Designs
    <3> QED
      BY <2>1, <2>2, <3>1, EndsKeeps, ResultFacts
  <2>3. CASE Ends(Refusal("architecture_contract_missing"))
    BY <1>k, <2>1, <2>3, FailureKeeps
  <2> QED
    BY <1>6, <2>2, <2>3 DEF IntegratesForAgent
<1>7. CASE InputChanged
  <2>1. EndsOnly /\ Ends(Refusal("planner_validation"))
    BY <1>7 DEF InputChanged, EndsOnly, diskVars
  <2> QED
    BY <1>k, <2>1, FailureKeeps
<1>8. CASE AsksForApproval
  <2>1. EndsOnly /\ Ends(Waiting)
    BY <1>8 DEF AsksForApproval, EndsOnly, diskVars
  <2>2. answer = "external" \/ shape \in Unconverted
    <3>1. shape \in AllShapes \ (Deterministic \cup Refused)
      BY <1>8, AttemptAssumption DEF AsksForApproval, Inv, HasAgent, TypeOK
    <3>2. CASE answer # "external" /\ shape \notin Markdown
      <4>1. MisreportKind = "none" /\ shape \notin {"test", "review", "architecture_integration"}
        BY <1>8, <3>2 DEF AsksForApproval
      <4>2. shape \notin CodeShapes \cup {"contract", "architecture"}
        BY <4>1 DEF MisreportKind
      <4> QED
        BY <3>1, <3>2, <4>1, <4>2
           DEF AllShapes, ArchitectureShapes, Designs, Integrations, Markdown, Unconverted
    <3>3. CASE shape \in Markdown
      BY <3>3 DEF Unconverted
    <3> QED
      BY <3>2, <3>3
  <2> QED
    BY <2>1, <2>2, EndsKeeps, ResultFacts
<1>9. CASE Judge
  <2>1. PICK k \in Gate : Ends(IF k = "none" THEN Completed ELSE Replan(k))
    BY <1>9 DEF Judge
  <2>2. /\ EndsOnly /\ UNCHANGED <<shape, saved, staged, acted>>
        /\ phase = "answered" /\ shape # "test"
        /\ shape = "architecture_integration" => "candidate" \in saved
    BY <1>9 DEF Judge, LacksCandidate, Answered, EndsOnly, diskVars
  <2>3. shape = "code_repair" /\ workspace_writes # 0 => acted
    <3>1. CASE \E n \in writes : n > marker
      BY <2>2, <3>1 DEF Inv, CountedIsFresh
    <3>2. CASE ~\E n \in writes : n > marker
      <4>1. {n \in writes : n > marker} = {}
        BY <3>2
      <4> QED
        BY <4>1, FS_EmptySet DEF workspace_writes
    <3> QED
      BY <3>1, <3>2
  <2>4. CASE k = "none"
    <3>1. ~DeliveryIncomplete => staged = "complete"
      BY DEF DeliveryIncomplete, ContentIssues, Inv, TypeOK
    <3>2. ProvenVerdict'
      BY <2>2, <2>3, <2>4, <3>1, GateFacts DEF ProvenVerdict, Integrations
    <3> QED
      BY <2>1, <2>2, <2>4, <3>2, EndsKeeps, ResultFacts
  <2>5. CASE k # "none"
    <3>1. k \in FailureKind
      BY <2>5, GateFacts
    <3> QED
      BY <2>1, <2>2, <2>3, <2>5, <3>1, GateFacts, EndsKeeps, ResultFacts
  <2> QED
    BY <2>4, <2>5
<1>10. CASE JudgeTest
  <2>1. EndsOnly /\ Ends(TestVerdict) /\ shape = "test" /\ shape' = shape /\ ~EmptySuite
        /\ evidence' = evidence
    BY <1>10 DEF JudgeTest, EndsOnly, diskVars
  <2>2. TestVerdict.status = "completed" => ProvenVerdict'
    BY <2>1, TestVerdictType DEF ProvenVerdict, Workspace, Designs, Integrations, EmptySuite, Failures
  <2> QED
    BY <2>1, <2>2, EndsKeeps, TestVerdictType
<1>11. CASE Rejudge
  <2>1. EndsOnly
    BY <1>11 DEF Rejudge, EndsOnly, diskVars
  <2>2. CASE Failures = {}
    BY <1>11, <2>1, <2>2, EndsKeeps, ResultFacts DEF Rejudge
  <2>3. CASE Failures # {}
    BY <1>11, <2>1, <2>3, EndsKeeps, TestVerdictType DEF Rejudge
  <2> QED
    BY <2>2, <2>3
<1> QED
  BY <1>1, <1>2, <1>3, <1>4, <1>5, <1>6, <1>7, <1>8, <1>9, <1>10, <1>11

----------------------------------------------------------------------------
\* The steps of the Agent and of its control plane.

LEMMA StartAgentStep ==
  ASSUME Inv, StartAgent
  PROVE  Inv'
<1> USE DEF Inv
<1>1. /\ phase' = "agent" /\ tools' = tool_allowlist_for_attempt /\ brief' = PromptFor
      /\ marker' = sequence /\ moved' = FALSE /\ answer' = "none"
      /\ UNCHANGED <<shape, result, sequence, writes, saved, staged, evidence, failed_before,
                     granted, forced, ledger, aborts, rounds, acted>>
      /\ shape \notin Deterministic \cup Refused
  BY DEF StartAgent, diskVars, roundVars
<1>2. attempt \in Nat
  BY AttemptIsNat
<1> HIDE DEF Inv
<1>3. /\ PromptFor \in {"task", "task_retry", "repair", "delivery_retry"}
      /\ tool_allowlist_for_attempt \in {"all", "write_only"}
      /\ shape = "code_partitioned" /\ tool_allowlist_for_attempt = "write_only" =>
            PromptFor = "delivery_retry"
  <2> DEFINE n == attempt
  <2>1. n \in Nat
    BY <1>2
  <2>2. /\ PromptFor = IF shape = "code_partitioned" /\ (n > 1 \/ prior) THEN "delivery_retry"
                       ELSE IF shape = "code_repair" THEN "repair"
                       ELSE IF n > 1 THEN "task_retry" ELSE "task"
        /\ tool_allowlist_for_attempt = IF \/ shape = "code_partitioned" /\ (n > 2 \/ prior)
                                           \/ shape = "contract" /\ n > 1
                                        THEN "write_only" ELSE "all"
    BY DEF PromptFor, tool_allowlist_for_attempt
  <2> HIDE DEF n
  <2> QED
    BY <2>1, <2>2
<1>4. TypeOK'
  BY <1>1, <1>3 DEF Inv, TypeOK
<1>5. NarrowedIsTold' /\ HasAgent'
  BY <1>1, <1>3 DEF NarrowedIsTold, HasAgent
<1>6. CountedIsFresh'
  BY <1>1 DEF Inv, TypeOK, CountedIsFresh
<1>7. ProvenVerdict' /\ SummaryMissing' /\ GrantableVerdict'
  BY <1>1 DEF ProvenVerdict, SummaryMissing, GrantableVerdict, Verdict
<1> QED
  BY <1>4, <1>5, <1>6, <1>7 DEF Inv

\* A step that reaches no verdict and starts no Agent has only its types and the
\* count of writes to account for.
LEMMA RunningKeeps ==
  ASSUME Inv, TypeOK', phase' \in {"agent", "answered", "rejudge"},
         phase' = "agent" => phase = "agent" /\ UNCHANGED <<tools, brief>>,
         shape' = shape, shape \notin Deterministic \cup Refused, CountedIsFresh'
  PROVE  Inv'
<1>1. HasAgent' /\ NarrowedIsTold'
  BY DEF Inv, HasAgent, NarrowedIsTold
<1>2. ProvenVerdict' /\ SummaryMissing' /\ GrantableVerdict'
  BY DEF ProvenVerdict, SummaryMissing, GrantableVerdict, Verdict
<1> QED
  BY <1>1, <1>2 DEF Inv

LEMMA RunningSteps ==
  ASSUME Inv,
         \/ CallsTool \/ WritesWorkspace \/ StagesFile \/ SavesArtifact \/ RunsCheck
         \/ InputMoves \/ AgentReturns \/ ControlPlaneTest \/ TestAnswered
         \/ ControlPlaneAnswers \/ RunEvidenceFallback
  PROVE  Inv'
<1> USE DEF localVars, diskVars, roundVars
<1>0. TypeOK /\ CountedIsFresh
  BY DEF Inv
<1>a. phase \in {"agent", "answered"} => shape \notin Deterministic \cup Refused
  BY DEF Inv, HasAgent
<1>1. CASE CallsTool
  <2>1. TypeOK'
    BY <1>0, <1>1 DEF CallsTool, Logs, TypeOK
  <2>2. CountedIsFresh'
    BY <1>0, <1>1 DEF CallsTool, Logs, CountedIsFresh
  <2> QED
    BY <1>1, <1>a, <2>1, <2>2, RunningKeeps DEF CallsTool, Logs
<1>2. CASE WritesWorkspace
  <2>1. TypeOK'
    BY <1>0, <1>2 DEF WritesWorkspace, Logs, TypeOK
  <2>2. CountedIsFresh'
    BY <1>2 DEF WritesWorkspace, CountedIsFresh
  <2> QED
    BY <1>2, <1>a, <2>1, <2>2, RunningKeeps DEF WritesWorkspace, Logs
<1>3. CASE StagesFile
  <2>1. TypeOK' /\ CountedIsFresh'
    BY <1>0, <1>3 DEF StagesFile, TypeOK, CountedIsFresh
  <2> QED
    BY <1>3, <1>a, <2>1, RunningKeeps DEF StagesFile
<1>4. CASE SavesArtifact
  <2>1. /\ phase = "agent" /\ phase' = phase
        /\ UNCHANGED <<shape, tools, brief, marker, moved, answer, result, sequence, writes, staged,
                       evidence, failed_before, granted, forced, ledger, aborts, rounds, acted>>
    BY <1>4 DEF SavesArtifact
  <2>2. TypeOK' /\ CountedIsFresh'
    BY <1>0, <2>1 DEF TypeOK, CountedIsFresh
  <2> QED
    BY <1>a, <2>1, <2>2, RunningKeeps
<1>5. CASE RunsCheck
  <2>1. evidence' \in Seq(EvidenceRecords)
    BY <1>0, <1>5, EvidenceType, RecordedType DEF RunsCheck, TypeOK
  <2>2. TypeOK' /\ CountedIsFresh'
    BY <1>0, <1>5, <2>1 DEF RunsCheck, TypeOK, CountedIsFresh
  <2> QED
    BY <1>5, <1>a, <2>2, RunningKeeps DEF RunsCheck
<1>6. CASE InputMoves
  <2>1. TypeOK' /\ CountedIsFresh'
    BY <1>0, <1>6 DEF InputMoves, TypeOK, CountedIsFresh
  <2> QED
    BY <1>6, <1>a, <2>1, RunningKeeps DEF InputMoves
<1>7. CASE AgentReturns
  <2>1. TypeOK' /\ CountedIsFresh'
    BY <1>0, <1>7 DEF AgentReturns, TypeOK, CountedIsFresh
  <2> QED
    BY <1>7, <1>a, <2>1, RunningKeeps DEF AgentReturns
<1>8. CASE ControlPlaneTest
  <2>1. evidence' \in Seq(EvidenceRecords)
    BY <1>0, <1>8, ControlPlaneType DEF ControlPlaneTest, TypeOK
  <2>2. TypeOK' /\ CountedIsFresh'
    BY <1>0, <1>8, <2>1 DEF ControlPlaneTest, TypeOK, CountedIsFresh
  <2> QED
    BY <1>8, <2>2, RunningKeeps DEF ControlPlaneTest, Deterministic, Refused
<1>9. CASE TestAnswered
  <2>1. [check |-> "unit", status |-> "setup_failed", empty |-> FALSE] \in EvidenceRecords
    BY AttemptAssumption DEF EvidenceRecords, SandboxStatus
  <2>2. evidence' \in Seq(EvidenceRecords)
    BY <1>0, <1>9, <2>1, ControlPlaneType, RecordedType DEF TestAnswered, TypeOK
  <2>3. TypeOK' /\ CountedIsFresh' /\ phase = "answered" /\ phase' = phase /\ shape' = shape
    BY <1>0, <1>9, <2>2 DEF TestAnswered, Answered, TypeOK, CountedIsFresh
  <2> QED
    BY <1>a, <2>3, RunningKeeps
<1>10. CASE ControlPlaneAnswers
  <2>1. TypeOK' /\ CountedIsFresh'
    BY <1>0, <1>10 DEF ControlPlaneAnswers, TypeOK, CountedIsFresh
  <2> QED
    BY <1>10, <1>a, <2>1, RunningKeeps DEF ControlPlaneAnswers
<1>11. CASE RunEvidenceFallback
  <2>1. evidence' \in Seq(EvidenceRecords)
    BY <1>0, <1>11, ControlPlaneType DEF RunEvidenceFallback, TypeOK
  <2>2. TypeOK' /\ CountedIsFresh'
    BY <1>0, <1>11, <2>1 DEF RunEvidenceFallback, TypeOK, CountedIsFresh
  <2> QED
    BY <1>11, <1>a, <2>2, RunningKeeps DEF RunEvidenceFallback, Answered
<1> QED
  BY <1>1, <1>2, <1>3, <1>4, <1>5, <1>6, <1>7, <1>8, <1>9, <1>10, <1>11

----------------------------------------------------------------------------
\* The decision on a result, and the world around the call.

LEMMA DecideStep ==
  ASSUME Inv, Decide
  PROVE  Inv'
<1>0. TypeOK
  BY DEF Inv
<1>1. SignalKind \in FailureKind
  BY <1>0, SignalFacts DEF Decide, SignalKinds
<1>2. PICK f \in Prints :
        LET rec == ItemDecision(ledger, wi, SignalKind, f, result.retryable)
        IN  /\ ledger' = ChargedWith(rec)
            /\ \/ /\ rec.action = "retry_item"
                  /\ phase' = "start" /\ result' = NoResult /\ UNCHANGED saved
               \/ /\ rec.action \in {"request_replan", "block"}
                  /\ Leave("needs_replan") /\ UNCHANGED saved
               \/ /\ rec.action = "fail"
                  /\ SignalKind = "implementation_summary_missing"
                  /\ saved' = saved \cup {"implementation"} /\ Leave("completed")
               \/ rec.action = "fail" /\ Leave("failed") /\ UNCHANGED saved
            /\ failed_before' = (
                    \/ failed_before
                    \/ rec.action = "fail" /\ SignalKind = "code_delivery_incomplete")
  BY DEF Decide
<1> DEFINE rec == ItemDecision(ledger, wi, SignalKind, f, result.retryable)
<1>3. rec \in Record /\ ledger' = Append(ledger, rec)
  BY <1>1, <1>2, ItemRecord DEF ChargedWith
<1>4. \/ phase' = "start" /\ result' = NoResult /\ UNCHANGED saved
      \/ Leave("needs_replan") /\ UNCHANGED saved
      \/ /\ SignalKind = "implementation_summary_missing"
         /\ saved' = saved \cup {"implementation"} /\ Leave("completed")
      \/ Leave("failed") /\ UNCHANGED saved
  BY <1>2
<1>5. failed_before' \in BOOLEAN
  BY <1>0, <1>2 DEF TypeOK
<1>6. /\ tools' = "all" /\ brief' = "none" /\ marker' = 0 /\ moved' = FALSE
      /\ UNCHANGED <<shape, answer, sequence, writes, staged, evidence, granted, forced, aborts,
                     rounds, acted>>
      /\ phase = "decide"
  BY DEF Decide, Forget, roundVars
<1> HIDE DEF rec
<1>7. result' \in Results /\ phase' \in {"start", "ended"}
      /\ (phase' = "ended" => result'.status \in {"needs_replan", "completed", "failed"})
  BY <1>0, <1>4, ResultFacts DEF Leave, TypeOK, Results
<1>8. TypeOK'
  <2>1. ledger' \in Seq(Record)
    BY <1>0, <1>3 DEF TypeOK
  <2> QED
    BY <1>0, <1>5, <1>6, <1>7, <2>1 DEF TypeOK
<1>9. HasAgent' /\ CountedIsFresh' /\ NarrowedIsTold' /\ SummaryMissing' /\ GrantableVerdict'
  BY <1>7, ResultFacts
     DEF HasAgent, CountedIsFresh, NarrowedIsTold, SummaryMissing, GrantableVerdict, Verdict
<1>10. ProvenVerdict'
  <2>1. CASE /\ SignalKind = "implementation_summary_missing"
             /\ saved' = saved \cup {"implementation"} /\ Leave("completed")
    <3>1. shape \in Workspace /\ (shape = "code_repair" => acted)
      BY <1>0, <1>6, <2>1, SignalFacts DEF Inv, SummaryMissing
    <3> QED
      BY <1>6, <2>1, <3>1 DEF ProvenVerdict, Workspace, Designs, Integrations
  <2>2. CASE phase' = "start"
    BY <2>2 DEF ProvenVerdict, Verdict
  <2>3. CASE Leave("needs_replan") \/ Leave("failed")
    BY <1>0, <2>3 DEF ProvenVerdict, Leave, TypeOK, Results
  <2> QED
    BY <1>4, <2>1, <2>2, <2>3
<1> QED
  BY <1>8, <1>9, <1>10 DEF Inv

LEMMA OutsideSteps ==
  ASSUME Inv, RecordResult \/ Escalate \/ Abort \/ StartAgain \/ Approve
  PROVE  Inv'
<1> USE DEF localVars, diskVars, roundVars
<1>0. TypeOK
  BY DEF Inv
<1>1. CASE RecordResult /\ result.status # "agent_result"
  <2>1. /\ phase = "decide" /\ phase' = "ended" /\ result' = [result EXCEPT !.status = result.status]
        /\ forced' = (forced /\ result.status # "completed")
        /\ Forget /\ UNCHANGED <<ledger, shape, answer, diskVars, failed_before, granted, roundVars,
                                 acted>>
    BY <1>1 DEF RecordResult, Leave
  <2>2. result' = result
    BY <1>0, <2>1 DEF TypeOK, Results
  <2>3. TypeOK'
    BY <1>0, <2>1, <2>2 DEF TypeOK, Forget
  <2>4. HasAgent' /\ CountedIsFresh' /\ NarrowedIsTold' /\ SummaryMissing'
    BY <2>1 DEF HasAgent, CountedIsFresh, NarrowedIsTold, SummaryMissing
  <2>5. ProvenVerdict' /\ GrantableVerdict'
    BY <2>1, <2>2 DEF Inv, ProvenVerdict, GrantableVerdict, Verdict
  <2> QED
    BY <2>3, <2>4, <2>5 DEF Inv
<1>2. CASE Escalate
  <2>1. /\ phase = "decide" /\ phase' = "ended" /\ result' = [result EXCEPT !.status = "needs_replan"]
        /\ Forget /\ UNCHANGED <<ledger, shape, answer, diskVars, failed_before, granted, forced,
                                 roundVars, acted>>
    BY <1>2 DEF Escalate, Leave
  <2>2. result' \in Results /\ result'.status = "needs_replan"
    BY <1>0, <2>1 DEF TypeOK, Results
  <2>3. TypeOK'
    BY <1>0, <2>1, <2>2 DEF TypeOK, Forget
  <2>4. /\ HasAgent' /\ CountedIsFresh' /\ NarrowedIsTold' /\ SummaryMissing'
        /\ ProvenVerdict' /\ GrantableVerdict'
    BY <2>1, <2>2 DEF HasAgent, CountedIsFresh, NarrowedIsTold, SummaryMissing, ProvenVerdict,
                      GrantableVerdict
  <2> QED
    BY <2>3, <2>4 DEF Inv
<1>3. ASSUME phase' \in {"start", "down"}, TypeOK' PROVE Inv'
  BY <1>3 DEF Inv, HasAgent, CountedIsFresh, NarrowedIsTold, SummaryMissing, ProvenVerdict,
              GrantableVerdict, Verdict
<1>4. CASE RecordResult /\ result.status = "agent_result"
  <2>1. PICK f \in Prints :
          ledger' = Append(ledger, MonitorDecision(ledger, wi, "worker_crash", f, {wi}, TRUE))
    BY <1>4 DEF RecordResult
  <2>2. ledger' \in Seq(Record)
    <3> DEFINE rec == MonitorDecision(ledger, wi, "worker_crash", f, {wi}, TRUE)
    <3>1. "worker_crash" \in FailureKind
      BY NamedKinds
    <3>2. rec \in Record /\ ledger' = Append(ledger, rec)
      BY <2>1, <3>1, MonitorRecord, Bounds
    <3> HIDE DEF rec
    <3> QED
      BY <1>0, <3>2 DEF TypeOK
  <2>3. TypeOK' /\ phase' = "down"
    BY <1>0, <1>4, <2>2, ResultFacts DEF RecordResult, Forget, TypeOK
  <2> QED
    BY <1>3, <2>3
<1>5. CASE Abort
  <2>1. PICK r \in Items, k \in ResumeKinds \cap Kinds, f \in Prints :
          ledger' = Append(ledger, MonitorDecision(ledger, r, k, f, {r, wi}, TRUE))
    BY <1>5 DEF Abort
  <2>2. ledger' \in Seq(Record)
    <3> DEFINE rec == MonitorDecision(ledger, r, k, f, {r, wi}, TRUE)
    <3>1. k \in FailureKind /\ {r, wi} \in SUBSET Items
      BY KindAssumption, Bounds
    <3>2. rec \in Record /\ ledger' = Append(ledger, rec)
      BY <2>1, <3>1, MonitorRecord
    <3> HIDE DEF rec
    <3> QED
      BY <1>0, <3>2 DEF TypeOK
  <2>3. /\ aborts < MaxAborts /\ aborts' = aborts + 1 /\ phase' = "down" /\ result' = NoResult
        /\ Forget
        /\ UNCHANGED <<shape, answer, diskVars, failed_before, granted, forced, rounds, acted>>
    BY <1>5 DEF Abort
  <2>4. aborts' \in 0..MaxAborts
    BY <1>0, <2>3, Bounds DEF TypeOK
  <2>5. TypeOK' /\ phase' = "down"
    BY <1>0, <2>2, <2>3, <2>4, ResultFacts DEF Forget, TypeOK
  <2> QED
    BY <1>3, <2>5
<1>6. CASE StartAgain
  <2>1. forced' \in BOOLEAN /\ acted' \in BOOLEAN
    BY <1>0, <1>6 DEF StartAgain, TypeOK
  <2>2. TypeOK' /\ phase' = "start"
    BY <1>0, <1>6, <2>1, ResultFacts, Bounds DEF StartAgain, TypeOK
  <2> QED
    BY <1>3, <2>2
<1>7. CASE Approve
  <2>1. TypeOK'
    BY <1>0, <1>7 DEF Approve, TypeOK
  <2>2. /\ HasAgent' /\ CountedIsFresh' /\ NarrowedIsTold' /\ SummaryMissing'
        /\ ProvenVerdict' /\ GrantableVerdict'
    BY <1>7 DEF Approve, Inv, HasAgent, CountedIsFresh, NarrowedIsTold, SummaryMissing,
                ProvenVerdict, GrantableVerdict, Verdict
  <2> QED
    BY <2>1, <2>2 DEF Inv
<1> QED
  BY <1>1, <1>2, <1>4, <1>5, <1>6, <1>7

LEMMA InitInv == Init => Inv
<1> SUFFICES ASSUME Init PROVE Inv
  OBVIOUS
<1>1. /\ aborts \in 0..MaxAborts /\ rounds \in 0..MaxRounds /\ sequence \in Nat /\ marker \in Nat
      /\ writes \subseteq 1..sequence
  BY Bounds DEF Init
<1>2. evidence \in Seq(EvidenceRecords) /\ ledger \in Seq(Record)
  BY DEF Init
<1>3. TypeOK
  BY <1>1, <1>2, ResultFacts DEF Init, TypeOK
<1> QED
  BY <1>3 DEF Init, Inv, HasAgent, CountedIsFresh, NarrowedIsTold, SummaryMissing, ProvenVerdict,
              GrantableVerdict, Verdict

LEMMA StepInv == Inv /\ [Next]_vars => Inv'
<1> SUFFICES ASSUME Inv, [Next]_vars PROVE Inv'
  OBVIOUS
<1>1. CASE Before
  BY <1>1, EndingSteps, StartAgentStep, RunningSteps DEF Before
<1>2. CASE Calls \/ InputMoves
  BY <1>2, RunningSteps DEF Calls
<1>3. CASE AgentEnds
  BY <1>3, RunningSteps, EndingSteps DEF AgentEnds
<1>4. CASE After
  BY <1>4, RunningSteps, EndingSteps, OutsideSteps, DecideStep DEF After
<1>5. CASE Abort \/ StartAgain \/ Approve
  BY <1>5, OutsideSteps
<1>6. CASE UNCHANGED vars
  <2>1. TypeOK'
    BY <1>6 DEF vars, localVars, diskVars, roundVars, Inv, TypeOK
  <2> QED
    BY <1>6, <2>1 DEF vars, localVars, diskVars, roundVars, Inv, HasAgent, CountedIsFresh,
                      NarrowedIsTold, SummaryMissing, ProvenVerdict, GrantableVerdict, Verdict
<1> QED
  BY <1>1, <1>2, <1>3, <1>4, <1>5, <1>6 DEF Next

LEMMA Invariance == Spec => []Inv
BY InitInv, StepInv, PTL DEF Spec

\* The state of the call, of the files and of the ledger keeps its types.
THEOREM AttemptTypeCorrect == Spec => []TypeOK
<1>1. Inv => TypeOK
  BY DEF Inv
<1> QED
  BY <1>1, Invariance, PTL

\* Whichever path completes an item (gate, recovery, control plane or filed summary,
\* over any retries, aborts and rounds), its output is there, a completed test rests on
\* evidence that passed, and a completed repair changed a file
\* (runner.py _run_item and _run_item_with_retries).
THEOREM CompletionProven == Spec => []CompletedProven
<1>1. Inv => CompletedProven
  BY DEF Inv, ProvenVerdict, Verdict, CompletedProven, CompletedDelivered, CompletedTestPassed
<1> QED
  BY <1>1, Invariance, PTL

\* No Agent whose tools are all local waits for an approval that nobody can give
\* (the conversions of a misreported tool in runner.py _run_item).
THEOREM WaitsAreGrantable == Spec => []WaitsForGrantable
<1>1. Inv => WaitsForGrantable
  BY DEF Inv, GrantableVerdict, Unconverted, Verdict, WaitsForGrantable
<1> QED
  BY <1>1, Invariance, PTL

\* Whatever the ledger and the memory hold, an Agent left with its writer alone gets
\* the prompt that says so (runner.py _tool_allowlist_for_attempt and _run_item).
THEOREM NarrowingIsTold == Spec => []NarrowedIsTold
<1>1. Inv => NarrowedIsTold
  BY DEF Inv
<1> QED
  BY <1>1, Invariance, PTL
=============================================================================
