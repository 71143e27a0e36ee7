---------------------------- MODULE GraphRunner ----------------------------
(***************************************************************************)
(* One Trace's delivery DAG: GraphRunner.run and its batch threads         *)
(* (app/orchestration/runner.py), the wave repair loop around it, the      *)
(* monitor that closes a dead Worker and the checkpoint-based resume       *)
(* (app/application/runs.py).  One Worker runs the Trace at a time; what   *)
(* happens when that is not so is the subject of WorkerLifecycle.          *)
(*                                                                         *)
(* A RunState is (done, bad, forced, orphan): items with a completed       *)
(* result, items with another result, items whose staged output must not   *)
(* be reused, items with a recovery diagnostic but no forced marker.  The  *)
(* event log is abstracted to the set of items whose last terminal event   *)
(* is work_item_completed, a ChangeSet to the number of its last commit,   *)
(* and the ledger to the records that charge a budget (the others neither  *)
(* count nor steer a resume; RetryLedger has them).                        *)
(***************************************************************************)
EXTENDS RetryPolicy

CONSTANTS
    Rank,          \* plan order of the items
    Deps,          \* dependency_ids
    Wave,          \* wave of each item
    Agent,         \* agent_id of each item
    Limit,         \* max_parallel_instances of each agent
    Code,          \* PARTITIONED code_agent items: they deliver ChangeSets
    Integrators,   \* code_integration_agent items
    Environment,   \* bootstrap_agent items
    Architecture,  \* architecture items whose staged output is revalidated
    max_workers,
    MaxCommits,    \* bound on the commits of one ChangeSet
    MaxCrashes,    \* bound on Worker and host crashes
    MaxResumes     \* bound on resume requests

ASSUME PlanAssumption ==
    /\ IsFiniteSet(Items)
    /\ Rank \in [Items -> Nat] /\ \A i, j \in Items : Rank[i] = Rank[j] => i = j
    /\ Deps \in [Items -> SUBSET Items]
    /\ Wave \in [Items -> Nat]
    /\ Code \subseteq Items /\ Integrators \subseteq Items \ Code
    /\ Environment \subseteq Items \ (Code \cup Integrators)
    /\ Architecture \subseteq Items \ (Code \cup Integrators \cup Environment)
    /\ max_workers \in Nat \ {0}
    /\ \A i \in Items : Limit[Agent[i]] \in Nat \ {0}

\* The compiler's wave barrier: a consumer of a code wave depends on all of it,
\* and so is not a member of it.
ASSUME WaveAssumption ==
    \A i \in Items, d, e \in Code :
        d \in Deps[i] /\ Wave[e] = Wave[d] => e \in Deps[i]

MaxRepairs == 2

----------------------------------------------------------------------------
VARIABLES
    \* durable: files of the Trace
    ledger, applied, doneEvent, ckpt, dckpt, trace, change, integrated,
    waveDone, open, batch, cancel,
    \* volatile: the Worker (or, while submitting, the API process)
    pc, done, bad, forced, orphan, outcome, terminal, blamed, repairs,
    \* bounds and history
    crashes, resumes, revoked, owed, proven

eventVars == <<applied, doneEvent>>
gitVars == <<change, integrated, waveDone>>
progressVars == <<open, batch>>
stateVars == <<done, bad, forced, orphan>>
repairVars == <<terminal, blamed, repairs>>
countVars == <<crashes, resumes>>
historyVars == <<revoked, owed, proven>>
vars == <<ledger, eventVars, ckpt, dckpt, trace, gitVars, progressVars, cancel,
          pc, stateVars, outcome, repairVars, countVars, historyVars>>

----------------------------------------------------------------------------
\* Graph helpers.  Both recursions of the code run to a fixpoint, so they are
\* the least closed superset and the greatest closed subset.

Closed(S) == \A i \in S : Deps[i] \subseteq S

DescendantClosed(S) == \A i \in Items : Deps[i] \cap S # {} => i \in S

Descendants(S) ==
    {i \in Items : \A T \in SUBSET Items :
                        S \subseteq T /\ DescendantClosed(T) => i \in T}

\* Mutant: a downstream completion is reused whatever happened upstream.
Prune_Nothing(S) == S

Prune(S) == UNION {T \in SUBSET S : Closed(T)}

FirstOf(S) == CHOOSE i \in S : \A j \in S : Rank[i] <= Rank[j]

Members(w) == {i \in Code : Wave[i] = w}

Commit(i) == <<i, change[i]>>

Idle == [i \in Items |-> "idle"]

\* terminal_graph_result is None.
NoVerdict == [status |-> "none", by |-> NoItem, retryable |-> FALSE]

\* RunState.as_checkpoint; from_checkpoint refuses a file whose diagnostics
\* are not exactly those of its forced items, which "ok" records.
Checkpoint(d, f, o) == [done |-> d, forced |-> f, ok |-> o = {}]

NoCheckpoint == [done |-> {}, forced |-> {}, ok |-> FALSE]

\* RunState.ready_items.
ready_items ==
    {i \in Items \ (done \cup bad) : Deps[i] \subseteq done}

\* _select_schedulable_items: greedy in plan order within the earliest wave.
Selected(S) ==
    LET earliest == {i \in ready_items : \A j \in ready_items : Wave[i] <= Wave[j]}
        before(i) == {j \in S : Rank[j] < Rank[i]}
    IN  /\ S \subseteq earliest
        /\ \A i \in earliest :
              i \in S <=> /\ Cardinality(before(i)) < max_workers
                          /\ Cardinality({j \in before(i) : Agent[j] = Agent[i]})
                                < Limit[Agent[i]]

\* _integrate_ready_waves: a wave is skipped when it was integrated with the
\* current commit of every member, or when a member is not completed.
WaveSettled(w) ==
    w \in waveDone /\ \A i \in Members(w) : Commit(i) \in integrated

ReadyWaves ==
    {w \in {Wave[i] : i \in Code} : ~WaveSettled(w) /\ Members(w) \subseteq done}

\* A new run was submitted: plan persisted, nothing executed.
Init ==
    /\ ledger = <<>> /\ applied = {} /\ doneEvent = {}
    /\ ckpt = NoCheckpoint /\ dckpt = NoCheckpoint
    /\ trace = "running"
    /\ change = [i \in Items |-> 0] /\ integrated = {} /\ waveDone = {}
    /\ open = {} /\ batch = {} /\ cancel = FALSE
    /\ pc = "boot"
    /\ done = {} /\ bad = {} /\ forced = {} /\ orphan = {}
    /\ outcome = Idle
    /\ terminal = NoVerdict /\ blamed = {} /\ repairs = 0
    /\ crashes = 0 /\ resumes = 0
    /\ revoked = {} /\ owed = {} /\ proven = {}

----------------------------------------------------------------------------
\* _load_delivery_resume.

\* Mutant: the event log is not consulted.
Rebuilt_Ignored == {}

\* _rebuild_delivery_state.
Rebuilt == Prune(doneEvent)

Readable == {c \in {ckpt, dckpt} : c.ok}

\* The richest view; on equal size the rebuilt one, then checkpoint.json.
Richest ==
    LET size(c) == IF c.ok THEN Cardinality(c.done) ELSE 0
    IN  IF \A c \in Readable : Cardinality(c.done) <= Cardinality(Rebuilt)
        THEN [done |-> Rebuilt, forced |-> {}]
        ELSE IF size(dckpt) <= size(ckpt) THEN ckpt ELSE dckpt

\* Forced markers of any checkpoint whose item the chosen view left open.
MergedForced ==
    Richest.forced \cup UNION {c.forced \ Richest.done : c \in Readable}

\* _apply_monitor_retry_recovery: the unconsumed resume/retry_batch records.
Unapplied == {n \in 1..Len(ledger) : IsRecovery(ledger[n])} \ applied

Frontier(n) == ({ledger[n].root} \cap Items) \cup ledger[n].interrupted

Invalidated == Descendants(UNION {Frontier(n) : n \in Unapplied})

\* _sanitize_resume_state drops the integrators whose published workspace no
\* longer validates (invalid) and everything that depended on them.
Sanitized(invalid) == Prune((Richest.done \ Invalidated) \ invalid)

\* History: completions whose dependency the log has withdrawn and, where the
\* chosen checkpoint counts more than what the log proves (an item withdrawn there,
\* a bootstrap item, or one that stands on such an item), those it leaves out and
\* those it holds without their dependencies.
Outvoted ==
    (doneEvent \ Prune(doneEvent))
        \cup (IF Richest.done \subseteq Prune(doneEvent) THEN {}
              ELSE doneEvent \ Prune(Richest.done))

LoadResume(invalid) ==
    /\ invalid \subseteq Integrators \cap (Richest.done \ Invalidated)
    /\ applied' = applied \cup Unapplied
    /\ done' = Sanitized(invalid)
    /\ bad' = {}
    /\ forced' = MergedForced
    /\ orphan' = invalid \ MergedForced
    /\ revoked' = revoked \cup Descendants(invalid) \cup Outvoted
    /\ UNCHANGED doneEvent

\* RunService.resume_run up to the durable retry_recovery_applied events; a
\* Trace left "running" is resumable because its API process is gone.
ResumeRun ==
    /\ pc = "off" /\ resumes < MaxResumes
    /\ trace \in {"failed", "blocked", "waiting", "needs_replan", "running"}
    /\ \E invalid \in SUBSET Integrators : LoadResume(invalid)
    /\ resumes' = resumes + 1
    /\ pc' = "submit"
    /\ UNCHANGED <<ledger, ckpt, dckpt, trace, gitVars, progressVars, cancel,
                   outcome, repairVars, crashes, owed, proven>>

\* mark_running and RunCoordinator.submit: persist the resumed state.
Submit ==
    /\ pc = "submit"
    /\ ckpt' = Checkpoint(done, forced, orphan)
    /\ trace' = "running"
    /\ pc' = "boot"
    /\ done' = {} /\ forced' = {} /\ orphan' = {}
    /\ UNCHANGED <<ledger, eventVars, dckpt, gitVars, progressVars, cancel, bad,
                   outcome, repairVars, countVars, historyVars>>

\* _worker_entry: the Worker loads the Trace a second time, honours a pending
\* cancellation, else clears the control file and resets the progress file.
WorkerEntry ==
    /\ pc = "boot"
    /\ \E invalid \in SUBSET Integrators : LoadResume(invalid)
    /\ IF cancel THEN pc' = "off" /\ trace' = "cancelled"
                 ELSE pc' = "run" /\ UNCHANGED trace
    /\ cancel' = FALSE
    /\ open' = {} /\ batch' = {}
    /\ repairs' = 0 /\ blamed' = {}
    /\ terminal' = NoVerdict
    /\ UNCHANGED <<ledger, ckpt, dckpt, gitVars, outcome, countVars, owed, proven>>

----------------------------------------------------------------------------
\* GraphRunner.run: the top of the scheduling loop.

Loop == pc = "loop" /\ ~cancel

\* _run_ready_items returned: every thread of the batch has a result.
Returned == \A i \in batch : outcome[i] \notin {"queued", "running"}

\* _finish_trace, and the Worker's exit: it closes the progress file.
LeaveWith(status) ==
    /\ trace' = status /\ pc' = "off"
    /\ open' = {} /\ batch' = {} /\ outcome' = Idle

\* _validate_restored_architecture: a completed architecture item whose staged
\* output no longer validates stops the run for a replan that is not retryable.
RestoredArchitectureInvalid ==
    /\ pc = "run"
    /\ \E lost \in SUBSET (Architecture \cap done) \ {{}} :
          /\ done' = done \ Descendants(lost) /\ bad' = bad \ Descendants(lost)
          /\ revoked' = revoked \cup Descendants(lost)
    /\ ckpt' = Checkpoint(done', forced, orphan)
    /\ LeaveWith("needs_replan")
    /\ UNCHANGED <<ledger, eventVars, dckpt, gitVars, cancel, forced, orphan,
                   repairVars, countVars, owed, proven>>

\* The start of run: the plan's first bootstrap item is recorded as completed as
\* soon as the project's environment is prepared, whatever its dependencies are.
StartRun ==
    /\ pc = "run"
    /\ pc' = "loop"
    /\ \/ UNCHANGED <<ckpt, stateVars, proven>>
       \/ \E i \in Environment \ (done \cup bad) :
             /\ i = FirstOf(Environment)
             /\ done' = done \cup {i}
             /\ forced' = forced \ {i} /\ orphan' = orphan \ {i}
             /\ ckpt' = Checkpoint(done', forced', orphan')
             /\ proven' = proven \cup {i}
             /\ UNCHANGED bad
    /\ UNCHANGED <<ledger, eventVars, dckpt, trace, gitVars, progressVars, cancel,
                   outcome, repairVars, countVars, revoked, owed>>

\* cancelled_result at the loop head and before each collected result; results
\* that the threads already returned are dropped with the batch.
Cancelled ==
    /\ cancel
    /\ \/ pc = "loop"
       \/ pc = "batch" /\ Returned /\ batch \ (done \cup bad) # {}
    /\ LeaveWith("cancelled")
    /\ UNCHANGED <<ledger, eventVars, ckpt, dckpt, gitVars, cancel,
                   stateVars, repairVars, countVars, historyVars>>

\* Mutant: a batch starts before the completed waves are merged.
Merged_Later == TRUE

\* All completed waves are merged before a batch is selected or the graph ends.
Merged == ReadyWaves = {}

NextWave(w) == w \in ReadyWaves /\ \A v \in ReadyWaves : w <= v

\* integrate_wave publishes the members' commits and refreshes the baseline;
\* the code_wave_integrated event follows.
IntegrateWave(w) ==
    /\ Loop /\ NextWave(w)
    /\ integrated' = integrated \cup {Commit(i) : i \in Members(w)}
    /\ waveDone' = waveDone \cup {w}
    /\ UNCHANGED <<ledger, eventVars, ckpt, dckpt, trace, change, progressVars,
                   cancel, pc, stateVars, outcome, repairVars, countVars,
                   historyVars>>

\* A conflict or a semantic gate refuses the merge: the owners of the files in
\* the diagnostic, or the whole wave, are to be repaired.
WaveIntegrationFails(w) ==
    /\ Loop /\ NextWave(w)
    /\ \E owners \in SUBSET Members(w) \ {{}} : blamed' = owners
    /\ terminal' = [status |-> "needs_replan", by |-> NoItem, retryable |-> TRUE]
    /\ trace' = "needs_replan" /\ pc' = "repair"
    /\ UNCHANGED <<ledger, eventVars, ckpt, dckpt, gitVars, progressVars, cancel,
                   stateVars, outcome, repairs, countVars, historyVars>>

\* Every item completed: the review, quality, traceability and artifact gates
\* decide between completed and blocked.
GraphCompletes ==
    /\ Loop /\ Merged /\ done = Items
    /\ \E status \in {"completed", "blocked"} : LeaveWith(status)
    /\ UNCHANGED <<ledger, eventVars, ckpt, dckpt, gitVars, cancel, stateVars,
                   repairVars, countVars, historyVars>>

NoReadyItem ==
    /\ Loop /\ Merged /\ done # Items /\ ready_items = {}
    /\ LeaveWith("failed")
    /\ UNCHANGED <<ledger, eventVars, ckpt, dckpt, gitVars, cancel, stateVars,
                   repairVars, countVars, historyVars>>

StartBatch ==
    /\ Loop /\ Merged
    /\ \E S \in SUBSET ready_items \ {{}} :
          /\ Selected(S)
          /\ batch' = S
          /\ outcome' = [i \in Items |-> IF i \in S THEN "queued" ELSE "idle"]
    /\ pc' = "batch"
    /\ terminal' = NoVerdict /\ blamed' = {}
    /\ UNCHANGED <<ledger, eventVars, ckpt, dckpt, trace, gitVars, open, cancel,
                   stateVars, repairs, countVars, historyVars>>

----------------------------------------------------------------------------
\* The threads of the batch: _run_item_with_retries around _run_item.

BecomesA(i, from, to) ==
    /\ pc = "batch" /\ outcome[i] = from
    /\ outcome' = [outcome EXCEPT ![i] = to]
    /\ UNCHANGED <<eventVars, ckpt, dckpt, trace, integrated, waveDone, batch,
                   cancel, pc, stateVars, terminal, repairs, countVars, historyVars>>

\* _recover_durable_work_item: a validated ChangeSet that an interrupted
\* attempt left behind is reused, unless the item must rerun.
RecoverDurable(i) ==
    /\ BecomesA(i, "queued", "recovered")
    /\ i \in Code \ forced /\ change[i] > 0
    /\ UNCHANGED <<ledger, change, open, blamed>>

\* No reusable output (or one the delivery validation rejects): call the Agent.
StartAttempt(i) ==
    /\ BecomesA(i, "queued", "running")
    /\ open' = open \cup {i}
    /\ UNCHANGED <<ledger, change, blamed>>

\* write_staged_code_file: each call commits in the item's worktree.
WriteChange(i) ==
    /\ BecomesA(i, "running", "running")
    /\ i \in Code /\ change[i] < MaxCommits
    /\ change' = [change EXCEPT ![i] = @ + 1]
    /\ UNCHANGED <<ledger, open, blamed>>

\* The attempt passes its evidence checks; code needs a ChangeSet.
AttemptCompletes(i) ==
    /\ BecomesA(i, "running", "completed")
    /\ i \in Code => change[i] > 0
    /\ UNCHANGED <<ledger, change, open, blamed>>

\* A replan on a failure that is not retryable is "rejected": no planner repair.
AfterDecision(rec, retryable) ==
    CASE rec.action = "retry_item" -> {"queued"}
      [] rec.action \in {"block", "request_replan"} ->
            {IF rec.kind \in {"sandbox_setup", "runtime_preflight"} THEN "blocked"
             ELSE IF retryable THEN "replan" ELSE "rejected"}
      [] rec.kind = "implementation_summary_missing" -> {"failed", "completed"}
      [] OTHER -> {"failed"}

\* Mutant: a retry is executed without being charged.
Recorded_Uncharged(rec) == ledger

\* _record_retry_decision; the ledger here keeps the records that charge.
Recorded(rec) ==
    IF rec.action \in budget_actions THEN Append(ledger, rec) ELSE ledger

\* A failed attempt: the decision is durable before it is executed.
AttemptFails(i) ==
    \E k \in Kinds \ ResumeKinds, f \in Prints, ok \in BOOLEAN :
        LET rec == ItemDecision(ledger, i, k, f, ok)
        IN  /\ ~(i \in Integrators /\ k = "code_delivery_incomplete")
            /\ \E to \in AfterDecision(rec, ok) : BecomesA(i, "running", to)
            /\ ledger' = Recorded(rec)
            /\ UNCHANGED <<change, open, blamed>>

\* A code_delivery_incomplete of the integrator names the owners to repair and
\* bypasses the retry policy.
EscalatesToOwners(i) ==
    /\ BecomesA(i, "running", "replan")
    /\ i \in Integrators
    /\ \E owners \in SUBSET (Code \cap Deps[i]) \ {{}} : blamed' = owners
    /\ UNCHANGED <<ledger, change, open>>

\* The Agent asks for a capability it does not have.
AttemptWaits(i) ==
    /\ BecomesA(i, "running", "waiting")
    /\ UNCHANGED <<ledger, change, open, blamed>>

----------------------------------------------------------------------------
\* run: collecting the batch in plan order.

Pending == batch \ (done \cup bad)

Completes(i) ==
    /\ done' = done \cup {i} /\ UNCHANGED bad
    /\ forced' = forced \ {i} /\ orphan' = orphan \ {i}
    /\ doneEvent' = doneEvent \cup {i}
    /\ open' = open \ {i}
    /\ proven' = proven \cup {i} /\ revoked' = revoked \ {i}
    /\ owed' = IF outcome[i] = "completed" THEN owed \ {i} ELSE owed
    /\ UNCHANGED terminal

StatusOf ==
    [failed |-> {"failed"}, blocked |-> {"blocked"},
     replan |-> {"needs_replan"}, rejected |-> {"needs_replan"},
     waiting |-> {"waiting", "blocked", "failed"}]

\* A failed item is closed in the progress file; one that waits for a replan or
\* a capability stays open there.  The first bad result ends the run.
EndsRun(i) ==
    /\ bad' = bad \cup {i} /\ UNCHANGED <<done, forced, orphan>>
    /\ doneEvent' = doneEvent \ {i}
    /\ open' = IF outcome[i] = "failed" THEN open \ {i} ELSE open
    /\ IF terminal.status = "none"
       THEN \E s \in StatusOf[outcome[i]] :
               terminal' = [status |-> s, by |-> i,
                            retryable |-> outcome[i] = "replan"]
       ELSE UNCHANGED terminal
    /\ UNCHANGED historyVars

\* RunState.record and _record_result for the next item in plan order; a
\* capability the control plane provides itself turns waiting into completed.
Collect ==
    /\ pc = "batch" /\ ~cancel /\ Returned /\ Pending # {}
    /\ LET i == FirstOf(Pending)
       IN  \/ outcome[i] \in {"completed", "recovered"} /\ Completes(i)
           \/ outcome[i] = "waiting" /\ i \notin Code \cup Integrators /\ Completes(i)
           \/ outcome[i] \in DOMAIN StatusOf /\ EndsRun(i)
    /\ pc' = "save"
    /\ UNCHANGED <<ledger, applied, ckpt, dckpt, trace, gitVars, batch, cancel,
                   outcome, blamed, repairs, countVars>>

\* _record_checkpoint.
Save ==
    /\ pc = "save"
    /\ ckpt' = Checkpoint(done, forced, orphan)
    /\ pc' = "batch"
    /\ UNCHANGED <<ledger, eventVars, dckpt, trace, gitVars, progressVars, cancel,
                   stateVars, outcome, repairVars, countVars, historyVars>>

\* _finish_monitor_batch, then the next round or the terminal graph result.
FinishBatch ==
    /\ pc = "batch" /\ Pending = {}
    /\ IF terminal.status \in {"none", "needs_replan"}
       THEN /\ batch' = {} /\ outcome' = Idle /\ UNCHANGED open
            /\ IF terminal.status = "none"
               THEN pc' = "loop" /\ UNCHANGED trace
               ELSE pc' = "repair" /\ trace' = "needs_replan"
       ELSE LeaveWith(terminal.status)
    /\ UNCHANGED <<ledger, eventVars, ckpt, dckpt, gitVars, cancel, stateVars,
                   repairVars, countVars, historyVars>>

----------------------------------------------------------------------------
\* _run_with_repairs: the owners a merge or an integrator named run again, with
\* everything downstream of them; only delivery-checkpoint.json says so.

Repairable ==
    /\ repairs < MaxRepairs
    /\ terminal.by \in Integrators \cup {NoItem} /\ blamed # {}

Affected == Descendants(blamed)

WaveRepair ==
    /\ pc = "repair" /\ Repairable
    /\ done' = done \ Affected /\ bad' = bad \ Affected
    /\ forced' = forced \cup blamed /\ orphan' = orphan \ blamed
    /\ dckpt' = Checkpoint(done', forced', orphan')
    /\ trace' = "running" /\ pc' = "run"
    /\ repairs' = repairs + 1
    /\ terminal' = NoVerdict /\ blamed' = {}
    /\ revoked' = revoked \cup Affected /\ owed' = owed \cup blamed
    /\ UNCHANGED <<ledger, eventVars, ckpt, gitVars, progressVars, cancel, outcome,
                   countVars, proven>>

ByPlanner == ~Repairable /\ repairs < MaxRepairs /\ terminal.retryable

\* Any other retryable failure: the planner makes a repair DAG, which overwrites
\* plan.json and checkpoint.json and here completes.  RepairCycle has the states
\* in between and the repairs that fail or are interrupted.
PlannerRepair ==
    /\ pc = "repair" /\ ByPlanner
    /\ dckpt' = Checkpoint(done, forced, orphan)
    /\ ckpt' = NoCheckpoint
    /\ trace' = "running" /\ pc' = "reload"
    /\ repairs' = repairs + 1
    /\ UNCHANGED <<ledger, eventVars, gitVars, progressVars, cancel, stateVars,
                   outcome, terminal, blamed, countVars, historyVars>>

\* _load_delivery_resume after the repair: the rest of the delivery DAG runs.
ReloadDelivery ==
    /\ pc = "reload"
    /\ \E invalid \in SUBSET Integrators : LoadResume(invalid)
    /\ pc' = "run"
    /\ terminal' = NoVerdict /\ blamed' = {}
    /\ UNCHANGED <<ledger, ckpt, dckpt, trace, gitVars, progressVars, cancel,
                   outcome, repairs, countVars, owed, proven>>

\* Not retryable, or the two repair rounds are used up: the verdict stands.
GiveUp ==
    /\ pc = "repair" /\ ~Repairable /\ ~ByPlanner
    /\ LeaveWith(trace)
    /\ UNCHANGED <<ledger, eventVars, ckpt, dckpt, gitVars, cancel, stateVars,
                   repairVars, countVars, historyVars>>

----------------------------------------------------------------------------
\* Termination from outside: crashes, watchdog, cancellation.

Live == {"boot", "run", "loop", "batch", "save", "repair", "reload"}

Dies(next) ==
    /\ pc' = next
    /\ outcome' = Idle
    /\ UNCHANGED <<ledger, eventVars, ckpt, dckpt, trace, change, progressVars,
                   cancel, stateVars, repairVars, resumes, historyVars>>

\* The Worker process ends at any point: a crash, a kill after a stall or a
\* timeout, or a kill by RunCoordinator.cancel.
Kill ==
    /\ pc \in Live
    /\ IF cancel THEN UNCHANGED crashes
                 ELSE crashes < MaxCrashes /\ crashes' = crashes + 1
    /\ Dies("dead")
    /\ UNCHANGED <<integrated, waveDone>>

\* ... also between a wave's merge and its code_wave_integrated event.
KillDuringMerge(w) ==
    /\ Loop /\ NextWave(w) /\ crashes < MaxCrashes
    /\ crashes' = crashes + 1
    /\ integrated' = integrated \cup {Commit(i) : i \in Members(w)}
    /\ Dies("dead")
    /\ UNCHANGED waveDone

\* Worker and API process are both lost: nobody closes the Trace.
HostCrash ==
    /\ pc \in Live \cup {"submit", "dead"} /\ crashes < MaxCrashes
    /\ crashes' = crashes + 1
    /\ Dies("off")
    /\ UNCHANGED <<integrated, waveDone>>

Closes(status) ==
    /\ trace' = status /\ pc' = "off" /\ open' = {} /\ batch' = {}
    /\ UNCHANGED <<applied, ckpt, dckpt, gitVars, cancel, stateVars, outcome,
                   repairVars, countVars, owed, proven>>

\* The root of a dead run: the stalled item, else the first expected member of
\* the active batch.
RootChoices(k) ==
    IF k = "provider_stall" THEN open
    ELSE {IF batch = {} THEN NoItem ELSE FirstOf(batch)}

\* _finalize_external_run with outcome FAILED.
Finalize ==
    /\ pc = "dead" /\ ~cancel
    /\ \E k \in Kinds \cap ResumeKinds, f \in Prints : \E r \in RootChoices(k) :
          LET active == IF open # {} THEN open ELSE batch
              rec == MonitorDecision(ledger, r, k, f, active, batch # {})
              charged == rec.action \in budget_actions
          IN  /\ ledger' = Recorded(rec)
              /\ doneEvent' = doneEvent \ (IF r = NoItem THEN open ELSE open \cap {r})
              /\ revoked' = IF charged
                            THEN revoked \cup Descendants(active \cup ({r} \cap Items))
                            ELSE revoked
    /\ Closes("failed")

\* The Worker died after a needs_replan verdict: the monitor keeps it.
KeepVerdict ==
    /\ pc = "dead" /\ trace = "needs_replan"
    /\ Closes(trace)
    /\ UNCHANGED <<ledger, doneEvent, revoked>>

\* _finalize_external_run with outcome CANCELLED: no retry record.
FinalizeCancelled ==
    /\ pc = "dead" /\ cancel
    /\ Closes("cancelled")
    /\ UNCHANGED <<ledger, doneEvent, revoked>>

\* RunCoordinator.cancel of a Trace that is not terminal; without a Worker it
\* closes the Trace itself.
Cancel ==
    /\ trace \in {"running", "waiting", "needs_replan"} /\ ~cancel
    /\ cancel' = TRUE
    /\ trace' = IF pc = "off" THEN "cancelled" ELSE trace
    /\ UNCHANGED <<ledger, eventVars, ckpt, dckpt, gitVars, progressVars, pc,
                   stateVars, outcome, repairVars, countVars, historyVars>>

----------------------------------------------------------------------------
Thread(i) ==
    \/ RecoverDurable(i) \/ StartAttempt(i) \/ WriteChange(i)
    \/ AttemptCompletes(i) \/ AttemptFails(i) \/ EscalatesToOwners(i)
    \/ AttemptWaits(i)

\* What the Worker, and the monitor of a dead Worker, do on their own.
Progress ==
    \/ Submit \/ WorkerEntry \/ RestoredArchitectureInvalid \/ StartRun \/ Cancelled
    \/ \E w \in {Wave[i] : i \in Code} : IntegrateWave(w) \/ WaveIntegrationFails(w)
    \/ GraphCompletes \/ NoReadyItem \/ StartBatch
    \/ \E i \in Items : Thread(i)
    \/ Collect \/ Save \/ FinishBatch
    \/ WaveRepair \/ PlannerRepair \/ ReloadDelivery \/ GiveUp
    \/ Finalize \/ KeepVerdict \/ FinalizeCancelled

Outside ==
    \/ ResumeRun \/ Cancel \/ Kill \/ HostCrash
    \/ \E w \in {Wave[i] : i \in Code} : KillDuringMerge(w)

Next == Progress \/ Outside

Spec == Init /\ [][Next]_vars

\* The Worker and the monitor keep running; requests and crashes are not fair.
FairSpec == Spec /\ WF_vars(Progress)
----------------------------------------------------------------------------
Statuses ==
    {"running", "completed", "blocked", "waiting", "needs_replan", "failed",
     "cancelled"}

Outcomes ==
    {"idle", "queued", "running", "completed", "recovered", "failed", "replan",
     "rejected", "blocked", "waiting"}

EarlyEnd == {"failed", "blocked", "waiting", "needs_replan"}

Verdicts ==
    [status : EarlyEnd \cup {"none"}, by : Items \cup {NoItem}, retryable : BOOLEAN]

Checkpoints == [done : SUBSET Items, forced : SUBSET Items, ok : BOOLEAN]

\* Type invariant.
TypeOK ==
    /\ ledger \in Seq(Record) /\ applied \subseteq Nat /\ doneEvent \subseteq Items
    /\ ckpt \in Checkpoints /\ dckpt \in Checkpoints
    /\ trace \in Statuses
    /\ change \in [Items -> Nat]
    /\ integrated \subseteq Items \X Nat /\ waveDone \subseteq Nat
    /\ open \subseteq Items /\ batch \subseteq Items /\ cancel \in BOOLEAN
    /\ pc \in Live \cup {"off", "submit", "dead"}
    /\ done \subseteq Items /\ bad \subseteq Items
    /\ forced \subseteq Items /\ orphan \subseteq Items
    /\ outcome \in [Items -> Outcomes] /\ terminal \in Verdicts
    /\ blamed \subseteq Items /\ repairs \in 0..MaxRepairs
    /\ crashes \in Nat /\ resumes \in Nat
    /\ revoked \subseteq Items /\ owed \subseteq Items /\ proven \subseteq Items

\* Whatever mixture of checkpoints, events and monitor decisions a Worker was
\* resumed from, a completed item's dependencies are completed; the one
\* exception is the environment shortcut at the start of run.
DoneClosed == \A i \in done \ Environment : Deps[i] \subseteq done

\* A batch waits for the code it reads: its code dependencies are completed and
\* their last commits are in the published baseline, after reruns and crashes too.
BaselineCurrent ==
    pc = "batch" =>
        \A i \in batch : \A d \in Deps[i] \cap Code :
            d \in done /\ Commit(d) \in integrated

\* What is upstream of an item, as far as its dependencies are followed through
\* items that are not bootstrap items.
Upstream(i) ==
    {j \in Items : \A T \in SUBSET Items :
        Deps[i] \subseteq T /\ (\A k \in T \ Environment : Deps[k] \subseteq T)
            => j \in T}

\* "GraphRunner schedules in batches once dependencies are satisfied": all that
\* is upstream of a running batch, however far, is completed.  Excepted is what is
\* upstream only of a completed bootstrap item, which runner.py:693 may have
\* completed before it.
UpstreamCompleted ==
    pc = "batch" => \A i \in batch : Upstream(i) \subseteq done

\* What a running batch reads, through any merges, reruns and crashes before:
\* work that is all completed (but for what a prepared environment skipped), and
\* the merged state of all its code.
BatchInputs == UpstreamCompleted /\ BaselineCurrent

\* A Trace ends as completed only with every item completed and the last
\* commit of every code item merged into the published workspace.
CompletedIntegrated ==
    trace = "completed" =>
        done = Items /\ \A i \in Code : Commit(i) \in integrated

\* The budgets hold exactly for the sequence of Workers and their monitor:
\* a resumed Worker does not start with fresh counters.
RetryBudgetKept ==
    /\ budget_count(ledger) <= max_total_retries
    /\ \A i \in Items : budget_count_for_work_item(ledger, i)
                          <= max_retries_per_work_item

\* Completed work is not executed again after a crash or a resume unless a
\* repair, a monitor decision or a failed revalidation revoked it, its dependency
\* failed in a rerun, or a checkpoint that counts more than the log proves was
\* richer than the log.
NoReplay ==
    [][\A i \in batch' \ batch : i \in Prune(doneEvent) => i \in revoked]_vars

\* A run that was started or resumed reaches a verdict.
Terminates == pc # "off" ~> pc = "off"

\* The refinement mapping.
Dag == INSTANCE DagExecution WITH delivered <- trace = "completed"

\* The whole machinery implements the abstract DAG execution, in which a bootstrap
\* item alone may complete ahead of its dependencies.
RefinesDag == Dag!Spec

\* An owner that a repair ordered to run again is not counted as completed
\* before it has (state.py, RunState.record).  Refuted (graph_forced.cfg): after a
\* crash the event log outvotes the checkpoint that holds the order.
ForcedRerunHonoured == owed \cap done = {}

\* Without the exception: all that is upstream of a running batch is completed.
\* Refuted (graph_bootstrap.cfg): a prepared environment completes the bootstrap
\* item first, and the code that depends on it alone runs before the architecture.
WholeUpstreamCompleted ==
    pc = "batch" =>
        \A i \in batch : \E T \in SUBSET done : Closed(T) /\ Deps[i] \subseteq T
=============================================================================
