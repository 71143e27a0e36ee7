------------------------- MODULE GraphRunnerProofs -------------------------
(***************************************************************************)
(* Proofs about GraphRunner for every plan, budget and number of crashes:  *)
(* type correctness, dependency closure of the completed frontier, the     *)
(* implementation of DagExecution, what a batch and a delivery are made    *)
(* of, and the retry budgets.                                              *)
(***************************************************************************)
EXTENDS GraphRunner, FiniteSetTheorems, WellFoundedInduction, TLAPS

----------------------------------------------------------------------------
\* Plan order: the first of a nonempty set of items is one of them.
LEMMA FirstOfMember ==
  ASSUME NEW S \in SUBSET Items, S # {}
  PROVE  FirstOf(S) \in S
<1> DEFINE R == {Rank[i] : i \in S}
<1>1. R \subseteq Nat /\ R # {}
  BY PlanAssumption
<1>2. \E x \in R : \A y \in R : ~(<<y, x>> \in OpToRel(<, Nat))
  BY <1>1, NatLessThanWellFounded, WFMin
<1>3. \E x \in R : \A y \in R : x <= y
  <2>1. OpToRel(<, Nat) = {ss \in Nat \X Nat : ss[1] < ss[2]}
    BY Zenon DEF OpToRel
  <2>2. \A x, y \in Nat : <<y, x>> \in OpToRel(<, Nat) <=> y < x
    <3> DEFINE L == OpToRel(<, Nat)
    <3>1. L = {ss \in Nat \X Nat : ss[1] < ss[2]}
      BY <2>1
    <3> HIDE DEF L
    <3>2. \A x, y \in Nat : <<y, x>> \in L <=> y < x
      BY <3>1
    <3> QED
      BY <3>2 DEF L
  <2>3. \E x \in R : \A y \in R : ~(y < x)
    BY <1>1, <1>2, <2>2
  <2> HIDE DEF R
  <2> QED
    BY <2>3, <1>1
<1>4. \E i \in S : \A j \in S : Rank[i] <= Rank[j]
  BY <1>3
<1> QED
  BY <1>4 DEF FirstOf

\* Descendants(S) is closed under "depends on a member" and contains S.
LEMMA DescendantsClosed ==
  ASSUME NEW S \in SUBSET Items
  PROVE  /\ Descendants(S) \subseteq Items
         /\ \A i \in Items : Deps[i] \cap Descendants(S) # {} => i \in Descendants(S)
<1>1. Descendants(S) \subseteq Items
  BY DEF Descendants
<1>2. ASSUME NEW i \in Items, Deps[i] \cap Descendants(S) # {}
      PROVE  i \in Descendants(S)
  <2>1. PICK d \in Deps[i] : d \in Descendants(S)
    BY <1>2
  <2>2. ASSUME NEW T \in SUBSET Items, S \subseteq T, DescendantClosed(T)
        PROVE  i \in T
    <3>1. d \in T
      BY <2>1, <2>2 DEF Descendants
    <3> QED
      BY <3>1, <2>1, <2>2 DEF DescendantClosed
  <2> QED
    BY <2>2 DEF Descendants
<1> QED
  BY <1>1, <1>2

\* Removing a descendant closure keeps a frontier dependency closed.
LEMMA RemoveDescendants ==
  ASSUME NEW S \in SUBSET Items, NEW D \in SUBSET Items, NEW E,
         \A i \in D \ E : Deps[i] \subseteq D
  PROVE  \A i \in (D \ Descendants(S)) \ E : Deps[i] \subseteq D \ Descendants(S)
BY DescendantsClosed

\* The pruning loops end with a dependency-closed part of what they are given.
LEMMA PruneClosed ==
  ASSUME NEW S
  PROVE  Prune(S) \subseteq S /\ Closed(Prune(S))
<1>1. Prune(S) \subseteq S
  BY DEF Prune
<1>2. ASSUME NEW i \in Prune(S) PROVE Deps[i] \subseteq Prune(S)
  <2>1. PICK T \in SUBSET S : Closed(T) /\ i \in T
    BY <1>2 DEF Prune
  <2>2. Deps[i] \subseteq T /\ T \subseteq Prune(S)
    BY <2>1 DEF Closed, Prune
  <2> QED
    BY <2>2
<1> QED
  BY <1>1, <1>2 DEF Closed

\* What the two kinds of decision write is a RetryRecord.
LEMMA ActionType ==
  ASSUME NEW k, NEW ok, NEW x, NEW y, NEW z
  PROVE  action_for(k, ok, x, y, z) \in RecoveryAction
BY DEF action_for, RecoveryAction

LEMMA ItemRecord ==
  ASSUME NEW l, NEW i \in Items, NEW k \in Kinds, NEW f \in Prints, NEW ok
  PROVE  ItemDecision(l, i, k, f, ok) \in Record
<1>1. k \in FailureKind
  BY KindAssumption
<1>2. "fail" \in RecoveryAction
  BY DEF RecoveryAction
<1> QED
  BY <1>1, <1>2, ActionType DEF ItemDecision, Record

LEMMA MonitorRecord ==
  ASSUME NEW l, NEW r \in Items \cup {NoItem}, NEW k \in Kinds, NEW f \in Prints,
         NEW active \in SUBSET Items, NEW batchOpen \in BOOLEAN
  PROVE  MonitorDecision(l, r, k, f, active, batchOpen) \in Record
<1>1. k \in FailureKind
  BY KindAssumption
<1>2. "retry_batch" \in RecoveryAction
  BY DEF RecoveryAction
<1> QED
  BY <1>1, <1>2, ActionType DEF MonitorDecision, Record
LEMMA CheckpointType ==
  ASSUME NEW d \in SUBSET Items, NEW f \in SUBSET Items, NEW o
  PROVE  /\ Checkpoint(d, f, o) \in Checkpoints
         /\ Checkpoint(d, f, o).done = d
         /\ NoCheckpoint \in Checkpoints /\ NoCheckpoint.done = {}
BY DEF Checkpoint, Checkpoints, NoCheckpoint

\* The view a resume chooses comes from one of the three durable ones.
LEMMA RichestView ==
  ASSUME TypeOK
  PROVE  /\ Richest.done \subseteq doneEvent \cup ckpt.done \cup dckpt.done
         /\ Richest.done \subseteq Items /\ Richest.forced \subseteq Items
         /\ MergedForced \subseteq Items
<1>1. /\ ckpt.done \subseteq Items /\ ckpt.forced \subseteq Items
      /\ dckpt.done \subseteq Items /\ dckpt.forced \subseteq Items
      /\ doneEvent \subseteq Items
  BY DEF TypeOK, Checkpoints
<1>2. Rebuilt \subseteq doneEvent
  BY PruneClosed DEF Rebuilt
<1>3. \/ Richest = [done |-> Rebuilt, forced |-> {}]
      \/ Richest = ckpt \/ Richest = dckpt
  BY DEF Richest
<1>4. /\ Richest.done \subseteq doneEvent \cup ckpt.done \cup dckpt.done
      /\ Richest.done \subseteq Items /\ Richest.forced \subseteq Items
  BY <1>1, <1>2, <1>3
<1>5. \A x \in Readable : x.forced \subseteq Items
  BY <1>1 DEF Readable
<1> QED
  BY <1>4, <1>5 DEF MergedForced

\* Loading a Trace: the frontier is dependency closed and nothing is in it that
\* the durable views do not vouch for.
LEMMA LoadedState ==
  ASSUME TypeOK, NEW invalid \in SUBSET Integrators, LoadResume(invalid)
  PROVE  /\ done' \subseteq doneEvent \cup ckpt.done \cup dckpt.done
         /\ Closed(done') /\ done' \subseteq Items
         /\ bad' = {} /\ forced' \subseteq Items /\ orphan' \subseteq Items
         /\ revoked' \subseteq Items /\ applied' \subseteq Nat
         /\ doneEvent' = doneEvent
<1>1. invalid \subseteq Items
  BY PlanAssumption
<1>2. /\ done' = Sanitized(invalid) /\ bad' = {} /\ forced' = MergedForced
      /\ orphan' = invalid \ MergedForced
      /\ revoked' = revoked \cup Descendants(invalid) \cup Outvoted
      /\ applied' = applied \cup Unapplied /\ doneEvent' = doneEvent
  BY DEF LoadResume
<1>3. Closed(done') /\ done' \subseteq Richest.done
  BY <1>2, PruneClosed DEF Sanitized
<1>4. Unapplied \subseteq Nat
  BY DEF Unapplied, TypeOK
<1>5. Descendants(invalid) \subseteq Items /\ Outvoted \subseteq doneEvent
  BY <1>1, DescendantsClosed DEF Outvoted
<1> QED
  BY <1>1, <1>2, <1>3, <1>4, <1>5, RichestView DEF TypeOK

LEMMA ConstantTypes ==
  /\ Idle \in [Items -> Outcomes] /\ NoVerdict \in Verdicts
  /\ \A s \in EarlyEnd, i \in Items \cup {NoItem}, r \in BOOLEAN :
        [status |-> s, by |-> i, retryable |-> r] \in Verdicts
<1>1. Idle \in [Items -> Outcomes]
  BY DEF Idle, Outcomes
<1>2. NoVerdict \in Verdicts
  BY DEF NoVerdict, Verdicts
<1>3. \A s \in EarlyEnd, i \in Items \cup {NoItem}, r \in BOOLEAN :
        [status |-> s, by |-> i, retryable |-> r] \in Verdicts
  BY DEF Verdicts
<1> QED
  BY <1>1, <1>2, <1>3

----------------------------------------------------------------------------
\* While a batch is open its members' dependencies are completed.
BatchReady ==
    pc \in {"batch", "save"} => \A i \in batch : Deps[i] \subseteq done

\* Every view of the progress only holds items that completed at some time.
ViewsProven ==
    /\ done \subseteq proven /\ doneEvent \subseteq proven
    /\ ckpt.done \subseteq proven /\ dckpt.done \subseteq proven

\* No one works on a delivered Trace.
Undelivered == pc # "off" => trace # "completed"

\* The inductive invariant.
Inv == TypeOK /\ DoneClosed /\ BatchReady /\ ViewsProven /\ Undelivered

LEMMA InitInv == Init => Inv
<1> SUFFICES ASSUME Init PROVE Inv
  OBVIOUS
<1>1. TypeOK
  <2>1. ledger \in Seq(Record)
    BY DEF Init
  <2>2. change \in [Items -> Nat] /\ cancel \in BOOLEAN
    BY DEF Init
  <2>3. ckpt \in Checkpoints /\ dckpt \in Checkpoints
    BY DEF Init, Checkpoints, NoCheckpoint
  <2>4. outcome \in [Items -> Outcomes] /\ terminal \in Verdicts
    BY ConstantTypes DEF Init
  <2> QED
    BY <2>1, <2>2, <2>3, <2>4 DEF Init, TypeOK, Statuses, Live, MaxRepairs
<1>2. DoneClosed /\ BatchReady /\ ViewsProven /\ Undelivered
  BY CheckpointType DEF Init, DoneClosed, BatchReady, ViewsProven, Undelivered
<1> QED
  BY <1>1, <1>2 DEF Inv

\* ----- The steps, one lemma per group of actions -----

LEMMA ResumeStep ==
  ASSUME Inv, ResumeRun \/ WorkerEntry \/ ReloadDelivery
  PROVE  Inv'
<1> USE DEF Inv
<1>1. PICK invalid \in SUBSET Integrators : LoadResume(invalid)
  BY DEF ResumeRun, WorkerEntry, ReloadDelivery
<1>2. /\ done' \subseteq doneEvent \cup ckpt.done \cup dckpt.done
      /\ Closed(done') /\ done' \subseteq Items
      /\ bad' = {} /\ forced' \subseteq Items /\ orphan' \subseteq Items
      /\ revoked' \subseteq Items /\ applied' \subseteq Nat
      /\ doneEvent' = doneEvent
  BY <1>1, LoadedState
<1>3. /\ ckpt' = ckpt /\ dckpt' = dckpt /\ proven' = proven
      /\ pc' \in {"submit", "run", "off"}
      /\ pc' # "off" => trace' = trace
      /\ trace # "completed"
  BY DEF ResumeRun, WorkerEntry, ReloadDelivery, Undelivered
<1>4. TypeOK'
  <2>1. CASE ResumeRun
    BY <1>2, <2>1 DEF TypeOK, ResumeRun, gitVars, progressVars, repairVars, Live
  <2>2. CASE WorkerEntry
    <3>1. trace' \in Statuses /\ pc' \in Live \cup {"off"} /\ cancel' \in BOOLEAN
      BY <2>2 DEF TypeOK, WorkerEntry, Live, Statuses
    <3> QED
      BY <1>2, <2>2, <3>1, ConstantTypes DEF TypeOK, WorkerEntry, gitVars, countVars, MaxRepairs
  <2>3. CASE ReloadDelivery
    BY <1>2, <2>3, ConstantTypes DEF TypeOK, ReloadDelivery, gitVars, progressVars,
       countVars, Live
  <2> QED
    BY <2>1, <2>2, <2>3
<1>5. DoneClosed' /\ BatchReady' /\ ViewsProven' /\ Undelivered'
  BY <1>2, <1>3 DEF DoneClosed, BatchReady, ViewsProven, Undelivered, Closed
<1> QED
  BY <1>4, <1>5

LEMMA CheckpointStep ==
  ASSUME Inv, Submit \/ StartRun \/ Save
  PROVE  Inv'
<1> USE DEF Inv
<1>1. CASE Submit
  <2>1. ckpt' \in Checkpoints /\ ckpt'.done = done
    BY <1>1, CheckpointType DEF Submit, TypeOK
  <2>2. TypeOK'
    BY <1>1, <2>1 DEF Submit, TypeOK, eventVars, gitVars, progressVars, repairVars,
       countVars, historyVars, Live, Statuses
  <2>3. DoneClosed' /\ BatchReady' /\ ViewsProven' /\ Undelivered'
    BY <1>1, <2>1 DEF Submit, DoneClosed, BatchReady, ViewsProven, Undelivered,
       eventVars, historyVars
  <2> QED
    BY <2>2, <2>3
<1>2. CASE Save
  <2>1. ckpt' \in Checkpoints /\ ckpt'.done = done
    BY <1>2, CheckpointType DEF Save, TypeOK
  <2>2. TypeOK'
    BY <1>2, <2>1 DEF Save, TypeOK, eventVars, gitVars, progressVars, stateVars,
       repairVars, countVars, historyVars, Live
  <2>3. DoneClosed' /\ BatchReady' /\ ViewsProven' /\ Undelivered'
    BY <1>2, <2>1 DEF Save, DoneClosed, BatchReady, ViewsProven, Undelivered,
       eventVars, progressVars, stateVars, historyVars
  <2> QED
    BY <2>2, <2>3
<1>3. CASE StartRun
  <2>1. /\ done' \in SUBSET Items /\ forced' \in SUBSET Items /\ orphan' \in SUBSET Items
        /\ bad' = bad /\ proven' \subseteq Items /\ done \subseteq done'
        /\ done' \ Environment = done \ Environment
        /\ proven \subseteq proven' /\ done' \subseteq proven'
        /\ ckpt' \in Checkpoints /\ ckpt'.done \subseteq proven'
    <3>1. CASE UNCHANGED <<ckpt, stateVars, proven>>
      BY <3>1 DEF stateVars, TypeOK, ViewsProven
    <3>2. ASSUME NEW i \in Environment \ (done \cup bad),
                 done' = done \cup {i}, forced' = forced \ {i}, orphan' = orphan \ {i},
                 ckpt' = Checkpoint(done', forced', orphan'),
                 proven' = proven \cup {i}, UNCHANGED bad
          PROVE  <2>1
      <4>1. /\ done' \in SUBSET Items /\ forced' \in SUBSET Items
            /\ orphan' \in SUBSET Items /\ proven' \subseteq Items
        BY <3>2, PlanAssumption DEF TypeOK
      <4>2. ckpt' \in Checkpoints /\ ckpt'.done = done'
        BY <3>2, <4>1, CheckpointType
      <4> QED
        BY <3>2, <4>1, <4>2 DEF ViewsProven
    <3> QED
      BY <1>3, <3>1, <3>2 DEF StartRun
  <2>2. /\ pc' = "loop" /\ pc # "off"
        /\ UNCHANGED <<ledger, eventVars, dckpt, trace, gitVars, progressVars, cancel,
                       outcome, repairVars, countVars, revoked, owed>>
    BY <1>3 DEF StartRun
  <2>3. TypeOK'
    BY <2>1, <2>2 DEF TypeOK, eventVars, gitVars, progressVars, repairVars, countVars, Live
  <2>4. DoneClosed' /\ BatchReady' /\ ViewsProven' /\ Undelivered'
    BY <2>1, <2>2 DEF DoneClosed, BatchReady, ViewsProven, Undelivered, eventVars
  <2> QED
    BY <2>3, <2>4
<1> QED
  BY <1>1, <1>2, <1>3

\* A step that leaves the views of the progress alone keeps all but the types.
LEMMA FrameKeeps ==
  ASSUME Inv, UNCHANGED <<done, ckpt, dckpt, proven>>, doneEvent' \subseteq doneEvent,
         pc' \in {"batch", "save"} => pc \in {"batch", "save"} /\ batch' = batch,
         pc' # "off" => trace' # "completed"
  PROVE  DoneClosed' /\ BatchReady' /\ ViewsProven' /\ Undelivered'
BY DEF Inv, DoneClosed, BatchReady, ViewsProven, Undelivered

\* Loop actions other than StartBatch.
LEMMA LoopStep ==
  ASSUME Inv,
         \/ Cancelled \/ GraphCompletes \/ NoReadyItem \/ FinishBatch \/ GiveUp
         \/ \E w : IntegrateWave(w) \/ WaveIntegrationFails(w)
         \/ Cancel
  PROVE  Inv'
<1>1. TypeOK /\ Undelivered
  BY DEF Inv
<1>2. ASSUME NEW status \in Statuses, LeaveWith(status)
      PROVE  /\ trace' \in Statuses /\ pc' = "off"
             /\ open' = {} /\ batch' = {} /\ outcome' \in [Items -> Outcomes]
  BY <1>2, ConstantTypes DEF LeaveWith
<1>3. CASE Cancelled
  <2>1. /\ trace' \in Statuses /\ pc' = "off"
        /\ open' = {} /\ batch' = {} /\ outcome' \in [Items -> Outcomes]
    BY <1>2, <1>3 DEF Cancelled, Statuses
  <2>2. TypeOK'
    BY <1>1, <1>3, <2>1 DEF Cancelled, TypeOK, eventVars, gitVars, stateVars, repairVars,
       countVars, historyVars
  <2> QED
    BY <1>3, <2>1, <2>2, FrameKeeps DEF Inv, Cancelled, eventVars, stateVars, historyVars
<1>4. CASE GraphCompletes
  <2>1. /\ trace' \in Statuses /\ pc' = "off"
        /\ open' = {} /\ batch' = {} /\ outcome' \in [Items -> Outcomes]
    BY <1>2, <1>4 DEF GraphCompletes, Statuses
  <2>2. TypeOK'
    BY <1>1, <1>4, <2>1 DEF GraphCompletes, TypeOK, eventVars, gitVars, stateVars,
       repairVars, countVars, historyVars
  <2> QED
    BY <1>4, <2>1, <2>2, FrameKeeps DEF Inv, GraphCompletes, eventVars, stateVars, historyVars
<1>5. CASE NoReadyItem
  <2>1. /\ trace' \in Statuses /\ pc' = "off"
        /\ open' = {} /\ batch' = {} /\ outcome' \in [Items -> Outcomes]
    BY <1>2, <1>5 DEF NoReadyItem, Statuses
  <2>2. TypeOK'
    BY <1>1, <1>5, <2>1 DEF NoReadyItem, TypeOK, eventVars, gitVars, stateVars,
       repairVars, countVars, historyVars
  <2> QED
    BY <1>5, <2>1, <2>2, FrameKeeps DEF Inv, NoReadyItem, eventVars, stateVars, historyVars
<1>6. CASE GiveUp
  <2>1. /\ trace' \in Statuses /\ pc' = "off"
        /\ open' = {} /\ batch' = {} /\ outcome' \in [Items -> Outcomes]
    BY <1>1, <1>2, <1>6 DEF GiveUp, TypeOK
  <2>2. TypeOK'
    BY <1>1, <1>6, <2>1 DEF GiveUp, TypeOK, eventVars, gitVars, stateVars, repairVars,
       countVars, historyVars
  <2> QED
    BY <1>6, <2>1, <2>2, FrameKeeps DEF Inv, GiveUp, eventVars, stateVars, historyVars
<1>7. CASE FinishBatch
  <2>1. /\ trace' \in Statuses /\ pc' \in {"off", "loop", "repair"}
        /\ open' \subseteq Items /\ batch' = {} /\ outcome' \in [Items -> Outcomes]
        /\ pc' # "off" => trace' # "completed"
    <3>1. CASE terminal.status \in {"none", "needs_replan"}
      BY <1>1, <1>7, <3>1, ConstantTypes
         DEF FinishBatch, TypeOK, Statuses, Undelivered
    <3>2. CASE terminal.status \notin {"none", "needs_replan"}
      <4>1. terminal.status \in Statuses
        BY <1>1, <3>2 DEF TypeOK, Verdicts, EarlyEnd, Statuses
      <4> QED
        BY <1>2, <1>7, <3>2, <4>1 DEF FinishBatch
    <3> QED
      BY <3>1, <3>2
  <2>2. TypeOK'
    BY <1>1, <1>7, <2>1 DEF FinishBatch, TypeOK, eventVars, gitVars, stateVars, repairVars,
       countVars, historyVars, Live
  <2> QED
    BY <1>7, <2>1, <2>2, FrameKeeps DEF Inv, FinishBatch, eventVars, stateVars, historyVars
<1>8. ASSUME NEW w, IntegrateWave(w)
      PROVE  Inv'
  <2>1. w \in Nat
    BY <1>8, PlanAssumption DEF IntegrateWave, NextWave, ReadyWaves
  <2>2. \A i \in Members(w) : Commit(i) \in Items \X Nat
    BY <1>1, PlanAssumption DEF Members, Commit, TypeOK
  <2>3. TypeOK'
    BY <1>1, <1>8, <2>1, <2>2 DEF IntegrateWave, TypeOK, eventVars, progressVars, stateVars,
       repairVars, countVars, historyVars
  <2> QED
    BY <1>1, <1>8, <2>3, FrameKeeps DEF Inv, IntegrateWave, Loop, Undelivered, eventVars,
       progressVars, stateVars, historyVars
<1>9. ASSUME NEW w, WaveIntegrationFails(w)
      PROVE  Inv'
  <2>1. blamed' \subseteq Items
    BY <1>9, PlanAssumption DEF WaveIntegrationFails, Members
  <2>2. terminal' \in Verdicts
    BY <1>9, ConstantTypes DEF WaveIntegrationFails, EarlyEnd
  <2>3. TypeOK'
    BY <1>1, <1>9, <2>1, <2>2 DEF WaveIntegrationFails, TypeOK, eventVars, gitVars,
       progressVars, stateVars, countVars, historyVars, Live, Statuses
  <2> QED
    BY <1>9, <2>3, FrameKeeps DEF Inv, WaveIntegrationFails, eventVars, stateVars, historyVars
<1>10. CASE Cancel
  <2>1. trace' \in Statuses /\ cancel' \in BOOLEAN /\ (pc # "off" => trace' = trace)
    BY <1>1, <1>10 DEF Cancel, TypeOK, Statuses
  <2>2. TypeOK'
    BY <1>1, <1>10, <2>1 DEF Cancel, TypeOK, eventVars, gitVars, progressVars, stateVars,
       repairVars, countVars, historyVars
  <2> QED
    BY <1>1, <1>10, <2>1, <2>2, FrameKeeps DEF Inv, Cancel, Undelivered, eventVars,
       progressVars, stateVars, historyVars
<1> QED
  BY <1>3, <1>4, <1>5, <1>6, <1>7, <1>8, <1>9, <1>10

LEMMA StartBatchStep ==
  ASSUME Inv, StartBatch
  PROVE  Inv'
<1>1. TypeOK /\ DoneClosed /\ ViewsProven /\ Undelivered
  BY DEF Inv
<1>2. PICK S \in SUBSET ready_items :
        /\ batch' = S
        /\ outcome' = [i \in Items |-> IF i \in S THEN "queued" ELSE "idle"]
  BY DEF StartBatch
<1>3. batch' \subseteq Items /\ \A i \in batch' : Deps[i] \subseteq done
  BY <1>2 DEF ready_items
<1>4. outcome' \in [Items -> Outcomes]
  BY <1>2 DEF Outcomes
<1>5. TypeOK'
  BY <1>1, <1>3, <1>4, ConstantTypes DEF StartBatch, TypeOK, eventVars, gitVars, stateVars,
     countVars, historyVars, Live
<1>6. DoneClosed' /\ BatchReady' /\ ViewsProven' /\ Undelivered'
  BY <1>1, <1>3 DEF StartBatch, Loop, DoneClosed, BatchReady, ViewsProven, Undelivered,
     eventVars, stateVars, historyVars
<1> QED
  BY <1>5, <1>6 DEF Inv

\* The threads only move their outcome, ChangeSet, progress entry and ledger.
LEMMA ThreadStep ==
  ASSUME Inv, NEW i \in Items, Thread(i)
  PROVE  Inv'
<1>1. TypeOK /\ Undelivered
  BY DEF Inv
<1>2. ASSUME NEW from, NEW to \in Outcomes, BecomesA(i, from, to),
             ledger' \in Seq(Record), change' \in [Items -> Nat],
             open' \subseteq Items, blamed' \subseteq Items
      PROVE  Inv'
  <2>1. outcome' \in [Items -> Outcomes]
    BY <1>1, <1>2 DEF BecomesA, TypeOK
  <2>2. TypeOK'
    BY <1>1, <1>2, <2>1 DEF BecomesA, TypeOK, eventVars, stateVars, countVars, historyVars
  <2> QED
    BY <1>1, <1>2, <2>2, FrameKeeps DEF Inv, BecomesA, Undelivered, eventVars, stateVars,
       historyVars
<1>3. /\ ledger \in Seq(Record) /\ change \in [Items -> Nat]
      /\ open \subseteq Items /\ blamed \subseteq Items
  BY <1>1 DEF TypeOK
<1>4. CASE RecoverDurable(i)
  BY <1>2, <1>3, <1>4 DEF RecoverDurable, Outcomes
<1>5. CASE StartAttempt(i)
  BY <1>2, <1>3, <1>5 DEF StartAttempt, Outcomes
<1>6. CASE WriteChange(i)
  <2>1. change' \in [Items -> Nat]
    BY <1>3, <1>6 DEF WriteChange
  <2> QED
    BY <1>2, <1>3, <1>6, <2>1 DEF WriteChange, Outcomes
<1>7. CASE AttemptCompletes(i)
  BY <1>2, <1>3, <1>7 DEF AttemptCompletes, Outcomes
<1>8. CASE AttemptFails(i)
  <2>1. PICK k \in Kinds \ ResumeKinds, f \in Prints, ok \in BOOLEAN :
          /\ \E to \in AfterDecision(ItemDecision(ledger, i, k, f, ok), ok) :
                BecomesA(i, "running", to)
          /\ ledger' = Recorded(ItemDecision(ledger, i, k, f, ok))
          /\ UNCHANGED <<change, open, blamed>>
    BY <1>8 DEF AttemptFails
  <2> DEFINE rec == ItemDecision(ledger, i, k, f, ok)
  <2>2. rec \in Record
    BY ItemRecord
  <2> HIDE DEF rec
  <2>3. Recorded(rec) \in Seq(Record)
    BY <1>3, <2>2 DEF Recorded
  <2>4. AfterDecision(rec, ok) \subseteq Outcomes
    BY DEF AfterDecision, Outcomes
  <2> QED
    BY <1>2, <1>3, <2>1, <2>3, <2>4 DEF rec
<1>9. CASE EscalatesToOwners(i)
  <2>1. blamed' \subseteq Items
    BY <1>9, PlanAssumption DEF EscalatesToOwners
  <2> QED
    BY <1>2, <1>3, <1>9, <2>1 DEF EscalatesToOwners, Outcomes
<1>10. CASE AttemptWaits(i)
  BY <1>2, <1>3, <1>10 DEF AttemptWaits, Outcomes
<1> QED
  BY <1>4, <1>5, <1>6, <1>7, <1>8, <1>9, <1>10 DEF Thread

LEMMA CollectStep ==
  ASSUME Inv, Collect
  PROVE  Inv'
<1>1. TypeOK /\ DoneClosed /\ BatchReady /\ ViewsProven /\ Undelivered
  BY DEF Inv
<1> DEFINE i == FirstOf(Pending)
<1>2. i \in Items /\ i \in batch
  <2>1. Pending \in SUBSET Items /\ Pending # {} /\ Pending \subseteq batch
    BY <1>1 DEF Collect, TypeOK, Pending
  <2> QED
    BY <2>1, FirstOfMember
<1>3. Deps[i] \subseteq done
  BY <1>1, <1>2 DEF BatchReady, Collect
<1> HIDE DEF i
<1>4. CASE Completes(i)
  <2>1. TypeOK'
    BY <1>1, <1>2, <1>4 DEF Collect, Completes, TypeOK, gitVars, countVars, Live
  <2>2. DoneClosed'
    BY <1>1, <1>3, <1>4 DEF Completes, DoneClosed
  <2>3. BatchReady' /\ ViewsProven' /\ Undelivered'
    BY <1>1, <1>4 DEF Collect, Completes, BatchReady, ViewsProven, Undelivered
  <2> QED
    BY <2>1, <2>2, <2>3 DEF Inv
<1>5. CASE outcome[i] \in DOMAIN StatusOf /\ EndsRun(i)
  <2>1. terminal' \in Verdicts
    <3>1. \A s \in StatusOf[outcome[i]] : s \in EarlyEnd
      BY <1>5 DEF StatusOf, EarlyEnd
    <3> DEFINE r == outcome[i] = "replan"
    <3>2. r \in BOOLEAN
      OBVIOUS
    <3>3. \/ terminal' = terminal
          \/ \E s \in StatusOf[outcome[i]] :
                terminal' = [status |-> s, by |-> i, retryable |-> r]
      BY <1>5 DEF EndsRun
    <3> HIDE DEF r
    <3>4. ASSUME NEW s \in EarlyEnd PROVE [status |-> s, by |-> i, retryable |-> r] \in Verdicts
      BY <1>2, <3>2, ConstantTypes
    <3> QED
      BY <1>1, <3>1, <3>3, <3>4 DEF TypeOK
  <2>2. TypeOK'
    BY <1>1, <1>2, <1>5, <2>1 DEF Collect, EndsRun, TypeOK, gitVars, countVars,
       historyVars, Live
  <2> QED
    BY <1>1, <1>5, <2>2, FrameKeeps DEF Inv, Collect, EndsRun, Undelivered, historyVars
<1> QED
  BY <1>4, <1>5 DEF Collect, i

\* The planner's repair only touches the two checkpoints.
LEMMA PlannerRepairStep ==
  ASSUME Inv, PlannerRepair
  PROVE  Inv'
<1>1. TypeOK /\ ViewsProven
  BY DEF Inv
<1>2. /\ dckpt' \in Checkpoints /\ dckpt'.done = done
      /\ ckpt' \in Checkpoints /\ ckpt'.done = {}
  BY <1>1, CheckpointType DEF PlannerRepair, TypeOK
<1>3. repairs' \in 0..MaxRepairs
  BY <1>1 DEF PlannerRepair, ByPlanner, TypeOK, MaxRepairs
<1>4. TypeOK'
  BY <1>1, <1>2, <1>3 DEF PlannerRepair, TypeOK, eventVars, gitVars, progressVars, stateVars,
     countVars, historyVars, Live, Statuses
<1>5. DoneClosed' /\ BatchReady' /\ ViewsProven' /\ Undelivered'
  BY <1>1, <1>2 DEF Inv, PlannerRepair, DoneClosed, BatchReady, ViewsProven, Undelivered,
     eventVars, stateVars, historyVars
<1> QED
  BY <1>4, <1>5 DEF Inv

\* Withdrawing an architecture item withdraws everything built on it.
LEMMA RestoredStep ==
  ASSUME Inv, RestoredArchitectureInvalid
  PROVE  Inv' /\ done' \subseteq done
<1>1. TypeOK /\ DoneClosed /\ ViewsProven
  BY DEF Inv
<1>2. PICK lost \in SUBSET (Architecture \cap done) :
        /\ done' = done \ Descendants(lost) /\ bad' = bad \ Descendants(lost)
        /\ revoked' = revoked \cup Descendants(lost)
  BY DEF RestoredArchitectureInvalid
<1>3. lost \in SUBSET Items /\ done \in SUBSET Items /\ forced \in SUBSET Items
  BY <1>1 DEF TypeOK
<1>4. \A i \in done' \ Environment : Deps[i] \subseteq done'
  BY <1>1, <1>2, <1>3, RemoveDescendants DEF DoneClosed
<1>5. Descendants(lost) \subseteq Items
  BY <1>3, DescendantsClosed
<1>6. ckpt' \in Checkpoints /\ ckpt'.done = done'
  <2>1. done' \in SUBSET Items
    BY <1>2, <1>3
  <2> QED
    BY <1>3, <2>1, CheckpointType DEF RestoredArchitectureInvalid
<1>7. TypeOK'
  BY <1>1, <1>2, <1>3, <1>5, <1>6, ConstantTypes DEF RestoredArchitectureInvalid, LeaveWith,
     TypeOK, eventVars, gitVars, repairVars, countVars, Statuses
<1>8. DoneClosed' /\ BatchReady' /\ ViewsProven' /\ Undelivered'
  BY <1>1, <1>2, <1>4, <1>6 DEF RestoredArchitectureInvalid, LeaveWith, DoneClosed, BatchReady,
     ViewsProven, Undelivered, eventVars
<1> QED
  BY <1>2, <1>7, <1>8 DEF Inv

LEMMA RepairStep ==
  ASSUME Inv, WaveRepair
  PROVE  Inv'
<1>1. TypeOK /\ DoneClosed /\ ViewsProven
  BY DEF Inv
<1>2. blamed \in SUBSET Items /\ done \in SUBSET Items
  BY <1>1 DEF TypeOK
<1>3. /\ Affected \subseteq Items
      /\ \A i \in (done \ Affected) \ Environment : Deps[i] \subseteq done \ Affected
  BY <1>1, <1>2, DescendantsClosed, RemoveDescendants DEF DoneClosed, Affected
<1>4. /\ done' \in SUBSET Items /\ forced' \in SUBSET Items /\ orphan' \subseteq Items
      /\ bad' \subseteq Items
  BY <1>1 DEF WaveRepair, TypeOK
<1>5. dckpt' \in Checkpoints /\ dckpt'.done = done'
  BY <1>4, CheckpointType DEF WaveRepair
<1>6. repairs' \in 0..MaxRepairs
  BY <1>1 DEF WaveRepair, Repairable, TypeOK, MaxRepairs
<1>7. TypeOK'
  BY <1>1, <1>3, <1>4, <1>5, <1>6, ConstantTypes DEF WaveRepair, TypeOK, eventVars, gitVars,
     progressVars, countVars, Live, Statuses
<1>8. DoneClosed'
  BY <1>3 DEF WaveRepair, DoneClosed
<1>9. BatchReady' /\ ViewsProven' /\ Undelivered'
  BY <1>1, <1>5 DEF WaveRepair, BatchReady, ViewsProven, Undelivered, eventVars
<1> QED
  BY <1>7, <1>8, <1>9 DEF Inv

\* Crashes and the monitor.
LEMMA OutsideStep ==
  ASSUME Inv,
         \/ Kill \/ HostCrash \/ (\E w : KillDuringMerge(w))
         \/ Finalize \/ KeepVerdict \/ FinalizeCancelled
  PROVE  Inv'
<1>1. TypeOK /\ Undelivered
  BY DEF Inv
<1>2. ASSUME NEW next \in {"dead", "off"}, Dies(next), pc # "off", crashes' \in Nat,
             integrated' \subseteq Items \X Nat, waveDone' = waveDone
      PROVE  Inv'
  <2>1. TypeOK'
    BY <1>1, <1>2, ConstantTypes DEF Dies, TypeOK, eventVars, progressVars, stateVars,
       repairVars, historyVars
  <2> QED
    BY <1>1, <1>2, <2>1, FrameKeeps DEF Inv, Dies, Undelivered, eventVars, stateVars,
       historyVars
<1>3. CASE Kill
  BY <1>1, <1>2, <1>3 DEF Kill, Live, TypeOK
<1>4. CASE HostCrash
  BY <1>1, <1>2, <1>4 DEF HostCrash, Live, TypeOK
<1>5. ASSUME NEW w, KillDuringMerge(w)
      PROVE  Inv'
  <2>1. \A i \in Members(w) : Commit(i) \in Items \X Nat
    BY <1>1, PlanAssumption DEF Members, Commit, TypeOK
  <2> QED
    BY <1>1, <1>2, <1>5, <2>1 DEF KillDuringMerge, Loop, TypeOK
<1>6. ASSUME NEW status \in Statuses, Closes(status), ledger' \in Seq(Record),
             doneEvent' \subseteq doneEvent, revoked' \subseteq Items
      PROVE  Inv'
  <2>1. TypeOK'
    BY <1>1, <1>6 DEF Closes, TypeOK, gitVars, stateVars, repairVars, countVars
  <2> QED
    BY <1>6, <2>1, FrameKeeps DEF Inv, Closes, stateVars
<1>7. CASE Finalize
  <2>1. PICK k \in Kinds \cap ResumeKinds, f \in Prints : \E r \in RootChoices(k) :
          LET active == IF open # {} THEN open ELSE batch
              rec == MonitorDecision(ledger, r, k, f, active, batch # {})
              charged == rec.action \in budget_actions
          IN  /\ ledger' = Recorded(rec)
              /\ doneEvent' = doneEvent \ (IF r = NoItem THEN open ELSE open \cap {r})
              /\ revoked' = IF charged
                            THEN revoked \cup Descendants(active \cup ({r} \cap Items))
                            ELSE revoked
    BY <1>7 DEF Finalize
  <2> DEFINE active == IF open # {} THEN open ELSE batch
  <2>2. PICK r \in RootChoices(k) :
          /\ ledger' = Recorded(MonitorDecision(ledger, r, k, f, active, batch # {}))
          /\ doneEvent' \subseteq doneEvent
          /\ \/ revoked' = revoked
             \/ revoked' = revoked \cup Descendants(active \cup ({r} \cap Items))
    BY <2>1
  <2>3. active \in SUBSET Items
    BY <1>1 DEF TypeOK
  <2>4. r \in Items \cup {NoItem}
    <3>1. batch # {} => FirstOf(batch) \in Items
      BY <1>1, FirstOfMember DEF TypeOK
    <3> QED
      BY <1>1, <3>1 DEF RootChoices, TypeOK
  <2> HIDE DEF active
  <2> DEFINE rec == MonitorDecision(ledger, r, k, f, active, batch # {})
  <2>5. rec \in Record
    BY <2>3, <2>4, MonitorRecord
  <2> HIDE DEF rec
  <2>6. Recorded(rec) \in Seq(Record)
    BY <1>1, <2>5 DEF Recorded, TypeOK
  <2>7. Descendants(active \cup ({r} \cap Items)) \subseteq Items
    BY <2>3, DescendantsClosed
  <2>8. ledger' \in Seq(Record)
    BY <2>2, <2>6 DEF rec
  <2>9. revoked' \subseteq Items
    BY <1>1, <2>2, <2>7 DEF TypeOK
  <2>10. Closes("failed") /\ "failed" \in Statuses
    BY <1>7 DEF Finalize, Statuses
  <2> QED
    BY <1>6, <2>2, <2>8, <2>9, <2>10
<1>8. CASE KeepVerdict
  BY <1>1, <1>6, <1>8 DEF KeepVerdict, TypeOK
<1>9. CASE FinalizeCancelled
  <2>1. "cancelled" \in Statuses
    BY DEF Statuses
  <2> QED
    BY <1>1, <1>6, <1>9, <2>1 DEF FinalizeCancelled, TypeOK
<1> QED
  BY <1>3, <1>4, <1>5, <1>7, <1>8, <1>9

LEMMA NextInv == Inv /\ [Next]_vars => Inv'
<1> SUFFICES ASSUME Inv, [Next]_vars PROVE Inv'
  OBVIOUS
<1>1. CASE UNCHANGED vars
  BY <1>1 DEF Inv, TypeOK, DoneClosed, BatchReady, ViewsProven, Undelivered, vars, eventVars,
     gitVars, progressVars, stateVars, repairVars, countVars, historyVars
<1>2. CASE Next
  BY <1>2, ResumeStep, CheckpointStep, LoopStep, StartBatchStep, ThreadStep, CollectStep,
     RepairStep, PlannerRepairStep, RestoredStep, OutsideStep DEF Next, Progress, Outside
<1> QED
  BY <1>1, <1>2

\* The state of the runner, its files and the monitor stay well typed.
THEOREM GraphTypeCorrect == Spec => []TypeOK
<1>1. Inv => TypeOK
  BY DEF Inv
<1> QED
  BY InitInv, NextInv, <1>1, PTL DEF Spec

\* For every plan, and whatever mixture of checkpoints, events and monitor
\* decisions a Worker resumes from, a completed item's dependencies are completed.
THEOREM FrontierClosed == Spec => []DoneClosed
<1>1. Inv => DoneClosed
  BY DEF Inv
<1> QED
  BY InitInv, NextInv, <1>1, PTL DEF Spec

----------------------------------------------------------------------------
\* Every step of the runner is a step of DagExecution or leaves it unchanged.
LEMMA StepSimulates ==
  ASSUME Inv, [Next]_vars
  PROVE  [Dag!Next]_(Dag!vars)
<1>1. TypeOK /\ DoneClosed /\ BatchReady /\ ViewsProven /\ Undelivered
  BY DEF Inv
<1>2. ASSUME UNCHANGED <<done, proven>>, trace' # "completed" <=> trace # "completed"
      PROVE  [Dag!Next]_(Dag!vars)
  BY <1>2 DEF Dag!vars
<1>3. ASSUME trace # "completed", trace' # "completed", done' \subseteq proven,
             DoneClosed', UNCHANGED proven
      PROVE  [Dag!Next]_(Dag!vars)
  BY <1>3 DEF Dag!Next, Dag!Restore, Dag!Closed, DoneClosed
<1>4. CASE UNCHANGED vars
  BY <1>2, <1>4 DEF vars, stateVars, historyVars
<1>5. CASE ResumeRun \/ WorkerEntry \/ ReloadDelivery
  <2>1. PICK invalid \in SUBSET Integrators : LoadResume(invalid)
    BY <1>5 DEF ResumeRun, WorkerEntry, ReloadDelivery
  <2>2. done' \subseteq proven /\ DoneClosed'
    BY <1>1, <2>1, LoadedState DEF ViewsProven, Closed, DoneClosed
  <2>3. trace # "completed" /\ trace' # "completed" /\ proven' = proven
    BY <1>1, <1>5 DEF ResumeRun, WorkerEntry, ReloadDelivery, Undelivered
  <2> QED
    BY <1>3, <2>2, <2>3
<1>6. CASE Submit
  BY <1>1, <1>3, <1>6 DEF Submit, Undelivered, historyVars, DoneClosed
<1>7. CASE StartRun
  <2>1. trace # "completed" /\ trace' = trace
    BY <1>1, <1>7 DEF StartRun, Undelivered
  <2>2. CASE UNCHANGED <<done, proven>>
    BY <1>2, <2>1, <2>2
  <2>3. ASSUME NEW i \in Environment, done' = done \cup {i}, proven' = proven \cup {i}
        PROVE  [Dag!Next]_(Dag!vars)
    BY <2>1, <2>3, PlanAssumption DEF Dag!Next, Dag!Complete
  <2> QED
    BY <1>7, <2>2, <2>3 DEF StartRun, stateVars
<1>8. CASE \/ Cancelled \/ NoReadyItem \/ GiveUp
           \/ \E w : IntegrateWave(w) \/ WaveIntegrationFails(w)
  BY <1>1, <1>2, <1>8 DEF Cancelled, NoReadyItem, GiveUp, IntegrateWave, WaveIntegrationFails,
     LeaveWith, Loop, Undelivered, stateVars, historyVars
<1>9. CASE StartBatch \/ Save \/ (\E i \in Items : Thread(i))
  BY <1>2, <1>9 DEF StartBatch, Save, Thread, RecoverDurable, StartAttempt, WriteChange,
     AttemptCompletes, AttemptFails, EscalatesToOwners, AttemptWaits, BecomesA, stateVars,
     historyVars
<1>10. CASE FinishBatch
  <2>1. terminal.status # "completed"
    BY <1>1 DEF TypeOK, Verdicts, EarlyEnd
  <2> QED
    BY <1>1, <1>2, <1>10, <2>1 DEF FinishBatch, LeaveWith, Undelivered, stateVars, historyVars
<1>11. CASE GraphCompletes
  <2>1. trace # "completed" /\ done = Items /\ UNCHANGED <<done, proven>>
    BY <1>1, <1>11 DEF GraphCompletes, Loop, Undelivered, stateVars, historyVars
  <2> QED
    BY <1>2, <2>1 DEF Dag!Next, Dag!Deliver
<1>12. CASE Collect
  <2> DEFINE i == FirstOf(Pending)
  <2>1. i \in Items /\ Deps[i] \subseteq done
    <3>1. Pending \in SUBSET Items /\ Pending # {} /\ Pending \subseteq batch
      BY <1>1, <1>12 DEF Collect, TypeOK, Pending
    <3> QED
      BY <1>1, <1>12, <3>1, FirstOfMember DEF BatchReady, Collect
  <2>2. trace' = trace /\ trace # "completed"
    BY <1>1, <1>12 DEF Collect, Undelivered
  <2> HIDE DEF i
  <2>3. CASE Completes(i)
    BY <2>1, <2>2, <2>3 DEF Completes, Dag!Next, Dag!Complete
  <2>4. CASE EndsRun(i)
    BY <1>2, <2>2, <2>4 DEF EndsRun, historyVars
  <2> QED
    BY <1>12, <2>3, <2>4 DEF Collect, i
<1>13. CASE WaveRepair
  <2>1. blamed \in SUBSET Items /\ done \in SUBSET Items
    BY <1>1 DEF TypeOK
  <2>2. DoneClosed'
    BY <1>1, <1>13, <2>1, RemoveDescendants DEF WaveRepair, Affected, DoneClosed
  <2> QED
    BY <1>1, <1>3, <1>13, <2>2 DEF WaveRepair, ViewsProven, Undelivered
<1>14. CASE Kill \/ HostCrash \/ (\E w : KillDuringMerge(w))
  BY <1>2, <1>14 DEF Kill, HostCrash, KillDuringMerge, Dies, stateVars, historyVars
<1>15. CASE Finalize \/ KeepVerdict \/ FinalizeCancelled
  BY <1>1, <1>2, <1>15 DEF Finalize, KeepVerdict, FinalizeCancelled, Closes, Undelivered,
     stateVars
<1>16. CASE Cancel
  BY <1>2, <1>16 DEF Cancel, stateVars, historyVars
<1>17. CASE PlannerRepair
  BY <1>1, <1>2, <1>17 DEF PlannerRepair, Undelivered, stateVars, historyVars
<1>18. CASE RestoredArchitectureInvalid
  <2>1. DoneClosed' /\ done' \subseteq proven
    BY <1>1, <1>18, RestoredStep DEF Inv, ViewsProven
  <2>2. trace # "completed" /\ trace' # "completed" /\ proven' = proven
    BY <1>1, <1>18 DEF RestoredArchitectureInvalid, LeaveWith, Undelivered
  <2> QED
    BY <1>3, <2>1, <2>2
<1> QED
  BY <1>4, <1>5, <1>6, <1>7, <1>8, <1>9, <1>10, <1>11, <1>12, <1>13, <1>14, <1>15, <1>16,
     <1>17, <1>18
     DEF Next, Progress, Outside

\* For every plan, the runner, its repairs, crashes and resumes implement the
\* abstract DAG execution.
THEOREM ImplementsDag == Spec => RefinesDag
<1>1. Init => Dag!Init
  BY DEF Init, Dag!Init
<1>2. Inv /\ [Next]_vars => [Dag!Next]_(Dag!vars)
  BY StepSimulates
<1> QED
  BY InitInv, NextInv, <1>1, <1>2, PTL DEF Spec, RefinesDag, Dag!Spec

----------------------------------------------------------------------------
\* What a batch reads: BatchInputs.

\* While a batch is open its members do not feed each other, only they are at
\* work, and the last commits of the code they read are merged.
Baseline ==
    pc \in {"batch", "save"} =>
        /\ \A i \in batch : Deps[i] \cap batch = {}
        /\ \A i \in batch : \A d \in Deps[i] \cap Code : Commit(d) \in integrated
        /\ \A i \in Items : outcome[i] # "idle" => i \in batch

\* A completed wave is merged before a batch that reads it starts.
LEMMA MergedInputs ==
  ASSUME Inv, Merged, NEW i \in ready_items, NEW d \in Deps[i] \cap Code
  PROVE  Commit(d) \in integrated
<1>1. i \in Items /\ Deps[i] \subseteq done
  BY DEF ready_items
<1>2. Members(Wave[d]) \subseteq done
  BY <1>1, WaveAssumption DEF Members
<1>3. WaveSettled(Wave[d])
  BY <1>2 DEF Merged, ReadyWaves
<1> QED
  BY <1>3 DEF WaveSettled, Members

\* No action but these four leads to, or stays in, a batch.
LEMMA BatchSteps ==
  ASSUME Next, pc' \in {"batch", "save"}
  PROVE  \/ StartBatch \/ Collect \/ Save \/ Cancel
         \/ \E i \in Items : Thread(i)
<1>1. ~(ResumeRun \/ Submit \/ WorkerEntry \/ RestoredArchitectureInvalid \/ StartRun)
  BY DEF ResumeRun, Submit, WorkerEntry, RestoredArchitectureInvalid, StartRun, LeaveWith
<1>2. ~(Cancelled \/ GraphCompletes \/ NoReadyItem \/ FinishBatch \/ GiveUp)
  BY DEF Cancelled, GraphCompletes, NoReadyItem, FinishBatch, GiveUp, LeaveWith
<1>3. ASSUME NEW w PROVE ~(IntegrateWave(w) \/ WaveIntegrationFails(w) \/ KillDuringMerge(w))
  BY DEF IntegrateWave, WaveIntegrationFails, KillDuringMerge, Loop, Dies
<1>4. ~(WaveRepair \/ PlannerRepair \/ ReloadDelivery)
  BY DEF WaveRepair, PlannerRepair, ReloadDelivery
<1>5. ~(Finalize \/ KeepVerdict \/ FinalizeCancelled \/ Kill \/ HostCrash)
  BY DEF Finalize, KeepVerdict, FinalizeCancelled, Closes, Kill, HostCrash, Dies
<1> QED
  BY <1>1, <1>2, <1>3, <1>4, <1>5 DEF Next, Progress, Outside

LEMMA BaselineNext ==
  ASSUME Inv, Baseline, [Next]_vars
  PROVE  Baseline'
<1> SUFFICES ASSUME pc' \in {"batch", "save"}
             PROVE  /\ \A i \in batch' : Deps[i] \cap batch' = {}
                    /\ \A i \in batch' : \A d \in Deps[i] \cap Code : Commit(d)' \in integrated'
                    /\ \A i \in Items : outcome'[i] # "idle" => i \in batch'
  BY DEF Baseline
<1>0. TypeOK
  BY DEF Inv
<1>1. CASE StartBatch
  <2>1. PICK S \in SUBSET ready_items :
          batch' = S /\ outcome' = [i \in Items |-> IF i \in S THEN "queued" ELSE "idle"]
    BY <1>1 DEF StartBatch
  <2>2. UNCHANGED <<change, integrated>> /\ Merged
    BY <1>1 DEF StartBatch, gitVars
  <2>3. \A i \in batch' : Deps[i] \cap batch' = {}
    BY <2>1 DEF ready_items
  <2>4. \A i \in batch' : \A d \in Deps[i] \cap Code : Commit(d)' \in integrated'
    BY <2>1, <2>2, MergedInputs DEF Commit
  <2> QED
    BY <2>1, <2>3, <2>4
<1>2. CASE Collect \/ Save \/ Cancel \/ UNCHANGED vars
  <2>1. UNCHANGED <<batch, change, integrated, outcome>> /\ pc \in {"batch", "save"}
    BY <1>2 DEF Collect, Save, Cancel, vars, gitVars, progressVars
  <2> QED
    BY <2>1 DEF Baseline, Commit
<1>3. ASSUME NEW i \in Items, Thread(i)
      PROVE  /\ \A j \in batch' : Deps[j] \cap batch' = {}
             /\ \A j \in batch' : \A d \in Deps[j] \cap Code : Commit(d)' \in integrated'
             /\ \A j \in Items : outcome'[j] # "idle" => j \in batch'
  <2>1. /\ pc = "batch" /\ UNCHANGED <<batch, integrated>>
        /\ outcome[i] # "idle" /\ \A j \in Items \ {i} : outcome'[j] = outcome[j]
    <3>1. \E from \in {"queued", "running"} : \E to : BecomesA(i, from, to)
      BY <1>3 DEF Thread, RecoverDurable, StartAttempt, WriteChange, AttemptCompletes,
         AttemptFails, EscalatesToOwners, AttemptWaits
    <3> QED
      BY <1>0, <3>1 DEF BecomesA, TypeOK
  <2>2. i \in batch
    BY <2>1 DEF Baseline
  <2>3. \A d \in Items \ {i} : change'[d] = change[d]
    BY <1>0, <1>3 DEF Thread, RecoverDurable, StartAttempt, WriteChange, AttemptCompletes,
       AttemptFails, EscalatesToOwners, AttemptWaits, TypeOK
  <2>4. ASSUME NEW j \in batch, NEW d \in Deps[j] \cap Code PROVE Commit(d)' \in integrated
    <3>1. d # i /\ d \in Items
      BY <2>1, <2>2, PlanAssumption DEF Baseline
    <3> QED
      BY <2>1, <2>3, <3>1 DEF Baseline, Commit
  <2> QED
    BY <2>1, <2>2, <2>4 DEF Baseline
<1> QED
  BY <1>1, <1>2, <1>3, BatchSteps

\* For every plan: all that is upstream of a running batch is completed, except
\* beyond a bootstrap item, and the last commits of the code it reads are merged,
\* after any reruns, crashes and resumes.
THEOREM InputsAreMerged == Spec => []BatchInputs
<1>1. Init => Baseline
  BY DEF Init, Baseline
<1>2. Inv /\ Baseline /\ [Next]_vars => Baseline'
  BY BaselineNext
<1>3. Inv /\ Baseline => BatchInputs
  <2> SUFFICES ASSUME Inv, Baseline PROVE UpstreamCompleted /\ BaselineCurrent
    BY DEF BatchInputs
  <2>1. TypeOK /\ DoneClosed /\ BatchReady
    BY DEF Inv
  <2>2. ASSUME pc = "batch", NEW i \in batch PROVE Upstream(i) \subseteq done
    <3>1. done \in SUBSET Items /\ Deps[i] \subseteq done
      BY <2>1, <2>2 DEF TypeOK, BatchReady
    <3>2. \A k \in done \ Environment : Deps[k] \subseteq done
      BY <2>1 DEF DoneClosed
    <3> QED
      BY <3>1, <3>2 DEF Upstream
  <2>3. UpstreamCompleted
    BY <2>2 DEF UpstreamCompleted
  <2>4. BaselineCurrent
    BY <2>1 DEF BatchReady, Baseline, BaselineCurrent
  <2> QED
    BY <2>3, <2>4
<1> QED
  BY InitInv, NextInv, <1>1, <1>2, <1>3, PTL DEF Spec

----------------------------------------------------------------------------
\* What a delivery is made of: CompletedIntegrated.

\* Only the end of the graph completes a Trace.
LEMMA OnlyGraphCompletes ==
  ASSUME Inv, Next, trace # "completed", trace' = "completed"
  PROVE  GraphCompletes
<1>1. ~(ResumeRun \/ Submit \/ WorkerEntry \/ RestoredArchitectureInvalid \/ StartRun)
  BY DEF ResumeRun, Submit, WorkerEntry, RestoredArchitectureInvalid, StartRun, LeaveWith
<1>2. ~(Cancelled \/ NoReadyItem \/ GiveUp \/ StartBatch \/ Collect \/ Save)
  BY DEF Cancelled, NoReadyItem, GiveUp, LeaveWith, StartBatch, Collect, Save
<1>3. ~FinishBatch
  <2>1. terminal.status # "completed"
    BY DEF Inv, TypeOK, Verdicts, EarlyEnd
  <2> QED
    BY <2>1 DEF FinishBatch, LeaveWith
<1>4. ASSUME NEW w PROVE ~(IntegrateWave(w) \/ WaveIntegrationFails(w) \/ KillDuringMerge(w))
  BY DEF IntegrateWave, WaveIntegrationFails, KillDuringMerge, Dies
<1>5. ASSUME NEW i PROVE ~Thread(i)
  BY DEF Thread, RecoverDurable, StartAttempt, WriteChange, AttemptCompletes,
     AttemptFails, EscalatesToOwners, AttemptWaits, BecomesA
<1>6. ~(WaveRepair \/ PlannerRepair \/ ReloadDelivery)
  BY DEF WaveRepair, PlannerRepair, ReloadDelivery
<1>7. ~(Finalize \/ KeepVerdict \/ FinalizeCancelled \/ Kill \/ HostCrash \/ Cancel)
  BY DEF Finalize, KeepVerdict, FinalizeCancelled, Closes, Kill, HostCrash, Dies, Cancel
<1> QED
  BY <1>1, <1>2, <1>3, <1>4, <1>5, <1>6, <1>7 DEF Next, Progress, Outside

\* A delivered Trace is not touched again.
LEMMA DeliveredRests ==
  ASSUME Inv, trace = "completed"
  PROVE  ~Next
<1>1. pc = "off"
  BY DEF Inv, Undelivered
<1>2. ~(ResumeRun \/ Submit \/ WorkerEntry \/ RestoredArchitectureInvalid \/ StartRun)
  BY <1>1 DEF ResumeRun, Submit, WorkerEntry, RestoredArchitectureInvalid, StartRun
<1>3. ~(Cancelled \/ GraphCompletes \/ NoReadyItem \/ GiveUp \/ StartBatch \/ Collect \/ Save
        \/ FinishBatch)
  BY <1>1 DEF Cancelled, GraphCompletes, NoReadyItem, GiveUp, Loop, StartBatch, Collect, Save,
     FinishBatch
<1>4. ASSUME NEW w PROVE ~(IntegrateWave(w) \/ WaveIntegrationFails(w) \/ KillDuringMerge(w))
  BY <1>1 DEF IntegrateWave, WaveIntegrationFails, KillDuringMerge, Loop
<1>5. ASSUME NEW i PROVE ~Thread(i)
  BY <1>1 DEF Thread, RecoverDurable, StartAttempt, WriteChange, AttemptCompletes,
     AttemptFails, EscalatesToOwners, AttemptWaits, BecomesA
<1>6. ~(WaveRepair \/ PlannerRepair \/ ReloadDelivery)
  BY <1>1 DEF WaveRepair, PlannerRepair, ReloadDelivery
<1>7. ~(Finalize \/ KeepVerdict \/ FinalizeCancelled \/ Kill \/ HostCrash \/ Cancel)
  BY <1>1 DEF Finalize, KeepVerdict, FinalizeCancelled, Kill, HostCrash, Live, Cancel
<1> QED
  BY <1>2, <1>3, <1>4, <1>5, <1>6, <1>7 DEF Next, Progress, Outside

\* A Trace that ends as completed has every item completed and the last commit
\* of every code item merged, for every plan and after any repairs and crashes.
THEOREM DeliveryIsMerged == Spec => []CompletedIntegrated
<1>1. Init => CompletedIntegrated
  BY DEF Init, CompletedIntegrated
<1>2. Inv /\ CompletedIntegrated /\ [Next]_vars => CompletedIntegrated'
  <2> SUFFICES ASSUME Inv, CompletedIntegrated, [Next]_vars, trace' = "completed"
               PROVE  done' = Items /\ \A i \in Code : Commit(i)' \in integrated'
    BY DEF CompletedIntegrated
  <2>1. CASE UNCHANGED vars
    BY <2>1 DEF vars, stateVars, gitVars, CompletedIntegrated, Commit
  <2>2. CASE Next
    <3>1. GraphCompletes
      BY <2>2, OnlyGraphCompletes, DeliveredRests
    <3>2. Merged /\ done = Items /\ UNCHANGED <<done, change, integrated>>
      BY <3>1 DEF GraphCompletes, stateVars, gitVars
    <3>3. ASSUME NEW i \in Code PROVE Commit(i) \in integrated
      <4>1. Members(Wave[i]) \subseteq done
        BY <3>2, PlanAssumption DEF Members
      <4>2. WaveSettled(Wave[i])
        BY <3>2, <4>1 DEF Merged, ReadyWaves
      <4> QED
        BY <4>2 DEF WaveSettled, Members
    <3> QED
      BY <3>2, <3>3 DEF Commit
  <2> QED
    BY <2>1, <2>2
<1> QED
  BY InitInv, NextInv, <1>1, <1>2, PTL DEF Spec

----------------------------------------------------------------------------
\* The retry budgets of a Trace: RetryBudgetKept.

\* The counters are natural numbers, and a record adds at most one to each.
LEMMA CountersAppend ==
  ASSUME NEW l \in Seq(Record), NEW rec \in Record
  PROVE  /\ budget_count(l) \in Nat
         /\ budget_count(Append(l, rec)) = budget_count(l) + 1
              \/ budget_count(Append(l, rec)) = budget_count(l)
         /\ \A i \in Items :
              /\ budget_count_for_work_item(l, i) \in Nat
              /\ \/ budget_count_for_work_item(Append(l, rec), i) = budget_count_for_work_item(l, i)
                 \/ /\ rec.root = i
                    /\ budget_count_for_work_item(Append(l, rec), i)
                          = budget_count_for_work_item(l, i) + 1
<1> DEFINE m == Append(l, rec)
           n == Len(l) + 1
<1>1. /\ Len(l) \in Nat /\ Len(m) = n /\ m[n] = rec
      /\ \A x \in 1..Len(l) : m[x] = l[x]
  OBVIOUS
<1>2. ASSUME NEW S \in SUBSET (1..Len(l))
      PROVE  /\ IsFiniteSet(S) /\ Cardinality(S) \in Nat
             /\ Cardinality(S \cup {n}) = Cardinality(S) + 1
  <2>1. IsFiniteSet(1..Len(l))
    BY <1>1, FS_Interval
  <2>2. IsFiniteSet(S)
    BY <2>1, FS_Subset
  <2>3. n \notin S
    BY <1>1
  <2> QED
    BY <2>2, <2>3, FS_CardinalityType, FS_AddElement
<1>3. /\ Charged(l) \in SUBSET (1..Len(l))
      /\ Charged(m) = Charged(l) \/ Charged(m) = Charged(l) \cup {n}
  BY <1>1 DEF Charged
<1>4. ASSUME NEW i \in Items
      PROVE  /\ ChargedFor(l, i) \in SUBSET (1..Len(l))
             /\ \/ ChargedFor(m, i) = ChargedFor(l, i)
                \/ rec.root = i /\ ChargedFor(m, i) = ChargedFor(l, i) \cup {n}
  BY <1>1 DEF Charged, ChargedFor
<1> HIDE DEF m, n
<1>5. /\ budget_count(l) \in Nat
      /\ budget_count(m) = budget_count(l) + 1 \/ budget_count(m) = budget_count(l)
  BY <1>2, <1>3 DEF budget_count
<1>6. ASSUME NEW i \in Items
      PROVE  /\ budget_count_for_work_item(l, i) \in Nat
             /\ \/ budget_count_for_work_item(m, i) = budget_count_for_work_item(l, i)
                \/ /\ rec.root = i
                   /\ budget_count_for_work_item(m, i) = budget_count_for_work_item(l, i) + 1
  BY <1>2, <1>4 DEF budget_count_for_work_item
<1> QED
  BY <1>5, <1>6 DEF m

\* What the policy demands of a record that charges.
Granted(rec) ==
    rec.action \in budget_actions =>
        /\ budget_count(ledger) < max_total_retries
        /\ rec.root \in Items =>
              budget_count_for_work_item(ledger, rec.root) < max_retries_per_work_item

LEMMA GrantedKeeps ==
  ASSUME TypeOK, RetryBudgetKept, NEW rec \in Record, Granted(rec), ledger' = Recorded(rec)
  PROVE  RetryBudgetKept'
<1>1. ledger \in Seq(Record)
  BY DEF TypeOK
<1>2. CASE rec.action \in budget_actions
  <2>1. ledger' = Append(ledger, rec)
    BY <1>2 DEF Recorded
  <2>2. budget_count(ledger') <= max_total_retries
    BY <1>1, <1>2, <2>1, CountersAppend, LimitAssumption DEF RetryBudgetKept, Granted
  <2>3. \A i \in Items : budget_count_for_work_item(ledger', i) <= max_retries_per_work_item
    BY <1>1, <1>2, <2>1, CountersAppend, LimitAssumption DEF RetryBudgetKept, Granted
  <2> QED
    BY <2>2, <2>3 DEF RetryBudgetKept
<1>3. CASE rec.action \notin budget_actions
  <2>1. ledger' = ledger
    BY <1>3 DEF Recorded
  <2> QED
    BY <2>1 DEF RetryBudgetKept
<1> QED
  BY <1>2, <1>3

\* RetryPolicy.action_for charges only below the limits it is shown.
LEMMA PolicyGrants ==
  ASSUME NEW k \in FailureKind, NEW ok \in BOOLEAN, NEW x \in Nat, NEW y \in Nat, NEW z,
         action_for(k, ok, x, y, z) \in budget_actions
  PROVE  x < max_total_retries /\ y < max_retries_per_work_item
BY LimitAssumption DEF action_for, budget_actions

LEMMA ItemGranted ==
  ASSUME TypeOK, NEW i \in Items, NEW k \in Kinds, NEW f \in Prints, NEW ok \in BOOLEAN
  PROVE  Granted(ItemDecision(ledger, i, k, f, ok))
<1> DEFINE rec == ItemDecision(ledger, i, k, f, ok)
           x == budget_count(ledger)
           y == budget_count_for_work_item(ledger, i)
           z == budget_count_for_kind(ledger, i, k)
<1>1. x \in Nat /\ y \in Nat
  BY CountersAppend, ItemRecord DEF TypeOK
<1>2. k \in FailureKind
  BY KindAssumption
<1>3. rec.root = i /\ (rec.action = "fail" \/ rec.action = action_for(k, ok, x, y, z))
  BY DEF ItemDecision
<1> HIDE DEF x, y, z
<1>4. rec.action \in budget_actions => x < max_total_retries /\ y < max_retries_per_work_item
  <2>1. "fail" \notin budget_actions
    BY DEF budget_actions
  <2> QED
    BY <1>1, <1>2, <1>3, <2>1, PolicyGrants
<1> QED
  BY <1>3, <1>4 DEF Granted, x, y

LEMMA MonitorGranted ==
  ASSUME TypeOK, NEW r \in Items \cup {NoItem}, NEW k \in Kinds, NEW f \in Prints,
         NEW active \in SUBSET Items, NEW batchOpen \in BOOLEAN
  PROVE  Granted(MonitorDecision(ledger, r, k, f, active, batchOpen))
<1> DEFINE rec == MonitorDecision(ledger, r, k, f, active, batchOpen)
           x == budget_count(ledger)
           y == IF r # NoItem THEN budget_count_for_work_item(ledger, r) ELSE 0
           z == IF r # NoItem THEN budget_count_for_kind(ledger, r, k) ELSE 0
           decided == action_for(k, TRUE, x, y, z)
<1>1. x \in Nat /\ y \in Nat
  BY CountersAppend, MonitorRecord DEF TypeOK
<1>2. k \in FailureKind
  BY KindAssumption
<1>3. rec.root = r /\ rec.action = IF batchOpen /\ decided = "resume" THEN "retry_batch" ELSE decided
  BY DEF MonitorDecision
<1> HIDE DEF x, y, z
<1>4. rec.action \in budget_actions => decided \in budget_actions
  BY <1>3 DEF budget_actions
<1>5. rec.action \in budget_actions => x < max_total_retries /\ y < max_retries_per_work_item
  BY <1>1, <1>2, <1>4, PolicyGrants
<1>6. r \in Items => y = budget_count_for_work_item(ledger, r)
  BY KindAssumption DEF y
<1> QED
  BY <1>3, <1>5, <1>6 DEF Granted, x

\* Only a failed attempt and the monitor of a dead Worker write the ledger.
LEMMA LedgerSteps ==
  ASSUME [Next]_vars
  PROVE  ledger' = ledger \/ Finalize \/ \E i \in Items : AttemptFails(i)
<1>1. CASE UNCHANGED vars
  BY <1>1 DEF vars
<1>2. CASE ResumeRun \/ Submit \/ WorkerEntry \/ RestoredArchitectureInvalid \/ StartRun
  BY <1>2 DEF ResumeRun, Submit, WorkerEntry, RestoredArchitectureInvalid, StartRun
<1>3. CASE Cancelled \/ GraphCompletes \/ NoReadyItem \/ GiveUp \/ StartBatch \/ Collect \/ Save
           \/ FinishBatch
  BY <1>3 DEF Cancelled, GraphCompletes, NoReadyItem, GiveUp, StartBatch, Collect, Save,
     FinishBatch
<1>4. ASSUME NEW w, IntegrateWave(w) \/ WaveIntegrationFails(w) \/ KillDuringMerge(w)
      PROVE  ledger' = ledger
  BY <1>4 DEF IntegrateWave, WaveIntegrationFails, KillDuringMerge, Dies
<1>5. ASSUME NEW i, Thread(i), ~AttemptFails(i) PROVE ledger' = ledger
  BY <1>5 DEF Thread, RecoverDurable, StartAttempt, WriteChange, AttemptCompletes,
     EscalatesToOwners, AttemptWaits
<1>6. CASE WaveRepair \/ PlannerRepair \/ ReloadDelivery
  BY <1>6 DEF WaveRepair, PlannerRepair, ReloadDelivery
<1>7. CASE KeepVerdict \/ FinalizeCancelled \/ Kill \/ HostCrash \/ Cancel
  BY <1>7 DEF KeepVerdict, FinalizeCancelled, Kill, HostCrash, Dies, Cancel
<1> QED
  BY <1>1, <1>2, <1>3, <1>4, <1>5, <1>6, <1>7 DEF Next, Progress, Outside

\* The Trace-wide and the per-item retry budget hold exactly over any sequence
\* of Workers, crashes and monitor decisions: every decision is taken on the
\* ledger it is appended to.
THEOREM BudgetsHold == Spec => []RetryBudgetKept
<1>1. Init => RetryBudgetKept
  <2> SUFFICES ASSUME Init PROVE RetryBudgetKept
    OBVIOUS
  <2>1. Charged(ledger) = {} /\ \A i \in Items : ChargedFor(ledger, i) = {}
    BY DEF Init, Charged, ChargedFor
  <2> QED
    BY <2>1, FS_EmptySet, LimitAssumption
       DEF RetryBudgetKept, budget_count, budget_count_for_work_item
<1>2. Inv /\ RetryBudgetKept /\ [Next]_vars => RetryBudgetKept'
  <2> SUFFICES ASSUME Inv, RetryBudgetKept, [Next]_vars PROVE RetryBudgetKept'
    OBVIOUS
  <2>0. TypeOK
    BY DEF Inv
  <2>1. CASE ledger' = ledger
    BY <2>1 DEF RetryBudgetKept
  <2>2. ASSUME NEW i \in Items, AttemptFails(i) PROVE RetryBudgetKept'
    <3>1. PICK k \in Kinds, f \in Prints, ok \in BOOLEAN :
            ledger' = Recorded(ItemDecision(ledger, i, k, f, ok))
      BY <2>2 DEF AttemptFails
    <3> QED
      BY <2>0, <3>1, ItemRecord, ItemGranted, GrantedKeeps
  <2>3. CASE Finalize
    <3> DEFINE active == IF open # {} THEN open ELSE batch
    <3>1. PICK k \in Kinds, f \in Prints : \E r \in RootChoices(k) :
            ledger' = Recorded(MonitorDecision(ledger, r, k, f, active, batch # {}))
      BY <2>3 DEF Finalize
    <3>2. PICK r \in RootChoices(k) :
            ledger' = Recorded(MonitorDecision(ledger, r, k, f, active, batch # {}))
      BY <3>1
    <3>3. active \in SUBSET Items
      BY <2>0 DEF TypeOK
    <3>4. r \in Items \cup {NoItem}
      <4>1. batch # {} => FirstOf(batch) \in Items
        BY <2>0, FirstOfMember DEF TypeOK
      <4> QED
        BY <2>0, <4>1 DEF RootChoices, TypeOK
    <3> HIDE DEF active
    <3>5. (batch # {}) \in BOOLEAN
      OBVIOUS
    <3> QED
      BY <2>0, <3>2, <3>3, <3>4, <3>5, MonitorRecord, MonitorGranted, GrantedKeeps
  <2> QED
    BY <2>1, <2>2, <2>3, LedgerSteps
<1> QED
  BY InitInv, NextInv, <1>1, <1>2, PTL DEF Spec

----------------------------------------------------------------------------
\* What is not executed again: NoReplay.

\* A Worker that has loaded the Trace knows every completion of the log, or its
\* revocation.
Known ==
    pc \in {"submit", "run", "loop", "batch", "save", "repair", "reload"}
        => doneEvent \subseteq done \cup revoked

\* Recovery decisions wait only for a Trace that no one runs, and what they
\* invalidate is revoked.
Recovered ==
    /\ pc # "off" => Unapplied = {}
    /\ Invalidated \subseteq revoked

LEMMA DescendantsEmpty == Descendants({}) = {}
<1>1. DescendantClosed({}) /\ {} \in SUBSET Items
  BY DEF DescendantClosed
<1> QED
  BY <1>1 DEF Descendants

\* Nothing is invalidated while no decision waits.
LEMMA NothingInvalidated ==
  /\ Unapplied = {} => Invalidated = {}
  /\ Unapplied' = {} => Invalidated' = {}
<1>1. ASSUME Unapplied = {} PROVE Invalidated = {}
  BY <1>1, DescendantsEmpty DEF Invalidated
<1>2. ASSUME Unapplied' = {} PROVE Invalidated' = {}
  BY <1>2, DescendantsEmpty DEF Invalidated
<1> QED
  BY <1>1, <1>2

\* A decision names items of the plan.
LEMMA FrontierItems ==
  ASSUME TypeOK, NEW n \in 1..Len(ledger)
  PROVE  Frontier(n) \subseteq Items
<1>1. ledger[n] \in Record
  BY DEF TypeOK
<1>2. ledger[n].interrupted \subseteq Items
  BY <1>1 DEF Record
<1> QED
  BY <1>2 DEF Frontier

LEMMA DescendantsMonotone ==
  ASSUME NEW S, NEW T, S \subseteq T
  PROVE  Descendants(S) \subseteq Descendants(T)
BY DEF Descendants

LEMMA DescendantsContain ==
  ASSUME NEW S \in SUBSET Items
  PROVE  S \subseteq Descendants(S)
BY DEF Descendants

\* A chosen view that counts no more than what the log proves is the rebuilt one.
LEMMA ChosenIsRebuilt ==
  ASSUME TypeOK, Richest.done \subseteq Rebuilt
  PROVE  Richest.done = Rebuilt
<1>1. /\ IsFiniteSet(ckpt.done) /\ IsFiniteSet(dckpt.done) /\ IsFiniteSet(Rebuilt)
  <2>1. Rebuilt \subseteq Items /\ ckpt.done \subseteq Items /\ dckpt.done \subseteq Items
    BY PruneClosed DEF TypeOK, Checkpoints, Rebuilt
  <2> QED
    BY <2>1, PlanAssumption, FS_Subset
<1>2. \A T \in {ckpt.done, dckpt.done} :
         T \subseteq Rebuilt => Cardinality(T) <= Cardinality(Rebuilt)
  BY <1>1, FS_Subset
<1>3. /\ Cardinality(ckpt.done) \in Nat /\ Cardinality(dckpt.done) \in Nat
      /\ Cardinality(Rebuilt) \in Nat
  BY <1>1, FS_CardinalityType
<1> DEFINE size(x) == IF x.ok THEN Cardinality(x.done) ELSE 0
<1>4. CASE \A x \in Readable : Cardinality(x.done) <= Cardinality(Rebuilt)
  BY <1>4 DEF Richest
<1>5. CASE ~\A x \in Readable : Cardinality(x.done) <= Cardinality(Rebuilt)
  <2>1. \/ size(dckpt) <= size(ckpt) /\ Richest = ckpt
        \/ ~(size(dckpt) <= size(ckpt)) /\ Richest = dckpt
    BY <1>5 DEF Richest
  <2>2. \/ ckpt.ok /\ Cardinality(ckpt.done) > Cardinality(Rebuilt)
        \/ dckpt.ok /\ Cardinality(dckpt.done) > Cardinality(Rebuilt)
    BY <1>3, <1>5 DEF Readable
  <2>3. CASE size(dckpt) <= size(ckpt) /\ Richest = ckpt
    <3>1. Cardinality(ckpt.done) > Cardinality(Rebuilt)
      BY <1>3, <2>2, <2>3
    <3> QED
      BY <1>2, <1>3, <2>3, <3>1
  <2>4. CASE ~(size(dckpt) <= size(ckpt)) /\ Richest = dckpt
    <3>1. Cardinality(dckpt.done) > Cardinality(Rebuilt)
      BY <1>3, <2>2, <2>4
    <3> QED
      BY <1>2, <1>3, <2>4, <3>1
  <2> QED
    BY <2>1, <2>3, <2>4
<1> QED
  BY <1>4, <1>5

\* Loading a Trace loses no completion of the log without revoking it.
LEMMA LoadKnows ==
  ASSUME TypeOK, Recovered, NEW invalid \in SUBSET Integrators, LoadResume(invalid)
  PROVE  doneEvent' \subseteq done' \cup revoked'
<1>1. /\ done' = Sanitized(invalid) /\ doneEvent' = doneEvent
      /\ revoked' = revoked \cup Descendants(invalid) \cup Outvoted
  BY DEF LoadResume
<1>2. invalid \in SUBSET Items
  BY PlanAssumption
<1> DEFINE P == Prune(Richest.done)
           U == UNION {Frontier(n) : n \in Unapplied}
           T == (P \ Invalidated) \ Descendants(invalid)
<1>3. T \subseteq done'
  <2>1. P \in SUBSET Items /\ P \subseteq Richest.done /\ \A i \in P \ {} : Deps[i] \subseteq P
    BY RichestView, PruneClosed DEF Closed
  <2>2. U \in SUBSET Items
    BY FrontierItems DEF Unapplied
  <2> DEFINE D == P \ Invalidated
  <2>3. D \in SUBSET Items /\ \A i \in D \ {} : Deps[i] \subseteq D
    <3> HIDE DEF P, U
    <3>1. \A i \in (P \ Descendants(U)) \ {} : Deps[i] \subseteq P \ Descendants(U)
      BY <2>1, <2>2, RemoveDescendants
    <3> QED
      BY <2>1, <3>1 DEF Invalidated, U
  <2>4. Closed(T)
    <3> HIDE DEF D
    <3>1. \A i \in (D \ Descendants(invalid)) \ {} : Deps[i] \subseteq D \ Descendants(invalid)
      BY <1>2, <2>3, RemoveDescendants
    <3> QED
      BY <3>1 DEF Closed, D
  <2>5. T \subseteq (Richest.done \ Invalidated) \ invalid
    BY <1>2, <2>1, DescendantsContain
  <2> HIDE DEF T
  <2> QED
    BY <1>1, <2>4, <2>5 DEF Sanitized, Prune
<1>4. ASSUME NEW x \in doneEvent PROVE x \in T \cup revoked'
  <2>1. CASE x \notin Prune(doneEvent)
    BY <1>1, <2>1 DEF Outvoted
  <2>2. CASE x \in Prune(doneEvent) /\ Richest.done \subseteq Prune(doneEvent)
    <3>1. Richest.done = Prune(doneEvent) /\ Closed(Prune(doneEvent))
      BY <2>2, ChosenIsRebuilt, PruneClosed DEF Rebuilt
    <3>2. x \in P
      BY <2>2, <3>1 DEF Prune
    <3> HIDE DEF P
    <3> QED
      BY <1>1, <3>2 DEF Recovered
  <2>3. CASE ~(Richest.done \subseteq Prune(doneEvent)) /\ x \notin P
    BY <1>1, <2>3 DEF Outvoted
  <2>4. CASE x \in P
    <3> HIDE DEF P
    <3> QED
      BY <1>1, <2>4 DEF Recovered
  <2> QED
    BY <2>1, <2>2, <2>3, <2>4
<1> QED
  BY <1>1, <1>3, <1>4

\* What a step does to the recovery decisions.
LEMMA RecoverySteps ==
  ASSUME [Next]_vars
  PROVE  \/ \E invalid \in SUBSET Integrators : LoadResume(invalid) /\ ledger' = ledger
         \/ Finalize
         \/ \E i \in Items : AttemptFails(i)
         \/ /\ ledger' = ledger /\ applied' = applied
            /\ pc' # "off" => pc # "off"
            /\ revoked \subseteq revoked' \/ pc # "off"
<1>1. CASE UNCHANGED vars
  BY <1>1 DEF vars, eventVars, historyVars
<1>2. CASE ResumeRun \/ WorkerEntry \/ ReloadDelivery
  BY <1>2 DEF ResumeRun, WorkerEntry, ReloadDelivery
<1>3. CASE Submit \/ RestoredArchitectureInvalid \/ StartRun \/ WaveRepair \/ PlannerRepair
  BY <1>3 DEF Submit, RestoredArchitectureInvalid, StartRun, WaveRepair, PlannerRepair,
     eventVars
<1>4. CASE Cancelled \/ GraphCompletes \/ NoReadyItem \/ GiveUp \/ StartBatch \/ Collect \/ Save
           \/ FinishBatch
  BY <1>4 DEF Cancelled, GraphCompletes, NoReadyItem, GiveUp, Loop, StartBatch, Collect, Save,
     FinishBatch, eventVars
<1>5. ASSUME NEW w, IntegrateWave(w) \/ WaveIntegrationFails(w) \/ KillDuringMerge(w)
      PROVE  ledger' = ledger /\ applied' = applied /\ pc # "off"
  BY <1>5 DEF IntegrateWave, WaveIntegrationFails, KillDuringMerge, Loop, Dies, eventVars
<1>6. ASSUME NEW i, Thread(i), ~AttemptFails(i)
      PROVE  ledger' = ledger /\ applied' = applied /\ pc # "off"
  BY <1>6 DEF Thread, RecoverDurable, StartAttempt, WriteChange, AttemptCompletes,
     EscalatesToOwners, AttemptWaits, BecomesA, eventVars
<1>7. CASE KeepVerdict \/ FinalizeCancelled \/ Kill \/ HostCrash
  BY <1>7 DEF KeepVerdict, FinalizeCancelled, Closes, Kill, HostCrash, Live, Dies, eventVars
<1>8. CASE Cancel
  BY <1>8 DEF Cancel, eventVars, historyVars
<1> QED
  BY <1>1, <1>2, <1>3, <1>4, <1>5, <1>6, <1>7, <1>8 DEF Next, Progress, Outside

\* An attempt's own failure never orders a recovery.
LEMMA ItemNoRecovery ==
  ASSUME NEW l, NEW i, NEW k \in Kinds \ ResumeKinds, NEW f, NEW ok
  PROVE  ~IsRecovery(ItemDecision(l, i, k, f, ok))
<1>1. \A x, y, z : action_for(k, ok, x, y, z) \notin {"resume", "retry_batch"}
  BY DEF action_for
<1> QED
  BY <1>1 DEF ItemDecision, IsRecovery

LEMMA RecoveredNext ==
  ASSUME Inv, Recovered, [Next]_vars
  PROVE  Recovered'
<1>0. TypeOK /\ ledger \in Seq(Record)
  BY DEF Inv, TypeOK
<1>1. ASSUME NEW invalid \in SUBSET Integrators, LoadResume(invalid), ledger' = ledger
      PROVE  Recovered'
  <2>1. Unapplied' = {}
    BY <1>1 DEF LoadResume, Unapplied
  <2> QED
    BY <2>1, NothingInvalidated DEF Recovered
<1>2. ASSUME NEW i \in Items, AttemptFails(i) PROVE Recovered'
  <2>1. pc = "batch" /\ applied' = applied
    BY <1>2 DEF AttemptFails, BecomesA, eventVars
  <2>2. PICK k \in Kinds \ ResumeKinds, f \in Prints, ok \in BOOLEAN :
          ledger' = Recorded(ItemDecision(ledger, i, k, f, ok))
    BY <1>2 DEF AttemptFails
  <2> DEFINE rec == ItemDecision(ledger, i, k, f, ok)
  <2>3. ~IsRecovery(rec)
    BY ItemNoRecovery
  <2>4. ledger' = ledger \/ ledger' = Append(ledger, rec)
    BY <2>2 DEF Recorded
  <2> HIDE DEF rec
  <2>5. \A n \in 1..Len(ledger') : IsRecovery(ledger'[n]) =>
           n \in 1..Len(ledger) /\ ledger'[n] = ledger[n]
    BY <1>0, <2>3, <2>4
  <2>6. Unapplied' = {}
    BY <2>1, <2>5 DEF Recovered, Unapplied
  <2> QED
    BY <2>6, NothingInvalidated DEF Recovered
<1>3. CASE Finalize
  <2> DEFINE active == IF open # {} THEN open ELSE batch
  <2>1. PICK k \in Kinds, f \in Prints : \E r \in RootChoices(k) :
          LET rec == MonitorDecision(ledger, r, k, f, active, batch # {})
          IN  /\ ledger' = Recorded(rec)
              /\ revoked' = IF rec.action \in budget_actions
                            THEN revoked \cup Descendants(active \cup ({r} \cap Items))
                            ELSE revoked
    BY <1>3 DEF Finalize
  <2>2. PICK r \in RootChoices(k) :
          LET rec == MonitorDecision(ledger, r, k, f, active, batch # {})
          IN  /\ ledger' = Recorded(rec)
              /\ revoked' = IF rec.action \in budget_actions
                            THEN revoked \cup Descendants(active \cup ({r} \cap Items))
                            ELSE revoked
    BY <2>1
  <2>3. pc = "dead" /\ pc' = "off" /\ applied' = applied
    BY <1>3 DEF Finalize, Closes
  <2>4. Unapplied = {} /\ Len(ledger) \in Nat
    BY <1>0, <2>3 DEF Recovered
  <2> DEFINE rec == MonitorDecision(ledger, r, k, f, active, batch # {})
  <2>5. rec.root = r /\ rec.interrupted = active \ {r}
    BY DEF MonitorDecision
  <2>6. /\ ledger' = Recorded(rec)
        /\ revoked' = IF rec.action \in budget_actions
                      THEN revoked \cup Descendants(active \cup ({r} \cap Items))
                      ELSE revoked
    BY <2>2
  <2> HIDE DEF rec, active
  <2>7. CASE rec.action \in budget_actions
    <3>1. ledger' = Append(ledger, rec)
      BY <2>6, <2>7 DEF Recorded
    <3>2. PICK last \in Nat :
            /\ last = Len(ledger) + 1 /\ Len(ledger') = last /\ ledger'[last] = rec
            /\ \A n \in 1..Len(ledger) : ledger'[n] = ledger[n]
      BY <1>0, <3>1
    <3>3. Unapplied' \subseteq {last}
      BY <2>3, <2>4, <3>2 DEF Unapplied
    <3>4. Frontier(last)' \subseteq active \cup ({r} \cap Items)
      BY <2>5, <3>2 DEF Frontier
    <3> DEFINE U == UNION {Frontier(n) : n \in Unapplied}
               A == active \cup ({r} \cap Items)
    <3>5. U' \subseteq A
      <4>1. ASSUME NEW n \in Unapplied' PROVE Frontier(n)' \subseteq A
        BY <3>3, <3>4
      <4>2. U' = UNION {Frontier(n)' : n \in Unapplied'}
        OBVIOUS
      <4> HIDE DEF U, A
      <4> QED
        BY <4>1, <4>2
    <3>6. Invalidated' \subseteq Descendants(A)
      <4>1. Invalidated' = Descendants(U')
        BY DEF Invalidated, Descendants
      <4> HIDE DEF U, A
      <4> QED
        BY <3>5, <4>1, DescendantsMonotone
    <3> QED
      BY <2>3, <2>6, <2>7, <3>6 DEF Recovered
  <2>8. CASE rec.action \notin budget_actions
    <3>1. ledger' = ledger
      BY <2>6, <2>8 DEF Recorded
    <3>2. Unapplied' = {}
      BY <2>3, <2>4, <3>1 DEF Unapplied
    <3> QED
      BY <3>2, NothingInvalidated DEF Recovered
  <2> QED
    BY <2>7, <2>8
<1>4. ASSUME ledger' = ledger, applied' = applied, pc' # "off" => pc # "off",
             revoked \subseteq revoked' \/ pc # "off"
      PROVE  Recovered'
  <2>1. Unapplied' = Unapplied
    BY <1>4 DEF Unapplied
  <2>2. CASE pc # "off"
    BY <2>1, <2>2, NothingInvalidated DEF Recovered
  <2>3. CASE pc = "off"
    <3>1. Invalidated' = Invalidated
      BY <1>4, <2>1 DEF Invalidated, Frontier
    <3> QED
      BY <1>4, <2>1, <2>3, <3>1 DEF Recovered
  <2> QED
    BY <2>2, <2>3
<1> QED
  BY <1>1, <1>2, <1>3, <1>4, RecoverySteps

LEMMA KnownNext ==
  ASSUME Inv, Known, Recovered, [Next]_vars
  PROVE  Known'
<1>0. TypeOK
  BY DEF Inv
<1>1. CASE ResumeRun \/ WorkerEntry \/ ReloadDelivery
  <2>1. PICK invalid \in SUBSET Integrators : LoadResume(invalid)
    BY <1>1 DEF ResumeRun, WorkerEntry, ReloadDelivery
  <2> QED
    BY <1>0, <2>1, LoadKnows DEF Known
<1>2. CASE Collect
  BY <1>2 DEF Collect, Completes, EndsRun, historyVars, Known
<1>3. CASE WaveRepair
  BY <1>3 DEF WaveRepair, eventVars, Known
<1>4. CASE StartRun
  BY <1>4 DEF StartRun, eventVars, stateVars, Known
<1>5. CASE Submit \/ RestoredArchitectureInvalid \/ Cancelled \/ GraphCompletes \/ NoReadyItem
           \/ GiveUp
  BY <1>5 DEF Submit, RestoredArchitectureInvalid, Cancelled, GraphCompletes, NoReadyItem,
     GiveUp, LeaveWith, Known
<1>6. CASE StartBatch \/ Save \/ FinishBatch \/ PlannerRepair \/ Cancel \/ UNCHANGED vars
  BY <1>6 DEF StartBatch, Loop, Save, FinishBatch, LeaveWith, PlannerRepair, Cancel, vars,
     eventVars, stateVars, historyVars, Known
<1>7. ASSUME NEW w, IntegrateWave(w) \/ WaveIntegrationFails(w) \/ KillDuringMerge(w)
      PROVE  Known'
  BY <1>7 DEF IntegrateWave, WaveIntegrationFails, KillDuringMerge, Dies, Loop, eventVars,
     stateVars, historyVars, Known
<1>8. ASSUME NEW i, Thread(i) PROVE Known'
  BY <1>8 DEF Thread, RecoverDurable, StartAttempt, WriteChange, AttemptCompletes,
     AttemptFails, EscalatesToOwners, AttemptWaits, BecomesA, eventVars, stateVars,
     historyVars, Known
<1>9. CASE Finalize \/ KeepVerdict \/ FinalizeCancelled \/ Kill \/ HostCrash
  BY <1>9 DEF Finalize, KeepVerdict, FinalizeCancelled, Closes, Kill, HostCrash, Dies, Known
<1> QED
  BY <1>1, <1>2, <1>3, <1>4, <1>5, <1>6, <1>7, <1>8, <1>9 DEF Next, Progress, Outside

\* Only the start of a batch puts items into it.
LEMMA BatchGrows ==
  ASSUME [Next]_vars
  PROVE  StartBatch \/ batch' \subseteq batch
<1>1. CASE UNCHANGED vars
  BY <1>1 DEF vars, progressVars
<1>2. CASE ResumeRun \/ Submit \/ WorkerEntry \/ RestoredArchitectureInvalid \/ StartRun
  BY <1>2 DEF ResumeRun, Submit, WorkerEntry, RestoredArchitectureInvalid, LeaveWith,
     StartRun, progressVars
<1>3. CASE Cancelled \/ GraphCompletes \/ NoReadyItem \/ GiveUp \/ Collect \/ Save \/ FinishBatch
  BY <1>3 DEF Cancelled, GraphCompletes, NoReadyItem, GiveUp, LeaveWith, Collect, Save,
     FinishBatch, progressVars
<1>4. ASSUME NEW w, IntegrateWave(w) \/ WaveIntegrationFails(w) \/ KillDuringMerge(w)
      PROVE  batch' = batch
  BY <1>4 DEF IntegrateWave, WaveIntegrationFails, KillDuringMerge, Dies, progressVars
<1>5. ASSUME NEW i, Thread(i) PROVE batch' = batch
  BY <1>5 DEF Thread, RecoverDurable, StartAttempt, WriteChange, AttemptCompletes,
     AttemptFails, EscalatesToOwners, AttemptWaits, BecomesA
<1>6. CASE WaveRepair \/ PlannerRepair \/ ReloadDelivery
  BY <1>6 DEF WaveRepair, PlannerRepair, ReloadDelivery, progressVars
<1>7. CASE Finalize \/ KeepVerdict \/ FinalizeCancelled \/ Kill \/ HostCrash \/ Cancel
  BY <1>7 DEF Finalize, KeepVerdict, FinalizeCancelled, Closes, Kill, HostCrash, Dies, Cancel,
     progressVars
<1> QED
  BY <1>1, <1>2, <1>3, <1>4, <1>5, <1>6, <1>7 DEF Next, Progress, Outside

\* Completed work is executed again only after it was revoked: for every plan,
\* over any sequence of crashes, repairs and resumes.
THEOREM NothingReplayed == Spec => NoReplay
<1> DEFINE Views == Known /\ Recovered
<1>1. Init => Views
  <2> SUFFICES ASSUME Init PROVE Views
    OBVIOUS
  <2>1. Unapplied = {}
    BY DEF Init, Unapplied
  <2>2. Recovered
    BY <2>1, NothingInvalidated DEF Recovered
  <2> QED
    BY <2>2 DEF Init, Known
<1>2. Inv /\ Views /\ [Next]_vars => Views'
  BY KnownNext, RecoveredNext
<1>3. Inv /\ Views /\ [Next]_vars
         => [\A i \in batch' \ batch : i \in Prune(doneEvent) => i \in revoked]_vars
  <2> SUFFICES ASSUME Known, [Next]_vars, NEW i \in batch' \ batch, i \in Prune(doneEvent)
               PROVE  i \in revoked
    OBVIOUS
  <2>1. StartBatch
    BY BatchGrows
  <2>2. i \in ready_items /\ pc = "loop"
    BY <2>1 DEF StartBatch, Loop
  <2>3. i \notin done /\ i \in doneEvent
    BY <2>2, PruneClosed DEF ready_items
  <2> QED
    BY <2>2, <2>3 DEF Known
<1> HIDE DEF Views
<1> QED
  BY InitInv, NextInv, <1>1, <1>2, <1>3, PTL DEF Spec, NoReplay
=============================================================================
