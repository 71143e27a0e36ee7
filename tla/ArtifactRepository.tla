------------------------- MODULE ArtifactRepository -------------------------
(***************************************************************************)
(* How an architecture is published (app/artifact/repository.py with its   *)
(* callers): partitioned WorkItems stage a text and a manifest, the        *)
(* integration WorkItem makes a candidate from them, and the quality gate  *)
(* promotes the candidate: a revision, current.json, and architecture.md,  *)
(* the projection.  Every file is written by itself, with write_text, so a *)
(* Worker that dies leaves a prefix of the writes and one torn file.       *)
(*                                                                         *)
(* A digest stands for the text it was taken of.  One Worker runs at a     *)
(* time (WorkerLifecycle says when that fails), so the inputs of a running *)
(* item do not change and the digests frozen at its start are those of its *)
(* writes.  Retry budgets are the subject of RetryLedger.  The commit      *)
(* receipt of verify_staged is left out: nothing reads it.                 *)
(***************************************************************************)
EXTENDS Naturals, Sequences, FiniteSets

CONSTANTS
    Producers,     \* partitioned WorkItems of the architecture
    Blueprint,     \* the one of depth 0
    Inputs,        \* the staged refs among the input_refs of each producer
    Texts,         \* what an Agent may stage
    Unplanned,     \* blueprints with a module that no WorkItem designs
    Wordings,      \* the ways to word a candidate of given designs
    NoFile, Torn,  \* a file that is not there; one that was being written
    MaxFaults,     \* bound on crashes, pauses, broken attempts and unplanned blueprints
    MaxFailures    \* bound on integrations that blame a producer

ASSUME ArtifactAssumption ==
    /\ IsFiniteSet(Producers) /\ Blueprint \in Producers
    /\ Producers \cap {"integration", "gate"} = {}
    /\ Inputs \in [Producers -> SUBSET Producers]
    /\ Unplanned \subseteq Texts /\ Wordings # {}
    /\ {NoFile, Torn} \cap Texts = {}
    /\ NoFile \notin Producers \cup {"integration", "gate"}
    /\ MaxFaults \in Nat /\ MaxFailures \in Nat

----------------------------------------------------------------------------
VARIABLES
    mode,        \* architecture scheme of the Trace: markdown, layered or D (recursive)
    \* files
    text,        \* output/<slot>.md of each producer
    manifest,    \* its manifest.json: digest and the digests of its inputs
    receipt,     \* its validation receipt (recursive scheme)
    cands,       \* the candidates, in the order of their creation
    revs,        \* revisions/rev-NNN.md: the candidate in each, 0 if torn
    current,     \* current.json
    projection,  \* architecture.md: the candidate in it, 0 if absent or torn
    \* checkpoint and event log
    done, forced,
    blame,       \* the producer named by the last failure event, if any
    \* the Worker
    worker,      \* up or down
    job,         \* how far it is with each WorkItem
    chosen,      \* the candidate in the hands of the gate
    \* bounds and history
    faults, failures,
    reruns       \* reruns that a failed integration has scheduled

fileVars == <<text, manifest, receipt, cands, revs, current, projection>>
publishVars == <<revs, current, projection, chosen>>
stageVars == <<text, manifest, receipt>>
progressVars == <<done, forced, blame>>
countVars == <<faults, failures, reruns>>
vars == <<mode, fileVars, progressVars, worker, job, chosen, countVars>>

Up == worker = "up"

Items == Producers \cup {"integration", "gate"}

Deps(i) == IF i \in Producers THEN Inputs[i]
           ELSE IF i = "integration" THEN Producers ELSE {"integration"}

\* Mutant: one pass instead of the fixpoint.
Pruned_Once(S) == {i \in S : Deps(i) \subseteq S}

\* What is left of a set of completed items when those whose dependencies are
\* missing are pruned, to the fixpoint.
Pruned(S) == UNION {K \in SUBSET S : \A i \in K : Deps(i) \subseteq K}

----------------------------------------------------------------------------
(* The checks of the repository *)

\* load_ref of a staged output
Loadable(p) == text[p] \in Texts /\ manifest[p].digest = text[p]

\* The source_digests of a manifest, null for what is not an input.
From(p) == [q \in Producers |-> IF q \in Inputs[p] THEN text[q] ELSE NoFile]

\* verify_staged, without the domain validator
StagedValid(p) ==
    /\ Loadable(p)
    /\ \A q \in Inputs[p] : Loadable(q)
    /\ manifest[p].from = From(p)

\* verify_candidate_sources
SourcesCurrent(c) == \A p \in Producers : Loadable(p) /\ cands[c].src[p] = text[p]

\* candidate_for_work_item: it loads every candidate, so a torn candidate.json
\* makes it fail, and it refuses to choose between two.
Selectable(c) ==
    /\ \A d \in DOMAIN cands : cands[d].file = "ready"
    /\ SourcesCurrent(c)
    /\ \A d \in DOMAIN cands : SourcesCurrent(d) => d = c

CandidateReady == \E c \in DOMAIN cands : Selectable(c)

\* verify_published_candidate
PublishedAs(c) ==
    /\ current.file = "ready" /\ current.cand = c
    /\ revs[current.rev] = c
    /\ projection = c

\* _validate_layered_blueprint_modules
Planned == mode = "layered" => text[Blueprint] \notin Unplanned

\* validate_design_inputs
DesignsValid ==
    /\ \A p \in Producers : Loadable(p)
    /\ Planned
    /\ mode = "recursive" => \A p \in Producers : StagedValid(p) /\ receipt[p] = manifest[p]

\* Mutant: an interrupted projection is taken for a foreign publication.
Promotable_Projected(c) ==
    /\ current.file # "torn"
    /\ current.file = "ready" /\ current.cand = c => revs[current.rev] = c /\ projection = c

\* promote_candidate reads current.json and, for a candidate that is current
\* already, checks its revision.
Promotable(c) ==
    /\ current.file # "torn"
    /\ current.file = "ready" /\ current.cand = c => revs[current.rev] = c

\* What has to hold before the item is run.
Preflight(i) ==
    /\ i \in Producers => \A q \in Inputs[i] : Loadable(q)
    /\ i = "integration" => DesignsValid
    /\ i = "gate" => \E c \in DOMAIN cands : Selectable(c) /\ Promotable(c)

\* _recover_durable_work_item: the output an interrupted Worker left
Recoverable(i) ==
    /\ i \in Producers => StagedValid(i)
    /\ i = "integration" => CandidateReady
    /\ i = "gate" => \E c \in DOMAIN cands : Selectable(c) /\ PublishedAs(c)

----------------------------------------------------------------------------
Absent == [digest |-> NoFile, from |-> [q \in Producers |-> NoFile]]

Init ==
    /\ mode \in {"markdown", "layered", "recursive"}
    /\ text = [p \in Producers |-> NoFile]
    /\ manifest = [p \in Producers |-> Absent]
    /\ receipt = [p \in Producers |-> Absent]
    /\ cands = <<>> /\ revs = <<>>
    /\ current = [file |-> "absent", rev |-> 0, cand |-> 0]
    /\ projection = 0
    /\ done = {} /\ forced = {} /\ blame = NoFile
    /\ worker = "up" /\ job = [i \in Items |-> "idle"] /\ chosen = 0
    /\ faults = 0 /\ failures = 0 /\ reruns = 0

AllIdle == [i \in Items |-> "idle"]
Complete(i) == /\ done' = done \cup {i}
               /\ forced' = forced \ {i}
               /\ job' = [job EXCEPT ![i] = "idle"]
               /\ UNCHANGED blame

Ready(i) == Up /\ job[i] = "idle" /\ i \notin done /\ Deps(i) \subseteq done

\* _run_item finds the output of an earlier attempt (the gate does not look).
Recover(i) ==
    /\ i # "gate" /\ Ready(i) /\ i \notin forced
    /\ Preflight(i) /\ Recoverable(i)
    /\ Complete(i)
    /\ UNCHANGED <<mode, fileVars, worker, chosen, countVars>>

\* _run_item creates the Agent.
StartAgent(i) ==
    /\ i # "gate" /\ Ready(i) /\ Preflight(i)
    /\ i \in forced \/ ~Recoverable(i)
    /\ job' = [job EXCEPT ![i] = "agent"]
    /\ UNCHANGED <<mode, fileVars, progressVars, worker, chosen, countVars>>

\* The preflight, a tool or the gate refuses: the run ends with needs_replan.
Refuse(i) ==
    /\ Ready(i) \/ (Up /\ i = "integration" /\ job[i] = "agent")
    /\ ~Preflight(i) \/ (i = "integration" /\ \E d \in DOMAIN cands : cands[d].file = "torn")
    /\ worker' = "down" /\ job' = AllIdle /\ blame' = NoFile
    /\ UNCHANGED <<mode, fileVars, done, forced, chosen, countVars>>

\* The designs contradict each other and the message names the one to redo.
\* Designs that were integrated once are not refused later.
Blame(p) ==
    /\ mode # "markdown"
    /\ Ready("integration") /\ Preflight("integration")
    /\ ~\E c \in DOMAIN cands : SourcesCurrent(c)
    /\ failures < MaxFailures
    /\ worker' = "down" /\ job' = AllIdle /\ blame' = p
    /\ failures' = failures + 1
    /\ UNCHANGED <<mode, fileVars, done, forced, chosen, faults, reruns>>

----------------------------------------------------------------------------
(* A producer: the text, its manifest, in the recursive scheme its receipt *)

WriteText(p, t) ==
    /\ Up /\ job[p] = "agent"
    /\ t \in Unplanned => p = Blueprint /\ mode = "layered" /\ faults < MaxFaults
    /\ text' = [text EXCEPT ![p] = t]
    /\ job' = [job EXCEPT ![p] = "text"]
    /\ faults' = IF t \in Unplanned THEN faults + 1 ELSE faults
    /\ UNCHANGED <<mode, manifest, receipt, cands, progressVars, worker, publishVars,
                   failures, reruns>>

WriteManifest(p) ==
    /\ Up /\ job[p] = "text"
    /\ manifest' = [manifest EXCEPT ![p] = [digest |-> text[p], from |-> From(p)]]
    /\ job' = [job EXCEPT ![p] = IF mode = "recursive" THEN "receipt" ELSE "written"]
    /\ UNCHANGED <<mode, text, receipt, cands, progressVars, worker, publishVars, countVars>>

WriteReceipt(p) ==
    /\ Up /\ job[p] = "receipt"
    /\ receipt' = [receipt EXCEPT ![p] = manifest[p]]
    /\ job' = [job EXCEPT ![p] = "written"]
    /\ UNCHANGED <<mode, text, manifest, cands, progressVars, worker, publishVars, countVars>>

\* The completion gate of a staged delivery; what it rejects is tried again.
Deliverable(p) == StagedValid(p) /\ (p = Blueprint => Planned)

Deliver(p) ==
    /\ Up /\ job[p] = "written"
    /\ Deliverable(p)
    /\ Complete(p)
    /\ UNCHANGED <<mode, fileVars, worker, chosen, countVars>>

Reject(p) ==
    /\ Up /\ job[p] = "written"
    /\ ~Deliverable(p)
    /\ job' = [job EXCEPT ![p] = "idle"]
    /\ UNCHANGED <<mode, fileVars, progressVars, worker, chosen, countVars>>

----------------------------------------------------------------------------
(* The integration.  A second call of the tool finds the candidate and      *)
(* either reuses it or, for another text, fails; neither changes a file.    *)

\* Mutant: a candidate is made without a look for one of the same designs.
MayCreate_Unchecked == \A d \in DOMAIN cands : cands[d].file = "ready"

MayCreate ==
    /\ \A d \in DOMAIN cands : cands[d].file = "ready"
    /\ ~\E c \in DOMAIN cands : SourcesCurrent(c)

Candidate(file, w) == [file |-> file, src |-> text, wording |-> w]

\* The layered schemes render the designs; Markdown is worded by the Agent.
WordingsFor == IF mode = "markdown" THEN Wordings ELSE {CHOOSE w \in Wordings : TRUE}

CreateCandidate(w) ==
    /\ Up /\ job["integration"] = "agent"
    /\ w \in WordingsFor
    /\ MayCreate
    /\ cands' = Append(cands, Candidate("ready", w))
    /\ UNCHANGED <<mode, stageVars, progressVars, worker, job, publishVars, countVars>>

\* An Agent that ends without a candidate is followed by the control-plane
\* fallback, which is CreateCandidate again.
FinishIntegration ==
    /\ Up /\ job["integration"] = "agent"
    /\ CandidateReady
    /\ Complete("integration")
    /\ UNCHANGED <<mode, fileVars, worker, chosen, countVars>>

----------------------------------------------------------------------------
(* The quality gate *)

SelectCandidate(c) ==
    /\ Ready("gate")
    /\ Selectable(c) /\ Promotable(c)
    /\ chosen' = c
    /\ job' = [job EXCEPT !["gate"] =
                  IF current.file = "ready" /\ current.cand = c THEN "projection" ELSE "revision"]
    /\ UNCHANGED <<mode, fileVars, progressVars, worker, countVars>>

\* Mutant: revisions are numbered from current.json instead of from the files.
WriteRevision_AfterCurrent ==
    /\ Up /\ job["gate"] = "revision"
    /\ revs' = Append(SubSeq(revs, 1, current.rev), chosen)
    /\ job' = [job EXCEPT !["gate"] = "current"]
    /\ UNCHANGED <<mode, stageVars, cands, current, projection, progressVars, worker, chosen, countVars>>

\* The number of the revision is the number of revision files plus one.
WriteRevision ==
    /\ Up /\ job["gate"] = "revision"
    /\ revs' = Append(revs, chosen)
    /\ job' = [job EXCEPT !["gate"] = "current"]
    /\ UNCHANGED <<mode, stageVars, cands, current, projection, progressVars, worker, chosen, countVars>>

WriteCurrent ==
    /\ Up /\ job["gate"] = "current"
    /\ current' = [file |-> "ready", rev |-> Len(revs), cand |-> chosen]
    /\ job' = [job EXCEPT !["gate"] = "projection"]
    /\ UNCHANGED <<mode, stageVars, cands, revs, projection, progressVars, worker, chosen, countVars>>

WriteProjection ==
    /\ Up /\ job["gate"] = "projection"
    /\ projection' = chosen
    /\ job' = [job EXCEPT !["gate"] = "verify"]
    /\ UNCHANGED <<mode, stageVars, cands, revs, current, progressVars, worker, chosen, countVars>>

VerifyPublished ==
    /\ Up /\ job["gate"] = "verify"
    /\ SourcesCurrent(chosen) /\ PublishedAs(chosen)
    /\ Complete("gate")
    /\ UNCHANGED <<mode, fileVars, worker, chosen, countVars>>

----------------------------------------------------------------------------
(* Faults and resumes *)

\* An attempt ends early: a provider error, a timeout, a tool that failed.
Abort(i) ==
    /\ Up /\ i # "gate" /\ job[i] # "idle"
    /\ faults < MaxFaults /\ faults' = faults + 1
    /\ job' = [job EXCEPT ![i] = "idle"]
    /\ UNCHANGED <<mode, fileVars, progressVars, worker, chosen, failures, reruns>>

\* The Worker dies; the writes in "cut" were begun and not finished.  The
\* receipt is written to a temporary file and renamed, so it is never torn.
\* The monitor records the failure of an active item, unless it died too.
Crash(cut) ==
    /\ Up /\ faults < MaxFaults /\ faults' = faults + 1
    /\ worker' = "down" /\ job' = AllIdle
    /\ text' = [p \in Producers |-> IF p \in cut /\ job[p] = "agent" THEN Torn ELSE text[p]]
    /\ manifest' = [p \in Producers |-> IF p \in cut /\ job[p] = "text"
                       THEN [Absent EXCEPT !.digest = Torn] ELSE manifest[p]]
    /\ cands' = IF "integration" \in cut /\ MayCreate
                  THEN Append(cands, Candidate("torn", CHOOSE w \in Wordings : TRUE)) ELSE cands
    /\ revs' = IF "gate" \in cut /\ job["gate"] = "revision" THEN Append(revs, 0) ELSE revs
    /\ current' = IF "gate" \in cut /\ job["gate"] = "current"
                    THEN [file |-> "torn", rev |-> 0, cand |-> 0] ELSE current
    /\ projection' = IF "gate" \in cut /\ job["gate"] = "projection" THEN 0 ELSE projection
    /\ blame' \in {blame, NoFile}
    /\ UNCHANGED <<mode, receipt, done, forced, chosen, failures, reruns>>

\* The run stops between two items without a failure event: a capability to be
\* granted, a cancellation, a restart of the API process.
Pause ==
    /\ Up /\ job = AllIdle
    /\ faults < MaxFaults /\ faults' = faults + 1
    /\ worker' = "down"
    /\ UNCHANGED <<mode, fileVars, progressVars, job, chosen, failures, reruns>>

\* _sanitize_resume_state and _validate_restored_architecture drop what cannot be
\* recovered (the latter would also stop the run; CompletedBacked says that
\* neither ever finds anything to drop).  Then, with the last failure event,
\* _prepare_architecture_contract_recovery orders a rerun of the completed
\* producer that it names.
Kept == Pruned({i \in done : Recoverable(i)})

Resume ==
    /\ ~Up /\ worker' = "up"
    /\ IF blame \in Kept
         THEN /\ done' = Pruned(Kept \ {blame})
              /\ forced' = forced \cup {blame}
              /\ reruns' = reruns + 1
         ELSE done' = Kept /\ UNCHANGED <<forced, reruns>>
    /\ UNCHANGED <<mode, fileVars, blame, job, chosen, faults, failures>>

----------------------------------------------------------------------------
Step(i) ==
    \/ Recover(i) \/ StartAgent(i) \/ Refuse(i)
    \/ i \in Producers /\ \/ \E t \in Texts : WriteText(i, t)
                          \/ WriteManifest(i) \/ WriteReceipt(i)
                          \/ Deliver(i) \/ Reject(i)
    \/ i = "integration" /\ ((\E w \in Wordings : CreateCandidate(w)) \/ FinishIntegration)
    \/ i = "gate" /\ \/ \E c \in DOMAIN cands : SelectCandidate(c)
                     \/ WriteRevision \/ WriteCurrent \/ WriteProjection \/ VerifyPublished

Next ==
    \/ \E i \in Items : Step(i) \/ Abort(i)
    \/ \E p \in Producers : Blame(p)
    \/ \E cut \in SUBSET {i \in Items : job[i] # "idle"} : Crash(cut)
    \/ Pause
    \/ Resume

Spec == Init /\ [][Next]_vars

\* A Worker goes on with an item it can go on with, and a stopped run is resumed.
FairSpec == Spec /\ WF_vars(Resume) /\ \A i \in Items : WF_vars(Step(i))

----------------------------------------------------------------------------
(* Properties *)

FileTexts == Texts \cup {NoFile, Torn}
Manifests == [digest : FileTexts, from : [Producers -> FileTexts]]
JobStates == {"idle", "agent", "text", "receipt", "written",
              "revision", "current", "projection", "verify"}

\* The files, the checkpoint and the Worker's position have their types.
TypeOK ==
    /\ mode \in {"markdown", "layered", "recursive"}
    /\ text \in [Producers -> FileTexts]
    /\ manifest \in [Producers -> Manifests] /\ receipt \in [Producers -> Manifests]
    /\ cands \in Seq([file : {"ready", "torn"}, src : [Producers -> FileTexts],
                      wording : Wordings])
    /\ revs \in Seq(Nat)
    /\ current \in [file : {"absent", "torn", "ready"}, rev : Nat, cand : Nat]
    /\ projection \in Nat
    /\ done \subseteq Items /\ forced \subseteq Producers
    /\ blame \in Producers \cup {NoFile}
    /\ worker \in {"up", "down"} /\ job \in [Items -> JobStates] /\ chosen \in Nat
    /\ faults \in Nat /\ failures \in Nat /\ reruns \in Nat

\* Every completed WorkItem has the evidence that a resume asks for: a staged
\* output made from the present texts of its inputs, the one candidate of the
\* present designs, and for the gate a current.json, a revision and a projection
\* of that candidate.  So "a completed checkpoint is scheduling state, not
\* delivery evidence" (_validate_restored_architecture) never has to strike:
\* reruns and crashes leave no completed item over a stale or torn file.
CompletedBacked == \A i \in done : Recoverable(i)

\* At most one candidate is made of the present designs, whatever was retried
\* or rerun, so candidate_for_work_item is never ambiguous (create_candidate of
\* the architecture service).
OneCandidate ==
    \A c, d \in DOMAIN cands : SourcesCurrent(c) /\ SourcesCurrent(d) => c = d

\* current.json names a complete revision that holds its candidate, also while
\* a promotion is under way or after one was cut (promote_candidate).
CurrentBacked ==
    current.file = "ready" =>
        /\ current.rev \in DOMAIN revs
        /\ current.cand \in DOMAIN cands
        /\ revs[current.rev] = current.cand

\* What the checkpoint and current.json promise is in the files, at every point
\* where a Worker may be cut (recover_work_item, promote_candidate).
FilesBacked == CompletedBacked /\ CurrentBacked

\* A revision that is written stays as it is, and promoting the candidate that
\* is current adds none: "must not create a second revision" (promote_candidate).
RevisionsKept ==
    [][/\ SubSeq(revs', 1, Len(revs)) = revs
       /\ Len(revs') > Len(revs) /\ current.file = "ready" => current.cand # chosen]_vars

\* The four ways in which a run cannot publish however often it is resumed: a
\* torn candidate.json or current.json, which every later call fails to parse;
\* an unplanned blueprint, which recovery accepts; and a staged design without
\* its receipt, which recovery accepts too.
Trapped ==
    \/ \E c \in DOMAIN cands : cands[c].file = "torn"
    \/ current.file = "torn"
    \/ Blueprint \in done /\ ~Planned
    \/ mode = "recursive" /\ \E p \in done \cap Producers : receipt[p] # manifest[p]

\* From every other state the architecture is published in the end: a crash at
\* any write, a broken attempt or a rerun leaves files that the next attempt
\* can use or replace.
Publishes == <>[]("gate" \in done \/ Trapped)

\* "Schedule one safe rerun" (_prepare_architecture_contract_recovery): the
\* failure of an integration orders one rerun.  Refuted (artifact_rerun.cfg):
\* nothing discharges the failure event.
RerunOnce == reruns <= failures

\* "Ensure the depth-0 module list has a corresponding planned L1 task"
\* (_validate_layered_blueprint_modules): a completed blueprint has passed it.
\* Refuted (artifact_blueprint.cfg): recovery accepts what completion rejected.
BlueprintPlanned == Blueprint \in done => Planned
=============================================================================
