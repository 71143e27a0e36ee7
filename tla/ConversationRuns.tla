-------------------------- MODULE ConversationRuns --------------------------
(***************************************************************************)
(* A conversation and the runs it starts: ConversationService.send_message *)
(* and sync_terminal_turns (app/application/conversations.py), the Planner *)
(* loops plan and plan_patch (app/planner/service.py), start_dynamic_plan, *)
(* start_patch_plan, resume_run and submit (app/application/runs.py), and  *)
(* the files of a Trace they share with the Worker: trace.json, plan.json, *)
(* delivery-plan.json, baseline.json, checkpoint.json and events.jsonl.    *)
(*                                                                         *)
(* Requests of several clients interleave between any two file writes and  *)
(* while a model call is out.  A host crash ends the API and the Worker    *)
(* alike (a crash of the API alone is WorkerLifecycle's subject); the      *)
(* Worker runs one WorkItem at a time here (GraphRunner has the waves) and *)
(* a failed WorkItem ends the run (RepairCycle has the repairs).           *)
(***************************************************************************)
EXTENDS PlanPatch

CONSTANTS
    Clients,        \* concurrent users of one conversation
    Drafts,         \* what the Planner may answer, beside no or bad answers
    PatchSets(_),   \* the patches it may answer for a plan, likewise
    Projects,       \* the contexts a conversation may start in
    MaxMessages, MaxTraces, MaxRevision, MaxCrashes

ASSUME ConversationAssumption ==
    /\ {MaxMessages, MaxTraces, MaxRevision, MaxCrashes} \subseteq Nat
    /\ MaxTraces > 0

VARIABLES
    project,    \* what PlanningContext.build reads of the workspace
    turns,      \* messages.jsonl: role and Trace of the messages that have one
    trace,      \* per Trace: its files
    client,     \* per client: where its request is and what it has read
    worker,     \* per Trace: the Worker process
    future,     \* per Trace: the Future of this API process
    sync,       \* the Traces a reader of the conversation has yet to answer
    messages, crashes     \* bounds

vars == <<project, turns, trace, client, worker, future, sync, messages, crashes>>

Traces == 1 .. MaxTraces
NoTrace == 0

Absent == [plan_id |-> <<>>, done |-> {}, digests |-> <<>>]

\* The files of a Trace nobody has started.
NewTrace ==
    [status |-> "none", plans |-> {}, plan |-> NoPlan, delivery |-> <<>>,
     baseline |-> <<>>, checkpoint |-> Absent, completed |-> {},
     made |-> <<>>, rules |-> {}]

Idle == [pc |-> "idle", trace |-> NoTrace, attempt |-> 0, context |-> <<>>,
         base |-> NoPlan, plan |-> NoPlan, read |-> {}, done |-> {}, intent |-> "none"]

NoWorker == [pc |-> "none", plan |-> NoPlan, done |-> {}]

Init ==
    /\ project \in Projects /\ turns = <<>>
    /\ trace = [t \in Traces |-> NewTrace]
    /\ client = [c \in Clients |-> Idle]
    /\ worker = [t \in Traces |-> NoWorker]
    /\ future = [t \in Traces |-> "none"]
    /\ sync = {} /\ messages = 0 /\ crashes = 0

Turn(role, t) == [role |-> role, trace |-> t]
\* append_turn; a message without a Trace is read by nobody but people.
Says(role, t) == turns' = IF t = NoTrace THEN turns ELSE Append(turns, Turn(role, t))

\* _latest_trace: the Trace of the last message that has one.
LatestTrace ==
    IF turns = <<>> THEN NoTrace ELSE turns[Len(turns)].trace

Active == {"planned", "running"}
Status(t) == IF t = NoTrace THEN "none" ELSE trace[t].status

Return(c) == client' = [client EXCEPT ![c] = Idle]
Goto(c, pc) == client' = [client EXCEPT ![c].pc = pc]

----------------------------------------------------------------------------
\* send_message up to the dispatch on the intent.

\* INSPECT_RESULT, CONTINUE and AUTHORIZE answer at once; the answer carries
\* the latest Trace.
Ask(c) ==
    /\ client[c].pc = "idle" /\ messages < MaxMessages
    /\ messages' = messages + 1
    /\ Says("assistant", LatestTrace)
    /\ UNCHANGED <<project, trace, client, worker, future, sync, crashes>>

\* The other intents.  A RESUME or MODIFY_REQUEST without a Trace and, unless
\* it is a RESUME, a message while the latest Trace is active are refused.
Send(c, intent) ==
    LET t == LatestTrace
        refused == \/ intent # "new" /\ t = NoTrace
                   \/ intent # "resume" /\ Status(t) \in Active
    IN  /\ client[c].pc = "idle" /\ messages < MaxMessages
        /\ messages' = messages + 1
        /\ Says("user", NoTrace)
        /\ client' = [client EXCEPT ![c] =
               IF refused THEN Idle
               ELSE [Idle EXCEPT !.pc = intent, !.intent = intent, !.trace = t]]
        /\ UNCHANGED <<project, trace, worker, future, sync, crashes>>

----------------------------------------------------------------------------
\* PlannerService.plan.

Unused == {t \in Traces : trace[t].status = "none"}

Started(t, status) == [NewTrace EXCEPT !.status = status]

\* plan up to its loop: the context is read, and either the controlled
\* template is compiled at once or the Trace is marked planning.
StartPlanning(c, delivery) ==
    LET t == CHOOSE u \in Unused : \A v \in Unused : u <= v
        controlled == PreflightControlled(project, delivery)
    IN  /\ client[c].pc = "new" /\ Unused # {}
        /\ trace' = [trace EXCEPT ![t] =
               Started(t, IF controlled THEN "planned" ELSE "planning")]
        /\ client' = [client EXCEPT ![c] =
               [@ EXCEPT !.pc = IF controlled THEN "baseline" ELSE "draft",
                         !.trace = t, !.attempt = 1, !.context = project,
                         !.plan = IF controlled THEN ControlledPlan(t) ELSE NoPlan]]
        /\ UNCHANGED <<project, turns, worker, future, sync, messages, crashes>>

\* The model's bound on Traces, not the program's.
OutOfTraces(c) ==
    /\ client[c].pc = "new" /\ Unused = {}
    /\ Return(c)
    /\ UNCHANGED <<project, turns, trace, worker, future, sync, messages, crashes>>

\* A plausible slip: an attempt the Provider failed is not counted.
NextAttempt_Uncounted(c) == client' = [client EXCEPT ![c].attempt = 1]

NextAttempt(c) == client' = [client EXCEPT ![c].attempt = 2]

\* _record_planning_failure, and what follows it: the second failed attempt
\* closes the Trace and raises PlannerFailure, which send_message records with
\* the Trace.
AttemptFails(c) ==
    LET t == client[c].trace
    IN  /\ IF client[c].attempt = 2
           THEN /\ trace' = [trace EXCEPT ![t].status = "failed"]
                /\ Says("system", t) /\ Return(c)
           ELSE NextAttempt(c) /\ UNCHANGED <<trace, turns>>
        /\ UNCHANGED <<project, worker, future, sync, messages, crashes>>

\* The call fails, or answers nothing.
PlanningFails(c) == client[c].pc = "draft" /\ AttemptFails(c)

\* The answer is no draft, or one the validator rejects.
DraftRejected(c) ==
    /\ client[c].pc = "draft"
    /\ \E draft \in Drafts : validate(draft, client[c].context) = "rejected"
    /\ AttemptFails(c)

\* A WorkItem that refuses its fields raises through plan: send_message tells
\* the user, and nobody closes the Trace.
PlanningRaises(c) ==
    /\ client[c].pc = "draft"
    /\ \E draft \in Drafts : validate(draft, client[c].context) = "raised"
    /\ Says("assistant", NoTrace) /\ Return(c)
    /\ UNCHANGED <<project, trace, worker, future, sync, messages, crashes>>

\* A valid draft: mark_planned, and plan returns.
PlanningSucceeds(c, draft) ==
    LET t == client[c].trace
    IN  /\ client[c].pc = "draft"
        /\ validate(draft, client[c].context) = "accepted"
        /\ client' = [client EXCEPT ![c].pc = "baseline",
               ![c].plan = DraftPlan(t, draft, client[c].context)]
        /\ trace' = [trace EXCEPT ![t].status = "planned",
               ![t].rules = IF draft.template THEN {} ELSE SystemRules(client[c].context)]
        /\ UNCHANGED <<project, turns, worker, future, sync, messages, crashes>>

----------------------------------------------------------------------------
\* The files of a plan.

\* The contract of a WorkItem: its objective is not part of it.
contract_digest(item) == [agent |-> item.agent, deps |-> item.deps]

\* PlanBaseline.contract_digests.
Digests(plan) == [i \in DOMAIN plan.items |-> contract_digest(plan.items[i])]

Checkpoint(plan, done) ==
    [plan_id |-> plan.id, done |-> done, digests |-> [i \in done |-> Digests(plan)[i]]]

\* RunState.from_checkpoint: of this plan, and of WorkItems as they are in it.
Readable(checkpoint, plan) ==
    /\ checkpoint.plan_id = plan.id
    /\ checkpoint.done \subseteq DOMAIN plan.items
    /\ \A i \in checkpoint.done : checkpoint.digests[i] = Digests(plan)[i]

\* record_plan: plan.json and plans/<id>.json.
WithPlan(files, plan) ==
    [files EXCEPT !.plan = plan, !.plans = {p \in @ : p.id # plan.id} \cup {plan}]

\* record_delivery_plan.
WithDelivery(files, plan, overwrite) ==
    [files EXCEPT !.delivery = IF @ # <<>> /\ ~overwrite THEN @ ELSE plan.id]

\* record_plan_baseline, by start_dynamic_plan and by start_patch_plan.
RecordBaseline(c) ==
    LET t == client[c].trace
    IN  /\ client[c].pc = "baseline"
        /\ trace' = [trace EXCEPT ![t].baseline = Digests(client[c].plan)]
        /\ Goto(c, IF client[c].intent = "modify" THEN "record" ELSE "submit")
        /\ UNCHANGED <<project, turns, worker, future, sync, messages, crashes>>

\* start_patch_plan: record_plan, then record_delivery_plan.
RecordPatchedPlan(c) ==
    /\ client[c].pc = "record"
    /\ trace' = [trace EXCEPT ![client[c].trace] = WithPlan(@, client[c].plan)]
    /\ Goto(c, "deliver")
    /\ UNCHANGED <<project, turns, worker, future, sync, messages, crashes>>

RecordPatchedDelivery(c) ==
    /\ client[c].pc = "deliver"
    /\ trace' = [trace EXCEPT ![client[c].trace] = WithDelivery(@, client[c].plan, TRUE)]
    /\ Goto(c, "submit")
    /\ UNCHANGED <<project, turns, worker, future, sync, messages, crashes>>

\* RunCoordinator.submit: refused while the Future of the Trace runs, else
\* checkpoint (of a patch or a resume), plan and delivery plan are written and
\* the Worker is spawned.  The code registers the Future under the lock a second
\* time, so that two submits may overlap: WorkerLifecycle has that window.
Submit(c) ==
    LET t == client[c].trace
        plan == client[c].plan
        files == WithDelivery(WithPlan(trace[t], plan), plan, FALSE)
    IN  /\ client[c].pc = "submit"
        /\ IF future[t] = "running"
           THEN /\ IF client[c].intent = "modify" THEN Says("system", t) ELSE UNCHANGED turns
                /\ Return(c)
                /\ UNCHANGED <<trace, worker, future>>
           ELSE /\ trace' = [trace EXCEPT ![t] =
                       IF client[c].intent = "new" THEN files
                       ELSE [files EXCEPT !.checkpoint = Checkpoint(plan, client[c].done)]]
                /\ worker' = [worker EXCEPT ![t] = [NoWorker EXCEPT !.pc = "spawned"]]
                /\ future' = [future EXCEPT ![t] = "running"]
                /\ Goto(c, "answer")
                /\ UNCHANGED turns
        /\ UNCHANGED <<project, sync, messages, crashes>>

\* send_message records the Trace of the run it has started.
AnswerStarted(c) ==
    /\ client[c].pc = "answer"
    /\ Says("system", client[c].trace) /\ Return(c)
    /\ UNCHANGED <<project, trace, worker, future, sync, messages, crashes>>

----------------------------------------------------------------------------
\* start_patch_plan and plan_patch.

\* start_patch_plan up to plan_patch: PlannerFailure when the Trace is active;
\* no plan, or a checkpoint of another plan, raises past send_message.
StartPatch(c) ==
    LET t == client[c].trace
        files == trace[t]
        readable == files.checkpoint = Absent \/ Readable(files.checkpoint, files.plan)
    IN  /\ client[c].pc = "modify"
        /\ IF files.status \in Active THEN Says("system", t) /\ Return(c)
           ELSE /\ UNCHANGED turns
                /\ IF files.plan = NoPlan \/ ~readable THEN Return(c)
                   ELSE client' = [client EXCEPT ![c].pc = "patch", ![c].attempt = 1,
                            ![c].base = files.plan,
                            ![c].read = files.checkpoint.done]
        /\ UNCHANGED <<project, trace, worker, future, sync, messages, crashes>>

\* A call that fails, a malformed patch or an illegal one.
PatchingFails(c) ==
    LET t == client[c].trace
    IN  /\ client[c].pc = "patch"
        /\ IF client[c].attempt = 2 THEN Says("system", t) /\ Return(c)
           ELSE NextAttempt(c) /\ UNCHANGED turns
        /\ UNCHANGED <<project, trace, worker, future, sync, messages, crashes>>

\* A legal patch: what it invalidates is dropped from the state.
PatchingSucceeds(c, patch) ==
    LET base == client[c].base
        plan == apply_patch(base, patch)
    IN  /\ client[c].pc = "patch" /\ Revision(base) < MaxRevision
        /\ LegalPatch(base, patch)
        /\ client' = [client EXCEPT ![c].pc = "baseline", ![c].plan = plan,
               ![c].done = (client[c].read \ Invalidated(base, patch)) \cap DOMAIN plan.items]
        /\ UNCHANGED <<project, turns, trace, worker, future, sync, messages, crashes>>

----------------------------------------------------------------------------
\* _load_delivery_resume, by resume_run and by the Worker.

\* load_plan of an id: from plans/<id>.json.
load_plan(files, id) == CHOOSE p \in files.plans : p.id = id

\* load_delivery_plan.
DeliveryPlan(files) ==
    IF files.delivery = <<>> THEN files.plan ELSE load_plan(files, files.delivery)

\* validate_plan_baseline.
BaselineMatches(files) ==
    files.baseline = <<>> \/ files.baseline = Digests(DeliveryPlan(files))

\* _rebuild_delivery_state: the WorkItems of the plan whose last event is a
\* completion, without those that wait for one that is not.
Rebuilt(files) ==
    LET items == DeliveryPlan(files).items
        done == files.completed \cap DOMAIN items
    IN  done \ Downstream(items, DOMAIN items \ done)

\* The richest of the checkpoint and the rebuilt state, a tie to the latter.
LoadedState(files) ==
    LET saved == IF Readable(files.checkpoint, DeliveryPlan(files))
                 THEN files.checkpoint.done ELSE {}
    IN  IF Cardinality(saved) > Cardinality(Rebuilt(files)) THEN saved ELSE Rebuilt(files)

Incomplete(files) ==
    /\ files.plan.id = DeliveryPlan(files).id
    /\ Readable(files.checkpoint, files.plan)
    /\ files.checkpoint.done # DOMAIN files.plan.items

\* resume_run: a Trace that failed, one completed with work left, or one that
\* is active on disk with neither a Future nor a Worker.
Resumable(t) ==
    \/ trace[t].status = "failed"
    \/ trace[t].status = "completed" /\ Incomplete(trace[t])
    \/ trace[t].status \in Active /\ future[t] = "none" /\ worker[t].pc = "none"

Resume(c) ==
    LET t == client[c].trace
        files == trace[t]
        plan == DeliveryPlan(files)
    IN  /\ client[c].pc = "resume"
        /\ IF Resumable(t) /\ files.plan # NoPlan /\ BaselineMatches(files)
           THEN /\ trace' = [trace EXCEPT ![t] = [WithPlan(files, plan) EXCEPT !.status = "running"]]
                /\ client' = [client EXCEPT ![c].pc = "submit", ![c].plan = plan,
                       ![c].done = LoadedState(files)]
           ELSE Return(c) /\ UNCHANGED trace
        /\ UNCHANGED <<project, turns, worker, future, sync, messages, crashes>>

----------------------------------------------------------------------------
\* The Worker of a Trace.

WorkerEnds(t, status) ==
    /\ worker' = [worker EXCEPT ![t].pc = "ended"]
    /\ future' = [future EXCEPT ![t] = IF @ = "running" THEN "done" ELSE @]
    /\ trace' = [trace EXCEPT ![t].status = status]

\* _worker_entry: the plan and the state come from disk.
WorkerLoads(t) ==
    /\ worker[t].pc = "spawned"
    /\ IF BaselineMatches(trace[t])
       THEN /\ worker' = [worker EXCEPT ![t] =
                   [pc |-> "running", plan |-> DeliveryPlan(trace[t]),
                    done |-> LoadedState(trace[t])]]
            /\ UNCHANGED <<trace, future>>
       ELSE WorkerEnds(t, "failed")
    /\ UNCHANGED <<project, turns, client, sync, messages, crashes>>

ReadyItems(t) ==
    {i \in DOMAIN worker[t].plan.items \ worker[t].done :
        worker[t].plan.items[i].deps \subseteq worker[t].done}

\* A WorkItem completes: its event, its result and the checkpoint.  Code and
\* environment change what the next plan is made for.
WorkItemCompletes(t, i) ==
    LET item == worker[t].plan.items[i]
        done == worker[t].done \cup {i}
        objective == [j \in {i} |-> item.objective]
    IN  /\ worker[t].pc = "running" /\ i \in ReadyItems(t)
        /\ worker' = [worker EXCEPT ![t].done = done]
        /\ trace' = [trace EXCEPT
               ![t].completed = @ \cup {i},
               ![t].made = objective @@ @,
               ![t].checkpoint = Checkpoint(worker[t].plan, done)]
        /\ project' = [project EXCEPT
               !.blank = @ /\ item.agent # "code_agent",
               !.environment = @ \/ item.agent = "bootstrap_agent"]
        /\ UNCHANGED <<turns, client, future, sync, messages, crashes>>

\* A WorkItem fails for good.
WorkItemFails(t, i) ==
    /\ worker[t].pc = "running" /\ i \in ReadyItems(t)
    /\ worker' = [worker EXCEPT ![t].pc = "ended"]
    /\ future' = [future EXCEPT ![t] = IF @ = "running" THEN "done" ELSE @]
    /\ trace' = [trace EXCEPT ![t].status = "failed", ![t].completed = @ \ {i}]
    /\ UNCHANGED <<project, turns, client, sync, messages, crashes>>

\* Nothing is left: finish_trace.
WorkerFinishes(t) ==
    /\ worker[t].pc = "running" /\ worker[t].done = DOMAIN worker[t].plan.items
    /\ WorkerEnds(t, "completed")
    /\ UNCHANGED <<project, turns, client, sync, messages, crashes>>

----------------------------------------------------------------------------
\* Reading the conversation: sync_terminal_turns.

TracesOf(role) == {turns[n].trace : n \in {m \in DOMAIN turns : turns[m].role = role}}

\* A plausible slip: every message with a Trace counts as an answer.
Unanswered_AnyRole == TracesOf("system") \ (TracesOf("assistant") \cup TracesOf("system"))

\* The Traces a system message names and no assistant message does.
Unanswered == TracesOf("system") \ TracesOf("assistant")

SyncStarts ==
    /\ sync = {} /\ Unanswered # {}
    /\ sync' = Unanswered
    /\ UNCHANGED <<project, turns, trace, client, worker, future, messages, crashes>>

\* Each of them that is not active gets its summary.
SyncAnswers(t) ==
    /\ t \in sync
    /\ sync' = sync \ {t}
    /\ IF trace[t].status \in Active THEN UNCHANGED turns ELSE Says("assistant", t)
    /\ UNCHANGED <<project, trace, client, worker, future, messages, crashes>>

----------------------------------------------------------------------------
\* The host goes down: what is not on disk is gone.
HostCrash ==
    /\ crashes < MaxCrashes
    /\ crashes' = crashes + 1
    /\ client' = [c \in Clients |-> Idle]
    /\ worker' = [t \in Traces |-> NoWorker]
    /\ future' = [t \in Traces |-> "none"]
    /\ sync' = {}
    /\ UNCHANGED <<project, turns, trace, messages>>

\* What a request does once it is in.
RequestStep(c) ==
    \/ \E delivery \in BOOLEAN : StartPlanning(c, delivery)
    \/ OutOfTraces(c)
    \/ PlanningFails(c)
    \/ DraftRejected(c)
    \/ PlanningRaises(c)
    \/ \E draft \in Drafts : PlanningSucceeds(c, draft)
    \/ RecordBaseline(c)
    \/ RecordPatchedPlan(c)
    \/ RecordPatchedDelivery(c)
    \/ Submit(c)
    \/ AnswerStarted(c)
    \/ StartPatch(c)
    \/ PatchingFails(c)
    \/ \E patch \in PatchSets(client[c].base) : PatchingSucceeds(c, patch)
    \/ Resume(c)

WorkerStep(t) ==
    \/ WorkerLoads(t)
    \/ \E i \in DOMAIN worker[t].plan.items : WorkItemCompletes(t, i) \/ WorkItemFails(t, i)
    \/ WorkerFinishes(t)

Reader == SyncStarts \/ \E t \in Traces : SyncAnswers(t)

Next ==
    \/ \E c \in Clients : Ask(c) \/ RequestStep(c)
                          \/ \E intent \in {"new", "modify", "resume"} : Send(c, intent)
    \/ \E t \in Traces : WorkerStep(t)
    \/ Reader
    \/ HostCrash

Spec == Init /\ [][Next]_vars

\* A model call ends (ResponsesStream), a WorkItem ends, and the front end
\* polls the conversation.
FairSpec ==
    /\ Spec /\ WF_vars(Reader)
    /\ \A c \in Clients : WF_vars(RequestStep(c))
    /\ \A t \in Traces : WF_vars(WorkerStep(t))

----------------------------------------------------------------------------
TypeOK ==
    /\ project \in [blank : BOOLEAN, environment : BOOLEAN, baseline : BOOLEAN]
    /\ \A c \in Clients : client[c].trace \in Traces \cup {NoTrace}
    /\ sync \subseteq Traces /\ messages \in 0 .. MaxMessages

\* Whatever sequence of drafts and patches is accepted, by clients that do not
\* know of each other and across crashes, no plan on disk waits for a WorkItem
\* it does not have or for itself (patch.py apply_patch, plan.py).
PlansExecutable ==
    \A t \in Traces : \A p \in trace[t].plans \cup {trace[t].plan} : WellFormed(p.items)

Ancestors(items, i) ==
    {j \in DOMAIN items : i \in Downstream(items, {j})} \cup {i}

\* Of the results it has read, a patched run keeps exactly those of WorkItems
\* that are what they were, and wait only for such (patch.py apply_patch,
\* start_patch_plan): nothing stale is kept and nothing sound is run again.
PatchKeepsUnaffected ==
    \A c \in Clients :
        LET new == client[c].plan.items
            old == client[c].base.items
            Same(j) == j \in DOMAIN old /\ old[j] = new[j]
        IN  client[c].intent = "modify" /\ client[c].plan # NoPlan =>
              client[c].done =
                {i \in client[c].read \cap DOMAIN new : \A j \in Ancestors(new, i) : Same(j)}

\* The order the system imposes on a draft (code after the environment, test
\* after code, review after both) is in every plan that comes of it, however
\* often it is patched (dependency_policy.py: a system dependency cannot be
\* removed).
SystemOrderKept ==
    \A t \in Traces : \A p \in trace[t].plans : \A i \in DOMAIN p.items :
        \A rule \in trace[t].rules :
            i[1] = "step" /\ rule[1] = p.items[i].agent =>
                \E j \in p.items[i].deps : p.items[j].agent = rule[2]

\* Every plan that any sequence of drafts and patches leaves on disk can be
\* carried out, and in the order the system demands.
AcceptedPlansSound == PlansExecutable /\ SystemOrderKept

\* A request ends: both Planner loops are bounded (service.py plan, plan_patch).
RequestEnds == \A c \in Clients : client[c].pc # "idle" ~> client[c].pc = "idle"

\* A run the conversation knows of does not stay ended with no assistant message
\* on it: one is written after the end, or the run is active again, over crashes of
\* the reader between its two reads and runs that end between them (conversations.py
\* sync_terminal_turns).  Excepted is a Trace that an assistant message named before:
\* one that was asked about while it ran, or answered before a resume or a patch.
\* Its new end is not told (see EndIsNews).
EndAnswered ==
    \A t \in Traces :
        (t \in TracesOf("system") \ TracesOf("assistant") /\ trace[t].status \notin Active)
            ~> (t \in TracesOf("assistant") \/ trace[t].status \in Active)

\* Every end of a run is one the reader of the conversation will tell
\* (conversations.py:357: the terminal state of a Trace is projected to an
\* assistant message).  Refuted (conversation_told.cfg): a question while the run
\* is active puts the Trace among the known ones (251-263, 361-370) for ever.
EndIsNews ==
    [][\A t \in Traces :
            trace[t].status \in Active /\ trace[t].status' \notin Active =>
                t \notin TracesOf("assistant")]_vars

\* A run that ends completed has carried out every WorkItem with the objective
\* its plan gives it (docs/api/planner-api.md: the results of what a patch
\* modifies and of what waits for it are cleared, and run again).  Refuted
\* (patch_stale.cfg): the event log restores the results the patch cleared.
PatchTakesEffect ==
    \A t \in Traces :
        worker[t].pc = "ended" /\ trace[t].status = "completed" =>
            \A i \in DOMAIN worker[t].plan.items :
                trace[t].made[i] = worker[t].plan.items[i].objective
=============================================================================
