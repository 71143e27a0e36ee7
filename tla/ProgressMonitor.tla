-------------------------- MODULE ProgressMonitor --------------------------
(***************************************************************************)
(* The monitoring snapshot worker-status.json (app/orchestration/          *)
(* progress.py) of one Worker that runs one batch, and the stall watch of  *)
(* its monitor (_run_in_worker, _stall_observations, _renew_worker_deadline*)
(* and _finalize_external_run of app/application/runs.py).                 *)
(*                                                                         *)
(* Every store operation reads the whole file, changes it and writes it    *)
(* back under a lock of its own process: one step here.  What two such     *)
(* operations of the two processes lose when they overlap is not modelled. *)
(* The heartbeat moves no clock the monitor looks at and is left out.      *)
(* Time is abstract: an open operation may be found idle at any poll, and  *)
(* stays so while its clock does not move; a budget that was not renewed   *)
(* since the last poll may be over.  Callbacks of the CrewAI event bus     *)
(* (external) run in its thread pool, late and in any order, except stream *)
(* chunks, which it delivers in the calling thread.                        *)
(***************************************************************************)
EXTENDS Naturals, FiniteSets

CONSTANTS
    Items,        \* the members of the batch
    attempts,     \* per item: how often its retry budget lets it run
    max_iterations   \* of an Agent: model calls and tool calls of an attempt

ASSUME MonitorAssumption ==
    /\ IsFiniteSet(Items) /\ Items # {} /\ attempts \in [Items -> Nat \ {0}]
    /\ max_iterations \in Nat

VARIABLES
    disk,       \* worker-status.json
    thread,     \* per item: how far _run_item_with_retries is
    attempt, iterations, llm, bound,    \* its Agents and ProgressTrackers
    queue,      \* callbacks of the event bus that have not run
    hung,       \* items whose Agent thread is stuck
    main,       \* how far the main thread of the Worker is
    recorded,   \* items whose result was recorded
    alive,
    mon,        \* how far the monitor is
    moved,      \* open windows whose clock moved since the last poll
    renewed,    \* run.last_meaningful_at moved since the last poll
    window,     \* stall windows: the channel an idle operation is watched on
    age,        \* the attempt an open window was opened in
    stoppedFirst

itemVars == <<thread, attempt, iterations, llm, bound, queue, hung>>
watchVars == <<moved, renewed, window, age>>
vars == <<disk, itemVars, main, recorded, alive, mon, watchVars, stoppedFirst>>

Open == {"running", "retrying", "waiting"}

\* start_run: _empty, and the run is running.
Init ==
    /\ disk = [life |-> "running", batch |-> FALSE,
               item |-> [i \in Items |-> [life |-> "none", activity |-> "dispatch",
                            operation |-> FALSE, llm |-> "idle", attempt |-> 0]]]
    /\ thread = [i \in Items |-> "none"] /\ attempt = [i \in Items |-> 0]
    /\ iterations = [i \in Items |-> 0]
    /\ llm = [i \in Items |-> "idle"] /\ bound = {} /\ queue = {} /\ hung = {}
    /\ main = "batch" /\ recorded = {} /\ alive = TRUE /\ mon = "watch"
    /\ moved = {} /\ renewed = FALSE
    /\ window = [i \in Items |-> "none"] /\ age = [i \in Items |-> 0]
    /\ stoppedFirst = FALSE

----------------------------------------------------------------------------
\* WorkerProgressStore, the Worker's side.

\* What record_work_item_activity writes about an item.
Activity(i, life, activity, operation, state) ==
    [life |-> life, activity |-> activity, operation |-> operation, llm |-> state,
     attempt |-> attempt'[i]]

\* Clocks matter to the monitor only while it watches.
Clock(signal, i, semantic) ==
    IF mon # "watch" THEN UNCHANGED <<moved, renewed>>
    ELSE /\ moved' = IF window[i] = (IF signal = "transport" THEN signal ELSE "semantic")
                    THEN moved \cup {i} ELSE moved
         /\ renewed' = (renewed \/ signal \in semantic)

\* Mutant: a chunk of a stream counts as progress of the run.
record_work_item_activity_Chunks(i, life, activity, operation, signal, state) ==
    /\ alive
    /\ disk' = [disk EXCEPT !.item[i] = Activity(i, life, activity, operation, state)]
    /\ Clock(signal, i, {"semantic", "control", "transport"})
    /\ UNCHANGED <<window, age>>

\* record_work_item_activity.  A TRANSPORT signal moves the transport clock,
\* SEMANTIC and CONTROL signals move last_meaningful_at of the item and the run.
record_work_item_activity(i, life, activity, operation, signal, state) ==
    /\ alive
    /\ disk' = [disk EXCEPT !.item[i] = Activity(i, life, activity, operation, state)]
    /\ Clock(signal, i, {"semantic", "control"})
    /\ UNCHANGED <<window, age>>

\* Only the run and its batches change.
record_run(payload) == alive /\ disk' = payload /\ UNCHANGED watchVars

\* finalize_run closes the run, its open items and its active batch.
OpenItems(payload) == {i \in Items : payload.item[i].life \in Open}

\* Mutant: only items that are running are closed.
finalize_run_RunningOnly(payload) ==
    [life |-> "terminal", batch |-> FALSE,
     item |-> [i \in Items |->
        IF payload.item[i].life # "running" THEN payload.item[i]
        ELSE [payload.item[i] EXCEPT !.life = "terminal", !.operation = FALSE,
                                     !.activity = "worker"]]]

finalize_run(payload) ==
    [life |-> "terminal", batch |-> FALSE,
     item |-> [i \in Items |->
        IF i \notin OpenItems(payload) THEN payload.item[i]
        ELSE [payload.item[i] EXCEPT
                !.life = "terminal", !.activity = "worker", !.operation = FALSE,
                !.llm = IF @ \in {"completed", "failed"} THEN @ ELSE "failed"]]]

----------------------------------------------------------------------------
\* One item: ProgressTracker, driven by BaseAgent.run and the event bus.

\* What an item's own thread leaves alone.
Quiet == UNCHANGED <<main, recorded, alive, mon, stoppedFirst>>

\* ... when it writes nothing.
Silent == Quiet /\ UNCHANGED <<disk, watchVars>>

\* ProgressTracker.__post_init__ and bind_agent.
StartAttempt(i) ==
    /\ main = "join" /\ thread[i] = "none" /\ i \notin hung
    /\ attempt' = [attempt EXCEPT ![i] = @ + 1]
    /\ iterations' = [iterations EXCEPT ![i] = 0]
    /\ llm' = [llm EXCEPT ![i] = "idle"] /\ bound' = bound \cup {i}
    /\ thread' = [thread EXCEPT ![i] = "agent"]
    /\ record_work_item_activity(i, IF attempt[i] = 0 THEN "running" ELSE "retrying",
                                 "worker", FALSE, "control", disk.item[i].llm)
    /\ UNCHANGED <<queue, hung>> /\ Quiet

\* execute_task: a model call; its callbacks are queued by the bus.
StartCall(i) ==
    /\ alive /\ thread[i] = "agent" /\ i \notin hung /\ iterations[i] < max_iterations
    /\ iterations' = [iterations EXCEPT ![i] = @ + 1]
    /\ thread' = [thread EXCEPT ![i] = "calling"]
    /\ queue' = queue \cup {<<i, attempt[i], "started">>}
    /\ UNCHANGED <<attempt, llm, bound, hung>> /\ Silent

\* llm_chunk and _flush_llm_chunks.
Chunk(i) ==
    /\ thread[i] = "calling" /\ i \notin hung
    /\ llm' = [llm EXCEPT ![i] = "streaming"]
    /\ UNCHANGED <<thread, attempt, iterations, bound, queue, hung>>
    /\ record_work_item_activity(i, "running", "llm", FALSE, "transport", "streaming")
    /\ Quiet

EndCall(i) ==
    /\ alive /\ thread[i] = "calling" /\ i \notin hung
    /\ \E result \in {"completed", "failed"} :
        /\ queue' = queue \cup {<<i, attempt[i], result>>}
        /\ thread' = [thread EXCEPT ![i] = IF result = "completed" THEN "agent" ELSE "raised"]
    /\ UNCHANGED <<attempt, iterations, llm, bound, hung>> /\ Silent

\* tool_started and tool_completed, around a call of the gateway.
Tool(i) ==
    /\ \/ thread[i] = "agent" /\ iterations[i] < max_iterations
          /\ thread' = [thread EXCEPT ![i] = "tool"]
          /\ iterations' = [iterations EXCEPT ![i] = @ + 1]
       \/ thread[i] = "tool" /\ thread' = [thread EXCEPT ![i] = "agent"]
          /\ UNCHANGED iterations
    /\ i \notin hung
    /\ UNCHANGED <<attempt, llm, bound, queue, hung>>
    /\ record_work_item_activity(i, "running", "tool", thread[i] = "agent",
                                 IF thread[i] = "agent" THEN "semantic" ELSE "control",
                                 llm[i])
    /\ Quiet

Settled(state) == state \in {"completed", "failed"}

\* unbind_agent, llm_completed_from_agent_return and completed.
Return(i) ==
    /\ thread[i] = "agent" /\ i \notin hung
    /\ thread' = [thread EXCEPT ![i] = "returned"]
    /\ bound' = bound \ {i}
    /\ llm' = [llm EXCEPT ![i] = IF Settled(@) THEN @ ELSE "completed"]
    /\ UNCHANGED <<attempt, iterations, queue, hung>>
    /\ record_work_item_activity(i, "running", "worker", FALSE, "control", llm'[i])
    /\ Quiet

\* llm_failed and failed, after an exception of the call or of a tool.
Fail(i) ==
    /\ thread[i] \in {"raised", "tool"} /\ i \notin hung
    /\ thread' = [thread EXCEPT ![i] = "returned"]
    /\ bound' = bound \ {i}
    /\ llm' = [llm EXCEPT ![i] = IF Settled(@) THEN @ ELSE "failed"]
    /\ UNCHANGED <<attempt, iterations, queue, hung>>
    /\ record_work_item_activity(i, "running", "llm", FALSE, "control", llm'[i])
    /\ Quiet

\* _run_item_with_retries: another attempt; without one the thread is over.
Retry(i) ==
    /\ thread[i] = "returned" /\ attempt[i] < attempts[i] /\ i \notin hung
    /\ recorded = {}
    /\ thread' = [thread EXCEPT ![i] = "none"]
    /\ UNCHANGED <<attempt, iterations, llm, bound, queue, hung>>
    /\ record_work_item_activity(i, "retrying", "worker", FALSE, "control",
                                 disk.item[i].llm)
    /\ Quiet

\* A provider, a tool or a validation does not come back.
Hang(i) ==
    /\ alive /\ mon = "watch" /\ hung = {} /\ recorded = {}
    /\ thread[i] \in {"agent", "calling", "tool", "returned"}
    /\ hung' = {i}
    /\ UNCHANGED <<thread, attempt, iterations, llm, bound, queue>> /\ Silent

\* _tracker_for: the Agent's own tracker, or the only one there is.
tracker_for(i, n) ==
    IF i \in bound /\ attempt[i] = n THEN {i}
    ELSE IF Cardinality(bound) = 1 THEN bound ELSE {}

\* _on_llm_started, _on_llm_completed and _on_llm_failed.
Deliver(i, n, kind) ==
    /\ alive /\ <<i, n, kind>> \in queue
    /\ queue' = queue \ {<<i, n, kind>>}
    /\ UNCHANGED <<thread, attempt, iterations, bound, hung>>
    /\ \/ \E j \in tracker_for(i, n) :
            /\ kind = "started" \/ ~Settled(llm[j])
            /\ llm' = [llm EXCEPT ![j] = kind]
            /\ record_work_item_activity(j, "running", "llm", FALSE,
                    IF kind = "failed" THEN "control" ELSE "transport", kind)
       \/ /\ \A j \in tracker_for(i, n) : kind # "started" /\ Settled(llm[j])
          /\ UNCHANGED <<llm, disk, watchVars>>
    /\ Quiet

ItemStep(i) ==
    \/ StartAttempt(i) \/ StartCall(i) \/ Chunk(i) \/ EndCall(i) \/ Tool(i)
    \/ Return(i) \/ Fail(i) \/ Retry(i)

----------------------------------------------------------------------------
\* The main thread of the Worker: GraphRunner.run and _worker_entry.

MainOnly == UNCHANGED <<itemVars, mon, stoppedFirst>>

\* start_batch.
StartBatch ==
    /\ main = "batch" /\ main' = "join"
    /\ record_run([disk EXCEPT !.batch = TRUE])
    /\ UNCHANGED <<recorded, alive>> /\ MainOnly

\* _record_result, once every future of the batch has its result.
RecordResult(i) ==
    /\ main = "join" /\ i \notin recorded /\ hung = {}
    /\ \A j \in Items : thread[j] = "returned"
    /\ recorded' = recorded \cup {i}
    /\ UNCHANGED <<attempt, iterations, thread, llm, bound, queue, hung>>
    /\ \E life \in {"terminal", "waiting", "retrying"} :
            record_work_item_activity(i, life, "worker", FALSE, "control",
                                      disk.item[i].llm)
    /\ UNCHANGED <<main, alive, mon, stoppedFirst>>

\* finish_batch.
FinishBatch ==
    /\ main = "join" /\ recorded = Items /\ main' = "close"
    /\ record_run([disk EXCEPT !.batch = FALSE])
    /\ UNCHANGED <<recorded, alive>> /\ MainOnly

\* The Trace has its verdict; finalize_run for a terminal one, else set_run_state.
CloseRun ==
    /\ main = "close" /\ main' = "exit"
    /\ \/ record_run(finalize_run(disk))
       \/ \E life \in {"waiting", "retrying"} : record_run([disk EXCEPT !.life = life])
    /\ UNCHANGED <<recorded, alive>> /\ MainOnly

\* The process is gone, with its memory and with an operation in flight.
Gone ==
    /\ alive' = FALSE /\ recorded' = {}
    /\ thread' = [i \in Items |-> "none"] /\ attempt' = [i \in Items |-> 0]
    /\ iterations' = [i \in Items |-> 0] /\ llm' = [i \in Items |-> "idle"]
    /\ bound' = {} /\ queue' = {} /\ hung' = {}

\* The watch is over.
Unwatch ==
    /\ moved' = {} /\ renewed' = FALSE
    /\ window' = [i \in Items |-> "none"] /\ age' = [i \in Items |-> 0]

ExitWorker ==
    /\ alive /\ main = "exit" /\ Gone /\ Unwatch
    /\ UNCHANGED <<disk, main, mon, stoppedFirst>>

Die ==
    /\ alive /\ Gone /\ Unwatch
    /\ UNCHANGED <<disk, main, mon, stoppedFirst>>

----------------------------------------------------------------------------
\* The monitor.

\* _stall_observations: the channel an open operation of i is watched on.
Channel(i) ==
    LET v == disk.item[i]
    IN  IF v.life \notin {"running", "retrying"} THEN "none"
        ELSE IF v.activity = "llm" /\ v.llm \in {"started", "streaming"} THEN "transport"
        ELSE IF v.activity = "tool" /\ v.operation THEN "semantic"
        ELSE "none"

\* Mutant: a window survives while the same kind of operation is open.
Survives_AnyMarker(i) == window[i] # "none" /\ Channel(i) = window[i]

\* A stall window is dropped when its operation ended or its clock moved.
Survives(i) ==
    window[i] # "none" /\ Channel(i) = window[i] /\ i \notin moved

\* One round of the polling loop; S are the items newly found idle.
Poll(S) ==
    /\ mon = "watch" /\ alive
    /\ S \subseteq {i \in Items : Channel(i) # "none" /\ ~Survives(i)}
    /\ window' = [i \in Items |-> IF Survives(i) THEN window[i]
                                  ELSE IF i \in S THEN Channel(i) ELSE "none"]
    /\ age' = [i \in Items |-> IF Survives(i) THEN age[i]
                               ELSE IF i \in S THEN disk.item[i].attempt ELSE 0]
    /\ renewed' = FALSE /\ moved' = {}
    /\ UNCHANGED <<disk, itemVars, main, recorded, alive, mon, stoppedFirst>>

\* _stop_process, then _finalize_external_run.
StopFirst ==
    /\ Gone /\ Unwatch
    /\ mon' = "close" /\ stoppedFirst' = TRUE
    /\ UNCHANGED <<disk, main>>

\* A window that outlived its grace period.
StallExpires == mon = "watch" /\ alive /\ (\E i \in Items : Survives(i)) /\ StopFirst

\* cancel(), or the monitor reads the request.
SeesCancel == mon = "watch" /\ alive /\ StopFirst

\* No semantic progress for the whole budget.
TimesOut ==
    mon = "watch" /\ alive /\ ~renewed /\ (\A i \in Items : window[i] = "none") /\ StopFirst

\* ... with an open window: the progress is closed before the process is stopped.
TimesOutStalled ==
    /\ mon = "watch" /\ alive /\ ~renewed /\ \E i \in Items : window[i] # "none"
    /\ mon' = "close" /\ Unwatch
    /\ UNCHANGED <<disk, itemVars, main, recorded, alive, stoppedFirst>>

\* The process ended: close what it left, unless the Trace has a verdict.
SeesExit ==
    /\ mon = "watch" /\ ~alive
    /\ IF main \in {"close", "exit"}
       THEN mon' = "done" /\ UNCHANGED stoppedFirst
       ELSE mon' = "close" /\ stoppedFirst' = TRUE
    /\ UNCHANGED <<disk, itemVars, main, recorded, alive, watchVars>>

\* finalize_run in the API process.
CloseProgress ==
    /\ mon = "close" /\ mon' = IF alive THEN "stop" ELSE "done"
    /\ disk' = finalize_run(disk)
    /\ UNCHANGED <<itemVars, main, recorded, alive, watchVars, stoppedFirst>>

StopLast ==
    /\ mon = "stop" /\ mon' = "done" /\ Gone
    /\ UNCHANGED <<disk, main, watchVars, stoppedFirst>>

MonitorStep ==
    StallExpires \/ TimesOut \/ TimesOutStalled \/ SeesExit \/ CloseProgress
    \/ StopLast

WorkerStep ==
    \/ StartBatch \/ FinishBatch \/ CloseRun \/ ExitWorker
    \/ \E i \in Items : ItemStep(i) \/ RecordResult(i)
    \/ \E c \in queue : Deliver(c[1], c[2], c[3])

Done == mon = "done" /\ ~alive /\ UNCHANGED vars

Next ==
    \/ WorkerStep \/ Die \/ (\E i \in Items : Hang(i))
    \/ MonitorStep \/ SeesCancel \/ (\E S \in SUBSET Items : Poll(S)) \/ Done

Spec == Init /\ [][Next]_vars

\* The monitor polls and acts on what it finds, and a budget that is not renewed
\* runs out.  Nothing is assumed of the Worker.
FairSpec == Spec /\ WF_vars(MonitorStep) /\ WF_vars(\E S \in SUBSET Items : Poll(S))

----------------------------------------------------------------------------
ModelStates == {"idle", "started", "streaming", "completed", "failed"}
Lives == Open \cup {"none", "terminal"}
Numbers == [Items -> Nat]

ItemViews ==
    [life : Lives, activity : {"dispatch", "worker", "llm", "tool"},
     operation : BOOLEAN, llm : ModelStates, attempt : Nat]

Snapshots == [life : Lives, batch : BOOLEAN, item : [Items -> ItemViews]]

\* Type invariant.
TypeOK ==
    /\ disk \in Snapshots
    /\ thread \in [Items -> {"none", "agent", "calling", "tool", "raised", "returned"}]
    /\ attempt \in Numbers /\ iterations \in Numbers /\ age \in Numbers
    /\ llm \in [Items -> ModelStates]
    /\ bound \subseteq Items /\ hung \subseteq Items /\ recorded \subseteq Items
    /\ queue \subseteq Items \X Nat \X {"started", "completed", "failed"}
    /\ main \in {"batch", "join", "close", "exit"}
    /\ mon \in {"watch", "close", "stop", "done"}
    /\ alive \in BOOLEAN /\ renewed \in BOOLEAN /\ stoppedFirst \in BOOLEAN
    /\ moved \subseteq Items
    /\ window \in [Items -> {"none", "transport", "semantic"}]

\* A stall window does not outlive the attempt it was opened for, although the
\* monitor sees only snapshots: an Agent that was started anew since is not
\* stopped for the silence of its predecessor.
StallOfThisAttempt ==
    [][\A i \in Items : window'[i] # "none" => age'[i] = disk.item[i].attempt]_<<window, age>>

\* When the Worker was stopped, or had died, before the progress was closed, the
\* snapshot stays closed: no open item, no active batch, a terminal run.
ClosedAfterStop ==
    mon = "done" /\ stoppedFirst =>
        disk.life = "terminal" /\ ~disk.batch /\ OpenItems(disk) = {}

\* An item that hangs, in whatever it does, gets its Worker stopped, whatever
\* its siblings, their streams and the heartbeat still report.
HungItemStopped == hung # {} ~> ~alive
=============================================================================
