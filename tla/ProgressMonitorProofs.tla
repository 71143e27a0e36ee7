----------------------- MODULE ProgressMonitorProofs -----------------------
(***************************************************************************)
(* Proofs about ProgressMonitor for any batch, any retry budgets and any   *)
(* number of model and tool calls.                                         *)
(***************************************************************************)
EXTENDS ProgressMonitor, TLAPS

----------------------------------------------------------------------------
\* A Worker that was stopped first is dead, and the monitor past its watch.
StoppedIsDead == stoppedFirst => ~alive /\ mon \in {"close", "done"}

\* A window that would survive the next poll was opened in the attempt that the
\* snapshot shows.
SurvivorCurrent ==
    alive /\ mon = "watch" =>
        \A i \in Items : Survives(i) => age[i] = disk.item[i].attempt

\* The inductive invariant.
Inv == TypeOK /\ StoppedIsDead /\ SurvivorCurrent /\ ClosedAfterStop

----------------------------------------------------------------------------
\* What the operations of the store write.

\* The snapshot after an activity of item i.
LEMMA ActivityWritten ==
  ASSUME TypeOK, attempt' \in Numbers, NEW i \in Items, NEW life \in Lives,
         NEW activity \in {"dispatch", "worker", "llm", "tool"}, NEW operation \in BOOLEAN,
         NEW signal, NEW state \in ModelStates,
         record_work_item_activity(i, life, activity, operation, signal, state)
  PROVE  /\ alive /\ disk' \in Snapshots /\ UNCHANGED <<window, age>>
         /\ disk'.item[i] = Activity(i, life, activity, operation, state)
         /\ \A j \in Items \ {i} : disk'.item[j] = disk.item[j]
         /\ moved' \subseteq Items /\ renewed' \in BOOLEAN
         /\ mon = "watch" =>
                /\ moved \subseteq moved'
                /\ window[i] = (IF signal = "transport" THEN signal ELSE "semantic") => i \in moved'
<1> DEFINE new == Activity(i, life, activity, operation, state)
<1>1. new \in ItemViews
  BY DEF Activity, ItemViews, Numbers
<1>2. disk' = [disk EXCEPT !.item = [disk.item EXCEPT ![i] = new]]
  BY DEF record_work_item_activity, TypeOK, Snapshots
<1> HIDE DEF new
<1>3. /\ disk' \in Snapshots /\ disk'.item[i] = new
      /\ \A j \in Items \ {i} : disk'.item[j] = disk.item[j]
  BY <1>1, <1>2 DEF TypeOK, Snapshots
<1>4. moved' \subseteq Items /\ renewed' \in BOOLEAN
  BY DEF record_work_item_activity, Clock, TypeOK
<1>5. mon = "watch" =>
        /\ moved \subseteq moved'
        /\ window[i] = (IF signal = "transport" THEN signal ELSE "semantic") => i \in moved'
  BY DEF record_work_item_activity, Clock
<1> QED
  BY <1>3, <1>4, <1>5 DEF new, record_work_item_activity

\* An activity that opens an operation moves the clock its window is watched on;
\* any other leaves nothing to watch.  Hence no window survives it.
LEMMA ActivityKeeps ==
  ASSUME Inv, attempt' \in Numbers, NEW i \in Items, NEW life \in Lives,
         NEW activity \in {"dispatch", "worker", "llm", "tool"}, NEW operation \in BOOLEAN,
         NEW signal \in {"transport", "semantic", "control"}, NEW state \in ModelStates,
         record_work_item_activity(i, life, activity, operation, signal, state),
         activity = "llm" /\ state \in {"started", "streaming"} => signal = "transport",
         activity = "tool" /\ operation => signal = "semantic",
         UNCHANGED <<alive, mon, stoppedFirst>>
  PROVE  StoppedIsDead' /\ SurvivorCurrent' /\ ClosedAfterStop'
<1>0. TypeOK
  BY DEF Inv
<1>1. /\ alive /\ UNCHANGED <<window, age>>
      /\ disk'.item[i] = Activity(i, life, activity, operation, state)
      /\ \A j \in Items \ {i} : disk'.item[j] = disk.item[j]
      /\ mon = "watch" =>
            /\ moved \subseteq moved'
            /\ window[i] = (IF signal = "transport" THEN signal ELSE "semantic") => i \in moved'
  BY <1>0, ActivityWritten
<1>2. StoppedIsDead' /\ ClosedAfterStop'
  BY <1>1 DEF Inv, StoppedIsDead, ClosedAfterStop
<1>3. ASSUME mon = "watch", NEW j \in Items, Survives(j)' PROVE age'[j] = disk'.item[j].attempt
  <2>1. CASE j # i
    <3>1. Channel(j)' = Channel(j)
      BY <1>1, <2>1 DEF Channel
    <3>2. Survives(j)
      BY <1>1, <1>3, <3>1 DEF Survives
    <3> QED
      BY <1>1, <1>3, <2>1, <3>2 DEF Inv, SurvivorCurrent
  <2>2. CASE j = i
    <3>1. Channel(i)' \in {"none", IF signal = "transport" THEN signal ELSE "semantic"}
      BY <1>1 DEF Channel, Activity
    <3> QED
      BY <1>1, <1>3, <2>2, <3>1 DEF Survives
  <2> QED
    BY <2>1, <2>2
<1>4. SurvivorCurrent'
  BY <1>3 DEF SurvivorCurrent
<1> QED
  BY <1>2, <1>4

\* A closed snapshot has no open item, no batch and a terminal run; attempts stay.
LEMMA FinalizeWritten ==
  ASSUME TypeOK
  PROVE  /\ finalize_run(disk) \in Snapshots
         /\ finalize_run(disk).life = "terminal" /\ ~finalize_run(disk).batch
         /\ \A i \in Items : \/ finalize_run(disk).item[i] = disk.item[i]
                             \/ finalize_run(disk).item[i].life = "terminal"
         /\ OpenItems(finalize_run(disk)) = {}
<1> DEFINE close(i) == IF i \notin OpenItems(disk) THEN disk.item[i]
                       ELSE [disk.item[i] EXCEPT
                                !.life = "terminal", !.activity = "worker", !.operation = FALSE,
                                !.llm = IF @ \in {"completed", "failed"} THEN @ ELSE "failed"]
<1>1. \A i \in Items : disk.item[i] \in ItemViews
  BY DEF TypeOK, Snapshots
<1>2. \A i \in Items : /\ close(i) \in ItemViews
                       /\ close(i) = disk.item[i] \/ close(i).life = "terminal"
                       /\ close(i).life \notin Open
  <2> TAKE i \in Items
  <2>1. CASE i \notin OpenItems(disk)
    BY <1>1, <2>1 DEF OpenItems
  <2>2. CASE i \in OpenItems(disk)
    <3>1. /\ close(i) \in ItemViews
          /\ close(i).life = "terminal"
      BY <1>1, <2>2 DEF ItemViews, Lives, ModelStates
    <3> QED
      BY <3>1 DEF Open
  <2> QED
    BY <2>1, <2>2
<1>3. /\ finalize_run(disk) = [life |-> "terminal", batch |-> FALSE, item |-> [i \in Items |-> close(i)]]
  BY DEF finalize_run
<1> HIDE DEF close
<1> QED
  BY <1>2, <1>3 DEF Snapshots, Lives, OpenItems

----------------------------------------------------------------------------
\* The steps of the Worker.

\* Initial states.
LEMMA InitInv == Init => Inv
<1> SUFFICES ASSUME Init PROVE Inv
  OBVIOUS
<1> DEFINE first == [life |-> "none", activity |-> "dispatch", operation |-> FALSE,
                     llm |-> "idle", attempt |-> 0]
<1>1. first \in ItemViews
  BY DEF ItemViews, Lives, ModelStates
<1>2. disk = [life |-> "running", batch |-> FALSE, item |-> [i \in Items |-> first]]
  BY DEF Init
<1> HIDE DEF first
<1>3. disk \in Snapshots
  BY <1>1, <1>2 DEF Snapshots, Lives, Open
<1>4. TypeOK
  BY <1>3 DEF Init, TypeOK, Numbers, ModelStates
<1> QED
  BY <1>4 DEF Inv, Init, StoppedIsDead, SurvivorCurrent, ClosedAfterStop, Survives

\* A new attempt of an item: its tracker reports a control signal.
LEMMA StartAttemptInv ==
  ASSUME Inv, NEW i \in Items, StartAttempt(i)
  PROVE  Inv'
<1> DEFINE started == IF attempt[i] = 0 THEN "running" ELSE "retrying"
<1>1. TypeOK
  BY DEF Inv
<1>2. attempt' \in Numbers
  BY <1>1 DEF TypeOK, Numbers, StartAttempt
<1>3. started \in Lives /\ disk.item[i].llm \in ModelStates
  BY <1>1 DEF TypeOK, Snapshots, ItemViews, Lives, Open
<1>4. record_work_item_activity(i, started, "worker", FALSE, "control", disk.item[i].llm)
  BY DEF StartAttempt
<1> HIDE DEF started
<1>5. StoppedIsDead' /\ SurvivorCurrent' /\ ClosedAfterStop'
  BY <1>2, <1>3, <1>4, ActivityKeeps DEF StartAttempt, Quiet
<1>6. disk' \in Snapshots /\ UNCHANGED <<window, age>> /\ moved' \subseteq Items /\ renewed' \in BOOLEAN
  BY <1>1, <1>2, <1>3, <1>4, ActivityWritten
<1>7. TypeOK'
  BY <1>1, <1>2, <1>6 DEF TypeOK, StartAttempt, Quiet, Numbers, ModelStates
<1> QED
  BY <1>5, <1>7 DEF Inv

\* A step of an item's own thread or a callback that writes nothing.
LEMMA SilentInv ==
  ASSUME Inv, TypeOK', Silent
  PROVE  Inv'
BY DEF Inv, Silent, Quiet, watchVars, StoppedIsDead, SurvivorCurrent, ClosedAfterStop,
       OpenItems, Survives, Channel

LEMMA CallInv ==
  ASSUME Inv, NEW i \in Items, StartCall(i) \/ EndCall(i) \/ Hang(i)
  PROVE  Inv'
<1>1. TypeOK
  BY DEF Inv
<1>2. Silent
  BY DEF StartCall, EndCall, Hang
<1>3. TypeOK'
  <2>1. CASE StartCall(i)
    BY <1>1, <1>2, <2>1 DEF TypeOK, StartCall, Silent, Quiet, watchVars, Numbers
  <2>2. CASE EndCall(i)
    BY <1>1, <1>2, <2>2 DEF TypeOK, EndCall, Silent, Quiet, watchVars, Numbers
  <2>3. CASE Hang(i)
    BY <1>1, <1>2, <2>3 DEF TypeOK, Hang, Silent, Quiet, watchVars, Numbers
  <2> QED
    BY <2>1, <2>2, <2>3
<1> QED
  BY <1>2, <1>3, SilentInv

\* What a step that reports an activity of item i has to show of its arguments.
LEMMA ReportInv ==
  ASSUME Inv, NEW i \in Items, NEW life \in Lives,
         NEW activity \in {"dispatch", "worker", "llm", "tool"}, NEW operation \in BOOLEAN,
         NEW signal \in {"transport", "semantic", "control"}, NEW state \in ModelStates,
         record_work_item_activity(i, life, activity, operation, signal, state),
         activity = "llm" /\ state \in {"started", "streaming"} => signal = "transport",
         activity = "tool" /\ operation => signal = "semantic",
         thread' \in [Items -> {"none", "agent", "calling", "tool", "raised", "returned"}],
         iterations' \in Numbers, llm' \in [Items -> ModelStates],
         bound' \subseteq Items, queue' \subseteq queue, recorded' \subseteq Items,
         UNCHANGED <<attempt, hung, main, alive, mon, stoppedFirst>>
  PROVE  Inv'
<1>1. TypeOK
  BY DEF Inv
<1>2. attempt' \in Numbers
  BY <1>1 DEF TypeOK
<1>3. StoppedIsDead' /\ SurvivorCurrent' /\ ClosedAfterStop'
  BY <1>2, ActivityKeeps
<1>4. disk' \in Snapshots /\ UNCHANGED <<window, age>> /\ moved' \subseteq Items /\ renewed' \in BOOLEAN
  BY <1>1, <1>2, ActivityWritten
<1>5. TypeOK'
  BY <1>1, <1>2, <1>4 DEF TypeOK
<1> QED
  BY <1>3, <1>5 DEF Inv

LEMMA ChunkInv ==
  ASSUME Inv, NEW i \in Items, Chunk(i)
  PROVE  Inv'
<1>1. TypeOK
  BY DEF Inv
<1>2. llm' \in [Items -> ModelStates]
  BY <1>1 DEF TypeOK, Chunk, ModelStates
<1>3. /\ record_work_item_activity(i, "running", "llm", FALSE, "transport", "streaming")
      /\ UNCHANGED <<thread, attempt, iterations, bound, queue, hung, main, recorded, alive, mon,
                     stoppedFirst>>
  BY DEF Chunk, Quiet
<1>4. "running" \in Lives /\ "streaming" \in ModelStates
  BY DEF Lives, Open, ModelStates
<1> QED
  BY <1>1, <1>2, <1>3, <1>4, ReportInv DEF TypeOK

LEMMA ToolInv ==
  ASSUME Inv, NEW i \in Items, Tool(i)
  PROVE  Inv'
<1> DEFINE signal == IF thread[i] = "agent" THEN "semantic" ELSE "control"
           opened == thread[i] = "agent"
<1>1. TypeOK
  BY DEF Inv
<1>2. /\ thread' \in [Items -> {"none", "agent", "calling", "tool", "raised", "returned"}]
      /\ iterations' \in Numbers
  BY <1>1 DEF TypeOK, Tool, Numbers
<1>3. /\ record_work_item_activity(i, "running", "tool", opened, signal, llm[i])
      /\ UNCHANGED <<attempt, llm, bound, queue, hung, main, recorded, alive, mon, stoppedFirst>>
  BY DEF Tool, Quiet
<1>4. "running" \in Lives /\ llm[i] \in ModelStates /\ opened \in BOOLEAN
  BY <1>1 DEF Lives, Open, TypeOK
<1>5. signal \in {"transport", "semantic", "control"} /\ (opened => signal = "semantic")
  OBVIOUS
<1> HIDE DEF signal, opened
<1> QED
  BY <1>1, <1>2, <1>3, <1>4, <1>5, ReportInv DEF TypeOK

\* An Agent that returns or raises leaves no model call open.
LEMMA ReturnInv ==
  ASSUME Inv, NEW i \in Items, Return(i) \/ Fail(i)
  PROVE  Inv'
<1>1. TypeOK
  BY DEF Inv
<1>2. PICK activity \in {"worker", "llm"} :
        record_work_item_activity(i, "running", activity, FALSE, "control", llm'[i])
  BY DEF Return, Fail
<1>3. /\ thread' \in [Items -> {"none", "agent", "calling", "tool", "raised", "returned"}]
      /\ llm' \in [Items -> ModelStates] /\ llm'[i] \in {"completed", "failed"}
      /\ bound' \subseteq Items
  BY <1>1 DEF TypeOK, Return, Fail, Settled, ModelStates
<1>4. UNCHANGED <<attempt, iterations, queue, hung, main, recorded, alive, mon, stoppedFirst>>
  BY DEF Return, Fail, Quiet
<1>5. "running" \in Lives /\ llm'[i] \in ModelStates
  BY <1>3 DEF Lives, Open, ModelStates
<1> QED
  BY <1>1, <1>2, <1>3, <1>4, <1>5, ReportInv DEF TypeOK

LEMMA RetryInv ==
  ASSUME Inv, NEW i \in Items, Retry(i)
  PROVE  Inv'
<1>1. TypeOK
  BY DEF Inv
<1>2. /\ record_work_item_activity(i, "retrying", "worker", FALSE, "control", disk.item[i].llm)
      /\ UNCHANGED <<attempt, iterations, llm, bound, queue, hung, main, recorded, alive, mon,
                     stoppedFirst>>
      /\ thread' \in [Items -> {"none", "agent", "calling", "tool", "raised", "returned"}]
  BY <1>1 DEF Retry, Quiet, TypeOK
<1>3. "retrying" \in Lives /\ disk.item[i].llm \in ModelStates
  BY <1>1 DEF TypeOK, Snapshots, ItemViews, Lives, Open
<1> QED
  BY <1>1, <1>2, <1>3, ReportInv DEF TypeOK

LEMMA RecordResultInv ==
  ASSUME Inv, NEW i \in Items, RecordResult(i)
  PROVE  Inv'
<1>1. TypeOK
  BY DEF Inv
<1>2. PICK life \in {"terminal", "waiting", "retrying"} :
        record_work_item_activity(i, life, "worker", FALSE, "control", disk.item[i].llm)
  BY DEF RecordResult
<1>3. /\ UNCHANGED <<attempt, iterations, thread, llm, bound, queue, hung, main, alive, mon,
                     stoppedFirst>>
      /\ recorded' \subseteq Items
  BY <1>1 DEF RecordResult, TypeOK
<1>4. life \in Lives /\ disk.item[i].llm \in ModelStates
  BY <1>1 DEF TypeOK, Snapshots, ItemViews, Lives, Open
<1> QED
  BY <1>1, <1>2, <1>3, <1>4, ReportInv DEF TypeOK

\* A callback of the event bus, on the tracker it is taken to belong to.
LEMMA TrackedInv ==
  ASSUME Inv, NEW j \in Items, NEW kind \in {"started", "completed", "failed"},
         llm' = [llm EXCEPT ![j] = kind],
         record_work_item_activity(j, "running", "llm", FALSE,
                    IF kind = "failed" THEN "control" ELSE "transport", kind),
         queue' \subseteq queue,
         UNCHANGED <<thread, attempt, iterations, bound, hung, main, recorded, alive, mon,
                     stoppedFirst>>
  PROVE  Inv'
<1>1. TypeOK
  BY DEF Inv
<1>2. "running" \in Lives /\ kind \in ModelStates /\ llm' \in [Items -> ModelStates]
  BY <1>1 DEF TypeOK, Lives, Open, ModelStates
<1>3. PICK signal \in {"control", "transport"} :
        /\ record_work_item_activity(j, "running", "llm", FALSE, signal, kind)
        /\ kind \in {"started", "streaming"} => signal = "transport"
  OBVIOUS
<1>4. /\ thread' \in [Items -> {"none", "agent", "calling", "tool", "raised", "returned"}]
      /\ iterations' \in Numbers /\ bound' \subseteq Items /\ recorded' \subseteq Items
  BY <1>1 DEF TypeOK
<1> QED
  BY <1>2, <1>3, <1>4, ReportInv

LEMMA DeliverInv ==
  ASSUME Inv, NEW c \in queue, Deliver(c[1], c[2], c[3])
  PROVE  Inv'
<1>1. TypeOK
  BY DEF Inv
<1>2. c[1] \in Items /\ c[3] \in {"started", "completed", "failed"}
  BY <1>1 DEF TypeOK
<1>3. ASSUME NEW i \in Items, NEW n, NEW kind \in {"started", "completed", "failed"},
             Deliver(i, n, kind)
      PROVE  Inv'
  <2>1. /\ UNCHANGED <<thread, attempt, iterations, bound, hung, main, recorded, alive, mon,
                       stoppedFirst>>
        /\ queue' \subseteq queue
    BY <1>3 DEF Deliver, Quiet
  <2>2. tracker_for(i, n) \subseteq Items
    BY <1>1 DEF tracker_for, TypeOK
  <2>3. CASE UNCHANGED <<llm, disk, watchVars>>
    <3>1. TypeOK'
      BY <1>1, <2>1, <2>3 DEF TypeOK, watchVars
    <3> QED
      BY <2>1, <2>3, <3>1, SilentInv DEF Silent, Quiet
  <2>4. CASE \E j \in tracker_for(i, n) :
               /\ llm' = [llm EXCEPT ![j] = kind]
               /\ record_work_item_activity(j, "running", "llm", FALSE,
                        IF kind = "failed" THEN "control" ELSE "transport", kind)
    BY <2>1, <2>2, <2>4, TrackedInv
  <2> QED
    BY <1>3, <2>3, <2>4 DEF Deliver
<1> QED
  BY <1>2, <1>3

\* The main thread changes the run and its batch, or closes the items: nothing
\* that is still watched is written.
LEMMA RunRecorded ==
  ASSUME Inv, NEW payload \in Snapshots, record_run(payload),
         \A i \in Items : payload.item[i] = disk.item[i] \/ payload.item[i].life = "terminal",
         main' \in {"batch", "join", "close", "exit"},
         UNCHANGED <<recorded, alive>>, MainOnly
  PROVE  Inv'
<1>1. TypeOK
  BY DEF Inv
<1>2. disk' = payload /\ alive /\ UNCHANGED <<moved, renewed, window, age>>
  BY DEF record_run, watchVars
<1>3. TypeOK'
  BY <1>1, <1>2 DEF TypeOK, MainOnly, itemVars
<1>4. StoppedIsDead' /\ ClosedAfterStop'
  BY <1>2 DEF Inv, StoppedIsDead, ClosedAfterStop, MainOnly
<1>5. ASSUME mon = "watch", NEW i \in Items, Survives(i)' PROVE age'[i] = disk'.item[i].attempt
  <2>1. disk'.item[i] = disk.item[i]
    BY <1>2, <1>5 DEF Survives, Channel
  <2>2. Survives(i)
    BY <1>2, <1>5, <2>1 DEF Survives, Channel
  <2> QED
    BY <1>2, <1>5, <2>1, <2>2 DEF Inv, SurvivorCurrent
<1>6. SurvivorCurrent'
  BY <1>5 DEF SurvivorCurrent, MainOnly
<1> QED
  BY <1>3, <1>4, <1>6 DEF Inv

LEMMA MainInv ==
  ASSUME Inv, StartBatch \/ FinishBatch \/ CloseRun
  PROVE  Inv'
<1>1. TypeOK
  BY DEF Inv
<1>2. UNCHANGED <<recorded, alive>> /\ MainOnly /\ main' \in {"batch", "join", "close", "exit"}
  BY DEF StartBatch, FinishBatch, CloseRun
<1>3. ASSUME NEW flag \in BOOLEAN, record_run([disk EXCEPT !.batch = flag]) PROVE Inv'
  <2> DEFINE payload == [disk EXCEPT !.batch = flag]
  <2>1. payload \in Snapshots /\ payload.item = disk.item
    BY <1>1 DEF TypeOK, Snapshots
  <2> QED
    BY <1>2, <1>3, <2>1, RunRecorded
<1>4. ASSUME NEW life \in Lives, record_run([disk EXCEPT !.life = life]) PROVE Inv'
  <2> DEFINE payload == [disk EXCEPT !.life = life]
  <2>1. payload \in Snapshots /\ payload.item = disk.item
    BY <1>1 DEF TypeOK, Snapshots
  <2> QED
    BY <1>2, <1>4, <2>1, RunRecorded
<1>5. ASSUME record_run(finalize_run(disk)) PROVE Inv'
  BY <1>1, <1>2, <1>5, FinalizeWritten, RunRecorded
<1>6. \/ record_run([disk EXCEPT !.batch = TRUE]) \/ record_run([disk EXCEPT !.batch = FALSE])
      \/ record_run(finalize_run(disk))
      \/ \E life \in {"waiting", "retrying"} : record_run([disk EXCEPT !.life = life])
  BY DEF StartBatch, FinishBatch, CloseRun
<1>7. {"waiting", "retrying"} \subseteq Lives
  BY DEF Lives, Open
<1> QED
  BY <1>3, <1>4, <1>5, <1>6, <1>7

----------------------------------------------------------------------------
\* The steps that end the Worker, and the steps of the monitor.

\* The memory of a process that is gone.
LEMMA GoneTyped ==
  ASSUME TypeOK, Gone, UNCHANGED <<disk, main>>, moved' \subseteq Items, renewed' \in BOOLEAN,
         window' \in [Items -> {"none", "transport", "semantic"}], age' \in Numbers,
         mon' \in {"watch", "close", "stop", "done"}, stoppedFirst' \in BOOLEAN
  PROVE  TypeOK'
BY DEF TypeOK, Gone, Numbers, ModelStates

\* Where nobody watches there is no window.
LEMMA UnwatchTyped ==
  ASSUME Unwatch
  PROVE  /\ moved' \subseteq Items /\ renewed' \in BOOLEAN
         /\ window' \in [Items -> {"none", "transport", "semantic"}] /\ age' \in Numbers
         /\ \A i \in Items : window'[i] = "none"
BY DEF Unwatch, Numbers

LEMMA ExitInv ==
  ASSUME Inv, ExitWorker \/ Die
  PROVE  Inv'
<1>1. TypeOK
  BY DEF Inv
<1>2. alive /\ Gone /\ Unwatch /\ UNCHANGED <<disk, main, mon, stoppedFirst>>
  BY DEF ExitWorker, Die
<1>3. TypeOK'
  BY <1>1, <1>2, UnwatchTyped, GoneTyped DEF TypeOK
<1> QED
  BY <1>2, <1>3 DEF Inv, Gone, StoppedIsDead, SurvivorCurrent, ClosedAfterStop

LEMMA StopFirstInv ==
  ASSUME Inv, StopFirst
  PROVE  Inv'
<1>1. TypeOK
  BY DEF Inv
<1>2. TypeOK'
  BY <1>1, UnwatchTyped, GoneTyped DEF StopFirst
<1> QED
  BY <1>2 DEF Inv, StopFirst, Gone, StoppedIsDead, SurvivorCurrent, ClosedAfterStop

LEMMA TimesOutStalledInv ==
  ASSUME Inv, TimesOutStalled
  PROVE  Inv'
<1>1. TypeOK
  BY DEF Inv
<1>2. TypeOK'
  BY <1>1, UnwatchTyped DEF TimesOutStalled, TypeOK, itemVars
<1> QED
  BY <1>2 DEF Inv, TimesOutStalled, StoppedIsDead, SurvivorCurrent, ClosedAfterStop

\* The monitor finds the process gone.
LEMMA SeesExitInv ==
  ASSUME Inv, SeesExit
  PROVE  Inv'
<1>1. TypeOK
  BY DEF Inv
<1>2. TypeOK'
  BY <1>1 DEF SeesExit, TypeOK, itemVars, watchVars
<1> QED
  BY <1>2 DEF Inv, SeesExit, StoppedIsDead, SurvivorCurrent, ClosedAfterStop

LEMMA CloseProgressInv ==
  ASSUME Inv, CloseProgress
  PROVE  Inv'
<1>1. TypeOK
  BY DEF Inv
<1>2. TypeOK'
  BY <1>1, FinalizeWritten DEF CloseProgress, TypeOK, itemVars, watchVars
<1>3. disk'.life = "terminal" /\ ~disk'.batch /\ OpenItems(disk)' = {}
  BY <1>1, FinalizeWritten DEF CloseProgress, OpenItems
<1> QED
  BY <1>2, <1>3 DEF Inv, CloseProgress, StoppedIsDead, SurvivorCurrent, ClosedAfterStop

LEMMA StopLastInv ==
  ASSUME Inv, StopLast
  PROVE  Inv'
<1>1. TypeOK
  BY DEF Inv
<1>2. TypeOK'
  BY <1>1, GoneTyped DEF StopLast, TypeOK, watchVars
<1> QED
  BY <1>2 DEF Inv, StopLast, Gone, StoppedIsDead, SurvivorCurrent, ClosedAfterStop

\* A poll keeps the windows of the attempt it finds, and opens none of another.
LEMMA PollCurrent ==
  ASSUME Inv, NEW S \in SUBSET Items, Poll(S)
  PROVE  \A i \in Items : window'[i] # "none" => age'[i] = disk.item[i].attempt
<1> SUFFICES ASSUME NEW i \in Items, window'[i] # "none" PROVE age'[i] = disk.item[i].attempt
  OBVIOUS
<1>1. CASE Survives(i)
  BY <1>1 DEF Inv, SurvivorCurrent, Poll
<1>2. CASE ~Survives(i)
  BY <1>2 DEF Poll
<1> QED
  BY <1>1, <1>2

LEMMA PollInv ==
  ASSUME Inv, NEW S \in SUBSET Items, Poll(S)
  PROVE  Inv'
<1>1. TypeOK
  BY DEF Inv
<1>2. \A i \in Items : Channel(i) \in {"none", "transport", "semantic"}
  BY DEF Channel
<1>3. \A i \in Items : disk.item[i].attempt \in Nat
  BY <1>1 DEF TypeOK, Snapshots, ItemViews
<1>4. window' \in [Items -> {"none", "transport", "semantic"}]
  BY <1>1, <1>2 DEF TypeOK, Poll
<1>5. age' \in Numbers
  BY <1>1, <1>3 DEF TypeOK, Poll, Numbers
<1>6. TypeOK'
  BY <1>1, <1>4, <1>5 DEF TypeOK, Poll, itemVars
<1>7. SurvivorCurrent'
  BY PollCurrent DEF SurvivorCurrent, Survives, Poll
<1> QED
  BY <1>6, <1>7 DEF Inv, Poll, StoppedIsDead, ClosedAfterStop, OpenItems

----------------------------------------------------------------------------
\* Every step keeps the invariant.
LEMMA NextInv == Inv /\ [Next]_vars => Inv'
<1> SUFFICES ASSUME Inv, [Next]_vars PROVE Inv'
  OBVIOUS
<1>1. CASE \E i \in Items : ItemStep(i) \/ RecordResult(i) \/ Hang(i)
  BY <1>1, StartAttemptInv, CallInv, ChunkInv, ToolInv, ReturnInv, RetryInv, RecordResultInv
     DEF ItemStep
<1>2. CASE \E c \in queue : Deliver(c[1], c[2], c[3])
  BY <1>2, DeliverInv
<1>3. CASE StartBatch \/ FinishBatch \/ CloseRun
  BY <1>3, MainInv
<1>4. CASE ExitWorker \/ Die
  BY <1>4, ExitInv
<1>5. CASE StallExpires \/ TimesOut \/ SeesCancel
  BY <1>5, StopFirstInv DEF StallExpires, TimesOut, SeesCancel
<1>6. CASE TimesOutStalled \/ SeesExit \/ CloseProgress \/ StopLast
  BY <1>6, TimesOutStalledInv, SeesExitInv, CloseProgressInv, StopLastInv
<1>7. CASE \E S \in SUBSET Items : Poll(S)
  BY <1>7, PollInv
<1>8. CASE UNCHANGED vars
  BY <1>8 DEF Inv, TypeOK, StoppedIsDead, SurvivorCurrent, ClosedAfterStop, OpenItems, Survives,
     Channel, vars, itemVars, watchVars
<1> QED
  BY <1>1, <1>2, <1>3, <1>4, <1>5, <1>6, <1>7, <1>8 DEF Next, WorkerStep, MonitorStep, Done

\* Every reachable state satisfies the invariant.
LEMMA InvAlways == Spec => []Inv
BY InitInv, NextInv, PTL DEF Spec

\* The snapshot, the trackers, the event bus and the stall windows keep their
\* types, whatever the batch and its retry budgets.
THEOREM MonitorTypeCorrect == Spec => []TypeOK
<1>1. Inv => TypeOK
  BY DEF Inv
<1> QED
  BY <1>1, InvAlways, PTL

\* When the Worker was stopped or had died before finalize_run closed its
\* progress, no late callback and no thread of it opens the snapshot again.
THEOREM SnapshotStaysClosed == Spec => []ClosedAfterStop
<1>1. Inv => ClosedAfterStop
  BY DEF Inv
<1> QED
  BY <1>1, InvAlways, PTL

\* A stall window that _stall_observations keeps or opens is one of the attempt
\* the snapshot shows: every report of an operation that opens in a later attempt
\* moves the clock the older window was watched on.
THEOREM StallsAreCurrent == Spec => StallOfThisAttempt
<1> DEFINE Current == \A i \in Items : window'[i] # "none" => age'[i] = disk.item[i].attempt
<1>1. Inv /\ [Next]_vars => [Current]_<<window, age>>
  <2> SUFFICES ASSUME Inv, [Next]_vars, ~UNCHANGED <<window, age>> PROVE Current
    OBVIOUS
  <2>1. CASE \E S \in SUBSET Items : Poll(S)
    BY <2>1, PollCurrent
  <2>2. CASE Unwatch
    BY <2>2, UnwatchTyped
  <2>3. (\E S \in SUBSET Items : Poll(S)) \/ Unwatch
    <3>1. WorkerStep \/ Die \/ (\E i \in Items : Hang(i)) \/ MonitorStep \/ SeesCancel
          \/ (\E S \in SUBSET Items : Poll(S))
      BY DEF Next, Done, vars, watchVars
    <3>2. ASSUME NEW i \in Items PROVE ~(ItemStep(i) \/ RecordResult(i) \/ Hang(i))
      BY DEF ItemStep, StartAttempt, StartCall, Chunk, EndCall, Tool, Return, Fail, Retry, Hang,
         RecordResult, Silent, watchVars, record_work_item_activity
    <3>3. ASSUME NEW i, NEW n, NEW kind PROVE ~Deliver(i, n, kind)
      BY DEF Deliver, watchVars, record_work_item_activity
    <3>4. ~(StartBatch \/ FinishBatch \/ CloseRun)
      BY DEF StartBatch, FinishBatch, CloseRun, record_run, watchVars
    <3>5. ~(SeesExit \/ CloseProgress \/ StopLast)
      BY DEF SeesExit, CloseProgress, StopLast, watchVars
    <3>6. ExitWorker \/ Die \/ StallExpires \/ TimesOut \/ TimesOutStalled \/ SeesCancel => Unwatch
      BY DEF ExitWorker, Die, StallExpires, TimesOut, TimesOutStalled, SeesCancel, StopFirst
    <3> QED
      BY <3>1, <3>2, <3>3, <3>4, <3>5, <3>6 DEF WorkerStep, MonitorStep
  <2> QED
    BY <2>1, <2>2, <2>3
<1> QED
  BY <1>1, InvAlways, PTL DEF Spec, StallOfThisAttempt
=============================================================================
