-------------------------- MODULE WorkerLifecycle --------------------------
(***************************************************************************)
(* Who may touch one Trace, and when: the API process (RunCoordinator and  *)
(* RunService of app/application/runs.py), one monitor thread per Worker,  *)
(* the Worker processes, and the files they meet in (trace.json, the       *)
(* control file and the Worker lease of app/orchestration/progress.py).    *)
(*                                                                         *)
(* The work of a Worker is one step here; GraphRunner and RepairCycle have *)
(* its inside.  An API process that is killed leaves its Workers behind,   *)
(* without monitor.  "failed" stands for blocked too, "waiting" for the    *)
(* statuses that are neither running nor terminal.                         *)
(***************************************************************************)
EXTENDS Naturals, FiniteSets

CONSTANTS
    Workers,       \* Worker processes, each started at most once
    NoWorker,
    Requests,      \* request threads of the API that may resume the Trace
    MaxResumes,    \* bound on resume requests
    MaxFaults      \* bound on API processes that are killed and Workers that
                   \* die by themselves

ASSUME LifecycleAssumption ==
    /\ IsFiniteSet(Workers) /\ Workers # {} /\ NoWorker \notin Workers
    /\ IsFiniteSet(Requests)
    /\ MaxResumes \in Nat /\ MaxFaults \in Nat

----------------------------------------------------------------------------
VARIABLES
    \* files
    trace,      \* status in trace.json
    control,    \* the control file: none, cancel or stall
    lease,      \* worker-lease.json: the Worker that created the file
    written,    \* its pid is in the file
    \* processes
    worker,     \* per Worker: how far _worker_entry is
    monitor,    \* per Worker: how far _run_in_worker is
    stalled,    \* monitors with an open stall window
    fin,        \* per finalizer: the outcome it is about to write
    future,     \* _futures: the Worker of the last Future of this API process
    process,    \* _processes: the Worker cancel() has a handle of
    cancelling, \* the handler of a cancellation
    resuming,   \* per request thread: how far resume_run is
    \* bounds and history
    resumes, restarts, crashes,
    asked,      \* a cancellation was requested and no Worker submitted since
    overlap,    \* two submits of this API process were under way together
    contended   \* two Workers were inside claim_worker together

leaseVars == <<lease, written, contended>>
fileVars == <<trace, control, leaseVars>>
apiVars == <<future, process, cancelling, resuming, overlap>>
boundVars == <<resumes, restarts, crashes>>
vars == <<fileVars, worker, monitor, stalled, fin, apiVars, boundVars, asked>>

Terminal == {"completed", "failed", "cancelled"}

\* A process exists from process.start to its exit.
Alive ==
    {"boot", "found", "takeover", "created", "claimed", "clear", "run", "raised", "ending"}

\* Finalizers: each monitor, each Worker's exception fallback, cancel().
Finalizers == {<<w, "monitor">> : w \in Workers} \cup {<<w, "worker">> : w \in Workers}
                 \cup {<<NoWorker, "cancel">>}

\* Processes are alike, so a new one is any that was not started yet.
Fresh(unused) == CHOOSE w \in unused : TRUE

\* A new run was submitted: its first Worker is queued in the executor.
Init ==
    /\ trace = "running" /\ control = "none"
    /\ lease = NoWorker /\ written = FALSE /\ contended = FALSE
    /\ future = Fresh(Workers) /\ process = NoWorker
    /\ worker = [w \in Workers |-> IF w = future THEN "queued" ELSE "none"]
    /\ monitor = [w \in Workers |-> IF w = future THEN "watch" ELSE "none"]
    /\ stalled = {} /\ fin = [f \in Finalizers |-> "none"]
    /\ cancelling = "idle" /\ resuming = [r \in Requests |-> "idle"] /\ overlap = FALSE
    /\ resumes = 0 /\ restarts = 0 /\ crashes = 0
    /\ asked = FALSE

----------------------------------------------------------------------------
\* _finalize_external_run reads the Trace, and acts on what it read later.

BeginFinalize(f, outcome) ==
    fin' = [fin EXCEPT ![f] = IF trace \in Terminal THEN "none" ELSE outcome]

\* The retry record of a FAILED outcome is RetryLedger's and GraphRunner's matter.
EndFinalize(f) ==
    /\ fin[f] # "none"
    /\ trace' = fin[f]
    /\ fin' = [fin EXCEPT ![f] = "none"]
    /\ UNCHANGED <<control, leaseVars, worker, monitor, stalled, apiVars, boundVars,
                   asked>>

----------------------------------------------------------------------------
\* _worker_entry.

Moves(w, from, to) ==
    worker[w] = from /\ worker' = [worker EXCEPT ![w] = to]

\* _run_in_worker registers the process and starts it.
StartProcess(w) ==
    /\ Moves(w, "queued", "boot") /\ monitor[w] = "watch"
    /\ process' = w
    /\ UNCHANGED <<fileVars, monitor, stalled, fin, future, cancelling, resuming,
                   overlap, boundVars, asked>>

----------------------------------------------------------------------------
\* claim_worker and release_worker: each access to the lease file is a step.

Claiming(w) == worker[w] \in {"found", "takeover", "created"}

EntersClaim(w) == contended' = (contended \/ \E v \in Workers \ {w} : Claiming(v))

InClaim == UNCHANGED <<trace, control, monitor, stalled, fin, apiVars, boundVars, asked>>

\* os.open with O_EXCL: the file is there, and empty.
CreateLease(w) ==
    /\ lease = NoWorker
    /\ Moves(w, "boot", "created") /\ EntersClaim(w)
    /\ lease' = w /\ written' = FALSE
    /\ InClaim

FindLease(w) ==
    /\ lease # NoWorker
    /\ Moves(w, "boot", "found") /\ EntersClaim(w)
    /\ UNCHANGED <<lease, written>> /\ InClaim

\* The pid in the file is that of a live process (worker_active, too).
LeaseHeld == written /\ lease # NoWorker /\ worker[lease] \in Alive

\* A live holder's lease is respected: SystemExit(75), which _worker_entry
\* turns into a return with exit code 0.  A dead holder's, an unwritten and a
\* vanished one are not.
ReadLease(w) ==
    /\ Moves(w, "found", IF LeaseHeld THEN "exited" ELSE "takeover")
    /\ UNCHANGED leaseVars /\ InClaim

\* The file that is there now is unlinked, whoever's it is, and the claim starts
\* over; if there is none the claim is lost.
UnlinkLease(w) ==
    /\ Moves(w, "takeover", IF lease = NoWorker THEN "exited" ELSE "boot")
    /\ lease' = NoWorker /\ written' = FALSE
    /\ UNCHANGED contended /\ InClaim

\* The pid goes into the file that was created, linked still or not.
WriteLease(w) ==
    /\ Moves(w, "created", "claimed")
    /\ written' = (written \/ lease = w)
    /\ UNCHANGED <<lease, contended>> /\ InClaim

\* release_worker, only with the own pid in the file.
Released(w) ==
    /\ UNCHANGED contended
    /\ IF lease = w /\ written THEN lease' = NoWorker /\ written' = FALSE
                               ELSE UNCHANGED <<lease, written>>

----------------------------------------------------------------------------
\* The rest of _worker_entry.

\* Mutant: the control file is cleared before it is looked at.
CheckCancel_Late(w) ==
    /\ Moves(w, "claimed", "clear")
    /\ UNCHANGED <<fileVars, monitor, stalled, fin, apiVars, boundVars, asked>>

\* A cancellation that came before the Worker ends it here.
CheckCancel(w) ==
    /\ IF control = "cancel"
       THEN /\ Moves(w, "claimed", "ending")
            /\ trace' = "cancelled" /\ Released(w)
       ELSE Moves(w, "claimed", "clear") /\ UNCHANGED <<trace, leaseVars>>
    /\ UNCHANGED <<control, monitor, stalled, fin, apiVars, boundVars,
                   asked>>

\* clear_control, start_run, release_worker: the lease does not cover the run.
ClearControl(w) ==
    /\ Moves(w, "clear", "run")
    /\ control' = "none" /\ Released(w)
    /\ UNCHANGED <<trace, monitor, stalled, fin, apiVars, boundVars, asked>>

\* _run_with_repairs ends: _finish_trace writes the verdict.  A cancellation is
\* only looked for between two batches.
Finish(w) ==
    /\ Moves(w, "run", "ending")
    /\ \/ trace' \in {"completed", "failed", "waiting"}
       \/ control = "cancel" /\ trace' = "cancelled"
    /\ UNCHANGED <<control, leaseVars, monitor, stalled, fin, apiVars, boundVars,
                   asked>>

\* An exception: the Worker finalizes itself, as cancelled if that was asked;
\* while it boots it has no progress store to ask.
Raise(w) ==
    /\ worker[w] \in {"boot", "claimed", "clear", "run"}
    /\ restarts + crashes < MaxFaults /\ crashes' = crashes + 1
    /\ worker' = [worker EXCEPT ![w] = "raised"]
    /\ BeginFinalize(<<w, "worker">>, IF control = "cancel" /\ worker[w] # "boot"
                                     THEN "cancelled" ELSE "failed")
    /\ UNCHANGED <<fileVars, monitor, stalled, apiVars, resumes, restarts, asked>>

\* The Worker gives back a lease it still holds, and is gone.
Exit(w) ==
    /\ worker[w] \in {"raised", "ending"} /\ fin[<<w, "worker">>] = "none"
    /\ worker' = [worker EXCEPT ![w] = "exited"]
    /\ Released(w)
    /\ UNCHANGED <<trace, control, monitor, stalled, fin, apiVars, boundVars,
                   asked>>

\* _stop_process: terminate, join, kill; only a live process is there to stop.
Stopped(w) ==
    worker' = IF worker[w] \in Alive THEN [worker EXCEPT ![w] = "exited"] ELSE worker

\* A Worker is killed from outside, by shutdown() for one.
Die(w) ==
    /\ worker[w] \in Alive /\ restarts + crashes < MaxFaults /\ crashes' = crashes + 1
    /\ worker' = [worker EXCEPT ![w] = "exited"]
    /\ fin' = [fin EXCEPT ![<<w, "worker">>] = "none"]
    /\ UNCHANGED <<fileVars, monitor, stalled, apiVars, resumes, restarts, asked>>

WorkerStep(w) ==
    \/ StartProcess(w)
    \/ CreateLease(w) \/ FindLease(w) \/ ReadLease(w) \/ UnlinkLease(w) \/ WriteLease(w)
    \/ CheckCancel(w) \/ ClearControl(w)
    \/ Finish(w) \/ Raise(w) \/ Exit(w) \/ Die(w)

----------------------------------------------------------------------------
\* RunCoordinator._run_in_worker, the monitor of one Worker.

Watching(w) == monitor[w] = "watch" /\ worker[w] \in Alive

\* Stop the process, then finalize, then return; the stall window is the
\* monitor's own and ends with its loop.
StopThenFinalize(w, outcome) ==
    /\ Stopped(w)
    /\ fin' = [fin EXCEPT ![<<w, "worker">>] = "none",
                          ![<<w, "monitor">>] =
                              IF trace \in Terminal THEN "none" ELSE outcome]
    /\ monitor' = [monitor EXCEPT ![w] = "closing"]
    /\ stalled' = stalled \ {w}
    /\ UNCHANGED <<fileVars, apiVars, boundVars, asked>>

SeesCancel(w) ==
    Watching(w) /\ control = "cancel" /\ StopThenFinalize(w, "cancelled")

\* A stall window opens; the request overwrites whatever the control file says.
SuspectStall(w) ==
    /\ Watching(w) /\ worker[w] = "run" /\ w \notin stalled
    /\ stalled' = stalled \cup {w}
    /\ control' = "stall"
    /\ UNCHANGED <<trace, leaseVars, worker, monitor, fin, apiVars, boundVars,
                   asked>>

StallRecovers(w) ==
    /\ Watching(w) /\ w \in stalled
    /\ stalled' = stalled \ {w}
    /\ UNCHANGED <<fileVars, worker, monitor, fin, apiVars, boundVars, asked>>

StallExpires(w) ==
    Watching(w) /\ w \in stalled /\ StopThenFinalize(w, "failed")

\* The Worker's time is up without an open stall window.
TimesOut(w) ==
    /\ Watching(w) /\ w \notin stalled
    /\ StopThenFinalize(w, IF control = "cancel" THEN "cancelled" ELSE "failed")

\* ... with one: the Trace is closed first and the process stopped afterwards.
TimesOutStalled(w) ==
    /\ Watching(w) /\ w \in stalled
    /\ BeginFinalize(<<w, "monitor">>, "failed")
    /\ monitor' = [monitor EXCEPT ![w] = "boundary"]
    /\ stalled' = stalled \ {w}
    /\ UNCHANGED <<fileVars, worker, apiVars, boundVars, asked>>

StopAfterBoundary(w) ==
    /\ monitor[w] = "boundary" /\ fin[<<w, "monitor">>] = "none"
    /\ Stopped(w)
    /\ fin' = [fin EXCEPT ![<<w, "worker">>] = "none"]
    /\ monitor' = [monitor EXCEPT ![w] = "closing"]
    /\ UNCHANGED <<fileVars, stalled, apiVars, boundVars, asked>>

\* Mutant: the monitor leaves a Trace that its Worker did not close.
SeesExit_NoClose(w) ==
    /\ monitor[w] = "watch" /\ worker[w] = "exited"
    /\ monitor' = [monitor EXCEPT ![w] = "closing"]
    /\ stalled' = stalled \ {w}
    /\ UNCHANGED <<fileVars, worker, fin, apiVars, boundVars, asked>>

\* The process ended (exit code 75 is never seen): close a running Trace.
SeesExit(w) ==
    /\ monitor[w] = "watch" /\ worker[w] = "exited"
    /\ IF trace = "running"
       THEN BeginFinalize(<<w, "monitor">>,
                          IF control = "cancel" THEN "cancelled" ELSE "failed")
       ELSE UNCHANGED fin
    /\ monitor' = [monitor EXCEPT ![w] = "closing"]
    /\ stalled' = stalled \ {w}
    /\ UNCHANGED <<fileVars, worker, apiVars, boundVars, asked>>

\* The handle that is registered is dropped, whoever's it is; the Future is done.
Return(w) ==
    /\ monitor[w] = "closing" /\ fin[<<w, "monitor">>] = "none"
    /\ monitor' = [monitor EXCEPT ![w] = "done"]
    /\ process' = NoWorker
    /\ UNCHANGED <<fileVars, worker, stalled, fin, future, cancelling, resuming, overlap,
                   boundVars, asked>>

MonitorCloses(w) == StopAfterBoundary(w) \/ SeesExit(w) \/ Return(w)

MonitorStops(w) ==
    SeesCancel(w) \/ StallExpires(w) \/ TimesOut(w) \/ TimesOutStalled(w)

MonitorStep(w) ==
    MonitorCloses(w) \/ MonitorStops(w) \/ SuspectStall(w) \/ StallRecovers(w)

----------------------------------------------------------------------------
\* RunService.resume_run and RunCoordinator.submit, in any number of request
\* threads: what one checks may be another's to change before it acts.

Requested(r, from, to) ==
    resuming[r] = from /\ resuming' = [resuming EXCEPT ![r] = to]

\* A verdict can be resumed at once; a "running" Trace only if this process
\* never had a Future for it and no live process holds the lease.
Admit(r) ==
    /\ Requested(r, "idle", "admitted")
    /\ resumes < MaxResumes /\ resumes' = resumes + 1
    /\ \/ trace \in {"failed", "waiting"}
       \/ trace = "running" /\ future = NoWorker /\ ~LeaseHeld
    /\ UNCHANGED <<fileVars, worker, monitor, stalled, fin, future, process, cancelling,
                   overlap, restarts, crashes, asked>>

\* The plan and the state were loaded in between.
MarkRunning(r) ==
    /\ Requested(r, "admitted", "marked")
    /\ trace' = "running"
    /\ UNCHANGED <<control, leaseVars, worker, monitor, stalled, fin, future, process,
                   cancelling, overlap, boundVars, asked>>

\* Mutant: a Future that is not done is not looked for.
FutureDone_Unchecked == TRUE

FutureDone == future \in {NoWorker} \cup {w \in Workers : monitor[w] = "done"}

\* submit under its lock: refuse, leaving the Trace as marked, or go on.
Check(r) ==
    /\ Requested(r, "marked", IF FutureDone THEN "passed" ELSE "idle")
    /\ overlap' = (overlap \/ (FutureDone /\ \E q \in Requests : resuming[q] = "passed"))
    /\ UNCHANGED <<fileVars, worker, monitor, stalled, fin, future, process, cancelling,
                   boundVars, asked>>

Unused == {w \in Workers : worker[w] = "none"}

\* A new Worker is queued and, under the lock once more, its Future registered.
\* A check that falls between the two passes like one just before both.
Submit(r) ==
    /\ Requested(r, "passed", "idle")
    /\ Unused # {}
    /\ future' = Fresh(Unused) /\ asked' = FALSE
    /\ worker' = [worker EXCEPT ![future'] = "queued"]
    /\ monitor' = [monitor EXCEPT ![future'] = "watch"]
    /\ UNCHANGED <<fileVars, stalled, fin, process, cancelling, overlap, boundVars>>

ResumeStep(r) == MarkRunning(r) \/ Check(r) \/ Submit(r)

\* RunCoordinator.cancel: request, stop the process it has a handle of, finalize.
CancelRequest ==
    /\ cancelling = "idle" /\ trace \notin Terminal
    /\ cancelling' = "stop"
    /\ control' = "cancel" /\ asked' = TRUE
    /\ UNCHANGED <<trace, leaseVars, worker, monitor, stalled, fin, future, process,
                   resuming, overlap, boundVars>>

CancelStops ==
    /\ cancelling = "stop" /\ cancelling' = "close"
    /\ IF process = NoWorker THEN UNCHANGED <<worker, fin>>
       ELSE /\ Stopped(process)
            /\ fin' = [fin EXCEPT ![<<process, "worker">>] = "none"]
    /\ UNCHANGED <<fileVars, monitor, stalled, future, process, resuming, overlap,
                   boundVars, asked>>

CancelFinalizes ==
    /\ cancelling = "close" /\ cancelling' = "closing"
    /\ BeginFinalize(<<NoWorker, "cancel">>, "cancelled")
    /\ UNCHANGED <<fileVars, worker, monitor, stalled, future, process, resuming, overlap,
                   boundVars, asked>>

CancelReturns ==
    /\ cancelling = "closing" /\ fin[<<NoWorker, "cancel">>] = "none"
    /\ cancelling' = "returned" /\ process' = NoWorker
    /\ UNCHANGED <<fileVars, worker, monitor, stalled, fin, future, resuming, overlap,
                   boundVars, asked>>

\* The API process is killed: its threads are gone, its Workers live on.
ApiCrash ==
    /\ restarts + crashes < MaxFaults /\ restarts' = restarts + 1
    /\ worker' = [w \in Workers |-> IF worker[w] = "queued" THEN "exited" ELSE worker[w]]
    /\ monitor' = [w \in Workers |-> IF monitor[w] = "none" THEN "none" ELSE "lost"]
    /\ fin' = [f \in Finalizers |-> IF f[2] = "worker" THEN fin[f] ELSE "none"]
    /\ future' = NoWorker /\ process' = NoWorker /\ cancelling' = "idle"
    /\ resuming' = [r \in Requests |-> "idle"] /\ overlap' = FALSE
    /\ stalled' = {}
    /\ UNCHANGED <<fileVars, resumes, crashes, asked>>

----------------------------------------------------------------------------
Next ==
    \/ \E f \in Finalizers : EndFinalize(f)
    \/ \E w \in Workers : WorkerStep(w) \/ MonitorStep(w)
    \/ \E r \in Requests : Admit(r) \/ ResumeStep(r)
    \/ CancelRequest \/ CancelStops \/ CancelFinalizes \/ CancelReturns
    \/ ApiCrash

Spec == Init /\ [][Next]_vars

\* What the threads of the API process do by themselves.  A Worker may hang.
ApiProgress ==
    \/ \E w \in Workers : StartProcess(w) \/ MonitorCloses(w) \/ EndFinalize(<<w, "monitor">>)
    \/ \E r \in Requests : ResumeStep(r)
    \/ CancelStops \/ CancelFinalizes \/ CancelReturns
    \/ EndFinalize(<<NoWorker, "cancel">>)

\* The deadline of a Worker that does not exit passes.
FairSpec ==
    /\ Spec
    /\ WF_vars(ApiProgress)
    /\ WF_vars(\E w \in Workers : MonitorStops(w))

----------------------------------------------------------------------------
\* Type invariant.
TypeOK ==
    /\ trace \in Terminal \cup {"running", "waiting"} /\ control \in {"none", "cancel", "stall"}
    /\ lease \in Workers \cup {NoWorker} /\ written \in BOOLEAN /\ contended \in BOOLEAN
    /\ worker \in [Workers -> Alive \cup {"none", "queued", "exited"}]
    /\ monitor \in [Workers -> {"none", "watch", "boundary", "closing", "done", "lost"}]
    /\ stalled \subseteq Workers
    /\ fin \in [Finalizers -> {"none", "failed", "cancelled"}]
    /\ future \in Workers \cup {NoWorker} /\ process \in Workers \cup {NoWorker}
    /\ cancelling \in {"idle", "stop", "close", "closing", "returned"}
    /\ resuming \in [Requests -> {"idle", "admitted", "marked", "passed"}]
    /\ overlap \in BOOLEAN
    /\ resumes \in Nat /\ restarts \in Nat /\ crashes \in Nat
    /\ asked \in BOOLEAN

\* "The owning process remains the sole writer": one Worker executes the Trace
\* at a time.  Refuted (worker_orphan.cfg): the lease is released before the run begins.
OneWorker == Cardinality({w \in Workers : worker[w] = "run"}) <= 1

\* The Workers of one API process exclude each other, through resumes, stalls,
\* timeouts and crashes, unless two submits passed the check of the Future
\* together: the Future is the real lock of a run, the lease is not (runs.py
\* submit, _run_in_worker).
OneOwnWorker ==
    ~overlap =>
        Cardinality({w \in Workers : worker[w] = "run" /\ monitor[w] # "lost"}) <= 1

\* The lease covers the start of a Worker, from the claim to start_run: two
\* Workers never bring up the same Trace at the same time, over any crash of
\* Workers and of the API process, unless they were inside claim_worker
\* together, where one may unlink what the other has just created.
OneStarter ==
    ~contended =>
        \A w \in Workers : worker[w] \in {"claimed", "clear"} => lease = w /\ written

\* What the lease and the Future together exclude: two Workers bringing up the
\* Trace, and two Workers of one API process executing it (runs.py submit,
\* _run_in_worker, _worker_entry).
WorkersExcluded == OneStarter /\ OneOwnWorker

\* Once cancel() has returned no Worker submitted before executes the Trace,
\* whether the request came before its process started, while it booted or
\* while it ran.  A Worker that an earlier API process left behind may unlink
\* the request, and of two that overlapping submits started cancel() knows one
\* only, so the promise ends with either.
NoRunAfterCancel ==
    /\ cancelling = "returned" /\ asked /\ ~overlap
    /\ \A w \in Workers : monitor[w] # "lost"
    => \A w \in Workers : worker[w] # "run"

\* A run is not "running" for ever, even when its Worker hangs or crashes, as
\* long as its API process lives and no resume was asked for.
Settles ==
    trace = "running" ~> trace # "running" \/ restarts > 0 \/ resumes > 0
=============================================================================
