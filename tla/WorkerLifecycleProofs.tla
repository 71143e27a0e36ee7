----------------------- MODULE WorkerLifecycleProofs -----------------------
(***************************************************************************)
(* Proofs about WorkerLifecycle for any number of Workers, resumes, API    *)
(* restarts and crashes.                                                   *)
(***************************************************************************)
EXTENDS WorkerLifecycle, FiniteSetTheorems, TLAPS

----------------------------------------------------------------------------
\* Without overlapping submits only the Worker of the current Future is
\* supervised, and at most one request is past the check, with that Future done.
Supervised ==
    ~overlap =>
        /\ \A w \in Workers : monitor[w] \in {"watch", "boundary", "closing"} => w = future
        /\ \A r \in Requests : resuming[r] = "passed" =>
              FutureDone /\ \A q \in Requests : resuming[q] = "passed" => q = r

\* A process that is alive is supervised or was left behind by an API process.
Watched ==
    \A w \in Workers : worker[w] \in Alive => monitor[w] \in {"watch", "boundary", "lost"}

Starter(w) == worker[w] \in {"claimed", "clear"}

\* Without contention one Worker at a time is inside claim_worker; the file it
\* has created is its own, and what it is about to unlink is no starter's.
Claims ==
    ~contended =>
        /\ \A v, w \in Workers : Claiming(v) /\ Claiming(w) => v = w
        /\ \A w \in Workers : worker[w] = "created" => lease = w /\ ~written
        /\ \A v, w \in Workers : worker[w] = "takeover" => ~Starter(v)
        /\ \A w \in Workers : Starter(w) => lease = w /\ written

\* The inductive invariant.
Inv == TypeOK /\ Supervised /\ Watched /\ Claims

LEMMA FreshWorker == \A S : S # {} => Fresh(S) \in S
BY DEF Fresh

LEMMA InitInv == Init => Inv
<1> SUFFICES ASSUME Init PROVE Inv
  OBVIOUS
<1>1. Fresh(Workers) \in Workers
  BY FreshWorker, LifecycleAssumption
<1>2. TypeOK
  BY <1>1 DEF Init, TypeOK, Terminal, Alive
<1>3. Supervised
  BY <1>1 DEF Init, Supervised
<1>4. Watched
  BY <1>1 DEF Init, Watched, Alive
<1>5. Claims
  BY <1>1 DEF Init, Claims, Claiming, Starter
<1> QED
  BY <1>2, <1>3, <1>4, <1>5 DEF Inv

\* Steps that leave the Futures, the requests, the monitors and the files alone
\* except for ending a process keep the three parts of the invariant.
LEMMA EndingKeeps ==
  ASSUME Inv, TypeOK',
         UNCHANGED <<leaseVars, future, resuming, overlap, monitor>>,
         \A v \in Workers : worker'[v] = worker[v] \/ worker'[v] \notin Alive
  PROVE  Inv'
<1>1. Supervised'
  BY DEF Inv, Supervised, FutureDone
<1>2. Watched'
  BY DEF Inv, Watched
<1>3. Claims'
  BY DEF Inv, Claims, Claiming, Starter, Alive, leaseVars
<1> QED
  BY <1>1, <1>2, <1>3 DEF Inv

\* A step of a Worker process that touches its own state and the files alone.
LEMMA WorkerType ==
  ASSUME TypeOK, worker' \in [Workers -> Alive \cup {"none", "queued", "exited"}],
         trace' \in Terminal \cup {"running", "waiting"}, control' \in {"none", "cancel", "stall"},
         lease' \in Workers \cup {NoWorker}, written' \in BOOLEAN, contended' \in BOOLEAN,
         UNCHANGED <<monitor, stalled, fin, apiVars, boundVars, asked>>
  PROVE  TypeOK'
BY DEF TypeOK, apiVars, boundVars

\* What a finalizer decides is an outcome it may write.
LEMMA FinalizerType ==
  ASSUME TypeOK, NEW f \in Finalizers, NEW outcome \in {"failed", "cancelled"},
         BeginFinalize(f, outcome)
  PROVE  fin' \in [Finalizers -> {"none", "failed", "cancelled"}]
BY DEF TypeOK, BeginFinalize

LEMMA FinalizerNames ==
  /\ \A w \in Workers : <<w, "monitor">> \in Finalizers /\ <<w, "worker">> \in Finalizers
  /\ <<NoWorker, "cancel">> \in Finalizers
BY DEF Finalizers

\* _stop_process only ends a process.
LEMMA StoppedWorker ==
  ASSUME TypeOK, NEW w \in Workers, Stopped(w)
  PROVE  /\ worker' \in [Workers -> Alive \cup {"none", "queued", "exited"}]
         /\ worker'[w] \notin Alive
         /\ \A v \in Workers : worker'[v] = worker[v] \/ (v = w /\ worker'[v] = "exited")
<1>1. "exited" \notin Alive
  BY DEF Alive
<1>2. CASE worker[w] \in Alive
  <2>1. worker' = [worker EXCEPT ![w] = "exited"]
    BY <1>2 DEF Stopped
  <2> QED
    BY <1>1, <2>1 DEF TypeOK
<1>3. CASE worker[w] \notin Alive
  <2>1. worker' = worker
    BY <1>3 DEF Stopped
  <2> QED
    BY <1>3, <2>1 DEF TypeOK
<1> QED
  BY <1>2, <1>3

\* Nothing the supervision is about changes.
LEMMA SupervisedSame ==
  ASSUME Supervised, UNCHANGED <<monitor, future, resuming, overlap>>
  PROVE  Supervised'
BY DEF Supervised, FutureDone

\* No Worker goes on claiming or starting, and the lease is not touched.
LEMMA ClaimsSame ==
  ASSUME Claims, UNCHANGED leaseVars,
         \A v \in Workers : \/ worker'[v] = worker[v]
                            \/ worker'[v] \notin {"found", "takeover", "created",
                                                "claimed", "clear"}
  PROVE  Claims'
BY DEF Claims, Claiming, Starter, leaseVars

\* release_worker by a Worker that has done with its start.
LEMMA ReleaseKeepsClaims ==
  ASSUME TypeOK, Claims, NEW w \in Workers, Released(w),
         \A v \in Workers \ {w} : worker'[v] = worker[v],
         worker'[w] \notin {"found", "takeover", "created", "claimed", "clear"}
  PROVE  Claims'
<1>1. CASE lease = w /\ written
  BY <1>1, LifecycleAssumption DEF Released, Claims, Claiming, Starter, TypeOK
<1>2. CASE ~(lease = w /\ written)
  <2>1. UNCHANGED leaseVars
    BY <1>2 DEF Released, leaseVars
  <2> QED
    BY <2>1, ClaimsSame
<1> QED
  BY <1>1, <1>2

\* The steps of claim_worker.
LEMMA ClaimKeeps ==
  ASSUME Inv, NEW w \in Workers,
         \/ CreateLease(w) \/ FindLease(w) \/ ReadLease(w)
         \/ UnlinkLease(w) \/ WriteLease(w)
  PROVE  Inv'
<1> USE DEF apiVars, boundVars, InClaim
<1>1. UNCHANGED <<monitor, future, resuming, overlap>>
  BY DEF CreateLease, FindLease, ReadLease, UnlinkLease, WriteLease
<1>2. Supervised'
  BY <1>1, SupervisedSame DEF Inv
<1>3. CASE CreateLease(w)
  <2>1. TypeOK'
    BY <1>3 DEF CreateLease, EntersClaim, Moves, Inv, TypeOK, Alive
  <2>2. Watched'
    BY <1>1, <1>3 DEF CreateLease, Moves, Inv, TypeOK, Watched, Alive
  <2>3. Claims'
    BY <1>3, LifecycleAssumption
       DEF CreateLease, EntersClaim, Moves, Inv, TypeOK, Claims, Claiming, Starter
  <2> QED
    BY <1>2, <2>1, <2>2, <2>3 DEF Inv
<1>4. CASE FindLease(w)
  <2>1. TypeOK'
    BY <1>4 DEF FindLease, EntersClaim, Moves, Inv, TypeOK, Alive
  <2>2. Watched'
    BY <1>1, <1>4 DEF FindLease, Moves, Inv, TypeOK, Watched, Alive
  <2>3. Claims'
    <3>1. ~contended' => ~contended /\ \A v \in Workers \ {w} : ~Claiming(v)
      BY <1>4 DEF FindLease, EntersClaim
    <3>2. /\ UNCHANGED <<lease, written>>
          /\ worker'[w] = "found" /\ \A v \in Workers \ {w} : worker'[v] = worker[v]
      BY <1>4 DEF FindLease, Moves, Inv, TypeOK
    <3> QED
      BY <3>1, <3>2 DEF Inv, Claims, Claiming, Starter
  <2> QED
    BY <1>2, <2>1, <2>2, <2>3 DEF Inv
<1>5. CASE ReadLease(w)
  <2>1. TypeOK'
    BY <1>5 DEF ReadLease, leaseVars, Moves, Inv, TypeOK, Alive
  <2>2. Watched'
    BY <1>1, <1>5 DEF ReadLease, Moves, Inv, TypeOK, Watched, Alive
  <2>3. Claims'
    <3>1. CASE LeaseHeld
      BY <1>5, <3>1, ClaimsSame DEF ReadLease, Moves, Inv, TypeOK
    <3>2. CASE ~LeaseHeld
      <4>1. ~contended => \A v \in Workers : ~Starter(v)
        BY <3>2, LifecycleAssumption DEF LeaseHeld, Inv, TypeOK, Claims, Starter, Alive
      <4> QED
        BY <1>5, <3>2, <4>1
           DEF ReadLease, leaseVars, Moves, Inv, TypeOK, Claims, Claiming, Starter
    <3> QED
      BY <3>1, <3>2
  <2> QED
    BY <1>2, <2>1, <2>2, <2>3 DEF Inv
<1>6. CASE UnlinkLease(w)
  <2>1. TypeOK'
    <3>1. worker' \in [Workers -> Alive \cup {"none", "queued", "exited"}]
      BY <1>6 DEF UnlinkLease, Moves, Inv, TypeOK, Alive
    <3>2. /\ lease' = NoWorker /\ written' = FALSE /\ contended' = contended
          /\ UNCHANGED <<trace, control, monitor, stalled, fin, apiVars, boundVars, asked>>
      BY <1>6 DEF UnlinkLease
    <3>3. TypeOK /\ trace' = trace /\ control' = control
      BY <3>2 DEF Inv
    <3>4. /\ trace' \in Terminal \cup {"running", "waiting"}
          /\ control' \in {"none", "cancel", "stall"} /\ contended' \in BOOLEAN
      BY <3>2, <3>3 DEF TypeOK
    <3> QED
      BY <3>1, <3>2, <3>3, <3>4, WorkerType
  <2>2. Watched'
    BY <1>1, <1>6 DEF UnlinkLease, Moves, Inv, TypeOK, Watched, Alive
  <2>3. Claims'
    BY <1>6 DEF UnlinkLease, Moves, Inv, TypeOK, Claims, Claiming, Starter
  <2> QED
    BY <1>2, <2>1, <2>2, <2>3 DEF Inv
<1>7. CASE WriteLease(w)
  <2>1. TypeOK'
    BY <1>7 DEF WriteLease, Moves, Inv, TypeOK, Alive
  <2>2. Watched'
    BY <1>1, <1>7 DEF WriteLease, Moves, Inv, TypeOK, Watched, Alive
  <2>3. Claims'
    <3>1. /\ UNCHANGED <<lease, contended>>
          /\ written' = (written \/ lease = w)
          /\ worker[w] = "created" /\ worker'[w] = "claimed"
          /\ \A v \in Workers \ {w} : worker'[v] = worker[v]
      BY <1>7 DEF WriteLease, Moves, Inv, TypeOK
    <3> QED
      BY <3>1 DEF Inv, Claims, Claiming, Starter
  <2> QED
    BY <1>2, <2>1, <2>2, <2>3 DEF Inv
<1> QED
  BY <1>3, <1>4, <1>5, <1>6, <1>7

\* The steps of a Worker process.
LEMMA WorkerKeeps ==
  ASSUME Inv, NEW w \in Workers, WorkerStep(w)
  PROVE  Inv'
<1> USE DEF fileVars, apiVars, boundVars
<1>1. CASE StartProcess(w)
  <2>1. TypeOK'
    BY <1>1 DEF StartProcess, leaseVars, Moves, Inv, TypeOK, Alive
  <2>2. Supervised'
    BY <1>1, SupervisedSame DEF StartProcess, Inv
  <2>3. Watched'
    BY <1>1 DEF StartProcess, Moves, Inv, TypeOK, Watched, Alive
  <2>4. Claims'
    BY <1>1, ClaimsSame DEF StartProcess, Moves, Inv, TypeOK
  <2> QED
    BY <2>1, <2>2, <2>3, <2>4 DEF Inv
<1>2. CASE CheckCancel(w)
  <2>1. TypeOK'
    <3>1. worker' \in [Workers -> Alive \cup {"none", "queued", "exited"}]
      BY <1>2 DEF CheckCancel, Moves, Inv, TypeOK, Alive
    <3>2. trace' \in Terminal \cup {"running", "waiting"}
      BY <1>2 DEF CheckCancel, Inv, TypeOK, Terminal
    <3>3. lease' \in Workers \cup {NoWorker} /\ written' \in BOOLEAN /\ contended' \in BOOLEAN
      BY <1>2 DEF CheckCancel, Released, leaseVars, Inv, TypeOK
    <3> QED
      BY <1>2, <3>1, <3>2, <3>3 DEF CheckCancel, Inv, TypeOK
  <2>2. Supervised'
    BY <1>2, SupervisedSame DEF CheckCancel, Inv
  <2>3. Watched'
    BY <1>2 DEF CheckCancel, Moves, Inv, TypeOK, Watched, Alive
  <2>4. Claims'
    <3>1. CASE control = "cancel"
      BY <1>2, <3>1, ReleaseKeepsClaims DEF CheckCancel, Moves, Inv, TypeOK
    <3>2. CASE control # "cancel"
      BY <1>2, <3>2 DEF CheckCancel, leaseVars, Moves, Inv, TypeOK, Claims, Claiming, Starter
    <3> QED
      BY <3>1, <3>2
  <2> QED
    BY <2>1, <2>2, <2>3, <2>4 DEF Inv
<1>3. CASE ClearControl(w)
  <2>1. TypeOK'
    <3>1. worker' \in [Workers -> Alive \cup {"none", "queued", "exited"}]
      BY <1>3 DEF ClearControl, Moves, Inv, TypeOK, Alive
    <3>2. /\ lease' \in Workers \cup {NoWorker}
          /\ written' \in BOOLEAN /\ contended' \in BOOLEAN
      BY <1>3 DEF ClearControl, Released, Inv, TypeOK
    <3>3. /\ trace' \in Terminal \cup {"running", "waiting"}
          /\ control' \in {"none", "cancel", "stall"}
      BY <1>3 DEF ClearControl, Inv, TypeOK
    <3> QED
      BY <1>3, <3>1, <3>2, <3>3, WorkerType DEF ClearControl, Inv
  <2>2. Supervised'
    BY <1>3, SupervisedSame DEF ClearControl, Inv
  <2>3. Watched'
    BY <1>3 DEF ClearControl, Moves, Inv, TypeOK, Watched, Alive
  <2>4. Claims'
    BY <1>3, ReleaseKeepsClaims DEF ClearControl, Moves, Inv, TypeOK
  <2> QED
    BY <2>1, <2>2, <2>3, <2>4 DEF Inv
<1>4. CASE Finish(w)
  <2>1. TypeOK'
    BY <1>4 DEF Finish, leaseVars, Moves, Inv, TypeOK, Alive, Terminal
  <2>2. Supervised'
    BY <1>4, SupervisedSame DEF Finish, Inv
  <2>3. Watched'
    BY <1>4 DEF Finish, Moves, Inv, TypeOK, Watched, Alive
  <2>4. Claims'
    BY <1>4, ClaimsSame DEF Finish, Moves, Inv, TypeOK
  <2> QED
    BY <2>1, <2>2, <2>3, <2>4 DEF Inv
<1>5. CASE Raise(w)
  <2>1. fin' \in [Finalizers -> {"none", "failed", "cancelled"}]
    BY <1>5, FinalizerType, FinalizerNames DEF Raise, Inv
  <2>2. TypeOK'
    BY <1>5, <2>1 DEF Raise, leaseVars, Inv, TypeOK, Alive
  <2>3. Supervised'
    BY <1>5, SupervisedSame DEF Raise, Inv
  <2>4. Watched'
    BY <1>5 DEF Raise, Inv, TypeOK, Watched, Alive
  <2>5. Claims'
    BY <1>5, ClaimsSame DEF Raise, Inv, TypeOK
  <2> QED
    BY <2>2, <2>3, <2>4, <2>5 DEF Inv
<1>6. CASE Exit(w)
  <2>1. TypeOK'
    <3>1. worker' \in [Workers -> Alive \cup {"none", "queued", "exited"}]
      BY <1>6 DEF Exit, Inv, TypeOK
    <3>2. /\ lease' \in Workers \cup {NoWorker}
          /\ written' \in BOOLEAN /\ contended' \in BOOLEAN
      BY <1>6 DEF Exit, Released, Inv, TypeOK
    <3>3. /\ trace' \in Terminal \cup {"running", "waiting"}
          /\ control' \in {"none", "cancel", "stall"}
      BY <1>6 DEF Exit, Inv, TypeOK
    <3> QED
      BY <1>6, <3>1, <3>2, <3>3, WorkerType DEF Exit, Inv
  <2>2. Supervised'
    BY <1>6, SupervisedSame DEF Exit, Inv
  <2>3. Watched'
    BY <1>6 DEF Exit, Inv, TypeOK, Watched, Alive
  <2>4. Claims'
    BY <1>6, ReleaseKeepsClaims DEF Exit, Inv, TypeOK
  <2> QED
    BY <2>1, <2>2, <2>3, <2>4 DEF Inv
<1>7. CASE Die(w)
  <2>1. TypeOK'
    <3>1. worker' \in [Workers -> Alive \cup {"none", "queued", "exited"}]
      BY <1>7 DEF Die, Inv, TypeOK
    <3>2. fin' \in [Finalizers -> {"none", "failed", "cancelled"}]
      BY <1>7, FinalizerNames DEF Die, Inv, TypeOK
    <3>3. crashes' \in Nat
      BY <1>7 DEF Die, Inv, TypeOK
    <3> QED
      BY <1>7, <3>1, <3>2, <3>3 DEF Die, leaseVars, Inv, TypeOK
  <2>2. \A v \in Workers : worker'[v] = worker[v] \/ worker'[v] \notin Alive
    BY <1>7 DEF Die, Inv, TypeOK, Alive
  <2> QED
    BY <1>7, <2>1, <2>2, EndingKeeps DEF Die
<1> QED
  BY <1>1, <1>2, <1>3, <1>4, <1>5, <1>6, <1>7, ClaimKeeps DEF WorkerStep

\* A monitor goes on; a Future that is done stays done.
LEMMA MonitorSupervised ==
  ASSUME TypeOK, Supervised, NEW w \in Workers, NEW to \in {"boundary", "closing", "done"},
         monitor[w] \in {"watch", "boundary", "closing"},
         monitor' = [monitor EXCEPT ![w] = to],
         UNCHANGED <<future, resuming, overlap>>
  PROVE  Supervised'
<1>1. FutureDone => FutureDone'
  BY DEF FutureDone, TypeOK
<1> QED
  BY <1>1 DEF Supervised, TypeOK

\* A monitor that stops its Worker and closes the Trace.
LEMMA StopKeeps ==
  ASSUME Inv, NEW w \in Workers, NEW outcome \in {"failed", "cancelled"},
         Watching(w), StopThenFinalize(w, outcome)
  PROVE  Inv'
<1> USE DEF fileVars, apiVars, boundVars, StopThenFinalize
<1>1. /\ worker' \in [Workers -> Alive \cup {"none", "queued", "exited"}]
      /\ worker'[w] \notin Alive
      /\ \A v \in Workers : worker'[v] = worker[v] \/ (v = w /\ worker'[v] = "exited")
  BY StoppedWorker DEF Inv
<1>2. TypeOK'
  <2>1. fin' \in [Finalizers -> {"none", "failed", "cancelled"}]
    BY FinalizerNames DEF Inv, TypeOK
  <2>2. monitor' \in [Workers -> {"none", "watch", "boundary", "closing", "done", "lost"}]
    BY DEF Inv, TypeOK
  <2> QED
    BY <1>1, <2>1, <2>2 DEF Inv, TypeOK, leaseVars
<1>3. Supervised'
  BY MonitorSupervised DEF Inv, Watching
<1>4. Watched'
  BY <1>1 DEF Inv, TypeOK, Watched
<1>5. Claims'
  BY <1>1, ClaimsSame DEF Inv
<1> QED
  BY <1>2, <1>3, <1>4, <1>5 DEF Inv

\* The steps of a monitor.
LEMMA MonitorKeeps ==
  ASSUME Inv, NEW w \in Workers, MonitorStep(w)
  PROVE  Inv'
<1> USE DEF fileVars, apiVars, boundVars
<1>1. CASE MonitorStops(w)
  <2>1. CASE SeesCancel(w) \/ StallExpires(w) \/ TimesOut(w)
    <3>1. /\ Watching(w)
          /\ \E outcome \in {"failed", "cancelled"} : StopThenFinalize(w, outcome)
      BY <2>1 DEF SeesCancel, StallExpires, TimesOut
    <3> QED
      BY <3>1, StopKeeps
  <2>2. CASE TimesOutStalled(w)
    <3>1. fin' \in [Finalizers -> {"none", "failed", "cancelled"}]
      BY <2>2, FinalizerType, FinalizerNames DEF TimesOutStalled, Inv
    <3>2. TypeOK'
      BY <2>2, <3>1 DEF TimesOutStalled, leaseVars, Inv, TypeOK
    <3>3. Supervised'
      BY <2>2, MonitorSupervised DEF TimesOutStalled, Watching, Inv
    <3>4. Watched'
      BY <2>2 DEF TimesOutStalled, Inv, TypeOK, Watched
    <3>5. Claims'
      BY <2>2, ClaimsSame DEF TimesOutStalled, Inv
    <3> QED
      BY <3>2, <3>3, <3>4, <3>5 DEF Inv
  <2> QED
    BY <1>1, <2>1, <2>2 DEF MonitorStops
<1>2. CASE StopAfterBoundary(w)
  <2>1. /\ worker' \in [Workers -> Alive \cup {"none", "queued", "exited"}]
        /\ worker'[w] \notin Alive
        /\ \A v \in Workers : worker'[v] = worker[v] \/ (v = w /\ worker'[v] = "exited")
    BY <1>2, StoppedWorker DEF Inv, StopAfterBoundary
  <2>2. TypeOK'
    <3>1. fin' \in [Finalizers -> {"none", "failed", "cancelled"}]
      BY <1>2, FinalizerNames DEF StopAfterBoundary, Inv, TypeOK
    <3>2. monitor' \in [Workers -> {"none", "watch", "boundary", "closing", "done", "lost"}]
      BY <1>2 DEF StopAfterBoundary, Inv, TypeOK
    <3> QED
      BY <1>2, <2>1, <3>1, <3>2 DEF StopAfterBoundary, leaseVars, Inv, TypeOK
  <2>3. Supervised'
    BY <1>2, MonitorSupervised DEF StopAfterBoundary, Inv
  <2>4. Watched'
    BY <1>2, <2>1 DEF StopAfterBoundary, Inv, TypeOK, Watched
  <2>5. Claims'
    BY <1>2, <2>1, ClaimsSame DEF StopAfterBoundary, Inv
  <2> QED
    BY <2>2, <2>3, <2>4, <2>5 DEF Inv
<1>3. CASE SeesExit(w)
  <2>1. fin' \in [Finalizers -> {"none", "failed", "cancelled"}]
    BY <1>3, FinalizerType, FinalizerNames DEF SeesExit, Inv, TypeOK
  <2>2. TypeOK'
    BY <1>3, <2>1 DEF SeesExit, leaseVars, Inv, TypeOK
  <2>3. Supervised'
    BY <1>3, MonitorSupervised DEF SeesExit, Inv
  <2>4. Watched'
    BY <1>3 DEF SeesExit, Inv, TypeOK, Watched, Alive
  <2>5. Claims'
    BY <1>3, ClaimsSame DEF SeesExit, Inv
  <2> QED
    BY <2>2, <2>3, <2>4, <2>5 DEF Inv
<1>4. CASE Return(w)
  <2>1. TypeOK'
    BY <1>4 DEF Return, leaseVars, Inv, TypeOK
  <2>2. Supervised'
    <3>1. /\ monitor[w] \in {"watch", "boundary", "closing"}
          /\ monitor' = [monitor EXCEPT ![w] = "done"]
          /\ UNCHANGED <<future, resuming, overlap>>
      BY <1>4 DEF Return
    <3> QED
      BY <3>1, MonitorSupervised DEF Inv
  <2>3. Watched'
    BY <1>4 DEF Return, Inv, TypeOK, Watched
  <2>4. Claims'
    BY <1>4, ClaimsSame DEF Return, Inv
  <2> QED
    BY <2>1, <2>2, <2>3, <2>4 DEF Inv
<1>5. CASE SuspectStall(w) \/ StallRecovers(w)
  <2>1. TypeOK'
    BY <1>5 DEF SuspectStall, StallRecovers, leaseVars, Inv, TypeOK
  <2>2. UNCHANGED <<leaseVars, future, resuming, overlap, monitor, worker>>
    BY <1>5 DEF SuspectStall, StallRecovers
  <2> QED
    BY <2>1, <2>2, EndingKeeps
<1> QED
  BY <1>1, <1>2, <1>3, <1>4, <1>5 DEF MonitorStep, MonitorCloses

\* A request to resume.
LEMMA ResumeKeeps ==
  ASSUME Inv, NEW r \in Requests, Admit(r) \/ ResumeStep(r)
  PROVE  Inv'
<1> USE DEF fileVars, boundVars, Requested
<1>1. CASE Admit(r) \/ MarkRunning(r)
  <2>1. TypeOK'
    <3>1. CASE Admit(r)
      BY <3>1 DEF Admit, leaseVars, Inv, TypeOK
    <3>2. CASE MarkRunning(r)
      BY <3>2 DEF MarkRunning, leaseVars, Inv, TypeOK
    <3> QED
      BY <1>1, <3>1, <3>2
  <2>2. Supervised'
    <3>1. \A q \in Requests : resuming'[q] = "passed" => resuming[q] = "passed"
      BY <1>1 DEF Admit, MarkRunning, Inv, TypeOK
    <3>2. UNCHANGED <<monitor, future, overlap>>
      BY <1>1 DEF Admit, MarkRunning
    <3> QED
      BY <3>1, <3>2 DEF Inv, Supervised, FutureDone
  <2>3. Watched' /\ Claims'
    BY <1>1, ClaimsSame DEF Admit, MarkRunning, Inv, Watched
  <2> QED
    BY <2>1, <2>2, <2>3 DEF Inv
<1>2. CASE Check(r)
  <2>1. TypeOK'
    BY <1>2 DEF Check, leaseVars, Inv, TypeOK
  <2>2. Supervised'
    <3>1. UNCHANGED <<monitor, future>> /\ (FutureDone <=> FutureDone')
      BY <1>2 DEF Check, FutureDone
    <3>2. CASE FutureDone
      BY <1>2, <3>1, <3>2 DEF Check, Inv, TypeOK, Supervised
    <3>3. CASE ~FutureDone
      BY <1>2, <3>1, <3>3 DEF Check, Inv, TypeOK, Supervised
    <3> QED
      BY <3>2, <3>3
  <2>3. Watched' /\ Claims'
    BY <1>2, ClaimsSame DEF Check, Inv, Watched
  <2> QED
    BY <2>1, <2>2, <2>3 DEF Inv
<1>3. CASE Submit(r)
  <2>1. future' \in Workers /\ worker[future'] = "none"
    BY <1>3, FreshWorker DEF Submit, Unused
  <2>2. TypeOK'
    <3>1. worker' \in [Workers -> Alive \cup {"none", "queued", "exited"}]
      BY <1>3, <2>1 DEF Submit, Inv, TypeOK
    <3>2. monitor' \in [Workers -> {"none", "watch", "boundary", "closing", "done", "lost"}]
      BY <1>3, <2>1 DEF Submit, Inv, TypeOK
    <3>3. resuming' \in [Requests -> {"idle", "admitted", "marked", "passed"}]
      BY <1>3 DEF Submit, Requested, Inv, TypeOK
    <3>4. /\ asked' = FALSE
          /\ UNCHANGED <<fileVars, stalled, fin, process, cancelling, overlap, boundVars>>
      BY <1>3 DEF Submit
    <3> QED
      BY <2>1, <3>1, <3>2, <3>3, <3>4 DEF leaseVars, Inv, TypeOK
  <2>3. Supervised'
    <3>1. ~overlap => \A w \in Workers : monitor[w] \notin {"watch", "boundary", "closing"}
      BY <1>3, LifecycleAssumption DEF Submit, FutureDone, Inv, Supervised
    <3>2. ~overlap => \A q \in Requests : resuming'[q] # "passed"
      BY <1>3 DEF Submit, Inv, TypeOK, Supervised
    <3>3. /\ overlap' = overlap
          /\ \A w \in Workers : w = future' \/ monitor'[w] = monitor[w]
      BY <1>3, <2>1 DEF Submit, Inv, TypeOK
    <3> QED
      BY <3>1, <3>2, <3>3 DEF Supervised
  <2>4. Watched'
    BY <1>3, <2>1 DEF Submit, Inv, TypeOK, Watched, Alive
  <2>5. Claims'
    BY <1>3, <2>1, ClaimsSame DEF Submit, Inv, TypeOK
  <2> QED
    BY <2>2, <2>3, <2>4, <2>5 DEF Inv
<1> QED
  BY <1>1, <1>2, <1>3 DEF ResumeStep

\* The cancellation, and the end of an API process.
LEMMA ApiKeeps ==
  ASSUME Inv,
         \/ CancelRequest \/ CancelStops \/ CancelFinalizes \/ CancelReturns
         \/ ApiCrash
  PROVE  Inv'
<1> USE DEF fileVars, boundVars
<1>1. CASE CancelRequest \/ CancelReturns
  <2>1. TypeOK'
    BY <1>1 DEF CancelRequest, CancelReturns, leaseVars, Inv, TypeOK
  <2>2. UNCHANGED <<leaseVars, future, resuming, overlap, monitor, worker>>
    BY <1>1 DEF CancelRequest, CancelReturns
  <2> QED
    BY <2>1, <2>2, EndingKeeps
<1>2. CASE CancelStops
  <2>1. CASE process = NoWorker
    <3>1. TypeOK' /\ UNCHANGED <<leaseVars, future, resuming, overlap, monitor, worker>>
      BY <1>2, <2>1 DEF CancelStops, leaseVars, Inv, TypeOK
    <3> QED
      BY <3>1, EndingKeeps
  <2>2. CASE process # NoWorker
    <3>1. process \in Workers /\ Stopped(process)
      BY <1>2, <2>2 DEF CancelStops, Inv, TypeOK
    <3>2. /\ worker' \in [Workers -> Alive \cup {"none", "queued", "exited"}]
          /\ \A v \in Workers : worker'[v] = worker[v] \/ worker'[v] = "exited"
      BY <3>1, StoppedWorker DEF Inv
    <3>3. TypeOK'
      BY <1>2, <2>2, <3>1, <3>2, FinalizerNames DEF CancelStops, leaseVars, Inv, TypeOK
    <3>4. "exited" \notin Alive
      BY DEF Alive
    <3> QED
      BY <1>2, <3>2, <3>3, <3>4, EndingKeeps DEF CancelStops
  <2> QED
    BY <2>1, <2>2
<1>3. CASE CancelFinalizes
  <2>1. fin' \in [Finalizers -> {"none", "failed", "cancelled"}]
    BY <1>3, FinalizerType, FinalizerNames DEF CancelFinalizes, Inv
  <2>2. TypeOK'
    BY <1>3, <2>1 DEF CancelFinalizes, leaseVars, Inv, TypeOK
  <2> QED
    BY <1>3, <2>2, EndingKeeps DEF CancelFinalizes
<1>4. CASE ApiCrash
  <2>1. TypeOK'
    <3>1. worker' \in [Workers -> Alive \cup {"none", "queued", "exited"}]
      BY <1>4 DEF ApiCrash, Inv, TypeOK
    <3>2. monitor' \in [Workers -> {"none", "watch", "boundary", "closing", "done", "lost"}]
      BY <1>4 DEF ApiCrash, Inv, TypeOK
    <3>3. fin' \in [Finalizers -> {"none", "failed", "cancelled"}]
      BY <1>4 DEF ApiCrash, Inv, TypeOK
    <3>4. resuming' \in [Requests -> {"idle", "admitted", "marked", "passed"}]
      BY <1>4 DEF ApiCrash
    <3>5. restarts' \in Nat
      BY <1>4 DEF ApiCrash, Inv, TypeOK
    <3> QED
      BY <1>4, <3>1, <3>2, <3>3, <3>4, <3>5 DEF ApiCrash, leaseVars, Inv, TypeOK
  <2>2. Supervised'
    BY <1>4 DEF ApiCrash, Inv, TypeOK, Supervised
  <2>3. Watched'
    BY <1>4 DEF ApiCrash, Inv, TypeOK, Watched, Alive
  <2>4. Claims'
    BY <1>4, ClaimsSame DEF ApiCrash, Inv, TypeOK
  <2> QED
    BY <2>1, <2>2, <2>3, <2>4 DEF Inv
<1> QED
  BY <1>1, <1>2, <1>3, <1>4

LEMMA NextInv == Inv /\ [Next]_vars => Inv'
<1> SUFFICES ASSUME Inv, [Next]_vars PROVE Inv'
  OBVIOUS
<1>1. CASE UNCHANGED vars
  <2>1. TypeOK'
    BY <1>1 DEF vars, fileVars, leaseVars, apiVars, boundVars, Inv, TypeOK
  <2> QED
    BY <1>1, <2>1, EndingKeeps DEF vars, fileVars, apiVars
<1>2. ASSUME NEW f \in Finalizers, EndFinalize(f) PROVE Inv'
  <2>1. TypeOK'
    BY <1>2 DEF EndFinalize, leaseVars, Inv, TypeOK, Terminal, apiVars, boundVars
  <2> QED
    BY <1>2, <2>1, EndingKeeps DEF EndFinalize, apiVars
<1> QED
  BY <1>1, <1>2, WorkerKeeps, MonitorKeeps, ResumeKeeps, ApiKeeps DEF Next

\* The files, the processes and the requests are well typed.
THEOREM LifecycleTypeCorrect == Spec => []TypeOK
<1>1. Inv => TypeOK
  BY DEF Inv
<1> QED
  BY InitInv, NextInv, <1>1, PTL DEF Spec

\* Claims that do not overlap serialise the start of Workers, over any number of
\* crashes, resumes and restarts of the API process.
THEOREM StartsSerialised == Spec => []OneStarter
<1>1. Inv => OneStarter
  BY DEF Inv, Claims, Starter, OneStarter
<1> QED
  BY InitInv, NextInv, <1>1, PTL DEF Spec

\* The Workers of one API process exclude each other, by the Future alone, as
\* long as no two submits pass its check together.
THEOREM WorkersExclusive == Spec => []OneOwnWorker
<1>1. Inv => OneOwnWorker
  <2> SUFFICES ASSUME Inv, ~overlap
               PROVE  Cardinality({w \in Workers : worker[w] = "run" /\ monitor[w] # "lost"}) <= 1
    BY DEF OneOwnWorker
  <2> DEFINE running == {w \in Workers : worker[w] = "run" /\ monitor[w] # "lost"}
  <2>1. running \subseteq {future}
    BY DEF Inv, Supervised, Watched, Alive
  <2>2. IsFiniteSet({future}) /\ Cardinality({future}) = 1
    BY FS_Singleton
  <2>3. Cardinality(running) <= 1
    BY <2>1, <2>2, FS_Subset
  <2> QED
    BY <2>3
<1> QED
  BY InitInv, NextInv, <1>1, PTL DEF Spec

\* Together: whatever crashes, resumes and restarts happen, no two Workers bring
\* up the Trace and no two Workers of one API process execute it.
THEOREM ExclusionHolds == Spec => []WorkersExcluded
<1>1. OneStarter /\ OneOwnWorker => WorkersExcluded
  BY DEF WorkersExcluded
<1> QED
  BY <1>1, StartsSerialised, WorkersExclusive, PTL

----------------------------------------------------------------------------
\* The cancellation: NoRunAfterCancel.

\* Nothing an earlier API process or an overlapping submit left behind.
Own == ~overlap /\ \A w \in Workers : monitor[w] # "lost"

\* A Worker that will still look at the control file before it runs.
Starting == {"queued", "boot", "found", "takeover", "created", "claimed"}

\* What cancel() can rely on in each of its phases.  It has a handle of the
\* Worker that is alive; a Worker that is still to look at the control file will
\* find the request there; and once its process was stopped, no Worker is past
\* that look.
Cancels ==
    /\ \A w \in Workers : worker[w] = "queued" => monitor[w] = "watch"
    /\ Own =>
        /\ \A w \in Workers : worker[w] \in Alive => process = w \/ cancelling = "returned"
        /\ asked /\ cancelling # "idle" =>
              \A w \in Workers : worker[w] \in Starting => control = "cancel"
        /\ asked /\ cancelling \in {"close", "closing", "returned"} =>
              \A w \in Workers : worker[w] \notin {"clear", "run"}

\* Only the Worker of the Future is alive or about to be.
LEMMA OnlyFuture ==
  ASSUME Inv, Cancels, Own, NEW w \in Workers, worker[w] \in Alive \cup {"queued"}
  PROVE  w = future
BY DEF Inv, Cancels, Own, Supervised, Watched

\* A step that lets no Worker look at the control file or past it, and touches
\* neither the request nor its handler.
LEMMA CancelsSame ==
  ASSUME Cancels, UNCHANGED <<control, process, cancelling, asked, overlap>>,
         \A w \in Workers : \/ worker'[w] = worker[w]
                            \/ /\ worker'[w] \in Alive \cup {"exited"} => worker[w] \in Alive
                               /\ worker'[w] \notin {"none", "queued", "clear", "run"}
                               /\ worker'[w] \in Starting => worker[w] \in Starting,
         \A w \in Workers : \/ monitor'[w] = monitor[w]
                            \/ worker[w] # "queued" /\ monitor[w] # "lost"
  PROVE  Cancels'
<1>1. Own' => Own
  BY DEF Own
<1>2. \A w \in Workers : worker'[w] = "queued" => monitor'[w] = "watch"
  BY DEF Cancels
<1>3. ASSUME Own' PROVE \A w \in Workers : worker'[w] \in Alive => process' = w \/ cancelling' = "returned"
  BY <1>1, <1>3 DEF Cancels
<1>4. ASSUME Own', asked', cancelling' # "idle"
      PROVE  \A w \in Workers : worker'[w] \in Starting => control' = "cancel"
  BY <1>1, <1>4 DEF Cancels
<1>5. ASSUME Own', asked', cancelling' \in {"close", "closing", "returned"}
      PROVE  \A w \in Workers : worker'[w] \notin {"clear", "run"}
  BY <1>1, <1>5 DEF Cancels
<1> QED
  BY <1>2, <1>3, <1>4, <1>5 DEF Cancels

\* The steps of a Worker.
LEMMA WorkerCancels ==
  ASSUME Inv, Cancels, NEW w \in Workers, WorkerStep(w)
  PROVE  Cancels'
<1> USE DEF fileVars, apiVars, boundVars
<1>0. TypeOK
  BY DEF Inv
<1>1. CASE StartProcess(w)
  <2>1. /\ worker'[w] = "boot" /\ worker[w] = "queued" /\ process' = w
        /\ \A v \in Workers \ {w} : worker'[v] = worker[v]
        /\ UNCHANGED <<control, cancelling, asked, overlap, monitor>>
    BY <1>0, <1>1 DEF StartProcess, Moves, TypeOK
  <2>2. ASSUME Own PROVE \A v \in Workers \ {w} : worker[v] \notin Alive
    BY <2>1, <2>2, OnlyFuture
  <2> QED
    BY <2>1, <2>2 DEF Cancels, Own, Starting
<1>2. CASE CreateLease(w) \/ FindLease(w) \/ ReadLease(w) \/ UnlinkLease(w) \/ WriteLease(w)
  <2>1. /\ UNCHANGED <<control, process, cancelling, asked, overlap, monitor>>
        /\ worker[w] \in Alive
        /\ \A v \in Workers \ {w} : worker'[v] = worker[v]
    BY <1>0, <1>2 DEF CreateLease, FindLease, ReadLease, UnlinkLease, WriteLease, Moves, InClaim,
       Alive, TypeOK
  <2>2. worker[w] \in Starting /\ worker'[w] \in {"boot", "created", "found", "takeover", "claimed", "exited"}
    BY <1>0, <1>2 DEF CreateLease, FindLease, ReadLease, UnlinkLease, WriteLease, Moves, TypeOK,
       Starting
  <2> QED
    BY <2>1, <2>2, CancelsSame
<1>3. CASE CheckCancel(w)
  <2>1. /\ UNCHANGED <<control, process, cancelling, asked, overlap, monitor>>
        /\ worker[w] = "claimed"
        /\ \A v \in Workers \ {w} : worker'[v] = worker[v]
        /\ worker'[w] = IF control = "cancel" THEN "ending" ELSE "clear"
    BY <1>0, <1>3 DEF CheckCancel, Moves, TypeOK
  <2> QED
    BY <2>1 DEF Cancels, Own, Starting, Alive
<1>4. CASE ClearControl(w)
  <2>1. /\ UNCHANGED <<process, cancelling, asked, overlap, monitor>>
        /\ worker[w] = "clear" /\ worker'[w] = "run"
        /\ \A v \in Workers \ {w} : worker'[v] = worker[v]
    BY <1>0, <1>4 DEF ClearControl, Moves, TypeOK
  <2>2. ASSUME Own PROVE \A v \in Workers \ {w} : worker[v] \notin Starting
    BY <2>1, <2>2, OnlyFuture DEF Starting, Alive
  <2> QED
    BY <2>1, <2>2 DEF Cancels, Own, Starting, Alive
<1>5. CASE Finish(w) \/ Raise(w) \/ Exit(w) \/ Die(w)
  <2>1. /\ UNCHANGED <<control, process, cancelling, asked, overlap, monitor>>
        /\ worker[w] \in Alive /\ worker'[w] \in {"ending", "raised", "exited"}
        /\ \A v \in Workers \ {w} : worker'[v] = worker[v]
    BY <1>0, <1>5 DEF Finish, Raise, Exit, Die, Moves, Alive, TypeOK
  <2> QED
    BY <2>1, CancelsSame DEF Starting
<1> QED
  BY <1>1, <1>2, <1>3, <1>4, <1>5 DEF WorkerStep

\* The steps of a monitor.
LEMMA MonitorCancels ==
  ASSUME Inv, Cancels, NEW w \in Workers, MonitorStep(w)
  PROVE  Cancels'
<1> USE DEF fileVars, apiVars, boundVars
<1>0. TypeOK
  BY DEF Inv
<1>1. CASE SeesCancel(w) \/ StallExpires(w) \/ TimesOut(w) \/ StopAfterBoundary(w)
  <2>1. /\ UNCHANGED <<control, process, cancelling, asked, overlap>> /\ Stopped(w)
        /\ monitor[w] \in {"watch", "boundary"}
        /\ monitor[w] = "watch" => worker[w] \in Alive
        /\ monitor' = [monitor EXCEPT ![w] = "closing"]
    BY <1>1 DEF SeesCancel, StallExpires, TimesOut, StopThenFinalize, StopAfterBoundary, Watching
  <2>2. \A v \in Workers : worker'[v] = worker[v] \/ (v = w /\ worker[v] \in Alive /\ worker'[v] = "exited")
    BY <1>0, <2>1 DEF Stopped, TypeOK
  <2>3. worker[w] # "queued"
    BY <2>1 DEF Cancels, Alive
  <2> QED
    BY <1>0, <2>1, <2>2, <2>3, CancelsSame DEF TypeOK, Starting
<1>2. CASE TimesOutStalled(w) \/ SeesExit(w) \/ StallRecovers(w)
  <2>1. /\ UNCHANGED <<control, process, cancelling, asked, overlap, worker>>
        /\ worker[w] # "queued" /\ monitor[w] # "lost"
        /\ \A v \in Workers \ {w} : monitor'[v] = monitor[v]
    BY <1>0, <1>2 DEF TimesOutStalled, SeesExit, StallRecovers, Watching, Alive, TypeOK
  <2> QED
    BY <2>1, CancelsSame
<1>3. CASE SuspectStall(w)
  <2>1. /\ UNCHANGED <<process, cancelling, asked, overlap, monitor, worker>> /\ worker[w] = "run"
    BY <1>3 DEF SuspectStall
  <2>2. ASSUME Own PROVE \A v \in Workers : worker[v] \notin Starting
    BY <2>1, <2>2, OnlyFuture DEF Starting, Alive
  <2> QED
    BY <2>1, <2>2 DEF Cancels, Own
<1>4. CASE Return(w)
  <2>1. /\ UNCHANGED <<control, cancelling, asked, overlap, worker>>
        /\ monitor[w] = "closing" /\ monitor'[w] = "done"
        /\ \A v \in Workers \ {w} : monitor'[v] = monitor[v]
    BY <1>0, <1>4 DEF Return, TypeOK
  <2>2. Own' => Own
    BY <2>1 DEF Own
  <2>3. ASSUME Own PROVE \A v \in Workers : worker[v] \notin Alive
    <3>1. w = future
      BY <2>1, <2>3 DEF Inv, Supervised, Own
    <3>2. worker[w] \notin Alive
      BY <2>1 DEF Inv, Watched
    <3> QED
      BY <2>3, <3>1, <3>2, OnlyFuture
  <2> QED
    BY <2>1, <2>2, <2>3 DEF Cancels
<1> QED
  BY <1>1, <1>2, <1>3, <1>4 DEF MonitorStep, MonitorCloses, MonitorStops

\* The requests, the handler of the cancellation and the end of the API process.
LEMMA ApiCancels ==
  ASSUME Inv, Cancels,
         \/ \E r \in Requests : Admit(r) \/ ResumeStep(r)
         \/ CancelRequest \/ CancelStops \/ CancelFinalizes \/ CancelReturns \/ ApiCrash
  PROVE  Cancels'
<1> USE DEF fileVars, boundVars
<1>0. TypeOK
  BY DEF Inv
<1>1. ASSUME NEW r \in Requests, Admit(r) \/ MarkRunning(r) \/ Check(r) PROVE Cancels'
  <2>1. /\ UNCHANGED <<control, process, cancelling, asked, worker, monitor>>
        /\ overlap => overlap'
    BY <1>0, <1>1 DEF Admit, MarkRunning, Check, TypeOK
  <2> QED
    BY <2>1 DEF Cancels, Own
<1>2. ASSUME NEW r \in Requests, Submit(r) PROVE Cancels'
  <2>1. future' \in Workers /\ worker[future'] = "none"
    BY <1>2, FreshWorker DEF Submit, Unused
  <2>2. /\ ~asked' /\ overlap' = overlap
        /\ worker'[future'] = "queued" /\ monitor'[future'] = "watch"
        /\ \A v \in Workers \ {future'} : worker'[v] = worker[v] /\ monitor'[v] = monitor[v]
    BY <1>0, <1>2, <2>1 DEF Submit, TypeOK
  <2>3. ASSUME Own' PROVE \A v \in Workers : worker'[v] \notin Alive
    <3> SUFFICES ASSUME NEW v \in Workers, worker'[v] \in Alive PROVE FALSE
      OBVIOUS
    <3>1. v # future' /\ worker[v] \in Alive /\ monitor[v] # "lost"
      BY <2>2, <2>3 DEF Own, Alive
    <3>2. monitor[v] \in {"watch", "boundary"}
      BY <3>1 DEF Inv, Watched
    <3>3. v = future /\ FutureDone
      BY <1>2, <2>2, <2>3, <3>2 DEF Inv, Supervised, Own, Submit, Requested
    <3> QED
      BY <3>2, <3>3, LifecycleAssumption DEF FutureDone
  <2> QED
    BY <2>2, <2>3 DEF Cancels
<1>3. CASE CancelRequest
  BY <1>3 DEF CancelRequest, Cancels, Own
<1>4. CASE CancelStops
  <2>1. /\ UNCHANGED <<control, process, asked, overlap, monitor>>
        /\ cancelling = "stop" /\ cancelling' = "close"
    BY <1>4 DEF CancelStops
  <2>2. CASE process = NoWorker
    <3>1. worker' = worker
      BY <1>4, <2>2 DEF CancelStops
    <3>2. Own => \A w \in Workers : worker[w] \notin Alive
      BY <2>1, <2>2, LifecycleAssumption DEF Cancels
    <3> QED
      BY <2>1, <3>1, <3>2 DEF Cancels, Own, Alive
  <2>3. CASE process # NoWorker
    <3>1. process \in Workers /\ Stopped(process)
      BY <1>0, <1>4, <2>3 DEF CancelStops, TypeOK
    <3>2. /\ worker'[process] \notin Alive
          /\ \A v \in Workers : worker'[v] = worker[v] \/ worker'[v] = "exited"
      BY <1>0, <3>1, StoppedWorker
    <3>3. Own => \A w \in Workers : worker'[w] \notin Alive
      BY <2>1, <3>2 DEF Cancels, Alive
    <3> QED
      BY <2>1, <3>2, <3>3 DEF Cancels, Own, Alive, Starting
  <2> QED
    BY <2>2, <2>3
<1>5. CASE CancelFinalizes \/ CancelReturns
  <2>1. /\ UNCHANGED <<control, asked, overlap, monitor, worker>>
        /\ \/ cancelling = "close" /\ cancelling' = "closing" /\ process' = process
           \/ cancelling = "closing" /\ cancelling' = "returned"
    BY <1>5 DEF CancelFinalizes, CancelReturns
  <2> QED
    BY <2>1 DEF Cancels, Own
<1>6. CASE ApiCrash
  <2>1. /\ cancelling' = "idle"
        /\ \A w \in Workers : /\ worker'[w] = IF worker[w] = "queued" THEN "exited" ELSE worker[w]
                              /\ monitor'[w] = IF monitor[w] = "none" THEN "none" ELSE "lost"
    BY <1>6 DEF ApiCrash
  <2>2. ASSUME Own' PROVE \A w \in Workers : worker'[w] \notin Alive
    BY <2>1, <2>2 DEF Own, Inv, Watched, Alive
  <2> QED
    BY <2>1, <2>2 DEF Cancels
<1> QED
  BY <1>1, <1>2, <1>3, <1>4, <1>5, <1>6 DEF ResumeStep

LEMMA CancelsInit == Init => Cancels
<1> SUFFICES ASSUME Init PROVE Cancels
  OBVIOUS
<1>1. Fresh(Workers) \in Workers
  BY FreshWorker, LifecycleAssumption
<1> QED
  BY <1>1 DEF Init, Cancels, Alive

LEMMA CancelsNext == Inv /\ Cancels /\ [Next]_vars => Cancels'
<1> SUFFICES ASSUME Inv, Cancels, [Next]_vars PROVE Cancels'
  OBVIOUS
<1>1. CASE UNCHANGED vars
  BY <1>1 DEF Cancels, Own, vars, fileVars, apiVars
<1>2. ASSUME NEW f \in Finalizers, EndFinalize(f) PROVE Cancels'
  BY <1>2 DEF Cancels, Own, EndFinalize, apiVars
<1> QED
  BY <1>1, <1>2, WorkerCancels, MonitorCancels, ApiCancels DEF Next

\* When cancel() has returned, no Worker submitted before executes the Trace:
\* neither the one it stopped nor one that was still queued or booting, for any
\* number of Workers, requests and faults.
THEOREM CancelIsFinal == Spec => []NoRunAfterCancel
<1>1. Cancels => NoRunAfterCancel
  BY DEF Cancels, Own, NoRunAfterCancel
<1> QED
  BY InitInv, NextInv, CancelsInit, CancelsNext, <1>1, PTL DEF Spec
=============================================================================
