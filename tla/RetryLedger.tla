---------------------------- MODULE RetryLedger ----------------------------
(***************************************************************************)
(* The durable retry ledger of one Trace (app/orchestration/retry.py) and  *)
(* the processes that append recovery decisions to it: GraphRunner threads *)
(* of a Worker, a Worker's own exception fallback, and the API process's   *)
(* monitor.  Every file access is serialised by flock, but a decision is   *)
(* "count the ledger, ask RetryPolicy, append": the counting and the       *)
(* appending take the lock separately.  Inside one process the threads     *)
(* share GraphRunner._retry_lock, so a process has one decision in flight. *)
(***************************************************************************)
EXTENDS RetryPolicy

CONSTANTS
    Procs,       \* processes that may write this Trace's ledger
    MaxRecords   \* bound on the ledger's length, for model checking

ASSUME PartyAssumption ==
    /\ IsFiniteSet(Procs) /\ Procs # {}
    /\ MaxRecords \in Nat

----------------------------------------------------------------------------
VARIABLES
    ledger,    \* retry-ledger.json
    pending    \* per process: the decision taken and not yet appended, or <<>>

ledgerVars == <<ledger, pending>>

LedgerInit ==
    /\ ledger = <<>>
    /\ pending = [p \in Procs |-> <<>>]

\* Reading the counts and choosing.  The three counts are separate reads, but
\* they only grow, so a mixed read decides what one of the two ends would.
Decide(p, rec) ==
    /\ pending[p] = <<>>
    /\ Len(ledger) < MaxRecords
    /\ pending' = [pending EXCEPT ![p] = <<rec>>]
    /\ UNCHANGED ledger

WorkItemDecides(p) ==
    \E i \in Items, k \in Kinds \ ResumeKinds, f \in Prints, ok \in BOOLEAN :
        Decide(p, ItemDecision(ledger, i, k, f, ok))

MonitorDecides(p) ==
    \E r \in Items \cup {NoItem}, k \in Kinds \cap ResumeKinds, f \in Prints,
       active \in SUBSET Items, batchOpen \in BOOLEAN :
        /\ batchOpen => r # NoItem
        /\ Decide(p, MonitorDecision(ledger, r, k, f, active, batchOpen))

BatchBarrierDecides(p) ==
    \E r \in Items, k \in Kinds \ ResumeKinds, f \in Prints, replan \in BOOLEAN :
        Decide(p, BatchDecision(r, k, f, replan))

\* RetryLedger.append: read, append and replace the file under flock.
append(p) ==
    /\ pending[p] # <<>>
    /\ ledger' = Append(ledger, pending[p][1])
    /\ pending' = [pending EXCEPT ![p] = <<>>]

\* The process dies with its decision unwritten.
Crash(p) ==
    /\ pending[p] # <<>>
    /\ pending' = [pending EXCEPT ![p] = <<>>]
    /\ UNCHANGED ledger

LedgerNext ==
    \E p \in Procs :
        \/ WorkItemDecides(p)
        \/ MonitorDecides(p)
        \/ BatchBarrierDecides(p)
        \/ append(p)
        \/ Crash(p)

LedgerSpec == LedgerInit /\ [][LedgerNext]_ledgerVars

----------------------------------------------------------------------------
\* Type invariant of the ledger and of the decisions in flight.
LedgerTypeOK ==
    /\ ledger \in Seq(Record)
    /\ pending \in [Procs -> Seq(Record)]
    /\ \A p \in Procs : Len(pending[p]) <= 1

\* Writers that raced past a limit; with one writer the limits are exact.
Overrun == Cardinality(Procs) - 1

\* RetryLimits.max_total_retries across Workers, restarts and the monitor:
\* the durable budget is exceeded by at most one record per extra writer.
TotalBudget == budget_count(ledger) <= max_total_retries + Overrun

\* RetryLimits.max_retries_per_work_item, whoever charged the item: its own
\* attempts or a watchdog that named it as the root of a dead batch.
ItemBudget ==
    \A i \in Items :
        Cardinality(ChargedFor(ledger, i)) <= max_retries_per_work_item + Overrun

\* RetryLimits.max_retries_by_kind for every item and kind.
KindBudget ==
    \A i \in Items, k \in Kinds :
        budget_count_for_kind(ledger, i, k) <= max_retries_by_kind[k] + Overrun

\* The three durable budgets together, over every interleaving of "count, ask,
\* append" by the Workers and the monitor, and over their crashes: RetryLimits
\* bounds the whole Trace, each item and each kind of failure of an item.
BudgetsKept == TotalBudget /\ ItemBudget /\ KindBudget

\* The retries an item was granted for one schema failure.
SameFailure(l, i, f) ==
    {n \in 1..Len(l) : /\ l[n].action = "retry_item"
                       /\ l[n].kind = "architecture_schema_validation"
                       /\ l[n].root = i /\ l[n].print = f}

\* The schema circuit breaker: an identical architecture schema failure of an
\* item is granted at most one retry per writer, whatever its kind budget is.
CircuitBreaker ==
    \A i \in Items, f \in Prints :
        Cardinality(SameFailure(ledger, i, f)) <= Cardinality(Procs)
=============================================================================
