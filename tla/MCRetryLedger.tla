--------------------------- MODULE MCRetryLedger ---------------------------
(* A small instance of the retry ledger: a Worker and the monitor. *)
EXTENDS RetryLedger

\* As many schema retries as an item has altogether, so that the circuit
\* breaker and not the kind budget is what stops an identical failure.
MCKindLimit ==
    [DefaultKindLimit EXCEPT
        !["architecture_schema_validation"] = max_retries_per_work_item]

\* One kind for each way a decision is taken: a retry with a circuit breaker,
\* a watchdog's resume, and a kind without a branch of its own.
MCKinds == {"architecture_schema_validation", "worker_crash", "tool_execution"}
=============================================================================
