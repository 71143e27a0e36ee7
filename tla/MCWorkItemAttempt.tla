-------------------------- MODULE MCWorkItemAttempt --------------------------
(* Every shape of WorkItem under the default retry limits. *)
EXTENDS WorkItemAttempt

\* One kind of Worker abort and one provider error: the others take the same
\* branches with the same limits.
MCKinds == FailureKind \ {"provider_stall", "worker_timeout", "provider_terminal_missing"}

MCLimits == DefaultKindLimit
==============================================================================
