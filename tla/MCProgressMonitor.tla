-------------------------- MODULE MCProgressMonitor --------------------------
EXTENDS ProgressMonitor

CONSTANTS a, b

\* One item may run again, its sibling may not.
OneRetry == [i \in Items |-> IF i = a THEN 2 ELSE 1]
=============================================================================
