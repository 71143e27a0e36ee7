SPECIFICATION LedgerSpec
CONSTANTS
    Procs = {worker, monitor}
    Items = {a, b}
    Prints = {f}
    NoItem = NoItem
    Kinds <- MCKinds
    max_total_retries = 2
    max_retries_per_work_item = 2
    max_retries_by_kind <- MCKindLimit
    MaxRecords = 3

INVARIANTS BudgetsKept CircuitBreaker
CHECK_DEADLOCK FALSE
