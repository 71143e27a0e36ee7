SPECIFICATION Spec
CONSTANTS
    Items = {a, b}
    wi = a
    Kinds <- MCKinds
    Prints = {f}
    NoItem = NoItem
    max_total_retries = 12
    max_retries_per_work_item = 2
    max_retries_by_kind <- MCLimits
    Shapes <- AllShapes
    Checks = {"unit", "web-unit"}
    MaxEvents = 2
    MaxAborts = 1
    MaxRounds = 1

INVARIANT EvidenceOfThisRound
CHECK_DEADLOCK FALSE
