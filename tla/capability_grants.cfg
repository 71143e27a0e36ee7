CONSTANTS
    t1 = t1
    t2 = t2
    a = a
    b = b
    docs = docs
    web = web
    Traces = {t1, t2}
    Items = {a, b}
    Sources = {docs, web}
    work_items <- Plans
    discover <- Declared
    max_retries = 1
    MaxApprovals = 2
    NoItem = NoItem
SPECIFICATION Spec
INVARIANTS OfferedWasApproved
PROPERTIES ApprovalReachesWorker NoSecondWait
