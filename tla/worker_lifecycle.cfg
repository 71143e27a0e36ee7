SPECIFICATION FairSpec
CONSTANTS
    Workers = {w1, w2}
    NoWorker = NoWorker
    Requests = {r1, r2}
    MaxResumes = 2
    MaxFaults = 2
INVARIANTS WorkersExcluded NoRunAfterCancel
PROPERTY Settles
CHECK_DEADLOCK FALSE
