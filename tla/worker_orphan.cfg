SPECIFICATION Spec
CONSTANTS
    Workers = {w1, w2}
    Requests = {r1}
    NoWorker = NoWorker
    MaxResumes = 1
    MaxFaults = 1
INVARIANT OneWorker
CHECK_DEADLOCK FALSE
