SPECIFICATION FairSpec
CONSTANTS
    m = m
    Producers = {bp, m}
    Blueprint = bp
    Inputs <- MCInputs
    Texts = {x, y, u}
    Unplanned = {u}
    Wordings = {w1, w2}
    NoFile = NoFile
    Torn = Torn
    MaxFaults = 3
    MaxFailures = 1

INVARIANTS FilesBacked OneCandidate
PROPERTIES RevisionsKept Publishes
CHECK_DEADLOCK FALSE
