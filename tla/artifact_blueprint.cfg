SPECIFICATION Spec
CONSTANTS
    m = m
    Producers = {bp, m}
    Blueprint = bp
    Inputs <- MCInputs
    Texts = {x, y, u}
    Unplanned = {u}
    Wordings = {w1, w2}
    NoFile = NoFile
    Torn = Torn
    MaxFaults = 1
    MaxFailures = 0

INVARIANT BlueprintPlanned
