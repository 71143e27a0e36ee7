\* One client patches the run it has started.
SPECIFICATION Spec
CONSTANTS
    Clients = {c1}
    Drafts <- DraftsMC
    PatchSets <- PatchesMC
    Projects <- ProjectsMC
    MaxMessages = 2
    MaxTraces = 1
    MaxRevision = 2
    MaxCrashes = 0
INVARIANT
    PatchTakesEffect
CHECK_DEADLOCK FALSE
