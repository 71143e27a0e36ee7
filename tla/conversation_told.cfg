\* EndIsNews is violated: a question about the running Trace keeps its end untold.
\* Two clients of one conversation, three messages, one run of two WorkItems,
\* two revisions of its plan, one crash.
SPECIFICATION Spec
CONSTANTS
    Clients = {c1, c2}
    Drafts <- DraftsMC
    PatchSets <- PatchesMC
    Projects <- ProjectsMC
    MaxMessages = 3
    MaxTraces = 1
    MaxRevision = 2
    MaxCrashes = 1
PROPERTY EndIsNews
CHECK_DEADLOCK FALSE
