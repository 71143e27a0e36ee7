\* Two clients of one conversation, three messages, one run of two WorkItems,
\* two revisions of its plan, one crash.
SPECIFICATION FairSpec
CONSTANTS
    Clients = {c1, c2}
    Drafts <- DraftsMC
    PatchSets <- PatchesMC
    Projects <- ProjectsMC
    MaxMessages = 3
    MaxTraces = 1
    MaxRevision = 2
    MaxCrashes = 1
INVARIANTS
    AcceptedPlansSound
    PatchKeepsUnaffected
PROPERTIES
    RequestEnds
    EndAnswered
CHECK_DEADLOCK FALSE
