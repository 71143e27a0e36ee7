SPECIFICATION FairSpec
CONSTANTS
    DeliverySize = 3
    RepairSize = 2
    MaxFailures = 4
    MaxCrashes = 2
INVARIANTS UndeliveredResumable ProgressKept DeliveryFollows
PROPERTY EventuallyDelivered
CHECK_DEADLOCK FALSE
