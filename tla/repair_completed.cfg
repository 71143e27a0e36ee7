SPECIFICATION Spec
CONSTANTS
    DeliverySize = 2
    RepairSize = 1
    MaxFailures = 1
    MaxCrashes = 1
INVARIANT CompletedMeansDelivered
CHECK_DEADLOCK FALSE
