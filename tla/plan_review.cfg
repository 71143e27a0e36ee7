CONSTANTS
    Started = {"planner", "planner_early"}
    Blueprints <- AllBlueprints
    Contracts <- AllContracts
    max_modules = 2
    MaxCrashes = 1
SPECIFICATION Spec
INVARIANTS CompletedRanWhole
