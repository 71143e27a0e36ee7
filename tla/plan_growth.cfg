CONSTANTS
    Started = {"delivery_default", "architecture_only", "architecture_l0", "architecture_compact", "architecture_parallel", "architecture_layered", "project_delivery", "project_delivery_layered", "project_delivery_minimal", "delivery_incremental", "planner", "planner_early"}
    Blueprints <- AllBlueprints
    Contracts <- AllContracts
    max_modules = 2
    MaxCrashes = 1
SPECIFICATION Spec
INVARIANTS GrowthClosed CompiledBarrier SoundDesignAccepted
