CONSTANTS
    Started = {"delivery_default"}
    Blueprints <- AllBlueprints
    Contracts <- AllContracts
    max_modules = 2
    MaxCrashes = 1
SPECIFICATION Spec
INVARIANTS ExpansionResumable
