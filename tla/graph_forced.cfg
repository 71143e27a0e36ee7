SPECIFICATION Spec
CONSTANTS
    a = a
    b = b
    c = c
    d = d
    e = e
    t = t
    CodeAgent = CodeAgent
    IntegrationAgent = IntegrationAgent
    OtherAgent = OtherAgent
    NoItem = NoItem
    Items = {a, b, c}
    Code = {a, b}
    Integrators = {c}
    Environment = {}
    Architecture = {}
    Prints = {f}
    Kinds <- MCKinds
    Rank <- MCRank
    Deps <- MCDeps
    Wave <- MCWave
    Agent <- MCAgent
    Limit <- MCLimit
    max_workers = 2
    max_total_retries = 1
    max_retries_per_work_item = 1
    max_retries_by_kind <- DefaultKindLimit
    MaxCommits = 1
    MaxCrashes = 1
    MaxResumes = 1

INVARIANT ForcedRerunHonoured
CHECK_DEADLOCK FALSE
