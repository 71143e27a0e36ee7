SPECIFICATION Spec
CONSTANTS
    a = a
    b = b
    c = c
    d = d
    e = e
    t = t
    CodeAgent = CodeAgent
    IntegrationAgent = IntegrationAgent
    OtherAgent = OtherAgent
    NoItem = NoItem
    Items = {t, e, a, b}
    Code = {a, b}
    Integrators = {}
    Environment = {e}
    Architecture = {t}
    Prints = {f}
    Kinds <- MCChainKinds
    Rank <- MCRank
    Deps <- MCChainDeps
    Wave <- MCChainWave
    Agent <- MCAgent
    Limit <- MCLimit
    max_workers = 2
    max_total_retries = 1
    max_retries_per_work_item = 1
    max_retries_by_kind <- DefaultKindLimit
    MaxCommits = 2
    MaxCrashes = 1
    MaxResumes = 1

INVARIANT WholeUpstreamCompleted
CHECK_DEADLOCK FALSE
