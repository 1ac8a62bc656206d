SPECIFICATION Spec
CONSTANTS
    Agents = {a, b}
    LocalAgents = {a, b}
    Issues = {1}
    MaxRuns = 4
    MaxWakes = 3
    MaxConcurrent = 1
    MaxEvents <- AllButCrash
    MaxTotal = 1
    Ticking = FALSE
    NoAgent = NoAgent
INVARIANTS TypeOK WithinLimit DeferredHasOwner
PROPERTIES OwnerKeepsLock
CHECK_DEADLOCK FALSE
