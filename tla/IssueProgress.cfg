SPECIFICATION FairSpec
CONSTANTS
    Agents = {a}
    LocalAgents = {a}
    Issues = {1}
    MaxRuns = 4
    MaxWakes = 2
    MaxConcurrent = 1
    MaxEvents <- CrashOnly
    MaxTotal = 1
    Ticking = TRUE
    NoAgent = NoAgent
PROPERTIES QueuedIsDriven DeferredIsServed
CHECK_DEADLOCK FALSE
