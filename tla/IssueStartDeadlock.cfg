SPECIFICATION FairSpec
CONSTANTS
    Agents = {a}
    LocalAgents = {a}
    Issues = {1}
    MaxRuns = 3
    MaxWakes = 3
    MaxConcurrent = 1
    MaxEvents <- BudgetOnly
    MaxTotal = 1
    Ticking = TRUE
    NoAgent = NoAgent
PROPERTIES QueuedIsDriven
CHECK_DEADLOCK FALSE
