SPECIFICATION TimerSpec
CONSTANTS
    Agents = {a1}
    Company = Company
    NoAgent = NoAgent
    NoScope = NoScope
    Goroutines = {g1, g2}
    MaxConcurrentRuns = 1
    StatementsFail = TRUE
    MaxRuns = 2
    MaxDisturbances = 2
INVARIANT OnlyClaimedRunsExecute
PROPERTY LostByFailedStatement
PROPERTY TimerDrainsQueue
PROPERTY ImplementsQueue
PROPERTY CancelledInQueueIsFinal
CHECK_DEADLOCK FALSE
