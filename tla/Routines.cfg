SPECIFICATION Spec
CONSTANTS
    Callers = {t1, t2}
    Keys = {1}
    Policies = {"coalesce_if_active", "always_enqueue"}
    CatchUps = {"enqueue_missed_with_cap"}
    MaxTime = 1
    MaxRuns = 2
    MAX_CATCH_UP_RUNS = 2
    MaxConcurrentRuns = 1
    MaxEvents = 1
INVARIANTS TypeOK TickFiredOnce KeyedOnce OneLiveIssue IssueHasRun
SYMMETRY EitherCaller
CHECK_DEADLOCK FALSE
