SPECIFICATION Spec
CONSTANTS
    Threads = {t1, t2}
    MaxAmount = 2
    WarnPercent = 50
    HireBudget = 1
    MaxMonths = 2
    MaxRows = 3
    MaxRequests = 4
INVARIANTS TypeOK HardStopPauses BudgetPauseIsDue OneHire ApprovedIsHired
PROPERTY ManualPauseStays
SYMMETRY EitherThread
CHECK_DEADLOCK FALSE
