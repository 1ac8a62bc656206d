SPECIFICATION Spec
CONSTANTS
    Slots = {k1, k2}
    Callers = {1}
    MaxRequests = 4
    MaxProcs = 3
    MaxExits = 2
    MaxCalls = 1
    MaxCrashes = 1
INVARIANTS TypeOK OneProcessPerPlugin PendingHasProcess RunningHasProcess BackoffCanStart
SYMMETRY EitherSlot
CHECK_DEADLOCK FALSE
