SPECIFICATION WorkersFairSpec
CONSTANTS
    Starters = {}
    Stoppers = {}
    Restarters = {r1, r2}
    NoRequest = NoRequest
    WorkerMaxCrashes = 1
    MaxRestarts = 1
INVARIANT ProcessIsKnown
PROPERTY RequestsEnd
CHECK_DEADLOCK FALSE
