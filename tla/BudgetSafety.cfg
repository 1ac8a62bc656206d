SPECIFICATION Spec
CONSTANTS
    Agents = {a1, a2}
    Projects = {p1}
    Company = Company
    NoProject = NoProject
    Txs = {t1, t2}
    NoTx = NoTx
    Costs = {1}
    Amounts = {0, 2}
    Lifetime = {p1}
    MaxMonths = 2
    MaxEvents = 3
    MaxEdits = 0
SYMMETRY Symmetry
INVARIANT HardStopNotMissed
INVARIANT OneIncidentPerWindow
PROPERTY ImplementsStops
CHECK_DEADLOCK FALSE
