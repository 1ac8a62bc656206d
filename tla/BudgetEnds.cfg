SPECIFICATION FairSpec
CONSTANTS
    Agents = {a1, a2}
    Projects = {}
    Company = Company
    NoProject = NoProject
    Txs = {t1, t2}
    NoTx = NoTx
    Costs = {1}
    Amounts = {0, 2}
    Lifetime = {}
    MaxMonths = 1
    MaxEvents = 3
    MaxEdits = 1
PROPERTY TransactionsEnd
CHECK_DEADLOCK FALSE
