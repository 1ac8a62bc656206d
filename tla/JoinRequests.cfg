SPECIFICATION Spec
CONSTANTS
    Invites = {i1, i2}
    Users = {u}
    Agents = {a1, a2}
    KeyIds = {k1, k2}
    Versions = {v1}
    Handlers = {h1, h2}
    MaxRequests = 5
    NoInvite = NoInvite
    NoAgent = NoAgent
    NoVersion = NoVersion
    Operator = Operator
INVARIANT OneKeyPerSecret
INVARIANT JoinedIsComplete
SYMMETRY Alike
CHECK_DEADLOCK FALSE
