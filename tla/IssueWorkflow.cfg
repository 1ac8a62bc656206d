SPECIFICATION Spec
CONSTANTS
    Agents = {"coder"}
    Users = {"qa"}
    Runs = {1, 2}
    RunAgent <- AllByCoder
    Policies <- LongShortOrNone
    Asks <- AskStatusOrPolicy
    CheckoutFrom <- OpenOrOwn
    MaxRequests = 4
    Slots = {k1, k2}
    Nobody = "nobody"
    Keep = Keep
INVARIANTS TypeOK AuditTrail DecidedByParticipant
PROPERTIES DoneIsApproved CheckoutIsKept
SYMMETRY EitherSlot
CHECK_DEADLOCK FALSE
