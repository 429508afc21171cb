SPECIFICATION Spec
CONSTANTS
    Cases = {c1}
    Appts = {a1}
    CaseOf <- SameCase
    Slots = {s1}
    Requests = {r1}
    Policies <- ParallelPolicy
    Overrides = {"waived"}
    Endpoints <- NegotiationCore
    FleetStatuses = {}
    Capacity = 2
    NoSlot = NoSlot
    NoAppt = NoAppt
INVARIANTS KeysOpenOrder
CHECK_DEADLOCK FALSE
