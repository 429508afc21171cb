SPECIFICATION Spec
CONSTANTS
    Cases = {c1}
    Appts = {a1, a2}
    CaseOf <- SameCase
    Slots = {s1, s2}
    Requests = {r1}
    Policies <- AllPolicies
    Overrides = {"inherit"}
    Endpoints <- Negotiation
    FleetStatuses = {}
    Capacity = 1
    NoSlot = NoSlot
    NoAppt = NoAppt
SYMMETRY SameCaseSymmetry
INVARIANTS TypeOK KeysOpenOrder StampsMatchSlot SupplierAccepted RefusalParks
    CapacityRespected
PROPERTIES PeerBeforeSupplier
CHECK_DEADLOCK FALSE
