SPECIFICATION Spec
CONSTANTS
    Cases = {c1}
    Appts = {a1}
    CaseOf <- SameCase
    Slots = {s1}
    Requests = {r1, r2}
    Policies <- AllPolicies
    Overrides = {"inherit"}
    Endpoints <- SignAndRefuse
    FleetStatuses = {}
    Capacity = 2
    NoSlot = NoSlot
    NoAppt = NoAppt
INVARIANTS RefusalParks
CHECK_DEADLOCK FALSE
