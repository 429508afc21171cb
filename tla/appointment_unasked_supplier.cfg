SPECIFICATION Spec
CONSTANTS
    Cases = {c1}
    Appts = {a1}
    CaseOf <- SameCase
    Slots = {s1}
    Requests = {r1}
    Policies <- AllPolicies
    Overrides = {"inherit"}
    Endpoints = {"calendarCreate", "confirm"}
    FleetStatuses = {}
    Capacity = 2
    NoSlot = NoSlot
    NoAppt = NoAppt
INVARIANTS SupplierAccepted
CHECK_DEADLOCK FALSE
