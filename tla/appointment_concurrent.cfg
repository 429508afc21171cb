SPECIFICATION Spec
CONSTANTS
    Cases = {c1, c2}
    Appts = {a1, a2}
    CaseOf <- OwnCase
    Slots = {s1, s2}
    Requests = {r1, r2}
    Policies <- SignPolicy
    Overrides = {"inherit"}
    Endpoints <- NegotiationCore
    FleetStatuses = {}
    Capacity = 2
    NoSlot = NoSlot
    NoAppt = NoAppt
SYMMETRY OwnCaseSymmetry
INVARIANTS OneOrderPerCase
PROPERTIES SignsLikeDualConfirm
VIEW WithoutHistory
CHECK_DEADLOCK FALSE
