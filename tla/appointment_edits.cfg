SPECIFICATION Spec
CONSTANTS
    Cases = {c1}
    Appts = {a1, a2}
    CaseOf <- SameCase
    Slots = {s1, s2}
    Requests = {r1}
    Policies <- ParallelPolicy
    Overrides = {"inherit", "waived"}
    Endpoints <- WithEdits
    FleetStatuses = {"cancelled"}
    Capacity = 1
    NoSlot = NoSlot
    NoAppt = NoAppt
SYMMETRY SameCaseSymmetry
INVARIANTS PlannedAtAppointment
PROPERTIES OrderNeedsBothKeys
VIEW WithoutHistory
CHECK_DEADLOCK FALSE
