SPECIFICATION Spec
CONSTANTS
    Interventions = {i1}
    CostIds = {c1, c2}
    Kms = {k1}
    Signers = {"driver", "counterparty"}
    MaxUsed = 0
    Covered = {FALSE}
    Requests = {r1, r2}
    Endpoints <- Own
    NoKm = NoKm
    NoCost = NoCost
SYMMETRY Symmetry
CONSTRAINT InOrder
INVARIANTS OneCostPerMission CustodyDocumented SettledIsDelivered
CHECK_DEADLOCK FALSE
