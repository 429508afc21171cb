SPECIFICATION Spec
CONSTANTS
    Interventions = {i1}
    CostIds = {c1}
    Kms = {k1}
    Signers = {"driver", "counterparty"}
    MaxUsed = 1
    Covered = {TRUE}
    Requests = {r1}
    Endpoints <- Towing
    NoKm = NoKm
    NoCost = NoCost
INVARIANTS UsageCounted
CHECK_DEADLOCK FALSE
