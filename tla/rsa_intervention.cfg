SPECIFICATION Spec
CONSTANTS
    Interventions = {i1}
    CostIds = {c1}
    Kms = {k1}
    Signers = {"driver", "counterparty"}
    MaxUsed = 2
    Covered = {TRUE, FALSE}
    Requests = {r1, r2}
    Endpoints <- Brokered
    NoKm = NoKm
    NoCost = NoCost
SYMMETRY Symmetry
INVARIANTS TypeOK
PROPERTIES NoMissionRevives CompletedWhenOver
CHECK_DEADLOCK FALSE
