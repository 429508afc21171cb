SPECIFICATION Spec
CONSTANTS
    Lines = {Ref, l1}
    CostIds = {c1, c2}
    MaxVersion = 2
    MaxPast = 1
    MaxOverlaps = 1
    Syncs = {k1}
    Scenes <- AllScenes
    Ref = Ref
    NoCost = NoCost
SYMMETRY Symmetry
INVARIANTS TypeOK ApprovalIsWhole  RepairIsApproved FirstJobGated SecondJobAfterFirst 
PROPERTIES DecisionsAreFinal
CHECK_DEADLOCK FALSE
