SPECIFICATION Spec
CONSTANTS
    MaxTyres = 4
    MaxSets = 2
    MaxClosing = 2
    Hotels = {h1, h2}
    ReleaseKinds = {"at_client"}
    Disposals = {"scrap"}
    TyreOrders = {w1}
    NoHotel = NoHotel
    MaxKm = 1
    MaxTime = 2
    Records = {e1}
    Writers = {v1, v2}
    MaxMails = 2
    Ticks = {k1, k2}
    BATCH = 1
    MAX_ATTEMPTS = 2
    MaxFaults = 1
    MaxOps = 2
    Flushers = {f1, f2}
    MaxMishaps = 2
    KEEP = 2
    MaxEntries = 3
    Steps = {"reinspection_requested"}
    Calls = {d1, d2}
    Clients = {c1}
    Suppliers = {s1}
    MaxInvites = 2
    Callers = {r1, r2}
    RsaSuppliers = {g1, g2}
    Plans <- SomePlans
    Cards <- SomeCards
    MaxEnrolments = 2
    MaxDistance = 3
    NoSupplier = NoSupplier
    NoCap = NoCap
    MaxDate = 2
    Savers = {x1, x2}
INVARIANTS TypeOK MountedInPlace HotelTyreHasStay ClosedOnce
    OdometerIsTimeline MailedOnce QueuedIsSent FirstInOrder DossierAgrees OneKindOfMember InviteSpentOnce
    SettlementAgrees MenuFollowsEntries ItpDatesAgree
PROPERTIES MailSettles
CHECK_DEADLOCK FALSE
