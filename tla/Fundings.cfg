SPECIFICATION Spec
CONSTANTS
    a = a
    b = b
    c = c
    Users = {a, b, c}
    Fundings = {f1, f2}
    Purchases = {f1}
    Deliveries = {d1, d2}
    Claims = {c1}
    Procs = {f1, f2, d1, d2, c1}
    Refs = {f1, f2, c1}
    Keys = {k1, k2}
    Amounts = {4, 5}
    Threshold = 5
    RewardKobo = 2
    Referrer <- MCReferrer
    InitialKobo <- MCInitialKobo
    LockedUsers = {}
    Clean = Clean
    Nobody = Nobody
    Faults = TRUE
    GatewayErrors = TRUE
    GatewayOf <- MCAnyGateway
    SecretKey = "live"
    Production = TRUE
    Missing = Missing
    Unreadable = Unreadable
    f1 = f1
    f2 = f2
SYMMETRY MCSymmetry
INVARIANTS
    TypeOK
    SuccessIsCredited
    OneRewardPerReferral
    PaidRewardIsCredited
    LatestEntryIsBalance
    UnpaidIsUnproven
PROPERTIES
    ImplementsFundingContract
