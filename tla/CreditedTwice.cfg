SPECIFICATION Spec
CONSTANTS
    a = a
    b = b
    c = c
    Users = {a, b}
    Fundings = {f1}
    Purchases = {}
    Deliveries = {d1, d2}
    Claims = {}
    Procs = {f1, d1, d2}
    Refs = {f1}
    Keys = {k1}
    Amounts = {5}
    Threshold = 5
    RewardKobo = 2
    Referrer <- MCReferrer
    InitialKobo <- MCInitialKobo
    LockedUsers = {}
    Clean = Clean
    Nobody = Nobody
    Faults = FALSE
    GatewayErrors = FALSE
    GatewayOf <- MCGatewayOf
    SecretKey = "live"
    Production = TRUE
    Missing = Missing
    Unreadable = Unreadable
    f1 = f1
    f2 = f2
INVARIANTS
    CreditedOnce
