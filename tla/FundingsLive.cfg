SPECIFICATION FairSpec
CONSTANTS
    a = a
    b = b
    c = c
    Users = {a, b}
    Fundings = {f1, f2}
    Purchases = {}
    Deliveries = {d1, d2}
    Claims = {c1}
    Procs = {f1, f2, d1, d2, c1}
    Refs = {f1, f2, c1}
    Keys = {k1, k2}
    Amounts = {5}
    Threshold = 5
    RewardKobo = 2
    Referrer <- MCReferrer
    InitialKobo <- MCInitialKobo
    LockedUsers = {a}
    Clean = Clean
    Nobody = Nobody
    Faults = FALSE
    GatewayErrors = TRUE
    GatewayOf <- MCOtherGateways
    SecretKey = "test"
    Production = FALSE
    Missing = Missing
    Unreadable = Unreadable
    f1 = f1
    f2 = f2
PROPERTIES
    DeliveredIsCredited
