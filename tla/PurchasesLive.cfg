SPECIFICATION FairSpec
CONSTANTS
    Users = {a}
    Purchases = {p1}
    Admins = {q1, q2}
    Procs = {p1, q1, q2}
    Refs = {p1, q1, q2}
    Services = {"data", "electricity", "cable"}
    Keys = {k1}
    PartyOf <- MCPartyOf
    Settings = {"clubkonnect", "none"}
    Faces = {5075}
    Discounts = {250}
    PlanPrices = {4000, 6000}
    FeeKobo = 100
    LockedUsers = {}
    InitialKobo <- MCInitialKobo
    Absent = Absent
    Unreadable = Unreadable
    Clean = Clean
    Nobody = Nobody
    NoOrder = NoOrder
    Faults = FALSE
INVARIANTS
    OneAdminRefund
PROPERTIES
    PaidIsSettled
