SPECIFICATION Spec
CONSTANTS
    Users = {a}
    Purchases = {p1, p2}
    Admins = {q1}
    Procs = {p1, p2, q1}
    Refs = {p1, p2, q1}
    Services = {"airtime"}
    Keys = {k1, k2}
    PartyOf <- MCPartyOf
    Settings = {"vtpass"}
    Faces = {5075}
    Discounts = {0, 250}
    PlanPrices = {5000}
    FeeKobo = 100
    LockedUsers = {}
    InitialKobo <- MCInitialKobo
    Absent = Absent
    Unreadable = Unreadable
    Clean = Clean
    Nobody = Nobody
    NoOrder = NoOrder
    Faults = TRUE
SYMMETRY MCSymmetry
INVARIANTS
    TypeOK
    BalancesHold
    DeliveredIsPaid
    OneDebitPerKey
    AutoRefundReverses
    StatusIsBacked
    DeliveredIsWorthIt
PROPERTIES
    ImplementsOrderContract
