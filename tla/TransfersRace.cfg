SPECIFICATION Spec
CONSTANTS
    a = a
    b = b
    c = c
    Users = {a, b}
    Procs = {p1, p2}
    Refs = {p1, p2}
    Keys = {k1, k2}
    Amounts = {2}
    LockedUsers = {}
    InitialKobo <- MCInitialKobo
    Clean = Clean
    Nobody = Nobody
    NoRequest = NoRequest
INVARIANTS
    TrailReconciles
