SPECIFICATION FairSpec
CONSTANTS
    a = a
    b = b
    c = c
    Users = {a, b, c}
    Procs = {p1, p2}
    Refs = {p1, p2}
    Keys = {k1, k2}
    Amounts = {2, 3}
    LockedUsers = {c}
    InitialKobo <- MCInitialKobo
    Clean = Clean
    Nobody = Nobody
    NoRequest = NoRequest
PROPERTIES
    EveryRequestEnds
