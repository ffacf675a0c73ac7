SPECIFICATION Spec
CONSTANTS
    a = a
    b = b
    c = c
    Users = {a, b}
    Procs = {p1, p2, p3}
    Refs = {p1, p2, p3}
    Keys = {k1, k2}
    Amounts = {2}
    LockedUsers = {}
    InitialKobo <- MCInitialKobo
    Clean = Clean
    Nobody = Nobody
    NoRequest = NoRequest
SYMMETRY MCSymmetry
INVARIANTS
    TypeOK
    NonNegative
    LatestEntryIsBalance
    OneTransferPerKey
    TransferWhole
    AnswersAreTrue
    NoOrphanLocks
PROPERTIES
    ImplementsSnapshotLedger
