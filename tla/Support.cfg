SPECIFICATION Spec
CONSTANTS
    Users = {u, s}
    Agents = {s}
    Broadcasters = {s}
    Procs = {p1, p2, p3, p4}
    Nobody = Nobody
SYMMETRY MCSymmetry
INVARIANTS
    TypeOK
    ThreadsAreWhole
    NoReplyIsBuried
    NotifiedIsTrue
