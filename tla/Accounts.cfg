SPECIFICATION Spec
CONSTANTS
    Procs = {p1, p2, p3}
    Seed = Seed
    SeedEmail = e1
    SeedPhone = n1
    SeedPassword = w1
    Emails = {e1, e2}
    Phones = {n1, n2}
    Passwords = {w1, w2}
    Codes = {c1, c2}
    LoginAttempts = 2
    OtpAttempts = 1
    Nobody = Nobody
    None = None
SYMMETRY MCSymmetry
INVARIANTS
    TypeOK
    UniqueAccounts
    LockoutIsEarned
    FailuresAreCounted
    CodesAreSpentOnce
    SessionsAreVerified
    ExchangedIsRevoked
    AnswersAreTrue
