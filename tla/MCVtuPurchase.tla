----------------------------- MODULE MCVtuPurchase -----------------------------
EXTENDS VtuPurchase, TLC

\* Every wallet starts with enough for two of the cheapest orders.
MCInitialKobo == [u \in Users |-> 10000]

\* Jos Electric is the one company whose code is not in the adapters' tables.
MCPartyOf == [airtime |-> "GLO", data |-> "MTN", electricity |-> "IKEDC", cable |-> "DSTV"]

\* Handlers of one kind are interchangeable, and so are keys.
MCSymmetry ==
    Permutations(Purchases) \cup Permutations(Admins) \cup Permutations(Keys)
===============================================================================
