--------------------------- MODULE MCWalletService ---------------------------
EXTENDS WalletService, TLC

CONSTANTS a, b, c

\* What each wallet starts with: a and b can pay; the runs lock c.
MCInitialKobo == [u \in Users |-> IF u = a THEN 3 ELSE 2]

\* Handlers are interchangeable and so are keys; users are not.
MCSymmetry == Permutations(Procs) \cup Permutations(Keys)
===============================================================================
