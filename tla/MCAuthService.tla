---------------------------- MODULE MCAuthService ----------------------------
EXTENDS AuthService, TLC

\* Handlers are interchangeable, and so are codes.
MCSymmetry == Permutations(Procs) \cup Permutations(Codes)
===============================================================================
