--------------------------- MODULE MCSupportService ---------------------------
EXTENDS SupportService, TLC

\* Handlers are interchangeable; users are not.
MCSymmetry == Permutations(Procs)
===============================================================================
