----------------------------- MODULE MCResume -----------------------------
EXTENDS Resume, TLC
CONSTANTS u, w1, w2
Symmetry == Permutations(Wrapped)
=============================================================================
