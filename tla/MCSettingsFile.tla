--------------------------- MODULE MCSettingsFile ---------------------------
EXTENDS SettingsFile, TLC
Symmetry == Permutations(Procs)
=============================================================================
