---------------------------- MODULE MCRunnerLock ----------------------------
EXTENDS RunnerLock, TLC
Symmetry == Permutations(Runners) \cup Permutations(Hooks)
=============================================================================
