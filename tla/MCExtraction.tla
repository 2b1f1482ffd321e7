---------------------------- MODULE MCExtraction ----------------------------
EXTENDS Extraction, TLC
OneTry == (0 :> 0)
TwoTries == (0 :> 0) @@ (1 :> 1)
Symmetry == Permutations(Runners) \cup Permutations(Phases)
=============================================================================
