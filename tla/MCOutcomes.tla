---------------------------- MODULE MCOutcomes ----------------------------
EXTENDS Outcomes, TLC
CONSTANTS s1, s2
MCScore == (s1 :> 2) @@ (s2 :> 1)
Symmetry == Permutations(Procs)
=============================================================================
