---------------------------- MODULE MCRuleStore ----------------------------
EXTENDS RuleStore
CONSTANTS r1, h, n1, n2, k1, k2, c1, c2
MCRules == {r1, h, n1, n2}
MCKnown == {(r1 :> k1) @@ (h :> None), (r1 :> Merged) @@ (h :> None)}
MCBefore == (c2 :> k2)
Symmetry == Permutations(Procs)
=============================================================================
