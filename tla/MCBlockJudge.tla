--------------------------- MODULE MCBlockJudge ---------------------------
EXTENDS BlockJudge, TLC
CONSTANTS v1, v2, v3, a, b, r
MCSessionOf == (v1 :> a) @@ (v2 :> a) @@ (v3 :> b)
MCRuleOf == (v1 :> r) @@ (v2 :> r) @@ (v3 :> None)
=============================================================================
