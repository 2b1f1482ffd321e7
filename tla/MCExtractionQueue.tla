-------------------------- MODULE MCExtractionQueue -------------------------
EXTENDS ExtractionQueue, TLC

\* Three attempts, growing back-off, in units of one claim time.
TwoStepBackoff == (0 :> 1) @@ (1 :> 1)
ThreeStepBackoff == (0 :> 1) @@ (1 :> 1) @@ (2 :> 2)
Symmetry == Permutations(Workers) \cup Permutations(Phases) \cup Permutations(Sessions)
=============================================================================
