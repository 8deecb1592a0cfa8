--------------------------- MODULE MCPropertyWatch ---------------------------
(* Model-checking instances of PropertyWatch.                              *)
EXTENDS PropertyWatch, TLC

CONSTANTS w1, w2, a1, a2, r1, r2

MCSymmetry == Permutations(Watch) \cup Permutations(Agent) \cup Permutations(Run)
=============================================================================
