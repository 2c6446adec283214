----------------------------- MODULE MCStorage -----------------------------
(* Instances of Storage for TLC                                            *)
EXTENDS Storage, TLC

CONSTANTS x1, x2, x3, x4, p1, p2, p3, a, b

Symmetry == Permutations(Txns) \union Permutations(Pages)
=============================================================================
