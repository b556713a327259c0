--------------------------- MODULE MCStateStore ---------------------------
(* Instances of StateStore for TLC: operators share one checkout, builds    *)
(* and Jobs are interchangeable.                                            *)
EXTENDS StateStore, TLC

CONSTANT dirA

OneCheckout == [p \in Operators |-> dirA]

Symmetry == Permutations(Jobs) \cup Permutations(Builds)
=============================================================================
