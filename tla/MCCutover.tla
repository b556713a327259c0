----------------------------- MODULE MCCutover -----------------------------
(* Small instances of Cutover. *)
EXTENDS Cutover, FiniteSets, TLC

(* Job builds, and rollbacks, are interchangeable. *)
Symmetry == Permutations(JobBuilds) \cup Permutations(Rollbacks)

(* bound: three pods in all, of three Jobs or of two with a retry of one *)
MaxPods == 3
PodsBounded == Cardinality({<<p, n>> \in JobBuilds \X (1 .. MaxRuns) : n <= runs[p]}) <= MaxPods
=============================================================================
