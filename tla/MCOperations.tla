---------------------------- MODULE MCOperations ----------------------------
(* A small instance of Operations: builds 0 and 1 without a managed cache,  *)
(* 2 and 3 with one in different places.  Checkouts are interchangeable.    *)
EXTENDS Operations, TLC

MCLocationOf == [b \in Builds |-> IF b = 2 THEN "east" ELSE IF b = 3 THEN "west" ELSE NoLoc]

Symmetry == Permutations(Machines)
=============================================================================
