------------------------------ MODULE MCHandle ------------------------------
(* Instances of Handle for TLC: the keys share the bucket of a table of one,  *)
(* and two of them every bucket.                                              *)
EXTENDS Handle

CONSTANTS k1, k2, k3

MCHash == [k \in Key |-> IF k = k2 THEN 1 ELSE 0]

\* The two keys with the same hash are told apart by nothing.
Symmetry == Permutations({k1, k3})
=============================================================================
