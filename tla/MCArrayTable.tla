---------------------------- MODULE MCArrayTable ----------------------------
(* Instances of ArrayTable for TLC: with two buckets k1 and k2 share one and *)
(* k3 is alone; with one bucket all share it.                                *)
EXTENDS ArrayTable

CONSTANTS t1, t2, k1, k2, k3

MCHash == [k \in Key |-> IF k = k1 THEN 0 ELSE IF k = k2 THEN 2 ELSE 1]

\* The threads insert different keys, as those of tests/concurrent_test.c do ...
MCDisjointKeys == [t \in Thread |-> Key \cap (IF t = t1 THEN {k1, k3} ELSE {k2})]
\* ... or all of them.
MCSharedKeys == [t \in Thread |-> Key]
=============================================================================
