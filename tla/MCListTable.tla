---------------------------- MODULE MCListTable -----------------------------
(* Instances of ListTable for TLC.  k1 and k2 share a bucket, k3 is alone.  *)
EXTENDS ListTable

CONSTANTS t1, t2, t3, k1, k2, k3

\* Primary and secondary hash values.
MCHash == [k \in Key |-> IF k = k1 THEN 0 ELSE IF k = k2 THEN 2 ELSE 1]
MCHash2 == [k \in Key |-> IF k = k1 THEN 0 ELSE 1]
MCHash2Flat == [k \in Key |-> 0]

\* The threads insert different keys, as those of tests/concurrent_test.c do ...
MCDisjointKeys == [t \in Thread |-> Key \cap (IF t = t1 THEN {k1, k3} ELSE IF t = t2 THEN {k2} ELSE {})]
\* ... or all of them.
MCSharedKeys == [t \in Thread |-> Key]
=============================================================================
