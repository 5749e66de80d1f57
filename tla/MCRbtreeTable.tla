--------------------------- MODULE MCRbtreeTable ----------------------------
(* Instances of RbtreeTable for TLC.  The keys are integers compared by      *)
(* hi_cmp_uint32_t on ints of 2 * Half values, all in one tree.  t1 inserts  *)
(* and removes, t2 reads.                                                    *)
EXTENDS RbtreeTable, CmpFuncs

CONSTANTS t1, t2

MCKeyCmp == [p \in Key \X Key |-> hi_cmp_uint32_t(p[1], p[2])]

\* The keys of the instances are less than half the range of an int apart.
ASSUME MCKeysOrdered == KeysOrdered

MCHash == [k \in Key |-> 0]

\* t1 inserts and removes every key.
MCWriter == [t \in Thread |-> IF t = t1 THEN Key ELSE {}]
\* t2 looks one up, walks the tree, and removes one that t1 also does.
MCReader == [t \in Thread |-> IF t = t2 THEN {2} ELSE {}]
\* Each key is inserted by one thread: 2 by t2, the others by t1.
MCOwnKeys == [t \in Thread |-> IF t = t1 THEN Key \ {2} ELSE {2}]
MCReaderBuckets == [t \in Thread |-> IF t = t2 THEN Bucket ELSE {}]
MCRemoves == [t \in Thread |-> IF t = t1 THEN Key ELSE {3}]
=============================================================================
