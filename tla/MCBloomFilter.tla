---------------------------- MODULE MCBloomFilter ---------------------------
(* Instances of BloomFilter for TLC.  The keys' bits overlap between keys    *)
(* and, for k3, between the hash functions; k4 collides without being added. *)
EXTENDS BloomFilter

CONSTANTS k1, k2, k3, k4

MCHash ==
    [i \in 0 .. HashCount - 1 |->
        [x \in Key |->
            IF x = k1 THEN IF i = 0 THEN 1 ELSE 25
            ELSE IF x = k2 THEN IF i = 0 THEN 9 ELSE 1
            ELSE IF x = k3 THEN 10
            ELSE IF i = 0 THEN 9 ELSE 10]]
=============================================================================
