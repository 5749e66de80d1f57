------------------------------ MODULE InitSet -------------------------------
(***************************************************************************)
(* The initial set a program fills before hi_create (lib/hi_set.c) and the *)
(* check hi_create makes of it (lib/lib_init.c).  A setter that refuses    *)
(* its argument leaves the set as it is; here it has no value then.        *)
(***************************************************************************)
EXTENDS Integers

CONSTANTS
    NULL,       \* a pointer not set
    HashFunc,   \* the hash functions, those of lhi_hashfunc_map included
    KeyCmpFunc  \* the comparison functions

ASSUME InitSetAssumption == NULL \notin HashFunc /\ NULL \notin KeyCmpFunc

ListEngine == {"LIST", "LIST_HASH", "LIST_MTF", "LIST_MTF_HASH"}
ArrayEngine == {"ARRAY", "ARRAY_HASH", "ARRAY_DYN", "ARRAY_DYN_HASH"}
Engine == ListEngine \cup ArrayEngine \cup {"RBTREE"}

\* What the enumerator 0, which is no engine, stands for.
NoEngine == "NONE"

\* hi_set_zero; the threshold, which no function sets, is Overloaded of Handle.
hi_set_zero ==
    [table_size |-> 0, rehash_auto |-> FALSE, coll_eng_array_size |-> 0,
     coll_eng |-> NoEngine, hash_func |-> NULL, hash2_func |-> NULL, key_cmp |-> NULL]

\* The sets a setter called with an argument it accepts makes of s.  The
\* enumerator 0 is accepted: only values above COLL_ENG_MAX are refused.
AfterSetter(s, Engines, Sizes, ArraySizes) ==
    {[s EXCEPT !.table_size = n] : n \in Sizes \ {0}}
      \cup {[s EXCEPT !.coll_eng_array_size = n] : n \in ArraySizes \ {0}}
      \cup {[s EXCEPT !.hash_func = f] : f \in HashFunc}
      \cup {[s EXCEPT !.hash2_func = f] : f \in HashFunc}
      \cup {[s EXCEPT !.coll_eng = e] : e \in Engines \cup {NoEngine}}
      \cup {[s EXCEPT !.rehash_auto = a] : a \in BOOLEAN}
      \cup {[s EXCEPT !.key_cmp = f] : f \in KeyCmpFunc}

\* hi_init_str and the hi_init_*int*_t: the size is not checked when it is set.
DefaultSet(n, f, cmp) ==
    [hi_set_zero EXCEPT !.table_size = n, !.hash_func = f, !.coll_eng = "LIST", !.key_cmp = cmp]

NeedsHash2 == {"LIST_HASH", "LIST_MTF_HASH", "ARRAY_DYN_HASH"}

\* COLL_ENG_ARRAY_HASH, _DYN and _DYN_HASH pass without an array size.
lhi_set_sanity_check(s) ==
    IF s.table_size = 0 \/ s.key_cmp = NULL \/ s.hash_func = NULL THEN "NODATA"
    ELSE IF s.coll_eng = NoEngine THEN "INTERNAL"
    ELSE IF s.coll_eng \in NeedsHash2 /\ s.hash2_func \in {NULL, s.hash_func} THEN "NODATA"
    ELSE IF s.coll_eng = "ARRAY" /\ s.coll_eng_array_size = 0 THEN "NODATA"
    ELSE "SUCCESS"
=============================================================================
