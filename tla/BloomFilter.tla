---------------------------- MODULE BloomFilter -----------------------------
(***************************************************************************)
(* The Bloom filter of lib/hi_bloom_filter.c: its creation, the loops of   *)
(* hi_bloom_filter_add and hi_bloom_filter_check over the hash functions,  *)
(* one step per hash function, hi_bloom_bit_get and the finalizer.  The    *)
(* filter has no lock: one thread uses it, and no call is made after one   *)
(* that failed to create it.                                               *)
(***************************************************************************)
EXTENDS Integers, FiniteSets

CONSTANTS
    Key,            \* the keys
    HashCount,      \* ARRAY_SIZE(lhi_hashmap)
    Hash,           \* lhi_hashmap, a function [0 .. HashCount - 1 -> [Key -> Nat]]
    Sizes,          \* the values of m that hi_bloom_init_mk is called with
    Counts,         \* the values of k that hi_bloom_init_mk is called with
    MallocMayFail,  \* whether XMALLOC may return an error
    None,           \* no key
    MaxAdds         \* bound: the elements a filter gets

ASSUME BloomFilterAssumption ==
    /\ HashCount \in Nat
    /\ Hash \in [0 .. HashCount - 1 -> [Key -> Nat]]
    /\ Sizes \subseteq Nat /\ Counts \subseteq Nat
    /\ MallocMayFail \in BOOLEAN
    /\ None \notin Key
    /\ MaxAdds \in Nat

VARIABLES
    m,              \* bh->m, the bits of the filter
    k,              \* bh->k, the number of hash functions
    n,              \* bh->n, the number of elements added
    bit_collision,  \* bh->bit_collision
    filter_map,     \* filter_map[i]: the set bits of byte i
    pc,             \* "none" (no filter), "ready", "add", "check", "crashed"
    key,            \* the key of the running call
    iter,           \* its loop counter
    result,         \* what the last call returned
    added           \* history: the keys whose hi_bloom_filter_add has returned

params == <<m, k>>
filter == <<n, bit_collision, filter_map>>
vars == <<params, filter, pc, key, iter, result, added>>

Bit == 0 .. m - 1

Init ==
    /\ m = 0 /\ k = 0 /\ n = 0 /\ bit_collision = 0
    /\ filter_map = [i \in {} |-> {}]
    /\ pc = "none" /\ key = None /\ iter = 0
    /\ result = "NONE"
    /\ added = {}

Accepted(size, count) ==
    /\ ~ (size % 8 # 0 /\ size > 0)
    /\ count <= HashCount

\* Mutant: the map is not cleared, malloc() returns that of the last filter.
InitMk_KeepsMap(size, count) ==
    /\ pc = "none"
    /\ Accepted(size, count)
    /\ m' = size /\ k' = count
    /\ n' = 0 /\ bit_collision' = 0
    /\ filter_map' = [i \in 0 .. (size \div 8) - 1 |->
                        IF i \in DOMAIN filter_map THEN filter_map[i] ELSE {}]
    /\ pc' = "ready" /\ result' = "SUCCESS" /\ added' = {}
    /\ UNCHANGED <<key, iter>>

\* hi_bloom_init_mk.
InitMk(size, count) ==
    /\ pc = "none"
    /\ \/ /\ ~ Accepted(size, count)
          /\ result' = "RANGE"
          /\ UNCHANGED <<params, filter, pc, added>>
       \/ /\ Accepted(size, count) /\ MallocMayFail
          /\ result' = "SYSTEM"
          /\ UNCHANGED <<params, filter, pc, added>>
       \/ /\ Accepted(size, count)
          /\ m' = size /\ k' = count
          /\ n' = 0 /\ bit_collision' = 0
          /\ filter_map' = [i \in 0 .. (size \div 8) - 1 |-> {}]
          /\ pc' = "ready"
          /\ result' = "SUCCESS"
          /\ added' = {}
    /\ UNCHANGED <<key, iter>>

\* filter_map[bit / 8] & 1 << (bit & 7).
IsSet(bit) == bit % 8 \in filter_map[bit \div 8]

\* hi_bloom_filter_add counts the element before it sets the bits.
AddBegin(x) ==
    /\ pc = "ready"
    /\ n < MaxAdds
    /\ pc' = "add" /\ key' = x /\ iter' = 0
    /\ n' = n + 1
    /\ UNCHANGED <<params, bit_collision, filter_map, result, added>>

CheckBegin(x) ==
    /\ pc = "ready"
    /\ pc' = "check" /\ key' = x /\ iter' = 0
    /\ UNCHANGED <<params, filter, result, added>>

\* hkey % bh->m with m = 0 is a division by zero.
DivideByZero ==
    /\ pc \in {"add", "check"} /\ iter < k /\ m = 0
    /\ pc' = "crashed"
    /\ UNCHANGED <<params, filter, key, iter, result, added>>

\* Mutant: the byte is overwritten, not or-ed.
AddBit_Overwrites ==
    LET bit == Hash[iter][key] % m IN
    /\ pc = "add" /\ iter < k /\ m # 0
    /\ bit_collision' = bit_collision + (IF IsSet(bit) THEN 1 ELSE 0)
    /\ filter_map' = [filter_map EXCEPT ![bit \div 8] = {bit % 8}]
    /\ iter' = iter + 1
    /\ UNCHANGED <<params, n, pc, key, result, added>>

AddBit ==
    LET bit == Hash[iter][key] % m IN
    /\ pc = "add" /\ iter < k /\ m # 0
    /\ bit_collision' = bit_collision + (IF IsSet(bit) THEN 1 ELSE 0)
    /\ filter_map' = [filter_map EXCEPT ![bit \div 8] = @ \cup {bit % 8}]
    /\ iter' = iter + 1
    /\ UNCHANGED <<params, n, pc, key, result, added>>

AddEnd ==
    /\ pc = "add" /\ iter = k
    /\ pc' = "ready"
    /\ added' = added \cup {key}
    /\ UNCHANGED <<params, filter, key, iter, result>>

CheckBit ==
    LET bit == Hash[iter][key] % m IN
    /\ pc = "check" /\ iter < k /\ m # 0
    /\ IF IsSet(bit)
         THEN iter' = iter + 1 /\ UNCHANGED <<pc, result>>
         ELSE pc' = "ready" /\ result' = "ABSENT" /\ UNCHANGED iter
    /\ UNCHANGED <<params, filter, key, added>>

CheckEnd ==
    /\ pc = "check" /\ iter = k
    /\ pc' = "ready" /\ result' = "PRESENT"
    /\ UNCHANGED <<params, filter, key, iter, added>>

\* hi_bloom_bit_get lets bit = m through: the byte behind the map is read.
InRange(bit) == ~ (bit > m)

BitGet(bit) ==
    /\ pc = "ready"
    /\ IF ~ InRange(bit) THEN result' = "RANGE"
       ELSE IF bit \div 8 \in DOMAIN filter_map
              THEN result' = IF IsSet(bit) THEN "SET" ELSE "CLEAR"
              ELSE result' = "OVERREAD"
    /\ UNCHANGED <<params, filter, pc, key, iter, added>>

\* hi_fini_bloom_filter.
Fini ==
    /\ pc = "ready"
    /\ pc' = "none"
    /\ UNCHANGED <<params, filter, key, iter, result, added>>

Crashed == pc = "crashed" /\ UNCHANGED vars

Next ==
    \/ \E size \in Sizes, count \in Counts : InitMk(size, count)
    \/ \E x \in Key : AddBegin(x) \/ CheckBegin(x)
    \/ DivideByZero \/ AddBit \/ AddEnd \/ CheckBit \/ CheckEnd
    \/ \E bit \in 0 .. m + 1 : BitGet(bit)
    \/ Fini \/ Crashed

Spec == Init /\ [][Next]_vars
-----------------------------------------------------------------------------
(***************************************************************************)
(* Properties.                                                             *)
(***************************************************************************)

\* Types of the fields; the map has m / 8 bytes of eight bits.
TypeOK ==
    /\ m \in Nat /\ m % 8 = 0
    /\ k \in 0 .. HashCount
    /\ n \in Nat /\ bit_collision \in Nat
    /\ filter_map \in [0 .. (m \div 8) - 1 -> SUBSET (0 .. 7)]
    /\ pc \in {"none", "ready", "add", "check", "crashed"}
    /\ iter \in Nat /\ key \in Key \cup {None}
    /\ pc \in {"add", "check"} => key \in Key /\ iter <= k
    /\ added \subseteq Key

\* The bit hash function i sets for key x.
BitOf(i, x) == Hash[i][x] % m

\* hi_bloom_filter_check never denies a key that was added (the only promise of the
\* comment hi_bloom_filter.c:99-105: only the positive answer is uncertain): as long
\* as the filter lives all bits of an added key are set, so whenever a check answers
\* ABSENT its key was not added.
NoFalseNegative ==
    [][pc = "check" /\ pc' = "ready" /\ result' = "ABSENT" => key \notin added]_vars

SetBits == {bit \in Bit : IsSet(bit)}

\* bit_collision counts exactly the bits an addition wanted to set and found set
\* (hi_bloom_filter.c:92-94): with the set bits it makes up k per completed addition
\* and iter for the running one.
CollisionsExact ==
    pc \in {"ready", "add", "check"} =>
        bit_collision + Cardinality(SetBits)
          = IF pc = "add" THEN k * (n - 1) + iter ELSE k * n

\* A positive answer is not a guess of the current call: each bit the check has
\* passed belongs to a hash function of a key whose addition has returned
\* (hi_bloom_filter.c:118-128).
PositiveIsCovered ==
    pc = "check" =>
        \A i \in 0 .. iter - 1 : \E x \in added, j \in 0 .. k - 1 : BitOf(i, key) = BitOf(j, x)
=============================================================================
