------------------------- MODULE BloomFilter_proofs -------------------------
(***************************************************************************)
(* What BloomFilter promises for every set of keys, every hash functions,  *)
(* every accepted size and any sequence of calls.                          *)
(***************************************************************************)
EXTENDS BloomFilter, FiniteSetTheorems, TLAPS

\* A bit lies in a byte of the map, and byte and mask identify it.
LEMMA BitPlace ==
    ASSUME NEW size \in Nat, size % 8 = 0, NEW b \in 0 .. size - 1
    PROVE  /\ b \div 8 \in 0 .. (size \div 8) - 1
           /\ b % 8 \in 0 .. 7
           /\ \A c \in 0 .. size - 1 : b \div 8 = c \div 8 /\ b % 8 = c % 8 => b = c
  OBVIOUS

\* The or-ing of one mask into the map sets that bit and no other.
LEMMA SetOneBit ==
    ASSUME NEW size \in Nat, size % 8 = 0,
           NEW map, NEW new,
           NEW bit \in 0 .. size - 1,
           \A c \in 0 .. (size \div 8) - 1 :
             new[c] = IF c = bit \div 8 THEN map[c] \cup {bit % 8} ELSE map[c],
           NEW b \in 0 .. size - 1
    PROVE  b % 8 \in new[b \div 8] <=> b = bit \/ b % 8 \in map[b \div 8]
  <1>1. b \div 8 \in 0 .. (size \div 8) - 1
    BY BitPlace
  <1>2. b \div 8 = bit \div 8 /\ b % 8 = bit % 8 => b = bit
    BY BitPlace
  <1>3. CASE b \div 8 = bit \div 8
    BY <1>1, <1>2, <1>3
  <1>4. CASE b \div 8 # bit \div 8
    BY <1>1, <1>4
  <1> QED
    BY <1>3, <1>4

\* hi_bloom_init_mk accepts whole bytes, and no more hash functions than there are.
LEMMA AcceptedSize ==
    ASSUME BloomFilterAssumption, NEW size \in Sizes, NEW count \in Counts, Accepted(size, count)
    PROVE  size \in Nat /\ count \in 0 .. HashCount /\ size % 8 = 0
  <1>1. size \in Nat /\ count \in Nat /\ HashCount \in Nat
    BY DEF BloomFilterAssumption
  <1>2. count <= HashCount /\ (size % 8 = 0 \/ ~ (size > 0))
    BY DEF Accepted
  <1> QED
    BY <1>1, <1>2, SMTT(60)

\* The bit of a key lies in the filter.
LEMMA BitOfInFilter ==
    ASSUME BloomFilterAssumption, NEW size \in Nat, size # 0,
           NEW x \in Key, NEW i \in 0 .. HashCount - 1
    PROVE  Hash[i][x] % size \in 0 .. size - 1
  <1>1. Hash[i][x] \in Nat
    BY DEF BloomFilterAssumption
  <1> QED
    BY <1>1
-----------------------------------------------------------------------------
(***************************************************************************)
(* The inductive invariant.                                                *)
(***************************************************************************)

\* A filter of no bits never finishes the loop of an addition.
NoBits == m = 0 /\ k # 0 => added = {} /\ (pc \in {"add", "check"} => iter = 0)

\* The bits of the added keys, and those the running addition has passed, are set.
BitsOfAdded == m # 0 => \A x \in added, i \in 0 .. k - 1 : IsSet(BitOf(i, x))

BitsOfRunning == m # 0 /\ pc = "add" => \A i \in 0 .. iter - 1 : IsSet(BitOf(i, key))

\* There are no other set bits.
Covered ==
    \A b \in SetBits :
        \/ \E x \in added, j \in 0 .. k - 1 : BitOf(j, x) = b
        \/ pc = "add" /\ \E j \in 0 .. iter - 1 : BitOf(j, key) = b

IndInv ==
    /\ TypeOK
    /\ NoBits
    /\ BitsOfAdded
    /\ BitsOfRunning
    /\ Covered
    /\ PositiveIsCovered

\* What a step that leaves the filter and the added keys alone preserves.
LEMMA FilterKept ==
    ASSUME IndInv, UNCHANGED <<m, k, n, bit_collision, filter_map, added>>
    PROVE  /\ SetBits' = SetBits
           /\ BitsOfAdded'
           /\ \A b : IsSet(b)' <=> IsSet(b)
           /\ \A i, x : BitOf(i, x)' = BitOf(i, x)
  BY DEF IndInv, BitsOfAdded, SetBits, IsSet, BitOf, Bit

LEMMA InitIndInv == BloomFilterAssumption /\ Init => IndInv
  <1> SUFFICES ASSUME BloomFilterAssumption, Init PROVE IndInv
    OBVIOUS
  <1> USE DEF Init
  <1>1. filter_map \in [0 .. (m \div 8) - 1 -> SUBSET (0 .. 7)]
    <2>1. 0 .. (m \div 8) - 1 = {}
      OBVIOUS
    <2> QED
      BY <2>1
  <1>2. TypeOK
    BY <1>1 DEF TypeOK, BloomFilterAssumption
  <1>3. SetBits = {}
    BY DEF SetBits, Bit
  <1>4. NoBits /\ BitsOfAdded /\ BitsOfRunning /\ Covered /\ PositiveIsCovered
    BY <1>3 DEF NoBits, BitsOfAdded, BitsOfRunning, Covered, PositiveIsCovered
  <1> QED
    BY <1>2, <1>4 DEF IndInv

\* A fresh filter has no bits set.
LEMMA InitMkStep ==
    ASSUME BloomFilterAssumption, IndInv, NEW size \in Sizes, NEW count \in Counts,
           InitMk(size, count)
    PROVE  IndInv'
  <1>1. CASE UNCHANGED <<params, filter, pc, added>>
    <2>1. UNCHANGED <<m, k, n, bit_collision, filter_map, pc, added, key, iter>>
      BY <1>1 DEF InitMk, params, filter
    <2> QED
      BY <2>1, FilterKept
      DEF IndInv, TypeOK, NoBits, BitsOfRunning, Covered, PositiveIsCovered, BitOf
  <1>2. CASE /\ Accepted(size, count)
             /\ m' = size /\ k' = count
             /\ n' = 0 /\ bit_collision' = 0
             /\ filter_map' = [i \in 0 .. (size \div 8) - 1 |-> {}]
             /\ pc' = "ready" /\ added' = {}
    <2>1. size \in Nat /\ count \in 0 .. HashCount /\ size % 8 = 0
      BY <1>2, AcceptedSize
    <2>2. TypeOK'
      BY <1>2, <2>1 DEF TypeOK, IndInv, InitMk
    <2>3. ASSUME NEW b \in 0 .. size - 1 PROVE b % 8 \notin filter_map'[b \div 8]
      BY <1>2, <2>1, BitPlace
    <2>4. SetBits' = {}
      BY <1>2, <2>3 DEF SetBits, Bit, IsSet
    <2>5. NoBits' /\ BitsOfAdded' /\ BitsOfRunning' /\ Covered' /\ PositiveIsCovered'
      BY <1>2, <2>4 DEF NoBits, BitsOfAdded, BitsOfRunning, Covered, PositiveIsCovered
    <2> QED
      BY <2>2, <2>5 DEF IndInv
  <1> QED
    BY <1>1, <1>2 DEF InitMk

LEMMA AddBeginStep ==
    ASSUME IndInv, NEW y \in Key, AddBegin(y)
    PROVE  IndInv'
  <1>1. /\ UNCHANGED <<m, k, filter_map, bit_collision, added>>
        /\ pc = "ready" /\ pc' = "add" /\ key' = y /\ iter' = 0 /\ n' = n + 1
    BY DEF AddBegin, params
  <1>2. TypeOK'
    BY <1>1 DEF IndInv, TypeOK
  <1>3. SetBits' = SetBits /\ BitsOfAdded'
    BY <1>1 DEF IndInv, BitsOfAdded, SetBits, IsSet, BitOf, Bit
  <1>4. NoBits' /\ BitsOfRunning' /\ PositiveIsCovered'
    BY <1>1 DEF IndInv, NoBits, BitsOfRunning, PositiveIsCovered
  <1>5. Covered'
    BY <1>1, <1>3 DEF IndInv, Covered, BitOf
  <1> QED
    BY <1>2, <1>3, <1>4, <1>5 DEF IndInv

\* The loop body of hi_bloom_filter_add sets one bit, of a hash function of the key.
LEMMA AddBitStep ==
    ASSUME BloomFilterAssumption, IndInv, AddBit
    PROVE  /\ IndInv'
           /\ LET bit == Hash[iter][key] % m
              IN bit \in Bit /\ SetBits' = SetBits \cup {bit}
  <1> DEFINE bit == Hash[iter][key] % m
  <1>1. /\ UNCHANGED <<m, k, n, pc, key, added>>
        /\ pc = "add" /\ iter < k /\ m # 0
        /\ bit_collision' = bit_collision + (IF IsSet(bit) THEN 1 ELSE 0)
        /\ filter_map' = [filter_map EXCEPT ![bit \div 8] = @ \cup {bit % 8}]
        /\ iter' = iter + 1
    BY DEF AddBit, params
  <1>2. /\ m \in Nat /\ m % 8 = 0 /\ iter \in 0 .. HashCount - 1 /\ key \in Key
        /\ k \in Nat /\ k <= HashCount
        /\ filter_map \in [0 .. (m \div 8) - 1 -> SUBSET (0 .. 7)]
    BY <1>1 DEF IndInv, TypeOK, BloomFilterAssumption
  <1>3. bit \in 0 .. m - 1
    BY <1>1, <1>2, BitOfInFilter
  <1> HIDE DEF bit
  <1>4. /\ filter_map' \in [0 .. (m \div 8) - 1 -> SUBSET (0 .. 7)]
        /\ \A b \in 0 .. m - 1 :
             b % 8 \in filter_map'[b \div 8] <=> b = bit \/ b % 8 \in filter_map[b \div 8]
    <2> DEFINE new == filter_map'
    <2>1. new = [filter_map EXCEPT ![bit \div 8] = @ \cup {bit % 8}]
      BY <1>1
    <2>2. bit \div 8 \in 0 .. (m \div 8) - 1 /\ bit % 8 \in 0 .. 7
      BY <1>2, <1>3, BitPlace
    <2> HIDE DEF new
    <2>3. new \in [0 .. (m \div 8) - 1 -> SUBSET (0 .. 7)]
      BY <1>2, <2>1, <2>2
    <2>4. \A c \in 0 .. (m \div 8) - 1 :
            new[c] = IF c = bit \div 8 THEN filter_map[c] \cup {bit % 8} ELSE filter_map[c]
      BY <1>2, <2>1, <2>2
    <2>5. \A b \in 0 .. m - 1 :
            b % 8 \in new[b \div 8] <=> b = bit \/ b % 8 \in filter_map[b \div 8]
      BY <1>2, <1>3, <2>4, SetOneBit
    <2> QED
      BY <2>3, <2>5 DEF new
  <1>5. \A b \in 0 .. m - 1 : IsSet(b)' <=> b = bit \/ IsSet(b)
    BY <1>4 DEF IsSet
  <1>6. SetBits' = SetBits \cup {bit}
    BY <1>1, <1>3, <1>5 DEF SetBits, Bit
  <1>7. TypeOK'
    <2>1. bit_collision' \in Nat
      BY <1>1 DEF IndInv, TypeOK
    <2>2. iter' \in Nat /\ iter' <= k
      BY <1>1, <1>2
    <2>3. n \in Nat /\ k \in 0 .. HashCount /\ added \subseteq Key
      BY DEF IndInv, TypeOK
    <2>4. filter_map' \in [0 .. (m' \div 8) - 1 -> SUBSET (0 .. 7)]
      BY <1>1, <1>4
    <2> QED
      BY <1>1, <1>2, <2>1, <2>2, <2>3, <2>4 DEF TypeOK
  <1>8. \A i \in 0 .. k - 1, x \in Key : BitOf(i, x) \in 0 .. m - 1
    <2> SUFFICES ASSUME NEW i \in 0 .. k - 1, NEW x \in Key PROVE BitOf(i, x) \in 0 .. m - 1
      OBVIOUS
    <2>1. i \in 0 .. HashCount - 1
      BY <1>2 DEF BloomFilterAssumption
    <2> QED
      BY <1>1, <1>2, <2>1, BitOfInFilter DEF BitOf
  <1>9. \A i, x : BitOf(i, x)' = BitOf(i, x)
    BY <1>1 DEF BitOf
  <1>10. BitOf(iter, key) = bit
    BY DEF BitOf, bit
  <1>11. NoBits'
    BY <1>1 DEF NoBits
  <1>12. BitsOfAdded'
    <2> SUFFICES ASSUME NEW x \in added, NEW i \in 0 .. k - 1
                 PROVE  IsSet(BitOf(i, x))'
      BY <1>1 DEF BitsOfAdded
    <2>1. x \in Key
      BY DEF IndInv, TypeOK
    <2>2. IsSet(BitOf(i, x))
      BY <1>1 DEF IndInv, BitsOfAdded
    <2>3. BitOf(i, x) \in 0 .. m - 1
      BY <1>8, <2>1
    <2>4. BitOf(i, x) % 8 \in filter_map'[BitOf(i, x) \div 8]
      BY <1>4, <2>2, <2>3 DEF IsSet
    <2> QED
      BY <1>9, <2>4 DEF IsSet
  <1>13. BitsOfRunning'
    <2> SUFFICES ASSUME NEW i \in 0 .. iter PROVE IsSet(BitOf(i, key))'
      BY <1>1, <1>2 DEF BitsOfRunning
    <2>1. BitOf(i, key) \in 0 .. m - 1
      BY <1>1, <1>2, <1>8
    <2>2. i # iter => IsSet(BitOf(i, key))
      BY <1>1, <1>2 DEF IndInv, BitsOfRunning
    <2>3. BitOf(i, key) % 8 \in filter_map'[BitOf(i, key) \div 8]
      BY <1>4, <1>10, <2>1, <2>2 DEF IsSet
    <2> QED
      BY <1>1, <1>9, <2>3 DEF IsSet
  <1>14. Covered'
    <2> SUFFICES ASSUME NEW b \in SetBits'
                 PROVE  \/ \E x \in added, j \in 0 .. k - 1 : BitOf(j, x) = b
                        \/ \E j \in 0 .. iter : BitOf(j, key) = b
      BY <1>1, <1>2, <1>9 DEF Covered
    <2>1. CASE b = bit
      BY <1>2, <1>10, <2>1
    <2>2. CASE b \in SetBits
      BY <1>2, <2>2 DEF IndInv, Covered
    <2> QED
      BY <1>6, <2>1, <2>2
  <1>15. PositiveIsCovered'
    BY <1>1 DEF PositiveIsCovered
  <1> QED
    BY <1>3, <1>6, <1>7, <1>11, <1>12, <1>13, <1>14, <1>15 DEF IndInv, bit, Bit

LEMMA AddEndStep ==
    ASSUME IndInv, AddEnd
    PROVE  IndInv' /\ SetBits' = SetBits
  <1>1. /\ UNCHANGED <<m, k, n, bit_collision, filter_map, key, iter>>
        /\ pc = "add" /\ iter = k /\ pc' = "ready" /\ added' = added \cup {key}
    BY DEF AddEnd, params, filter
  <1>2. key \in Key /\ iter \in Nat
    BY <1>1 DEF IndInv, TypeOK
  <1>3. TypeOK'
    BY <1>1, <1>2 DEF IndInv, TypeOK
  <1>4. SetBits' = SetBits /\ \A b : IsSet(b)' <=> IsSet(b)
    BY <1>1 DEF SetBits, IsSet, Bit
  <1>5. \A i, x : BitOf(i, x)' = BitOf(i, x)
    BY <1>1 DEF BitOf
  <1>6. NoBits'
    BY <1>1 DEF IndInv, NoBits
  <1>7. BitsOfAdded'
    BY <1>1, <1>2 DEF IndInv, BitsOfAdded, BitsOfRunning, IsSet, BitOf
  <1>8. Covered'
    BY <1>1, <1>2, <1>4, <1>5 DEF IndInv, Covered
  <1>9. BitsOfRunning' /\ PositiveIsCovered'
    BY <1>1 DEF BitsOfRunning, PositiveIsCovered
  <1> QED
    BY <1>3, <1>4, <1>6, <1>7, <1>8, <1>9 DEF IndInv

LEMMA CheckBitStep ==
    ASSUME BloomFilterAssumption, IndInv, CheckBit
    PROVE  IndInv'
  <1>1. /\ UNCHANGED <<m, k, n, bit_collision, filter_map, key, added>>
        /\ pc = "check" /\ iter < k /\ m # 0
        /\ \/ IsSet(Hash[iter][key] % m) /\ iter' = iter + 1 /\ pc' = pc
           \/ pc' = "ready" /\ iter' = iter
    BY DEF CheckBit, params, filter
  <1>2. /\ m \in Nat /\ iter \in 0 .. HashCount - 1 /\ key \in Key /\ k \in Nat
    BY <1>1 DEF IndInv, TypeOK, BloomFilterAssumption
  <1>3. TypeOK'
    BY <1>1, <1>2 DEF IndInv, TypeOK
  <1>4. SetBits' = SetBits /\ BitsOfAdded' /\ \A i, x : BitOf(i, x)' = BitOf(i, x)
    BY <1>1, FilterKept
  <1>5. NoBits' /\ BitsOfRunning'
    BY <1>1 DEF IndInv, NoBits, BitsOfRunning
  <1>6. Covered'
    BY <1>1, <1>4 DEF IndInv, Covered
  <1>7. PositiveIsCovered'
    <2>1. CASE pc' = "ready"
      BY <2>1 DEF PositiveIsCovered
    <2>2. CASE IsSet(Hash[iter][key] % m) /\ iter' = iter + 1 /\ pc' = pc
      <3>1. Hash[iter][key] % m \in 0 .. m - 1
        BY <1>1, <1>2, BitOfInFilter
      <3>2. BitOf(iter, key) \in SetBits
        BY <2>2, <3>1 DEF SetBits, BitOf, Bit
      <3>3. \E x \in added, j \in 0 .. k - 1 : BitOf(iter, key) = BitOf(j, x)
        BY <1>1, <3>2 DEF IndInv, Covered
      <3>4. \A i \in 0 .. iter : \E x \in added, j \in 0 .. k - 1 : BitOf(i, key) = BitOf(j, x)
        BY <1>1, <1>2, <3>3 DEF IndInv, PositiveIsCovered
      <3> QED
        BY <1>1, <1>2, <1>4, <2>2, <3>4 DEF PositiveIsCovered
    <2> QED
      BY <1>1, <2>1, <2>2
  <1> QED
    BY <1>3, <1>4, <1>5, <1>6, <1>7 DEF IndInv

\* The steps that leave the filter alone and end, or begin, a loop.
LEMMA OtherStep ==
    ASSUME IndInv,
           \/ \E x \in Key : CheckBegin(x)
           \/ DivideByZero \/ CheckEnd \/ Fini \/ Crashed
           \/ \E bit \in 0 .. m + 1 : BitGet(bit)
    PROVE  IndInv'
  <1>1. /\ UNCHANGED <<m, k, n, bit_collision, filter_map, added>>
        /\ \/ pc = "ready" /\ pc' = "check" /\ key' \in Key /\ iter' = 0
           \/ pc' \in {"ready", "none", "crashed"} /\ UNCHANGED <<key, iter>>
        /\ pc = "add" => pc' = "crashed" /\ m = 0
    BY DEF CheckBegin, DivideByZero, CheckEnd, Fini, Crashed, BitGet, params, filter, vars
  <1>2. TypeOK'
    BY <1>1 DEF IndInv, TypeOK
  <1>3. SetBits' = SetBits /\ BitsOfAdded' /\ \A i, x : BitOf(i, x)' = BitOf(i, x)
    BY <1>1, FilterKept
  <1>4. NoBits' /\ BitsOfRunning' /\ PositiveIsCovered'
    BY <1>1 DEF IndInv, NoBits, BitsOfRunning, PositiveIsCovered
  <1>5. pc = "add" => SetBits = {}
    BY <1>1 DEF SetBits, Bit
  <1>6. Covered'
    BY <1>1, <1>3, <1>5 DEF IndInv, Covered
  <1> QED
    BY <1>2, <1>3, <1>4, <1>6 DEF IndInv

LEMMA StepIndInv == BloomFilterAssumption /\ IndInv /\ [Next]_vars => IndInv'
  <1> SUFFICES ASSUME BloomFilterAssumption, IndInv, [Next]_vars PROVE IndInv'
    OBVIOUS
  <1>1. CASE Next
    BY <1>1, InitMkStep, AddBeginStep, AddBitStep, AddEndStep, CheckBitStep, OtherStep DEF Next
  <1>2. CASE UNCHANGED vars
    <2>1. UNCHANGED <<m, k, n, bit_collision, filter_map, pc, key, iter, added>>
      BY <1>2 DEF vars, params, filter
    <2>2. TypeOK'
      BY <2>1 DEF IndInv, TypeOK
    <2>3. SetBits' = SetBits /\ BitsOfAdded' /\ \A i, x : BitOf(i, x)' = BitOf(i, x)
      BY <2>1, FilterKept
    <2>4. NoBits' /\ BitsOfRunning'
      BY <2>1 DEF IndInv, NoBits, BitsOfRunning, IsSet, BitOf
    <2>5. Covered' /\ PositiveIsCovered'
      BY <2>1, <2>3 DEF IndInv, Covered, PositiveIsCovered
    <2> QED
      BY <2>2, <2>3, <2>4, <2>5 DEF IndInv
  <1> QED
    BY <1>1, <1>2
-----------------------------------------------------------------------------
(***************************************************************************)
(* The theorems.                                                           *)
(***************************************************************************)

\* IndInv holds in every state of every filter.
THEOREM Invariance == ASSUME BloomFilterAssumption PROVE Spec => []IndInv
  <1>1. Init => IndInv
    BY InitIndInv
  <1>2. IndInv /\ [Next]_vars => IndInv'
    BY StepIndInv
  <1> QED
    BY <1>1, <1>2, PTL DEF Spec

\* Type correctness: in particular the map always has m / 8 bytes, so no loop over
\* the hash functions reads or writes outside it.
THEOREM TypeCorrect == ASSUME BloomFilterAssumption PROVE Spec => []TypeOK
  <1>1. IndInv => TypeOK
    BY DEF IndInv
  <1> QED
    BY <1>1, Invariance, PTL

\* hi_bloom_filter_check never denies a key that hi_bloom_filter_add has added.
THEOREM AddedIsFound == ASSUME BloomFilterAssumption PROVE Spec => NoFalseNegative
  <1> DEFINE Denied == pc = "check" /\ pc' = "ready" /\ result' = "ABSENT" => key \notin added
  <1>1. IndInv /\ [Next]_vars => [Denied]_vars
    <2> SUFFICES ASSUME IndInv, Next,
                        pc = "check", pc' = "ready", result' = "ABSENT", key \in added
                 PROVE  FALSE
      OBVIOUS
    <2>1. CheckBit
      BY DEF Next, InitMk, AddBegin, CheckBegin, DivideByZero, AddBit, AddEnd, CheckEnd,
             BitGet, Fini, Crashed, vars
    <2>2. iter < k /\ m # 0 /\ ~ IsSet(Hash[iter][key] % m)
      BY <2>1 DEF CheckBit
    <2>3. iter \in 0 .. k - 1
      BY <2>2 DEF IndInv, TypeOK
    <2>4. IsSet(BitOf(iter, key))
      BY <2>2, <2>3 DEF IndInv, BitsOfAdded
    <2> QED
      BY <2>2, <2>4 DEF BitOf
  <1> QED
    BY <1>1, Invariance, PTL DEF Spec, NoFalseNegative

\* Every bit a check passes was set by an addition that has returned.
THEOREM PositivesAreCovered == ASSUME BloomFilterAssumption PROVE Spec => []PositiveIsCovered
  <1>1. IndInv => PositiveIsCovered
    BY DEF IndInv
  <1> QED
    BY <1>1, Invariance, PTL

\* The bits of a filter are a finite set.
LEMMA SetBitsFinite == ASSUME TypeOK PROVE IsFiniteSet(SetBits) /\ Cardinality(SetBits) \in Nat
  <1>1. m \in Nat
    BY DEF TypeOK
  <1>2. IsFiniteSet(0 .. m - 1)
    BY <1>1, FS_Interval
  <1>3. SetBits \subseteq 0 .. m - 1
    BY DEF SetBits, Bit
  <1>4. IsFiniteSet(SetBits)
    BY <1>2, <1>3, FS_Subset
  <1> QED
    BY <1>4, FS_CardinalityType

\* bit_collision and the set bits account for every bit an addition has visited.
LEMMA CollisionsStep ==
    ASSUME BloomFilterAssumption, IndInv, CollisionsExact, Next
    PROVE  CollisionsExact'
  <1>1. k \in Nat /\ n \in Nat /\ iter \in Nat /\ bit_collision \in Nat
    BY DEF IndInv, TypeOK, BloomFilterAssumption
  <1>2. IsFiniteSet(SetBits) /\ Cardinality(SetBits) \in Nat
    BY SetBitsFinite DEF IndInv
  <1>3. ASSUME NEW size \in Sizes, NEW count \in Counts, InitMk(size, count)
        PROVE  CollisionsExact'
    <2>1. CASE pc' = "none"
      BY <2>1 DEF CollisionsExact
    <2>2. CASE pc' # "none"
      <3>1. /\ Accepted(size, count) /\ m' = size /\ k' = count /\ n' = 0
            /\ bit_collision' = 0 /\ pc' = "ready"
            /\ filter_map' = [i \in 0 .. (size \div 8) - 1 |-> {}]
        BY <1>3, <2>2 DEF InitMk
      <3>2. size \in Nat /\ count \in Nat /\ size % 8 = 0
        BY <3>1, AcceptedSize
      <3>3. ASSUME NEW b \in 0 .. size - 1 PROVE b % 8 \notin filter_map'[b \div 8]
        BY <3>1, <3>2, BitPlace
      <3>4. SetBits' = {}
        BY <3>1, <3>3 DEF SetBits, Bit, IsSet
      <3>5. Cardinality(SetBits') = 0
        BY <3>4, FS_EmptySet
      <3>6. bit_collision' + Cardinality(SetBits') = k' * n'
        BY <3>1, <3>2, <3>5
      <3> QED
        BY <3>1, <3>6 DEF CollisionsExact
    <2> QED
      BY <2>1, <2>2
  <1>4. ASSUME NEW y \in Key, AddBegin(y)
        PROVE  CollisionsExact'
    <2>1. /\ UNCHANGED <<m, k, filter_map, bit_collision>>
          /\ pc = "ready" /\ pc' = "add" /\ iter' = 0 /\ n' = n + 1
      BY <1>4 DEF AddBegin, params
    <2>2. SetBits' = SetBits
      BY <2>1 DEF SetBits, Bit, IsSet
    <2>3. bit_collision + Cardinality(SetBits) = k * n
      BY <2>1 DEF CollisionsExact
    <2>4. n' - 1 = n
      BY <1>1, <2>1
    <2>5. k * n + 0 = k * n
      BY <1>1
    <2> QED
      BY <2>1, <2>2, <2>3, <2>4, <2>5 DEF CollisionsExact
  <1>5. CASE AddBit
    <2> DEFINE bit == Hash[iter][key] % m
    <2>1. bit \in Bit /\ SetBits' = SetBits \cup {bit}
      BY <1>5, AddBitStep
    <2>2. /\ pc = "add" /\ UNCHANGED <<k, n, pc>> /\ iter' = iter + 1
          /\ bit_collision' = bit_collision + (IF IsSet(bit) THEN 1 ELSE 0)
      BY <1>5 DEF AddBit, params
    <2> HIDE DEF bit
    <2>3. IsSet(bit) <=> bit \in SetBits
      BY <2>1 DEF SetBits
    <2>4. Cardinality(SetBits') = Cardinality(SetBits) + (IF IsSet(bit) THEN 0 ELSE 1)
      <3>1. CASE bit \in SetBits
        <4>1. SetBits' = SetBits
          BY <2>1, <3>1
        <4> QED
          BY <1>2, <2>3, <3>1, <4>1
      <3>2. CASE bit \notin SetBits
        <4>1. Cardinality(SetBits \cup {bit}) = Cardinality(SetBits) + 1
          BY <1>2, <3>2, FS_AddElement
        <4> QED
          BY <2>1, <2>3, <3>2, <4>1
      <3> QED
        BY <3>1, <3>2
    <2>5. bit_collision + Cardinality(SetBits) = k * (n - 1) + iter
      BY <2>2 DEF CollisionsExact
    <2>6. k * (n - 1) \in Int
      BY <1>1
    <2>7. bit_collision' + Cardinality(SetBits') = k * (n - 1) + (iter + 1)
      BY <1>1, <1>2, <2>2, <2>4, <2>5, <2>6
    <2> QED
      BY <2>2, <2>7 DEF CollisionsExact
  <1>6. CASE AddEnd
    <2>1. /\ UNCHANGED <<k, n, bit_collision>>
          /\ pc = "add" /\ iter = k /\ pc' = "ready"
      BY <1>6 DEF AddEnd, params, filter
    <2>2. SetBits' = SetBits
      BY <1>6, AddEndStep
    <2>3. bit_collision + Cardinality(SetBits) = k * (n - 1) + k
      BY <2>1 DEF CollisionsExact
    <2>4. k * (n - 1) + k = k * n
      BY <1>1
    <2> QED
      BY <2>1, <2>2, <2>3, <2>4 DEF CollisionsExact
  <1>7. CASE \/ CheckBit \/ CheckEnd \/ DivideByZero \/ Fini \/ Crashed
             \/ \E x \in Key : CheckBegin(x)
             \/ \E bit \in 0 .. m + 1 : BitGet(bit)
    <2>1. /\ UNCHANGED <<m, k, n, bit_collision, filter_map>>
          /\ pc' \in {"ready", "check"} => pc \in {"ready", "check"}
          /\ pc' # "add"
      BY <1>7 DEF CheckBit, CheckEnd, DivideByZero, Fini, Crashed, CheckBegin, BitGet,
                  params, filter, vars
    <2>2. SetBits' = SetBits
      BY <2>1 DEF SetBits, Bit, IsSet
    <2> QED
      BY <2>1, <2>2 DEF CollisionsExact
  <1> QED
    BY <1>3, <1>4, <1>5, <1>6, <1>7 DEF Next

\* bit_collision is exact, however often and in whatever order keys are added.
THEOREM CollisionsCounted == ASSUME BloomFilterAssumption PROVE Spec => []CollisionsExact
  <1>1. Init => CollisionsExact
    BY DEF Init, CollisionsExact
  <1>2. IndInv /\ CollisionsExact /\ [Next]_vars => CollisionsExact'
    <2>1. CASE UNCHANGED vars
      <3>1. UNCHANGED <<m, k, n, bit_collision, filter_map, pc, iter>>
        BY <2>1 DEF vars, params, filter
      <3>2. SetBits' = SetBits
        BY <3>1 DEF SetBits, Bit, IsSet
      <3> QED
        BY <3>1, <3>2 DEF CollisionsExact
    <2> QED
      BY <2>1, CollisionsStep
  <1> QED
    BY <1>1, <1>2, Invariance, PTL DEF Spec
=============================================================================
