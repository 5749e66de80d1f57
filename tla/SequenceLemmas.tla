-------------------------- MODULE SequenceLemmas ---------------------------
(***************************************************************************)
(* Facts about sequences that the proofs about the engines share: a search *)
(* that has a match stops at the first one, what removing an element or    *)
(* putting one in front makes of the others, and how counting numbers the  *)
(* positions that are kept when a sequence is packed.                      *)
(***************************************************************************)
EXTENDS Integers, SequencesExt, FiniteSetTheorems, FunctionTheorems, SequenceTheorems,
        WellFoundedInduction, TLAPS

\* Positions among 1 .. n have a first one.
LEMMA HasFirst ==
  ASSUME NEW n \in Nat, NEW S \in SUBSET (1 .. n), S # {}
  PROVE  \E i \in S : \A j \in S : i <= j
<1> DEFINE T == {1 .. i : i \in S}
           U == 1 .. n
           R == StrictSubsetOrdering(U)
<1>1. IsWellFoundedOn(R, FiniteSubsetsOf(U))
  BY FS_StrictSubsetOrderingWellFounded
<1>2. PICK X \in T : \A Y \in T : ~ (<<Y, X>> \in R)
  <2>1. T \subseteq FiniteSubsetsOf(U)
    <3>1. SUFFICES ASSUME NEW i \in S
                   PROVE  1 .. i \in FiniteSubsetsOf(U)
      OBVIOUS
    <3>2. i \in Int /\ 1 .. i \subseteq U
      OBVIOUS
    <3>3. IsFiniteSet(1 .. i)
      BY <3>2, FS_Interval, 1 \in Int
    <3> QED
      BY <3>2, <3>3 DEF FiniteSubsetsOf
  <2>2. T # {}
    OBVIOUS
  <2> HIDE DEF T, R
  <2> QED
    BY <1>1, <2>1, <2>2, WFMin
<1>3. PICK i \in S : X = 1 .. i
  OBVIOUS
<1>4. ASSUME NEW j \in S, j < i
      PROVE  FALSE
  <2>1. 1 .. j \in SUBSET U /\ 1 .. i \in SUBSET U
    OBVIOUS
  <2>2. 1 .. j \subseteq 1 .. i /\ 1 .. j # 1 .. i
    BY <1>4
  <2>3. <<1 .. j, 1 .. i>> \in R
    BY <2>1, <2>2 DEF StrictSubsetOrdering
  <2> QED
    BY <1>2, <1>3, <2>3
<1>5. \A j \in S : i <= j
  BY <1>4
<1> QED
  BY <1>5

\* Removing position i shortens a sequence by one and keeps the others in their order.
LEMMA RemoveAtProperties ==
  ASSUME NEW S, NEW s \in Seq(S), NEW i \in 1 .. Len(s)
  PROVE  /\ RemoveAt(s, i) \in Seq(S)
         /\ Len(RemoveAt(s, i)) = Len(s) - 1
         /\ \A j \in 1 .. Len(s) - 1 :
               RemoveAt(s, i)[j] = IF j < i THEN s[j] ELSE s[j + 1]
<1> DEFINE a == SubSeq(s, 1, i - 1)
           z == SubSeq(s, i + 1, Len(s))
<1>1. /\ a \in Seq(S) /\ Len(a) = i - 1
      /\ \A j \in 1 .. i - 1 : a[j] = s[j]
  OBVIOUS
<1>2. /\ z \in Seq(S) /\ Len(z) = Len(s) - i
      /\ \A j \in 1 .. Len(s) - i : z[j] = s[i + j]
  OBVIOUS
<1>3. RemoveAt(s, i) = a \o z
  BY DEF RemoveAt
<1>4. Len(s) \in Nat /\ i \in Int
  OBVIOUS
<1> HIDE DEF a, z
<1>5. /\ a \o z \in Seq(S)
      /\ Len(a \o z) = Len(a) + Len(z)
      /\ \A j \in 1 .. Len(a) + Len(z) :
            (a \o z)[j] = IF j <= Len(a) THEN a[j] ELSE z[j - Len(a)]
  BY <1>1, <1>2, ConcatProperties
<1>6. ASSUME NEW j \in 1 .. Len(s) - 1
      PROVE  (a \o z)[j] = IF j < i THEN s[j] ELSE s[j + 1]
  <2>1. CASE j < i
    BY <1>1, <1>2, <1>4, <1>5, <2>1
  <2>2. CASE j >= i
    <3>1. (a \o z)[j] = z[j - (i - 1)]
      BY <1>1, <1>2, <1>4, <1>5, <2>2
    <3>2. z[j - (i - 1)] = s[i + (j - (i - 1))]
      BY <1>2, <1>4, <2>2
    <3>3. i + (j - (i - 1)) = j + 1
      BY <1>4
    <3> QED
      BY <3>1, <3>2, <3>3, <1>4, <2>2
  <2>3. j < i \/ j >= i
    BY <1>4
  <2> QED
    BY <2>1, <2>2, <2>3
<1> QED
  BY <1>1, <1>2, <1>3, <1>4, <1>5, <1>6

\* An element in front shifts the others by one.
LEMMA PrependProperties ==
  ASSUME NEW S, NEW s \in Seq(S), NEW e \in S
  PROVE  /\ <<e>> \o s \in Seq(S)
         /\ Len(<<e>> \o s) = Len(s) + 1
         /\ (<<e>> \o s)[1] = e
         /\ \A j \in 2 .. Len(s) + 1 : (<<e>> \o s)[j] = s[j - 1]
<1>1. <<e>> \in Seq(S) /\ Len(<<e>>) = 1 /\ <<e>>[1] = e
  OBVIOUS
<1> QED
  BY <1>1, ConcatProperties

\* Counting the smaller members of a finite set numbers its members from 0.
LEMMA RankProperties ==
  ASSUME NEW K \in SUBSET Nat, IsFiniteSet(K)
  PROVE  LET rank(i) == Cardinality({j \in K : j < i}) IN
         /\ Cardinality(K) \in Nat
         /\ \A i \in K : rank(i) \in 0 .. Cardinality(K) - 1
         /\ \A i, j \in K : i < j => rank(i) < rank(j)
         /\ \A r \in 0 .. Cardinality(K) - 1 : \E i \in K : rank(i) = r
<1> DEFINE Below(i) == {j \in K : j < i}
           rank(i) == Cardinality(Below(i))
           m == Cardinality(K)
           f == [i \in K |-> rank(i)]
<1>1. m \in Nat
  BY FS_CardinalityType
<1>2. \A i \in K : Below(i) \subseteq K /\ i \notin Below(i) /\ i \in Nat
  OBVIOUS
<1>3. ASSUME NEW i \in K
      PROVE  IsFiniteSet(Below(i)) /\ rank(i) \in 0 .. m - 1
  <2>1. IsFiniteSet(Below(i)) /\ rank(i) <= m /\ (m = rank(i) => K = Below(i))
    <3>1. Below(i) \in SUBSET K
      OBVIOUS
    <3> QED
      BY <3>1, FS_Subset
  <2>2. rank(i) \in Nat
    BY <2>1, FS_CardinalityType
  <2> QED
    BY <1>1, <1>2, <2>1, <2>2
<1>4. ASSUME NEW i \in K, NEW j \in K, i < j
      PROVE  rank(i) < rank(j)
  <2>1. Below(i) \in SUBSET Below(j) /\ i \in Below(j) /\ i \notin Below(i)
    <3>1. \A l \in K : l \in Nat
      OBVIOUS
    <3>2. ASSUME NEW l \in Below(i)
          PROVE  l \in Below(j)
      <4>1. l \in K /\ l < i
        OBVIOUS
      <4> QED
        BY <1>4, <3>1, <4>1
    <3>3. i \in Below(j)
      BY <1>4
    <3> QED
      BY <1>2, <3>2, <3>3
  <2> HIDE DEF Below
  <2>a. IsFiniteSet(Below(j))
    BY <1>3
  <2>2. Cardinality(Below(i)) <= Cardinality(Below(j))
        /\ (Cardinality(Below(j)) = Cardinality(Below(i)) => Below(j) = Below(i))
    BY <1>3, <2>1, FS_Subset
  <2> QED
    BY <1>1, <1>3, <2>1, <2>2
<1>5. f \in Injection(K, 0 .. m - 1)
  <2>1. f \in [K -> 0 .. m - 1]
    BY <1>3
  <2>2. ASSUME NEW i \in K, NEW j \in K, f[i] = f[j]
        PROVE  i = j
    <3>1. i = j \/ i < j \/ j < i
      BY <1>2
    <3>2. rank(i) = rank(j) /\ rank(i) \in 0 .. m - 1
      BY <1>3, <2>2
    <3> HIDE DEF rank
    <3> QED
      BY <1>1, <1>4, <3>1, <3>2
  <2> HIDE DEF f
  <2> QED
    BY <2>1, <2>2, Fun_IsInj
<1>6. IsFiniteSet(0 .. m - 1) /\ Cardinality(0 .. m - 1) = m
  <2>1. 0 \in Int /\ m - 1 \in Int
    BY <1>1
  <2>2. IsFiniteSet(0 .. m - 1) /\ Cardinality(0 .. m - 1) = IF 0 > m - 1 THEN 0 ELSE (m - 1) - 0 + 1
    BY <2>1, FS_Interval
  <2> HIDE DEF m
  <2> QED
    BY <1>1, <2>2
<1>7. f \in Surjection(K, 0 .. m - 1)
  BY <1>5, <1>6, FS_Injection
<1>8. \A r \in 0 .. m - 1 : \E i \in K : f[i] = r
  <2> HIDE DEF f, m
  <2> QED
    BY <1>7, Fun_SurjectionProperties, ZenonT(60)
<1> QED
  BY <1>1, <1>3, <1>4, <1>8
=============================================================================
