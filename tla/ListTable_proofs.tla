-------------------------- MODULE ListTable_proofs --------------------------
(***************************************************************************)
(* Proofs about ListTable.                                                 *)
(***************************************************************************)
EXTENDS ListTable, SequenceLemmas, FunctionTheorems

(***************************************************************************)
(* Lemmas about the helpers of the walks.                                  *)
(***************************************************************************)

\* hash_func(key) % table_size is a bucket.
LEMMA BucketOfType == \A k \in Key : BucketOf(k) \in Bucket
  BY ListTableAssumption DEF BucketOf, Bucket

\* A walk that has a match stops at one of the matching positions.
LEMMA FirstInSet ==
  ASSUME NEW n \in Nat, NEW S \in SUBSET (1 .. n), S # {}
  PROVE  First(S) \in S /\ \A j \in S : First(S) <= j
  BY HasFirst DEF First

\* Moving an entry to the front keeps the length of the chain and its entries.
LEMMA MoveToFrontProperties ==
  ASSUME NEW S, NEW s \in Seq(S), NEW i \in 1 .. Len(s)
  PROVE  /\ MoveToFront(s, i) \in Seq(S)
         /\ Len(MoveToFront(s, i)) = Len(s)
<1>1. s[i] \in S
  OBVIOUS
<1> QED
  BY <1>1, RemoveAtProperties, PrependProperties DEF MoveToFront

\* The places of the entries, position by position.
LEMMA PositionsMembers ==
  ASSUME NEW c \in [Bucket -> Seq(Entry)]
  PROVE  \A x : x \in Positions(c) <=> \E b \in Bucket : \E i \in 1 .. Len(c[b]) : x = <<b, i>>
<1>1. \A b \in Bucket : DOMAIN c[b] = 1 .. Len(c[b])
  OBVIOUS
<1> QED
  BY <1>1 DEF Positions

\* A chain that grows by one entry adds one place to the table ...
LEMMA PositionsGrow ==
  ASSUME NEW c \in [Bucket -> Seq(Entry)], IsFiniteSet(Positions(c)),
         NEW b \in Bucket, NEW s \in Seq(Entry), Len(s) = Len(c[b]) + 1
  PROVE  LET d == [c EXCEPT ![b] = s] IN
         /\ IsFiniteSet(Positions(d))
         /\ Cardinality(Positions(d)) = Cardinality(Positions(c)) + 1
<1> DEFINE d == [c EXCEPT ![b] = s]
           p == <<b, Len(c[b]) + 1>>
<1>1. d \in [Bucket -> Seq(Entry)] /\ d[b] = s /\ \A a \in Bucket \ {b} : d[a] = c[a]
  OBVIOUS
<1>2. Len(c[b]) \in Nat
  OBVIOUS
<1>3. p \notin Positions(c)
  BY <1>2, PositionsMembers
<1> HIDE DEF d
<1>4. ASSUME NEW x
      PROVE  x \in Positions(d) <=> x \in Positions(c) \cup {p}
  <2>1. \A y : y \in Positions(d) <=> \E a \in Bucket : \E i \in 1 .. Len(d[a]) : y = <<a, i>>
    BY <1>1, PositionsMembers
  <2>2. \A y : y \in Positions(c) <=> \E a \in Bucket : \E i \in 1 .. Len(c[a]) : y = <<a, i>>
    BY PositionsMembers
  <2>3. 1 .. Len(d[b]) = (1 .. Len(c[b])) \cup {Len(c[b]) + 1}
    BY <1>1, <1>2
  <2> QED
    BY <1>1, <2>1, <2>2, <2>3
<1>5. Positions(d) = Positions(c) \cup {p}
  BY <1>4
<1> QED
  BY <1>3, <1>5, FS_AddElement, ZenonT(60) DEF d

\* ... one that shrinks by one entry takes one away ...
LEMMA PositionsShrink ==
  ASSUME NEW c \in [Bucket -> Seq(Entry)], IsFiniteSet(Positions(c)),
         NEW b \in Bucket, NEW s \in Seq(Entry), Len(s) = Len(c[b]) - 1
  PROVE  LET d == [c EXCEPT ![b] = s] IN
         /\ IsFiniteSet(Positions(d))
         /\ Cardinality(Positions(d)) = Cardinality(Positions(c)) - 1
<1> DEFINE d == [c EXCEPT ![b] = s]
           p == <<b, Len(c[b])>>
<1>1. d \in [Bucket -> Seq(Entry)] /\ d[b] = s /\ \A a \in Bucket \ {b} : d[a] = c[a]
  OBVIOUS
<1>2. Len(c[b]) \in Nat /\ Len(s) \in Nat
  OBVIOUS
<1>3. p \in Positions(c)
  BY <1>2, PositionsMembers
<1> HIDE DEF d
<1>4. ASSUME NEW x
      PROVE  x \in Positions(d) <=> x \in Positions(c) \ {p}
  <2>1. \A y : y \in Positions(d) <=> \E a \in Bucket : \E i \in 1 .. Len(d[a]) : y = <<a, i>>
    BY <1>1, PositionsMembers
  <2>2. \A y : y \in Positions(c) <=> \E a \in Bucket : \E i \in 1 .. Len(c[a]) : y = <<a, i>>
    BY PositionsMembers
  <2>3. 1 .. Len(d[b]) = (1 .. Len(c[b])) \ {Len(c[b])}
    BY <1>1, <1>2
  <2> QED
    BY <1>1, <2>1, <2>2, <2>3
<1>5. Positions(d) = Positions(c) \ {p}
  BY <1>4
<1> QED
  BY <1>3, <1>5, FS_RemoveElement, ZenonT(60) DEF d

\* ... and one that is only reordered leaves the places alone.
LEMMA PositionsKept ==
  ASSUME NEW c \in [Bucket -> Seq(Entry)],
         NEW b \in Bucket, NEW s \in Seq(Entry), Len(s) = Len(c[b])
  PROVE  Positions([c EXCEPT ![b] = s]) = Positions(c)
<1> DEFINE d == [c EXCEPT ![b] = s]
<1>1. d \in [Bucket -> Seq(Entry)] /\ \A a \in Bucket : Len(d[a]) = Len(c[a])
  OBVIOUS
<1> HIDE DEF d
<1>2. \A x : x \in Positions(d) <=> \E a \in Bucket : \E i \in 1 .. Len(d[a]) : x = <<a, i>>
  BY <1>1, PositionsMembers
<1>3. \A x : x \in Positions(c) <=> \E a \in Bucket : \E i \in 1 .. Len(c[a]) : x = <<a, i>>
  BY PositionsMembers
<1> QED
  BY <1>1, <1>2, <1>3 DEF d
-----------------------------------------------------------------------------
(***************************************************************************)
(* The inductive invariant.                                                *)
(***************************************************************************)

Critical == {"lookup", "lookup_unlock", "walk", "store", "count", "unlock"}

\* The thread between a lock and its unlock is the one that holds the mutex.
MutexInv == \A t \in Thread : pc[t] \in Critical <=> mutex = t

\* Where a thread is says which call it makes.
CallInv ==
    \A t \in Thread :
        /\ pc[t] # "idle" => call[t] \in CallsOf(t)
        /\ pc[t] \in {"lookup_lock", "lookup", "lookup_unlock"} => call[t].op = "insert"
        /\ pc[t] = "count" => call[t].op \in {"insert", "remove"}

\* The chain a thread stores into is the chain it walked.
SeenInv == \A t \in Thread : pc[t] = "store" => seen[t] = chain[call[t].bucket]

\* The entries thread t has linked or unlinked and not yet counted.
Uncounted(t) == IF call[t].op = "insert" THEN 1 ELSE -1

CountInv ==
    /\ IsFiniteSet(Positions(chain))
    /\ (\A t \in Thread : pc[t] # "count") =>
          /\ \A b \in Bucket : bucket_size[b] = Len(chain[b])
          /\ no_objects = Cardinality(Positions(chain))
    /\ \A t \in Thread : pc[t] = "count" =>
          /\ bucket_size[call[t].bucket] = Len(chain[call[t].bucket]) - Uncounted(t)
          /\ \A b \in Bucket \ {call[t].bucket} : bucket_size[b] = Len(chain[b])
          /\ no_objects = Cardinality(Positions(chain)) - Uncounted(t)

IndInv == TypeOK /\ MutexInv /\ CallInv /\ SeenInv /\ CountInv

\* The calls have the fields their operation needs.
LEMMA CallShape ==
  ASSUME NEW t \in Thread, NEW c \in CallsOf(t)
  PROVE  /\ c.op \in {"insert", "get", "remove", "to_array"}
         /\ c.bucket \in Bucket
         /\ c.op = "insert" => /\ c.key \in InsertKeys[t] /\ c.key \in Key
                               /\ c.data \in Data /\ c.bucket = BucketOf(c.key)
         /\ c.op \in {"get", "remove"} => c.key \in Key /\ c.bucket = BucketOf(c.key)
  BY ListTableAssumption, BucketOfType DEF CallsOf

\* A return value is well-typed.
LEMMA AnswerType ==
  ASSUME TypeOK, NEW t \in Thread, NEW code \in Code, NEW data \in Data \cup {None},
         NEW content \in SUBSET (Key \X Data), Answer(t, code, data, content)
  PROVE  reply' \in [Thread -> [code: Code, data: Data \cup {None}, content: SUBSET (Key \X Data)]]
  BY DEF TypeOK, Answer

\* A jump is well-typed.
LEMMA GotoType ==
  ASSUME TypeOK, NEW t \in Thread, NEW l \in PC, Goto(t, l)
  PROVE  pc' \in [Thread -> PC]
  BY DEF TypeOK, Goto

LEMMA InitIndInv == Init => IndInv
<1> SUFFICES ASSUME Init
             PROVE  IndInv
  OBVIOUS
<1>1. TypeOK
  BY ListTableAssumption DEF Init, TypeOK, PC, Code, NoReply
<1>2. MutexInv /\ CallInv /\ SeenInv
  BY ListTableAssumption DEF Init, MutexInv, CallInv, SeenInv, Critical
<1>3. CountInv
  <2>1. Positions(chain) = {}
    BY DEF Init, Positions
  <2>2. IsFiniteSet({}) /\ Cardinality({}) = 0
    BY FS_EmptySet
  <2> QED
    BY <2>1, <2>2 DEF Init, CountInv
<1> QED
  BY <1>1, <1>2, <1>3 DEF IndInv

\* A step of one thread preserves the invariant.
LEMMA StepIndInv ==
  ASSUME IndInv, NEW t \in Thread, Begin(t) \/ Step(t)
  PROVE  IndInv'
<1> USE DEF IndInv
<1>0. /\ mutex \in Thread \cup {NoOwner} /\ NoOwner \notin Thread
      /\ pc[t] # "idle" => call[t] \in CallsOf(t)
  BY ListTableAssumption DEF TypeOK, CallInv
<1>1. CASE Begin(t)
  <2>0. PICK c \in CallsOf(t) :
          /\ call' = [call EXCEPT ![t] = c]
          /\ Goto(t, IF c.op = "insert" THEN "lookup_lock" ELSE "lock")
    BY <1>1 DEF Begin
  <2>1. TypeOK'
    <3>1. pc' \in [Thread -> PC]
      BY <2>0, GotoType DEF PC
    <3>2. reply' \in [Thread -> [code: Code, data: Data \cup {None}, content: SUBSET (Key \X Data)]]
      <4>1. NoReply \in [code: Code, data: Data \cup {None}, content: SUBSET (Key \X Data)]
        BY DEF NoReply, Code
      <4> QED
        BY <1>1, <4>1 DEF Begin, TypeOK
    <3>3. calls' \in [Thread -> 0 .. MaxCalls]
      BY <1>1, ListTableAssumption DEF TypeOK, Begin
    <3>4. call' \in [Thread -> AnyCall \cup {NoCall}]
      <4>1. c \in AnyCall
        BY DEF AnyCall
      <4> QED
        BY <2>0, <4>1 DEF TypeOK
    <3> QED
      BY <1>1, <3>1, <3>2, <3>3, <3>4 DEF TypeOK, Begin, table
  <2>2. MutexInv'
    BY <1>0, <1>1 DEF TypeOK, MutexInv, Critical, Begin, table, Goto
  <2>3. CallInv'
    <3>1. /\ call'[t] = c
          /\ pc'[t] = IF c.op = "insert" THEN "lookup_lock" ELSE "lock"
          /\ \A u \in Thread \ {t} : call'[u] = call[u] /\ pc'[u] = pc[u]
      BY <2>0 DEF TypeOK, Goto, CallsOf
    <3> QED
      BY <2>0, <3>1 DEF CallInv
  <2>4. SeenInv'
    BY <1>0, <1>1 DEF TypeOK, SeenInv, Begin, table, Goto
  <2>5. CountInv'
    BY <1>0, <1>1, ZenonT(60) DEF TypeOK, CountInv, Uncounted, Begin, table, Goto
  <2> QED
    BY <2>1, <2>2, <2>3, <2>4, <2>5
<1>2. CASE LookupLock(t)
  <2>1. TypeOK'
    BY <1>0, <1>2, CallShape DEF TypeOK, LookupLock, table, Goto, Acquire, PC, Code, NoReply
  <2>2. MutexInv'
    BY <1>0, <1>2 DEF TypeOK, MutexInv, Critical, LookupLock, table, Goto, Acquire
  <2>3. CallInv'
    BY <1>0, <1>2 DEF TypeOK, CallInv, LookupLock, table, Goto, Acquire
  <2>4. SeenInv'
    BY <1>0, <1>2 DEF TypeOK, SeenInv, LookupLock, table, Goto, Acquire
  <2>5. CountInv'
    BY <1>0, <1>2 DEF TypeOK, CountInv, Uncounted, LookupLock, table, Goto, Acquire
  <2> QED
    BY <2>1, <2>2, <2>3, <2>4, <2>5
<1>3. CASE Lookup(t)
  <2>1. TypeOK'
    <3>1. pc' \in [Thread -> PC]
      BY <1>3, GotoType DEF Lookup, PC
    <3>2. reply' \in [Thread -> [code: Code, data: Data \cup {None}, content: SUBSET (Key \X Data)]]
      BY <1>3, AnswerType DEF Lookup, Code, TypeOK
    <3> QED
      BY <1>3, <3>1, <3>2 DEF TypeOK, Lookup, table
  <2>2. MutexInv'
    BY <1>0, <1>3 DEF TypeOK, MutexInv, Critical, Lookup, table, Goto, Answer
  <2>3. CallInv'
    BY <1>0, <1>3 DEF TypeOK, CallInv, Lookup, table, Goto, Answer
  <2>4. SeenInv'
    BY <1>0, <1>3 DEF TypeOK, SeenInv, Lookup, table, Goto, Answer
  <2>5. CountInv'
    BY <1>0, <1>3 DEF TypeOK, CountInv, Uncounted, Lookup, table, Goto, Answer
  <2> QED
    BY <2>1, <2>2, <2>3, <2>4, <2>5
<1>4. CASE LookupUnlock(t)
  <2>1. TypeOK'
    BY <1>0, <1>4, CallShape DEF TypeOK, LookupUnlock, table, Goto, Release, PC, Code, NoReply
  <2>2. MutexInv'
    BY <1>0, <1>4 DEF TypeOK, MutexInv, Critical, LookupUnlock, table, Goto, Release
  <2>3. CallInv'
    BY <1>0, <1>4 DEF TypeOK, CallInv, LookupUnlock, table, Goto, Release
  <2>4. SeenInv'
    BY <1>0, <1>4 DEF TypeOK, SeenInv, LookupUnlock, table, Goto, Release
  <2>5. CountInv'
    BY <1>0, <1>4 DEF TypeOK, CountInv, Uncounted, LookupUnlock, table, Goto, Release
  <2> QED
    BY <2>1, <2>2, <2>3, <2>4, <2>5
<1>5. CASE Lock(t)
  <2>1. TypeOK'
    BY <1>0, <1>5, CallShape DEF TypeOK, Lock, table, Goto, Acquire, PC, Code, NoReply
  <2>2. MutexInv'
    BY <1>0, <1>5 DEF TypeOK, MutexInv, Critical, Lock, table, Goto, Acquire
  <2>3. CallInv'
    BY <1>0, <1>5 DEF TypeOK, CallInv, Lock, table, Goto, Acquire
  <2>4. SeenInv'
    BY <1>0, <1>5 DEF TypeOK, SeenInv, Lock, table, Goto, Acquire
  <2>5. CountInv'
    BY <1>0, <1>5 DEF TypeOK, CountInv, Uncounted, Lock, table, Goto, Acquire
  <2> QED
    BY <2>1, <2>2, <2>3, <2>4, <2>5
<1>6. CASE AllocFails(t)
  <2>1. TypeOK'
    BY <1>0, <1>6, CallShape DEF TypeOK, AllocFails, table, Goto, Answer, PC, Code, NoReply
  <2>2. MutexInv'
    BY <1>0, <1>6 DEF TypeOK, MutexInv, Critical, AllocFails, table, Goto, Answer
  <2>3. CallInv'
    BY <1>0, <1>6 DEF TypeOK, CallInv, AllocFails, table, Goto, Answer
  <2>4. SeenInv'
    BY <1>0, <1>6 DEF TypeOK, SeenInv, AllocFails, table, Goto, Answer
  <2>5. CountInv'
    BY <1>0, <1>6 DEF TypeOK, CountInv, Uncounted, AllocFails, table, Goto, Answer
  <2> QED
    BY <2>1, <2>2, <2>3, <2>4, <2>5
<1>7. CASE ToArrayEmpty(t)
  <2>1. TypeOK'
    BY <1>0, <1>7, CallShape DEF TypeOK, ToArrayEmpty, table, Goto, Answer, PC, Code, NoReply
  <2>2. MutexInv'
    BY <1>0, <1>7 DEF TypeOK, MutexInv, Critical, ToArrayEmpty, table, Goto, Answer
  <2>3. CallInv'
    BY <1>0, <1>7 DEF TypeOK, CallInv, ToArrayEmpty, table, Goto, Answer
  <2>4. SeenInv'
    BY <1>0, <1>7 DEF TypeOK, SeenInv, ToArrayEmpty, table, Goto, Answer
  <2>5. CountInv'
    BY <1>0, <1>7 DEF TypeOK, CountInv, Uncounted, ToArrayEmpty, table, Goto, Answer
  <2> QED
    BY <2>1, <2>2, <2>3, <2>4, <2>5
<1>8. CASE Walk(t)
  <2>1. TypeOK'
    BY <1>0, <1>8, CallShape DEF TypeOK, Walk, table, Goto, PC, Code, NoReply
  <2>2. MutexInv'
    BY <1>0, <1>8 DEF TypeOK, MutexInv, Critical, Walk, table, Goto
  <2>3. CallInv'
    BY <1>0, <1>8 DEF TypeOK, CallInv, Walk, table, Goto
  <2>4. SeenInv'
    BY <1>0, <1>8 DEF TypeOK, SeenInv, Walk, table, Goto
  <2>5. CountInv'
    BY <1>0, <1>8 DEF TypeOK, CountInv, Uncounted, Walk, table, Goto
  <2> QED
    BY <2>1, <2>2, <2>3, <2>4, <2>5
<1>9. CASE InsertStore(t)
  <2> DEFINE c == call[t]
             new(h) == <<[key |-> c.key, data |-> c.data, key_hash |-> h]>> \o seen[t]
  <2>1. /\ pc[t] = "store" /\ c.op = "insert" /\ c \in CallsOf(t)
        /\ \A u \in Thread \ {t} : pc[u] \notin Critical
        /\ seen[t] = chain[c.bucket] /\ seen[t] \in Seq(Entry)
    BY <1>9 DEF InsertStore, TypeOK, MutexInv, CallInv, SeenInv, Critical
  <2>2. c.bucket \in Bucket /\ c.key \in Key /\ c.data \in Data
    BY <2>1, CallShape
  <2>3. PICK h \in HashVal : chain' = [chain EXCEPT ![c.bucket] = new(h)]
    BY <1>9 DEF InsertStore
  <2>4. new(h) \in Seq(Entry) /\ Len(new(h)) = Len(chain[c.bucket]) + 1
    BY <2>1, <2>2, PrependProperties DEF Entry
  <2>5. chain' \in [Bucket -> Seq(Entry)]
    BY <2>2, <2>3, <2>4 DEF TypeOK
  <2>6. /\ IsFiniteSet(Positions(chain)')
        /\ Cardinality(Positions(chain)') = Cardinality(Positions(chain)) + 1
    BY <2>2, <2>3, <2>4, PositionsGrow DEF TypeOK, CountInv
  <2>7. /\ Len(chain'[c.bucket]) = Len(chain[c.bucket]) + 1
        /\ \A b \in Bucket \ {c.bucket} : chain'[b] = chain[b]
    BY <2>2, <2>3, <2>4 DEF TypeOK
  <2>8. TypeOK'
    BY <1>9, <2>5 DEF TypeOK, InsertStore, Goto, Answer, PC, Code
  <2>9. MutexInv'
    BY <1>0, <1>9 DEF TypeOK, MutexInv, Critical, InsertStore, Goto
  <2>10. CallInv' /\ SeenInv'
    BY <1>9, <2>1 DEF TypeOK, CallInv, SeenInv, Critical, InsertStore, Goto
  <2>11. CountInv'
    <3>1. /\ pc'[t] = "count" /\ call' = call
          /\ \A u \in Thread : pc'[u] = "count" => u = t
      BY <1>9, <2>1 DEF TypeOK, InsertStore, Goto, Critical
    <3>2. /\ \A b \in Bucket : bucket_size'[b] = Len(chain[b])
          /\ no_objects' = Cardinality(Positions(chain))
      BY <1>9, <2>1 DEF InsertStore, CountInv, Critical
    <3>3. \A b \in Bucket : Len(chain[b]) \in Nat
      BY DEF TypeOK
    <3>4. Cardinality(Positions(chain)) \in Nat
      BY FS_CardinalityType DEF CountInv
    <3>5. Uncounted(t)' = 1
      BY <2>1, <3>1 DEF Uncounted
    <3>6. /\ bucket_size'[c.bucket] = Len(chain'[c.bucket]) - 1
          /\ \A b \in Bucket \ {c.bucket} : bucket_size'[b] = Len(chain'[b])
      BY <2>2, <2>7, <3>2, <3>3
    <3>7. no_objects' = Cardinality(Positions(chain)') - 1
      BY <2>6, <3>2, <3>4
    <3> QED
      BY <2>1, <2>6, <3>1, <3>5, <3>6, <3>7 DEF CountInv
  <2> QED
    BY <2>8, <2>9, <2>10, <2>11
<1>10. CASE RemoveStore(t)
  <2> DEFINE c == call[t]
             hits == Hits(seen[t], c.key)
             i == First(hits)
  <2>1. /\ pc[t] = "store" /\ c.op = "remove" /\ c \in CallsOf(t)
        /\ \A u \in Thread \ {t} : pc[u] \notin Critical
        /\ seen[t] = chain[c.bucket] /\ seen[t] \in Seq(Entry)
    BY <1>10 DEF RemoveStore, TypeOK, MutexInv, CallInv, SeenInv, Critical
  <2>2. c.bucket \in Bucket
    BY <2>1, CallShape
  <2>3. CASE hits = {}
    <3>1. TypeOK'
      <4>1. Answer(t, "NOKEY", None, {}) /\ Goto(t, "unlock")
        BY <1>10, <2>3 DEF RemoveStore
      <4> QED
        BY <1>10, <2>3, <4>1, AnswerType, GotoType DEF TypeOK, RemoveStore, PC, Code
    <3>2. MutexInv' /\ CallInv' /\ SeenInv'
      BY <1>0, <1>10, <2>3
      DEF TypeOK, MutexInv, CallInv, SeenInv, Critical, RemoveStore, Goto
    <3>3. CountInv'
      BY <1>10, <2>1, <2>3 DEF TypeOK, CountInv, Critical, Uncounted, RemoveStore, Goto
    <3> QED
      BY <3>1, <3>2, <3>3
  <2>4. CASE hits # {}
    <3>1. Len(seen[t]) \in Nat /\ hits \in SUBSET (1 .. Len(seen[t]))
      BY <2>1 DEF Hits
    <3>2. i \in 1 .. Len(seen[t])
      BY <2>4, <3>1, FirstInSet
    <3>3. /\ RemoveAt(seen[t], i) \in Seq(Entry)
          /\ Len(RemoveAt(seen[t], i)) = Len(chain[c.bucket]) - 1
      BY <2>1, <3>2, RemoveAtProperties
    <3>12. seen[t][i].data \in Data
      <4>1. seen[t][i] \in Entry
        BY <2>1, <3>2
      <4> QED
        BY <4>1 DEF Entry
    <3>4. chain' = [chain EXCEPT ![c.bucket] = RemoveAt(seen[t], i)]
      BY <1>10, <2>4 DEF RemoveStore
    <3>5. chain' \in [Bucket -> Seq(Entry)]
      BY <2>2, <3>3, <3>4 DEF TypeOK
    <3>6. /\ IsFiniteSet(Positions(chain)')
          /\ Cardinality(Positions(chain)') = Cardinality(Positions(chain)) - 1
      <4> HIDE DEF i
      <4> QED
        BY <2>2, <3>3, <3>4, PositionsShrink DEF TypeOK, CountInv
    <3>7. /\ Len(chain'[c.bucket]) = Len(chain[c.bucket]) - 1
          /\ \A b \in Bucket \ {c.bucket} : chain'[b] = chain[b]
      BY <2>2, <3>3, <3>4 DEF TypeOK
    <3>8. TypeOK'
      <4>1. Answer(t, "SUCCESS", seen[t][i].data, {}) /\ Goto(t, "count")
        BY <1>10, <2>4 DEF RemoveStore
      <4> QED
        BY <1>10, <3>5, <3>12, <4>1, AnswerType, GotoType DEF TypeOK, RemoveStore, PC, Code
    <3>9. MutexInv'
      BY <1>0, <1>10, <2>4 DEF TypeOK, MutexInv, Critical, RemoveStore, Goto
    <3>10. CallInv' /\ SeenInv'
      BY <1>10, <2>1, <2>4 DEF TypeOK, CallInv, SeenInv, Critical, RemoveStore, Goto
    <3>11. CountInv'
      <4>1. /\ pc'[t] = "count" /\ call' = call
            /\ \A u \in Thread : pc'[u] = "count" => u = t
        BY <1>10, <2>1, <2>4 DEF TypeOK, RemoveStore, Goto, Critical
      <4>2. /\ \A b \in Bucket : bucket_size'[b] = Len(chain[b])
            /\ no_objects' = Cardinality(Positions(chain))
        BY <1>10, <2>1 DEF RemoveStore, CountInv, Critical
      <4>3. \A b \in Bucket : Len(chain[b]) \in Nat
        BY DEF TypeOK
      <4>4. Cardinality(Positions(chain)) \in Nat
        BY FS_CardinalityType DEF CountInv
      <4>5. Uncounted(t)' = -1
        BY <2>1, <4>1 DEF Uncounted
      <4>6. /\ bucket_size'[c.bucket] = Len(chain'[c.bucket]) - (-1)
            /\ \A b \in Bucket \ {c.bucket} : bucket_size'[b] = Len(chain'[b])
        BY <2>2, <3>7, <4>2, <4>3
      <4>7. no_objects' = Cardinality(Positions(chain)') - (-1)
        BY <3>6, <4>2, <4>4
      <4> QED
        BY <2>1, <3>6, <4>1, <4>5, <4>6, <4>7 DEF CountInv
    <3> QED
      BY <3>8, <3>9, <3>10, <3>11
  <2> QED
    BY <2>3, <2>4
<1>11. CASE GetStore(t)
  <2> DEFINE c == call[t]
             hits == GetHits(seen[t], c.key)
             i == First(hits)
  <2>1. /\ pc[t] = "store" /\ c.op = "get" /\ c \in CallsOf(t)
        /\ \A u \in Thread \ {t} : pc[u] \notin Critical
        /\ seen[t] = chain[c.bucket] /\ seen[t] \in Seq(Entry)
    BY <1>11 DEF GetStore, TypeOK, MutexInv, CallInv, SeenInv, Critical
  <2>2. c.bucket \in Bucket
    BY <2>1, CallShape
  <2>3. hits # {} => i \in 1 .. Len(seen[t])
    <3>1. Len(seen[t]) \in Nat /\ hits \in SUBSET (1 .. Len(seen[t]))
      BY <2>1 DEF GetHits
    <3> QED
      BY <3>1, FirstInSet
  <2>4. hits # {} => seen[t][i].data \in Data
    <3>1. hits # {} => seen[t][i] \in Entry
      BY <2>1, <2>3
    <3> QED
      BY <3>1 DEF Entry
  <2>5. /\ chain' \in [Bucket -> Seq(Entry)]
        /\ \A b \in Bucket : Len(chain'[b]) = Len(chain[b])
        /\ Positions(chain)' = Positions(chain)
    <3>1. CASE chain' = chain
      BY <3>1 DEF TypeOK, Positions
    <3>2. CASE /\ hits # {}
               /\ chain' = [chain EXCEPT ![c.bucket] = MoveToFront(seen[t], i)]
      <4>1. /\ MoveToFront(seen[t], i) \in Seq(Entry)
            /\ Len(MoveToFront(seen[t], i)) = Len(chain[c.bucket])
        BY <2>1, <2>3, <3>2, MoveToFrontProperties
      <4> HIDE DEF i
      <4> QED
        BY <2>2, <3>2, <4>1, PositionsKept DEF TypeOK
    <3> QED
      BY <1>11, <3>1, <3>2 DEF GetStore
  <2>6. TypeOK'
    <3>1. reply' \in [Thread -> [code: Code, data: Data \cup {None}, content: SUBSET (Key \X Data)]]
      BY <1>11, <2>4, AnswerType DEF GetStore, Code
    <3>2. pc' \in [Thread -> PC]
      BY <1>11, GotoType DEF GetStore, PC
    <3> QED
      BY <1>11, <2>5, <3>1, <3>2 DEF TypeOK, GetStore
  <2>7. MutexInv'
    BY <1>0, <1>11 DEF TypeOK, MutexInv, Critical, GetStore, Goto
  <2>8. CallInv' /\ SeenInv'
    BY <1>11, <2>1 DEF TypeOK, CallInv, SeenInv, Critical, GetStore, Goto
  <2>9. CountInv'
    BY <1>11, <2>1, <2>5 DEF TypeOK, CountInv, Critical, Uncounted, GetStore, Goto
  <2> QED
    BY <2>6, <2>7, <2>8, <2>9
<1>12. CASE ToArrayStore(t)
  <2>1. Pairs(seen[t]) \subseteq Key \X Data
    <3>1. \A i \in DOMAIN seen[t] : seen[t][i] \in Entry
      BY DEF TypeOK
    <3> QED
      BY <3>1 DEF Pairs, Entry
  <2>2. TypeOK'
    BY <1>12, <2>1 DEF TypeOK, ToArrayStore, table, Goto, Answer, PC, Code
  <2>3. MutexInv' /\ CallInv' /\ SeenInv'
    BY <1>0, <1>12
    DEF TypeOK, MutexInv, CallInv, SeenInv, Critical, ToArrayStore, table, Goto
  <2>4. CountInv'
    BY <1>12 DEF TypeOK, CountInv, Uncounted, ToArrayStore, table, Goto
  <2> QED
    BY <2>2, <2>3, <2>4
<1>13. CASE Count(t)
  <2>1. /\ pc[t] = "count" /\ call[t].op \in {"insert", "remove"} /\ call[t] \in CallsOf(t)
        /\ \A u \in Thread \ {t} : pc[u] \notin Critical
    BY <1>13 DEF Count, MutexInv, CallInv, Critical
  <2>2. call[t].bucket \in Bucket
    BY <2>1, CallShape
  <2>3. /\ \A b \in Bucket : Len(chain[b]) \in Nat
        /\ Cardinality(Positions(chain)) \in Nat
    BY FS_CardinalityType DEF TypeOK, CountInv
  <2>4. /\ bucket_size' \in [Bucket -> Int]
        /\ \A b \in Bucket : bucket_size'[b] = Len(chain[b])
        /\ no_objects' = Cardinality(Positions(chain))
    <3> DEFINE d == Uncounted(t)
    <3>1. d \in Int /\ bucket_size \in [Bucket -> Nat]
      BY DEF Uncounted, TypeOK
    <3>2. /\ bucket_size' = [bucket_size EXCEPT ![call[t].bucket] = @ + d]
          /\ no_objects' = no_objects + d
      BY <1>13 DEF Count, Uncounted
    <3>3. /\ bucket_size[call[t].bucket] = Len(chain[call[t].bucket]) - d
          /\ \A b \in Bucket \ {call[t].bucket} : bucket_size[b] = Len(chain[b])
          /\ no_objects = Cardinality(Positions(chain)) - d
      BY <2>1 DEF CountInv
    <3> HIDE DEF d
    <3> QED
      <4>1. bucket_size' \in [Bucket -> Int]
        BY <2>2, <3>1, <3>2
      <4>2. \A b \in Bucket : bucket_size'[b] = Len(chain[b])
        BY <2>2, <2>3, <3>1, <3>2, <3>3
      <4>3. no_objects' = Cardinality(Positions(chain))
        BY <2>3, <3>1, <3>2, <3>3
      <4> QED
        BY <4>1, <4>2, <4>3
  <2>5. bucket_size' \in [Bucket -> Nat] /\ no_objects' \in Nat
    BY <2>3, <2>4
  <2>6. TypeOK'
    BY <1>13, <2>5 DEF TypeOK, Count, Goto, PC
  <2>7. MutexInv' /\ CallInv' /\ SeenInv'
    BY <1>0, <1>13 DEF TypeOK, MutexInv, CallInv, SeenInv, Critical, Count, Goto
  <2>8. CountInv'
    BY <1>13, <2>1, <2>4 DEF TypeOK, CountInv, Critical, Count, Goto
  <2> QED
    BY <2>6, <2>7, <2>8
<1>14. CASE Unlock(t)
  <2>1. TypeOK'
    BY <1>14 DEF TypeOK, Unlock, Release, table, Goto, PC
  <2>2. MutexInv' /\ CallInv' /\ SeenInv'
    BY <1>0, <1>14
    DEF TypeOK, MutexInv, CallInv, SeenInv, Critical, Unlock, Release, table, Goto
  <2>3. CountInv'
    BY <1>14 DEF TypeOK, CountInv, Uncounted, Unlock, table, Goto
  <2> QED
    BY <2>1, <2>2, <2>3
<1> QED
  BY <1>1, <1>2, <1>3, <1>4, <1>5, <1>6, <1>7, <1>8, <1>9, <1>10, <1>11, <1>12, <1>13, <1>14
  DEF Step

\* IndInv holds in every reachable state.
THEOREM Invariance == Spec => []IndInv
<1>1. IndInv /\ [Next]_vars => IndInv'
  <2> SUFFICES ASSUME IndInv, [Next]_vars
               PROVE  IndInv'
    OBVIOUS
  <2>1. CASE UNCHANGED vars
    <3>1. TypeOK' /\ MutexInv' /\ CallInv' /\ SeenInv'
      BY <2>1 DEF vars, IndInv, TypeOK, MutexInv, CallInv, SeenInv
    <3>2. CountInv'
      BY <2>1 DEF vars, IndInv, CountInv, Uncounted
    <3> QED
      BY <3>1, <3>2 DEF IndInv
  <2>2. CASE \E t \in Thread : Begin(t) \/ Step(t)
    BY <2>2, StepIndInv
  <2> QED
    BY <2>1, <2>2 DEF Next, Finished
<1> QED
  BY <1>1, InitIndInv, PTL DEF Spec

\* Every variable keeps its type; in particular the counters never drop below
\* zero (hi_list.c:193-194).
THEOREM TypeCorrect == Spec => []TypeOK
  BY Invariance, PTL DEF IndInv

\* Whenever the mutex is free, bucket_size and no_objects count the entries of
\* the chains (hi_list.c:193-194, 350-351), whatever the threads do and whatever
\* the engine finds: duplicates, unset second hashes and failed allocations
\* included.
THEOREM CountersAlwaysAgree == Spec => []CountersAgree
<1>1. IndInv => CountersAgree
  BY ListTableAssumption DEF IndInv, TypeOK, MutexInv, CountInv, CountersAgree, Critical
<1> QED
  BY <1>1, Invariance, PTL

\* A bucket walk never writes past the arrays it allocated (hi_list.c:34-62).
THEOREM ArraysAlwaysFit == Spec => []ArrayFits
<1>1. IndInv => ArrayFits
  <2> SUFFICES ASSUME IndInv, NEW t \in Thread,
                      pc[t] = "store", call[t].op = "to_array"
               PROVE  Len(seen[t]) <= bucket_size[call[t].bucket]
    BY DEF ArrayFits
  <2>1. \A u \in Thread : pc[u] # "count"
    BY DEF IndInv, MutexInv, Critical
  <2>2. call[t].bucket \in Bucket
    BY CallShape DEF IndInv, CallInv
  <2>3. bucket_size[call[t].bucket] = Len(seen[t]) /\ Len(seen[t]) \in Nat
    BY <2>1, <2>2 DEF IndInv, TypeOK, CountInv, SeenInv
  <2> QED
    BY <2>3
<1> QED
  BY <1>1, Invariance, PTL

-----------------------------------------------------------------------------
(***************************************************************************)
(* No doublets: in COLL_ENG_LIST, when no two threads insert the same key. *)
(***************************************************************************)

Inserting(t) ==
    call[t].op = "insert" /\ pc[t] \in {"lookup_unlock", "lock", "walk", "store"}

KeyIn(k, c) == \E i \in DOMAIN c : c[i].key = k

\* What the lookup of an insertion did not find stays absent until the insertion.
PendingAbsent ==
    \A t \in Thread : Inserting(t) => ~ KeyIn(call[t].key, chain[call[t].bucket])

\* A chain without doublets stays so when an absent key is put in front ...
LEMMA PrependUnique ==
  ASSUME NEW s \in Seq(Entry), NEW e \in Entry, ~ KeyIn(e.key, s),
         \A i, j \in DOMAIN s : s[i].key = s[j].key => i = j
  PROVE  /\ \A i, j \in DOMAIN (<<e>> \o s) : (<<e>> \o s)[i].key = (<<e>> \o s)[j].key => i = j
         /\ \A k : KeyIn(k, <<e>> \o s) <=> k = e.key \/ KeyIn(k, s)
<1> DEFINE p == <<e>> \o s
<1>1. /\ Len(s) \in Nat /\ DOMAIN s = 1 .. Len(s)
      /\ p \in Seq(Entry) /\ Len(p) = Len(s) + 1 /\ DOMAIN p = 1 .. Len(s) + 1
      /\ p[1] = e
      /\ \A j \in 2 .. Len(s) + 1 : p[j] = s[j - 1]
  BY PrependProperties
<1> HIDE DEF p
<1>2. \A j \in 2 .. Len(s) + 1 : j - 1 \in DOMAIN s /\ p[j].key # e.key
  BY <1>1 DEF KeyIn
<1>3. ASSUME NEW i \in DOMAIN p, NEW j \in DOMAIN p, p[i].key = p[j].key
      PROVE  i = j
  <2>1. CASE i = 1 \/ j = 1
    BY <1>1, <1>2, <1>3, <2>1
  <2>2. CASE i # 1 /\ j # 1
    <3>1. i \in 2 .. Len(s) + 1 /\ j \in 2 .. Len(s) + 1
      BY <1>1, <2>2
    <3>2. /\ i - 1 \in DOMAIN s /\ j - 1 \in DOMAIN s
          /\ p[i] = s[i - 1] /\ p[j] = s[j - 1]
      BY <1>1, <1>2, <3>1
    <3>3. i - 1 = j - 1
      BY <1>3, <3>2
    <3> QED
      BY <3>1, <3>3
  <2> QED
    BY <2>1, <2>2
<1>4. ASSUME NEW k
      PROVE  KeyIn(k, p) <=> k = e.key \/ KeyIn(k, s)
  <2>1. ASSUME NEW i \in DOMAIN p, p[i].key = k, k # e.key
        PROVE  KeyIn(k, s)
    <3>1. i \in 2 .. Len(s) + 1
      BY <1>1, <2>1
    <3>2. i - 1 \in DOMAIN s /\ p[i] = s[i - 1]
      BY <1>1, <1>2, <3>1
    <3> QED
      BY <2>1, <3>2 DEF KeyIn
  <2>2. k = e.key => KeyIn(k, p)
    BY <1>1 DEF KeyIn
  <2>3. ASSUME NEW i \in DOMAIN s, s[i].key = k
        PROVE  KeyIn(k, p)
    <3>1. i + 1 \in 2 .. Len(s) + 1 /\ (i + 1) - 1 = i
      BY <1>1
    <3>2. p[i + 1] = s[i] /\ i + 1 \in DOMAIN p
      BY <1>1, <3>1
    <3> QED
      BY <2>3, <3>2 DEF KeyIn
  <2> QED
    BY <2>1, <2>2, <2>3 DEF KeyIn
<1> QED
  BY <1>3, <1>4 DEF p

\* ... and when an entry is unlinked.
LEMMA RemoveAtUnique ==
  ASSUME NEW s \in Seq(Entry), NEW n \in 1 .. Len(s),
         \A i, j \in DOMAIN s : s[i].key = s[j].key => i = j
  PROVE  LET r == RemoveAt(s, n) IN
         /\ \A i, j \in DOMAIN r : r[i].key = r[j].key => i = j
         /\ \A k : KeyIn(k, r) => KeyIn(k, s)
<1> DEFINE r == RemoveAt(s, n)
           from(i) == IF i < n THEN i ELSE i + 1
<1> HIDE DEF r
<1>0. /\ r \in Seq(Entry) /\ Len(r) = Len(s) - 1
      /\ \A i \in 1 .. Len(s) - 1 : r[i] = IF i < n THEN s[i] ELSE s[i + 1]
  BY RemoveAtProperties DEF r
<1>1. /\ Len(s) \in Nat /\ DOMAIN s = 1 .. Len(s) /\ DOMAIN r = 1 .. Len(s) - 1
      /\ \A i \in DOMAIN r : r[i] = IF i < n THEN s[i] ELSE s[i + 1]
  BY <1>0
<1>2. \A i \in DOMAIN r : from(i) \in DOMAIN s /\ r[i] = s[from(i)]
  BY <1>1
<1>3. \A i, j \in DOMAIN r : from(i) = from(j) => i = j
  BY <1>1
<1> HIDE DEF from
<1>4. \A i, j \in DOMAIN r : r[i].key = r[j].key => i = j
  BY <1>2, <1>3
<1>5. \A k : KeyIn(k, r) => KeyIn(k, s)
  BY <1>2 DEF KeyIn
<1> QED
  BY <1>4, <1>5 DEF r

LEMMA UniqueStep ==
  ASSUME CollEng = "LIST", DisjointInserters, IndInv, UniqueKeys, PendingAbsent,
         NEW t \in Thread, Begin(t) \/ Step(t)
  PROVE  UniqueKeys' /\ PendingAbsent'
<1>0. TypeOK /\ CallInv
  BY DEF IndInv
<1>1. CASE Begin(t)
  <2>1. chain' = chain
    BY <1>1 DEF Begin, table
  <2>2. \A u \in Thread : Inserting(u)' => Inserting(u) /\ call'[u] = call[u]
    BY <1>0, <1>1 DEF TypeOK, CallInv, Inserting, Begin, table, Goto
  <2> QED
    BY <2>1, <2>2 DEF UniqueKeys, PendingAbsent
<1>2. CASE LookupLock(t)
  <2>1. chain' = chain
    BY <1>2 DEF LookupLock, table
  <2>2. \A u \in Thread : Inserting(u)' => Inserting(u) /\ call'[u] = call[u]
    BY <1>0, <1>2 DEF TypeOK, CallInv, Inserting, LookupLock, table, Goto
  <2> QED
    BY <2>1, <2>2 DEF UniqueKeys, PendingAbsent
<1>3. CASE LookupUnlock(t)
  <2>1. chain' = chain
    BY <1>3 DEF LookupUnlock, table
  <2>2. \A u \in Thread : Inserting(u)' => Inserting(u) /\ call'[u] = call[u]
    BY <1>0, <1>3 DEF TypeOK, CallInv, Inserting, LookupUnlock, table, Goto
  <2> QED
    BY <2>1, <2>2 DEF UniqueKeys, PendingAbsent
<1>4. CASE Lock(t)
  <2>1. chain' = chain
    BY <1>4 DEF Lock, table
  <2>2. \A u \in Thread : Inserting(u)' => Inserting(u) /\ call'[u] = call[u]
    BY <1>0, <1>4 DEF TypeOK, CallInv, Inserting, Lock, table, Goto
  <2> QED
    BY <2>1, <2>2 DEF UniqueKeys, PendingAbsent
<1>5. CASE AllocFails(t)
  <2>1. chain' = chain
    BY <1>5 DEF AllocFails, table
  <2>2. \A u \in Thread : Inserting(u)' => Inserting(u) /\ call'[u] = call[u]
    BY <1>0, <1>5 DEF TypeOK, CallInv, Inserting, AllocFails, table, Goto
  <2> QED
    BY <2>1, <2>2 DEF UniqueKeys, PendingAbsent
<1>6. CASE ToArrayEmpty(t)
  <2>1. chain' = chain
    BY <1>6 DEF ToArrayEmpty, table
  <2>2. \A u \in Thread : Inserting(u)' => Inserting(u) /\ call'[u] = call[u]
    BY <1>0, <1>6 DEF TypeOK, CallInv, Inserting, ToArrayEmpty, table, Goto
  <2> QED
    BY <2>1, <2>2 DEF UniqueKeys, PendingAbsent
<1>7. CASE Walk(t)
  <2>1. chain' = chain
    BY <1>7 DEF Walk, table
  <2>2. \A u \in Thread : Inserting(u)' => Inserting(u) /\ call'[u] = call[u]
    BY <1>0, <1>7 DEF TypeOK, CallInv, Inserting, Walk, table, Goto
  <2> QED
    BY <2>1, <2>2 DEF UniqueKeys, PendingAbsent
<1>8. CASE ToArrayStore(t)
  <2>1. chain' = chain
    BY <1>8 DEF ToArrayStore, table
  <2>2. \A u \in Thread : Inserting(u)' => Inserting(u) /\ call'[u] = call[u]
    BY <1>0, <1>8 DEF TypeOK, CallInv, Inserting, ToArrayStore, table, Goto
  <2> QED
    BY <2>1, <2>2 DEF UniqueKeys, PendingAbsent
<1>9. CASE Count(t)
  <2>1. chain' = chain
    BY <1>9 DEF Count
  <2>2. \A u \in Thread : Inserting(u)' => Inserting(u) /\ call'[u] = call[u]
    BY <1>0, <1>9 DEF TypeOK, CallInv, Inserting, Count, Goto
  <2> QED
    BY <2>1, <2>2 DEF UniqueKeys, PendingAbsent
<1>10. CASE Unlock(t)
  <2>1. chain' = chain
    BY <1>10 DEF Unlock, table
  <2>2. \A u \in Thread : Inserting(u)' => Inserting(u) /\ call'[u] = call[u]
    BY <1>0, <1>10 DEF TypeOK, CallInv, Inserting, Unlock, table, Goto
  <2> QED
    BY <2>1, <2>2 DEF UniqueKeys, PendingAbsent
<1>11. CASE Lookup(t)
  <2>1. chain' = chain /\ call' = call
    BY <1>11 DEF Lookup, table
  <2>2. \A u \in Thread \ {t} : Inserting(u)' => Inserting(u)
    BY <1>0, <1>11 DEF TypeOK, Inserting, Lookup, Goto
  <2>3. Inserting(t)' => ~ KeyIn(call[t].key, chain[call[t].bucket])
    <3>1. Inserting(t)' => Hits(chain[call[t].bucket], call[t].key) = {}
      BY <1>0, <1>11 DEF TypeOK, Inserting, Lookup, Goto
    <3> QED
      BY <3>1 DEF Hits, KeyMatch, KeyIn
  <2> QED
    BY <2>1, <2>2, <2>3 DEF UniqueKeys, PendingAbsent
<1>12. CASE InsertStore(t)
  <2> DEFINE c == call[t]
             new(h) == [key |-> c.key, data |-> c.data, key_hash |-> h]
  <2>1. /\ pc[t] = "store" /\ c.op = "insert" /\ c \in CallsOf(t)
        /\ seen[t] = chain[c.bucket] /\ seen[t] \in Seq(Entry)
        /\ \A u \in Thread \ {t} : pc[u] \notin Critical
    BY <1>12 DEF InsertStore, IndInv, TypeOK, MutexInv, CallInv, SeenInv, Critical
  <2>2. c.bucket \in Bucket /\ c.key \in Key /\ c.data \in Data /\ c.key \in InsertKeys[t]
    BY <2>1, CallShape
  <2>3. PICK h \in HashVal : chain' = [chain EXCEPT ![c.bucket] = <<new(h)>> \o seen[t]]
    BY <1>12 DEF InsertStore
  <2>4. new(h) \in Entry /\ new(h).key = c.key
    BY <2>2 DEF Entry
  <2>5. ~ KeyIn(c.key, seen[t])
    BY <2>1 DEF PendingAbsent, Inserting
  <2>6. \A i, j \in DOMAIN seen[t] : seen[t][i].key = seen[t][j].key => i = j
    BY <2>1, <2>2 DEF UniqueKeys
  <2>7. /\ chain'[c.bucket] = <<new(h)>> \o seen[t]
        /\ \A b \in Bucket \ {c.bucket} : chain'[b] = chain[b]
    BY <2>2, <2>3 DEF IndInv, TypeOK
  <2> HIDE DEF new
  <2>8. /\ \A i, j \in DOMAIN (<<new(h)>> \o seen[t]) :
             (<<new(h)>> \o seen[t])[i].key = (<<new(h)>> \o seen[t])[j].key => i = j
        /\ \A k : KeyIn(k, <<new(h)>> \o seen[t]) <=> k = c.key \/ KeyIn(k, seen[t])
    BY <2>1, <2>4, <2>5, <2>6, PrependUnique
  <2>9. UniqueKeys'
    BY <2>7, <2>8 DEF UniqueKeys
  <2>10. ASSUME NEW u \in Thread, Inserting(u)'
         PROVE  ~ KeyIn(call'[u].key, chain'[call'[u].bucket])
    <3>1. u # t /\ call' = call /\ Inserting(u) /\ pc[u] # "idle"
      BY <1>0, <1>12, <2>10 DEF TypeOK, Inserting, InsertStore, Goto
    <3>2. call[u].key \in InsertKeys[u] /\ call[u].bucket \in Bucket
      BY <1>0, <3>1, CallShape DEF CallInv, Inserting
    <3>3. call[u].key # c.key
      BY <2>2, <3>1, <3>2 DEF DisjointInserters
    <3>4. ~ KeyIn(call[u].key, chain[call[u].bucket])
      BY <3>1 DEF PendingAbsent
    <3> QED
      BY <2>1, <2>7, <2>8, <3>1, <3>2, <3>3, <3>4
  <2> QED
    BY <2>9, <2>10 DEF PendingAbsent
<1>13. CASE RemoveStore(t)
  <2> DEFINE c == call[t]
             hits == Hits(seen[t], c.key)
             n == First(hits)
             r == RemoveAt(seen[t], n)
  <2>1. /\ pc[t] = "store" /\ c.op = "remove" /\ c \in CallsOf(t)
        /\ seen[t] = chain[c.bucket] /\ seen[t] \in Seq(Entry)
    BY <1>13 DEF RemoveStore, IndInv, TypeOK, CallInv, SeenInv
  <2>2. c.bucket \in Bucket
    BY <2>1, CallShape
  <2>3. call' = call /\ \A u \in Thread : Inserting(u)' => Inserting(u)
    BY <1>0, <1>13 DEF TypeOK, Inserting, RemoveStore, Goto
  <2>4. CASE hits = {}
    <3>1. chain' = chain
      BY <1>13, <2>4 DEF RemoveStore
    <3> QED
      BY <2>3, <3>1 DEF UniqueKeys, PendingAbsent
  <2>5. CASE hits # {}
    <3>1. Len(seen[t]) \in Nat /\ hits \in SUBSET (1 .. Len(seen[t]))
      BY <2>1 DEF Hits
    <3>2. n \in 1 .. Len(seen[t])
      BY <2>5, <3>1, FirstInSet
    <3>3. chain' = [chain EXCEPT ![c.bucket] = r]
      BY <1>13, <2>5 DEF RemoveStore
    <3>4. \A i, j \in DOMAIN seen[t] : seen[t][i].key = seen[t][j].key => i = j
      BY <2>1, <2>2 DEF UniqueKeys
    <3>5. /\ \A i, j \in DOMAIN r : r[i].key = r[j].key => i = j
          /\ \A k : KeyIn(k, r) => KeyIn(k, seen[t])
      <4> HIDE DEF n
      <4> QED
        BY <2>1, <3>2, <3>4, RemoveAtUnique
    <3>6. chain'[c.bucket] = r /\ \A b \in Bucket \ {c.bucket} : chain'[b] = chain[b]
      BY <2>2, <3>3 DEF IndInv, TypeOK
    <3> HIDE DEF r
    <3>7. UniqueKeys'
      BY <3>5, <3>6 DEF UniqueKeys
    <3>8. ASSUME NEW u \in Thread, Inserting(u)'
          PROVE  ~ KeyIn(call[u].key, chain'[call[u].bucket])
      <4>1. Inserting(u) /\ pc[u] # "idle"
        BY <2>3, <3>8 DEF Inserting
      <4>2. call[u].bucket \in Bucket
        BY <1>0, <4>1, CallShape DEF CallInv
      <4>3. ~ KeyIn(call[u].key, chain[call[u].bucket])
        BY <4>1 DEF PendingAbsent
      <4> QED
        BY <2>1, <3>5, <3>6, <4>2, <4>3
    <3> QED
      BY <2>3, <3>7, <3>8 DEF PendingAbsent
  <2> QED
    BY <2>4, <2>5
<1>14. CASE GetStore(t)
  <2>1. chain' = chain /\ call' = call
    BY <1>14 DEF GetStore
  <2>2. \A u \in Thread : Inserting(u)' => Inserting(u)
    BY <1>0, <1>14 DEF TypeOK, Inserting, GetStore, Goto
  <2> QED
    BY <2>1, <2>2 DEF UniqueKeys, PendingAbsent
<1> QED
  BY <1>1, <1>2, <1>3, <1>4, <1>5, <1>6, <1>7, <1>8, <1>9, <1>10, <1>11, <1>12, <1>13, <1>14
  DEF Step

\* "no doublet" (man/libhashish.pod:123-124): with COLL_ENG_LIST, as long as no
\* two threads insert the same key, no key is ever twice in the table, although
\* the lookup and the insertion of hi_insert are two critical sections.
THEOREM NoDoublets ==
  ASSUME CollEng = "LIST", DisjointInserters
  PROVE  Spec => []UniqueKeys
<1>1. Init => UniqueKeys /\ PendingAbsent
  BY DEF Init, UniqueKeys, PendingAbsent, Inserting
<1>2. IndInv /\ UniqueKeys /\ PendingAbsent /\ [Next]_vars => UniqueKeys' /\ PendingAbsent'
  <2> SUFFICES ASSUME IndInv, UniqueKeys, PendingAbsent, [Next]_vars
               PROVE  UniqueKeys' /\ PendingAbsent'
    OBVIOUS
  <2>1. CASE UNCHANGED vars
    BY <2>1 DEF vars, UniqueKeys, PendingAbsent, Inserting
  <2>2. CASE \E t \in Thread : Begin(t) \/ Step(t)
    BY <2>2, UniqueStep
  <2> QED
    BY <2>1, <2>2 DEF Next, Finished
<1> QED
  BY <1>1, <1>2, Invariance, PTL DEF Spec
-----------------------------------------------------------------------------
(***************************************************************************)
(* The copies of a key.                                                    *)
(***************************************************************************)

\* A chain whose matching entries come from different matching entries of another
\* chain has no more of them.
LEMMA FewerHits ==
  ASSUME NEW c, NEW k, IsFiniteSet(Hits(c, k)), NEW D, NEW f \in [D -> Hits(c, k)],
         \A i, j \in D : f[i] = f[j] => i = j
  PROVE  IsFiniteSet(D) /\ Cardinality(D) <= Cardinality(Hits(c, k))
<1>1. f \in Injection(D, Hits(c, k))
  BY Fun_IsInj
<1> QED
  BY <1>1, FS_Injection

\* The matching entries of a chain are finitely many.
LEMMA HitsFinite ==
  ASSUME NEW s \in Seq(Entry), NEW k
  PROVE  IsFiniteSet(Hits(s, k)) /\ Cardinality(Hits(s, k)) \in Nat
<1>1. Hits(s, k) \in SUBSET (1 .. Len(s)) /\ Len(s) \in Nat
  BY DEF Hits
<1>2. IsFiniteSet(1 .. Len(s))
  BY <1>1, FS_Interval
<1> QED
  BY <1>1, <1>2, FS_Subset, FS_CardinalityType

\* An entry in front adds at most one match, and none for another key ...
LEMMA PrependHits ==
  ASSUME NEW s \in Seq(Entry), NEW e \in Entry, NEW k
  PROVE  Cardinality(Hits(<<e>> \o s, k)) <=
           Cardinality(Hits(s, k)) + (IF e.key = k THEN 1 ELSE 0)
<1> DEFINE r == <<e>> \o s
           D == Hits(r, k) \ {1}
<1>1. /\ r \in Seq(Entry) /\ Len(r) = Len(s) + 1 /\ Len(s) \in Nat /\ r[1] = e
      /\ \A j \in 2 .. Len(s) + 1 : r[j] = s[j - 1]
  BY PrependProperties
<1> HIDE DEF r
<1>2. \A j \in D : j \in Int /\ j - 1 \in Hits(s, k)
  BY <1>1 DEF Hits
<1>3. IsFiniteSet(Hits(s, k)) /\ Cardinality(Hits(s, k)) \in Nat
  BY HitsFinite
<1> DEFINE f == [j \in D |-> j - 1]
<1>4. f \in [D -> Hits(s, k)] /\ \A i, j \in D : f[i] = f[j] => i = j
  BY <1>2
<1> HIDE DEF D, f
<1>6. Cardinality(D) <= Cardinality(Hits(s, k))
  BY <1>3, <1>4, FewerHits
<1>7. IsFiniteSet(Hits(r, k)) /\ Cardinality(Hits(r, k)) \in Nat
  BY <1>1, HitsFinite
<1>8. Cardinality(D) = IF 1 \in Hits(r, k) THEN Cardinality(Hits(r, k)) - 1
                                           ELSE Cardinality(Hits(r, k))
  BY <1>7, FS_RemoveElement DEF D
<1>9. 1 \in Hits(r, k) => e.key = k
  BY <1>1 DEF Hits, KeyMatch
<1>10. Cardinality(Hits(r, k)) <= Cardinality(Hits(s, k)) + (IF e.key = k THEN 1 ELSE 0)
  BY <1>3, <1>6, <1>7, <1>8, <1>9
<1> QED
  BY <1>10 DEF r

\* ... and an entry taken out or moved adds none.
LEMMA RemoveHits ==
  ASSUME NEW s \in Seq(Entry), NEW n \in 1 .. Len(s), NEW k
  PROVE  Cardinality(Hits(RemoveAt(s, n), k)) <= Cardinality(Hits(s, k))
<1> DEFINE r == RemoveAt(s, n)
           from(j) == IF j < n THEN j ELSE j + 1
<1>1. /\ r \in Seq(Entry) /\ Len(r) = Len(s) - 1 /\ Len(s) \in Nat
      /\ \A j \in 1 .. Len(s) - 1 : r[j] = s[from(j)]
  BY RemoveAtProperties
<1> HIDE DEF r
<1>2. \A j \in Hits(r, k) : j \in Int /\ from(j) \in Hits(s, k)
  BY <1>1 DEF Hits
<1>3. \A i, j \in Hits(r, k) : from(i) = from(j) => i = j
  BY <1>2
<1> DEFINE f == [j \in Hits(r, k) |-> from(j)]
<1>4. f \in [Hits(r, k) -> Hits(s, k)] /\ \A i, j \in Hits(r, k) : f[i] = f[j] => i = j
  BY <1>2, <1>3
<1> HIDE DEF f
<1>5. Cardinality(Hits(r, k)) <= Cardinality(Hits(s, k))
  BY <1>4, HitsFinite, FewerHits
<1> QED
  BY <1>5 DEF r

LEMMA MoveToFrontHits ==
  ASSUME NEW s \in Seq(Entry), NEW n \in 1 .. Len(s), NEW k
  PROVE  Cardinality(Hits(MoveToFront(s, n), k)) <= Cardinality(Hits(s, k))
<1> DEFINE q == RemoveAt(s, n)
<1>1. /\ q \in Seq(Entry) /\ Len(q) = Len(s) - 1 /\ Len(s) \in Nat
      /\ \A j \in 1 .. Len(s) - 1 : q[j] = IF j < n THEN s[j] ELSE s[j + 1]
  <2>1. Len(s) \in Nat
    OBVIOUS
  <2>2. /\ RemoveAt(s, n) \in Seq(Entry) /\ Len(RemoveAt(s, n)) = Len(s) - 1
        /\ \A j \in 1 .. Len(s) - 1 : RemoveAt(s, n)[j] = IF j < n THEN s[j] ELSE s[j + 1]
    BY RemoveAtProperties
  <2> QED
    BY <2>1, <2>2
<1> HIDE DEF q
<1> DEFINE r == <<s[n]>> \o q
           from(j) == IF j = 1 THEN n ELSE IF j - 1 < n THEN j - 1 ELSE j
<1>2. /\ r \in Seq(Entry) /\ Len(r) = Len(s) /\ r[1] = s[n]
      /\ \A j \in 2 .. Len(s) : r[j] = q[j - 1]
  BY <1>1, PrependProperties
<1>3. \A j \in 2 .. Len(s) : r[j] = s[from(j)]
  BY <1>1, <1>2
<1> HIDE DEF r
<1>4. \A j \in Hits(r, k) : j \in 1 .. Len(s) /\ from(j) \in Hits(s, k)
  BY <1>1, <1>2, <1>3 DEF Hits
<1>5. \A i, j \in Hits(r, k) : from(i) = from(j) => i = j
  BY <1>1, <1>4
<1> DEFINE f == [j \in Hits(r, k) |-> from(j)]
<1>6. f \in [Hits(r, k) -> Hits(s, k)] /\ \A i, j \in Hits(r, k) : f[i] = f[j] => i = j
  BY <1>4, <1>5
<1> HIDE DEF f
<1>7. Cardinality(Hits(r, k)) <= Cardinality(Hits(s, k))
  BY <1>6, HitsFinite, FewerHits
<1> QED
  BY <1>7 DEF q, r, MoveToFront

\* The copies, their number and the insertions under way are finite.
LEMMA CopiesType ==
  ASSUME IndInv, IsFiniteSet(Thread), NEW k \in Key
  PROVE  /\ Cardinality(Copies(k)) \in Nat
         /\ IsFiniteSet(Pending(k)) /\ Cardinality(Pending(k)) \in Nat
         /\ Cardinality(Thread) \in Nat
<1>1. BucketOf(k) \in Bucket
  BY BucketOfType
<1>2. chain[BucketOf(k)] \in Seq(Entry)
  BY <1>1 DEF IndInv, TypeOK
<1> QED
  BY <1>2, HitsFinite, FS_Subset, FS_CardinalityType DEF Copies, Pending

\* One step.
LEMMA CopiesStep ==
  ASSUME IsFiniteSet(Thread), IndInv, CopiesBounded, NEW t \in Thread, Begin(t) \/ Step(t),
         NEW k \in Key
  PROVE  Cardinality(Copies(k)') + Cardinality(Pending(k)') <= Cardinality(Thread)
<1> DEFINE b == BucketOf(k)
<1>0. TypeOK /\ CallInv
  BY DEF IndInv
<1>a. b \in Bucket /\ chain[b] \in Seq(Entry)
  BY <1>0, BucketOfType DEF TypeOK
<1>b. /\ Cardinality(Copies(k)) \in Nat /\ IsFiniteSet(Pending(k)) /\ Cardinality(Pending(k)) \in Nat
      /\ Cardinality(Thread) \in Nat
      /\ Cardinality(Copies(k)) + Cardinality(Pending(k)) <= Cardinality(Thread)
  BY CopiesType DEF CopiesBounded
<1> HIDE DEF b
<1>c. b = BucketOf(k)
  BY DEF b
<1>d. /\ Copies(k) = Hits(chain[b], k) /\ Copies(k)' = Hits(chain'[b], k)
  BY <1>c DEF Copies
<1>e. ASSUME Cardinality(Copies(k)') <= Cardinality(Copies(k)), Cardinality(Copies(k)') \in Nat,
             Pending(k)' \subseteq Pending(k)
      PROVE  Cardinality(Copies(k)') + Cardinality(Pending(k)') <= Cardinality(Thread)
  <2>1. Cardinality(Pending(k)') <= Cardinality(Pending(k)) /\ Cardinality(Pending(k)') \in Nat
    BY <1>b, <1>e, FS_Subset, FS_CardinalityType
  <2> QED
    BY <1>b, <1>e, <2>1
<1>f. chain'[b] \in Seq(Entry) => Cardinality(Copies(k)') \in Nat
  BY <1>d, HitsFinite
<1>1. CASE Begin(t) \/ LookupLock(t) \/ LookupUnlock(t) \/ Lock(t) \/ AllocFails(t)
           \/ ToArrayEmpty(t) \/ Walk(t) \/ ToArrayStore(t) \/ Count(t) \/ Unlock(t)
  <2>1. chain' = chain
    BY <1>1 DEF Begin, LookupLock, LookupUnlock, Lock, AllocFails, ToArrayEmpty, Walk,
                ToArrayStore, Count, Unlock, table
  <2>2. \A u \in Thread : u \in Pending(k)' => u \in Pending(k)
    BY <1>0, <1>1 DEF TypeOK, CallInv, Pending, Begin, LookupLock, LookupUnlock, Lock, AllocFails,
                ToArrayEmpty, Walk, ToArrayStore, Count, Unlock, table, Goto
  <2>3. Pending(k)' \subseteq Pending(k)
    BY <2>2 DEF Pending
  <2> QED
    BY <1>b, <1>d, <1>e, <2>1, <2>3
<1>2. CASE Lookup(t)
  <2>1. chain' = chain /\ call' = call
    BY <1>2 DEF Lookup, table
  <2>2. CASE Pending(k)' \subseteq Pending(k)
    BY <1>b, <1>d, <1>e, <2>1, <2>2
  <2>3. CASE ~(Pending(k)' \subseteq Pending(k))
    <3>1. \A u \in Thread \ {t} : u \in Pending(k)' => u \in Pending(k)
      BY <1>0, <1>2, <2>1 DEF TypeOK, Pending, Lookup, Goto
    <3>2. t \in Pending(k)'
      BY <2>3, <3>1 DEF Pending
    <3>3. call[t].op = "insert" /\ call[t].key = k /\ pc'[t] # "unlock" /\ pc[t] = "lookup"
      BY <1>2, <2>1, <3>2 DEF Pending, Lookup
    <3>4. call[t].bucket = b
      BY <1>0, <1>c, <3>3, CallShape DEF CallInv
    <3>5. Hits(chain[b], k) = {}
      BY <1>0, <1>2, <3>3, <3>4 DEF Lookup, Goto, TypeOK
    <3>6. Cardinality(Copies(k)') = 0
      BY <1>d, <2>1, <3>5, FS_EmptySet
    <3>7. Pending(k)' \in SUBSET Thread
      BY DEF Pending
    <3>8. Cardinality(Pending(k)') <= Cardinality(Thread) /\ Cardinality(Pending(k)') \in Nat
      BY <3>7, FS_Subset, FS_CardinalityType
    <3> QED
      BY <1>b, <3>6, <3>8
  <2> QED
    BY <2>2, <2>3
<1>3. CASE InsertStore(t)
  <2> DEFINE c == call[t]
             new(h) == [key |-> c.key, data |-> c.data, key_hash |-> h]
  <2>1. /\ pc[t] = "store" /\ c.op = "insert" /\ c \in CallsOf(t)
        /\ seen[t] = chain[c.bucket] /\ seen[t] \in Seq(Entry)
    BY <1>3 DEF InsertStore, IndInv, TypeOK, CallInv, SeenInv
  <2>2. c.bucket \in Bucket /\ c.bucket = BucketOf(c.key) /\ c.key \in Key /\ c.data \in Data
    BY <2>1, CallShape
  <2>3. PICK h \in HashVal : chain' = [chain EXCEPT ![c.bucket] = <<new(h)>> \o seen[t]]
    BY <1>3 DEF InsertStore
  <2>4. new(h) \in Entry /\ new(h).key = c.key
    BY <2>2 DEF Entry
  <2>5. /\ call' = call /\ pc'[t] = "count" /\ \A u \in Thread \ {t} : pc'[u] = pc[u]
        /\ chain'[c.bucket] = <<new(h)>> \o seen[t]
        /\ \A x \in Bucket \ {c.bucket} : chain'[x] = chain[x]
    BY <1>0, <1>3, <2>2, <2>3 DEF InsertStore, Goto, TypeOK
  <2>6. Pending(k)' = Pending(k) \ {t}
    BY <2>5 DEF Pending
  <2>7. <<new(h)>> \o seen[t] \in Seq(Entry)
    <3> HIDE DEF new
    <3> QED
      BY <2>1, <2>4, PrependProperties
  <2>8. Cardinality(Hits(<<new(h)>> \o seen[t], k)) <=
          Cardinality(Hits(seen[t], k)) + (IF c.key = k THEN 1 ELSE 0)
    <3> HIDE DEF new
    <3> QED
      BY <2>1, <2>4, PrependHits
  <2> HIDE DEF new
  <2>9. chain'[b] \in Seq(Entry)
    BY <1>a, <2>5, <2>7
  <2>10. CASE c.key = k
    <3>1. t \in Pending(k) /\ b = c.bucket
      BY <1>c, <2>1, <2>2, <2>10 DEF Pending
    <3>2. Cardinality(Pending(k)') = Cardinality(Pending(k)) - 1
      BY <1>b, <2>6, <3>1, FS_RemoveElement
    <3>3. Cardinality(Copies(k)') <= Cardinality(Copies(k)) + 1
      BY <1>d, <2>1, <2>5, <2>8, <2>10, <3>1
    <3> QED
      BY <1>b, <1>f, <2>9, <3>2, <3>3
  <2>11. CASE c.key # k
    <3>1. Cardinality(Copies(k)') <= Cardinality(Copies(k))
      <4>1. CASE b = c.bucket
        <5>1. Cardinality(Hits(seen[t], k)) + 0 = Cardinality(Copies(k))
          BY <1>b, <1>d, <2>1, <4>1
        <5>2. Cardinality(Copies(k)') <= Cardinality(Hits(seen[t], k)) + 0
          BY <1>d, <2>5, <2>8, <2>11, <4>1
        <5> QED
          BY <5>1, <5>2
      <4>2. CASE b # c.bucket
        <5>1. chain'[b] = chain[b]
          BY <1>a, <2>5, <4>2
        <5> QED
          BY <1>b, <1>d, <5>1
      <4> QED
        BY <4>1, <4>2
    <3> QED
      BY <1>e, <1>f, <2>6, <2>9, <3>1
  <2> QED
    BY <2>10, <2>11
<1>4. CASE RemoveStore(t) \/ GetStore(t)
  <2> DEFINE c == call[t]
             s == seen[t]
  <2>1. /\ pc[t] = "store" /\ c.op \in {"remove", "get"} /\ c \in CallsOf(t)
        /\ s = chain[c.bucket] /\ s \in Seq(Entry)
    BY <1>4 DEF RemoveStore, GetStore, IndInv, TypeOK, CallInv, SeenInv
  <2>2. c.bucket \in Bucket
    BY <2>1, CallShape
  <2>3. call' = call /\ pc'[t] \in {"unlock", "count"} /\ \A u \in Thread \ {t} : pc'[u] = pc[u]
    BY <1>0, <1>4 DEF RemoveStore, GetStore, Goto, TypeOK
  <2>4. Pending(k)' \subseteq Pending(k)
    BY <2>3 DEF Pending
  <2>5. chain' = chain \/ \E n \in 1 .. Len(s) :
           \/ chain' = [chain EXCEPT ![c.bucket] = RemoveAt(s, n)]
           \/ chain' = [chain EXCEPT ![c.bucket] = MoveToFront(s, n)]
    <3>1. ASSUME NEW S \in SUBSET DOMAIN s, S # {}
          PROVE  First(S) \in 1 .. Len(s)
      <4>1. Len(s) \in Nat /\ DOMAIN s = 1 .. Len(s)
        BY <2>1
      <4> HIDE DEF s
      <4>2. S \in SUBSET (1 .. Len(s))
        BY <4>1
      <4> QED
        BY <3>1, <4>1, <4>2, FirstInSet
    <3>2. Hits(s, c.key) \in SUBSET DOMAIN s /\ GetHits(s, c.key) \in SUBSET DOMAIN s
      BY DEF Hits, GetHits
    <3>3. CASE RemoveStore(t)
      <4>1. CASE Hits(s, c.key) = {}
        BY <3>3, <4>1 DEF RemoveStore
      <4>2. CASE Hits(s, c.key) # {}
        <5>1. chain' = [chain EXCEPT ![c.bucket] = RemoveAt(s, First(Hits(s, c.key)))]
          BY <3>3, <4>2 DEF RemoveStore
        <5>2. First(Hits(s, c.key)) \in 1 .. Len(s)
          BY <3>1, <3>2, <4>2
        <5> QED
          BY <5>1, <5>2
      <4> QED
        BY <4>1, <4>2
    <3>4. CASE GetStore(t)
      <4>1. CASE GetHits(s, c.key) = {} \/ CollEng # "LIST_MTF_HASH"
        BY <3>4, <4>1 DEF GetStore
      <4>2. CASE GetHits(s, c.key) # {} /\ CollEng = "LIST_MTF_HASH"
        <5>1. chain' = [chain EXCEPT ![c.bucket] = MoveToFront(s, First(GetHits(s, c.key)))]
          BY <3>4, <4>2 DEF GetStore
        <5>2. First(GetHits(s, c.key)) \in 1 .. Len(s)
          BY <3>1, <3>2, <4>2
        <5> QED
          BY <5>1, <5>2
      <4> QED
        BY <4>1, <4>2
    <3> QED
      BY <1>4, <3>3, <3>4
  <2>6. CASE chain' = chain
    BY <1>b, <1>d, <1>e, <2>4, <2>6
  <2>7. ASSUME NEW r \in Seq(Entry), chain' = [chain EXCEPT ![c.bucket] = r],
               Cardinality(Hits(r, k)) <= Cardinality(Hits(s, k))
        PROVE  Cardinality(Copies(k)') + Cardinality(Pending(k)') <= Cardinality(Thread)
    <3>1. chain'[c.bucket] = r /\ \A x \in Bucket \ {c.bucket} : chain'[x] = chain[x]
      BY <1>0, <2>2, <2>7 DEF TypeOK
    <3>2. CASE b = c.bucket
      BY <1>d, <1>e, <1>f, <2>1, <2>4, <2>7, <3>1, <3>2
    <3>3. CASE b # c.bucket
      BY <1>a, <1>b, <1>d, <1>e, <2>4, <3>1, <3>3
    <3> QED
      BY <3>2, <3>3
  <2>8. CASE \E n \in 1 .. Len(s) :
           \/ chain' = [chain EXCEPT ![c.bucket] = RemoveAt(s, n)]
           \/ chain' = [chain EXCEPT ![c.bucket] = MoveToFront(s, n)]
    <3>1. PICK n \in 1 .. Len(s) :
           \/ chain' = [chain EXCEPT ![c.bucket] = RemoveAt(s, n)]
           \/ chain' = [chain EXCEPT ![c.bucket] = MoveToFront(s, n)]
      BY <2>8
    <3> HIDE DEF s, c
    <3>2. /\ RemoveAt(s, n) \in Seq(Entry) /\ MoveToFront(s, n) \in Seq(Entry)
          /\ Cardinality(Hits(RemoveAt(s, n), k)) <= Cardinality(Hits(s, k))
          /\ Cardinality(Hits(MoveToFront(s, n), k)) <= Cardinality(Hits(s, k))
      BY <2>1, RemoveAtProperties, MoveToFrontProperties, RemoveHits, MoveToFrontHits
    <3> QED
      BY <2>7, <3>1, <3>2
  <2> QED
    BY <2>5, <2>6, <2>8
<1> QED
  BY <1>1, <1>2, <1>3, <1>4 DEF Step

\* However many threads insert a key whose lookups have all missed, there are never
\* more copies of it than threads: one per insertion under way and one per insertion
\* done, in every list engine and wherever hi_get moves them (hi_operations.c:156-166).
THEOREM CopiesAlwaysBounded ==
  ASSUME IsFiniteSet(Thread)
  PROVE  Spec => []CopiesBounded
<1>1. Init => CopiesBounded
  <2> SUFFICES ASSUME Init, NEW k \in Key
               PROVE  Cardinality(Copies(k)) + Cardinality(Pending(k)) <= Cardinality(Thread)
    BY DEF CopiesBounded
  <2>1. Copies(k) = {} /\ Pending(k) = {}
    BY BucketOfType DEF Init, Copies, Hits, Pending
  <2> QED
    BY <2>1, FS_EmptySet, FS_CardinalityType
<1>2. IndInv /\ CopiesBounded /\ [Next]_vars => CopiesBounded'
  <2> SUFFICES ASSUME IndInv, CopiesBounded, [Next]_vars, NEW k \in Key
               PROVE  Cardinality(Copies(k)') + Cardinality(Pending(k)') <= Cardinality(Thread)
    BY DEF CopiesBounded
  <2>1. CASE UNCHANGED vars
    BY <2>1 DEF vars, CopiesBounded, Copies, Pending
  <2>2. CASE \E t \in Thread : Begin(t) \/ Step(t)
    BY <2>2, CopiesStep
  <2> QED
    BY <2>1, <2>2 DEF Next, Finished
<1> QED
  BY <1>1, <1>2, Invariance, PTL DEF Spec
-----------------------------------------------------------------------------
(***************************************************************************)
(* The steps of COLL_ENG_LIST are steps of the dictionary, when no two     *)
(* threads insert the same key.                                            *)
(***************************************************************************)

\* A call has a return value from the step on that fixes it.
ReplyInv ==
    \A t \in Thread : pc[t] # "idle" =>
        (reply[t] # NoReply <=> pc[t] \in {"count", "unlock"})

\* Every entry is in the bucket of its key.
HomeInv == \A b \in Bucket : \A i \in DOMAIN chain[b] : BucketOf(chain[b][i].key) = b

\* A bucket walk does not set out on an empty chain.
WalkInv == \A t \in Thread : pc[t] = "store" /\ call[t].op = "to_array" => Len(seen[t]) # 0

EffectInv == ReplyInv /\ HomeInv /\ WalkInv

\* Some entry of chain c has key k and data v.
Stores(c, k, v) == \E i \in DOMAIN c : c[i].key = k /\ c[i].data = v

Unique(c) == \A i, j \in DOMAIN c : c[i].key = c[j].key => i = j

\* The data of the first entry with key k, or None.
ValueIn(c, k) == IF Hits(c, k) = {} THEN None ELSE c[First(Hits(c, k))].data

\* In a chain without doublets a walk finds what is stored.
LEMMA ValueStored ==
  ASSUME CollEng = "LIST", NEW c \in Seq(Entry), NEW k
  PROVE  /\ ValueIn(c, k) \in Data \cup {None}
         /\ ValueIn(c, k) = None <=> ~ KeyIn(k, c)
         /\ Unique(c) => \A v \in Data : ValueIn(c, k) = v <=> Stores(c, k, v)
<1> DEFINE H == Hits(c, k)
<1>1. /\ Len(c) \in Nat /\ DOMAIN c = 1 .. Len(c) /\ H \in SUBSET (1 .. Len(c))
      /\ \A i \in DOMAIN c : c[i] \in Entry /\ c[i].data \in Data /\ c[i].data # None
      /\ \A i : i \in H <=> i \in DOMAIN c /\ c[i].key = k
  <2>1. \A i : i \in H <=> i \in DOMAIN c /\ c[i].key = k
    BY DEF Hits, KeyMatch
  <2>2. \A e \in Entry : e.data \in Data /\ e.data # None
    BY ListTableAssumption DEF Entry
  <2> HIDE DEF H
  <2> QED
    BY <2>1, <2>2
<1>2. H # {} => First(H) \in H
  BY <1>1, FirstInSet
<1> HIDE DEF H
<1>3. CASE H = {}
  <2>1. ValueIn(c, k) = None /\ None \notin Data
    BY <1>3, ListTableAssumption DEF ValueIn, H
  <2>2. \A i \in DOMAIN c : c[i].key # k
    BY <1>1, <1>3
  <2>3. ~ KeyIn(k, c) /\ \A v : ~ Stores(c, k, v)
    BY <2>2 DEF KeyIn, Stores
  <2> QED
    BY <2>1, <2>3
<1>4. CASE H # {}
  <2>1. PICK n \in DOMAIN c : n = First(H) /\ c[n].key = k
    BY <1>1, <1>2, <1>4
  <2>2. ValueIn(c, k) = c[n].data
    BY <1>4, <2>1 DEF ValueIn, H
  <2>3. KeyIn(k, c)
    BY <2>1 DEF KeyIn
  <2>4. ASSUME Unique(c), NEW v \in Data
        PROVE  ValueIn(c, k) = v <=> Stores(c, k, v)
    BY <2>1, <2>2, <2>4 DEF Stores, Unique
  <2> QED
    BY <1>1, <2>1, <2>2, <2>3, <2>4
<1> QED
  BY <1>3, <1>4

\* Chains that store the same have the same values.
LEMMA SameValue ==
  ASSUME CollEng = "LIST", NEW c \in Seq(Entry), NEW d \in Seq(Entry), NEW k,
         Unique(c), Unique(d), \A v \in Data : Stores(c, k, v) <=> Stores(d, k, v)
  PROVE  ValueIn(c, k) = ValueIn(d, k)
<1>1. None \notin Data
  BY ListTableAssumption
<1>2. /\ ValueIn(c, k) \in Data \cup {None}
      /\ \A v \in Data : ValueIn(c, k) = v <=> Stores(c, k, v)
  BY ValueStored
<1>3. /\ ValueIn(d, k) \in Data \cup {None}
      /\ \A v \in Data : ValueIn(d, k) = v <=> Stores(d, k, v)
  BY ValueStored
<1> QED
  BY <1>1, <1>2, <1>3

\* What the chain stores after an insertion ...
LEMMA PrependStores ==
  ASSUME NEW s \in Seq(Entry), NEW e \in Entry
  PROVE  \A k, v : Stores(<<e>> \o s, k, v) <=> (e.key = k /\ e.data = v) \/ Stores(s, k, v)
<1> DEFINE p == <<e>> \o s
<1>1. /\ Len(s) \in Nat /\ DOMAIN s = 1 .. Len(s)
      /\ DOMAIN p = 1 .. Len(s) + 1
      /\ p[1] = e
      /\ \A j \in 2 .. Len(s) + 1 : p[j] = s[j - 1]
  BY PrependProperties
<1> HIDE DEF p
<1>2. \A i \in DOMAIN p : i = 1 \/ (i - 1 \in DOMAIN s /\ p[i] = s[i - 1])
  BY <1>1
<1>3. 1 \in DOMAIN p /\ \A i \in DOMAIN s : i + 1 \in DOMAIN p /\ p[i + 1] = s[i]
  <2>1. \A i \in DOMAIN s : i + 1 \in 2 .. Len(s) + 1 /\ (i + 1) - 1 = i
    BY <1>1
  <2> QED
    BY <1>1, <2>1
<1> QED
  BY <1>1, <1>2, <1>3, ZenonT(60) DEF Stores, p

\* ... and after the removal of one entry.
LEMMA RemoveStores ==
  ASSUME NEW s \in Seq(Entry), NEW n \in 1 .. Len(s), Unique(s)
  PROVE  LET r == RemoveAt(s, n) IN
         /\ ~ KeyIn(s[n].key, r)
         /\ \A k, v : k # s[n].key => (Stores(r, k, v) <=> Stores(s, k, v))
<1> DEFINE r == RemoveAt(s, n)
<1> HIDE DEF r
<1>0. /\ r \in Seq(Entry) /\ Len(r) = Len(s) - 1
      /\ \A i \in 1 .. Len(s) - 1 : r[i] = IF i < n THEN s[i] ELSE s[i + 1]
  BY RemoveAtProperties DEF r
<1>1. /\ Len(s) \in Nat /\ DOMAIN s = 1 .. Len(s) /\ DOMAIN r = 1 .. Len(s) - 1
      /\ \A i \in DOMAIN r : r[i] = IF i < n THEN s[i] ELSE s[i + 1]
  BY <1>0
<1>2. \A i \in DOMAIN r : \E j \in DOMAIN s : j # n /\ r[i] = s[j]
  <2> SUFFICES ASSUME NEW i \in DOMAIN r
               PROVE  \E j \in DOMAIN s : j # n /\ r[i] = s[j]
    OBVIOUS
  <2>1. CASE i < n
    BY <1>1, <2>1
  <2>2. CASE i >= n
    <3>1. i + 1 \in DOMAIN s /\ i + 1 # n /\ r[i] = s[i + 1]
      BY <1>1, <2>2
    <3> QED
      BY <3>1
  <2> QED
    BY <1>1, <2>1, <2>2
<1>3. \A j \in DOMAIN s : j # n => \E i \in DOMAIN r : r[i] = s[j]
  <2> SUFFICES ASSUME NEW j \in DOMAIN s, j # n
               PROVE  \E i \in DOMAIN r : r[i] = s[j]
    OBVIOUS
  <2>1. CASE j < n
    <3>1. j \in DOMAIN r /\ r[j] = s[j]
      BY <1>1, <2>1
    <3> QED
      BY <3>1
  <2>2. CASE j > n
    <3>1. j - 1 \in DOMAIN r /\ ~ (j - 1 < n) /\ (j - 1) + 1 = j
      BY <1>1, <2>2
    <3>2. r[j - 1] = s[j]
      BY <1>1, <3>1
    <3> QED
      BY <3>1, <3>2
  <2> QED
    BY <1>1, <2>1, <2>2
<1>4. ~ KeyIn(s[n].key, r)
  BY <1>1, <1>2 DEF KeyIn, Unique
<1>5. ASSUME NEW k, NEW v, k # s[n].key
      PROVE  Stores(r, k, v) <=> Stores(s, k, v)
  BY <1>2, <1>3, <1>5 DEF Stores
<1> QED
  BY <1>4, <1>5 DEF r

LEMMA EffectStep ==
  ASSUME CollEng = "LIST", IndInv, EffectInv, NEW t \in Thread, Begin(t) \/ Step(t)
  PROVE  EffectInv'
<1>0. TypeOK /\ CallInv /\ ReplyInv /\ HomeInv /\ WalkInv
  BY DEF IndInv, EffectInv
<1> DEFINE Others ==
             \A u \in Thread \ {t} : /\ pc'[u] = pc[u] /\ call'[u] = call[u]
                                     /\ seen'[u] = seen[u] /\ reply'[u] = reply[u]
<1>0a. NoReply.code = "NONE"
  BY DEF NoReply
<1>1. CASE Begin(t)
  <2>1. /\ Others /\ chain' = chain
        /\ pc'[t] \in {"lookup_lock", "lock"} /\ reply'[t] = NoReply
    BY <1>0, <1>1 DEF TypeOK, Begin, table, Goto
  <2> QED
    BY <1>0, <2>1 DEF EffectInv, ReplyInv, HomeInv, WalkInv
<1>2. CASE LookupLock(t) \/ LookupUnlock(t) \/ Lock(t)
  <2>1. /\ Others /\ chain' = chain /\ reply'[t] = reply[t]
        /\ pc[t] \in {"lookup_lock", "lookup_unlock", "lock"}
        /\ pc'[t] \in {"lookup", "lock", "walk"}
    BY <1>0, <1>2 DEF TypeOK, LookupLock, LookupUnlock, Lock, table, Goto
  <2> QED
    BY <1>0, <2>1 DEF EffectInv, ReplyInv, HomeInv, WalkInv
<1>3. CASE Lookup(t)
  <2>1. Others /\ chain' = chain /\ pc[t] = "lookup"
    BY <1>0, <1>3 DEF TypeOK, Lookup, table, Goto, Answer
  <2>2. \/ pc'[t] = "unlock" /\ reply'[t].code = "DUPKEY"
        \/ pc'[t] = "lookup_unlock" /\ reply'[t] = reply[t]
    BY <1>0, <1>3 DEF TypeOK, Lookup, Goto, Answer
  <2> QED
    BY <1>0, <1>0a, <2>1, <2>2 DEF EffectInv, ReplyInv, HomeInv, WalkInv
<1>4. CASE AllocFails(t) \/ ToArrayEmpty(t)
  <2>1. /\ Others /\ chain' = chain /\ pc'[t] = "unlock"
        /\ reply'[t].code \in {"SYSTEM", "NODATA"}
    BY <1>0, <1>4 DEF TypeOK, AllocFails, ToArrayEmpty, table, Goto, Answer
  <2> QED
    BY <1>0, <1>0a, <2>1 DEF EffectInv, ReplyInv, HomeInv, WalkInv
<1>5. CASE Walk(t)
  <2>1. /\ Others /\ chain' = chain /\ reply'[t] = reply[t] /\ call'[t] = call[t]
        /\ pc[t] = "walk" /\ pc'[t] = "store" /\ seen'[t] = chain[call[t].bucket]
        /\ call[t].op = "to_array" => bucket_size[call[t].bucket] # 0
    BY <1>0, <1>5 DEF TypeOK, Walk, table, Goto
  <2>2. \A u \in Thread : pc[u] # "count"
    BY <2>1 DEF IndInv, MutexInv, Critical
  <2>3. call[t].bucket \in Bucket
    BY <1>0, <2>1, CallShape DEF CallInv
  <2>4. bucket_size[call[t].bucket] = Len(chain[call[t].bucket])
    BY <2>2, <2>3 DEF IndInv, CountInv
  <2> QED
    BY <1>0, <2>1, <2>4 DEF EffectInv, ReplyInv, HomeInv, WalkInv
<1>6. CASE InsertStore(t)
  <2> DEFINE c == call[t]
             new(h) == [key |-> c.key, data |-> c.data, key_hash |-> h]
  <2>1. /\ pc[t] = "store" /\ c.op = "insert" /\ c \in CallsOf(t)
        /\ seen[t] = chain[c.bucket] /\ seen[t] \in Seq(Entry)
    BY <1>6 DEF InsertStore, IndInv, TypeOK, CallInv, SeenInv
  <2>2. c.bucket \in Bucket /\ c.key \in Key /\ c.data \in Data /\ c.bucket = BucketOf(c.key)
    BY <2>1, CallShape
  <2>3. PICK h \in HashVal : chain' = [chain EXCEPT ![c.bucket] = <<new(h)>> \o seen[t]]
    BY <1>6 DEF InsertStore
  <2>4. new(h) \in Entry /\ new(h).key = c.key
    BY <2>2 DEF Entry
  <2>5. /\ chain'[c.bucket] = <<new(h)>> \o seen[t]
        /\ \A b \in Bucket \ {c.bucket} : chain'[b] = chain[b]
    BY <1>0, <2>2, <2>3 DEF TypeOK
  <2>6. /\ Others /\ pc'[t] = "count" /\ reply'[t].code = "SUCCESS"
    BY <1>0, <1>6 DEF TypeOK, InsertStore, Goto, Answer
  <2> HIDE DEF new
  <2>7. /\ Len(seen[t]) \in Nat /\ DOMAIN seen[t] = 1 .. Len(seen[t])
        /\ DOMAIN (<<new(h)>> \o seen[t]) = 1 .. Len(seen[t]) + 1
        /\ (<<new(h)>> \o seen[t])[1] = new(h)
        /\ \A j \in 2 .. Len(seen[t]) + 1 : (<<new(h)>> \o seen[t])[j] = seen[t][j - 1]
    BY <2>1, <2>4, PrependProperties
  <2>8. \A i \in DOMAIN seen[t] : BucketOf(seen[t][i].key) = c.bucket
    BY <1>0, <2>1, <2>2 DEF HomeInv
  <2>9. ASSUME NEW i \in DOMAIN (<<new(h)>> \o seen[t])
        PROVE  BucketOf((<<new(h)>> \o seen[t])[i].key) = c.bucket
    <3>1. CASE i = 1
      BY <2>2, <2>4, <2>7, <3>1
    <3>2. CASE i # 1
      <4>1. i \in 2 .. Len(seen[t]) + 1 /\ i - 1 \in DOMAIN seen[t]
        BY <2>7, <3>2
      <4> QED
        BY <2>7, <2>8, <4>1
    <3> QED
      BY <3>1, <3>2
  <2>10. HomeInv'
    BY <1>0, <2>5, <2>9 DEF HomeInv
  <2>11. ReplyInv' /\ WalkInv'
    BY <1>0, <1>0a, <2>6 DEF ReplyInv, WalkInv
  <2> QED
    BY <2>10, <2>11 DEF EffectInv
<1>7. CASE RemoveStore(t)
  <2> DEFINE c == call[t]
             hits == Hits(seen[t], c.key)
             n == First(hits)
             r == RemoveAt(seen[t], n)
  <2>1. /\ pc[t] = "store" /\ c.op = "remove" /\ c \in CallsOf(t)
        /\ seen[t] = chain[c.bucket] /\ seen[t] \in Seq(Entry)
    BY <1>7 DEF RemoveStore, IndInv, TypeOK, CallInv, SeenInv
  <2>2. c.bucket \in Bucket
    BY <2>1, CallShape
  <2>3. /\ Others /\ pc'[t] \in {"count", "unlock"}
        /\ reply'[t].code \in {"SUCCESS", "NOKEY"}
    BY <1>0, <1>7 DEF TypeOK, RemoveStore, Goto, Answer
  <2>4. ReplyInv' /\ WalkInv'
    BY <1>0, <1>0a, <2>3 DEF ReplyInv, WalkInv
  <2>5. CASE hits = {}
    <3>1. chain' = chain
      BY <1>7, <2>5 DEF RemoveStore
    <3> QED
      BY <1>0, <2>4, <3>1 DEF EffectInv, HomeInv
  <2>6. CASE hits # {}
    <3>1. Len(seen[t]) \in Nat /\ hits \in SUBSET (1 .. Len(seen[t]))
      BY <2>1 DEF Hits
    <3>2. n \in 1 .. Len(seen[t])
      BY <2>6, <3>1, FirstInSet
    <3>3. chain' = [chain EXCEPT ![c.bucket] = r]
      BY <1>7, <2>6 DEF RemoveStore
    <3>4. chain'[c.bucket] = r /\ \A b \in Bucket \ {c.bucket} : chain'[b] = chain[b]
      BY <1>0, <2>2, <3>3 DEF TypeOK
    <3>5. /\ r \in Seq(Entry) /\ Len(r) = Len(seen[t]) - 1
          /\ \A i \in 1 .. Len(seen[t]) - 1 : r[i] = IF i < n THEN seen[t][i] ELSE seen[t][i + 1]
      <4> HIDE DEF n
      <4> QED
        BY <2>1, <3>2, RemoveAtProperties
    <3>6. \A i \in DOMAIN seen[t] : BucketOf(seen[t][i].key) = c.bucket
      BY <1>0, <2>1, <2>2 DEF HomeInv
    <3> HIDE DEF r, n
    <3>7. ASSUME NEW i \in DOMAIN r
          PROVE  BucketOf(r[i].key) = c.bucket
      <4>1. i \in 1 .. Len(seen[t]) - 1 /\ i \in DOMAIN seen[t] /\ i + 1 \in DOMAIN seen[t]
        BY <2>1, <3>1, <3>5
      <4> QED
        BY <3>5, <3>6, <4>1
    <3>8. HomeInv'
      BY <1>0, <3>4, <3>7 DEF HomeInv
    <3> QED
      BY <2>4, <3>8 DEF EffectInv
  <2> QED
    BY <2>5, <2>6
<1>8. CASE GetStore(t) \/ ToArrayStore(t)
  <2>1. /\ Others /\ chain' = chain /\ pc'[t] = "unlock"
        /\ reply'[t].code \in {"SUCCESS", "NOKEY"}
    BY <1>0, <1>8 DEF TypeOK, GetStore, ToArrayStore, table, Goto, Answer
  <2> QED
    BY <1>0, <1>0a, <2>1 DEF EffectInv, ReplyInv, HomeInv, WalkInv
<1>9. CASE Count(t)
  <2>1. /\ Others /\ chain' = chain /\ reply'[t] = reply[t]
        /\ pc[t] = "count" /\ pc'[t] = "unlock"
    BY <1>0, <1>9 DEF TypeOK, Count, Goto
  <2> QED
    BY <1>0, <2>1 DEF EffectInv, ReplyInv, HomeInv, WalkInv
<1>10. CASE Unlock(t)
  <2>1. Others /\ chain' = chain /\ pc'[t] = "idle"
    BY <1>0, <1>10 DEF TypeOK, Unlock, table, Goto
  <2> QED
    BY <1>0, <2>1 DEF EffectInv, ReplyInv, HomeInv, WalkInv
<1> QED
  BY <1>1, <1>2, <1>3, <1>4, <1>5, <1>6, <1>7, <1>8, <1>9, <1>10 DEF Step

LEMMA DictOfValue ==
  /\ \A k \in Key : DictOf(k) = ValueIn(chain[BucketOf(k)], k)
  /\ \A k \in Key : DictOf(k)' = ValueIn(chain'[BucketOf(k)], k)
  BY DEF DictOf, ValueIn

\* A step that moves only its own thread and takes no effect is not seen above ...
LEMMA Stutters ==
  ASSUME \A u \in Thread : Stage(u)' = Stage(u),
         \A k \in Key : DictOf(k)' = DictOf(k),
         call' = call, reply' = reply
  PROVE  UNCHANGED Abstract!vars
  BY DEF Abstract!vars

\* ... and one that fixes the return value is the effect of the call.
LEMMA Answers ==
  ASSUME TypeOK, ReplyInv, NEW t \in Thread, NEW code \in Code \ {"NONE"}, NEW data, NEW content,
         Answer(t, code, data, content), call' = call,
         pc[t] \notin {"idle", "count", "unlock"}, pc'[t] \in {"count", "unlock"},
         \A u \in Thread \ {t} : pc'[u] = pc[u]
  PROVE  Stage(t) = "called" /\ Abstract!Answer(t, code, data, content)
<1>1. /\ reply'[t] = [code |-> code, data |-> data, content |-> content]
      /\ \A u \in Thread \ {t} : reply'[u] = reply[u]
  BY DEF TypeOK, Answer
<1>2. reply'[t] # NoReply
  BY <1>1 DEF NoReply
<1>3. Stage(t)' = "done" /\ \A u \in Thread \ {t} : Stage(u)' = Stage(u)
  BY <1>1, <1>2 DEF Stage
<1>4. Stage(t) = "called"
  BY DEF Stage, ReplyInv
<1> QED
  BY <1>3, <1>4 DEF Abstract!Answer, Answer

\* The calls of a thread are calls of the dictionary.
LEMMA AbstractCall ==
  ASSUME NEW t \in Thread, NEW c \in CallsOf(t)
  PROVE  c \in Abstract!Call
  BY ListTableAssumption, BucketOfType DEF CallsOf, Abstract!Call

\* The snapshot of a bucket is what its chain holds.
LEMMA ContentsPairs ==
  ASSUME CollEng = "LIST", TypeOK, HomeInv, UniqueKeys, NEW b \in Bucket
  PROVE  Abstract!Contents(b) = Pairs(chain[b])
<1> DEFINE c == chain[b]
<1>1. c \in Seq(Entry) /\ Unique(c) /\ \A i \in DOMAIN c : BucketOf(c[i].key) = b
  BY DEF TypeOK, HomeInv, UniqueKeys, Unique
<1>2. \A k \in Key : BucketOf(k) = b => DictOf(k) = ValueIn(c, k)
  BY DictOfValue
<1>3. \A i \in DOMAIN c : c[i] \in Entry /\ c[i].key \in Key /\ c[i].data \in Data
  <2>1. \A e \in Entry : e.key \in Key /\ e.data \in Data
    BY DEF Entry
  <2> HIDE DEF c
  <2> QED
    BY <1>1, <2>1
<1>4. None \notin Data
  BY ListTableAssumption
<1> HIDE DEF c
<1>5. ASSUME NEW k \in Key, BucketOf(k) = b, DictOf(k) # None
      PROVE  <<k, DictOf(k)>> \in Pairs(c)
  <2>1. DictOf(k) \in Data /\ Stores(c, k, DictOf(k))
    BY <1>1, <1>2, <1>5, ValueStored
  <2> QED
    BY <2>1 DEF Stores, Pairs
<1>6. ASSUME NEW i \in DOMAIN c
      PROVE  /\ c[i].key \in Key /\ BucketOf(c[i].key) = b
             /\ DictOf(c[i].key) = c[i].data /\ c[i].data # None
  <2>1. Stores(c, c[i].key, c[i].data)
    BY DEF Stores
  <2>2. ValueIn(c, c[i].key) = c[i].data
    BY <1>1, <1>3, <2>1, ValueStored
  <2> QED
    BY <1>1, <1>2, <1>3, <1>4, <2>2
<1>7. Abstract!Contents(b) = {<<k, DictOf(k)>> : k \in {x \in Key : BucketOf(x) = b /\ DictOf(x) # None}}
  BY DEF Abstract!Contents
<1> QED
  BY <1>5, <1>6, <1>7 DEF Pairs, c

LEMMA RefinementStep ==
  ASSUME CollEng = "LIST", IndInv, UniqueKeys, UniqueKeys', PendingAbsent, EffectInv, TypeOK',
         NEW t \in Thread, Begin(t) \/ Step(t)
  PROVE  [Abstract!Next]_(Abstract!vars)
<1>0. TypeOK /\ CallInv /\ ReplyInv /\ HomeInv /\ WalkInv
  BY DEF IndInv, EffectInv
<1> DEFINE Others == \A u \in Thread \ {t} : pc'[u] = pc[u] /\ reply'[u] = reply[u]
           D(k) == DictOf(k)
<1>0a. chain' = chain => \A k \in Key : DictOf(k)' = DictOf(k)
  BY DEF DictOf
<1>0b. Others => \A u \in Thread \ {t} : Stage(u)' = Stage(u)
  BY DEF Stage
<1>0c. call[t] = call[t] /\ (pc[t] # "idle" => call[t] \in CallsOf(t))
  BY <1>0 DEF CallInv
<1>1. CASE Begin(t)
  <2>1. PICK c \in CallsOf(t) : call' = [call EXCEPT ![t] = c]
    BY <1>1 DEF Begin
  <2>2. /\ Others /\ chain' = chain
        /\ pc[t] = "idle" /\ pc'[t] \in {"lookup_lock", "lock"} /\ reply'[t] = NoReply
        /\ reply' = [reply EXCEPT ![t] = NoReply]
    BY <1>0, <1>1 DEF TypeOK, Begin, table, Goto
  <2>3. Stage(t) = "idle" /\ Stage(t)' = "called"
    BY <2>2 DEF Stage
  <2>4. c \in Abstract!Call
    BY AbstractCall
  <2>5. Abstract!Begin(t)
    BY <1>0a, <1>0b, <2>1, <2>2, <2>3, <2>4 DEF Abstract!Begin, NoReply, Abstract!NoReply
  <2> QED
    BY <2>5 DEF Abstract!Next
<1>2. CASE LookupLock(t) \/ LookupUnlock(t) \/ Lock(t) \/ Walk(t) \/ Count(t)
  <2>1. /\ Others /\ chain' = chain /\ call' = call /\ reply' = reply
        /\ pc[t] # "idle" /\ pc'[t] # "idle"
    BY <1>0, <1>2 DEF TypeOK, LookupLock, LookupUnlock, Lock, Walk, Count, table, Goto
  <2>2. Stage(t)' = Stage(t)
    BY <2>1 DEF Stage
  <2> QED
    BY <1>0a, <1>0b, <2>1, <2>2, Stutters
<1>3. CASE Lookup(t)
  <2> DEFINE c == call[t]
  <2>1. /\ Others /\ chain' = chain /\ call' = call /\ pc[t] = "lookup"
        /\ c.op = "insert" /\ c \in CallsOf(t)
    BY <1>0, <1>3 DEF TypeOK, CallInv, Lookup, table, Goto, Answer
  <2>2. c.key \in Key /\ c.bucket = BucketOf(c.key)
    BY <2>1, CallShape
  <2>3. CASE Hits(chain[c.bucket], c.key) = {}
    <3>1. reply' = reply /\ pc'[t] # "idle"
      BY <1>0, <1>3, <2>3 DEF TypeOK, Lookup, Goto
    <3>2. Stage(t)' = Stage(t)
      BY <2>1, <3>1 DEF Stage
    <3> QED
      BY <1>0a, <1>0b, <2>1, <3>1, <3>2, Stutters
  <2>4. CASE Hits(chain[c.bucket], c.key) # {}
    <3>1. Answer(t, "DUPKEY", None, {}) /\ pc'[t] = "unlock"
      BY <1>0, <1>3, <2>4 DEF TypeOK, Lookup, Goto
    <3>2. Stage(t) = "called" /\ Abstract!Answer(t, "DUPKEY", None, {})
      BY <1>0, <2>1, <3>1, Answers DEF Code
    <3>3. chain[c.bucket] \in Seq(Entry)
      BY <1>0, <2>2, BucketOfType DEF TypeOK
    <3>4. KeyIn(c.key, chain[c.bucket])
      BY <2>4 DEF Hits, KeyMatch, KeyIn
    <3>5. DictOf(c.key) # None
      BY <2>2, <3>3, <3>4, ValueStored, DictOfValue
    <3>6. Abstract!Insert(t)
      BY <1>0a, <2>1, <2>2, <3>2, <3>5 DEF Abstract!Insert, Abstract!Called
    <3> QED
      BY <3>6 DEF Abstract!Next, Abstract!Effect
  <2> QED
    BY <2>3, <2>4
<1>4. CASE AllocFails(t)
  <2>1. /\ Others /\ chain' = chain /\ call' = call
        /\ pc[t] = "walk" /\ pc'[t] = "unlock"
        /\ Answer(t, "SYSTEM", None, {}) /\ call[t].op \in {"insert", "to_array"}
    BY <1>0, <1>4 DEF TypeOK, AllocFails, table, Goto, Answer
  <2>2. Stage(t) = "called" /\ Abstract!Answer(t, "SYSTEM", None, {})
    BY <1>0, <2>1, Answers DEF Code
  <2>3. Abstract!Fail(t)
    BY <1>0a, <2>1, <2>2 DEF Abstract!Fail, Abstract!Called
  <2> QED
    BY <2>3 DEF Abstract!Next, Abstract!Effect
<1>5. CASE Unlock(t)
  <2>1. /\ Others /\ chain' = chain /\ call' = call /\ reply' = reply
        /\ pc[t] = "unlock" /\ pc'[t] = "idle"
    BY <1>0, <1>5 DEF TypeOK, Unlock, table, Goto
  <2>2. Stage(t) = "done" /\ Stage(t)' = "idle"
    BY <1>0, <2>1 DEF Stage, ReplyInv
  <2>3. Abstract!End(t)
    BY <1>0a, <1>0b, <2>1, <2>2 DEF Abstract!End
  <2> QED
    BY <2>3 DEF Abstract!Next
<1>6. CASE ToArrayEmpty(t)
  <2> DEFINE c == call[t]
  <2>1. /\ Others /\ chain' = chain /\ call' = call
        /\ pc[t] = "walk" /\ pc'[t] = "unlock"
        /\ Answer(t, "NODATA", None, {}) /\ c.op = "to_array" /\ bucket_size[c.bucket] = 0
    BY <1>0, <1>6 DEF TypeOK, ToArrayEmpty, table, Goto, Answer
  <2>2. Stage(t) = "called" /\ Abstract!Answer(t, "NODATA", None, {})
    BY <1>0, <2>1, Answers DEF Code
  <2>3. c.bucket \in Bucket /\ \A u \in Thread : pc[u] # "count"
    BY <1>0, <2>1, CallShape DEF CallInv, IndInv, MutexInv, Critical
  <2>4. Len(chain[c.bucket]) = 0
    BY <2>1, <2>3 DEF IndInv, CountInv
  <2>5. Pairs(chain[c.bucket]) = {}
    BY <1>0, <2>3, <2>4 DEF TypeOK, Pairs
  <2>6. Abstract!Contents(c.bucket) = {}
    BY <1>0, <2>3, <2>5, ContentsPairs
  <2>7. Abstract!ToArray(t)
    BY <1>0a, <2>1, <2>2, <2>6 DEF Abstract!ToArray, Abstract!Called
  <2> QED
    BY <2>7 DEF Abstract!Next, Abstract!Effect
<1>7. CASE ToArrayStore(t)
  <2> DEFINE c == call[t]
  <2>1. /\ Others /\ chain' = chain /\ call' = call
        /\ pc[t] = "store" /\ pc'[t] = "unlock" /\ c.op = "to_array"
        /\ Answer(t, "SUCCESS", None, Pairs(seen[t])) /\ seen[t] = chain[c.bucket]
    BY <1>0, <1>7 DEF TypeOK, ToArrayStore, table, Goto, Answer, IndInv, SeenInv
  <2>2. Stage(t) = "called" /\ Abstract!Answer(t, "SUCCESS", None, Pairs(seen[t]))
    BY <1>0, <2>1, Answers DEF Code
  <2>3. c.bucket \in Bucket
    BY <1>0, <2>1, CallShape DEF CallInv
  <2>4. Pairs(seen[t]) # {}
    <3>1. seen[t] \in Seq(Entry) /\ Len(seen[t]) # 0
      BY <1>0, <2>1 DEF TypeOK, WalkInv
    <3>2. 1 \in DOMAIN seen[t]
      BY <3>1
    <3> QED
      BY <3>2 DEF Pairs
  <2>5. Abstract!Contents(c.bucket) = Pairs(seen[t])
    BY <1>0, <2>1, <2>3, ContentsPairs
  <2>6. Abstract!ToArray(t)
    BY <1>0a, <2>1, <2>2, <2>4, <2>5 DEF Abstract!ToArray, Abstract!Called
  <2> QED
    BY <2>6 DEF Abstract!Next, Abstract!Effect
<1>8. CASE GetStore(t)
  <2> DEFINE c == call[t]
  <2>1. /\ Others /\ chain' = chain /\ call' = call /\ c.op = "get" /\ c \in CallsOf(t)
        /\ pc[t] = "store" /\ pc'[t] = "unlock"
        /\ seen[t] = chain[c.bucket]
    BY <1>0, <1>8 DEF TypeOK, GetStore, Goto, Answer, IndInv, SeenInv, CallInv
  <2>2. c.key \in Key /\ c.bucket = BucketOf(c.key)
    BY <2>1, CallShape
  <2>3. GetHits(seen[t], c.key) = Hits(seen[t], c.key)
    BY DEF GetHits, Hits, GetMatch
  <2>4. DictOf(c.key) = ValueIn(seen[t], c.key) /\ seen[t] \in Seq(Entry)
    BY <1>0, <2>1, <2>2, DictOfValue DEF TypeOK
  <2>5. CASE Hits(seen[t], c.key) = {}
    <3>1. Answer(t, "NOKEY", None, {})
      BY <1>8, <2>3, <2>5 DEF GetStore
    <3>2. Stage(t) = "called" /\ Abstract!Answer(t, "NOKEY", None, {})
      BY <1>0, <2>1, <3>1, Answers DEF Code
    <3>3. DictOf(c.key) = None
      BY <2>4, <2>5 DEF ValueIn
    <3>4. Abstract!Get(t)
      BY <1>0a, <2>1, <2>2, <3>2, <3>3 DEF Abstract!Get, Abstract!Called
    <3> QED
      BY <3>4 DEF Abstract!Next, Abstract!Effect
  <2>6. CASE Hits(seen[t], c.key) # {}
    <3> DEFINE v == seen[t][First(Hits(seen[t], c.key))].data
    <3>1. Answer(t, "SUCCESS", v, {})
      BY <1>8, <2>3, <2>6 DEF GetStore
    <3>2. DictOf(c.key) = v
      BY <2>4, <2>6 DEF ValueIn
    <3> HIDE DEF v
    <3>3. Stage(t) = "called" /\ Abstract!Answer(t, "SUCCESS", v, {})
      BY <1>0, <2>1, <3>1, Answers DEF Code
    <3>4. DictOf(c.key) # None
      <4>1. KeyIn(c.key, seen[t])
        BY <2>6 DEF Hits, KeyMatch, KeyIn
      <4> QED
        BY <2>4, <4>1, ValueStored
    <3>5. Abstract!Get(t)
      BY <1>0a, <2>1, <2>2, <3>2, <3>3, <3>4 DEF Abstract!Get, Abstract!Called
    <3> QED
      BY <3>5 DEF Abstract!Next, Abstract!Effect
  <2> QED
    BY <2>5, <2>6
<1>9. CASE InsertStore(t)
  <2> DEFINE c == call[t]
             new(h) == [key |-> c.key, data |-> c.data, key_hash |-> h]
  <2>1. /\ pc[t] = "store" /\ pc'[t] = "count" /\ c.op = "insert" /\ c \in CallsOf(t)
        /\ Others /\ call' = call /\ Answer(t, "SUCCESS", None, {})
        /\ seen[t] = chain[c.bucket] /\ seen[t] \in Seq(Entry)
    BY <1>0, <1>9 DEF TypeOK, InsertStore, Goto, Answer, IndInv, SeenInv, CallInv
  <2>2. c.bucket \in Bucket /\ c.key \in Key /\ c.data \in Data /\ c.bucket = BucketOf(c.key)
    BY <2>1, CallShape
  <2>3. Stage(t) = "called" /\ Abstract!Answer(t, "SUCCESS", None, {})
    BY <1>0, <2>1, Answers DEF Code
  <2>4. PICK h \in HashVal : chain' = [chain EXCEPT ![c.bucket] = <<new(h)>> \o seen[t]]
    BY <1>9 DEF InsertStore
  <2>5. new(h) \in Entry /\ new(h).key = c.key /\ new(h).data = c.data
    BY <2>2 DEF Entry
  <2> DEFINE p == <<new(h)>> \o seen[t]
  <2>6. /\ chain'[c.bucket] = p
        /\ \A b \in Bucket \ {c.bucket} : chain'[b] = chain[b]
    BY <1>0, <2>2, <2>4 DEF TypeOK
  <2> HIDE DEF new
  <2>7. p \in Seq(Entry) /\ Unique(p) /\ Unique(seen[t])
    <3>1. p \in Seq(Entry)
      BY <2>1, <2>5, PrependProperties
    <3>2. Unique(chain'[c.bucket]) /\ Unique(chain[c.bucket])
      BY <2>2 DEF UniqueKeys, Unique
    <3> QED
      BY <2>1, <2>6, <3>1, <3>2
  <2>8. \A k, v : Stores(p, k, v) <=> (c.key = k /\ c.data = v) \/ Stores(seen[t], k, v)
    BY <2>1, <2>5, PrependStores
  <2> HIDE DEF p
  <2>9. ValueIn(p, c.key) = c.data
    BY <2>2, <2>7, <2>8, ValueStored
  <2>10. \A k \in Key \ {c.key} : ValueIn(p, k) = ValueIn(seen[t], k)
    <3> SUFFICES ASSUME NEW k \in Key \ {c.key}
                 PROVE  ValueIn(p, k) = ValueIn(seen[t], k)
      OBVIOUS
    <3>1. \A v \in Data : Stores(p, k, v) <=> Stores(seen[t], k, v)
      BY <2>8
    <3> QED
      BY <2>1, <2>7, <3>1, SameValue
  <2>11. /\ DictOf(c.key)' = c.data
         /\ \A k \in Key \ {c.key} : DictOf(k)' = DictOf(k)
    BY <2>1, <2>2, <2>6, <2>9, <2>10, BucketOfType, DictOfValue
  <2>12. DictOf(c.key) = None
    <3>1. ~ KeyIn(c.key, seen[t])
      BY <2>1 DEF PendingAbsent, Inserting
    <3>2. ValueIn(seen[t], c.key) = None
      BY <2>1, <3>1, ValueStored
    <3> QED
      BY <2>1, <2>2, <3>2, DictOfValue
  <2>13. Abstract!Insert(t)
    BY <2>1, <2>2, <2>3, <2>11, <2>12 DEF Abstract!Insert, Abstract!Called
  <2> QED
    BY <2>13 DEF Abstract!Next, Abstract!Effect
<1>10. CASE RemoveStore(t)
  <2> DEFINE c == call[t]
             hits == Hits(seen[t], c.key)
             n == First(hits)
             r == RemoveAt(seen[t], n)
             v == seen[t][n].data
  <2>1. /\ pc[t] = "store" /\ pc'[t] \in {"count", "unlock"}
        /\ c.op = "remove" /\ c \in CallsOf(t) /\ Others /\ call' = call
        /\ seen[t] = chain[c.bucket] /\ seen[t] \in Seq(Entry)
    BY <1>0, <1>10 DEF TypeOK, RemoveStore, Goto, Answer, IndInv, SeenInv, CallInv
  <2>2. c.bucket \in Bucket /\ c.key \in Key /\ c.bucket = BucketOf(c.key)
    BY <2>1, CallShape
  <2>3. DictOf(c.key) = ValueIn(seen[t], c.key)
    BY <2>1, <2>2, DictOfValue
  <2>4. CASE hits = {}
    <3>1. chain' = chain /\ Answer(t, "NOKEY", None, {})
      BY <1>10, <2>4 DEF RemoveStore
    <3>2. Stage(t) = "called" /\ Abstract!Answer(t, "NOKEY", None, {})
      BY <1>0, <2>1, <3>1, Answers DEF Code
    <3>3. DictOf(c.key) = None
      BY <2>3, <2>4 DEF ValueIn
    <3>4. Abstract!Remove(t)
      BY <1>0a, <2>1, <2>2, <3>1, <3>2, <3>3 DEF Abstract!Remove, Abstract!Called
    <3> QED
      BY <3>4 DEF Abstract!Next, Abstract!Effect
  <2>5. CASE hits # {}
    <3>1. /\ Len(seen[t]) \in Nat /\ hits \in SUBSET (1 .. Len(seen[t]))
          /\ \A i \in hits : seen[t][i].key = c.key
      BY <2>1 DEF Hits, KeyMatch
    <3>2. n \in 1 .. Len(seen[t]) /\ seen[t][n].key = c.key
      BY <2>5, <3>1, FirstInSet
    <3>3. /\ chain' = [chain EXCEPT ![c.bucket] = r]
          /\ Answer(t, "SUCCESS", v, {})
      BY <1>10, <2>5 DEF RemoveStore
    <3>4. DictOf(c.key) = v
      BY <2>3, <2>5 DEF ValueIn
    <3>5. DictOf(c.key) # None
      <4>1. KeyIn(c.key, seen[t])
        BY <3>2 DEF KeyIn
      <4> QED
        BY <2>1, <2>3, <4>1, ValueStored
    <3>6. chain'[c.bucket] = r /\ \A b \in Bucket \ {c.bucket} : chain'[b] = chain[b]
      BY <1>0, <2>2, <3>3 DEF TypeOK
    <3> HIDE DEF v
    <3>7. Stage(t) = "called" /\ Abstract!Answer(t, "SUCCESS", v, {})
      BY <1>0, <2>1, <3>3, Answers DEF Code
    <3>8. Unique(seen[t]) /\ Unique(chain'[c.bucket])
      BY <2>1, <2>2 DEF UniqueKeys, Unique
    <3>9. r \in Seq(Entry)
      <4> HIDE DEF n
      <4> QED
        BY <2>1, <3>2, RemoveAtProperties
    <3>10. /\ ~ KeyIn(c.key, r)
           /\ \A k, w : k # c.key => (Stores(r, k, w) <=> Stores(seen[t], k, w))
      <4> HIDE DEF n
      <4> QED
        BY <2>1, <3>2, <3>8, RemoveStores
    <3> HIDE DEF r, n
    <3>11. ValueIn(r, c.key) = None
      BY <3>9, <3>10, ValueStored
    <3>12. \A k \in Key \ {c.key} : ValueIn(r, k) = ValueIn(seen[t], k)
      <4> SUFFICES ASSUME NEW k \in Key \ {c.key}
                   PROVE  ValueIn(r, k) = ValueIn(seen[t], k)
        OBVIOUS
      <4>1. \A w \in Data : Stores(r, k, w) <=> Stores(seen[t], k, w)
        BY <3>10
      <4> QED
        BY <2>1, <3>6, <3>8, <3>9, <4>1, SameValue
    <3>13. /\ DictOf(c.key)' = None
           /\ \A k \in Key \ {c.key} : DictOf(k)' = DictOf(k)
      BY <2>1, <2>2, <3>6, <3>11, <3>12, BucketOfType, DictOfValue
    <3>14. Abstract!Remove(t)
      BY <2>1, <2>2, <3>4, <3>5, <3>7, <3>13 DEF Abstract!Remove, Abstract!Called
    <3> QED
      BY <3>14 DEF Abstract!Next, Abstract!Effect
  <2> QED
    BY <2>4, <2>5
<1> QED
  BY <1>1, <1>2, <1>3, <1>4, <1>5, <1>6, <1>7, <1>8, <1>9, <1>10 DEF Step

\* COLL_ENG_LIST behaves as an atomic map when no two threads insert the same key:
\* every step is a step of Dictionary or invisible to it, although hi_insert looks
\* up and inserts in two critical sections (hi_operations.c:36-182).
THEOREM DictionaryImplemented ==
  ASSUME CollEng = "LIST", DisjointInserters
  PROVE  Spec => ImplementsDictionary
<1>1. Init => EffectInv /\ UniqueKeys /\ PendingAbsent /\ Abstract!Init
  <2> SUFFICES ASSUME Init
               PROVE  EffectInv /\ UniqueKeys /\ PendingAbsent /\ Abstract!Init
    OBVIOUS
  <2>1. EffectInv /\ UniqueKeys /\ PendingAbsent
    BY DEF Init, EffectInv, ReplyInv, HomeInv, WalkInv, UniqueKeys, PendingAbsent, Inserting
  <2>2. \A k \in Key : DictOf(k) = None
    BY BucketOfType DEF Init, DictOf, Hits
  <2>3. \A t \in Thread : Stage(t) = "idle"
    BY DEF Init, Stage
  <2> QED
    BY <2>1, <2>2, <2>3 DEF Init, Abstract!Init, NoCall, NoReply, Abstract!NoCall, Abstract!NoReply
<1>2. /\ IndInv /\ EffectInv /\ UniqueKeys /\ PendingAbsent
      /\ [Next]_vars
      => EffectInv' /\ UniqueKeys' /\ PendingAbsent' /\ [Abstract!Next]_(Abstract!vars)
  <2> SUFFICES ASSUME IndInv, EffectInv, UniqueKeys, PendingAbsent, [Next]_vars
               PROVE  EffectInv' /\ UniqueKeys' /\ PendingAbsent' /\ [Abstract!Next]_(Abstract!vars)
    OBVIOUS
  <2>1. CASE UNCHANGED vars
    <3>1. EffectInv' /\ UniqueKeys' /\ PendingAbsent'
      BY <2>1 DEF vars, EffectInv, ReplyInv, HomeInv, WalkInv, UniqueKeys, PendingAbsent, Inserting
    <3>2. UNCHANGED Abstract!vars
      BY <2>1, Stutters DEF vars, Stage, DictOf
    <3> QED
      BY <3>1, <3>2
  <2>2. ASSUME NEW t \in Thread, Begin(t) \/ Step(t)
        PROVE  EffectInv' /\ UniqueKeys' /\ PendingAbsent' /\ [Abstract!Next]_(Abstract!vars)
    <3>1. EffectInv' /\ UniqueKeys' /\ PendingAbsent' /\ IndInv'
      BY <2>2, EffectStep, UniqueStep, StepIndInv
    <3> QED
      BY <2>2, <3>1, RefinementStep DEF IndInv
  <2> QED
    BY <2>1, <2>2 DEF Next, Finished
<1> QED
  BY <1>1, <1>2, Invariance, PTL DEF Spec, ImplementsDictionary, Abstract!Safety
=============================================================================
