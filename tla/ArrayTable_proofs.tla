------------------------- MODULE ArrayTable_proofs --------------------------
(***************************************************************************)
(* Proofs about ArrayTable: whatever holes removals leave and whichever    *)
(* allocations fail, the counters describe the arrays, a scan misses no    *)
(* key, growth leaves a free slot, a lost bucket is never mistaken for an  *)
(* empty one, and a walk copies each entry it does not miss once.          *)
(***************************************************************************)
EXTENDS ArrayTable, SequenceLemmas

(***************************************************************************)
(* Lemmas about arrays of slots.                                           *)
(***************************************************************************)
LEMMA BucketOfType == \A k \in Key : BucketOf(k) \in Bucket
  BY ArrayTableAssumption DEF BucketOf, Bucket

\* A loop over the slots that has a match stops at one.
LEMMA FirstIn ==
  ASSUME NEW n \in Nat, NEW S \in SUBSET (1 .. n), S # {}
  PROVE  First(S) \in S
  BY HasFirst DEF First

\* The allocated slots of an array are finitely many, no more than its slots, and
\* fewer if one is free.
LEMMA AllocatedFinite ==
  ASSUME NEW s \in Seq(Slot)
  PROVE  /\ Allocated(s) \subseteq 1 .. Len(s)
         /\ IsFiniteSet(Allocated(s))
         /\ Cardinality(Allocated(s)) \in Nat
         /\ Cardinality(Allocated(s)) <= Len(s)
         /\ Cardinality(Allocated(s)) < Len(s) =>
              {i \in DOMAIN s : s[i] = Free} # {}
<1>1. DOMAIN s = 1 .. Len(s) /\ Len(s) \in Nat
  OBVIOUS
<1>2. IsFiniteSet(1 .. Len(s)) /\ Cardinality(1 .. Len(s)) = Len(s)
  BY <1>1, FS_Interval, SMTT(60)
<1>3. Allocated(s) \subseteq 1 .. Len(s)
  BY <1>1 DEF Allocated
<1>4. /\ IsFiniteSet(Allocated(s)) /\ Cardinality(Allocated(s)) <= Cardinality(1 .. Len(s))
      /\ Cardinality(Allocated(s)) \in Nat
  BY <1>2, <1>3, FS_Subset, FS_CardinalityType
<1>5. {i \in DOMAIN s : s[i] = Free} = {} => Allocated(s) = 1 .. Len(s)
  BY <1>1 DEF Allocated
<1> QED
  BY <1>2, <1>3, <1>4, <1>5, <1>1

\* A scan that arrives at an allocated slot has checked fewer than there are.
LEMMA CheckedFew ==
  ASSUME NEW s \in Seq(Slot), NEW i \in Allocated(s)
  PROVE  Checked(s, i) < Cardinality(Allocated(s))
<1> DEFINE S == {j \in Allocated(s) : j < i}
<1>1. IsFiniteSet(Allocated(s)) /\ i \in Int
  BY AllocatedFinite
<1>2. S \subseteq Allocated(s) /\ S # Allocated(s)
  BY <1>1
<1> HIDE DEF S
<1>3. IsFiniteSet(S) /\ Cardinality(S) <= Cardinality(Allocated(s))
      /\ Cardinality(S) # Cardinality(Allocated(s))
  BY <1>1, <1>2, FS_Subset
<1>4. Cardinality(S) \in Nat /\ Cardinality(Allocated(s)) \in Nat
  BY <1>1, <1>3, FS_CardinalityType
<1> QED
  BY <1>3, <1>4 DEF S, Checked

\* What writing one slot changes.
LEMMA SlotWritten ==
  ASSUME NEW s \in Seq(Slot), NEW r \in Seq(Slot), NEW i \in 1 .. Len(s), Len(r) = Len(s),
         \A j \in 1 .. Len(s) : j # i => r[j] = s[j]
  PROVE  /\ r[i] = Free => Allocated(r) = Allocated(s) \ {i}
         /\ r[i] # Free => Allocated(r) = Allocated(s) \cup {i}
<1>1. DOMAIN s = 1 .. Len(s) /\ DOMAIN r = 1 .. Len(s)
  OBVIOUS
<1> QED
  BY <1>1 DEF Allocated

\* A larger array has the same entries.
LEMMA SlotsAdded ==
  ASSUME NEW s \in Seq(Slot), NEW m \in Nat
  PROVE  LET r == s \o [i \in 1 .. m |-> Free] IN
         /\ r \in Seq(Slot) /\ Len(r) = Len(s) + m
         /\ \A j \in 1 .. Len(s) : r[j] = s[j]
         /\ Allocated(r) = Allocated(s)
<1> DEFINE z == [i \in 1 .. m |-> Free]
           r == s \o z
<1>1. z \in Seq(Slot) /\ Len(z) = m /\ \A j \in 1 .. m : z[j] = Free
  BY DEF Slot
<1>2. Len(s) \in Nat /\ DOMAIN s = 1 .. Len(s)
  OBVIOUS
<1> HIDE DEF z
<1>3. /\ r \in Seq(Slot) /\ Len(r) = Len(s) + m
      /\ \A j \in 1 .. Len(s) + m : r[j] = IF j <= Len(s) THEN s[j] ELSE z[j - Len(s)]
  BY <1>1, <1>2, ConcatProperties
<1>4. DOMAIN r = 1 .. Len(s) + m
  BY <1>3
<1> HIDE DEF r
<1>5. \A j \in 1 .. Len(s) : r[j] = s[j]
  BY <1>2, <1>3
<1>6. \A j \in 1 .. Len(s) + m : j > Len(s) => r[j] = Free
  BY <1>1, <1>2, <1>3
<1>7. Allocated(r) = Allocated(s)
  BY <1>2, <1>4, <1>5, <1>6 DEF Allocated
<1> QED
  BY <1>3, <1>5, <1>7 DEF r, z
-----------------------------------------------------------------------------
(***************************************************************************)
(* The inductive invariant.                                                *)
(***************************************************************************)
Inside == {"scan", "scan_unlock", "grow", "find", "place", "copy", "unlock"}

\* What thread t relies on: inside a critical section it holds the mutex, an insertion
\* that looks for a free slot will find it, and has it until it is written.
ThreadInv(t) ==
    /\ pc[t] \in Inside => mutex = t
    /\ pc[t] \notin {"idle", "dead"} => call[t] \in CallsOf(t)
    /\ pc[t] \in {"scan_unlock", "grow", "find", "place"} => call[t].op = "insert"
    /\ pc[t] = "find" /\ ArraySize # 0 => slot_size[call[t].bucket] < slot_max[call[t].bucket]
    /\ pc[t] = "place" =>
         /\ ~ Lost(call[t].bucket)
         /\ slot[t] \in 1 .. Len(slots[call[t].bucket])
         /\ slots[call[t].bucket][slot[t]] = Free
    /\ pc[t] = "unlock" /\ Lost(call[t].bucket) => reply[t].code = "SYSTEM"
    /\ ArraySize # 0 => reply[t].code # "INTERNAL"

\* What the counters of a bucket say of its array; a lost one keeps a slot_size that
\* is neither zero nor as large as its slot_max.
BucketInv(b) ==
    /\ Lost(b) => slots[b] = <<>> /\ 0 < slot_size[b] /\ slot_size[b] < slot_max[b]
    /\ ~ Lost(b) => /\ slot_max[b] = Len(slots[b])
                    /\ slot_size[b] = Cardinality(Allocated(slots[b]))
    /\ ArraySize # 0 => slot_max[b] > 0

\* The entries no_objects counts: those of a lost bucket, full when it was lost, are
\* still among them.
Placed(b) == IF Lost(b) THEN 1 .. slot_size[b] ELSE Allocated(slots[b])

Places == UNION {{<<b, i>> : i \in Placed(b)} : b \in Bucket}

ObjectsInv == IsFiniteSet(Places) /\ no_objects = Cardinality(Places)

\* The variables that TypeOK reads only argument by argument are functions.
Functional == call = [t \in Thread |-> call[t]] /\ reply = [t \in Thread |-> reply[t]]

IndInv ==
    /\ TypeOK /\ Functional
    /\ \A t \in Thread : ThreadInv(t)
    /\ \A b \in Bucket : BucketInv(b)
    /\ ObjectsInv

\* The calls have the fields their operation needs.
LEMMA CallShape ==
  ASSUME NEW t \in Thread, NEW c \in CallsOf(t)
  PROVE  /\ c.op \in {"insert", "get", "remove", "to_array"}
         /\ c.bucket \in Bucket
         /\ c.op = "insert" => /\ c.key \in InsertKeys[t] /\ c.key \in Key
                               /\ c.data \in Data /\ c.bucket = BucketOf(c.key)
         /\ c.op \in {"get", "remove"} => c.key \in Key /\ c.bucket = BucketOf(c.key)
  BY ArrayTableAssumption, BucketOfType DEF CallsOf

\* The early exit of a scan hides no entry of a bucket, holes or not.
LEMMA HitsExact ==
  ASSUME IndInv, NEW b \in Bucket, NEW k
  PROVE  Hits(b, k) = {i \in Allocated(slots[b]) : slots[b][i].key = k}
<1>1. slots[b] \in Seq(Slot)
  BY DEF IndInv, TypeOK
<1>2. CASE Lost(b)
  <2>1. slots[b] = <<>>
    BY <1>2 DEF IndInv, BucketInv
  <2>2. Allocated(slots[b]) = {}
    BY <2>1 DEF Allocated
  <2> QED
    BY <2>2 DEF Hits
<1>3. CASE ~ Lost(b)
  <2>1. slot_size[b] = Cardinality(Allocated(slots[b]))
    BY <1>3 DEF IndInv, BucketInv
  <2>2. \A i \in Allocated(slots[b]) : Checked(slots[b], i) < slot_size[b]
    BY <1>1, <2>1, CheckedFew
  <2> QED
    BY <2>2 DEF Hits
<1> QED
  BY <1>2, <1>3

\* A hit is a slot with an entry.
LEMMA HitSlot ==
  ASSUME IndInv, NEW b \in Bucket, NEW k, Hits(b, k) # {}
  PROVE  /\ First(Hits(b, k)) \in Allocated(slots[b])
         /\ First(Hits(b, k)) \in 1 .. Len(slots[b])
         /\ slots[b][First(Hits(b, k))].key = k
         /\ slots[b][First(Hits(b, k))].data \in Data
<1>1. slots[b] \in Seq(Slot) /\ Len(slots[b]) \in Nat
  BY DEF IndInv, TypeOK
<1>2. Hits(b, k) \in SUBSET (1 .. Len(slots[b]))
  BY <1>1, AllocatedFinite DEF Hits
<1>3. First(Hits(b, k)) \in Hits(b, k)
  BY <1>1, <1>2, FirstIn
<1>4. \A i \in 1 .. Len(slots[b]) : slots[b][i] \in Slot
  BY <1>1
<1> QED
  BY <1>2, <1>3, <1>4 DEF Hits, Allocated, Slot, Free

\* A scan or a walk goes on only in a bucket that is not lost.
LEMMA ReadableKept ==
  ASSUME IndInv, NEW b \in Bucket, Readable(b)
  PROVE  ~ Lost(b)
  BY DEF IndInv, BucketInv, Readable

\* A step of t that leaves the others their variables, takes the mutex only when it is
\* free, gives back its own, and touches the table only with the mutex, keeps what
\* the others rely on.
LEMMA OthersKeep ==
  ASSUME IndInv, NEW t \in Thread, NEW u \in Thread, u # t,
         pc'[u] = pc[u], call'[u] = call[u], slot'[u] = slot[u], reply'[u] = reply[u],
         mutex' = mutex \/ mutex = NoOwner \/ mutex = t,
         UNCHANGED table \/ mutex = t
  PROVE  ThreadInv(u)'
<1>1. ThreadInv(u)
  BY DEF IndInv
<1>2. CASE pc[u] \in Inside
  <2>1. mutex = u /\ NoOwner \notin Thread
    BY <1>1, <1>2, ArrayTableAssumption DEF ThreadInv
  <2>2. mutex' = mutex /\ UNCHANGED table
    BY <2>1
  <2> QED
    BY <1>1, <2>2 DEF ThreadInv, Lost, table
<1>3. CASE pc[u] \notin Inside
  BY <1>1, <1>3 DEF ThreadInv, Inside
<1> QED
  BY <1>2, <1>3

\* A step that leaves the table alone keeps what the counters say of it.
LEMMA TableKept ==
  ASSUME IndInv, UNCHANGED table
  PROVE  (\A b \in Bucket : BucketInv(b))' /\ ObjectsInv'
<1>1. \A b \in Bucket : BucketInv(b)'
  BY DEF IndInv, BucketInv, Lost, table
<1>2. ObjectsInv'
  BY DEF IndInv, ObjectsInv, Places, Placed, Lost, table
<1> QED
  BY <1>1, <1>2

\* At most one thread is in a critical section.
LEMMA Alone ==
  ASSUME IndInv, NEW t \in Thread, pc[t] \in Inside
  PROVE  mutex = t /\ call[t] \in CallsOf(t) /\ call[t].bucket \in Bucket
<1>1. mutex = t /\ call[t] \in CallsOf(t)
  BY DEF IndInv, ThreadInv, Inside
<1> QED
  BY <1>1, CallShape

LEMMA InitIndInv == Init => IndInv
<1> SUFFICES ASSUME Init
             PROVE  IndInv
  OBVIOUS
<1>0. [i \in 1 .. ArraySize |-> Free] \in Seq(Slot) /\ ArraySize \in Nat
  BY ArrayTableAssumption DEF Slot
<1>1. TypeOK
  BY <1>0, ArrayTableAssumption DEF Init, TypeOK, PC, Code, NoReply
<1>2. Functional
  BY DEF Init, Functional
<1>3. \A b \in Bucket : ~ Lost(b) /\ Allocated(slots[b]) = {}
  BY <1>0 DEF Init, Lost, Allocated
<1>4. \A t \in Thread : ThreadInv(t)
  BY <1>3 DEF Init, ThreadInv, Inside, NoReply
<1>5. IsFiniteSet({}) /\ Cardinality({}) = 0
  BY FS_EmptySet
<1>6. \A b \in Bucket : BucketInv(b)
  <2>1. \A b \in Bucket : Len(slots[b]) = ArraySize /\ slot_max[b] = ArraySize /\ slot_size[b] = 0
    BY <1>0 DEF Init
  <2>2. \A b \in Bucket : Cardinality(Allocated(slots[b])) = 0
    BY <1>3, <1>5
  <2> QED
    BY <1>0, <1>3, <2>1, <2>2 DEF BucketInv
<1>7. Places = {}
  BY <1>3 DEF Places, Placed
<1>8. ObjectsInv
  BY <1>5, <1>7 DEF Init, ObjectsInv
<1> QED
  BY <1>1, <1>2, <1>4, <1>6, <1>8 DEF IndInv

\* What a step of t changes of its own variables.
OwnStep(t, l, n, r) ==
    /\ pc' = [pc EXCEPT ![t] = l]
    /\ slot' = [slot EXCEPT ![t] = n]
    /\ reply' = [reply EXCEPT ![t] = r]
    /\ UNCHANGED <<call, calls>>
    /\ mutex' \in Thread \cup {NoOwner}
    /\ mutex' = mutex \/ mutex = NoOwner \/ mutex = t

\* What it makes of them.
LEMMA OwnValues ==
  ASSUME IndInv, NEW t \in Thread, NEW l, NEW n, NEW r, OwnStep(t, l, n, r)
  PROVE  /\ pc'[t] = l /\ slot'[t] = n /\ reply'[t] = r /\ call'[t] = call[t]
         /\ \A u \in Thread \ {t} :
              pc'[u] = pc[u] /\ call'[u] = call[u] /\ slot'[u] = slot[u] /\ reply'[u] = reply[u]
  BY DEF IndInv, TypeOK, Functional, OwnStep

\* A step of t keeps the invariant if it keeps its types, what t relies on and what the
\* counters say.
LEMMA OwnStepKeeps ==
  ASSUME IndInv, NEW t \in Thread, NEW l \in PC, NEW n \in Nat, NEW r, OwnStep(t, l, n, r),
         r.code \in Code, r.data \in Data \cup {None},
         coll_eng' = coll_eng, slots' \in [Bucket -> Seq(Slot)],
         slot_size' \in [Bucket -> Nat], slot_max' \in [Bucket -> Nat], no_objects' \in Nat,
         UNCHANGED table \/ mutex = t,
         ThreadInv(t)', \A b \in Bucket : BucketInv(b)', ObjectsInv'
  PROVE  IndInv'
<1>1. Functional'
  BY DEF IndInv, Functional, OwnStep
<1>2. TypeOK'
  <2>1. pc' \in [Thread -> PC] /\ slot' \in [Thread -> Nat] /\ calls' \in [Thread -> 0 .. MaxCalls]
    BY DEF IndInv, TypeOK, OwnStep
  <2>2. \A u \in Thread : call'[u] \in CallsOf(u) \cup {NoCall}
    BY DEF IndInv, TypeOK, OwnStep
  <2>3. \A u \in Thread : reply'[u].code \in Code /\ reply'[u].data \in Data \cup {None}
    <3>1. reply'[t] = r /\ \A u \in Thread \ {t} : reply'[u] = reply[u]
      BY OwnValues
    <3>2. \A u \in Thread : reply[u].code \in Code /\ reply[u].data \in Data \cup {None}
      BY DEF IndInv, TypeOK
    <3> QED
      BY <3>1, <3>2
  <2>4. coll_eng' \in CollEngs
    BY DEF IndInv, TypeOK
  <2> QED
    BY <2>1, <2>2, <2>3, <2>4 DEF TypeOK, OwnStep
<1>3. ASSUME NEW u \in Thread PROVE ThreadInv(u)'
  BY OwnValues, OthersKeep, ZenonT(60) DEF OwnStep
<1> QED
  BY <1>1, <1>2, <1>3 DEF IndInv

\* A step that leaves the table alone.
LEMMA LocalStep ==
  ASSUME IndInv, NEW t \in Thread, NEW l \in PC, NEW n \in Nat, NEW r, OwnStep(t, l, n, r),
         r.code \in Code, r.data \in Data \cup {None}, UNCHANGED table, ThreadInv(t)'
  PROVE  IndInv'
<1>1. (\A b \in Bucket : BucketInv(b)') /\ ObjectsInv'
  BY TableKept
<1>2. /\ coll_eng' = coll_eng /\ slots' \in [Bucket -> Seq(Slot)]
      /\ slot_size' \in [Bucket -> Nat] /\ slot_max' \in [Bucket -> Nat] /\ no_objects' \in Nat
  BY DEF IndInv, TypeOK, table
<1> QED
  BY <1>1, <1>2, OwnStepKeeps

\* The answers without data.
LEMMA AnswerValues ==
  ASSUME IndInv, NEW t \in Thread
  PROVE  /\ reply[t].code \in Code /\ reply[t].data \in Data \cup {None} /\ slot[t] \in Nat
         /\ reply = [reply EXCEPT ![t] = reply[t]]
         /\ slot = [slot EXCEPT ![t] = slot[t]]
         /\ mutex \in Thread \cup {NoOwner}
         /\ \A code, data : LET r == [NoReply EXCEPT !.code = code, !.data = data] IN
                r.code = code /\ r.data = data
  BY DEF IndInv, TypeOK, Functional, NoReply

\* The steps that leave the table alone.
LEMMA LocalSteps ==
  ASSUME IndInv, NEW t \in Thread,
         \/ ScanNothing(t) \/ ScanLock(t) \/ ScanGet(t) \/ ScanUnlock(t)
         \/ Lock(t) \/ NoGrowth(t) \/ Find(t) \/ KeyFails(t)
         \/ Copy(t) \/ CopyFails(t) \/ Unlock(t)
  PROVE  IndInv'
<1> DEFINE b == call[t].bucket
           returned(code, data) == [NoReply EXCEPT !.code = code, !.data = data]
<1>0. /\ ThreadInv(t) /\ None \in Data \cup {None} /\ NoOwner \notin Thread
  BY ArrayTableAssumption DEF IndInv
<1>1. CASE ScanNothing(t)
  <2>1. CASE call[t].op = "insert"
    <3>1. OwnStep(t, "lock", slot[t], reply[t]) /\ UNCHANGED table /\ call[t] \in CallsOf(t)
      BY <1>0, <1>1, <2>1, AnswerValues DEF ScanNothing, OwnStep, Goto, ThreadInv
    <3>2. ThreadInv(t)'
      BY <1>0, <3>1, OwnValues DEF ThreadInv, Inside
    <3> QED
      BY <3>1, <3>2, AnswerValues, LocalStep DEF PC
  <2>2. CASE call[t].op # "insert"
    <3>1. OwnStep(t, "idle", slot[t], returned("NOKEY", None)) /\ UNCHANGED table
      BY <1>1, <2>2, AnswerValues DEF ScanNothing, OwnStep, Goto, Return
    <3>2. returned("NOKEY", None).code = "NOKEY" /\ returned("NOKEY", None).data = None
      BY AnswerValues
    <3> HIDE DEF returned
    <3>3. ThreadInv(t)'
      BY <1>0, <3>1, <3>2, OwnValues DEF ThreadInv, Inside
    <3> QED
      BY <1>0, <3>1, <3>2, <3>3, AnswerValues, LocalStep DEF PC, Code
  <2> QED
    BY <2>1, <2>2
<1>2. CASE ScanLock(t)
  <2>1. OwnStep(t, "scan", slot[t], reply[t]) /\ UNCHANGED table /\ call[t] \in CallsOf(t)
        /\ mutex' = t
    BY <1>0, <1>2, AnswerValues DEF ScanLock, OwnStep, Goto, Acquire, ThreadInv
  <2>2. ThreadInv(t)'
    BY <1>0, <2>1, OwnValues DEF ThreadInv
  <2> QED
    BY <2>1, <2>2, AnswerValues, LocalStep DEF PC
<1>3. CASE ScanGet(t)
  <2>1. /\ pc[t] = "scan" /\ UNCHANGED <<table, mutex, call, slot, calls>>
        /\ Readable(b)
    BY <1>3 DEF ScanGet
  <2>2. mutex = t /\ call[t] \in CallsOf(t) /\ b \in Bucket /\ ~ Lost(b)
    BY <2>1, Alone, ReadableKept DEF Inside
  <2>3. CASE call[t].op = "insert" /\ Hits(b, call[t].key) = {}
    <3>1. OwnStep(t, "scan_unlock", slot[t], reply[t])
      BY <1>3, <2>1, <2>3, AnswerValues DEF ScanGet, OwnStep, Goto
    <3>2. ThreadInv(t)'
      BY <1>0, <2>1, <2>2, <2>3, <3>1, OwnValues DEF ThreadInv
    <3> QED
      BY <2>1, <3>1, <3>2, AnswerValues, LocalStep DEF PC
  <2>4. CASE ~ (call[t].op = "insert" /\ Hits(b, call[t].key) = {})
    <3>1. PICK code \in {"SUCCESS", "DUPKEY", "NOKEY"}, data \in Data \cup {None} :
            Return(t, code, data) /\ Goto(t, "unlock")
      <4>1. CASE Hits(b, call[t].key) # {} /\ call[t].op = "get"
        <5>1. slots[b][First(Hits(b, call[t].key))].data \in Data
          BY <2>2, <4>1, HitSlot
        <5> QED
          BY <1>3, <4>1, <5>1 DEF ScanGet
      <4>2. CASE ~ (Hits(b, call[t].key) # {} /\ call[t].op = "get")
        BY <1>3, <2>4, <4>2 DEF ScanGet
      <4> QED
        BY <4>1, <4>2
    <3>2. OwnStep(t, "unlock", slot[t], returned(code, data))
      BY <2>1, <3>1, AnswerValues DEF OwnStep, Goto, Return
    <3>3. returned(code, data).code = code /\ returned(code, data).data = data
      BY AnswerValues
    <3> HIDE DEF returned
    <3>4. ThreadInv(t)'
      BY <1>0, <2>1, <2>2, <3>2, <3>3, OwnValues DEF ThreadInv, Lost, table
    <3> QED
      BY <2>1, <3>2, <3>3, <3>4, AnswerValues, LocalStep DEF PC, Code
  <2> QED
    BY <2>3, <2>4
<1>4. CASE ScanUnlock(t)
  <2>1. mutex = t /\ call[t] \in CallsOf(t)
    BY <1>4, Alone DEF ScanUnlock, Inside
  <2>2. OwnStep(t, "lock", slot[t], reply[t]) /\ UNCHANGED table
    BY <1>4, <2>1, AnswerValues DEF ScanUnlock, OwnStep, Goto, Release
  <2>3. ThreadInv(t)'
    BY <1>0, <2>1, <2>2, OwnValues DEF ThreadInv, Inside
  <2> QED
    BY <2>2, <2>3, AnswerValues, LocalStep DEF PC
<1>5. CASE Lock(t)
  <2>1. PICK l \in {"grow", "copy"} :
          /\ OwnStep(t, l, slot[t], reply[t]) /\ UNCHANGED table /\ call[t] \in CallsOf(t)
          /\ mutex' = t /\ (l = "grow" => call[t].op = "insert")
    BY <1>0, <1>5, AnswerValues DEF Lock, OwnStep, Goto, Acquire, ThreadInv
  <2>2. ThreadInv(t)'
    BY <1>0, <2>1, OwnValues DEF ThreadInv
  <2> QED
    BY <2>1, <2>2, AnswerValues, LocalStep DEF PC
<1>6. CASE NoGrowth(t)
  <2>1. mutex = t /\ call[t] \in CallsOf(t) /\ b \in Bucket /\ call[t].op = "insert"
    BY <1>0, <1>6, Alone DEF NoGrowth, Inside, ThreadInv
  <2>2. OwnStep(t, "find", slot[t], reply[t]) /\ UNCHANGED <<table, mutex>>
    BY <1>6, <2>1, AnswerValues DEF NoGrowth, OwnStep, Goto
  <2>3. slot_size[b] < slot_max[b]
    BY <1>6, <2>1 DEF NoGrowth, Full, IndInv, TypeOK
  <2>4. ThreadInv(t)'
    BY <1>0, <2>1, <2>2, <2>3, OwnValues DEF ThreadInv, table
  <2> QED
    BY <2>2, <2>4, AnswerValues, LocalStep DEF PC
<1>7. CASE Find(t)
  <2> DEFINE s == slots[b]
             free == {i \in DOMAIN s : s[i] = Free}
  <2>1. /\ mutex = t /\ call[t] \in CallsOf(t) /\ b \in Bucket /\ call[t].op = "insert"
        /\ pc[t] = "find" /\ ~ Lost(b) /\ UNCHANGED <<table, mutex, call, calls>>
    BY <1>0, <1>7, Alone DEF Find, Inside, ThreadInv
  <2>2. s \in Seq(Slot) /\ Len(s) \in Nat /\ DOMAIN s = 1 .. Len(s)
    BY <2>1 DEF IndInv, TypeOK
  <2>3. ArraySize # 0 => free # {}
    <3>1. slot_max[b] = Len(s) /\ slot_size[b] = Cardinality(Allocated(s))
      BY <2>1 DEF IndInv, BucketInv
    <3>2. ArraySize # 0 => slot_size[b] < slot_max[b]
      BY <1>0, <2>1 DEF ThreadInv
    <3> QED
      BY <2>2, <3>1, <3>2, AllocatedFinite
  <2>4. CASE free = {}
    <3>1. OwnStep(t, "unlock", slot[t], returned("INTERNAL", None))
      BY <1>7, <2>1, <2>4, AnswerValues DEF Find, OwnStep, Goto, Return
    <3>2. returned("INTERNAL", None).code = "INTERNAL" /\ returned("INTERNAL", None).data = None
      BY AnswerValues
    <3> HIDE DEF returned, free
    <3>3. ThreadInv(t)'
      BY <2>1, <2>3, <2>4, <3>1, <3>2, OwnValues DEF ThreadInv, Lost, table
    <3> QED
      BY <2>1, <3>1, <3>2, <3>3, AnswerValues, LocalStep DEF PC, Code
  <2>5. CASE free # {}
    <3>1. First(free) \in free /\ First(free) \in 1 .. Len(s) /\ s[First(free)] = Free
      <4>1. free \in SUBSET (1 .. Len(s))
        BY <2>2
      <4>2. First(free) \in free
        <5> HIDE DEF free
        <5> QED
          BY <2>2, <2>5, <4>1, FirstIn
      <4> QED
        BY <4>1, <4>2
    <3>2. OwnStep(t, "place", First(free), reply[t])
      BY <1>7, <2>1, <2>5, AnswerValues DEF Find, OwnStep, Goto
    <3> HIDE DEF free
    <3>3. ThreadInv(t)'
      BY <1>0, <2>1, <3>1, <3>2, OwnValues DEF ThreadInv, Lost, table
    <3>4. First(free) \in Nat
      BY <2>2, <3>1
    <3> QED
      BY <2>1, <3>2, <3>3, <3>4, AnswerValues, LocalStep DEF PC
  <2> QED
    BY <2>4, <2>5
<1>8. CASE KeyFails(t)
  <2>1. /\ OwnStep(t, "idle", slot[t], returned("SYSTEM", None)) /\ UNCHANGED table
    BY <1>8, AnswerValues DEF KeyFails, OwnStep, Goto, Return
  <2>2. returned("SYSTEM", None).code = "SYSTEM" /\ returned("SYSTEM", None).data = None
    BY AnswerValues
  <2> HIDE DEF returned
  <2>3. ThreadInv(t)'
    BY <2>1, <2>2, OwnValues DEF ThreadInv, Inside
  <2> QED
    BY <2>1, <2>2, <2>3, AnswerValues, LocalStep DEF PC, Code
<1>9. CASE Copy(t)
  <2>1. /\ mutex = t /\ call[t] \in CallsOf(t) /\ b \in Bucket /\ ~ Lost(b)
        /\ UNCHANGED <<table, mutex, call, slot, calls>> /\ Goto(t, "unlock")
    BY <1>9, Alone, ReadableKept DEF Copy, Inside
  <2>2. PICK r : /\ reply' = [reply EXCEPT ![t] = r]
                 /\ r.code \in {"NODATA", "SUCCESS"} /\ r.data = None
    <3>1. CASE slot_size[b] = 0
      <4>1. returned("NODATA", None).code = "NODATA" /\ returned("NODATA", None).data = None
        BY AnswerValues
      <4>2. reply' = [reply EXCEPT ![t] = returned("NODATA", None)]
        BY <1>9, <3>1 DEF Copy, Return
      <4> QED
        BY <4>1, <4>2
    <3>2. CASE slot_size[b] # 0
      <4> DEFINE r == [code |-> "SUCCESS", data |-> None,
                       content |-> Packed(slots[b], slot_size[b]),
                       lengths |-> [i \in 1 .. slot_size[b] |-> slots[b][i].key]]
      <4>1. reply' = [reply EXCEPT ![t] = r]
        BY <1>9, <3>2 DEF Copy
      <4>2. r.code = "SUCCESS" /\ r.data = None
        OBVIOUS
      <4> QED
        BY <4>1, <4>2
    <3> QED
      BY <3>1, <3>2
  <2>3. OwnStep(t, "unlock", slot[t], r)
    BY <2>1, <2>2, AnswerValues DEF OwnStep, Goto
  <2>4. ThreadInv(t)'
    BY <2>1, <2>2, <2>3, OwnValues DEF ThreadInv, Lost, table
  <2> QED
    BY <2>1, <2>2, <2>3, <2>4, AnswerValues, LocalStep DEF PC, Code
<1>10. CASE CopyFails(t)
  <2>1. /\ mutex = t /\ call[t] \in CallsOf(t)
        /\ UNCHANGED <<table, mutex, call, slot, calls>> /\ Goto(t, "unlock")
    BY <1>10, Alone DEF CopyFails, Inside
  <2>2. OwnStep(t, "unlock", slot[t], returned("SYSTEM", None))
    BY <1>10, <2>1, AnswerValues DEF CopyFails, OwnStep, Goto, Return
  <2>3. returned("SYSTEM", None).code = "SYSTEM" /\ returned("SYSTEM", None).data = None
    BY AnswerValues
  <2> HIDE DEF returned
  <2>4. ThreadInv(t)'
    BY <2>1, <2>2, <2>3, OwnValues DEF ThreadInv
  <2> QED
    BY <2>1, <2>2, <2>3, <2>4, AnswerValues, LocalStep DEF PC, Code
<1>11. CASE Unlock(t)
  <2>1. mutex = t
    BY <1>11, Alone DEF Unlock, Inside
  <2>2. OwnStep(t, "idle", slot[t], reply[t]) /\ UNCHANGED table
    BY <1>11, <2>1, AnswerValues DEF Unlock, OwnStep, Goto, Release
  <2>3. ThreadInv(t)'
    BY <1>0, <2>2, OwnValues DEF ThreadInv, Inside
  <2> QED
    BY <2>2, <2>3, AnswerValues, LocalStep DEF PC
<1> QED
  BY <1>1, <1>2, <1>3, <1>4, <1>5, <1>6, <1>7, <1>8, <1>9, <1>10, <1>11

\* An entry less, or one more, in a bucket is one in the table.
LEMMA PlacesLess ==
  ASSUME IsFiniteSet(Places), NEW b \in Bucket, NEW i \in Placed(b),
         Placed(b)' = Placed(b) \ {i}, \A d \in Bucket \ {b} : Placed(d)' = Placed(d)
  PROVE  /\ IsFiniteSet(Places') /\ Cardinality(Places') \in Nat
         /\ Cardinality(Places') = Cardinality(Places) - 1
<1>1. \A x : x \in Places <=> \E d \in Bucket : \E j \in Placed(d) : x = <<d, j>>
  BY DEF Places
<1>2. \A x : x \in Places' <=> \E d \in Bucket : \E j \in Placed(d)' : x = <<d, j>>
  BY DEF Places
<1>3. \A x : x \in Places' <=> x \in Places /\ x # <<b, i>>
  BY <1>1, <1>2
<1>4. Places' = Places \ {<<b, i>>} /\ <<b, i>> \in Places
  BY <1>1, <1>3
<1> QED
  BY <1>4, FS_RemoveElement, FS_CardinalityType

LEMMA PlacesMore ==
  ASSUME IsFiniteSet(Places), NEW b \in Bucket, NEW i, i \notin Placed(b),
         Placed(b)' = Placed(b) \cup {i}, \A d \in Bucket \ {b} : Placed(d)' = Placed(d)
  PROVE  /\ IsFiniteSet(Places') /\ Cardinality(Places') \in Nat
         /\ Cardinality(Places') = Cardinality(Places) + 1
<1>1. \A x : x \in Places <=> \E d \in Bucket : \E j \in Placed(d) : x = <<d, j>>
  BY DEF Places
<1>2. \A x : x \in Places' <=> \E d \in Bucket : \E j \in Placed(d)' : x = <<d, j>>
  BY DEF Places
<1>3. \A x : x \in Places' <=> x \in Places \/ x = <<b, i>>
  BY <1>1, <1>2
<1>4. Places' = Places \cup {<<b, i>>} /\ <<b, i>> \notin Places
  BY <1>1, <1>3
<1> QED
  BY <1>4, FS_AddElement, FS_CardinalityType

\* A step that gives one bucket an array, and counters that describe it.
LEMMA BucketReplaced ==
  ASSUME IndInv, NEW b \in Bucket, ~ Lost(b), NEW q \in Seq(Slot), NEW n \in Nat, NEW m \in Nat,
         slots' = [slots EXCEPT ![b] = q], slot_size' = [slot_size EXCEPT ![b] = n],
         slot_max' = [slot_max EXCEPT ![b] = m],
         m = Len(q), n = Cardinality(Allocated(q)), ArraySize # 0 => m > 0
  PROVE  /\ slots' \in [Bucket -> Seq(Slot)]
         /\ slot_size' \in [Bucket -> Nat] /\ slot_max' \in [Bucket -> Nat]
         /\ slots'[b] = q /\ slot_size'[b] = n /\ slot_max'[b] = m
         /\ ~ Lost(b)'
         /\ \A d \in Bucket : BucketInv(d)'
         /\ Placed(b) = Allocated(slots[b]) /\ Placed(b)' = Allocated(q)
         /\ \A d \in Bucket \ {b} : Placed(d)' = Placed(d)
<1>1. /\ slots \in [Bucket -> Seq(Slot)]
      /\ slot_size \in [Bucket -> Nat] /\ slot_max \in [Bucket -> Nat]
  BY DEF IndInv, TypeOK
<1>2. slots' \in [Bucket -> Seq(Slot)] /\ slots'[b] = q
      /\ \A d \in Bucket \ {b} : slots'[d] = slots[d]
  BY <1>1
<1>3. slot_size' \in [Bucket -> Nat] /\ slot_size'[b] = n
      /\ \A d \in Bucket \ {b} : slot_size'[d] = slot_size[d]
  BY <1>1
<1>4. slot_max' \in [Bucket -> Nat] /\ slot_max'[b] = m
      /\ \A d \in Bucket \ {b} : slot_max'[d] = slot_max[d]
  BY <1>1
<1>5. ~ Lost(b)'
  BY <1>2, <1>4 DEF Lost
<1>6. ASSUME NEW d \in Bucket \ {b} PROVE BucketInv(d)' /\ Placed(d)' = Placed(d)
  <2>1. slots'[d] = slots[d] /\ slot_size'[d] = slot_size[d] /\ slot_max'[d] = slot_max[d]
    BY <1>2, <1>3, <1>4
  <2>2. Lost(d)' <=> Lost(d)
    BY <2>1 DEF Lost
  <2>3. BucketInv(d)
    BY DEF IndInv
  <2>4. BucketInv(d)'
    BY <2>1, <2>2, <2>3 DEF BucketInv
  <2>5. Placed(d)' = Placed(d)
    BY <2>1, <2>2 DEF Placed
  <2> QED
    BY <2>4, <2>5
<1>7. BucketInv(b)'
  BY <1>2, <1>3, <1>4, <1>5 DEF BucketInv
<1>8. Placed(b) = Allocated(slots[b])
  BY DEF Placed
<1>9. Placed(b)' = Allocated(q)
  BY <1>2, <1>5 DEF Placed
<1> QED
  BY <1>2, <1>3, <1>4, <1>5, <1>6, <1>7, <1>8, <1>9

\* The removal of a key.
LEMMA RemoveStep ==
  ASSUME IndInv, NEW t \in Thread, ScanRemove(t)
  PROVE  IndInv'
<1>a. PICK b \in Bucket : b = call[t].bucket
  BY Alone DEF ScanRemove, Inside
<1> DEFINE k == call[t].key
           i == First(Hits(b, k))
           returned(code, data) == [NoReply EXCEPT !.code = code, !.data = data]
<1>0. ThreadInv(t) /\ None \in Data \cup {None}
  BY DEF IndInv
<1>1. /\ pc[t] = "scan" /\ UNCHANGED <<coll_eng, mutex, call, slot, calls>>
      /\ Goto(t, "unlock")
      /\ mutex = t /\ call[t] \in CallsOf(t) /\ ~ Lost(b)
  BY <1>a, Alone, ReadableKept DEF ScanRemove, Inside
<1>2. CASE Hits(b, k) = {}
  <2>1. OwnStep(t, "unlock", slot[t], returned("NOKEY", None)) /\ UNCHANGED table
    BY <1>a, <1>1, <1>2, AnswerValues DEF ScanRemove, OwnStep, Goto, Return
  <2>2. returned("NOKEY", None).code = "NOKEY" /\ returned("NOKEY", None).data = None
    BY AnswerValues
  <2> HIDE DEF returned
  <2>3. ThreadInv(t)'
    BY <1>a, <1>1, <2>1, <2>2, OwnValues DEF ThreadInv, Lost, table
  <2> QED
    BY <1>0, <2>1, <2>2, <2>3, AnswerValues, LocalStep DEF PC, Code
<1>3. CASE Hits(b, k) # {}
  <2> DEFINE s == slots[b]
             q == [s EXCEPT ![i] = Free]
             r == returned("SUCCESS", s[i].data)
             n == slot_size[b] - 1
  <2>1. i \in Allocated(s) /\ i \in 1 .. Len(s) /\ s[i].data \in Data
    BY <1>1, <1>3, HitSlot
  <2>2. OwnStep(t, "unlock", slot[t], r)
    BY <1>a, <1>1, <1>3, AnswerValues DEF ScanRemove, OwnStep, Goto, Return
  <2>3. r.code = "SUCCESS" /\ r.data = s[i].data
    BY AnswerValues
  <2>4. /\ slots' = [slots EXCEPT ![b] = q]
        /\ slot_size' = [slot_size EXCEPT ![b] = n]
        /\ no_objects' = no_objects - 1 /\ slot_max' = slot_max
    BY <1>a, <1>3 DEF ScanRemove
  <2> HIDE DEF k, i, r, s, returned
  <2>5. /\ s \in Seq(Slot) /\ Free \in Slot
        /\ slot_size \in [Bucket -> Nat] /\ slot_max \in [Bucket -> Nat] /\ no_objects \in Nat
    BY <1>1 DEF IndInv, TypeOK, Slot, s
  <2>6. q \in Seq(Slot) /\ Len(q) = Len(s) /\ Allocated(q) = Allocated(s) \ {i}
    <3>1. /\ q \in Seq(Slot) /\ Len(q) = Len(s)
          /\ q[i] = Free /\ \A j \in 1 .. Len(s) : j # i => q[j] = s[j]
      BY <2>1, <2>5, ExceptSeq
    <3> HIDE DEF q
    <3> QED
      BY <2>1, <2>5, <3>1, SlotWritten
  <2> HIDE DEF q
  <2>7. /\ slot_size[b] = Cardinality(Allocated(s)) /\ slot_max[b] = Len(s)
        /\ ArraySize # 0 => slot_max[b] > 0
    BY <1>1 DEF IndInv, BucketInv, s
  <2>8. n = Cardinality(Allocated(q)) /\ n \in Nat
    <3>1. IsFiniteSet(Allocated(s))
      BY <2>5, AllocatedFinite
    <3>2. IsFiniteSet(Allocated(q)) /\ Cardinality(Allocated(q)) = Cardinality(Allocated(s)) - 1
      BY <2>1, <2>6, <3>1, FS_RemoveElement
    <3> QED
      BY <2>7, <3>2, FS_CardinalityType
  <2> HIDE DEF n
  <2>9. slot_max' = [slot_max EXCEPT ![b] = slot_max[b]] /\ slot_max[b] \in Nat
    BY <1>1, <2>4, <2>5
  <2>10. /\ slots' \in [Bucket -> Seq(Slot)]
         /\ slot_size' \in [Bucket -> Nat] /\ slot_max' \in [Bucket -> Nat]
         /\ ~ Lost(b)'
         /\ \A d \in Bucket : BucketInv(d)'
         /\ Placed(b) = Allocated(s) /\ Placed(b)' = Allocated(q)
         /\ \A d \in Bucket \ {b} : Placed(d)' = Placed(d)
    <3>1. slot_max[b] = Len(q)
      BY <2>6, <2>7
    <3> QED
      BY <1>1, <2>4, <2>6, <2>7, <2>8, <2>9, <3>1, BucketReplaced DEF s
  <2>11. ObjectsInv' /\ no_objects' \in Nat
    <3>1. IsFiniteSet(Places) /\ no_objects = Cardinality(Places)
      BY DEF IndInv, ObjectsInv
    <3>2. i \in Placed(b) /\ Placed(b)' = Placed(b) \ {i}
      BY <2>1, <2>6, <2>10
    <3>3. /\ IsFiniteSet(Places') /\ Cardinality(Places') \in Nat
          /\ Cardinality(Places') = Cardinality(Places) - 1
      BY <1>1, <2>10, <3>1, <3>2, PlacesLess
    <3> QED
      BY <2>4, <3>1, <3>3 DEF ObjectsInv
  <2>12. ThreadInv(t)'
    BY <1>a, <1>1, <2>2, <2>3, <2>10, OwnValues DEF ThreadInv
  <2>13. r.code \in Code /\ r.data \in Data \cup {None} /\ slot[t] \in Nat
    BY <2>1, <2>3, AnswerValues DEF Code
  <2> QED
    BY <1>1, <2>2, <2>10, <2>11, <2>12, <2>13, OwnStepKeeps DEF PC
<1> QED
  BY <1>2, <1>3

\* The entries of the table are the same as those of its buckets.
LEMMA PlacesSame ==
  ASSUME IndInv, no_objects' = no_objects, \A d \in Bucket : Placed(d)' = Placed(d)
  PROVE  ObjectsInv' /\ no_objects' \in Nat
<1>1. Places' = Places
  BY DEF Places
<1> QED
  BY <1>1 DEF IndInv, ObjectsInv, TypeOK

\* A bucket that grows is not lost, and all its slots are allocated.
LEMMA FullBucket ==
  ASSUME IndInv, NEW b \in Bucket, Full(b)
  PROVE  /\ ~ Lost(b) /\ slots[b] \in Seq(Slot)
         /\ slot_size[b] \in Nat /\ slot_max[b] \in Nat
         /\ slot_size[b] = slot_max[b] /\ slot_max[b] = Len(slots[b])
         /\ slot_size[b] = Cardinality(Allocated(slots[b]))
         /\ Allocated(slots[b]) = 1 .. slot_size[b]
         /\ ArraySize # 0 => slot_max[b] > 0
<1>1. slots[b] \in Seq(Slot) /\ slot_size[b] \in Nat /\ slot_max[b] \in Nat /\ BucketInv(b)
  BY DEF IndInv, TypeOK
<1>2. ~ Lost(b)
  BY <1>1 DEF BucketInv, Full
<1>3. /\ slot_max[b] = Len(slots[b]) /\ slot_size[b] = Cardinality(Allocated(slots[b]))
      /\ ArraySize # 0 => slot_max[b] > 0
  BY <1>1, <1>2 DEF BucketInv
<1>4. Allocated(slots[b]) \subseteq 1 .. Len(slots[b]) /\ slot_size[b] <= Len(slots[b])
  BY <1>1, <1>3, AllocatedFinite
<1>5. slot_size[b] = slot_max[b]
  BY <1>1, <1>3, <1>4 DEF Full
<1>6. IsFiniteSet(1 .. Len(slots[b])) /\ Cardinality(1 .. Len(slots[b])) = Len(slots[b])
  BY <1>1, <1>3, FS_Interval, SMTT(60)
<1>7. Allocated(slots[b]) = 1 .. Len(slots[b])
  <2> DEFINE A == Allocated(slots[b])
             D == 1 .. Len(slots[b])
  <2>1. A \subseteq D /\ IsFiniteSet(D) /\ Cardinality(A) = Cardinality(D)
    BY <1>3, <1>4, <1>5, <1>6
  <2> HIDE DEF A, D
  <2>2. A = D
    BY <2>1, FS_Subset
  <2> QED
    BY <2>2 DEF A, D
<1> QED
  BY <1>1, <1>2, <1>3, <1>5, <1>7

\* The growth of a bucket.
LEMMA GrowStep ==
  ASSUME IndInv, NEW t \in Thread, Grow(t)
  PROVE  IndInv'
<1>a. PICK b \in Bucket : b = call[t].bucket
  BY Alone DEF Grow, Inside
<1> DEFINE s == slots[b]
           m == slot_max[b]
           q == s \o [i \in 1 .. m |-> Free]
<1>0. ThreadInv(t)
  BY DEF IndInv
<1>1. /\ pc[t] = "grow" /\ UNCHANGED <<coll_eng, slot_size, no_objects, mutex, call, slot, reply, calls>>
      /\ Goto(t, "find") /\ Full(b)
      /\ mutex = t /\ call[t] \in CallsOf(t)
  BY <1>a, Alone DEF Grow, Inside
<1>2. call[t].op = "insert"
  BY <1>0, <1>1 DEF ThreadInv
<1>3. /\ ~ Lost(b) /\ s \in Seq(Slot) /\ slot_size[b] \in Nat /\ m \in Nat
      /\ slot_size[b] = m /\ m = Len(s) /\ slot_size[b] = Cardinality(Allocated(s))
      /\ ArraySize # 0 => m > 0
  BY <1>1, FullBucket
<1>4. 2 * m - m = m /\ 2 * m \in Nat
  BY <1>3
<1>5. slots' = [slots EXCEPT ![b] = q] /\ slot_max' = [slot_max EXCEPT ![b] = 2 * m]
  BY <1>a, <1>4 DEF Grow
<1>6. slot_size' = [slot_size EXCEPT ![b] = slot_size[b]]
  BY <1>1 DEF IndInv, TypeOK
<1>7. q \in Seq(Slot) /\ Len(q) = 2 * m /\ Allocated(q) = Allocated(s)
  <2>1. q \in Seq(Slot) /\ Len(q) = Len(s) + m /\ Allocated(q) = Allocated(s)
    BY <1>3, SlotsAdded
  <2> QED
    BY <1>3, <2>1
<1> HIDE DEF s, m, q
<1>8. /\ slots' \in [Bucket -> Seq(Slot)]
      /\ slot_size' \in [Bucket -> Nat] /\ slot_max' \in [Bucket -> Nat]
      /\ slot_size'[b] = slot_size[b] /\ slot_max'[b] = 2 * m
      /\ \A d \in Bucket : BucketInv(d)'
      /\ Placed(b) = Allocated(s) /\ Placed(b)' = Allocated(q)
      /\ \A d \in Bucket \ {b} : Placed(d)' = Placed(d)
  <2>1. slot_size[b] = Cardinality(Allocated(q)) /\ (ArraySize # 0 => 2 * m > 0)
    BY <1>3, <1>7
  <2> QED
    BY <1>3, <1>4, <1>5, <1>6, <1>7, <2>1, BucketReplaced, ZenonT(60) DEF s
<1>9. ObjectsInv' /\ no_objects' \in Nat
  <2>1. \A d \in Bucket : Placed(d)' = Placed(d)
    BY <1>7, <1>8
  <2> QED
    BY <1>1, <2>1, PlacesSame
<1>10. OwnStep(t, "find", slot[t], reply[t])
  BY <1>1, AnswerValues DEF OwnStep, Goto
<1>11. ThreadInv(t)'
  <2>1. ArraySize # 0 => slot_size'[b] < slot_max'[b]
    BY <1>3, <1>8
  <2> QED
    BY <1>a, <1>0, <1>1, <1>2, <1>10, <2>1, OwnValues DEF ThreadInv
<1> QED
  BY <1>1, <1>8, <1>9, <1>10, <1>11, AnswerValues, OwnStepKeeps DEF PC

\* The growth that fails and loses the array.
LEMMA GrowFailsStep ==
  ASSUME IndInv, NEW t \in Thread, GrowFails(t)
  PROVE  IndInv'
<1>a. PICK b \in Bucket : b = call[t].bucket
  BY Alone DEF GrowFails, Inside
<1> DEFINE m == slot_max[b]
           r == [NoReply EXCEPT !.code = "SYSTEM", !.data = None]
<1>0. <<>> \in Seq(Slot) /\ Len(<<>>) = 0 /\ Allocated(<<>>) = {}
  BY DEF Allocated
<1>1. /\ pc[t] = "grow" /\ UNCHANGED <<coll_eng, slot_size, no_objects, mutex, call, slot, calls>>
      /\ Goto(t, "unlock") /\ Full(b) /\ reply' = [reply EXCEPT ![t] = r]
      /\ slots' = [slots EXCEPT ![b] = <<>>] /\ slot_max' = [slot_max EXCEPT ![b] = 2 * m]
      /\ mutex = t /\ call[t] \in CallsOf(t)
  BY <1>a, Alone DEF GrowFails, Return, Inside
<1>2. r.code = "SYSTEM" /\ r.data = None
  BY AnswerValues
<1>3. /\ ~ Lost(b) /\ slot_size[b] \in Nat /\ m \in Nat /\ slot_size[b] = m
      /\ Allocated(slots[b]) = 1 .. m /\ slot_size[b] = Cardinality(Allocated(slots[b]))
      /\ ArraySize # 0 => m > 0
  BY <1>1, FullBucket
<1> HIDE DEF m, r
<1>4. /\ slots \in [Bucket -> Seq(Slot)]
      /\ slot_size \in [Bucket -> Nat] /\ slot_max \in [Bucket -> Nat] /\ 2 * m \in Nat
  BY <1>3 DEF IndInv, TypeOK
<1>5. /\ slots' \in [Bucket -> Seq(Slot)] /\ slot_max' \in [Bucket -> Nat]
      /\ slots'[b] = <<>> /\ slot_max'[b] = 2 * m /\ slot_size' = slot_size
      /\ \A d \in Bucket \ {b} : slots'[d] = slots[d] /\ slot_max'[d] = slot_max[d]
  BY <1>0, <1>1, <1>4
<1>6. Lost(b)' <=> m > 0
  <2>1. Len(slots'[b]) = 0 /\ slot_max'[b] = 2 * m /\ m \in Nat
    BY <1>0, <1>3, <1>5
  <2> QED
    BY <2>1 DEF Lost
<1>7. BucketInv(b)'
  <2>a. /\ slots'[b] = <<>> /\ Len(slots'[b]) = 0 /\ Allocated(slots'[b]) = {}
        /\ slot_size'[b] = m /\ slot_max'[b] = 2 * m /\ m \in Nat
        /\ ArraySize # 0 => m > 0
    BY <1>0, <1>3, <1>5
  <2>1. CASE m = 0
    <3>1. slot_size'[b] = Cardinality(Allocated(slots'[b]))
      BY <2>a, <2>1, FS_EmptySet
    <3>2. ~ Lost(b)' /\ ArraySize = 0 /\ slot_max'[b] = Len(slots'[b])
      BY <1>6, <2>a, <2>1
    <3> QED
      BY <3>1, <3>2 DEF BucketInv
  <2>2. CASE m > 0
    <3>1. Lost(b)' /\ 0 < slot_size'[b] /\ slot_size'[b] < slot_max'[b] /\ slot_max'[b] > 0
      BY <1>6, <2>a, <2>2
    <3> QED
      BY <2>a, <3>1 DEF BucketInv
  <2> QED
    BY <1>3, <2>1, <2>2
<1>8. Placed(b)' = Placed(b)
  <2>1. Placed(b) = 1 .. m
    BY <1>3 DEF Placed
  <2>2. CASE m = 0
    <3>1. Allocated(slots'[b]) = {} /\ ~ Lost(b)' /\ 1 .. m = {}
      BY <1>0, <1>5, <1>6, <2>2
    <3> QED
      BY <2>1, <3>1 DEF Placed
  <2>3. CASE m > 0
    <3>1. Lost(b)' /\ slot_size'[b] = m
      BY <1>3, <1>5, <1>6, <2>3
    <3> QED
      BY <2>1, <3>1 DEF Placed
  <2> QED
    BY <1>3, <2>2, <2>3
<1>9. ASSUME NEW d \in Bucket \ {b} PROVE BucketInv(d)' /\ Placed(d)' = Placed(d)
  <2>1. slots'[d] = slots[d] /\ slot_max'[d] = slot_max[d] /\ slot_size'[d] = slot_size[d]
    BY <1>5
  <2>2. Lost(d)' <=> Lost(d)
    BY <2>1 DEF Lost
  <2>3. BucketInv(d)
    BY DEF IndInv
  <2>4. BucketInv(d)'
    BY <2>1, <2>2, <2>3 DEF BucketInv
  <2>5. Placed(d)' = Placed(d)
    BY <2>1, <2>2 DEF Placed
  <2> QED
    BY <2>4, <2>5
<1>10. \A d \in Bucket : BucketInv(d)' /\ Placed(d)' = Placed(d)
  BY <1>7, <1>8, <1>9
<1>11. ObjectsInv' /\ no_objects' \in Nat
  BY <1>1, <1>10, PlacesSame
<1>12. OwnStep(t, "unlock", slot[t], r)
  BY <1>1, AnswerValues DEF OwnStep, Goto
<1>13. ThreadInv(t)'
  BY <1>a, <1>1, <1>2, <1>12, OwnValues DEF ThreadInv
<1>14. slot_size' \in [Bucket -> Nat] /\ r.code \in Code /\ r.data \in Data \cup {None}
  BY <1>2, <1>4, <1>5 DEF Code
<1> QED
  BY <1>1, <1>5, <1>10, <1>11, <1>12, <1>13, <1>14, AnswerValues, OwnStepKeeps DEF PC

\* The insertion of an entry.
LEMMA PlaceStep ==
  ASSUME IndInv, NEW t \in Thread, Place(t)
  PROVE  IndInv'
<1>a. PICK b \in Bucket : b = call[t].bucket
  BY Alone DEF Place, Inside
<1> DEFINE s == slots[b]
           i == slot[t]
           e == [key |-> call[t].key, data |-> call[t].data]
           q == [s EXCEPT ![i] = e]
           n == slot_size[b] + 1
           r == [NoReply EXCEPT !.code = "SUCCESS", !.data = None]
<1>0. ThreadInv(t)
  BY DEF IndInv
<1>1. /\ pc[t] = "place" /\ UNCHANGED <<coll_eng, slot_max, mutex, call, slot, calls>>
      /\ Goto(t, "unlock") /\ reply' = [reply EXCEPT ![t] = r]
      /\ slots' = [slots EXCEPT ![b] = q] /\ slot_size' = [slot_size EXCEPT ![b] = n]
      /\ no_objects' = no_objects + 1
      /\ mutex = t /\ call[t] \in CallsOf(t)
  BY <1>a, Alone DEF Place, Return, Inside
<1>2. r.code = "SUCCESS" /\ r.data = None
  BY AnswerValues
<1>3. ~ Lost(b) /\ call[t].op = "insert" /\ i \in 1 .. Len(s) /\ s[i] = Free
  BY <1>a, <1>0, <1>1 DEF ThreadInv
<1>4. e \in Slot /\ e # Free
  <2>1. call[t].key \in Key /\ call[t].data \in Data /\ None \notin Key
    BY <1>1, <1>3, CallShape, ArrayTableAssumption
  <2> QED
    BY <2>1 DEF Slot, Free
<1> HIDE DEF i, e, r
<1>5. /\ s \in Seq(Slot) /\ slot_size \in [Bucket -> Nat] /\ slot_max \in [Bucket -> Nat]
      /\ no_objects \in Nat
  BY DEF IndInv, TypeOK
<1>6. i \notin Allocated(s)
  BY <1>3 DEF Allocated
<1> HIDE DEF s
<1>7. q \in Seq(Slot) /\ Len(q) = Len(s) /\ Allocated(q) = Allocated(s) \cup {i}
  <2>1. s \in Seq(Slot) /\ i \in 1 .. Len(s) /\ e \in Slot /\ e # Free
    BY <1>3, <1>4, <1>5
  <2>2. /\ q \in Seq(Slot) /\ Len(q) = Len(s)
        /\ q[i] = e /\ \A j \in 1 .. Len(s) : j # i => q[j] = s[j]
    BY <2>1, ExceptSeq
  <2> HIDE DEF q
  <2> QED
    BY <2>1, <2>2, SlotWritten
<1> HIDE DEF q
<1>8. /\ slot_size[b] = Cardinality(Allocated(s)) /\ slot_max[b] = Len(q)
      /\ ArraySize # 0 => slot_max[b] > 0
  BY <1>3, <1>7 DEF IndInv, BucketInv, s
<1>9. n = Cardinality(Allocated(q)) /\ n \in Nat
  <2>1. IsFiniteSet(Allocated(s))
    BY <1>5, AllocatedFinite
  <2>2. Cardinality(Allocated(q)) = Cardinality(Allocated(s)) + 1
    BY <1>6, <1>7, <2>1, FS_AddElement
  <2> QED
    BY <1>5, <1>8, <2>2
<1> HIDE DEF n
<1>10. slot_max' = [slot_max EXCEPT ![b] = slot_max[b]] /\ slot_max[b] \in Nat
  BY <1>1, <1>5
<1>11. /\ slots' \in [Bucket -> Seq(Slot)]
       /\ slot_size' \in [Bucket -> Nat] /\ slot_max' \in [Bucket -> Nat]
       /\ ~ Lost(b)'
       /\ \A d \in Bucket : BucketInv(d)'
       /\ Placed(b) = Allocated(s) /\ Placed(b)' = Allocated(q)
       /\ \A d \in Bucket \ {b} : Placed(d)' = Placed(d)
  BY <1>1, <1>3, <1>7, <1>8, <1>9, <1>10, BucketReplaced, ZenonT(60) DEF s
<1>12. ObjectsInv' /\ no_objects' \in Nat
  <2>1. IsFiniteSet(Places) /\ no_objects = Cardinality(Places)
    BY DEF IndInv, ObjectsInv
  <2>2. i \notin Placed(b) /\ Placed(b)' = Placed(b) \cup {i}
    BY <1>6, <1>7, <1>11
  <2>3. /\ IsFiniteSet(Places') /\ Cardinality(Places') \in Nat
        /\ Cardinality(Places') = Cardinality(Places) + 1
    BY <1>11, <2>1, <2>2, PlacesMore
  <2> QED
    BY <1>1, <2>1, <2>3 DEF ObjectsInv
<1>13. OwnStep(t, "unlock", slot[t], r)
  BY <1>1, AnswerValues DEF OwnStep, Goto
<1>14. ThreadInv(t)'
  BY <1>a, <1>1, <1>2, <1>11, <1>13, OwnValues DEF ThreadInv
<1>15. r.code \in Code /\ r.data \in Data \cup {None}
  BY <1>2 DEF Code
<1> QED
  BY <1>1, <1>11, <1>12, <1>13, <1>14, <1>15, AnswerValues, OwnStepKeeps DEF PC

\* The beginning of a call.
LEMMA BeginStep ==
  ASSUME IndInv, NEW t \in Thread, Begin(t)
  PROVE  IndInv'
<1>1. PICK c \in CallsOf(t) : call' = [call EXCEPT ![t] = c]
  BY DEF Begin
<1>2. PICK l \in {"lock", "scan_lock"} : pc' = [pc EXCEPT ![t] = l]
  BY DEF Begin, Goto
<1>3. /\ reply' = [reply EXCEPT ![t] = NoReply] /\ calls' = [calls EXCEPT ![t] = @ + 1]
      /\ calls[t] < MaxCalls /\ UNCHANGED <<table, mutex, slot>>
  BY DEF Begin
<1>4. /\ pc'[t] = l /\ call'[t] = c /\ reply'[t] = NoReply
      /\ \A u \in Thread \ {t} :
            pc'[u] = pc[u] /\ call'[u] = call[u] /\ slot'[u] = slot[u] /\ reply'[u] = reply[u]
  BY <1>1, <1>2, <1>3 DEF IndInv, TypeOK, Functional
<1>5. NoReply.code = "NONE" /\ NoReply.data = None
  BY DEF NoReply
<1>6. Functional'
  BY <1>1, <1>3 DEF IndInv, Functional
<1>7. TypeOK'
  <2>1. pc' \in [Thread -> PC]
    BY <1>2 DEF IndInv, TypeOK, PC
  <2>2. calls' \in [Thread -> 0 .. MaxCalls]
    BY <1>3, ArrayTableAssumption DEF IndInv, TypeOK
  <2>3. \A u \in Thread : call'[u] \in CallsOf(u) \cup {NoCall}
    BY <1>4 DEF IndInv, TypeOK
  <2>4. \A u \in Thread : reply'[u].code \in Code /\ reply'[u].data \in Data \cup {None}
    BY <1>4, <1>5 DEF IndInv, TypeOK, Code
  <2> QED
    BY <1>3, <2>1, <2>2, <2>3, <2>4 DEF IndInv, TypeOK, table
<1>8. ThreadInv(t)'
  BY <1>4, <1>5 DEF ThreadInv, Inside
<1>9. ASSUME NEW u \in Thread, u # t PROVE ThreadInv(u)'
  BY <1>3, <1>4, <1>9, OthersKeep
<1>10. (\A b \in Bucket : BucketInv(b)') /\ ObjectsInv'
  BY <1>3, TableKept
<1> QED
  BY <1>6, <1>7, <1>8, <1>9, <1>10 DEF IndInv

\* The end of the process.
LEMMA CrashStep ==
  ASSUME IndInv, NEW t \in Thread, Crash(t)
  PROVE  IndInv'
<1>1. pc' = [u \in Thread |-> "dead"] /\ UNCHANGED <<table, mutex, call, slot, reply, calls>>
  BY DEF Crash
<1>2. (\A b \in Bucket : BucketInv(b)') /\ ObjectsInv'
  BY <1>1, TableKept
<1>3. ASSUME NEW u \in Thread PROVE ThreadInv(u)'
  BY <1>1 DEF IndInv, ThreadInv, Inside
<1>4. TypeOK' /\ Functional'
  BY <1>1 DEF IndInv, TypeOK, Functional, PC, table
<1> QED
  BY <1>2, <1>3, <1>4 DEF IndInv

LEMMA StepIndInv == IndInv /\ [Next]_vars => IndInv'
<1> SUFFICES ASSUME IndInv, [Next]_vars
             PROVE  IndInv'
  OBVIOUS
<1>1. ASSUME NEW t \in Thread, Begin(t) PROVE IndInv'
  BY <1>1, BeginStep
<1>2. ASSUME NEW t \in Thread, Step(t) PROVE IndInv'
  BY <1>2, LocalSteps, RemoveStep, GrowStep, GrowFailsStep, PlaceStep, CrashStep DEF Step
<1>3. CASE UNCHANGED vars
  <2>1. (\A b \in Bucket : BucketInv(b)') /\ ObjectsInv'
    BY <1>3, TableKept DEF vars
  <2>2. \A t \in Thread : ThreadInv(t)'
    BY <1>3 DEF IndInv, ThreadInv, Lost, vars, table
  <2>3. TypeOK' /\ Functional'
    BY <1>3 DEF IndInv, TypeOK, Functional, vars, table
  <2> QED
    BY <2>1, <2>2, <2>3 DEF IndInv
<1> QED
  BY <1>1, <1>2, <1>3 DEF Next, Finished

LEMMA Invariance == Spec => []IndInv
  BY InitIndInv, StepIndInv, PTL DEF Spec
-----------------------------------------------------------------------------
(***************************************************************************)
(* The theorems.                                                           *)
(***************************************************************************)

\* Every variable keeps its type; in particular slot_size-- and no_objects-- never
\* take an unsigned counter below zero (hi_array.c:161-162).
THEOREM TypeCorrect == Spec => []TypeOK
  BY Invariance, PTL DEF IndInv

\* Whenever the mutex is free the counters describe the arrays: the insertions,
\* removals and growths of all threads leave slot_size, slot_max and no_objects
\* right (hi_array.c:145-170, 252-330).
THEOREM CountersAlwaysAgree == Spec => []CountersAgree
<1>1. IndInv => CountersAgree
  <2> SUFFICES ASSUME IndInv PROVE CountersAgree
    OBVIOUS
  <2>1. ASSUME NEW b \in Bucket, ~ Lost(b)
        PROVE  slot_size[b] = Cardinality(Allocated(slots[b])) /\ slot_max[b] = Len(slots[b])
    BY <2>1 DEF IndInv, BucketInv
  <2>2. ASSUME \A b \in Bucket : ~ Lost(b)
        PROVE  no_objects = Cardinality(UNION {Bound(b) : b \in Bucket})
    <3>1. \A b \in Bucket : Bound(b) = {<<b, i>> : i \in Placed(b)}
      BY <2>2 DEF Bound, Placed
    <3>2. Places = UNION {Bound(b) : b \in Bucket}
      BY <3>1 DEF Places
    <3> QED
      BY <3>2 DEF IndInv, ObjectsInv
  <2> QED
    BY <2>1, <2>2 DEF CountersAgree
<1> QED
  BY <1>1, Invariance, PTL

\* A bucket lost to a failed realloc answers no call but the one that lost it
\* (hi_array.c:279-284).
THEOREM LossNoticed == Spec => []NoSilentLoss
<1>1. IndInv => NoSilentLoss
  BY DEF IndInv, ThreadInv, NoSilentLoss
<1> QED
  BY <1>1, Invariance, PTL

\* "should never happened" (hi_array.c:303) never happens in an engine whose arrays
\* have slots: an insertion that has grown the array finds a free one.
THEOREM SlotAlwaysFound ==
  ASSUME ArraySize # 0
  PROVE  Spec => []FreeSlotFound
<1>1. IndInv => FreeSlotFound
  BY DEF IndInv, ThreadInv, FreeSlotFound
<1> QED
  BY <1>1, Invariance, PTL

\* In the finished engine an answer HI_ERR_NOKEY means that the key is not in its
\* bucket: the early exit of the scan passes over no entry (hi_array.c:51-66).
THEOREM AbsentWhenNoKey ==
  ASSUME CollEngs = {"ARRAY"}
  PROVE  Spec => NoKeyMeansAbsent
<1>1. ASSUME IndInv, [Next]_vars, NEW t \in Thread,
             reply'[t].code = "NOKEY", reply[t].code # "NOKEY"
      PROVE  \A i \in Allocated(slots[call[t].bucket]) : slots[call[t].bucket][i].key # call[t].key
  <2>1. coll_eng = "ARRAY"
    BY <1>1 DEF IndInv, TypeOK
  <2>2. PICK u \in Thread : Begin(u) \/ Step(u)
    BY <1>1 DEF Next, Finished, vars
  <2>3. \A c \in Code \ {"NOKEY"}, v \in Thread : \A d :
          ~ Return(v, c, d)
    <3> SUFFICES ASSUME NEW c \in Code \ {"NOKEY"}, NEW v \in Thread, NEW d, Return(v, c, d)
                 PROVE  FALSE
      OBVIOUS
    <3>1. reply' = [reply EXCEPT ![v] = [NoReply EXCEPT !.code = c, !.data = d]]
      BY DEF Return
    <3>2. [NoReply EXCEPT !.code = c, !.data = d].code = c
      BY DEF NoReply
    <3> QED
      BY <1>1, <3>1, <3>2 DEF IndInv, Functional
  <2>4. (ScanGet(u) \/ ScanRemove(u)) /\ u = t
    <3>1. ~ Begin(u)
      <4>1. Begin(u) => reply' = [reply EXCEPT ![u] = NoReply]
        BY DEF Begin
      <4> QED
        BY <1>1, <4>1 DEF IndInv, Functional, NoReply
    <3>2. reply' # reply
      BY <1>1
    <3>3. ~ (ScanNothing(u) \/ ScanLock(u) \/ ScanUnlock(u) \/ Lock(u) \/ NoGrowth(u) \/ Grow(u)
             \/ Unlock(u) \/ Crash(u))
      BY <2>1, <3>2 DEF ScanNothing, ScanLock, ScanUnlock, Lock, NoGrowth, Grow, Unlock, Crash
    <3>4. ~ (GrowFails(u) \/ Find(u) \/ KeyFails(u) \/ Place(u) \/ CopyFails(u))
      BY <2>3, <3>2 DEF GrowFails, Find, KeyFails, Place, CopyFails, Code
    <3>5. ~ Copy(u)
      <4>1. Copy(u) => \/ Return(u, "NODATA", None)
                       \/ \E c, l : reply' = [reply EXCEPT ![u] =
                            [code |-> "SUCCESS", data |-> None, content |-> c, lengths |-> l]]
        BY DEF Copy
      <4>2. ASSUME NEW c, NEW l,
                   reply' = [reply EXCEPT ![u] =
                     [code |-> "SUCCESS", data |-> None, content |-> c, lengths |-> l]]
            PROVE  FALSE
        BY <1>1, <4>2 DEF IndInv, Functional
      <4> QED
        BY <2>3, <4>1, <4>2 DEF Code
    <3>6. u = t
      <4>1. ScanGet(u) \/ ScanRemove(u)
        BY <2>2, <3>1, <3>3, <3>4, <3>5 DEF Step
      <4>2. reply' = reply \/ \E r : reply' = [reply EXCEPT ![u] = r]
        BY <4>1 DEF ScanGet, ScanRemove, Return
      <4> QED
        BY <1>1, <3>2, <4>2 DEF IndInv, Functional
    <3> QED
      BY <2>2, <3>1, <3>3, <3>4, <3>5, <3>6 DEF Step
  <2>5. pc[t] = "scan" /\ call[t].bucket \in Bucket
    BY <1>1, <2>4, Alone DEF ScanGet, ScanRemove, Inside
  <2>6. Hits(call[t].bucket, call[t].key) = {}
    <3>1. CASE ScanGet(t)
      BY <2>3, <3>1 DEF ScanGet, Code
    <3>2. CASE ScanRemove(t)
      BY <2>3, <3>2 DEF ScanRemove, Code
    <3> QED
      BY <2>4, <3>1, <3>2
  <2> QED
    BY <1>1, <2>5, <2>6, HitsExact
<1>2. IndInv /\ [Next]_vars =>
        [\A t \in Thread :
           reply'[t].code = "NOKEY" /\ reply[t].code # "NOKEY" =>
              \A i \in Allocated(slots[call[t].bucket]) :
                  slots[call[t].bucket][i].key # call[t].key]_vars
  BY <1>1
<1> QED
  BY <1>2, Invariance, PTL DEF Spec, NoKeyMeansAbsent
-----------------------------------------------------------------------------
(***************************************************************************)
(* No key is inserted twice.                                               *)
(***************************************************************************)
\* t has found its key missing and is on the way to insert it.
Inserting(t) ==
    \/ pc[t] \in {"scan_unlock", "grow", "find", "place"}
    \/ pc[t] = "lock" /\ call[t].op = "insert"

Missing(b, k) == \A i \in Allocated(slots[b]) : slots[b][i].key # k

KeysInv ==
    /\ IndInv /\ UniqueKeys
    /\ \A t \in Thread : Inserting(t) => Missing(call[t].bucket, call[t].key)

\* A step writes no entry but the one Place puts into its slot.
LEMMA EntriesKept ==
  ASSUME IndInv, NEW t \in Thread, Step(t), NEW b \in Bucket, NEW i \in Allocated(slots'[b])
  PROVE  \/ i \in Allocated(slots[b]) /\ slots'[b][i] = slots[b][i]
         \/ Place(t) /\ b = call[t].bucket /\ i = slot[t] /\ slots'[b][i].key = call[t].key
<1>1. slots \in [Bucket -> Seq(Slot)] /\ slots[b] \in Seq(Slot) /\ DOMAIN slots[b] = 1 .. Len(slots[b])
  BY DEF IndInv, TypeOK
<1>2. CASE slots' = slots
  BY <1>2
<1>3. CASE ScanRemove(t) /\ slots' # slots
  <2> DEFINE d == call[t].bucket
             j == First(Hits(d, call[t].key))
  <2>1. slots' = [slots EXCEPT ![d] = [slots[d] EXCEPT ![j] = Free]]
    BY <1>3 DEF ScanRemove, table
  <2>2. slots'[b] = IF b = d THEN [slots[b] EXCEPT ![j] = Free] ELSE slots[b]
    BY <1>1, <2>1
  <2> HIDE DEF d, j
  <2> QED
    BY <1>1, <2>2 DEF Allocated
<1>4. CASE Grow(t)
  <2> DEFINE d == call[t].bucket
             q == slots[d] \o [l \in 1 .. 2 * slot_max[d] - slot_max[d] |-> Free]
  <2>1. slots' = [slots EXCEPT ![d] = q] /\ d \in Bucket
    BY <1>4, Alone DEF Grow, Inside
  <2>2. CASE b = d
    <3>1. slot_max[b] \in Nat /\ 2 * slot_max[b] - slot_max[b] \in Nat
      BY DEF IndInv, TypeOK
    <3>2. Allocated(q) = Allocated(slots[b]) /\ \A l \in 1 .. Len(slots[b]) : q[l] = slots[b][l]
      BY <1>1, <2>2, <3>1, SlotsAdded
    <3>3. slots'[b] = q
      BY <1>1, <2>1, <2>2
    <3> HIDE DEF q
    <3> QED
      BY <1>1, <3>2, <3>3, AllocatedFinite
  <2>3. CASE b # d
    BY <1>1, <2>1, <2>3
  <2> QED
    BY <2>2, <2>3
<1>5. CASE GrowFails(t)
  BY <1>1, <1>5 DEF GrowFails, Allocated
<1>6. CASE Place(t)
  <2> DEFINE d == call[t].bucket
             e == [key |-> call[t].key, data |-> call[t].data]
  <2>1. slots' = [slots EXCEPT ![d] = [slots[d] EXCEPT ![slot[t]] = e]]
    BY <1>6 DEF Place
  <2>2. slots'[b] = IF b = d THEN [slots[b] EXCEPT ![slot[t]] = e] ELSE slots[b]
    BY <1>1, <2>1
  <2> HIDE DEF d
  <2>3. CASE b = d /\ i = slot[t]
    <3>1. slots'[b][i] = e
      BY <1>1, <2>2, <2>3 DEF Allocated
    <3> QED
      BY <1>6, <2>3, <3>1 DEF d
  <2>4. CASE ~ (b = d /\ i = slot[t])
    BY <1>1, <2>2, <2>4 DEF Allocated
  <2> QED
    BY <2>3, <2>4
<1>7. slots' = slots \/ ScanRemove(t) \/ Grow(t) \/ GrowFails(t) \/ Place(t)
  BY DEF Step, ScanNothing, ScanLock, ScanGet, ScanUnlock, Lock, NoGrowth, Find, KeyFails, Copy,
         CopyFails, Unlock, Crash, table
<1> QED
  BY <1>2, <1>3, <1>4, <1>5, <1>6, <1>7

LEMMA KeysInit == Init => KeysInv
<1> SUFFICES ASSUME Init PROVE KeysInv
  OBVIOUS
<1>1. \A b \in Bucket : Allocated(slots[b]) = {}
  BY DEF Init, Allocated
<1>2. \A t \in Thread : ~ Inserting(t)
  BY DEF Init, Inserting
<1> QED
  BY <1>1, <1>2, InitIndInv DEF KeysInv, UniqueKeys

\* Every thread inserts keys of its own.
DisjointInserters == \A t, u \in Thread : t # u => InsertKeys[t] \cap InsertKeys[u] = {}

\* The keys stay unique from step to step when every thread inserts keys of its own.
LEMMA KeysKept ==
  ASSUME CollEngs = {"ARRAY"}, DisjointInserters, KeysInv, [Next]_vars
  PROVE  KeysInv'
<1>0. ASSUME NEW t \in Thread, Step(t)
      PROVE  UniqueKeys' /\ \A u \in Thread :
                 Inserting(u)' => Missing(call[u].bucket, call[u].key)'
  <2>0. IndInv /\ coll_eng = "ARRAY"
    BY <1>0 DEF KeysInv, IndInv, TypeOK
  <2>1. ASSUME Place(t) PROVE /\ Inserting(t) /\ call[t] \in CallsOf(t) /\ call[t].op = "insert"
                              /\ Missing(call[t].bucket, call[t].key)
    BY <1>0, <2>0, <2>1, Alone DEF Place, Inside, Inserting, KeysInv, IndInv, ThreadInv
  <2>2. UniqueKeys'
    <3> SUFFICES ASSUME NEW b \in Bucket, NEW i \in Allocated(slots'[b]), NEW j \in Allocated(slots'[b]),
                        slots'[b][i].key = slots'[b][j].key
                 PROVE  i = j
      BY DEF UniqueKeys
    <3>1. \A l \in Allocated(slots'[b]) :
            \/ l \in Allocated(slots[b]) /\ slots'[b][l] = slots[b][l]
            \/ Place(t) /\ b = call[t].bucket /\ l = slot[t] /\ slots'[b][l].key = call[t].key
      BY <1>0, <2>0, EntriesKept
    <3> QED
      BY <1>0, <2>1, <3>1 DEF KeysInv, UniqueKeys, Missing
  <2>3. ASSUME NEW u \in Thread, Inserting(u)' PROVE Missing(call[u].bucket, call[u].key)'
    <3>1. call' = call
      BY <1>0 DEF Step, ScanNothing, ScanLock, ScanGet, ScanRemove, ScanUnlock, Lock, NoGrowth, Grow,
         GrowFails, Find, KeyFails, Place, Copy, CopyFails, Unlock, Crash
    <3>2. /\ Missing(call[u].bucket, call[u].key) /\ ~ (Place(t) /\ u = t)
          /\ call[u] \in CallsOf(u) /\ call[u].op = "insert"
      <4>1. CASE u # t
        <5>1. Inserting(u)
          <6>1. pc'[u] = pc[u] \/ pc'[u] = "dead"
            BY <1>0, <2>0, <4>1 DEF IndInv, TypeOK, Step, ScanNothing, ScanLock, ScanGet, ScanRemove,
               ScanUnlock, Lock, NoGrowth, Grow, GrowFails, Find, KeyFails, Place, Copy, CopyFails,
               Unlock, Crash, Goto
          <6> QED
            BY <2>3, <3>1, <6>1 DEF Inserting
        <5> QED
          BY <1>0, <2>0, <4>1, <5>1 DEF KeysInv, IndInv, ThreadInv, Inserting
      <4>2. CASE u = t
        <5>1. Inserting(t) \/ ScanGet(t)
          BY <1>0, <2>0, <2>3, <4>2 DEF IndInv, TypeOK, Step, ScanNothing, ScanLock, ScanRemove,
             ScanUnlock, Lock, NoGrowth, Grow, GrowFails, Find, KeyFails, Place, Copy, CopyFails,
             Unlock, Crash, Goto, Inserting
        <5>2. ~ Place(t)
          BY <2>0, <2>3, <4>2 DEF Place, Goto, Inserting, IndInv, TypeOK
        <5>3. CASE Inserting(t)
          BY <1>0, <2>0, <4>2, <5>2, <5>3 DEF KeysInv, IndInv, ThreadInv, Inserting
        <5>4. CASE ScanGet(t)
          <6>1. /\ call[t].op = "insert" /\ Hits(call[t].bucket, call[t].key) = {}
            BY <2>0, <2>3, <4>2, <5>4 DEF ScanGet, Goto, Inserting, IndInv, TypeOK
          <6>2. call[t] \in CallsOf(t) /\ call[t].bucket \in Bucket
            BY <2>0, <5>4, Alone DEF ScanGet, Inside
          <6> QED
            BY <2>0, <4>2, <5>2, <6>1, <6>2, HitsExact DEF Missing
        <5> QED
          BY <5>1, <5>3, <5>4
      <4> QED
        BY <4>1, <4>2
    <3>3. call[u].bucket \in Bucket /\ call[u].key \in InsertKeys[u]
      BY <3>2, CallShape
    <3>4. ASSUME NEW i \in Allocated(slots'[call[u].bucket])
          PROVE  slots'[call[u].bucket][i].key # call[u].key
      <4>1. \/ /\ i \in Allocated(slots[call[u].bucket])
               /\ slots'[call[u].bucket][i] = slots[call[u].bucket][i]
            \/ Place(t) /\ slots'[call[u].bucket][i].key = call[t].key
        BY <1>0, <2>0, <3>3, EntriesKept
      <4>2. CASE Place(t) /\ slots'[call[u].bucket][i].key = call[t].key
        <5>1. call[t].key \in InsertKeys[t] /\ u # t
          BY <2>1, <3>2, <4>2, CallShape
        <5> QED
          BY <3>3, <4>2, <5>1 DEF DisjointInserters
      <4> QED
        BY <3>2, <4>1, <4>2 DEF Missing
    <3> QED
      BY <3>1, <3>4 DEF Missing
  <2> QED
    BY <2>2, <2>3
<1>1. IndInv'
  BY StepIndInv DEF KeysInv
<1>2. ASSUME NEW t \in Thread, Step(t) PROVE KeysInv'
  BY <1>0, <1>1, <1>2 DEF KeysInv
<1>3. ASSUME NEW t \in Thread, Begin(t) PROVE KeysInv'
  <2>1. slots' = slots /\ UniqueKeys'
    BY <1>3 DEF Begin, table, KeysInv, UniqueKeys
  <2>2. ASSUME NEW u \in Thread, Inserting(u)' PROVE Missing(call[u].bucket, call[u].key)'
    <3>1. /\ pc'[t] \in {"lock", "scan_lock"}
          /\ pc'[t] = "lock" => call'[t].op = "to_array"
          /\ \A v \in Thread \ {t} : pc'[v] = pc[v] /\ call'[v] = call[v]
      BY <1>3 DEF Begin, Goto, KeysInv, IndInv, TypeOK, Functional
    <3>2. u # t
      BY <2>2, <3>1 DEF Inserting
    <3>3. Inserting(u) /\ call'[u] = call[u]
      BY <2>2, <3>1, <3>2 DEF Inserting
    <3> QED
      BY <2>1, <3>3 DEF KeysInv, Missing
  <2> QED
    BY <1>1, <2>1, <2>2 DEF KeysInv
<1>4. CASE UNCHANGED vars
  BY <1>1, <1>4 DEF KeysInv, UniqueKeys, Inserting, Missing, vars, table
<1> QED
  BY <1>2, <1>3, <1>4 DEF Next, Finished

\* If every thread inserts keys of its own, no key is ever in the table twice: the
\* mutex lhi_insert_array releases between its search and its insertion lets nobody
\* else insert the key (man/libhashish.pod:123-124, hi_array.c:258-300).
THEOREM KeysStayUnique ==
  ASSUME CollEngs = {"ARRAY"}, DisjointInserters
  PROVE  Spec => []UniqueKeys
<1>1. KeysInv /\ [Next]_vars => KeysInv'
  BY KeysKept
<1>2. KeysInv => UniqueKeys
  BY DEF KeysInv
<1> QED
  BY <1>1, <1>2, KeysInit, PTL DEF Spec
-----------------------------------------------------------------------------
(***************************************************************************)
(* The steps of COLL_ENG_ARRAY are steps of the dictionary, when no two    *)
(* threads insert the same key, no allocation fails and no bucket is       *)
(* walked.                                                                 *)
(***************************************************************************)

\* Some slot of s holds key k with data v.
Stores(s, k, v) == \E i \in Allocated(s) : s[i].key = k /\ s[i].data = v

HasKey(s, k) == \E i \in Allocated(s) : s[i].key = k

Unique(s) == \A i, j \in Allocated(s) : s[i].key = s[j].key => i = j

At(s, k) == {i \in Allocated(s) : s[i].key = k}

ValueIn(s, k) == IF At(s, k) = {} THEN None ELSE s[First(At(s, k))].data

\* In an array without doublets a scan finds what is stored.
LEMMA ValueStored ==
  ASSUME NEW s \in Seq(Slot), NEW k
  PROVE  /\ ValueIn(s, k) \in Data \cup {None}
         /\ ValueIn(s, k) = None <=> ~ HasKey(s, k)
         /\ Unique(s) => \A v \in Data : ValueIn(s, k) = v <=> Stores(s, k, v)
<1> DEFINE H == At(s, k)
<1>1. /\ Len(s) \in Nat /\ H \in SUBSET (1 .. Len(s))
      /\ \A i : i \in H <=> i \in Allocated(s) /\ s[i].key = k
  BY AllocatedFinite DEF At
<1>2. \A i \in Allocated(s) : s[i].data \in Data /\ s[i].data # None
  <2>1. \A i \in Allocated(s) : s[i] \in Slot /\ s[i] # Free
    BY DEF Allocated
  <2> QED
    BY <2>1, ArrayTableAssumption DEF Slot, Free
<1>3. H # {} => First(H) \in H
  BY <1>1, FirstIn
<1> HIDE DEF H
<1>4. CASE H = {}
  <2>1. ValueIn(s, k) = None /\ None \notin Data
    BY <1>4, ArrayTableAssumption DEF ValueIn, H
  <2>2. ~ HasKey(s, k) /\ \A v : ~ Stores(s, k, v)
    BY <1>1, <1>4 DEF HasKey, Stores
  <2> QED
    BY <2>1, <2>2
<1>5. CASE H # {}
  <2>1. PICK n \in Allocated(s) : n = First(H) /\ s[n].key = k
    BY <1>1, <1>3, <1>5
  <2>2. ValueIn(s, k) = s[n].data /\ HasKey(s, k)
    BY <1>5, <2>1 DEF ValueIn, HasKey, H
  <2>3. ASSUME Unique(s), NEW v \in Data
        PROVE  ValueIn(s, k) = v <=> Stores(s, k, v)
    BY <2>1, <2>2, <2>3 DEF Stores, Unique
  <2> QED
    BY <1>2, <2>1, <2>2, <2>3
<1> QED
  BY <1>4, <1>5

\* Arrays that store the same have the same values.
LEMMA SameValue ==
  ASSUME NEW s \in Seq(Slot), NEW r \in Seq(Slot), NEW k, Unique(s), Unique(r),
         \A v \in Data : Stores(s, k, v) <=> Stores(r, k, v)
  PROVE  ValueIn(s, k) = ValueIn(r, k)
<1>1. None \notin Data
  BY ArrayTableAssumption
<1>2. /\ ValueIn(s, k) \in Data \cup {None}
      /\ \A v \in Data : ValueIn(s, k) = v <=> Stores(s, k, v)
  BY ValueStored
<1>3. /\ ValueIn(r, k) \in Data \cup {None}
      /\ \A v \in Data : ValueIn(r, k) = v <=> Stores(r, k, v)
  BY ValueStored
<1> QED
  BY <1>1, <1>2, <1>3

\* What the array stores once a free slot is filled ...
LEMMA FilledStores ==
  ASSUME NEW s \in Seq(Slot), NEW n \in 1 .. Len(s), s[n] = Free, NEW e \in Slot, e # Free
  PROVE  LET r == [s EXCEPT ![n] = e] IN
         /\ r \in Seq(Slot)
         /\ \A k, v : Stores(r, k, v) <=> (e.key = k /\ e.data = v) \/ Stores(s, k, v)
<1> DEFINE r == [s EXCEPT ![n] = e]
<1>1. /\ r \in Seq(Slot) /\ Len(r) = Len(s) /\ r[n] = e
      /\ \A i \in 1 .. Len(s) : i # n => r[i] = s[i]
  BY ExceptSeq
<1> HIDE DEF r
<1>2. Allocated(r) = Allocated(s) \cup {n} /\ n \notin Allocated(s)
  <2>1. Allocated(r) = Allocated(s) \cup {n}
    BY <1>1, SlotWritten
  <2> QED
    BY <2>1 DEF Allocated
<1>3. Allocated(s) \subseteq 1 .. Len(s)
  BY AllocatedFinite
<1>4. \A i \in Allocated(s) : i # n /\ r[i] = s[i]
  BY <1>1, <1>2, <1>3
<1>5. ASSUME NEW k, NEW v
      PROVE  Stores(r, k, v) <=> (e.key = k /\ e.data = v) \/ Stores(s, k, v)
  BY <1>1, <1>2, <1>4 DEF Stores
<1> QED
  BY <1>1, <1>5 DEF r

\* ... and once an entry is removed.
LEMMA EmptiedStores ==
  ASSUME NEW s \in Seq(Slot), NEW n \in Allocated(s), Unique(s)
  PROVE  LET r == [s EXCEPT ![n] = Free] IN
         /\ r \in Seq(Slot)
         /\ ~ HasKey(r, s[n].key)
         /\ \A k, v : k # s[n].key => (Stores(r, k, v) <=> Stores(s, k, v))
<1> DEFINE r == [s EXCEPT ![n] = Free]
<1>0. n \in 1 .. Len(s) /\ Free \in Slot /\ Allocated(s) \subseteq 1 .. Len(s)
  BY AllocatedFinite DEF Slot
<1>1. /\ r \in Seq(Slot) /\ Len(r) = Len(s) /\ r[n] = Free
      /\ \A i \in 1 .. Len(s) : i # n => r[i] = s[i]
  BY <1>0, ExceptSeq
<1> HIDE DEF r
<1>2. Allocated(r) = Allocated(s) \ {n}
  BY <1>0, <1>1, SlotWritten
<1>3. \A i \in Allocated(r) : i \in Allocated(s) /\ i # n /\ r[i] = s[i]
  BY <1>0, <1>1, <1>2
<1>4. ~ HasKey(r, s[n].key)
  BY <1>3 DEF HasKey, Unique
<1>5. ASSUME NEW k, NEW v, k # s[n].key
      PROVE  Stores(r, k, v) <=> Stores(s, k, v)
  BY <1>2, <1>3, <1>5 DEF Stores
<1> QED
  BY <1>1, <1>4, <1>5 DEF r

\* A larger array has the same values.
LEMMA AddedValues ==
  ASSUME NEW s \in Seq(Slot), NEW m \in Nat, NEW k
  PROVE  ValueIn(s \o [i \in 1 .. m |-> Free], k) = ValueIn(s, k)
<1> DEFINE r == s \o [i \in 1 .. m |-> Free]
<1>1. /\ Allocated(r) = Allocated(s) /\ \A i \in 1 .. Len(s) : r[i] = s[i]
  BY SlotsAdded
<1>2. Allocated(s) \subseteq 1 .. Len(s) /\ Len(s) \in Nat
  BY AllocatedFinite
<1> HIDE DEF r
<1>3. At(r, k) = At(s, k) /\ At(s, k) \in SUBSET (1 .. Len(s))
  BY <1>1, <1>2 DEF At
<1>4. At(s, k) # {} => First(At(s, k)) \in At(s, k)
  BY <1>2, <1>3, FirstIn
<1>5. At(s, k) # {} => r[First(At(s, k))] = s[First(At(s, k))]
  BY <1>1, <1>2, <1>4 DEF At
<1> QED
  BY <1>3, <1>5 DEF ValueIn, r

\* The mapping reads the arrays as they are, the early exit of the scan notwithstanding.
LEMMA DictOfValue == IndInv => \A k \in Key : DictOf(k) = ValueIn(slots[BucketOf(k)], k)
<1> SUFFICES ASSUME IndInv, NEW k \in Key
             PROVE  DictOf(k) = ValueIn(slots[BucketOf(k)], k)
  OBVIOUS
<1>1. Hits(BucketOf(k), k) = At(slots[BucketOf(k)], k)
  BY BucketOfType, HitsExact DEF At
<1> QED
  BY <1>1 DEF DictOf, ValueIn

\* A call has a return value from the step on that fixes it, only insertions lock a
\* second time, and nobody walks a bucket or is dead.
ReplyInv ==
    \A t \in Thread :
        /\ pc[t] \notin {"dead", "copy"}
        /\ pc[t] = "lock" => call[t].op = "insert"
        /\ pc[t] # "idle" => (reply[t] # NoReply <=> pc[t] = "unlock")

\* No bucket is lost.
KeptInv == \A b \in Bucket : ~ Lost(b)

\* A handle of the finished engine whose allocations succeed and that is not iterated.
Undisturbed ==
    /\ CollEngs = {"ARRAY"}
    /\ ~ KeyMayFail /\ ~ GrowMayFail
    /\ "to_array" \notin Ops

\* Then these steps are not taken.
LEMMA NeverTaken ==
  ASSUME Undisturbed, IndInv, ReplyInv, KeptInv, NEW t \in Thread
  PROVE  /\ ~ ScanNothing(t) /\ ~ GrowFails(t) /\ ~ KeyFails(t) /\ ~ CopyFails(t) /\ ~ Crash(t)
         /\ ~ Copy(t)
<1>1. coll_eng = "ARRAY" /\ ArraySize # 0
  BY ArrayTableAssumption DEF IndInv, TypeOK, Undisturbed
<1>2. ~ ScanNothing(t) /\ ~ KeyFails(t) /\ ~ CopyFails(t)
  BY <1>1 DEF ScanNothing, KeyFails, CopyFails, Undisturbed
<1>3. pc[t] \in Inside => call[t].bucket \in Bucket
  BY Alone
<1>4. ~ GrowFails(t)
  BY <1>1, <1>3 DEF GrowFails, Undisturbed, IndInv, BucketInv, Inside
<1>5. ~ Copy(t) /\ ~ Crash(t)
  BY <1>3 DEF Copy, Crash, ReplyInv, KeptInv, Readable, Inside
<1> QED
  BY <1>2, <1>4, <1>5

\* What a step of t does to the others, and when it touches the arrays.
LEMMA StepOf ==
  ASSUME Undisturbed, IndInv, ReplyInv, KeptInv, NEW t \in Thread, Step(t)
  PROVE  /\ call' = call
         /\ \A u \in Thread \ {t} : pc'[u] = pc[u] /\ reply'[u] = reply[u]
         /\ \/ slots' = slots /\ slot_max' = slot_max
            \/ ScanRemove(t) \/ Grow(t) \/ Place(t)
<1>1. /\ ~ ScanNothing(t) /\ ~ GrowFails(t) /\ ~ KeyFails(t) /\ ~ CopyFails(t) /\ ~ Crash(t)
      /\ ~ Copy(t)
  BY NeverTaken
<1>2. call' = call
  BY <1>1 DEF Step, ScanLock, ScanGet, ScanRemove, ScanUnlock, Lock, NoGrowth, Grow, Find, Place, Unlock
<1>3. \/ slots' = slots /\ slot_max' = slot_max
      \/ ScanRemove(t) \/ Grow(t) \/ Place(t)
  BY <1>1 DEF Step, ScanLock, ScanGet, ScanUnlock, Lock, NoGrowth, Find, Unlock, table
<1>4. \E l \in PC : Goto(t, l)
  <2>1. ScanLock(t) \/ ScanGet(t) \/ ScanRemove(t) \/ ScanUnlock(t) => \E l \in PC : Goto(t, l)
    BY DEF ScanLock, ScanGet, ScanRemove, ScanUnlock, PC
  <2>2. Lock(t) => \E l \in PC : Goto(t, l)
    BY DEF Lock, PC
  <2>3. NoGrowth(t) \/ Grow(t) \/ Find(t) \/ Place(t) \/ Unlock(t) => \E l \in PC : Goto(t, l)
    BY DEF NoGrowth, Grow, Find, Place, Unlock, PC
  <2> QED
    BY <1>1, <2>1, <2>2, <2>3 DEF Step
<1>5. reply' = reply \/ \E c, d : Return(t, c, d)
  BY <1>1 DEF Step, ScanLock, ScanGet, ScanRemove, ScanUnlock, Lock, NoGrowth, Grow, Find, Place, Unlock
<1>6. \A u \in Thread \ {t} : pc'[u] = pc[u]
  BY <1>4 DEF Goto, IndInv, TypeOK
<1>7. \A u \in Thread \ {t} : reply'[u] = reply[u]
  BY <1>5 DEF Return, IndInv, Functional
<1> QED
  BY <1>2, <1>3, <1>6, <1>7

LEMMA KeptStep ==
  ASSUME Undisturbed, IndInv, IndInv', ReplyInv, KeptInv, NEW t \in Thread, Step(t)
  PROVE  KeptInv'
<1> SUFFICES ASSUME NEW b \in Bucket
             PROVE  slots'[b] # <<>>
  BY DEF KeptInv, IndInv, BucketInv
<1>1. /\ slots \in [Bucket -> Seq(Slot)] /\ slots[b] \in Seq(Slot) /\ Len(slots[b]) \in Nat
      /\ Len(slots[b]) > 0 /\ slot_max[b] \in Nat
  BY ArrayTableAssumption DEF IndInv, TypeOK, KeptInv, BucketInv, Undisturbed
<1>2. 1 \in DOMAIN slots[b]
  BY <1>1
<1>3. CASE slots' = slots
  BY <1>1, <1>3
<1>4. CASE ScanRemove(t) /\ slots' # slots
  <2> DEFINE d == call[t].bucket
             j == First(Hits(d, call[t].key))
  <2>1. slots' = [slots EXCEPT ![d] = [slots[d] EXCEPT ![j] = Free]]
    BY <1>4 DEF ScanRemove, table
  <2>2. slots'[b] = IF b = d THEN [slots[b] EXCEPT ![j] = Free] ELSE slots[b]
    BY <1>1, <2>1
  <2> HIDE DEF d, j
  <2>3. DOMAIN slots'[b] = DOMAIN slots[b]
    BY <2>2
  <2> QED
    BY <1>2, <2>3
<1>5. CASE Place(t)
  <2> DEFINE d == call[t].bucket
             e == [key |-> call[t].key, data |-> call[t].data]
  <2>1. slots' = [slots EXCEPT ![d] = [slots[d] EXCEPT ![slot[t]] = e]]
    BY <1>5 DEF Place
  <2>2. slots'[b] = IF b = d THEN [slots[b] EXCEPT ![slot[t]] = e] ELSE slots[b]
    BY <1>1, <2>1
  <2> HIDE DEF d, e
  <2>3. DOMAIN slots'[b] = DOMAIN slots[b]
    BY <2>2
  <2> QED
    BY <1>2, <2>3
<1>6. CASE Grow(t)
  <2> DEFINE d == call[t].bucket
             m == 2 * slot_max[d] - slot_max[d]
             q == slots[d] \o [l \in 1 .. m |-> Free]
  <2>1. slots' = [slots EXCEPT ![d] = q] /\ d \in Bucket
    BY <1>6, Alone DEF Grow, Inside
  <2>2. CASE b = d
    <3>1. m \in Nat
      BY <1>1, <2>2
    <3>2. Len(q) = Len(slots[b]) + m
      BY <1>1, <2>2, <3>1, SlotsAdded
    <3>3. slots'[b] = q
      BY <1>1, <2>1, <2>2
    <3> HIDE DEF q, m
    <3>4. Len(q) # 0
      BY <1>1, <3>1, <3>2
    <3> QED
      BY <3>3, <3>4
  <2>3. CASE b # d
    BY <1>1, <2>1, <2>3
  <2> QED
    BY <2>2, <2>3
<1> QED
  BY <1>3, <1>4, <1>5, <1>6, StepOf

LEMMA ReplyStep ==
  ASSUME Undisturbed, IndInv, ReplyInv, KeptInv, NEW t \in Thread, Step(t)
  PROVE  ReplyInv'
<1>1. \A u \in Thread \ {t} : pc'[u] = pc[u] /\ reply'[u] = reply[u]
  BY StepOf
<1>2. /\ ~ ScanNothing(t) /\ ~ GrowFails(t) /\ ~ KeyFails(t) /\ ~ CopyFails(t) /\ ~ Crash(t)
      /\ ~ Copy(t)
  BY NeverTaken
<1>3. \A c \in Code \ {"NONE"} : \A d : Return(t, c, d) => reply'[t] # NoReply
  <2> SUFFICES ASSUME NEW c \in Code \ {"NONE"}, NEW d, Return(t, c, d)
               PROVE  reply'[t] # NoReply
    OBVIOUS
  <2>1. reply'[t] = [NoReply EXCEPT !.code = c, !.data = d]
    BY DEF Return, IndInv, Functional
  <2>2. reply'[t].code = c
    BY <2>1 DEF NoReply
  <2> QED
    BY <2>2 DEF NoReply
<1>4. pc \in [Thread -> PC]
  BY DEF IndInv, TypeOK
<1>4a. call' = call
  BY StepOf
<1>5. CASE ScanLock(t) \/ ScanUnlock(t) \/ Lock(t) \/ NoGrowth(t) \/ Grow(t)
  <2>1. /\ reply' = reply /\ pc[t] \notin {"idle", "unlock"}
        /\ pc'[t] \notin {"idle", "unlock", "dead", "copy"}
        /\ pc'[t] = "lock" => pc[t] = "scan_unlock"
    BY <1>4, <1>5 DEF ScanLock, ScanUnlock, Lock, NoGrowth, Grow, Goto, ReplyInv
  <2>2. pc'[t] = "lock" => call[t].op = "insert"
    BY <2>1 DEF IndInv, ThreadInv
  <2> QED
    BY <1>1, <1>4a, <2>1, <2>2 DEF ReplyInv
<1>6. CASE Unlock(t)
  <2>1. pc'[t] = "idle"
    BY <1>4, <1>6 DEF Unlock, Goto
  <2> QED
    BY <1>1, <1>4a, <2>1 DEF ReplyInv
<1>7. CASE ScanRemove(t) \/ Place(t)
  <2>1. pc'[t] = "unlock"
    BY <1>4, <1>7 DEF ScanRemove, Place, Goto
  <2>2. reply'[t] # NoReply
    BY <1>3, <1>7 DEF ScanRemove, Place, Code
  <2> QED
    BY <1>1, <1>4a, <2>1, <2>2 DEF ReplyInv
<1>8. CASE ScanGet(t)
  <2>1. \/ pc'[t] = "unlock" /\ reply'[t] # NoReply
        \/ pc'[t] = "scan_unlock" /\ reply' = reply /\ pc[t] = "scan"
    BY <1>3, <1>4, <1>8 DEF ScanGet, Code, Goto
  <2> QED
    BY <1>1, <1>4a, <2>1 DEF ReplyInv
<1>9. CASE Find(t)
  <2>1. \/ pc'[t] = "unlock" /\ reply'[t] # NoReply
        \/ pc'[t] = "place" /\ reply' = reply /\ pc[t] = "find"
    BY <1>3, <1>4, <1>9 DEF Find, Code, Goto
  <2> QED
    BY <1>1, <1>4a, <2>1 DEF ReplyInv
<1> QED
  BY <1>2, <1>5, <1>6, <1>7, <1>8, <1>9 DEF Step

RefInv == KeysInv /\ ReplyInv /\ KeptInv

LEMMA BeginKeeps ==
  ASSUME Undisturbed, IndInv, ReplyInv, KeptInv, NEW t \in Thread, Begin(t)
  PROVE  ReplyInv' /\ KeptInv'
<1>1. PICK c \in CallsOf(t) :
        /\ call' = [call EXCEPT ![t] = c]
        /\ Goto(t, IF c.op = "to_array" THEN "lock" ELSE "scan_lock")
  BY DEF Begin
<1>2. c.op # "to_array"
  BY DEF CallsOf, Undisturbed
<1>3. /\ pc'[t] = "scan_lock" /\ reply'[t] = NoReply
      /\ \A u \in Thread \ {t} : pc'[u] = pc[u] /\ reply'[u] = reply[u] /\ call'[u] = call[u]
  BY <1>1, <1>2 DEF Begin, Goto, IndInv, TypeOK, Functional
<1>4. ReplyInv'
  BY <1>3 DEF ReplyInv
<1>5. KeptInv'
  BY DEF Begin, KeptInv, Lost, table
<1> QED
  BY <1>4, <1>5

LEMMA RefInvKept ==
  ASSUME Undisturbed, DisjointInserters, RefInv, [Next]_vars
  PROVE  RefInv'
<1>1. IndInv /\ IndInv' /\ KeysInv'
  BY KeysKept, StepIndInv DEF RefInv, KeysInv, Undisturbed
<1>2. CASE UNCHANGED vars
  BY <1>1, <1>2 DEF RefInv, ReplyInv, KeptInv, Lost, vars, table
<1>3. ASSUME NEW t \in Thread, Begin(t)
      PROVE  RefInv'
  BY <1>1, <1>3, BeginKeeps DEF RefInv
<1>4. ASSUME NEW t \in Thread, Step(t)
      PROVE  RefInv'
  BY <1>1, <1>4, KeptStep, ReplyStep DEF RefInv
<1> QED
  BY <1>2, <1>3, <1>4 DEF Next, Finished

\* A step that moves only its own thread and takes no effect is not seen above ...
LEMMA Stutters ==
  ASSUME \A u \in Thread : Stage(u)' = Stage(u),
         \A k \in Key : DictOf(k)' = DictOf(k),
         call' = call, \A u \in Thread : reply'[u] = reply[u]
  PROVE  UNCHANGED Abstract!vars
  BY DEF Abstract!vars

\* ... and one that fixes the return value is the effect of the call.
LEMMA Answers ==
  ASSUME IndInv, ReplyInv, NEW t \in Thread, NEW code \in Code \ {"NONE"}, NEW data,
         Return(t, code, data), call' = call, pc[t] \notin {"idle", "unlock"}, pc'[t] = "unlock",
         \A u \in Thread \ {t} : pc'[u] = pc[u]
  PROVE  Stage(t) = "called" /\ Abstract!Answer(t, code, data, {})
<1>1. /\ reply'[t] = [NoReply EXCEPT !.code = code, !.data = data]
      /\ \A u \in Thread \ {t} : reply'[u] = reply[u]
  BY DEF Return, IndInv, Functional
<1>2. reply'[t].code = code /\ reply'[t].data = data
  BY <1>1 DEF NoReply
<1>3. reply'[t] # NoReply
  BY <1>2 DEF NoReply
<1>4. Stage(t)' = "done" /\ \A u \in Thread \ {t} : Stage(u)' = Stage(u)
  BY <1>1, <1>3 DEF Stage
<1>5. Stage(t) = "called"
  BY DEF Stage, ReplyInv
<1> QED
  BY <1>1, <1>2, <1>4, <1>5 DEF Abstract!Answer

\* The calls of a thread are calls of the dictionary.
LEMMA AbstractCall ==
  ASSUME NEW t \in Thread, NEW c \in CallsOf(t), "to_array" \notin Ops
  PROVE  c \in Abstract!Call
  BY ArrayTableAssumption, BucketOfType DEF CallsOf, Abstract!Call

LEMMA RefinementStep ==
  ASSUME Undisturbed, RefInv, RefInv', NEW t \in Thread, Begin(t) \/ Step(t)
  PROVE  [Abstract!Next]_(Abstract!vars)
<1>0. /\ IndInv /\ ReplyInv /\ KeptInv /\ UniqueKeys
      /\ IndInv' /\ UniqueKeys'
      /\ slots \in [Bucket -> Seq(Slot)] /\ pc \in [Thread -> PC]
      /\ slots' \in [Bucket -> Seq(Slot)]
  BY DEF RefInv, KeysInv, IndInv, TypeOK
<1>1. /\ \A k \in Key : DictOf(k) = ValueIn(slots[BucketOf(k)], k)
      /\ \A k \in Key : DictOf(k)' = ValueIn(slots'[BucketOf(k)], k)
  <2>1. (IndInv => \A k \in Key : DictOf(k) = ValueIn(slots[BucketOf(k)], k))'
    BY DictOfValue, PTL
  <2> QED
    BY <1>0, <2>1, DictOfValue
<1>2. slots' = slots => \A k \in Key : DictOf(k)' = DictOf(k)
  BY <1>1
<1>3. /\ \A b \in Bucket : slots[b] \in Seq(Slot) /\ Unique(slots[b])
      /\ \A b \in Bucket : slots'[b] \in Seq(Slot) /\ Unique(slots'[b])
  BY <1>0 DEF UniqueKeys, Unique
<1>4. CASE Begin(t)
  <2>1. PICK c \in CallsOf(t) :
          /\ call' = [call EXCEPT ![t] = c]
          /\ Goto(t, IF c.op = "to_array" THEN "lock" ELSE "scan_lock")
    BY <1>4 DEF Begin
  <2>2. /\ pc[t] = "idle" /\ pc'[t] \in {"lock", "scan_lock"} /\ reply'[t] = NoReply
        /\ \A u \in Thread \ {t} : pc'[u] = pc[u] /\ reply'[u] = reply[u]
        /\ slots' = slots
    BY <1>0, <1>4, <2>1 DEF Begin, Goto, IndInv, Functional, table
  <2>3. /\ Stage(t) = "idle" /\ Stage(t)' = "called"
        /\ \A u \in Thread \ {t} : Stage(u)' = Stage(u)
    BY <2>2 DEF Stage
  <2>4. c \in Abstract!Call
    BY AbstractCall DEF Undisturbed
  <2>5. reply'[t].code = "NONE" /\ reply'[t].data = None
    BY <2>2 DEF NoReply
  <2>6. /\ [u \in Thread |-> Stage(u)]' = [[u \in Thread |-> Stage(u)] EXCEPT ![t] = "called"]
        /\ [k \in Key |-> DictOf(k)]' = [k \in Key |-> DictOf(k)]
    BY <1>2, <2>2, <2>3
  <2>7. Abstract!Begin(t)
    BY <2>1, <2>2, <2>3, <2>4, <2>5, <2>6 DEF Abstract!Begin, Abstract!NoReply
  <2> QED
    BY <2>7 DEF Abstract!Next
<1>5. CASE Step(t)
  <2>1. /\ call' = call
        /\ \A u \in Thread \ {t} : pc'[u] = pc[u] /\ reply'[u] = reply[u]
    BY <1>0, <1>5, StepOf
  <2>2. \A u \in Thread \ {t} : Stage(u)' = Stage(u)
    BY <2>1 DEF Stage
  <2>3. pc[t] \in Inside => call[t] \in CallsOf(t) /\ call[t].bucket \in Bucket
    BY <1>0, Alone
  <2>4. \A c \in CallsOf(t) : c.op # "to_array"
    BY DEF CallsOf, Undisturbed
  <2>5. CASE ScanLock(t) \/ ScanUnlock(t) \/ Lock(t) \/ NoGrowth(t)
    <3>1. /\ slots' = slots /\ reply' = reply /\ pc[t] # "idle" /\ pc'[t] # "idle"
      BY <1>0, <2>5 DEF ScanLock, ScanUnlock, Lock, NoGrowth, Goto, table
    <3>2. Stage(t)' = Stage(t)
      BY <3>1 DEF Stage
    <3> QED
      BY <1>2, <2>1, <2>2, <3>1, <3>2, Stutters
  <2>6. CASE Grow(t)
    <3> DEFINE b == call[t].bucket
               m == 2 * slot_max[b] - slot_max[b]
               q == slots[b] \o [l \in 1 .. m |-> Free]
    <3>1. /\ reply' = reply /\ pc[t] # "idle" /\ pc'[t] # "idle" /\ b \in Bucket
          /\ slots' = [slots EXCEPT ![b] = q]
      BY <1>0, <2>3, <2>6 DEF Grow, Goto, Inside
    <3>2. m \in Nat
      BY <1>0, <3>1, SMTT(60) DEF IndInv, TypeOK
    <3>3. \A k \in Key : ValueIn(q, k) = ValueIn(slots[b], k)
      <4> HIDE DEF m
      <4> QED
        BY <1>3, <3>1, <3>2, AddedValues
    <3>4. slots'[b] = q /\ \A a \in Bucket \ {b} : slots'[a] = slots[a]
      BY <1>0, <3>1
    <3> HIDE DEF q, m, b
    <3>5. \A k \in Key : DictOf(k)' = DictOf(k)
      BY <1>1, <3>3, <3>4, BucketOfType
    <3>6. Stage(t)' = Stage(t)
      BY <3>1 DEF Stage
    <3> QED
      BY <2>1, <2>2, <3>1, <3>5, <3>6, Stutters
  <2>7. CASE Find(t)
    <3>1. /\ slots' = slots /\ pc[t] = "find" /\ pc'[t] \in {"place", "unlock"}
          /\ pc'[t] = "place" => reply' = reply
          /\ pc'[t] = "unlock" => Return(t, "INTERNAL", None)
      BY <1>0, <2>7 DEF Find, Goto, table
    <3>2. CASE Return(t, "INTERNAL", None)
      <4>1. reply'[t] = [NoReply EXCEPT !.code = "INTERNAL", !.data = None]
        BY <1>0, <3>2 DEF Return, IndInv, Functional
      <4>2. reply'[t].code = "INTERNAL"
        BY <4>1 DEF NoReply
      <4> QED
        BY <1>0, <4>2, ArrayTableAssumption DEF IndInv, ThreadInv, TypeOK, Undisturbed
    <3>3. CASE reply' = reply /\ pc'[t] = "place"
      <4>1. Stage(t)' = Stage(t)
        BY <3>1, <3>3 DEF Stage
      <4> QED
        BY <1>2, <2>1, <2>2, <3>1, <3>3, <4>1, Stutters
    <3> QED
      BY <3>1, <3>2, <3>3
  <2>8. CASE Unlock(t)
    <3>1. /\ slots' = slots /\ reply' = reply /\ pc[t] = "unlock" /\ pc'[t] = "idle"
      BY <1>0, <2>8 DEF Unlock, Goto, table
    <3>2. Stage(t) = "done" /\ Stage(t)' = "idle"
      BY <1>0, <3>1 DEF Stage, ReplyInv
    <3>3. Abstract!End(t)
      BY <1>2, <2>1, <2>2, <3>1, <3>2 DEF Abstract!End
    <3> QED
      BY <3>3 DEF Abstract!Next
  <2>9. CASE ScanGet(t)
    <3> DEFINE c == call[t]
               v == slots[c.bucket][First(Hits(c.bucket, c.key))].data
    <3>1. /\ slots' = slots /\ pc[t] = "scan" /\ c.op \in {"get", "insert"}
          /\ c \in CallsOf(t) /\ c.bucket \in Bucket
      BY <2>3, <2>9 DEF ScanGet, table, Inside
    <3>2. c.key \in Key /\ c.bucket = BucketOf(c.key)
      BY <3>1, CallShape
    <3>3. /\ Hits(c.bucket, c.key) = {} => DictOf(c.key) = None
          /\ Hits(c.bucket, c.key) # {} => DictOf(c.key) = v
      BY <3>2 DEF DictOf
    <3>4. Hits(c.bucket, c.key) # {} => v \in Data /\ v # None
      BY <1>0, <3>1, HitSlot, ArrayTableAssumption
    <3> HIDE DEF v
    <3>5. CASE c.op = "get" /\ Hits(c.bucket, c.key) # {}
      <4>1. Return(t, "SUCCESS", v) /\ pc'[t] = "unlock"
        BY <1>0, <2>9, <3>1, <3>5 DEF ScanGet, Goto, v
      <4>2. Stage(t) = "called" /\ Abstract!Answer(t, "SUCCESS", v, {})
        BY <1>0, <2>1, <3>1, <4>1, Answers DEF Code
      <4>3. Abstract!Get(t)
        BY <1>2, <3>1, <3>2, <3>3, <3>4, <3>5, <4>2 DEF Abstract!Get, Abstract!Called
      <4> QED
        BY <4>3 DEF Abstract!Next, Abstract!Effect
    <3>6. CASE c.op = "get" /\ Hits(c.bucket, c.key) = {}
      <4>1. Return(t, "NOKEY", None) /\ pc'[t] = "unlock"
        BY <1>0, <2>9, <3>1, <3>6 DEF ScanGet, Goto
      <4>2. Stage(t) = "called" /\ Abstract!Answer(t, "NOKEY", None, {})
        BY <1>0, <2>1, <3>1, <4>1, Answers DEF Code
      <4>3. Abstract!Get(t)
        BY <1>2, <3>1, <3>2, <3>3, <3>6, <4>2 DEF Abstract!Get, Abstract!Called
      <4> QED
        BY <4>3 DEF Abstract!Next, Abstract!Effect
    <3>7. CASE c.op = "insert" /\ Hits(c.bucket, c.key) # {}
      <4>1. Return(t, "DUPKEY", None) /\ pc'[t] = "unlock"
        BY <1>0, <2>9, <3>1, <3>7 DEF ScanGet, Goto
      <4>2. Stage(t) = "called" /\ Abstract!Answer(t, "DUPKEY", None, {})
        BY <1>0, <2>1, <3>1, <4>1, Answers DEF Code
      <4>3. Abstract!Insert(t)
        BY <1>2, <3>1, <3>2, <3>3, <3>4, <3>7, <4>2 DEF Abstract!Insert, Abstract!Called
      <4> QED
        BY <4>3 DEF Abstract!Next, Abstract!Effect
    <3>8. CASE c.op = "insert" /\ Hits(c.bucket, c.key) = {}
      <4>1. reply' = reply /\ pc'[t] = "scan_unlock"
        BY <1>0, <2>9, <3>1, <3>8 DEF ScanGet, Goto
      <4>2. Stage(t)' = Stage(t)
        BY <3>1, <4>1 DEF Stage
      <4> QED
        BY <1>2, <2>1, <2>2, <3>1, <4>1, <4>2, Stutters
    <3> QED
      BY <3>1, <3>5, <3>6, <3>7, <3>8
  <2>10. CASE Place(t)
    <3> DEFINE c == call[t]
               s == slots[c.bucket]
               n == slot[t]
               e == [key |-> c.key, data |-> c.data]
               r == [s EXCEPT ![n] = e]
    <3>1. /\ pc[t] = "place" /\ pc'[t] = "unlock" /\ Return(t, "SUCCESS", None)
          /\ c \in CallsOf(t) /\ c.op = "insert" /\ c.bucket \in Bucket
          /\ n \in 1 .. Len(s) /\ s[n] = Free
          /\ slots' = [slots EXCEPT ![c.bucket] = r]
      BY <1>0, <2>3, <2>10 DEF Place, Goto, Inside, IndInv, ThreadInv
    <3>2. c.key \in Key /\ c.data \in Data /\ c.bucket = BucketOf(c.key)
      BY <3>1, CallShape
    <3>3. Stage(t) = "called" /\ Abstract!Answer(t, "SUCCESS", None, {})
      BY <1>0, <2>1, <3>1, Answers DEF Code
    <3>4. e \in Slot /\ e # Free /\ e.key = c.key /\ e.data = c.data
      BY <3>2, ArrayTableAssumption DEF Slot, Free
    <3>5. slots'[c.bucket] = r /\ \A b \in Bucket \ {c.bucket} : slots'[b] = slots[b]
      BY <1>0, <3>1
    <3>6. s \in Seq(Slot) /\ Unique(s) /\ r \in Seq(Slot) /\ Unique(r)
      BY <1>3, <3>1, <3>5
    <3>7. \A k, v : Stores(r, k, v) <=> (c.key = k /\ c.data = v) \/ Stores(s, k, v)
      <4> HIDE DEF e, n, s
      <4> QED
        BY <3>1, <3>4, <3>6, FilledStores
    <3>8. ~ HasKey(s, c.key)
      BY <3>1 DEF RefInv, KeysInv, Inserting, Missing, HasKey
    <3> HIDE DEF r, s, e, n
    <3>9. ValueIn(r, c.key) = c.data
      BY <3>2, <3>6, <3>7, ValueStored
    <3>10. \A k \in Key \ {c.key} : ValueIn(r, k) = ValueIn(s, k)
      <4> SUFFICES ASSUME NEW k \in Key \ {c.key}
                   PROVE  ValueIn(r, k) = ValueIn(s, k)
        OBVIOUS
      <4>1. \A v \in Data : Stores(r, k, v) <=> Stores(s, k, v)
        BY <3>7
      <4> QED
        BY <3>6, <4>1, SameValue
    <3>11. ValueIn(s, c.key) = None
      BY <3>6, <3>8, ValueStored
    <3>12. /\ DictOf(c.key) = None /\ DictOf(c.key)' = c.data
           /\ \A k \in Key \ {c.key} : DictOf(k)' = DictOf(k)
      BY <1>1, <2>1, <3>2, <3>5, <3>9, <3>10, <3>11, BucketOfType DEF s
    <3>13. Abstract!Insert(t)
      BY <2>1, <3>1, <3>2, <3>3, <3>12 DEF Abstract!Insert, Abstract!Called
    <3> QED
      BY <3>13 DEF Abstract!Next, Abstract!Effect
  <2>11. CASE ScanRemove(t)
    <3> DEFINE c == call[t]
               s == slots[c.bucket]
               n == First(Hits(c.bucket, c.key))
               r == [s EXCEPT ![n] = Free]
               v == s[n].data
    <3>1. /\ pc[t] = "scan" /\ pc'[t] = "unlock" /\ c.op = "remove"
          /\ c \in CallsOf(t) /\ c.bucket \in Bucket
      BY <1>0, <2>3, <2>11 DEF ScanRemove, Goto, Inside
    <3>2. c.key \in Key /\ c.bucket = BucketOf(c.key)
      BY <3>1, CallShape
    <3>3. CASE Hits(c.bucket, c.key) = {}
      <4>1. slots' = slots /\ Return(t, "NOKEY", None)
        BY <2>11, <3>3 DEF ScanRemove, table
      <4>2. DictOf(c.key) = None
        BY <3>2, <3>3 DEF DictOf
      <4>3. Stage(t) = "called" /\ Abstract!Answer(t, "NOKEY", None, {})
        BY <1>0, <2>1, <3>1, <4>1, Answers DEF Code
      <4>4. Abstract!Remove(t)
        BY <1>2, <3>1, <3>2, <4>1, <4>2, <4>3 DEF Abstract!Remove, Abstract!Called
      <4> QED
        BY <4>4 DEF Abstract!Next, Abstract!Effect
    <3>4. CASE Hits(c.bucket, c.key) # {}
      <4>1. /\ slots' = [slots EXCEPT ![c.bucket] = r] /\ Return(t, "SUCCESS", v)
        BY <2>11, <3>4 DEF ScanRemove
      <4>2. n \in Allocated(s) /\ s[n].key = c.key /\ v \in Data
        BY <1>0, <3>1, <3>4, HitSlot
      <4>3. DictOf(c.key) = v
        BY <3>2, <3>4 DEF DictOf
      <4>4. v # None
        BY <4>2, ArrayTableAssumption
      <4>5. slots'[c.bucket] = r /\ \A b \in Bucket \ {c.bucket} : slots'[b] = slots[b]
        BY <1>0, <3>1, <4>1
      <4>6. s \in Seq(Slot) /\ Unique(s) /\ r \in Seq(Slot) /\ Unique(r)
        BY <1>3, <3>1, <4>5
      <4> HIDE DEF v
      <4>7. Stage(t) = "called" /\ Abstract!Answer(t, "SUCCESS", v, {})
        BY <1>0, <2>1, <3>1, <4>1, Answers DEF Code
      <4>8. /\ ~ HasKey(r, c.key)
            /\ \A k, w : k # c.key => (Stores(r, k, w) <=> Stores(s, k, w))
        <5> HIDE DEF n, s
        <5> QED
          BY <4>2, <4>6, EmptiedStores
      <4> HIDE DEF r, n, s
      <4>9. ValueIn(r, c.key) = None
        BY <4>6, <4>8, ValueStored
      <4>10. \A k \in Key \ {c.key} : ValueIn(r, k) = ValueIn(s, k)
        <5> SUFFICES ASSUME NEW k \in Key \ {c.key}
                     PROVE  ValueIn(r, k) = ValueIn(s, k)
          OBVIOUS
        <5>1. \A w \in Data : Stores(r, k, w) <=> Stores(s, k, w)
          BY <4>8
        <5> QED
          BY <4>6, <5>1, SameValue
      <4>11. /\ DictOf(c.key)' = None
             /\ \A k \in Key \ {c.key} : DictOf(k)' = DictOf(k)
        BY <1>1, <2>1, <3>2, <4>5, <4>9, <4>10, BucketOfType DEF s
      <4>12. Abstract!Remove(t)
        BY <2>1, <3>1, <3>2, <4>3, <4>4, <4>7, <4>11 DEF Abstract!Remove, Abstract!Called
      <4> QED
        BY <4>12 DEF Abstract!Next, Abstract!Effect
    <3> QED
      BY <3>3, <3>4
  <2> QED
    BY <1>0, <1>5, <2>5, <2>6, <2>7, <2>8, <2>9, <2>10, <2>11, NeverTaken DEF Step
<1> QED
  BY <1>4, <1>5

\* COLL_ENG_ARRAY behaves as an atomic map while its allocations succeed, no two
\* threads insert the same key and no bucket is walked: every step is a step of
\* Dictionary or invisible to it (hi_array.c:45-330, hi_operations.c:36-182).
THEOREM DictionaryImplemented ==
  ASSUME Undisturbed, DisjointInserters
  PROVE  Spec => ImplementsDictionary
<1>1. Init => RefInv /\ Abstract!Init
  <2> SUFFICES ASSUME Init
               PROVE  RefInv /\ Abstract!Init
    OBVIOUS
  <2>1. ReplyInv
    BY DEF Init, ReplyInv
  <2>2. KeptInv /\ \A b \in Bucket : Allocated(slots[b]) = {}
    BY ArrayTableAssumption DEF Init, KeptInv, Lost, Allocated
  <2>3. \A k \in Key : DictOf(k) = None
    BY <2>2, BucketOfType DEF DictOf, Hits
  <2>4. \A t \in Thread : Stage(t) = "idle"
    BY DEF Init, Stage
  <2> QED
    BY <2>1, <2>2, <2>3, <2>4, KeysInit
    DEF Init, RefInv, Abstract!Init, NoCall, NoReply, Abstract!NoCall, Abstract!NoReply
<1>2. RefInv /\ [Next]_vars => RefInv' /\ [Abstract!Next]_(Abstract!vars)
  <2> SUFFICES ASSUME RefInv, [Next]_vars
               PROVE  RefInv' /\ [Abstract!Next]_(Abstract!vars)
    OBVIOUS
  <2>1. RefInv'
    BY RefInvKept
  <2>2. CASE UNCHANGED vars
    <3>1. UNCHANGED Abstract!vars
      BY <2>2, Stutters DEF vars, table, Stage, DictOf, Hits
    <3> QED
      BY <2>1, <3>1
  <2>3. ASSUME NEW t \in Thread, Begin(t) \/ Step(t)
        PROVE  [Abstract!Next]_(Abstract!vars)
    BY <2>1, <2>3, RefinementStep
  <2> QED
    BY <2>1, <2>2, <2>3 DEF Next, Finished
<1> QED
  BY <1>1, <1>2, PTL DEF Spec, ImplementsDictionary, Abstract!Safety
-----------------------------------------------------------------------------
(***************************************************************************)
(* What a bucket walk copies.                                              *)
(***************************************************************************)
\* Packing puts each entry of the first n slots in an element of its own, without gaps;
\* those before the first hole stay where they are.
LEMMA PackedProperties ==
  ASSUME NEW s \in Seq(Slot), NEW n \in Nat, n <= Len(s)
  PROVE  LET K == {i \in Allocated(s) : i <= n}
             c == Packed(s, n)
             filled == {j \in DOMAIN c : c[j] # Free}
         IN /\ Cardinality(K) \in Nat
            /\ filled = 1 .. Cardinality(K)
            /\ {c[j] : j \in filled} = {s[i] : i \in K}
            /\ \A j \in 1 .. n : 1 .. j \subseteq Allocated(s) => c[j] = s[j]
<1> DEFINE K == {i \in Allocated(s) : i <= n}
           m == Cardinality(K)
           nth(j) == {i \in Allocated(s) : i <= n /\ Checked(s, i) = j - 1}
           c == Packed(s, n)
           filled == {j \in DOMAIN c : c[j] # Free}
<1>1. DOMAIN s = 1 .. Len(s) /\ Len(s) \in Nat /\ Allocated(s) \subseteq 1 .. Len(s)
  BY AllocatedFinite
<1>2. K \subseteq 1 .. n /\ K \in SUBSET Nat
  BY <1>1
<1>3. IsFiniteSet(K) /\ m <= n
  <2>1. IsFiniteSet(1 .. n) /\ Cardinality(1 .. n) = n
    BY FS_Interval
  <2> QED
    BY <1>2, <2>1, FS_Subset
<1>4. \A i \in K : Checked(s, i) = Cardinality({j \in K : j < i})
  <2>1. ASSUME NEW i \in K
        PROVE  {j \in Allocated(s) : j < i} = {j \in K : j < i}
    <3>1. \A j \in Allocated(s) : j < i => j <= n
      BY <1>1, <1>2
    <3> QED
      BY <3>1
  <2> QED
    BY <2>1 DEF Checked
<1> HIDE DEF m
<1>5. /\ m \in Nat
      /\ \A i \in K : Checked(s, i) \in 0 .. m - 1
      /\ \A r \in 0 .. m - 1 : \E i \in K : Checked(s, i) = r
  BY <1>2, <1>3, <1>4, RankProperties, ZenonT(60) DEF m
<1>6. \A i, j \in K : Checked(s, i) = Checked(s, j) => i = j
  <2>1. \A i, j \in K : i < j => Checked(s, i) < Checked(s, j)
    <3> HIDE DEF K
    <3>1. \A i, j \in K : i < j => Cardinality({l \in K : l < i}) < Cardinality({l \in K : l < j})
      BY <1>2, <1>3, RankProperties
    <3> QED
      BY <1>4, <3>1
  <2>2. ASSUME NEW i \in K, NEW j \in K, Checked(s, i) = Checked(s, j)
        PROVE  i = j
    <3>1. i = j \/ i < j \/ j < i
      <4>1. i \in Nat /\ j \in Nat
        BY <1>2
      <4> QED
        BY <4>1
    <3>2. Checked(s, i) \in Int
      BY <1>5
    <3> QED
      BY <2>1, <2>2, <3>1, <3>2
  <2> QED
    BY <2>2
<1>7. ASSUME NEW j \in 1 .. n
      PROVE  /\ nth(j) # {} <=> j <= m
             /\ nth(j) # {} => First(nth(j)) \in K /\ Checked(s, First(nth(j))) = j - 1
  <2>1. nth(j) = {i \in K : Checked(s, i) = j - 1}
    OBVIOUS
  <2>2. nth(j) # {} <=> j <= m
    <3>1. nth(j) # {} => j - 1 \in 0 .. m - 1
      BY <1>5, <2>1
    <3>2. j - 1 \in 0 .. m - 1 => nth(j) # {}
      BY <1>5, <2>1
    <3>3. j - 1 \in 0 .. m - 1 <=> j <= m
      BY <1>5
    <3> QED
      BY <3>1, <3>2, <3>3
  <2>3. nth(j) \in SUBSET (1 .. n)
    BY <1>2, <2>1
  <2> HIDE DEF nth
  <2>4. nth(j) # {} => First(nth(j)) \in nth(j)
    BY <2>3, FirstIn
  <2> QED
    BY <2>1, <2>2, <2>4
<1>8. /\ c = [j \in 1 .. n |-> IF nth(j) = {} THEN Free ELSE s[First(nth(j))]]
      /\ DOMAIN c = 1 .. n
  BY DEF Packed
<1>15. ASSUME NEW j \in 1 .. n, 1 .. j \subseteq Allocated(s)
       PROVE  c[j] = s[j]
  <2>1. {i \in Allocated(s) : i < j} = 1 .. j - 1
    <3>1. \A i : i \in Allocated(s) /\ i < j <=> i \in 1 .. j - 1
      BY <1>1, <1>15
    <3> QED
      BY <3>1
  <2>2. Checked(s, j) = j - 1
    <3>1. Cardinality(1 .. j - 1) = j - 1
      BY FS_Interval
    <3> QED
      BY <2>1, <3>1 DEF Checked
  <2>3. j \in K
    BY <1>15
  <2>4. j \in nth(j)
    BY <2>2, <2>3
  <2> HIDE DEF nth
  <2>5. First(nth(j)) \in K /\ Checked(s, First(nth(j))) = j - 1 /\ nth(j) # {}
    BY <1>7, <2>4
  <2>6. First(nth(j)) = j
    BY <1>6, <2>2, <2>3, <2>5
  <2> QED
    BY <1>8, <2>5, <2>6
<1> HIDE DEF nth, c
<1>9. \A i \in K : s[i] # Free
  BY DEF Allocated
<1>10. \A j \in 1 .. n : c[j] # Free <=> j <= m
  BY <1>7, <1>8, <1>9
<1>11. filled = 1 .. m
  <2>1. \A j : j \in filled <=> j \in 1 .. n /\ j <= m
    BY <1>8, <1>10
  <2>2. \A j : j \in 1 .. n /\ j <= m <=> j \in 1 .. m
    BY <1>3, <1>5 DEF m
  <2> HIDE DEF filled
  <2> QED
    BY <2>1, <2>2
<1>12. \A j \in 1 .. m : \E i \in K : c[j] = s[i]
  <2>1. \A j \in 1 .. m : j \in 1 .. n /\ j <= m
    BY <1>3, <1>5 DEF m
  <2> QED
    BY <1>7, <1>8, <2>1
<1>13. \A i \in K : \E j \in 1 .. m : c[j] = s[i]
  <2>1. SUFFICES ASSUME NEW i \in K
                 PROVE  \E j \in 1 .. m : c[j] = s[i]
    OBVIOUS
  <2>2. PICK r \in 0 .. m - 1 : Checked(s, i) = r
    BY <1>5
  <2>3. r + 1 \in 1 .. m /\ r + 1 \in 1 .. n /\ r + 1 <= m /\ (r + 1) - 1 = r
    BY <1>3, <1>5 DEF m
  <2>4. First(nth(r + 1)) \in K /\ Checked(s, First(nth(r + 1))) = r /\ nth(r + 1) # {}
    BY <1>7, <2>3
  <2>5. First(nth(r + 1)) = i
    BY <1>6, <2>2, <2>4
  <2>6. c[r + 1] = s[i]
    BY <1>8, <2>3, <2>4, <2>5
  <2> QED
    BY <2>3, <2>6
<1> HIDE DEF filled
<1>14. {c[j] : j \in filled} = {s[i] : i \in K}
  BY <1>11, <1>12, <1>13
<1> QED
  BY <1>5, <1>11, <1>14, <1>15 DEF m, filled, c

\* The lengths of the keys in the first n slots.
Lengths(s, n) == [i \in 1 .. n |-> s[i].key]

\* The answer of a walk that has not been returned is what the bucket holds.
WalkInv ==
    \A t \in Thread :
        pc[t] = "unlock" /\ call[t].op = "to_array" /\ reply[t].code = "SUCCESS" =>
            /\ reply[t].content = Packed(slots[call[t].bucket], slot_size[call[t].bucket])
            /\ reply[t].lengths = Lengths(slots[call[t].bucket], slot_size[call[t].bucket])

\* What a step of t leaves to the others.
LEMMA OtherVariables ==
  ASSUME IndInv, NEW t \in Thread, Begin(t) \/ Step(t), NEW u \in Thread \ {t}
  PROVE  /\ pc'[u] = pc[u] \/ pc'[u] = "dead"
         /\ reply'[u] = reply[u] /\ call'[u] = call[u]
         /\ pc[t] \notin Inside => UNCHANGED <<slots, slot_size>>
<1>0. pc \in [Thread -> PC] /\ Functional
  BY DEF IndInv, TypeOK
<1>1. CASE Begin(t)
  <2>1. \E l : Goto(t, l)
    BY <1>1 DEF Begin
  <2>2. /\ reply' = [reply EXCEPT ![t] = NoReply]
        /\ \E c : call' = [call EXCEPT ![t] = c]
        /\ UNCHANGED table
    BY <1>1 DEF Begin
  <2> QED
    BY <1>0, <2>1, <2>2 DEF Goto, table, Functional
<1>2. CASE Step(t) /\ ~Begin(t)
  <2>1. call' = call
    BY <1>2 DEF Step, ScanNothing, ScanLock, ScanGet, ScanRemove, ScanUnlock, Lock, NoGrowth, Grow,
                GrowFails, Find, KeyFails, Place, Copy, CopyFails, Unlock, Crash
  <2>2. (\E l : Goto(t, l)) \/ pc' = [v \in Thread |-> "dead"]
    <3>1. ScanNothing(t) \/ ScanLock(t) \/ ScanGet(t) \/ ScanRemove(t) \/ ScanUnlock(t) \/ Lock(t)
            => \E l : Goto(t, l)
      BY DEF ScanNothing, ScanLock, ScanGet, ScanRemove, ScanUnlock, Lock
    <3>2. NoGrowth(t) \/ Grow(t) \/ GrowFails(t) \/ Find(t) \/ KeyFails(t) => \E l : Goto(t, l)
      BY DEF NoGrowth, Grow, GrowFails, Find, KeyFails
    <3>3. Place(t) \/ Copy(t) \/ CopyFails(t) \/ Unlock(t) => \E l : Goto(t, l)
      BY DEF Place, Copy, CopyFails, Unlock
    <3>4. Crash(t) => pc' = [v \in Thread |-> "dead"]
      BY DEF Crash
    <3> QED
      BY <1>2, <3>1, <3>2, <3>3, <3>4 DEF Step
  <2>3. reply' = reply \/ \E r : reply' = [reply EXCEPT ![t] = r]
    <3>1. ScanNothing(t) \/ ScanLock(t) \/ ScanGet(t) \/ ScanRemove(t) \/ ScanUnlock(t) \/ Lock(t)
            => reply' = reply \/ \E r : reply' = [reply EXCEPT ![t] = r]
      BY DEF ScanNothing, ScanLock, ScanGet, ScanRemove, ScanUnlock, Lock, Return
    <3>2. NoGrowth(t) \/ Grow(t) \/ GrowFails(t) \/ Find(t) \/ KeyFails(t)
            => reply' = reply \/ \E r : reply' = [reply EXCEPT ![t] = r]
      BY DEF NoGrowth, Grow, GrowFails, Find, KeyFails, Return
    <3>3. Place(t) \/ CopyFails(t) \/ Unlock(t) \/ Crash(t)
            => reply' = reply \/ \E r : reply' = [reply EXCEPT ![t] = r]
      BY DEF Place, CopyFails, Unlock, Crash, Return
    <3>4. Copy(t) => \E r : reply' = [reply EXCEPT ![t] = r]
      BY DEF Copy, Return
    <3> QED
      BY <1>2, <3>1, <3>2, <3>3, <3>4 DEF Step
  <2>4. pc[t] \notin Inside => UNCHANGED <<slots, slot_size>>
    BY <1>2 DEF Step, Inside, ScanNothing, ScanLock, ScanGet, ScanRemove, ScanUnlock, Lock, NoGrowth,
                Grow, GrowFails, Find, KeyFails, Place, Copy, CopyFails, Unlock, Crash, table
  <2> QED
    BY <1>0, <2>1, <2>2, <2>3, <2>4 DEF Goto, Functional
<1> QED
  BY <1>1, <1>2

\* The walk's own steps.
LEMMA WalkStep ==
  ASSUME IndInv, WalkInv, NEW t \in Thread, Begin(t) \/ Step(t),
         pc'[t] = "unlock", call'[t].op = "to_array", reply'[t].code = "SUCCESS"
  PROVE  /\ reply'[t].content = Packed(slots'[call'[t].bucket], slot_size'[call'[t].bucket])
         /\ reply'[t].lengths = Lengths(slots'[call'[t].bucket], slot_size'[call'[t].bucket])
<1>0. pc \in [Thread -> PC] /\ Functional
  BY DEF IndInv, TypeOK
<1>1. ~Begin(t) /\ ~Crash(t)
  BY <1>0 DEF Begin, Crash, Goto
<1>2. /\ ~ScanNothing(t) /\ ~ScanLock(t) /\ ~ScanUnlock(t) /\ ~Lock(t) /\ ~NoGrowth(t) /\ ~Grow(t)
      /\ ~KeyFails(t) /\ ~Unlock(t)
  BY <1>0 DEF ScanNothing, ScanLock, ScanUnlock, Lock, NoGrowth, Grow, KeyFails, Unlock, Goto
<1>3. ~ScanGet(t) /\ ~ScanRemove(t)
  BY DEF ScanGet, ScanRemove
<1>4. ~GrowFails(t) /\ ~Find(t) /\ ~Place(t)
  <2>1. pc[t] \in {"grow", "find", "place"} => call[t].op = "insert"
    BY DEF IndInv, ThreadInv
  <2> QED
    BY <2>1 DEF GrowFails, Find, Place
<1>5. ~CopyFails(t)
  <2>1. ASSUME Return(t, "SYSTEM", None)
        PROVE  reply'[t].code = "SYSTEM"
    BY <1>0, <2>1 DEF Return, NoReply, Functional
  <2> QED
    BY <2>1 DEF CopyFails
<1>6. Copy(t)
  BY <1>1, <1>2, <1>3, <1>4, <1>5 DEF Step
<1>7. slot_size[call[t].bucket] # 0
  <2>1. ASSUME Return(t, "NODATA", None)
        PROVE  reply'[t].code = "NODATA"
    BY <1>0, <2>1 DEF Return, NoReply, Functional
  <2> QED
    BY <1>6, <2>1 DEF Copy
<1>8. /\ reply'[t].content = Packed(slots[call[t].bucket], slot_size[call[t].bucket])
      /\ reply'[t].lengths = Lengths(slots[call[t].bucket], slot_size[call[t].bucket])
  <2> DEFINE c == Packed(slots[call[t].bucket], slot_size[call[t].bucket])
             l == Lengths(slots[call[t].bucket], slot_size[call[t].bucket])
  <2>1. reply' = [reply EXCEPT ![t] = [code |-> "SUCCESS", data |-> None, content |-> c, lengths |-> l]]
    BY <1>6, <1>7 DEF Copy, Lengths
  <2> HIDE DEF c, l
  <2>2. reply'[t].content = c /\ reply'[t].lengths = l
    BY <1>0, <2>1 DEF Functional
  <2> QED
    BY <2>2 DEF c, l
<1> QED
  BY <1>6, <1>8 DEF Copy, table

LEMMA WalkInvariance == Spec => [](IndInv /\ WalkInv)
<1>1. Init => WalkInv
  BY DEF Init, WalkInv
<1>2. IndInv /\ WalkInv /\ [Next]_vars => WalkInv'
  <2> SUFFICES ASSUME IndInv, WalkInv, [Next]_vars
               PROVE  WalkInv'
    OBVIOUS
  <2>1. CASE UNCHANGED vars
    BY <2>1 DEF vars, table, WalkInv
  <2>2. ASSUME NEW t \in Thread, Begin(t) \/ Step(t)
        PROVE  WalkInv'
    <3> SUFFICES ASSUME NEW u \in Thread, pc'[u] = "unlock", call'[u].op = "to_array",
                        reply'[u].code = "SUCCESS"
                 PROVE  /\ reply'[u].content = Packed(slots'[call'[u].bucket], slot_size'[call'[u].bucket])
                        /\ reply'[u].lengths = Lengths(slots'[call'[u].bucket], slot_size'[call'[u].bucket])
      BY DEF WalkInv
    <3>1. CASE u = t
      BY <2>2, <3>1, WalkStep
    <3>2. CASE u # t
      <4>1. pc[u] = "unlock" /\ reply'[u] = reply[u] /\ call'[u] = call[u]
        BY <2>2, <3>2, OtherVariables
      <4>2. pc[t] \notin Inside
        BY <3>2, <4>1, Alone DEF Inside
      <4>3. UNCHANGED <<slots, slot_size>>
        BY <2>2, <3>2, <4>2, OtherVariables
      <4> QED
        BY <4>1, <4>3 DEF WalkInv
    <3> QED
      BY <3>1, <3>2
  <2> QED
    BY <2>1, <2>2 DEF Next, Finished
<1> QED
  BY Invariance, <1>1, <1>2, PTL DEF Spec

\* Whatever holes removals have left: a walk that succeeds has copied each entry of the first
\* slot_size slots once, to the front of its arrays, and missed all and only the entries
\* beyond; the keys before the first hole have their lengths, and nothing is written to the
\* length at a hole, whatever key that element holds (hi_array.c:206-218).
THEOREM WalkAlwaysMissesTail == Spec => []WalkMissesTail
<1>1. IndInv /\ WalkInv => WalkMissesTail
  <2> SUFFICES ASSUME IndInv, WalkInv, NEW t \in Thread,
                      pc[t] = "unlock", call[t].op = "to_array", reply[t].code = "SUCCESS"
               PROVE  LET s == slots[call[t].bucket]
                          n == slot_size[call[t].bucket]
                      IN /\ {reply[t].content[j] : j \in Written(t)}
                              = {s[i] : i \in {j \in Allocated(s) : j <= n}}
                         /\ Written(t) = 1 .. n - Cardinality({j \in Allocated(s) : j > n})
                         /\ \A j \in 1 .. n :
                              /\ 1 .. j \subseteq Allocated(s) => reply[t].lengths[j] = reply[t].content[j].key
                              /\ j \notin Allocated(s) => reply[t].lengths[j] = None
    BY DEF WalkMissesTail
  <2>1. PICK b \in Bucket : b = call[t].bucket
    BY Alone DEF Inside
  <2>2. ~Lost(b)
    BY <2>1 DEF IndInv, ThreadInv
  <2>3. PICK s \in Seq(Slot), n \in Nat : s = slots[b] /\ n = slot_size[b]
    BY DEF IndInv, TypeOK
  <2>4. n = Cardinality(Allocated(s))
    BY <2>2, <2>3 DEF IndInv, BucketInv
  <2>5. /\ IsFiniteSet(Allocated(s)) /\ n <= Len(s) /\ Allocated(s) \subseteq Nat
    <3>1. Allocated(s) \subseteq 1 .. Len(s) /\ IsFiniteSet(Allocated(s)) /\ n <= Len(s)
      BY <2>4, AllocatedFinite
    <3> QED
      BY <3>1
  <2> DEFINE K == {i \in Allocated(s) : i <= n}
             R == {i \in Allocated(s) : i > n}
  <2>6. reply[t].content = Packed(s, n) /\ reply[t].lengths = Lengths(s, n)
    BY <2>1, <2>3 DEF WalkInv
  <2>7. /\ Cardinality(K) \in Nat
        /\ Written(t) = 1 .. Cardinality(K)
        /\ {reply[t].content[j] : j \in Written(t)} = {s[i] : i \in K}
    <3>1. LET c == Packed(s, n)
              filled == {j \in DOMAIN c : c[j] # Free}
          IN /\ Cardinality(K) \in Nat
             /\ filled = 1 .. Cardinality(K)
             /\ {c[j] : j \in filled} = {s[i] : i \in K}
      BY <2>5, PackedProperties
    <3> HIDE DEF K
    <3> QED
      BY <2>6, <3>1 DEF Written
  <2>8. Cardinality(K) = n - Cardinality(R)
    <3>1. K \cup R = Allocated(s) /\ K \cap R = {} /\ K \in SUBSET Allocated(s) /\ R \in SUBSET Allocated(s)
      BY <2>5
    <3> HIDE DEF K, R
    <3>2. IsFiniteSet(K) /\ IsFiniteSet(R)
      <4>1. IsFiniteSet(Allocated(s))
        BY <2>5
      <4> QED
        BY <3>1, <4>1, FS_Subset
    <3>3. n = Cardinality(K) + Cardinality(R) - Cardinality({})
      BY <2>4, <3>1, <3>2, FS_Union
    <3>4. Cardinality({}) = 0 /\ Cardinality(R) \in Nat
      BY <3>2, FS_EmptySet, FS_CardinalityType
    <3> QED
      BY <2>7, <3>3, <3>4
  <2>9. ASSUME NEW j \in 1 .. n
        PROVE  /\ 1 .. j \subseteq Allocated(s) => reply[t].lengths[j] = reply[t].content[j].key
               /\ j \notin Allocated(s) => reply[t].lengths[j] = None
    <3>1. reply[t].lengths[j] = s[j].key
      BY <2>6 DEF Lengths
    <3>2. 1 .. j \subseteq Allocated(s) => Packed(s, n)[j] = s[j]
      BY <2>5, PackedProperties
    <3>3. j \in DOMAIN s
      BY <2>5
    <3>4. j \notin Allocated(s) => s[j].key = None
      BY <3>3 DEF Allocated, Free
    <3> QED
      BY <2>6, <3>1, <3>2, <3>4
  <2> HIDE DEF K, R
  <2>10. {i \in Allocated(s) : i <= n} = K /\ {i \in Allocated(s) : i > n} = R
    BY DEF K, R
  <2>11. slots[call[t].bucket] = s /\ slot_size[call[t].bucket] = n
    BY <2>1, <2>3
  <2> QED
    BY <2>7, <2>8, <2>9, <2>10, <2>11
<1> QED
  BY WalkInvariance, <1>1, PTL
=============================================================================
