------------------------- MODULE RbtreeTable_proofs -------------------------
(***************************************************************************)
(* Proofs about RbtreeTable: for any threads, keys and number of trees, a  *)
(* tree's lock is held for writing by one thread, alone, over the whole of *)
(* a call. For keys in an order, every tree is searchable at every step    *)
(* and red-black whenever its lock is free, the counters describe it, and  *)
(* the loops that restore the colours come to an end.                      *)
(***************************************************************************)
EXTENDS RbtreeTable, RBTree_proofs

Writing == {"search", "insert_color", "erase_color", "free", "unlock"}
Reading == {"read", "rdunlock"}

\* The variables the locks depend on.
LockTypes ==
    /\ writer \in [Bucket -> Thread \cup {NoOwner}]
    /\ readers \in [Bucket -> SUBSET Thread]
    /\ pc \in [Thread -> PC]
    /\ call \in [Thread -> [op: {"none", "insert", "remove", "get", "to_array"},
                            key: Link, bucket: Bucket]]

\* Who is in a critical section holds the lock it needs.
WriterHolds == \A t \in Thread : pc[t] \in Writing => writer[call[t].bucket] = t
ReaderHolds == \A t \in Thread : pc[t] \in Reading => t \in readers[call[t].bucket]

\* A writer is alone.
NoReaders == \A b \in Bucket : writer[b] # NoOwner => readers[b] = {}

IndInv == LockTypes /\ WriterHolds /\ ReaderHolds /\ NoReaders

LEMMA CallTypes ==
    \A t \in Thread : \A c \in CallsOf(t) :
        c \in [op: {"none", "insert", "remove", "get", "to_array"}, key: Link, bucket: Bucket]
<1>1. \A k \in Key : BucketOf(k) \in Bucket
  BY RbtreeTableAssumption DEF BucketOf, Bucket
<1>2. \A t \in Thread :
        /\ InsertKeys[t] \subseteq Key /\ RemoveKeys[t] \subseteq Key /\ GetKeys[t] \subseteq Key
        /\ WalkBuckets[t] \subseteq Bucket
  BY RbtreeTableAssumption
<1> QED
  BY <1>1, <1>2 DEF CallsOf, Link

LEMMA NoCallType ==
    NoCall \in [op: {"none", "insert", "remove", "get", "to_array"}, key: Link, bucket: Bucket]
<1> QED
  BY RbtreeTableAssumption DEF NoCall, Link, Bucket

LEMMA IndInvInit == Init => IndInv
<1> SUFFICES ASSUME Init PROVE IndInv
  OBVIOUS
<1>1. LockTypes
  BY NoCallType DEF Init, LockTypes, PC
<1> QED
  BY <1>1 DEF Init, IndInv, WriterHolds, ReaderHolds, NoReaders, Writing, Reading

\* A step inside a critical section, or from one side of it to the other, that touches
\* no lock.
LEMMA StaysInside ==
    ASSUME IndInv, NEW t \in Thread, NEW l \in PC,
           pc' = [pc EXCEPT ![t] = l],
           l \in Writing => pc[t] \in Writing,
           l \in Reading => pc[t] \in Reading,
           UNCHANGED <<call, writer, readers>>
    PROVE  IndInv'
<1>1. LockTypes'
  BY DEF IndInv, LockTypes
<1>2. \A u \in Thread : pc'[u] = IF u = t THEN l ELSE pc[u]
  BY DEF IndInv, LockTypes
<1> QED
  BY <1>1, <1>2 DEF IndInv, WriterHolds, ReaderHolds, NoReaders

\* A call begins or is over: the thread is in no critical section.
LEMMA StaysOutside ==
    ASSUME IndInv, NEW t \in Thread, NEW l \in PC, l \notin Writing \cup Reading,
           NEW c \in [op: {"none", "insert", "remove", "get", "to_array"}, key: Link, bucket: Bucket],
           pc' = [pc EXCEPT ![t] = l],
           call' = [call EXCEPT ![t] = c],
           UNCHANGED <<writer, readers>>
    PROVE  IndInv'
<1>1. LockTypes'
  BY DEF IndInv, LockTypes
<1>2. \A u \in Thread : /\ pc'[u] = IF u = t THEN l ELSE pc[u]
                        /\ u # t => call'[u] = call[u]
  BY DEF IndInv, LockTypes
<1> QED
  BY <1>1, <1>2 DEF IndInv, WriterHolds, ReaderHolds, NoReaders

LEMMA IndInvNext == IndInv /\ [Next]_vars => IndInv'
<1> SUFFICES ASSUME IndInv, [Next]_vars PROVE IndInv'
  OBVIOUS
<1> USE DEF IndInv
<1>1. CASE UNCHANGED vars
  BY <1>1 DEF vars, locals, LockTypes, WriterHolds, ReaderHolds, NoReaders
<1>2. ASSUME NEW t \in Thread, BeginWrite(t) PROVE IndInv'
  <2>1. PICK c \in CallsOf(t) : call' = [call EXCEPT ![t] = c]
    BY <1>2 DEF BeginWrite
  <2>2. pc' = [pc EXCEPT ![t] = "wrlock"] /\ UNCHANGED <<writer, readers>>
    BY <1>2 DEF BeginWrite, Goto, locks
  <2> QED
    BY <2>1, <2>2, CallTypes, StaysOutside DEF PC, Writing, Reading
<1>3. ASSUME NEW t \in Thread, ReadRoot(t) PROVE IndInv'
  <2>1. PICK c \in CallsOf(t) : call' = [call EXCEPT ![t] = c]
    BY <1>3 DEF ReadRoot
  <2>2. pc' = [pc EXCEPT ![t] = "rdlock"] /\ UNCHANGED <<writer, readers>>
    BY <1>3 DEF ReadRoot, Goto, locks
  <2> QED
    BY <2>1, <2>2, CallTypes, StaysOutside DEF PC, Writing, Reading
<1>4. ASSUME NEW t \in Thread, WrLock(t) PROVE IndInv'
  <2> DEFINE b == call[t].bucket
  <2>1. /\ b \in Bucket /\ writer[b] = NoOwner /\ readers[b] = {}
        /\ writer' = [writer EXCEPT ![b] = t] /\ pc' = [pc EXCEPT ![t] = "search"]
        /\ UNCHANGED <<call, readers>>
    BY <1>4 DEF WrLock, Goto, locals, LockTypes
  <2> HIDE DEF b
  <2>2. LockTypes'
    BY <2>1 DEF LockTypes, PC
  <2>3. /\ \A u \in Thread : pc'[u] = IF u = t THEN "search" ELSE pc[u]
        /\ \A d \in Bucket : writer'[d] = IF d = b THEN t ELSE writer[d]
    BY <2>1 DEF LockTypes
  <2>4. WriterHolds'
    <3> SUFFICES ASSUME NEW u \in Thread, pc'[u] \in Writing
                 PROVE  writer'[call[u].bucket] = u
      BY <2>1 DEF WriterHolds
    <3>1. CASE u = t
      BY <3>1, <2>1, <2>3 DEF b
    <3>2. CASE u # t
      <4>1. writer[call[u].bucket] = u /\ call[u].bucket \in Bucket
        BY <3>2, <2>3 DEF WriterHolds, LockTypes
      <4>2. call[u].bucket # b
        BY <4>1, <2>1, RbtreeTableAssumption
      <4> QED
        BY <4>1, <4>2, <2>3
    <3> QED
      BY <3>1, <3>2
  <2>5. ReaderHolds'
    BY <2>1, <2>3 DEF ReaderHolds, Reading
  <2>6. NoReaders'
    BY <2>1, <2>3 DEF NoReaders
  <2> QED
    BY <2>2, <2>4, <2>5, <2>6
<1>5. ASSUME NEW t \in Thread, RdLock(t) PROVE IndInv'
  <2> DEFINE b == call[t].bucket
  <2>1. /\ b \in Bucket /\ writer[b] = NoOwner
        /\ readers' = [readers EXCEPT ![b] = @ \cup {t}] /\ pc' = [pc EXCEPT ![t] = "read"]
        /\ UNCHANGED <<call, writer>>
    BY <1>5 DEF RdLock, Goto, locals, LockTypes
  <2> HIDE DEF b
  <2>2. LockTypes'
    BY <2>1 DEF LockTypes, PC
  <2>3. /\ \A u \in Thread : pc'[u] = IF u = t THEN "read" ELSE pc[u]
        /\ \A d \in Bucket : readers'[d] = IF d = b THEN readers[b] \cup {t} ELSE readers[d]
    BY <2>1 DEF LockTypes
  <2>4. WriterHolds'
    BY <2>1, <2>3 DEF WriterHolds, Writing
  <2>5. ReaderHolds'
    BY <2>1, <2>3 DEF ReaderHolds, LockTypes, b
  <2>6. NoReaders'
    BY <2>1, <2>3 DEF NoReaders
  <2> QED
    BY <2>2, <2>4, <2>5, <2>6
<1>6. ASSUME NEW t \in Thread, WrUnlock(t) PROVE IndInv'
  <2> DEFINE b == call[t].bucket
  <2>1. /\ b \in Bucket /\ writer[b] = t
        /\ writer' = [writer EXCEPT ![b] = NoOwner]
        /\ UNCHANGED readers
    BY <1>6 DEF WrUnlock, LockTypes, WriterHolds, Writing
  <2>2. \/ pc' = [pc EXCEPT ![t] = "count"] /\ UNCHANGED call
        \/ pc' = [pc EXCEPT ![t] = "idle"] /\ call' = [call EXCEPT ![t] = NoCall]
    BY <1>6 DEF WrUnlock, Return, Goto, locals
  <2> HIDE DEF b
  <2>3. LockTypes'
    BY <2>1, <2>2, NoCallType, SMTT(60) DEF LockTypes, PC
  <2>4. /\ pc'[t] \notin Writing \cup Reading
        /\ \A u \in Thread \ {t} : pc'[u] = pc[u] /\ call'[u] = call[u]
        /\ \A d \in Bucket : writer'[d] = IF d = b THEN NoOwner ELSE writer[d]
    BY <2>1, <2>2 DEF LockTypes, Writing, Reading
  <2>5. WriterHolds'
    <3> SUFFICES ASSUME NEW u \in Thread, u # t, pc[u] \in Writing
                 PROVE  writer'[call[u].bucket] = u
      BY <2>4 DEF WriterHolds
    <3>1. writer[call[u].bucket] = u /\ call[u].bucket \in Bucket
      BY DEF WriterHolds, LockTypes
    <3> QED
      BY <3>1, <2>1, <2>4
  <2>6. ReaderHolds'
    BY <2>1, <2>4 DEF ReaderHolds
  <2>7. NoReaders'
    BY <2>1, <2>4 DEF NoReaders
  <2> QED
    BY <2>3, <2>5, <2>6, <2>7
<1>7. ASSUME NEW t \in Thread, RdUnlock(t) PROVE IndInv'
  <2> DEFINE b == call[t].bucket
  <2>1. /\ b \in Bucket
        /\ readers' = [readers EXCEPT ![b] = @ \ {t}]
        /\ pc' = [pc EXCEPT ![t] = "idle"] /\ call' = [call EXCEPT ![t] = NoCall]
        /\ UNCHANGED writer
    BY <1>7 DEF RdUnlock, Return, Goto, LockTypes
  <2> HIDE DEF b
  <2>2. LockTypes'
    BY <2>1, NoCallType DEF LockTypes, PC
  <2>3. /\ pc'[t] \notin Writing \cup Reading
        /\ \A u \in Thread \ {t} : pc'[u] = pc[u] /\ call'[u] = call[u]
        /\ \A d \in Bucket : readers'[d] = IF d = b THEN readers[b] \ {t} ELSE readers[d]
    BY <2>1 DEF LockTypes, Writing, Reading
  <2>4. WriterHolds'
    BY <2>1, <2>3 DEF WriterHolds
  <2>5. ReaderHolds'
    BY <2>1, <2>3 DEF ReaderHolds, LockTypes
  <2>6. NoReaders'
    BY <2>1, <2>3 DEF NoReaders
  <2> QED
    BY <2>2, <2>4, <2>5, <2>6
<1>8. ASSUME NEW t \in Thread,
             \/ InsertRefused(t) \/ InsertLink(t) \/ InsertColorDone(t)
             \/ RemoveMisses(t) \/ EraseColorDone(t) \/ RemoveFree(t)
             \/ ReadFreed(t) \/ Get(t) \/ ToArray(t) \/ ToArrayFails(t)
      PROVE  IndInv'
  <2>1. PICK l \in {"unlock", "insert_color", "free", "rdunlock"} :
          /\ pc' = [pc EXCEPT ![t] = l]
          /\ l = "rdunlock" => pc[t] = "read"
          /\ l # "rdunlock" => pc[t] \in Writing
          /\ UNCHANGED <<call, writer, readers>>
    BY <1>8 DEF InsertRefused, InsertLink, InsertColorDone, RemoveMisses, EraseColorDone,
                RemoveFree, ReadFreed, Get, ToArray, ToArrayFails, Goto, locks, locals, Writing
  <2> QED
    BY <2>1, StaysInside DEF PC, Writing, Reading
<1>9. ASSUME NEW t \in Thread, RemoveErase(t) PROVE IndInv'
  <2>1. PICK l \in {"free", "erase_color"} :
          /\ pc' = [pc EXCEPT ![t] = l] /\ pc[t] = "search"
          /\ UNCHANGED <<call, writer, readers>>
    BY <1>9 DEF RemoveErase, Goto, locks
  <2> QED
    BY <2>1, StaysInside DEF PC, Writing, Reading
<1>10. ASSUME NEW t \in Thread,
              \/ InsertColorRecolour(t) \/ InsertColorInner(t) \/ InsertColorOuter(t)
              \/ EraseColorRedSibling(t) \/ EraseColorRecolour(t) \/ EraseColorNear(t)
              \/ EraseColorFar(t)
       PROVE  IndInv'
  <2>1. UNCHANGED <<pc, call, writer, readers>>
    BY <1>10 DEF InsertColorRecolour, InsertColorInner, InsertColorOuter, EraseColorRedSibling,
                 EraseColorRecolour, EraseColorNear, EraseColorFar, locks, locals
  <2> QED
    BY <2>1 DEF LockTypes, WriterHolds, ReaderHolds, NoReaders
<1>11. ASSUME NEW t \in Thread, CountObjects(t) PROVE IndInv'
  <2>1. /\ pc' = [pc EXCEPT ![t] = "idle"] /\ call' = [call EXCEPT ![t] = NoCall]
        /\ UNCHANGED <<writer, readers>>
    BY <1>11 DEF CountObjects, Return, Goto, locks
  <2> QED
    BY <2>1, NoCallType, StaysOutside DEF PC, Writing, Reading
<1> QED
  BY <1>1, <1>2, <1>3, <1>4, <1>5, <1>6, <1>7, <1>8, <1>9, <1>10, <1>11 DEF Next, Step

LEMMA IndInvAlways == Spec => []IndInv
<1> QED
  BY IndInvInit, IndInvNext, PTL DEF Spec

\* A thread that holds a tree's lock for writing is alone with the tree: nobody reads
\* it, and no other writer is between its lock and its unlock (hi_rbtree.c:428-526).
THEOREM WritersExclude == Spec => []LockExcludes
<1>1. IndInv => LockExcludes
  <2> SUFFICES ASSUME IndInv, NEW b \in Bucket, NEW t \in Thread, NEW u \in Thread,
                      writer[b] = t, u # t
               PROVE  /\ u \notin readers[b]
                      /\ ~(call[u].bucket = b /\ pc[u] \in Writing \cup Reading)
    BY DEF LockExcludes, Writing, Reading
  <2>1. readers[b] = {}
    BY RbtreeTableAssumption DEF IndInv, NoReaders
  <2>2. call[u].bucket = b => pc[u] \notin Writing
    BY DEF IndInv, WriterHolds
  <2>3. call[u].bucket = b => pc[u] \notin Reading
    BY <2>1 DEF IndInv, ReaderHolds
  <2> QED
    BY <2>1, <2>2, <2>3
<1> QED
  BY <1>1, IndInvAlways, PTL

(***************************************************************************)
(* How near the loops are to their end: the depth of a node is the number  *)
(* of nodes over it, and a rotation changes it by one.                     *)
(***************************************************************************)

\* The nodes from which n is reached.
Over(N, sub, n) == {a \in N : n \in sub[a]}

\* The nodes over a node are those over its parent and the parent.
LEMMA OverParent ==
    ASSUME NEW T, NEW N, NEW sub, Shape(T, N, sub), NEW n \in N
    PROVE  /\ Over(N, sub, n) = {n} \cup Over(N, sub, T.parent[n])
           /\ n \notin Over(N, sub, T.parent[n])
           /\ Over(N, sub, NULL) = {}
           /\ IsFiniteSet(Over(N, sub, T.parent[n]))
<1> DEFINE p == T.parent[n]
<1>1. /\ N \subseteq Key /\ NULL \notin N /\ IsFiniteSet(N)
      /\ \A a \in N : a \in sub[a] /\ sub[a] \subseteq N
  BY ShapeSays
<1>2. /\ p = NULL <=> n = T.root
      /\ n # T.root => p \in N /\ p \notin sub[n] /\ sub[n] \subseteq sub[p]
  BY ShapeSaysAbove
<1>3. \A a \in N : n \in sub[a] /\ a # n => p \in sub[a]
  BY Nested
<1>4. \A a \in N : p \in sub[a] => n \in sub[a] /\ a # n
  <2> SUFFICES ASSUME NEW a \in N, p \in sub[a] PROVE n \in sub[a] /\ a # n
    OBVIOUS
  <2>1. p \in N /\ p # NULL
    BY <1>1
  <2>2. sub[p] \subseteq sub[a]
    BY Nested
  <2> QED
    BY <2>1, <2>2, <1>1, <1>2
<1>5. Over(N, sub, NULL) = {}
  BY <1>1 DEF Over
<1>6. IsFiniteSet(Over(N, sub, p))
  BY <1>1, FS_Subset DEF Over
<1> HIDE DEF p
<1>7. Over(N, sub, n) = {n} \cup Over(N, sub, p) /\ n \notin Over(N, sub, p)
  BY <1>1, <1>3, <1>4 DEF Over
<1> QED
  BY <1>5, <1>6, <1>7 DEF p

\* The depth of a node is one more than its parent's.
LEMMA DepthIs ==
    ASSUME NEW T, NEW N, NEW sub, Shape(T, N, sub)
    PROVE  /\ Depth(T, NULL) = 0
           /\ \A n \in N : Depth(T, n) \in Nat /\ Depth(T, n) = 1 + Depth(T, T.parent[n])
<1> DEFINE h(n) == Cardinality(Over(N, sub, n))
           W == [n \in Link |-> IF n \in N \cup {NULL} THEN h(n) ELSE 1 + h(T.parent[n])]
           After(f) == [n \in Link |-> IF n = NULL THEN 0 ELSE 1 + f[T.parent[n]]]
           f == CHOOSE f : f = After(f)
<1>1. \A n \in Key : T.parent[n] \in N \cup {NULL}
  BY DEF Shape
<1>2. N \subseteq Key /\ NULL \notin N
  BY ShapeSays
<1>3. N # {} => h(NULL) = 0
  BY OverParent, FS_EmptySet
<1>4. h(NULL) = 0
  BY <1>3, FS_EmptySet DEF Over
<1>5. \A n \in N : h(n) = 1 + h(T.parent[n])
  <2> SUFFICES ASSUME NEW n \in N PROVE h(n) = 1 + h(T.parent[n])
    OBVIOUS
  <2> DEFINE A == Over(N, sub, T.parent[n])
  <2>1. Over(N, sub, n) = {n} \cup A /\ n \notin A /\ IsFiniteSet(A)
    BY OverParent
  <2> HIDE DEF A
  <2>2. Cardinality(A \cup {n}) = Cardinality(A) + 1 /\ Cardinality(A) \in Nat
    BY <2>1, FS_AddElement, FS_CardinalityType
  <2>3. A \cup {n} = Over(N, sub, n)
    BY <2>1
  <2>4. h(n) = Cardinality(A) + 1
    BY <2>2, <2>3
  <2>5. h(T.parent[n]) = Cardinality(A)
    BY DEF A
  <2> HIDE DEF h
  <2> QED
    BY <2>2, <2>4, <2>5
<1> HIDE DEF h
<1>6. W = After(W)
  <2>1. ASSUME NEW n \in Link PROVE W[n] = After(W)[n]
    <3>1. CASE n = NULL
      BY <3>1, <1>4
    <3>2. CASE n # NULL
      <4>1. n \in Key
        BY <3>2 DEF Link
      <4>2. W[T.parent[n]] = h(T.parent[n])
        BY <4>1, <1>1, <1>2 DEF Link
      <4>3. W[n] = 1 + h(T.parent[n])
        BY <3>2, <1>5
      <4>4. After(W)[n] = 1 + W[T.parent[n]]
        BY <3>2
      <4> QED
        BY <4>2, <4>3, <4>4
    <3> QED
      BY <3>1, <3>2
  <2>2. W = [n \in Link |-> W[n]] /\ After(W) = [n \in Link |-> After(W)[n]]
    OBVIOUS
  <2> HIDE DEF W, After
  <2> QED
    BY <2>1, <2>2
<1>7. f = After(f)
  <2> HIDE DEF W, After
  <2> QED
    BY <1>6
<1>8. \A n : Depth(T, n) = f[n]
  BY DEF Depth
<1> HIDE DEF f
<1>9. f[NULL] = 0 /\ \A n \in N : f[n] = 1 + f[T.parent[n]]
  BY <1>2, <1>7 DEF Link
<1>10. N \subseteq {n \in Link : f[n] \in Nat}
  <2> DEFINE P == {n \in Link : f[n] \in Nat}
  <2>1. NULL \in P
    BY <1>9 DEF Link
  <2>2. ASSUME NEW n \in N, T.parent[n] \in P PROVE n \in P
    <3>1. n \in Link /\ f[n] = 1 + f[T.parent[n]] /\ f[T.parent[n]] \in Nat
      BY <2>2, <1>2, <1>9 DEF Link
    <3> QED
      BY <3>1
  <2> HIDE DEF P
  <2>3. N \subseteq P
    BY <2>1, <2>2, FromTheRoot
  <2> QED
    BY <2>3 DEF P
<1> QED
  BY <1>8, <1>9, <1>10

\* Nodes that keep their parents, with theirs, keep their depth.
LEMMA SameDepth ==
    ASSUME NEW T, NEW N, NEW sub, Shape(T, N, sub), NEW U, NEW sub1, Shape(U, N, sub1),
           NEW A \in SUBSET N, \A a \in A : U.parent[a] = T.parent[a] /\ T.parent[a] \in A \cup {NULL}
    PROVE  \A a \in A : Depth(U, a) = Depth(T, a)
<1> DEFINE P == {n \in Link : n \in A => Depth(U, n) = Depth(T, n)}
<1>1. N \subseteq Key /\ NULL \notin N
  BY ShapeSays
<1>2. /\ Depth(T, NULL) = 0 /\ Depth(U, NULL) = 0
      /\ \A n \in N : /\ Depth(T, n) = 1 + Depth(T, T.parent[n])
                      /\ Depth(U, n) = 1 + Depth(U, U.parent[n])
  BY DepthIs
<1>3. NULL \in P
  BY <1>2 DEF Link
<1>4. ASSUME NEW n \in N, T.parent[n] \in P PROVE n \in P
  <2>1. n \in Link
    BY <1>1 DEF Link
  <2>2. ASSUME n \in A PROVE Depth(U, n) = Depth(T, n)
    <3>1. U.parent[n] = T.parent[n] /\ T.parent[n] \in A \cup {NULL}
      BY <2>2
    <3>2. Depth(U, T.parent[n]) = Depth(T, T.parent[n])
      BY <3>1, <1>2, <1>4
    <3> QED
      BY <3>1, <3>2, <1>2
  <2> QED
    BY <2>1, <2>2
<1> HIDE DEF P
<1>5. N \subseteq P
  BY <1>3, <1>4, FromTheRoot
<1> QED
  BY <1>5 DEF P

\* A rotation leaves the depth of the nodes above it as it is.
LEMMA RotatedDepth ==
    ASSUME KeysOrdered, NEW T, NEW N, NEW sub, Shape(T, N, sub), NEW n \in N, NEW s \in Side,
           T.child[Opposite(s)][n] # NULL
    PROVE  \A a \in N : n \in sub[a] /\ a # n => Depth(Rotate(T, n, s), a) = Depth(T, a)
<1> DEFINE U == Rotate(T, n, s)
           up == T.child[Opposite(s)][n]
           low == T.child[s][n]
           mid == T.child[s][up]
           out == T.child[Opposite(s)][up]
           A == {a \in N : n \in sub[a] /\ a # n}
<1>1. T \in Trees /\ N \subseteq Key /\ NULL \notin N
  BY ShapeSays
<1>2. Shape(U, N, RotatedSub(T, sub, n, s))
  BY RotatedShape
<1>3. \A y \in Key : U.parent[y] = IF y = n THEN up ELSE IF y = up THEN T.parent[n]
                                   ELSE IF y = mid THEN n ELSE T.parent[y]
  BY <1>1, Rotated
<1>4. n \notin sub[up] /\ n \notin sub[mid] /\ up \in N /\ mid \in N \cup {NULL}
  <2>1. Turn(T, n, s, up, low, mid, out)
    BY DEF Turn
  <2> HIDE DEF up, low, mid, out
  <2>2. /\ sub[up] = {up} \cup sub[mid] \cup sub[out] /\ n # up
        /\ n \notin sub[mid] /\ n \notin sub[out]
        /\ up \in N /\ mid \in N \cup {NULL}
    BY <2>1, RotationNames
  <2> QED
    BY <2>2
<1> HIDE DEF U, up, mid
<1>5. ASSUME NEW a \in A PROVE U.parent[a] = T.parent[a] /\ T.parent[a] \in A \cup {NULL}
  <2>1. a # n /\ a # up /\ a # mid /\ a \in N /\ a \in Key /\ n \in sub[a]
    BY <1>1, <1>4
  <2>2. U.parent[a] = T.parent[a]
    BY <2>1, <1>3
  <2>3. a # T.root => T.parent[a] \in N /\ T.parent[a] \notin sub[a] /\ sub[a] \subseteq sub[T.parent[a]]
    BY <2>1, ShapeSaysAbove
  <2>4. a = T.root => T.parent[a] = NULL
    BY <2>1, ShapeSaysAbove
  <2> QED
    BY <2>1, <2>2, <2>3, <2>4
<1> HIDE DEF A
<1>6. A \in SUBSET N
  BY DEF A
<1>7. \A a \in A : Depth(U, a) = Depth(T, a)
  BY <1>2, <1>5, <1>6, SameDepth
<1> QED
  BY <1>7 DEF A, U

\* Nodes out of the tree have no pointers; colours have nothing to do with that,
LEMMA SameClean ==
    ASSUME NEW T, NEW M, Clean(T, M), NEW U, U.parent = T.parent, U.child = T.child
    PROVE  Clean(U, M)
<1> QED
  BY DEF Clean

\* and a rotation turns nodes of the tree only.
LEMMA RotatedClean ==
    ASSUME KeysOrdered, NEW T, NEW N, NEW sub, Shape(T, N, sub), NEW n \in N, NEW s \in Side,
           T.child[Opposite(s)][n] # NULL, NEW M, N \subseteq M, Clean(T, M)
    PROVE  Clean(Rotate(T, n, s), M)
<1> DEFINE up == T.child[Opposite(s)][n]
           mid == T.child[s][up]
           p == T.parent[n]
           U == Rotate(T, n, s)
<1>1. T \in Trees /\ N \subseteq Key /\ NULL \notin Key
  BY ShapeSays, RBTreeAssumption
<1>2. /\ \A y \in Key : \A d \in Side :
            U.child[d][y] = IF y = up /\ d = s THEN n
                            ELSE IF y = n /\ d = Opposite(s) THEN mid
                            ELSE IF y = p /\ d = SideOf(T, n, p) THEN up
                            ELSE T.child[d][y]
      /\ \A y \in Key :
            U.parent[y] = IF y = n THEN up ELSE IF y = up THEN p
                          ELSE IF y = mid THEN n ELSE T.parent[y]
  BY <1>1, Rotated
<1>3. up \in N /\ mid \in N \cup {NULL} /\ p \in N \cup {NULL}
  <2>1. up \in N /\ mid \in N \cup {NULL}
    <3> DEFINE low == T.child[s][n]
               out == T.child[Opposite(s)][up]
    <3>1. Turn(T, n, s, up, low, mid, out)
      BY DEF Turn
    <3> HIDE DEF up, low, mid, out
    <3> QED
      BY <3>1, RotationNames
  <2> QED
    BY <2>1, <1>1 DEF Shape
<1> HIDE DEF U, up, mid, p
<1>4. Clean(U, M)
  BY <1>1, <1>2, <1>3 DEF Clean
<1> QED
  BY <1>4 DEF U

\* What InsertMeasure amounts to.
LEMMA InsertMeasureIs ==
    ASSUME NEW T, NEW n, Depth(T, n) \in Nat
    PROVE  /\ InsertMeasure(T, n) \in Nat
           /\ InsertMeasure(T, n) =< 2 + 2 * Depth(T, n)
           /\ ~IsInner(T, n) => InsertMeasure(T, n) =< 1 + 2 * Depth(T, n)
           /\ ~RedRed(T, n) => InsertMeasure(T, n) = 0
           /\ RedRed(T, n) => InsertMeasure(T, n) >= 1 + 2 * Depth(T, n)
           /\ RedRed(T, n) /\ IsInner(T, n) => InsertMeasure(T, n) = 2 + 2 * Depth(T, n)
<1> QED
  BY DEF InsertMeasure

\* What EraseMeasure amounts to.
LEMMA EraseMeasureIs ==
    ASSUME NEW T, NEW n, NEW p, Depth(T, p) \in Nat
    PROVE  /\ EraseMeasure(T, n, p) \in Nat
           /\ ~LacksBlack(T, n) => EraseMeasure(T, n, p) = 0
           /\ LacksBlack(T, n) => EraseMeasure(T, n, p) > 0
           /\ EraseMeasure(T, n, p) =< 4 + 4 * Depth(T, p)
           /\ T.red[p] /\ ~IsRed(T, Sibling(T, n, p)) => EraseMeasure(T, n, p) =< 2
           /\ LacksBlack(T, n) /\ ~T.red[p] => EraseMeasure(T, n, p) >= 1 + 4 * Depth(T, p)
           /\ LacksBlack(T, n) /\ ~T.red[p] /\ IsRed(T, Sibling(T, n, p))
                => EraseMeasure(T, n, p) = 4 + 4 * Depth(T, p)
           /\ ~IsRed(T, Sibling(T, n, p)) /\ IsRed(T, Far(T, n, p))
                => EraseMeasure(T, n, p) =< (IF T.red[p] THEN 1 ELSE 1 + 4 * Depth(T, p))
           /\ LacksBlack(T, n) /\ ~IsRed(T, Sibling(T, n, p))
                /\ IsRed(T, Near(T, n, p)) /\ ~IsRed(T, Far(T, n, p))
                => EraseMeasure(T, n, p) = 1 + (IF T.red[p] THEN 1 ELSE 1 + 4 * Depth(T, p))
<1> DEFINE d == Depth(T, p)
<1>1. d \in Nat
  OBVIOUS
<1> HIDE DEF d
<1>2. EraseMeasure(T, n, p) =
        IF ~LacksBlack(T, n) THEN 0
        ELSE (IF T.red[p] THEN 1 ELSE 1 + 4 * d)
             + (IF IsRed(T, Sibling(T, n, p)) THEN 3
                ELSE IF IsRed(T, Near(T, n, p)) /\ ~IsRed(T, Far(T, n, p)) THEN 1 ELSE 0)
  BY DEF EraseMeasure, d
<1>3. 4 * d \in Nat
  BY <1>1
<1> QED
  BY <1>1, <1>2, <1>3 DEF d

\* Recolouring climbs two levels.
LEMMA InsertRecolourClimbs ==
    ASSUME KeysOrdered, NEW T, NEW N, NEW sub, Shape(T, N, sub), NEW bh, NEW x,
           Inserting(T, N, bh, x), RedRed(T, x), IsRed(T, Uncle(T, x))
    PROVE  LET U == InsertRecolour(T, x) IN
           /\ \A M : Clean(T, M) => Clean(U, M)
           /\ InsertMeasure(U, Grandparent(T, x)) < InsertMeasure(T, x)
<1> DEFINE par == T.parent[x]
           g == Grandparent(T, x)
           unc == Uncle(T, x)
           U1 == Paint(T, unc, FALSE)
           U2 == Paint(U1, par, FALSE)
           U3 == Paint(U2, g, TRUE)
           U == InsertRecolour(T, x)
<1>1. par \in N /\ g \in N /\ T.parent[par] = g /\ x \in N
  <2>1. par \in N /\ g \in N /\ T.parent[par] = g
    BY RedRedNames
  <2> QED
    BY <2>1 DEF Inserting
<1>2. unc \in N
  <2>1. unc \in N \cup {NULL}
    BY UncleIs
  <2> QED
    BY <2>1 DEF IsRed
<1>3. U = U3
  BY DEF InsertRecolour
<1> HIDE DEF U, par, g, unc
<1>4. U1.child = T.child /\ U1.parent = T.parent /\ Shape(U1, N, sub)
  BY <1>2, PaintedBlack, PaintedBlackShape
<1> HIDE DEF U1
<1>5. U2.child = U1.child /\ U2.parent = U1.parent /\ Shape(U2, N, sub)
  BY <1>1, <1>4, PaintedBlack, PaintedBlackShape
<1> HIDE DEF U2
<1>6. U3.child = U2.child /\ U3.parent = U2.parent /\ Shape(U3, N, sub)
  <2>0. g \in N /\ Shape(U2, N, sub)
    BY <1>1, <1>5
  <2>1. /\ U3.root = U2.root /\ U3.child = U2.child /\ U3.parent = U2.parent
        /\ \A m \in Key : (U3.red[m] <=> (m = g \/ U2.red[m]))
    BY <2>0, PaintedRed
  <2>2. Shape(U3, N, sub)
    BY <2>0, PaintedRedShape
  <2> QED
    BY <2>1, <2>2
<1> HIDE DEF U3
<1>7. U.child = T.child /\ U.parent = T.parent /\ Shape(U, N, sub)
  BY <1>3, <1>4, <1>5, <1>6
<1>8. \A M : Clean(T, M) => Clean(U, M)
  BY <1>7, SameClean
<1>9. Depth(T, x) \in Nat /\ Depth(T, g) \in Nat /\ Depth(T, x) = Depth(T, g) + 2
  <2>1. \A n \in N : Depth(T, n) \in Nat /\ Depth(T, n) = 1 + Depth(T, T.parent[n])
    BY DepthIs
  <2>2. Depth(T, x) = 1 + Depth(T, par) /\ Depth(T, par) = 1 + Depth(T, g)
    BY <1>1, <2>1 DEF par
  <2> QED
    BY <1>1, <2>1, <2>2
<1>10. Depth(U, g) = Depth(T, g)
  <2>1. \A a \in N : T.parent[a] \in N \cup {NULL}
    BY ShapeSays DEF Shape
  <2>2. \A a \in N : Depth(U, a) = Depth(T, a)
    BY <1>7, <2>1, SameDepth
  <2> QED
    BY <1>1, <2>2
<1>11. InsertMeasure(U, g) =< 2 + 2 * Depth(U, g) /\ InsertMeasure(U, g) \in Nat
  BY <1>9, <1>10, InsertMeasureIs
<1>12. InsertMeasure(T, x) >= 1 + 2 * Depth(T, x) /\ InsertMeasure(T, x) \in Nat
  BY <1>9, InsertMeasureIs
<1>13. InsertMeasure(U, g) < InsertMeasure(T, x)
  BY <1>9, <1>10, <1>11, <1>12
<1> QED
  BY <1>8, <1>13 DEF U, g

\* An inner child is none after the rotation, at the same depth.
LEMMA InsertInnerTurns ==
    ASSUME KeysOrdered, NEW T, NEW N, NEW sub, Shape(T, N, sub), NEW bh, NEW x,
           Inserting(T, N, bh, x), RedRed(T, x), IsInner(T, x)
    PROVE  LET U == InsertInner(T, x) IN
           /\ \A M : N \subseteq M /\ Clean(T, M) => Clean(U, M)
           /\ InsertMeasure(U, T.parent[x]) < InsertMeasure(T, x)
<1> DEFINE par == T.parent[x]
           g == Grandparent(T, x)
           ps == ParentSide(T, x)
           U == InsertInner(T, x)
<1>1. /\ par \in N /\ g \in N /\ T.parent[par] = g /\ par # x /\ g # par /\ g # x
      /\ ps \in Side /\ T.child[ps][g] = par /\ ps = SideFor(par, g)
      /\ par # T.root /\ x \in N
  <2>1. x \in N
    BY DEF Inserting
  <2> QED
    BY <2>1, RedRedNames
<1>2. x = T.child[Opposite(ps)][par]
  BY InsertInnerKeeps
<1>3. U = Rotate(T, par, ps)
  BY DEF InsertInner
<1> HIDE DEF U, par, g, ps
<1>4. x # NULL /\ T \in Trees /\ N \subseteq Key
  BY <1>1, ShapeSays
<1>5. Shape(U, N, RotatedSub(T, sub, par, ps))
  BY <1>1, <1>2, <1>3, <1>4, RotatedShape
<1>6. /\ U.parent[par] = x /\ U.parent[x] = g
      /\ U.child[ps][x] = par
  <2>1. /\ \A y \in Key : \A d \in Side :
              U.child[d][y] = IF y = x /\ d = ps THEN par
                              ELSE IF y = par /\ d = Opposite(ps) THEN T.child[ps][x]
                              ELSE IF y = T.parent[par] /\ d = SideOf(T, par, T.parent[par]) THEN x
                              ELSE T.child[d][y]
        /\ \A y \in Key : U.parent[y] = IF y = par THEN x ELSE IF y = x THEN T.parent[par]
                                        ELSE IF y = T.child[ps][x] THEN par ELSE T.parent[y]
    BY <1>1, <1>2, <1>3, <1>4, Rotated, SMTT(60)
  <2> QED
    BY <2>1, <1>1, <1>4
<1>7. U.child[ps][g] = x
  <2>1. \A y \in N \ {par, x} : \A d \in Side :
          U.child[d][y] = IF T.child[d][y] = par THEN x ELSE T.child[d][y]
    <3> DEFINE low == T.child[ps][par]
               mid == T.child[ps][x]
               out == T.child[Opposite(ps)][x]
    <3>1. Turn(T, par, ps, x, low, mid, out)
      BY <1>2, <1>4 DEF Turn
    <3> HIDE DEF low, mid, out
    <3> QED
      BY <3>1, <1>1, <1>3, RotatedChildren
  <2> QED
    BY <2>1, <1>1
<1>8. ~IsInner(U, par)
  <2>1. SideOf(U, par, x) = ps
    <3>1. \A d \in Side : d # ps => U.child[d][x] # par
      <4>1. U.child[ps][x] # NULL
        BY <1>1, <1>4, <1>6, RBTreeAssumption
      <4> QED
        BY <4>1, <1>1, <1>5, <1>6, ChildOfOne
    <3> QED
      BY <3>1, <1>1, <1>6 DEF SideOf, Side
  <2>2. SideOf(U, x, g) = ps
    <3>1. \A d \in Side : d # ps => U.child[d][g] # x
      BY <1>1, <1>4, <1>5, <1>7, ChildOfOne
    <3> QED
      BY <3>1, <1>1, <1>7 DEF SideOf, Side
  <2> QED
    BY <2>1, <2>2, <1>6 DEF IsInner, ParentSide, Grandparent
<1>9. \A M : N \subseteq M /\ Clean(T, M) => Clean(U, M)
  BY <1>1, <1>2, <1>3, <1>4, RotatedClean
<1>10. Depth(U, g) = Depth(T, g)
  <2>1. par \in sub[g]
    <3>1. g \in N /\ par \in N /\ T.child[ps][g] = par /\ par # NULL
      BY <1>1, <1>4, RBTreeAssumption
    <3>2. sub[g] = {g} \cup sub[par] \cup sub[T.child[Opposite(ps)][g]] /\ par \in sub[par]
      BY <3>1, <1>1, ShapeSays
    <3> QED
      BY <3>2
  <2>2. \A a \in N : par \in sub[a] /\ a # par => Depth(Rotate(T, par, ps), a) = Depth(T, a)
    BY <1>1, <1>2, <1>4, RotatedDepth
  <2> QED
    BY <2>1, <2>2, <1>1, <1>3
<1>11. /\ Depth(T, x) \in Nat /\ Depth(T, g) \in Nat /\ Depth(T, x) = Depth(T, g) + 2
       /\ Depth(U, par) \in Nat /\ Depth(U, par) = Depth(U, g) + 2
  <2>1. \A n \in N : Depth(T, n) \in Nat /\ Depth(T, n) = 1 + Depth(T, T.parent[n])
    BY DepthIs
  <2>2. \A n \in N : Depth(U, n) \in Nat /\ Depth(U, n) = 1 + Depth(U, U.parent[n])
    BY <1>5, DepthIs
  <2>3. Depth(T, x) = 1 + Depth(T, par) /\ Depth(T, par) = 1 + Depth(T, g)
    BY <1>1, <2>1 DEF par
  <2>4. Depth(U, par) = 1 + Depth(U, x) /\ Depth(U, x) = 1 + Depth(U, g)
    BY <1>1, <1>6, <2>2
  <2> QED
    BY <1>1, <1>10, <2>1, <2>2, <2>3, <2>4
<1>12. InsertMeasure(U, par) =< 1 + 2 * Depth(U, par) /\ InsertMeasure(U, par) \in Nat
  BY <1>8, <1>11, InsertMeasureIs
<1>13. InsertMeasure(T, x) = 2 + 2 * Depth(T, x)
  BY <1>11, InsertMeasureIs
<1>14. InsertMeasure(U, par) < InsertMeasure(T, x)
  BY <1>10, <1>11, <1>12, <1>13
<1> QED
  BY <1>9, <1>14 DEF U, par

\* The last rotation of an insertion ends the loop.
LEMMA InsertOuterEnds ==
    ASSUME KeysOrdered, NEW T, NEW N, NEW sub, Shape(T, N, sub), NEW bh, NEW x,
           Inserting(T, N, bh, x), RedRed(T, x), ~IsInner(T, x), ~IsRed(T, Uncle(T, x))
    PROVE  LET U == InsertOuter(T, x) IN
           /\ \A M : N \subseteq M /\ Clean(T, M) => Clean(U, M)
           /\ InsertMeasure(U, x) < InsertMeasure(T, x)
<1> DEFINE par == T.parent[x]
           g == Grandparent(T, x)
           ps == ParentSide(T, x)
           T1 == Dyed(T, par, g)
           U == InsertOuter(T, x)
<1>1. /\ par \in N /\ g \in N /\ g # par
      /\ ps \in Side /\ T.child[ps][g] = par /\ x \in N
  <2>1. x \in N
    BY DEF Inserting
  <2> QED
    BY <2>1, RedRedNames
<1>2. U = Rotate(T1, g, Opposite(ps))
  BY DEF InsertOuter, Dyed
<1>3. ~RedRed(U, x) /\ \E sub1 : Shape(U, N, sub1)
  BY InsertOuterKeeps
<1>4. Opposite(ps) \in Side /\ Opposite(Opposite(ps)) = ps
  BY <1>1, Opposites
<1> HIDE DEF U, par, g, ps
<1>5. T1.child = T.child /\ T1.parent = T.parent /\ Shape(T1, N, sub)
  BY <1>1, PaintedPair, PaintedPairShape
<1> HIDE DEF T1
<1>6. \A M : N \subseteq M /\ Clean(T, M) => Clean(U, M)
  <2> SUFFICES ASSUME NEW M, N \subseteq M, Clean(T, M) PROVE Clean(U, M)
    OBVIOUS
  <2>1. Clean(T1, M)
    BY <1>5, SameClean
  <2>2. T1.child[Opposite(Opposite(ps))][g] # NULL
    BY <1>1, <1>4, <1>5, ShapeSays
  <2> QED
    BY <2>1, <2>2, <1>1, <1>2, <1>4, <1>5, RotatedClean
<1>7. Depth(T, x) \in Nat /\ Depth(U, x) \in Nat
  BY <1>1, <1>3, DepthIs
<1>8. InsertMeasure(U, x) = 0 /\ InsertMeasure(T, x) >= 1 + 2 * Depth(T, x)
  BY <1>3, <1>7, InsertMeasureIs
<1>9. InsertMeasure(T, x) \in Nat
  BY <1>7, InsertMeasureIs
<1>10. InsertMeasure(U, x) < InsertMeasure(T, x)
  BY <1>7, <1>8, <1>9
<1> QED
  BY <1>6, <1>10 DEF U

\* A red sibling: the parent is red afterwards.
LEMMA EraseRedSiblingEnds ==
    ASSUME KeysOrdered, NEW T, NEW N, NEW sub, Shape(T, N, sub), NEW bh, NEW x, NEW p,
           Lacking(T, N, bh, x, p), LacksBlack(T, x), IsRed(T, Sibling(T, x, p))
    PROVE  LET U == EraseRedSibling(T, x, p) IN
           /\ \A M : N \subseteq M /\ Clean(T, M) => Clean(U, M)
           /\ EraseMeasure(U, x, p) < EraseMeasure(T, x, p)
<1> DEFINE s == SideOf(T, x, p)
           sib == Sibling(T, x, p)
           T1 == Dyed(T, sib, p)
           U == EraseRedSibling(T, x, p)
<1>1. /\ p \in N /\ s \in Side /\ sib = T.child[Opposite(s)][p] /\ sib \in N /\ sib # p
  BY LackingSays
<1>2. U = Rotate(T1, p, s)
  BY DEF EraseRedSibling, Dyed
<1>3. /\ \E sub1 : Shape(U, N, sub1)
      /\ U.red[p] /\ ~T.red[p]
      /\ LacksBlack(U, x) => ~IsRed(U, Sibling(U, x, p))
  BY EraseRedSiblingKeeps
<1>4. IsRed(T, sib)
  OBVIOUS
<1> HIDE DEF U, sib, s
<1>5. T1.child = T.child /\ T1.parent = T.parent /\ Shape(T1, N, sub)
  BY <1>1, PaintedPair, PaintedPairShape
<1> HIDE DEF T1
<1>6. \A M : N \subseteq M /\ Clean(T, M) => Clean(U, M)
  <2> SUFFICES ASSUME NEW M, N \subseteq M, Clean(T, M) PROVE Clean(U, M)
    OBVIOUS
  <2>1. Clean(T1, M)
    BY <1>5, SameClean
  <2>2. T1.child[Opposite(s)][p] # NULL
    BY <1>1, <1>5, ShapeSays
  <2> QED
    BY <2>1, <2>2, <1>1, <1>2, <1>5, RotatedClean
<1>7. Depth(T, p) \in Nat /\ Depth(U, p) \in Nat
  BY <1>1, <1>3, DepthIs
<1>8. EraseMeasure(T, x, p) = 4 + 4 * Depth(T, p)
  BY <1>3, <1>4, <1>7, EraseMeasureIs DEF sib
<1>9. EraseMeasure(U, x, p) =< 2 /\ EraseMeasure(U, x, p) \in Nat
  <2>1. EraseMeasure(U, x, p) \in Nat /\ (~LacksBlack(U, x) => EraseMeasure(U, x, p) = 0)
        /\ (U.red[p] /\ ~IsRed(U, Sibling(U, x, p)) => EraseMeasure(U, x, p) =< 2)
    BY <1>7, EraseMeasureIs
  <2> QED
    BY <2>1, <1>3
<1>10. EraseMeasure(U, x, p) < EraseMeasure(T, x, p)
  BY <1>7, <1>8, <1>9
<1> QED
  BY <1>6, <1>10 DEF U

\* Black nephews: the loop climbs, and ends under a red parent.
LEMMA EraseRecolourClimbs ==
    ASSUME KeysOrdered, NEW T, NEW N, NEW sub, Shape(T, N, sub), NEW bh, NEW x, NEW p,
           Lacking(T, N, bh, x, p), LacksBlack(T, x), ~IsRed(T, Sibling(T, x, p)),
           ~IsRed(T, Near(T, x, p)), ~IsRed(T, Far(T, x, p))
    PROVE  LET U == EraseRecolour(T, x, p) IN
           /\ \A M : Clean(T, M) => Clean(U, M)
           /\ EraseMeasure(U, p, T.parent[p]) < EraseMeasure(T, x, p)
<1> DEFINE sib == Sibling(T, x, p)
           q == T.parent[p]
           U == EraseRecolour(T, x, p)
<1>1. p \in N /\ sib \in N /\ sib # p
  BY LackingSays
<1>2. U.parent = T.parent /\ U.child = T.child /\ Shape(U, N, sub)
  BY EraseRecolourKeeps
<1>3. U = Paint(T, sib, TRUE)
  BY DEF EraseRecolour
<1> HIDE DEF sib, U
<1>4. \A M : Clean(T, M) => Clean(U, M)
  BY <1>2, SameClean
<1>5. U.root = T.root /\ (U.red[p] <=> T.red[p]) /\ p # NULL
  <2> DEFINE W == Paint(T, sib, TRUE)
  <2>1. sib \in N
    BY <1>1
  <2>2. /\ W.root = T.root /\ W.child = T.child /\ W.parent = T.parent
        /\ \A m \in Key : (W.red[m] <=> (m = sib \/ T.red[m]))
    BY <2>1, PaintedRed
  <2>3. p \in Key /\ p # NULL
    BY <1>1, ShapeSays
  <2> QED
    BY <2>2, <2>3, <1>1, <1>3
<1>6. /\ p # T.root => q \in N
      /\ Depth(T, p) \in Nat
      /\ q \in N => Depth(T, q) \in Nat /\ Depth(T, p) = 1 + Depth(T, q)
      /\ Depth(U, NULL) = 0
  <2>1. \A n \in N : Depth(T, n) \in Nat /\ Depth(T, n) = 1 + Depth(T, T.parent[n])
    BY DepthIs
  <2>2. Depth(U, NULL) = 0
    BY <1>2, DepthIs
  <2>3. p # T.root => q \in N
    BY <1>1, ShapeSaysAbove
  <2> QED
    BY <2>1, <2>2, <2>3, <1>1
<1>7. \A a \in N : Depth(U, a) = Depth(T, a)
  <2>1. \A a \in N : T.parent[a] \in N \cup {NULL}
    BY ShapeSays DEF Shape
  <2> QED
    BY <1>2, <2>1, SameDepth
<1>8. EraseMeasure(T, x, p) > 0 /\ EraseMeasure(T, x, p) \in Nat
      /\ (~T.red[p] => EraseMeasure(T, x, p) >= 1 + 4 * Depth(T, p))
  BY <1>6, EraseMeasureIs
<1> HIDE DEF q
<1>9. CASE T.red[p] \/ p = T.root
  <2>1. ~LacksBlack(U, p)
    BY <1>5, <1>9 DEF LacksBlack, IsRed
  <2>2. EraseMeasure(U, p, q) = 0
    BY <2>1 DEF EraseMeasure
  <2> QED
    BY <2>2, <1>4, <1>8 DEF U, q
<1>10. CASE ~(T.red[p] \/ p = T.root)
  <2>1. q \in N /\ Depth(U, q) = Depth(T, q) /\ Depth(T, q) \in Nat /\ Depth(T, p) = 1 + Depth(T, q)
    BY <1>6, <1>7, <1>10
  <2>2. EraseMeasure(U, p, q) =< 4 + 4 * Depth(U, q) /\ EraseMeasure(U, p, q) \in Nat
    BY <2>1, EraseMeasureIs
  <2>3. EraseMeasure(U, p, q) < EraseMeasure(T, x, p)
    BY <2>1, <2>2, <1>8, <1>10
  <2> QED
    BY <2>3, <1>4 DEF U, q
<1> QED
  BY <1>9, <1>10

\* A red near nephew: the far one is red afterwards.
LEMMA EraseNearTurns ==
    ASSUME KeysOrdered, NEW T, NEW N, NEW sub, Shape(T, N, sub), NEW bh, NEW x, NEW p,
           Lacking(T, N, bh, x, p), LacksBlack(T, x), ~IsRed(T, Sibling(T, x, p)),
           IsRed(T, Near(T, x, p)), ~IsRed(T, Far(T, x, p))
    PROVE  LET U == EraseNear(T, x, p) IN
           /\ \A M : N \subseteq M /\ Clean(T, M) => Clean(U, M)
           /\ EraseMeasure(U, x, p) < EraseMeasure(T, x, p)
<1> DEFINE s == SideOf(T, x, p)
           o == Opposite(s)
           sib == Sibling(T, x, p)
           near == Near(T, x, p)
           T1 == Dyed(T, near, sib)
           U == EraseNear(T, x, p)
<1>1. /\ \E sub1 : Shape(U, N, sub1)
      /\ U = Rotate(T1, sib, o)
      /\ sib \in N /\ o \in Side /\ T.child[Opposite(o)][sib] = near
      /\ near \in N /\ near # sib /\ T.parent[sib] = p /\ p \in N
      /\ (U.red[p] <=> T.red[p])
      /\ (LacksBlack(U, x) => ~IsRed(U, Sibling(U, x, p)) /\ IsRed(U, Far(U, x, p)))
  BY EraseNearKeeps
<1>2. sib = T.child[o][p] /\ sib # p
  BY LackingSays
<1>3. IsRed(T, near) /\ ~IsRed(T, sib)
  OBVIOUS
<1> HIDE DEF U, sib, near, s, o
<1>4. T1.child = T.child /\ T1.parent = T.parent /\ Shape(T1, N, sub)
  BY <1>1, PaintedPair, PaintedPairShape
<1> HIDE DEF T1
<1>5. T1.child[Opposite(o)][sib] # NULL
  BY <1>1, <1>4, ShapeSays
<1>6. \A M : N \subseteq M /\ Clean(T, M) => Clean(U, M)
  <2> SUFFICES ASSUME NEW M, N \subseteq M, Clean(T, M) PROVE Clean(U, M)
    OBVIOUS
  <2>1. Clean(T1, M)
    BY <1>4, SameClean
  <2> QED
    BY <2>1, <1>1, <1>4, <1>5, RotatedClean
<1>7. Depth(U, p) = Depth(T, p)
  <2>1. \A a \in N : T.parent[a] \in N \cup {NULL}
    BY ShapeSays DEF Shape
  <2>2. \A a \in N : Depth(T1, a) = Depth(T, a)
    BY <1>4, <2>1, SameDepth
  <2>3. sib \in sub[p]
    <3>1. sub[p] = {p} \cup sub[sib] \cup sub[T.child[Opposite(o)][p]] /\ sib \in sub[sib]
      BY <1>1, <1>2, ShapeSays
    <3> QED
      BY <3>1
  <2>4. \A a \in N : sib \in sub[a] /\ a # sib => Depth(Rotate(T1, sib, o), a) = Depth(T1, a)
    BY <1>1, <1>4, <1>5, RotatedDepth
  <2> QED
    BY <2>2, <2>3, <2>4, <1>1, <1>2
<1>8. Depth(T, p) \in Nat
  BY <1>1, DepthIs
<1>9. EraseMeasure(T, x, p) = 1 + (IF T.red[p] THEN 1 ELSE 1 + 4 * Depth(T, p))
  BY <1>3, <1>8, EraseMeasureIs DEF sib, near
<1>10. /\ EraseMeasure(U, x, p) \in Nat
       /\ EraseMeasure(U, x, p) =< (IF U.red[p] THEN 1 ELSE 1 + 4 * Depth(U, p))
  <2>1. Depth(U, p) \in Nat
    BY <1>7, <1>8
  <2>2. /\ EraseMeasure(U, x, p) \in Nat
        /\ ~LacksBlack(U, x) => EraseMeasure(U, x, p) = 0
        /\ ~IsRed(U, Sibling(U, x, p)) /\ IsRed(U, Far(U, x, p))
            => EraseMeasure(U, x, p) =< (IF U.red[p] THEN 1 ELSE 1 + 4 * Depth(U, p))
    BY <2>1, EraseMeasureIs
  <2> QED
    BY <2>1, <2>2, <1>1
<1>11. EraseMeasure(U, x, p) < EraseMeasure(T, x, p)
  BY <1>1, <1>7, <1>8, <1>9, <1>10
<1> QED
  BY <1>6, <1>11 DEF U

\* A red far nephew: the loop ends at the root.
LEMMA EraseFarEnds ==
    ASSUME KeysOrdered, NEW T, NEW N, NEW sub, Shape(T, N, sub), NEW bh, NEW x, NEW p,
           Lacking(T, N, bh, x, p), LacksBlack(T, x), ~IsRed(T, Sibling(T, x, p)), IsRed(T, Far(T, x, p))
    PROVE  LET U == EraseFar(T, x, p) IN
           /\ \A M : N \subseteq M /\ Clean(T, M) => Clean(U, M)
           /\ EraseMeasure(U, U.root, NULL) < EraseMeasure(T, x, p)
<1> DEFINE s == SideOf(T, x, p)
           sib == Sibling(T, x, p)
           far == Far(T, x, p)
           T1 == Spread(T, sib, p, far)
           U == EraseFar(T, x, p)
<1>1. /\ p \in N /\ s \in Side /\ sib = T.child[Opposite(s)][p] /\ sib \in N /\ sib # p
  BY LackingSays
<1>2. far \in N
  <2>1. far = T.child[Opposite(s)][sib]
    BY DEF Far
  <2>2. far \in N \cup {NULL}
    BY <2>1, <1>1, Opposites, ShapeSays
  <2> QED
    BY <2>2 DEF IsRed
<1>3. U = Rotate(T1, p, s)
  BY DEF EraseFar, Spread
<1> HIDE DEF U, sib, far, s
<1>4. T1.child = T.child /\ T1.parent = T.parent /\ T1.root = T.root /\ T1 \in Trees
  BY <1>1, <1>2, SpreadIs
<1> HIDE DEF T1
<1>5. Shape(T1, N, sub)
  BY <1>4, SameShape
<1>6. \A M : N \subseteq M /\ Clean(T, M) => Clean(U, M)
  <2> SUFFICES ASSUME NEW M, N \subseteq M, Clean(T, M) PROVE Clean(U, M)
    OBVIOUS
  <2>1. Clean(T1, M)
    BY <1>4, SameClean
  <2>2. T1.child[Opposite(s)][p] # NULL
    BY <1>1, <1>4, ShapeSays
  <2> QED
    BY <2>1, <2>2, <1>1, <1>3, <1>5, RotatedClean
<1>7. EraseMeasure(U, U.root, NULL) = 0
  BY DEF EraseMeasure, LacksBlack
<1>8. EraseMeasure(T, x, p) > 0
  <2>1. Depth(T, p) \in Nat
    BY <1>1, DepthIs
  <2> QED
    BY <2>1, EraseMeasureIs
<1> QED
  BY <1>6, <1>7, <1>8 DEF U

(***************************************************************************)
(* One tree under the hands of one thread: what each step of a call makes  *)
(* of it.                                                                  *)
(***************************************************************************)

\* The empty tree is whole.
LEMMA EmptyIsWhole ==
    /\ \E sub : Shape(EmptyTree, {}, sub)
    /\ \E B : Whole(EmptyTree, {}, B)
    /\ Clean(EmptyTree, {})
<1> DEFINE sub == [r \in Link |-> {}]
           B == [r \in Link |-> 0]
           T == EmptyTree
<1>1. /\ T \in Trees /\ T.root = NULL
      /\ \A n \in Key : T.parent[n] = NULL /\ \A d \in Side : T.child[d][n] = NULL
  BY DEF EmptyTree, Trees, Link
<1> HIDE DEF T
<1>2. Shape(T, {}, sub)
  <2>1. NULL \in Link /\ IsFiniteSet({})
    BY FS_EmptySet DEF Link
  <2> QED
    BY <2>1, <1>1 DEF Shape
<1>3. Whole(T, {}, B)
  <2>1. NULL \in Link
    BY DEF Link
  <2> QED
    BY <2>1, <1>1 DEF Whole, InsertColours, Heights, IsRed
<1>4. Clean(T, {})
  BY <1>1 DEF Clean
<1> QED
  BY <1>2, <1>3, <1>4 DEF T

\* A new leaf is a node.
LEMMA LinkedClean ==
    ASSUME KeysOrdered, NEW T, NEW N, NEW sub, Shape(T, N, sub), NEW n \in Key, n \notin N, Clean(T, N)
    PROVE  Clean(rb_link_node(T, n, LinkParent(T, n)), N \cup {n})
<1> DEFINE p == LinkParent(T, n)
           U == rb_link_node(T, n, p)
<1>1. T \in Trees /\ N \subseteq Key /\ NULL \notin Key
  BY ShapeSays, RBTreeAssumption
<1>2. p \in N \cup {NULL}
  BY LinkedShape
<1> HIDE DEF p
<1>3. p \in Link
  BY <1>1, <1>2 DEF Link
<1>4. /\ \A y \in Key : U.parent[y] = IF y = n THEN p ELSE T.parent[y]
      /\ \A y \in Key : \A d \in Side :
            U.child[d][y] = IF y = n THEN NULL
                            ELSE IF y = p /\ d = SideFor(n, p) THEN n ELSE T.child[d][y]
  BY <1>1, <1>3, LinkWrites
<1> HIDE DEF U
<1>5. Clean(U, N \cup {n})
  BY <1>1, <1>2, <1>4 DEF Clean
<1> QED
  BY <1>5 DEF U, p

\* Freeing a node that is out of the tree changes nothing in it.
LEMMA ForgottenKeeps ==
    ASSUME NEW T, NEW N, NEW sub, Shape(T, N, sub), NEW n \in Key, n \notin N, Clean(T, N \cup {n}),
           NEW bh, Whole(T, N, bh)
    PROVE  LET U == Forget(T, n) IN
           Shape(U, N, sub) /\ Whole(U, N, bh) /\ Clean(U, N)
<1> DEFINE U == Forget(T, n)
<1>1. T \in Trees /\ N \subseteq Key /\ NULL \notin Key /\ NULL \notin N
  BY ShapeSays, RBTreeAssumption
<1>2. /\ U \in Trees /\ U.root = T.root
      /\ \A y \in Key : U.parent[y] = IF y = n THEN NULL ELSE T.parent[y]
      /\ \A y \in Key : U.red[y] <=> y # n /\ T.red[y]
      /\ \A y \in Key : \A d \in Side : U.child[d][y] = IF y = n THEN NULL ELSE T.child[d][y]
  <2>1. U \in Trees
    BY <1>1 DEF Forget, Trees, Link, Side
  <2>2. U.root = T.root
    BY <1>1 DEF Forget, Trees
  <2>3. \A y \in Key : U.parent[y] = IF y = n THEN NULL ELSE T.parent[y]
    BY <1>1 DEF Forget, Trees
  <2>4. \A y \in Key : U.red[y] <=> y # n /\ T.red[y]
    BY <1>1 DEF Forget, Trees
  <2>5. \A y \in Key : \A d \in Side : U.child[d][y] = IF y = n THEN NULL ELSE T.child[d][y]
    BY <1>1 DEF Forget, Trees, Side
  <2> QED
    BY <2>1, <2>2, <2>3, <2>4, <2>5
<1> HIDE DEF U
<1>3. \A y \in N : /\ y # n /\ y \in Key
                   /\ U.parent[y] = T.parent[y] /\ (U.red[y] <=> T.red[y])
                   /\ \A d \in Side : U.child[d][y] = T.child[d][y]
  BY <1>1, <1>2
<1>4. /\ sub \in [Link -> SUBSET Key] /\ sub[NULL] = {} /\ sub[T.root] = N
      /\ IsFiniteSet(N) /\ (T.root # NULL => T.root \in N /\ T.parent[T.root] = NULL)
      /\ \A y \in Key : /\ T.parent[y] \in N \cup {NULL}
                        /\ \A d \in Side : T.child[d][y] \in N \cup {NULL}
  BY DEF Shape
<1>5. \A y \in N : Placed(U, N, sub, y)
  <2> SUFFICES ASSUME NEW y \in N PROVE Placed(U, N, sub, y)
    OBVIOUS
  <2>1. Placed(T, N, sub, y)
    BY DEF Shape
  <2>2. /\ \A d \in Side : U.child[d][y] = T.child[d][y]
        /\ \A d \in Side : T.child[d][y] # NULL => U.parent[T.child[d][y]] = T.parent[T.child[d][y]]
        /\ U.child["left"][y] = T.child["left"][y] /\ U.child["right"][y] = T.child["right"][y]
    BY <1>3, <1>4, <1>1 DEF Side
  <2>3. y # T.root => U.child[SideFor(y, T.parent[y])][T.parent[y]] = T.child[SideFor(y, T.parent[y])][T.parent[y]]
    <3>1. SideFor(y, T.parent[y]) \in Side
      BY DEF SideFor, Side
    <3>2. y # T.root => T.parent[y] \in N
      BY <2>1 DEF Placed
    <3> QED
      BY <3>1, <3>2, <1>3
  <2>4. U.parent[y] = T.parent[y] /\ U.root = T.root
    BY <1>2, <1>3
  <2> QED
    BY <2>1, <2>2, <2>3, <2>4 DEF Placed
<1>6. Shape(U, N, sub)
  BY <1>1, <1>2, <1>3, <1>4, <1>5 DEF Shape
<1>7. \A y \in N \cup {NULL} : IsRed(U, y) <=> IsRed(T, y)
  BY <1>3 DEF IsRed
<1>8. InsertColours(U, N, NULL)
  <2>1. InsertColours(T, N, NULL)
    BY DEF Whole
  <2>2. U.root = T.root /\ T.root \in N \cup {NULL} /\ \A y \in N : T.parent[y] \in N \cup {NULL}
    BY <1>1, <1>2, <1>4
  <2> QED
    BY <2>1, <2>2, <1>3, <1>7 DEF InsertColours
<1>9. Heights(U, N, bh, NULL, "left")
  <2>1. Heights(T, N, bh, NULL, "left")
    BY DEF Whole
  <2>2. \A y \in N : Black(U, y) = Black(T, y)
    BY <1>3 DEF Black
  <2> QED
    BY <2>1, <2>2, <1>3 DEF Heights
<1>10. Clean(U, N)
  BY <1>2 DEF Clean
<1> QED
  BY <1>6, <1>8, <1>9, <1>10 DEF Whole, U

\* The last step of each loop paints one node black, if any.
LEMMA PaintedClean ==
    ASSUME NEW T, NEW N, NEW sub, Shape(T, N, sub), NEW n \in N \cup {NULL}, NEW M, Clean(T, M)
    PROVE  Clean(Paint(T, n, FALSE), M)
<1>1. T \in Trees /\ n \in Link
  BY ShapeSays DEF Link
<1>2. Paint(T, n, FALSE).parent = T.parent /\ Paint(T, n, FALSE).child = T.child
  BY <1>1, Painted
<1> HIDE DEF Paint
<1> QED
  BY <1>2, SameClean

\* What the thread that holds a tree's lock is at: stage, the key it removes, the node and the
\* parent its loop is at.  Gone: the node that is out of the tree and not yet freed.
Gone(work) == IF work.stage \in {"erase_color", "free"} THEN {work.key} ELSE {}

\* The tree T of the allocated nodes M, its bucket_size, and the work in progress.
Tended(T, M, size, work) ==
    LET N == M \ Gone(work) IN
    /\ \E sub : Shape(T, N, sub)
    /\ Clean(T, M)
    /\ Gone(work) \subseteq M
    /\ size = IF work.stage = "insert_color" THEN Cardinality(M) - 1 ELSE Cardinality(M)
    /\ work.stage = "insert_color" => \E bh : Inserting(T, N, bh, work.node)
    /\ work.stage = "erase_color" => \E bh : Lacking(T, N, bh, work.node, work.parent)
    /\ work.stage \notin {"insert_color", "erase_color"} => \E bh : Whole(T, N, bh)

Resting(work) == work.stage \notin {"insert_color", "erase_color", "free"}

\* A tree at rest.
LEMMA RestIs ==
    ASSUME NEW T, NEW M, NEW size, NEW work, Resting(work)
    PROVE  Tended(T, M, size, work) <=>
            /\ \E sub : Shape(T, M, sub)
            /\ Clean(T, M)
            /\ size = Cardinality(M)
            /\ \E bh : Whole(T, M, bh)
<1>1. Gone(work) = {} /\ M \ {} = M
  BY DEF Gone, Resting
<1> QED
  BY <1>1 DEF Tended, Resting

\* rb_link_node: the new node is counted when the colours are right again.
LEMMA LinkTends ==
    ASSUME KeysOrdered, NEW T, NEW M, NEW size, NEW work, Tended(T, M, size, work), Resting(work),
           NEW k \in Key, k \notin M, NEW work1, work1.stage = "insert_color", work1.node = k
    PROVE  /\ Tended(rb_link_node(T, k, LinkParent(T, k)), M \cup {k}, size, work1)
           /\ IsFiniteSet(M)
<1> DEFINE U == rb_link_node(T, k, LinkParent(T, k))
<1>1. PICK sub : Shape(T, M, sub)
  BY RestIs
<1>2. PICK bh : Whole(T, M, bh)
  BY RestIs
<1>3. Clean(T, M) /\ size = Cardinality(M)
  BY RestIs
<1>4. \E sub1 : Shape(U, M \cup {k}, sub1)
  BY <1>1, LinkedShape
<1>5. \E B : Inserting(U, M \cup {k}, B, k)
  BY <1>1, <1>2, LinkedColours
<1>6. Clean(U, M \cup {k})
  BY <1>1, <1>3, LinkedClean
<1>7. IsFiniteSet(M)
  BY <1>1 DEF Shape
<1>8. size = Cardinality(M \cup {k}) - 1
  <2>1. Cardinality(M) \in Nat
    BY <1>7, FS_CardinalityType
  <2>2. Cardinality(M \cup {k}) = Cardinality(M) + 1
    BY <1>7, FS_AddElement
  <2> QED
    BY <2>1, <2>2, <1>3
<1>9. Gone(work1) = {} /\ (M \cup {k}) \ {} = M \cup {k}
  BY DEF Gone
<1> HIDE DEF U
<1>10. Tended(U, M \cup {k}, size, work1)
  BY <1>4, <1>5, <1>6, <1>8, <1>9 DEF Tended
<1> QED
  BY <1>7, <1>10 DEF U

\* An iteration of rb_insert_color.
LEMMA InsertTends ==
    ASSUME KeysOrdered, NEW T, NEW M, NEW size, NEW work, Tended(T, M, size, work),
           work.stage = "insert_color", NEW U, NEW work1, work1.stage = "insert_color",
           RedRed(T, work.node),
           \/ /\ IsRed(T, Uncle(T, work.node))
              /\ U = InsertRecolour(T, work.node) /\ work1.node = Grandparent(T, work.node)
           \/ /\ ~IsRed(T, Uncle(T, work.node)) /\ IsInner(T, work.node)
              /\ U = InsertInner(T, work.node) /\ work1.node = T.parent[work.node]
           \/ /\ ~IsRed(T, Uncle(T, work.node)) /\ ~IsInner(T, work.node)
              /\ U = InsertOuter(T, work.node) /\ work1.node = work.node
    PROVE  /\ Tended(U, M, size, work1)
           /\ InsertMeasure(U, work1.node) < InsertMeasure(T, work.node)
<1> DEFINE x == work.node
<1>1. Gone(work) = {} /\ Gone(work1) = {} /\ M \ {} = M
  BY DEF Gone
<1>2. PICK sub : Shape(T, M, sub)
  BY <1>1 DEF Tended
<1>3. PICK bh : Inserting(T, M, bh, x)
  BY <1>1 DEF Tended
<1>4. Clean(T, M) /\ size = Cardinality(M) - 1
  BY DEF Tended
<1>5. SUFFICES /\ \E sub1 : Shape(U, M, sub1)
               /\ \E B : Inserting(U, M, B, work1.node)
               /\ Clean(U, M)
               /\ InsertMeasure(U, work1.node) < InsertMeasure(T, x)
  BY <1>1, <1>4 DEF Tended
<1> HIDE DEF x
<1>6. RedRed(T, x)
  BY DEF x
<1>7. CASE /\ IsRed(T, Uncle(T, x))
           /\ U = InsertRecolour(T, x) /\ work1.node = Grandparent(T, x)
  <2>1. Shape(U, M, sub) /\ \E B : Inserting(U, M, B, work1.node)
    BY <1>2, <1>3, <1>6, <1>7, InsertRecolourKeeps
  <2>2. Clean(U, M) /\ InsertMeasure(U, work1.node) < InsertMeasure(T, x)
    BY <1>2, <1>3, <1>4, <1>6, <1>7, InsertRecolourClimbs
  <2> QED
    BY <2>1, <2>2
<1>8. CASE /\ IsInner(T, x)
           /\ U = InsertInner(T, x) /\ work1.node = T.parent[x]
  <2>1. (\E sub1 : Shape(U, M, sub1)) /\ Inserting(U, M, bh, work1.node)
    BY <1>2, <1>3, <1>6, <1>8, InsertInnerKeeps
  <2>2. Clean(U, M) /\ InsertMeasure(U, work1.node) < InsertMeasure(T, x)
    BY <1>2, <1>3, <1>4, <1>6, <1>8, InsertInnerTurns
  <2> QED
    BY <2>1, <2>2
<1>9. CASE /\ ~IsRed(T, Uncle(T, x)) /\ ~IsInner(T, x)
           /\ U = InsertOuter(T, x) /\ work1.node = x
  <2>1. (\E sub1 : Shape(U, M, sub1)) /\ \E B : Inserting(U, M, B, work1.node)
    BY <1>2, <1>3, <1>6, <1>9, InsertOuterKeeps
  <2>2. Clean(U, M) /\ InsertMeasure(U, work1.node) < InsertMeasure(T, x)
    BY <1>2, <1>3, <1>4, <1>6, <1>9, InsertOuterEnds
  <2> QED
    BY <2>1, <2>2
<1> QED
  BY <1>7, <1>8, <1>9 DEF x

\* rb_insert_color ends and the node is counted.
LEMMA InsertDoneTends ==
    ASSUME NEW T, NEW M, NEW size \in Int, NEW work, Tended(T, M, size, work),
           work.stage = "insert_color", ~RedRed(T, work.node), NEW work1, Resting(work1)
    PROVE  Tended(Paint(T, T.root, FALSE), M, size + 1, work1)
<1> DEFINE U == Paint(T, T.root, FALSE)
<1>1. Gone(work) = {} /\ M \ {} = M
  BY DEF Gone
<1>2. PICK sub : Shape(T, M, sub)
  BY <1>1 DEF Tended
<1>3. PICK bh : Inserting(T, M, bh, work.node)
  BY <1>1 DEF Tended
<1>4. Clean(T, M) /\ size = Cardinality(M) - 1
  BY DEF Tended
<1>5. Shape(U, M, sub) /\ \E B : Whole(U, M, B)
  BY <1>2, <1>3, InsertDoneKeeps
<1>6. Clean(U, M)
  <2>1. T.root \in M \cup {NULL}
    BY <1>2 DEF Shape
  <2> QED
    BY <2>1, <1>2, <1>4, PaintedClean
<1>7. size + 1 = Cardinality(M)
  <2>1. Cardinality(M) \in Nat
    BY <1>2, FS_CardinalityType DEF Shape
  <2> QED
    BY <2>1, <1>4
<1> HIDE DEF U
<1>8. Tended(U, M, size + 1, work1)
  BY <1>5, <1>6, <1>7, RestIs
<1> QED
  BY <1>8 DEF U

\* rb_erase: a red node leaves a whole tree, a black one may not.
LEMMA EraseTends ==
    ASSUME KeysOrdered, NEW T, NEW M, NEW size, NEW work, Tended(T, M, size, work), Resting(work),
           NEW k \in M, NEW work1, work1.key = k,
           work1.stage = (IF rb_erase(T, k).red THEN "free" ELSE "erase_color"),
           work1.node = rb_erase(T, k).node, work1.parent = rb_erase(T, k).parent
    PROVE  Tended(rb_erase(T, k).tree, M, size, work1)
<1> DEFINE E == rb_erase(T, k)
           U == E.tree
<1>1. PICK sub : Shape(T, M, sub)
  BY RestIs
<1>2. PICK bh : Whole(T, M, bh)
  BY RestIs
<1>3. Clean(T, M) /\ size = Cardinality(M)
  BY RestIs
<1>4. /\ \E sub1 : Shape(U, M \ {k}, sub1)
      /\ E.red \in BOOLEAN
      /\ E.red => \E B : Whole(U, M \ {k}, B)
      /\ ~E.red => \E B : Lacking(U, M \ {k}, B, E.node, E.parent)
      /\ Clean(U, M)
  BY <1>1, <1>2, <1>3, EraseKeeps
<1>5. /\ work1.stage = (IF E.red THEN "free" ELSE "erase_color")
      /\ work1.node = E.node /\ work1.parent = E.parent
  OBVIOUS
<1> HIDE DEF E
<1>6. Gone(work1) = {k}
  BY <1>5 DEF Gone
<1>7. Tended(U, M, size, work1)
  BY <1>3, <1>4, <1>5, <1>6 DEF Tended
<1> QED
  BY <1>7 DEF E

\* An iteration of __rb_erase_color.
LEMMA EraseColorTends ==
    ASSUME KeysOrdered, NEW T, NEW M, NEW size, NEW work, Tended(T, M, size, work),
           work.stage = "erase_color", NEW U, NEW work1, work1.stage = "erase_color",
           work1.key = work.key, NEW x, x = work.node, NEW p, p = work.parent,
           LacksBlack(T, x),
           \/ /\ IsRed(T, Sibling(T, x, p))
              /\ U = EraseRedSibling(T, x, p) /\ work1.node = x /\ work1.parent = p
           \/ /\ ~IsRed(T, Sibling(T, x, p)) /\ ~IsRed(T, Near(T, x, p)) /\ ~IsRed(T, Far(T, x, p))
              /\ U = EraseRecolour(T, x, p) /\ work1.node = p /\ work1.parent = T.parent[p]
           \/ /\ ~IsRed(T, Sibling(T, x, p)) /\ IsRed(T, Near(T, x, p)) /\ ~IsRed(T, Far(T, x, p))
              /\ U = EraseNear(T, x, p) /\ work1.node = x /\ work1.parent = p
           \/ /\ ~IsRed(T, Sibling(T, x, p)) /\ IsRed(T, Far(T, x, p))
              /\ U = EraseFar(T, x, p) /\ work1.node = U.root /\ work1.parent = NULL
    PROVE  /\ Tended(U, M, size, work1)
           /\ EraseMeasure(U, work1.node, work1.parent) < EraseMeasure(T, x, p)
<1> DEFINE N == M \ {work.key}
           n1 == work1.node
           p1 == work1.parent
<1>1. Gone(work) = {work.key} /\ Gone(work1) = {work.key} /\ N \subseteq M
  BY DEF Gone
<1>2. PICK sub : Shape(T, N, sub)
  BY <1>1 DEF Tended
<1>3. PICK bh : Lacking(T, N, bh, x, p)
  BY <1>1 DEF Tended
<1>4. Clean(T, M) /\ size = Cardinality(M) /\ Gone(work) \subseteq M
  BY DEF Tended
<1>5. SUFFICES /\ \E sub1 : Shape(U, N, sub1)
               /\ \E B : Lacking(U, N, B, n1, p1)
               /\ Clean(U, M)
               /\ EraseMeasure(U, n1, p1) < EraseMeasure(T, x, p)
  BY <1>1, <1>4 DEF Tended
<1> HIDE DEF N
<1>6. CASE /\ IsRed(T, Sibling(T, x, p))
           /\ U = EraseRedSibling(T, x, p) /\ n1 = x /\ p1 = p
  <2>1. (\E sub1 : Shape(U, N, sub1)) /\ \E B : Lacking(U, N, B, x, p)
    BY <1>2, <1>3, <1>6, EraseRedSiblingKeeps
  <2>2. Clean(U, M) /\ EraseMeasure(U, x, p) < EraseMeasure(T, x, p)
    BY <1>1, <1>2, <1>3, <1>4, <1>6, EraseRedSiblingEnds
  <2> QED
    BY <2>1, <2>2, <1>6
<1>7. CASE /\ ~IsRed(T, Sibling(T, x, p)) /\ ~IsRed(T, Near(T, x, p)) /\ ~IsRed(T, Far(T, x, p))
           /\ U = EraseRecolour(T, x, p) /\ n1 = p /\ p1 = T.parent[p]
  <2>1. Shape(U, N, sub) /\ \E B : Lacking(U, N, B, p, T.parent[p])
    BY <1>2, <1>3, <1>7, EraseRecolourKeeps
  <2>2. Clean(U, M) /\ EraseMeasure(U, p, T.parent[p]) < EraseMeasure(T, x, p)
    BY <1>2, <1>3, <1>4, <1>7, EraseRecolourClimbs
  <2> QED
    BY <2>1, <2>2, <1>7
<1>8. CASE /\ ~IsRed(T, Sibling(T, x, p)) /\ IsRed(T, Near(T, x, p)) /\ ~IsRed(T, Far(T, x, p))
           /\ U = EraseNear(T, x, p) /\ n1 = x /\ p1 = p
  <2>1. (\E sub1 : Shape(U, N, sub1)) /\ \E B : Lacking(U, N, B, x, p)
    BY <1>2, <1>3, <1>8, EraseNearKeeps
  <2>2. Clean(U, M) /\ EraseMeasure(U, x, p) < EraseMeasure(T, x, p)
    BY <1>1, <1>2, <1>3, <1>4, <1>8, EraseNearTurns
  <2> QED
    BY <2>1, <2>2, <1>8
<1>9. CASE /\ ~IsRed(T, Sibling(T, x, p)) /\ IsRed(T, Far(T, x, p))
           /\ U = EraseFar(T, x, p) /\ n1 = U.root /\ p1 = NULL
  <2>1. (\E sub1 : Shape(U, N, sub1)) /\ \E B : Lacking(U, N, B, U.root, NULL)
    BY <1>2, <1>3, <1>9, EraseFarKeeps
  <2>2. Clean(U, M) /\ EraseMeasure(U, U.root, NULL) < EraseMeasure(T, x, p)
    BY <1>1, <1>2, <1>3, <1>4, <1>9, EraseFarEnds
  <2> QED
    BY <2>1, <2>2, <1>9
<1> QED
  BY <1>6, <1>7, <1>8, <1>9

\* __rb_erase_color ends.
LEMMA EraseDoneTends ==
    ASSUME NEW T, NEW M, NEW size, NEW work, Tended(T, M, size, work), work.stage = "erase_color",
           ~LacksBlack(T, work.node), NEW work1, work1.stage = "free", work1.key = work.key
    PROVE  Tended(Paint(T, work.node, FALSE), M, size, work1)
<1> DEFINE x == work.node
           p == work.parent
           U == Paint(T, x, FALSE)
           N == M \ {work.key}
<1>1. Gone(work) = {work.key} /\ Gone(work1) = {work.key}
  BY DEF Gone
<1>2. PICK sub : Shape(T, N, sub)
  BY <1>1 DEF Tended
<1>3. PICK bh : Lacking(T, N, bh, x, p)
  BY <1>1 DEF Tended
<1>4. Clean(T, M) /\ size = Cardinality(M) /\ Gone(work) \subseteq M
  BY DEF Tended
<1>5. ~LacksBlack(T, x)
  OBVIOUS
<1> HIDE DEF x, p, N
<1>6. Shape(U, N, sub) /\ \E B : Whole(U, N, B)
  BY <1>2, <1>3, <1>5, EraseDoneKeeps
<1>7. x \in N \cup {NULL}
  <2>1. CASE p = NULL
    <3>1. x = T.root \/ p \in N
      BY <1>3 DEF Lacking
    <3>2. T.root \in N \cup {NULL} /\ NULL \notin N
      BY <1>2, ShapeSays DEF Shape
    <3> QED
      BY <2>1, <3>1, <3>2
  <2>2. CASE p # NULL
    <3>1. PICK s \in Side : p \in N /\ T.child[s][p] = x
      BY <2>2, <1>3 DEF Lacking
    <3> QED
      BY <3>1, <1>2, ShapeSays
  <2> QED
    BY <2>1, <2>2
<1>8. Clean(U, M)
  BY <1>2, <1>4, <1>7, PaintedClean
<1> HIDE DEF U
<1>9. Tended(U, M, size, work1)
  BY <1>1, <1>4, <1>6, <1>8 DEF Tended, N
<1> QED
  BY <1>9 DEF U, x

\* The node is freed and counted.
LEMMA FreeTends ==
    ASSUME NEW T, NEW M, NEW size \in Int, NEW work, Tended(T, M, size, work), work.stage = "free",
           work.key \in Key, NEW work1, Resting(work1)
    PROVE  /\ Tended(Forget(T, work.key), M \ {work.key}, size - 1, work1)
           /\ work.key \in M
<1> DEFINE k == work.key
           U == Forget(T, k)
           N == M \ {k}
<1>1. Gone(work) = {k}
  BY DEF Gone
<1>2. PICK sub : Shape(T, N, sub)
  BY <1>1 DEF Tended
<1>3. PICK bh : Whole(T, N, bh)
  BY <1>1 DEF Tended
<1>4. Clean(T, M) /\ size = Cardinality(M) /\ k \in M
  BY <1>1 DEF Tended
<1>5. k \in Key
  OBVIOUS
<1> HIDE DEF k
<1>6. k \notin N /\ M = N \cup {k} /\ IsFiniteSet(N)
  BY <1>2, <1>4 DEF Shape
<1> HIDE DEF N
<1>7. Shape(U, N, sub) /\ Whole(U, N, bh) /\ Clean(U, N)
  BY <1>2, <1>3, <1>4, <1>5, <1>6, ForgottenKeeps
<1>8. size - 1 = Cardinality(N)
  <2>1. Cardinality(N) \in Nat
    BY <1>6, FS_CardinalityType
  <2>2. Cardinality(N \cup {k}) = Cardinality(N) + 1
    BY <1>6, FS_AddElement
  <2>3. size = Cardinality(N \cup {k})
    BY <1>4, <1>6
  <2> QED
    BY <2>1, <2>2, <2>3
<1> HIDE DEF U
<1>9. Tended(U, N, size - 1, work1)
  BY <1>7, <1>8, RestIs
<1> QED
  BY <1>4, <1>9 DEF U, N, k

(***************************************************************************)
(* All the trees of a table: the inductive invariant.                      *)
(***************************************************************************)

\* The nodes of bucket b in allocated memory, and what is being done to its tree.
Members(b) == {k \in live : BucketOf(k) = b}

NoWork == [stage |-> "idle", key |-> NULL, node |-> NULL, parent |-> NULL]

WorkAt(b) ==
    LET w == writer[b] IN
    IF w = NoOwner THEN NoWork
    ELSE [stage |-> pc[w], key |-> call[w].key, node |-> node[w], parent |-> parent[w]]

TreeTypes ==
    /\ DOMAIN tree = Bucket /\ bucket_size \in [Bucket -> Int]
    /\ DOMAIN node = Thread /\ DOMAIN parent = Thread /\ DOMAIN reply = Thread
    /\ live \subseteq Key /\ no_objects \in Int

\* Who owns a lock is in the critical section of that tree.
OwnerWorks ==
    \A b \in Bucket : writer[b] # NoOwner =>
        writer[b] \in Thread /\ pc[writer[b]] \in Writing /\ call[writer[b]].bucket = b

\* What a thread does at a step is what its call asked for.
CallFits(t) ==
    LET c == call[t] IN
    /\ pc[t] \in Writing \cup {"wrlock", "count"} =>
        c.op \in {"insert", "remove"} /\ c.key \in Key /\ c.bucket = BucketOf(c.key)
    /\ pc[t] = "insert_color" => c.op = "insert"
    /\ pc[t] \in {"erase_color", "free"} => c.op = "remove"
    /\ pc[t] = "count" => reply[t].code = "SUCCESS"
    /\ pc[t] \in {"rdlock"} \cup Reading =>
        \/ c.op = "get" /\ c.key \in Key
        \/ c.op = "to_array" /\ node[t] # NULL

CallsFit == \A t \in Thread : CallFits(t)

TreesTended == \A b \in Bucket : Tended(tree[b], Members(b), bucket_size[b], WorkAt(b))

\* no_objects lacks the keys linked and not yet counted, and still has those removed.
Adding == {t \in Thread : pc[t] = "insert_color"} \cup Uncounted("insert")
Dropping == Uncounted("remove")

Counted ==
    /\ IsFiniteSet(live) /\ IsFiniteSet(Adding) /\ IsFiniteSet(Dropping)
    /\ no_objects + Cardinality(Adding) - Cardinality(Dropping) = Cardinality(live)

TableInv == IndInv /\ TreeTypes /\ OwnerWorks /\ CallsFit /\ TreesTended /\ Counted

\* A step of t is one of no other thread.
Alone(t) ==
    \A u \in Thread \ {t} : /\ pc'[u] = pc[u] /\ call'[u] = call[u] /\ node'[u] = node[u]
                            /\ parent'[u] = parent[u] /\ reply'[u] = reply[u]

\* At the start every tree is empty and at rest.
LEMMA TableInvInit == Init => TableInv
<1> SUFFICES ASSUME Init PROVE TableInv
  OBVIOUS
<1>1. IndInv
  BY IndInvInit
<1>2. TreeTypes /\ OwnerWorks /\ CallsFit
  BY DEF Init, TreeTypes, OwnerWorks, CallsFit, CallFits, Writing, Reading
<1>3. \A b \in Bucket : Tended(tree[b], Members(b), bucket_size[b], WorkAt(b))
  <2> SUFFICES ASSUME NEW b \in Bucket PROVE Tended(tree[b], Members(b), bucket_size[b], WorkAt(b))
    OBVIOUS
  <2>1. tree[b] = EmptyTree /\ Members(b) = {} /\ bucket_size[b] = 0 /\ WorkAt(b) = NoWork
    BY DEF Init, Members, WorkAt
  <2>2. Resting(NoWork)
    BY DEF Resting, NoWork
  <2>3. Cardinality({}) = 0
    BY FS_EmptySet
  <2>4. Tended(EmptyTree, {}, 0, NoWork)
    BY <2>2, <2>3, EmptyIsWhole, RestIs
  <2> QED
    BY <2>1, <2>4
<1>4. Counted
  <2>1. Adding = {} /\ Dropping = {} /\ live = {} /\ no_objects = 0
    BY DEF Init, Adding, Dropping, Uncounted
  <2>2. IsFiniteSet({}) /\ Cardinality({}) = 0
    BY FS_EmptySet
  <2> QED
    BY <2>1, <2>2 DEF Counted
<1> QED
  BY <1>1, <1>2, <1>3, <1>4 DEF TableInv, TreesTended

\* Sets that differ in at most one element.
LEMMA OneChanges ==
    ASSUME NEW A, NEW B, NEW t, IsFiniteSet(A), A \ {t} = B \ {t}
    PROVE  /\ IsFiniteSet(B) /\ Cardinality(A) \in Nat /\ Cardinality(B) \in Nat
           /\ t \in A /\ t \notin B => Cardinality(B) = Cardinality(A) - 1
           /\ t \notin A /\ t \in B => Cardinality(B) = Cardinality(A) + 1
           /\ (t \in A <=> t \in B) => B = A
<1> DEFINE C == A \ {t}
<1>1. IsFiniteSet(C)
  BY FS_Subset
<1>2. IsFiniteSet(C \cup {t}) /\ Cardinality(C) \in Nat /\ Cardinality(C \cup {t}) = Cardinality(C) + 1
  <2>1. t \notin C
    OBVIOUS
  <2> HIDE DEF C
  <2> QED
    BY <1>1, <2>1, FS_AddElement, FS_CardinalityType
<1>3. /\ t \in A => A = C \cup {t}
      /\ t \notin A => A = C
      /\ t \in B => B = C \cup {t}
      /\ t \notin B => B = C
  OBVIOUS
<1> HIDE DEF C
<1> QED
  BY <1>1, <1>2, <1>3

\* Threads that do nothing stay counted or uncounted.
LEMMA OthersCounted ==
    ASSUME NEW t \in Thread, Alone(t)
    PROVE  Adding' \ {t} = Adding \ {t} /\ Dropping' \ {t} = Dropping \ {t}
<1> QED
  BY DEF Alone, Adding, Dropping, Uncounted

\* A step that counts nothing.
LEMMA StaysCounted ==
    ASSUME Counted, NEW t \in Thread, Alone(t), UNCHANGED <<live, no_objects>>,
           t \in Adding' <=> t \in Adding, t \in Dropping' <=> t \in Dropping
    PROVE  Counted'
<1>1. Adding' = Adding /\ Dropping' = Dropping
  BY OthersCounted
<1> QED
  BY <1>1 DEF Counted

\* A tree nobody works on stays as it is.
LEMMA WorkKept ==
    ASSUME OwnerWorks, NEW t \in Thread, Alone(t), NEW d \in Bucket,
           writer'[d] = writer[d], writer[d] # t
    PROVE  WorkAt(d)' = WorkAt(d)
<1>1. writer[d] # NoOwner => writer[d] \in Thread \ {t}
  BY DEF OwnerWorks
<1> QED
  BY <1>1 DEF WorkAt, Alone

\* A step at one tree, by the thread that holds its lock, takes it or gives it back.
LEMMA StepAt ==
    ASSUME TableInv, IndInv', TreeTypes', NEW t \in Thread, Alone(t), NEW b \in Bucket,
           \A d \in Bucket \ {b} :
                /\ writer'[d] = writer[d] /\ writer[d] # t
                /\ tree'[d] = tree[d] /\ bucket_size'[d] = bucket_size[d] /\ Members(d)' = Members(d),
           \/ writer'[b] = NoOwner
           \/ writer'[b] = t /\ pc'[t] \in Writing /\ call'[t].bucket = b,
           Tended(tree'[b], Members(b)', bucket_size'[b], WorkAt(b)'),
           CallFits(t)', Counted'
    PROVE  TableInv'
<1>1. OwnerWorks /\ CallsFit /\ TreesTended
  BY DEF TableInv
<1>2. OwnerWorks'
  <2> SUFFICES ASSUME NEW d \in Bucket, writer'[d] # NoOwner
               PROVE  writer'[d] \in Thread /\ pc'[writer'[d]] \in Writing /\ call'[writer'[d]].bucket = d
    BY DEF OwnerWorks
  <2>1. CASE d = b
    BY <2>1
  <2>2. CASE d # b
    <3>1. writer'[d] = writer[d] /\ writer[d] \in Thread \ {t}
          /\ pc[writer[d]] \in Writing /\ call[writer[d]].bucket = d
      BY <2>2, <1>1 DEF OwnerWorks
    <3> QED
      BY <3>1 DEF Alone
  <2> QED
    BY <2>1, <2>2
<1>3. CallsFit'
  <2> SUFFICES ASSUME NEW u \in Thread, u # t PROVE CallFits(u)'
    BY DEF CallsFit
  <2>1. CallFits(u)
    BY <1>1 DEF CallsFit
  <2>2. pc'[u] = pc[u] /\ call'[u] = call[u] /\ node'[u] = node[u] /\ reply'[u] = reply[u]
    BY DEF Alone
  <2> QED
    BY <2>1, <2>2 DEF CallFits
<1>4. TreesTended'
  <2> SUFFICES ASSUME NEW d \in Bucket, d # b
               PROVE  Tended(tree'[d], Members(d)', bucket_size'[d], WorkAt(d)')
    BY DEF TreesTended
  <2>1. WorkAt(d)' = WorkAt(d)
    BY <1>1, WorkKept
  <2>2. Tended(tree[d], Members(d), bucket_size[d], WorkAt(d))
    BY <1>1 DEF TreesTended
  <2> QED
    BY <2>1, <2>2
<1> QED
  BY <1>2, <1>3, <1>4 DEF TableInv

\* A step of a thread that holds no lock for writing.
LEMMA QuietStep ==
    ASSUME TableInv, IndInv', NEW t \in Thread, Alone(t),
           pc[t] \notin Writing, UNCHANGED <<tree, live, bucket_size, writer>>,
           TreeTypes', CallFits(t)', Counted'
    PROVE  TableInv'
<1>1. OwnerWorks /\ CallsFit /\ TreesTended
  BY DEF TableInv
<1>2. \A d \in Bucket : writer[d] # t
  BY <1>1, RbtreeTableAssumption DEF OwnerWorks
<1>3. OwnerWorks'
  <2> SUFFICES ASSUME NEW d \in Bucket, writer[d] # NoOwner
               PROVE  writer[d] \in Thread /\ pc'[writer[d]] \in Writing /\ call'[writer[d]].bucket = d
    BY DEF OwnerWorks
  <2>1. writer[d] \in Thread \ {t} /\ pc[writer[d]] \in Writing /\ call[writer[d]].bucket = d
    BY <1>1, <1>2 DEF OwnerWorks
  <2> QED
    BY <2>1 DEF Alone
<1>4. CallsFit'
  <2> SUFFICES ASSUME NEW u \in Thread, u # t PROVE CallFits(u)'
    BY DEF CallsFit
  <2>1. CallFits(u)
    BY <1>1 DEF CallsFit
  <2>2. pc'[u] = pc[u] /\ call'[u] = call[u] /\ node'[u] = node[u] /\ reply'[u] = reply[u]
    BY DEF Alone
  <2> QED
    BY <2>1, <2>2 DEF CallFits
<1>5. TreesTended'
  <2> SUFFICES ASSUME NEW d \in Bucket
               PROVE  Tended(tree[d], Members(d)', bucket_size[d], WorkAt(d)')
    BY DEF TreesTended
  <2>1. WorkAt(d)' = WorkAt(d)
    BY <1>1, <1>2, WorkKept
  <2>2. Members(d)' = Members(d)
    BY DEF Members
  <2>3. Tended(tree[d], Members(d), bucket_size[d], WorkAt(d))
    BY <1>1 DEF TreesTended
  <2> QED
    BY <2>1, <2>2, <2>3
<1> QED
  BY <1>3, <1>4, <1>5 DEF TableInv

\* A step of the thread that holds b's lock and goes on holding it.
LEMMA WorkStep ==
    ASSUME TableInv, IndInv', TreeTypes', NEW t \in Thread, Alone(t), NEW b, b = call[t].bucket,
           pc[t] \in Writing, pc'[t] \in Writing, UNCHANGED <<call, writer>>,
           \A d \in Bucket \ {b} :
                tree'[d] = tree[d] /\ bucket_size'[d] = bucket_size[d] /\ Members(d)' = Members(d),
           Tended(tree'[b], Members(b)', bucket_size'[b], WorkAt(b)'),
           CallFits(t)', Counted'
    PROVE  TableInv'
<1>1. IndInv /\ OwnerWorks
  BY DEF TableInv
<1>2. b \in Bucket /\ writer[b] = t
  BY <1>1 DEF IndInv, LockTypes, WriterHolds
<1>3. \A d \in Bucket \ {b} : writer[d] # t
  BY <1>1, RbtreeTableAssumption DEF OwnerWorks
<1> QED
  BY <1>2, <1>3, StepAt

\* What a thread inside its critical section finds.
LEMMA Inside ==
    ASSUME TableInv, NEW t \in Thread, pc[t] \in Writing
    PROVE  LET b == call[t].bucket IN
           /\ b \in Bucket /\ writer[b] = t /\ b = BucketOf(call[t].key)
           /\ call[t].key \in Key /\ call[t].op \in {"insert", "remove"}
           /\ pc[t] = "insert_color" => call[t].op = "insert"
           /\ pc[t] \in {"erase_color", "free"} => call[t].op = "remove"
           /\ WorkAt(b) = [stage |-> pc[t], key |-> call[t].key, node |-> node[t], parent |-> parent[t]]
           /\ Tended(tree[b], Members(b), bucket_size[b], WorkAt(b))
           /\ bucket_size[b] \in Int
<1>1. IndInv /\ OwnerWorks /\ CallFits(t) /\ TreesTended /\ TreeTypes
  BY DEF TableInv, CallsFit
<1>2. call[t].bucket \in Bucket /\ writer[call[t].bucket] = t
  BY <1>1 DEF IndInv, LockTypes, WriterHolds
<1>3. t # NoOwner
  BY RbtreeTableAssumption
<1>4. /\ call[t].key \in Key /\ call[t].op \in {"insert", "remove"} /\ call[t].bucket = BucketOf(call[t].key)
      /\ pc[t] = "insert_color" => call[t].op = "insert"
      /\ pc[t] \in {"erase_color", "free"} => call[t].op = "remove"
  BY <1>1 DEF CallFits
<1>5. WorkAt(call[t].bucket) =
        [stage |-> pc[t], key |-> call[t].key, node |-> node[t], parent |-> parent[t]]
  BY <1>2, <1>3 DEF WorkAt
<1>6. Tended(tree[call[t].bucket], Members(call[t].bucket), bucket_size[call[t].bucket], WorkAt(call[t].bucket))
  BY <1>1, <1>2 DEF TreesTended
<1>7. bucket_size[call[t].bucket] \in Int
  BY <1>1, <1>2 DEF TreeTypes
<1> QED
  BY <1>2, <1>4, <1>5, <1>6, <1>7

\* The work of a thread that holds the lock after its step.
LEMMA WorkAfter ==
    ASSUME NEW t \in Thread, NEW b, writer'[b] = t
    PROVE  WorkAt(b)' = [stage |-> pc'[t], key |-> call'[t].key, node |-> node'[t], parent |-> parent'[t]]
<1>1. t # NoOwner
  BY RbtreeTableAssumption
<1> QED
  BY <1>1 DEF WorkAt

\* Every step is one of the thread that takes it.
LEMMA StepsAlone ==
    ASSUME TableInv, NEW t \in Thread, BeginWrite(t) \/ ReadRoot(t) \/ Step(t)
    PROVE  Alone(t) /\ TreeTypes'
<1>1. /\ DOMAIN tree = Bucket /\ bucket_size \in [Bucket -> Int]
      /\ DOMAIN node = Thread /\ DOMAIN parent = Thread /\ DOMAIN reply = Thread
      /\ live \subseteq Key /\ no_objects \in Int
      /\ DOMAIN pc = Thread /\ DOMAIN call = Thread
  BY DEF TableInv, TreeTypes, IndInv, LockTypes
<1> USE DEF Goto, At, Answer, Return, locals, locks, counters
<1>2. CASE BeginWrite(t) \/ ReadRoot(t)
  BY <1>1, <1>2 DEF BeginWrite, ReadRoot, Alone, TreeTypes
<1>3. CASE WrLock(t) \/ RdLock(t)
  BY <1>1, <1>3 DEF WrLock, RdLock, Alone, TreeTypes
<1>4. CASE InsertRefused(t) \/ RemoveMisses(t)
  BY <1>1, <1>4 DEF InsertRefused, RemoveMisses, Alone, TreeTypes
<1>5. CASE InsertLink(t)
  <2>1. call[t].key \in Key
    BY <1>5 DEF TableInv, CallsFit, CallFits, InsertLink, Writing
  <2> QED
    BY <1>1, <1>5, <2>1 DEF InsertLink, Alone, TreeTypes
<1>6. CASE InsertColorRecolour(t) \/ InsertColorInner(t) \/ InsertColorOuter(t)
  BY <1>1, <1>6 DEF InsertColorRecolour, InsertColorInner, InsertColorOuter, Alone, TreeTypes
<1>7. CASE InsertColorDone(t)
  <2>1. /\ \A d \in Bucket : bucket_size[d] \in Int
        /\ bucket_size' = [d \in Bucket |-> IF d = call[t].bucket THEN bucket_size[d] + 1
                                                                 ELSE bucket_size[d]]
    BY <1>1, <1>7 DEF InsertColorDone
  <2>2. bucket_size' \in [Bucket -> Int]
    BY <2>1
  <2>3. Alone(t)
    BY <1>1, <1>7 DEF InsertColorDone, Alone
  <2> QED
    BY <1>1, <1>7, <2>2, <2>3 DEF InsertColorDone, TreeTypes
<1>8. CASE RemoveErase(t)
  BY <1>1, <1>8 DEF RemoveErase, Alone, TreeTypes
<1>9. CASE EraseColorRedSibling(t) \/ EraseColorRecolour(t) \/ EraseColorNear(t) \/ EraseColorFar(t)
  BY <1>1, <1>9 DEF EraseColorRedSibling, EraseColorRecolour, EraseColorNear, EraseColorFar,
                    Alone, TreeTypes
<1>10. CASE EraseColorDone(t)
  BY <1>1, <1>10 DEF EraseColorDone, Alone, TreeTypes
<1>11. CASE RemoveFree(t)
  <2>1. /\ \A d \in Bucket : bucket_size[d] \in Int
        /\ bucket_size' = [d \in Bucket |-> IF d = call[t].bucket THEN bucket_size[d] - 1
                                                                 ELSE bucket_size[d]]
    BY <1>1, <1>11 DEF RemoveFree
  <2>2. bucket_size' \in [Bucket -> Int]
    BY <2>1
  <2>3. Alone(t)
    BY <1>1, <1>11 DEF RemoveFree, Alone
  <2> QED
    BY <1>1, <1>11, <2>2, <2>3 DEF RemoveFree, TreeTypes
<1>12. CASE WrUnlock(t) \/ RdUnlock(t)
  BY <1>1, <1>12 DEF WrUnlock, RdUnlock, Alone, TreeTypes
<1>13. CASE CountObjects(t)
  BY <1>1, <1>13 DEF CountObjects, Alone, TreeTypes
<1>14. CASE ReadFreed(t) \/ Get(t) \/ ToArrayFails(t)
  BY <1>1, <1>14 DEF ReadFreed, Get, ToArrayFails, Alone, TreeTypes
<1>15. CASE ToArray(t)
  BY <1>1, <1>15 DEF ToArray, Alone, TreeTypes
<1> QED
  BY <1>2, <1>3, <1>4, <1>5, <1>6, <1>7, <1>8, <1>9, <1>10, <1>11, <1>12, <1>13, <1>14, <1>15 DEF Step

\* Every step keeps the locks as they should be.
LEMMA StepsKeepLocks ==
    ASSUME TableInv, NEW t \in Thread, BeginWrite(t) \/ ReadRoot(t) \/ Step(t)
    PROVE  IndInv'
<1> QED
  BY IndInvNext DEF TableInv, Next

\* Beginnings, readers, and refusals under the lock change no tree.
LEMMA QuietSteps ==
    ASSUME TableInv, NEW t \in Thread,
           \/ BeginWrite(t) \/ ReadRoot(t)
           \/ RdLock(t) \/ ReadFreed(t) \/ Get(t) \/ ToArray(t) \/ ToArrayFails(t) \/ RdUnlock(t)
    PROVE  TableInv'
<1>1. Alone(t) /\ TreeTypes' /\ IndInv'
  BY StepsAlone, StepsKeepLocks DEF Step
<1>2. UNCHANGED <<tree, live, bucket_size, no_objects, writer>> /\ pc[t] \notin Writing
  BY DEF BeginWrite, ReadRoot, RdLock, ReadFreed, Get, ToArray, ToArrayFails, RdUnlock,
         counters, locks, Writing
<1>3. DOMAIN pc = Thread /\ DOMAIN call = Thread /\ DOMAIN node = Thread /\ DOMAIN reply = Thread
  BY DEF TableInv, TreeTypes, IndInv, LockTypes
<1>4. CallFits(t)
  BY DEF TableInv, CallsFit
<1>5. CallFits(t)' /\ pc[t] \in {"idle", "rdlock", "read", "rdunlock"}
                   /\ pc'[t] \in {"idle", "wrlock", "rdlock", "read", "rdunlock"}
  <2>1. CASE BeginWrite(t)
    <3>1. PICK c \in CallsOf(t) : c.op \in {"insert", "remove"} /\ call' = [call EXCEPT ![t] = c]
      BY <2>1 DEF BeginWrite
    <3>2. c.key \in Key /\ c.bucket = BucketOf(c.key)
      BY <3>1, RbtreeTableAssumption DEF CallsOf
    <3>3. call'[t] = c /\ pc'[t] = "wrlock" /\ pc[t] = "idle"
      BY <1>3, <2>1, <3>1 DEF BeginWrite, Goto
    <3> QED
      BY <3>1, <3>2, <3>3 DEF CallFits, Writing, Reading
  <2>2. CASE ReadRoot(t)
    <3>1. PICK c \in CallsOf(t) : /\ c.op \in {"get", "to_array"} /\ call' = [call EXCEPT ![t] = c]
                                  /\ c.op = "to_array" => tree[c.bucket].root # NULL
                                  /\ node' = [node EXCEPT ![t] = tree[c.bucket].root]
      BY <2>2 DEF ReadRoot, At
    <3>2. c.op = "get" => c.key \in Key
      BY <3>1, RbtreeTableAssumption DEF CallsOf
    <3>3. call'[t] = c /\ node'[t] = tree[c.bucket].root /\ pc'[t] = "rdlock" /\ pc[t] = "idle"
      BY <1>3, <2>2, <3>1 DEF ReadRoot, Goto
    <3> QED
      BY <3>1, <3>2, <3>3 DEF CallFits, Writing, Reading
  <2>3. CASE \/ RdLock(t) \/ ReadFreed(t) \/ Get(t) \/ ToArray(t) \/ ToArrayFails(t)
    <3>1. /\ pc[t] \in {"rdlock", "read"} /\ pc'[t] \in {"read", "rdunlock"}
          /\ call' = call /\ node' = node
      BY <1>3, <2>3 DEF RdLock, ReadFreed, Get, ToArray, ToArrayFails, Goto, locals
    <3> QED
      BY <1>4, <3>1 DEF CallFits, Writing, Reading
  <2>4. CASE RdUnlock(t)
    <3>1. pc[t] = "rdunlock" /\ pc'[t] = "idle"
      BY <1>3, <2>4 DEF RdUnlock, Return, Goto
    <3> QED
      BY <3>1 DEF CallFits, Writing, Reading
  <2> QED
    BY <2>1, <2>2, <2>3, <2>4
<1>6. t \notin Adding /\ t \notin Adding' /\ t \notin Dropping /\ t \notin Dropping'
  BY <1>5 DEF Adding, Dropping, Uncounted
<1>7. Counted'
  BY <1>1, <1>2, <1>6, StaysCounted DEF TableInv
<1> QED
  BY <1>1, <1>2, <1>5, <1>7, QuietStep

\* no_objects catches up with a change.
LEMMA CountingStep ==
    ASSUME TableInv, NEW t \in Thread, CountObjects(t)
    PROVE  TableInv'
<1>1. Alone(t) /\ TreeTypes' /\ IndInv'
  BY StepsAlone, StepsKeepLocks DEF Step
<1>2. /\ UNCHANGED <<tree, live, bucket_size, writer>> /\ pc[t] = "count"
      /\ no_objects' = no_objects + (IF call[t].op = "insert" THEN 1 ELSE -1)
  BY DEF CountObjects, locks
<1>3. pc'[t] = "idle"
  BY DEF CountObjects, Return, Goto, TableInv, IndInv, LockTypes
<1>4. CallFits(t)'
  BY <1>3 DEF CallFits, Writing, Reading
<1>5. call[t].op \in {"insert", "remove"} /\ reply[t].code = "SUCCESS"
  BY <1>2 DEF TableInv, CallsFit, CallFits
<1>6. /\ call[t].op = "insert" <=> t \in Adding
      /\ call[t].op = "remove" <=> t \in Dropping
      /\ t \notin Adding' /\ t \notin Dropping'
  BY <1>2, <1>3, <1>5 DEF Adding, Dropping, Uncounted
<1>7. Counted'
  <2>1. Adding' \ {t} = Adding \ {t} /\ Dropping' \ {t} = Dropping \ {t}
    BY <1>1, OthersCounted
  <2>2. /\ IsFiniteSet(live) /\ IsFiniteSet(Adding) /\ IsFiniteSet(Dropping)
        /\ no_objects + Cardinality(Adding) - Cardinality(Dropping) = Cardinality(live)
        /\ no_objects \in Int
    BY DEF TableInv, Counted, TreeTypes
  <2>3. /\ IsFiniteSet(Adding') /\ Cardinality(Adding) \in Nat /\ Cardinality(Adding') \in Nat
        /\ t \in Adding => Cardinality(Adding') = Cardinality(Adding) - 1
        /\ t \notin Adding => Adding' = Adding
    BY <1>6, <2>1, <2>2, OneChanges
  <2>4. /\ IsFiniteSet(Dropping') /\ Cardinality(Dropping) \in Nat /\ Cardinality(Dropping') \in Nat
        /\ t \in Dropping => Cardinality(Dropping') = Cardinality(Dropping) - 1
        /\ t \notin Dropping => Dropping' = Dropping
    BY <1>6, <2>1, <2>2, OneChanges
  <2>5. no_objects' + Cardinality(Adding') - Cardinality(Dropping') = Cardinality(live)
    <3>1. CASE call[t].op = "insert"
      <4>1. t \in Adding /\ t \notin Dropping
        BY <1>6, <3>1
      <4> QED
        BY <1>2, <2>2, <2>3, <2>4, <3>1, <4>1
    <3>2. CASE call[t].op = "remove"
      <4>1. t \notin Adding /\ t \in Dropping
        BY <1>6, <3>2
      <4> QED
        BY <1>2, <2>2, <2>3, <2>4, <3>2, <4>1
    <3> QED
      BY <1>5, <3>1, <3>2
  <2> QED
    BY <1>2, <2>2, <2>3, <2>4, <2>5 DEF Counted
<1> QED
  BY <1>1, <1>2, <1>4, <1>7, QuietStep DEF Writing

\* The lock is taken: the tree is at rest.
LEMMA LockingStep ==
    ASSUME TableInv, NEW t \in Thread, WrLock(t),
           NEW b, b = call[t].bucket
    PROVE  TableInv'
<1>1. Alone(t) /\ TreeTypes' /\ IndInv'
  BY StepsAlone, StepsKeepLocks DEF Step
<1>2. /\ UNCHANGED <<tree, live, bucket_size, no_objects, call, node, parent, reply>>
      /\ pc[t] = "wrlock" /\ writer[b] = NoOwner /\ b \in Bucket
      /\ writer' = [writer EXCEPT ![b] = t] /\ pc' = [pc EXCEPT ![t] = "search"]
  BY DEF WrLock, Goto, locals, counters, TableInv, IndInv, LockTypes
<1>3. pc'[t] = "search" /\ \A d \in Bucket : writer'[d] = IF d = b THEN t ELSE writer[d]
  BY <1>2 DEF TableInv, IndInv, LockTypes
<1>4. CallFits(t)'
  <2>1. CallFits(t)
    BY DEF TableInv, CallsFit
  <2> QED
    BY <1>2, <1>3, <2>1 DEF CallFits, Writing, Reading
<1>5. Counted'
  <2>1. t \notin Adding /\ t \notin Adding' /\ t \notin Dropping /\ t \notin Dropping'
    BY <1>2, <1>3 DEF Adding, Dropping, Uncounted
  <2> QED
    BY <1>1, <1>2, <2>1, StaysCounted DEF TableInv
<1>6. \A d \in Bucket : Members(d)' = Members(d)
  BY <1>2 DEF Members
<1>7. \A d \in Bucket : writer[d] # t
  BY <1>2, RbtreeTableAssumption DEF TableInv, OwnerWorks, Writing
<1>8. Tended(tree'[b], Members(b)', bucket_size'[b], WorkAt(b)')
  <2>1. Tended(tree[b], Members(b), bucket_size[b], NoWork)
    <3>1. Tended(tree[b], Members(b), bucket_size[b], WorkAt(b))
      BY <1>2 DEF TableInv, TreesTended
    <3>2. WorkAt(b) = NoWork
      BY <1>2 DEF WorkAt
    <3> QED
      BY <3>1, <3>2
  <2>2. WorkAt(b)' = [stage |-> "search", key |-> call'[t].key, node |-> node'[t], parent |-> parent'[t]]
    <3>1. writer'[b] = t
      BY <1>2, <1>3
    <3> QED
      BY <1>3, <3>1, WorkAfter
  <2>3. Resting(NoWork) /\ Resting(WorkAt(b)')
    BY <2>2 DEF Resting, NoWork
  <2>4. Tended(tree[b], Members(b), bucket_size[b], WorkAt(b)')
    BY <2>1, <2>3, RestIs
  <2> QED
    BY <1>2, <1>6, <2>4
<1>9. writer'[b] = t /\ pc'[t] \in Writing /\ call'[t].bucket = b
  BY <1>2, <1>3 DEF Writing
<1> QED
  BY <1>1, <1>2, <1>3, <1>4, <1>5, <1>6, <1>7, <1>8, <1>9, StepAt

\* The lock is given back.
LEMMA UnlockingStep ==
    ASSUME TableInv, NEW t \in Thread, WrUnlock(t),
           NEW b, b = call[t].bucket
    PROVE  TableInv'
<1>1. Alone(t) /\ TreeTypes' /\ IndInv'
  BY StepsAlone, StepsKeepLocks DEF Step
<1>2. pc[t] = "unlock" /\ pc[t] \in Writing
  BY DEF WrUnlock, Writing
<1>3. /\ b \in Bucket /\ writer[b] = t
      /\ WorkAt(b) = [stage |-> pc[t], key |-> call[t].key, node |-> node[t], parent |-> parent[t]]
      /\ Tended(tree[b], Members(b), bucket_size[b], WorkAt(b))
  BY <1>2, Inside
<1>4. /\ UNCHANGED <<tree, live, bucket_size, no_objects>>
      /\ writer' = [writer EXCEPT ![b] = NoOwner]
  BY DEF WrUnlock, counters
<1>5. \/ reply[t].code = "SUCCESS" /\ pc' = [pc EXCEPT ![t] = "count"] /\ UNCHANGED <<call, node, reply>>
      \/ reply[t].code # "SUCCESS" /\ pc' = [pc EXCEPT ![t] = "idle"]
  BY DEF WrUnlock, Return, Goto, locals
<1>6. /\ \/ reply[t].code = "SUCCESS" /\ pc'[t] = "count" /\ UNCHANGED <<call, node, reply>>
         \/ reply[t].code # "SUCCESS" /\ pc'[t] = "idle"
      /\ \A d \in Bucket : writer'[d] = IF d = b THEN NoOwner ELSE writer[d]
  BY <1>4, <1>5 DEF TableInv, IndInv, LockTypes
<1>7. CallFits(t)'
  <2>1. CallFits(t)
    BY DEF TableInv, CallsFit
  <2> QED
    BY <1>2, <1>6, <2>1 DEF CallFits, Writing, Reading
<1>8. Counted'
  <2>1. (t \in Adding' <=> t \in Adding) /\ (t \in Dropping' <=> t \in Dropping)
    BY <1>2, <1>6 DEF Adding, Dropping, Uncounted
  <2> QED
    BY <1>1, <1>4, <2>1, StaysCounted DEF TableInv
<1>9. \A d \in Bucket : Members(d)' = Members(d)
  BY <1>4 DEF Members
<1>10. \A d \in Bucket \ {b} : writer[d] # t
  BY <1>3, RbtreeTableAssumption DEF TableInv, OwnerWorks
<1>11. writer'[b] = NoOwner
  BY <1>3, <1>6
<1>12. Tended(tree'[b], Members(b)', bucket_size'[b], WorkAt(b)')
  <2>1. WorkAt(b)' = NoWork
    BY <1>11 DEF WorkAt
  <2>2. Resting(NoWork) /\ Resting(WorkAt(b))
    BY <1>2, <1>3 DEF Resting, NoWork
  <2>3. Tended(tree[b], Members(b), bucket_size[b], NoWork)
    BY <1>3, <2>2, RestIs
  <2> QED
    BY <1>3, <1>4, <1>9, <2>1, <2>3
<1> QED
  BY <1>1, <1>3, <1>4, <1>6, <1>7, <1>8, <1>9, <1>10, <1>11, <1>12, StepAt

\* Other trees have the nodes they had.
LEMMA OtherMembers ==
    ASSUME NEW k \in Key, NEW d, d # BucketOf(k),
           live' = live \cup {k} \/ live' = live \ {k}
    PROVE  Members(d)' = Members(d)
<1> QED
  BY DEF Members

\* Who stays inside: what is left to show is about the tree.
LEMMA CallStaysFit ==
    ASSUME TableInv, NEW t \in Thread, pc[t] \in Writing, pc'[t] \in Writing, call' = call,
           pc'[t] = "insert_color" => call[t].op = "insert",
           pc'[t] \in {"erase_color", "free"} => call[t].op = "remove"
    PROVE  CallFits(t)'
<1>1. CallFits(t)
  BY DEF TableInv, CallsFit
<1> QED
  BY <1>1 DEF CallFits, Writing, Reading

\* A call is refused, or misses its key.
LEMMA RefusingStep ==
    ASSUME TableInv, NEW t \in Thread, InsertRefused(t) \/ RemoveMisses(t),
           NEW b, b = call[t].bucket
    PROVE  TableInv'
<1>1. Alone(t) /\ TreeTypes' /\ IndInv'
  BY StepsAlone, StepsKeepLocks DEF Step
<1>2. /\ pc[t] = "search" /\ pc[t] \in Writing
      /\ UNCHANGED <<tree, live, bucket_size, no_objects, writer, call, node, parent>>
      /\ pc' = [pc EXCEPT ![t] = "unlock"]
      /\ \E code \in {"DUPKEY", "SYSTEM", "NOKEY"} : Answer(t, code)
  BY DEF InsertRefused, RemoveMisses, Goto, counters, locks, locals, Writing
<1>3. pc'[t] = "unlock" /\ pc'[t] \in Writing /\ reply'[t].code # "SUCCESS"
  BY <1>2 DEF Answer, NoReply, TableInv, TreeTypes, IndInv, LockTypes, Writing
<1>4. CallFits(t)'
  BY <1>2, <1>3, CallStaysFit
<1>5. Counted'
  <2>1. t \notin Adding /\ t \notin Adding' /\ t \notin Dropping /\ t \notin Dropping'
    BY <1>2, <1>3 DEF Adding, Dropping, Uncounted
  <2> QED
    BY <1>1, <1>2, <2>1, StaysCounted DEF TableInv
<1>6. \A d \in Bucket : Members(d)' = Members(d)
  BY <1>2 DEF Members
<1>7. /\ b \in Bucket /\ writer[b] = t
      /\ WorkAt(b) = [stage |-> pc[t], key |-> call[t].key, node |-> node[t], parent |-> parent[t]]
      /\ Tended(tree[b], Members(b), bucket_size[b], WorkAt(b))
  BY <1>2, Inside
<1>8. Tended(tree'[b], Members(b)', bucket_size'[b], WorkAt(b)')
  <2>1. WorkAt(b)' = [stage |-> "unlock", key |-> call'[t].key, node |-> node'[t], parent |-> parent'[t]]
    BY <1>2, <1>3, <1>7, WorkAfter
  <2>2. Resting(WorkAt(b)) /\ Resting(WorkAt(b)')
    BY <1>2, <1>7, <2>1 DEF Resting
  <2>3. Tended(tree[b], Members(b), bucket_size[b], WorkAt(b)')
    BY <1>7, <2>2, RestIs
  <2> QED
    BY <1>2, <1>6, <1>7, <2>3
<1> QED
  BY <1>1, <1>2, <1>3, <1>4, <1>5, <1>6, <1>8, WorkStep

\* A tree the thread works on, and the sets the search for a key depends on.
LEMMA LinkingStep ==
    ASSUME KeysOrdered, TableInv, NEW t \in Thread, InsertLink(t), NEW b, b = call[t].bucket
    PROVE  TableInv'
<1> DEFINE k == call[t].key
           T == tree[b]
<1>1. Alone(t) /\ TreeTypes' /\ IndInv'
  BY StepsAlone, StepsKeepLocks DEF Step
<1>2. /\ pc[t] = "search" /\ pc[t] \in Writing /\ call[t].op = "insert"
      /\ Find(T, k, T.root) = NULL
      /\ tree' = [tree EXCEPT ![b] = rb_link_node(T, k, LinkParent(T, k))]
      /\ live' = live \cup {k}
      /\ node' = [node EXCEPT ![t] = k]
      /\ pc' = [pc EXCEPT ![t] = "insert_color"]
      /\ UNCHANGED <<bucket_size, no_objects, writer, call, reply>>
  BY DEF InsertLink, Goto, At, counters, locks, Writing
<1>3. /\ b \in Bucket /\ writer[b] = t /\ b = BucketOf(k) /\ k \in Key
      /\ WorkAt(b) = [stage |-> pc[t], key |-> k, node |-> node[t], parent |-> parent[t]]
      /\ Tended(T, Members(b), bucket_size[b], WorkAt(b))
  BY <1>2, Inside
<1>4. /\ pc'[t] = "insert_color" /\ pc'[t] \in Writing /\ node'[t] = k
      /\ \A d \in Bucket : tree'[d] = IF d = b THEN rb_link_node(T, k, LinkParent(T, k)) ELSE tree[d]
  BY <1>2, <1>3 DEF TableInv, TreeTypes, IndInv, LockTypes, Writing
<1>5. CallFits(t)'
  BY <1>2, <1>4, CallStaysFit
<1> DEFINE W == WorkAt(b)
           M == Members(b)
           z == bucket_size[b]
<1>6. PICK W1 : W1 = WorkAt(b)'
  OBVIOUS
<1>7. W1.stage = "insert_color" /\ W1.node = k
  <2>1. WorkAt(b)' = [stage |-> pc'[t], key |-> call'[t].key, node |-> node'[t], parent |-> parent'[t]]
    BY <1>2, <1>3, WorkAfter
  <2> QED
    BY <1>4, <1>6, <2>1
<1>8. Resting(W)
  BY <1>2, <1>3 DEF Resting
<1>9. Tended(T, M, z, W)
  BY <1>3
<1>10. k \in Key /\ k \in live <=> k \in M
  BY <1>3 DEF Members
<1>11. Members(b)' = M \cup {k} /\ \A d \in Bucket \ {b} : Members(d)' = Members(d)
  <2>1. Members(b)' = M \cup {k}
    BY <1>2, <1>3 DEF Members
  <2> QED
    BY <1>2, <1>3, <2>1, OtherMembers
<1> HIDE DEF k, T, W, M, z
<1>12. k \notin M
  <2>1. PICK sub : Shape(T, M, sub)
    BY <1>8, <1>9, RestIs
  <2>2. T.root \in M \cup {NULL} /\ sub[T.root] = M
    BY <2>1 DEF Shape
  <2>3. Find(T, k, T.root) = IF k \in sub[T.root] THEN k ELSE NULL
    BY <1>3, <2>1, <2>2, FindIs
  <2>4. k # NULL
    BY <1>3, RBTreeAssumption
  <2> QED
    BY <1>2, <2>2, <2>3, <2>4
<1>13. Tended(rb_link_node(T, k, LinkParent(T, k)), M \cup {k}, z, W1)
  BY <1>3, <1>7, <1>8, <1>9, <1>12, LinkTends
<1>14. Tended(tree'[b], Members(b)', bucket_size'[b], WorkAt(b)')
  BY <1>2, <1>3, <1>4, <1>6, <1>11, <1>13 DEF z
<1>15. Counted'
  <2>1. Adding' \ {t} = Adding \ {t} /\ Dropping' \ {t} = Dropping \ {t}
    BY <1>1, OthersCounted
  <2>2. /\ IsFiniteSet(live) /\ IsFiniteSet(Adding) /\ IsFiniteSet(Dropping)
        /\ no_objects + Cardinality(Adding) - Cardinality(Dropping) = Cardinality(live)
        /\ no_objects \in Int
    BY DEF TableInv, Counted, TreeTypes
  <2>3. t \notin Adding /\ t \in Adding' /\ t \notin Dropping /\ t \notin Dropping'
    BY <1>2, <1>4 DEF Adding, Dropping, Uncounted
  <2>4. /\ IsFiniteSet(Adding') /\ Cardinality(Adding) \in Nat
        /\ Cardinality(Adding') = Cardinality(Adding) + 1
    BY <2>1, <2>2, <2>3, OneChanges
  <2>5. Dropping' = Dropping /\ Cardinality(Dropping) \in Nat
    BY <2>1, <2>2, <2>3, OneChanges
  <2>6. k \notin live
    BY <1>3, <1>10, <1>12
  <2>7. IsFiniteSet(live') /\ Cardinality(live') = Cardinality(live) + 1
    BY <1>2, <2>2, <2>6, FS_AddElement
  <2>8. Cardinality(live) \in Nat
    BY <2>2, FS_CardinalityType
  <2>9. no_objects' + Cardinality(Adding') - Cardinality(Dropping') = Cardinality(live')
    BY <1>2, <2>2, <2>4, <2>5, <2>7, <2>8
  <2> QED
    BY <2>2, <2>4, <2>5, <2>7, <2>9 DEF Counted
<1>16. \A d \in Bucket \ {b} :
          tree'[d] = tree[d] /\ bucket_size'[d] = bucket_size[d] /\ Members(d)' = Members(d)
  BY <1>2, <1>4, <1>11
<1> QED
  BY <1>1, <1>2, <1>4, <1>5, <1>14, <1>15, <1>16, WorkStep

\* A step of a loop, or from the search to it, changes one tree.
LEMMA TreeStep ==
    ASSUME TableInv, NEW t \in Thread, Step(t), NEW b, b = call[t].bucket,
           pc[t] \in Writing, pc'[t] \in Writing, UNCHANGED <<live, no_objects, writer, call>>,
           NEW U, tree' = [tree EXCEPT ![b] = U],
           bucket_size' = bucket_size \/ \E z \in Int : bucket_size' = [bucket_size EXCEPT ![b] = z],
           pc'[t] = "insert_color" => call[t].op = "insert",
           pc'[t] \in {"erase_color", "free"} => call[t].op = "remove",
           t \in Adding' <=> t \in Adding, t \in Dropping' <=> t \in Dropping,
           Tended(U, Members(b), bucket_size'[b],
                  [stage |-> pc'[t], key |-> call[t].key, node |-> node'[t], parent |-> parent'[t]])
    PROVE  TableInv'
<1>1. Alone(t) /\ TreeTypes' /\ IndInv'
  BY StepsAlone, StepsKeepLocks
<1>2. CallFits(t)'
  BY CallStaysFit
<1>3. Counted'
  BY <1>1, StaysCounted DEF TableInv
<1>4. b \in Bucket /\ writer[b] = t
  BY Inside
<1>5. \A d \in Bucket : Members(d)' = Members(d)
  BY DEF Members
<1>6. /\ \A d \in Bucket : tree'[d] = IF d = b THEN U ELSE tree[d]
      /\ \A d \in Bucket \ {b} : bucket_size'[d] = bucket_size[d]
  BY <1>4 DEF TableInv, TreeTypes
<1>7. WorkAt(b)' = [stage |-> pc'[t], key |-> call'[t].key, node |-> node'[t], parent |-> parent'[t]]
  BY <1>4, WorkAfter
<1>8. Tended(tree'[b], Members(b)', bucket_size'[b], WorkAt(b)')
  BY <1>4, <1>5, <1>6, <1>7
<1> QED
  BY <1>1, <1>2, <1>3, <1>5, <1>6, <1>8, WorkStep

\* An iteration of rb_insert_color, and how much it brings the loop nearer to its end.
LEMMA InsertColorStep ==
    ASSUME KeysOrdered, TableInv, NEW t \in Thread, NEW b, b = call[t].bucket,
           InsertColorRecolour(t) \/ InsertColorInner(t) \/ InsertColorOuter(t)
    PROVE  /\ TableInv'
           /\ InsertMeasure(tree'[b], node'[t]) < InsertMeasure(tree[b], node[t])
<1> DEFINE T == tree[b]
           n == node[t]
<1>1. /\ pc[t] = "insert_color" /\ pc[t] \in Writing
      /\ UNCHANGED <<pc, call, live, bucket_size, no_objects, writer, reply>>
      /\ RedRed(T, n)
  BY DEF InsertColorRecolour, InsertColorInner, InsertColorOuter, counters, locks, locals, Writing
<1>2. /\ b \in Bucket /\ call[t].op = "insert"
      /\ WorkAt(b) = [stage |-> pc[t], key |-> call[t].key, node |-> n, parent |-> parent[t]]
      /\ Tended(T, Members(b), bucket_size[b], WorkAt(b))
  BY <1>1, Inside
<1>3. PICK U : /\ tree' = [tree EXCEPT ![b] = U]
               /\ \/ /\ IsRed(T, Uncle(T, n))
                     /\ U = InsertRecolour(T, n) /\ node'[t] = Grandparent(T, n)
                  \/ /\ ~IsRed(T, Uncle(T, n)) /\ IsInner(T, n)
                     /\ U = InsertInner(T, n) /\ node'[t] = T.parent[n]
                  \/ /\ ~IsRed(T, Uncle(T, n)) /\ ~IsInner(T, n)
                     /\ U = InsertOuter(T, n) /\ node'[t] = n
  <2>1. DOMAIN node = Thread
    BY DEF TableInv, TreeTypes
  <2>2. CASE InsertColorRecolour(t)
    BY <2>1, <2>2 DEF InsertColorRecolour, At
  <2>3. CASE InsertColorInner(t)
    BY <2>1, <2>3 DEF InsertColorInner, At
  <2>4. CASE InsertColorOuter(t)
    BY <2>1, <2>4 DEF InsertColorOuter, locals
  <2> QED
    BY <2>2, <2>3, <2>4
<1> DEFINE W1 == [stage |-> pc'[t], key |-> call[t].key, node |-> node'[t], parent |-> parent'[t]]
<1>4. W1.stage = "insert_color" /\ W1.node = node'[t]
  BY <1>1
<1>5. WorkAt(b).stage = "insert_color" /\ WorkAt(b).node = n
  BY <1>1, <1>2
<1> HIDE DEF W1, T, n
<1>6. /\ Tended(U, Members(b), bucket_size[b], W1)
      /\ InsertMeasure(U, W1.node) < InsertMeasure(T, WorkAt(b).node)
  BY <1>1, <1>2, <1>3, <1>4, <1>5, InsertTends
<1>7. Step(t) /\ (t \in Adding' <=> t \in Adding) /\ (t \in Dropping' <=> t \in Dropping)
  BY <1>1 DEF Step, Adding, Dropping, Uncounted
<1>8. TableInv'
  BY <1>1, <1>2, <1>3, <1>6, <1>7, TreeStep DEF W1
<1>9. tree'[b] = U
  BY <1>2, <1>3 DEF TableInv, TreeTypes
<1> QED
  BY <1>4, <1>5, <1>6, <1>8, <1>9 DEF T, n

\* The loop ends, the root is painted and the new node counted.
LEMMA InsertDoneStep ==
    ASSUME TableInv, NEW t \in Thread, InsertColorDone(t), NEW b, b = call[t].bucket
    PROVE  TableInv'
<1> DEFINE T == tree[b]
           n == node[t]
           z == bucket_size[b]
           U == Paint(T, T.root, FALSE)
<1>1. /\ pc[t] = "insert_color" /\ pc[t] \in Writing
      /\ UNCHANGED <<call, live, no_objects, writer>>
      /\ ~RedRed(T, n) /\ tree' = [tree EXCEPT ![b] = U]
      /\ bucket_size' = [bucket_size EXCEPT ![b] = @ + 1]
      /\ pc' = [pc EXCEPT ![t] = "unlock"] /\ Answer(t, "SUCCESS")
  BY DEF InsertColorDone, Goto, locks, locals, Writing
<1>2. /\ b \in Bucket /\ call[t].op = "insert" /\ z \in Int
      /\ WorkAt(b) = [stage |-> pc[t], key |-> call[t].key, node |-> n, parent |-> parent[t]]
      /\ Tended(T, Members(b), z, WorkAt(b))
  BY <1>1, Inside
<1>3. /\ pc'[t] = "unlock" /\ pc'[t] \in Writing /\ reply'[t].code = "SUCCESS"
      /\ bucket_size'[b] = z + 1 /\ bucket_size' = [bucket_size EXCEPT ![b] = z + 1]
  BY <1>1, <1>2 DEF Answer, NoReply, TableInv, TreeTypes, IndInv, LockTypes, Writing
<1> DEFINE W1 == [stage |-> pc'[t], key |-> call[t].key, node |-> node'[t], parent |-> parent'[t]]
<1>4. Resting(W1)
  BY <1>3 DEF Resting
<1>5. WorkAt(b).stage = "insert_color" /\ WorkAt(b).node = n
  BY <1>1, <1>2
<1> HIDE DEF W1, n, z
<1>6. Tended(U, Members(b), z + 1, W1)
  BY <1>1, <1>2, <1>4, <1>5, InsertDoneTends
<1>7. Step(t) /\ (t \in Adding' <=> t \in Adding) /\ (t \in Dropping' <=> t \in Dropping)
  BY <1>1, <1>2, <1>3 DEF Step, Adding, Dropping, Uncounted
<1>8. z + 1 \in Int
  BY <1>2
<1> HIDE DEF U
<1> QED
  BY <1>1, <1>2, <1>3, <1>6, <1>7, <1>8, TreeStep DEF W1

\* A key that is there is taken out of the tree.
LEMMA ErasingStep ==
    ASSUME KeysOrdered, TableInv, NEW t \in Thread, RemoveErase(t), NEW b, b = call[t].bucket
    PROVE  TableInv'
<1> DEFINE T == tree[b]
           k == call[t].key
           E == rb_erase(T, k)
           U == E.tree
           M == Members(b)
           z == bucket_size[b]
           W == WorkAt(b)
<1>1. /\ pc[t] = "search" /\ pc[t] \in Writing /\ call[t].op = "remove"
      /\ UNCHANGED <<call, live, bucket_size, no_objects, writer, reply>>
      /\ Find(T, k, T.root) # NULL
  BY DEF RemoveErase, counters, locks, Writing
<1>2. /\ b \in Bucket /\ k \in Key
      /\ W = [stage |-> pc[t], key |-> k, node |-> node[t], parent |-> parent[t]]
      /\ Tended(T, M, z, W)
  BY <1>1, Inside
<1>3. Resting(W)
  BY <1>1, <1>2 DEF Resting
<1>4. k \in M /\ Find(T, k, T.root) = k
  <2> HIDE DEF T, M, k, W, z
  <2>1. PICK sub : Shape(T, M, sub)
    BY <1>2, <1>3, RestIs
  <2>2. T.root \in M \cup {NULL} /\ sub[T.root] = M
    BY <2>1 DEF Shape
  <2>3. Find(T, k, T.root) = IF k \in sub[T.root] THEN k ELSE NULL
    BY <1>2, <2>1, <2>2, FindIs
  <2> QED
    BY <1>1, <2>2, <2>3
<1>5. /\ tree' = [tree EXCEPT ![b] = U]
      /\ node' = [node EXCEPT ![t] = E.node] /\ parent' = [parent EXCEPT ![t] = E.parent]
      /\ pc' = [pc EXCEPT ![t] = IF E.red THEN "free" ELSE "erase_color"]
  BY <1>4 DEF RemoveErase, At, Goto
<1> HIDE DEF E
<1>6. /\ pc'[t] = (IF E.red THEN "free" ELSE "erase_color") /\ pc'[t] \in Writing
      /\ node'[t] = E.node /\ parent'[t] = E.parent
  BY <1>5 DEF TableInv, TreeTypes, IndInv, LockTypes, Writing
<1> DEFINE W1 == [stage |-> pc'[t], key |-> call[t].key, node |-> node'[t], parent |-> parent'[t]]
<1>7. /\ W1.key = k /\ W1.stage = (IF E.red THEN "free" ELSE "erase_color")
      /\ W1.node = E.node /\ W1.parent = E.parent
  BY <1>6
<1> HIDE DEF W1, T, M, W, z, k
<1>8. Tended(rb_erase(T, k).tree, M, z, W1)
  BY <1>2, <1>3, <1>4, <1>7, EraseTends DEF E
<1>9. Tended(U, M, z, W1)
  BY <1>8 DEF E
<1>10. Step(t) /\ (t \in Adding' <=> t \in Adding) /\ (t \in Dropping' <=> t \in Dropping)
  BY <1>1, <1>6 DEF Step, Adding, Dropping, Uncounted
<1>11. bucket_size' = bucket_size /\ Tended(U, Members(b), bucket_size'[b], W1)
  BY <1>1, <1>9 DEF M, z
<1>12. pc'[t] # "insert_color"
  BY <1>6
<1> HIDE DEF U
<1> QED
  BY <1>1, <1>5, <1>6, <1>10, <1>11, <1>12, TreeStep DEF W1

\* An iteration of __rb_erase_color, and how much it brings the loop nearer to its end.
LEMMA EraseColorStep ==
    ASSUME KeysOrdered, TableInv, NEW t \in Thread, NEW b, b = call[t].bucket,
           EraseColorRedSibling(t) \/ EraseColorRecolour(t) \/ EraseColorNear(t) \/ EraseColorFar(t)
    PROVE  /\ TableInv'
           /\ EraseMeasure(tree'[b], node'[t], parent'[t]) < EraseMeasure(tree[b], node[t], parent[t])
<1> DEFINE T == tree[b]
           n == node[t]
           p == parent[t]
<1>1. /\ pc[t] = "erase_color" /\ pc[t] \in Writing
      /\ UNCHANGED <<pc, call, live, bucket_size, no_objects, writer, reply>>
      /\ LacksBlack(T, n)
  BY DEF EraseColorRedSibling, EraseColorRecolour, EraseColorNear, EraseColorFar, BlackSibling,
         counters, locks, locals, Writing
<1>2. /\ b \in Bucket /\ call[t].op = "remove"
      /\ WorkAt(b) = [stage |-> pc[t], key |-> call[t].key, node |-> n, parent |-> p]
      /\ Tended(T, Members(b), bucket_size[b], WorkAt(b))
  BY <1>1, Inside
<1>3. PICK U : /\ tree' = [tree EXCEPT ![b] = U]
               /\ \/ /\ IsRed(T, Sibling(T, n, p))
                     /\ U = EraseRedSibling(T, n, p) /\ node'[t] = n /\ parent'[t] = p
                  \/ /\ ~IsRed(T, Sibling(T, n, p)) /\ ~IsRed(T, Near(T, n, p)) /\ ~IsRed(T, Far(T, n, p))
                     /\ U = EraseRecolour(T, n, p) /\ node'[t] = p /\ parent'[t] = T.parent[p]
                  \/ /\ ~IsRed(T, Sibling(T, n, p)) /\ IsRed(T, Near(T, n, p)) /\ ~IsRed(T, Far(T, n, p))
                     /\ U = EraseNear(T, n, p) /\ node'[t] = n /\ parent'[t] = p
                  \/ /\ ~IsRed(T, Sibling(T, n, p)) /\ IsRed(T, Far(T, n, p))
                     /\ U = EraseFar(T, n, p) /\ node'[t] = U.root /\ parent'[t] = NULL
  <2>1. DOMAIN node = Thread /\ DOMAIN parent = Thread
    BY DEF TableInv, TreeTypes
  <2>2. CASE EraseColorRedSibling(t)
    BY <2>2 DEF EraseColorRedSibling, locals
  <2>3. CASE EraseColorRecolour(t)
    BY <2>1, <2>3 DEF EraseColorRecolour, BlackSibling, At
  <2>4. CASE EraseColorNear(t)
    BY <2>4 DEF EraseColorNear, BlackSibling, locals
  <2>5. CASE EraseColorFar(t)
    BY <2>1, <2>5 DEF EraseColorFar, BlackSibling, At
  <2> QED
    BY <2>2, <2>3, <2>4, <2>5
<1> DEFINE W1 == [stage |-> pc'[t], key |-> call[t].key, node |-> node'[t], parent |-> parent'[t]]
           W == WorkAt(b)
<1>4. /\ W1.stage = "erase_color" /\ W1.key = call[t].key
      /\ W1.node = node'[t] /\ W1.parent = parent'[t]
  BY <1>1
<1>5. W.stage = "erase_color" /\ W.node = n /\ W.parent = p /\ W.key = call[t].key
  BY <1>1, <1>2
<1> HIDE DEF W1, T, n, p
<1>6. /\ Tended(U, Members(b), bucket_size[b], W1)
      /\ EraseMeasure(U, W1.node, W1.parent) < EraseMeasure(T, n, p)
  BY <1>1, <1>2, <1>3, <1>4, <1>5, EraseColorTends
<1>7. Step(t) /\ (t \in Adding' <=> t \in Adding) /\ (t \in Dropping' <=> t \in Dropping)
  BY <1>1 DEF Step, Adding, Dropping, Uncounted
<1>8. TableInv'
  BY <1>1, <1>2, <1>3, <1>6, <1>7, TreeStep DEF W1
<1>9. tree'[b] = U
  BY <1>2, <1>3 DEF TableInv, TreeTypes
<1> QED
  BY <1>4, <1>6, <1>8, <1>9 DEF T, n, p

\* The loop ends with a node that is painted black.
LEMMA EraseDoneStep ==
    ASSUME TableInv, NEW t \in Thread, EraseColorDone(t), NEW b, b = call[t].bucket
    PROVE  TableInv'
<1> DEFINE T == tree[b]
           n == node[t]
           U == Paint(T, n, FALSE)
           W == WorkAt(b)
<1>1. /\ pc[t] = "erase_color" /\ pc[t] \in Writing
      /\ UNCHANGED <<call, live, bucket_size, no_objects, writer, node, parent, reply>>
      /\ ~LacksBlack(T, n) /\ tree' = [tree EXCEPT ![b] = U]
      /\ pc' = [pc EXCEPT ![t] = "free"]
  BY DEF EraseColorDone, Goto, counters, locks, locals, Writing
<1>2. /\ b \in Bucket /\ call[t].op = "remove"
      /\ W = [stage |-> pc[t], key |-> call[t].key, node |-> n, parent |-> parent[t]]
      /\ Tended(T, Members(b), bucket_size[b], W)
  BY <1>1, Inside
<1>3. pc'[t] = "free" /\ pc'[t] \in Writing
  BY <1>1 DEF TableInv, IndInv, LockTypes, Writing
<1> DEFINE W1 == [stage |-> pc'[t], key |-> call[t].key, node |-> node'[t], parent |-> parent'[t]]
<1>4. W1.stage = "free" /\ W1.key = call[t].key
  BY <1>3
<1>5. W.stage = "erase_color" /\ W.node = n /\ W.key = call[t].key
  BY <1>1, <1>2
<1> HIDE DEF W1, W, T, n
<1>6. Tended(U, Members(b), bucket_size[b], W1)
  BY <1>1, <1>2, <1>4, <1>5, EraseDoneTends
<1>7. Step(t) /\ (t \in Adding' <=> t \in Adding) /\ (t \in Dropping' <=> t \in Dropping)
  BY <1>1, <1>3 DEF Step, Adding, Dropping, Uncounted
<1> HIDE DEF U
<1> QED
  BY <1>1, <1>2, <1>3, <1>6, <1>7, TreeStep DEF W1

\* The node is freed.
LEMMA FreeingStep ==
    ASSUME TableInv, NEW t \in Thread, RemoveFree(t), NEW b, b = call[t].bucket
    PROVE  TableInv'
<1> DEFINE T == tree[b]
           k == call[t].key
           M == Members(b)
           z == bucket_size[b]
           W == WorkAt(b)
<1>1. Alone(t) /\ TreeTypes' /\ IndInv'
  BY StepsAlone, StepsKeepLocks DEF Step
<1>2. /\ pc[t] = "free" /\ pc[t] \in Writing
      /\ tree' = [tree EXCEPT ![b] = Forget(T, k)]
      /\ live' = live \ {k}
      /\ bucket_size' = [bucket_size EXCEPT ![b] = z - 1]
      /\ pc' = [pc EXCEPT ![t] = "unlock"] /\ Answer(t, "SUCCESS")
      /\ UNCHANGED <<no_objects, writer, call, node, parent>>
  BY DEF RemoveFree, Goto, locks, locals, Writing
<1>3. /\ b \in Bucket /\ writer[b] = t /\ b = BucketOf(k) /\ k \in Key /\ z \in Int
      /\ call[t].op = "remove"
      /\ W = [stage |-> pc[t], key |-> k, node |-> node[t], parent |-> parent[t]]
      /\ Tended(T, M, z, W)
  BY <1>2, Inside
<1>4. /\ pc'[t] = "unlock" /\ pc'[t] \in Writing /\ reply'[t].code = "SUCCESS"
      /\ \A d \in Bucket : tree'[d] = IF d = b THEN Forget(T, k) ELSE tree[d]
      /\ \A d \in Bucket : bucket_size'[d] = IF d = b THEN z - 1 ELSE bucket_size[d]
  BY <1>2, <1>3 DEF Answer, NoReply, TableInv, TreeTypes, IndInv, LockTypes, Writing
<1>5. CallFits(t)'
  BY <1>2, <1>4, CallStaysFit
<1>6. PICK W1 : W1 = WorkAt(b)'
  OBVIOUS
<1>7. Resting(W1)
  <2>1. WorkAt(b)' = [stage |-> pc'[t], key |-> call'[t].key, node |-> node'[t], parent |-> parent'[t]]
    BY <1>2, <1>3, WorkAfter
  <2> QED
    BY <1>4, <1>6, <2>1 DEF Resting
<1>8. Members(b)' = M \ {k} /\ \A d \in Bucket \ {b} : Members(d)' = Members(d)
  <2>1. Members(b)' = M \ {k}
    BY <1>2, <1>3 DEF Members
  <2> QED
    BY <1>2, <1>3, <2>1, OtherMembers
<1>9. W.stage = "free" /\ W.key = k
  BY <1>2, <1>3
<1>10. M \subseteq live
  BY DEF Members
<1> HIDE DEF T, k, M, z, W
<1>11. Tended(Forget(T, k), M \ {k}, z - 1, W1) /\ k \in M
  BY <1>3, <1>7, <1>9, FreeTends
<1>12. Tended(tree'[b], Members(b)', bucket_size'[b], WorkAt(b)')
  BY <1>3, <1>4, <1>6, <1>8, <1>11
<1>13. Counted'
  <2>1. Adding' \ {t} = Adding \ {t} /\ Dropping' \ {t} = Dropping \ {t}
    BY <1>1, OthersCounted
  <2>2. /\ IsFiniteSet(live) /\ IsFiniteSet(Adding) /\ IsFiniteSet(Dropping)
        /\ no_objects + Cardinality(Adding) - Cardinality(Dropping) = Cardinality(live)
        /\ no_objects \in Int
    BY DEF TableInv, Counted, TreeTypes
  <2>3. t \notin Adding /\ t \notin Adding' /\ t \notin Dropping /\ t \in Dropping'
    BY <1>2, <1>3, <1>4 DEF Adding, Dropping, Uncounted
  <2>4. /\ IsFiniteSet(Dropping') /\ Cardinality(Dropping) \in Nat
        /\ Cardinality(Dropping') = Cardinality(Dropping) + 1
    BY <2>1, <2>2, <2>3, OneChanges
  <2>5. Adding' = Adding /\ Cardinality(Adding) \in Nat
    BY <2>1, <2>2, <2>3, OneChanges
  <2>6. IsFiniteSet(live') /\ Cardinality(live') = Cardinality(live) - 1
    <3>1. k \in live /\ k \notin live' /\ live \ {k} = live' \ {k}
      BY <1>2, <1>10, <1>11
    <3> QED
      BY <2>2, <3>1, OneChanges
  <2>7. Cardinality(live) \in Nat
    BY <2>2, FS_CardinalityType
  <2>8. no_objects' + Cardinality(Adding') - Cardinality(Dropping') = Cardinality(live')
    BY <1>2, <2>2, <2>4, <2>5, <2>6, <2>7
  <2> QED
    BY <2>2, <2>4, <2>5, <2>6, <2>8 DEF Counted
<1>14. \A d \in Bucket \ {b} :
          tree'[d] = tree[d] /\ bucket_size'[d] = bucket_size[d] /\ Members(d)' = Members(d)
  BY <1>4, <1>8
<1> QED
  BY <1>1, <1>2, <1>4, <1>5, <1>12, <1>13, <1>14, WorkStep

\* Every step of every call keeps every tree tended.
LEMMA TableInvNext == KeysOrdered => (TableInv /\ [Next]_vars => TableInv')
<1> SUFFICES ASSUME KeysOrdered, TableInv, [Next]_vars PROVE TableInv'
  OBVIOUS
<1>1. CASE UNCHANGED vars
  BY <1>1, IndInvNext, ZenonT(60) DEF vars, locals, TableInv, TreeTypes, OwnerWorks, CallsFit, CallFits, TreesTended,
                          Members, WorkAt, Counted, Adding, Dropping, Uncounted
<1>2. ASSUME NEW t \in Thread, BeginWrite(t) \/ ReadRoot(t) \/ Step(t) PROVE TableInv'
  <2>1. PICK b : b = call[t].bucket
    OBVIOUS
  <2>2. CASE \/ BeginWrite(t) \/ ReadRoot(t)
             \/ RdLock(t) \/ ReadFreed(t) \/ Get(t) \/ ToArray(t) \/ ToArrayFails(t) \/ RdUnlock(t)
    BY <2>2, QuietSteps
  <2>3. CASE WrLock(t)
    BY <2>1, <2>3, LockingStep
  <2>4. CASE InsertRefused(t) \/ RemoveMisses(t)
    BY <2>1, <2>4, RefusingStep
  <2>5. CASE InsertLink(t)
    BY <2>1, <2>5, LinkingStep
  <2>6. CASE InsertColorRecolour(t) \/ InsertColorInner(t) \/ InsertColorOuter(t)
    BY <2>1, <2>6, InsertColorStep
  <2>7. CASE InsertColorDone(t)
    BY <2>1, <2>7, InsertDoneStep
  <2>8. CASE RemoveErase(t)
    BY <2>1, <2>8, ErasingStep
  <2>9. CASE EraseColorRedSibling(t) \/ EraseColorRecolour(t) \/ EraseColorNear(t) \/ EraseColorFar(t)
    BY <2>1, <2>9, EraseColorStep
  <2>10. CASE EraseColorDone(t)
    BY <2>1, <2>10, EraseDoneStep
  <2>11. CASE RemoveFree(t)
    BY <2>1, <2>11, FreeingStep
  <2>12. CASE WrUnlock(t)
    BY <2>1, <2>12, UnlockingStep
  <2>13. CASE CountObjects(t)
    BY <2>13, CountingStep
  <2> QED
    BY <1>2, <2>2, <2>3, <2>4, <2>5, <2>6, <2>7, <2>8, <2>9, <2>10, <2>11, <2>12, <2>13 DEF Step
<1> QED
  BY <1>1, <1>2 DEF Next

\* So every tree is always tended.
LEMMA TableInvAlways == KeysOrdered => (Spec => []TableInv)
<1>1. SUFFICES ASSUME KeysOrdered PROVE Spec => []TableInv
  OBVIOUS
<1>2. Init => TableInv
  BY TableInvInit
<1>3. TableInv /\ [Next]_vars => TableInv'
  BY <1>1, TableInvNext
<1> QED
  BY <1>2, <1>3, PTL DEF Spec

(***************************************************************************)
(* What follows from it.                                                   *)
(***************************************************************************)

\* What a tree is when nobody writes to it.
LEMMA TreeAtRest ==
    ASSUME TableInv, NEW b \in Bucket, writer[b] = NoOwner
    PROVE  /\ \E sub : Shape(tree[b], Members(b), sub)
           /\ \E bh : Whole(tree[b], Members(b), bh)
           /\ bucket_size[b] = Cardinality(Members(b))
<1>1. Tended(tree[b], Members(b), bucket_size[b], WorkAt(b))
  BY DEF TableInv, TreesTended
<1>2. WorkAt(b) = NoWork
  BY DEF WorkAt
<1>3. Resting(NoWork)
  BY DEF Resting, NoWork
<1> QED
  BY <1>1, <1>2, <1>3, RestIs

\* Between any two pointer stores the calls are divided into, rebalancing included, every node
\* of a tree is where the search for its key looks (hi_rbtree.c:71-115, 281-329).
THEOREM AlwaysSearchable ==
    ASSUME KeysOrdered PROVE Spec => []SearchOrder
<1>1. TableInv => SearchOrder
  <2> SUFFICES ASSUME TableInv, NEW b \in Bucket
               PROVE  /\ Searchable(tree[b])
                      /\ \A n \in Nodes(tree[b]) : n \in live /\ BucketOf(n) = b
    BY DEF SearchOrder
  <2>1. Tended(tree[b], Members(b), bucket_size[b], WorkAt(b))
    BY DEF TableInv, TreesTended
  <2>2. PICK N, sub : Shape(tree[b], N, sub) /\ N \subseteq Members(b)
    BY <2>1 DEF Tended
  <2>3. Nodes(tree[b]) = N
    BY <2>2, NodesAre
  <2>4. Searchable(tree[b])
    BY <2>2, ShapeIsSearchable
  <2> QED
    BY <2>2, <2>3, <2>4 DEF Members
<1> QED
  BY <1>1, TableInvAlways, PTL

\* A tree whose lock is free is a red-black tree (hi_rbtree.c:118-334).
THEOREM RestsBalanced ==
    ASSUME KeysOrdered PROVE Spec => []Balanced
<1>1. TableInv => Balanced
  <2> SUFFICES ASSUME TableInv, NEW b \in Bucket, writer[b] = NoOwner
               PROVE  Linked(tree[b]) /\ RedBlack(tree[b])
    BY DEF Balanced
  <2> QED
    BY TreeAtRest, WholeIsRedBlack
<1> QED
  BY <1>1, TableInvAlways, PTL

\* bucket_size and no_objects describe the trees and the table (hi_rbtree.c:459-461, 520-524).
THEOREM CountersAlwaysAgree ==
    ASSUME KeysOrdered PROVE Spec => []CountersAgree
<1>1. TableInv => CountersAgree
  <2> SUFFICES ASSUME TableInv PROVE CountersAgree
    OBVIOUS
  <2>1. ASSUME NEW b \in Bucket, writer[b] = NoOwner
        PROVE  bucket_size[b] = Cardinality(Nodes(tree[b]))
    <3>1. PICK sub : Shape(tree[b], Members(b), sub)
      BY <2>1, TreeAtRest
    <3>2. Nodes(tree[b]) = Members(b)
      BY <3>1, NodesAre
    <3> QED
      BY <2>1, <3>2, TreeAtRest
  <2>2. ASSUME \A b \in Bucket : writer[b] = NoOwner
        PROVE  no_objects + Cardinality(Uncounted("insert")) - Cardinality(Uncounted("remove"))
                  = Cardinality(live)
    <3>1. ASSUME NEW t \in Thread, pc[t] = "insert_color" PROVE FALSE
      <4>1. call[t].bucket \in Bucket /\ writer[call[t].bucket] = t
        BY <3>1 DEF TableInv, IndInv, LockTypes, WriterHolds, Writing
      <4> QED
        BY <2>2, <4>1, RbtreeTableAssumption
    <3>2. Adding = Uncounted("insert") /\ Dropping = Uncounted("remove")
      BY <3>1 DEF Adding, Dropping
    <3> QED
      BY <3>2 DEF TableInv, Counted
  <2> QED
    BY <2>1, <2>2 DEF CountersAgree
<1> QED
  BY <1>1, TableInvAlways, PTL

\* A step that moves t's program counter is t's own.
LEMMA OwnStep ==
    ASSUME TableInv, Next, NEW t \in Thread, pc'[t] # pc[t]
    PROVE  BeginWrite(t) \/ ReadRoot(t) \/ Step(t)
<1>1. PICK u \in Thread : BeginWrite(u) \/ ReadRoot(u) \/ Step(u)
  BY DEF Next
<1>2. Alone(u)
  BY <1>1, StepsAlone
<1>3. u = t
  BY <1>2 DEF Alone
<1> QED
  BY <1>1, <1>3

\* hi_get and the bucket walk, which start from a root read before the lock, answer exactly
\* unless another call has moved the root in between (hi_rbtree.c:344-372, 403-425).
THEOREM OnlyMovedRootsGoWrong ==
    ASSUME KeysOrdered PROVE Spec => WrongOnlyIfRootMoved
<1>1. ASSUME TableInv, [Next]_vars, NEW t \in Thread, pc[t] = "read", pc'[t] = "rdunlock",
             node[t] = tree[call[t].bucket].root
      PROVE  ReadsExactly(t)
  <2>1. PICK b : b = call[t].bucket
    OBVIOUS
  <2>2. ReadFreed(t) \/ Get(t) \/ ToArray(t) \/ ToArrayFails(t)
    <3>1. BeginWrite(t) \/ ReadRoot(t) \/ Step(t)
      <4>1. ~ UNCHANGED vars
        BY <1>1 DEF vars
      <4> QED
        BY <1>1, <4>1, OwnStep
    <3>2. /\ ~BeginWrite(t) /\ ~ReadRoot(t) /\ ~WrLock(t) /\ ~InsertRefused(t) /\ ~InsertLink(t)
          /\ ~InsertColorRecolour(t) /\ ~InsertColorInner(t) /\ ~InsertColorOuter(t)
          /\ ~InsertColorDone(t) /\ ~RemoveMisses(t) /\ ~RemoveErase(t)
          /\ ~EraseColorRedSibling(t) /\ ~EraseColorRecolour(t) /\ ~EraseColorNear(t)
          /\ ~EraseColorFar(t) /\ ~EraseColorDone(t) /\ ~RemoveFree(t) /\ ~WrUnlock(t)
          /\ ~CountObjects(t) /\ ~RdLock(t) /\ ~RdUnlock(t)
      BY <1>1 DEF BeginWrite, ReadRoot, WrLock, InsertRefused, InsertLink, InsertColorRecolour,
                  InsertColorInner, InsertColorOuter, InsertColorDone, RemoveMisses, RemoveErase,
                  EraseColorRedSibling, EraseColorRecolour, EraseColorNear, EraseColorFar,
                  EraseColorDone, RemoveFree, WrUnlock, CountObjects, RdLock, RdUnlock
    <3> QED
      BY <3>1, <3>2 DEF Step
  <2>3. b \in Bucket /\ writer[b] = NoOwner
    BY <1>1, <2>1 DEF TableInv, IndInv, LockTypes, ReaderHolds, NoReaders, Reading
  <2> DEFINE T == tree[b]
             M == Members(b)
             k == call[t].key
  <2>4. PICK sub : Shape(T, M, sub)
    BY <1>1, <2>3, TreeAtRest
  <2>5. bucket_size[b] = Cardinality(M)
    BY <1>1, <2>3, TreeAtRest
  <2>6. T.root \in M \cup {NULL} /\ sub[T.root] = M /\ IsFiniteSet(M)
    BY <2>4 DEF Shape
  <2>7. Nodes(T) = M /\ Subtree(T, T.root) = M
    BY <2>4, <2>6, NodesAre, SubtreeIs
  <2>8. M \subseteq live
    BY DEF Members
  <2>9. /\ DOMAIN reply = Thread
        /\ \/ call[t].op = "get" /\ k \in Key
           \/ call[t].op = "to_array" /\ node[t] # NULL
    BY <1>1 DEF TableInv, TreeTypes, CallsFit, CallFits, Reading
  <2>10. node[t] = T.root
    BY <1>1, <2>1
  <2> HIDE DEF M, T, k
  <2>11. CASE ReadFreed(t)
    BY <2>6, <2>8, <2>10, <2>11 DEF ReadFreed
  <2>12. CASE Get(t)
    <3>1. call[t].op = "get" /\ reply'[t].code = IF Find(T, k, node[t]) = NULL THEN "NOKEY" ELSE "SUCCESS"
      BY <2>1, <2>9, <2>12 DEF Get, Answer, NoReply, T, k
    <3>2. k \in Key
      BY <2>9, <3>1
    <3>3. Find(T, k, T.root) = IF k \in M THEN k ELSE NULL
      BY <2>4, <2>6, <3>2, FindIs
    <3>4. k # NULL
      BY <3>2, RBTreeAssumption
    <3>5. reply'[t].code = IF k \in Nodes(T) THEN "SUCCESS" ELSE "NOKEY"
      BY <2>7, <2>10, <3>1, <3>3, <3>4
    <3> QED
      BY <2>1, <3>1, <3>5 DEF ReadsExactly, T, k
  <2>13. CASE ToArray(t)
    <3>1. /\ call[t].op = "to_array"
          /\ reply'[t] = [code |-> "SUCCESS", content |-> Subtree(T, node[t]),
                          unwritten |-> bucket_size[b] - Cardinality(Subtree(T, node[t]))]
      BY <2>1, <2>9, <2>13 DEF ToArray, T
    <3>2. Cardinality(M) - Cardinality(M) = 0
      <4>1. Cardinality(M) \in Nat
        BY <2>6, FS_CardinalityType
      <4> QED
        BY <4>1
    <3>3. reply'[t].code = "SUCCESS" /\ reply'[t].content = Nodes(T) /\ reply'[t].unwritten = 0
      BY <2>5, <2>7, <2>10, <3>1, <3>2
    <3> QED
      BY <2>1, <3>1, <3>3 DEF ReadsExactly, T
  <2>14. CASE ToArrayFails(t)
    <3>1. call[t].op = "to_array" /\ T.root \in M
      BY <2>6, <2>9, <2>10, <2>14 DEF ToArrayFails
    <3>2. bucket_size[b] # 0
      BY <2>5, <2>6, <3>1, FS_EmptySet
    <3>3. MallocMayFail /\ reply'[t].code = "SYSTEM"
      BY <2>1, <2>9, <2>14, <3>2 DEF ToArrayFails, Answer, NoReply
    <3> QED
      BY <3>1, <3>3 DEF ReadsExactly
  <2> QED
    BY <2>2, <2>11, <2>12, <2>13, <2>14
<1>2. TableInv /\ [Next]_vars =>
        [\A t \in Thread :
            pc[t] = "read" /\ pc'[t] = "rdunlock" /\ node[t] = tree[call[t].bucket].root
                => ReadsExactly(t)]_vars
  BY <1>1
<1> QED
  BY <1>2, TableInvAlways, PTL DEF Spec, WrongOnlyIfRootMoved

\* Every iteration of rb_insert_color and __rb_erase_color brings its loop nearer to its end
\* (hi_rbtree.c:122-180, 187-270).
THEOREM LoopsGetOn ==
    ASSUME KeysOrdered PROVE Spec => RebalancingEnds
<1>1. ASSUME TableInv, [Next]_vars, NEW t \in Thread, NEW b, b = call[t].bucket,
             pc[t] \in {"insert_color", "erase_color"}, pc'[t] = pc[t], tree'[b] # tree[b]
      PROVE  /\ call' = call
             /\ Measure(tree'[b], pc'[t], node'[t], parent'[t])
                  < Measure(tree[b], pc[t], node[t], parent[t])
  <2>1. PICK u \in Thread : BeginWrite(u) \/ ReadRoot(u) \/ Step(u)
    BY <1>1 DEF Next, vars
  <2>2. b \in Bucket /\ writer[b] = t
    BY <1>1 DEF TableInv, IndInv, LockTypes, WriterHolds, Writing
  <2>3. u = t
    <3>1. /\ pc[u] \in Writing
          /\ \E U : tree' = [tree EXCEPT ![call[u].bucket] = U]
      BY <1>1, <2>1 DEF BeginWrite, ReadRoot, Step, WrLock, InsertRefused, InsertLink,
            InsertColorRecolour, InsertColorInner, InsertColorOuter, InsertColorDone, RemoveMisses,
            RemoveErase, EraseColorRedSibling, EraseColorRecolour, EraseColorNear, EraseColorFar,
            EraseColorDone, RemoveFree, WrUnlock, CountObjects, RdLock, ReadFreed, Get, ToArray,
            ToArrayFails, RdUnlock, Writing
    <3>2. writer[call[u].bucket] = u
      BY <3>1, <1>1 DEF TableInv, IndInv, WriterHolds
    <3>3. call[u].bucket = b
      BY <3>1, <1>1, <2>2 DEF TableInv, TreeTypes
    <3> QED
      BY <2>2, <3>2, <3>3
  <2>4. \/ InsertColorRecolour(t) \/ InsertColorInner(t) \/ InsertColorOuter(t)
        \/ EraseColorRedSibling(t) \/ EraseColorRecolour(t) \/ EraseColorNear(t) \/ EraseColorFar(t)
    <3>1. DOMAIN pc = Thread
      BY <1>1 DEF TableInv, IndInv, LockTypes
    <3>2. ~InsertColorDone(t) /\ ~EraseColorDone(t)
      BY <3>1, <1>1 DEF InsertColorDone, EraseColorDone, Goto
    <3>3. /\ ~BeginWrite(t) /\ ~ReadRoot(t) /\ ~WrLock(t) /\ ~InsertRefused(t) /\ ~InsertLink(t)
          /\ ~RemoveMisses(t) /\ ~RemoveErase(t) /\ ~RemoveFree(t) /\ ~WrUnlock(t)
          /\ ~CountObjects(t) /\ ~RdLock(t) /\ ~ReadFreed(t) /\ ~Get(t) /\ ~ToArray(t)
          /\ ~ToArrayFails(t) /\ ~RdUnlock(t)
      BY <1>1 DEF BeginWrite, ReadRoot, WrLock, InsertRefused, InsertLink, RemoveMisses, RemoveErase,
                  RemoveFree, WrUnlock, CountObjects, RdLock, ReadFreed, Get, ToArray, ToArrayFails,
                  RdUnlock
    <3> QED
      BY <2>1, <2>3, <3>2, <3>3 DEF Step
  <2>5. CASE InsertColorRecolour(t) \/ InsertColorInner(t) \/ InsertColorOuter(t)
    <3>1. pc[t] = "insert_color" /\ call' = call
      BY <2>5 DEF InsertColorRecolour, InsertColorInner, InsertColorOuter, locals
    <3>2. InsertMeasure(tree'[b], node'[t]) < InsertMeasure(tree[b], node[t])
      BY <1>1, <2>5, InsertColorStep
    <3> QED
      BY <1>1, <3>1, <3>2 DEF Measure
  <2>6. CASE EraseColorRedSibling(t) \/ EraseColorRecolour(t) \/ EraseColorNear(t) \/ EraseColorFar(t)
    <3>1. pc[t] = "erase_color" /\ call' = call
      BY <2>6 DEF EraseColorRedSibling, EraseColorRecolour, EraseColorNear, EraseColorFar, locals
    <3>2. EraseMeasure(tree'[b], node'[t], parent'[t]) < EraseMeasure(tree[b], node[t], parent[t])
      BY <1>1, <2>6, EraseColorStep
    <3> QED
      BY <1>1, <3>1, <3>2 DEF Measure
  <2> QED
    BY <2>4, <2>5, <2>6
<1>2. TableInv /\ [Next]_vars =>
        [\A t \in Thread :
            LET b == call[t].bucket IN
            pc[t] \in {"insert_color", "erase_color"} /\ pc'[t] = pc[t] /\ tree'[b] # tree[b] =>
                Measure(tree[b], pc[t], node[t], parent[t])'
                    < Measure(tree[b], pc[t], node[t], parent[t])]_vars
  BY <1>1
<1> QED
  BY <1>2, TableInvAlways, PTL DEF Spec, RebalancingEnds
=============================================================================
