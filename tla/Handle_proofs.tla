--------------------------- MODULE Handle_proofs ---------------------------
(***************************************************************************)
(* Proofs about Handle: through creation, self-rehashing, removals, failed *)
(* allocations and another thread's call in hi_rehash, every entry stays   *)
(* in the bucket its key hashes to, no_objects counts the entries, a       *)
(* call that never returns has met an array engine's mutex, a table takes  *)
(* one entry more than its load at most, the loop of hi_rehash ends, it    *)
(* loses no entry unless a bucket changes while it is read, an iterator    *)
(* yields every entry once, and the process ends only in the places named. *)
(***************************************************************************)
EXTENDS Handle, SequenceLemmas

(***************************************************************************)
(* The shape of a handle: a list or tree bucket holds keys, an array       *)
(* bucket holds keys and free slots or has lost its array.                 *)
(***************************************************************************)
Slot(e) == IF e \in ArrayEngine THEN Key \cup {FREE, LOST} ELSE Key

Shape(e, n) ==
    [coll_eng: {e}, table_size: {n}, coll_eng_array_size: Nat, rehash_auto: BOOLEAN,
     bucket: [0 .. n - 1 -> Seq(Slot(e))], no_objects: Int, locked: BOOLEAN]

IsHandle(H) == \E e \in Engine \cup {NoEngine}, n \in Nat : H \in Shape(e, n)

IsSet(s) ==
    s \in [table_size: Nat, rehash_auto: BOOLEAN, coll_eng_array_size: Nat,
           coll_eng: Engine \cup {NoEngine}, hash_func: HashFunc \cup {NULL},
           hash2_func: HashFunc \cup {NULL}, key_cmp: KeyCmpFunc \cup {NULL}]

LEMMA HandleFields ==
  ASSUME NEW H, IsHandle(H)
  PROVE  /\ H.coll_eng \in Engine \cup {NoEngine} /\ H.table_size \in Nat
         /\ H.coll_eng_array_size \in Nat /\ H.rehash_auto \in BOOLEAN
         /\ H.bucket \in [0 .. H.table_size - 1 -> Seq(Slot(H.coll_eng))]
         /\ H.no_objects \in Int /\ H.locked \in BOOLEAN
  BY DEF IsHandle, Shape

\* One bucket of a table, or one slot of a bucket, replaced.
With(f, x, v) == [f EXCEPT ![x] = v]

\* An operation replaces a bucket, the counter and the state of the mutex.
Changed(H, b, s, n, l) ==
    [H EXCEPT !.no_objects = n, !.bucket = With(@, b, s), !.locked = l]

LEMMA HandleChanged ==
  ASSUME NEW H, IsHandle(H), NEW b \in 0 .. H.table_size - 1, NEW s \in Seq(Slot(H.coll_eng)),
         NEW n \in Int, NEW l \in BOOLEAN
  PROVE  LET G == Changed(H, b, s, n, l) IN
         /\ IsHandle(G)
         /\ G.coll_eng = H.coll_eng /\ G.table_size = H.table_size
         /\ G.coll_eng_array_size = H.coll_eng_array_size /\ G.rehash_auto = H.rehash_auto
         /\ G.bucket = With(H.bucket, b, s)
         /\ G.no_objects = n /\ G.locked = l
<1> DEFINE G == Changed(H, b, s, n, l)
<1>1. PICK e \in Engine \cup {NoEngine}, m \in Nat : H \in Shape(e, m)
  BY DEF IsHandle
<1>2. H.coll_eng = e /\ H.table_size = m /\ H.bucket \in [0 .. m - 1 -> Seq(Slot(e))]
  BY <1>1 DEF Shape
<1>3. With(H.bucket, b, s) \in [0 .. m - 1 -> Seq(Slot(e))]
  BY <1>2 DEF With
<1>4. G \in Shape(e, m)
  BY <1>1, <1>2, <1>3 DEF Shape, Changed, With
<1>5. /\ G.coll_eng = H.coll_eng /\ G.table_size = H.table_size
      /\ G.coll_eng_array_size = H.coll_eng_array_size /\ G.rehash_auto = H.rehash_auto
      /\ G.bucket = With(H.bucket, b, s)
      /\ G.no_objects = n /\ G.locked = l
  BY <1>1 DEF Shape, Changed, With
<1> QED
  BY <1>4, <1>5 DEF IsHandle

(***************************************************************************)
(* The entries of a table, as places of slots.                             *)
(***************************************************************************)
Filled(s) == {i \in DOMAIN s : s[i] \in Key}

\* t has one filled slot more than s.
OneMore(s, t, i) == i \notin Filled(s) /\ Filled(t) = Filled(s) \cup {i}

Sites(f) == UNION {{b} \X Filled(f[b]) : b \in DOMAIN f}

LEMMA EntriesAreSites == \A H : Entries(H) = Sites(H.bucket)
  BY DEF Entries, Sites, Filled

\* What a place says of its bucket.
LEMMA SiteOf ==
  ASSUME NEW f, NEW b, NEW i
  PROVE  <<b, i>> \in Sites(f) <=> b \in DOMAIN f /\ i \in Filled(f[b])
  BY DEF Sites

LEMMA SitesAdded ==
  ASSUME NEW f, NEW b \in DOMAIN f, NEW s, NEW i, OneMore(f[b], s, i)
  PROVE  Sites(With(f, b, s)) = Sites(f) \cup {<<b, i>>} /\ <<b, i>> \notin Sites(f)
<1> DEFINE g == With(f, b, s)
           D == DOMAIN f
<1>1. DOMAIN g = D /\ g[b] = s /\ \A c \in D \ {b} : g[c] = f[c]
  BY DEF With
<1> HIDE DEF g
<1>2. \A x : x \in Sites(g) <=> \E c \in D : x \in {c} \X Filled(g[c])
  BY <1>1 DEF Sites
<1>3. \A x : x \in Sites(f) <=> \E c \in D : x \in {c} \X Filled(f[c])
  BY <1>1 DEF Sites
<1>4. {b} \X Filled(g[b]) = ({b} \X Filled(f[b])) \cup {<<b, i>>}
  BY <1>1 DEF OneMore
<1>5. ASSUME NEW x PROVE x \in Sites(g) <=> x \in Sites(f) \cup {<<b, i>>}
  BY <1>1, <1>2, <1>3, <1>4
<1>6. Sites(g) = Sites(f) \cup {<<b, i>>}
  BY <1>5
<1>7. <<b, i>> \notin Sites(f)
  BY SiteOf DEF OneMore
<1> QED
  BY <1>6, <1>7 DEF g

\* One more slot of a bucket is filled ...
LEMMA SiteAdded ==
  ASSUME NEW f, NEW b \in DOMAIN f, NEW s, NEW i, OneMore(f[b], s, i), IsFiniteSet(Sites(f))
  PROVE  /\ IsFiniteSet(Sites(With(f, b, s)))
         /\ Cardinality(Sites(With(f, b, s))) = Cardinality(Sites(f)) + 1
<1>1. Sites(With(f, b, s)) = Sites(f) \cup {<<b, i>>} /\ <<b, i>> \notin Sites(f)
  BY SitesAdded
<1> QED
  BY <1>1, FS_AddElement

\* ... or freed ...
LEMMA SiteRemoved ==
  ASSUME NEW f, NEW b \in DOMAIN f, NEW s, NEW i, OneMore(s, f[b], i), IsFiniteSet(Sites(f))
  PROVE  /\ IsFiniteSet(Sites(With(f, b, s)))
         /\ Cardinality(Sites(With(f, b, s))) = Cardinality(Sites(f)) - 1
<1> DEFINE g == With(f, b, s)
           d == With(g, b, f[b])
<1>1. DOMAIN g = DOMAIN f /\ g[b] = s /\ \A c \in DOMAIN f : c # b => g[c] = f[c]
  BY DEF With
<1>2. DOMAIN d = DOMAIN f /\ \A c \in DOMAIN f : d[c] = f[c]
  BY <1>1 DEF With
<1>3. Sites(d) = Sites(f)
  <2> HIDE DEF d
  <2>1. \A x : x \in Sites(d) <=> \E c \in DOMAIN f : x \in {c} \X Filled(d[c])
    BY <1>2 DEF Sites
  <2>2. \A x : x \in Sites(f) <=> \E c \in DOMAIN f : x \in {c} \X Filled(f[c])
    BY DEF Sites
  <2> QED
    BY <1>2, <2>1, <2>2
<1>4. Sites(d) = Sites(g) \cup {<<b, i>>} /\ <<b, i>> \notin Sites(g)
  <2>1. b \in DOMAIN g /\ OneMore(g[b], f[b], i)
    BY <1>1
  <2> HIDE DEF g
  <2> QED
    BY <2>1, SitesAdded
<1> HIDE DEF g, d
<1>5. Sites(g) = Sites(f) \ {<<b, i>>} /\ <<b, i>> \in Sites(f)
  BY <1>3, <1>4
<1>6. IsFiniteSet(Sites(g)) /\ Cardinality(Sites(g)) = Cardinality(Sites(f)) - 1
  BY <1>5, FS_RemoveElement
<1> QED
  BY <1>6 DEF g

\* ... or the same ones stay filled, or none.
LEMMA SitesFewer ==
  ASSUME NEW f, NEW b \in DOMAIN f, NEW s, Filled(s) \subseteq Filled(f[b])
  PROVE  /\ Sites(With(f, b, s)) \subseteq Sites(f)
         /\ Filled(s) = Filled(f[b]) => Sites(With(f, b, s)) = Sites(f)
<1> DEFINE g == With(f, b, s)
           D == DOMAIN f
<1>1. DOMAIN g = D /\ g[b] = s /\ \A c \in D \ {b} : g[c] = f[c]
  BY DEF With
<1> HIDE DEF g
<1>2. \A x : x \in Sites(g) <=> \E c \in D : x \in {c} \X Filled(g[c])
  BY <1>1 DEF Sites
<1>3. \A x : x \in Sites(f) <=> \E c \in D : x \in {c} \X Filled(f[c])
  BY <1>1 DEF Sites
<1>4. ASSUME NEW x \in Sites(g) PROVE x \in Sites(f)
  <2>1. PICK c \in D : x \in {c} \X Filled(g[c])
    BY <1>2
  <2>2. x \in {c} \X Filled(f[c])
    BY <1>1, <2>1
  <2> QED
    BY <1>3, <2>2
<1>5. ASSUME Filled(s) = Filled(f[b]), NEW x \in Sites(f) PROVE x \in Sites(g)
  <2>1. PICK c \in D : x \in {c} \X Filled(f[c])
    BY <1>3
  <2>2. x \in {c} \X Filled(g[c])
    BY <1>1, <1>5, <2>1
  <2> QED
    BY <1>2, <2>2
<1>6. Sites(g) \subseteq Sites(f) /\ (Filled(s) = Filled(f[b]) => Sites(g) = Sites(f))
  BY <1>4, <1>5
<1> QED
  BY <1>6 DEF g

(***************************************************************************)
(* What the engines make of a bucket.                                      *)
(***************************************************************************)
LEMMA FirstOf ==
  ASSUME NEW T, NEW s \in Seq(T), NEW v \in Range(s),
         NEW i, i = CHOOSE j \in DOMAIN s : s[j] = v /\ \A m \in 1 .. j - 1 : s[m] # v
  PROVE  i \in 1 .. Len(s) /\ s[i] = v
<1> DEFINE S == {j \in 1 .. Len(s) : s[j] = v}
<1>1. DOMAIN s = 1 .. Len(s) /\ Len(s) \in Nat
  OBVIOUS
<1>2. S \in SUBSET (1 .. Len(s)) /\ S # {}
  BY <1>1 DEF Range
<1>3. PICK j \in S : \A m \in S : j <= m
  <2> HIDE DEF S
  <2> QED
    BY <1>1, <1>2, HasFirst
<1>4. j \in DOMAIN s /\ s[j] = v /\ \A m \in 1 .. j - 1 : s[m] # v
  BY <1>1, <1>3
<1>5. i \in DOMAIN s /\ s[i] = v
  BY <1>4
<1> QED
  BY <1>1, <1>5

\* A bucket with slots has a free one after growing, and nothing else has changed.
LEMMA GrownFacts ==
  ASSUME NEW T, FREE \in T, NEW s \in Seq(T)
  PROVE  /\ Grown(s) \in Seq(T) /\ Filled(Grown(s)) = Filled(s)
         /\ Range(Grown(s)) \subseteq Range(s) \cup {FREE}
         /\ s # <<>> => FREE \in Range(Grown(s))
<1>0. FREE \notin Key
  BY HandleAssumption
<1>1. CASE FREE \in Range(s)
  BY <1>1 DEF Grown
<1>2. CASE FREE \notin Range(s)
  <2> DEFINE g == s \o [i \in 1 .. Len(s) |-> FREE]
  <2>1. Grown(s) = g
    BY <1>2 DEF Grown
  <2>2. Len(s) \in Nat /\ [i \in 1 .. Len(s) |-> FREE] \in Seq(T)
        /\ Len([i \in 1 .. Len(s) |-> FREE]) = Len(s)
    OBVIOUS
  <2>3. /\ g \in Seq(T) /\ Len(g) = Len(s) + Len(s)
        /\ \A j \in 1 .. Len(s) : g[j] = s[j]
        /\ \A j \in Len(s) + 1 .. Len(s) + Len(s) : g[j] = FREE
    BY <2>2, ConcatProperties
  <2> HIDE DEF g
  <2>4. DOMAIN g = 1 .. Len(s) + Len(s) /\ DOMAIN s = 1 .. Len(s)
    BY <2>3
  <2>5. \A j \in DOMAIN g : j \in DOMAIN s \/ j \in Len(s) + 1 .. Len(s) + Len(s)
    BY <2>2, <2>4
  <2>6. DOMAIN s \subseteq DOMAIN g
    BY <2>2, <2>4
  <2>7. Filled(g) = Filled(s)
    BY <1>0, <2>3, <2>4, <2>5, <2>6 DEF Filled
  <2>8. Range(g) \subseteq Range(s) \cup {FREE}
    BY <2>3, <2>4, <2>5 DEF Range
  <2>9. ASSUME s # <<>> PROVE FREE \in Range(g)
    <3>1. Len(s) > 0
      BY <2>2, <2>9, EmptySeq
    <3>2. Len(s) + 1 \in Len(s) + 1 .. Len(s) + Len(s)
      BY <2>2, <3>1
    <3>3. Len(s) + 1 \in DOMAIN g
      BY <2>2, <2>4, <3>1
    <3> QED
      BY <2>3, <3>2, <3>3 DEF Range
  <2> QED
    BY <2>1, <2>3, <2>7, <2>8, <2>9
<1> QED
  BY <1>1, <1>2

\* A key written to a free slot, and a slot freed.
LEMMA FilledWritten ==
  ASSUME NEW T, NEW s \in Seq(T), NEW i \in 1 .. Len(s), NEW v \in T
  PROVE  /\ With(s, i, v) \in Seq(T)
         /\ Range(With(s, i, v)) \subseteq Range(s) \cup {v}
         /\ v \in Key /\ s[i] \notin Key => OneMore(s, With(s, i, v), i)
         /\ v \notin Key /\ s[i] \in Key => OneMore(With(s, i, v), s, i)
<1> DEFINE r == With(s, i, v)
<1>1. /\ r \in Seq(T) /\ DOMAIN r = DOMAIN s /\ DOMAIN s = 1 .. Len(s)
      /\ r[i] = v /\ \A j \in DOMAIN s : j # i => r[j] = s[j]
  BY DEF With
<1> HIDE DEF r
<1>2. Range(r) \subseteq Range(s) \cup {v}
  BY <1>1 DEF Range
<1>3. \A j : j \in Filled(r) <=> j \in DOMAIN s /\ r[j] \in Key
  BY <1>1 DEF Filled
<1>4. \A j : j \in Filled(s) <=> j \in DOMAIN s /\ s[j] \in Key
  BY DEF Filled
<1>5. v \in Key /\ s[i] \notin Key => OneMore(s, r, i)
  BY <1>1, <1>3, <1>4 DEF OneMore
<1>6. v \notin Key /\ s[i] \in Key => OneMore(r, s, i)
  BY <1>1, <1>3, <1>4 DEF OneMore
<1> QED
  BY <1>1, <1>2, <1>5, <1>6 DEF r

\* In a list every place is filled.
LEMMA FilledList == ASSUME NEW s \in Seq(Key) PROVE Filled(s) = 1 .. Len(s)
  BY DEF Filled

LEMMA FilledPrepended ==
  ASSUME NEW s \in Seq(Key), NEW k \in Key
  PROVE  /\ <<k>> \o s \in Seq(Key) /\ Range(<<k>> \o s) \subseteq Range(s) \cup {k}
         /\ OneMore(s, <<k>> \o s, Len(s) + 1)
<1> DEFINE r == <<k>> \o s
<1>1. /\ r \in Seq(Key) /\ Len(r) = Len(s) + 1 /\ r[1] = k /\ Len(s) \in Nat
      /\ \A j \in 2 .. Len(s) + 1 : r[j] = s[j - 1]
  BY PrependProperties
<1> HIDE DEF r
<1>2. ASSUME NEW j \in DOMAIN r PROVE r[j] \in Range(s) \cup {k}
  <2>1. j \in 1 .. Len(s) + 1 /\ DOMAIN s = 1 .. Len(s)
    BY <1>1
  <2>2. j = 1 \/ (j \in 2 .. Len(s) + 1 /\ j - 1 \in DOMAIN s)
    BY <1>1, <2>1
  <2> QED
    BY <1>1, <2>2 DEF Range
<1>3. Range(r) \subseteq Range(s) \cup {k}
  BY <1>2 DEF Range
<1>4. Filled(r) = 1 .. Len(s) + 1 /\ Filled(s) = 1 .. Len(s)
  BY <1>1, FilledList
<1>5. OneMore(s, r, Len(s) + 1)
  BY <1>1, <1>4 DEF OneMore
<1> QED
  BY <1>1, <1>3, <1>5 DEF r

LEMMA FilledRemoved ==
  ASSUME NEW s \in Seq(Key), NEW i \in 1 .. Len(s)
  PROVE  /\ RemoveAt(s, i) \in Seq(Key) /\ Range(RemoveAt(s, i)) \subseteq Range(s)
         /\ OneMore(RemoveAt(s, i), s, Len(s))
<1> DEFINE r == RemoveAt(s, i)
<1>1. /\ r \in Seq(Key) /\ Len(r) = Len(s) - 1 /\ Len(s) \in Nat
      /\ \A j \in 1 .. Len(s) - 1 : r[j] = IF j < i THEN s[j] ELSE s[j + 1]
  BY RemoveAtProperties
<1> HIDE DEF r
<1>2. ASSUME NEW j \in DOMAIN r PROVE r[j] \in Range(s)
  <2>1. j \in 1 .. Len(s) - 1 /\ DOMAIN s = 1 .. Len(s)
    BY <1>1
  <2>2. j \in DOMAIN s /\ j + 1 \in DOMAIN s
    BY <1>1, <2>1
  <2> QED
    BY <1>1, <2>1, <2>2 DEF Range
<1>3. Range(r) \subseteq Range(s)
  BY <1>2 DEF Range
<1>4. Filled(r) = 1 .. Len(s) - 1 /\ Filled(s) = 1 .. Len(s)
  BY <1>1, FilledList
<1>5. OneMore(r, s, Len(s))
  BY <1>1, <1>4 DEF OneMore
<1> QED
  BY <1>1, <1>3, <1>5 DEF r

(***************************************************************************)
(* A handle whose entries are where their keys hash to, and counted, stays *)
(* one.  A bucket that has lost its array is lost for good, and with it    *)
(* the count.                                                              *)
(***************************************************************************)
Sound(H) == IsHandle(H) /\ Placed(H) /\ IsFiniteSet(Entries(H))

\* What an operation makes of a table: one more or one less entry in a bucket, or a
\* bucket that was grown or lost.
Same(H, G) ==
    /\ G.coll_eng = H.coll_eng /\ G.table_size = H.table_size
    /\ G.coll_eng_array_size = H.coll_eng_array_size /\ G.rehash_auto = H.rehash_auto

Replaced(H, G, b, s) == b \in 0 .. H.table_size - 1 /\ G.bucket = With(H.bucket, b, s)

OneMoreHeld(s, t, i) == i \notin Held(s) /\ Held(t) = Held(s) \cup {i}

Grows(H, G) ==
    /\ G.no_objects = H.no_objects + 1
    /\ \E b, s, i : Replaced(H, G, b, s) /\ OneMoreHeld(H.bucket[b], s, i)

Shrinks(H, G) ==
    /\ G.no_objects = H.no_objects - 1
    /\ \E b, s, i : Replaced(H, G, b, s) /\ OneMoreHeld(s, H.bucket[b], i)

Keeps(H, G) ==
    /\ G.no_objects = H.no_objects
    /\ \/ G = H
       \/ \E b, s : Replaced(H, G, b, s) /\ Held(s) \subseteq Held(H.bucket[b])

\* An array that is not lost holds the slots that are filled.
LEMMA HeldFilled == ASSUME NEW s, LOST \notin Range(s) PROVE Held(s) = Filled(s)
  BY DEF Held, Filled, Range

LEMMA BucketChanged ==
  ASSUME NEW H, Sound(H), NEW G, IsHandle(G), G.table_size = H.table_size,
         NEW b \in 0 .. H.table_size - 1, NEW s,
         G.bucket = With(H.bucket, b, s),
         \A k \in Key : k \in Range(s) => k \in Range(H.bucket[b]) \/ b = BucketOf(H, k),
         IsFiniteSet(Entries(G)),
         LOST \in Range(s) \/
           /\ LOST \notin Range(H.bucket[b])
           /\ G.no_objects - H.no_objects = Cardinality(Entries(G)) - Cardinality(Entries(H))
  PROVE  Sound(G)
<1>1. /\ H.bucket \in [0 .. H.table_size - 1 -> Seq(Slot(H.coll_eng))]
      /\ G.no_objects \in Int /\ H.no_objects \in Int
  BY HandleFields DEF Sound
<1>2. /\ DOMAIN G.bucket = 0 .. H.table_size - 1 /\ DOMAIN H.bucket = 0 .. H.table_size - 1
      /\ G.bucket[b] = s
      /\ \A c \in 0 .. H.table_size - 1 : c # b => G.bucket[c] = H.bucket[c]
  BY <1>1 DEF With
<1>3. ASSUME NEW c \in DOMAIN G.bucket, NEW k \in Key, k \in Range(G.bucket[c])
      PROVE  c = BucketOf(G, k)
  <2>1. BucketOf(G, k) = BucketOf(H, k)
    BY DEF BucketOf
  <2>2. k \in Range(H.bucket[c]) \/ c = BucketOf(H, k)
    BY <1>2, <1>3
  <2> QED
    BY <1>2, <2>1, <2>2 DEF Sound, Placed
<1>4. ASSUME ~FiniCrashes(G) PROVE G.no_objects = Cardinality(Entries(G))
  <2>1. LOST \notin Range(s)
    BY <1>2, <1>4 DEF FiniCrashes
  <2>2. ~FiniCrashes(H)
    BY <1>2, <1>4, <2>1 DEF FiniCrashes
  <2>3. H.no_objects = Cardinality(Entries(H))
    BY <2>2 DEF Sound, Placed
  <2>4. Cardinality(Entries(G)) \in Nat /\ Cardinality(Entries(H)) \in Nat
    BY FS_CardinalityType DEF Sound
  <2> QED
    BY <1>1, <2>1, <2>3, <2>4
<1> QED
  BY <1>3, <1>4 DEF Sound, Placed

\* hi_create and hi_rehash begin with a table without entries.
LEMMA NewHandleSound ==
  ASSUME NEW s, s.coll_eng \in Engine \cup {NoEngine}, s.table_size \in Nat,
         s.coll_eng_array_size \in Nat, s.rehash_auto \in BOOLEAN
  PROVE  /\ Sound(NewHandle(s)) /\ ~FiniCrashes(NewHandle(s))
         /\ NewHandle(s).coll_eng = s.coll_eng /\ NewHandle(s).locked = FALSE
<1> DEFINE H == NewHandle(s)
           B == EmptyBuckets(s.coll_eng, s.table_size, s.coll_eng_array_size)
<1>0. FREE \notin Key /\ LOST \notin Key /\ FREE # LOST
  BY HandleAssumption
<1>1. /\ H.bucket = B /\ H.coll_eng = s.coll_eng /\ H.table_size = s.table_size
      /\ H.no_objects = 0 /\ H.locked = FALSE
      /\ H.coll_eng_array_size = s.coll_eng_array_size /\ H.rehash_auto = s.rehash_auto
  BY DEF NewHandle
<1>2. DOMAIN B = 0 .. s.table_size - 1
  BY DEF EmptyBuckets
<1>3. ASSUME NEW b \in DOMAIN B
      PROVE  B[b] \in Seq(Slot(s.coll_eng)) /\ Range(B[b]) \subseteq {FREE} /\ Filled(B[b]) = {}
  <2>1. CASE s.coll_eng \in ArrayEngine
    <3>1. B[b] = [i \in 1 .. s.coll_eng_array_size |-> FREE]
      BY <1>2, <2>1 DEF EmptyBuckets
    <3> QED
      BY <1>0, <2>1, <3>1 DEF Slot, Range, Filled
  <2>2. CASE s.coll_eng \notin ArrayEngine
    <3>1. B[b] = <<>>
      BY <1>2, <2>2 DEF EmptyBuckets
    <3> QED
      BY <2>2, <3>1 DEF Slot, Range, Filled
  <2> QED
    BY <2>1, <2>2
<1>4. B \in [0 .. s.table_size - 1 -> Seq(Slot(s.coll_eng))]
  BY <1>2, <1>3 DEF EmptyBuckets
<1>5. Entries(H) = {}
  BY <1>1, <1>3, EntriesAreSites DEF Sites
<1> HIDE DEF B
<1>6. H \in Shape(s.coll_eng, s.table_size)
  BY <1>1, <1>4 DEF NewHandle, Shape, B
<1>7. IsHandle(H)
  BY <1>6 DEF IsHandle
<1>8. Placed(H)
  BY <1>0, <1>1, <1>3, <1>5, FS_EmptySet DEF Placed
<1>9. ~FiniCrashes(H)
  BY <1>0, <1>1, <1>3 DEF FiniCrashes
<1> QED
  BY <1>1, <1>5, <1>7, <1>8, <1>9, FS_EmptySet DEF Sound

LEMMA NoHandleSound == Sound(NoHandle) /\ ~FiniCrashes(NoHandle) /\ NoHandle.locked = FALSE
<1> DEFINE s == [coll_eng |-> NoEngine, table_size |-> 0, coll_eng_array_size |-> 0,
                 rehash_auto |-> FALSE]
<1>1. NoHandle = NewHandle(s)
  BY DEF NoHandle, NewHandle
<1>2. /\ s.coll_eng \in Engine \cup {NoEngine} /\ s.table_size \in Nat
      /\ s.coll_eng_array_size \in Nat /\ s.rehash_auto \in BOOLEAN
  OBVIOUS
<1> HIDE DEF s
<1> QED
  BY <1>1, <1>2, NewHandleSound

\* self-rehashing is off while the new table is filled, and on again in the handle.
LEMMA RehashAutoKeeps ==
  ASSUME NEW H, Sound(H), NEW a \in BOOLEAN
  PROVE  LET G == [H EXCEPT !.rehash_auto = a]
         IN  Sound(G) /\ G.coll_eng = H.coll_eng /\ G.locked = H.locked
<1> DEFINE G == [H EXCEPT !.rehash_auto = a]
<1>1. PICK e \in Engine \cup {NoEngine}, m \in Nat : H \in Shape(e, m)
  BY DEF Sound, IsHandle
<1>2. G \in Shape(e, m)
  BY <1>1 DEF Shape
<1>3. /\ G.coll_eng = H.coll_eng /\ G.locked = H.locked /\ G.table_size = H.table_size
      /\ G.bucket = H.bucket /\ G.no_objects = H.no_objects
  BY <1>1 DEF Shape
<1>4. IsHandle(G)
  BY <1>2 DEF IsHandle
<1> HIDE DEF G
<1>5. Placed(G) /\ IsFiniteSet(Entries(G))
  BY <1>3 DEF Sound, Placed, Entries, FiniCrashes, BucketOf
<1> QED
  BY <1>3, <1>4, <1>5 DEF Sound, G

LEMMA BucketOfType ==
  ASSUME NEW H, IsHandle(H), H.table_size # 0, NEW k \in Key
  PROVE  /\ BucketOf(H, k) \in 0 .. H.table_size - 1
         /\ H.bucket[BucketOf(H, k)] \in Seq(Slot(H.coll_eng))
<1>1. H.table_size \in Nat /\ Hash[k] \in Nat
  BY HandleFields, HandleAssumption
<1>2. BucketOf(H, k) \in 0 .. H.table_size - 1
  BY <1>1 DEF BucketOf
<1> QED
  BY <1>2, HandleFields

\* The engine stores k in its bucket.
LEMMA StoresSound ==
  ASSUME NEW H, Sound(H), NEW k \in Key, ~Broken(H, k),
         IsArray(H) => H.bucket[BucketOf(H, k)] # <<>>
  PROVE  /\ Sound(Stores(H, k)) /\ (~FiniCrashes(H) => ~FiniCrashes(Stores(H, k)))
         /\ Stores(H, k).coll_eng = H.coll_eng /\ Stores(H, k).locked = H.locked
         /\ Same(H, Stores(H, k)) /\ Grows(H, Stores(H, k))
<1> DEFINE b == BucketOf(H, k)
           s == H.bucket[b]
           t == IF IsArray(H) THEN [Grown(s) EXCEPT ![FirstFree(Grown(s))] = k] ELSE <<k>> \o s
           i == IF IsArray(H) THEN FirstFree(Grown(s)) ELSE Len(s) + 1
           G == Stores(H, k)
<1>0. /\ LOST \notin Key /\ FREE \notin Key /\ FREE # LOST
      /\ H.table_size # 0 /\ LOST \notin Range(s)
  BY HandleAssumption DEF Broken
<1>1. /\ IsHandle(H) /\ b \in 0 .. H.table_size - 1 /\ s \in Seq(Slot(H.coll_eng))
      /\ H.no_objects \in Int /\ H.locked \in BOOLEAN
      /\ H.bucket \in [0 .. H.table_size - 1 -> Seq(Slot(H.coll_eng))]
  BY <1>0, BucketOfType, HandleFields DEF Sound
<1>2. /\ t \in Seq(Slot(H.coll_eng)) /\ Range(t) \subseteq Range(s) \cup {k, FREE}
      /\ OneMore(s, t, i)
  <2>1. CASE IsArray(H)
    <3>1. Slot(H.coll_eng) = Key \cup {FREE, LOST} /\ s # <<>>
      BY <2>1 DEF Slot, IsArray
    <3>2. /\ Grown(s) \in Seq(Slot(H.coll_eng)) /\ Filled(Grown(s)) = Filled(s)
          /\ Range(Grown(s)) \subseteq Range(s) \cup {FREE} /\ FREE \in Range(Grown(s))
      BY <1>1, <3>1, GrownFacts
    <3>3. i \in 1 .. Len(Grown(s)) /\ Grown(s)[i] = FREE
      <4>1. i = CHOOSE j \in DOMAIN Grown(s) :
                   Grown(s)[j] = FREE /\ \A m \in 1 .. j - 1 : Grown(s)[m] # FREE
        BY <2>1 DEF FirstFree
      <4> HIDE DEF i, s
      <4> QED
        BY <3>2, <4>1, FirstOf
    <3>4. t = With(Grown(s), i, k)
      BY <2>1 DEF With
    <3>5. Grown(s)[i] \notin Key
      BY <1>0, <3>3
    <3>6. k \in Slot(H.coll_eng)
      BY <3>1
    <3> DEFINE r == Grown(s)
    <3>7. r \in Seq(Slot(H.coll_eng)) /\ i \in 1 .. Len(r)
      BY <3>2, <3>3
    <3> HIDE DEF i, s, t, r
    <3>8. /\ With(r, i, k) \in Seq(Slot(H.coll_eng))
          /\ Range(With(r, i, k)) \subseteq Range(r) \cup {k}
          /\ OneMore(r, With(r, i, k), i)
      BY <3>5, <3>6, <3>7, FilledWritten DEF r
    <3> QED
      BY <3>2, <3>4, <3>8 DEF r, OneMore
  <2>2. CASE ~IsArray(H)
    <3>1. Slot(H.coll_eng) = Key /\ t = <<k>> \o s /\ i = Len(s) + 1
      BY <2>2 DEF Slot, IsArray
    <3>2. s \in Seq(Key)
      BY <1>1, <3>1
    <3> HIDE DEF i, s, t
    <3> QED
      BY <3>1, <3>2, FilledPrepended
  <2> QED
    BY <2>1, <2>2
<1>3. G = Changed(H, b, t, H.no_objects + 1, H.locked)
  <2>1. G = [H EXCEPT !.no_objects = H.no_objects + 1, !.bucket = [@ EXCEPT ![b] = t]]
    BY DEF Stores
  <2>2. PICK e \in Engine \cup {NoEngine}, m \in Nat : H \in Shape(e, m)
    BY <1>1 DEF IsHandle
  <2> HIDE DEF G, t, b
  <2> QED
    BY <2>1, <2>2 DEF Shape, Changed, With
<1> HIDE DEF G, t, b, i
<1>4. H.no_objects + 1 \in Int
  BY <1>1
<1>5. /\ IsHandle(G) /\ G.coll_eng = H.coll_eng /\ G.table_size = H.table_size
      /\ G.coll_eng_array_size = H.coll_eng_array_size /\ G.rehash_auto = H.rehash_auto
      /\ G.bucket = With(H.bucket, b, t)
      /\ G.no_objects = H.no_objects + 1 /\ G.locked = H.locked
  BY <1>1, <1>2, <1>3, <1>4, HandleChanged
<1>6. IsFiniteSet(Entries(G)) /\ Cardinality(Entries(G)) = Cardinality(Entries(H)) + 1
  <2> DEFINE f == H.bucket
  <2>1. b \in DOMAIN f /\ OneMore(f[b], t, i) /\ IsFiniteSet(Sites(f))
    BY <1>1, <1>2, EntriesAreSites DEF Sound
  <2> HIDE DEF f
  <2>2. /\ IsFiniteSet(Sites(With(f, b, t)))
        /\ Cardinality(Sites(With(f, b, t))) = Cardinality(Sites(f)) + 1
    BY <2>1, SiteAdded
  <2> QED
    BY <1>5, <2>2, EntriesAreSites DEF f
<1>7. G.no_objects - H.no_objects = Cardinality(Entries(G)) - Cardinality(Entries(H))
  <2>1. Cardinality(Entries(H)) \in Nat
    BY FS_CardinalityType DEF Sound
  <2> QED
    BY <1>1, <1>5, <1>6, <2>1
<1>8. \A x \in Key : x \in Range(t) => x \in Range(H.bucket[b]) \/ b = BucketOf(H, x)
  BY <1>0, <1>2 DEF b
<1>9. Sound(G)
  <2>1. IsHandle(G) /\ G.table_size = H.table_size /\ G.bucket = With(H.bucket, b, t)
    BY <1>5
  <2>2. LOST \notin Range(H.bucket[b]) /\ b \in 0 .. H.table_size - 1
    BY <1>0, <1>1
  <2> QED
    BY <1>6, <1>7, <1>8, <2>1, <2>2, BucketChanged
<1>10. LOST \notin Range(t)
  BY <1>0, <1>2
<1>11. ~FiniCrashes(H) => ~FiniCrashes(G)
  BY <1>1, <1>5, <1>10 DEF FiniCrashes, With
<1>12. Grows(H, G)
  <2>1. Replaced(H, G, b, t)
    BY <1>1, <1>5 DEF Replaced
  <2>2. Held(t) = Filled(t) /\ Held(H.bucket[b]) = Filled(H.bucket[b])
    BY <1>0, <1>10, HeldFilled
  <2>3. OneMoreHeld(H.bucket[b], t, i)
    BY <1>2, <2>2 DEF OneMoreHeld, OneMore
  <2> QED
    BY <1>5, <2>1, <2>3 DEF Grows
<1> QED
  BY <1>5, <1>9, <1>11, <1>12 DEF G, Same

LEMMA FoundBoolean == ASSUME NEW H, NEW k PROVE FindsKey(H, k) \subseteq BOOLEAN
<1> DEFINE there == CountOf(H, k) > 0
           e == H.coll_eng
<1>1. there \in BOOLEAN
  OBVIOUS
<1> HIDE DEF there
<1>2. CASE e \in {"LIST", "LIST_MTF", "ARRAY", "RBTREE"}
  <2>1. FindsKey(H, k) = {there}
    BY <1>2, Zenon DEF FindsKey, there
  <2> QED
    BY <1>1, <2>1
<1>3. CASE e \in {"LIST_HASH", "LIST_MTF_HASH"}
  <2>1. e \notin {"LIST", "LIST_MTF", "ARRAY", "RBTREE"}
    BY <1>3
  <2>2. FindsKey(H, k) = {FALSE, there}
    BY <1>3, <2>1, Zenon DEF FindsKey, there
  <2> QED
    BY <1>1, <2>2
<1>4. CASE e \notin {"LIST", "LIST_MTF", "ARRAY", "RBTREE", "LIST_HASH", "LIST_MTF_HASH"}
  <2>1. FindsKey(H, k) = {FALSE}
    BY <1>4 DEF FindsKey
  <2> QED
    BY <2>1
<1> QED
  BY <1>2, <1>3, <1>4

\* An engine that finds a key has it in its bucket.
LEMMA FoundThere ==
  ASSUME NEW H, Sound(H), NEW k \in Key, TRUE \in FindsKey(H, k)
  PROVE  /\ H.table_size # 0 /\ k \in Range(H.bucket[BucketOf(H, k)])
         /\ IsArray(H) => H.coll_eng = "ARRAY"
<1>1. CountOf(H, k) > 0 /\ (IsArray(H) => H.coll_eng = "ARRAY")
  BY DEF FindsKey, IsArray, ArrayEngine
<1>2. PICK b \in DOMAIN H.bucket : k \in Range(H.bucket[b])
  <2>1. SUFFICES ASSUME \A b \in DOMAIN H.bucket : k \notin Range(H.bucket[b]) PROVE FALSE
    OBVIOUS
  <2>2. \A b \in DOMAIN H.bucket : {i \in DOMAIN H.bucket[b] : H.bucket[b][i] = k} = {}
    BY <2>1 DEF Range
  <2>3. CountOf(H, k) = Cardinality({})
    <3>1. \A b \in DOMAIN H.bucket :
             {<<b, i>> : i \in {i \in DOMAIN H.bucket[b] : H.bucket[b][i] = k}} = {}
      BY <2>2
    <3>2. UNION {{<<b, i>> : i \in {i \in DOMAIN H.bucket[b] : H.bucket[b][i] = k}}
                    : b \in DOMAIN H.bucket} = {}
      BY <3>1
    <3> QED
      BY <3>2 DEF CountOf
  <2> QED
    BY <1>1, <2>3, FS_EmptySet
<1>3. b = BucketOf(H, k) /\ DOMAIN H.bucket = 0 .. H.table_size - 1 /\ H.table_size \in Nat
  BY <1>2, HandleFields DEF Sound, Placed
<1> QED
  BY <1>1, <1>2, <1>3

LEMMA RemovesSound ==
  ASSUME NEW H, Sound(H), NEW k \in Key, TRUE \in FindsKey(H, k),
         H.coll_eng = "ARRAY" => ~Broken(H, k)
  PROVE  /\ Sound(Removes(H, k))
         /\ Removes(H, k).coll_eng = H.coll_eng /\ Removes(H, k).locked = H.locked
         /\ Same(H, Removes(H, k)) /\ Shrinks(H, Removes(H, k))
         /\ ~FiniCrashes(H) => ~FiniCrashes(Removes(H, k))
<1> DEFINE b == BucketOf(H, k)
           s == H.bucket[b]
           i == CHOOSE i \in DOMAIN s : s[i] = k /\ \A j \in 1 .. i - 1 : s[j] # k
           t == IF IsArray(H) THEN With(s, i, FREE) ELSE RemoveAt(s, i)
           G == Removes(H, k)
<1>0. /\ LOST \notin Key /\ FREE \notin Key /\ FREE # LOST /\ k \in Range(s)
      /\ H.table_size # 0 /\ (IsArray(H) => LOST \notin Range(s))
  BY HandleAssumption, FoundThere DEF Broken
<1>1. /\ IsHandle(H) /\ b \in 0 .. H.table_size - 1 /\ s \in Seq(Slot(H.coll_eng))
      /\ H.no_objects \in Int /\ H.locked \in BOOLEAN
      /\ H.bucket \in [0 .. H.table_size - 1 -> Seq(Slot(H.coll_eng))]
  BY <1>0, BucketOfType, HandleFields DEF Sound
<1>2. i \in 1 .. Len(s) /\ s[i] = k
  <2> HIDE DEF s
  <2> QED
    BY <1>0, <1>1, FirstOf
<1>3. PICK x : /\ t \in Seq(Slot(H.coll_eng)) /\ Range(t) \subseteq Range(s) \cup {FREE}
               /\ LOST \notin Range(s) /\ OneMore(t, s, x)
  <2>1. CASE IsArray(H)
    <3>1. Slot(H.coll_eng) = Key \cup {FREE, LOST} /\ t = With(s, i, FREE)
      BY <2>1 DEF Slot, IsArray
    <3>2. FREE \in Slot(H.coll_eng) /\ FREE \notin Key /\ s[i] \in Key
      BY <1>0, <1>2, <3>1
    <3> HIDE DEF i, s, t
    <3>3. /\ With(s, i, FREE) \in Seq(Slot(H.coll_eng))
          /\ Range(With(s, i, FREE)) \subseteq Range(s) \cup {FREE}
          /\ OneMore(With(s, i, FREE), s, i)
      BY <1>1, <1>2, <3>2, FilledWritten
    <3> QED
      BY <1>0, <2>1, <3>1, <3>3
  <2>2. CASE ~IsArray(H)
    <3>1. Slot(H.coll_eng) = Key /\ t = RemoveAt(s, i)
      BY <2>2 DEF Slot, IsArray
    <3>2. s \in Seq(Key) /\ LOST \notin Range(s)
      BY <1>0, <1>1, <3>1 DEF Range
    <3> HIDE DEF i, s, t
    <3>3. /\ RemoveAt(s, i) \in Seq(Key) /\ Range(RemoveAt(s, i)) \subseteq Range(s)
          /\ OneMore(RemoveAt(s, i), s, Len(s))
      BY <1>2, <3>2, FilledRemoved
    <3> QED
      BY <3>1, <3>2, <3>3
  <2> QED
    BY <2>1, <2>2
<1>4. G = Changed(H, b, t, H.no_objects - 1, H.locked)
  <2>1. G = [H EXCEPT !.no_objects = H.no_objects - 1, !.bucket = With(@, b, t)]
    BY DEF Removes, With
  <2>2. PICK e \in Engine \cup {NoEngine}, m \in Nat : H \in Shape(e, m)
    BY <1>1 DEF IsHandle
  <2> HIDE DEF G, t, b
  <2> QED
    BY <2>1, <2>2 DEF Shape, Changed, With
<1> HIDE DEF G, t, i
<1>5. H.no_objects - 1 \in Int
  BY <1>1
<1>6. /\ IsHandle(G) /\ G.coll_eng = H.coll_eng /\ G.table_size = H.table_size
      /\ G.coll_eng_array_size = H.coll_eng_array_size /\ G.rehash_auto = H.rehash_auto
      /\ G.bucket = With(H.bucket, b, t)
      /\ G.no_objects = H.no_objects - 1 /\ G.locked = H.locked
  <2> HIDE DEF b
  <2> QED
    BY <1>1, <1>3, <1>4, <1>5, HandleChanged
<1>7. IsFiniteSet(Entries(G)) /\ Cardinality(Entries(G)) = Cardinality(Entries(H)) - 1
  <2> DEFINE f == H.bucket
  <2>1. b \in DOMAIN f /\ OneMore(t, f[b], x) /\ IsFiniteSet(Sites(f))
    BY <1>1, <1>3, EntriesAreSites DEF Sound
  <2> HIDE DEF f, b
  <2>2. /\ IsFiniteSet(Sites(With(f, b, t)))
        /\ Cardinality(Sites(With(f, b, t))) = Cardinality(Sites(f)) - 1
    BY <2>1, SiteRemoved
  <2> QED
    BY <1>6, <2>2, EntriesAreSites DEF f
<1>8. G.no_objects - H.no_objects = Cardinality(Entries(G)) - Cardinality(Entries(H))
  <2>1. Cardinality(Entries(H)) \in Nat
    BY FS_CardinalityType DEF Sound
  <2> QED
    BY <1>1, <1>6, <1>7, <2>1
<1>9. \A y \in Key : y \in Range(t) => y \in Range(H.bucket[b]) \/ b = BucketOf(H, y)
  BY <1>0, <1>3
<1>10. Sound(G)
  <2>1. IsHandle(G) /\ G.table_size = H.table_size /\ G.bucket = With(H.bucket, b, t)
    BY <1>6
  <2>2. LOST \notin Range(H.bucket[b]) /\ b \in 0 .. H.table_size - 1
    BY <1>1, <1>3
  <2> HIDE DEF b
  <2> QED
    BY <1>7, <1>8, <1>9, <2>1, <2>2, BucketChanged
<1>11. Shrinks(H, G)
  <2>1. Replaced(H, G, b, t)
    BY <1>1, <1>6 DEF Replaced
  <2>2. Held(t) = Filled(t) /\ Held(H.bucket[b]) = Filled(H.bucket[b])
    BY <1>0, <1>3, HeldFilled
  <2>3. OneMoreHeld(t, H.bucket[b], x)
    BY <1>3, <2>2 DEF OneMoreHeld, OneMore
  <2> QED
    BY <1>6, <2>1, <2>3 DEF Shrinks
<1>12. ~FiniCrashes(H) => ~FiniCrashes(G)
  <2>1. LOST \notin Range(t)
    BY <1>0, <1>3
  <2> HIDE DEF b
  <2> QED
    BY <1>1, <1>6, <2>1 DEF FiniCrashes, With
<1> QED
  BY <1>6, <1>10, <1>11, <1>12 DEF G, Same

\* A failed insertion may leave the bucket grown and the mutex locked, or the bucket lost.
LEMMA FailureSound ==
  ASSUME NEW H, Sound(H), NEW k \in Key, ~Broken(H, k), env.threadsafe \in BOOLEAN,
         IsArray(H) => H.bucket[BucketOf(H, k)] # <<>>, NEW o \in InsertFailures(H, k)
  PROVE  /\ Sound(o.h) /\ o.code = "SYSTEM" /\ o.h.coll_eng = H.coll_eng
         /\ Same(H, o.h) /\ Keeps(H, o.h)
         /\ o.h.locked => H.locked \/ (IsArray(H) /\ env.threadsafe)
<1> DEFINE b == BucketOf(H, k)
           s == H.bucket[b]
           G == [H EXCEPT !.bucket[b] = Grown(s), !.locked = env.threadsafe]
           L == [H EXCEPT !.bucket[b] = <<LOST>>]
<1>0. /\ LOST \notin Key /\ FREE \notin Key /\ FREE # LOST
      /\ H.table_size # 0 /\ LOST \notin Range(s)
  BY HandleAssumption DEF Broken
<1>1. /\ IsHandle(H) /\ b \in 0 .. H.table_size - 1 /\ s \in Seq(Slot(H.coll_eng))
      /\ H.no_objects \in Int /\ H.locked \in BOOLEAN
      /\ H.bucket \in [0 .. H.table_size - 1 -> Seq(Slot(H.coll_eng))]
  BY <1>0, BucketOfType, HandleFields DEF Sound
<1>2. PICK e \in Engine \cup {NoEngine}, m \in Nat : H \in Shape(e, m)
  BY <1>1 DEF IsHandle
<1>3. \/ o = Outcome(H, "SYSTEM")
      \/ IsArray(H) /\ o = Outcome(G, "SYSTEM")
      \/ IsArray(H) /\ FREE \notin Range(s) /\ o = Outcome(L, "SYSTEM")
  BY DEF InsertFailures
<1>4. CASE o = Outcome(H, "SYSTEM")
  BY <1>4 DEF Outcome, Same, Keeps
<1>5. CASE IsArray(H) /\ o = Outcome(G, "SYSTEM")
  <2>1. G = Changed(H, b, Grown(s), H.no_objects, env.threadsafe)
    <3> DEFINE t == Grown(s)
    <3>1. G = [H EXCEPT !.bucket = With(@, b, t), !.locked = env.threadsafe]
      BY DEF With
    <3> HIDE DEF G, b, t
    <3> QED
      BY <1>2, <3>1 DEF Shape, Changed, With, t
  <2>2. FREE \in Slot(H.coll_eng)
    BY <1>5 DEF Slot, IsArray
  <2> DEFINE t == Grown(s)
  <2>3. /\ t \in Seq(Slot(H.coll_eng)) /\ Filled(t) = Filled(s)
        /\ Range(t) \subseteq Range(s) \cup {FREE}
    <3> HIDE DEF s
    <3> QED
      BY <1>1, <2>2, GrownFacts
  <2> HIDE DEF G, t
  <2>4. /\ IsHandle(G) /\ G.coll_eng = H.coll_eng /\ G.table_size = H.table_size
        /\ G.coll_eng_array_size = H.coll_eng_array_size /\ G.rehash_auto = H.rehash_auto
        /\ G.bucket = With(H.bucket, b, t)
        /\ G.no_objects = H.no_objects /\ G.locked = env.threadsafe
    <3>1. G = Changed(H, b, t, H.no_objects, env.threadsafe)
      BY <2>1 DEF t
    <3> HIDE DEF b
    <3> QED
      BY <1>1, <2>3, <3>1, HandleChanged
  <2>5. Entries(G) = Entries(H)
    <3> DEFINE f == H.bucket
    <3>1. b \in DOMAIN f /\ Filled(t) = Filled(f[b])
      BY <1>1, <2>3
    <3> HIDE DEF f, b
    <3>2. Sites(With(f, b, t)) = Sites(f)
      BY <3>1, SitesFewer
    <3> QED
      BY <2>4, <3>2, EntriesAreSites DEF f
  <2>6. \A y \in Key : y \in Range(t) => y \in Range(H.bucket[b]) \/ b = BucketOf(H, y)
    BY <1>0, <2>3
  <2>7. /\ IsFiniteSet(Entries(G))
        /\ G.no_objects - H.no_objects = Cardinality(Entries(G)) - Cardinality(Entries(H))
    <3>1. IsFiniteSet(Entries(H)) /\ Cardinality(Entries(H)) \in Nat
      BY FS_CardinalityType DEF Sound
    <3> QED
      BY <1>1, <2>4, <2>5, <3>1
  <2>8. Sound(G)
    <3>1. IsHandle(G) /\ G.table_size = H.table_size /\ G.bucket = With(H.bucket, b, t)
      BY <2>4
    <3>2. LOST \notin Range(H.bucket[b]) /\ b \in 0 .. H.table_size - 1
      BY <1>0, <1>1
    <3> HIDE DEF b
    <3> QED
      BY <2>6, <2>7, <3>1, <3>2, BucketChanged
  <2>9. o.h = G /\ o.code = "SYSTEM"
    BY <1>5 DEF Outcome
  <2>10. Keeps(H, G)
    <3>1. LOST \notin Range(t)
      BY <1>0, <2>3
    <3>2. Held(t) = Held(H.bucket[b])
      BY <1>0, <2>3, <3>1, HeldFilled
    <3> QED
      BY <1>1, <2>4, <3>2 DEF Keeps, Replaced
  <2> QED
    BY <1>5, <2>4, <2>8, <2>9, <2>10 DEF Same
<1>6. CASE IsArray(H) /\ FREE \notin Range(s) /\ o = Outcome(L, "SYSTEM")
  <2> DEFINE t == <<LOST>>
  <2>1. L = Changed(H, b, t, H.no_objects, H.locked)
    <3>1. L = [H EXCEPT !.bucket = With(@, b, t)]
      BY DEF With
    <3> HIDE DEF L, b, t
    <3> QED
      BY <1>2, <3>1 DEF Shape, Changed, With
  <2>2. LOST \in Slot(H.coll_eng)
    BY <1>6 DEF Slot, IsArray
  <2>3. t \in Seq(Slot(H.coll_eng)) /\ Filled(t) = {} /\ Range(t) = {LOST}
    BY <1>0, <2>2 DEF Filled, Range
  <2> HIDE DEF L, t
  <2>4. /\ IsHandle(L) /\ L.coll_eng = H.coll_eng /\ L.table_size = H.table_size
        /\ L.coll_eng_array_size = H.coll_eng_array_size
        /\ L.rehash_auto = H.rehash_auto /\ L.no_objects = H.no_objects
        /\ L.bucket = With(H.bucket, b, t) /\ L.locked = H.locked
    <3> HIDE DEF b
    <3> QED
      BY <1>1, <2>1, <2>3, HandleChanged
  <2>5. IsFiniteSet(Entries(L))
    <3> DEFINE f == H.bucket
    <3>1. b \in DOMAIN f /\ Filled(t) \subseteq Filled(f[b])
      BY <1>1, <2>3
    <3> HIDE DEF f, b
    <3>2. Sites(With(f, b, t)) \subseteq Sites(f)
      BY <3>1, SitesFewer
    <3>3. Entries(L) \in SUBSET Entries(H)
      BY <2>4, <3>2, EntriesAreSites DEF f
    <3> QED
      BY <3>3, FS_Subset DEF Sound
  <2>6. \A y \in Key : y \in Range(t) => y \in Range(H.bucket[b]) \/ b = BucketOf(H, y)
    BY <1>0, <2>3
  <2>7. Sound(L)
    <3>1. IsHandle(L) /\ L.table_size = H.table_size /\ L.bucket = With(H.bucket, b, t)
      BY <2>4
    <3>2. LOST \in Range(t) /\ b \in 0 .. H.table_size - 1
      BY <1>1, <2>3
    <3> HIDE DEF b
    <3> QED
      BY <2>5, <2>6, <3>1, <3>2, BucketChanged
  <2>8. o.h = L /\ o.code = "SYSTEM"
    BY <1>6 DEF Outcome
  <2>9. Keeps(H, L)
    <3>1. Len(s) \in Nat /\ Len(s) # 0 /\ DOMAIN s = 1 .. Len(s)
      BY <1>1, <1>6, EmptySeq
    <3>2. 1 \in DOMAIN s /\ s[1] \in Slot(H.coll_eng)
      BY <1>1, <3>1
    <3>3. s[1] \in Range(s)
      BY <3>2 DEF Range
    <3>4. s[1] \in Key
      BY <1>0, <1>6, <3>2, <3>3 DEF Slot, IsArray
    <3>5. Held(t) \subseteq {1}
      BY DEF Held, t
    <3>6. Held(t) \subseteq Held(H.bucket[b])
      BY <3>2, <3>4, <3>5 DEF Held
    <3> QED
      BY <1>1, <2>4, <3>6 DEF Keeps, Replaced
  <2> QED
    BY <2>4, <2>7, <2>8, <2>9 DEF Same
<1> QED
  BY <1>3, <1>4, <1>5, <1>6

\* Whatever an insertion comes to, and that a new table loses no bucket by a successful one.
LEMMA InsertSound ==
  ASSUME NEW H, Sound(H), NEW k \in Key, ~Broken(H, k), env.threadsafe \in BOOLEAN,
         NEW o \in EngineInsert(H, k)
  PROVE  /\ Sound(o.h) /\ o.h.coll_eng = H.coll_eng
         /\ Same(H, o.h)
         /\ Grows(H, o.h) \/ Keeps(H, o.h)
         /\ o.h.locked => H.locked \/ (IsArray(H) /\ env.threadsafe)
         /\ o.code = "SUCCESS" =>
              o.h.locked = H.locked /\ Grows(H, o.h) /\ (~FiniCrashes(H) => ~FiniCrashes(o.h))
<1>1. CASE o.h = H /\ o.code # "SUCCESS"
  BY <1>1 DEF Same, Keeps
<1>2. CASE o = Outcome(Stores(H, k), "SUCCESS") /\ (IsArray(H) => H.bucket[BucketOf(H, k)] # <<>>)
  <2>1. o.h = Stores(H, k)
    BY <1>2 DEF Outcome
  <2> QED
    BY <1>2, <2>1, StoresSound
<1>3. CASE o \in InsertFailures(H, k) /\ (IsArray(H) => H.bucket[BucketOf(H, k)] # <<>>)
  BY <1>3, FailureSound
<1>4. \/ o \in {Outcome(H, "DUPKEY"), Outcome(H, "SYSTEM"), Outcome(H, "INTERNAL")}
      \/ /\ IsArray(H) => H.bucket[BucketOf(H, k)] # <<>>
         /\ o \in InsertFailures(H, k) \/ o = Outcome(Stores(H, k), "SUCCESS")
  BY DEF EngineInsert
<1> QED
  BY <1>1, <1>2, <1>3, <1>4 DEF Outcome

(***************************************************************************)
(* The inductive invariant.  The mutex of a handle stays locked only when  *)
(* an array's insertion has failed, and the handle hi_rehash fills is one  *)
(* of the same engine, unlocked and without lost buckets.                  *)
(***************************************************************************)
TypeInv ==
    /\ env \in [threadsafe: BOOLEAN, malloc_fails: BOOLEAN]
    /\ IsSet(set)
    /\ call.key \in Key \cup {NULL}
    /\ pc = "inserting" => call.key \in Key

TableInv == Sound(h) /\ Sound(new) /\ ~FiniCrashes(new)

Rehashing == {"moving", "freeing", "copying"}

LockInv ==
    /\ h.locked => IsArray(h) /\ env.threadsafe
    /\ ~new.locked
    /\ pc \in Rehashing => new.coll_eng = h.coll_eng
    /\ pc = "stuck" => IsArray(h) /\ env.threadsafe

IndInv == TypeInv /\ TableInv /\ LockInv

LEMMA InitIndInv == Init => IndInv
<1> SUFFICES ASSUME Init PROVE IndInv
  OBVIOUS
<1>1. TypeInv
  BY DEF Init, TypeInv, IsSet, hi_set_zero, NoCall
<1>2. TableInv
  BY NoHandleSound DEF Init, TableInv
<1>3. LockInv
  BY NoHandleSound DEF Init, LockInv, Rehashing
<1> QED
  BY <1>1, <1>2, <1>3 DEF IndInv

\* Steps that change neither the tables nor the call.
LEMMA QuietStep ==
  ASSUME IndInv, UNCHANGED <<env, h, call, new>>, IsSet(set)', pc' # "inserting" \/ pc' = pc,
         pc' \in Rehashing => pc \in Rehashing,
         pc' = "stuck" => IsArray(h) /\ env.threadsafe
  PROVE  IndInv'
<1>1. TypeInv'
  BY DEF IndInv, TypeInv
<1>2. TableInv'
  BY DEF IndInv, TableInv
<1>3. LockInv'
  BY DEF IndInv, LockInv, IsArray
<1> QED
  BY <1>1, <1>2, <1>3 DEF IndInv

\* The call ends in a hang, which takes a locked mutex, or in a crash.
LEMMA StopStep ==
  ASSUME IndInv, NEW end \in {"stuck", "crashed"}, Stop(end),
         end = "stuck" => IsArray(h) /\ env.threadsafe
  PROVE  IndInv'
<1>1. IsSet(set)'
  BY DEF IndInv, TypeInv, Stop
<1>2. UNCHANGED <<env, h, call, new>> /\ pc' = end
  BY DEF Stop, rehash
<1>3. pc' \notin Rehashing /\ pc' # "inserting"
  BY <1>2 DEF Rehashing
<1> QED
  BY <1>1, <1>2, <1>3, QuietStep

\* hi_rehash leaves the handle, which may be another one, without a new table.
LEMMA ReturnStep ==
  ASSUME IndInv, NEW k \in Key \cup {NULL}, NEW code, call' = [NoCall EXCEPT !.key = k],
         RehashReturns(code), UNCHANGED <<env, set>>,
         Sound(h'), h'.locked => IsArray(h') /\ env.threadsafe
  PROVE  IndInv'
<1>1. call'.key = k
  BY DEF NoCall
<1>2. TypeInv'
  BY <1>1 DEF IndInv, TypeInv, RehashReturns
<1>3. TableInv'
  BY NoHandleSound DEF TableInv, RehashReturns
<1>4. LockInv'
  BY NoHandleSound DEF LockInv, RehashReturns, Rehashing
<1> QED
  BY <1>2, <1>3, <1>4 DEF IndInv

\* hi_rehash builds the new table.
LEMMA BeginStep ==
  ASSUME IndInv, NEW k \in Key \cup {NULL}, NEW n \in Nat, RehashBegins(k, n)
  PROVE  IndInv'
<1>0. /\ Sound(h) /\ (h.locked => IsArray(h) /\ env.threadsafe)
  BY DEF IndInv, TableInv, LockInv
<1>1. CASE WalkHangs(h) /\ Stop("stuck")
  BY <1>0, <1>1, StopStep DEF WalkHangs
<1>2. CASE Stop("crashed")
  BY <1>2, StopStep
<1>3. CASE /\ new' = ForRehash(h, n) /\ pc' = "moving" /\ UNCHANGED <<env, set, h>>
           /\ call' = [key |-> k, target |-> n, was |-> Contents(h)]
  <2> DEFINE g == [h EXCEPT !.table_size = n, !.rehash_auto = FALSE]
  <2>1. PICK e \in Engine \cup {NoEngine}, m \in Nat : h \in Shape(e, m)
    BY <1>0 DEF Sound, IsHandle
  <2>2. /\ g.coll_eng = h.coll_eng /\ g.coll_eng \in Engine \cup {NoEngine}
        /\ g.table_size \in Nat /\ g.coll_eng_array_size \in Nat /\ g.rehash_auto \in BOOLEAN
    BY <2>1 DEF Shape
  <2> HIDE DEF g
  <2>3. /\ Sound(NewHandle(g)) /\ ~FiniCrashes(NewHandle(g))
        /\ NewHandle(g).coll_eng = h.coll_eng /\ NewHandle(g).locked = FALSE
    BY <2>2, NewHandleSound
  <2>4. new' = NewHandle(g)
    BY <1>3 DEF ForRehash, g
  <2>5. TypeInv'
    BY <1>3 DEF IndInv, TypeInv
  <2>6. TableInv'
    BY <1>0, <1>3, <2>3, <2>4 DEF TableInv
  <2>7. LockInv'
    BY <1>0, <1>3, <2>3, <2>4 DEF LockInv, IsArray
  <2> QED
    BY <2>5, <2>6, <2>7 DEF IndInv
<1>4. ASSUME NEW code, call' = [NoCall EXCEPT !.key = k], RehashReturns(code),
             UNCHANGED <<env, set, h>>
      PROVE  IndInv'
  <2>1. Sound(h') /\ (h'.locked => IsArray(h') /\ env.threadsafe)
    BY <1>0, <1>4
  <2> QED
    BY <1>4, <2>1, ReturnStep
<1>5. ASSUME NEW r,
             IF WalkHangs(h) THEN Stop("stuck")
             ELSE IF WalkCrashes(h, r) THEN Stop("crashed")
             ELSE IF r.code = "SUCCESS"
               THEN /\ new' = ForRehash(h, n) /\ walk' = r.it /\ disturbed' = FALSE /\ overtaken' = FALSE
                    /\ call' = [key |-> k, target |-> n, was |-> Contents(h)] /\ pc' = "moving"
                    /\ UNCHANGED <<env, set, h, it, failed, other>>
             ELSE /\ call' = [NoCall EXCEPT !.key = k] /\ RehashReturns(r.code)
                  /\ UNCHANGED <<env, set, h, it, other>>
      PROVE  IndInv'
  <2>1. CASE WalkHangs(h)
    BY <1>1, <1>5, <2>1
  <2>2. CASE ~WalkHangs(h) /\ WalkCrashes(h, r)
    BY <1>2, <1>5, <2>2
  <2>3. CASE ~WalkHangs(h) /\ ~WalkCrashes(h, r) /\ r.code = "SUCCESS"
    BY <1>3, <1>5, <2>3
  <2>4. CASE ~WalkHangs(h) /\ ~WalkCrashes(h, r) /\ r.code # "SUCCESS"
    BY <1>4, <1>5, <2>4
  <2> QED
    BY <2>1, <2>2, <2>3, <2>4
<1>6. CASE /\ call' = [NoCall EXCEPT !.key = k] /\ RehashReturns("SYSTEM")
           /\ UNCHANGED <<env, set, h, it, other>>
  BY <1>4, <1>6
<1>7. \/ \E r : IF WalkHangs(h) THEN Stop("stuck")
              ELSE IF WalkCrashes(h, r) THEN Stop("crashed")
              ELSE IF r.code = "SUCCESS"
                THEN /\ new' = ForRehash(h, n) /\ walk' = r.it /\ disturbed' = FALSE /\ overtaken' = FALSE
                     /\ call' = [key |-> k, target |-> n, was |-> Contents(h)] /\ pc' = "moving"
                     /\ UNCHANGED <<env, set, h, it, failed, other>>
              ELSE /\ call' = [NoCall EXCEPT !.key = k] /\ RehashReturns(r.code)
                   /\ UNCHANGED <<env, set, h, it, other>>
      \/ /\ call' = [NoCall EXCEPT !.key = k] /\ RehashReturns("SYSTEM")
         /\ UNCHANGED <<env, set, h, it, other>>
  BY Zenon DEF RehashBegins
<1> QED
  BY <1>5, <1>6, <1>7

\* An insertion into the new table has failed.
LEMMA AbortStep ==
  ASSUME IndInv, pc = "moving", NEW H, H.coll_eng = h.coll_eng,
         H.locked => IsArray(H) /\ env.threadsafe, NEW code, RehashAborts(H, code)
  PROVE  IndInv'
<1>0. /\ Sound(h) /\ (h.locked => IsArray(h) /\ env.threadsafe) /\ call.key \in Key \cup {NULL}
  BY DEF IndInv, TypeInv, TableInv, LockInv
<1>1. CASE FiniHangs(H) /\ Stop("stuck")
  BY <1>1, StopStep DEF FiniHangs, IsArray
<1>2. CASE Stop("crashed")
  BY <1>2, StopStep
<1>3. CASE /\ call' = [NoCall EXCEPT !.key = call.key] /\ RehashReturns(code)
           /\ UNCHANGED <<env, set, h, it, other>>
  <2>1. Sound(h') /\ (h'.locked => IsArray(h') /\ env.threadsafe)
    BY <1>0, <1>3
  <2> QED
    BY <1>0, <1>3, <2>1, ReturnStep
<1> QED
  BY <1>1, <1>2, <1>3 DEF RehashAborts

\* hi_create, and hi_init_str and its siblings.
LEMMA SetStep ==
  ASSUME NEW s, IsSet(s), NEW t \in AfterSetter(s, Engines, TableSizes, ArraySizes)
  PROVE  IsSet(t)
  BY HandleAssumption DEF AfterSetter, IsSet

LEMMA DefaultIsSet ==
  ASSUME NEW n \in TableSizes \cup {0}, NEW f \in HashFunc, NEW c \in KeyCmpFunc
  PROVE  IsSet(DefaultSet(n, f, c))
<1>1. n \in Nat /\ "LIST" \in Engine
  BY HandleAssumption DEF Engine, ListEngine
<1>2. IsSet(hi_set_zero)
  BY DEF IsSet, hi_set_zero
<1> QED
  BY <1>1, <1>2 DEF IsSet, DefaultSet

LEMMA CreateStep == ASSUME IndInv, pc = "setup", NEW s, IsSet(s), Creates(s) PROVE IndInv'
<1>1. CASE /\ h' = NewHandle(s) /\ pc' = "idle" /\ set' = hi_set_zero
           /\ UNCHANGED <<env, call, new>>
  <2>1. Sound(NewHandle(s)) /\ NewHandle(s).locked = FALSE
    BY NewHandleSound DEF IsSet
  <2>2. IsSet(hi_set_zero)
    BY DEF IsSet, hi_set_zero
  <2>3. TypeInv'
    BY <1>1, <2>2 DEF IndInv, TypeInv
  <2>4. TableInv'
    BY <1>1, <2>1 DEF IndInv, TableInv
  <2>5. LockInv'
    BY <1>1, <2>1 DEF IndInv, LockInv, Rehashing
  <2> QED
    BY <2>3, <2>4, <2>5 DEF IndInv
<1>2. CASE UNCHANGED <<env, set, h, pc, call, new>>
  <2>1. IsSet(set)' /\ pc' = pc
    BY <1>2 DEF IndInv, TypeInv
  <2>2. UNCHANGED <<env, h, call, new>> /\ pc' # "stuck"
    BY <1>2
  <2> QED
    BY <2>1, <2>2, QuietStep
<1> QED
  BY <1>1, <1>2 DEF Creates, rehash

\* One entry is moved.
LEMMA MoveStep == ASSUME IndInv, RehashMove PROVE IndInv'
<1>0. /\ Sound(h) /\ Sound(new) /\ ~FiniCrashes(new) /\ call.key \in Key \cup {NULL}
      /\ (h.locked => IsArray(h) /\ env.threadsafe) /\ ~new.locked
      /\ env.threadsafe \in BOOLEAN /\ pc = "moving" /\ new.coll_eng = h.coll_eng
  BY DEF IndInv, TypeInv, TableInv, LockInv, RehashMove, Rehashing
<1>1. CASE WalkHangs(h) /\ Stop("stuck")
  BY <1>0, <1>1, StopStep DEF WalkHangs
<1>2. CASE Stop("crashed")
  BY <1>2, StopStep
<1>3. CASE /\ pc' = "freeing" /\ UNCHANGED <<env, set, h, call, new>>
  <2>1. UNCHANGED <<env, h, call, new>> /\ IsSet(set)' /\ pc' = "freeing"
    BY <1>3 DEF IndInv, TypeInv
  <2>2. pc \in Rehashing
    BY <1>0 DEF Rehashing
  <2> QED
    BY <2>1, <2>2, QuietStep
<1>4. CASE /\ call' = [NoCall EXCEPT !.key = call.key] /\ RehashReturns("SYSTEM")
           /\ UNCHANGED <<env, set, h, it, other>>
  <2>1. Sound(h') /\ (h'.locked => IsArray(h') /\ env.threadsafe)
    BY <1>0, <1>4
  <2> QED
    BY <1>0, <1>4, <2>1, ReturnStep
<1>5. CASE RehashAborts(new, "DUPKEY")
  BY <1>0, <1>5, AbortStep
<1>6. ASSUME NEW r, NEW k \in Key, new.table_size # 0,
             NEW o \in EngineInsert(new, k),
             IF o.code # "SUCCESS" THEN RehashAborts(o.h, o.code)
             ELSE /\ new' = o.h /\ walk' = Taken(r.it)
                  /\ UNCHANGED <<env, set, h, it, pc, call, disturbed, overtaken, failed, other>>
      PROVE  IndInv'
  <2>1. k \in Key
    OBVIOUS
  <2>2. ~Broken(new, k)
    <3>1. BucketOf(new, k) \in DOMAIN new.bucket
      BY <1>0, <1>6, <2>1, BucketOfType, HandleFields DEF Sound
    <3> QED
      BY <1>0, <1>6, <3>1 DEF Broken, FiniCrashes
  <2>3. /\ Sound(o.h) /\ o.h.coll_eng = new.coll_eng
        /\ o.h.locked => IsArray(new) /\ env.threadsafe
        /\ o.code = "SUCCESS" => o.h.locked = new.locked /\ ~FiniCrashes(o.h)
    BY <1>0, <1>6, <2>1, <2>2, InsertSound
  <2>4. o.h.coll_eng = h.coll_eng /\ (o.h.locked => IsArray(o.h) /\ env.threadsafe)
    BY <1>0, <2>3 DEF IsArray
  <2>5. CASE o.code # "SUCCESS"
    BY <1>0, <1>6, <2>4, <2>5, AbortStep
  <2>6. CASE o.code = "SUCCESS"
    <3>1. new' = o.h /\ UNCHANGED <<env, set, h, pc, call>>
      BY <1>6, <2>6
    <3>2. TypeInv'
      BY <3>1 DEF IndInv, TypeInv
    <3>3. TableInv'
      BY <1>0, <2>3, <2>6, <3>1 DEF TableInv
    <3>4. LockInv'
      BY <1>0, <2>3, <2>4, <2>6, <3>1 DEF LockInv, IsArray
    <3> QED
      BY <3>2, <3>3, <3>4 DEF IndInv
  <2> QED
    BY <2>5, <2>6
<1>7. CASE WalkHangs(h) /\ walk.nmemb = 0
  BY <1>1, <1>7 DEF RehashMove
<1>8. CASE ~(WalkHangs(h) /\ walk.nmemb = 0)
  <2>1. PICK r \in NextEntries(h, walk) :
          LET k == r.it.keys[r.it.nmemb] IN
          IF WalkCrashes(h, r) THEN Stop("crashed")
          ELSE CASE r.code = "NODATA" ->
                      /\ pc' = "freeing" /\ walk' = NoIterator
                      /\ UNCHANGED <<env, set, h, it, call, new, disturbed, overtaken, failed, other>>
                 [] r.code = "SYSTEM" ->
                      /\ call' = [NoCall EXCEPT !.key = call.key] /\ RehashReturns("SYSTEM")
                      /\ UNCHANGED <<env, set, h, it, other>>
                 [] r.code = "SUCCESS" /\ (k \notin Key \/ new.table_size = 0) ->
                      Stop("crashed")
                 [] OTHER ->
                      \/ k \notin Contents(h) /\ Stop("crashed")
                      \/ /\ new.coll_eng \in ListEngine /\ TRUE \in FindsKey(new, k)
                         /\ RehashAborts(new, "DUPKEY")
                      \/ /\ new.coll_eng \in ListEngine => FALSE \in FindsKey(new, k)
                         /\ \E o \in EngineInsert(new, k) :
                              IF o.code # "SUCCESS" THEN RehashAborts(o.h, o.code)
                              ELSE /\ new' = o.h /\ walk' = Taken(r.it)
                                   /\ UNCHANGED <<env, set, h, it, pc, call,
                                                  disturbed, overtaken, failed, other>>
    BY <1>8 DEF RehashMove
  <2> DEFINE k == r.it.keys[r.it.nmemb]
  <2>2. r.code \in {"NODATA", "SYSTEM", "SUCCESS"}
    BY DEF NextEntries, GetNextBucket
  <2> HIDE DEF k
  <2>3. CASE WalkCrashes(h, r)
    BY <1>2, <2>1, <2>3
  <2>4. CASE ~WalkCrashes(h, r) /\ r.code = "NODATA"
    BY <1>3, <2>1, <2>4
  <2>5. CASE ~WalkCrashes(h, r) /\ r.code = "SYSTEM"
    BY <1>4, <2>1, <2>5
  <2>6. CASE /\ ~WalkCrashes(h, r) /\ r.code = "SUCCESS"
             /\ (k \notin Key \/ new.table_size = 0)
    BY <1>2, <2>1, <2>6 DEF k
  <2>7. CASE /\ ~WalkCrashes(h, r) /\ r.code = "SUCCESS"
             /\ k \in Key /\ new.table_size # 0
    <3>1. \/ Stop("crashed")
          \/ RehashAborts(new, "DUPKEY")
          \/ \E o \in EngineInsert(new, k) :
               IF o.code # "SUCCESS" THEN RehashAborts(o.h, o.code)
               ELSE /\ new' = o.h /\ walk' = Taken(r.it)
                    /\ UNCHANGED <<env, set, h, it, pc, call, disturbed, overtaken, failed, other>>
      BY <2>1, <2>7 DEF k
    <3> QED
      BY <1>2, <1>5, <1>6, <2>7, <3>1
  <2> QED
    BY <2>2, <2>3, <2>4, <2>5, <2>6, <2>7
<1> QED
  BY <1>7, <1>8

\* An insertion or a removal, by the call in progress, which ends, or by the other
\* thread during hi_rehash.
LEMMA TableStep ==
  ASSUME IndInv, UNCHANGED <<env, set, new>>, Sound(h'),
         h'.locked => IsArray(h') /\ env.threadsafe,
         \/ pc' = "idle" /\ call' = NoCall
         \/ pc' = pc /\ pc # "stuck" /\ call' = call /\ h'.coll_eng = h.coll_eng
  PROVE  IndInv'
<1>1. TypeInv'
  BY DEF IndInv, TypeInv, NoCall
<1>2. TableInv'
  BY DEF IndInv, TableInv
<1>3. LockInv'
  BY DEF IndInv, LockInv, Rehashing
<1> QED
  BY <1>1, <1>2, <1>3 DEF IndInv

LEMMA InsertStep == ASSUME IndInv, InsertEntry PROVE IndInv'
<1>0. /\ Sound(h) /\ call.key \in Key /\ env.threadsafe \in BOOLEAN /\ pc = "inserting"
      /\ (h.locked => IsArray(h) /\ env.threadsafe)
  BY DEF IndInv, TypeInv, TableInv, LockInv, InsertEntry
<1>1. CASE h.locked
  BY <1>0, <1>1, StopStep DEF InsertEntry
<1>2. CASE ~h.locked /\ Broken(h, call.key)
  BY <1>2, StopStep DEF InsertEntry
<1>3. CASE ~h.locked /\ ~Broken(h, call.key)
  <2>1. PICK o \in EngineInsert(h, call.key) : h' = o.h
    BY <1>3 DEF InsertEntry
  <2>2. /\ pc' = "idle" /\ call' = NoCall /\ UNCHANGED <<env, set, new>>
    BY <1>3 DEF InsertEntry, rehash
  <2>3. /\ Sound(o.h) /\ o.h.coll_eng = h.coll_eng
        /\ o.h.locked => h.locked \/ (IsArray(h) /\ env.threadsafe)
    BY <1>0, <1>3, InsertSound
  <2>4. Sound(h') /\ (h'.locked => IsArray(h') /\ env.threadsafe)
    BY <1>0, <2>1, <2>3 DEF IsArray
  <2> QED
    BY <2>2, <2>4, TableStep
<1> QED
  BY <1>1, <1>2, <1>3

LEMMA RemoveStep == ASSUME IndInv, hi_remove PROVE IndInv'
<1>0. /\ Sound(h) /\ pc = "idle" /\ (h.locked => IsArray(h) /\ env.threadsafe)
  BY DEF IndInv, TableInv, LockInv, hi_remove
<1>1. CASE h.locked /\ h.coll_eng = "ARRAY" /\ Stop("stuck")
  BY <1>0, <1>1, StopStep
<1>2. CASE Stop("crashed")
  BY <1>2, StopStep
<1>3. ASSUME NEW k \in Key, ~(h.coll_eng = "ARRAY" /\ Broken(h, k)), NEW found \in FindsKey(h, k),
             h' = IF found THEN Removes(h, k) ELSE h, UNCHANGED <<env, set, pc, call, new>>
      PROVE  IndInv'
  <2>1. found \in BOOLEAN
    BY <1>3, FoundBoolean
  <2>2. CASE found = TRUE
    <3>1. h' = Removes(h, k)
      BY <1>3, <2>2
    <3>2. /\ Sound(Removes(h, k)) /\ Removes(h, k).coll_eng = h.coll_eng
          /\ Removes(h, k).locked = h.locked
      BY <1>0, <1>3, <2>2, RemovesSound
    <3>3. Sound(h') /\ (h'.locked => IsArray(h') /\ env.threadsafe) /\ h'.coll_eng = h.coll_eng
      BY <1>0, <3>1, <3>2 DEF IsArray
    <3> QED
      BY <1>0, <1>3, <3>3, TableStep
  <2>3. CASE found = FALSE
    <3>1. h' = h
      BY <1>3, <2>3
    <3> QED
      BY <1>0, <1>3, <3>1, TableStep
  <2> QED
    BY <2>1, <2>2, <2>3
<1>4. PICK k \in Key :
        IF h.locked /\ h.coll_eng = "ARRAY" THEN Stop("stuck")
        ELSE IF h.coll_eng = "ARRAY" /\ Broken(h, k) THEN Stop("crashed")
        ELSE \E found \in FindsKey(h, k) :
            /\ h' = IF found THEN Removes(h, k) ELSE h
            /\ it' = IF found THEN Outdated(it) ELSE it
            /\ UNCHANGED <<env, set, pc, call, rehash, other>>
  BY DEF hi_remove
<1>5. CASE h.locked /\ h.coll_eng = "ARRAY"
  BY <1>1, <1>4, <1>5
<1>6. CASE ~(h.locked /\ h.coll_eng = "ARRAY") /\ (h.coll_eng = "ARRAY" /\ Broken(h, k))
  BY <1>2, <1>4, <1>6
<1>7. CASE ~(h.locked /\ h.coll_eng = "ARRAY") /\ ~(h.coll_eng = "ARRAY" /\ Broken(h, k))
  <2>1. PICK found \in FindsKey(h, k) :
          /\ h' = IF found THEN Removes(h, k) ELSE h
          /\ UNCHANGED <<env, set, pc, call, rehash, other>>
    BY <1>4, <1>7
  <2>2. UNCHANGED <<env, set, pc, call, new>>
    BY <2>1 DEF rehash
  <2> QED
    BY <1>3, <1>7, <2>1, <2>2
<1> QED
  BY <1>5, <1>6, <1>7

\* The other thread's insertion or removal.
LEMMA ChangesSound ==
  ASSUME NEW k \in Key, OtherChanges(k), Sound(h), env.threadsafe \in BOOLEAN,
         h.locked => IsArray(h) /\ env.threadsafe
  PROVE  /\ Sound(h') /\ h'.coll_eng = h.coll_eng
         /\ h'.locked => IsArray(h') /\ env.threadsafe
<1>1. CASE \E o \in EngineInsert(h, k) : h' = o.h
  <2>1. PICK o \in EngineInsert(h, k) : h' = o.h
    BY <1>1
  <2>2. ~Broken(h, k)
    BY DEF OtherChanges
  <2>3. /\ Sound(o.h) /\ o.h.coll_eng = h.coll_eng
        /\ o.h.locked => h.locked \/ (IsArray(h) /\ env.threadsafe)
    BY <2>2, InsertSound
  <2> QED
    BY <2>1, <2>3 DEF IsArray
<1>2. CASE TRUE \in FindsKey(h, k) /\ h' = Removes(h, k)
  <2>1. ~Broken(h, k)
    BY DEF OtherChanges
  <2>2. /\ Sound(Removes(h, k)) /\ Removes(h, k).coll_eng = h.coll_eng
        /\ Removes(h, k).locked = h.locked
    BY <1>2, <2>1, RemovesSound
  <2> QED
    BY <1>2, <2>2 DEF IsArray
<1> QED
  BY <1>1, <1>2 DEF OtherChanges

\* What a reading that is overtaken may bring, apart from what is read.
LEMMA OvertakenCases ==
  ASSUME ReadOvertaken
  PROVE  /\ env.threadsafe /\ pc = "moving" /\ ~disturbed /\ disturbed' = TRUE /\ overtaken' = TRUE
         /\ UNCHANGED <<env, set, pc, call, new, failed>>
         /\ \/ UNCHANGED <<h, it, other>>
            \/ it' = Outdated(it) /\ \E k \in Key : OtherChanges(k)
<1>1. ASSUME NEW r, TreeOvertaken(r) PROVE it' = Outdated(it) /\ \E k \in Key : OtherChanges(k)
  BY <1>1, Zenon DEF TreeOvertaken
<1>2. ASSUME NEW r, ListOvertaken(r) PROVE UNCHANGED <<h, it, other>>
  BY <1>2 DEF ListOvertaken
<1> QED
  BY <1>1, <1>2 DEF ReadOvertaken

LEMMA OtherStep == ASSUME IndInv, Other PROVE IndInv'
<1>0. /\ Sound(h) /\ env.threadsafe \in BOOLEAN
      /\ (h.locked => IsArray(h) /\ env.threadsafe) /\ IsSet(set)
  BY DEF IndInv, TypeInv, TableInv, LockInv
<1>1. ASSUME NEW k \in Key, OtherChanges(k), UNCHANGED <<env, set, pc, call, new>>, pc # "stuck"
      PROVE  IndInv'
  <2>1. Sound(h') /\ (h'.locked => IsArray(h') /\ env.threadsafe) /\ h'.coll_eng = h.coll_eng
    BY <1>0, <1>1, ChangesSound
  <2> QED
    BY <1>1, <2>1, TableStep
<1>2. ASSUME UNCHANGED <<env, set, h, pc, call, new>>, pc # "stuck"
      PROVE  IndInv'
  BY <1>0, <1>2, QuietStep
<1>3. CASE OtherTests
  BY <1>2, <1>3 DEF OtherTests, rehash
<1>4. CASE OtherCompletes
  <2>1. (\E k \in Key : OtherChanges(k)) /\ UNCHANGED <<env, set, pc, call, new>> /\ pc # "stuck"
    BY <1>4 DEF OtherCompletes
  <2> QED
    BY <1>1, <2>1
<1>5. CASE ReadOvertaken
  <2>1. /\ UNCHANGED <<env, set, pc, call, new>> /\ pc # "stuck"
        /\ UNCHANGED h \/ \E k \in Key : OtherChanges(k)
    BY <1>5, OvertakenCases
  <2> QED
    BY <1>1, <1>2, <2>1
<1>6. CASE OtherFaults
  <2>1. UNCHANGED <<env, h, call, new>> /\ IsSet(set)' /\ pc' \notin Rehashing
        /\ pc' # "inserting" /\ pc' # "stuck"
    BY <1>0, <1>6 DEF OtherFaults, Rehashing
  <2> QED
    BY <2>1, QuietStep
<1> QED
  BY <1>3, <1>4, <1>5, <1>6 DEF Other

\* The calls of the iterator leave the tables alone.
LEMMA IteratorCases ==
  ASSUME \/ hi_iterator_create \/ hi_iterator_getnext
         \/ hi_iterator_reset \/ hi_iterator_fini
  PROVE  \/ h.locked /\ Stop("stuck")
         \/ Stop("crashed")
         \/ UNCHANGED <<env, set, h, pc, call, rehash, other>>
<1>1. hi_iterator_create => \/ h.locked /\ Stop("stuck")
                            \/ Stop("crashed")
                            \/ UNCHANGED <<env, set, h, pc, call, rehash, other>>
  BY Zenon DEF hi_iterator_create, WalkHangs
<1>2. hi_iterator_getnext => \/ h.locked /\ Stop("stuck")
                             \/ Stop("crashed")
                             \/ UNCHANGED <<env, set, h, pc, call, rehash, other>>
  BY DEF hi_iterator_getnext, WalkHangs
<1>3. hi_iterator_reset => \/ h.locked /\ Stop("stuck")
                           \/ Stop("crashed")
                           \/ UNCHANGED <<env, set, h, pc, call, rehash, other>>
  BY DEF hi_iterator_reset, WalkHangs
<1>4. hi_iterator_fini => UNCHANGED <<env, set, h, pc, call, rehash, other>>
  BY DEF hi_iterator_fini
<1> QED
  BY <1>1, <1>2, <1>3, <1>4

LEMMA IteratorStep ==
  ASSUME IndInv,
         \/ hi_iterator_create \/ hi_iterator_getnext
         \/ hi_iterator_reset \/ hi_iterator_fini
  PROVE  IndInv'
<1>0. pc = "idle" /\ (h.locked => IsArray(h) /\ env.threadsafe) /\ IsSet(set)
  <2>1. hi_iterator_create => pc = "idle"
    BY Zenon DEF hi_iterator_create
  <2>2. pc = "idle"
    BY <2>1 DEF hi_iterator_getnext, hi_iterator_reset, hi_iterator_fini
  <2> QED
    BY <2>2 DEF IndInv, TypeInv, LockInv
<1>1. CASE h.locked /\ Stop("stuck")
  BY <1>0, <1>1, StopStep
<1>2. CASE Stop("crashed")
  BY <1>2, StopStep
<1>3. CASE UNCHANGED <<env, set, h, pc, call, rehash, other>>
  <2>1. UNCHANGED <<env, h, call, new>> /\ IsSet(set)' /\ pc' = pc
    BY <1>0, <1>3 DEF rehash
  <2> QED
    BY <1>0, <2>1, QuietStep
<1> QED
  BY <1>1, <1>2, <1>3, IteratorCases

LEMMA StepIndInv == IndInv /\ [Next]_vars => IndInv'
<1> SUFFICES ASSUME IndInv, [Next]_vars PROVE IndInv'
  OBVIOUS
<1>0. /\ Sound(h) /\ Sound(new) /\ IsSet(set) /\ (h.locked => IsArray(h) /\ env.threadsafe)
      /\ ~new.locked
  BY DEF IndInv, TypeInv, TableInv, LockInv
<1>1. CASE Setter
  <2>1. IsSet(set)'
    BY <1>0, <1>1, SetStep DEF Setter
  <2>2. UNCHANGED <<env, h, call, new>> /\ pc' = pc /\ pc # "stuck"
    BY <1>1 DEF Setter, rehash
  <2> QED
    BY <2>1, <2>2, QuietStep
<1>2. CASE hi_create
  BY <1>0, <1>2, CreateStep DEF hi_create
<1>3. CASE hi_init
  <2>1. PICK n \in TableSizes \cup {0}, f \in HashFunc, c \in KeyCmpFunc :
          Creates(DefaultSet(n, f, c))
    BY <1>3 DEF hi_init
  <2>2. IsSet(DefaultSet(n, f, c))
    BY DefaultIsSet
  <2> QED
    BY <1>3, <2>1, <2>2, CreateStep DEF hi_init
<1>4. CASE hi_fini
  <2>1. CASE FiniHangs(h)
    BY <1>0, <1>4, <2>1, StopStep DEF hi_fini, FiniHangs
  <2>2. CASE ~FiniHangs(h) /\ FiniCrashes(h)
    BY <1>4, <2>2, StopStep DEF hi_fini
  <2>3. CASE ~FiniHangs(h) /\ ~FiniCrashes(h)
    <3>1. h' = NoHandle /\ pc' = "setup" /\ UNCHANGED <<env, set, call, new>>
      BY <1>4, <2>3 DEF hi_fini, rehash
    <3>2. TypeInv'
      BY <3>1 DEF IndInv, TypeInv
    <3>3. TableInv'
      BY <3>1, NoHandleSound DEF IndInv, TableInv
    <3>4. LockInv'
      BY <3>1, NoHandleSound DEF IndInv, LockInv, Rehashing
    <3> QED
      BY <3>2, <3>3, <3>4 DEF IndInv
  <2> QED
    BY <2>1, <2>2, <2>3
<1>5. CASE hi_rehash
  BY <1>5, BeginStep, HandleAssumption DEF hi_rehash
<1>6. CASE hi_insert
  <2>1. PICK k \in Key :
          \/ h.locked /\ Stop("stuck")
          \/ UNCHANGED <<env, set, h, it, pc, call, rehash, other>>
          \/ RehashBegins(k, 2 * h.table_size)
          \/ /\ pc' = "inserting" /\ call' = [NoCall EXCEPT !.key = k]
             /\ UNCHANGED <<env, set, h, it, rehash, other>>
    BY <1>6 DEF hi_insert
  <2>2. pc = "idle"
    BY <1>6 DEF hi_insert
  <2>3. CASE h.locked /\ Stop("stuck")
    BY <1>0, <2>3, StopStep
  <2>4. CASE UNCHANGED <<env, set, h, it, pc, call, rehash, other>>
    <3>1. UNCHANGED <<env, h, call, new>> /\ IsSet(set)' /\ pc' = pc
      BY <1>0, <2>4 DEF rehash
    <3> QED
      BY <2>2, <3>1, QuietStep
  <2>5. CASE RehashBegins(k, 2 * h.table_size)
    <3>1. 2 * h.table_size \in Nat
      BY <1>0, HandleFields DEF Sound
    <3> QED
      BY <2>5, <3>1, BeginStep
  <2>6. CASE /\ pc' = "inserting" /\ call' = [NoCall EXCEPT !.key = k]
             /\ UNCHANGED <<env, set, h, it, rehash, other>>
    <3>1. call'.key = k /\ UNCHANGED <<env, set, h, new>>
      BY <2>6 DEF NoCall, rehash
    <3>2. TypeInv'
      BY <3>1 DEF IndInv, TypeInv
    <3>3. TableInv'
      BY <3>1 DEF IndInv, TableInv
    <3>4. LockInv'
      BY <2>6, <3>1 DEF IndInv, LockInv, Rehashing, IsArray
    <3> QED
      BY <3>2, <3>3, <3>4 DEF IndInv
  <2> QED
    BY <2>1, <2>3, <2>4, <2>5, <2>6
<1>7. CASE hi_remove
  BY <1>7, RemoveStep
<1>8. CASE RehashMove
  BY <1>8, MoveStep
<1>9. CASE RehashFree
  <2>1. pc = "freeing"
    BY <1>9 DEF RehashFree
  <2>2. CASE FiniHangs(h)
    BY <1>0, <1>9, <2>2, StopStep DEF RehashFree, FiniHangs
  <2>3. CASE ~FiniHangs(h) /\ FiniCrashes(h)
    BY <1>9, <2>3, StopStep DEF RehashFree
  <2>4. CASE ~FiniHangs(h) /\ ~FiniCrashes(h)
    <3>1. UNCHANGED <<env, h, call, new>> /\ IsSet(set)' /\ pc' = "copying"
      BY <1>0, <1>9, <2>4 DEF RehashFree, rehash
    <3>2. pc \in Rehashing
      BY <2>1 DEF Rehashing
    <3> QED
      BY <3>1, <3>2, QuietStep
  <2> QED
    BY <2>2, <2>3, <2>4
<1>10. CASE RehashCopy
  <2>1. /\ h' = [new EXCEPT !.rehash_auto = h.rehash_auto] /\ RehashReturns("SUCCESS")
        /\ call' = [NoCall EXCEPT !.key = call.key] /\ UNCHANGED <<env, set>>
    BY <1>10 DEF RehashCopy
  <2>2. h.rehash_auto \in BOOLEAN
    BY <1>0, HandleFields DEF Sound
  <2>3. Sound(h') /\ h'.locked = new.locked
    BY <1>0, <2>1, <2>2, RehashAutoKeeps
  <2>4. call.key \in Key \cup {NULL} /\ (h'.locked => IsArray(h') /\ env.threadsafe)
    BY <1>0, <2>3 DEF IndInv, TypeInv
  <2> QED
    BY <2>1, <2>3, <2>4, ReturnStep
<1>11. CASE InsertEntry
  BY <1>11, InsertStep
<1>12. CASE Other
  BY <1>12, OtherStep
<1>13. CASE \/ hi_iterator_create \/ hi_iterator_getnext
            \/ hi_iterator_reset \/ hi_iterator_fini
  BY <1>13, IteratorStep
<1>14. CASE UNCHANGED vars
  <2>1. UNCHANGED <<env, set, h, pc, call, new>>
    BY <1>14 DEF vars, rehash
  <2>2. IsSet(set)' /\ (pc' = "stuck" => IsArray(h) /\ env.threadsafe)
    BY <1>0, <2>1 DEF IndInv, LockInv
  <2> QED
    BY <2>1, <2>2, QuietStep
<1> QED
  BY <1>1, <1>2, <1>3, <1>4, <1>5, <1>6, <1>7, <1>8, <1>9, <1>10, <1>11, <1>12, <1>13, <1>14
  DEF Next, Library

LEMMA Invariance == Spec => []IndInv
<1> QED
  BY InitIndInv, StepIndInv, PTL DEF Spec

(***************************************************************************)
(* The entries a walk has still to come to.                                *)
(***************************************************************************)
LEMMA AheadHas ==
  ASSUME NEW H, NEW n
  PROVE  \A x : x \in Ahead(H, n) <=>
                  \E b \in n .. H.table_size - 1 : x \in {b} \X Held(H.bucket[b])
  BY DEF Ahead

\* No bucket is overfull with entries, which no_objects counts at least.
Counted(H) == IsFiniteSet(Ahead(H, 0)) /\ Cardinality(Ahead(H, 0)) <= H.no_objects

LEMMA AheadFinite ==
  ASSUME NEW H, IsFiniteSet(Ahead(H, 0)), NEW n \in Nat
  PROVE  IsFiniteSet(Ahead(H, n)) /\ Cardinality(Ahead(H, n)) \in Nat
         /\ Cardinality(Ahead(H, n)) <= Cardinality(Ahead(H, 0))
<1>1. Ahead(H, n) \subseteq Ahead(H, 0)
  <2>1. \A b \in n .. H.table_size - 1 : b \in 0 .. H.table_size - 1
    OBVIOUS
  <2> QED
    BY <2>1, AheadHas
<1>2. Ahead(H, n) \in SUBSET Ahead(H, 0)
  BY <1>1
<1> QED
  BY <1>2, FS_Subset, FS_CardinalityType

\* Where one bucket is replaced the others stay ahead.
LEMMA AheadReplaced ==
  ASSUME NEW H, IsHandle(H), NEW G, Same(H, G), NEW b, NEW s, Replaced(H, G, b, s), NEW n \in Nat
  PROVE  \A x : x \in Ahead(G, n) <=>
                  \/ x \in Ahead(H, n) /\ x \notin {b} \X Held(H.bucket[b])
                  \/ b >= n /\ x \in {b} \X Held(s)
<1>1. /\ b \in 0 .. H.table_size - 1 /\ G.table_size = H.table_size
      /\ G.bucket[b] = s
      /\ \A c \in 0 .. H.table_size - 1 : c # b => G.bucket[c] = H.bucket[c]
  BY HandleFields DEF Same, Replaced, With
<1>2. \A x : x \in Ahead(G, n) <=> \E c \in n .. H.table_size - 1 : x \in {c} \X Held(G.bucket[c])
  BY <1>1, AheadHas
<1>3. H.table_size \in Nat
  BY HandleFields
<1>4. \A c \in n .. H.table_size - 1 : c \in 0 .. H.table_size - 1
  OBVIOUS
<1>5. b >= n <=> b \in n .. H.table_size - 1
  BY <1>1, <1>3
<1>6. ASSUME NEW x, x \in Ahead(G, n)
      PROVE  \/ x \in Ahead(H, n) /\ x \notin {b} \X Held(H.bucket[b])
             \/ b >= n /\ x \in {b} \X Held(s)
  <2>1. PICK c \in n .. H.table_size - 1 : x \in {c} \X Held(G.bucket[c])
    BY <1>2, <1>6
  <2>2. CASE c = b
    BY <1>1, <1>5, <2>1, <2>2
  <2>3. CASE c # b
    <3>1. x \in {c} \X Held(H.bucket[c])
      BY <1>1, <1>4, <2>1, <2>3
    <3>2. x \in Ahead(H, n)
      BY <3>1, AheadHas
    <3> QED
      BY <2>3, <3>1, <3>2
  <2> QED
    BY <2>2, <2>3
<1>7. ASSUME NEW x, x \in Ahead(H, n), x \notin {b} \X Held(H.bucket[b])
      PROVE  x \in Ahead(G, n)
  <2>1. PICK c \in n .. H.table_size - 1 : x \in {c} \X Held(H.bucket[c])
    BY <1>7, AheadHas
  <2>2. c # b
    BY <1>7, <2>1
  <2> QED
    BY <1>1, <1>2, <1>4, <2>1, <2>2
<1>8. ASSUME NEW x, b >= n, x \in {b} \X Held(s)
      PROVE  x \in Ahead(G, n)
  BY <1>1, <1>2, <1>5, <1>8
<1> QED
  BY <1>6, <1>7, <1>8

\* One entry more adds at most one to those ahead; otherwise they do not get more.
LEMMA AheadGrows ==
  ASSUME NEW H, IsHandle(H), NEW G, Same(H, G), Grows(H, G), IsFiniteSet(Ahead(H, 0)),
         NEW n \in Nat
  PROVE  IsFiniteSet(Ahead(G, n)) /\ Cardinality(Ahead(G, n)) <= Cardinality(Ahead(H, n)) + 1
<1>1. PICK b, s, i : Replaced(H, G, b, s) /\ OneMoreHeld(H.bucket[b], s, i)
  BY DEF Grows
<1>2. ASSUME NEW x, x \in Ahead(G, n) PROVE x \in Ahead(H, n) \cup {<<b, i>>}
  <2>1. CASE x \in Ahead(H, n)
    BY <2>1
  <2>2. CASE x \notin Ahead(H, n)
    <3>1. b >= n /\ x \in {b} \X Held(s)
      BY <1>1, <1>2, <2>2, AheadReplaced
    <3>2. b \in n .. H.table_size - 1
      BY <1>1, <3>1, HandleFields DEF Replaced
    <3>3. x \notin {b} \X Held(H.bucket[b])
      BY <2>2, <3>2, AheadHas
    <3> QED
      BY <1>1, <3>1, <3>3 DEF OneMoreHeld
  <2> QED
    BY <2>1, <2>2
<1>3. Ahead(G, n) \in SUBSET (Ahead(H, n) \cup {<<b, i>>})
  BY <1>2
<1>4. /\ IsFiniteSet(Ahead(H, n)) /\ Cardinality(Ahead(H, n)) \in Nat
  BY AheadFinite
<1>5. /\ IsFiniteSet(Ahead(H, n) \cup {<<b, i>>})
      /\ Cardinality(Ahead(H, n) \cup {<<b, i>>}) <= Cardinality(Ahead(H, n)) + 1
  BY <1>4, FS_AddElement
<1>6. /\ IsFiniteSet(Ahead(G, n)) /\ Cardinality(Ahead(G, n)) \in Nat
      /\ Cardinality(Ahead(G, n)) <= Cardinality(Ahead(H, n) \cup {<<b, i>>})
      /\ Cardinality(Ahead(H, n) \cup {<<b, i>>}) \in Nat
  BY <1>3, <1>5, FS_Subset, FS_CardinalityType
<1> QED
  BY <1>4, <1>5, <1>6

LEMMA AheadFewer ==
  ASSUME NEW H, IsHandle(H), NEW G, Same(H, G), Shrinks(H, G) \/ Keeps(H, G),
         IsFiniteSet(Ahead(H, 0)), NEW n \in Nat
  PROVE  /\ IsFiniteSet(Ahead(G, n)) /\ Cardinality(Ahead(G, n)) <= Cardinality(Ahead(H, n))
         /\ Shrinks(H, G) => Cardinality(Ahead(G, 0)) = Cardinality(Ahead(H, 0)) - 1
<1>1. CASE G = H
  <2>1. ~Shrinks(H, G)
    BY <1>1, HandleFields DEF Shrinks
  <2> QED
    BY <1>1, <2>1, AheadFinite
<1>2. CASE G # H
  <2>1. PICK b, s : Replaced(H, G, b, s) /\ Held(s) \subseteq Held(H.bucket[b])
    BY <1>2 DEF Shrinks, Keeps, OneMoreHeld
  <2>2. ASSUME NEW x, x \in Ahead(G, n) PROVE x \in Ahead(H, n)
    <3>1. CASE b >= n /\ x \in {b} \X Held(s)
      <4>1. b \in n .. H.table_size - 1 /\ x \in {b} \X Held(H.bucket[b])
        BY <2>1, <3>1, HandleFields DEF Replaced
      <4> QED
        BY <4>1, AheadHas
    <3> QED
      BY <2>1, <2>2, <3>1, AheadReplaced
  <2>3. Ahead(G, n) \in SUBSET Ahead(H, n)
    BY <2>2
  <2>4. IsFiniteSet(Ahead(G, n)) /\ Cardinality(Ahead(G, n)) <= Cardinality(Ahead(H, n))
    BY <2>3, AheadFinite, FS_Subset
  <2>5. ASSUME Shrinks(H, G)
        PROVE  Cardinality(Ahead(G, 0)) = Cardinality(Ahead(H, 0)) - 1
    <3>1. PICK c, t, i : Replaced(H, G, c, t) /\ OneMoreHeld(t, H.bucket[c], i)
      BY <2>5 DEF Shrinks
    <3>2. c \in 0 .. H.table_size - 1 /\ c >= 0
      BY <3>1, HandleFields DEF Replaced
    <3>3. \A x : x \in Ahead(G, 0) <=>
                   \/ x \in Ahead(H, 0) /\ x \notin {c} \X Held(H.bucket[c])
                   \/ x \in {c} \X Held(t)
      BY <3>1, <3>2, AheadReplaced
    <3>4. \A x : x \in {c} \X Held(H.bucket[c]) => x \in Ahead(H, 0)
      BY <3>2, AheadHas
    <3>5. <<c, i>> \in {c} \X Held(H.bucket[c]) /\ <<c, i>> \notin {c} \X Held(t)
      BY <3>1 DEF OneMoreHeld
    <3>6. \A x \in {c} \X Held(H.bucket[c]) : x \in {c} \X Held(t) \/ x = <<c, i>>
      BY <3>1 DEF OneMoreHeld
    <3>7. \A x \in {c} \X Held(t) : x \in {c} \X Held(H.bucket[c])
      BY <3>1 DEF OneMoreHeld
    <3>8. Ahead(G, 0) = Ahead(H, 0) \ {<<c, i>>} /\ <<c, i>> \in Ahead(H, 0)
      <4> HIDE DEF Shrinks
      <4> QED
        BY <3>3, <3>4, <3>5, <3>6, <3>7
    <3> QED
      BY <3>8, FS_RemoveElement
  <2> QED
    BY <2>4, <2>5
<1> QED
  BY <1>1, <1>2

\* What an operation does to the count of those ahead.
LEMMA CountedChanged ==
  ASSUME NEW H, IsHandle(H), NEW G, IsHandle(G), Same(H, G),
         Grows(H, G) \/ Shrinks(H, G) \/ Keeps(H, G), Counted(H)
  PROVE  Counted(G)
<1>1. /\ IsFiniteSet(Ahead(H, 0)) /\ Cardinality(Ahead(H, 0)) \in Nat
      /\ Cardinality(Ahead(H, 0)) <= H.no_objects /\ H.no_objects \in Int /\ G.no_objects \in Int
  BY AheadFinite, HandleFields DEF Counted
<1>2. CASE Grows(H, G)
  <2>1. IsFiniteSet(Ahead(G, 0)) /\ Cardinality(Ahead(G, 0)) <= Cardinality(Ahead(H, 0)) + 1
    BY <1>1, <1>2, AheadGrows
  <2>2. Cardinality(Ahead(G, 0)) \in Nat /\ G.no_objects = H.no_objects + 1
    BY <1>2, <2>1, FS_CardinalityType DEF Grows
  <2> QED
    BY <1>1, <2>1, <2>2 DEF Counted
<1>3. CASE Shrinks(H, G)
  <2>1. IsFiniteSet(Ahead(G, 0)) /\ Cardinality(Ahead(G, 0)) = Cardinality(Ahead(H, 0)) - 1
    BY <1>1, <1>3, AheadFewer
  <2>2. G.no_objects = H.no_objects - 1
    BY <1>3 DEF Shrinks
  <2> QED
    BY <1>1, <2>1, <2>2 DEF Counted
<1>4. CASE Keeps(H, G)
  <2>1. IsFiniteSet(Ahead(G, 0)) /\ Cardinality(Ahead(G, 0)) <= Cardinality(Ahead(H, 0))
    BY <1>1, <1>4, AheadFewer
  <2>2. Cardinality(Ahead(G, 0)) \in Nat /\ G.no_objects = H.no_objects
    BY <1>4, <2>1, FS_CardinalityType DEF Keeps
  <2> QED
    BY <1>1, <2>1, <2>2 DEF Counted
<1> QED
  BY <1>2, <1>3, <1>4

\* With no bucket lost, those ahead of the first bucket are the entries.
LEMMA AheadIsEntries ==
  ASSUME NEW H, IsHandle(H), ~FiniCrashes(H)
  PROVE  Ahead(H, 0) = Entries(H)
<1>1. DOMAIN H.bucket = 0 .. H.table_size - 1
  BY HandleFields
<1>2. ASSUME NEW b \in 0 .. H.table_size - 1
      PROVE  Held(H.bucket[b]) = Filled(H.bucket[b])
  BY <1>1, <1>2, HeldFilled DEF FiniCrashes
<1>3. \A x : x \in Sites(H.bucket) <=>
                \E b \in 0 .. H.table_size - 1 : x \in {b} \X Filled(H.bucket[b])
  BY <1>1 DEF Sites
<1>4. \A x : x \in Ahead(H, 0) <=> x \in Sites(H.bucket)
  BY <1>2, <1>3, AheadHas
<1> QED
  BY <1>4, EntriesAreSites

LEMMA SoundCounted == ASSUME NEW H, Sound(H), ~FiniCrashes(H) PROVE Counted(H)
<1>1. /\ IsFiniteSet(Ahead(H, 0)) /\ Cardinality(Ahead(H, 0)) \in Nat
      /\ Cardinality(Ahead(H, 0)) = H.no_objects
  BY AheadIsEntries, FS_CardinalityType DEF Sound, Placed
<1> QED
  BY <1>1 DEF Counted

\* An empty table has none.
LEMMA NoneAhead ==
  ASSUME NEW H, Sound(H), Ahead(H, 0) = {}
  PROVE  H.no_objects = 0
<1>1. ~FiniCrashes(H)
  <2>1. SUFFICES ASSUME NEW b \in DOMAIN H.bucket, LOST \in Range(H.bucket[b]) PROVE FALSE
    BY DEF FiniCrashes
  <2>2. b \in 0 .. H.table_size - 1
    BY HandleFields DEF Sound
  <2>3. PICK i \in DOMAIN H.bucket[b] : H.bucket[b][i] = LOST
    BY <2>1 DEF Range
  <2>4. <<b, i>> \in {b} \X Held(H.bucket[b])
    BY <2>3 DEF Held
  <2> QED
    BY <2>2, <2>4, AheadHas
<1>2. Entries(H) = {}
  BY <1>1, AheadIsEntries DEF Sound
<1> QED
  BY <1>1, <1>2, FS_EmptySet DEF Sound, Placed

(***************************************************************************)
(* The walk of an iterator.                                                *)
(***************************************************************************)
IsIterator(i) ==
    i \in [on: BOOLEAN, bucket: Nat, keys: {i.keys}, nmemb: Nat, clean: BOOLEAN, seen: {i.seen}]

LEMMA NoIteratorIs == IsIterator(NoIterator)
  BY DEF NoIterator, IsIterator

LEMMA HeldFinite ==
  ASSUME NEW H, IsHandle(H), NEW b \in 0 .. H.table_size - 1
  PROVE  /\ IsFiniteSet(Held(H.bucket[b])) /\ Stored(H, b) \in Nat
         /\ Held(H.bucket[b]) \subseteq 1 .. Len(H.bucket[b])
         /\ Stored(H, b) = 0 => Held(H.bucket[b]) = {}
<1> DEFINE s == H.bucket[b]
<1>1. DOMAIN s = 1 .. Len(s) /\ Len(s) \in Nat
  BY HandleFields
<1> HIDE DEF s
<1>2. Held(s) \in SUBSET (1 .. Len(s))
  BY <1>1 DEF Held
<1>3. IsFiniteSet(1 .. Len(s))
  BY <1>1, FS_Interval, 1 \in Int
<1>4. IsFiniteSet(Held(s))
  BY <1>2, <1>3, FS_Subset
<1> QED
  BY <1>2, <1>4, FS_CardinalityType, FS_EmptySet DEF Stored, s

\* The first bucket with entries is the first of those ahead.
LEMMA FirstBucket ==
  ASSUME NEW H, IsHandle(H), NEW n \in Nat, NEW S,
         S = {c \in n .. H.table_size - 1 : Stored(H, c) > 0}, S # {}
  PROVE  /\ Min(S) \in n .. H.table_size - 1 /\ Stored(H, Min(S)) > 0
         /\ \A c \in n .. Min(S) - 1 : Stored(H, c) = 0
<1>1. H.table_size \in Nat
  BY HandleFields
<1>2. \E b \in S : \A c \in S : b <= c
  <2> DEFINE T == {c + 1 : c \in S}
  <2>1. T \in SUBSET (1 .. H.table_size) /\ T # {}
    BY <1>1
  <2>2. PICK i \in T : \A j \in T : i <= j
    <3> HIDE DEF T
    <3> QED
      BY <1>1, <2>1, HasFirst
  <2>3. PICK b \in S : i = b + 1
    BY <2>2
  <2>4. ASSUME NEW c \in S PROVE b <= c
    <3>1. b + 1 <= c + 1 /\ b \in n .. H.table_size - 1 /\ c \in n .. H.table_size - 1
      BY <2>2, <2>3
    <3> QED
      BY <1>1, <3>1
  <2> QED
    BY <2>4
<1>3. Min(S) \in S /\ \A c \in S : Min(S) <= c
  BY <1>2 DEF Min
<1>4. ASSUME NEW c \in n .. Min(S) - 1 PROVE Stored(H, c) = 0
  <2>1. c \in n .. H.table_size - 1 /\ c < Min(S) /\ c \in 0 .. H.table_size - 1
    BY <1>1, <1>3
  <2>2. c \notin S
    BY <1>3, <2>1
  <2>3. Stored(H, c) \in Nat
    BY <2>1, HeldFinite
  <2> QED
    BY <2>1, <2>2, <2>3
<1> QED
  BY <1>3, <1>4

\* It is taken apart from the others.
LEMMA AheadSplit ==
  ASSUME NEW H, IsHandle(H), IsFiniteSet(Ahead(H, 0)), NEW n \in Nat,
         NEW b \in n .. H.table_size - 1, \A c \in n .. b - 1 : Stored(H, c) = 0
  PROVE  Cardinality(Ahead(H, n)) = Stored(H, b) + Cardinality(Ahead(H, b + 1))
<1> DEFINE B == {b} \X Held(H.bucket[b])
<1>1. b \in 0 .. H.table_size - 1 /\ H.table_size \in Nat /\ b + 1 \in Nat
  BY HandleFields
<1>2. ASSUME NEW x, x \in Ahead(H, n) PROVE x \in B \/ x \in Ahead(H, b + 1)
  <2>1. PICK c \in n .. H.table_size - 1 : x \in {c} \X Held(H.bucket[c])
    BY <1>2, AheadHas
  <2>2. c \notin n .. b - 1
    <3>1. ASSUME c \in n .. b - 1 PROVE FALSE
      <4>1. c \in 0 .. H.table_size - 1 /\ Stored(H, c) = 0
        BY <1>1, <3>1
      <4>2. Held(H.bucket[c]) = {}
        BY <4>1, HeldFinite
      <4> QED
        BY <2>1, <4>2
    <3> QED
      BY <3>1
  <2>3. c = b \/ c \in b + 1 .. H.table_size - 1
    BY <1>1, <2>2
  <2> QED
    BY <2>1, <2>3, AheadHas
<1>3. ASSUME NEW x, x \in B \/ x \in Ahead(H, b + 1) PROVE x \in Ahead(H, n)
  <2>1. \A c \in b + 1 .. H.table_size - 1 : c \in n .. H.table_size - 1
    BY <1>1
  <2> QED
    BY <1>3, <2>1, AheadHas
<1>4. ASSUME NEW x, x \in B, x \in Ahead(H, b + 1) PROVE FALSE
  <2>1. PICK c \in b + 1 .. H.table_size - 1 : x \in {c} \X Held(H.bucket[c])
    BY <1>4, AheadHas
  <2>2. c = b
    BY <1>4, <2>1
  <2> QED
    BY <1>1, <2>2
<1> HIDE DEF B
<1>5. Ahead(H, n) = B \cup Ahead(H, b + 1) /\ B \cap Ahead(H, b + 1) = {}
  BY <1>2, <1>3, <1>4
<1>6. IsFiniteSet(B) /\ Cardinality(B) = Stored(H, b)
  <2>1. IsFiniteSet({b}) /\ Cardinality({b}) = 1
    BY FS_Singleton
  <2>2. IsFiniteSet(Held(H.bucket[b])) /\ Stored(H, b) \in Nat
    BY <1>1, HeldFinite
  <2>3. IsFiniteSet(B) /\ Cardinality(B) = 1 * Stored(H, b)
    BY <2>1, <2>2, FS_Product DEF B, Stored
  <2> QED
    BY <2>2, <2>3
<1>7. IsFiniteSet(Ahead(H, b + 1)) /\ Cardinality(Ahead(H, b + 1)) \in Nat /\ Stored(H, b) \in Nat
  BY <1>1, AheadFinite, HeldFinite
<1>8. Cardinality(Ahead(H, n)) =
        Cardinality(B) + Cardinality(Ahead(H, b + 1)) - Cardinality({})
  BY <1>5, <1>6, <1>7, FS_Union
<1> QED
  BY <1>6, <1>7, <1>8, FS_EmptySet

\* The keys of an iterator were read from the bucket it is at.
FromBucket(H, i) == i.bucket \in 0 .. H.table_size - 1 /\ Len(i.keys) = Stored(H, i.bucket)

LEMMA NextBucket ==
  ASSUME NEW H, IsHandle(H), IsFiniteSet(Ahead(H, 0)), NEW i, IsIterator(i),
         NEW r \in GetNextBucket(H, i), r.code = "SUCCESS"
  PROVE  /\ IsIterator(r.it) /\ r.it.nmemb > 0 /\ FromBucket(H, r.it)
         /\ ToCome(H, r.it) = Cardinality(Ahead(H, i.bucket))
<1> DEFINE S == {c \in i.bucket .. H.table_size - 1 : Stored(H, c) > 0}
           b == Min(S)
           a == ToArray(H, b)
<1>1. i.bucket \in Nat
  BY DEF IsIterator
<1>2. S # {} /\ r.it = [i EXCEPT !.bucket = b, !.keys = a, !.nmemb = Len(a)]
  <2>1. CASE S = {}
    BY <2>1 DEF GetNextBucket
  <2>2. CASE S # {}
    <3>1. \/ r = [code |-> "SUCCESS",
                  it |-> [i EXCEPT !.bucket = b, !.keys = a, !.nmemb = Len(a)]]
          \/ r.code = "SYSTEM"
      BY <2>2 DEF GetNextBucket
    <3> QED
      BY <2>2, <3>1
  <2> QED
    BY <2>1, <2>2
<1>3. /\ b \in i.bucket .. H.table_size - 1 /\ Stored(H, b) > 0
      /\ \A c \in i.bucket .. b - 1 : Stored(H, c) = 0
  <2> HIDE DEF S
  <2> QED
    BY <1>1, <1>2, FirstBucket DEF S
<1> HIDE DEF S, b
<1>4. Stored(H, b) \in Nat /\ b \in Nat /\ b \in 0 .. H.table_size - 1
  BY <1>1, <1>3, HeldFinite, HandleFields
<1>5. Len(a) = Stored(H, b)
  BY <1>4 DEF ToArray, Packed
<1> HIDE DEF a
<1>6. r.it.bucket = b /\ r.it.nmemb = Stored(H, b) /\ IsIterator(r.it) /\ r.it.keys = a
  BY <1>2, <1>4, <1>5, ZenonT(60) DEF IsIterator
<1>7. Cardinality(Ahead(H, i.bucket)) = Stored(H, b) + Cardinality(Ahead(H, b + 1))
  BY <1>1, <1>3, AheadSplit
<1> QED
  BY <1>3, <1>4, <1>5, <1>6, <1>7 DEF ToCome, FromBucket

\* The entry hi_iterator_getnext takes is one of those to come.
LEMMA NextFirst ==
  ASSUME NEW H, IsHandle(H), IsFiniteSet(Ahead(H, 0)), NEW i, IsIterator(i),
         NEW r \in NextEntries(H, i), r.code = "SUCCESS"
  PROVE  /\ IsIterator(r.it) /\ r.it.nmemb > 0 /\ ToCome(H, r.it) = ToCome(H, i)
         /\ (i.nmemb > 0 => FromBucket(H, i)) => FromBucket(H, r.it)
<1>1. CASE i.nmemb > 0
  BY <1>1 DEF NextEntries
<1>2. CASE ~(i.nmemb > 0)
  <2> DEFINE j == [Freed(i) EXCEPT !.bucket = @ + 1]
  <2>1. r \in GetNextBucket(H, j)
    BY <1>2 DEF NextEntries
  <2>2. IsIterator(Freed(i)) /\ Freed(i).bucket = i.bucket
    BY DEF IsIterator, Freed
  <2>3. IsIterator(j) /\ j.bucket = i.bucket + 1
    BY <2>2 DEF IsIterator
  <2> HIDE DEF j
  <2>4. /\ IsIterator(r.it) /\ r.it.nmemb > 0 /\ FromBucket(H, r.it)
        /\ ToCome(H, r.it) = Cardinality(Ahead(H, j.bucket))
    BY <2>1, <2>3, NextBucket
  <2>5. i.nmemb = 0 /\ i.bucket + 1 \in Nat
    BY <1>2 DEF IsIterator
  <2>6. Cardinality(Ahead(H, i.bucket + 1)) \in Nat
    BY <2>5, AheadFinite
  <2> QED
    BY <2>3, <2>4, <2>5, <2>6 DEF ToCome
<1> QED
  BY <1>1, <1>2

LEMMA NextTaken ==
  ASSUME NEW H, IsHandle(H), IsFiniteSet(Ahead(H, 0)), NEW i, IsIterator(i),
         NEW r \in NextEntries(H, i), r.code = "SUCCESS"
  PROVE  /\ IsIterator(Taken(r.it)) /\ ToCome(H, Taken(r.it)) = ToCome(H, i) - 1
         /\ (i.nmemb > 0 => FromBucket(H, i)) => FromBucket(H, Taken(r.it))
<1>1. /\ IsIterator(r.it) /\ r.it.nmemb > 0 /\ ToCome(H, r.it) = ToCome(H, i)
      /\ (i.nmemb > 0 => FromBucket(H, i)) => FromBucket(H, r.it)
  BY NextFirst
<1>2. /\ Taken(r.it).bucket = r.it.bucket /\ Taken(r.it).nmemb = r.it.nmemb - 1
      /\ IsIterator(Taken(r.it)) /\ r.it.nmemb \in Nat /\ r.it.bucket + 1 \in Nat
      /\ Taken(r.it).keys = r.it.keys
  BY <1>1 DEF IsIterator, Taken
<1>3. Cardinality(Ahead(H, r.it.bucket + 1)) \in Nat
  BY <1>2, AheadFinite
<1>4. FromBucket(H, r.it) => FromBucket(H, Taken(r.it))
  BY <1>2 DEF FromBucket
<1> QED
  BY <1>1, <1>2, <1>3, <1>4 DEF ToCome

\* An iterator that finds no more has come to the end of its bucket.
LEMMA NextNothing ==
  ASSUME NEW H, NEW i, IsIterator(i), NEW r \in NextEntries(H, i), r.code # "SUCCESS"
  PROVE  i.nmemb = 0
  BY DEF NextEntries, IsIterator

(***************************************************************************)
(* The load of a handle that rehashes itself, while no rehash has failed.  *)
(* An entry counts from the time its insertion is past do_rehash.  Either  *)
(* thread's test leaves the entries, with what is coming, one more at most *)
(* than the buckets; what hi_rehash has moved and has still to move, with  *)
(* what is coming, fits the table it makes: one more than twice the size   *)
(* of the old, or the bound on entries when the program has chosen its     *)
(* size.  A new table of size 0 ends at the first entry.                   *)
(***************************************************************************)
Guarded ==
    h.rehash_auto /\ ~failed /\ \A n \in RehashSizes : n = 0 \/ n >= MaxObjects

Waiting == IF call.key # NULL /\ pc \in Rehashing \cup {"inserting"} THEN 1 ELSE 0

Coming == Waiting + Pending(other)

TableBounds ==
    /\ h.table_size > 0 /\ h.no_objects + Pending(other) <= h.table_size + 1
    /\ h.no_objects + Coming <= MaxObjects
    /\ pc = "inserting" => h.no_objects + Pending(other) <= h.table_size

Fits(n) ==
    /\ n + Coming <= MaxObjects
    /\ call.key # NULL => n + Coming <= 2 * h.table_size + 1

TargetInv ==
    pc \in Rehashing =>
        IF call.key = NULL THEN new.table_size \in RehashSizes
        ELSE new.table_size = 2 * h.table_size

MovedInv ==
    /\ pc = "moving" =>
         /\ new.table_size = 0 => walk.nmemb > 0
         /\ ~disturbed => new.no_objects + ToCome(h, walk) <= h.no_objects
         /\ Fits(new.no_objects + ToCome(h, walk))
    /\ pc \in {"freeing", "copying"} =>
         /\ new.table_size > 0
         /\ ~disturbed => new.no_objects <= h.no_objects
         /\ Fits(new.no_objects)

WalkInv == pc = "moving" => IsIterator(walk)

ReadInv == pc = "moving" /\ ~disturbed /\ walk.nmemb > 0 => FromBucket(h, walk)

LoadInv ==
    /\ Counted(h) /\ WalkInv /\ ReadInv /\ (pc = "setup" => other = NULL)
    /\ Guarded => TableBounds /\ TargetInv /\ MovedInv

LEMMA ComingType ==
    /\ \A k : Pending(k) \in {0, 1}
    /\ Pending(NULL) = 0 /\ \A k \in Key : Pending(k) = 1
    /\ Waiting \in {0, 1} /\ Waiting <= Pending(call.key) /\ Coming \in Nat
  BY HandleAssumption DEF Pending, Waiting, Coming

\* The quotient of do_rehash.
LEMMA Quotient ==
  ASSUME NEW n \in Nat, NEW d \in Nat, d > 0
  PROVE  /\ 4 * (n \div d) > 3 => n >= d
         /\ ~(4 * (n \div d) > 3) => n < d
<1> DEFINE q == n \div d
           m == n % d
<1>1. q \in Nat /\ m \in 0 .. d - 1 /\ n = d * q + m
  OBVIOUS
<1> HIDE DEF q, m
<1>2. q > 0 => d * q >= d
  BY <1>1
<1>3. q = 0 => d * q = 0
  BY <1>1
<1> QED
  BY <1>1, <1>2, <1>3 DEF q

LEMMA LoadTypes ==
  ASSUME IndInv
  PROVE  /\ IsHandle(h) /\ IsHandle(new) /\ MaxObjects \in Nat /\ NULL \notin Key
         /\ h.table_size \in Nat /\ new.table_size \in Nat
         /\ h.no_objects \in Int /\ new.no_objects \in Int
  BY HandleAssumption, HandleFields DEF IndInv, TableInv, Sound

\* Steps that leave the handles and the walk alone.
LEMMA LoadQuiet ==
  ASSUME IndInv, LoadInv, UNCHANGED <<h, call, new, walk, disturbed, failed, other>>,
         \/ pc' = pc
         \/ pc' \in {"stuck", "crashed"}
         \/ pc = "freeing" /\ pc' = "copying"
  PROVE  LoadInv'
<1>1. UNCHANGED <<h, call, new, walk, disturbed, failed, other>>
  OBVIOUS
<1>2. (Counted(h) /\ WalkInv /\ ReadInv /\ (pc = "setup" => other = NULL))'
  BY <1>1 DEF LoadInv, WalkInv, ReadInv, Counted, FromBucket
<1>3. ASSUME Guarded' PROVE (TableBounds /\ TargetInv /\ MovedInv)'
  <2>1. TableBounds /\ TargetInv /\ MovedInv
    BY <1>1, <1>3 DEF Guarded, LoadInv
  <2>2. /\ ToCome(h, walk)' = ToCome(h, walk) /\ Pending(other)' = Pending(other)
        /\ Waiting' = Waiting \/ (Waiting' = 0 /\ pc' \in {"stuck", "crashed"})
    BY <1>1 DEF Waiting, Rehashing
  <2>3. /\ h.no_objects \in Int /\ h.table_size \in Nat /\ MaxObjects \in Nat
        /\ Waiting \in {0, 1} /\ Pending(other) \in {0, 1}
    BY LoadTypes, ComingType
  <2>4. TableBounds'
    <3>1. Coming \in Nat /\ Coming' \in Nat /\ Coming' <= Coming
      BY <2>2, <2>3 DEF Coming
    <3> QED
      BY <1>1, <2>1, <2>2, <2>3, <3>1 DEF TableBounds
  <2>5. TargetInv'
    BY <1>1, <2>1 DEF TargetInv, Rehashing
  <2>6. CASE pc' \in {"stuck", "crashed"}
    BY <2>4, <2>5, <2>6 DEF MovedInv
  <2>7. CASE pc' \notin {"stuck", "crashed"}
    <3>1. Coming' = Coming
      BY <2>2, <2>7 DEF Coming
    <3>2. MovedInv'
      BY <1>1, <2>1, <2>2, <2>7, <3>1 DEF MovedInv, Fits
    <3> QED
      BY <2>4, <2>5, <3>2
  <2> QED
    BY <2>6, <2>7
<1> QED
  BY <1>2, <1>3 DEF LoadInv

LEMMA LoadStop ==
  ASSUME IndInv, LoadInv, Stop("stuck") \/ Stop("crashed")
  PROVE  LoadInv'
<1>1. UNCHANGED <<h, call, new, walk, disturbed, failed, other>> /\ pc' \in {"stuck", "crashed"}
  BY DEF Stop, rehash
<1> QED
  BY <1>1, LoadQuiet

\* A table of no entries, outside hi_rehash.
LEMMA LoadEmpty ==
  ASSUME Sound(h'), ~FiniCrashes(h'), h'.no_objects = 0, pc' \in {"idle", "setup"},
         h'.rehash_auto => h'.table_size > 0, other' = NULL
  PROVE  LoadInv'
<1>1. Counted(h')
  BY SoundCounted
<1>2. MaxObjects \in Nat
  BY HandleAssumption
<1>3. IsHandle(h')
  BY DEF Sound
<1>4. h'.table_size \in Nat
  BY <1>3, HandleFields
<1>5. pc' \notin Rehashing /\ pc' # "inserting" /\ pc' # "moving" /\ pc' \notin {"freeing", "copying"}
  BY DEF Rehashing
<1>6. Waiting' = 0 /\ Pending(other)' = 0 /\ Coming' = 0
  BY <1>5 DEF Waiting, Pending, Coming
<1>7. Guarded' => TableBounds'
  BY <1>2, <1>4, <1>5, <1>6 DEF Guarded, TableBounds
<1>8. TargetInv' /\ MovedInv' /\ WalkInv' /\ ReadInv'
  BY <1>5 DEF TargetInv, MovedInv, WalkInv, ReadInv
<1>9. Counted(h)'
  BY <1>1 DEF Counted
<1> QED
  BY <1>7, <1>8, <1>9 DEF LoadInv

\* hi_rehash comes back with the old table.
LEMMA LoadReturn ==
  ASSUME IndInv, LoadInv, NEW code, RehashReturns(code), UNCHANGED h,
         code \in {"SUCCESS", "NODATA"} /\ Guarded => TableBounds'
  PROVE  LoadInv'
<1>1. /\ pc' \in {"idle", "inserting"} /\ failed' = (failed \/ code \notin {"SUCCESS", "NODATA"})
  BY DEF RehashReturns
<1>2. Guarded' => Guarded /\ code \in {"SUCCESS", "NODATA"}
  BY <1>1 DEF Guarded
<1>3. Counted(h)'
  BY DEF LoadInv, Counted
<1> QED
  BY <1>1, <1>2, <1>3 DEF LoadInv, WalkInv, ReadInv, TargetInv, MovedInv, Rehashing

\* hi_rehash begins: idle, or for an insertion.
LEMMA LoadBegin ==
  ASSUME IndInv, LoadInv, pc = "idle", NEW k, NEW n \in Nat, RehashBegins(k, n),
         \/ k = NULL /\ n \in RehashSizes
         \/ k \in Key /\ n = 2 * h.table_size /\ h.no_objects + Pending(other) < MaxObjects
  PROVE  LoadInv'
<1>0. /\ Sound(h) /\ IsHandle(h) /\ MaxObjects \in Nat /\ NULL \notin Key
      /\ h.table_size \in Nat /\ h.no_objects \in Int
  BY LoadTypes DEF IndInv, TableInv
<1>1. /\ IsFiniteSet(Ahead(h, 0)) /\ Cardinality(Ahead(h, 0)) \in Nat
      /\ Cardinality(Ahead(h, 0)) <= h.no_objects
  BY AheadFinite DEF LoadInv, Counted
<1>2. ASSUME Guarded, call'.key = k, other' = other
      PROVE  /\ TableBounds /\ Coming' \in Nat /\ h.no_objects + Coming' <= MaxObjects
             /\ h.no_objects + Coming' <= h.table_size + 2
  <2>1. TableBounds
    BY <1>2 DEF LoadInv
  <2>2. Waiting = 0
    BY DEF Waiting, Rehashing
  <2>3. Waiting' \in {0, 1} /\ (k = NULL => Waiting' = 0) /\ Pending(other) \in {0, 1}
    BY <1>2, ComingType DEF Waiting
  <2>4. Coming = Pending(other) /\ Coming' = Waiting' + Pending(other)
    BY <1>2, <2>2, <2>3 DEF Coming
  <2> HIDE DEF Waiting, Coming
  <2> QED
    BY <1>0, <2>1, <2>3, <2>4 DEF TableBounds
<1>3. CASE Stop("stuck") \/ Stop("crashed")
  BY <1>3, LoadStop
<1>4. ASSUME NEW r \in GetNextBucket(h, NoIterator), r.code = "SUCCESS",
             new' = ForRehash(h, n), walk' = r.it, disturbed' = FALSE,
             call' = [key |-> k, target |-> n, was |-> Contents(h)], pc' = "moving",
             UNCHANGED <<h, failed, other>>
      PROVE  LoadInv'
  <2>1. NoIterator.bucket = 0
    BY DEF NoIterator
  <2>2. /\ IsIterator(walk') /\ walk'.nmemb > 0 /\ FromBucket(h, walk')
        /\ ToCome(h, walk') = Cardinality(Ahead(h, 0))
    BY <1>0, <1>1, <1>4, <2>1, NoIteratorIs, NextBucket
  <2>3. new'.table_size = n /\ new'.no_objects = 0
    <3>1. PICK e \in Engine \cup {NoEngine}, m \in Nat : h \in Shape(e, m)
      BY <1>0 DEF IsHandle
    <3> QED
      BY <1>4, <3>1 DEF Shape, ForRehash, NewHandle
  <2>4. (Counted(h) /\ WalkInv /\ ReadInv /\ (pc = "setup" => other = NULL))'
    <3>1. FromBucket(h, walk)'
      BY <1>4, <2>2 DEF FromBucket
    <3> QED
      BY <1>4, <2>2, <3>1 DEF LoadInv, Counted, WalkInv, ReadInv
  <2>5. ASSUME Guarded' PROVE (TableBounds /\ TargetInv /\ MovedInv)'
    <3>1. /\ TableBounds /\ Coming' \in Nat /\ h.no_objects + Coming' <= MaxObjects
          /\ h.no_objects + Coming' <= h.table_size + 2
      BY <1>2, <1>4, <2>5 DEF Guarded
    <3>2. TableBounds'
      BY <1>4, <3>1 DEF TableBounds
    <3>3. TargetInv'
      BY <1>0, <1>4, <2>3 DEF TargetInv
    <3>4. ToCome(h, walk)' <= h.no_objects /\ ToCome(h, walk)' \in Nat
      BY <1>1, <1>4, <2>2
    <3>5. Fits(0 + ToCome(h, walk))'
      BY <1>0, <1>4, <3>1, <3>4 DEF Fits, TableBounds
    <3>6. MovedInv'
      BY <1>0, <1>4, <2>2, <2>3, <3>4, <3>5 DEF MovedInv
    <3> QED
      BY <3>2, <3>3, <3>6
  <2> QED
    BY <2>4, <2>5 DEF LoadInv
<1>5. ASSUME NEW r \in GetNextBucket(h, NoIterator), r.code = "NODATA",
             call' = [NoCall EXCEPT !.key = k], RehashReturns(r.code), UNCHANGED <<h, other>>
      PROVE  LoadInv'
  <2>1. Ahead(h, 0) = {}
    <3> DEFINE S == {b \in 0 .. h.table_size - 1 : Stored(h, b) > 0}
    <3>1. S = {}
      <4>1. NoIterator.bucket = 0
        BY DEF NoIterator
      <4>2. S = {b \in NoIterator.bucket .. h.table_size - 1 : Stored(h, b) > 0}
        BY <4>1
      <4> HIDE DEF S
      <4> QED
        BY <1>5, <4>2 DEF GetNextBucket
    <3>2. ASSUME NEW b \in 0 .. h.table_size - 1 PROVE Held(h.bucket[b]) = {}
      <4>1. Stored(h, b) \in Nat /\ ~(Stored(h, b) > 0)
        BY <1>0, <3>1, HeldFinite
      <4>2. Stored(h, b) = 0
        BY <4>1
      <4> QED
        BY <1>0, <4>2, HeldFinite
    <3> QED
      BY <3>2, AheadHas
  <2>2. h.no_objects = 0
    BY <1>0, <2>1, NoneAhead
  <2>3. ASSUME Guarded PROVE TableBounds'
    <3>1. call'.key = k
      BY <1>5 DEF NoCall
    <3>2. TableBounds /\ Coming' \in Nat /\ h.no_objects + Coming' <= MaxObjects
      BY <1>2, <1>5, <2>3, <3>1
    <3>3. Pending(other) \in {0, 1}
      BY ComingType
    <3> QED
      BY <1>0, <1>5, <2>2, <3>2, <3>3 DEF TableBounds
  <2> QED
    BY <1>5, <2>3, LoadReturn
<1>6. ASSUME RehashReturns("SYSTEM"), UNCHANGED h
      PROVE  LoadInv'
  BY <1>6, LoadReturn
<1>7. ASSUME NEW r \in GetNextBucket(h, NoIterator),
             IF WalkHangs(h) THEN Stop("stuck")
             ELSE IF WalkCrashes(h, r) THEN Stop("crashed")
             ELSE IF r.code = "SUCCESS"
               THEN /\ new' = ForRehash(h, n) /\ walk' = r.it /\ disturbed' = FALSE /\ overtaken' = FALSE
                    /\ call' = [key |-> k, target |-> n, was |-> Contents(h)] /\ pc' = "moving"
                    /\ UNCHANGED <<env, set, h, it, failed, other>>
             ELSE /\ call' = [NoCall EXCEPT !.key = k] /\ RehashReturns(r.code)
                  /\ UNCHANGED <<env, set, h, it, other>>
      PROVE  LoadInv'
  <2>1. r.code \in {"SUCCESS", "NODATA", "SYSTEM"}
    BY DEF GetNextBucket
  <2> QED
    BY <1>3, <1>4, <1>5, <1>6, <1>7, <2>1
<1>8. \/ \E r \in GetNextBucket(h, NoIterator) :
             IF WalkHangs(h) THEN Stop("stuck")
             ELSE IF WalkCrashes(h, r) THEN Stop("crashed")
             ELSE IF r.code = "SUCCESS"
               THEN /\ new' = ForRehash(h, n) /\ walk' = r.it /\ disturbed' = FALSE /\ overtaken' = FALSE
                    /\ call' = [key |-> k, target |-> n, was |-> Contents(h)] /\ pc' = "moving"
                    /\ UNCHANGED <<env, set, h, it, failed, other>>
             ELSE /\ call' = [NoCall EXCEPT !.key = k] /\ RehashReturns(r.code)
                  /\ UNCHANGED <<env, set, h, it, other>>
      \/ RehashReturns("SYSTEM") /\ UNCHANGED h
  BY Zenon DEF RehashBegins
<1> QED
  BY <1>6, <1>7, <1>8

\* An insertion into the new table ends hi_rehash, or the process.
LEMMA LoadAbort ==
  ASSUME IndInv, LoadInv, NEW H, NEW code, RehashAborts(H, code),
         code \notin {"SUCCESS", "NODATA"}
  PROVE  LoadInv'
<1>1. CASE Stop("stuck") \/ Stop("crashed")
  BY <1>1, LoadStop
<1>2. CASE RehashReturns(code) /\ UNCHANGED h
  BY <1>2, LoadReturn
<1> QED
  BY <1>1, <1>2 DEF RehashAborts

LEMMA InsertCodes ==
  ASSUME NEW H, NEW k, NEW o \in EngineInsert(H, k)
  PROVE  o.code \in {"SUCCESS", "DUPKEY", "SYSTEM", "INTERNAL"}
<1>1. \A f \in InsertFailures(H, k) : f.code = "SYSTEM"
  BY DEF InsertFailures, Outcome
<1>2. \/ o \in {Outcome(H, "DUPKEY"), Outcome(H, "SYSTEM"), Outcome(H, "INTERNAL")}
      \/ o \in InsertFailures(H, k) \/ o = Outcome(Stores(H, k), "SUCCESS")
  BY DEF EngineInsert
<1> QED
  BY <1>1, <1>2 DEF Outcome

\* The moves of hi_rehash, one after another.
LEMMA RehashMoveCases ==
  ASSUME RehashMove
  PROVE  \/ Stop("stuck") \/ Stop("crashed")
         \/ \E r \in NextEntries(h, walk) :
              \/ r.code = "NODATA" /\ pc' = "freeing" /\ UNCHANGED <<h, call, new, disturbed, failed, other>>
              \/ r.code = "SYSTEM" /\ RehashReturns("SYSTEM") /\ UNCHANGED h
              \/ /\ r.code = "SUCCESS" /\ r.it.keys[r.it.nmemb] \in Key /\ new.table_size # 0
                 /\ \/ RehashAborts(new, "DUPKEY")
                    \/ \E o \in EngineInsert(new, r.it.keys[r.it.nmemb]) :
                         IF o.code # "SUCCESS" THEN RehashAborts(o.h, o.code)
                         ELSE /\ new' = o.h /\ walk' = Taken(r.it)
                              /\ UNCHANGED <<h, pc, call, disturbed, failed, other>>
<1>1. CASE WalkHangs(h) /\ walk.nmemb = 0
  BY <1>1 DEF RehashMove
<1>2. CASE ~(WalkHangs(h) /\ walk.nmemb = 0)
  <2>1. PICK r \in NextEntries(h, walk) :
          LET k == r.it.keys[r.it.nmemb] IN
          IF WalkCrashes(h, r) THEN Stop("crashed")
          ELSE CASE r.code = "NODATA" ->
                      /\ pc' = "freeing" /\ walk' = NoIterator
                      /\ UNCHANGED <<env, set, h, it, call, new, disturbed, overtaken, failed, other>>
                 [] r.code = "SYSTEM" ->
                      /\ call' = [NoCall EXCEPT !.key = call.key] /\ RehashReturns("SYSTEM")
                      /\ UNCHANGED <<env, set, h, it, other>>
                 [] r.code = "SUCCESS" /\ (k \notin Key \/ new.table_size = 0) ->
                      Stop("crashed")
                 [] OTHER ->
                      \/ k \notin Contents(h) /\ Stop("crashed")
                      \/ /\ new.coll_eng \in ListEngine /\ TRUE \in FindsKey(new, k)
                         /\ RehashAborts(new, "DUPKEY")
                      \/ /\ new.coll_eng \in ListEngine => FALSE \in FindsKey(new, k)
                         /\ \E o \in EngineInsert(new, k) :
                              IF o.code # "SUCCESS" THEN RehashAborts(o.h, o.code)
                              ELSE /\ new' = o.h /\ walk' = Taken(r.it)
                                   /\ UNCHANGED <<env, set, h, it, pc, call,
                                                  disturbed, overtaken, failed, other>>
    BY <1>2 DEF RehashMove
  <2> DEFINE k == r.it.keys[r.it.nmemb]
  <2>2. r.code \in {"NODATA", "SYSTEM", "SUCCESS"}
    BY DEF NextEntries, GetNextBucket
  <2> HIDE DEF k
  <2>3. CASE WalkCrashes(h, r)
    BY <2>1, <2>3
  <2>4. CASE ~WalkCrashes(h, r) /\ r.code = "NODATA"
    BY <2>1, <2>4
  <2>5. CASE ~WalkCrashes(h, r) /\ r.code = "SYSTEM"
    BY <2>1, <2>5
  <2>6. CASE /\ ~WalkCrashes(h, r) /\ r.code = "SUCCESS"
             /\ (k \notin Key \/ new.table_size = 0)
    BY <2>1, <2>6 DEF k
  <2>7. CASE /\ ~WalkCrashes(h, r) /\ r.code = "SUCCESS"
             /\ k \in Key /\ new.table_size # 0
    <3>1. \/ Stop("crashed")
          \/ RehashAborts(new, "DUPKEY")
          \/ \E o \in EngineInsert(new, k) :
               IF o.code # "SUCCESS" THEN RehashAborts(o.h, o.code)
               ELSE /\ new' = o.h /\ walk' = Taken(r.it)
                    /\ UNCHANGED <<env, set, h, it, pc, call, disturbed, overtaken, failed, other>>
      BY <2>1, <2>7 DEF k
    <3>2. \/ Stop("crashed")
          \/ RehashAborts(new, "DUPKEY")
          \/ \E o \in EngineInsert(new, k) :
               IF o.code # "SUCCESS" THEN RehashAborts(o.h, o.code)
               ELSE /\ new' = o.h /\ walk' = Taken(r.it)
                    /\ UNCHANGED <<h, pc, call, disturbed, failed, other>>
      BY <3>1
    <3> QED
      BY <2>7, <3>2 DEF k
  <2> QED
    BY <2>2, <2>3, <2>4, <2>5, <2>6, <2>7
<1> QED
  BY <1>1, <1>2

LEMMA LoadMove == ASSUME IndInv, LoadInv, RehashMove PROVE LoadInv'
<1>0. /\ IsHandle(h) /\ Sound(new) /\ ~FiniCrashes(new) /\ env.threadsafe \in BOOLEAN
      /\ MaxObjects \in Nat /\ h.table_size \in Nat /\ new.table_size \in Nat
      /\ h.no_objects \in Int /\ new.no_objects \in Int /\ pc = "moving"
  BY LoadTypes DEF IndInv, TypeInv, TableInv, RehashMove
<1>1. IsFiniteSet(Ahead(h, 0)) /\ IsIterator(walk) /\ Counted(h)
  BY <1>0 DEF LoadInv, Counted, WalkInv
<1>2. ToCome(h, walk) \in Nat
  <2>1. walk.nmemb \in Nat /\ walk.bucket + 1 \in Nat
    BY <1>1 DEF IsIterator
  <2>2. Cardinality(Ahead(h, walk.bucket + 1)) \in Nat
    BY <1>1, <2>1, AheadFinite
  <2> QED
    BY <1>0, <2>1, <2>2 DEF ToCome
<1>3. CASE Stop("stuck") \/ Stop("crashed")
  BY <1>3, LoadStop
<1>4. ASSUME NEW r \in NextEntries(h, walk), r.code = "NODATA", pc' = "freeing",
             UNCHANGED <<h, call, new, disturbed, failed, other>>
      PROVE  LoadInv'
  <2>1. walk.nmemb = 0
    BY <1>1, <1>4, NextNothing
  <2>2. (Counted(h) /\ WalkInv /\ ReadInv /\ (pc = "setup" => other = NULL))'
    BY <1>1, <1>4 DEF Counted, WalkInv, ReadInv
  <2>3. ASSUME Guarded' PROVE (TableBounds /\ TargetInv /\ MovedInv)'
    <3>1. TableBounds /\ TargetInv /\ MovedInv
      BY <1>4, <2>3 DEF Guarded, LoadInv
    <3>2. Coming' = Coming /\ Coming \in Nat
      BY <1>0, <1>4, ComingType DEF Coming, Waiting, Rehashing
    <3>3. TableBounds'
      BY <1>0, <1>4, <3>1, <3>2 DEF TableBounds
    <3>4. TargetInv'
      BY <1>0, <1>4, <3>1 DEF TargetInv, Rehashing
    <3>5. /\ new.table_size > 0 /\ Fits(new.no_objects)
          /\ ~disturbed => new.no_objects <= h.no_objects
      BY <1>0, <1>2, <2>1, <3>1, <3>2 DEF MovedInv, Fits
    <3>6. MovedInv'
      BY <1>4, <3>2, <3>5 DEF MovedInv, Fits
    <3> QED
      BY <3>3, <3>4, <3>6
  <2> QED
    BY <2>2, <2>3 DEF LoadInv
<1>5. CASE RehashReturns("SYSTEM") /\ UNCHANGED h
  BY <1>5, LoadReturn
<1>6. CASE RehashAborts(new, "DUPKEY")
  BY <1>6, LoadAbort
<1>7. ASSUME NEW r \in NextEntries(h, walk), r.code = "SUCCESS", NEW k \in Key,
             new.table_size # 0, NEW o \in EngineInsert(new, k),
             IF o.code # "SUCCESS" THEN RehashAborts(o.h, o.code)
             ELSE /\ new' = o.h /\ walk' = Taken(r.it)
                  /\ UNCHANGED <<h, pc, call, disturbed, failed, other>>
      PROVE  LoadInv'
  <2>1. CASE o.code # "SUCCESS"
    <3>1. o.code \notin {"SUCCESS", "NODATA"}
      BY <2>1, InsertCodes
    <3> QED
      BY <1>7, <2>1, <3>1, LoadAbort
  <2>2. CASE o.code = "SUCCESS"
    <3>2. ~Broken(new, k)
      <4>1. BucketOf(new, k) \in DOMAIN new.bucket
        BY <1>0, <1>7, BucketOfType, HandleFields DEF Sound
      <4> QED
        BY <1>0, <1>7, <4>1 DEF Broken, FiniCrashes
    <3>3. Same(new, o.h) /\ Grows(new, o.h)
      BY <1>0, <2>2, <3>2, InsertSound
    <3>4. /\ new'.table_size = new.table_size /\ new'.no_objects = new.no_objects + 1
          /\ UNCHANGED <<h, pc, call, disturbed, failed, other>> /\ walk' = Taken(r.it)
      BY <1>7, <2>2, <3>3 DEF Same, Grows
    <3>5. /\ IsIterator(walk') /\ ToCome(h, walk') = ToCome(h, walk) - 1
          /\ (walk.nmemb > 0 => FromBucket(h, walk)) => FromBucket(h, walk')
      BY <1>0, <1>1, <1>7, <3>4, NextTaken
    <3>6. (Counted(h) /\ WalkInv /\ ReadInv /\ (pc = "setup" => other = NULL))'
      <4>1. FromBucket(h, walk)' = FromBucket(h, walk')
        BY <3>4 DEF FromBucket
      <4>2. ReadInv'
        BY <1>0, <3>4, <3>5, <4>1 DEF ReadInv, LoadInv
      <4> QED
        BY <1>0, <1>1, <3>4, <3>5, <4>2 DEF Counted, WalkInv
    <3>7. ASSUME Guarded' PROVE (TableBounds /\ TargetInv /\ MovedInv)'
      <4>1. TableBounds /\ TargetInv /\ MovedInv
        BY <3>4, <3>7 DEF Guarded, LoadInv
      <4>2. Coming' = Coming /\ Coming \in Nat
        BY <3>4, ComingType DEF Coming, Waiting
      <4>3. TableBounds'
        BY <3>4, <4>1, <4>2 DEF TableBounds
      <4>4. TargetInv'
        BY <3>4, <4>1 DEF TargetInv
      <4>5. ToCome(h, walk)' = ToCome(h, walk) - 1
        BY <3>4, <3>5
      <4>6. new'.no_objects + ToCome(h, walk)' = new.no_objects + ToCome(h, walk)
        BY <1>0, <1>2, <3>4, <4>5
      <4>7. MovedInv'
        BY <1>0, <1>7, <3>4, <4>1, <4>2, <4>6 DEF MovedInv, Fits
      <4> QED
        BY <4>3, <4>4, <4>7
    <3> QED
      BY <3>6, <3>7 DEF LoadInv
  <2> QED
    BY <2>1, <2>2
<1> QED
  BY <1>3, <1>4, <1>5, <1>6, <1>7, RehashMoveCases

\* The new table becomes the handle's.
LEMMA LoadCopy == ASSUME IndInv, LoadInv, RehashCopy PROVE LoadInv'
<1>0. /\ Sound(new) /\ ~FiniCrashes(new) /\ h.rehash_auto \in BOOLEAN
      /\ call.key \in Key \cup {NULL} /\ NULL \notin Key /\ RehashSizes \subseteq Nat
      /\ MaxObjects \in Nat /\ h.table_size \in Nat /\ new.table_size \in Nat
      /\ new.no_objects \in Int /\ pc = "copying"
  BY LoadTypes, HandleFields, HandleAssumption DEF IndInv, TypeInv, TableInv, RehashCopy
<1>1. /\ h' = [new EXCEPT !.rehash_auto = h.rehash_auto]
      /\ pc' = IF call'.key = NULL THEN "idle" ELSE "inserting"
      /\ (failed => failed') /\ call'.key = call.key /\ other' = other
  BY DEF RehashCopy, RehashReturns, NoCall
<1>2. /\ h'.rehash_auto = h.rehash_auto /\ h'.table_size = new.table_size
      /\ h'.bucket = new.bucket /\ h'.no_objects = new.no_objects
  <2>1. PICK e \in Engine \cup {NoEngine}, m \in Nat : new \in Shape(e, m)
    BY <1>0 DEF Sound, IsHandle
  <2> QED
    BY <1>1, <2>1 DEF Shape
<1>3. Counted(h)'
  <2>1. Counted(new)
    BY <1>0, SoundCounted
  <2> QED
    BY <1>2, <2>1 DEF Counted, Ahead
<1>4. pc' \notin Rehashing /\ pc' # "moving" /\ pc' \notin {"freeing", "copying"}
  BY <1>1 DEF Rehashing
<1>5. WalkInv' /\ ReadInv' /\ TargetInv' /\ MovedInv' /\ pc' # "setup"
  BY <1>1, <1>4 DEF WalkInv, ReadInv, TargetInv, MovedInv
<1>6. ASSUME Guarded' PROVE TableBounds'
  <2>1. Guarded
    BY <1>1, <1>2, <1>6 DEF Guarded
  <2>2. TargetInv /\ new.table_size > 0 /\ Fits(new.no_objects) /\ h.table_size > 0
    BY <1>0, <2>1 DEF LoadInv, MovedInv, TableBounds
  <2>3. /\ Waiting' = Pending(call.key) /\ Waiting = Pending(call.key)
        /\ Pending(other)' = Pending(other)
    BY <1>0, <1>1 DEF Waiting, Rehashing, Pending
  <2>4. Coming' = Coming /\ Coming = Pending(call.key) + Pending(other) /\ Pending(other) \in {0, 1}
    BY <2>3, ComingType DEF Coming
  <2>5. CASE call.key = NULL
    <3>1. new.table_size \in RehashSizes
      BY <1>0, <2>2, <2>5 DEF TargetInv, Rehashing
    <3>2. new.table_size >= MaxObjects
      BY <2>1, <2>2, <3>1 DEF Guarded
    <3>3. Pending(call.key) = 0 /\ pc' = "idle"
      BY <1>1, <2>5, ComingType
    <3> QED
      BY <1>0, <1>2, <2>2, <2>3, <2>4, <3>2, <3>3 DEF TableBounds, Fits
  <2>6. CASE call.key # NULL
    <3>1. new.table_size = 2 * h.table_size
      BY <1>0, <2>2, <2>6 DEF TargetInv, Rehashing
    <3>2. Pending(call.key) = 1
      BY <2>6 DEF Pending
    <3> QED
      BY <1>0, <1>2, <2>2, <2>3, <2>4, <2>6, <3>1, <3>2 DEF TableBounds, Fits
  <2> QED
    BY <2>5, <2>6
<1> QED
  BY <1>3, <1>5, <1>6 DEF LoadInv

\* An insertion that there is room for, or a removal, outside hi_rehash.
LEMMA LoadTable ==
  ASSUME IndInv, LoadInv, IsHandle(h'), Same(h, h'), UNCHANGED <<failed, other>>,
         pc \in {"idle", "inserting"}, pc' = "idle",
         \/ Grows(h, h') /\ pc = "inserting"
         \/ Shrinks(h, h') \/ Keeps(h, h')
  PROVE  LoadInv'
<1>0. /\ IsHandle(h) /\ MaxObjects \in Nat /\ h.table_size \in Nat /\ h.no_objects \in Int
  BY LoadTypes
<1>1. Counted(h)'
  <2>1. Counted(h')
    BY <1>0, CountedChanged DEF LoadInv
  <2> QED
    BY <2>1 DEF Counted
<1>2. WalkInv' /\ ReadInv' /\ TargetInv' /\ MovedInv'
  BY DEF WalkInv, ReadInv, TargetInv, MovedInv, Rehashing
<1>3. ASSUME Guarded' PROVE TableBounds'
  <2>1. TableBounds /\ h'.table_size = h.table_size
    BY <1>3 DEF LoadInv, Guarded, Same
  <2>2. \/ h'.no_objects = h.no_objects + 1 /\ pc = "inserting"
        \/ h'.no_objects = h.no_objects - 1
        \/ h'.no_objects = h.no_objects
    BY DEF Grows, Shrinks, Keeps
  <2>3. /\ Waiting' = 0 /\ (pc = "inserting" => Waiting = Pending(call.key))
        /\ Pending(other)' = Pending(other) /\ Pending(other) \in {0, 1} /\ Waiting \in {0, 1}
    BY ComingType DEF Waiting, Rehashing, Pending
  <2>4. pc = "inserting" => Waiting = 1
    BY <2>3, ComingType DEF IndInv, TypeInv
  <2> HIDE DEF Waiting
  <2> QED
    BY <1>0, <2>1, <2>2, <2>3, <2>4 DEF TableBounds, Coming
<1> QED
  BY <1>1, <1>2, <1>3 DEF LoadInv

LEMMA LoadInsert == ASSUME IndInv, LoadInv, InsertEntry PROVE LoadInv'
<1>0. Sound(h) /\ call.key \in Key /\ env.threadsafe \in BOOLEAN /\ pc = "inserting"
  BY DEF IndInv, TypeInv, TableInv, InsertEntry
<1>1. CASE h.locked \/ Broken(h, call.key)
  BY <1>1, LoadStop DEF InsertEntry
<1>2. CASE ~h.locked /\ ~Broken(h, call.key)
  <2>1. PICK o \in EngineInsert(h, call.key) : h' = o.h
    BY <1>2 DEF InsertEntry
  <2>2. pc' = "idle" /\ UNCHANGED <<failed, other>>
    BY <1>2 DEF InsertEntry, rehash
  <2>3. /\ Sound(o.h) /\ Same(h, o.h)
        /\ Grows(h, o.h) \/ Keeps(h, o.h)
    BY <1>0, <1>2, InsertSound
  <2>4. IsHandle(h')
    BY <2>1, <2>3 DEF Sound
  <2> QED
    BY <1>0, <2>1, <2>2, <2>3, <2>4, LoadTable
<1> QED
  BY <1>1, <1>2

LEMMA LoadRemove == ASSUME IndInv, LoadInv, hi_remove PROVE LoadInv'
<1>0. Sound(h) /\ IsHandle(h) /\ pc = "idle"
  BY DEF IndInv, TableInv, Sound, hi_remove
<1>1. CASE Stop("stuck") \/ Stop("crashed")
  BY <1>1, LoadStop
<1>2. ASSUME NEW k \in Key, ~(h.coll_eng = "ARRAY" /\ Broken(h, k)), NEW found \in FindsKey(h, k),
             h' = IF found THEN Removes(h, k) ELSE h, UNCHANGED <<pc, failed, other>>
      PROVE  LoadInv'
  <2>1. found \in BOOLEAN
    BY <1>2, FoundBoolean
  <2>2. IsHandle(h') /\ Same(h, h') /\ (Shrinks(h, h') \/ Keeps(h, h'))
    <3>1. CASE found = TRUE
      <4>1. h' = Removes(h, k)
        BY <1>2, <3>1
      <4>2. Sound(Removes(h, k)) /\ Same(h, Removes(h, k)) /\ Shrinks(h, Removes(h, k))
        BY <1>0, <1>2, <3>1, RemovesSound
      <4> QED
        BY <4>1, <4>2 DEF Sound
    <3>2. CASE found = FALSE
      <4>1. h' = h
        BY <1>2, <3>2
      <4> QED
        BY <1>0, <4>1 DEF Same, Keeps
    <3> QED
      BY <2>1, <3>1, <3>2
  <2> QED
    BY <1>0, <1>2, <2>2, LoadTable
<1>3. PICK k \in Key :
        IF h.locked /\ h.coll_eng = "ARRAY" THEN Stop("stuck")
        ELSE IF h.coll_eng = "ARRAY" /\ Broken(h, k) THEN Stop("crashed")
        ELSE \E found \in FindsKey(h, k) :
            /\ h' = IF found THEN Removes(h, k) ELSE h
            /\ it' = IF found THEN Outdated(it) ELSE it
            /\ UNCHANGED <<env, set, pc, call, rehash, other>>
  BY DEF hi_remove
<1>4. CASE ~(h.locked /\ h.coll_eng = "ARRAY") /\ ~(h.coll_eng = "ARRAY" /\ Broken(h, k))
  <2>1. PICK found \in FindsKey(h, k) :
          /\ h' = IF found THEN Removes(h, k) ELSE h
          /\ UNCHANGED <<env, set, pc, call, rehash, other>>
    BY <1>3, <1>4
  <2>2. UNCHANGED <<pc, failed, other>>
    BY <2>1 DEF rehash
  <2> QED
    BY <1>2, <1>4, <2>1, <2>2
<1> QED
  BY <1>1, <1>3, <1>4

\* What an operation does to those ahead of a bucket.
LEMMA AheadAfter ==
  ASSUME NEW H, IsHandle(H), NEW G, Same(H, G), Grows(H, G) \/ Shrinks(H, G) \/ Keeps(H, G),
         IsFiniteSet(Ahead(H, 0)), NEW n \in Nat
  PROVE  /\ Cardinality(Ahead(H, n)) \in Nat /\ Cardinality(Ahead(G, n)) \in Nat
         /\ Cardinality(Ahead(G, n)) <= Cardinality(Ahead(H, n)) + 1
         /\ Shrinks(H, G) \/ Keeps(H, G) => Cardinality(Ahead(G, n)) <= Cardinality(Ahead(H, n))
<1>1. Cardinality(Ahead(H, n)) \in Nat
  BY AheadFinite
<1>2. CASE Shrinks(H, G) \/ Keeps(H, G)
  <2>1. IsFiniteSet(Ahead(G, n)) /\ Cardinality(Ahead(G, n)) <= Cardinality(Ahead(H, n))
    BY <1>2, AheadFewer
  <2>2. Cardinality(Ahead(G, n)) \in Nat
    BY <2>1, FS_CardinalityType
  <2> QED
    BY <1>1, <2>1, <2>2
<1>3. CASE ~(Shrinks(H, G) \/ Keeps(H, G))
  <2>1. IsFiniteSet(Ahead(G, n)) /\ Cardinality(Ahead(G, n)) <= Cardinality(Ahead(H, n)) + 1
    BY <1>3, AheadGrows
  <2>2. Cardinality(Ahead(G, n)) \in Nat
    BY <2>1, FS_CardinalityType
  <2> QED
    BY <1>1, <1>3, <2>1, <2>2
<1> QED
  BY <1>2, <1>3

\* What the other thread inserts was coming before.
LEMMA ChangesCounted ==
  ASSUME IndInv, NEW k \in Key, OtherChanges(k)
  PROVE  /\ IsHandle(h') /\ Same(h, h')
         /\ \/ Grows(h, h') /\ Pending(other) = 1 /\ Pending(other)' = 0
            \/ (Shrinks(h, h') \/ Keeps(h, h')) /\ Pending(other)' <= Pending(other)
<1>0. Sound(h) /\ env.threadsafe \in BOOLEAN /\ ~Broken(h, k)
  BY DEF IndInv, TypeInv, TableInv, OtherChanges
<1>1. CASE other = k /\ other' = NULL /\ \E o \in EngineInsert(h, k) : h' = o.h
  <2>1. PICK o \in EngineInsert(h, k) : h' = o.h
    BY <1>1
  <2>2. /\ Sound(o.h) /\ Same(h, o.h)
        /\ Grows(h, o.h) \/ Keeps(h, o.h)
    BY <1>0, InsertSound
  <2>3. Pending(other) = 1 /\ Pending(other)' = 0
    BY <1>1, HandleAssumption DEF Pending
  <2> QED
    BY <2>1, <2>2, <2>3 DEF Sound
<1>2. CASE TRUE \in FindsKey(h, k) /\ h' = Removes(h, k) /\ UNCHANGED other
  <2>1. Sound(Removes(h, k)) /\ Same(h, Removes(h, k)) /\ Shrinks(h, Removes(h, k))
    BY <1>0, <1>2, RemovesSound
  <2>2. Pending(other)' = Pending(other) /\ Pending(other) \in {0, 1}
    BY <1>2, ComingType DEF Pending
  <2> QED
    BY <1>2, <2>1, <2>2 DEF Sound
<1> QED
  BY <1>1, <1>2 DEF OtherChanges

LEMMA ChangesObjects ==
  ASSUME IndInv, NEW k \in Key, OtherChanges(k)
  PROVE  /\ h'.no_objects \in Int /\ Pending(other)' <= Pending(other)
         /\ h'.no_objects + Pending(other)' <= h.no_objects + Pending(other)
<1>1. /\ h.no_objects \in Int /\ Pending(other) \in {0, 1} /\ Pending(other)' \in {0, 1}
  BY LoadTypes, ComingType DEF Pending
<1>2. /\ Grows(h, h') => h'.no_objects = h.no_objects + 1
      /\ Shrinks(h, h') => h'.no_objects = h.no_objects - 1
      /\ Keeps(h, h') => h'.no_objects = h.no_objects
  BY DEF Grows, Shrinks, Keeps
<1> QED
  BY <1>1, <1>2, ChangesCounted

\* An insertion or removal between two of hi_rehash's readings.
LEMMA CompletesToCome ==
  ASSUME IndInv, LoadInv, pc = "moving", NEW k \in Key, OtherChanges(k), UNCHANGED walk
  PROVE  /\ ToCome(h, walk) \in Nat /\ ToCome(h', walk') \in Nat
         /\ ToCome(h', walk') + Pending(other)' <= ToCome(h, walk) + Pending(other)
<1> DEFINE n == walk.bucket + 1
           A == Cardinality(Ahead(h, n))
           B == Cardinality(Ahead(h', n))
<1>1. IsHandle(h) /\ IsFiniteSet(Ahead(h, 0)) /\ walk.nmemb \in Nat /\ n \in Nat
  BY LoadTypes DEF LoadInv, Counted, WalkInv, IsIterator
<1>2. A \in Nat /\ B \in Nat /\ B <= A + 1 /\ (Shrinks(h, h') \/ Keeps(h, h') => B <= A)
  <2> HIDE DEF n
  <2> QED
    BY <1>1, ChangesCounted, AheadAfter
<1>3. /\ Pending(other) \in {0, 1} /\ Pending(other)' \in {0, 1}
      /\ B + Pending(other)' <= A + Pending(other)
  BY <1>2, ChangesCounted, ComingType DEF Pending
<1>4. ToCome(h, walk) = walk.nmemb + A /\ ToCome(h', walk') = walk.nmemb + B
  BY DEF ToCome
<1> HIDE DEF A, B
<1> QED
  BY <1>1, <1>2, <1>3, <1>4

\* One while hi_rehash reads a tree: it takes as many keys as there are afterwards.
LEMMA TreeToCome ==
  ASSUME IndInv, LoadInv, pc = "moving", ~disturbed, NEW r \in NextEntries(h, walk),
         r.code = "SUCCESS", r.it.nmemb = Len(r.it.keys), NEW k \in Key, OtherChanges(k),
         NEW t, walk' = [r.it EXCEPT !.keys = t, !.nmemb = Stored(h', r.it.bucket)],
         Stored(h', r.it.bucket) # 0
  PROVE  /\ ToCome(h, walk) \in Nat /\ ToCome(h', walk') \in Nat
         /\ ToCome(h', walk') + Pending(other)' <= ToCome(h, walk) + Pending(other)
         /\ IsIterator(walk') /\ walk'.nmemb > 0
<1> DEFINE b == r.it.bucket
           A == Cardinality(Ahead(h, b))
           B == Cardinality(Ahead(h', b))
<1>1. /\ IsHandle(h) /\ IsFiniteSet(Ahead(h, 0)) /\ IsIterator(walk)
      /\ walk.nmemb > 0 => FromBucket(h, walk)
  BY LoadTypes DEF LoadInv, Counted, WalkInv, ReadInv
<1>2. /\ IsIterator(r.it) /\ r.it.nmemb > 0 /\ ToCome(h, r.it) = ToCome(h, walk)
      /\ FromBucket(h, r.it)
  BY <1>1, NextFirst
<1>3. /\ b \in 0 .. h.table_size - 1 /\ r.it.nmemb = Stored(h, b) /\ b \in Nat /\ b + 1 \in Nat
      /\ h.table_size \in Nat
  BY <1>1, <1>2, HandleFields DEF FromBucket
<1>4. IsHandle(h') /\ h'.table_size = h.table_size /\ Same(h, h')
  BY ChangesCounted DEF Same
<1> HIDE DEF b
<1>5. Counted(h') /\ IsFiniteSet(Ahead(h', 0))
  <2>1. Counted(h')
    BY <1>1, <1>4, ChangesCounted, CountedChanged DEF LoadInv
  <2> QED
    BY <2>1 DEF Counted
<1>6. Stored(h', b) \in Nat /\ b \in 0 .. h'.table_size - 1 /\ b \in b .. h.table_size - 1
  BY <1>3, <1>4, HeldFinite
<1>7. /\ IsIterator(walk') /\ walk'.nmemb = Stored(h', b) /\ walk'.bucket = b
  <2>1. Stored(h', r.it.bucket) \in Nat
    BY <1>6 DEF b
  <2> QED
    BY <1>2, <2>1, ZenonT(60) DEF IsIterator, b
<1>8. A = Stored(h, b) + Cardinality(Ahead(h, b + 1))
  BY <1>1, <1>3, <1>6, AheadSplit
<1>9. B = Stored(h', b) + Cardinality(Ahead(h', b + 1))
  BY <1>3, <1>4, <1>5, <1>6, AheadSplit
<1>10. ToCome(h, walk) = A /\ ToCome(h', walk') = B
  BY <1>2, <1>3, <1>7, <1>8, <1>9 DEF ToCome, b
<1>11. A \in Nat /\ B \in Nat /\ B <= A + 1 /\ (Shrinks(h, h') \/ Keeps(h, h') => B <= A)
  BY <1>1, <1>3, ChangesCounted, AheadAfter
<1>12. /\ Pending(other) \in {0, 1} /\ Pending(other)' \in {0, 1}
       /\ B + Pending(other)' <= A + Pending(other)
  BY <1>11, ChangesCounted, ComingType DEF Pending
<1>13. walk'.nmemb > 0
  BY <1>6, <1>7 DEF b
<1> HIDE DEF A, B
<1> QED
  BY <1>7, <1>10, <1>11, <1>12, <1>13

\* hi_get while hi_rehash reads a list.
LEMMA ListToCome ==
  ASSUME IndInv, LoadInv, pc = "moving", ~disturbed, NEW r \in NextEntries(h, walk),
         r.code = "SUCCESS", NEW t, walk' = [r.it EXCEPT !.keys = t], UNCHANGED <<h, other>>
  PROVE  /\ ToCome(h, walk) \in Nat /\ ToCome(h', walk') \in Nat
         /\ ToCome(h', walk') + Pending(other)' <= ToCome(h, walk) + Pending(other)
         /\ IsIterator(walk') /\ walk'.nmemb > 0
<1>1. /\ IsHandle(h) /\ IsFiniteSet(Ahead(h, 0)) /\ IsIterator(walk)
      /\ walk.nmemb > 0 => FromBucket(h, walk)
  BY LoadTypes DEF LoadInv, Counted, WalkInv, ReadInv
<1>2. IsIterator(r.it) /\ r.it.nmemb > 0 /\ ToCome(h, r.it) = ToCome(h, walk)
  BY <1>1, NextFirst
<1>3. /\ IsIterator(walk') /\ walk'.nmemb = r.it.nmemb /\ walk'.bucket = r.it.bucket
      /\ r.it.nmemb \in Nat /\ r.it.bucket + 1 \in Nat
  BY <1>2 DEF IsIterator
<1>4. Cardinality(Ahead(h, r.it.bucket + 1)) \in Nat
  BY <1>1, <1>3, AheadFinite
<1>5. Pending(other)' = Pending(other) /\ Pending(other) \in {0, 1}
  BY ComingType DEF Pending
<1> QED
  BY <1>2, <1>3, <1>4, <1>5 DEF ToCome

\* The other thread's calls during hi_rehash.
LEMMA OtherToCome ==
  ASSUME IndInv, LoadInv, pc = "moving", OtherCompletes \/ ReadOvertaken
  PROVE  /\ ToCome(h, walk) \in Nat /\ ToCome(h', walk') \in Nat
         /\ ToCome(h', walk') + Pending(other)' <= ToCome(h, walk) + Pending(other)
         /\ IsIterator(walk') /\ (walk' = walk \/ walk'.nmemb > 0)
<1>1. CASE OtherCompletes
  <2>1. (\E k \in Key : OtherChanges(k)) /\ UNCHANGED walk
    BY <1>1 DEF OtherCompletes
  <2> QED
    BY <2>1, CompletesToCome DEF LoadInv, WalkInv
<1>2. CASE ReadOvertaken
  <2>1. /\ ~disturbed
        /\ \E r \in NextEntries(h, walk) :
             r.code = "SUCCESS" /\ r.it.nmemb = Len(r.it.keys) /\ (TreeOvertaken(r) \/ ListOvertaken(r))
    BY <1>2 DEF ReadOvertaken
  <2>2. PICK r \in NextEntries(h, walk) :
          r.code = "SUCCESS" /\ r.it.nmemb = Len(r.it.keys) /\ (TreeOvertaken(r) \/ ListOvertaken(r))
    BY <2>1
  <2>3. CASE TreeOvertaken(r)
    <3>1. PICK k \in Key : OtherChanges(k)
      BY <2>3, Zenon DEF TreeOvertaken
    <3>2. PICK n \in {Stored(h', r.it.bucket)} \ {0, Stored(h, r.it.bucket)} :
            \E t \in TreeMisread(h.bucket[r.it.bucket], n) :
              walk' = [r.it EXCEPT !.keys = t, !.nmemb = n]
      BY <2>3, Zenon DEF TreeOvertaken
    <3>3. n = Stored(h', r.it.bucket) /\ n # 0
      BY <3>2
    <3>4. PICK t : walk' = [r.it EXCEPT !.keys = t, !.nmemb = Stored(h', r.it.bucket)]
      BY <3>2, <3>3
    <3> QED
      BY <2>1, <2>2, <3>1, <3>3, <3>4, TreeToCome
  <2>4. CASE ListOvertaken(r)
    <3>1. UNCHANGED <<h, other>>
      BY <2>4 DEF ListOvertaken
    <3>2. PICK t : walk' = [r.it EXCEPT !.keys = t]
      BY <2>4, Zenon DEF ListOvertaken
    <3> QED
      BY <2>1, <2>2, <3>1, <3>2, ListToCome
  <2> QED
    BY <2>2, <2>3, <2>4
<1> QED
  BY <1>1, <1>2

LEMMA OtherObjects ==
  ASSUME IndInv, LoadInv, OtherCompletes \/ ReadOvertaken
  PROVE  /\ h'.table_size = h.table_size /\ h'.rehash_auto = h.rehash_auto /\ Counted(h')
         /\ h'.no_objects \in Int /\ Pending(other)' <= Pending(other)
         /\ h'.no_objects + Pending(other)' <= h.no_objects + Pending(other)
         /\ pc # "setup" /\ (pc \in Rehashing => disturbed') /\ UNCHANGED <<pc, call, new, failed>>
<1>1. /\ UNCHANGED <<h, other>> \/ \E k \in Key : OtherChanges(k)
      /\ pc # "setup" /\ (pc \in Rehashing => disturbed') /\ UNCHANGED <<pc, call, new, failed>>
  BY OvertakenCases DEF OtherCompletes, Rehashing
<1>2. CASE UNCHANGED <<h, other>>
  <2>1. Pending(other)' = Pending(other) /\ Pending(other) \in {0, 1} /\ h.no_objects \in Int
    BY <1>2, LoadTypes, ComingType DEF Pending
  <2> QED
    BY <1>1, <1>2, <2>1 DEF LoadInv, Counted
<1>3. ASSUME NEW k \in Key, OtherChanges(k)
      PROVE  /\ h'.table_size = h.table_size /\ h'.rehash_auto = h.rehash_auto /\ Counted(h')
             /\ h'.no_objects \in Int /\ Pending(other)' <= Pending(other)
             /\ h'.no_objects + Pending(other)' <= h.no_objects + Pending(other)
  <2>1. /\ IsHandle(h') /\ Same(h, h') /\ IsHandle(h)
        /\ Grows(h, h') \/ Shrinks(h, h') \/ Keeps(h, h')
    BY <1>3, ChangesCounted, LoadTypes
  <2>2. Counted(h')
    BY <2>1, CountedChanged DEF LoadInv
  <2> QED
    BY <1>3, <2>1, <2>2, ChangesObjects DEF Same
<1> QED
  BY <1>1, <1>2, <1>3

LEMMA LoadChanges ==
  ASSUME IndInv, LoadInv, OtherCompletes \/ ReadOvertaken
  PROVE  LoadInv'
<1>0. /\ h'.table_size = h.table_size /\ h'.rehash_auto = h.rehash_auto /\ Counted(h')
      /\ h.table_size \in Nat /\ MaxObjects \in Nat
      /\ Pending(other)' <= Pending(other)
      /\ h'.no_objects \in Int /\ h.no_objects \in Int /\ new.no_objects \in Int
      /\ h'.no_objects + Pending(other)' <= h.no_objects + Pending(other)
      /\ pc # "setup" /\ (pc \in Rehashing => disturbed') /\ UNCHANGED <<pc, call, new, failed>>
  BY OtherObjects, LoadTypes
<1>1. /\ Waiting \in Nat /\ Pending(other) \in Nat /\ Pending(other)' \in Nat
      /\ Coming = Waiting + Pending(other) /\ Coming' = Waiting + Pending(other)'
  <2>1. Waiting' = Waiting
    BY <1>0 DEF Waiting
  <2> QED
    BY <2>1, ComingType DEF Coming, Pending
<1>2. (Counted(h) /\ WalkInv /\ ReadInv /\ (pc = "setup" => other = NULL))'
  <2>1. WalkInv'
    BY <1>0, OtherToCome DEF WalkInv
  <2>2. ReadInv'
    BY <1>0 DEF ReadInv, Rehashing
  <2> QED
    BY <1>0, <2>1, <2>2 DEF Counted
<1>3. ASSUME Guarded' PROVE (TableBounds /\ TargetInv /\ MovedInv)'
  <2>1. TableBounds /\ TargetInv /\ MovedInv
    BY <1>0, <1>3 DEF Guarded, LoadInv
  <2>2. TableBounds'
    BY <1>0, <1>1, <2>1 DEF TableBounds
  <2>3. TargetInv'
    BY <1>0, <2>1 DEF TargetInv
  <2>4. CASE pc = "moving"
    <3>1. /\ ToCome(h, walk) \in Nat /\ ToCome(h, walk)' \in Nat
          /\ ToCome(h, walk)' + Pending(other)' <= ToCome(h, walk) + Pending(other)
          /\ walk' = walk \/ walk'.nmemb > 0
      BY <2>4, OtherToCome
    <3>2. /\ new.table_size = 0 => walk.nmemb > 0
          /\ Fits(new.no_objects + ToCome(h, walk))
      BY <2>1, <2>4 DEF MovedInv
    <3>3. Fits(new.no_objects + ToCome(h, walk))'
      BY <1>0, <1>1, <3>1, <3>2 DEF Fits
    <3> QED
      BY <1>0, <2>2, <2>3, <2>4, <3>1, <3>2, <3>3 DEF MovedInv, Rehashing
  <2>5. CASE pc \in {"freeing", "copying"}
    <3>1. new.table_size > 0 /\ Fits(new.no_objects)
      BY <2>1, <2>5 DEF MovedInv
    <3>2. Fits(new.no_objects)'
      BY <1>0, <1>1, <3>1 DEF Fits
    <3> QED
      BY <1>0, <2>2, <2>3, <2>5, <3>1, <3>2 DEF MovedInv, Rehashing
  <2>6. CASE pc \notin Rehashing
    BY <1>0, <2>2, <2>3, <2>6 DEF MovedInv, Rehashing
  <2> QED
    BY <2>4, <2>5, <2>6 DEF Rehashing
<1> QED
  BY <1>2, <1>3 DEF LoadInv

\* The other thread is past do_rehash.
LEMMA LoadTests == ASSUME IndInv, LoadInv, OtherTests PROVE LoadInv'
<1>0. /\ UNCHANGED <<h, pc, call, new, walk, disturbed, failed>> /\ other = NULL /\ other' \in Key
      /\ ~Overloaded(h) /\ ~disturbed /\ h.no_objects + Pending(call.key) < MaxObjects
      /\ pc \in {"idle", "inserting", "moving", "freeing"}
  BY DEF OtherTests, rehash
<1>1. /\ h.no_objects \in Int /\ h.table_size \in Nat /\ MaxObjects \in Nat /\ new.no_objects \in Int
  BY LoadTypes
<1>2. /\ Waiting \in {0, 1} /\ Waiting <= Pending(call.key) /\ Pending(call.key) \in {0, 1}
      /\ Pending(other) = 0 /\ Pending(other)' = 1
      /\ Coming = Waiting /\ Coming' = Waiting + 1
  <2>1. Waiting' = Waiting
    BY <1>0 DEF Waiting
  <2>2. Pending(other) = 0 /\ Pending(other)' = 1
    BY <1>0, HandleAssumption DEF Pending
  <2> QED
    BY <2>1, <2>2, ComingType DEF Coming
<1>3. (Counted(h) /\ WalkInv /\ ReadInv /\ (pc = "setup" => other = NULL))'
  BY <1>0 DEF LoadInv, Counted, WalkInv, ReadInv, FromBucket
<1>4. ASSUME Guarded' PROVE (TableBounds /\ TargetInv /\ MovedInv)'
  <2>1. Guarded /\ TableBounds /\ TargetInv /\ MovedInv
    BY <1>0, <1>4 DEF Guarded, LoadInv
  <2>2. h.no_objects < h.table_size
    <3>1. h.no_objects \in Nat
      BY <1>1, AheadFinite DEF LoadInv, Counted
    <3> QED
      BY <1>0, <1>1, <2>1, <3>1, Quotient DEF Overloaded, Guarded, TableBounds
  <2>3. h.no_objects + Coming' <= MaxObjects /\ h.no_objects + Coming' <= 2 * h.table_size + 1
    BY <1>0, <1>1, <1>2, <2>2
  <2>4. TableBounds'
    BY <1>0, <1>1, <1>2, <2>1, <2>2, <2>3 DEF TableBounds
  <2>5. TargetInv'
    BY <1>0, <2>1 DEF TargetInv
  <2>6. CASE pc = "moving"
    <3>1. ToCome(h, walk)' = ToCome(h, walk) /\ ToCome(h, walk) \in Nat
      <4>1. IsIterator(walk)
        BY <2>6 DEF LoadInv, WalkInv
      <4>2. walk.nmemb \in Nat /\ walk.bucket + 1 \in Nat
        BY <4>1 DEF IsIterator
      <4>3. Cardinality(Ahead(h, walk.bucket + 1)) \in Nat
        BY <4>2, AheadFinite DEF LoadInv, Counted
      <4> QED
        BY <1>0, <4>2, <4>3 DEF ToCome
    <3>2. /\ new.table_size = 0 => walk.nmemb > 0
          /\ new.no_objects + ToCome(h, walk) <= h.no_objects
      BY <1>0, <2>1, <2>6 DEF MovedInv
    <3>3. Fits(new.no_objects + ToCome(h, walk))'
      BY <1>0, <1>1, <1>2, <2>3, <3>1, <3>2 DEF Fits
    <3> QED
      BY <1>0, <2>4, <2>5, <2>6, <3>1, <3>2, <3>3 DEF MovedInv
  <2>7. CASE pc = "freeing"
    <3>1. new.table_size > 0 /\ new.no_objects <= h.no_objects
      BY <1>0, <2>1, <2>7 DEF MovedInv
    <3>2. Fits(new.no_objects)'
      BY <1>0, <1>1, <1>2, <2>3, <3>1 DEF Fits
    <3> QED
      BY <1>0, <2>4, <2>5, <2>7, <3>1, <3>2 DEF MovedInv
  <2>8. CASE pc \in {"idle", "inserting"}
    BY <1>0, <2>4, <2>5, <2>8 DEF MovedInv
  <2> QED
    BY <1>0, <2>6, <2>7, <2>8
<1> QED
  BY <1>3, <1>4 DEF LoadInv

LEMMA LoadOther == ASSUME IndInv, LoadInv, Other PROVE LoadInv'
<1>1. CASE OtherFaults
  <2>1. pc' = "crashed" /\ UNCHANGED <<h, call, new, walk, failed, other>>
    BY <1>1 DEF OtherFaults
  <2>2. (Counted(h) /\ WalkInv /\ ReadInv /\ (pc = "setup" => other = NULL))'
    BY <2>1 DEF LoadInv, Counted, WalkInv, ReadInv
  <2>3. TargetInv' /\ MovedInv'
    BY <2>1 DEF TargetInv, MovedInv, Rehashing
  <2>4. ASSUME Guarded' PROVE TableBounds'
    <3>1. TableBounds /\ h.no_objects \in Int
      BY <2>1, <2>4, LoadTypes DEF LoadInv, Guarded
    <3>2. Waiting' = 0 /\ Pending(other)' = Pending(other)
      BY <2>1 DEF Waiting, Rehashing
    <3>3. /\ Waiting \in {0, 1} /\ Pending(other) \in {0, 1}
          /\ h.table_size \in Nat /\ MaxObjects \in Nat
      BY LoadTypes, ComingType
    <3>4. Coming \in Nat /\ Coming' \in Nat /\ Coming' <= Coming
      BY <3>2, <3>3 DEF Coming
    <3> QED
      BY <2>1, <3>1, <3>2, <3>3, <3>4 DEF TableBounds
  <2> QED
    BY <2>2, <2>3, <2>4 DEF LoadInv
<1> QED
  BY <1>1, LoadTests, LoadChanges DEF Other

LEMMA LoadCreate == ASSUME IndInv, LoadInv, pc = "setup", NEW s, IsSet(s), Creates(s) PROVE LoadInv'
<1>1. CASE /\ lhi_set_sanity_check(s) = "SUCCESS" /\ h' = NewHandle(s) /\ pc' = "idle"
           /\ UNCHANGED other
  <2>1. s.table_size # 0 /\ s.table_size \in Nat
    BY <1>1 DEF IsSet, lhi_set_sanity_check
  <2>2. Sound(NewHandle(s)) /\ ~FiniCrashes(NewHandle(s))
    BY NewHandleSound DEF IsSet
  <2>3. NewHandle(s).no_objects = 0 /\ NewHandle(s).table_size > 0
    BY <2>1 DEF NewHandle
  <2>4. other' = NULL
    BY <1>1 DEF LoadInv
  <2> QED
    BY <1>1, <2>2, <2>3, <2>4, LoadEmpty
<1>2. CASE UNCHANGED <<h, call, new, walk, disturbed, failed, pc, other>>
  BY <1>2, LoadQuiet
<1> QED
  BY <1>1, <1>2 DEF Creates, rehash

LEMMA LoadInit == Init => LoadInv
<1> SUFFICES ASSUME Init PROVE LoadInv
  OBVIOUS
<1>1. Counted(h)
  BY NoHandleSound, SoundCounted DEF Init
<1>2. ~Guarded
  BY DEF Init, NoHandle, Guarded
<1> QED
  BY <1>1, <1>2 DEF Init, LoadInv, WalkInv, ReadInv

LEMMA StepLoad == IndInv /\ LoadInv /\ [Next]_vars => LoadInv'
<1> SUFFICES ASSUME IndInv, LoadInv, [Next]_vars PROVE LoadInv'
  OBVIOUS
<1>0. IsSet(set) /\ NULL \notin Key /\ RehashSizes \subseteq Nat /\ h.table_size \in Nat
      /\ h.no_objects \in Int /\ MaxObjects \in Nat
  BY LoadTypes, HandleAssumption DEF IndInv, TypeInv
<1>1. CASE Setter
  <2>1. UNCHANGED <<h, call, new, walk, disturbed, failed, pc, other>>
    BY <1>1 DEF Setter, rehash
  <2> QED
    BY <2>1, LoadQuiet
<1>2. CASE hi_create
  BY <1>0, <1>2, LoadCreate DEF hi_create
<1>3. CASE hi_init
  <2>1. PICK n \in TableSizes \cup {0}, f \in HashFunc, c \in KeyCmpFunc :
          Creates(DefaultSet(n, f, c))
    BY <1>3 DEF hi_init
  <2>2. IsSet(DefaultSet(n, f, c))
    BY DefaultIsSet
  <2> QED
    BY <1>3, <2>1, <2>2, LoadCreate DEF hi_init
<1>4. CASE hi_fini
  <2>1. CASE Stop("stuck") \/ Stop("crashed")
    BY <2>1, LoadStop
  <2>2. CASE h' = NoHandle /\ pc' = "setup" /\ other' = NULL
    <3>1. NoHandle.no_objects = 0 /\ NoHandle.rehash_auto = FALSE
      BY DEF NoHandle
    <3> QED
      BY <2>2, <3>1, NoHandleSound, LoadEmpty
  <2> QED
    BY <1>4, <2>1, <2>2 DEF hi_fini
<1>5. CASE hi_rehash
  <2>1. PICK n \in RehashSizes : RehashBegins(NULL, n)
    BY <1>5 DEF hi_rehash
  <2> QED
    BY <1>0, <1>5, <2>1, LoadBegin DEF hi_rehash
<1>6. CASE hi_insert
  <2>1. PICK k \in Key :
          \/ Stop("stuck")
          \/ UNCHANGED <<h, pc, call, rehash, other>>
          \/ Overloaded(h) /\ RehashBegins(k, 2 * h.table_size)
          \/ /\ ~Overloaded(h) /\ pc' = "inserting"
             /\ UNCHANGED <<h, rehash, other>>
    BY <1>6 DEF hi_insert
  <2>2. pc = "idle" /\ h.no_objects + Pending(other) < MaxObjects
    BY <1>6 DEF hi_insert
  <2>3. CASE Stop("stuck")
    BY <2>3, LoadStop
  <2>4. CASE UNCHANGED <<h, pc, call, rehash, other>>
    <3>1. UNCHANGED <<h, call, new, walk, disturbed, failed, pc, other>>
      BY <2>4 DEF rehash
    <3> QED
      BY <3>1, LoadQuiet
  <2>5. CASE Overloaded(h) /\ RehashBegins(k, 2 * h.table_size)
    <3>1. 2 * h.table_size \in Nat
      BY <1>0
    <3> QED
      BY <2>2, <2>5, <3>1, LoadBegin
  <2>6. CASE /\ ~Overloaded(h) /\ pc' = "inserting"
             /\ UNCHANGED <<h, rehash, other>>
    <3>1. UNCHANGED <<h, failed, other>>
      BY <2>6 DEF rehash
    <3>2. Counted(h)' /\ WalkInv' /\ ReadInv' /\ TargetInv' /\ MovedInv'
      BY <2>6, <3>1 DEF LoadInv, Counted, WalkInv, ReadInv, TargetInv, MovedInv, Rehashing
    <3>3. ASSUME Guarded' PROVE TableBounds'
      <4>1. Guarded /\ TableBounds
        BY <3>1, <3>3 DEF Guarded, LoadInv
      <4>2. h.no_objects \in Nat
        BY <1>0, AheadFinite DEF LoadInv, Counted
      <4>3. h.no_objects < h.table_size
        BY <1>0, <2>6, <4>1, <4>2, Quotient DEF Overloaded, Guarded, TableBounds
      <4>4. /\ Waiting' \in {0, 1} /\ Pending(other)' = Pending(other) /\ Pending(other) \in {0, 1}
        BY <3>1, ComingType DEF Waiting
      <4>5. h.no_objects + Pending(other) <= h.table_size
        BY <1>0, <4>3, <4>4
      <4>6. h.no_objects + Coming' <= MaxObjects
        BY <1>0, <2>2, <4>4 DEF Coming
      <4> QED
        BY <1>0, <3>1, <4>1, <4>4, <4>5, <4>6 DEF TableBounds
    <3> QED
      BY <2>6, <3>2, <3>3 DEF LoadInv
  <2> QED
    BY <2>1, <2>3, <2>4, <2>5, <2>6
<1>7. CASE hi_remove
  BY <1>7, LoadRemove
<1>8. CASE RehashMove
  BY <1>8, LoadMove
<1>9. CASE RehashFree
  <2>1. CASE Stop("stuck") \/ Stop("crashed")
    BY <2>1, LoadStop
  <2>2. CASE pc = "freeing" /\ pc' = "copying" /\ UNCHANGED <<h, call, rehash, other>>
    <3>1. UNCHANGED <<h, call, new, walk, disturbed, failed, other>>
      BY <2>2 DEF rehash
    <3> QED
      BY <2>2, <3>1, LoadQuiet
  <2> QED
    BY <1>9, <2>1, <2>2 DEF RehashFree
<1>10. CASE RehashCopy
  BY <1>10, LoadCopy
<1>11. CASE InsertEntry
  BY <1>11, LoadInsert
<1>12. CASE Other
  BY <1>12, LoadOther
<1>13. CASE \/ hi_iterator_create \/ hi_iterator_getnext
            \/ hi_iterator_reset \/ hi_iterator_fini
  <2>1. Stop("stuck") \/ Stop("crashed") \/ UNCHANGED <<env, set, h, pc, call, rehash, other>>
    BY <1>13, IteratorCases
  <2>2. CASE UNCHANGED <<env, set, h, pc, call, rehash, other>>
    <3>1. UNCHANGED <<h, call, new, walk, disturbed, failed, pc, other>>
      BY <2>2 DEF rehash
    <3> QED
      BY <3>1, LoadQuiet
  <2> QED
    BY <2>1, <2>2, LoadStop
<1>14. CASE UNCHANGED vars
  <2>1. UNCHANGED <<h, call, new, walk, disturbed, failed, pc, other>>
    BY <1>14 DEF vars, rehash
  <2> QED
    BY <2>1, LoadQuiet
<1> QED
  BY <1>1, <1>2, <1>3, <1>4, <1>5, <1>6, <1>7, <1>8, <1>9, <1>10, <1>11, <1>12, <1>13, <1>14
  DEF Next, Library

LEMMA LoadInvariance == Spec => [](IndInv /\ LoadInv)
<1>1. Init => IndInv /\ LoadInv
  BY InitIndInv, LoadInit
<1>2. IndInv /\ LoadInv /\ [Next]_vars => (IndInv /\ LoadInv)'
  BY StepIndInv, StepLoad
<1> QED
  BY <1>1, <1>2, PTL DEF Spec

(***************************************************************************)
(* How often a key is in a table: it is in one bucket only.                *)
(***************************************************************************)
Where(s, k) == {i \in DOMAIN s : s[i] = k}

LEMMA WhereFinite ==
  ASSUME NEW T, NEW s \in Seq(T), NEW k
  PROVE  /\ IsFiniteSet(Where(s, k)) /\ Cardinality(Where(s, k)) \in Nat
         /\ (Cardinality(Where(s, k)) = 0) <=> (k \notin Range(s))
<1>1. DOMAIN s = 1 .. Len(s) /\ Len(s) \in Nat
  OBVIOUS
<1>2. Where(s, k) \in SUBSET (1 .. Len(s))
  BY <1>1 DEF Where
<1>3. IsFiniteSet(1 .. Len(s))
  BY <1>1, FS_Interval, 1 \in Int
<1>4. IsFiniteSet(Where(s, k))
  BY <1>2, <1>3, FS_Subset
<1>5. (Where(s, k) = {}) <=> (k \notin Range(s))
  BY DEF Where, Range
<1> QED
  BY <1>4, <1>5, FS_CardinalityType, FS_EmptySet

\* A table of a key nowhere.
LEMMA CountNone ==
  ASSUME NEW H, NEW k, \A b \in DOMAIN H.bucket : k \notin Range(H.bucket[b])
  PROVE  CountOf(H, k) = 0
<1>1. \A b \in DOMAIN H.bucket : {i \in DOMAIN H.bucket[b] : H.bucket[b][i] = k} = {}
  BY DEF Range
<1>2. \A b \in DOMAIN H.bucket :
         {<<b, i>> : i \in {i \in DOMAIN H.bucket[b] : H.bucket[b][i] = k}} = {}
  BY <1>1
<1>3. UNION {{<<b, i>> : i \in {i \in DOMAIN H.bucket[b] : H.bucket[b][i] = k}}
                : b \in DOMAIN H.bucket} = {}
  BY <1>2
<1> QED
  BY <1>3, FS_EmptySet DEF CountOf

LEMMA CountHome ==
  ASSUME NEW H, Sound(H), H.table_size # 0, NEW k \in Key
  PROVE  /\ CountOf(H, k) = Cardinality(Where(H.bucket[BucketOf(H, k)], k))
         /\ CountOf(H, k) \in Nat
         /\ (CountOf(H, k) = 0) <=> (k \notin Range(H.bucket[BucketOf(H, k)]))
         /\ BucketOf(H, k) \in 0 .. H.table_size - 1
<1> DEFINE b == BucketOf(H, k)
           s == H.bucket[b]
           U == UNION {{<<c, i>> : i \in {i \in DOMAIN H.bucket[c] : H.bucket[c][i] = k}}
                          : c \in DOMAIN H.bucket}
<1>1. b \in 0 .. H.table_size - 1 /\ s \in Seq(Slot(H.coll_eng)) /\ b \in DOMAIN H.bucket
  BY BucketOfType, HandleFields DEF Sound
<1>2. \A c \in DOMAIN H.bucket : k \in Range(H.bucket[c]) => c = b
  BY DEF Sound, Placed
<1>3. ASSUME NEW x PROVE x \in U <=> x \in {b} \X Where(s, k)
  <2>1. x \in U <=> \E c \in DOMAIN H.bucket : \E i \in DOMAIN H.bucket[c] :
                       H.bucket[c][i] = k /\ x = <<c, i>>
    OBVIOUS
  <2>2. \A c \in DOMAIN H.bucket : \A i \in DOMAIN H.bucket[c] : H.bucket[c][i] = k => c = b
    BY <1>2 DEF Range
  <2>3. x \in {b} \X Where(s, k) <=> \E i \in DOMAIN s : s[i] = k /\ x = <<b, i>>
    BY DEF Where
  <2> QED
    BY <1>1, <2>1, <2>2, <2>3
<1>4. U = {b} \X Where(s, k) /\ CountOf(H, k) = Cardinality(U)
  <2>1. U = {b} \X Where(s, k)
    BY <1>3
  <2> QED
    BY <2>1 DEF CountOf
<1> HIDE DEF s, U, b
<1>5. /\ IsFiniteSet(Where(s, k)) /\ Cardinality(Where(s, k)) \in Nat
      /\ (Cardinality(Where(s, k)) = 0) <=> (k \notin Range(s))
  BY <1>1, WhereFinite
<1>6. IsFiniteSet({b}) /\ Cardinality({b}) = 1
  BY FS_Singleton
<1>7. Cardinality(U) = 1 * Cardinality(Where(s, k))
  BY <1>4, <1>5, <1>6, FS_Product
<1> QED
  BY <1>1, <1>4, <1>5, <1>7 DEF s, b

\* ... and in none of a table without buckets.
LEMMA CountType ==
  ASSUME NEW H, Sound(H), NEW k \in Key
  PROVE  /\ CountOf(H, k) \in Nat
         /\ (H.table_size = 0) => (CountOf(H, k) = 0)
<1>1. CASE H.table_size = 0
  <2>1. H.bucket \in [0 .. H.table_size - 1 -> Seq(Slot(H.coll_eng))]
    BY HandleFields DEF Sound
  <2>2. DOMAIN H.bucket = {}
    BY <1>1, <2>1
  <2> QED
    BY <2>2, CountNone
<1>2. CASE H.table_size # 0
  BY <1>2, CountHome
<1> QED
  BY <1>1, <1>2

(***************************************************************************)
(* What the engines' operations make of it.                                *)
(***************************************************************************)
\* One of k more, and of no other key.
Added(H, G, k) == \A x \in Key : CountOf(G, x) = CountOf(H, x) + IF x = k THEN 1 ELSE 0

NoMore(H, G) == \A x \in Key : CountOf(G, x) <= CountOf(H, x)

LEMMA CountReplaced ==
  ASSUME NEW H, Sound(H), NEW G, Sound(G), Same(H, G), H.table_size # 0,
         NEW b, NEW t, Replaced(H, G, b, t), NEW x \in Key
  PROVE  /\ BucketOf(H, x) = b =>
              /\ CountOf(G, x) = Cardinality(Where(t, x))
              /\ CountOf(H, x) = Cardinality(Where(H.bucket[b], x))
         /\ BucketOf(H, x) # b => CountOf(G, x) = CountOf(H, x)
<1>1. /\ b \in 0 .. H.table_size - 1 /\ G.table_size = H.table_size
      /\ G.bucket[b] = t
      /\ \A c \in 0 .. H.table_size - 1 : c # b => G.bucket[c] = H.bucket[c]
  BY HandleFields DEF Same, Replaced, With, Sound
<1>2. BucketOf(G, x) = BucketOf(H, x)
  BY <1>1 DEF BucketOf
<1>3. CountOf(H, x) = Cardinality(Where(H.bucket[BucketOf(H, x)], x))
      /\ BucketOf(H, x) \in 0 .. H.table_size - 1
  BY CountHome
<1>4. CountOf(G, x) = Cardinality(Where(G.bucket[BucketOf(G, x)], x))
  BY <1>1, CountHome
<1> QED
  BY <1>1, <1>2, <1>3, <1>4

LEMMA WhereWritten ==
  ASSUME NEW T, NEW s \in Seq(T), NEW i \in 1 .. Len(s), NEW v, NEW x, s[i] # x
  PROVE  /\ Where(With(s, i, v), x) = IF x = v THEN Where(s, x) \cup {i} ELSE Where(s, x)
         /\ i \notin Where(s, x)
<1> DEFINE r == With(s, i, v)
<1>1. DOMAIN r = DOMAIN s /\ i \in DOMAIN s /\ r[i] = v /\ \A j \in DOMAIN s : j # i => r[j] = s[j]
  BY DEF With
<1> HIDE DEF r
<1>2. \A j : j \in Where(r, x) <=> j \in DOMAIN s /\ r[j] = x
  BY <1>1 DEF Where
<1>3. \A j : j \in Where(s, x) <=> j \in DOMAIN s /\ s[j] = x
  BY DEF Where
<1>4. CASE x = v
  <2>1. Where(r, x) = Where(s, x) \cup {i}
    BY <1>1, <1>2, <1>3, <1>4
  <2> QED
    BY <1>3, <1>4, <2>1 DEF r
<1>5. CASE x # v
  <2>1. Where(r, x) = Where(s, x)
    BY <1>1, <1>2, <1>3, <1>5
  <2> QED
    BY <1>3, <1>5, <2>1 DEF r
<1> QED
  BY <1>4, <1>5

\* A slot freed.
LEMMA WhereFreed ==
  ASSUME NEW T, NEW s \in Seq(T), NEW i \in 1 .. Len(s), NEW v, NEW x, x # v
  PROVE  Where(With(s, i, v), x) \subseteq Where(s, x)
<1> DEFINE r == With(s, i, v)
<1>1. DOMAIN r = DOMAIN s /\ i \in DOMAIN s /\ r[i] = v /\ \A j \in DOMAIN s : j # i => r[j] = s[j]
  BY DEF With
<1> HIDE DEF r
<1>2. Where(r, x) \subseteq Where(s, x)
  BY <1>1 DEF Where
<1> QED
  BY <1>2 DEF r

LEMMA WhereGrown ==
  ASSUME NEW T, NEW s \in Seq(T), NEW x, x # FREE
  PROVE  Where(Grown(s), x) = Where(s, x) /\ ((Grown(s) = <<>>) <=> (s = <<>>))
<1>1. CASE FREE \in Range(s)
  BY <1>1 DEF Grown
<1>2. CASE FREE \notin Range(s)
  <2> DEFINE g == s \o [i \in 1 .. Len(s) |-> FREE]
  <2>1. Grown(s) = g
    BY <1>2 DEF Grown
  <2>2. Len(s) \in Nat /\ [i \in 1 .. Len(s) |-> FREE] \in Seq({FREE})
        /\ Len([i \in 1 .. Len(s) |-> FREE]) = Len(s)
    OBVIOUS
  <2>3. /\ g \in Seq(T \cup {FREE}) /\ Len(g) = Len(s) + Len(s)
        /\ \A j \in 1 .. Len(s) : g[j] = s[j]
        /\ \A j \in Len(s) + 1 .. Len(s) + Len(s) : g[j] = FREE
    <3>1. s \in Seq(T \cup {FREE}) /\ [i \in 1 .. Len(s) |-> FREE] \in Seq(T \cup {FREE})
      OBVIOUS
    <3> QED
      BY <2>2, <3>1, ConcatProperties
  <2> HIDE DEF g
  <2>4. DOMAIN g = 1 .. Len(s) + Len(s) /\ DOMAIN s = 1 .. Len(s)
    BY <2>3
  <2>5. \A j \in DOMAIN g : j \in DOMAIN s \/ j \in Len(s) + 1 .. Len(s) + Len(s)
    BY <2>2, <2>4
  <2>6. DOMAIN s \subseteq DOMAIN g
    BY <2>2, <2>4
  <2>7. Where(g, x) = Where(s, x)
    BY <2>3, <2>4, <2>5, <2>6 DEF Where
  <2>8. (g = <<>>) <=> (s = <<>>)
    <3>1. (g = <<>>) <=> (Len(g) = 0)
      BY <2>3, EmptySeq
    <3>2. (s = <<>>) <=> (Len(s) = 0)
      BY EmptySeq
    <3> QED
      BY <2>2, <2>3, <3>1, <3>2
  <2> QED
    BY <2>1, <2>7, <2>8
<1> QED
  BY <1>1, <1>2

LEMMA WherePrepended ==
  ASSUME NEW s \in Seq(Key), NEW k \in Key, NEW x
  PROVE  Cardinality(Where(<<k>> \o s, x)) = Cardinality(Where(s, x)) + IF x = k THEN 1 ELSE 0
<1> DEFINE r == <<k>> \o s
           W == Where(s, x)
           V == {j \in 2 .. Len(s) + 1 : s[j - 1] = x}
           f == [j \in W |-> j + 1]
<1>1. /\ r \in Seq(Key) /\ Len(r) = Len(s) + 1 /\ r[1] = k /\ Len(s) \in Nat
      /\ \A j \in 2 .. Len(s) + 1 : r[j] = s[j - 1]
  BY PrependProperties
<1>2. DOMAIN r = 1 .. Len(s) + 1 /\ DOMAIN s = 1 .. Len(s)
  BY <1>1
<1> HIDE DEF r
<1>3. f \in Bijection(W, V)
  <2>1. \A j \in W : j \in 1 .. Len(s) /\ s[j] = x /\ j + 1 \in V
    BY <1>1, <1>2 DEF Where
  <2>2. \A a, b \in W : a + 1 = b + 1 => a = b
    BY <2>1
  <2>3. \A v \in V : v - 1 \in W /\ v = (v - 1) + 1
    BY <1>1, <1>2 DEF Where
  <2> QED
    BY <2>1, <2>2, <2>3 DEF Bijection, Injection, Surjection, IsInjective
<1>4. IsFiniteSet(W) /\ Cardinality(W) \in Nat
  BY WhereFinite
<1>5. IsFiniteSet(V) /\ Cardinality(V) = Cardinality(W)
  <2> HIDE DEF f, W, V
  <2> QED
    BY <1>3, <1>4, FS_Bijection DEF ExistsBijection
<1>6. Where(r, x) = IF x = k THEN V \cup {1} ELSE V
  <2>1. \A j : j \in Where(r, x) <=> j \in 1 .. Len(s) + 1 /\ r[j] = x
    BY <1>2 DEF Where
  <2>2. \A j \in 1 .. Len(s) + 1 : j = 1 \/ j \in 2 .. Len(s) + 1
    BY <1>1
  <2>3. \A j \in 2 .. Len(s) + 1 : j \in 1 .. Len(s) + 1 /\ j # 1
    BY <1>1
  <2>4. \A j : j \in V <=> j \in 2 .. Len(s) + 1 /\ r[j] = x
    BY <1>1
  <2>5. 1 \in 1 .. Len(s) + 1
    BY <1>1
  <2> HIDE DEF V
  <2>6. CASE x = k
    <3>1. Where(r, x) = V \cup {1}
      BY <1>1, <2>1, <2>2, <2>3, <2>4, <2>5, <2>6
    <3> QED
      BY <2>6, <3>1
  <2>7. CASE x # k
    <3>1. Where(r, x) = V
      BY <1>1, <2>1, <2>2, <2>3, <2>4, <2>7
    <3> QED
      BY <2>7, <3>1
  <2> QED
    BY <2>6, <2>7
<1>7. 1 \notin V
  OBVIOUS
<1>8. Cardinality(V \cup {1}) = Cardinality(V) + 1
  <2> HIDE DEF V
  <2> QED
    BY <1>5, <1>7, FS_AddElement
<1> HIDE DEF V, W
<1>9. CASE x = k
  BY <1>5, <1>6, <1>8, <1>9 DEF r, W
<1>10. CASE x # k
  BY <1>4, <1>5, <1>6, <1>10 DEF r, W
<1> QED
  BY <1>9, <1>10

LEMMA WhereRemoved ==
  ASSUME NEW s \in Seq(Key), NEW i \in 1 .. Len(s), NEW x
  PROVE  Cardinality(Where(RemoveAt(s, i), x)) <= Cardinality(Where(s, x))
<1> DEFINE r == RemoveAt(s, i)
           V == Where(r, x)
           W == Where(s, x)
           f == [j \in V |-> IF j < i THEN j ELSE j + 1]
<1>1. /\ r \in Seq(Key) /\ Len(r) = Len(s) - 1 /\ Len(s) \in Nat
      /\ \A j \in 1 .. Len(s) - 1 : r[j] = IF j < i THEN s[j] ELSE s[j + 1]
  BY RemoveAtProperties
<1>2. DOMAIN r = 1 .. Len(s) - 1 /\ DOMAIN s = 1 .. Len(s)
  BY <1>1
<1> HIDE DEF r
<1>3. f \in Injection(V, W)
  <2>1. ASSUME NEW j \in V PROVE j \in 1 .. Len(s) - 1 /\ f[j] \in W
    <3>1. j \in 1 .. Len(s) - 1 /\ r[j] = x
      BY <1>2 DEF Where
    <3>2. j \in 1 .. Len(s) /\ j + 1 \in 1 .. Len(s)
      BY <1>1, <3>1
    <3> QED
      BY <1>1, <1>2, <3>1, <3>2 DEF Where
  <2>2. ASSUME NEW a \in V, NEW b \in V, f[a] = f[b] PROVE a = b
    <3>1. a \in Int /\ b \in Int /\ i \in Int
      BY <2>1
    <3>2. (IF a < i THEN a ELSE a + 1) = (IF b < i THEN b ELSE b + 1)
      BY <2>2
    <3> QED
      BY <3>1, <3>2
  <2> QED
    BY <2>1, <2>2 DEF Injection, IsInjective
<1>4. IsFiniteSet(W)
  BY WhereFinite
<1> HIDE DEF f, V, W
<1>5. Cardinality(V) <= Cardinality(W)
  BY <1>3, <1>4, FS_Injection
<1> QED
  BY <1>5 DEF V, W, r

\* What an array with slots has, and a list or a tree has not.
Slots(H) ==
    IsArray(H) =>
        \A b \in 0 .. H.table_size - 1 : (H.bucket[b] = <<>>) <=> (H.coll_eng_array_size = 0)

LEMMA SlotsReplaced ==
  ASSUME NEW H, IsHandle(H), Slots(H), NEW G, Same(H, G), NEW b, NEW t, Replaced(H, G, b, t),
         IsArray(H) => ((t = <<>>) <=> (H.bucket[b] = <<>>))
  PROVE  Slots(G)
<1>1. /\ b \in 0 .. H.table_size - 1 /\ G.table_size = H.table_size
      /\ G.bucket[b] = t /\ (IsArray(G) <=> IsArray(H))
      /\ G.coll_eng_array_size = H.coll_eng_array_size
      /\ \A c \in 0 .. H.table_size - 1 : c # b => G.bucket[c] = H.bucket[c]
  BY HandleFields DEF Same, Replaced, With, IsArray
<1> QED
  BY <1>1 DEF Slots

LEMMA StoresAdded ==
  ASSUME NEW H, Sound(H), NEW k \in Key, ~Broken(H, k), Slots(H),
         IsArray(H) => H.bucket[BucketOf(H, k)] # <<>>
  PROVE  Added(H, Stores(H, k), k) /\ Slots(Stores(H, k))
<1> DEFINE b == BucketOf(H, k)
           s == H.bucket[b]
           r == Grown(s)
           i == FirstFree(r)
           t == IF IsArray(H) THEN [r EXCEPT ![i] = k] ELSE <<k>> \o s
           G == Stores(H, k)
<1>0. LOST \notin Key /\ FREE \notin Key /\ FREE # LOST /\ H.table_size # 0
  BY HandleAssumption DEF Broken
<1>1. IsHandle(H) /\ b \in 0 .. H.table_size - 1 /\ s \in Seq(Slot(H.coll_eng))
  BY <1>0, BucketOfType DEF Sound
<1>2. Sound(G) /\ Same(H, G)
  BY StoresSound
<1>3. Replaced(H, G, b, t)
  <2>1. G = [H EXCEPT !.no_objects = H.no_objects + 1, !.bucket = [@ EXCEPT ![b] = t]]
    BY DEF Stores
  <2>2. PICK e \in Engine \cup {NoEngine}, m \in Nat : H \in Shape(e, m)
    BY <1>1 DEF IsHandle
  <2> HIDE DEF G, t, b
  <2> QED
    BY <1>1, <2>1, <2>2 DEF Shape, Replaced, With
<1>4. /\ \A x \in Key : Cardinality(Where(t, x)) = Cardinality(Where(s, x)) + IF x = k THEN 1 ELSE 0
      /\ IsArray(H) => t # <<>>
  <2>1. CASE IsArray(H)
    <3>1. Slot(H.coll_eng) = Key \cup {FREE, LOST} /\ s # <<>>
      BY <2>1 DEF Slot, IsArray
    <3>2. r \in Seq(Slot(H.coll_eng)) /\ FREE \in Range(r)
      <4> HIDE DEF s
      <4> QED
        BY <1>1, <3>1, GrownFacts
    <3>3. i \in 1 .. Len(r) /\ r[i] = FREE
      <4>1. i = CHOOSE j \in DOMAIN r : r[j] = FREE /\ \A m \in 1 .. j - 1 : r[m] # FREE
        BY DEF FirstFree
      <4> HIDE DEF i, r
      <4> QED
        BY <3>2, <4>1, FirstOf
    <3>4. t = With(r, i, k)
      BY <2>1 DEF With
    <3> HIDE DEF i, r, t, s
    <3>5. t # <<>>
      <4>1. DOMAIN t = DOMAIN r /\ i \in DOMAIN r
        BY <3>2, <3>3, <3>4 DEF With
      <4> QED
        BY <4>1
    <3>6. ASSUME NEW x \in Key
          PROVE  Cardinality(Where(t, x)) = Cardinality(Where(s, x)) + IF x = k THEN 1 ELSE 0
      <4>1. r[i] # x /\ x # FREE
        BY <1>0, <3>3
      <4>2. /\ Where(t, x) = IF x = k THEN Where(r, x) \cup {i} ELSE Where(r, x)
            /\ i \notin Where(r, x)
        BY <3>2, <3>3, <3>4, <4>1, WhereWritten
      <4>3. Where(r, x) = Where(s, x)
        BY <1>1, <4>1, WhereGrown DEF r
      <4>4. IsFiniteSet(Where(s, x)) /\ Cardinality(Where(s, x)) \in Nat
        BY <1>1, WhereFinite
      <4>5. Cardinality(Where(s, x) \cup {i}) = Cardinality(Where(s, x)) + 1
        BY <4>2, <4>3, <4>4, FS_AddElement
      <4> QED
        BY <4>2, <4>3, <4>4, <4>5
    <3> QED
      BY <3>5, <3>6
  <2>2. CASE ~IsArray(H)
    <3>1. Slot(H.coll_eng) = Key /\ t = <<k>> \o s
      BY <2>2 DEF Slot, IsArray
    <3>2. s \in Seq(Key)
      BY <1>1, <3>1
    <3> HIDE DEF s, t
    <3> QED
      BY <2>2, <3>1, <3>2, WherePrepended
  <2> QED
    BY <2>1, <2>2
<1> HIDE DEF t, s, G
<1>5. ASSUME NEW x \in Key PROVE CountOf(G, x) = CountOf(H, x) + IF x = k THEN 1 ELSE 0
  <2>1. CASE BucketOf(H, x) = b
    <3>1. CountOf(G, x) = Cardinality(Where(t, x)) /\ CountOf(H, x) = Cardinality(Where(s, x))
      BY <1>0, <1>2, <1>3, <2>1, CountReplaced DEF s
    <3> QED
      BY <1>4, <3>1
  <2>2. CASE BucketOf(H, x) # b
    <3>1. x # k /\ CountOf(G, x) = CountOf(H, x) /\ CountOf(H, x) \in Nat
      BY <1>0, <1>2, <1>3, <2>2, CountReplaced, CountType
    <3> QED
      BY <3>1
  <2> QED
    BY <2>1, <2>2
<1>6. Slots(G)
  <2>1. IsArray(H) => ((t = <<>>) <=> (H.bucket[b] = <<>>))
    BY <1>4
  <2> QED
    BY <1>1, <1>2, <1>3, <2>1, SlotsReplaced
<1> QED
  BY <1>5, <1>6 DEF Added, G

LEMMA RemovesNoMore ==
  ASSUME NEW H, Sound(H), NEW k \in Key, TRUE \in FindsKey(H, k), Slots(H),
         H.coll_eng = "ARRAY" => ~Broken(H, k)
  PROVE  NoMore(H, Removes(H, k)) /\ Slots(Removes(H, k))
<1> DEFINE b == BucketOf(H, k)
           s == H.bucket[b]
           i == CHOOSE i \in DOMAIN s : s[i] = k /\ \A j \in 1 .. i - 1 : s[j] # k
           t == IF IsArray(H) THEN With(s, i, FREE) ELSE RemoveAt(s, i)
           G == Removes(H, k)
<1>0. FREE \notin Key /\ k \in Range(s) /\ H.table_size # 0
  BY HandleAssumption, FoundThere
<1>1. IsHandle(H) /\ b \in 0 .. H.table_size - 1 /\ s \in Seq(Slot(H.coll_eng))
  BY <1>0, BucketOfType DEF Sound
<1>2. i \in 1 .. Len(s) /\ s[i] = k
  <2> HIDE DEF s
  <2> QED
    BY <1>0, <1>1, FirstOf
<1>3. Sound(G) /\ Same(H, G)
  BY RemovesSound
<1>4. Replaced(H, G, b, t)
  <2>1. G = [H EXCEPT !.no_objects = H.no_objects - 1, !.bucket = With(@, b, t)]
    BY DEF Removes, With
  <2>2. PICK e \in Engine \cup {NoEngine}, m \in Nat : H \in Shape(e, m)
    BY <1>1 DEF IsHandle
  <2> HIDE DEF G, t, b
  <2> QED
    BY <1>1, <2>1, <2>2 DEF Shape, Replaced, With
<1> HIDE DEF i
<1>5. /\ \A x \in Key : Cardinality(Where(t, x)) <= Cardinality(Where(s, x))
      /\ IsArray(H) => ((t = <<>>) <=> (s = <<>>))
  <2>1. CASE IsArray(H)
    <3>1. t = With(s, i, FREE)
      BY <2>1
    <3> HIDE DEF t, s
    <3>2. ASSUME NEW x \in Key PROVE Cardinality(Where(t, x)) <= Cardinality(Where(s, x))
      <4>1. Where(t, x) \in SUBSET Where(s, x)
        <5>1. x # FREE
          BY <1>0
        <5>2. Where(With(s, i, FREE), x) \subseteq Where(s, x)
          BY <1>1, <1>2, <5>1, WhereFreed
        <5> QED
          BY <3>1, <5>2
      <4>2. IsFiniteSet(Where(s, x))
        BY <1>1, WhereFinite
      <4> QED
        BY <4>1, <4>2, FS_Subset
    <3>3. t # <<>> /\ s # <<>>
      <4>1. DOMAIN t = DOMAIN s /\ i \in DOMAIN s
        BY <1>1, <1>2, <3>1 DEF With
      <4> QED
        BY <4>1
    <3> QED
      BY <3>2, <3>3
  <2>2. CASE ~IsArray(H)
    <3>1. Slot(H.coll_eng) = Key /\ t = RemoveAt(s, i)
      BY <2>2 DEF Slot, IsArray
    <3>2. s \in Seq(Key)
      BY <1>1, <3>1
    <3> HIDE DEF s, t
    <3> QED
      BY <1>2, <2>2, <3>1, <3>2, WhereRemoved
  <2> QED
    BY <2>1, <2>2
<1> HIDE DEF t, s, G
<1>6. ASSUME NEW x \in Key PROVE CountOf(G, x) <= CountOf(H, x)
  <2>1. CASE BucketOf(H, x) = b
    <3>1. CountOf(G, x) = Cardinality(Where(t, x)) /\ CountOf(H, x) = Cardinality(Where(s, x))
      BY <1>0, <1>3, <1>4, <2>1, CountReplaced DEF s
    <3> QED
      BY <1>5, <3>1
  <2>2. CASE BucketOf(H, x) # b
    <3>1. CountOf(G, x) = CountOf(H, x) /\ CountOf(H, x) \in Nat
      BY <1>0, <1>3, <1>4, <2>2, CountReplaced, CountType
    <3> QED
      BY <3>1
  <2> QED
    BY <2>1, <2>2
<1>7. Slots(G)
  <2>1. IsArray(H) => ((t = <<>>) <=> (H.bucket[b] = <<>>))
    BY <1>5 DEF s
  <2> QED
    BY <1>1, <1>3, <1>4, <2>1, SlotsReplaced
<1> QED
  BY <1>6, <1>7 DEF NoMore, G

LEMMA FailureNoMore ==
  ASSUME NEW H, Sound(H), NEW k \in Key, ~Broken(H, k), env.threadsafe \in BOOLEAN, Slots(H),
         IsArray(H) => H.bucket[BucketOf(H, k)] # <<>>, NEW o \in InsertFailures(H, k)
  PROVE  NoMore(H, o.h) /\ Slots(o.h)
<1> DEFINE b == BucketOf(H, k)
           s == H.bucket[b]
           G == [H EXCEPT !.bucket[b] = Grown(s), !.locked = env.threadsafe]
           L == [H EXCEPT !.bucket[b] = <<LOST>>]
<1>0. LOST \notin Key /\ FREE \notin Key /\ H.table_size # 0
  BY HandleAssumption DEF Broken
<1>1. IsHandle(H) /\ b \in 0 .. H.table_size - 1 /\ s \in Seq(Slot(H.coll_eng))
  BY <1>0, BucketOfType DEF Sound
<1>2. Sound(o.h) /\ Same(H, o.h)
  BY FailureSound
<1>3. \/ o.h = H
      \/ IsArray(H) /\ o.h = G
      \/ IsArray(H) /\ o.h = L
  BY DEF InsertFailures, Outcome
<1>4. CASE o.h = H
  <2>1. \A x \in Key : CountOf(H, x) \in Nat
    BY CountType
  <2> QED
    BY <1>4, <2>1 DEF NoMore
<1>5. ASSUME IsArray(H), NEW t, Replaced(H, o.h, b, t), t # <<>>,
             \A x \in Key : Where(t, x) \subseteq Where(s, x)
      PROVE  NoMore(H, o.h) /\ Slots(o.h)
  <2>1. ASSUME NEW x \in Key PROVE CountOf(o.h, x) <= CountOf(H, x)
    <3>1. CASE BucketOf(H, x) = b
      <4>1. CountOf(o.h, x) = Cardinality(Where(t, x)) /\ CountOf(H, x) = Cardinality(Where(s, x))
        BY <1>0, <1>2, <1>5, <3>1, CountReplaced
      <4>2. IsFiniteSet(Where(s, x)) /\ Where(t, x) \in SUBSET Where(s, x)
        BY <1>1, <1>5, WhereFinite
      <4> QED
        BY <4>1, <4>2, FS_Subset
    <3>2. CASE BucketOf(H, x) # b
      <4>1. CountOf(o.h, x) = CountOf(H, x) /\ CountOf(H, x) \in Nat
        BY <1>0, <1>2, <1>5, <3>2, CountReplaced, CountType
      <4> QED
        BY <4>1
    <3> QED
      BY <3>1, <3>2
  <2>2. IsArray(H) => ((t = <<>>) <=> (H.bucket[b] = <<>>))
    BY <1>5
  <2>3. Slots(o.h)
    <3> HIDE DEF b
    <3> QED
      BY <1>1, <1>2, <1>5, <2>2, SlotsReplaced
  <2> QED
    BY <2>1, <2>3 DEF NoMore
<1>6. CASE IsArray(H) /\ o.h = G
  <2> DEFINE t == Grown(s)
  <2>1. Replaced(H, G, b, t)
    <3>1. G = [H EXCEPT !.bucket = With(@, b, t), !.locked = env.threadsafe]
      BY DEF With
    <3>2. PICK e \in Engine \cup {NoEngine}, m \in Nat : H \in Shape(e, m)
      BY <1>1 DEF IsHandle
    <3> HIDE DEF G, b, t
    <3> QED
      BY <1>1, <3>1, <3>2 DEF Shape, Replaced
  <2>2. t # <<>> /\ \A x \in Key : Where(t, x) \subseteq Where(s, x)
    <3>1. s # <<>>
      BY <1>6
    <3> HIDE DEF s
    <3> QED
      BY <1>0, <1>1, <3>1, WhereGrown
  <2> HIDE DEF t, G
  <2> QED
    BY <1>5, <1>6, <2>1, <2>2
<1>7. CASE IsArray(H) /\ o.h = L
  <2> DEFINE t == <<LOST>>
  <2>1. Replaced(H, L, b, t)
    <3>1. L = [H EXCEPT !.bucket = With(@, b, t)]
      BY DEF With
    <3>2. PICK e \in Engine \cup {NoEngine}, m \in Nat : H \in Shape(e, m)
      BY <1>1 DEF IsHandle
    <3> HIDE DEF L, b, t
    <3> QED
      BY <1>1, <3>1, <3>2 DEF Shape, Replaced
  <2>2. t # <<>> /\ \A x \in Key : Where(t, x) = {}
    BY <1>0 DEF Where
  <2> HIDE DEF t, L
  <2> QED
    BY <1>5, <1>7, <2>1, <2>2
<1> QED
  BY <1>3, <1>4, <1>6, <1>7

\* The two engines that look for the key before they store it.
Unique(H) == H.coll_eng \in {"ARRAY", "RBTREE"} => \A k \in Key : CountOf(H, k) <= 1

LEMMA UniqueFewer ==
  ASSUME NEW H, Sound(H), Unique(H), NEW G, Sound(G), Same(H, G), NoMore(H, G)
  PROVE  Unique(G)
<1>1. \A k \in Key : CountOf(H, k) \in Nat /\ CountOf(G, k) \in Nat
  BY CountType
<1> QED
  BY <1>1 DEF Unique, Same, NoMore

LEMMA FoundCount ==
  ASSUME NEW H, NEW k
  PROVE  /\ TRUE \in FindsKey(H, k) => CountOf(H, k) > 0
         /\ H.coll_eng \in {"ARRAY", "RBTREE"} /\ CountOf(H, k) > 0 => TRUE \in FindsKey(H, k)
<1> DEFINE there == CountOf(H, k) > 0
           e == H.coll_eng
<1>1. there \in BOOLEAN
  OBVIOUS
<1> HIDE DEF there
<1>2. CASE e \in {"LIST", "LIST_MTF", "ARRAY", "RBTREE"}
  <2>1. FindsKey(H, k) = {there}
    BY <1>2, Zenon DEF FindsKey, there
  <2>2. (TRUE \in FindsKey(H, k)) <=> there
    BY <1>1, <2>1
  <2> QED
    BY <2>2 DEF there
<1>3. CASE e \in {"LIST_HASH", "LIST_MTF_HASH"}
  <2>1. e \notin {"LIST", "LIST_MTF", "ARRAY", "RBTREE"}
    BY <1>3
  <2>2. FindsKey(H, k) = {FALSE, there}
    BY <1>3, <2>1, Zenon DEF FindsKey, there
  <2>3. (TRUE \in FindsKey(H, k)) <=> there
    BY <1>1, <2>2
  <2> QED
    BY <2>1, <2>3 DEF there
<1>4. CASE e \notin {"LIST", "LIST_MTF", "ARRAY", "RBTREE", "LIST_HASH", "LIST_MTF_HASH"}
  <2>1. FindsKey(H, k) = {FALSE}
    BY <1>4 DEF FindsKey
  <2> QED
    BY <1>4, <2>1
<1> QED
  BY <1>2, <1>3, <1>4

\* What an insertion comes to.
LEMMA InsertCounts ==
  ASSUME NEW H, Sound(H), NEW k \in Key, ~Broken(H, k), env.threadsafe \in BOOLEAN, Slots(H),
         Unique(H), NEW o \in EngineInsert(H, k)
  PROVE  /\ Slots(o.h) /\ Unique(o.h)
         /\ o.code = "SUCCESS" => Added(H, o.h, k)
         /\ o.code # "SUCCESS" => NoMore(H, o.h)
         /\ o.code # "SUCCESS" /\ ~env.malloc_fails =>
              /\ o.h = H
              /\ \/ H.coll_eng \in {"ARRAY", "RBTREE"} /\ CountOf(H, k) > 0
                 \/ IsArray(H) /\ H.bucket[BucketOf(H, k)] = <<>>
<1>0. Sound(o.h) /\ Same(H, o.h)
  BY InsertSound
<1>1. \A x \in Key : CountOf(H, x) \in Nat
  BY CountType
<1>2. ASSUME o.h = H PROVE Slots(o.h) /\ Unique(o.h) /\ NoMore(H, o.h)
  BY <1>1, <1>2 DEF NoMore
<1>3. CASE /\ H.coll_eng \in {"ARRAY", "RBTREE"} /\ TRUE \in FindsKey(H, k)
           /\ o = Outcome(H, "DUPKEY")
  BY <1>2, <1>3, FoundCount DEF Outcome
<1>4. CASE /\ IsArray(H) /\ H.bucket[BucketOf(H, k)] = <<>>
           /\ o \in {Outcome(H, "SYSTEM"), Outcome(H, "INTERNAL")}
  BY <1>2, <1>4 DEF Outcome
<1>5. CASE /\ ~(H.coll_eng \in {"ARRAY", "RBTREE"} /\ TRUE \in FindsKey(H, k))
           /\ IsArray(H) => H.bucket[BucketOf(H, k)] # <<>>
           /\ o = Outcome(Stores(H, k), "SUCCESS")
  <2>1. o.h = Stores(H, k) /\ o.code = "SUCCESS"
    BY <1>5 DEF Outcome
  <2>2. Added(H, o.h, k) /\ Slots(o.h)
    BY <1>5, <2>1, StoresAdded
  <2>3. H.coll_eng \in {"ARRAY", "RBTREE"} => CountOf(H, k) = 0
    <3>1. H.coll_eng \in {"ARRAY", "RBTREE"} => ~(CountOf(H, k) > 0)
      BY <1>5, FoundCount
    <3>2. CountOf(H, k) \in Nat
      BY <1>1
    <3> QED
      BY <3>1, <3>2
  <2>4. Unique(o.h)
    BY <1>0, <1>1, <2>2, <2>3 DEF Unique, Added, Same
  <2> QED
    BY <2>1, <2>2, <2>4
<1>6. CASE /\ IsArray(H) => H.bucket[BucketOf(H, k)] # <<>>
           /\ env.malloc_fails /\ o \in InsertFailures(H, k)
  <2>1. o.code = "SYSTEM" /\ NoMore(H, o.h) /\ Slots(o.h)
    BY <1>6, FailureSound, FailureNoMore
  <2> QED
    BY <1>0, <1>6, <2>1, UniqueFewer
<1> QED
  BY <1>3, <1>4, <1>5, <1>6 DEF EngineInsert

\* New tables.
LEMMA NewCounts ==
  ASSUME NEW s, s.coll_eng \in Engine \cup {NoEngine}, s.table_size \in Nat,
         s.coll_eng_array_size \in Nat, s.rehash_auto \in BOOLEAN
  PROVE  /\ \A k \in Key : CountOf(NewHandle(s), k) = 0
         /\ Slots(NewHandle(s)) /\ Unique(NewHandle(s))
<1> DEFINE H == NewHandle(s)
           B == EmptyBuckets(s.coll_eng, s.table_size, s.coll_eng_array_size)
<1>0. FREE \notin Key
  BY HandleAssumption
<1>1. /\ H.bucket = B /\ H.coll_eng = s.coll_eng /\ H.table_size = s.table_size
      /\ H.coll_eng_array_size = s.coll_eng_array_size
  BY DEF NewHandle
<1>2. DOMAIN B = 0 .. s.table_size - 1
  BY DEF EmptyBuckets
<1>3. ASSUME NEW b \in DOMAIN B
      PROVE  /\ Range(B[b]) \subseteq {FREE}
             /\ s.coll_eng \in ArrayEngine => ((B[b] = <<>>) <=> (s.coll_eng_array_size = 0))
  <2>1. CASE s.coll_eng \in ArrayEngine
    <3> DEFINE q == [i \in 1 .. s.coll_eng_array_size |-> FREE]
    <3>1. B[b] = q
      BY <1>2, <2>1 DEF EmptyBuckets
    <3>2. q \in Seq({FREE}) /\ Len(q) = s.coll_eng_array_size
      OBVIOUS
    <3>3. Range(q) \subseteq {FREE}
      BY DEF Range
    <3> HIDE DEF q, B
    <3>4. (q = <<>>) <=> (Len(q) = 0)
      BY <3>2, EmptySeq
    <3> QED
      BY <3>1, <3>2, <3>3, <3>4
  <2>2. CASE s.coll_eng \notin ArrayEngine
    <3>1. B[b] = <<>>
      BY <1>2, <2>2 DEF EmptyBuckets
    <3> QED
      BY <2>2, <3>1 DEF Range
  <2> QED
    BY <2>1, <2>2
<1> HIDE DEF B
<1>4. \A k \in Key : CountOf(H, k) = 0
  <2>1. \A k \in Key : \A b \in DOMAIN H.bucket : k \notin Range(H.bucket[b])
    BY <1>0, <1>1, <1>3
  <2> HIDE DEF H
  <2> QED
    BY <2>1, CountNone
<1>5. Slots(H)
  BY <1>1, <1>2, <1>3 DEF Slots, IsArray
<1> QED
  BY <1>4, <1>5 DEF Unique

LEMMA NoHandleCounts ==
  (\A k \in Key : CountOf(NoHandle, k) = 0) /\ Slots(NoHandle) /\ Unique(NoHandle)
<1> DEFINE s == [coll_eng |-> NoEngine, table_size |-> 0, coll_eng_array_size |-> 0,
                 rehash_auto |-> FALSE]
<1>1. NoHandle = NewHandle(s)
  BY DEF NoHandle, NewHandle
<1>2. /\ s.coll_eng \in Engine \cup {NoEngine} /\ s.table_size \in Nat
      /\ s.coll_eng_array_size \in Nat /\ s.rehash_auto \in BOOLEAN
  OBVIOUS
<1> HIDE DEF s
<1> QED
  BY <1>1, <1>2, NewCounts

(***************************************************************************)
(* The arrays a bucket is copied to: all of its entries, unless one of the *)
(* first slots is free; then the last element is one nobody wrote.         *)
(***************************************************************************)
Whole(s, n, a) == Held(s) = 1 .. n /\ \A j \in 1 .. n : a[j] = s[j]

LEMMA MinOfFound ==
  ASSUME NEW n \in Nat, NEW S \in SUBSET (1 .. n), S # {}
  PROVE  Min(S) \in S
<1>1. \E x \in S : \A y \in S : x <= y
  BY HasFirst
<1> QED
  BY <1>1 DEF Min

LEMMA PartOfInterval ==
  ASSUME NEW n \in Nat, NEW S \in SUBSET (1 .. n)
  PROVE  /\ IsFiniteSet(1 .. n) /\ IsFiniteSet(S)
         /\ Cardinality(S) \in Nat /\ Cardinality(S) <= n
<1>1. IsFiniteSet(1 .. n) /\ Cardinality(1 .. n) = n
  BY FS_Interval, 1 \in Int
<1>2. IsFiniteSet(S) /\ Cardinality(S) <= Cardinality(1 .. n)
  BY <1>1, FS_Subset
<1> QED
  BY <1>1, <1>2, FS_CardinalityType

LEMMA PackedFacts ==
  ASSUME NEW e, NEW s \in Seq(Slot(e)), NEW n \in Nat, n = Cardinality(Held(s))
  PROVE  /\ Packed(s, n) \in [1 .. n -> Range(s) \cup {JUNK}]
         /\ \/ Whole(s, n, Packed(s, n))
            \/ /\ n > 0 /\ Packed(s, n)[n] = JUNK
               /\ \E i, j \in DOMAIN s : i < j /\ s[i] = FREE /\ s[j] # FREE
<1> DEFINE K == {i \in 1 .. n : s[i] # FREE}
           rank(i) == Cardinality({l \in K : l < i})
           nth(j) == {i \in K : rank(i) = j - 1}
           a == Packed(s, n)
<1>0. /\ DOMAIN s = 1 .. Len(s) /\ Len(s) \in Nat /\ FREE \notin Key /\ FREE # LOST
      /\ \A i \in DOMAIN s : s[i] \in Key \cup {FREE, LOST}
  BY HandleAssumption DEF Slot
<1>1. /\ Held(s) \in SUBSET (1 .. Len(s)) /\ IsFiniteSet(1 .. Len(s)) /\ IsFiniteSet(Held(s))
      /\ n <= Len(s)
  <2>1. Held(s) \in SUBSET (1 .. Len(s))
    BY <1>0 DEF Held
  <2> QED
    BY <1>0, <2>1, PartOfInterval
<1>2. a = [j \in 1 .. n |-> IF nth(j) = {} THEN JUNK ELSE s[Min(nth(j))]]
  BY DEF Packed
<1>3. ASSUME NEW j \in 1 .. n PROVE a[j] \in Range(s) \cup {JUNK}
  <2>1. CASE nth(j) = {}
    BY <1>2, <2>1
  <2>2. CASE nth(j) # {}
    <3>1. nth(j) \in SUBSET (1 .. n)
      OBVIOUS
    <3>2. Min(nth(j)) \in nth(j)
      <4> HIDE DEF nth
      <4> QED
        BY <2>2, <3>1, MinOfFound
    <3>3. Min(nth(j)) \in DOMAIN s
      BY <1>0, <1>1, <3>2
    <3> QED
      BY <1>2, <2>2, <3>3 DEF Range
  <2> QED
    BY <2>1, <2>2
<1>4. CASE K = 1 .. n
  <2>1. Held(s) = 1 .. n
    <3>1. 1 .. n \in SUBSET Held(s)
      BY <1>0, <1>1, <1>4 DEF Held
    <3>2. IsFiniteSet(1 .. n) /\ Cardinality(1 .. n) = n
      BY FS_Interval, 1 \in Int
    <3> QED
      BY <1>1, <3>1, <3>2, FS_Subset
  <2>2. ASSUME NEW j \in 1 .. n PROVE a[j] = s[j]
    <3>1. ASSUME NEW i \in 1 .. n PROVE rank(i) = i - 1
      <4>1. {l \in K : l < i} = 1 .. i - 1
        BY <1>4
      <4>2. Cardinality(1 .. i - 1) = i - 1
        <5>1. i - 1 \in Int /\ i >= 1
          OBVIOUS
        <5> QED
          BY <5>1, FS_Interval, 1 \in Int
      <4> QED
        BY <4>1, <4>2
    <3>2. nth(j) = {j}
      <4> HIDE DEF rank
      <4> QED
        BY <1>4, <3>1
    <3>3. Min({j}) = j
      BY DEF Min
    <3> QED
      BY <1>2, <3>2, <3>3
  <2> HIDE DEF a
  <2>3. Whole(s, n, a)
    BY <2>1, <2>2 DEF Whole
  <2> QED
    BY <1>2, <1>3, <2>3 DEF a
<1>5. CASE K # 1 .. n
  <2>1. PICK i \in 1 .. n : s[i] = FREE
    BY <1>5
  <2>2. i \in DOMAIN s /\ n > 0 /\ i \notin Held(s)
    BY <1>0, <1>1, <2>1 DEF Held
  <2>3. Cardinality(K) \in Nat /\ Cardinality(K) < n
    <3>1. IsFiniteSet(1 .. n) /\ Cardinality(1 .. n) = n
      BY FS_Interval, 1 \in Int
    <3>2. K \in SUBSET (1 .. n)
      OBVIOUS
    <3>3. IsFiniteSet(K) /\ Cardinality(K) \in Nat
      <4> HIDE DEF K
      <4> QED
        BY <3>1, <3>2, FS_Subset, FS_CardinalityType
    <3>4. Cardinality(K) <= n /\ Cardinality(K) # n
      <4> HIDE DEF K
      <4> QED
        BY <1>5, <3>1, <3>2, FS_Subset
    <3> QED
      BY <3>3, <3>4
  <2>4. a[n] = JUNK
    <3>1. K \in SUBSET Nat /\ IsFiniteSet(K)
      <4>1. IsFiniteSet(1 .. n) /\ K \in SUBSET (1 .. n)
        BY FS_Interval, 1 \in Int
      <4>2. IsFiniteSet(K)
        <5> HIDE DEF K
        <5> QED
          BY <4>1, FS_Subset
      <4> QED
        BY <4>2
    <3>2. \A x \in K : rank(x) \in 0 .. Cardinality(K) - 1
      <4> HIDE DEF K
      <4> QED
        BY <3>1, RankProperties
    <3>3. \A x \in K : rank(x) # n - 1
      <4> HIDE DEF K, rank
      <4> QED
        BY <2>3, <3>2
    <3>4. nth(n) = {}
      BY <3>3
    <3> HIDE DEF nth, a
    <3> QED
      BY <1>2, <2>2, <3>4
  <2>5. \E j \in Held(s) : i < j
    <3>1. SUFFICES ASSUME \A j \in Held(s) : ~(i < j) PROVE FALSE
      OBVIOUS
    <3>2. Held(s) \in SUBSET (1 .. i - 1)
      BY <1>0, <1>1, <2>2, <3>1
    <3>4. i - 1 \in Nat /\ n <= i - 1
      <4>1. i - 1 \in Nat
        OBVIOUS
      <4>2. Cardinality(Held(s)) <= i - 1
        <5> DEFINE m == i - 1
        <5>1. m \in Nat /\ Held(s) \in SUBSET (1 .. m)
          BY <3>2, <4>1
        <5>2. Cardinality(Held(s)) <= m
          <6> HIDE DEF m
          <6> QED
            BY <5>1, PartOfInterval
        <5> QED
          BY <5>2
      <4> QED
        BY <4>1, <4>2
    <3> QED
      BY <3>4
  <2>6. \E j \in DOMAIN s : i < j /\ s[j] # FREE
    BY <1>0, <2>5 DEF Held
  <2> HIDE DEF a
  <2> QED
    BY <1>2, <1>3, <2>1, <2>2, <2>4, <2>6 DEF a
<1> QED
  BY <1>4, <1>5

(***************************************************************************)
(* The iterator and the counts.  A good iterator has keys only to give.    *)
(***************************************************************************)
Good(i) == i.nmemb > 0 => i.keys # <<>> /\ \A j \in 1 .. i.nmemb : i.keys[j] \in Key

ToTake(i, k) == {j \in 1 .. i.nmemb : i.keys[j] = k}

\* How often k has been given when the iterator is through with bucket n, and what
\* has been given, c, and is in the iterator's arrays come to that.
Due(H, n, k) == IF BucketOf(H, k) <= n THEN CountOf(H, k) ELSE 0

Accounted(H, i, c) == \A k \in Key : c[k] + Cardinality(ToTake(i, k)) = Due(H, i.bucket, k)

Given(H, n, k) == IF BucketOf(H, k) < n THEN CountOf(H, k) ELSE 0

LEMMA ToTakeFinite ==
  ASSUME NEW i, i.nmemb \in Nat, NEW k
  PROVE  /\ IsFiniteSet(ToTake(i, k)) /\ Cardinality(ToTake(i, k)) \in Nat
         /\ Cardinality(ToTake(i, k)) = 0 <=> ToTake(i, k) = {}
         /\ i.nmemb = 0 => Cardinality(ToTake(i, k)) = 0
<1>1. ToTake(i, k) \in SUBSET (1 .. i.nmemb)
  BY DEF ToTake
<1>2. IsFiniteSet(ToTake(i, k)) /\ Cardinality(ToTake(i, k)) \in Nat
  BY <1>1, PartOfInterval
<1>3. Cardinality(ToTake(i, k)) = 0 <=> ToTake(i, k) = {}
  BY <1>2, FS_EmptySet
<1>4. i.nmemb = 0 => ToTake(i, k) = {}
  BY <1>1
<1> QED
  BY <1>2, <1>3, <1>4

\* A bucket that holds nothing holds no key.
LEMMA StoredNone ==
  ASSUME NEW H, Sound(H), H.table_size # 0, NEW k \in Key, Stored(H, BucketOf(H, k)) = 0
  PROVE  CountOf(H, k) = 0
<1> DEFINE b == BucketOf(H, k)
<1>1. IsHandle(H) /\ b \in 0 .. H.table_size - 1
  BY CountHome DEF Sound
<1> HIDE DEF b
<1>2. Held(H.bucket[b]) = {}
  BY <1>1, HeldFinite DEF b
<1>3. k \notin Range(H.bucket[b])
  BY <1>2 DEF Held, Range
<1> QED
  BY <1>3, CountHome DEF b

\* The array a bucket is copied to.
LEMMA BucketCopied ==
  ASSUME NEW H, Sound(H), NEW b \in 0 .. H.table_size - 1, Stored(H, b) > 0,
         NEW a, a = ToArray(H, b), NEW n, n = Stored(H, b)
  PROVE  /\ n \in Nat /\ n > 0 /\ Len(a) = n /\ a # <<>> /\ DOMAIN a = 1 .. n
         /\ LOST \in Range(a) => FiniCrashes(H)
         /\ \/ Whole(H.bucket[b], n, a)
            \/ a[n] = JUNK /\ HasHole(H)
<1> DEFINE s == H.bucket[b]
           e == H.coll_eng
<1>1. /\ s \in Seq(Slot(e)) /\ b \in DOMAIN H.bucket
      /\ n \in Nat /\ n = Cardinality(Held(s)) /\ JUNK # LOST
  BY HandleFields, HeldFinite, HandleAssumption DEF Sound, Stored
<1>2. a = Packed(s, n)
  BY DEF ToArray
<1> HIDE DEF s, e
<1>3. /\ a \in [1 .. n -> Range(s) \cup {JUNK}]
      /\ \/ Whole(s, n, a)
         \/ /\ n > 0 /\ a[n] = JUNK
            /\ \E i, j \in DOMAIN s : i < j /\ s[i] = FREE /\ s[j] # FREE
  BY <1>1, <1>2, PackedFacts
<1>4. LOST \in Range(a) => LOST \in Range(s)
  BY <1>1, <1>3 DEF Range
<1>5. Len(a) = n /\ DOMAIN a = 1 .. n
  BY <1>1, <1>3
<1>6. a # <<>>
  BY <1>1, <1>5
<1>7. LOST \in Range(a) => FiniCrashes(H)
  BY <1>1, <1>4 DEF FiniCrashes, s
<1>8. Whole(s, n, a) \/ (a[n] = JUNK /\ HasHole(H))
  BY <1>1, <1>3 DEF HasHole, s
<1> QED
  BY <1>1, <1>5, <1>6, <1>7, <1>8 DEF s

\* All of a bucket: what an iterator gives of k.
LEMMA WholeGives ==
  ASSUME NEW H, Sound(H), NEW b \in 0 .. H.table_size - 1, NEW i, IsIterator(i), i.bucket = b,
         Whole(H.bucket[b], i.nmemb, i.keys), NEW k \in Key
  PROVE  /\ BucketOf(H, k) = b => Cardinality(ToTake(i, k)) = CountOf(H, k)
         /\ BucketOf(H, k) # b => ToTake(i, k) = {}
<1> DEFINE s == H.bucket[b]
<1>1. Held(s) = 1 .. i.nmemb /\ \A j \in 1 .. i.nmemb : i.keys[j] = s[j]
  BY DEF Whole
<1>2. Held(s) \subseteq DOMAIN s
  BY DEF Held
<1>3. H.table_size # 0 /\ b \in DOMAIN H.bucket
  BY HandleFields DEF Sound
<1> HIDE DEF s
<1>4. ToTake(i, k) = Where(s, k)
  <2>1. ASSUME NEW j \in ToTake(i, k) PROVE j \in Where(s, k)
    BY <1>1, <1>2 DEF ToTake, Where
  <2>2. ASSUME NEW j \in Where(s, k) PROVE j \in ToTake(i, k)
    <3>1. j \in Held(s) /\ s[j] = k
      BY DEF Where, Held
    <3> QED
      BY <1>1, <3>1 DEF ToTake
  <2> QED
    BY <2>1, <2>2
<1>5. BucketOf(H, k) = b => Cardinality(ToTake(i, k)) = CountOf(H, k)
  BY <1>3, <1>4, CountHome DEF s
<1>6. ASSUME BucketOf(H, k) # b PROVE Where(s, k) = {}
  BY <1>3, <1>6 DEF Sound, Placed, Where, Range, s
<1> QED
  BY <1>4, <1>5, <1>6

\* What a walk finds, in buckets from i's on.
LEMMA NextFound ==
  ASSUME NEW H, Sound(H), H.table_size # 0, NEW i, IsIterator(i), NEW r \in GetNextBucket(H, i),
         r.code = "SUCCESS"
  PROVE  /\ IsIterator(r.it) /\ r.it.nmemb > 0 /\ r.it.keys # <<>>
         /\ r.it.on = i.on /\ r.it.clean = i.clean /\ r.it.seen = i.seen
         /\ r.it.bucket \in i.bucket .. H.table_size - 1
         /\ LOST \in Range(r.it.keys) => FiniCrashes(H)
         /\ H.bucket[r.it.bucket] # <<>>
         /\ Good(r.it) \/ HasHole(H) \/ FiniCrashes(H)
         /\ Good(r.it) => \A k \in Key :
              /\ BucketOf(H, k) = r.it.bucket => Cardinality(ToTake(r.it, k)) = CountOf(H, k)
              /\ BucketOf(H, k) # r.it.bucket => ToTake(r.it, k) = {}
         /\ \A k \in Key : BucketOf(H, k) \in i.bucket .. r.it.bucket - 1 => CountOf(H, k) = 0
<1> DEFINE S == {c \in i.bucket .. H.table_size - 1 : Stored(H, c) > 0}
           b == Min(S)
           a == ToArray(H, b)
<1>1. i.bucket \in Nat /\ IsHandle(H) /\ H.table_size \in Nat
  BY HandleFields DEF IsIterator, Sound
<1>2. S # {} /\ r.it = [i EXCEPT !.bucket = b, !.keys = a, !.nmemb = Len(a)]
  <2>1. CASE S = {}
    BY <2>1 DEF GetNextBucket
  <2>2. CASE S # {}
    <3>1. \/ r = [code |-> "SUCCESS",
                  it |-> [i EXCEPT !.bucket = b, !.keys = a, !.nmemb = Len(a)]]
          \/ r.code = "SYSTEM"
      BY <2>2 DEF GetNextBucket
    <3> QED
      BY <2>2, <3>1
  <2> QED
    BY <2>1, <2>2
<1>3. /\ b \in i.bucket .. H.table_size - 1 /\ Stored(H, b) > 0
      /\ \A c \in i.bucket .. b - 1 : Stored(H, c) = 0
  <2> HIDE DEF S
  <2> QED
    BY <1>1, <1>2, FirstBucket DEF S
<1> HIDE DEF S, b
<1>4. b \in 0 .. H.table_size - 1 /\ b \in Nat
  BY <1>1, <1>3
<1> DEFINE n == Stored(H, b)
<1> HIDE DEF a, n
<1>5. /\ n \in Nat /\ n > 0 /\ Len(a) = n /\ a # <<>> /\ DOMAIN a = 1 .. n
      /\ LOST \in Range(a) => FiniCrashes(H)
      /\ Whole(H.bucket[b], n, a) \/ (a[n] = JUNK /\ HasHole(H))
  BY <1>3, <1>4, BucketCopied DEF a, n
<1>6. /\ r.it.bucket = b /\ r.it.nmemb = n /\ r.it.keys = a /\ IsIterator(r.it)
      /\ r.it.on = i.on /\ r.it.clean = i.clean /\ r.it.seen = i.seen
  BY <1>2, <1>4, <1>5 DEF IsIterator
<1>7. ASSUME Whole(H.bucket[b], n, a), ~FiniCrashes(H) PROVE Good(r.it)
  <2>1. ASSUME NEW j \in 1 .. n PROVE a[j] \in Key
    <3>1. a[j] = H.bucket[b][j] /\ j \in Held(H.bucket[b])
      BY <1>7 DEF Whole
    <3>2. a[j] \in Key \cup {LOST}
      BY <3>1 DEF Held
    <3>3. a[j] # LOST
      BY <1>5, <1>7 DEF Range
    <3> QED
      BY <3>2, <3>3
  <2> QED
    BY <1>5, <1>6, <2>1 DEF Good
<1>8. ASSUME Good(r.it) PROVE Whole(H.bucket[b], n, a)
  <2>1. a[n] \in Key /\ JUNK \notin Key
    BY <1>5, <1>6, <1>8, HandleAssumption DEF Good
  <2> QED
    BY <1>5, <2>1
<1>9. ASSUME Good(r.it), NEW k \in Key
      PROVE  /\ BucketOf(H, k) = b => Cardinality(ToTake(r.it, k)) = CountOf(H, k)
             /\ BucketOf(H, k) # b => ToTake(r.it, k) = {}
  BY <1>4, <1>6, <1>8, <1>9, WholeGives
<1>10. ASSUME NEW k \in Key, BucketOf(H, k) \in i.bucket .. b - 1 PROVE CountOf(H, k) = 0
  BY <1>3, <1>10, StoredNone
<1>11. H.bucket[b] # <<>>
  <2>1. SUFFICES ASSUME H.bucket[b] = <<>> PROVE FALSE
    OBVIOUS
  <2>2. Held(H.bucket[b]) = {}
    BY <2>1 DEF Held
  <2>3. Stored(H, b) = 0
    BY <2>2, FS_EmptySet DEF Stored
  <2> QED
    BY <1>3, <2>3
<1> QED
  BY <1>3, <1>5, <1>6, <1>7, <1>9, <1>10, <1>11

\* ... and what it comes to where there is nothing.
LEMMA NextEmpty ==
  ASSUME NEW H, Sound(H), H.table_size # 0, NEW i, IsIterator(i), NEW r \in GetNextBucket(H, i),
         r.code = "NODATA"
  PROVE  /\ IsIterator(r.it) /\ r.it.nmemb = i.nmemb /\ r.it.keys = i.keys
         /\ r.it.on = i.on /\ r.it.clean = i.clean /\ r.it.seen = i.seen
         /\ r.it.bucket >= i.bucket /\ r.it.bucket >= H.table_size
         /\ \A k \in Key : BucketOf(H, k) >= i.bucket => CountOf(H, k) = 0
<1> DEFINE S == {c \in i.bucket .. H.table_size - 1 : Stored(H, c) > 0}
           m == Max({i.bucket, H.table_size})
<1>1. i.bucket \in Nat /\ IsHandle(H) /\ H.table_size \in Nat
  BY HandleFields DEF IsIterator, Sound
<1>2. S = {} /\ r.it = [i EXCEPT !.bucket = m]
  <2>1. CASE S = {}
    BY <2>1 DEF GetNextBucket
  <2>2. CASE S # {}
    BY <2>2 DEF GetNextBucket
  <2> QED
    BY <2>1, <2>2
<1>3. m \in Nat /\ m >= i.bucket /\ m >= H.table_size
  <2>1. \E x \in {i.bucket, H.table_size} : \A y \in {i.bucket, H.table_size} : x >= y
    BY <1>1
  <2>2. m \in {i.bucket, H.table_size} /\ \A y \in {i.bucket, H.table_size} : m >= y
    BY <2>1 DEF Max
  <2> QED
    BY <1>1, <2>2
<1> HIDE DEF m
<1>4. ASSUME NEW k \in Key, BucketOf(H, k) >= i.bucket PROVE CountOf(H, k) = 0
  <2> DEFINE b == BucketOf(H, k)
  <2>1. b \in 0 .. H.table_size - 1
    BY CountHome
  <2>2. b \in i.bucket .. H.table_size - 1
    BY <1>1, <1>4, <2>1
  <2>3. ~(Stored(H, b) > 0)
    BY <1>2, <2>2
  <2> HIDE DEF b
  <2>4. Stored(H, b) \in Nat
    BY <1>1, <2>1, HeldFinite
  <2>5. Stored(H, b) = 0
    BY <2>3, <2>4
  <2> QED
    BY <2>5, StoredNone DEF b
<1>5. /\ IsIterator(r.it) /\ r.it.nmemb = i.nmemb /\ r.it.keys = i.keys /\ r.it.bucket = m
      /\ r.it.on = i.on /\ r.it.clean = i.clean /\ r.it.seen = i.seen
  BY <1>2, <1>3 DEF IsIterator
<1> QED
  BY <1>3, <1>4, <1>5

LEMMA NextCodes ==
  ASSUME NEW H, NEW i, NEW r \in GetNextBucket(H, i)
  PROVE  /\ r.code \in {"SUCCESS", "NODATA", "SYSTEM"}
         /\ r.code = "SYSTEM" => env.malloc_fails
  BY DEF GetNextBucket

LEMMA EntriesCodes ==
  ASSUME NEW H, NEW i, NEW r \in NextEntries(H, i)
  PROVE  /\ r.code \in {"SUCCESS", "NODATA", "SYSTEM"}
         /\ r.code = "SYSTEM" => env.malloc_fails
<1>1. \/ r = [code |-> "SUCCESS", it |-> i]
      \/ \E j : r \in GetNextBucket(H, j)
  BY DEF NextEntries
<1> QED
  BY <1>1, NextCodes

LEMMA NextFails ==
  ASSUME NEW H, Sound(H), NEW i, IsIterator(i), NEW r \in GetNextBucket(H, i), r.code = "SYSTEM"
  PROVE  \E b \in Nat : r.it = [i EXCEPT !.bucket = b]
<1> DEFINE S == {c \in i.bucket .. H.table_size - 1 : Stored(H, c) > 0}
           b == Min(S)
<1>1. i.bucket \in Nat /\ IsHandle(H) /\ H.table_size \in Nat
  BY HandleFields DEF IsIterator, Sound
<1>2. S # {} /\ r.it = [i EXCEPT !.bucket = b]
  <2>1. CASE S = {}
    BY <2>1 DEF GetNextBucket
  <2>2. CASE S # {}
    <3>1. r = [code |-> "SYSTEM", it |-> [i EXCEPT !.bucket = b]] \/ r.code = "SUCCESS"
      BY <2>2 DEF GetNextBucket
    <3> QED
      BY <2>2, <3>1
  <2> QED
    BY <2>1, <2>2
<1>3. b \in i.bucket .. H.table_size - 1
  <2> HIDE DEF S
  <2> QED
    BY <1>1, <1>2, FirstBucket DEF S
<1>4. b \in Nat
  BY <1>1, <1>3
<1> QED
  BY <1>2, <1>4

\* An iterator whose keys of the buckets before the next one have all been given: with the
\* next bucket read, or without any, they are all accounted for.
LEMMA NextAccounted ==
  ASSUME NEW H, Sound(H), H.table_size # 0, NEW i, IsIterator(i), NEW r \in GetNextBucket(H, i),
         NEW c, \A k \in Key : c[k] = Given(H, i.bucket, k)
  PROVE  /\ r.code = "SUCCESS" /\ Good(r.it) => Accounted(H, r.it, c)
         /\ r.code = "NODATA" /\ i.nmemb = 0 => Accounted(H, r.it, c)
<1>1. i.bucket \in Nat /\ H.table_size \in Nat
  BY HandleFields DEF IsIterator, Sound
<1>2. ASSUME NEW k \in Key
      PROVE  CountOf(H, k) \in Nat /\ BucketOf(H, k) \in 0 .. H.table_size - 1
  BY CountHome
<1>3. ASSUME r.code = "SUCCESS", Good(r.it), NEW k \in Key
      PROVE  c[k] + Cardinality(ToTake(r.it, k)) = Due(H, r.it.bucket, k)
  <2>1. /\ r.it.bucket \in i.bucket .. H.table_size - 1
        /\ BucketOf(H, k) = r.it.bucket => Cardinality(ToTake(r.it, k)) = CountOf(H, k)
        /\ BucketOf(H, k) # r.it.bucket => ToTake(r.it, k) = {}
        /\ BucketOf(H, k) \in i.bucket .. r.it.bucket - 1 => CountOf(H, k) = 0
    BY <1>3, NextFound, ZenonT(60)
  <2>2. BucketOf(H, k) # r.it.bucket => Cardinality(ToTake(r.it, k)) = 0
    BY <2>1, FS_EmptySet
  <2> QED
    BY <1>1, <1>2, <2>1, <2>2 DEF Due, Given
<1>4. ASSUME r.code = "NODATA", i.nmemb = 0, NEW k \in Key
      PROVE  c[k] + Cardinality(ToTake(r.it, k)) = Due(H, r.it.bucket, k)
  <2>1. /\ r.it.nmemb = 0 /\ r.it.bucket >= i.bucket /\ r.it.bucket >= H.table_size
        /\ r.it.bucket \in Nat
        /\ BucketOf(H, k) >= i.bucket => CountOf(H, k) = 0
    BY <1>4, NextEmpty DEF IsIterator
  <2>2. Cardinality(ToTake(r.it, k)) = 0
    BY <2>1, ToTakeFinite
  <2> QED
    BY <1>1, <1>2, <2>1, <2>2 DEF Due, Given
<1> QED
  BY <1>3, <1>4 DEF Accounted

\* All of a bucket's keys have been given.
LEMMA GivenNext ==
  ASSUME NEW H, Sound(H), H.table_size # 0, NEW i, IsIterator(i), i.nmemb = 0, NEW c,
         c \in [Key -> Nat], Accounted(H, i, c), NEW k \in Key
  PROVE  c[k] = Given(H, i.bucket + 1, k)
<1>1. Cardinality(ToTake(i, k)) = 0 /\ i.bucket \in Nat /\ c[k] \in Nat
  BY ToTakeFinite DEF IsIterator
<1>2. c[k] = Due(H, i.bucket, k)
  BY <1>1 DEF Accounted
<1>3. BucketOf(H, k) \in 0 .. H.table_size - 1 /\ H.table_size \in Nat
  BY CountHome, HandleFields DEF Sound
<1>4. BucketOf(H, k) <= i.bucket <=> BucketOf(H, k) < i.bucket + 1
  BY <1>1, <1>3
<1> QED
  BY <1>2, <1>4 DEF Due, Given

\* One key is given.
LEMMA TakenGood ==
  ASSUME NEW i, IsIterator(i), i.nmemb > 0, i.keys # <<>>, i.keys[i.nmemb] \in Key, Good(Taken(i))
  PROVE  Good(i)
<1>1. Taken(i).nmemb = i.nmemb - 1 /\ Taken(i).keys = i.keys /\ i.nmemb \in Nat
  BY DEF Taken, IsIterator
<1>2. ASSUME NEW j \in 1 .. i.nmemb PROVE i.keys[j] \in Key
  <2>1. CASE j = i.nmemb
    BY <2>1
  <2>2. CASE j # i.nmemb
    <3>1. j \in 1 .. i.nmemb - 1 /\ i.nmemb - 1 > 0
      BY <1>1, <2>2
    <3> QED
      BY <1>1, <3>1 DEF Good
  <2> QED
    BY <2>1, <2>2
<1> QED
  BY <1>2 DEF Good

LEMMA TakenKeys ==
  ASSUME NEW i, IsIterator(i), i.nmemb > 0, NEW k
  PROVE  /\ k = i.keys[i.nmemb] =>
              /\ Cardinality(ToTake(i, k)) = Cardinality(ToTake(Taken(i), k)) + 1
              /\ ToTake(i, k) # {}
         /\ k # i.keys[i.nmemb] => ToTake(i, k) = ToTake(Taken(i), k)
<1> DEFINE S == ToTake(i, k)
           T == ToTake(Taken(i), k)
           n == i.nmemb
<1>1. Taken(i).nmemb = n - 1 /\ Taken(i).keys = i.keys /\ n \in Nat /\ n - 1 \in Nat
  BY DEF Taken, IsIterator
<1>2. ASSUME NEW j PROVE j \in S <=> (j \in T \/ (j = n /\ i.keys[n] = k))
  <2>1. j \in 1 .. n <=> (j \in 1 .. n - 1 \/ j = n)
    BY <1>1
  <2> QED
    BY <1>1, <2>1 DEF ToTake
<1>3. n \notin T
  BY <1>1 DEF ToTake
<1>4. IsFiniteSet(T)
  BY <1>1, ToTakeFinite
<1> HIDE DEF S, T
<1>5. CASE k = i.keys[n]
  <2>1. S = T \cup {n}
    BY <1>2, <1>5
  <2>2. Cardinality(S) = Cardinality(T) + 1
    BY <1>3, <1>4, <2>1, FS_AddElement
  <2> QED
    BY <1>5, <2>1, <2>2 DEF S, T
<1>6. CASE k # i.keys[n]
  <2>1. S = T
    BY <1>2, <1>6
  <2> QED
    BY <1>6, <2>1 DEF S, T
<1> QED
  BY <1>5, <1>6

LEMMA TakenAccounted ==
  ASSUME NEW H, NEW i, IsIterator(i), i.nmemb > 0, NEW c, NEW d,
         \A k \in Key : c[k] \in Nat,
         \A k \in Key : d[k] = c[k] + IF k = i.keys[i.nmemb] THEN 1 ELSE 0,
         Accounted(H, i, c)
  PROVE  Accounted(H, Taken(i), d)
<1>1. Taken(i).nmemb \in Nat /\ i.nmemb \in Nat /\ Taken(i).bucket = i.bucket
  BY DEF Taken, IsIterator
<1>2. ASSUME NEW k \in Key
      PROVE  d[k] + Cardinality(ToTake(Taken(i), k)) = Due(H, Taken(i).bucket, k)
  <2>1. /\ Cardinality(ToTake(Taken(i), k)) \in Nat /\ Cardinality(ToTake(i, k)) \in Nat
    BY <1>1, ToTakeFinite
  <2>2. Cardinality(ToTake(i, k)) =
          Cardinality(ToTake(Taken(i), k)) + IF k = i.keys[i.nmemb] THEN 1 ELSE 0
    BY <2>1, TakenKeys
  <2>3. c[k] + Cardinality(ToTake(i, k)) = Due(H, i.bucket, k)
    BY DEF Accounted
  <2> QED
    BY <1>1, <2>1, <2>2, <2>3
<1> QED
  BY <1>2 DEF Accounted

\* Of the entries W, those in the table are in X, in the iterator's arrays or in buckets
\* it has still to come to.
Reached(H, i, W, X) ==
    \A k \in W \cap Contents(H) : k \in X \/ ToTake(i, k) # {} \/ BucketOf(H, k) > i.bucket

LEMMA NextReached ==
  ASSUME NEW H, Sound(H), H.table_size # 0, NEW i, IsIterator(i), NEW r \in GetNextBucket(H, i),
         NEW W, NEW X,
         \A k \in W \cap Contents(H) : k \in X \/ BucketOf(H, k) >= i.bucket
  PROVE  /\ r.code = "SUCCESS" /\ Good(r.it) => Reached(H, r.it, W, X)
         /\ r.code = "NODATA" => W \cap Contents(H) \subseteq X
<1>1. i.bucket \in Nat /\ H.table_size \in Nat
  BY HandleFields DEF IsIterator, Sound
<1>2. ASSUME NEW k \in Contents(H)
      PROVE  /\ k \in Key /\ CountOf(H, k) \in Nat /\ CountOf(H, k) # 0
             /\ BucketOf(H, k) \in 0 .. H.table_size - 1
  <2>1. k \in Key /\ CountOf(H, k) > 0
    BY DEF Contents
  <2> QED
    BY <2>1, CountHome
<1>3. ASSUME r.code = "SUCCESS", Good(r.it), NEW k \in W \cap Contents(H), k \notin X
      PROVE  ToTake(r.it, k) # {} \/ BucketOf(H, k) > r.it.bucket
  <2>1. k \in Key
    BY <1>2
  <2>2. /\ r.it.bucket \in i.bucket .. H.table_size - 1
        /\ BucketOf(H, k) = r.it.bucket => Cardinality(ToTake(r.it, k)) = CountOf(H, k)
        /\ BucketOf(H, k) \in i.bucket .. r.it.bucket - 1 => CountOf(H, k) = 0
    BY <1>3, <2>1, NextFound
  <2>3. BucketOf(H, k) = r.it.bucket => ToTake(r.it, k) # {}
    BY <1>2, <2>2, FS_EmptySet
  <2>4. BucketOf(H, k) >= i.bucket
    BY <1>3
  <2> QED
    BY <1>1, <1>2, <2>2, <2>3, <2>4
<1>4. ASSUME r.code = "NODATA", NEW k \in W \cap Contents(H), k \notin X
      PROVE  FALSE
  <2>1. BucketOf(H, k) >= i.bucket /\ k \in Key
    BY <1>2, <1>4
  <2>2. CountOf(H, k) = 0
    BY <1>4, <2>1, NextEmpty
  <2> QED
    BY <1>2, <2>2
<1> QED
  BY <1>3, <1>4 DEF Reached

\* An iterator at the end of its bucket.
LEMMA AllReached ==
  ASSUME NEW H, Sound(H), H.table_size # 0, NEW i, IsIterator(i), i.nmemb = 0,
         NEW W, NEW X, Reached(H, i, W, X)
  PROVE  \A k \in W \cap Contents(H) : k \in X \/ BucketOf(H, k) >= i.bucket + 1
<1> SUFFICES ASSUME NEW k \in W \cap Contents(H), k \notin X
             PROVE  BucketOf(H, k) >= i.bucket + 1
  OBVIOUS
<1>1. ToTake(i, k) = {}
  BY ToTakeFinite DEF IsIterator
<1>2. BucketOf(H, k) > i.bucket
  BY <1>1 DEF Reached
<1>3. BucketOf(H, k) \in Nat /\ i.bucket \in Nat
  <2>1. k \in Key
    BY DEF Contents
  <2> QED
    BY <2>1, CountHome DEF IsIterator
<1> QED
  BY <1>2, <1>3

LEMMA ReachedTaken ==
  ASSUME NEW H, NEW i, IsIterator(i), i.nmemb > 0, NEW W, NEW X, Reached(H, i, W, X)
  PROVE  Reached(H, Taken(i), W, X \cup {i.keys[i.nmemb]})
<1>1. Taken(i).bucket = i.bucket
  BY DEF Taken, IsIterator
<1>2. ASSUME NEW k \in W \cap Contents(H), k # i.keys[i.nmemb], k \notin X
      PROVE  ToTake(Taken(i), k) # {} \/ BucketOf(H, k) > i.bucket
  <2>1. ToTake(i, k) # {} \/ BucketOf(H, k) > i.bucket
    BY <1>2 DEF Reached
  <2> QED
    BY <1>2, <2>1, TakenKeys
<1> QED
  BY <1>1, <1>2 DEF Reached

(***************************************************************************)
(* hi_iterator_getnext, and the same in hi_rehash, up to the entry taken.  *)
(***************************************************************************)
LEMMA Advanced ==
  ASSUME NEW i, IsIterator(i), NEW j, j = [Freed(i) EXCEPT !.bucket = @ + 1]
  PROVE  /\ IsIterator(j) /\ j.bucket = i.bucket + 1 /\ j.nmemb = i.nmemb /\ j.keys = <<>>
         /\ j.on = i.on /\ j.clean = i.clean /\ j.seen = i.seen
<1>1. /\ IsIterator(Freed(i)) /\ Freed(i).bucket = i.bucket /\ Freed(i).nmemb = i.nmemb
      /\ Freed(i).keys = <<>> /\ Freed(i).on = i.on /\ Freed(i).clean = i.clean
      /\ Freed(i).seen = i.seen
  BY DEF IsIterator, Freed
<1> QED
  BY <1>1 DEF IsIterator

LEMMA EntriesFound ==
  ASSUME NEW H, Sound(H), H.table_size # 0, NEW i, IsIterator(i), NEW r \in NextEntries(H, i),
         r.code = "SUCCESS"
  PROVE  /\ IsIterator(r.it) /\ r.it.nmemb > 0
         /\ r.it.on = i.on /\ r.it.clean = i.clean /\ r.it.seen = i.seen
         /\ \/ i.nmemb > 0 /\ r.it = i
            \/ /\ i.nmemb = 0 /\ r.it.keys # <<>>
               /\ LOST \in Range(r.it.keys) => FiniCrashes(H)
               /\ Good(r.it) \/ HasHole(H) \/ FiniCrashes(H)
<1>1. CASE i.nmemb > 0
  BY <1>1 DEF NextEntries
<1>2. CASE ~(i.nmemb > 0)
  <2> DEFINE j == [Freed(i) EXCEPT !.bucket = @ + 1]
  <2>1. r \in GetNextBucket(H, j) /\ i.nmemb = 0
    BY <1>2 DEF NextEntries, IsIterator
  <2>2. IsIterator(j) /\ j.on = i.on /\ j.clean = i.clean /\ j.seen = i.seen
    BY Advanced
  <2> HIDE DEF j
  <2> QED
    BY <2>1, <2>2, NextFound
<1> QED
  BY <1>1, <1>2

LEMMA EntriesAccounted ==
  ASSUME NEW H, Sound(H), H.table_size # 0, NEW i, IsIterator(i), NEW r \in NextEntries(H, i),
         r.code = "SUCCESS", Good(r.it), NEW c \in [Key -> Nat], Good(i) => Accounted(H, i, c)
  PROVE  Accounted(H, r.it, c)
<1>1. CASE i.nmemb > 0
  BY <1>1 DEF NextEntries
<1>2. CASE ~(i.nmemb > 0)
  <2> DEFINE j == [Freed(i) EXCEPT !.bucket = @ + 1]
  <2>1. r \in GetNextBucket(H, j) /\ i.nmemb = 0
    BY <1>2 DEF NextEntries, IsIterator
  <2>2. IsIterator(j) /\ j.bucket = i.bucket + 1
    BY Advanced
  <2>3. Accounted(H, i, c)
    BY <1>2 DEF Good
  <2>4. \A k \in Key : c[k] = Given(H, j.bucket, k)
    BY <2>1, <2>2, <2>3, GivenNext
  <2> HIDE DEF j
  <2> QED
    BY <2>1, <2>2, <2>4, NextAccounted
<1> QED
  BY <1>1, <1>2

LEMMA EntriesReached ==
  ASSUME NEW H, Sound(H), H.table_size # 0, NEW i, IsIterator(i), NEW r \in NextEntries(H, i),
         r.code = "SUCCESS", Good(r.it), NEW W, NEW X, Good(i) => Reached(H, i, W, X)
  PROVE  Reached(H, r.it, W, X)
<1>1. CASE i.nmemb > 0
  BY <1>1 DEF NextEntries
<1>2. CASE ~(i.nmemb > 0)
  <2> DEFINE j == [Freed(i) EXCEPT !.bucket = @ + 1]
  <2>1. r \in GetNextBucket(H, j) /\ i.nmemb = 0
    BY <1>2 DEF NextEntries, IsIterator
  <2>2. IsIterator(j) /\ j.bucket = i.bucket + 1
    BY Advanced
  <2>3. Reached(H, i, W, X)
    BY <1>2 DEF Good
  <2>4. \A k \in W \cap Contents(H) : k \in X \/ BucketOf(H, k) >= j.bucket
    BY <2>1, <2>2, <2>3, AllReached
  <2> HIDE DEF j
  <2> QED
    BY <2>1, <2>2, <2>4, NextReached
<1> QED
  BY <1>1, <1>2

\* Where nothing more is found, all has been.
LEMMA EntriesEnd ==
  ASSUME NEW H, Sound(H), H.table_size # 0, NEW i, IsIterator(i), NEW r \in NextEntries(H, i),
         r.code = "NODATA"
  PROVE  /\ IsIterator(r.it) /\ i.nmemb = 0 /\ r.it.nmemb = 0 /\ r.it.keys = <<>>
         /\ r.it.on = i.on /\ r.it.clean = i.clean /\ r.it.seen = i.seen
         /\ r.it.bucket >= H.table_size /\ r.it.bucket \in Nat
<1>1. ~(i.nmemb > 0)
  BY DEF NextEntries
<1> DEFINE j == [Freed(i) EXCEPT !.bucket = @ + 1]
<1>2. r \in GetNextBucket(H, j) /\ i.nmemb = 0
  BY <1>1 DEF NextEntries, IsIterator
<1>3. /\ IsIterator(j) /\ j.nmemb = i.nmemb /\ j.keys = <<>>
      /\ j.on = i.on /\ j.clean = i.clean /\ j.seen = i.seen
  BY Advanced
<1> HIDE DEF j
<1>4. /\ IsIterator(r.it) /\ r.it.nmemb = j.nmemb /\ r.it.keys = j.keys
      /\ r.it.on = j.on /\ r.it.clean = j.clean /\ r.it.seen = j.seen
      /\ r.it.bucket >= H.table_size
  BY <1>2, <1>3, NextEmpty
<1> QED
  BY <1>2, <1>3, <1>4 DEF IsIterator

LEMMA EndAccounted ==
  ASSUME NEW H, Sound(H), H.table_size # 0, NEW i, IsIterator(i), NEW r \in NextEntries(H, i),
         r.code = "NODATA", NEW c \in [Key -> Nat], Accounted(H, i, c)
  PROVE  Accounted(H, r.it, c)
<1>1. ~(i.nmemb > 0)
  BY DEF NextEntries
<1> DEFINE j == [Freed(i) EXCEPT !.bucket = @ + 1]
<1>2. r \in GetNextBucket(H, j) /\ i.nmemb = 0
  BY <1>1 DEF NextEntries, IsIterator
<1>3. IsIterator(j) /\ j.nmemb = 0 /\ j.bucket = i.bucket + 1
  BY <1>2, Advanced
<1>4. \A k \in Key : c[k] = Given(H, j.bucket, k)
  BY <1>2, <1>3, GivenNext
<1> HIDE DEF j
<1> QED
  BY <1>2, <1>3, <1>4, NextAccounted

LEMMA EndReached ==
  ASSUME NEW H, Sound(H), H.table_size # 0, NEW i, IsIterator(i), NEW r \in NextEntries(H, i),
         r.code = "NODATA", NEW W, NEW X, Reached(H, i, W, X)
  PROVE  W \cap Contents(H) \subseteq X
<1>1. ~(i.nmemb > 0)
  BY DEF NextEntries
<1> DEFINE j == [Freed(i) EXCEPT !.bucket = @ + 1]
<1>2. r \in GetNextBucket(H, j) /\ i.nmemb = 0
  BY <1>1 DEF NextEntries, IsIterator
<1>3. IsIterator(j) /\ j.bucket = i.bucket + 1
  BY Advanced
<1>4. \A k \in W \cap Contents(H) : k \in X \/ BucketOf(H, k) >= j.bucket
  BY <1>2, <1>3, AllReached
<1> HIDE DEF j
<1> QED
  BY <1>2, <1>3, <1>4, NextReached

\* Accounted for at the end is: given as often as it is in the table.
LEMMA AccountedWhole ==
  ASSUME NEW H, Sound(H), H.table_size # 0, NEW i, IsIterator(i), i.nmemb = 0,
         i.bucket >= H.table_size, NEW c \in [Key -> Nat], Accounted(H, i, c), NEW k \in Key
  PROVE  c[k] = CountOf(H, k)
<1>1. /\ Cardinality(ToTake(i, k)) = 0 /\ i.bucket \in Nat /\ H.table_size \in Nat
      /\ BucketOf(H, k) \in 0 .. H.table_size - 1
  BY ToTakeFinite, CountHome, HandleFields DEF IsIterator, Sound
<1>2. c[k] + 0 = Due(H, i.bucket, k) /\ BucketOf(H, k) <= i.bucket /\ c[k] \in Nat
  BY <1>1 DEF Accounted
<1> QED
  BY <1>2 DEF Due

\* A key still in the arrays is in the table more often than it has been given.
LEMMA AccountedMore ==
  ASSUME NEW H, Sound(H), H.table_size # 0, NEW i, IsIterator(i), i.nmemb > 0,
         NEW c \in [Key -> Nat], Accounted(H, i, c), i.keys[i.nmemb] \in Key
  PROVE  c[i.keys[i.nmemb]] < CountOf(H, i.keys[i.nmemb])
<1> DEFINE k == i.keys[i.nmemb]
<1>1. ToTake(i, k) # {} /\ Cardinality(ToTake(i, k)) \in Nat
  BY TakenKeys, ToTakeFinite DEF IsIterator
<1>2. Cardinality(ToTake(i, k)) # 0
  BY <1>1, ToTakeFinite DEF IsIterator
<1>3. c[k] + Cardinality(ToTake(i, k)) = Due(H, i.bucket, k) /\ c[k] \in Nat
      /\ CountOf(H, k) \in Nat
  BY CountHome DEF Accounted
<1> HIDE DEF k
<1>4. Due(H, i.bucket, k) <= CountOf(H, k) /\ Due(H, i.bucket, k) \in Nat
  BY <1>3 DEF Due
<1>5. c[k] < CountOf(H, k)
  BY <1>1, <1>2, <1>3, <1>4
<1> QED
  BY <1>5 DEF k

(***************************************************************************)
(* The invariant of the entries.  A table in use has buckets, and one of   *)
(* the two engines that look for a key before they store it has it once;   *)
(* an iterator of keys only has every entry accounted for: seen, in its    *)
(* arrays or in a bucket to come; so has hi_rehash's, with the new table   *)
(* in the place of what has been seen, until another thread disturbs it;   *)
(* what stays in the table, until it is overtaken as it reads a bucket.    *)
(***************************************************************************)
Counts(H) == [k \in Key |-> CountOf(H, k)]

LiveInv ==
    /\ pc # "setup" => h.table_size > 0 /\ h.coll_eng \in Engine
    /\ ~env.malloc_fails => ~FiniCrashes(h)

KeyInv == Unique(h) /\ Unique(new) /\ Slots(h) /\ Slots(new)

SeenInv ==
    /\ IsIterator(it) /\ it.seen \in [Key -> Nat]
    /\ pc = "setup" => ~it.on
    /\ ~env.malloc_fails => LOST \notin Range(it.keys)
    /\ it.on /\ it.clean /\ Good(it) => Accounted(h, it, it.seen)

NewInv ==
    pc \in Rehashing =>
        /\ new.table_size = call.target
        /\ ~disturbed => call.was = Contents(h)
        /\ IsArray(new) => new.coll_eng_array_size # 0

TakeInv ==
    pc = "moving" =>
        /\ walk.nmemb > 0 => walk.keys # <<>>
        /\ new.table_size = 0 => walk.nmemb > 0
        /\ ~env.malloc_fails =>
             /\ LOST \notin Range(walk.keys)
             /\ Good(walk) \/ HasHole(h) \/ disturbed
        /\ Good(walk) =>
             /\ ~disturbed => Accounted(h, walk, Counts(new))
             /\ ~overtaken => Reached(h, walk, call.was, Contents(new))

DoneInv ==
    pc \in {"freeing", "copying"} =>
        /\ new.table_size > 0
        /\ ~overtaken => call.was \cap Contents(h) \subseteq Contents(new)
        /\ ~disturbed => \A k \in Key : CountOf(new, k) = CountOf(h, k)

EntryInv ==
    /\ LiveInv /\ KeyInv /\ SeenInv
    /\ NewInv /\ TakeInv /\ DoneInv
    /\ CrashesOnlyThere

\* What may make hi_rehash end the process.
Excused == HasHole(h) \/ HasDoublet(h) \/ call.target = 0 \/ disturbed

LEMMA EntryTypes ==
  ASSUME IndInv, EntryInv
  PROVE  /\ Sound(h) /\ Sound(new) /\ h.table_size \in Nat /\ new.table_size \in Nat
         /\ pc # "setup" => h.table_size # 0
         /\ \A k \in Key : CountOf(h, k) \in Nat /\ CountOf(new, k) \in Nat
         /\ Counts(new) \in [Key -> Nat]
         /\ env.threadsafe \in BOOLEAN /\ env.malloc_fails \in BOOLEAN
<1>1. Sound(h) /\ Sound(new)
  BY DEF IndInv, TableInv
<1>2. h.table_size \in Nat /\ new.table_size \in Nat
  BY <1>1, HandleFields DEF Sound
<1>3. \A k \in Key : CountOf(h, k) \in Nat /\ CountOf(new, k) \in Nat
  BY <1>1, CountType
<1> QED
  BY <1>1, <1>2, <1>3 DEF Counts, IndInv, TypeInv, EntryInv, LiveInv

\* The new handle of hi_rehash.
LEMMA NewThere ==
  ASSUME IndInv, EntryInv, pc \in Rehashing
  PROVE  new # NoHandle /\ pc # "setup" /\ new.coll_eng = h.coll_eng
<1>1. NoHandle.coll_eng = NoEngine /\ NoEngine \notin Engine /\ pc # "setup"
  BY DEF NoHandle, NoEngine, Engine, ListEngine, ArrayEngine, Rehashing
<1> QED
  BY <1>1 DEF EntryInv, LiveInv, IndInv, LockInv

\* Steps of the program's that leave hi_rehash out.
LEMMA EntryOutside ==
  ASSUME EntryInv, UNCHANGED <<env, h, it>>, pc # "setup", new' \in {new, NoHandle},
         pc' \in {"idle", "inserting", "stuck"}
  PROVE  EntryInv'
<1>1. LiveInv'
  BY DEF EntryInv, LiveInv, FiniCrashes
<1>2. KeyInv'
  BY NoHandleCounts DEF EntryInv, KeyInv, Unique, Slots, IsArray
<1>3. SeenInv'
  BY DEF EntryInv, SeenInv, IsIterator, Good, Accounted, ToTake, Due, BucketOf
<1>4. NewInv' /\ TakeInv' /\ DoneInv' /\ CrashesOnlyThere'
  BY DEF NewInv, TakeInv, DoneInv, CrashesOnlyThere, Rehashing
<1> QED
  BY <1>1, <1>2, <1>3, <1>4 DEF EntryInv

LEMMA EntryStays ==
  ASSUME EntryInv, UNCHANGED <<env, h, it, pc, call, new, walk, disturbed, overtaken>>
  PROVE  EntryInv'
<1>1. LiveInv' /\ KeyInv' /\ SeenInv'
  BY DEF EntryInv, LiveInv, KeyInv, SeenInv
<1>2. NewInv' /\ TakeInv' /\ DoneInv' /\ CrashesOnlyThere'
  BY DEF EntryInv, NewInv, TakeInv, DoneInv, CrashesOnlyThere
<1> QED
  BY <1>1, <1>2 DEF EntryInv

LEMMA EntryHangs == ASSUME EntryInv, pc # "setup", Stop("stuck") PROVE EntryInv'
<1>1. UNCHANGED <<env, h, it>> /\ new' = new /\ pc' = "stuck"
  BY DEF Stop, rehash
<1> QED
  BY <1>1, EntryOutside

\* The process ends.
LEMMA EntryCrashes ==
  ASSUME IndInv, EntryInv, pc # "setup", Stop("crashed"),
         ~env.malloc_fails => \/ it.on /\ it.keys = <<>> /\ it.nmemb > 0
                              \/ pc \in Rehashing /\ Excused
  PROVE  EntryInv'
<1>1. UNCHANGED <<env, h, it, call, new, walk, disturbed, overtaken>> /\ pc' = "crashed"
  BY DEF Stop, rehash
<1>2. LiveInv' /\ KeyInv' /\ SeenInv'
  BY <1>1 DEF EntryInv, LiveInv, KeyInv, SeenInv
<1>3. NewInv' /\ TakeInv' /\ DoneInv'
  BY <1>1 DEF NewInv, TakeInv, DoneInv, Rehashing
<1>4. pc \in Rehashing => new # NoHandle
  BY NewThere
<1>5. CrashesOnlyThere'
  BY <1>1, <1>4 DEF CrashesOnlyThere, Excused
<1> QED
  BY <1>2, <1>3, <1>5 DEF EntryInv

LEMMA EntryReturns ==
  ASSUME EntryInv, pc # "setup", UNCHANGED <<env, h, it>>, NEW code, RehashReturns(code)
  PROVE  EntryInv'
<1>1. new' \in {new, NoHandle} /\ pc' \in {"idle", "inserting"}
  BY DEF RehashReturns
<1> QED
  BY <1>1, EntryOutside

LEMMA EntryAborts ==
  ASSUME IndInv, EntryInv, pc = "moving", NEW H, NEW code, RehashAborts(H, code),
         ~env.malloc_fails => Excused
  PROVE  EntryInv'
<1>0. pc \in Rehashing /\ pc # "setup"
  BY DEF Rehashing
<1>1. CASE Stop("stuck")
  BY <1>0, <1>1, EntryHangs
<1>2. CASE Stop("crashed")
  BY <1>0, <1>2, EntryCrashes
<1>3. CASE RehashReturns(code) /\ UNCHANGED <<env, set, h, it, other>>
  BY <1>0, <1>3, EntryReturns
<1> QED
  BY <1>1, <1>2, <1>3 DEF RehashAborts

(***************************************************************************)
(* The program's iterator of a table that changes.                         *)
(***************************************************************************)
LEMMA OutdatedSeen ==
  ASSUME SeenInv, UNCHANGED env, it' = Outdated(it), pc' # "setup"
  PROVE  SeenInv'
<1>0. JUNK # LOST
  BY HandleAssumption
<1>1. CASE it.on
  <2>1. /\ IsIterator(it') /\ it'.seen = NoIterator.seen /\ it'.clean = FALSE
        /\ it'.keys = [j \in DOMAIN it.keys |-> JUNK]
    BY <1>1 DEF SeenInv, Outdated, IsIterator
  <2>2. it'.seen \in [Key -> Nat]
    BY <2>1 DEF NoIterator
  <2>3. LOST \notin Range(it'.keys)
    BY <1>0, <2>1 DEF Range
  <2> QED
    BY <2>1, <2>2, <2>3 DEF SeenInv, IsIterator
<1>2. CASE ~it.on
  <2>1. it' = it
    BY <1>2 DEF Outdated
  <2> QED
    BY <1>2, <2>1 DEF SeenInv, IsIterator
<1> QED
  BY <1>1, <1>2

\* An insertion or a removal outside hi_rehash.
LEMMA EntryTable ==
  ASSUME IndInv, EntryInv, pc \in {"idle", "inserting"}, pc' \in {"idle", "inserting"}, UNCHANGED <<env, new>>,
         Same(h, h'), Unique(h'), Slots(h'), ~env.malloc_fails => ~FiniCrashes(h'),
         it' = Outdated(it) \/ (h' = h /\ it' = it)
  PROVE  EntryInv'
<1>1. LiveInv'
  BY DEF EntryInv, LiveInv, Same
<1>2. KeyInv'
  BY DEF EntryInv, KeyInv, Unique, Slots, IsArray
<1>3. SeenInv'
  <2>1. CASE it' = Outdated(it)
    BY <2>1, OutdatedSeen DEF EntryInv
  <2>2. CASE h' = h /\ it' = it
    BY <2>2 DEF EntryInv, SeenInv, IsIterator, Good, Accounted, ToTake, Due, BucketOf
  <2> QED
    BY <2>1, <2>2
<1>4. NewInv' /\ TakeInv' /\ DoneInv' /\ CrashesOnlyThere'
  BY DEF NewInv, TakeInv, DoneInv, CrashesOnlyThere, Rehashing
<1> QED
  BY <1>1, <1>2, <1>3, <1>4 DEF EntryInv

\* Nothing is lost that no failed allocation has lost.
LEMMA LostBroken ==
  ASSUME NEW H, Sound(H), ~FiniCrashes(H), H.table_size # 0, NEW k \in Key
  PROVE  ~Broken(H, k)
<1>1. BucketOf(H, k) \in DOMAIN H.bucket
  BY BucketOfType, HandleFields DEF Sound
<1> QED
  BY <1>1 DEF Broken, FiniCrashes

LEMMA InsertLost ==
  ASSUME NEW H, Sound(H), NEW k \in Key, ~Broken(H, k), env.threadsafe \in BOOLEAN, Slots(H),
         Unique(H), NEW o \in EngineInsert(H, k), ~env.malloc_fails, ~FiniCrashes(H)
  PROVE  ~FiniCrashes(o.h)
<1>1. CASE o.code = "SUCCESS"
  BY <1>1, InsertSound
<1>2. CASE o.code # "SUCCESS"
  BY <1>2, InsertCounts
<1> QED
  BY <1>1, <1>2

LEMMA EntryInsert == ASSUME IndInv, EntryInv, InsertEntry PROVE EntryInv'
<1>0. /\ Sound(h) /\ call.key \in Key /\ env.threadsafe \in BOOLEAN /\ pc = "inserting"
      /\ h.table_size # 0
  BY EntryTypes DEF IndInv, TypeInv, InsertEntry
<1>1. CASE h.locked
  BY <1>0, <1>1, EntryHangs DEF InsertEntry
<1>2. CASE ~h.locked /\ Broken(h, call.key)
  <2>1. Stop("crashed") /\ env.malloc_fails
    BY <1>0, <1>2, LostBroken, EntryTypes DEF InsertEntry, EntryInv, LiveInv
  <2> QED
    BY <1>0, <2>1, EntryCrashes
<1>3. CASE ~h.locked /\ ~Broken(h, call.key)
  <2>1. PICK o \in EngineInsert(h, call.key) :
          /\ h' = o.h /\ it' = (IF o.h = h THEN it ELSE Outdated(it))
          /\ pc' = "idle" /\ UNCHANGED <<env, set, rehash, other>>
    BY <1>3 DEF InsertEntry
  <2>2. Slots(h) /\ Unique(h) /\ (~env.malloc_fails => ~FiniCrashes(h))
    BY DEF EntryInv, KeyInv, LiveInv
  <2>3. Slots(o.h) /\ Unique(o.h)
    BY <1>0, <1>3, <2>2, InsertCounts
  <2>4. Same(h, o.h)
    BY <1>0, <1>3, InsertSound
  <2>5. ~env.malloc_fails => ~FiniCrashes(o.h)
    BY <1>0, <1>3, <2>2, InsertLost
  <2>6. UNCHANGED <<env, new>>
    BY <2>1 DEF rehash
  <2> QED
    BY <1>0, <2>1, <2>3, <2>4, <2>5, <2>6, EntryTable
<1> QED
  BY <1>1, <1>2, <1>3

LEMMA RemoveKeeps ==
  ASSUME NEW H, Sound(H), Slots(H), Unique(H), NEW k \in Key, TRUE \in FindsKey(H, k),
         H.coll_eng = "ARRAY" => ~Broken(H, k)
  PROVE  /\ Same(H, Removes(H, k)) /\ Slots(Removes(H, k)) /\ Unique(Removes(H, k))
         /\ ~FiniCrashes(H) => ~FiniCrashes(Removes(H, k))
<1>1. /\ Sound(Removes(H, k)) /\ Same(H, Removes(H, k))
      /\ ~FiniCrashes(H) => ~FiniCrashes(Removes(H, k))
  BY RemovesSound
<1>2. NoMore(H, Removes(H, k)) /\ Slots(Removes(H, k))
  BY RemovesNoMore
<1> QED
  BY <1>1, <1>2, UniqueFewer

LEMMA EntryRemove == ASSUME IndInv, EntryInv, hi_remove PROVE EntryInv'
<1>0. Sound(h) /\ h.table_size # 0 /\ pc = "idle"
  BY EntryTypes DEF hi_remove
<1>1. Slots(h) /\ Unique(h) /\ (~env.malloc_fails => ~FiniCrashes(h))
  BY DEF EntryInv, KeyInv, LiveInv
<1>2. PICK k \in Key :
        IF h.locked /\ h.coll_eng = "ARRAY" THEN Stop("stuck")
        ELSE IF h.coll_eng = "ARRAY" /\ Broken(h, k) THEN Stop("crashed")
        ELSE \E found \in FindsKey(h, k) :
            /\ h' = IF found THEN Removes(h, k) ELSE h
            /\ it' = IF found THEN Outdated(it) ELSE it
            /\ UNCHANGED <<env, set, pc, call, rehash, other>>
  BY DEF hi_remove
<1>3. CASE h.locked /\ h.coll_eng = "ARRAY"
  BY <1>0, <1>2, <1>3, EntryHangs
<1>4. CASE ~(h.locked /\ h.coll_eng = "ARRAY") /\ h.coll_eng = "ARRAY" /\ Broken(h, k)
  <2>1. Stop("crashed") /\ env.malloc_fails
    BY <1>0, <1>1, <1>2, <1>4, LostBroken, EntryTypes
  <2> QED
    BY <1>0, <2>1, EntryCrashes
<1>5. CASE ~(h.locked /\ h.coll_eng = "ARRAY") /\ ~(h.coll_eng = "ARRAY" /\ Broken(h, k))
  <2>1. PICK found \in FindsKey(h, k) :
          /\ h' = IF found THEN Removes(h, k) ELSE h
          /\ it' = IF found THEN Outdated(it) ELSE it
          /\ UNCHANGED <<env, set, pc, call, rehash, other>>
    BY <1>2, <1>5
  <2>2. UNCHANGED <<env, h, it, new>> \/ UNCHANGED <<env, new>>
    BY <2>1 DEF rehash
  <2>3. found \in BOOLEAN
    BY FoundBoolean
  <2>4. CASE found = TRUE
    <3>1. h' = Removes(h, k) /\ it' = Outdated(it) /\ pc' = pc /\ UNCHANGED <<env, new>>
      BY <2>1, <2>4 DEF rehash
    <3>2. /\ Same(h, Removes(h, k)) /\ Slots(Removes(h, k)) /\ Unique(Removes(h, k))
          /\ ~FiniCrashes(h) => ~FiniCrashes(Removes(h, k))
      BY <1>0, <1>1, <1>5, <2>4, RemoveKeeps
    <3> QED
      BY <1>0, <1>1, <3>1, <3>2, EntryTable
  <2>5. CASE found = FALSE
    <3>1. UNCHANGED <<env, h, it, pc, new>>
      BY <2>1, <2>5 DEF rehash
    <3> QED
      BY <1>0, <3>1, EntryOutside
  <2> QED
    BY <2>3, <2>4, <2>5
<1> QED
  BY <1>2, <1>3, <1>4, <1>5

(***************************************************************************)
(* The program's iterator.                                                 *)
(***************************************************************************)
LEMMA EntryIterates ==
  ASSUME EntryInv, pc = "idle", UNCHANGED <<env, h, pc, new>>,
         IsIterator(it'), it'.seen \in [Key -> Nat], ~env.malloc_fails => LOST \notin Range(it'.keys),
         it'.on /\ it'.clean /\ Good(it') => Accounted(h, it', it'.seen)
  PROVE  EntryInv'
<1>1. LiveInv'
  BY DEF EntryInv, LiveInv, FiniCrashes
<1>2. KeyInv'
  BY DEF EntryInv, KeyInv, Unique, Slots, IsArray
<1>3. SeenInv'
  BY DEF EntryInv, SeenInv, IsIterator, Good, Accounted, ToTake, Due, BucketOf
<1>4. NewInv' /\ TakeInv' /\ DoneInv' /\ CrashesOnlyThere'
  BY DEF NewInv, TakeInv, DoneInv, CrashesOnlyThere, Rehashing
<1> QED
  BY <1>1, <1>2, <1>3, <1>4 DEF EntryInv

LEMMA EntryOutdated ==
  ASSUME EntryInv, pc = "idle", UNCHANGED <<env, h, pc, new>>, NEW i, it' = Outdated(i),
         IsIterator(i), i.seen \in [Key -> Nat], i.on, ~env.malloc_fails => LOST \notin Range(i.keys)
  PROVE  EntryInv'
<1>0. JUNK # LOST
  BY HandleAssumption
<1>1. /\ IsIterator(it') /\ it'.seen = NoIterator.seen /\ it'.clean = FALSE
      /\ it'.keys = [j \in DOMAIN i.keys |-> JUNK]
  BY DEF Outdated, IsIterator
<1>2. it'.seen \in [Key -> Nat]
  BY <1>1 DEF NoIterator
<1>3. LOST \notin Range(it'.keys)
  BY <1>0, <1>1 DEF Range
<1> QED
  BY <1>1, <1>2, <1>3, EntryIterates

LEMMA EmptyRange == ASSUME NEW v PROVE v \notin Range(<<>>)
  BY DEF Range

\* An array copied holds what a failed realloc has lost only where one has.
LEMMA WalkSafe ==
  ASSUME IndInv, EntryInv, pc # "setup", NEW i, IsIterator(i), NEW r \in GetNextBucket(h, i),
         WalkCrashes(h, r)
  PROVE  env.malloc_fails
<1>1. Sound(h) /\ h.table_size # 0 /\ env.malloc_fails \in BOOLEAN /\ (~env.malloc_fails => ~FiniCrashes(h))
  BY EntryTypes DEF EntryInv, LiveInv
<1>2. r.code = "SUCCESS" /\ (r.it.keys = <<>> \/ LOST \in Range(r.it.keys))
  BY DEF WalkCrashes
<1>3. r.it.keys # <<>> /\ (LOST \in Range(r.it.keys) => FiniCrashes(h))
  BY <1>1, <1>2, NextFound
<1> QED
  BY <1>1, <1>2, <1>3

LEMMA EntryCreateIt == ASSUME IndInv, EntryInv, hi_iterator_create PROVE EntryInv'
<1>0. /\ Sound(h) /\ h.table_size # 0 /\ pc = "idle" /\ ~it.on
      /\ (~env.malloc_fails => ~FiniCrashes(h))
  BY EntryTypes DEF hi_iterator_create, EntryInv, LiveInv
<1>1. CASE Stop("stuck")
  BY <1>0, <1>1, EntryHangs
<1>2. ASSUME NEW r \in GetNextBucket(h, NoIterator), WalkCrashes(h, r), Stop("crashed")
      PROVE  EntryInv'
  <2>1. env.malloc_fails
    BY <1>0, <1>2, NoIteratorIs, WalkSafe
  <2> QED
    BY <1>0, <1>2, <2>1, EntryCrashes
<1>3. ASSUME NEW r \in GetNextBucket(h, NoIterator),
             it' = (IF r.code = "SUCCESS" THEN [r.it EXCEPT !.on = TRUE, !.clean = TRUE] ELSE it),
             UNCHANGED <<env, set, h, pc, call, rehash, other>>
      PROVE  EntryInv'
  <2>0. UNCHANGED <<env, h, pc, new>>
    BY <1>3 DEF rehash
  <2>1. CASE r.code # "SUCCESS"
    BY <1>0, <1>3, <2>0, <2>1, EntryOutside
  <2>2. CASE r.code = "SUCCESS"
    <3>1. /\ IsIterator(r.it) /\ r.it.seen = NoIterator.seen
          /\ LOST \in Range(r.it.keys) => FiniCrashes(h)
      BY <1>0, <2>2, NoIteratorIs, NextFound
    <3>2. /\ it'.on = TRUE /\ it'.clean = TRUE /\ it'.seen = NoIterator.seen /\ IsIterator(it')
          /\ it'.bucket = r.it.bucket /\ it'.keys = r.it.keys /\ it'.nmemb = r.it.nmemb
      BY <1>3, <2>2, <3>1 DEF IsIterator
    <3>3. NoIterator.seen \in [Key -> Nat] /\ NoIterator.bucket = 0
      BY DEF NoIterator
    <3>4. \A k \in Key : NoIterator.seen[k] = Given(h, NoIterator.bucket, k)
      <4>1. ASSUME NEW k \in Key PROVE ~(BucketOf(h, k) < 0)
        BY <1>0, CountHome
      <4> QED
        BY <3>3, <4>1 DEF NoIterator, Given
    <3>5. Good(r.it) => Accounted(h, r.it, NoIterator.seen)
      BY <1>0, <2>2, <3>4, NoIteratorIs, NextAccounted
    <3>6. Good(it') => Accounted(h, it', it'.seen)
      BY <3>2, <3>5 DEF Good, Accounted, ToTake
    <3> QED
      BY <1>0, <2>0, <3>1, <3>2, <3>3, <3>6, EntryIterates
  <2> QED
    BY <2>1, <2>2
<1>4. CASE UNCHANGED <<env, set, h, it, pc, call, rehash, other>>
  <2>1. UNCHANGED <<env, h, it, pc, new>>
    BY <1>4 DEF rehash
  <2> QED
    BY <1>0, <2>1, EntryOutside
<1> QED
  BY <1>1, <1>2, <1>3, <1>4 DEF hi_iterator_create

LEMMA EntryGetNext == ASSUME IndInv, EntryInv, hi_iterator_getnext PROVE EntryInv'
<1>0. /\ Sound(h) /\ h.table_size # 0 /\ pc = "idle" /\ it.on /\ env.malloc_fails \in BOOLEAN
      /\ IsIterator(it) /\ it.seen \in [Key -> Nat]
      /\ (~env.malloc_fails => ~FiniCrashes(h) /\ LOST \notin Range(it.keys))
      /\ (it.clean /\ Good(it) => Accounted(h, it, it.seen))
  BY EntryTypes DEF hi_iterator_getnext, EntryInv, LiveInv, SeenInv
<1>1. CASE Stop("stuck")
  BY <1>0, <1>1, EntryHangs
<1>2. ASSUME NEW r \in NextEntries(h, it), WalkCrashes(h, r), Stop("crashed")
      PROVE  EntryInv'
  <2>1. r.code = "SUCCESS" /\ (r.it.keys = <<>> \/ LOST \in Range(r.it.keys))
    BY <1>2 DEF WalkCrashes
  <2>2. \/ it.nmemb > 0 /\ r.it = it
        \/ r.it.keys # <<>> /\ (LOST \in Range(r.it.keys) => FiniCrashes(h))
    BY <1>0, <2>1, EntriesFound
  <2>3. ~env.malloc_fails => it.on /\ it.keys = <<>> /\ it.nmemb > 0
    BY <1>0, <2>1, <2>2
  <2> QED
    BY <1>0, <1>2, <2>3, EntryCrashes
<1>3. ASSUME NEW r \in NextEntries(h, it), ~WalkCrashes(h, r),
             it' = IF r.code # "SUCCESS" THEN Failing(r.code, r.it)
                   ELSE IF r.it.clean /\ r.it.keys[r.it.nmemb] \in Key
                     THEN [Taken(r.it) EXCEPT !.seen[r.it.keys[r.it.nmemb]] = @ + 1]
                   ELSE Outdated(Taken(r.it)),
             UNCHANGED <<env, set, h, pc, call, rehash, other>>
      PROVE  EntryInv'
  <2>0. UNCHANGED <<env, h, pc, new>>
    BY <1>3 DEF rehash
  <2>1. CASE r.code = "NODATA"
    <3>1. it' = r.it
      BY <1>3, <2>1 DEF Failing
    <3>2. /\ IsIterator(r.it) /\ it.nmemb = 0 /\ r.it.keys = <<>>
          /\ r.it.clean = it.clean /\ r.it.seen = it.seen
      BY <1>0, <2>1, EntriesEnd
    <3>3. Good(it)
      BY <3>2 DEF Good
    <3>4. it.clean => Accounted(h, r.it, it.seen)
      BY <1>0, <2>1, <3>3, EndAccounted
    <3>5. LOST \notin Range(r.it.keys)
      BY <3>2, EmptyRange
    <3> QED
      BY <1>0, <2>0, <3>1, <3>2, <3>4, <3>5, EntryIterates
  <2>2. CASE r.code = "SYSTEM"
    <3>1. it' = Outdated(r.it)
      BY <1>3, <2>2 DEF Failing
    <3> DEFINE j == [Freed(it) EXCEPT !.bucket = @ + 1]
    <3>2. r \in GetNextBucket(h, j)
      BY <2>2 DEF NextEntries
    <3>3. IsIterator(j) /\ j.on = it.on /\ j.seen = it.seen /\ j.keys = <<>>
      BY <1>0, Advanced
    <3> HIDE DEF j
    <3>4. PICK b \in Nat : r.it = [j EXCEPT !.bucket = b]
      BY <1>0, <2>2, <3>2, <3>3, NextFails
    <3>5. IsIterator(r.it) /\ r.it.on = it.on /\ r.it.seen = it.seen /\ r.it.keys = <<>>
      BY <3>3, <3>4 DEF IsIterator
    <3>6. LOST \notin Range(r.it.keys)
      BY <3>5, EmptyRange
    <3> QED
      BY <1>0, <2>0, <3>1, <3>5, <3>6, EntryOutdated
  <2>3. CASE r.code = "SUCCESS"
    <3> DEFINE k == r.it.keys[r.it.nmemb]
               i == Taken(r.it)
    <3>1. /\ IsIterator(r.it) /\ r.it.nmemb > 0
          /\ r.it.on = it.on /\ r.it.clean = it.clean /\ r.it.seen = it.seen
      BY <1>0, <2>3, EntriesFound
    <3>2. r.it.keys # <<>> /\ LOST \notin Range(r.it.keys)
      BY <1>3, <2>3, <3>1 DEF WalkCrashes
    <3>3. /\ IsIterator(i) /\ i.on = it.on /\ i.clean = it.clean /\ i.seen = it.seen
          /\ i.keys = r.it.keys /\ i.nmemb = r.it.nmemb - 1 /\ i.bucket = r.it.bucket
      BY <3>1 DEF Taken, IsIterator
    <3> HIDE DEF i, k
    <3>4. CASE r.it.clean /\ k \in Key
      <4>1. it' = [i EXCEPT !.seen[k] = @ + 1]
        BY <1>3, <2>3, <3>4 DEF i, k
      <4>2. /\ IsIterator(it') /\ it'.on = i.on /\ it'.clean = i.clean /\ it'.keys = i.keys
            /\ it'.nmemb = i.nmemb /\ it'.bucket = i.bucket
            /\ it'.seen = [it.seen EXCEPT ![k] = @ + 1]
        BY <3>3, <4>1 DEF IsIterator
      <4>3. it'.seen \in [Key -> Nat]
        BY <1>0, <3>4, <4>2
      <4>4. ASSUME Good(it') PROVE Accounted(h, it', it'.seen)
        <5>1. Good(i)
          BY <4>2, <4>4 DEF Good
        <5>2. Good(r.it)
          BY <3>1, <3>2, <3>4, <5>1, TakenGood DEF i, k
        <5>3. Accounted(h, r.it, it.seen)
          BY <1>0, <2>3, <3>1, <3>4, <5>2, EntriesAccounted
        <5>4. \A x \in Key : it.seen[x] \in Nat /\
                it'.seen[x] = it.seen[x] + IF x = r.it.keys[r.it.nmemb] THEN 1 ELSE 0
          BY <1>0, <3>4, <4>2 DEF k
        <5>5. Accounted(h, i, it'.seen)
          BY <3>1, <5>3, <5>4, TakenAccounted DEF i
        <5> QED
          BY <4>2, <5>5 DEF Accounted, ToTake
      <4> QED
        BY <1>0, <2>0, <3>2, <3>3, <4>2, <4>3, <4>4, EntryIterates
    <3>5. CASE ~(r.it.clean /\ k \in Key)
      <4>1. it' = Outdated(i)
        BY <1>3, <2>3, <3>5 DEF i, k
      <4> QED
        BY <1>0, <2>0, <3>2, <3>3, <4>1, EntryOutdated
    <3> QED
      BY <3>4, <3>5
  <2> QED
    BY <2>1, <2>2, <2>3, EntriesCodes
<1> QED
  BY <1>1, <1>2, <1>3 DEF hi_iterator_getnext

LEMMA EntryReset == ASSUME IndInv, EntryInv, hi_iterator_reset PROVE EntryInv'
<1> DEFINE w == Rewound(it)
<1>0. /\ Sound(h) /\ h.table_size # 0 /\ pc = "idle" /\ it.on /\ env.malloc_fails \in BOOLEAN
      /\ IsIterator(it) /\ (~env.malloc_fails => ~FiniCrashes(h))
  BY EntryTypes DEF hi_iterator_reset, EntryInv, LiveInv, SeenInv
<1>1. /\ IsIterator(w) /\ w.on = it.on /\ w.bucket = 0 /\ w.seen = NoIterator.seen
      /\ w.keys = <<>>
  BY <1>0 DEF Rewound, Freed, IsIterator
<1>2. w.seen \in [Key -> Nat]
  BY <1>1 DEF NoIterator
<1> HIDE DEF w
<1>3. \A k \in Key : w.seen[k] = Given(h, w.bucket, k)
  <2>1. ASSUME NEW k \in Key PROVE ~(BucketOf(h, k) < 0)
    BY <1>0, CountHome
  <2> QED
    BY <1>1, <2>1 DEF NoIterator, Given
<1>4. CASE Stop("stuck")
  BY <1>0, <1>4, EntryHangs
<1>5. ASSUME NEW r \in GetNextBucket(h, w), WalkCrashes(h, r), Stop("crashed")
      PROVE  EntryInv'
  <2>1. env.malloc_fails
    BY <1>0, <1>1, <1>5, WalkSafe
  <2> QED
    BY <1>0, <1>5, <2>1, EntryCrashes
<1>6. ASSUME NEW r \in GetNextBucket(h, w), it' = Failing(r.code, r.it),
             UNCHANGED <<env, set, h, pc, call, rehash, other>>
      PROVE  EntryInv'
  <2>0. UNCHANGED <<env, h, pc, new>>
    BY <1>6 DEF rehash
  <2>1. CASE r.code = "NODATA"
    <3>1. it' = r.it
      BY <1>6, <2>1 DEF Failing
    <3>2. /\ IsIterator(r.it) /\ r.it.keys = <<>> /\ r.it.seen = w.seen /\ r.it.nmemb = w.nmemb
      BY <1>0, <1>1, <2>1, NextEmpty
    <3>3. Good(r.it) => Accounted(h, r.it, w.seen)
      <4>1. Good(r.it) => w.nmemb = 0
        BY <1>1, <3>2 DEF Good, IsIterator
      <4> QED
        BY <1>0, <1>1, <1>3, <2>1, <4>1, NextAccounted
    <3>4. LOST \notin Range(r.it.keys)
      BY <3>2, EmptyRange
    <3> QED
      BY <1>0, <1>2, <2>0, <3>1, <3>2, <3>3, <3>4, EntryIterates
  <2>2. CASE r.code = "SYSTEM"
    <3>1. it' = Outdated(r.it)
      BY <1>6, <2>2 DEF Failing
    <3>2. PICK b \in Nat : r.it = [w EXCEPT !.bucket = b]
      BY <1>0, <1>1, <2>2, NextFails
    <3>3. IsIterator(r.it) /\ r.it.on = it.on /\ r.it.seen = w.seen /\ r.it.keys = <<>>
      BY <1>1, <3>2 DEF IsIterator
    <3>4. LOST \notin Range(r.it.keys)
      BY <3>3, EmptyRange
    <3> QED
      BY <1>0, <1>2, <2>0, <3>1, <3>3, <3>4, EntryOutdated
  <2>3. CASE r.code = "SUCCESS"
    <3>1. it' = r.it
      BY <1>6, <2>3 DEF Failing
    <3>2. /\ IsIterator(r.it) /\ r.it.seen = w.seen
          /\ LOST \in Range(r.it.keys) => FiniCrashes(h)
      BY <1>0, <1>1, <2>3, NextFound
    <3>3. Good(r.it) => Accounted(h, r.it, w.seen)
      BY <1>0, <1>1, <1>3, <2>3, NextAccounted
    <3> QED
      BY <1>0, <1>2, <2>0, <3>1, <3>2, <3>3, EntryIterates
  <2> QED
    BY <2>1, <2>2, <2>3, NextCodes
<1> QED
  BY <1>4, <1>5, <1>6 DEF hi_iterator_reset, w

LEMMA EntryFinishIt == ASSUME IndInv, EntryInv, hi_iterator_fini PROVE EntryInv'
<1>1. /\ pc = "idle" /\ it' = NoIterator /\ UNCHANGED <<env, h, pc, new>>
  BY DEF hi_iterator_fini, rehash
<1>2. NoIterator.seen \in [Key -> Nat] /\ NoIterator.keys = <<>> /\ ~NoIterator.on
  BY DEF NoIterator
<1>3. LOST \notin Range(NoIterator.keys)
  BY <1>2, EmptyRange
<1> QED
  BY <1>1, <1>2, <1>3, NoIteratorIs, EntryIterates

(***************************************************************************)
(* hi_rehash.                                                              *)
(***************************************************************************)
LEMMA EntryBegin ==
  ASSUME IndInv, EntryInv, pc = "idle", NEW k, NEW n \in Nat, RehashBegins(k, n)
  PROVE  EntryInv'
<1>0. /\ Sound(h) /\ h.table_size # 0 /\ h.table_size \in Nat /\ pc # "setup"
      /\ env.malloc_fails \in BOOLEAN
      /\ (~env.malloc_fails => ~FiniCrashes(h)) /\ Slots(h)
      /\ \A x \in Key : CountOf(h, x) \in Nat
  BY EntryTypes DEF EntryInv, LiveInv, KeyInv
<1>1. CASE Stop("stuck")
  BY <1>0, <1>1, EntryHangs
<1>2. ASSUME NEW r \in GetNextBucket(h, NoIterator), WalkCrashes(h, r), Stop("crashed")
      PROVE  EntryInv'
  <2>1. env.malloc_fails
    BY <1>0, <1>2, NoIteratorIs, WalkSafe
  <2> QED
    BY <1>0, <1>2, <2>1, EntryCrashes
<1>3. ASSUME NEW r \in GetNextBucket(h, NoIterator), r.code = "SUCCESS",
             new' = ForRehash(h, n), walk' = r.it, disturbed' = FALSE,
             call' = [key |-> k, target |-> n, was |-> Contents(h)], pc' = "moving",
             UNCHANGED <<env, h, it>>
      PROVE  EntryInv'
  <2>1. NoIterator.bucket = 0 /\ NoIterator.nmemb = 0
    BY DEF NoIterator
  <2>2. /\ IsIterator(r.it) /\ r.it.nmemb > 0 /\ r.it.keys # <<>>
        /\ r.it.bucket \in 0 .. h.table_size - 1
        /\ LOST \in Range(r.it.keys) => FiniCrashes(h)
        /\ h.bucket[r.it.bucket] # <<>>
        /\ Good(r.it) \/ HasHole(h) \/ FiniCrashes(h)
    BY <1>0, <1>3, <2>1, NoIteratorIs, NextFound
  <2> DEFINE s == [h EXCEPT !.table_size = n, !.rehash_auto = FALSE]
  <2>3. /\ s.coll_eng = h.coll_eng /\ s.table_size = n /\ s.rehash_auto = FALSE
        /\ s.coll_eng_array_size = h.coll_eng_array_size
        /\ h.coll_eng \in Engine \cup {NoEngine} /\ h.coll_eng_array_size \in Nat
    <3>1. PICK e \in Engine \cup {NoEngine}, m \in Nat : h \in Shape(e, m)
      BY <1>0 DEF Sound, IsHandle
    <3> QED
      BY <3>1 DEF Shape
  <2>4. new' = NewHandle(s)
    BY <1>3 DEF ForRehash
  <2> HIDE DEF s
  <2>5. /\ \A x \in Key : CountOf(new', x) = 0
        /\ Slots(new') /\ Unique(new')
    BY <2>3, <2>4, NewCounts
  <2>6. /\ new'.table_size = n /\ new'.coll_eng = h.coll_eng
        /\ new'.coll_eng_array_size = h.coll_eng_array_size
    BY <2>3, <2>4 DEF NewHandle
  <2>7. LiveInv' /\ KeyInv' /\ SeenInv'
    <3>1. LiveInv'
      BY <1>0, <1>3 DEF EntryInv, LiveInv
    <3>2. KeyInv'
      BY <1>3, <2>5 DEF EntryInv, KeyInv
    <3>3. SeenInv'
      BY <1>3 DEF EntryInv, SeenInv
    <3> QED
      BY <3>1, <3>2, <3>3
  <2>8. NewInv'
    <3>1. IsArray(new') => h.coll_eng_array_size # 0
      BY <1>0, <2>2, <2>6 DEF IsArray, Slots
    <3> QED
      BY <1>3, <2>6, <3>1 DEF NewInv
  <2>9. TakeInv'
    <3>1. ASSUME Good(r.it) PROVE Accounted(h, r.it, Counts(new'))
      <4>1. \A x \in Key : Counts(new')[x] = Given(h, NoIterator.bucket, x)
        <5>1. ASSUME NEW x \in Key PROVE ~(BucketOf(h, x) < 0)
          BY <1>0, CountHome
        <5> QED
          BY <2>1, <2>5, <5>1 DEF Counts, Given
      <4> QED
        BY <1>0, <1>3, <3>1, <4>1, NoIteratorIs, NextAccounted
    <3>2. ASSUME Good(r.it) PROVE Reached(h, r.it, Contents(h), Contents(new'))
      <4>1. \A x \in Contents(h) \cap Contents(h) :
               x \in Contents(new') \/ BucketOf(h, x) >= NoIterator.bucket
        <5>1. ASSUME NEW x \in Key PROVE BucketOf(h, x) >= 0
          BY <1>0, CountHome
        <5> QED
          BY <2>1, <5>1 DEF Contents
      <4> QED
        BY <1>0, <1>3, <3>2, <4>1, NoIteratorIs, NextReached
    <3>3. ~env.malloc_fails =>
             LOST \notin Range(r.it.keys) /\ (Good(r.it) \/ HasHole(h) \/ disturbed')
      BY <1>0, <2>2
    <3> QED
      BY <1>3, <2>2, <3>1, <3>2, <3>3 DEF TakeInv
  <2>10. DoneInv' /\ CrashesOnlyThere'
    BY <1>3 DEF DoneInv, CrashesOnlyThere
  <2> QED
    BY <2>7, <2>8, <2>9, <2>10 DEF EntryInv
<1>4. ASSUME NEW code, RehashReturns(code), UNCHANGED <<env, h, it>>
      PROVE  EntryInv'
  BY <1>0, <1>4, EntryReturns
<1>5. ASSUME NEW r \in GetNextBucket(h, NoIterator),
             IF WalkHangs(h) THEN Stop("stuck")
             ELSE IF WalkCrashes(h, r) THEN Stop("crashed")
             ELSE IF r.code = "SUCCESS"
               THEN /\ new' = ForRehash(h, n) /\ walk' = r.it /\ disturbed' = FALSE /\ overtaken' = FALSE
                    /\ call' = [key |-> k, target |-> n, was |-> Contents(h)] /\ pc' = "moving"
                    /\ UNCHANGED <<env, set, h, it, failed, other>>
             ELSE /\ call' = [NoCall EXCEPT !.key = k] /\ RehashReturns(r.code)
                  /\ UNCHANGED <<env, set, h, it, other>>
      PROVE  EntryInv'
  BY <1>1, <1>2, <1>3, <1>4, <1>5
<1>6. \/ \E r \in GetNextBucket(h, NoIterator) :
             IF WalkHangs(h) THEN Stop("stuck")
             ELSE IF WalkCrashes(h, r) THEN Stop("crashed")
             ELSE IF r.code = "SUCCESS"
               THEN /\ new' = ForRehash(h, n) /\ walk' = r.it /\ disturbed' = FALSE /\ overtaken' = FALSE
                    /\ call' = [key |-> k, target |-> n, was |-> Contents(h)] /\ pc' = "moving"
                    /\ UNCHANGED <<env, set, h, it, failed, other>>
             ELSE /\ call' = [NoCall EXCEPT !.key = k] /\ RehashReturns(r.code)
                  /\ UNCHANGED <<env, set, h, it, other>>
      \/ RehashReturns("SYSTEM") /\ UNCHANGED <<env, set, h, it, other>>
  BY Zenon DEF RehashBegins
<1> QED
  BY <1>4, <1>5, <1>6

\* The moves of hi_rehash once more, with why an insertion has failed.
LEMMA MoveCases ==
  ASSUME RehashMove
  PROVE  \/ Stop("stuck")
         \/ \E r \in NextEntries(h, walk) :
              \/ WalkCrashes(h, r) /\ Stop("crashed")
              \/ r.code = "NODATA" /\ pc' = "freeing" /\ UNCHANGED <<env, h, it, call, new, disturbed, overtaken>>
              \/ r.code = "SYSTEM" /\ RehashReturns("SYSTEM") /\ UNCHANGED <<env, h, it>>
              \/ /\ r.code = "SUCCESS" /\ ~WalkCrashes(h, r)
                 /\ \/ /\ r.it.keys[r.it.nmemb] \notin Contents(h) \/ new.table_size = 0
                       /\ Stop("crashed")
                    \/ /\ r.it.keys[r.it.nmemb] \in Key /\ new.table_size # 0
                       /\ \/ /\ new.coll_eng \in ListEngine
                             /\ TRUE \in FindsKey(new, r.it.keys[r.it.nmemb])
                             /\ RehashAborts(new, "DUPKEY")
                          \/ \E o \in EngineInsert(new, r.it.keys[r.it.nmemb]) :
                               IF o.code # "SUCCESS" THEN RehashAborts(o.h, o.code)
                               ELSE /\ new' = o.h /\ walk' = Taken(r.it)
                                    /\ UNCHANGED <<env, h, it, pc, call, disturbed, overtaken>>
<1>1. CASE WalkHangs(h) /\ walk.nmemb = 0
  BY <1>1 DEF RehashMove
<1>2. CASE ~(WalkHangs(h) /\ walk.nmemb = 0)
  <2>1. PICK r \in NextEntries(h, walk) :
          LET k == r.it.keys[r.it.nmemb] IN
          IF WalkCrashes(h, r) THEN Stop("crashed")
          ELSE CASE r.code = "NODATA" ->
                      /\ pc' = "freeing" /\ walk' = NoIterator
                      /\ UNCHANGED <<env, set, h, it, call, new, disturbed, overtaken, failed, other>>
                 [] r.code = "SYSTEM" ->
                      /\ call' = [NoCall EXCEPT !.key = call.key] /\ RehashReturns("SYSTEM")
                      /\ UNCHANGED <<env, set, h, it, other>>
                 [] r.code = "SUCCESS" /\ (k \notin Key \/ new.table_size = 0) ->
                      Stop("crashed")
                 [] OTHER ->
                      \/ k \notin Contents(h) /\ Stop("crashed")
                      \/ /\ new.coll_eng \in ListEngine /\ TRUE \in FindsKey(new, k)
                         /\ RehashAborts(new, "DUPKEY")
                      \/ /\ new.coll_eng \in ListEngine => FALSE \in FindsKey(new, k)
                         /\ \E o \in EngineInsert(new, k) :
                              IF o.code # "SUCCESS" THEN RehashAborts(o.h, o.code)
                              ELSE /\ new' = o.h /\ walk' = Taken(r.it)
                                   /\ UNCHANGED <<env, set, h, it, pc, call,
                                                  disturbed, overtaken, failed, other>>
    BY <1>2 DEF RehashMove
  <2> DEFINE k == r.it.keys[r.it.nmemb]
  <2>2. r.code \in {"NODATA", "SYSTEM", "SUCCESS"}
    BY EntriesCodes
  <2> HIDE DEF k
  <2>3. CASE WalkCrashes(h, r)
    BY <2>1, <2>3
  <2>4. CASE ~WalkCrashes(h, r) /\ r.code = "NODATA"
    BY <2>1, <2>4
  <2>5. CASE ~WalkCrashes(h, r) /\ r.code = "SYSTEM"
    BY <2>1, <2>5
  <2>6. CASE /\ ~WalkCrashes(h, r) /\ r.code = "SUCCESS"
             /\ (k \notin Key \/ new.table_size = 0)
    <3>1. Stop("crashed")
      BY <2>1, <2>6 DEF k
    <3>2. k \notin Contents(h) \/ new.table_size = 0
      BY <2>6 DEF Contents
    <3> QED
      BY <2>6, <3>1, <3>2 DEF k
  <2>7. CASE /\ ~WalkCrashes(h, r) /\ r.code = "SUCCESS"
             /\ k \in Key /\ new.table_size # 0
    <3>1. \/ k \notin Contents(h) /\ Stop("crashed")
          \/ /\ new.coll_eng \in ListEngine /\ TRUE \in FindsKey(new, k)
             /\ RehashAborts(new, "DUPKEY")
          \/ \E o \in EngineInsert(new, k) :
               IF o.code # "SUCCESS" THEN RehashAborts(o.h, o.code)
               ELSE /\ new' = o.h /\ walk' = Taken(r.it)
                    /\ UNCHANGED <<env, set, h, it, pc, call, disturbed, overtaken, failed, other>>
      BY <2>1, <2>7 DEF k
    <3>2. \/ k \notin Contents(h) /\ Stop("crashed")
          \/ /\ new.coll_eng \in ListEngine /\ TRUE \in FindsKey(new, k)
             /\ RehashAborts(new, "DUPKEY")
          \/ \E o \in EngineInsert(new, k) :
               IF o.code # "SUCCESS" THEN RehashAborts(o.h, o.code)
               ELSE /\ new' = o.h /\ walk' = Taken(r.it)
                    /\ UNCHANGED <<env, h, it, pc, call, disturbed, overtaken>>
      BY <3>1
    <3> QED
      BY <2>7, <3>2 DEF k
  <2> QED
    BY <2>2, <2>3, <2>4, <2>5, <2>6, <2>7
<1> QED
  BY <1>1, <1>2

LEMMA GoodTaken ==
  ASSUME NEW i, IsIterator(i), i.nmemb > 0
  PROVE  /\ IsIterator(Taken(i)) /\ Taken(i).keys = i.keys /\ Taken(i).nmemb = i.nmemb - 1
         /\ Good(i) => Good(Taken(i))
<1>1. /\ IsIterator(Taken(i)) /\ Taken(i).keys = i.keys /\ Taken(i).nmemb = i.nmemb - 1
      /\ i.nmemb \in Nat
  BY DEF Taken, IsIterator
<1>2. 1 .. i.nmemb - 1 \subseteq 1 .. i.nmemb
  BY <1>1
<1> QED
  BY <1>1, <1>2 DEF Good

\* An undisturbed rehash of a table without holes takes only what the new table lacks.
LEMMA MoveTakes ==
  ASSUME IndInv, WalkInv, EntryInv, pc = "moving", NEW r \in NextEntries(h, walk),
         r.code = "SUCCESS", ~env.malloc_fails, ~HasHole(h), ~disturbed,
         NEW k, k = r.it.keys[r.it.nmemb]
  PROVE  k \in Contents(h) /\ CountOf(new, k) < CountOf(h, k) /\ CountOf(new, k) \in Nat
<1>0. /\ Sound(h) /\ h.table_size # 0 /\ IsIterator(walk) /\ Counts(new) \in [Key -> Nat]
      /\ ~FiniCrashes(h)
  BY EntryTypes DEF WalkInv, EntryInv, LiveInv
<1>1. Good(walk) /\ Accounted(h, walk, Counts(new))
  BY DEF EntryInv, TakeInv
<1>2. IsIterator(r.it) /\ r.it.nmemb > 0 /\ Good(r.it)
  BY <1>0, <1>1, EntriesFound
<1>3. Accounted(h, r.it, Counts(new))
  BY <1>0, <1>1, <1>2, EntriesAccounted
<1>4. k \in Key
  <2>1. r.it.nmemb \in 1 .. r.it.nmemb
    BY <1>2 DEF IsIterator
  <2> QED
    BY <1>2, <2>1 DEF Good
<1>5. Counts(new)[k] < CountOf(h, k)
  BY <1>0, <1>2, <1>3, <1>4, AccountedMore
<1>6. Counts(new)[k] = CountOf(new, k) /\ CountOf(new, k) \in Nat /\ CountOf(h, k) \in Nat
  BY <1>4, EntryTypes DEF Counts
<1> QED
  BY <1>4, <1>5, <1>6 DEF Contents

LEMMA EntryMoved ==
  ASSUME IndInv, WalkInv, EntryInv, pc = "moving", NEW r \in NextEntries(h, walk),
         r.code = "SUCCESS", ~WalkCrashes(h, r), NEW k \in Key, k = r.it.keys[r.it.nmemb],
         new.table_size # 0, NEW o \in EngineInsert(new, k), o.code = "SUCCESS",
         new' = o.h, walk' = Taken(r.it), UNCHANGED <<env, h, it, pc, call, disturbed, overtaken>>
  PROVE  EntryInv'
<1>0. /\ Sound(h) /\ h.table_size # 0 /\ IsIterator(walk) /\ Counts(new) \in [Key -> Nat]
      /\ Sound(new) /\ ~FiniCrashes(new) /\ env.threadsafe \in BOOLEAN
      /\ (~env.malloc_fails => ~FiniCrashes(h)) /\ Slots(new) /\ Unique(new)
      /\ \A x \in Key : CountOf(new, x) \in Nat
  BY EntryTypes DEF WalkInv, EntryInv, LiveInv, KeyInv, IndInv, TableInv
<1>1. ~Broken(new, k)
  BY <1>0, LostBroken
<1>2. Slots(new') /\ Unique(new') /\ Added(new, new', k)
  BY <1>0, <1>1, InsertCounts
<1>3. Same(new, new')
  BY <1>0, <1>1, InsertSound
<1>4. LiveInv' /\ KeyInv' /\ SeenInv' /\ DoneInv' /\ CrashesOnlyThere'
  BY <1>2 DEF EntryInv, LiveInv, KeyInv, SeenInv, DoneInv, CrashesOnlyThere
<1>5. NewInv'
  BY <1>3 DEF EntryInv, NewInv, Same, IsArray
<1>6. /\ IsIterator(r.it) /\ r.it.nmemb > 0 /\ r.it.keys # <<>> /\ LOST \notin Range(r.it.keys)
      /\ r.it = walk \/ Good(r.it) \/ HasHole(h) \/ FiniCrashes(h)
  BY <1>0, EntriesFound DEF WalkCrashes
<1>7. /\ IsIterator(walk') /\ walk'.keys = r.it.keys /\ walk'.nmemb = r.it.nmemb - 1
      /\ Good(r.it) => Good(walk')
  BY <1>6, GoodTaken
<1>8. ~env.malloc_fails => Good(walk') \/ HasHole(h) \/ disturbed
  BY <1>0, <1>6, <1>7 DEF EntryInv, TakeInv
<1>9. ASSUME Good(walk')
      PROVE  /\ ~disturbed => Accounted(h, walk', Counts(new'))
             /\ ~overtaken => Reached(h, walk', call.was, Contents(new'))
  <2>1. Good(r.it)
    BY <1>6, <1>9, TakenGood
  <2>2. ASSUME ~disturbed PROVE Accounted(h, walk', Counts(new'))
    <3>1. Accounted(h, r.it, Counts(new))
      BY <1>0, <2>1, <2>2, EntriesAccounted DEF EntryInv, TakeInv
    <3>2. /\ \A x \in Key : Counts(new)[x] \in Nat
          /\ \A x \in Key : Counts(new')[x] =
                               Counts(new)[x] + IF x = r.it.keys[r.it.nmemb] THEN 1 ELSE 0
      BY <1>0, <1>2 DEF Counts, Added
    <3> QED
      BY <1>6, <3>1, <3>2, TakenAccounted
  <2>3. ASSUME ~overtaken PROVE Reached(h, walk', call.was, Contents(new'))
    <3>1. Reached(h, r.it, call.was, Contents(new))
      BY <1>0, <2>1, <2>3, EntriesReached DEF EntryInv, TakeInv
    <3>2. Reached(h, walk', call.was, Contents(new) \cup {k})
      BY <1>6, <3>1, ReachedTaken
    <3>3. Contents(new) \cup {k} \subseteq Contents(new')
      BY <1>0, <1>2 DEF Added, Contents
    <3> QED
      BY <3>2, <3>3 DEF Reached
  <2> QED
    BY <2>2, <2>3
<1>10. TakeInv'
  <2>1. new'.table_size # 0
    BY <1>3 DEF Same
  <2> QED
    BY <1>6, <1>7, <1>8, <1>9, <2>1 DEF TakeInv, Counts, Contents
<1> QED
  BY <1>4, <1>5, <1>10 DEF EntryInv

\* A list finds a key of the new table only where the old one has a doublet.
LEMMA MoveRefused ==
  ASSUME IndInv, WalkInv, EntryInv, pc = "moving", NEW r \in NextEntries(h, walk),
         r.code = "SUCCESS", NEW k, k = r.it.keys[r.it.nmemb], ~env.malloc_fails,
         \/ new.coll_eng \in ListEngine /\ TRUE \in FindsKey(new, k)
         \/ \E o \in EngineInsert(new, k) : o.code # "SUCCESS",
         k \in Key, new.table_size # 0
  PROVE  Excused
<1> SUFFICES ASSUME ~HasHole(h), ~disturbed, ~HasDoublet(h)
             PROVE  FALSE
  BY DEF Excused
<1>0. /\ Sound(new) /\ ~FiniCrashes(new) /\ env.threadsafe \in BOOLEAN
      /\ Slots(new) /\ Unique(new) /\ Unique(h) /\ new.coll_eng = h.coll_eng
  BY EntryTypes, NewThere DEF EntryInv, KeyInv, IndInv, TableInv, Rehashing
<1>1. k \in Key /\ CountOf(new, k) < CountOf(h, k) /\ CountOf(new, k) \in Nat /\ CountOf(h, k) \in Nat
  BY MoveTakes, EntryTypes DEF Contents
<1>2. CASE new.coll_eng \in ListEngine /\ TRUE \in FindsKey(new, k)
  <2>1. CountOf(new, k) > 0
    BY <1>2, FoundCount
  <2>2. CountOf(h, k) > 1
    BY <1>1, <2>1
  <2> QED
    BY <1>0, <1>1, <1>2, <2>2 DEF HasDoublet
<1>3. ASSUME NEW o \in EngineInsert(new, k), o.code # "SUCCESS"
      PROVE  FALSE
  <2>1. ~Broken(new, k)
    BY <1>0, <1>1, LostBroken
  <2>2. \/ new.coll_eng \in {"ARRAY", "RBTREE"} /\ CountOf(new, k) > 0
        \/ IsArray(new) /\ new.bucket[BucketOf(new, k)] = <<>>
    BY <1>0, <1>1, <1>3, <2>1, InsertCounts
  <2>3. CASE new.coll_eng \in {"ARRAY", "RBTREE"} /\ CountOf(new, k) > 0
    <3>1. CountOf(h, k) <= 1
      BY <1>0, <1>1, <2>3 DEF Unique
    <3> QED
      BY <1>1, <2>3, <3>1
  <2>4. CASE IsArray(new) /\ new.bucket[BucketOf(new, k)] = <<>>
    <3>1. BucketOf(new, k) \in 0 .. new.table_size - 1
      BY <1>0, <1>1, CountHome
    <3>2. new.coll_eng_array_size = 0
      BY <1>0, <2>4, <3>1 DEF Slots
    <3> QED
      BY <2>4, <3>2 DEF EntryInv, NewInv, Rehashing
  <2> QED
    BY <2>2, <2>3, <2>4
<1> QED
  BY <1>2, <1>3

LEMMA EntryMove == ASSUME IndInv, WalkInv, EntryInv, RehashMove PROVE EntryInv'
<1>0. /\ Sound(h) /\ h.table_size # 0 /\ pc = "moving" /\ IsIterator(walk)
      /\ Counts(new) \in [Key -> Nat] /\ new.table_size \in Nat
      /\ (~env.malloc_fails => ~FiniCrashes(h)) /\ env.malloc_fails \in BOOLEAN
      /\ pc # "setup" /\ pc \in Rehashing
  BY EntryTypes DEF WalkInv, EntryInv, LiveInv, RehashMove, Rehashing
<1>1. CASE Stop("stuck")
  BY <1>0, <1>1, EntryHangs
<1>2. ASSUME NEW r \in NextEntries(h, walk), WalkCrashes(h, r), Stop("crashed")
      PROVE  EntryInv'
  <2>1. r.code = "SUCCESS" /\ (r.it.keys = <<>> \/ LOST \in Range(r.it.keys))
    BY <1>2 DEF WalkCrashes
  <2>2. \/ walk.nmemb > 0 /\ r.it = walk
        \/ r.it.keys # <<>> /\ (LOST \in Range(r.it.keys) => FiniCrashes(h))
    BY <1>0, <2>1, EntriesFound
  <2>3. env.malloc_fails
    BY <1>0, <2>1, <2>2 DEF EntryInv, TakeInv
  <2> QED
    BY <1>0, <1>2, <2>3, EntryCrashes
<1>3. ASSUME NEW r \in NextEntries(h, walk), r.code = "NODATA", pc' = "freeing",
             UNCHANGED <<env, h, it, call, new, disturbed, overtaken>>
      PROVE  EntryInv'
  <2>1. /\ IsIterator(r.it) /\ walk.nmemb = 0 /\ r.it.nmemb = 0 /\ r.it.bucket >= h.table_size
    BY <1>0, <1>3, EntriesEnd
  <2>2. Good(walk) /\ new.table_size > 0
    BY <1>0, <2>1 DEF Good, EntryInv, TakeInv
  <2>3. ASSUME ~overtaken PROVE call.was \cap Contents(h) \subseteq Contents(new)
    <3>1. Reached(h, walk, call.was, Contents(new))
      BY <1>0, <2>2, <2>3 DEF EntryInv, TakeInv
    <3> QED
      BY <1>0, <1>3, <3>1, EndReached
  <2>4. ASSUME ~disturbed, NEW k \in Key PROVE CountOf(new, k) = CountOf(h, k)
    <3>1. Accounted(h, walk, Counts(new))
      BY <1>0, <2>2, <2>4 DEF EntryInv, TakeInv
    <3>2. Accounted(h, r.it, Counts(new))
      BY <1>0, <1>3, <3>1, EndAccounted
    <3>3. Counts(new)[k] = CountOf(h, k)
      BY <1>0, <2>1, <3>2, AccountedWhole
    <3> QED
      BY <3>3 DEF Counts
  <2>5. DoneInv'
    <3>1. /\ new.table_size > 0
          /\ ~overtaken => call.was \cap Contents(h) \subseteq Contents(new)
          /\ ~disturbed => \A k \in Key : CountOf(new, k) = CountOf(h, k)
      BY <2>2, <2>3, <2>4
    <3> QED
      BY <1>3, <3>1 DEF DoneInv
  <2>6. NewInv'
    BY <1>0, <1>3 DEF EntryInv, NewInv
  <2>7. LiveInv' /\ KeyInv' /\ SeenInv' /\ TakeInv' /\ CrashesOnlyThere'
    BY <1>0, <1>3 DEF EntryInv, LiveInv, KeyInv, SeenInv, TakeInv, CrashesOnlyThere
  <2> QED
    BY <2>5, <2>6, <2>7 DEF EntryInv
<1>4. CASE RehashReturns("SYSTEM") /\ UNCHANGED <<env, h, it>>
  BY <1>0, <1>4, EntryReturns
<1>5. ASSUME NEW r \in NextEntries(h, walk), r.code = "SUCCESS",
             NEW k, k = r.it.keys[r.it.nmemb],
             k \notin Contents(h) \/ new.table_size = 0, Stop("crashed")
      PROVE  EntryInv'
  <2>1. ASSUME ~env.malloc_fails PROVE Excused
    <3>1. CASE new.table_size = 0
      BY <1>0, <3>1 DEF EntryInv, NewInv, Excused
    <3>2. CASE k \notin Contents(h)
      BY <1>0, <1>5, <2>1, <3>2, MoveTakes DEF Excused
    <3> QED
      BY <1>5, <3>1, <3>2
  <2> QED
    BY <1>0, <1>5, <2>1, EntryCrashes
<1>6. ASSUME NEW r \in NextEntries(h, walk), r.code = "SUCCESS",
             NEW k, k = r.it.keys[r.it.nmemb], k \in Key, new.table_size # 0,
             new.coll_eng \in ListEngine, TRUE \in FindsKey(new, k),
             RehashAborts(new, "DUPKEY")
      PROVE  EntryInv'
  <2>1. ~env.malloc_fails => Excused
    BY <1>0, <1>6, MoveRefused
  <2> QED
    BY <1>0, <1>6, <2>1, EntryAborts
<1>7. ASSUME NEW r \in NextEntries(h, walk), r.code = "SUCCESS", ~WalkCrashes(h, r),
             NEW k, k = r.it.keys[r.it.nmemb], k \in Key, new.table_size # 0,
             NEW o \in EngineInsert(new, k),
             IF o.code # "SUCCESS" THEN RehashAborts(o.h, o.code)
             ELSE /\ new' = o.h /\ walk' = Taken(r.it)
                  /\ UNCHANGED <<env, h, it, pc, call, disturbed, overtaken>>
      PROVE  EntryInv'
  <2>1. CASE o.code # "SUCCESS"
    <3>1. ~env.malloc_fails => Excused
      BY <1>0, <1>7, <2>1, MoveRefused
    <3> QED
      BY <1>0, <1>7, <2>1, <3>1, EntryAborts
  <2>2. CASE o.code = "SUCCESS"
    BY <1>0, <1>7, <2>2, EntryMoved
  <2> QED
    BY <2>1, <2>2
<1> QED
  BY <1>1, <1>2, <1>3, <1>4, <1>5, <1>6, <1>7, MoveCases

LEMMA EntryFree == ASSUME IndInv, EntryInv, RehashFree PROVE EntryInv'
<1>0. pc = "freeing" /\ pc # "setup" /\ (~env.malloc_fails => ~FiniCrashes(h))
  BY DEF RehashFree, EntryInv, LiveInv
<1>1. CASE Stop("stuck")
  BY <1>0, <1>1, EntryHangs
<1>2. CASE FiniCrashes(h) /\ Stop("crashed")
  BY <1>0, <1>2, EntryCrashes
<1>3. CASE pc' = "copying" /\ UNCHANGED <<env, set, h, it, call, rehash, other>>
  <2>1. UNCHANGED <<env, h, it, call, new, walk, disturbed, overtaken>>
    BY <1>3 DEF rehash
  <2>2. LiveInv' /\ KeyInv' /\ SeenInv'
    BY <1>0, <1>3, <2>1 DEF EntryInv, LiveInv, KeyInv, SeenInv
  <2>3. NewInv' /\ TakeInv' /\ DoneInv' /\ CrashesOnlyThere'
    BY <1>0, <1>3, <2>1 DEF EntryInv, NewInv, TakeInv, DoneInv, CrashesOnlyThere, Rehashing
  <2> QED
    BY <2>2, <2>3 DEF EntryInv
<1> QED
  BY <1>1, <1>2, <1>3 DEF RehashFree

\* What memcpy leaves of the new handle.
LEMMA CopyFields ==
  ASSUME NEW H, Sound(H), NEW a, NEW G, G = [H EXCEPT !.rehash_auto = a]
  PROVE  /\ G.coll_eng = H.coll_eng /\ G.table_size = H.table_size /\ G.bucket = H.bucket
         /\ G.coll_eng_array_size = H.coll_eng_array_size
         /\ \A k : CountOf(G, k) = CountOf(H, k)
         /\ Contents(G) = Contents(H)
<1>1. /\ G.coll_eng = H.coll_eng /\ G.table_size = H.table_size /\ G.bucket = H.bucket
      /\ G.coll_eng_array_size = H.coll_eng_array_size
  <2>1. PICK e \in Engine \cup {NoEngine}, m \in Nat : H \in Shape(e, m)
    BY DEF Sound, IsHandle
  <2> QED
    BY <2>1 DEF Shape
<1>2. \A k : CountOf(G, k) = CountOf(H, k)
  BY <1>1 DEF CountOf
<1> QED
  BY <1>1, <1>2 DEF Contents

LEMMA EntryCopy == ASSUME IndInv, EntryInv, RehashCopy PROVE EntryInv'
<1>0. /\ Sound(new) /\ ~FiniCrashes(new) /\ pc = "copying" /\ new.coll_eng = h.coll_eng
      /\ h.coll_eng \in Engine /\ new.table_size > 0 /\ Unique(new) /\ Slots(new)
  BY NewThere DEF RehashCopy, EntryInv, LiveInv, KeyInv, DoneInv, IndInv, TableInv, Rehashing
<1>1. /\ h' = [new EXCEPT !.rehash_auto = h.rehash_auto] /\ it' = Outdated(it)
      /\ UNCHANGED env /\ new' = NoHandle /\ pc' \in {"idle", "inserting"}
  BY DEF RehashCopy, RehashReturns
<1>2. /\ h'.coll_eng = new.coll_eng /\ h'.table_size = new.table_size /\ h'.bucket = new.bucket
      /\ h'.coll_eng_array_size = new.coll_eng_array_size
      /\ \A k : CountOf(h', k) = CountOf(new, k)
  BY <1>0, <1>1, CopyFields
<1>3. LiveInv'
  BY <1>0, <1>1, <1>2 DEF LiveInv, FiniCrashes
<1>4. KeyInv'
  BY <1>0, <1>1, <1>2, NoHandleCounts DEF KeyInv, Unique, Slots, IsArray
<1>5. SeenInv'
  BY <1>1, OutdatedSeen DEF EntryInv
<1>6. NewInv' /\ TakeInv' /\ DoneInv' /\ CrashesOnlyThere'
  BY <1>1 DEF NewInv, TakeInv, DoneInv, CrashesOnlyThere, Rehashing
<1> QED
  BY <1>3, <1>4, <1>5, <1>6 DEF EntryInv

\* What the other thread's insertion or removal leaves as it was.
LEMMA EntryChanges ==
  ASSUME IndInv, EntryInv, pc # "setup", NEW k \in Key, OtherChanges(k)
  PROVE  /\ Same(h, h') /\ Slots(h') /\ Unique(h')
         /\ ~env.malloc_fails => ~FiniCrashes(h')
<1>0. /\ Sound(h) /\ Slots(h) /\ Unique(h) /\ env.threadsafe \in BOOLEAN /\ ~Broken(h, k)
      /\ (~env.malloc_fails => ~FiniCrashes(h))
  BY EntryTypes DEF EntryInv, KeyInv, LiveInv, OtherChanges
<1>1. ASSUME NEW o \in EngineInsert(h, k), h' = o.h
      PROVE  /\ Same(h, h') /\ Slots(h') /\ Unique(h')
             /\ ~env.malloc_fails => ~FiniCrashes(h')
  BY <1>0, <1>1, InsertSound, InsertCounts, InsertLost
<1>2. CASE TRUE \in FindsKey(h, k) /\ h' = Removes(h, k)
  BY <1>0, <1>2, RemoveKeeps
<1> QED
  BY <1>1, <1>2 DEF OtherChanges

\* The other thread's call between two steps of the program's.  During hi_rehash the entries
\* are not counted any more, but those there before and after it are still accounted for.
LEMMA EntryCompletes == ASSUME IndInv, EntryInv, OtherCompletes PROVE EntryInv'
<1>0. /\ pc \in {"idle", "inserting", "moving", "freeing"} /\ ~disturbed /\ pc # "setup"
      /\ disturbed' = (pc \in {"moving", "freeing"}) /\ it' = Outdated(it)
      /\ UNCHANGED <<env, pc, call, new, walk, overtaken>>
  BY DEF OtherCompletes
<1>1. /\ Same(h, h') /\ Slots(h') /\ Unique(h')
      /\ ~env.malloc_fails => ~FiniCrashes(h')
  <2>1. \E k \in Key : OtherChanges(k)
    BY DEF OtherCompletes
  <2> QED
    BY <1>0, <2>1, EntryChanges
<1>2. CASE pc \in {"idle", "inserting"}
  BY <1>0, <1>1, <1>2, EntryTable
<1>3. CASE pc \in {"moving", "freeing"}
  <2>1. LiveInv' /\ KeyInv'
    BY <1>0, <1>1 DEF EntryInv, LiveInv, KeyInv, Same
  <2>2. SeenInv'
    BY <1>0, OutdatedSeen DEF EntryInv
  <2>3. NewInv' /\ call.was = Contents(h) /\ disturbed'
    BY <1>0, <1>3 DEF EntryInv, NewInv, Rehashing
  <2>4. TakeInv'
    <3>1. ASSUME Reached(h, walk, call.was, Contents(new))
          PROVE  Reached(h', walk, call.was, Contents(new))
      BY <1>1, <2>3, <3>1 DEF Reached, BucketOf, Same
    <3> QED
      BY <1>0, <2>3, <3>1 DEF EntryInv, TakeInv
  <2>5. DoneInv'
    BY <1>0, <2>3 DEF EntryInv, DoneInv
  <2>6. CrashesOnlyThere'
    BY <1>0, <1>3 DEF CrashesOnlyThere
  <2> QED
    BY <2>1, <2>2, <2>3, <2>4, <2>5, <2>6 DEF EntryInv
<1> QED
  BY <1>0, <1>2, <1>3

\* Whatever a reading brings that is overtaken, it is keys or what was left uninitialised.
LEMMA OvertakenKeys ==
  ASSUME IndInv, LoadInv, ReadOvertaken
  PROVE  walk'.nmemb > 0 /\ walk'.keys # <<>> /\ LOST \notin Range(walk'.keys)
<1>1. /\ IsHandle(h) /\ IsFiniteSet(Ahead(h, 0)) /\ IsIterator(walk) /\ IsIterator(walk')
      /\ JUNK # LOST /\ LOST \notin Key
  BY LoadTypes, OtherToCome, HandleAssumption DEF ReadOvertaken, LoadInv, Counted, WalkInv
<1>2. PICK r \in NextEntries(h, walk) : r.code = "SUCCESS" /\ (TreeOvertaken(r) \/ ListOvertaken(r))
  BY DEF ReadOvertaken
<1>3. IsIterator(r.it) /\ r.it.nmemb > 0
  BY <1>1, <1>2, NextFirst
<1>4. ASSUME NEW n \in Nat, n > 0, NEW t \in [1 .. n -> Key \cup {JUNK}]
      PROVE  t # <<>> /\ LOST \notin Range(t)
  <2>1. DOMAIN t = 1 .. n /\ 1 \in DOMAIN t
    BY <1>4
  <2>2. DOMAIN <<>> = {}
    OBVIOUS
  <2> QED
    BY <1>1, <2>1, <2>2 DEF Range
<1>5. CASE TreeOvertaken(r)
  <2> DEFINE b == r.it.bucket
  <2>1. \E n \in {Stored(h', b)} \ {0, Stored(h, b)} : \E t \in TreeMisread(h.bucket[b], n) :
          walk' = [r.it EXCEPT !.keys = t, !.nmemb = n]
    BY <1>5, Zenon DEF TreeOvertaken
  <2>2. PICK n, t : n # 0 /\ t \in TreeMisread(h.bucket[b], n) /\
                    walk' = [r.it EXCEPT !.keys = t, !.nmemb = n]
    BY <2>1
  <2>3. walk'.keys = t /\ walk'.nmemb = n
    BY <1>3, <2>2 DEF IsIterator
  <2>4. n \in Nat /\ n > 0
    <3>1. IsIterator(walk')
      BY <1>1
    <3>2. walk'.nmemb \in Nat
      BY <3>1 DEF IsIterator
    <3>3. n # 0
      BY <2>2
    <3> HIDE DEF b
    <3> QED
      BY <2>3, <3>2, <3>3
  <2>5. t \in [1 .. n -> Key \cup {JUNK}]
    BY <2>2 DEF TreeMisread
  <2> QED
    BY <1>4, <2>3, <2>4, <2>5
<1>6. CASE ListOvertaken(r)
  <2> DEFINE s == h.bucket[r.it.bucket]
  <2>1. PICK t \in ListMisread(s) : walk' = [r.it EXCEPT !.keys = t]
    BY <1>6, Zenon DEF ListOvertaken
  <2>2. walk'.keys = t /\ walk'.nmemb = r.it.nmemb
    BY <1>3, <2>1 DEF IsIterator
  <2> HIDE DEF s
  <2>3. t \in [1 .. Len(s) -> Key \cup {JUNK}] /\ Len(s) > 1
    BY <2>1 DEF ListMisread
  <2>4. Len(s) \in Nat
    <3>1. r.it.bucket \in 0 .. h.table_size - 1
      BY <1>1, <1>2, NextFirst DEF ReadOvertaken, LoadInv, ReadInv, FromBucket
    <3> QED
      BY <1>1, <3>1, HandleFields DEF s
  <2> QED
    BY <1>3, <1>4, <2>2, <2>3, <2>4
<1> QED
  BY <1>2, <1>5, <1>6

\* After it only the shapes are left.
LEMMA EntryOvertaken == ASSUME IndInv, LoadInv, EntryInv, ReadOvertaken PROVE EntryInv'
<1>0. /\ pc = "moving" /\ disturbed' = TRUE /\ overtaken' = TRUE
      /\ UNCHANGED <<env, pc, call, new>>
      /\ UNCHANGED <<h, it>> \/ (it' = Outdated(it) /\ \E k \in Key : OtherChanges(k))
  BY OvertakenCases
<1>1. LiveInv' /\ KeyInv' /\ SeenInv'
  <2>1. CASE UNCHANGED <<h, it>>
    BY <1>0, <2>1 DEF EntryInv, LiveInv, KeyInv, SeenInv
  <2>2. CASE it' = Outdated(it) /\ \E k \in Key : OtherChanges(k)
    <3>1. /\ Same(h, h') /\ Slots(h') /\ Unique(h')
          /\ ~env.malloc_fails => ~FiniCrashes(h')
      BY <1>0, <2>2, EntryChanges
    <3>2. SeenInv'
      BY <1>0, <2>2, OutdatedSeen DEF EntryInv
    <3> QED
      BY <1>0, <3>1, <3>2 DEF EntryInv, LiveInv, KeyInv, Same
  <2> QED
    BY <1>0, <2>1, <2>2
<1>2. NewInv'
  BY <1>0 DEF EntryInv, NewInv
<1>3. TakeInv'
  BY <1>0, OvertakenKeys DEF TakeInv
<1>4. DoneInv' /\ CrashesOnlyThere'
  BY <1>0 DEF DoneInv, CrashesOnlyThere
<1> QED
  BY <1>1, <1>2, <1>3, <1>4 DEF EntryInv

LEMMA EntryOther == ASSUME IndInv, LoadInv, EntryInv, Other PROVE EntryInv'
<1>1. CASE OtherTests
  <2>1. UNCHANGED <<env, h, it, pc, call, new, walk, disturbed, overtaken>>
    BY <1>1 DEF OtherTests, rehash
  <2> QED
    BY <2>1, EntryStays
<1>2. CASE OtherFaults
  <2>1. /\ pc \in Rehashing /\ pc # "setup" /\ pc' = "crashed" /\ disturbed' = TRUE
        /\ UNCHANGED <<env, h, it, call, new, walk, overtaken>>
    BY <1>2 DEF OtherFaults, Rehashing
  <2>2. LiveInv' /\ KeyInv' /\ SeenInv'
    BY <2>1 DEF EntryInv, LiveInv, KeyInv, SeenInv
  <2>3. new # NoHandle
    BY <2>1, NewThere
  <2>4. NewInv' /\ TakeInv' /\ DoneInv' /\ CrashesOnlyThere'
    BY <2>1, <2>3 DEF NewInv, TakeInv, DoneInv, CrashesOnlyThere, Rehashing
  <2> QED
    BY <2>2, <2>4 DEF EntryInv
<1> QED
  BY <1>1, <1>2, EntryCompletes, EntryOvertaken DEF Other

LEMMA EntryFini == ASSUME IndInv, EntryInv, hi_fini PROVE EntryInv'
<1>0. pc = "idle" /\ ~it.on /\ (~env.malloc_fails => ~FiniCrashes(h))
  BY DEF hi_fini, EntryInv, LiveInv
<1>1. CASE Stop("stuck")
  BY <1>0, <1>1, EntryHangs
<1>2. CASE FiniCrashes(h) /\ Stop("crashed")
  BY <1>0, <1>2, EntryCrashes
<1>3. CASE h' = NoHandle /\ pc' = "setup" /\ UNCHANGED <<env, set, it, call, rehash, other>>
  <2>1. UNCHANGED <<env, it, new>>
    BY <1>3 DEF rehash
  <2>2. LiveInv' /\ KeyInv'
    BY <1>3, <2>1, NoHandleSound, NoHandleCounts DEF EntryInv, LiveInv, KeyInv
  <2>3. SeenInv'
    BY <1>0, <2>1 DEF EntryInv, SeenInv
  <2>4. NewInv' /\ TakeInv' /\ DoneInv' /\ CrashesOnlyThere'
    BY <1>3 DEF NewInv, TakeInv, DoneInv, CrashesOnlyThere, Rehashing
  <2> QED
    BY <2>2, <2>3, <2>4 DEF EntryInv
<1> QED
  BY <1>1, <1>2, <1>3 DEF hi_fini

LEMMA EntryCreate ==
  ASSUME IndInv, EntryInv, pc = "setup", NEW s, IsSet(s), Creates(s)
  PROVE  EntryInv'
<1>1. CASE /\ lhi_set_sanity_check(s) = "SUCCESS" /\ h' = NewHandle(s) /\ pc' = "idle"
           /\ UNCHANGED <<env, it, call, new, walk, disturbed, overtaken>>
  <2>1. /\ s.table_size # 0 /\ s.table_size \in Nat /\ s.coll_eng \in Engine
        /\ s.coll_eng_array_size \in Nat /\ s.rehash_auto \in BOOLEAN
    BY <1>1 DEF IsSet, lhi_set_sanity_check
  <2>2. ~FiniCrashes(h') /\ Slots(h') /\ Unique(h')
    BY <1>1, <2>1, NewHandleSound, NewCounts
  <2>3. h'.table_size > 0 /\ h'.coll_eng \in Engine
    BY <1>1, <2>1 DEF NewHandle
  <2>4. LiveInv' /\ KeyInv'
    BY <1>1, <2>2, <2>3 DEF EntryInv, LiveInv, KeyInv
  <2>5. SeenInv'
    BY <1>1 DEF EntryInv, SeenInv
  <2>6. NewInv' /\ TakeInv' /\ DoneInv' /\ CrashesOnlyThere'
    BY <1>1 DEF NewInv, TakeInv, DoneInv, CrashesOnlyThere, Rehashing
  <2> QED
    BY <2>4, <2>5, <2>6 DEF EntryInv
<1>2. CASE UNCHANGED <<env, h, it, pc, call, rehash>>
  <2>1. UNCHANGED <<env, h, it, pc, call, new, walk, disturbed, overtaken>>
    BY <1>2 DEF rehash
  <2> QED
    BY <2>1, EntryStays
<1> QED
  BY <1>1, <1>2 DEF Creates

LEMMA EntryInit == Init => EntryInv
<1> SUFFICES ASSUME Init PROVE EntryInv
  OBVIOUS
<1>1. /\ h = NoHandle /\ new = NoHandle /\ it = NoIterator /\ pc = "setup"
  BY DEF Init
<1>2. LiveInv /\ KeyInv
  BY <1>1, NoHandleSound, NoHandleCounts DEF LiveInv, KeyInv
<1>3. SeenInv
  <2>1. NoIterator.seen \in [Key -> Nat] /\ NoIterator.keys = <<>> /\ NoIterator.on = FALSE
    BY DEF NoIterator
  <2>2. LOST \notin Range(NoIterator.keys)
    BY <2>1, EmptyRange
  <2> QED
    BY <1>1, <2>1, <2>2, NoIteratorIs DEF SeenInv
<1>4. NewInv /\ TakeInv /\ DoneInv /\ CrashesOnlyThere
  BY <1>1 DEF NewInv, TakeInv, DoneInv, CrashesOnlyThere, Rehashing
<1> QED
  BY <1>2, <1>3, <1>4 DEF EntryInv

LEMMA StepEntry == IndInv /\ LoadInv /\ EntryInv /\ [Next]_vars => EntryInv'
<1> SUFFICES ASSUME IndInv, LoadInv, WalkInv, EntryInv, [Next]_vars PROVE EntryInv'
  BY DEF LoadInv
<1>0. IsSet(set) /\ RehashSizes \subseteq Nat /\ h.table_size \in Nat
  BY LoadTypes, HandleAssumption DEF IndInv, TypeInv
<1>1. CASE Setter
  <2>1. UNCHANGED <<env, h, it, pc, call, new, walk, disturbed, overtaken>>
    BY <1>1 DEF Setter, rehash
  <2> QED
    BY <2>1, EntryStays
<1>2. CASE hi_create
  BY <1>0, <1>2, EntryCreate DEF hi_create
<1>3. CASE hi_init
  <2>1. PICK n \in TableSizes \cup {0}, f \in HashFunc, c \in KeyCmpFunc :
          Creates(DefaultSet(n, f, c))
    BY <1>3 DEF hi_init
  <2>2. IsSet(DefaultSet(n, f, c))
    BY DefaultIsSet
  <2> QED
    BY <1>3, <2>1, <2>2, EntryCreate DEF hi_init
<1>4. CASE hi_fini
  BY <1>4, EntryFini
<1>5. CASE hi_rehash
  <2>1. PICK n \in RehashSizes : RehashBegins(NULL, n)
    BY <1>5 DEF hi_rehash
  <2> QED
    BY <1>0, <1>5, <2>1, EntryBegin DEF hi_rehash
<1>6. CASE hi_insert
  <2>1. PICK k \in Key :
          \/ Stop("stuck")
          \/ UNCHANGED <<env, set, h, it, pc, call, rehash, other>>
          \/ RehashBegins(k, 2 * h.table_size)
          \/ pc' = "inserting" /\ UNCHANGED <<env, set, h, it, rehash, other>>
    BY <1>6 DEF hi_insert
  <2>2. pc = "idle"
    BY <1>6 DEF hi_insert
  <2>3. CASE Stop("stuck")
    BY <2>2, <2>3, EntryHangs
  <2>4. CASE UNCHANGED <<env, set, h, it, pc, call, rehash, other>>
    <3>1. UNCHANGED <<env, h, it, pc, call, new, walk, disturbed, overtaken>>
      BY <2>4 DEF rehash
    <3> QED
      BY <3>1, EntryStays
  <2>5. CASE RehashBegins(k, 2 * h.table_size)
    <3>1. 2 * h.table_size \in Nat
      BY <1>0
    <3> QED
      BY <2>2, <2>5, <3>1, EntryBegin
  <2>6. CASE pc' = "inserting" /\ UNCHANGED <<env, set, h, it, rehash, other>>
    <3>1. UNCHANGED <<env, h, it>> /\ new' = new
      BY <2>6 DEF rehash
    <3> QED
      BY <2>2, <2>6, <3>1, EntryOutside
  <2> QED
    BY <2>1, <2>3, <2>4, <2>5, <2>6
<1>7. CASE hi_remove
  BY <1>7, EntryRemove
<1>8. CASE RehashMove
  BY <1>8, EntryMove
<1>9. CASE RehashFree
  BY <1>9, EntryFree
<1>10. CASE RehashCopy
  BY <1>10, EntryCopy
<1>11. CASE InsertEntry
  BY <1>11, EntryInsert
<1>12. CASE Other
  BY <1>12, EntryOther
<1>13. CASE hi_iterator_create
  BY <1>13, EntryCreateIt
<1>14. CASE hi_iterator_getnext
  BY <1>14, EntryGetNext
<1>15. CASE hi_iterator_reset
  BY <1>15, EntryReset
<1>16. CASE hi_iterator_fini
  BY <1>16, EntryFinishIt
<1>17. CASE UNCHANGED vars
  <2>1. UNCHANGED <<env, h, it, pc, call, new, walk, disturbed, overtaken>>
    BY <1>17 DEF vars, rehash
  <2> QED
    BY <2>1, EntryStays
<1> QED
  BY <1>1, <1>2, <1>3, <1>4, <1>5, <1>6, <1>7, <1>8, <1>9, <1>10, <1>11, <1>12, <1>13, <1>14,
     <1>15, <1>16, <1>17 DEF Next, Library

LEMMA EntryInvariance == Spec => [](IndInv /\ LoadInv /\ EntryInv)
<1> DEFINE Inv == IndInv /\ LoadInv /\ EntryInv
<1>1. Init => Inv
  BY InitIndInv, LoadInit, EntryInit
<1>2. Inv /\ [Next]_vars => Inv'
  BY StepIndInv, StepLoad, StepEntry
<1> QED
  BY <1>1, <1>2, PTL DEF Spec

(***************************************************************************)
(* Theorems.                                                               *)
(***************************************************************************)
\* For any keys, hash function, engines, sizes and bounds: every entry is in the bucket
\* its key hashes to, and no_objects is the number of entries, unless a failed realloc
\* has lost a bucket; in the handle and in the one hi_rehash fills, at every moment of
\* hi_rehash, whatever fails and whatever the other thread inserts or removes, as long as
\* it chooses the bucket under the size the table has (lib_init.c:461-484).
THEOREM EntriesAlwaysPlaced == Spec => []EntriesPlaced
<1>1. IndInv => EntriesPlaced
  BY DEF IndInv, TableInv, Sound, EntriesPlaced
<1> QED
  BY <1>1, Invariance, PTL

\* A call that never returns has met the mutex of an array handle in a thread-safe
\* build; a list or a tree never hangs (hi_array.c:285, 312).
THEOREM OnlyArraysHang == Spec => []StuckOnlyInArrays
<1>1. IndInv => StuckOnlyInArrays
  BY DEF IndInv, LockInv, StuckOnlyInArrays
<1> QED
  BY <1>1, Invariance, PTL

\* For any keys, engines and sizes, and with another thread whose insertions may test the
\* load at one time and complete at any later one, one of them or one removal during a
\* call of hi_rehash: a handle that rehashes itself never has more than one entry more than
\* it has buckets until one of its rehashes fails, unless the program itself makes the table
\* smaller than the entries it may hold (hi_operations.c:139-182, lib_init.c:461-484).
THEOREM LoadAlwaysBounded == Spec => []LoadBounded
<1>1. IndInv /\ LoadInv => LoadBounded
  <2> SUFFICES ASSUME IndInv, LoadInv, Guarded PROVE h.no_objects <= h.table_size + 1
    BY DEF LoadBounded, Guarded
  <2>1. h.no_objects + Pending(other) <= h.table_size + 1 /\ Pending(other) \in {0, 1}
    BY ComingType DEF LoadInv, TableBounds
  <2> QED
    BY <2>1, LoadTypes
<1> QED
  BY <1>1, LoadInvariance, PTL

\* Every turn of the loop of hi_rehash takes one entry from those its iterator has still to
\* yield; the call of the other thread, before a bucket is read or while it is, adds at
\* most one, so that the loop ends (lib_init.c:461-471, hi_iterator.c:185-223).
THEOREM RehashEnds == Spec => RehashAdvances
<1> DEFINE A == pc = "moving" /\ pc' = "moving" =>
                  \/ ToCome(h', walk') < ToCome(h, walk)
                  \/ ~disturbed /\ disturbed' /\ ToCome(h', walk') <= ToCome(h, walk) + 1
<1>1. IndInv /\ LoadInv /\ [Next]_vars => [A]_<<h, new, walk, disturbed>>
  <2> SUFFICES ASSUME IndInv, LoadInv, Next, pc = "moving", pc' = "moving",
                      ~UNCHANGED <<h, new, walk, disturbed>>
               PROVE  \/ ToCome(h', walk') < ToCome(h, walk)
                      \/ ~disturbed /\ disturbed' /\ ToCome(h', walk') <= ToCome(h, walk) + 1
    BY DEF vars, rehash
  <2>1. RehashMove \/ OtherCompletes \/ ReadOvertaken
    <3>1. ~OtherTests /\ ~OtherFaults
      BY DEF OtherTests, OtherFaults, rehash
    <3> QED
      BY <3>1 DEF Next, Other, Library, Setter, hi_create, hi_init, hi_fini, hi_rehash, hi_insert,
             hi_remove, RehashFree, RehashCopy, InsertEntry, hi_iterator_create,
             hi_iterator_getnext, hi_iterator_reset, hi_iterator_fini
  <2>2. CASE RehashMove
    <3>1. IsHandle(h) /\ IsFiniteSet(Ahead(h, 0)) /\ IsIterator(walk)
      BY LoadTypes DEF LoadInv, Counted, WalkInv
    <3>2. PICK r \in NextEntries(h, walk) : r.code = "SUCCESS" /\ walk' = Taken(r.it) /\ h' = h
      <4>1. ~Stop("stuck") /\ ~Stop("crashed")
        BY DEF Stop
      <4>2. ASSUME NEW H, NEW code, RehashAborts(H, code) PROVE FALSE
        BY <4>1, <4>2 DEF RehashAborts, RehashReturns
      <4>3. \A code : ~RehashReturns(code)
        BY DEF RehashReturns
      <4> QED
        BY <2>2, <4>1, <4>2, <4>3, RehashMoveCases
    <3>3. ToCome(h, walk') = ToCome(h, walk) - 1
      BY <3>1, <3>2, NextTaken
    <3>4. ToCome(h, walk) \in Int
      <4>1. walk.nmemb \in Nat /\ walk.bucket + 1 \in Nat
        BY <3>1 DEF IsIterator
      <4> QED
        BY <3>1, <4>1, AheadFinite DEF ToCome
    <3> QED
      BY <3>2, <3>3, <3>4
  <2>3. CASE OtherCompletes \/ ReadOvertaken
    <3>1. ~disturbed /\ disturbed'
      BY <2>3 DEF OtherCompletes, ReadOvertaken
    <3>2. /\ ToCome(h, walk) \in Nat /\ ToCome(h', walk') \in Nat
          /\ ToCome(h', walk') + Pending(other)' <= ToCome(h, walk) + Pending(other)
      BY <2>3, OtherToCome
    <3>3. Pending(other) \in {0, 1} /\ Pending(other)' \in {0, 1}
      BY ComingType DEF Pending
    <3> QED
      BY <3>1, <3>2, <3>3
  <2> QED
    BY <2>1, <2>2, <2>3
<1> QED
  BY <1>1, LoadInvariance, PTL DEF Spec, RehashAdvances

\* The iterator of a table nobody changes has given every entry exactly as often as the
\* table holds it when it has nothing more to give, and gives it anew after a reset
\* (hi_iterator.c:91-223).
THEOREM IteratorAlwaysExact == Spec => []IteratorExact
<1>1. IndInv /\ EntryInv => IteratorExact
  <2> SUFFICES ASSUME IndInv, EntryInv, it.on, it.clean, it.nmemb = 0,
                      it.bucket >= h.table_size, NEW k \in Key
               PROVE  it.seen[k] = CountOf(h, k)
    BY DEF IteratorExact
  <2>1. IsIterator(it) /\ it.seen \in [Key -> Nat] /\ pc # "setup"
    BY DEF EntryInv, SeenInv
  <2>2. Sound(h) /\ h.table_size # 0
    BY <2>1, EntryTypes
  <2>3. Accounted(h, it, it.seen)
    BY DEF EntryInv, SeenInv, Good
  <2> QED
    BY <2>1, <2>2, <2>3, AccountedWhole
<1> QED
  BY <1>1, EntryInvariance, PTL

\* hi_rehash without another thread's call gives the handle as many entries of every key as
\* it had, and the size asked for; with one that comes between two of its readings of a
\* bucket, what the table held from the beginning to the end is in the new one
\* (lib_init.c:461-484).
THEOREM EntriesAlwaysKept == Spec => RehashKeepsEntries
<1> DEFINE A == pc = "copying" /\ pc' # "crashed" =>
                  /\ h'.table_size = call.target
                  /\ ~overtaken => call.was \cap Contents(h) \subseteq Contents(h')
                  /\ ~disturbed => \A k \in Key : CountOf(h', k) = CountOf(h, k)
<1>1. IndInv /\ EntryInv /\ [Next]_vars => [A]_vars
  <2> SUFFICES ASSUME IndInv, EntryInv, Next, pc = "copying", pc' # "crashed"
               PROVE  /\ h'.table_size = call.target
                      /\ ~overtaken => call.was \cap Contents(h) \subseteq Contents(h')
                      /\ ~disturbed => \A k \in Key : CountOf(h', k) = CountOf(h, k)
    OBVIOUS
  <2>1. RehashCopy
    <3>1. ~Other
      BY DEF Other, OtherTests, OtherCompletes, ReadOvertaken, OtherFaults
    <3> QED
      BY <3>1 DEF Next, Library, Setter, hi_create, hi_init, hi_fini, hi_rehash, hi_insert, hi_remove,
             RehashMove, RehashFree, InsertEntry, hi_iterator_create, hi_iterator_getnext,
             hi_iterator_reset, hi_iterator_fini
  <2>2. Sound(new) /\ h' = [new EXCEPT !.rehash_auto = h.rehash_auto]
    BY <2>1 DEF RehashCopy, IndInv, TableInv
  <2>3. /\ h'.table_size = new.table_size /\ Contents(h') = Contents(new)
        /\ \A k : CountOf(h', k) = CountOf(new, k)
    BY <2>2, CopyFields
  <2> QED
    BY <2>3 DEF EntryInv, NewInv, DoneInv, Rehashing
<1> QED
  BY <1>1, EntryInvariance, PTL DEF Spec, RehashKeepsEntries

\* With every allocation answered the process ends nowhere but where a hole, a doublet, the
\* size 0, another thread or the reset of an empty table's iterator brings it
\* (hi_array.c:207-218, hi_iterator.c:161, lib_init.c:463-468).
THEOREM CrashesOnlyWhereNamed == Spec => []CrashesOnlyThere
<1>1. EntryInv => CrashesOnlyThere
  BY DEF EntryInv
<1> QED
  BY <1>1, EntryInvariance, PTL
=============================================================================
