------------------------------- MODULE Handle -------------------------------
(***************************************************************************)
(* The life of a hashish handle: hi_set_* and hi_create (lib/hi_set.c,     *)
(* lib/lib_init.c), hi_insert with self-rehashing, hi_remove, hi_rehash,   *)
(* the iterator (lib/hi_iterator.c) and hi_fini (lib/lib_fini.c).          *)
(*                                                                         *)
(* One thread makes these calls.  hi_rehash is a step per entry, because it *)
(* works without the handle's mutex: a second thread may insert or remove  *)
(* between its steps, and between the two of an insertion, the test        *)
(* whether to rehash and the engine's operation.  The engines' operations, *)
(* models of their own elsewhere, are single steps, the choice of the      *)
(* bucket included; but a bucket hi_rehash reads may change meanwhile.     *)
(* hi_get only reorders an MTF list, whose order nothing here depends on,  *)
(* and is left out but for that, as are return codes nothing depends on.   *)
(* An access to freed or to uninitialised memory or through a null         *)
(* pointer, and a division by zero, end the process: pc = "crashed".       *)
(***************************************************************************)
EXTENDS InitSet, FiniteSets, SequencesExt

CONSTANTS
    Key,          \* the keys
    Hash,         \* hash_func, a function [Key -> Nat]
    FREE,         \* a slot that is BA_NOT_ALLOCATED
    JUNK,         \* uninitialised memory
    LOST,         \* the array of a bucket after a failed realloc
    Engines,      \* bound: the engines, which share their steps in classes
    TableSizes,   \* bound: the sizes tables are created with
    RehashSizes,  \* bound: the sizes hi_rehash is called with
    ArraySizes,   \* bound: the array sizes
    MaxObjects    \* bound: the entries in a table, with those being inserted

ASSUME HandleAssumption ==
    /\ Hash \in [Key -> Nat]
    /\ {FREE, JUNK, LOST, NULL} \cap Key = {} /\ LOST \notin {FREE, JUNK}
    /\ Engines \subseteq Engine
    /\ TableSizes \subseteq Nat /\ RehashSizes \subseteq Nat /\ ArraySizes \subseteq Nat
    /\ MaxObjects \in Nat

VARIABLES
    env,        \* the build, and whether allocations may fail
    set,        \* the program's hi_init_set
    h,          \* the program's handle
    it,         \* the program's iterator
    pc,         \* the next step of the call in progress
    call,       \* that call
    new,        \* the handle hi_rehash builds
    walk,       \* the iterator of hi_rehash
    disturbed,  \* the other thread has used the handle during hi_rehash
    overtaken,  \* it did so while hi_rehash read a bucket (history)
    failed,     \* a rehash of the handle has failed
    other       \* the key the other thread's hi_insert is about to insert

rehash == <<new, walk, disturbed, overtaken, failed>>
vars == <<env, set, h, it, pc, call, rehash, other>>

\* The tables hi_create and hi_rehash build.
EmptyBuckets(e, n, a) ==
    [b \in 0 .. n - 1 |-> IF e \in ArrayEngine THEN [i \in 1 .. a |-> FREE] ELSE <<>>]

NoHandle ==
    [coll_eng |-> NoEngine, table_size |-> 0, coll_eng_array_size |-> 0,
     rehash_auto |-> FALSE, bucket |-> EmptyBuckets(NoEngine, 0, 0), no_objects |-> 0, locked |-> FALSE]

\* The arrays of an iterator: keys, of which the first nmemb are still to come.
NoIterator ==
    [on |-> FALSE, bucket |-> 0, keys |-> <<>>, nmemb |-> 0, clean |-> FALSE,
     seen |-> [k \in Key |-> 0]]

\* key: the insertion that goes on after the rehash, target: the new size, was:
\* the entries at the beginning.
NoCall == [key |-> NULL, target |-> 0, was |-> {}]

\* The entries an insertion of k, if there is one in progress, will add.
Pending(k) == IF k = NULL THEN 0 ELSE 1

IsArray(H) == H.coll_eng \in ArrayEngine

\* The number of entries of bucket b: bucket_size or slot_size.
Held(s) == {i \in DOMAIN s : s[i] \in Key \cup {LOST}}
Stored(H, b) == Cardinality(Held(H.bucket[b]))

CountOf(H, k) ==
    Cardinality(UNION {{<<b, i>> : i \in {i \in DOMAIN H.bucket[b] : H.bucket[b][i] = k}}
                          : b \in DOMAIN H.bucket})

Contents(H) == {k \in Key : CountOf(H, k) > 0}

HasDoublet(H) == H.coll_eng \in ListEngine /\ \E k \in Key : CountOf(H, k) > 1

\* An allocated slot behind a free one.
HasHole(H) ==
    \E b \in DOMAIN H.bucket : \E i, j \in DOMAIN H.bucket[b] :
        i < j /\ H.bucket[b][i] = FREE /\ H.bucket[b][j] # FREE

NewHandle(s) ==
    [coll_eng |-> s.coll_eng, table_size |-> s.table_size,
     coll_eng_array_size |-> s.coll_eng_array_size, rehash_auto |-> s.rehash_auto,
     bucket |-> EmptyBuckets(s.coll_eng, s.table_size, s.coll_eng_array_size),
     no_objects |-> 0, locked |-> FALSE]

(***************************************************************************)
(* The engines' operations: the handles they may leave with their codes.   *)
(***************************************************************************)
Outcome(H, code) == [h |-> H, code |-> code]

\* Whether the engine finds k: the second hash of an entry is never stored, and
\* three of the array engines do not look.
FindsKey(H, k) ==
    LET there == CountOf(H, k) > 0 IN
    CASE H.coll_eng \in {"LIST", "LIST_MTF", "ARRAY", "RBTREE"} -> {there}
      [] H.coll_eng \in {"LIST_HASH", "LIST_MTF_HASH"} -> {FALSE, there}
      [] OTHER -> {FALSE}

BucketOf(H, k) == Hash[k] % H.table_size

\* A full array bucket is doubled; one with no slots stays so.
Grown(s) == IF FREE \in Range(s) THEN s ELSE s \o [i \in 1 .. Len(s) |-> FREE]

FirstFree(s) == CHOOSE i \in DOMAIN s : s[i] = FREE /\ \A j \in 1 .. i - 1 : s[j] # FREE

Stores(H, k) ==
    LET b == BucketOf(H, k)
        s == Grown(H.bucket[b])
    IN [H EXCEPT !.no_objects = @ + 1,
                 !.bucket[b] = IF IsArray(H) THEN [s EXCEPT ![FirstFree(s)] = k] ELSE <<k>> \o @]

\* Mutant: a list keeps its mutex, too.
InsertFailures_Locked(H, k) == {Outcome([H EXCEPT !.locked = env.threadsafe], "SYSTEM")}

\* Failures of lhi_insert_*: no memory for the entry; for arrays, the key (the mutex
\* stays locked) or the larger array.
InsertFailures(H, k) ==
    LET b == BucketOf(H, k)
        s == H.bucket[b]
    IN  IF ~IsArray(H) THEN {Outcome(H, "SYSTEM")}
        ELSE {Outcome([H EXCEPT !.bucket[b] = Grown(s), !.locked = env.threadsafe], "SYSTEM")}
               \cup (IF FREE \in Range(s) THEN {}
                     ELSE {Outcome([H EXCEPT !.bucket[b] = <<LOST>>], "SYSTEM")})

\* lhi_insert_list, _array, _rbtree; the latter two look for the key themselves.
EngineInsert(H, k) ==
    LET s == H.bucket[BucketOf(H, k)] IN
    IF H.coll_eng \in {"ARRAY", "RBTREE"} /\ TRUE \in FindsKey(H, k)
      THEN {Outcome(H, "DUPKEY")}
    ELSE IF IsArray(H) /\ s = <<>>
      THEN {Outcome(H, "SYSTEM"), Outcome(H, "INTERNAL")}
    ELSE {Outcome(Stores(H, k), "SUCCESS")}
           \cup (IF env.malloc_fails THEN InsertFailures(H, k) ELSE {})

\* lhi_remove_*: the first entry of k.
Removes(H, k) ==
    LET b == BucketOf(H, k)
        s == H.bucket[b]
        i == CHOOSE i \in DOMAIN s : s[i] = k /\ \A j \in 1 .. i - 1 : s[j] # k
    IN [H EXCEPT !.no_objects = @ - 1,
                 !.bucket[b] = IF IsArray(H) THEN [s EXCEPT ![i] = FREE] ELSE RemoveAt(s, i)]

\* The engine's operation on k would use the array a failed realloc has lost.
Broken(H, k) == H.table_size = 0 \/ LOST \in Range(H.bucket[BucketOf(H, k)])

(***************************************************************************)
(* The iterator.                                                           *)
(***************************************************************************)
\* The allocated ones of the first n slots, in the first of n elements; the rest stays
\* as malloc returned it.
Packed(s, n) ==
    LET allocated == {i \in 1 .. n : s[i] # FREE}
        nth(j) == {i \in allocated : Cardinality({l \in allocated : l < i}) = j - 1}
    IN [j \in 1 .. n |-> IF nth(j) = {} THEN JUNK ELSE s[Min(nth(j))]]

\* Mutant: every slot of an array bucket counts as an entry.
ToArray_AllSlots(H, b) == Packed(H.bucket[b], Len(H.bucket[b]))

\* lhi_*_bucket_to_array: array buckets copy from their first slot_size slots.
ToArray(H, b) == Packed(H.bucket[b], Stored(H, b))

\* *_get_next_bucket: from i.bucket to the first bucket with entries, whose arrays
\* may not be had.
GetNextBucket(H, i) ==
    LET nonempty == {b \in i.bucket .. H.table_size - 1 : Stored(H, b) > 0}
        b == Min(nonempty)
    IN  IF nonempty = {}
          THEN {[code |-> "NODATA", it |-> [i EXCEPT !.bucket = Max({@, H.table_size})]]}
        ELSE {[code |-> "SUCCESS",
               it |-> [i EXCEPT !.bucket = b, !.keys = ToArray(H, b), !.nmemb = Len(ToArray(H, b))]]}
          \cup (IF env.malloc_fails THEN {[code |-> "SYSTEM", it |-> [i EXCEPT !.bucket = b]]} ELSE {})

\* lhi_bucket_array_free: nmemb stays.
Freed(i) == [i EXCEPT !.keys = <<>>]

\* Mutant: the last entry of a bucket is left behind.
NextEntries_SkipsLast(H, i) ==
    IF i.nmemb > 1 THEN {[code |-> "SUCCESS", it |-> i]}
    ELSE GetNextBucket(H, [Freed(i) EXCEPT !.bucket = @ + 1])

\* hi_iterator_getnext up to the point where an entry is taken.
NextEntries(H, i) ==
    IF i.nmemb > 0 THEN {[code |-> "SUCCESS", it |-> i]}
    ELSE GetNextBucket(H, [Freed(i) EXCEPT !.bucket = @ + 1])

\* Mutant: the walk goes on where it is.
Rewound_GoesOn(i) == [Freed(i) EXCEPT !.clean = TRUE, !.seen = NoIterator.seen]

\* hi_iterator_reset up to the reading of the first bucket.
Rewound(i) == [Freed(i) EXCEPT !.bucket = 0, !.clean = TRUE, !.seen = NoIterator.seen]

\* Mutants: the entry taken stays the next one; nmemb is decremented twice.
Taken_Stays(i) == i

Taken(i) == [i EXCEPT !.nmemb = @ - 1]

\* What GetNextBucket would hang on or end the process with.
WalkHangs(H) == H.locked
WalkCrashes(H, r) == r.code = "SUCCESS" /\ r.it.nmemb > 0 /\ (r.it.keys = <<>> \/ LOST \in Range(r.it.keys))

-----------------------------------------------------------------------------
Init ==
    /\ env \in [threadsafe: BOOLEAN, malloc_fails: BOOLEAN]
    /\ set = hi_set_zero
    /\ h = NoHandle /\ it = NoIterator
    /\ pc = "setup" /\ call = NoCall
    /\ new = NoHandle /\ walk = NoIterator /\ disturbed = FALSE /\ overtaken = FALSE
    /\ failed = FALSE /\ other = NULL

Stop(end) ==
    /\ pc' = end
    /\ UNCHANGED <<env, set, h, it, call, rehash, other>>

\* The table is not any more the one the program's iterator read: which of its keys
\* are left is not followed.
Outdated(i) ==
    IF i.on THEN [i EXCEPT !.clean = FALSE, !.seen = NoIterator.seen,
                           !.keys = [j \in DOMAIN @ |-> JUNK]]
            ELSE i

(***************************************************************************)
(* Creation and destruction.                                               *)
(***************************************************************************)
Setter ==
    /\ pc = "setup"
    /\ set' \in AfterSetter(set, Engines, TableSizes, ArraySizes)
    /\ UNCHANGED <<env, h, it, pc, call, rehash, other>>

Creates(s) ==
    \/ /\ lhi_set_sanity_check(s) = "SUCCESS"
       /\ h' = NewHandle(s)
       /\ pc' = "idle" /\ set' = hi_set_zero
       /\ failed' = FALSE
       /\ UNCHANGED <<env, it, call, new, walk, disturbed, overtaken, other>>
    \/ /\ lhi_set_sanity_check(s) # "SUCCESS" \/ env.malloc_fails
       /\ UNCHANGED <<env, set, h, it, pc, call, rehash, other>>

hi_create == pc = "setup" /\ Creates(set)

\* hi_init_str and its siblings, in place of a set of the program's own.
hi_init ==
    /\ pc = "setup" /\ set = hi_set_zero
    /\ \E n \in TableSizes \cup {0}, f \in HashFunc, c \in KeyCmpFunc : Creates(DefaultSet(n, f, c))

\* lhi_fini_internal on H: array handles lock the mutex again.
FiniHangs(H) == H.locked \/ (IsArray(H) /\ env.threadsafe)
FiniCrashes(H) == \E b \in DOMAIN H.bucket : LOST \in Range(H.bucket[b])

\* The program has finished its iterator before, and the other thread its call.
hi_fini ==
    /\ pc = "idle" /\ ~it.on /\ other = NULL
    /\ IF FiniHangs(h) THEN Stop("stuck")
       ELSE IF FiniCrashes(h) THEN Stop("crashed")
       ELSE /\ h' = NoHandle
            /\ pc' = "setup"
            /\ UNCHANGED <<env, set, it, call, rehash, other>>

(***************************************************************************)
(* hi_rehash.                                                              *)
(***************************************************************************)
\* Mutant: the load has to exceed 1.
Overloaded_One(H) == H.rehash_auto /\ H.no_objects \div H.table_size > 1

\* do_rehash: an integer division; the threshold is 3/4.
Overloaded(H) == H.rehash_auto /\ 4 * (H.no_objects \div H.table_size) > 3

\* What the new handle takes over, with self-rehashing off while it is filled.
ForRehash(H, n) == NewHandle([H EXCEPT !.table_size = n, !.rehash_auto = FALSE])

\* hi_rehash returns; do_rehash ignores the code and hi_insert goes on.
RehashReturns(code) ==
    /\ pc' = IF call'.key = NULL THEN "idle" ELSE "inserting"
    /\ new' = NoHandle /\ walk' = NoIterator /\ disturbed' = FALSE /\ overtaken' = FALSE
    /\ failed' = (failed \/ code \notin {"SUCCESS", "NODATA"})

\* The new table is built and the first bucket with entries read; there is none in
\* an empty table.
RehashBegins(k, n) ==
    LET c == [key |-> k, target |-> n, was |-> Contents(h)] IN
    \/ \E r \in GetNextBucket(h, NoIterator) :
        IF WalkHangs(h) THEN Stop("stuck")
        ELSE IF WalkCrashes(h, r) THEN Stop("crashed")
        ELSE IF r.code = "SUCCESS"
          THEN /\ new' = ForRehash(h, n) /\ walk' = r.it /\ disturbed' = FALSE /\ overtaken' = FALSE
               /\ call' = c /\ pc' = "moving"
               /\ UNCHANGED <<env, set, h, it, failed, other>>
        ELSE /\ call' = [NoCall EXCEPT !.key = k] /\ RehashReturns(r.code)
             /\ UNCHANGED <<env, set, h, it, other>>
    \/ /\ env.malloc_fails
       /\ call' = [NoCall EXCEPT !.key = k] /\ RehashReturns("SYSTEM")
       /\ UNCHANGED <<env, set, h, it, other>>

hi_rehash == pc = "idle" /\ \E n \in RehashSizes : RehashBegins(NULL, n)

\* An insertion has failed: hi_fini of the new handle, and a write to it.
RehashAborts(H, code) ==
    IF FiniHangs(H) THEN Stop("stuck")
    ELSE IF FiniCrashes(H) THEN Stop("crashed")
    ELSE \/ Stop("crashed")
         \/ /\ call' = [NoCall EXCEPT !.key = call.key] /\ RehashReturns(code)
            /\ UNCHANGED <<env, set, h, it, other>>

\* One entry is taken from the iterator and inserted into the new table.  Its key belongs
\* to the old one; freed meanwhile, it may still read as before.
RehashMove ==
    /\ pc = "moving"
    /\ IF WalkHangs(h) /\ walk.nmemb = 0 THEN Stop("stuck")
       ELSE \E r \in NextEntries(h, walk) :
        LET k == r.it.keys[r.it.nmemb] IN
        IF WalkCrashes(h, r) THEN Stop("crashed")
        ELSE CASE r.code = "NODATA" ->
                    /\ pc' = "freeing" /\ walk' = NoIterator
                    /\ UNCHANGED <<env, set, h, it, call, new, disturbed, overtaken, failed, other>>
               [] r.code = "SYSTEM" ->
                    /\ call' = [NoCall EXCEPT !.key = call.key] /\ RehashReturns("SYSTEM")
                    /\ UNCHANGED <<env, set, h, it, other>>
               [] r.code = "SUCCESS" /\ (k \notin Key \/ new.table_size = 0) ->
                    Stop("crashed")
               [] OTHER ->
                    \/ k \notin Contents(h) /\ Stop("crashed")
                    \/ /\ new.coll_eng \in ListEngine /\ TRUE \in FindsKey(new, k)
                       /\ RehashAborts(new, "DUPKEY")
                    \/ /\ new.coll_eng \in ListEngine => FALSE \in FindsKey(new, k)
                       /\ \E o \in EngineInsert(new, k) :
                            IF o.code # "SUCCESS" THEN RehashAborts(o.h, o.code)
                            ELSE /\ new' = o.h /\ walk' = Taken(r.it)
                                 /\ UNCHANGED <<env, set, h, it, pc, call, disturbed, overtaken, failed, other>>

\* lhi_fini_internal of the old table.
RehashFree ==
    /\ pc = "freeing"
    /\ IF FiniHangs(h) THEN Stop("stuck")
       ELSE IF FiniCrashes(h) THEN Stop("crashed")
       ELSE /\ pc' = "copying"
            /\ UNCHANGED <<env, set, h, it, call, rehash, other>>

\* Mutant: the old size stays in the handle.
RehashCopy_KeepsSize ==
    /\ pc = "copying"
    /\ h' = [new EXCEPT !.rehash_auto = h.rehash_auto, !.table_size = h.table_size]
    /\ it' = Outdated(it)
    /\ call' = [NoCall EXCEPT !.key = call.key] /\ RehashReturns("SUCCESS")
    /\ UNCHANGED <<env, set, other>>

\* memcpy of the new handle over the old.
RehashCopy ==
    /\ pc = "copying"
    /\ h' = [new EXCEPT !.rehash_auto = h.rehash_auto]
    /\ it' = Outdated(it)
    /\ call' = [NoCall EXCEPT !.key = call.key] /\ RehashReturns("SUCCESS")
    /\ UNCHANGED <<env, set, other>>

(***************************************************************************)
(* Insertion and removal.                                                  *)
(***************************************************************************)
hi_insert ==
    /\ pc = "idle" /\ h.no_objects + Pending(other) < MaxObjects
    /\ \E k \in Key :
        IF h.locked THEN Stop("stuck")
        ELSE
        \/ /\ h.coll_eng \in ListEngine /\ TRUE \in FindsKey(h, k)
           /\ UNCHANGED <<env, set, h, it, pc, call, rehash, other>>
        \/ /\ h.coll_eng \in ListEngine => FALSE \in FindsKey(h, k)
           /\ IF Overloaded(h) THEN RehashBegins(k, 2 * h.table_size)
              ELSE /\ pc' = "inserting" /\ call' = [NoCall EXCEPT !.key = k]
                   /\ UNCHANGED <<env, set, h, it, rehash, other>>

InsertEntry ==
    /\ pc = "inserting"
    /\ IF h.locked THEN Stop("stuck")
       ELSE IF Broken(h, call.key) THEN Stop("crashed")
       ELSE \E o \in EngineInsert(h, call.key) :
            /\ h' = o.h
            /\ it' = IF o.h = h THEN it ELSE Outdated(it)
            /\ pc' = "idle" /\ call' = NoCall
            /\ UNCHANGED <<env, set, rehash, other>>

hi_remove ==
    /\ pc = "idle"
    /\ \E k \in Key :
        IF h.locked /\ h.coll_eng = "ARRAY" THEN Stop("stuck")
        ELSE IF h.coll_eng = "ARRAY" /\ Broken(h, k) THEN Stop("crashed")
        ELSE \E found \in FindsKey(h, k) :
            /\ h' = IF found THEN Removes(h, k) ELSE h
            /\ it' = IF found THEN Outdated(it) ELSE it
            /\ UNCHANGED <<env, set, pc, call, rehash, other>>

(***************************************************************************)
(* The other thread.  It does not itself rehash and, a bound, changes the  *)
(* table at most once during a call of hi_rehash.                          *)
(***************************************************************************)
\* hi_insert up to do_rehash, which finds no reason for a rehash yet.
OtherTests ==
    /\ env.threadsafe /\ pc \in {"idle", "inserting", "moving", "freeing"} /\ ~disturbed
    /\ other = NULL /\ ~h.locked /\ h.no_objects + Pending(call.key) < MaxObjects
    /\ \E k \in Key :
        /\ ~Broken(h, k) /\ ~Overloaded(h)
        /\ h.coll_eng \in ListEngine => FALSE \in FindsKey(h, k)
        /\ other' = k
    /\ UNCHANGED <<env, set, h, it, pc, call, rehash>>

\* The rest of that hi_insert, whatever has happened since; or hi_remove.
OtherChanges(k) ==
    /\ ~h.locked /\ ~Broken(h, k)
    /\ \/ other = k /\ other' = NULL /\ \E o \in EngineInsert(h, k) : h' = o.h
       \/ other = NULL /\ TRUE \in FindsKey(h, k) /\ h' = Removes(h, k) /\ UNCHANGED other

OtherCompletes ==
    /\ env.threadsafe /\ pc \in {"idle", "inserting", "moving", "freeing"} /\ ~disturbed
    /\ \E k \in Key : OtherChanges(k)
    /\ disturbed' = (pc \in {"moving", "freeing"})
    /\ it' = Outdated(it)
    /\ UNCHANGED <<env, set, pc, call, new, walk, overtaken, failed>>

\* What a walk of the n entries of a tree may yield that was s when it read the root: from
\* a root that has come down since it sees a part of the tree, and an old root may be
\* freed.  An insertion into a tree of one leaves the root where it is.
TreeMisread(s, n) ==
    {t \in [1 .. n -> Key \cup {JUNK}] : n > Len(s) => Len(s) > 1 /\ t[1] \in Range(s)}

\* What a walk of the list s may yield while hi_get moves entry i: it misses the entry,
\* or follows it to the front and begins again.  Any entry may be one behind the front:
\* the order hi_get has given an MTF list is not followed.
ListMisread(s) ==
    {t \in [1 .. Len(s) -> Key \cup {JUNK}] : Len(s) > 1 /\ \E i \in DOMAIN s :
        \/ SubSeq(t, 1, Len(s) - 1) = RemoveAt(s, i)
        \/ t = SubSeq(SubSeq(s, 1, i) \o RemoveAt(s, i), 1, Len(s))}

\* hi_rehash reads bucket r.it.bucket of a tree; when it has read the root, the other
\* thread's call changes the bucket.
TreeOvertaken(r) ==
    LET b == r.it.bucket IN
    /\ h.coll_eng = "RBTREE"
    /\ \E k \in Key : BucketOf(h, k) = b /\ OtherChanges(k)
    /\ it' = Outdated(it)
    /\ \E n \in {Stored(h', b)} \ {0, Stored(h, b)} : \E t \in TreeMisread(h.bucket[b], n) :
          walk' = [r.it EXCEPT !.keys = t, !.nmemb = n]

\* It reads a bucket of an MTF list, in which hi_get, without the mutex, moves an entry.
ListOvertaken(r) ==
    /\ h.coll_eng = "LIST_MTF" /\ other = NULL
    /\ \E t \in ListMisread(h.bucket[r.it.bucket]) : walk' = [r.it EXCEPT !.keys = t]
    /\ UNCHANGED <<h, it, other>>

ReadOvertaken ==
    /\ env.threadsafe /\ pc = "moving" /\ ~disturbed
    /\ \E r \in NextEntries(h, walk) :
        /\ r.code = "SUCCESS" /\ r.it.nmemb = Len(r.it.keys)
        /\ TreeOvertaken(r) \/ ListOvertaken(r)
    /\ disturbed' = TRUE /\ overtaken' = TRUE
    /\ UNCHANGED <<env, set, pc, call, new, failed>>

\* The other thread uses the freed table; or the walk that begins again goes on behind
\* the end of its arrays.
OtherFaults ==
    /\ env.threadsafe /\ ~disturbed
    /\ \/ pc = "copying"
       \/ pc = "moving" /\ h.coll_eng = "LIST_MTF" /\ \E b \in DOMAIN h.bucket : Stored(h, b) > 1
    /\ pc' = "crashed" /\ disturbed' = TRUE
    /\ UNCHANGED <<env, set, h, it, call, new, walk, overtaken, failed, other>>

Other == OtherTests \/ OtherCompletes \/ ReadOvertaken \/ OtherFaults

(***************************************************************************)
(* The program's iterator.                                                 *)
(***************************************************************************)
hi_iterator_create ==
    /\ pc = "idle" /\ ~it.on
    /\ IF WalkHangs(h) THEN Stop("stuck")
       ELSE
       \/ \E r \in GetNextBucket(h, NoIterator) :
            IF WalkCrashes(h, r) THEN Stop("crashed")
            ELSE /\ it' = IF r.code = "SUCCESS" THEN [r.it EXCEPT !.on = TRUE, !.clean = TRUE] ELSE it
                 /\ UNCHANGED <<env, set, h, pc, call, rehash, other>>
       \/ /\ env.malloc_fails
          /\ UNCHANGED <<env, set, h, it, pc, call, rehash, other>>

\* A walk that failed is not a clean one any more.
Failing(code, i) == IF code = "SYSTEM" THEN Outdated(i) ELSE i

\* Bound: not called again once it is behind the table.
hi_iterator_getnext ==
    /\ pc = "idle" /\ it.on /\ it.bucket <= h.table_size
    /\ IF WalkHangs(h) /\ it.nmemb = 0 THEN Stop("stuck")
       ELSE \E r \in NextEntries(h, it) :
        IF WalkCrashes(h, r) THEN Stop("crashed")
        ELSE /\ it' = IF r.code # "SUCCESS" THEN Failing(r.code, r.it)
                      ELSE IF r.it.clean /\ r.it.keys[r.it.nmemb] \in Key
                        THEN [Taken(r.it) EXCEPT !.seen[r.it.keys[r.it.nmemb]] = @ + 1]
                      ELSE Outdated(Taken(r.it))
             /\ UNCHANGED <<env, set, h, pc, call, rehash, other>>

hi_iterator_reset ==
    /\ pc = "idle" /\ it.on
    /\ IF WalkHangs(h) THEN Stop("stuck")
       ELSE \E r \in GetNextBucket(h, Rewound(it)) :
        IF r.code = "SUCCESS" /\ WalkCrashes(h, r) THEN Stop("crashed")
        ELSE /\ it' = Failing(r.code, r.it)
             /\ UNCHANGED <<env, set, h, pc, call, rehash, other>>

hi_iterator_fini ==
    /\ pc = "idle" /\ it.on
    /\ it' = NoIterator
    /\ UNCHANGED <<env, set, h, pc, call, rehash, other>>

Library == RehashMove \/ RehashFree \/ RehashCopy \/ InsertEntry

Next ==
    \/ Setter \/ hi_create \/ hi_init \/ hi_fini
    \/ hi_rehash \/ hi_insert \/ hi_remove \/ Library \/ Other
    \/ hi_iterator_create \/ hi_iterator_getnext \/ hi_iterator_reset \/ hi_iterator_fini

Spec == Init /\ [][Next]_vars
-----------------------------------------------------------------------------
(***************************************************************************)
(* Properties.                                                             *)
(***************************************************************************)
\* The places of the table's entries: bucket and slot.
Entries(H) ==
    UNION {{b} \X {i \in DOMAIN H.bucket[b] : H.bucket[b][i] \in Key} : b \in DOMAIN H.bucket}

Placed(H) ==
    /\ \A b \in DOMAIN H.bucket : \A k \in Key :
        k \in Range(H.bucket[b]) => b = BucketOf(H, k)
    /\ ~FiniCrashes(H) => H.no_objects = Cardinality(Entries(H))

\* Every entry is in the bucket its key hashes to under the size the handle has, and
\* no_objects counts the entries, also after the table has been replaced by one of
\* another size (lib_init.c:461-484).
EntriesPlaced == Placed(h) /\ Placed(new)

\* hi_rehash gives the handle the size asked for and, when nobody disturbs it, keeps every
\* entry, doublets included.  When the other thread inserts or removes an entry between
\* two of its steps, an entry that is in the old table all the time is in the new one.
\* Only a bucket that changes while it is read (hi_rbtree.c:410-414, hi_list.c:248) loses
\* others (lib_init.c:461-484).
RehashKeepsEntries ==
    [][pc = "copying" /\ pc' # "crashed" =>
        /\ h'.table_size = call.target
        /\ ~overtaken => call.was \cap Contents(h) \subseteq Contents(h')
        /\ ~disturbed => \A k \in Key : CountOf(h', k) = CountOf(h, k)]_vars

\* A handle that rehashes itself is never fuller than one entry per bucket - the
\* threshold of 0.75 meets an integer quotient - and one more: the other thread may insert
\* on a test it made before the table was full, or before the size it will have was
\* chosen.  So until a rehash fails, which in a list a doublet makes it, as long as
\* hi_rehash does not make the table too small, and with one change by the other thread
\* during a call of it: were there more, an entry it removes when it is moved and one it
\* inserts ahead of the walk would both reach the new table (hi_operations.c:139-182).
LoadBounded ==
    h.rehash_auto /\ ~failed /\ (\A n \in RehashSizes : n = 0 \/ n >= MaxObjects) =>
        h.no_objects <= h.table_size + 1

\* The iterator of a table that does not change yields every entry exactly once
\* before it answers HI_ERR_NODATA, also after a reset (hi_iterator.c:91-223).
IteratorExact ==
    it.on /\ it.clean /\ it.nmemb = 0 /\ it.bucket >= h.table_size =>
        \A k \in Key : it.seen[k] = CountOf(h, k)

\* When allocations succeed, the process ends only by the iterator of a table that was
\* empty at its reset, or in hi_rehash: of an array with a hole, whose walk reads what
\* was left uninitialised, to size 0, of a list with a doublet, whose new handle is
\* freed and then written to, or with another thread's use of the handle meanwhile
\* (hi_array.c:207-218, hi_iterator.c:161, lib_init.c:463-468).
CrashesOnlyThere ==
    pc = "crashed" /\ ~env.malloc_fails =>
        \/ it.on /\ it.keys = <<>> /\ it.nmemb > 0
        \/ new # NoHandle /\ (HasHole(h) \/ HasDoublet(h) \/ call.target = 0 \/ disturbed)

\* A call that never returns has met a locked mutex: its own array handle's, or the
\* one a failed insertion of a key has left locked (hi_array.c:285, 312).
StuckOnlyInArrays == pc = "stuck" => IsArray(h) /\ env.threadsafe

\* The places of the entries in buckets from n on, and the number of entries an iterator
\* has still to yield.
Ahead(H, n) == UNION {{b} \X Held(H.bucket[b]) : b \in n .. H.table_size - 1}
ToCome(H, i) == i.nmemb + Cardinality(Ahead(H, i.bucket + 1))

\* hi_rehash comes to an end: every entry it moves leaves fewer to come, and a call of the
\* other thread, in the table or in the bucket being read, adds at most the one it
\* inserts (lib_init.c:461-471).
RehashAdvances ==
    [][pc = "moving" /\ pc' = "moving" =>
        \/ ToCome(h', walk') < ToCome(h, walk)
        \/ ~disturbed /\ disturbed' /\ ToCome(h', walk') <= ToCome(h, walk) + 1
      ]_<<h, new, walk, disturbed>>
=============================================================================
