----------------------------- MODULE ArrayTable -----------------------------
(***************************************************************************)
(* A hashish handle with an array engine (lib/hi_array.c behind            *)
(* lib/hi_operations.c) in a THREADSAFE build, shared by several threads.  *)
(*                                                                         *)
(* A bucket is an array of slot_max slots of which slot_size are allocated;*)
(* a removal leaves a hole, an insertion takes the first free slot and     *)
(* doubles the array when it has none.  Only COLL_ENG_ARRAY is finished:   *)
(* in the other three engines hi_get and hi_remove are FIXMEs that answer  *)
(* HI_ERR_NOKEY without looking at the table.  An access to an array that  *)
(* a failed realloc() replaced by NULL ends the process.                   *)
(***************************************************************************)
EXTENDS Integers, FiniteSets, SequencesExt

CONSTANTS
    Thread,        \* the threads that share the handle
    Key,           \* the keys
    Data,          \* the data pointers a caller may store
    None,          \* no key, no data, no bucket
    NoOwner,       \* the mutex is free
    TableSize,     \* table_size
    Hash,          \* hash_func, a function [Key -> Nat]
    CollEngs,      \* the engines the handle may have been created with
    ArraySize,     \* coll_eng_array_size, the slots of a new bucket
    Ops,           \* the operations the threads call
    InsertKeys,    \* InsertKeys[t]: the keys thread t inserts
    KeyMayFail,    \* whether XMALLOC of a key may return an error
    GrowMayFail,   \* whether realloc of a bucket may return NULL
    MaxCalls       \* bound: the calls each thread makes

Bucket == 0 .. TableSize - 1

ASSUME ArrayTableAssumption ==
    /\ TableSize \in Nat \ {0}
    /\ Hash \in [Key -> Nat]
    /\ CollEngs \subseteq {"ARRAY", "ARRAY_HASH", "ARRAY_DYN", "ARRAY_DYN_HASH"}
    /\ ArraySize \in Nat
    /\ "ARRAY" \in CollEngs => ArraySize # 0   \* lhi_set_sanity_array
    /\ Ops \subseteq {"insert", "get", "remove", "to_array"}
    /\ InsertKeys \in [Thread -> SUBSET Key]
    /\ KeyMayFail \in BOOLEAN /\ GrowMayFail \in BOOLEAN
    /\ MaxCalls \in Nat
    /\ NoOwner \notin Thread
    /\ None \notin Data /\ None \notin Key

VARIABLES
    coll_eng,     \* coll_eng
    slots,        \* bucket_array[b]: the slots of bucket b; <<>> for NULL
    slot_size,    \* bucket_array_slot_size[b]
    slot_max,     \* bucket_array_slot_max[b]
    no_objects,   \* no_objects
    mutex,        \* the thread that holds mutex_lock, or NoOwner
    pc,           \* pc[t]: the next step of t
    call,         \* call[t]: the call t makes or made last
    slot,         \* slot[t]: the free slot the insertion of t has chosen
    reply,        \* reply[t]: the return value of t's last call
    calls         \* calls[t]: how many calls t has made

table == <<coll_eng, slots, slot_size, slot_max, no_objects>>

vars == <<table, mutex, pc, call, slot, reply, calls>>

BucketOf(k) == Hash[k] % TableSize

Free == [key |-> None, data |-> None]  \* BA_NOT_ALLOCATED

Slot == [key: Key, data: Data] \cup {Free}

NoReply == [code |-> "NONE", data |-> None, content |-> <<>>, lengths |-> <<>>]

NoCall == [op |-> "none", key |-> None, data |-> None, bucket |-> None]

CallsOf(t) ==
    {c \in {[op |-> "insert", key |-> k, data |-> d, bucket |-> BucketOf(k)]
              : k \in InsertKeys[t], d \in Data}
             \cup {[op |-> op, key |-> k, data |-> None, bucket |-> BucketOf(k)]
              : op \in {"get", "remove"}, k \in Key}
             \cup {[op |-> "to_array", key |-> None, data |-> None, bucket |-> b]
              : b \in Bucket}
       : c.op \in Ops}

(***************************************************************************)
(* The scan of lhi_get_array and lhi_remove_array: it skips the holes and  *)
(* stops at the key or once it has checked slot_size allocated slots.      *)
(***************************************************************************)
Allocated(s) == {i \in DOMAIN s : s[i] # Free}

\* Mutant: the holes are counted as checked elements.
Checked_WithHoles(s, i) == i - 1

\* already_checked when the scan arrives at slot i.
Checked(s, i) == Cardinality({j \in Allocated(s) : j < i})

Hits(b, k) ==
    {i \in Allocated(slots[b]) :
        slots[b][i].key = k /\ Checked(slots[b], i) < slot_size[b]}

First(S) == CHOOSE i \in S : \A j \in S : i <= j

\* bucket_array[b] is NULL though it should have slots: touching one is a crash.
Lost(b) == Len(slots[b]) < slot_max[b]

\* The scan and the walk touch no slot of a bucket they believe to be empty.
Readable(b) == slot_size[b] > 0 => ~ Lost(b)

(***************************************************************************)
(* The steps.                                                              *)
(***************************************************************************)
Goto(t, l) == pc' = [pc EXCEPT ![t] = l]

Return(t, code, data) ==
    reply' = [reply EXCEPT ![t] = [NoReply EXCEPT !.code = code, !.data = data]]

\* Mutant: the lock is not taken in earnest.
Acquire_Blind(t) == mutex' = t

Acquire(t) == mutex = NoOwner /\ mutex' = t

Release(t) == mutex' = NoOwner

Init ==
    /\ coll_eng \in CollEngs
    /\ slots = [b \in Bucket |-> [i \in 1 .. ArraySize |-> Free]]
    /\ slot_size = [b \in Bucket |-> 0]
    /\ slot_max = [b \in Bucket |-> ArraySize]
    /\ no_objects = 0
    /\ mutex = NoOwner
    /\ pc = [t \in Thread |-> "idle"]
    /\ call = [t \in Thread |-> NoCall]
    /\ slot = [t \in Thread |-> 0]
    /\ reply = [t \in Thread |-> NoReply]
    /\ calls = [t \in Thread |-> 0]

Begin(t) ==
    /\ pc[t] = "idle"
    /\ calls[t] < MaxCalls
    /\ calls' = [calls EXCEPT ![t] = @ + 1]
    /\ \E c \in CallsOf(t) :
        /\ call' = [call EXCEPT ![t] = c]
        /\ Goto(t, IF c.op = "to_array" THEN "lock" ELSE "scan_lock")
    /\ reply' = [reply EXCEPT ![t] = NoReply]
    /\ UNCHANGED <<table, mutex, slot>>

\* The engines whose scan is a FIXME.
ScanNothing(t) ==
    /\ pc[t] = "scan_lock"
    /\ coll_eng # "ARRAY"
    /\ IF call[t].op = "insert"
         THEN Goto(t, "lock") /\ UNCHANGED reply
         ELSE Return(t, "NOKEY", None) /\ Goto(t, "idle")
    /\ UNCHANGED <<table, mutex, call, slot, calls>>

ScanLock(t) ==
    /\ pc[t] = "scan_lock"
    /\ coll_eng = "ARRAY"
    /\ Acquire(t)
    /\ Goto(t, "scan")
    /\ UNCHANGED <<table, call, slot, reply, calls>>

\* The scan, the search for a free slot or the walk reads through NULL: the process
\* and all its threads are gone.
Crash(t) ==
    /\ \/ pc[t] \in {"scan", "copy"} /\ ~ Readable(call[t].bucket)
       \/ pc[t] = "find" /\ Lost(call[t].bucket)
    /\ pc' = [u \in Thread |-> "dead"]
    /\ UNCHANGED <<table, mutex, call, slot, reply, calls>>

\* lhi_get_array, for hi_get and for the duplicate check of lhi_insert_array.
ScanGet(t) ==
    LET c == call[t]
        hits == Hits(c.bucket, c.key)
    IN
    /\ pc[t] = "scan" /\ c.op \in {"get", "insert"}
    /\ Readable(c.bucket)
    /\ \/ /\ hits # {} /\ c.op = "get"
          /\ Return(t, "SUCCESS", slots[c.bucket][First(hits)].data)
          /\ Goto(t, "unlock")
       \/ /\ hits # {} /\ c.op = "insert"
          /\ Return(t, "DUPKEY", None)
          /\ Goto(t, "unlock")
       \/ /\ hits = {} /\ c.op = "get"
          /\ Return(t, "NOKEY", None)
          /\ Goto(t, "unlock")
       \/ /\ hits = {} /\ c.op = "insert"
          /\ Goto(t, "scan_unlock")
          /\ UNCHANGED reply
    /\ UNCHANGED <<table, mutex, call, slot, calls>>

ScanRemove(t) ==
    LET c == call[t]
        hits == Hits(c.bucket, c.key)
    IN
    /\ pc[t] = "scan" /\ c.op = "remove"
    /\ Readable(c.bucket)
    /\ Goto(t, "unlock")
    /\ IF hits = {}
         THEN Return(t, "NOKEY", None) /\ UNCHANGED table
         ELSE /\ Return(t, "SUCCESS", slots[c.bucket][First(hits)].data)
              /\ slots' = [slots EXCEPT ![c.bucket][First(hits)] = Free]
              /\ slot_size' = [slot_size EXCEPT ![c.bucket] = @ - 1]
              /\ no_objects' = no_objects - 1
              /\ UNCHANGED slot_max
    /\ UNCHANGED <<coll_eng, mutex, call, slot, calls>>

\* Mutant: after a scan without a hit the insertion scans again.
ScanUnlock_Again(t) ==
    /\ pc[t] = "scan_unlock"
    /\ Release(t)
    /\ Goto(t, "scan_lock")
    /\ UNCHANGED <<table, call, slot, reply, calls>>

ScanUnlock(t) ==
    /\ pc[t] = "scan_unlock"
    /\ Release(t)
    /\ Goto(t, "lock")
    /\ UNCHANGED <<table, call, slot, reply, calls>>

Lock(t) ==
    /\ pc[t] = "lock"
    /\ Acquire(t)
    /\ Goto(t, IF call[t].op = "insert" THEN "grow" ELSE "copy")
    /\ UNCHANGED <<table, call, slot, reply, calls>>

\* Mutant: the array grows only when it is over-full.
Full_OffByOne(b) == slot_size[b] > slot_max[b]

Full(b) == slot_size[b] >= slot_max[b]

NoGrowth(t) ==
    /\ pc[t] = "grow"
    /\ ~ Full(call[t].bucket)
    /\ Goto(t, "find")
    /\ UNCHANGED <<table, mutex, call, slot, reply, calls>>

\* A full bucket doubles.  An array of no slots stays one of no slots:
\* realloc(p, 0) returns NULL or a block without room, as malloc(0) may.
Grow(t) ==
    LET b == call[t].bucket
        new == 2 * slot_max[b]
    IN
    /\ pc[t] = "grow"
    /\ Full(b)
    /\ slot_max' = [slot_max EXCEPT ![b] = new]
    /\ slots' = [slots EXCEPT ![b] = @ \o [i \in 1 .. new - slot_max[b] |-> Free]]
    /\ Goto(t, "find")
    /\ UNCHANGED <<coll_eng, slot_size, no_objects, mutex, call, slot, reply, calls>>

\* Mutant: the bucket that was lost passes for an empty one.
GrowFails_Empties(t) ==
    LET b == call[t].bucket IN
    /\ pc[t] = "grow"
    /\ Full(b)
    /\ GrowMayFail \/ slot_max[b] = 0
    /\ slot_max' = [slot_max EXCEPT ![b] = 2 * @]
    /\ slots' = [slots EXCEPT ![b] = <<>>]
    /\ slot_size' = [slot_size EXCEPT ![b] = 0]
    /\ Return(t, "SYSTEM", None)
    /\ Goto(t, "unlock")
    /\ UNCHANGED <<coll_eng, no_objects, mutex, call, slot, calls>>

\* realloc() returns NULL: slot_max is already doubled and the array is gone.
GrowFails(t) ==
    LET b == call[t].bucket IN
    /\ pc[t] = "grow"
    /\ Full(b)
    /\ GrowMayFail \/ slot_max[b] = 0
    /\ slot_max' = [slot_max EXCEPT ![b] = 2 * @]
    /\ slots' = [slots EXCEPT ![b] = <<>>]
    /\ Return(t, "SYSTEM", None)
    /\ Goto(t, "unlock")
    /\ UNCHANGED <<coll_eng, slot_size, no_objects, mutex, call, slot, calls>>

\* The first free slot.
Find(t) ==
    LET free == {i \in DOMAIN slots[call[t].bucket] : slots[call[t].bucket][i] = Free} IN
    /\ pc[t] = "find"
    /\ ~ Lost(call[t].bucket)
    /\ IF free = {}
         THEN /\ Return(t, "INTERNAL", None)
              /\ Goto(t, "unlock")
              /\ UNCHANGED slot
         ELSE /\ slot' = [slot EXCEPT ![t] = First(free)]
              /\ Goto(t, "place")
              /\ UNCHANGED reply
    /\ UNCHANGED <<table, mutex, call, calls>>

\* The copy of the key cannot be allocated: return without unlocking.
KeyFails(t) ==
    /\ pc[t] = "place"
    /\ KeyMayFail
    /\ Return(t, "SYSTEM", None)
    /\ Goto(t, "idle")
    /\ UNCHANGED <<table, mutex, call, slot, calls>>

Place(t) ==
    LET c == call[t] IN
    /\ pc[t] = "place"
    /\ slots' = [slots EXCEPT ![c.bucket][slot[t]] = [key |-> c.key, data |-> c.data]]
    /\ slot_size' = [slot_size EXCEPT ![c.bucket] = @ + 1]
    /\ no_objects' = no_objects + 1
    /\ Return(t, "SUCCESS", None)
    /\ Goto(t, "unlock")
    /\ UNCHANGED <<coll_eng, slot_max, mutex, call, slot, calls>>

(***************************************************************************)
(* lhi_array_bucket_to_array: the arrays have slot_size elements and only  *)
(* the first slot_size slots are looked at.  Entries are packed in data    *)
(* and keys, but their lengths go where the slot was.  An element nothing  *)
(* was written to holds what malloc() left there (None).  A length is      *)
(* represented by the key it is the length of.                             *)
(***************************************************************************)
\* Mutant: an entry is copied to the position of its slot.
Packed_InPlace(s, n) == s

Packed(s, n) ==
    LET nth(j) == {i \in Allocated(s) : i <= n /\ Checked(s, i) = j - 1}
    IN [j \in 1 .. n |-> IF nth(j) = {} THEN Free ELSE s[First(nth(j))]]

Copy(t) ==
    LET b == call[t].bucket
        n == slot_size[b]
    IN
    /\ pc[t] = "copy"
    /\ Readable(b)
    /\ IF n = 0
         THEN Return(t, "NODATA", None)
         ELSE reply' = [reply EXCEPT ![t] =
                [code |-> "SUCCESS", data |-> None,
                 content |-> Packed(slots[b], n),
                 lengths |-> [i \in 1 .. n |-> slots[b][i].key]]]
    /\ Goto(t, "unlock")
    /\ UNCHANGED <<table, mutex, call, slot, calls>>

CopyFails(t) ==
    /\ pc[t] = "copy"
    /\ KeyMayFail
    /\ slot_size[call[t].bucket] > 0
    /\ Return(t, "SYSTEM", None)
    /\ Goto(t, "unlock")
    /\ UNCHANGED <<table, mutex, call, slot, calls>>

Unlock(t) ==
    /\ pc[t] = "unlock"
    /\ Release(t)
    /\ Goto(t, "idle")
    /\ UNCHANGED <<table, call, slot, reply, calls>>

Step(t) ==
    \/ ScanNothing(t) \/ ScanLock(t) \/ ScanGet(t) \/ ScanRemove(t) \/ ScanUnlock(t)
    \/ Lock(t) \/ NoGrowth(t) \/ Grow(t) \/ GrowFails(t) \/ Find(t) \/ KeyFails(t)
    \/ Place(t) \/ Copy(t) \/ CopyFails(t) \/ Unlock(t) \/ Crash(t)

\* Every thread has made its calls and returned, or the process is dead.
Finished ==
    /\ \A t \in Thread : pc[t] = "dead" \/ (pc[t] = "idle" /\ calls[t] = MaxCalls)
    /\ UNCHANGED vars

Next == (\E t \in Thread : Begin(t) \/ Step(t)) \/ Finished

\* The scheduler runs every thread that can run; a thread waits for the mutex
\* behind finitely many calls of the others.
Fairness == \A t \in Thread : WF_vars(Step(t))

Spec == Init /\ [][Next]_vars /\ Fairness
-----------------------------------------------------------------------------
(***************************************************************************)
(* Properties.                                                             *)
(***************************************************************************)

PC == {"idle", "scan_lock", "scan", "scan_unlock", "lock", "grow", "find", "place",
       "copy", "unlock", "dead"}

Code == {"NONE", "SUCCESS", "SYSTEM", "NODATA", "NOKEY", "DUPKEY", "INTERNAL"}

\* Types of the variables; slot_size and no_objects, unsigned in the code, never
\* drop below zero (hi_array.c:161-162).
TypeOK ==
    /\ coll_eng \in CollEngs
    /\ slots \in [Bucket -> Seq(Slot)]
    /\ slot_size \in [Bucket -> Nat] /\ slot_max \in [Bucket -> Nat]
    /\ no_objects \in Nat
    /\ mutex \in Thread \cup {NoOwner}
    /\ \A t \in Thread : call[t] \in CallsOf(t) \cup {NoCall}
    /\ slot \in [Thread -> Nat]
    /\ \A t \in Thread : reply[t].code \in Code /\ reply[t].data \in Data \cup {None}
    /\ calls \in [Thread -> 0 .. MaxCalls]
    /\ pc \in [Thread -> PC]

Bound(b) == {<<b, i>> : i \in Allocated(slots[b])}

\* Whenever the mutex is free the counters describe the arrays: slot_size the
\* allocated slots of every bucket, no_objects those of the table, and slot_max
\* never claims more slots than there are (hi_array.c:252-300); a bucket lost to a
\* failed realloc is excepted.
CountersAgree ==
    mutex = NoOwner =>
        /\ \A b \in Bucket : ~ Lost(b) =>
              slot_size[b] = Cardinality(Allocated(slots[b])) /\ slot_max[b] = Len(slots[b])
        /\ (\A b \in Bucket : ~ Lost(b)) =>
              no_objects = Cardinality(UNION {Bound(b) : b \in Bucket})

\* No key is twice in the table when no two threads insert the same one
\* (man/libhashish.pod:123-124).
UniqueKeys ==
    \A b \in Bucket : \A i, j \in Allocated(slots[b]) :
        slots[b][i].key = slots[b][j].key => i = j

\* hi_get "return for a given key the correspond data entry" (hi_operations.c:59).
\* The scan stops once it has seen slot_size elements (hi_array.c:54-64); however
\* the holes lie, at the moment hi_get or hi_remove answers HI_ERR_NOKEY the key is
\* not in the table.
NoKeyMeansAbsent ==
    [][\A t \in Thread :
         reply'[t].code = "NOKEY" /\ reply[t].code # "NOKEY" =>
            \A i \in Allocated(slots[call[t].bucket]) :
                slots[call[t].bucket][i].key # call[t].key]_vars

\* "should never happened" (hi_array.c:303): after the growth of the array an
\* insertion always finds a free slot.
FreeSlotFound == \A t \in Thread : reply[t].code # "INTERNAL"

\* The elements lhi_array_bucket_to_array has written to.
Written(t) == {j \in DOMAIN reply[t].content : reply[t].content[j] # Free}

\* The walk copies each entry of the first slot_size slots once, puts them in the
\* first elements, and misses exactly the entries beyond.  Up to the first hole every
\* key comes with its length; at a hole no length is written (hi_array.c:206-218).
WalkMissesTail ==
    \A t \in Thread :
        LET s == slots[call[t].bucket]
            n == slot_size[call[t].bucket]
        IN pc[t] = "unlock" /\ call[t].op = "to_array" /\ reply[t].code = "SUCCESS" =>
            /\ {reply[t].content[j] : j \in Written(t)} = {s[i] : i \in {j \in Allocated(s) : j <= n}}
            /\ Written(t) = 1 .. n - Cardinality({j \in Allocated(s) : j > n})
            /\ \A j \in 1 .. n :
                 /\ 1 .. j \subseteq Allocated(s) => reply[t].lengths[j] = reply[t].content[j].key
                 /\ j \notin Allocated(s) => reply[t].lengths[j] = None

\* A bucket lost to a failed realloc is never mistaken for one without the key:
\* the only call that comes back from it is the one that reports HI_ERR_SYSTEM.
NoSilentLoss ==
    \A t \in Thread :
        pc[t] = "unlock" /\ Lost(call[t].bucket) => reply[t].code = "SYSTEM"

-----------------------------------------------------------------------------
(***************************************************************************)
(* Without bucket walks the table implements the dictionary.               *)
(***************************************************************************)
DictOf(k) ==
    LET b == BucketOf(k) IN
    IF Hits(b, k) = {} THEN None ELSE slots[b][First(Hits(b, k))].data

Stage(t) ==
    IF pc[t] = "idle" THEN "idle"
    ELSE IF reply[t] = NoReply THEN "called" ELSE "done"

Abstract == INSTANCE Dictionary WITH
    Home <- [k \in Key |-> BucketOf(k)],
    dict <- [k \in Key |-> DictOf(k)],
    stage <- [t \in Thread |-> Stage(t)],
    reply <- [t \in Thread |-> [code |-> reply[t].code, data |-> reply[t].data, content |-> {}]]

\* hi_insert, hi_get and hi_remove of COLL_ENG_ARRAY behave as atomic operations
\* of a map, however the threads' critical sections interleave
\* (hi_operations.c:36-182).
ImplementsDictionary == Abstract!Safety

\* Every call takes effect and returns: nobody keeps the mutex, and nobody waits
\* for it forever (hi_operations.c:36-182).
EveryCallReturns == Abstract!Fairness
=============================================================================
