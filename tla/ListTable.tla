----------------------------- MODULE ListTable ------------------------------
(***************************************************************************)
(* A hashish handle with one of the chaining engines whose every access is *)
(* made under the handle's mutex: COLL_ENG_LIST, COLL_ENG_LIST_HASH and    *)
(* COLL_ENG_LIST_MTF_HASH (lib/hi_list.c behind lib/hi_operations.c), in a *)
(* THREADSAFE build, shared by several threads.                            *)
(*                                                                         *)
(* A bucket's chain is a sequence of entries, head first.  A call is the   *)
(* steps its C function makes: hi_insert locks the mutex for its lookup,   *)
(* unlocks it, and locks it again for lhi_insert_list; between the two any *)
(* other thread may run.  Inside a critical section the walk of the chain, *)
(* the pointer stores and the update of the counters are steps of their    *)
(* own, and the stores use the chain as the walk saw it.  Self-rehashing   *)
(* is off, as hi_set_zero leaves it.                                       *)
(***************************************************************************)
EXTENDS Integers, FiniteSets, SequencesExt

CONSTANTS
    Thread,         \* the threads that share the handle
    Key,            \* the keys
    Data,           \* the data pointers a caller may store
    None,           \* no key, no data, no bucket
    NoOwner,        \* the mutex is free
    TableSize,      \* table_size
    Hash,           \* hash_func, a function [Key -> Nat]
    HashVal,        \* values of the second hash
    Hash2,          \* hash2_func, a function [Key -> HashVal]
    CollEng,        \* coll_eng
    InsertKeys,     \* InsertKeys[t]: the keys thread t inserts
    MallocMayFail,  \* whether XMALLOC may return an error
    MaxCalls        \* bound: the calls each thread makes

Bucket == 0 .. TableSize - 1

ASSUME ListTableAssumption ==
    /\ TableSize \in Nat \ {0}
    /\ Hash \in [Key -> Nat]
    /\ Hash2 \in [Key -> HashVal]
    /\ CollEng \in {"LIST", "LIST_HASH", "LIST_MTF_HASH"}
    /\ InsertKeys \in [Thread -> SUBSET Key]
    /\ MallocMayFail \in BOOLEAN
    /\ MaxCalls \in Nat
    /\ NoOwner \notin Thread
    /\ None \notin Data

VARIABLES
    chain,        \* chain[b]: the entries of bucket b, head first
    bucket_size,  \* bucket_size[b]
    no_objects,   \* no_objects
    mutex,        \* the thread that holds mutex_lock, or NoOwner
    pc,           \* pc[t]: the next step of t
    call,         \* call[t]: the call t makes or made last
    seen,         \* seen[t]: the chain as the walk of t found it
    reply,        \* reply[t]: the return value of t's last call
    calls         \* calls[t]: how many calls t has made

vars == <<chain, bucket_size, no_objects, mutex, pc, call, seen, reply, calls>>

BucketOf(k) == Hash[k] % TableSize

Entry == [key: Key, data: Data, key_hash: HashVal]

NoReply == [code |-> "NONE", data |-> None, content |-> {}]

NoCall == [op |-> "none", key |-> None, data |-> None, bucket |-> None]

Code == {"NONE", "SUCCESS", "SYSTEM", "NODATA", "NOKEY", "DUPKEY"}

PC == {"idle", "lookup_lock", "lookup", "lookup_unlock",
       "lock", "walk", "store", "count", "unlock"}

\* The calls thread t may make; a bucket walk is only asked for by the iterator,
\* which stays below table_size.
CallsOf(t) ==
    {[op |-> "insert", key |-> k, data |-> d, bucket |-> BucketOf(k)]
        : k \in InsertKeys[t], d \in Data}
      \cup {[op |-> op, key |-> k, data |-> None, bucket |-> BucketOf(k)]
        : op \in {"get", "remove"}, k \in Key}
      \cup {[op |-> "to_array", key |-> None, data |-> None, bucket |-> b] : b \in Bucket}

(***************************************************************************)
(* The comparisons of the walks.  The *_HASH engines compare the second    *)
(* hash before the key; lhi_get_list does so with != in LIST_MTF_HASH.     *)
(***************************************************************************)
\* Mutant: takes any key of the same bucket for the key looked up.
KeyMatch_AnyInBucket(e, k) == BucketOf(e.key) = BucketOf(k)

KeyMatch(e, k) ==
    /\ e.key = k
    /\ CollEng # "LIST" => e.key_hash = Hash2[k]

GetMatch(e, k) ==
    IF CollEng = "LIST_MTF_HASH" THEN e.key = k /\ e.key_hash # Hash2[k]
                                 ELSE KeyMatch(e, k)

\* The first of a set of positions: a walk stops there.
First(S) == CHOOSE i \in S : \A j \in S : i <= j

Hits(c, k)    == {i \in DOMAIN c : KeyMatch(c[i], k)}
GetHits(c, k) == {i \in DOMAIN c : GetMatch(c[i], k)}

MoveToFront(c, i) == <<c[i]>> \o RemoveAt(c, i)

Pairs(c) == {<<c[i].key, c[i].data>> : i \in DOMAIN c}

(***************************************************************************)
(* The steps.                                                              *)
(***************************************************************************)
Goto(t, l) == pc' = [pc EXCEPT ![t] = l]

Answer(t, code, data, content) ==
    reply' = [reply EXCEPT ![t] = [code |-> code, data |-> data, content |-> content]]

\* Mutant: the lock is not taken in earnest.
Acquire_Blind(t) == mutex' = t

\* pthread_mutex_lock returns when the mutex is free.
Acquire(t) == mutex = NoOwner /\ mutex' = t

Release(t) == mutex' = NoOwner

Init ==
    /\ chain = [b \in Bucket |-> <<>>]
    /\ bucket_size = [b \in Bucket |-> 0]
    /\ no_objects = 0
    /\ mutex = NoOwner
    /\ pc = [t \in Thread |-> "idle"]
    /\ call = [t \in Thread |-> NoCall]
    /\ seen = [t \in Thread |-> <<>>]
    /\ reply = [t \in Thread |-> NoReply]
    /\ calls = [t \in Thread |-> 0]

table == <<chain, bucket_size, no_objects>>

Begin(t) ==
    /\ pc[t] = "idle"
    /\ calls[t] < MaxCalls
    /\ calls' = [calls EXCEPT ![t] = @ + 1]
    /\ \E c \in CallsOf(t) :
        /\ call' = [call EXCEPT ![t] = c]
        /\ Goto(t, IF c.op = "insert" THEN "lookup_lock" ELSE "lock")
    /\ reply' = [reply EXCEPT ![t] = NoReply]
    /\ UNCHANGED <<table, mutex, seen>>

\* hi_lookup: lock, walk, unlock.
LookupLock(t) ==
    /\ pc[t] = "lookup_lock"
    /\ Acquire(t)
    /\ Goto(t, "lookup")
    /\ UNCHANGED <<table, call, seen, reply, calls>>

\* Mutant: the lookup never reports a duplicate, as for the array engines.
Lookup_Skipped(t) ==
    /\ pc[t] = "lookup"
    /\ Goto(t, "lookup_unlock")
    /\ UNCHANGED <<table, mutex, call, seen, reply, calls>>

Lookup(t) ==
    /\ pc[t] = "lookup"
    /\ IF Hits(chain[call[t].bucket], call[t].key) # {}
         THEN Answer(t, "DUPKEY", None, {}) /\ Goto(t, "unlock")
         ELSE Goto(t, "lookup_unlock") /\ UNCHANGED reply
    /\ UNCHANGED <<table, mutex, call, seen, calls>>

\* Mutant: after a lookup without a hit the insertion looks the key up again.
LookupUnlock_Again(t) ==
    /\ pc[t] = "lookup_unlock"
    /\ Release(t)
    /\ Goto(t, "lookup_lock")
    /\ UNCHANGED <<table, call, seen, reply, calls>>

LookupUnlock(t) ==
    /\ pc[t] = "lookup_unlock"
    /\ Release(t)
    /\ Goto(t, "lock")
    /\ UNCHANGED <<table, call, seen, reply, calls>>

Lock(t) ==
    /\ pc[t] = "lock"
    /\ Acquire(t)
    /\ Goto(t, "walk")
    /\ UNCHANGED <<table, call, seen, reply, calls>>

\* The allocation of an entry, or of the arrays of a bucket walk, fails.
AllocFails(t) ==
    /\ pc[t] = "walk"
    /\ MallocMayFail
    /\ \/ call[t].op = "insert"
       \/ call[t].op = "to_array" /\ bucket_size[call[t].bucket] # 0
    /\ Answer(t, "SYSTEM", None, {})
    /\ Goto(t, "unlock")
    /\ UNCHANGED <<table, mutex, call, seen, calls>>

\* lhi_list_bucket_to_array trusts bucket_size before it looks at the chain.
ToArrayEmpty(t) ==
    /\ pc[t] = "walk"
    /\ call[t].op = "to_array" /\ bucket_size[call[t].bucket] = 0
    /\ Answer(t, "NODATA", None, {})
    /\ Goto(t, "unlock")
    /\ UNCHANGED <<table, mutex, call, seen, calls>>

Walk(t) ==
    /\ pc[t] = "walk"
    /\ call[t].op = "to_array" => bucket_size[call[t].bucket] # 0
    /\ seen' = [seen EXCEPT ![t] = chain[call[t].bucket]]
    /\ Goto(t, "store")
    /\ UNCHANGED <<table, mutex, call, reply, calls>>

\* key_hash is never assigned: the entry keeps whatever the memory held.
InsertStore(t) ==
    LET c == call[t] IN
    /\ pc[t] = "store" /\ c.op = "insert"
    /\ \E h \in HashVal :
        chain' = [chain EXCEPT ![c.bucket] =
                    <<[key |-> c.key, data |-> c.data, key_hash |-> h]>> \o seen[t]]
    /\ Answer(t, "SUCCESS", None, {})
    /\ Goto(t, "count")
    /\ UNCHANGED <<bucket_size, no_objects, mutex, call, seen, calls>>

\* Mutant: an absent key falls into the counting of lhi_remove_list's out_found.
RemoveStore_CountsMiss(t) ==
    LET c == call[t]
        hits == Hits(seen[t], c.key)
    IN
    /\ pc[t] = "store" /\ c.op = "remove"
    /\ Goto(t, "count")
    /\ IF hits = {}
         THEN Answer(t, "NOKEY", None, {}) /\ UNCHANGED chain
         ELSE /\ Answer(t, "SUCCESS", seen[t][First(hits)].data, {})
              /\ chain' = [chain EXCEPT ![c.bucket] = RemoveAt(seen[t], First(hits))]
    /\ UNCHANGED <<bucket_size, no_objects, mutex, call, seen, calls>>

RemoveStore(t) ==
    LET c == call[t]
        hits == Hits(seen[t], c.key)
        i == First(hits)
    IN
    /\ pc[t] = "store" /\ c.op = "remove"
    /\ IF hits = {}
         THEN /\ Answer(t, "NOKEY", None, {})
              /\ Goto(t, "unlock")
              /\ UNCHANGED chain
         ELSE /\ Answer(t, "SUCCESS", seen[t][i].data, {})
              /\ chain' = [chain EXCEPT ![c.bucket] = RemoveAt(seen[t], i)]
              /\ Goto(t, "count")
    /\ UNCHANGED <<bucket_size, no_objects, mutex, call, seen, calls>>

GetStore(t) ==
    LET c == call[t]
        hits == GetHits(seen[t], c.key)
        i == First(hits)
    IN
    /\ pc[t] = "store" /\ c.op = "get"
    /\ IF hits = {}
         THEN Answer(t, "NOKEY", None, {}) /\ UNCHANGED chain
         ELSE /\ Answer(t, "SUCCESS", seen[t][i].data, {})
              /\ IF CollEng = "LIST_MTF_HASH"
                   THEN chain' = [chain EXCEPT ![c.bucket] = MoveToFront(seen[t], i)]
                   ELSE UNCHANGED chain
    /\ Goto(t, "unlock")
    /\ UNCHANGED <<bucket_size, no_objects, mutex, call, seen, calls>>

ToArrayStore(t) ==
    /\ pc[t] = "store" /\ call[t].op = "to_array"
    /\ Answer(t, "SUCCESS", None, Pairs(seen[t]))
    /\ Goto(t, "unlock")
    /\ UNCHANGED <<table, mutex, call, seen, calls>>

Count(t) ==
    LET c == call[t]
        d == IF c.op = "insert" THEN 1 ELSE -1
    IN
    /\ pc[t] = "count"
    /\ bucket_size' = [bucket_size EXCEPT ![c.bucket] = @ + d]
    /\ no_objects' = no_objects + d
    /\ Goto(t, "unlock")
    /\ UNCHANGED <<chain, mutex, call, seen, reply, calls>>

\* The last step of every call: unlock and return.
Unlock(t) ==
    /\ pc[t] = "unlock"
    /\ Release(t)
    /\ Goto(t, "idle")
    /\ seen' = [seen EXCEPT ![t] = <<>>]
    /\ UNCHANGED <<table, call, reply, calls>>

Step(t) ==
    \/ LookupLock(t) \/ Lookup(t) \/ LookupUnlock(t)
    \/ Lock(t) \/ AllocFails(t) \/ ToArrayEmpty(t) \/ Walk(t)
    \/ InsertStore(t) \/ RemoveStore(t) \/ GetStore(t) \/ ToArrayStore(t)
    \/ Count(t) \/ Unlock(t)

\* Every thread has made its calls and returned.
Finished ==
    /\ \A t \in Thread : pc[t] = "idle" /\ calls[t] = MaxCalls
    /\ UNCHANGED vars

Next == (\E t \in Thread : Begin(t) \/ Step(t)) \/ Finished

\* The scheduler runs every thread that can run.  A thread waits for the mutex
\* behind finitely many calls of the others, so weak fairness is enough.
Fairness == \A t \in Thread : WF_vars(Step(t))

Spec == Init /\ [][Next]_vars /\ Fairness
-----------------------------------------------------------------------------
(***************************************************************************)
(* Properties.                                                             *)
(***************************************************************************)

AnyCall == UNION {CallsOf(t) : t \in Thread}

\* Types of the variables; the two counters, uint32_t in the code, never drop
\* below zero (hi_list.c:193-194).
TypeOK ==
    /\ chain \in [Bucket -> Seq(Entry)]
    /\ bucket_size \in [Bucket -> Nat]
    /\ no_objects \in Nat
    /\ mutex \in Thread \cup {NoOwner}
    /\ pc \in [Thread -> PC]
    /\ call \in [Thread -> AnyCall \cup {NoCall}]
    /\ seen \in [Thread -> Seq(Entry)]
    /\ reply \in [Thread -> [code: Code, data: Data \cup {None}, content: SUBSET (Key \X Data)]]
    /\ calls \in [Thread -> 0 .. MaxCalls]

\* The places of all entries of a table.
Positions(c) == UNION {{b} \X DOMAIN c[b] : b \in Bucket}

\* Whenever the mutex is free the two counters describe the chains: bucket_size
\* every bucket, no_objects the whole table (hi_list.c:193-194, 350-351).
CountersAgree ==
    mutex = NoOwner =>
        /\ \A b \in Bucket : bucket_size[b] = Len(chain[b])
        /\ no_objects = Cardinality(Positions(chain))

\* lhi_list_bucket_to_array allocates bucket_size elements and then fills in one
\* per entry of the chain: the chain is never longer (hi_list.c:34-62).
ArrayFits ==
    \A t \in Thread :
        pc[t] = "store" /\ call[t].op = "to_array" =>
            Len(seen[t]) <= bucket_size[call[t].bucket]

\* No two threads insert the same key, as in tests/concurrent_test.c.
DisjointInserters ==
    \A t, u \in Thread : t # u => InsertKeys[t] \cap InsertKeys[u] = {}

\* "In a hash the data must be distinguishably - no doublet"
\* (man/libhashish.pod:123-124): no key is twice in the table.
UniqueKeys ==
    \A b \in Bucket : \A i, j \in DOMAIN chain[b] :
        chain[b][i].key = chain[b][j].key => i = j

\* Between the lookup of hi_insert and its insertion another thread may insert
\* the same key (hi_operations.c:156-166), so a key may be in the table more than
\* once; but every further copy that a lookup can find - whose second hash, never
\* stored, happens to agree - needs another thread whose lookup missed the first,
\* so there are never more of them than threads, wherever hi_get moves them.
Copies(k) == Hits(chain[BucketOf(k)], k)

Pending(k) ==
    {t \in Thread :
        /\ call[t].op = "insert" /\ call[t].key = k
        /\ pc[t] \in {"lookup_unlock", "lock", "walk", "store"}}

CopiesBounded ==
    \A k \in Key : Cardinality(Copies(k)) + Cardinality(Pending(k)) <= Cardinality(Thread)

\* hi_get "return for a given key the correspond data entry"
\* (hi_operations.c:59): it finds the key of every entry in the table.
InsertedKeyFound ==
    \A t \in Thread :
        pc[t] = "unlock" /\ call[t].op = "get" /\ reply[t].code = "NOKEY" =>
            \A e \in ToSet(chain[call[t].bucket]) : e.key # call[t].key

-----------------------------------------------------------------------------
(***************************************************************************)
(* The table implements the dictionary: a key's data is that of the first  *)
(* entry a walk finds; a call has taken effect once its reply is fixed.    *)
(***************************************************************************)
DictOf(k) ==
    LET c == chain[BucketOf(k)]
        hits == Hits(c, k)
    IN IF hits = {} THEN None ELSE c[First(hits)].data

Stage(t) ==
    IF pc[t] = "idle" THEN "idle"
    ELSE IF reply[t] = NoReply THEN "called" ELSE "done"

Abstract == INSTANCE Dictionary WITH
    Home <- [k \in Key |-> BucketOf(k)],
    dict <- [k \in Key |-> DictOf(k)],
    stage <- [t \in Thread |-> Stage(t)]

\* hi_insert, hi_get, hi_remove and the bucket walk behave as atomic operations
\* of a map, however the threads' critical sections interleave
\* (hi_operations.c:36-182).
ImplementsDictionary == Abstract!Safety

\* Every call takes effect and returns: nobody keeps the mutex, and nobody waits
\* for it forever (hi_operations.c:36-182).
EveryCallReturns == Abstract!Fairness
=============================================================================
