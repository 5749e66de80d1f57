# TLA+ models of libhashish

libhashish (`src/`) is a C library of hash tables with exchangeable collision engines, an
iterator, self-rehashing, a Bloom filter and a collection of hash functions. In a THREADSAFE
build one handle may be shared by several threads. This directory holds TLA+ models of the
library, the TLC instances that check them, and proofs checked by TLAPS. Line references are
to files of `src/`.

Contents: [inventory](#inventory), [models](#models), [runs](#runs), [bounds](#bounds),
[fairness](#fairness), [proofs](#proofs), [what the models found](#what-the-models-found),
[not modelled](#not-modelled), [plan](#plan), [running the checks](#running-the-checks).

## Inventory

| component | source | state it keeps | operations | interacts with | hard behaviours | correct means | modelled by |
|---|---|---|---|---|---|---|---|
| dispatcher | `lib/hi_operations.c` | none of its own | `hi_insert`, `hi_get`, `hi_remove`, `hi_lookup`, `do_rehash` | calls the engine of the handle; insertion = lookup, perhaps rehash, engine insertion | lookup and insertion are separate critical sections | the handle behaves as a map | `Dictionary`, and every engine's module |
| list engines | `lib/hi_list.c` | chains, `bucket_size[]`, `no_objects` | lookup, get, insert, remove, bucket walk, fini | mutex of the handle, iterator | pointers and counters change in separate steps, failing allocations, an engine that reorders on reads | counters describe the chains, no key twice, walks fit their arrays | `ListTable` |
| move-to-front engine | `lib/hi_list.c:237-259` | the same | get relinks the chain | mutex is unlocked without being locked | unlocked loads and stores of the chain, freed entries | no entry lost, none missed, every call ends | `ListMtf` |
| array engines | `lib/hi_array.c` | slots with holes, `slot_size[]`, `slot_max[]`, `no_objects` | get, insert with growth, remove, bucket walk, fini | mutex, iterator | early exit of the scan, growth, failed `realloc`, failed key copy, three unfinished engines | as above; a free slot after growth | `ArrayTable` |
| tree engine | `lib/hi_rbtree.c` | a red-black tree and rwlock per bucket, `bucket_size[]`, `no_objects` | get, insert, remove, traverse, fini | rwlocks and mutex | root read before the lock, rebalancing, counter under another lock | search order, red-black shape, counters | `RBTree`, `RbtreeTable` |
| iterator | `lib/hi_iterator.c` | bucket number, snapshot arrays, `nmemb` | create, getnext, reset, fini | bucket walks of the engines | snapshot goes stale, failed reset | each entry once | `Handle` |
| handle life-cycle | `lib/lib_init.c`, `lib/lib_fini.c` | the handle | create, rehash, fini | all engines, iterator | error paths, rehash while others use the handle, self-deadlock of `lhi_fini_array` | rehash keeps the entries, nothing freed is used | `Handle` |
| initial set | `lib/hi_set.c`, `lib/lib_init.c:65-151` | `hi_init_set` | setters, sanity check | create | combinations of engine, hash functions, array size | only usable sets pass | `InitSet` |
| Bloom filter | `lib/hi_bloom_filter.c` | bit map, `n`, `bit_collision` | init, add, check, bit_get, fini | hash functions | shared bits, odd sizes | no false negatives, exact statistics | `BloomFilter` |
| locks | `lib/threads.h` | a mutex per handle, rwlocks | lock, unlock, init, destroy | all | | | variables of the tables |
| key wrappers, comparisons | `lib/hi_key_*.c`, `lib/cmp_funcs.c` | none | wrappers of insert/get/remove | dispatcher | a difference cut down to an `int` | an order | `CmpFuncs`, `InitSet` |
| SHA-1 | `lib/hash_func_sha1.c` | a context of counters, chaining state and a buffer | starts, update, finish, hash a key | | pieces that just fill a block, length overflow, 64-bit variables | the digest of the standard | `Sha1`, `Sha1Rounds` |
| Skein-256 | `lib/hash_func_skein256.c` | a context of tweak, chaining state and a buffer | init, update, final, hash a key | | the last block is held back, two key schedules | the digest of Skein | `Skein256`, `Threefish` |
| block hashes | `lib/hash_func_{murmur,jenkins2,jenkins3,hsieh}.c` | none | hash a key | | paths for every alignment and rest | each byte once, same hash at every address | `KeyHashes` |
| other hash functions | `lib/hash_func.c`, `_cube.c`, `_goulburn.c` | none | hash a key byte by byte | | | | |
| utilities, tests, analysis | `lib/xutils.c`, `localhash/`, `tests/`, `analysis/` | | | | | | |

`PROJECT.json` lists, under `hazards`, what can go wrong in this code at the line where it
bites, with the property that would notice or the reason there is none.

How the modules hang together:

    Dictionary  <- refined by -  ListTable     <- ListTable_proofs
                <- refined by -  ArrayTable    <- ArrayTable_proofs
    RBTree      <- extended by - RbtreeTable   <- RbtreeTable_proofs
    RBTree, CmpFuncs <- RBTree_proofs          <- used by RbtreeTable_proofs
    CmpFuncs    <- used by MCRbtreeTable
    InitSet     <- extended by - Handle        <- Handle_proofs
    ListMtf (<- ListMtf_proofs), BloomFilter (<- BloomFilter_proofs)
    SequenceLemmas  <- used by ListTable_proofs, ArrayTable_proofs, ListMtf_proofs, Handle_proofs
    Sha1, Sha1Rounds, Skein256, Threefish, KeyHashes  <- run together by MCDigests

The tables of the engines' modules are what the single steps of `Handle` stand for; each
engine is modelled in detail once, and `Handle` takes from it what a call leaves behind.

## Models

**Dictionary** is the abstract specification: a map `dict` from keys to data, and for each
thread the call it makes, its stage (`idle`, `called`, `done`) and its reply. A call takes
effect in one step between its beginning and its end. An insertion or walk may instead fail
with `SYSTEM` and no effect. There are no locks, chains or counters. Its fairness says that
every call takes effect and returns.

**ListTable** models a handle with COLL_ENG_LIST, COLL_ENG_LIST_HASH or
COLL_ENG_LIST_MTF_HASH.

| model | code |
|---|---|
| `chain[b]` | the linked list of bucket b, head first; entries carry key, data, `key_hash` |
| `bucket_size`, `no_objects` | fields of `hi_handle_t` |
| `mutex` | the thread inside `lhi_pthread_mutex_lock` ... `_unlock` |
| `LookupLock`, `Lookup`, `LookupUnlock` | `hi_lookup` called by `hi_insert` (`hi_operations.c:156`) |
| `Lock`, `Walk`, `*Store`, `Count`, `Unlock` | the critical sections of `lhi_insert_list`, `lhi_remove_list`, `lhi_get_list`, `lhi_list_bucket_to_array`: walk, pointer stores, counters |
| `AllocFails` | `XMALLOC` or `malloc` returns an error |
| `KeyMatch`, `GetMatch` | the comparisons of the walks; `GetMatch` has the `!=` of `hi_list.c:285` |

A walk remembers the chain in `seen`; the stores work on what was seen, so a lock that did
not exclude other threads would lose updates, as it would in the code. `key_hash` of a new
entry is any value, because the code never assigns it.

**ListMtf** models COLL_ENG_LIST_MTF, whose `lhi_get_list` takes no lock, relinks the chain
and then unlocks the mutex. `head` and `entry[o].next` are the pointers of one bucket; every
load or store another thread can come between is a step: `ReadHead`, `Advance`, `Hit`/`Miss`;
`LoadNext` and `Unlink` for `p->next = b_obj->next`, `LoadHead` and `Relink` for
`b_obj->next = head`, with the pointer in `loaded` between them; `Front`, `Free`, `Allocate`,
`Publish`, `Count`, `Recount`. Allocation
draws from `Obj`, so the memory of a freed entry is used again. An access to a freed entry
is `Crash`. Unlocking a mutex another thread holds sets it free, which is what the default
mutex does. Three history variables say when the engine is to blame: `overtaken[t]` (another
thread stored to the chain since t began to walk, and nothing else sets it), `raced` (a thread stored to the chain after
it was overtaken) and `stolen` (a mutex somebody held was unlocked by somebody else). Between `Unlink` and `Front` the
entry a get moves is in nobody's chain but in the get's hand: a call that walks the chain then,
and is not overtaken before it ends, misses its key, which `WrongOnlyWhenOvertaken` does not
count as wrong, since the key is not in the chain.

**ArrayTable** models a handle with an array engine; `coll_eng` is a variable chosen in the
initial state. `slots[b]` has `slot_max[b]` slots, each free or holding key and data.
`ScanLock`, `ScanGet`, `ScanRemove`, `ScanUnlock` are `lhi_get_array` (also as the duplicate
check of an insertion) and `lhi_remove_array`; `ScanNothing` is the FIXME branch of the
other engines. `Lock`, `NoGrowth`/`Grow`/`GrowFails`, `Find`, `KeyFails`/`Place` are
`lhi_insert_array`; `Copy`/`CopyFails` are `lhi_array_bucket_to_array`. A failed `realloc`
leaves an empty array under a doubled `slot_max` (`Lost`), and touching it is `Crash`, which
ends all threads. Which elements a scan looks at before its early exit (`Checked`, `Hits`)
and how a walk packs the arrays (`Packed`, with elements nobody wrote) are as in the code.

**RBTree** has the trees of `lib/hi_rbtree.c`: a record of the root and of the children,
parent and colour of every node, which is named by its key. `Rotate` is both rotations,
`SpliceSuccessor` and its neighbours are the removal, and the bodies of the two rebalancing
loops are operators of one iteration each. The mirrored halves of the code are written once.
`RedBlack`, `Linked` and `Searchable` say what a tree has to be; `InsertMeasure` and
`EraseMeasure` what an iteration brings down. **RbtreeTable** puts a tree, a writer and a set of
readers into every bucket. A search with its pointer stores, every iteration of a rebalancing
loop, the unlocking and the counting under the handle's mutex are steps, so that others come
between them; `ReadRoot` is apart from `RdLock`, as in `lhi_get_rbtree` and
`lhi_rbtree_bucket_to_array`. `ReadFreed` is a reader that meets a freed node.

**CmpFuncs** has the comparisons of `lib/cmp_funcs.c`: for 32 bit keys the difference is cut
down to an `int`, of `2 * Half` values here. `MCRbtreeTable` compares its keys with them.

**InitSet** is the set a program fills with the setters before `hi_create`, and
`lhi_set_sanity_check`. **Handle** is everything one thread may do with it: the setters,
`hi_create` and the default `hi_init`, `hi_insert` with `do_rehash`, `hi_remove`, `hi_rehash`,
the iterator, `hi_fini`. `bucket[b]` is a sequence of keys (a chain, or slots of which some are
`FREE` or the array is `LOST`). `hi_rehash` is a step per entry (`RehashMove`), then
`RehashFree` and `RehashCopy`, because it holds no lock, and another thread may come between
(`Other`). `it` is the program's iterator and `walk` that of `hi_rehash`, both with the snapshot
arrays and `nmemb`. `env` is the build (THREADSAFE or not) and whether allocations may fail.
A null pointer, a division by zero, uninitialised or freed memory end in `crashed`, a mutex
that is never unlocked in `stuck`. The history variable `failed` says that a rehash of the handle
has failed, as one with a doublet does.

The other thread of `Handle` inserts in two steps: `OtherTests` is `hi_insert` up to the return
of `do_rehash`, which found no reason for a rehash, and `OtherCompletes` the engine's insertion,
at any later time, whatever the load is then and wherever `hi_rehash` is (`other` is the key);
`OtherCompletes` is also a whole `hi_remove`. `ReadOvertaken` is a bucket that changes while
`hi_rehash` reads it, which the locks of two engines do not prevent: in a tree the call comes
between the reading of the root and the read lock (`TreeOvertaken`, `hi_rbtree.c:410-414`), so
that the walk of as many elements as the bucket then has sees a part of the tree, or freed nodes;
in COLL_ENG_LIST_MTF a get moves an entry without the mutex (`ListOvertaken`, `hi_list.c:248-250`),
so that the walk misses it or goes round from it. `TreeMisread` and `ListMisread` are what the
arrays may hold then; shapes of trees and orders of chains are not part of `Handle`, so they
admit every part and every position. The history variable `overtaken` says that this has
happened in the running `hi_rehash`, `disturbed` that the other thread has come at all.
`OtherFaults` is its use of the freed table, or the walk that goes round and behind the
end of its arrays. Four limits: an engine's operation with the choice of the bucket is one step,
although the code computes the bucket before it locks; the other thread does not itself rehash;
it changes the table, or moves an entry, at most once during a call of `hi_rehash`; and the
program's own iterator is not overtaken while it reads a bucket. A get changes nothing
else and is left out but for `ListOvertaken`. A key freed in the old table after it
has been read may read as before or end the process (`RehashMove`).

Keys an iterator still lists after the table has changed are
not told apart: `clean` says whether it has.

**BloomFilter** models one filter: `filter_map` is a function from bytes to sets of bits,
and the loops of add and check are one step per hash function. `InitMk` accepts what
`hi_bloom_init_mk` accepts, sizes of 0 included; an addition to such a filter divides by
zero (`DivideByZero`). `added` is a history variable. The filter has no lock and is modelled
for one thread.

**Sha1** is the stream of `lib/hash_func_sha1.c` around its compression: the context with
its two counters and its buffer, `sha1_update` with pieces of any size, `sha1_finish` with
padding and length, `lhi_hash_sha1`. The chaining state is the sequence of blocks
compressed and a byte is known by its place in the message, so two messages that would be
told apart by SHA-1 are told apart here. **Sha1Rounds** is the compression: eighty rounds on
variables twice as wide as the words, next to which the standard's loop runs.

**Skein256** is the same for `lib/hash_func_skein256.c`: configuration, key, message and output
blocks with their tweaks, the buffer that holds the last block back, odd bits, several output
blocks. **Threefish** is its compression, `Skein_256_Process_Block`, with both ways to keep the
key schedule: by index modulo 5 and 3, or grown in place in the array `kw`
(SKEIN_UNROLL_256), in which tweaks overwrite key words that have been copied on.

**KeyHashes** is how murmur, jenkins2, jenkins3 and hsieh read a key: which bytes of it, at
which address modulo 4, go into which word. The mixing itself is left out: it depends on
the words only.

The `MC` modules give the instances their hash functions, keys and comparisons. `MCDigests`
runs the five digest modules one at a time from a common initial state. Definitions with a
`Mutant:` comment are broken variants of the definition that follows; no specification
uses them, each makes a property of a run fail.

## Runs

| run | shows |
|---|---|
| `list_implements` | COLL_ENG_LIST, two threads inserting different keys, failing allocations: `CountersAgree`, `ArrayFits`, `UniqueKeys`; under the mapping at the end of `ListTable` every step is one of `Dictionary` or a stutter (`ImplementsDictionary`), and every call takes effect and returns (`EveryCallReturns`) |
| `list_shared` | COLL_ENG_LIST_MTF_HASH, three threads racing for one key: never more copies a lookup can find than threads, wherever gets move them |
| `list_doublet` | counterexample: two insertions of one key both succeed |
| `list_hash_found` | counterexample: COLL_ENG_LIST_HASH misses an inserted key |
| `list_mtf` | two threads on one chain of COLL_ENG_LIST_MTF: the chain is intact until an overtaken thread stores to it (`ChainIntact`), nobody misses a key of the chain or touches freed memory without having been overtaken (`WrongOnlyWhenOvertaken`), the counter is right until a mutex is stolen (`CounterExact`), and calls return unless the chain was raced (`CallsReturn`). Together they say exactly what the missing lock costs |
| `array_implements` | COLL_ENG_ARRAY, two threads inserting different keys, no failures: `UniqueKeys`, `FreeSlotFound`, `NoKeyMeansAbsent`, refinement of `Dictionary` (`ImplementsDictionary`, `EveryCallReturns`) |
| `array_faults` | COLL_ENG_ARRAY and COLL_ENG_ARRAY_HASH with failing allocations and bucket walks: `CountersAgree`, `NoSilentLoss`, `WalkMissesTail` (keys, data and key lengths). Deadlock is not checked: a failed key copy leaves the mutex locked, after which the system really stops |
| `rbtree` | one thread inserts and removes six keys, another gets, walks and removes: the tree is `Balanced` whenever its lock is free and has its `SearchOrder` at every step, `CountersAgree` up to calls still counting, `LockExcludes`, `RebalancingEnds`; a reader goes `WrongOnlyIfRootMoved` before it had the lock |
| `rbtree_stale_root` | counterexample: a get misses a key because the root it read has been rotated down |
| `handle` | every initial set, every order of calls, both builds, failing allocations, another thread: `EntriesPlaced`, `LoadBounded`, `IteratorExact`, `RehashKeepsEntries`, `RehashAdvances`; `CrashesOnlyThere` and `StuckOnlyInArrays` name the only ways in which the process ends or hangs. Deadlock is not checked: the process may have crashed, hang, or have freed its handle |
| `bloom` | filters of accepted and refused sizes, all orders of calls: `NoFalseNegative`, `CollisionsExact`, `PositiveIsCovered` |
| `digests` | SHA-1 and Skein-256 digest every message in every cut as their standards do (`DigestIsFips`, `DigestIsSkein`), their compressions compute the standards' (`RoundsAreFips`, `RoundsAreThreefish`); the block hashes take each byte once and hash a key alike at every address (`EveryByteOnce`, `SameHashAnywhere`). Deadlock is not checked: a digest ends |

`UniqueKeys` and the refinements need threads that insert different keys: `list_doublet`
shows what happens otherwise, and `CopiesBounded` how bad it gets. `tests/concurrent_test.c`
follows this discipline.

The walk of an array bucket is left out of the refinement run because it is wrong with holes;
`WalkMissesTail` says exactly what it returns instead. The tree is not shown to implement
`Dictionary`, because it does not: `rbtree_stale_root`. `WrongOnlyIfRootMoved` says that this
is all that is wrong with its readers.

## Bounds

- `MaxCalls` (2 or 3 per thread in the tables, 3 altogether in `ListMtf`) bounds the calls;
  the tables are otherwise unbounded. Three calls each let one thread insert, remove and
  insert again around the two critical sections of another thread's insertion, which is
  what the races need.
- Two buckets and keys `k1`, `k2` in the same one give chains of length two, so that first,
  last and only entries are found, removed and moved. In `array_implements` all keys share
  one bucket that starts with one slot: growth happens at the second insertion, and a hole
  before an entry after three calls.
- `list_shared` has three threads, so that several late insertions of one key can follow the
  first, with removals and further lookups between them.
- `list_mtf` starts from chains of none, two or three entries, so that calls of two
  threads meet at the head, inside and at the end; three entries of memory make a freed entry
  come back as another.
- `HashVal` has two values where second hashes matter: equal or different.
- Trees of six keys reach every case of both loops, with the rebalancing climbing; one
  bucket, since buckets share only `no_objects`. `Half` is 8: all keys are close enough to
  be ordered.
- `handle`: three keys that share a bucket of a table of one, two of them also of a larger one and
  therefore interchangeable (`Symmetry`); rehash to size 0 (refused by nothing) and 4; at most three
  entries (`MaxObjects`), which is a doublet and more than one load factor. `Engines` has one
  engine of each class of steps; COLL_ENG_LIST, whose steps are those of COLL_ENG_LIST_MTF
  without `ListOvertaken`, comes from `hi_init`. An insertion the other thread has tested in a
  table of one can complete in the rehash to two, before or behind the walk. A bucket of two or
  three entries is overtaken by gets, insertions and removals; that of a tree of two by an
  insertion that rotates its root. One change per call of
  `hi_rehash` (`disturbed`) is a bound of the model that `LoadBounded` needs: with more, an entry
  removed after it was moved and one inserted ahead of the walk would both reach the new
  table. Early forms of `LoadBounded`
  and `CrashesOnlyThere` were also checked once with three keys, tables of two and four entries
  (15 million states), which showed that a handle stays overfull when the doublet that made
  a rehash fail has been removed, and that the walk of an array with a hole may end the
  process when it comes to the next bucket; the properties allow for both.
- Bloom filters of one and two bytes, two hash functions whose bits coincide between keys
  and within one key, at most three additions (`MaxAdds`); `n` is 32 bits wide in the code and
  does not wrap here. Sizes 0 and 12 and a count above `HashCount` exercise the checks.
- Digests have blocks of 8 (SHA-1) and 4 (Skein) places, messages of up to five and four
  blocks, and counters of 5 and 6 bits which those messages overflow. Words of the rounds
  have 5 and 8 bits: rotations, carries and the in-place schedules do not depend on the
  width, and the rotation counts are scaled to it. Eighty and seventy-two rounds are all of
  them. Keys of the block hashes have up to 40 bytes, three blocks and every rest.

Data values are two in the refinement runs, so that answers with another key's data show.

## Fairness

`Step(t)` is weakly fair for every thread: the operating system runs every thread that can
run, and the code between lock and unlock never waits. Beginning a call is not fair: a
program need not call the library. A thread waiting for the mutex competes with finitely
many calls of the others (`MaxCalls`), so weak fairness is enough and no queueing of
pthread mutexes is assumed. Under it the refinements of `Dictionary` include that every call
takes effect and returns, so nobody keeps the mutex and nobody waits for it forever;
`CallsReturn` of `ListMtf` says so where walks need not end.

Loops that need no scheduler to end are measured instead: `RebalancingEnds` and
`RehashAdvances` are action properties, each step of the loop brings a measure down.
`BloomFilter` and the digests have no liveness property: their loops are bounded by what
they are given.

## Proofs

**ListTable_proofs** proves, for any sets of threads, keys, data, any hash functions and
number of buckets, any of the three engines, with or without failing allocations, from
`ListTableAssumption` alone:

- `TypeCorrect` (counters never drop below zero), `CountersAlwaysAgree`, `ArraysAlwaysFit`;
- `CopiesAlwaysBounded`, for any finite set of threads;
- `NoDoublets` and `DictionaryImplemented` (`ImplementsDictionary`), additionally assuming
  `CollEng = "LIST"` and `DisjointInserters`, without which `list_hash_found` and `list_doublet`
  refute them.

`CountersAgree` is not inductive: between a store and its count the counters are wrong by one,
and what the stores do is known only if the chain is still the one the thread walked. The
invariant `IndInv` therefore adds: exactly the thread in a critical section holds the
mutex (`MutexInv`), the program counter fits the call (`CallInv`), the chain in `seen` is the
current one (`SeenInv`), and the counters differ from the chains by what the thread in
`count` has yet to count (`CountInv`). The lemmas on positions relate the number of entries
of all chains to one that is linked, unlinked or moved. `NoDoublets` adds that a key an insertion looked up in
vain stays absent until it is stored (`PendingAbsent`), which holds because nobody else
inserts it. `CopiesAlwaysBounded` is inductive relative to `IndInv`: a store makes one copy more
and one insertion under way less, and a lookup that misses, which adds an insertion, has found
no copy, so that all of the bound is free for it and the other threads.

`DictionaryImplemented` maps the initial state to an initial state and every step to one of
`Dictionary` or a stutter. A lookup that finds takes effect in its walk, an insertion in its
store, a removal or get in its store or its walk. `EffectInv` says what that needs: a call has
a reply exactly from the step on that fixes it (`ReplyInv`), entries lie in the bucket of their
key (`HomeInv`), and a bucket walk does not set out on an empty chain (`WalkInv`). The mapping makes the map of a key the data of its entry (`ValueStored`); that
there is only one is `UniqueKeys`.

**ArrayTable_proofs** proves, for any threads, keys, hash functions, number of buckets and
size of new arrays, with or without failing allocations, from `ArrayTableAssumption`:

- `TypeCorrect`, `CountersAlwaysAgree` and `LossNoticed` (`NoSilentLoss`), for all four engines;
- `SlotAlwaysFound` (`FreeSlotFound`), additionally assuming `ArraySize # 0`: without slots to
  double, an insertion does find none;
- `AbsentWhenNoKey` (`NoKeyMeansAbsent`) and `KeysStayUnique` (`UniqueKeys`), assuming that the
  engine is COLL_ENG_ARRAY, as the other three never look, the latter also that no two
  threads insert the same key;
- `DictionaryImplemented` (`ImplementsDictionary`), assuming `Undisturbed` (COLL_ENG_ARRAY,
  allocations that succeed and no bucket walks) and that no two threads
  insert the same key. Each of these is needed: `array_faults` shows what becomes of the table
  and of the replies otherwise;
- `WalkAlwaysMissesTail` (`WalkMissesTail`), for all four engines: what a bucket walk returns
  is the entries up to `slot_size`, then as many elements nobody wrote as there are entries
  behind; the keys up to the first hole come with their lengths, and no length is
  written at a hole.

The early exit of the scan is right only if `slot_size` counts the allocated slots exactly
(`HitsExact`, by `CheckedFew`), so everything rests on the counters. `CountersAgree` says nothing
of a lost bucket, and a lost bucket that could be taken for an empty one would be; `BucketInv`
adds that it was full when it was lost, so that its `slot_size` is neither 0 nor as large as its
doubled `slot_max`. `no_objects` still counts its entries, so the counter is compared with
`Places`, where they stay. `ThreadInv` says what a thread relies on in a critical section: that
it holds the mutex, that growth has left a free slot, that the slot it chose is free until it
is written. `OthersKeep` is the argument that only the holder of the mutex touches
the table, made once for all steps; `BucketReplaced` the one for all steps that write a bucket.
The refinement adds `RefInv`: keys are unique and what an insertion looked up in vain is still
absent when it stores (`KeysInv`), a call has a reply exactly from the step on that fixes it
(`ReplyInv`), and no bucket is lost (`KeptInv`). For the walk, `WalkInv` says that until its
caller unlocks the mutex the arrays it returns are those of the bucket as it is, and
`PackedProperties` what such arrays hold: the n-th allocated slot in the n-th element, because
counting the smaller members of a set of positions numbers them (`RankProperties`).

**ListMtf_proofs** proves, for any threads, keys and finite memory, from `ListMtfAssumption`:

- `CounterAlwaysExact` (`CounterExact`);
- `ChainAlwaysIntact` (`ChainIntact`) and `OnlyOvertakenGoWrong` (`WrongOnlyWhenOvertaken`).

For the counter, the pointers of the chain may be wrong in every way the
missing lock allows; the counter depends on the mutex only. `MutexInv` says that every
call but a get holds the mutex from its lock to its unlock unless one has been stolen, `CountInv`
that the counter is the number of allocated entries, except for the one call between its
store and its counting, whose read of the counter is then still right.

For the chain, `ChainInv` says that as long as no overtaken thread has stored, the entries
follow each other in some sequence `s` without repetition (`Follows`), and where in it every
thread is (`Place`): one that was not overtaken has reached an entry of `s` with what it has
read of it still true and its key not among those it has passed, and what it has loaded is still
what a load would give; one with an entry in hand,
taken out, not yet linked or about to be freed, is the only one that has it, and `s` holds all
allocated entries that no call has in hand. A store that would break this for
another thread overtakes it (`StoreAlone`), so that only the storing thread's own place and the
new sequence remain to be shown, which is `s` without an entry or with one in front. `ChainPathEnds`
turns the sequence into the `Path` the properties follow.

**Handle_proofs** proves, for any keys, hash function, engines, sizes and bounds, in both
builds, with or without failing allocations, from `HandleAssumption` and `InitSetAssumption`:

- `EntriesAlwaysPlaced` (`EntriesPlaced`), for the handle and for the one `hi_rehash` fills;
- `OnlyArraysHang` (`StuckOnlyInArrays`);
- `LoadAlwaysBounded` (`LoadBounded`) and `RehashEnds` (`RehashAdvances`);
- `EntriesAlwaysKept` (`RehashKeepsEntries`);
- `IteratorAlwaysExact` (`IteratorExact`);
- `CrashesOnlyWhereNamed` (`CrashesOnlyThere`).

`Sound` is what every table keeps: its shape, its entries in their buckets and counted. Every
operation of an engine replaces one bucket, so `BucketChanged` reduces each to what it does to
that bucket: one more slot filled (`SiteAdded`), one less (`SiteRemoved`), or the array lost. A
lost array stays, because the next use of its bucket crashes (`Broken`): therefore the count
may be given up for it. `LockInv` says who may have left the mutex locked, and that the new
table is one of the same engine, unlocked, of which no bucket is lost, whatever the other
thread does to the old one. With these `IndInv` gives the first two theorems; the others add two
invariants to it, each inductive relative to those before it.

`LoadInv` compares a rehash with the counters. `Counted` says that a walk has never more to come
than `no_objects`, lost buckets included (`NextTaken`: each turn of the loop takes one from it). For
the load an insertion is counted from its test on: `Coming` is what the thread that rehashes
(`Waiting`) and the other one (`Pending`) have still to insert. Since each tests before it is
counted, a handle that rehashes itself holds with the other thread's entry at most one more than
it has buckets (`TableBounds`); the test of one does not know of the other's insertion, which is
the one entry `LoadBounded` allows. The new table has twice the size or one the
program asked for (`TargetInv`), and what has been moved, what is still to come and what is
coming `Fits` it: twice the old size and one more (`MovedInv`). An insertion of the other thread during
the rehash moves its entry from `Pending` to the old table, `OtherToCome` says that at most
one more is then to come, and `disturbed` that it does so only once.
`RehashEnds` follows from `NextTaken` and `OtherToCome`.

`EntryInv` follows the entries themselves. A key has all of its entries in the bucket it hashes
to (`CountHome`), so each operation changes the count of one key by one or none (`InsertCounts`,
`RemovesNoMore`). A walk copies a bucket completely, or its last element is uninitialised and
the bucket has a hole (`PackedFacts`). For an iterator whose arrays hold keys only (`Good`)
every key is then accounted for: the entries of it given so far and those in the arrays are all
of those in the buckets up to the current one (`Accounted`). `SeenInv` says so of the program's
iterator as long as the table does not change, `TakeInv` of the iterator of `hi_rehash`, with
the entries of the new table for those given, as long as the other thread has not come; after
it has, but not while a bucket was read (`~overtaken`), `Reached` still says that a key which was
there from the beginning is in the new table, in the arrays or to come. At the end of the walk this is what `DoneInv` says of the new
table. From the accounting it follows that the next key to be moved is in the old table more
often than in the new one (`MoveTakes`): an insertion can refuse it only in a list with a
doublet (`MoveRefused`), since the engines that look before they insert have every key once
(`Unique`) and an array accepted by `hi_create` has slots as long as its size is not 0 (`Slots`).

**SequenceLemmas** has the facts these proofs share: a non-empty set of positions has a first
one, by well-foundedness of finite sets, what `RemoveAt` and an element in front make of a
sequence, and that counting the smaller members numbers a set of positions (`RankProperties`).

**BloomFilter_proofs** proves, for any keys, hash functions, sizes and sequences of calls,
from `BloomFilterAssumption`: `TypeCorrect`, `AddedIsFound` (no false negatives),
`PositivesAreCovered` and `CollisionsCounted`. Its `IndInv` says that the bits of the
added keys and those the running addition has passed are set (`BitsOfAdded`,
`BitsOfRunning`), that no others are (`Covered`), and that a filter of no bits never completes
an addition (`NoBits`). `SetOneBit` is the fact about bytes and masks all of it rests on: or-ing
one mask into one byte changes one bit. `CollisionsExact` is inductive relative to `IndInv`.

**RBTree_proofs** is about one tree and the comparison of its keys. Of 32 bit keys, for every
width of an `int`: the comparison is 0 only for equal keys (`EqualOnlyIfSame`), orders keys that
are less than half the range apart as their values (`CloseKeysOrdered`) and others the other
way round, two keys at exactly half the range each less than the other (`FarKeysReversed`).
Lookups by equality are thus right for all keys, trees only for close ones: their keys are in an
order (`CloseKeysMakeAnOrder`), which is `KeysOrdered`, the hypothesis of what follows. The runs
evaluate it for their keys.

Search, traversal and black height are recursive functions of the tree. None of the lemmas
needs what they compute for every tree: `Shape(T, N, sub)` says of a tree of the nodes `N` which
of them are in the subtree of each node, on the side the search takes, and `Heights(T, N, bh, ...)`
how many black nodes are on every path down. `FromTheLeaves` and `FromTheRoot`, from the
well-foundedness of finite sets, say that what carries over from children to parents, or from
parents to children, holds everywhere, so that the recursive functions are the ones given: `FindIs`,
`SubtreeIs`, `LeftmostIs`, `LinkParentIs`, `BlackHeightIs`. What a pointer store does is then a
statement about single nodes. `Turn` names the nodes a rotation moves and
`Succession` the successor that takes a removed node's place, so that the lemmas about them speak
of names and not of nested links. `RotatedShape`, `LinkedShape`, `SplicedShape` and `ReplacedShape`
give the new `sub` for each, and the lemmas named `...Keeps` the new heights for each case of the
two loops. An insertion may leave one red node under a red parent (`Inserting`), a removal one
place below which every path lacks a black node (`Lacking`); outside the loops a tree is
`Whole`, from which `WholeIsRedBlack`.

**RbtreeTable_proofs** proves, for any threads, keys and number of trees, with or without failing
allocations, from `RbtreeTableAssumption` and `RBTreeAssumption`:

- `WritersExclude` (`LockExcludes`), for any comparison;
- `AlwaysSearchable` (`SearchOrder`), `RestsBalanced` (`Balanced`), `CountersAlwaysAgree`
  (`CountersAgree`), `OnlyMovedRootsGoWrong` (`WrongOnlyIfRootMoved`) and `LoopsGetOn`
  (`RebalancingEnds`), assuming `KeysOrdered`. With keys further apart a search misses keys that
  are there.

`IndInv` ties the locks to program counters: whoever is at a writing step is the `writer` of
its call's bucket, whoever is at a reading step among the `readers`, and a bucket with a
writer has no readers. Every action either keeps its thread on its side of the lock
(`StaysInside`, `StaysOutside`) or is a locking step, whose guard is what the invariant needs.

`TableInv` adds what the trees are. `Tended(T, M, size, work)` relates a tree to the
allocated nodes `M` of its bucket, to `bucket_size`, and to what the thread that holds its lock
is at: between `rb_erase` and `free` one node of `M` is out of the tree (`Gone`), a node that is
linked is counted when its loop has ended, and nodes out of the tree point nowhere (`Clean`), so
that a freed node can be linked again. The lemmas named `...Tends` say that every step of a call
keeps this, and that every iteration of a loop brings its measure down: depths change by one in a
rotation (`RotatedDepth`). `StepAt` is the argument that a step at one tree leaves the others
alone, made once for all steps, which needs `LockExcludes`; `Counted` follows `no_objects`, which
catches up with the trees after their locks are free. A reader that holds the lock finds a
`Whole` tree of all nodes of its bucket, so that from the root it misses nothing.

What is only model-checked, in the bounds above:

- The digests, which are folds over the message.
- What is said under fairness: `EveryCallReturns` of both tables, and `CallsReturn`.

## What the models found

Counterexamples of runs, and findings in `PROJECT.json`:

- two threads inserting one key may both succeed (`hi_operations.c:156`);
- `key_hash` of list entries is never set (`hi_list.c:339`), so COLL_ENG_LIST_HASH may miss
  a key;
- `lhi_get_rbtree` reads the root before it locks (`hi_rbtree.c:351`), and the bucket walk of
  trees does so too (`410`).

Shown by properties that name them as the only exceptions:

- COLL_ENG_LIST_MTF works on the chain without the mutex and then unlocks it: entries are lost,
  missed or freed under a walk, chains close to a ring, and the counters miss updates
  (`hi_list.c:237-259`; `list_mtf`);
- a bucket walk of an array misses entries behind a hole, returns elements nobody wrote
  (`hi_array.c:207`; `WalkMissesTail`, `CrashesOnlyThere`), and writes the length of a key behind a
  hole to another element than the key (`hi_array.c:216`; `WalkMissesTail`);
- `hi_rehash` loses entries that are in the table all the time when another thread changes a tree
  between the reading of its root and the lock (`hi_rbtree.c:410`), or gets a key of a
  COLL_ENG_LIST_MTF chain it is walking (`hi_list.c:248`; `RehashKeepsEntries`, by `overtaken`);
- a table that rehashes itself may be one entry fuller than it has buckets, when two insertions
  test the load before either completes (`hi_operations.c:159`; `LoadBounded`);
- a failed key copy keeps the mutex (`hi_array.c:286`), and `lhi_fini_array` locks a mutex its
  caller holds, so that `hi_fini` of an array handle never returns (`hi_array.c:312`;
  `StuckOnlyInArrays`);
- a failed `realloc` loses the bucket, and the next access crashes (`hi_array.c:263`;
  `NoSilentLoss`);
- `hi_rehash` writes to a handle it has freed when an insertion fails, which a doublet makes
  it; divides by zero for size 0; and works without the mutex (`lib_init.c:398-484`;
  `CrashesOnlyThere`, `RehashKeepsEntries`);
- an iterator of a table that was empty at its reset reads through NULL (`hi_iterator.c:161`;
  `CrashesOnlyThere`);
- a threshold of 0.75 acts as 1, because the load factor is an integer
  (`hi_operations.c:139`; `LoadBounded`);
- SHA-1 of a key longer than an `int` is that of the empty key (`hash_func_sha1.c:346`), Skein
  of a key whose bits overflow a `uint32_t` that of its first bytes
  (`hash_func_skein256.c:1309`; `DigestIsFips`, `DigestIsSkein`);
- 32 bit keys half the range apart or further are ordered the wrong way round in trees
  (`cmp_funcs.c:47`; `FarKeysReversed`).

Modelled without a property of their own: the byte behind the map that `hi_bloom_bit_get`
reads for `bit = m`, and array engines that are accepted with arrays of no slots
(`hi_array.c:260`) or never look into their table (`hi_array.c:94`). No document says what
these should do.

## Not modelled

- Memory is modelled where an access can go wrong (freed entries of `ListMtf`, freed nodes of
  `RbtreeTable`, the handles and arrays of `Handle`); leaks are not counted.
- Of two threads at one handle in `Handle`: a bucket chosen before a rehash and used after it
  (`hi_array.c:237`), a second thread that rehashes, more than one change during a rehash, and an
  iterator of the program that is overtaken in a bucket. Within the tables of one size the
  engines' modules have the threads interleave freely.
- The keys an iterator still lists after the table has changed, and what it yields of them.
- The hash functions as functions: in the tables a hash is any function of the key, so that the
  properties hold whatever it computes. Of the digests the mixing of bits is modelled where
  the code does it in a way of its own (`Sha1Rounds`, `Threefish`); cube, goulburn and the
  byte-at-a-time functions of `hash_func.c` are straight loops over a key without state.
- Big-endian paths of the hashes, and Skein's tree mode, which no call reaches.
- The false-positive formulas of the Bloom filter are floating point and change no state.
- The key wrappers pass their arguments on; `cmp_funcs.c` compares strings with `strcmp`.
- Printing, error strings, aligned allocation, test data generators, tests and `analysis/`
  hold no state of the library.
- More than one bucket of COLL_ENG_LIST_MTF: buckets share nothing but the mutex.

## Plan

1. `Handle`: the keys an iterator still lists after the table has changed.
2. `Handle`: an engine's operation that has chosen its bucket before a rehash and uses it after,
   another thread that itself rehashes, and more than one change during a rehash.
3. `RbtreeTable` over keys that are not in an order: what remains true of a tree then.

## Running the checks

    tlc -workers 2 -config list_implements.cfg MCListTable
    tlc -workers 2 -config digests.cfg MCDigests
    tlapm ListTable_proofs.tla

The other runs likewise: `list_*` with `MCListTable` except `list_mtf` with `MCListMtf`,
`array_*` with `MCArrayTable`, `rbtree*` with `MCRbtreeTable`, `handle` with `MCHandle`, `bloom`
with `MCBloomFilter`.
