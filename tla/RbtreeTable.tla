---------------------------- MODULE RbtreeTable -----------------------------
(***************************************************************************)
(* A hashish handle with COLL_ENG_RBTREE (lib/hi_rbtree.c behind           *)
(* lib/hi_operations.c) in a THREADSAFE build, shared by several threads.  *)
(*                                                                         *)
(* Every bucket is a red-black tree with a read-write lock of its own.     *)
(* Insertions and removals work under the write lock: the search, the      *)
(* pointer stores and every iteration of the loops that restore the        *)
(* colours are steps.  hi_get and the bucket walk read the root of the     *)
(* tree before they take the read lock.  no_objects is updated under the   *)
(* handle's mutex after the tree has been unlocked; nothing else happens   *)
(* in that critical section, so it is one step.  Self-rehashing is off,    *)
(* and hi_lookup has no case for trees: hi_insert goes straight on.        *)
(***************************************************************************)
EXTENDS RBTree

CONSTANTS
    Thread,         \* the threads that share the handle
    NoOwner,        \* nobody holds the write lock
    TableSize,      \* table_size
    Hash,           \* hash_func, a function [Key -> Nat]
    InsertKeys,     \* InsertKeys[t]: the keys thread t inserts
    RemoveKeys,     \* RemoveKeys[t]: the keys it removes
    GetKeys,        \* GetKeys[t]: the keys it looks up
    WalkBuckets,    \* WalkBuckets[t]: the buckets it walks
    MallocMayFail   \* whether malloc may return NULL

Bucket == 0 .. TableSize - 1

ASSUME RbtreeTableAssumption ==
    /\ TableSize \in Nat \ {0}
    /\ Hash \in [Key -> Nat]
    /\ NoOwner \notin Thread
    /\ InsertKeys \in [Thread -> SUBSET Key]
    /\ RemoveKeys \in [Thread -> SUBSET Key]
    /\ GetKeys \in [Thread -> SUBSET Key]
    /\ WalkBuckets \in [Thread -> SUBSET Bucket]
    /\ MallocMayFail \in BOOLEAN

VARIABLES
    tree,         \* tree[b]: the tree of bucket b
    live,         \* the nodes in allocated memory
    bucket_size,  \* bucket_size[b]
    no_objects,   \* no_objects
    writer,       \* writer[b]: the thread that holds the write lock of b, or NoOwner
    readers,      \* readers[b]: the threads that hold its read lock
    pc,           \* pc[t]: the next step of t
    call,         \* call[t]: the call t makes
    node,         \* node[t]: the root t has read, or the node its loop is at
    parent,       \* parent[t]: the parent __rb_erase_color is at
    reply         \* reply[t]: the return value of t's call

locals == <<call, node, parent>>
vars == <<tree, live, bucket_size, no_objects, writer, readers, pc, locals, reply>>

BucketOf(k) == Hash[k] % TableSize

NoReply == [code |-> "NONE", content |-> {}, unwritten |-> 0]

PC == {"idle", "wrlock", "search", "insert_color", "erase_color", "free", "unlock", "count",
       "rdlock", "read", "rdunlock"}

CallsOf(t) ==
    {[op |-> "insert", key |-> k, bucket |-> BucketOf(k)] : k \in InsertKeys[t]}
      \cup {[op |-> "remove", key |-> k, bucket |-> BucketOf(k)] : k \in RemoveKeys[t]}
      \cup {[op |-> "get", key |-> k, bucket |-> BucketOf(k)] : k \in GetKeys[t]}
      \cup {[op |-> "to_array", key |-> NULL, bucket |-> b] : b \in WalkBuckets[t]}

NoCall == [op |-> "none", key |-> NULL, bucket |-> 0]

Init ==
    /\ tree = [b \in Bucket |-> EmptyTree]
    /\ live = {}
    /\ bucket_size = [b \in Bucket |-> 0]
    /\ no_objects = 0
    /\ writer = [b \in Bucket |-> NoOwner]
    /\ readers = [b \in Bucket |-> {}]
    /\ pc = [t \in Thread |-> "idle"]
    /\ call = [t \in Thread |-> NoCall]
    /\ node = [t \in Thread |-> NULL]
    /\ parent = [t \in Thread |-> NULL]
    /\ reply = [t \in Thread |-> NoReply]

Goto(t, l) == pc' = [pc EXCEPT ![t] = l]

Answer(t, code) == reply' = [reply EXCEPT ![t] = [NoReply EXCEPT !.code = code]]

At(t, n, p) == node' = [node EXCEPT ![t] = n] /\ parent' = [parent EXCEPT ![t] = p]

\* The call is over and its locals are gone.
Return(t) ==
    /\ Goto(t, "idle")
    /\ call' = [call EXCEPT ![t] = NoCall]
    /\ reply' = [reply EXCEPT ![t] = NoReply]
    /\ At(t, NULL, NULL)

counters == <<bucket_size, no_objects>>
locks == <<writer, readers>>

(***************************************************************************)
(* Beginning a call: a reader reads the root without the lock.             *)
(***************************************************************************)
BeginWrite(t) ==
    /\ pc[t] = "idle"
    /\ \E c \in CallsOf(t) :
        /\ c.op \in {"insert", "remove"}
        /\ call' = [call EXCEPT ![t] = c]
    /\ Goto(t, "wrlock")
    /\ UNCHANGED <<tree, live, counters, locks, node, parent, reply>>

\* A walk of an empty tree returns at once, without a trace.
ReadRoot(t) ==
    /\ pc[t] = "idle"
    /\ \E c \in CallsOf(t) :
        /\ c.op \in {"get", "to_array"}
        /\ call' = [call EXCEPT ![t] = c]
        /\ c.op = "to_array" => tree[c.bucket].root # NULL
        /\ At(t, tree[c.bucket].root, NULL)
    /\ Goto(t, "rdlock")
    /\ UNCHANGED <<tree, live, counters, locks, reply>>

(***************************************************************************)
(* Insertion and removal.                                                  *)
(***************************************************************************)
\* Mutant: writers do not wait for each other.
WrLock_Shared(t) ==
    LET b == call[t].bucket IN
    /\ pc[t] = "wrlock"
    /\ readers[b] = {}
    /\ writer' = [writer EXCEPT ![b] = t]
    /\ Goto(t, "search")
    /\ UNCHANGED <<tree, live, counters, readers, locals, reply>>

WrLock(t) ==
    LET b == call[t].bucket IN
    /\ pc[t] = "wrlock"
    /\ writer[b] = NoOwner /\ readers[b] = {}
    /\ writer' = [writer EXCEPT ![b] = t]
    /\ Goto(t, "search")
    /\ UNCHANGED <<tree, live, counters, readers, locals, reply>>

\* The key is there already, or is not, or memory runs out.
InsertRefused(t) ==
    LET c == call[t] IN
    /\ pc[t] = "search" /\ c.op = "insert"
    /\ IF Find(tree[c.bucket], c.key, tree[c.bucket].root) # NULL
         THEN Answer(t, "DUPKEY")
         ELSE MallocMayFail /\ Answer(t, "SYSTEM")
    /\ Goto(t, "unlock")
    /\ UNCHANGED <<tree, live, counters, locks, locals>>

InsertLink(t) ==
    LET c == call[t]
        T == tree[c.bucket]
    IN
    /\ pc[t] = "search" /\ c.op = "insert"
    /\ Find(T, c.key, T.root) = NULL
    /\ tree' = [tree EXCEPT ![c.bucket] = rb_link_node(T, c.key, LinkParent(T, c.key))]
    /\ live' = live \cup {c.key}
    /\ At(t, c.key, NULL)
    /\ Goto(t, "insert_color")
    /\ UNCHANGED <<counters, locks, call, reply>>

\* One iteration of rb_insert_color.
InsertColorRecolour(t) ==
    LET b == call[t].bucket
        T == tree[b]
        n == node[t]
    IN
    /\ pc[t] = "insert_color" /\ RedRed(T, n)
    /\ IsRed(T, Uncle(T, n))
    /\ tree' = [tree EXCEPT ![b] = InsertRecolour(T, n)]
    /\ At(t, Grandparent(T, n), NULL)
    /\ UNCHANGED <<live, counters, locks, pc, call, reply>>

InsertColorInner(t) ==
    LET b == call[t].bucket
        T == tree[b]
        n == node[t]
    IN
    /\ pc[t] = "insert_color" /\ RedRed(T, n)
    /\ ~IsRed(T, Uncle(T, n)) /\ IsInner(T, n)
    /\ tree' = [tree EXCEPT ![b] = InsertInner(T, n)]
    /\ At(t, T.parent[n], NULL)
    /\ UNCHANGED <<live, counters, locks, pc, call, reply>>

InsertColorOuter(t) ==
    LET b == call[t].bucket
        T == tree[b]
        n == node[t]
    IN
    /\ pc[t] = "insert_color" /\ RedRed(T, n)
    /\ ~IsRed(T, Uncle(T, n)) /\ ~IsInner(T, n)
    /\ tree' = [tree EXCEPT ![b] = InsertOuter(T, n)]
    /\ UNCHANGED <<live, counters, locks, pc, locals, reply>>

InsertColorDone(t) ==
    LET b == call[t].bucket
        T == tree[b]
    IN
    /\ pc[t] = "insert_color" /\ ~RedRed(T, node[t])
    /\ tree' = [tree EXCEPT ![b] = Paint(T, T.root, FALSE)]
    /\ bucket_size' = [bucket_size EXCEPT ![b] = @ + 1]
    /\ Answer(t, "SUCCESS")
    /\ Goto(t, "unlock")
    /\ UNCHANGED <<live, no_objects, locks, locals>>

RemoveMisses(t) ==
    LET c == call[t] IN
    /\ pc[t] = "search" /\ c.op = "remove"
    /\ Find(tree[c.bucket], c.key, tree[c.bucket].root) = NULL
    /\ Answer(t, "NOKEY")
    /\ Goto(t, "unlock")
    /\ UNCHANGED <<tree, live, counters, locks, locals>>

\* A red node may go without further ado.
RemoveErase(t) ==
    LET c == call[t]
        T == tree[c.bucket]
        n == Find(T, c.key, T.root)
        E == rb_erase(T, n)
    IN
    /\ pc[t] = "search" /\ c.op = "remove"
    /\ n # NULL
    /\ tree' = [tree EXCEPT ![c.bucket] = E.tree]
    /\ At(t, E.node, E.parent)
    /\ Goto(t, IF E.red THEN "free" ELSE "erase_color")
    /\ UNCHANGED <<live, counters, locks, call, reply>>

\* One iteration of __rb_erase_color, by the colours of the sibling and its children.
EraseColorRedSibling(t) ==
    LET b == call[t].bucket
        T == tree[b]
    IN
    /\ pc[t] = "erase_color" /\ LacksBlack(T, node[t])
    /\ IsRed(T, Sibling(T, node[t], parent[t]))
    /\ tree' = [tree EXCEPT ![b] = EraseRedSibling(T, node[t], parent[t])]
    /\ UNCHANGED <<live, counters, locks, pc, locals, reply>>

BlackSibling(T, n, p) == LacksBlack(T, n) /\ ~IsRed(T, Sibling(T, n, p))

EraseColorRecolour(t) ==
    LET b == call[t].bucket
        T == tree[b]
        n == node[t]
        p == parent[t]
    IN
    /\ pc[t] = "erase_color" /\ BlackSibling(T, n, p)
    /\ ~IsRed(T, Far(T, n, p)) /\ ~IsRed(T, Near(T, n, p))
    /\ tree' = [tree EXCEPT ![b] = EraseRecolour(T, n, p)]
    /\ At(t, p, T.parent[p])
    /\ UNCHANGED <<live, counters, locks, pc, call, reply>>

EraseColorNear(t) ==
    LET b == call[t].bucket
        T == tree[b]
        n == node[t]
        p == parent[t]
    IN
    /\ pc[t] = "erase_color" /\ BlackSibling(T, n, p)
    /\ ~IsRed(T, Far(T, n, p)) /\ IsRed(T, Near(T, n, p))
    /\ tree' = [tree EXCEPT ![b] = EraseNear(T, n, p)]
    /\ UNCHANGED <<live, counters, locks, pc, locals, reply>>

\* The last case goes on with the root, which ends the loop.
EraseColorFar(t) ==
    LET b == call[t].bucket
        T == tree[b]
        T1 == EraseFar(T, node[t], parent[t])
    IN
    /\ pc[t] = "erase_color" /\ BlackSibling(T, node[t], parent[t])
    /\ IsRed(T, Far(T, node[t], parent[t]))
    /\ tree' = [tree EXCEPT ![b] = T1]
    /\ At(t, T1.root, NULL)
    /\ UNCHANGED <<live, counters, locks, pc, call, reply>>

EraseColorDone(t) ==
    LET b == call[t].bucket IN
    /\ pc[t] = "erase_color" /\ ~LacksBlack(tree[b], node[t])
    /\ tree' = [tree EXCEPT ![b] = Paint(@, node[t], FALSE)]
    /\ Goto(t, "free")
    /\ UNCHANGED <<live, counters, locks, locals, reply>>

RemoveFree(t) ==
    LET c == call[t] IN
    /\ pc[t] = "free"
    /\ tree' = [tree EXCEPT ![c.bucket] = Forget(@, c.key)]
    /\ live' = live \ {c.key}
    /\ bucket_size' = [bucket_size EXCEPT ![c.bucket] = @ - 1]
    /\ Answer(t, "SUCCESS")
    /\ Goto(t, "unlock")
    /\ UNCHANGED <<no_objects, locks, locals>>

\* Only a call that changed the tree goes on to count.
WrUnlock(t) ==
    LET b == call[t].bucket IN
    /\ pc[t] = "unlock"
    /\ writer' = [writer EXCEPT ![b] = NoOwner]
    /\ IF reply[t].code = "SUCCESS"
         THEN Goto(t, "count") /\ UNCHANGED <<locals, reply>>
         ELSE Return(t)
    /\ UNCHANGED <<tree, live, counters, readers>>

\* Mutant: a removal is counted like an insertion.
CountObjects_Up(t) ==
    /\ pc[t] = "count"
    /\ no_objects' = no_objects + 1
    /\ Return(t)
    /\ UNCHANGED <<tree, live, bucket_size, locks>>

\* Under the handle's mutex.
CountObjects(t) ==
    /\ pc[t] = "count"
    /\ no_objects' = no_objects + (IF call[t].op = "insert" THEN 1 ELSE -1)
    /\ Return(t)
    /\ UNCHANGED <<tree, live, bucket_size, locks>>

(***************************************************************************)
(* hi_get and the bucket walk, from the root read before the lock.         *)
(***************************************************************************)
\* Mutant: a reader does not wait for the writer.
RdLock_Barging(t) ==
    LET b == call[t].bucket IN
    /\ pc[t] = "rdlock"
    /\ readers' = [readers EXCEPT ![b] = @ \cup {t}]
    /\ Goto(t, "read")
    /\ UNCHANGED <<tree, live, counters, writer, locals, reply>>

RdLock(t) ==
    LET b == call[t].bucket IN
    /\ pc[t] = "rdlock"
    /\ writer[b] = NoOwner
    /\ readers' = [readers EXCEPT ![b] = @ \cup {t}]
    /\ Goto(t, "read")
    /\ UNCHANGED <<tree, live, counters, writer, locals, reply>>

\* The node was freed: whatever the memory holds now is taken for a node.
ReadFreed(t) ==
    /\ pc[t] = "read"
    /\ call[t].op = "to_array" => bucket_size[call[t].bucket] # 0
    /\ node[t] # NULL /\ node[t] \notin live
    /\ Answer(t, "UNDEFINED")
    /\ Goto(t, "rdunlock")
    /\ UNCHANGED <<tree, live, counters, locks, locals>>

Get(t) ==
    LET c == call[t] IN
    /\ pc[t] = "read" /\ c.op = "get"
    /\ node[t] \in live \cup {NULL}
    /\ Answer(t, IF Find(tree[c.bucket], c.key, node[t]) = NULL THEN "NOKEY" ELSE "SUCCESS")
    /\ Goto(t, "rdunlock")
    /\ UNCHANGED <<tree, live, counters, locks, locals>>

\* The arrays have bucket_size elements; those the traversal does not reach stay
\* unwritten.
ToArray(t) ==
    LET b == call[t].bucket
        visited == Subtree(tree[b], node[t])
    IN
    /\ pc[t] = "read" /\ call[t].op = "to_array"
    /\ bucket_size[b] # 0 /\ node[t] \in live
    /\ reply' = [reply EXCEPT ![t] =
                    [code |-> "SUCCESS", content |-> visited,
                     unwritten |-> bucket_size[b] - Cardinality(visited)]]
    /\ Goto(t, "rdunlock")
    /\ UNCHANGED <<tree, live, counters, locks, locals>>

\* The tree has been emptied since, or malloc fails.
ToArrayFails(t) ==
    /\ pc[t] = "read" /\ call[t].op = "to_array"
    /\ IF bucket_size[call[t].bucket] = 0 THEN Answer(t, "NODATA")
                                          ELSE MallocMayFail /\ Answer(t, "SYSTEM")
    /\ Goto(t, "rdunlock")
    /\ UNCHANGED <<tree, live, counters, locks, locals>>

RdUnlock(t) ==
    LET b == call[t].bucket IN
    /\ pc[t] = "rdunlock"
    /\ readers' = [readers EXCEPT ![b] = @ \ {t}]
    /\ Return(t)
    /\ UNCHANGED <<tree, live, counters, writer>>

Step(t) ==
    \/ WrLock(t) \/ InsertRefused(t) \/ InsertLink(t)
    \/ InsertColorRecolour(t) \/ InsertColorInner(t) \/ InsertColorOuter(t) \/ InsertColorDone(t)
    \/ RemoveMisses(t) \/ RemoveErase(t)
    \/ EraseColorRedSibling(t) \/ EraseColorRecolour(t) \/ EraseColorNear(t)
    \/ EraseColorFar(t) \/ EraseColorDone(t) \/ RemoveFree(t)
    \/ WrUnlock(t) \/ CountObjects(t)
    \/ RdLock(t) \/ ReadFreed(t) \/ Get(t) \/ ToArray(t) \/ ToArrayFails(t) \/ RdUnlock(t)

Next == \E t \in Thread : BeginWrite(t) \/ ReadRoot(t) \/ Step(t)

Spec == Init /\ [][Next]_vars
-----------------------------------------------------------------------------
(***************************************************************************)
(* Properties.                                                             *)
(***************************************************************************)

\* Whenever no writer holds a tree's lock the tree is a red-black tree: linked
\* both ways, the root black, no red node under a red one, every path with the same
\* number of black nodes (hi_rbtree.c:118-334).
Balanced ==
    \A b \in Bucket :
        writer[b] = NoOwner => Linked(tree[b]) /\ RedBlack(tree[b])

\* At every moment, also between the iterations of rebalancing, the search for a
\* node's key leads to it, and a tree holds only nodes of its bucket in allocated
\* memory (hi_rbtree.c:71-115, 281-329).
SearchOrder ==
    \A b \in Bucket :
        /\ Searchable(tree[b])
        /\ \A n \in Nodes(tree[b]) : n \in live /\ BucketOf(n) = b

\* The threads that have changed a tree and not yet counted it.
Uncounted(op) == {t \in Thread : pc[t] \in {"unlock", "count"} /\ call[t].op = op
                                  /\ reply[t].code = "SUCCESS"}

\* bucket_size describes a tree whenever its lock is free; no_objects describes
\* the table up to the calls that have unlocked their tree and not yet taken the
\* mutex (hi_rbtree.c:459-461, 520-524).
CountersAgree ==
    /\ \A b \in Bucket :
        writer[b] = NoOwner => bucket_size[b] = Cardinality(Nodes(tree[b]))
    /\ (\A b \in Bucket : writer[b] = NoOwner) =>
        no_objects + Cardinality(Uncounted("insert")) - Cardinality(Uncounted("remove"))
            = Cardinality(live)

\* No thread ever holds a tree's lock for writing together with another.
LockExcludes ==
    \A b \in Bucket : \A t, u \in Thread :
        (writer[b] = t /\ u # t) =>
            /\ u \notin readers[b]
            /\ ~(call[u].bucket = b /\ pc[u] \in {"search", "insert_color", "erase_color",
                                                  "free", "unlock", "read", "rdunlock"})

\* hi_get and the bucket walk read the root before they take the lock
\* (hi_rbtree.c:351, 410).  They go wrong - miss a key, return part of a tree, use
\* freed memory - only if the root has changed in between.
ReadsExactly(t) ==
    LET c == call[t]
        T == tree[c.bucket]
    IN
    CASE c.op = "get" ->
            reply'[t].code = (IF c.key \in Nodes(T) THEN "SUCCESS" ELSE "NOKEY")
      [] c.op = "to_array" ->
            \/ reply'[t].code = "SUCCESS" /\ reply'[t].content = Nodes(T)
               /\ reply'[t].unwritten = 0
            \/ reply'[t].code = "SYSTEM" /\ MallocMayFail

WrongOnlyIfRootMoved ==
    [][\A t \in Thread :
        pc[t] = "read" /\ pc'[t] = "rdunlock" /\ node[t] = tree[call[t].bucket].root
            => ReadsExactly(t)]_vars

\* "search for a given key and return SUCCESS when found" (hi_rbtree.c:338-339): a
\* get finds a key that is in the table when it looks.  No other thread inserts that
\* key, so it has been there since before the call.
GetFindsKey ==
    [][\A t \in Thread :
        LET k == call[t].key IN
        /\ pc[t] = "read" /\ pc'[t] = "rdunlock" /\ call[t].op = "get"
        /\ \A u \in Thread \ {t} : k \notin InsertKeys[u]
        => (reply'[t].code = "NOKEY" => k \notin Nodes(tree[call[t].bucket]))]_vars

\* Rebalancing comes to an end: every iteration of the two loops brings them
\* nearer to it (hi_rbtree.c:122-180, 187-270).
Measure(T, l, n, p) == IF l = "insert_color" THEN InsertMeasure(T, n) ELSE EraseMeasure(T, n, p)

RebalancingEnds ==
    [][\A t \in Thread :
        LET b == call[t].bucket IN
        pc[t] \in {"insert_color", "erase_color"} /\ pc'[t] = pc[t] /\ tree'[b] # tree[b] =>
            Measure(tree[b], pc[t], node[t], parent[t])'
                < Measure(tree[b], pc[t], node[t], parent[t])]_vars
=============================================================================
