------------------------------ MODULE ListMtf -------------------------------
(***************************************************************************)
(* The move-to-front engine COLL_ENG_LIST_MTF (lib/hi_list.c) in a         *)
(* THREADSAFE build: hi_insert and hi_remove work under the handle's       *)
(* mutex; lhi_get_list does not lock it, walks and relinks the chain all   *)
(* the same, and then unlocks it.                                          *)
(*                                                                         *)
(* One bucket, at the level of its pointers: every load and store of head  *)
(* and next that another thread can come between is a step.  The buckets   *)
(* of a table share the mutex only.  An access to a freed entry ends the   *)
(* process: pc[t] = "crashed".  Unlocking a mutex the caller does not hold *)
(* is undefined; the default mutex of pthreads is free afterwards.         *)
(***************************************************************************)
EXTENDS Integers, FiniteSets

CONSTANTS
    Thread,      \* the threads that share the handle
    Key,         \* the keys
    Obj,         \* the memory entries are allocated in
    Null,        \* the null pointer; no key
    NoOwner,     \* the mutex is free
    Preloaded,   \* the chains the threads may find: sequences of keys
    OpsOf,       \* OpsOf[t]: the operations thread t calls
    MaxCalls     \* bound: the calls the threads make

ASSUME ListMtfAssumption ==
    /\ NoOwner \notin Thread /\ Null \notin Obj \cup Key
    /\ OpsOf \in [Thread -> SUBSET {"lookup", "get", "remove"}]
    /\ MaxCalls \in Nat
    /\ IsFiniteSet(Obj)
    /\ \A c \in Preloaded : \E n \in 0 .. Cardinality(Obj) : c \in [1 .. n -> Key]

VARIABLES
    head,         \* bucket_table[bucket]
    entry,        \* entry[o]: the allocated entry at o, or Freed
    bucket_size,  \* bucket_size[bucket]; no_objects goes with it
    mutex,        \* the thread that holds mutex_lock, or NoOwner
    pc, call,     \* the next step of t, and its call
    p, b_obj,     \* the pointers of t's walk
    loaded,       \* the pointer t has loaded and is about to store
    size,         \* what t has read of bucket_size
    reply,        \* the return value of t's call
    calls,        \* how many calls were made
    overtaken,    \* the chain was stored to by another thread during t's walk
    raced,        \* a thread has stored to the chain after it was overtaken
    stolen        \* a mutex held by another thread has been unlocked

vars == <<head, entry, bucket_size, mutex, pc, call, p, b_obj, loaded, size, reply, calls,
          overtaken, raced, stolen>>
chain == <<head, entry>>
walk == <<p, b_obj, loaded>>
ghosts == <<overtaken, raced, stolen>>

\* Freed memory.
Freed == [key |-> Null, next |-> Null]

NoCall == [op |-> "none", key |-> Null]

Live == {o \in Obj : entry[o] # Freed}

Injective(f) == \A i, j \in DOMAIN f : f[i] = f[j] => i = j

Init ==
    /\ \E c \in Preloaded :
        LET at == CHOOSE at \in [DOMAIN c -> Obj] : Injective(at) IN
        /\ head = IF c = <<>> THEN Null ELSE at[1]
        /\ entry = [o \in Obj |->
             IF \E i \in DOMAIN c : at[i] = o
               THEN LET i == CHOOSE i \in DOMAIN c : at[i] = o IN
                    [key |-> c[i], next |-> IF i + 1 \in DOMAIN c THEN at[i + 1] ELSE Null]
               ELSE Freed]
        /\ bucket_size = Cardinality(DOMAIN c)
    /\ mutex = NoOwner
    /\ pc = [t \in Thread |-> "idle"] /\ call = [t \in Thread |-> NoCall]
    /\ p = [t \in Thread |-> Null] /\ b_obj = [t \in Thread |-> Null]
    /\ loaded = [t \in Thread |-> Null]
    /\ size = [t \in Thread |-> 0]
    /\ reply = [t \in Thread |-> "NONE"] /\ calls = 0
    /\ overtaken = [t \in Thread |-> FALSE] /\ raced = FALSE /\ stolen = FALSE

Goto(t, l) == pc' = [pc EXCEPT ![t] = l]

\* The steps at which a thread relies on what it has read of the chain.
Walking(t) == pc[t] \in {"walk", "hit", "unlink", "relink", "link", "front", "publish"}

\* The steps at which a thread's entry is out of the chain.
InHand(t) == pc[t] \in {"relink", "link", "front", "publish", "free"}

\* A store of t to the chain.
Stores(t) ==
    /\ overtaken' = [u \in Thread |-> overtaken[u] \/ (u # t /\ Walking(u))]
    /\ raced' = (raced \/ overtaken[t])
    /\ UNCHANGED stolen

\* The access of t to the entries in S, and to a freed one.
Accesses(S) == S \subseteq Live \cup {Null}

Crash(t) ==
    /\ Goto(t, "crashed")
    /\ UNCHANGED <<chain, bucket_size, mutex, call, walk, size, reply, calls, ghosts>>

(***************************************************************************)
(* The steps.  hi_insert is a "lookup" call that becomes an "insert".      *)
(***************************************************************************)
Begin(t) ==
    /\ pc[t] = "idle" /\ calls < MaxCalls
    /\ \E op \in OpsOf[t], k \in Key :
        /\ call' = [call EXCEPT ![t] = [op |-> op, key |-> k]]
        /\ Goto(t, IF op = "get" THEN "head" ELSE "lock")
    /\ calls' = calls + 1
    /\ UNCHANGED <<chain, bucket_size, mutex, walk, size, reply, ghosts>>

\* Mutant: the lock is not taken in earnest.
Lock_Blind(t) ==
    /\ pc[t] = "lock"
    /\ mutex' = t
    /\ Goto(t, "head")
    /\ UNCHANGED <<chain, bucket_size, call, walk, size, reply, calls, ghosts>>

Lock(t) ==
    /\ pc[t] = "lock"
    /\ mutex = NoOwner /\ mutex' = t
    /\ Goto(t, "head")
    /\ UNCHANGED <<chain, bucket_size, call, walk, size, reply, calls, ghosts>>

\* Mutant: the walk begins behind the first entry.
ReadHead_Second(t) ==
    /\ pc[t] = "head" /\ call[t].op # "insert"
    /\ p' = [p EXCEPT ![t] = head]
    /\ b_obj' = [b_obj EXCEPT ![t] = IF head \in Live THEN entry[head].next ELSE head]
    /\ Goto(t, "walk")
    /\ UNCHANGED <<chain, bucket_size, mutex, call, loaded, size, reply, calls, ghosts>>

ReadHead(t) ==
    /\ pc[t] = "head" /\ call[t].op # "insert"
    /\ p' = [p EXCEPT ![t] = head] /\ b_obj' = [b_obj EXCEPT ![t] = head]
    /\ Goto(t, "walk")
    /\ UNCHANGED <<chain, bucket_size, mutex, call, loaded, size, reply, calls, ghosts>>

\* Mutant: only p goes on.
Advance_Stays(t) ==
    /\ pc[t] = "walk" /\ b_obj[t] # Null
    /\ IF ~Accesses({b_obj[t]}) THEN Crash(t)
       ELSE /\ entry[b_obj[t]].key # call[t].key
            /\ p' = [p EXCEPT ![t] = b_obj[t]]
            /\ UNCHANGED <<chain, bucket_size, mutex, pc, call, b_obj, loaded, size, reply, calls, ghosts>>

Advance(t) ==
    /\ pc[t] = "walk" /\ b_obj[t] # Null
    /\ IF ~Accesses({b_obj[t]}) THEN Crash(t)
       ELSE /\ entry[b_obj[t]].key # call[t].key
            /\ p' = [p EXCEPT ![t] = b_obj[t]]
            /\ b_obj' = [b_obj EXCEPT ![t] = entry[b_obj[t]].next]
            /\ UNCHANGED <<chain, bucket_size, mutex, pc, call, loaded, size, reply, calls, ghosts>>

Miss(t) ==
    /\ pc[t] = "walk" /\ b_obj[t] = Null
    /\ reply' = [reply EXCEPT ![t] = IF call[t].op = "lookup" THEN "NONE" ELSE "NOKEY"]
    /\ Goto(t, "unlock")
    /\ UNCHANGED <<chain, bucket_size, mutex, call, walk, size, calls, ghosts>>

\* A lookup and a get of the first entry have nothing more to do.
Hit(t) ==
    /\ pc[t] = "walk" /\ b_obj[t] \in Live /\ entry[b_obj[t]].key = call[t].key
    /\ reply' = [reply EXCEPT ![t] = IF call[t].op = "lookup" THEN "DUPKEY" ELSE "SUCCESS"]
    /\ Goto(t, IF call[t].op = "lookup" \/ (call[t].op = "get" /\ p[t] = b_obj[t])
                 THEN "unlock" ELSE "hit")
    /\ UNCHANGED <<chain, bucket_size, mutex, call, walk, size, calls, ghosts>>

\* The right-hand side of p->next = b_obj->next, or of what a removal stores
\* (hi_list.c:148-151, 248).
LoadNext(t) ==
    /\ pc[t] = "hit"
    /\ IF ~Accesses({b_obj[t]}) THEN Crash(t)
       ELSE /\ loaded' = [loaded EXCEPT ![t] = entry[b_obj[t]].next]
            /\ Goto(t, "unlink")
            /\ UNCHANGED <<chain, bucket_size, mutex, call, p, b_obj, size, reply, calls, ghosts>>

\* Its store, to the head when a removal takes the first entry.
Unlink(t) ==
    /\ pc[t] = "unlink"
    /\ IF p[t] # b_obj[t] /\ ~Accesses({p[t]}) THEN Crash(t)
       ELSE /\ IF p[t] = b_obj[t]
                 THEN head' = loaded[t] /\ UNCHANGED entry
                 ELSE entry' = [entry EXCEPT ![p[t]].next = loaded[t]] /\ UNCHANGED head
            /\ Goto(t, IF call[t].op = "get" THEN "relink" ELSE "free")
            /\ Stores(t)
            /\ UNCHANGED <<bucket_size, mutex, call, walk, size, reply, calls>>

\* The right-hand side of b_obj->next = head.
LoadHead(t) ==
    /\ pc[t] = "relink"
    /\ loaded' = [loaded EXCEPT ![t] = head]
    /\ Goto(t, "link")
    /\ UNCHANGED <<chain, bucket_size, mutex, call, p, b_obj, size, reply, calls, ghosts>>

\* Mutant: the entry moved forgets the rest of the chain.
Relink_Forgets(t) ==
    /\ pc[t] = "link"
    /\ IF ~Accesses({b_obj[t]}) THEN Crash(t)
       ELSE /\ entry' = [entry EXCEPT ![b_obj[t]].next = Null]
            /\ Goto(t, "front")
            /\ Stores(t)
            /\ UNCHANGED <<head, bucket_size, mutex, call, walk, size, reply, calls>>

\* Its store.
Relink(t) ==
    /\ pc[t] = "link"
    /\ IF ~Accesses({b_obj[t]}) THEN Crash(t)
       ELSE /\ entry' = [entry EXCEPT ![b_obj[t]].next = loaded[t]]
            /\ Goto(t, "front")
            /\ Stores(t)
            /\ UNCHANGED <<head, bucket_size, mutex, call, walk, size, reply, calls>>

\* head = b_obj
Front(t) ==
    /\ pc[t] = "front"
    /\ head' = b_obj[t]
    /\ Goto(t, "unlock")
    /\ Stores(t)
    /\ UNCHANGED <<entry, bucket_size, mutex, call, walk, size, reply, calls>>

Free(t) ==
    /\ pc[t] = "free"
    /\ IF ~Accesses({b_obj[t]}) THEN Crash(t)
       ELSE /\ entry' = [entry EXCEPT ![b_obj[t]] = Freed]
            /\ Goto(t, "count")
            /\ UNCHANGED <<head, bucket_size, mutex, call, walk, size, reply, calls, ghosts>>

\* lhi_insert_list up to obj->next = head.  Which free memory malloc returns makes
\* no difference.
Allocate(t) ==
    LET o == CHOOSE o \in Obj : o \notin Live IN
    /\ pc[t] = "head" /\ call[t].op = "insert" /\ Obj # Live
    /\ entry' = [entry EXCEPT ![o] = [key |-> call[t].key, next |-> head]]
    /\ b_obj' = [b_obj EXCEPT ![t] = o]
    /\ Goto(t, "publish")
    /\ UNCHANGED <<head, bucket_size, mutex, call, p, loaded, size, reply, calls, ghosts>>

\* No memory.
AllocFails(t) ==
    /\ pc[t] = "head" /\ call[t].op = "insert" /\ Obj = Live
    /\ reply' = [reply EXCEPT ![t] = "SYSTEM"]
    /\ Goto(t, "unlock")
    /\ UNCHANGED <<chain, bucket_size, mutex, call, walk, size, calls, ghosts>>

\* head = obj
Publish(t) ==
    /\ pc[t] = "publish"
    /\ head' = b_obj[t]
    /\ reply' = [reply EXCEPT ![t] = "SUCCESS"]
    /\ Goto(t, "count")
    /\ Stores(t)
    /\ UNCHANGED <<entry, bucket_size, mutex, call, walk, size, calls>>

Count(t) ==
    /\ pc[t] = "count"
    /\ size' = [size EXCEPT ![t] = bucket_size]
    /\ Goto(t, "recount")
    /\ UNCHANGED <<chain, bucket_size, mutex, call, walk, reply, calls, ghosts>>

Recount(t) ==
    /\ pc[t] = "recount"
    /\ bucket_size' = size[t] + (IF call[t].op = "insert" THEN 1 ELSE -1)
    /\ size' = [size EXCEPT ![t] = 0]
    /\ Goto(t, "unlock")
    /\ UNCHANGED <<chain, mutex, call, walk, reply, calls, ghosts>>

\* lhi_get_list unlocks a mutex it has not locked.  After a lookup that missed,
\* hi_insert locks again.
Unlock(t) ==
    LET goes_on == call[t].op = "lookup" /\ reply[t] = "NONE" IN
    /\ pc[t] = "unlock"
    /\ mutex' = NoOwner
    /\ stolen' = (stolen \/ mutex \notin {t, NoOwner})
    /\ call' = [call EXCEPT ![t] = IF goes_on THEN [@ EXCEPT !.op = "insert"] ELSE NoCall]
    /\ Goto(t, IF goes_on THEN "lock" ELSE "idle")
    /\ p' = [p EXCEPT ![t] = Null] /\ b_obj' = [b_obj EXCEPT ![t] = Null]
    /\ loaded' = [loaded EXCEPT ![t] = Null]
    /\ overtaken' = [overtaken EXCEPT ![t] = FALSE]
    /\ reply' = [reply EXCEPT ![t] = "NONE"]
    /\ UNCHANGED <<chain, bucket_size, size, calls, raced>>

Running == \A t \in Thread : pc[t] # "crashed"

Step(t) ==
    /\ Running
    /\ \/ Lock(t) \/ ReadHead(t) \/ Advance(t) \/ Miss(t) \/ Hit(t)
       \/ LoadNext(t) \/ Unlink(t) \/ LoadHead(t) \/ Relink(t) \/ Front(t) \/ Free(t)
       \/ Allocate(t) \/ AllocFails(t) \/ Publish(t) \/ Count(t) \/ Recount(t) \/ Unlock(t)

\* The calls are made, or the process has ended.
Finished ==
    /\ Running => calls = MaxCalls /\ \A t \in Thread : pc[t] = "idle"
    /\ UNCHANGED vars

Next == (\E t \in Thread : (Running /\ Begin(t)) \/ Step(t)) \/ Finished

\* The scheduler runs every thread that can run; who waits for the mutex waits for
\* finitely many calls.
Fairness == \A t \in Thread : WF_vars(Step(t))

Spec == Init /\ [][Next]_vars /\ Fairness
-----------------------------------------------------------------------------
(***************************************************************************)
(* Properties.                                                             *)
(***************************************************************************)
\* The i-th pointer of the chain, as far as its entries are allocated.
Path ==
    LET path[i \in 0 .. Cardinality(Obj)] ==
          IF i = 0 THEN head
          ELSE IF path[i - 1] \in Live THEN entry[path[i - 1]].next ELSE path[i - 1]
    IN path

Chained == {Path[i] : i \in DOMAIN Path} \ {Null}

\* The chain ends, and holds exactly the entries allocated that no call has in hand,
\* until a thread stores to it that was overtaken by another thread's store.  A get
\* that is overtaken and then finds nothing to move does no harm, and with the mutex
\* alone nobody is overtaken (hi_list.c:237-257).
ChainIntact ==
    ~raced =>
        /\ Path[Cardinality(Obj)] = Null
        /\ Chained = Live \ {b_obj[t] : t \in {u \in Thread : InHand(u)}}

\* A walk comes to the end of the chain without its key only if no entry of the chain has
\* it - one that a get has in hand, between taking it out and putting it in front, is in
\* none - and a freed entry is accessed by nobody, unless another thread has stored to the
\* chain since the call began to walk, or an overtaken thread has stored before
\* (hi_list.c:151-153, 242-257).
WrongOnlyWhenOvertaken ==
    \A t \in Thread : ~overtaken[t] /\ ~raced =>
        /\ pc[t] # "crashed"
        /\ pc[t] = "walk" /\ b_obj[t] = Null =>
             \A o \in Chained : entry[o].key # call[t].key

\* The counter agrees with the entries, whatever the gets do to the chain, unless the
\* unlock of a get has let a second thread into the critical section
\* (hi_list.c:193-194, 252, 350-351).
CounterExact ==
    ~stolen /\ (\A t \in Thread : pc[t] \notin {"publish", "count", "recount"}) =>
        bucket_size = Cardinality(Live)

\* Every call returns, unless a thread that was overtaken has stored to the chain:
\* two gets of one key can close it to a ring (hi_list.c:248-250).
CallsReturn ==
    \A t \in Thread : (pc[t] # "idle") ~> (pc[t] = "idle" \/ raced \/ ~Running)
=============================================================================
