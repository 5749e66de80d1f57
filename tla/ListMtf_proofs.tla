--------------------------- MODULE ListMtf_proofs ---------------------------
(***************************************************************************)
(* Proofs about ListMtf: whatever the gets, which take no lock, do to the  *)
(* chain, the counter agrees with the entries as long as no get has        *)
(* unlocked the mutex of another thread; and the chain is intact, and no   *)
(* call goes wrong that was not overtaken, until an overtaken one stores.  *)
(***************************************************************************)
EXTENDS ListMtf, FiniteSetTheorems, FunctionTheorems, TLAPS

PC == {"idle", "lock", "head", "walk", "hit", "unlink", "relink", "link", "front", "publish",
       "free", "count", "recount", "unlock", "crashed"}

\* The steps at which a call knows which entry it works on.
HasEntry == {"hit", "unlink", "relink", "link", "front", "publish", "free"}

\* The steps between the store that links an entry, or frees it, and its counting.
Uncounted == {"publish", "count", "recount"}

Pointer == Obj \cup {Null}

\* Types; an entry that is allocated has a key.
TypeInv ==
    /\ head \in Pointer
    /\ entry \in [Obj -> [key: Key \cup {Null}, next: Pointer]]
    /\ \A o \in Obj : entry[o].key = Null => entry[o] = Freed
    /\ bucket_size \in Int
    /\ mutex \in Thread \cup {NoOwner}
    /\ pc \in [Thread -> PC]
    /\ call \in [Thread -> [op: {"none", "lookup", "insert", "get", "remove"}, key: Key \cup {Null}]]
    /\ p \in [Thread -> Pointer] /\ b_obj \in [Thread -> Pointer]
    /\ loaded \in [Thread -> Pointer]
    /\ size \in [Thread -> Int]
    /\ stolen \in BOOLEAN

\* Where a thread is says which call it makes, with which key, and that it has an entry.
CallInv ==
    \A t \in Thread :
        /\ pc[t] \notin {"idle", "crashed"} => call[t].op # "none" /\ call[t].key \in Key
        /\ pc[t] = "lock" => call[t].op # "get"
        /\ pc[t] \in {"relink", "link", "front"} => call[t].op = "get"
        /\ pc[t] = "publish" => call[t].op = "insert"
        /\ pc[t] = "free" => call[t].op = "remove"
        /\ pc[t] \in {"hit", "unlink"} => call[t].op \in {"get", "remove"}
        /\ pc[t] = "walk" => call[t].op # "insert"
        /\ pc[t] \in {"count", "recount"} => call[t].op \in {"insert", "remove"}
        /\ pc[t] \in HasEntry => b_obj[t] \in Obj

\* Every call but a get works under the mutex, until a get takes it away.
MutexInv ==
    ~stolen => \A t \in Thread :
        pc[t] \notin {"idle", "lock", "crashed"} /\ call[t].op # "get" => mutex = t

\* What the call of t has still to add to the counter.
Owed(t) == IF call[t].op = "insert" THEN 1 ELSE -1

CountInv ==
    /\ IsFiniteSet(Live)
    /\ ~stolen =>
         /\ (\A t \in Thread : pc[t] \notin Uncounted) => bucket_size = Cardinality(Live)
         /\ \A t \in Thread : pc[t] \in Uncounted => bucket_size = Cardinality(Live) - Owed(t)
         /\ \A t \in Thread : pc[t] = "recount" => size[t] = bucket_size

IndInv == TypeInv /\ CallInv /\ MutexInv /\ CountInv

(***************************************************************************)
(* The initial chain.                                                      *)
(***************************************************************************)

\* There are addresses for the entries of a preloaded chain.
LEMMA Addresses ==
  ASSUME NEW n \in 0 .. Cardinality(Obj)
  PROVE  \E at \in [1 .. n -> Obj] : Injective(at)
<1>1. IsFiniteSet(Obj) /\ Cardinality(Obj) \in Nat /\ ExistsBijection(1 .. Cardinality(Obj), Obj)
  BY ListMtfAssumption, FS_CardinalityType
<1>2. PICK f \in Bijection(1 .. Cardinality(Obj), Obj) : TRUE
  BY <1>1 DEF ExistsBijection
<1>3. /\ f \in [1 .. Cardinality(Obj) -> Obj]
      /\ \A i, j \in 1 .. Cardinality(Obj) : f[i] = f[j] => i = j
  BY <1>2, Fun_BijectionProperties
<1>4. 1 .. n \subseteq 1 .. Cardinality(Obj)
  BY <1>1
<1> DEFINE at == [i \in 1 .. n |-> f[i]]
<1>5. at \in [1 .. n -> Obj] /\ Injective(at)
  BY <1>3, <1>4 DEF Injective
<1> QED
  BY <1>5

\* The entries of a preloaded chain are as many as its keys.
LEMMA AddressesUsed ==
  ASSUME NEW n \in Nat, NEW at \in [1 .. n -> Obj], Injective(at)
  PROVE  LET S == {at[i] : i \in 1 .. n} IN IsFiniteSet(S) /\ Cardinality(S) = n
<1> DEFINE S == {at[i] : i \in 1 .. n}
<1>1. IsFiniteSet(1 .. n) /\ Cardinality(1 .. n) = n
  BY FS_Interval
<1>2. at \in Bijection(1 .. n, S)
  BY Fun_IsBij DEF Injective
<1>3. ExistsBijection(1 .. n, S)
  BY <1>2 DEF ExistsBijection
<1> HIDE DEF S
<1>4. IsFiniteSet(S) /\ Cardinality(S) = n
  BY <1>1, <1>3, FS_Bijection
<1> QED
  BY <1>4 DEF S

\* The chain of the keys c, its entries at the addresses at.
InitialChain(n, at, c) ==
    /\ Injective(at)
    /\ head = IF n = 0 THEN Null ELSE at[1]
    /\ \A i \in 1 .. n :
         entry[at[i]] = [key |-> c[i], next |-> IF i < n THEN at[i + 1] ELSE Null]
    /\ \A o \in Obj \ {at[i] : i \in 1 .. n} : entry[o] = Freed
    /\ entry = [o \in Obj |-> entry[o]]
    /\ bucket_size = n

\* The threads find such a chain.
LEMMA InitialChainExists ==
  ASSUME Init
  PROVE  \E n \in Nat : \E at \in [1 .. n -> Obj], c \in [1 .. n -> Key] : InitialChain(n, at, c)
<1>1. PICK c \in Preloaded :
        LET at == CHOOSE at \in [DOMAIN c -> Obj] : Injective(at) IN
        /\ head = IF c = <<>> THEN Null ELSE at[1]
        /\ entry = [o \in Obj |->
             IF \E i \in DOMAIN c : at[i] = o
               THEN LET i == CHOOSE i \in DOMAIN c : at[i] = o IN
                    [key |-> c[i], next |-> IF i + 1 \in DOMAIN c THEN at[i + 1] ELSE Null]
               ELSE Freed]
        /\ bucket_size = Cardinality(DOMAIN c)
  BY DEF Init
<1>2. PICK n \in 0 .. Cardinality(Obj) : c \in [1 .. n -> Key]
  BY ListMtfAssumption
<1>3. n \in Nat /\ DOMAIN c = 1 .. n
  BY <1>2
<1> DEFINE at == CHOOSE f \in [1 .. n -> Obj] : Injective(f)
           pos(o) == CHOOSE i \in 1 .. n : at[i] = o
<1>4. at \in [1 .. n -> Obj] /\ Injective(at)
  BY <1>2, Addresses
<1>5. \A o \in Obj : (\E i \in 1 .. n : at[i] = o) => pos(o) \in 1 .. n /\ at[pos(o)] = o
  OBVIOUS
<1>6. /\ head = IF c = <<>> THEN Null ELSE at[1]
      /\ entry = [o \in Obj |->
           IF \E i \in 1 .. n : at[i] = o
             THEN [key |-> c[pos(o)],
                   next |-> IF pos(o) + 1 \in 1 .. n THEN at[pos(o) + 1] ELSE Null]
             ELSE Freed]
      /\ bucket_size = Cardinality(1 .. n)
  BY <1>1, <1>3
<1> HIDE DEF at, pos
<1>7. \A i \in 1 .. n : pos(at[i]) = i
  BY <1>4, <1>5 DEF Injective
<1>8. head = IF n = 0 THEN Null ELSE at[1]
  BY <1>2, <1>3, <1>6
<1>9. \A i \in 1 .. n : entry[at[i]] = [key |-> c[i], next |-> IF i < n THEN at[i + 1] ELSE Null]
  <2>1. \A i \in 1 .. n : at[i] \in Obj /\ (i + 1 \in 1 .. n <=> i < n)
    BY <1>3, <1>4
  <2> QED
    BY <1>6, <1>7, <2>1
<1>10. \A o \in Obj \ {at[i] : i \in 1 .. n} : entry[o] = Freed
  BY <1>6
<1>11. entry = [o \in Obj |-> entry[o]]
  BY <1>6
<1>12. bucket_size = n
  BY <1>3, <1>6, FS_Interval
<1>13. InitialChain(n, at, c)
  BY <1>4, <1>8, <1>9, <1>10, <1>11, <1>12 DEF InitialChain
<1> QED
  BY <1>2, <1>3, <1>4, <1>13

LEMMA InitialChainProperties ==
  ASSUME NEW n \in Nat, NEW at \in [1 .. n -> Obj], NEW c \in [1 .. n -> Key], InitialChain(n, at, c)
  PROVE  /\ Live = {at[i] : i \in 1 .. n}
         /\ \A i \in 1 .. n : entry[at[i]].next = IF i < n THEN at[i + 1] ELSE Null
         /\ Injective(at) /\ head = IF n = 0 THEN Null ELSE at[1]
<1>1. \A i \in 1 .. n : entry[at[i]] = [key |-> c[i], next |-> IF i < n THEN at[i + 1] ELSE Null]
  BY DEF InitialChain
<1>a. ASSUME NEW i \in 1 .. n
      PROVE  /\ entry[at[i]].key = c[i]
             /\ entry[at[i]].next = IF i < n THEN at[i + 1] ELSE Null
  <2> DEFINE rest == IF i < n THEN at[i + 1] ELSE Null
  <2>1. entry[at[i]] = [key |-> c[i], next |-> rest]
    BY <1>1
  <2> HIDE DEF rest
  <2>2. entry[at[i]].key = c[i] /\ entry[at[i]].next = rest
    BY <2>1
  <2> QED
    BY <2>2 DEF rest
<1>2. \A i \in 1 .. n : entry[at[i]].key = c[i] /\ c[i] # Null /\ at[i] \in Obj
  BY <1>a, ListMtfAssumption
<1>3. \A i \in 1 .. n : entry[at[i]].next = IF i < n THEN at[i + 1] ELSE Null
  BY <1>a
<1>4. Freed.key = Null
  BY DEF Freed
<1>5. \A o \in Obj : entry[o] # Freed <=> o \in {at[i] : i \in 1 .. n}
  <2>1. \A i \in 1 .. n : entry[at[i]] # Freed
    BY <1>2, <1>4
  <2>2. \A o \in Obj \ {at[i] : i \in 1 .. n} : entry[o] = Freed
    BY DEF InitialChain
  <2> QED
    BY <2>1, <2>2
<1>6. Live = {at[i] : i \in 1 .. n}
  BY <1>2, <1>5 DEF Live
<1> QED
  BY <1>3, <1>6 DEF InitialChain

LEMMA InitIndInv == Init => IndInv
<1> SUFFICES ASSUME Init
             PROVE  IndInv
  OBVIOUS
<1>1. PICK n \in Nat : \E at \in [1 .. n -> Obj], c \in [1 .. n -> Key] : InitialChain(n, at, c)
  BY InitialChainExists
<1>2. PICK at \in [1 .. n -> Obj], c \in [1 .. n -> Key] : InitialChain(n, at, c)
  BY <1>1
<1>3. Injective(at) /\ Live = {at[i] : i \in 1 .. n}
  BY <1>2, InitialChainProperties
<1>4. \A o \in Obj : entry[o] \in [key: Key, next: Pointer] \/ entry[o] = Freed
  <2>1. ASSUME NEW i \in 1 .. n
        PROVE  entry[at[i]] \in [key: Key, next: Pointer]
    <3>1. i < n => at[i + 1] \in Obj
      <4>1. i < n => i + 1 \in 1 .. n
        OBVIOUS
      <4> QED
        BY <4>1
    <3>2. entry[at[i]] = [key |-> c[i], next |-> IF i < n THEN at[i + 1] ELSE Null]
      BY <1>2 DEF InitialChain
    <3>3. CASE i < n
      BY <3>1, <3>2, <3>3 DEF Pointer
    <3>4. CASE ~(i < n)
      BY <3>2, <3>4 DEF Pointer
    <3> QED
      BY <3>3, <3>4
  <2> QED
    BY <1>2, <2>1 DEF InitialChain
<1>8. /\ entry \in [Obj -> [key: Key \cup {Null}, next: Pointer]]
      /\ \A o \in Obj : entry[o].key = Null => entry[o] = Freed
  <2>1. Freed \in [key: Key \cup {Null}, next: Pointer]
    BY DEF Freed, Pointer
  <2>2. entry = [o \in Obj |-> entry[o]]
    BY <1>2 DEF InitialChain
  <2>3. \A o \in Obj : entry[o] \in [key: Key \cup {Null}, next: Pointer]
    BY <1>4, <2>1
  <2> QED
    BY <1>4, <2>2, <2>3, ListMtfAssumption
<1>9. head \in Pointer
  BY <1>2 DEF InitialChain, Pointer
<1>11. IsFiniteSet(Live) /\ Cardinality(Live) = n
  BY <1>3, AddressesUsed
<1>12. bucket_size = n
  BY <1>2 DEF InitialChain
<1>13. TypeInv
  <2>1. bucket_size \in Int
    BY <1>12
  <2>2. /\ mutex \in Thread \cup {NoOwner} /\ stolen \in BOOLEAN
        /\ pc \in [Thread -> PC] /\ size \in [Thread -> Int]
        /\ p \in [Thread -> Pointer] /\ b_obj \in [Thread -> Pointer]
        /\ loaded \in [Thread -> Pointer]
    <3>1. /\ mutex = NoOwner /\ stolen = FALSE
          /\ pc = [u \in Thread |-> "idle"] /\ size = [u \in Thread |-> 0]
          /\ p = [u \in Thread |-> Null] /\ b_obj = [u \in Thread |-> Null]
          /\ loaded = [u \in Thread |-> Null]
      BY DEF Init
    <3>2. "idle" \in PC /\ Null \in Pointer /\ 0 \in Int
      BY DEF PC, Pointer
    <3> QED
      BY <3>1, <3>2
  <2>3. call \in [Thread -> [op: {"none", "lookup", "insert", "get", "remove"}, key: Key \cup {Null}]]
    <3>1. NoCall \in [op: {"none", "lookup", "insert", "get", "remove"}, key: Key \cup {Null}]
      BY DEF NoCall
    <3>2. call = [u \in Thread |-> NoCall]
      BY DEF Init
    <3> QED
      BY <3>1, <3>2
  <2> QED
    BY <1>8, <1>9, <2>1, <2>2, <2>3 DEF TypeInv
<1>14. CallInv /\ MutexInv
  BY DEF Init, CallInv, MutexInv, HasEntry
<1>15. CountInv
  BY <1>11, <1>12 DEF Init, CountInv, Uncounted
<1> QED
  BY <1>13, <1>14, <1>15 DEF IndInv

(***************************************************************************)
(* One step.                                                               *)
(***************************************************************************)

\* An entry is allocated as long as it has a key.
LEMMA LiveKeys == TypeInv => Live = {o \in Obj : entry[o].key # Null}
BY DEF TypeInv, Live, Freed

\* A store to the next of an allocated entry frees and allocates none.
LEMMA NextStored ==
  ASSUME TypeInv, NEW x, Accesses({x}), NEW v \in Pointer,
         entry' = [entry EXCEPT ![x].next = v]
  PROVE  /\ entry' \in [Obj -> [key: Key \cup {Null}, next: Pointer]]
         /\ \A o \in Obj : entry'[o].key = Null => entry'[o] = Freed
         /\ Live' = Live
<1>1. entry \in [Obj -> [key: Key \cup {Null}, next: Pointer]]
  BY DEF TypeInv
<1>2. CASE x = Null
  <2>1. x \notin DOMAIN entry
    BY <1>1, <1>2, ListMtfAssumption
  <2>2. entry' = entry
    BY <1>1, <2>1
  <2> QED
    BY <1>1, <2>2 DEF TypeInv, Live
<1>3. CASE x \in Live
  <2>1. x \in Obj /\ entry[x].key # Null
    BY <1>3, LiveKeys DEF Live
  <2>2. entry' \in [Obj -> [key: Key \cup {Null}, next: Pointer]]
    BY <1>1
  <2>3. \A o \in Obj : entry'[o].key = entry[o].key /\ (o # x => entry'[o] = entry[o])
    BY <1>1
  <2>4. \A o \in Obj : entry'[o].key = Null => entry'[o] = Freed
    BY <2>1, <2>3 DEF TypeInv
  <2>5. \A o \in Obj : entry'[o] # Freed <=> entry[o] # Freed
    BY <2>1, <2>3, <2>4 DEF Freed, TypeInv
  <2> QED
    BY <2>2, <2>4, <2>5 DEF Live
<1> QED
  BY <1>2, <1>3 DEF Accesses

\* Types, and what the place of a thread says about its call, are kept.
LEMMA TypeStep ==
  ASSUME TypeInv, CallInv, NEW t \in Thread, Begin(t) \/ Step(t)
  PROVE  TypeInv' /\ CallInv'
<1> USE ListMtfAssumption
<1>a. /\ \A u \in Thread : /\ pc[u] \in PC /\ b_obj[u] \in Pointer /\ p[u] \in Pointer
                           /\ loaded[u] \in Pointer
      /\ \A o \in Obj : entry[o].next \in Pointer
  BY DEF TypeInv
<1>b. b_obj[t] \in Live => entry[b_obj[t]].next \in Pointer
  BY <1>a DEF Live
<1>1. CASE Begin(t)
  <2>1. PICK op \in OpsOf[t], k \in Key :
          /\ call' = [call EXCEPT ![t] = [op |-> op, key |-> k]]
          /\ Goto(t, IF op = "get" THEN "head" ELSE "lock")
    BY <1>1 DEF Begin
  <2>2. op \in {"lookup", "get", "remove"}
    OBVIOUS
  <2>3. TypeInv'
    BY <1>1, <2>1, <2>2 DEF TypeInv, Begin, Goto, PC, chain, walk, ghosts
  <2>4. CallInv'
    BY <1>1, <2>1, <2>2 DEF TypeInv, CallInv, Begin, Goto, HasEntry, chain, walk, ghosts
  <2> QED
    BY <2>3, <2>4
<1>2. CASE Lock(t)
  BY <1>2 DEF TypeInv, CallInv, Lock, Goto, PC, HasEntry, chain, walk, ghosts
<1>3. CASE ReadHead(t)
  BY <1>3 DEF TypeInv, CallInv, ReadHead, Goto, PC, HasEntry, chain, walk, ghosts
<1>c. CASE Crash(t)
  BY <1>c DEF TypeInv, CallInv, Crash, Goto, PC, HasEntry, chain, walk, ghosts
<1>4. CASE Advance(t) /\ ~Crash(t)
  BY <1>4, <1>a, <1>b, ZenonT(60) DEF TypeInv, CallInv, Advance, Accesses, HasEntry, chain, walk, ghosts
<1>5. CASE Miss(t)
  BY <1>5 DEF TypeInv, CallInv, Miss, Goto, PC, HasEntry, chain, walk, ghosts
<1>6. CASE Hit(t)
  <2>1. b_obj[t] \in Obj /\ call[t].op \in {"lookup", "get", "remove"}
    BY <1>6 DEF Hit, Live, CallInv, TypeInv
  <2> QED
    BY <1>6, <2>1 DEF TypeInv, CallInv, Hit, Goto, PC, HasEntry, chain, walk, ghosts
<1>17. CASE LoadNext(t) /\ ~Crash(t)
  <2>1. /\ pc[t] = "hit" /\ Accesses({b_obj[t]}) /\ Goto(t, "unlink")
        /\ loaded' = [loaded EXCEPT ![t] = entry[b_obj[t]].next]
        /\ UNCHANGED <<chain, bucket_size, mutex, call, p, b_obj, size, reply, calls, ghosts>>
    BY <1>17 DEF LoadNext
  <2>2. b_obj[t] \in Obj /\ call[t].op \in {"get", "remove"}
    BY <2>1 DEF CallInv, HasEntry
  <2>3. entry[b_obj[t]].next \in Pointer
    BY <1>a, <2>2
  <2>4. TypeInv'
    BY <2>1, <2>3 DEF TypeInv, Goto, PC, chain, ghosts
  <2>5. CallInv'
    BY <2>1, <2>2 DEF TypeInv, CallInv, Goto, HasEntry, chain
  <2> QED
    BY <2>4, <2>5
<1>7. CASE Unlink(t) /\ ~Crash(t)
  <2> DEFINE o == b_obj[t]
  <2>1. /\ pc[t] = "unlink" /\ (p[t] = o \/ Accesses({p[t]}))
        /\ Goto(t, IF call[t].op = "get" THEN "relink" ELSE "free") /\ Stores(t)
        /\ UNCHANGED <<bucket_size, mutex, call, walk, size, reply, calls>>
        /\ IF p[t] = o THEN head' = loaded[t] /\ UNCHANGED entry
           ELSE entry' = [entry EXCEPT ![p[t]].next = loaded[t]] /\ UNCHANGED head
    BY <1>7 DEF Unlink
  <2>2. o \in Obj /\ call[t].op \in {"get", "remove"}
    BY <2>1 DEF CallInv, HasEntry
  <2>3. loaded[t] \in Pointer
    BY <1>a
  <2> HIDE DEF o
  <2>4. /\ entry' \in [Obj -> [key: Key \cup {Null}, next: Pointer]]
        /\ \A x \in Obj : entry'[x].key = Null => entry'[x] = Freed
    <3>1. CASE p[t] = o
      BY <2>1, <3>1 DEF TypeInv
    <3>2. CASE p[t] # o
      BY <2>1, <2>3, <3>2, NextStored
    <3> QED
      BY <3>1, <3>2
  <2>5. head' \in Pointer
    BY <2>1, <2>3 DEF TypeInv
  <2>6. TypeInv'
    BY <2>1, <2>2, <2>4, <2>5 DEF TypeInv, Goto, Stores, PC, walk
  <2>7. CallInv'
    <3>1. pc \in [Thread -> PC] /\ call' = call /\ b_obj' = b_obj /\ o = b_obj[t]
      BY <2>1 DEF o, TypeInv, walk
    <3> QED
      BY <2>1, <2>2, <3>1 DEF CallInv, Goto, HasEntry
  <2> QED
    BY <2>6, <2>7
<1>18. CASE LoadHead(t)
  BY <1>18 DEF TypeInv, CallInv, LoadHead, Goto, PC, HasEntry, chain, ghosts
<1>8. CASE Relink(t) /\ ~Crash(t)
  <2>1. /\ pc[t] = "link" /\ Accesses({b_obj[t]}) /\ Goto(t, "front") /\ Stores(t)
        /\ entry' = [entry EXCEPT ![b_obj[t]].next = loaded[t]]
        /\ UNCHANGED <<head, bucket_size, mutex, call, walk, size, reply, calls>>
    BY <1>8 DEF Relink
  <2>2. /\ entry' \in [Obj -> [key: Key \cup {Null}, next: Pointer]]
        /\ \A x \in Obj : entry'[x].key = Null => entry'[x] = Freed
    BY <1>a, <2>1, NextStored
  <2>3. TypeInv'
    BY <2>1, <2>2 DEF TypeInv, Goto, Stores, PC, walk
  <2>4. CallInv'
    BY <2>1 DEF TypeInv, CallInv, Goto, HasEntry, walk
  <2> QED
    BY <2>3, <2>4
<1>9. CASE Front(t)
  BY <1>9, <1>a DEF TypeInv, CallInv, Front, Goto, Stores, PC, HasEntry, chain, walk, ghosts
<1>10. CASE Free(t) /\ ~Crash(t)
  <2>1. /\ pc[t] = "free" /\ Goto(t, "count")
        /\ entry' = [entry EXCEPT ![b_obj[t]] = Freed]
        /\ UNCHANGED <<head, bucket_size, mutex, call, walk, size, reply, calls, ghosts>>
    BY <1>10 DEF Free
  <2>2. Freed \in [key: Key \cup {Null}, next: Pointer]
    BY DEF Freed, Pointer
  <2>3. TypeInv'
    BY <2>1, <2>2 DEF TypeInv, Goto, PC, walk, ghosts
  <2>4. CallInv'
    BY <2>1 DEF TypeInv, CallInv, Goto, HasEntry, walk
  <2> QED
    BY <2>3, <2>4
<1>11. CASE Allocate(t)
  <2> DEFINE o == CHOOSE o \in Obj : o \notin Live
  <2>1. /\ pc[t] = "head" /\ call[t].op = "insert" /\ Obj # Live /\ Goto(t, "publish")
        /\ entry' = [entry EXCEPT ![o] = [key |-> call[t].key, next |-> head]]
        /\ b_obj' = [b_obj EXCEPT ![t] = o]
        /\ UNCHANGED <<head, bucket_size, mutex, call, p, loaded, size, reply, calls, ghosts>>
    BY <1>11 DEF Allocate
  <2>2. o \in Obj
    BY <2>1 DEF Live
  <2>3. call[t].key \in Key /\ head \in Pointer
    BY <2>1 DEF CallInv, TypeInv
  <2> HIDE DEF o
  <2>4. TypeInv'
    BY <2>1, <2>2, <2>3 DEF TypeInv, Goto, PC, Pointer, ghosts
  <2>5. CallInv'
    BY <2>1, <2>2 DEF TypeInv, CallInv, Goto, HasEntry
  <2> QED
    BY <2>4, <2>5
<1>12. CASE AllocFails(t)
  BY <1>12 DEF TypeInv, CallInv, AllocFails, Goto, PC, HasEntry, chain, walk, ghosts
<1>13. CASE Publish(t)
  BY <1>13, <1>a DEF TypeInv, CallInv, Publish, Goto, Stores, PC, HasEntry, chain, walk, ghosts
<1>14. CASE Count(t)
  BY <1>14 DEF TypeInv, CallInv, Count, Goto, PC, HasEntry, chain, walk, ghosts
<1>15. CASE Recount(t)
  BY <1>15 DEF TypeInv, CallInv, Recount, Goto, PC, HasEntry, chain, walk, ghosts
<1>16. CASE Unlock(t)
  BY <1>16, ZenonT(60) DEF TypeInv, CallInv, Unlock, NoCall, Goto, Pointer, PC, HasEntry, chain, walk, ghosts
<1> QED
  BY <1>1, <1>2, <1>3, <1>c, <1>4, <1>5, <1>6, <1>7, <1>8, <1>9, <1>10, <1>11, <1>12, <1>13,
     <1>14, <1>15, <1>16, <1>17, <1>18 DEF Step

\* Nobody but a get works without the mutex, until one takes it away.
LEMMA MutexStep ==
  ASSUME TypeInv, CallInv, MutexInv, NEW t \in Thread, Begin(t) \/ Step(t)
  PROVE  MutexInv'
<1> USE ListMtfAssumption
<1> USE DEF TypeInv, CallInv, MutexInv, Goto, Stores, chain, walk, ghosts
<1>1. CASE Begin(t)
  BY <1>1 DEF Begin
<1>2. CASE Lock(t)
  BY <1>2 DEF Lock
<1>3. CASE ReadHead(t)
  BY <1>3 DEF ReadHead
<1>c. CASE Crash(t)
  BY <1>c DEF Crash
<1>4. CASE Advance(t) /\ ~Crash(t)
  BY <1>4 DEF Advance
<1>5. CASE Miss(t)
  BY <1>5 DEF Miss
<1>6. CASE Hit(t)
  BY <1>6 DEF Hit
<1>7. CASE Unlink(t) /\ ~Crash(t)
  BY <1>7 DEF Unlink
<1>17. CASE LoadNext(t) /\ ~Crash(t)
  BY <1>17 DEF LoadNext
<1>18. CASE LoadHead(t)
  BY <1>18 DEF LoadHead
<1>8. CASE Relink(t) /\ ~Crash(t)
  BY <1>8 DEF Relink
<1>9. CASE Front(t)
  BY <1>9 DEF Front
<1>10. CASE Free(t) /\ ~Crash(t)
  BY <1>10 DEF Free
<1>11. CASE Allocate(t)
  BY <1>11 DEF Allocate
<1>12. CASE AllocFails(t)
  BY <1>12 DEF AllocFails
<1>13. CASE Publish(t)
  BY <1>13 DEF Publish
<1>14. CASE Count(t)
  BY <1>14 DEF Count
<1>15. CASE Recount(t)
  BY <1>15 DEF Recount
<1>16. CASE Unlock(t)
  BY <1>16 DEF Unlock, NoCall
<1> QED
  BY <1>1, <1>2, <1>3, <1>c, <1>4, <1>5, <1>6, <1>7, <1>8, <1>9, <1>10, <1>11, <1>12, <1>13,
     <1>14, <1>15, <1>16, <1>17, <1>18 DEF Step

\* A thread with the mutex is the only one that counts.
LEMMA SoleCounter ==
  ASSUME IndInv, ~stolen, NEW t \in Thread, pc[t] \notin {"idle", "lock", "crashed"},
         call[t].op # "get", NEW u \in Thread, u # t
  PROVE  pc[u] \notin Uncounted
BY DEF IndInv, MutexInv, CallInv, Uncounted

\* A step that neither counts nor changes what is to be counted.
LEMMA CountKept ==
  ASSUME IndInv, NEW t \in Thread, Live' = Live, bucket_size' = bucket_size, stolen => stolen',
         pc[t] \notin Uncounted, pc'[t] \notin Uncounted,
         \A u \in Thread \ {t} : pc'[u] = pc[u] /\ call'[u] = call[u] /\ size'[u] = size[u]
  PROVE  CountInv'
<1>1. IsFiniteSet(Live)'
  BY DEF IndInv, CountInv
<1>2. ASSUME ~stolen'
      PROVE  /\ (\A u \in Thread : pc[u] \notin Uncounted)' => (bucket_size = Cardinality(Live))'
             /\ \A u \in Thread : pc'[u] \in Uncounted =>
                  bucket_size' = Cardinality(Live') - Owed(u)'
             /\ \A u \in Thread : pc'[u] = "recount" => size'[u] = bucket_size'
  <2>1. ~stolen
    BY <1>2
  <2>2. (\A u \in Thread : pc'[u] \notin Uncounted) => \A u \in Thread : pc[u] \notin Uncounted
    OBVIOUS
  <2>3. \A u \in Thread : pc'[u] \in Uncounted =>
          u # t /\ pc[u] \in Uncounted /\ Owed(u)' = Owed(u)
    BY DEF Owed
  <2>4. \A u \in Thread : pc'[u] = "recount" => u # t
    BY DEF Uncounted
  <2> QED
    BY <2>1, <2>2, <2>3, <2>4 DEF IndInv, CountInv
<1> QED
  BY <1>1, <1>2 DEF CountInv

\* The counter follows the entries.
LEMMA CountStep ==
  ASSUME IndInv, NEW t \in Thread, Begin(t) \/ Step(t)
  PROVE  CountInv'
<1> USE ListMtfAssumption
<1>0. pc \in [Thread -> PC] /\ call \in [Thread -> [op: {"none", "lookup", "insert", "get", "remove"}, key: Key \cup {Null}]]
      /\ size \in [Thread -> Int] /\ bucket_size \in Int /\ stolen \in BOOLEAN
  BY DEF IndInv, TypeInv
<1>a. CASE Begin(t) \/ Lock(t) \/ ReadHead(t) \/ (Advance(t) /\ ~Crash(t)) \/ Miss(t) \/ Hit(t)
          \/ (LoadNext(t) /\ ~Crash(t)) \/ LoadHead(t)
          \/ Front(t) \/ AllocFails(t) \/ Unlock(t) \/ (Crash(t) /\ pc[t] \notin Uncounted)
  <2>1. entry' = entry /\ bucket_size' = bucket_size /\ size' = size
    BY <1>a DEF Begin, Lock, ReadHead, Crash, Advance, Miss, Hit, LoadNext, LoadHead, Front, AllocFails, Unlock,
                Stores, chain, walk, ghosts
  <2>2. stolen' = stolen \/ stolen' = (stolen \/ mutex \notin {t, NoOwner})
    BY <1>a DEF Begin, Lock, ReadHead, Crash, Advance, Miss, Hit, LoadNext, LoadHead, Front, AllocFails, Unlock,
                Stores, chain, walk, ghosts
  <2>3. stolen => stolen'
    BY <2>2
  <2>4. pc[t] \notin Uncounted /\ pc'[t] \notin Uncounted
    BY <1>a, <1>0 DEF Begin, Lock, ReadHead, Crash, Advance, Miss, Hit, LoadNext, LoadHead, Front, AllocFails, Unlock,
                Goto, Uncounted
  <2>5. \A u \in Thread \ {t} : pc'[u] = pc[u] /\ call'[u] = call[u]
    BY <1>a, <1>0 DEF Begin, Lock, ReadHead, Crash, Advance, Miss, Hit, LoadNext, LoadHead, Front, AllocFails, Unlock,
                Goto, chain, walk, ghosts
  <2>6. Live' = Live
    BY <2>1 DEF Live
  <2> QED
    BY <2>1, <2>3, <2>4, <2>5, <2>6, CountKept
<1>b. CASE (Unlink(t) \/ Relink(t)) /\ ~Crash(t)
  <2>1. Live' = Live
    <3>1. loaded[t] \in Pointer
      BY DEF IndInv, TypeInv
    <3>2. ASSUME NEW x, Accesses({x}), NEW v \in Pointer, entry' = [entry EXCEPT ![x].next = v]
          PROVE  Live' = Live
      BY <3>2, NextStored DEF IndInv
    <3>3. CASE Relink(t)
      BY <1>b, <3>1, <3>2, <3>3 DEF Relink
    <3>4. CASE Unlink(t) /\ p[t] = b_obj[t]
      BY <1>b, <3>4 DEF Unlink, Live
    <3>5. CASE Unlink(t) /\ p[t] # b_obj[t]
      BY <1>b, <3>1, <3>2, <3>5 DEF Unlink
    <3> QED
      BY <1>b, <3>3, <3>4, <3>5
  <2>2. /\ bucket_size' = bucket_size /\ size' = size /\ call' = call /\ stolen' = stolen
        /\ pc[t] \in {"unlink", "link"} /\ \E l \in {"relink", "free", "front"} : Goto(t, l)
    BY <1>b DEF Unlink, Relink, Stores, walk
  <2>3. pc[t] \notin Uncounted /\ pc'[t] \notin Uncounted /\ \A u \in Thread \ {t} : pc'[u] = pc[u]
    BY <1>0, <2>2 DEF Goto, Uncounted
  <2> QED
    BY <2>1, <2>2, <2>3, CountKept
<1>c. CASE Free(t) /\ ~Crash(t)
  <2>1. /\ pc[t] = "free" /\ Accesses({b_obj[t]}) /\ Goto(t, "count")
        /\ entry' = [entry EXCEPT ![b_obj[t]] = Freed]
        /\ bucket_size' = bucket_size /\ size' = size /\ call' = call /\ stolen' = stolen
    BY <1>c DEF Free, ghosts
  <2>2. b_obj[t] \in Live /\ call[t].op = "remove"
    BY <2>1 DEF IndInv, CallInv, HasEntry, Accesses
  <2>3. Live' = Live \ {b_obj[t]}
    <3>1. entry \in [Obj -> [key: Key \cup {Null}, next: Pointer]]
      BY DEF IndInv, TypeInv
    <3> QED
      BY <2>1, <2>2, <3>1 DEF Live
  <2>4. IsFiniteSet(Live') /\ Cardinality(Live') = Cardinality(Live) - 1 /\ Cardinality(Live) \in Nat
    BY <2>2, <2>3, FS_RemoveElement, FS_CardinalityType DEF IndInv, CountInv
  <2>5. ASSUME ~stolen PROVE \A u \in Thread : pc[u] \notin Uncounted
    BY <2>1, <2>2, <2>5, SoleCounter DEF Uncounted
  <2>6. ~stolen => bucket_size = Cardinality(Live)
    BY <2>5 DEF IndInv, CountInv
  <2>7. pc'[t] = "count" /\ \A u \in Thread \ {t} : pc'[u] = pc[u]
    BY <1>0, <2>1 DEF Goto
  <2>8. pc'[t] \in Uncounted /\ Owed(t)' = -1 /\ pc'[t] # "recount"
    BY <2>1, <2>2, <2>7 DEF Uncounted, Owed
  <2>9. ~stolen => \A u \in Thread : pc'[u] \in Uncounted => u = t
    BY <2>5, <2>7
  <2>10. "recount" \in Uncounted
    BY DEF Uncounted
  <2> QED
    BY <2>1, <2>4, <2>6, <2>8, <2>9, <2>10 DEF CountInv
<1>d. CASE Allocate(t)
  <2> DEFINE o == CHOOSE o \in Obj : o \notin Live
  <2>1. /\ pc[t] = "head" /\ call[t].op = "insert" /\ Obj # Live /\ Goto(t, "publish")
        /\ entry' = [entry EXCEPT ![o] = [key |-> call[t].key, next |-> head]]
        /\ bucket_size' = bucket_size /\ size' = size /\ call' = call /\ stolen' = stolen
    BY <1>d DEF Allocate, ghosts
  <2>2. o \in Obj /\ o \notin Live
    BY <2>1 DEF Live
  <2>3. call[t].key # Null
    BY <2>1 DEF IndInv, CallInv
  <2> HIDE DEF o
  <2>4. Live' = Live \cup {o}
    BY <2>1, <2>2, <2>3 DEF IndInv, TypeInv, Live, Freed
  <2>5. IsFiniteSet(Live') /\ Cardinality(Live') = Cardinality(Live) + 1 /\ Cardinality(Live) \in Nat
    BY <2>2, <2>4, FS_AddElement, FS_CardinalityType DEF IndInv, CountInv
  <2>6. ASSUME ~stolen PROVE \A u \in Thread : pc[u] \notin Uncounted
    BY <2>1, <2>6, SoleCounter DEF Uncounted
  <2>7. ~stolen => bucket_size = Cardinality(Live)
    BY <2>6 DEF IndInv, CountInv
  <2>8. pc'[t] = "publish" /\ \A u \in Thread \ {t} : pc'[u] = pc[u]
    BY <1>0, <2>1 DEF Goto
  <2>9. pc'[t] \in Uncounted /\ Owed(t)' = 1 /\ pc'[t] # "recount"
    BY <2>1, <2>8 DEF Uncounted, Owed
  <2>10. ~stolen => \A u \in Thread : pc'[u] \in Uncounted => u = t
    BY <2>6, <2>8
  <2>11. "recount" \in Uncounted
    BY DEF Uncounted
  <2> QED
    BY <2>1, <2>5, <2>7, <2>9, <2>10, <2>11 DEF CountInv
<1>e. CASE Publish(t) \/ Count(t)
  <2>1. /\ entry' = entry /\ bucket_size' = bucket_size /\ call' = call /\ stolen' = stolen
        /\ pc[t] \in {"publish", "count"}
        /\ \/ Goto(t, "count") /\ size' = size
           \/ Goto(t, "recount") /\ size' = [size EXCEPT ![t] = bucket_size]
    BY <1>e DEF Publish, Count, Stores, chain, walk, ghosts
  <2>2. Live' = Live /\ \A u \in Thread : Owed(u)' = Owed(u)
    BY <2>1 DEF Live, Owed
  <2>3. pc[t] \in Uncounted /\ pc'[t] \in Uncounted /\ \A u \in Thread \ {t} : pc'[u] = pc[u]
    BY <1>0, <2>1 DEF Goto, Uncounted
  <2>4. \A u \in Thread : pc'[u] = "recount" =>
          (pc[u] = "recount" /\ size'[u] = size[u]) \/ size'[u] = bucket_size
    BY <1>0, <2>1 DEF Goto
  <2> QED
    BY <2>1, <2>2, <2>3, <2>4 DEF IndInv, CountInv
<1>f. CASE Recount(t)
  <2>1. /\ pc[t] = "recount" /\ bucket_size' = size[t] + Owed(t) /\ Goto(t, "unlock")
        /\ size' = [size EXCEPT ![t] = 0] /\ entry' = entry /\ call' = call /\ stolen' = stolen
    BY <1>f DEF Recount, Owed, chain, walk, ghosts
  <2>2. Live' = Live /\ Cardinality(Live) \in Nat
    BY <2>1, FS_CardinalityType DEF Live, IndInv, CountInv
  <2>3. pc[t] \in Uncounted /\ call[t].op # "get" /\ Owed(t) \in Int
    BY <2>1 DEF Uncounted, Owed, IndInv, CallInv
  <2>4. ~stolen => bucket_size' = Cardinality(Live')
    BY <2>1, <2>2, <2>3 DEF IndInv, CountInv
  <2>5. ASSUME ~stolen PROVE \A u \in Thread \ {t} : pc[u] \notin Uncounted
    BY <2>1, <2>3, <2>5, SoleCounter
  <2>6. pc'[t] = "unlock" /\ \A u \in Thread \ {t} : pc'[u] = pc[u]
    BY <1>0, <2>1 DEF Goto
  <2>7. ~stolen => \A u \in Thread : pc'[u] \notin Uncounted
    BY <2>5, <2>6 DEF Uncounted
  <2>8. "recount" \in Uncounted
    BY DEF Uncounted
  <2> QED
    BY <2>1, <2>2, <2>4, <2>7, <2>8 DEF IndInv, CountInv
<1>g. Crash(t) /\ Step(t) => pc[t] \notin Uncounted
  BY <1>0 DEF Step, Crash, Goto, Uncounted, Lock, ReadHead, Advance, Miss, Hit, LoadNext, Unlink,
              LoadHead, Relink, Front, Free, Allocate, AllocFails, Publish, Count, Recount, Unlock
<1>h. CASE Begin(t) \/ Crash(t)
  BY <1>a, <1>g, <1>h
<1> QED
  BY <1>a, <1>b, <1>c, <1>d, <1>e, <1>f, <1>g, <1>h DEF Step

-----------------------------------------------------------------------------
LEMMA Invariance == Spec => []IndInv
<1>1. IndInv /\ [Next]_vars => IndInv'
  <2> SUFFICES ASSUME IndInv, [Next]_vars
               PROVE  IndInv'
    OBVIOUS
  <2>1. CASE UNCHANGED vars
    BY <2>1 DEF vars, IndInv, TypeInv, CallInv, MutexInv, CountInv, Live, Owed
  <2>2. ASSUME NEW t \in Thread, Begin(t) \/ Step(t)
        PROVE  IndInv'
    BY <2>2, TypeStep, MutexStep, CountStep DEF IndInv
  <2> QED
    BY <2>1, <2>2 DEF Next, Finished
<1> QED
  BY InitIndInv, <1>1, PTL DEF Spec

\* Whatever the gets do to the chain while they hold no lock, bucket_size and the
\* entries agree when no call is between the two, unless the unlock of a get has let
\* a second thread into the critical section (hi_list.c:193-194, 252, 350-351).
THEOREM CounterAlwaysExact == Spec => []CounterExact
<1>1. IndInv => CounterExact
  BY DEF IndInv, CountInv, CounterExact, Uncounted
<1> QED
  BY Invariance, <1>1, PTL

(***************************************************************************)
(* The chain.                                                              *)
(***************************************************************************)
Positions == INSTANCE SequenceLemmas

\* The chain is the n entries of s, each once, and ends behind the last.
IsChain(n, s) ==
    /\ s \in [1 .. n -> Obj] /\ Injective(s)
    /\ head = IF n = 0 THEN Null ELSE s[1]
    /\ \A i \in 1 .. n : entry[s[i]].next = IF i < n THEN s[i + 1] ELSE Null

\* The entries that calls have in hand; allocated, and each in one hand only.
Hands == {b_obj[t] : t \in {u \in Thread : InHand(u)}}

HandInv ==
    \A t \in Thread : InHand(t) =>
        /\ b_obj[t] \in Live
        /\ \A u \in Thread \ {t} : InHand(u) => b_obj[u] # b_obj[t]

\* The walk of t has come to the k-th entry, p to the one before, and none has been its key.
Reached(n, s, t, k) ==
    /\ b_obj[t] = IF k <= n THEN s[k] ELSE Null
    /\ p[t] = IF k = 1 THEN b_obj[t] ELSE s[k - 1]
    /\ \A i \in 1 .. k - 1 : entry[s[i]].key # call[t].key

\* Where a thread is that nobody has overtaken; what it has loaded is still so, and the
\* entry it is about to put in front is linked to the chain.
Place(n, s, t) ==
    /\ pc[t] # "crashed"
    /\ pc[t] = "walk" => \E k \in 1 .. n + 1 : Reached(n, s, t, k)
    /\ pc[t] \in {"hit", "unlink"} => \E k \in 1 .. n : Reached(n, s, t, k)
    /\ pc[t] = "unlink" => loaded[t] = entry[b_obj[t]].next
    /\ pc[t] = "link" => loaded[t] = head
    /\ pc[t] \in {"front", "publish"} => entry[b_obj[t]].next = head

\* The chain holds what is allocated and in no hand, and all that were not overtaken
\* know their place in it.
Follows(n, s) ==
    /\ IsChain(n, s)
    /\ {s[i] : i \in 1 .. n} = Live \ Hands
    /\ \A t \in Thread : ~overtaken[t] => Place(n, s, t)

\* Until an overtaken thread stores, there is such a chain.  That it is one is no invariant
\* without the places of the walks: an Unlink removes an entry only if p is still its
\* predecessor.
Intact == HandInv /\ \E n \in Nat : \E s \in [1 .. n -> Obj] : Follows(n, s)

ChainInv ==
    /\ overtaken \in [Thread -> BOOLEAN] /\ raced \in BOOLEAN
    /\ ~raced => Intact

\* A thread that has not been overtaken does not come to freed memory.
LEMMA CrashOvertaken ==
  ASSUME IndInv, Intact, NEW t \in Thread, Step(t), Crash(t)
  PROVE  overtaken[t] /\ pc[t] \in {"walk", "hit", "unlink"}
<1> USE ListMtfAssumption
<1>1. pc \in [Thread -> PC]
  BY DEF IndInv, TypeInv
<1>2. pc'[t] = "crashed" /\ pc[t] # "crashed"
  BY <1>1 DEF Crash, Goto, Step, Running
<1>3. Advance(t) \/ LoadNext(t) \/ Unlink(t) \/ Relink(t) \/ Free(t)
  <2>1. /\ ~Goto(t, "head") /\ ~Goto(t, "walk") /\ ~Goto(t, "unlock") /\ ~Goto(t, "publish")
        /\ ~Goto(t, "count") /\ ~Goto(t, "recount") /\ ~Goto(t, "link")
    BY <1>1, <1>2 DEF Goto
  <2>2. ~Lock(t) /\ ~ReadHead(t) /\ ~Miss(t) /\ ~AllocFails(t) /\ ~Allocate(t) /\ ~LoadHead(t)
    BY <2>1 DEF Lock, ReadHead, Miss, AllocFails, Allocate, LoadHead
  <2>3. ~Publish(t) /\ ~Count(t) /\ ~Recount(t) /\ ~Front(t)
    BY <2>1 DEF Publish, Count, Recount, Front
  <2>4. ~Hit(t) /\ ~Unlock(t)
    BY <1>1, <1>2 DEF Hit, Unlock, Goto
  <2> QED
    BY <2>2, <2>3, <2>4 DEF Step
<1>4. InHand(t) => b_obj[t] \in Live
  BY DEF Intact, HandInv
<1>5. /\ pc[t] \in {"walk", "hit", "unlink"}
      /\ ~(p[t] \in Live \cup {Null} /\ b_obj[t] \in Live \cup {Null})
  <2>1. CASE Advance(t)
    BY <1>1, <1>2, <2>1 DEF Advance, Accesses
  <2>2. CASE LoadNext(t)
    BY <1>1, <1>2, <2>2 DEF LoadNext, Goto, Accesses
  <2>3. CASE Unlink(t)
    BY <1>1, <1>2, <2>3 DEF Unlink, Goto, Accesses
  <2>4. CASE Relink(t)
    BY <1>1, <1>2, <1>4, <2>4 DEF Relink, Goto, Accesses, InHand
  <2>5. CASE Free(t)
    BY <1>1, <1>2, <1>4, <2>5 DEF Free, Goto, Accesses, InHand
  <2> QED
    BY <1>3, <2>1, <2>2, <2>3, <2>4, <2>5
<1>6. PICK n \in Nat : \E s \in [1 .. n -> Obj] : Follows(n, s)
  BY DEF Intact
<1>7. PICK s \in [1 .. n -> Obj] : Follows(n, s)
  BY <1>6
<1>8. ASSUME NEW k \in 1 .. n + 1, Reached(n, s, t, k)
      PROVE  FALSE
  <2>1. \A i \in 1 .. n : s[i] \in Live
    BY <1>7 DEF Follows
  <2>2. b_obj[t] \in Live \cup {Null}
    BY <1>8, <2>1 DEF Reached
  <2>3. p[t] \in Live \cup {Null}
    BY <1>8, <2>1, <2>2 DEF Reached
  <2> QED
    BY <1>5, <2>2, <2>3
<1>9. ~overtaken[t] => \E k \in 1 .. n + 1 : Reached(n, s, t, k)
  BY <1>5, <1>7 DEF Follows, Place
<1> QED
  BY <1>5, <1>8, <1>9

\* A step that leaves the chain and the entries in hand alone.
LEMMA Undisturbing ==
  ASSUME HandInv, NEW t \in Thread, pc \in [Thread -> PC],
         head' = head, entry' = entry, InHand(t)' <=> InHand(t), InHand(t) => b_obj'[t] = b_obj[t],
         \A u \in Thread \ {t} : pc'[u] = pc[u] /\ b_obj'[u] = b_obj[u]
  PROVE  /\ HandInv' /\ Hands' = Hands /\ Live' = Live
         /\ \A n, s : IsChain(n, s)' <=> IsChain(n, s)
<1>1. Live' = Live
  BY DEF Live
<1>2. \A u \in Thread : (InHand(u)' <=> InHand(u)) /\ (InHand(u) => b_obj'[u] = b_obj[u])
  BY DEF InHand
<1>3. HandInv'
  BY <1>1, <1>2 DEF HandInv
<1>4. Hands' = Hands
  BY <1>2 DEF Hands
<1>5. \A n, s : IsChain(n, s)' <=> IsChain(n, s)
  BY DEF IsChain
<1> QED
  BY <1>1, <1>3, <1>4, <1>5

\* The place of a thread that does nothing is kept by a step that leaves the chain alone.
LEMMA PlaceKept ==
  ASSUME NEW n, NEW s, NEW u \in Thread, head' = head, entry' = entry,
         pc'[u] = pc[u], call'[u] = call[u], p'[u] = p[u], b_obj'[u] = b_obj[u],
         loaded'[u] = loaded[u], Place(n, s, u)
  PROVE  Place(n, s, u)'
BY DEF Place, Reached

\* A step that neither stores to memory nor takes an entry in hand or puts it down: Begin,
\* Lock, ReadHead, Advance, Miss, Hit, LoadNext, LoadHead, AllocFails, Count, Recount, Unlock
\* and the end of the process.
LEMMA QuietStep ==
  ASSUME IndInv, ChainInv, Intact, NEW t \in Thread,
         \/ Begin(t) \/ Lock(t) \/ ReadHead(t) \/ (Advance(t) /\ ~Crash(t)) \/ Miss(t) \/ Hit(t)
         \/ (LoadNext(t) /\ ~Crash(t)) \/ LoadHead(t)
         \/ AllocFails(t) \/ Count(t) \/ Recount(t) \/ Unlock(t) \/ (Step(t) /\ Crash(t))
  PROVE  Intact'
<1> USE ListMtfAssumption
<1>0. /\ pc \in [Thread -> PC] /\ b_obj \in [Thread -> Pointer] /\ p \in [Thread -> Pointer]
      /\ loaded \in [Thread -> Pointer]
      /\ call \in [Thread -> [op: {"none", "lookup", "insert", "get", "remove"}, key: Key \cup {Null}]]
      /\ overtaken \in [Thread -> BOOLEAN]
  BY DEF IndInv, TypeInv, ChainInv
<1>1. /\ head' = head /\ entry' = entry
      /\ \A u \in Thread \ {t} : /\ pc'[u] = pc[u] /\ b_obj'[u] = b_obj[u]
                                 /\ call'[u] = call[u] /\ p'[u] = p[u] /\ overtaken'[u] = overtaken[u]
                                 /\ loaded'[u] = loaded[u]
  BY <1>0 DEF Begin, Lock, ReadHead, Crash, Advance, Miss, Hit, LoadNext, LoadHead, AllocFails, Count, Recount, Unlock,
              Goto, chain, walk, ghosts
<1>2. (InHand(t)' <=> InHand(t)) /\ (InHand(t) => b_obj'[t] = b_obj[t])
  <2>1. CASE Step(t) /\ Crash(t)
    BY <1>0, <2>1, CrashOvertaken DEF Crash, Goto, InHand
  <2>2. CASE Begin(t) \/ Lock(t) \/ ReadHead(t) \/ Miss(t) \/ AllocFails(t) \/ Count(t) \/ Recount(t)
    BY <1>0, <2>2 DEF Begin, Lock, ReadHead, Miss, AllocFails, Count, Recount, Goto, InHand
  <2>3. CASE Hit(t) \/ Unlock(t)
    BY <1>0, <2>3 DEF Hit, Unlock, Goto, InHand
  <2>4. CASE Advance(t) /\ ~Crash(t)
    BY <1>0, <2>4 DEF Advance, InHand
  <2>5. CASE (LoadNext(t) /\ ~Crash(t)) \/ LoadHead(t)
    BY <1>0, <2>5 DEF LoadNext, LoadHead, Goto, InHand
  <2> QED
    BY <2>1, <2>2, <2>3, <2>4, <2>5
<1>3. /\ HandInv' /\ Hands' = Hands /\ Live' = Live
      /\ \A n, s : IsChain(n, s)' <=> IsChain(n, s)
  BY <1>0, <1>1, <1>2, Undisturbing DEF Intact
<1>6. PICK n \in Nat : \E s \in [1 .. n -> Obj] : Follows(n, s)
  BY DEF Intact
<1>7. PICK s \in [1 .. n -> Obj] : Follows(n, s)
  BY <1>6
<1>8. ~overtaken'[t] => Place(n, s, t)'
  <2>1. CASE ReadHead(t)
    <3>1. b_obj'[t] = head /\ p'[t] = head /\ pc'[t] = "walk"
      BY <1>0, <2>1 DEF ReadHead, Goto
    <3>2. head = IF n = 0 THEN Null ELSE s[1]
      BY <1>7 DEF Follows, IsChain
    <3>3. Reached(n, s, t, 1)'
      BY <3>1, <3>2 DEF Reached
    <3> QED
      BY <3>1, <3>3 DEF Place
  <2>2. CASE Advance(t) /\ ~Crash(t)
    <3> SUFFICES ASSUME ~overtaken[t]
                 PROVE  Place(n, s, t)'
      BY <2>2 DEF Advance, ghosts
    <3>1. /\ pc[t] = "walk" /\ b_obj[t] # Null /\ entry[b_obj[t]].key # call[t].key
          /\ p'[t] = b_obj[t] /\ b_obj'[t] = entry[b_obj[t]].next /\ pc' = pc /\ call' = call
      BY <1>0, <2>2 DEF Advance
    <3>2. PICK k \in 1 .. n + 1 : Reached(n, s, t, k)
      BY <1>7, <3>1 DEF Follows, Place
    <3>3. k <= n /\ b_obj[t] = s[k]
      BY <3>1, <3>2 DEF Reached
    <3>4. entry[s[k]].next = IF k < n THEN s[k + 1] ELSE Null
      BY <1>7, <3>3 DEF Follows, IsChain
    <3>5. Reached(n, s, t, k + 1)'
      <4>1. b_obj'[t] = IF k + 1 <= n THEN s[k + 1] ELSE Null
        BY <3>1, <3>3, <3>4
      <4>2. p'[t] = s[(k + 1) - 1] /\ k + 1 # 1
        BY <3>1, <3>3
      <4>3. \A i \in 1 .. (k + 1) - 1 : entry'[s[i]].key # call'[t].key
        <5>1. \A i \in 1 .. (k + 1) - 1 : i = k \/ i \in 1 .. k - 1
          OBVIOUS
        <5> QED
          BY <1>1, <3>1, <3>2, <3>3, <5>1 DEF Reached
      <4> QED
        BY <4>1, <4>2, <4>3 DEF Reached
    <3>6. k + 1 \in 1 .. n + 1
      BY <3>3
    <3> QED
      BY <3>1, <3>5, <3>6 DEF Place
  <2>3. CASE Hit(t)
    <3> SUFFICES ASSUME ~overtaken[t], pc'[t] = "hit"
                 PROVE  Place(n, s, t)'
      BY <1>0, <2>3 DEF Hit, ghosts, Goto, Place
    <3>1. pc[t] = "walk" /\ b_obj[t] \in Live /\ UNCHANGED <<call, p, b_obj>>
      BY <2>3 DEF Hit, walk
    <3>2. PICK k \in 1 .. n + 1 : Reached(n, s, t, k)
      BY <1>7, <3>1 DEF Follows, Place
    <3>3. k \in 1 .. n
      BY <3>1, <3>2 DEF Reached, Live
    <3>4. Reached(n, s, t, k)'
      BY <1>1, <3>1, <3>2 DEF Reached
    <3> QED
      BY <3>3, <3>4 DEF Place
  <2>6. CASE LoadNext(t) /\ ~Crash(t)
    <3> SUFFICES ASSUME ~overtaken[t]
                 PROVE  Place(n, s, t)'
      BY <2>6 DEF LoadNext, ghosts
    <3>1. /\ pc[t] = "hit" /\ pc'[t] = "unlink" /\ loaded'[t] = entry[b_obj[t]].next
          /\ UNCHANGED <<call, p, b_obj>>
      BY <1>0, <2>6 DEF LoadNext, Goto
    <3>2. PICK k \in 1 .. n : Reached(n, s, t, k)
      BY <1>7, <3>1 DEF Follows, Place
    <3>3. Reached(n, s, t, k)'
      BY <1>1, <3>1, <3>2 DEF Reached
    <3> QED
      BY <1>1, <3>1, <3>3 DEF Place
  <2>7. CASE LoadHead(t)
    <3>1. pc'[t] = "link" /\ loaded'[t] = head
      BY <1>0, <2>7 DEF LoadHead, Goto
    <3> QED
      BY <1>1, <3>1 DEF Place
  <2>4. CASE Step(t) /\ Crash(t)
    BY <2>4, CrashOvertaken DEF Crash, ghosts
  <2>5. CASE Begin(t) \/ Lock(t) \/ Miss(t) \/ AllocFails(t) \/ Count(t) \/ Recount(t) \/ Unlock(t)
    <3>1. pc'[t] \in {"head", "lock", "unlock", "idle", "count", "recount"}
      BY <1>0, <2>5 DEF Begin, Lock, Miss, AllocFails, Count, Recount, Unlock, Goto
    <3> QED
      BY <3>1 DEF Place
  <2> QED
    BY <2>1, <2>2, <2>3, <2>4, <2>5, <2>6, <2>7
<1>9. Follows(n, s)'
  <2>1. \A u \in Thread \ {t} : ~overtaken'[u] => Place(n, s, u)'
    BY <1>1, <1>7, PlaceKept DEF Follows
  <2> QED
    BY <1>3, <1>7, <1>8, <2>1 DEF Follows
<1> QED
  BY <1>3, <1>9 DEF Intact

\* After a store of t nobody else is walking whom it has not overtaken; a store of an
\* overtaken thread would have raced.
LEMMA StoreAlone ==
  ASSUME ChainInv, NEW t \in Thread, Stores(t), ~raced'
  PROVE  /\ ~overtaken[t] /\ ~overtaken'[t]
         /\ \A u \in Thread \ {t} : ~overtaken'[u] => ~Walking(u) /\ ~overtaken[u]
<1>1. ~overtaken[t] /\ raced \in BOOLEAN /\ overtaken \in [Thread -> BOOLEAN]
  BY DEF Stores, ChainInv
<1>2. \A u \in Thread : overtaken'[u] <=> overtaken[u] \/ (u # t /\ Walking(u))
  BY DEF Stores
<1> QED
  BY <1>1, <1>2

\* Then a chain is followed by all if it is by t.
LEMMA FollowedAgain ==
  ASSUME ChainInv, NEW t \in Thread, Stores(t), ~raced',
         \A u \in Thread \ {t} : pc'[u] = pc[u] /\ b_obj'[u] = b_obj[u],
         HandInv', NEW n \in Nat, NEW s \in [1 .. n -> Obj], IsChain(n, s)',
         {s[i] : i \in 1 .. n} = (Live \ Hands)',
         pc'[t] \in {"relink", "free", "front", "unlock", "count"},
         pc'[t] = "front" => entry'[b_obj'[t]].next = head',
         \A u \in Thread \ {t} : ~overtaken[u] => pc[u] # "crashed"
  PROVE  Intact'
<1>1. \A u \in Thread \ {t} : ~overtaken'[u] => Place(n, s, u)'
  BY StoreAlone DEF Walking, Place
<1>2. Place(n, s, t)'
  BY DEF Place
<1>3. Follows(n, s)'
  BY <1>1, <1>2 DEF Follows
<1> QED
  BY <1>3 DEF Intact

\* Nobody that was not overtaken has crashed.
LEMMA NotCrashed ==
  ASSUME Intact, NEW u \in Thread, ~overtaken[u]
  PROVE  pc[u] # "crashed"
BY DEF Intact, Follows, Place

\* A chain without its k-th entry, and one with another entry in front.
Without(n, s, k) == [i \in 1 .. n - 1 |-> IF i < k THEN s[i] ELSE s[i + 1]]
InFront(n, s, o) == [i \in 1 .. n + 1 |-> IF i = 1 THEN o ELSE s[i - 1]]

LEMMA WithoutProperties ==
  ASSUME NEW n \in Nat, NEW s \in [1 .. n -> Obj], Injective(s), NEW k \in 1 .. n
  PROVE  LET z == Without(n, s, k) IN
         /\ n - 1 \in Nat /\ z \in [1 .. n - 1 -> Obj] /\ Injective(z)
         /\ {z[i] : i \in 1 .. n - 1} = {s[i] : i \in 1 .. n} \ {s[k]}
<1> DEFINE z == Without(n, s, k)
<1>1. n - 1 \in Nat
  OBVIOUS
<1>2. \A i \in 1 .. n - 1 : z[i] = IF i < k THEN s[i] ELSE s[i + 1]
  BY DEF Without
<1>3. z \in [1 .. n - 1 -> Obj]
  <2>1. \A i \in 1 .. n - 1 : i \in 1 .. n /\ i + 1 \in 1 .. n
    OBVIOUS
  <2> QED
    BY <2>1 DEF Without
<1>4. Injective(z)
  <2>1. \A i, j \in 1 .. n : s[i] = s[j] => i = j
    BY DEF Injective
  <2>2. ASSUME NEW i \in 1 .. n - 1, NEW j \in 1 .. n - 1, z[i] = z[j]
        PROVE  i = j
    <3>1. i \in 1 .. n /\ i + 1 \in 1 .. n /\ j \in 1 .. n /\ j + 1 \in 1 .. n
      OBVIOUS
    <3> QED
      BY <1>2, <2>1, <2>2, <3>1
  <2>3. DOMAIN z = 1 .. n - 1
    BY <1>3
  <2> QED
    BY <2>2, <2>3 DEF Injective
<1>5. ASSUME NEW i \in 1 .. n - 1
      PROVE  \E j \in 1 .. n : j # k /\ z[i] = s[j]
  <2>1. i \in 1 .. n /\ i + 1 \in 1 .. n
    OBVIOUS
  <2> QED
    BY <1>2, <2>1
<1>6. ASSUME NEW j \in 1 .. n, j # k
      PROVE  \E i \in 1 .. n - 1 : z[i] = s[j]
  <2>1. CASE j < k
    <3>1. j \in 1 .. n - 1
      BY <2>1
    <3> QED
      BY <1>2, <2>1, <3>1
  <2>2. CASE j > k
    <3>1. j - 1 \in 1 .. n - 1 /\ ~(j - 1 < k) /\ (j - 1) + 1 = j
      BY <2>2
    <3> QED
      BY <1>2, <3>1
  <2> QED
    BY <1>6, <2>1, <2>2
<1>7. \A j \in 1 .. n : s[j] = s[k] => j = k
  BY DEF Injective
<1> HIDE DEF z
<1>8. {z[i] : i \in 1 .. n - 1} = {s[i] : i \in 1 .. n} \ {s[k]}
  <2>1. \A x : x \in {z[i] : i \in 1 .. n - 1} => x \in {s[i] : i \in 1 .. n} \ {s[k]}
    BY <1>5, <1>7
  <2>2. \A x : x \in {s[i] : i \in 1 .. n} \ {s[k]} => x \in {z[i] : i \in 1 .. n - 1}
    BY <1>6
  <2> QED
    BY <2>1, <2>2
<1> QED
  BY <1>1, <1>3, <1>4, <1>8 DEF z

LEMMA InFrontProperties ==
  ASSUME NEW n \in Nat, NEW s \in [1 .. n -> Obj], Injective(s), NEW o \in Obj,
         o \notin {s[i] : i \in 1 .. n}
  PROVE  LET z == InFront(n, s, o) IN
         /\ n + 1 \in Nat /\ z \in [1 .. n + 1 -> Obj] /\ Injective(z)
         /\ {z[i] : i \in 1 .. n + 1} = {s[i] : i \in 1 .. n} \cup {o}
<1> DEFINE z == InFront(n, s, o)
<1>0. n + 1 \in Nat
  OBVIOUS
<1>1. \A i \in 1 .. n + 1 : z[i] = IF i = 1 THEN o ELSE s[i - 1]
  BY DEF InFront
<1>2. \A i \in 1 .. n + 1 : i = 1 \/ i - 1 \in 1 .. n
  OBVIOUS
<1>3. z \in [1 .. n + 1 -> Obj]
  BY <1>2 DEF InFront
<1>4. Injective(z)
  <2>1. \A i, j \in 1 .. n : s[i] = s[j] => i = j
    BY DEF Injective
  <2>2. \A i, j \in 1 .. n + 1 : z[i] = z[j] => i = j
    BY <1>1, <1>2, <2>1
  <2>3. DOMAIN z = 1 .. n + 1
    BY <1>3
  <2> QED
    BY <2>2, <2>3 DEF Injective
<1>5. \A i \in 1 .. n + 1 : z[i] = o \/ \E j \in 1 .. n : z[i] = s[j]
  BY <1>1, <1>2
<1>6. \A j \in 1 .. n : j + 1 \in 1 .. n + 1 /\ z[j + 1] = s[j]
  <2>1. \A j \in 1 .. n : j + 1 \in 1 .. n + 1 /\ j + 1 # 1 /\ (j + 1) - 1 = j
    OBVIOUS
  <2> QED
    BY <1>1, <2>1
<1>7. 1 \in 1 .. n + 1 /\ z[1] = o
  BY <1>1
<1> HIDE DEF z
<1>8. {z[i] : i \in 1 .. n + 1} = {s[i] : i \in 1 .. n} \cup {o}
  <2>1. \A x : x \in {z[i] : i \in 1 .. n + 1} => x \in {s[i] : i \in 1 .. n} \cup {o}
    BY <1>5
  <2>2. \A x : x \in {s[i] : i \in 1 .. n} \cup {o} => x \in {z[i] : i \in 1 .. n + 1}
    BY <1>6, <1>7
  <2> QED
    BY <2>1, <2>2
<1> QED
  BY <1>0, <1>3, <1>4, <1>8 DEF z

\* p->next = b_obj->next takes the entry out of the chain.
LEMMA UnlinkStep ==
  ASSUME IndInv, ChainInv, Intact, NEW t \in Thread, Unlink(t), ~Crash(t), ~raced'
  PROVE  Intact'
<1> USE ListMtfAssumption
<1> DEFINE o == b_obj[t]
<1>1. /\ pc[t] = "unlink" /\ Stores(t) /\ call[t].op \in {"get", "remove"}
      /\ Goto(t, IF call[t].op = "get" THEN "relink" ELSE "free")
      /\ IF p[t] = o THEN head' = loaded[t] /\ UNCHANGED entry
         ELSE entry' = [entry EXCEPT ![p[t]].next = loaded[t]] /\ UNCHANGED head
      /\ call' = call /\ p' = p /\ b_obj' = b_obj
  BY DEF Unlink, walk, IndInv, CallInv
<1>2. /\ pc'[t] \in {"relink", "free"} /\ \A u \in Thread \ {t} : pc'[u] = pc[u]
      /\ entry \in [Obj -> [key: Key \cup {Null}, next: Pointer]]
  BY <1>1 DEF IndInv, TypeInv, Goto
<1>3. PICK n \in Nat : \E s \in [1 .. n -> Obj] : Follows(n, s)
  BY DEF Intact
<1>4. PICK s \in [1 .. n -> Obj] : Follows(n, s)
  BY <1>3
<1>5. ~overtaken[t]
  BY <1>1, StoreAlone
<1>6. PICK k \in 1 .. n : Reached(n, s, t, k) /\ loaded[t] = entry[o].next
  BY <1>1, <1>4, <1>5 DEF Follows, Place
<1>7. o = s[k] /\ p[t] = IF k = 1 THEN s[k] ELSE s[k - 1]
  BY <1>6 DEF Reached
<1>18. IF p[t] = o THEN head' = entry[o].next /\ UNCHANGED entry
       ELSE entry' = [entry EXCEPT ![p[t]].next = entry[o].next] /\ UNCHANGED head
  BY <1>1, <1>6
<1>8. /\ Injective(s) /\ \A i, j \in 1 .. n : s[i] = s[j] => i = j
      /\ \A i \in 1 .. n : s[i] \in Live \ Hands
      /\ head = IF n = 0 THEN Null ELSE s[1]
      /\ \A i \in 1 .. n : entry[s[i]].next = IF i < n THEN s[i + 1] ELSE Null
  BY <1>4 DEF Follows, IsChain, Injective
<1> DEFINE z == Without(n, s, k)
<1>9. /\ n - 1 \in Nat /\ z \in [1 .. n - 1 -> Obj] /\ Injective(z)
      /\ {z[i] : i \in 1 .. n - 1} = {s[i] : i \in 1 .. n} \ {s[k]}
  BY <1>8, WithoutProperties, ZenonT(60)
<1>10. \A i \in 1 .. n - 1 : z[i] = IF i < k THEN s[i] ELSE s[i + 1]
  BY DEF Without
<1> HIDE DEF z
<1>11. Live' = Live
  <2>1. CASE p[t] = o
    BY <1>18, <2>1 DEF Live
  <2>2. CASE p[t] # o
    <3>1. k - 1 \in 1 .. n /\ p[t] = s[k - 1] /\ k # 1
      BY <1>7, <2>2
    <3>2. Accesses({p[t]})
      BY <1>8, <3>1 DEF Accesses
    <3>3. entry[o].next \in Pointer
      BY <1>2, <1>7
    <3> QED
      BY <1>18, <2>2, <3>2, <3>3, NextStored DEF IndInv
  <2> QED
    BY <2>1, <2>2
<1>12. IsChain(n - 1, z)'
  <2>1. CASE k = 1
    <3>1. head' = entry[s[1]].next /\ entry' = entry
      BY <1>7, <1>18, <2>1
    <3>2. head' = IF n - 1 = 0 THEN Null ELSE z[1]
      <4>1. CASE n = 1
        BY <1>8, <3>1, <4>1
      <4>2. CASE n > 1
        BY <1>8, <1>10, <2>1, <3>1, <4>2
      <4>3. n = 1 \/ n > 1
        BY <2>1
      <4> QED
        BY <4>1, <4>2, <4>3
    <3>3. \A i \in 1 .. n - 1 : entry'[z[i]].next = IF i < n - 1 THEN z[i + 1] ELSE Null
      <4>1. ASSUME NEW i \in 1 .. n - 1
            PROVE  z[i] = s[i + 1] /\ (i < n - 1 => z[i + 1] = s[i + 2])
        <5>1. ~(i < k) /\ ~(i + 1 < k) /\ (i + 1) + 1 = i + 2
          BY <2>1
        <5>2. i < n - 1 => i + 1 \in 1 .. n - 1
          OBVIOUS
        <5> QED
          BY <1>10, <5>1, <5>2
      <4>2. \A i \in 1 .. n - 1 : i + 1 \in 1 .. n /\ (i + 1 < n <=> i < n - 1) /\ (i + 1) + 1 = i + 2
        OBVIOUS
      <4>3. \A i \in 1 .. n - 1 : entry[s[i + 1]].next = IF i < n - 1 THEN s[i + 2] ELSE Null
        BY <1>8, <4>2
      <4> QED
        BY <3>1, <4>1, <4>3
    <3> QED
      BY <1>9, <3>2, <3>3 DEF IsChain
  <2>2. CASE k # 1
    <3>1. k - 1 \in 1 .. n /\ p[t] = s[k - 1] /\ p[t] # o /\ n - 1 # 0 /\ 1 \in 1 .. n - 1 /\ 1 < k
      BY <1>7, <1>8, <2>2
    <3>2. /\ head' = head
          /\ entry' = [entry EXCEPT ![s[k - 1]].next = entry[s[k]].next]
      BY <1>7, <1>18, <3>1
    <3>3. head' = IF n - 1 = 0 THEN Null ELSE z[1]
      BY <1>8, <1>10, <3>1, <3>2
    <3>4. /\ entry'[s[k - 1]].next = IF k < n THEN s[k + 1] ELSE Null
          /\ \A j \in 1 .. n : j # k - 1 => entry'[s[j]].next = IF j < n THEN s[j + 1] ELSE Null
      BY <1>2, <1>8, <3>1, <3>2
    <3>5. \A i \in 1 .. n - 1 : entry'[z[i]].next = IF i < n - 1 THEN z[i + 1] ELSE Null
      <4>1. SUFFICES ASSUME NEW i \in 1 .. n - 1
                     PROVE  entry'[z[i]].next = IF i < n - 1 THEN z[i + 1] ELSE Null
        OBVIOUS
      <4>2. /\ i \in 1 .. n /\ i + 1 \in 1 .. n /\ (i + 1 < n <=> i < n - 1)
            /\ i < n - 1 => i + 1 \in 1 .. n - 1
        OBVIOUS
      <4>3. CASE i < k - 1
        BY <1>10, <3>4, <4>2, <4>3
      <4>4. CASE i = k - 1
        BY <1>10, <3>4, <4>2, <4>4
      <4>5. CASE i > k - 1
        BY <1>10, <3>4, <4>2, <4>5
      <4> QED
        BY <4>3, <4>4, <4>5
    <3> QED
      BY <1>9, <3>3, <3>5 DEF IsChain
  <2> QED
    BY <2>1, <2>2
<1>13. \A u \in Thread \ {t} : InHand(u)' <=> InHand(u)
  BY <1>2 DEF InHand
<1>14. InHand(t)' /\ ~InHand(t)
  BY <1>1, <1>2 DEF InHand
<1>15. Hands' = Hands \cup {s[k]}
  BY <1>1, <1>7, <1>13, <1>14 DEF Hands
<1>16. HandInv'
  <2>1. \A u \in Thread : InHand(u) => b_obj[u] # s[k]
    BY <1>8 DEF Hands
  <2> QED
    BY <1>1, <1>7, <1>8, <1>11, <1>13, <1>14, <2>1 DEF Intact, HandInv
<1>17. {z[i] : i \in 1 .. n - 1} = (Live \ Hands)'
  BY <1>4, <1>9, <1>11, <1>15 DEF Follows
<1> QED
  BY <1>1, <1>2, <1>9, <1>12, <1>16, <1>17, FollowedAgain, NotCrashed

\* b_obj->next = head
LEMMA RelinkStep ==
  ASSUME IndInv, ChainInv, Intact, NEW t \in Thread, Relink(t), ~Crash(t), ~raced'
  PROVE  Intact'
<1> DEFINE o == b_obj[t]
<1>1. /\ pc[t] = "link" /\ Stores(t) /\ Goto(t, "front") /\ Accesses({o})
      /\ entry' = [entry EXCEPT ![o].next = loaded[t]]
      /\ head' = head /\ b_obj' = b_obj
  BY DEF Relink, walk
<1>2. /\ pc'[t] = "front" /\ \A u \in Thread \ {t} : pc'[u] = pc[u]
      /\ entry \in [Obj -> [key: Key \cup {Null}, next: Pointer]] /\ loaded[t] \in Pointer
  BY <1>1 DEF IndInv, TypeInv, Goto
<1>3. PICK n \in Nat : \E s \in [1 .. n -> Obj] : Follows(n, s)
  BY DEF Intact
<1>4. PICK s \in [1 .. n -> Obj] : Follows(n, s)
  BY <1>3
<1>15. loaded[t] = head
  BY <1>1, <1>4, StoreAlone DEF Follows, Place
<1>5. \A u \in Thread : InHand(u)' <=> InHand(u)
  BY <1>1, <1>2 DEF InHand
<1>6. InHand(t) /\ o \in Live /\ o \in Hands
  BY <1>1 DEF InHand, Hands, Intact, HandInv
<1>7. Live' = Live
  BY <1>1, <1>2, NextStored DEF IndInv
<1>8. Hands' = Hands
  BY <1>1, <1>5 DEF Hands
<1>9. HandInv'
  BY <1>1, <1>5, <1>7 DEF Intact, HandInv
<1>10. o \in Obj /\ entry'[o].next = head /\ \A x \in Obj \ {o} : entry'[x] = entry[x]
  BY <1>1, <1>2, <1>6, <1>15 DEF Live
<1>11. \A i \in 1 .. n : s[i] \in Obj \ {o}
  BY <1>4, <1>6 DEF Follows
<1>12. IsChain(n, s)'
  BY <1>1, <1>4, <1>10, <1>11 DEF Follows, IsChain
<1>13. {s[i] : i \in 1 .. n} = (Live \ Hands)'
  BY <1>4, <1>7, <1>8 DEF Follows
<1>14. entry'[b_obj'[t]].next = head'
  BY <1>1, <1>10
<1> QED
  BY <1>1, <1>2, <1>9, <1>12, <1>13, <1>14, FollowedAgain, NotCrashed

\* head = b_obj puts the entry in front of the chain.
LEMMA FrontStep ==
  ASSUME IndInv, ChainInv, Intact, NEW t \in Thread, Front(t) \/ Publish(t), ~raced'
  PROVE  Intact'
<1>0. PICK o \in Pointer : o = b_obj[t]
  BY DEF IndInv, TypeInv
<1>1. /\ pc[t] \in {"front", "publish"} /\ Stores(t)
      /\ Goto(t, "unlock") \/ Goto(t, "count")
      /\ head' = o /\ entry' = entry /\ b_obj' = b_obj
  BY <1>0 DEF Front, Publish, walk
<1>2. pc'[t] \in {"unlock", "count"} /\ \A u \in Thread \ {t} : pc'[u] = pc[u]
  BY <1>1 DEF IndInv, TypeInv, Goto
<1>3. PICK n \in Nat : \E s \in [1 .. n -> Obj] : Follows(n, s)
  BY DEF Intact
<1>4. PICK s \in [1 .. n -> Obj] : Follows(n, s)
  BY <1>3
<1>5. ~overtaken[t]
  BY <1>1, StoreAlone
<1>6. entry[o].next = head
  BY <1>0, <1>1, <1>4, <1>5 DEF Follows, Place
<1>7. InHand(t) /\ ~InHand(t)' /\ \A u \in Thread \ {t} : InHand(u)' <=> InHand(u)
  BY <1>1, <1>2 DEF InHand
<1>8. o \in Live /\ o \in Hands /\ Live' = Live
  BY <1>0, <1>1, <1>7 DEF Intact, HandInv, Hands, Live
<1>9. \A u \in Thread \ {t} : InHand(u) => b_obj[u] # o
  BY <1>0, <1>7 DEF Intact, HandInv
<1>10. Hands' = Hands \ {o}
  BY <1>0, <1>1, <1>7, <1>9 DEF Hands
<1>11. HandInv'
  BY <1>1, <1>7, <1>8 DEF Intact, HandInv
<1> DEFINE z == InFront(n, s, o)
<1>12. /\ Injective(s) /\ o \in Obj /\ o \notin {s[i] : i \in 1 .. n}
       /\ head = IF n = 0 THEN Null ELSE s[1]
       /\ \A i \in 1 .. n : entry[s[i]].next = IF i < n THEN s[i + 1] ELSE Null
  BY <1>4, <1>8 DEF Follows, IsChain, Live
<1>13. /\ n + 1 \in Nat /\ z \in [1 .. n + 1 -> Obj] /\ Injective(z)
       /\ {z[i] : i \in 1 .. n + 1} = {s[i] : i \in 1 .. n} \cup {o}
  BY <1>12, InFrontProperties
<1>14. \A i \in 1 .. n + 1 : z[i] = IF i = 1 THEN o ELSE s[i - 1]
  BY DEF InFront
<1> HIDE DEF z
<1>15. IsChain(n + 1, z)'
  <2>1. head' = IF n + 1 = 0 THEN Null ELSE z[1]
    BY <1>1, <1>14
  <2>2. ASSUME NEW i \in 1 .. n + 1
        PROVE  entry'[z[i]].next = IF i < n + 1 THEN z[i + 1] ELSE Null
    <3>1. CASE i = 1
      <4>1. z[1] = o /\ (1 < n + 1 => z[1 + 1] = s[1])
        <5>1. 1 < n + 1 => 1 + 1 \in 1 .. n + 1 /\ (1 + 1) - 1 = 1 /\ 1 + 1 # 1
          OBVIOUS
        <5> QED
          BY <1>14, <5>1
      <4>2. 1 < n + 1 <=> n # 0
        OBVIOUS
      <4> QED
        BY <1>1, <1>6, <1>12, <3>1, <4>1, <4>2
    <3>2. CASE i # 1
      <4>1. i - 1 \in 1 .. n /\ (i - 1 < n <=> i < n + 1) /\ (i - 1) + 1 = i
        BY <3>2
      <4>2. z[i] = s[i - 1]
        BY <1>14, <3>2
      <4>3. i < n + 1 => z[i + 1] = s[i]
        <5>1. i < n + 1 => i + 1 \in 1 .. n + 1 /\ (i + 1) - 1 = i /\ i + 1 # 1
          BY <3>2
        <5> QED
          BY <1>14, <5>1
      <4>4. entry[s[i - 1]].next = IF i - 1 < n THEN s[i] ELSE Null
        BY <1>12, <4>1
      <4> QED
        BY <1>1, <4>1, <4>2, <4>3, <4>4
    <3> QED
      BY <3>1, <3>2
  <2> QED
    BY <1>13, <2>1, <2>2 DEF IsChain
<1>16. {z[i] : i \in 1 .. n + 1} = (Live \ Hands)'
  BY <1>4, <1>8, <1>10, <1>13 DEF Follows
<1> QED
  BY <1>1, <1>2, <1>11, <1>13, <1>15, <1>16, FollowedAgain, NotCrashed


\* A step of t that touches no entry of the chain, and no entry another thread has in hand.
LEMMA OthersKept ==
  ASSUME HandInv, NEW t \in Thread, NEW o \in Obj, NEW n \in Nat, NEW s \in [1 .. n -> Obj],
         head' = head, \A x \in Obj \ {o} : entry'[x] = entry[x],
         o \notin {s[i] : i \in 1 .. n},
         \A u \in Thread \ {t} : InHand(u) => b_obj[u] # o,
         NEW u \in Thread \ {t}, Place(n, s, u),
         pc'[u] = pc[u], call'[u] = call[u], p'[u] = p[u], b_obj'[u] = b_obj[u],
         loaded'[u] = loaded[u]
  PROVE  Place(n, s, u)'
<1>1. \A i \in 1 .. n : entry'[s[i]] = entry[s[i]]
  OBVIOUS
<1>2. pc[u] \in {"front", "publish"} => entry'[b_obj[u]].next = head
  <2>1. pc[u] \in {"front", "publish"} => b_obj[u] \in Obj \ {o}
    BY DEF HandInv, InHand, Live
  <2> QED
    BY <2>1 DEF Place
<1>3. \A k \in 1 .. n + 1 : Reached(n, s, u, k) => Reached(n, s, u, k)'
  <2>1. SUFFICES ASSUME NEW k \in 1 .. n + 1, Reached(n, s, u, k)
                 PROVE  Reached(n, s, u, k)'
    OBVIOUS
  <2>2. \A i \in 1 .. k - 1 : i \in 1 .. n
    OBVIOUS
  <2> QED
    BY <1>1, <2>1, <2>2 DEF Reached
<1>4. \A k \in 1 .. n : k \in 1 .. n + 1
  OBVIOUS
<1>5. \A k \in 1 .. n : Reached(n, s, u, k) => entry'[b_obj[u]] = entry[b_obj[u]]
  BY <1>1 DEF Reached
<1>6. pc[u] = "unlink" => loaded'[u] = entry'[b_obj'[u]].next
  BY <1>5 DEF Place
<1>7. pc[u] = "link" => loaded'[u] = head'
  BY DEF Place
<1> QED
  BY <1>2, <1>3, <1>4, <1>6, <1>7 DEF Place

\* The entry that is freed was no longer in the chain.
LEMMA FreeStep ==
  ASSUME IndInv, ChainInv, Intact, NEW t \in Thread, Free(t), ~Crash(t)
  PROVE  Intact'
<1>0. PICK o \in Pointer : o = b_obj[t]
  BY DEF IndInv, TypeInv
<1>1. /\ pc[t] = "free" /\ Goto(t, "count") /\ entry' = [entry EXCEPT ![o] = Freed]
      /\ head' = head /\ b_obj' = b_obj /\ p' = p /\ call' = call /\ overtaken' = overtaken
      /\ loaded' = loaded
  BY <1>0 DEF Free, walk, ghosts
<1>2. /\ pc'[t] = "count" /\ \A u \in Thread \ {t} : pc'[u] = pc[u]
      /\ entry \in [Obj -> [key: Key \cup {Null}, next: Pointer]]
  BY <1>1 DEF IndInv, TypeInv, Goto
<1>3. PICK n \in Nat : \E s \in [1 .. n -> Obj] : Follows(n, s)
  BY DEF Intact
<1>4. PICK s \in [1 .. n -> Obj] : Follows(n, s)
  BY <1>3
<1>5. InHand(t) /\ ~InHand(t)' /\ \A u \in Thread \ {t} : InHand(u)' <=> InHand(u)
  BY <1>1, <1>2 DEF InHand
<1>6. o \in Live /\ o \in Hands /\ \A u \in Thread \ {t} : InHand(u) => b_obj[u] # o
  BY <1>0, <1>5 DEF Intact, HandInv, Hands
<1>7. o \in Obj /\ entry'[o] = Freed /\ \A x \in Obj \ {o} : entry'[x] = entry[x]
  BY <1>1, <1>2, <1>6 DEF Live
<1>8. Live' = Live \ {o}
  BY <1>7 DEF Live
<1>9. Hands' = Hands \ {o}
  BY <1>0, <1>1, <1>5, <1>6 DEF Hands
<1>10. HandInv'
  BY <1>1, <1>5, <1>6, <1>8 DEF Intact, HandInv
<1>12. o \notin {s[i] : i \in 1 .. n}
  BY <1>4, <1>6 DEF Follows
<1>13. IsChain(n, s)'
  BY <1>1, <1>4, <1>7, <1>12 DEF Follows, IsChain
<1>14. {s[i] : i \in 1 .. n} = (Live \ Hands)'
  BY <1>4, <1>8, <1>9, <1>12 DEF Follows
<1>15. \A u \in Thread \ {t} : ~overtaken'[u] => Place(n, s, u)'
  BY <1>1, <1>2, <1>4, <1>6, <1>7, <1>12, OthersKept DEF Follows, Intact
<1>16. Place(n, s, t)'
  BY <1>2 DEF Place
<1> QED
  BY <1>10, <1>13, <1>14, <1>15, <1>16 DEF Intact, Follows

\* The entry that is allocated is not in the chain yet.
LEMMA AllocateStep ==
  ASSUME IndInv, ChainInv, Intact, NEW t \in Thread, Allocate(t)
  PROVE  Intact'
<1>0. PICK o \in Obj : o = (CHOOSE x \in Obj : x \notin Live) /\ o \notin Live
  BY DEF Allocate, Live
<1>1. /\ pc[t] = "head" /\ Goto(t, "publish")
      /\ entry' = [entry EXCEPT ![o] = [key |-> call[t].key, next |-> head]]
      /\ head' = head /\ b_obj' = [b_obj EXCEPT ![t] = o] /\ p' = p /\ call' = call
      /\ overtaken' = overtaken /\ loaded' = loaded /\ call[t].key \in Key
  BY <1>0 DEF Allocate, IndInv, CallInv, ghosts
<1>2. /\ pc'[t] = "publish" /\ \A u \in Thread \ {t} : pc'[u] = pc[u]
      /\ b_obj'[t] = o /\ \A u \in Thread \ {t} : b_obj'[u] = b_obj[u]
      /\ entry \in [Obj -> [key: Key \cup {Null}, next: Pointer]]
  BY <1>1 DEF IndInv, TypeInv, Goto
<1>3. PICK n \in Nat : \E s \in [1 .. n -> Obj] : Follows(n, s)
  BY DEF Intact
<1>4. PICK s \in [1 .. n -> Obj] : Follows(n, s)
  BY <1>3
<1>5. ~InHand(t) /\ InHand(t)' /\ \A u \in Thread \ {t} : InHand(u)' <=> InHand(u)
  BY <1>1, <1>2 DEF InHand
<1>6. \A u \in Thread : InHand(u) => b_obj[u] # o
  BY <1>0 DEF Intact, HandInv
<1>7. /\ entry'[o] = [key |-> call[t].key, next |-> head]
      /\ \A x \in Obj \ {o} : entry'[x] = entry[x]
  BY <1>1, <1>2
<1>8. Live' = Live \cup {o}
  <2>1. entry'[o] # Freed
    BY <1>1, <1>7, ListMtfAssumption DEF Freed
  <2> QED
    BY <1>7, <2>1 DEF Live
<1>9. Hands' = Hands \cup {o}
  BY <1>2, <1>5, ZenonT(60) DEF Hands
<1>10. HandInv'
  BY <1>2, <1>5, <1>6, <1>8 DEF Intact, HandInv
<1>12. o \notin {s[i] : i \in 1 .. n} /\ o \notin Hands
  BY <1>0, <1>4, <1>6 DEF Follows, Hands
<1>13. IsChain(n, s)'
  BY <1>1, <1>4, <1>7, <1>12 DEF Follows, IsChain
<1>14. {s[i] : i \in 1 .. n} = (Live \ Hands)'
  BY <1>4, <1>8, <1>9, <1>12 DEF Follows
<1>15. \A u \in Thread \ {t} : ~overtaken'[u] => Place(n, s, u)'
  <2>1. SUFFICES ASSUME NEW u \in Thread \ {t}, ~overtaken'[u]
                 PROVE  Place(n, s, u)'
    OBVIOUS
  <2>2. Place(n, s, u) /\ HandInv
    BY <1>1, <1>4, <2>1 DEF Follows, Intact
  <2>3. /\ pc'[u] = pc[u] /\ call'[u] = call[u] /\ p'[u] = p[u] /\ b_obj'[u] = b_obj[u]
        /\ loaded'[u] = loaded[u] /\ head' = head
    BY <1>1, <1>2
  <2> QED
    BY <1>6, <1>7, <1>12, <2>2, <2>3, OthersKept
<1>16. Place(n, s, t)'
  BY <1>1, <1>2, <1>7 DEF Place
<1> QED
  BY <1>10, <1>13, <1>14, <1>15, <1>16 DEF Intact, Follows


\* One step.
LEMMA ChainStep ==
  ASSUME IndInv, ChainInv, NEW t \in Thread, (Running /\ Begin(t)) \/ Step(t)
  PROVE  ChainInv'
<1>1. \/ raced' = raced \/ raced' = (raced \/ overtaken[t])
  BY DEF Begin, Step, Lock, ReadHead, Crash, Advance, Miss, Hit, LoadNext, Unlink, LoadHead, Relink,
         Front, Free, Allocate, AllocFails, Publish, Count, Recount, Unlock, Stores, ghosts
<1>2. /\ raced' \in BOOLEAN /\ (~raced' => ~raced)
  BY <1>1 DEF ChainInv
<1>3. overtaken' \in [Thread -> BOOLEAN]
  <2>1. overtaken \in [Thread -> BOOLEAN]
    BY DEF ChainInv
  <2>2. \/ UNCHANGED ghosts
        \/ Stores(t)
        \/ \E b \in BOOLEAN : overtaken' = [overtaken EXCEPT ![t] = b]
    <3>1. CASE Allocate(t) \/ ReadHead(t) \/ LoadNext(t) \/ LoadHead(t)
      BY <3>1 DEF Allocate, ReadHead, LoadNext, LoadHead, Crash
    <3>2. CASE Unlock(t)
      BY <3>2 DEF Unlock
    <3>3. CASE Begin(t) \/ Lock(t) \/ Advance(t) \/ Miss(t) \/ Hit(t) \/ Free(t) \/ AllocFails(t)
               \/ Count(t) \/ Recount(t)
      BY <3>3 DEF Begin, Lock, Crash, Advance, Miss, Hit, Free, AllocFails, Count, Recount
    <3>4. CASE Unlink(t) \/ Relink(t) \/ Front(t) \/ Publish(t)
      BY <3>4 DEF Crash, Unlink, Relink, Front, Publish
    <3> QED
      BY <3>1, <3>2, <3>3, <3>4 DEF Step
  <2>3. \A u \in Thread : (overtaken[u] \/ (u # t /\ Walking(u))) \in BOOLEAN
    BY DEF Walking
  <2> QED
    BY <2>1, <2>2, <2>3 DEF Stores, ghosts
<1>4. ASSUME ~raced'
      PROVE  Intact'
  <2>1. Intact
    BY <1>2, <1>4 DEF ChainInv
  <2>2. CASE \/ Begin(t) \/ Lock(t) \/ ReadHead(t) \/ (Advance(t) /\ ~Crash(t)) \/ Miss(t) \/ Hit(t)
             \/ (LoadNext(t) /\ ~Crash(t)) \/ LoadHead(t)
             \/ AllocFails(t) \/ Count(t) \/ Recount(t) \/ Unlock(t) \/ (Step(t) /\ Crash(t))
    BY <2>1, <2>2, QuietStep
  <2>3. CASE Unlink(t) /\ ~Crash(t)
    BY <1>4, <2>1, <2>3, UnlinkStep
  <2>4. CASE Relink(t) /\ ~Crash(t)
    BY <1>4, <2>1, <2>4, RelinkStep
  <2>5. CASE Front(t) \/ Publish(t)
    BY <1>4, <2>1, <2>5, FrontStep
  <2>6. CASE Free(t) /\ ~Crash(t)
    BY <2>1, <2>6, FreeStep
  <2>7. CASE Allocate(t)
    BY <2>1, <2>7, AllocateStep
  <2> QED
    BY <2>2, <2>3, <2>4, <2>5, <2>6, <2>7 DEF Step
<1> QED
  BY <1>2, <1>3, <1>4 DEF ChainInv

\* The chain a process finds ends, and nobody has an entry of it in hand.
LEMMA InitChainInv == Init => ChainInv
<1> SUFFICES ASSUME Init
             PROVE  ChainInv
  OBVIOUS
<1>a. PICK n \in Nat : \E at \in [1 .. n -> Obj], c \in [1 .. n -> Key] : InitialChain(n, at, c)
  BY InitialChainExists
<1>1. PICK at \in [1 .. n -> Obj], c \in [1 .. n -> Key] : InitialChain(n, at, c)
  BY <1>a
<1>2. IsChain(n, at) /\ Live = {at[i] : i \in 1 .. n}
  BY <1>1, InitialChainProperties DEF IsChain
<1>3. \A t \in Thread : pc[t] = "idle" /\ ~overtaken[t]
  BY DEF Init
<1>4. \A t \in Thread : ~InHand(t) /\ Place(n, at, t)
  BY <1>3 DEF InHand, Place
<1>5. Hands = {}
  BY <1>4 DEF Hands
<1>6. HandInv
  BY <1>4 DEF HandInv
<1>7. Follows(n, at)
  BY <1>2, <1>4, <1>5 DEF Follows
<1> QED
  BY <1>6, <1>7 DEF Init, ChainInv, Intact

LEMMA ChainInvariance == Spec => [](IndInv /\ ChainInv)
<1>1. IndInv /\ ChainInv /\ [Next]_vars => ChainInv'
  <2> SUFFICES ASSUME IndInv, ChainInv, [Next]_vars
               PROVE  ChainInv'
    OBVIOUS
  <2>1. CASE UNCHANGED vars
    BY <2>1 DEF vars, ChainInv, Intact, HandInv, Follows, IsChain, Place, Reached, Hands,
                InHand, Walking, Live
  <2>2. CASE Next /\ ~UNCHANGED vars
    BY <2>2, ChainStep DEF Next, Finished
  <2> QED
    BY <2>1, <2>2
<1> QED
  BY Invariance, InitChainInv, <1>1, PTL DEF Spec


\* What Path is on a chain of n entries: its pointers in order, and then null.
LEMMA ChainPath ==
  ASSUME NEW n \in Nat, NEW s \in [1 .. n -> Obj], IsChain(n, s), \A i \in 1 .. n : s[i] \in Live
  PROVE  /\ n <= Cardinality(Obj) /\ Cardinality(Obj) \in Nat
         /\ Path = [i \in 0 .. Cardinality(Obj) |-> IF i < n THEN s[i + 1] ELSE Null]
<1> DEFINE N == Cardinality(Obj)
           W == [i \in 0 .. N |-> IF i < n THEN s[i + 1] ELSE Null]
           After(f) == [i \in 0 .. N |->
                          IF i = 0 THEN head
                          ELSE IF f[i - 1] \in Live THEN entry[f[i - 1]].next ELSE f[i - 1]]
<1>1. N \in Nat
  BY ListMtfAssumption, FS_CardinalityType
<1>2. n <= N
  <2>1. Cardinality({s[i] : i \in 1 .. n}) = n
    BY AddressesUsed DEF IsChain
  <2>2. {s[i] : i \in 1 .. n} \subseteq Obj
    OBVIOUS
  <2> QED
    BY <2>1, <2>2, ListMtfAssumption, FS_Subset
<1> HIDE DEF N
<1>3. Null \notin Live
  BY ListMtfAssumption DEF Live
<1>4. W = After(W)
  <2>1. ASSUME NEW i \in 0 .. N
        PROVE  W[i] = After(W)[i]
    <3>1. CASE i = 0
      BY <1>1, <3>1 DEF IsChain
    <3>2. CASE i # 0
      <4>1. i - 1 \in 0 .. N /\ i \in Nat /\ (i - 1) + 1 = i
        BY <1>1, <3>2
      <4>2. W[i - 1] = IF i - 1 < n THEN s[i] ELSE Null
        BY <4>1
      <4>3. CASE i - 1 < n
        <5>1. i \in 1 .. n /\ W[i - 1] = s[i]
          BY <3>2, <4>1, <4>2, <4>3
        <5>2. entry[s[i]].next = IF i < n THEN s[i + 1] ELSE Null
          BY <5>1 DEF IsChain
        <5> QED
          BY <3>2, <5>1, <5>2
      <4>4. CASE ~(i - 1 < n)
        <5>1. W[i - 1] = Null /\ ~(i < n)
          BY <4>1, <4>2, <4>4
        <5> QED
          BY <1>3, <3>2, <5>1
      <4> QED
        BY <4>3, <4>4
    <3> QED
      BY <3>1, <3>2
  <2>2. W = [i \in 0 .. N |-> W[i]]
    OBVIOUS
  <2>3. After(W) = [i \in 0 .. N |-> After(W)[i]]
    OBVIOUS
  <2> HIDE DEF W, After
  <2> QED
    BY <2>1, <2>2, <2>3
<1>5. Path = CHOOSE f : f = After(f)
  BY DEF Path, N
<1> HIDE DEF W
<1>6. Path = After(Path)
  BY <1>4, <1>5
<1>7. \A i \in 0 .. N : Path[i] = W[i]
  <2> DEFINE Same(i) == Path[i] = W[i]
  <2>1. SUFFICES ASSUME NEW j \in 0 .. N, ~Same(j)
                 PROVE  FALSE
    OBVIOUS
  <2>2. PICK i \in 1 .. N + 1 : Path[i - 1] # W[i - 1] /\ \A k \in 1 .. N + 1 : k < i => Path[k - 1] = W[k - 1]
    <3> DEFINE S == {i \in 1 .. N + 1 : Path[i - 1] # W[i - 1]}
    <3>1. j + 1 \in S
      <4>1. j + 1 \in 1 .. N + 1 /\ (j + 1) - 1 = j
        BY <1>1
      <4> QED
        BY <2>1, <4>1
    <3>2. S \subseteq 1 .. N + 1 /\ N + 1 \in Nat
      BY <1>1
    <3>3. PICK i \in S : \A k \in S : i <= k
      BY <3>1, <3>2, Positions!HasFirst
    <3> QED
      BY <3>3
  <2>3. i - 1 = 0 \/ i - 1 \in 1 .. N
    BY <1>1
  <2>4. After(Path)[i - 1] = After(W)[i - 1]
    <3>1. CASE i - 1 = 0
      BY <1>1, <3>1
    <3>2. CASE i - 1 \in 1 .. N
      <4>1. Path[(i - 1) - 1] = W[(i - 1) - 1]
        <5>1. i - 1 \in 1 .. N + 1 /\ i - 1 < i
          BY <1>1, <3>2
        <5> QED
          BY <2>2, <5>1
      <4> QED
        BY <3>2, <4>1
    <3> QED
      BY <2>3, <3>1, <3>2
  <2> QED
    BY <1>4, <1>6, <2>2, <2>4
<1>8. W = [i \in 0 .. N |-> W[i]]
  BY DEF W
<1>9. Path = [i \in 0 .. N |-> Path[i]]
  <2>1. \E g : Path = [i \in 0 .. N |-> g[i]]
    BY <1>6
  <2> QED
    BY <2>1
<1>10. Path = W
  BY <1>7, <1>8, <1>9
<1> QED
  BY <1>1, <1>2, <1>10 DEF W, N

LEMMA ChainPathEnds ==
  ASSUME NEW n \in Nat, NEW s \in [1 .. n -> Obj], IsChain(n, s), \A i \in 1 .. n : s[i] \in Live
  PROVE  Path[Cardinality(Obj)] = Null /\ Chained = {s[i] : i \in 1 .. n}
<1> DEFINE N == Cardinality(Obj)
<1>1. /\ n <= N /\ N \in Nat
      /\ Path = [i \in 0 .. N |-> IF i < n THEN s[i + 1] ELSE Null]
  BY ChainPath
<1> HIDE DEF N
<1>2. DOMAIN Path = 0 .. N /\ \A i \in 0 .. N : Path[i] = IF i < n THEN s[i + 1] ELSE Null
  BY <1>1
<1>3. Path[N] = Null
  BY <1>1, <1>2
<1>4. \A i \in 0 .. N : Path[i] = Null \/ \E j \in 1 .. n : Path[i] = s[j]
  <2>1. \A i \in 0 .. N : i < n => i + 1 \in 1 .. n
    BY <1>1
  <2> QED
    BY <1>2, <2>1
<1>5. \A j \in 1 .. n : j - 1 \in 0 .. N /\ Path[j - 1] = s[j] /\ s[j] # Null
  <2>1. \A j \in 1 .. n : j - 1 \in 0 .. N /\ j - 1 < n /\ (j - 1) + 1 = j
    BY <1>1
  <2> QED
    BY <1>2, <2>1, ListMtfAssumption
<1>6. Chained = {s[i] : i \in 1 .. n}
  BY <1>2, <1>4, <1>5 DEF Chained
<1> QED
  BY <1>3, <1>6 DEF N

\* However the gets, which take no lock, interleave with the calls that do: the chain ends
\* and holds exactly the entries allocated that no call has in hand, until a thread stores
\* to it that another thread's store has overtaken (hi_list.c:237-257).
THEOREM ChainAlwaysIntact == Spec => []ChainIntact
<1>1. IndInv /\ ChainInv => ChainIntact
  <2> SUFFICES ASSUME ChainInv, ~raced
               PROVE  Path[Cardinality(Obj)] = Null /\ Chained = Live \ Hands
    BY DEF ChainIntact, Hands
  <2>1. PICK n \in Nat : \E s \in [1 .. n -> Obj] : Follows(n, s)
    BY DEF ChainInv, Intact
  <2>2. PICK s \in [1 .. n -> Obj] : Follows(n, s)
    BY <2>1
  <2> QED
    BY <2>2, ChainPathEnds DEF Follows
<1> QED
  BY ChainInvariance, <1>1, PTL

\* A call that no store of another thread has overtaken since it began to walk does not miss
\* a key of the chain and does not touch freed memory, as long as nobody overtaken has stored
\* to the chain.  It does miss a key whose entry a get has just taken out of the chain to put
\* it in front (hi_list.c:151-153, 242-257).
THEOREM OnlyOvertakenGoWrong == Spec => []WrongOnlyWhenOvertaken
<1>1. IndInv /\ ChainInv => WrongOnlyWhenOvertaken
  <2> SUFFICES ASSUME ChainInv, ~raced, NEW t \in Thread, ~overtaken[t]
               PROVE  /\ pc[t] # "crashed"
                      /\ pc[t] = "walk" /\ b_obj[t] = Null =>
                           \A o \in Chained : entry[o].key # call[t].key
    BY DEF WrongOnlyWhenOvertaken
  <2>1. PICK n \in Nat : \E s \in [1 .. n -> Obj] : Follows(n, s)
    BY DEF ChainInv, Intact
  <2>2. PICK s \in [1 .. n -> Obj] : Follows(n, s)
    BY <2>1
  <2>3. Chained = {s[i] : i \in 1 .. n} /\ Place(n, s, t)
    BY <2>2, ChainPathEnds DEF Follows
  <2>4. ASSUME pc[t] = "walk", b_obj[t] = Null, NEW k \in 1 .. n + 1, Reached(n, s, t, k)
        PROVE  \A i \in 1 .. n : entry[s[i]].key # call[t].key
    <3>1. ~(k <= n)
      BY <2>4, ListMtfAssumption DEF Reached
    <3>2. 1 .. n = 1 .. k - 1
      BY <3>1
    <3> QED
      BY <2>4, <3>2 DEF Reached
  <2> QED
    BY <2>3, <2>4 DEF Place
<1> QED
  BY ChainInvariance, <1>1, PTL
=============================================================================
