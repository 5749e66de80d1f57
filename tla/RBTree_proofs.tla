---------------------------- MODULE RBTree_proofs ----------------------------
(***************************************************************************)
(* What the operations of RBTree do to a tree, for any keys in an order:   *)
(* searching, linking, splicing out and rotating keep a search tree of the *)
(* nodes it should have, and every iteration of the two loops keeps the    *)
(* number of black nodes on all paths equal but for the one place the loop *)
(* is at.                                                                  *)
(***************************************************************************)
EXTENDS RBTree, CmpFuncs, FiniteSetTheorems, WellFoundedInduction, TLAPS

(***************************************************************************)
(* The integer comparisons, for every width of an int: keys less than half *)
(* the range apart are ordered as their values are, others the other way   *)
(* round.                                                                  *)
(***************************************************************************)

\* A remainder is known from the quotient.
LEMMA Remainder ==
    ASSUME NEW n \in Nat \ {0}, NEW q \in Int, NEW r \in 0 .. n - 1
    PROVE  (q * n + r) % n = r
<1> QED
  OBVIOUS

\* A number that fits an int is kept, one beyond it loses or gains the whole range.
LEMMA Wrapped ==
    ASSUME NEW x \in Int
    PROVE  /\ -Half <= x /\ x < Half => Wrap(x) = x
           /\ Half <= x /\ x < 3 * Half => Wrap(x) = x - 2 * Half
           /\ -3 * Half <= x /\ x < -Half => Wrap(x) = x + 2 * Half
<1>1. Half \in Int /\ Half > 0 /\ 2 * Half \in Nat \ {0}
  BY CmpFuncsAssumption
<1>2. CASE -Half <= x /\ x < Half
  <2>1. x + Half \in 0 .. 2 * Half - 1 /\ x + Half = 0 * (2 * Half) + (x + Half)
    BY <1>1, <1>2
  <2>2. (x + Half) % (2 * Half) = x + Half
    BY <1>1, <2>1, Remainder
  <2> QED
    BY <1>1, <1>2, <2>2 DEF Wrap
<1>3. CASE Half <= x /\ x < 3 * Half
  <2>1. x - Half \in 0 .. 2 * Half - 1 /\ x + Half = 1 * (2 * Half) + (x - Half)
    BY <1>1, <1>3
  <2>2. (x + Half) % (2 * Half) = x - Half
    BY <1>1, <2>1, Remainder
  <2> QED
    BY <1>1, <1>3, <2>2 DEF Wrap
<1>4. CASE -3 * Half <= x /\ x < -Half
  <2>1. x + 3 * Half \in 0 .. 2 * Half - 1 /\ x + Half = (-1) * (2 * Half) + (x + 3 * Half)
    BY <1>1, <1>4
  <2>2. (x + Half) % (2 * Half) = x + 3 * Half
    BY <1>1, <2>1, Remainder
  <2> QED
    BY <1>1, <1>4, <2>2 DEF Wrap
<1> QED
  BY <1>1, <1>2, <1>3, <1>4
-----------------------------------------------------------------------------
\* The values of uint32_t and of int32_t.
Unsigned == 0 .. 2 * Half - 1
Signed == -Half .. Half - 1

\* For lookups, which ask whether the result is 0, every two keys are told apart:
\* hi_cmp_int32_t and hi_cmp_uint32_t are 0 only for equal values
\* (cmp_funcs.c:37, 47).
THEOREM EqualOnlyIfSame ==
    /\ \A a, b \in Unsigned : hi_cmp_uint32_t(a, b) = 0 <=> a = b
    /\ \A a, b \in Signed : hi_cmp_int32_t(a, b) = 0 <=> a = b
<1>1. ASSUME NEW a \in Int, NEW b \in Int, -2 * Half < a - b, a - b < 2 * Half
      PROVE  Wrap(a - b) = 0 <=> a = b
  BY <1>1, CmpFuncsAssumption, Wrapped
<1>2. ASSUME NEW a \in Unsigned, NEW b \in Unsigned
      PROVE  hi_cmp_uint32_t(a, b) = 0 <=> a = b
  <2>1. a \in Int /\ b \in Int /\ -2 * Half < a - b /\ a - b < 2 * Half
    BY CmpFuncsAssumption DEF Unsigned
  <2> QED
    BY <1>1, <2>1 DEF hi_cmp_uint32_t
<1>3. ASSUME NEW a \in Signed, NEW b \in Signed
      PROVE  hi_cmp_int32_t(a, b) = 0 <=> a = b
  <2>1. a \in Int /\ b \in Int /\ -2 * Half < a - b /\ a - b < 2 * Half
    BY CmpFuncsAssumption DEF Signed
  <2> QED
    BY <1>1, <2>1 DEF hi_cmp_int32_t
<1> QED
  BY <1>2, <1>3

\* Keys less than half the range apart are ordered as their values are, so a tree of
\* such keys can be searched (cmp_funcs.c:37, 47, hi_rbtree.c:356-369).
THEOREM CloseKeysOrdered ==
    ASSUME NEW a \in Int, NEW b \in Int, Close(a, b)
    PROVE  /\ hi_cmp_uint32_t(a, b) = a - b
           /\ hi_cmp_int32_t(a, b) = a - b
<1> QED
  BY CmpFuncsAssumption, Wrapped DEF Close, hi_cmp_uint32_t, hi_cmp_int32_t

\* Keys further apart are ordered the other way round, and of two keys exactly half
\* the range apart each is less than the other: over all its values neither
\* comparison is an order (cmp_funcs.c:37, 47).
THEOREM FarKeysReversed ==
    ASSUME NEW a \in Int, NEW b \in Int, a - b < 2 * Half, a - b >= Half
    PROVE  /\ hi_cmp_uint32_t(a, b) < 0 /\ hi_cmp_int32_t(a, b) < 0
           /\ a - b > Half <=> hi_cmp_uint32_t(b, a) > 0
           /\ a - b = Half <=> hi_cmp_uint32_t(b, a) < 0
<1>1. Half \in Int /\ Half > 0
  BY CmpFuncsAssumption
<1>2. Wrap(a - b) = a - b - 2 * Half
  BY <1>1, Wrapped
<1>3. CASE a - b = Half
  <2>1. Wrap(b - a) = b - a
    BY <1>1, <1>3, Wrapped
  <2> QED
    BY <1>1, <1>2, <1>3, <2>1 DEF hi_cmp_uint32_t, hi_cmp_int32_t
<1>4. CASE a - b > Half
  <2>1. Wrap(b - a) = b - a + 2 * Half
    BY <1>1, <1>4, Wrapped
  <2> QED
    BY <1>1, <1>2, <1>4, <2>1 DEF hi_cmp_uint32_t, hi_cmp_int32_t
<1> QED
  BY <1>1, <1>3, <1>4

\* Trees whose keys pairwise differ by less than half the range have keys in order, whatever
\* the keys are: this is what the theorems about trees suppose (cmp_funcs.c:47,
\* hi_rbtree.c:356-369, 432-450).
THEOREM CloseKeysMakeAnOrder ==
    ASSUME Key \subseteq Int,
           \A a, b \in Key : Close(a, b) /\ KeyCmp[<<a, b>>] = hi_cmp_uint32_t(a, b)
    PROVE  KeysOrdered
<1>1. ASSUME NEW a \in Key, NEW b \in Key PROVE KeyCmp[<<a, b>>] = a - b /\ a \in Int /\ b \in Int
  <2>1. hi_cmp_uint32_t(a, b) = a - b
    BY CloseKeysOrdered
  <2> QED
    BY <2>1
<1>2. ASSUME NEW a \in Key, NEW b \in Key
      PROVE  /\ KeyCmp[<<a, b>>] = 0 <=> a = b
             /\ KeyCmp[<<a, b>>] < 0 <=> KeyCmp[<<b, a>>] > 0
  <2>1. a \in Int /\ b \in Int /\ KeyCmp[<<a, b>>] = a - b /\ KeyCmp[<<b, a>>] = b - a
    BY <1>1
  <2> QED
    BY <2>1
<1>3. \A a, b, c \in Key : KeyCmp[<<a, b>>] < 0 /\ KeyCmp[<<b, c>>] < 0 => KeyCmp[<<a, c>>] < 0
  <2> SUFFICES ASSUME NEW a \in Key, NEW b \in Key, NEW c \in Key,
                      KeyCmp[<<a, b>>] < 0, KeyCmp[<<b, c>>] < 0
               PROVE  KeyCmp[<<a, c>>] < 0
    OBVIOUS
  <2>1. a - b < 0 /\ b - c < 0 /\ a \in Int /\ b \in Int /\ c \in Int
    BY <1>1
  <2> QED
    BY <2>1, <1>1
<1> QED
  BY <1>2, <1>3 DEF KeysOrdered

(***************************************************************************)
(* Search trees: sub[n] are the nodes from n down, each on the side of n   *)
(* the search for it takes.                                                *)
(***************************************************************************)

Trees == [root : Link, child : [Side -> [Key -> Link]], parent : [Key -> Link], red : [Key -> BOOLEAN]]

\* Where node n of the tree of nodes N is: sub[m] are the nodes from m down.
Placed(T, N, sub, n) ==
    /\ sub[n] = {n} \cup sub[T.child["left"][n]] \cup sub[T.child["right"][n]]
    /\ sub[n] \subseteq N
    /\ \A s \in Side : \A m \in sub[T.child[s][n]] : m # n /\ SideFor(m, n) = s
    /\ \A s \in Side : T.child[s][n] # NULL => T.parent[T.child[s][n]] = n
    /\ n # T.root => T.parent[n] \in N /\ T.child[SideFor(n, T.parent[n])][T.parent[n]] = n

Shape(T, N, sub) ==
    /\ T \in Trees
    /\ sub \in [Link -> SUBSET Key] /\ sub[NULL] = {} /\ sub[T.root] = N
    /\ IsFiniteSet(N)
    /\ T.root # NULL => T.root \in N /\ T.parent[T.root] = NULL
    /\ \A n \in Key : /\ T.parent[n] \in N \cup {NULL}
                      /\ \A s \in Side : T.child[s][n] \in N \cup {NULL}
    /\ \A n \in N : Placed(T, N, sub, n)

\* Seen from each other two keys lie on opposite sides.
LEMMA SideFlips ==
    ASSUME KeysOrdered, NEW a \in Key, NEW b \in Key, a # b
    PROVE  SideFor(a, b) \in Side /\ SideFor(b, a) \in Side /\ SideFor(a, b) = Opposite(SideFor(b, a))
<1>1. KeyCmp[<<a, b>>] \in Int /\ KeyCmp[<<b, a>>] \in Int
  BY RBTreeAssumption
<1> QED
  BY <1>1 DEF KeysOrdered, SideFor, Opposite, Side

\* Lying on one side of each other carries over.
LEMMA SideTransits ==
    ASSUME KeysOrdered, NEW a \in Key, NEW b \in Key, NEW c \in Key, NEW s \in Side,
           a # b, b # c, SideFor(a, b) = s, SideFor(b, c) = s
    PROVE  a # c /\ SideFor(a, c) = s
<1>1. \A x, y \in Key : KeyCmp[<<x, y>>] \in Int
  BY RBTreeAssumption
<1>2. CASE s = "right"
  <2>1. KeyCmp[<<a, b>>] < 0 /\ KeyCmp[<<b, c>>] < 0
    BY <1>2 DEF SideFor
  <2>2. KeyCmp[<<a, c>>] < 0
    BY <2>1 DEF KeysOrdered
  <2>3. KeyCmp[<<a, a>>] = 0
    BY DEF KeysOrdered
  <2> QED
    BY <1>1, <1>2, <2>2, <2>3 DEF SideFor
<1>3. CASE s = "left"
  <2>1. ~(KeyCmp[<<a, b>>] < 0) /\ ~(KeyCmp[<<b, c>>] < 0)
    BY <1>3 DEF SideFor
  <2>2. KeyCmp[<<a, b>>] # 0 /\ KeyCmp[<<b, c>>] # 0
    BY DEF KeysOrdered
  <2>3. KeyCmp[<<b, a>>] < 0 /\ KeyCmp[<<c, b>>] < 0
    BY <1>1, <2>1, <2>2 DEF KeysOrdered
  <2>4. KeyCmp[<<c, a>>] < 0
    BY <2>3 DEF KeysOrdered
  <2>5. KeyCmp[<<a, c>>] > 0 /\ KeyCmp[<<a, a>>] = 0
    BY <2>4 DEF KeysOrdered
  <2> QED
    BY <1>1, <1>3, <2>4, <2>5 DEF SideFor
<1> QED
  BY <1>2, <1>3 DEF Side

\* The opposite of the opposite side.
LEMMA Opposites ==
    ASSUME NEW s \in Side
    PROVE  Opposite(s) \in Side /\ Opposite(s) # s /\ Opposite(Opposite(s)) = s
           /\ \A d \in Side : d = s \/ d = Opposite(s)
<1> QED
  BY DEF Side, Opposite

\* Induction over a tree, from the leaves up.
LEMMA FromTheLeaves ==
    ASSUME NEW T, NEW N, NEW sub, Shape(T, N, sub), NEW P,
           NULL \in P,
           \A n \in N : (\A s \in Side : T.child[s][n] \in P) => n \in P
    PROVE  N \subseteq P
<1> DEFINE Bad == {n \in N : n \notin P}
           Subs == {sub[n] : n \in Bad}
           R == StrictSubsetOrdering(N)
<1> SUFFICES ASSUME Bad # {} PROVE FALSE
  OBVIOUS
<1>1. IsFiniteSet(N) /\ N \subseteq Key /\ \A n \in N : sub[n] \subseteq N
  BY DEF Shape, Placed, Link, Trees
<1>2. IsWellFoundedOn(R, FiniteSubsetsOf(N))
  BY FS_StrictSubsetOrderingWellFounded
<1>3. Subs \subseteq FiniteSubsetsOf(N) /\ Subs # {}
  <2>1. \A n \in Bad : sub[n] \subseteq N /\ IsFiniteSet(sub[n])
    BY <1>1, FS_Subset
  <2> QED
    BY <2>1 DEF FiniteSubsetsOf
<1> HIDE DEF R
<1>4. PICK X \in Subs : \A Y \in Subs : ~ (<<Y, X>> \in R)
  BY <1>2, <1>3, WFMin
<1>5. PICK n \in Bad : X = sub[n]
  OBVIOUS
<1>6. ASSUME NEW s \in Side PROVE T.child[s][n] \in P
  <2> DEFINE c == T.child[s][n]
  <2> SUFFICES ASSUME c \notin P PROVE FALSE
    OBVIOUS
  <2>1. c \in N
    BY <1>1 DEF Shape
  <2>2. sub[c] \subseteq sub[n] /\ n \in sub[n] /\ n \notin sub[c]
    <3>1. Placed(T, N, sub, n)
      BY DEF Shape
    <3> QED
      BY <3>1 DEF Placed, Side
  <2>3. sub[c] \in Subs /\ sub[c] \in SUBSET N /\ sub[n] \in SUBSET N
    BY <1>1, <2>1
  <2>4. <<sub[c], X>> \in R
    BY <1>5, <2>2, <2>3 DEF R, StrictSubsetOrdering
  <2> QED
    BY <1>4, <2>3, <2>4
<1> QED
  BY <1>6

\* and from the root down.
LEMMA FromTheRoot ==
    ASSUME NEW T, NEW N, NEW sub, Shape(T, N, sub), NEW P,
           NULL \in P,
           \A n \in N : T.parent[n] \in P => n \in P
    PROVE  N \subseteq P
<1> DEFINE Bad == {n \in N : n \notin P}
           Rest(n) == N \ sub[n]
           Subs == {Rest(n) : n \in Bad}
           R == StrictSubsetOrdering(N)
<1> SUFFICES ASSUME Bad # {} PROVE FALSE
  OBVIOUS
<1>1. IsFiniteSet(N) /\ N \subseteq Key /\ \A n \in N : sub[n] \subseteq N
  BY DEF Shape, Placed, Link, Trees
<1>2. IsWellFoundedOn(R, FiniteSubsetsOf(N))
  BY FS_StrictSubsetOrderingWellFounded
<1>3. Subs \subseteq FiniteSubsetsOf(N) /\ Subs # {}
  <2>1. \A n \in Bad : Rest(n) \subseteq N /\ IsFiniteSet(Rest(n))
    BY <1>1, FS_Subset
  <2> QED
    BY <2>1 DEF FiniteSubsetsOf
<1> HIDE DEF R
<1>4. PICK X \in Subs : \A Y \in Subs : ~ (<<Y, X>> \in R)
  BY <1>2, <1>3, WFMin
<1>5. PICK n \in Bad : X = Rest(n)
  OBVIOUS
<1> DEFINE p == T.parent[n]
<1>6. p \in N /\ p \in Bad
  BY <1>1 DEF Shape, Link, Trees
<1>7. n # T.root
  <2>1. T.root \in Link
    BY DEF Shape, Trees
  <2> QED
    BY <1>6, <1>1, RBTreeAssumption DEF Shape
<1>8. sub[n] \subseteq sub[p] /\ p \in sub[p] /\ p \notin sub[n]
  <2>1. p \in Key /\ n \in Key /\ T.child[SideFor(n, p)][p] = n
    BY <1>1, <1>6, <1>7 DEF Shape, Placed
  <2>2. SideFor(n, p) \in Side
    BY DEF SideFor, Side
  <2> QED
    BY <1>6, <2>1, <2>2 DEF Shape, Placed, Side
<1>9. <<Rest(p), X>> \in R
  BY <1>1, <1>5, <1>6, <1>8 DEF R, StrictSubsetOrdering
<1> QED
  BY <1>4, <1>6, <1>9

\* A child is found on the side it hangs on.
LEMMA SideOfSide ==
    ASSUME NEW T, NEW n, NEW p
    PROVE  SideOf(T, n, p) \in Side
<1> QED
  BY DEF SideOf, Side

\* What a rotation writes.
LEMMA Rotated ==
    ASSUME NEW T \in Trees, NEW n \in Key, NEW s \in Side,
           T.child[Opposite(s)][n] # NULL
    PROVE  LET up == T.child[Opposite(s)][n]
               mid == T.child[s][up]
               p == T.parent[n]
               U == Rotate(T, n, s)
           IN /\ U \in Trees /\ U.red = T.red
              /\ U.root = IF p = NULL THEN up ELSE T.root
              /\ \A y \in Key : \A d \in Side :
                    U.child[d][y] = IF y = up /\ d = s THEN n
                                    ELSE IF y = n /\ d = Opposite(s) THEN mid
                                    ELSE IF y = p /\ d = SideOf(T, n, p) THEN up
                                    ELSE T.child[d][y]
              /\ \A y \in Key :
                    U.parent[y] = IF y = n THEN up ELSE IF y = up THEN p
                                  ELSE IF y = mid THEN n ELSE T.parent[y]
<1> DEFINE o == Opposite(s)
           up == T.child[o][n]
           mid == T.child[s][up]
           p == T.parent[n]
           e == SideOf(T, n, p)
           R == Relink(T, p, n, up)
           V == Put(Put(Put(R.parent, mid, n), up, p), n, up)
           U == [R EXCEPT !.child[o][n] = mid, !.child[s][up] = n, !.parent = V]
<1>1. o \in Side /\ o # s /\ e \in Side
  BY Opposites, SideOfSide
<1>2. up \in Key /\ p \in Link /\ mid \in Link
  <2>1. up \in Key
    BY <1>1 DEF Trees, Link
  <2> QED
    BY <2>1 DEF Trees
<1>3. /\ R \in Trees /\ R.red = T.red /\ R.parent = T.parent
      /\ R.root = IF p = NULL THEN up ELSE T.root
      /\ \A y \in Key : \A d \in Side :
            R.child[d][y] = IF y = p /\ d = e THEN up ELSE T.child[d][y]
  <2> HIDE DEF up
  <2>1. CASE p = NULL
    BY <1>2, <2>1, RBTreeAssumption DEF Relink, Trees, Link
  <2>2. CASE p # NULL
    <3>1. R = [T EXCEPT !.child[e][p] = up]
      BY <2>2 DEF Relink
    <3> HIDE DEF e, R
    <3>2. p \in Key
      BY <1>2, <2>2 DEF Link
    <3> HIDE DEF p
    <3>3. up \in Link
      BY <1>2 DEF Link
    <3> QED
      BY <1>1, <2>2, <3>1, <3>2, <3>3 DEF Trees
  <2> QED
    BY <2>1, <2>2
<1>4. Rotate(T, n, s) = U
  <2>1. U.parent = V
    BY <1>3 DEF Trees
  <2> QED
    BY <1>3, <2>1 DEF Rotate
<1>5. /\ V \in [Key -> Link]
      /\ \A y \in Key : V[y] = IF y = n THEN up ELSE IF y = up THEN p
                               ELSE IF y = mid THEN n ELSE T.parent[y]
  <2> HIDE DEF up, mid, p, R
  <2> QED
    BY <1>2, <1>3 DEF Put, Trees, Link
<1> HIDE DEF V, R, up, mid, p, e, o
<1>6. U \in Trees
  BY <1>1, <1>2, <1>3, <1>5, ZenonT(60) DEF Trees, Link
<1>7. \A y \in Key : \A d \in Side :
        U.child[d][y] = IF y = up /\ d = s THEN n
                        ELSE IF y = n /\ d = o THEN mid
                        ELSE IF y = p /\ d = e THEN up
                        ELSE T.child[d][y]
  BY <1>1, <1>2, <1>3, <1>5 DEF Trees, Link
<1>8. U.root = (IF p = NULL THEN up ELSE T.root) /\ U.red = T.red /\ U.parent = V
  BY <1>3 DEF Trees
<1> HIDE DEF U
<1> QED
  BY <1>4, <1>5, <1>6, <1>7, <1>8 DEF up, mid, p, e, o

\* What the shape of a tree says of a node, its children and its parent.
LEMMA ShapeSays ==
    ASSUME NEW T, NEW N, NEW sub, Shape(T, N, sub)
    PROVE  /\ T \in Trees /\ N \subseteq Key /\ NULL \notin N /\ sub \in [Link -> SUBSET Key]
           /\ sub[NULL] = {} /\ sub[T.root] = N /\ IsFiniteSet(N)
           /\ \A n \in N : n \in sub[n] /\ sub[n] \subseteq N
           /\ \A n \in N, s \in Side :
                /\ sub[n] = {n} \cup sub[T.child[s][n]] \cup sub[T.child[Opposite(s)][n]]
                /\ T.child[s][n] \in N \cup {NULL}
                /\ n \notin sub[T.child[s][n]]
                /\ \A m \in sub[T.child[s][n]] : SideFor(m, n) = s
                /\ T.child[s][n] # NULL => /\ T.parent[T.child[s][n]] = n
                                           /\ T.child[s][n] # n
                                           /\ T.child[s][n] \in sub[T.child[s][n]]
                                           /\ T.child[s][n] # T.root
<1>1. T \in Trees /\ N \subseteq Key /\ NULL \notin N /\ sub \in [Link -> SUBSET Key]
      /\ sub[NULL] = {} /\ sub[T.root] = N /\ IsFiniteSet(N)
  BY RBTreeAssumption DEF Shape, Trees, Link
<1>2. \A n \in N : n \in sub[n] /\ sub[n] \subseteq N
  BY DEF Shape, Placed
<1>3. ASSUME NEW n \in N, NEW s \in Side
      PROVE  /\ sub[n] = {n} \cup sub[T.child[s][n]] \cup sub[T.child[Opposite(s)][n]]
             /\ T.child[s][n] \in N \cup {NULL}
             /\ n \notin sub[T.child[s][n]]
             /\ \A m \in sub[T.child[s][n]] : SideFor(m, n) = s
             /\ T.child[s][n] # NULL => T.parent[T.child[s][n]] = n
  <2>1. Placed(T, N, sub, n) /\ n \in Key
    BY <1>1 DEF Shape
  <2>2. T.child[s][n] \in N \cup {NULL}
    BY <2>1 DEF Shape
  <2>3. sub[n] = {n} \cup sub[T.child[s][n]] \cup sub[T.child[Opposite(s)][n]]
    BY <2>1 DEF Placed, Side, Opposite
  <2> QED
    BY <2>1, <2>2, <2>3 DEF Placed
<1>4. ASSUME NEW n \in N, NEW s \in Side, T.child[s][n] # NULL
      PROVE  /\ T.child[s][n] # n
             /\ T.child[s][n] \in sub[T.child[s][n]]
             /\ T.child[s][n] # T.root
  <2>1. T.child[s][n] \in N
    BY <1>3, <1>4
  <2>2. T.child[s][n] \in sub[T.child[s][n]] /\ n \notin sub[T.child[s][n]]
    BY <1>2, <1>3, <2>1
  <2>3. T.child[s][n] # T.root
    BY <1>1, <2>2
  <2> QED
    BY <2>2, <2>3
<1> QED
  BY <1>1, <1>2, <1>3, <1>4

\* The same of one child, ...
LEMMA ChildSays ==
    ASSUME NEW T, NEW N, NEW sub, Shape(T, N, sub), NEW y \in N, NEW d \in Side,
           NEW c, c = T.child[d][y]
    PROVE  /\ c \in N \cup {NULL} /\ c # y /\ y \notin sub[c] /\ sub[c] \subseteq sub[y]
           /\ sub[y] = {y} \cup sub[c] \cup sub[T.child[Opposite(d)][y]]
           /\ \A m \in sub[c] : SideFor(m, y) = d
           /\ c # NULL => /\ c \in N /\ T.parent[c] = y /\ c # T.root
                          /\ c \in sub[c] /\ SideFor(c, y) = d
<1>1. NULL \notin N
  BY ShapeSays
<1>2. c \in N \cup {NULL} /\ y \notin sub[c] /\ \A m \in sub[c] : SideFor(m, y) = d
  BY ShapeSays
<1>3. sub[y] = {y} \cup sub[c] \cup sub[T.child[Opposite(d)][y]]
  BY ShapeSays
<1>4. c # NULL => T.parent[c] = y /\ c # T.root /\ c # y /\ c \in sub[c]
  BY ShapeSays
<1>5. c # y
  BY <1>1, <1>4
<1> QED
  BY <1>2, <1>3, <1>4, <1>5

\* ... and what it says about the way up.
LEMMA ShapeSaysAbove ==
    ASSUME NEW T, NEW N, NEW sub, Shape(T, N, sub)
    PROVE  /\ T.root # NULL => T.root \in N /\ T.parent[T.root] = NULL
           /\ \A n \in N :
                /\ T.parent[n] = NULL <=> n = T.root
                /\ n # T.root =>
                    /\ T.parent[n] \in N /\ T.parent[n] # n
                    /\ T.child[SideFor(n, T.parent[n])][T.parent[n]] = n
                    /\ SideOf(T, n, T.parent[n]) = SideFor(n, T.parent[n])
                    /\ T.parent[n] \notin sub[n]
                    /\ sub[n] \subseteq sub[T.parent[n]]
<1>1. T.root # NULL => T.root \in N /\ T.parent[T.root] = NULL
  BY DEF Shape
<1>2. T.root = NULL => N = {}
  BY DEF Shape
<1>3. ASSUME NEW n \in N, n # T.root
      PROVE  /\ T.parent[n] \in N /\ T.parent[n] # n
             /\ T.child[SideFor(n, T.parent[n])][T.parent[n]] = n
             /\ SideOf(T, n, T.parent[n]) = SideFor(n, T.parent[n])
             /\ T.parent[n] \notin sub[n]
             /\ sub[n] \subseteq sub[T.parent[n]]
  <2> DEFINE p == T.parent[n]
             e == SideFor(n, p)
  <2>1. p \in N /\ T.child[e][p] = n
    BY <1>3 DEF Shape, Placed
  <2>2. e \in Side
    BY DEF SideFor, Side
  <2> HIDE DEF p, e
  <2>3. p \notin sub[n] /\ n \in sub[n] /\ sub[n] \subseteq sub[p]
    BY <2>1, <2>2, ShapeSays
  <2>4. T.child["left"][p] = n => e = "left"
    BY <2>1, <2>3, ShapeSays DEF e, Side
  <2>5. SideOf(T, n, p) = e
    BY <2>1, <2>2, <2>4 DEF SideOf, Side
  <2> QED
    BY <2>1, <2>3, <2>5 DEF p, e
<1>4. NULL \notin N
  BY ShapeSays
<1> QED
  BY <1>1, <1>2, <1>3, <1>4

\* The nodes from each node down, once n has gone down on side s.
RotatedSub(T, sub, n, s) ==
    LET up == T.child[Opposite(s)][n] IN
    [y \in Link |-> IF y = up THEN sub[n]
                    ELSE IF y = n THEN {n} \cup sub[T.child[s][n]] \cup sub[T.child[s][up]]
                    ELSE sub[y]]

\* What a rotation turns: up, below n on the other side than s, and the subtrees below both.
Turn(T, n, s, up, low, mid, out) ==
    /\ up = T.child[Opposite(s)][n] /\ up # NULL
    /\ low = T.child[s][n] /\ mid = T.child[s][up] /\ out = T.child[Opposite(s)][up]

\* The five around a rotation are different, ...
LEMMA RotationNames ==
    ASSUME KeysOrdered, NEW T, NEW N, NEW sub, Shape(T, N, sub), NEW n \in N, NEW s \in Side,
           NEW up, NEW low, NEW mid, NEW out, Turn(T, n, s, up, low, mid, out)
    PROVE  /\ up \in N /\ mid \in N \cup {NULL} /\ low \in N \cup {NULL} /\ out \in N \cup {NULL}
           /\ n # up /\ T.parent[up] = n /\ up # T.root
           /\ mid # n /\ mid # up /\ low # n /\ low # up /\ out # n /\ out # up
           /\ mid # NULL => T.parent[mid] = up
           /\ sub[n] = {n} \cup sub[low] \cup sub[up]
           /\ sub[up] = {up} \cup sub[mid] \cup sub[out]
           /\ up \notin sub[low] /\ up \notin sub[mid] /\ up \notin sub[out]
           /\ n \notin sub[low] /\ n \notin sub[mid] /\ n \notin sub[out]
           /\ SideFor(up, n) = Opposite(s) /\ SideFor(n, up) = s
<1> DEFINE o == Opposite(s)
<1>1. o \in Side /\ Opposite(o) = s /\ s # o
  BY Opposites
<1>2. up = T.child[o][n] /\ up # NULL
  BY DEF Turn
<1>3. low = T.child[s][n]
  BY DEF Turn
<1>4. mid = T.child[s][up]
  BY DEF Turn
<1>5. out = T.child[o][up]
  BY DEF Turn
<1> HIDE DEF o
<1>6. up \in N /\ T.parent[up] = n /\ up # n /\ up # T.root /\ n \notin sub[up] /\ SideFor(up, n) = o
  BY <1>1, <1>2, ChildSays
<1>7. low \in N \cup {NULL} /\ low # n /\ n \notin sub[low] /\ (low # NULL => SideFor(low, n) = s)
      /\ \A m \in sub[low] : SideFor(m, n) = s
  BY <1>3, ChildSays
<1>8. /\ mid \in N \cup {NULL} /\ mid # up /\ up \notin sub[mid] /\ sub[mid] \subseteq sub[up]
      /\ mid # NULL => T.parent[mid] = up /\ mid \in sub[mid]
  BY <1>4, <1>6, ChildSays
<1>9. /\ out \in N \cup {NULL} /\ out # up /\ up \notin sub[out] /\ sub[out] \subseteq sub[up]
      /\ out # NULL => out \in sub[out]
  BY <1>1, <1>5, <1>6, ChildSays
<1>10. sub[n] = {n} \cup sub[low] \cup sub[up]
  <2>1. sub[n] = {n} \cup sub[up] \cup sub[T.child[Opposite(o)][n]]
    BY <1>1, <1>2, ChildSays
  <2> QED
    BY <2>1, <1>1, <1>3
<1>11. sub[up] = {up} \cup sub[mid] \cup sub[out]
  <2>1. sub[up] = {up} \cup sub[out] \cup sub[T.child[Opposite(o)][up]]
    BY <1>1, <1>5, <1>6, ChildSays
  <2> QED
    BY <2>1, <1>1, <1>4
<1>12. SideFor(n, up) = s
  <2>1. n \in Key /\ up \in Key
    BY <1>6, ShapeSays
  <2>2. SideFor(up, n) = Opposite(SideFor(n, up)) /\ SideFor(n, up) \in Side
    BY <1>6, <2>1, SideFlips
  <2> QED
    BY <1>1, <1>6, <2>2, Opposites
<1>13. NULL \notin N
  BY ShapeSays
<1>14. mid # n /\ out # n /\ low # up /\ up \notin sub[low] /\ n \notin sub[mid] /\ n \notin sub[out]
  BY <1>1, <1>6, <1>7, <1>8, <1>9, <1>13
<1> QED
  BY <1>6, <1>7, <1>8, <1>9, <1>10, <1>11, <1>12, <1>14 DEF o

\* ... and so is the parent of the upper one.
LEMMA RotationParent ==
    ASSUME KeysOrdered, NEW T, NEW N, NEW sub, Shape(T, N, sub), NEW n \in N, NEW s \in Side,
           NEW up, NEW low, NEW mid, NEW out, Turn(T, n, s, up, low, mid, out)
    PROVE  LET p == T.parent[n] IN
           /\ p # NULL => /\ p \in N /\ p # n /\ p # up /\ n # T.root
                          /\ T.child[SideFor(n, p)][p] = n /\ SideOf(T, n, p) = SideFor(n, p)
           /\ p = NULL => n = T.root
<1> DEFINE p == T.parent[n]
<1>1. /\ p # NULL => /\ p \in N /\ p # n /\ n # T.root
                     /\ T.child[SideFor(n, p)][p] = n /\ SideOf(T, n, p) = SideFor(n, p)
                     /\ p \notin sub[n]
      /\ p = NULL => n = T.root
  BY ShapeSaysAbove
<1> HIDE DEF p
<1>2. up \in sub[n]
  <2>1. up \in N /\ sub[n] = {n} \cup sub[low] \cup sub[up]
    BY RotationNames
  <2> QED
    BY <2>1, ShapeSays
<1> QED
  BY <1>1, <1>2 DEF p

\* A rotation keeps the shape: the order and the links both ways.
LEMMA RotatedShape ==
    ASSUME KeysOrdered, NEW T, NEW N, NEW sub, Shape(T, N, sub), NEW n \in N, NEW s \in Side,
           T.child[Opposite(s)][n] # NULL
    PROVE  Shape(Rotate(T, n, s), N, RotatedSub(T, sub, n, s))
<1> DEFINE o == Opposite(s)
           up == T.child[o][n]
           mid == T.child[s][up]
           p == T.parent[n]
           low == T.child[s][n]
           out == T.child[o][up]
           e == SideOf(T, n, p)
           U == Rotate(T, n, s)
           W == RotatedSub(T, sub, n, s)
<1>0. o \in Side /\ Opposite(o) = s /\ s # o /\ \A d \in Side : d = s \/ d = o
  BY Opposites
<1>1. /\ T \in Trees /\ N \subseteq Key /\ NULL \notin N /\ sub \in [Link -> SUBSET Key]
      /\ sub[NULL] = {} /\ sub[T.root] = N /\ IsFiniteSet(N)
  BY ShapeSays
<1>2. /\ up \in N /\ mid \in N \cup {NULL} /\ low \in N \cup {NULL} /\ out \in N \cup {NULL}
      /\ n # up /\ T.parent[up] = n /\ up # T.root
      /\ mid # n /\ mid # up /\ low # n /\ low # up /\ out # n /\ out # up
      /\ mid # NULL => T.parent[mid] = up
      /\ sub[n] = {n} \cup sub[low] \cup sub[up]
      /\ sub[up] = {up} \cup sub[mid] \cup sub[out]
      /\ up \notin sub[low] /\ up \notin sub[mid] /\ up \notin sub[out]
      /\ n \notin sub[low] /\ n \notin sub[mid] /\ n \notin sub[out]
      /\ SideFor(up, n) = o /\ SideFor(n, up) = s
      /\ p # NULL => /\ p \in N /\ p # n /\ p # up /\ n # T.root
                     /\ T.child[SideFor(n, p)][p] = n /\ e = SideFor(n, p)
      /\ p = NULL => n = T.root
  <2>1. Turn(T, n, s, up, low, mid, out)
    BY DEF Turn
  <2> HIDE DEF up, low, mid, out
  <2>2. /\ p # NULL => /\ p \in N /\ p # n /\ p # up /\ n # T.root
                       /\ T.child[SideFor(n, p)][p] = n /\ e = SideFor(n, p)
        /\ p = NULL => n = T.root
    BY <2>1, RotationParent
  <2> HIDE DEF p, e
  <2> QED
    BY <2>1, <2>2, RotationNames
<1>3. /\ U \in Trees
      /\ U.root = IF p = NULL THEN up ELSE T.root
      /\ \A y \in Key : \A d \in Side :
            U.child[d][y] = IF y = up /\ d = s THEN n
                            ELSE IF y = n /\ d = o THEN mid
                            ELSE IF y = p /\ d = e THEN up
                            ELSE T.child[d][y]
      /\ \A y \in Key :
            U.parent[y] = IF y = n THEN up ELSE IF y = up THEN p
                          ELSE IF y = mid THEN n ELSE T.parent[y]
  BY <1>1, Rotated
<1>4. /\ W \in [Link -> SUBSET Key]
      /\ W[up] = sub[n] /\ W[n] = {n} \cup sub[low] \cup sub[mid]
      /\ \A y \in Link : y # up /\ y # n => W[y] = sub[y]
  <2>1. W = [y \in Link |-> IF y = up THEN sub[n]
                            ELSE IF y = n THEN {n} \cup sub[low] \cup sub[mid] ELSE sub[y]]
    BY DEF RotatedSub
  <2> HIDE DEF W, up, low, mid
  <2> QED
    BY <2>1, <1>1, <1>2 DEF Link
<1>5. \A y \in N, d \in Side : T.child[d][y] \in N \cup {NULL} /\ T.child[d][y] # y
        /\ (T.child[d][y] # NULL => T.parent[T.child[d][y]] = y /\ T.child[d][y] # T.root)
  BY <1>1, ShapeSays
<1>6. \A y \in Key : /\ T.parent[y] \in N \cup {NULL}
                     /\ \A d \in Side : T.child[d][y] \in N \cup {NULL}
  BY DEF Shape
<1>7. \A y \in N : y \in sub[y] /\ sub[y] \subseteq N
  BY ShapeSays
<1>8. \A y \in N, d \in Side :
        /\ sub[y] = {y} \cup sub[T.child[d][y]] \cup sub[T.child[Opposite(d)][y]]
        /\ \A m \in sub[T.child[d][y]] : m # y /\ SideFor(m, y) = d
  BY ShapeSays
<1>9. p # NULL => e \in Side
  BY SideOfSide
<1> HIDE DEF up, mid, p, low, out, e, U, W, o
<1>10. W[NULL] = {} /\ W[U.root] = N
  <2>1. NULL \in Link /\ T.root \in Link /\ NULL # up /\ NULL # n
    BY <1>1, <1>2 DEF Trees, Link
  <2>2. CASE p = NULL
    BY <2>1, <2>2, <1>1, <1>2, <1>3, <1>4
  <2>3. CASE p # NULL
    BY <2>1, <2>3, <1>1, <1>2, <1>3, <1>4
  <2> QED
    BY <2>1, <2>2, <2>3, <1>1, <1>4
<1>11. U.root # NULL => U.root \in N /\ U.parent[U.root] = NULL
  <2>1. CASE p = NULL
    BY <2>1, <1>1, <1>2, <1>3
  <2>2. CASE p # NULL
    <3>1. U.root = T.root /\ T.root # n /\ T.root # up
      BY <2>2, <1>2, <1>3
    <3>2. T.root # NULL => T.root \in N /\ T.parent[T.root] = NULL
      BY ShapeSaysAbove
    <3>3. mid # NULL => T.parent[mid] # NULL
      BY <1>1, <1>2
    <3> QED
      BY <1>1, <1>2, <1>3, <3>1, <3>2, <3>3
  <2> QED
    BY <2>1, <2>2
<1>12. \A y \in Key : /\ U.parent[y] \in N \cup {NULL}
                      /\ \A d \in Side : U.child[d][y] \in N \cup {NULL}
  BY <1>2, <1>3, <1>6
\* How the nodes are linked now.
<1>13. \A y \in N, d \in Side :
          U.child[d][y] # NULL => U.parent[U.child[d][y]] = y
  <2> SUFFICES ASSUME NEW y \in N, NEW d \in Side, U.child[d][y] # NULL
               PROVE  U.parent[U.child[d][y]] = y
    OBVIOUS
  <2>1. CASE y = up /\ d = s
    BY <2>1, <1>1, <1>2, <1>3
  <2>2. CASE y = n /\ d = o
    BY <2>2, <1>1, <1>2, <1>3
  <2>3. CASE y = p /\ d = e
    BY <2>3, <1>1, <1>2, <1>3
  <2>4. CASE ~(y = up /\ d = s) /\ ~(y = n /\ d = o) /\ ~(y = p /\ d = e)
    <3>1. U.child[d][y] = T.child[d][y] /\ T.child[d][y] \in N /\ T.parent[T.child[d][y]] = y
      BY <2>4, <1>1, <1>3, <1>5
    <3>2. T.child[d][y] # n
      <4> SUFFICES ASSUME T.child[d][y] = n PROVE FALSE
        OBVIOUS
      <4>1. y = p /\ p # NULL
        BY <3>1, <1>1 DEF p
      <4>2. d # e
        BY <4>1, <2>4
      <4>3. SideFor(n, p) = d
        BY <4>1, <1>7, <1>8
      <4> QED
        BY <4>1, <4>2, <4>3, <1>2
    <3>3. T.child[d][y] # up
      <4> SUFFICES ASSUME T.child[d][y] = up PROVE FALSE
        OBVIOUS
      <4>1. y = n /\ d # o
        BY <3>1, <1>2, <2>4
      <4>2. SideFor(up, n) = d
        BY <4>1, <1>2, <1>7, <1>8
      <4> QED
        BY <4>1, <4>2, <1>2
    <3>4. T.child[d][y] # mid
      <4> SUFFICES ASSUME T.child[d][y] = mid PROVE FALSE
        OBVIOUS
      <4>1. y = up /\ d # s /\ mid \in N
        BY <3>1, <1>1, <1>2, <2>4
      <4>2. SideFor(mid, up) = d
        BY <4>1, <1>7, <1>8
      <4>3. SideFor(mid, up) = s
        BY <4>1, <1>7, <1>8 DEF mid
      <4> QED
        BY <4>1, <4>2, <4>3
    <3> QED
      BY <1>1, <1>3, <3>1, <3>2, <3>3, <3>4
  <2> QED
    BY <2>1, <2>2, <2>3, <2>4
\* and what is below them.
<1>14. \A y \in N, d \in Side : ~(y = n) /\ ~(y = up) => W[U.child[d][y]] = sub[T.child[d][y]]
  <2> SUFFICES ASSUME NEW y \in N, NEW d \in Side, y # n, y # up
               PROVE  W[U.child[d][y]] = sub[T.child[d][y]]
    OBVIOUS
  <2>1. CASE y = p /\ d = e
    <3>1. U.child[d][y] = up
      BY <2>1, <1>1, <1>3
    <3>2. T.child[d][y] = n
      BY <2>1, <1>1, <1>2
    <3> QED
      BY <3>1, <3>2, <1>1, <1>2, <1>4 DEF Link
  <2>2. CASE ~(y = p /\ d = e)
    <3>1. U.child[d][y] = T.child[d][y] /\ T.child[d][y] \in Link
      BY <2>2, <1>1, <1>3, <1>5 DEF Link
    <3>2. T.child[d][y] # n
      <4> SUFFICES ASSUME T.child[d][y] = n PROVE FALSE
        OBVIOUS
      <4>1. y = p /\ p # NULL
        BY <1>1, <1>5 DEF p
      <4>2. SideFor(n, p) = d
        BY <4>1, <1>7, <1>8
      <4> QED
        BY <4>1, <4>2, <1>2, <2>2
    <3>3. T.child[d][y] # up
      BY <1>1, <1>2, <1>5
    <3> QED
      BY <3>1, <3>2, <3>3, <1>4
  <2> QED
    BY <2>1, <2>2
<1>15. ASSUME NEW y \in N PROVE Placed(U, N, W, y)
  <2>1. /\ W[y] = {y} \cup W[U.child["left"][y]] \cup W[U.child["right"][y]]
        /\ W[y] \subseteq N
        /\ \A d \in Side : \A m \in W[U.child[d][y]] : m # y /\ SideFor(m, y) = d
    <3>1. CASE y = n
      <4>1. U.child[s][n] = low /\ U.child[o][n] = mid
        BY <1>0, <1>1, <1>2, <1>3 DEF low
      <4>2. W[low] = sub[low] /\ W[mid] = sub[mid]
        BY <1>1, <1>2, <1>4 DEF Link
      <4>3. W[n] = {n} \cup W[U.child["left"][n]] \cup W[U.child["right"][n]]
        BY <4>1, <4>2, <1>0, <1>4 DEF Side
      <4>4. W[n] \subseteq N
        BY <1>2, <1>4, <1>7
      <4>5. \A m \in W[U.child[s][n]] : m # n /\ SideFor(m, n) = s
        BY <4>1, <4>2, <1>8 DEF low
      <4>6. \A m \in W[U.child[o][n]] : m # n /\ SideFor(m, n) = o
        <5>1. \A m \in sub[up] : m # n /\ SideFor(m, n) = o
          BY <1>0, <1>8 DEF up
        <5> QED
          BY <4>1, <4>2, <5>1, <1>2
      <4> QED
        BY <3>1, <4>3, <4>4, <4>5, <4>6, <1>0
    <3>2. CASE y = up
      <4>1. U.child[s][up] = n /\ U.child[o][up] = out
        BY <1>0, <1>1, <1>2, <1>3 DEF out
      <4>2. W[out] = sub[out]
        BY <1>1, <1>2, <1>4 DEF Link
      <4>3. W[up] = {up} \cup W[U.child["left"][up]] \cup W[U.child["right"][up]]
        <5>1. W[up] = {up} \cup W[n] \cup W[out]
          BY <4>2, <1>2, <1>4
        <5> QED
          BY <4>1, <5>1, <1>0 DEF Side
      <4>4. W[up] \subseteq N
        BY <1>4, <1>7
      <4>5. ASSUME NEW m \in W[U.child[s][up]] PROVE m # up /\ SideFor(m, up) = s
        <5>1. m = n \/ m \in sub[low] \/ m \in sub[mid]
          BY <4>1, <1>4
        <5>2. CASE m = n
          BY <5>2, <1>2
        <5>3. CASE m \in sub[mid]
          BY <5>3, <1>2, <1>8 DEF mid
        <5>4. CASE m \in sub[low]
          <6>1. m \in Key /\ n \in Key /\ up \in Key
            BY <5>4, <1>1, <1>2, <1>7
          <6>2. SideFor(m, n) = s /\ m # n
            BY <5>4, <1>8 DEF low
          <6> QED
            BY <6>1, <6>2, <1>2, SideTransits
        <5> QED
          BY <5>1, <5>2, <5>3, <5>4
      <4>6. \A m \in W[U.child[o][up]] : m # up /\ SideFor(m, up) = o
        BY <4>1, <4>2, <1>0, <1>2, <1>8 DEF out
      <4> QED
        BY <3>2, <4>3, <4>4, <4>5, <4>6, <1>0
    <3>3. CASE y # n /\ y # up
      <4>1. W[y] = sub[y] /\ \A d \in Side : W[U.child[d][y]] = sub[T.child[d][y]]
        BY <3>3, <1>1, <1>4, <1>14 DEF Link
      <4>2. sub[y] = {y} \cup sub[T.child["left"][y]] \cup sub[T.child["right"][y]]
        BY <1>8 DEF Side, Opposite
      <4> QED
        BY <4>1, <4>2, <1>7, <1>8, SMTT(60) DEF Side
    <3> QED
      BY <3>1, <3>2, <3>3
  <2>2. y # U.root => U.parent[y] \in N /\ U.child[SideFor(y, U.parent[y])][U.parent[y]] = y
    <3> SUFFICES ASSUME y # U.root
                 PROVE  U.parent[y] \in N /\ U.child[SideFor(y, U.parent[y])][U.parent[y]] = y
      OBVIOUS
    <3>1. CASE y = n
      BY <3>1, <1>1, <1>2, <1>3
    <3>2. CASE y = up
      <4>1. p # NULL /\ p \in N /\ e = SideFor(n, p) /\ p # n /\ p # up
        BY <3>2, <1>2, <1>3
      <4>2. SideFor(up, p) = e
        <5>1. up \in sub[T.child[e][p]]
          BY <4>1, <1>2, <1>7
        <5> QED
          BY <5>1, <4>1, <1>8, <1>9
      <4> QED
        BY <3>2, <4>1, <4>2, <1>1, <1>2, <1>3, <1>9
    <3>3. CASE y = mid
      <4>1. SideFor(mid, n) = o
        <5>1. mid \in sub[up]
          BY <3>3, <1>2, <1>7
        <5> QED
          BY <5>1, <1>0, <1>8 DEF up
      <4> QED
        BY <3>3, <4>1, <1>0, <1>1, <1>2, <1>3
    <3>4. CASE y # n /\ y # up /\ y # mid
      <4> DEFINE q == T.parent[y]
                 d == SideFor(y, q)
      <4>1. y # T.root
        BY <3>4, <1>2, <1>3
      <4>2. q \in N /\ T.child[d][q] = y /\ U.parent[y] = q
        BY <3>4, <4>1, <1>1, <1>3, ShapeSaysAbove
      <4>3. d \in Side
        BY DEF SideFor, Side
      <4>4. ~(q = up /\ d = s) /\ ~(q = n /\ d = o)
        BY <3>4, <4>2 DEF up, mid
      <4>5. ~(q = p /\ d = e)
        BY <3>4, <4>2, <1>1, <1>2
      <4> HIDE DEF q, d
      <4>6. U.child[d][q] = T.child[d][q]
        BY <4>2, <4>3, <4>4, <4>5, <1>1, <1>3
      <4> QED
        BY <4>2, <4>6 DEF d, q
    <3> QED
      BY <3>1, <3>2, <3>3, <3>4
  <2> QED
    BY <2>1, <2>2, <1>13 DEF Placed
<1> QED
  BY <1>1, <1>3, <1>4, <1>10, <1>11, <1>12, <1>15 DEF Shape, U, W

\* The shape is the root's, the children's and the parents'.
LEMMA SameShape ==
    ASSUME NEW T, NEW N, NEW sub, Shape(T, N, sub), NEW U \in Trees,
           U.root = T.root, U.child = T.child, U.parent = T.parent
    PROVE  Shape(U, N, sub)
<1>1. \A n \in N : Placed(U, N, sub, n)
  BY DEF Shape, Placed
<1> QED
  BY <1>1 DEF Shape

\* What painting a node writes.
LEMMA Painted ==
    ASSUME NEW T \in Trees, NEW n \in Link, NEW red \in BOOLEAN
    PROVE  LET U == Paint(T, n, red) IN
           /\ U \in Trees /\ U.root = T.root /\ U.child = T.child /\ U.parent = T.parent
           /\ \A m \in Key : (U.red[m] <=> IF m = n THEN red ELSE T.red[m])
<1> DEFINE V == Put(T.red, n, red)
<1>1. V \in [Key -> BOOLEAN] /\ \A m \in Key : V[m] = IF m = n THEN red ELSE T.red[m]
  BY DEF Put, Trees
<1>2. Paint(T, n, red) = [T EXCEPT !.red = V]
  BY DEF Paint, Trees
<1> HIDE DEF V
<1> QED
  BY <1>1, <1>2 DEF Trees

\* A tree in other colours has the same shape.
LEMMA PaintedShape ==
    ASSUME NEW T, NEW N, NEW sub, Shape(T, N, sub), NEW n \in Link, NEW red \in BOOLEAN
    PROVE  Shape(Paint(T, n, red), N, sub)
<1>1. T \in Trees
  BY DEF Shape
<1> QED
  BY <1>1, Painted, SameShape

\* The search for a key from a node leads to it if it is below.
LEMMA FindIs ==
    ASSUME KeysOrdered, NEW T, NEW N, NEW sub, Shape(T, N, sub),
           NEW k \in Key, NEW r \in N \cup {NULL}
    PROVE  Find(T, k, r) = IF k \in sub[r] THEN k ELSE NULL
<1> DEFINE c(n) == T.child[SideFor(k, n)][n]
           W == [n \in Link |-> IF n = NULL THEN NULL
                                ELSE IF KeyCmp[<<k, n>>] = 0 THEN n
                                ELSE IF k \in sub[c(n)] THEN k ELSE NULL]
           After(f) == [n \in Link |-> IF n = NULL THEN NULL
                                       ELSE IF KeyCmp[<<k, n>>] = 0 THEN n ELSE f[c(n)]]
           f == CHOOSE f : f = After(f)
<1>1. \A n \in Key : SideFor(k, n) \in Side /\ c(n) \in N \cup {NULL}
  <2>1. \A n \in Key : SideFor(k, n) \in Side
    BY DEF SideFor, Side
  <2> QED
    BY <2>1 DEF Shape
<1>2. \A n \in Key : KeyCmp[<<k, n>>] = 0 <=> k = n
  BY DEF KeysOrdered
<1>3. N \subseteq Key /\ NULL \notin N /\ sub[NULL] = {} /\ \A n \in N : n \in sub[n]
  BY ShapeSays
<1>4. \A n \in N : k # n => (k \in sub[n] <=> k \in sub[c(n)])
  <2> SUFFICES ASSUME NEW n \in N, k # n PROVE k \in sub[n] <=> k \in sub[c(n)]
    OBVIOUS
  <2> DEFINE s == SideFor(k, n)
  <2>1. s \in Side
    BY <1>1, <1>3
  <2> HIDE DEF s
  <2>2. /\ sub[n] = {n} \cup sub[T.child[s][n]] \cup sub[T.child[Opposite(s)][n]]
        /\ \A m \in sub[T.child[Opposite(s)][n]] : SideFor(m, n) = Opposite(s)
    BY <2>1, ShapeSays, Opposites
  <2>3. k \notin sub[T.child[Opposite(s)][n]]
    BY <2>1, <2>2, Opposites DEF s
  <2> QED
    BY <2>2, <2>3 DEF s
<1> HIDE DEF c
<1>5. \A n \in N \cup {NULL} : W[n] = IF k \in sub[n] THEN k ELSE NULL
  BY <1>2, <1>3, <1>4 DEF Link
<1>6. W = After(W)
  <2>1. \A n \in Link : W[n] = After(W)[n]
    BY <1>1, <1>5 DEF Link
  <2>2. W = [n \in Link |-> W[n]] /\ After(W) = [n \in Link |-> After(W)[n]]
    OBVIOUS
  <2> HIDE DEF W, After
  <2> QED
    BY <2>1, <2>2
<1>7. f = After(f)
  <2> HIDE DEF W, After
  <2> QED
    BY <1>6
<1>8. Find(T, k, r) = f[r]
  BY DEF Find, c
<1> HIDE DEF f
<1>9. N \subseteq {n \in Link : f[n] = W[n]}
  <2> DEFINE P == {n \in Link : f[n] = W[n]}
  <2>1. NULL \in P
    BY <1>7 DEF Link
  <2>2. ASSUME NEW n \in N, \A s \in Side : T.child[s][n] \in P PROVE n \in P
    <3>1. n \in Link /\ n # NULL /\ n \in Key
      BY <1>3 DEF Link
    <3>2. c(n) \in P
      BY <1>1, <2>2, <3>1, ZenonT(60) DEF c
    <3>3. f[n] = IF KeyCmp[<<k, n>>] = 0 THEN n ELSE f[c(n)]
      BY <1>7, <3>1
    <3>4. W[n] = IF KeyCmp[<<k, n>>] = 0 THEN n ELSE W[c(n)]
      BY <1>6, <3>1
    <3> QED
      BY <3>1, <3>2, <3>3, <3>4
  <2> HIDE DEF P
  <2>3. N \subseteq P
    BY <2>1, <2>2, FromTheLeaves
  <2> QED
    BY <2>3 DEF P
<1>10. f[NULL] = W[NULL]
  BY <1>7 DEF Link
<1> HIDE DEF W
<1>11. f[r] = W[r]
  BY <1>9, <1>10
<1> QED
  BY <1>5, <1>8, <1>11

\* The traversal from a node visits what is below it.
LEMMA SubtreeIs ==
    ASSUME NEW T, NEW N, NEW sub, Shape(T, N, sub), NEW r \in N \cup {NULL}
    PROVE  Subtree(T, r) = sub[r]
<1> DEFINE W == [n \in Link |-> IF n \in N \cup {NULL} THEN sub[n]
                                ELSE {n} \cup sub[T.child["left"][n]] \cup sub[T.child["right"][n]]]
           After(f) == [n \in Link |-> IF n = NULL THEN {}
                                       ELSE {n} \cup f[T.child["left"][n]] \cup f[T.child["right"][n]]]
           f == CHOOSE f : f = After(f)
<1>1. \A n \in Key : \A s \in Side : T.child[s][n] \in N \cup {NULL}
  BY DEF Shape
<1>2. N \subseteq Key /\ NULL \notin N /\ sub[NULL] = {}
  BY ShapeSays
<1>3. \A n \in N : sub[n] = {n} \cup sub[T.child["left"][n]] \cup sub[T.child["right"][n]]
  BY DEF Shape, Placed
<1>4. W = After(W)
  <2>1. ASSUME NEW n \in Link PROVE W[n] = After(W)[n]
    <3>1. CASE n = NULL
      BY <3>1, <1>2
    <3>2. CASE n # NULL
      <4>1. T.child["left"][n] \in N \cup {NULL} /\ T.child["right"][n] \in N \cup {NULL}
        BY <3>2, <1>1 DEF Link, Side
      <4>2. /\ W[T.child["left"][n]] = sub[T.child["left"][n]]
            /\ W[T.child["right"][n]] = sub[T.child["right"][n]]
        BY <4>1, <1>2, ZenonT(60) DEF Link
      <4>3. After(W)[n] = {n} \cup sub[T.child["left"][n]] \cup sub[T.child["right"][n]]
        BY <3>2, <4>2, ZenonT(60)
      <4> QED
        BY <3>2, <4>3, <1>3, ZenonT(60)
    <3> QED
      BY <3>1, <3>2, ZenonT(60)
  <2>2. W = [n \in Link |-> W[n]] /\ After(W) = [n \in Link |-> After(W)[n]]
    BY ZenonT(60)
  <2> HIDE DEF W, After
  <2> QED
    BY <2>1, <2>2
<1>5. f = After(f)
  <2> HIDE DEF W, After
  <2> QED
    BY <1>4
<1>6. Subtree(T, r) = f[r]
  BY DEF Subtree
<1> HIDE DEF f
<1>7. f[NULL] = {}
  BY <1>5 DEF Link
<1>8. N \subseteq {n \in Link : f[n] = sub[n]}
  <2> DEFINE P == {n \in Link : f[n] = sub[n]}
  <2>1. NULL \in P
    BY <1>2, <1>7 DEF Link
  <2>2. ASSUME NEW n \in N, \A s \in Side : T.child[s][n] \in P PROVE n \in P
    <3>1. n \in Link /\ n # NULL
      BY <1>2 DEF Link
    <3>2. f[n] = {n} \cup f[T.child["left"][n]] \cup f[T.child["right"][n]]
      BY <1>5, <3>1, ZenonT(60)
    <3>3. /\ f[T.child["left"][n]] = sub[T.child["left"][n]]
          /\ f[T.child["right"][n]] = sub[T.child["right"][n]]
      BY <2>2 DEF Side
    <3> QED
      BY <3>1, <3>2, <3>3, <1>3
  <2> HIDE DEF P
  <2>3. N \subseteq P
    BY <2>1, <2>2, FromTheLeaves
  <2> QED
    BY <2>3 DEF P
<1> QED
  BY <1>2, <1>6, <1>7, <1>8

\* A tree's nodes.
LEMMA NodesAre ==
    ASSUME NEW T, NEW N, NEW sub, Shape(T, N, sub)
    PROVE  Nodes(T) = N
<1>1. T.root \in N \cup {NULL} /\ sub[T.root] = N
  BY DEF Shape
<1> QED
  BY <1>1, SubtreeIs DEF Nodes

\* The node with nothing on its left that is reached from m.
Leftest(T, sub, m, x) ==
    /\ x \in sub[m] /\ T.child["left"][x] = NULL
    /\ \A y \in sub[m] : y # x => SideFor(y, x) = "right"

\* From every node the way left ends somewhere.
LEMMA LeftestExists ==
    ASSUME KeysOrdered, NEW T, NEW N, NEW sub, Shape(T, N, sub)
    PROVE  \A m \in N : /\ \E x \in N : Leftest(T, sub, m, x)
                        /\ T.child["left"][m] # NULL =>
                            \A x \in N : Leftest(T, sub, T.child["left"][m], x) => Leftest(T, sub, m, x)
<1>1. N \subseteq Key /\ NULL \notin N /\ sub[NULL] = {} /\ \A n \in N : n \in sub[n] /\ sub[n] \subseteq N
  BY ShapeSays
<1>2. ASSUME NEW m \in N, T.child["left"][m] # NULL, NEW x \in N,
             Leftest(T, sub, T.child["left"][m], x)
      PROVE  Leftest(T, sub, m, x)
  <2> DEFINE c == T.child["left"][m]
             d == T.child["right"][m]
  <2>1. sub[m] = {m} \cup sub[c] \cup sub[d] /\ m \notin sub[c]
        /\ (\A y \in sub[c] : SideFor(y, m) = "left") /\ (\A y \in sub[d] : SideFor(y, m) = "right")
    BY ShapeSays DEF Side, Opposite
  <2>2. x \in sub[c] /\ x # m /\ x \in Key /\ m \in Key
    BY <1>1, <1>2, <2>1 DEF Leftest
  <2>3. SideFor(m, x) = "right"
    BY <2>1, <2>2, SideFlips DEF Opposite, Side
  <2>4. ASSUME NEW y \in sub[m], y # x PROVE SideFor(y, x) = "right"
    <3>1. CASE y \in sub[c]
      BY <3>1, <1>2, <2>4 DEF Leftest
    <3>2. CASE y = m
      BY <3>2, <2>3
    <3>3. CASE y \in sub[d]
      <4>1. y \in Key /\ y # m
        <5>1. m \notin sub[d]
          BY ShapeSays DEF Side
        <5> QED
          BY <1>1, <3>3, <5>1, <2>1
      <4>2. SideFor(y, m) = "right"
        BY <3>3, <2>1
      <4> QED
        BY <2>2, <2>3, <4>1, <4>2, SideTransits DEF Side
    <3> QED
      BY <2>1, <3>1, <3>2, <3>3
  <2> QED
    BY <1>2, <2>1, <2>4 DEF Leftest
<1>3. N \subseteq {m \in Link : m = NULL \/ \E x \in N : Leftest(T, sub, m, x)}
  <2> DEFINE P == {m \in Link : m = NULL \/ \E x \in N : Leftest(T, sub, m, x)}
  <2>1. NULL \in P
    BY DEF Link
  <2>2. ASSUME NEW m \in N, \A s \in Side : T.child[s][m] \in P PROVE m \in P
    <3>1. m \in Link
      BY <1>1 DEF Link
    <3>2. CASE T.child["left"][m] = NULL
      <4>1. /\ sub[m] = {m} \cup sub[T.child["left"][m]] \cup sub[T.child["right"][m]]
            /\ \A y \in sub[T.child["right"][m]] : SideFor(y, m) = "right"
        BY ShapeSays DEF Side, Opposite
      <4>2. Leftest(T, sub, m, m)
        BY <3>2, <4>1, <1>1 DEF Leftest
      <4> QED
        BY <3>1, <4>2
    <3>3. CASE T.child["left"][m] # NULL
      <4>1. PICK x \in N : Leftest(T, sub, T.child["left"][m], x)
        BY <2>2, <3>3 DEF Side
      <4> QED
        BY <3>1, <3>3, <4>1, <1>2
    <3> QED
      BY <3>2, <3>3
  <2> HIDE DEF P
  <2>3. N \subseteq P
    BY <2>1, <2>2, FromTheLeaves
  <2> QED
    BY <2>3 DEF P
<1> QED
  BY <1>1, <1>2, <1>3

\* It ends in one place.
LEMMA LeftestUnique ==
    ASSUME KeysOrdered, NEW T, NEW N, NEW sub, Shape(T, N, sub),
           NEW m \in N, NEW x \in N, NEW y \in N, Leftest(T, sub, m, x), Leftest(T, sub, m, y)
    PROVE  x = y
<1>1. x \in Key /\ y \in Key
  BY ShapeSays
<1> QED
  BY <1>1, SideFlips DEF Leftest, Opposite, Side

\* Leftmost finds that node, the least of the subtree.
LEMMA LeftmostIs ==
    ASSUME KeysOrdered, NEW T, NEW N, NEW sub, Shape(T, N, sub), NEW r \in N
    PROVE  Leftest(T, sub, r, Leftmost(T, r))
<1> DEFINE w(m) == CHOOSE x \in N : Leftest(T, sub, m, x)
           c(m) == T.child["left"][m]
           W == [m \in Key |-> IF m \in N THEN w(m) ELSE IF c(m) = NULL THEN m ELSE w(c(m))]
           After(f) == [m \in Key |-> IF c(m) = NULL THEN m ELSE f[c(m)]]
           f == CHOOSE f : f = After(f)
<1>1. N \subseteq Key /\ NULL \notin N /\ \A n \in N : n \in sub[n]
  BY ShapeSays
<1>2. \A m \in Key : c(m) \in N \cup {NULL}
  BY DEF Shape, Side
<1>3. \A m \in N : w(m) \in N /\ Leftest(T, sub, m, w(m))
  BY LeftestExists
<1>4. \A m \in N : c(m) # NULL => w(m) = w(c(m))
  <2> SUFFICES ASSUME NEW m \in N, c(m) # NULL PROVE w(m) = w(c(m))
    OBVIOUS
  <2>1. c(m) \in N
    BY <1>1, <1>2
  <2>2. Leftest(T, sub, m, w(c(m))) /\ w(c(m)) \in N
    BY <1>3, <2>1, LeftestExists
  <2> HIDE DEF w
  <2> QED
    BY <1>3, <2>2, LeftestUnique
<1>5. \A m \in N : c(m) = NULL => w(m) = m
  <2> SUFFICES ASSUME NEW m \in N, c(m) = NULL PROVE w(m) = m
    OBVIOUS
  <2>1. /\ sub[m] = {m} \cup sub[T.child["left"][m]] \cup sub[T.child["right"][m]]
        /\ \A y \in sub[T.child["right"][m]] : SideFor(y, m) = "right"
        /\ sub[NULL] = {}
    BY ShapeSays DEF Side, Opposite
  <2>2. Leftest(T, sub, m, m)
    BY <2>1, <1>1 DEF Leftest
  <2> HIDE DEF w
  <2> QED
    BY <1>3, <2>2, LeftestUnique
<1> HIDE DEF w, c
<1>6. W = After(W)
  <2>1. \A m \in Key : W[m] = After(W)[m]
    BY <1>1, <1>2, <1>4, <1>5
  <2>2. W = [m \in Key |-> W[m]] /\ After(W) = [m \in Key |-> After(W)[m]]
    OBVIOUS
  <2> HIDE DEF W, After
  <2> QED
    BY <2>1, <2>2
<1>7. f = After(f)
  <2> HIDE DEF W, After
  <2> QED
    BY <1>6
<1>8. Leftmost(T, r) = f[r]
  BY DEF Leftmost, c
<1> HIDE DEF f
<1>9. N \subseteq {m \in Link : m = NULL \/ f[m] = w(m)}
  <2> DEFINE P == {m \in Link : m = NULL \/ f[m] = w(m)}
  <2>1. NULL \in P
    BY DEF Link
  <2>2. ASSUME NEW m \in N, \A s \in Side : T.child[s][m] \in P PROVE m \in P
    <3>1. m \in Link /\ m \in Key
      BY <1>1 DEF Link
    <3>2. f[m] = IF c(m) = NULL THEN m ELSE f[c(m)]
      BY <1>7, <3>1
    <3>3. c(m) \in P
      BY <2>2 DEF c, Side
    <3> QED
      BY <3>1, <3>2, <3>3, <1>4, <1>5
  <2> HIDE DEF P
  <2>3. N \subseteq P
    BY <2>1, <2>2, FromTheLeaves
  <2> QED
    BY <2>3 DEF P
<1> QED
  BY <1>1, <1>3, <1>8, <1>9

\* What is below a node below n is below n.
LEMMA Nested ==
    ASSUME NEW T, NEW N, NEW sub, Shape(T, N, sub), NEW n \in N, NEW m \in sub[n]
    PROVE  /\ sub[m] \subseteq sub[n]
           /\ m # n => n \notin sub[m] /\ T.parent[m] \in sub[n]
<1> DEFINE Fine(y, x) == /\ sub[x] \subseteq sub[y]
                         /\ x # y => y \notin sub[x] /\ T.parent[x] \in sub[y]
           P == {y \in Link : \A x \in sub[y] : Fine(y, x)}
<1>1. N \subseteq Key /\ sub[NULL] = {} /\ \A y \in N : y \in sub[y]
  BY ShapeSays
<1>2. NULL \in P
  BY <1>1 DEF Link
<1>3. ASSUME NEW y \in N, \A s \in Side : T.child[s][y] \in P PROVE y \in P
  <2>1. y \in Link
    BY <1>1 DEF Link
  <2>2. ASSUME NEW x \in sub[y] PROVE Fine(y, x)
    <3>1. CASE x = y
      BY <3>1
    <3>2. CASE x # y
      <4>1. PICK s \in Side : x \in sub[T.child[s][y]]
        <5>1. sub[y] = {y} \cup sub[T.child["left"][y]] \cup sub[T.child["right"][y]]
          BY ShapeSays DEF Side, Opposite
        <5> QED
          BY <3>2, <5>1 DEF Side
      <4> DEFINE c == T.child[s][y]
      <4>2. Fine(c, x)
        BY <1>3, <4>1
      <4>3. c \in N /\ T.parent[c] = y /\ sub[c] \subseteq sub[y] /\ y \notin sub[c]
        <5>1. c # NULL
          BY <1>1, <4>1
        <5> QED
          BY <5>1, ShapeSays
      <4>4. x = c => T.parent[x] \in sub[y]
        BY <1>1, <4>3
      <4> HIDE DEF c
      <4> QED
        BY <4>2, <4>3, <4>4
    <3> QED
      BY <3>1, <3>2
  <2> QED
    BY <2>1, <2>2
<1> HIDE DEF P
<1>4. N \subseteq P
  BY <1>2, <1>3, FromTheLeaves
<1> QED
  BY <1>4 DEF P

\* Where the key k, which is not in the tree, has its place below n: at a free link of q,
\* on the side of the nodes above that q is on.
Belongs(T, sub, k, n, q) ==
    /\ q \in sub[n] /\ T.child[SideFor(k, q)][q] = NULL
    /\ \A y \in sub[n] : q \in sub[y] /\ y # q => SideFor(k, y) = SideFor(q, y)

\* Where a key belongs in the whole tree, it belongs in every subtree on its way.
LEMMA BelongsAbove ==
    ASSUME NEW T, NEW N, NEW sub, Shape(T, N, sub), NEW k \in Key, NEW n \in N
    PROVE  LET c == T.child[SideFor(k, n)][n] IN
           /\ c = NULL => Belongs(T, sub, k, n, n)
           /\ c # NULL => \A q : Belongs(T, sub, k, c, q) => Belongs(T, sub, k, n, q)
           /\ \A q : Belongs(T, sub, k, n, q) /\ q # n => c # NULL /\ Belongs(T, sub, k, c, q)
           /\ Belongs(T, sub, k, n, n) => c = NULL
<1> DEFINE s == SideFor(k, n)
           c == T.child[s][n]
           d == T.child[Opposite(s)][n]
<1>1. s \in Side /\ Opposite(s) \in Side /\ s # Opposite(s) /\ Opposite(Opposite(s)) = s
  <2>1. s \in Side
    BY DEF SideFor, Side
  <2> QED
    BY <2>1, Opposites
<1>2. N \subseteq Key /\ sub[NULL] = {} /\ n \in sub[n] /\ c \in N \cup {NULL}
  BY <1>1, ShapeSays
<1>3. /\ sub[n] = {n} \cup sub[c] \cup sub[d]
      /\ \A m \in sub[c] : SideFor(m, n) = s
      /\ \A m \in sub[d] : SideFor(m, n) = Opposite(s)
      /\ n \notin sub[c] /\ n \notin sub[d]
  BY <1>1, ShapeSays
<1>4. \A y \in sub[n] : sub[y] \subseteq sub[n] /\ (y # n => n \notin sub[y])
  BY Nested
<1>5. ASSUME c = NULL PROVE Belongs(T, sub, k, n, n)
  BY <1>2, <1>4, <1>5 DEF Belongs
<1>6. ASSUME c # NULL, NEW q, Belongs(T, sub, k, c, q) PROVE Belongs(T, sub, k, n, q)
  <2>1. q \in sub[c] /\ q \in sub[n]
    BY <1>3, <1>6 DEF Belongs
  <2>2. ASSUME NEW y \in sub[n], q \in sub[y], y # q PROVE SideFor(k, y) = SideFor(q, y)
    <3>1. CASE y = n
      BY <3>1, <2>1, <1>3
    <3>2. CASE y \in sub[c]
      BY <3>2, <2>2, <1>6 DEF Belongs
    <3>3. CASE y \in sub[d]
      <4>1. d \in N
        BY <3>3, <1>1, <1>2, ShapeSays
      <4>2. q \in sub[d]
        BY <3>3, <4>1, <2>2, Nested
      <4> QED
        BY <4>2, <2>1, <1>1, <1>3
    <3> QED
      BY <1>3, <3>1, <3>2, <3>3
  <2> QED
    BY <1>6, <2>1, <2>2 DEF Belongs
<1>7. ASSUME NEW q, Belongs(T, sub, k, n, q), q # n PROVE c # NULL /\ Belongs(T, sub, k, c, q)
  <2>1. SideFor(q, n) = s /\ q \in sub[n]
    BY <1>2, <1>7 DEF Belongs
  <2>2. q \in sub[c]
    BY <1>1, <1>3, <1>7, <2>1
  <2> QED
    BY <1>2, <1>3, <1>7, <2>2 DEF Belongs
<1>8. Belongs(T, sub, k, n, n) => c = NULL
  BY DEF Belongs
<1> QED
  BY <1>5, <1>6, <1>7, <1>8

\* There is one such place.
LEMMA BelongsOnce ==
    ASSUME NEW T, NEW N, NEW sub, Shape(T, N, sub), NEW k \in Key
    PROVE  \A n \in N : \E q : /\ Belongs(T, sub, k, n, q)
                               /\ \A r : Belongs(T, sub, k, n, r) => r = q
<1> DEFINE P == {n \in Link : n = NULL \/ \E q : /\ Belongs(T, sub, k, n, q)
                                                 /\ \A r : Belongs(T, sub, k, n, r) => r = q}
<1>1. N \subseteq Key /\ NULL \notin N
  BY ShapeSays
<1>2. NULL \in P
  BY DEF Link
<1>3. ASSUME NEW n \in N, \A s \in Side : T.child[s][n] \in P PROVE n \in P
  <2> DEFINE c == T.child[SideFor(k, n)][n]
  <2>1. c \in P
    BY <1>3 DEF SideFor, Side
  <2>2. n \in Link
    BY <1>1 DEF Link
  <2>3. CASE c = NULL
    <3>1. Belongs(T, sub, k, n, n) /\ \A r : Belongs(T, sub, k, n, r) => r = n
      BY <2>3, BelongsAbove
    <3> QED
      BY <2>2, <3>1
  <2>4. CASE c # NULL
    <3>1. PICK q : Belongs(T, sub, k, c, q) /\ \A r : Belongs(T, sub, k, c, r) => r = q
      BY <2>1, <2>4
    <3>2. Belongs(T, sub, k, n, q)
      BY <2>4, <3>1, BelongsAbove
    <3>3. ASSUME NEW r, Belongs(T, sub, k, n, r) PROVE r = q
      <4>1. r # n
        BY <2>4, <3>3, BelongsAbove
      <4> QED
        BY <3>1, <3>3, <4>1, BelongsAbove
    <3> QED
      BY <2>2, <3>2, <3>3
  <2> QED
    BY <2>3, <2>4
<1> HIDE DEF P
<1>4. N \subseteq P
  BY <1>2, <1>3, FromTheLeaves
<1> QED
  BY <1>1, <1>4 DEF P

\* LinkParent finds it: a node with a free link on the side of the key, or an empty tree.
LEMMA LinkParentIs ==
    ASSUME NEW T, NEW N, NEW sub, Shape(T, N, sub), NEW k \in Key
    PROVE  IF T.root = NULL THEN LinkParent(T, k) = NULL
                            ELSE Belongs(T, sub, k, T.root, LinkParent(T, k))
<1> DEFINE c(n) == T.child[SideFor(k, n)][n]
           w(n) == CHOOSE q : Belongs(T, sub, k, n, q)
           W == [n \in Link |-> IF n \in N THEN w(n)
                                ELSE IF n = NULL \/ c(n) = NULL THEN n ELSE w(c(n))]
           After(f) == [n \in Link |-> IF n = NULL \/ c(n) = NULL THEN n ELSE f[c(n)]]
           f == CHOOSE f : f = After(f)
<1>1. N \subseteq Key /\ NULL \notin N
  BY ShapeSays
<1>2. \A n \in Key : c(n) \in N \cup {NULL}
  <2>1. \A n \in Key : SideFor(k, n) \in Side
    BY DEF SideFor, Side
  <2> QED
    BY <2>1 DEF Shape
<1>3. \A n \in N : Belongs(T, sub, k, n, w(n)) /\ \A r : Belongs(T, sub, k, n, r) => r = w(n)
  BY BelongsOnce
<1> HIDE DEF w
<1>4. \A n \in N : w(n) = IF c(n) = NULL THEN n ELSE w(c(n))
  <2> SUFFICES ASSUME NEW n \in N PROVE w(n) = IF c(n) = NULL THEN n ELSE w(c(n))
    OBVIOUS
  <2>1. CASE c(n) = NULL
    BY <2>1, <1>3, BelongsAbove
  <2>2. CASE c(n) # NULL
    <3>1. c(n) \in N
      BY <1>1, <1>2, <2>2
    <3>2. Belongs(T, sub, k, n, w(c(n)))
      BY <2>2, <3>1, <1>3, BelongsAbove
    <3> QED
      BY <2>2, <3>2, <1>3
  <2> QED
    BY <2>1, <2>2
<1> HIDE DEF c
<1>5. W = After(W)
  <2>1. \A n \in Link : W[n] = After(W)[n]
    BY <1>1, <1>2, <1>4 DEF Link
  <2>2. W = [n \in Link |-> W[n]] /\ After(W) = [n \in Link |-> After(W)[n]]
    OBVIOUS
  <2> HIDE DEF W, After
  <2> QED
    BY <2>1, <2>2
<1>6. f = After(f)
  <2> HIDE DEF W, After
  <2> QED
    BY <1>5
<1>7. LinkParent(T, k) = f[T.root]
  BY DEF LinkParent, c
<1> HIDE DEF f
<1>8. N \subseteq {n \in Link : n = NULL \/ f[n] = w(n)}
  <2> DEFINE P == {n \in Link : n = NULL \/ f[n] = w(n)}
  <2>1. NULL \in P
    BY DEF Link
  <2>2. ASSUME NEW n \in N, \A s \in Side : T.child[s][n] \in P PROVE n \in P
    <3>1. n \in Link /\ n # NULL
      BY <1>1 DEF Link
    <3>2. f[n] = IF c(n) = NULL THEN n ELSE f[c(n)]
      BY <1>6, <3>1
    <3>3. c(n) \in P
      BY <2>2 DEF c, SideFor, Side
    <3> QED
      BY <3>1, <3>2, <3>3, <1>4
  <2> HIDE DEF P
  <2>3. N \subseteq P
    BY <2>1, <2>2, FromTheLeaves
  <2> QED
    BY <2>3 DEF P
<1>9. CASE T.root # NULL
  <2>1. T.root \in N
    BY <1>9 DEF Shape
  <2> QED
    BY <1>1, <1>3, <1>7, <1>8, <1>9, <2>1
<1>10. CASE T.root = NULL
  BY <1>6, <1>7, <1>10 DEF Link
<1> QED
  BY <1>9, <1>10

(***************************************************************************)
(* The pointer stores of insertion and removal.                            *)
(***************************************************************************)

\* What linking a node writes.
LEMMA LinkWrites ==
    ASSUME NEW T \in Trees, NEW n \in Key, NEW p \in Link
    PROVE  LET U == rb_link_node(T, n, p) IN
           /\ U \in Trees
           /\ U.root = IF p = NULL THEN n ELSE T.root
           /\ \A y \in Key : /\ U.parent[y] = IF y = n THEN p ELSE T.parent[y]
                             /\ U.red[y] <=> (y = n \/ T.red[y])
           /\ \A y \in Key : \A d \in Side :
                 U.child[d][y] = IF y = n THEN NULL
                                 ELSE IF y = p /\ d = SideFor(n, p) THEN n ELSE T.child[d][y]
<1> DEFINE e == SideFor(n, p)
           R == IF p = NULL THEN [T EXCEPT !.root = n] ELSE [T EXCEPT !.child[e][p] = n]
           U == [R EXCEPT !.parent[n] = p, !.red[n] = TRUE,
                          !.child["left"][n] = NULL, !.child["right"][n] = NULL]
<1>1. e \in Side /\ n \in Link /\ NULL \in Link /\ NULL \notin Key
  BY RBTreeAssumption DEF SideFor, Side, Link
<1> HIDE DEF e
<1>2. /\ R \in Trees /\ R.red = T.red /\ R.parent = T.parent
      /\ R.root = IF p = NULL THEN n ELSE T.root
      /\ \A y \in Key : \A d \in Side :
            R.child[d][y] = IF y = p /\ d = e THEN n ELSE T.child[d][y]
  <2>1. CASE p = NULL
    BY <1>1, <2>1 DEF Trees
  <2>2. CASE p # NULL
    <3>1. p \in Key
      BY <2>2 DEF Link
    <3> QED
      BY <1>1, <2>2, <3>1 DEF Trees
  <2> QED
    BY <2>1, <2>2
<1> HIDE DEF R
<1>3. U \in Trees
  BY <1>1, <1>2, ZenonT(60) DEF Trees, Side
<1>4. \A y \in Key : \A d \in Side :
        U.child[d][y] = IF y = n THEN NULL ELSE R.child[d][y]
  BY <1>1, <1>2 DEF Trees, Side
<1>5. \A y \in Key : /\ U.parent[y] = IF y = n THEN p ELSE R.parent[y]
                     /\ U.red[y] <=> (y = n \/ R.red[y])
  BY <1>2 DEF Trees
<1>6. U.root = R.root
  BY <1>2 DEF Trees
<1>7. rb_link_node(T, n, p) = U
  BY DEF rb_link_node, R, e
<1> HIDE DEF U
<1>8. \A y \in Key : \A d \in Side :
        U.child[d][y] = IF y = n THEN NULL
                        ELSE IF y = p /\ d = SideFor(n, p) THEN n ELSE T.child[d][y]
  BY <1>2, <1>4 DEF e
<1>9. \A y \in Key : /\ U.parent[y] = IF y = n THEN p ELSE T.parent[y]
                     /\ U.red[y] <=> (y = n \/ T.red[y])
  BY <1>2, <1>5
<1>10. U.root = IF p = NULL THEN n ELSE T.root
  BY <1>2, <1>6
<1> QED
  BY <1>3, <1>7, <1>8, <1>9, <1>10

LinkedSub(sub, n, p) ==
    [y \in Link |-> IF y = n THEN {n} ELSE IF p \in sub[y] THEN sub[y] \cup {n} ELSE sub[y]]

\* A new leaf in its place keeps the shape.
LEMMA LinkedShape ==
    ASSUME KeysOrdered, NEW T, NEW N, NEW sub, Shape(T, N, sub), NEW n \in Key, n \notin N
    PROVE  LET p == LinkParent(T, n) IN
           /\ Shape(rb_link_node(T, n, p), N \cup {n}, LinkedSub(sub, n, p))
           /\ p = NULL => T.root = NULL
           /\ p # NULL => p \in N /\ T.child[SideFor(n, p)][p] = NULL
<1> DEFINE p == LinkParent(T, n)
           e == SideFor(n, p)
           U == rb_link_node(T, n, p)
           W == LinkedSub(sub, n, p)
           M == N \cup {n}
<1>1. /\ T \in Trees /\ N \subseteq Key /\ NULL \notin N /\ sub \in [Link -> SUBSET Key]
      /\ sub[NULL] = {} /\ sub[T.root] = N /\ IsFiniteSet(N)
      /\ \A y \in N : y \in sub[y] /\ sub[y] \subseteq N
      /\ NULL \notin Key /\ NULL \in Link /\ N \subseteq Link /\ Key \subseteq Link
  <2>1. NULL \notin Key /\ NULL \in Link /\ Key \subseteq Link
    BY RBTreeAssumption DEF Link
  <2>2. /\ T \in Trees /\ N \subseteq Key /\ NULL \notin N /\ sub \in [Link -> SUBSET Key]
        /\ sub[NULL] = {} /\ sub[T.root] = N /\ IsFiniteSet(N)
        /\ \A y \in N : y \in sub[y] /\ sub[y] \subseteq N
    BY ShapeSays
  <2> QED
    BY <2>1, <2>2
<1>2. IF T.root = NULL THEN p = NULL ELSE p \in N /\ Belongs(T, sub, n, T.root, p)
  <2>1. T.root # NULL => p \in sub[T.root]
    BY LinkParentIs DEF Belongs
  <2> QED
    BY <1>1, <2>1, LinkParentIs
<1>3. T.root # NULL => /\ p # NULL /\ p \in N /\ T.child[e][p] = NULL
                       /\ \A y \in N : p \in sub[y] /\ y # p => SideFor(n, y) = SideFor(p, y)
  BY <1>1, <1>2 DEF Belongs
<1>4. T.root = NULL => N = {} /\ p = NULL
  BY <1>1, <1>2
<1>5. e \in Side
  BY DEF SideFor, Side
<1>6. p \in Link
  BY <1>1, <1>3, <1>4
<1>7. /\ U \in Trees
      /\ U.root = IF p = NULL THEN n ELSE T.root
      /\ \A y \in Key : U.parent[y] = IF y = n THEN p ELSE T.parent[y]
      /\ \A y \in Key : \A d \in Side :
            U.child[d][y] = IF y = n THEN NULL ELSE IF y = p /\ d = e THEN n ELSE T.child[d][y]
  <2> HIDE DEF p
  <2>0. T \in Trees /\ n \in Key /\ p \in Link
    BY <1>1, <1>6
  <2>1. /\ U \in Trees
        /\ U.root = IF p = NULL THEN n ELSE T.root
        /\ \A y \in Key : /\ U.parent[y] = IF y = n THEN p ELSE T.parent[y]
                          /\ U.red[y] <=> (y = n \/ T.red[y])
        /\ \A y \in Key : \A d \in Side :
              U.child[d][y] = IF y = n THEN NULL ELSE IF y = p /\ d = SideFor(n, p) THEN n ELSE T.child[d][y]
    BY <2>0, LinkWrites
  <2> HIDE DEF U
  <2> QED
    BY <2>1
<1>8. /\ W \in [Link -> SUBSET Key] /\ W[n] = {n}
      /\ \A y \in Link : y # n => W[y] = IF p \in sub[y] THEN sub[y] \cup {n} ELSE sub[y]
  BY <1>1 DEF LinkedSub
<1>9. \A y \in Key : /\ T.parent[y] \in N \cup {NULL}
                     /\ \A d \in Side : T.child[d][y] \in N \cup {NULL}
  BY DEF Shape
<1>10. \A y \in N, d \in Side :
         /\ sub[y] = {y} \cup sub[T.child[d][y]] \cup sub[T.child[Opposite(d)][y]]
         /\ \A m \in sub[T.child[d][y]] : m # y /\ SideFor(m, y) = d
         /\ T.child[d][y] # NULL => T.parent[T.child[d][y]] = y
  BY ShapeSays
<1>11. /\ T.root # NULL => T.root \in N /\ T.parent[T.root] = NULL
       /\ \A y \in N : y # T.root => T.parent[y] \in N /\ T.child[SideFor(y, T.parent[y])][T.parent[y]] = y
  BY ShapeSaysAbove
<1>12. IsFiniteSet(M)
  BY <1>1, FS_AddElement
<1> HIDE DEF p, e, U, W
<1>13. W[NULL] = {} /\ W[U.root] = M
  <2>0. NULL # n /\ NULL \in Link
    BY <1>1
  <2>3. W[NULL] = {}
    <3>1. sub[NULL] = {} /\ p \notin sub[NULL]
      BY <1>1
    <3>2. W[NULL] = IF p \in sub[NULL] THEN sub[NULL] \cup {n} ELSE sub[NULL]
      BY <2>0, <1>8
    <3> QED
      BY <3>1, <3>2
  <2>1. CASE T.root = NULL
    <3>1. U.root = n /\ M = {n} /\ W[n] = {n}
      BY <2>1, <1>4, <1>7, <1>8
    <3> QED
      BY <2>3, <3>1
  <2>2. CASE T.root # NULL
    <3>1. U.root = T.root /\ T.root \in Link /\ T.root # n /\ p \in sub[T.root]
      BY <2>2, <1>1, <1>3, <1>7, <1>11
    <3> QED
      BY <2>3, <3>1, <1>1, <1>8
  <2> QED
    BY <2>1, <2>2
<1>14. U.root # NULL => U.root \in M /\ U.parent[U.root] = NULL
  BY <1>1, <1>3, <1>4, <1>7, <1>11
<1>15. \A y \in Key : /\ U.parent[y] \in M \cup {NULL}
                      /\ \A d \in Side : U.child[d][y] \in M \cup {NULL}
  BY <1>3, <1>4, <1>7, <1>9
<1>16. Placed(U, M, W, n)
  <2>1. \A d \in Side : U.child[d][n] = NULL
    BY <1>7
  <2>2. n # U.root => p \in N
    BY <1>3, <1>4, <1>7
  <2>3. U.parent[n] = p /\ (n # U.root => U.child[e][p] = n)
    BY <2>2, <1>1, <1>5, <1>7
  <2> QED
    BY <2>1, <2>2, <2>3, <1>8, <1>13 DEF Placed, Side, e
<1>17. ASSUME NEW y \in N PROVE Placed(U, M, W, y)
  <2>0. T.root # NULL /\ p \in N /\ T.child[e][p] = NULL /\ y # n /\ y \in Link /\ y \in Key /\ p # NULL
    BY <1>1, <1>3, <1>4
  <2>1. ASSUME NEW d \in Side
        PROVE  /\ U.child[d][y] # NULL => U.parent[U.child[d][y]] = y
               /\ \A m \in W[U.child[d][y]] : m # y /\ SideFor(m, y) = d
               /\ W[U.child[d][y]] = sub[T.child[d][y]]
                    \cup (IF p \in sub[y] /\ SideFor(n, y) = d THEN {n} ELSE {})
    <3>1. CASE y = p /\ d = e
      <4>1. U.child[d][y] = n /\ T.child[d][y] = NULL
        BY <3>1, <2>0, <1>5, <1>7
      <4>2. U.parent[n] = y /\ W[n] = {n} /\ n # y /\ SideFor(n, y) = d /\ p \in sub[y]
        BY <3>1, <2>0, <1>1, <1>7, <1>8 DEF e
      <4> QED
        BY <4>1, <4>2, <1>1
    <3>2. CASE ~(y = p /\ d = e)
      <4> DEFINE c == T.child[d][y]
      <4>1. U.child[d][y] = c /\ c \in N \cup {NULL} /\ c # n /\ c \in Link
        BY <3>2, <2>0, <1>1, <1>7, <1>9
      <4>2. c # NULL => U.parent[c] = y
        BY <4>1, <1>1, <1>7, <1>10
      <4>3. p \in sub[c] <=> p \in sub[y] /\ SideFor(n, y) = d
        <5>1. ASSUME p \in sub[c] PROVE p \in sub[y] /\ SideFor(n, y) = d
          <6>1. p \in sub[y] /\ p # y /\ SideFor(p, y) = d
            BY <5>1, <1>10
          <6> QED
            BY <6>1, <2>0, <1>3
        <5>2. ASSUME p \in sub[y], SideFor(n, y) = d PROVE p \in sub[c]
          <6>1. p # y
            BY <3>2, <5>2 DEF e
          <6>2. SideFor(p, y) = d
            BY <6>1, <5>2, <2>0, <1>3
          <6>3. p \notin sub[T.child[Opposite(d)][y]]
            BY <6>2, <1>10, Opposites
          <6> QED
            BY <6>1, <6>3, <5>2, <1>10
        <5> QED
          BY <5>1, <5>2
      <4>4. W[c] = IF p \in sub[c] THEN sub[c] \cup {n} ELSE sub[c]
        BY <4>1, <1>8
      <4>5. \A m \in sub[c] : m # y /\ SideFor(m, y) = d
        BY <1>10
      <4> HIDE DEF c
      <4> QED
        BY <4>1, <4>2, <4>3, <4>4, <4>5, <2>0 DEF c
    <3> QED
      BY <3>1, <3>2
  <2>2. W[y] = {y} \cup W[U.child["left"][y]] \cup W[U.child["right"][y]] /\ W[y] \subseteq M
    <3>1. SideFor(n, y) \in Side
      BY DEF SideFor, Side
    <3>2. W[y] = IF p \in sub[y] THEN sub[y] \cup {n} ELSE sub[y]
      BY <2>0, <1>8
    <3>3. sub[y] = {y} \cup sub[T.child["left"][y]] \cup sub[T.child["right"][y]]
      BY <1>10 DEF Side, Opposite
    <3>4. /\ W[U.child["left"][y]] = sub[T.child["left"][y]]
                \cup (IF p \in sub[y] /\ SideFor(n, y) = "left" THEN {n} ELSE {})
          /\ W[U.child["right"][y]] = sub[T.child["right"][y]]
                \cup (IF p \in sub[y] /\ SideFor(n, y) = "right" THEN {n} ELSE {})
      BY <2>1 DEF Side
    <3> QED
      BY <3>1, <3>2, <3>3, <3>4, <1>1, ZenonT(60) DEF Side
  <2>3. y # U.root => U.parent[y] \in M /\ U.child[SideFor(y, U.parent[y])][U.parent[y]] = y
    <3> DEFINE q == T.parent[y]
               d == SideFor(y, q)
    <3> SUFFICES ASSUME y # U.root
                 PROVE  U.parent[y] \in M /\ U.child[SideFor(y, U.parent[y])][U.parent[y]] = y
      OBVIOUS
    <3>1. y # T.root
      BY <2>0, <1>7
    <3>2. q \in N /\ T.child[d][q] = y /\ U.parent[y] = q /\ d \in Side
      BY <2>0, <3>1, <1>7, <1>11 DEF SideFor, Side
    <3> HIDE DEF q, d
    <3>3. ~(q = p /\ d = e)
      BY <2>0, <3>2, <1>1
    <3>4. U.child[d][q] = y
      BY <3>2, <3>3, <1>1, <1>7
    <3> QED
      BY <3>2, <3>4 DEF d
  <2> QED
    BY <2>1, <2>2, <2>3 DEF Placed
<1>18. Shape(U, M, W)
  BY <1>7, <1>8, <1>12, <1>13, <1>14, <1>15, <1>16, <1>17 DEF Shape
<1> QED
  BY <1>3, <1>4, <1>18 DEF U, W, p, e

\* Only the nodes of M have pointers.
Clean(T, M) == \A y \in Key \ M : T.parent[y] = NULL /\ \A d \in Side : T.child[d][y] = NULL

OnlyChild(T, n) == IF T.child["left"][n] = NULL THEN T.child["right"][n] ELSE T.child["left"][n]

\* What splicing out a node writes.
LEMMA SpliceWrites ==
    ASSUME NEW T \in Trees, NEW n \in Key
    PROVE  LET p == T.parent[n]
               x == OnlyChild(T, n)
               S == Splice(T, n)
               U == S.tree
           IN /\ S.node = x /\ S.parent = p /\ S.red = T.red[n]
              /\ U \in Trees /\ U.red = T.red
              /\ U.root = IF p = NULL THEN x ELSE T.root
              /\ \A y \in Key : U.parent[y] = IF y = x THEN p ELSE T.parent[y]
              /\ \A y \in Key : \A d \in Side :
                    U.child[d][y] = IF y = p /\ d = SideOf(T, n, p) THEN x ELSE T.child[d][y]
<1> DEFINE p == T.parent[n]
           x == OnlyChild(T, n)
           V == Put(T.parent, x, p)
           R == [T EXCEPT !.parent = V]
           e == SideOf(T, n, p)
           U == Relink(R, p, n, x)
           S == Splice(T, n)
<1>1. p \in Link /\ x \in Link /\ e \in Side
  BY SideOfSide DEF Trees, OnlyChild, Side
<1>2. S = [tree |-> U, node |-> x, parent |-> p, red |-> T.red[n]]
  BY DEF Splice, OnlyChild, Trees
<1> HIDE DEF x, p, S
<1>3. V \in [Key -> Link] /\ \A y \in Key : V[y] = IF y = x THEN p ELSE T.parent[y]
  BY <1>1 DEF Put, Trees
<1> HIDE DEF V
<1>4. R \in Trees /\ R.root = T.root /\ R.red = T.red /\ R.child = T.child /\ R.parent = V
  BY <1>3 DEF Trees
<1>5. SideOf(R, n, p) = e
  BY <1>4 DEF SideOf
<1> HIDE DEF R, e
<1>6. /\ U \in Trees /\ U.red = T.red /\ U.parent = V
      /\ U.root = IF p = NULL THEN x ELSE T.root
      /\ \A y \in Key : \A d \in Side :
            U.child[d][y] = IF y = p /\ d = e THEN x ELSE T.child[d][y]
  <2>1. CASE p = NULL
    BY <1>1, <1>4, <2>1, RBTreeAssumption DEF Relink, Trees, Link
  <2>2. CASE p # NULL
    <3>1. U = [R EXCEPT !.child[e][p] = x]
      BY <1>5, <2>2 DEF Relink
    <3>2. p \in Key
      BY <1>1, <2>2 DEF Link
    <3> HIDE DEF U
    <3> QED
      BY <1>1, <1>4, <2>2, <3>1, <3>2 DEF Trees
  <2> QED
    BY <2>1, <2>2
<1>7. S.tree = U /\ S.node = x /\ S.parent = p /\ S.red = T.red[n]
  BY <1>2
<1> HIDE DEF U
<1> QED
  BY <1>3, <1>6, <1>7 DEF x, p, S, e

SplicedSub(sub, n) == [y \in Link |-> sub[y] \ {n}]

\* A node with a free link is spliced out: the shape is kept without it.
LEMMA SplicedShape ==
    ASSUME KeysOrdered, NEW T, NEW N, NEW sub, Shape(T, N, sub), Clean(T, N), NEW n \in N,
           \E d \in Side : T.child[d][n] = NULL
    PROVE  LET U == Splice(T, n).tree IN
           /\ Shape(U, N \ {n}, SplicedSub(sub, n))
           /\ OnlyChild(T, n) \in (N \ {n}) \cup {NULL}
           /\ \A y \in N : U.parent[y] # n /\ \A d \in Side : U.child[d][y] # n
<1> DEFINE p == T.parent[n]
           x == OnlyChild(T, n)
           e == SideOf(T, n, p)
           U == Splice(T, n).tree
           W == SplicedSub(sub, n)
           M == N \ {n}
<1>1. /\ T \in Trees /\ N \subseteq Key /\ NULL \notin N /\ sub \in [Link -> SUBSET Key]
      /\ sub[NULL] = {} /\ sub[T.root] = N /\ IsFiniteSet(N)
  BY ShapeSays
<1>2. NULL \notin Key /\ NULL \in Link /\ Key \subseteq Link
  BY RBTreeAssumption DEF Link
<1>3. \A y \in N : y \in sub[y] /\ sub[y] \subseteq N
  BY ShapeSays
<1>4. \A y \in N, d \in Side :
         /\ sub[y] = {y} \cup sub[T.child[d][y]] \cup sub[T.child[Opposite(d)][y]]
         /\ T.child[d][y] \in N \cup {NULL}
         /\ \A m \in sub[T.child[d][y]] : m # y /\ SideFor(m, y) = d
         /\ T.child[d][y] # NULL => T.parent[T.child[d][y]] = y /\ T.child[d][y] # y
  BY ShapeSays
<1>5. PICK c \in Side : x = T.child[c][n] /\ T.child[Opposite(c)][n] = NULL
  BY DEF OnlyChild, Side, Opposite
<1>6. /\ x \in N \cup {NULL} /\ x # n /\ (x # NULL => T.parent[x] = n /\ x \in sub[x])
      /\ sub[n] = {n} \cup sub[x] /\ n \notin sub[x]
      /\ \A d \in Side : T.child[d][n] # NULL => T.child[d][n] = x
  BY <1>1, <1>2, <1>3, <1>4, <1>5, Opposites
<1>7. /\ p # NULL => /\ p \in N /\ p # n /\ n # T.root
                     /\ T.child[SideFor(n, p)][p] = n /\ e = SideFor(n, p)
                     /\ p \notin sub[n]
      /\ p = NULL => n = T.root
  BY ShapeSaysAbove
<1>8. /\ U \in Trees
      /\ U.root = IF p = NULL THEN x ELSE T.root
      /\ \A y \in Key : U.parent[y] = IF y = x THEN p ELSE T.parent[y]
      /\ \A y \in Key : \A d \in Side :
            U.child[d][y] = IF y = p /\ d = e THEN x ELSE T.child[d][y]
  BY <1>1, SpliceWrites
<1>9. e \in Side
  BY SideOfSide
<1>10. /\ W \in [Link -> SUBSET Key] /\ \A y \in Link : W[y] = sub[y] \ {n}
  BY <1>1 DEF SplicedSub
<1>11. IsFiniteSet(M)
  BY <1>1, FS_Subset
<1>12. \A y \in N : y # T.root => T.parent[y] \in N /\ T.child[SideFor(y, T.parent[y])][T.parent[y]] = y
  BY ShapeSaysAbove
<1>13. T.root # NULL /\ T.root \in N /\ T.parent[T.root] = NULL
  <2>1. T.root # NULL
    BY <1>1
  <2> QED
    BY <2>1, ShapeSaysAbove
<1> HIDE DEF p, x, e, U, W
<1>14. \A y \in N, d \in Side : T.child[d][y] = n => y = p /\ d = e
  <2> SUFFICES ASSUME NEW y \in N, NEW d \in Side, T.child[d][y] = n PROVE y = p /\ d = e
    OBVIOUS
  <2>1. y = p /\ p # NULL
    BY <1>1, <1>4 DEF p
  <2>2. SideFor(n, y) = d
    BY <1>3, <1>4
  <2> QED
    BY <2>1, <2>2, <1>7
<1>15. \A y \in M, d \in Side : /\ U.child[d][y] \in M \cup {NULL}
                                /\ W[U.child[d][y]] = sub[T.child[d][y]] \ {n}
                                /\ U.child[d][y] # NULL => U.parent[U.child[d][y]] = y
  <2> SUFFICES ASSUME NEW y \in M, NEW d \in Side
               PROVE  /\ U.child[d][y] \in M \cup {NULL}
                      /\ W[U.child[d][y]] = sub[T.child[d][y]] \ {n}
                      /\ U.child[d][y] # NULL => U.parent[U.child[d][y]] = y
    OBVIOUS
  <2>1. CASE y = p /\ d = e
    <3>1. U.child[d][y] = x /\ T.child[d][y] = n
      BY <2>1, <1>1, <1>7, <1>8
    <3>2. W[x] = sub[x] \ {n} /\ sub[n] \ {n} = sub[x] \ {n}
      BY <1>1, <1>2, <1>6, <1>10
    <3>3. x # NULL => U.parent[x] = y
      BY <2>1, <1>1, <1>6, <1>8
    <3> QED
      BY <3>1, <3>2, <3>3, <1>6
  <2>2. CASE ~(y = p /\ d = e)
    <3> DEFINE z == T.child[d][y]
    <3>1. U.child[d][y] = z /\ z \in N \cup {NULL} /\ z # n
      BY <2>2, <1>1, <1>4, <1>8, <1>14
    <3>2. z # NULL => z # x /\ T.parent[z] = y
      BY <1>4, <1>6
    <3>3. z # NULL => U.parent[z] = y
      BY <3>1, <3>2, <1>1, <1>8
    <3>4. W[z] = sub[z] \ {n}
      BY <3>1, <1>1, <1>2, <1>10
    <3> QED
      BY <3>1, <3>3, <3>4
  <2> QED
    BY <2>1, <2>2
<1>16. \A y \in N : U.parent[y] # n /\ U.parent[y] \in M \cup {NULL}
  <2> SUFFICES ASSUME NEW y \in N PROVE U.parent[y] # n /\ U.parent[y] \in M \cup {NULL}
    OBVIOUS
  <2>1. CASE y = x
    BY <2>1, <1>1, <1>7, <1>8
  <2>2. CASE y # x
    <3>1. U.parent[y] = T.parent[y]
      BY <2>2, <1>1, <1>8
    <3>2. CASE y = T.root
      BY <3>1, <3>2, <1>1, <1>13
    <3>3. CASE y # T.root
      <4>1. T.parent[y] # n
        <5>1. SideFor(y, T.parent[y]) \in Side
          BY DEF SideFor, Side
        <5> QED
          BY <2>2, <3>3, <5>1, <1>1, <1>6, <1>12
      <4> QED
        BY <3>1, <3>3, <4>1, <1>12
    <3> QED
      BY <3>2, <3>3
  <2> QED
    BY <2>1, <2>2
<1>17. \A d \in Side : U.child[d][n] \in M \cup {NULL}
  BY <1>1, <1>4, <1>7, <1>8
<1>18. \A y \in Key : /\ U.parent[y] \in M \cup {NULL}
                      /\ \A d \in Side : U.child[d][y] \in M \cup {NULL}
  <2> SUFFICES ASSUME NEW y \in Key, y \notin N
               PROVE  /\ U.parent[y] \in M \cup {NULL}
                      /\ \A d \in Side : U.child[d][y] \in M \cup {NULL}
    BY <1>15, <1>16, <1>17
  <2>1. y # x /\ y # p
    BY <1>2, <1>6, <1>7
  <2> QED
    BY <2>1, <1>8 DEF Clean
<1>19. W[NULL] = {} /\ W[U.root] = M
  <2>1. W[NULL] = {}
    BY <1>1, <1>2, <1>10
  <2>2. CASE p = NULL
    <3>1. U.root = x /\ x \in Link /\ N = {n} \cup sub[x]
      BY <2>2, <1>1, <1>2, <1>6, <1>7, <1>8
    <3> QED
      BY <2>1, <3>1, <1>10
  <2>3. CASE p # NULL
    <3>1. U.root = T.root /\ T.root \in Link
      BY <2>3, <1>1, <1>2, <1>8, <1>13
    <3> QED
      BY <2>1, <3>1, <1>1, <1>10
  <2> QED
    BY <2>2, <2>3
<1>20. U.root # NULL => U.root \in M /\ U.parent[U.root] = NULL
  <2>1. CASE p = NULL
    BY <2>1, <1>1, <1>6, <1>8
  <2>2. CASE p # NULL
    <3>1. U.root = T.root /\ T.root # n
      BY <2>2, <1>7, <1>8
    <3>2. T.root # x
      BY <1>13, <1>6, <1>1
    <3> QED
      BY <3>1, <3>2, <1>1, <1>8, <1>13
  <2> QED
    BY <2>1, <2>2
<1>21. ASSUME NEW y \in M PROVE Placed(U, M, W, y)
  <2>1. y \in N /\ y # n /\ y \in Link
    BY <1>1, <1>2
  <2>2. W[y] = {y} \cup W[U.child["left"][y]] \cup W[U.child["right"][y]] /\ W[y] \subseteq M
    <3>1. sub[y] = {y} \cup sub[T.child["left"][y]] \cup sub[T.child["right"][y]]
      BY <2>1, <1>4 DEF Side, Opposite
    <3>2. /\ W[U.child["left"][y]] = sub[T.child["left"][y]] \ {n}
          /\ W[U.child["right"][y]] = sub[T.child["right"][y]] \ {n}
      BY <1>15 DEF Side
    <3>3. W[y] = sub[y] \ {n}
      BY <2>1, <1>10
    <3> QED
      BY <2>1, <3>1, <3>2, <3>3, <1>3
  <2>3. \A d \in Side : \A m \in W[U.child[d][y]] : m # y /\ SideFor(m, y) = d
    BY <2>1, <1>4, <1>15
  <2>4. y # U.root => U.parent[y] \in M /\ U.child[SideFor(y, U.parent[y])][U.parent[y]] = y
    <3> SUFFICES ASSUME y # U.root
                 PROVE  U.parent[y] \in M /\ U.child[SideFor(y, U.parent[y])][U.parent[y]] = y
      OBVIOUS
    <3>1. CASE y = x
      <4>1. p # NULL /\ p \in N /\ p # n /\ T.child[e][p] = n /\ U.parent[y] = p
        BY <3>1, <2>1, <1>1, <1>7, <1>8
      <4>2. SideFor(x, p) = e
        <5>1. x \in sub[n]
          BY <3>1, <2>1, <1>1, <1>6
        <5> QED
          BY <4>1, <5>1, <1>4, <1>9
      <4> QED
        BY <3>1, <4>1, <4>2, <1>1, <1>8, <1>9
    <3>2. CASE y # x
      <4> DEFINE q == T.parent[y]
                 d == SideFor(y, q)
      <4>1. U.parent[y] = q
        BY <2>1, <3>2, <1>1, <1>8
      <4>2. y # T.root
        BY <2>1, <1>7, <1>8
      <4>3. q \in N /\ T.child[d][q] = y /\ d \in Side
        BY <2>1, <4>2, <1>12 DEF SideFor, Side
      <4> HIDE DEF q, d
      <4>4. q # n
        BY <2>1, <4>1, <1>16
      <4>5. ~(q = p /\ d = e)
        BY <2>1, <4>3, <1>7, <1>1
      <4>6. U.child[d][q] = y
        BY <4>3, <4>5, <1>1, <1>8
      <4> QED
        BY <4>1, <4>3, <4>4, <4>6 DEF d
    <3> QED
      BY <3>1, <3>2
  <2> QED
    BY <2>2, <2>3, <2>4, <1>15 DEF Placed
<1>22. Shape(U, M, W)
  BY <1>8, <1>10, <1>11, <1>18, <1>19, <1>20, <1>21 DEF Shape
<1>23. \A y \in N : \A d \in Side : U.child[d][y] # n
  BY <1>1, <1>18, <1>2
<1> QED
  BY <1>6, <1>16, <1>22, <1>23 DEF U, W, x

\* V is U with n in the place of old.
Replaces(V, U, old, n) ==
    LET q == U.parent[old] IN
    /\ V \in Trees
    /\ V.root = IF q = NULL THEN n ELSE U.root
    /\ \A y \in Key : V.parent[y] = IF \E d \in Side : U.child[d][old] = y THEN n
                                    ELSE IF y = n THEN q ELSE U.parent[y]
    /\ \A y \in Key : V.red[y] <=> IF y = n THEN U.red[old] ELSE U.red[y]
    /\ \A y \in Key : \A d \in Side :
          V.child[d][y] = IF y = n THEN U.child[d][old]
                          ELSE IF y = q /\ d = SideOf(U, old, q) THEN n ELSE U.child[d][y]

ReplacedSub(sub, old, n) ==
    [y \in Link |-> IF y = n THEN (sub[old] \ {old}) \cup {n}
                    ELSE IF old \in sub[y] THEN (sub[y] \ {old}) \cup {n} ELSE sub[y]]

\* A node that takes the place of another, with the same two subtrees below it.
LEMMA ReplacedShape ==
    ASSUME KeysOrdered, NEW U, NEW M, NEW sub, Shape(U, M, sub),
           NEW old \in M, NEW n \in Key, n \notin M, Clean(U, M \cup {n}),
           NEW V, Replaces(V, U, old, n),
           \A d \in Side : \A m \in sub[U.child[d][old]] : SideFor(m, n) = d,
           \A y \in M : y # old /\ old \in sub[y] => SideFor(n, y) = SideFor(old, y)
    PROVE  Shape(V, (M \ {old}) \cup {n}, ReplacedSub(sub, old, n))
<1> DEFINE q == U.parent[old]
           e == SideOf(U, old, q)
           W == ReplacedSub(sub, old, n)
           N == (M \ {old}) \cup {n}
<1>1. /\ U \in Trees /\ M \subseteq Key /\ NULL \notin M /\ sub \in [Link -> SUBSET Key]
      /\ sub[NULL] = {} /\ sub[U.root] = M /\ IsFiniteSet(M)
  BY ShapeSays
<1>2. NULL \notin Key /\ NULL \in Link /\ Key \subseteq Link
  BY RBTreeAssumption DEF Link
<1>3. \A y \in M : y \in sub[y] /\ sub[y] \subseteq M
  BY ShapeSays
<1>4. \A y \in M, d \in Side :
         /\ sub[y] = {y} \cup sub[U.child[d][y]] \cup sub[U.child[Opposite(d)][y]]
         /\ U.child[d][y] \in M \cup {NULL}
         /\ \A m \in sub[U.child[d][y]] : m # y /\ SideFor(m, y) = d
         /\ U.child[d][y] # NULL => U.parent[U.child[d][y]] = y /\ U.child[d][y] # y
                                    /\ U.child[d][y] # U.root
  BY ShapeSays
<1>5. /\ q # NULL => /\ q \in M /\ q # old /\ old # U.root
                     /\ U.child[SideFor(old, q)][q] = old /\ e = SideFor(old, q)
                     /\ q \notin sub[old]
      /\ q = NULL => old = U.root
  BY ShapeSaysAbove
<1>6. /\ V \in Trees
      /\ V.root = IF q = NULL THEN n ELSE U.root
      /\ \A y \in Key : V.parent[y] = IF \E d \in Side : U.child[d][old] = y THEN n
                                      ELSE IF y = n THEN q ELSE U.parent[y]
      /\ \A y \in Key : \A d \in Side :
            V.child[d][y] = IF y = n THEN U.child[d][old]
                            ELSE IF y = q /\ d = e THEN n ELSE U.child[d][y]
  BY DEF Replaces
<1>7. e \in Side
  BY SideOfSide
<1>8. /\ W \in [Link -> SUBSET Key] /\ W[n] = (sub[old] \ {old}) \cup {n}
      /\ \A y \in Link : y # n => W[y] = IF old \in sub[y] THEN (sub[y] \ {old}) \cup {n} ELSE sub[y]
  BY <1>1, <1>2 DEF ReplacedSub
<1>9. IsFiniteSet(N)
  BY <1>1, FS_Subset, FS_AddElement, ZenonT(60)
<1>10. \A y \in M : y # U.root => U.parent[y] \in M /\ U.child[SideFor(y, U.parent[y])][U.parent[y]] = y
  BY ShapeSaysAbove
<1>11. U.root # NULL /\ U.root \in M /\ U.parent[U.root] = NULL
  <2>1. U.root # NULL
    BY <1>1
  <2> QED
    BY <2>1, ShapeSaysAbove
<1>12. \A y \in Key : /\ U.parent[y] \in M \cup {NULL}
                      /\ \A d \in Side : U.child[d][y] \in M \cup {NULL}
  BY DEF Shape
<1> HIDE DEF q, e, W
<1>13. \A y \in M, d \in Side : U.child[d][y] = old => y = q /\ d = e
  <2> SUFFICES ASSUME NEW y \in M, NEW d \in Side, U.child[d][y] = old PROVE y = q /\ d = e
    OBVIOUS
  <2>1. y = q /\ q # NULL
    BY <1>1, <1>4 DEF q
  <2>2. SideFor(old, y) = d
    BY <1>3, <1>4
  <2> QED
    BY <2>1, <2>2, <1>5
<1>14. \A d \in Side : /\ V.child[d][n] = U.child[d][old] /\ V.child[d][n] \in (M \ {old}) \cup {NULL}
                       /\ V.child[d][n] # NULL => V.parent[V.child[d][n]] = n
                       /\ W[V.child[d][n]] = sub[U.child[d][old]]
  <2> SUFFICES ASSUME NEW d \in Side
               PROVE  LET z == U.child[d][old] IN
                      /\ V.child[d][n] = z /\ z \in (M \ {old}) \cup {NULL}
                      /\ z # NULL => V.parent[z] = n
                      /\ W[z] = sub[z]
    OBVIOUS
  <2> DEFINE z == U.child[d][old]
  <2>1. V.child[d][n] = z /\ z \in M \cup {NULL} /\ z # old
    BY <1>1, <1>4, <1>6
  <2>2. z # NULL => V.parent[z] = n
    BY <2>1, <1>1, <1>6
  <2>3. z \in Link /\ z # n /\ old \notin sub[z]
    BY <2>1, <1>1, <1>2, <1>4
  <2>4. W[z] = sub[z]
    BY <2>3, <1>8
  <2> QED
    BY <2>1, <2>2, <2>4
<1>15. V.parent[n] = q /\ q \in (M \ {old}) \cup {NULL}
  <2>1. ~ \E d \in Side : U.child[d][old] = n
    BY <1>2, <1>4
  <2> QED
    BY <2>1, <1>5, <1>6
<1>16. \A y \in M \ {old}, d \in Side :
          /\ V.child[d][y] \in N \cup {NULL}
          /\ V.child[d][y] # NULL => V.parent[V.child[d][y]] = y
          /\ W[V.child[d][y]] = IF old \in sub[U.child[d][y]] THEN (sub[U.child[d][y]] \ {old}) \cup {n}
                                                              ELSE sub[U.child[d][y]]
  <2> SUFFICES ASSUME NEW y \in M \ {old}, NEW d \in Side
               PROVE  /\ V.child[d][y] \in N \cup {NULL}
                      /\ V.child[d][y] # NULL => V.parent[V.child[d][y]] = y
                      /\ W[V.child[d][y]] = IF old \in sub[U.child[d][y]]
                                              THEN (sub[U.child[d][y]] \ {old}) \cup {n}
                                              ELSE sub[U.child[d][y]]
    OBVIOUS
  <2>0. y \in Key /\ y # n
    BY <1>1
  <2>1. CASE y = q /\ d = e
    <3>1. V.child[d][y] = n /\ U.child[d][y] = old
      BY <2>0, <2>1, <1>1, <1>5, <1>6
    <3>2. V.parent[n] = y
      BY <2>1, <1>15
    <3>3. old \in sub[old]
      BY <1>3
    <3> QED
      BY <3>1, <3>2, <3>3, <1>8
  <2>2. CASE ~(y = q /\ d = e)
    <3> DEFINE z == U.child[d][y]
    <3>1. V.child[d][y] = z /\ z \in M \cup {NULL} /\ z # old
      BY <2>0, <2>2, <1>4, <1>6, <1>13
    <3>2. z # NULL => z \in Key /\ U.parent[z] = y /\ z # n
      BY <3>1, <1>1, <1>4
    <3>3. z # NULL => V.parent[z] = y
      <4>1. z # NULL => ~ \E g \in Side : U.child[g][old] = z
        BY <3>2, <1>4
      <4> QED
        BY <3>2, <4>1, <1>6
    <3>4. z \in Link /\ z # n
      BY <3>1, <3>2, <1>2
    <3>5. W[z] = IF old \in sub[z] THEN (sub[z] \ {old}) \cup {n} ELSE sub[z]
      BY <3>4, <1>8
    <3> QED
      BY <3>1, <3>3, <3>5
  <2> QED
    BY <2>1, <2>2
<1>17. ASSUME NEW y \in M \ {old}
       PROVE  V.parent[y] = (IF U.parent[y] = old THEN n ELSE U.parent[y])
  <2>1. y \in Key /\ y # n
    BY <1>1
  <2>2. (\E d \in Side : U.child[d][old] = y) <=> U.parent[y] = old
    <3>1. ASSUME NEW d \in Side, U.child[d][old] = y PROVE U.parent[y] = old
      BY <3>1, <2>1, <1>2, <1>4
    <3>2. ASSUME U.parent[y] = old PROVE \E d \in Side : U.child[d][old] = y
      <4>1. y # U.root
        BY <3>2, <1>1, <1>11
      <4>2. U.child[SideFor(y, old)][old] = y /\ SideFor(y, old) \in Side
        BY <3>2, <4>1, <1>10 DEF SideFor, Side
      <4> QED
        BY <4>2
    <3> QED
      BY <3>1, <3>2
  <2> QED
    BY <2>1, <2>2, <1>6
<1>18. \A d \in Side : V.child[d][old] \in N \cup {NULL}
  BY <1>1, <1>4, <1>5, <1>6
<1>19. V.parent[old] \in N \cup {NULL}
  <2>1. ~ \E d \in Side : U.child[d][old] = old
    BY <1>1, <1>4
  <2>2. old \in Key /\ old # n
    BY <1>1
  <2>3. V.parent[old] = U.parent[old]
    BY <2>1, <2>2, <1>6
  <2> QED
    BY <2>3, <1>5 DEF q
<1>20. \A y \in Key : /\ V.parent[y] \in N \cup {NULL}
                      /\ \A d \in Side : V.child[d][y] \in N \cup {NULL}
  <2>1. ASSUME NEW y \in Key, y \notin M, y # n
        PROVE  /\ V.parent[y] \in N \cup {NULL}
               /\ \A d \in Side : V.child[d][y] \in N \cup {NULL}
    <3>1. ~ \E d \in Side : U.child[d][old] = y
      BY <2>1, <1>2, <1>4
    <3>2. y # q
      BY <2>1, <1>2, <1>5
    <3> QED
      BY <2>1, <3>1, <3>2, <1>6 DEF Clean
  <2>2. \A y \in M \ {old} : V.parent[y] \in N \cup {NULL}
    BY <1>1, <1>12, <1>17
  <2> QED
    BY <2>1, <2>2, <1>14, <1>16, <1>15, <1>18, <1>19
<1>21. W[NULL] = {} /\ W[V.root] = N
  <2>1. NULL # n /\ old \notin sub[NULL] /\ sub[NULL] = {}
    BY <1>1, <1>2
  <2>2. W[NULL] = {}
    BY <2>1, <1>2, <1>8
  <2>3. CASE q = NULL
    BY <2>2, <2>3, <1>1, <1>5, <1>6, <1>8
  <2>4. CASE q # NULL
    <3>1. V.root = U.root /\ U.root \in Link /\ U.root # n
      BY <2>4, <1>1, <1>2, <1>6, <1>11
    <3> QED
      BY <2>2, <3>1, <1>1, <1>8
  <2> QED
    BY <2>3, <2>4
<1>22. V.root # NULL => V.root \in N /\ V.parent[V.root] = NULL
  <2>1. CASE q = NULL
    BY <2>1, <1>6, <1>15
  <2>2. CASE q # NULL
    <3>1. V.root = U.root /\ U.root \in M \ {old}
      BY <2>2, <1>5, <1>6, <1>11
    <3>2. U.parent[U.root] # old
      BY <1>1, <1>11
    <3> QED
      BY <3>1, <3>2, <1>11, <1>17
  <2> QED
    BY <2>1, <2>2
<1>23. Placed(V, N, W, n)
  <2>1. sub[old] = {old} \cup sub[U.child["left"][old]] \cup sub[U.child["right"][old]]
        /\ old \notin sub[U.child["left"][old]] /\ old \notin sub[U.child["right"][old]]
    BY <1>4 DEF Side, Opposite
  <2>2. W[n] = {n} \cup W[V.child["left"][n]] \cup W[V.child["right"][n]]
    <3>1. /\ W[V.child["left"][n]] = sub[U.child["left"][old]]
          /\ W[V.child["right"][n]] = sub[U.child["right"][old]]
      BY <1>14 DEF Side
    <3> QED
      BY <2>1, <3>1, <1>8
  <2>3. W[n] \subseteq N
    BY <1>3, <1>8
  <2>4. \A d \in Side : \A m \in W[V.child[d][n]] : m # n /\ SideFor(m, n) = d
    <3> SUFFICES ASSUME NEW d \in Side, NEW m \in sub[U.child[d][old]]
                 PROVE  m # n /\ SideFor(m, n) = d
      BY <1>14
    <3>1. m \in M
      BY <1>3, <1>4
    <3> QED
      BY <3>1
  <2>5. n # V.root => V.parent[n] \in N /\ V.child[SideFor(n, V.parent[n])][V.parent[n]] = n
    <3> SUFFICES ASSUME n # V.root
                 PROVE  q \in N /\ V.child[SideFor(n, q)][q] = n
      BY <1>15
    <3>1. q # NULL /\ q \in M /\ q # old
      BY <1>5, <1>6
    <3>2. old \in sub[q]
      BY <3>1, <1>3, <1>4, <1>5, <1>7
    <3>3. SideFor(n, q) = e
      BY <3>1, <3>2, <1>5
    <3> QED
      BY <3>1, <3>3, <1>1, <1>6, <1>7
  <2> QED
    BY <2>2, <2>3, <2>4, <2>5, <1>14 DEF Placed
<1>24. ASSUME NEW y \in M \ {old} PROVE Placed(V, N, W, y)
  <2>0. y \in Key /\ y \in Link /\ y # n
    BY <1>1, <1>2
  <2>1. W[y] = IF old \in sub[y] THEN (sub[y] \ {old}) \cup {n} ELSE sub[y]
    BY <2>0, <1>8
  <2>2. W[y] = {y} \cup W[V.child["left"][y]] \cup W[V.child["right"][y]] /\ W[y] \subseteq N
    <3>1. sub[y] = {y} \cup sub[U.child["left"][y]] \cup sub[U.child["right"][y]]
      BY <1>4 DEF Side, Opposite
    <3>2. \A d \in Side :
            W[V.child[d][y]] = IF old \in sub[U.child[d][y]]
                                 THEN (sub[U.child[d][y]] \ {old}) \cup {n}
                                 ELSE sub[U.child[d][y]]
      BY <1>16
    <3>3. "left" \in Side /\ "right" \in Side
      BY DEF Side
    <3> HIDE DEF W
    <3>4. W[y] = {y} \cup W[V.child["left"][y]] \cup W[V.child["right"][y]]
      BY <2>1, <3>1, <3>2, <3>3, ZenonT(60)
    <3>5. W[y] \subseteq N
      BY <2>1, <1>3
    <3> QED
      BY <3>4, <3>5
  <2>3. ASSUME NEW d \in Side, NEW m \in W[V.child[d][y]] PROVE m # y /\ SideFor(m, y) = d
    <3>0. W[V.child[d][y]] = IF old \in sub[U.child[d][y]]
                               THEN (sub[U.child[d][y]] \ {old}) \cup {n}
                               ELSE sub[U.child[d][y]]
      BY <1>16
    <3>1. m \in sub[U.child[d][y]] \/ (m = n /\ old \in sub[U.child[d][y]])
      BY <2>3, <3>0
    <3>2. CASE m \in sub[U.child[d][y]]
      BY <3>2, <1>4
    <3>3. CASE m = n /\ old \in sub[U.child[d][y]]
      <4>1. old \in sub[y] /\ SideFor(old, y) = d
        BY <3>3, <1>4
      <4> QED
        BY <3>3, <4>1, <2>0
    <3> QED
      BY <3>1, <3>2, <3>3
  <2>4. y # V.root => V.parent[y] \in N /\ V.child[SideFor(y, V.parent[y])][V.parent[y]] = y
    <3> SUFFICES ASSUME y # V.root
                 PROVE  V.parent[y] \in N /\ V.child[SideFor(y, V.parent[y])][V.parent[y]] = y
      OBVIOUS
    <3> DEFINE r == U.parent[y]
               d == SideFor(y, r)
    <3>1. y # U.root
      BY <1>5, <1>6
    <3>2. r \in M /\ U.child[d][r] = y /\ d \in Side
      BY <3>1, <1>10 DEF SideFor, Side
    <3>3. V.parent[y] = IF r = old THEN n ELSE r
      BY <1>17
    <3> HIDE DEF r, d
    <3>4. CASE r = old
      <4>1. y \in sub[U.child[d][old]]
        BY <3>2, <3>4, <1>3
      <4>2. SideFor(y, n) = d
        BY <4>1, <3>2
      <4>3. V.child[d][n] = y
        BY <3>2, <3>4, <1>14
      <4> QED
        BY <3>3, <3>4, <4>2, <4>3
    <3>5. CASE r # old
      <4>1. ~(r = q /\ d = e)
        BY <3>2, <1>1, <1>5
      <4>2. V.child[d][r] = y
        BY <3>2, <4>1, <1>1, <1>6
      <4> QED
        BY <3>2, <3>3, <3>5, <4>2 DEF d
    <3> QED
      BY <3>4, <3>5
  <2> QED
    BY <2>2, <2>3, <2>4, <1>16 DEF Placed
<1>25. Shape(V, N, W)
  BY <1>6, <1>8, <1>9, <1>20, <1>21, <1>22, <1>23, <1>24, ZenonT(60) DEF Shape
<1> QED
  BY <1>25 DEF W

\* U with n in the place of old, as the code writes it.
InPlaceOf(U, old, n, q, red) ==
    LET T1 == [U EXCEPT !.parent[n] = q, !.red[n] = red,
                        !.child["left"][n] = U.child["left"][old],
                        !.child["right"][n] = U.child["right"][old]]
        T2 == Relink(T1, q, old, n)
    IN [T2 EXCEPT !.parent = Put(Put(@, T1.child["left"][n], n), T1.child["right"][n], n)]

\* What SpliceSuccessor writes after it has spliced out the successor.
LEMMA InPlaceWrites ==
    ASSUME NEW U \in Trees, NEW old \in Key, NEW n \in Key, old # n,
           U.parent[old] # n, NEW red \in BOOLEAN, red <=> U.red[old]
    PROVE  Replaces(InPlaceOf(U, old, n, U.parent[old], red), U, old, n)
<1> DEFINE q == U.parent[old]
           l == U.child["left"][old]
           r == U.child["right"][old]
           T1 == [U EXCEPT !.parent[n] = q, !.red[n] = red,
                           !.child["left"][n] = l, !.child["right"][n] = r]
           e == SideOf(U, old, q)
           T2 == Relink(T1, q, old, n)
           P == Put(Put(T2.parent, l, n), r, n)
           V == [T2 EXCEPT !.parent = P]
<1>1. /\ q \in Link /\ l \in Link /\ r \in Link /\ n \in Link /\ NULL \notin Key
      /\ "left" \in Side /\ "right" \in Side /\ Side = {"left", "right"}
  BY RBTreeAssumption DEF Trees, Link, Side
<1>2. e \in Side
  BY SideOfSide
<1> HIDE DEF q, l, r
<1>3. /\ T1 \in Trees /\ T1.root = U.root
      /\ \A y \in Key : T1.parent[y] = IF y = n THEN q ELSE U.parent[y]
      /\ \A y \in Key : T1.red[y] <=> IF y = n THEN red ELSE U.red[y]
      /\ T1.child["left"][n] = l /\ T1.child["right"][n] = r
      /\ \A y \in Key : y # n => \A d \in Side : T1.child[d][y] = U.child[d][y]
  <2>1. T1 \in Trees
    BY <1>1, ZenonT(60) DEF Trees
  <2>2. T1.root = U.root
    BY DEF Trees
  <2>3. \A y \in Key : T1.parent[y] = IF y = n THEN q ELSE U.parent[y]
    BY <1>1 DEF Trees
  <2>4. \A y \in Key : T1.red[y] <=> IF y = n THEN red ELSE U.red[y]
    BY <1>1 DEF Trees
  <2>5. T1.child["left"][n] = l /\ T1.child["right"][n] = r
    BY <1>1 DEF Trees
  <2>6. \A y \in Key : y # n => \A d \in Side : T1.child[d][y] = U.child[d][y]
    BY <1>1 DEF Trees
  <2> QED
    BY <2>1, <2>2, <2>3, <2>4, <2>5, <2>6
<1> HIDE DEF T1
<1>4. q # NULL => SideOf(T1, old, q) = e
  <2>1. q # NULL => q \in Key /\ q # n
    BY <1>1 DEF Link, q
  <2> QED
    BY <2>1, <1>1, <1>3 DEF SideOf, e
<1> HIDE DEF e
<1>5. /\ T2 \in Trees /\ T2.parent = T1.parent /\ T2.red = T1.red
      /\ T2.root = IF q = NULL THEN n ELSE T1.root
      /\ \A y \in Key : \A d \in Side :
            T2.child[d][y] = IF y = q /\ d = e THEN n ELSE T1.child[d][y]
  <2>1. CASE q = NULL
    BY <1>1, <1>3, <2>1 DEF Relink, Trees
  <2>2. CASE q # NULL
    <3>1. T2 = [T1 EXCEPT !.child[e][q] = n]
      BY <1>4, <2>2 DEF Relink
    <3>2. q \in Key
      BY <1>1, <2>2 DEF Link
    <3> HIDE DEF T2
    <3> QED
      BY <1>1, <1>2, <1>3, <2>2, <3>1, <3>2, ZenonT(60) DEF Trees
  <2> QED
    BY <2>1, <2>2
<1> HIDE DEF T2
<1>6. P \in [Key -> Link] /\ \A y \in Key : P[y] = IF y = l \/ y = r THEN n ELSE T2.parent[y]
  BY <1>1, <1>5 DEF Put, Trees
<1>7. InPlaceOf(U, old, n, q, red) = V
  BY <1>3 DEF InPlaceOf, T2, T1, l, r
<1> HIDE DEF P
<1>8. V \in Trees /\ V.root = T2.root /\ V.red = T2.red /\ V.child = T2.child /\ V.parent = P
  BY <1>5, <1>6 DEF Trees
<1> HIDE DEF V
<1>9. q # n
  BY DEF q
<1>10. V.root = IF q = NULL THEN n ELSE U.root
  BY <1>3, <1>5, <1>8
<1>11. \A y \in Key : V.parent[y] = IF \E d \in Side : U.child[d][old] = y THEN n
                                    ELSE IF y = n THEN q ELSE U.parent[y]
  <2>1. \A y \in Key : (\E d \in Side : U.child[d][old] = y) <=> y = l \/ y = r
    BY <1>1 DEF l, r
  <2>2. \A y \in Key : V.parent[y] = IF y = l \/ y = r THEN n ELSE IF y = n THEN q ELSE U.parent[y]
    BY <1>3, <1>5, <1>6, <1>8
  <2> QED
    BY <2>1, <2>2
<1>12. \A y \in Key : V.red[y] <=> IF y = n THEN U.red[old] ELSE U.red[y]
  BY <1>3, <1>5, <1>8
<1>13. \A y \in Key : \A d \in Side :
          V.child[d][y] = IF y = n THEN U.child[d][old]
                          ELSE IF y = q /\ d = e THEN n ELSE U.child[d][y]
  <2> SUFFICES ASSUME NEW y \in Key, NEW d \in Side
               PROVE  V.child[d][y] = IF y = n THEN U.child[d][old]
                                      ELSE IF y = q /\ d = e THEN n ELSE U.child[d][y]
    OBVIOUS
  <2>1. CASE y = n
    BY <2>1, <1>1, <1>3, <1>5, <1>8, <1>9 DEF l, r
  <2>2. CASE y # n
    BY <2>2, <1>1, <1>3, <1>5, <1>8
  <2> QED
    BY <2>1, <2>2
<1>14. Replaces(V, U, old, n)
  BY <1>8, <1>10, <1>11, <1>12, <1>13 DEF Replaces, q, e
<1> QED
  BY <1>7, <1>14 DEF q

\* The successor n of old, which has two children, what splicing it out gives, and
\* SpliceSuccessor.
Succession(T, old, n, S, E) ==
    /\ T.child["left"][old] # NULL /\ T.child["right"][old] # NULL
    /\ n = Leftmost(T, T.child["right"][old]) /\ S = Splice(T, n) /\ E = SpliceSuccessor(T, old)

\* SpliceSuccessor splices the successor out and then writes it in the place of old.
LEMMA SuccessorWrites ==
    ASSUME NEW T, NEW old, NEW n, NEW S, NEW E, Succession(T, old, n, S, E)
    PROVE  /\ E.tree = InPlaceOf(S.tree, old, n, T.parent[old], T.red[old])
           /\ E.node = S.node /\ E.red = S.red
           /\ E.parent = IF S.parent = old THEN n ELSE S.parent
<1> DEFINE X == InPlaceOf(S.tree, old, n, T.parent[old], T.red[old])
<1>1. E = [S EXCEPT !.tree = X, !.parent = IF @ = old THEN n ELSE @]
  BY Zenon DEF Succession, SpliceSuccessor, InPlaceOf
<1>2. S = [tree |-> S.tree, node |-> S.node, parent |-> S.parent, red |-> S.red]
  BY DEF Succession, Splice
<1> HIDE DEF X
<1>3. E.tree = X /\ E.node = S.node /\ E.red = S.red /\ E.parent = IF S.parent = old THEN n ELSE S.parent
  BY <1>1, <1>2
<1> QED
  BY <1>3 DEF X

\* What is left in U, where n is spliced out, and in V, where it is in the place of old.
Succeeded(T, N, sub, old, n, U, V) ==
    /\ n \in N /\ n # old /\ T.child["left"][n] = NULL
    /\ Replaces(V, U, old, n)
    /\ Shape(U, N \ {n}, SplicedSub(sub, n))
    /\ Shape(V, N \ {old}, ReplacedSub(SplicedSub(sub, n), old, n))
    /\ U.parent[old] = T.parent[old]
    /\ \A y \in Key \ N : \A d \in Side : V.child[d][y] = NULL /\ V.parent[y] = NULL

\* The successor of a node with two children, and what is left when it is spliced out.
LEMMA SuccessorIs ==
    ASSUME KeysOrdered, NEW T, NEW N, NEW sub, Shape(T, N, sub), Clean(T, N), NEW old \in N,
           NEW n, NEW S, NEW E, Succession(T, old, n, S, E)
    PROVE  Succeeded(T, N, sub, old, n, S.tree, E.tree)
<1> DEFINE c == T.child["right"][old]
           U == S.tree
           V == E.tree
           sub1 == SplicedSub(sub, n)
           M == N \ {n}
<1>1. /\ T \in Trees /\ N \subseteq Key /\ NULL \notin N /\ sub \in [Link -> SUBSET Key]
      /\ sub[NULL] = {} /\ "right" \in Side /\ "left" \in Side
      /\ \A y \in N : y \in sub[y] /\ sub[y] \subseteq N
  <2>1. "right" \in Side /\ "left" \in Side
    BY DEF Side
  <2> QED
    BY <2>1, ShapeSays
<1>2. /\ c \in N /\ T.parent[c] = old
      /\ \A m \in sub[c] : m # old /\ SideFor(m, old) = "right"
      /\ sub[old] = {old} \cup sub[T.child["left"][old]] \cup sub[c]
      /\ \A m \in sub[T.child["left"][old]] : m # old /\ SideFor(m, old) = "left"
      /\ old \notin sub[c]
  BY <1>1, ShapeSays DEF Opposite, Succession
<1>3. Leftest(T, sub, c, n)
  BY <1>2, LeftmostIs DEF Succession
<1>a. S = Splice(T, n)
  BY DEF Succession
<1> HIDE DEF c
<1>4. n \in sub[c] /\ n \in N /\ n # old /\ T.child["left"][n] = NULL
      /\ n \in Key /\ old \in Key
      /\ \A m \in sub[c] : m # n => SideFor(m, n) = "right"
  BY <1>1, <1>2, <1>3 DEF Leftest
<1>5. /\ Shape(U, M, sub1) /\ OnlyChild(T, n) \in M \cup {NULL}
      /\ \A y \in N : U.parent[y] # n /\ \A d \in Side : U.child[d][y] # n
  <2>1. \E d \in Side : T.child[d][n] = NULL
    BY <1>1, <1>4
  <2>2. LET W == Splice(T, n).tree IN
        /\ Shape(W, M, sub1) /\ OnlyChild(T, n) \in M \cup {NULL}
        /\ \A y \in N : W.parent[y] # n /\ \A d \in Side : W.child[d][y] # n
    BY <2>1, <1>4, SplicedShape
  <2> QED
    BY <2>2, <1>a
<1>6. /\ U \in Trees /\ U.red = T.red
      /\ \A y \in Key : U.parent[y] = IF y = OnlyChild(T, n) THEN T.parent[n] ELSE T.parent[y]
      /\ \A y \in Key : \A d \in Side :
            U.child[d][y] = IF y = T.parent[n] /\ d = SideOf(T, n, T.parent[n])
                              THEN OnlyChild(T, n) ELSE T.child[d][y]
  BY <1>1, <1>4, <1>a, SpliceWrites
<1>7. T.parent[n] # NULL /\ n # T.root
  <2>1. n # T.root
    <3>1. sub[n] \subseteq sub[c]
      BY <1>2, <1>4, Nested
    <3>2. old \in sub[T.root]
      BY ShapeSays
    <3> QED
      BY <1>2, <3>1, <3>2
  <2> QED
    BY <1>4, <2>1, ShapeSaysAbove
<1>8. OnlyChild(T, n) # old
  <2>1. OnlyChild(T, n) # NULL => OnlyChild(T, n) \in sub[n] /\ OnlyChild(T, n) # n
    <3>1. OnlyChild(T, n) = T.child["right"][n]
      BY <1>4 DEF OnlyChild
    <3>2. T.child["right"][n] # NULL =>
            T.child["right"][n] \in sub[T.child["right"][n]] /\ T.child["right"][n] # n
      BY <1>1, <1>4, ShapeSays
    <3>3. sub[n] = {n} \cup sub[T.child["right"][n]] \cup sub[T.child["left"][n]]
      BY <1>1, <1>4, ShapeSays DEF Opposite
    <3> QED
      BY <3>1, <3>2, <3>3
  <2>2. sub[n] \subseteq sub[c]
    BY <1>2, <1>4, Nested
  <2> QED
    BY <2>1, <2>2, <1>1, <1>2
<1>9. U.parent[old] = T.parent[old] /\ U.parent[old] # n
  BY <1>4, <1>5, <1>6, <1>8
<1>10. V = InPlaceOf(U, old, n, T.parent[old], T.red[old])
  BY SuccessorWrites
<1>11. Replaces(V, U, old, n)
  <2>1. T.red[old] \in BOOLEAN
    BY <1>1, <1>4 DEF Trees
  <2>2. T.red[old] <=> U.red[old]
    BY <1>6
  <2> HIDE DEF U, V
  <2> QED
    BY <2>1, <2>2, <1>4, <1>6, <1>9, <1>10, InPlaceWrites
<1>12. Clean(U, M \cup {n})
  <2> SUFFICES ASSUME NEW y \in Key \ N
               PROVE  U.parent[y] = NULL /\ \A d \in Side : U.child[d][y] = NULL
    BY DEF Clean
  <2>1. y # OnlyChild(T, n)
    BY <1>5, RBTreeAssumption
  <2>2. y # T.parent[n]
    BY <1>4, <1>7, ShapeSaysAbove
  <2> HIDE DEF U
  <2> QED
    BY <2>1, <2>2, <1>6 DEF Clean
<1> HIDE DEF U, V
<1>13. \A y \in Link : sub1[y] = sub[y] \ {n}
  BY DEF SplicedSub
<1> HIDE DEF sub1
<1>14. \A d \in Side : \A m \in sub1[U.child[d][old]] : SideFor(m, n) = d
  <2> SUFFICES ASSUME NEW d \in Side, NEW m \in sub1[U.child[d][old]] PROVE SideFor(m, n) = d
    OBVIOUS
  <2>1. /\ old \in M
        /\ \A x \in sub1[U.child[d][old]] : x # old /\ SideFor(x, old) = d
        /\ sub1[old] = {old} \cup sub1[U.child[d][old]] \cup sub1[U.child[Opposite(d)][old]]
        /\ sub1[old] \subseteq M
    BY <1>4, <1>5, ShapeSays
  <2>2. m \in sub1[old] /\ m \in M /\ m # old /\ SideFor(m, old) = d
    BY <2>1
  <2>3. m \in sub[old] /\ m # n /\ m \in Key
    <3>1. old \in Link
      BY <1>4 DEF Link
    <3> QED
      BY <3>1, <2>2, <1>1, <1>13
  <2>4. CASE m \in sub[c]
    BY <2>2, <2>3, <2>4, <1>2, <1>4
  <2>5. CASE m \in sub[T.child["left"][old]]
    <3>1. d = "left" /\ SideFor(n, old) = "right"
      BY <2>2, <2>5, <1>2, <1>4
    <3>2. SideFor(old, n) = "left"
      BY <3>1, <1>4, SideFlips DEF Opposite, Side
    <3> QED
      BY <2>2, <2>3, <3>1, <3>2, <1>1, <1>4, SideTransits
  <2> QED
    BY <2>2, <2>3, <2>4, <2>5, <1>2
<1>15. \A y \in M : y # old /\ old \in sub1[y] => SideFor(n, y) = SideFor(old, y)
  <2> SUFFICES ASSUME NEW y \in M, y # old, old \in sub1[y] PROVE SideFor(n, y) = SideFor(old, y)
    OBVIOUS
  <2>1. y \in N /\ y \in Link /\ old \in sub[y]
    BY <1>1, <1>13 DEF Link
  <2>2. PICK d \in Side : old \in sub[T.child[d][y]]
    <3>1. sub[y] = {y} \cup sub[T.child["left"][y]] \cup sub[T.child["right"][y]]
      BY <1>1, <2>1, ShapeSays DEF Opposite
    <3> QED
      BY <1>1, <2>1, <3>1
  <2>3. T.child[d][y] \in N
    BY <1>1, <2>1, <2>2, ShapeSays
  <2>4. n \in sub[T.child[d][y]]
    <3>1. sub[old] \subseteq sub[T.child[d][y]]
      BY <2>2, <2>3, Nested
    <3> QED
      BY <3>1, <1>2, <1>4
  <2> QED
    BY <2>1, <2>2, <2>4, ShapeSays
<1>16. Shape(V, (M \ {old}) \cup {n}, ReplacedSub(sub1, old, n))
  BY <1>4, <1>5, <1>11, <1>12, <1>14, <1>15, ReplacedShape
<1>17. (M \ {old}) \cup {n} = N \ {old}
  BY <1>4
<1>18. \A y \in Key \ N : \A d \in Side : V.child[d][y] = NULL /\ V.parent[y] = NULL
  <2> SUFFICES ASSUME NEW y \in Key \ N, NEW d \in Side
               PROVE  V.child[d][y] = NULL /\ V.parent[y] = NULL
    OBVIOUS
  <2>1. U.child[d][y] = NULL /\ U.parent[y] = NULL
    BY <1>4, <1>12 DEF Clean
  <2>2. ~ \E g \in Side : U.child[g][old] = y
    <3>1. \A g \in Side : U.child[g][old] \in M \cup {NULL}
      BY <1>4, <1>5 DEF Shape
    <3> QED
      BY <3>1, RBTreeAssumption
  <2>3. y # n /\ y # U.parent[old]
    <3>1. U.parent[old] \in M \cup {NULL}
      BY <1>4, <1>5 DEF Shape
    <3> QED
      BY <3>1, <1>4, RBTreeAssumption
  <2> QED
    BY <2>1, <2>2, <2>3, <1>11 DEF Replaces
<1> QED
  BY <1>4, <1>5, <1>9, <1>11, <1>16, <1>17, <1>18, ZenonT(60) DEF Succeeded, U, V, sub1

(***************************************************************************)
(* Colours: bh[n] is the number of black nodes on every path down from n.  *)
(* While a node is inserted it may be red under a red parent; while one is *)
(* removed every path through one place lacks a black node.                *)
(***************************************************************************)

Black(T, n) == IF T.red[n] THEN 0 ELSE 1

\* One black node is missing below p on side s; p = NULL: none is.
Lack(n, d, p, s) == IF n = p /\ d = s THEN 1 ELSE 0

\* bh[n] black nodes on every path down from n, the missing one included.
Heights(T, N, bh, p, s) ==
    /\ bh \in [Link -> Nat] /\ bh[NULL] = 0
    /\ \A n \in N : \A d \in Side : bh[n] = bh[T.child[d][n]] + Lack(n, d, p, s) + Black(T, n)

\* Only x may be red under a red parent, or as the root.
InsertColours(T, N, x) ==
    /\ IsRed(T, T.root) => T.root = x
    /\ \A n \in N : T.red[n] /\ IsRed(T, T.parent[n]) => n = x

Whole(T, N, bh) == InsertColours(T, N, NULL) /\ Heights(T, N, bh, NULL, "left")

Inserting(T, N, bh, x) ==
    /\ x \in N /\ T.red[x]
    /\ InsertColours(T, N, x)
    /\ Heights(T, N, bh, NULL, "left")

\* Counts of black nodes are numbers.
LEMMA HeightTypes ==
    ASSUME NEW T, NEW N, NEW bh, NEW p, NEW s, Heights(T, N, bh, p, s), N \subseteq Key,
           \A n \in N : \A d \in Side : T.child[d][n] \in Link
    PROVE  \A n \in N : /\ bh[n] \in Nat
                        /\ \A d \in Side : bh[T.child[d][n]] \in Nat
                        /\ T.red[n] => Black(T, n) = 0
                        /\ ~T.red[n] => Black(T, n) = 1
<1>1. N \subseteq Link
  BY DEF Link
<1> QED
  BY <1>1 DEF Heights, Black

\* Without a parent at fault no path lacks a black node.
LEMMA NoLack ==
    ASSUME NEW N, NULL \notin N
    PROVE  \A d, s : \A n \in N : Lack(n, d, NULL, s) = 0
<1> QED
  BY DEF Lack

\* A new red leaf keeps the heights; it may have a red parent.
LEMMA LinkedColours ==
    ASSUME KeysOrdered, NEW T, NEW N, NEW sub, Shape(T, N, sub), NEW n \in Key, n \notin N,
           NEW bh, Whole(T, N, bh)
    PROVE  LET U == rb_link_node(T, n, LinkParent(T, n)) IN
           Inserting(U, N \cup {n}, [bh EXCEPT ![n] = 0], n)
<1> DEFINE p == LinkParent(T, n)
           U == rb_link_node(T, n, p)
           B == [bh EXCEPT ![n] = 0]
           M == N \cup {n}
<1>1. /\ T \in Trees /\ N \subseteq Key /\ NULL \notin N
      /\ \A y \in N, d \in Side : T.child[d][y] \in N \cup {NULL}
  BY ShapeSays
<1>2. NULL \notin Key /\ NULL \in Link /\ Key \subseteq Link
  BY RBTreeAssumption DEF Link
<1>3. /\ p = NULL => T.root = NULL
      /\ p # NULL => p \in N /\ T.child[SideFor(n, p)][p] = NULL
  BY LinkedShape
<1>4. T.root = NULL => N = {}
  BY DEF Shape
<1> HIDE DEF p
<1>5. p \in Link
  BY <1>1, <1>2, <1>3
<1>6. /\ U.root = IF p = NULL THEN n ELSE T.root
      /\ \A y \in Key : U.parent[y] = IF y = n THEN p ELSE T.parent[y]
      /\ \A y \in Key : U.red[y] <=> (y = n \/ T.red[y])
      /\ \A y \in Key : \A d \in Side :
            U.child[d][y] = IF y = n THEN NULL ELSE IF y = p /\ d = SideFor(n, p) THEN n ELSE T.child[d][y]
  BY <1>1, <1>5, LinkWrites
<1> HIDE DEF U
<1>7. /\ bh \in [Link -> Nat] /\ bh[NULL] = 0
      /\ \A y \in N : \A d \in Side : bh[y] = bh[T.child[d][y]] + Lack(y, d, NULL, "left") + Black(T, y)
      /\ ~IsRed(T, T.root)
      /\ \A y \in N : T.red[y] => ~IsRed(T, T.parent[y])
  <2>1. IsRed(T, T.root) => T.root # NULL
    BY DEF IsRed
  <2> QED
    BY <2>1, <1>1 DEF Whole, Heights, InsertColours
<1>8. B \in [Link -> Nat] /\ B[n] = 0 /\ B[NULL] = 0 /\ \A y \in Link : y # n => B[y] = bh[y]
  BY <1>2, <1>7
<1> HIDE DEF B
<1>9. n \in M /\ U.red[n]
  BY <1>6
<1>10. InsertColours(U, M, n)
  <2>1. IsRed(U, U.root) => U.root = n
    <3> SUFFICES ASSUME p # NULL PROVE IsRed(U, U.root) => U.root = n
      BY <1>6
    <3>1. T.root # NULL /\ U.root = T.root
      BY <1>3, <1>4, <1>6
    <3>2. T.root \in Key
      BY <3>1, <1>1, ShapeSaysAbove
    <3> QED
      BY <3>1, <3>2, <1>6, <1>7 DEF IsRed
  <2>2. ASSUME NEW y \in M, U.red[y], IsRed(U, U.parent[y]) PROVE y = n
    <3> SUFFICES ASSUME y # n PROVE FALSE
      OBVIOUS
    <3>1. y \in N /\ y \in Key /\ U.parent[y] = T.parent[y] /\ T.red[y]
      BY <1>1, <1>6, <2>2
    <3>2. T.parent[y] # n
      BY <3>1, <1>2 DEF Shape
    <3>3. T.parent[y] \in Link
      BY <3>1, <1>1 DEF Trees
    <3>4. IsRed(T, T.parent[y])
      BY <3>1, <3>2, <3>3, <2>2, <1>6 DEF IsRed, Link
    <3> QED
      BY <3>1, <3>4, <1>7
  <2> QED
    BY <2>1, <2>2 DEF InsertColours
<1>11. \A y \in M : \A d \in Side : B[y] = B[U.child[d][y]] + Lack(y, d, NULL, "left") + Black(U, y)
  <2> SUFFICES ASSUME NEW y \in M, NEW d \in Side
               PROVE  B[y] = B[U.child[d][y]] + Lack(y, d, NULL, "left") + Black(U, y)
    OBVIOUS
  <2>1. CASE y = n
    BY <2>1, <1>2, <1>6, <1>8 DEF Lack, Black
  <2>2. CASE y # n
    <3>1. y \in N /\ y \in Key /\ y \in Link /\ B[y] = bh[y] /\ Black(U, y) = Black(T, y)
      BY <2>2, <1>1, <1>2, <1>6, <1>8 DEF Black
    <3>2. B[U.child[d][y]] = bh[T.child[d][y]]
      <4>1. CASE y = p /\ d = SideFor(n, p)
        <5>1. U.child[d][y] = n
          BY <4>1, <2>2, <3>1, <1>6
        <5>2. p # NULL /\ T.child[d][y] = NULL
          BY <4>1, <3>1, <1>1, <1>3
        <5> QED
          BY <5>1, <5>2, <1>7, <1>8
      <4>2. CASE ~(y = p /\ d = SideFor(n, p))
        <5>1. U.child[d][y] = T.child[d][y]
          BY <4>2, <2>2, <3>1, <1>6
        <5>2. T.child[d][y] \in Link /\ T.child[d][y] # n
          BY <3>1, <1>1, <1>2
        <5> QED
          BY <5>1, <5>2, <1>8
      <4> QED
        BY <4>1, <4>2
    <3> QED
      BY <3>1, <3>2, <1>7
  <2> QED
    BY <2>1, <2>2
<1>12. Inserting(U, M, B, n)
  BY <1>8, <1>9, <1>10, <1>11 DEF Inserting, Heights
<1> QED
  BY <1>12 DEF U, B, p

\* The nodes around one that is red under a red parent.
LEMMA RedRedNames ==
    ASSUME KeysOrdered, NEW T, NEW N, NEW sub, Shape(T, N, sub), NEW bh, NEW x,
           Inserting(T, N, bh, x), RedRed(T, x)
    PROVE  LET par == T.parent[x]
               g == Grandparent(T, x)
               ps == ParentSide(T, x)
           IN /\ par \in N /\ T.red[par] /\ par # x /\ par # T.root
              /\ g \in N /\ ~T.red[g] /\ g # par /\ g # x
              /\ ps \in Side /\ T.child[ps][g] = par /\ ps = SideFor(par, g)
              /\ T.parent[par] = g
              /\ SideOf(T, x, par) \in Side /\ T.child[SideOf(T, x, par)][par] = x
<1> DEFINE par == T.parent[x]
           g == Grandparent(T, x)
           ps == ParentSide(T, x)
<1>1. x \in N /\ T.red[x] /\ InsertColours(T, N, x) /\ IsRed(T, par)
  BY DEF Inserting, RedRed
<1>2. par # NULL /\ T.red[par]
  BY <1>1 DEF IsRed
<1>3. par \in N /\ par # x /\ x # T.root /\ par \notin sub[x]
      /\ SideOf(T, x, par) = SideFor(x, par) /\ T.child[SideFor(x, par)][par] = x
  BY <1>1, <1>2, ShapeSaysAbove
<1>4. par # T.root
  BY <1>1, <1>2, <1>3 DEF InsertColours, IsRed
<1>5. g \in N /\ g # par /\ SideOf(T, par, g) = SideFor(par, g) /\ T.child[SideFor(par, g)][g] = par
      /\ g \notin sub[par]
  BY <1>3, <1>4, ShapeSaysAbove DEF Grandparent
<1>6. ~T.red[g]
  <2>1. ~IsRed(T, g)
    BY <1>1, <1>2, <1>3 DEF InsertColours, Grandparent
  <2>2. g # NULL
    BY <1>5, ShapeSays
  <2> QED
    BY <2>1, <2>2 DEF IsRed
<1>7. SideFor(par, g) \in Side /\ SideFor(x, par) \in Side
  BY DEF SideFor, Side
<1> QED
  BY <1>1, <1>2, <1>3, <1>4, <1>5, <1>6, <1>7 DEF ParentSide, Grandparent

\* Which nodes are whose children.
LEMMA ChildOfOne ==
    ASSUME NEW T, NEW N, NEW sub, Shape(T, N, sub), NEW y \in N, NEW d \in Side,
           T.child[d][y] # NULL
    PROVE  /\ T.parent[T.child[d][y]] = y
           /\ \A e \in Side : e # d => T.child[e][y] # T.child[d][y]
<1>1. T.child[d][y] \in N
  BY ShapeSays
<1>2. ASSUME NEW e \in Side, e # d, T.child[e][y] = T.child[d][y] PROVE FALSE
  <2>1. T.child[d][y] \in sub[T.child[d][y]]
    BY <1>1, ShapeSays
  <2>2. SideFor(T.child[d][y], y) = d /\ SideFor(T.child[d][y], y) = e
    BY <2>1, <1>2, ShapeSays
  <2> QED
    BY <2>2, <1>2
<1> QED
  BY <1>2, ShapeSays

\* The children after a rotation.
LEMMA RotatedChildren ==
    ASSUME KeysOrdered, NEW T, NEW N, NEW sub, Shape(T, N, sub), NEW n \in N, NEW s \in Side,
           NEW up, NEW low, NEW mid, NEW out, Turn(T, n, s, up, low, mid, out)
    PROVE  LET U == Rotate(T, n, s)
               o == Opposite(s) IN
           /\ U.red = T.red /\ up \in N /\ n # up
           /\ \A y \in N \ {n, up} : \A d \in Side :
                 U.child[d][y] = IF T.child[d][y] = n THEN up ELSE T.child[d][y]
           /\ U.child[s][n] = low /\ U.child[o][n] = mid
           /\ U.child[s][up] = n /\ U.child[o][up] = out
<1> DEFINE U == Rotate(T, n, s)
           p == T.parent[n]
           o == Opposite(s)
<1>0. T.child[Opposite(s)][n] # NULL /\ up = T.child[Opposite(s)][n] /\ T.child[s][n] = low
      /\ T.child[s][up] = mid /\ T.child[Opposite(s)][up] = out
  BY DEF Turn
<1>1. T \in Trees /\ N \subseteq Key /\ NULL \notin N
  BY ShapeSays
<1>2. /\ U \in Trees /\ U.red = T.red
      /\ \A y \in Key : \A d \in Side :
            U.child[d][y] = IF y = up /\ d = s THEN n
                            ELSE IF y = n /\ d = o THEN mid
                            ELSE IF y = p /\ d = SideOf(T, n, p) THEN up
                            ELSE T.child[d][y]
  BY <1>0, <1>1, Rotated
<1> HIDE DEF U
<1>3. /\ up \in N /\ n # up /\ p # n /\ p # up
      /\ p # NULL => p \in N /\ T.child[SideOf(T, n, p)][p] = n
  <2>1. up \in N /\ n # up
    BY RotationNames
  <2>2. p # NULL => /\ p \in N /\ p # n /\ p # up
                    /\ T.child[SideFor(n, p)][p] = n /\ SideOf(T, n, p) = SideFor(n, p)
    BY RotationParent
  <2> QED
    BY <1>1, <2>1, <2>2
<1>4. o \in Side /\ o # s /\ \A d \in Side : d = s \/ d = o
  BY Opposites
<1> HIDE DEF o
<1>5. \A y \in N \ {n, up} : \A d \in Side :
         U.child[d][y] = IF T.child[d][y] = n THEN up ELSE T.child[d][y]
  <2> SUFFICES ASSUME NEW y \in N \ {n, up}, NEW d \in Side
               PROVE  U.child[d][y] = IF T.child[d][y] = n THEN up ELSE T.child[d][y]
    OBVIOUS
  <2>1. y \in Key /\ y # NULL
    BY <1>1
  <2>2. U.child[d][y] = IF y = p /\ d = SideOf(T, n, p) THEN up ELSE T.child[d][y]
    BY <1>2, <2>1
  <2>3. CASE y = p /\ d = SideOf(T, n, p)
    BY <2>2, <2>3, <2>1, <1>3
  <2>4. CASE ~(y = p /\ d = SideOf(T, n, p))
    <3>1. T.child[d][y] # n
      <4> SUFFICES ASSUME T.child[d][y] = n PROVE FALSE
        OBVIOUS
      <4>1. n # NULL /\ T.parent[n] = y
        BY <1>1, ShapeSays
      <4>2. SideOf(T, n, y) = d
        <5>1. "left" \in Side /\ "right" \in Side /\ (d = "left" \/ d = "right")
          BY DEF Side
        <5>2. d = "right" => T.child["left"][y] # n
          BY <4>1, <5>1, ChildOfOne
        <5> QED
          BY <5>1, <5>2 DEF SideOf
      <4> QED
        BY <4>1, <4>2, <2>4
    <3> QED
      BY <3>1, <2>2, <2>4
  <2> QED
    BY <2>3, <2>4
<1>6. /\ U.child[s][n] = low /\ U.child[o][n] = mid
      /\ U.child[s][up] = n /\ U.child[o][up] = out
  <2>1. T.child[o][up] = out
    BY <1>0 DEF o
  <2> QED
    BY <2>1, <1>0, <1>1, <1>2, <1>3, <1>4
<1> QED
  BY <1>2, <1>3, <1>5, <1>6 DEF U, o

\* The paths that go down from y on side d, next to c, have the black nodes B says.
Level(T, B, y, d, c, q, e) == B[y] = B[c] + Lack(y, d, q, e) + Black(T, y)

\* So have the others than those from n and up, where up is now in the place of n.
LevelAside(T, N, B, n, up, q, e) ==
    \A y \in N \ {n, up} : \A d \in Side :
       Level(T, B, y, d, IF T.child[d][y] = n THEN up ELSE T.child[d][y], q, e)

\* The heights after a rotation, given those of the nodes it does not turn and of the two
\* it does.
LEMMA RotatedHeights ==
    ASSUME KeysOrdered, NEW T, NEW N, NEW sub, Shape(T, N, sub), NEW n \in N, NEW s \in Side,
           NEW up, NEW low, NEW mid, NEW out, Turn(T, n, s, up, low, mid, out),
           NEW B \in [Link -> Nat], B[NULL] = 0, NEW q, NEW e,
           LevelAside(T, N, B, n, up, q, e),
           Level(T, B, n, s, low, q, e), Level(T, B, n, Opposite(s), mid, q, e),
           Level(T, B, up, s, n, q, e), Level(T, B, up, Opposite(s), out, q, e)
    PROVE  Heights(Rotate(T, n, s), N, B, q, e)
<1> DEFINE U == Rotate(T, n, s)
           o == Opposite(s)
<1>0. Level(T, B, n, o, mid, q, e) /\ Level(T, B, up, o, out, q, e) /\ \A d \in Side : d = s \/ d = o
  BY Opposites
<1>1. /\ U.red = T.red /\ up \in N /\ n # up
      /\ \A y \in N \ {n, up} : \A d \in Side :
            U.child[d][y] = IF T.child[d][y] = n THEN up ELSE T.child[d][y]
      /\ U.child[s][n] = low /\ U.child[o][n] = mid
      /\ U.child[s][up] = n /\ U.child[o][up] = out
  BY RotatedChildren
<1> HIDE DEF U, o
<1>2. \A y \in N : Black(U, y) = Black(T, y)
  BY <1>1 DEF Black
<1>3. ASSUME NEW y \in N, NEW d \in Side
      PROVE  Level(T, B, y, d, U.child[d][y], q, e)
  <2>1. CASE y = n
    BY <2>1, <1>0, <1>1
  <2>2. CASE y = up
    BY <2>2, <1>0, <1>1
  <2>3. CASE y \in N \ {n, up}
    BY <2>3, <1>1 DEF LevelAside
  <2> QED
    BY <2>1, <2>2, <2>3
<1>4. \A y \in N : \A d \in Side : B[y] = B[U.child[d][y]] + Lack(y, d, q, e) + Black(U, y)
  BY <1>2, <1>3 DEF Level
<1> QED
  BY <1>4 DEF Heights, U

\* The colours after a rotation, given those around the nodes it turns.
LEMMA RotatedColours ==
    ASSUME KeysOrdered, NEW T, NEW N, NEW sub, Shape(T, N, sub), NEW n \in N, NEW s \in Side,
           NEW up, NEW low, NEW mid, NEW out, Turn(T, n, s, up, low, mid, out), NEW x,
           \A y \in N \ {n, up, mid} : T.red[y] /\ IsRed(T, T.parent[y]) => y = x,
           IsRed(T, mid) /\ T.red[n] => mid = x,
           T.red[n] /\ T.red[up] => n = x,
           T.red[up] /\ IsRed(T, T.parent[n]) => up = x,
           n = T.root => (T.red[up] => up = x),
           n # T.root => (IsRed(T, T.root) => T.root = x)
    PROVE  InsertColours(Rotate(T, n, s), N, x)
<1> DEFINE U == Rotate(T, n, s)
           p == T.parent[n]
<1>1. T \in Trees /\ N \subseteq Key /\ NULL \notin N
  BY ShapeSays
<1>2. /\ U.red = T.red
      /\ U.root = IF p = NULL THEN up ELSE T.root
      /\ \A y \in Key : U.parent[y] = IF y = n THEN up ELSE IF y = up THEN p
                                      ELSE IF y = mid THEN n ELSE T.parent[y]
  <2>1. T.child[Opposite(s)][n] # NULL /\ up = T.child[Opposite(s)][n] /\ mid = T.child[s][up]
    BY DEF Turn
  <2>2. n \in Key
    BY <1>1
  <2>3. U.red = T.red /\ U.root = IF p = NULL THEN up ELSE T.root
    BY <1>1, <2>1, <2>2, Rotated
  <2>4. \A y \in Key : U.parent[y] = IF y = n THEN up ELSE IF y = up THEN p
                                      ELSE IF y = mid THEN n ELSE T.parent[y]
    BY <1>1, <2>1, <2>2, Rotated
  <2> QED
    BY <2>3, <2>4
<1> HIDE DEF U
<1>3. up \in N /\ n # up /\ mid # n /\ mid # up /\ (p = NULL <=> n = T.root)
  <2>1. up \in N /\ n # up /\ mid # n /\ mid # up
    BY RotationNames
  <2> QED
    BY <2>1, ShapeSaysAbove
<1>4. IsRed(U, U.root) => U.root = x
  <2>1. CASE n = T.root
    <3>1. U.root = up
      BY <2>1, <1>2, <1>3
    <3> QED
      BY <3>1, <2>1, <1>2 DEF IsRed
  <2>2. CASE n # T.root
    <3>1. U.root = T.root
      BY <2>2, <1>2, <1>3
    <3> QED
      BY <3>1, <2>2, <1>2 DEF IsRed
  <2> QED
    BY <2>1, <2>2
<1>5. ASSUME NEW y \in N, U.red[y], IsRed(U, U.parent[y]) PROVE y = x
  <2>1. y \in Key /\ y # NULL /\ T.red[y] /\ IsRed(T, U.parent[y])
    BY <1>1, <1>2, <1>5 DEF IsRed
  <2>2. CASE y = n
    <3>1. U.parent[y] = up
      BY <2>1, <2>2, <1>2
    <3> QED
      BY <3>1, <2>1, <2>2 DEF IsRed
  <2>3. CASE y = up
    <3>1. U.parent[y] = p
      BY <2>1, <2>3, <1>2, <1>3
    <3> QED
      BY <3>1, <2>1, <2>3
  <2>4. CASE y = mid
    <3>1. U.parent[y] = n
      BY <2>1, <2>4, <1>2, <1>3
    <3> QED
      BY <3>1, <2>1, <2>4 DEF IsRed
  <2>5. CASE y \in N \ {n, up, mid}
    <3>1. U.parent[y] = T.parent[y]
      BY <2>1, <2>5, <1>2
    <3> QED
      BY <3>1, <2>1, <2>5
  <2> QED
    BY <2>2, <2>3, <2>4, <2>5
<1> QED
  BY <1>4, <1>5 DEF InsertColours, U

\* What else is around a node that is red under a red parent.
LEMMA UncleIs ==
    ASSUME KeysOrdered, NEW T, NEW N, NEW sub, Shape(T, N, sub), NEW bh, NEW x,
           Inserting(T, N, bh, x), RedRed(T, x)
    PROVE  LET par == T.parent[x]
               g == Grandparent(T, x)
               ps == ParentSide(T, x)
               unc == Uncle(T, x)
           IN /\ unc \in N \cup {NULL} /\ unc # par /\ unc # x /\ unc # g /\ unc = T.child[Opposite(ps)][g]
              /\ unc # NULL => T.parent[unc] = g
              /\ bh[g] = bh[par] + 1 /\ bh[g] = bh[unc] + 1
              /\ \A d \in Side : bh[par] = bh[T.child[d][par]] /\ bh[x] = bh[T.child[d][x]]
              /\ bh[par] = bh[x]
              /\ \A y \in N : T.red[y] /\ IsRed(T, T.parent[y]) => y = x
              /\ ~IsRed(T, T.root)
<1> DEFINE par == T.parent[x]
           g == Grandparent(T, x)
           ps == ParentSide(T, x)
           unc == Uncle(T, x)
<1>1. /\ par \in N /\ T.red[par] /\ par # x /\ par # T.root
      /\ g \in N /\ ~T.red[g] /\ g # par /\ g # x
      /\ ps \in Side /\ T.child[ps][g] = par
      /\ T.parent[par] = g
      /\ SideOf(T, x, par) \in Side /\ T.child[SideOf(T, x, par)][par] = x
  BY RedRedNames
<1>2. unc = T.child[Opposite(ps)][g]
  BY DEF Uncle
<1>3. x \in N /\ T.red[x] /\ N \subseteq Key /\ NULL \notin N
  BY ShapeSays DEF Inserting
<1> HIDE DEF par, g, ps, unc
<1>4. Opposite(ps) \in Side /\ Opposite(ps) # ps
  BY <1>1, Opposites
<1>5. /\ unc \in N \cup {NULL} /\ unc # par /\ unc # g
      /\ unc # NULL => T.parent[unc] = g
  BY <1>1, <1>2, <1>3, <1>4, ShapeSays, ChildOfOne
<1>6. unc # x
  BY <1>1, <1>3, <1>5 DEF par
<1>7. \A y \in N, d \in Side : bh[y] = bh[T.child[d][y]] + Lack(y, d, NULL, "left") + Black(T, y)
  BY DEF Inserting, Heights
<1>8. \A y \in N, d \in Side : Lack(y, d, NULL, "left") = 0
  BY <1>3 DEF Lack
<1>9. Black(T, g) = 1 /\ Black(T, par) = 0 /\ Black(T, x) = 0
  BY <1>1, <1>3 DEF Black
<1>10. \A y \in N : bh[y] \in Nat /\ \A d \in Side : bh[T.child[d][y]] \in Nat
  <2>1. \A y \in N : y \in Link /\ \A d \in Side : T.child[d][y] \in Link
    BY <1>3, ShapeSays DEF Link
  <2> QED
    BY <2>1 DEF Inserting, Heights
<1>11. bh[g] = bh[par] + 1 /\ bh[g] = bh[unc] + 1
  BY <1>1, <1>2, <1>4, <1>7, <1>8, <1>9, <1>10
<1>12. \A d \in Side : bh[par] = bh[T.child[d][par]] /\ bh[x] = bh[T.child[d][x]]
  BY <1>1, <1>3, <1>7, <1>8, <1>9, <1>10
<1>13. bh[par] = bh[x]
  BY <1>1, <1>12
<1>14. ~IsRed(T, T.root)
  <2>1. x # T.root
    BY <1>1, <1>3, ShapeSaysAbove DEF par
  <2> QED
    BY <2>1 DEF Inserting, InsertColours
<1>15. \A y \in N : T.red[y] /\ IsRed(T, T.parent[y]) => y = x
  BY DEF Inserting, InsertColours
<1> QED
  BY <1>2, <1>5, <1>6, <1>11, <1>12, <1>13, <1>14, <1>15 DEF par, g, ps, unc

\* A node is painted black,
LEMMA PaintedBlack ==
    ASSUME NEW T, NEW N, NEW sub, Shape(T, N, sub), NEW n \in N
    PROVE  LET U == Paint(T, n, FALSE) IN
           /\ U.root = T.root /\ U.child = T.child /\ U.parent = T.parent
           /\ \A m \in Key : (U.red[m] <=> m # n /\ T.red[m])
<1>1. T \in Trees /\ n \in Link
  BY ShapeSays DEF Link
<1> QED
  BY <1>1 DEF Paint, Put, Trees, Link

\* Painting a node black keeps the shape.
LEMMA PaintedBlackShape ==
    ASSUME NEW T, NEW N, NEW sub, Shape(T, N, sub), NEW n \in N
    PROVE  Shape(Paint(T, n, FALSE), N, sub)
<1>1. T \in Trees /\ n \in Link
  BY ShapeSays DEF Link
<1> QED
  BY <1>1, PaintedShape

\* or red.
LEMMA PaintedRed ==
    ASSUME NEW T, NEW N, NEW sub, Shape(T, N, sub), NEW n \in N
    PROVE  LET U == Paint(T, n, TRUE) IN
           /\ U.root = T.root /\ U.child = T.child /\ U.parent = T.parent
           /\ \A m \in Key : (U.red[m] <=> (m = n \/ T.red[m]))
<1>1. T \in Trees /\ n \in Link
  BY ShapeSays DEF Link
<1> QED
  BY <1>1 DEF Paint, Put, Trees, Link

\* Painting a node red keeps the shape.
LEMMA PaintedRedShape ==
    ASSUME NEW T, NEW N, NEW sub, Shape(T, N, sub), NEW n \in N
    PROVE  Shape(Paint(T, n, TRUE), N, sub)
<1>1. T \in Trees /\ n \in Link
  BY ShapeSays DEF Link
<1> QED
  BY <1>1, PaintedShape

\* A red uncle: the nodes of the middle row turn black, the grandparent red.
LEMMA InsertRecolourKeeps ==
    ASSUME KeysOrdered, NEW T, NEW N, NEW sub, Shape(T, N, sub), NEW bh, NEW x,
           Inserting(T, N, bh, x), RedRed(T, x), IsRed(T, Uncle(T, x))
    PROVE  LET U == InsertRecolour(T, x) IN
           Shape(U, N, sub) /\ \E B : Inserting(U, N, B, Grandparent(T, x))
<1> DEFINE par == T.parent[x]
           g == Grandparent(T, x)
           ps == ParentSide(T, x)
           unc == Uncle(T, x)
           U1 == Paint(T, unc, FALSE)
           U2 == Paint(U1, par, FALSE)
           U == InsertRecolour(T, x)
           B == [bh EXCEPT ![par] = @ + 1, ![unc] = @ + 1]
<1>1. /\ par \in N /\ T.red[par] /\ par # x /\ par # T.root
      /\ g \in N /\ ~T.red[g] /\ g # par /\ g # x
      /\ ps \in Side /\ T.child[ps][g] = par
      /\ T.parent[par] = g
  BY RedRedNames
<1>2. /\ unc \in N /\ unc # par /\ unc # x /\ unc # g /\ unc = T.child[Opposite(ps)][g]
      /\ T.parent[unc] = g
      /\ bh[g] = bh[par] + 1 /\ bh[g] = bh[unc] + 1
      /\ \A y \in N : T.red[y] /\ IsRed(T, T.parent[y]) => y = x
      /\ ~IsRed(T, T.root)
  <2>1. unc # NULL /\ T.red[unc]
    BY DEF IsRed
  <2> QED
    BY <2>1, UncleIs
<1>3. T \in Trees /\ N \subseteq Key /\ NULL \notin N /\ N \subseteq Link
  BY ShapeSays DEF Link
<1>4. U = Paint(U2, g, TRUE)
  BY DEF InsertRecolour
<1>5. T.parent[x] = par
  OBVIOUS
<1>6. T.red[unc]
  BY DEF IsRed
<1> HIDE DEF par, g, ps, unc, U
<1>7. par \in N /\ g \in N /\ unc \in N
  BY <1>1, <1>2
<1>8. /\ U1.root = T.root /\ U1.child = T.child /\ U1.parent = T.parent
      /\ \A m \in Key : (U1.red[m] <=> m # unc /\ T.red[m])
  BY <1>7, PaintedBlack
<1>9. Shape(U1, N, sub)
  BY <1>7, PaintedBlackShape
<1> HIDE DEF U1
<1>10. /\ U2.root = U1.root /\ U2.child = U1.child /\ U2.parent = U1.parent
       /\ \A m \in Key : (U2.red[m] <=> m # par /\ U1.red[m])
  BY <1>7, <1>9, PaintedBlack
<1>11. Shape(U2, N, sub)
  BY <1>7, <1>9, PaintedBlackShape
<1> HIDE DEF U2
<1>12. /\ U.root = U2.root /\ U.child = U2.child /\ U.parent = U2.parent
       /\ \A m \in Key : (U.red[m] <=> (m = g \/ U2.red[m]))
  <2> DEFINE W == Paint(U2, g, TRUE)
  <2>1. /\ W.root = U2.root /\ W.child = U2.child /\ W.parent = U2.parent
        /\ \A m \in Key : (W.red[m] <=> (m = g \/ U2.red[m]))
    BY <1>7, <1>11, PaintedRed, ZenonT(60)
  <2> QED
    BY <2>1, <1>4
<1>13. Shape(U, N, sub)
  <2>1. Shape(Paint(U2, g, TRUE), N, sub)
    BY <1>7, <1>11, PaintedRedShape
  <2> QED
    BY <2>1, <1>4
<1>14. Shape(U, N, sub) /\ U.child = T.child /\ U.parent = T.parent /\ U.root = T.root
  BY <1>8, <1>10, <1>12, <1>13
<1>15. \A m \in N : (U.red[m] <=> m = g \/ (m # par /\ m # unc /\ T.red[m]))
  BY <1>1, <1>2, <1>3, <1>8, <1>10, <1>12
<1>16. bh \in [Link -> Nat] /\ bh[NULL] = 0
       /\ \A y \in N : \A d \in Side : bh[y] = bh[T.child[d][y]] + Lack(y, d, NULL, "left") + Black(T, y)
  BY DEF Inserting, Heights
<1>17. /\ B \in [Link -> Nat] /\ B[NULL] = 0
       /\ B[par] = bh[par] + 1 /\ B[unc] = bh[unc] + 1
       /\ \A y \in Link : y # par /\ y # unc => B[y] = bh[y]
  BY <1>1, <1>2, <1>3, <1>16 DEF Link
<1> HIDE DEF B
<1>18. InsertColours(U, N, g)
  <2>1. IsRed(U, U.root) => U.root = g
    <3> SUFFICES ASSUME U.root # NULL, U.red[U.root], U.root # g PROVE FALSE
      BY DEF IsRed
    <3>1. T.root \in N
      BY <1>14, ShapeSaysAbove
    <3>2. T.red[T.root]
      BY <3>1, <1>14, <1>15
    <3> QED
      BY <3>1, <3>2, <1>2, <1>3 DEF IsRed
  <2>2. ASSUME NEW y \in N, U.red[y], IsRed(U, U.parent[y]), y # g PROVE FALSE
    <3>1. y # par /\ y # unc /\ T.red[y]
      BY <2>2, <1>15
    <3> DEFINE z == T.parent[y]
    <3>2. z # NULL /\ U.red[z]
      BY <2>2, <1>14 DEF IsRed
    <3>3. y # T.root /\ z \in N /\ T.child[SideFor(y, z)][z] = y
      BY <3>2, ShapeSaysAbove
    <3>4. SideFor(y, z) \in Side /\ \A d \in Side : d = ps \/ d = Opposite(ps)
      BY <1>1, Opposites DEF SideFor, Side
    <3>5. z # g
      BY <3>1, <3>3, <3>4, <1>1, <1>2
    <3>6. z # par /\ z # unc /\ T.red[z]
      BY <3>2, <3>3, <3>5, <1>15
    <3>7. y = x
      BY <3>1, <3>2, <3>6, <1>2 DEF IsRed
    <3> QED
      BY <3>6, <3>7, <1>5
  <2> QED
    BY <2>1, <2>2 DEF InsertColours
<1>19. \A y \in N : \A d \in Side : B[y] = B[U.child[d][y]] + Lack(y, d, NULL, "left") + Black(U, y)
  <2> SUFFICES ASSUME NEW y \in N, NEW d \in Side
               PROVE  B[y] = B[U.child[d][y]] + Lack(y, d, NULL, "left") + Black(U, y)
    OBVIOUS
  <2> DEFINE c == T.child[d][y]
  <2>1. c \in N \cup {NULL} /\ c \in Link /\ U.child[d][y] = c
    BY <1>3, <1>14, ShapeSays DEF Link
  <2>2. c # NULL => T.parent[c] = y
    BY ShapeSays
  <2>3. bh[y] = bh[c] + Lack(y, d, NULL, "left") + Black(T, y) /\ Lack(y, d, NULL, "left") = 0
    BY <1>3, <1>16 DEF Lack
  <2>4. bh[c] \in Nat /\ bh[par] \in Nat /\ bh[unc] \in Nat /\ bh[y] \in Nat
    BY <2>1, <1>1, <1>2, <1>3, <1>16
  <2> HIDE DEF c
  <2>5. CASE y = g
    <3>1. c = par \/ c = unc
      <4>1. \A e \in Side : e = ps \/ e = Opposite(ps)
        BY <1>1, Opposites
      <4> QED
        BY <4>1, <2>5, <1>1, <1>2 DEF c
    <3>2. Black(U, y) = 0 /\ B[y] = bh[g]
      BY <2>5, <1>1, <1>2, <1>3, <1>15, <1>17 DEF Black
    <3> QED
      BY <3>1, <3>2, <2>1, <2>3, <2>4, <1>2, <1>17
  <2>6. CASE y # g
    <3>1. B[c] = bh[c]
      <4>1. c # par /\ c # unc
        BY <2>2, <2>6, <1>1, <1>2, <1>3
      <4> QED
        BY <4>1, <2>1, <1>17
    <3>2. CASE y = par \/ y = unc
      <4>1. Black(U, y) = 1 /\ Black(T, y) = 0
        BY <3>2, <2>6, <1>1, <1>6, <1>15 DEF Black
      <4> QED
        BY <4>1, <3>1, <3>2, <2>1, <2>3, <2>4, <1>17
    <3>3. CASE y # par /\ y # unc
      <4>1. Black(U, y) = Black(T, y)
        BY <3>3, <2>6, <1>15 DEF Black
      <4>2. B[y] = bh[y]
        BY <3>3, <1>3, <1>17
      <4> QED
        BY <4>1, <4>2, <3>1, <2>1, <2>3
    <3> QED
      BY <3>2, <3>3
  <2> QED
    BY <2>5, <2>6
<1>20. Inserting(U, N, B, g)
  BY <1>1, <1>15, <1>17, <1>18, <1>19 DEF Inserting, Heights
<1> QED
  BY <1>14, <1>20 DEF U, g

\* An inner node is rotated up: its parent is the one in its place.
LEMMA InsertInnerKeeps ==
    ASSUME KeysOrdered, NEW T, NEW N, NEW sub, Shape(T, N, sub), NEW bh, NEW x,
           Inserting(T, N, bh, x), RedRed(T, x), IsInner(T, x)
    PROVE  LET U == InsertInner(T, x)
               par == T.parent[x]
           IN /\ \E sub1 : Shape(U, N, sub1)
              /\ Inserting(U, N, bh, par)
              /\ par \in N /\ ParentSide(T, x) \in Side
              /\ x = T.child[Opposite(ParentSide(T, x))][par]
<1> DEFINE par == T.parent[x]
           g == Grandparent(T, x)
           ps == ParentSide(T, x)
           o == Opposite(ps)
           low == T.child[ps][par]
           mid == T.child[ps][x]
           out == T.child[o][x]
           U == InsertInner(T, x)
<1>1. /\ par \in N /\ T.red[par] /\ par # x /\ par # T.root
      /\ g \in N /\ ~T.red[g] /\ g # par /\ g # x
      /\ ps \in Side /\ T.parent[par] = g
      /\ SideOf(T, x, par) \in Side /\ T.child[SideOf(T, x, par)][par] = x
  BY RedRedNames
<1>2. /\ \A d \in Side : bh[par] = bh[T.child[d][par]] /\ bh[x] = bh[T.child[d][x]]
      /\ bh[par] = bh[x]
      /\ \A y \in N : T.red[y] /\ IsRed(T, T.parent[y]) => y = x
      /\ ~IsRed(T, T.root)
  BY UncleIs
<1>3. T \in Trees /\ N \subseteq Key /\ NULL \notin N /\ N \subseteq Link
  BY ShapeSays DEF Link
<1>4. U = Rotate(T, par, ps)
  BY DEF InsertInner
<1>5. o \in Side /\ o # ps /\ x = T.child[o][par]
  <2>1. SideOf(T, x, par) # ps
    BY DEF IsInner
  <2> QED
    BY <2>1, <1>1, Opposites
<1>6. x \in N /\ x # NULL /\ T.red[x]
  BY <1>3 DEF Inserting
<1>7. bh \in [Link -> Nat] /\ bh[NULL] = 0
      /\ \A y \in N : \A d \in Side : bh[y] = bh[T.child[d][y]] + Lack(y, d, NULL, "left") + Black(T, y)
  BY DEF Inserting, Heights
<1> HIDE DEF par, g, ps, U
<1>8. Shape(U, N, RotatedSub(T, sub, par, ps))
  BY <1>1, <1>4, <1>5, <1>6, RotatedShape
<1>9. /\ bh[par] \in Nat /\ Black(T, par) = 0 /\ Black(T, x) = 0
      /\ \A d \in Side : Lack(par, d, NULL, "left") = 0 /\ Lack(x, d, NULL, "left") = 0
  BY <1>1, <1>3, <1>6, <1>7 DEF Black, Lack
<1>a. Turn(T, par, ps, x, low, mid, out)
  BY <1>5, <1>6 DEF Turn
<1>b. bh[par] = bh[low] /\ bh[par] = bh[mid] /\ bh[x] = bh[par] /\ bh[x] = bh[out]
  <2>1. bh[par] = bh[low]
    BY <1>1, <1>2
  <2>2. bh[x] = bh[mid]
    BY <1>1, <1>2
  <2>3. bh[x] = bh[out]
    BY <1>5, <1>2
  <2> QED
    BY <2>1, <2>2, <2>3, <1>2
<1> HIDE DEF low, mid, out, o
<1>10. /\ Level(T, bh, par, ps, low, NULL, "left") /\ Level(T, bh, par, o, mid, NULL, "left")
       /\ Level(T, bh, x, ps, par, NULL, "left") /\ Level(T, bh, x, o, out, NULL, "left")
  BY <1>1, <1>5, <1>9, <1>b DEF Level
<1>11. LevelAside(T, N, bh, par, x, NULL, "left")
  <2> SUFFICES ASSUME NEW y \in N \ {par, x}, NEW d \in Side
               PROVE  Level(T, bh, y, d, IF T.child[d][y] = par THEN x ELSE T.child[d][y], NULL, "left")
    BY DEF LevelAside
  <2>1. Level(T, bh, y, d, T.child[d][y], NULL, "left")
    BY <1>7 DEF Level
  <2>2. T.child[d][y] = par => Level(T, bh, y, d, x, NULL, "left")
    BY <2>1, <1>2 DEF Level
  <2> QED
    BY <2>1, <2>2
<1>12. Heights(U, N, bh, NULL, "left")
  <2>1. Level(T, bh, par, Opposite(ps), mid, NULL, "left") /\ Level(T, bh, x, Opposite(ps), out, NULL, "left")
    BY <1>10 DEF o
  <2>2. bh \in [Link -> Nat] /\ bh[NULL] = 0
    BY <1>7
  <2>3. Heights(Rotate(T, par, ps), N, bh, NULL, "left")
    BY <2>1, <2>2, <1>1, <1>a, <1>10, <1>11, RotatedHeights
  <2> QED
    BY <2>3, <1>4
<1>13. InsertColours(U, N, par)
  <2>1. \A y \in N \ {par, x, mid} : T.red[y] /\ IsRed(T, T.parent[y]) => y = par
    BY <1>2
  <2>2. ~IsRed(T, mid)
    <3> SUFFICES ASSUME mid # NULL, T.red[mid] PROVE FALSE
      BY DEF IsRed
    <3>1. mid \in N /\ T.parent[mid] = x /\ mid # x
      BY <1>1, <1>6, ShapeSays DEF mid
    <3> QED
      BY <3>1, <1>2, <1>6 DEF IsRed
  <2>3. ~IsRed(T, T.parent[par])
    BY <1>1 DEF IsRed
  <2>4. InsertColours(Rotate(T, par, ps), N, par)
    BY <2>1, <2>2, <2>3, <1>1, <1>2, <1>a, RotatedColours
  <2> QED
    BY <2>4, <1>4
<1>14. U.red = T.red
  BY <1>1, <1>4, <1>a, RotatedChildren
<1>15. Inserting(U, N, bh, par)
  BY <1>1, <1>12, <1>13, <1>14 DEF Inserting
<1>16. x = T.child[Opposite(ps)][par]
  BY <1>5 DEF o
<1> QED
  BY <1>1, <1>8, <1>15, <1>16 DEF par, ps, U

\* T with a black and n red, and with n then rotated down on side s.
Dyed(T, a, n) == Paint(Paint(T, a, FALSE), n, TRUE)
Traded(T, a, n, s) == Rotate(Dyed(T, a, n), n, s)

\* Two nodes are painted, the first black and the second red.
LEMMA PaintedPair ==
    ASSUME NEW T, NEW N, NEW sub, Shape(T, N, sub), NEW a \in N, NEW n \in N, a # n
    PROVE  LET U == Dyed(T, a, n) IN
           /\ U.root = T.root /\ U.child = T.child /\ U.parent = T.parent
           /\ \A m \in N : (U.red[m] <=> (m = n \/ (m # a /\ T.red[m])))
<1> DEFINE T0 == Paint(T, a, FALSE)
           U == Paint(T0, n, TRUE)
<1>1. N \subseteq Key
  BY ShapeSays
<1>2. /\ T0.root = T.root /\ T0.child = T.child /\ T0.parent = T.parent
      /\ \A m \in Key : (T0.red[m] <=> m # a /\ T.red[m])
  BY PaintedBlack
<1>3. Shape(T0, N, sub)
  BY PaintedBlackShape
<1> HIDE DEF T0
<1>4. /\ U.root = T0.root /\ U.child = T0.child /\ U.parent = T0.parent
      /\ \A m \in Key : (U.red[m] <=> (m = n \/ T0.red[m]))
  BY <1>3, PaintedRed, ZenonT(60)
<1> HIDE DEF U
<1>5. /\ U.root = T.root /\ U.child = T.child /\ U.parent = T.parent
      /\ \A m \in N : (U.red[m] <=> (m = n \/ (m # a /\ T.red[m])))
  BY <1>1, <1>2, <1>4
<1> QED
  BY <1>5 DEF Dyed, U, T0

\* Painting a parent and its child keeps the shape.
LEMMA PaintedPairShape ==
    ASSUME NEW T, NEW N, NEW sub, Shape(T, N, sub), NEW a \in N, NEW n \in N
    PROVE  Shape(Dyed(T, a, n), N, sub)
<1> DEFINE T0 == Paint(T, a, FALSE)
<1>1. Shape(T0, N, sub)
  BY PaintedBlackShape
<1> HIDE DEF T0
<1>2. Shape(Paint(T0, n, TRUE), N, sub)
  BY <1>1, PaintedRedShape
<1> QED
  BY <1>2 DEF Dyed, T0

\* A rotation after the two have traded colours keeps a search tree.
LEMMA TradedShape ==
    ASSUME KeysOrdered, NEW T, NEW N, NEW sub, Shape(T, N, sub), NEW n \in N, NEW s \in Side,
           NEW up \in N, up = T.child[Opposite(s)][n], up # n
    PROVE  \E sub1 : Shape(Traded(T, up, n, s), N, sub1)
<1> DEFINE T1 == Dyed(T, up, n)
<1>1. Shape(T1, N, sub)
  BY PaintedPairShape
<1>2. T1.child = T.child
  BY PaintedPair
<1> HIDE DEF T1
<1>3. T1.child[Opposite(s)][n] # NULL
  BY <1>2, ShapeSays
<1>4. Shape(Rotate(T1, n, s), N, RotatedSub(T1, sub, n, s))
  BY <1>1, <1>3, RotatedShape
<1> QED
  BY <1>4 DEF Traded, T1

\* A node and its red child trade their colours in a rotation: the end of an insertion, and
\* two of the cases of a removal.
LEMMA TradedColours ==
    ASSUME KeysOrdered, NEW T, NEW N, NEW sub, Shape(T, N, sub), NEW n \in N, NEW s \in Side,
           NEW up, NEW low, NEW mid, NEW out, Turn(T, n, s, up, low, mid, out),
           ~T.red[n], T.red[up], ~IsRed(T, low), ~IsRed(T, mid), ~IsRed(T, T.root),
           \A y \in N : T.red[y] /\ IsRed(T, T.parent[y]) => T.parent[y] = up,
           NEW bh, NEW q, NEW e, Heights(T, N, bh, q, e), q # up, ~(q = n /\ e = Opposite(s))
    PROVE  LET U == Traded(T, up, n, s) IN
           /\ InsertColours(U, N, NULL)
           /\ \E B : Heights(U, N, B, q, e)
           /\ \A y \in N : (U.red[y] <=> (y = n \/ (y # up /\ T.red[y])))
           /\ U.child[s][n] = low
           /\ \A y \in N \ {n, up} : \A d \in Side : T.child[d][y] # n => U.child[d][y] = T.child[d][y]
           /\ U.parent[n] = up
           /\ \A y \in N : y # n /\ T.parent[y] = up /\ y # mid => U.parent[y] = up
           /\ \A y \in N : T.parent[y] # up /\ y # n /\ y # up => U.parent[y] = T.parent[y]
<1> DEFINE o == Opposite(s)
           T1 == Dyed(T, up, n)
           U == Traded(T, up, n, s)
           B == [bh EXCEPT ![up] = bh[n], ![n] = bh[up]]
<1>1. T \in Trees /\ N \subseteq Key /\ NULL \notin N /\ N \subseteq Link
  BY ShapeSays DEF Link
<1>2. /\ o \in Side /\ o # s /\ \A d \in Side : d = s \/ d = o
      /\ up \in N /\ n # up /\ T.parent[up] = n /\ up # T.root
      /\ mid \in N \cup {NULL} /\ mid # n /\ mid # up /\ (mid # NULL => T.parent[mid] = up)
      /\ low \in N \cup {NULL} /\ low # n /\ low # up
  <2>1. o \in Side /\ o # s /\ \A d \in Side : d = s \/ d = o
    BY Opposites
  <2> HIDE DEF o
  <2> QED
    BY <2>1, RotationNames
<1>3. bh \in [Link -> Nat] /\ bh[NULL] = 0
      /\ \A y \in N : \A d \in Side : bh[y] = bh[T.child[d][y]] + Lack(y, d, q, e) + Black(T, y)
  BY DEF Heights
<1>4. up = T.child[o][n]
  BY DEF Turn
<1>5. low = T.child[s][n]
  BY DEF Turn
<1>6. mid = T.child[s][up]
  BY DEF Turn
<1>11. out = T.child[o][up]
  BY DEF Turn
<1> HIDE DEF o, U
<1>7. up \in N /\ up # n
  BY <1>2
<1>8. Shape(T1, N, sub)
  BY <1>7, PaintedPairShape
<1>9. U = Rotate(T1, n, s)
  BY DEF Traded, U
<1>10. /\ T1.root = T.root /\ T1.child = T.child /\ T1.parent = T.parent
       /\ \A m \in N : (T1.red[m] <=> (m = n \/ (m # up /\ T.red[m])))
  BY <1>7, PaintedPair
<1> HIDE DEF T1
<1>12. Turn(T1, n, s, up, low, mid, out)
  BY <1>10 DEF Turn
<1>13. InsertColours(U, N, NULL)
  <2>1. ASSUME NEW y \in N \ {n, up, mid}, T1.red[y], IsRed(T1, T1.parent[y]) PROVE FALSE
    <3> DEFINE z == T.parent[y]
    <3>1. T.red[y] /\ z # NULL /\ T1.red[z]
      BY <2>1, <1>10 DEF IsRed
    <3> HIDE DEF z
    <3>2. y # T.root /\ z \in N /\ SideFor(y, z) \in Side /\ T.child[SideFor(y, z)][z] = y
      <4>1. y # T.root /\ z \in N /\ T.child[SideFor(y, z)][z] = y
        BY <3>1, ShapeSaysAbove DEF z
      <4> QED
        BY <4>1 DEF SideFor, Side
    <3>3. CASE z = n
      <4>1. y = up \/ y = low
        BY <3>2, <3>3, <1>2, <1>4, <1>5
      <4> QED
        BY <4>1, <2>1, <3>1, <1>1 DEF IsRed
    <3>4. CASE z # n
      <4>1. z # up /\ T.red[z]
        BY <3>1, <3>2, <3>4, <1>10
      <4> QED
        BY <3>1, <4>1 DEF IsRed, z
    <3> QED
      BY <3>3, <3>4
  <2>2. ~IsRed(T1, mid)
    BY <1>1, <1>2, <1>10 DEF IsRed
  <2>3. ~T1.red[up]
    BY <1>2, <1>10
  <2>4. n # T1.root => ~IsRed(T1, T1.root)
    <3> SUFFICES ASSUME n # T.root, T.root # NULL PROVE ~T1.red[T.root]
      BY <1>10 DEF IsRed
    <3>1. T.root \in N
      BY ShapeSaysAbove
    <3> QED
      BY <3>1, <1>10 DEF IsRed
  <2>5. /\ \A y \in N \ {n, up, mid} : T1.red[y] /\ IsRed(T1, T1.parent[y]) => y = NULL
        /\ IsRed(T1, mid) /\ T1.red[n] => mid = NULL
        /\ T1.red[n] /\ T1.red[up] => n = NULL
        /\ T1.red[up] /\ IsRed(T1, T1.parent[n]) => up = NULL
        /\ n = T1.root => (T1.red[up] => up = NULL)
        /\ n # T1.root => (IsRed(T1, T1.root) => T1.root = NULL)
    BY <2>1, <2>2, <2>3, <2>4
  <2>6. InsertColours(Rotate(T1, n, s), N, NULL)
    BY <2>5, <1>8, <1>12, RotatedColours
  <2> QED
    BY <2>6, <1>9
<1>14. /\ B \in [Link -> Nat] /\ B[NULL] = 0 /\ B[up] = bh[n] /\ B[n] = bh[up]
       /\ \A y \in Link : y # up /\ y # n => B[y] = bh[y]
  BY <1>1, <1>2, <1>3 DEF Link
<1> HIDE DEF B
<1>15. /\ Lack(n, o, q, e) = 0 /\ \A d \in Side : Lack(up, d, q, e) = 0
       /\ Lack(n, s, q, e) \in Nat
       /\ Black(T1, n) = 0 /\ Black(T1, up) = 1 /\ Black(T, n) = 1 /\ Black(T, up) = 0
       /\ \A y \in N \ {n, up} : Black(T1, y) = Black(T, y)
  BY <1>1, <1>2, <1>10 DEF Lack, Black, o
<1>16. /\ bh[n] \in Nat /\ bh[up] \in Nat
       /\ \A y \in N, d \in Side : T.child[d][y] \in Link /\ bh[T.child[d][y]] \in Nat
  <2>1. \A y \in N, d \in Side : T.child[d][y] \in Link
    BY ShapeSays DEF Link
  <2> QED
    BY <2>1, <1>1, <1>2, <1>3
<1>17. bh[n] = bh[up] + 1 /\ bh[n] = bh[low] + Lack(n, s, q, e) + 1
       /\ \A d \in Side : bh[up] = bh[T.child[d][up]]
  <2>1. bh[n] = bh[up] + Lack(n, o, q, e) + Black(T, n) /\ bh[n] = bh[low] + Lack(n, s, q, e) + Black(T, n)
    BY <1>2, <1>3, <1>4, <1>5
  <2>2. \A d \in Side : bh[up] = bh[T.child[d][up]] + Lack(up, d, q, e) + Black(T, up)
    BY <1>2, <1>3
  <2> QED
    BY <2>1, <2>2, <1>2, <1>15, <1>16
<1>18. Level(T1, B, n, s, low, q, e)
  <2>1. B[low] = bh[low] /\ bh[low] \in Nat
    BY <1>1, <1>2, <1>3, <1>14 DEF Link
  <2> QED
    BY <2>1, <1>14, <1>15, <1>16, <1>17 DEF Level
<1>19. Level(T1, B, n, o, mid, q, e)
  <2>1. bh[mid] = bh[up]
    BY <1>6, <1>17
  <2>2. B[mid] = bh[mid]
    BY <1>1, <1>2, <1>14 DEF Link
  <2> QED
    BY <2>1, <2>2, <1>14, <1>15, <1>16 DEF Level
<1>20. Level(T1, B, up, s, n, q, e)
  BY <1>2, <1>14, <1>15, <1>16, <1>17 DEF Level
<1>21. Level(T1, B, up, o, out, q, e)
  <2>1. out \in N \cup {NULL} /\ out # up /\ out # n
    BY RotationNames
  <2>2. B[out] = bh[out]
    BY <2>1, <1>1, <1>14 DEF Link
  <2>3. bh[up] = bh[out]
    BY <1>2, <1>11, <1>17
  <2>4. B[up] = bh[n] /\ bh[n] = bh[up] + 1 /\ bh[up] \in Nat
    BY <1>14, <1>16, <1>17
  <2>5. Lack(up, o, q, e) = 0 /\ Black(T1, up) = 1
    BY <1>2, <1>15
  <2> QED
    BY <2>2, <2>3, <2>4, <2>5 DEF Level
<1>22. LevelAside(T1, N, B, n, up, q, e)
  <2> SUFFICES ASSUME NEW y \in N \ {n, up}, NEW d \in Side
               PROVE  Level(T1, B, y, d, IF T1.child[d][y] = n THEN up ELSE T1.child[d][y], q, e)
    BY DEF LevelAside
  <2> DEFINE c == T.child[d][y]
  <2>1. c \in Link /\ c # up
    <3>1. c \in N \cup {NULL} /\ (c # NULL => T.parent[c] = y)
      BY ShapeSays
    <3> QED
      BY <3>1, <1>1, <1>2 DEF Link
  <2>2. B[y] = bh[y] /\ bh[y] = bh[c] + Lack(y, d, q, e) + Black(T, y)
    BY <1>1, <1>3, <1>14
  <2> HIDE DEF c
  <2>3. (c = n => B[up] = bh[c]) /\ (c # n => B[c] = bh[c])
    BY <2>1, <1>14
  <2>4. Black(T1, y) = Black(T, y)
    BY <1>15
  <2>5. Level(T1, B, y, d, IF c = n THEN up ELSE c, q, e)
    BY <2>2, <2>3, <2>4 DEF Level
  <2> QED
    BY <2>5, <1>10 DEF c
<1>23. Heights(U, N, B, q, e)
  <2>1. B \in [Link -> Nat] /\ B[NULL] = 0
    BY <1>14
  <2>2. Level(T1, B, n, Opposite(s), mid, q, e) /\ Level(T1, B, up, Opposite(s), out, q, e)
    BY <1>19, <1>21 DEF o
  <2>3. Heights(Rotate(T1, n, s), N, B, q, e)
    BY <2>1, <2>2, <1>8, <1>12, <1>18, <1>20, <1>22, RotatedHeights
  <2> QED
    BY <2>3, <1>9
<1>24. /\ U.red = T1.red
       /\ \A y \in N \ {n, up} : \A d \in Side :
             U.child[d][y] = IF T1.child[d][y] = n THEN up ELSE T1.child[d][y]
       /\ U.child[s][n] = low
  BY <1>8, <1>9, <1>12, RotatedChildren
<1>25. \A y \in Key : U.parent[y] = IF y = n THEN up ELSE IF y = up THEN T.parent[n]
                                    ELSE IF y = mid THEN n ELSE T.parent[y]
  <2>1. T1 \in Trees /\ n \in Key
    BY <1>1, <1>8, ShapeSays
  <2>2. T1.child[Opposite(s)][n] # NULL /\ up = T1.child[Opposite(s)][n] /\ mid = T1.child[s][up]
    BY <1>12 DEF Turn
  <2>3. \A y \in Key : U.parent[y] = IF y = n THEN up ELSE IF y = up THEN T1.parent[n]
                                      ELSE IF y = mid THEN n ELSE T1.parent[y]
    BY <2>1, <2>2, <1>9, Rotated
  <2> QED
    BY <2>3, <1>10
<1>26. /\ \A y \in N : (U.red[y] <=> (y = n \/ (y # up /\ T.red[y])))
       /\ U.child[s][n] = low
       /\ \A y \in N \ {n, up} : \A d \in Side : T.child[d][y] # n => U.child[d][y] = T.child[d][y]
  BY <1>10, <1>24
<1>27. /\ U.parent[n] = up
       /\ \A y \in N : y # n /\ T.parent[y] = up /\ y # mid => U.parent[y] = up
       /\ \A y \in N : T.parent[y] # up /\ y # n /\ y # up => U.parent[y] = T.parent[y]
  <2>1. T.parent[up] = n /\ n # up
    BY <1>2
  <2>2. mid # NULL => T.parent[mid] = up
    BY <1>2
  <2> QED
    BY <2>1, <2>2, <1>1, <1>2, <1>25
<1> QED
  BY <1>13, <1>23, <1>26, <1>27 DEF U

\* An outer node: its parent takes the grandparent's place and colour, and the loop is over.
LEMMA InsertOuterKeeps ==
    ASSUME KeysOrdered, NEW T, NEW N, NEW sub, Shape(T, N, sub), NEW bh, NEW x,
           Inserting(T, N, bh, x), RedRed(T, x), ~IsInner(T, x), ~IsRed(T, Uncle(T, x))
    PROVE  LET U == InsertOuter(T, x) IN
           /\ \E sub1 : Shape(U, N, sub1)
           /\ \E B : Inserting(U, N, B, x)
           /\ ~RedRed(U, x)
<1> DEFINE par == T.parent[x]
           g == Grandparent(T, x)
           ps == ParentSide(T, x)
           o == Opposite(ps)
           unc == Uncle(T, x)
           mid == T.child[o][par]
           U == InsertOuter(T, x)
<1>1. /\ par \in N /\ T.red[par] /\ par # x /\ par # T.root
      /\ g \in N /\ ~T.red[g] /\ g # par /\ g # x
      /\ ps \in Side /\ T.child[ps][g] = par /\ T.parent[par] = g
      /\ SideOf(T, x, par) \in Side /\ T.child[SideOf(T, x, par)][par] = x
  BY RedRedNames
<1>2. /\ unc = T.child[o][g]
      /\ \A y \in N : T.red[y] /\ IsRed(T, T.parent[y]) => y = x
      /\ ~IsRed(T, T.root)
  BY UncleIs
<1>3. T \in Trees /\ N \subseteq Key /\ NULL \notin N /\ N \subseteq Link
  BY ShapeSays DEF Link
<1>4. U = Traded(T, par, g, o)
  BY DEF InsertOuter, Traded, Dyed
<1>5. /\ o \in Side /\ o # ps /\ Opposite(o) = ps
      /\ T.child[ps][par] = x
  <2>1. SideOf(T, x, par) = ps
    BY DEF IsInner
  <2> QED
    BY <2>1, <1>1, Opposites
<1>6. x \in N /\ T.red[x] /\ T.parent[x] = par /\ ~IsRed(T, unc) /\ Heights(T, N, bh, NULL, "left")
  BY DEF Inserting
<1>7. mid \in N \cup {NULL} /\ mid # x /\ ~IsRed(T, mid)
  <2>1. mid \in N \cup {NULL} /\ (mid # NULL => T.parent[mid] = par)
    BY <1>1, <1>5, ShapeSays
  <2>2. mid # x
    BY <1>1, <1>3, <1>5, <1>6, <2>1, ChildOfOne
  <2> QED
    BY <2>1, <2>2, <1>1, <1>2, <1>3 DEF IsRed
<1> HIDE DEF par, g, ps, o, unc, U
<1>a. Turn(T, g, o, par, unc, mid, x)
  BY <1>1, <1>2, <1>3, <1>5 DEF Turn
<1>b. par = T.child[Opposite(o)][g]
  BY <1>1, <1>5
<1> HIDE DEF mid
<1>8. /\ ~T.red[g] /\ T.red[par] /\ ~IsRed(T, unc) /\ ~IsRed(T, mid) /\ ~IsRed(T, T.root)
      /\ \A y \in N : T.red[y] /\ IsRed(T, T.parent[y]) => T.parent[y] = par
      /\ NULL # par /\ NULL # g /\ g \in N /\ o \in Side
  BY <1>1, <1>2, <1>3, <1>5, <1>6, <1>7
<1>9. LET V == Traded(T, par, g, o) IN
      /\ InsertColours(V, N, NULL)
      /\ \E B : Heights(V, N, B, NULL, "left")
      /\ \A y \in N : (V.red[y] <=> (y = g \/ (y # par /\ T.red[y])))
      /\ \A y \in N : y # g /\ T.parent[y] = par /\ y # mid => V.parent[y] = par
  BY <1>6, <1>8, <1>a, TradedColours
<1>10. \E sub1 : Shape(U, N, sub1)
  <2>1. par \in N /\ g \in N /\ o \in Side /\ par = T.child[Opposite(o)][g] /\ par # g
    BY <1>1, <1>8, <1>b
  <2> QED
    BY <2>1, <1>4, TradedShape
<1>11. /\ InsertColours(U, N, NULL)
       /\ \E B : Heights(U, N, B, NULL, "left")
       /\ U.red[x] /\ ~U.red[par] /\ U.parent[x] = par
  BY <1>1, <1>4, <1>6, <1>7, <1>9
<1>12. InsertColours(U, N, x)
  BY <1>3, <1>11, <1>6 DEF InsertColours, IsRed
<1>13. (\E B : Inserting(U, N, B, x)) /\ ~RedRed(U, x)
  BY <1>6, <1>11, <1>12 DEF Inserting, RedRed, IsRed
<1> QED
  BY <1>10, <1>13 DEF U

\* The root is painted black at the end of an insertion, and of a removal that has climbed
\* to it.
LEMMA PaintedRoot ==
    ASSUME NEW T, NEW N, NEW sub, Shape(T, N, sub), NEW bh, Heights(T, N, bh, NULL, "left"),
           \A y \in N : T.red[y] /\ IsRed(T, T.parent[y]) => T.parent[y] = T.root
    PROVE  LET U == Paint(T, T.root, FALSE) IN
           Shape(U, N, sub) /\ \E B : Whole(U, N, B)
<1> DEFINE r == T.root
           U == Paint(T, r, FALSE)
<1>1. T \in Trees /\ N \subseteq Key /\ NULL \notin N /\ N \subseteq Link /\ r \in Link
  BY ShapeSays DEF Link, Trees
<1>2. Shape(U, N, sub)
  <2>1. FALSE \in BOOLEAN
    OBVIOUS
  <2> QED
    BY <1>1, <2>1, PaintedShape
<1>3. CASE r = NULL
  <2>1. N = {} /\ U.root = NULL
    BY <1>1, <1>3, ShapeSays DEF Paint, Trees
  <2>2. Whole(U, N, bh)
    BY <2>1 DEF Whole, InsertColours, Heights, IsRed
  <2> QED
    BY <1>2, <2>2
<1>4. CASE r # NULL
  <2>1. r \in N
    BY <1>4, ShapeSaysAbove
  <2>2. /\ U.root = r /\ U.child = T.child /\ U.parent = T.parent
        /\ \A m \in Key : (U.red[m] <=> m # r /\ T.red[m])
    BY <2>1, PaintedBlack
  <2> HIDE DEF U
  <2> DEFINE B == [bh EXCEPT ![r] = bh[T.child["left"][r]] + 1]
  <2>3. bh \in [Link -> Nat] /\ bh[NULL] = 0
        /\ \A y \in N : \A d \in Side : bh[y] = bh[T.child[d][y]] + Lack(y, d, NULL, "left") + Black(T, y)
    BY DEF Heights
  <2>4. "left" \in Side /\ \A y \in N, d \in Side : T.child[d][y] \in Link /\ T.child[d][y] # r
    BY <1>4, ShapeSays DEF Link, Side
  <2>5. bh[T.child["left"][r]] \in Nat
    BY <2>1, <2>3, <2>4
  <2>6. /\ B \in [Link -> Nat] /\ B[NULL] = 0 /\ B[r] = bh[T.child["left"][r]] + 1
        /\ \A y \in Link : y # r => B[y] = bh[y]
    BY <1>1, <1>4, <2>1, <2>3, <2>5
  <2> HIDE DEF B
  <2>7. \A y \in N : \A d \in Side : B[y] = B[U.child[d][y]] + Lack(y, d, NULL, "left") + Black(U, y)
    <3> SUFFICES ASSUME NEW y \in N, NEW d \in Side
                 PROVE  B[y] = B[U.child[d][y]] + Lack(y, d, NULL, "left") + Black(U, y)
      OBVIOUS
    <3>1. B[U.child[d][y]] = bh[T.child[d][y]] /\ bh[T.child[d][y]] \in Nat
      BY <2>2, <2>3, <2>4, <2>6
    <3>2. Lack(y, d, NULL, "left") = 0 /\ Lack(y, "left", NULL, "left") = 0
      BY <1>1 DEF Lack
    <3>3. CASE y = r
      <4>1. Black(U, y) = 1
        BY <3>3, <1>1, <2>2 DEF Black
      <4>2. bh[T.child[d][r]] = bh[T.child["left"][r]]
        <5>1. Black(T, y) \in Nat
          BY DEF Black
        <5>2. /\ bh[y] = bh[T.child[d][y]] + Lack(y, d, NULL, "left") + Black(T, y)
              /\ bh[y] = bh[T.child["left"][y]] + Lack(y, "left", NULL, "left") + Black(T, y)
          BY <2>3, <2>4
        <5> QED
          BY <5>1, <5>2, <3>1, <3>2, <3>3, <2>5
      <4> QED
        BY <4>1, <4>2, <3>1, <3>2, <3>3, <2>5, <2>6
    <3>4. CASE y # r
      <4>1. Black(U, y) = Black(T, y) /\ B[y] = bh[y]
        BY <3>4, <1>1, <2>2, <2>6 DEF Black
      <4> QED
        BY <4>1, <3>1, <2>3
    <3> QED
      BY <3>3, <3>4
  <2>8. InsertColours(U, N, NULL)
    <3>1. ~IsRed(U, U.root)
      BY <1>1, <2>1, <2>2 DEF IsRed
    <3>2. ASSUME NEW y \in N, U.red[y], IsRed(U, U.parent[y]) PROVE FALSE
      <4>1. T.red[y] /\ T.parent[y] # NULL /\ U.red[T.parent[y]]
        BY <3>2, <1>1, <2>2 DEF IsRed
      <4>2. T.parent[y] \in N
        BY <4>1, ShapeSaysAbove
      <4>3. T.parent[y] # r /\ T.red[T.parent[y]]
        BY <4>1, <4>2, <1>1, <2>2
      <4> QED
        BY <4>1, <4>3 DEF IsRed
    <3> QED
      BY <3>1, <3>2 DEF InsertColours
  <2>9. Whole(U, N, B)
    BY <2>6, <2>7, <2>8 DEF Whole, Heights
  <2> QED
    BY <1>2, <2>9 DEF U
<1> QED
  BY <1>3, <1>4

\* rb_insert_color ends: with its root black the tree is whole.
LEMMA InsertDoneKeeps ==
    ASSUME NEW T, NEW N, NEW sub, Shape(T, N, sub), NEW bh, NEW x,
           Inserting(T, N, bh, x), ~RedRed(T, x)
    PROVE  LET U == Paint(T, T.root, FALSE) IN
           Shape(U, N, sub) /\ \E B : Whole(U, N, B)
<1>1. Heights(T, N, bh, NULL, "left")
  BY DEF Inserting
<1>2. \A y \in N : T.red[y] /\ IsRed(T, T.parent[y]) => T.parent[y] = T.root
  BY DEF Inserting, InsertColours, RedRed
<1> QED
  BY <1>1, <1>2, PaintedRoot

\* A black node is missing above x, the child of p on some side; or x is the root.
Lacking(T, N, bh, x, p) ==
    /\ IsRed(T, T.root) => T.root = x
    /\ \A y \in N : T.red[y] /\ IsRed(T, T.parent[y]) => x \in {y, T.parent[y]}
    /\ \/ p = NULL /\ x = T.root /\ Heights(T, N, bh, NULL, "left")
       \/ p \in N /\ \E s \in Side : T.child[s][p] = x /\ Heights(T, N, bh, p, s)

\* The end of a removal: a red node takes the missing black colour, or the root does.
LEMMA EraseDoneKeeps ==
    ASSUME NEW T, NEW N, NEW sub, Shape(T, N, sub), NEW bh, NEW x, NEW p,
           Lacking(T, N, bh, x, p), ~LacksBlack(T, x)
    PROVE  LET U == Paint(T, x, FALSE) IN
           Shape(U, N, sub) /\ \E B : Whole(U, N, B)
<1> DEFINE U == Paint(T, x, FALSE)
<1>1. T \in Trees /\ N \subseteq Key /\ NULL \notin N /\ N \subseteq Link
  BY ShapeSays DEF Link
<1>2. CASE p = NULL
  <2>1. x = T.root /\ Heights(T, N, bh, NULL, "left")
    BY <1>1, <1>2 DEF Lacking
  <2>2. ASSUME NEW y \in N, T.red[y], IsRed(T, T.parent[y]) PROVE T.parent[y] = T.root
    <3>1. T.parent[y] # NULL
      BY <2>2 DEF IsRed
    <3>2. y # T.root
      BY <3>1, ShapeSaysAbove
    <3> QED
      BY <2>1, <2>2, <3>2 DEF Lacking
  <2> QED
    BY <2>1, <2>2, PaintedRoot
<1>3. CASE p # NULL
  <2>1. PICK s \in Side : p \in N /\ T.child[s][p] = x /\ Heights(T, N, bh, p, s)
    BY <1>3 DEF Lacking
  <2>2. x \in N \cup {NULL} /\ (x # NULL => x # T.root /\ T.parent[x] = p)
    BY <2>1, ShapeSays
  <2>3. x # T.root
    BY <1>1, <2>1, <2>2, ShapeSays
  <2>4. x \in N /\ T.red[x] /\ x # p /\ x # NULL /\ x \in Key
    BY <2>1, <2>2, <2>3, <1>1, ShapeSays DEF LacksBlack, IsRed
  <2>5. /\ U.root = T.root /\ U.child = T.child /\ U.parent = T.parent
        /\ \A m \in Key : (U.red[m] <=> m # x /\ T.red[m])
    BY <2>4, PaintedBlack
  <2>6. Shape(U, N, sub)
    BY <2>4, PaintedBlackShape
  <2> HIDE DEF U
  <2> DEFINE B == [bh EXCEPT ![x] = @ + 1]
  <2>7. bh \in [Link -> Nat] /\ bh[NULL] = 0
        /\ \A y \in N : \A d \in Side : bh[y] = bh[T.child[d][y]] + Lack(y, d, p, s) + Black(T, y)
    BY <2>1 DEF Heights
  <2>8. bh[x] \in Nat
    BY <2>4, <2>7, <1>1
  <2>9. /\ B \in [Link -> Nat] /\ B[NULL] = 0 /\ B[x] = bh[x] + 1
        /\ \A y \in Link : y # x => B[y] = bh[y]
    BY <1>1, <2>4, <2>7, <2>8
  <2> HIDE DEF B
  <2>10. \A y \in N : \A d \in Side : B[y] = B[U.child[d][y]] + Lack(y, d, NULL, "left") + Black(U, y)
    <3> SUFFICES ASSUME NEW y \in N, NEW d \in Side
                 PROVE  B[y] = B[U.child[d][y]] + Lack(y, d, NULL, "left") + Black(U, y)
      OBVIOUS
    <3> DEFINE c == T.child[d][y]
    <3>1. c \in Link /\ (c # NULL => T.parent[c] = y /\ c # y) /\ U.child[d][y] = c
      BY <2>5, ShapeSays DEF Link
    <3>2. bh[y] = bh[c] + Lack(y, d, p, s) + Black(T, y)
      BY <2>7
    <3>3. bh[c] \in Nat /\ bh[y] \in Nat /\ y \in Link /\ Lack(y, d, NULL, "left") = 0
      BY <3>1, <1>1, <2>7 DEF Lack
    <3> HIDE DEF c
    <3>4. CASE c = x
      <4>1. y = p
        BY <3>1, <3>4, <2>2, <2>4
      <4>2. d = s
        BY <4>1, <3>4, <2>1, <2>4, ChildOfOne DEF c
      <4>3. Lack(y, d, p, s) = 1 /\ y # x /\ Black(U, y) = Black(T, y)
        BY <4>1, <4>2, <2>4, <2>5, <1>1 DEF Lack, Black
      <4> QED
        BY <4>3, <3>1, <3>2, <3>3, <3>4, <2>8, <2>9
    <3>5. CASE c # x
      <4>1. Lack(y, d, p, s) = 0
        BY <3>5, <2>1 DEF Lack, c
      <4>2. B[c] = bh[c]
        BY <3>1, <3>5, <2>9
      <4>3. CASE y = x
        <5>1. Black(U, y) = 1 /\ Black(T, y) = 0
          BY <4>3, <2>4, <2>5 DEF Black
        <5> QED
          BY <5>1, <4>1, <4>2, <4>3, <3>1, <3>2, <3>3, <2>9
      <4>4. CASE y # x
        <5>1. Black(U, y) = Black(T, y) /\ B[y] = bh[y]
          BY <4>4, <3>3, <1>1, <2>5, <2>9 DEF Black
        <5> QED
          BY <5>1, <4>1, <4>2, <3>1, <3>2, <3>3
      <4> QED
        BY <4>3, <4>4
    <3> QED
      BY <3>4, <3>5
  <2>11. InsertColours(U, N, NULL)
    <3>1. ~IsRed(U, U.root)
      <4> SUFFICES ASSUME T.root # NULL, U.red[T.root] PROVE FALSE
        BY <2>5 DEF IsRed
      <4>1. T.root \in Key
        BY <1>1 DEF Trees, Link
      <4>2. T.red[T.root]
        BY <4>1, <2>5
      <4> QED
        BY <4>2, <2>3 DEF Lacking, IsRed
    <3>2. ASSUME NEW y \in N, U.red[y], IsRed(U, U.parent[y]) PROVE FALSE
      <4>1. y # x /\ T.red[y] /\ T.parent[y] # NULL /\ U.red[T.parent[y]]
        BY <3>2, <1>1, <2>5 DEF IsRed
      <4>2. T.parent[y] \in N
        BY <4>1, ShapeSaysAbove
      <4>3. T.parent[y] # x /\ T.red[T.parent[y]]
        BY <4>1, <4>2, <1>1, <2>5
      <4> QED
        BY <4>1, <4>3 DEF IsRed, Lacking
    <3> QED
      BY <3>1, <3>2 DEF InsertColours
  <2>12. Whole(U, N, B)
    BY <2>9, <2>10, <2>11 DEF Whole, Heights
  <2> QED
    BY <2>6, <2>12 DEF U
<1> QED
  BY <1>2, <1>3

\* The nodes around one above which a black node is missing: there is a sibling.
LEMMA LackingSays ==
    ASSUME KeysOrdered, NEW T, NEW N, NEW sub, Shape(T, N, sub), NEW bh, NEW x, NEW p,
           Lacking(T, N, bh, x, p), LacksBlack(T, x)
    PROVE  LET s == SideOf(T, x, p)
               o == Opposite(s)
               sib == Sibling(T, x, p)
           IN /\ p \in N /\ s \in Side /\ o \in Side /\ o # s /\ T.child[s][p] = x
              /\ sib = T.child[o][p] /\ sib \in N /\ sib # x /\ sib # p /\ T.parent[sib] = p
              /\ x \in N \cup {NULL} /\ ~IsRed(T, x) /\ ~IsRed(T, T.root)
              /\ \A y \in N : T.red[y] => ~IsRed(T, T.parent[y])
              /\ Heights(T, N, bh, p, s)
              /\ bh[x] \in Nat /\ bh[sib] = bh[x] + 1 /\ bh[p] = bh[sib] + Black(T, p)
              /\ \A d \in Side : bh[sib] = bh[T.child[d][sib]] + Black(T, sib)
<1>1. T \in Trees /\ N \subseteq Key /\ NULL \notin N /\ N \subseteq Link
  BY ShapeSays DEF Link
<1>2. ~IsRed(T, x) /\ x # T.root
  BY DEF LacksBlack
<1>3. p # NULL
  BY <1>1, <1>2 DEF Lacking
<1>4. PICK s \in Side : p \in N /\ T.child[s][p] = x /\ Heights(T, N, bh, p, s)
  BY <1>3 DEF Lacking
<1> DEFINE o == Opposite(s)
           sib == T.child[o][p]
<1>5. o \in Side /\ o # s /\ \A d \in Side : d = s \/ d = o
  BY Opposites
<1>6. x \in N \cup {NULL} /\ sib \in N \cup {NULL}
  BY <1>4, <1>5, ShapeSays
<1>7. bh \in [Link -> Nat] /\ bh[NULL] = 0
      /\ \A y \in N : \A d \in Side : bh[y] = bh[T.child[d][y]] + Lack(y, d, p, s) + Black(T, y)
  BY <1>4 DEF Heights
<1>8. bh[x] \in Nat /\ bh[sib] \in Nat /\ bh[p] \in Nat /\ Black(T, p) \in Nat
  BY <1>1, <1>4, <1>6, <1>7 DEF Link, Black
<1>9. bh[sib] = bh[x] + 1 /\ bh[p] = bh[sib] + Black(T, p)
  <2>1. bh[p] = bh[x] + Lack(p, s, p, s) + Black(T, p) /\ bh[p] = bh[sib] + Lack(p, o, p, s) + Black(T, p)
    BY <1>4, <1>5, <1>7
  <2>2. Lack(p, s, p, s) = 1 /\ Lack(p, o, p, s) = 0
    BY <1>5 DEF Lack
  <2> QED
    BY <2>1, <2>2, <1>8
<1>10. sib # NULL /\ sib # x
  BY <1>7, <1>8, <1>9
<1>11. sib \in N /\ sib # p /\ T.parent[sib] = p
  BY <1>4, <1>5, <1>6, <1>10, ShapeSays
<1>12. \A d \in Side : bh[sib] = bh[T.child[d][sib]] + Black(T, sib)
  <2> SUFFICES ASSUME NEW d \in Side PROVE bh[sib] = bh[T.child[d][sib]] + Black(T, sib)
    OBVIOUS
  <2>1. Lack(sib, d, p, s) = 0
    BY <1>11 DEF Lack
  <2>2. T.child[d][sib] \in Link
    BY <1>11, ShapeSays DEF Link
  <2>3. bh[T.child[d][sib]] \in Nat
    BY <2>2, <1>7
  <2>4. bh[sib] = bh[T.child[d][sib]] + Lack(sib, d, p, s) + Black(T, sib)
    BY <1>7, <1>11
  <2> QED
    BY <2>1, <2>3, <2>4
<1>13. SideOf(T, x, p) = s
  BY <1>4, <1>10, <1>5 DEF SideOf, Side, Opposite
<1>14. sib = Sibling(T, x, p)
  BY <1>13 DEF Sibling
<1>15. ~IsRed(T, T.root)
  BY <1>2 DEF Lacking
<1>16. \A y \in N : T.red[y] => ~IsRed(T, T.parent[y])
  <2> SUFFICES ASSUME NEW y \in N, T.red[y], IsRed(T, T.parent[y]) PROVE FALSE
    OBVIOUS
  <2>1. x = y \/ x = T.parent[y]
    BY DEF Lacking
  <2>2. y # NULL
    BY <1>1
  <2> QED
    BY <2>1, <2>2, <1>2 DEF IsRed
<1> QED
  BY <1>2, <1>4, <1>5, <1>6, <1>8, <1>9, <1>10, <1>11, <1>12, <1>13, <1>14, <1>15, <1>16

\* No two red nodes in a row, a black root and one black node missing: what the loop needs.
LEMMA LackingAgain ==
    ASSUME NEW T, NEW N, NEW bh, NEW x, NEW p \in N, NEW s \in Side,
           InsertColours(T, N, NULL), Heights(T, N, bh, p, s), T.child[s][p] = x, NULL \notin N
    PROVE  Lacking(T, N, bh, x, p)
<1>1. ~IsRed(T, T.root)
  BY DEF InsertColours, IsRed
<1>2. \A y \in N : T.red[y] => ~IsRed(T, T.parent[y])
  BY DEF InsertColours
<1> QED
  BY <1>1, <1>2 DEF Lacking

\* A red sibling is rotated up: the new one is black, and the parent red.
LEMMA EraseRedSiblingKeeps ==
    ASSUME KeysOrdered, NEW T, NEW N, NEW sub, Shape(T, N, sub), NEW bh, NEW x, NEW p,
           Lacking(T, N, bh, x, p), LacksBlack(T, x), IsRed(T, Sibling(T, x, p))
    PROVE  LET U == EraseRedSibling(T, x, p) IN
           /\ \E sub1 : Shape(U, N, sub1)
           /\ \E B : Lacking(U, N, B, x, p)
           /\ U.red[p] /\ ~T.red[p] /\ p \in N
           /\ LacksBlack(U, x) => ~IsRed(U, Sibling(U, x, p))
<1> DEFINE s == SideOf(T, x, p)
           o == Opposite(s)
           sib == Sibling(T, x, p)
           mid == T.child[s][sib]
           out == T.child[o][sib]
           U == EraseRedSibling(T, x, p)
<1>1. /\ p \in N /\ s \in Side /\ o \in Side /\ o # s /\ T.child[s][p] = x
      /\ sib = T.child[o][p] /\ sib \in N /\ sib # x /\ sib # p /\ T.parent[sib] = p
      /\ x \in N \cup {NULL} /\ ~IsRed(T, x) /\ ~IsRed(T, T.root)
      /\ \A y \in N : T.red[y] => ~IsRed(T, T.parent[y])
      /\ Heights(T, N, bh, p, s)
  BY LackingSays
<1>2. N \subseteq Key /\ NULL \notin N
  BY ShapeSays
<1>3. U = Traded(T, sib, p, s)
  BY DEF EraseRedSibling, Traded, Dyed
<1>4. T.red[sib]
  BY DEF IsRed
<1> HIDE DEF s, o, U, sib
<1>5. ~T.red[p]
  BY <1>1, <1>2, <1>4 DEF IsRed
<1>6. ~IsRed(T, mid)
  <2>1. mid \in N \cup {NULL} /\ (mid # NULL => T.parent[mid] = sib)
    BY <1>1, ShapeSays
  <2> HIDE DEF mid
  <2> QED
    BY <2>1, <1>1, <1>2, <1>4 DEF IsRed
<1>7. sib = T.child[Opposite(s)][p]
  BY <1>1 DEF o
<1>8. Turn(T, p, s, sib, x, mid, out)
  BY <1>1, <1>2, <1>7 DEF Turn, o
<1> HIDE DEF mid, out
<1>9. \E sub1 : Shape(U, N, sub1)
  BY <1>1, <1>3, <1>7, TradedShape
<1>10. /\ InsertColours(U, N, NULL)
       /\ \E B : Heights(U, N, B, p, s)
       /\ \A y \in N : (U.red[y] <=> (y = p \/ (y # sib /\ T.red[y])))
       /\ U.child[s][p] = x
  <2>1. \A y \in N : T.red[y] /\ IsRed(T, T.parent[y]) => T.parent[y] = sib
    BY <1>1
  <2>2. p # sib /\ s # Opposite(s)
    BY <1>1 DEF o
  <2> QED
    BY <2>1, <2>2, <1>1, <1>3, <1>4, <1>5, <1>6, <1>8, TradedColours
<1>11. \E B : Lacking(U, N, B, x, p)
  <2>1. PICK B : Heights(U, N, B, p, s)
    BY <1>10
  <2>2. Lacking(U, N, B, x, p)
    BY <2>1, <1>1, <1>2, <1>10, LackingAgain
  <2> QED
    BY <2>2
<1>12. ASSUME LacksBlack(U, x) PROVE ~IsRed(U, Sibling(U, x, p))
  <2>1. PICK sub1 : Shape(U, N, sub1)
    BY <1>9
  <2>2. PICK B : Lacking(U, N, B, x, p)
    BY <1>11
  <2>3. Sibling(U, x, p) \in N /\ U.parent[Sibling(U, x, p)] = p
        /\ \A y \in N : U.red[y] => ~IsRed(U, U.parent[y])
    BY <2>1, <2>2, <1>12, LackingSays
  <2>4. IsRed(U, p)
    BY <1>1, <1>2, <1>10 DEF IsRed
  <2> QED
    BY <2>3, <2>4 DEF IsRed
<1> QED
  BY <1>1, <1>5, <1>9, <1>10, <1>11, <1>12 DEF U

\* Black nephews: the sibling turns red, and a black node is missing above the parent.
LEMMA EraseRecolourKeeps ==
    ASSUME KeysOrdered, NEW T, NEW N, NEW sub, Shape(T, N, sub), NEW bh, NEW x, NEW p,
           Lacking(T, N, bh, x, p), LacksBlack(T, x), ~IsRed(T, Sibling(T, x, p)),
           ~IsRed(T, Near(T, x, p)), ~IsRed(T, Far(T, x, p))
    PROVE  LET U == EraseRecolour(T, x, p) IN
           /\ Shape(U, N, sub)
           /\ \E B : Lacking(U, N, B, p, T.parent[p])
           /\ U.parent = T.parent /\ U.child = T.child /\ p \in N
<1> DEFINE s == SideOf(T, x, p)
           o == Opposite(s)
           sib == Sibling(T, x, p)
           U == Paint(T, sib, TRUE)
           w == bh[x]
           v == bh[x] + Black(T, p)
           B == [bh EXCEPT ![sib] = w, ![p] = v]
           q == T.parent[p]
<1>1. /\ p \in N /\ s \in Side /\ o \in Side /\ o # s /\ T.child[s][p] = x
      /\ sib = T.child[o][p] /\ sib \in N /\ sib # x /\ sib # p /\ T.parent[sib] = p
      /\ x \in N \cup {NULL} /\ ~IsRed(T, x) /\ ~IsRed(T, T.root)
      /\ \A y \in N : T.red[y] => ~IsRed(T, T.parent[y])
      /\ Heights(T, N, bh, p, s)
      /\ bh[x] \in Nat /\ bh[sib] = bh[x] + 1 /\ bh[p] = bh[sib] + Black(T, p)
      /\ \A d \in Side : bh[sib] = bh[T.child[d][sib]] + Black(T, sib)
  BY LackingSays
<1>p. p \in N
  BY <1>1
<1>2. N \subseteq Key /\ NULL \notin N /\ N \subseteq Link
  BY ShapeSays DEF Link
<1>3. \A d \in Side : d = s \/ d = o
  BY <1>1, Opposites
<1>4. ~T.red[sib] /\ ~IsRed(T, T.child[s][sib]) /\ ~IsRed(T, T.child[o][sib])
  BY <1>1, <1>2, Zenon DEF IsRed, Near, Far
<1>5. EraseRecolour(T, x, p) = U
  BY DEF EraseRecolour
<1> HIDE DEF s, o, sib
<1>6. sib \in N
  BY <1>1
<1>7. /\ U.root = T.root /\ U.child = T.child /\ U.parent = T.parent
      /\ \A m \in Key : (U.red[m] <=> (m = sib \/ T.red[m]))
  BY <1>6, PaintedRed, ZenonT(60)
<1>8. Shape(U, N, sub)
  BY <1>6, PaintedRedShape
<1> HIDE DEF U
<1>9. bh \in [Link -> Nat] /\ bh[NULL] = 0
      /\ \A y \in N : \A d \in Side : bh[y] = bh[T.child[d][y]] + Lack(y, d, p, s) + Black(T, y)
  BY <1>1 DEF Heights
<1>10. Black(T, p) \in Nat /\ Black(U, p) = Black(T, p) /\ Black(T, sib) = 1 /\ Black(U, sib) = 0
       /\ \A y \in N \ {sib} : Black(U, y) = Black(T, y)
  BY <1>1, <1>2, <1>4, <1>7 DEF Black
<1>11. /\ B \in [Link -> Nat] /\ B[NULL] = 0 /\ B[sib] = bh[x] /\ B[p] = bh[x] + Black(T, p)
       /\ \A y \in Link : y # sib /\ y # p => B[y] = bh[y]
  <2>1. bh[x] + Black(T, p) \in Nat
    BY <1>1, <1>10
  <2>2. p \in Link /\ sib \in Link /\ p # NULL /\ sib # NULL /\ sib # p /\ bh[x] \in Nat
    BY <1>1, <1>2
  <2>3. v \in Nat /\ w \in Nat
    BY <2>1, <2>2
  <2> HIDE DEF v, w
  <2>4. bh \in [Link -> Nat] /\ bh[NULL] = 0
    BY <1>9
  <2>5. /\ B \in [Link -> Nat] /\ B[NULL] = 0 /\ B[sib] = w /\ B[p] = v
        /\ \A y \in Link : y # sib /\ y # p => B[y] = bh[y]
    BY <2>2, <2>3, <2>4 DEF Link
  <2> QED
    BY <2>5 DEF w, v
<1> HIDE DEF B
<1>12. /\ q # NULL => q \in N /\ q # p /\ T.child[SideFor(p, q)][q] = p /\ SideFor(p, q) \in Side
       /\ q = NULL <=> p = T.root
  <2>1. SideFor(p, q) \in Side
    BY DEF SideFor, Side
  <2> QED
    BY <2>1, <1>1, <1>2, ShapeSaysAbove
<1>13. \A y \in N : \A d \in Side : B[y] = B[U.child[d][y]] + Lack(y, d, q, SideFor(p, q)) + Black(U, y)
  <2> SUFFICES ASSUME NEW y \in N, NEW d \in Side
               PROVE  B[y] = B[U.child[d][y]] + Lack(y, d, q, SideFor(p, q)) + Black(U, y)
    OBVIOUS
  <2> DEFINE c == T.child[d][y]
  <2>1. c \in Link /\ (c # NULL => T.parent[c] = y /\ c # y) /\ U.child[d][y] = c
    BY <1>7, ShapeSays DEF Link
  <2>2. bh[y] = bh[c] + Lack(y, d, p, s) + Black(T, y) /\ bh[c] \in Nat /\ bh[y] \in Nat
    BY <2>1, <1>2, <1>9
  <2> HIDE DEF c, q
  <2>3. CASE y = p
    <3>1. Lack(y, d, q, SideFor(p, q)) = 0
      BY <2>3, <1>1, <1>12, <1>2 DEF Lack
    <3>2. B[c] = bh[x]
      <4>1. CASE d = s
        <5>1. c = x /\ x # p
          BY <4>1, <2>1, <2>3, <1>1, <1>2 DEF c
        <5> QED
          BY <5>1, <2>1, <1>1, <1>11
      <4>2. CASE d = o
        BY <4>2, <2>3, <1>1, <1>11 DEF c
      <4> QED
        BY <4>1, <4>2, <1>3
    <3> QED
      BY <3>1, <3>2, <2>1, <2>3, <1>1, <1>10, <1>11
  <2>4. CASE y = sib
    <3>1. c # p /\ c # sib
      <4>1. T.parent[p] # sib
        <5>1. sib \in sub[p]
          BY <1>1, <1>2, ShapeSays
        <5>2. p # T.root => T.parent[p] \notin sub[p]
          BY <1>p, ShapeSaysAbove
        <5>3. p = T.root => T.parent[p] = NULL
          BY <1>p, ShapeSaysAbove
        <5> QED
          BY <5>1, <5>2, <5>3, <1>1, <1>2
      <4> QED
        BY <4>1, <2>1, <2>4, <1>1, <1>2
    <3>2. B[c] = bh[c] /\ bh[sib] = bh[c] + 1
      <4>1. bh[sib] = bh[c] + 1
        BY <2>4, <1>1, <1>10 DEF c
      <4> QED
        BY <4>1, <3>1, <2>1, <1>11
    <3>3. Lack(y, d, q, SideFor(p, q)) = 0
      <4>1. sib # q
        <5>1. sib \in sub[p]
          BY <1>1, <1>2, ShapeSays
        <5>2. p # T.root => T.parent[p] \notin sub[p]
          BY <1>p, ShapeSaysAbove
        <5> QED
          BY <5>1, <5>2, <1>1, <1>2, <1>12 DEF q
      <4> QED
        BY <4>1, <2>4 DEF Lack
    <3>4. B[y] = bh[x] /\ bh[sib] = bh[x] + 1 /\ bh[x] \in Nat /\ Black(U, y) = 0
      BY <2>4, <1>1, <1>10, <1>11
    <3> QED
      BY <3>2, <3>3, <3>4, <2>1, <2>2
  <2>5. CASE y # p /\ y # sib
    <3>1. B[y] = bh[y] /\ Black(U, y) = Black(T, y) /\ Lack(y, d, p, s) = 0
      BY <2>5, <1>2, <1>10, <1>11 DEF Lack
    <3>2. c # sib
      BY <2>1, <2>5, <1>1, <1>2
    <3>3. CASE c = p
      <4>1. y = q
        BY <3>3, <2>1, <1>1, <1>2 DEF q
      <4>2. d = SideFor(p, q)
        <5>1. T.child[d][q] = p /\ T.child[SideFor(p, q)][q] = p /\ SideFor(p, q) \in Side /\ p # NULL
          BY <3>3, <4>1, <1>1, <1>2, <1>12 DEF c
        <5> QED
          BY <5>1, <4>1, ChildOfOne
      <4>3. Lack(y, d, q, SideFor(p, q)) = 1
        BY <4>1, <4>2 DEF Lack
      <4>4. bh[p] = bh[x] + 1 + Black(T, p) /\ B[c] = bh[x] + Black(T, p)
        BY <3>3, <1>1, <1>11
      <4> QED
        BY <4>3, <4>4, <3>1, <3>3, <2>1, <2>2, <1>1, <1>10
    <3>4. CASE c # p
      <4>1. Lack(y, d, q, SideFor(p, q)) = 0
        BY <3>4, <1>12, <2>5, <1>2 DEF Lack, c
      <4>2. B[c] = bh[c]
        BY <2>1, <3>2, <3>4, <1>11
      <4> QED
        BY <4>1, <4>2, <3>1, <2>1, <2>2
    <3> QED
      BY <3>3, <3>4
  <2> QED
    BY <2>3, <2>4, <2>5
<1>14. IsRed(U, U.root) => U.root = p
  <2> SUFFICES ASSUME T.root # NULL, U.red[T.root] PROVE FALSE
    BY <1>7 DEF IsRed
  <2>1. T.root \in N /\ T.root # sib
    BY <1>1, <1>2, ShapeSaysAbove
  <2> QED
    BY <2>1, <1>1, <1>2, <1>7 DEF IsRed
<1>15. \A y \in N : U.red[y] /\ IsRed(U, U.parent[y]) => p \in {y, U.parent[y]}
  <2> SUFFICES ASSUME NEW y \in N, U.red[y], IsRed(U, U.parent[y]), y # p, T.parent[y] # p PROVE FALSE
    BY <1>7
  <2> DEFINE z == T.parent[y]
  <2>1. y # sib /\ T.red[y] /\ z # NULL /\ U.red[z]
    BY <1>1, <1>2, <1>7 DEF IsRed
  <2>2. z \in N /\ SideFor(y, z) \in Side /\ T.child[SideFor(y, z)][z] = y
    BY <2>1, ShapeSaysAbove DEF SideFor, Side
  <2>3. z # sib
    BY <2>1, <2>2, <1>2, <1>3, <1>4 DEF IsRed
  <2>4. T.red[z]
    BY <2>1, <2>2, <2>3, <1>2, <1>7
  <2> QED
    BY <2>1, <2>4, <1>1 DEF IsRed
<1>16. Lacking(U, N, B, p, q)
  <2>1. Heights(U, N, B, q, SideFor(p, q))
    BY <1>11, <1>13 DEF Heights
  <2>2. CASE q = NULL
    <3>1. Heights(U, N, B, NULL, "left")
      <4>1. \A y \in N, d \in Side : Lack(y, d, q, SideFor(p, q)) = Lack(y, d, NULL, "left")
        BY <2>2, <1>2 DEF Lack
      <4> QED
        BY <4>1, <2>1 DEF Heights
    <3>2. p = U.root
      BY <2>2, <1>7, <1>1, ShapeSaysAbove
    <3> QED
      BY <3>1, <3>2, <2>2, <1>14, <1>15 DEF Lacking
  <2>3. CASE q # NULL
    <3>1. q \in N /\ SideFor(p, q) \in Side /\ U.child[SideFor(p, q)][q] = p
      BY <2>3, <1>7, <1>12
    <3> QED
      BY <3>1, <2>1, <1>14, <1>15 DEF Lacking
  <2> QED
    BY <2>2, <2>3
<1> QED
  BY <1>1, <1>5, <1>7, <1>8, <1>16

\* A red nephew next to x is rotated up: the far nephew is then the red one.
LEMMA EraseNearKeeps ==
    ASSUME KeysOrdered, NEW T, NEW N, NEW sub, Shape(T, N, sub), NEW bh, NEW x, NEW p,
           Lacking(T, N, bh, x, p), LacksBlack(T, x), ~IsRed(T, Sibling(T, x, p)),
           IsRed(T, Near(T, x, p)), ~IsRed(T, Far(T, x, p))
    PROVE  LET U == EraseNear(T, x, p)
               sib == Sibling(T, x, p)
               s == SideOf(T, x, p)
           IN /\ \E sub1 : Shape(U, N, sub1)
              /\ \E B : Lacking(U, N, B, x, p)
              /\ U = Rotate(Dyed(T, Near(T, x, p), sib), sib, Opposite(s))
              /\ sib \in N /\ Opposite(s) \in Side /\ T.child[Opposite(Opposite(s))][sib] = Near(T, x, p)
              /\ Near(T, x, p) \in N /\ Near(T, x, p) # sib /\ T.parent[sib] = p /\ p \in N
              /\ (U.red[p] <=> T.red[p])
              /\ (LacksBlack(U, x) => ~IsRed(U, Sibling(U, x, p)) /\ IsRed(U, Far(U, x, p)))
<1> DEFINE s == SideOf(T, x, p)
           o == Opposite(s)
           sib == Sibling(T, x, p)
           near == Near(T, x, p)
           far == Far(T, x, p)
           mid == T.child[o][near]
           out == T.child[s][near]
           U == EraseNear(T, x, p)
<1>1. /\ p \in N /\ s \in Side /\ o \in Side /\ o # s /\ T.child[s][p] = x
      /\ sib = T.child[o][p] /\ sib \in N /\ sib # x /\ sib # p /\ T.parent[sib] = p
      /\ x \in N \cup {NULL} /\ ~IsRed(T, x) /\ ~IsRed(T, T.root)
      /\ \A y \in N : T.red[y] => ~IsRed(T, T.parent[y])
      /\ Heights(T, N, bh, p, s)
  BY LackingSays
<1>p. p \in N
  BY <1>1
<1>2. N \subseteq Key /\ NULL \notin N
  BY ShapeSays
<1>3. U = Traded(T, near, sib, o)
  BY DEF EraseNear, Traded, Dyed
<1>4. near = T.child[s][sib] /\ far = T.child[o][sib] /\ ~IsRed(T, far)
  BY DEF Near, Far
<1>5. Opposite(o) = s
  BY <1>1, Opposites
<1>6. U = Rotate(Dyed(T, near, sib), sib, o)
  BY DEF EraseNear, Dyed
<1>a. ~T.red[sib] /\ near # NULL /\ T.red[near]
  <2>1. IsRed(T, near) /\ ~IsRed(T, sib)
    OBVIOUS
  <2> HIDE DEF near, sib
  <2> QED
    BY <2>1, <1>1, <1>2 DEF IsRed
<1> HIDE DEF s, o, U, sib, near, far
<1>b. Turn(T, sib, o, near, far, mid, out)
  BY <1>4, <1>5, <1>a DEF Turn
<1>7. near \in N /\ near # sib /\ T.parent[near] = sib
  BY <1>1, <1>b, RotationNames
<1>8. p # near
  <2>1. sib \in sub[p]
    BY <1>1, <1>2, ShapeSays
  <2>2. p # T.root => T.parent[p] \notin sub[p]
    BY <1>p, ShapeSaysAbove
  <2>3. p = T.root => T.parent[p] = NULL
    BY <1>p, ShapeSaysAbove
  <2> QED
    BY <2>1, <2>2, <2>3, <1>1, <1>2, <1>7
<1>9. ~IsRed(T, mid)
  <2>1. mid \in N \cup {NULL} /\ (mid # NULL => T.parent[mid] = near)
    BY <1>1, <1>7, ShapeSays
  <2> HIDE DEF mid
  <2> QED
    BY <2>1, <1>1, <1>7, <1>a DEF IsRed
<1> HIDE DEF mid, out
<1>10. /\ \A y \in N : T.red[y] /\ IsRed(T, T.parent[y]) => T.parent[y] = near
       /\ p # near /\ ~(p = sib /\ s = Opposite(o))
  BY <1>1, <1>8
<1>11. \E sub1 : Shape(U, N, sub1)
  <2>1. near = T.child[Opposite(o)][sib]
    BY <1>4, <1>5
  <2>2. \E sub1 : Shape(Traded(T, near, sib, o), N, sub1)
    BY <2>1, <1>1, <1>7, TradedShape
  <2> QED
    BY <2>2, <1>3
<1>12. /\ InsertColours(U, N, NULL)
       /\ \E B : Heights(U, N, B, p, s)
       /\ \A y \in N : (U.red[y] <=> (y = sib \/ (y # near /\ T.red[y])))
       /\ \A y \in N \ {sib, near} : \A d \in Side : T.child[d][y] # sib => U.child[d][y] = T.child[d][y]
       /\ U.parent[sib] = near
  <2>1. ~IsRed(T, T.root) /\ Heights(T, N, bh, p, s) /\ ~IsRed(T, far) /\ sib \in N /\ o \in Side
    BY <1>1, <1>4
  <2> QED
    BY <2>1, <1>3, <1>9, <1>10, <1>a, <1>b, TradedColours
<1>13. U.child[s][p] = x
  BY <1>1, <1>8, <1>12
<1>14. \E B : Lacking(U, N, B, x, p)
  <2>1. PICK B : Heights(U, N, B, p, s)
    BY <1>12
  <2>2. Lacking(U, N, B, x, p)
    BY <2>1, <1>1, <1>2, <1>12, <1>13, LackingAgain
  <2> QED
    BY <2>2
<1>15. U.red[p] <=> T.red[p]
  BY <1>1, <1>8, <1>12
<1>17. U.child[o][p] = near /\ U.child[o][near] = sib
  <2> DEFINE W == Dyed(T, near, sib)
  <2>1. W.child = T.child
    BY <1>1, <1>7, PaintedPair
  <2>2. Shape(W, N, sub)
    BY <1>1, <1>7, PaintedPairShape
  <2>3. U = Rotate(W, sib, o)
    BY <1>6
  <2> HIDE DEF W
  <2>4. Turn(W, sib, o, near, far, mid, out)
    BY <2>1, <1>b DEF Turn
  <2>5. /\ \A y \in N \ {sib, near} : \A d \in Side :
              U.child[d][y] = IF W.child[d][y] = sib THEN near ELSE W.child[d][y]
        /\ U.child[o][near] = sib
    BY <2>2, <2>3, <2>4, <1>1, RotatedChildren
  <2> QED
    BY <2>1, <2>5, <1>1, <1>8
<1>18. ASSUME LacksBlack(U, x) PROVE ~IsRed(U, Sibling(U, x, p)) /\ IsRed(U, Far(U, x, p))
  <2>1. SideOf(U, x, p) = s
    <3>1. U.child[o][p] # x
      <4>1. near # x
        <5>1. x # NULL => T.parent[x] = p
          BY <1>1, ShapeSays
        <5> QED
          BY <5>1, <1>1, <1>2, <1>7
      <4> QED
        BY <4>1, <1>17
    <3> QED
      BY <3>1, <1>1, <1>5, <1>13 DEF SideOf, Side, Opposite
  <2>2. Sibling(U, x, p) = near /\ Far(U, x, p) = sib
    BY <2>1, <1>17 DEF Sibling, Far, o
  <2> QED
    BY <2>2, <1>1, <1>2, <1>7, <1>12 DEF IsRed
<1> QED
  BY <1>1, <1>4, <1>5, <1>6, <1>7, <1>11, <1>14, <1>15, <1>18, ZenonT(60) DEF U, sib, near, s, o

\* T with the colour of p moved to a, and p and f black.
Spread(T, a, p, f) == Paint(Paint(Paint(T, a, T.red[p]), p, FALSE), f, FALSE)

\* What the last case of __rb_erase_color paints.
LEMMA SpreadIs ==
    ASSUME NEW T, NEW N, NEW sub, Shape(T, N, sub), NEW a \in N, NEW p \in N, NEW f \in N
    PROVE  LET U == Spread(T, a, p, f) IN
           /\ U.root = T.root /\ U.child = T.child /\ U.parent = T.parent /\ U \in Trees
           /\ \A m \in N : (U.red[m] <=> m # p /\ m # f /\ (IF m = a THEN T.red[p] ELSE T.red[m]))
<1> DEFINE T1 == Paint(T, a, T.red[p])
           T2 == Paint(T1, p, FALSE)
           U == Paint(T2, f, FALSE)
<1>1. T \in Trees /\ N \subseteq Key /\ N \subseteq Link
  BY ShapeSays DEF Link
<1>2. T.red[p] \in BOOLEAN /\ FALSE \in BOOLEAN
  BY <1>1 DEF Trees
<1>3. /\ T1.root = T.root /\ T1.child = T.child /\ T1.parent = T.parent /\ T1 \in Trees
      /\ \A m \in Key : (T1.red[m] <=> IF m = a THEN T.red[p] ELSE T.red[m])
  <2> DEFINE red == T.red[p]
  <2>1. red \in BOOLEAN /\ a \in Link
    BY <1>1, <1>2
  <2> HIDE DEF red
  <2>2. LET V == Paint(T, a, red) IN
        /\ V.root = T.root /\ V.child = T.child /\ V.parent = T.parent /\ V \in Trees
        /\ \A m \in Key : (V.red[m] <=> IF m = a THEN red ELSE T.red[m])
    BY <1>1, <2>1, Painted
  <2> QED
    BY <2>2 DEF red
<1> HIDE DEF T1
<1>4. /\ T2.root = T1.root /\ T2.child = T1.child /\ T2.parent = T1.parent /\ T2 \in Trees
      /\ \A m \in Key : (T2.red[m] <=> m # p /\ T1.red[m])
  BY <1>1, <1>3 DEF Paint, Put, Trees, Link
<1> HIDE DEF T2
<1>5. /\ U.root = T2.root /\ U.child = T2.child /\ U.parent = T2.parent /\ U \in Trees
      /\ \A m \in Key : (U.red[m] <=> m # f /\ T2.red[m])
  BY <1>1, <1>4 DEF Paint, Put, Trees, Link
<1> HIDE DEF U
<1>6. /\ U.root = T.root /\ U.child = T.child /\ U.parent = T.parent /\ U \in Trees
      /\ \A m \in N : (U.red[m] <=> m # p /\ m # f /\ (IF m = a THEN T.red[p] ELSE T.red[m]))
  BY <1>1, <1>3, <1>4, <1>5
<1> QED
  BY <1>6 DEF U, T2, T1, Spread

\* A red far nephew: the rotation brings the missing black node.
LEMMA EraseFarKeeps ==
    ASSUME KeysOrdered, NEW T, NEW N, NEW sub, Shape(T, N, sub), NEW bh, NEW x, NEW p,
           Lacking(T, N, bh, x, p), LacksBlack(T, x), ~IsRed(T, Sibling(T, x, p)), IsRed(T, Far(T, x, p))
    PROVE  LET U == EraseFar(T, x, p) IN
           /\ \E sub1 : Shape(U, N, sub1)
           /\ \E B : Lacking(U, N, B, U.root, NULL)
           /\ p \in N
<1> DEFINE s == SideOf(T, x, p)
           o == Opposite(s)
           sib == Sibling(T, x, p)
           far == Far(T, x, p)
           near == T.child[s][sib]
           T1 == Spread(T, sib, p, far)
           U == EraseFar(T, x, p)
           w == bh[p]
           v == bh[sib]
           B == [bh EXCEPT ![sib] = w, ![p] = v, ![far] = v]
<1>1. /\ p \in N /\ s \in Side /\ o \in Side /\ o # s /\ T.child[s][p] = x
      /\ sib = T.child[o][p] /\ sib \in N /\ sib # x /\ sib # p /\ T.parent[sib] = p
      /\ x \in N \cup {NULL} /\ ~IsRed(T, x) /\ ~IsRed(T, T.root)
      /\ \A y \in N : T.red[y] => ~IsRed(T, T.parent[y])
      /\ Heights(T, N, bh, p, s)
      /\ bh[x] \in Nat /\ bh[sib] = bh[x] + 1 /\ bh[p] = bh[sib] + Black(T, p)
      /\ \A d \in Side : bh[sib] = bh[T.child[d][sib]] + Black(T, sib)
  BY LackingSays
<1>p. p \in N
  BY <1>1
<1>2. N \subseteq Key /\ NULL \notin N /\ N \subseteq Link
  BY ShapeSays DEF Link
<1>3. \A d \in Side : d = s \/ d = o
  BY <1>1, Opposites
<1>4. far = T.child[o][sib] /\ ~T.red[sib] /\ far # NULL /\ T.red[far]
  <2>1. far = T.child[o][sib] /\ IsRed(T, far) /\ ~IsRed(T, sib)
    BY DEF Far
  <2> HIDE DEF far, sib
  <2> QED
    BY <2>1, <1>1, <1>2 DEF IsRed
<1>5. U = Rotate(T1, p, s)
  BY DEF EraseFar, Spread
<1>6. o = Opposite(s)
  OBVIOUS
<1> HIDE DEF s, o, sib, far, U
<1>a. near = T.child[s][sib]
  OBVIOUS
<1>b. Turn(T, p, s, sib, x, near, far)
  BY <1>1, <1>2, <1>4, <1>6 DEF Turn
<1> HIDE DEF near
<1>7. far \in N /\ far # sib /\ T.parent[far] = sib /\ far # p /\ near \in N \cup {NULL}
      /\ near # far /\ near # p /\ near # sib /\ (near # NULL => T.parent[near] = sib)
  <2>1. far \in N /\ far # sib /\ T.parent[far] = sib
    BY <1>1, <1>2, <1>4, ShapeSays
  <2>2. near \in N \cup {NULL} /\ (near # NULL => T.parent[near] = sib) /\ near # sib
    BY <1>1, <1>2, <1>a, ShapeSays
  <2>3. near # far
    BY <1>1, <1>4, <1>a, ChildOfOne
  <2>4. T.parent[p] # sib
    <3>1. sib \in sub[p]
      BY <1>1, <1>2, ShapeSays
    <3>2. p # T.root => T.parent[p] \notin sub[p]
      BY <1>p, ShapeSaysAbove
    <3>3. p = T.root => T.parent[p] = NULL
      BY <1>p, ShapeSaysAbove
    <3> QED
      BY <3>1, <3>2, <3>3, <1>1, <1>2, SMTT(60)
  <2> QED
    BY <2>1, <2>2, <2>3, <2>4, <1>1, <1>2
<1>8. sib \in N /\ far \in N /\ p \in N
  BY <1>1, <1>7
<1>9. /\ T1.root = T.root /\ T1.child = T.child /\ T1.parent = T.parent /\ T1 \in Trees
      /\ \A m \in N : (T1.red[m] <=> m # p /\ m # far /\ (IF m = sib THEN T.red[p] ELSE T.red[m]))
  BY <1>8, SpreadIs
<1>10. Shape(T1, N, sub)
  BY <1>9, SameShape
<1> HIDE DEF T1
<1>11. Turn(T1, p, s, sib, x, near, far)
  BY <1>9, <1>b DEF Turn
<1>12. Shape(U, N, RotatedSub(T1, sub, p, s))
  <2>1. T1.child[Opposite(s)][p] # NULL
    BY <1>11 DEF Turn
  <2> QED
    BY <2>1, <1>1, <1>5, <1>10, RotatedShape
<1>13. /\ ~T1.red[p] /\ ~T1.red[far] /\ (T1.red[sib] <=> T.red[p])
       /\ \A m \in N : m # sib /\ T1.red[m] => T.red[m]
  BY <1>7, <1>8, <1>9, <1>1
<1>14. InsertColours(U, N, NULL)
  <2>1. ASSUME NEW y \in N \ {p, sib, near}, T1.red[y], IsRed(T1, T1.parent[y]) PROVE FALSE
    <3> DEFINE z == T.parent[y]
    <3>1. z # NULL /\ T1.red[z] /\ T.red[y] /\ y # far
      BY <2>1, <1>9, <1>13 DEF IsRed
    <3>2. y # T.root /\ z \in N /\ SideFor(y, z) \in Side /\ T.child[SideFor(y, z)][z] = y
      BY <3>1, ShapeSaysAbove DEF SideFor, Side
    <3>3. CASE z = sib
      BY <2>1, <3>1, <3>2, <3>3, <1>3, <1>4, <1>a
    <3>4. CASE z # sib
      <4>1. T.red[z]
        BY <3>1, <3>2, <3>4, <1>13
      <4> QED
        BY <3>1, <4>1, <1>1 DEF IsRed
    <3> QED
      BY <3>3, <3>4
  <2>2. T1.red[sib] => ~IsRed(T1, T1.parent[p])
    <3> SUFFICES ASSUME T.red[p], T.parent[p] # NULL, T1.red[T.parent[p]] PROVE FALSE
      BY <1>9, <1>13 DEF IsRed
    <3>1. T.parent[p] \in N /\ T.parent[p] # sib
      <4>1. p # T.root /\ T.parent[p] \in N /\ T.parent[p] \notin sub[p]
        BY <1>p, ShapeSaysAbove
      <4>2. sib \in sub[p]
        BY <1>1, <1>2, ShapeSays
      <4> QED
        BY <4>1, <4>2
    <3>2. T.red[T.parent[p]]
      BY <3>1, <1>13
    <3> QED
      BY <3>2, <1>1 DEF IsRed
  <2>3. p = T1.root => ~T1.red[sib]
    <3>1. ~IsRed(T, T.root) /\ p # NULL
      BY <1>1, <1>2
    <3>2. T1.root = T.root /\ (T1.red[sib] <=> T.red[p])
      BY <1>9, <1>13
    <3> QED
      BY <3>1, <3>2 DEF IsRed
  <2>4. p # T1.root => ~IsRed(T1, T1.root)
    <3> SUFFICES ASSUME p # T.root, T.root # NULL, T1.red[T.root] PROVE FALSE
      BY <1>9 DEF IsRed
    <3>1. T.root \in N /\ T.root # sib
      BY <1>1, <1>2, ShapeSaysAbove
    <3> QED
      BY <3>1, <1>1, <1>13 DEF IsRed
  <2>5. /\ \A y \in N \ {p, sib, near} : T1.red[y] /\ IsRed(T1, T1.parent[y]) => y = NULL
        /\ IsRed(T1, near) /\ T1.red[p] => near = NULL
        /\ T1.red[p] /\ T1.red[sib] => p = NULL
        /\ T1.red[sib] /\ IsRed(T1, T1.parent[p]) => sib = NULL
        /\ p = T1.root => (T1.red[sib] => sib = NULL)
        /\ p # T1.root => (IsRed(T1, T1.root) => T1.root = NULL)
    BY <2>1, <2>2, <2>3, <2>4, <1>13
  <2>6. InsertColours(Rotate(T1, p, s), N, NULL)
    BY <2>5, <1>1, <1>10, <1>11, RotatedColours
  <2> QED
    BY <2>6, <1>5
<1>15. bh \in [Link -> Nat] /\ bh[NULL] = 0
       /\ \A y \in N : \A d \in Side : bh[y] = bh[T.child[d][y]] + Lack(y, d, p, s) + Black(T, y)
  BY <1>1 DEF Heights
<1>16. /\ B \in [Link -> Nat] /\ B[NULL] = 0 /\ B[sib] = w /\ B[p] = v /\ B[far] = v
       /\ \A y \in Link : y \notin {sib, p, far} => B[y] = bh[y]
  <2>1. p \in Link /\ sib \in Link /\ far \in Link /\ sib # p /\ far # p /\ far # sib
        /\ p # NULL /\ sib # NULL /\ far # NULL
    BY <1>1, <1>2, <1>7
  <2>2. v \in Nat /\ w \in Nat /\ bh \in [Link -> Nat] /\ bh[NULL] = 0
    BY <2>1, <1>15
  <2> HIDE DEF v, w
  <2> QED
    BY <2>1, <2>2 DEF Link
<1> HIDE DEF B
<1>17. /\ bh[x] \in Nat /\ v = bh[x] + 1 /\ w = v + Black(T, p)
       /\ bh[near] = bh[x] /\ bh[far] = bh[x] /\ Black(T, sib) = 1 /\ Black(T, p) \in Nat
  <2>1. Black(T, sib) = 1 /\ Black(T, p) \in Nat
    BY <1>4 DEF Black
  <2>2. bh[sib] = bh[near] + 1 /\ bh[sib] = bh[far] + 1 /\ bh[x] \in Nat /\ bh[sib] = bh[x] + 1
        /\ bh[p] = bh[sib] + Black(T, p)
    BY <2>1, <1>1, <1>4, <1>a
  <2>3. bh[near] \in Nat /\ bh[far] \in Nat
    BY <1>7, <1>2, <1>15 DEF Link
  <2> QED
    BY <2>1, <2>2, <2>3
<1>18. /\ Black(T1, p) = 1 /\ Black(T1, sib) = Black(T, p) /\ Black(T1, far) = 1 /\ Black(T, far) = 0
       /\ \A y \in N \ {p, sib, far} : Black(T1, y) = Black(T, y)
  BY <1>4, <1>7, <1>8, <1>9, <1>1, ZenonT(60) DEF Black
<1>19. \A y \in N, d \in Side : Lack(y, d, NULL, "left") = 0
  BY <1>2 DEF Lack
<1>20. Level(T1, B, p, s, x, NULL, "left")
  <2>1. B[x] = bh[x]
    <3>1. x # p /\ x # far /\ x \in Link
      <4>1. x # NULL => T.parent[x] = p /\ x # p
        BY <1>1, ShapeSays
      <4> QED
        BY <4>1, <1>1, <1>2, <1>7 DEF Link
    <3> QED
      BY <3>1, <1>1, <1>16
  <2>2. B[p] = v /\ Lack(p, s, NULL, "left") = 0 /\ Black(T1, p) = 1
    BY <1>1, <1>16, <1>18, <1>19
  <2> QED
    BY <2>1, <2>2, <1>17 DEF Level
<1>21. Level(T1, B, p, o, near, NULL, "left")
  <2>1. B[near] = bh[near]
    BY <1>2, <1>7, <1>16 DEF Link
  <2>2. B[p] = v /\ Lack(p, o, NULL, "left") = 0 /\ Black(T1, p) = 1
    BY <1>1, <1>16, <1>18, <1>19
  <2> QED
    BY <2>1, <2>2, <1>17 DEF Level
<1>22. Level(T1, B, sib, s, p, NULL, "left")
  <2>1. Lack(sib, s, NULL, "left") = 0
    BY <1>1, <1>19
  <2> QED
    BY <2>1, <1>16, <1>17, <1>18 DEF Level
<1>23. Level(T1, B, sib, o, far, NULL, "left")
  <2>1. Lack(sib, o, NULL, "left") = 0
    BY <1>1, <1>19
  <2> QED
    BY <2>1, <1>16, <1>17, <1>18 DEF Level
<1>24. LevelAside(T1, N, B, p, sib, NULL, "left")
  <2> SUFFICES ASSUME NEW y \in N \ {p, sib}, NEW d \in Side
               PROVE  Level(T1, B, y, d, IF T1.child[d][y] = p THEN sib ELSE T1.child[d][y], NULL, "left")
    BY DEF LevelAside
  <2> DEFINE c == T.child[d][y]
  <2>1. c \in Link /\ c # sib /\ c # far
    <3>1. c \in N \cup {NULL} /\ (c # NULL => T.parent[c] = y)
      BY ShapeSays
    <3> HIDE DEF c
    <3> QED
      BY <3>1, <1>1, <1>2, <1>7 DEF Link
  <2>2. bh[y] = bh[c] + Lack(y, d, p, s) + Black(T, y) /\ Lack(y, d, p, s) = 0 /\ y \in Link
    BY <1>2, <1>15 DEF Lack
  <2> HIDE DEF c
  <2>3. (c = p => B[sib] = bh[c]) /\ (c # p => B[c] = bh[c]) /\ bh[c] \in Nat
    BY <2>1, <1>15, <1>16
  <2>4. B[y] = bh[c] + 0 + Black(T1, y)
    <3>1. CASE y = far
      <4>1. bh[far] = bh[c] /\ B[y] = v /\ Black(T1, y) = 1
        BY <3>1, <2>2, <2>3, <1>16, <1>18
      <4> QED
        BY <4>1, <2>3, <1>17
    <3>2. CASE y # far
      <4>1. B[y] = bh[y] /\ Black(T1, y) = Black(T, y)
        BY <3>2, <2>2, <1>16, <1>18
      <4> QED
        BY <4>1, <2>2
    <3> QED
      BY <3>1, <3>2
  <2>5. Lack(y, d, NULL, "left") = 0
    BY <1>19
  <2>6. Level(T1, B, y, d, IF c = p THEN sib ELSE c, NULL, "left")
    BY <2>3, <2>4, <2>5 DEF Level
  <2> QED
    BY <2>6, <1>9 DEF c
<1>25. Heights(U, N, B, NULL, "left")
  <2>1. Heights(Rotate(T1, p, s), N, B, NULL, "left")
    <3>1. B \in [Link -> Nat] /\ B[NULL] = 0 /\ p \in N /\ s \in Side
      BY <1>1, <1>16
    <3>2. /\ Level(T1, B, p, Opposite(s), near, NULL, "left")
          /\ Level(T1, B, sib, Opposite(s), far, NULL, "left")
      BY <1>6, <1>21, <1>23
    <3> QED
      BY <3>1, <3>2, <1>10, <1>11, <1>20, <1>22, <1>24, RotatedHeights
  <2> QED
    BY <2>1, <1>5
<1>26. Lacking(U, N, B, U.root, NULL)
  BY <1>2, <1>14, <1>25 DEF Lacking, InsertColours
<1> QED
  BY <1>8, <1>12, <1>26 DEF U

\* A node with a free link is gone: if it was black, a black node is missing there.
LEMMA SplicedColours ==
    ASSUME KeysOrdered, NEW T, NEW N, NEW sub, Shape(T, N, sub), NEW n \in N,
           \E d \in Side : T.child[d][n] = NULL, NEW bh, Whole(T, N, bh)
    PROVE  LET S == Splice(T, n)
               M == N \ {n}
           IN /\ T.red[n] => Whole(S.tree, M, bh)
              /\ ~T.red[n] => Lacking(S.tree, M, bh, S.node, S.parent)
<1> DEFINE S == Splice(T, n)
           M == N \ {n}
           p == T.parent[n]
           x == OnlyChild(T, n)
           U == S.tree
           e == SideOf(T, n, p)
<1>1. T \in Trees /\ N \subseteq Key /\ NULL \notin N /\ N \subseteq Link
  BY ShapeSays DEF Link
<1>2. /\ S.node = x /\ S.parent = p
      /\ U.red = T.red
      /\ U.root = IF p = NULL THEN x ELSE T.root
      /\ \A y \in Key : U.parent[y] = IF y = x THEN p ELSE T.parent[y]
      /\ \A y \in Key : \A d \in Side :
            U.child[d][y] = IF y = p /\ d = e THEN x ELSE T.child[d][y]
  BY <1>1, SpliceWrites
<1> HIDE DEF S, U, x, e
<1>3. PICK d1 \in Side : T.child[d1][n] = x
  <2>1. "left" \in Side /\ "right" \in Side
    BY DEF Side
  <2> QED
    BY <2>1 DEF x, OnlyChild
<1>4. x \in M \cup {NULL} /\ (x # NULL => T.parent[x] = n)
  BY <1>3, ShapeSays
<1>5. /\ p = NULL <=> n = T.root
      /\ p # NULL => p \in N /\ p # n /\ e \in Side /\ T.child[e][p] = n
  <2>1. SideFor(n, p) \in Side
    BY DEF SideFor, Side
  <2> QED
    BY <2>1, <1>1, ShapeSaysAbove DEF e
<1>6. /\ bh \in [Link -> Nat] /\ bh[NULL] = 0
      /\ \A y \in N : \A d \in Side : bh[y] = bh[T.child[d][y]] + Lack(y, d, NULL, "left") + Black(T, y)
      /\ ~IsRed(T, T.root) /\ \A y \in N : T.red[y] => ~IsRed(T, T.parent[y])
  <2>1. InsertColours(T, N, NULL) /\ Heights(T, N, bh, NULL, "left")
    BY DEF Whole
  <2> QED
    BY <2>1, <1>1 DEF InsertColours, Heights, IsRed
<1>7. \A y \in N, d \in Side : Lack(y, d, NULL, "left") = 0
  BY <1>1 DEF Lack
<1>8. bh[n] = bh[x] + Black(T, n) /\ bh[x] \in Nat
  <2>1. x \in Link
    BY <1>1, <1>4 DEF Link
  <2>2. bh[n] = bh[x] + Lack(n, d1, NULL, "left") + Black(T, n) /\ bh[x] \in Nat
    BY <2>1, <1>3, <1>6
  <2>3. Lack(n, d1, NULL, "left") = 0
    BY <1>7
  <2> QED
    BY <2>2, <2>3
<1>9. \A y \in M : Black(U, y) = Black(T, y)
  BY <1>2 DEF Black
<1>10. ASSUME NEW y \in M, NEW d \in Side
       PROVE  /\ bh[y] \in Nat /\ bh[U.child[d][y]] \in Nat /\ Black(U, y) \in Nat
              /\ bh[y] = bh[U.child[d][y]] + (IF y = p /\ d = e THEN Black(T, n) ELSE 0) + Black(U, y)
  <2> DEFINE c == T.child[d][y]
  <2>1. c \in Link /\ bh[c] \in Nat /\ bh[y] \in Nat /\ Black(T, y) \in Nat
    <3>1. c \in Link
      BY ShapeSays DEF Link
    <3> QED
      BY <3>1, <1>1, <1>6 DEF Black
  <2>2. bh[y] = bh[c] + Black(T, y)
    <3>1. bh[y] = bh[c] + Lack(y, d, NULL, "left") + Black(T, y) /\ Lack(y, d, NULL, "left") = 0
      BY <1>6, <1>7
    <3> QED
      BY <3>1, <2>1
  <2>3. CASE y = p /\ d = e
    <3>1. U.child[d][y] = x /\ c = n
      BY <2>3, <1>1, <1>2, <1>5
    <3> QED
      BY <3>1, <2>1, <2>2, <2>3, <1>8, <1>9
  <2>4. CASE ~(y = p /\ d = e)
    <3>1. U.child[d][y] = c
      BY <2>4, <1>1, <1>2
    <3> QED
      BY <3>1, <2>1, <2>2, <2>4, <1>9
  <2> QED
    BY <2>3, <2>4
<1>11. IsRed(U, U.root) => U.root = x /\ n = T.root
  <2>1. CASE p = NULL
    BY <2>1, <1>2, <1>5
  <2>2. CASE p # NULL
    BY <2>2, <1>2, <1>6 DEF IsRed
  <2> QED
    BY <2>1, <2>2
<1>12. ASSUME NEW y \in M, U.red[y], IsRed(U, U.parent[y]) PROVE y = x /\ IsRed(T, p)
  <2>1. y \in Key /\ T.red[y] /\ IsRed(T, U.parent[y])
    BY <1>1, <1>2, <1>12 DEF IsRed
  <2>2. y # x => U.parent[y] = T.parent[y]
    BY <2>1, <1>2
  <2>3. y = x
    BY <2>1, <2>2, <1>6
  <2> QED
    BY <2>1, <2>3, <1>2
<1>13. ASSUME T.red[n] PROVE Whole(U, M, bh)
  <2>1. n # T.root /\ ~IsRed(T, p)
    BY <1>13, <1>1, <1>6 DEF IsRed
  <2>2. InsertColours(U, M, NULL)
    BY <2>1, <1>11, <1>12 DEF InsertColours
  <2>3. Black(T, n) = 0
    BY <1>13 DEF Black
  <2>4. \A y \in M : \A d \in Side : bh[y] = bh[U.child[d][y]] + Lack(y, d, NULL, "left") + Black(U, y)
    BY <2>3, <1>7, <1>10
  <2> QED
    BY <2>2, <2>4, <1>6 DEF Whole, Heights
<1>14. ASSUME ~T.red[n] PROVE Lacking(U, M, bh, x, p)
  <2>1. Black(T, n) = 1
    BY <1>14 DEF Black
  <2>2. CASE p = NULL
    <3>1. \A y \in M : \A d \in Side : bh[y] = bh[U.child[d][y]] + Lack(y, d, NULL, "left") + Black(U, y)
      BY <2>2, <1>1, <1>7, <1>10
    <3>2. x = U.root
      BY <2>2, <1>2
    <3>3. Heights(U, M, bh, NULL, "left")
      BY <3>1, <1>6 DEF Heights
    <3> QED
      BY <3>2, <3>3, <2>2, <1>11, <1>12 DEF Lacking
  <2>3. CASE p # NULL
    <3>1. \A y \in M : \A d \in Side : bh[y] = bh[U.child[d][y]] + Lack(y, d, p, e) + Black(U, y)
      BY <2>1, <1>10 DEF Lack
    <3>2. p \in M /\ e \in Side /\ U.child[e][p] = x
      BY <2>3, <1>1, <1>2, <1>5
    <3>3. Heights(U, M, bh, p, e)
      BY <3>1, <1>6 DEF Heights
    <3> QED
      BY <3>2, <3>3, <1>11, <1>12 DEF Lacking
  <2> QED
    BY <2>2, <2>3
<1> QED
  BY <1>2, <1>13, <1>14 DEF S, U

\* The successor in the place of a node: heights and colours stay as they are.
LEMMA ReplacedHeights ==
    ASSUME NEW U, NEW M, NEW sub, Shape(U, M, sub), NEW old \in M, NEW n \in Key, n \notin M,
           NEW V, Replaces(V, U, old, n),
           NEW bh, NEW p, NEW s, Heights(U, M, bh, p, s), p \in M \cup {NULL}
    PROVE  LET N == (M \ {old}) \cup {n} IN
           Heights(V, N, [bh EXCEPT ![n] = bh[old]], IF p = old THEN n ELSE p, s)
<1> DEFINE N == (M \ {old}) \cup {n}
           B == [bh EXCEPT ![n] = bh[old]]
           p1 == IF p = old THEN n ELSE p
           q == U.parent[old]
<1>1. U \in Trees /\ M \subseteq Key /\ NULL \notin M /\ M \subseteq Link /\ n \in Link /\ n # NULL
  <2>1. NULL \notin Key
    BY RBTreeAssumption
  <2> QED
    BY <2>1, ShapeSays DEF Link
<1>2. /\ \A y \in Key : V.red[y] <=> IF y = n THEN U.red[old] ELSE U.red[y]
      /\ \A y \in Key : \A d \in Side :
            V.child[d][y] = IF y = n THEN U.child[d][old]
                            ELSE IF y = q /\ d = SideOf(U, old, q) THEN n ELSE U.child[d][y]
  BY DEF Replaces
<1>3. bh \in [Link -> Nat] /\ bh[NULL] = 0
      /\ \A y \in M : \A d \in Side : bh[y] = bh[U.child[d][y]] + Lack(y, d, p, s) + Black(U, y)
  BY DEF Heights
<1>4. /\ B \in [Link -> Nat] /\ B[NULL] = 0 /\ B[n] = bh[old]
      /\ \A y \in Link : y # n => B[y] = bh[y]
  <2> DEFINE w == bh[old]
  <2>1. w \in Nat
    BY <1>1, <1>3
  <2> HIDE DEF w
  <2>2. [bh EXCEPT ![n] = w] \in [Link -> Nat]
        /\ [bh EXCEPT ![n] = w][NULL] = 0 /\ [bh EXCEPT ![n] = w][n] = w
        /\ \A y \in Link : y # n => [bh EXCEPT ![n] = w][y] = bh[y]
    BY <2>1, <1>1, <1>3 DEF Link
  <2> QED
    BY <2>2 DEF w
<1> HIDE DEF B
<1>5. \A y \in N : \A d \in Side : B[y] = B[V.child[d][y]] + Lack(y, d, p1, s) + Black(V, y)
  <2> SUFFICES ASSUME NEW y \in N, NEW d \in Side
               PROVE  B[y] = B[V.child[d][y]] + Lack(y, d, p1, s) + Black(V, y)
    OBVIOUS
  <2>1. CASE y = n
    <3>1. V.child[d][y] = U.child[d][old] /\ (V.red[y] <=> U.red[old])
      BY <2>1, <1>2
    <3>2. U.child[d][old] \in Link /\ U.child[d][old] # n
      BY <1>1, ShapeSays DEF Link
    <3>3. B[V.child[d][y]] = bh[U.child[d][old]]
      BY <3>1, <3>2, <1>4
    <3>4. Lack(y, d, p1, s) = Lack(old, d, p, s)
      BY <2>1, <1>1 DEF Lack
    <3>5. Black(V, y) = Black(U, old)
      BY <3>1 DEF Black
    <3> QED
      BY <3>3, <3>4, <3>5, <2>1, <1>3, <1>4
  <2>2. CASE y # n
    <3>1. y \in M /\ y # old /\ y \in Key
      BY <2>2, <1>1
    <3>2. B[V.child[d][y]] = bh[U.child[d][y]]
      <4>1. CASE y = q /\ d = SideOf(U, old, q)
        <5>1. V.child[d][y] = n
          BY <4>1, <2>2, <3>1, <1>2
        <5>2. old # U.root /\ U.child[d][y] = old
          BY <4>1, <3>1, <1>1, ShapeSaysAbove
        <5> QED
          BY <5>1, <5>2, <1>4
      <4>2. CASE ~(y = q /\ d = SideOf(U, old, q))
        <5>1. V.child[d][y] = U.child[d][y]
          BY <4>2, <2>2, <3>1, <1>2
        <5>2. U.child[d][y] \in Link /\ U.child[d][y] # n
          BY <3>1, <1>1, ShapeSays DEF Link
        <5> QED
          BY <5>1, <5>2, <1>4
      <4> QED
        BY <4>1, <4>2
    <3>3. Lack(y, d, p1, s) = Lack(y, d, p, s)
      BY <3>1, <2>2 DEF Lack
    <3>4. Black(V, y) = Black(U, y)
      BY <3>1, <2>2, <1>2 DEF Black
    <3>5. B[y] = bh[y]
      BY <3>1, <2>2, <1>1, <1>4
    <3> QED
      BY <3>1, <3>2, <3>3, <3>4, <3>5, <1>3
  <2> QED
    BY <2>1, <2>2
<1> QED
  BY <1>4, <1>5 DEF Heights, B

\* A node in the place and colour of another keeps the colours right.
LEMMA ReplacedColours ==
    ASSUME NEW U, NEW M, NEW sub, Shape(U, M, sub), NEW old \in M, NEW n \in Key, n \notin M,
           NEW V, Replaces(V, U, old, n), NEW x, x # old, x # n,
           IsRed(U, U.root) => U.root = x,
           \A y \in M : U.red[y] /\ IsRed(U, U.parent[y]) => x \in {y, U.parent[y]}
    PROVE  /\ IsRed(V, V.root) => V.root = x
           /\ \A y \in (M \ {old}) \cup {n} : V.red[y] /\ IsRed(V, V.parent[y]) => x \in {y, V.parent[y]}
<1> DEFINE q == U.parent[old]
<1>1. U \in Trees /\ M \subseteq Key /\ NULL \notin M /\ NULL \notin Key
  BY ShapeSays, RBTreeAssumption
<1>2. /\ V.root = IF q = NULL THEN n ELSE U.root
      /\ \A y \in Key : V.parent[y] = IF \E d \in Side : U.child[d][old] = y THEN n
                                      ELSE IF y = n THEN q ELSE U.parent[y]
      /\ \A y \in Key : V.red[y] <=> IF y = n THEN U.red[old] ELSE U.red[y]
  BY DEF Replaces
<1>3. /\ q = NULL <=> old = U.root
      /\ q # NULL => q \in M /\ q # old
  BY <1>1, ShapeSaysAbove
<1>4. ASSUME IsRed(V, V.root) PROVE V.root = x
  <2>1. CASE q = NULL
    <3>1. V.root = n /\ V.red[n]
      BY <2>1, <1>2, <1>4 DEF IsRed
    <3>2. U.red[old] /\ old = U.root
      BY <3>1, <2>1, <1>2, <1>3
    <3> QED
      BY <3>2, <1>1 DEF IsRed
  <2>2. CASE q # NULL
    <3>1. V.root = U.root /\ U.root # NULL /\ V.red[U.root]
      BY <2>2, <1>2, <1>4 DEF IsRed
    <3>2. U.root \in M /\ U.root # n
      BY <3>1, ShapeSaysAbove
    <3>3. U.red[U.root]
      BY <3>1, <3>2, <1>1, <1>2
    <3> QED
      BY <3>1, <3>3 DEF IsRed
  <2> QED
    BY <2>1, <2>2
<1>5. ASSUME NEW y \in (M \ {old}) \cup {n}, V.red[y], IsRed(V, V.parent[y]) PROVE x \in {y, V.parent[y]}
  <2>1. V.parent[y] # NULL /\ V.red[V.parent[y]] /\ y \in Key
    BY <1>1, <1>5 DEF IsRed
  <2>2. CASE y = n
    <3>1. U.red[old] /\ V.parent[n] = q
      <4>1. \A d \in Side : U.child[d][old] # n
        BY <1>1, ShapeSays
      <4> QED
        BY <4>1, <2>1, <2>2, <1>2, <1>5
    <3>2. q \in M /\ q # n /\ q \in Key
      BY <3>1, <2>1, <2>2, <1>1, <1>3
    <3>3. U.red[q]
      BY <3>1, <3>2, <2>1, <2>2, <1>2
    <3>4. x \in {old, q}
      BY <3>1, <3>2, <3>3, <1>1 DEF IsRed
    <3> QED
      BY <3>1, <3>4, <2>2
  <2>3. CASE y # n
    <3>1. y \in M /\ y # old /\ U.red[y]
      BY <2>1, <2>3, <1>2, <1>5
    <3>2. CASE \E d \in Side : U.child[d][old] = y
      <4>1. U.parent[y] = old
        BY <3>1, <3>2, <1>1, ShapeSays
      <4>2. V.parent[y] = n
        BY <3>2, <2>1, <1>2
      <4>3. U.red[old]
        BY <4>2, <2>1, <1>2
      <4>4. x \in {y, old}
        BY <4>1, <4>3, <3>1, <1>1 DEF IsRed
      <4> QED
        BY <4>4
    <3>3. CASE ~ \E d \in Side : U.child[d][old] = y
      <4>1. V.parent[y] = U.parent[y]
        BY <3>3, <2>1, <2>3, <1>2
      <4>2. U.parent[y] \in M
        BY <4>1, <2>1, <3>1, ShapeSaysAbove
      <4>3. U.red[U.parent[y]]
        BY <4>1, <4>2, <2>1, <1>1, <1>2
      <4> QED
        BY <4>1, <4>3, <2>1, <3>1 DEF IsRed
    <3> QED
      BY <3>2, <3>3
  <2> QED
    BY <2>2, <2>3
<1> QED
  BY <1>4, <1>5

\* A node with a free link is spliced out.
LEMMA SplicedKeeps ==
    ASSUME KeysOrdered, NEW T, NEW N, NEW sub, Shape(T, N, sub), Clean(T, N), NEW n \in N,
           \E d \in Side : T.child[d][n] = NULL, NEW bh, Whole(T, N, bh)
    PROVE  LET S == Splice(T, n)
               M == N \ {n}
           IN /\ \E sub1 : Shape(S.tree, M, sub1)
              /\ S.red \in BOOLEAN
              /\ S.red => \E B : Whole(S.tree, M, B)
              /\ ~S.red => \E B : Lacking(S.tree, M, B, S.node, S.parent)
              /\ Clean(S.tree, N)
<1> DEFINE S == Splice(T, n)
           M == N \ {n}
           U == S.tree
<1>1. T \in Trees /\ N \subseteq Key /\ NULL \notin Key /\ n \in Key
  BY ShapeSays, RBTreeAssumption
<1>2. /\ Shape(U, M, SplicedSub(sub, n)) /\ OnlyChild(T, n) \in M \cup {NULL}
  BY SplicedShape
<1>3. /\ S.red = T.red[n]
      /\ \A y \in Key : U.parent[y] = IF y = OnlyChild(T, n) THEN T.parent[n] ELSE T.parent[y]
      /\ \A y \in Key : \A d \in Side :
            U.child[d][y] = IF y = T.parent[n] /\ d = SideOf(T, n, T.parent[n])
                              THEN OnlyChild(T, n) ELSE T.child[d][y]
  BY <1>1, SpliceWrites
<1>4. T.red[n] \in BOOLEAN /\ T.parent[n] \in N \cup {NULL}
  <2>1. T.red[n] \in BOOLEAN
    BY <1>1 DEF Trees
  <2>2. T.parent[n] \in N \cup {NULL}
    BY <1>1 DEF Shape
  <2> QED
    BY <2>1, <2>2
<1>5. /\ T.red[n] => Whole(U, M, bh)
      /\ ~T.red[n] => Lacking(U, M, bh, S.node, S.parent)
  BY SplicedColours
<1> HIDE DEF U
<1>6. Clean(U, N)
  BY <1>1, <1>2, <1>3, <1>4 DEF Clean
<1> HIDE DEF S
<1> QED
  BY <1>2, <1>3, <1>4, <1>5, <1>6 DEF U, S

\* A node with two children gives its place to its successor.
LEMMA SuccessorKeeps ==
    ASSUME KeysOrdered, NEW T, NEW N, NEW sub, Shape(T, N, sub), Clean(T, N), NEW old \in N,
           T.child["left"][old] # NULL, T.child["right"][old] # NULL, NEW bh, Whole(T, N, bh)
    PROVE  LET E == SpliceSuccessor(T, old)
               M == N \ {old}
           IN /\ \E sub1 : Shape(E.tree, M, sub1)
              /\ E.red \in BOOLEAN
              /\ E.red => \E B : Whole(E.tree, M, B)
              /\ ~E.red => \E B : Lacking(E.tree, M, B, E.node, E.parent)
              /\ Clean(E.tree, N)
<1> DEFINE n == Leftmost(T, T.child["right"][old])
           S == Splice(T, n)
           U == S.tree
           E == SpliceSuccessor(T, old)
           V == E.tree
           M == N \ {n}
           B == [bh EXCEPT ![n] = bh[old]]
           x == S.node
           p == S.parent
<1>1. Succession(T, old, n, S, E)
  BY DEF Succession
<1>a. S = Splice(T, n)
  OBVIOUS
<1> HIDE DEF n, S, E
<1>2. /\ n \in N /\ n # old /\ T.child["left"][n] = NULL
      /\ Replaces(V, U, old, n)
      /\ Shape(U, M, SplicedSub(sub, n))
      /\ Shape(V, N \ {old}, ReplacedSub(SplicedSub(sub, n), old, n))
      /\ \A y \in Key \ N : \A d \in Side : V.child[d][y] = NULL /\ V.parent[y] = NULL
      /\ U.parent[old] = T.parent[old]
  <2>1. Succeeded(T, N, sub, old, n, U, V)
    BY <1>1, SuccessorIs
  <2> QED
    BY <2>1 DEF Succeeded
<1>3. T \in Trees /\ N \subseteq Key /\ NULL \notin Key /\ n \in Key /\ "left" \in Side
  <2>1. N \subseteq Key /\ T \in Trees
    BY ShapeSays
  <2> QED
    BY <2>1, <1>2, RBTreeAssumption DEF Side
<1>4. E.node = x /\ E.parent = (IF p = old THEN n ELSE p) /\ E.red = S.red
  BY <1>1, SuccessorWrites
<1>5. x = OnlyChild(T, n) /\ p = T.parent[n] /\ S.red = T.red[n]
  BY <1>a, <1>2, <1>3, SpliceWrites
<1>6. T.red[n] \in BOOLEAN
  BY <1>3 DEF Trees
<1>7. /\ T.red[n] => Whole(U, M, bh)
      /\ ~T.red[n] => Lacking(U, M, bh, x, p)
  BY <1>a, <1>2, <1>3, SplicedColours
<1>8. old \in M /\ n \notin M /\ (M \ {old}) \cup {n} = N \ {old}
  BY <1>2
<1>9. x # n /\ x # old
  <2>1. x = T.child["right"][n]
    BY <1>2, <1>5 DEF OnlyChild
  <2>2. "right" \in Side
    BY DEF Side
  <2>3. x # NULL => x # n /\ T.parent[x] = n
    BY <1>2, <2>1, <2>2, ShapeSays
  <2>4. T.parent[old] # n
    <3>1. U.parent[old] = T.parent[old]
      BY <1>2
    <3>2. U.parent[old] \in M \cup {NULL}
      BY <1>2, <1>3 DEF Shape
    <3> QED
      BY <3>1, <3>2, <1>3
  <2> QED
    BY <2>3, <2>4, <1>3
<1> DEFINE subU == SplicedSub(sub, n)
<1>10. Shape(U, M, subU)
  BY <1>2
<1>11. Clean(V, N)
  BY <1>2, <1>3 DEF Clean
<1> HIDE DEF U, V, B, M, subU
<1> DEFINE N1 == (M \ {old}) \cup {n}
<1>12. ASSUME NEW q \in M \cup {NULL}, NEW s, Heights(U, M, bh, q, s)
       PROVE  Heights(V, N \ {old}, B, IF q = old THEN n ELSE q, s)
  <2>1. Heights(V, N1, [bh EXCEPT ![n] = bh[old]], IF q = old THEN n ELSE q, s)
    BY <1>2, <1>3, <1>8, <1>10, <1>12, ReplacedHeights
  <2>2. N1 = N \ {old}
    BY <1>8
  <2> HIDE DEF N1
  <2> QED
    BY <2>1, <2>2 DEF B
<1>13. ASSUME IsRed(U, U.root) => U.root = x,
             \A y \in M : U.red[y] /\ IsRed(U, U.parent[y]) => x \in {y, U.parent[y]}
       PROVE  /\ IsRed(V, V.root) => V.root = x
             /\ \A y \in N1 : V.red[y] /\ IsRed(V, V.parent[y]) => x \in {y, V.parent[y]}
  <2> HIDE DEF x
  <2> QED
    BY <1>2, <1>3, <1>8, <1>9, <1>10, <1>13, ReplacedColours, SMTT(60)
<1>14. ASSUME T.red[n] PROVE Whole(V, N \ {old}, B)
  <2>1. /\ InsertColours(U, M, NULL) /\ Heights(U, M, bh, NULL, "left")
    BY <1>7, <1>14 DEF Whole
  <2>2. NULL \in M \cup {NULL} /\ NULL # old /\ NULL # n
    BY <1>3, <1>2
  <2>3. Heights(V, N \ {old}, B, IF NULL = old THEN n ELSE NULL, "left")
    BY <2>1, <2>2, <1>12
  <2>4. /\ IsRed(U, U.root) => U.root = NULL
        /\ \A y \in M : U.red[y] /\ IsRed(U, U.parent[y]) => NULL \in {y, U.parent[y]}
    BY <2>1 DEF InsertColours
  <2>5. /\ IsRed(V, V.root) => V.root = NULL
        /\ \A y \in (M \ {old}) \cup {n} : V.red[y] /\ IsRed(V, V.parent[y]) => NULL \in {y, V.parent[y]}
    BY <2>2, <2>4, <1>2, <1>3, <1>8, <1>10, ReplacedColours
  <2>6. InsertColours(V, N \ {old}, NULL)
    BY <2>5, <1>8 DEF InsertColours, IsRed
  <2> QED
    BY <2>2, <2>3, <2>6 DEF Whole
<1>15. ASSUME ~T.red[n] PROVE Lacking(V, N \ {old}, B, x, IF p = old THEN n ELSE p)
  <2> DEFINE p1 == IF p = old THEN n ELSE p
  <2>1. /\ IsRed(U, U.root) => U.root = x
        /\ \A y \in M : U.red[y] /\ IsRed(U, U.parent[y]) => x \in {y, U.parent[y]}
        /\ \/ p = NULL /\ x = U.root /\ Heights(U, M, bh, NULL, "left")
           \/ p \in M /\ \E s \in Side : U.child[s][p] = x /\ Heights(U, M, bh, p, s)
    BY <1>7, <1>15 DEF Lacking
  <2>2. /\ IsRed(V, V.root) => V.root = x
        /\ \A y \in (M \ {old}) \cup {n} : V.red[y] /\ IsRed(V, V.parent[y]) => x \in {y, V.parent[y]}
    BY <2>1, <1>13
  <2>3. CASE p = NULL
    <3>1. p = T.parent[n] /\ n = T.root
      BY <2>3, <1>2, <1>5, ShapeSaysAbove
    <3>2. SideFor(old, n) \in Side
      BY DEF SideFor, Side
    <3>3. FALSE
      <4>1. sub[T.root] = N /\ sub[n] = {n} \cup sub[T.child["left"][n]] \cup sub[T.child["right"][n]]
            /\ "right" \in Side /\ sub[NULL] = {}
        BY <1>2, ShapeSays, ZenonT(60) DEF Shape, Placed, Side
      <4>2. old \in sub[T.child["right"][n]]
        BY <4>1, <3>1, <1>2
      <4>3. T.child["right"][n] \in N /\ T.child["right"][n] # n
        BY <4>1, <4>2, <1>2, ShapeSays
      <4>4. n \in sub[T.child["right"][old]]
        <5>1. T.child["right"][old] \in N
          BY <4>1, ShapeSays
        <5>2. Leftest(T, sub, T.child["right"][old], n)
          BY <5>1, LeftmostIs DEF n
        <5> QED
          BY <5>2 DEF Leftest
      <4>5. T.child["right"][old] \in N /\ old \notin sub[T.child["right"][old]]
        BY <4>1, ShapeSays
      <4>6. sub[n] \subseteq sub[T.child["right"][old]]
        BY <4>4, <4>5, Nested
      <4> QED
        BY <4>1, <4>5, <4>6, <3>1
    <3> QED
      BY <3>3
  <2>4. CASE p # NULL
    <3>1. PICK s \in Side : p \in M /\ U.child[s][p] = x /\ Heights(U, M, bh, p, s)
      BY <2>1, <2>4
    <3>2. Heights(V, N \ {old}, B, p1, s)
      BY <3>1, <1>12
    <3>3. p1 \in N \ {old}
      BY <3>1, <1>2 DEF M
    <3>4. V.child[s][p1] = x
      <4>1. \A y \in Key : \A d \in Side :
              V.child[d][y] = IF y = n THEN U.child[d][old]
                              ELSE IF y = U.parent[old] /\ d = SideOf(U, old, U.parent[old]) THEN n
                              ELSE U.child[d][y]
        BY <1>2 DEF Replaces
      <4>2. CASE p = old
        BY <4>1, <4>2, <3>1, <1>3
      <4>3. CASE p # old
        <5>1. p \in Key /\ p # n
          BY <3>1, <1>3 DEF M
        <5>2. ~(p = U.parent[old] /\ s = SideOf(U, old, U.parent[old]))
          <6> SUFFICES ASSUME p = U.parent[old], s = SideOf(U, old, U.parent[old]) PROVE FALSE
            OBVIOUS
          <6>1. old # U.root
            BY <1>8, <1>10, <2>4, ShapeSaysAbove
          <6>2. U.child[s][p] = old
            BY <6>1, <1>8, <1>10, ShapeSaysAbove
          <6> QED
            BY <6>2, <3>1, <1>9
        <5> QED
          BY <4>1, <4>3, <5>1, <5>2, <3>1
      <4> QED
        BY <4>2, <4>3
    <3> HIDE DEF p1
    <3>5. \A y \in N \ {old} : V.red[y] /\ IsRed(V, V.parent[y]) => x \in {y, V.parent[y]}
      BY <2>2, <1>8
    <3>6. Lacking(V, N \ {old}, B, x, p1)
      BY <3>2, <3>3, <3>4, <3>5, <2>2 DEF Lacking
    <3> QED
      BY <3>6 DEF p1
  <2> QED
    BY <2>3, <2>4
<1>16. \E sub1 : Shape(V, N \ {old}, sub1)
  BY <1>2
<1> HIDE DEF V
<1>17. /\ E.red \in BOOLEAN
       /\ E.red => \E B1 : Whole(V, N \ {old}, B1)
       /\ ~E.red => \E B1 : Lacking(V, N \ {old}, B1, E.node, E.parent)
  BY <1>4, <1>5, <1>6, <1>14, <1>15
<1> QED
  BY <1>11, <1>16, <1>17 DEF V, E

\* rb_erase: the node is out, and a black node may be missing where the loop starts.
LEMMA EraseKeeps ==
    ASSUME KeysOrdered, NEW T, NEW N, NEW sub, Shape(T, N, sub), Clean(T, N), NEW n \in N,
           NEW bh, Whole(T, N, bh)
    PROVE  LET E == rb_erase(T, n)
               M == N \ {n}
           IN /\ \E sub1 : Shape(E.tree, M, sub1)
              /\ E.red \in BOOLEAN
              /\ E.red => \E B : Whole(E.tree, M, B)
              /\ ~E.red => \E B : Lacking(E.tree, M, B, E.node, E.parent)
              /\ Clean(E.tree, N)
<1>1. CASE T.child["left"][n] # NULL /\ T.child["right"][n] # NULL
  <2>1. rb_erase(T, n) = SpliceSuccessor(T, n)
    BY <1>1 DEF rb_erase
  <2> QED
    BY <2>1, <1>1, SuccessorKeeps
<1>2. CASE ~(T.child["left"][n] # NULL /\ T.child["right"][n] # NULL)
  <2>1. rb_erase(T, n) = Splice(T, n)
    BY <1>2 DEF rb_erase
  <2>2. \E d \in Side : T.child[d][n] = NULL
    BY <1>2 DEF Side
  <2> QED
    BY <2>1, <2>2, SplicedKeeps
<1> QED
  BY <1>1, <1>2

\* The black nodes on each path down, counted.
LEMMA BlackHeightIs ==
    ASSUME NEW T, NEW N, NEW sub, Shape(T, N, sub), NEW bh, Whole(T, N, bh), NEW r \in N \cup {NULL}
    PROVE  BlackHeight(T, r) = bh[r] /\ bh[r] \in Nat
<1> DEFINE l(n) == T.child["left"][n]
           g(n) == T.child["right"][n]
           Value(n, a, b) == IF a = -1 \/ a # b THEN -1 ELSE IF T.red[n] THEN a ELSE a + 1
           W == [n \in Link |-> IF n \in N \cup {NULL} THEN bh[n] ELSE Value(n, bh[l(n)], bh[g(n)])]
           After(f) == [n \in Link |-> IF n = NULL THEN 0 ELSE Value(n, f[l(n)], f[g(n)])]
           f == CHOOSE f : f = After(f)
<1>1. \A n \in Key : l(n) \in N \cup {NULL} /\ g(n) \in N \cup {NULL}
  BY DEF Shape, Side
<1>2. N \subseteq Key /\ NULL \notin N
  BY ShapeSays
<1>3. /\ bh \in [Link -> Nat] /\ bh[NULL] = 0
      /\ \A n \in N : \A d \in Side : bh[n] = bh[T.child[d][n]] + Lack(n, d, NULL, "left") + Black(T, n)
  BY DEF Whole, Heights
<1>4. \A n \in N : bh[n] \in Nat /\ bh[n] = Value(n, bh[l(n)], bh[g(n)])
  <2> SUFFICES ASSUME NEW n \in N PROVE bh[n] \in Nat /\ bh[n] = Value(n, bh[l(n)], bh[g(n)])
    OBVIOUS
  <2>1. Lack(n, "left", NULL, "left") = 0 /\ Lack(n, "right", NULL, "left") = 0
    BY <1>2 DEF Lack
  <2>2. /\ bh[n] = bh[l(n)] + Lack(n, "left", NULL, "left") + Black(T, n)
        /\ bh[n] = bh[g(n)] + Lack(n, "right", NULL, "left") + Black(T, n)
    BY <1>3 DEF Side
  <2>3. bh[l(n)] \in Nat /\ bh[g(n)] \in Nat /\ bh[n] \in Nat
    <3>1. n \in Link /\ l(n) \in Link /\ g(n) \in Link
      BY <1>1, <1>2 DEF Link
    <3> QED
      BY <3>1, <1>3
  <2> QED
    BY <2>1, <2>2, <2>3 DEF Black
<1>5. W = After(W)
  <2>1. ASSUME NEW n \in Link PROVE W[n] = After(W)[n]
    <3>1. CASE n = NULL
      BY <3>1, <1>3, ZenonT(60)
    <3>2. CASE n # NULL
      <4>1. n \in Key
        BY <3>2 DEF Link
      <4>2. W[l(n)] = bh[l(n)] /\ W[g(n)] = bh[g(n)]
        BY <4>1, <1>1, <1>2, ZenonT(60) DEF Link
      <4>3. W[n] = Value(n, bh[l(n)], bh[g(n)])
        <5>1. CASE n \in N
          BY <5>1, <1>4
        <5>2. CASE n \notin N
          <6>1. n \notin N \cup {NULL}
            BY <5>2, <3>2
          <6> HIDE DEF Value, l, g
          <6> QED
            BY <6>1
        <5> QED
          BY <5>1, <5>2
      <4> HIDE DEF W, l, g, Value
      <4>4. After(W)[n] = Value(n, W[l(n)], W[g(n)])
        BY <3>2
      <4> QED
        BY <4>2, <4>3, <4>4
    <3> QED
      BY <3>1, <3>2, ZenonT(60)
  <2> HIDE DEF Value, l, g
  <2>2. W = [n \in Link |-> W[n]] /\ After(W) = [n \in Link |-> After(W)[n]]
    OBVIOUS
  <2> HIDE DEF W, After
  <2> QED
    BY <2>1, <2>2
<1>6. f = After(f)
  <2> HIDE DEF W, After
  <2> QED
    BY <1>5
<1>7. BlackHeight(T, r) = f[r]
  BY DEF BlackHeight
<1> HIDE DEF f
<1>8. f[NULL] = 0
  BY <1>6 DEF Link
<1>9. N \subseteq {n \in Link : f[n] = bh[n]}
  <2> DEFINE P == {n \in Link : f[n] = bh[n]}
  <2>1. NULL \in P
    BY <1>3, <1>8 DEF Link
  <2>2. ASSUME NEW n \in N, \A s \in Side : T.child[s][n] \in P PROVE n \in P
    <3>1. n \in Link /\ n # NULL
      BY <1>2 DEF Link
    <3>2. f[n] = Value(n, f[l(n)], f[g(n)])
      <4> HIDE DEF Value, l, g
      <4> QED
        BY <1>6, <3>1
    <3>3. f[l(n)] = bh[l(n)] /\ f[g(n)] = bh[g(n)]
      BY <2>2 DEF Side
    <3> HIDE DEF Value, l, g
    <3> QED
      BY <3>1, <3>2, <3>3, <1>4
  <2> HIDE DEF P
  <2>3. N \subseteq P
    BY <2>1, <2>2, FromTheLeaves
  <2> QED
    BY <2>3 DEF P
<1> HIDE DEF Value, l, g
<1> QED
  BY <1>3, <1>4, <1>7, <1>8, <1>9

\* A whole tree is linked both ways, searchable and red-black.
LEMMA WholeIsRedBlack ==
    ASSUME NEW T, NEW N, NEW sub, Shape(T, N, sub), NEW bh, Whole(T, N, bh)
    PROVE  Linked(T) /\ RedBlack(T)
<1>1. Nodes(T) = N
  BY NodesAre
<1>2. T.root \in N \cup {NULL} /\ NULL \notin N
  BY ShapeSays DEF Shape
<1>3. Linked(T)
  <2>1. T.root # NULL => T.parent[T.root] = NULL
    BY ShapeSaysAbove
  <2>2. \A n \in N, s \in Side : T.child[s][n] # NULL => T.parent[T.child[s][n]] = n
    BY ShapeSays
  <2> QED
    BY <1>1, <2>1, <2>2 DEF Linked
<1>4. BlackHeight(T, T.root) # -1
  <2>1. BlackHeight(T, T.root) = bh[T.root] /\ bh[T.root] \in Nat
    BY <1>2, BlackHeightIs
  <2> QED
    BY <2>1
<1>5. InsertColours(T, N, NULL)
  BY DEF Whole
<1>6. ~IsRed(T, T.root)
  BY <1>5 DEF InsertColours, IsRed
<1>7. \A n \in N : T.red[n] => ~IsRed(T, T.parent[n])
  BY <1>2, <1>5 DEF InsertColours
<1> QED
  BY <1>1, <1>3, <1>4, <1>6, <1>7 DEF RedBlack

\* A search tree can be searched.
LEMMA ShapeIsSearchable ==
    ASSUME KeysOrdered, NEW T, NEW N, NEW sub, Shape(T, N, sub)
    PROVE  Searchable(T)
<1>1. Nodes(T) = N
  BY NodesAre
<1>2. T.root \in N \cup {NULL} /\ N \subseteq Key /\ sub[T.root] = N
  BY ShapeSays DEF Shape
<1>3. \A n \in N : Find(T, n, T.root) = n
  BY <1>2, FindIs
<1> QED
  BY <1>1, <1>3 DEF Searchable
=============================================================================
