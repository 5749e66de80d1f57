------------------------------- MODULE RBTree -------------------------------
(***************************************************************************)
(* The red-black trees of lib/hi_rbtree.c: pointers, rotations and the     *)
(* bodies of the loops that restore the colours after an insertion or a    *)
(* removal.  A tree is a record of a root and the pointers and colours of  *)
(* its nodes.  The left and right halves of the code mirror each other:    *)
(* they are written once, for a side s and its opposite.                   *)
(*                                                                         *)
(* A node is named by its key: the addresses malloc returns are drawn from *)
(* one per key, so the memory of a freed node is never used for another.   *)
(***************************************************************************)
EXTENDS Integers, FiniteSets

CONSTANTS
    Key,     \* the keys
    NULL,    \* no node
    KeyCmp   \* key_cmp, a function [Key \X Key -> Int]

ASSUME RBTreeAssumption ==
    /\ NULL \notin Key
    /\ KeyCmp \in [Key \X Key -> Int]

(***************************************************************************)
(* What key_cmp has to be for a tree to be searchable: 0 for equal keys    *)
(* only, of opposite signs both ways round, and transitive.  Strings are   *)
(* compared like that, and integers less than half their range apart.      *)
(***************************************************************************)
KeysOrdered ==
    /\ \A a, b \in Key : KeyCmp[<<a, b>>] = 0 <=> a = b
    /\ \A a, b \in Key : KeyCmp[<<a, b>>] < 0 <=> KeyCmp[<<b, a>>] > 0
    /\ \A a, b, c \in Key : KeyCmp[<<a, b>>] < 0 /\ KeyCmp[<<b, c>>] < 0 => KeyCmp[<<a, c>>] < 0

Side == {"left", "right"}
Opposite(s) == IF s = "left" THEN "right" ELSE "left"

Link == Key \cup {NULL}

EmptyTree ==
    [root |-> NULL,
     child |-> [s \in Side |-> [n \in Key |-> NULL]],
     parent |-> [n \in Key |-> NULL],
     red |-> [n \in Key |-> FALSE]]

\* f with f[x] = v, and f itself when x is NULL.
Put(f, x, v) == [y \in DOMAIN f |-> IF y = x THEN v ELSE f[y]]

\* A red node; the missing children of the leaves are black.
IsRed(T, n) == n # NULL /\ T.red[n]

Paint(T, n, red) == [T EXCEPT !.red = Put(@, n, red)]

\* Which child of p the node n is.
SideOf(T, n, p) == IF T.child["left"][p] = n THEN "left" ELSE "right"

\* The link that points to n, in its parent p or in the root, points to m.
Relink(T, p, n, m) ==
    IF p = NULL THEN [T EXCEPT !.root = m]
                ELSE [T EXCEPT !.child[SideOf(T, n, p)][p] = m]

\* Mutant: the subtree in the middle keeps its old parent.
Rotate_KeepsParent(T, n, s) ==
    LET up == T.child[Opposite(s)][n]
        p == T.parent[n]
    IN [Relink(T, p, n, up) EXCEPT
            !.child[Opposite(s)][n] = T.child[s][up],
            !.child[s][up] = n,
            !.parent = Put(Put(@, up, p), n, up)]

\* __rb_rotate_left, __rb_rotate_right: n goes down on side s and its child on
\* the other side takes its place.
Rotate(T, n, s) ==
    LET up == T.child[Opposite(s)][n]
        mid == T.child[s][up]
        p == T.parent[n]
    IN [Relink(T, p, n, up) EXCEPT
            !.child[Opposite(s)][n] = mid,
            !.child[s][up] = n,
            !.parent = Put(Put(Put(@, mid, n), up, p), n, up)]

(***************************************************************************)
(* Searching.  Larger keys are on the left: a negative difference leads to *)
(* the right.                                                              *)
(***************************************************************************)
SideFor(k, n) == IF KeyCmp[<<k, n>>] < 0 THEN "right" ELSE "left"

\* The node of key k, or NULL, in the subtree of r.
Find(T, k, r) ==
    LET f[n \in Link] ==
            IF n = NULL THEN NULL
            ELSE IF KeyCmp[<<k, n>>] = 0 THEN n ELSE f[T.child[SideFor(k, n)][n]]
    IN f[r]

\* The node under which key k, absent, belongs, or NULL in an empty tree.
LinkParent(T, k) ==
    LET f[n \in Link] ==
            IF n = NULL \/ T.child[SideFor(k, n)][n] = NULL
              THEN n ELSE f[T.child[SideFor(k, n)][n]]
    IN f[T.root]

\* The nodes hi_rbtree_traverse visits from r.
Subtree(T, r) ==
    LET f[n \in Link] ==
            IF n = NULL THEN {}
            ELSE {n} \cup f[T.child["left"][n]] \cup f[T.child["right"][n]]
    IN f[r]

(***************************************************************************)
(* Insertion.                                                              *)
(***************************************************************************)
\* rb_link_node: a red leaf under p.
rb_link_node(T, n, p) ==
    LET T1 == IF p = NULL THEN [T EXCEPT !.root = n]
                          ELSE [T EXCEPT !.child[SideFor(n, p)][p] = n]
    IN [T1 EXCEPT !.parent[n] = p, !.red[n] = TRUE,
                  !.child["left"][n] = NULL, !.child["right"][n] = NULL]

\* rb_insert_color, the loop condition: two red nodes in a row.
RedRed(T, n) == IsRed(T, T.parent[n])

Grandparent(T, n) == T.parent[T.parent[n]]

\* The side of n's grandparent its parent is on, and the uncle on the other.
ParentSide(T, n) == SideOf(T, T.parent[n], Grandparent(T, n))
Uncle(T, n) == T.child[Opposite(ParentSide(T, n))][Grandparent(T, n)]

\* A red uncle: recolour and go on with the grandparent.
InsertRecolour(T, n) ==
    Paint(Paint(Paint(T, Uncle(T, n), FALSE), T.parent[n], FALSE), Grandparent(T, n), TRUE)

\* n is the inner child of its parent: rotated up it becomes the parent.
IsInner(T, n) == SideOf(T, n, T.parent[n]) # ParentSide(T, n)

InsertInner(T, n) == Rotate(T, T.parent[n], ParentSide(T, n))

\* n is the outer child: the grandparent is rotated down and the loop ends.
InsertOuter(T, n) ==
    LET g == Grandparent(T, n)
        T1 == Paint(Paint(T, T.parent[n], FALSE), g, TRUE)
    IN Rotate(T1, g, Opposite(ParentSide(T, n)))

(***************************************************************************)
(* Removal.                                                                *)
(***************************************************************************)
\* The leftmost node of the subtree of n.
Leftmost(T, n) ==
    LET f[m \in Key] == IF T.child["left"][m] = NULL THEN m ELSE f[T.child["left"][m]]
    IN f[n]

\* A node with at most one child: the child takes its place.
Splice(T, n) ==
    LET child == IF T.child["left"][n] = NULL THEN T.child["right"][n] ELSE T.child["left"][n]
        p == T.parent[n]
    IN [tree |-> Relink([T EXCEPT !.parent = Put(@, child, p)], p, n, child),
        node |-> child, parent |-> p, red |-> T.red[n]]

\* Mutant: the successor keeps its own colour in its new place.
SpliceSuccessor_OwnColour(T, old) ==
    LET n == Leftmost(T, T.child["right"][old])
        S == Splice(T, n)
        T1 == [S.tree EXCEPT !.parent[n] = T.parent[old],
                             !.child["left"][n] = S.tree.child["left"][old],
                             !.child["right"][n] = S.tree.child["right"][old]]
        T2 == Relink(T1, T.parent[old], old, n)
    IN [S EXCEPT !.tree = [T2 EXCEPT !.parent = Put(Put(@, T1.child["left"][n], n), T1.child["right"][n], n)],
                 !.parent = IF @ = old THEN n ELSE @]

\* A node with two children: its successor is spliced out and takes its place
\* and colour.
SpliceSuccessor(T, old) ==
    LET n == Leftmost(T, T.child["right"][old])
        S == Splice(T, n)
        T1 == [S.tree EXCEPT !.parent[n] = T.parent[old], !.red[n] = T.red[old],
                             !.child["left"][n] = S.tree.child["left"][old],
                             !.child["right"][n] = S.tree.child["right"][old]]
        T2 == Relink(T1, T.parent[old], old, n)
    IN [S EXCEPT !.tree = [T2 EXCEPT !.parent = Put(Put(@, T1.child["left"][n], n), T1.child["right"][n], n)],
                 !.parent = IF @ = old THEN n ELSE @]

\* rb_erase without the rebalancing: the tree, the node and parent to rebalance
\* from, and the colour that is missing there.
rb_erase(T, n) ==
    IF T.child["left"][n] # NULL /\ T.child["right"][n] # NULL
      THEN SpliceSuccessor(T, n) ELSE Splice(T, n)

\* The freed node's memory holds nothing.
Forget(T, n) ==
    [T EXCEPT !.parent[n] = NULL, !.red[n] = FALSE,
              !.child["left"][n] = NULL, !.child["right"][n] = NULL]

\* __rb_erase_color, the loop condition.
LacksBlack(T, n) == ~IsRed(T, n) /\ n # T.root

\* The sibling of n, a child of p, and its children away from and next to n.
Sibling(T, n, p) == T.child[Opposite(SideOf(T, n, p))][p]
Far(T, n, p) == T.child[Opposite(SideOf(T, n, p))][Sibling(T, n, p)]
Near(T, n, p) == T.child[SideOf(T, n, p)][Sibling(T, n, p)]

\* Mutant: the red sibling and its parent keep their colours.
EraseRedSibling_NoPaint(T, n, p) == Rotate(T, p, SideOf(T, n, p))

\* A red sibling: rotated, its parent and the parent's new child trade colours.
EraseRedSibling(T, n, p) ==
    Rotate(Paint(Paint(T, Sibling(T, n, p), FALSE), p, TRUE), p, SideOf(T, n, p))

\* Black nephews: the parent lacks a black node instead.
EraseRecolour(T, n, p) == Paint(T, Sibling(T, n, p), TRUE)

\* The far nephew is black, the near one red: rotated up it becomes the sibling.
EraseNear(T, n, p) ==
    LET o == Sibling(T, n, p) IN
    Rotate(Paint(Paint(T, Near(T, n, p), FALSE), o, TRUE), o, Opposite(SideOf(T, n, p)))

\* The far nephew is red: the rotation brings the missing black node.
EraseFar(T, n, p) ==
    LET T1 == Paint(Paint(T, Sibling(T, n, p), T.red[p]), p, FALSE)
    IN Rotate(Paint(T1, Far(T, n, p), FALSE), p, SideOf(T, n, p))

(***************************************************************************)
(* How far the loops still have to go.  An insertion climbs towards the    *)
(* root, and an inner child takes one more iteration.  A removal climbs as *)
(* long as the parent is black; under a red parent, which is also what a   *)
(* red sibling turns it into, at most the rotations are left.              *)
(***************************************************************************)
Depth(T, n) ==
    LET f[m \in Link] == IF m = NULL THEN 0 ELSE 1 + f[T.parent[m]]
    IN f[n]

InsertMeasure(T, n) ==
    IF ~RedRed(T, n) THEN 0 ELSE 1 + 2 * Depth(T, n) + (IF IsInner(T, n) THEN 1 ELSE 0)

EraseMeasure(T, n, p) ==
    IF ~LacksBlack(T, n) THEN 0
    ELSE (IF T.red[p] THEN 1 ELSE 1 + 4 * Depth(T, p))
         + (IF IsRed(T, Sibling(T, n, p)) THEN 3
            ELSE IF IsRed(T, Near(T, n, p)) /\ ~IsRed(T, Far(T, n, p)) THEN 1 ELSE 0)

(***************************************************************************)
(* What a tree is meant to be.                                             *)
(***************************************************************************)
Nodes(T) == Subtree(T, T.root)

\* Parents and children agree.
Linked(T) ==
    /\ T.root # NULL => T.parent[T.root] = NULL
    /\ \A n \in Nodes(T), s \in Side :
        T.child[s][n] # NULL => T.parent[T.child[s][n]] = n

\* The search for the key of a node leads to it.
Searchable(T) == \A n \in Nodes(T) : Find(T, n, T.root) = n

\* The black nodes on each path down from r, or -1 if the paths differ.
BlackHeight(T, r) ==
    LET f[n \in Link] ==
            IF n = NULL THEN 0
            ELSE LET l == f[T.child["left"][n]] IN
                 IF l = -1 \/ l # f[T.child["right"][n]] THEN -1
                 ELSE IF T.red[n] THEN l ELSE l + 1
    IN f[r]

RedBlack(T) ==
    /\ ~IsRed(T, T.root)
    /\ \A n \in Nodes(T) : T.red[n] => ~IsRed(T, T.parent[n])
    /\ BlackHeight(T, T.root) # -1
=============================================================================
