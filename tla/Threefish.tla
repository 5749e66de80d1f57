----------------------------- MODULE Threefish -----------------------------
(***************************************************************************)
(* Skein_256_Process_Block of lib/hash_func_skein256.c, the cipher itself: *)
(* its rounds never move a word, every second one takes other pairs, and   *)
(* the key schedule is either read modulo 5 and 3 (the default) or, with   *)
(* SKEIN_UNROLL_256, extended by a word per injection in the one array kw, *)
(* in which the tweaks grow into the keys that lie behind them.            *)
(*                                                                         *)
(* Words have TfBits bits.  Four rounds and the injection behind them are  *)
(* a step.                                                                 *)
(***************************************************************************)
EXTENDS Integers, SequencesExt, Bitwise

CONSTANTS
    TfBits,      \* bound: the width of a word, 64 in the code
    RCNT,        \* SKEIN_256_ROUNDS_TOTAL / 8
    Rotation,    \* R_256_0 .. R_256_7, a pair for each of eight rounds
    Parity,      \* SKEIN_KS_PARITY
    TfKey,       \* bound: chaining variables, sequences of four words
    TfBlock,     \* bound: blocks, sequences of four words
    TfTweak,     \* bound: tweaks, pairs of words, of which the second marks the first block
    TfMaxBlocks  \* bound: the blocks of one call

TfWord == 0 .. 2^TfBits - 1

ASSUME ThreefishAssumption ==
    /\ TfBits \in Nat /\ TfBits > 2 /\ RCNT \in Nat \ {0}
    /\ Rotation \in [0 .. 7 -> [0 .. 1 -> 1 .. TfBits - 1]]
    /\ Parity \in TfWord /\ TfMaxBlocks \in Nat \ {0}

VARIABLES
    tf_loops,   \* SKEIN_UNROLL_256 is not 0
    tf_X,       \* ctx->X
    kw,         \* the key schedule, tweaks first
    x,          \* X0 .. X3
    w,          \* the block in work
    injected,   \* the injections since the first; -1 between blocks, -2 before the call
    tf_todo,    \* the blocks left, each with its byteCntAdd
    tf_given    \* the arguments: X, T and the blocks

tfVars == <<tf_loops, tf_X, kw, x, w, injected, tf_todo, tf_given>>

SKEIN_T1_FLAG_FIRST == 2^(TfBits - 2)

Add(a, b) == (a + b) % 2^TfBits
RotL(a, n) == Add(a * 2^n, a \div 2^(TfBits - n))

\* kw[0], kw[1], ... are the tweaks, kw[3], ... the keys.
ts(a, i) == a[i]
ks(a, i) == a[3 + i]

\* Round256 number d of eight, which takes the words as <<0, 1, 2, 3>> or <<0, 3, 2, 1>>.
Round256(X, d) ==
    LET p == IF d % 2 = 0 THEN <<0, 1, 2, 3>> ELSE <<0, 3, 2, 1>>
        a == Add(X[p[1]], X[p[2]])
        b == Add(X[p[3]], X[p[4]])
    IN [X EXCEPT ![p[1]] = a, ![p[2]] = RotL(@, Rotation[d][0]) ^^ a,
                 ![p[3]] = b, ![p[4]] = RotL(@, Rotation[d][1]) ^^ b]

\* I256, injection s: of the words of the schedule, by remainder or as they follow
\* in kw.
I256(X, s) ==
    LET key(i) == ks(kw, IF tf_loops THEN s + i ELSE (s + i) % 5)
        tweak(i) == ts(kw, IF tf_loops THEN s + i ELSE (s + i) % 3)
    IN [i \in 0 .. 3 |-> Add(X[i], key(i) + (CASE i \in 1 .. 2 -> tweak(i - 1)
                                               [] i = 3 -> s
                                               [] OTHER -> 0))]

\* Mutant: the tweak goes first, into the key word the next line wants.
Rotated_TweakFirst(s) ==
    LET t == [kw EXCEPT ![s + 2] = ts(kw, s - 1)]
    IN  [t EXCEPT ![3 + s + 4] = ks(t, s - 1)]

\* The rotation of the schedule behind injection s: a key, then a tweak, which takes
\* the place of the key just copied.
Rotated(s) ==
    LET k == [kw EXCEPT ![3 + s + 4] = ks(kw, s - 1)]
    IN  [k EXCEPT ![s + 2] = ts(k, s - 1)]

-----------------------------------------------------------------------------
ThreefishInit ==
    /\ tf_loops \in BOOLEAN
    /\ tf_X = <<>> /\ tf_todo = <<>> /\ tf_given = <<>>
    /\ kw = [i \in 0 .. 7 + 2 * RCNT |-> 0]
    /\ x = [i \in 0 .. 3 |-> 0] /\ w = x
    /\ injected = -2

\* The call, with blkCnt blocks.
Called256 ==
    /\ injected = -2
    /\ \E X \in TfKey, T \in TfTweak, n \in 1 .. TfMaxBlocks : \E blocks \in [1 .. n -> TfBlock] :
        /\ tf_X' = [i \in 0 .. 3 |-> X[i + 1]]
        /\ tf_todo' = [i \in 1 .. n |-> [block |-> blocks[i], add |-> IF n = 1 THEN 3 ELSE 4]]
        /\ kw' = [kw EXCEPT ![0] = T[1], ![1] = T[2]]
        /\ tf_given' = [X |-> tf_X', T |-> T, todo |-> tf_todo']
    /\ injected' = -1
    /\ UNCHANGED <<tf_loops, x, w>>

\* The key schedule of a block and the first injection.
TakeBlock ==
    LET ts0 == Add(kw[0], Head(tf_todo).add)
        parity == FoldLeft(LAMBDA sum, i : sum ^^ tf_X[i], Parity, <<0, 1, 2, 3>>)
        block == [i \in 0 .. 3 |-> Head(tf_todo).block[i + 1]]
    IN
    /\ injected = -1 /\ tf_todo # <<>>
    /\ kw' = [i \in DOMAIN kw |->
         CASE i = 0 -> ts0
           [] i = 2 -> ts0 ^^ kw[1]
           [] i \in 3 .. 6 -> tf_X[i - 3]
           [] i = 7 -> parity
           [] OTHER -> kw[i]]
    /\ w' = block
    /\ x' = [i \in 0 .. 3 |-> Add(block[i], tf_X[i] + (CASE i = 1 -> ts0
                                                         [] i = 2 -> kw[1]
                                                         [] OTHER -> 0))]
    /\ injected' = 0
    /\ tf_todo' = Tail(tf_todo)
    /\ UNCHANGED <<tf_loops, tf_X, tf_given>>

\* A half of R256_8_rounds.
FourRounds ==
    LET d == 4 * (injected % 2)
        s == injected + 1
    IN
    /\ injected \in 0 .. 2 * RCNT - 1
    /\ x' = I256(FoldLeft(Round256, x, <<d, d + 1, d + 2, d + 3>>), s)
    /\ kw' = IF tf_loops THEN Rotated(s) ELSE kw
    /\ injected' = s
    /\ UNCHANGED <<tf_loops, tf_X, w, tf_todo, tf_given>>

FeedForward ==
    /\ injected = 2 * RCNT
    /\ tf_X' = [i \in 0 .. 3 |-> x[i] ^^ w[i]]
    /\ kw' = [kw EXCEPT ![1] = @ & (2^TfBits - 1 - SKEIN_T1_FLAG_FIRST)]
    /\ injected' = -1
    /\ UNCHANGED <<tf_loops, x, w, tf_todo, tf_given>>

ThreefishNext == Called256 \/ TakeBlock \/ FourRounds \/ FeedForward
-----------------------------------------------------------------------------
\* Threefish-256 of a block under a key and a tweak: each round mixes the words in
\* pairs and exchanges the second and the fourth; every four rounds add a subkey.
Encrypted(key, tweak, block) ==
    LET k(i) == IF i % 5 < 4 THEN key[i % 5]
                ELSE FoldLeft(LAMBDA sum, j : sum ^^ key[j], Parity, <<0, 1, 2, 3>>)
        t(i) == CASE i % 3 = 2 -> tweak[1] ^^ tweak[2] [] OTHER -> tweak[(i % 3) + 1]
        subkey(s) == <<k(s), k(s + 1) + t(s), k(s + 2) + t(s + 1), k(s + 3) + s>>
        added(v, s) == [i \in 1 .. 4 |-> Add(v[i], subkey(s)[i])]
        mixed(a, b, n) == <<Add(a, b), RotL(b, n) ^^ Add(a, b)>>
        round(v, d) ==
            LET u == IF d % 4 = 0 THEN added(v, d \div 4) ELSE v
                l == mixed(u[1], u[2], Rotation[d % 8][0])
                r == mixed(u[3], u[4], Rotation[d % 8][1])
            IN <<l[1], r[2], r[1], l[2]>>
    IN added(FoldLeft(round, block, [i \in 1 .. 8 * RCNT |-> i - 1]), 2 * RCNT)

\* The chaining of n blocks: the cipher's key is what the blocks before have left, its
\* tweak the bytes up to and with this block, marked if it is the first.
ChainedThrough(n) ==
    FoldLeft(LAMBDA X, i :
        LET b == tf_given.todo[i]
            pos == Add(tf_given.T[1], i * b.add)
            flags == IF i = 1 THEN tf_given.T[2] ELSE tf_given.T[2] - SKEIN_T1_FLAG_FIRST
            e == Encrypted(X, <<pos, flags>>, b.block)
        IN [j \in 0 .. 3 |-> e[j + 1] ^^ b.block[j + 1]],
      tf_given.X, [i \in 1 .. n |-> i])

\* Both ways to keep the key schedule, and rounds that move no word, make the
\* chaining variables of Threefish and Skein for every block of a call
\* (hash_func_skein256.c:864-1002).
RoundsAreThreefish ==
    injected = -1 => tf_X = ChainedThrough(Len(tf_given.todo) - Len(tf_todo))

=============================================================================
