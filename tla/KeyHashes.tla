----------------------------- MODULE KeyHashes ------------------------------
(***************************************************************************)
(* How the block hashes read a key: murmur (lib/hash_func_murmur.c),       *)
(* jenkins3 (lib/hash_func_jenkins3.c), jenkins2 and hsieh.  On a machine  *)
(* that is little endian, the first two take different ways for keys at    *)
(* different addresses modulo four; a key is looked up from another        *)
(* address than it was inserted from.                                      *)
(*                                                                         *)
(* A word is its bytes, the lowest first: the byte i of the key, or 0.     *)
(* The hash is the sequence of the words that go into its mixing, which    *)
(* does not depend on the address.                                         *)
(***************************************************************************)
EXTENDS Integers, SequencesExt

CONSTANT MaxHashedLen   \* bound: the length of a key

ASSUME KeyHashesAssumption == MaxHashedLen \in Nat

VARIABLES
    kh_alg,    \* the function called
    kh_len,    \* the length of the key
    kh_align,  \* its address modulo 4
    kh_words   \* the words mixed

keyHashVars == <<kh_alg, kh_len, kh_align, kh_words>>

\* The byte behind data[i], memory that is not the key's, and two values in one byte.
At(len, i) == IF i < len THEN i + 1 ELSE -1
Both(x, y) == IF x = 0 THEN y ELSE IF y = 0 THEN x ELSE -2

Empty == [i \in 0 .. 3 |-> 0]
WordAt(len, i) == [j \in 0 .. 3 |-> At(len, i + j)]

\* x << 8 * n, x >> 8 * n and x | y.
Shl(x, n) == [j \in 0 .. 3 |-> IF j >= n THEN x[j - n] ELSE 0]
Shr(x, n) == [j \in 0 .. 3 |-> IF j + n <= 3 THEN x[j + n] ELSE 0]
Joined(x, y) == [j \in 0 .. 3 |-> Both(x[j], y[j])]

\* Mutant: a case too many.
Cases_OneMore(len, data, n) == [j \in 0 .. 3 |-> IF j <= n THEN At(len, data + j) ELSE 0]

\* The fall-through cases n .. 1: data[n - 1] << 8 * (n - 1), ..., data[0].
Cases(len, data, n) == [j \in 0 .. 3 |-> IF j < n THEN At(len, data + j) ELSE 0]

Mix(w) == <<[op |-> "mix", word |-> w]>>
Rest(w) == <<[op |-> "rest", word |-> w]>>

(***************************************************************************)
(* Murmur.                                                                 *)
(***************************************************************************)
\* The words an address is brought to a boundary with.
Prefix(len, align) ==
    Shl([j \in 0 .. 3 |-> IF j < 4 - align THEN At(len, j) ELSE 0], align)

\* Mutant: the rest of the key decides whether a whole word is left.
murmur_Ends_Strict(rest, align) == rest > align

\* A whole word is left in what was read ahead and the bytes behind it.
murmur_Ends(rest, align) == rest >= align

murmur_hash_unaligned(len, align) ==
    LET sl == 4 - align
        sr == align
        begin == [t |-> Prefix(len, align), data |-> 4 - align, words |-> <<>>]
        turn(s) == LET d == WordAt(len, s.data) IN
            [t |-> d, data |-> s.data + 4, words |-> s.words \o Mix(Joined(Shr(s.t, sr), Shl(d, sl)))]
        end == FoldLeft(LAMBDA s, i : turn(s), begin, [i \in 1 .. (len - (4 - align)) \div 4 |-> i])
        rest == len - end.data
        ahead(n) == Joined(Shr(end.t, sr), Shl(Cases(len, end.data, n), sl))
    IN  IF murmur_Ends(rest, align)
          THEN end.words \o Mix(ahead(align))
                 \o (IF rest = align THEN <<>>
                     ELSE Rest(Cases(len, end.data + align, rest - align)))
        ELSE end.words \o Rest(ahead(rest))

murmur_hash2(len, align) ==
    LET blocks == len \div 4 IN
    IF align > 0 /\ len >= 4 THEN murmur_hash_unaligned(len, align)
    ELSE FlattenSeq([i \in 1 .. blocks |-> Mix(WordAt(len, 4 * (i - 1)))])
           \o (IF len % 4 = 0 THEN <<>> ELSE Rest(Cases(len, 4 * blocks, len % 4)))

(***************************************************************************)
(* Jenkins.                                                                *)
(***************************************************************************)
\* The 12 bytes behind data into a, b and c.
Twelve(len, data) == [n \in 1 .. 3 |-> WordAt(len, data + 4 * (n - 1))]

\* The last bytes, into a, b and c.  Where the address allows it the words are read
\* whole, 32 or 16 bits at a time, and only the odd bytes on their own.
LastByWords(len, data, rest) ==
    [n \in 1 .. 3 |-> IF rest >= 4 * n THEN WordAt(len, data + 4 * (n - 1))
                      ELSE Cases(len, data + 4 * (n - 1), rest - 4 * (n - 1))]

LastByHalves(len, data, rest) ==
    [n \in 1 .. 3 |->
        LET d == data + 4 * (n - 1)
            r == rest - 4 * (n - 1)
            low == IF r >= 2 THEN [Empty EXCEPT ![0] = At(len, d), ![1] = At(len, d + 1)] ELSE Empty
        IN  CASE r >= 4 -> WordAt(len, d)
              [] r = 3 -> [low EXCEPT ![2] = At(len, d + 2)]
              [] r = 1 -> [low EXCEPT ![0] = At(len, d)]
              [] OTHER -> low]

LastByBytes(len, data, rest) ==
    [n \in 1 .. 3 |-> Cases(len, data + 4 * (n - 1), rest - 4 * (n - 1))]

\* The last block, whole or not, is not one of the loop's.
HashlittleBlocks(len) == IF len = 0 THEN 0 ELSE (len - 1) \div 12

hashlittle(len, align) ==
    LET blocks == HashlittleBlocks(len)
        rest == len - 12 * blocks
        last == CASE align = 0 -> LastByWords(len, 12 * blocks, rest)
                  [] align = 2 -> LastByHalves(len, 12 * blocks, rest)
                  [] OTHER -> LastByBytes(len, 12 * blocks, rest)
    IN FlattenSeq([i \in 1 .. blocks |-> Mix(Twelve(len, 12 * (i - 1)))])
         \o (IF rest = 0 THEN <<>> ELSE Rest(last))

\* lookup2: the lowest byte of c is reserved for the length.
jenkins_hash(len) ==
    LET blocks == len \div 12
        data == 12 * blocks
        rest == len - data
        c == Shl(Cases(len, data + 8, rest - 8), 1)
    IN FlattenSeq([i \in 1 .. blocks |-> Mix(Twelve(len, 12 * (i - 1)))])
         \o Rest(<<Cases(len, data, rest), Cases(len, data + 4, rest - 4), c>>)

\* SuperFastHash: 16 bits at a time, byte by byte on most machines.
HsiehSuperFastHash(len) ==
    LET blocks == len \div 4
        data == 4 * blocks
    IN FlattenSeq([i \in 1 .. blocks |-> Mix(WordAt(len, 4 * (i - 1)))])
         \o (IF len % 4 = 0 THEN <<>> ELSE Rest(Cases(len, data, len % 4)))

-----------------------------------------------------------------------------
KeyHashesInit ==
    /\ kh_alg = "none" /\ kh_len = 0 /\ kh_align = 0
    /\ kh_words = <<>>

Called(alg) ==
    /\ kh_alg = "none"
    /\ kh_alg' = alg
    /\ kh_len' \in 0 .. MaxHashedLen /\ kh_align' \in 0 .. 3

lhi_hash_murmur == Called("murmur") /\ kh_words' = murmur_hash2(kh_len', kh_align')
lhi_hash_jenkins3 == Called("jenkins3") /\ kh_words' = hashlittle(kh_len', kh_align')
lhi_hash_jenkins2 == Called("jenkins2") /\ kh_words' = jenkins_hash(kh_len')
lhi_hash_hsieh == Called("hsieh") /\ kh_words' = HsiehSuperFastHash(kh_len')

KeyHashesNext ==
    lhi_hash_murmur \/ lhi_hash_jenkins3 \/ lhi_hash_jenkins2 \/ lhi_hash_hsieh
-----------------------------------------------------------------------------
\* A key has one hash, wherever it lies in memory: murmur and jenkins3 mix the words
\* they mix for an aligned key (hash_func_murmur.c:32-98, hash_func_jenkins3.c:187-344).
SameHashAnywhere ==
    /\ kh_alg = "murmur" => kh_words = murmur_hash2(kh_len, 0)
    /\ kh_alg = "jenkins3" => kh_words = hashlittle(kh_len, 0)

\* Every byte of the key goes into its hash exactly once, and nothing that lies behind
\* it in memory or before it; and the whole words are in the key's order.
BytesOf(e) ==
    IF DOMAIN e.word = 0 .. 3 THEN [j \in 1 .. 4 |-> e.word[j - 1]]
    ELSE FlattenSeq([n \in 1 .. 3 |-> [j \in 1 .. 4 |-> e.word[n][j - 1]]])

EveryByteOnce ==
    kh_alg # "none" =>
        SelectSeq(FlattenSeq([i \in 1 .. Len(kh_words) |-> BytesOf(kh_words[i])]), LAMBDA x : x # 0)
          = [i \in 1 .. kh_len |-> i]
=============================================================================
