------------------------------ MODULE Skein256 ------------------------------
(***************************************************************************)
(* lib/hash_func_skein256.c around its block cipher: the buffering of the  *)
(* message, the tweak that goes with every block, the configuration, key   *)
(* and output blocks, and lhi_hash_skein256.                               *)
(*                                                                         *)
(* The chaining variables X are the sequence of the blocks processed, with *)
(* their tweaks: the cipher keeps all of them apart.  A byte is known by   *)
(* where it comes from; the configuration takes one place of its block.    *)
(***************************************************************************)
EXTENDS Integers, SequencesExt

CONSTANTS
    BlockBytes,   \* bound: SKEIN_256_BLOCK_BYTES, 32 in the code
    HashBits,     \* bound: the values of hashBitLen
    MaxKeyBytes,  \* bound: keyBytes of Skein_256_InitExt
    MaxMsg,       \* bound: the bytes of a message, given in pieces
    LenBits,      \* bound: the width of the uint32_t len * 8
    MaxLen        \* bound: the len lhi_hash_skein256 is called with

ASSUME SkeinAssumption ==
    /\ BlockBytes \in Nat /\ BlockBytes > 1
    /\ HashBits \subseteq Nat \ {0}
    /\ MaxKeyBytes \in Nat /\ MaxMsg \in Nat
    /\ LenBits \in Nat /\ LenBits > 3 /\ MaxLen \in 0 .. 2^LenBits - 1

VARIABLES
    sk_ctx,    \* the Skein_256_Ctxt_t
    sk_in,     \* the calls so far: bytes of key and message, and odd bits
    sk_hash,   \* hashVal
    sk_pc      \* "new", "open", "done", or "hashed" by lhi_hash_skein256

skeinVars == <<sk_ctx, sk_in, sk_hash, sk_pc>>

Byte(of, v) == [from |-> of, v |-> v]
Stream(of, a, b) == [i \in 1 .. b - a + 1 |-> Byte(of, a + i - 1)]
Nil == Byte("zero", 0)
Nils(n) == [i \in 1 .. n |-> Nil]

\* A tweak: T[0], and the type and flags in T[1].
Tweak(type, final) ==
    [pos |-> 0, type |-> type, first |-> TRUE, final |-> final, bit_pad |-> FALSE]

NewContext ==
    [X |-> <<>>, T |-> Tweak("none", FALSE), hashBitLen |-> 0, bCnt |-> 0,
     b |-> [i \in 1 .. BlockBytes |-> Byte("memory", 0)]]

Skein_Start_New_Type(ctx, type, final) == [ctx EXCEPT !.T = Tweak(type, final), !.bCnt = 0]

\* Mutant: every block of a message is marked as its first.
ProcessOne_First(ctx, block, byteCntAdd) ==
    LET T == [ctx.T EXCEPT !.pos = @ + byteCntAdd]
    IN  [ctx EXCEPT !.X = Append(@, [block |-> block, T |-> T]), !.T = T]

\* Skein_256_Process_Block of one block.
ProcessOne(ctx, block, byteCntAdd) ==
    LET T == [ctx.T EXCEPT !.pos = @ + byteCntAdd]
    IN  [ctx EXCEPT !.X = Append(@, [block |-> block, T |-> T]), !.T = [T EXCEPT !.first = FALSE]]

\* Of the first n blocks of msg.
Skein_256_Process_Block(ctx, msg, n, byteCntAdd) ==
    FoldLeft(LAMBDA c, i : ProcessOne(c, SubSeq(msg, (i - 1) * BlockBytes + 1, i * BlockBytes), byteCntAdd),
             ctx, [i \in 1 .. n |-> i])

\* memcpy to b[bCnt].
Buffered(ctx, bytes) ==
    [ctx EXCEPT !.bCnt = @ + Len(bytes),
                !.b = [i \in 1 .. BlockBytes |->
                    IF i \in ctx.bCnt + 1 .. ctx.bCnt + Len(bytes) THEN bytes[i - ctx.bCnt] ELSE @[i]]]

\* The message goes beyond one block: the last one, full or not, is held back.
Exceeds(ctx, msg) == Len(msg) + ctx.bCnt > BlockBytes

Skein_256_Update(ctx, msg) ==
    LET n == IF ctx.bCnt > 0 THEN BlockBytes - ctx.bCnt ELSE 0
        filled == Buffered(ctx, SubSeq(msg, 1, n))
        first == IF ctx.bCnt = 0 THEN ctx
                 ELSE [ProcessOne(filled, filled.b, BlockBytes) EXCEPT !.bCnt = 0]
        rest == SubSeq(msg, n + 1, Len(msg))
        blocks == IF Len(rest) > BlockBytes THEN (Len(rest) - 1) \div BlockBytes ELSE 0
    IN  IF Exceeds(ctx, msg)
          THEN Buffered(Skein_256_Process_Block(first, rest, blocks, BlockBytes),
                        SubSeq(rest, blocks * BlockBytes + 1, Len(rest)))
        ELSE Buffered(ctx, msg)

\* The final block, and the counter blocks that make the output.  Of the result, the
\* parts: the chaining variables behind each counter block and the bytes taken.
Skein_256_Final(ctx) ==
    LET padded == Buffered([ctx EXCEPT !.T.final = TRUE], Nils(BlockBytes - ctx.bCnt))
        last == ProcessOne(padded, padded.b, ctx.bCnt)
        byteCnt == (ctx.hashBitLen + 7) \div 8
        parts == (byteCnt + BlockBytes - 1) \div BlockBytes
        counted(i) == ProcessOne(Skein_Start_New_Type(last, "OUT", TRUE),
                                 <<Byte("counter", i)>> \o Nils(BlockBytes - 1), 8)
        left(i) == byteCnt - i * BlockBytes
    IN [i \in 1 .. parts |->
         [X |-> counted(i - 1).X,
          n |-> IF left(i - 1) >= BlockBytes THEN BlockBytes ELSE left(i - 1)]]

\* The configuration block, and the message type to go on with.
Configured(ctx, hashBitLen, treeInfo) ==
    LET cfg == <<[Byte("config", hashBitLen) EXCEPT !.from = treeInfo]>> \o Nils(BlockBytes - 1)
        begun == Skein_Start_New_Type([ctx EXCEPT !.hashBitLen = hashBitLen], "CFG", TRUE)
    IN  Skein_Start_New_Type(ProcessOne(begun, cfg, BlockBytes), "MSG", FALSE)

\* The initial values the code has precomputed for four lengths stand for this, too.
Skein_256_Init(hashBitLen) == Configured(NewContext, hashBitLen, "sequential")

Skein_256_InitExt(hashBitLen, treeInfo, keyBytes) ==
    LET begun == Skein_Start_New_Type([NewContext EXCEPT !.hashBitLen = 8 * BlockBytes], "KEY", FALSE)
        digest == Skein_256_Final(Skein_256_Update(begun, Stream("key", 1, keyBytes)))
    IN  Configured(IF keyBytes = 0 THEN NewContext ELSE [begun EXCEPT !.X = digest[1].X],
                   hashBitLen, treeInfo)

\* Update of the AHS interface, with bits odd bits behind the whole bytes: they go
\* into a byte that a one bit ends.
Update(ctx, msg, bits) ==
    IF bits = 0 THEN Skein_256_Update(ctx, msg)
    ELSE [Skein_256_Update(Skein_256_Update(ctx, msg), <<Byte("odd bits", bits)>>)
            EXCEPT !.T.bit_pad = TRUE]

-----------------------------------------------------------------------------
SkeinInit ==
    /\ sk_ctx = NewContext /\ sk_pc = "new"
    /\ sk_in = [key |-> 0, msg |-> 0, bits |-> 0]
    /\ sk_hash = <<>>

SkeinStart ==
    /\ sk_pc = "new"
    /\ \E bits \in HashBits :
        \/ sk_ctx' = Skein_256_Init(bits) /\ UNCHANGED sk_in
        \/ \E n \in 0 .. MaxKeyBytes :
            /\ sk_ctx' = Skein_256_InitExt(bits, "sequential", n)
            /\ sk_in' = [sk_in EXCEPT !.key = n]
    /\ sk_pc' = "open"
    /\ UNCHANGED sk_hash

\* Only the last call may have odd bits.
SkeinUpdate ==
    /\ sk_pc = "open" /\ sk_in.bits = 0
    /\ \E n \in 0 .. MaxMsg - sk_in.msg, bits \in {0, 3} :
        /\ sk_ctx' = Update(sk_ctx, Stream("message", sk_in.msg + 1, sk_in.msg + n), bits)
        /\ sk_in' = [sk_in EXCEPT !.msg = @ + n, !.bits = bits]
    /\ UNCHANGED <<sk_hash, sk_pc>>

SkeinFinal ==
    /\ sk_pc = "open"
    /\ sk_hash' = Skein_256_Final(sk_ctx)
    /\ sk_pc' = "done"
    /\ UNCHANGED <<sk_ctx, sk_in>>

\* len * 8, a uint32_t before it becomes a DataLength.
BitLength(len) == (len * 8) % 2^LenBits

\* Hash, of whole bytes.
lhi_hash_skein256 ==
    /\ sk_pc = "new"
    /\ \E len \in 0 .. MaxLen :
        /\ sk_hash' = Skein_256_Final(Update(Skein_256_Init(8 * BlockBytes),
                                             Stream("message", 1, BitLength(len) \div 8), 0))
        /\ sk_in' = [sk_in EXCEPT !.msg = len]
    /\ sk_pc' = "hashed"
    /\ UNCHANGED sk_ctx

SkeinNext == SkeinStart \/ SkeinUpdate \/ SkeinFinal \/ lhi_hash_skein256
-----------------------------------------------------------------------------
\* The blocks of a message as Skein chains them: at least one, zeros at the end, each
\* with the bytes up to its end, the first and the last one marked, the odd bits on
\* the last.
Chained(type, bytes, bit_pad) ==
    LET blocks == IF bytes = <<>> THEN 1 ELSE (Len(bytes) + BlockBytes - 1) \div BlockBytes
        all == bytes \o Nils(blocks * BlockBytes - Len(bytes))
    IN [i \in 1 .. blocks |->
         [block |-> SubSeq(all, (i - 1) * BlockBytes + 1, i * BlockBytes),
          T |-> [pos |-> IF i = blocks THEN Len(bytes) ELSE i * BlockBytes, type |-> type,
                 first |-> i = 1, final |-> i = blocks, bit_pad |-> bit_pad /\ i = blocks]]]

Single(type, head, pos) ==
    <<[block |-> <<head>> \o Nils(BlockBytes - 1),
       T |-> [Tweak(type, TRUE) EXCEPT !.pos = pos]]>>

\* Key, configuration and message, one after the other.
Absorbed(key, hashBitLen, msg, bits) ==
    (IF key = 0 THEN <<>>
     ELSE Chained("KEY", Stream("key", 1, key), FALSE) \o Single("OUT", Byte("counter", 0), 8))
      \o Single("CFG", Byte("sequential", hashBitLen), BlockBytes)
      \o Chained("MSG", Stream("message", 1, msg)
                          \o (IF bits = 0 THEN <<>> ELSE <<Byte("odd bits", bits)>>), bits > 0)

\* The digest is that of Skein for every message, key and length of the output,
\* whatever pieces the message came in; of a key of a table it is that of its first
\* bytes, those whose number of bits a uint32_t has counted
\* (hash_func_skein256.c:1134-1214, 1289-1308).
DigestIsSkein ==
    LET bits == IF sk_pc = "hashed" THEN 8 * BlockBytes ELSE sk_ctx.hashBitLen
        msg == IF sk_pc = "hashed" THEN sk_in.msg % 2^(LenBits - 3) ELSE sk_in.msg
        n == (bits + 7) \div 8
    IN sk_pc \in {"done", "hashed"} =>
        /\ FoldLeft(LAMBDA sum, part : sum + part.n, 0, sk_hash) = n
        /\ \A i \in 1 .. Len(sk_hash) :
            sk_hash[i].X = Absorbed(sk_in.key, bits, msg, sk_in.bits)
                             \o Single("OUT", Byte("counter", i - 1), 8)

=============================================================================
