-------------------------------- MODULE Sha1 --------------------------------
(***************************************************************************)
(* The stream of lib/hash_func_sha1.c around its compression function:     *)
(* sha1_starts, any number of sha1_update calls, sha1_finish, and          *)
(* lhi_hash_sha1, which passes a key's length through an int.              *)
(*                                                                         *)
(* The chaining state is the sequence of the blocks compressed so far: the *)
(* compression itself is Sha1Rounds.  A byte is known by where it comes    *)
(* from.  Each of the two words of the length takes one place of a block.  *)
(***************************************************************************)
EXTENDS Integers, SequencesExt

CONSTANTS
    BlockLen,   \* bound: the places of a block, 64 in the code
    WordBits,   \* bound: the width of total[0] and total[1], 32 in the code
    MaxBytes,   \* bound: the bytes of a message, given to sha1_update in pieces
    MaxKeyLen   \* bound: the len lhi_hash_sha1 is called with

Word == 0 .. 2^WordBits - 1

ASSUME Sha1Assumption ==
    /\ BlockLen \in Nat /\ BlockLen > 2 /\ WordBits \in Nat /\ WordBits > 3
    /\ 2^WordBits % BlockLen = 0
    /\ MaxBytes \in Nat /\ MaxKeyLen \in Word

VARIABLES
    sha_ctx,    \* the sha1_context
    sha_len,    \* the bytes of the message given so far
    sha_pc      \* "new", "open", "done", or "hashed" by lhi_hash_sha1

sha1Vars == <<sha_ctx, sha_len, sha_pc>>

\* The bytes of a message, those of the padding, and a word of the length.
Bytes(from, to) == [i \in 1 .. to - from + 1 |-> [of |-> "message", v |-> from + i - 1]]
One == [of |-> "padding", v |-> 128]
Zero == [of |-> "padding", v |-> 0]
Length(w) == [of |-> "length", v |-> w]
Unset == [of |-> "memory", v |-> 0]

sha1_starts == [total |-> <<0, 0>>, state |-> <<>>, buffer |-> [i \in 1 .. BlockLen |-> Unset]]

sha1_process(ctx, data) == [ctx EXCEPT !.state = Append(@, data)]

\* memcpy to ctx->buffer + left.
Copied(ctx, left, bytes) ==
    [ctx EXCEPT !.buffer = [i \in 1 .. BlockLen |->
        IF i \in left + 1 .. left + Len(bytes) THEN bytes[i - left] ELSE @[i]]]

Counted(total, n) ==
    LET low == (total[1] + n) % 2^WordBits IN
    <<low, IF low < n THEN (total[2] + 1) % 2^WordBits ELSE total[2]>>

\* The input completes the block in the buffer.
Fills(left, ilen) == left > 0 /\ ilen >= BlockLen - left

sha1_update(ctx, input, ilen) ==
    LET left == ctx.total[1] % BlockLen
        fill == IF Fills(left, ilen) THEN BlockLen - left ELSE 0
        counted == [ctx EXCEPT !.total = Counted(@, ilen)]
        filled == Copied(counted, left, SubSeq(input, 1, fill))
        first == IF fill > 0 THEN sha1_process(filled, filled.buffer) ELSE counted
        rest == SubSeq(input, fill + 1, ilen)
        blocks == Len(rest) \div BlockLen
        direct == [i \in 1 .. blocks |-> SubSeq(rest, (i - 1) * BlockLen + 1, i * BlockLen)]
    IN  IF ilen <= 0 THEN ctx
        ELSE Copied(FoldLeft(sha1_process, first, direct), IF fill > 0 THEN 0 ELSE left,
                    SubSeq(rest, blocks * BlockLen + 1, Len(rest)))

\* Mutant: the length is put into a block that has no room for it.
padn_NoRoom(last) == IF last < BlockLen THEN BlockLen - last - 2 ELSE 2 * BlockLen - 2 - last

padn(last) == IF last < BlockLen - 2 THEN BlockLen - 2 - last ELSE 2 * BlockLen - 2 - last

sha1_finish(ctx) ==
    LET high == (ctx.total[1] \div 2^(WordBits - 3) + ctx.total[2] * 8) % 2^WordBits
        low == (ctx.total[1] * 8) % 2^WordBits
        n == padn(ctx.total[1] % BlockLen)
    IN  sha1_update(sha1_update(ctx, <<One>> \o [i \in 1 .. n - 1 |-> Zero], n),
                    <<Length(high), Length(low)>>, 2)

\* What an int makes of an unsigned word.
AsInt(x) == IF x < 2^(WordBits - 1) THEN x ELSE x - 2^WordBits

-----------------------------------------------------------------------------
Sha1Init == sha_ctx = sha1_starts /\ sha_len = 0 /\ sha_pc = "new"

Sha1Update ==
    /\ sha_pc \in {"new", "open"}
    /\ \E n \in 0 .. 2^(WordBits - 1) - 1 :
        /\ sha_len + n <= MaxBytes
        /\ sha_ctx' = sha1_update(sha_ctx, Bytes(sha_len + 1, sha_len + n), n)
        /\ sha_len' = sha_len + n
    /\ sha_pc' = "open"

Sha1Finish ==
    /\ sha_pc = "open"
    /\ sha_ctx' = sha1_finish(sha_ctx)
    /\ sha_pc' = "done"
    /\ UNCHANGED sha_len

lhi_hash_sha1 ==
    /\ sha_pc = "new"
    /\ \E len \in 0 .. MaxKeyLen :
        /\ sha_ctx' = sha1_finish(sha1_update(sha1_starts, Bytes(1, len), AsInt(len)))
        /\ sha_len' = len
    /\ sha_pc' = "hashed"

Sha1Next == Sha1Update \/ Sha1Finish \/ lhi_hash_sha1
-----------------------------------------------------------------------------
\* What FIPS 180-1 compresses for a message of n bytes: the message, a one, as few
\* zeros as fill a block up to its length, and the length in bits.
Padded(n) ==
    LET zeros == CHOOSE k \in 0 .. BlockLen - 1 : (n + 1 + k + 2) % BlockLen = 0
    IN  Bytes(1, n) \o <<One>> \o [i \in 1 .. zeros |-> Zero]
          \o <<Length((8 * n) \div 2^WordBits), Length((8 * n) % 2^WordBits)>>

\* The digest is the standard's for every message and every way to cut it, also where
\* the padding takes a block of its own and where the byte count carries; of a key
\* whose length is negative as an int it is the digest of the empty message
\* (hash_func_sha1.c:297-317, 343-349).
DigestIsFips ==
    /\ sha_pc = "done" => FlattenSeq(sha_ctx.state) = Padded(sha_len)
    /\ sha_pc = "hashed" =>
         FlattenSeq(sha_ctx.state) = Padded(IF sha_len < 2^(WordBits - 1) THEN sha_len ELSE 0)
=============================================================================
