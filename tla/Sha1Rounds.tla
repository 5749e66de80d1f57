----------------------------- MODULE Sha1Rounds -----------------------------
(***************************************************************************)
(* sha1_process of lib/hash_func_sha1.c: eighty rounds, written out, in    *)
(* which the five variables change their roles instead of their values and *)
(* sixteen words are extended in place.  The variables are unsigned longs, *)
(* twice as wide as the algorithm's words where long has 64 bits, and the  *)
(* rotation S leaves what it shifts out in the upper half.  Next to them   *)
(* goes the loop of FIPS 180-1 on words of the right width.                *)
(*                                                                         *)
(* Words have Bits bits here, and the constants their Bits lowest bits.    *)
(***************************************************************************)
EXTENDS Integers, Sequences, Bitwise

CONSTANTS
    Bits,       \* bound: the width of a word, 32 in the code
    Rot5,       \* the rotations by 5 and by 30
    Rot30,
    RoundConst, \* K, for each twenty rounds
    Block,      \* bound: blocks, sequences of 16 words
    State       \* bound: chaining states, sequences of 5 words

ASSUME Sha1RoundsAssumption ==
    /\ Bits \in Nat \ {0} /\ Rot5 \in 1 .. Bits - 1 /\ Rot30 \in 1 .. Bits - 1
    /\ RoundConst \in [0 .. 3 -> 0 .. 2^Bits - 1]

VARIABLES
    W,          \* W[16]
    reg,        \* A, B, C, D, E
    ctx_state,  \* ctx->state
    t,          \* the next round; 81 is the end
    fips_W,     \* the 80 words of the standard, those computed so far
    fips_reg    \* its a, b, c, d, e

roundVars == <<W, reg, ctx_state, t, fips_W, fips_reg>>

Narrow(x) == x % 2^Bits

\* What an unsigned long keeps.
Long(x) == x % 2^(2 * Bits)

\* Mutant: the right part is not masked.
S_Unmasked(x, n) == Long(x * 2^n) | (x \div 2^(Bits - n))

S(x, n) == Long(x * 2^n) | (Narrow(x) \div 2^(Bits - n))

F(r, x, y, z) ==
    CASE r < 20 -> z ^^ (x & (y ^^ z))
      [] r \in 40 .. 59 -> (x & y) | (z & (x | y))
      [] OTHER -> (x ^^ y) ^^ z

\* R(t): the word of round r, which replaces the one of sixteen rounds ago.
R(r) ==
    IF r < 16 THEN W[r]
    ELSE S((W[(r - 3) % 16] ^^ W[(r - 8) % 16]) ^^ (W[(r - 14) % 16] ^^ W[r % 16]), 1)

\* The variable that plays the i-th part of P in round r: A, B, C, D, E, then E, A, ...
Role(r, i) == (i - r) % 5

Sha1RoundsInit ==
    /\ \E m \in Block, s \in State :
        /\ W = [i \in 0 .. 15 |-> m[i + 1]]
        /\ ctx_state = [i \in 0 .. 4 |-> s[i + 1]]
        /\ fips_W = m
    /\ reg = ctx_state /\ fips_reg = ctx_state
    /\ t = 0

\* P(a, b, c, d, e, x), and the same round of the standard.
Round ==
    LET part(i) == reg[Role(t, i)]
        f(i) == fips_reg[i]
        rotl(x, n) == Narrow(x * 2^n) | (x \div 2^(Bits - n))
        w == IF t < 16 THEN fips_W[t + 1]
             ELSE rotl((fips_W[t - 2] ^^ fips_W[t - 7]) ^^ (fips_W[t - 13] ^^ fips_W[t - 15]), 1)
        fips_f == CASE t < 20 -> (f(1) & f(2)) | ((2^Bits - 1 - f(1)) & f(3))
                    [] t \in 40 .. 59 -> ((f(1) & f(2)) ^^ (f(1) & f(3))) ^^ (f(2) & f(3))
                    [] OTHER -> (f(1) ^^ f(2)) ^^ f(3)
    IN
    /\ t < 80
    /\ W' = [W EXCEPT ![t % 16] = R(t)]
    /\ reg' = [reg EXCEPT
         ![Role(t, 4)] = Long(@ + S(part(0), Rot5) + F(t, part(1), part(2), part(3))
                                + RoundConst[t \div 20] + R(t)),
         ![Role(t, 1)] = S(@, Rot30)]
    /\ fips_W' = IF t < 16 THEN fips_W ELSE Append(fips_W, w)
    /\ fips_reg' = [i \in 0 .. 4 |->
         CASE i = 0 -> Narrow(rotl(f(0), Rot5) + fips_f + f(4) + RoundConst[t \div 20] + w)
           [] i = 2 -> rotl(f(1), Rot30)
           [] OTHER -> f(i - 1)]
    /\ t' = t + 1
    /\ UNCHANGED ctx_state

\* ctx->state has words of the right width again.
AddState ==
    /\ t = 80
    /\ ctx_state' = [i \in 0 .. 4 |-> Narrow(ctx_state[i] + reg[i])]
    /\ t' = 81
    /\ UNCHANGED <<W, reg, fips_W, fips_reg>>

Sha1RoundsNext == Round \/ AddState
-----------------------------------------------------------------------------
\* After every round the five variables, in their parts, are the standard's modulo the
\* word size: neither the words extended in place nor what the wide variables hold
\* above a word makes a difference (hash_func_sha1.c:113-127).
RoundsAreFips ==
    t <= 80 => \A i \in 0 .. 4 : Narrow(reg[Role(t, i)]) = fips_reg[i]
=============================================================================
