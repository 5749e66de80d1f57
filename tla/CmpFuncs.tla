------------------------------ MODULE CmpFuncs ------------------------------
(***************************************************************************)
(* The integer comparisons of lib/cmp_funcs.c.  Each returns the           *)
(* difference of its arguments as an int: exact for the 16 bit types,      *)
(* which are promoted to int, modulo 2^32 for uint32_t, and for int32_t    *)
(* where the difference overflows (undefined in C, the usual builds wrap). *)
(* Half is 2^31, the number of negative values of an int.                  *)
(***************************************************************************)
EXTENDS Integers

CONSTANT Half

ASSUME CmpFuncsAssumption == Half \in Nat \ {0}

\* What is left of an integer x in an int.
Wrap(x) == ((x + Half) % (2 * Half)) - Half

hi_cmp_uint32_t(a, b) == Wrap(a - b)

hi_cmp_int32_t(a, b) == Wrap(a - b)

hi_cmp_uint16_t(a, b) == a - b

hi_cmp_int16_t(a, b) == a - b

\* Keys that pairwise differ by less than half the range.
Close(a, b) == a - b < Half /\ b - a < Half
=============================================================================
