-------------------------------- MODULE Bits --------------------------------
(***************************************************************************)
(* The bit operations of the C sources, as arithmetic on naturals: the     *)
(* shifts and masks of cache.c and utils.c are divisions, products and     *)
(* remainders by powers of two.  Pow2 is a recursive function, and not the *)
(* operator ^ of Naturals, so that what is said of it can be proved        *)
(* (module BitsProofs); its domain is the shift counts that C defines on   *)
(* a 64-bit word.                                                          *)
(***************************************************************************)
EXTENDS Integers

ShiftCount == 0 .. 63

Pow2[n \in ShiftCount] == IF n = 0 THEN 1 ELSE 2 * Pow2[n - 1]

\* a >> n on an unsigned word.
Shr(a, n) == a \div Pow2[n]

\* a << n, before it is cut to the width of its word.
Shl(a, n) == a * Pow2[n]

\* a & ((1 << n) - 1).
LowBits(a, n) == a % Pow2[n]

\* The bits lo .. hi of a, moved to bit 0.
BitField(a, hi, lo) == LowBits(Shr(a, lo), hi - lo + 1)

\* The value of the n-bit pattern a (0 <= a < 2^n) read as two's complement.
Signed(a, n) == IF a >= Pow2[n - 1] THEN a - Pow2[n] ELSE a

=============================================================================
