------------------------------- MODULE Uint64 -------------------------------
(* uint64_t as four limbs of 16 bits, the lowest first.                     *)
EXTENDS Integers, Sequences, Bitwise

Limb == 2 ^ 16

\* Explicit tuples: TLC would evaluate a limb of a function anew at each use.
AddWords(x, y) ==
    LET sum[i \in 1 .. 4] == x[i] + y[i] + (IF i = 1 THEN 0 ELSE sum[i - 1] \div Limb)
        limb(i) == sum[i] % Limb
    IN  <<limb(1), limb(2), limb(3), limb(4)>>

Complement(x) == <<Limb - 1 - x[1], Limb - 1 - x[2], Limb - 1 - x[3], Limb - 1 - x[4]>>

SubWords(x, y) == AddWords(AddWords(x, Complement(y)), <<1, 0, 0, 0>>)

XorWords(x, y) == <<x[1] ^^ y[1], x[2] ^^ y[2], x[3] ^^ y[3], x[4] ^^ y[4]>>

LimbOf(x, i) == IF i \in 1 .. 4 THEN x[i] ELSE 0

ShiftRight(x, n) ==
    LET q == n \div 16
        r == n % 16
        limb(i) == LimbOf(x, i + q) \div 2 ^ r + ((LimbOf(x, i + q + 1) * 2 ^ (16 - r)) % Limb)
    IN  <<limb(1), limb(2), limb(3), limb(4)>>

ShiftLeft(x, n) ==
    LET q == n \div 16
        r == n % 16
        limb(i) == ((LimbOf(x, i - q) * 2 ^ r) % Limb) + LimbOf(x, i - q - 1) \div 2 ^ (16 - r)
    IN  <<limb(1), limb(2), limb(3), limb(4)>>

SwapLimb(l) == (l % 256) * 256 + l \div 256

\* vhtobe64 on a little-endian machine.
SwapBytes(x) == <<SwapLimb(x[4]), SwapLimb(x[3]), SwapLimb(x[2]), SwapLimb(x[1])>>

\* Eight bytes in memory.
FromBytes(b) == <<b[1] + 256 * b[2], b[3] + 256 * b[4], b[5] + 256 * b[6], b[7] + 256 * b[8]>>
=============================================================================
