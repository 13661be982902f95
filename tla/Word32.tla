------------------------------ MODULE Word32 ------------------------------
(***************************************************************************)
(* 32-bit machine words.  TLC's integers are signed 32-bit numbers, so a   *)
(* word is the pair <<high half, low half>> of two 16-bit numbers; every   *)
(* operation wraps as the C type uint32_t does.                            *)
(***************************************************************************)
EXTENDS Integers

Half == 0 .. 65535
Word == Half \X Half

(* The unsigned word n, 0 <= n, and the word of a small signed number. *)
Uns(n) == <<n \div 65536, n % 65536>>
Sgn(n) == IF n >= 0 THEN Uns(n) ELSE <<(n \div 65536) % 65536, n % 65536>>
(* The value of a word known to be small, and of a small two's-complement one. *)
Low(w) == w[2]
Val(w) == IF w[1] >= 32768 THEN (w[1] - 65536) * 65536 + w[2]
                           ELSE w[1] * 65536 + w[2]

Zero == <<0, 0>>
One  == <<0, 1>>
Ones == <<65535, 65535>>
Top  == <<32768, 0>>

Pow2 == [n \in 0 .. 30 |-> 2 ^ n]

(* The sum of two words and a carry, and what it carries out. *)
AddC(a, b, c) == LET lo == a[2] + b[2] + c
                     hi == a[1] + b[1] + lo \div 65536
                 IN  <<hi % 65536, lo % 65536>>
CarryOut(a, b, c) == (a[1] + b[1] + (a[2] + b[2] + c) \div 65536) \div 65536

Not(a) == <<65535 - a[1], 65535 - a[2]>>
Add(a, b) == AddC(a, b, 0)
Sub(a, b) == AddC(a, Not(b), 1)
Neg(a) == Sub(Zero, a)

(* Bitwise AND of two bytes, tabulated. *)
AndByte ==
    LET nib == [x \in 0 .. 15 |-> [y \in 0 .. 15 |->
                 (x % 2) * (y % 2) + 2 * ((x \div 2) % 2) * ((y \div 2) % 2)
                 + 4 * ((x \div 4) % 2) * ((y \div 4) % 2) + 8 * (x \div 8) * (y \div 8)]]
    IN  [x \in 0 .. 255 |-> [y \in 0 .. 255 |->
          nib[x \div 16][y \div 16] * 16 + nib[x % 16][y % 16]]]
AndHalf(x, y) == AndByte[x \div 256][y \div 256] * 256 + AndByte[x % 256][y % 256]

And(a, b) == <<AndHalf(a[1], b[1]), AndHalf(a[2], b[2])>>
Plus(a, b, c, n) == <<a[1] + b[1] - n * c[1], a[2] + b[2] - n * c[2]>>
Or(a, b)  == Plus(a, b, And(a, b), 1)
Xor(a, b) == Plus(a, b, And(a, b), 2)

Bit(a, n) == IF n >= 16 THEN (a[1] \div Pow2[n - 16]) % 2 ELSE (a[2] \div Pow2[n]) % 2
Sign(a)   == a[1] \div 32768
BitMask(n) == IF n >= 16 THEN <<Pow2[n - 16], 0>> ELSE <<0, Pow2[n]>>

(* Shifts by 0 .. 31, and the shift by 32 or more where a caller needs it. *)
Shl(a, n) == IF n = 0 THEN a
             ELSE IF n >= 32 THEN Zero
             ELSE IF n >= 16 THEN <<(a[2] * Pow2[n - 16]) % 65536, 0>>
             ELSE <<(a[1] * Pow2[n] + (a[2] * Pow2[n]) \div 65536) % 65536,
                    (a[2] * Pow2[n]) % 65536>>
Shr(a, n) == IF n = 0 THEN a
             ELSE IF n >= 32 THEN Zero
             ELSE IF n >= 16 THEN <<0, a[1] \div Pow2[n - 16]>>
             ELSE <<a[1] \div Pow2[n],
                    (a[1] % Pow2[n]) * Pow2[16 - n] + a[2] \div Pow2[n]>>
Sar(a, n) == IF Sign(a) = 0 THEN Shr(a, n) ELSE Not(Shr(Not(a), n))
Ror(a, n) == IF n % 32 = 0 THEN a ELSE Or(Shr(a, n % 32), Shl(a, 32 - (n % 32)))

Ltu(a, b) == a[1] < b[1] \/ (a[1] = b[1] /\ a[2] < b[2])
Leu(a, b) == a = b \/ Ltu(a, b)
Lts(a, b) == Ltu(Xor(a, Top), Xor(b, Top))
Les(a, b) == a = b \/ Lts(a, b)

(* 16 x 16 -> 32, and the two halves of 32 x 32 -> 64 (unsigned, signed). *)
MulHalf(x, y) == LET l == x * (y % 256)
                     h == x * (y \div 256)
                     s == (h % 256) * 256 + l
                 IN  <<(h \div 256 + s \div 65536) % 65536, s % 65536>>
Mul64(a, b) ==
    LET Sum(ll, lh, hl, hh) ==
            LET m1 == ll[1] + lh[2] + hl[2]
                m2 == lh[1] + hl[1] + hh[2] + m1 \div 65536
            IN  [lo |-> <<m1 % 65536, ll[2]>>, hi |-> <<(hh[1] + m2 \div 65536) % 65536, m2 % 65536>>]
    IN  Sum(MulHalf(a[2], b[2]), MulHalf(a[2], b[1]), MulHalf(a[1], b[2]), MulHalf(a[1], b[1]))
Mul(a, b) == Mul64(a, b).lo
MulS64(a, b) ==
    LET p == Mul64(a, b)
        x == IF Sign(a) = 1 THEN Sub(p.hi, b) ELSE p.hi
    IN  [lo |-> p.lo, hi |-> IF Sign(b) = 1 THEN Sub(x, a) ELSE x]

SignByte(n) == IF n % 256 >= 128 THEN (n % 256) - 256 ELSE n % 256
SignHalf(n) == IF n % 65536 >= 32768 THEN (n % 65536) - 65536 ELSE n % 65536
===========================================================================
