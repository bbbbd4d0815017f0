-------------------------------- MODULE Half --------------------------------
(***************************************************************************)
(* The conversions between binary32 and binary16 (internal/ops/f16.go),    *)
(* through which every row of the KV caches goes.  A number is its sign    *)
(* and its other bits, [sign, bits]: 31 bits for a float32, of which 8 are *)
(* the exponent, and 15 for a half, of which 5 are.                        *)
(***************************************************************************)
EXTENDS Integers

Infinity32 == 255 * 2^23
Infinity16 == 31 * 2^10
QuietNaN16 == Infinity16 + 2^9

Halves   == [sign : {0, 1}, bits : 0..2^15-1]
Floats   == [sign : {0, 1}, bits : 0..Infinity32 + (2^23 - 1)]
IsNaN(x, infinity) == x.bits > infinity

(* A subnormal's fraction is shifted until its leading bit shows.          *)
shifts(mant) == CHOOSE k \in 1..10 : mant * 2^k \in 2^10..2^11-1

F16ToF32(h) ==
  LET exp  == h.bits \div 2^10
      mant == h.bits % 2^10
      bits == IF exp = 0
              THEN IF mant = 0 THEN 0
                   ELSE LET k == shifts(mant)
                        IN  (127 - 15 + 1 - k) * 2^23 + (mant * 2^k - 2^10) * 2^13
              ELSE IF exp = 31 THEN Infinity32 + mant * 2^13
              ELSE (exp + 127 - 15) * 2^23 + mant * 2^13
  IN  [sign |-> h.sign, bits |-> bits]

(* Mutant: ties go up.                                                     *)
rounded_halfUp(mant, shift) ==
  LET half == mant \div 2^shift IN
  IF mant % 2^shift >= 2^(shift - 1) THEN half + 1 ELSE half

(* mant without its last shift bits, to nearest, ties to even.             *)
rounded(mant, shift) ==
  LET half == mant \div 2^shift
      rem  == mant % 2^shift
  IN  IF rem > 2^(shift - 1) \/ (rem = 2^(shift - 1) /\ half % 2 = 1)
      THEN half + 1 ELSE half

(* The exponent joins the fraction before it is rounded, so that a carry   *)
(* moves on to the next exponent, and from the last one to infinity.       *)
F32ToF16(f) ==
  LET exp  == f.bits \div 2^23
      mant == f.bits % 2^23
      e    == exp - 127 + 15
      bits == IF exp = 255 THEN IF mant # 0 THEN QuietNaN16 ELSE Infinity16
              ELSE IF e >= 31 THEN Infinity16
              ELSE IF e < -10 THEN 0
              ELSE IF e <= 0 THEN rounded(mant + 2^23, 14 - e)
              ELSE rounded(e * 2^23 + mant, 13)
  IN  [sign |-> f.sign, bits |-> bits]

-----------------------------------------------------------------------------
(* What "nearest" means, without the arithmetic of the code.               *)

(* A float32 as significand and exponent: f = s * 2^(e - 150).             *)
Significand(f) == IF f.bits < 2^23 THEN f.bits ELSE 2^23 + (f.bits % 2^23)
Exponent(f)    == IF f.bits < 2^23 THEN 1 ELSE f.bits \div 2^23

(* The point between a half and the next is (2*s + 1) * 2^(e - 26).        *)
MidSignificand(b) == 2 * (IF b < 2^10 THEN b ELSE 2^10 + (b % 2^10)) + 1
MidExponent(b)    == IF b < 2^10 THEN 1 ELSE b \div 2^10

(* How f compares with the point above the half b: -1, 0 or 1.             *)
Compare(f, b) ==
  LET s == Significand(f)
      m == MidSignificand(b)
      k == (MidExponent(b) - 26) - (Exponent(f) - 150)
      q == IF k > 24 THEN 0 ELSE s \div 2^k
  IN  IF k < 0 THEN 1
      ELSE IF q < m THEN -1
      ELSE IF q = m /\ s % 2^k = 0 THEN 0 ELSE 1

(* The half h is the nearest one to the number f, the even one on a tie.   *)
Nearest(h, f) ==
  /\ h.bits > 0 => \/ Compare(f, h.bits - 1) = 1
                   \/ Compare(f, h.bits - 1) = 0 /\ h.bits % 2 = 0
  /\ h.bits < Infinity16 => \/ Compare(f, h.bits) = -1
                            \/ Compare(f, h.bits) = 0 /\ h.bits % 2 = 0
=============================================================================
