------------------------------ MODULE PixelMath ------------------------------
(***************************************************************************)
(* Single-precision arithmetic as far as alpha multiplication needs it     *)
(* (multalpha_t of src/src/utils.rs): a float is m * 2^e with m at most    *)
(* 2^24, and a product is rounded to 24 bits, ties to even.  The integers  *)
(* multiplied in are below 2^16, and no intermediate value here exceeds    *)
(* 2^29.  Two halves have 11 bits each, and their product is exact.        *)
(***************************************************************************)
EXTENDS HalfFloat

Limb == 4096

(* The bits by which top * Limb + low exceeds 24. *)
Excess(top) ==
  CHOOSE k \in 0..18 : top < Limb * TwoTo[k] /\ (k > 0 => top >= Limb * TwoTo[k - 1])

(* top * Limb + low without its last k bits, rounded. *)
Rounded(top, low, k) ==
  LET cut == IF k <= 12 THEN TwoTo[k] ELSE TwoTo[k - 12]
      q == IF k <= 12 THEN top * (Limb \div cut) + low \div cut ELSE top \div cut
      rest == IF k <= 12 THEN low % cut ELSE (top % cut) * Limb + low
      up == k > 0 /\ (2 * rest > TwoTo[k] \/ (2 * rest = TwoTo[k] /\ q % 2 = 1))
  IN  IF up THEN q + 1 ELSE q

(* x * n for a float x and an integer n that is a float. *)
TimesInt(x, n) ==
  LET lowPart == (x.m % Limb) * n
      top == (x.m \div Limb) * n + lowPart \div Limb
      k == Excess(top)
  IN  [m |-> Rounded(top, lowPart % Limb, k), e |-> x.e + k]

(* The integer part of a float below 2^24. *)
Truncated(x) == IF -x.e > 24 THEN 0 ELSE x.m \div TwoTo[-x.e]

(* 1.0 / 255.0 and 1.0 / 65535.0. *)
OneValueInv(dt) ==
  CASE dt = "uint8"  -> [m |-> 8421505, e |-> -31]
    [] dt = "uint16" -> [m |-> 8388736, e |-> -39]

(* The code of 1.0 for halves. *)
OneValue(dt) == CASE dt = "uint8" -> 255 [] dt = "uint16" -> 65535 [] dt = "half" -> 15360

(* The product of two finite halves as floats; that of a zero is taken to  *)
(* be +0.0, as both zeroes become the same half.                           *)
HalfProduct(a, b) ==
  LET x == HalfToFloat(a)
      y == HalfToFloat(b)
      p == (1024 + x.mant \div 8192) * (1024 + y.mant \div 8192)
      F(exp, mant) == [sign |-> (x.sign + y.sign) % 2, exp |-> exp, mant |-> mant]
  IN  CASE x.exp = 0 \/ y.exp = 0 -> [sign |-> 0, exp |-> 0, mant |-> 0]
        [] x.exp > 0 /\ y.exp > 0 /\ p < TwoTo[21] -> F(x.exp + y.exp - 127, 8 * p - TwoTo[23])
        [] OTHER -> F(x.exp + y.exp - 126, 4 * p - TwoTo[23])

(* Slip: the reciprocal is the next smaller float. *)
PremultipliedLow(dt, value, alpha) ==
  IF dt = "half" THEN FloatToHalf(HalfProduct(value, alpha))
  ELSE Truncated(TimesInt(TimesInt([OneValueInv(dt) EXCEPT !.m = @ - 1], alpha), value))

(* A channel multiplied by the scaled alpha, and cast back.  The cast      *)
(* saturates, but no product reaches past the largest value.  Halves are   *)
(* scaled by 1.0.                                                          *)
Premultiplied(dt, value, alpha) ==
  IF dt = "half" THEN FloatToHalf(HalfProduct(value, alpha))
  ELSE Truncated(TimesInt(TimesInt(OneValueInv(dt), alpha), value))
=============================================================================
