------------------------------ MODULE HalfFloat ------------------------------
(***************************************************************************)
(* half_to_float and float_to_half of src/src/types.rs, which every kernel *)
(* on half-precision texels goes through.  A float is its three fields; a  *)
(* half is its 16 bits.                                                    *)
(***************************************************************************)
EXTENDS Integers

Infinity == 31 * 1024

(* 1 << n. *)
TwoTo[n \in 0..30] == IF n = 0 THEN 1 ELSE 2 * TwoTo[n - 1]

(* The shifts that bring a subnormal's highest bit to where it is implied. *)
Shifts(m) == CHOOSE n \in 1..10 : m * TwoTo[n] \in 1024..2047

HalfToFloat(h) ==
  LET exp == (h \div 1024) % 32
      mant == h % 1024
      F(e, m) == [sign |-> h \div 32768, exp |-> e, mant |-> m]
  IN  CASE exp = 0 /\ mant = 0 -> F(0, 0)
        [] exp = 0 /\ mant # 0 -> F(113 - Shifts(mant), ((mant * TwoTo[Shifts(mant)]) % 1024) * 8192)
        [] exp = 31 -> F(255, mant * 8192)
        [] OTHER -> F(exp + 112, mant * 8192)

(* f.abs() * 2^24 is n * 2^-k; the half added to it is 2^(k-1) such units, *)
(* and the sum, when it has 25 bits, is rounded to an even last one.       *)
RoundedSum(n, k) ==
  LET sum == n + TwoTo[k - 1]
  IN  IF sum < TwoTo[24] THEN sum
      ELSE 2 * (sum \div 2 + (IF sum % 4 = 3 THEN 1 ELSE 0))

Subnormal(f) ==
  LET k == 126 - f.exp
  IN  IF k > 25 THEN 0 ELSE RoundedSum(TwoTo[23] + f.mant, k) \div TwoTo[k]

(* float_to_half_except: below the normal halves, above them, or no number.*)
FloatToHalfExcept(f) ==
  CASE f.exp <= 112 -> Subnormal(f)
    [] f.exp = 255  -> Infinity + f.mant \div 8192
    [] OTHER        -> Infinity

RoundedMantissa(f) == (f.mant + 4096) \div 8192

(* Both zeroes become +0.0. *)
FloatToHalf(f) ==
  CASE f.exp = 0 /\ f.mant = 0 -> 0
    [] f.exp \in 113..142 -> f.sign * 32768 + (f.exp - 112) * 1024 + RoundedMantissa(f)
    [] OTHER -> f.sign * 32768 + FloatToHalfExcept(f)
=============================================================================
