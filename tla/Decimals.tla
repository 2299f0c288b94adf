------------------------------ MODULE Decimals -------------------------------
(***************************************************************************)
(* Python's decimal.Decimal as services/series.py uses it, in the default  *)
(* context: every result is rounded to Digits significant digits, half to  *)
(* even.  The numbers themselves are fractions (module Rationals).         *)
(***************************************************************************)
EXTENDS Rationals, Sequences

CONSTANT Digits   \* getcontext().prec, 28 unless it is set

ASSUME DigitsAssumption == Digits \in Nat \ {0}

\* The whole number nearest to p, of two the even one (ROUND_HALF_EVEN).
HalfEven(p) ==
  LET up == Nearest(p)
  IN  IF 2 * (up * p[2] - p[1]) = p[2] /\ up % 2 = 1 THEN up - 1 ELSE up

\* The decimal an exact result is rounded to; unit is the worth of its last digit.
Decimal(p) ==
  IF p = Zero THEN Zero
  ELSE LET unit == Over(Magnitude(AbsOf(p)), Whole(Ten[Digits - 1]))
       IN  Times(Whole(HalfEven(Over(p, unit))), unit)

\* sum(): rounded after every term.
DecimalSum(values) ==
  LET sum[i \in 0 .. Len(values)] ==
        IF i = 0 THEN Zero ELSE Decimal(Plus(sum[i - 1], values[i]))
  IN  sum[Len(values)]
==============================================================================
