------------------------------ MODULE Rationals ------------------------------
(***************************************************************************)
(* Exact fractions, as reduced pairs <<numerator, denominator>> with a     *)
(* positive denominator.  They stand for the numbers of lib/metrics.ts:    *)
(* the 1e-9 by which round() nudges a double makes it agree with the exact *)
(* value on the inputs it is for.  Module Decimals has the numbers of the  *)
(* server, which are rounded as they are computed.                         *)
(***************************************************************************)
EXTENDS Integers, Functions

Abs(n) == IF n < 0 THEN -n ELSE n

Gcd[p \in Nat \X Nat] ==
  IF p[2] = 0 THEN p[1] ELSE Gcd[<<p[2], p[1] % p[2]>>]

Fractions == {p \in Int \X (Nat \ {0}) : Gcd[<<Abs(p[1]), p[2]>>] = 1}

Frac(n, d) ==
  LET g    == Gcd[<<Abs(n), Abs(d)>>]
      sign == IF d < 0 THEN -1 ELSE 1
  IN  <<(sign * n) \div g, (sign * d) \div g>>

Whole(n) == <<n, 1>>
Zero == Whole(0)

Plus(p, q)  == Frac(p[1] * q[2] + q[1] * p[2], p[2] * q[2])
Minus(p, q) == Frac(p[1] * q[2] - q[1] * p[2], p[2] * q[2])
Times(p, q) == Frac(p[1] * q[1], p[2] * q[2])
Over(p, q)  == Frac(p[1] * q[2], p[2] * q[1])
\* The sum of the values of a function, a list for one.
Total(values) == FoldFunction(Plus, Zero, values)

AbsOf(p)    == <<Abs(p[1]), p[2]>>

Leq(p, q)  == p[1] * q[2] <= q[1] * p[2]
Less(p, q) == p[1] * q[2] < q[1] * p[2]

\* The greatest integer up to p, and the least from p on.
Floor(p) == p[1] \div p[2]
Ceil(p)  == -((-p[1]) \div p[2])

\* The whole number nearest to p, a half going up (Math.round).
Nearest(p) == (2 * p[1] + p[2]) \div (2 * p[2])

\* round(value, places) with scale = 10 ** places, and Decimal.quantize with
\* ROUND_HALF_UP: a half goes away from zero.
Rounded(p, scale) ==
  LET up == Nearest(<<Abs(p[1]) * scale, p[2]>>)
  IN  Frac(IF p[1] < 0 THEN -up ELSE up, scale)

\* Powers of ten, and the one a positive number has in its decimal notation:
\* 10 ** Math.floor(Math.log10(p)), and the place of a Decimal's first digit.
Ten[k \in Nat] == IF k = 0 THEN 1 ELSE 10 * Ten[k - 1]
Magnitude(p) ==
  IF Leq(Whole(1), p)
  THEN Whole(Ten[CHOOSE k \in 0 .. p[1] :
                   p[2] * Ten[k] <= p[1] /\ p[1] < p[2] * Ten[k + 1]])
  ELSE Frac(1, Ten[CHOOSE k \in 1 .. p[2] :
                     p[2] <= p[1] * Ten[k] /\ p[1] * Ten[k - 1] < p[2]])
==============================================================================
